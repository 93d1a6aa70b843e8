------------------------ MODULE ExplorationCommandsProofs ------------------------
(***************************************************************************)
(* The commands on one session, for any number of runners, runs, requests, *)
(* changes of the target and faults: one run at a time, a paused session   *)
(* can be resumed, a divergence is the target's.                           *)
(***************************************************************************)
EXTENDS ExplorationCommands, FiniteSetTheorems, SequenceTheorems, TLAPS

-----------------------------------------------------------------------------
(* The inductive invariant *)

\* The run has not put its trace on disk.
Early == {"launch", "control", "act", "persist"}

\* The number of the last run a session names, 0 if it names none.
LastRun(s) == IF s.lastRun = None THEN 0 ELSE s.lastRun

\* The fingerprint a session names was reached by the whole trace of the run it
\* names, and the session counts every action of that trace.
Tells(s) ==
  s.lastFingerprint # None =>
    /\ s.lastRun # None
    /\ s.lastFingerprint.path = traces[s.lastRun]
    /\ Len(traces[s.lastRun]) \in 1..s.actionCount

\* What a runner has read of the session is older than the session.
Remembers(p) ==
  job[p].loaded # None =>
    /\ LastRun(job[p].loaded) <= LastRun(session)
    /\ job[p].loaded.capability => session.capability
    /\ spent.bookmarks = 0 =>
         job[p].loaded.actionCount <= session.actionCount /\ Tells(job[p].loaded)

\* Where a runner is tells what its variables hold.
Places(p) ==
  /\ pc[p] \in {"check", "start"} \cup Operating => job[p].loaded # None
  /\ pc[p] \in Operating => job[p].run \in 1..runs
  /\ pc[p] \in {"bind", "execute", "start"} \cup Operating => session.capability
  /\ job[p].outcome # None => pc[p] \in {"persist", "file", "finish", "abort"}
  /\ job[p].path # <<>> =>
       pc[p] \in (Operating \ {"launch"}) \cup {"abort"}

\* The fingerprint a run keeps is the one behind its last action.
PathKept(p) ==
  IF job[p].last = None THEN job[p].path = <<>>
  ELSE job[p].path # <<>> /\ job[p].last.path = job[p].path

\* A run writes its trace under a number no session names yet, before the
\* checkpoint makes the session name it.
TraceKept(p) ==
  /\ pc[p] \in Early \cup {"file"} => LastRun(session) < job[p].run
  /\ pc[p] \in {"file", "finish"} => traces[job[p].run] = job[p].path
  /\ pc[p] = "file" => job[p].unfiled \cap Filed = {}

\* As long as there are actions to repeat, a run repeats them.
FollowsReplay(p) ==
  pc[p] \in {"launch", "control", "act"} =>
    \A i \in DOMAIN job[p].path \cap DOMAIN Replay(p) :
      job[p].path[i] = Replay(p)[i]

\* Between the checkpoint and the final event the two agree.
Checkpointed(p) ==
  pc[p] = "finish" /\ spent.bookmarks = 0 =>
    /\ CheckpointMatches(session)
    /\ checkpoint # None
    /\ session.actionCount >= Len(traces[checkpoint.run])

Diverged(p) ==
  job[p].outcome = "diverged" /\ spent.bookmarks = 0 =>
    Expected(p).path = job[p].path

RunnerInv(p) ==
  /\ Remembers(p)
  /\ Places(p)
  /\ PathKept(p)
  /\ TraceKept(p)
  /\ FollowsReplay(p)
  /\ Checkpointed(p)
  /\ Diverged(p)

\* Whoever works on it, the session can be believed.
SessionInv ==
  /\ LastRun(session) <= runs
  /\ spent.bookmarks = 0 => Tells(session)
  /\ session.status = "paused" => session.capability

IInv ==
  /\ CommandsInv
  /\ SessionInv
  /\ PausedIsResumable
  /\ RunningIsAttended
  /\ \A p \in Runners : RunnerInv(p)

-----------------------------------------------------------------------------
(* Types *)

\* A fault or a request is counted, and no other is.
LEMMA SpentFacts ==
  ASSUME TypeOK
  PROVE  /\ \A kind \in {"failures", "crashes"} :
              Fault(kind) =>
                /\ spent' \in [{"requests", "bookmarks", "failures", "crashes"} -> Nat]
                /\ spent'.bookmarks = spent.bookmarks
                /\ spent'.failures >= spent.failures
                /\ spent'.crashes >= spent.crashes
                /\ spent'.failures > 0 \/ spent'.crashes > 0
         /\ \A what \in {"requests", "bookmarks"} :
              Spend(what, MaxRequests) =>
                /\ spent' \in [{"requests", "bookmarks", "failures", "crashes"} -> Nat]
                /\ spent'.failures = spent.failures
                /\ spent'.crashes = spent.crashes
                /\ what = "requests" => spent'.bookmarks = spent.bookmarks
                /\ what = "bookmarks" => spent'.bookmarks > 0
<1> USE DEF TypeOK
<1>1. ASSUME NEW kind \in {"failures", "crashes"}, Fault(kind)
      PROVE  /\ spent' = [spent EXCEPT ![kind] = spent[kind] + 1]
             /\ spent[kind] \in Nat
  BY <1>1 DEF Fault
<1>2. ASSUME NEW what \in {"requests", "bookmarks"}, Spend(what, MaxRequests)
      PROVE  /\ spent' = [spent EXCEPT ![what] = spent[what] + 1]
             /\ spent[what] \in Nat
  BY <1>2 DEF Spend
<1>. QED BY SMTT(20), <1>1, <1>2

LEMMA NoJobType == NoJob \in Job
BY CommandsAssumption DEF NoJob, Job, Path, Optional

LEMMA InitInv == Init => IInv
<1> SUFFICES ASSUME Init PROVE IInv
  OBVIOUS
<1> USE CommandsAssumption DEF Init
<1>1. TypeOK
  BY NoJobType
     DEF TypeOK, Session, Statuses, Optional, Path, Target, PCs, Operating
<1>2. OneRunOperates
  BY DEF OneRunOperates, Operating
<1>3. FindingsOnce
  <2>1. Filed = {}
    BY DEF Filed
  <2>. QED BY <2>1, FS_EmptySet DEF FindingsOnce
<1>4. CountCoversTrace /\ PausedIsResumable /\ RunningIsAttended
  BY DEF CountCoversTrace, PausedIsResumable, RunningIsAttended
<1>5. SessionInv
  BY DEF SessionInv, LastRun, Tells
<1>6. ASSUME NEW p \in Runners PROVE RunnerInv(p)
  <2>1. job[p] = NoJob /\ pc[p] \in {"idle", "preflight"}
    OBVIOUS
  <2>. QED
    BY <2>1 DEF NoJob, RunnerInv, Remembers, Places, PathKept, TraceKept,
           FollowsReplay, Checkpointed, Diverged, Early, Operating, Outcomes
<1>. QED BY <1>1, <1>2, <1>3, <1>4, <1>5, <1>6 DEF IInv, CommandsInv

\* What the proofs use of the state they start in.
LEMMA TypeFacts ==
  ASSUME IInv, NEW p \in Runners
  PROVE  /\ TypeOK
         /\ RunnerInv(p)
         /\ job[p] \in Job
         /\ pc[p] \in PCs
         /\ job[p].loaded # None => job[p].loaded \in Session
         /\ pc[p] \in Operating => job[p].run \in 1..MaxRuns
<1>1. TypeOK /\ RunnerInv(p)
  BY DEF IInv, CommandsInv
<1>2. job[p] \in Job /\ pc[p] \in PCs
  BY <1>1 DEF TypeOK
<1>3. job[p].loaded # None => job[p].loaded \in Session
  BY <1>2 DEF Job, Optional
<1>4. pc[p] \in Operating => job[p].run \in 1..MaxRuns
  <2>1. runs \in 0..MaxRuns /\ MaxRuns \in Nat
    BY <1>1, CommandsAssumption DEF TypeOK
  <2>. QED BY <1>1, <2>1 DEF RunnerInv, Places
<1>. QED BY <1>1, <1>2, <1>3, <1>4

LEMMA TotalType ==
  ASSUME IInv, NEW p \in Runners, pc[p] = "file"
  PROVE  /\ Offset(p) \in Nat /\ Segment(p) \in Nat /\ Total(p) \in Nat
         /\ Total(p) = session.actionCount + Segment(p)
         /\ session.actionCount \in Nat
         /\ spent.bookmarks = 0 =>
              Offset(p) <= session.actionCount /\ Total(p) >= Len(job[p].path)
<1>1. /\ job[p].loaded \in Session /\ job[p] \in Job /\ session \in Session
      /\ Remembers(p)
      /\ job[p].loaded # None
  BY TypeFacts DEF TypeOK, RunnerInv, Places, Operating
<1>2. /\ session.actionCount \in Nat
      /\ job[p].loaded.actionCount \in Nat
      /\ Len(job[p].path) \in Nat
      /\ job[p].resumed \in BOOLEAN
  BY <1>1 DEF Session, Job, Path
<1>3. spent.bookmarks = 0 => job[p].loaded.actionCount <= session.actionCount
  BY <1>1 DEF Remembers
<1>4. /\ Offset(p) \in Nat
      /\ spent.bookmarks = 0 => Offset(p) <= session.actionCount
  BY <1>2, <1>3 DEF Offset
<1> DEFINE n == Len(job[p].path)
<1>5. Segment(p) = IF n <= Offset(p) THEN 0 ELSE n - Offset(p)
  BY DEF Segment
<1>6. Total(p) = session.actionCount + Segment(p)
  BY DEF Total
<1> HIDE DEF n
<1>. QED BY SMTT(20), <1>2, <1>4, <1>5, <1>6 DEF n

\* The actions to repeat are the whole trace of the run the session names, or a
\* prefix of it.
LEMMA ReplayType ==
  ASSUME IInv, NEW p \in Runners, pc[p] \in Operating
  PROVE  Replay(p) \in Path
<1>1. /\ job[p].loaded \in Session /\ job[p] \in Job
      /\ traces \in [1..MaxRuns -> Path]
  BY TypeFacts DEF TypeOK, RunnerInv, Places
<1> DEFINE trace == traces[job[p].loaded.lastRun]
<1>2. CASE Offset(p) > 0 /\ job[p].loaded.lastRun # None
  <2>1. trace \in Path
    BY <1>1, <1>2 DEF Session, Optional
  <2>2. Offset(p) \in Nat
    BY <1>1 DEF Offset, Session
  <2>3. Len(trace) > Offset(p) => SubSeq(trace, 1, Offset(p)) \in Path
    <3> HIDE DEF trace
    <3>1. \A i \in 1..Offset(p) : Len(trace) > Offset(p) => i \in 1..Len(trace)
      BY <2>1, <2>2 DEF Path
    <3>2. \A i \in 1..Len(trace) : trace[i] \in 1..MaxRuns
      BY <2>1, ElementOfSeq DEF Path
    <3>3. 1 \in Int /\ Offset(p) \in Int
      BY <2>2
    <3>. QED BY <3>1, <3>2, <3>3, SubSeqProperties DEF Path
  <2>4. Len(trace) \in Nat
    BY <2>1 DEF Path
  <2> HIDE DEF trace
  <2>. QED BY <1>2, <2>1, <2>2, <2>3, <2>4 DEF Replay, trace
<1>3. CASE ~(Offset(p) > 0 /\ job[p].loaded.lastRun # None)
  <2>1. Replay(p) = <<>>
    BY <1>3 DEF Replay
  <2>. QED BY <2>1 DEF Path
<1>. QED BY <1>2, <1>3

\* The steps of a runner before and inside the run.
LEMMA TypeBeforeEnd ==
  ASSUME IInv, NEW p \in Runners,
         \/ PreflightTarget(p) \/ SnapshotCapability(p) \/ Bind(p)
         \/ PreflightFails(p) \/ ResumeLoad(p) \/ ResumeCheck(p)
         \/ ResumeRefused(p) \/ ExecuteLoad(p) \/ Start(p) \/ Run(p)
  PROVE  TypeOK'
<1> USE CommandsAssumption, NoJobType
    DEF TypeOK, files, Move, Goto, End, PCs, Operating
<1>1. /\ TypeOK /\ job[p] \in Job
      /\ pc[p] \in Operating => job[p].run \in 1..MaxRuns
  BY TypeFacts
<1>2. CASE PreflightTarget(p)
  BY <1>1, <1>2 DEF PreflightTarget
<1>3. CASE SnapshotCapability(p)
  BY <1>1, <1>3 DEF SnapshotCapability, Session
<1>4. CASE Bind(p)
  BY <1>1, <1>4 DEF Bind
<1>5. CASE PreflightFails(p)
  BY <1>1, <1>5, SpentFacts DEF PreflightFails
<1>6. CASE ResumeLoad(p)
  <2> DEFINE j == [job[p] EXCEPT !.loaded = session,
                                 !.resumed = session.status = "paused"]
  <2>1. j \in Job
    BY <1>1 DEF Job, Optional
  <2>2. job' = [job EXCEPT ![p] = j]
    BY <1>1, <1>6 DEF ResumeLoad
  <2> HIDE DEF j
  <2>3. job' \in [Runners -> Job]
    BY <1>1, <2>1, <2>2
  <2>. QED BY <1>1, <1>6, <2>3 DEF ResumeLoad
<1>7. CASE ResumeCheck(p)
  BY <1>1, <1>7 DEF ResumeCheck
<1>8. CASE ResumeRefused(p)
  BY <1>1, <1>8, SpentFacts DEF ResumeRefused
<1>9. CASE ExecuteLoad(p)
  <2>1. [job[p] EXCEPT !.loaded = session] \in Job
    BY <1>1 DEF Job, Optional
  <2>2. job' \in [Runners -> Job]
    BY <1>1, <1>9, <2>1 DEF ExecuteLoad
  <2>. QED BY <1>1, <1>9, <2>2 DEF ExecuteLoad
<1>10. CASE Start(p)
  <2>1. CASE TransitionAllowed(session.status, "running")
    <3>1. [session EXCEPT !.status = "running"] \in Session
      BY <1>1 DEF Session, Statuses
    <3>2. runs + 1 \in 0..MaxRuns
      BY <1>1, <1>10 DEF Start
    <3>3. [job EXCEPT ![p].run = runs + 1] \in [Runners -> Job]
      BY <1>1, <3>2 DEF Job
    <3>. QED BY <1>1, <1>10, <2>1, <3>1, <3>2, <3>3 DEF Start
  <2>2. CASE ~TransitionAllowed(session.status, "running")
    BY SMTT(20), <1>1, <1>10, <2>2 DEF Start
  <2>. QED BY <2>1, <2>2
<1>11. CASE Launch(p)
  BY <1>1, <1>11 DEF Launch
<1>12. CASE LaunchFails(p)
  BY <1>1, <1>12 DEF LaunchFails, Job, Optional, Outcomes
<1>13. CASE TakeStop(p)
  <2>1. /\ Head(control) \in {"pause", "kill"}
        /\ Tail(control) \in Seq(Commands)
    BY <1>1, <1>13 DEF TakeStop
  <2> DEFINE j == [job[p] EXCEPT !.accepted = Head(control),
                                 !.outcome = "ended"]
  <2>2. j \in Job
    BY <1>1, <2>1 DEF Job, Optional, Outcomes
  <2>3. job' = [job EXCEPT ![p] = j]
    BY <1>1, <1>13 DEF TakeStop
  <2> HIDE DEF j
  <2>4. job' \in [Runners -> Job]
    BY <1>1, <2>2, <2>3
  <2>5. /\ pc' = [pc EXCEPT ![p] = "persist"] /\ control' = Tail(control)
        /\ UNCHANGED <<session, files, target, pending, runs, spent>>
    BY <1>13 DEF TakeStop
  <2>. QED BY <1>1, <2>1, <2>4, <2>5
<1>14. CASE TakeBookmark(p)
  <2>1. Len(job[p].path) \in Nat /\ Tail(control) \in Seq(Commands)
    BY <1>1, <1>14 DEF TakeBookmark, Job, Path
  <2>2. Append(job[p].bookmarks, Len(job[p].path)) \in Seq(Nat)
    BY <1>1, <2>1 DEF Job
  <2>. QED BY <1>1, <1>14, <2>1, <2>2 DEF TakeBookmark, Job
<1>15. CASE NoRequest(p)
  BY <1>1, <1>15 DEF NoRequest
<1>16. CASE EndRun(p)
  BY <1>1, <1>16 DEF EndRun, Job, Optional, Outcomes
<1>17. CASE Diverge(p)
  BY <1>1, <1>17 DEF Diverge, Job, Optional, Outcomes
<1>18. CASE Act(p)
  <2> DEFINE n == Len(job[p].path)
             a == IF n < Len(Replay(p)) THEN Replay(p)[n + 1] ELSE job[p].run
             path == Append(job[p].path, a)
  <2>1. Replay(p) \in Path
    BY <1>18, ReplayType DEF Act
  <2>2. /\ job[p].path \in Path /\ n \in Nat
        /\ job[p].run \in 1..MaxRuns
    BY <1>1, <1>18 DEF Act, Job, Path
  <2>3. a \in 1..MaxRuns
    <3>1. n < Len(Replay(p)) => n + 1 \in DOMAIN Replay(p)
      BY <2>1, <2>2 DEF Path
    <3>. QED BY SMTT(20), <2>1, <2>2, <3>1 DEF Path
  <2>4. path \in Path
    BY <2>2, <2>3 DEF Path
  <2> HIDE DEF path
  <2>5. [path |-> path, build |-> target.build] \in Fingerprint
    BY <1>1, <2>4 DEF Fingerprint, Target
  <2>6. /\ pc' = [pc EXCEPT ![p] = "control"]
        /\ job' = [job EXCEPT ![p].path = path,
                              ![p].last = [path |-> path, build |-> target.build]]
        /\ UNCHANGED <<session, files, control, target, pending, runs, spent>>
    BY <1>18 DEF Act, path
  <2>7. job' \in [Runners -> Job]
    BY <1>1, <2>4, <2>5, <2>6 DEF Job, Optional
  <2>. QED BY <1>1, <2>6, <2>7
<1>19. CASE RunFails(p)
  BY <1>1, <1>19, SpentFacts DEF RunFails, Job, Optional, Outcomes
<1>. QED BY <1>2, <1>3, <1>4, <1>5, <1>6, <1>7, <1>8, <1>9, <1>10, <1>11, <1>12,
            <1>13, <1>14, <1>15, <1>16, <1>17, <1>18, <1>19 DEF Run

\* The steps after the run, and those of the others.
LEMMA TypeAtEnd ==
  ASSUME IInv, NEW p \in Runners, Settle(p) \/ Crash(p)
  PROVE  TypeOK'
<1> USE CommandsAssumption, NoJobType
    DEF TypeOK, files, Move, Goto, End, PCs, Operating
<1>1. /\ TypeOK /\ job[p] \in Job
      /\ pc[p] \in Operating => job[p].run \in 1..MaxRuns
  BY TypeFacts
<1>2. CASE PersistFindings(p)
  <2>1. PICK reported \in SUBSET FindingIds :
          job' = [job EXCEPT ![p].unfiled = reported \ Filed]
    BY <1>2 DEF PersistFindings
  <2>2. job' \in [Runners -> Job]
    BY <1>1, <2>1 DEF Job
  <2>3. traces' \in [1..MaxRuns -> Path]
    BY <1>1, <1>2 DEF PersistFindings, Job
  <2>. QED BY <1>1, <1>2, <2>2, <2>3 DEF PersistFindings
<1>3. CASE FileFinding(p)
  <2>1. PICK f \in job[p].unfiled :
          /\ findings' = Append(findings, f)
          /\ job' = [job EXCEPT ![p].unfiled = @ \ {f}]
    BY <1>3 DEF FileFinding
  <2>2. f \in FindingIds
    BY <1>1 DEF Job
  <2>3. job' \in [Runners -> Job]
    BY <1>1, <2>1 DEF Job
  <2>4. findings' \in Seq(FindingIds)
    BY <1>1, <2>1, <2>2
  <2>. QED BY <1>1, <1>3, <2>3, <2>4 DEF FileFinding
<1>4. CASE WriteCheckpoint(p)
  <2>1. /\ Total(p) \in Nat
        /\ job[p].last \in Optional(Fingerprint)
        /\ job[p].run \in 1..MaxRuns
    BY <1>1, <1>4, TotalType DEF WriteCheckpoint, Job
  <2>2. checkpoint' \in Optional(Checkpoint)
    BY <1>4, <2>1 DEF WriteCheckpoint, Checkpoint, Optional
  <2>3. session' \in Session
    BY <1>1, <1>4, <2>1 DEF WriteCheckpoint, Session, Optional
  <2>. QED BY <1>1, <1>4, <2>2, <2>3 DEF WriteCheckpoint
<1>5. CASE CheckpointThrows(p)
  BY <1>1, <1>5 DEF CheckpointThrows
<1>6. CASE FileBookmark(p)
  <2>1. /\ Head(job[p].bookmarks) \in Nat
        /\ Tail(job[p].bookmarks) \in Seq(Nat)
    <3>1. job[p].bookmarks \in Seq(Nat) /\ job[p].bookmarks # <<>>
      BY <1>1, <1>6 DEF FileBookmark, Job
    <3>. QED BY <3>1, HeadTailProperties
  <2>2. session' \in Session
    BY <1>1, <1>6, <2>1 DEF FileBookmark, Session
  <2>3. job' \in [Runners -> Job]
    BY <1>1, <1>6, <2>1 DEF FileBookmark, Job
  <2>. QED BY <1>1, <1>6, <2>2, <2>3, SpentFacts DEF FileBookmark
<1>7. CASE DropBookmarks(p)
  <2>1. <<>> \in Seq(Nat)
    OBVIOUS
  <2>2. [job[p] EXCEPT !.bookmarks = <<>>] \in Job
    BY <1>1, <2>1 DEF Job
  <2>3. job' \in [Runners -> Job]
    BY <1>1, <1>7, <2>2 DEF DropBookmarks
  <2>. QED BY <1>1, <1>7, <2>3, SpentFacts DEF DropBookmarks
<1>8. CASE Finish(p)
  <2>1. [session EXCEPT !.status = FinalStatus(p)] \in Session
    BY <1>1 DEF Session, Statuses, FinalStatus
  <2>2. CASE TransitionAllowed(session.status, FinalStatus(p))
    <3>1. /\ session' \in Session
          /\ pc' = [pc EXCEPT ![p] = "report"]
          /\ job' = [job EXCEPT ![p] = NoJob]
          /\ UNCHANGED <<files, control, target, pending, runs, spent>>
      BY <1>8, <2>1, <2>2 DEF Finish
    <3>. QED BY <1>1, <3>1
  <2>3. CASE ~TransitionAllowed(session.status, FinalStatus(p))
    BY <1>1, <1>8, <2>3 DEF Finish
  <2>. QED BY <2>2, <2>3
<1>9. CASE Report(p)
  BY <1>1, <1>9 DEF Report
<1>10. CASE LateFailure(p)
  BY <1>1, <1>10, SpentFacts DEF LateFailure
<1>11. CASE Abort(p)
  <2>1. session' \in Session
    <3>1. [session EXCEPT !.status = "aborted"] \in Session
      BY <1>1 DEF Session, Statuses
    <3>2. session' \in {session, [session EXCEPT !.status = "aborted"]}
      BY <1>11 DEF Abort
    <3>. QED BY <1>1, <3>1, <3>2
  <2>2. spent' \in [{"requests", "bookmarks", "failures", "crashes"} -> Nat]
    BY <1>1, <1>11, SpentFacts DEF Abort
  <2>. QED BY <1>1, <1>11, <2>1, <2>2 DEF Abort
<1>12. CASE Crash(p)
  BY <1>1, <1>12, SpentFacts DEF Crash
<1>. QED BY <1>2, <1>3, <1>4, <1>5, <1>6, <1>7, <1>8, <1>9, <1>10, <1>11, <1>12
         DEF Settle

LEMMA TypeOthers ==
  ASSUME IInv, Ask \/ EnqueueControl \/ UpdateTarget
  PROVE  TypeOK'
<1> USE CommandsAssumption DEF TypeOK, files
<1>1. TypeOK
  BY DEF IInv, CommandsInv
<1>2. CASE Ask
  BY <1>1, <1>2, SpentFacts DEF Ask, Optional
<1>3. CASE EnqueueControl
  BY <1>1, <1>3 DEF EnqueueControl, Optional
<1>4. CASE UpdateTarget
  BY <1>1, <1>4 DEF UpdateTarget, Target
<1>. QED BY <1>2, <1>3, <1>4

-----------------------------------------------------------------------------
(* Steps *)

\* Two runners are never both inside a run.
LEMMA SoleRunner ==
  ASSUME IInv, NEW p \in Runners, NEW q \in Runners,
         pc[p] \in Operating, pc[q] \in Operating
  PROVE  p = q
BY DEF IInv, CommandsInv, OneRunOperates

\* A step of one runner leaves the others where they are.
LEMMA OthersStay ==
  ASSUME IInv, NEW p \in Runners,
         ResumeLoad(p) \/ Work(p) \/ Crash(p)
  PROVE  \A q \in Runners \ {p} : pc'[q] = pc[q] /\ job'[q] = job[q]
<1>1. /\ pc \in [Runners -> PCs] /\ job \in [Runners -> Job]
  BY DEF IInv, CommandsInv, TypeOK
<1>2. CASE \/ PreflightTarget(p) \/ SnapshotCapability(p) \/ Bind(p)
           \/ PreflightFails(p) \/ ResumeLoad(p) \/ ResumeCheck(p)
           \/ ResumeRefused(p) \/ ExecuteLoad(p) \/ Start(p) \/ Crash(p)
  BY <1>1, <1>2
     DEF PreflightTarget, SnapshotCapability, Bind, PreflightFails, ResumeLoad,
         ResumeCheck, ResumeRefused, ExecuteLoad, Start, Crash, Move, Goto, End
<1>3. CASE Run(p)
  BY <1>1, <1>3
     DEF Run, Launch, LaunchFails, TakeStop, TakeBookmark, NoRequest, EndRun,
         Diverge, Act, RunFails, Move, Goto
<1>4. CASE Settle(p)
  BY <1>1, <1>4
     DEF Settle, PersistFindings, FileFinding, WriteCheckpoint,
         CheckpointThrows, FileBookmark, DropBookmarks, Finish, Report,
         LateFailure, Abort, Move, Goto, End
<1>. QED BY <1>2, <1>3, <1>4 DEF Work

\* A runner that does not move keeps its part of the invariant while the
\* session grows: counts, run numbers and the capability never go back, and the
\* trace of a run that a session names is never written again.  One that is
\* inside a run sees no change at all.
LEMMA Bystander ==
  ASSUME IInv, NEW q \in Runners, pc'[q] = pc[q], job'[q] = job[q],
         TypeOK', runs <= runs',
         spent'.bookmarks = 0 => spent.bookmarks = 0,
         LastRun(session) <= LastRun(session)',
         session.capability => session'.capability,
         spent'.bookmarks = 0 => session.actionCount <= session'.actionCount,
         \A r \in 1..MaxRuns : r <= LastRun(session) => traces'[r] = traces[r],
         pc[q] \in Operating =>
           /\ UNCHANGED files
           /\ session' = [session EXCEPT !.status = session'.status,
                                         !.capability = session'.capability]
  PROVE  RunnerInv(q)'
<1>1. TypeOK /\ RunnerInv(q) /\ job[q] \in Job /\ pc[q] \in PCs
      /\ (job[q].loaded # None => job[q].loaded \in Session)
      /\ (pc[q] \in Operating => job[q].run \in 1..MaxRuns)
  BY TypeFacts
<1>2. /\ runs \in Nat /\ runs' \in Nat /\ MaxRuns \in Nat
      /\ session \in Session /\ session' \in Session
  BY <1>1, CommandsAssumption DEF TypeOK
<1>3. Remembers(q)'
  <2> DEFINE l == job[q].loaded
             TellsNext ==
               l.lastFingerprint # None =>
                 /\ l.lastRun # None
                 /\ l.lastFingerprint.path = traces'[l.lastRun]
                 /\ Len(traces'[l.lastRun]) \in 1..l.actionCount
  <2> SUFFICES ASSUME l # None
               PROVE  /\ LastRun(l) <= LastRun(session)'
                      /\ l.capability => session'.capability
                      /\ spent'.bookmarks = 0 =>
                           l.actionCount <= session'.actionCount /\ TellsNext
    BY DEF Remembers, LastRun, Tells
  <2>1. l \in Session
    BY <1>1
  <2>2. /\ LastRun(l) <= LastRun(session)
        /\ l.capability => session.capability
        /\ spent.bookmarks = 0 =>
             l.actionCount <= session.actionCount /\ Tells(l)
    BY <1>1 DEF RunnerInv, Remembers
  <2>3. /\ LastRun(l) \in Nat /\ LastRun(session) \in Nat
        /\ LastRun(session)' \in Nat
        /\ l.actionCount \in Nat
        /\ session.actionCount \in Nat /\ session'.actionCount \in Nat
    BY <1>2, <2>1 DEF LastRun, Session, Optional
  <2>4. ASSUME spent'.bookmarks = 0, l.lastFingerprint # None
        PROVE  traces'[l.lastRun] = traces[l.lastRun]
    <3>1. l.lastRun # None /\ l.lastRun \in 1..MaxRuns
      BY <2>1, <2>2, <2>4 DEF Tells, Session, Optional
    <3>. QED BY <2>2, <3>1 DEF LastRun
  <2> HIDE DEF l
  <2>. QED BY <2>2, <2>3, <2>4 DEF Tells
<1>4. Places(q)'
  BY <1>1, <1>2 DEF RunnerInv, Places
<1>5. PathKept(q)'
  BY <1>1 DEF RunnerInv, PathKept
<1>6. CASE pc[q] \in Operating
  <2>1. /\ UNCHANGED files
        /\ session'.lastRun = session.lastRun
        /\ session'.actionCount = session.actionCount
        /\ session'.lastFingerprint = session.lastFingerprint
    BY <1>2, <1>6 DEF Session
  <2>2. TraceKept(q)'
    BY <1>1, <2>1 DEF RunnerInv, TraceKept, files, LastRun, Filed
  <2>3. FollowsReplay(q)'
    <3>1. Replay(q)' = Replay(q)
      BY <2>1 DEF files, Replay, Offset
    <3>. QED BY <1>1, <3>1 DEF RunnerInv, FollowsReplay
  <2>4. Checkpointed(q)' /\ Diverged(q)'
    BY <1>1, <2>1 DEF RunnerInv, Checkpointed, Diverged, CheckpointMatches, files,
                      Expected
  <2>. QED BY <1>3, <1>4, <1>5, <2>2, <2>3, <2>4 DEF RunnerInv
<1>7. CASE pc[q] \notin Operating
  <2>1. TraceKept(q)' /\ FollowsReplay(q)' /\ Checkpointed(q)'
    BY <1>7 DEF TraceKept, FollowsReplay, Checkpointed, Early, Operating
  <2>2. Diverged(q)'
    BY <1>1 DEF RunnerInv, Diverged, Expected
  <2>. QED BY <1>3, <1>4, <1>5, <2>1, <2>2 DEF RunnerInv
<1>. QED BY <1>6, <1>7

\* A step of one runner that changes neither the session nor its files keeps
\* the invariant if it keeps the runner's own part of it, does not enter a run,
\* and does not leave a running session without a word.
LEMMA QuietStep ==
  ASSUME IInv, TypeOK', NEW p \in Runners,
         \A q \in Runners \ {p} : pc'[q] = pc[q] /\ job'[q] = job[q],
         UNCHANGED <<session, files, runs>>,
         spent'.bookmarks = spent.bookmarks,
         spent'.failures >= spent.failures, spent'.crashes >= spent.crashes,
         pc'[p] \in Operating => pc[p] \in Operating,
         pc[p] \in Operating \cup {"abort"} /\ session.status = "running" =>
           \/ pc'[p] \in Operating \cup {"abort"}
           \/ spent'.failures > 0 \/ spent'.crashes > 0,
         RunnerInv(p)'
  PROVE  IInv'
<1>1. TypeOK /\ spent.failures \in Nat /\ spent.crashes \in Nat
      /\ spent'.failures \in Nat /\ spent'.crashes \in Nat
  BY DEF IInv, CommandsInv, TypeOK
<1>2. OneRunOperates'
  BY DEF IInv, CommandsInv, OneRunOperates
<1>3. FindingsOnce' /\ CountCoversTrace'
  BY DEF IInv, CommandsInv, FindingsOnce, CountCoversTrace, Filed, files
<1>4. SessionInv'
  BY DEF IInv, SessionInv, LastRun, Tells, files
<1>5. PausedIsResumable'
  BY DEF IInv, PausedIsResumable, CheckpointMatches, files
<1>6. RunningIsAttended'
  BY <1>1 DEF IInv, RunningIsAttended
<1>7. ASSUME NEW q \in Runners \ {p} PROVE RunnerInv(q)'
  <2>1. runs <= runs' /\ LastRun(session) <= LastRun(session)'
        /\ session.actionCount <= session'.actionCount
    BY SMTT(20), <1>1, CommandsAssumption DEF TypeOK, Session, LastRun, Optional
  <2>2. session' = [session EXCEPT !.status = session'.status,
                                   !.capability = session'.capability]
    BY <1>1 DEF TypeOK, Session
  <2>. QED BY <2>1, <2>2, Bystander DEF files
<1>. QED BY <1>2, <1>3, <1>4, <1>5, <1>6, <1>7 DEF IInv, CommandsInv

\* The session is read: what is remembered is the session itself.
LEMMA LoadStep ==
  ASSUME IInv, TypeOK', NEW p \in Runners, ResumeLoad(p) \/ ExecuteLoad(p)
  PROVE  RunnerInv(p)'
<1>1. /\ TypeOK /\ RunnerInv(p) /\ job[p] \in Job
      /\ session \in Session
      /\ pc[p] \in {"idle", "execute"}
  BY TypeFacts DEF TypeOK, ResumeLoad, ExecuteLoad, Move
<1>2. /\ UNCHANGED <<session, files, runs, spent>>
      /\ job'[p].loaded = session
      /\ job'[p].path = job[p].path /\ job'[p].last = job[p].last
      /\ job'[p].outcome = job[p].outcome
      /\ \/ pc[p] = "idle" /\ pc'[p] = "check"
         \/ pc[p] = "execute" /\ pc'[p] = "start"
  BY <1>1 DEF TypeOK, ResumeLoad, ExecuteLoad, Move, Goto, Job
<1>3. job[p].path = <<>> /\ job[p].outcome = None
  BY <1>1 DEF RunnerInv, Places, Operating
<1>4. session # None /\ session.actionCount \in Nat /\ LastRun(session) \in Nat
  BY <1>1, CommandsAssumption DEF Session, LastRun, Optional
<1>5. Remembers(p)'
  BY <1>2, <1>4 DEF Remembers, IInv, SessionInv, LastRun, Tells, files
<1>6. Places(p)' /\ PathKept(p)'
  BY <1>1, <1>2, <1>3, <1>4 DEF RunnerInv, Places, PathKept, Operating
<1>7. TraceKept(p)' /\ FollowsReplay(p)' /\ Checkpointed(p)'
  BY <1>2 DEF TraceKept, FollowsReplay, Checkpointed, Early
<1>8. Diverged(p)'
  BY <1>2, <1>3, CommandsAssumption DEF Diverged, Outcomes
<1>. QED BY <1>5, <1>6, <1>7, <1>8 DEF RunnerInv

\* The recorded action while there is one, a new one after: the path goes on
\* repeating the replay.
LEMMA ActStep ==
  ASSUME IInv, TypeOK', NEW p \in Runners, Act(p)
  PROVE  RunnerInv(p)'
<1> DEFINE n == Len(job[p].path)
           a == IF n < Len(Replay(p)) THEN Replay(p)[n + 1] ELSE job[p].run
           path == Append(job[p].path, a)
<1>1. /\ TypeOK /\ RunnerInv(p) /\ job[p] \in Job
      /\ pc[p] = "act"
      /\ job[p].path \in Seq(1..MaxRuns) /\ n \in Nat
  BY TypeFacts DEF Act, Move, Job, Path
<1>2. /\ UNCHANGED <<session, files, runs, spent>>
      /\ pc'[p] = "control"
      /\ job'[p].path = path
      /\ job'[p].last = [path |-> path, build |-> target.build]
      /\ job'[p].loaded = job[p].loaded /\ job'[p].resumed = job[p].resumed
      /\ job'[p].run = job[p].run /\ job'[p].outcome = job[p].outcome
  BY <1>1 DEF TypeOK, Act, Move, Goto, Job
<1>3. job[p].outcome = None
  BY <1>1 DEF RunnerInv, Places
<1>4. /\ Replay(p) \in Path /\ Replay(p)' = Replay(p)
  BY <1>1, <1>2, ReplayType DEF Replay, Offset, files, Operating
<1>5. /\ DOMAIN path = 1..(n + 1)
      /\ path[n + 1] = a
      /\ \A i \in 1..n : path[i] = job[p].path[i]
      /\ DOMAIN job[p].path = 1..n
      /\ path # <<>>
  BY <1>1
<1>6. Remembers(p)'
  BY <1>1, <1>2 DEF RunnerInv, Remembers, LastRun, Tells, files
<1>7. Places(p)'
  BY <1>1, <1>2, <1>3 DEF RunnerInv, Places, Operating
<1>8. PathKept(p)'
  <2>1. job'[p].last \in Fingerprint
    <3>1. job'[p] \in Job
      BY DEF TypeOK
    <3>2. job'[p].last \in Optional(Fingerprint)
      BY <3>1 DEF Job
    <3>3. path \in Path /\ target.build \in 0..MaxUpdates
      <4>1. job'[p].path \in Path
        BY <3>1 DEF Job
      <4>. QED BY <1>1, <1>2, <4>1 DEF TypeOK, Target
    <3> HIDE DEF path
    <3>. QED BY <1>2, <3>3 DEF Fingerprint
  <2>2. job'[p].last # None
    BY <2>1, CommandsAssumption
  <2> HIDE DEF path
  <2>. QED BY <1>2, <1>5, <2>2 DEF PathKept
<1>9. TraceKept(p)'
  BY <1>1, <1>2 DEF RunnerInv, TraceKept, LastRun, Early
<1>10. FollowsReplay(p)'
  <2>1. ASSUME NEW i \in DOMAIN path \cap DOMAIN Replay(p)
        PROVE  path[i] = Replay(p)[i]
    <3>1. Len(Replay(p)) \in Nat /\ DOMAIN Replay(p) = 1..Len(Replay(p))
      BY <1>4 DEF Path
    <3>2. CASE i = n + 1
      BY <1>1, <1>5, <2>1, <3>1, <3>2
    <3>3. CASE i # n + 1
      <4>1. i \in 1..n
        BY <1>1, <1>5, <2>1, <3>3
      <4>2. job[p].path[i] = Replay(p)[i]
        BY <1>1, <1>5, <2>1, <4>1 DEF RunnerInv, FollowsReplay
      <4>. QED BY <1>5, <4>1, <4>2
    <3>. QED BY <3>2, <3>3
  <2> HIDE DEF path
  <2>. QED BY <1>2, <1>4, <2>1 DEF FollowsReplay
<1>11. Checkpointed(p)' /\ Diverged(p)'
  BY <1>2, <1>3, CommandsAssumption DEF Checkpointed, Diverged, Outcomes
<1>. QED BY <1>6, <1>7, <1>8, <1>9, <1>10, <1>11 DEF RunnerInv

\* A step of a runner that changes neither the session nor its files, nor what
\* the runner has read, done and found, keeps its part of the invariant if it
\* goes where that part allows.
LEMMA CarryStep ==
  ASSUME IInv, NEW p \in Runners,
         UNCHANGED <<session, files, runs>>,
         spent'.bookmarks = spent.bookmarks,
         job'[p].loaded = job[p].loaded, job'[p].resumed = job[p].resumed,
         job'[p].path = job[p].path, job'[p].last = job[p].last,
         job'[p].run = job[p].run, job'[p].unfiled = job[p].unfiled,
         job'[p].outcome # None =>
           pc'[p] \in {"persist", "file", "finish", "abort"},
         job'[p].outcome = "diverged" /\ spent.bookmarks = 0 =>
           Expected(p).path = job[p].path,
         job[p].path # <<>> => pc'[p] \in (Operating \ {"launch"}) \cup {"abort"},
         pc'[p] \in Operating =>
           \/ pc[p] = pc'[p]
           \/ pc[p] \in Early /\ pc'[p] \in Early,
         pc'[p] \in {"launch", "control", "act"} =>
           pc[p] \in {"launch", "control", "act"},
         pc'[p] \in {"check", "start"} => pc[p] = pc'[p],
         pc'[p] \in {"bind", "execute", "start"} => session.capability
  PROVE  RunnerInv(p)'
<1>1. RunnerInv(p)
  BY TypeFacts
<1>2. Remembers(p)'
  BY <1>1 DEF RunnerInv, Remembers, LastRun, Tells, files
<1>3. Places(p)'
  BY <1>1 DEF RunnerInv, Places, Early, Operating
<1>4. PathKept(p)'
  BY <1>1 DEF RunnerInv, PathKept
<1>5. TraceKept(p)'
  BY <1>1 DEF RunnerInv, TraceKept, LastRun, Filed, files, Early, Operating
<1>6. FollowsReplay(p)'
  <2>1. Replay(p)' = Replay(p)
    BY DEF Replay, Offset, files
  <2>. QED BY <1>1, <2>1 DEF RunnerInv, FollowsReplay
<1>7. Checkpointed(p)'
  BY <1>1 DEF RunnerInv, Checkpointed, CheckpointMatches, files, Early, Operating
<1>8. Diverged(p)'
  BY DEF Diverged, Expected
<1>. QED BY <1>2, <1>3, <1>4, <1>5, <1>6, <1>7, <1>8 DEF RunnerInv

\* A call that has ended has nothing to keep.
LEMMA EndStep ==
  ASSUME NEW p \in Runners, job'[p] = NoJob, pc'[p] \in {"idle", "report"}
  PROVE  RunnerInv(p)'
BY CommandsAssumption
   DEF NoJob, RunnerInv, Remembers, Places, PathKept, TraceKept, FollowsReplay,
       Checkpointed, Diverged, Early, Operating, Outcomes

\* A run that gives up has repeated the whole trace behind the fingerprint it
\* expected.
LEMMA DivergedOnReplay ==
  ASSUME IInv, NEW p \in Runners, pc[p] = "act", Mismatch(p), spent.bookmarks = 0
  PROVE  Expected(p).path = job[p].path
<1> DEFINE l == job[p].loaded
           trace == traces[l.lastRun]
<1>1. /\ l \in Session /\ job[p].resumed
      /\ job[p] \in Job
      /\ l.lastFingerprint # None
      /\ Expected(p) = l.lastFingerprint
  <2>1. job[p].loaded # None
    BY TypeFacts DEF RunnerInv, Places, Operating
  <2>. QED BY <2>1, TypeFacts DEF Mismatch, Expected
<1>2. Tells(l)
  <2>1. l # None
    BY <1>1, CommandsAssumption
  <2>. QED BY <2>1, TypeFacts DEF RunnerInv, Remembers
<1>3. /\ l.lastRun # None
      /\ l.lastFingerprint.path = trace
      /\ Len(trace) \in 1..l.actionCount
  BY <1>1, <1>2 DEF Tells
<1>4. Offset(p) = l.actionCount /\ Offset(p) \in Nat
  BY <1>1 DEF Offset, Session
<1> HIDE DEF l, trace
<1>5. Offset(p) > 0 /\ Len(trace) <= Offset(p)
  BY <1>3, <1>4
<1>6. Replay(p) = trace
  BY <1>3, <1>5 DEF Replay, l, trace
<1>7. Len(job[p].path) = Len(trace)
  BY <1>6 DEF Mismatch
<1>8. trace \in Seq(1..MaxRuns) /\ job[p].path \in Seq(1..MaxRuns)
  <2>1. l.lastRun \in 1..MaxRuns
    BY <1>1, <1>3 DEF Session, Optional
  <2>. QED BY <1>1, <2>1, TypeFacts DEF TypeOK, Job, Path, trace
<1>9. \A i \in DOMAIN job[p].path \cap DOMAIN trace : job[p].path[i] = trace[i]
  BY <1>6, TypeFacts DEF RunnerInv, FollowsReplay
<1>10. job[p].path = trace
  BY <1>7, <1>8, <1>9, SeqEqual
<1>. QED BY <1>1, <1>3, <1>10

\* The steps that change neither the session nor its files.
LEMMA QuietSteps ==
  ASSUME IInv, NEW p \in Runners,
         \/ PreflightTarget(p) \/ Bind(p) \/ PreflightFails(p) \/ ResumeLoad(p)
         \/ ResumeCheck(p) \/ ResumeRefused(p) \/ ExecuteLoad(p) \/ Run(p)
         \/ CheckpointThrows(p) \/ DropBookmarks(p) \/ Report(p)
         \/ LateFailure(p) \/ Crash(p)
  PROVE  IInv'
<1>1. TypeOK'
  BY TypeBeforeEnd, TypeAtEnd DEF Settle
<1>2. \A q \in Runners \ {p} : pc'[q] = pc[q] /\ job'[q] = job[q]
  BY OthersStay DEF Work, Settle
<1>3. /\ TypeOK /\ RunnerInv(p) /\ job[p] \in Job /\ pc[p] \in PCs
      /\ (job[p].loaded # None => job[p].loaded \in Session)
      /\ job \in [Runners -> Job] /\ pc \in [Runners -> PCs]
      /\ spent.failures \in Nat /\ spent.crashes \in Nat
      /\ Places(p)
      /\ Diverged(p)
  BY TypeFacts DEF TypeOK, RunnerInv
<1>4. UNCHANGED <<session, files, runs>>
  BY DEF PreflightTarget, Bind, PreflightFails, ResumeLoad, ResumeCheck,
         ResumeRefused, ExecuteLoad, Run, Launch, LaunchFails, TakeStop,
         TakeBookmark, NoRequest, EndRun, Diverge, Act, RunFails,
         CheckpointThrows, DropBookmarks, Report, LateFailure, Crash
<1>5. /\ spent'.bookmarks = spent.bookmarks
      /\ spent'.failures >= spent.failures /\ spent'.crashes >= spent.crashes
      /\ LateFailure(p) \/ Crash(p) => spent'.failures > 0 \/ spent'.crashes > 0
  <2>1. \/ spent' = spent /\ ~LateFailure(p) /\ ~Crash(p)
        \/ Fault("failures") \/ Fault("crashes")
    BY DEF PreflightTarget, Bind, PreflightFails, ResumeLoad, ResumeCheck,
           ResumeRefused, ExecuteLoad, Run, Launch, LaunchFails, TakeStop,
           TakeBookmark, NoRequest, EndRun, Diverge, Act, RunFails,
           CheckpointThrows, DropBookmarks, Report, LateFailure, Crash
  <2>. QED BY <1>3, <2>1, SpentFacts
<1>6. /\ pc'[p] \in Operating => pc[p] \in Operating
      /\ pc[p] \in Operating \cup {"abort"} =>
           \/ pc'[p] \in Operating \cup {"abort"}
           \/ LateFailure(p) \/ Crash(p)
  BY <1>3
     DEF PreflightTarget, Bind, PreflightFails, ResumeLoad, ResumeCheck,
         ResumeRefused, ExecuteLoad, Run, Launch, LaunchFails, TakeStop,
         TakeBookmark, NoRequest, EndRun, Diverge, Act, RunFails,
         CheckpointThrows, DropBookmarks, Report, LateFailure, Crash, Move, Goto,
         End, Operating
<1>7. RunnerInv(p)'
  <2> USE DEF Move, Goto, Places, Operating, Early
  <2>1. CASE PreflightTarget(p) \/ PreflightFails(p) \/ LateFailure(p)
             \/ CheckpointThrows(p) \/ Bind(p)
    <3>1. /\ job' = job
          /\ pc' = [pc EXCEPT ![p] = pc'[p]]
          /\ \/ pc[p] = "preflight" /\ pc'[p] = "probe"
             \/ pc[p] = "bind" /\ pc'[p] = "execute"
             \/ pc'[p] = "abort"
      BY <1>3, <2>1 DEF PreflightTarget, PreflightFails, LateFailure,
                        CheckpointThrows, Bind
    <3>. QED BY <1>3, <1>4, <1>5, <3>1, CarryStep DEF Diverged
  <2>2. CASE ResumeCheck(p)
    <3>1. session.capability
      BY <1>3, <2>2 DEF ResumeCheck, RunnerInv, Remembers
    <3>2. /\ job' = job /\ pc[p] = "check" /\ pc'[p] = "execute"
      BY <1>3, <2>2 DEF ResumeCheck
    <3>. QED BY <1>3, <1>4, <1>5, <3>1, <3>2, CarryStep DEF Diverged
  <2>3. CASE Launch(p) \/ NoRequest(p)
    <3>1. /\ job' = job
          /\ pc[p] \in {"launch", "control"} /\ pc'[p] \in {"control", "act"}
      BY <1>3, <2>3 DEF Launch, NoRequest
    <3>. QED BY <1>3, <1>4, <1>5, <3>1, CarryStep DEF Diverged
  <2>4. CASE LaunchFails(p) \/ TakeStop(p) \/ EndRun(p) \/ RunFails(p)
    <3>1. /\ pc[p] \in Early /\ pc'[p] = "persist"
          /\ job'[p].outcome \in {"ended", "error"}
          /\ job'[p].loaded = job[p].loaded /\ job'[p].resumed = job[p].resumed
          /\ job'[p].path = job[p].path /\ job'[p].last = job[p].last
          /\ job'[p].run = job[p].run /\ job'[p].unfiled = job[p].unfiled
      BY <1>3, <2>4 DEF LaunchFails, TakeStop, EndRun, RunFails, Job
    <3>. QED BY <1>3, <1>4, <1>5, <3>1, CarryStep
  <2>5. CASE TakeBookmark(p) \/ DropBookmarks(p)
    <3>1. /\ \/ pc[p] = "control" /\ pc'[p] = "act"
             \/ pc[p] = "finish" /\ pc'[p] = "finish"
          /\ job'[p].outcome = job[p].outcome
          /\ job'[p].loaded = job[p].loaded /\ job'[p].resumed = job[p].resumed
          /\ job'[p].path = job[p].path /\ job'[p].last = job[p].last
          /\ job'[p].run = job[p].run /\ job'[p].unfiled = job[p].unfiled
      BY <1>3, <2>5 DEF TakeBookmark, DropBookmarks, Job
    <3>. QED BY <1>3, <1>4, <1>5, <3>1, CarryStep DEF Diverged
  <2>6. CASE Diverge(p)
    <3>1. /\ pc[p] = "act" /\ pc'[p] = "persist" /\ Mismatch(p)
          /\ job'[p].outcome = "diverged"
          /\ job'[p].loaded = job[p].loaded /\ job'[p].resumed = job[p].resumed
          /\ job'[p].path = job[p].path /\ job'[p].last = job[p].last
          /\ job'[p].run = job[p].run /\ job'[p].unfiled = job[p].unfiled
      BY <1>3, <2>6 DEF Diverge, Job
    <3>2. spent.bookmarks = 0 => Expected(p).path = job[p].path
      BY <3>1, DivergedOnReplay
    <3>. QED BY <1>3, <1>4, <1>5, <3>1, <3>2, CarryStep
  <2>7. CASE ResumeRefused(p) \/ Report(p) \/ Crash(p)
    <3>1. pc'[p] = "idle" /\ job'[p] = NoJob
      BY <1>3, <2>7 DEF ResumeRefused, Report, Crash, End
    <3>. QED BY <3>1, EndStep
  <2>8. CASE ResumeLoad(p) \/ ExecuteLoad(p)
    BY <1>1, <1>3, <1>4, <1>5, <2>8, LoadStep
  <2>9. CASE Act(p)
    BY <1>1, <1>3, <1>4, <1>5, <2>9, ActStep
  <2>. QED BY <2>1, <2>2, <2>3, <2>4, <2>5, <2>6, <2>7, <2>8, <2>9 DEF Run
<1>. QED BY <1>1, <1>2, <1>4, <1>5, <1>6, <1>7, QuietStep

\* The capability is asked for and stored while a session is prepared.
LEMMA SnapshotStep ==
  ASSUME IInv, NEW p \in Runners, SnapshotCapability(p)
  PROVE  IInv'
<1>1. TypeOK'
  BY TypeBeforeEnd
<1>2. \A q \in Runners \ {p} : pc'[q] = pc[q] /\ job'[q] = job[q]
  BY OthersStay DEF Work
<1>3. TypeOK /\ RunnerInv(p) /\ session \in Session
  BY TypeFacts DEF TypeOK
<1>4. /\ UNCHANGED <<files, runs, spent, job>>
      /\ session' = [session EXCEPT !.capability = TRUE]
      /\ pc[p] = "probe" /\ pc'[p] = "bind"
  BY <1>3 DEF SnapshotCapability, Move, Goto, TypeOK
<1>5. /\ session'.status = session.status /\ session'.capability
      /\ session'.actionCount = session.actionCount
      /\ session'.lastRun = session.lastRun
      /\ session'.lastFingerprint = session.lastFingerprint
      /\ session' = [session EXCEPT !.status = session'.status,
                                    !.capability = session'.capability]
  BY <1>3, <1>4 DEF Session
<1>6. OneRunOperates'
  BY <1>2, <1>4, <1>5 DEF IInv, CommandsInv, OneRunOperates, Operating
<1>7. FindingsOnce' /\ CountCoversTrace'
  BY <1>4, <1>5 DEF IInv, CommandsInv, FindingsOnce, CountCoversTrace, Filed, files
<1>8. SessionInv' /\ PausedIsResumable'
  BY <1>4, <1>5
     DEF IInv, SessionInv, PausedIsResumable, LastRun, Tells, CheckpointMatches,
         files
<1>9. RunningIsAttended'
  BY <1>2, <1>4, <1>5 DEF IInv, RunningIsAttended, Operating
<1>10. LastRun(session) <= LastRun(session)' /\ runs <= runs'
       /\ session.actionCount <= session'.actionCount
  BY <1>3, <1>4, <1>5, CommandsAssumption DEF TypeOK, LastRun, Session, Optional
<1>11. ASSUME NEW q \in Runners \ {p} PROVE RunnerInv(q)'
  BY <1>1, <1>2, <1>4, <1>5, <1>10, Bystander DEF files
<1>12. RunnerInv(p)'
  <2>1. Remembers(p)'
    BY <1>3, <1>4, <1>5 DEF RunnerInv, Remembers, LastRun, Tells, files
  <2>2. Places(p)' /\ PathKept(p)'
    BY <1>3, <1>4, <1>5 DEF RunnerInv, Places, PathKept, Operating
  <2>3. TraceKept(p)' /\ FollowsReplay(p)' /\ Checkpointed(p)'
    BY <1>4 DEF TraceKept, FollowsReplay, Checkpointed, Early
  <2>4. Diverged(p)'
    BY <1>3, <1>4 DEF RunnerInv, Diverged, Expected
  <2>. QED BY <2>1, <2>2, <2>3, <2>4 DEF RunnerInv
<1>. QED BY <1>1, <1>6, <1>7, <1>8, <1>9, <1>11, <1>12 DEF IInv, CommandsInv

\* A run starts, under a number no session names: nobody else is inside one.
LEMMA StartStep ==
  ASSUME IInv, NEW p \in Runners, Start(p)
  PROVE  IInv'
<1>1. TypeOK'
  BY TypeBeforeEnd
<1>2. \A q \in Runners \ {p} : pc'[q] = pc[q] /\ job'[q] = job[q]
  BY OthersStay DEF Work
<1>3. /\ TypeOK /\ RunnerInv(p) /\ session \in Session /\ job[p] \in Job
      /\ runs \in Nat /\ MaxRuns \in Nat
      /\ pc[p] = "start"
  BY TypeFacts, CommandsAssumption DEF TypeOK, Start
<1>4. CASE ~TransitionAllowed(session.status, "running")
  <2>1. /\ UNCHANGED <<session, files, runs, spent>>
        /\ pc'[p] = "idle" /\ job'[p] = NoJob
    BY <1>3, <1>4 DEF Start, End, Goto, TypeOK
  <2>2. spent.failures \in Nat /\ spent.crashes \in Nat
    BY <1>3 DEF TypeOK
  <2>3. RunnerInv(p)'
    BY <2>1, EndStep
  <2>4. spent'.failures >= spent.failures /\ spent'.crashes >= spent.crashes
    BY <2>1, <2>2
  <2>. QED BY <1>1, <1>2, <1>3, <2>1, <2>3, <2>4, QuietStep DEF Operating
<1>5. CASE TransitionAllowed(session.status, "running")
  <2>1. /\ UNCHANGED <<files, spent>> /\ runs' = runs + 1
        /\ session' = [session EXCEPT !.status = "running"]
        /\ pc'[p] = "launch"
        /\ job'[p] = [job[p] EXCEPT !.run = runs + 1]
    BY <1>3, <1>5 DEF Start, Goto, TypeOK
  <2>2. /\ session'.status = "running"
        /\ session'.capability = session.capability
        /\ session'.actionCount = session.actionCount
        /\ session'.lastRun = session.lastRun
        /\ session'.lastFingerprint = session.lastFingerprint
        /\ session' = [session EXCEPT !.status = session'.status,
                                      !.capability = session'.capability]
    BY <1>3, <2>1 DEF Session
  <2>12. session.actionCount <= session'.actionCount
    BY <1>3, <2>2 DEF Session
  <2>3. session.status \in {"draft", "paused"}
    BY <1>5 DEF TransitionAllowed
  <2>4. \A q \in Runners : pc[q] \notin Operating
    BY <2>3 DEF IInv, CommandsInv, OneRunOperates
  <2>5. OneRunOperates'
    BY <1>2, <2>1, <2>2, <2>4 DEF OneRunOperates
  <2>6. FindingsOnce' /\ CountCoversTrace' /\ PausedIsResumable'
    BY <2>1, <2>2
       DEF IInv, CommandsInv, FindingsOnce, CountCoversTrace, PausedIsResumable,
           Filed, files
  <2>7. LastRun(session) \in Nat /\ LastRun(session)' = LastRun(session)
        /\ LastRun(session) <= runs
    BY <1>3, <2>2 DEF IInv, SessionInv, LastRun, Session, Optional
  <2>8. SessionInv'
    BY <1>3, <2>1, <2>2, <2>7 DEF IInv, SessionInv, LastRun, Tells, files
  <2>9. RunningIsAttended'
    BY <2>1 DEF RunningIsAttended, Operating
  <2>10. ASSUME NEW q \in Runners \ {p} PROVE RunnerInv(q)'
    BY <1>1, <1>2, <1>3, <2>1, <2>2, <2>4, <2>7, <2>12, Bystander DEF files
  <2>11. RunnerInv(p)'
    <3>1. /\ job'[p].run = runs + 1
          /\ job'[p].loaded = job[p].loaded /\ job'[p].path = job[p].path
          /\ job'[p].last = job[p].last /\ job'[p].outcome = job[p].outcome
      BY <1>3, <2>1 DEF Job
    <3>2. job[p].path = <<>> /\ job[p].outcome = None
      BY <1>3 DEF RunnerInv, Places, Operating
    <3>3. Remembers(p)'
      BY <1>3, <2>1, <2>2, <3>1 DEF RunnerInv, Remembers, LastRun, Tells, files
    <3>4. Places(p)'
      BY <1>3, <2>1, <2>2, <3>1, <3>2 DEF RunnerInv, Places, Operating
    <3>5. PathKept(p)'
      BY <1>3, <3>1 DEF RunnerInv, PathKept
    <3>6. TraceKept(p)'
      BY <1>3, <2>1, <2>7, <3>1 DEF TraceKept
    <3>7. FollowsReplay(p)'
      BY <3>1, <3>2 DEF FollowsReplay
    <3>8. Checkpointed(p)' /\ Diverged(p)'
      BY <2>1, <3>1, <3>2, CommandsAssumption DEF Checkpointed, Diverged, Outcomes
    <3>. QED BY <3>3, <3>4, <3>5, <3>6, <3>7, <3>8 DEF RunnerInv
  <2>. QED BY <1>1, <2>5, <2>6, <2>8, <2>9, <2>10, <2>11 DEF IInv, CommandsInv
<1>. QED BY <1>4, <1>5

\* The trace of a run goes to disk under its number, which nothing names yet.
LEMMA PersistStep ==
  ASSUME IInv, NEW p \in Runners, PersistFindings(p)
  PROVE  IInv'
<1>1. TypeOK'
  BY TypeAtEnd DEF Settle
<1>2. \A q \in Runners \ {p} : pc'[q] = pc[q] /\ job'[q] = job[q]
  BY OthersStay DEF Work, Settle
<1>3. /\ TypeOK /\ RunnerInv(p) /\ job[p] \in Job
      /\ runs \in Nat /\ MaxRuns \in Nat
      /\ pc[p] = "persist"
      /\ job[p].run \in 1..MaxRuns
      /\ job[p].loaded # None => job[p].loaded \in Session
      /\ session \in Session
  BY TypeFacts, CommandsAssumption DEF TypeOK, PersistFindings, Move, Operating
<1>4. PICK reported \in SUBSET FindingIds :
        job' = [job EXCEPT ![p].unfiled = reported \ Filed]
  BY DEF PersistFindings
<1>5. /\ UNCHANGED <<session, checkpoint, findings, runs, spent>>
      /\ pc'[p] = "file"
      /\ traces' = [traces EXCEPT ![job[p].run] = job[p].path]
      /\ job'[p] = [job[p] EXCEPT !.unfiled = reported \ Filed]
  BY <1>3, <1>4 DEF PersistFindings, Move, Goto, TypeOK
<1>6. /\ traces'[job[p].run] = job[p].path
      /\ \A r \in 1..MaxRuns : r # job[p].run => traces'[r] = traces[r]
  BY <1>3, <1>5 DEF TypeOK
<1>7. LastRun(session) < job[p].run /\ LastRun(session) \in Nat
  BY <1>3 DEF RunnerInv, TraceKept, Early, LastRun, Session, Optional
<1>8. session.status \in {"running", "aborted"}
  BY <1>3 DEF IInv, CommandsInv, OneRunOperates, Operating
<1>9. OneRunOperates'
  BY <1>2, <1>3, <1>5 DEF IInv, CommandsInv, OneRunOperates, Operating
<1>10. FindingsOnce' /\ CountCoversTrace' /\ PausedIsResumable'
  BY <1>5, <1>8
     DEF IInv, CommandsInv, FindingsOnce, CountCoversTrace, PausedIsResumable,
         Filed
<1> DEFINE TellsNext(s) ==
             s.lastFingerprint # None =>
               /\ s.lastRun # None
               /\ s.lastFingerprint.path = traces'[s.lastRun]
               /\ Len(traces'[s.lastRun]) \in 1..s.actionCount
<1>11. \A s \in Session :
         LastRun(s) <= LastRun(session) /\ Tells(s) => TellsNext(s)
  <2>1. ASSUME NEW s \in Session, LastRun(s) <= LastRun(session), Tells(s),
               s.lastFingerprint # None
        PROVE  traces'[s.lastRun] = traces[s.lastRun]
    <3>1. s.lastRun # None /\ s.lastRun \in 1..MaxRuns
      BY <2>1 DEF Tells, Session, Optional
    <3>. QED BY <1>3, <1>6, <1>7, <2>1, <3>1 DEF LastRun
  <2>. QED BY <2>1 DEF Tells
<1>12. SessionInv'
  <2>1. Tells(session) => Tells(session)'
    <3>1. Tells(session) => TellsNext(session)
      BY <1>3, <1>7, <1>11
    <3>. QED BY <1>5, <3>1 DEF Tells
  <2>. QED BY <1>5, <2>1 DEF IInv, SessionInv, LastRun
<1>13. RunningIsAttended'
  BY <1>2, <1>5 DEF IInv, RunningIsAttended, Operating
<1>14. ASSUME NEW q \in Runners \ {p} PROVE RunnerInv(q)'
  <2>1. pc[q] \notin Operating
    BY <1>3, SoleRunner DEF Operating
  <2>2. /\ runs <= runs' /\ LastRun(session) <= LastRun(session)'
        /\ session.actionCount <= session'.actionCount
    BY <1>3, <1>5, <1>7 DEF LastRun, Session
  <2>3. \A r \in 1..MaxRuns : r <= LastRun(session) => traces'[r] = traces[r]
    BY <1>3, <1>6, <1>7
  <2>. QED BY <1>1, <1>2, <1>5, <2>1, <2>2, <2>3, Bystander
<1>15. RunnerInv(p)'
  <2>1. /\ job'[p].run = job[p].run /\ job'[p].loaded = job[p].loaded
        /\ job'[p].path = job[p].path /\ job'[p].last = job[p].last
        /\ job'[p].outcome = job[p].outcome /\ job'[p].resumed = job[p].resumed
        /\ job'[p].unfiled = reported \ Filed
    BY <1>3, <1>5 DEF Job
  <2>2. Remembers(p)'
    <3>1. LastRun(session)' = LastRun(session)
      BY <1>5 DEF LastRun
    <3>2. ASSUME job[p].loaded # None
          PROVE  Tells(job[p].loaded) => TellsNext(job[p].loaded)
      <4>1. LastRun(job[p].loaded) <= LastRun(session)
        BY <1>3, <3>2 DEF RunnerInv, Remembers
      <4>2. job[p].loaded \in Session
        BY <1>3, <3>2
      <4> HIDE DEF TellsNext
      <4>. QED BY <1>11, <4>1, <4>2
    <3>3. Tells(job[p].loaded)' <=> TellsNext(job[p].loaded)
      BY <2>1 DEF Tells
    <3>4. LastRun(job[p].loaded)' = LastRun(job[p].loaded)
      BY <2>1 DEF LastRun
    <3> HIDE DEF TellsNext
    <3>. QED BY <1>3, <1>5, <2>1, <3>1, <3>2, <3>3, <3>4
             DEF RunnerInv, Remembers
  <2>3. Places(p)' /\ PathKept(p)'
    BY <1>3, <1>5, <2>1 DEF RunnerInv, Places, PathKept, Operating
  <2>4. TraceKept(p)'
    BY <1>5, <1>6, <1>7, <2>1 DEF TraceKept, Filed, LastRun
  <2>5. FollowsReplay(p)' /\ Checkpointed(p)'
    BY <1>5 DEF FollowsReplay, Checkpointed
  <2>6. Diverged(p)'
    BY <1>3, <1>5, <2>1 DEF RunnerInv, Diverged, Expected
  <2>. QED BY <2>2, <2>3, <2>4, <2>5, <2>6 DEF RunnerInv
<1>. QED BY <1>1, <1>9, <1>10, <1>12, <1>13, <1>14, <1>15 DEF IInv, CommandsInv

\* A finding is filed that is not there: the run's own list is up to date, as
\* nobody else is inside a run.
LEMMA FileFindingStep ==
  ASSUME IInv, NEW p \in Runners, FileFinding(p)
  PROVE  IInv'
<1>1. TypeOK'
  BY TypeAtEnd DEF Settle
<1>2. \A q \in Runners \ {p} : pc'[q] = pc[q] /\ job'[q] = job[q]
  BY OthersStay DEF Work, Settle
<1>3. /\ TypeOK /\ RunnerInv(p) /\ job[p] \in Job
      /\ pc[p] = "file"
      /\ findings \in Seq(FindingIds)
      /\ session \in Session /\ runs \in Nat
  BY TypeFacts, CommandsAssumption DEF TypeOK, FileFinding
<1>4. PICK f \in job[p].unfiled :
        /\ findings' = Append(findings, f)
        /\ job' = [job EXCEPT ![p].unfiled = @ \ {f}]
  BY DEF FileFinding
<1>5. /\ UNCHANGED <<session, checkpoint, traces, pc, runs, spent>>
      /\ job'[p] = [job[p] EXCEPT !.unfiled = job[p].unfiled \ {f}]
  BY <1>3, <1>4 DEF FileFinding, TypeOK
<1>6. f \notin Filed
  BY <1>3 DEF RunnerInv, TraceKept
<1>7. Filed' = Filed \cup {f}
  <2>1. f \in FindingIds
    BY <1>3 DEF Job
  <2>2. /\ DOMAIN findings' = (DOMAIN findings) \cup {Len(findings) + 1}
        /\ findings'[Len(findings) + 1] = f
        /\ \A i \in DOMAIN findings : findings'[i] = findings[i]
    BY <1>3, <1>4, <2>1
  <2>. QED BY <2>2 DEF Filed
<1>8. FindingsOnce'
  <2>1. IsFiniteSet(Filed)
    <3>1. IsFiniteSet(DOMAIN findings)
      <4>1. DOMAIN findings = 1..Len(findings) /\ Len(findings) \in Nat
        BY <1>3
      <4>. QED BY <4>1, FS_Interval
    <3>2. findings \in Surjection(DOMAIN findings, Filed)
      <4>1. findings \in [DOMAIN findings -> Filed]
        BY <1>3 DEF Filed
      <4>2. \A g \in Filed : \E i \in DOMAIN findings : findings[i] = g
        BY DEF Filed
      <4>. QED BY <4>1, <4>2 DEF Surjection
    <3>. QED BY <3>1, <3>2, FS_Surjection
  <2>2. Cardinality(Filed \cup {f}) = Cardinality(Filed) + 1
    BY <1>6, <2>1, FS_AddElement
  <2>3. Len(findings') = Len(findings) + 1
    BY <1>3, <1>4
  <2>. QED BY <1>7, <2>2, <2>3 DEF IInv, CommandsInv, FindingsOnce
<1>9. OneRunOperates' /\ CountCoversTrace' /\ PausedIsResumable'
      /\ RunningIsAttended'
  BY <1>5
     DEF IInv, CommandsInv, OneRunOperates, CountCoversTrace, PausedIsResumable,
         RunningIsAttended, CheckpointMatches
<1>10. SessionInv'
  BY <1>5 DEF IInv, SessionInv, LastRun, Tells
<1>11. ASSUME NEW q \in Runners \ {p} PROVE RunnerInv(q)'
  <2>1. pc[q] \notin Operating
    BY <1>3, SoleRunner DEF Operating
  <2>2. /\ runs <= runs' /\ LastRun(session) <= LastRun(session)'
        /\ session.actionCount <= session'.actionCount
    BY <1>3, <1>5, CommandsAssumption DEF LastRun, Session, Optional
  <2>. QED BY <1>1, <1>2, <1>5, <2>1, <2>2, Bystander
<1>12. RunnerInv(p)'
  <2>1. /\ job'[p].run = job[p].run /\ job'[p].loaded = job[p].loaded
        /\ job'[p].path = job[p].path /\ job'[p].last = job[p].last
        /\ job'[p].outcome = job[p].outcome /\ job'[p].resumed = job[p].resumed
        /\ job'[p].unfiled = job[p].unfiled \ {f}
    BY <1>3, <1>5 DEF Job
  <2>2. Remembers(p)'
    BY <1>3, <1>5, <2>1 DEF RunnerInv, Remembers, LastRun, Tells
  <2>3. Places(p)' /\ PathKept(p)'
    BY <1>3, <1>5, <2>1 DEF RunnerInv, Places, PathKept
  <2>4. TraceKept(p)'
    <3>1. Filed \cap job[p].unfiled = {}
      BY <1>3 DEF RunnerInv, TraceKept
    <3>2. job'[p].unfiled \cap Filed' = {}
      BY <1>7, <2>1, <3>1
    <3>. QED BY <1>3, <1>5, <2>1, <3>2 DEF RunnerInv, TraceKept, LastRun
  <2>5. FollowsReplay(p)' /\ Checkpointed(p)'
    BY <1>3, <1>5 DEF FollowsReplay, Checkpointed
  <2>6. Diverged(p)'
    BY <1>3, <1>5, <2>1 DEF RunnerInv, Diverged, Expected
  <2>. QED BY <2>2, <2>3, <2>4, <2>5, <2>6 DEF RunnerInv
<1>. QED BY <1>1, <1>8, <1>9, <1>10, <1>11, <1>12 DEF IInv, CommandsInv

\* The checkpoint and the session come to name the run together: its number is
\* above every earlier one, its trace is on disk, and every action is counted.
LEMMA CheckpointStep ==
  ASSUME IInv, NEW p \in Runners, WriteCheckpoint(p)
  PROVE  IInv'
<1>1. TypeOK'
  BY TypeAtEnd DEF Settle
<1>2. \A q \in Runners \ {p} : pc'[q] = pc[q] /\ job'[q] = job[q]
  BY OthersStay DEF Work, Settle
<1>3. /\ TypeOK /\ RunnerInv(p) /\ job[p] \in Job
      /\ pc[p] = "file"
      /\ job[p].run \in 1..MaxRuns /\ job[p].run \in 1..runs
      /\ session \in Session /\ runs \in Nat /\ MaxRuns \in Nat
      /\ Len(job[p].path) \in Nat
  <2>1. pc[p] = "file"
    BY DEF WriteCheckpoint, Move
  <2>2. job[p].run \in 1..runs
    BY <2>1, TypeFacts DEF RunnerInv, Places, Operating
  <2>3. Len(job[p].path) \in Nat
    BY TypeFacts DEF Job, Path
  <2>. QED BY <2>1, <2>2, <2>3, TypeFacts, CommandsAssumption
           DEF TypeOK, Operating
<1> DEFINE last == job[p].last
<1>4. /\ UNCHANGED <<findings, traces, job, runs, spent>>
      /\ pc'[p] = "finish"
      /\ checkpoint' = [run |-> job[p].run, actionCount |-> Total(p),
                        lastFingerprint |-> last]
      /\ session' =
           [session EXCEPT !.actionCount = Total(p), !.lastRun = job[p].run,
                           !.lastFingerprint = IF last = None
                                                 THEN session.lastFingerprint
                                               ELSE last]
      /\ Total(p) > 0 => last # None
  BY <1>3 DEF WriteCheckpoint, Move, Goto, TypeOK
<1>5. /\ session'.status = session.status
      /\ session'.capability = session.capability
      /\ session'.actionCount = Total(p) /\ session'.lastRun = job[p].run
      /\ session'.lastFingerprint = IF last = None THEN session.lastFingerprint
                                    ELSE last
  BY <1>3, <1>4 DEF Session
<1>6. /\ checkpoint'.run = job[p].run /\ checkpoint'.actionCount = Total(p)
      /\ checkpoint'.lastFingerprint = last
      /\ checkpoint' # None
  <2>1. job[p].last \in Optional(Fingerprint)
    BY <1>3 DEF Job
  <2>2. checkpoint' \in Checkpoint
    BY <1>3, <1>4, <2>1, TotalType DEF Checkpoint
  <2>. QED BY <1>4, <2>2, CommandsAssumption
<1>7. /\ LastRun(session) \in Nat /\ LastRun(session) < job[p].run
      /\ LastRun(session)' = job[p].run
      /\ job[p].run # None
      /\ traces[job[p].run] = job[p].path
  <2>1. job[p].run # None
    BY <1>3, CommandsAssumption
  <2>2. LastRun(session) \in Nat
    BY <1>3 DEF LastRun, Session, Optional
  <2>. QED BY <1>3, <1>5, <2>1, <2>2 DEF RunnerInv, TraceKept, LastRun
<1>8. /\ Total(p) \in Nat /\ session.actionCount \in Nat
      /\ Total(p) >= session.actionCount
      /\ spent.bookmarks = 0 => Total(p) >= Len(job[p].path)
  BY <1>3, TotalType
<1>9. session.status \in {"running", "aborted"}
  BY <1>3 DEF IInv, CommandsInv, OneRunOperates, Operating
<1>10. \A q \in Runners \ {p} : pc[q] \notin Operating
  BY <1>3, SoleRunner DEF Operating
<1>11. OneRunOperates'
  BY <1>2, <1>3, <1>4, <1>5 DEF IInv, CommandsInv, OneRunOperates, Operating
<1>12. FindingsOnce' /\ CountCoversTrace' /\ PausedIsResumable'
  BY <1>4, <1>5, <1>9
     DEF IInv, CommandsInv, FindingsOnce, CountCoversTrace, PausedIsResumable,
         Filed
<1>13. spent.bookmarks = 0 => Tells(session)'
  <2> SUFFICES ASSUME spent.bookmarks = 0, session'.lastFingerprint # None
               PROVE  /\ session'.lastRun # None
                      /\ session'.lastFingerprint.path = traces[session'.lastRun]
                      /\ Len(traces[session'.lastRun]) \in 1..session'.actionCount
    BY <1>4 DEF Tells
  <2>1. CASE last = None
    <3>1. session.actionCount = 0
      BY <1>4, <1>8, <2>1
    <3>2. Tells(session) /\ session.lastFingerprint # None
      BY <1>5, <2>1 DEF IInv, SessionInv
    <3>3. Len(traces[session.lastRun]) \in 1..0
      BY <3>1, <3>2 DEF Tells
    <3>. QED BY <3>3
  <2>2. CASE last # None
    <3>1. last.path = job[p].path /\ job[p].path # <<>>
      BY <1>3, <2>2 DEF RunnerInv, PathKept
    <3>2. Len(job[p].path) \in 1..Total(p)
      <4>1. Len(job[p].path) # 0
        BY <1>3, <3>1 DEF Job, Path
      <4>. QED BY <1>3, <1>8, <4>1
    <3>. QED BY <1>5, <1>7, <2>2, <3>1, <3>2
  <2>. QED BY <2>1, <2>2
<1>14. SessionInv'
  BY <1>3, <1>4, <1>5, <1>7, <1>13 DEF IInv, SessionInv
<1>15. RunningIsAttended'
  BY <1>2, <1>4, <1>5 DEF IInv, RunningIsAttended, Operating
<1>16. ASSUME NEW q \in Runners \ {p} PROVE RunnerInv(q)'
  <2>1. LastRun(session) <= LastRun(session)' /\ runs <= runs'
    BY <1>3, <1>4, <1>7
  <2>. QED BY <1>1, <1>2, <1>4, <1>5, <1>8, <1>10, <2>1, Bystander
<1>17. RunnerInv(p)'
  <2>1. Remembers(p)'
    <3> DEFINE l == job[p].loaded
    <3>1. l # None /\ l \in Session /\ LastRun(l) \in Nat /\ l.actionCount \in Nat
      BY <1>3, TypeFacts
         DEF RunnerInv, Places, Operating, LastRun, Session, Optional
    <3>2. /\ LastRun(l) <= LastRun(session)
          /\ l.capability => session.capability
          /\ spent.bookmarks = 0 =>
               l.actionCount <= session.actionCount /\ Tells(l)
      BY <1>3, <3>1 DEF RunnerInv, Remembers
    <3>3. LastRun(l) <= job[p].run
      BY <1>3, <1>7, <3>1, <3>2
    <3>4. spent.bookmarks = 0 => l.actionCount <= Total(p)
      BY <1>8, <3>1, <3>2
    <3>5. LastRun(job[p].loaded)' = LastRun(l)
          /\ (Tells(job[p].loaded)' <=> Tells(l))
      BY <1>4 DEF LastRun, Tells
    <3> HIDE DEF l
    <3>. QED BY <1>4, <1>5, <1>7, <3>2, <3>3, <3>4, <3>5 DEF Remembers, l
  <2>2. Places(p)' /\ PathKept(p)'
    BY <1>3, <1>4, <1>5 DEF RunnerInv, Places, PathKept, Operating
  <2>3. TraceKept(p)' /\ FollowsReplay(p)'
    BY <1>4, <1>7 DEF TraceKept, FollowsReplay, Early
  <2>4. Checkpointed(p)'
    <3>1. spent.bookmarks = 0 => Total(p) >= Len(traces[job[p].run])
      BY <1>7, <1>8
    <3>2. CheckpointMatches(session)'
      <4> SUFFICES ASSUME session'.actionCount > 0
                   PROVE  /\ checkpoint' # None
                          /\ session'.lastRun # None
                          /\ session'.lastFingerprint # None
                          /\ checkpoint'.actionCount = session'.actionCount
                          /\ checkpoint'.lastFingerprint
                               = session'.lastFingerprint
                          /\ checkpoint'.run = session'.lastRun
        BY DEF CheckpointMatches
      <4>. QED BY <1>4, <1>5, <1>6, <1>7
    <3>. QED BY <1>4, <1>5, <1>6, <3>1, <3>2 DEF Checkpointed
  <2>5. Diverged(p)'
    BY <1>3, <1>4 DEF RunnerInv, Diverged, Expected
  <2>. QED BY <2>1, <2>2, <2>3, <2>4, <2>5 DEF RunnerInv
<1>. QED BY <1>1, <1>11, <1>12, <1>14, <1>15, <1>16, <1>17 DEF IInv, CommandsInv

\* A bookmark puts the number of actions of the run in the place of those of the
\* session; what is said of counts is said of sessions without one.
LEMMA BookmarkStep ==
  ASSUME IInv, NEW p \in Runners, FileBookmark(p)
  PROVE  IInv'
<1>1. TypeOK'
  BY TypeAtEnd DEF Settle
<1>2. \A q \in Runners \ {p} : pc'[q] = pc[q] /\ job'[q] = job[q]
  BY OthersStay DEF Work, Settle
<1>3. /\ TypeOK /\ RunnerInv(p) /\ job[p] \in Job
      /\ pc[p] = "finish"
      /\ session \in Session /\ runs \in Nat
  BY TypeFacts, CommandsAssumption DEF TypeOK, FileBookmark
<1>4. /\ UNCHANGED <<files, pc, runs>>
      /\ session' = [session EXCEPT !.actionCount = Head(job[p].bookmarks)]
      /\ job'[p] = [job[p] EXCEPT !.bookmarks = Tail(job[p].bookmarks)]
      /\ spent'.bookmarks > 0 /\ spent'.bookmarks # 0
      /\ spent'.failures = spent.failures /\ spent'.crashes = spent.crashes
  <2>1. spent'.bookmarks > 0 /\ spent'.failures = spent.failures
        /\ spent'.crashes = spent.crashes
    BY <1>3, SpentFacts DEF FileBookmark
  <2>. QED BY <1>3, <2>1 DEF FileBookmark, TypeOK
<1>5. /\ session'.status = session.status
      /\ session'.capability = session.capability
      /\ session'.lastRun = session.lastRun
  BY <1>3, <1>4 DEF Session
<1>6. LastRun(session)' = LastRun(session) /\ LastRun(session) \in Nat
  BY <1>3, <1>5 DEF LastRun, Session, Optional
<1>7. OneRunOperates' /\ FindingsOnce' /\ CountCoversTrace'
  BY <1>4, <1>5
     DEF IInv, CommandsInv, OneRunOperates, FindingsOnce, CountCoversTrace, Filed,
         files
<1>8. SessionInv' /\ PausedIsResumable'
  BY <1>4, <1>5, <1>6 DEF IInv, SessionInv, PausedIsResumable
<1>9. RunningIsAttended'
  BY <1>4, <1>5 DEF IInv, RunningIsAttended
<1>10. ASSUME NEW q \in Runners \ {p} PROVE RunnerInv(q)'
  <2>1. pc[q] \notin Operating
    BY <1>3, SoleRunner DEF Operating
  <2>2. runs <= runs' /\ LastRun(session) <= LastRun(session)'
    BY <1>3, <1>4, <1>6
  <2>. QED BY <1>1, <1>2, <1>4, <1>5, <2>1, <2>2, Bystander DEF files
<1>11. RunnerInv(p)'
  <2>1. /\ job'[p].run = job[p].run /\ job'[p].loaded = job[p].loaded
        /\ job'[p].path = job[p].path /\ job'[p].last = job[p].last
        /\ job'[p].outcome = job[p].outcome
    BY <1>3, <1>4 DEF Job
  <2>2. Remembers(p)'
    <3>1. LastRun(job[p].loaded)' = LastRun(job[p].loaded)
      BY <2>1 DEF LastRun
    <3>. QED BY <1>3, <1>4, <1>5, <1>6, <2>1, <3>1 DEF RunnerInv, Remembers
  <2>3. Places(p)' /\ PathKept(p)'
    BY <1>3, <1>4, <1>5, <2>1 DEF RunnerInv, Places, PathKept
  <2>4. TraceKept(p)' /\ FollowsReplay(p)'
    BY <1>3, <1>4, <2>1 DEF RunnerInv, TraceKept, FollowsReplay, Early, files
  <2>5. Checkpointed(p)' /\ Diverged(p)'
    BY <1>4 DEF Checkpointed, Diverged
  <2>. QED BY <2>2, <2>3, <2>4, <2>5 DEF RunnerInv
<1>. QED BY <1>1, <1>7, <1>8, <1>9, <1>10, <1>11 DEF IInv, CommandsInv

\* The final event: the session keeps what the checkpoint has said.
LEMMA FinishStep ==
  ASSUME IInv, NEW p \in Runners, Finish(p)
  PROVE  IInv'
<1>1. TypeOK'
  BY TypeAtEnd DEF Settle
<1>2. \A q \in Runners \ {p} : pc'[q] = pc[q] /\ job'[q] = job[q]
  BY OthersStay DEF Work, Settle
<1>3. /\ TypeOK /\ RunnerInv(p) /\ job[p] \in Job
      /\ pc[p] = "finish"
      /\ session \in Session /\ runs \in Nat
      /\ spent.failures \in Nat /\ spent.crashes \in Nat
  BY TypeFacts, CommandsAssumption DEF TypeOK, Finish
<1>4. CASE ~TransitionAllowed(session.status, FinalStatus(p))
  <2>1. /\ UNCHANGED <<session, files, runs, spent, job>>
        /\ pc'[p] = "abort"
    BY <1>3, <1>4 DEF Finish, Goto, TypeOK
  <2>2. RunnerInv(p)'
    BY <1>3, <2>1, CarryStep DEF RunnerInv, Places, Diverged, Operating
  <2>3. spent'.failures >= spent.failures /\ spent'.crashes >= spent.crashes
    BY <1>3, <2>1
  <2>. QED BY <1>1, <1>2, <2>1, <2>2, <2>3, QuietStep DEF Operating
<1>5. CASE TransitionAllowed(session.status, FinalStatus(p))
  <2>1. /\ UNCHANGED <<files, runs, spent>>
        /\ session' = [session EXCEPT !.status = FinalStatus(p)]
        /\ pc'[p] = "report" /\ job'[p] = NoJob
    BY <1>3, <1>5 DEF Finish, Goto, TypeOK
  <2>2. /\ session'.status = FinalStatus(p)
        /\ session'.status \in {"paused", "completed", "aborted"}
        /\ session'.capability = session.capability
        /\ session'.actionCount = session.actionCount
        /\ session'.lastRun = session.lastRun
        /\ session'.lastFingerprint = session.lastFingerprint
    BY <1>3, <2>1 DEF Session, FinalStatus
  <2>3. \A q \in Runners \ {p} : pc[q] \notin Operating
    BY <1>3, SoleRunner DEF Operating
  <2>4. OneRunOperates'
    BY <1>2, <2>1, <2>3 DEF OneRunOperates, Operating
  <2>5. /\ spent.bookmarks = 0 =>
             /\ CheckpointMatches(session)
             /\ session.actionCount >= Len(traces[checkpoint.run])
        /\ session.capability
    BY <1>3 DEF RunnerInv, Checkpointed, Places, Operating
  <2>6. FindingsOnce' /\ CountCoversTrace' /\ PausedIsResumable'
    BY <2>1, <2>2, <2>5
       DEF IInv, CommandsInv, FindingsOnce, CountCoversTrace, PausedIsResumable,
           Filed, CheckpointMatches, files
  <2>7. SessionInv'
    BY <2>1, <2>2, <2>5 DEF IInv, SessionInv, LastRun, Tells, files
  <2>8. RunningIsAttended'
    BY <2>2 DEF RunningIsAttended
  <2>9. LastRun(session) <= LastRun(session)' /\ runs <= runs'
        /\ session.actionCount <= session'.actionCount
    BY <1>3, <2>1, <2>2, CommandsAssumption DEF LastRun, Session, Optional
  <2>10. ASSUME NEW q \in Runners \ {p} PROVE RunnerInv(q)'
    BY <1>1, <1>2, <2>1, <2>2, <2>3, <2>9, Bystander DEF files
  <2>11. RunnerInv(p)'
    BY <2>1, EndStep
  <2>. QED BY <1>1, <2>4, <2>6, <2>7, <2>8, <2>10, <2>11 DEF IInv, CommandsInv
<1>. QED BY <1>4, <1>5

\* The catch block aborts a session that may be aborted, even one in which
\* another runner is at work.
LEMMA AbortStep ==
  ASSUME IInv, NEW p \in Runners, Abort(p)
  PROVE  IInv'
<1>1. TypeOK'
  BY TypeAtEnd DEF Settle
<1>2. \A q \in Runners \ {p} : pc'[q] = pc[q] /\ job'[q] = job[q]
  BY OthersStay DEF Work, Settle
<1>3. /\ TypeOK /\ job[p] \in Job
      /\ pc[p] = "abort"
      /\ session \in Session /\ runs \in Nat
      /\ spent.failures \in Nat /\ spent.crashes \in Nat
  BY TypeFacts, CommandsAssumption DEF TypeOK, Abort
<1>4. /\ UNCHANGED <<files, runs>>
      /\ pc'[p] = "idle" /\ job'[p] = NoJob
  BY <1>3 DEF Abort, End, Goto, TypeOK
<1>5. RunnerInv(p)'
  BY <1>4, EndStep
<1>6. CASE session' = session
  <2>1. /\ spent'.bookmarks = spent.bookmarks
        /\ spent'.failures >= spent.failures /\ spent'.crashes >= spent.crashes
        /\ \/ spent'.failures > 0 \/ spent'.crashes > 0
           \/ session.status # "running"
    <3>1. CASE Fault("failures")
      BY <1>3, <3>1, SpentFacts
    <3>2. CASE UNCHANGED spent /\ ~Fault("failures")
      <4>1. session = IF TransitionAllowed(session.status, "aborted")
                        THEN [session EXCEPT !.status = "aborted"] ELSE session
        BY <1>6, <3>2 DEF Abort
      <4>2. session.status # "running"
        BY <1>3, <4>1 DEF TransitionAllowed, Session
      <4>. QED BY <1>3, <3>2, <4>2
    <3>. QED BY <3>1, <3>2 DEF Abort
  <2>. QED BY <1>1, <1>2, <1>4, <1>5, <1>6, <2>1, QuietStep DEF Operating
<1>7. CASE session' # session
  <2>1. /\ session' = [session EXCEPT !.status = "aborted"]
        /\ UNCHANGED spent
    BY <1>7 DEF Abort
  <2>2. /\ session'.status = "aborted"
        /\ session'.capability = session.capability
        /\ session'.actionCount = session.actionCount
        /\ session'.lastRun = session.lastRun
        /\ session'.lastFingerprint = session.lastFingerprint
        /\ session' = [session EXCEPT !.status = session'.status,
                                      !.capability = session'.capability]
    BY <1>3, <2>1 DEF Session
  <2>3. OneRunOperates'
    BY <1>2, <1>4, <2>2 DEF IInv, CommandsInv, OneRunOperates, Operating
  <2>4. FindingsOnce' /\ CountCoversTrace' /\ PausedIsResumable'
        /\ RunningIsAttended'
    BY <1>4, <2>2
       DEF IInv, CommandsInv, FindingsOnce, CountCoversTrace, PausedIsResumable,
           RunningIsAttended, Filed, files
  <2>5. SessionInv'
    BY <1>4, <2>1, <2>2 DEF IInv, SessionInv, LastRun, Tells, files
  <2>6. LastRun(session) <= LastRun(session)' /\ runs <= runs'
        /\ session.actionCount <= session'.actionCount
    BY <1>3, <1>4, <2>2, CommandsAssumption DEF LastRun, Session, Optional
  <2>7. ASSUME NEW q \in Runners \ {p} PROVE RunnerInv(q)'
    BY <1>1, <1>2, <1>4, <2>1, <2>2, <2>6, Bystander DEF files
  <2>. QED BY <1>1, <1>5, <2>3, <2>4, <2>5, <2>7 DEF IInv, CommandsInv
<1>. QED BY <1>6, <1>7

\* The operator's requests, the changes of the target, and a stuttering step.
LEMMA OthersStep ==
  ASSUME IInv, Ask \/ EnqueueControl \/ UpdateTarget \/ UNCHANGED vars
  PROVE  IInv'
<1>a. TypeOK
  BY DEF IInv, CommandsInv
<1>b. ASSUME UNCHANGED vars PROVE TypeOK'
  BY <1>a, <1>b DEF TypeOK, vars
<1>1. TypeOK /\ TypeOK'
  BY <1>a, <1>b, TypeOthers
<1>2. /\ UNCHANGED <<session, files, pc, job, runs>>
      /\ spent'.bookmarks = spent.bookmarks
      /\ spent'.failures = spent.failures /\ spent'.crashes = spent.crashes
  <2>1. CASE UNCHANGED vars
    BY <2>1 DEF vars, files
  <2>. QED BY <1>1, <2>1, SpentFacts DEF Ask, EnqueueControl, UpdateTarget
<1>3. /\ OneRunOperates' /\ FindingsOnce' /\ CountCoversTrace'
      /\ PausedIsResumable' /\ RunningIsAttended'
  BY <1>2
     DEF IInv, CommandsInv, OneRunOperates, FindingsOnce, CountCoversTrace,
         PausedIsResumable, RunningIsAttended, CheckpointMatches, Filed, files
<1>4. SessionInv'
  BY <1>2 DEF IInv, SessionInv, LastRun, Tells, files
<1>5. ASSUME NEW q \in Runners PROVE RunnerInv(q)'
  <2>1. session \in Session /\ runs \in Nat
    BY <1>1, CommandsAssumption DEF TypeOK
  <2>2. session.actionCount \in Nat /\ LastRun(session) \in Nat
    BY <2>1, CommandsAssumption DEF LastRun, Session, Optional
  <2>3. LastRun(session)' = LastRun(session)
    BY <1>2 DEF LastRun
  <2>4. session' = [session EXCEPT !.status = session'.status,
                                   !.capability = session'.capability]
    BY <1>2, <2>1 DEF Session
  <2>5. /\ LastRun(session) <= LastRun(session)' /\ runs <= runs'
        /\ session.actionCount <= session'.actionCount
    BY <1>2, <2>1, <2>2, <2>3
  <2>. QED BY <1>1, <1>2, <2>4, <2>5, Bystander DEF files
<1>. QED BY <1>1, <1>3, <1>4, <1>5 DEF IInv, CommandsInv

LEMMA StepInv == IInv /\ [Next]_vars => IInv'
<1> SUFFICES ASSUME IInv, [Next]_vars PROVE IInv'
  OBVIOUS
<1>1. ASSUME NEW p \in Runners, ResumeLoad(p) \/ Work(p) \/ Crash(p)
      PROVE  IInv'
  <2>1. \/ \/ PreflightTarget(p) \/ Bind(p) \/ PreflightFails(p) \/ ResumeLoad(p)
           \/ ResumeCheck(p) \/ ResumeRefused(p) \/ ExecuteLoad(p) \/ Run(p)
           \/ CheckpointThrows(p) \/ DropBookmarks(p) \/ Report(p)
           \/ LateFailure(p) \/ Crash(p)
        \/ SnapshotCapability(p) \/ Start(p) \/ PersistFindings(p)
        \/ FileFinding(p) \/ WriteCheckpoint(p) \/ FileBookmark(p)
        \/ Finish(p) \/ Abort(p)
    BY <1>1 DEF Work, Settle
  <2>2. CASE SnapshotCapability(p) \/ Start(p) \/ PersistFindings(p)
             \/ FileFinding(p)
    BY <2>2, SnapshotStep, StartStep, PersistStep, FileFindingStep
  <2>3. CASE WriteCheckpoint(p) \/ FileBookmark(p) \/ Finish(p) \/ Abort(p)
    BY <2>3, CheckpointStep, BookmarkStep, FinishStep, AbortStep
  <2>. QED BY <2>1, <2>2, <2>3, QuietSteps
<1>. QED BY <1>1, OthersStep DEF Next

-----------------------------------------------------------------------------
(* Theorems *)

\* Every reachable state satisfies the inductive invariant.
THEOREM CommandsInvariant == Spec => []IInv
<1>. QED BY InitInv, StepInv, PTL DEF Spec

\* At most one run is under way on a session, no run starts in a session a run
\* has left in the middle, no finding is filed twice, and the session counts
\* every action a resume would replay.
THEOREM CommandsHold == Spec => []CommandsInv
<1>1. IInv => CommandsInv
  BY DEF IInv
<1>. QED BY <1>1, CommandsInvariant, PTL

\* A paused session passes the checks of a resume, as long as no bookmark has
\* put another count in it.
THEOREM PausedResumes == Spec => []PausedIsResumable
<1>1. IInv => PausedIsResumable
  BY DEF IInv
<1>. QED BY <1>1, CommandsInvariant, PTL

\* A resume that is given up as diverged has repeated exactly the recorded
\* actions: it is the target that has changed.
THEOREM DivergenceIsReal == Spec => []NoFalseDivergence
<1>1. IInv => NoFalseDivergence
  BY DEF IInv, RunnerInv, Diverged, NoFalseDivergence
<1>. QED BY <1>1, CommandsInvariant, PTL

\* Without a crash or a failure no session is left running with nobody at work.
THEOREM RunningAttended == Spec => []RunningIsAttended
<1>1. IInv => RunningIsAttended
  BY DEF IInv
<1>. QED BY <1>1, CommandsInvariant, PTL

\* A kill that a run has accepted ends the session aborted, a pause does not let
\* it end completed, whatever the other runners do.
THEOREM StopIsHonoured == Spec => StopHonoured
<1>1. ASSUME IInv, [Next]_vars, NEW p \in Runners, pc[p] \in Operating,
             session'.status # session.status
      PROVE  /\ job[p].accepted = "kill" => session'.status = "aborted"
             /\ job[p].accepted = "pause" => session'.status # "completed"
  <2>1. TypeOK /\ session \in Session
    BY <1>1 DEF IInv, CommandsInv, TypeOK
  <2>2. \E q \in Runners :
          \/ SnapshotCapability(q) \/ Start(q) \/ WriteCheckpoint(q)
          \/ FileBookmark(q) \/ Finish(q) \/ Abort(q)
    BY <1>1
       DEF Next, Work, Run, Settle, vars, PreflightTarget, Bind, PreflightFails,
           ResumeLoad, ResumeCheck, ResumeRefused, ExecuteLoad, Launch,
           LaunchFails, TakeStop, TakeBookmark, NoRequest, EndRun, Diverge, Act,
           RunFails, PersistFindings, FileFinding, CheckpointThrows,
           DropBookmarks, Report, LateFailure, Crash, Ask, EnqueueControl,
           UpdateTarget
  <2>3. PICK q \in Runners :
          \/ SnapshotCapability(q) \/ Start(q) \/ WriteCheckpoint(q)
          \/ FileBookmark(q) \/ Finish(q) \/ Abort(q)
    BY <2>2
  <2>4. CASE SnapshotCapability(q) \/ WriteCheckpoint(q) \/ FileBookmark(q)
    BY <1>1, <2>1, <2>4
       DEF SnapshotCapability, WriteCheckpoint, FileBookmark, Session
  <2>5. CASE Start(q)
    BY <1>1, <2>5
       DEF Start, TransitionAllowed, IInv, CommandsInv, OneRunOperates
  <2>6. CASE Finish(q)
    <3>1. p = q
      BY <1>1, <2>6, SoleRunner DEF Finish, Operating
    <3>2. session'.status = FinalStatus(p)
      BY <1>1, <2>1, <2>6, <3>1 DEF Finish, Session
    <3>. QED BY <3>2 DEF FinalStatus
  <2>7. CASE Abort(q)
    BY <1>1, <2>1, <2>7 DEF Abort, Session
  <2>. QED BY <2>3, <2>4, <2>5, <2>6, <2>7
<1>2. IInv /\ [Next]_vars =>
        [\A p \in Runners :
           pc[p] \in Operating /\ session'.status # session.status =>
             /\ job[p].accepted = "kill" => session'.status = "aborted"
             /\ job[p].accepted = "pause" => session'.status # "completed"]_vars
  BY <1>1
<1>. QED BY <1>2, CommandsInvariant, PTL DEF Spec, StopHonoured
=============================================================================
