------------------------- MODULE ExplorationCommands -------------------------
(***************************************************************************)
(* The commands of `lakda explore` on one session: src/commands/           *)
(* exploration.ts, with checkpointFromRun of src/exploration/session.ts    *)
(* and the control flow of runAdaptiveExplore that they depend on.         *)
(*                                                                         *)
(* A runner is a process inside `explore run` or `explore resume`.  The    *)
(* operator is another process: `explore pause`, `kill` and `bookmark`     *)
(* read the session and then drop a request into the control queue, which  *)
(* the runner looks at between two actions.                                *)
(*                                                                         *)
(* A locked operation on the session directory is one step here;           *)
(* SessionStore refines it into its file operations, and its theorem       *)
(* StoreImplementsLedger is what permits the abstraction.                  *)
(*                                                                         *)
(* An action is identified by the run that performed it first.  Replaying  *)
(* it repeats its identity, so a path of actions is a sequence of run      *)
(* numbers, and a fingerprint of the target is the pair of the path since  *)
(* the target was started and the build of the target.  A build reports    *)
(* the revision the charter names or another one, and a new build may well *)
(* report the same revision as the one before.                             *)
(***************************************************************************)
EXTENDS Integers, Sequences, FiniteSets, SessionLifecycle

CONSTANTS
  Runners,      \* processes inside explore run or explore resume
  Creator,      \* the one that has just created the session
  Commands,     \* what the operator may ask for
  FindingIds,   \* identifiers a run may report findings under
  None,         \* an absent optional value
  Probed,       \* whether the target manifest has a revision probe
  MaxActions,   \* maxActions of the charter's budget
  MaxRuns,      \* bound on the runs started
  MaxRequests,  \* bound on the operator's requests
  MaxUpdates,   \* bound on the changes of the target
  MaxFaults     \* bound on the steps of a runner that fail and its crashes

Optional(S) == S \cup {None}

Path == Seq(1..MaxRuns)
Fingerprint == [path : Path, build : 0..MaxUpdates]

Target == [build : 0..MaxUpdates, own : BOOLEAN]

\* What session.json says, as far as the commands use it.
Session ==
  [status : Statuses, actionCount : Nat, lastRun : Optional(1..MaxRuns),
   lastFingerprint : Optional(Fingerprint), capability : BOOLEAN]

Checkpoint ==
  [run : 1..MaxRuns, actionCount : Nat,
   lastFingerprint : Optional(Fingerprint)]

Outcomes == {"ended", "diverged", "error"}

ASSUME CommandsAssumption ==
  /\ Creator \in Runners
  /\ Probed \in BOOLEAN
  /\ Commands \subseteq {"pause", "kill", "bookmark"}
  /\ None \notin Commands \cup FindingIds \cup Statuses \cup Outcomes \cup Nat
                \cup Fingerprint \cup Session \cup Checkpoint
  /\ {MaxActions, MaxRuns, MaxRequests, MaxUpdates, MaxFaults}
       \subseteq Nat

VARIABLES
  session,     \* session.json
  checkpoint,  \* checkpoint.json
  findings,    \* findings.jsonl
  control,     \* the files of the control directory in the order of their names
  traces,      \* the replay trace of each run that has ended
  target,      \* the build of the target, and whether it is of the charter's
               \* revision
  pc,          \* where each runner is
  job,         \* the variables of executeSession and of the run inside it
  pending,     \* the command the operator has checked and not yet enqueued
  runs,        \* runs started
  spent        \* requests, bookmarks filed, failures and crashes so far

vars == <<session, checkpoint, findings, control, traces, target, pc, job,
          pending, runs, spent>>

\* A run is between its session-started or session-resumed event and the
\* event that ends it.
Operating == {"launch", "control", "act", "persist", "file", "finish"}

PCs == Operating \cup
  {"idle", "preflight", "probe", "bind", "check", "execute", "start", "report",
   "abort"}

Job ==
  [loaded : Optional(Session), resumed : BOOLEAN, run : 0..MaxRuns,
   path : Path, last : Optional(Fingerprint),
   accepted : Optional({"pause", "kill"}), bookmarks : Seq(Nat),
   outcome : Optional(Outcomes), unfiled : SUBSET FindingIds]

NoJob ==
  [loaded |-> None, resumed |-> FALSE, run |-> 0, path |-> <<>>, last |-> None,
   accepted |-> None, bookmarks |-> <<>>, outcome |-> None, unfiled |-> {}]

\* createExplorationSession has returned in the creator.
Init ==
  /\ session = [status |-> "draft", actionCount |-> 0, lastRun |-> None,
                lastFingerprint |-> None, capability |-> FALSE]
  /\ checkpoint = None
  /\ findings = <<>>
  /\ control = <<>>
  /\ traces = [r \in 1..MaxRuns |-> <<>>]
  /\ target = [build |-> 0, own |-> TRUE]
  /\ pc = [p \in Runners |-> IF p = Creator THEN "preflight" ELSE "idle"]
  /\ job = [p \in Runners |-> NoJob]
  /\ pending = None
  /\ runs = 0
  /\ spent = [requests |-> 0, bookmarks |-> 0, failures |-> 0, crashes |-> 0]

Goto(p, to) == pc' = [pc EXCEPT ![p] = to]

Move(p, from, to) == pc[p] = from /\ Goto(p, to)

\* The call ends, by returning or by throwing.
End(p) == Goto(p, "idle") /\ job' = [job EXCEPT ![p] = NoJob]

Spend(what, max) ==
  /\ spent[what] < max
  /\ spent' = [spent EXCEPT ![what] = @ + 1]

Fault(kind) ==
  /\ spent.failures + spent.crashes < MaxFaults
  /\ spent' = [spent EXCEPT ![kind] = @ + 1]

files == <<checkpoint, findings, traces>>

-----------------------------------------------------------------------------
(* explore run and explore resume before the run *)

\* What the target answers to the revision probe is what the charter names.
ProbeAgrees == Probed => target.own

\* preflightTarget: the manifest, its signature and what it refers to are good.
PreflightTarget(p) ==
  /\ Move(p, "preflight", "probe")
  /\ UNCHANGED <<session, files, control, target, job, pending, runs, spent>>

\* capabilityForCharter asks the target, and exploreRunCommand stores the snapshot
\* of its capability ...
SnapshotCapability(p) ==
  /\ Move(p, "probe", "bind")
  /\ ProbeAgrees
  /\ session' = [session EXCEPT !.capability = TRUE]
  /\ UNCHANGED <<files, control, target, job, pending, runs, spent>>

\* ... and then checks that it matches the target manifest.
Bind(p) ==
  /\ Move(p, "bind", "execute")
  /\ UNCHANGED <<session, files, control, target, job, pending, runs, spent>>

\* A failure before the run aborts the new session.
PreflightFails(p) ==
  /\ pc[p] \in {"preflight", "probe", "bind"}
  /\ Goto(p, "abort")
  /\ \/ pc[p] = "probe" /\ ~ProbeAgrees /\ UNCHANGED spent
     \/ Fault("failures")
  /\ UNCHANGED <<session, files, control, target, job, pending, runs>>

\* exploreResumeCommand reads the session and refuses one that is neither
\* paused nor draft.
ResumeLoad(p) ==
  /\ Move(p, "idle", "check")
  /\ session.status \in {"paused", "draft"}
  /\ runs < MaxRuns
  /\ job' = [job EXCEPT ![p].loaded = session,
                        ![p].resumed = session.status = "paused"]
  /\ UNCHANGED <<session, files, control, target, pending, runs, spent>>

\* What it requires of a session that has already acted: the checkpoint and
\* the trace of the last run are those the session names.
CheckpointMatches(s) ==
  s.actionCount > 0 =>
    /\ checkpoint # None
    /\ s.lastRun # None /\ s.lastFingerprint # None
    /\ checkpoint.actionCount = s.actionCount
    /\ checkpoint.lastFingerprint = s.lastFingerprint
    /\ checkpoint.run = s.lastRun

ResumeCheck(p) ==
  /\ Move(p, "check", "execute")
  /\ CheckpointMatches(job[p].loaded) /\ job[p].loaded.capability
  /\ ProbeAgrees
  /\ UNCHANGED <<session, files, control, target, job, pending, runs, spent>>

\* A refused resume, or one whose preflight fails, changes nothing.
ResumeRefused(p) ==
  /\ pc[p] = "check"
  /\ \/ /\ \/ ~CheckpointMatches(job[p].loaded)
           \/ ~job[p].loaded.capability
           \/ ~ProbeAgrees
        /\ UNCHANGED spent
     \/ Fault("failures")
  /\ End(p)
  /\ UNCHANGED <<session, files, control, target, pending, runs>>

-----------------------------------------------------------------------------
(* executeSession up to the run *)

\* It reads the session again.
ExecuteLoad(p) ==
  /\ Move(p, "execute", "start")
  /\ job' = [job EXCEPT ![p].loaded = session]
  /\ UNCHANGED <<session, files, control, target, pending, runs, spent>>

\* Mutant of Start: the transition is checked on the session read before.
StartFromLoaded(p) ==
  /\ pc[p] = "start"
  /\ runs < MaxRuns
  /\ IF TransitionAllowed(job[p].loaded.status, "running")
       THEN /\ session' = [session EXCEPT !.status = "running"]
            /\ Goto(p, "launch")
            /\ runs' = runs + 1
            /\ job' = [job EXCEPT ![p].run = runs + 1]
       ELSE End(p) /\ UNCHANGED <<session, runs>>
  /\ UNCHANGED <<files, control, target, pending, spent>>

\* The session-started or session-resumed event.
Start(p) ==
  /\ pc[p] = "start"
  /\ runs < MaxRuns
  /\ IF TransitionAllowed(session.status, "running")
       THEN /\ session' = [session EXCEPT !.status = "running"]
            /\ Goto(p, "launch")
            /\ runs' = runs + 1
            /\ job' = [job EXCEPT ![p].run = runs + 1]
       ELSE End(p) /\ UNCHANGED <<session, runs>>
  /\ UNCHANGED <<files, control, target, pending, spent>>

\* replayPrefix of executeSession, which is also the actionOffset later.
Offset(p) == IF job[p].resumed THEN job[p].loaded.actionCount ELSE 0

\* Mutant of Replay: one action less.
ReplayOneLess(p) ==
  IF Offset(p) > 0 /\ job[p].loaded.lastRun # None
    THEN SubSeq(traces[job[p].loaded.lastRun], 1, Offset(p) - 1)
    ELSE <<>>

\* The actions runAdaptiveExplore has to repeat.
Replay(p) ==
  IF Offset(p) > 0 /\ job[p].loaded.lastRun # None
    THEN LET trace == traces[job[p].loaded.lastRun]
         IN  IF Len(trace) <= Offset(p) THEN trace
             ELSE SubSeq(trace, 1, Offset(p))
    ELSE <<>>

\* adaptiveExpectedFingerprint.
Expected(p) ==
  IF job[p].resumed THEN job[p].loaded.lastFingerprint ELSE None

Here(p) == [path |-> job[p].path, build |-> target.build]

-----------------------------------------------------------------------------
(* runAdaptiveExplore *)

\* startAdaptiveEnvironment opens the target and asks for its revision again,
\* which may be another than the one the preflight has seen.
Launch(p) ==
  /\ Move(p, "launch", "control")
  /\ ProbeAgrees
  /\ UNCHANGED <<session, files, control, target, job, pending, runs, spent>>

LaunchFails(p) ==
  /\ Move(p, "launch", "persist")
  /\ ~ProbeAgrees
  /\ job' = [job EXCEPT ![p].outcome = "error"]
  /\ UNCHANGED <<session, files, control, target, pending, runs, spent>>

\* One request is taken per iteration.  Pause and kill end the run.
TakeStop(p) ==
  /\ Move(p, "control", "persist")
  /\ control # <<>> /\ Head(control) # "bookmark"
  /\ control' = Tail(control)
  /\ job' = [job EXCEPT ![p].accepted = Head(control), ![p].outcome = "ended"]
  /\ UNCHANGED <<session, files, target, pending, runs, spent>>

\* A bookmark is noted with the number of actions of this run.
TakeBookmark(p) ==
  /\ Move(p, "control", "act")
  /\ control # <<>> /\ Head(control) = "bookmark"
  /\ control' = Tail(control)
  /\ job' = [job EXCEPT ![p].bookmarks = Append(@, Len(job[p].path))]
  /\ UNCHANGED <<session, files, target, pending, runs, spent>>

NoRequest(p) ==
  /\ Move(p, "control", "act")
  /\ control = <<>>
  /\ UNCHANGED <<session, files, control, target, job, pending, runs, spent>>

\* The run ends: a limit, a stop condition, no candidate, a failed oracle.
EndRun(p) ==
  /\ Move(p, "act", "persist")
  /\ job' = [job EXCEPT ![p].outcome = "ended"]
  /\ UNCHANGED <<session, files, control, target, pending, runs, spent>>

\* After the replayed actions the target is not in the expected state.
Mismatch(p) ==
  /\ Len(job[p].path) = Len(Replay(p))
  /\ Expected(p) # None
  /\ Here(p) # Expected(p)

Diverge(p) ==
  /\ Move(p, "act", "persist")
  /\ Len(job[p].path) < MaxActions
  /\ Mismatch(p)
  /\ job' = [job EXCEPT ![p].outcome = "diverged"]
  /\ UNCHANGED <<session, files, control, target, pending, runs, spent>>

\* The next action is the recorded one during the replay and a new one after.
Act(p) ==
  LET n == Len(job[p].path)
      path == Append(job[p].path, IF n < Len(Replay(p)) THEN Replay(p)[n + 1]
                                  ELSE job[p].run)
  IN  /\ n < MaxActions
      /\ ~Mismatch(p)
      /\ Move(p, "act", "control")
      /\ job' = [job EXCEPT ![p].path = path,
                            ![p].last = [path |-> path, build |-> target.build]]
      /\ UNCHANGED <<session, files, control, target, pending, runs, spent>>

\* An exception in the loop, or in the finalization of the run's artifacts,
\* which comes after a pause or a kill has been accepted.
RunFails(p) ==
  /\ pc[p] \in {"act", "persist"}
  /\ job[p].outcome # "error"
  /\ Goto(p, "persist")
  /\ job' = [job EXCEPT ![p].outcome = "error"]
  /\ Fault("failures")
  /\ UNCHANGED <<session, files, control, target, pending, runs>>

-----------------------------------------------------------------------------
(* executeSession after the run *)

Filed == {findings[i] : i \in DOMAIN findings}

\* persistRunFindings reads the findings that are there; the oracles of the
\* run have reported some.  The run's trace is on disk.
PersistFindings(p) ==
  /\ Move(p, "persist", "file")
  /\ \E reported \in SUBSET FindingIds :
       /\ job[p].path = <<>> => reported = {}
       /\ job' = [job EXCEPT ![p].unfiled = reported \ Filed]
  /\ traces' = [traces EXCEPT ![job[p].run] = job[p].path]
  /\ UNCHANGED <<session, checkpoint, findings, control, target, pending, runs,
                 spent>>

\* writeFinding, once per finding that is new.
FileFinding(p) ==
  /\ pc[p] = "file"
  /\ \E f \in job[p].unfiled :
       /\ findings' = Append(findings, f)
       /\ job' = [job EXCEPT ![p].unfiled = @ \ {f}]
  /\ UNCHANGED <<session, checkpoint, control, traces, target, pc, pending,
                 runs, spent>>

\* Actions of the run beyond those the session has already counted.
Segment(p) ==
  IF Len(job[p].path) <= Offset(p) THEN 0 ELSE Len(job[p].path) - Offset(p)

Total(p) ==
  session.actionCount + Segment(p)

\* Mutant of WriteCheckpoint: the session keeps naming the run before.
WriteCheckpointKeepingRun(p) ==
  /\ Move(p, "file", "finish")
  /\ job[p].unfiled = {}
  /\ Total(p) > 0 => job[p].last # None
  /\ checkpoint' = [run |-> job[p].run, actionCount |-> Total(p),
                    lastFingerprint |-> job[p].last]
  /\ session' =
       [session EXCEPT !.actionCount = Total(p),
                       !.lastRun = IF @ = None THEN job[p].run ELSE @,
                       !.lastFingerprint = IF job[p].last = None THEN @
                                           ELSE job[p].last]
  /\ UNCHANGED <<findings, control, traces, target, job, pending, runs, spent>>

\* With all findings filed, checkpointFromRun: the fingerprint is that of the
\* last action of this run.
WriteCheckpoint(p) ==
  /\ Move(p, "file", "finish")
  /\ job[p].unfiled = {}
  /\ Total(p) > 0 => job[p].last # None
  /\ checkpoint' = [run |-> job[p].run, actionCount |-> Total(p),
                    lastFingerprint |-> job[p].last]
  /\ session' =
       [session EXCEPT !.actionCount = Total(p), !.lastRun = job[p].run,
                       !.lastFingerprint = IF job[p].last = None THEN @
                                           ELSE job[p].last]
  /\ UNCHANGED <<findings, control, traces, target, job, pending, runs, spent>>

\* Mutant of CheckpointThrows: nothing catches the exception.
CheckpointThrowsOut(p) ==
  /\ pc[p] = "file"
  /\ job[p].unfiled = {}
  /\ Total(p) > 0 /\ job[p].last = None
  /\ End(p)
  /\ UNCHANGED <<session, files, control, target, pending, runs, spent>>

\* It throws when the session has acted and this run has not.
CheckpointThrows(p) ==
  /\ Move(p, "file", "abort")
  /\ job[p].unfiled = {}
  /\ Total(p) > 0 /\ job[p].last = None
  /\ UNCHANGED <<session, files, control, target, job, pending, runs, spent>>

\* Each bookmark of the trace becomes an event, and the event carries the
\* number of actions of the run as the action count of the session.
FileBookmark(p) ==
  /\ pc[p] = "finish"
  /\ job[p].bookmarks # <<>>
  /\ session' = [session EXCEPT !.actionCount = Head(job[p].bookmarks)]
  /\ job' = [job EXCEPT ![p].bookmarks = Tail(@)]
  /\ Spend("bookmarks", MaxRequests)
  /\ UNCHANGED <<files, control, target, pc, pending, runs>>

\* One that cannot be filed ends the loop over them, and the exception is
\* swallowed.
DropBookmarks(p) ==
  /\ pc[p] = "finish"
  /\ job[p].bookmarks # <<>>
  /\ job' = [job EXCEPT ![p].bookmarks = <<>>]
  /\ Fault("failures")
  /\ UNCHANGED <<session, files, control, target, pc, pending, runs>>

\* Mutant of FinalStatus: only the outcome of the run counts.
FinalStatusOfOutcome(p) ==
  IF job[p].outcome = "error" THEN "aborted" ELSE "completed"

\* The status of the final event.
FinalStatus(p) ==
  CASE job[p].accepted = "kill" \/ job[p].outcome = "error" -> "aborted"
    [] job[p].accepted = "pause" /\ job[p].outcome # "error" -> "paused"
    [] OTHER -> "completed"

\* It carries the action count and the last run the session already has.
Finish(p) ==
  /\ pc[p] = "finish"
  /\ job[p].bookmarks = <<>>
  /\ IF TransitionAllowed(session.status, FinalStatus(p))
       THEN /\ session' = [session EXCEPT !.status = FinalStatus(p)]
            /\ Goto(p, "report")
            /\ job' = [job EXCEPT ![p] = NoJob]
       ELSE Goto(p, "abort") /\ UNCHANGED <<session, job>>
  /\ UNCHANGED <<files, control, target, pending, runs, spent>>

\* buildExplorationReport succeeds and the command returns.
Report(p) ==
  /\ pc[p] = "report"
  /\ End(p)
  /\ UNCHANGED <<session, files, control, target, pending, runs, spent>>

\* Any step after the start may throw: every one of them takes the session
\* lock and may give up on it, or reads a file.
LateFailure(p) ==
  /\ pc[p] \in {"persist", "file", "finish", "report"}
  /\ Goto(p, "abort")
  /\ Fault("failures")
  /\ UNCHANGED <<session, files, control, target, job, pending, runs>>

\* The catch block appends session-aborted, which throws in its turn when the
\* lifecycle does not allow it or the lock is not to be had.
Abort(p) ==
  /\ pc[p] = "abort"
  /\ \/ /\ session' = IF TransitionAllowed(session.status, "aborted")
                        THEN [session EXCEPT !.status = "aborted"] ELSE session
        /\ UNCHANGED spent
     \/ Fault("failures") /\ UNCHANGED session
  /\ End(p)
  /\ UNCHANGED <<files, control, target, pending, runs>>

-----------------------------------------------------------------------------
(* The operator, the target, crashes *)

\* The states in which each command is accepted.
MayAsk(command) ==
  IF command = "kill" THEN session.status \notin {"completed", "aborted"}
  ELSE session.status = "running"

\* explorePauseCommand, exploreKillCommand and exploreBookmarkCommand read
\* the session ...
Ask ==
  /\ pending = None
  /\ Spend("requests", MaxRequests)
  /\ \E c \in Commands : MayAsk(c) /\ pending' = c
  /\ UNCHANGED <<session, files, control, target, pc, job, runs>>

\* ... and enqueueControl adds a file.
EnqueueControl ==
  /\ pending # None
  /\ control' = Append(control, pending)
  /\ pending' = None
  /\ UNCHANGED <<session, files, target, pc, job, runs, spent>>

\* The target is changed under the session's feet.
UpdateTarget ==
  /\ target.build < MaxUpdates
  /\ \E own \in BOOLEAN : target' = [build |-> target.build + 1, own |-> own]
  /\ UNCHANGED <<session, files, control, pc, job, pending, runs, spent>>

Crash(p) ==
  /\ pc[p] # "idle"
  /\ End(p)
  /\ Fault("crashes")
  /\ UNCHANGED <<session, files, control, target, pending, runs>>

-----------------------------------------------------------------------------
Run(p) ==
  \/ Launch(p) \/ LaunchFails(p)
  \/ TakeStop(p) \/ TakeBookmark(p) \/ NoRequest(p)
  \/ EndRun(p) \/ Diverge(p) \/ Act(p) \/ RunFails(p)

Settle(p) ==
  \/ PersistFindings(p) \/ FileFinding(p)
  \/ WriteCheckpoint(p) \/ CheckpointThrows(p)
  \/ FileBookmark(p) \/ DropBookmarks(p)
  \/ Finish(p) \/ Report(p) \/ LateFailure(p) \/ Abort(p)

Work(p) ==
  \/ PreflightTarget(p) \/ SnapshotCapability(p) \/ Bind(p)
  \/ PreflightFails(p)
  \/ ResumeCheck(p) \/ ResumeRefused(p)
  \/ ExecuteLoad(p) \/ Start(p)
  \/ Run(p) \/ Settle(p)

Next ==
  \/ \E p \in Runners : ResumeLoad(p) \/ Work(p) \/ Crash(p)
  \/ Ask \/ EnqueueControl \/ UpdateTarget

Spec == Init /\ [][Next]_vars

-----------------------------------------------------------------------------
(* Properties *)

TypeOK ==
  /\ session \in Session
  /\ checkpoint \in Optional(Checkpoint)
  /\ findings \in Seq(FindingIds)
  /\ control \in Seq(Commands)
  /\ traces \in [1..MaxRuns -> Path]
  /\ target \in Target
  /\ pc \in [Runners -> PCs]
  /\ job \in [Runners -> Job]
  /\ pending \in Optional(Commands)
  /\ runs \in 0..MaxRuns
  /\ spent \in [{"requests", "bookmarks", "failures", "crashes"} -> Nat]

\* However many processes run or resume a session, at most one has a run
\* under way on it, although each decides on a session it read earlier; and
\* no run starts in a session that a run has left in the middle.
OneRunOperates ==
  /\ \A p, q \in Runners :
       pc[p] \in Operating /\ pc[q] \in Operating => p = q
  /\ \A p \in Runners :
       pc[p] \in Operating => session.status \in {"running", "aborted"}

\* A paused session can be resumed: the checkpoint, the last run and the
\* fingerprint it names belong together, whichever runs, failures and crashes
\* it went through.  The checks of exploreResumeCommand would refuse it
\* otherwise, and a paused session has no other way on.  A bookmark is the
\* exception: its event puts the number of actions of the run in the place of
\* those of the session.
PausedIsResumable ==
  session.status = "paused" /\ spent.bookmarks = 0 =>
    CheckpointMatches(session) /\ session.capability

\* A run that a resume gives up as diverged has repeated exactly the actions
\* behind the expected fingerprint: it is the target that has changed.  Again a
\* bookmark may be in the way.
NoFalseDivergence ==
  \A p \in Runners :
    job[p].outcome = "diverged" /\ spent.bookmarks = 0 => Expected(p).path = job[p].path

\* The session never counts fewer actions than the run it would replay, unless a
\* bookmark was filed.
CountCoversTrace ==
  checkpoint # None /\ spent.bookmarks = 0 /\ session.status \in {"paused", "completed"} =>
    session.actionCount >= Len(traces[checkpoint.run])

\* A finding that a replay reports again is not filed again.
FindingsOnce == Cardinality(Filed) = Len(findings)

\* Once a run has accepted a kill, the session can only end aborted; once it
\* has accepted a pause, the session does not end completed.
StopHonoured ==
  [][\A p \in Runners :
       pc[p] \in Operating /\ session'.status # session.status =>
         /\ job[p].accepted = "kill" => session'.status = "aborted"
         /\ job[p].accepted = "pause" => session'.status # "completed"]_vars

\* A running session can be neither resumed nor run.  Whatever way a run ends, a
\* session is running only while a runner works on it, unless a process has died
\* or failed.
RunningIsAttended ==
  session.status = "running" =>
    \/ \E p \in Runners : pc[p] \in Operating \cup {"abort"}
    \/ spent.crashes > 0 \/ spent.failures > 0

\* The sessions and the runs on them, whatever two processes, the operator and
\* one fault do: no two runs at once, no finding twice, no action uncounted.
CommandsInv ==
  /\ TypeOK
  /\ OneRunOperates
  /\ FindingsOnce
  /\ CountCoversTrace

=============================================================================
