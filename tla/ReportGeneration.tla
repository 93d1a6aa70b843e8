--------------------------- MODULE ReportGeneration ---------------------------
(***************************************************************************)
(* Report generation: src/reporting/generation.ts with the readers of its  *)
(* inputs, the bundle writer, the receipt writer and the output            *)
(* transaction they share, next to the processes that change those inputs. *)
(*                                                                         *)
(* A generator reads its inputs file by file, without the session lock,    *)
(* while runs finish and sessions go on.  It writes the report in a        *)
(* directory of its own, reads all the inputs a second time, and only then *)
(* renames the directory to its final name.  A lock file next to the       *)
(* output keeps two generators apart.  A deadline can strike between any   *)
(* two steps, each file operation can fail, and a process can die.         *)
(*                                                                         *)
(* The inputs are a run, of which a start record may be all there is, and  *)
(* a session.  Of the session's files there are events.jsonl and           *)
(* session.json, each as the number of events it shows, and the manifest   *)
(* with the digests of both.                                               *)
(***************************************************************************)
EXTENDS Naturals, Sequences, FiniteSets

CONSTANTS
  Generators,  \* the processes that generate a report
  Outputs,     \* the directories reports go to
  Output,      \* the output directory of each generator
  Unlucky,     \* the generators whose deadline may pass, whose clean-up may
               \* fail and that may die
  MaxEvents,   \* bound on the events of the session
  Solitary,    \* bound: generators that start only before the session moves,
               \* and after whose start it stays as it is
  None         \* no value

ASSUME GenerationAssumption ==
  /\ Output \in [Generators -> Outputs]
  /\ Unlucky \subseteq Generators
  /\ Solitary \subseteq Generators
  /\ MaxEvents \in Nat
  /\ Generators \cap Outputs = {}
  /\ None \notin Generators \cup {"ready", "error", "partial", "complete"}
  /\ None \notin [run : BOOLEAN, events : Nat, state : Nat]
  /\ None \notin [by : Generators,
                  what : [run : BOOLEAN, events : Nat, state : Nat]]

VARIABLES
  runFinal,   \* the run has its artifact manifest
  events,     \* events.jsonl of the session
  state,      \* session.json
  manifest,   \* the digests in the manifest of the session
  updating,   \* how far the holder of .session.lock is, or "no"
  exporting,  \* how far the export of the session is, or "no"
  digests,    \* the digests the export has computed
  pc,         \* where each generator is
  probe,      \* the next input file it reads
  snap,       \* what it has read
  base,       \* auxiliary: the inputs when it starts the second reading
  tx,         \* what it is publishing: its bundle or its receipt
  stage,      \* the working directory of each transaction: None, "partial"
              \* or "complete"
  good,       \* the transaction has published and nothing failed since
  aborted,    \* its deadline has passed
  result,     \* generationStatus: None, "error", or "ready", which here
              \* includes the "degraded" of a run without its manifest
  saved,      \* it reports a receiptPath
  dirty,      \* auxiliary: the transactions whose clean-up failed or was
              \* never reached
  lock,       \* the reservation of each place
  published   \* what is at each place

source   == <<runFinal, events, state, manifest, updating, exporting, digests>>
reading  == <<probe, snap, base>>
outcome  == <<result, saved, dirty>>
disk     == <<lock, published>>
vars     == <<source, pc, reading, tx, stage, good, aborted, outcome, disk>>

\* The inputs as a report shows them.
Inputs == [run : BOOLEAN, events : Nat, state : Nat]

Current == [run |-> runFinal, events |-> events, state |-> state]

Digests == [events : Nat, state : Nat]

\* The files in the order loadReportSourceCollection and
\* verifyReportSourcesUnchanged look at them: the run, then the session with
\* its lock and its manifest looked at before and after the rest.
Probes ==
  <<"run", "unlocked", "manifest", "events", "session", "manifestAgain",
    "unlockedAgain">>

Transactions == {"bundle", "receipt"}

\* A receipt has a path of its own, so a generator stands for its place.
Places == Outputs \cup Generators

Place(g) == IF tx[g] = "bundle" THEN Output[g] ELSE g

\* Steps at which reserveReportOutput has opened the lock file.
Reserving == {"stage", "write", "verify", "absent", "rename", "dispose",
              "release"}

Active == {"collect", "vacant", "reserve"} \cup Reserving

PCs == Active \cup {"idle", "done", "dead"}

Unread == [run |-> FALSE, manifest |-> [events |-> 0, state |-> 0]]

Init ==
  /\ runFinal = FALSE
  /\ events = 1 /\ state = 1
  /\ manifest = [events |-> 1, state |-> 1]
  /\ updating = "no" /\ exporting = "no"
  /\ digests = [events |-> 0, state |-> 0]
  /\ pc = [g \in Generators |-> "idle"]
  /\ probe = [g \in Generators |-> 1]
  /\ snap = [g \in Generators |-> Unread]
  /\ base = [g \in Generators |-> None]
  /\ tx = [g \in Generators |-> "bundle"]
  /\ stage = [g \in Generators |-> [t \in Transactions |-> None]]
  /\ good = [g \in Generators |-> FALSE]
  /\ aborted = [g \in Generators |-> FALSE]
  /\ result = [g \in Generators |-> None]
  /\ saved = [g \in Generators |-> FALSE]
  /\ dirty = [g \in Generators |-> {}]
  /\ lock = [p \in Places |-> None]
  /\ published = [p \in Places |-> None]

-----------------------------------------------------------------------------
(* The processes that change the inputs. *)

generator == <<pc, reading, tx, stage, good, aborted, outcome, disk>>

\* The bound on sessions that change while several generators are at work.
SessionMayMove == \A g \in Solitary : pc[g] = "idle"

SessionHasMoved == updating # "no" \/ events # 1

\* runLakda ends: exportHate writes the manifest of the run.
FinalizeRun ==
  /\ ~runFinal
  /\ runFinal' = TRUE
  /\ UNCHANGED <<events, state, manifest, updating, exporting, digests,
                 generator>>

\* appendSessionEvent: lock, append to the log, replace session.json, unlock.
\* A process that dies on the way leaves the lock.
UpdateSession ==
  /\ SessionMayMove
  /\ \/ /\ updating = "no" /\ events < MaxEvents
        /\ updating' = "locked"
        /\ UNCHANGED <<events, state>>
     \/ /\ updating = "locked" /\ updating' = "appended"
        /\ events' = events + 1
        /\ UNCHANGED state
     \/ /\ updating = "appended" /\ updating' = "projected"
        /\ state' = events
        /\ UNCHANGED events
     \/ /\ updating = "projected" /\ updating' = "no"
        /\ UNCHANGED <<events, state>>
  /\ UNCHANGED <<runFinal, manifest, exporting, digests, generator>>

\* buildSessionHateManifest digests the files of the session one after the
\* other, without the lock, and replaces the manifest.  An export that would
\* change nothing is left out.
ExportSession ==
  /\ SessionMayMove
  /\ \/ /\ exporting = "no" /\ exporting' = "events"
        /\ manifest # [events |-> events, state |-> state]
        /\ digests' = [digests EXCEPT !.events = events]
        /\ UNCHANGED manifest
     \/ /\ exporting = "events" /\ exporting' = "files"
        /\ digests' = [digests EXCEPT !.state = state]
        /\ UNCHANGED manifest
     \/ /\ exporting = "files" /\ exporting' = "no"
        /\ manifest' = digests
        /\ digests' = [events |-> 0, state |-> 0]
  /\ UNCHANGED <<runFinal, events, state, updating, generator>>

Environment == FinalizeRun \/ UpdateSession \/ ExportSession

-----------------------------------------------------------------------------
(* A generator. *)

Alive(g, at) == pc[g] = at /\ ~aborted[g]

Goto(g, to) == pc' = [pc EXCEPT ![g] = to]

\* The next file, or the step after the last one.
Advance(g, next) ==
  IF probe[g] = Len(Probes)
    THEN probe' = [probe EXCEPT ![g] = 1] /\ Goto(g, next)
    ELSE probe' = [probe EXCEPT ![g] = @ + 1] /\ UNCHANGED pc

\* What readArtifactSnapshot and assertSessionUnlocked demand of a file.
Agrees(g, what) ==
  /\ what = "run" => runFinal = snap[g].run
  /\ what \in {"unlocked", "unlockedAgain"} => updating = "no"
  /\ what \in {"manifest", "manifestAgain"} => manifest = snap[g].manifest
  /\ what = "events" => events = snap[g].manifest.events
  /\ what = "session" => state = snap[g].manifest.state

\* What has been read is not used any more.
Forget(g) ==
  /\ probe' = [probe EXCEPT ![g] = 1]
  /\ snap' = [snap EXCEPT ![g] = Unread]
  /\ base' = [base EXCEPT ![g] = None]

\* The command line is accepted and names inputs that exist.
Start(g) ==
  /\ pc[g] = "idle"
  /\ g \in Solitary => ~SessionHasMoved
  /\ Goto(g, "collect")
  /\ UNCHANGED <<source, reading, tx, stage, good, aborted, outcome, disk>>

\* It is not: without inputs no receipt is written either.
Refuse(g) ==
  /\ pc[g] = "idle"
  /\ Goto(g, "done")
  /\ result' = [result EXCEPT ![g] = "error"]
  /\ UNCHANGED <<source, reading, tx, stage, good, aborted, saved, dirty, disk>>

\* The first reading: whether the run is finalized, the manifest of the
\* session, and its files as the manifest describes them.  The projection
\* must be the one of the log.
Collect(g) ==
  /\ Alive(g, "collect")
  /\ \/ Probes[probe[g]] = "run"
        /\ snap' = [snap EXCEPT ![g].run = runFinal]
     \/ Probes[probe[g]] = "manifest"
        /\ snap' = [snap EXCEPT ![g].manifest = manifest]
     \/ Probes[probe[g]] \notin {"run", "manifest"}
        /\ Agrees(g, Probes[probe[g]])
        /\ UNCHANGED snap
  /\ probe[g] = Len(Probes) =>
       snap[g].manifest.events = snap[g].manifest.state
  /\ Advance(g, "vacant")
  /\ UNCHANGED <<source, base, tx, stage, good, aborted, outcome, disk>>

\* The output must not exist; its parent is created.
Vacant(g) ==
  /\ Alive(g, "vacant")
  /\ published[Place(g)] = None
  /\ Goto(g, "reserve")
  /\ UNCHANGED <<source, reading, tx, stage, good, aborted, outcome, disk>>

\* Mutant of Reserve: the lock file is opened with "w".
ReserveAnyway(g) ==
  /\ Alive(g, "reserve")
  /\ lock' = [lock EXCEPT ![Place(g)] = g]
  /\ Goto(g, "stage")
  /\ UNCHANGED <<source, reading, tx, stage, good, aborted, outcome, published>>

\* The lock file is created with "wx".
Reserve(g) ==
  /\ Alive(g, "reserve")
  /\ lock[Place(g)] = None
  /\ lock' = [lock EXCEPT ![Place(g)] = g]
  /\ Goto(g, "stage")
  /\ UNCHANGED <<source, reading, tx, stage, good, aborted, outcome, published>>

\* The output still does not exist, and a working directory is made.
MakeStage(g) ==
  /\ Alive(g, "stage")
  /\ published[Place(g)] = None
  /\ stage' = [stage EXCEPT ![g][tx[g]] = "partial"]
  /\ Goto(g, "write")
  /\ UNCHANGED <<source, reading, tx, good, aborted, outcome, disk>>

\* The files are written.  A bundle goes on to the second reading.
Write(g) ==
  /\ Alive(g, "write")
  /\ stage' = [stage EXCEPT ![g][tx[g]] = "complete"]
  /\ \/ /\ tx[g] = "bundle"
        /\ Goto(g, "verify")
        /\ base' = [base EXCEPT ![g] = Current]
     \/ /\ tx[g] = "receipt"
        /\ Goto(g, "absent")
        /\ UNCHANGED base
  /\ UNCHANGED <<source, probe, snap, tx, good, aborted, outcome, disk>>

\* Mutant of Verify: the inputs are read a second time but not compared.
VerifyNothing(g) ==
  /\ Alive(g, "verify")
  /\ Advance(g, "absent")
  /\ UNCHANGED <<source, snap, base, tx, stage, good, aborted, outcome, disk>>

\* The second reading: every file must be what the first one saw.
Verify(g) ==
  /\ Alive(g, "verify")
  /\ Agrees(g, Probes[probe[g]])
  /\ Advance(g, "absent")
  /\ UNCHANGED <<source, snap, base, tx, stage, good, aborted, outcome, disk>>

\* publish and publishFile look at the output once more.
FindAbsent(g) ==
  /\ Alive(g, "absent")
  /\ published[Place(g)] = None
  /\ Goto(g, "rename")
  /\ UNCHANGED <<source, reading, tx, stage, good, aborted, outcome, disk>>

\* What the working directory holds.
Content(g) ==
  IF tx[g] = "bundle"
    THEN [run |-> snap[g].run, events |-> snap[g].manifest.events,
          state |-> snap[g].manifest.state]
    ELSE result[g]

\* The bundle is renamed to its output, the receipt linked.  Neither replaces
\* what is there: a directory with files is not replaced by rename, nor
\* any file by link.
Publish(g) ==
  /\ Alive(g, "rename")
  /\ published[Place(g)] = None
  /\ published' =
       [published EXCEPT ![Place(g)] = [by |-> g, what |-> Content(g)]]
  /\ stage' =
       [stage EXCEPT ![g].bundle = IF tx[g] = "bundle" THEN None ELSE @]
  /\ good' = [good EXCEPT ![g] = TRUE]
  /\ Goto(g, "dispose")
  /\ Forget(g)
  /\ UNCHANGED <<source, tx, aborted, outcome, lock>>

\* A transaction is over.  After the bundle comes the receipt, which says
\* what became of the bundle.
Settle(g, ok) ==
  /\ good' = [good EXCEPT ![g] = FALSE]
  /\ \/ /\ tx[g] = "bundle"
        /\ result' = [result EXCEPT ![g] = IF ok THEN "ready" ELSE "error"]
        /\ tx' = [tx EXCEPT ![g] = "receipt"]
        /\ Goto(g, "vacant")
        /\ UNCHANGED <<saved, aborted>>
     \/ /\ tx[g] = "receipt"
        /\ saved' = [saved EXCEPT ![g] = ok]
        /\ aborted' = [aborted EXCEPT ![g] = FALSE]
        /\ Goto(g, "done")
        /\ UNCHANGED <<result, tx>>

Soil(g) == dirty' = [dirty EXCEPT ![g] = @ \cup {tx[g]}]

\* dispose removes the working directory that has not been renamed, or fails
\* to and goes on to the lock.
RemoveStage(g) ==
  /\ pc[g] = "dispose"
  /\ \/ /\ stage' = [stage EXCEPT ![g][tx[g]] = None]
        /\ UNCHANGED <<good, dirty>>
     \/ /\ g \in Unlucky
        /\ good' = [good EXCEPT ![g] = FALSE]
        /\ Soil(g)
        /\ UNCHANGED stage
  /\ Goto(g, "release")
  /\ UNCHANGED <<source, reading, tx, aborted, result, saved, disk>>

\* Mutant of Release: a lock file that cannot be removed is not reported.
ReleaseQuietly(g) ==
  /\ pc[g] = "release"
  /\ \/ /\ lock' = [lock EXCEPT ![Place(g)] = None]
        /\ UNCHANGED dirty
     \/ /\ g \in Unlucky
        /\ Soil(g)
        /\ UNCHANGED lock
  /\ Settle(g, good[g])
  /\ UNCHANGED <<source, reading, stage, published>>

\* dispose removes the lock file, or fails to; a failure of either step is
\* the failure of the whole transaction, even of a published one.
Release(g) ==
  /\ pc[g] = "release"
  /\ \/ /\ lock' = [lock EXCEPT ![Place(g)] = None]
        /\ Settle(g, good[g])
        /\ UNCHANGED dirty
     \/ /\ g \in Unlucky
        /\ Settle(g, FALSE)
        /\ Soil(g)
        /\ UNCHANGED lock
  /\ UNCHANGED <<source, reading, stage, published>>

\* Mutant of Fail: a busy output is waited for.
FailUnlessBusy(g) ==
  /\ pc[g] \in Active \ {"dispose", "release", "reserve"}
  /\ \/ /\ pc[g] \in Reserving
        /\ Goto(g, "dispose")
        /\ UNCHANGED <<tx, good, aborted, result, saved>>
     \/ /\ pc[g] \notin Reserving
        /\ Settle(g, FALSE)
  /\ Forget(g)
  /\ UNCHANGED <<source, stage, dirty, disk>>

\* A step throws: the deadline has passed, an input is not what it should be,
\* the output exists or is busy, or a file operation fails.
Fail(g) ==
  /\ pc[g] \in Active \ {"dispose", "release"}
  /\ \/ /\ pc[g] \in Reserving
        /\ Goto(g, "dispose")
        /\ UNCHANGED <<tx, good, aborted, result, saved>>
     \/ /\ pc[g] \notin Reserving
        /\ Settle(g, FALSE)
  /\ Forget(g)
  /\ UNCHANGED <<source, stage, dirty, disk>>

\* The lock file is created but its stat fails, before anything is there to
\* dispose of it.
FailReserved(g) ==
  /\ g \in Unlucky
  /\ Alive(g, "reserve")
  /\ lock[Place(g)] = None
  /\ lock' = [lock EXCEPT ![Place(g)] = g]
  /\ Soil(g)
  /\ Settle(g, FALSE)
  /\ Forget(g)
  /\ UNCHANGED <<source, stage, published>>

\* The timer fires; nothing but the next check of the signal sees it.
Deadline(g) ==
  /\ g \in Unlucky
  /\ pc[g] \in Active
  /\ ~aborted[g]
  /\ aborted' = [aborted EXCEPT ![g] = TRUE]
  /\ UNCHANGED <<source, pc, reading, tx, stage, good, outcome, disk>>

Crash(g) ==
  /\ g \in Unlucky
  /\ pc[g] \in Active
  /\ Goto(g, "dead")
  /\ Forget(g)
  /\ UNCHANGED <<source, tx, stage, good, aborted, outcome, disk>>

Step(g) ==
  \/ Collect(g) \/ Vacant(g) \/ Reserve(g) \/ MakeStage(g) \/ Write(g)
  \/ Verify(g) \/ FindAbsent(g) \/ Publish(g) \/ RemoveStage(g)
  \/ Release(g) \/ Fail(g) \/ FailReserved(g)

Next ==
  \/ Environment
  \/ \E g \in Generators :
       Step(g) \/ Start(g) \/ Refuse(g) \/ Deadline(g) \/ Crash(g)

Spec == Init /\ [][Next]_vars

\* A started generator goes on; nobody has to start, to change an input, to
\* hit the deadline or to die.
FairSpec == Spec /\ \A g \in Generators : WF_vars(Step(g))
-----------------------------------------------------------------------------
Optional(S) == S \cup {None}

SourceOK ==
  /\ runFinal \in BOOLEAN
  /\ events \in Nat /\ state \in Nat
  /\ manifest \in Digests /\ digests \in Digests
  /\ updating \in {"no", "locked", "appended", "projected"}
  /\ exporting \in {"no", "events", "files"}

ReadingOK ==
  /\ probe \in [Generators -> 1..Len(Probes)]
  /\ snap \in [Generators -> [run : BOOLEAN, manifest : Digests]]
  /\ base \in [Generators -> Optional(Inputs)]

WorkOK ==
  /\ pc \in [Generators -> PCs]
  /\ tx \in [Generators -> Transactions]
  /\ stage \in [Generators ->
               [Transactions -> {None, "partial", "complete"}]]
  /\ good \in [Generators -> BOOLEAN]
  /\ aborted \in [Generators -> BOOLEAN]

OutcomeOK ==
  /\ result \in [Generators -> {None, "ready", "error"}]
  /\ saved \in [Generators -> BOOLEAN]
  /\ dirty \in [Generators -> SUBSET Transactions]
  \* A receipt is written when the bundle is settled.
  /\ \A g \in Generators : tx[g] = "receipt" => result[g] # None

DiskOK ==
  /\ lock \in [Places -> Optional(Generators)]
  /\ DOMAIN published = Places
  /\ \A o \in Outputs :
       published[o] \in Optional([by : Generators, what : Inputs])
  /\ \A g \in Generators :
       published[g] \in Optional([by : {g}, what : {"ready", "error"}])

TypeOK == SourceOK /\ ReadingOK /\ WorkOK /\ OutcomeOK /\ DiskOK

\* Between the creation of the lock file and its removal the place is the
\* generator's own: no second generator prepares or publishes a report for
\* the same output at the same time.
OneWriterPerOutput ==
  \A g \in Generators : pc[g] \in Reserving => lock[Place(g)] = g

\* Each reading begins with the first file, and the reports are about the
\* bundle first.
BeginsAnew(g) ==
  /\ pc[g] \notin {"collect", "verify"} => probe[g] = 1
  /\ pc[g] \in {"idle", "collect"} => tx[g] = "bundle"

\* The generator is at the bundle and has done the first reading up to the
\* given probe.
HasRead(g, i) ==
  /\ tx[g] = "bundle"
  /\ \/ pc[g] = "collect" /\ probe[g] > i
     \/ pc[g] \in {"vacant", "reserve", "stage", "write", "verify", "absent",
                   "rename"}

\* The inputs only move forward, so what has been read is not ahead of them.
ReadIsBehind(g) ==
  /\ HasRead(g, 1) => (snap[g].run => runFinal)
  /\ HasRead(g, 4) => snap[g].manifest.events <= events
  /\ HasRead(g, 5) => snap[g].manifest.state <= state
  /\ HasRead(g, 7) => snap[g].manifest.events = snap[g].manifest.state

\* The second reading of the given probe has succeeded.
HasVerified(g, i) ==
  /\ tx[g] = "bundle"
  /\ \/ pc[g] = "verify" /\ probe[g] > i
     \/ pc[g] \in {"absent", "rename"}

\* The moment the second reading starts lies between the two readings, and a
\* file that has been read twice was then what both readings saw.
BaseIsBetween(g) ==
  /\ tx[g] = "bundle" =>
       (base[g] # None <=> pc[g] \in {"verify", "absent", "rename"})
  /\ tx[g] = "bundle" /\ base[g] # None =>
       /\ snap[g].run => base[g].run
       /\ snap[g].manifest.events <= base[g].events
       /\ snap[g].manifest.state <= base[g].state
       /\ base[g].run => runFinal
       /\ base[g].events <= events
       /\ base[g].state <= state
  /\ HasVerified(g, 1) => base[g].run = snap[g].run
  /\ HasVerified(g, 4) => base[g].events = snap[g].manifest.events
  /\ HasVerified(g, 5) => base[g].state = snap[g].manifest.state

\* What a generator has read, in relation to the inputs.
ReadingInv(g) == BeginsAnew(g) /\ ReadIsBehind(g) /\ BaseIsBetween(g)

\* The report in the generator's output directory is its own.
Mine(g) ==
  published[Output[g]] # None /\ published[Output[g]].by = g

\* The receipt is in place.
Receipted(g) == published[g] = [by |-> g, what |-> result[g]]

Disposing == {"dispose", "release"}

\* What a generator says, or is about to say, of the transaction it is in and
\* of the one before is what has become of them.
OutcomeInv(g) ==
  /\ pc[g] \notin Disposing \cup {"dead"} => ~good[g]
  /\ tx[g] = "bundle" =>
       /\ ~saved[g] /\ result[g] # "ready" /\ "receipt" \notin dirty[g]
       /\ result[g] # None => pc[g] = "done"
       /\ pc[g] \notin Disposing \cup {"dead"} =>
            ~Mine(g) /\ "bundle" \notin dirty[g]
       /\ pc[g] \in Disposing =>
            /\ good[g] => Mine(g) /\ "bundle" \notin dirty[g]
            /\ Mine(g) => good[g] \/ "bundle" \in dirty[g]
  /\ tx[g] = "receipt" =>
       /\ result[g] = "ready" => Mine(g) /\ "bundle" \notin dirty[g]
       /\ result[g] = "error" /\ Mine(g) => "bundle" \in dirty[g]
       /\ pc[g] \notin Disposing \cup {"dead", "done"} =>
            "receipt" \notin dirty[g]
       /\ (pc[g] \in Disposing /\ good[g]) \/ saved[g] =>
            Receipted(g) /\ "receipt" \notin dirty[g]
       /\ saved[g] => pc[g] = "done"

\* What a generator leaves on the disk it still works with, or its clean-up
\* has failed.
CleanInv(g) ==
  /\ tx[g] = "bundle" =>
       /\ stage[g]["receipt"] = None
       /\ pc[g] \notin (Reserving \ {"stage"}) \cup {"dead"} =>
            stage[g]["bundle"] = None
       /\ pc[g] = "release" =>
            stage[g]["bundle"] = None \/ "bundle" \in dirty[g]
  /\ tx[g] = "receipt" =>
       /\ stage[g]["bundle"] = None \/ "bundle" \in dirty[g]
       /\ pc[g] \notin (Reserving \ {"stage"}) \cup {"dead", "done"} =>
            stage[g]["receipt"] = None
       /\ pc[g] \in {"release", "done"} =>
            stage[g]["receipt"] = None \/ "receipt" \in dirty[g]
  /\ lock[Output[g]] = g =>
       \/ tx[g] = "bundle" /\ pc[g] \in Reserving \cup {"dead"}
       \/ "bundle" \in dirty[g]
  /\ lock[g] = g =>
       \/ tx[g] = "receipt" /\ pc[g] \in Reserving \cup {"dead"}
       \/ "receipt" \in dirty[g]

\* The session is only ever one event behind its log, and not between updates.
SessionFollows ==
  IF updating = "appended" THEN events = state + 1 ELSE events = state

\* The conjunction the proofs rest on.
IInv ==
  /\ TypeOK
  /\ SessionFollows
  /\ OneWriterPerOutput
  /\ \A g \in Generators : ReadingInv(g) /\ OutcomeInv(g) /\ CleanInv(g)

\* A report shows its inputs as they all were at one moment, with the session
\* between two updates, although they are read file by file while runs end
\* and sessions go on; and what is published is never replaced.
Ledger ==
  INSTANCE ReportLedger WITH
    inputs <- Current, taken <- base,
    shelf <- [o \in Outputs |-> published[o]]

LedgerSpec == Ledger!Spec

\* What a generator says of its report at the end is so: ready means that its
\* report is in place and nothing of the work is left; error means that it
\* is not in place, or that the clean-up after it failed; a receiptPath leads
\* to the receipt of this outcome.
ReceiptsAreTrue ==
  \A g \in Generators :
    /\ result[g] = "ready" =>
         /\ published[Output[g]] # None
         /\ published[Output[g]].by = g
         /\ "bundle" \notin dirty[g]
    /\ /\ result[g] = "error" /\ "bundle" \notin dirty[g]
       /\ published[Output[g]] # None
       => published[Output[g]].by # g
    /\ saved[g] =>
         /\ published[g] = [by |-> g, what |-> result[g]]
         /\ "receipt" \notin dirty[g]

\* A generator that has ended leaves neither a working directory nor a lock
\* file, whichever step failed, unless the clean-up itself did.
NothingLeftBehind ==
  \A g \in Generators :
    pc[g] = "done" =>
      /\ \A t \in Transactions \ dirty[g] : stage[g][t] = None
      /\ "bundle" \notin dirty[g] => lock[Output[g]] # g
      /\ "receipt" \notin dirty[g] => lock[g] # g

\* Nothing is published after the deadline: no write, copy or rename goes on
\* once the generator has been told to stop.
NothingAfterDeadline ==
  [][\A p \in Places :
       published'[p] # published[p] => ~aborted[published'[p].by]]_vars

\* Every generator that has started comes to an end; it waits for nobody.
EveryReportEnds ==
  \A g \in Generators :
    pc[g] \in Active ~> pc[g] \in {"done", "dead"}

=============================================================================
