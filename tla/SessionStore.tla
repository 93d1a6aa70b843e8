----------------------------- MODULE SessionStore -----------------------------
(***************************************************************************)
(* The session directory of an exploration, shared by the processes of     *)
(* several CLI invocations: src/exploration/session.ts.                    *)
(*                                                                         *)
(* Each operation that changes the session takes the directory lock, reads *)
(* session.json and events.jsonl, checks one against the other, may write  *)
(* a file of its own (checkpoint.json, the capability snapshot, a line of  *)
(* findings.jsonl, a copy of a run manifest), appends one event to         *)
(* events.jsonl and replaces session.json.  Those file operations are the  *)
(* steps of this module: processes interleave between them and crash       *)
(* between them.  A reader without the lock reads the two files one after  *)
(* the other.                                                              *)
(*                                                                         *)
(* The lock is a directory.  It does not know its owner and it does not    *)
(* expire: a process that dies inside leaves it behind, and only an        *)
(* operator can remove it.                                                 *)
(***************************************************************************)
EXTENDS SessionEvents, FiniteSets

CONSTANTS
  Creator,      \* the process inside createExplorationSession
  Requests,     \* the calls the processes make
  MaxAttempts,  \* failed tries at the lock before giving up (50 in the code)
  MaxEvents,    \* bound on the log
  MaxCrashes    \* bound on the crashes

\* load: loadExplorationSession; peek: readSession without the lock; the
\* others append an event.
Ops == {"load", "peek", "append", "checkpoint", "capability", "finding",
        "manifest"}

Request == [op : Ops, input : EventInput]

\* The files replaced before the event that announces them.
FileOps == {"checkpoint", "capability"}

FileEvent(f) == IF f = "checkpoint" THEN "checkpoint" ELSE "capability-snapshot"

\* The events that announce file f: checkpointPath and capabilityDigest stand
\* in no other event, whatever its type.
Announcements(f) == {r.input : r \in {q \in Requests : q.op = f}}

ASSUME StoreAssumption ==
  /\ Creator \in Writers
  /\ None \notin Writers \cup Payload
  /\ Requests \subseteq Request
  /\ \A r \in Requests :
       /\ r.op = "finding" => r.input.payload.findingId # None
       /\ r.op # "finding" => r.input.payload.findingId = None
       /\ r.op = "manifest" => r.input.payload.manifestRef # None
       /\ r.op # "manifest" => r.input.payload.manifestRef = None
       /\ r.op \in FileOps =>
            r.input.type = FileEvent(r.op) /\ r.input.status = None
       /\ \A f \in FileOps : r.input \in Announcements(f) => r.op = f
  /\ MaxAttempts \in Nat \ {0}
  /\ MaxEvents \in Nat
  /\ MaxCrashes \in Nat

VARIABLES
  lock,      \* the process whose mkdir of .session.lock succeeded, or None
  session,   \* session.json
  log,       \* events.jsonl
  files,     \* the payload last written to checkpoint.json and
             \* capability-snapshot.json
  findings,  \* the identifiers in findings.jsonl, in order
  copies,    \* run-manifests/: the digest of the copy held for each run
  pc,        \* where each process is
  req,       \* the call each process is in
  seen,      \* the session each process has read or computed
  attempts,  \* failed tries at the lock
  crashes    \* crashes so far

disk   == <<session, log, files, findings, copies>>
local  == <<req, seen, attempts>>
vars   == <<lock, disk, pc, local, crashes>>

\* Steps taken with the lock held.
Critical == {"read", "decode", "aside", "append", "project", "repair",
             "release"}

PCs == Critical \cup {"idle", "lock", "peek", "peekDecode", "dead"}

NoPayload ==
  [actionCount |-> None, scalars |-> [f \in ScalarFields |-> None],
   runId |-> None, findingId |-> None, manifestRef |-> None]

CreateRequest ==
  [op |-> "append",
   input |-> [type |-> "session-created", status |-> None,
              payload |-> NoPayload]]

\* createExplorationSession has written the files and is about to append the
\* session-created event.
Init ==
  /\ lock = None
  /\ session = CreatedSession
  /\ log = <<>>
  /\ files = [f \in FileOps |-> None]
  /\ findings = <<>>
  /\ copies = [r \in RunIds |-> None]
  /\ pc = [p \in Writers |-> IF p = Creator THEN "lock" ELSE "idle"]
  /\ req = [p \in Writers |-> CreateRequest]
  /\ seen = [p \in Writers |-> CreatedSession]
  /\ attempts = [p \in Writers |-> 0]
  /\ crashes = 0

Goto(p, to) == pc' = [pc EXCEPT ![p] = to]

Move(p, from, to) == pc[p] = from /\ Goto(p, to)

\* The memory of a call is gone when it ends.
Forget(p) ==
  /\ req' = [req EXCEPT ![p] = CreateRequest]
  /\ seen' = [seen EXCEPT ![p] = CreatedSession]
  /\ attempts' = [attempts EXCEPT ![p] = 0]

-----------------------------------------------------------------------------
\* A process calls one of the exported functions.  A call that appends comes
\* after the creation: its caller has found the capability snapshot the
\* creator writes later.
Call(p) ==
  /\ pc[p] = "idle"
  /\ \E r \in Requests :
       /\ r.op \notin {"load", "peek"} =>
            log # <<>> /\ Len(log) < MaxEvents
       /\ Goto(p, IF r.op = "peek" THEN "peek" ELSE "lock")
       /\ req' = [req EXCEPT ![p] = r]
  /\ UNCHANGED <<lock, disk, seen, attempts, crashes>>

\* mkdir(paths.lock) succeeds.
Acquire(p) ==
  /\ lock = None
  /\ attempts[p] < MaxAttempts
  /\ Move(p, "lock", "read")
  /\ lock' = p
  /\ UNCHANGED <<disk, local, crashes>>

\* Mutant of Retry: the attempts are not counted.
RetryForever(p) ==
  /\ pc[p] = "lock"
  /\ lock # None
  /\ UNCHANGED vars

\* mkdir fails with EEXIST and the process sleeps before the next try.
Retry(p) ==
  /\ pc[p] = "lock"
  /\ lock # None
  /\ attempts[p] < MaxAttempts
  /\ attempts' = [attempts EXCEPT ![p] = @ + 1]
  /\ UNCHANGED <<lock, disk, pc, req, seen, crashes>>

\* The sleep after the last try is over: the call throws without looking at
\* the lock again.
GiveUp(p) ==
  /\ attempts[p] = MaxAttempts
  /\ Move(p, "lock", "idle")
  /\ Forget(p)
  /\ UNCHANGED <<lock, disk, crashes>>

\* readSession, first half: session.json is read.
ReadProjection(p) ==
  /\ \/ Move(p, "read", "decode")
     \/ Move(p, "peek", "peekDecode")
  /\ seen' = [seen EXCEPT ![p] = session]
  /\ UNCHANGED <<lock, disk, req, attempts, crashes>>

\* readSession, second half: events.jsonl is read and decoded next to it.
DecodeLocked(p) ==
  /\ pc[p] = "decode"
  /\ IF DecodeAccepts(seen[p], log)
       THEN /\ seen' = [seen EXCEPT ![p] = Decoded(seen[p], log)]
            /\ Goto(p, CASE req[p].op = "load" ->
                              IF Decoded(seen[p], log) = seen[p]
                                THEN "release" ELSE "repair"
                         [] req[p].op = "append" -> "append"
                         [] OTHER                -> "aside")
       ELSE Goto(p, "release") /\ UNCHANGED seen
  /\ UNCHANGED <<lock, disk, req, attempts, crashes>>

\* Without the lock the decoded session, or the exception, ends the call.
DecodePeek(p) ==
  /\ Move(p, "peekDecode", "idle")
  /\ Forget(p)
  /\ UNCHANGED <<lock, disk, crashes>>

\* loadExplorationSession writes the projection it computed from the log.
Repair(p) ==
  /\ Move(p, "repair", "release")
  /\ session' = seen[p]
  /\ UNCHANGED <<lock, log, files, findings, copies, local, crashes>>

\* Mutant of WriteFile: a checkpoint that is there is not replaced.
WriteFileOnce(p) ==
  /\ req[p].op \in FileOps
  /\ Move(p, "aside", "append")
  /\ files' = [files EXCEPT ![req[p].op] =
                 IF req[p].op = "capability" THEN req[p].input.payload ELSE @]
  /\ UNCHANGED <<lock, session, log, findings, copies, local, crashes>>

\* writeCheckpoint and writeCapabilitySnapshot replace their file before the
\* event is appended.
WriteFile(p) ==
  /\ req[p].op \in FileOps
  /\ Move(p, "aside", "append")
  /\ files' = [files EXCEPT ![req[p].op] = req[p].input.payload]
  /\ UNCHANGED <<lock, session, log, findings, copies, local, crashes>>

\* writeFinding appends its line before the event is appended.
WriteFindingLine(p) ==
  /\ req[p].op = "finding"
  /\ Move(p, "aside", "append")
  /\ findings' = Append(findings, req[p].input.payload.findingId)
  /\ UNCHANGED <<lock, session, log, files, copies, local, crashes>>

\* registerRunManifest copies the manifest unless a copy is there; a copy
\* with another digest makes it throw.
CopyManifest(p) ==
  LET ref == req[p].input.payload.manifestRef
  IN  /\ req[p].op = "manifest"
      /\ pc[p] = "aside"
      /\ IF copies[ref.runId] \in {None, ref.sha256}
           THEN /\ copies' = [copies EXCEPT ![ref.runId] = ref.sha256]
                /\ Goto(p, "append")
           ELSE Goto(p, "release") /\ UNCHANGED copies
      /\ UNCHANGED <<lock, session, log, files, findings, req, seen, attempts,
                     crashes>>

\* Mutant of MayAppend: the lifecycle is not checked.
MayAppendAnything(s, input) == TypeMatchesStatus(input)

\* The checks appendSessionEventUnlocked makes before it appends.
MayAppend(s, input) ==
  /\ TypeMatchesStatus(input)
  /\ input.status # None => TransitionAllowed(s.status, input.status)

AppendEvent(p) ==
  LET e == NewEvent(seen[p], req[p].input, p)
  IN  /\ MayAppend(seen[p], req[p].input)
      /\ pc[p] = "append"
      /\ log' = Append(log, e)
      /\ IF ManifestConflict(seen[p].runManifestRefs, e.payload.manifestRef)
           THEN Goto(p, "release") /\ UNCHANGED seen
           ELSE /\ Goto(p, "project")
                /\ seen' = [seen EXCEPT ![p] = Apply(seen[p], e)]
      /\ UNCHANGED <<lock, session, files, findings, copies, req, attempts,
                     crashes>>

\* Mutant of RefuseEvent: the exception leaves the lock behind.
RefuseKeepingLock(p) ==
  /\ ~MayAppend(seen[p], req[p].input)
  /\ Move(p, "append", "idle")
  /\ UNCHANGED <<lock, disk, req, seen, attempts, crashes>>

\* It throws without having written anything.
RefuseEvent(p) ==
  /\ ~MayAppend(seen[p], req[p].input)
  /\ Move(p, "append", "release")
  /\ UNCHANGED <<lock, disk, req, seen, attempts, crashes>>

\* session.json is replaced by rename.
WriteProjection(p) ==
  /\ Move(p, "project", "release")
  /\ session' = seen[p]
  /\ UNCHANGED <<lock, log, files, findings, copies, local, crashes>>

\* The finally block removes the lock directory, whoever made it.
Release(p) ==
  /\ Move(p, "release", "idle")
  /\ lock' = None
  /\ Forget(p)
  /\ UNCHANGED <<disk, crashes>>

-----------------------------------------------------------------------------
\* A process dies in the middle of a call; files and lock stay as they are.
Crash(p) ==
  /\ pc[p] \notin {"idle", "dead"}
  /\ crashes < MaxCrashes
  /\ Goto(p, "dead")
  /\ Forget(p)
  /\ crashes' = crashes + 1
  /\ UNCHANGED <<lock, disk>>

\* The operator starts a new process in its place.
Restart(p) ==
  /\ Move(p, "dead", "idle")
  /\ lock # p
  /\ UNCHANGED <<lock, disk, local, crashes>>

\* ... after removing the lock directory the dead one left.
ClearStaleLock(p) ==
  /\ pc[p] = "dead"
  /\ lock = p
  /\ lock' = None
  /\ UNCHANGED <<disk, pc, local, crashes>>

\* The steps of a call in progress.
Work(p) ==
  \/ Acquire(p) \/ Retry(p) \/ GiveUp(p)
  \/ ReadProjection(p) \/ DecodeLocked(p) \/ DecodePeek(p)
  \/ Repair(p)
  \/ WriteFile(p) \/ WriteFindingLine(p) \/ CopyManifest(p)
  \/ AppendEvent(p) \/ RefuseEvent(p) \/ WriteProjection(p)
  \/ Release(p)

Next ==
  \E p \in Writers :
    \/ Call(p) \/ Work(p) \/ Crash(p) \/ Restart(p) \/ ClearStaleLock(p)

Spec == Init /\ [][Next]_vars

\* A live process goes on with the call it is in; nothing makes a process
\* call, crash, or be restarted, and nothing makes the operator act.
FairSpec == Spec /\ \A p \in Writers : WF_vars(Work(p))

-----------------------------------------------------------------------------
(* Properties *)

TypeOK ==
  /\ lock \in Optional(Writers)
  /\ session \in Session
  /\ log \in Seq(Event)
  /\ files \in [FileOps -> Optional(Payload)]
  /\ findings \in Seq(FindingIds)
  /\ copies \in [RunIds -> Optional(Digests)]
  /\ pc \in [Writers -> PCs]
  /\ req \in [Writers -> Requests \cup {CreateRequest}]
  /\ seen \in [Writers -> Session]
  /\ attempts \in [Writers -> Nat]
  /\ crashes \in Nat

\* The session a process would get from a complete read right now.
Current == IF log = <<>> THEN CreatedSession ELSE Project(log, Len(log))

\* Only the holder of the lock is between the lock and its release, and
\* every way out of a call, the throwing ones included, gives the lock back:
\* withSessionLock.
LockDiscipline ==
  \A p \in Writers :
    /\ pc[p] \in Critical => lock = p
    /\ lock = p => pc[p] \in Critical \cup {"dead"}

\* session.json is always what projectSession computes from the events it
\* counts, whichever process wrote it last and wherever another one died.
ProjectionIsReplay ==
  /\ session.eventCount <= Len(log)
  /\ session = IF session.eventCount = 0 THEN CreatedSession
               ELSE Project(log, session.eventCount)

\* decodeSessionProjection never throws on what a process has read, with or
\* without the lock, although a reader without it reads two files at two
\* times.  The exception is a session.json that counts no event yet.
NothingRejected ==
  \A p \in Writers :
    pc[p] \in {"decode", "peekDecode"} =>
      DecodeAccepts(seen[p], log) \/ seen[p].eventCount = 0

\* A writer computes its event from the newest session: nothing has been
\* appended since it read, so no update is lost.
WriterIsCurrent ==
  \A p \in Writers :
    pc[p] \in {"aside", "append", "project", "repair"} => seen[p] = Current

\* Every finding the log names has its line in findings.jsonl.
FindingsFiled ==
  \A i \in DOMAIN log :
    log[i].payload.findingId # None =>
      \E j \in DOMAIN findings : findings[j] = log[i].payload.findingId

\* Every run manifest the log refers to is in the session directory with the
\* digest the log gives, so no two references to a run disagree and no event
\* in the log makes every later read throw.
ManifestsHeld ==
  \A i \in DOMAIN log :
    LET ref == log[i].payload.manifestRef
    IN  ref # None => copies[ref.runId] = ref.sha256

\* What the writer of an event was asked to append.
InputOf(e) == [type |-> e.type, status |-> e.status, payload |-> e.payload]

\* The payload of the last event that announced file f.
Announced(f) ==
  LastWritten(
    [i \in DOMAIN log |->
       IF InputOf(log[i]) \in Announcements(f) THEN log[i].payload ELSE None],
    Len(log), None)

\* The files beside the log say what the log says: every finding it names has
\* its line, and checkpoint.json and the capability snapshot are what it last
\* announced, unless a process is between the file and the event or died there.
\* A resume compares the two and refuses to go on when they differ.
FilesAnnounced ==
  /\ FindingsFiled
  /\ crashes = 0 =>
       \A f \in FileOps :
         files[f] # Announced(f) =>
           \E p \in Writers : pc[p] = "append" /\ req[p].op = f

\* What a process has read is a prefix of what is there now.
ReadsArePrefixes ==
  \A p \in Writers :
    pc[p] \in {"decode", "peekDecode"} =>
      /\ seen[p].eventCount <= Len(log)
      /\ seen[p].eventCount > 0 => seen[p] = Project(log, seen[p].eventCount)

\* With the lock held session.json is still what was read.
LockedReadIsFresh ==
  \A p \in Writers : pc[p] = "decode" => seen[p] = session

\* The copy of a manifest is there before the event that refers to it.
CopyPrecedesEvent ==
  \A p \in Writers :
    LET ref == req[p].input.payload.manifestRef
    IN  pc[p] = "append" /\ req[p].op = "manifest" =>
          copies[ref.runId] = ref.sha256

\* A process about to announce a file or a finding has written it.
WrittenBeforeAnnounced ==
  \A p \in Writers :
    pc[p] = "append" =>
      /\ req[p].op \in FileOps => files[req[p].op] = req[p].input.payload
      /\ req[p].op = "finding" =>
           \E j \in DOMAIN findings :
             findings[j] = req[p].input.payload.findingId

\* The conjunction the proof about the files beside the log rests on.
FilesInv == WrittenBeforeAnnounced /\ FilesAnnounced

\* The conjunction the safety proof rests on.
IInv ==
  /\ TypeOK
  /\ LockDiscipline
  /\ ChainIntact(log)
  /\ Replayable(log, Len(log))
  /\ ProjectionIsReplay
  /\ ReadsArePrefixes
  /\ LockedReadIsFresh
  /\ WriterIsCurrent
  /\ CopyPrecedesEvent
  /\ ManifestsHeld

Inputs == {r.input : r \in Requests} \cup {CreateRequest.input}

\* The log without the place of each event in the chain.
LedgerOf(l) == [i \in DOMAIN l |-> InputOf(l[i])]

\* The store implements the ledger: what is published is what session.json
\* counts.
Ledger ==
  INSTANCE SessionLedger WITH
    ledger <- LedgerOf(log), published <- session.eventCount

LedgerSpec == Ledger!Spec

\* Every call comes to an end: it returns, throws, gives up on the lock or
\* dies with its process.
EveryCallEnds ==
  \A p \in Writers :
    pc[p] \notin {"idle", "dead"} ~> pc[p] \in {"idle", "dead"}

=============================================================================
