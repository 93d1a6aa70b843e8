---------------------------- MODULE SessionEvents ----------------------------
(***************************************************************************)
(* The event log of an exploration session and the projection computed     *)
(* from it: src/exploration/session.ts, with the types of contracts.ts.    *)
(*                                                                         *)
(* events.jsonl is a hash chain of events; session.json is a projection of *)
(* a prefix of it.  This module has no state: it says which events exist,  *)
(* which lifecycle transitions they may make, what a log projects to and   *)
(* when a stored projection is accepted next to a log.                     *)
(*                                                                         *)
(* Data is abstracted.  A digest is the pair <<sequence, writer>>: the     *)
(* random eventId inside every event makes the digests of two writers      *)
(* differ, and that is all the chain is used for.  The payload fields kept *)
(* by the rule "the last event that carries the field wins" are one        *)
(* function over ScalarFields (lastFingerprint, lastRunDir,                *)
(* capabilityDigest, targetManifestDigest, technicalOutcome,               *)
(* terminationReason, activeDurationMs, parentSessionId and blockers all   *)
(* follow it); actionCount follows it too but starts at 0, so it stands by *)
(* itself.  Identity fields that no event changes are left out.            *)
(***************************************************************************)
EXTENDS Integers, Sequences, SessionLifecycle

CONSTANTS
  Writers,        \* processes that append events
  ScalarFields,   \* payload fields where the last writer wins
  Values,         \* what such a field may hold
  RunIds,         \* identifiers of runs
  FindingIds,     \* identifiers of findings
  Digests,        \* digests of run manifests
  Counts,         \* action counts an event may carry
  None            \* an absent optional field

Optional(S) == S \cup {None}

\* The status an event of a given type must carry, None if any will do.
ExpectedEventStatus(type) ==
  CASE type \in {"session-started", "session-resumed"} -> "running"
    [] type = "session-paused"                         -> "paused"
    [] type = "session-completed"                      -> "completed"
    [] type \in {"session-aborted", "kill-switch"}     -> "aborted"
    [] OTHER                                           -> None

ManifestRef == [runId : RunIds, sha256 : Digests]

ASSUME NoneAssumption ==
  None \notin Statuses \cup ManifestRef \cup Values \cup RunIds
              \cup FindingIds \cup Digests \cup Counts

ASSUME CountsAssumption == Counts \subseteq Nat

Payload ==
  [actionCount : Optional(Counts),
   scalars     : [ScalarFields -> Optional(Values)],
   runId       : Optional(RunIds),
   findingId   : Optional(FindingIds),
   manifestRef : Optional(ManifestRef)]

\* What a caller passes to appendSessionEvent.
EventInput ==
  [type : EventTypes, status : Optional(Statuses), payload : Payload]

\* The two halves of a lifecycle event agree: line 142 for a stored event,
\* line 250 for one about to be stored.
TypeMatchesStatus(e) ==
  ExpectedEventStatus(e.type) # None => e.status = ExpectedEventStatus(e.type)

ZeroDigest == <<0, None>>

Digest == (Nat \X Writers) \cup {ZeroDigest}

Event ==
  [type : EventTypes, status : Optional(Statuses), payload : Payload,
   sequence : Nat, previousDigest : Digest, eventDigest : Digest]

Session ==
  [status : Statuses, eventCount : Nat, eventHeadDigest : Optional(Digest),
   actionCount : Nat, scalars : [ScalarFields -> Optional(Values)],
   runIds : SUBSET RunIds, findingIds : SUBSET FindingIds,
   runManifestRefs : SUBSET ManifestRef]

-----------------------------------------------------------------------------
\* session.json as createExplorationSession writes it, before any event.
CreatedSession ==
  [status |-> "draft", eventCount |-> 0, eventHeadDigest |-> ZeroDigest,
   actionCount |-> 0, scalars |-> [f \in ScalarFields |-> None],
   runIds |-> {}, findingIds |-> {}, runManifestRefs |-> {}]

\* The last value that is present among the first n, or init.
LastWritten(vals, n, init) ==
  LET written == {i \in 1..n : vals[i] # None}
  IN  IF written = {} THEN init
      ELSE vals[CHOOSE i \in written : \A j \in written : j <= i]

\* The values that are present among the first n.
Present(vals, n) == {vals[i] : i \in {j \in 1..n : vals[j] # None}}

Status(log, n) ==
  LastWritten([i \in DOMAIN log |-> log[i].status], n, "draft")

\* projectSession over the first n events.  An empty prefix has no head
\* digest, unlike the session.json that creation writes.
Project(log, n) ==
  [status          |-> Status(log, n),
   eventCount      |-> n,
   eventHeadDigest |-> IF n = 0 THEN None ELSE log[n].eventDigest,
   actionCount     |->
     LastWritten([i \in DOMAIN log |-> log[i].payload.actionCount], n, 0),
   scalars         |->
     [f \in ScalarFields |->
        LastWritten([i \in DOMAIN log |-> log[i].payload.scalars[f]], n, None)],
   runIds          |-> Present([i \in DOMAIN log |-> log[i].payload.runId], n),
   findingIds      |->
     Present([i \in DOMAIN log |-> log[i].payload.findingId], n),
   runManifestRefs |->
     Present([i \in DOMAIN log |-> log[i].payload.manifestRef], n)]

\* mergeRunManifestRef throws when the same run is registered with another
\* digest.
ManifestConflict(refs, ref) ==
  /\ ref # None
  /\ \E r \in refs : r.runId = ref.runId /\ r.sha256 # ref.sha256

\* projectSession gets through the first n events without throwing.
Replayable(log, n) ==
  \A i \in 1..n :
    /\ log[i].status # None =>
         TransitionAllowed(Status(log, i - 1), log[i].status)
    /\ ~ManifestConflict(Project(log, i - 1).runManifestRefs,
                         log[i].payload.manifestRef)

\* One event on top of a projection, as the loop body of projectSession and
\* the object appendSessionEventUnlocked writes both compute it.
Apply(s, e) ==
  [status          |-> IF e.status = None THEN s.status ELSE e.status,
   eventCount      |-> e.sequence,
   eventHeadDigest |-> e.eventDigest,
   actionCount     |-> IF e.payload.actionCount = None THEN s.actionCount
                       ELSE e.payload.actionCount,
   scalars         |->
     [f \in ScalarFields |-> IF e.payload.scalars[f] = None THEN s.scalars[f]
                             ELSE e.payload.scalars[f]],
   runIds          |-> s.runIds \cup ({e.payload.runId} \ {None}),
   findingIds      |-> s.findingIds \cup ({e.payload.findingId} \ {None}),
   runManifestRefs |->
     s.runManifestRefs \cup ({e.payload.manifestRef} \ {None})]

\* The event appendSessionEventUnlocked builds on top of session s.
NewEvent(s, input, writer) ==
  [type |-> input.type, status |-> input.status, payload |-> input.payload,
   sequence |-> s.eventCount + 1, previousDigest |-> s.eventHeadDigest,
   eventDigest |-> <<s.eventCount + 1, writer>>]

-----------------------------------------------------------------------------
\* The per-event checks of decodeSessionProjection.
ChainIntact(log) ==
  \A i \in DOMAIN log :
    /\ log[i].sequence = i
    /\ log[i].previousDigest =
         IF i = 1 THEN ZeroDigest ELSE log[i - 1].eventDigest
    /\ TypeMatchesStatus(log[i])

\* decodeSessionProjection accepts the stored value next to this log.
DecodeAccepts(value, log) ==
  LET n == Len(log)
  IN  /\ ChainIntact(log)
      /\ \/ /\ n = 0
            /\ value.eventCount = 0
            /\ value.eventHeadDigest = ZeroDigest
         \/ /\ n >= value.eventCount
            /\ n = value.eventCount /\ n > 0 =>
                 value.eventHeadDigest = log[n].eventDigest
            /\ value = Project(log, value.eventCount)
            /\ Replayable(log, n)

\* Mutant of Decoded: the stored session is returned although the log is ahead.
DecodedStale(value, log) == value

\* ... and the session it then returns: the stored one when the log is not
\* ahead of it, the projection of the whole log when it is.
Decoded(value, log) ==
  IF Len(log) = value.eventCount THEN value ELSE Project(log, Len(log))
=============================================================================
