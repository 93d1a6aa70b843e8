--------------------------- MODULE MCSessionStore ---------------------------
(* Model-checking instances of SessionStore. *)
EXTENDS SessionStore, SequencesExt

Input(type, status, payload) ==
  [type |-> type, status |-> status, payload |-> payload]

Plain(type, status) ==
  [op |-> "append", input |-> Input(type, status, NoPayload)]

Reader(op) == [op |-> op, input |-> CreateRequest.input]

CONSTANTS c1, c2, run1, find1, sha1, sha2, fp1

Checkpoint(n, fp) ==
  [op |-> "checkpoint",
   input |-> Input("checkpoint", None,
               [NoPayload EXCEPT !.actionCount = n,
                                 !.scalars["lastFingerprint"] = fp])]

Capability(digest) ==
  [op |-> "capability",
   input |-> Input("capability-snapshot", None,
               [NoPayload EXCEPT !.scalars["capabilityDigest"] = digest])]

Finding(f) ==
  [op |-> "finding",
   input |-> Input("finding", None, [NoPayload EXCEPT !.findingId = f])]

Manifest(r, sha) ==
  [op |-> "manifest",
   input |-> Input("checkpoint", None,
               [NoPayload EXCEPT !.manifestRef = [runId |-> r, sha256 |-> sha]])]

\* The checkpoint event of the native evidence store: it announces no file.
NativeEvidence == Plain("checkpoint", None)

MCFields == {"lastFingerprint", "capabilityDigest"}
MCCounts == {1}

\* Readers with and without the lock, the lifecycle of one session, and the
\* calls that write a file of their own next to the event; run1 is registered
\* with two different digests.
StoreRequests ==
  {Reader("load"), Reader("peek"),
   Plain("session-started", "running"), Plain("session-completed", "completed"),
   Checkpoint(1, fp1), Capability(fp1), Finding(find1), NativeEvidence,
   Manifest(run1, sha1), Manifest(run1, sha2)}

-----------------------------------------------------------------------------
\* Every log of at most three events, legal or not.
Logs ==
  LET Inputs3 == {Finding(find1).input, Checkpoint(1, fp1).input, Checkpoint(0, None).input,
                  Manifest(run1, sha1).input, Manifest(run1, sha2).input,
                  Plain("session-started", "running").input, Plain("finding", None).input}
  IN  {[i \in DOMAIN inputs |-> NewEvent([eventCount |-> i - 1, eventHeadDigest |-> None], inputs[i], c1)] :
         inputs \in BoundedSeq(Inputs3, 3)}

\* The loop of projectSession as a fold over the log, the reference for the
\* closed form the specification uses.
ProjectionLoop(l, n) ==
  FoldLeft(Apply, [CreatedSession EXCEPT !.eventHeadDigest = None], SubSeq(l, 1, n))

\* The closed form computes what the loop of projectSession computes, for every
\* prefix of every such log.
ASSUME ProjectionIsLoop ==
  \A l \in Logs : \A n \in 0..Len(l) : Project(l, n) = ProjectionLoop(l, n)

=============================================================================
