------------------------------ MODULE ModelClient ------------------------------
(***************************************************************************)
(* The client of the local model server: LocalLlmClient in src/core/llm.ts *)
(* with its check of the model file, its requests and their repetition,    *)
(* the reading of an answer piece by piece and the judgement of it.        *)
(*                                                                         *)
(* The client is used by one run at a time: it is given a job - the        *)
(* preflight, or a decision - and is idle again once the run has taken the *)
(* result.  The server may do anything at all; somebody may write another  *)
(* model over the file, which changes its size or its time stamp.  Of the  *)
(* two time limits only the one of the connection is here: its signal      *)
(* stays with the body, and is over long before the other.                 *)
(***************************************************************************)
EXTENDS Naturals

CONSTANTS
  MaxRetries,   \* llm.maxRetries
  MaxPieces,    \* pieces of an answer that fit its size limit
  MaxRewrites,  \* bound on the times the model file is replaced
  NotHashed     \* the cache holds no digest

ASSUME ClientAssumption ==
  /\ MaxRetries \in 0..2
  /\ MaxPieces \in Nat \ {0}
  /\ MaxRewrites \in Nat
  /\ NotHashed \notin [version : Nat, expected : BOOLEAN]

VARIABLES
  file,    \* the model file: how often it was replaced, and is it the expected one
  cache,   \* modelSha256Cache: the file that was hashed last and its digest
  client   \* the job of the client and how far it is

model == <<file, cache, client>>

Idle == [job |-> "none", stage |-> "idle", attempt |-> 0, pieces |-> 0,
         hashing |-> 0, reads |-> 0, result |-> "none"]

ClientInit ==
  /\ file = [version |-> 0, expected |-> TRUE]
  /\ cache = NotHashed
  /\ client = Idle

\* What a run sees of a job that is over: "ready" after a preflight, a decision,
\* or the error that is thrown.
Failures == {"mismatch", "contract", "provider"}
Decisions == {"action", "stop", "hold"}

Over == client.stage = "over"

To(stage) == client' = [client EXCEPT !.stage = stage]
Result(r) == client' = [client EXCEPT !.stage = "over", !.result = r]

-----------------------------------------------------------------------------
(* The model file.                                                           *)

Rewrite ==
  /\ file.version < MaxRewrites
  /\ \E e \in BOOLEAN : file' = [version |-> file.version + 1, expected |-> e]
  /\ UNCHANGED <<cache, client>>

\* The digest is compared with the configured one.
Compare(expected) == IF expected THEN To("listing") ELSE Result("mismatch")

\* fileSha256, up to the stream: the first stat, and the digest it may find.
OpenModel ==
  /\ client.stage = "hash"
  /\ IF cache # NotHashed /\ cache.version = file.version
     THEN Compare(cache.expected)
     ELSE client' = [client EXCEPT !.stage = "hashing", !.hashing = file.version]
  /\ UNCHANGED <<file, cache>>

\* Mutant of CloseModel: the file is not looked at again after it was read.
CloseModelUnchecked ==
  /\ client.stage = "hashing"
  /\ \E e \in IF client.hashing = file.version THEN {file.expected} ELSE BOOLEAN :
       cache' = [version |-> file.version, expected |-> e] /\ Compare(e)
  /\ UNCHANGED file

\* The end of the stream: a file that was replaced meanwhile is read once more,
\* and no more.
CloseModel ==
  /\ client.stage = "hashing"
  /\ IF client.hashing = file.version
     THEN /\ cache' = [version |-> file.version, expected |-> file.expected]
          /\ Compare(file.expected)
     ELSE /\ IF client.reads = 1 THEN Result("mismatch")
             ELSE client' = [client EXCEPT !.stage = "hash", !.reads = 1]
          /\ UNCHANGED cache
  /\ UNCHANGED file

\* GET models: no answer in time, an error, or a list without the model.
ListModels ==
  /\ client.stage = "listing"
  /\ \/ client' = [client EXCEPT !.stage = "sent", !.attempt = 1]
     \/ \E r \in Failures : Result(r)
  /\ UNCHANGED <<file, cache>>

-----------------------------------------------------------------------------
(* complete                                                                  *)

\* A reset, an answer 500, 502, 503 or 504, or a body that is cut short.
Again ==
  IF client.attempt > MaxRetries THEN Result("provider") ELSE To("backoff")

\* fetch: the answer begins; or it is one to ask again for; or the time is up
\* or the status another error, which is not.
Answered ==
  /\ client.stage = "sent"
  /\ \/ client' = [client EXCEPT !.stage = "reading", !.pieces = 0]
     \/ Again
     \/ Result("contract")
  /\ UNCHANGED <<file, cache>>

\* readResponse: one piece more, until there are too many.  The signal of the
\* connection ends a body that is still on its way, as a reset does.
Piece ==
  /\ client.stage = "reading"
  /\ \/ IF client.pieces = MaxPieces THEN Result("contract")
        ELSE client' = [client EXCEPT !.pieces = @ + 1]
     \/ Again
  /\ UNCHANGED <<file, cache>>

Wake ==
  /\ client.stage = "backoff"
  /\ client' = [client EXCEPT !.stage = "sent", !.attempt = @ + 1]
  /\ UNCHANGED <<file, cache>>

\* responseContent: nothing, a broken or unfinished stream, or one that says
\* it is of another model.
ContentRefused ==
  /\ client.stage = "reading"
  /\ \E r \in {"contract", "mismatch"} : Result(r)
  /\ UNCHANGED <<file, cache>>

\* parseStrictJson: not one JSON value, or one with a repeated key.
NotStrictJson ==
  /\ client.stage = "judging" /\ client.job = "decision"
  /\ Result("contract")
  /\ UNCHANGED <<file, cache>>

\* decide: not of the schema, not a candidate that was offered, or not with the
\* input profile of that candidate.
NotOffered ==
  /\ client.stage = "judging" /\ client.job = "decision"
  /\ Result("contract")
  /\ UNCHANGED <<file, cache>>

Content ==
  /\ client.stage = "reading"
  /\ client.pieces > 0
  /\ To("judging")
  /\ UNCHANGED <<file, cache>>

Accept ==
  /\ client.stage = "judging"
  /\ IF client.job = "preflight" THEN Result("ready")
     ELSE \E d \in Decisions : Result(d)
  /\ UNCHANGED <<file, cache>>

ClientStep ==
  \/ OpenModel \/ CloseModel \/ ListModels \/ Answered \/ Piece \/ Wake
  \/ ContentRefused \/ Content \/ NotStrictJson \/ NotOffered \/ Accept

\* The jobs, and the end of one: the run takes its result.
Preflight == client' = [Idle EXCEPT !.job = "preflight", !.stage = "hash"]
Decision == client' = [Idle EXCEPT !.job = "decision", !.stage = "sent", !.attempt = 1]
Taken == client' = Idle

-----------------------------------------------------------------------------
(* Properties.                                                               *)

(* A digest that is kept is the one of the file that had that size and time: *)
(* so a preflight that got past the file has seen the expected model in      *)
(* full, however often the file was replaced before, between the runs of a   *)
(* batch or while it was read (llm.ts:83).                                   *)
ModelIsVerified ==
  /\ cache # NotHashed /\ cache.version = file.version
       => cache.expected = file.expected
  /\ client.job = "preflight" /\ client.stage \in {"listing", "sent", "reading"}
       => cache # NotHashed /\ cache.expected
=============================================================================
