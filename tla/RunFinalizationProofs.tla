-------------------------- MODULE RunFinalizationProofs --------------------------
(***************************************************************************)
(* The end of a run, for any batch, any configurations, any number of      *)
(* actions and any number of failing operations: what is published is      *)
(* true and may be published, a failure stays in the verdict, and a model  *)
(* that was verified is the one in the file.  And what is made of a run    *)
(* afterwards, on any target: its reduction is minimal, and what an        *)
(* investigation says of it was met in the replay.  Last, the state graph  *)
(* of such a run: it is the history in the trace, a plateau in it is a     *)
(* time without news, and the catalog can read it.                         *)
(***************************************************************************)
EXTENDS RunFinalization, GuidedRun, FiniteSetTheorems, SequenceTheorems,
        WellFoundedInduction, TLAPS

-----------------------------------------------------------------------------
(* The inductive invariant *)

\* The parts of a run, in order.
Starting == {"start", "preflight", "launch"}
Running == {"loop", "asking", "chosen", "judge"}
Closing == {"capture", "close", "browser"}
Closed == {"har", "reset"}
Handing == {"handoff", "finalize"}
Policing == {"inspect", "policy", "remove", "update", "export"}

Places == Starting \cup Running \cup Closing \cup Closed \cup {"decided"}
          \cup Handing \cup Policing \cup {"fail", "return"}

\* The verdict of the run has been corrected once.
Resolved == Handing \cup Policing \cup {"fail", "return"}

Text ==
  [har : {"absent", "captured", "kept"}, dom : 0..MaxActions, leaky : BOOLEAN]

Handed == [safe : BOOLEAN, prepared : BOOLEAN, missing : SUBSET Media]

Shape == pc \in Places /\ text \in Text /\ handoff \in Handed

\* Every snapshot belongs to an action that was carried out, and a snapshot in
\* which something was found is one of those that are there.
SnapshotsInv ==
  /\ text.dom <= done
  /\ text.leaky => text.dom > 0

\* The policy is applied three times.
PassInv ==
  /\ pc \in {"policy", "remove", "update"} => pass <= 2
  /\ pc \notin (Policing \ {"inspect"}) \cup {"fail", "return"} => pass = 0

\* The capture is stopped where both closes succeeded; a handoff that is safe
\* follows a capture that is not going on.
CaptureInv ==
  /\ capture = "stopped" =>
       stopped /\ pc \notin Starting \cup Running \cup Closing
  /\ pc \in {"handoff"} \cup Policing => handoff.safe
  /\ pc \in Handing \cup Policing /\ cfg.attested /\ handoff.safe =>
       capture # "active"

\* A failure that was recorded stays in the verdict, and a fixture that is left
\* changed is such a failure, unless a page is still at work.
FailureInv ==
  /\ pc \in Starting => ~asked
  /\ asked => cfg.mutates
  /\ pc \in Resolved /\ flags # {} => verdict.outcome = "error"
  /\ pc \in Resolved \cup {"decided"} /\ asked /\ dirty /\ ~AtWork /\ ~loose =>
       "executor" \in flags

\* A manifest is the last thing that is written, after the verdict.
ManifestInv ==
  /\ manifest # {} => pc = "return"
  /\ pc = "export" => metadata = verdict

Stages == {"idle", "hash", "hashing", "listing", "sent", "reading", "backoff",
           "judging", "over"}

Client ==
  [job : {"none", "preflight", "decision"}, stage : Stages, attempt : Nat,
   pieces : Nat, hashing : Nat, reads : Nat,
   result : {"none", "ready"} \cup Failures \cup Decisions]

\* What is kept of the model file is not ahead of it, and what the preflight
\* found out about it is kept.
ClientInv ==
  /\ file \in [version : Nat, expected : BOOLEAN]
  /\ cache \in [version : Nat, expected : BOOLEAN] \cup {NotHashed}
  /\ client \in Client
  /\ cache # NotHashed => cache.version <= file.version
  /\ client.job = "preflight" /\ client.stage \in {"listing", "sent", "reading", "backoff"}
       => cache # NotHashed /\ cache.expected

IInv ==
  /\ TypeOK /\ Shape
  /\ SnapshotsInv /\ PassInv /\ CaptureInv /\ FailureInv /\ ManifestInv
  /\ ManifestIsTrue /\ PublishedIsSafe
  /\ ClientInv /\ ModelIsVerified

-----------------------------------------------------------------------------
(* The client of the model server *)

\* A step is one of the client, the replacement of the file, the begin or the
\* end of a job, or leaves all of it alone.
LEMMA ClientCases ==
  ASSUME [Next]_vars
  PROVE  \/ ClientStep \/ Rewrite \/ UNCHANGED model
         \/ UNCHANGED <<file, cache>> /\ (Preflight \/ Decision \/ Taken)
<1> USE DEF fixed, batch, elsewhere, run, vars, model
<1>1. CASE Step
  <2>1. CASE Begin \/ PreflightEnds \/ Ask \/ Chosen \/ Model
    BY <2>1 DEF Begin, PreflightEnds, Ask, Chosen, Model
  <2>2. CASE \/ WorkerThrows \/ Launch \/ Act \/ ActionFails \/ Leave \/ Throw
             \/ Judge \/ CaptureEvidence \/ CloseContext
    BY <2>2 DEF WorkerThrows, Launch, Act, ActionFails, Leave, Throw, Judge,
                CaptureEvidence, CloseContext
  <2>3. CASE \/ CloseBrowser \/ SaveHar \/ ResetFixture \/ Resolve \/ Handoff
             \/ Finalize \/ Inspect \/ DropSnapshots \/ RemoveResidual
    BY <2>3 DEF CloseBrowser, SaveHar, ResetFixture, Resolve, Handoff, Finalize,
                Inspect, DropSnapshots, RemoveResidual
  <2>4. CASE UpdateOutcome \/ Export \/ Fail \/ Return
    BY <2>4 DEF UpdateOutcome, Export, Fail, Return
  <2> QED BY <1>1, <2>1, <2>2, <2>3, <2>4 DEF Step
<1>2. CASE PageGoesOn \/ Replace \/ Done \/ UNCHANGED vars
  BY <1>2 DEF PageGoesOn, Replace, Done
<1> QED BY <1>1, <1>2 DEF Next

\* The client goes on with its job.
Reaches(stage) ==
  client' \in Client /\ client'.job = client.job /\ client'.stage = stage

LEMMA ToReaches ==
  ASSUME client \in Client
  PROVE  /\ \A stage \in Stages : To(stage) => Reaches(stage)
         /\ \A r \in {"ready"} \cup Failures \cup Decisions :
              Result(r) => Reaches("over")
BY DEF Client, To, Result, Reaches, Stages

LEMMA AgainReaches ==
  ASSUME client \in Client, Again
  PROVE  Reaches("over") \/ Reaches("backoff")
<1>1. Result("provider") \/ To("backoff")
  BY DEF Again
<1> QED BY <1>1, ToReaches DEF Failures, Stages

\* What is kept is looked up by the number of the file, and the file only gets
\* higher ones.
LEMMA ClientKept ==
  ASSUME ClientInv, ModelIsVerified, [Next]_vars
  PROVE  ClientInv' /\ ModelIsVerified'
<1> USE ClientAssumption DEF ClientInv, ModelIsVerified
<1>1. CASE UNCHANGED model
  BY <1>1 DEF model
<1>2. CASE UNCHANGED <<file, cache>> /\ (Preflight \/ Decision \/ Taken)
  <2>1. client' \in Client /\ client'.stage \in {"hash", "sent", "idle"}
        /\ (client'.job = "preflight" => client'.stage = "hash")
    <3>1. CASE Preflight
      BY <3>1 DEF Preflight, Idle, Client, Stages
    <3>2. CASE Decision
      BY <3>2 DEF Decision, Idle, Client, Stages
    <3>3. CASE Taken
      BY <3>3 DEF Taken, Idle, Client, Stages
    <3> QED BY <1>2, <3>1, <3>2, <3>3
  <2> QED BY <1>2, <2>1
<1>3. CASE Rewrite
  BY <1>3 DEF Rewrite
<1>4. CASE OpenModel
  <2>1. CASE cache # NotHashed /\ cache.version = file.version
    <3>1. \/ cache.expected /\ To("listing")
          \/ Result("mismatch")
      BY <1>4, <2>1 DEF OpenModel, Compare
    <3> QED BY <1>4, <2>1, <3>1, ToReaches
            DEF OpenModel, Reaches, Stages, Failures
  <2>2. CASE ~(cache # NotHashed /\ cache.version = file.version)
    <3>1. Reaches("hashing")
      BY <1>4, <2>2 DEF OpenModel, Reaches, Client, Stages
    <3> QED BY <1>4, <3>1 DEF OpenModel, Reaches
  <2> QED BY <2>1, <2>2
<1>5. CASE CloseModel
  <2>1. CASE client.hashing = file.version
    <3>1. cache' = [version |-> file.version, expected |-> file.expected]
          /\ file' = file
      BY <1>5, <2>1 DEF CloseModel
    <3>2. \/ file.expected /\ Reaches("listing")
          \/ Reaches("over")
      BY <1>5, <2>1, ToReaches DEF CloseModel, Compare, Stages, Failures
    <3> QED BY <3>1, <3>2 DEF Reaches
  <2>2. CASE client.hashing # file.version
    <3>1. Reaches("over") \/ Reaches("hash")
      <4>1. CASE client' = [client EXCEPT !.stage = "hash", !.reads = 1]
        BY <4>1 DEF Client, Reaches, Stages
      <4> QED BY <1>5, <2>2, <4>1, ToReaches DEF CloseModel, Failures
    <3>2. UNCHANGED <<file, cache>>
      BY <1>5, <2>2 DEF CloseModel
    <3> QED BY <3>1, <3>2 DEF Reaches
  <2> QED BY <2>1, <2>2
<1>6. CASE ListModels \/ Answered \/ Piece \/ Wake
  <2>1. /\ UNCHANGED <<file, cache>>
        /\ client.stage \in {"listing", "sent", "reading", "backoff"}
    BY <1>6 DEF ListModels, Answered, Piece, Wake
  <2>2. \/ Reaches("over") \/ Reaches("backoff") \/ Reaches("sent")
        \/ Reaches("reading")
    <3>1. CASE ListModels
      <4>1. CASE client' = [client EXCEPT !.stage = "sent", !.attempt = 1]
        BY <4>1 DEF Client, Reaches, Stages
      <4> QED BY <3>1, <4>1, ToReaches DEF ListModels
    <3>2. CASE Answered
      <4>1. CASE client' = [client EXCEPT !.stage = "reading", !.pieces = 0]
        BY <4>1 DEF Client, Reaches, Stages
      <4> QED BY <3>2, <4>1, ToReaches, AgainReaches DEF Answered, Failures
    <3>3. CASE Piece
      <4>1. CASE client' = [client EXCEPT !.pieces = @ + 1]
        BY <3>3, <4>1 DEF Client, Piece, Reaches, Stages
      <4>2. \/ Result("contract") \/ Again
            \/ client' = [client EXCEPT !.pieces = @ + 1]
        BY <3>3 DEF Piece
      <4> QED BY <4>1, <4>2, ToReaches, AgainReaches DEF Failures
    <3>4. CASE Wake
      <4>1. client \in Client /\ client.attempt + 1 \in Nat
        BY DEF Client
      <4>2. client' = [client EXCEPT !.stage = "sent",
                                     !.attempt = client.attempt + 1]
        BY <3>4 DEF Wake
      <4>3. Reaches("sent")
        BY <4>1, <4>2 DEF Client, Reaches, Stages
      <4> QED BY <4>3
    <3> QED BY <1>6, <3>1, <3>2, <3>3, <3>4
  <2> QED BY <2>1, <2>2 DEF Reaches
<1>7. CASE ContentRefused \/ Content \/ NotStrictJson \/ NotOffered \/ Accept
  <2>1. UNCHANGED <<file, cache>>
    BY <1>7 DEF ContentRefused, Content, NotStrictJson, NotOffered, Accept
  <2>2. Reaches("over") \/ Reaches("judging")
    BY <1>7, ToReaches
       DEF ContentRefused, Content, NotStrictJson, NotOffered, Accept, Decisions,
           Failures, Stages
  <2> QED BY <2>1, <2>2 DEF Reaches
<1> QED BY <1>1, <1>2, <1>3, <1>4, <1>5, <1>6, <1>7, ClientCases
        DEF ClientStep

-----------------------------------------------------------------------------
(* The run: what each step may change *)

LEMMA Frame ==
  ASSUME [Next]_vars
  PROVE  /\ UNCHANGED cfg
         /\ Return \/ UNCHANGED loose
         /\ WorkerThrows \/ Return \/ UNCHANGED results
         /\ Act \/ Return \/ UNCHANGED done
         /\ Act \/ ActionFails \/ Return \/ UNCHANGED asked
         /\ Launch \/ Act \/ ActionFails \/ PageGoesOn \/ ResetFixture
              \/ UNCHANGED dirty
         /\ Launch \/ CloseContext \/ CloseBrowser \/ Return \/ UNCHANGED page
         /\ Launch \/ CloseBrowser \/ Return \/ UNCHANGED capture
         /\ CloseContext \/ CloseBrowser \/ Return \/ UNCHANGED stopped
         /\ CaptureEvidence \/ CloseContext \/ Resolve \/ Handoff
              \/ RemoveResidual \/ Return \/ UNCHANGED media
         /\ Act \/ CloseContext \/ SaveHar \/ DropSnapshots \/ RemoveResidual
              \/ Return \/ UNCHANGED text
         /\ Launch \/ Act \/ Finalize \/ DropSnapshots \/ Return
              \/ UNCHANGED expect
         /\ Begin \/ Resolve \/ Handoff \/ Return \/ UNCHANGED handoff
         /\ UpdateOutcome \/ Return \/ UNCHANGED pass
         /\ Finalize \/ UpdateOutcome \/ Fail \/ Return \/ UNCHANGED metadata
         /\ Export \/ Return \/ UNCHANGED manifest
<1> USE DEF fixed, batch, elsewhere, browser, evidence, ending, run, vars
<1>1. CASE WorkerThrows \/ Begin \/ PreflightEnds \/ Ask \/ Chosen \/ Model
  BY <1>1 DEF WorkerThrows, Begin, PreflightEnds, Ask, Chosen, Model, Crash
<1>2. CASE ActionFails \/ Leave \/ Throw \/ Judge \/ CaptureEvidence
  BY <1>2 DEF ActionFails, Leave, Throw, Judge, CaptureEvidence, Crash
<1>3. CASE Launch
  BY <1>3 DEF Launch, Crash
<1>4. CASE Act
  BY <1>4 DEF Act, Snapshot
<1>5. CASE CloseContext
  BY <1>5 DEF CloseContext
<1>6. CASE CloseBrowser \/ SaveHar \/ ResetFixture
  BY <1>6 DEF CloseBrowser, SaveHar, ResetFixture
<1>7. CASE Resolve \/ Handoff \/ Finalize \/ Inspect
  BY <1>7 DEF Resolve, Handoff, Finalize, Inspect
<1>8. CASE DropSnapshots \/ RemoveResidual \/ UpdateOutcome
  BY <1>8 DEF DropSnapshots, RemoveResidual, UpdateOutcome
<1>9. CASE Export \/ Fail \/ Return
  BY <1>9 DEF Export, Fail, Return
<1>10. CASE PageGoesOn \/ Replace \/ Done \/ UNCHANGED vars
  BY <1>10 DEF PageGoesOn, Replace, Done
<1> QED BY <1>1, <1>2, <1>3, <1>4, <1>5, <1>6, <1>7, <1>8, <1>9, <1>10
        DEF Next, Step

\* The way of a run.
LEMMA Path ==
  ASSUME [Next]_vars
  PROVE  \/ UNCHANGED pc
         \/ pc \in Starting /\ pc' \in Starting \cup {"loop", "capture", "decided"}
         \/ pc \in Running /\ pc' \in Running \cup {"capture"}
         \/ pc \in Closing /\ pc' \in Closing
         \/ CloseBrowser /\ pc \in Closing /\ pc' = "har"
         \/ pc = "har" /\ pc' = "reset"
         \/ ResetFixture /\ pc = "reset" /\ pc' = "decided"
         \/ Resolve /\ pc = "decided" /\ pc' \in Handing
         \/ Handoff /\ pc = "handoff" /\ pc' = "finalize"
         \/ Finalize /\ pc = "finalize" /\ pc' \in {"inspect", "fail"}
         \/ Inspect /\ pc = "inspect" /\ pc' \in {"policy", "fail"}
         \/ DropSnapshots /\ pc = "policy" /\ pc' = "remove"
         \/ RemoveResidual /\ pc \in {"policy", "remove"} /\ pc' = "update"
         \/ UpdateOutcome /\ pc = "update" /\ pc' \in {"policy", "export", "fail"}
         \/ Export /\ pc = "export" /\ pc' \in {"return", "fail"}
         \/ Fail /\ pc = "fail" /\ pc' = "return"
         \/ Return /\ pc = "return" /\ pc' = "start"
<1> USE DEF fixed, batch, elsewhere, run, vars, Starting, Running, Closing, Handing
<1>1. CASE WorkerThrows \/ Begin \/ PreflightEnds \/ Model
  BY <1>1 DEF WorkerThrows, Begin, PreflightEnds, Model
<1>2. CASE Launch \/ Act
  BY <1>2 DEF Launch, Act, Ready, Crash
<1>3. CASE ActionFails \/ Ask \/ Chosen \/ Leave \/ Throw \/ Judge
  BY <1>3
     DEF ActionFails, Ask, Chosen, Leave, Throw, Judge, Ready, Unsafe, Unanswered,
         Crash
<1>4. CASE CaptureEvidence \/ CloseContext \/ CloseBrowser
  BY <1>4 DEF CaptureEvidence, CloseContext, CloseBrowser
<1>5. CASE SaveHar \/ ResetFixture
  BY <1>5 DEF SaveHar, ResetFixture
<1>6. CASE Resolve \/ Handoff \/ Finalize \/ Inspect
  BY <1>6 DEF Resolve, Handoff, Finalize, Inspect
<1>7. CASE DropSnapshots \/ RemoveResidual \/ UpdateOutcome
  BY <1>7 DEF DropSnapshots, RemoveResidual, UpdateOutcome
<1>8. CASE Export \/ Fail \/ Return
  BY <1>8 DEF Export, Fail, Return
<1>9. CASE PageGoesOn \/ Replace \/ Done \/ UNCHANGED vars
  BY <1>9 DEF PageGoesOn, Replace, Done
<1> QED BY <1>1, <1>2, <1>3, <1>4, <1>5, <1>6, <1>7, <1>8, <1>9 DEF Next, Step

-----------------------------------------------------------------------------
(* The run: types *)

LEMMA TextKept ==
  ASSUME TypeOK, Shape, SnapshotsInv, [Next]_vars
  PROVE  text' \in Text /\ done' \in 0..MaxActions /\ SnapshotsInv'
<1> USE FinalizationAssumption DEF Shape, SnapshotsInv
<1>1. done \in 0..MaxActions /\ text \in Text
  BY DEF TypeOK
<1>2. /\ text.har \in {"absent", "captured", "kept"} /\ text.dom \in 0..MaxActions
      /\ text.leaky \in BOOLEAN
  BY <1>1 DEF Text
<1>3. ASSUME done' = done,
             \/ text' = text
             \/ \E h \in {"absent", "captured", "kept"} : text' = [text EXCEPT !.har = h]
      PROVE  text' \in Text /\ SnapshotsInv'
  <2>1. CASE text' = text
    BY <1>1, <1>3, <2>1
  <2>2. CASE \E h \in {"absent", "captured", "kept"} : text' = [text EXCEPT !.har = h]
    <3>1. PICK h \in {"absent", "captured", "kept"} : text' = [text EXCEPT !.har = h]
      BY <2>2
    <3>2. text' \in Text /\ text'.dom = text.dom /\ text'.leaky = text.leaky
      BY <1>1, <3>1 DEF Text
    <3> QED BY <1>3, <3>2
  <2> QED BY <1>3, <2>1, <2>2
<1>4. CASE Act
  <2>1. done' = done + 1 /\ done' \in 0..MaxActions
    BY <1>1, <1>4 DEF Act, Ready
  <2>2. CASE text' = text
    BY <1>1, <1>2, <2>1, <2>2
  <2>3. CASE text' # text
    <3>1. PICK leaky \in BOOLEAN :
            text' = [text EXCEPT !.dom = @ + 1, !.leaky = @ \/ leaky]
      BY <1>4, <2>3 DEF Act, Snapshot
    <3> DEFINE n == text.dom + 1
               l == text.leaky \/ leaky
    <3>2. n \in 0..MaxActions /\ l \in BOOLEAN /\ n > 0 /\ n <= done + 1
      BY <1>1, <1>2, <2>1
    <3>3. text' = [text EXCEPT !.dom = n, !.leaky = l]
      BY <3>1
    <3> HIDE DEF n, l
    <3>4. text' \in Text /\ text'.dom = n
      BY <1>1, <3>2, <3>3 DEF Text
    <3> QED BY <1>1, <2>1, <3>2, <3>4
  <2> QED BY <2>2, <2>3
<1>5. CASE CloseContext \/ SaveHar
  <2>1. \/ text' = text
        \/ \E h \in {"absent", "captured", "kept"} : text' = [text EXCEPT !.har = h]
    BY <1>2, <1>5 DEF CloseContext, SaveHar
  <2>2. done' = done
    BY <1>5 DEF CloseContext, SaveHar
  <2> QED BY <1>1, <1>3, <2>1, <2>2
<1>6. CASE DropSnapshots
  <2>1. text' = [text EXCEPT !.dom = 0, !.leaky = FALSE] /\ done' = done
    BY <1>6 DEF DropSnapshots, batch, browser
  <2>2. 0 \in 0..MaxActions /\ FALSE \in BOOLEAN
    OBVIOUS
  <2>3. text' \in Text /\ text'.dom = 0 /\ text'.leaky = FALSE
    BY <1>1, <2>1, <2>2 DEF Text
  <2> QED BY <1>1, <2>1, <2>3
<1>7. CASE RemoveResidual
  <2>1. done' = done
    BY <1>7 DEF RemoveResidual
  <2>2. CASE text' = text
    BY <1>1, <2>1, <2>2
  <2>3. CASE text' # text
    <3>1. /\ text.leaky
          /\ text' = [text EXCEPT !.dom = text.dom - 1, !.leaky = FALSE]
      BY <1>7, <2>3 DEF RemoveResidual
    <3>2. text.dom - 1 \in 0..MaxActions /\ text.dom - 1 <= done
      BY <1>1, <1>2, <3>1
    <3>3. text' \in Text /\ text'.dom = text.dom - 1 /\ text'.leaky = FALSE
      BY <1>1, <3>1, <3>2 DEF Text
    <3> QED BY <1>1, <2>1, <3>2, <3>3
  <2> QED BY <2>2, <2>3
<1>8. CASE Return
  BY <1>8 DEF Return, NoText, Text
<1>9. CASE UNCHANGED <<text, done>>
  BY <1>1, <1>9
<1> QED BY <1>1, <1>4, <1>5, <1>6, <1>7, <1>8, <1>9, Frame

LEMMA MediaKept ==
  ASSUME TypeOK, [Next]_vars
  PROVE  media' \in [Media -> {"absent", "raw", "staged", "attested"}]
<1>1. media \in [Media -> {"absent", "raw", "staged", "attested"}]
  BY DEF TypeOK
<1>2. CASE CaptureEvidence \/ Handoff \/ RemoveResidual
  BY <1>1, <1>2 DEF CaptureEvidence, Handoff, RemoveResidual
<1>3. CASE CloseContext \/ Resolve
  <2>1. \/ media' = media
        \/ \E v \in {"absent", "raw", "staged", media["video"]} :
             media' = [media EXCEPT !["video"] = v]
    BY <1>3 DEF CloseContext, Resolve
  <2>2. media["video"] \in {"absent", "raw", "staged", "attested"}
    BY <1>1 DEF Media
  <2> QED BY <1>1, <2>1, <2>2
<1>4. CASE Return
  BY <1>4 DEF Return, NoMedia
<1> QED BY <1>1, <1>2, <1>3, <1>4, Frame

LEMMA HandoffKept ==
  ASSUME TypeOK, Shape, [Next]_vars
  PROVE  handoff' \in Handed
<1>1. handoff \in Handed /\ cfg.attested \in BOOLEAN
  BY FinalizationAssumption DEF Shape, TypeOK, Config
<1>2. CASE Begin
  BY <1>1, <1>2 DEF Begin, Handed
<1>3. CASE Resolve
  <2>1. handoff' = handoff \/ handoff' = [handoff EXCEPT !.safe = FALSE]
    BY <1>3 DEF Resolve
  <2> QED BY <1>1, <2>1 DEF Handed
<1>4. CASE Handoff
  <2>1. \/ handoff' = [handoff EXCEPT !.safe = FALSE]
        \/ \E lost \in SUBSET Media : handoff' = [handoff EXCEPT !.missing = lost]
    BY <1>4 DEF Handoff
  <2> QED BY <1>1, <2>1 DEF Handed
<1>5. CASE Return
  BY <1>5 DEF Return, NoHandoff, Handed
<1> QED BY <1>1, <1>2, <1>3, <1>4, <1>5, Frame

LEMMA BooleansKept ==
  ASSUME TypeOK, [Next]_vars
  PROVE  /\ {stopped', asked', dirty', failed', capable'} \subseteq BOOLEAN
         /\ loose' \in BOOLEAN
<1>1. /\ stopped \in BOOLEAN /\ asked \in BOOLEAN /\ dirty \in BOOLEAN
      /\ failed \in BOOLEAN /\ capable \in BOOLEAN /\ loose \in BOOLEAN
      /\ cfg.mutates \in BOOLEAN
  BY FinalizationAssumption DEF TypeOK, Config
<1>2. stopped' \in BOOLEAN
  <2>1. CASE CloseContext \/ CloseBrowser \/ Return
    BY <1>1, <2>1 DEF CloseContext, CloseBrowser, Return
  <2> QED BY <1>1, <2>1, Frame
<1>3. asked' \in BOOLEAN
  <2>1. CASE Act \/ ActionFails \/ Return
    BY <1>1, <2>1 DEF Act, ActionFails, Return
  <2> QED BY <1>1, <2>1, Frame
<1>4. dirty' \in BOOLEAN
  <2>1. CASE Launch
    BY <1>1, <2>1 DEF Launch, ResetResult
  <2>2. CASE Act \/ ActionFails \/ PageGoesOn
    BY <1>1, <2>2 DEF Act, ActionFails, PageGoesOn
  <2>3. CASE ResetFixture
    BY <1>1, <2>3 DEF ResetFixture, ResetResult
  <2> QED BY <1>1, <2>1, <2>2, <2>3, Frame
<1>5. failed' \in BOOLEAN
  <2> USE <1>1 DEF fixed, batch, elsewhere, browser, run, vars
  <2>1. CASE WorkerThrows \/ Begin \/ PreflightEnds \/ Model \/ Launch \/ Act
    BY <2>1 DEF WorkerThrows, Begin, PreflightEnds, Model, Launch, Act, Snapshot,
                Crash
  <2>2. CASE ActionFails \/ Ask \/ Chosen \/ Leave \/ Throw \/ Judge
    BY <2>2 DEF ActionFails, Ask, Chosen, Leave, Throw, Judge, Crash
  <2>3. CASE CaptureEvidence \/ CloseContext \/ CloseBrowser \/ SaveHar
             \/ ResetFixture
    BY <2>3 DEF CaptureEvidence, CloseContext, CloseBrowser, SaveHar, ResetFixture,
                ArtifactFault
  <2>4. CASE Resolve \/ Handoff \/ Finalize \/ Inspect
    BY <2>4 DEF Resolve, Handoff, Finalize, Inspect, ArtifactFault
  <2>5. CASE DropSnapshots \/ RemoveResidual \/ UpdateOutcome \/ Export \/ Fail
             \/ Return
    BY <2>5 DEF DropSnapshots, RemoveResidual, UpdateOutcome, Export, Fail, Return
  <2>6. CASE PageGoesOn \/ Replace \/ Done \/ UNCHANGED vars
    BY <2>6 DEF PageGoesOn, Replace, Done
  <2> QED BY <2>1, <2>2, <2>3, <2>4, <2>5, <2>6 DEF Next, Step
<1>6. capable' \in BOOLEAN
  <2> USE <1>1 DEF evidence, run, vars
  <2>1. CASE WorkerThrows \/ Begin \/ PreflightEnds \/ Model \/ Launch \/ Act
    BY <2>1 DEF WorkerThrows, Begin, PreflightEnds, Model, Launch, Act
  <2>2. CASE ActionFails \/ Ask \/ Chosen \/ Leave \/ Throw \/ Judge
    BY <2>2 DEF ActionFails, Ask, Chosen, Leave, Throw, Judge
  <2>3. CASE CaptureEvidence \/ CloseContext \/ CloseBrowser \/ SaveHar
             \/ ResetFixture
    BY <2>3 DEF CaptureEvidence, CloseContext, CloseBrowser, SaveHar, ResetFixture
  <2>4. CASE Resolve \/ Handoff \/ Finalize \/ Inspect
    BY <2>4 DEF Resolve, Handoff, Finalize, Inspect
  <2>5. CASE DropSnapshots \/ RemoveResidual \/ UpdateOutcome \/ Export \/ Fail
             \/ Return
    BY <2>5 DEF DropSnapshots, RemoveResidual, UpdateOutcome, Export, Fail, Return
  <2>6. CASE PageGoesOn \/ Replace \/ Done \/ UNCHANGED vars
    BY <2>6 DEF PageGoesOn, Replace, Done
  <2> QED BY <2>1, <2>2, <2>3, <2>4, <2>5, <2>6 DEF Next, Step
<1>7. loose' \in BOOLEAN
  <2>1. CASE Return
    BY <1>1, <2>1 DEF Return
  <2> QED BY <1>1, <2>1, Frame
<1> QED BY <1>2, <1>3, <1>4, <1>5, <1>6, <1>7

\* The flags are only added to during a run.
LEMMA FlagsKept ==
  ASSUME [Next]_vars
  PROVE  \/ UNCHANGED flags
         \/ flags' = flags \cup {"executor"}
         \/ flags' = flags \cup {"artifact"}
         \/ Return /\ flags' = {}
<1> USE DEF fixed, batch, elsewhere, browser, run, vars
<1>1. CASE WorkerThrows \/ Begin \/ PreflightEnds \/ Model \/ Launch \/ Act
  BY <1>1 DEF WorkerThrows, Begin, PreflightEnds, Model, Launch, Act, Snapshot, Crash
<1>2. CASE ActionFails \/ Ask \/ Chosen \/ Leave \/ Throw \/ Judge
  BY <1>2 DEF ActionFails, Ask, Chosen, Leave, Throw, Judge, Crash
<1>3. CASE CaptureEvidence \/ CloseContext \/ CloseBrowser \/ SaveHar \/ ResetFixture
  BY <1>3 DEF CaptureEvidence, CloseContext, CloseBrowser, SaveHar, ResetFixture,
              ArtifactFault
<1>4. CASE Resolve \/ Handoff \/ Finalize \/ Inspect
  BY <1>4 DEF Resolve, Handoff, Finalize, Inspect, ArtifactFault
<1>5. CASE DropSnapshots \/ RemoveResidual \/ UpdateOutcome \/ Export \/ Fail \/ Return
  BY <1>5 DEF DropSnapshots, RemoveResidual, UpdateOutcome, Export, Fail, Return
<1>6. CASE PageGoesOn \/ Replace \/ Done \/ UNCHANGED vars
  BY <1>6 DEF PageGoesOn, Replace, Done
<1> QED BY <1>1, <1>2, <1>3, <1>4, <1>5, <1>6 DEF Next, Step

\* The policy turns a verdict into another that is no better.
LEMMA AppliedVerdict ==
  ASSUME verdict.outcome \in Ended
  PROVE  /\ Applied(verdict).outcome \in Ended
         /\ verdict.outcome = "error" => Applied(verdict).outcome = "error"
  BY DEF Applied, Verdict, Ended

LEMMA VerdictKept ==
  ASSUME TypeOK, [Next]_vars
  PROVE  verdict'.outcome \in Ended /\ metadata'.outcome \in Ended
<1>1. verdict.outcome \in Ended /\ metadata.outcome \in Ended
  BY DEF TypeOK
<1>2. verdict'.outcome \in Ended
  <2> USE <1>1 DEF fixed, batch, elsewhere, run, vars, Decide, Verdict, Undecided, Ended
  <2>1. CASE WorkerThrows \/ Begin \/ PreflightEnds \/ Model \/ Launch
    BY <2>1 DEF WorkerThrows, Begin, PreflightEnds, Model, Launch, Crash
  <2>9. CASE Act
    <3> HIDE DEF Decide
    <3>1. \/ UNCHANGED verdict
          \/ \E o \in {"partial", "error"}, r \in {"artifact_limit", "artifact_failure"} :
               Decide(o, r)
      BY <2>9 DEF Act, Snapshot
    <3> QED BY <3>1 DEF Decide
  <2>2. CASE ActionFails \/ Ask \/ Chosen \/ Leave \/ Throw \/ Judge
    BY <2>2 DEF ActionFails, Ask, Chosen, Leave, Throw, Judge, Crash
  <2>3. CASE CaptureEvidence \/ CloseContext \/ CloseBrowser \/ SaveHar
             \/ ResetFixture
    BY <2>3 DEF CaptureEvidence, CloseContext, CloseBrowser, SaveHar, ResetFixture
  <2>4. CASE Resolve
    BY <2>4 DEF Resolve, Corrected
  <2>5. CASE Handoff \/ Finalize
    BY <2>5 DEF Handoff, Finalize
  <2>6. CASE Inspect \/ UpdateOutcome
    <3>1. verdict' = verdict \/ verdict' = Applied(verdict)
      BY <2>6 DEF Inspect, UpdateOutcome
    <3> QED BY <3>1, AppliedVerdict
  <2>7. CASE DropSnapshots \/ RemoveResidual \/ Export \/ Fail \/ Return
    BY <2>7 DEF DropSnapshots, RemoveResidual, Export, Fail, Return
  <2>8. CASE PageGoesOn \/ Replace \/ Done \/ UNCHANGED vars
    BY <2>8 DEF PageGoesOn, Replace, Done
  <2> QED BY <2>1, <2>2, <2>3, <2>4, <2>5, <2>6, <2>7, <2>8, <2>9 DEF Next, Step
<1>3. metadata'.outcome \in Ended
  <2>1. CASE Finalize \/ UpdateOutcome
    BY <1>1, <2>1 DEF Finalize, UpdateOutcome
  <2>2. CASE Fail
    BY <1>1, <1>2, <2>2 DEF Fail
  <2>3. CASE Return
    BY <2>3 DEF Return, Undecided, Verdict, Ended
  <2> QED BY <1>1, <2>1, <2>2, <2>3, Frame
<1> QED BY <1>2, <1>3

LEMMA CountsKept ==
  ASSUME TypeOK, PassInv, [Next]_vars
  PROVE  /\ faults' \in 0..MaxFaults /\ pass' \in 0..3 /\ PassInv'
         /\ results' \in Seq(Ended \cup {"threw"})
<1>1. /\ faults \in 0..MaxFaults /\ pass \in 0..3 /\ verdict.outcome \in Ended
      /\ results \in Seq(Ended \cup {"threw"})
  BY DEF TypeOK
<1>2. faults' \in 0..MaxFaults
  <2> USE <1>1, FinalizationAssumption DEF batch, elsewhere, run, vars, Fault
  <2>1. CASE WorkerThrows \/ Begin \/ PreflightEnds \/ Model \/ Launch
    BY <2>1 DEF WorkerThrows, Begin, PreflightEnds, Model, Launch
  <2>7. CASE Act
    <3> HIDE DEF Fault
    <3>1. UNCHANGED faults \/ Fault
      BY <2>7 DEF Act, Snapshot
    <3> QED BY <3>1 DEF Fault
  <2>2. CASE ActionFails \/ Ask \/ Chosen \/ Leave \/ Throw \/ Judge
    BY <2>2 DEF ActionFails, Ask, Chosen, Leave, Throw, Judge
  <2>3. CASE CaptureEvidence \/ CloseContext \/ CloseBrowser \/ SaveHar
             \/ ResetFixture
    BY <2>3 DEF CaptureEvidence, CloseContext, CloseBrowser, SaveHar, ResetFixture,
                ArtifactFault
  <2>4. CASE Resolve \/ Handoff \/ Finalize \/ Inspect
    BY <2>4 DEF Resolve, Handoff, Finalize, Inspect, ArtifactFault
  <2>5. CASE DropSnapshots \/ RemoveResidual \/ UpdateOutcome \/ Export \/ Fail
             \/ Return
    BY <2>5 DEF DropSnapshots, RemoveResidual, UpdateOutcome, Export, Fail, Return
  <2>6. CASE PageGoesOn \/ Replace \/ Done \/ UNCHANGED vars
    BY <2>6 DEF PageGoesOn, Replace, Done
  <2> QED BY <2>1, <2>2, <2>3, <2>4, <2>5, <2>6, <2>7 DEF Next, Step
<1>3. pass' \in 0..3 /\ PassInv'
  <2>1. CASE UpdateOutcome
    <3>1. /\ pc = "update" /\ pass <= 2 /\ pass' = pass + 1
          /\ pc' \in {"policy", "export", "fail"} /\ (pc' = "policy" => pass # 2)
      BY <2>1 DEF UpdateOutcome, PassInv
    <3> QED BY <1>1, <3>1 DEF PassInv, Policing
  <2>2. CASE Return
    BY <2>2 DEF Return, PassInv, Policing
  <2>3. CASE UNCHANGED pass /\ ~UpdateOutcome /\ ~Return
    <3> USE DEF PassInv, Starting, Running, Closing, Handing, Policing
    <3> QED BY <1>1, <2>3, Path
  <2> QED BY <2>1, <2>2, <2>3, Frame
<1>4. results' \in Seq(Ended \cup {"threw"})
  <2>1. CASE WorkerThrows
    BY <1>1, <2>1 DEF WorkerThrows
  <2>2. CASE Return
    BY <1>1, <2>2 DEF Return
  <2> QED BY <1>1, <2>1, <2>2, Frame
<1> QED BY <1>2, <1>3, <1>4

LEMMA BrowserKept ==
  ASSUME TypeOK, [Next]_vars
  PROVE  /\ page' \in {"none", "context", "open"}
         /\ capture' \in {"not-started", "active", "stopped"}
<1>1. /\ page \in {"none", "context", "open"}
      /\ capture \in {"not-started", "active", "stopped"}
  BY DEF TypeOK
<1>2. CASE Launch
  BY <1>1, <1>2 DEF Launch, Crash
<1>3. CASE CloseContext \/ CloseBrowser \/ Return
  BY <1>1, <1>3 DEF CloseContext, CloseBrowser, Return
<1> QED BY <1>1, <1>2, <1>3, Frame

LEMMA TypesKept ==
  ASSUME TypeOK, Shape, SnapshotsInv, PassInv, [Next]_vars
  PROVE  TypeOK' /\ Shape' /\ SnapshotsInv' /\ PassInv'
<1>1. text' \in Text /\ done' \in 0..MaxActions /\ SnapshotsInv'
  BY TextKept
<1>2. cfg' \in Configs
  BY Frame DEF TypeOK
<1>3. flags' \subseteq {"artifact", "executor"}
  BY FlagsKept DEF TypeOK
<1>4. TypeOK'
  BY <1>1, <1>2, <1>3, BooleansKept, MediaKept, VerdictKept, CountsKept, BrowserKept
     DEF TypeOK, Text
<1>5. pc' \in Places
  BY Path DEF Shape, Places, Starting, Running, Closing, Closed, Handing, Policing
<1> QED BY <1>1, <1>4, <1>5, HandoffKept, CountsKept DEF Shape

-----------------------------------------------------------------------------
(* The run: what is safe *)

LEMMA CaptureKept ==
  ASSUME TypeOK, Shape, CaptureInv, [Next]_vars
  PROVE  CaptureInv'
<1> USE DEF CaptureInv, Starting, Running, Closing, Handing, Policing
<1>1. CASE Launch
  BY <1>1 DEF Launch, Crash
<1>2. CASE CloseContext
  BY <1>2 DEF CloseContext
<1>3. CASE CloseBrowser
  BY <1>3 DEF CloseBrowser
<1>4. CASE Begin
  <2>1. pc' \in {"preflight", "launch", "decided"} /\ UNCHANGED <<capture, stopped>>
    BY <1>4 DEF Begin
  <2> QED BY <1>4, <2>1 DEF Begin
<1>5. CASE Resolve
  <2>1. handoff \in Handed
    BY DEF Shape
  <2>2. /\ pc = "decided" /\ UNCHANGED <<capture, stopped, cfg>>
        /\ pc' = "handoff" => handoff'.safe
        /\ pc' \in {"handoff", "finalize"}
        /\ (cfg.attested /\ capture = "active") =>
             handoff' = [handoff EXCEPT !.safe = FALSE]
    BY <1>5 DEF Resolve, fixed
  <2> QED BY <2>1, <2>2 DEF Handed
<1>6. CASE Handoff
  <2>1. handoff \in Handed
    BY DEF Shape
  <2>2. /\ pc = "handoff" /\ pc' = "finalize" /\ UNCHANGED <<capture, stopped, cfg>>
    BY <1>6 DEF Handoff, fixed
  <2> QED BY <2>2
<1>7. CASE Finalize
  BY <1>7 DEF Finalize, fixed, browser
<1>8. CASE Return
  BY <1>8 DEF Return
<1>9. CASE /\ UNCHANGED <<cfg, capture, stopped, handoff>>
           /\ ~CloseBrowser /\ ~Resolve /\ ~Handoff /\ ~Finalize /\ ~Return
  BY <1>9, Path
<1> QED BY <1>1, <1>2, <1>3, <1>4, <1>5, <1>6, <1>7, <1>8, <1>9, Frame

\* From the end of the capture on the page stays as it is, and what the run did
\* to the fixture is settled, unless a page is at work.
LEMMA FixtureKept ==
  ASSUME TypeOK, FailureInv, [Next]_vars
  PROVE  /\ pc' \in Starting => ~asked'
         /\ asked' => cfg'.mutates
         /\ pc' \in Resolved \cup {"decided"} /\ asked' /\ dirty' /\ ~AtWork' /\ ~loose'
              => "executor" \in flags'
<1> USE DEF FailureInv, Resolved, Starting, Running, Closing, Handing, Policing, AtWork
<1>1. asked \in BOOLEAN /\ dirty \in BOOLEAN /\ cfg.mutates \in BOOLEAN
      /\ loose \in BOOLEAN
  BY FinalizationAssumption DEF TypeOK, Config
<1>2. CASE Act \/ ActionFails
  <2>1. /\ asked' = cfg.mutates /\ cfg' = cfg
        /\ pc' \in {"loop", "capture", "judge"}
    BY <1>2 DEF Act, ActionFails, fixed, batch, Crash
  <2> QED BY <1>1, <2>1
<1>3. CASE Return
  BY <1>3 DEF Return
<1>4. CASE PageGoesOn
  BY <1>1, <1>4, FlagsKept DEF PageGoesOn, batch, fixed
<1>5. CASE ResetFixture
  <2>1. \/ dirty' = (dirty /\ ~cfg.mutates)
        \/ "executor" \in flags'
    BY <1>5 DEF ResetFixture, ResetResult
  <2>2. UNCHANGED <<asked, cfg>> /\ pc' = "decided"
    BY <1>5 DEF ResetFixture, fixed
  <2> QED BY <1>1, <2>1, <2>2
<1>6. CASE Launch
  <2>1. pc = "launch" /\ pc' \in {"loop", "capture"} /\ UNCHANGED <<asked, cfg>>
    BY <1>6 DEF Launch, Crash, fixed
  <2> QED BY <2>1
<1>7. CASE CloseContext \/ CloseBrowser
  <2>1. pc' \in {"browser", "har"} /\ UNCHANGED <<asked, cfg>>
    BY <1>7 DEF CloseContext, CloseBrowser, fixed
  <2> QED BY <2>1
<1>8. CASE /\ UNCHANGED <<cfg, asked, dirty, page, loose>>
           /\ ~ResetFixture /\ ~CloseBrowser /\ ~Return
  BY <1>1, <1>8, Path, FlagsKept
<1> QED BY <1>2, <1>3, <1>4, <1>5, <1>6, <1>7, <1>8, Frame

\* Once it is resolved a verdict is only corrected to an error, or from one
\* that is none.
LEMMA FailureKept ==
  ASSUME TypeOK, FailureInv, [Next]_vars
  PROVE  FailureInv'
<1> USE DEF Decide, Verdict, Undecided
<1>1. SUFFICES ASSUME pc' \in Resolved, flags' # {}
               PROVE  verdict'.outcome = "error"
  BY <1>1, FixtureKept DEF FailureInv
<1>2. flags \subseteq {"artifact", "executor"} /\ verdict.outcome \in Ended
  BY DEF TypeOK
<1>3. pc \in Resolved /\ flags # {} => verdict.outcome = "error"
  BY DEF FailureInv
<1>4. CASE Resolve
  BY <1>1, <1>2, <1>4 DEF Resolve, Corrected, ArtifactFault
<1>5. CASE Handoff
  BY <1>1, <1>3, <1>5 DEF Handoff, ArtifactFault, Resolved, Handing
<1>6. CASE Finalize
  BY <1>1, <1>3, <1>6 DEF Finalize, Resolved, Handing
<1>7. CASE Inspect \/ UpdateOutcome
  <2>1. /\ pc \in Resolved /\ flags' = flags
        /\ verdict' = verdict \/ verdict' = Applied(verdict)
    BY <1>7 DEF Inspect, UpdateOutcome, Resolved, Policing
  <2> QED BY <1>1, <1>2, <1>3, <2>1, AppliedVerdict
<1>8. CASE DropSnapshots
  BY <1>1, <1>3, <1>8 DEF DropSnapshots, Resolved, Policing
<1>9. CASE RemoveResidual
  BY <1>1, <1>3, <1>9 DEF RemoveResidual, Resolved, Policing
<1>10. CASE Export
  BY <1>1, <1>3, <1>10 DEF Export, Resolved, Policing
<1>11. CASE Fail
  BY <1>11 DEF Fail
<1>12. CASE PageGoesOn \/ Replace \/ Done \/ Model \/ UNCHANGED vars
  BY <1>1, <1>3, <1>12 DEF PageGoesOn, Replace, Done, Model, run, vars
<1> USE DEF Resolved, Starting, Running, Closing, Handing, Policing
<1>13. CASE Return
  BY <1>1, <1>13 DEF Return
<1>14. CASE WorkerThrows \/ Begin \/ PreflightEnds \/ Launch
  BY <1>1, <1>14 DEF WorkerThrows, Begin, PreflightEnds, Launch, Crash
<1>15. CASE Act \/ ActionFails \/ Ask \/ Chosen \/ Leave
  BY <1>1, <1>15 DEF Act, ActionFails, Ask, Chosen, Leave, Crash
<1>16. CASE Throw \/ Judge \/ CaptureEvidence \/ CloseContext \/ CloseBrowser
            \/ SaveHar \/ ResetFixture
  BY <1>1, <1>16 DEF Throw, Judge, CaptureEvidence, CloseContext, CloseBrowser,
                     SaveHar, ResetFixture, Crash
<1> QED BY <1>4, <1>5, <1>6, <1>7, <1>8, <1>9, <1>10, <1>11, <1>12, <1>13, <1>14,
           <1>15, <1>16 DEF Next, Step

\* A run that has only its manifest to write, or has written it, changes
\* nothing else.
LEMMA Rests ==
  ASSUME pc \in {"export", "return"}, [Next]_vars
  PROVE  \/ Export /\ pc = "export"
         \/ Return /\ pc = "return"
         \/ UNCHANGED <<cfg, pc, verdict, page, capture, stopped, evidence, ending>>
<1> USE DEF run, vars, batch, browser
<1>1. CASE PageGoesOn \/ Replace \/ Done \/ Model \/ UNCHANGED vars
  BY <1>1 DEF PageGoesOn, Replace, Done, Model, fixed
<1>2. ~(WorkerThrows \/ Begin \/ PreflightEnds \/ Launch \/ Act \/ ActionFails \/ Ask)
  BY DEF WorkerThrows, Begin, PreflightEnds, Launch, Act, ActionFails, Ask, Ready
<1>3. ~(Chosen \/ Leave \/ Throw \/ Judge \/ CaptureEvidence \/ CloseContext)
  BY DEF Chosen, Leave, Throw, Judge, CaptureEvidence, CloseContext, Ready, Unsafe,
         Unanswered
<1>4. ~(CloseBrowser \/ SaveHar \/ ResetFixture \/ Resolve \/ Handoff \/ Finalize)
  BY DEF CloseBrowser, SaveHar, ResetFixture, Resolve, Handoff, Finalize
<1>5. ~(Inspect \/ DropSnapshots \/ RemoveResidual \/ UpdateOutcome \/ Fail)
  BY DEF Inspect, DropSnapshots, RemoveResidual, UpdateOutcome, Fail
<1>6. (Export => pc = "export") /\ (Return => pc = "return")
  BY DEF Export, Return
<1> QED BY <1>1, <1>2, <1>3, <1>4, <1>5, <1>6 DEF Next, Step

\* Where a manifest is written its run directory is as it says.
LEMMA ExportIsTrue ==
  ASSUME TypeOK, TypeOK', Shape, CaptureInv, ManifestInv, Export, Acceptable,
         manifest' = Listing
  PROVE  ManifestIsTrue' /\ PublishedIsSafe'
<1>1. UNCHANGED <<cfg, verdict, metadata, page, capture, stopped, media, text, expect,
                  handoff>>
  BY DEF Export, fixed, browser, evidence
<1>2. Listing' = Listing /\ Missing' = Missing /\ Unsupported' = Unsupported
  BY <1>1 DEF Listing, Missing, Unsupported
<1>3. metadata = verdict /\ pc = "export" /\ handoff.safe
      /\ (cfg.attested => capture # "active")
  BY DEF Export, ManifestInv, CaptureInv, Policing
<1>4. ManifestIsTrue'
  BY <1>1, <1>2, <1>3 DEF Acceptable, ManifestIsTrue
<1>5. Residual = {} /\ Unsupported = {}
  BY DEF Acceptable
<1>6. text.leaky = FALSE
  BY <1>5 DEF Residual, TypeOK
<1>7. ASSUME cfg.attested
      PROVE  \A m \in Media : media[m] \in {"absent", "attested"}
  <2>1. \A m \in Media : media[m] # "raw" /\ media[m] # "staged"
    BY <1>5, <1>7 DEF Residual, Unsupported
  <2> QED BY <2>1 DEF TypeOK
<1>8. cfg.attested /\ capture # "not-started" => stopped
  BY <1>3 DEF CaptureInv, TypeOK
<1> QED BY <1>1, <1>2, <1>3, <1>4, <1>5, <1>6, <1>7, <1>8 DEF PublishedIsSafe

LEMMA ManifestKept ==
  ASSUME TypeOK, TypeOK', Shape, CaptureInv, ManifestInv, ManifestIsTrue,
         PublishedIsSafe, [Next]_vars
  PROVE  ManifestInv' /\ ManifestIsTrue' /\ PublishedIsSafe'
<1>1. CASE Export
  <2>1. manifest = {} /\ pc = "export" /\ pc' \in {"return", "fail"}
    BY <1>1 DEF Export, ManifestInv
  <2>2. CASE manifest' = manifest
    BY <2>1, <2>2 DEF ManifestInv, ManifestIsTrue, PublishedIsSafe
  <2>3. CASE manifest' # manifest
    <3>1. Acceptable /\ manifest' = Listing /\ pc' = "return"
      BY <1>1, <2>3 DEF Export
    <3> QED BY <1>1, <3>1, ExportIsTrue DEF ManifestInv
  <2> QED BY <2>2, <2>3
<1>2. CASE Return
  BY <1>2 DEF Return, ManifestInv, ManifestIsTrue, PublishedIsSafe
<1>3. CASE pc \in {"export", "return"} /\ ~Export /\ ~Return
  <2>1. UNCHANGED <<cfg, pc, verdict, page, capture, stopped, evidence, ending>>
    BY <1>3, Rests
  <2>2. UNCHANGED <<Listing, Missing, Unsupported>>
    BY <2>1 DEF evidence, ending, Listing, Missing, Unsupported
  <2>3. ManifestInv'
    BY <2>1 DEF ManifestInv, ending
  <2>4. ManifestIsTrue'
    BY <2>1, <2>2 DEF ManifestIsTrue, ending
  <2>5. PublishedIsSafe'
    BY <2>1, <2>2 DEF PublishedIsSafe, ending, evidence
  <2> QED BY <2>3, <2>4, <2>5
<1>4. CASE pc \notin {"export", "return"} /\ ~Export /\ ~Return
  <2>1. manifest = {} /\ manifest' = {}
    BY <1>4, Frame DEF ManifestInv
  <2>2. pc' = "export" => metadata' = verdict'
    <3>1. CASE UpdateOutcome
      BY <3>1 DEF UpdateOutcome
    <3>2. CASE ~UpdateOutcome
      BY <1>4, <3>2, Path DEF Starting, Running, Closing, Handing
    <3> QED BY <3>1, <3>2
  <2> QED BY <2>1, <2>2 DEF ManifestInv, ManifestIsTrue, PublishedIsSafe
<1> QED BY <1>1, <1>2, <1>3, <1>4

-----------------------------------------------------------------------------
(* The theorems *)

LEMMA AtFirst ==
  ASSUME Init
  PROVE  IInv
<1> USE FinalizationAssumption, ClientAssumption
    DEF Init, NoMedia, NoText, NothingExpected, NoHandoff, Undecided, Verdict
<1>1. TypeOK
  <2>1. results \in Seq(Ended \cup {"threw"})
    OBVIOUS
  <2>2. media \in [Media -> {"absent", "raw", "staged", "attested"}]
    OBVIOUS
  <2>3. cfg \in Configs /\ loose \in BOOLEAN
    OBVIOUS
  <2>6. faults = 0 /\ done = 0 /\ pass = 0 /\ MaxFaults \in Nat /\ MaxActions \in Nat
    OBVIOUS
  <2>7. faults \in 0..MaxFaults /\ done \in 0..MaxActions /\ pass \in 0..3
    BY ONLY <2>6
  <2>4. verdict.outcome \in Ended /\ metadata.outcome \in Ended
    BY DEF Ended
  <2>5. /\ text.leaky \in BOOLEAN /\ text.dom \in 0..MaxActions
        /\ text.har \in {"absent", "captured", "kept"}
    OBVIOUS
  <2> QED BY <2>1, <2>2, <2>3, <2>4, <2>5, <2>7 DEF TypeOK
<1>2. Shape /\ SnapshotsInv
  BY DEF Shape, Text, Handed, Places, Starting, SnapshotsInv
<1>3. PassInv /\ CaptureInv /\ FailureInv /\ ManifestInv
  BY DEF PassInv, CaptureInv, FailureInv, ManifestInv, Starting, Policing, Handing,
         Resolved
<1>4. ManifestIsTrue /\ PublishedIsSafe
  BY DEF ManifestIsTrue, PublishedIsSafe
<1>5. ClientInv /\ ModelIsVerified
  BY DEF ClientInit, ClientInv, ModelIsVerified, Client, Stages, Idle
<1> QED BY <1>1, <1>2, <1>3, <1>4, <1>5 DEF IInv

(* The inductive invariant of the end of a run and of the client of the model. *)
THEOREM FinalizationInvariant == Spec => []IInv
<1>1. IInv /\ [Next]_vars => IInv'
  <2> SUFFICES ASSUME IInv, [Next]_vars
               PROVE  IInv'
    OBVIOUS
  <2>1. TypeOK' /\ Shape' /\ SnapshotsInv' /\ PassInv'
    BY TypesKept DEF IInv
  <2>2. CaptureInv' /\ FailureInv'
    BY CaptureKept, FailureKept DEF IInv
  <2>3. ManifestInv' /\ ManifestIsTrue' /\ PublishedIsSafe'
    BY <2>1, ManifestKept DEF IInv
  <2>4. ClientInv' /\ ModelIsVerified'
    BY ClientKept DEF IInv
  <2> QED BY <2>1, <2>2, <2>3, <2>4 DEF IInv
<1> QED BY <1>1, AtFirst, PTL DEF Spec

\* A batch is passed if nothing else is among its results.
LEMMA AggregatePassed ==
  ASSUME TypeOK, BatchEnded
  PROVE  Aggregate = "passed" <=> \A i \in 1..Workers : results[i] = "passed"
<1>1. /\ results \in Seq(Ended \cup {"threw"}) /\ Len(results) = Workers
  BY DEF TypeOK, BatchEnded
<1>2. DOMAIN results = 1..Workers
      /\ \A i \in 1..Workers : results[i] \in Ended \cup {"threw"}
  BY <1>1
<1>3. ToSet(results) = {results[i] : i \in 1..Workers}
  BY <1>2 DEF ToSet
<1>4. ToSet(results) \subseteq Ended \cup {"threw"}
  BY <1>2, <1>3
<1>5. (\A i \in 1..Workers : results[i] = "passed")
        <=> ToSet(results) \subseteq {"passed"}
  BY <1>3
<1>6. Aggregate = "passed" <=>
        /\ "threw" \notin ToSet(results) /\ "error" \notin ToSet(results)
        /\ "failed" \notin ToSet(results) /\ "partial" \notin ToSet(results)
  BY DEF Aggregate
<1> QED BY <1>4, <1>5, <1>6 DEF Ended

(* What is published is true and may be published, a failure that was        *)
(* recorded stays in the verdict of its run, and a batch passes only if all  *)
(* of its runs do, whatever fails and however many runs there are.           *)
THEOREM FinalizationHolds == Spec => []FinalizationInv
<1>1. IInv => FinalizationInv
  <2> SUFFICES ASSUME IInv
               PROVE  FinalizationInv
    OBVIOUS
  <2>1. pc = "return" =>
          (flags # {} \/ (asked /\ dirty /\ ~AtWork /\ ~loose)
             => verdict.outcome = "error")
    BY DEF IInv, FailureInv, Resolved
  <2>2. VerdictStands
    BY <2>1, AggregatePassed DEF IInv, VerdictStands
  <2> QED BY <2>2 DEF IInv, FinalizationInv
<1> QED BY <1>1, FinalizationInvariant, PTL

(* A run that was let through saw the expected model in the file.            *)
THEOREM ModelVerified == Spec => []ModelIsVerified
<1>1. IInv => ModelIsVerified
  BY DEF IInv
<1> QED BY <1>1, FinalizationInvariant, PTL

-----------------------------------------------------------------------------
(* The guided run: the inductive invariant.                                *)

\* A sequence of whatever is in it.
Proper(t) == t \in Seq({t[i] : i \in DOMAIN t})

\* f is what StepsOf makes of the entries of t, one after the other.
Builds(f, t) ==
  f = [n \in 0..Len(t) |-> IF n = 0 THEN << >> ELSE WithEntry(f[n - 1], t[n])]

\* An entry is about the step of its number, and the first n steps have their
\* verdict.
TraceUpTo(t, n) ==
  /\ Proper(t) /\ Proper(StepsOf(t)) /\ (\E f : Builds(f, t))
  /\ StepOf(t, Len(t)) = Len(StepsOf(t))
  /\ n \in 0..Len(StepsOf(t))
  /\ \A i \in DOMAIN t :
       /\ t[i].type = "execution" =>
            /\ StepOf(t, i) \in 1..Len(StepsOf(t))
            /\ StepsOf(t)[StepOf(t, i)].status = t[i].status
       /\ t[i].type = "oracle" =>
            /\ StepOf(t, i) \in 1..n
            /\ StepsOf(t)[StepOf(t, i)].oracle = t[i].verdict
  /\ \A j \in 1..n : \E i \in DOMAIN t :
       t[i].type = "oracle" /\ t[i].verdict = StepsOf(t)[j].oracle

\* Between two actions every step has one.
TraceOK(t) == TraceUpTo(t, Len(StepsOf(t)))

\* The step that an action is on a target.
StepFrom(t, from, action) ==
  LET effect == t.effects[action]
  IN [action |-> action, status |-> effect.status, pre |-> from, post |-> effect.post,
      oracle |-> BuiltIn(t.contracts[action], t.views[from], t.views[effect.next],
                         effect.status # "target_lost", effect.status, effect.alarm)]

\* A step that the target allows, and does.
Made(t, s) ==
  /\ s = StepFrom(t, s.pre, s.action)
  /\ \E c \in t.offers[s.pre] : s.action = <<s.pre, c>>
  /\ GuardAllows(t.contracts[s.action], t.views[s.pre])

\* Where a run goes on after a step: where the step led, or where its recovery did.
After(t, s) ==
  IF s.status \in {"executed", "denied"} THEN t.effects[s.action].next ELSE s.pre

PathOf(t, ss) ==
  \A j \in DOMAIN ss :
    /\ Made(t, ss[j])
    /\ ss[j].pre = IF j = 1 THEN Start ELSE After(t, ss[j - 1])

\* The steps are a path of the target, and end where the run is.
RunInv ==
  /\ actions \in Nat /\ Len(Steps) = actions /\ TraceOK(trace) /\ PathOf(target, Steps)
  /\ phase \in {"top", "select"} =>
       here = IF actions = 0 THEN Start ELSE After(target, LastStep)
  /\ phase = "judge" => actions > 0 /\ here = target.effects[LastStep.action].next

\* So are those of the recording.
RecordedInv ==
  /\ Proper(steps) /\ PathOf(recording.target, steps)
  /\ steps = << >> \/ phase \in {"top", "select", "judge", "ended", "closed"}
  /\ phase = "closed" => steps # << >>

\* The reasons for which a replay was given up.
Reasons(t) == {t[i].reason : i \in {k \in DOMAIN t : t[k].type = "divergence"}}

\* A replay that has not diverged has met the steps of the recording, up to the one
\* that is not yet judged.
AgreeInv ==
  /\ Reasons(trace) \subseteq {"none"} => \A j \in 1..actions :
       j <= Len(steps) /\ (phase = "judge" => j < actions) => Steps[j] = steps[j]
  /\ phase = "judge" /\ Repeated => LastStep.action = steps[actions].action
  /\ Reasons(trace) \subseteq {"none"} \/ (phase \in {"ended", "closed"} /\ steps # << >>)

SomeFails(ss) == \E j \in DOMAIN ss : OracleFail(ss[j].oracle)

\* A run that failed has a verdict of an oracle that failed.
FailInv ==
  /\ anyFailed => SomeFails(Steps)
  /\ /\ steps = << >> /\ phase \in {"ended", "shrink", "recorded"}
     /\ termination.outcome = "failed"
     => SomeFails(Steps)

\* A lead names steps of the recording that failed.
LeadInv ==
  /\ investigation = [lead |-> investigation.lead, status |-> investigation.status,
                      promoted |-> investigation.promoted]
  /\ investigation.status \in {"none", "pending"} \/ phase = "closed"
  /\ steps = << >> /\ phase # "recorded" => investigation.lead = None
  /\ phase # "recorded" /\ investigation.lead # None =>
       \A n \in investigation.lead.sources : n \in DOMAIN steps /\ Failing(steps[n])

\* What was reproduced was met again, and the same target gives no reason to
\* give a replay up.
VerdictInv ==
  /\ investigation.status = "reproduced" =>
       /\ \E i \in DOMAIN steps : Failing(steps[i]) /\ i <= actions
       /\ \A j \in 1..actions : j <= Len(steps) => Steps[j] = steps[j]
  /\ target = recording.target => Reasons(trace) \subseteq {"none"}

\* No part of the size under way that was tried can go.
ShrinkInv ==
  /\ shrink = [current |-> shrink.current, chunk |-> shrink.chunk, from |-> shrink.from,
               tries |-> shrink.tries]
  /\ phase = "shrink" =>
       /\ Proper(shrink.current) /\ shrink.chunk \in Nat /\ shrink.from \in Nat \ {0}
       /\ Reproduces(target, shrink.current, Goal) \/ shrink.current = Sequence
       /\ \A i \in DOMAIN shrink.current :
            shrink.chunk = 0 \/ (shrink.chunk = 1 /\ i < shrink.from) =>
              LET rest == Without(shrink.current, i, 1)
              IN rest # << >> => ~Reproduces(target, rest, Goal)

GuidedIInv ==
  /\ RunInv /\ RecordedInv /\ AgreeInv /\ FailInv /\ LeadInv /\ VerdictInv
  /\ ShrinkInv
-----------------------------------------------------------------------------
(* Sequences, and the steps of a trace.                                    *)

\* Every set of numbers that is not empty has a least one.
LEMMA LeastIndex ==
  ASSUME NEW T \in SUBSET Nat, T # {}
  PROVE  \E m \in T : \A j \in T : m <= j
<1>1. IsWellFoundedOn(OpToRel(<, Nat), Nat)
  BY NatLessThanWellFounded
<1>2. PICK m \in T : \A j \in T : ~(<<j, m>> \in OpToRel(<, Nat))
  BY <1>1, WFMin
<1>3. \A j \in T : ~(j < m)
  BY <1>2 DEF OpToRel
<1> QED BY <1>3

LEMMA ProperOf ==
  ASSUME NEW S, NEW t \in Seq(S)
  PROVE  Proper(t)
<1>1. t \in [1..Len(t) -> S] /\ Len(t) \in Nat
  BY LenProperties
<1>2. t \in [1..Len(t) -> {t[i] : i \in DOMAIN t}]
  BY <1>1
<1> QED BY <1>1, <1>2, SeqDef DEF Proper

LEMMA ProperLen ==
  ASSUME NEW t, Proper(t)
  PROVE  Len(t) \in Nat /\ DOMAIN t = 1..Len(t)
  BY LenProperties DEF Proper

LEMMA ProperAppend ==
  ASSUME NEW t, Proper(t), NEW e
  PROVE  /\ Proper(Append(t, e)) /\ Len(Append(t, e)) = Len(t) + 1
         /\ DOMAIN Append(t, e) = 1..(Len(t) + 1)
         /\ \A i \in 1..Len(t) : Append(t, e)[i] = t[i]
         /\ Append(t, e)[Len(t) + 1] = e
<1> DEFINE R == {t[i] : i \in DOMAIN t} \cup {e}
<1>1. t \in Seq(R)
  BY SeqMonotonic DEF Proper
<1> HIDE DEF R
<1>2. e \in R
  BY DEF R
<1>3. Append(t, e) \in Seq(R) /\ Len(t) \in Nat
  BY <1>1, <1>2
<1>4. Proper(Append(t, e))
  BY <1>3, ProperOf
<1> QED BY <1>1, <1>2, <1>3, <1>4, LenProperties

Replaced(t, i, e) == [t EXCEPT ![i] = e]

LEMMA ProperReplaced ==
  ASSUME NEW t, Proper(t), NEW i \in 1..Len(t), NEW e
  PROVE  /\ Proper(Replaced(t, i, e)) /\ Len(Replaced(t, i, e)) = Len(t)
         /\ \A j \in 1..Len(t) : Replaced(t, i, e)[j] = IF j = i THEN e ELSE t[j]
<1> DEFINE R == {t[j] : j \in DOMAIN t} \cup {e}
           u == Replaced(t, i, e)
<1>1. t \in Seq(R)
  BY SeqMonotonic DEF Proper
<1> HIDE DEF R
<1>2. e \in R
  BY DEF R
<1>3. u \in Seq(R)
  BY <1>1, <1>2, ExceptSeq DEF Replaced
<1>4. Proper(u)
  BY <1>3, ProperOf
<1> QED BY <1>1, <1>2, <1>4, ExceptSeq DEF Replaced

\* Appending by concatenation.
LEMMA ConcatOne ==
  ASSUME NEW t, Proper(t), NEW e
  PROVE  t \o <<e>> = Append(t, e) /\ t \o << >> = t
<1> DEFINE R == {t[j] : j \in DOMAIN t} \cup {e}
<1>1. t \in Seq(R) /\ e \in R
  BY SeqMonotonic DEF Proper
<1> HIDE DEF R
<1> QED BY <1>1, AppendIsConcat, ConcatEmptySeq

LEMMA ProperEqual ==
  ASSUME NEW t, NEW u, Proper(t), Proper(u), Len(t) = Len(u),
         \A i \in 1..Len(t) : t[i] = u[i]
  PROVE  t = u
<1> DEFINE R == {t[j] : j \in DOMAIN t} \cup {u[j] : j \in DOMAIN u}
<1>1. t \in Seq(R) /\ u \in Seq(R)
  BY SeqMonotonic DEF Proper
<1> HIDE DEF R
<1> QED BY <1>1, SeqEqual

LEMMA EmptyProper == Proper(<< >>) /\ Len(<< >>) = 0
  BY EmptySeq, ProperOf

\* A trace is read in one way.
LEMMA OneBuild ==
  ASSUME NEW t, Proper(t), NEW f, NEW g, Builds(f, t), Builds(g, t)
  PROVE  f = g
<1> DEFINE D == {n \in 0..Len(t) : f[n] # g[n]}
<1>1. Len(t) \in Nat
  BY ProperLen
<1>2. /\ f[0] = << >> /\ g[0] = << >>
      /\ \A n \in 1..Len(t) : f[n] = WithEntry(f[n - 1], t[n])
         /\ g[n] = WithEntry(g[n - 1], t[n])
  <2>1. \A n \in 0..Len(t) : f[n] = IF n = 0 THEN << >> ELSE WithEntry(f[n - 1], t[n])
    BY DEF Builds
  <2>2. \A n \in 0..Len(t) : g[n] = IF n = 0 THEN << >> ELSE WithEntry(g[n - 1], t[n])
    BY DEF Builds
  <2> QED BY <1>1, <2>1, <2>2
<1>3. D = {}
  <2> SUFFICES ASSUME D # {} PROVE FALSE
    OBVIOUS
  <2>1. D \in SUBSET Nat
    BY <1>1
  <2>2. PICK m \in D : \A j \in D : m <= j
    <3> HIDE DEF D
    <3> QED BY <2>1, LeastIndex
  <2>3. m \in 1..Len(t) /\ m - 1 \in 0..Len(t)
    BY <1>1, <1>2
  <2>4. f[m - 1] = g[m - 1]
    BY <2>2, <2>3
  <2>5. f[m] = g[m]
    BY <1>2, <2>3, <2>4
  <2> QED BY <2>2, <2>5
<1>4. \A n \in 0..Len(t) : f[n] = g[n]
  BY <1>3
<1>5. f = [n \in 0..Len(t) |-> f[n]] /\ g = [n \in 0..Len(t) |-> g[n]]
  BY DEF Builds
<1> QED BY <1>4, <1>5

LEMMA StepsAre ==
  ASSUME NEW t, Proper(t), NEW f, Builds(f, t)
  PROVE  StepsOf(t) = f[Len(t)]
<1> DEFINE b == CHOOSE g : Builds(g, t)
<1>1. Builds(b, t)
  OBVIOUS
<1> HIDE DEF b
<1>2. b = f
  BY <1>1, OneBuild
<1>3. StepsOf(t) = b[Len(t)]
  BY DEF StepsOf, Builds, b
<1> QED BY <1>2, <1>3

\* The empty trace has no steps.
LEMMA NoSteps == (\E f : Builds(f, << >>)) /\ StepsOf(<< >>) = << >>
<1> DEFINE f == [n \in 0..0 |-> << >>]
<1>1. Builds(f, << >>)
  <2>1. f = [n \in 0..0 |-> IF n = 0 THEN << >> ELSE WithEntry(f[n - 1], << >>[n])]
    OBVIOUS
  <2> QED BY <2>1, EmptyProper DEF Builds
<1>2. f[0] = << >>
  OBVIOUS
<1> HIDE DEF f
<1> QED BY <1>1, <1>2, EmptyProper, StepsAre

\* One entry more is read after the others.
LEMMA StepsAppended ==
  ASSUME NEW t, Proper(t), \E f : Builds(f, t), NEW e
  PROVE  /\ \E f : Builds(f, Append(t, e))
         /\ StepsOf(Append(t, e)) = WithEntry(StepsOf(t), e)
<1>1. PICK f : Builds(f, t)
  OBVIOUS
<1> DEFINE n == Len(t)
           u == Append(t, e)
           g == [k \in 0..(n + 1) |-> IF k <= n THEN f[k] ELSE WithEntry(f[n], e)]
<1>2. /\ Proper(u) /\ n \in Nat /\ Len(u) = n + 1 /\ u[n + 1] = e
      /\ \A k \in 1..n : u[k] = t[k]
  BY ProperLen, ProperAppend
<1> HIDE DEF u
<1>3. f[0] = << >> /\ \A k \in 1..n : f[k] = WithEntry(f[k - 1], t[k])
  BY <1>1, <1>2 DEF Builds
<1>4. \A k \in 0..(n + 1) :
        g[k] = IF k = 0 THEN << >> ELSE WithEntry(g[k - 1], u[k])
  <2> TAKE k \in 0..(n + 1)
  <2>1. CASE k = 0
    BY <1>2, <1>3, <2>1
  <2>2. CASE k \in 1..n
    BY <1>2, <1>3, <2>2
  <2>3. CASE k = n + 1
    BY <1>2, <2>3
  <2> QED BY <1>2, <2>1, <2>2, <2>3
<1>5. Builds(g, u)
  <2>1. g = [k \in 0..(n + 1) |-> g[k]]
    OBVIOUS
  <2> HIDE DEF g
  <2> QED BY <1>2, <1>4, <2>1 DEF Builds
<1>6. StepsOf(t) = f[n]
  BY <1>1, StepsAre
<1>7. StepsOf(u) = g[n + 1]
  <2> HIDE DEF g
  <2> QED BY <1>2, <1>5, StepsAre
<1>8. g[n + 1] = WithEntry(f[n], e)
  BY <1>2
<1> QED BY <1>5, <1>6, <1>7, <1>8 DEF u

\* The number of the step of an entry stays as the trace grows.
LEMMA StepOfAppended ==
  ASSUME NEW t, Proper(t), NEW e
  PROVE  /\ \A i \in 0..Len(t) : StepOf(Append(t, e), i) = StepOf(t, i)
         /\ StepOf(Append(t, e), Len(t) + 1) =
              IF e.type = "execution" THEN StepOf(t, Len(t)) + 1 ELSE StepOf(t, Len(t))
<1> DEFINE u == Append(t, e)
           n == Len(t)
           E(s, i) == {j \in 1..i : s[j].type = "execution"}
<1>1. n \in Nat /\ u[n + 1] = e /\ \A k \in 1..n : u[k] = t[k]
  BY ProperLen, ProperAppend
<1> HIDE DEF u
<1>2. \A i \in 0..n : E(u, i) = E(t, i)
  BY <1>1
<1>3. E(u, n + 1) = IF e.type = "execution" THEN E(t, n) \cup {n + 1} ELSE E(t, n)
  BY <1>1
<1>4. IsFiniteSet(E(t, n)) /\ n + 1 \notin E(t, n)
  <2>1. IsFiniteSet(1..n) /\ E(t, n) \subseteq 1..n
    BY <1>1, FS_Interval
  <2>2. IsFiniteSet(E(t, n))
    BY <2>1, FS_Subset
  <2> QED BY <1>1, <2>2
<1>5. Cardinality(E(t, n) \cup {n + 1}) = Cardinality(E(t, n)) + 1
  <2> HIDE DEF E
  <2> QED BY <1>4, FS_AddElement
<1>6. \A i \in 0..n : StepOf(u, i) = StepOf(t, i)
  BY <1>2 DEF StepOf
<1>7. StepOf(u, n + 1) = Cardinality(E(u, n + 1)) /\ StepOf(t, n) = Cardinality(E(t, n))
  BY DEF StepOf
<1> QED
  <2> HIDE DEF E
  <2> QED BY <1>3, <1>5, <1>6, <1>7 DEF u

\* An entry that is about no step.
LEMMA OtherEntry ==
  ASSUME NEW t, NEW n, TraceUpTo(t, n), NEW e, e.type \notin {"execution", "oracle"}
  PROVE  TraceUpTo(Append(t, e), n) /\ StepsOf(Append(t, e)) = StepsOf(t)
<1> DEFINE u == Append(t, e)
           ss == StepsOf(t)
           m == Len(t)
<1>1. /\ Proper(u) /\ m \in Nat /\ Len(u) = m + 1 /\ u[m + 1] = e
      /\ DOMAIN u = 1..(m + 1) /\ DOMAIN t = 1..m /\ \A k \in 1..m : u[k] = t[k]
  BY ProperLen, ProperAppend DEF TraceUpTo
<1>2. StepsOf(u) = ss /\ \E f : Builds(f, u)
  BY StepsAppended DEF TraceUpTo, WithEntry
<1>3. (\A i \in 1..m : StepOf(u, i) = StepOf(t, i)) /\ StepOf(u, m + 1) = StepOf(t, m)
  BY <1>1, StepOfAppended DEF TraceUpTo
<1> HIDE DEF u
<1>4. StepOf(u, Len(u)) = Len(ss)
  BY <1>1, <1>3 DEF TraceUpTo
<1>5. ASSUME NEW i \in DOMAIN u
      PROVE  /\ u[i].type = "execution" =>
                  /\ StepOf(u, i) \in 1..Len(ss) /\ ss[StepOf(u, i)].status = u[i].status
             /\ u[i].type = "oracle" =>
                  /\ StepOf(u, i) \in 1..n /\ ss[StepOf(u, i)].oracle = u[i].verdict
  <2>1. CASE i \in 1..m
    BY <1>1, <1>3, <2>1 DEF TraceUpTo
  <2>2. CASE i = m + 1
    BY <1>1, <2>2
  <2> QED BY <1>1, <1>5, <2>1, <2>2
<1>6. ASSUME NEW j \in 1..n
      PROVE  \E i \in DOMAIN u : u[i].type = "oracle" /\ u[i].verdict = ss[j].oracle
  <2>1. PICK i \in DOMAIN t : t[i].type = "oracle" /\ t[i].verdict = ss[j].oracle
    BY DEF TraceUpTo
  <2> QED BY <1>1, <2>1
<1>7. TraceUpTo(u, n)
  BY <1>1, <1>2, <1>4, <1>5, <1>6 DEF TraceUpTo
<1> QED BY <1>2, <1>7 DEF u

\* An execution begins a step.
LEMMA ExecutionEntry ==
  ASSUME NEW t, TraceOK(t), NEW e, e.type = "execution"
  PROVE  /\ TraceUpTo(Append(t, e), Len(StepsOf(t)))
         /\ StepsOf(Append(t, e)) =
              Append(StepsOf(t), [action |-> e.action, status |-> e.status, pre |-> e.pre,
                                  post |-> e.post, oracle |-> None])
<1> DEFINE u == Append(t, e)
           ss == StepsOf(t)
           s == [action |-> e.action, status |-> e.status, pre |-> e.pre,
                 post |-> e.post, oracle |-> None]
           su == Append(ss, s)
           m == Len(t)
           n == Len(ss)
<1>0. TraceUpTo(t, n)
  BY DEF TraceOK
<1>1. /\ Proper(u) /\ m \in Nat /\ Len(u) = m + 1 /\ u[m + 1] = e
      /\ DOMAIN u = 1..(m + 1) /\ DOMAIN t = 1..m /\ \A k \in 1..m : u[k] = t[k]
  BY <1>0, ProperLen, ProperAppend DEF TraceUpTo
<1>2. StepsOf(u) = su /\ \E f : Builds(f, u)
  BY <1>0, StepsAppended DEF TraceUpTo, WithEntry
<1>3. (\A i \in 1..m : StepOf(u, i) = StepOf(t, i)) /\ StepOf(u, m + 1) = n + 1
  BY <1>0, <1>1, StepOfAppended DEF TraceUpTo
<1>3a. s.status = e.status
  OBVIOUS
<1> HIDE DEF u, s
<1>4. /\ Proper(su) /\ n \in Nat /\ Len(su) = n + 1 /\ su[n + 1] = s
      /\ \A k \in 1..n : su[k] = ss[k]
  BY <1>0, ProperLen, ProperAppend DEF TraceUpTo
<1> HIDE DEF su
<1>5. ASSUME NEW i \in DOMAIN u
      PROVE  /\ u[i].type = "execution" =>
                  /\ StepOf(u, i) \in 1..Len(su) /\ su[StepOf(u, i)].status = u[i].status
             /\ u[i].type = "oracle" =>
                  /\ StepOf(u, i) \in 1..n /\ su[StepOf(u, i)].oracle = u[i].verdict
  <2>1. CASE i \in 1..m
    BY <1>0, <1>1, <1>3, <1>4, <2>1 DEF TraceUpTo
  <2>2. CASE i = m + 1
    BY <1>1, <1>3, <1>3a, <1>4, <2>2
  <2> QED BY <1>1, <1>5, <2>1, <2>2
<1>6. ASSUME NEW j \in 1..n
      PROVE  \E i \in DOMAIN u : u[i].type = "oracle" /\ u[i].verdict = su[j].oracle
  <2>1. PICK i \in DOMAIN t : t[i].type = "oracle" /\ t[i].verdict = ss[j].oracle
    BY <1>0 DEF TraceUpTo
  <2> QED BY <1>1, <1>4, <2>1
<1>7. TraceUpTo(u, n)
  BY <1>1, <1>2, <1>3, <1>4, <1>5, <1>6 DEF TraceUpTo
<1> QED BY <1>2, <1>7 DEF u, su, s

IsStep(s) ==
  s = [action |-> s.action, status |-> s.status, pre |-> s.pre, post |-> s.post,
       oracle |-> s.oracle]

Judged(s, v) ==
  [action |-> s.action, status |-> s.status, pre |-> s.pre, post |-> s.post,
   oracle |-> v]

\* A verdict completes the step begun last.
LEMMA OracleEntry ==
  ASSUME NEW t, NEW n, TraceUpTo(t, n), Len(StepsOf(t)) = n + 1, NEW e, e.type = "oracle",
         IsStep(StepsOf(t)[n + 1])
  PROVE  /\ TraceOK(Append(t, e))
         /\ StepsOf(Append(t, e)) =
              Replaced(StepsOf(t), n + 1, Judged(StepsOf(t)[n + 1], e.verdict))
<1> DEFINE u == Append(t, e)
           ss == StepsOf(t)
           s == ss[n + 1]
           r == [action |-> s.action, status |-> s.status, pre |-> s.pre,
                 post |-> s.post, oracle |-> e.verdict]
           su == [ss EXCEPT ![n + 1] = r]
           m == Len(t)
<1>1. /\ Proper(u) /\ m \in Nat /\ Len(u) = m + 1 /\ u[m + 1] = e
      /\ DOMAIN u = 1..(m + 1) /\ DOMAIN t = 1..m /\ \A k \in 1..m : u[k] = t[k]
  BY ProperLen, ProperAppend DEF TraceUpTo
<1>1a. n \in Nat
  BY ProperLen DEF TraceUpTo
<1>2. StepsOf(u) = WithEntry(ss, e) /\ \E f : Builds(f, u)
  BY StepsAppended DEF TraceUpTo
<1>2a. WithEntry(ss, e) = [ss EXCEPT ![n + 1].oracle = e.verdict]
  BY DEF WithEntry
<1>2b. [s EXCEPT !.oracle = e.verdict] = r
  BY DEF IsStep
<1>2c. [ss EXCEPT ![n + 1].oracle = e.verdict] = [ss EXCEPT ![n + 1] = [s EXCEPT !.oracle = e.verdict]]
  OBVIOUS
<1>2d. StepsOf(u) = su
  BY <1>2, <1>2a, <1>2b, <1>2c
<1>3. (\A i \in 1..m : StepOf(u, i) = StepOf(t, i)) /\ StepOf(u, m + 1) = n + 1
  BY <1>1, StepOfAppended DEF TraceUpTo
<1>3a. r.status = s.status /\ r.oracle = e.verdict
  OBVIOUS
<1> HIDE DEF u, r
<1>4. /\ Proper(su) /\ Len(su) = n + 1 /\ \A k \in 1..(n + 1) : su[k] = IF k = n + 1 THEN r ELSE ss[k]
  <2>1. Proper(ss) /\ n + 1 \in 1..Len(ss) /\ Len(ss) = n + 1
    BY <1>1a DEF TraceUpTo
  <2> HIDE DEF ss
  <2>2. su = Replaced(ss, n + 1, r)
    BY DEF Replaced
  <2> QED BY <2>1, <2>2, ProperReplaced
<1> HIDE DEF su
<1>5. ASSUME NEW i \in DOMAIN u
      PROVE  /\ u[i].type = "execution" =>
                  /\ StepOf(u, i) \in 1..Len(su) /\ su[StepOf(u, i)].status = u[i].status
             /\ u[i].type = "oracle" =>
                  /\ StepOf(u, i) \in 1..(n + 1) /\ su[StepOf(u, i)].oracle = u[i].verdict
  <2>1. ASSUME i \in 1..m, u[i].type = "execution"
        PROVE  StepOf(u, i) \in 1..Len(su) /\ su[StepOf(u, i)].status = u[i].status
    <3>1. StepOf(u, i) \in 1..(n + 1) /\ ss[StepOf(u, i)].status = u[i].status
      BY <1>1, <1>3, <2>1 DEF TraceUpTo
    <3> QED BY <1>3a, <1>4, <3>1
  <2>2. ASSUME i \in 1..m, u[i].type = "oracle"
        PROVE  StepOf(u, i) \in 1..(n + 1) /\ su[StepOf(u, i)].oracle = u[i].verdict
    <3>1. StepOf(u, i) \in 1..n /\ ss[StepOf(u, i)].oracle = u[i].verdict
      BY <1>1, <1>3, <2>2 DEF TraceUpTo
    <3> QED BY <1>1a, <1>4, <3>1
  <2>3. CASE i = m + 1
    BY <1>1, <1>1a, <1>3, <1>3a, <1>4, <2>3
  <2>4. i \in 1..m \/ i = m + 1
    BY <1>1, <1>5
  <2> QED BY <2>1, <2>2, <2>3, <2>4
<1>6. ASSUME NEW j \in 1..(n + 1)
      PROVE  \E i \in DOMAIN u : u[i].type = "oracle" /\ u[i].verdict = su[j].oracle
  <2>1. CASE j \in 1..n
    <3>1. PICK i \in DOMAIN t : t[i].type = "oracle" /\ t[i].verdict = ss[j].oracle
      BY <2>1 DEF TraceUpTo
    <3>2. i \in DOMAIN u /\ u[i] = t[i] /\ su[j] = ss[j]
      BY <1>1, <1>1a, <1>4, <2>1
    <3> QED BY <3>1, <3>2
  <2>2. CASE j = n + 1
    BY <1>1, <1>1a, <1>3a, <1>4, <2>2
  <2> QED BY <1>1a, <2>1, <2>2
<1>7. TraceUpTo(u, n + 1)
  BY <1>1, <1>1a, <1>2, <1>2d, <1>3, <1>4, <1>5, <1>6 DEF TraceUpTo
<1> QED BY <1>2d, <1>4, <1>7 DEF u, su, r, TraceOK, Replaced, Judged

-----------------------------------------------------------------------------
(* What the entries of an action add to the trace.                         *)

LEMMA ReasonsAppended ==
  ASSUME NEW t, Proper(t), NEW e
  PROVE  /\ e.type # "divergence" => Reasons(Append(t, e)) = Reasons(t)
         /\ e.type = "divergence" => Reasons(Append(t, e)) = Reasons(t) \cup {e.reason}
<1> DEFINE u == Append(t, e)
           m == Len(t)
<1>1. /\ m \in Nat /\ u[m + 1] = e /\ DOMAIN u = 1..(m + 1) /\ DOMAIN t = 1..m
      /\ \A k \in 1..m : u[k] = t[k]
  BY ProperLen, ProperAppend
<1> HIDE DEF u
<1>2. ASSUME NEW r \in Reasons(u)
      PROVE  r \in Reasons(t) \cup (IF e.type = "divergence" THEN {e.reason} ELSE {})
  <2>1. PICK i \in DOMAIN u : u[i].type = "divergence" /\ u[i].reason = r
    BY <1>2 DEF Reasons
  <2>2. CASE i = m + 1
    BY <1>1, <2>1, <2>2
  <2>3. CASE i \in DOMAIN t
    BY <1>1, <2>1, <2>3 DEF Reasons
  <2> QED BY <1>1, <2>1, <2>2, <2>3
<1>3. Reasons(t) \subseteq Reasons(u)
  BY <1>1 DEF Reasons
<1>4. e.type = "divergence" => e.reason \in Reasons(u)
  BY <1>1 DEF Reasons
<1> QED BY <1>2, <1>3, <1>4 DEF u

LEMMA NoReasons == Reasons(<< >>) = {}
  BY EmptyProper, ProperLen DEF Reasons

\* Entries that are about no step and no divergence: the steps stay.
LEMMA QuietEntry ==
  ASSUME NEW t, TraceOK(t), NEW e, e.type \notin {"execution", "oracle"}
  PROVE  /\ TraceOK(Append(t, e)) /\ StepsOf(Append(t, e)) = StepsOf(t)
         /\ e.type # "divergence" => Reasons(Append(t, e)) = Reasons(t)
         /\ e.type = "divergence" => Reasons(Append(t, e)) = Reasons(t) \cup {e.reason}
<1>1. TraceUpTo(t, Len(StepsOf(t))) /\ Proper(t)
  BY DEF TraceOK, TraceUpTo
<1>2. TraceUpTo(Append(t, e), Len(StepsOf(t))) /\ StepsOf(Append(t, e)) = StepsOf(t)
  BY <1>1, OtherEntry
<1>3. TraceOK(Append(t, e))
  BY <1>2 DEF TraceOK
<1> QED BY <1>1, <1>2, <1>3, ReasonsAppended

\* The entries of an action: an execution, an observation or none, the verdict.
Played(t, x, w, y) == ((t \o <<x>>) \o w) \o <<y>>

LEMMA PerformedEntries ==
  ASSUME NEW t, TraceOK(t), NEW x, x.type = "execution", NEW y, y.type = "oracle",
         NEW w, w = << >> \/ \E o : o.type = "observation" /\ w = <<o>>
  PROVE  /\ TraceOK(Played(t, x, w, y))
         /\ StepsOf(Played(t, x, w, y)) =
              Append(StepsOf(t), [action |-> x.action, status |-> x.status, pre |-> x.pre,
                                  post |-> x.post, oracle |-> y.verdict])
         /\ Reasons(Played(t, x, w, y)) = Reasons(t)
<1> DEFINE ss == StepsOf(t)
           n == Len(ss)
           s == [action |-> x.action, status |-> x.status, pre |-> x.pre,
                 post |-> x.post, oracle |-> None]
           r == [action |-> x.action, status |-> x.status, pre |-> x.pre,
                 post |-> x.post, oracle |-> y.verdict]
           t1 == Append(t, x)
           t2 == t1 \o w
           t3 == Append(t2, y)
<1>0. Proper(t) /\ Proper(ss) /\ n \in Nat
  BY ProperLen DEF TraceOK, TraceUpTo
<1>1. t \o <<x>> = t1 /\ Proper(t1) /\ Reasons(t1) = Reasons(t)
  BY <1>0, ConcatOne, ProperAppend, ReasonsAppended
<1>2. TraceUpTo(t1, n) /\ StepsOf(t1) = Append(ss, s)
  BY ExecutionEntry
<1> HIDE DEF t1
<1>3. TraceUpTo(t2, n) /\ StepsOf(t2) = Append(ss, s) /\ Proper(t2) /\ Reasons(t2) = Reasons(t)
  <2>1. CASE w = << >>
    BY <1>1, <1>2, <2>1, ConcatOne
  <2>2. CASE w # << >>
    <3>0. PICK o : o.type = "observation" /\ w = <<o>>
      BY <2>2
    <3>1. t2 = Append(t1, o)
      BY <1>1, <3>0, ConcatOne
    <3>2. TraceUpTo(Append(t1, o), n) /\ StepsOf(Append(t1, o)) = StepsOf(t1)
      BY <1>2, <3>0, OtherEntry
    <3>3. Proper(Append(t1, o)) /\ Reasons(Append(t1, o)) = Reasons(t1)
      BY <1>1, <3>0, ProperAppend, ReasonsAppended
    <3> QED BY <1>1, <1>2, <3>1, <3>2, <3>3
  <2> QED BY <2>1, <2>2
<1>4. t2 \o <<y>> = t3 /\ Reasons(t3) = Reasons(t)
  BY <1>3, ConcatOne, ReasonsAppended
<1> HIDE DEF t2
<1>5. /\ Proper(Append(ss, s)) /\ Len(Append(ss, s)) = n + 1 /\ Append(ss, s)[n + 1] = s
      /\ \A k \in 1..n : Append(ss, s)[k] = ss[k]
  BY <1>0, ProperAppend
<1>6. IsStep(s) /\ Judged(s, y.verdict) = r
  BY DEF IsStep, Judged
<1> HIDE DEF s, r
<1> DEFINE a == Append(ss, s)
           c == Append(ss, r)
<1>7. /\ Proper(c) /\ Len(c) = n + 1 /\ c[n + 1] = r /\ \A k \in 1..n : c[k] = ss[k]
  BY <1>0, ProperAppend
<1>7a. StepsOf(t2) = a /\ Proper(a) /\ Len(a) = n + 1 /\ a[n + 1] = s
       /\ \A k \in 1..n : a[k] = ss[k]
  BY <1>3, <1>5
<1> HIDE DEF a, c
<1>8. TraceOK(t3) /\ StepsOf(t3) = Replaced(a, n + 1, r)
  <2>1. Len(StepsOf(t2)) = n + 1 /\ IsStep(StepsOf(t2)[n + 1])
    BY <1>6, <1>7a
  <2>2. TraceOK(t3) /\ StepsOf(t3) = Replaced(StepsOf(t2), n + 1, Judged(StepsOf(t2)[n + 1], y.verdict))
    BY <1>3, <2>1, OracleEntry
  <2> QED BY <1>6, <1>7a, <2>2
<1>9. Replaced(a, n + 1, r) = c
  <2> DEFINE d == Replaced(a, n + 1, r)
  <2>1. n + 1 \in 1..Len(a)
    BY <1>0, <1>7a
  <2>2. Proper(d) /\ Len(d) = Len(a) /\ \A k \in 1..Len(a) : d[k] = IF k = n + 1 THEN r ELSE a[k]
    BY <1>7a, <2>1, ProperReplaced
  <2> HIDE DEF d
  <2>3. \A k \in 1..(n + 1) : d[k] = c[k]
    BY <1>0, <1>7, <1>7a, <2>2
  <2> QED BY <1>7, <1>7a, <2>2, <2>3, ProperEqual DEF d
<1> QED BY <1>1, <1>4, <1>8, <1>9 DEF t1, t2, c, r, Played

-----------------------------------------------------------------------------
(* The steps of the loop.                                                  *)

LEMMA MadeIsStep ==
  ASSUME NEW t, NEW s, Made(t, s)
  PROVE  IsStep(s)
  BY DEF Made, StepFrom, IsStep

\* A step is at least as long as what it is to be compared with.
LEMMA StepTypes ==
  ASSUME RunInv, RecordedInv
  PROVE  /\ actions \in Nat /\ Len(Steps) = actions /\ DOMAIN Steps = 1..actions
         /\ Len(steps) \in Nat /\ DOMAIN steps = 1..Len(steps) /\ Proper(trace)
         /\ Proper(Steps) /\ Proper(steps)
  BY ProperLen DEF RunInv, RecordedInv, TraceOK, TraceUpTo, Steps

LEMMA Same ==
  ASSUME NEW s, NEW r, IsStep(s), IsStep(r), s.action = r.action,
         Divergence(s, r) = "none"
  PROVE  r = s
<1>1. s.status = r.status /\ s.pre = r.pre /\ s.post = r.post /\ s.oracle = r.oracle
  BY DEF Divergence
<1> QED BY <1>1 DEF IsStep

\* A step that was judged without a difference is the recorded one.
LEMMA JudgedAgree ==
  ASSUME RunInv, RecordedInv, AgreeInv, phase = "judge",
         Repeated => Divergence(steps[actions], LastStep) = "none"
  PROVE  \A j \in 1..actions : j <= Len(steps) => Steps[j] = steps[j]
<1> SUFFICES ASSUME NEW j \in 1..actions, j <= Len(steps)
             PROVE  Steps[j] = steps[j]
  OBVIOUS
<1>0. actions \in Nat /\ Len(steps) \in Nat /\ DOMAIN steps = 1..Len(steps)
      /\ DOMAIN Steps = 1..actions
  BY StepTypes
<1>1. CASE j < actions
  BY <1>1 DEF AgreeInv
<1>2. CASE j = actions
  <2>1. Repeated /\ j \in DOMAIN Steps /\ j \in DOMAIN steps
    BY <1>0, <1>2 DEF Repeated
  <2>2. Made(target, LastStep) /\ Made(recording.target, steps[actions])
    BY <1>2, <2>1 DEF RunInv, RecordedInv, PathOf, LastStep
  <2>3. IsStep(LastStep) /\ IsStep(steps[actions])
    BY <2>2, MadeIsStep
  <2>4. LastStep.action = steps[actions].action
    BY <2>1 DEF AgreeInv
  <2>5. LastStep = steps[actions]
    BY <2>1, <2>3, <2>4, Same
  <2> QED BY <1>2, <2>5 DEF LastStep
<1> QED BY <1>0, <1>1, <1>2

\* A step of the loop that adds no step to the trace, or ends it.
LEMMA LoopStep ==
  ASSUME GuidedIInv, phase \in {"top", "select", "judge"},
         phase' \in {"top", "select", "ended"},
         TraceOK(trace'), StepsOf(trace') = StepsOf(trace), Reasons(trace') = Reasons(trace),
         UNCHANGED <<target, actions, recording, shrink, investigation>>,
         phase' # "ended" => here' = IF actions = 0 THEN Start ELSE After(target, LastStep),
         phase = "judge" => Agrees,
         anyFailed' => SomeFails(Steps),
         phase' = "ended" /\ steps = << >> /\ termination'.outcome = "failed"
           => SomeFails(Steps)
  PROVE  GuidedIInv'
<1>0. RunInv /\ RecordedInv /\ AgreeInv /\ FailInv /\ LeadInv /\ VerdictInv /\ ShrinkInv
  BY DEF GuidedIInv
<1>1. Steps' = Steps /\ steps' = steps /\ LastStep' = LastStep
  BY DEF Steps, steps, LastStep
<1>2. RunInv'
  BY <1>0, <1>1 DEF RunInv
<1>3. RecordedInv'
  BY <1>0, <1>1 DEF RecordedInv
<1>4. AgreeInv'
  <2>1. \A j \in 1..actions : j <= Len(steps) => Steps[j] = steps[j]
    <3>1. CASE phase = "judge"
      BY <1>0, <3>1, JudgedAgree DEF Agrees
    <3>2. CASE phase # "judge"
      BY <1>0, <3>2 DEF AgreeInv
    <3> QED BY <3>1, <3>2
  <2> QED BY <1>0, <1>1, <2>1 DEF AgreeInv
<1>5. FailInv'
  BY <1>0, <1>1 DEF FailInv
<1>6. LeadInv'
  BY <1>0, <1>1 DEF LeadInv
<1>7. VerdictInv'
  BY <1>0, <1>1 DEF VerdictInv
<1>8. ShrinkInv'
  BY <1>0, <1>1 DEF ShrinkInv
<1> QED BY <1>2, <1>3, <1>4, <1>5, <1>6, <1>7, <1>8 DEF GuidedIInv

\* An action that was offered and is allowed, the recorded one while there is one.
LEMMA Performed ==
  ASSUME TraceOK(trace), NEW action, Perform(action)
  PROVE  /\ TraceOK(trace') /\ Reasons(trace') = Reasons(trace)
         /\ StepsOf(trace') = Append(StepsOf(trace), StepFrom(target, here, action))
         /\ here' = target.effects[action].next /\ actions' = actions + 1
         /\ phase' = "judge"
         /\ UNCHANGED <<target, recording, shrink, investigation, anyFailed>>
<1> DEFINE effect == target.effects[action]
           n == actions + 1
           there == effect.status # "target_lost"
           x == [type |-> "execution", action |-> action, status |-> effect.status,
                 pre |-> here, post |-> effect.post, at |-> n]
           o == Observed(effect.next, {}, n)
           w == IF there THEN <<o>> ELSE << >>
           v == BuiltIn(target.contracts[action], target.views[here],
                        target.views[effect.next], there, effect.status, effect.alarm)
           y == [type |-> "oracle", verdict |-> v]
<1>1. /\ trace' = ((trace \o <<x>>) \o w) \o <<y>>
      /\ here' = effect.next /\ actions' = actions + 1 /\ phase' = "judge"
      /\ UNCHANGED <<target, recording, shrink, investigation, anyFailed>>
  BY DEF Perform
<1>2. /\ x.type = "execution" /\ x.action = action /\ x.status = effect.status
      /\ x.pre = here /\ x.post = effect.post
  OBVIOUS
<1>3. y.type = "oracle" /\ y.verdict = v /\ o.type = "observation"
  BY DEF Observed
<1>4. w = << >> \/ w = <<o>>
  OBVIOUS
<1>5. StepFrom(target, here, action) =
        [action |-> action, status |-> effect.status, pre |-> here, post |-> effect.post,
         oracle |-> v]
  BY DEF StepFrom
<1> HIDE DEF x, y, o, w, v, effect
<1>6. /\ TraceOK(trace') /\ Reasons(trace') = Reasons(trace)
      /\ StepsOf(trace') = Append(StepsOf(trace), StepFrom(target, here, action))
  <2> DEFINE u == Played(trace, x, w, y)
             s == [action |-> x.action, status |-> x.status, pre |-> x.pre,
                   post |-> x.post, oracle |-> y.verdict]
  <2>1. TraceOK(u) /\ Reasons(u) = Reasons(trace) /\ StepsOf(u) = Append(StepsOf(trace), s)
    BY <1>2, <1>3, <1>4, PerformedEntries
  <2>2. s = StepFrom(target, here, action)
    BY <1>2, <1>3, <1>5
  <2> HIDE DEF u, s
  <2>3. trace' = u
    BY <1>1 DEF u, Played
  <2> QED BY <2>1, <2>2, <2>3
<1> QED BY <1>1, <1>6 DEF effect

\* A path with one step more.
LEMMA PathAppended ==
  ASSUME NEW t, NEW ss, Proper(ss), PathOf(t, ss), NEW s, Made(t, s),
         s.pre = IF ss = << >> THEN Start ELSE After(t, ss[Len(ss)])
  PROVE  PathOf(t, Append(ss, s))
<1> DEFINE u == Append(ss, s)
           n == Len(ss)
<1>1. /\ n \in Nat /\ DOMAIN u = 1..(n + 1) /\ DOMAIN ss = 1..n /\ u[n + 1] = s
      /\ \A k \in 1..n : u[k] = ss[k]
  BY ProperLen, ProperAppend
<1>2. ss = << >> <=> n = 0
  BY EmptySeq DEF Proper
<1> HIDE DEF u
<1>3. ASSUME NEW j \in DOMAIN u
      PROVE  Made(t, u[j]) /\ u[j].pre = IF j = 1 THEN Start ELSE After(t, u[j - 1])
  <2>1. CASE j \in 1..n
    <3>1. j \in DOMAIN ss /\ u[j] = ss[j] /\ (j # 1 => j - 1 \in 1..n)
      BY <1>1, <2>1
    <3>2. Made(t, ss[j]) /\ ss[j].pre = IF j = 1 THEN Start ELSE After(t, ss[j - 1])
      BY <3>1 DEF PathOf
    <3> QED BY <1>1, <3>1, <3>2
  <2>2. CASE j = n + 1
    <3>1. j = 1 <=> ss = << >>
      BY <1>1, <1>2, <2>2
    <3>2. j # 1 => u[j - 1] = ss[n]
      BY <1>1, <2>2
    <3> QED BY <1>1, <2>2, <3>1, <3>2
  <2> QED BY <1>1, <1>3, <2>1, <2>2
<1> QED BY <1>3 DEF PathOf, u

LEMMA PerformStep ==
  ASSUME GuidedIInv, phase = "select", NEW action, Perform(action),
         \E c \in target.offers[here] : action = <<here, c>>, Allowed(action),
         Replaying => action = steps[actions + 1].action
  PROVE  GuidedIInv'
<1> DEFINE s == StepFrom(target, here, action)
<1>0. RunInv /\ RecordedInv /\ AgreeInv /\ FailInv /\ LeadInv /\ VerdictInv /\ ShrinkInv
  BY DEF GuidedIInv
<1>1. /\ TraceOK(trace') /\ Reasons(trace') = Reasons(trace)
      /\ StepsOf(trace') = Append(StepsOf(trace), s)
      /\ here' = target.effects[action].next /\ actions' = actions + 1
      /\ phase' = "judge"
      /\ UNCHANGED <<target, recording, shrink, investigation, anyFailed>>
  BY <1>0, Performed DEF RunInv
<1>2. /\ actions \in Nat /\ Len(Steps) = actions /\ DOMAIN Steps = 1..actions
      /\ Proper(Steps) /\ Len(steps) \in Nat
  BY <1>0, StepTypes
<1>3. /\ Steps' = Append(Steps, s) /\ steps' = steps /\ Len(Steps') = actions + 1
      /\ Steps'[actions + 1] = s /\ \A j \in 1..actions : Steps'[j] = Steps[j]
      /\ DOMAIN Steps' = 1..(actions + 1)
  BY <1>1, <1>2, ProperAppend DEF Steps, steps
<1>4. s.pre = here /\ s.action = action /\ Made(target, s)
  BY DEF StepFrom, Made, Allowed
<1> HIDE DEF s
<1>5. LastStep' = s
  BY <1>1, <1>3 DEF LastStep
<1>6. RunInv'
  <2>1. Steps = << >> <=> actions = 0
    BY <1>2, EmptySeq DEF Proper
  <2>2. here = IF Steps = << >> THEN Start ELSE After(target, Steps[Len(Steps)])
    BY <1>0, <1>2, <2>1 DEF RunInv, LastStep
  <2>3. PathOf(target, Append(Steps, s))
    BY <1>0, <1>2, <1>4, <2>2, PathAppended DEF RunInv
  <2>4. actions + 1 \in Nat /\ actions + 1 > 0
    BY <1>2
  <2> QED BY <1>1, <1>3, <1>4, <1>5, <2>3, <2>4 DEF RunInv
<1>7. RecordedInv'
  BY <1>0, <1>1, <1>3 DEF RecordedInv
<1>8. AgreeInv'
  <2>1. Reasons(trace) \subseteq {"none"}
    BY <1>0 DEF AgreeInv
  <2>2. \A j \in 1..actions : j <= Len(steps) => Steps[j] = steps[j]
    BY <1>0, <2>1 DEF AgreeInv
  <2>3. \A j \in 1..(actions + 1) : j <= Len(steps) /\ j < actions + 1 => Steps'[j] = steps[j]
    BY <1>2, <1>3, <2>2
  <2>4. Repeated' => LastStep'.action = steps[actions + 1].action
    <3>1. Repeated' => actions + 1 <= Len(steps)
      BY <1>1, <1>3 DEF Repeated
    <3>2. Repeated' => Replaying
      BY <1>2, <3>1 DEF Replaying
    <3>3. LastStep'.action = action
      BY <1>4, <1>5
    <3> QED BY <3>2, <3>3
  <2> QED BY <1>1, <1>3, <2>1, <2>3, <2>4 DEF AgreeInv
<1>9. FailInv'
  BY <1>0, <1>1, <1>2, <1>3 DEF FailInv, SomeFails
<1>10. LeadInv'
  BY <1>0, <1>1, <1>3 DEF LeadInv
<1>11. VerdictInv'
  BY <1>0, <1>1, <1>3 DEF VerdictInv, LeadInv
<1>12. ShrinkInv'
  BY <1>0, <1>1 DEF ShrinkInv
<1> QED BY <1>6, <1>7, <1>8, <1>9, <1>10, <1>11, <1>12 DEF GuidedIInv

\* A replay that is given up for a reason.
LEMMA DivergeStep ==
  ASSUME GuidedIInv, phase \in {"select", "judge"}, steps # << >>, NEW kind, Diverge(kind),
         target = recording.target => kind = "none",
         kind = "none" => \A j \in 1..actions : j <= Len(steps) => Steps[j] = steps[j]
  PROVE  GuidedIInv'
<1> DEFINE e == [type |-> "divergence", reason |-> kind]
<1>0. RunInv /\ RecordedInv /\ AgreeInv /\ FailInv /\ LeadInv /\ VerdictInv /\ ShrinkInv
  BY DEF GuidedIInv
<1>1. /\ trace' = Append(trace, e) /\ phase' = "ended"
      /\ UNCHANGED <<target, here, actions, anyFailed, recording, shrink, investigation>>
  BY DEF Diverge, End
<1>2. e.type = "divergence" /\ e.reason = kind
  OBVIOUS
<1> HIDE DEF e
<1>3. TraceOK(trace') /\ StepsOf(trace') = StepsOf(trace)
      /\ Reasons(trace') = Reasons(trace) \cup {kind}
  <2>1. e.type \notin {"execution", "oracle"}
    BY <1>2
  <2>2. TraceOK(trace)
    BY <1>0 DEF RunInv
  <2> QED BY <1>1, <1>2, <2>1, <2>2, QuietEntry
<1>4. Steps' = Steps /\ steps' = steps /\ LastStep' = LastStep
  BY <1>1, <1>3 DEF Steps, steps, LastStep
<1>5. RunInv'
  BY <1>0, <1>1, <1>3, <1>4 DEF RunInv
<1>6. RecordedInv'
  BY <1>0, <1>1, <1>4 DEF RecordedInv
<1>7. AgreeInv'
  BY <1>1, <1>3, <1>4 DEF AgreeInv
<1>8. FailInv'
  BY <1>0, <1>1, <1>4 DEF FailInv
<1>9. LeadInv'
  BY <1>0, <1>1, <1>4 DEF LeadInv
<1>10. VerdictInv'
  BY <1>0, <1>1, <1>3, <1>4 DEF VerdictInv, LeadInv
<1>11. ShrinkInv'
  BY <1>0, <1>1 DEF ShrinkInv
<1> QED BY <1>5, <1>6, <1>7, <1>8, <1>9, <1>10, <1>11 DEF GuidedIInv

\* On the target of the recording the step to repeat begins where the replay is,
\* and is offered and allowed there.
LEMMA NextIsPossible ==
  ASSUME GuidedIInv, phase = "select", Replaying, target = recording.target
  PROVE  LET expected == steps[actions + 1].action
         IN /\ \E c \in target.offers[here] : expected = <<here, c>>
            /\ Allowed(expected)
<1> DEFINE s == steps[actions + 1]
<1>0. RunInv /\ RecordedInv /\ AgreeInv
  BY DEF GuidedIInv
<1>1. /\ actions \in Nat /\ Len(steps) \in Nat /\ DOMAIN steps = 1..Len(steps)
      /\ actions + 1 \in 1..Len(steps)
  BY <1>0, StepTypes DEF Replaying
<1>2. Made(target, s) /\ s.pre = IF actions = 0 THEN Start ELSE After(target, steps[actions])
  <2>1. actions + 1 = 1 <=> actions = 0
    BY <1>1
  <2>2. (actions + 1) - 1 = actions
    BY <1>1
  <2>3. s.pre = IF actions + 1 = 1 THEN Start ELSE After(target, steps[(actions + 1) - 1])
    BY <1>0, <1>1 DEF RecordedInv, PathOf
  <2> QED BY <1>0, <1>1, <2>1, <2>2, <2>3 DEF RecordedInv, PathOf
<1> HIDE DEF s
<1>3. actions # 0 => LastStep = steps[actions]
  <2>1. Reasons(trace) \subseteq {"none"}
    BY <1>0 DEF AgreeInv
  <2>2. actions # 0 => actions \in 1..actions /\ actions <= Len(steps)
    BY <1>1
  <2> QED BY <1>0, <2>1, <2>2 DEF AgreeInv, LastStep
<1>4. s.pre = here
  BY <1>0, <1>2, <1>3 DEF RunInv
<1> QED BY <1>2, <1>4 DEF Made, Allowed, s

\* The step that was repeated is then the recorded one.
LEMMA RepeatedIsSame ==
  ASSUME GuidedIInv, phase = "judge", Repeated, target = recording.target
  PROVE  LastStep = steps[actions]
<1> DEFINE s == steps[actions]
<1>0. RunInv /\ RecordedInv /\ AgreeInv
  BY DEF GuidedIInv
<1>1. /\ actions \in Nat /\ actions # 0 /\ Len(steps) \in Nat /\ DOMAIN steps = 1..Len(steps)
      /\ actions \in 1..Len(steps) /\ DOMAIN Steps = 1..actions /\ actions \in 1..actions
  BY <1>0, StepTypes DEF Repeated, RunInv
<1>2. /\ Made(target, s) /\ Made(target, LastStep)
      /\ s.pre = IF actions = 1 THEN Start ELSE After(target, steps[actions - 1])
      /\ LastStep.pre = IF actions = 1 THEN Start ELSE After(target, Steps[actions - 1])
  BY <1>0, <1>1 DEF RunInv, RecordedInv, PathOf, LastStep
<1>3. actions # 1 => Steps[actions - 1] = steps[actions - 1]
  <2>1. Reasons(trace) \subseteq {"none"}
    BY <1>0 DEF AgreeInv
  <2>2. actions # 1 => actions - 1 \in 1..actions /\ actions - 1 <= Len(steps) /\ actions - 1 < actions
    BY <1>1
  <2> QED BY <1>0, <2>1, <2>2 DEF AgreeInv
<1>4. s.pre = LastStep.pre /\ s.action = LastStep.action
  BY <1>0, <1>2, <1>3 DEF AgreeInv
<1>5. s = StepFrom(target, s.pre, s.action) /\ LastStep = StepFrom(target, LastStep.pre, LastStep.action)
  BY <1>2 DEF Made
<1> HIDE DEF s
<1> QED BY <1>4, <1>5 DEF s

-----------------------------------------------------------------------------
(* The actions of the loop.                                                *)

\* Entries about a stop or a control, and no entry.
LEMMA EntryStep ==
  ASSUME GuidedIInv, NEW e, e.type \notin {"execution", "oracle", "divergence"},
         trace' = Append(trace, e) \/ trace' = trace
  PROVE  TraceOK(trace') /\ StepsOf(trace') = StepsOf(trace) /\ Reasons(trace') = Reasons(trace)
  BY QuietEntry DEF GuidedIInv, RunInv

\* A run that ends with its steps: passed, failed before, or cut short.
LEMMA EndStep ==
  ASSUME GuidedIInv, phase \in {"top", "select"},
         \E e : e.type = "stop" /\ (trace' = Append(trace, e) \/ trace' = trace),
         Completed \/ \E reason : End("partial", reason),
         UNCHANGED <<target, here, actions, anyFailed, recording, shrink, investigation>>
  PROVE  GuidedIInv'
<1>1. PICK e : e.type = "stop" /\ (trace' = Append(trace, e) \/ trace' = trace)
  OBVIOUS
<1>2. TraceOK(trace') /\ StepsOf(trace') = StepsOf(trace) /\ Reasons(trace') = Reasons(trace)
  BY <1>1, EntryStep
<1>3. phase' = "ended" /\ (termination'.outcome = "failed" => anyFailed)
  BY DEF Completed, End
<1>4. anyFailed => SomeFails(Steps)
  BY DEF GuidedIInv, FailInv
<1> QED BY <1>2, <1>3, <1>4, LoopStep

LEMMA OutOfActionsStep ==
  ASSUME GuidedIInv, OutOfActions
  PROVE  GuidedIInv'
<1> DEFINE e == [type |-> "stop"]
<1>1. e.type = "stop"
  OBVIOUS
<1> HIDE DEF e
<1> QED BY <1>1, EndStep DEF OutOfActions

LEMMA PreflightFailsStep ==
  ASSUME GuidedIInv, PreflightFails
  PROVE  GuidedIInv'
<1> DEFINE e == [type |-> "stop"]
<1>1. e.type = "stop"
  OBVIOUS
<1> HIDE DEF e
<1> QED BY <1>1, EndStep DEF PreflightFails

LEMMA SelectorFailsStep ==
  ASSUME GuidedIInv, SelectorFails
  PROVE  GuidedIInv'
<1> DEFINE e == [type |-> "stop"]
<1>1. e.type = "stop"
  OBVIOUS
<1> HIDE DEF e
<1> QED BY <1>1, EndStep DEF SelectorFails, Asked

\* A stop that is recorded with the conditions that were met.
LEMMA StoppedStep ==
  ASSUME GuidedIInv, phase \in {"top", "select"}, NEW met, trace' = Stopped(met), Completed,
         UNCHANGED <<target, here, actions, anyFailed, recording, shrink, investigation>>
  PROVE  GuidedIInv'
<1> DEFINE e == [type |-> "stop", actions |-> actions, met |-> met]
<1>1. e.type = "stop" /\ trace' = Append(trace, e)
  BY DEF Stopped
<1> HIDE DEF e
<1> QED BY <1>1, EndStep

LEMMA StopWhenStep ==
  ASSUME GuidedIInv, StopWhen
  PROVE  GuidedIInv'
<1>1. PICK met : trace' = Stopped(met)
  BY DEF StopWhen
<1> QED BY <1>1, StoppedStep DEF StopWhen

LEMMA NothingSafeStep ==
  ASSUME GuidedIInv, NothingSafe
  PROVE  GuidedIInv'
  BY StoppedStep DEF NothingSafe

LEMMA SelectorStopsStep ==
  ASSUME GuidedIInv, SelectorStops
  PROVE  GuidedIInv'
  BY StoppedStep DEF SelectorStops, Asked

LEMMA ObserveStep ==
  ASSUME GuidedIInv, Observe
  PROVE  GuidedIInv'
<1> DEFINE e == Observed(here, target.offers[here], actions)
<1>1. e.type = "observation"
  BY DEF Observed
<1> HIDE DEF e
<1>2. trace' = Append(trace, e) /\ phase = "top" /\ phase' = "select"
      /\ UNCHANGED <<target, here, actions, anyFailed, recording, shrink, investigation>>
  BY DEF Observe, e
<1>3. TraceOK(trace') /\ StepsOf(trace') = StepsOf(trace) /\ Reasons(trace') = Reasons(trace)
  BY <1>1, <1>2, EntryStep
<1>4. here = IF actions = 0 THEN Start ELSE After(target, LastStep)
  BY <1>2 DEF GuidedIInv, RunInv
<1>5. anyFailed => SomeFails(Steps)
  BY DEF GuidedIInv, FailInv
<1> QED BY <1>2, <1>3, <1>4, <1>5, LoopStep

\* A replay has a recorded step left, or judges one.
LEMMA ReplayHasSteps ==
  ASSUME GuidedIInv, (phase = "select" /\ Replaying) \/ (phase = "judge" /\ Repeated)
  PROVE  steps # << >>
<1>1. actions \in Nat /\ Len(steps) \in Nat /\ Len(<< >>) = 0
  BY StepTypes, EmptyProper DEF GuidedIInv
<1>2. phase = "judge" => actions # 0
  BY DEF GuidedIInv, RunInv
<1>3. Len(steps) # 0
  BY <1>1, <1>2 DEF Replaying, Repeated
<1> QED BY <1>1, <1>3

LEMMA UnresolvedStep ==
  ASSUME GuidedIInv, Unresolved
  PROVE  GuidedIInv'
<1> DEFINE expected == steps[actions + 1].action
<1>1. phase = "select" /\ Replaying
  BY DEF Unresolved
<1>2. PICK kind \in {"candidate-unresolved", "candidate-replay-mismatch",
                     "scope-or-safety-violation"} : Diverge(kind)
  BY DEF Unresolved
<1>3. \/ expected[2] \notin target.offers[here]
      \/ expected[2] \in target.offers[here] /\ expected[1] # here
      \/ expected \in {<<here, c>> : c \in target.offers[here]} /\ ~Allowed(expected)
  BY DEF Unresolved
<1>4. target # recording.target
  BY <1>1, <1>3, NextIsPossible
<1> QED BY <1>1, <1>2, <1>4, ReplayHasSteps, DivergeStep

LEMMA StepDivergesStep ==
  ASSUME GuidedIInv, StepDiverges
  PROVE  GuidedIInv'
<1> DEFINE kind == Divergence(steps[actions], LastStep)
<1>1. phase = "judge" /\ Repeated /\ Diverge(kind)
  BY DEF StepDiverges
<1>2. target = recording.target => kind = "none"
  <2>1. Divergence(LastStep, LastStep) = "none"
    BY DEF Divergence
  <2> QED BY <1>1, <2>1, RepeatedIsSame
<1>3. kind = "none" => \A j \in 1..actions : j <= Len(steps) => Steps[j] = steps[j]
  BY <1>1, JudgedAgree DEF GuidedIInv
<1> HIDE DEF kind
<1> QED BY <1>1, <1>2, <1>3, ReplayHasSteps, DivergeStep

\* What may be selected is what may be done here.
LEMMA ChosenIsSafe ==
  ASSUME NEW g, NEW strategy, NEW risk, NEW S
  PROVE  Selectable(g, strategy, risk, S) \subseteq S
<1>1. CASE strategy \in {"random", "llm-select"}
  BY <1>1 DEF Selectable
<1>2. CASE strategy = "weighted-random"
  BY <1>2 DEF Selectable
<1>3. CASE strategy \notin {"random", "llm-select", "weighted-random"}
  BY <1>3 DEF Selectable, Best
<1> QED BY <1>1, <1>2, <1>3

LEMMA ExploreStep ==
  ASSUME GuidedIInv, Explore
  PROVE  GuidedIInv'
<1>1. PICK action \in Selectable(graph, setting.strategy, setting.risk, Safe) : Perform(action)
  BY DEF Explore
<1>2. action \in Safe
  BY <1>1, ChosenIsSafe
<1>3. (\E c \in target.offers[here] : action = <<here, c>>) /\ Allowed(action)
  BY <1>2 DEF Safe
<1>4. phase = "select" /\ ~Replaying
  BY DEF Explore
<1> QED BY <1>1, <1>3, <1>4, PerformStep

LEMMA RepeatStep ==
  ASSUME GuidedIInv, Repeat
  PROVE  GuidedIInv'
<1> DEFINE action == steps[actions + 1].action
<1>1. phase = "select" /\ Perform(action) /\ Allowed(action)
      /\ \E c \in target.offers[here] : action = <<here, c>>
  BY DEF Repeat
<1> HIDE DEF action
<1>2. action = steps[actions + 1].action
  BY DEF action
<1> QED BY <1>1, <1>2, PerformStep

\* The step judged failed an oracle.
LEMMA LastFails ==
  ASSUME RunInv, RecordedInv, phase = "judge", OracleFail(LastStep.oracle)
  PROVE  SomeFails(Steps)
<1>1. actions \in DOMAIN Steps
  BY StepTypes DEF RunInv
<1> QED BY <1>1 DEF SomeFails, LastStep

LEMMA OracleFailsStep ==
  ASSUME GuidedIInv, OracleFails
  PROVE  GuidedIInv'
<1>1. phase = "judge" /\ Agrees /\ phase' = "ended"
      /\ UNCHANGED <<target, trace, actions, anyFailed, recording, shrink, investigation>>
  BY DEF OracleFails, Agrees, End
<1>2. SomeFails(Steps)
  BY <1>1, LastFails DEF GuidedIInv, OracleFails, OracleFailed, OracleFail
<1>3. TraceOK(trace') /\ StepsOf(trace') = StepsOf(trace) /\ Reasons(trace') = Reasons(trace)
  BY <1>1 DEF GuidedIInv, RunInv
<1> QED BY <1>1, <1>2, <1>3, LoopStep

LEMMA GoOnStep ==
  ASSUME GuidedIInv, GoOn
  PROVE  GuidedIInv'
<1>1. phase = "judge" /\ Agrees /\ phase' = "top" /\ LastStep.status \in {"executed", "denied"}
      /\ UNCHANGED <<target, here, trace, actions, anyFailed, recording, shrink,
                     investigation>>
  BY DEF GoOn, Agrees, loop
<1>2. here' = IF actions = 0 THEN Start ELSE After(target, LastStep)
  BY <1>1 DEF GuidedIInv, RunInv, After
<1>3. TraceOK(trace') /\ StepsOf(trace') = StepsOf(trace) /\ Reasons(trace') = Reasons(trace)
  BY <1>1 DEF GuidedIInv, RunInv
<1>4. anyFailed => SomeFails(Steps)
  BY DEF GuidedIInv, FailInv
<1> QED BY <1>1, <1>2, <1>3, <1>4, LoopStep

\* The entries of a recovery: an observation or none, and the recovery.
Regained(t, w, y) == (t \o w) \o <<y>>

LEMMA RegainedEntries ==
  ASSUME NEW t, TraceOK(t), NEW y, y.type \notin {"execution", "oracle", "divergence"},
         NEW w, w = << >> \/ \E o : o.type = "observation" /\ w = <<o>>
  PROVE  /\ TraceOK(Regained(t, w, y)) /\ StepsOf(Regained(t, w, y)) = StepsOf(t)
         /\ Reasons(Regained(t, w, y)) = Reasons(t)
<1> DEFINE u == t \o w
<1>1. TraceOK(u) /\ StepsOf(u) = StepsOf(t) /\ Reasons(u) = Reasons(t)
  <2>0. Proper(t)
    BY DEF TraceOK, TraceUpTo
  <2>1. CASE w = << >>
    <3>1. u = t
      BY <2>0, <2>1, ConcatOne
    <3> HIDE DEF u
    <3> QED BY <3>1
  <2>2. CASE w # << >>
    <3>1. PICK o : o.type = "observation" /\ w = <<o>>
      BY <2>2
    <3>2. u = Append(t, o)
      BY <2>0, <3>1, ConcatOne
    <3>3. TraceOK(Append(t, o)) /\ StepsOf(Append(t, o)) = StepsOf(t)
          /\ Reasons(Append(t, o)) = Reasons(t)
      BY <3>1, QuietEntry
    <3> HIDE DEF u
    <3> QED BY <3>2, <3>3
  <2> QED BY <2>1, <2>2
<1> HIDE DEF u
<1>2. u \o <<y>> = Append(u, y)
  BY <1>1, ConcatOne DEF TraceOK, TraceUpTo
<1>3. TraceOK(Append(u, y)) /\ StepsOf(Append(u, y)) = StepsOf(u)
      /\ Reasons(Append(u, y)) = Reasons(u)
  BY <1>1, QuietEntry
<1> QED BY <1>1, <1>2, <1>3 DEF Regained, u

LEMMA RecoverStep ==
  ASSUME GuidedIInv, Recover
  PROVE  GuidedIInv'
<1> DEFINE action == LastStep.action
           reached == target.recovers[action]
           from == IF LastStep.post = None THEN LastStep.pre ELSE LastStep.post
           n == backtracks + 1
           matched == reached # None /\ reached = LastStep.pre
           status == CASE reached = None -> "not_recovered"
                       [] matched -> "recovered"
                       [] OTHER -> "diverged"
           w == IF reached = None THEN << >> ELSE <<Observed(reached, {}, actions)>>
           y == [type |-> "recovery", action |-> <<from, <<action[2], n>> >>,
                 status |-> status, pre |-> from, post |-> reached, at |-> actions]
           z == [type |-> "max-backtracks"]
<1>0. RunInv /\ RecordedInv
  BY DEF GuidedIInv
<1>1. /\ phase = "judge" /\ Agrees /\ LastStep.status \notin {"executed", "denied"}
      /\ UNCHANGED <<target, actions, recording, shrink, investigation>>
  BY DEF Recover, Agrees
<1>2. SomeFails(Steps)
  <2>1. Made(target, LastStep)
    BY <1>0, <1>1, StepTypes DEF RunInv, PathOf, LastStep
  <2>2. LastStep.oracle.generic = "fail"
    BY <1>1, <2>1 DEF Made, StepFrom, BuiltIn, GenericOracle
  <2> QED BY <1>0, <1>1, <2>2, LastFails DEF OracleFail
<1>3. \/ phase' = "ended" /\ trace' = Append(trace, z)
      \/ /\ trace' = Regained(trace, w, y)
         /\ \/ phase' = "ended"
            \/ phase' = "top" /\ reached = LastStep.pre /\ here' = reached
  BY DEF Recover, End, Regained
<1>4. /\ y.type = "recovery" /\ z.type = "max-backtracks"
      /\ w = << >> \/ \E o : o.type = "observation" /\ w = <<o>>
  BY DEF Observed
<1> HIDE DEF w, y, z, reached
<1>5. TraceOK(trace') /\ StepsOf(trace') = StepsOf(trace) /\ Reasons(trace') = Reasons(trace)
  <2>1. CASE trace' = Append(trace, z)
    BY <1>4, <2>1, EntryStep
  <2>2. CASE trace' = Regained(trace, w, y)
    <3>1. TraceOK(Regained(trace, w, y)) /\ StepsOf(Regained(trace, w, y)) = StepsOf(trace)
          /\ Reasons(Regained(trace, w, y)) = Reasons(trace)
      BY <1>0, <1>4, RegainedEntries DEF RunInv
    <3> QED BY <2>2, <3>1
  <2> QED BY <1>3, <2>1, <2>2
<1>6. phase' # "ended" => here' = IF actions = 0 THEN Start ELSE After(target, LastStep)
  BY <1>0, <1>1, <1>3 DEF RunInv, After
<1>7. phase' \in {"top", "ended"}
  BY <1>3
<1> QED BY <1>1, <1>2, <1>5, <1>6, <1>7, LoopStep

-----------------------------------------------------------------------------
(* The reduction.                                                          *)

\* What is reduced and what it must reproduce are of the trace.
SequenceOf(ss, n) ==
  [i \in 1..n |-> [id |-> i, candidate |-> ss[i].action[2], status |-> ss[i].status]]

GoalOf(ss, n) ==
  LET bad == {i \in 1..n : ss[i].status # "executed"}
  IN ss[IF bad = {} THEN None ELSE CHOOSE i \in bad : \A j \in bad : i <= j].status

LEMMA Kept ==
  ASSUME UNCHANGED <<trace, actions>>
  PROVE  Steps' = Steps /\ LastStep' = LastStep /\ Sequence' = Sequence /\ Goal' = Goal
<1>1. Steps' = Steps
  BY DEF Steps
<1>2. Sequence = SequenceOf(Steps, actions) /\ Sequence' = SequenceOf(Steps', actions')
  BY DEF Sequence, SequenceOf
<1>3. Goal = GoalOf(Steps, actions)
  BY DEF Goal, FailureStep, GoalOf
<1>4. Goal' = GoalOf(Steps', actions')
  BY DEF Goal, FailureStep, GoalOf
<1> QED BY <1>1, <1>2, <1>3, <1>4 DEF LastStep

LEMMA ProperSequence ==
  ASSUME NEW ss, NEW n \in Nat
  PROVE  Proper(SequenceOf(ss, n)) /\ DOMAIN SequenceOf(ss, n) = 1..n
<1> DEFINE q == SequenceOf(ss, n)
           S == {q[i] : i \in 1..n}
<1>1. q = [i \in 1..n |-> q[i]] /\ DOMAIN q = 1..n
  BY DEF SequenceOf
<1> HIDE DEF q
<1>2. q \in [1..n -> S]
  BY <1>1
<1>3. q \in Seq(S)
  BY <1>2, SeqDef
<1> QED BY <1>1, <1>3, ProperOf DEF q

\* A part less is a sequence again.
LEMMA ProperWithout ==
  ASSUME NEW q, Proper(q), NEW from \in 1..Len(q), NEW n \in Nat
  PROVE  Proper(Without(q, from, n))
<1> DEFINE S == {q[i] : i \in DOMAIN q}
           low == SubSeq(q, 1, from - 1)
           high == SubSeq(q, from + n, Len(q))
<1>1. Len(q) \in Nat /\ \A i \in 1..Len(q) : q[i] \in S
  BY ProperLen
<1> HIDE DEF S
<1>2. low \in Seq(S)
  <2>1. from - 1 \in Int /\ \A i \in 1..(from - 1) : q[i] \in S
    BY <1>1
  <2> QED BY <2>1, SubSeqProperties
<1>3. high \in Seq(S)
  <2>1. from + n \in Int /\ Len(q) \in Int /\ \A i \in (from + n)..Len(q) : q[i] \in S
    BY <1>1
  <2> QED BY <2>1, SubSeqProperties
<1> HIDE DEF low, high
<1>4. low \o high \in Seq(S)
  BY <1>2, <1>3, ConcatProperties
<1> QED BY <1>4, ProperOf DEF Without, low, high

\* The reduction goes on with what is left, past a part, or with smaller parts.
CutTo(s, rest, f, r) == [s EXCEPT !.current = rest, !.from = f, !.tries = r]

PastTo(s, f, r) == [s EXCEPT !.from = f, !.tries = r]

PartsOf(s, k, f) == [s EXCEPT !.chunk = k, !.from = f]

LEMMA Reduced ==
  ASSUME NEW s, s = [current |-> s.current, chunk |-> s.chunk, from |-> s.from,
                     tries |-> s.tries],
         NEW rest, NEW k, NEW f, NEW r
  PROVE  /\ CutTo(s, rest, f, r)
              = [current |-> rest, chunk |-> s.chunk, from |-> f, tries |-> r]
         /\ PastTo(s, f, r)
              = [current |-> s.current, chunk |-> s.chunk, from |-> f, tries |-> r]
         /\ PartsOf(s, k, f)
              = [current |-> s.current, chunk |-> k, from |-> f, tries |-> s.tries]
<1>0. PICK c, l, g, q : s = [current |-> c, chunk |-> l, from |-> g, tries |-> q]
  OBVIOUS
<1>1. s.current = c /\ s.chunk = l /\ s.tries = q
  BY <1>0
<1> DEFINE s1 == [s EXCEPT !.current = rest]
           s2 == [s1 EXCEPT !.from = f]
           s3 == [s EXCEPT !.from = f]
           s4 == [s EXCEPT !.chunk = k]
<1>2. /\ s1 = [current |-> rest, chunk |-> l, from |-> g, tries |-> q]
      /\ s3 = [current |-> c, chunk |-> l, from |-> f, tries |-> q]
      /\ s4 = [current |-> c, chunk |-> k, from |-> g, tries |-> q]
  BY <1>0
<1>3. s2 = [current |-> rest, chunk |-> l, from |-> f, tries |-> q]
  <2> HIDE DEF s1
  <2> QED BY <1>2
<1>4. /\ [s2 EXCEPT !.tries = r] = [current |-> rest, chunk |-> l, from |-> f, tries |-> r]
      /\ [s3 EXCEPT !.tries = r] = [current |-> c, chunk |-> l, from |-> f, tries |-> r]
      /\ [s4 EXCEPT !.from = f] = [current |-> c, chunk |-> k, from |-> f, tries |-> q]
  <2> HIDE DEF s2, s3, s4
  <2> QED BY <1>2, <1>3
<1>5. CutTo(s, rest, f, r) = [s2 EXCEPT !.tries = r]
  BY DEF CutTo
<1>6. PastTo(s, f, r) = [s3 EXCEPT !.tries = r]
  BY DEF PastTo
<1>7. PartsOf(s, k, f) = [s4 EXCEPT !.from = f]
  BY DEF PartsOf
<1> HIDE DEF s2, s3, s4
<1> QED BY <1>1, <1>4, <1>5, <1>6, <1>7

\* A step of the reduction touches nothing else.
LEMMA ShrinkFrame ==
  ASSUME GuidedIInv, phase \in {"ended", "shrink"}, steps = << >>,
         phase' \in {"shrink", "recorded"},
         UNCHANGED <<target, here, trace, actions, anyFailed, termination, recording,
                     investigation>>,
         ShrinkInv'
  PROVE  GuidedIInv'
<1>0. RunInv /\ RecordedInv /\ AgreeInv /\ FailInv /\ LeadInv /\ VerdictInv
  BY DEF GuidedIInv
<1>1. Steps' = Steps /\ steps' = steps /\ LastStep' = LastStep
  BY DEF Steps, steps, LastStep
<1>2. RunInv'
  BY <1>0, <1>1 DEF RunInv
<1>3. RecordedInv'
  BY <1>0, <1>1 DEF RecordedInv
<1>4. AgreeInv'
  BY <1>0, <1>1 DEF AgreeInv
<1>5. FailInv'
  BY <1>0, <1>1 DEF FailInv
<1>6. LeadInv'
  BY <1>0, <1>1 DEF LeadInv
<1>7. VerdictInv'
  BY <1>0, <1>1 DEF VerdictInv
<1> QED BY <1>2, <1>3, <1>4, <1>5, <1>6, <1>7 DEF GuidedIInv

\* The reduction is under way only in a first run.
LEMMA ShrinksFirstRun ==
  ASSUME GuidedIInv, phase = "shrink"
  PROVE  /\ steps = << >> /\ Proper(shrink.current) /\ Len(shrink.current) \in Nat
         /\ DOMAIN shrink.current = 1..Len(shrink.current)
         /\ shrink.chunk \in Nat /\ shrink.from \in Nat \ {0}
  BY ProperLen DEF GuidedIInv, RecordedInv, ShrinkInv

LEMMA BeginShrinkStep ==
  ASSUME GuidedIInv, BeginShrink
  PROVE  GuidedIInv'
<1> DEFINE chunk == IF actions > 1 THEN actions \div 2 ELSE 1
           begun == [current |-> Sequence, chunk |-> chunk, from |-> 1, tries |-> 0]
<1>1. /\ phase = "ended" /\ steps = << >>
      /\ UNCHANGED <<target, here, trace, actions, anyFailed, termination, recording,
                     investigation>>
      /\ \/ phase' = "shrink" /\ shrink' = begun
         \/ phase' = "recorded" /\ shrink' = shrink
  BY DEF BeginShrink, loop
<1>2. chunk \in Nat \ {0}
  BY DEF GuidedIInv, RunInv
<1>3. /\ begun.current = Sequence /\ begun.chunk = chunk /\ begun.from = 1
      /\ begun = [current |-> begun.current, chunk |-> begun.chunk, from |-> begun.from,
                  tries |-> begun.tries]
  OBVIOUS
<1>4. Proper(Sequence) /\ DOMAIN Sequence = 1..actions
  <2>1. Sequence = SequenceOf(Steps, actions)
    BY DEF Sequence, SequenceOf
  <2> QED BY <2>1, ProperSequence DEF GuidedIInv, RunInv
<1>5. Sequence' = Sequence
  BY <1>1, Kept
<1> HIDE DEF chunk, begun
<1>6. ShrinkInv'
  <2>1. CASE phase' = "shrink" /\ shrink' = begun
    <3>1. \A i \in DOMAIN begun.current : ~(begun.chunk = 0 \/ (begun.chunk = 1 /\ i < begun.from))
      BY <1>2, <1>3, <1>4
    <3>2. begun.from \in Nat \ {0} /\ begun.chunk \in Nat /\ Proper(begun.current)
      BY <1>2, <1>3, <1>4
    <3> QED BY <1>3, <1>5, <2>1, <3>1, <3>2 DEF ShrinkInv
  <2>2. CASE phase' = "recorded" /\ shrink' = shrink
    BY <2>2 DEF ShrinkInv, GuidedIInv
  <2> QED BY <1>1, <2>1, <2>2
<1> QED BY <1>1, <1>6, ShrinkFrame

LEMMA TryStep ==
  ASSUME GuidedIInv, Try
  PROVE  GuidedIInv'
<1> DEFINE rest == Without(shrink.current, shrink.from, shrink.chunk)
           good == rest # << >> /\ Reproduces(target, rest, Goal)
           kept == [shrink EXCEPT !.current = rest, !.from = 1, !.tries = @ + 1]
           next == [shrink EXCEPT !.from = @ + shrink.chunk,
                                  !.tries = IF rest = << >> THEN @ ELSE @ + 1]
<1>1. /\ phase = "shrink" /\ shrink.chunk >= 1 /\ shrink.from <= Len(shrink.current)
      /\ UNCHANGED <<phase, target, here, trace, actions, anyFailed, termination, recording,
                     investigation>>
      /\ shrink' = IF good THEN kept ELSE next
  BY DEF Try, loop
<1>2. /\ steps = << >> /\ Proper(shrink.current) /\ Len(shrink.current) \in Nat
      /\ DOMAIN shrink.current = 1..Len(shrink.current)
      /\ shrink.chunk \in Nat /\ shrink.from \in Nat \ {0}
      /\ shrink.from \in 1..Len(shrink.current)
  BY <1>1, ShrinksFirstRun
<1>3. shrink = [current |-> shrink.current, chunk |-> shrink.chunk, from |-> shrink.from,
                tries |-> shrink.tries]
  BY DEF GuidedIInv, ShrinkInv
<1>4. /\ kept.current = rest /\ kept.chunk = shrink.chunk /\ kept.from = 1
      /\ kept = [current |-> kept.current, chunk |-> kept.chunk, from |-> kept.from,
                 tries |-> kept.tries]
  <2> HIDE DEF rest
  <2>1. kept = CutTo(shrink, rest, 1, shrink.tries + 1)
    BY DEF CutTo
  <2>2. kept = [current |-> rest, chunk |-> shrink.chunk, from |-> 1,
                tries |-> shrink.tries + 1]
    BY <1>3, <2>1, Reduced
  <2> HIDE DEF kept
  <2> QED BY <2>2
<1>5. /\ next.current = shrink.current /\ next.chunk = shrink.chunk
      /\ next.from = shrink.from + shrink.chunk
      /\ next = [current |-> next.current, chunk |-> next.chunk, from |-> next.from,
                 tries |-> next.tries]
  <2> DEFINE m == shrink.from + shrink.chunk
             r == IF rest = << >> THEN shrink.tries ELSE shrink.tries + 1
  <2>1. next = PastTo(shrink, m, r)
    BY DEF PastTo
  <2>2. m = shrink.from + shrink.chunk
    OBVIOUS
  <2> HIDE DEF m, r
  <2>3. next = [current |-> shrink.current, chunk |-> shrink.chunk, from |-> m, tries |-> r]
    BY <1>3, <2>1, Reduced
  <2> HIDE DEF next
  <2> QED BY <2>2, <2>3
<1>6. Sequence' = Sequence /\ Goal' = Goal /\ target' = target /\ phase' = "shrink"
  BY <1>1, Kept
<1>7. Proper(rest)
  BY <1>2, ProperWithout
<1>8. (phase = "shrink") /\ ShrinkInv
  BY <1>1 DEF GuidedIInv
<1> HIDE DEF kept, next
<1>9. CASE good
  <2>1. shrink' = kept
    BY <1>1, <1>9
  <2>2. ~(kept.chunk = 0) /\ (\A i \in DOMAIN kept.current : ~(i < kept.from))
    <3>1. DOMAIN rest = 1..Len(rest) /\ Len(rest) \in Nat
      BY <1>7, ProperLen
    <3> HIDE DEF rest
    <3> QED BY <1>1, <1>2, <1>4, <3>1
  <2>3. Proper(kept.current) /\ kept.chunk \in Nat /\ kept.from \in Nat \ {0}
        /\ Reproduces(target, kept.current, Goal)
    BY <1>2, <1>4, <1>7, <1>9
  <2>4. ShrinkInv'
    BY <1>4, <1>6, <2>1, <2>2, <2>3 DEF ShrinkInv
  <2> QED BY <1>1, <1>2, <2>4, ShrinkFrame
<1>10. CASE ~good
  <2>1. shrink' = next
    BY <1>1, <1>10
  <2>2. Proper(next.current) /\ next.chunk \in Nat /\ next.from \in Nat \ {0}
        /\ (Reproduces(target, next.current, Goal) \/ next.current = Sequence)
    BY <1>2, <1>5, <1>8 DEF ShrinkInv
  <2>3. ASSUME NEW i \in DOMAIN next.current,
               next.chunk = 0 \/ (next.chunk = 1 /\ i < next.from),
               Without(next.current, i, 1) # << >>
        PROVE  ~Reproduces(target, Without(next.current, i, 1), Goal)
    <3>1. shrink.chunk = 1 /\ i \in 1..Len(shrink.current) /\ i <= shrink.from
      BY <1>1, <1>2, <1>5, <2>3
    <3>2. CASE i < shrink.from
      BY <1>5, <1>8, <2>3, <3>1, <3>2 DEF ShrinkInv
    <3>3. CASE i = shrink.from
      BY <1>5, <1>10, <2>3, <3>1, <3>3
    <3> QED BY <1>2, <3>1, <3>2, <3>3
  <2>4. ShrinkInv'
    BY <1>5, <1>6, <2>1, <2>2, <2>3 DEF ShrinkInv
  <2> QED BY <1>1, <1>2, <2>4, ShrinkFrame
<1> QED BY <1>9, <1>10

LEMMA HalveStep ==
  ASSUME GuidedIInv, Halve
  PROVE  GuidedIInv'
<1> DEFINE next == [shrink EXCEPT !.chunk = @ \div 2, !.from = 1]
<1>1. /\ phase = "shrink" /\ shrink.chunk >= 1 /\ shrink.from > Len(shrink.current)
      /\ UNCHANGED <<phase, target, here, trace, actions, anyFailed, termination, recording,
                     investigation>>
      /\ shrink' = next
  BY DEF Halve, loop
<1>2. /\ steps = << >> /\ Proper(shrink.current) /\ Len(shrink.current) \in Nat
      /\ DOMAIN shrink.current = 1..Len(shrink.current)
      /\ shrink.chunk \in Nat /\ shrink.from \in Nat \ {0}
  BY <1>1, ShrinksFirstRun
<1>3. ShrinkInv /\ shrink = [current |-> shrink.current, chunk |-> shrink.chunk,
                             from |-> shrink.from, tries |-> shrink.tries]
  BY DEF GuidedIInv, ShrinkInv
<1>4. /\ next.current = shrink.current /\ next.chunk = shrink.chunk \div 2 /\ next.from = 1
      /\ next = [current |-> next.current, chunk |-> next.chunk, from |-> next.from,
                 tries |-> next.tries]
  <2> DEFINE half == shrink.chunk \div 2
  <2>1. next = PartsOf(shrink, half, 1) /\ half = shrink.chunk \div 2
    BY DEF PartsOf
  <2> HIDE DEF half
  <2>2. next = [current |-> shrink.current, chunk |-> half, from |-> 1, tries |-> shrink.tries]
    BY <1>3, <2>1, Reduced
  <2> HIDE DEF next
  <2> QED BY <2>1, <2>2
<1>5. Sequence' = Sequence /\ Goal' = Goal /\ target' = target /\ phase' = "shrink"
  BY <1>1, Kept
<1> HIDE DEF next
<1>6. next.chunk \in Nat /\ (next.chunk = 0 => shrink.chunk = 1)
  BY <1>1, <1>2, <1>4
<1>7. Proper(next.current) /\ next.from \in Nat \ {0}
      /\ (Reproduces(target, next.current, Goal) \/ next.current = Sequence)
  BY <1>1, <1>2, <1>3, <1>4 DEF ShrinkInv
<1>8. ASSUME NEW i \in DOMAIN next.current,
             next.chunk = 0 \/ (next.chunk = 1 /\ i < next.from),
             Without(next.current, i, 1) # << >>
      PROVE  ~Reproduces(target, Without(next.current, i, 1), Goal)
  <2>1. shrink.chunk = 1 /\ i < shrink.from
    BY <1>1, <1>2, <1>4, <1>6, <1>8
  <2> QED BY <1>1, <1>3, <1>4, <1>8, <2>1 DEF ShrinkInv
<1>9. ShrinkInv'
  BY <1>1, <1>4, <1>5, <1>6, <1>7, <1>8 DEF ShrinkInv
<1> QED BY <1>1, <1>2, <1>9, ShrinkFrame

LEMMA EndShrinkStep ==
  ASSUME GuidedIInv, EndShrink
  PROVE  GuidedIInv'
<1>1. /\ phase = "shrink" /\ phase' = "recorded"
      /\ UNCHANGED <<target, here, trace, actions, anyFailed, termination, recording,
                     investigation, shrink>>
  BY DEF EndShrink, loop
<1>2. ShrinkInv'
  BY <1>1 DEF GuidedIInv, ShrinkInv
<1> QED BY <1>1, <1>2, ShrinksFirstRun, ShrinkFrame

-----------------------------------------------------------------------------
(* The investigation.                                                      *)

LEMMA EmptyTrace == TraceOK(<< >>) /\ StepsOf(<< >>) = << >> /\ Reasons(<< >>) = {}
<1>1. Proper(<< >>) /\ Len(<< >>) = 0 /\ DOMAIN << >> = {}
  BY EmptyProper, ProperLen
<1>2. StepOf(<< >>, 0) = 0
  <2>1. {j \in 1..0 : << >>[j].type = "execution"} = {}
    OBVIOUS
  <2> QED BY <2>1, FS_EmptySet DEF StepOf
<1> QED BY <1>1, <1>2, NoSteps, NoReasons DEF TraceOK, TraceUpTo

\* What a signal is about has failed.
LEMMA SignalFails ==
  ASSUME NEW t, TraceOK(t), NEW s \in Signals(t)
  PROVE  s.source \in DOMAIN StepsOf(t) /\ Failing(StepsOf(t)[s.source])
<1> DEFINE ss == StepsOf(t)
<1>1. \E i \in DOMAIN t :
        /\ s.source = StepOf(t, i)
        /\ \/ t[i].type = "execution" /\ t[i].status \in {"timeout", "denied"}
           \/ t[i].type = "oracle" /\ OracleFail(t[i].verdict)
  BY DEF Signals, Signal, OracleFail
<1>2. PICK i \in DOMAIN t :
        /\ s.source = StepOf(t, i)
        /\ \/ t[i].type = "execution" /\ t[i].status \in {"timeout", "denied"}
           \/ t[i].type = "oracle" /\ OracleFail(t[i].verdict)
  BY <1>1
<1>3. TraceUpTo(t, Len(ss)) /\ DOMAIN ss = 1..Len(ss)
  BY ProperLen DEF TraceOK, TraceUpTo
<1>4. CASE t[i].type = "execution" /\ t[i].status \in {"timeout", "denied"}
  <2>1. StepOf(t, i) \in 1..Len(ss) /\ ss[StepOf(t, i)].status = t[i].status
    BY <1>3, <1>4 DEF TraceUpTo
  <2> QED BY <1>2, <1>3, <1>4, <2>1 DEF Failing
<1>5. CASE t[i].type = "oracle" /\ OracleFail(t[i].verdict)
  <2>1. StepOf(t, i) \in 1..Len(ss) /\ ss[StepOf(t, i)].oracle = t[i].verdict
    BY <1>3, <1>5 DEF TraceUpTo
  <2> QED BY <1>2, <1>3, <1>5, <2>1 DEF Failing
<1> QED BY <1>2, <1>4, <1>5

\* So have the steps that a lead of the trace names.
LEMMA LeadFails ==
  ASSUME NEW t, TraceOK(t), NEW lead, IsOfTrace(lead, t), NEW n \in lead.sources
  PROVE  n \in DOMAIN StepsOf(t) /\ Failing(StepsOf(t)[n])
<1>1. lead # Given
  BY DEF Given
<1>2. PICK own \in AllLeads(t) : own = [lead EXCEPT !.priority = own.priority]
  BY <1>1 DEF IsOfTrace
<1>3. PICK signal \in Signals(t) : own = LeadOf(Group(Signals(t), signal))
  BY <1>2 DEF AllLeads
<1>4. /\ own.sources = {s.source : s \in Group(Signals(t), signal)}
      /\ DOMAIN own = {"kind", "fingerprint", "sources", "priority"}
  BY <1>3 DEF LeadOf
<1>5. lead.sources = own.sources
  <2>1. DOMAIN lead = DOMAIN own
    BY <1>2
  <2>2. "sources" \in DOMAIN lead
    BY <1>4, <2>1
  <2> QED BY <1>2, <2>2
<1>6. PICK s \in Signals(t) : n = s.source
  BY <1>4, <1>5 DEF Group
<1> QED BY <1>6, SignalFails

\* The verdict of an oracle that failed is a signal.
LEMMA FailHasLead ==
  ASSUME NEW t, TraceOK(t), SomeFails(StepsOf(t))
  PROVE  AllLeads(t) # {}
<1> DEFINE ss == StepsOf(t)
<1>1. PICK j \in DOMAIN ss : OracleFail(ss[j].oracle)
  BY DEF SomeFails
<1>2. j \in 1..Len(ss)
  BY <1>1, ProperLen DEF TraceOK, TraceUpTo
<1>3. PICK i \in DOMAIN t : t[i].type = "oracle" /\ t[i].verdict = ss[j].oracle
  BY <1>2 DEF TraceOK, TraceUpTo
<1>4. Signal(t, i, "oracle_failure", "major", None) \in Signals(t)
  BY <1>1, <1>3 DEF Signals, OracleFail
<1> QED BY <1>4 DEF AllLeads

\* What an investigation knows, changed field by field.
TakenUp(i, lead, status) == [i EXCEPT !.lead = lead, !.status = status]

LEMMA Investigated ==
  ASSUME NEW i, i = [lead |-> i.lead, status |-> i.status, promoted |-> i.promoted],
         NEW lead, NEW status
  PROVE  TakenUp(i, lead, status) =
           [lead |-> lead, status |-> status, promoted |-> i.promoted]
<1>0. PICK l, s, p : i = [lead |-> l, status |-> s, promoted |-> p]
  OBVIOUS
<1> DEFINE i1 == [i EXCEPT !.lead = lead]
<1>1. i1 = [lead |-> lead, status |-> s, promoted |-> p] /\ i.promoted = p
  BY <1>0
<1>2. TakenUp(i, lead, status) = [i1 EXCEPT !.status = status]
  BY DEF TakenUp
<1> HIDE DEF i1
<1>3. [i1 EXCEPT !.status = status] = [lead |-> lead, status |-> status, promoted |-> p]
  BY <1>1
<1> QED BY <1>1, <1>2, <1>3

\* A step that only changes the investigation.
LEMMA NoteStep ==
  ASSUME GuidedIInv, phase \in {"recorded", "ended", "closed"},
         UNCHANGED <<target, here, trace, actions, anyFailed, termination, recording, shrink>>,
         phase' = phase \/ (phase = "ended" /\ phase' = "closed" /\ steps # << >>),
         LeadInv', VerdictInv'
  PROVE  GuidedIInv'
<1>0. RunInv /\ RecordedInv /\ AgreeInv /\ FailInv /\ ShrinkInv
  BY DEF GuidedIInv
<1>1. Steps' = Steps /\ steps' = steps /\ LastStep' = LastStep
  BY DEF Steps, steps, LastStep
<1>2. RunInv'
  BY <1>0, <1>1 DEF RunInv
<1>3. RecordedInv'
  BY <1>0, <1>1 DEF RecordedInv
<1>4. AgreeInv'
  BY <1>0, <1>1 DEF AgreeInv
<1>5. FailInv'
  BY <1>0, <1>1 DEF FailInv
<1>6. ShrinkInv'
  BY <1>0 DEF ShrinkInv
<1> QED BY <1>2, <1>3, <1>4, <1>5, <1>6 DEF GuidedIInv

LEMMA ScoutStep ==
  ASSUME GuidedIInv, Scout
  PROVE  GuidedIInv'
<1>0. LeadInv /\ VerdictInv
  BY DEF GuidedIInv
<1>1. /\ phase = "recorded"
      /\ UNCHANGED <<phase, target, here, trace, actions, anyFailed, termination, recording,
                     shrink>>
  BY DEF Scout, loop
<1>2. PICK lead : investigation' = [investigation EXCEPT !.lead = lead]
  BY DEF Scout
<1>3. investigation' = [lead |-> lead, status |-> investigation.status,
                        promoted |-> investigation.promoted]
  BY <1>0, <1>2 DEF LeadInv
<1>4. /\ investigation'.status = investigation.status
      /\ investigation' = [lead |-> investigation'.lead, status |-> investigation'.status,
                           promoted |-> investigation'.promoted]
  BY <1>3
<1>5. Steps' = Steps /\ steps' = steps
  BY <1>1 DEF Steps, steps
<1>6. LeadInv'
  BY <1>0, <1>1, <1>4 DEF LeadInv
<1>7. VerdictInv'
  BY <1>0, <1>1, <1>4, <1>5 DEF VerdictInv
<1> QED BY <1>1, <1>6, <1>7, NoteStep

LEMMA PromoteStep ==
  ASSUME GuidedIInv, Promote
  PROVE  GuidedIInv'
<1>0. LeadInv /\ VerdictInv
  BY DEF GuidedIInv
<1>1. /\ phase = "closed"
      /\ UNCHANGED <<phase, target, here, trace, actions, anyFailed, termination, recording,
                     shrink>>
      /\ investigation' = [investigation EXCEPT !.promoted = TRUE]
  BY DEF Promote, loop
<1>3. investigation' = [lead |-> investigation.lead, status |-> investigation.status,
                        promoted |-> TRUE]
  BY <1>0, <1>1 DEF LeadInv
<1>4. /\ investigation'.status = investigation.status
      /\ investigation'.lead = investigation.lead
      /\ investigation' = [lead |-> investigation'.lead, status |-> investigation'.status,
                           promoted |-> investigation'.promoted]
  BY <1>3
<1>5. Steps' = Steps /\ steps' = steps
  BY <1>1 DEF Steps, steps
<1>6. LeadInv'
  BY <1>0, <1>1, <1>4, <1>5 DEF LeadInv
<1>7. VerdictInv'
  BY <1>0, <1>1, <1>4, <1>5 DEF VerdictInv
<1> QED BY <1>1, <1>6, <1>7, NoteStep

LEMMA InvestigateStep ==
  ASSUME GuidedIInv, Investigate
  PROVE  GuidedIInv'
<1> DEFINE lead == IF AllLeads(trace) = {} THEN Given ELSE investigation.lead
<1>0. RunInv /\ RecordedInv /\ AgreeInv /\ FailInv /\ LeadInv /\ VerdictInv /\ ShrinkInv
  BY DEF GuidedIInv
<1>1. /\ phase = "recorded" /\ actions > 0 /\ IsOfTrace(lead, trace)
      /\ investigation' = TakenUp(investigation, lead, "pending")
  BY DEF Investigate, Replayable, TakenUp
<1>2. /\ recording' = [target |-> target, steps |-> Steps]
      /\ phase' = "top" /\ here' = Start /\ trace' = << >> /\ actions' = 0
      /\ anyFailed' = FALSE /\ shrink' = shrink
  BY DEF Investigate
<1> HIDE DEF lead
<1>3. steps' = Steps /\ recording'.target = target
  BY <1>2 DEF steps
<1>4. Steps # << >>
  BY <1>0, <1>1, EmptyProper DEF RunInv
<1>5. Steps' = << >> /\ TraceOK(trace') /\ Reasons(trace') = {}
  BY <1>2, EmptyTrace DEF Steps
<1>6. investigation' = [lead |-> lead, status |-> "pending", promoted |-> investigation.promoted]
  BY <1>0, <1>1, Investigated DEF LeadInv
<1>7. /\ investigation'.status = "pending" /\ investigation'.lead = lead
      /\ investigation' = [lead |-> investigation'.lead, status |-> investigation'.status,
                           promoted |-> investigation'.promoted]
  BY <1>6
<1>8. RunInv'
  <2>1. PathOf(target', << >>)
    BY EmptyProper, ProperLen DEF PathOf
  <2> QED BY <1>2, <1>5, <2>1, EmptyProper DEF RunInv
<1>9. RecordedInv'
  <2>1. Proper(Steps)
    BY <1>0, StepTypes
  <2> QED BY <1>0, <1>2, <1>3, <2>1 DEF RecordedInv, RunInv
<1>10. AgreeInv'
  BY <1>2, <1>5 DEF AgreeInv
<1>11. FailInv'
  BY <1>2 DEF FailInv
<1>12. LeadInv'
  <2>1. \A n \in lead.sources : n \in DOMAIN Steps /\ Failing(Steps[n])
    BY <1>0, <1>1, LeadFails DEF RunInv, Steps
  <2> QED BY <1>2, <1>3, <1>4, <1>7, <2>1 DEF LeadInv
<1>13. VerdictInv'
  BY <1>5, <1>7 DEF VerdictInv
<1>14. ShrinkInv'
  BY <1>0, <1>2 DEF ShrinkInv
<1> QED BY <1>8, <1>9, <1>10, <1>11, <1>12, <1>13, <1>14 DEF GuidedIInv

LEMMA DivergedIs == Diverged <=> ~(Reasons(trace) \subseteq {"none"})
  BY DEF Diverged, Reasons

LEMMA ConcludeStep ==
  ASSUME GuidedIInv, Conclude
  PROVE  GuidedIInv'
<1>0. RunInv /\ RecordedInv /\ AgreeInv /\ LeadInv /\ VerdictInv
  BY DEF GuidedIInv
<1>1. /\ phase = "ended" /\ steps # << >> /\ phase' = "closed"
      /\ UNCHANGED <<target, here, trace, actions, anyFailed, termination, recording, shrink>>
  BY DEF Conclude, loop
<1>2. PICK complete \in BOOLEAN :
        investigation' = [investigation EXCEPT !.status = Conclusion(complete)]
  BY DEF Conclude
<1> DEFINE status == Conclusion(complete)
<1>3. status = "reproduced" =>
        /\ ~Diverged
        /\ \E i \in DOMAIN steps : Failing(steps[i])
        /\ \E i \in DOMAIN Steps : Failing(Steps[i])
  BY DEF Conclusion
<1> HIDE DEF status
<1>4. investigation' = [lead |-> investigation.lead, status |-> status,
                        promoted |-> investigation.promoted]
  BY <1>0, <1>2 DEF LeadInv, status
<1>5. /\ investigation'.status = status /\ investigation'.lead = investigation.lead
      /\ investigation' = [lead |-> investigation'.lead, status |-> investigation'.status,
                           promoted |-> investigation'.promoted]
  BY <1>4
<1>6. Steps' = Steps /\ steps' = steps
  BY <1>1 DEF Steps, steps
<1>7. LeadInv'
  BY <1>0, <1>1, <1>5, <1>6 DEF LeadInv
<1>8. ASSUME status = "reproduced"
      PROVE  /\ \E i \in DOMAIN steps : Failing(steps[i]) /\ i <= actions
             /\ \A j \in 1..actions : j <= Len(steps) => Steps[j] = steps[j]
  <2>1. \A j \in 1..actions : j <= Len(steps) => Steps[j] = steps[j]
    BY <1>0, <1>1, <1>3, <1>8, DivergedIs DEF AgreeInv
  <2>2. /\ actions \in Nat /\ Len(steps) \in Nat
        /\ DOMAIN steps = 1..Len(steps) /\ DOMAIN Steps = 1..actions
    BY <1>0, StepTypes
  <2>3. PICK i \in DOMAIN steps : Failing(steps[i])
    BY <1>3, <1>8
  <2>4. PICK k \in DOMAIN Steps : Failing(Steps[k])
    BY <1>3, <1>8
  <2>5. CASE k <= Len(steps)
    BY <2>1, <2>2, <2>4, <2>5
  <2>6. CASE k > Len(steps)
    <3>1. i <= actions
      BY <2>2, <2>3, <2>4, <2>6
    <3> QED BY <2>1, <2>3, <3>1
  <2> QED BY <2>2, <2>4, <2>5, <2>6
<1>9. VerdictInv'
  BY <1>0, <1>1, <1>5, <1>6, <1>8 DEF VerdictInv
<1> QED BY <1>1, <1>7, <1>9, NoteStep

-----------------------------------------------------------------------------
(* The theorems.                                                           *)

LEMMA GuidedInitOK ==
  ASSUME GuidedInit
  PROVE  GuidedIInv
<1>1. /\ phase = "top" /\ here = Start /\ trace = << >> /\ actions = 0 /\ anyFailed = FALSE
      /\ recording = [target |-> None, steps |-> << >>] /\ shrink = NoShrink
      /\ investigation = [lead |-> None, status |-> "none", promoted |-> FALSE]
  BY DEF GuidedInit, Fresh
<1>2. steps = << >> /\ Steps = << >> /\ TraceOK(trace) /\ Reasons(trace) = {}
  BY <1>1, EmptyTrace DEF steps, Steps
<1>3. /\ investigation.status = "none" /\ investigation.lead = None
      /\ investigation = [lead |-> investigation.lead, status |-> investigation.status,
                          promoted |-> investigation.promoted]
      /\ shrink = [current |-> shrink.current, chunk |-> shrink.chunk, from |-> shrink.from,
                   tries |-> shrink.tries]
  BY <1>1 DEF NoShrink
<1>4. \A t : PathOf(t, << >>)
  BY EmptyProper, ProperLen DEF PathOf
<1>5. RunInv
  BY <1>1, <1>2, <1>4, EmptyProper DEF RunInv
<1>6. RecordedInv
  BY <1>1, <1>2, <1>4, EmptyProper DEF RecordedInv
<1>7. AgreeInv
  BY <1>1, <1>2 DEF AgreeInv
<1>8. FailInv
  BY <1>1 DEF FailInv
<1>9. LeadInv
  BY <1>1, <1>3 DEF LeadInv
<1>10. VerdictInv
  BY <1>2, <1>3 DEF VerdictInv
<1>11. ShrinkInv
  BY <1>1, <1>3 DEF ShrinkInv
<1> QED BY <1>5, <1>6, <1>7, <1>8, <1>9, <1>10, <1>11 DEF GuidedIInv

LEMMA GuidedStutters ==
  ASSUME GuidedIInv, UNCHANGED guidedVars
  PROVE  GuidedIInv'
<1>1. UNCHANGED <<phase, target, here, trace, actions, anyFailed, termination, recording,
                  shrink, investigation>>
  BY DEF guidedVars
<1>2. /\ Steps' = Steps /\ steps' = steps /\ LastStep' = LastStep /\ Sequence' = Sequence
      /\ Goal' = Goal
  BY <1>1, Kept DEF steps
<1>3. RunInv'
  BY <1>1, <1>2 DEF GuidedIInv, RunInv
<1>4. RecordedInv'
  BY <1>1, <1>2 DEF GuidedIInv, RecordedInv
<1>5. AgreeInv'
  BY <1>1, <1>2 DEF GuidedIInv, AgreeInv, Repeated
<1>6. FailInv'
  BY <1>1, <1>2 DEF GuidedIInv, FailInv
<1>7. LeadInv'
  BY <1>1, <1>2 DEF GuidedIInv, LeadInv
<1>8. VerdictInv'
  BY <1>1, <1>2 DEF GuidedIInv, VerdictInv
<1>9. ShrinkInv'
  BY <1>1, <1>2 DEF GuidedIInv, ShrinkInv
<1> QED BY <1>3, <1>4, <1>5, <1>6, <1>7, <1>8, <1>9 DEF GuidedIInv

\* However a run, its reduction and its investigation go, the steps in the trace
\* are a path of the target, a replay that has not diverged has met the recorded
\* ones, and what failed is in the verdicts of the trace
\* (orchestrator.ts, replay.ts, commands/investigation.ts).
THEOREM GuidedIInvHolds == GuidedSpec => []GuidedIInv
<1>1. GuidedInit => GuidedIInv
  BY GuidedInitOK
<1>2. GuidedIInv /\ [GuidedNext]_guidedVars => GuidedIInv'
  <2> SUFFICES ASSUME GuidedIInv, [GuidedNext]_guidedVars
               PROVE  GuidedIInv'
    OBVIOUS
  <2>1. CASE OutOfActions
    BY <2>1, OutOfActionsStep
  <2>2. CASE StopWhen
    BY <2>2, StopWhenStep
  <2>3. CASE Observe
    BY <2>3, ObserveStep
  <2>4. CASE NothingSafe
    BY <2>4, NothingSafeStep
  <2>5. CASE SelectorStops
    BY <2>5, SelectorStopsStep
  <2>6. CASE PreflightFails
    BY <2>6, PreflightFailsStep
  <2>7. CASE SelectorFails
    BY <2>7, SelectorFailsStep
  <2>8. CASE Unresolved
    BY <2>8, UnresolvedStep
  <2>9. CASE Explore
    BY <2>9, ExploreStep
  <2>10. CASE Repeat
    BY <2>10, RepeatStep
  <2>11. CASE StepDiverges
    BY <2>11, StepDivergesStep
  <2>12. CASE OracleFails
    BY <2>12, OracleFailsStep
  <2>13. CASE GoOn
    BY <2>13, GoOnStep
  <2>14. CASE Recover
    BY <2>14, RecoverStep
  <2>15. CASE BeginShrink
    BY <2>15, BeginShrinkStep
  <2>16. CASE Try
    BY <2>16, TryStep
  <2>17. CASE Halve
    BY <2>17, HalveStep
  <2>18. CASE EndShrink
    BY <2>18, EndShrinkStep
  <2>19. CASE Scout
    BY <2>19, ScoutStep
  <2>20. CASE Investigate
    BY <2>20, InvestigateStep
  <2>21. CASE Conclude
    BY <2>21, ConcludeStep
  <2>22. CASE Promote
    BY <2>22, PromoteStep
  <2>23. CASE UNCHANGED guidedVars
    BY <2>23, GuidedStutters
  <2> QED BY <2>1, <2>2, <2>3, <2>4, <2>5, <2>6, <2>7, <2>8, <2>9, <2>10, <2>11, <2>12,
             <2>13, <2>14, <2>15, <2>16, <2>17, <2>18, <2>19, <2>20, <2>21, <2>22, <2>23
          DEF GuidedNext
<1> QED BY <1>1, <1>2, PTL DEF GuidedSpec

\* The verdict on a recording is what the replay has shown.
LEMMA InvestigationFollows ==
  ASSUME GuidedIInv
  PROVE  InvestigationInv
<1>0. /\ RunInv /\ RecordedInv /\ FailInv /\ LeadInv /\ VerdictInv
  BY DEF GuidedIInv
<1>1. /\ actions \in Nat /\ Len(steps) \in Nat
      /\ DOMAIN steps = 1..Len(steps) /\ DOMAIN Steps = 1..actions
  BY <1>0, StepTypes
<1>2. investigation.status = "reproduced" =>
        \A j \in 1..actions : j <= Len(steps) => Steps[j] = steps[j]
  BY <1>0 DEF VerdictInv
<1>3. ReproducedIsReal
  <2>1. ASSUME investigation.status = "reproduced"
        PROVE  \E i \in DOMAIN steps :
                 Failing(steps[i]) /\ i <= actions /\ \A j \in 1..i : Steps[j] = steps[j]
    <3>1. PICK i \in DOMAIN steps : Failing(steps[i]) /\ i <= actions
      BY <1>0, <2>1 DEF VerdictInv
    <3>2. \A j \in 1..i : Steps[j] = steps[j]
      BY <1>1, <1>2, <2>1, <3>1
    <3> QED BY <3>1, <3>2
  <2>2. ASSUME target = recording.target, NEW i \in DOMAIN trace,
               trace[i].type = "divergence"
        PROVE  trace[i].reason = "none"
    BY <1>0, <2>2 DEF VerdictInv, Reasons
  <2> QED BY <2>1, <2>2 DEF ReproducedIsReal
<1>4. LeadIsMet
  <2>1. phase = "recorded" /\ termination.outcome = "failed" => AllLeads(trace) # {}
    BY <1>0, FailHasLead DEF FailInv, RecordedInv, RunInv, Steps
  <2>2. ASSUME phase # "recorded", investigation.lead # None,
               NEW n \in investigation.lead.sources
        PROVE  /\ n \in DOMAIN steps /\ Failing(steps[n])
               /\ investigation.status = "reproduced" /\ n <= actions => Steps[n] = steps[n]
    <3>1. n \in DOMAIN steps /\ Failing(steps[n])
      BY <1>0, <2>2 DEF LeadInv
    <3> QED BY <1>1, <1>2, <3>1
  <2> QED BY <2>1, <2>2 DEF LeadIsMet
<1> QED BY <1>3, <1>4 DEF InvestigationInv

\* What an investigation says of a recorded run, and of a lead drawn from it, its
\* own replay has shown (commands/investigation.ts:112-226).
THEOREM InvestigationInvHolds == GuidedSpec => []InvestigationInv
<1>1. GuidedIInv => InvestigationInv
  BY InvestigationFollows
<1> QED BY <1>1, GuidedIInvHolds, PTL

\* A reduced sequence still fails as the run did, and with any one step less it
\* does not (input.ts:120-138).
THEOREM ShrunkIsMinimalHolds == GuidedSpec => []ShrunkIsMinimal
<1>1. GuidedIInv => ShrunkIsMinimal
  BY DEF GuidedIInv, ShrinkInv, ShrunkIsMinimal
<1> QED BY <1>1, GuidedIInvHolds, PTL

-----------------------------------------------------------------------------
(* The state graph of a guided run: the inductive invariant.               *)

GraphFields ==
  {"nodes", "edges", "offered", "executed", "pairs", "last", "novel", "revision",
   "actionCount"}

IsGraph(g) == g = [x \in GraphFields |-> g[x]]

\* A node as a reader of the graph takes it.
NodeOK(node) ==
  /\ node.first \in Nat /\ node.last \in Nat /\ node.first <= node.last
  /\ node.visits \in Nat /\ node.visits >= 1
  /\ IsFiniteSet(DOMAIN node.obligations)
  /\ \A o \in DOMAIN node.obligations :
       node.obligations[o] \in {"met", "unmet", "unknown"}

\* The nodes are what the entries show of the states.
NodesOf(nodes, t, states) ==
  /\ IsFiniteSet(DOMAIN nodes)
  /\ DOMAIN nodes = {s \in states : Sightings(t, s) # {}}
  /\ \A s \in DOMAIN nodes :
       /\ NodeOK(nodes[s])
       /\ nodes[s].visits = Cardinality(Sightings(t, s))
       /\ nodes[s].known = OfferedBy(t, s)

\* The edges are the moves, between nodes.
EdgesOf(edges, t) ==
  /\ IsFiniteSet(DOMAIN edges)
  /\ DOMAIN edges = {EdgeOfEntry(t[i]) : i \in Moves(t)}
  /\ \A e \in DOMAIN edges :
       /\ edges[e].count = Cardinality(Traversals(t, e))
       /\ edges[e].count \in Nat \ {0}
       /\ DOMAIN edges[e].statuses = {t[i].status : i \in Traversals(t, e)}
       /\ \A status \in DOMAIN edges[e].statuses :
            edges[e].statuses[status] = Cardinality(TraversalsWith(t, e, status))

Between(edges, nodes) ==
  \A e \in DOMAIN edges :
    /\ e.kind \in {"action", "denied", "timeout", "backtrack"}
    /\ e.from \in DOMAIN nodes /\ e.to \in DOMAIN nodes \cup {None}

\* The pairs are the moves that followed one another; the edge recorded last is
\* that of the last move.
PairsOf(pairs, last, t) ==
  /\ pairs = Followed(t)
  /\ \/ Moves(t) = {} /\ last = {}
     \/ \E i \in Moves(t) : (\A j \in Moves(t) : j <= i) /\ last = {EdgeOfEntry(t[i])}

\* Edges that do follow one another.
Linked(pairs, last, edges) ==
  /\ last \subseteq edges
  /\ pairs \subseteq {p \in edges \X edges : p[1].to = p[2].from}

\* What counts as offered an observation has shown.
OfferedOf(offered, executed, t) ==
  /\ IsFiniteSet(offered) /\ executed \subseteq offered
  /\ \A p \in offered : \E i \in DOMAIN t :
       t[i].type = "observation" /\ t[i].state = p[1] /\ p[2] \in t[i].offered

Told == {"observation", "execution", "recovery"}

\* No entry with something new is later than the last novelty, and none is later
\* than the run.
NovelOf(novel, t, n) ==
  /\ novel \in Nat /\ novel <= n
  /\ \A i \in DOMAIN t : t[i].type \in Told =>
       t[i].at \in Nat /\ (Novel(t, i) => t[i].at <= novel)

\* At every stop on the plateau the last actions had shown nothing new.
QuietOf(t) ==
  \A i \in DOMAIN t : t[i].type = "stop" =>
    \A c \in t[i].met : c.type = "noveltyPlateau" =>
      /\ t[i].actions >= c.minActions
      /\ \A j \in 1..i - 1 :
           t[j].type \in Told /\ t[j].at > t[i].actions - c.windowActions
           => ~Novel(t, j)

HistoryOf(g, t, states, n) ==
  /\ Proper(t) /\ IsGraph(g) /\ g.revision \in Nat
  /\ NodesOf(g.nodes, t, states) /\ EdgesOf(g.edges, t) /\ Between(g.edges, g.nodes)
  /\ PairsOf(g.pairs, g.last, t) /\ Linked(g.pairs, g.last, DOMAIN g.edges)
  /\ OfferedOf(g.offered, g.executed, t) /\ NovelOf(g.novel, t, n) /\ QuietOf(t)

\* Where the run is, the graph knows.
PlaceInv ==
  /\ WellFormed(target) /\ setting \in Settings
  /\ steps = << >> => target \in Targets
  /\ here \in DOMAIN target.offers
  /\ phase = "select" =>
       /\ here \in DOMAIN graph.nodes
       /\ \A c \in target.offers[here] : <<here, c>> \in graph.offered
  /\ phase = "judge" =>
       /\ LastStep.pre \in DOMAIN graph.nodes
       /\ LastStep.post \in DOMAIN graph.nodes \cup {None}

GraphIInv == PlaceInv /\ HistoryOf(graph, trace, DOMAIN target.offers, actions)

-----------------------------------------------------------------------------
(* What the operations do to the fields of the graph.                      *)

\* A node seen first, seen again, and with more candidates.
FirstSeen(ob, at) ==
  [first |-> at, last |-> at, visits |-> 1, known |-> {}, obligations |-> ob]

SeenAgain(node, ob, at) ==
  [first |-> node.first, last |-> Later(node.last, at), visits |-> node.visits + 1,
   known |-> node.known, obligations |-> Merged(node.obligations, ob)]

Offering(node, candidates, at) ==
  [first |-> node.first, last |-> Later(node.last, at), visits |-> node.visits,
   known |-> node.known \cup candidates, obligations |-> node.obligations]

\* One field changed.
LEMMA FieldSet ==
  ASSUME NEW g, IsGraph(g), NEW f \in GraphFields, NEW v
  PROVE  /\ IsGraph([g EXCEPT ![f] = v])
         /\ \A x \in GraphFields : [g EXCEPT ![f] = v][x] = IF x = f THEN v ELSE g[x]
  BY DEF IsGraph

\* What recordState changes for a state that is new.
LEMMA NewNodeFields ==
  ASSUME NEW g, IsGraph(g), NEW fp, NEW ob, NEW at, NEW r, r = NewNode(g, fp, ob, at)
  PROVE  /\ IsGraph(r) /\ r.nodes = With(g.nodes, fp, FirstSeen(ob, at))
         /\ r.novel = at /\ r.revision = g.revision + 1
         /\ r.edges = g.edges /\ r.offered = g.offered /\ r.executed = g.executed
         /\ r.pairs = g.pairs /\ r.last = g.last
<1> DEFINE n == With(g.nodes, fp, FirstSeen(ob, at))
           a == [g EXCEPT !.nodes = n]
           b == [a EXCEPT !.revision = g.revision + 1]
           c == [b EXCEPT !.novel = at]
<1>1. r = c
  BY DEF NewNode, FirstSeen
<1> HIDE DEF n
<1>2. IsGraph(a) /\ \A x \in GraphFields : a[x] = IF x = "nodes" THEN n ELSE g[x]
  BY FieldSet DEF GraphFields
<1> HIDE DEF a
<1>3. /\ IsGraph(b)
      /\ \A x \in GraphFields : b[x] = IF x = "revision" THEN g.revision + 1 ELSE a[x]
  BY <1>2, FieldSet DEF GraphFields
<1> HIDE DEF b
<1>4. IsGraph(c) /\ \A x \in GraphFields : c[x] = IF x = "novel" THEN at ELSE b[x]
  BY <1>3, FieldSet DEF GraphFields
<1> HIDE DEF c
<1> QED BY <1>1, <1>2, <1>3, <1>4 DEF GraphFields, n

\* What it changes for a state that is known.
LEMMA VisitFields ==
  ASSUME NEW g, IsGraph(g), NEW fp, NEW ob, NEW at, NEW r, r = Visit(g, fp, ob, at)
  PROVE  /\ IsGraph(r) /\ r.nodes = With(g.nodes, fp, SeenAgain(g.nodes[fp], ob, at))
         /\ r.novel \in {g.novel, at} /\ r.revision \in {g.revision, g.revision + 1}
         /\ r.edges = g.edges /\ r.offered = g.offered /\ r.executed = g.executed
         /\ r.pairs = g.pairs /\ r.last = g.last
<1> DEFINE n == With(g.nodes, fp, SeenAgain(g.nodes[fp], ob, at))
           news == Merged(g.nodes[fp].obligations, ob) # g.nodes[fp].obligations
           v == IF news THEN g.revision + 1 ELSE g.revision
           w == IF news THEN at ELSE g.novel
           a == [g EXCEPT !.nodes = n]
           b == [a EXCEPT !.revision = v]
           c == [b EXCEPT !.novel = w]
<1>1. r = c
  BY DEF Visit, SeenAgain
<1>0. v \in {g.revision, g.revision + 1} /\ w \in {g.novel, at}
  OBVIOUS
<1> HIDE DEF n, v, w
<1>2. IsGraph(a) /\ \A x \in GraphFields : a[x] = IF x = "nodes" THEN n ELSE g[x]
  BY FieldSet DEF GraphFields
<1> HIDE DEF a
<1>3. IsGraph(b) /\ \A x \in GraphFields : b[x] = IF x = "revision" THEN v ELSE a[x]
  BY <1>2, FieldSet DEF GraphFields
<1> HIDE DEF b
<1>4. IsGraph(c) /\ \A x \in GraphFields : c[x] = IF x = "novel" THEN w ELSE b[x]
  BY <1>3, FieldSet DEF GraphFields
<1> HIDE DEF c
<1> QED BY <1>0, <1>1, <1>2, <1>3, <1>4 DEF GraphFields, n

\* r is g with the candidates of a state offered in it.
Offered(g, r, fp, C, at) ==
  /\ IsGraph(r)
  /\ r.nodes = IF fp \in DOMAIN g.nodes /\ ~ C \subseteq g.nodes[fp].known
               THEN With(g.nodes, fp, Offering(g.nodes[fp], C, at)) ELSE g.nodes
  /\ r.offered = g.offered \cup {<<fp, c>> : c \in C}
  /\ r.novel = IF {c \in C : <<fp, c>> \notin g.offered} # {} THEN at ELSE g.novel
  /\ r.revision = g.revision + Cardinality({c \in C : <<fp, c>> \notin g.offered})
  /\ r.edges = g.edges /\ r.executed = g.executed
  /\ r.pairs = g.pairs /\ r.last = g.last

\* What recordOffered changes.
LEMMA OfferedFields ==
  ASSUME NEW g, IsGraph(g), NEW fp, NEW C, NEW at, NEW r, r = RecordOffered(g, fp, C, at)
  PROVE  Offered(g, r, fp, C, at)
<1> DEFINE fresh == {c \in C : <<fp, c>> \notin g.offered}
           n == IF fp \in DOMAIN g.nodes /\ ~ C \subseteq g.nodes[fp].known
                THEN With(g.nodes, fp, Offering(g.nodes[fp], C, at)) ELSE g.nodes
           o == g.offered \cup {<<fp, c>> : c \in C}
           v == g.revision + Cardinality(fresh)
           w == IF fresh # {} THEN at ELSE g.novel
           z == [g EXCEPT !.offered = o]
           a == [z EXCEPT !.nodes = n]
           b == [a EXCEPT !.revision = v]
           c4 == [b EXCEPT !.novel = w]
<1>1. r = c4
  BY DEF RecordOffered, Offering
<1> HIDE DEF n, o, v, w
<1>5. IsGraph(z) /\ \A x \in GraphFields : z[x] = IF x = "offered" THEN o ELSE g[x]
  BY FieldSet DEF GraphFields
<1> HIDE DEF z
<1>2. IsGraph(a) /\ \A x \in GraphFields : a[x] = IF x = "nodes" THEN n ELSE z[x]
  BY <1>5, FieldSet DEF GraphFields
<1> HIDE DEF a
<1>3. IsGraph(b) /\ \A x \in GraphFields : b[x] = IF x = "revision" THEN v ELSE a[x]
  BY <1>2, FieldSet DEF GraphFields
<1> HIDE DEF b
<1>4. IsGraph(c4) /\ \A x \in GraphFields : c4[x] = IF x = "novel" THEN w ELSE b[x]
  BY <1>3, FieldSet DEF GraphFields
<1> HIDE DEF c4
<1>6. /\ IsGraph(r) /\ r.nodes = n /\ r.offered = o /\ r.novel = w /\ r.revision = v
      /\ r.edges = g.edges /\ r.executed = g.executed /\ r.pairs = g.pairs
      /\ r.last = g.last
  BY <1>1, <1>2, <1>3, <1>4, <1>5 DEF GraphFields
<1> QED BY <1>6 DEF Offered, n, o, v, w

\* What the recording of an edge changes.
LEMMA FollowFields ==
  ASSUME NEW g, IsGraph(g), NEW edge, NEW status, NEW r, r = Follow(g, edge, status)
  PROVE  /\ IsGraph(r) /\ r.edges = Counted(g.edges, edge, status)
         /\ r.pairs = g.pairs \cup {<<l, edge>> : l \in {e \in g.last : e.to = edge.from}}
         /\ r.last = {edge} /\ r.revision = g.revision + 1
         /\ r.nodes = g.nodes /\ r.offered = g.offered /\ r.executed = g.executed
         /\ r.novel = g.novel
<1> DEFINE n == Counted(g.edges, edge, status)
           p == g.pairs \cup {<<l, edge>> : l \in {e \in g.last : e.to = edge.from}}
           z == [g EXCEPT !.edges = n]
           a == [z EXCEPT !.pairs = p]
           b == [a EXCEPT !.last = {edge}]
           c == [b EXCEPT !.revision = g.revision + 1]
<1>1. r = c
  BY DEF Follow
<1> HIDE DEF n, p
<1>5. IsGraph(z) /\ \A x \in GraphFields : z[x] = IF x = "edges" THEN n ELSE g[x]
  BY FieldSet DEF GraphFields
<1> HIDE DEF z
<1>2. IsGraph(a) /\ \A x \in GraphFields : a[x] = IF x = "pairs" THEN p ELSE z[x]
  BY <1>5, FieldSet DEF GraphFields
<1> HIDE DEF a
<1>3. IsGraph(b) /\ \A x \in GraphFields : b[x] = IF x = "last" THEN {edge} ELSE a[x]
  BY <1>2, FieldSet DEF GraphFields
<1> HIDE DEF b
<1>4. /\ IsGraph(c)
      /\ \A x \in GraphFields : c[x] = IF x = "revision" THEN g.revision + 1 ELSE b[x]
  BY <1>3, FieldSet DEF GraphFields
<1> HIDE DEF c
<1> QED BY <1>1, <1>2, <1>3, <1>4, <1>5 DEF GraphFields, n, p

\* What recordTransition changes; an edge that is new is a novelty.
LEMMA TransitionFields ==
  ASSUME NEW g, IsGraph(g), NEW from, NEW c, NEW status, NEW to, NEW at, NEW edge,
         edge = EdgeOf(from, c, to, ExecutionKind(status)),
         NEW r, r = RecordTransition(g, from, c, status, to, at)
  PROVE  /\ IsGraph(r) /\ r.edges = Counted(g.edges, edge, status)
         /\ r.pairs = g.pairs \cup {<<l, edge>> : l \in {e \in g.last : e.to = edge.from}}
         /\ r.last = {edge} /\ r.revision = g.revision + 1
         /\ r.nodes = g.nodes /\ r.offered = g.offered
         /\ r.executed = g.executed \cup {<<from, c>>}
         /\ r.novel \in {g.novel, at} /\ (edge \notin DOMAIN g.edges => r.novel = at)
<1> DEFINE next == Follow(g, edge, status)
           k == Later(next.actionCount, at)
           x1 == next.executed \cup {<<from, c>>}
           w == IF next.pairs # g.pairs \/ edge \notin DOMAIN g.edges THEN at ELSE next.novel
           a == [next EXCEPT !.actionCount = k]
           b == [a EXCEPT !.executed = x1]
           d == [b EXCEPT !.novel = w]
<1>1. r = d
  BY DEF RecordTransition
<1>0. w \in {next.novel, at} /\ (edge \notin DOMAIN g.edges => w = at)
  OBVIOUS
<1> HIDE DEF next, k, x1, w
<1>5. /\ IsGraph(next) /\ next.edges = Counted(g.edges, edge, status)
      /\ next.pairs = g.pairs \cup {<<l, edge>> : l \in {e \in g.last : e.to = edge.from}}
      /\ next.last = {edge} /\ next.revision = g.revision + 1
      /\ next.nodes = g.nodes /\ next.offered = g.offered /\ next.executed = g.executed
      /\ next.novel = g.novel
  BY FollowFields DEF next
<1>2. IsGraph(a) /\ \A x \in GraphFields : a[x] = IF x = "actionCount" THEN k ELSE next[x]
  BY <1>5, FieldSet DEF GraphFields
<1> HIDE DEF a
<1>3. IsGraph(b) /\ \A x \in GraphFields : b[x] = IF x = "executed" THEN x1 ELSE a[x]
  BY <1>2, FieldSet DEF GraphFields
<1> HIDE DEF b
<1>4. IsGraph(d) /\ \A x \in GraphFields : d[x] = IF x = "novel" THEN w ELSE b[x]
  BY <1>3, FieldSet DEF GraphFields
<1> HIDE DEF d
<1>6. /\ IsGraph(r) /\ r.novel = w /\ r.executed = x1 /\ r.edges = next.edges
      /\ r.pairs = next.pairs /\ r.last = next.last /\ r.revision = next.revision
      /\ r.nodes = next.nodes /\ r.offered = next.offered
  BY <1>1, <1>2, <1>3, <1>4 DEF GraphFields
<1> QED BY <1>0, <1>5, <1>6 DEF x1

\* What recordControlTransition changes; it offers and executes nothing.
LEMMA ControlFields ==
  ASSUME NEW g, IsGraph(g), NEW from, NEW c, NEW status, NEW to, NEW kind, NEW at, NEW edge,
         edge = EdgeOf(from, c, to, kind),
         NEW r, r = RecordControl(g, from, c, status, to, kind, at)
  PROVE  /\ IsGraph(r) /\ r.edges = Counted(g.edges, edge, status)
         /\ r.pairs = g.pairs \cup {<<l, edge>> : l \in {e \in g.last : e.to = edge.from}}
         /\ r.last = {edge} /\ r.revision = g.revision + 1
         /\ r.nodes = g.nodes /\ r.offered = g.offered /\ r.executed = g.executed
         /\ r.novel \in {g.novel, at} /\ (edge \notin DOMAIN g.edges => r.novel = at)
<1> DEFINE next == Follow(g, edge, status)
           w == IF edge \notin DOMAIN g.edges THEN at ELSE next.novel
           d == [next EXCEPT !.novel = w]
<1>1. r = d
  BY DEF RecordControl
<1>0. w \in {next.novel, at} /\ (edge \notin DOMAIN g.edges => w = at)
  OBVIOUS
<1> HIDE DEF next, w
<1>5. /\ IsGraph(next) /\ next.edges = Counted(g.edges, edge, status)
      /\ next.pairs = g.pairs \cup {<<l, edge>> : l \in {e \in g.last : e.to = edge.from}}
      /\ next.last = {edge} /\ next.revision = g.revision + 1
      /\ next.nodes = g.nodes /\ next.offered = g.offered /\ next.executed = g.executed
      /\ next.novel = g.novel
  BY FollowFields DEF next
<1>4. IsGraph(d) /\ \A x \in GraphFields : d[x] = IF x = "novel" THEN w ELSE next[x]
  BY <1>5, FieldSet DEF GraphFields
<1> HIDE DEF d
<1> QED BY <1>0, <1>1, <1>4, <1>5 DEF GraphFields

-----------------------------------------------------------------------------
(* What one entry more does to what is read of a trace.                    *)

\* A trace with one entry more.
LEMMA Grown ==
  ASSUME NEW t, Proper(t), NEW e, NEW u, u = Append(t, e)
  PROVE  /\ Proper(u) /\ Len(t) \in Nat /\ Len(u) = Len(t) + 1
         /\ DOMAIN t = 1..Len(t) /\ DOMAIN u = 1..(Len(t) + 1)
         /\ u[Len(t) + 1] = e /\ \A k \in 1..Len(t) : u[k] = t[k]
  BY ProperLen, ProperAppend

\* One number more than those up to m.
LEMMA OneMore ==
  ASSUME NEW m \in Nat, NEW S \in SUBSET (1..m)
  PROVE  /\ IsFiniteSet(S) /\ Cardinality(S) \in Nat
         /\ Cardinality(S \cup {m + 1}) = Cardinality(S) + 1
         /\ (S # {} => Cardinality(S) # 0)
<1>1. IsFiniteSet(1..m)
  BY FS_Interval
<1>2. IsFiniteSet(S)
  BY <1>1, FS_Subset
<1>3. m + 1 \notin S
  OBVIOUS
<1> QED BY <1>2, <1>3, FS_AddElement, FS_CardinalityType, FS_EmptySet

\* A set of numbers up to m, with or without one more.
LEMMA SetGrown ==
  ASSUME NEW m \in Nat, NEW T, NEW U, T \subseteq 1..m, U \subseteq 1..(m + 1),
         \A k \in 1..m : k \in U <=> k \in T
  PROVE  /\ m + 1 \in U => U = T \cup {m + 1}
         /\ m + 1 \notin U => U = T
<1>1. \A k \in 1..(m + 1) : k \in 1..m \/ k = m + 1
  OBVIOUS
<1>2. \A k \in U : k \in T \/ k = m + 1
  BY <1>1
<1>3. \A k \in T : k \in U
  OBVIOUS
<1> QED BY <1>2, <1>3

\* Sightings are places in the trace.
LEMMA SightingsUpto ==
  ASSUME NEW t, Proper(t), NEW s
  PROVE  Len(t) \in Nat /\ Sightings(t, s) \in SUBSET (1..Len(t))
  BY ProperLen DEF Sightings

\* An entry that shows a state is one more sighting of it.
LEMMA SightingsGrown ==
  ASSUME NEW t, Proper(t), NEW e, NEW s
  PROVE  /\ Shows(e, s) =>
              Sightings(Append(t, e), s) = Sightings(t, s) \cup {Len(t) + 1}
         /\ ~Shows(e, s) => Sightings(Append(t, e), s) = Sightings(t, s)
<1> DEFINE m == Len(t)
           u == Append(t, e)
<1>1. /\ m \in Nat /\ DOMAIN t = 1..m /\ DOMAIN u = 1..(m + 1)
      /\ u[m + 1] = e /\ \A k \in 1..m : u[k] = t[k]
  BY Grown
<1> HIDE DEF m, u
<1>2. ASSUME NEW k \in 1..m
      PROVE  k \in Sightings(u, s) <=> k \in Sightings(t, s)
  BY <1>1, <1>2 DEF Sightings
<1>3. m + 1 \in Sightings(u, s) <=> Shows(e, s)
  BY <1>1 DEF Sightings
<1>4. Sightings(u, s) \subseteq 1..(m + 1) /\ Sightings(t, s) \in SUBSET (1..m)
  BY <1>1 DEF Sightings
<1>5. /\ m + 1 \in Sightings(u, s) => Sightings(u, s) = Sightings(t, s) \cup {m + 1}
      /\ m + 1 \notin Sightings(u, s) => Sightings(u, s) = Sightings(t, s)
  BY <1>1, <1>2, <1>4, SetGrown
<1> QED BY <1>3, <1>4, <1>5 DEF m, u

\* Hence a state has been seen once more, or as often as before.
LEMMA SightingsCounted ==
  ASSUME NEW t, Proper(t), NEW e, NEW u, u = Append(t, e), NEW s
  PROVE  /\ Cardinality(Sightings(t, s)) \in Nat
         /\ Cardinality(Sightings(u, s)) =
              IF Shows(e, s) THEN Cardinality(Sightings(t, s)) + 1
                             ELSE Cardinality(Sightings(t, s))
<1>1. Len(t) \in Nat /\ Sightings(t, s) \in SUBSET (1..Len(t))
  BY SightingsUpto
<1>2. /\ Cardinality(Sightings(t, s)) \in Nat
      /\ Cardinality(Sightings(t, s) \cup {Len(t) + 1}) = Cardinality(Sightings(t, s)) + 1
  BY <1>1, OneMore
<1> QED BY <1>2, SightingsGrown

IsMove(e) == e.type \in {"execution", "recovery"}

\* An entry about a move is one more move.
LEMMA MovesGrown ==
  ASSUME NEW t, Proper(t), NEW e, NEW u, u = Append(t, e)
  PROVE  /\ Moves(t) \subseteq 1..Len(t)
         /\ IsMove(e) => Moves(u) = Moves(t) \cup {Len(t) + 1}
         /\ ~IsMove(e) => Moves(u) = Moves(t)
<1> DEFINE m == Len(t)
<1>1. /\ m \in Nat /\ DOMAIN t = 1..m /\ DOMAIN u = 1..(m + 1)
      /\ u[m + 1] = e /\ \A k \in 1..m : u[k] = t[k]
  BY Grown
<1> HIDE DEF m
<1>2. ASSUME NEW k \in 1..m
      PROVE  k \in Moves(u) <=> k \in Moves(t)
  BY <1>1, <1>2 DEF Moves
<1>3. m + 1 \in Moves(u) <=> IsMove(e)
  BY <1>1 DEF Moves, IsMove
<1>4. Moves(u) \subseteq 1..(m + 1) /\ Moves(t) \subseteq 1..m
  BY <1>1 DEF Moves
<1>5. /\ m + 1 \in Moves(u) => Moves(u) = Moves(t) \cup {m + 1}
      /\ m + 1 \notin Moves(u) => Moves(u) = Moves(t)
  BY <1>1, <1>2, <1>4, SetGrown
<1> QED BY <1>3, <1>4, <1>5 DEF m

Crosses(e, edge) == IsMove(e) /\ EdgeOfEntry(e) = edge

\* Traversals are places in the trace.
LEMMA TraversalsUpto ==
  ASSUME NEW t, Proper(t), NEW edge
  PROVE  Len(t) \in Nat /\ Traversals(t, edge) \in SUBSET (1..Len(t))
  BY ProperLen DEF Traversals, Moves

\* A move over an edge is one more traversal of it.
LEMMA TraversalsGrown ==
  ASSUME NEW t, Proper(t), NEW e, NEW edge
  PROVE  /\ Crosses(e, edge) =>
              Traversals(Append(t, e), edge) = Traversals(t, edge) \cup {Len(t) + 1}
         /\ ~Crosses(e, edge) => Traversals(Append(t, e), edge) = Traversals(t, edge)
<1> DEFINE m == Len(t)
           u == Append(t, e)
<1>1. /\ m \in Nat /\ u[m + 1] = e /\ \A k \in 1..m : u[k] = t[k]
  BY Grown
<1>2. /\ Moves(t) \subseteq 1..m
      /\ IsMove(e) => Moves(u) = Moves(t) \cup {m + 1}
      /\ ~IsMove(e) => Moves(u) = Moves(t)
  BY MovesGrown
<1> HIDE DEF m, u
<1>2a. m + 1 \notin 1..m
  BY <1>1
<1>3. ASSUME NEW k \in 1..m
      PROVE  k \in Traversals(u, edge) <=> k \in Traversals(t, edge)
  <2>1. k \in Moves(u) <=> k \in Moves(t)
    BY <1>1, <1>2, <1>3
  <2>2. u[k] = t[k]
    BY <1>1, <1>3
  <2> QED BY <2>1, <2>2 DEF Traversals
<1>4. m + 1 \in Traversals(u, edge) <=> Crosses(e, edge)
  <2>1. m + 1 \in Moves(u) <=> IsMove(e)
    BY <1>1, <1>2, <1>2a
  <2> QED BY <1>1, <2>1 DEF Traversals, Crosses
<1>5. Traversals(u, edge) \subseteq 1..(m + 1) /\ Traversals(t, edge) \in SUBSET (1..m)
  BY <1>1, <1>2 DEF Traversals
<1>6. /\ m + 1 \in Traversals(u, edge) => Traversals(u, edge) = Traversals(t, edge) \cup {m + 1}
      /\ m + 1 \notin Traversals(u, edge) => Traversals(u, edge) = Traversals(t, edge)
  BY <1>1, <1>3, <1>5, SetGrown
<1> QED BY <1>4, <1>5, <1>6 DEF m, u

\* Hence an edge was taken once more, or as often as before.
LEMMA TraversalsCounted ==
  ASSUME NEW t, Proper(t), NEW e, NEW u, u = Append(t, e), NEW edge
  PROVE  /\ Cardinality(Traversals(t, edge)) \in Nat
         /\ Cardinality(Traversals(u, edge)) =
              IF Crosses(e, edge) THEN Cardinality(Traversals(t, edge)) + 1
                                  ELSE Cardinality(Traversals(t, edge))
<1>1. Len(t) \in Nat /\ Traversals(t, edge) \in SUBSET (1..Len(t))
  BY TraversalsUpto
<1>2. /\ Cardinality(Traversals(t, edge)) \in Nat
      /\ Cardinality(Traversals(t, edge) \cup {Len(t) + 1}) =
           Cardinality(Traversals(t, edge)) + 1
  BY <1>1, OneMore
<1> QED BY <1>2, TraversalsGrown

\* The same for the traversals with one outcome.
LEMMA OutcomesCounted ==
  ASSUME NEW t, Proper(t), NEW e, NEW edge, NEW status
  PROVE  /\ Cardinality(TraversalsWith(t, edge, status)) \in Nat
         /\ Crosses(e, edge) /\ e.status = status =>
              Cardinality(TraversalsWith(Append(t, e), edge, status)) =
                Cardinality(TraversalsWith(t, edge, status)) + 1
         /\ ~(Crosses(e, edge) /\ e.status = status) =>
              Cardinality(TraversalsWith(Append(t, e), edge, status)) =
                Cardinality(TraversalsWith(t, edge, status))
<1> DEFINE m == Len(t)
           u == Append(t, e)
           more == Crosses(e, edge) /\ e.status = status
           T == TraversalsWith(t, edge, status)
           U == TraversalsWith(u, edge, status)
<1>1. /\ m \in Nat /\ u[m + 1] = e /\ \A k \in 1..m : u[k] = t[k]
  BY Grown
<1>2. /\ Traversals(t, edge) \subseteq 1..m
      /\ Crosses(e, edge) => Traversals(u, edge) = Traversals(t, edge) \cup {m + 1}
      /\ ~Crosses(e, edge) => Traversals(u, edge) = Traversals(t, edge)
  BY TraversalsGrown, TraversalsUpto
<1> HIDE DEF m, u
<1>2a. m + 1 \notin 1..m
  BY <1>1
<1>3. ASSUME NEW k \in 1..m
      PROVE  k \in U <=> k \in T
  <2>1. k \in Traversals(u, edge) <=> k \in Traversals(t, edge)
    BY <1>1, <1>2, <1>3
  <2>2. u[k] = t[k]
    BY <1>1, <1>3
  <2> QED BY <2>1, <2>2 DEF TraversalsWith
<1>4. m + 1 \in U <=> more
  <2>1. m + 1 \in Traversals(u, edge) <=> Crosses(e, edge)
    BY <1>1, <1>2, <1>2a
  <2> QED BY <1>1, <2>1 DEF TraversalsWith
<1>5. U \subseteq 1..(m + 1) /\ T \in SUBSET (1..m)
  BY <1>1, <1>2 DEF TraversalsWith
<1> HIDE DEF U, T, more
<1>6. /\ m + 1 \in U => U = T \cup {m + 1}
      /\ m + 1 \notin U => U = T
  BY <1>1, <1>3, <1>5, SetGrown
<1>8. Cardinality(T) \in Nat /\ Cardinality(T \cup {m + 1}) = Cardinality(T) + 1
  BY <1>1, <1>5, OneMore
<1> QED BY <1>4, <1>6, <1>8 DEF more, U, T, u

\* An observation of a state adds what it offers to what the state has offered.
LEMMA OfferedByGrown ==
  ASSUME NEW t, Proper(t), NEW e, NEW s
  PROVE  /\ e.type = "observation" /\ e.state = s =>
              OfferedBy(Append(t, e), s) = OfferedBy(t, s) \cup e.offered
         /\ e.type # "observation" \/ e.state # s =>
              OfferedBy(Append(t, e), s) = OfferedBy(t, s)
<1> DEFINE m == Len(t)
           u == Append(t, e)
           D(w) == {j \in DOMAIN w : w[j].type = "observation" /\ w[j].state = s}
<1>1. /\ m \in Nat /\ DOMAIN t = 1..m /\ DOMAIN u = 1..(m + 1)
      /\ u[m + 1] = e /\ \A k \in 1..m : u[k] = t[k]
  BY Grown
<1> HIDE DEF m, u
<1>2. \A w, c : c \in OfferedBy(w, s) <=> \E i \in D(w) : c \in w[i].offered
  BY DEF OfferedBy
<1>3. \A k \in 1..m : k \in D(u) <=> k \in D(t)
  BY <1>1
<1>4. m + 1 \in D(u) <=> e.type = "observation" /\ e.state = s
  BY <1>1
<1>5. D(t) \subseteq 1..m /\ D(u) \subseteq 1..(m + 1)
  BY <1>1
<1> HIDE DEF D
<1>6. ASSUME NEW c
      PROVE  c \in OfferedBy(u, s) <=>
               \/ c \in OfferedBy(t, s)
               \/ e.type = "observation" /\ e.state = s /\ c \in e.offered
  <2>1. ASSUME c \in OfferedBy(u, s)
        PROVE  \/ c \in OfferedBy(t, s)
               \/ e.type = "observation" /\ e.state = s /\ c \in e.offered
    <3>1. PICK i \in D(u) : c \in u[i].offered
      BY <1>2, <2>1
    <3>2. CASE i = m + 1
      BY <1>1, <1>4, <3>1, <3>2
    <3>3. CASE i \in 1..m
      BY <1>1, <1>2, <1>3, <3>1, <3>3
    <3> QED BY <1>1, <1>5, <3>1, <3>2, <3>3
  <2>2. ASSUME c \in OfferedBy(t, s)
        PROVE  c \in OfferedBy(u, s)
    <3>1. PICK i \in D(t) : c \in t[i].offered
      BY <1>2, <2>2
    <3> QED BY <1>1, <1>2, <1>3, <1>5, <3>1
  <2>3. ASSUME e.type = "observation" /\ e.state = s /\ c \in e.offered
        PROVE  c \in OfferedBy(u, s)
    BY <1>1, <1>2, <1>4, <2>3
  <2> QED BY <2>1, <2>2, <2>3
<1>7. e.type = "observation" /\ e.state = s => OfferedBy(u, s) = OfferedBy(t, s) \cup e.offered
  BY <1>6
<1>8. e.type # "observation" \/ e.state # s => OfferedBy(u, s) = OfferedBy(t, s)
  BY <1>6
<1> QED BY <1>7, <1>8 DEF u

\* The moves of one more follow each other as before, and the new one follows the
\* last one when that had led here.
LEMMA FollowedGrown ==
  ASSUME NEW t, Proper(t), NEW e, NEW u, u = Append(t, e)
  PROVE  /\ ~IsMove(e) => Followed(u) = Followed(t)
         /\ IsMove(e) /\ Moves(t) = {} => Followed(u) = Followed(t)
         /\ \A i \in Moves(t) :
              (\A j \in Moves(t) : j <= i) /\ IsMove(e) =>
                Followed(u) = Followed(t) \cup
                  (IF t[i].post = e.action[1] THEN {<<EdgeOfEntry(t[i]), EdgeOfEntry(e)>>}
                                              ELSE {})
<1> DEFINE m == Len(t)
           Q(w) == {q \in Moves(w) \X Moves(w) :
                      /\ q[1] < q[2] /\ \A k \in Moves(w) : k <= q[1] \/ k >= q[2]
                      /\ w[q[1]].post = w[q[2]].action[1]}
           P(w, q) == <<EdgeOfEntry(w[q[1]]), EdgeOfEntry(w[q[2]])>>
<1>1. /\ m \in Nat /\ u[m + 1] = e /\ \A k \in 1..m : u[k] = t[k]
  BY Grown
<1>2. /\ Moves(t) \subseteq 1..m
      /\ IsMove(e) => Moves(u) = Moves(t) \cup {m + 1}
      /\ ~IsMove(e) => Moves(u) = Moves(t)
  BY MovesGrown
<1> HIDE DEF m
<1>3. Followed(t) = {P(t, q) : q \in Q(t)} /\ Followed(u) = {P(u, q) : q \in Q(u)}
  BY DEF Followed
<1>4. \A q \in Moves(t) \X Moves(t) : P(u, q) = P(t, q) /\ (q \in Q(u) <=> q \in Q(t))
  <2> TAKE q \in Moves(t) \X Moves(t)
  <2>1. q[1] \in 1..m /\ q[2] \in 1..m /\ u[q[1]] = t[q[1]] /\ u[q[2]] = t[q[2]]
    BY <1>1, <1>2
  <2>2. (\A k \in Moves(u) : k <= q[1] \/ k >= q[2])
          <=> \A k \in Moves(t) : k <= q[1] \/ k >= q[2]
    BY <1>1, <1>2, <2>1
  <2>3. q \in Moves(u) \X Moves(u)
    BY <1>2
  <2> QED BY <2>1, <2>2, <2>3
<1>5. Q(t) \subseteq Moves(t) \X Moves(t) /\ Q(u) \subseteq Moves(u) \X Moves(u)
  OBVIOUS
<1>6. ASSUME ~IsMove(e)
      PROVE  Followed(u) = Followed(t)
  <2>1. Moves(u) = Moves(t)
    BY <1>2, <1>6
  <2> HIDE DEF P, Q
  <2> QED BY <1>3, <1>4, <1>5, <2>1
<1>7. ASSUME IsMove(e), Moves(t) = {}
      PROVE  Followed(u) = Followed(t)
  <2>1. Moves(u) = {m + 1}
    BY <1>2, <1>7
  <2>2. Q(u) = {} /\ Q(t) = {}
    BY <1>1, <1>7, <2>1
  <2> HIDE DEF P, Q
  <2> QED BY <1>3, <2>2
<1>8. ASSUME NEW i \in Moves(t), \A j \in Moves(t) : j <= i,
             IsMove(e)
      PROVE  Followed(u) = Followed(t) \cup
               (IF t[i].post = e.action[1] THEN {<<EdgeOfEntry(t[i]), EdgeOfEntry(e)>>}
                                           ELSE {})
  <2> DEFINE n == <<i, m + 1>>
  <2>1. Moves(u) = Moves(t) \cup {m + 1} /\ i \in 1..m
    BY <1>2, <1>8
  <2>2. P(u, n) = <<EdgeOfEntry(t[i]), EdgeOfEntry(e)>>
    BY <1>1, <2>1
  <2>3. n \in Q(u) <=> t[i].post = e.action[1]
    <3>1. n \in Moves(u) \X Moves(u) /\ n[1] = i /\ n[2] = m + 1
      BY <2>1
    <3>2. i < m + 1 /\ \A k \in Moves(u) : k <= i \/ k >= m + 1
      BY <1>1, <1>8, <2>1
    <3>3. u[i] = t[i] /\ u[m + 1] = e
      BY <1>1, <2>1
    <3> HIDE DEF n
    <3> QED BY <3>1, <3>2, <3>3
  <2>4. ASSUME NEW q \in Q(u)
        PROVE  q \in Moves(t) \X Moves(t) \/ q = n
    <3>1. /\ q[1] \in Moves(u) /\ q[2] \in Moves(u) /\ q = <<q[1], q[2]>> /\ q[1] < q[2]
          /\ \A k \in Moves(u) : k <= q[1] \/ k >= q[2]
      BY <2>4
    <3>2. CASE q[2] = m + 1
      <4>1. q[1] \in Moves(t) /\ q[1] <= i
        BY <1>1, <1>2, <1>8, <2>1, <3>1, <3>2
      <4>2. i <= q[1]
        BY <1>1, <2>1, <3>1, <3>2
      <4>3. q[1] = i
        BY <1>2, <2>1, <4>1, <4>2
      <4> QED BY <3>1, <3>2, <4>3
    <3>3. CASE q[2] # m + 1
      <4>1. q[2] \in Moves(t)
        BY <2>1, <3>1, <3>3
      <4>2. q[1] # m + 1
        BY <1>1, <1>2, <3>1, <4>1
      <4> QED BY <2>1, <3>1, <4>1, <4>2
    <3> QED BY <3>2, <3>3
  <2> HIDE DEF P, Q, n
  <2>5. ASSUME NEW x
        PROVE  x \in Followed(u) <=>
                 x \in Followed(t) \/ (t[i].post = e.action[1] /\ x = P(u, n))
    <3>1. ASSUME x \in Followed(u)
          PROVE  x \in Followed(t) \/ (t[i].post = e.action[1] /\ x = P(u, n))
      <4>1. PICK q \in Q(u) : x = P(u, q)
        BY <1>3, <3>1
      <4>2. CASE q = n
        BY <2>3, <4>1, <4>2
      <4>3. CASE q \in Moves(t) \X Moves(t)
        BY <1>3, <1>4, <4>1, <4>3
      <4> QED BY <2>4, <4>1, <4>2, <4>3
    <3>2. ASSUME x \in Followed(t)
          PROVE  x \in Followed(u)
      <4>1. PICK q \in Q(t) : x = P(t, q)
        BY <1>3, <3>2
      <4> QED BY <1>3, <1>4, <1>5, <4>1
    <3>3. ASSUME t[i].post = e.action[1], x = P(u, n)
          PROVE  x \in Followed(u)
      BY <1>3, <2>3, <3>3
    <3> QED BY <3>1, <3>2, <3>3
  <2> QED BY <2>2, <2>5
<1> QED BY <1>6, <1>7, <1>8

\* Whether an entry showed something new does not change.
LEMMA NovelKept ==
  ASSUME NEW t, Proper(t), NEW e, NEW u, u = Append(t, e), NEW i \in 1..Len(t)
  PROVE  Novel(u, i) <=> Novel(t, i)
<1> DEFINE m == Len(t)
<1>1. /\ m \in Nat /\ \A k \in 1..m : u[k] = t[k]
  BY Grown
<1>2. u[i] = t[i] /\ i \in 1..m /\ \A j \in 1..i - 1 : u[j] = t[j]
  BY <1>1
<1>3. ASSUME NEW s
      PROVE  (\A j \in Sightings(u, s) : j >= i) <=> \A j \in Sightings(t, s) : j >= i
  <2>1. Sightings(u, s) \in {Sightings(t, s), Sightings(t, s) \cup {Len(t) + 1}}
    BY SightingsGrown
  <2>2. Len(t) + 1 >= i
    BY <1>1, <1>2
  <2> QED BY <2>1, <2>2
<1>4. ASSUME NEW edge
      PROVE  (\A j \in Traversals(u, edge) : j >= i) <=> \A j \in Traversals(t, edge) : j >= i
  <2>1. Traversals(u, edge) \in {Traversals(t, edge), Traversals(t, edge) \cup {Len(t) + 1}}
    BY TraversalsGrown
  <2>2. Len(t) + 1 >= i
    BY <1>1, <1>2
  <2> QED BY <2>1, <2>2
<1>5. ASSUME NEW c
      PROVE  (\A j \in 1..i - 1 : u[j].type = "observation" /\ u[j].state = u[i].state
                                   => c \notin u[j].offered)
               <=> \A j \in 1..i - 1 : t[j].type = "observation" /\ t[j].state = t[i].state
                                        => c \notin t[j].offered
  BY <1>2
<1> QED BY <1>2, <1>3, <1>4, <1>5 DEF Novel

-----------------------------------------------------------------------------
(* What the graph says of a trace, one entry later.                        *)

\* An entry that shows no state leaves the nodes what they should be.
LEMMA NodesKept ==
  ASSUME NEW t, Proper(t), NEW e, NEW nodes, NEW states, NodesOf(nodes, t, states),
         e.type # "observation", \A s \in states : ~Shows(e, s)
  PROVE  NodesOf(nodes, Append(t, e), states)
<1> DEFINE u == Append(t, e)
<1>1. ASSUME NEW s \in states
      PROVE  Sightings(u, s) = Sightings(t, s)
  <2>1. ~Shows(e, s)
    OBVIOUS
  <2> QED BY <2>1, SightingsGrown
<1>2. \A s : OfferedBy(u, s) = OfferedBy(t, s)
  BY OfferedByGrown
<1> HIDE DEF u
<1>3. DOMAIN nodes = {s \in states : Sightings(u, s) # {}}
  BY <1>1 DEF NodesOf
<1>4. \A s \in DOMAIN nodes :
        nodes[s].visits = Cardinality(Sightings(u, s)) /\ nodes[s].known = OfferedBy(u, s)
  BY <1>1, <1>2, <1>3 DEF NodesOf
<1> QED BY <1>3, <1>4 DEF NodesOf, u

\* What is not seen is not observed.
LEMMA Unseen ==
  ASSUME NEW t, NEW s, Sightings(t, s) = {}
  PROVE  Cardinality(Sightings(t, s)) = 0 /\ OfferedBy(t, s) = {}
<1>1. Cardinality(Sightings(t, s)) = 0
  BY FS_EmptySet
<1>2. {j \in DOMAIN t : t[j].type = "observation" /\ t[j].state = s} = {}
  BY DEF Sightings, Shows
<1> QED BY <1>1, <1>2 DEF OfferedBy

\* An entry that shows a state needs the node of that state visited once more.
LEMMA NodesGrown ==
  ASSUME NEW t, Proper(t), NEW e, NEW nodes, NEW states, NodesOf(nodes, t, states),
         NEW fp \in states, \A s \in states : Shows(e, s) <=> s = fp,
         NEW more, DOMAIN more = DOMAIN nodes \cup {fp},
         \A s \in DOMAIN nodes : s # fp => more[s] = nodes[s], NodeOK(more[fp]),
         NEW C, C = IF e.type = "observation" THEN e.offered ELSE {},
         fp \in DOMAIN nodes => /\ more[fp].visits = nodes[fp].visits + 1
                                /\ more[fp].known = nodes[fp].known \cup C,
         fp \notin DOMAIN nodes => more[fp].visits = 1 /\ more[fp].known = C
  PROVE  NodesOf(more, Append(t, e), states)
<1> DEFINE u == Append(t, e)
<1>1. ASSUME NEW s \in states, s # fp
      PROVE  Sightings(u, s) = Sightings(t, s)
  <2>1. ~Shows(e, s)
    BY <1>1
  <2> QED BY <2>1, SightingsGrown
<1>2. Sightings(u, fp) = Sightings(t, fp) \cup {Len(t) + 1} /\ Shows(e, fp)
  <2>1. Shows(e, fp)
    OBVIOUS
  <2> QED BY <2>1, SightingsGrown
<1>3. ASSUME NEW s \in states, s # fp
      PROVE  OfferedBy(u, s) = OfferedBy(t, s)
  <2>1. e.type # "observation" \/ e.state # s
    BY <1>3 DEF Shows
  <2> QED BY <2>1, OfferedByGrown
<1>4. OfferedBy(u, fp) = OfferedBy(t, fp) \cup C
  <2>1. CASE e.type = "observation"
    <3>1. e.state = fp /\ C = e.offered
      BY <1>2, <2>1 DEF Shows
    <3> QED BY <2>1, <3>1, OfferedByGrown
  <2>2. CASE e.type # "observation"
    <3>1. C = {}
      BY <2>2
    <3> QED BY <2>2, <3>1, OfferedByGrown
  <2> QED BY <2>1, <2>2
<1>5. /\ Cardinality(Sightings(t, fp)) \in Nat
      /\ Cardinality(Sightings(u, fp)) = Cardinality(Sightings(t, fp)) + 1
  BY <1>2, SightingsCounted DEF u
<1> HIDE DEF u
<1>6. DOMAIN more = {s \in states : Sightings(u, s) # {}}
  <2>1. DOMAIN nodes = {s \in states : Sightings(t, s) # {}} /\ Sightings(u, fp) # {}
    BY <1>2 DEF NodesOf
  <2>2. ASSUME NEW s \in states
        PROVE  s \in DOMAIN more <=> Sightings(u, s) # {}
    <3>1. CASE s = fp
      BY <2>1, <3>1
    <3>2. CASE s # fp
      BY <1>1, <2>1, <3>2
    <3> QED BY <3>1, <3>2
  <2> QED BY <2>1, <2>2
<1>7. IsFiniteSet(DOMAIN more)
  <2>1. IsFiniteSet(DOMAIN nodes)
    BY DEF NodesOf
  <2>2. IsFiniteSet(DOMAIN nodes \cup {fp})
    BY <2>1, FS_AddElement
  <2> QED BY <2>2
<1>8. /\ more[fp].visits = Cardinality(Sightings(u, fp))
      /\ more[fp].known = OfferedBy(u, fp)
  <2>1. CASE fp \in DOMAIN nodes
    BY <1>4, <1>5, <2>1 DEF NodesOf
  <2>2. CASE fp \notin DOMAIN nodes
    <3>1. Sightings(t, fp) = {}
      BY <2>2 DEF NodesOf
    <3>2. Cardinality(Sightings(t, fp)) = 0 /\ OfferedBy(t, fp) = {}
      BY <3>1, Unseen
    <3> QED BY <1>4, <1>5, <2>2, <3>2
  <2> QED BY <2>1, <2>2
<1>9. ASSUME NEW s \in DOMAIN more
      PROVE  /\ NodeOK(more[s]) /\ more[s].visits = Cardinality(Sightings(u, s))
             /\ more[s].known = OfferedBy(u, s)
  <2>1. CASE s = fp
    BY <1>8, <2>1
  <2>2. CASE s # fp
    <3>1. s \in DOMAIN nodes /\ more[s] = nodes[s] /\ s \in states
      BY <1>6, <2>2
    <3> QED BY <1>1, <1>3, <2>2, <3>1 DEF NodesOf
  <2> QED BY <2>1, <2>2
<1> QED BY <1>6, <1>7, <1>9 DEF NodesOf, u

\* The nodes with a state seen once more in them, and the candidates it offers.
Seen(nodes, more, fp, C) ==
  /\ DOMAIN more = DOMAIN nodes \cup {fp}
  /\ \A s \in DOMAIN nodes : s # fp => more[s] = nodes[s]
  /\ NodeOK(more[fp])
  /\ fp \in DOMAIN nodes => /\ more[fp].visits = nodes[fp].visits + 1
                            /\ more[fp].known = nodes[fp].known \cup C
  /\ fp \notin DOMAIN nodes => more[fp].visits = 1 /\ more[fp].known = C

\* The same in one word.
LEMMA NodesSeen ==
  ASSUME NEW t, Proper(t), NEW e, NEW nodes, NEW states, NodesOf(nodes, t, states),
         NEW fp \in states, \A s \in states : Shows(e, s) <=> s = fp,
         NEW C, C = IF e.type = "observation" THEN e.offered ELSE {},
         NEW more, Seen(nodes, more, fp, C)
  PROVE  NodesOf(more, Append(t, e), states)
<1>1. /\ DOMAIN more = DOMAIN nodes \cup {fp}
      /\ \A s \in DOMAIN nodes : s # fp => more[s] = nodes[s]
      /\ NodeOK(more[fp])
      /\ fp \in DOMAIN nodes => /\ more[fp].visits = nodes[fp].visits + 1
                                /\ more[fp].known = nodes[fp].known \cup C
      /\ fp \notin DOMAIN nodes => more[fp].visits = 1 /\ more[fp].known = C
  BY DEF Seen
<1> QED BY <1>1, NodesGrown

\* An entry that is no move leaves the edges what they should be.
LEMMA EdgesKept ==
  ASSUME NEW t, Proper(t), NEW e, NEW edges, EdgesOf(edges, t), ~IsMove(e)
  PROVE  EdgesOf(edges, Append(t, e))
<1> DEFINE u == Append(t, e)
<1>1. Moves(u) = Moves(t) /\ Moves(t) \subseteq 1..Len(t)
  BY MovesGrown
<1>2. \A i \in Moves(t) : u[i] = t[i]
  BY <1>1, Grown
<1>3. \A edge : Traversals(u, edge) = Traversals(t, edge)
  BY TraversalsGrown DEF Crosses
<1>4. \A edge, status : TraversalsWith(u, edge, status) = TraversalsWith(t, edge, status)
  BY <1>2, <1>3 DEF TraversalsWith, Traversals
<1>5. \A edge : \A i \in Traversals(t, edge) : u[i] = t[i]
  BY <1>2 DEF Traversals
<1> HIDE DEF u
<1>6. DOMAIN edges = {EdgeOfEntry(u[i]) : i \in Moves(u)}
  BY <1>1, <1>2 DEF EdgesOf
<1>7. ASSUME NEW x \in DOMAIN edges
      PROVE  /\ edges[x].count = Cardinality(Traversals(u, x)) /\ edges[x].count \in Nat \ {0}
             /\ DOMAIN edges[x].statuses = {u[i].status : i \in Traversals(u, x)}
             /\ \A status \in DOMAIN edges[x].statuses :
                  edges[x].statuses[status] = Cardinality(TraversalsWith(u, x, status))
  <2>1. DOMAIN edges[x].statuses = {u[i].status : i \in Traversals(u, x)}
    BY <1>3, <1>5 DEF EdgesOf
  <2> QED BY <1>3, <1>4, <2>1 DEF EdgesOf
<1> QED BY <1>6, <1>7 DEF EdgesOf, u

\* No traversal, no count of them.
LEMMA Untaken ==
  ASSUME NEW t, NEW edges, EdgesOf(edges, t), NEW edge, edge \notin DOMAIN edges
  PROVE  Traversals(t, edge) = {} /\ Cardinality(Traversals(t, edge)) = 0
<1>1. Traversals(t, edge) = {}
  BY DEF EdgesOf, Traversals
<1> QED BY <1>1, FS_EmptySet

\* An outcome that no traversal has had counts zero.
LEMMA NoOutcome ==
  ASSUME NEW t, NEW edge, NEW status, \A i \in Traversals(t, edge) : t[i].status # status
  PROVE  Cardinality(TraversalsWith(t, edge, status)) = 0
<1>1. TraversalsWith(t, edge, status) = {}
  BY DEF TraversalsWith
<1> QED BY <1>1, FS_EmptySet

\* A move needs its edge counted once more, and its outcome with it.
LEMMA EdgesGrown ==
  ASSUME NEW t, Proper(t), NEW e, NEW edges, EdgesOf(edges, t), IsMove(e),
         NEW edge, edge = EdgeOfEntry(e)
  PROVE  EdgesOf(Counted(edges, edge, e.status), Append(t, e))
<1> DEFINE u == Append(t, e)
           m == Len(t)
           old == IF edge \in DOMAIN edges THEN edges[edge]
                                           ELSE [count |-> 0, statuses |-> << >>]
           times == IF e.status \in DOMAIN old.statuses THEN old.statuses[e.status] ELSE 0
           stats == With(old.statuses, e.status, times + 1)
           new == [count |-> old.count + 1, statuses |-> stats]
           more == With(edges, edge, new)
<1>1. Counted(edges, edge, e.status) = more
  BY DEF Counted
<1>2. /\ m \in Nat /\ u[m + 1] = e /\ \A k \in 1..m : u[k] = t[k]
  BY Grown
<1>3. Moves(u) = Moves(t) \cup {m + 1} /\ Moves(t) \subseteq 1..m
  BY MovesGrown
<1>4. Traversals(u, edge) = Traversals(t, edge) \cup {m + 1}
  BY TraversalsGrown DEF Crosses
<1>5. \A x : x # edge => Traversals(u, x) = Traversals(t, x)
  BY TraversalsGrown DEF Crosses
<1>6. /\ Cardinality(Traversals(t, edge)) \in Nat
      /\ Cardinality(Traversals(u, edge)) = Cardinality(Traversals(t, edge)) + 1
  BY TraversalsCounted DEF Crosses
<1>7. ASSUME NEW x, NEW st
      PROVE  /\ Cardinality(TraversalsWith(t, x, st)) \in Nat
             /\ x = edge /\ e.status = st => Cardinality(TraversalsWith(u, x, st)) =
                                             Cardinality(TraversalsWith(t, x, st)) + 1
             /\ x # edge \/ e.status # st => Cardinality(TraversalsWith(u, x, st)) =
                                             Cardinality(TraversalsWith(t, x, st))
  <2>1. Crosses(e, x) <=> x = edge
    BY DEF Crosses
  <2>2. /\ Cardinality(TraversalsWith(t, x, st)) \in Nat
        /\ Crosses(e, x) /\ e.status = st => Cardinality(TraversalsWith(u, x, st)) =
                                              Cardinality(TraversalsWith(t, x, st)) + 1
        /\ ~(Crosses(e, x) /\ e.status = st) => Cardinality(TraversalsWith(u, x, st)) =
                                                 Cardinality(TraversalsWith(t, x, st))
    BY OutcomesCounted
  <2> QED BY <2>1, <2>2
<1> HIDE DEF u, m
<1>8. \A x : \A i \in Traversals(t, x) : u[i] = t[i]
  BY <1>2, <1>3 DEF Traversals
<1>9. /\ old.count = Cardinality(Traversals(t, edge))
      /\ DOMAIN old.statuses = {t[i].status : i \in Traversals(t, edge)}
      /\ \A st \in DOMAIN old.statuses :
           old.statuses[st] = Cardinality(TraversalsWith(t, edge, st))
  <2>1. CASE edge \in DOMAIN edges
    BY <2>1 DEF EdgesOf
  <2>2. CASE edge \notin DOMAIN edges
    <3>1. Traversals(t, edge) = {} /\ Cardinality(Traversals(t, edge)) = 0
      BY <2>2, Untaken
    <3>2. old.count = 0 /\ old.statuses = << >> /\ DOMAIN << >> = {}
      BY <2>2
    <3> QED BY <3>1, <3>2
  <2> QED BY <2>1, <2>2
<1> HIDE DEF old
<1>10. times = Cardinality(TraversalsWith(t, edge, e.status))
  <2>1. CASE e.status \in DOMAIN old.statuses
    BY <1>9, <2>1
  <2>2. CASE e.status \notin DOMAIN old.statuses
    <3>1. \A i \in Traversals(t, edge) : t[i].status # e.status
      BY <1>9, <2>2
    <3> QED BY <2>2, <3>1, NoOutcome
  <2> QED BY <2>1, <2>2
<1> HIDE DEF times
<1>11. DOMAIN stats = {u[i].status : i \in Traversals(u, edge)}
  <2>1. DOMAIN stats = DOMAIN old.statuses \cup {e.status}
    BY DEF With
  <2>2. {u[i].status : i \in Traversals(u, edge)}
          = {t[i].status : i \in Traversals(t, edge)} \cup {e.status}
    BY <1>2, <1>4, <1>8
  <2> QED BY <1>9, <2>1, <2>2
<1>12. ASSUME NEW st \in DOMAIN stats
       PROVE  stats[st] = Cardinality(TraversalsWith(u, edge, st))
  <2>1. CASE st = e.status
    <3>1. stats[st] = times + 1
      BY <2>1 DEF With
    <3> QED BY <1>7, <1>10, <2>1, <3>1
  <2>2. CASE st # e.status
    <3>1. st \in DOMAIN old.statuses /\ stats[st] = old.statuses[st]
      BY <2>2 DEF With
    <3> QED BY <1>7, <1>9, <2>2, <3>1
  <2> QED BY <2>1, <2>2
<1>13. /\ new.count = Cardinality(Traversals(u, edge)) /\ new.count \in Nat \ {0}
       /\ new.statuses = stats
  BY <1>6, <1>9
<1> HIDE DEF stats, new
<1>14. /\ DOMAIN more = DOMAIN edges \cup {edge} /\ more[edge] = new
       /\ \A x \in DOMAIN edges : x # edge => more[x] = edges[x]
  BY DEF With
<1> HIDE DEF more
<1>15. DOMAIN more = {EdgeOfEntry(u[i]) : i \in Moves(u)}
  <2>1. {EdgeOfEntry(u[i]) : i \in Moves(u)} = {EdgeOfEntry(t[i]) : i \in Moves(t)} \cup {edge}
    BY <1>2, <1>3
  <2> QED BY <1>14, <2>1 DEF EdgesOf
<1>16. IsFiniteSet(DOMAIN more)
  BY <1>14, FS_AddElement DEF EdgesOf
<1>17. ASSUME NEW x \in DOMAIN more
       PROVE  /\ more[x].count = Cardinality(Traversals(u, x)) /\ more[x].count \in Nat \ {0}
              /\ DOMAIN more[x].statuses = {u[i].status : i \in Traversals(u, x)}
              /\ \A status \in DOMAIN more[x].statuses :
                   more[x].statuses[status] = Cardinality(TraversalsWith(u, x, status))
  <2>1. CASE x = edge
    BY <1>11, <1>12, <1>13, <1>14, <2>1
  <2>2. CASE x # edge
    <3>1. x \in DOMAIN edges /\ more[x] = edges[x]
      BY <1>14, <2>2
    <3>2. {u[i].status : i \in Traversals(u, x)} = {t[i].status : i \in Traversals(t, x)}
      BY <1>5, <1>8, <2>2
    <3>3. \A st : Cardinality(TraversalsWith(u, x, st)) = Cardinality(TraversalsWith(t, x, st))
      BY <1>7, <2>2
    <3> QED BY <1>5, <2>2, <3>1, <3>2, <3>3 DEF EdgesOf
  <2> QED BY <2>1, <2>2
<1>18. EdgesOf(more, u)
  BY <1>15, <1>16, <1>17 DEF EdgesOf
<1> QED BY <1>1, <1>18 DEF u

\* r is g after a state was seen in it, with the candidates it offers.
Sighted(g, r, fp, C, at) ==
  /\ IsGraph(r) /\ r.revision \in Nat
  /\ r.edges = g.edges /\ r.executed = g.executed /\ r.pairs = g.pairs /\ r.last = g.last
  /\ DOMAIN r.nodes = DOMAIN g.nodes \cup {fp}
  /\ \A s \in DOMAIN g.nodes : s # fp => r.nodes[s] = g.nodes[s]
  /\ NodeOK(r.nodes[fp])
  /\ fp \in DOMAIN g.nodes => /\ r.nodes[fp].visits = g.nodes[fp].visits + 1
                              /\ r.nodes[fp].known = g.nodes[fp].known \cup C
  /\ fp \notin DOMAIN g.nodes => r.nodes[fp].visits = 1 /\ r.nodes[fp].known = C
  /\ r.offered = g.offered \cup {<<fp, c>> : c \in C}
  /\ r.novel \in {g.novel, at}
  /\ fp \notin DOMAIN g.nodes \/ (\E c \in C : <<fp, c>> \notin g.offered) => r.novel = at

\* Its nodes have seen the state.
LEMMA SightedSeen ==
  ASSUME NEW g, NEW r, NEW fp, NEW C, NEW at, Sighted(g, r, fp, C, at)
  PROVE  Seen(g.nodes, r.nodes, fp, C)
BY DEF Sighted, Seen

\* A state that offers nothing leaves the offered actions.
LEMMA SightedOnly ==
  ASSUME NEW g, NEW r, NEW fp, NEW at, Sighted(g, r, fp, {}, at)
  PROVE  r.offered = g.offered
<1>1. r.offered = g.offered \cup {<<fp, c>> : c \in {}}
  BY DEF Sighted
<1> QED BY <1>1

\* The obligations of a state, as the target reports them.
Duties(ob) ==
  /\ IsFiniteSet(DOMAIN ob)
  /\ \A o \in DOMAIN ob : ob[o] \in {"met", "unmet", "unknown"}

\* Obligations that are merged are obligations.
LEMMA MergedDuties ==
  ASSUME NEW old, NEW new, Duties(old), Duties(new)
  PROVE  Duties(Merged(old, new))
<1>1. IsFiniteSet(DOMAIN old \cup DOMAIN new)
  BY FS_Union DEF Duties
<1>2. DOMAIN Merged(old, new) = DOMAIN old \cup DOMAIN new
  BY DEF Merged
<1>3. ASSUME NEW o \in DOMAIN Merged(old, new)
      PROVE  Merged(old, new)[o] \in {"met", "unmet", "unknown"}
  BY <1>2 DEF Merged, Duties
<1> QED BY <1>1, <1>2, <1>3 DEF Duties

\* recordState makes of the nodes what a sighting needs.
LEMMA StateSighted ==
  ASSUME NEW g, IsGraph(g), g.revision \in Nat, NEW fp, NEW ob, Duties(ob), NEW at \in Nat,
         fp \in DOMAIN g.nodes => NodeOK(g.nodes[fp])
  PROVE  Sighted(g, RecordState(g, fp, ob, at), fp, {}, at)
<1> DEFINE r == RecordState(g, fp, ob, at)
<1>1. CASE fp \in DOMAIN g.nodes
  <2> DEFINE node == SeenAgain(g.nodes[fp], ob, at)
             merged == Merged(g.nodes[fp].obligations, ob)
             v == g.nodes[fp].visits
  <2>1. r = Visit(g, fp, ob, at)
    BY <1>1 DEF RecordState
  <2> HIDE DEF r
  <2>2. /\ IsGraph(r) /\ r.nodes = With(g.nodes, fp, node)
        /\ r.novel \in {g.novel, at} /\ r.revision \in {g.revision, g.revision + 1}
        /\ r.edges = g.edges /\ r.offered = g.offered /\ r.executed = g.executed
        /\ r.pairs = g.pairs /\ r.last = g.last
    BY <2>1, VisitFields
  <2>3. /\ node.first = g.nodes[fp].first /\ node.last = Later(g.nodes[fp].last, at)
        /\ node.visits = v + 1 /\ node.known = g.nodes[fp].known
        /\ node.obligations = merged
    BY DEF SeenAgain
  <2>4. Duties(merged)
    <3>1. Duties(g.nodes[fp].obligations)
      BY <1>1 DEF NodeOK, Duties
    <3> QED BY <3>1, MergedDuties
  <2> HIDE DEF node, merged
  <2>5. NodeOK(node)
    <3>1. /\ node.first \in Nat /\ node.last \in Nat /\ node.first <= node.last
          /\ node.visits \in Nat /\ node.visits >= 1
      BY <1>1, <2>3 DEF NodeOK, Later
    <3> QED BY <2>3, <2>4, <3>1 DEF NodeOK, Duties
  <2>6. /\ DOMAIN r.nodes = DOMAIN g.nodes \cup {fp} /\ r.nodes[fp] = node
        /\ \A s \in DOMAIN g.nodes : s # fp => r.nodes[s] = g.nodes[s]
    BY <2>2 DEF With
  <2>7. r.revision \in Nat
    BY <2>2
  <2> QED BY <1>1, <2>2, <2>3, <2>5, <2>6, <2>7 DEF Sighted, r
<1>2. CASE fp \notin DOMAIN g.nodes
  <2> DEFINE node == FirstSeen(ob, at)
  <2>1. r = NewNode(g, fp, ob, at)
    BY <1>2 DEF RecordState
  <2> HIDE DEF r
  <2>2. /\ IsGraph(r) /\ r.nodes = With(g.nodes, fp, node)
        /\ r.novel = at /\ r.revision = g.revision + 1
        /\ r.edges = g.edges /\ r.offered = g.offered /\ r.executed = g.executed
        /\ r.pairs = g.pairs /\ r.last = g.last
    BY <2>1, NewNodeFields
  <2>3. /\ node.first = at /\ node.last = at /\ node.visits = 1 /\ node.known = {}
        /\ node.obligations = ob
    BY DEF FirstSeen
  <2> HIDE DEF node
  <2>5. NodeOK(node)
    BY <2>3 DEF NodeOK, Duties
  <2>6. /\ DOMAIN r.nodes = DOMAIN g.nodes \cup {fp} /\ r.nodes[fp] = node
        /\ \A s \in DOMAIN g.nodes : s # fp => r.nodes[s] = g.nodes[s]
    BY <2>2 DEF With
  <2> QED BY <1>2, <2>2, <2>3, <2>5, <2>6 DEF Sighted, r
<1> QED BY <1>1, <1>2

\* recordOffered after it adds the candidates that were seen.
LEMMA OfferSighted ==
  ASSUME NEW g, NEW h, NEW fp, NEW C, IsFiniteSet(C), NEW at \in Nat,
         Sighted(g, h, fp, {}, at)
  PROVE  Sighted(g, RecordOffered(h, fp, C, at), fp, C, at)
<1> DEFINE r == RecordOffered(h, fp, C, at)
           fresh == {c \in C : <<fp, c>> \notin h.offered}
           node == Offering(h.nodes[fp], C, at)
<1>1. IsGraph(h) /\ fp \in DOMAIN h.nodes
  BY DEF Sighted
<1> HIDE DEF r
<1>1a. r = RecordOffered(h, fp, C, at)
  BY DEF r
<1>1b. Offered(h, r, fp, C, at)
  BY <1>1, <1>1a, OfferedFields
<1>2. /\ IsGraph(r)
      /\ r.nodes = IF ~ C \subseteq h.nodes[fp].known THEN With(h.nodes, fp, node) ELSE h.nodes
      /\ r.offered = h.offered \cup {<<fp, c>> : c \in C}
      /\ r.novel = (IF fresh # {} THEN at ELSE h.novel)
      /\ r.revision = h.revision + Cardinality(fresh)
      /\ r.edges = h.edges /\ r.executed = h.executed
      /\ r.pairs = h.pairs /\ r.last = h.last
  BY <1>1, <1>1b DEF Offered
<1>3. fresh \subseteq C
  OBVIOUS
<1>4. Cardinality(fresh) \in Nat
  BY <1>3, FS_Subset, FS_CardinalityType
<1>5. /\ node.first = h.nodes[fp].first /\ node.last = Later(h.nodes[fp].last, at)
      /\ node.visits = h.nodes[fp].visits /\ node.known = h.nodes[fp].known \cup C
      /\ node.obligations = h.nodes[fp].obligations
  BY DEF Offering
<1>6. h.offered = g.offered
  BY DEF Sighted
<1>7. fresh # {} <=> \E c \in C : <<fp, c>> \notin g.offered
  BY <1>6
<1> HIDE DEF node, fresh
<1>8. NodeOK(node)
  <2>1. NodeOK(h.nodes[fp])
    BY DEF Sighted
  <2> QED BY <1>5, <2>1 DEF NodeOK, Later
<1>9. /\ DOMAIN r.nodes = DOMAIN h.nodes
      /\ \/ r.nodes[fp] = node
         \/ r.nodes[fp] = h.nodes[fp] /\ C \subseteq h.nodes[fp].known
      /\ \A s \in DOMAIN h.nodes : s # fp => r.nodes[s] = h.nodes[s]
  <2>1. CASE C \subseteq h.nodes[fp].known
    BY <1>2, <2>1
  <2>2. CASE ~ C \subseteq h.nodes[fp].known
    <3>1. r.nodes = With(h.nodes, fp, node)
      BY <1>2, <2>2
    <3>2. /\ DOMAIN With(h.nodes, fp, node) = DOMAIN h.nodes \cup {fp}
          /\ With(h.nodes, fp, node)[fp] = node
      BY DEF With
    <3>3. \A s \in DOMAIN h.nodes : s # fp => With(h.nodes, fp, node)[s] = h.nodes[s]
      BY DEF With
    <3>4. DOMAIN h.nodes \cup {fp} = DOMAIN h.nodes
      BY <1>1
    <3>5. DOMAIN r.nodes = DOMAIN h.nodes
      BY <3>1, <3>2, <3>4
    <3>6. r.nodes[fp] = node
      BY <3>1, <3>2
    <3>7. \A s \in DOMAIN h.nodes : s # fp => r.nodes[s] = h.nodes[s]
      BY <3>1, <3>3
    <3> QED BY <3>5, <3>6, <3>7
  <2> QED BY <2>1, <2>2
<1>10. /\ NodeOK(r.nodes[fp]) /\ r.nodes[fp].visits = h.nodes[fp].visits
       /\ r.nodes[fp].known = h.nodes[fp].known \cup C
  <2>1. CASE r.nodes[fp] = node
    BY <1>5, <1>8, <2>1
  <2>2. CASE r.nodes[fp] = h.nodes[fp] /\ C \subseteq h.nodes[fp].known
    BY <2>2 DEF Sighted
  <2> QED BY <1>9, <2>1, <2>2
<1>11. r.revision \in Nat
  BY <1>2, <1>4 DEF Sighted
<1>12. /\ r.edges = g.edges /\ r.executed = g.executed /\ r.pairs = g.pairs
       /\ r.last = g.last /\ DOMAIN r.nodes = DOMAIN g.nodes \cup {fp}
       /\ r.offered = g.offered \cup {<<fp, c>> : c \in C}
  BY <1>2, <1>6, <1>9 DEF Sighted
<1>13. \A s \in DOMAIN g.nodes : s # fp => r.nodes[s] = g.nodes[s]
  BY <1>9 DEF Sighted
<1>14. /\ fp \in DOMAIN g.nodes => /\ r.nodes[fp].visits = g.nodes[fp].visits + 1
                                   /\ r.nodes[fp].known = g.nodes[fp].known \cup C
       /\ fp \notin DOMAIN g.nodes => r.nodes[fp].visits = 1 /\ r.nodes[fp].known = C
  BY <1>10 DEF Sighted
<1>15. /\ r.novel \in {g.novel, at}
       /\ fp \notin DOMAIN g.nodes \/ (\E c \in C : <<fp, c>> \notin g.offered) => r.novel = at
  BY <1>2, <1>7 DEF Sighted
<1> QED BY <1>2, <1>10, <1>11, <1>12, <1>13, <1>14, <1>15 DEF Sighted, r

-----------------------------------------------------------------------------
(* Novelty.                                                                *)

\* What is new about an observation: the state, or one of its candidates.
LEMMA NovelObservation ==
  ASSUME NEW t, Proper(t), NEW e, e.type = "observation",
         Novel(Append(t, e), Len(t) + 1)
  PROVE  \/ Sightings(t, e.state) = {}
         \/ \E c \in e.offered : \A j \in DOMAIN t :
              t[j].type = "observation" /\ t[j].state = e.state => c \notin t[j].offered
<1> DEFINE u == Append(t, e)
           m == Len(t)
<1>1. /\ m \in Nat /\ DOMAIN t = 1..m /\ u[m + 1] = e /\ \A k \in 1..m : u[k] = t[k]
  BY Grown
<1>2. /\ Sightings(t, e.state) \subseteq Sightings(u, e.state)
      /\ Sightings(t, e.state) \subseteq 1..m
  BY SightingsGrown, SightingsUpto
<1>3. \/ \A j \in Sightings(u, e.state) : j >= m + 1
      \/ \E c \in e.offered : \A j \in 1..(m + 1) - 1 :
           u[j].type = "observation" /\ u[j].state = e.state => c \notin u[j].offered
  BY <1>1 DEF Novel
<1> HIDE DEF u
<1>4. CASE \A j \in Sightings(u, e.state) : j >= m + 1
  BY <1>1, <1>2, <1>4
<1>5. ASSUME NEW c \in e.offered, \A j \in 1..(m + 1) - 1 :
               u[j].type = "observation" /\ u[j].state = e.state => c \notin u[j].offered
      PROVE  \A j \in DOMAIN t :
               t[j].type = "observation" /\ t[j].state = e.state => c \notin t[j].offered
  <2>1. (m + 1) - 1 = m
    BY <1>1
  <2> QED BY <1>1, <1>5, <2>1
<1> QED BY <1>3, <1>4, <1>5

\* What is new about a move: the state it led to, or its edge.
LEMMA NovelMove ==
  ASSUME NEW t, Proper(t), NEW e, IsMove(e), Novel(Append(t, e), Len(t) + 1)
  PROVE  \/ e.post # None /\ Sightings(t, e.post) = {}
         \/ Traversals(t, EdgeOfEntry(e)) = {}
<1> DEFINE u == Append(t, e)
           m == Len(t)
           edge == EdgeOfEntry(e)
<1>1. m \in Nat /\ u[m + 1] = e
  BY Grown
<1>2. /\ Sightings(t, e.post) \subseteq Sightings(u, e.post)
      /\ Sightings(t, e.post) \subseteq 1..m
  BY SightingsGrown, SightingsUpto
<1>3. Traversals(t, edge) \subseteq Traversals(u, edge) /\ Traversals(t, edge) \subseteq 1..m
  BY TraversalsGrown, TraversalsUpto
<1>4. \/ e.post # None /\ \A j \in Sightings(u, e.post) : j >= m + 1
      \/ \A j \in Traversals(u, edge) : j >= m + 1
  BY <1>1 DEF Novel, IsMove
<1> HIDE DEF u, edge
<1>5. CASE e.post # None /\ \A j \in Sightings(u, e.post) : j >= m + 1
  BY <1>1, <1>2, <1>5
<1>6. CASE \A j \in Traversals(u, edge) : j >= m + 1
  BY <1>1, <1>3, <1>6 DEF edge
<1> QED BY <1>4, <1>5, <1>6

\* The last novelty stays the last one when each new entry that is news sets it.
LEMMA NovelGrown ==
  ASSUME NEW t, Proper(t), NEW e, NEW novel, NEW n \in Nat, NovelOf(novel, t, n),
         NEW at \in Nat, n <= at, NEW more \in {novel, at},
         e.type \in Told => /\ e.at = at
                            /\ Novel(Append(t, e), Len(t) + 1) => more = at
  PROVE  NovelOf(more, Append(t, e), at)
<1> DEFINE u == Append(t, e)
           m == Len(t)
<1>1. /\ m \in Nat /\ DOMAIN t = 1..m /\ DOMAIN u = 1..(m + 1)
      /\ u[m + 1] = e /\ \A k \in 1..m : u[k] = t[k]
  BY Grown
<1>2. \A i \in 1..m : Novel(u, i) <=> Novel(t, i)
  BY NovelKept
<1> HIDE DEF u, m
<1>3. more \in Nat /\ more <= at /\ novel <= more
  BY DEF NovelOf
<1>4. ASSUME NEW i \in DOMAIN u, u[i].type \in Told
      PROVE  u[i].at \in Nat /\ (Novel(u, i) => u[i].at <= more)
  <2>1. CASE i = m + 1
    BY <1>1, <1>4, <2>1 DEF u, m
  <2>2. CASE i \in 1..m
    <3>1. t[i].at \in Nat /\ (Novel(t, i) => t[i].at <= novel)
      BY <1>1, <1>4, <2>2 DEF NovelOf
    <3>2. novel \in Nat
      BY DEF NovelOf
    <3> QED BY <1>1, <1>2, <1>3, <2>2, <3>1, <3>2
  <2> QED BY <1>1, <2>1, <2>2
<1> QED BY <1>3, <1>4 DEF NovelOf, u

\* Earlier stops stay quiet; a new one has to be so when it is recorded.
LEMMA QuietGrown ==
  ASSUME NEW t, Proper(t), NEW e, QuietOf(t),
         e.type = "stop" =>
           \A c \in e.met : c.type = "noveltyPlateau" =>
             /\ e.actions >= c.minActions
             /\ \A j \in DOMAIN t : t[j].type \in Told /\ t[j].at > e.actions - c.windowActions
                                    => ~Novel(t, j)
  PROVE  QuietOf(Append(t, e))
<1> DEFINE u == Append(t, e)
           m == Len(t)
<1>1. /\ m \in Nat /\ DOMAIN t = 1..m /\ DOMAIN u = 1..(m + 1)
      /\ u[m + 1] = e /\ \A k \in 1..m : u[k] = t[k]
  BY Grown
<1>2. \A i \in 1..m : Novel(u, i) <=> Novel(t, i)
  BY NovelKept
<1> HIDE DEF u, m
<1>3. ASSUME NEW i \in DOMAIN u, u[i].type = "stop", NEW c \in u[i].met,
             c.type = "noveltyPlateau"
      PROVE  /\ u[i].actions >= c.minActions
             /\ \A j \in 1..i - 1 :
                  u[j].type \in Told /\ u[j].at > u[i].actions - c.windowActions => ~Novel(u, j)
  <2>1. CASE i = m + 1
    <3>1. u[i] = e /\ 1..i - 1 = 1..m
      BY <1>1, <2>1
    <3> QED BY <1>1, <1>2, <1>3, <3>1
  <2>2. CASE i \in 1..m
    <3>1. u[i] = t[i] /\ \A j \in 1..i - 1 : j \in 1..m
      BY <1>1, <2>2
    <3>2. /\ t[i].actions >= c.minActions
          /\ \A j \in 1..i - 1 :
               t[j].type \in Told /\ t[j].at > t[i].actions - c.windowActions => ~Novel(t, j)
      BY <1>1, <1>3, <2>2, <3>1 DEF QuietOf
    <3> QED BY <1>1, <1>2, <3>1, <3>2
  <2> QED BY <1>1, <2>1, <2>2
<1> QED BY <1>3 DEF QuietOf, u

-----------------------------------------------------------------------------
(* One entry more, and what the graph records of it.                       *)

\* The values of a finite function are finitely many.
LEMMA FiniteImage ==
  ASSUME NEW S, IsFiniteSet(S), NEW f, DOMAIN f = S
  PROVE  IsFiniteSet({f[x] : x \in S})
<1> DEFINE T == {f[x] : x \in S}
           h == [x \in S |-> f[x]]
<1>1. h \in Surjection(S, T)
  BY DEF Surjection
<1> QED BY <1>1, FS_Surjection

\* Finitely many candidates make finitely many actions of a state.
LEMMA FiniteOffers ==
  ASSUME NEW fp, NEW C, IsFiniteSet(C)
  PROVE  IsFiniteSet({<<fp, c>> : c \in C})
<1> DEFINE f == [c \in C |-> <<fp, c>>]
<1>1. IsFiniteSet({f[x] : x \in C})
  BY FiniteImage
<1>2. {f[x] : x \in C} = {<<fp, c>> : c \in C}
  OBVIOUS
<1> QED BY <1>1, <1>2

\* An entry that is no move leaves the pairs what they should be.
LEMMA PairsKept ==
  ASSUME NEW t, Proper(t), NEW e, ~IsMove(e), NEW pairs, NEW last, PairsOf(pairs, last, t)
  PROVE  PairsOf(pairs, last, Append(t, e))
<1> DEFINE u == Append(t, e)
<1>1. Followed(u) = Followed(t) /\ Moves(u) = Moves(t) /\ Moves(t) \subseteq 1..Len(t)
  BY FollowedGrown, MovesGrown
<1>2. \A i \in Moves(t) : u[i] = t[i]
  BY <1>1, Grown
<1> HIDE DEF u
<1>3. ASSUME NEW i \in Moves(t), \A j \in Moves(t) : j <= i, last = {EdgeOfEntry(t[i])}
      PROVE  \E k \in Moves(u) : (\A j \in Moves(u) : j <= k) /\ last = {EdgeOfEntry(u[k])}
  BY <1>1, <1>2, <1>3
<1> QED BY <1>1, <1>3 DEF PairsOf, u

\* A move pairs its edge with the edge recorded last, if that one led to its start.
LEMMA PairsGrown ==
  ASSUME NEW t, Proper(t), NEW e, IsMove(e), NEW pairs, NEW last, PairsOf(pairs, last, t),
         NEW edge, edge = EdgeOfEntry(e)
  PROVE  PairsOf(pairs \cup {<<l, edge>> : l \in {x \in last : x.to = edge.from}},
                 {edge}, Append(t, e))
<1> DEFINE u == Append(t, e)
           m == Len(t)
           more == {<<l, edge>> : l \in {x \in last : x.to = edge.from}}
<1>1. /\ m \in Nat /\ u[m + 1] = e /\ \A k \in 1..m : u[k] = t[k]
  BY Grown
<1>2. /\ Moves(t) \subseteq 1..m /\ Moves(u) = Moves(t) \cup {m + 1}
  BY MovesGrown
<1>3. edge.from = e.action[1] /\ \A i : EdgeOfEntry(t[i]).to = t[i].post
  BY DEF EdgeOfEntry, EdgeOf
<1>4. Followed(u) = pairs \cup more
  <2>1. CASE Moves(t) = {} /\ last = {}
    <3>1. Followed(u) = Followed(t)
      BY <2>1, FollowedGrown
    <3>2. more = {}
      BY <2>1
    <3> QED BY <3>1, <3>2 DEF PairsOf
  <2>2. ASSUME NEW i \in Moves(t), \A j \in Moves(t) : j <= i, last = {EdgeOfEntry(t[i])}
        PROVE  Followed(u) = pairs \cup more
    <3> DEFINE next == IF t[i].post = e.action[1]
                       THEN {<<EdgeOfEntry(t[i]), EdgeOfEntry(e)>>} ELSE {}
    <3>1. Followed(u) = Followed(t) \cup next
      BY <2>2, FollowedGrown
    <3>2. more = next
      <4>1. CASE t[i].post = e.action[1]
        <5>1. {x \in last : x.to = edge.from} = {EdgeOfEntry(t[i])}
          BY <1>3, <2>2, <4>1
        <5> QED BY <4>1, <5>1
      <4>2. CASE t[i].post # e.action[1]
        <5>1. {x \in last : x.to = edge.from} = {}
          BY <1>3, <2>2, <4>2
        <5> QED BY <4>2, <5>1
      <4> QED BY <4>1, <4>2
    <3> QED BY <3>1, <3>2 DEF PairsOf
  <2> QED BY <2>1, <2>2 DEF PairsOf
<1>5. m + 1 \in Moves(u) /\ (\A j \in Moves(u) : j <= m + 1) /\ {edge} = {EdgeOfEntry(u[m + 1])}
  BY <1>1, <1>2
<1> HIDE DEF u, m, more
<1> QED BY <1>4, <1>5 DEF PairsOf, u, more

\* Such a pair is of two known edges that meet.
LEMMA LinkedGrown ==
  ASSUME NEW pairs, NEW last, NEW edges, Linked(pairs, last, edges), NEW edge
  PROVE  Linked(pairs \cup {<<l, edge>> : l \in {x \in last : x.to = edge.from}},
                {edge}, edges \cup {edge})
<1>1. ASSUME NEW l \in last, l.to = edge.from
      PROVE  <<l, edge>> \in {p \in (edges \cup {edge}) \X (edges \cup {edge}) :
                                p[1].to = p[2].from}
  BY <1>1 DEF Linked
<1>2. pairs \subseteq {p \in (edges \cup {edge}) \X (edges \cup {edge}) : p[1].to = p[2].from}
  BY DEF Linked
<1> QED BY <1>1, <1>2 DEF Linked

\* What an observation has shown stays shown.
LEMMA OfferedKept ==
  ASSUME NEW t, Proper(t), NEW e, NEW offered, NEW executed, OfferedOf(offered, executed, t)
  PROVE  OfferedOf(offered, executed, Append(t, e))
<1>1. DOMAIN t \subseteq DOMAIN Append(t, e) /\ \A i \in DOMAIN t : Append(t, e)[i] = t[i]
  BY Grown
<1> QED BY <1>1 DEF OfferedOf

\* What an observation offers may count as offered.
LEMMA OfferedGrown ==
  ASSUME NEW t, Proper(t), NEW e, e.type = "observation", IsFiniteSet(e.offered),
         NEW offered, NEW executed, OfferedOf(offered, executed, t)
  PROVE  OfferedOf(offered \cup {<<e.state, c>> : c \in e.offered}, executed, Append(t, e))
<1> DEFINE new == {<<e.state, c>> : c \in e.offered}
           u == Append(t, e)
<1>1. OfferedOf(offered, executed, u)
  BY OfferedKept
<1>2. IsFiniteSet(new)
  BY FiniteOffers
<1>3. IsFiniteSet(offered \cup new)
  BY <1>1, <1>2, FS_Union DEF OfferedOf
<1>4. Len(t) + 1 \in DOMAIN u /\ u[Len(t) + 1] = e
  BY Grown
<1> HIDE DEF u
<1>5. \A p \in new : \E i \in DOMAIN u :
        u[i].type = "observation" /\ u[i].state = p[1] /\ p[2] \in u[i].offered
  BY <1>4
<1> QED BY <1>1, <1>3, <1>5 DEF OfferedOf, u

\* An entry that is about no state and no move.
LEMMA OtherHistory ==
  ASSUME NEW g, NEW t, NEW S, NEW n \in Nat, HistoryOf(g, t, S, n),
         NEW e, e.type \notin Told,
         e.type = "stop" =>
           \A c \in e.met : c.type = "noveltyPlateau" =>
             /\ e.actions >= c.minActions
             /\ \A j \in DOMAIN t : t[j].type \in Told /\ t[j].at > e.actions - c.windowActions
                                    => ~Novel(t, j)
  PROVE  HistoryOf(g, Append(t, e), S, n)
<1> DEFINE u == Append(t, e)
<1>0. Proper(t) /\ Proper(u) /\ ~IsMove(e) /\ e.type # "observation" /\ \A s : ~Shows(e, s)
  BY ProperAppend DEF HistoryOf, Told, IsMove, Shows
<1>1. NodesOf(g.nodes, u, S)
  BY <1>0, NodesKept DEF HistoryOf
<1>2. EdgesOf(g.edges, u)
  BY <1>0, EdgesKept DEF HistoryOf
<1>3. PairsOf(g.pairs, g.last, u)
  BY <1>0, PairsKept DEF HistoryOf
<1>4. OfferedOf(g.offered, g.executed, u)
  BY <1>0, OfferedKept DEF HistoryOf
<1>5. NovelOf(g.novel, u, n)
  <2>1. NovelOf(g.novel, t, n) /\ n <= n /\ g.novel \in {g.novel, n}
    BY DEF HistoryOf
  <2> QED BY <1>0, <2>1, NovelGrown
<1>6. QuietOf(u)
  BY <1>0, QuietGrown DEF HistoryOf
<1> HIDE DEF u
<1> QED BY <1>0, <1>1, <1>2, <1>3, <1>4, <1>5, <1>6 DEF HistoryOf, u

\* An observation.
LEMMA ObservationHistory ==
  ASSUME NEW g, NEW t, NEW S, NEW n \in Nat, HistoryOf(g, t, S, n),
         NEW at \in Nat, n <= at, NEW fp \in S, NEW C, IsFiniteSet(C),
         NEW r, Sighted(g, r, fp, C, at)
  PROVE  HistoryOf(r, Append(t, Observed(fp, C, at)), S, at)
<1> DEFINE e == Observed(fp, C, at)
           u == Append(t, e)
<1>a. /\ e.type = "observation" /\ e.state = fp /\ e.offered = C /\ e.at = at
  BY DEF Observed
<1> HIDE DEF e
<1>0. /\ Proper(t) /\ Proper(u) /\ ~IsMove(e) /\ e.type # "stop"
      /\ \A s \in S : Shows(e, s) <=> s = fp
  BY <1>a, ProperAppend DEF HistoryOf, IsMove, Shows
<1>1. NodesOf(r.nodes, u, S)
  <2>1. NodesOf(g.nodes, t, S) /\ Seen(g.nodes, r.nodes, fp, C)
    BY SightedSeen DEF HistoryOf
  <2>2. C = IF e.type = "observation" THEN e.offered ELSE {}
    BY <1>a
  <2> QED BY <1>0, <2>1, <2>2, NodesSeen
<1>2. EdgesOf(r.edges, u) /\ Between(r.edges, r.nodes)
  <2>1. EdgesOf(g.edges, u)
    BY <1>0, EdgesKept DEF HistoryOf
  <2>2. r.edges = g.edges /\ DOMAIN g.nodes \subseteq DOMAIN r.nodes
    BY DEF Sighted
  <2>3. Between(g.edges, g.nodes)
    BY DEF HistoryOf
  <2> QED BY <2>1, <2>2, <2>3 DEF Between
<1>3. PairsOf(r.pairs, r.last, u) /\ Linked(r.pairs, r.last, DOMAIN r.edges)
  <2>1. PairsOf(g.pairs, g.last, u)
    BY <1>0, PairsKept DEF HistoryOf
  <2> QED BY <2>1 DEF Sighted, HistoryOf
<1>4. OfferedOf(r.offered, r.executed, u)
  <2>1. /\ OfferedOf(g.offered, g.executed, t) /\ r.executed = g.executed
        /\ r.offered = g.offered \cup {<<e.state, c>> : c \in e.offered}
    BY <1>a DEF HistoryOf, Sighted
  <2>2. IsFiniteSet(e.offered)
    BY <1>a
  <2> QED BY <1>0, <1>a, <2>1, <2>2, OfferedGrown
<1>5. NovelOf(r.novel, u, at)
  <2>1. NovelOf(g.novel, t, n) /\ r.novel \in {g.novel, at}
    BY DEF HistoryOf, Sighted
  <2>2. ASSUME Novel(u, Len(t) + 1)
        PROVE  r.novel = at
    <3>1. CASE Sightings(t, fp) = {}
      BY <3>1 DEF HistoryOf, NodesOf, Sighted
    <3>2. ASSUME NEW c \in C, \A j \in DOMAIN t :
                   t[j].type = "observation" /\ t[j].state = fp => c \notin t[j].offered
          PROVE  r.novel = at
      <4>1. <<fp, c>> \notin g.offered
        BY <3>2 DEF HistoryOf, OfferedOf
      <4> QED BY <4>1 DEF Sighted
    <3>3. \/ Sightings(t, fp) = {}
          \/ \E c \in C : \A j \in DOMAIN t :
               t[j].type = "observation" /\ t[j].state = fp => c \notin t[j].offered
      BY <1>0, <1>a, <2>2, NovelObservation
    <3> QED BY <3>1, <3>2, <3>3
  <2> QED BY <1>0, <1>a, <2>1, <2>2, NovelGrown
<1>6. QuietOf(u)
  BY <1>0, QuietGrown DEF HistoryOf
<1>7. IsGraph(r) /\ r.revision \in Nat
  BY DEF Sighted
<1> HIDE DEF u
<1> QED BY <1>0, <1>1, <1>2, <1>3, <1>4, <1>5, <1>6, <1>7 DEF HistoryOf, u, e

\* The pairs with those of an edge that follows the last one.
Joined(pairs, last, edge) ==
  pairs \cup {<<l, edge>> : l \in {x \in last : x.to = edge.from}}

\* What a move adds to the edges, the pairs and the edge recorded last.
LEMMA MoveHistory ==
  ASSUME NEW g, NEW t, NEW S, NEW n, HistoryOf(g, t, S, n), NEW e, IsMove(e),
         NEW edge, edge = EdgeOfEntry(e), NEW edges, edges = Counted(g.edges, edge, e.status),
         NEW pairs, pairs = Joined(g.pairs, g.last, edge)
  PROVE  /\ EdgesOf(edges, Append(t, e)) /\ DOMAIN edges = DOMAIN g.edges \cup {edge}
         /\ PairsOf(pairs, {edge}, Append(t, e)) /\ Linked(pairs, {edge}, DOMAIN edges)
<1>1. Proper(t) /\ EdgesOf(g.edges, t) /\ PairsOf(g.pairs, g.last, t)
      /\ Linked(g.pairs, g.last, DOMAIN g.edges)
  BY DEF HistoryOf
<1>2. EdgesOf(edges, Append(t, e))
  BY <1>1, EdgesGrown
<1>3. DOMAIN edges = DOMAIN g.edges \cup {edge}
  BY DEF Counted, With
<1>4. PairsOf(pairs, {edge}, Append(t, e))
  BY <1>1, PairsGrown DEF Joined
<1>5. Linked(pairs, {edge}, DOMAIN edges)
  BY <1>1, <1>3, LinkedGrown DEF Joined
<1> QED BY <1>2, <1>3, <1>4, <1>5

\* A state without obligations.
LEMMA NoDuties == Duties(<< >>)
<1>1. DOMAIN << >> = {}
  OBVIOUS
<1> QED BY <1>1, FS_EmptySet DEF Duties

\* An action, and the fingerprint it reports.
LEMMA ExecutionHistory ==
  ASSUME NEW g, NEW t, NEW S, NEW n \in Nat, HistoryOf(g, t, S, n), None \notin S,
         NEW at \in Nat, n <= at, NEW e, e.type = "execution", e.at = at,
         e.post \in S \cup {None}, NEW from, NEW c, e.action = <<from, c>>,
         from \in DOMAIN g.nodes, e.action \in g.offered,
         NEW h, h = RecordTransition(g, from, c, e.status, e.post, at),
         NEW r, r = IF e.post = None THEN h ELSE RecordState(h, e.post, << >>, at)
  PROVE  /\ HistoryOf(r, Append(t, e), S, at)
         /\ DOMAIN g.nodes \subseteq DOMAIN r.nodes /\ e.post \in DOMAIN r.nodes \cup {None}
<1> DEFINE u == Append(t, e)
           edge == EdgeOf(from, c, e.post, ExecutionKind(e.status))
<1>0. /\ Proper(t) /\ Proper(u) /\ IsMove(e) /\ e.type # "stop" /\ e.type # "observation"
      /\ \A s \in S : Shows(e, s) <=> s = e.post
  BY ProperAppend DEF HistoryOf, IsMove, Shows
<1>1. edge = EdgeOfEntry(e)
  BY DEF EdgeOfEntry
<1>2. /\ edge.from = from /\ edge.to = e.post
      /\ edge.kind \in {"action", "denied", "timeout"}
  BY DEF EdgeOf, ExecutionKind
<1>3. IsGraph(g) /\ g.revision \in Nat
  BY DEF HistoryOf
<1> HIDE DEF u
<1>4. /\ IsGraph(h) /\ h.edges = Counted(g.edges, edge, e.status)
      /\ h.pairs = g.pairs \cup {<<l, edge>> : l \in {x \in g.last : x.to = edge.from}}
      /\ h.last = {edge} /\ h.revision = g.revision + 1
      /\ h.nodes = g.nodes /\ h.offered = g.offered
      /\ h.executed = g.executed \cup {<<from, c>>}
      /\ h.novel \in {g.novel, at} /\ (edge \notin DOMAIN g.edges => h.novel = at)
  BY <1>3, TransitionFields
<1> HIDE DEF edge
<1>5. /\ EdgesOf(h.edges, u) /\ DOMAIN h.edges = DOMAIN g.edges \cup {edge}
      /\ PairsOf(h.pairs, h.last, u) /\ Linked(h.pairs, h.last, DOMAIN h.edges)
  <2> DEFINE edges == h.edges
             pairs == h.pairs
  <2>1. /\ edges = Counted(g.edges, edge, e.status)
        /\ pairs = Joined(g.pairs, g.last, edge)
    BY <1>4 DEF Joined
  <2> HIDE DEF edges, pairs
  <2>2. /\ EdgesOf(edges, Append(t, e)) /\ DOMAIN edges = DOMAIN g.edges \cup {edge}
        /\ PairsOf(pairs, {edge}, Append(t, e)) /\ Linked(pairs, {edge}, DOMAIN edges)
    <3>1. IsMove(e) /\ edge = EdgeOfEntry(e) /\ HistoryOf(g, t, S, n)
      BY <1>0, <1>1
    <3> QED BY <2>1, <3>1, MoveHistory, ZenonT(60)
  <2> QED BY <1>4, <2>2 DEF u, edges, pairs
<1>6. /\ IsGraph(r) /\ r.revision \in Nat
      /\ r.edges = h.edges /\ r.pairs = h.pairs /\ r.last = h.last
      /\ r.offered = h.offered /\ r.executed = h.executed
      /\ r.novel \in {h.novel, at} /\ NodesOf(r.nodes, u, S)
      /\ DOMAIN g.nodes \subseteq DOMAIN r.nodes /\ e.post \in DOMAIN r.nodes \cup {None}
      /\ (e.post # None /\ Sightings(t, e.post) = {} => r.novel = at)
  <2>1. CASE e.post = None
    <3>1. NodesOf(g.nodes, u, S)
      BY <1>0, <2>1, NodesKept DEF HistoryOf, u
    <3> QED BY <1>3, <1>4, <2>1, <3>1
  <2>2. CASE e.post # None
    <3>1. h.revision \in Nat /\ (e.post \in DOMAIN h.nodes => NodeOK(h.nodes[e.post]))
      BY <1>3, <1>4 DEF HistoryOf, NodesOf
    <3>2. Sighted(h, RecordState(h, e.post, << >>, at), e.post, {}, at)
      BY <1>4, <3>1, NoDuties, StateSighted
    <3>3. Sighted(h, r, e.post, {}, at)
      BY <2>2, <3>2
    <3>4. NodesOf(g.nodes, t, S) /\ e.post \in S
      BY <2>2 DEF HistoryOf
    <3>5. Seen(g.nodes, r.nodes, e.post, {})
      <4>1. h.nodes = g.nodes
        BY <1>4
      <4> QED BY <3>3, <4>1, SightedSeen
    <3>6. {} = IF e.type = "observation" THEN e.offered ELSE {}
      BY <1>0
    <3>7. NodesOf(r.nodes, u, S)
      BY <1>0, <3>4, <3>5, <3>6, NodesSeen DEF u
    <3>8. Sightings(t, e.post) = {} => e.post \notin DOMAIN g.nodes
      BY <3>4 DEF NodesOf
    <3>9. Sightings(t, e.post) = {} => r.novel = at
      BY <1>4, <3>3, <3>8 DEF Sighted
    <3>10. /\ IsGraph(r) /\ r.revision \in Nat
           /\ r.edges = h.edges /\ r.pairs = h.pairs /\ r.last = h.last
           /\ r.executed = h.executed /\ r.novel \in {h.novel, at}
      BY <3>3 DEF Sighted
    <3>11. r.offered = h.offered
      BY <3>3, SightedOnly
    <3>12. DOMAIN g.nodes \subseteq DOMAIN r.nodes /\ e.post \in DOMAIN r.nodes
      BY <3>5 DEF Seen
    <3> QED BY <3>7, <3>9, <3>10, <3>11, <3>12
  <2> QED BY <2>1, <2>2
<1>7. Between(r.edges, r.nodes)
  <2>1. Between(g.edges, g.nodes)
    BY DEF HistoryOf
  <2> QED BY <1>2, <1>5, <1>6, <2>1 DEF Between
<1>8. OfferedOf(r.offered, r.executed, u)
  <2>1. OfferedOf(g.offered, g.executed, u)
    BY <1>0, OfferedKept DEF HistoryOf, u
  <2> QED BY <1>4, <1>6, <2>1 DEF OfferedOf
<1>9. NovelOf(r.novel, u, at)
  <2>1. NovelOf(g.novel, t, n) /\ r.novel \in {g.novel, at}
    BY <1>4, <1>6 DEF HistoryOf
  <2>2. ASSUME Novel(Append(t, e), Len(t) + 1)
        PROVE  r.novel = at
    <3>1. CASE e.post # None /\ Sightings(t, e.post) = {}
      BY <1>6, <3>1
    <3>2. CASE Traversals(t, edge) = {}
      <4>1. edge \notin DOMAIN g.edges
        BY <3>2 DEF HistoryOf, EdgesOf, Traversals
      <4> QED BY <1>4, <1>6, <4>1
    <3> QED BY <1>0, <1>1, <2>2, <3>1, <3>2, NovelMove
  <2> QED BY <1>0, <2>1, <2>2, NovelGrown DEF u
<1>10. QuietOf(u)
  BY <1>0, QuietGrown DEF HistoryOf, u
<1> QED BY <1>0, <1>5, <1>6, <1>7, <1>8, <1>9, <1>10 DEF HistoryOf, u

\* A recovery.
LEMMA RecoveryHistory ==
  ASSUME NEW g, NEW t, NEW S, NEW n \in Nat, HistoryOf(g, t, S, n), None \notin S,
         NEW e, e.type = "recovery", e.at = n,
         NEW from, NEW c, e.action = <<from, c>>,
         from \in DOMAIN g.nodes, e.post \in DOMAIN g.nodes \cup {None},
         NEW r, r = RecordControl(g, from, c, e.status, e.post, "backtrack", n)
  PROVE  HistoryOf(r, Append(t, e), S, n)
<1> DEFINE u == Append(t, e)
           edge == EdgeOf(from, c, e.post, "backtrack")
<1>0. /\ Proper(t) /\ Proper(u) /\ IsMove(e) /\ e.type # "stop" /\ e.type # "observation"
      /\ \A s \in S : ~Shows(e, s)
  BY ProperAppend DEF HistoryOf, IsMove, Shows
<1>1. edge = EdgeOfEntry(e)
  BY DEF EdgeOfEntry
<1>2. edge.from = from /\ edge.to = e.post /\ edge.kind = "backtrack"
  BY DEF EdgeOf
<1>3. IsGraph(g) /\ g.revision \in Nat
  BY DEF HistoryOf
<1> HIDE DEF u
<1>4. /\ IsGraph(r) /\ r.edges = Counted(g.edges, edge, e.status)
      /\ r.pairs = g.pairs \cup {<<l, edge>> : l \in {x \in g.last : x.to = edge.from}}
      /\ r.last = {edge} /\ r.revision = g.revision + 1
      /\ r.nodes = g.nodes /\ r.offered = g.offered /\ r.executed = g.executed
      /\ r.novel \in {g.novel, n} /\ (edge \notin DOMAIN g.edges => r.novel = n)
  BY <1>3, ControlFields
<1> HIDE DEF edge
<1>5. /\ EdgesOf(r.edges, u) /\ DOMAIN r.edges = DOMAIN g.edges \cup {edge}
      /\ PairsOf(r.pairs, r.last, u) /\ Linked(r.pairs, r.last, DOMAIN r.edges)
  <2> DEFINE edges == r.edges
             pairs == r.pairs
  <2>1. /\ edges = Counted(g.edges, edge, e.status)
        /\ pairs = Joined(g.pairs, g.last, edge)
    BY <1>4 DEF Joined
  <2> HIDE DEF edges, pairs
  <2>2. /\ EdgesOf(edges, Append(t, e)) /\ DOMAIN edges = DOMAIN g.edges \cup {edge}
        /\ PairsOf(pairs, {edge}, Append(t, e)) /\ Linked(pairs, {edge}, DOMAIN edges)
    BY <1>0, <1>1, <2>1, MoveHistory
  <2> QED BY <1>4, <2>2 DEF u, edges, pairs
<1>6. NodesOf(r.nodes, u, S)
  BY <1>0, <1>4, NodesKept DEF HistoryOf, u
<1>7. Between(r.edges, r.nodes)
  <2>1. Between(g.edges, g.nodes)
    BY DEF HistoryOf
  <2> QED BY <1>2, <1>4, <1>5, <2>1 DEF Between
<1>8. OfferedOf(r.offered, r.executed, u)
  BY <1>0, <1>4, OfferedKept DEF HistoryOf, u
<1>9. NovelOf(r.novel, u, n)
  <2>1. NovelOf(g.novel, t, n) /\ n <= n
    BY DEF HistoryOf
  <2>2. ASSUME Novel(Append(t, e), Len(t) + 1)
        PROVE  r.novel = n
    <3>1. CASE e.post # None /\ Sightings(t, e.post) = {}
      <4>1. e.post \in DOMAIN g.nodes
        BY <3>1
      <4> QED BY <3>1, <4>1 DEF HistoryOf, NodesOf
    <3>2. CASE Traversals(t, edge) = {}
      <4>1. edge \notin DOMAIN g.edges
        BY <3>2 DEF HistoryOf, EdgesOf, Traversals
      <4> QED BY <1>4, <4>1
    <3> QED BY <1>0, <1>1, <2>2, <3>1, <3>2, NovelMove
  <2> QED BY <1>0, <1>4, <2>1, <2>2, NovelGrown DEF u
<1>10. QuietOf(u)
  BY <1>0, QuietGrown DEF HistoryOf, u
<1>11. r.revision \in Nat
  BY <1>3, <1>4
<1> QED BY <1>0, <1>4, <1>5, <1>6, <1>7, <1>8, <1>9, <1>10, <1>11 DEF HistoryOf, u

-----------------------------------------------------------------------------
(* The steps of the run.                                                   *)

\* Before a run.
LEMMA EmptyHistory ==
  ASSUME NEW S
  PROVE  HistoryOf(NewGraph, << >>, S, 0)
<1> DEFINE t == << >>
<1>1. Proper(t) /\ DOMAIN t = {}
  BY EmptyProper, ProperLen
<1> HIDE DEF t
<1>2. Moves(t) = {} /\ Followed(t) = {} /\ \A s : Sightings(t, s) = {}
  BY <1>1 DEF Moves, Followed, Sightings
<1>3. /\ NewGraph.nodes = << >> /\ NewGraph.edges = << >> /\ NewGraph.offered = {}
      /\ NewGraph.executed = {} /\ NewGraph.pairs = {} /\ NewGraph.last = {}
      /\ NewGraph.novel = 0 /\ NewGraph.revision = 0 /\ IsGraph(NewGraph)
      /\ DOMAIN << >> = {}
  BY DEF NewGraph, IsGraph, GraphFields
<1>4. NodesOf(NewGraph.nodes, t, S)
  BY <1>2, <1>3, FS_EmptySet DEF NodesOf
<1>5. EdgesOf(NewGraph.edges, t) /\ Between(NewGraph.edges, NewGraph.nodes)
  BY <1>2, <1>3, FS_EmptySet DEF EdgesOf, Between
<1>6. /\ PairsOf(NewGraph.pairs, NewGraph.last, t)
      /\ Linked(NewGraph.pairs, NewGraph.last, DOMAIN NewGraph.edges)
  BY <1>2, <1>3 DEF PairsOf, Linked
<1>7. OfferedOf(NewGraph.offered, NewGraph.executed, t) /\ NovelOf(NewGraph.novel, t, 0)
  BY <1>1, <1>3, FS_EmptySet DEF OfferedOf, NovelOf
<1>8. QuietOf(t)
  BY <1>1 DEF QuietOf
<1> QED BY <1>1, <1>3, <1>4, <1>5, <1>6, <1>7, <1>8 DEF HistoryOf, t

\* What a well-formed target says of one of its states.
LEMMA StateOf ==
  ASSUME NEW t, WellFormed(t), NEW s \in DOMAIN t.offers
  PROVE  IsFiniteSet(t.offers[s]) /\ Duties(t.obligations[s]) /\ None \notin DOMAIN t.offers
  BY DEF WellFormed, Duties

\* An action and the recovery after it lead to states of the target.
LEMMA ActionOf ==
  ASSUME NEW t, WellFormed(t), NEW s \in DOMAIN t.offers, NEW c \in t.offers[s]
  PROVE  /\ t.effects[<<s, c>>].next \in DOMAIN t.offers
         /\ t.effects[<<s, c>>].post \in DOMAIN t.offers \cup {None}
         /\ t.recovers[<<s, c>>] \in DOMAIN t.offers \cup {None}
  BY DEF WellFormed

\* The state seen, without the candidates it offers.
LEMMA SeenHistory ==
  ASSUME NEW g, NEW t, NEW u, WellFormed(u), NEW n \in Nat,
         HistoryOf(g, t, DOMAIN u.offers, n),
         NEW fp \in DOMAIN u.offers, NEW at \in Nat, n <= at,
         NEW r, r = RecordState(g, fp, u.obligations[fp], at)
  PROVE  /\ HistoryOf(r, Append(t, Observed(fp, {}, at)), DOMAIN u.offers, at)
         /\ Sighted(g, r, fp, {}, at)
<1>1. /\ IsGraph(g) /\ g.revision \in Nat
      /\ (fp \in DOMAIN g.nodes => NodeOK(g.nodes[fp]))
  BY DEF HistoryOf, NodesOf
<1>2. Duties(u.obligations[fp])
  BY StateOf
<1>3. Sighted(g, r, fp, {}, at)
  BY <1>1, <1>2, StateSighted
<1>4. IsFiniteSet({})
  BY FS_EmptySet
<1> QED BY <1>3, <1>4, ObservationHistory

\* A step that neither the graph nor the trace takes notice of.
LEMMA GraphIdle ==
  ASSUME GraphIInv, UNCHANGED <<target, setting, here, graph, trace, actions, recording>>,
         phase' \notin {"select", "judge"}
  PROVE  GraphIInv'
<1>1. PlaceInv'
  BY DEF GraphIInv, PlaceInv, steps
<1>2. HistoryOf(graph, trace, DOMAIN target.offers, actions)'
  BY DEF GraphIInv
<1> QED BY <1>1, <1>2 DEF GraphIInv

\* One that ends the run with an entry of its own.
LEMMA GraphNoted ==
  ASSUME GraphIInv, actions \in Nat,
         UNCHANGED <<target, setting, here, graph, actions, recording>>,
         NEW e, trace' = Append(trace, e), phase' \notin {"select", "judge"},
         e.type \notin Told,
         e.type = "stop" =>
           \A c \in e.met : c.type = "noveltyPlateau" =>
             /\ e.actions >= c.minActions
             /\ \A j \in DOMAIN trace :
                  trace[j].type \in Told /\ trace[j].at > e.actions - c.windowActions
                  => ~Novel(trace, j)
  PROVE  GraphIInv'
<1>1. PlaceInv'
  BY DEF GraphIInv, PlaceInv, steps
<1>2. HistoryOf(graph, trace, DOMAIN target.offers, actions)'
  <2>1. HistoryOf(graph, Append(trace, e), DOMAIN target.offers, actions)
    BY OtherHistory DEF GraphIInv
  <2> QED BY <2>1
<1> QED BY <1>1, <1>2 DEF GraphIInv

\* A stop is quiet when its plateau conditions held of the counter.
LEMMA GraphStopped ==
  ASSUME GraphIInv, actions \in Nat, NEW met,
         \A c \in met : c.type = "noveltyPlateau" =>
           /\ actions >= c.minActions /\ c.windowActions \in Nat
           /\ actions - graph.novel >= c.windowActions,
         UNCHANGED <<target, setting, here, graph, actions, recording>>,
         trace' = Stopped(met), phase' = "ended"
  PROVE  GraphIInv'
<1> DEFINE e == [type |-> "stop", actions |-> actions, met |-> met]
<1>1. trace' = Append(trace, e) /\ e.type = "stop" /\ e.actions = actions /\ e.met = met
  BY DEF Stopped
<1> HIDE DEF e
<1>2. ASSUME NEW c \in met, c.type = "noveltyPlateau", NEW j \in DOMAIN trace,
             trace[j].type \in Told, trace[j].at > actions - c.windowActions
      PROVE  ~Novel(trace, j)
  <2>1. /\ graph.novel \in Nat /\ trace[j].at \in Nat
        /\ (Novel(trace, j) => trace[j].at <= graph.novel)
    BY <1>2 DEF GraphIInv, HistoryOf, NovelOf
  <2>2. c.windowActions \in Nat /\ actions - graph.novel >= c.windowActions
    BY <1>2
  <2> QED BY <1>2, <2>1, <2>2
<1>3. e.type \notin Told /\ phase' \notin {"select", "judge"}
  BY <1>1 DEF Told
<1> QED BY <1>1, <1>2, <1>3, GraphNoted

\* The conditions met, the plateau among them.
LEMMA MetPlateau ==
  ASSUME NEW late, NEW c \in StopConditions(late), c.type = "noveltyPlateau",
         setting \in Settings
  PROVE  /\ actions >= c.minActions /\ c.windowActions \in Nat
         /\ actions - graph.novel >= c.windowActions
<1>1. /\ c \in setting.stopWhen.any \cup setting.stopWhen.all
      /\ Matches(graph, c, actions, late)
  BY DEF StopConditions, MetConditions
<1>2. c.windowActions \in Nat
  BY <1>1, GuidedAssumption
<1> QED BY <1>1, <1>2 DEF Matches

\* Stop conditions met are conditions of the setting, which held.
LEMMA GraphStopWhen ==
  ASSUME GraphIInv, actions \in Nat, StopWhen
  PROVE  GraphIInv'
<1>1. PICK late \in BOOLEAN : trace' = Stopped(StopConditions(late))
  BY DEF StopWhen
<1>2. /\ UNCHANGED <<target, setting, here, graph, actions, recording>> /\ phase' = "ended"
      /\ setting \in Settings
  BY DEF StopWhen, Completed, End, GraphIInv, PlaceInv
<1>3. \A c \in StopConditions(late) : c.type = "noveltyPlateau" =>
        /\ actions >= c.minActions /\ c.windowActions \in Nat
        /\ actions - graph.novel >= c.windowActions
  BY <1>2, MetPlateau
<1> QED BY <1>1, <1>2, <1>3, GraphStopped

\* An observation: recordState, recordOffered, and the entry for them.
LEMMA GraphObserve ==
  ASSUME GraphIInv, actions \in Nat, Observe
  PROVE  GraphIInv'
<1> DEFINE C == target.offers[here]
           h == RecordState(graph, here, target.obligations[here], actions)
<1>1. /\ UNCHANGED <<target, setting, here, actions, recording>> /\ phase' = "select"
      /\ graph' = RecordOffered(h, here, C, actions)
      /\ trace' = Append(trace, Observed(here, C, actions))
  BY DEF Observe
<1>2. /\ WellFormed(target) /\ here \in DOMAIN target.offers
      /\ HistoryOf(graph, trace, DOMAIN target.offers, actions)
  BY DEF GraphIInv, PlaceInv
<1>3. /\ IsGraph(graph) /\ graph.revision \in Nat
      /\ (here \in DOMAIN graph.nodes => NodeOK(graph.nodes[here]))
  BY <1>2 DEF HistoryOf, NodesOf
<1>4. IsFiniteSet(C) /\ Duties(target.obligations[here])
  BY <1>2, StateOf
<1>5. Sighted(graph, h, here, {}, actions)
  BY <1>3, <1>4, StateSighted
<1> HIDE DEF h
<1>6. Sighted(graph, graph', here, C, actions)
  BY <1>1, <1>4, <1>5, OfferSighted
<1>7. HistoryOf(graph', trace', DOMAIN target.offers, actions)
  <2>1. actions <= actions
    OBVIOUS
  <2> QED BY <1>1, <1>2, <1>4, <1>6, <2>1, ObservationHistory
<1>8. here \in DOMAIN graph'.nodes /\ \A c \in C : <<here, c>> \in graph'.offered
  BY <1>6 DEF Sighted
<1>9. PlaceInv'
  BY <1>1, <1>8 DEF GraphIInv, PlaceInv, steps
<1> QED BY <1>1, <1>7, <1>9 DEF GraphIInv

\* A state that is seen as one ends up in it.
LEMMA WentOn ==
  ASSUME NEW u, WellFormed(u), NEW S, S = DOMAIN u.offers, NEW n \in Nat, NEW fp \in S,
         NEW g, NEW t, HistoryOf(g, t, S, n)
  PROVE  /\ HistoryOf(RecordState(g, fp, u.obligations[fp], n),
                      Append(t, Observed(fp, {}, n)), S, n)
         /\ DOMAIN g.nodes \subseteq DOMAIN RecordState(g, fp, u.obligations[fp], n).nodes
         /\ fp \in DOMAIN RecordState(g, fp, u.obligations[fp], n).nodes
<1> DEFINE r == RecordState(g, fp, u.obligations[fp], n)
<1>0. n <= n /\ r = RecordState(g, fp, u.obligations[fp], n)
  OBVIOUS
<1> HIDE DEF r
<1>1. HistoryOf(r, Append(t, Observed(fp, {}, n)), S, n) /\ Sighted(g, r, fp, {}, n)
  BY <1>0, SeenHistory
<1>2. DOMAIN g.nodes \subseteq DOMAIN r.nodes /\ fp \in DOMAIN r.nodes
  BY <1>1 DEF Sighted
<1> QED BY <1>1, <1>2 DEF r

\* An execution: the transition, the state it led to, and the entry for them.
LEMMA GraphPerform ==
  ASSUME GuidedIInv, GraphIInv, phase = "select", NEW action, Perform(action),
         \E c \in target.offers[here] : action = <<here, c>>
  PROVE  GraphIInv'
<1> DEFINE effect == target.effects[action]
           n == actions + 1
           S == DOMAIN target.offers
           x == [type |-> "execution", action |-> action, status |-> effect.status,
                 pre |-> here, post |-> effect.post, at |-> n]
           edged == RecordTransition(graph, action[1], action[2], effect.status,
                                     effect.post, n)
           posted == IF effect.post = None THEN edged
                     ELSE RecordState(edged, effect.post, << >>, n)
           there == effect.status # "target_lost"
           after == IF there THEN RecordState(posted, effect.next,
                                              target.obligations[effect.next], n)
                    ELSE posted
           w == IF there THEN <<Observed(effect.next, {}, n)>> ELSE << >>
           y == [type |-> "oracle",
                 verdict |-> BuiltIn(target.contracts[action], target.views[here],
                                     target.views[effect.next], there, effect.status,
                                     effect.alarm)]
<1>1. /\ graph' = after /\ trace' = ((trace \o <<x>>) \o w) \o <<y>>
      /\ UNCHANGED <<target, setting, recording>>
  BY DEF Perform
<1>2. TraceOK(trace) /\ RunInv /\ RecordedInv /\ actions \in Nat /\ Proper(Steps)
      /\ Len(Steps) = actions
  BY StepTypes DEF GuidedIInv, RunInv
<1>3. /\ StepsOf(trace') = Append(StepsOf(trace), StepFrom(target, here, action))
      /\ here' = effect.next /\ actions' = n /\ phase' = "judge"
  BY <1>2, Performed
<1>4. LastStep'.pre = here /\ LastStep'.post = effect.post
  <2>1. Append(Steps, StepFrom(target, here, action))[actions + 1] = StepFrom(target, here, action)
    BY <1>2, ProperAppend
  <2>2. LastStep' = StepFrom(target, here, action)
    BY <1>3, <2>1 DEF LastStep, Steps
  <2> QED BY <2>2 DEF StepFrom
<1>5. PICK c \in target.offers[here] : action = <<here, c>>
  OBVIOUS
<1>6. /\ WellFormed(target) /\ here \in S /\ HistoryOf(graph, trace, S, actions)
      /\ here \in DOMAIN graph.nodes /\ action \in graph.offered
  BY <1>5 DEF GraphIInv, PlaceInv
<1>7. effect.next \in S /\ effect.post \in S \cup {None} /\ None \notin S
  BY <1>5, <1>6, ActionOf, StateOf
<1>8. /\ x.type = "execution" /\ x.at = n /\ x.action = <<here, c>> /\ x.post = effect.post
      /\ x.status = effect.status /\ y.type = "oracle" /\ there \in BOOLEAN
      /\ n \in Nat /\ actions <= n /\ action[1] = here /\ action[2] = c
      /\ x.action = action
  BY <1>2, <1>5
<1> HIDE DEF x, y, effect, n
<1>9. /\ HistoryOf(posted, Append(trace, x), S, n)
      /\ DOMAIN graph.nodes \subseteq DOMAIN posted.nodes
      /\ effect.post \in DOMAIN posted.nodes \cup {None}
  <2>1. edged = RecordTransition(graph, here, c, x.status, x.post, n)
    BY <1>8
  <2>2. posted = IF x.post = None THEN edged ELSE RecordState(edged, x.post, << >>, n)
    BY <1>8
  <2>3. x.post \in S \cup {None} /\ x.action \in graph.offered
    BY <1>6, <1>7, <1>8
  <2> HIDE DEF edged, posted, S
  <2> QED BY <1>2, <1>6, <1>7, <1>8, <2>1, <2>2, <2>3, ExecutionHistory
<1> HIDE DEF posted
<1> DEFINE t1 == Append(trace, x)
           t2 == t1 \o w
<1>10. /\ HistoryOf(after, t2, S, n) /\ DOMAIN posted.nodes \subseteq DOMAIN after.nodes
  <2> HIDE DEF t1
  <2>1. HistoryOf(posted, t1, DOMAIN target.offers, n)
    BY <1>9 DEF t1
  <2>2. CASE there
    <3>1. after = RecordState(posted, effect.next, target.obligations[effect.next], n)
      BY <2>2
    <3>2. w = <<Observed(effect.next, {}, n)>>
      BY <2>2
    <3> HIDE DEF there, w, after
    <3>3. /\ HistoryOf(after, Append(t1, Observed(effect.next, {}, n)), DOMAIN target.offers, n)
          /\ DOMAIN posted.nodes \subseteq DOMAIN after.nodes
      <4>1. WellFormed(target) /\ n \in Nat /\ effect.next \in DOMAIN target.offers
        BY <1>6, <1>7, <1>8
      <4> HIDE DEF S
      <4> QED BY <2>1, <3>1, <4>1, WentOn
    <3>4. Proper(t1)
      BY <2>1 DEF HistoryOf
    <3>5. t1 \o w = Append(t1, Observed(effect.next, {}, n))
      BY <3>2, <3>4, ConcatOne
    <3> QED BY <3>3, <3>5
  <2>3. CASE ~there
    <3>1. after = posted /\ w = << >>
      BY <2>3
    <3>2. t1 \o << >> = t1
      BY <2>1, ConcatOne DEF HistoryOf
    <3> HIDE DEF there, w, after
    <3> QED BY <2>1, <3>1, <3>2
  <2> QED BY <2>2, <2>3
<1> HIDE DEF after, w, there
<1>11. trace' = Append(t2, y)
  <2>1. trace \o <<x>> = t1 /\ Proper(t2)
    BY <1>6, <1>10, ConcatOne DEF HistoryOf
  <2> HIDE DEF t1, t2
  <2>2. t2 = t1 \o w
    BY DEF t2
  <2> QED BY <1>1, <2>1, <2>2, ConcatOne
<1> HIDE DEF t2
<1>12. HistoryOf(after, Append(t2, y), S, n)
  <2>1. y.type \notin Told /\ y.type # "stop"
    BY <1>8 DEF Told
  <2> QED BY <1>8, <1>10, <2>1, OtherHistory
<1>13. PlaceInv'
  <2>1. /\ LastStep'.pre \in DOMAIN graph'.nodes
        /\ LastStep'.post \in DOMAIN graph'.nodes \cup {None}
    BY <1>1, <1>4, <1>6, <1>9, <1>10
  <2> QED BY <1>1, <1>3, <1>7, <2>1 DEF GraphIInv, PlaceInv, steps
<1>14. HistoryOf(graph, trace, DOMAIN target.offers, actions)'
  BY <1>1, <1>3, <1>11, <1>12
<1> QED BY <1>13, <1>14 DEF GraphIInv

\* An action that was selected was offered here.
LEMMA GraphExplore ==
  ASSUME GuidedIInv, GraphIInv, Explore
  PROVE  GraphIInv'
<1>1. PICK action \in Selectable(graph, setting.strategy, setting.risk, Safe) : Perform(action)
  BY DEF Explore
<1>2. action \in Safe
  BY <1>1, ChosenIsSafe
<1>3. \E c \in target.offers[here] : action = <<here, c>>
  BY <1>2 DEF Safe
<1>4. phase = "select"
  BY DEF Explore
<1> QED BY <1>1, <1>3, <1>4, GraphPerform

\* So was an action that is repeated.
LEMMA GraphRepeat ==
  ASSUME GuidedIInv, GraphIInv, Repeat
  PROVE  GraphIInv'
<1> DEFINE action == steps[actions + 1].action
<1>1. /\ phase = "select" /\ Perform(action)
      /\ \E c \in target.offers[here] : action = <<here, c>>
  BY DEF Repeat
<1> HIDE DEF action
<1> QED BY <1>1, GraphPerform

\* A divergence is an entry about no move and no state.
LEMMA GraphDiverge ==
  ASSUME GraphIInv, actions \in Nat, NEW kind, Diverge(kind)
  PROVE  GraphIInv'
<1> DEFINE e == [type |-> "divergence", reason |-> kind]
<1>1. /\ UNCHANGED <<target, setting, here, graph, actions, recording>>
      /\ trace' = Append(trace, e) /\ phase' = "ended"
  BY DEF Diverge, End
<1>2. e.type = "divergence"
  OBVIOUS
<1> HIDE DEF e
<1>3. e.type \notin Told /\ e.type # "stop" /\ phase' \notin {"select", "judge"}
  BY <1>1, <1>2 DEF Told
<1> QED BY <1>1, <1>3, GraphNoted

\* A recovery records a control transition, and the state it led to.
LEMMA GraphRecover ==
  ASSUME GuidedIInv, GraphIInv, Recover
  PROVE  GraphIInv'
<1> DEFINE action == LastStep.action
           reached == target.recovers[action]
           from == IF LastStep.post = None THEN LastStep.pre ELSE LastStep.post
           n == backtracks + 1
           S == DOMAIN target.offers
           there == reached # None
           matched == reached # None /\ reached = LastStep.pre
           status == CASE reached = None -> "not_recovered"
                       [] matched -> "recovered"
                       [] OTHER -> "diverged"
           known == IF reached = None THEN graph
                    ELSE RecordState(graph, reached, target.obligations[reached], actions)
           w == IF reached = None THEN << >> ELSE <<Observed(reached, {}, actions)>>
           y == [type |-> "recovery", action |-> <<from, <<action[2], n>> >>,
                 status |-> status, pre |-> from, post |-> reached, at |-> actions]
           z == [type |-> "max-backtracks"]
           r == RecordControl(known, from, <<action[2], n>>, status, reached,
                              "backtrack", actions)
<1>0. RunInv /\ RecordedInv /\ phase = "judge" /\ actions \in Nat
  BY StepTypes DEF GuidedIInv, Recover, Agrees
<1>1. /\ UNCHANGED <<target, setting, actions, recording>>
      /\ \/ /\ trace' = Append(trace, z) /\ UNCHANGED <<here, graph>> /\ phase' = "ended"
         \/ /\ graph' = r /\ here' = (IF reached = None THEN here ELSE reached)
            /\ trace' = (trace \o w) \o <<y>> /\ phase' \in {"top", "ended"}
  BY DEF Recover, End
<1>2. CASE trace' = Append(trace, z) /\ UNCHANGED <<here, graph>> /\ phase' = "ended"
  <2>1. z.type \notin Told /\ z.type # "stop"
    BY DEF Told
  <2> HIDE DEF z
  <2> QED BY <1>0, <1>1, <1>2, <2>1, GraphNoted
<1>3. CASE /\ graph' = r /\ here' = IF reached = None THEN here ELSE reached
           /\ trace' = (trace \o w) \o <<y>> /\ phase' \in {"top", "ended"}
  <2>1. Made(target, LastStep)
    BY <1>0, StepTypes DEF RunInv, PathOf, LastStep
  <2>2. PICK c \in target.offers[LastStep.pre] : action = <<LastStep.pre, c>>
    BY <2>1 DEF Made
  <2>3. /\ WellFormed(target) /\ here \in S /\ HistoryOf(graph, trace, S, actions)
        /\ LastStep.pre \in DOMAIN graph.nodes
        /\ LastStep.post \in DOMAIN graph.nodes \cup {None}
    BY <1>0 DEF GraphIInv, PlaceInv
  <2>4. from \in DOMAIN graph.nodes /\ DOMAIN graph.nodes \subseteq S
    BY <2>3 DEF HistoryOf, NodesOf
  <2>5. reached \in S \cup {None} /\ None \notin S
    BY <2>2, <2>3, <2>4, ActionOf, StateOf
  <2>6. /\ y.type = "recovery" /\ y.at = actions /\ y.action = <<from, <<action[2], n>> >>
        /\ y.post = reached /\ y.status = status
    OBVIOUS
  <2> HIDE DEF y, from, status, n, action
  <2>7. /\ HistoryOf(known, trace \o w, S, actions)
        /\ DOMAIN graph.nodes \subseteq DOMAIN known.nodes
        /\ reached \in DOMAIN known.nodes \cup {None}
    <3>1. CASE there
      <4>1. /\ known = RecordState(graph, reached, target.obligations[reached], actions)
            /\ w = <<Observed(reached, {}, actions)>>
        BY <3>1
      <4>2. reached \in S
        BY <2>5, <3>1
      <4> HIDE DEF there, known, w, reached
      <4>3. /\ HistoryOf(known, Append(trace, Observed(reached, {}, actions)),
                         DOMAIN target.offers, actions)
            /\ DOMAIN graph.nodes \subseteq DOMAIN known.nodes /\ reached \in DOMAIN known.nodes
        <5>1. /\ WellFormed(target) /\ reached \in DOMAIN target.offers
              /\ HistoryOf(graph, trace, DOMAIN target.offers, actions)
          BY <2>3, <4>2
        <5> HIDE DEF S
        <5> QED BY <1>0, <4>1, <5>1, WentOn
      <4>4. Proper(trace)
        BY <2>3 DEF HistoryOf
      <4>5. trace \o w = Append(trace, Observed(reached, {}, actions))
        BY <4>1, <4>4, ConcatOne
      <4> QED BY <4>3, <4>5
    <3>2. CASE ~there
      <4>1. known = graph /\ w = << >> /\ reached = None
        BY <3>2
      <4>2. trace \o << >> = trace
        BY <2>3, ConcatOne DEF HistoryOf
      <4> QED BY <2>3, <4>1, <4>2
    <3> QED BY <3>1, <3>2
  <2> DEFINE u == trace \o w
  <2> HIDE DEF known, w, reached, u
  <2>8. HistoryOf(r, Append(u, y), S, actions)
    <3>1. HistoryOf(known, u, S, actions)
      BY <2>7 DEF u
    <3>2. from \in DOMAIN known.nodes /\ y.post \in DOMAIN known.nodes \cup {None}
      BY <2>4, <2>6, <2>7
    <3>3. r = RecordControl(known, from, <<action[2], n>>, y.status, y.post, "backtrack", actions)
      BY <2>6
    <3> HIDE DEF r, S
    <3> QED BY <1>0, <2>5, <2>6, <3>1, <3>2, <3>3, RecoveryHistory
  <2>9. trace' = Append(u, y)
    <3>1. Proper(u)
      BY <2>7 DEF HistoryOf, u
    <3> QED BY <1>3, <3>1, ConcatOne DEF u
  <2> HIDE DEF r
  <2>10. here' \in S
    BY <1>3, <2>3, <2>5
  <2>11. PlaceInv'
    BY <1>1, <1>3, <2>10 DEF GraphIInv, PlaceInv, steps
  <2>12. HistoryOf(graph, trace, DOMAIN target.offers, actions)'
    BY <1>1, <1>3, <2>8, <2>9
  <2> QED BY <2>11, <2>12 DEF GraphIInv
<1> QED BY <1>1, <1>2, <1>3

\* An investigation starts with an empty graph and an empty trace.
LEMMA GraphInvestigate ==
  ASSUME GuidedIInv, GraphIInv, Investigate
  PROVE  GraphIInv'
<1>1. /\ phase = "recorded" /\ actions > 0 /\ recording' = [target |-> target, steps |-> Steps]
      /\ target' \in Replayed(target) /\ phase' = "top" /\ here' = Start
      /\ graph' = NewGraph /\ trace' = << >> /\ actions' = 0 /\ setting' = setting
  BY DEF Investigate, Replayable
<1>2. Len(Steps) = actions /\ steps = << >>
  BY <1>1 DEF GuidedIInv, RunInv, RecordedInv
<1>3. steps' # << >>
  BY <1>1, <1>2, EmptyProper DEF steps
<1>4. target \in Targets /\ setting \in Settings
  BY <1>2 DEF GraphIInv, PlaceInv
<1>5. WellFormed(target')
  BY <1>1, <1>4, GuidedAssumption
<1>6. Start \in DOMAIN target'.offers
  BY <1>5 DEF WellFormed
<1>7. PlaceInv'
  BY <1>1, <1>3, <1>4, <1>5, <1>6 DEF PlaceInv
<1>8. HistoryOf(graph, trace, DOMAIN target.offers, actions)'
  BY <1>1, EmptyHistory
<1> QED BY <1>7, <1>8 DEF GraphIInv

\* So does a run.
LEMMA GraphInitOK ==
  ASSUME GuidedInit
  PROVE  GraphIInv
<1>1. /\ phase = "top" /\ target \in Targets /\ setting \in Settings /\ here = Start
      /\ graph = NewGraph /\ trace = << >> /\ actions = 0
  BY DEF GuidedInit, Fresh
<1>2. WellFormed(target)
  BY <1>1, GuidedAssumption
<1>3. PlaceInv
  BY <1>1, <1>2 DEF PlaceInv, WellFormed
<1>4. HistoryOf(graph, trace, DOMAIN target.offers, actions)
  BY <1>1, EmptyHistory
<1> QED BY <1>3, <1>4 DEF GraphIInv

\* A step that changes nothing.
LEMMA GraphStutters ==
  ASSUME GraphIInv, UNCHANGED guidedVars
  PROVE  GraphIInv'
<1>1. UNCHANGED <<phase, target, setting, here, graph, trace, actions, recording>>
  BY DEF guidedVars
<1>2. steps' = steps /\ LastStep' = LastStep
  BY <1>1, Kept DEF steps
<1>3. PlaceInv'
  BY <1>1, <1>2 DEF GraphIInv, PlaceInv
<1>4. HistoryOf(graph, trace, DOMAIN target.offers, actions)'
  BY <1>1 DEF GraphIInv
<1> QED BY <1>3, <1>4 DEF GraphIInv

\* The graph is at every moment what the operations that were recorded in the
\* trace have made of it, and the run is where the graph says
\* (graph.ts:154-227, orchestrator.ts).
THEOREM GraphIInvHolds == GuidedSpec => []GraphIInv
<1>1. GuidedInit => GraphIInv
  BY GraphInitOK
<1>2. GuidedIInv /\ GraphIInv /\ [GuidedNext]_guidedVars => GraphIInv'
  <2> SUFFICES ASSUME GuidedIInv, GraphIInv, [GuidedNext]_guidedVars
               PROVE  GraphIInv'
    OBVIOUS
  <2>0. actions \in Nat
    BY DEF GuidedIInv, RunInv
  <2>1. CASE OutOfActions
    BY <2>1, GraphIdle DEF OutOfActions, End
  <2>2. CASE StopWhen
    BY <2>0, <2>2, GraphStopWhen
  <2>3. CASE Observe
    BY <2>0, <2>3, GraphObserve
  <2>4. CASE NothingSafe
    <3>1. /\ trace' = Stopped({}) /\ phase' = "ended"
          /\ UNCHANGED <<target, setting, here, graph, actions, recording>>
      BY <2>4 DEF NothingSafe, Completed, End
    <3> QED BY <2>0, <3>1, GraphStopped
  <2>5. CASE SelectorStops
    <3>1. /\ trace' = Stopped({}) /\ phase' = "ended"
          /\ UNCHANGED <<target, setting, here, graph, actions, recording>>
      BY <2>5 DEF SelectorStops, Completed, End
    <3> QED BY <2>0, <3>1, GraphStopped
  <2>6. CASE PreflightFails
    BY <2>6, GraphIdle DEF PreflightFails, End
  <2>7. CASE SelectorFails
    BY <2>7, GraphIdle DEF SelectorFails, End
  <2>8. CASE Unresolved
    <3>1. PICK kind \in {"candidate-unresolved", "candidate-replay-mismatch",
                         "scope-or-safety-violation"} : Diverge(kind)
      BY <2>8 DEF Unresolved
    <3> QED BY <2>0, <3>1, GraphDiverge
  <2>9. CASE Explore
    BY <2>9, GraphExplore
  <2>10. CASE Repeat
    BY <2>10, GraphRepeat
  <2>11. CASE StepDiverges
    <3> DEFINE kind == Divergence(steps[actions], LastStep)
    <3>1. Diverge(kind)
      BY <2>11 DEF StepDiverges
    <3> HIDE DEF kind
    <3> QED BY <2>0, <3>1, GraphDiverge
  <2>12. CASE OracleFails
    BY <2>12, GraphIdle DEF OracleFails, End
  <2>13. CASE GoOn
    BY <2>13, GraphIdle DEF GoOn, loop
  <2>14. CASE Recover
    BY <2>14, GraphRecover
  <2>15. CASE BeginShrink
    BY <2>15, GraphIdle DEF BeginShrink, loop
  <2>16. CASE Try
    BY <2>16, GraphIdle DEF Try, loop
  <2>17. CASE Halve
    BY <2>17, GraphIdle DEF Halve, loop
  <2>18. CASE EndShrink
    BY <2>18, GraphIdle DEF EndShrink, loop
  <2>19. CASE Scout
    BY <2>19, GraphIdle DEF Scout, loop
  <2>20. CASE Investigate
    BY <2>20, GraphInvestigate
  <2>21. CASE Conclude
    BY <2>21, GraphIdle DEF Conclude, loop
  <2>22. CASE Promote
    BY <2>22, GraphIdle DEF Promote, loop
  <2>23. CASE UNCHANGED guidedVars
    BY <2>23, GraphStutters
  <2> QED BY <2>1, <2>2, <2>3, <2>4, <2>5, <2>6, <2>7, <2>8, <2>9, <2>10, <2>11, <2>12,
             <2>13, <2>14, <2>15, <2>16, <2>17, <2>18, <2>19, <2>20, <2>21, <2>22, <2>23
          DEF GuidedNext
<1> QED BY <1>1, <1>2, GuidedIInvHolds, PTL DEF GuidedSpec

-----------------------------------------------------------------------------
(* What the readers of the evidence find.                                  *)

\* Counts of a part and of the whole.
LEMMA PartOf ==
  ASSUME NEW T, IsFiniteSet(T), NEW U, U \subseteq T
  PROVE  ReadableMetric(<<Cardinality(U), Cardinality(T)>>)
<1>1. /\ IsFiniteSet(U) /\ Cardinality(U) <= Cardinality(T)
      /\ Cardinality(T) \in Nat
  BY FS_Subset, FS_CardinalityType
<1>2. Cardinality(U) \in Nat
  BY <1>1, FS_CardinalityType
<1> QED BY <1>1, <1>2 DEF ReadableMetric

\* The obligations of all states are finitely many.
LEMMA FiniteClaims ==
  ASSUME NEW nodes, IsFiniteSet(DOMAIN nodes),
         \A s \in DOMAIN nodes : IsFiniteSet(DOMAIN nodes[s].obligations)
  PROVE  IsFiniteSet(UNION {{<<fp, o>> : o \in DOMAIN nodes[fp].obligations} :
                              fp \in DOMAIN nodes})
<1> DEFINE f == [fp \in DOMAIN nodes |-> {<<fp, o>> : o \in DOMAIN nodes[fp].obligations}]
           R == {f[fp] : fp \in DOMAIN nodes}
<1>1. IsFiniteSet(R)
  BY FiniteImage
<1>2. \A T \in R : IsFiniteSet(T)
  <2> SUFFICES ASSUME NEW fp \in DOMAIN nodes
               PROVE  IsFiniteSet(f[fp])
    OBVIOUS
  <2>1. IsFiniteSet({<<fp, o>> : o \in DOMAIN nodes[fp].obligations})
    BY FiniteOffers
  <2> QED BY <2>1
<1>3. R = {{<<fp, o>> : o \in DOMAIN nodes[fp].obligations} : fp \in DOMAIN nodes}
  OBVIOUS
<1> HIDE DEF R
<1> QED BY <1>1, <1>2, <1>3, FS_UNION

\* A graph that is the history of a trace passes the checks of the catalog.
LEMMA HistoryReadable ==
  ASSUME NEW g, NEW t, NEW S, NEW n, HistoryOf(g, t, S, n), None \notin S
  PROVE  ReadableGraph(g) /\ ReadableReport(Report(g), g)
<1>1. /\ g.revision \in Nat /\ IsFiniteSet(DOMAIN g.nodes) /\ IsFiniteSet(DOMAIN g.edges)
      /\ IsFiniteSet(g.offered) /\ g.executed \subseteq g.offered
      /\ \A s \in DOMAIN g.nodes : NodeOK(g.nodes[s]) /\ s \in S
  BY DEF HistoryOf, NodesOf, EdgesOf, OfferedOf
<1>2. /\ \A e \in DOMAIN g.edges :
           /\ g.edges[e].count \in Nat \ {0}
           /\ e.kind \in {"action", "denied", "timeout", "backtrack"}
           /\ e.from \in DOMAIN g.nodes /\ e.to \in DOMAIN g.nodes \cup {None}
      /\ \A p \in g.pairs : /\ p \in (DOMAIN g.edges) \X (DOMAIN g.edges)
                            /\ p[1].to = p[2].from
  BY DEF HistoryOf, EdgesOf, Between, Linked
<1>3. \A p \in g.pairs : p[1].to # None
  BY <1>1, <1>2
<1>4. ReadableGraph(g)
  <2>1. \A s \in DOMAIN g.nodes : ReadableNode(g.nodes[s])
    BY <1>1 DEF ReadableNode, NodeOK
  <2>2. \A e \in DOMAIN g.edges : ReadableEdge(g, e)
    BY <1>2 DEF ReadableEdge, EdgeCount
  <2>3. \A p \in g.pairs : ReadablePair(g, p)
    BY <1>2, <1>3 DEF ReadablePair
  <2>4. g.revision >= 0
    BY <1>1
  <2> QED BY <2>1, <2>2, <2>3, <2>4 DEF ReadableGraph
<1>5. ReadableReport(Report(g), g)
  <2> DEFINE edges == DOMAIN g.edges
             possible == {p \in edges \X edges : p[1].to # None /\ p[2].from = p[1].to}
             back == {e \in edges : \E r \in edges :
                        e.to # None /\ r.from = e.to /\ r.to = e.from}
             claims == UNION {{<<fp, o>> : o \in DOMAIN g.nodes[fp].obligations} :
                                fp \in DOMAIN g.nodes}
             met == {c \in claims : g.nodes[c[1]].obligations[c[2]] = "met"}
             size == Cardinality(DOMAIN g.nodes)
             c == [state |-> <<size, size>>,
                   action |-> <<Cardinality(g.executed), Cardinality(g.offered)>>,
                   pair |-> <<Cardinality(g.pairs \cap possible), Cardinality(possible)>>,
                   roundTrip |-> <<Cardinality(back), Cardinality(edges)>>,
                   obligation |-> <<Cardinality(met), Cardinality(claims)>>]
             report == Report(g)
  <2>1. /\ report.revision = g.revision /\ report.metrics = c /\ report.states = size
        /\ report.transitions = Cardinality(edges)
        /\ report.pairs = Cardinality(g.pairs \cap possible)
        /\ report.roundTrips = Cardinality(back)
    <3>1. c = Coverage(g)
      BY DEF Coverage
    <3>2. c.pair[1] = Cardinality(g.pairs \cap possible) /\ c.roundTrip[1] = Cardinality(back)
      OBVIOUS
    <3> HIDE DEF c
    <3> QED BY <3>1, <3>2 DEF Report
  <2>2. g.pairs \cap possible = g.pairs
    BY <1>2, <1>3
  <2>3. back = RoundTrips(edges)
    BY DEF RoundTrips
  <2>4. IsFiniteSet(possible)
    <3>1. IsFiniteSet(edges \X edges)
      BY <1>1, FS_Product
    <3> QED BY <3>1, FS_Subset
  <2>5. IsFiniteSet(claims)
    BY <1>1, FiniteClaims DEF NodeOK
  <2>6. /\ back \subseteq edges /\ met \subseteq claims /\ DOMAIN g.nodes \subseteq DOMAIN g.nodes
        /\ g.pairs \cap possible \subseteq possible
    OBVIOUS
  <2> HIDE DEF edges, possible, back, claims, met
  <2>7. ReadableMetric(c.state) /\ ReadableMetric(c.action)
    BY <1>1, <2>6, PartOf
  <2>8. ReadableMetric(c.pair)
    BY <2>4, <2>6, PartOf
  <2>9. ReadableMetric(c.roundTrip)
    BY <1>1, <2>6, PartOf DEF edges
  <2>10. ReadableMetric(c.obligation)
    BY <2>5, <2>6, PartOf
  <2>11. DOMAIN c = {"state", "action", "pair", "roundTrip", "obligation"}
    OBVIOUS
  <2> HIDE DEF c, report
  <2>12. \A name \in DOMAIN report.metrics : ReadableMetric(report.metrics[name])
    BY <2>1, <2>7, <2>8, <2>9, <2>10, <2>11
  <2>13. /\ report.revision = g.revision /\ report.states = Cardinality(DOMAIN g.nodes)
         /\ report.transitions = Cardinality(DOMAIN g.edges)
         /\ report.pairs = Cardinality(g.pairs)
         /\ report.roundTrips = Cardinality(RoundTrips(DOMAIN g.edges))
    BY <2>1, <2>2, <2>3 DEF edges
  <2> QED BY <2>12, <2>13 DEF ReadableReport, report
<1> QED BY <1>4, <1>5

\* The inductive invariant implies the property.
LEMMA GraphFollows ==
  ASSUME GraphIInv
  PROVE  GraphInv
<1>1. HistoryOf(graph, trace, DOMAIN target.offers, actions) /\ WellFormed(target)
  BY DEF GraphIInv, PlaceInv
<1>2. GraphIsHistory
  <2>1. /\ DOMAIN graph.nodes = {s \in DOMAIN target.offers : Sightings(trace, s) # {}}
        /\ \A s \in DOMAIN graph.nodes :
             /\ graph.nodes[s].visits = Cardinality(Sightings(trace, s))
             /\ graph.nodes[s].known = OfferedBy(trace, s)
    BY <1>1 DEF HistoryOf, NodesOf
  <2>2. DOMAIN graph.edges = {EdgeOfEntry(trace[i]) : i \in Moves(trace)}
    BY <1>1 DEF HistoryOf, EdgesOf
  <2>3. \A edge \in DOMAIN graph.edges :
          /\ EdgeCount(graph, edge) = Cardinality(Traversals(trace, edge))
          /\ DOMAIN graph.edges[edge].statuses =
               {trace[i].status : i \in Traversals(trace, edge)}
          /\ \A status \in DOMAIN graph.edges[edge].statuses :
               graph.edges[edge].statuses[status] =
                 Cardinality(TraversalsWith(trace, edge, status))
    BY <1>1 DEF HistoryOf, EdgesOf, EdgeCount
  <2>4. graph.pairs = Followed(trace) /\ graph.executed \subseteq graph.offered
    BY <1>1 DEF HistoryOf, PairsOf, OfferedOf
  <2> QED BY <2>1, <2>2, <2>3, <2>4 DEF GraphIsHistory
<1>3. PlateauIsQuiet
  BY <1>1 DEF HistoryOf, QuietOf, PlateauIsQuiet, Told
<1>4. EvidenceIsReadable
  <2>1. None \notin DOMAIN target.offers
    BY <1>1 DEF WellFormed
  <2> QED BY <1>1, <2>1, HistoryReadable DEF EvidenceIsReadable
<1> QED BY <1>2, <1>3, <1>4 DEF GraphInv

\* The graph that guides and stops a run is the history in its trace, and what is
\* left of it can be read again (graph.ts:154-296, catalog-graph.ts:96-187).
THEOREM GraphInvHolds == GuidedSpec => []GraphInv
<1>1. GraphIInv => GraphInv
  BY GraphFollows
<1> QED BY <1>1, GraphIInvHolds, PTL
==============================================================================
