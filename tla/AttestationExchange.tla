------------------------- MODULE AttestationExchange -------------------------
(***************************************************************************)
(* The handoff of captured media to an external attestor at the end of a   *)
(* run: completeBinaryAttestationRun with the exchange it drives           *)
(* (src/exploration/attestation-*.ts).                                     *)
(*                                                                         *)
(* The media of the run directory are moved, one after the other, to a     *)
(* private directory, and a request is published for each of them.  Then   *)
(* one task for each request waits for the answer, writes a receipt, and,  *)
(* if the answer is good, puts the attested file into the run directory.   *)
(* When all tasks have ended their records are published.  Meanwhile the   *)
(* common deadline passes, the operator asks to stop, the attestor answers *)
(* late, twice or without the file it promised, and any operation fails.   *)
(*                                                                         *)
(* An answer is reduced to what becomes of it: "clean" (the captured file  *)
(* may be kept), "sanitized" (the file of the attestor replaces it), or    *)
(* "refused", which is any answer that verifyAttestationResponse rejects.  *)
(* The wall clock and the monotonic clock pass their limits together, and   *)
(* no two captured files have the same bytes.                              *)
(***************************************************************************)
EXTENDS Naturals, Sequences, SequencesExt

CONSTANTS
  Requests,     \* one for each captured file
  MaxFaults,    \* bound on the operations that fail
  Controls,     \* the kinds of control files the operator drops
  MaxControls,  \* bound on the control files the operator drops
  Fickle,       \* the requests whose answer may be replaced once, and whose
                \* sanitized file may come after the answer
  None          \* no value

Verdicts == {"clean", "sanitized", "refused"}

Statuses == {"verified", "rejected", "timeout", "cancelled", "error"}

Receipt == [status : Statuses, response : Verdicts \cup {None}, late : BOOLEAN]
Result == [adoption : {"adopted", "failed", "not-attempted"},
           cancelled : BOOLEAN]

ASSUME ExchangeAssumption ==
  /\ MaxFaults \in Nat /\ MaxControls \in Nat /\ Fickle \subseteq Requests
  /\ Controls \subseteq {"bookmark", "stop", "garbled"}
  /\ None \notin Requests \cup Verdicts \cup Statuses \cup Controls \cup {"stop"}
  /\ None \notin Receipt \cup Result
  /\ "proofs" \notin Requests

VARIABLES
  main,      \* where completeBinaryAttestationRun is
  pc,        \* where the work on each request is
  raw,       \* the places each captured file is in
  kept,      \* the requests whose sanitized file is in the run directory
  response,  \* responses/<id>.json
  output,    \* the requests whose sanitized file the attestor has provided
  held,      \* the answer the task has read
  decided,   \* the status it is going to write
  receipt,   \* receipts/<id>.json
  result,    \* what retain has returned
  published, \* the records copied to the run directory
  tolerated, \* a stop was known when the export began
  queue,     \* the control files, in the order of their names
  control,   \* collector.metadata.operatorControl
  expired,   \* the deadline of the requests has passed
  overdue,   \* the time for the export has passed
  faults,    \* operations that failed
  replaced,  \* the requests whose answer has been replaced
  asked              \* auxiliary: the control files dropped so far

media == <<raw, kept>>
answers == <<response, output, replaced>>
task == <<held, decided, receipt, result>>
export == <<published, tolerated>>
controls == <<queue, control>>
clock == <<expired, overdue>>
vars == <<main, pc, media, answers, task, export, controls, clock, faults, asked>>

Staging == {"waiting", "copied", "preserved"}
Waiting == {"poll", "judge"}
Ended == {"settled", "rejected"}

Init ==
  /\ main = "start"
  /\ pc = [r \in Requests |-> "waiting"]
  /\ raw = [r \in Requests |-> {"run"}] /\ kept = {}
  /\ response = [r \in Requests |-> None] /\ output = {} /\ replaced = {}
  /\ held = [r \in Requests |-> None] /\ decided = [r \in Requests |-> None]
  /\ receipt = [r \in Requests |-> None] /\ result = [r \in Requests |-> None]
  /\ published = {} /\ tolerated = FALSE
  /\ queue = <<>> /\ control \in {None, "stop"}
  /\ expired = FALSE /\ overdue = FALSE
  /\ faults = 0 /\ asked = 0

-----------------------------------------------------------------------------
(* The stop check, shared by all tasks: a stop is taken from the queue once  *)
(* and remembered; bookmarks stay where they are.                            *)

Requested == SelectSeq(queue, LAMBDA c : c # "bookmark")

Stops ==
  /\ control # None \/ (Requested # <<>> /\ Head(Requested) = "stop")
  /\ control' = "stop"
  /\ queue' = IF control = None THEN RemoveFirst(queue, "stop") ELSE queue

GoesOn ==
  /\ control = None /\ Requested = <<>>
  /\ UNCHANGED controls

CheckFails ==
  /\ control = None /\ Requested # <<>> /\ Head(Requested) = "garbled"
  /\ UNCHANGED controls

Active == GoesOn /\ ~expired

NotActive == Stops \/ CheckFails \/ (GoesOn /\ expired)

Faults == faults < MaxFaults /\ faults' = faults + 1

\* The step comes to nothing: an operation fails, or it is too late for it.
Fails == \/ NotActive /\ UNCHANGED faults
         \/ Faults /\ UNCHANGED controls

-----------------------------------------------------------------------------
(* Staging, one file after the other.                                        *)

Idle(r) == \A q \in Requests \ {r} : pc[q] \in {"waiting", "staged"}

Begin ==
  /\ main = "start"
  /\ Active
  /\ main' = IF Requests = {} THEN "exported" ELSE "staging"
  /\ UNCHANGED <<pc, media, answers, task, export, clock, faults, asked>>

CopyToSource(r) ==
  /\ main = "staging" /\ pc[r] = "waiting" /\ Idle(r)
  /\ Active
  /\ raw' = [raw EXCEPT ![r] = @ \cup {"source"}]
  /\ pc' = [pc EXCEPT ![r] = "copied"]
  /\ UNCHANGED <<main, kept, answers, task, export, clock, faults, asked>>

PreserveOriginal(r) ==
  /\ main = "staging" /\ pc[r] = "copied"
  /\ Active
  /\ raw' = [raw EXCEPT ![r] = (@ \ {"run"}) \cup {"original"}]
  /\ pc' = [pc EXCEPT ![r] = "preserved"]
  /\ UNCHANGED <<main, kept, answers, task, export, clock, faults, asked>>

PublishRequest(r) ==
  /\ main = "staging" /\ pc[r] = "preserved"
  /\ Active
  /\ pc' = [pc EXCEPT ![r] = "staged"]
  /\ UNCHANGED <<main, media, answers, task, export, clock, faults, asked>>

\* Whatever goes wrong before all requests are out ends the handoff.
AbortStaging ==
  /\ main \in {"start", "staging"}
  /\ Fails
  /\ main' = "failed"
  /\ UNCHANGED <<pc, media, answers, task, export, clock, asked>>

StartTasks ==
  /\ main = "staging" /\ \A r \in Requests : pc[r] = "staged"
  /\ main' = "retaining"
  /\ \/ pc' = [r \in Requests |-> "poll"] /\ UNCHANGED faults
     \/ /\ Faults   \* a request has been changed, or claimed by another run
        /\ \E q \in Requests :
             pc' = [r \in Requests |-> IF r = q THEN "rejected" ELSE "poll"]
  /\ UNCHANGED <<media, answers, task, export, controls, clock, asked>>

-----------------------------------------------------------------------------
(* receive: one task for each request.                                       *)

At(r, l) == main = "retaining" /\ pc[r] = l

To(r, l) ==
  /\ pc' = [pc EXCEPT ![r] = l]
  /\ UNCHANGED <<main, media, answers, export, clock, asked>>

Decide(r, status) ==
  /\ decided' = [decided EXCEPT ![r] = status]
  /\ To(r, "stamp")
  /\ UNCHANGED <<held, receipt, result>>

\* Mutant of Poll: a deadline that has passed is not noticed while no answer
\* has come.
PollForever(r) ==
  /\ At(r, "poll")
  /\ UNCHANGED faults
  /\ \/ Stops /\ Decide(r, "cancelled")
     \/ /\ GoesOn /\ response[r] # None
        /\ held' = [held EXCEPT ![r] = response[r]]
        /\ To(r, "judge")
        /\ UNCHANGED <<decided, receipt, result>>
     \/ CheckFails /\ To(r, "rejected") /\ UNCHANGED task

\* The state of the run is looked at before and after the answer is read, and
\* nothing that happens in between makes a difference.
Poll(r) ==
  /\ At(r, "poll")
  /\ UNCHANGED faults
  /\ \/ Stops /\ Decide(r, "cancelled")
     \/ GoesOn /\ expired /\ Decide(r, "timeout")
     \/ /\ Active /\ response[r] # None
        /\ held' = [held EXCEPT ![r] = response[r]]
        /\ To(r, "judge")
        /\ UNCHANGED <<decided, receipt, result>>
     \/ CheckFails /\ To(r, "rejected") /\ UNCHANGED task

\* verifyAttestationResponse looks at the clock again, and the run is looked at
\* once more when it has accepted the answer.
Judge(r) ==
  /\ At(r, "judge")
  /\ UNCHANGED faults
  /\ \/ expired /\ Decide(r, "timeout") /\ UNCHANGED controls
     \/ held[r] = "refused" /\ Decide(r, "rejected") /\ UNCHANGED controls
     \/ /\ held[r] # "refused"
        /\ \/ Stops /\ Decide(r, "cancelled")
           \/ GoesOn /\ Decide(r, IF expired THEN "timeout" ELSE "verified")
           \/ CheckFails /\ Decide(r, "rejected")

\* An exception while the answer is read or verified.
Stumble(r) ==
  /\ main = "retaining" /\ pc[r] \in Waiting
  /\ Faults
  /\ \/ Stops /\ Decide(r, "cancelled")
     \/ GoesOn /\ Decide(r, "error")
     \/ CheckFails /\ To(r, "rejected") /\ UNCHANGED task

\* The receipt bears the time it is written at, which is not the time the
\* deadline was last looked at.
Finish(r) ==
  /\ At(r, "stamp")
  /\ receipt' = [receipt EXCEPT ![r] =
       [status |-> decided[r], response |-> held[r], late |-> expired]]
  /\ \/ decided[r] = "verified" /\ To(r, "adopt") /\ UNCHANGED result
     \/ /\ decided[r] # "verified"
        /\ result' = [result EXCEPT ![r] =
             [adoption |-> "not-attempted", cancelled |-> FALSE]]
        /\ To(r, "settled")
  /\ held' = [held EXCEPT ![r] = None] /\ decided' = [decided EXCEPT ![r] = None]
  /\ UNCHANGED <<controls, faults>>

\* The receipt cannot be written.
Reject(r) ==
  /\ At(r, "stamp")
  /\ Faults
  /\ To(r, "rejected")
  /\ UNCHANGED <<task, controls>>

-----------------------------------------------------------------------------
(* adoptAttestationMedia.                                                    *)

Settled(r, adoption, cancelled) ==
  /\ result' = [result EXCEPT ![r] =
       [adoption |-> adoption, cancelled |-> cancelled]]
  /\ pc' = [pc EXCEPT ![r] = "settled"]
  /\ UNCHANGED <<main, answers, export, clock, asked, held, decided, receipt>>

\* The receipt and the answer are what they were when it was accepted.
StillAccepted(r) == ~receipt[r].late /\ response[r] = receipt[r].response

Adopt(r) ==
  /\ At(r, "adopt")
  /\ Active
  /\ StillAccepted(r)
  /\ To(r, "link")
  /\ UNCHANGED <<task, faults>>

Link(r) ==
  /\ At(r, "link")
  /\ Active
  /\ \/ /\ receipt[r].response = "clean"
        /\ raw' = [raw EXCEPT ![r] = @ \cup {"run"}]
        /\ UNCHANGED kept
     \/ /\ receipt[r].response = "sanitized"
        /\ "run" \notin raw[r] /\ r \in output
        /\ kept' = kept \cup {r}
        /\ UNCHANGED raw
  /\ pc' = [pc EXCEPT ![r] = "linked"]
  /\ UNCHANGED <<main, answers, task, export, clock, faults, asked>>

\* Mutant of Adopted: what is in place counts as adopted.
AdoptedAnyway(r) ==
  /\ At(r, "linked")
  /\ Settled(r, "adopted", FALSE)
  /\ UNCHANGED <<media, controls, faults>>

Adopted(r) ==
  /\ At(r, "linked")
  /\ Active
  /\ Settled(r, "adopted", FALSE)
  /\ UNCHANGED <<media, faults>>

NotAdopted(r) ==
  /\ main = "retaining" /\ pc[r] \in {"adopt", "link"}
  /\ \/ Stops /\ Settled(r, "failed", TRUE) /\ UNCHANGED faults
     \/ GoesOn /\ expired /\ Settled(r, "failed", FALSE) /\ UNCHANGED faults
     \/ CheckFails /\ Settled(r, "failed", FALSE) /\ UNCHANGED faults
     \/ Faults /\ UNCHANGED controls /\ Settled(r, "failed", FALSE)
     \/ /\ Active /\ Settled(r, "failed", FALSE) /\ UNCHANGED faults
        /\ \/ pc[r] = "adopt" /\ ~StillAccepted(r)
           \/ pc[r] = "link" /\ receipt[r].response = "sanitized"
              /\ r \notin output
  /\ UNCHANGED media

\* The file that has been put in place is removed again, unless that fails.
Unlink(r) ==
  LET undone == kept' = kept \ {r} /\ raw' = [raw EXCEPT ![r] = @ \ {"run"}]
  IN /\ At(r, "linked")
     /\ \/ /\ \/ Stops /\ Settled(r, "failed", TRUE)
              \/ GoesOn /\ expired /\ Settled(r, "failed", FALSE)
              \/ CheckFails /\ Settled(r, "failed", FALSE)
           /\ \/ undone /\ UNCHANGED faults
              \/ Faults /\ UNCHANGED media
        \/ /\ Faults /\ UNCHANGED controls /\ Settled(r, "failed", FALSE)
           /\ undone \/ UNCHANGED media

-----------------------------------------------------------------------------
(* exportRetained.                                                           *)

StopKnown(r) == receipt[r].status = "cancelled" \/ result[r].cancelled

AllSettled ==
  /\ main = "retaining" /\ \A r \in Requests : pc[r] \in Ended
  /\ \/ /\ \E r \in Requests : pc[r] = "rejected"
        /\ main' = "failed"
        /\ UNCHANGED <<tolerated, controls, faults>>
     \/ /\ \A r \in Requests : pc[r] = "settled"
        /\ UNCHANGED faults
        /\ \/ /\ \E r \in Requests : StopKnown(r)
              /\ main' = "preflight" /\ tolerated' = TRUE
              /\ UNCHANGED controls
           \/ /\ \A r \in Requests : ~StopKnown(r)
              /\ \/ Stops /\ main' = "preflight" /\ tolerated' = TRUE
                 \/ GoesOn /\ main' = "preflight" /\ tolerated' = FALSE
                 \/ CheckFails /\ main' = "failed" /\ UNCHANGED tolerated
  /\ UNCHANGED <<pc, media, answers, task, published, clock, asked>>

ExportGoesOn == (GoesOn \/ (Stops /\ tolerated)) /\ ~overdue

\* Mutant of Presentable: remains in the run directory are not looked for.
PresentableWithRemains(r) ==
  receipt[r].status = "verified" =>
    ~receipt[r].late /\ response[r] = receipt[r].response

\* What publishAttestationEvidence demands of each entry: no captured file is
\* left behind, what was adopted is proved, and the receipt bears it out.
Presentable(r) ==
  /\ result[r].adoption # "adopted" => "run" \notin raw[r] /\ r \notin kept
  /\ receipt[r].status = "verified" =>
       ~receipt[r].late /\ response[r] = receipt[r].response
  /\ result[r].adoption = "adopted" /\ receipt[r].response = "sanitized" =>
       "run" \notin raw[r]

Preflight ==
  /\ main = "preflight"
  /\ ExportGoesOn
  /\ \A r \in Requests : Presentable(r)
  /\ main' = "publishing"
  /\ UNCHANGED <<pc, media, answers, task, export, clock, faults, asked>>

PublishRecord(x) ==
  /\ main = "publishing" /\ x \notin published
  /\ x = "proofs" => Requests \subseteq published
  /\ ExportGoesOn
  /\ published' = published \cup {x}
  /\ main' = IF x = "proofs" THEN "exported" ELSE main
  /\ UNCHANGED <<pc, media, answers, task, tolerated, clock, faults, asked>>

ExportFails ==
  /\ main \in {"preflight", "publishing"}
  /\ \/ /\ UNCHANGED faults
        /\ \/ Stops /\ ~tolerated
           \/ CheckFails
           \/ GoesOn /\ overdue
           \/ Stops /\ tolerated /\ overdue
     \/ Faults /\ UNCHANGED controls
     \/ /\ main = "preflight" /\ \E r \in Requests : ~Presentable(r)
        /\ ExportGoesOn /\ UNCHANGED faults
  /\ main' = "failed"
  /\ UNCHANGED <<pc, media, answers, task, export, clock, asked>>

-----------------------------------------------------------------------------
(* The attestor, the operator and time.                                      *)

Running == main \notin {"exported", "failed"}

Answer(r, v) ==
  /\ Running /\ pc[r] \notin Staging
  /\ \/ response[r] = None /\ UNCHANGED replaced
     \/ /\ response[r] \notin {None, v} /\ r \in Fickle \ replaced
        /\ replaced' = replaced \cup {r}
  /\ response' = [response EXCEPT ![r] = v]
  /\ output' = IF v = "sanitized" /\ r \notin Fickle
                THEN output \cup {r} ELSE output
  /\ UNCHANGED <<main, pc, media, task, export, controls, clock, faults, asked>>

ProvideOutput(r) ==
  /\ Running /\ response[r] = "sanitized" /\ r \notin output
  /\ output' = output \cup {r}
  /\ UNCHANGED <<main, pc, media, response, replaced, task, export, controls,
                 clock, faults, asked>>

DropControl(c) ==
  /\ Running /\ asked < MaxControls
  /\ asked' = asked + 1
  /\ queue' = Append(queue, c)
  /\ UNCHANGED <<main, pc, media, answers, task, export, control, clock, faults>>

Expire ==
  /\ Running /\ ~expired
  /\ expired' = TRUE
  /\ UNCHANGED <<main, pc, media, answers, task, export, controls, overdue,
                 faults, asked>>

Overrun ==
  /\ main \in {"preflight", "publishing"} /\ ~overdue
  /\ overdue' = TRUE
  /\ UNCHANGED <<main, pc, media, answers, task, export, controls, expired,
                 faults, asked>>

Stage(r) == CopyToSource(r) \/ PreserveOriginal(r) \/ PublishRequest(r)

Receive(r) ==
  Poll(r) \/ Judge(r) \/ Stumble(r) \/ Finish(r) \/ Reject(r)

Retain(r) == Receive(r) \/ Adopt(r) \/ Link(r) \/ Adopted(r) \/ NotAdopted(r)
               \/ Unlink(r)

Handoff ==
  \/ Begin \/ AbortStaging \/ StartTasks \/ AllSettled \/ Preflight
  \/ ExportFails
  \/ \E x \in Requests \cup {"proofs"} : PublishRecord(x)
  \/ \E r \in Requests : Stage(r)

Environment ==
  \/ \E r \in Requests : ProvideOutput(r) \/ \E v \in Verdicts : Answer(r, v)
  \/ \E c \in Controls : DropControl(c)
  \/ Expire \/ Overrun

Next == Handoff \/ Environment \/ \E r \in Requests : Retain(r)

\* The process goes on, and time does; the attestor may be silent for ever.
Fairness ==
  /\ WF_vars(Handoff) /\ WF_vars(Expire)
  /\ \A r \in Requests : WF_vars(Retain(r))

Spec == Init /\ [][Next]_vars /\ Fairness

-----------------------------------------------------------------------------
(* Properties.                                                               *)

TypeOK ==
  /\ main \in {"start", "staging", "retaining", "preflight", "publishing",
               "exported", "failed"}
  /\ pc \in [Requests -> Staging \cup Waiting \cup Ended \cup
               {"staged", "stamp", "adopt", "link", "linked"}]
  /\ raw \in [Requests -> SUBSET {"run", "source", "original"}]
  /\ kept \subseteq Requests /\ output \subseteq Requests
  /\ response \in [Requests -> Verdicts \cup {None}]
  /\ held \in [Requests -> Verdicts \cup {None}]
  /\ receipt \in [Requests -> Receipt \cup {None}]
  /\ decided \in [Requests -> Statuses \cup {None}]
  /\ result \in [Requests -> Result \cup {None}]
  /\ published \subseteq Requests \cup {"proofs"} /\ tolerated \in BOOLEAN
  /\ queue \in Seq(Controls) /\ control \in {None, "stop"}
  /\ expired \in BOOLEAN /\ overdue \in BOOLEAN
  /\ faults \in 0..MaxFaults /\ asked \in 0..MaxControls
  /\ replaced \subseteq Fickle

\* The bytes that were captured are never lost: at every moment, also after a
\* failure between two steps, they are in the run directory or in the private
\* archive (preserveOriginal moves them and never deletes after copying).
CaptureSurvives == \A r \in Requests : raw[r] \cap {"run", "original"} # {}

\* A finished handoff leaves in the run directory only files that an answer
\* permits which was accepted in time, and removes none that was adopted
\* (publishAttestationEvidence checks it before the records are published).
OnlyAttestedMediaRemains ==
  main = "exported" =>
    \A r \in Requests :
      LET adopted == result[r].adoption = "adopted"
          permits(v) == adopted /\ receipt[r].response = v
                          /\ receipt[r].status = "verified" /\ ~receipt[r].late
      IN /\ "run" \in raw[r] <=> permits("clean")
         /\ r \in kept <=> permits("sanitized")
         /\ adopted => permits("clean") \/ permits("sanitized")

\* The state of the exchange is well formed, with no captured file lost: what
\* is in the run directory again has been put there by a task that holds a
\* receipt, and what is settled has its receipt and its result,
\* and a finished handoff has left only what was attested.
ExchangeInv ==
  /\ TypeOK
  /\ CaptureSurvives
  /\ OnlyAttestedMediaRemains
  /\ \A r \in Requests :
       /\ "original" \in raw[r] /\ "run" \in raw[r] =>
            receipt[r] # None /\ receipt[r].response = "clean"
       /\ r \in kept => receipt[r] # None /\ receipt[r].response = "sanitized"
       /\ pc[r] = "settled" <=> result[r] # None
       /\ result[r] # None => receipt[r] # None

\* Once a stop is known, or the deadline has passed, no task adopts anything,
\* whatever it had read, verified or even put in place before; and a stop that
\* a task takes from the queue is known to all of them from then on.
NothingAdoptedLate ==
  [][ /\ \A r \in Requests :
          (control # None \/ expired) /\ pc[r] # "settled" =>
            ~(result'[r] # None /\ result'[r].adoption = "adopted")
      /\ Requested # <<>> /\ Head(Requested) = "stop" /\ queue' # queue
            /\ Len(queue') < Len(queue) => control' = "stop" ]_vars

\* The handoff ends, although the attestor may never answer (the deadline of
\* the requests and the time limit of the export end every wait).
HandoffEnds == <>(main \in {"exported", "failed"})

=============================================================================
