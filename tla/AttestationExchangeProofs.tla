---------------------- MODULE AttestationExchangeProofs ----------------------
(***************************************************************************)
(* Proofs about AttestationExchange, for every set of captured files, any  *)
(* number of control files, of failing operations and of answers, and      *)
(* about the journal of NativeIdentity, for any number of connections, of  *)
(* operations and of failures and for every signed target.                 *)
(***************************************************************************)
EXTENDS AttestationExchange, NativeIdentity, SequenceTheorems, WellFoundedInduction, TLAPS

-----------------------------------------------------------------------------
(* The inductive invariant.                                                  *)

Accepted == {"clean", "sanitized"}

\* The work on r has no receipt yet, and nothing of it was put in place.
Unanswered(r) == receipt[r] = None /\ result[r] = None /\ r \notin kept

\* The file in the run directory is the one that the receipt permits.
InPlace(r) ==
  /\ receipt[r].response = "clean" => "run" \in raw[r] /\ r \notin kept
  /\ receipt[r].response = "sanitized" => "run" \notin raw[r] /\ r \in kept

\* The captured file while it is staged: it leaves the run directory in the
\* step that archives it, and comes back only with a receipt.
StagingOK(r) ==
  /\ pc[r] = "waiting" => raw[r] = {"run"}
  /\ pc[r] = "copied" => raw[r] = {"run", "source"}
  /\ pc[r] \notin {"waiting", "copied"} => "original" \in raw[r]
  /\ pc[r] \in Staging \cup Waiting \cup {"staged", "stamp", "rejected"} =>
       Unanswered(r)
  /\ pc[r] \in Waiting \cup
                 {"preserved", "staged", "stamp", "rejected", "adopt", "link"} =>
       "run" \notin raw[r]

\* What the task carries from the answer to the receipt.
DecisionOK(r) ==
  /\ pc[r] = "judge" => held[r] \in Verdicts
  /\ pc[r] = "stamp" => decided[r] # None
  /\ pc[r] = "stamp" /\ decided[r] = "verified" => held[r] \in Accepted

\* What the receipt says of a file that is adopted, or is about to be.
AdoptionOK(r) ==
  /\ pc[r] \in {"adopt", "link", "linked"} =>
       /\ receipt[r] \in Receipt /\ receipt[r].status = "verified"
       /\ receipt[r].response \in Accepted /\ result[r] = None
  /\ pc[r] \in {"adopt", "link"} => r \notin kept
  /\ pc[r] \in {"link", "linked"} => ~receipt[r].late
  /\ pc[r] = "linked" => InPlace(r)

\* What is left when the task has ended: also a file that could not be removed
\* again is the one the receipt names.
SettledOK(r) ==
  pc[r] = "settled" =>
    /\ receipt[r] \in Receipt /\ result[r] \in Result
    /\ "run" \in raw[r] => receipt[r].response = "clean"
    /\ r \in kept => receipt[r].response = "sanitized"
    /\ result[r].adoption = "adopted" =>
         /\ receipt[r].status = "verified" /\ ~receipt[r].late
         /\ receipt[r].response \in Accepted /\ InPlace(r)

TaskInv ==
  \A r \in Requests :
    StagingOK(r) /\ DecisionOK(r) /\ AdoptionOK(r) /\ SettledOK(r)

\* The handoff waits for all tasks, and looks at what they left before the
\* records are published.
Clean(r) == result[r].adoption # "adopted" => "run" \notin raw[r] /\ r \notin kept

HandoffInv ==
  /\ main \in {"start", "staging"} =>
       \A r \in Requests : pc[r] \in Staging \cup {"staged"}
  /\ main \in {"preflight", "publishing", "exported"} =>
       \A r \in Requests : pc[r] = "settled"
  /\ main \in {"publishing", "exported"} => \A r \in Requests : Clean(r)

IInv == TypeOK /\ TaskInv /\ HandoffInv

-----------------------------------------------------------------------------
(* Lemmas about sequences and about what a step leaves alone.                *)

LEMMA LeastIndex ==
  ASSUME NEW T \in SUBSET Nat, T # {}
  PROVE  \E m \in T : \A j \in T : m <= j
<1>1. IsWellFoundedOn(OpToRel(<, Nat), Nat)
  BY NatLessThanWellFounded
<1>2. PICK m \in T : \A j \in T : ~(<<j, m>> \in OpToRel(<, Nat))
  BY <1>1, WFMin
<1>3. \A j \in T : ~(j < m)
  BY <1>2 DEF OpToRel
<1> QED BY <1>3

\* A sequence without its first e is a sequence over the same set.
LEMMA RemoveFirstType ==
  ASSUME NEW S, NEW s \in Seq(S), NEW e
  PROVE  RemoveFirst(s, e) \in Seq(S)
<1> DEFINE I == {i \in 1..Len(s) : s[i] = e}
           m == CHOOSE x \in I : \A y \in I : x <= y
<1>1. CASE I = {}
  BY <1>1 DEF RemoveFirst
<1>2. CASE I # {}
  <2>1. RemoveFirst(s, e) = SubSeq(s, 1, m - 1) \o SubSeq(s, m + 1, Len(s))
    BY <1>2 DEF RemoveFirst, RemoveAt, SelectInSeq, Min
  <2>2. m \in 1..Len(s)
    <3>1. I \in SUBSET Nat /\ I \subseteq 1..Len(s)
      OBVIOUS
    <3> HIDE DEF I
    <3>2. \E x \in I : \A y \in I : x <= y
      BY <1>2, <3>1, LeastIndex
    <3> QED BY <3>1, <3>2
  <2> HIDE DEF m
  <2>3. /\ SubSeq(s, 1, m - 1) \in Seq(S)
        /\ SubSeq(s, m + 1, Len(s)) \in Seq(S)
    BY <2>2, SubSeqProperties
  <2> QED BY <2>1, <2>3, ConcatProperties
<1> QED BY <1>1, <1>2

\* Whatever a stop check finds, the queue keeps its type, and it gets shorter
\* only when a stop is remembered.
LEMMA CheckControls ==
  ASSUME TypeOK, Stops \/ GoesOn \/ CheckFails \/ UNCHANGED controls
  PROVE  /\ queue' \in Seq(Controls) /\ control' \in {None, "stop"}
         /\ queue' # queue => control' = "stop"
<1>1. RemoveFirst(queue, "stop") \in Seq(Controls)
  BY RemoveFirstType DEF TypeOK
<1> QED BY <1>1 DEF Stops, GoesOn, CheckFails, controls, TypeOK

LEMMA StepCases ==
  ASSUME [Next]_vars
  PROVE  \/ Begin \/ AbortStaging \/ StartTasks \/ AllSettled \/ Preflight
         \/ ExportFails \/ Expire \/ Overrun \/ UNCHANGED vars
         \/ \E x \in Requests \cup {"proofs"} : PublishRecord(x)
         \/ \E c \in Controls : DropControl(c)
         \/ \E r \in Requests : Stage(r) \/ ProvideOutput(r)
         \/ \E r \in Requests, v \in Verdicts : Answer(r, v)
         \/ \E r \in Requests : Retain(r)
BY DEF Next, Handoff, Environment

\* The work on q is where it was.
Same(q) ==
  /\ pc'[q] = pc[q] /\ raw'[q] = raw[q] /\ (q \in kept' <=> q \in kept)
  /\ held'[q] = held[q] /\ decided'[q] = decided[q]
  /\ receipt'[q] = receipt[q] /\ result'[q] = result[q]

TaskOK(r) == StagingOK(r) /\ DecisionOK(r) /\ AdoptionOK(r) /\ SettledOK(r)

LEMMA SameTask ==
  ASSUME NEW q, TaskOK(q), Same(q)
  PROVE  TaskOK(q)'
BY DEF TaskOK, Same, StagingOK, DecisionOK, AdoptionOK, SettledOK, Unanswered,
       InPlace

\* A step of the work on one file leaves the others alone.
LEMMA OthersStay ==
  ASSUME TypeOK, NEW r \in Requests, Stage(r) \/ Retain(r),
         NEW q \in Requests, q # r
  PROVE  Same(q)
<1> USE DEF TypeOK, Same, media, task, To, Decide, At
<1>1. CASE Stage(r)
  BY <1>1 DEF Stage, CopyToSource, PreserveOriginal, PublishRequest
<1>2. CASE Poll(r) \/ Stumble(r)
  BY <1>2 DEF Poll, Stumble
<1>3. CASE Judge(r)
  BY <1>3 DEF Judge
<1>4. CASE Finish(r) \/ Reject(r)
  BY <1>4 DEF Finish, Reject
<1>5. CASE Adopt(r) \/ Link(r)
  BY <1>5 DEF Adopt, Link
<1>6. CASE Adopted(r) \/ NotAdopted(r)
  BY <1>6 DEF Adopted, NotAdopted, Settled
<1>7. CASE Unlink(r)
  BY <1>7 DEF Unlink, Settled
<1> QED BY <1>1, <1>2, <1>3, <1>4, <1>5, <1>6, <1>7 DEF Retain, Receive

\* What a step of one task does to its own cells, without the functions they
\* are cells of: the answer is read, judged, and written down as a receipt.
Reads(r) ==
  /\ pc[r] = "poll" /\ pc'[r] = "judge"
  /\ response[r] # None /\ held'[r] = response[r] /\ decided'[r] = decided[r]
  /\ receipt'[r] = receipt[r] /\ result'[r] = result[r]
  /\ raw'[r] = raw[r] /\ (r \in kept' <=> r \in kept)

Decides(r) ==
  /\ pc[r] \in Waiting /\ pc'[r] = "stamp"
  /\ decided'[r] \in Statuses /\ held'[r] = held[r]
  /\ decided'[r] = "verified" => pc[r] = "judge" /\ held[r] # "refused"
  /\ receipt'[r] = receipt[r] /\ result'[r] = result[r]
  /\ raw'[r] = raw[r] /\ (r \in kept' <=> r \in kept)

GivesUp(r) ==
  /\ pc[r] \in Waiting \cup {"stamp"} /\ pc'[r] = "rejected"
  /\ held'[r] = held[r] /\ decided'[r] = decided[r]
  /\ receipt'[r] = receipt[r] /\ result'[r] = result[r]
  /\ raw'[r] = raw[r] /\ (r \in kept' <=> r \in kept)

Stamps(r) ==
  /\ pc[r] = "stamp" /\ held'[r] = None /\ decided'[r] = None
  /\ receipt'[r] =
       [status |-> decided[r], response |-> held[r], late |-> expired]
  /\ \/ pc'[r] = "adopt" /\ decided[r] = "verified" /\ result'[r] = result[r]
     \/ /\ pc'[r] = "settled" /\ decided[r] # "verified"
        /\ result'[r] = [adoption |-> "not-attempted", cancelled |-> FALSE]
  /\ raw'[r] = raw[r] /\ (r \in kept' <=> r \in kept)

\* The file is put in place, and stays or is removed again.
Puts(r) ==
  /\ \/ /\ pc[r] = "adopt" /\ pc'[r] = "link" /\ ~receipt[r].late
        /\ raw'[r] = raw[r] /\ (r \in kept' <=> r \in kept)
     \/ /\ pc[r] = "link" /\ pc'[r] = "linked" /\ receipt[r].response = "clean"
        /\ raw'[r] = raw[r] \cup {"run"} /\ (r \in kept' <=> r \in kept)
     \/ /\ pc[r] = "link" /\ pc'[r] = "linked"
        /\ receipt[r].response = "sanitized"
        /\ raw'[r] = raw[r] /\ r \in kept'
  /\ held'[r] = held[r] /\ decided'[r] = decided[r]
  /\ receipt'[r] = receipt[r] /\ result'[r] = result[r]

Keeps(r) ==
  /\ pc[r] = "linked" /\ pc'[r] = "settled"
  /\ result'[r] = [adoption |-> "adopted", cancelled |-> FALSE]
  /\ control = None /\ ~expired
  /\ held'[r] = held[r] /\ decided'[r] = decided[r]
  /\ receipt'[r] = receipt[r]
  /\ raw'[r] = raw[r] /\ (r \in kept' <=> r \in kept)

Drops(r) ==
  /\ pc[r] \in {"adopt", "link", "linked"} /\ pc'[r] = "settled"
  /\ \E b \in BOOLEAN : result'[r] = [adoption |-> "failed", cancelled |-> b]
  /\ held'[r] = held[r] /\ decided'[r] = decided[r]
  /\ receipt'[r] = receipt[r]
  /\ \/ raw'[r] = raw[r] /\ (r \in kept' <=> r \in kept)
     \/ pc[r] = "linked" /\ raw'[r] = raw[r] \ {"run"} /\ r \notin kept'

LEMMA ResultType ==
  ASSUME NEW a \in {"adopted", "failed", "not-attempted"}, NEW b \in BOOLEAN
  PROVE  /\ [adoption |-> a, cancelled |-> b] \in Result
         /\ [adoption |-> a, cancelled |-> b].adoption = a
BY DEF Result

LEMMA RetainMoves ==
  ASSUME TypeOK, NEW r \in Requests, Retain(r)
  PROVE  \/ Reads(r) \/ Decides(r) \/ GivesUp(r) \/ Stamps(r) \/ Puts(r)
         \/ Keeps(r) \/ Drops(r)
<1> USE DEF TypeOK, task, media, To, At
<1>1. CASE Poll(r)
  BY <1>1 DEF Poll, Decide, Reads, Decides, GivesUp, Statuses, Waiting
<1>2. CASE Judge(r)
  BY <1>2 DEF Judge, Decide, Decides, Statuses, Waiting
<1>3. CASE Stumble(r)
  <2>1. CASE \E s \in {"cancelled", "error"} : Decide(r, s)
    BY <1>3, <2>1 DEF Stumble, Decide, Decides, Statuses
  <2>2. CASE To(r, "rejected") /\ UNCHANGED task
    BY <1>3, <2>2 DEF Stumble, GivesUp, Waiting
  <2> QED BY <1>3, <2>1, <2>2 DEF Stumble
<1>4. CASE Finish(r)
  <2>1. /\ receipt'[r] = [status |-> decided[r], response |-> held[r],
                         late |-> expired]
        /\ held'[r] = None /\ decided'[r] = None
        /\ pc[r] = "stamp" /\ raw' = raw /\ kept' = kept
    BY <1>4 DEF Finish
  <2>2. \/ pc'[r] = "adopt" /\ decided[r] = "verified" /\ result'[r] = result[r]
        \/ /\ pc'[r] = "settled" /\ decided[r] # "verified"
           /\ result'[r] = [adoption |-> "not-attempted", cancelled |-> FALSE]
    <3>1. CASE decided[r] = "verified"
      BY <1>4, <3>1 DEF Finish
    <3>2. CASE decided[r] # "verified"
      <4>1. result' = [result EXCEPT ![r] =
                         [adoption |-> "not-attempted", cancelled |-> FALSE]]
        BY <1>4, <3>2 DEF Finish
      <4>2. pc'[r] = "settled"
        BY <1>4, <3>2 DEF Finish
      <4> QED BY <3>2, <4>1, <4>2
    <3> QED BY <3>1, <3>2
  <2> QED BY <2>1, <2>2 DEF Stamps
<1>5. CASE Reject(r)
  BY <1>5 DEF Reject, GivesUp
<1>6. CASE Adopt(r)
  BY <1>6 DEF Adopt, StillAccepted, Puts
<1>7. CASE Link(r)
  BY <1>7 DEF Link, Puts
<1>8. CASE Adopted(r)
  BY <1>8 DEF Adopted, Settled, Keeps, Active, GoesOn, controls
<1>9. CASE NotAdopted(r)
  <2>1. \E b \in BOOLEAN : Settled(r, "failed", b)
    BY <1>9 DEF NotAdopted
  <2>2. /\ pc[r] \in {"adopt", "link"} /\ raw' = raw /\ kept' = kept
    BY <1>9 DEF NotAdopted
  <2> QED BY <2>1, <2>2 DEF Settled, Drops
<1>10. CASE Unlink(r)
  <2>1. \E b \in BOOLEAN : Settled(r, "failed", b)
    BY <1>10 DEF Unlink
  <2>2. /\ pc[r] = "linked"
        /\ \/ UNCHANGED media
           \/ kept' = kept \ {r} /\ raw' = [raw EXCEPT ![r] = @ \ {"run"}]
    BY <1>10 DEF Unlink
  <2> QED BY <2>1, <2>2 DEF Settled, Drops
<1> QED BY <1>1, <1>2, <1>3, <1>4, <1>5, <1>6, <1>7, <1>8, <1>9, <1>10
           DEF Retain, Receive

\* What a step of the staging does to its own file.
LEMMA StageMoves ==
  ASSUME TypeOK, NEW r \in Requests, Stage(r)
  PROVE  /\ main = "staging" /\ main' = main
         /\ \/ /\ pc[r] = "waiting" /\ pc'[r] = "copied"
               /\ raw'[r] = raw[r] \cup {"source"}
            \/ /\ pc[r] = "copied" /\ pc'[r] = "preserved"
               /\ raw'[r] = (raw[r] \ {"run"}) \cup {"original"}
            \/ pc[r] = "preserved" /\ pc'[r] = "staged" /\ raw'[r] = raw[r]
         /\ UNCHANGED <<kept, held, decided, receipt, result>>
BY DEF TypeOK, Stage, CopyToSource, PreserveOriginal, PublishRequest, task, media

-----------------------------------------------------------------------------
(* Each task keeps what it promises.                                         *)

LEMMA StagedTask ==
  ASSUME TypeOK, NEW r \in Requests, TaskOK(r), Stage(r)
  PROVE  TaskOK(r)'
BY StageMoves DEF TaskOK, StagingOK, DecisionOK, AdoptionOK, SettledOK, Unanswered,
     InPlace, Staging, Waiting

LEMMA RetainedTask ==
  ASSUME TypeOK, NEW r \in Requests, TaskOK(r), Retain(r)
  PROVE  TaskOK(r)'
<1>0. /\ held[r] \in Verdicts \cup {None} /\ response[r] \in Verdicts \cup {None}
      /\ decided[r] \in Statuses \cup {None} /\ expired \in BOOLEAN
      /\ raw[r] \in SUBSET {"run", "source", "original"}
  BY DEF TypeOK
<1> USE ExchangeAssumption, <1>0
    DEF TaskOK, StagingOK, DecisionOK, AdoptionOK, SettledOK, Unanswered,
        InPlace, Staging, Waiting
<1>1. CASE Reads(r) \/ Decides(r) \/ GivesUp(r)
  BY <1>1 DEF Reads, Decides, GivesUp, Accepted, Verdicts
<1>2. CASE Stamps(r)
  <2>1. receipt'[r] \in Receipt
    BY <1>2 DEF Stamps, Receipt
  <2>2. /\ receipt'[r].status = decided[r] /\ receipt'[r].response = held[r]
        /\ receipt'[r].late = expired
    BY <1>2 DEF Stamps
  <2>3. pc'[r] = "settled" => result'[r] \in Result /\ result'[r].adoption # "adopted"
    BY <1>2, ResultType DEF Stamps
  <2>4. CASE pc'[r] = "adopt"
    BY <1>2, <2>1, <2>2, <2>4 DEF Stamps
  <2>5. CASE pc'[r] = "settled"
    BY <1>2, <2>1, <2>2, <2>3, <2>5 DEF Stamps
  <2> QED BY <1>2, <2>4, <2>5 DEF Stamps
<1>3. CASE Puts(r)
  <2>1. receipt'[r] = receipt[r] /\ result'[r] = result[r]
    BY <1>3 DEF Puts
  <2>2. CASE pc[r] = "adopt"
    BY <1>3, <2>1, <2>2 DEF Puts
  <2>3. CASE pc[r] = "link"
    BY <1>3, <2>1, <2>3 DEF Puts
  <2> QED BY <1>3, <2>2, <2>3 DEF Puts
<1>4. CASE Keeps(r)
  <2>1. result'[r] \in Result
    BY <1>4, ResultType DEF Keeps
  <2>2. /\ pc'[r] = "settled" /\ receipt'[r] = receipt[r] /\ raw'[r] = raw[r]
        /\ r \in kept' <=> r \in kept
        /\ receipt[r] \in Receipt /\ receipt[r].response \in Accepted
        /\ receipt[r].status = "verified" /\ ~receipt[r].late
        /\ "original" \in raw[r] /\ InPlace(r)
    BY <1>4 DEF Keeps
  <2> QED BY <2>1, <2>2 DEF Accepted
<1>5. CASE Drops(r)
  <2>1. result'[r] \in Result /\ result'[r].adoption # "adopted"
    BY <1>5, ResultType DEF Drops
  <2>2. /\ pc'[r] = "settled" /\ receipt'[r] = receipt[r]
        /\ receipt[r] \in Receipt /\ receipt[r].response \in Accepted
        /\ "original" \in raw'[r]
    BY <1>5 DEF Drops
  <2>3. /\ "run" \in raw'[r] => receipt[r].response = "clean"
        /\ r \in kept' => receipt[r].response = "sanitized"
    BY <1>5, <2>2 DEF Drops, Accepted
  <2> QED BY <2>1, <2>2, <2>3
<1> QED BY <1>1, <1>2, <1>3, <1>4, <1>5, RetainMoves

LEMMA TaskStep ==
  ASSUME TypeOK, TaskInv, HandoffInv, [Next]_vars
  PROVE  TaskInv'
<1>0. \A r \in Requests : TaskOK(r)
  BY DEF TaskInv, TaskOK
<1> SUFFICES \A q \in Requests : TaskOK(q)'
  BY DEF TaskInv, TaskOK
<1>1. CASE \/ Begin \/ AbortStaging \/ AllSettled \/ Preflight \/ ExportFails
           \/ Expire \/ Overrun \/ UNCHANGED vars
           \/ \E x \in Requests \cup {"proofs"} : PublishRecord(x)
           \/ \E c \in Controls : DropControl(c)
           \/ \E r \in Requests : ProvideOutput(r)
           \/ \E r \in Requests, v \in Verdicts : Answer(r, v)
  <2>1. UNCHANGED <<pc, media, task>>
    BY <1>1 DEF Begin, AbortStaging, AllSettled, Preflight, ExportFails, Expire,
         Overrun, vars, PublishRecord, DropControl, ProvideOutput, Answer
  <2>2. \A q \in Requests : Same(q)
    BY <2>1 DEF Same, media, task
  <2> QED BY <1>0, <2>2, SameTask
<1>2. CASE StartTasks
  <2> SUFFICES ASSUME NEW q \in Requests
               PROVE  TaskOK(q)'
    OBVIOUS
  <2>1. /\ pc[q] = "staged" /\ pc'[q] \in {"poll", "rejected"}
        /\ UNCHANGED <<media, task>>
    BY <1>2 DEF StartTasks
  <2> QED BY <1>0, <2>1 DEF TaskOK, StagingOK, DecisionOK, AdoptionOK, SettledOK,
               Unanswered, InPlace, Staging, Waiting, media, task
<1>3. ASSUME NEW r \in Requests, Stage(r) \/ Retain(r)
      PROVE  \A q \in Requests : TaskOK(q)'
  <2>1. \A q \in Requests \ {r} : Same(q)
    BY <1>3, OthersStay
  <2>2. TaskOK(r)'
    BY <1>0, <1>3, StagedTask, RetainedTask
  <2> QED BY <1>0, <2>1, <2>2, SameTask
<1> QED BY <1>1, <1>2, <1>3, StepCases

\* What a task has settled stays as it is, and with it what the handoff has
\* looked at.
LEMMA HandoffStep ==
  ASSUME TypeOK, TaskInv, HandoffInv, [Next]_vars
  PROVE  HandoffInv'
<1>1. CASE UNCHANGED <<main, pc, media, result>>
  BY <1>1 DEF HandoffInv, Clean, media
<1>2. CASE Begin
  <2>1. /\ main = "start" /\ main' \in {"staging", "exported"}
        /\ main' = "exported" => Requests = {}
        /\ UNCHANGED <<pc, raw, kept, result>>
    BY <1>2 DEF Begin, media, task
  <2> QED BY <2>1 DEF HandoffInv, Clean
<1>3. CASE AbortStaging \/ ExportFails
  BY <1>3 DEF AbortStaging, ExportFails, HandoffInv
<1>4. CASE StartTasks
  BY <1>4 DEF StartTasks, HandoffInv
<1>5. CASE AllSettled
  BY <1>5 DEF AllSettled, HandoffInv
<1>6. CASE Preflight
  <2>1. /\ \A r \in Requests : pc'[r] = "settled" /\ Clean(r)
        /\ main' = "publishing" /\ UNCHANGED <<raw, kept, result>>
    BY <1>6 DEF Preflight, HandoffInv, Presentable, Clean, media, task
  <2> QED BY <2>1 DEF HandoffInv, Clean
<1>7. ASSUME NEW x \in Requests \cup {"proofs"}, PublishRecord(x)
      PROVE  HandoffInv'
  <2>1. /\ main = "publishing" /\ main' \in {"publishing", "exported"}
        /\ UNCHANGED <<pc, raw, kept, result>>
    BY <1>7 DEF PublishRecord, media, task
  <2> QED BY <2>1 DEF HandoffInv, Clean
<1>8. ASSUME NEW r \in Requests, Stage(r)
      PROVE  HandoffInv'
  <2>1. main = "staging" /\ main' = "staging"
    BY <1>8, StageMoves
  <2>2. pc'[r] \in Staging \cup {"staged"}
    BY <1>8, StageMoves DEF Staging
  <2>3. \A q \in Requests : q # r => pc'[q] = pc[q]
    BY <1>8, OthersStay DEF Same
  <2> QED BY <2>1, <2>2, <2>3 DEF HandoffInv
<1>9. ASSUME NEW r \in Requests, Retain(r)
      PROVE  HandoffInv'
  <2>1. main = "retaining" /\ main' = main
    BY <1>9 DEF Retain, Receive, Poll, Judge, Stumble, Finish, Reject, Adopt, Link,
         Adopted, NotAdopted, Unlink, At, To, Decide, Settled
  <2> QED BY <2>1 DEF HandoffInv
<1>10. CASE \/ Expire \/ Overrun
            \/ \E c \in Controls : DropControl(c)
            \/ \E r \in Requests : ProvideOutput(r)
            \/ \E r \in Requests, v \in Verdicts : Answer(r, v)
            \/ UNCHANGED vars
  BY <1>1, <1>10 DEF Expire, Overrun, DropControl, ProvideOutput, Answer, vars, task
<1> QED BY <1>2, <1>3, <1>4, <1>5, <1>6, <1>7, <1>8, <1>9, <1>10, StepCases

-----------------------------------------------------------------------------
(* Type correctness.                                                         *)

\* The type invariant in two parts: the cells of the tasks, and the rest.
CellOK(r) ==
  /\ pc[r] \in Staging \cup Waiting \cup Ended \cup
                 {"staged", "stamp", "adopt", "link", "linked"}
  /\ raw[r] \in SUBSET {"run", "source", "original"}
  /\ held[r] \in Verdicts \cup {None} /\ decided[r] \in Statuses \cup {None}
  /\ receipt[r] \in Receipt \cup {None} /\ result[r] \in Result \cup {None}

Functions ==
  /\ pc = [q \in Requests |-> pc[q]] /\ raw = [q \in Requests |-> raw[q]]
  /\ held = [q \in Requests |-> held[q]]
  /\ decided = [q \in Requests |-> decided[q]]
  /\ receipt = [q \in Requests |-> receipt[q]]
  /\ result = [q \in Requests |-> result[q]]

RestOK ==
  /\ main \in {"start", "staging", "retaining", "preflight", "publishing",
               "exported", "failed"}
  /\ kept \subseteq Requests /\ output \subseteq Requests
  /\ response \in [Requests -> Verdicts \cup {None}]
  /\ published \subseteq Requests \cup {"proofs"} /\ tolerated \in BOOLEAN
  /\ queue \in Seq(Controls) /\ control \in {None, "stop"}
  /\ expired \in BOOLEAN /\ overdue \in BOOLEAN
  /\ faults \in 0..MaxFaults /\ asked \in 0..MaxControls
  /\ replaced \subseteq Fickle

LEMMA TypeParts ==
  TypeOK => (\A r \in Requests : CellOK(r)) /\ RestOK
BY DEF TypeOK, CellOK, RestOK

LEMMA PartsType ==
  ASSUME Functions', \A r \in Requests : CellOK(r)', RestOK'
  PROVE  TypeOK'
<1>1. /\ pc' \in [Requests -> Staging \cup Waiting \cup Ended \cup
                    {"staged", "stamp", "adopt", "link", "linked"}]
      /\ raw' \in [Requests -> SUBSET {"run", "source", "original"}]
  BY DEF Functions, CellOK
<1>2. /\ held' \in [Requests -> Verdicts \cup {None}]
      /\ decided' \in [Requests -> Statuses \cup {None}]
  BY DEF Functions, CellOK
<1>3. /\ receipt' \in [Requests -> Receipt \cup {None}]
      /\ result' \in [Requests -> Result \cup {None}]
  BY DEF Functions, CellOK
<1> QED BY <1>1, <1>2, <1>3 DEF TypeOK, RestOK

LEMMA CellStep ==
  ASSUME TypeOK, \A q \in Requests : TaskOK(q), NEW r \in Requests, Stage(r) \/ Retain(r)
  PROVE  \A q \in Requests : CellOK(q)'
<1>0. (\A q \in Requests : CellOK(q)) /\ RestOK
  BY TypeParts
<1>1. \A q \in Requests \ {r} : CellOK(q)'
  BY <1>0, OthersStay DEF Same, CellOK
<1>2. CellOK(r)'
  <2> USE <1>0 DEF CellOK, Staging, Waiting, Ended
  <2>1. CASE Stage(r)
    BY <2>1, StageMoves
  <2>2. CASE Reads(r) \/ Decides(r) \/ GivesUp(r)
    BY <2>2 DEF Reads, Decides, GivesUp, RestOK
  <2>3. CASE Stamps(r)
    <3>1. decided[r] \in Statuses
      BY <2>3 DEF Stamps, TaskOK, DecisionOK
    <3>2. receipt'[r] \in Receipt
      BY <2>3, <3>1 DEF Stamps, Receipt, RestOK
    <3> QED BY <2>3, <3>2, ResultType DEF Stamps
  <2>4. CASE Puts(r)
    BY <2>4 DEF Puts
  <2>5. CASE Keeps(r)
    BY <2>5, ResultType DEF Keeps
  <2>6. CASE Drops(r)
    <3>1. result'[r] \in Result
      BY <2>6, ResultType DEF Drops
    <3> QED BY <2>6, <3>1 DEF Drops
  <2> QED BY <2>1, <2>2, <2>3, <2>4, <2>5, <2>6, RetainMoves
<1> QED BY <1>1, <1>2

\* A step of one task writes cells of these functions and nothing else.
LEMMA ShapeStep ==
  ASSUME TypeOK, NEW r \in Requests, Stage(r) \/ Retain(r)
  PROVE  Functions'
<1> USE DEF Functions, TypeOK, To, Decide, At, task, media, Settled
<1>1. CASE Stage(r)
  BY <1>1 DEF Stage, CopyToSource, PreserveOriginal, PublishRequest
<1>2. CASE Poll(r) \/ Judge(r) \/ Stumble(r)
  BY <1>2 DEF Poll, Judge, Stumble
<1>3. CASE Finish(r) \/ Reject(r)
  BY <1>3 DEF Finish, Reject
<1>4. CASE Adopt(r) \/ Link(r)
  BY <1>4 DEF Adopt, Link
<1>5. CASE Adopted(r) \/ NotAdopted(r) \/ Unlink(r)
  BY <1>5 DEF Adopted, NotAdopted, Unlink
<1> QED BY <1>1, <1>2, <1>3, <1>4, <1>5 DEF Retain, Receive

LEMMA RestStep ==
  ASSUME TypeOK, NEW r \in Requests, Stage(r) \/ Retain(r)
  PROVE  RestOK'
<1>1. RestOK
  BY TypeParts
<1>2. \/ Stops \/ GoesOn \/ CheckFails \/ UNCHANGED controls
  BY DEF Stage, CopyToSource, PreserveOriginal, PublishRequest, Retain, Receive,
     Poll, Judge, Stumble, Finish, Reject, Adopt, Link, Adopted, NotAdopted, Unlink, Active
<1>3. /\ main' = main /\ UNCHANGED <<answers, export, clock, asked>>
      /\ UNCHANGED faults \/ Faults
      /\ kept' \subseteq kept \cup {r}
  BY DEF Stage, CopyToSource, PreserveOriginal, PublishRequest, Retain, Receive,
     Poll, Judge, Stumble, Finish, Reject, Adopt, Link, Adopted, NotAdopted, Unlink,
     To, Decide, Settled, media
<1> QED BY <1>1, <1>2, <1>3, CheckControls, ExchangeAssumption
        DEF RestOK, answers, export, clock, Faults

LEMMA TypeStep ==
  ASSUME TypeOK, TaskInv, [Next]_vars
  PROVE  TypeOK'
<1> USE ExchangeAssumption DEF task, media, answers, export, clock
<1>1. CASE UNCHANGED vars
  BY <1>1 DEF vars, TypeOK, controls
<1>2. CASE \/ Begin \/ AbortStaging \/ Preflight \/ ExportFails \/ AllSettled
           \/ \E x \in Requests \cup {"proofs"} : PublishRecord(x)
  <2>1. queue' \in Seq(Controls) /\ control' \in {None, "stop"}
    BY <1>2, CheckControls DEF Begin, AbortStaging, Preflight, ExportFails, AllSettled,
         PublishRecord, Active, Fails, NotActive, ExportGoesOn
  <2>2. /\ UNCHANGED <<pc, media, answers, task, clock, asked>>
        /\ main' \in {"staging", "preflight", "publishing", "exported", "failed"}
        /\ published' \subseteq published \cup Requests \cup {"proofs"}
        /\ tolerated' \in BOOLEAN \cup {tolerated}
        /\ UNCHANGED faults \/ Faults
    BY <1>2 DEF Begin, AbortStaging, Preflight, ExportFails, AllSettled,
         PublishRecord, Fails
  <2>3. /\ published' \subseteq Requests \cup {"proofs"} /\ tolerated' \in BOOLEAN
        /\ faults' \in 0..MaxFaults
    BY <2>2 DEF Faults, TypeOK
  <2> QED BY <2>1, <2>2, <2>3 DEF TypeOK
<1>3. CASE StartTasks
  <2>1. /\ pc' \in [Requests -> {"poll", "rejected"}] /\ main' = "retaining"
        /\ UNCHANGED faults \/ Faults
        /\ UNCHANGED <<media, answers, task, export, controls, clock, asked>>
    BY <1>3 DEF StartTasks
  <2>2. pc' \in [Requests -> Staging \cup Waiting \cup Ended \cup
                   {"staged", "stamp", "adopt", "link", "linked"}]
    BY <2>1 DEF Waiting, Ended
  <2> QED BY <2>1, <2>2 DEF Faults, controls, TypeOK
<1>4. ASSUME NEW r \in Requests, Stage(r) \/ Retain(r)
      PROVE  TypeOK'
  BY <1>4, CellStep, ShapeStep, RestStep, PartsType DEF TaskInv, TaskOK
<1>5. ASSUME NEW r \in Requests, ProvideOutput(r)
      PROVE  TypeOK'
  BY <1>5 DEF ProvideOutput, TypeOK, controls
<1>6. ASSUME NEW r \in Requests, NEW v \in Verdicts, Answer(r, v)
      PROVE  TypeOK'
  BY <1>6 DEF Answer, TypeOK, controls
<1>7. ASSUME NEW c \in Controls, DropControl(c)
      PROVE  TypeOK'
  <2>1. Append(queue, c) \in Seq(Controls)
    BY DEF TypeOK
  <2> QED BY <1>7, <2>1 DEF DropControl, TypeOK
<1>8. CASE Expire \/ Overrun
  <2>1. /\ UNCHANGED <<main, pc, media, answers, task, export, controls, faults, asked>>
        /\ expired' \in {expired, TRUE} /\ overdue' \in {overdue, TRUE}
    BY <1>8 DEF Expire, Overrun
  <2> QED BY <2>1 DEF TypeOK, controls
<1> QED BY <1>1, <1>2, <1>3, <1>4, <1>5, <1>6, <1>7, <1>8, StepCases

-----------------------------------------------------------------------------
(* The theorems.                                                             *)

LEMMA InitOK == Init => IInv
<1> SUFFICES ASSUME Init PROVE IInv
  OBVIOUS
<1>1. TypeOK
  <2>1. /\ pc \in [Requests -> Staging] /\ raw \in [Requests -> SUBSET {"run"}]
        /\ response \in [Requests -> {None}] /\ held \in [Requests -> {None}]
    BY DEF Init, Staging
  <2>2. /\ decided \in [Requests -> {None}] /\ receipt \in [Requests -> {None}]
        /\ result \in [Requests -> {None}]
    BY DEF Init
  <2>3. /\ queue \in Seq(Controls) /\ control \in {None, "stop"} /\ main = "start"
        /\ kept = {} /\ output = {} /\ replaced = {} /\ published = {}
        /\ tolerated = FALSE /\ expired = FALSE /\ overdue = FALSE
        /\ faults \in 0..MaxFaults /\ asked \in 0..MaxControls
    BY ExchangeAssumption DEF Init
  <2> QED BY <2>1, <2>2, <2>3 DEF TypeOK
<1>2. TaskInv
  BY DEF Init, TaskInv, StagingOK, DecisionOK, AdoptionOK, SettledOK, Unanswered,
     Staging, Waiting
<1>3. HandoffInv
  BY DEF Init, HandoffInv, Staging
<1> QED BY <1>1, <1>2, <1>3 DEF IInv

\* The inductive invariant holds whatever the attestor answers and when, and
\* however the steps of the tasks are interleaved.
THEOREM ExchangeInvariant == Spec => []IInv
<1>1. IInv /\ [Next]_vars => IInv'
  BY TypeStep, TaskStep, HandoffStep DEF IInv
<1> QED BY <1>1, InitOK, PTL DEF Spec

\* No captured file is ever lost (preserveOriginal moves, and never deletes
\* what it has not copied); what stands in the run directory again was put
\* there on a receipt; and a finished handoff leaves exactly what was attested
\* in time (publishAttestationEvidence).
THEOREM ExchangeHolds == Spec => []ExchangeInv
<1>1. IInv => ExchangeInv
  <2> SUFFICES ASSUME IInv PROVE ExchangeInv
    OBVIOUS
  <2>0. /\ TypeOK /\ HandoffInv
        /\ \A r \in Requests : /\ StagingOK(r) /\ DecisionOK(r)
                               /\ AdoptionOK(r) /\ SettledOK(r)
    BY DEF IInv, TaskInv
  <2>1. CaptureSurvives
    BY <2>0 DEF StagingOK, CaptureSurvives
  <2>2. OnlyAttestedMediaRemains
    <3> SUFFICES ASSUME main = "exported", NEW r \in Requests
                 PROVE  LET adopted == result[r].adoption = "adopted"
                            permits(v) ==
                              adopted /\ receipt[r].response = v
                                /\ receipt[r].status = "verified" /\ ~receipt[r].late
                        IN /\ "run" \in raw[r] <=> permits("clean")
                           /\ r \in kept <=> permits("sanitized")
                           /\ adopted => permits("clean") \/ permits("sanitized")
      BY DEF OnlyAttestedMediaRemains
    <3>1. pc[r] = "settled" /\ Clean(r)
      BY <2>0 DEF HandoffInv
    <3> QED BY <2>0, <3>1 DEF SettledOK, Clean, InPlace, Accepted
  <2>3. ASSUME NEW r \in Requests
        PROVE  /\ "original" \in raw[r] /\ "run" \in raw[r] =>
                    receipt[r] # None /\ receipt[r].response = "clean"
               /\ r \in kept => receipt[r] # None /\ receipt[r].response = "sanitized"
               /\ pc[r] = "settled" <=> result[r] # None
               /\ result[r] # None => receipt[r] # None
    <3>1. None \notin Receipt /\ None \notin Result
      BY ExchangeAssumption
    <3>2. pc[r] \in Staging \cup Waiting \cup Ended \cup
                      {"staged", "stamp", "adopt", "link", "linked"}
      BY <2>0 DEF TypeOK
    <3>3. CASE pc[r] \in Staging \cup Waiting \cup {"staged", "stamp", "rejected"}
      BY <2>0, <3>3 DEF StagingOK, Unanswered, Staging, Waiting
    <3>4. CASE pc[r] \in {"adopt", "link", "linked"}
      BY <2>0, <3>1, <3>4 DEF StagingOK, AdoptionOK, InPlace, Accepted
    <3>5. CASE pc[r] = "settled"
      BY <2>0, <3>1, <3>5 DEF SettledOK
    <3> QED BY <3>2, <3>3, <3>4, <3>5 DEF Ended
  <2> QED BY <2>0, <2>1, <2>2, <2>3 DEF ExchangeInv
<1> QED BY <1>1, ExchangeInvariant, PTL

\* Once a stop is known, or the deadline has passed, no task adopts anything
\* any more, however far it had come; and what a stop check takes from the
\* queue is remembered for all tasks.
THEOREM LateIsNotAdopted == Spec => NothingAdoptedLate
<1> DEFINE Adopts(r) == result'[r] # None /\ result'[r].adoption = "adopted"
           NotLate == \A r \in Requests :
             (control # None \/ expired) /\ pc[r] # "settled" => ~Adopts(r)
           Taken == queue' # queue /\ Len(queue') < Len(queue) => control' = "stop"
<1>1. IInv /\ [Next]_vars => NotLate
  <2> SUFFICES ASSUME IInv, [Next]_vars, NEW r \in Requests,
                      control # None \/ expired, pc[r] # "settled"
               PROVE  ~Adopts(r)
    OBVIOUS
  <2>0. TypeOK /\ TaskOK(r)
    BY DEF IInv, TaskInv, TaskOK
  <2>1. result[r] = None
    BY <2>0 DEF TypeOK, TaskOK, StagingOK, AdoptionOK, Unanswered, Staging, Waiting, Ended
  <2>2. CASE \/ Begin \/ AbortStaging \/ StartTasks \/ AllSettled \/ Preflight
             \/ ExportFails \/ Expire \/ Overrun \/ UNCHANGED vars
             \/ \E x \in Requests \cup {"proofs"} : PublishRecord(x)
             \/ \E c \in Controls : DropControl(c)
             \/ \E q \in Requests : Stage(q) \/ ProvideOutput(q)
             \/ \E q \in Requests, v \in Verdicts : Answer(q, v)
    <3>1. result' = result
      BY <2>2 DEF Begin, AbortStaging, StartTasks, AllSettled, Preflight, ExportFails,
           Expire, Overrun, vars, PublishRecord, DropControl, Stage, CopyToSource,
           PreserveOriginal, PublishRequest, ProvideOutput, Answer, task
    <3> QED BY <2>1, <3>1
  <2>3. ASSUME NEW q \in Requests, Retain(q)
        PROVE  ~Adopts(r)
    <3>1. CASE q # r
      BY <2>0, <2>1, <2>3, <3>1, OthersStay DEF Same
    <3>2. CASE q = r
      <4>1. \/ result'[r] = None
            \/ \E a \in {"failed", "not-attempted"}, b \in BOOLEAN :
                 result'[r] = [adoption |-> a, cancelled |-> b]
        BY <2>0, <2>1, <2>3, <3>2, RetainMoves
           DEF Reads, Decides, GivesUp, Stamps, Puts, Keeps, Drops
      <4>2. result'[r] = None \/ result'[r].adoption # "adopted"
        BY <4>1, ResultType
      <4> QED BY <4>2
    <3> QED BY <3>1, <3>2
  <2> QED BY <2>2, <2>3, StepCases
<1>2. IInv /\ [Next]_vars => Taken
  <2> SUFFICES ASSUME TypeOK, [Next]_vars, queue' # queue, Len(queue') < Len(queue)
               PROVE  control' = "stop"
    BY DEF IInv
  <2>1. ASSUME NEW c \in Controls, DropControl(c)
        PROVE  FALSE
    BY <2>1 DEF DropControl, TypeOK
  <2>2. ASSUME NEW r \in Requests, Stage(r) \/ Retain(r)
        PROVE  control' = "stop"
    <3>1. Stops \/ GoesOn \/ CheckFails \/ UNCHANGED controls
      BY <2>2 DEF Stage, CopyToSource, PreserveOriginal, PublishRequest, Retain,
         Receive, Poll, Judge, Stumble, Finish, Reject, Adopt, Link, Adopted,
         NotAdopted, Unlink, Active
    <3> QED BY <3>1, CheckControls
  <2>3. CASE \/ Begin \/ AbortStaging \/ StartTasks \/ AllSettled \/ Preflight
             \/ ExportFails \/ \E x \in Requests \cup {"proofs"} : PublishRecord(x)
    <3>1. Stops \/ GoesOn \/ CheckFails \/ UNCHANGED controls
      BY <2>3 DEF Begin, AbortStaging, StartTasks, AllSettled, Preflight,
         ExportFails, PublishRecord, Active, Fails, NotActive, ExportGoesOn
    <3> QED BY <3>1, CheckControls
  <2>4. CASE \/ Expire \/ Overrun \/ UNCHANGED vars
             \/ \E q \in Requests : ProvideOutput(q)
             \/ \E q \in Requests, v \in Verdicts : Answer(q, v)
    BY <2>4 DEF Expire, Overrun, vars, ProvideOutput, Answer, controls
  <2> QED BY <2>1, <2>2, <2>3, <2>4, StepCases
<1>3. IInv /\ [Next]_vars =>
        [ /\ \A r \in Requests :
               (control # None \/ expired) /\ pc[r] # "settled" =>
                 ~(result'[r] # None /\ result'[r].adoption = "adopted")
          /\ Requested # <<>> /\ Head(Requested) = "stop" /\ queue' # queue
               /\ Len(queue') < Len(queue) => control' = "stop" ]_vars
  BY <1>1, <1>2
<1> QED BY <1>3, ExchangeInvariant, PTL DEF Spec, NothingAdoptedLate


-----------------------------------------------------------------------------
(* The journal: the inductive invariant.                                   *)

\* What a record, a reader and a call can hold.
Answered ==
  [given : BOOLEAN, ok : BOOLEAN, attempted : {"yes", "no", "unknown"},
   stopped : BOOLEAN, at : {"in", "late"}]

\* A record, whatever it is about.
AnyEvidence ==
  [kind : {"observation", "requested", "finished"},
   op : {"none", "action", "screenshot", "start", "stop"},
   ord : Nat, cord : Nat, at : {"in", "late"}, started : {"none", "in", "late"},
   status : {"completed", "failed"}, attempted : {"yes", "no", "unknown"},
   receipt : Answered]

\* An observation is about no operation, and it alone.
Evidence == {e \in AnyEvidence : e.kind = "observation" <=> e.op = "none"}

\* A line of the log, a reader, an operation under way, a request.
AnyReference == [journal : Nat, seq : Nat, evidence : Evidence]

Verifier ==
  [seen : BOOLEAN, pending : Nat, ord : Nat, stopped : BOOLEAN, uncertain : BOOLEAN,
   asked : [op : {"none", "screenshot", "start", "stop"}, ord : Nat, cord : Nat],
   active : Nat, shots : Nat, blind : BOOLEAN, blocked : BOOLEAN]

AnyCall ==
  [op : {"none", "action", "screenshot", "start", "stop"}, ord : Nat, cord : Nat,
   step : {"none", "request", "wait", "finish"}, prepared : BOOLEAN,
   failed : BOOLEAN, started : {"none", "in", "late"}, receipt : Answered]

AnyMessage ==
  [journal : Nat, op : {"action", "screenshot", "start", "stop"}, ord : Nat, cord : Nat]

\* What the variables can hold.
JournalTypes ==
  /\ log \in Seq(AnyReference) /\ folders \in Nat
  /\ session \in {"draft", "running", "paused", "over"}
  /\ runner \in {"off", "observe", "ready"}
  /\ sink \in [journal : Nat, seq : Nat, open : BOOLEAN, verifier : Verifier]
  /\ note \in [step : {"none", "publish", "refer", "written", "refused"},
               evidence : Evidence]
  /\ call \in AnyCall /\ active \in Nat
  /\ ordinals \in [actions : Nat, captures : Nat]
  /\ flight \subseteq AnyMessage /\ sent \subseteq AnyMessage
  /\ recording \in Nat \X Nat /\ acted \subseteq Nat \X Nat

\* f reads the log l from its beginning.
Reader(f, l) ==
  f = [n \in 0..Len(l) |-> IF n = 0 THEN Unread ELSE ReadRecord(f[n - 1], l[n])]

\* What the log says of the journal it ends with.
Known == Reading.verifier

\* What the next record of the sink is judged by.
Base == IF sink.seq = 0 THEN NewVerifier ELSE Known

\* The reader v waits for the record that ends this operation.
Agrees(v, op, ord, cord) ==
  IF op = "action" THEN v.pending = ord
  ELSE v.asked = [op |-> op, ord |-> ord, cord |-> cord]

\* What a reader holds open: one action or one capture, never both.
VerifierInv(v) ==
  /\ v.uncertain => v.stopped
  /\ v.pending # 0 => ~v.stopped /\ v.asked = NoCapture
  /\ v.asked.op = "stop" => v.active # 0 /\ v.asked.cord = v.active
  /\ v.asked.op = "start" => v.active = 0
  /\ ~v.seen => v = NewVerifier

\* The log can be read, as far as it goes.
ReadInv ==
  /\ \E f : Reader(f, log)
  /\ Known \in Verifier /\ VerifierInv(Known)
  /\ Reading.ok /\ Reading.journal \in Nat /\ Reading.seq \in Nat
  /\ Reading.journal <= folders
  /\ Reading.journal = 0 <=> log = <<>>
  /\ Reading.journal = 0 => Known = NewVerifier

\* A record is between the sink and the log.
InTransit == note.step \in {"publish", "refer"}

\* The sink has gone one record further than the log, while that is written.
SinkInv ==
  /\ runner # "off" => sink.journal = folders /\ folders > 0
  /\ InTransit \/ note.step = "written" => sink.open
  /\ note.step = "refused" => ~sink.open
  /\ sink.open =>
       /\ runner # "off"
       /\ sink.seq = 0 => Reading.journal < sink.journal /\ (log # <<>> => Complete(Known))
       /\ sink.seq > 0 => Reading.journal = sink.journal /\ Reading.seq = sink.seq
       /\ ~InTransit => sink.verifier = Base
       /\ InTransit => Admits(Base, note.evidence)
          /\ sink.verifier = After(Base, note.evidence)

\* What has been sent, and what the device made of it.
SentInv ==
  /\ flight \subseteq sent
  /\ \A r \in sent :
       /\ r.journal \in 1..folders /\ r.ord > 0
       /\ r.op = "action" => r.cord = 0
       /\ r.op = "start" => r.cord = r.ord
       /\ r.op # "stop" => \E i \in DOMAIN log : IsRecord(i, "requested", r)
       /\ r.journal = sink.journal =>
            r.ord <= IF r.op = "action" THEN ordinals.actions ELSE ordinals.captures
  /\ \A a \in acted : \E r \in sent : r.op = "action" /\ r.journal = a[1] /\ r.ord = a[2]
  /\ recording # Silence =>
       \E r \in sent : r.op = "start" /\ <<r.journal, r.cord>> = recording

\* The reader v knows the recording that the request m would begin.
Began(v, m) ==
  v.active = m.cord \/ v.asked = [op |-> "start", ord |-> m.ord, cord |-> m.cord]

\* The log says that this action was begun.
SaysDone(j, o) ==
  \E i \in DOMAIN log :
    /\ log[i].journal = j /\ log[i].evidence.kind = "finished"
    /\ log[i].evidence.op = "action" /\ log[i].evidence.ord = o
    /\ log[i].evidence.attempted = "yes"

\* The log says whether this action was begun.
Told(j, o) ==
  \E i \in DOMAIN log :
    /\ log[i].journal = j /\ log[i].evidence.kind = "finished"
    /\ log[i].evidence.op = "action" /\ log[i].evidence.ord = o
    /\ log[i].evidence.attempted # "unknown"

\* An action the log does not know the outcome of yet, or says it may not know.
Unsettled(j, o) == j = Reading.journal /\ (Known.pending = o \/ Known.uncertain)

\* The log and the device.
FlightInv ==
  /\ \A r \in flight : r.op = "action" =>
       Unsettled(r.journal, r.ord) /\ <<r.journal, r.ord>> \notin acted
  /\ \A r \in flight : r.op = "start" =>
       r.journal = Reading.journal /\ Began(Known, r) /\ recording # <<r.journal, r.cord>>
  /\ recording # Silence =>
       /\ recording[1] = Reading.journal
       /\ Known.active = recording[2]
          \/ (Known.asked.op = "start" /\ Known.asked.cord = recording[2])

\* What the log says was begun was, and what was begun it says, or leaves open.
TruthInv ==
  /\ \A i \in DOMAIN log :
       log[i].evidence.kind = "finished" /\ log[i].evidence.op = "action"
       /\ log[i].evidence.attempted = "yes"
         => <<log[i].journal, log[i].evidence.ord>> \in acted
  /\ \A a \in acted : SaysDone(a[1], a[2]) \/ Unsettled(a[1], a[2])
  /\ \A i \in DOMAIN log :
       log[i].evidence.kind = "requested" /\ log[i].evidence.op = "action" =>
       /\ log[i].evidence.ord > 0
       /\ Told(log[i].journal, log[i].evidence.ord)
          \/ Unsettled(log[i].journal, log[i].evidence.ord)

\* The record is about the operation under way.
IsMessage(e) == e.op = call.op /\ e.ord = call.ord /\ e.cord = call.cord

\* What the record of an answer, on its way to the log, says of the device.
Answers(e) ==
  /\ call.step = "finish" /\ sink.seq > 0 /\ Agrees(Known, e.op, e.ord, e.cord)
  /\ e.op = "action" /\ e.attempted # "unknown" =>
       Message \notin flight /\ (e.attempted = "yes" <=> <<sink.journal, e.ord>> \in acted)
  /\ e.op = "action" /\ e.attempted = "unknown" => e.status = "failed"
  /\ e.op = "start" /\ (e.started = "none" \/ e.receipt.stopped) =>
       Message \notin flight /\ recording # <<sink.journal, e.cord>>
  /\ e.op = "stop" /\ e.receipt.stopped =>
       recording = Silence /\ \A r \in flight : r.op # "start"

TransitInv ==
  InTransit =>
    /\ note.evidence.kind = "observation" => runner = "observe"
    /\ note.evidence.kind # "observation" => IsMessage(note.evidence)
    /\ note.evidence.kind = "requested" => call.step = "request"
    /\ note.evidence.kind = "finished" => Answers(note.evidence)

\* Requests of the kind of call that this journal has sent.
Sending(r) == r.journal = sink.journal /\ (r.op = "action" <=> call.op = "action")

\* The operation under way.
CallInv ==
  /\ runner # "ready" => call = NoCall
  /\ runner = "off" => note = NoNote
  /\ call = NoCall /\ runner = "ready" => note = NoNote
  /\ call # NoCall => session = "running" /\ call.op # "none" /\ call.step # "none"
     /\ call.ord > 0
  /\ call.op = "action" => call.cord = 0
  /\ call.op = "start" => call.cord = call.ord

\* The steps of an operation: its request is in the log before it is sent, and
\* what is prepared waits for the record that ends it.
StepInv ==
  /\ call.step = "request" =>
       /\ note.step # "none" /\ call.receipt = NoReceipt
       /\ \A r \in sent : Sending(r) => r.ord < call.ord
       /\ call.ord = IF call.op = "action" THEN ordinals.actions ELSE ordinals.captures
       /\ Written => /\ Agrees(Known, call.op, call.ord, call.cord) /\ sink.seq > 0
                     /\ \E i \in DOMAIN log : IsRecord(i, "requested", Message)
  /\ call.step = "wait" =>
       /\ note = NoNote /\ Message \in sent /\ call.started # "none"
       /\ call.prepared => sink.seq > 0 /\ sink.open
          /\ Agrees(Known, call.op, call.ord, call.cord)
       /\ ~call.prepared => ~sink.open
  /\ call.step = "finish" => note.step # "none"

\* The inductive invariant.
JournalIInv ==
  /\ JournalTypes /\ ReadInv /\ SinkInv /\ SentInv /\ FlightInv /\ TruthInv /\ TransitInv
  /\ CallInv /\ StepInv

-----------------------------------------------------------------------------
(* The journal: reading a log.                                             *)

\* A log is read in one way.
LEMMA OneReading ==
  ASSUME NEW S, NEW l \in Seq(S), NEW f, NEW g, Reader(f, l), Reader(g, l)
  PROVE  f = g
<1> DEFINE D == {n \in 0..Len(l) : f[n] # g[n]}
<1>1. Len(l) \in Nat
  OBVIOUS
<1>2. /\ f[0] = Unread /\ g[0] = Unread
      /\ \A n \in 1..Len(l) : f[n] = ReadRecord(f[n - 1], l[n])
         /\ g[n] = ReadRecord(g[n - 1], l[n])
  <2>1. \A n \in 0..Len(l) : f[n] = IF n = 0 THEN Unread ELSE ReadRecord(f[n - 1], l[n])
    BY DEF Reader
  <2>2. \A n \in 0..Len(l) : g[n] = IF n = 0 THEN Unread ELSE ReadRecord(g[n - 1], l[n])
    BY DEF Reader
  <2> QED BY <1>1, <2>1, <2>2
<1>3. D = {}
  <2> SUFFICES ASSUME D # {} PROVE FALSE
    OBVIOUS
  <2>1. D \in SUBSET Nat
    BY <1>1
  <2>2. PICK m \in D : \A j \in D : m <= j
    <3> HIDE DEF D
    <3> QED BY <2>1, LeastIndex
  <2>3. m \in 1..Len(l) /\ m - 1 \in 0..Len(l)
    BY <1>1, <1>2
  <2>4. f[m - 1] = g[m - 1]
    BY <2>2, <2>3
  <2>5. f[m] = g[m]
    BY <1>2, <2>3, <2>4
  <2> QED BY <2>2, <2>5
<1>4. \A n \in 0..Len(l) : f[n] = g[n]
  BY <1>3
<1>5. f = [n \in 0..Len(l) |-> f[n]] /\ g = [n \in 0..Len(l) |-> g[n]]
  BY DEF Reader
<1> QED BY <1>4, <1>5

\* Reading the whole log, once some function reads it.
LEMMA ReadingIs ==
  ASSUME NEW S, log \in Seq(S), NEW f, Reader(f, log)
  PROVE  Reading = f[Len(log)]
<1> DEFINE after == CHOOSE g : Reader(g, log)
<1>1. Reader(after, log)
  OBVIOUS
<1> HIDE DEF after
<1>2. after = f
  BY <1>1, OneReading
<1>3. Reading = after[Len(log)]
  BY DEF Reading, Reader, after
<1> QED BY <1>2, <1>3

\* The same of the log after a step.
LEMMA ReadingIsThen ==
  ASSUME NEW S, log' \in Seq(S), NEW f, Reader(f, log')
  PROVE  Reading' = f[Len(log')]
<1> DEFINE after == CHOOSE g : Reader(g, log')
<1>1. Reader(after, log')
  OBVIOUS
<1> HIDE DEF after
<1>2. after = f
  BY <1>1, OneReading
<1>3. Reading' = after[Len(log')]
  BY DEF Reading, Reader, after
<1> QED BY <1>2, <1>3

\* One record more is read after the others.
LEMMA ReadingAppended ==
  ASSUME log \in Seq(AnyReference), \E f : Reader(f, log), NEW ref \in AnyReference,
         log' = Append(log, ref)
  PROVE  /\ log' \in Seq(AnyReference) /\ \E f : Reader(f, log')
         /\ Reading' = ReadRecord(Reading, ref)
<1>1. PICK f : Reader(f, log)
  OBVIOUS
<1> DEFINE n == Len(log)
           g == [k \in 0..(n + 1) |-> IF k <= n THEN f[k] ELSE ReadRecord(f[n], ref)]
<1>2. /\ log' \in Seq(AnyReference) /\ n \in Nat /\ Len(log') = n + 1 /\ log'[n + 1] = ref
      /\ \A k \in 1..n : log'[k] = log[k]
  OBVIOUS
<1>3. f[0] = Unread /\ \A k \in 1..n : f[k] = ReadRecord(f[k - 1], log[k])
  BY <1>1, <1>2 DEF Reader
<1>4. \A k \in 0..(n + 1) :
        g[k] = IF k = 0 THEN Unread ELSE ReadRecord(g[k - 1], log'[k])
  <2> TAKE k \in 0..(n + 1)
  <2>1. CASE k = 0
    BY <1>2, <1>3, <2>1
  <2>2. CASE k \in 1..n
    BY <1>2, <1>3, <2>2
  <2>3. CASE k = n + 1
    BY <1>2, <2>3
  <2> QED BY <1>2, <2>1, <2>2, <2>3
<1>5. Reader(g, log')
  <2>1. g = [k \in 0..(n + 1) |-> g[k]]
    OBVIOUS
  <2> HIDE DEF g
  <2> QED BY <1>2, <1>4, <2>1 DEF Reader
<1>6. Reading = f[n]
  BY <1>1, ReadingIs
<1>7. Reading' = g[n + 1]
  <2> HIDE DEF g
  <2> QED BY <1>2, <1>5, ReadingIsThen
<1>8. g[n + 1] = ReadRecord(f[n], ref)
  BY <1>2
<1> QED BY <1>2, <1>5, <1>6, <1>7, <1>8

\* And nothing more leaves what was read.
LEMMA ReadingLeft ==
  ASSUME log' = log
  PROVE  Reading' = Reading /\ Known' = Known
  BY DEF Reading, Known

-----------------------------------------------------------------------------
(* The journal: what a record makes of the verifier.                       *)

\* What the reader v makes of a record e, by the kind of record.
OfObservation(v, e, w) ==
  /\ e.kind = "observation" /\ v = NewVerifier
  /\ w.seen /\ w.pending = 0 /\ ~w.stopped /\ ~w.uncertain
  /\ w.asked = NoCapture /\ w.active = 0

OfRequestedAction(v, e, w) ==
  /\ e.kind = "requested" /\ e.op = "action"
  /\ v.seen /\ ~v.stopped /\ v.asked = NoCapture /\ v.pending = 0
  /\ e.ord > 0
  /\ w.seen /\ ~w.stopped /\ w.asked = NoCapture /\ w.pending = e.ord
  /\ w.uncertain = v.uncertain /\ w.active = v.active

OfFinishedAction(v, e, w) ==
  /\ e.kind = "finished" /\ e.op = "action"
  /\ v.seen /\ ~v.stopped /\ v.asked = NoCapture /\ v.pending = e.ord
  /\ w.seen /\ w.asked = NoCapture /\ w.pending = 0 /\ w.active = v.active
  /\ w.uncertain <=> e.attempted = "unknown"
  /\ e.status = "failed" => w.stopped

OfRequestedCapture(v, e, w) ==
  /\ e.kind = "requested" /\ e.op \in {"screenshot", "start", "stop"}
  /\ v.seen /\ v.asked = NoCapture /\ v.pending = 0 /\ e.ord > 0
  /\ e.op = "stop" => v.active # 0 /\ e.cord = v.active
  /\ e.op = "start" => v.active = 0
  /\ w.seen /\ w.asked = [op |-> e.op, ord |-> e.ord, cord |-> e.cord]
  /\ w.pending = 0 /\ w.uncertain = v.uncertain /\ w.stopped = v.stopped
  /\ w.active = v.active

OfFinishedCapture(v, e, w) ==
  /\ e.kind = "finished" /\ e.op \in {"screenshot", "start", "stop"}
  /\ v.seen /\ v.asked.op = e.op /\ v.asked.ord = e.ord /\ v.pending = 0
  /\ w.seen /\ w.asked = NoCapture
  /\ w.pending = 0 /\ w.uncertain = v.uncertain /\ w.stopped = v.stopped
  /\ e.op = "start" /\ e.started # "none" /\ ~e.receipt.stopped => w.active = v.asked.cord
  /\ e.op = "start" /\ (e.started = "none" \/ e.receipt.stopped) => w.active = v.active
  /\ e.op = "stop" /\ e.receipt.stopped => w.active = 0
  /\ e.op = "stop" /\ ~e.receipt.stopped => w.active = v.active
  /\ e.op = "screenshot" => w.active = v.active

Judged(v, e, w) ==
  \/ OfObservation(v, e, w) \/ OfRequestedAction(v, e, w) \/ OfFinishedAction(v, e, w)
  \/ OfRequestedCapture(v, e, w) \/ OfFinishedCapture(v, e, w)

\* The fields of a record.
LEMMA EvidenceFacts ==
  ASSUME NEW e \in Evidence
  PROVE  /\ e \in AnyEvidence /\ e.receipt \in Answered
         /\ e.kind = "observation" <=> e.op = "none"
         /\ e.kind \in {"observation", "requested", "finished"}
         /\ e.op \in {"none", "action", "screenshot", "start", "stop"}
         /\ e.ord \in Nat /\ e.cord \in Nat
         /\ e.attempted \in {"yes", "no", "unknown"} /\ e.status \in {"completed", "failed"}
         /\ e.receipt.stopped \in BOOLEAN /\ e.receipt.given \in BOOLEAN
         /\ e.receipt.ok \in BOOLEAN
  <1>1. e \in AnyEvidence /\ (e.kind = "observation" <=> e.op = "none")
    BY DEF Evidence
  <1>2. e.receipt \in Answered
    BY <1>1 DEF AnyEvidence
  <1>3. /\ e.receipt.stopped \in BOOLEAN /\ e.receipt.given \in BOOLEAN
        /\ e.receipt.ok \in BOOLEAN
    BY <1>2 DEF Answered
  <1> QED BY <1>1, <1>2, <1>3 DEF AnyEvidence

\* A record that is admitted changes these parts of the verifier only.
LEMMA Judgement ==
  ASSUME NEW v \in Verifier, NEW e \in Evidence, Admits(v, e), VerifierInv(v)
  PROVE  After(v, e) \in Verifier /\ Judged(v, e, After(v, e))
  <1> USE EvidenceFacts
  <1>1. CASE e.kind = "observation"
    <2> DEFINE w == [v EXCEPT !.seen = TRUE]
    <2>1. After(v, e) = w /\ ~v.seen
      BY <1>1 DEF After, Admits, Captures, Cleanup
    <2>2. v = NewVerifier
      BY <2>1 DEF VerifierInv
    <2>3. w \in Verifier
      BY DEF Verifier
    <2>4. OfObservation(v, e, w)
      BY <1>1, <2>2 DEF OfObservation, NewVerifier
    <2> QED BY <2>1, <2>3, <2>4 DEF Judged
  <1>2. CASE e.kind # "observation" /\ e.op = "action"
    <2>1. AdmitsAction(v, e) /\ After(v, e) = AfterAction(v, e)
      BY <1>2 DEF After, Admits, Captures, Cleanup
    <2>2. CASE e.kind = "requested"
      <3> DEFINE w == [v EXCEPT !.pending = e.ord, !.ord = e.ord]
      <3>1. After(v, e) = w
        BY <2>1, <2>2 DEF AfterAction
      <3>2. v.seen /\ ~v.stopped /\ v.asked = NoCapture /\ v.pending = 0
            /\ e.ord = v.ord + 1
        BY <2>1, <2>2 DEF AdmitsAction
      <3>3. w \in Verifier /\ e.ord > 0
        <4>1. v.ord \in Nat
          BY DEF Verifier
        <4>2. w \in Verifier
          BY DEF Verifier
        <4> QED BY <3>2, <4>1, <4>2
      <3>4. OfRequestedAction(v, e, w)
        BY <1>2, <2>2, <3>2, <3>3 DEF OfRequestedAction, Verifier
      <3> QED BY <3>1, <3>3, <3>4 DEF Judged
    <2>3. CASE e.kind = "finished"
      <3> DEFINE u == e.attempted = "unknown"
                 s == e.status = "failed" \/ ~e.receipt.ok
                 w == [v EXCEPT !.pending = 0, !.uncertain = u, !.stopped = s]
      <3>1. After(v, e) = w
        BY <2>1, <2>3 DEF AfterAction
      <3>2. v.seen /\ ~v.stopped /\ v.asked = NoCapture /\ v.pending = e.ord
        BY <2>1, <2>3 DEF AdmitsAction
      <3>3. u \in BOOLEAN /\ s \in BOOLEAN /\ (e.status = "failed" => s)
        OBVIOUS
      <3>4. u <=> e.attempted = "unknown"
        OBVIOUS
      <3> HIDE DEF u, s
      <3>5. w \in Verifier
        BY <3>3 DEF Verifier
      <3>6. OfFinishedAction(v, e, w)
        BY <1>2, <2>3, <3>2, <3>3, <3>4 DEF OfFinishedAction, Verifier
      <3> QED BY <3>1, <3>5, <3>6 DEF Judged
    <2> QED BY <1>2, <2>2, <2>3
  <1>3. CASE e.kind # "observation" /\ e.op # "action"
    <2>1. /\ AdmitsCapture(v, e) /\ After(v, e) = AfterCapture(v, e)
          /\ e.op \in {"screenshot", "start", "stop"}
      BY <1>3 DEF After, Admits, Captures, Cleanup
    <2>2. CASE e.kind = "requested"
      <3> DEFINE a == [op |-> e.op, ord |-> e.ord, cord |-> e.cord]
                 w == [v EXCEPT !.asked = a, !.shots = e.ord]
      <3>1. After(v, e) = w
        BY <2>1, <2>2 DEF AfterCapture
      <3>2. /\ v.seen /\ v.asked = NoCapture /\ v.pending = 0 /\ e.ord = v.shots + 1
            /\ e.op = "stop" => v.active # 0 /\ e.cord = v.active
            /\ e.op = "start" => v.active = 0
        BY <2>1, <2>2 DEF AdmitsCapture, Cleanup
      <3>3. a \in [op : {"none", "screenshot", "start", "stop"}, ord : Nat, cord : Nat]
        BY <2>1
      <3>4. a = [op |-> e.op, ord |-> e.ord, cord |-> e.cord]
        OBVIOUS
      <3> HIDE DEF a
      <3>5. w \in Verifier /\ e.ord > 0
        <4>1. v.shots \in Nat
          BY DEF Verifier
        <4>2. w \in Verifier
          BY <3>3 DEF Verifier
        <4> QED BY <3>2, <4>1, <4>2
      <3>6. OfRequestedCapture(v, e, w)
        BY <2>1, <2>2, <3>2, <3>4, <3>5 DEF OfRequestedCapture, Verifier
      <3> QED BY <3>1, <3>5, <3>6 DEF Judged
    <2>3. CASE e.kind = "finished"
      <3> DEFINE c == CASE e.op = "start" /\ e.started # "none" /\ ~e.receipt.stopped
                             -> v.asked.cord
                        [] e.op \in Cleanup /\ e.receipt.stopped -> 0
                        [] OTHER -> v.active
                 b == v.blind
                      \/ (e.op = "screenshot" /\ e.started # "none" /\ ~e.receipt.given)
                 k == v.blocked \/ e.status = "failed" \/ ~e.receipt.ok
                 w == [v EXCEPT !.asked = NoCapture, !.active = c, !.blind = b,
                       !.blocked = k]
      <3>1. After(v, e) = w
        BY <2>1, <2>3 DEF AfterCapture
      <3>2. v.seen /\ v.asked.op = e.op /\ v.asked.ord = e.ord /\ v.pending = 0
        BY <2>1, <2>3 DEF AdmitsCapture
      <3>3. b \in BOOLEAN /\ k \in BOOLEAN
        BY DEF Verifier
      <3>4. /\ e.op = "start" /\ e.started # "none"
               /\ ~e.receipt.stopped => c = v.asked.cord
            /\ e.op = "start" /\ (e.started = "none" \/ e.receipt.stopped) => c = v.active
            /\ e.op = "stop" /\ e.receipt.stopped => c = 0
            /\ e.op = "stop" /\ ~e.receipt.stopped => c = v.active
            /\ e.op = "screenshot" => c = v.active
        BY DEF Cleanup
      <3>5. c \in Nat
        BY <2>1, <3>4 DEF Verifier
      <3>6. NoCapture \in [op : {"none", "screenshot", "start", "stop"}, ord : Nat,
                           cord : Nat]
        BY DEF NoCapture
      <3> HIDE DEF c, b, k
      <3>7. /\ w \in Verifier /\ w.seen = v.seen /\ w.asked = NoCapture
            /\ w.pending = v.pending
            /\ w.uncertain = v.uncertain /\ w.stopped = v.stopped /\ w.active = c
        BY <3>3, <3>5, <3>6 DEF Verifier
      <3> HIDE DEF w
      <3>8. OfFinishedCapture(v, e, w)
        BY <2>1, <2>3, <3>2, <3>4, <3>7 DEF OfFinishedCapture
      <3> QED BY <3>1, <3>7, <3>8 DEF Judged
    <2> QED BY <1>3, <2>2, <2>3
  <1> QED BY <1>1, <1>2, <1>3

\* A reader that has read nothing.
LEMMA NewVerifierInv == NewVerifier \in Verifier /\ VerifierInv(NewVerifier)
  BY DEF NewVerifier, NoCapture, Verifier, VerifierInv

\* The invariant of a reader, record by record.
LEMMA VerifierKept ==
  ASSUME NEW v, NEW e, NEW w, Judged(v, e, w), VerifierInv(v),
         e.kind = "finished" /\ e.op = "action"
         /\ e.attempted = "unknown" => e.status = "failed"
  PROVE  VerifierInv(w)
  <1> USE DEF VerifierInv, NoCapture
  <1>1. CASE OfObservation(v, e, w)
    BY <1>1 DEF OfObservation
  <1>2. CASE OfRequestedAction(v, e, w)
    BY <1>2 DEF OfRequestedAction
  <1>3. CASE OfFinishedAction(v, e, w)
    BY <1>3 DEF OfFinishedAction
  <1>4. CASE OfRequestedCapture(v, e, w)
    BY <1>4 DEF OfRequestedCapture
  <1>5. CASE OfFinishedCapture(v, e, w)
    BY <1>5 DEF OfFinishedCapture
  <1> QED BY <1>1, <1>2, <1>3, <1>4, <1>5 DEF Judged

-----------------------------------------------------------------------------
(* The journal: a record reaches the log.                                  *)

\* The types of the fields, for the provers.
LEMMA JournalTypeFacts ==
  ASSUME JournalTypes
  PROVE  /\ folders \in Nat /\ active \in Nat
         /\ sink.journal \in Nat /\ sink.seq \in Nat /\ sink.open \in BOOLEAN
         /\ sink.verifier \in Verifier
         /\ note.step \in {"none", "publish", "refer", "written", "refused"}
         /\ note.evidence \in Evidence
         /\ call.op \in {"none", "action", "screenshot", "start", "stop"}
         /\ call.step \in {"none", "request", "wait", "finish"}
         /\ call.ord \in Nat /\ call.cord \in Nat /\ call.prepared \in BOOLEAN
         /\ call.started \in {"none", "in", "late"} /\ call.receipt \in Answered
         /\ ordinals.actions \in Nat /\ ordinals.captures \in Nat
         /\ \A r \in sent : r \in AnyMessage /\ r.journal \in Nat /\ r.ord \in Nat
            /\ r.cord \in Nat
         /\ \A a \in acted : a \in Nat \X Nat /\ a[1] \in Nat /\ a[2] \in Nat
         /\ \A i \in DOMAIN log : log[i].journal \in Nat /\ log[i].evidence \in Evidence
  <1>1. \A r \in AnyMessage : r.journal \in Nat /\ r.ord \in Nat /\ r.cord \in Nat
    BY DEF AnyMessage
  <1>2. \A i \in DOMAIN log : log[i] \in AnyReference
    BY DEF JournalTypes
  <1>3. \A r \in AnyReference : r.journal \in Nat /\ r.evidence \in Evidence
    BY DEF AnyReference
  <1>4. \A r \in sent : r \in AnyMessage /\ r.journal \in Nat /\ r.ord \in Nat
        /\ r.cord \in Nat
    BY <1>1 DEF JournalTypes
  <1>5. \A a \in acted : a \in Nat \X Nat /\ a[1] \in Nat /\ a[2] \in Nat
    BY DEF JournalTypes
  <1>6. /\ sink.journal \in Nat /\ sink.seq \in Nat /\ sink.open \in BOOLEAN
        /\ sink.verifier \in Verifier
        /\ note.step \in {"none", "publish", "refer", "written", "refused"}
        /\ note.evidence \in Evidence
    BY DEF JournalTypes
  <1>7. /\ call.op \in {"none", "action", "screenshot", "start", "stop"}
        /\ call.step \in {"none", "request", "wait", "finish"}
        /\ call.ord \in Nat /\ call.cord \in Nat /\ call.prepared \in BOOLEAN
        /\ call.started \in {"none", "in", "late"} /\ call.receipt \in Answered
    BY DEF JournalTypes, AnyCall
  <1>8. /\ folders \in Nat /\ active \in Nat
        /\ ordinals.actions \in Nat /\ ordinals.captures \in Nat
    BY DEF JournalTypes
  <1> QED BY <1>2, <1>3, <1>4, <1>5, <1>6, <1>7, <1>8

\* The reader that judges the next record is a reader.
LEMMA BaseFacts ==
  ASSUME ReadInv
  PROVE  Base \in Verifier /\ VerifierInv(Base)
  BY NewVerifierInv DEF ReadInv, Base

\* Nothing of a verifier that has settled everything is open.
LEMMA CompleteFacts ==
  ASSUME NEW v, Complete(v)
  PROVE  v.seen /\ v.pending = 0 /\ ~v.uncertain /\ v.asked = NoCapture /\ v.active = 0
  BY DEF Complete, CaptureComplete

\* What is on its way to the log was admitted.
LEMMA Judging ==
  ASSUME JournalIInv, InTransit
  PROVE  /\ Judged(Base, note.evidence, sink.verifier) /\ VerifierInv(sink.verifier)
         /\ sink.open /\ note.evidence \in Evidence
  <1>1. /\ Base \in Verifier /\ VerifierInv(Base) /\ note.evidence \in Evidence
    BY BaseFacts, JournalTypeFacts DEF JournalIInv
  <1>2. /\ sink.open /\ Admits(Base, note.evidence)
        /\ sink.verifier = After(Base, note.evidence)
    BY DEF JournalIInv, SinkInv
  <1>3. Judged(Base, note.evidence, sink.verifier)
    BY <1>1, <1>2, Judgement
  <1>4. note.evidence.kind = "finished" /\ note.evidence.op = "action"
        /\ note.evidence.attempted = "unknown"
          => note.evidence.status = "failed"
    BY DEF JournalIInv, TransitInv, Answers
  <1> QED BY <1>1, <1>2, <1>3, <1>4, VerifierKept

\* What reading makes of a reference that the sink appends.
LEMMA Delivered ==
  ASSUME JournalIInv, note.step = "refer", log' = Append(log, Reference)
  PROVE  /\ log' \in Seq(AnyReference) /\ \E f : Reader(f, log')
         /\ Reading'.ok /\ Reading'.journal = sink.journal
         /\ Reading'.seq = sink.seq + 1 /\ Known' = sink.verifier
         /\ sink.journal \in 1..folders /\ log' # <<>>
         /\ Len(log) + 1 \in DOMAIN log' /\ log'[Len(log) + 1] = Reference
         /\ \A i \in DOMAIN log : i \in DOMAIN log' /\ log'[i] = log[i]
         /\ \A i \in DOMAIN log' : i \in DOMAIN log \/ i = Len(log) + 1
  <1> DEFINE e == note.evidence
  <1>t. /\ JournalTypes /\ ReadInv /\ log \in Seq(AnyReference)
        /\ sink.journal \in Nat /\ sink.seq \in Nat /\ e \in Evidence /\ folders \in Nat
    BY JournalTypeFacts DEF JournalIInv, JournalTypes
  <1>1. /\ Reference \in AnyReference
        /\ Reference.journal = sink.journal /\ Reference.seq = sink.seq + 1
        /\ Reference.evidence = e
    BY <1>t DEF Reference, AnyReference
  <1>2. /\ log' \in Seq(AnyReference) /\ \E f : Reader(f, log')
        /\ Reading' = ReadRecord(Reading, Reference)
    BY <1>t, <1>1, ReadingAppended DEF ReadInv
  <1>3. /\ InTransit /\ sink.open /\ Admits(Base, e) /\ sink.verifier = After(Base, e)
        /\ sink.journal = folders /\ folders > 0
    BY DEF JournalIInv, SinkInv, InTransit
  <1>4. /\ Reading'.journal = sink.journal /\ Reading'.seq = sink.seq + 1
    BY <1>1, <1>2 DEF ReadRecord
  <1>5. ASSUME sink.seq = 0 PROVE Reading'.ok /\ Known' = sink.verifier
    <2>1. Reading.journal < sink.journal /\ (log # <<>> => Complete(Known))
          /\ Base = NewVerifier
      BY <1>3, <1>5 DEF JournalIInv, SinkInv, Base
    <2>2. /\ Reading.ok /\ Reading.journal \in Nat /\ (Reading.journal = 0 <=> log = <<>>)
      BY <1>t DEF ReadInv
    <2>3. Reference.journal # Reading.journal /\ Reference.journal > Reading.journal
      BY <1>1, <1>t, <2>1, <2>2
    <2>4. Reference.seq = 1
      BY <1>1, <1>5
    <2>5. Reading.journal = 0 \/ Complete(Reading.verifier)
      BY <2>1, <2>2 DEF Known
    <2>6. Admits(NewVerifier, Reference.evidence)
          /\ sink.verifier = After(NewVerifier, Reference.evidence)
      BY <1>1, <1>3, <2>1
    <2>7. Reading'.ok
      BY <1>2, <2>2, <2>3, <2>4, <2>5, <2>6 DEF ReadRecord
    <2>8. Reading'.verifier = sink.verifier
      BY <1>2, <2>3, <2>6 DEF ReadRecord
    <2> QED BY <2>7, <2>8 DEF Known
  <1>6. ASSUME sink.seq > 0 PROVE Reading'.ok /\ Known' = sink.verifier
    <2>1. /\ Reading.journal = sink.journal /\ Reading.seq = sink.seq /\ Base = Known
          /\ Reading.ok
      BY <1>3, <1>6 DEF JournalIInv, SinkInv, Base, ReadInv
    <2>2. Reference.journal = Reading.journal /\ Reference.seq = Reading.seq + 1
      BY <1>1, <2>1
    <2>3. /\ Admits(Reading.verifier, Reference.evidence)
          /\ sink.verifier = After(Reading.verifier, Reference.evidence)
      BY <1>1, <1>3, <2>1 DEF Known
    <2>4. Reading'.ok
      BY <1>2, <2>1, <2>2, <2>3 DEF ReadRecord
    <2>5. Reading'.verifier = sink.verifier
      BY <1>2, <2>2, <2>3 DEF ReadRecord
    <2> QED BY <2>4, <2>5 DEF Known
  <1>7. Reading'.ok /\ Known' = sink.verifier
    BY <1>5, <1>6, <1>t
  <1>8. /\ log' # <<>> /\ Len(log) + 1 \in DOMAIN log' /\ log'[Len(log) + 1] = Reference
        /\ \A i \in DOMAIN log : i \in DOMAIN log' /\ log'[i] = log[i]
        /\ \A i \in DOMAIN log' : i \in DOMAIN log \/ i = Len(log) + 1
    <2> HIDE DEF e
    <2>1. Len(log) \in Nat /\ log' = Append(log, Reference) /\ Reference \in AnyReference
      BY <1>t, <1>1
    <2>2. Len(log') = Len(log) + 1 /\ DOMAIN log' = 1..(Len(log) + 1)
          /\ DOMAIN log = 1..Len(log)
      BY <1>t, <2>1
    <2> QED BY <1>t, <2>1, <2>2
  <1>9. sink.journal \in 1..folders
    BY <1>3, <1>t
  <1> QED BY <1>2, <1>4, <1>7, <1>8, <1>9

\* The log stays readable, and what it says of the device stays true.
LEMMA DeliveryKeepsRead ==
  ASSUME JournalIInv, note.step = "refer", log' = Append(log, Reference), UNCHANGED folders
  PROVE  ReadInv'
  <1>1. InTransit /\ folders \in Nat /\ sink.journal \in Nat /\ sink.seq \in Nat
    BY JournalTypeFacts DEF InTransit, JournalIInv
  <1>2. VerifierInv(sink.verifier) /\ sink.verifier \in Verifier
    BY <1>1, Judging, JournalTypeFacts DEF JournalIInv
  <1> QED BY <1>1, <1>2, Delivered DEF ReadInv

\* What was open before the record, and is not after it, the record settles.
LEMMA DeliveryKeepsFlight ==
  ASSUME JournalIInv, note.step = "refer", log' = Append(log, Reference),
         UNCHANGED <<flight, recording, sent, acted>>
  PROVE  FlightInv'
  <1> DEFINE e == note.evidence
  <1>t. /\ JournalTypes /\ ReadInv /\ SinkInv /\ SentInv /\ FlightInv /\ TransitInv
        /\ CallInv
        /\ InTransit /\ VerifierInv(Known)
    BY DEF JournalIInv, InTransit, ReadInv
  <1>1. /\ Reading'.journal = sink.journal /\ Known' = sink.verifier
        /\ sink.open /\ Judged(Base, e, Known')
    BY <1>t, Judging, Delivered
  <1>2. \A r \in flight : /\ r \in sent /\ r.journal # 0 /\ r.ord # 0 /\ r \in AnyMessage
                        /\ r.journal \in Nat /\ r.ord \in Nat
    BY <1>t, JournalTypeFacts DEF SentInv
  <1>3. recording # Silence => recording[1] # 0 /\ recording[2] # 0
    BY <1>t, JournalTypeFacts DEF SentInv
  <1>4. Message.journal = sink.journal /\ Message.op = call.op /\ Message.ord = call.ord
        /\ Message.cord = call.cord
    BY DEF Message
  <1>5. ASSUME sink.seq = 0, log = <<>> \/ Complete(Known)
        PROVE  recording = Silence /\ \A r \in flight : r.op # "action" /\ r.op # "start"
    <2>1. CASE log = <<>>
      <3>1. Reading.journal = 0
        BY <2>1, <1>t DEF ReadInv
      <3>2. recording = Silence
        BY <3>1, <1>3, <1>t DEF FlightInv
      <3>3. \A r \in flight : r.op # "action" /\ r.op # "start"
        BY <3>1, <1>2, <1>t DEF FlightInv, Unsettled
      <3> QED BY <3>2, <3>3
    <2>2. CASE Complete(Known)
      <3>1. Known.pending = 0 /\ ~Known.uncertain /\ Known.asked = NoCapture
            /\ Known.active = 0
        BY <2>2, CompleteFacts
      <3>2. \A r \in flight : r.op = "start" => r.cord # 0
        BY <1>2, <1>t DEF SentInv
      <3>3. recording = Silence
        BY <3>1, <1>3, <1>t DEF FlightInv, NoCapture
      <3>4. \A r \in flight : r.op # "action"
        BY <3>1, <1>2, <1>t DEF FlightInv, Unsettled
      <3>5. \A r \in flight : r.op # "start"
        <4>1. \A r \in flight : NoCapture # [op |-> "start", ord |-> r.ord, cord |-> r.cord]
          BY DEF NoCapture
        <4>2. \A r \in flight : r.op = "start" => Began(Known, r)
          BY <1>t DEF FlightInv
        <4> QED BY <3>1, <3>2, <4>1, <4>2 DEF Began
      <3> QED BY <3>3, <3>4, <3>5
    <2> QED BY <1>5, <2>1, <2>2
  <1>6. CASE sink.seq = 0
    <2>1. recording = Silence /\ \A r \in flight : r.op # "action" /\ r.op # "start"
      BY <1>5, <1>6, <1>1, <1>t DEF SinkInv
    <2> QED BY <2>1 DEF FlightInv
  <1>7. CASE sink.seq > 0
    <2>1. Base = Known /\ Reading.journal = sink.journal
      BY <1>1, <1>7, <1>t DEF Base, SinkInv
    <2>2. e.kind = "requested" \/ e.kind = "finished" => IsMessage(e)
      BY <1>t DEF TransitInv
    <2>3. e.kind = "finished" => Answers(e)
      BY <1>t DEF TransitInv
    <2>4. ASSUME NEW r \in flight, r.op = "action"
          PROVE  Unsettled(r.journal, r.ord)' /\ <<r.journal, r.ord>> \notin acted
      <3>1. /\ r.journal = Reading.journal /\ (Known.pending = r.ord \/ Known.uncertain)
            /\ <<r.journal, r.ord>> \notin acted /\ r.cord = 0 /\ r.ord # 0
        BY <1>2, <1>t, <2>4 DEF FlightInv, Unsettled, SentInv
      <3>2. Known'.pending = r.ord \/ Known'.uncertain
        <4>1. CASE OfObservation(Known, e, Known')
          BY <4>1, <3>1 DEF OfObservation, NewVerifier
        <4>2. CASE OfRequestedAction(Known, e, Known')
          BY <4>2, <3>1, <1>t DEF OfRequestedAction, VerifierInv
        <4>3. CASE OfFinishedAction(Known, e, Known')
          <5>1. Known.pending = r.ord /\ e.ord = r.ord
            BY <4>3, <3>1, <1>t DEF OfFinishedAction, VerifierInv
          <5>2. Message = r /\ call.op = "action"
            <6>1. Message.journal = r.journal /\ Message.op = r.op
                  /\ Message.ord = r.ord /\ Message.cord = r.cord
              BY <1>4, <1>t, <2>1, <2>2, <2>4, <3>1, <4>3, <5>1 DEF OfFinishedAction,
                 IsMessage, CallInv
            <6>2. r \in AnyMessage
              BY <1>2
            <6> QED BY <6>1, <6>2, <2>4 DEF AnyMessage, Message
          <5>3. e.attempted = "unknown"
            BY <2>3, <2>4, <4>3, <5>2 DEF OfFinishedAction, Answers
          <5> QED BY <4>3, <5>3 DEF OfFinishedAction
        <4>4. CASE OfRequestedCapture(Known, e, Known')
          BY <4>4, <3>1 DEF OfRequestedCapture
        <4>5. CASE OfFinishedCapture(Known, e, Known')
          BY <4>5, <3>1 DEF OfFinishedCapture
        <4> QED BY <1>1, <2>1, <4>1, <4>2, <4>3, <4>4, <4>5 DEF Judged
      <3> QED BY <1>1, <2>1, <3>1, <3>2 DEF Unsettled
    <2>5. ASSUME NEW r \in flight, r.op = "start"
          PROVE  r.journal = Reading'.journal /\ Began(Known', r)
                 /\ recording # <<r.journal, r.cord>>
      <3>1. /\ r.journal = Reading.journal /\ Began(Known, r)
            /\ recording # <<r.journal, r.cord>>
            /\ r.cord = r.ord /\ r.cord # 0
        BY <1>2, <1>t, <2>5 DEF FlightInv, SentInv
      <3>2. Began(Known', r)
        <4> USE DEF Began, NoCapture
        <4>1. CASE OfObservation(Known, e, Known')
          BY <4>1, <3>1 DEF OfObservation, NewVerifier
        <4>2. CASE OfRequestedAction(Known, e, Known')
          BY <4>2, <3>1 DEF OfRequestedAction
        <4>3. CASE OfFinishedAction(Known, e, Known')
          BY <4>3, <3>1 DEF OfFinishedAction
        <4>4. CASE OfRequestedCapture(Known, e, Known')
          BY <4>4, <3>1 DEF OfRequestedCapture
        <4>5. CASE OfFinishedCapture(Known, e, Known')
          <5>1. CASE Known.asked = [op |-> "start", ord |-> r.ord, cord |-> r.cord]
            <6>1. e.op = "start" /\ e.ord = r.ord /\ Known.asked.cord = r.cord
              BY <4>5, <5>1 DEF OfFinishedCapture
            <6>2. e.cord = r.cord
              BY <2>3, <4>5, <5>1, <6>1 DEF OfFinishedCapture, Answers, Agrees
            <6>3. Message = r
              <7>1. Message.journal = r.journal /\ Message.op = r.op
                    /\ Message.ord = r.ord /\ Message.cord = r.cord
                BY <1>4, <2>1, <2>2, <2>5, <3>1, <4>5, <6>1, <6>2 DEF OfFinishedCapture,
                   IsMessage
              <7>2. r \in AnyMessage
                BY <1>2
              <7> QED BY <7>1, <7>2, <2>5 DEF AnyMessage, Message
            <6>4. ~(e.started = "none" \/ e.receipt.stopped)
              BY <2>3, <2>5, <4>5, <6>1, <6>3 DEF OfFinishedCapture, Answers
            <6> QED BY <4>5, <6>1, <6>4 DEF OfFinishedCapture
          <5>2. CASE Known.asked # [op |-> "start", ord |-> r.ord, cord |-> r.cord]
            <6>1. Known.active = r.cord /\ Known.active # 0
              BY <3>1, <5>2
            <6>2. e.op # "start"
              BY <4>5, <6>1, <1>t DEF OfFinishedCapture, VerifierInv
            <6>3. ~(e.op = "stop" /\ e.receipt.stopped)
              BY <2>3, <2>5, <4>5 DEF OfFinishedCapture, Answers
            <6> QED BY <4>5, <6>1, <6>2, <6>3 DEF OfFinishedCapture
          <5> QED BY <5>1, <5>2
        <4> QED BY <1>1, <2>1, <4>1, <4>2, <4>3, <4>4, <4>5 DEF Judged
      <3> QED BY <1>1, <2>1, <3>1, <3>2
    <2>6. ASSUME recording # Silence
          PROVE  /\ recording[1] = Reading'.journal
                 /\ \/ Known'.active = recording[2]
                    \/ Known'.asked.op = "start" /\ Known'.asked.cord = recording[2]
      <3>1. /\ recording[1] = Reading.journal /\ recording[2] # 0
            /\ \/ Known.active = recording[2]
               \/ Known.asked.op = "start" /\ Known.asked.cord = recording[2]
        BY <1>3, <1>t, <2>6 DEF FlightInv
      <3>2. \/ Known'.active = recording[2]
            \/ Known'.asked.op = "start" /\ Known'.asked.cord = recording[2]
        <4> USE DEF NoCapture
        <4>1. CASE OfObservation(Known, e, Known')
          BY <4>1, <3>1 DEF OfObservation, NewVerifier
        <4>2. CASE OfRequestedAction(Known, e, Known')
          BY <4>2, <3>1 DEF OfRequestedAction
        <4>3. CASE OfFinishedAction(Known, e, Known')
          BY <4>3, <3>1 DEF OfFinishedAction
        <4>4. CASE OfRequestedCapture(Known, e, Known')
          BY <4>4, <3>1 DEF OfRequestedCapture
        <4>5. CASE OfFinishedCapture(Known, e, Known')
          <5>1. CASE Known.asked.op = "start" /\ Known.asked.cord = recording[2]
            <6>1. e.op = "start"
              BY <4>5, <5>1 DEF OfFinishedCapture
            <6>2. e.cord = recording[2]
              BY <2>3, <4>5, <5>1, <6>1 DEF OfFinishedCapture, Answers, Agrees
            <6>3. recording = <<sink.journal, e.cord>>
              BY <1>t, <2>1, <3>1, <6>2 DEF JournalTypes
            <6>4. ~(e.started = "none" \/ e.receipt.stopped)
              BY <2>3, <4>5, <6>1, <6>3 DEF OfFinishedCapture, Answers
            <6> QED BY <4>5, <5>1, <6>1, <6>4 DEF OfFinishedCapture
          <5>2. CASE ~(Known.asked.op = "start" /\ Known.asked.cord = recording[2])
            <6>1. Known.active = recording[2] /\ Known.active # 0
              BY <3>1, <5>2
            <6>2. e.op # "start"
              BY <4>5, <6>1, <1>t DEF OfFinishedCapture, VerifierInv
            <6>3. ~(e.op = "stop" /\ e.receipt.stopped)
              BY <2>3, <2>6, <4>5 DEF OfFinishedCapture, Answers
            <6> QED BY <4>5, <6>1, <6>2, <6>3 DEF OfFinishedCapture
          <5> QED BY <5>1, <5>2
        <4> QED BY <1>1, <2>1, <4>1, <4>2, <4>3, <4>4, <4>5 DEF Judged
      <3> QED BY <1>1, <2>1, <3>1, <3>2
    <2> QED BY <2>4, <2>5, <2>6 DEF FlightInv
  <1> QED BY <1>6, <1>7, <1>t, JournalTypeFacts

\* And it says of the device what is so.
LEMMA DeliveryKeepsTruth ==
  ASSUME JournalIInv, note.step = "refer", log' = Append(log, Reference),
         UNCHANGED <<flight, recording, sent, acted>>
  PROVE  TruthInv'
  <1> DEFINE e == note.evidence
             m == Len(log) + 1
  <1>t. /\ JournalTypes /\ ReadInv /\ SinkInv /\ SentInv /\ TruthInv /\ TransitInv
        /\ InTransit /\ VerifierInv(Known)
    BY DEF JournalIInv, InTransit, ReadInv
  <1>1. /\ Reading'.journal = sink.journal /\ Known' = sink.verifier
        /\ sink.open /\ Judged(Base, e, Known') /\ acted' = acted
    BY <1>t, Judging, Delivered
  <1>2. /\ m \in DOMAIN log' /\ log'[m].journal = sink.journal /\ log'[m].evidence = e
        /\ \A i \in DOMAIN log : i \in DOMAIN log' /\ log'[i] = log[i]
        /\ \A i \in DOMAIN log' : i \in DOMAIN log \/ i = m
    BY Delivered DEF Reference
  <1>3. e.kind = "finished" => Answers(e)
    BY <1>t DEF TransitInv
  <1> HIDE DEF m
  <1>4. ASSUME sink.seq = 0, NEW j \in Nat, NEW o \in Nat, o # 0, log # <<>>
        PROVE  ~Unsettled(j, o)
    <2>1. Complete(Known)
      BY <1>1, <1>4, <1>t DEF SinkInv
    <2> QED BY <2>1, <1>4, CompleteFacts DEF Unsettled
  <1>5. ASSUME NEW j \in Nat, NEW o \in Nat, o # 0, Unsettled(j, o), log # <<>>
        PROVE  \/ Unsettled(j, o)'
               \/ /\ e.kind = "finished" /\ e.op = "action" /\ e.ord = o /\ j = sink.journal
                  /\ e.attempted # "unknown"
    <2>1. sink.seq # 0
      BY <1>4, <1>5
    <2>2. Base = Known /\ j = sink.journal /\ Reading.journal = sink.journal
          /\ (Known.pending = o \/ Known.uncertain)
      BY <1>1, <1>5, <1>t, <2>1, JournalTypeFacts DEF Base, SinkInv, Unsettled
    <2>3. CASE OfObservation(Known, e, Known')
      BY <2>3, <2>2, <1>5 DEF OfObservation, NewVerifier
    <2>4. CASE OfRequestedAction(Known, e, Known')
      BY <2>4, <2>2, <1>5, <1>t DEF OfRequestedAction, VerifierInv
    <2>5. CASE OfFinishedAction(Known, e, Known')
      BY <2>5, <2>2, <1>1, <1>5, <1>t DEF OfFinishedAction, VerifierInv, Unsettled
    <2>6. CASE OfRequestedCapture(Known, e, Known')
      BY <2>6, <2>2, <1>1, <1>5 DEF OfRequestedCapture, Unsettled
    <2>7. CASE OfFinishedCapture(Known, e, Known')
      BY <2>7, <2>2, <1>1, <1>5 DEF OfFinishedCapture, Unsettled
    <2> QED BY <1>1, <2>2, <2>3, <2>4, <2>5, <2>6, <2>7 DEF Judged
  <1>6. ASSUME NEW i \in DOMAIN log',
               log'[i].evidence.kind = "finished", log'[i].evidence.op = "action",
               log'[i].evidence.attempted = "yes"
        PROVE  <<log'[i].journal, log'[i].evidence.ord>> \in acted
    <2>1. CASE i \in DOMAIN log
      BY <1>2, <1>6, <1>t, <2>1 DEF TruthInv
    <2>2. CASE i = m
      BY <1>2, <1>3, <1>6, <2>2 DEF Answers
    <2> QED BY <1>2, <2>1, <2>2
  <1>7. ASSUME NEW a \in acted
        PROVE  SaysDone(a[1], a[2])' \/ Unsettled(a[1], a[2])'
    <2>1. /\ a[1] \in Nat /\ a[2] \in Nat /\ a = <<a[1], a[2]>> /\ a[1] # 0 /\ a[2] # 0
          /\ \E r \in sent : r.journal = a[1] /\ r.op # "stop"
      <3>1. a \in Nat \X Nat
        BY <1>t DEF JournalTypes
      <3>2. PICK r \in sent : r.op = "action" /\ r.journal = a[1] /\ r.ord = a[2]
        BY <1>t DEF SentInv
      <3>3. r.journal \in 1..folders /\ r.ord > 0 /\ r.ord \in Nat /\ folders \in Nat
        BY <1>t, JournalTypeFacts DEF SentInv
      <3> QED BY <3>1, <3>2, <3>3
    <2>2. log # <<>>
      <3>1. \E i \in DOMAIN log : TRUE
        BY <1>t, <2>1 DEF SentInv
      <3> QED BY <3>1
    <2>3. CASE SaysDone(a[1], a[2])
      BY <1>2, <2>3 DEF SaysDone
    <2>4. CASE Unsettled(a[1], a[2])
      <3>1. CASE Unsettled(a[1], a[2])'
        BY <3>1
      <3>2. CASE /\ e.kind = "finished" /\ e.op = "action" /\ e.ord = a[2]
                 /\ a[1] = sink.journal
                 /\ e.attempted # "unknown"
        <4>1. e.attempted = "yes"
          BY <1>3, <2>1, <3>2 DEF Answers
        <4> QED BY <1>2, <3>2, <4>1 DEF SaysDone
      <3> QED BY <1>5, <2>1, <2>2, <2>4, <3>1, <3>2
    <2> QED BY <1>t, <2>3, <2>4 DEF TruthInv
  <1>8. ASSUME NEW i \in DOMAIN log', NEW j, NEW o,
               j = log'[i].journal, o = log'[i].evidence.ord,
               log'[i].evidence.kind = "requested", log'[i].evidence.op = "action"
        PROVE  o > 0 /\ (Told(j, o)' \/ Unsettled(j, o)')
    <2>1. CASE i \in DOMAIN log
      <3>1. /\ o > 0 /\ log # <<>> /\ (Told(j, o) \/ Unsettled(j, o))
        BY <1>2, <1>8, <1>t, <2>1 DEF TruthInv
      <3>2. j \in Nat /\ o \in Nat /\ o # 0
        BY <1>2, <1>8, <1>t, <2>1, <3>1, JournalTypeFacts, EvidenceFacts
      <3>3. CASE Told(j, o)
        BY <1>2, <3>1, <3>3 DEF Told
      <3>4. CASE Unsettled(j, o)
        <4>1. CASE /\ e.kind = "finished" /\ e.op = "action" /\ e.ord = o
                   /\ j = sink.journal
                   /\ e.attempted # "unknown"
          <5>1. Told(j, o)'
            BY <1>2, <4>1 DEF Told
          <5> QED BY <3>1, <5>1
        <4> QED BY <1>5, <3>1, <3>2, <3>4, <4>1
      <3> QED BY <3>1, <3>3, <3>4
    <2>2. CASE i = m
      <3>1. e.kind = "requested" /\ e.op = "action" /\ j = sink.journal /\ o = e.ord
        BY <1>2, <1>8, <2>2
      <3>2. OfRequestedAction(Base, e, Known')
        BY <1>1, <3>1 DEF Judged, OfObservation, OfFinishedAction, OfRequestedCapture,
           OfFinishedCapture
      <3> QED BY <1>1, <3>1, <3>2 DEF OfRequestedAction, Unsettled
    <2> QED BY <1>2, <2>1, <2>2
  <1>9. \A i \in DOMAIN log' : log'[i].evidence.kind = "requested"
        /\ log'[i].evidence.op = "action" =>
          /\ log'[i].evidence.ord > 0
          /\ \/ \E k \in DOMAIN log' :
                  /\ log'[k].journal = log'[i].journal /\ log'[k].evidence.kind = "finished"
                  /\ log'[k].evidence.op = "action"
                  /\ log'[k].evidence.ord = log'[i].evidence.ord
                  /\ log'[k].evidence.attempted # "unknown"
             \/ /\ log'[i].journal = Reading'.journal
                /\ Known'.pending = log'[i].evidence.ord \/ Known'.uncertain
    BY <1>8 DEF Told, Unsettled
  <1> QED BY <1>1, <1>6, <1>7, <1>9 DEF TruthInv, Told, Unsettled, SaysDone

\* A journal's requests stay where they are.
LEMMA SentKept ==
  ASSUME JournalIInv, UNCHANGED <<folders, flight, recording, sent, acted>>,
         \A i \in DOMAIN log : i \in DOMAIN log' /\ log'[i] = log[i],
         \/ /\ sink'.journal = sink.journal
            /\ ordinals'.actions \in Nat /\ ordinals'.actions >= ordinals.actions
            /\ ordinals'.captures \in Nat /\ ordinals'.captures >= ordinals.captures
         \/ sink'.journal = 0
  PROVE  SentInv'
  <1>t. JournalTypes /\ SentInv
    BY DEF JournalIInv
  <1>1. ASSUME NEW r \in sent
        PROVE  /\ r.journal \in 1..folders /\ r.ord > 0
               /\ r.op = "action" => r.cord = 0
               /\ r.op = "start" => r.cord = r.ord
               /\ r.op # "stop" => \E i \in DOMAIN log' : IsRecord(i, "requested", r)'
               /\ r.journal = sink'.journal =>
                    r.ord <= IF r.op = "action" THEN ordinals'.actions ELSE ordinals'.captures
    <2>1. /\ r.journal \in 1..folders /\ r.ord > 0
          /\ r.op = "action" => r.cord = 0
          /\ r.op = "start" => r.cord = r.ord
          /\ r.op # "stop" => \E i \in DOMAIN log : IsRecord(i, "requested", r)
          /\ r.journal = sink.journal =>
               r.ord <= IF r.op = "action" THEN ordinals.actions ELSE ordinals.captures
      BY <1>t DEF SentInv
    <2>2. r.op # "stop" => \E i \in DOMAIN log' : IsRecord(i, "requested", r)'
      BY <2>1 DEF IsRecord
    <2>3. /\ folders \in Nat /\ r.ord \in Nat /\ r.journal \in Nat
          /\ ordinals.actions \in Nat /\ ordinals.captures \in Nat
      BY <1>t, JournalTypeFacts
    <2>4. r.journal = sink'.journal =>
            r.ord <= IF r.op = "action" THEN ordinals'.actions ELSE ordinals'.captures
      BY <2>1, <2>3
    <2> QED BY <2>1, <2>2, <2>4
  <1> QED BY <1>1, <1>t DEF SentInv

-----------------------------------------------------------------------------
(* The journal: what the actions have in common.                           *)

\* Nothing is written to the log, and the device does nothing.
LEMMA LogLeft ==
  ASSUME JournalIInv, UNCHANGED <<log, folders, device>>
  PROVE  ReadInv' /\ FlightInv' /\ TruthInv'
  <1>1. Reading' = Reading /\ Known' = Known
    BY ReadingLeft
  <1>2. ReadInv'
    BY <1>1 DEF JournalIInv, ReadInv
  <1>3. FlightInv'
    BY <1>1 DEF JournalIInv, FlightInv, Unsettled, device
  <1>4. TruthInv'
    BY <1>1 DEF JournalIInv, TruthInv, Unsettled, Told, SaysDone, device
  <1> QED BY <1>2, <1>3, <1>4

\* No record, no receipt.
LEMMA BlankFacts ==
  /\ NoReceipt \in Answered /\ ~NoReceipt.stopped /\ ~NoReceipt.given
  /\ Blank \in Evidence /\ Blank.kind = "observation"
  /\ NoNote.step = "none" /\ NoNote.evidence = Blank
  /\ NoNote \in [step : {"none", "publish", "refer", "written", "refused"},
                 evidence : Evidence]
  <1>1. NoReceipt \in Answered /\ ~NoReceipt.stopped /\ ~NoReceipt.given
    BY DEF NoReceipt, Answered
  <1>2. Blank \in AnyEvidence /\ Blank.kind = "observation" /\ Blank.op = "none"
    BY <1>1 DEF Blank, AnyEvidence
  <1>3. Blank \in Evidence
    BY <1>2 DEF Evidence
  <1> QED BY <1>1, <1>2, <1>3 DEF NoNote

\* A record of the operation under way.
LEMMA RecordFacts ==
  ASSUME NEW k \in {"requested", "finished"},
         NEW op \in {"action", "screenshot", "start", "stop"}, NEW ord \in Nat,
         NEW cord \in Nat,
         NEW t \in Stamp
  PROVE  LET e == RecordOf(k, op, ord, cord, t)
         IN  e \in Evidence /\ e.kind = k /\ e.op = op /\ e.ord = ord /\ e.cord = cord
  <1> DEFINE e == RecordOf(k, op, ord, cord, t)
  <1>1. Blank \in AnyEvidence
    BY BlankFacts DEF Evidence
  <1>2. e \in AnyEvidence /\ e.kind = k /\ e.op = op /\ e.ord = ord /\ e.cord = cord
    BY <1>1 DEF AnyEvidence, Stamp, RecordOf
  <1> HIDE DEF e
  <1>3. e \in Evidence
    BY <1>2 DEF Evidence
  <1> QED BY <1>2, <1>3 DEF e

\* No operation.
LEMMA NoCallFacts ==
  /\ NoCall \in AnyCall /\ NoCall.op = "none" /\ NoCall.step = "none" /\ NoCall.ord = 0
  /\ NoCall.receipt = NoReceipt /\ ~NoCall.prepared
  BY BlankFacts DEF NoCall, AnyCall

\* A record is handed to the sink.
LEMMA Submitted ==
  ASSUME JournalIInv, ~InTransit, NEW e \in Evidence, Submit(e),
         UNCHANGED <<log, runner, folders>>
  PROVE  /\ sink' \in [journal : Nat, seq : Nat, open : BOOLEAN, verifier : Verifier]
         /\ note' \in [step : {"none", "publish", "refer", "written", "refused"},
                       evidence : Evidence]
         /\ SinkInv' /\ note'.evidence = e
         /\ sink'.journal = sink.journal /\ sink'.seq = sink.seq
         /\ note'.step \in {"publish", "refused"} /\ (note'.step = "publish" => sink.open)
  <1>t. /\ JournalTypes /\ SinkInv /\ ReadInv
        /\ sink \in [journal : Nat, seq : Nat, open : BOOLEAN, verifier : Verifier]
        /\ Base \in Verifier /\ VerifierInv(Base)
    BY BaseFacts DEF JournalIInv, JournalTypes
  <1>r. Reading' = Reading /\ Known' = Known
    BY ReadingLeft
  <1>1. CASE sink.open /\ Admits(sink.verifier, e)
    <2> DEFINE w == After(sink.verifier, e)
    <2>1. note' = [step |-> "publish", evidence |-> e]
          /\ sink' = [sink EXCEPT !.verifier = w]
      BY <1>1 DEF Submit
    <2>2. sink.verifier = Base /\ w = After(Base, e) /\ Admits(Base, e)
      BY <1>1, <1>t DEF SinkInv
    <2>3. w \in Verifier
      BY <1>t, <2>2, Judgement
    <2> HIDE DEF w
    <2>4. /\ sink' \in [journal : Nat, seq : Nat, open : BOOLEAN, verifier : Verifier]
          /\ sink'.verifier = w /\ sink'.open /\ sink'.journal = sink.journal
          /\ sink'.seq = sink.seq
      BY <1>1, <1>t, <2>1, <2>3
    <2>5. /\ note' \in [step : {"none", "publish", "refer", "written", "refused"},
                        evidence : Evidence]
          /\ note'.step = "publish" /\ note'.evidence = e
      BY <2>1
    <2>6. Base' = Base /\ InTransit'
      BY <2>4, <2>5, <1>r DEF Base, InTransit
    <2>7. SinkInv'
      BY <1>1, <1>t, <1>r, <2>2, <2>4, <2>5, <2>6 DEF SinkInv, w
    <2> QED BY <1>1, <2>4, <2>5, <2>7
  <1>2. CASE ~(sink.open /\ Admits(sink.verifier, e))
    <2>1. note' = [step |-> "refused", evidence |-> e]
          /\ sink' = [sink EXCEPT !.open = FALSE]
      BY <1>2 DEF Submit
    <2>2. /\ sink' \in [journal : Nat, seq : Nat, open : BOOLEAN, verifier : Verifier]
          /\ ~sink'.open /\ sink'.journal = sink.journal /\ sink'.seq = sink.seq
      BY <1>t, <2>1
    <2>3. /\ note' \in [step : {"none", "publish", "refer", "written", "refused"},
                        evidence : Evidence]
          /\ note'.step = "refused" /\ note'.evidence = e
      BY <2>1
    <2>4. SinkInv'
      BY <1>t, <2>2, <2>3 DEF SinkInv, InTransit
    <2> QED BY <2>2, <2>3, <2>4
  <1> QED BY <1>1, <1>2

\* The record is refused, or was not published in time.
LEMMA Refused ==
  ASSUME JournalIInv, Refuse, UNCHANGED <<runner, folders>>
  PROVE  /\ sink' \in [journal : Nat, seq : Nat, open : BOOLEAN, verifier : Verifier]
         /\ note' \in [step : {"none", "publish", "refer", "written", "refused"},
                       evidence : Evidence]
         /\ SinkInv'
         /\ sink'.journal = sink.journal /\ sink'.seq = sink.seq /\ ~sink'.open
         /\ note'.step = "refused" /\ note'.evidence = note.evidence
  BY DEF JournalIInv, JournalTypes, Refuse, SinkInv, InTransit

\* The process is gone, and the log has not changed or has got the record
\* that was on its way.
LEMMA GoneKeeps ==
  ASSUME JournalIInv, Leave, UNCHANGED <<folders, device>>,
         session' \in {"draft", "running", "paused", "over"},
         log' = log \/ (note.step = "refer" /\ log' = Append(log, Reference))
  PROVE  JournalIInv'
  <1> USE DEF device
  <1>t. JournalTypes /\ SentInv
    BY DEF JournalIInv
  <1>a. /\ runner' = "off" /\ sink' = NoSink /\ note' = NoNote /\ call' = NoCall
        /\ ordinals' = NoOrdinals /\ active' = 0
    BY DEF Leave
  <1>b. /\ sink'.journal = 0 /\ ~sink'.open
        /\ sink' \in [journal : Nat, seq : Nat, open : BOOLEAN, verifier : Verifier]
        /\ ordinals' \in [actions : Nat, captures : Nat]
    BY <1>a, NewVerifierInv DEF NoSink, NoOrdinals
  <1>1. /\ ReadInv' /\ FlightInv' /\ TruthInv' /\ log' \in Seq(AnyReference)
        /\ \A i \in DOMAIN log : i \in DOMAIN log' /\ log'[i] = log[i]
    <2>1. CASE log' = log
      BY <2>1, <1>t, LogLeft DEF JournalTypes
    <2>2. CASE note.step = "refer" /\ log' = Append(log, Reference)
      BY <2>2, Delivered, DeliveryKeepsRead, DeliveryKeepsFlight, DeliveryKeepsTruth
    <2> QED BY <2>1, <2>2
  <1>2. JournalTypes'
    BY <1>1, <1>a, <1>b, <1>t, BlankFacts, NoCallFacts DEF JournalTypes
  <1>3. SentInv'
    BY <1>1, <1>b, SentKept
  <1>4. SinkInv' /\ TransitInv' /\ CallInv' /\ StepInv'
    BY <1>a, <1>b, BlankFacts, NoCallFacts DEF SinkInv, InTransit, TransitInv, CallInv,
       StepInv, NoCall
  <1> QED BY <1>1, <1>2, <1>3, <1>4 DEF JournalIInv

\* A request, and the record of it on its way to the sink.
LEMMA RequestKeeps ==
  ASSUME JournalIInv, ~InTransit, runner = "ready", session = "running",
         NEW op \in {"action", "screenshot", "start", "stop"}, NEW ord \in Nat,
         NEW cord \in Nat,
         NEW t \in Stamp,
         ord = (IF op = "action" THEN ordinals.actions ELSE ordinals.captures) + 1,
         op = "action" => cord = 0, op = "start" => cord = ord,
         Request(op, ord, cord, t),
         UNCHANGED <<disk, runner, active, device>>
  PROVE  JournalIInv'
  <1> USE DEF disk, device
  <1>t. /\ JournalTypes /\ SentInv /\ ordinals \in [actions : Nat, captures : Nat]
        /\ ordinals.actions \in Nat /\ ordinals.captures \in Nat
        /\ \A r \in sent : r.ord \in Nat
    BY JournalTypeFacts DEF JournalIInv, JournalTypes
  <1> DEFINE e == RecordOf("requested", op, ord, cord, t)
             c == [NoCall EXCEPT !.op = op, !.ord = ord, !.cord = cord, !.step = "request"]
             o == IF op = "action" THEN [ordinals EXCEPT !.actions = ord]
                                   ELSE [ordinals EXCEPT !.captures = ord]
  <1>1. e \in Evidence /\ e.kind = "requested" /\ e.op = op /\ e.ord = ord /\ e.cord = cord
    BY RecordFacts
  <1>2. /\ c \in AnyCall /\ c.op = op /\ c.ord = ord /\ c.cord = cord /\ c.step = "request"
        /\ c.receipt = NoReceipt
    <2>1. NoCall \in AnyCall /\ NoCall.receipt = NoReceipt
      BY NoCallFacts
    <2> QED BY <2>1 DEF AnyCall
  <1>3. /\ o \in [actions : Nat, captures : Nat]
        /\ op = "action" => o.actions = ord /\ o.captures = ordinals.captures
        /\ op # "action" => o.captures = ord /\ o.actions = ordinals.actions
    BY <1>t
  <1>4. call' = c /\ ordinals' = o /\ Submit(e)
    BY DEF Request
  <1> HIDE DEF e, c, o
  <1>5. /\ sink' \in [journal : Nat, seq : Nat, open : BOOLEAN, verifier : Verifier]
        /\ note' \in [step : {"none", "publish", "refer", "written", "refused"},
                      evidence : Evidence]
        /\ SinkInv' /\ note'.evidence = e
        /\ sink'.journal = sink.journal /\ note'.step \in {"publish", "refused"}
    BY <1>1, <1>4, Submitted
  <1>6. ReadInv' /\ FlightInv' /\ TruthInv'
    BY LogLeft
  <1>7. JournalTypes'
    BY <1>t, <1>2, <1>3, <1>4, <1>5 DEF JournalTypes
  <1>8. SentInv'
    <2>1. /\ ordinals'.actions \in Nat /\ ordinals'.actions >= ordinals.actions
          /\ ordinals'.captures \in Nat /\ ordinals'.captures >= ordinals.captures
      BY <1>3, <1>4, <1>t
    <2> QED BY <2>1, <1>5, SentKept
  <1>9. ord > 0 /\ call' # NoCall
    BY <1>2, <1>4, <1>t, NoCallFacts
  <1>10. TransitInv'
    BY <1>1, <1>2, <1>4, <1>5 DEF TransitInv, InTransit, IsMessage
  <1>11. CallInv'
    BY <1>2, <1>4, <1>9 DEF CallInv
  <1>12. StepInv'
    <2>1. \A r \in sent : r.journal = sink.journal
          /\ (r.op = "action" <=> op = "action") => r.ord < ord
      BY <1>t DEF SentInv
    <2>2. ord = IF op = "action" THEN ordinals'.actions ELSE ordinals'.captures
      BY <1>3, <1>4
    <2> QED BY <1>2, <1>4, <1>5, <2>1, <2>2 DEF StepInv, Sending, Written
  <1> QED BY <1>5, <1>6, <1>7, <1>8, <1>10, <1>11, <1>12 DEF JournalIInv

\* The operation comes back to its caller.
LEMMA BackKeeps ==
  ASSUME JournalIInv, runner = "ready", call' = NoCall, note' = NoNote, ~InTransit,
         UNCHANGED <<disk, runner, sink, ordinals, active, device>>
  PROVE  JournalIInv'
  <1> USE DEF disk, device
  <1>t. JournalTypes /\ ordinals.actions \in Nat /\ ordinals.captures \in Nat
    BY JournalTypeFacts DEF JournalIInv
  <1>1. ReadInv' /\ FlightInv' /\ TruthInv'
    BY LogLeft
  <1>2. JournalTypes'
    BY <1>t, BlankFacts, NoCallFacts DEF JournalTypes
  <1>3. SentInv'
    BY <1>t, SentKept
  <1>4. SinkInv'
    <2>1. Reading' = Reading /\ Known' = Known
      BY ReadingLeft
    <2>2. ~InTransit' /\ note'.step = "none" /\ Base' = Base
      BY <2>1, BlankFacts DEF InTransit, Base
    <2> QED BY <2>1, <2>2 DEF JournalIInv, SinkInv
  <1>5. TransitInv' /\ CallInv' /\ StepInv'
    BY BlankFacts, NoCallFacts DEF TransitInv, InTransit, CallInv, StepInv
  <1> QED BY <1>1, <1>2, <1>3, <1>4, <1>5 DEF JournalIInv

\* A failed capture: what it may have left running is stopped.
LEMMA AbandonKeeps ==
  ASSUME JournalIInv, ~InTransit, runner = "ready", session = "running", NEW op,
         Abandon(op),
         UNCHANGED <<disk, runner, active, device>>
  PROVE  JournalIInv'
  <1>1. CASE active # 0 /\ op \in {"start", "screenshot"}
    <2>1. PICK t \in Stamp : Request("stop", ordinals.captures + 1, active, t)
      BY <1>1 DEF Abandon
    <2>2. active \in Nat /\ ordinals.captures \in Nat /\ ordinals.captures + 1 \in Nat
      BY JournalTypeFacts DEF JournalIInv
    <2> QED BY <2>1, <2>2, RequestKeeps
  <1>2. CASE ~(active # 0 /\ op \in {"start", "screenshot"})
    BY <1>2, BackKeeps DEF Abandon
  <1> QED BY <1>1, <1>2

\* A request is known by its journal, its operation and its ordinals.
LEMMA SameMessage ==
  ASSUME NEW r \in AnyMessage, NEW s \in AnyMessage,
         s.journal = r.journal, s.op = r.op, s.ord = r.ord, s.cord = r.cord
  PROVE  s = r
  BY DEF AnyMessage

\* What the device can answer to a request.
LEMMA OutcomeFacts ==
  ASSUME NEW r \in AnyMessage, NEW o \in Outcomes(r)
  PROVE  /\ o \in Answered /\ o.given /\ o.attempted \in {"yes", "no"} /\ o.at = "in"
         /\ r.op = "start" => recording = Silence
         /\ r.op = "stop" => recording = <<r.journal, r.cord>>
  <1>1. r.op \in {"action", "screenshot", "start", "stop"}
    BY DEF AnyMessage
  <1>2. \A k \in BOOLEAN, a \in {"yes", "no"}, s \in BOOLEAN :
          LET x == Outcome(k, a, s)
          IN  x \in Answered /\ x.given /\ x.attempted \in {"yes", "no"} /\ x.at = "in"
    BY DEF Outcome, Answered
  <1>3. \E k \in BOOLEAN, a \in {"yes", "no"}, s \in BOOLEAN : o = Outcome(k, a, s)
    <2>1. CASE r.op = "action"
      BY <2>1 DEF Outcomes, Cleanup
    <2>2. CASE r.op = "screenshot"
      BY <2>2 DEF Outcomes, Cleanup
    <2>3. CASE r.op = "start"
      BY <2>3 DEF Outcomes, Cleanup
    <2>4. CASE r.op = "stop"
      BY <2>4 DEF Outcomes, Cleanup
    <2> QED BY <1>1, <2>1, <2>2, <2>3, <2>4
  <1>4. /\ r.op = "start" => recording = Silence
        /\ r.op = "stop" => recording = <<r.journal, r.cord>>
    BY DEF Outcomes, Cleanup
  <1> QED BY <1>2, <1>3, <1>4

\* The device carries a request out.
LEMMA CarryKeeps ==
  ASSUME JournalIInv, NEW r \in flight, NEW o \in Outcomes(r), Carry(r, o),
         UNCHANGED <<log, folders, ordinals>>, sink'.journal = sink.journal
  PROVE  /\ flight' \subseteq AnyMessage /\ sent' \subseteq AnyMessage
         /\ recording' \in Nat \X Nat /\ acted' \subseteq Nat \X Nat
         /\ SentInv' /\ FlightInv' /\ TruthInv'
  <1>t. /\ JournalTypes /\ SentInv /\ FlightInv /\ TruthInv /\ r \in sent
        /\ r \in AnyMessage
        /\ r.journal \in Nat /\ r.ord \in Nat /\ r.cord \in Nat /\ r.journal # 0
        /\ Silence = <<0, 0>>
    BY JournalTypeFacts DEF JournalIInv, SentInv, Silence
  <1>r. Reading' = Reading /\ Known' = Known
    BY ReadingLeft
  <1>a. /\ flight' = flight \ {r} /\ sent' = sent
        /\ \/ acted' = acted
           \/ r.op = "action" /\ acted' = acted \cup {<<r.journal, r.ord>>}
        /\ \/ recording' = recording
           \/ recording' = Silence
           \/ r.op = "start" /\ recording' = <<r.journal, r.cord>>
    BY DEF Carry
  <1>1. /\ flight' \subseteq AnyMessage /\ sent' \subseteq AnyMessage
        /\ recording' \in Nat \X Nat /\ acted' \subseteq Nat \X Nat
    BY <1>a, <1>t DEF JournalTypes
  <1>2. SentInv'
    <2>1. ASSUME NEW a \in acted'
          PROVE  \E s \in sent : s.op = "action" /\ s.journal = a[1] /\ s.ord = a[2]
      <3>1. CASE a \in acted
        BY <1>t, <3>1 DEF SentInv
      <3>2. CASE r.op = "action" /\ a = <<r.journal, r.ord>>
        BY <1>t, <3>2
      <3> QED BY <1>a, <3>1, <3>2
    <2>2. recording' # Silence =>
            \E s \in sent : s.op = "start" /\ <<s.journal, s.cord>> = recording'
      BY <1>a, <1>t DEF SentInv
    <2>3. \A s \in sent :
            /\ s.journal \in 1..folders /\ s.ord > 0
            /\ s.op = "action" => s.cord = 0
            /\ s.op = "start" => s.cord = s.ord
            /\ s.op # "stop" => \E i \in DOMAIN log' : IsRecord(i, "requested", s)'
            /\ s.journal = sink'.journal =>
                 s.ord <= IF s.op = "action" THEN ordinals'.actions ELSE ordinals'.captures
      BY <1>t DEF SentInv, IsRecord
    <2>4. flight' \subseteq sent'
      BY <1>a, <1>t DEF SentInv
    <2> QED BY <1>a, <2>1, <2>2, <2>3, <2>4 DEF SentInv
  <1>3. FlightInv'
    <2>1. ASSUME NEW s \in flight', s.op = "action"
          PROVE  Unsettled(s.journal, s.ord)' /\ <<s.journal, s.ord>> \notin acted'
      <3>1. Unsettled(s.journal, s.ord) /\ <<s.journal, s.ord>> \notin acted /\ s # r
            /\ s.cord = 0
            /\ s \in AnyMessage
        BY <1>a, <1>t, <2>1 DEF FlightInv, SentInv, JournalTypes
      <3>2. <<s.journal, s.ord>> # <<r.journal, r.ord>> \/ r.op # "action"
        <4> SUFFICES ASSUME s.journal = r.journal, s.ord = r.ord,
                            r.op = "action" PROVE FALSE
          OBVIOUS
        <4>1. s.op = r.op /\ s.cord = r.cord
          BY <1>t, <2>1, <3>1 DEF SentInv
        <4>2. s = r
          BY <1>t, <3>1, <4>1, SameMessage
        <4> QED BY <3>1, <4>2
      <3> QED BY <1>a, <1>r, <3>1, <3>2 DEF Unsettled
    <2>2. ASSUME NEW s \in flight', s.op = "start"
          PROVE  /\ s.journal = Reading.journal /\ Began(Known, s)
                 /\ recording' # <<s.journal, s.cord>>
      <3>1. /\ s.journal = Reading.journal /\ Began(Known, s)
            /\ recording # <<s.journal, s.cord>>
            /\ s # r /\ s.cord = s.ord /\ s \in AnyMessage /\ s.journal # 0
        BY <1>a, <1>t, <2>2, JournalTypeFacts DEF FlightInv, SentInv
      <3>2. <<s.journal, s.cord>> # <<r.journal, r.cord>> \/ r.op # "start"
        <4> SUFFICES ASSUME s.journal = r.journal, s.cord = r.cord,
                            r.op = "start" PROVE FALSE
          OBVIOUS
        <4>1. s.op = r.op /\ s.ord = r.ord
          BY <1>t, <2>2, <3>1 DEF SentInv
        <4>2. s = r
          BY <1>t, <3>1, <4>1, SameMessage
        <4> QED BY <3>1, <4>2
      <3>3. Silence # <<s.journal, s.cord>>
        BY <1>t, <3>1
      <3> QED BY <1>a, <3>1, <3>2, <3>3
    <2>3. ASSUME recording' # Silence
          PROVE  /\ recording'[1] = Reading.journal
                 /\ \/ Known.active = recording'[2]
                    \/ Known.asked.op = "start" /\ Known.asked.cord = recording'[2]
      <3>1. CASE recording' = recording
        BY <1>t, <2>3, <3>1 DEF FlightInv
      <3>2. CASE r.op = "start" /\ recording' = <<r.journal, r.cord>>
        <4>1. r.journal = Reading.journal /\ Began(Known, r)
          BY <1>t, <3>2 DEF FlightInv
        <4> QED BY <3>2, <4>1 DEF Began
      <3> QED BY <1>a, <2>3, <3>1, <3>2
    <2>4. \A s \in flight' : s.op = "action" => s.journal = Reading'.journal
          /\ (Known'.pending = s.ord \/ Known'.uncertain)
      BY <2>1 DEF Unsettled
    <2> QED BY <1>r, <2>1, <2>2, <2>3, <2>4 DEF FlightInv, Unsettled
  <1>4. TruthInv'
    <2>1. \A a \in acted : (SaysDone(a[1], a[2]) \/ Unsettled(a[1], a[2]))'
      BY <1>t, <1>r DEF TruthInv, SaysDone, Unsettled
    <2>2. r.op = "action" => Unsettled(r.journal, r.ord)'
      BY <1>t, <1>r DEF FlightInv, Unsettled
    <2>3. \A a \in acted' : (SaysDone(a[1], a[2]) \/ Unsettled(a[1], a[2]))'
      <3>1. CASE acted' = acted
        BY <2>1, <3>1
      <3>2. CASE r.op = "action" /\ acted' = acted \cup {<<r.journal, r.ord>>}
        BY <2>1, <2>2, <3>2
      <3> QED BY <1>a, <3>1, <3>2
    <2>4. acted \subseteq acted'
      BY <1>a
    <2> QED BY <1>t, <1>r, <2>3, <2>4 DEF TruthInv, Told, Unsettled, SaysDone
  <1> QED BY <1>1, <1>2, <1>3, <1>4

\* An operation under way is that of a ready runner.
LEMMA UnderWay ==
  ASSUME JournalIInv, call.step # "none"
  PROVE  /\ call # NoCall /\ runner = "ready" /\ session = "running" /\ call.ord > 0
         /\ call.op \in {"action", "screenshot", "start", "stop"}
         /\ call.step = "wait" => ~InTransit
         /\ call.step = "request" /\ Written => ~InTransit
         /\ sink.journal = folders /\ sink.journal # 0
  <1>1. call # NoCall /\ folders \in Nat
    BY NoCallFacts, JournalTypeFacts DEF JournalIInv
  <1>2. runner = "ready" /\ session = "running" /\ call.ord > 0 /\ call.op # "none"
    BY <1>1 DEF JournalIInv, CallInv
  <1>3. call.op \in {"action", "screenshot", "start", "stop"}
    BY <1>2, JournalTypeFacts DEF JournalIInv
  <1>4. /\ call.step = "wait" => ~InTransit
        /\ call.step = "request" /\ Written => ~InTransit
    BY BlankFacts DEF JournalIInv, StepInv, InTransit, Written
  <1>5. sink.journal = folders /\ sink.journal # 0
    BY <1>1, <1>2 DEF JournalIInv, SinkInv
  <1> QED BY <1>1, <1>2, <1>3, <1>4, <1>5

\* The operation that ends stays in its journal.
LEMMA CloseLeaves ==
  ASSUME JournalIInv, NEW f, NEW r, NEW s, NEW t, Close(f, r, s, t)
  PROVE  sink'.journal = sink.journal
  BY DEF JournalIInv, JournalTypes, Close, Submit

\* The operation ends, and the record of it is handed to the sink.
LEMMA CloseKeeps ==
  ASSUME JournalIInv, call.step = "wait" \/ (call.step = "request" /\ Written),
         NEW f \in BOOLEAN, NEW r \in Answered, NEW s \in {"none", "in", "late"},
         NEW t \in Stamp, NEW a \in {"yes", "no", "unknown"},
         a = IF r.given THEN r.attempted ELSE IF s = "none" THEN "no" ELSE "unknown",
         Close(f, r, s, t),
         UNCHANGED <<log, folders, session, runner, ordinals>>, active' \in Nat,
         flight' \subseteq AnyMessage, sent' \subseteq AnyMessage,
         recording' \in Nat \X Nat, acted' \subseteq Nat \X Nat,
         SentInv', FlightInv', TruthInv',
         call.op = "action" /\ a # "unknown" =>
           Message \notin flight' /\ (a = "yes" <=> <<sink.journal, call.ord>> \in acted'),
         call.op = "action" /\ a = "unknown" => f,
         call.op = "start" /\ (s = "none" \/ r.stopped) =>
           Message \notin flight' /\ recording' # <<sink.journal, call.cord>>,
         call.op = "stop" /\ r.stopped /\ (call.step = "request" \/ call.prepared) =>
           recording' = Silence /\ \A m \in flight' : m.op # "start"
  PROVE  JournalIInv'
  <1> DEFINE h == IF f THEN "failed" ELSE "completed"
             b == RecordOf("finished", call.op, call.ord, call.cord, t)
             e == [b EXCEPT !.started = s, !.receipt = r, !.status = h, !.attempted = a]
             c == [call EXCEPT !.step = "finish", !.failed = f, !.receipt = r]
  <1>t. /\ JournalTypes /\ call \in AnyCall /\ ~InTransit /\ call # NoCall
        /\ runner = "ready"
        /\ session = "running" /\ call.ord \in Nat /\ call.cord \in Nat
        /\ call.op \in {"action", "screenshot", "start", "stop"}
    BY UnderWay, JournalTypeFacts DEF JournalIInv, JournalTypes
  <1>1. /\ c \in AnyCall /\ c.op = call.op /\ c.ord = call.ord /\ c.cord = call.cord
        /\ c.step = "finish"
    BY <1>t DEF AnyCall
  <1>2. /\ e \in Evidence /\ e.kind = "finished" /\ e.op = call.op /\ e.ord = call.ord
        /\ e.cord = call.cord /\ e.started = s /\ e.receipt = r /\ e.attempted = a
        /\ f => e.status = "failed"
    <2>2. h \in {"completed", "failed"} /\ (f => h = "failed")
      OBVIOUS
    <2> HIDE DEF h
    <2>1. b \in Evidence /\ b.kind = "finished" /\ b.op = call.op /\ b.ord = call.ord
          /\ b.cord = call.cord
      <3>1. /\ call.op \in {"action", "screenshot", "start", "stop"}
            /\ call.ord \in Nat /\ call.cord \in Nat /\ t \in Stamp
        BY <1>t
      <3> QED BY ONLY <3>1, RecordFacts
    <2> HIDE DEF b
    <2>3. /\ e \in AnyEvidence /\ e.kind = "finished" /\ e.op = call.op /\ e.ord = call.ord
          /\ e.cord = call.cord /\ e.started = s /\ e.receipt = r /\ e.attempted = a
          /\ e.status = h
      BY <2>1, <2>2 DEF Evidence, AnyEvidence
    <2> HIDE DEF e
    <2> QED BY <1>t, <2>2, <2>3 DEF Evidence
  <1>3. /\ call' = c
        /\ IF call.step = "request" \/ call.prepared THEN Submit(e)
           ELSE note' = [step |-> "refused", evidence |-> Blank] /\ UNCHANGED sink
    BY DEF Close
  <1>r. Reading' = Reading /\ Known' = Known
    BY ReadingLeft
  <1>4. ReadInv'
    BY <1>r DEF JournalIInv, ReadInv
  <1> HIDE DEF c, b, e
  <1>x. PICK x : x = e
    OBVIOUS
  <1>5. CASE call.step = "request" \/ call.prepared
    <2>1. /\ sink' \in [journal : Nat, seq : Nat, open : BOOLEAN, verifier : Verifier]
          /\ note' \in [step : {"none", "publish", "refer", "written", "refused"},
                        evidence : Evidence]
          /\ SinkInv' /\ note'.evidence = x
          /\ sink'.journal = sink.journal /\ sink'.seq = sink.seq
          /\ note'.step \in {"publish", "refused"}
      BY <1>2, <1>3, <1>5, <1>t, <1>x, Submitted
    <2>2. Agrees(Known, call.op, call.ord, call.cord) /\ sink.seq > 0
      BY <1>5 DEF JournalIInv, StepInv
    <2>3. JournalTypes'
      BY <1>t, <1>1, <1>3, <2>1 DEF JournalTypes
    <2>4. Message' = Message /\ IsMessage(x)'
      BY <1>1, <1>2, <1>3, <1>x, <2>1 DEF Message, IsMessage
    <2>5. Answers(x)'
      BY <1>1, <1>2, <1>3, <1>5, <1>r, <1>x, <2>1, <2>2, <2>4 DEF Answers, Agrees
    <2>6. TransitInv'
      BY <1>2, <1>x, <2>1, <2>4, <2>5 DEF TransitInv, Answers, IsMessage
    <2>7. CallInv' /\ StepInv'
      BY <1>1, <1>3, <1>t, <2>1, NoCallFacts DEF CallInv, StepInv, JournalIInv
    <2> QED BY <1>4, <2>1, <2>3, <2>6, <2>7 DEF JournalIInv
  <1>6. CASE ~(call.step = "request" \/ call.prepared)
    <2>1. /\ sink' = sink /\ note'.step = "refused"
          /\ note' \in [step : {"none", "publish", "refer", "written", "refused"},
                        evidence : Evidence]
      BY <1>3, <1>6, BlankFacts
    <2>2. ~sink.open
      BY <1>6 DEF JournalIInv, StepInv
    <2>3. JournalTypes'
      BY <1>t, <1>1, <1>3, <2>1 DEF JournalTypes
    <2>4. SinkInv'
      BY <2>1, <2>2 DEF JournalIInv, SinkInv, InTransit
    <2>5. TransitInv'
      BY <2>1 DEF TransitInv, InTransit
    <2>6. CallInv' /\ StepInv'
      BY <1>1, <1>3, <1>t, <2>1, NoCallFacts DEF CallInv, StepInv, JournalIInv
    <2> QED BY <1>4, <2>3, <2>4, <2>5, <2>6 DEF JournalIInv
  <1> QED BY <1>5, <1>6

\* What was not sent has not been done.
LEMMA NotSent ==
  ASSUME JournalIInv, call.step = "request"
  PROVE  /\ Message \notin sent
         /\ call.op = "action" => <<sink.journal, call.ord>> \notin acted
         /\ call.op = "start" => recording # <<sink.journal, call.cord>>
  <1>t. /\ SentInv /\ sink.journal # 0 /\ call.ord \in Nat
        /\ \A r \in sent : r.ord \in Nat /\ (Sending(r) => r.ord < call.ord)
        /\ call.op = "start" => call.cord = call.ord
    BY UnderWay, JournalTypeFacts DEF JournalIInv, StepInv, CallInv
  <1>1. ASSUME NEW r \in sent, r.journal = sink.journal,
               r.op = "action" <=> call.op = "action"
        PROVE  r.ord # call.ord
    BY <1>1, <1>t DEF Sending
  <1>2. Message \notin sent
    BY <1>1 DEF Message
  <1>3. call.op = "action" => <<sink.journal, call.ord>> \notin acted
    BY <1>1, <1>t DEF SentInv
  <1>4. ASSUME call.op = "start", recording = <<sink.journal, call.cord>> PROVE FALSE
    <2>1. recording # Silence
      BY <1>4, <1>t DEF Silence
    <2>2. PICK r \in sent : r.op = "start" /\ <<r.journal, r.cord>> = recording
      BY <1>t, <2>1 DEF SentInv
    <2>3. r.journal = sink.journal /\ r.ord = call.ord
      BY <1>4, <1>t, <2>2 DEF SentInv
    <2> QED BY <1>1, <1>4, <2>2, <2>3
  <1> QED BY <1>2, <1>3, <1>4

-----------------------------------------------------------------------------
(* The journal: every action keeps the invariant.                          *)

-----------------------------------------------------------------------------
(* The journal: one lemma per action; what an action does comes first,     *)
(* then each part of the invariant.                                        *)

\* Nothing happens to the sink, to the record or to the operation.
LEMMA CalmKeeps ==
  ASSUME JournalIInv,
         UNCHANGED <<log, folders, sink, note, call, active, ordinals, device>>,
         \/ session' = session
         \/ session' = "running"
         \/ call = NoCall /\ session' \in {"draft", "running", "paused", "over"},
         runner' = runner
  PROVE  JournalIInv'
  <1> USE DEF device
  <1>t. JournalTypes /\ SinkInv /\ TransitInv /\ CallInv /\ StepInv /\ SentInv
        /\ ordinals.actions \in Nat /\ ordinals.captures \in Nat
    BY JournalTypeFacts DEF JournalIInv
  <1>r. Reading' = Reading /\ Known' = Known
    BY ReadingLeft
  <1>1. ReadInv' /\ FlightInv' /\ TruthInv'
    BY LogLeft
  <1>2. SentInv'
    BY <1>t, SentKept
  <1>3. JournalTypes'
    BY <1>t DEF JournalTypes
  <1>4. SinkInv'
    BY <1>t, <1>r DEF SinkInv, InTransit, Base
  <1>5. TransitInv'
    BY <1>t, <1>r DEF TransitInv, InTransit, IsMessage, Answers, Message
  <1>6. CallInv'
    BY <1>t DEF CallInv
  <1>7. StepInv'
    BY <1>t, <1>r DEF StepInv, Sending, Written, Message, IsRecord
  <1> QED BY <1>1, <1>2, <1>3, <1>4, <1>5, <1>6, <1>7 DEF JournalIInv

LEMMA PublishKeeps ==
  ASSUME JournalIInv, Publish
  PROVE  JournalIInv'
  <1> USE DEF device, calling
  <1>t. JournalTypes /\ SinkInv /\ TransitInv /\ CallInv /\ StepInv
        /\ ordinals.actions \in Nat /\ ordinals.captures \in Nat
    BY JournalTypeFacts DEF JournalIInv
  <1>a. /\ note.step = "publish" /\ note'.step = "refer" /\ note'.evidence = note.evidence
        /\ note' \in [step : {"none", "publish", "refer", "written", "refused"},
                      evidence : Evidence]
        /\ UNCHANGED <<session, log, folders, runner, sink, call, active, ordinals, device>>
    BY <1>t DEF Publish, JournalTypes
  <1>r. Reading' = Reading /\ Known' = Known
    BY <1>a, ReadingLeft
  <1>1. ReadInv' /\ FlightInv' /\ TruthInv'
    BY <1>a, LogLeft
  <1>2. SentInv'
    BY <1>a, <1>t, SentKept
  <1>3. JournalTypes'
    BY <1>a, <1>t DEF JournalTypes
  <1>4. SinkInv'
    BY <1>a, <1>t, <1>r DEF SinkInv, InTransit, Base
  <1>5. TransitInv'
    BY <1>a, <1>t, <1>r DEF TransitInv, InTransit, IsMessage, Answers, Message
  <1>6. CallInv'
    BY <1>a, <1>t, BlankFacts DEF CallInv
  <1>7. StepInv'
    BY <1>a, <1>t, <1>r, BlankFacts DEF StepInv, Sending, Written, Message, IsRecord
  <1> QED BY <1>1, <1>2, <1>3, <1>4, <1>5, <1>6, <1>7 DEF JournalIInv

\* A record that is on its way is refused, whether or not it got to the log.
LEMMA RefuseKeeps ==
  ASSUME JournalIInv, InTransit, Refuse,
         UNCHANGED <<session, folders, runner, call, active, ordinals, device>>,
         log' = log \/ (note.step = "refer" /\ log' = Append(log, Reference))
  PROVE  JournalIInv'
  <1> USE DEF device
  <1>t. JournalTypes /\ SentInv /\ CallInv /\ StepInv
        /\ ordinals.actions \in Nat /\ ordinals.captures \in Nat
    BY JournalTypeFacts DEF JournalIInv
  <1>a. /\ sink' \in [journal : Nat, seq : Nat, open : BOOLEAN, verifier : Verifier]
        /\ note' \in [step : {"none", "publish", "refer", "written", "refused"},
                      evidence : Evidence]
        /\ SinkInv'
        /\ sink'.journal = sink.journal /\ sink'.seq = sink.seq /\ ~sink'.open
        /\ note'.step = "refused" /\ note.step # "none"
    BY Refused DEF InTransit
  <1>1. /\ ReadInv' /\ FlightInv' /\ TruthInv' /\ log' \in Seq(AnyReference)
        /\ \A i \in DOMAIN log : i \in DOMAIN log' /\ log'[i] = log[i]
    <2>1. CASE log' = log
      BY <2>1, <1>t, LogLeft DEF JournalTypes
    <2>2. CASE note.step = "refer" /\ log' = Append(log, Reference)
      BY <2>2, Delivered, DeliveryKeepsRead, DeliveryKeepsFlight, DeliveryKeepsTruth
    <2> QED BY <2>1, <2>2
  <1>2. SentInv'
    BY <1>1, <1>a, <1>t, SentKept
  <1>3. JournalTypes'
    BY <1>1, <1>a, <1>t DEF JournalTypes
  <1>4. TransitInv'
    BY <1>a DEF TransitInv, InTransit
  <1>5. CallInv'
    BY <1>a, <1>t, BlankFacts DEF CallInv
  <1>6. StepInv'
    BY <1>a, <1>t, BlankFacts DEF StepInv, Sending, Written
  <1> QED BY <1>1, <1>2, <1>3, <1>4, <1>5, <1>6, <1>a DEF JournalIInv

\* The record gets to the log.
LEMMA ReferKeeps ==
  ASSUME JournalIInv, Refer
  PROVE  JournalIInv'
  <1> USE DEF device, calling
  <1> DEFINE e == note.evidence
  <1>t. JournalTypes /\ SinkInv /\ SentInv /\ TransitInv /\ CallInv /\ StepInv /\ InTransit
        /\ ordinals.actions \in Nat /\ ordinals.captures \in Nat /\ sink.seq \in Nat
    BY JournalTypeFacts DEF JournalIInv, Refer, InTransit
  <1>a. /\ note.step = "refer" /\ log' = Append(log, Reference)
        /\ note'.step = "written" /\ sink'.seq = sink.seq + 1
        /\ sink'.journal = sink.journal /\ sink'.open = sink.open
        /\ sink'.verifier = sink.verifier
        /\ sink' \in [journal : Nat, seq : Nat, open : BOOLEAN, verifier : Verifier]
        /\ note' \in [step : {"none", "publish", "refer", "written", "refused"},
                      evidence : Evidence]
        /\ UNCHANGED <<session, folders, runner, call, active, ordinals, device>>
    <2> DEFINE n == sink.seq + 1
    <2>1. /\ sink \in [journal : Nat, seq : Nat, open : BOOLEAN, verifier : Verifier]
          /\ note \in [step : {"none", "publish", "refer", "written", "refused"},
                       evidence : Evidence]
          /\ n \in Nat /\ n = sink.seq + 1
      BY <1>t DEF JournalTypes
    <2>2. sink' = [sink EXCEPT !.seq = n] /\ note' = [note EXCEPT !.step = "written"]
      BY DEF Refer
    <2> HIDE DEF n
    <2>3. /\ sink'.seq = n /\ sink'.journal = sink.journal /\ sink'.open = sink.open
          /\ sink'.verifier = sink.verifier
          /\ sink' \in [journal : Nat, seq : Nat, open : BOOLEAN, verifier : Verifier]
      BY <2>1, <2>2
    <2>4. /\ note'.step = "written"
          /\ note' \in [step : {"none", "publish", "refer", "written", "refused"},
                        evidence : Evidence]
      BY <2>1, <2>2
    <2> QED BY <2>1, <2>3, <2>4 DEF Refer
  <1>1. ReadInv' /\ FlightInv' /\ TruthInv'
    BY <1>a, DeliveryKeepsRead, DeliveryKeepsFlight, DeliveryKeepsTruth
  <1>2. /\ log' \in Seq(AnyReference)
        /\ Reading'.journal = sink.journal /\ Reading'.seq = sink.seq + 1
        /\ Known' = sink.verifier
        /\ Len(log) + 1 \in DOMAIN log' /\ log'[Len(log) + 1] = Reference
        /\ \A i \in DOMAIN log : i \in DOMAIN log' /\ log'[i] = log[i]
    BY <1>a, Delivered
  <1>3. Judged(Base, e, Known') /\ sink.open
    BY <1>2, <1>t, Judging
  <1>4. SentInv'
    BY <1>2, <1>a, <1>t, SentKept
  <1>5. JournalTypes'
    BY <1>2, <1>a, <1>t DEF JournalTypes
  <1>6. SinkInv'
    <2>1. sink'.seq # 0 /\ sink'.seq \in Nat /\ ~InTransit'
      BY <1>a, <1>t DEF InTransit
    <2>2. Base' = sink'.verifier
      BY <1>2, <1>a, <2>1 DEF Base
    <2> QED BY <1>2, <1>3, <1>a, <1>t, <2>1, <2>2 DEF SinkInv
  <1>7. TransitInv'
    BY <1>a DEF TransitInv, InTransit
  <1>8. CallInv'
    BY <1>a, <1>t, BlankFacts DEF CallInv
  <1>9. call.step # "wait"
    BY <1>a, <1>t, BlankFacts DEF StepInv
  <1>10. ASSUME call.step = "request"
         PROVE  /\ Agrees(Known', call.op, call.ord, call.cord)
                /\ \E i \in DOMAIN log' : IsRecord(i, "requested", Message)'
    <2>1. call # NoCall /\ runner = "ready"
      BY <1>10, UnderWay
    <2>2. e.kind = "requested" /\ e.op = call.op /\ e.ord = call.ord /\ e.cord = call.cord
      <3>1. e.kind # "observation" /\ e.kind # "finished"
        BY <1>10, <1>t, <2>1 DEF TransitInv, Answers
      <3>2. e.kind \in {"observation", "requested", "finished"}
        BY <1>t, JournalTypeFacts, EvidenceFacts
      <3> QED BY <3>1, <3>2, <1>t DEF TransitInv, IsMessage
    <2>3. Agrees(Known', call.op, call.ord, call.cord)
      BY <1>3, <2>2 DEF Judged, OfObservation, OfRequestedAction, OfFinishedAction,
                        OfRequestedCapture, OfFinishedCapture, Agrees
    <2>4. /\ log'[Len(log) + 1].journal = sink.journal
          /\ log'[Len(log) + 1].evidence = e
      BY <1>2 DEF Reference
    <2>5. /\ Message'.journal = sink.journal /\ Message'.op = call.op
          /\ Message'.ord = call.ord
      BY <1>a DEF Message
    <2>6. \E i \in DOMAIN log' : IsRecord(i, "requested", Message)'
      BY <1>2, <2>2, <2>4, <2>5 DEF IsRecord
    <2> QED BY <2>3, <2>6
  <1>11. StepInv'
    <2>1. sink'.seq > 0
      BY <1>a, <1>t
    <2>2. Message' = Message
      BY <1>a DEF Message
    <2> QED BY <1>9, <1>10, <1>a, <1>t, <2>1 DEF StepInv, Sending, Written
  <1> QED BY <1>1, <1>4, <1>5, <1>6, <1>7, <1>8, <1>11 DEF JournalIInv

LEMMA SendKeeps ==
  ASSUME JournalIInv, Send
  PROVE  JournalIInv'
  <1> USE DEF Cleanup
  <1>t. /\ JournalTypes /\ SinkInv /\ SentInv /\ FlightInv /\ TruthInv /\ TransitInv
        /\ CallInv
        /\ StepInv /\ call \in AnyCall
        /\ ordinals.actions \in Nat /\ ordinals.captures \in Nat /\ folders \in Nat
        /\ sink.journal \in Nat /\ call.ord \in Nat /\ call.cord \in Nat
        /\ active \in Nat
        /\ note.step \in {"none", "publish", "refer", "written", "refused"}
    BY JournalTypeFacts DEF JournalIInv, JournalTypes
  <1>u. /\ call # NoCall /\ runner = "ready" /\ session = "running" /\ call.ord > 0
        /\ call.op \in {"action", "screenshot", "start", "stop"}
        /\ sink.journal = folders /\ sink.journal # 0 /\ call.step = "request"
    BY UnderWay DEF Send
  <1>a. /\ Written \/ (note.step = "refused" /\ call.op = "stop")
        /\ UNCHANGED <<session, log, folders, runner, sink, ordinals, recording, acted>>
        /\ note' = NoNote /\ flight' = flight \cup {Message} /\ sent' = sent \cup {Message}
        /\ active' \in Nat
    BY <1>t DEF Send, Recorded, Written, disk
  <1>b. PICK t \in Stamp :
          call' = [call EXCEPT !.step = "wait", !.started = t,
                               !.prepared = Written, !.failed = ~Written]
    BY DEF Send
  <1>c. /\ call' \in AnyCall /\ call'.step = "wait" /\ call'.started # "none"
        /\ call'.op = call.op /\ call'.ord = call.ord /\ call'.cord = call.cord
        /\ call'.prepared <=> Written
    <2> DEFINE w == Written
               v == ~Written
    <2>1. w \in BOOLEAN /\ v \in BOOLEAN /\ (w <=> Written)
      BY DEF Written
    <2>2. call' = [call EXCEPT !.step = "wait", !.started = t, !.prepared = w, !.failed = v]
      BY <1>b
    <2> HIDE DEF w, v
    <2> QED BY <1>t, <2>1, <2>2 DEF AnyCall, Stamp
  <1>r. Reading' = Reading /\ Known' = Known
    BY <1>a, ReadingLeft
  <1>m. /\ Message \in AnyMessage /\ Message.journal = sink.journal /\ Message.op = call.op
        /\ Message.ord = call.ord /\ Message.cord = call.cord /\ Message' = Message
    BY <1>a, <1>c, <1>t, <1>u DEF Message, AnyMessage
  <1>n. /\ call.op = "action" => <<sink.journal, call.ord>> \notin acted
        /\ call.op = "start" => recording # <<sink.journal, call.cord>>
    BY <1>u, NotSent
  <1>k. /\ call.ord = IF call.op = "action" THEN ordinals.actions ELSE ordinals.captures
        /\ call.op = "action" => call.cord = 0
        /\ call.op = "start" => call.cord = call.ord
        /\ Written => /\ Agrees(Known, call.op, call.ord, call.cord) /\ sink.seq > 0
                      /\ sink.open /\ Reading.journal = sink.journal
                      /\ \E i \in DOMAIN log : IsRecord(i, "requested", Message)
    BY <1>t, <1>u DEF StepInv, CallInv, SinkInv, Written
  <1>1. ReadInv'
    BY <1>a, <1>r DEF JournalIInv, ReadInv
  <1>2. JournalTypes'
    BY <1>a, <1>c, <1>m, <1>t, BlankFacts DEF JournalTypes
  <1>3. SentInv'
    <2>1. ASSUME NEW r \in sent'
          PROVE  /\ r.journal \in 1..folders /\ r.ord > 0
                 /\ r.op = "action" => r.cord = 0
                 /\ r.op = "start" => r.cord = r.ord
                 /\ r.op # "stop" => \E i \in DOMAIN log : IsRecord(i, "requested", r)
                 /\ r.journal = sink.journal =>
                      r.ord <= IF r.op = "action" THEN ordinals.actions ELSE ordinals.captures
      <3>1. CASE r \in sent
        BY <1>t, <3>1 DEF SentInv
      <3>2. CASE r = Message
        BY <1>a, <1>k, <1>m, <1>t, <1>u, <3>2
      <3> QED BY <1>a, <3>1, <3>2
    <2>2. /\ \A a \in acted : \E r \in sent' : r.op = "action" /\ r.journal = a[1]
             /\ r.ord = a[2]
          /\ recording # Silence =>
               \E r \in sent' : r.op = "start" /\ <<r.journal, r.cord>> = recording
          /\ flight' \subseteq sent'
      BY <1>a, <1>t DEF SentInv
    <2> QED BY <1>a, <2>1, <2>2 DEF SentInv, IsRecord
  <1>4. FlightInv'
    <2>1. ASSUME NEW r \in flight', r.op = "action"
          PROVE  Unsettled(r.journal, r.ord) /\ <<r.journal, r.ord>> \notin acted
      <3>1. CASE r \in flight
        BY <1>t, <2>1, <3>1 DEF FlightInv
      <3>2. CASE r = Message
        BY <1>a, <1>k, <1>m, <1>n, <2>1, <3>2 DEF Unsettled, Agrees
      <3> QED BY <1>a, <3>1, <3>2
    <2>2. ASSUME NEW r \in flight', r.op = "start"
          PROVE  r.journal = Reading.journal /\ Began(Known, r)
                 /\ recording # <<r.journal, r.cord>>
      <3>1. CASE r \in flight
        BY <1>t, <2>2, <3>1 DEF FlightInv
      <3>2. CASE r = Message
        BY <1>a, <1>k, <1>m, <1>n, <2>2, <3>2 DEF Began, Agrees
      <3> QED BY <1>a, <3>1, <3>2
    <2>3. \A r \in flight' : r.op = "action" =>
            /\ r.journal = Reading'.journal /\ (Known'.pending = r.ord \/ Known'.uncertain)
            /\ <<r.journal, r.ord>> \notin acted'
      BY <1>a, <1>r, <2>1 DEF Unsettled
    <2> QED BY <1>a, <1>r, <1>t, <2>2, <2>3 DEF FlightInv, Unsettled
  <1>5. TruthInv'
    BY <1>a, <1>r, <1>t DEF TruthInv, SaysDone, Told, Unsettled
  <1>6. SinkInv'
    BY <1>a, <1>r, <1>t, <1>k, BlankFacts DEF SinkInv, InTransit, Base, Written
  <1>7. TransitInv' /\ CallInv'
    BY <1>a, <1>c, <1>t, <1>u, <1>k, BlankFacts, NoCallFacts DEF TransitInv, InTransit,
       CallInv
  <1>8. StepInv'
    <2>1. ~Written => ~sink.open
      BY <1>a, <1>t DEF SinkInv
    <2> QED BY <1>a, <1>c, <1>r, <1>m, <1>k, <2>1 DEF StepInv
  <1> QED BY <1>1, <1>2, <1>3, <1>4, <1>5, <1>6, <1>7, <1>8 DEF JournalIInv

LEMMA WithdrawKeeps ==
  ASSUME JournalIInv, Withdraw
  PROVE  JournalIInv'
  <1> USE DEF device
  <1>1. PICK t \in Stamp : Close(TRUE, NoReceipt, "none", t)
    BY DEF Withdraw
  <1>2. /\ UNCHANGED <<session, log, folders, runner, active, ordinals, device>>
        /\ call.step = "request" /\ Written
    BY DEF Withdraw, disk
  <1>3. /\ sink'.journal = sink.journal /\ JournalTypes /\ FlightInv /\ SentInv
        /\ ordinals.actions \in Nat /\ ordinals.captures \in Nat /\ active \in Nat
        /\ NoReceipt \in Answered /\ ~NoReceipt.given /\ ~NoReceipt.stopped
    BY <1>1, CloseLeaves, JournalTypeFacts, BlankFacts DEF JournalIInv
  <1>4. FlightInv' /\ TruthInv' /\ SentInv'
    BY <1>2, <1>3, LogLeft, SentKept
  <1>5. /\ Message \notin flight
        /\ call.op = "action" => <<sink.journal, call.ord>> \notin acted
        /\ call.op = "start" => recording # <<sink.journal, call.cord>>
    BY <1>2, <1>3, NotSent DEF SentInv
  <1>6. /\ flight' \subseteq AnyMessage /\ sent' \subseteq AnyMessage
        /\ recording' \in Nat \X Nat /\ acted' \subseteq Nat \X Nat
    BY <1>2, <1>3 DEF JournalTypes
  <1> DEFINE a == "no"
  <1>7. a \in {"yes", "no", "unknown"} /\ a = "no"
    OBVIOUS
  <1> QED BY <1>1, <1>2, <1>3, <1>4, <1>5, <1>6, <1>7, CloseKeeps

LEMMA TimeoutKeeps ==
  ASSUME JournalIInv, Timeout
  PROVE  JournalIInv'
  <1> USE DEF device
  <1>1. PICK t \in Stamp : Close(TRUE, NoReceipt, call.started, t)
    BY DEF Timeout
  <1>2. /\ UNCHANGED <<session, log, folders, runner, active, ordinals, device>>
        /\ call.step = "wait"
    BY DEF Timeout, disk
  <1>3. /\ sink'.journal = sink.journal /\ JournalTypes /\ StepInv
        /\ ordinals.actions \in Nat /\ ordinals.captures \in Nat /\ active \in Nat
        /\ NoReceipt \in Answered /\ ~NoReceipt.given /\ ~NoReceipt.stopped
        /\ call.started \in {"none", "in", "late"}
    BY <1>1, CloseLeaves, JournalTypeFacts, BlankFacts DEF JournalIInv
  <1>4. FlightInv' /\ TruthInv' /\ SentInv'
    BY <1>2, <1>3, LogLeft, SentKept
  <1>5. call.started # "none"
    BY <1>2, <1>3 DEF StepInv
  <1>6. /\ flight' \subseteq AnyMessage /\ sent' \subseteq AnyMessage
        /\ recording' \in Nat \X Nat /\ acted' \subseteq Nat \X Nat
    BY <1>2, <1>3 DEF JournalTypes
  <1> DEFINE a == "unknown"
  <1>7. a \in {"yes", "no", "unknown"} /\ a = "unknown"
    OBVIOUS
  <1> QED BY <1>1, <1>2, <1>3, <1>4, <1>5, <1>6, <1>7, CloseKeeps

LEMMA AnswerArrivesKeeps ==
  ASSUME JournalIInv, AnswerArrives
  PROVE  JournalIInv'
  <1> USE DEF Cleanup
  <1>t. /\ JournalTypes /\ SentInv /\ FlightInv /\ StepInv /\ ReadInv /\ SinkInv
        /\ active \in Nat /\ call.started \in {"none", "in", "late"}
        /\ call.op \in {"action", "screenshot", "start", "stop"} /\ call.cord \in Nat
        /\ sink.journal # 0 /\ call.step = "wait"
    BY JournalTypeFacts, UnderWay DEF JournalIInv, AnswerArrives
  <1>1. PICK o \in Outcomes(Message), c \in Stamp, t \in Stamp, d \in Stamp :
          LET answer == [o EXCEPT !.at = c]
              bad == call.failed \/ (t = "late" /\ call.op \notin Cleanup)
                     \/ (call.op # "action" /\ ~o.ok)
          IN  /\ Carry(Message, o)
              /\ active' = IF o.stopped /\ call.op \in Cleanup \cup {"start"}
                           THEN 0 ELSE active
              /\ Close(bad, answer, call.started, d)
    BY DEF AnswerArrives
  <1> DEFINE r == [o EXCEPT !.at = c]
             bad == call.failed \/ (t = "late" /\ call.op \notin Cleanup)
                    \/ (call.op # "action" /\ ~o.ok)
  <1>2. /\ Carry(Message, o) /\ Close(bad, r, call.started, d) /\ active' \in Nat
        /\ UNCHANGED <<session, log, folders, runner, ordinals>>
        /\ Message \in flight
    BY <1>1, <1>t DEF AnswerArrives, disk
  <1>3. /\ Message \in AnyMessage /\ Message.op = call.op /\ Message.journal = sink.journal
        /\ Message.ord = call.ord /\ Message.cord = call.cord
    BY <1>2, <1>t DEF Message, JournalTypes
  <1>4. /\ o \in Answered /\ o.given /\ o.attempted \in {"yes", "no"}
        /\ call.op = "start" => recording = Silence
        /\ call.op = "stop" => recording = <<sink.journal, call.cord>>
    BY <1>3, OutcomeFacts
  <1>5. /\ r \in Answered /\ r.given /\ r.attempted = o.attempted /\ r.stopped = o.stopped
    BY <1>4 DEF Answered, Stamp
  <1>6. bad \in BOOLEAN
    <2>1. call.failed \in BOOLEAN /\ o.ok \in BOOLEAN
      BY <1>t, <1>4 DEF JournalTypes, AnyCall, Answered
    <2> QED BY <2>1
  <1> HIDE DEF r, bad
  <1>7. sink'.journal = sink.journal
    BY <1>2, CloseLeaves
  <1>8. /\ flight' \subseteq AnyMessage /\ sent' \subseteq AnyMessage
        /\ recording' \in Nat \X Nat /\ acted' \subseteq Nat \X Nat
        /\ SentInv' /\ FlightInv' /\ TruthInv'
    BY <1>2, <1>7, CarryKeeps
  <1>9. call.op = "action" =>
          Message \notin flight'
          /\ (o.attempted = "yes" <=> <<sink.journal, call.ord>> \in acted')
    <2>1. call.op = "action" => <<sink.journal, call.ord>> \notin acted
      BY <1>2, <1>3, <1>t DEF FlightInv
    <2> QED BY <1>2, <1>3, <1>4, <2>1 DEF Carry
  <1>10. call.op = "start" /\ r.stopped =>
           Message \notin flight' /\ recording' # <<sink.journal, call.cord>>
    BY <1>2, <1>3, <1>4, <1>5, <1>t DEF Carry, Silence
  <1>11. call.started # "none"
    BY <1>t DEF StepInv
  <1>12. ASSUME call.op = "stop", r.stopped, call.prepared
         PROVE  recording' = Silence /\ \A m \in flight' : m.op # "start"
    <2>1. recording' = Silence /\ flight' \subseteq flight
      BY <1>2, <1>3, <1>5, <1>12 DEF Carry
    <2>2. /\ Agrees(Known, call.op, call.ord, call.cord) /\ Reading.journal = sink.journal
      BY <1>12, <1>t DEF StepInv, SinkInv
    <2>3. /\ Known.asked.op = "stop" /\ Known.active = call.cord
      BY <1>12, <1>t, <2>2 DEF Agrees, ReadInv, VerifierInv
    <2>4. ASSUME NEW m \in flight, m.op = "start" PROVE FALSE
      <3>1. m.journal = sink.journal /\ Began(Known, m) /\ recording # <<m.journal, m.cord>>
        BY <1>t, <2>2, <2>4 DEF FlightInv
      <3>2. m.cord = call.cord
        BY <2>3, <3>1 DEF Began
      <3> QED BY <1>4, <1>12, <3>1, <3>2
    <2> QED BY <2>1, <2>4
  <1>13. PICK a \in {"yes", "no", "unknown"} : a = o.attempted /\ a # "unknown"
    BY <1>4
  <1> QED BY <1>2, <1>5, <1>6, <1>8, <1>9, <1>10, <1>11, <1>12, <1>13, <1>t, CloseKeeps

LEMMA DeviceActsKeeps ==
  ASSUME JournalIInv, DeviceActs
  PROVE  JournalIInv'
  <1> USE DEF Cleanup
  <1>t. /\ JournalTypes /\ SentInv /\ FlightInv /\ TruthInv /\ StepInv /\ ReadInv /\ SinkInv
        /\ TransitInv /\ CallInv /\ sink.journal \in Nat
    BY JournalTypeFacts DEF JournalIInv
  <1>a. UNCHANGED <<session, log, folders, runner, sink, note, call, active, ordinals>>
        /\ sent' = sent
    BY DEF DeviceActs, disk, journal, calling, Carry
  <1>r. Reading' = Reading /\ Known' = Known
    BY <1>a, ReadingLeft
  <1>1. PICK r \in flight : \/ \E o \in Outcomes(r) : Carry(r, o)
                            \/ flight' = flight \ {r}
                               /\ UNCHANGED <<recording, sent, acted>>
    BY DEF DeviceActs
  <1>2. r \in sent /\ r \in AnyMessage /\ r.journal # 0 /\ r.journal \in Nat
    BY <1>t, JournalTypeFacts DEF SentInv
  <1>3. /\ flight' \subseteq AnyMessage /\ sent' \subseteq AnyMessage
        /\ recording' \in Nat \X Nat /\ acted' \subseteq Nat \X Nat
        /\ SentInv' /\ FlightInv' /\ TruthInv'
    <2>1. CASE \E o \in Outcomes(r) : Carry(r, o)
      BY <1>a, <2>1, CarryKeeps
    <2>2. CASE flight' = flight \ {r} /\ UNCHANGED <<recording, sent, acted>>
      <3>1. /\ flight' \subseteq AnyMessage /\ sent' \subseteq AnyMessage
            /\ recording' \in Nat \X Nat /\ acted' \subseteq Nat \X Nat
        BY <1>t, <2>2 DEF JournalTypes
      <3>2. SentInv'
        BY <1>a, <1>t, <2>2 DEF SentInv, IsRecord
      <3>3. FlightInv' /\ TruthInv'
        BY <1>a, <1>r, <1>t, <2>2 DEF FlightInv, TruthInv, Unsettled, Told, SaysDone
      <3> QED BY <3>1, <3>2, <3>3
    <2> QED BY <1>1, <2>1, <2>2
  <1>4. ReadInv' /\ SinkInv'
    BY <1>a, <1>r, <1>t DEF ReadInv, SinkInv, InTransit, Base
  <1>5. JournalTypes'
    BY <1>a, <1>3, <1>t DEF JournalTypes
  <1>6. CallInv' /\ StepInv'
    BY <1>a, <1>r, <1>t DEF CallInv, StepInv, Sending, Written, Message, IsRecord
  <1>7. TransitInv'
    <2>1. \A e : Answers(e) /\ IsMessage(e) =>
            /\ e.op = "action" /\ e.attempted # "unknown" =>
                 Message \notin flight'
                 /\ (e.attempted = "yes" <=> <<sink.journal, e.ord>> \in acted')
            /\ e.op = "start" /\ (e.started = "none" \/ e.receipt.stopped) =>
                 Message \notin flight' /\ recording' # <<sink.journal, e.cord>>
            /\ e.op = "stop" /\ e.receipt.stopped =>
                 recording' = Silence /\ \A m \in flight' : m.op # "start"
      <3> SUFFICES ASSUME NEW e, Answers(e), IsMessage(e)
                   PROVE  /\ e.op = "action" /\ e.attempted # "unknown" =>
                               Message \notin flight'
                               /\ (e.attempted = "yes"
                                     <=> <<sink.journal, e.ord>> \in acted')
                          /\ e.op = "start" /\ (e.started = "none" \/ e.receipt.stopped) =>
                               Message \notin flight'
                               /\ recording' # <<sink.journal, e.cord>>
                          /\ e.op = "stop" /\ e.receipt.stopped =>
                               recording' = Silence /\ \A m \in flight' : m.op # "start"
        OBVIOUS
      <3>1. flight' \subseteq flight
        BY <1>1 DEF Carry
      <3>2. ASSUME e.op = "action", e.attempted # "unknown"
            PROVE  Message \notin flight'
                   /\ (e.attempted = "yes" <=> <<sink.journal, e.ord>> \in acted')
        <4>1. Message \notin flight
              /\ (e.attempted = "yes" <=> <<sink.journal, e.ord>> \in acted)
          BY <3>2 DEF Answers
        <4>2. ~(r.op = "action" /\ r.journal = sink.journal /\ r.ord = e.ord)
          <5> SUFFICES ASSUME r.op = "action", r.journal = sink.journal,
                              r.ord = e.ord PROVE FALSE
            OBVIOUS
          <5>1. r.cord = call.cord /\ r.ord = call.ord /\ r.op = call.op
            BY <1>2, <1>t, <3>2 DEF IsMessage, SentInv, CallInv
          <5>2. r = Message
            BY <1>2, <5>1 DEF AnyMessage, Message
          <5> QED BY <4>1, <5>2
        <4>3. \/ acted' = acted
              \/ r.op = "action" /\ acted' = acted \cup {<<r.journal, r.ord>>}
          BY <1>1 DEF Carry
        <4> QED BY <3>1, <4>1, <4>2, <4>3
      <3>3. ASSUME e.op = "start", e.started = "none" \/ e.receipt.stopped
            PROVE  Message \notin flight' /\ recording' # <<sink.journal, e.cord>>
        <4>1. Message \notin flight /\ recording # <<sink.journal, e.cord>>
          BY <3>3 DEF Answers
        <4>2. ~(r.op = "start" /\ r.journal = sink.journal /\ r.cord = e.cord)
          <5> SUFFICES ASSUME r.op = "start", r.journal = sink.journal,
                              r.cord = e.cord PROVE FALSE
            OBVIOUS
          <5>1. r.cord = call.cord /\ r.ord = call.ord /\ r.op = call.op
            BY <1>2, <1>t, <3>3 DEF IsMessage, SentInv, CallInv
          <5>2. r = Message
            BY <1>2, <5>1 DEF AnyMessage, Message
          <5> QED BY <4>1, <5>2
        <4>3. \/ recording' = recording
              \/ recording' = Silence
              \/ r.op = "start" /\ recording' = <<r.journal, r.cord>>
          BY <1>1 DEF Carry
        <4>4. Silence # <<sink.journal, e.cord>>
          <5>1. call.step = "finish"
            BY DEF Answers
          <5> QED BY <5>1, UnderWay DEF Silence
        <4> QED BY <3>1, <4>1, <4>2, <4>3, <4>4
      <3>4. ASSUME e.op = "stop", e.receipt.stopped
            PROVE  recording' = Silence /\ \A m \in flight' : m.op # "start"
        <4>1. recording = Silence /\ \A m \in flight : m.op # "start"
          BY <3>4 DEF Answers
        <4>2. recording' = recording \/ recording' = Silence
          BY <1>1, <4>1 DEF Carry
        <4> QED BY <3>1, <4>1, <4>2
      <3> QED BY <3>2, <3>3, <3>4
    <2>2. \A e : Answers(e) /\ IsMessage(e) => Answers(e)'
      BY <1>a, <1>r, <2>1 DEF Answers, Agrees, Message
    <2> QED BY <1>a, <1>t, <2>2 DEF TransitInv, InTransit, IsMessage, Answers, Agrees
  <1> QED BY <1>3, <1>4, <1>5, <1>6, <1>7 DEF JournalIInv

\* An operation waits for no record that is still to come.
LEMMA NoRecord ==
  ASSUME JournalIInv, call = NoCall, runner = "ready"
  PROVE  ~InTransit
  BY BlankFacts DEF JournalIInv, CallInv, InTransit

LEMMA GiveUpKeeps ==
  ASSUME JournalIInv, GiveUp
  PROVE  JournalIInv'
  <1>1. /\ ~InTransit /\ runner = "ready" /\ session = "running"
        /\ UNCHANGED <<disk, runner, active, device>>
    BY UnderWay DEF GiveUp, InTransit
  <1>2. CASE call.op = "action"
    BY <1>1, <1>2, BackKeeps DEF GiveUp
  <1>3. CASE call.op # "action"
    BY <1>1, <1>3, AbandonKeeps DEF GiveUp
  <1> QED BY <1>2, <1>3

LEMMA ReturnKeeps ==
  ASSUME JournalIInv, Return
  PROVE  JournalIInv'
  <1>1. /\ ~InTransit /\ runner = "ready" /\ session = "running"
        /\ UNCHANGED <<disk, runner, active, device>>
    BY UnderWay DEF Return, InTransit, Recorded
  <1>2. CASE call.op # "action" /\ (call.failed \/ ~Written)
    BY <1>1, <1>2, AbandonKeeps DEF Return
  <1>3. CASE ~(call.op # "action" /\ (call.failed \/ ~Written))
    BY <1>1, <1>3, BackKeeps DEF Return
  <1> QED BY <1>2, <1>3

LEMMA PerformKeeps ==
  ASSUME JournalIInv, Perform
  PROVE  JournalIInv'
  <1>1. /\ ~InTransit /\ runner = "ready" /\ session = "running"
        /\ UNCHANGED <<disk, runner, active, device>>
    BY NoRecord DEF Perform, Ask, Ready
  <1>2. CASE \E t \in Stamp : Request("action", ordinals.actions + 1, 0, t)
    <2>1. ordinals.actions \in Nat /\ ordinals.actions + 1 \in Nat
      BY JournalTypeFacts DEF JournalIInv
    <2> QED BY <1>1, <1>2, <2>1, RequestKeeps
  <1>3. CASE UNCHANGED <<journal, call, ordinals>>
    BY <1>1, <1>3, CalmKeeps DEF disk, journal
  <1> QED BY <1>2, <1>3 DEF Perform

LEMMA CaptureKeeps ==
  ASSUME JournalIInv, NEW op \in {"screenshot", "start"}, Capture(op)
  PROVE  JournalIInv'
  <1>1. /\ ~InTransit /\ runner = "ready" /\ session = "running"
        /\ UNCHANGED <<disk, runner, active, device>>
    BY NoRecord DEF Capture, Ask, Ready
  <1>2. CASE \E t \in Stamp : Request(op, ordinals.captures + 1, ordinals.captures + 1, t)
    <2>1. ordinals.captures \in Nat /\ ordinals.captures + 1 \in Nat
      BY JournalTypeFacts DEF JournalIInv
    <2> QED BY <1>1, <1>2, <2>1, RequestKeeps
  <1>3. CASE Abandon(op)
    BY <1>1, <1>3, AbandonKeeps
  <1> QED BY <1>2, <1>3 DEF Capture

LEMMA CleanUpKeeps ==
  ASSUME JournalIInv, NEW op \in Cleanup, CleanUp(op)
  PROVE  JournalIInv'
  <1>1. /\ ~InTransit /\ runner = "ready" /\ session = "running" /\ op = "stop"
        /\ UNCHANGED <<disk, runner, active, device>>
    BY NoRecord DEF CleanUp, Ask, Ready, Cleanup
  <1>2. CASE \E t \in Stamp : Request(op, ordinals.captures + 1, active, t)
    <2>1. ordinals.captures \in Nat /\ ordinals.captures + 1 \in Nat /\ active \in Nat
      BY JournalTypeFacts DEF JournalIInv
    <2> QED BY <1>1, <1>2, <2>1, RequestKeeps
  <1>3. CASE UNCHANGED <<journal, call, ordinals>>
    BY <1>1, <1>3, CalmKeeps DEF disk, journal
  <1> QED BY <1>2, <1>3 DEF CleanUp

\* A new journal, in a directory of its own.
LEMMA ConnectKeeps ==
  ASSUME JournalIInv, Connect
  PROVE  JournalIInv'
  <1>t. /\ JournalTypes /\ SentInv /\ FlightInv /\ TruthInv /\ ReadInv /\ CallInv /\ StepInv
        /\ folders \in Nat
    BY JournalTypeFacts DEF JournalIInv
  <1>a. /\ runner = "off" /\ runner' = "observe" /\ folders' = folders + 1
        /\ UNCHANGED <<session, log, note, call, active, ordinals, flight, recording, sent,
                       acted>>
        /\ sink' = NewSink /\ (log # <<>> => Complete(Known))
    BY DEF Connect, calling, device, MakeFolder, MayOpenSink, ReadsComplete, Known
  <1>b. /\ note = NoNote /\ call = NoCall
    BY <1>a, <1>t DEF CallInv
  <1>c. /\ sink' \in [journal : Nat, seq : Nat, open : BOOLEAN, verifier : Verifier]
        /\ sink'.journal = folders + 1 /\ sink'.seq = 0 /\ sink'.verifier = NewVerifier
    BY <1>a, <1>t, NewVerifierInv DEF NewSink
  <1>r. Reading' = Reading /\ Known' = Known
    BY <1>a, ReadingLeft
  <1>1. ReadInv'
    BY <1>a, <1>r, <1>t DEF ReadInv
  <1>2. JournalTypes'
    BY <1>a, <1>c, <1>t DEF JournalTypes
  <1>3. SentInv'
    <2>1. ASSUME NEW r \in sent
          PROVE  /\ r.journal \in 1..(folders + 1) /\ r.journal # folders + 1 /\ r.ord > 0
                 /\ r.op = "action" => r.cord = 0
                 /\ r.op = "start" => r.cord = r.ord
                 /\ r.op # "stop" => \E i \in DOMAIN log : IsRecord(i, "requested", r)
      BY <1>t DEF SentInv
    <2> QED BY <1>a, <1>c, <1>t, <2>1 DEF SentInv, IsRecord
  <1>4. FlightInv' /\ TruthInv'
    BY <1>a, <1>r, <1>t DEF FlightInv, TruthInv, SaysDone, Told, Unsettled
  <1>5. SinkInv'
    <2>1. ~InTransit' /\ note'.step = "none" /\ Base' = NewVerifier
      BY <1>a, <1>b, <1>c, BlankFacts DEF InTransit, Base
    <2>2. Reading.journal < folders + 1 /\ folders + 1 > 0
      BY <1>t DEF ReadInv
    <2> QED BY <1>a, <1>c, <1>r, <1>t, <2>1, <2>2 DEF SinkInv
  <1>6. TransitInv' /\ CallInv' /\ StepInv'
    BY <1>a, <1>b, BlankFacts, NoCallFacts DEF TransitInv, InTransit, CallInv, StepInv
  <1> QED BY <1>1, <1>2, <1>3, <1>4, <1>5, <1>6 DEF JournalIInv

LEMMA ObserveKeeps ==
  ASSUME JournalIInv, Observe
  PROVE  JournalIInv'
  <1>t. /\ JournalTypes /\ CallInv /\ ordinals.actions \in Nat /\ ordinals.captures \in Nat
    BY JournalTypeFacts DEF JournalIInv
  <1>a. /\ runner = "observe" /\ ~InTransit /\ Submit(Blank)
        /\ UNCHANGED <<session, log, folders, runner, call, active, ordinals, device>>
    BY BlankFacts DEF Observe, InTransit, disk, calling
  <1>b. call = NoCall
    BY <1>a, <1>t DEF CallInv
  <1>1. /\ sink' \in [journal : Nat, seq : Nat, open : BOOLEAN, verifier : Verifier]
        /\ note' \in [step : {"none", "publish", "refer", "written", "refused"},
                      evidence : Evidence]
        /\ SinkInv' /\ note'.evidence = Blank /\ sink'.journal = sink.journal
    BY <1>a, BlankFacts, Submitted
  <1>2. ReadInv' /\ FlightInv' /\ TruthInv'
    BY <1>a, LogLeft
  <1>3. SentInv'
    BY <1>1, <1>a, <1>t, SentKept DEF device
  <1>4. JournalTypes'
    BY <1>1, <1>a, <1>t DEF JournalTypes, device
  <1>5. TransitInv' /\ CallInv' /\ StepInv'
    BY <1>1, <1>a, <1>b, BlankFacts, NoCallFacts DEF TransitInv, InTransit, CallInv, StepInv
  <1> QED BY <1>1, <1>2, <1>3, <1>4, <1>5 DEF JournalIInv

LEMMA DisconnectKeeps ==
  ASSUME JournalIInv, Disconnect
  PROVE  JournalIInv'
  <1>1. /\ Leave /\ UNCHANGED <<folders, device, log>>
        /\ session' \in {"draft", "running", "paused", "over"}
    BY DEF Disconnect, JournalIInv, JournalTypes
  <1> QED BY <1>1, GoneKeeps

LEMMA ObservedKeeps ==
  ASSUME JournalIInv, Observed
  PROVE  JournalIInv'
  <1>1. CASE Disconnect
    BY <1>1, DisconnectKeeps
  <1>2. CASE /\ runner' = "ready" /\ note' = NoNote /\ Written
             /\ UNCHANGED <<disk, current, sink, calling, device>>
    <2>t. /\ JournalTypes /\ CallInv /\ SinkInv
          /\ ordinals.actions \in Nat /\ ordinals.captures \in Nat
      BY JournalTypeFacts DEF JournalIInv
    <2>a. /\ runner = "observe" /\ note.step = "written" /\ ~InTransit
          /\ UNCHANGED <<session, log, folders, sink, call, active, ordinals, device>>
      BY <1>2 DEF Observed, Written, InTransit, disk, calling
    <2>b. call = NoCall
      BY <2>a, <2>t DEF CallInv
    <2>r. Reading' = Reading /\ Known' = Known
      BY <2>a, ReadingLeft
    <2>1. ReadInv' /\ FlightInv' /\ TruthInv'
      BY <2>a, LogLeft
    <2>2. SentInv'
      BY <2>a, <2>t, SentKept DEF device
    <2>3. JournalTypes'
      BY <1>2, <2>a, <2>t, BlankFacts DEF JournalTypes, device
    <2>4. SinkInv'
      <3>1. ~InTransit' /\ note'.step = "none" /\ Base' = Base
        BY <1>2, <2>a, <2>r, BlankFacts DEF InTransit, Base
      <3> QED BY <1>2, <2>a, <2>r, <2>t, <3>1 DEF SinkInv
    <2>5. TransitInv' /\ CallInv' /\ StepInv'
      BY <1>2, <2>a, <2>b, BlankFacts, NoCallFacts DEF TransitInv, InTransit, CallInv,
         StepInv
    <2> QED BY <2>1, <2>2, <2>3, <2>4, <2>5 DEF JournalIInv
  <1> QED BY <1>1, <1>2 DEF Observed

-----------------------------------------------------------------------------
(* The journal: the theorems.                                              *)

\* The invariant holds at first.
LEMMA JournalInitInv == JournalInit => JournalIInv
  <1> SUFFICES ASSUME JournalInit PROVE JournalIInv
    OBVIOUS
  <1> USE DEF JournalInit
  <1>1. log \in Seq(AnyReference) /\ Len(log) = 0 /\ DOMAIN log = {}
    OBVIOUS
  <1>2. Reader([n \in 0..0 |-> Unread], log)
    BY <1>1 DEF Reader
  <1>3. Reading = Unread
    <2>1. Reading = [n \in 0..0 |-> Unread][Len(log)]
      BY <1>1, <1>2, ReadingIs
    <2> QED BY <1>1, <2>1
  <1>4. Known = NewVerifier /\ Reading.ok /\ Reading.journal = 0 /\ Reading.seq = 0
    BY <1>3 DEF Known, Unread
  <1>5. ReadInv
    BY <1>1, <1>2, <1>4, NewVerifierInv DEF ReadInv
  <1>6. /\ sink \in [journal : Nat, seq : Nat, open : BOOLEAN, verifier : Verifier]
        /\ ~sink.open /\ sink.journal = 0
        /\ ordinals \in [actions : Nat, captures : Nat]
    BY NewVerifierInv DEF NoSink, NoOrdinals
  <1>7. JournalTypes
    BY <1>1, <1>6, BlankFacts, NoCallFacts DEF JournalTypes, Silence
  <1>8. SinkInv /\ SentInv /\ FlightInv /\ TruthInv
    BY <1>1, <1>6, BlankFacts DEF SinkInv, SentInv, FlightInv, TruthInv, InTransit
  <1>9. TransitInv /\ CallInv /\ StepInv
    BY <1>6, BlankFacts, NoCallFacts DEF TransitInv, CallInv, StepInv, InTransit
  <1> QED BY <1>5, <1>7, <1>8, <1>9 DEF JournalIInv

\* It says nothing of anything but the variables.
LEMMA JournalStutters == JournalIInv /\ UNCHANGED journalVars => JournalIInv'
  BY CalmKeeps DEF journalVars, disk, journal, calling, JournalIInv, JournalTypes

\* Every step keeps it.
LEMMA JournalStep == JournalIInv /\ JournalNext => JournalIInv'
  <1> SUFFICES ASSUME JournalIInv, JournalNext PROVE JournalIInv'
    OBVIOUS
  <1>1. CASE Connect
    BY <1>1, ConnectKeeps
  <1>2. CASE Observe
    BY <1>2, ObserveKeeps
  <1>3. CASE ObserveFails
    BY <1>3, DisconnectKeeps DEF ObserveFails
  <1>4. CASE Observed
    BY <1>4, ObservedKeeps
  <1>5. CASE Start
    <2>1. /\ session' = "running" /\ runner' = runner
          /\ UNCHANGED <<log, folders, sink, note, call, active, ordinals, device>>
      BY <1>5 DEF Start, journal, calling
    <2> QED BY <2>1, CalmKeeps
  <1>6. CASE FinishSession
    <2>1. /\ Leave /\ UNCHANGED <<log, folders, device>>
          /\ session' \in {"draft", "running", "paused", "over"}
      BY <1>6 DEF FinishSession
    <2> QED BY <2>1, GoneKeeps
  <1>7. CASE Crash
    <2>1. /\ Leave /\ UNCHANGED <<folders, device>>
          /\ session' \in {"draft", "running", "paused", "over"}
          /\ log' = log \/ (note.step = "refer" /\ log' = Append(log, Reference))
      BY <1>7 DEF Crash, JournalIInv, JournalTypes
    <2> QED BY <2>1, GoneKeeps
  <1>8. CASE ObservationExpires
    <2>1. /\ UNCHANGED <<session, runner, log, folders, sink, note, call, active, ordinals,
                         device>>
      BY <1>8 DEF ObservationExpires, disk, journal, calling
    <2> QED BY <2>1, CalmKeeps
  <1>9. CASE Perform
    BY <1>9, PerformKeeps
  <1>10. CASE \E op \in {"screenshot", "start"} : Capture(op)
    BY <1>10, CaptureKeeps
  <1>11. CASE \E op \in Cleanup : CleanUp(op)
    BY <1>11, CleanUpKeeps
  <1>12. CASE Look
    <2>1. /\ UNCHANGED <<session, runner, log, folders, sink, note, call, active, ordinals,
                         device>>
      BY <1>12 DEF Look, disk, journal
    <2> QED BY <2>1, CalmKeeps
  <1>13. CASE Steps
    <2>1. CASE Publish
      BY <2>1, PublishKeeps
    <2>2. CASE PublishFails
      <3>1. /\ InTransit /\ Refuse /\ log' = log
            /\ UNCHANGED <<session, folders, runner, call, active, ordinals, device>>
        BY <2>2 DEF PublishFails, InTransit, calling
      <3> QED BY <3>1, RefuseKeeps
    <2>3. CASE Refer
      BY <2>3, ReferKeeps
    <2>4. CASE ReferFails
      <3>1. /\ InTransit /\ Refuse
               /\ (log' = log \/ (note.step = "refer" /\ log' = Append(log, Reference)))
            /\ UNCHANGED <<session, folders, runner, call, active, ordinals, device>>
        BY <2>4 DEF ReferFails, InTransit, calling
      <3> QED BY <3>1, RefuseKeeps
    <2>5. CASE Send
      BY <2>5, SendKeeps
    <2>6. CASE Withdraw
      BY <2>6, WithdrawKeeps
    <2>7. CASE GiveUp
      BY <2>7, GiveUpKeeps
    <2>8. CASE AnswerArrives
      BY <2>8, AnswerArrivesKeeps
    <2>9. CASE Timeout
      BY <2>9, TimeoutKeeps
    <2>10. CASE Return
      BY <2>10, ReturnKeeps
    <2> QED BY <1>13, <2>1, <2>2, <2>3, <2>4, <2>5, <2>6, <2>7, <2>8, <2>9, <2>10 DEF Steps
  <1>14. CASE DeviceActs
    BY <1>14, DeviceActsKeeps
  <1> QED BY <1>1, <1>2, <1>3, <1>4, <1>5, <1>6, <1>7, <1>8, <1>9, <1>10, <1>11, <1>12,
             <1>13, <1>14 DEF JournalNext

\* The invariant of the journal holds for any number of connections, of
\* operations and of failures, and for every signed target.
THEOREM JournalIInvHolds == JournalSpec => []JournalIInv
  <1>1. JournalIInv /\ [JournalNext]_journalVars => JournalIInv'
    BY JournalStep, JournalStutters
  <1> QED BY <1>1, JournalInitInv, PTL DEF JournalSpec

\* What the invariant says of the journal.
LEMMA JournalSays == JournalIInv => JournalInv
  <1> SUFFICES ASSUME JournalIInv PROVE JournalInv
    OBVIOUS
  <1>t. /\ JournalTypes /\ ReadInv /\ SentInv /\ FlightInv /\ TruthInv
    BY DEF JournalIInv
  <1>1. JournalledFirst
    BY <1>t DEF JournalledFirst, SentInv, Cleanup
  <1>2. WrittenIsReadable
    BY <1>t DEF WrittenIsReadable, ReadInv
  <1>3. OutcomesKnown
    <2> SUFFICES ASSUME ReadsComplete PROVE OutcomesKnown
      BY DEF OutcomesKnown
    <2>1. Known.pending = 0 /\ ~Known.uncertain /\ Known.asked = NoCapture
          /\ Known.active = 0
      BY CompleteFacts DEF ReadsComplete, Known
    <2>2. ASSUME recording # Silence PROVE FALSE
      <3>1. recording[2] # 0
        BY <1>t, <2>2, JournalTypeFacts DEF SentInv
      <3> QED BY <1>t, <2>1, <2>2, <3>1 DEF FlightInv, NoCapture
    <2> DEFINE D == {k \in DOMAIN log : /\ log[k].evidence.kind = "finished"
                                        /\ log[k].evidence.op = "action"
                                        /\ log[k].evidence.attempted = "yes"}
               says == {<<log[i].journal, log[i].evidence.ord>> : i \in D}
    <2>3. ASSUME NEW a \in acted PROVE a \in says
      <3>1. a = <<a[1], a[2]>> /\ a[2] # 0
        BY <1>t, JournalTypeFacts DEF SentInv, JournalTypes
      <3>2. SaysDone(a[1], a[2])
        BY <1>t, <2>1, <3>1 DEF TruthInv, Unsettled
      <3>3. PICK i \in DOMAIN log :
              /\ log[i].journal = a[1] /\ log[i].evidence.kind = "finished"
              /\ log[i].evidence.op = "action" /\ log[i].evidence.ord = a[2]
              /\ log[i].evidence.attempted = "yes"
        BY <3>2 DEF SaysDone
      <3> QED BY <3>1, <3>3
    <2>4. ASSUME NEW a \in says PROVE a \in acted
      BY <1>t DEF TruthInv
    <2>5. acted = says
      BY <2>3, <2>4
    <2> QED BY <2>2, <2>5 DEF OutcomesKnown
  <1> QED BY <1>1, <1>2, <1>3 DEF JournalInv

\* The journal and the device agree, or the journal says that they may not:
\* whatever the device was asked for is in the log before, what the sink wrote
\* can be read, and a journal that reads as complete names exactly the actions
\* that were begun (native-identity-executor.ts, native-identity-evidence.ts).
THEOREM JournalInvHolds == JournalSpec => []JournalInv
  BY JournalIInvHolds, JournalSays, PTL

\* Once the outcome of an action is in doubt no action is sent any more, not
\* even by a later process (native-identity-evidence-store.ts).
THEOREM NothingAfterDoubtHolds == JournalSpec => NothingAfterDoubt
  <1> DEFINE Undoubted ==
        \A r \in sent' \ sent : r.op = "action" =>
          \A i \in DOMAIN log : LET e == log[i].evidence IN
            (e.kind = "requested" /\ e.op = "action"
             /\ <<log[i].journal, e.ord>> # <<r.journal, r.ord>>) =>
              \E k \in DOMAIN log :
                /\ IsRecord(k, "finished", [journal |-> log[i].journal, op |-> "action",
                                            ord |-> e.ord])
                /\ log[k].evidence.attempted # "unknown"
  <1>1. JournalIInv /\ [JournalNext]_journalVars => [Undoubted]_journalVars
    <2> SUFFICES ASSUME JournalIInv, JournalNext, NEW r \in sent' \ sent, r.op = "action",
                        NEW i \in DOMAIN log,
                        log[i].evidence.kind = "requested", log[i].evidence.op = "action",
                        <<log[i].journal, log[i].evidence.ord>> # <<r.journal, r.ord>>
                 PROVE  \E k \in DOMAIN log :
                          /\ IsRecord(k, "finished", [journal |-> log[i].journal,
                                                      op |-> "action",
                                                      ord |-> log[i].evidence.ord])
                          /\ log[k].evidence.attempted # "unknown"
      OBVIOUS
    <2>1. Send
      BY DEF JournalNext, Steps, Connect, Observe, ObserveFails, Observed, Disconnect,
         Start, FinishSession, Crash, ObservationExpires, Perform, Capture, CleanUp,
         Look, Publish, PublishFails, Refer, ReferFails, Withdraw, GiveUp,
         AnswerArrives, Timeout, Return, DeviceActs, Carry, device
    <2>2. /\ r = Message /\ call.op = "action" /\ Written /\ call.step = "request"
      BY <2>1 DEF Send, Message, Recorded, Cleanup
    <2>3. /\ Known.pending = call.ord /\ Reading.journal = sink.journal
          /\ call.ord # 0 /\ sink.journal = r.journal /\ call.ord = r.ord
      BY <2>2, UnderWay DEF JournalIInv, StepInv, SinkInv, Agrees, Written, Message
    <2>4. ~Known.uncertain
      BY <2>3 DEF JournalIInv, ReadInv, VerifierInv
    <2>5. ~Unsettled(log[i].journal, log[i].evidence.ord)
      BY <2>3, <2>4 DEF Unsettled
    <2>6. Told(log[i].journal, log[i].evidence.ord)
      BY <2>5 DEF JournalIInv, TruthInv
    <2> QED BY <2>6 DEF Told, IsRecord
  <1> QED BY <1>1, JournalIInvHolds, PTL DEF JournalSpec, NothingAfterDoubt


================================================================================
