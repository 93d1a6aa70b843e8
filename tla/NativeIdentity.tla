---------------------------- MODULE NativeIdentity ----------------------------
(***************************************************************************)
(* Acting on a native device under a signed target, and the journal of it: *)
(* the bridge a run is given (native-identity-runtime.ts, -bridge.ts), the *)
(* executor of actions and captures behind it (-executor.ts,               *)
(* -capture-executor.ts), the sink that keeps every request and every      *)
(* answer as a file referred to from events.jsonl (-evidence-store.ts,     *)
(* -evidence-io.ts), and the verifier that the sink and every later reader *)
(* share (-evidence.ts, -capture-verifier.ts).                             *)
(*                                                                         *)
(* A record is written before the device is asked and after it answered.   *)
(* Files and events are two writes, the answer may be late or lost, the    *)
(* observation expires, and the process may stop between any two steps.    *)
(*                                                                         *)
(* Requests and answers are told apart by their journal, kind and ordinal; *)
(* a time is "in" or "late": whether the observation still held then.      *)
(* NativeBridge and NativeCapture model the device's side.                 *)
(***************************************************************************)
EXTENDS Naturals, Sequences

CONSTANTS
  Policy,        \* the signed manifest: what an observation must show
  Observations,  \* what the bridge may answer
  MaxJournals,   \* bound on the connections of a session
  MaxOperations, \* bound on the operations asked, over the session
  MaxFailures      \* bound on what fails, over the session

\* assertNativeExplorationTargetManifest: every provider allowed, and no other,
\* has one mapping, a function of builds that reaches the signed revision.
ValidPolicy ==
  /\ {m.provider : m \in Policy.mappings} = Policy.providers
  /\ \A m, n \in Policy.mappings :
       m.provider = n.provider /\ m.build = n.build => m = n
  /\ \A p \in Policy.providers :
       \E m \in Policy.mappings : m.provider = p /\ m.revision = Policy.revision

ASSUME IdentityAssumption ==
  ValidPolicy /\ {MaxJournals, MaxOperations, MaxFailures} \subseteq Nat

VARIABLES
  session,   \* session.json: "draft", "running", "paused", "over"
  log,       \* the events with a nativeEvidenceRef: [journal, seq, evidence]
  files,     \* published records: <<journal, seq>>
  folders,   \* journal directories; a journal is the number of its own
  litter,    \* a .pending file was left behind
  runner,        \* the runner: "off", "observe", "ready"
  current,   \* the observation and the approval are in time
  sink,      \* [journal, seq, open, verifier]
  note,      \* the record being written: [step, evidence]
  call,      \* the operation under way
  requests,     \* operations asked so far
  stopped,   \* the executor or its bridge is stopped
  active,    \* captureOrdinal of the capture that may be running, or 0
  ordinals,  \* last ordinal of the actions and of the captures
  flight,    \* requests on their way
  recording, \* what the device records: <<journal, captureOrdinal>>, or None
  failures,    \* what has failed
  sent,      \* requests that left the process (history)
  acted      \* actions the device began (history)

disk == <<session, log, files, folders, litter>>
journal == <<sink, note>>
calling == <<call, requests, stopped, active, ordinals>>
device == <<flight, recording, sent, acted>>
journalVars == <<disk, runner, current, journal, calling, device, failures>>

Silence == <<0, 0>>
\* A discard is a stop that keeps no media; the journal treats them alike.
Cleanup == {"stop"}
Captures == {"screenshot", "start"} \cup Cleanup
Operations == {"action"} \cup Captures

NoReceipt == [given |-> FALSE, ok |-> FALSE, attempted |-> "unknown",
              stopped |-> FALSE, at |-> "in"]
NoCall == [op |-> "none", ord |-> 0, cord |-> 0, step |-> "none",
           prepared |-> FALSE, failed |-> FALSE, started |-> "none",
           receipt |-> NoReceipt]
Blank == [kind |-> "observation", op |-> "none", ord |-> 0, cord |-> 0,
          at |-> "in", started |-> "none", status |-> "completed",
          attempted |-> "no", receipt |-> NoReceipt]
NoNote == [step |-> "none", evidence |-> Blank]

Fault == failures < MaxFailures /\ failures' = failures + 1

-----------------------------------------------------------------------------
(* The identity of the target.                                             *)

\* nativeActionLease and the required fields: observed, not only declared.
Leasable(o) == \A f \in {"appId", "appBuild", "deviceDigest"} : o[f] # "unobserved"

\* The revision the mapping of this provider gives to the build, if any.
RevisionOf(o) == {m.revision : m \in {n \in Policy.mappings :
                     n.provider = o.provider /\ n.build = o.appBuild}}

\* verifyNativeIdentityObservation, beyond the times.
Verified(o) ==
  /\ o.provider \in Policy.providers /\ Leasable(o)
  /\ o.appId = Policy.appId /\ o.deviceDigest = Policy.deviceDigest
  /\ RevisionOf(o) = {Policy.revision}
  /\ o.declared \in {"nothing", Policy.revision}

-----------------------------------------------------------------------------
(* The verifier of a journal.                                              *)

NoCapture == [op |-> "none", ord |-> 0, cord |-> 0]
NewVerifier ==
  [seen |-> FALSE, pending |-> 0, ord |-> 0, stopped |-> FALSE,
   uncertain |-> FALSE, asked |-> NoCapture, active |-> 0, shots |-> 0,
   blind |-> FALSE, blocked |-> FALSE]

\* Nothing is left open, of actions and of captures.
CaptureComplete(v) == v.asked = NoCapture /\ v.active = 0 /\ ~v.blind

\* Mutant of Complete: an answer of unknown outcome counts as an answer.
CompleteIfAnswered(v) ==
  v.seen /\ v.pending = 0 /\ CaptureComplete(v)

Complete(v) ==
  v.seen /\ v.pending = 0 /\ ~v.uncertain /\ CaptureComplete(v)

\* What the record of an answer must say of itself.
Consistent(e) ==
  /\ e.receipt.given =>
       e.started = "in" /\ e.receipt.at = "in" /\ e.attempted = e.receipt.attempted
  /\ ~e.receipt.given =>
       /\ e.attempted = IF e.started = "none" THEN "no" ELSE "unknown"
       /\ e.status = "failed"
  /\ e.status = "completed" => e.at = "in"

AdmitsAction(v, e) ==
  /\ v.seen /\ ~v.stopped /\ ~v.blocked /\ v.asked = NoCapture
  /\ \/ e.kind = "requested" /\ v.pending = 0 /\ e.ord = v.ord + 1 /\ e.at = "in"
     \/ e.kind = "finished" /\ v.pending = e.ord /\ Consistent(e)

AdmitsCapture(v, e) ==
  /\ v.seen /\ v.pending = 0
  /\ \/ /\ e.kind = "requested" /\ v.asked = NoCapture /\ e.ord = v.shots + 1
        /\ IF e.op \in Cleanup
           THEN v.active # 0 /\ e.cord = v.active
           ELSE /\ ~v.stopped /\ ~v.blocked /\ e.at = "in"
                /\ e.op = "start" => v.active = 0
     \/ /\ e.kind = "finished" /\ v.asked.op = e.op /\ v.asked.ord = e.ord
        /\ e.op \notin Cleanup => e.started \in {"none", "in"}
        /\ e.receipt.given => e.started # "none"
        /\ ~e.receipt.given => e.status = "failed"
        /\ (e.status = "completed" /\ e.op \notin Cleanup /\ e.receipt.ok) =>
             e.receipt.at = "in" /\ e.at = "in"

Admits(v, e) ==
  CASE e.kind = "observation" -> ~v.seen
    [] e.op = "action" -> AdmitsAction(v, e)
    [] e.op \in Captures -> AdmitsCapture(v, e)

AfterAction(v, e) ==
  IF e.kind = "requested" THEN [v EXCEPT !.pending = e.ord, !.ord = e.ord]
  ELSE [v EXCEPT !.pending = 0, !.uncertain = e.attempted = "unknown",
                 !.stopped = e.status = "failed" \/ ~e.receipt.ok]

\* Mutant of AfterCapture: a start that was not answered has started nothing.
AfterAnsweredCapture(v, e) ==
  IF e.kind = "requested"
  THEN [v EXCEPT !.asked = [op |-> e.op, ord |-> e.ord, cord |-> e.cord],
                 !.shots = e.ord]
  ELSE [v EXCEPT
          !.asked = NoCapture,
          !.active = CASE e.op = "start" /\ e.receipt.given
                            /\ ~e.receipt.stopped -> v.asked.cord
                       [] e.op \in Cleanup /\ e.receipt.stopped -> 0
                       [] OTHER -> @,
          !.blind = @ \/ (e.op = "screenshot" /\ e.started # "none" /\ ~e.receipt.given),
          !.blocked = @ \/ e.status = "failed" \/ ~e.receipt.ok]

AfterCapture(v, e) ==
  IF e.kind = "requested"
  THEN [v EXCEPT !.asked = [op |-> e.op, ord |-> e.ord, cord |-> e.cord],
                 !.shots = e.ord]
  ELSE [v EXCEPT
          !.asked = NoCapture,
          !.active = CASE e.op = "start" /\ e.started # "none"
                            /\ ~e.receipt.stopped -> v.asked.cord
                       [] e.op \in Cleanup /\ e.receipt.stopped -> 0
                       [] OTHER -> @,
          !.blind = @ \/ (e.op = "screenshot" /\ e.started # "none" /\ ~e.receipt.given),
          !.blocked = @ \/ e.status = "failed" \/ ~e.receipt.ok]

After(v, e) ==
  CASE e.kind = "observation" -> [v EXCEPT !.seen = TRUE]
    [] e.op = "action" -> AfterAction(v, e)
    [] e.op \in Captures -> AfterCapture(v, e)

-----------------------------------------------------------------------------
(* Reading the journals back.                                              *)

\* ok until a record is refused; the journals are read one after the other.
Unread == [ok |-> TRUE, journal |-> 0, seq |-> 0, verifier |-> NewVerifier]

ReadRecord(r, ref) ==
  LET next == ref.journal # r.journal
      v == IF next THEN NewVerifier ELSE r.verifier
  IN [ok |-> /\ r.ok /\ Admits(v, ref.evidence)
             /\ next => r.journal = 0 \/ Complete(r.verifier)
             /\ next => ref.journal > r.journal
             /\ ref.seq = IF next THEN 1 ELSE r.seq + 1,
      journal |-> ref.journal, seq |-> ref.seq,
      verifier |-> IF Admits(v, ref.evidence) THEN After(v, ref.evidence) ELSE v]

Referred == {<<log[i].journal, log[i].seq>> : i \in DOMAIN log}

\* verifyInventory: exactly what is referred to is there.
Tidy ==
  /\ ~litter /\ files = Referred
  /\ \A j \in 1..folders : \E f \in files : f[1] = j

\* readSessionNativeEvidence: what has been read after each record.
Reading ==
  LET after[n \in 0..Len(log)] ==
        IF n = 0 THEN Unread ELSE ReadRecord(after[n - 1], log[n])
  IN after[Len(log)]
Readable == Tidy /\ Reading.ok
ReadsComplete == log # <<>> /\ Complete(Reading.verifier)

-----------------------------------------------------------------------------
(* The sink.                                                               *)

Live == session \in {"draft", "paused", "running"}

\* createSessionNativeEvidenceSink
MayOpenSink == /\ Readable /\ Live /\ folders < MaxJournals
               /\ log # <<>> => ReadsComplete
NewSink == [journal |-> folders + 1, seq |-> 0, open |-> TRUE, verifier |-> NewVerifier]

\* createNativeEvidenceDirectory, which must not exist yet.
MakeFolder == folders' = folders + 1

\* record, up to its first await.
Submit(e) ==
  IF sink.open /\ Admits(sink.verifier, e)
  THEN /\ note' = [step |-> "publish", evidence |-> e]
       /\ sink' = [sink EXCEPT !.verifier = After(@, e)]
  ELSE /\ note' = [step |-> "refused", evidence |-> e]
       /\ sink' = [sink EXCEPT !.open = FALSE]

NextFile == <<sink.journal, sink.seq + 1>>

\* The temporary file is written, linked under its name and removed.
Publish ==
  /\ note.step = "publish" /\ Live
  /\ files' = files \cup {NextFile} /\ note' = [note EXCEPT !.step = "refer"]
  /\ UNCHANGED <<session, log, folders, litter, runner, current, sink, calling, device, failures>>

\* What a publication that did not end leaves: the temporary file, the record.
Remains ==
  /\ litter' \in {litter, TRUE}
  /\ files' \in {files, files \cup {NextFile}}

Refuse ==
  /\ note' = [note EXCEPT !.step = "refused"]
  /\ sink' = [sink EXCEPT !.open = FALSE]

\* The session cannot be read while another process writes it, a directory is
\* replaced, or the time of five seconds is over.
PublishFails ==
  /\ note.step = "publish" /\ (Fault \/ (~Live /\ UNCHANGED failures))
  /\ IF Live THEN Remains ELSE UNCHANGED <<litter, files>>
  /\ Refuse
  /\ UNCHANGED <<session, log, folders, runner, current, calling, device>>

Reference == [journal |-> sink.journal, seq |-> sink.seq + 1, evidence |-> note.evidence]

\* The checkpoint event that refers to the record.
Refer ==
  /\ note.step = "refer"
  /\ log' = Append(log, Reference)
  /\ sink' = [sink EXCEPT !.seq = @ + 1] /\ note' = [note EXCEPT !.step = "written"]
  /\ UNCHANGED <<session, files, folders, litter, runner, current, calling, device, failures>>

\* Refused by the session store, or appended too late.
ReferFails ==
  /\ note.step = "refer" /\ Fault
  /\ log' \in {log, Append(log, Reference)}
  /\ Refuse
  /\ UNCHANGED <<session, files, folders, litter, runner, current, calling, device>>

Written == note.step = "written"
Recorded == note.step \in {"written", "refused"}

-----------------------------------------------------------------------------
(* Connecting.                                                             *)

NoSink == [journal |-> 0, seq |-> 0, open |-> FALSE, verifier |-> NewVerifier]
NoOrdinals == [actions |-> 0, captures |-> 0]

JournalInit ==
  /\ session = "draft" /\ log = <<>> /\ files = {} /\ folders = 0 /\ litter = FALSE
  /\ runner = "off" /\ current = FALSE /\ sink = NoSink /\ note = NoNote
  /\ call = NoCall /\ requests = 0 /\ stopped = FALSE /\ active = 0
  /\ ordinals = NoOrdinals
  /\ flight = {} /\ recording = Silence /\ sent = {} /\ acted = {} /\ failures = 0

\* The process is gone, and with it what it knew.
Leave ==
  /\ runner' = "off" /\ current' = FALSE /\ sink' = NoSink /\ note' = NoNote
  /\ call' = NoCall /\ UNCHANGED requests /\ stopped' = FALSE /\ active' = 0
  /\ ordinals' = NoOrdinals

\* prepareNativeIdentityRuntime and its connect: what was saved is read before
\* the bridge is asked for an identity.
Connect ==
  /\ runner = "off" /\ session \in {"draft", "paused"}
  /\ session = "paused" => ReadsComplete
  /\ MayOpenSink
  /\ MakeFolder /\ sink' = NewSink /\ runner' = "observe"
  /\ UNCHANGED <<session, log, files, litter, current, note, calling, device, failures>>

\* createNativeIdentityExecutor: an observation that holds is recorded.
Observe ==
  /\ runner = "observe" /\ note = NoNote
  /\ \E o \in Observations : Verified(o)
  /\ Submit(Blank) /\ current' = TRUE
  /\ UNCHANGED <<disk, runner, calling, device, failures>>

\* `explore run` gives its session up, `explore resume` leaves it as it was.
Disconnect ==
  /\ Leave
  /\ session' \in {session} \cup (IF folders = 1 /\ session = "draft" THEN {"over"} ELSE {})
  /\ UNCHANGED <<log, files, folders, litter, device>>

ObserveFails ==
  /\ runner = "observe" /\ note = NoNote
  /\ \/ Fault
     \/ (\E o \in Observations : ~Verified(o)) /\ UNCHANGED failures
  /\ Disconnect

Observed ==
  /\ runner = "observe" /\ Recorded
  /\ IF Written /\ current
     THEN /\ runner' = "ready" /\ note' = NoNote
          /\ UNCHANGED <<disk, current, sink, calling, device>>
     ELSE Disconnect
  /\ UNCHANGED failures

\* executeSession
Start ==
  /\ runner = "ready" /\ session \in {"draft", "paused"}
  /\ session' = "running"
  /\ UNCHANGED <<log, files, folders, litter, runner, current, journal, calling, device, failures>>

FinishSession ==
  /\ runner = "ready" /\ session = "running" /\ call = NoCall
  /\ session' \in {"paused", "over"} /\ Leave
  /\ UNCHANGED <<log, files, folders, litter, device, failures>>

Crash ==
  /\ runner # "off" /\ Fault /\ Leave
  /\ IF note.step = "publish" THEN Remains ELSE UNCHANGED <<litter, files>>
  /\ log' \in {log} \cup (IF note.step = "refer" THEN {Append(log, Reference)} ELSE {})
  /\ UNCHANGED <<session, folders, device>>

-----------------------------------------------------------------------------
(* Operations.                                                             *)

\* A time taken now; the last check may have been the last moment.
Stamped(t) == /\ t = "in" => current
              /\ current' = (t = "in")

Stamp == {"in", "late"}

ObservationExpires ==
  /\ current /\ current' = FALSE
  /\ UNCHANGED <<disk, runner, journal, calling, device, failures>>

Ready == runner = "ready" /\ session = "running" /\ call = NoCall
Ask == Ready /\ requests < MaxOperations /\ requests' = requests + 1

RecordOf(kind, op, ord, cord, t) ==
  [Blank EXCEPT !.kind = kind, !.op = op, !.ord = ord, !.cord = cord, !.at = t]

\* The request, and the record of it.
Request(op, ord, cord, t) ==
  /\ call' = [NoCall EXCEPT !.op = op, !.ord = ord, !.cord = cord, !.step = "request"]
  /\ ordinals' = IF op = "action" THEN [ordinals EXCEPT !.actions = ord]
                                  ELSE [ordinals EXCEPT !.captures = ord]
  /\ Submit(RecordOf("requested", op, ord, cord, t))

\* A failed capture stops the executor, and what it may have left running.
Abandon(op) ==
  /\ stopped' = TRUE
  /\ IF active # 0 /\ op \in {"start", "screenshot"}
     THEN \E t \in Stamp : Stamped(t) /\ Request("stop", ordinals.captures + 1, active, t)
     ELSE call' = NoCall /\ note' = NoNote /\ UNCHANGED <<current, sink, ordinals>>

ApprovalFails == (~current /\ UNCHANGED failures) \/ Fault

\* perform of the executor
Perform ==
  /\ Ask /\ ~stopped
  /\ \/ /\ current /\ \E t \in Stamp : Stamped(t) /\ Request("action", ordinals.actions + 1, 0, t)
        /\ UNCHANGED <<stopped, failures>>
     \/ /\ ApprovalFails /\ stopped' = TRUE
        /\ UNCHANGED <<journal, call, ordinals, current>>
  /\ UNCHANGED <<disk, runner, active, device>>

\* perform of the capture executor
Capture(op) ==
  /\ Ask /\ ~stopped
  /\ LET n == ordinals.captures + 1 IN
     \/ /\ current /\ ~(op = "start" /\ active # 0)
        /\ \E t \in Stamp : Stamped(t) /\ Request(op, n, n, t)
        /\ UNCHANGED <<stopped, failures>>
     \/ (ApprovalFails \/ (op = "start" /\ active # 0 /\ UNCHANGED failures)) /\ Abandon(op)
  /\ UNCHANGED <<disk, runner, active, device>>

\* Stopping or discarding is allowed to a stopped executor.
CleanUp(op) ==
  /\ Ask
  /\ IF active # 0
     THEN /\ \E t \in Stamp : Stamped(t) /\ Request(op, ordinals.captures + 1, active, t)
          /\ UNCHANGED stopped
     ELSE stopped' = TRUE /\ UNCHANGED <<current, journal, call, ordinals>>
  /\ UNCHANGED <<disk, runner, active, device, failures>>

\* Looking at the screen, which must still be that of the target.
Look ==
  /\ Ready /\ ~stopped /\ ApprovalFails /\ stopped' = TRUE
  /\ UNCHANGED <<disk, runner, current, journal, call, requests, active, ordinals, device>>

Message == [journal |-> sink.journal, op |-> call.op, ord |-> call.ord, cord |-> call.cord]

\* Only cleaning up goes on without a record and without a check.
Send ==
  /\ call.step = "request"
  /\ Written \/ (Recorded /\ call.op \in Cleanup)
  /\ call.op \notin Cleanup => current
  /\ \E t \in Stamp :
       /\ Stamped(t)
       /\ call' = [call EXCEPT !.step = "wait", !.started = t,
                               !.prepared = Written, !.failed = ~Written]
  /\ flight' = flight \cup {Message} /\ sent' = sent \cup {Message}
  /\ active' = IF call.op = "start" THEN call.ord ELSE active
  /\ note' = NoNote
  /\ UNCHANGED <<disk, runner, sink, requests, stopped, ordinals, recording, acted, failures>>

\* The record of how it ended.
Close(failed, receipt, started, t) ==
  /\ call' = [call EXCEPT !.step = "finish", !.failed = failed, !.receipt = receipt]
  /\ IF call.step = "request" \/ call.prepared
     THEN Submit([RecordOf("finished", call.op, call.ord, call.cord, t) EXCEPT
            !.started = started, !.receipt = receipt,
            !.status = IF failed THEN "failed" ELSE "completed",
            !.attempted = IF receipt.given THEN receipt.attempted
                          ELSE IF started = "none" THEN "no" ELSE "unknown"])
     ELSE note' = [step |-> "refused", evidence |-> Blank] /\ UNCHANGED sink

\* The check between the record and the sending fails.
Withdraw ==
  /\ call.step = "request" /\ Written /\ call.op \notin Cleanup /\ ApprovalFails
  /\ \E t \in Stamp : Stamped(t) /\ Close(TRUE, NoReceipt, "none", t)
  /\ UNCHANGED <<disk, runner, requests, stopped, active, ordinals, device>>

\* The request could not be recorded.
GiveUp ==
  /\ call.step = "request" /\ note.step = "refused" /\ call.op \notin Cleanup
  /\ IF call.op = "action"
     THEN /\ stopped' = TRUE /\ call' = NoCall /\ note' = NoNote
          /\ UNCHANGED <<current, sink, ordinals>>
     ELSE Abandon(call.op)
  /\ UNCHANGED <<disk, runner, requests, active, device, failures>>

-----------------------------------------------------------------------------
(* The device, and its answer.                                             *)

Outcome(ok, attempted, over) ==
  [given |-> TRUE, ok |-> ok, attempted |-> attempted, stopped |-> over, at |-> "in"]

\* What the device can make of a request; nothing, if it refuses it.
Outcomes(r) ==
  CASE r.op = "action" -> {Outcome(TRUE, "yes", FALSE), Outcome(FALSE, "yes", FALSE),
                           Outcome(FALSE, "no", FALSE)}
    [] r.op = "screenshot" -> {Outcome(b, "yes", FALSE) : b \in BOOLEAN}
    [] r.op = "start" -> IF recording # Silence THEN {}
                         ELSE {Outcome(TRUE, "yes", FALSE)}
                              \cup {Outcome(FALSE, "yes", b) : b \in BOOLEAN}
    [] r.op \in Cleanup -> IF recording # <<r.journal, r.cord>> THEN {}
                           ELSE {Outcome(TRUE, "yes", TRUE)}
                                \cup {Outcome(FALSE, "yes", b) : b \in BOOLEAN}

Carry(r, o) ==
  /\ flight' = flight \ {r}
  /\ acted' = IF r.op = "action" /\ o.attempted = "yes"
              THEN acted \cup {<<r.journal, r.ord>>} ELSE acted
  /\ recording' = IF r.op = "start" /\ ~o.stopped THEN <<r.journal, r.cord>>
                  ELSE IF r.op \in Cleanup /\ o.stopped THEN Silence ELSE recording
  /\ UNCHANGED sent

\* Carried out, and the answer does not arrive; or refused.
DeviceActs ==
  /\ \E r \in flight : \/ \E o \in Outcomes(r) : Carry(r, o)
                       \/ /\ flight' = flight \ {r}
                          /\ UNCHANGED <<recording, sent, acted>>
  /\ UNCHANGED <<disk, runner, current, journal, calling, failures>>

\* An answer arrives, is checked, and so is the observation once more.
AnswerArrives ==
  /\ call.step = "wait" /\ Message \in flight
  /\ \E o \in Outcomes(Message), c, t, d \in Stamp :
       LET receipt == [o EXCEPT !.at = c]
           bad == call.failed \/ (t = "late" /\ call.op \notin Cleanup)
                  \/ (call.op # "action" /\ ~o.ok)
       IN /\ c = "in" => call.started = "in"
          /\ c = "late" => t = "late"
          /\ t = "in" => current
          /\ d = "in" => t = "in"
          /\ current' = (d = "in")
          /\ Carry(Message, o)
          /\ active' = IF o.stopped /\ call.op \in Cleanup \cup {"start"} THEN 0 ELSE active
          /\ Close(bad, receipt, call.started, d)
  /\ UNCHANGED <<disk, runner, requests, stopped, ordinals, failures>>

\* Mutant of Timeout: no limit, only a connection that is refused.
TimeoutIfRefused ==
  /\ call.step = "wait" /\ Message \in flight
  /\ \E t \in Stamp : Stamped(t) /\ Close(TRUE, NoReceipt, call.started, t)
  /\ UNCHANGED <<disk, runner, requests, stopped, active, ordinals, device, failures>>

\* The time is over, or the answer is not an answer to this request.
Timeout ==
  /\ call.step = "wait"
  /\ \E t \in Stamp : Stamped(t) /\ Close(TRUE, NoReceipt, call.started, t)
  /\ UNCHANGED <<disk, runner, requests, stopped, active, ordinals, device, failures>>

Return ==
  /\ call.step = "finish" /\ Recorded
  /\ LET bad == call.failed \/ ~Written IN
     IF call.op # "action" /\ bad THEN Abandon(call.op)
     ELSE /\ stopped' = (stopped \/ bad \/ (call.op = "action" /\ ~call.receipt.ok))
          /\ call' = NoCall /\ note' = NoNote /\ UNCHANGED <<current, sink, ordinals>>
  /\ UNCHANGED <<disk, runner, requests, active, device, failures>>

-----------------------------------------------------------------------------

Steps == \/ Publish \/ PublishFails \/ Refer \/ ReferFails
         \/ Send \/ Withdraw \/ GiveUp \/ AnswerArrives \/ Timeout \/ Return

JournalNext ==
  \/ Connect \/ Observe \/ ObserveFails \/ Observed \/ Start \/ FinishSession \/ Crash
  \/ ObservationExpires \/ Perform \/ (\E op \in {"screenshot", "start"} : Capture(op))
  \/ (\E op \in Cleanup : CleanUp(op)) \/ Look
  \/ Steps \/ DeviceActs

\* Every await of a call has a time limit.
JournalSpec == JournalInit /\ [][JournalNext]_journalVars /\ WF_journalVars(Steps)

-----------------------------------------------------------------------------
(* Properties.                                                             *)

IsRecord(i, kind, r) ==
  /\ log[i].journal = r.journal /\ log[i].evidence.kind = kind
  /\ log[i].evidence.op = r.op /\ log[i].evidence.ord = r.ord

\* Whatever the device is asked for, except to stop recording, is in the
\* session's log before it is asked (native-identity-executor.ts:96-102).
JournalledFirst ==
  \A r \in sent : r.op \notin Cleanup => \E i \in DOMAIN log : IsRecord(i, "requested", r)

\* A journal that reads as complete tells what the device did: every action it
\* began is recorded as begun and no other, and it records nothing - in spite of
\* late and lost answers, and of a crash (native-identity-evidence.ts:52).
OutcomesKnown ==
  Reading.ok /\ ReadsComplete =>
    /\ recording = Silence
    /\ acted = {<<log[i].journal, log[i].evidence.ord>> :
                  i \in {k \in DOMAIN log : /\ log[k].evidence.kind = "finished"
                                           /\ log[k].evidence.op = "action"
                                           /\ log[k].evidence.attempted = "yes"}}

\* What the sink wrote a reader accepts: only an unfinished write can make the
\* journals unreadable (native-identity-evidence-store.ts:71, 122).
WrittenIsReadable == Reading.ok

\* Once the outcome of an action is in doubt, no action is sent any more, not
\* even by a later process (native-identity-evidence-store.ts:114).
NothingAfterDoubt ==
  [][\A r \in sent' \ sent : r.op = "action" =>
       \A i \in DOMAIN log : LET e == log[i].evidence IN
         (e.kind = "requested" /\ e.op = "action" /\ <<log[i].journal, e.ord>> # <<r.journal, r.ord>>) =>
           \E k \in DOMAIN log :
             /\ IsRecord(k, "finished", [journal |-> log[i].journal, op |-> "action", ord |-> e.ord])
             /\ log[k].evidence.attempted # "unknown"]_journalVars

\* Every operation comes back to its caller.
EveryCallReturns == (call # NoCall) ~> (call = NoCall)

\* The journal and the device agree, or the journal says that they may not.
JournalInv ==
  /\ JournalledFirst
  /\ OutcomesKnown
  /\ WrittenIsReadable

=============================================================================
