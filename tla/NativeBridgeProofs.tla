-------------------------- MODULE NativeBridgeProofs --------------------------
(***************************************************************************)
(* Proofs about the device's side, for any number of threads, candidates   *)
(* and screens, any capacity of the tables and any number of reconnections *)
(* (NativeBridge), and for any number of client threads, sessions,         *)
(* captures and frames (NativeCapture).                                    *)
(***************************************************************************)
EXTENDS NativeBridge, NativeCapture, FiniteSetTheorems, TLAPS

-----------------------------------------------------------------------------
(* The inductive invariant.                                                  *)

Session == [id : Nat, display : BOOLEAN, tr : Nat]

Lease == [tr : Nat, display : BOOLEAN, ord : Nat, window : Window \cup {"unbound"},
          over : BOOLEAN]

Job == [op : {"none", "open", "observe", "execute", "recover"},
        step : {"none", "connect", "commit", "query", "fresh", "call", "calling",
                "after"},
        id : Nat, ord : Nat, tr : Nat, display : BOOLEAN,
        cand : Cand \cup {"none"}]

Call == [id : Nat, ord : Nat, gen : Nat]

Types ==
  /\ device \in [gen : Nat, display : BOOLEAN, screen : Screen]
  /\ conn \in [slot : Nat, gens : Seq(Nat), open : SUBSET Nat]
  /\ sessions \subseteq Session /\ IsFiniteSet(sessions)
  /\ DOMAIN leases \subseteq Nat /\ IsFiniteSet(DOMAIN leases)
  /\ leases \in [DOMAIN leases -> Lease]
  /\ job \in [Thread -> Job]
  /\ issued \in Nat
  /\ DOMAIN facts \subseteq Nat /\ facts \in [DOMAIN facts -> Nat]
  /\ calls \in Seq(Call)

Observing(t) == job[t].op = "observe"
Busy(t) == job[t].op \in {"execute", "recover"}

\* A transport was made for a generation that has been, and whatever names one
\* names one that was made.
TransportInv ==
  /\ conn.open \subseteq DOMAIN conn.gens
  /\ \A k \in DOMAIN conn.gens : conn.gens[k] <= device.gen
  /\ \A s \in sessions : s.tr \in DOMAIN conn.gens
  /\ \A t \in Thread : Observing(t) \/ job[t].step = "commit" =>
       job[t].tr \in DOMAIN conn.gens
  /\ \A l \in DOMAIN leases : leases[l].tr \in DOMAIN conn.gens

\* Identifiers that have not been given out, or wait for their observation.
Waiting(k) ==
  \/ k > issued
  \/ \E s \in sessions : s.id = k
  \/ \E t \in Thread : Observing(t) /\ job[t].step = "query" /\ job[t].id = k

Pending(k) ==
  Waiting(k) \/ \E t \in Thread : Observing(t) /\ job[t].id = k

\* An identifier is in one place only ...
SessionIds ==
  /\ \A s \in sessions : s.id \in 1..issued
  /\ \A s, r \in sessions : s.id = r.id => s = r

ObservedIds ==
  \A t \in Thread : Observing(t) =>
    /\ job[t].step \in {"query", "commit"} /\ job[t].id \in 1..issued
    /\ \A s \in sessions : s.id # job[t].id
    /\ \A u \in Thread : Observing(u) /\ job[u].id = job[t].id => u = t

\* ... and stands for nothing before that.
WaitingInv == \A k \in Nat : Waiting(k) => k \notin DOMAIN facts

Untouched(k) ==
  /\ k \notin DOMAIN leases
  /\ \A i \in DOMAIN calls : calls[i].id # k
  /\ \A x \in Nat : <<k, x>> \notin done
  /\ \A t \in Thread : Busy(t) => job[t].id # k

PendingInv == \A k \in Nat : Pending(k) => Untouched(k)

IdsInv == SessionIds /\ ObservedIds /\ WaitingInv /\ PendingInv

\* What was read for an identifier lies between the transport's generation and
\* the device's of now, and under a lease it is the transport's.
FactsInv ==
  /\ \A t \in Thread : Observing(t) /\ job[t].step = "commit" =>
       /\ job[t].id \in DOMAIN facts
       /\ conn.gens[job[t].tr] <= facts[job[t].id]
       /\ facts[job[t].id] <= device.gen
  /\ \A l \in DOMAIN leases :
       l \in DOMAIN facts /\ facts[l] = conn.gens[leases[l].tr]
  /\ \A i \in DOMAIN calls : calls[i].id \in DOMAIN facts
  /\ \A t \in Thread : Busy(t) => job[t].id \in DOMAIN facts

LockInv == \A t \in Thread : Busy(t) => busy = t

\* An operation under way: its lease, if it still is there, is at its ordinal,
\* and all before it, and nothing else, was a success.
AtWork(t) ==
  LET l == job[t].id
      o == job[t].ord
  IN  /\ l \in DOMAIN leases => leases[l].ord = o
      /\ \A x \in 1..(o - 1) : <<l, x>> \in done
      /\ \A x \in Nat : <<l, x>> \in done => x < o

\* It has not called the SDK, or its call is the last one and was made no
\* earlier than the identity of a lease that still is there was read.
NotCalled(t) ==
  \A i \in DOMAIN calls : calls[i].id = job[t].id => calls[i].ord < job[t].ord

LastCalled(t) ==
  LET n == Len(calls)
  IN  /\ n > 0 /\ calls[n].id = job[t].id /\ calls[n].ord = job[t].ord
      /\ calls[n].gen <= device.gen
      /\ job[t].id \in DOMAIN leases => facts[job[t].id] <= calls[n].gen
      /\ \A i \in 1..(n - 1) : calls[i].id = job[t].id => calls[i].ord < job[t].ord

WorkInv ==
  \A t \in Thread : Busy(t) =>
    /\ job[t].step \in {"fresh", "call", "calling", "after"}
    /\ AtWork(t)
    /\ job[t].step # "after" => NotCalled(t)
    /\ job[t].step = "after" => LastCalled(t)

\* A lease under which nothing is under way has succeeded in all of its
\* operations.
AtRest(l) ==
  /\ \A x \in 1..leases[l].ord : <<l, x>> \in done
  /\ \A x \in Nat : <<l, x>> \in done => x <= leases[l].ord
  /\ \A i \in DOMAIN calls : calls[i].id = l => calls[i].ord <= leases[l].ord

RestInv ==
  \A l \in DOMAIN leases :
    (\A t \in Thread : Busy(t) => job[t].id # l) => AtRest(l)

IInv ==
  /\ Types /\ TransportInv /\ IdsInv /\ FactsInv /\ LockInv /\ WorkInv /\ RestInv
  /\ OperationsInOrder /\ SuccessOnObservedDevice /\ TablesBounded

-----------------------------------------------------------------------------
(* What the steps do, by what they may change.                               *)

\* The device, the clock, discovery and the closing of the bridge.
AwayStep ==
  \/ Environment \/ CloseBegin \/ CloseTransport \/ UNCHANGED vars
  \/ \E c \in Cand, s \in Screen : Discover(c, s)

OpenStep(t) == OpenBegin(t) \/ OpenConnect(t) \/ OpenCommit(t)

ReadStep(t) ==
  \/ \E s \in sessions : ObserveBegin(t, s)
  \/ ObserveQuery(t)
  \/ \E i \in BOOLEAN : ObserveCommit(t, i)

WorkStep(t) ==
  \/ \E l \in Id, o \in 1..MaxOrdinal, w \in Window, g \in BOOLEAN :
       \/ \E c \in Cand : PerformBegin(t, l, o, w, "execute", c, g)
       \/ PerformBegin(t, l, o, w, "recover", "none", g)
  \/ PerformFresh(t) \/ PerformCall(t) \/ PerformAfter(t)
  \/ \E r \in BOOLEAN : PerformActs(t, r)

LEMMA StepCases ==
  ASSUME [Next]_vars
  PROVE  \/ AwayStep
         \/ \E t \in Thread : OpenStep(t) \/ ReadStep(t) \/ WorkStep(t)
BY DEF Next, AwayStep, OpenStep, ReadStep, WorkStep, Identity, Operations

\* The other threads stay where they are.
Others(t) == \A u \in Thread : u # t => job'[u] = job[u]

\* The thread goes on to the next step of what it does.
GoesTo(t, step) ==
  /\ job'[t].step = step
  /\ job'[t].op = job[t].op /\ job'[t].id = job[t].id
  /\ job'[t].ord = job[t].ord /\ job'[t].tr = job[t].tr

\* No transport is changed but to be stopped.
Stopping == conn'.gens = conn.gens /\ conn'.open \subseteq conn.open

\* The leases are those there were.
SameLeases ==
  /\ DOMAIN leases' = DOMAIN leases
  /\ \A l \in DOMAIN leases :
       /\ leases'[l].tr = leases[l].tr /\ leases'[l].ord = leases[l].ord
       /\ leases[l].over => leases'[l].over

Away ==
  /\ UNCHANGED <<job, calls, done, facts, busy, issued>>
  /\ Stopping /\ SameLeases
  /\ device' \in [gen : Nat, display : BOOLEAN, screen : Screen]
  /\ device.gen <= device'.gen
  /\ sessions' \subseteq sessions

LEMMA AskedType ==
  ASSUME Types, NEW t \in Nat
  PROVE  /\ Asked(t) \in [slot : Nat, gens : Seq(Nat), open : SUBSET Nat]
         /\ Asked(t).gens = conn.gens /\ Asked(t).open \subseteq conn.open
         /\ Asked(t).slot = conn.slot
         /\ Holds(t) => Asked(t) = conn
BY DEF Types, Asked

LEMMA AwayFrame ==
  ASSUME Types, AwayStep
  PROVE  Away /\ Types'
<1>0. /\ device \in [gen : Nat, display : BOOLEAN, screen : Screen]
      /\ conn \in [slot : Nat, gens : Seq(Nat), open : SUBSET Nat]
      /\ sessions \subseteq Session /\ IsFiniteSet(sessions)
  BY DEF Types
<1>1. CASE \/ Reconnect \/ Turn \/ CloseBegin \/ UNCHANGED vars
           \/ (\E s \in Screen : Show(s))
           \/ (\E c \in Cand, s \in Screen : Discover(c, s))
  <2>1. UNCHANGED <<conn, sessions, leases, facts, busy, job, issued, calls, done>>
    BY <1>1 DEF Reconnect, Turn, CloseBegin, Show, Discover, vars, device_vars,
         lease_vars, history
  <2>2. /\ device' \in [gen : Nat, display : BOOLEAN, screen : Screen]
        /\ device.gen <= device'.gen
    <3>1. CASE Reconnect \/ \E s \in Screen : Show(s)
      BY <1>0, <3>1 DEF Reconnect, Show
    <3>2. CASE Turn
      <4> DEFINE turned == ~device.display
      <4>1. device' = [device EXCEPT !.display = turned]
        BY <3>2 DEF Turn
      <4>2. turned \in BOOLEAN
        OBVIOUS
      <4> HIDE DEF turned
      <4>3. device' \in [gen : Nat, display : BOOLEAN, screen : Screen]
        BY <1>0, <4>1, <4>2
      <4>4. device'.gen = device.gen /\ device.gen \in Nat
        BY <1>0, <4>1
      <4> QED BY <4>3, <4>4
    <3>3. CASE \/ CloseBegin \/ UNCHANGED vars
               \/ (\E c \in Cand, s \in Screen : Discover(c, s))
      BY <1>0, <3>3 DEF CloseBegin, Discover, vars
    <3> QED BY <1>1, <3>1, <3>2, <3>3
  <2> QED BY <2>1, <2>2 DEF Away, Stopping, SameLeases, Types
<1>2. CASE (\E t \in DOMAIN conn.gens : Notice(t)) \/ CloseTransport
  <2>1. UNCHANGED <<device, sessions, leases, facts, busy, job, issued, calls, done>>
    BY <1>2 DEF Notice, CloseTransport, lease_vars, history
  <2>2. /\ conn' \in [slot : Nat, gens : Seq(Nat), open : SUBSET Nat]
        /\ conn'.gens = conn.gens /\ conn'.open \subseteq conn.open
    <3>1. CASE CloseTransport
      BY <1>0, <3>1 DEF CloseTransport
    <3>2. CASE \E t \in DOMAIN conn.gens : Notice(t)
      <4>1. PICK t \in DOMAIN conn.gens : conn' = Asked(t)
        BY <3>2 DEF Notice
      <4>2. t \in Nat
        BY <1>0, <4>1
      <4> QED BY <4>1, <4>2, AskedType
    <3> QED BY <1>2, <3>1, <3>2
  <2> QED BY <1>0, <2>1, <2>2 DEF Away, Stopping, SameLeases, Types
<1>3. CASE \E s \in sessions : SessionExpires(s)
  <2>1. /\ UNCHANGED <<device, conn, leases, facts, busy, job, issued, calls, done>>
        /\ sessions' \subseteq sessions
    BY <1>3 DEF SessionExpires, lease_vars, history
  <2>2. sessions' \subseteq Session /\ IsFiniteSet(sessions')
    BY <1>0, <2>1, FS_Subset
  <2> QED BY <1>0, <2>1, <2>2 DEF Away, Stopping, SameLeases, Types
<1>4. CASE \E l \in Id : LeaseExpires(l)
  <2>1. PICK l \in Id : LeaseExpires(l)
    BY <1>4
  <2>2. UNCHANGED <<device, conn, sessions, facts, busy, job, issued, calls, done>>
    BY <2>1 DEF LeaseExpires, history
  <2>3. /\ leases \in [DOMAIN leases -> Lease] /\ l \in DOMAIN leases
        /\ leases' = [leases EXCEPT ![l].over = TRUE]
    BY <2>1 DEF LeaseExpires, Types, Live
  <2>4. /\ DOMAIN leases' = DOMAIN leases
        /\ leases' \in [DOMAIN leases -> Lease]
        /\ \A k \in DOMAIN leases :
             /\ leases'[k].tr = leases[k].tr /\ leases'[k].ord = leases[k].ord
             /\ leases[k].over => leases'[k].over
    BY <2>3 DEF Lease
  <2> QED BY <1>0, <2>2, <2>4 DEF Away, Stopping, SameLeases, Types
<1> QED BY <1>1, <1>2, <1>3, <1>4 DEF AwayStep, Environment

\* A request that opens a session: it may add a transport, and a session with a
\* new identifier over a transport that is known.
Opens(t) ==
  /\ ~Observing(t) /\ ~Busy(t) /\ ~Observing(t)' /\ ~Busy(t)' /\ Others(t)
  /\ UNCHANGED <<device, leases, facts, calls, done, busy>>
  /\ \/ UNCHANGED <<sessions, issued>>
     \/ /\ issued' = issued + 1 /\ UNCHANGED conn
        /\ Cardinality(sessions) < MaxSessions
        /\ \E tr \in DOMAIN conn.gens, d \in BOOLEAN :
             sessions' = sessions \cup {[id |-> issued + 1, display |-> d, tr |-> tr]}

LEMMA NoJobType ==
  /\ NoJob \in Job /\ NoJob.op = "none" /\ NoJob.step = "none"
BY DEF NoJob, Job

LEMMA Answered ==
  ASSUME Types, NEW t \in Thread, Answer(t)
  PROVE  /\ job' \in [Thread -> Job] /\ Others(t)
         /\ job'[t].op = "none" /\ job'[t].step = "none"
<1>1. job \in [Thread -> Job] /\ NoJob \in Job
  BY NoJobType DEF Types
<1>2. job' = [job EXCEPT ![t] = NoJob]
  BY DEF Answer
<1>3. /\ job' \in [Thread -> Job] /\ job'[t] = NoJob
      /\ \A u \in Thread : u # t => job'[u] = job[u]
  BY <1>1, <1>2
<1> QED BY <1>3, NoJobType DEF Others

\* The transports that are known stay, with the generations they were made for.
Known ==
  /\ \A k \in DOMAIN conn.gens : k \in DOMAIN conn'.gens /\ conn'.gens[k] = conn.gens[k]
  /\ \A k \in DOMAIN conn'.gens : k \in DOMAIN conn.gens \/ conn'.gens[k] = device.gen
  /\ conn'.open \subseteq DOMAIN conn'.gens
  /\ conn' \in [slot : Nat, gens : Seq(Nat), open : SUBSET Nat]

LEMMA Numbered ==
  ASSUME job \in [Thread -> Job], NEW t \in Thread, NEW k \in Nat,
         job' = [job EXCEPT ![t].step = "commit", ![t].tr = k]
  PROVE  /\ job' \in [Thread -> Job]
         /\ job'[t].op = job[t].op /\ job'[t].tr = k
         /\ \A u \in Thread : u # t => job'[u] = job[u]
<1> DEFINE j == [job[t] EXCEPT !.step = "commit", !.tr = k]
<1>1. j \in Job /\ j.op = job[t].op /\ j.tr = k
  BY DEF Job
<1>2. job' = [job EXCEPT ![t] = j]
  OBVIOUS
<1> HIDE DEF j
<1> QED BY <1>1, <1>2

LEMMA ConnectFrame ==
  ASSUME Types, TransportInv, NEW t \in Thread, OpenConnect(t)
  PROVE  /\ Known /\ job' \in [Thread -> Job] /\ Others(t)
         /\ job'[t].op \in {"none", "open"}
         /\ job'[t].step = "commit" => job'[t].tr \in DOMAIN conn'.gens
<1> DEFINE n == Len(conn.gens) + 1
<1>0. /\ conn \in [slot : Nat, gens : Seq(Nat), open : SUBSET Nat]
      /\ conn.open \subseteq DOMAIN conn.gens /\ device.gen \in Nat
      /\ job \in [Thread -> Job] /\ job[t].op = "open"
  BY DEF Types, TransportInv, OpenConnect
<1>1. CASE Answer(t) /\ UNCHANGED conn
  BY <1>0, <1>1, Answered DEF Known
<1>2. CASE Answer(t) /\ conn' = Asked(conn.slot)
  <2>1. conn.slot \in Nat
    BY <1>0
  <2>2. /\ conn'.gens = conn.gens /\ conn'.open \subseteq conn.open
        /\ conn' \in [slot : Nat, gens : Seq(Nat), open : SUBSET Nat]
    BY <1>2, <2>1, AskedType
  <2> QED BY <1>0, <1>2, <2>2, Answered DEF Known
<1>3. CASE /\ conn.slot \in conn.open /\ UNCHANGED conn
           /\ job' = [job EXCEPT ![t].step = "commit", ![t].tr = conn.slot]
  <2>1. /\ job'[t].op = "open" /\ job'[t].tr = conn.slot
        /\ job' \in [Thread -> Job] /\ \A u \in Thread : u # t => job'[u] = job[u]
    BY <1>0, <1>3, Numbered
  <2> QED BY <1>0, <1>3, <2>1 DEF Known, Others
<1>4. CASE /\ conn' = [slot |-> n, gens |-> Append(conn.gens, device.gen),
                       open |-> conn.open \cup {n}]
           /\ job' = [job EXCEPT ![t].step = "commit", ![t].tr = n]
  <2>1. n \in Nat /\ DOMAIN conn.gens = 1..(n - 1) /\ conn.gens \in Seq(Nat)
    BY <1>0
  <2>2. /\ job'[t].op = "open" /\ job'[t].tr = n
        /\ job' \in [Thread -> Job] /\ \A u \in Thread : u # t => job'[u] = job[u]
    BY <1>0, <1>4, <2>1, Numbered
  <2>3. /\ conn'.gens = Append(conn.gens, device.gen) /\ conn'.slot = n
        /\ conn'.open = conn.open \cup {n}
        /\ DOMAIN conn' = {"slot", "gens", "open"}
    BY <1>4
  <2> DEFINE g == Append(conn.gens, device.gen)
  <2>4. /\ g \in Seq(Nat) /\ DOMAIN g = 1..n /\ g[n] = device.gen
        /\ \A k \in 1..(n - 1) : g[k] = conn.gens[k]
    BY <1>0, <2>1
  <2>5. conn' \in [slot : Nat, gens : Seq(Nat), open : SUBSET Nat]
    BY <1>0, <1>4, <2>1, <2>4
  <2> HIDE DEF g, n
  <2>6. conn'.gens = g
    BY <2>3 DEF g
  <2>7. \A k \in 1..n : k = n \/ k \in 1..(n - 1)
    BY <2>1
  <2>8. /\ n \in 1..n /\ 1..(n - 1) \subseteq 1..n
    <3>1. n # 0
      BY <1>0 DEF n
    <3> QED BY <2>1, <3>1
  <2> QED BY <1>0, <2>1, <2>2, <2>3, <2>4, <2>5, <2>6, <2>7, <2>8 DEF Known, Others
<1> QED BY <1>1, <1>2, <1>3, <1>4 DEF OpenConnect, Open, Asked, Holds

LEMMA OpenFrame ==
  ASSUME Types, TransportInv, NEW t \in Thread, OpenStep(t)
  PROVE  /\ Opens(t) /\ Known /\ Types'
         /\ job'[t].step = "commit" => job'[t].tr \in DOMAIN conn'.gens
<1>0. /\ job \in [Thread -> Job] /\ conn.open \subseteq DOMAIN conn.gens
      /\ conn \in [slot : Nat, gens : Seq(Nat), open : SUBSET Nat]
      /\ device \in [gen : Nat, display : BOOLEAN, screen : Screen]
      /\ sessions \subseteq Session /\ IsFiniteSet(sessions) /\ issued \in Nat
  BY DEF Types, TransportInv
<1>1. CASE OpenBegin(t)
  <2> DEFINE j == [NoJob EXCEPT !.op = "open", !.step = "connect",
                                !.display = device.display]
  <2>1. j \in Job /\ j.op = "open" /\ j.step = "connect"
    BY <1>0 DEF NoJob, Job
  <2>2. job' = [job EXCEPT ![t] = j] /\ job[t].op = "none"
    BY <1>1 DEF OpenBegin
  <2> HIDE DEF j
  <2>3. /\ job' \in [Thread -> Job] /\ job'[t].op = "open"
        /\ job'[t].step = "connect" /\ Others(t)
    BY <1>0, <2>1, <2>2 DEF Others
  <2>4. UNCHANGED <<device, conn, sessions, leases, facts, busy, issued, calls, done>>
    BY <1>1 DEF OpenBegin, lease_vars, history
  <2> QED BY <1>0, <2>2, <2>3, <2>4 DEF Opens, Known, Observing, Busy, Types
<1>2. CASE OpenConnect(t)
  <2>1. /\ UNCHANGED <<device, sessions, leases, facts, busy, issued, calls, done>>
        /\ job[t].op = "open"
    BY <1>2 DEF OpenConnect, lease_vars, history
  <2>2. /\ Known /\ job' \in [Thread -> Job] /\ Others(t)
        /\ job'[t].op \in {"none", "open"}
        /\ job'[t].step = "commit" => job'[t].tr \in DOMAIN conn'.gens
    BY <1>2, ConnectFrame
  <2> QED BY <2>1, <2>2 DEF Opens, Known, Observing, Busy, Types
<1>3. CASE OpenCommit(t)
  <2>1. /\ UNCHANGED <<device, conn, leases, facts, busy, calls, done>>
        /\ job[t].op = "open" /\ job[t].step = "commit" /\ Answer(t)
    BY <1>3 DEF OpenCommit, lease_vars, history
  <2>2. /\ job' \in [Thread -> Job] /\ Others(t)
        /\ job'[t].op = "none" /\ job'[t].step = "none"
    BY <2>1, Answered
  <2>3. Known
    BY <1>0, <2>1 DEF Known
  <2>4. CASE UNCHANGED <<sessions, issued>>
    BY <2>1, <2>2, <2>3, <2>4 DEF Opens, Observing, Busy, Types
  <2>5. CASE ~UNCHANGED <<sessions, issued>>
    <3>1. job[t].tr \in DOMAIN conn.gens /\ job[t].display \in BOOLEAN
      BY <1>0, <2>1 DEF TransportInv, Job
    <3> DEFINE s == [id |-> issued + 1, display |-> job[t].display, tr |-> job[t].tr]
    <3>2. /\ issued' = issued + 1 /\ sessions' = sessions \cup {s}
          /\ Cardinality(sessions) < MaxSessions
      BY <1>3, <2>5 DEF OpenCommit
    <3>3. s \in Session
      BY <1>0, <3>1 DEF Session, Job
    <3>4. sessions' \subseteq Session /\ IsFiniteSet(sessions')
      BY SMTT(20), <1>0, <3>2, <3>3, FS_AddElement
    <3>5. issued' \in Nat
      BY <1>0, <3>2
    <3>6. Types'
      BY <2>1, <2>2, <3>4, <3>5 DEF Types
    <3>7. Opens(t)
      BY <2>1, <2>2, <3>1, <3>2 DEF Opens, Observing, Busy
    <3> QED BY <2>2, <2>3, <3>6, <3>7
  <2> QED BY <2>4, <2>5
<1> QED BY <1>1, <1>2, <1>3 DEF OpenStep

\* A request that observes takes a session, reads the identity, and in the end
\* has a lease or not.
TakesUp(t) ==
  /\ job[t].op = "none" /\ Others(t) /\ Stopping
  /\ UNCHANGED <<device, leases, facts, calls, done, busy, issued>>
  /\ \E s \in sessions :
       /\ sessions' = sessions \ {s}
       /\ \/ UNCHANGED job
          \/ /\ job'[t].op = "observe" /\ job'[t].step = "query"
             /\ job'[t].id = s.id /\ job'[t].tr = s.tr

Reads(t) ==
  /\ Observing(t) /\ job[t].step = "query" /\ GoesTo(t, "commit") /\ Others(t)
  /\ UNCHANGED <<device, conn, sessions, leases, calls, done, busy, issued>>
  /\ DOMAIN facts' = DOMAIN facts \cup {job[t].id}
  /\ facts'[job[t].id] = device.gen
  /\ \A k \in DOMAIN facts : k # job[t].id => facts'[k] = facts[k]

Grants(t) ==
  LET k == job[t].id
  IN  /\ Holds(job[t].tr) /\ Cardinality(Unexpired) < MaxLeases
      /\ DOMAIN leases' = Unexpired \cup {k}
      /\ leases'[k].tr = job[t].tr /\ leases'[k].ord = 0
      /\ \A l \in Unexpired : l # k => leases'[l] = leases[l]

Commits(t) ==
  /\ Observing(t) /\ job[t].step = "commit" /\ Others(t) /\ Stopping
  /\ job'[t].op = "none" /\ job'[t].step = "none"
  /\ UNCHANGED <<device, sessions, facts, calls, done, busy, issued>>
  /\ UNCHANGED leases \/ Grants(t)

LEMMA Advanced ==
  ASSUME job \in [Thread -> Job], NEW t \in Thread,
         NEW s \in {"commit", "call", "calling", "after"},
         job' = [job EXCEPT ![t].step = s]
  PROVE  job' \in [Thread -> Job] /\ Others(t) /\ GoesTo(t, s)
<1> DEFINE j == [job[t] EXCEPT !.step = s]
<1>1. /\ j \in Job /\ j.step = s /\ j.op = job[t].op /\ j.id = job[t].id
      /\ j.ord = job[t].ord /\ j.tr = job[t].tr
  BY DEF Job
<1>2. job' = [job EXCEPT ![t] = j]
  OBVIOUS
<1> HIDE DEF j
<1> QED BY <1>1, <1>2 DEF Others, GoesTo

LEMMA ReadFrame ==
  ASSUME Types, NEW t \in Thread, ReadStep(t)
  PROVE  (TakesUp(t) \/ Reads(t) \/ Commits(t)) /\ Types'
<1>0. /\ job \in [Thread -> Job] /\ job[t] \in Job
      /\ conn \in [slot : Nat, gens : Seq(Nat), open : SUBSET Nat]
      /\ device \in [gen : Nat, display : BOOLEAN, screen : Screen]
      /\ sessions \subseteq Session /\ IsFiniteSet(sessions)
      /\ DOMAIN leases \subseteq Nat /\ IsFiniteSet(DOMAIN leases)
      /\ leases \in [DOMAIN leases -> Lease]
      /\ DOMAIN facts \subseteq Nat /\ facts \in [DOMAIN facts -> Nat]
  BY DEF Types
<1>1. CASE \E s \in sessions : ObserveBegin(t, s)
  <2>1. PICK s \in sessions : ObserveBegin(t, s)
    BY <1>1
  <2> DEFINE j == [NoJob EXCEPT !.op = "observe", !.step = "query",
                     !.id = s.id, !.display = s.display, !.tr = s.tr]
  <2>2. /\ UNCHANGED <<device, leases, facts, calls, done, busy, issued>>
        /\ sessions' = sessions \ {s} /\ job[t].op = "none"
        /\ conn' = conn \/ conn' = Asked(s.tr)
        /\ job' = job \/ job' = [job EXCEPT ![t] = j]
    BY <2>1 DEF ObserveBegin, lease_vars, history
  <2>3. s \in Session /\ s.tr \in Nat
    BY <1>0 DEF Session
  <2>4. /\ j \in Job /\ j.op = "observe" /\ j.step = "query"
        /\ j.id = s.id /\ j.tr = s.tr
    BY <2>3 DEF Session, NoJob, Job
  <2> HIDE DEF j
  <2>5. /\ Stopping
        /\ conn' \in [slot : Nat, gens : Seq(Nat), open : SUBSET Nat]
    BY <1>0, <2>2, <2>3, AskedType DEF Stopping
  <2>6. /\ job' \in [Thread -> Job] /\ Others(t)
        /\ \/ UNCHANGED job
           \/ /\ job'[t].op = "observe" /\ job'[t].step = "query"
              /\ job'[t].id = s.id /\ job'[t].tr = s.tr
    BY <1>0, <2>2, <2>4 DEF Others
  <2>7. sessions' \subseteq Session /\ IsFiniteSet(sessions')
    BY <1>0, <2>2, FS_Subset
  <2> QED BY <2>2, <2>5, <2>6, <2>7 DEF TakesUp, Types
<1>2. CASE ObserveQuery(t)
  <2>1. /\ UNCHANGED <<device, conn, sessions, leases, calls, done, busy, issued>>
        /\ job[t].op = "observe" /\ job[t].step = "query"
        /\ facts' = [k \in DOMAIN facts \cup {job[t].id} |->
                       IF k = job[t].id THEN device.gen ELSE facts[k]]
        /\ job' = [job EXCEPT ![t].step = "commit"]
    BY <1>2 DEF ObserveQuery, history
  <2>2. job' \in [Thread -> Job] /\ Others(t) /\ GoesTo(t, "commit")
    BY <1>0, <2>1, Advanced
  <2>3. job[t].id \in Nat /\ device.gen \in Nat
    BY <1>0 DEF Job
  <2>4. /\ DOMAIN facts' = DOMAIN facts \cup {job[t].id}
        /\ facts'[job[t].id] = device.gen
        /\ \A k \in DOMAIN facts : k # job[t].id => facts'[k] = facts[k]
    BY <2>1
  <2>5. DOMAIN facts' \subseteq Nat /\ facts' \in [DOMAIN facts' -> Nat]
    BY <1>0, <2>1, <2>3
  <2> QED BY <2>1, <2>2, <2>4, <2>5 DEF Reads, Observing, Types
<1>3. CASE \E i \in BOOLEAN : ObserveCommit(t, i)
  <2>1. /\ UNCHANGED <<device, sessions, facts, calls, done, busy, issued>>
        /\ job[t].op = "observe" /\ job[t].step = "commit" /\ Answer(t)
        /\ conn' = conn \/ conn' = Asked(job[t].tr)
    BY <1>3 DEF ObserveCommit, history
  <2>2. /\ job' \in [Thread -> Job] /\ Others(t)
        /\ job'[t].op = "none" /\ job'[t].step = "none"
    BY <2>1, Answered
  <2>3. job[t].tr \in Nat /\ job[t].id \in Nat /\ job[t].display \in BOOLEAN
    BY <1>0 DEF Job
  <2>4. /\ Stopping
        /\ conn' \in [slot : Nat, gens : Seq(Nat), open : SUBSET Nat]
    BY <1>0, <2>1, <2>3, AskedType DEF Stopping
  <2>5. CASE UNCHANGED leases
    BY <2>1, <2>2, <2>4, <2>5 DEF Commits, Observing, Types
  <2>6. CASE ~UNCHANGED leases
    <3> DEFINE new == [tr |-> job[t].tr, display |-> job[t].display, ord |-> 0,
                       window |-> "unbound", over |-> FALSE]
               K == Unexpired \cup {job[t].id}
    <3>1. /\ Holds(job[t].tr) /\ Cardinality(Unexpired) < MaxLeases
          /\ leases' = [k \in K |-> IF k = job[t].id THEN new ELSE leases[k]]
      BY <1>3, <2>6 DEF ObserveCommit
    <3>2. new \in Lease /\ new.tr = job[t].tr /\ new.ord = 0
      BY <2>3 DEF Lease
    <3>3. Unexpired \subseteq DOMAIN leases
      BY DEF Unexpired
    <3> HIDE DEF new
    <3>4. leases' \in [K -> Lease] /\ DOMAIN leases' = K
      BY <1>0, <3>1, <3>2, <3>3
    <3>5. K \subseteq Nat /\ IsFiniteSet(K)
      <4>1. IsFiniteSet(Unexpired)
        BY <1>0, <3>3, FS_Subset
      <4> QED BY <1>0, <2>3, <3>3, <4>1, FS_AddElement
    <3>6. Grants(t)
      BY <3>1, <3>2, <3>4 DEF Grants
    <3> HIDE DEF K
    <3>7. Types'
      BY <2>1, <2>2, <2>4, <3>4, <3>5 DEF Types
    <3> QED BY <2>1, <2>2, <2>4, <3>6, <3>7 DEF Commits, Observing
  <2> QED BY <2>5, <2>6
<1> QED BY <1>1, <1>2, <1>3 DEF ReadStep

\* An operation under way: it begins, goes on, calls the SDK, succeeds or fails;
\* a request that is not to begin may end the lease.
Removes(l) ==
  /\ DOMAIN leases' = DOMAIN leases \ {l}
  /\ \A k \in DOMAIN leases' : leases'[k] = leases[k]

Frees(t) == job'[t].op = "none" /\ job'[t].step = "none"

Begins(t) ==
  /\ job[t].op = "none" /\ busy = "free" /\ busy' = t /\ Others(t)
  /\ UNCHANGED <<conn, calls, done>>
  /\ job'[t].op \in {"execute", "recover"} /\ job'[t].step \in {"fresh", "call"}
  /\ DOMAIN leases' = DOMAIN leases /\ job'[t].id \in DOMAIN leases
  /\ job'[t].ord = leases[job'[t].id].ord + 1
  /\ \A l \in DOMAIN leases :
       /\ leases'[l].tr = leases[l].tr /\ leases'[l].over = leases[l].over
       /\ leases'[l].ord = IF l = job'[t].id THEN job'[t].ord ELSE leases[l].ord

Drops ==
  UNCHANGED <<conn, job, busy, calls, done>> /\ \E l \in DOMAIN leases : Removes(l)

Proceeds(t) ==
  /\ job[t].step \in {"fresh", "call"} /\ Others(t) /\ Stopping
  /\ GoesTo(t, "call") \/ GoesTo(t, "calling")
  /\ UNCHANGED <<leases, busy, calls, done>>

Invokes(t) ==
  /\ job[t].step = "calling" /\ Others(t) /\ UNCHANGED <<conn, done>>
  /\ calls' = Append(calls, [id |-> job[t].id, ord |-> job[t].ord,
                             gen |-> device.gen])
  /\ \/ GoesTo(t, "after") /\ UNCHANGED <<leases, busy>>
     \/ Removes(job[t].id) /\ Frees(t)

Fails(t) ==
  /\ Removes(job[t].id) /\ Frees(t) /\ Others(t) /\ Stopping
  /\ UNCHANGED <<calls, done>>

Succeeds(t) ==
  /\ job[t].step = "after" /\ Frees(t) /\ Others(t) /\ Stopping
  /\ job[t].id \in DOMAIN leases /\ Holds(leases[job[t].id].tr)
  /\ done' = done \cup {<<job[t].id, job[t].ord>>}
  /\ UNCHANGED <<leases, calls>>

Works(t) ==
  /\ UNCHANGED <<device, sessions, facts, issued>>
  /\ \/ Begins(t) \/ Drops
     \/ /\ Busy(t)
        /\ Proceeds(t) \/ Invokes(t) \/ Fails(t) \/ Succeeds(t)

LEMMA WithoutType ==
  ASSUME Types, NEW l, leases' = Without(l)
  PROVE  /\ Removes(l) /\ DOMAIN leases' \subseteq Nat
         /\ IsFiniteSet(DOMAIN leases') /\ leases' \in [DOMAIN leases' -> Lease]
<1>1. /\ DOMAIN leases \subseteq Nat /\ IsFiniteSet(DOMAIN leases)
      /\ leases \in [DOMAIN leases -> Lease]
  BY DEF Types
<1>2. DOMAIN leases' = DOMAIN leases \ {l}
  BY DEF Without
<1>3. \A k \in DOMAIN leases' : leases'[k] = leases[k]
  BY DEF Without
<1>4. leases' \in [DOMAIN leases \ {l} -> Lease]
  BY <1>1 DEF Without
<1>5. IsFiniteSet(DOMAIN leases')
  BY <1>1, <1>2, FS_Subset
<1> QED BY <1>1, <1>2, <1>3, <1>4, <1>5 DEF Removes

LEMMA FailType ==
  ASSUME Types, NEW t \in Thread, Fail(t)
  PROVE  /\ Removes(job[t].id) /\ DOMAIN leases' \subseteq Nat
         /\ IsFiniteSet(DOMAIN leases') /\ leases' \in [DOMAIN leases' -> Lease]
         /\ job' \in [Thread -> Job] /\ Frees(t) /\ Others(t) /\ UNCHANGED done
BY WithoutType, Answered DEF Fail, Frees

LEMMA GuardType ==
  ASSUME Types, NEW l, conn' = AfterGuard(l)
  PROVE  /\ Stopping /\ conn' \in [slot : Nat, gens : Seq(Nat), open : SUBSET Nat]
         /\ Guard(l) => l \in DOMAIN leases /\ Holds(leases[l].tr)
<1>1. /\ conn \in [slot : Nat, gens : Seq(Nat), open : SUBSET Nat]
      /\ leases \in [DOMAIN leases -> Lease]
  BY DEF Types
<1>2. l \in DOMAIN leases => leases[l].tr \in Nat
  BY <1>1 DEF Lease
<1>3. conn' = conn \/ (l \in DOMAIN leases /\ conn' = Asked(leases[l].tr))
  BY DEF AfterGuard, Live
<1>4. Stopping /\ conn' \in [slot : Nat, gens : Seq(Nat), open : SUBSET Nat]
  BY <1>1, <1>2, <1>3, AskedType DEF Stopping
<1> QED BY <1>4 DEF Guard, Live

LEMMA BeginFrame ==
  ASSUME Types, NEW t \in Thread, NEW l \in Id, NEW o \in 1..MaxOrdinal,
         NEW w \in Window, NEW what \in {"execute", "recover"},
         NEW c \in Cand \cup {"none"}, NEW g \in BOOLEAN,
         PerformBegin(t, l, o, w, what, c, g)
  PROVE  Works(t) /\ Types'
<1>0. /\ job \in [Thread -> Job] /\ job[t].op = "none" /\ busy = "free"
      /\ leases \in [DOMAIN leases -> Lease] /\ l \in DOMAIN leases
      /\ UNCHANGED <<device, conn, sessions, facts, issued, calls, done>>
      /\ DOMAIN leases \subseteq Nat /\ MaxOrdinal \in Nat
  BY BridgeAssumption DEF PerformBegin, Types, Live, history
<1>1. CASE leases' = Without(l) /\ UNCHANGED <<busy, job>>
  BY <1>0, <1>1, WithoutType DEF Works, Drops, Types
<1>2. CASE ~(leases' = Without(l) /\ UNCHANGED <<busy, job>>)
  <2> DEFINE j == [NoJob EXCEPT !.op = what, !.id = l,
                     !.step = IF what = "execute" THEN "fresh" ELSE "call",
                     !.ord = o, !.cand = c]
             k == [leases[l] EXCEPT !.ord = o, !.window = w]
  <2>1. /\ o = leases[l].ord + 1 /\ busy' = t
        /\ leases' = [leases EXCEPT ![l] = k]
        /\ job' = [job EXCEPT ![t] = j]
    BY <1>2 DEF PerformBegin
  <2>2. /\ j \in Job /\ j.op = what /\ j.id = l /\ j.ord = o
        /\ j.step \in {"fresh", "call"}
    <3>1. l \in Nat /\ o \in Nat
      BY <1>0
    <3> DEFINE step == IF what = "execute" THEN "fresh" ELSE "call"
    <3>2. step \in {"fresh", "call"}
      OBVIOUS
    <3>3. j = [NoJob EXCEPT !.op = what, !.id = l, !.step = step, !.ord = o,
                            !.cand = c]
      OBVIOUS
    <3> HIDE DEF step, j
    <3>4. j = [op |-> what, step |-> step, id |-> l, ord |-> o, tr |-> 0,
               display |-> FALSE, cand |-> c]
      BY <3>3 DEF NoJob
    <3> QED BY <3>1, <3>2, <3>4 DEF Job
  <2>3. /\ k \in Lease /\ k.ord = o /\ k.tr = leases[l].tr
        /\ k.over = leases[l].over
    <3>1. leases[l] \in Lease /\ o \in Nat
      BY <1>0
    <3> QED BY <3>1 DEF Lease
  <2> HIDE DEF j, k
  <2>4. /\ job' \in [Thread -> Job] /\ job'[t] = j /\ Others(t)
    BY <1>0, <2>1, <2>2 DEF Others
  <2>5. /\ leases' \in [DOMAIN leases -> Lease] /\ DOMAIN leases' = DOMAIN leases
        /\ \A m \in DOMAIN leases : leases'[m] = IF m = l THEN k ELSE leases[m]
    BY <1>0, <2>1, <2>3
  <2>6. Types'
    BY <1>0, <2>4, <2>5 DEF Types
  <2>7. Begins(t)
    BY <1>0, <2>1, <2>2, <2>3, <2>4, <2>5 DEF Begins
  <2> QED BY <1>0, <2>6, <2>7 DEF Works
<1> QED BY <1>1, <1>2

LEMMA WorkFrame ==
  ASSUME Types, NEW t \in Thread, WorkStep(t)
  PROVE  Works(t) /\ Types'
<1>0. /\ job \in [Thread -> Job] /\ job[t] \in Job
      /\ device \in [gen : Nat, display : BOOLEAN, screen : Screen]
      /\ calls \in Seq(Call)
  BY DEF Types
<1>1. CASE \E l \in Id, o \in 1..MaxOrdinal, w \in Window, g \in BOOLEAN :
             \/ \E c \in Cand : PerformBegin(t, l, o, w, "execute", c, g)
             \/ PerformBegin(t, l, o, w, "recover", "none", g)
  BY <1>1, BeginFrame
<1>2. CASE PerformFresh(t) \/ PerformCall(t)
  <2>1. /\ UNCHANGED <<device, sessions, facts, issued, calls>> /\ Busy(t)
        /\ job[t].step \in {"fresh", "call"} /\ conn' = AfterGuard(job[t].id)
        /\ \/ /\ UNCHANGED <<leases, busy, done>>
              /\ \/ job' = [job EXCEPT ![t].step = "call"]
                 \/ job' = [job EXCEPT ![t].step = "calling"]
           \/ Fail(t)
    BY <1>2 DEF PerformFresh, PerformCall, Acting, Busy
  <2>2. Stopping /\ conn' \in [slot : Nat, gens : Seq(Nat), open : SUBSET Nat]
    BY <2>1, GuardType
  <2>3. CASE Fail(t)
    BY <2>1, <2>2, <2>3, FailType DEF Works, Fails, Types
  <2>4. CASE UNCHANGED <<leases, busy, done>> /\ job' = [job EXCEPT ![t].step = "call"]
    BY <1>0, <2>1, <2>2, <2>4, Advanced DEF Works, Proceeds, Types
  <2>5. CASE UNCHANGED <<leases, busy, done>> /\ job' = [job EXCEPT ![t].step = "calling"]
    BY <1>0, <2>1, <2>2, <2>5, Advanced DEF Works, Proceeds, Types
  <2> QED BY <2>1, <2>3, <2>4, <2>5
<1>3. CASE \E r \in BOOLEAN : PerformActs(t, r)
  <2> DEFINE e == [id |-> job[t].id, ord |-> job[t].ord, gen |-> device.gen]
  <2>1. /\ UNCHANGED <<device, conn, sessions, facts, issued>> /\ Busy(t)
        /\ job[t].step = "calling" /\ calls' = Append(calls, e)
        /\ \/ /\ UNCHANGED <<leases, busy, done>>
              /\ job' = [job EXCEPT ![t].step = "after"]
           \/ Fail(t)
    BY <1>3 DEF PerformActs, Acting, Busy
  <2>2. e \in Call
    BY <1>0 DEF Call, Job
  <2>3. calls' \in Seq(Call)
    BY <1>0, <2>1, <2>2
  <2>4. CASE Fail(t)
    BY <2>1, <2>3, <2>4, FailType DEF Works, Invokes, Types
  <2>5. CASE UNCHANGED <<leases, busy, done>> /\ job' = [job EXCEPT ![t].step = "after"]
    BY <1>0, <2>1, <2>3, <2>5, Advanced DEF Works, Invokes, Types
  <2> QED BY <2>1, <2>4, <2>5
<1>4. CASE PerformAfter(t)
  <2>1. /\ UNCHANGED <<device, sessions, facts, issued, calls>> /\ Busy(t)
        /\ job[t].step = "after" /\ conn' = AfterGuard(job[t].id)
    BY <1>4 DEF PerformAfter, Acting, Busy
  <2>2. /\ Stopping /\ conn' \in [slot : Nat, gens : Seq(Nat), open : SUBSET Nat]
        /\ Guard(job[t].id) =>
             job[t].id \in DOMAIN leases /\ Holds(leases[job[t].id].tr)
    BY <2>1, GuardType
  <2>3. CASE Guard(job[t].id)
    <3>1. /\ done' = done \cup {<<job[t].id, job[t].ord>>} /\ Answer(t)
          /\ UNCHANGED leases
      BY <1>4, <2>3 DEF PerformAfter
    <3> QED BY <2>1, <2>2, <2>3, <3>1, Answered DEF Works, Succeeds, Frees, Types
  <2>4. CASE ~Guard(job[t].id)
    <3>1. Fail(t)
      BY <1>4, <2>4 DEF PerformAfter
    <3> QED BY <2>1, <2>2, <3>1, FailType DEF Works, Fails, Types
  <2> QED BY <2>3, <2>4
<1> QED BY <1>1, <1>2, <1>3, <1>4 DEF WorkStep

-----------------------------------------------------------------------------
(* Transports and identifiers.                                               *)

\* One of these is what a step does.
Does(t) ==
  \/ Opens(t) /\ Known /\ (job'[t].step = "commit" => job'[t].tr \in DOMAIN conn'.gens)
  \/ TakesUp(t) \/ Reads(t) \/ Commits(t) \/ Works(t)

LEMMA Frames ==
  ASSUME Types, TransportInv, [Next]_vars
  PROVE  Types' /\ (Away \/ \E t \in Thread : Does(t))
<1>1. CASE AwayStep
  BY <1>1, AwayFrame
<1>2. CASE \E t \in Thread : OpenStep(t) \/ ReadStep(t) \/ WorkStep(t)
  BY <1>2, OpenFrame, ReadFrame, WorkFrame DEF Does
<1> QED BY <1>1, <1>2, StepCases

LEMMA StoppingKnown ==
  ASSUME Types, Types', TransportInv, Stopping \/ UNCHANGED conn
  PROVE  Known /\ conn'.gens = conn.gens
BY DEF Types, TransportInv, Stopping, Known

LEMMA TypeFacts ==
  ASSUME Types
  PROVE  /\ device.gen \in Nat /\ issued \in Nat
         /\ \A k \in DOMAIN conn.gens : conn.gens[k] \in Nat
         /\ \A k \in DOMAIN facts : k \in Nat /\ facts[k] \in Nat
         /\ \A s \in sessions : s.id \in Nat
         /\ \A t \in Thread : job[t].id \in Nat /\ job[t].ord \in Nat
         /\ \A l \in DOMAIN leases : l \in Nat /\ leases[l].ord \in Nat
         /\ DOMAIN calls = 1..Len(calls) /\ Len(calls) \in Nat
         /\ \A i \in DOMAIN calls : calls[i] \in Call
<1>1. DOMAIN calls = 1..Len(calls) /\ Len(calls) \in Nat
         /\ \A i \in DOMAIN calls : calls[i] \in Call
  BY DEF Types
<1>2. /\ device.gen \in Nat /\ issued \in Nat
      /\ \A k \in DOMAIN conn.gens : conn.gens[k] \in Nat
      /\ \A k \in DOMAIN facts : k \in Nat /\ facts[k] \in Nat
  BY DEF Types
<1>3. /\ \A s \in sessions : s.id \in Nat
      /\ \A t \in Thread : job[t].id \in Nat /\ job[t].ord \in Nat
  BY DEF Types, Session, Job
<1>4. \A l \in DOMAIN leases : l \in Nat /\ leases[l].ord \in Nat
  BY DEF Types, Lease
<1> QED BY <1>1, <1>2, <1>3, <1>4

LEMMA TransportStep ==
  ASSUME Types, Types', TransportInv, Away \/ \E t \in Thread : Does(t)
  PROVE  TransportInv' /\ Known /\ device.gen <= device'.gen
<1>0. /\ device.gen \in Nat /\ device'.gen \in Nat
      /\ \A k \in DOMAIN conn.gens : conn.gens[k] \in Nat
  BY DEF Types
<1>1. Known /\ device.gen <= device'.gen
  <2>1. CASE Away
    BY <2>1, StoppingKnown DEF Away
  <2>2. CASE \E t \in Thread : Does(t)
    <3>1. PICK t \in Thread : Does(t)
      BY <2>2
    <3>2. device' = device
      BY <3>1 DEF Does, Opens, TakesUp, Reads, Commits, Works
    <3>3. Known
      BY <3>1, StoppingKnown DEF Does, TakesUp, Reads, Commits, Works, Begins, Drops,
         Proceeds, Invokes, Fails, Succeeds
    <3> QED BY <1>0, <3>2, <3>3
  <2> QED BY <2>1, <2>2
<1>2. /\ conn'.open \subseteq DOMAIN conn'.gens
      /\ \A k \in DOMAIN conn'.gens : conn'.gens[k] <= device'.gen
  BY <1>0, <1>1 DEF Known, TransportInv
<1>3. /\ \A s \in sessions : s.tr \in DOMAIN conn'.gens
      /\ \A u \in Thread : Observing(u) \/ job[u].step = "commit" =>
           job[u].tr \in DOMAIN conn'.gens
      /\ \A l \in DOMAIN leases : leases[l].tr \in DOMAIN conn'.gens
  BY <1>1 DEF Known, TransportInv
<1>4. CASE Away
  BY <1>1, <1>2, <1>3, <1>4 DEF Away, SameLeases, TransportInv, Observing
<1>5. CASE \E t \in Thread : Does(t)
  <2>1. PICK t \in Thread : Does(t)
    BY <1>5
  <2>2. Others(t)
      \/ UNCHANGED job
    BY <2>1 DEF Does, Opens, TakesUp, Reads, Commits, Works, Begins, Drops,
       Proceeds, Invokes, Fails, Succeeds
  <2>3. CASE Opens(t) /\ (job'[t].step = "commit" => job'[t].tr \in DOMAIN conn'.gens)
    <3>1. /\ ~Observing(t)' /\ UNCHANGED leases /\ Others(t)
          /\ \A s \in sessions' : s \in sessions \/ s.tr \in DOMAIN conn.gens
      BY <2>3 DEF Opens
    <3>2. \A s \in sessions' : s.tr \in DOMAIN conn'.gens
      BY <1>1, <1>3, <3>1 DEF Known
    <3>3. \A u \in Thread : Observing(u)' \/ job'[u].step = "commit" =>
            job'[u].tr \in DOMAIN conn'.gens
      BY <1>3, <2>3, <3>1 DEF Others, Observing
    <3> QED BY <1>1, <1>2, <1>3, <3>1, <3>2, <3>3 DEF TransportInv
  <2>4. CASE TakesUp(t)
    <3>1. /\ sessions' \subseteq sessions /\ UNCHANGED leases /\ Others(t)
          /\ \/ UNCHANGED job
             \/ \E s \in sessions : job'[t].tr = s.tr
      BY <2>4 DEF TakesUp
    <3>2. \A u \in Thread : Observing(u)' \/ job'[u].step = "commit" =>
            job'[u].tr \in DOMAIN conn'.gens
      BY <1>3, <3>1 DEF Others, Observing
    <3> QED BY <1>1, <1>2, <1>3, <3>1, <3>2 DEF TransportInv
  <2>5. CASE Reads(t)
    <3>1. /\ UNCHANGED <<sessions, leases>> /\ Others(t)
          /\ Observing(t) /\ job'[t].tr = job[t].tr
      BY <2>5 DEF Reads, GoesTo
    <3>2. \A u \in Thread : Observing(u)' \/ job'[u].step = "commit" =>
            job'[u].tr \in DOMAIN conn'.gens
      BY <1>3, <3>1 DEF Others, Observing
    <3> QED BY <1>1, <1>2, <1>3, <3>1, <3>2 DEF TransportInv
  <2>6. CASE Commits(t)
    <3>1. /\ UNCHANGED sessions /\ Others(t) /\ ~Observing(t)'
          /\ job'[t].step = "none" /\ Observing(t)
          /\ UNCHANGED leases \/ Grants(t)
      BY <2>6 DEF Commits, Observing
    <3>2. \A u \in Thread : Observing(u)' \/ job'[u].step = "commit" =>
            job'[u].tr \in DOMAIN conn'.gens
      BY <1>3, <3>1 DEF Others, Observing
    <3>3. \A l \in DOMAIN leases' : leases'[l].tr \in DOMAIN conn'.gens
      <4>1. job[t].tr \in DOMAIN conn'.gens
        BY <1>3, <3>1
      <4> QED BY <1>3, <3>1, <4>1 DEF Grants, Unexpired
    <3> QED BY <1>1, <1>2, <3>1, <3>2, <3>3, <1>3 DEF TransportInv
  <2>7. CASE Works(t)
    <3>1. /\ UNCHANGED sessions
          /\ \A l \in DOMAIN leases' : l \in DOMAIN leases /\ leases'[l].tr = leases[l].tr
      BY <2>7 DEF Works, Begins, Drops, Proceeds, Invokes, Fails, Succeeds, Removes
    <3>2. UNCHANGED job \/ (Others(t) /\ ~Observing(t)' /\ job'[t].step # "commit")
      BY <2>7 DEF Works, Begins, Drops, Proceeds, Invokes, Fails, Succeeds, Busy,
         Observing, GoesTo, Frees
    <3>3. \A u \in Thread : Observing(u)' \/ job'[u].step = "commit" =>
            job'[u].tr \in DOMAIN conn'.gens
      BY <1>3, <3>2 DEF Others, Observing
    <3> QED BY <1>1, <1>2, <1>3, <3>1, <3>3 DEF TransportInv
  <2> QED BY <2>1, <2>3, <2>4, <2>5, <2>6, <2>7 DEF Does
<1> QED BY <1>1, <1>4, <1>5

LEMMA SessionIdsStep ==
  ASSUME Types, Types', SessionIds, Away \/ \E t \in Thread : Does(t)
  PROVE  SessionIds'
<1>0. /\ issued \in Nat /\ \A s \in sessions : s.id \in Nat
  BY TypeFacts
<1>1. CASE sessions' \subseteq sessions /\ UNCHANGED issued
  BY <1>0, <1>1 DEF SessionIds
<1>2. CASE \E t \in Thread : Opens(t) /\ ~UNCHANGED <<sessions, issued>>
  <2>1. PICK tr, d : /\ issued' = issued + 1
                     /\ sessions' = sessions \cup
                          {[id |-> issued + 1, display |-> d, tr |-> tr]}
    BY <1>2 DEF Opens
  <2> DEFINE new == [id |-> issued + 1, display |-> d, tr |-> tr]
  <2>2. new.id = issued + 1 /\ sessions' = sessions \cup {new}
    BY <2>1
  <2> HIDE DEF new
  <2>3. \A s \in sessions : s.id \in 1..issued /\ s.id # issued + 1
    BY <1>0 DEF SessionIds
  <2>4. \A s \in sessions' : s.id \in 1..issued'
    BY <1>0, <2>1, <2>2, <2>3
  <2> QED BY <2>2, <2>3, <2>4 DEF SessionIds
<1>3. \/ sessions' \subseteq sessions /\ UNCHANGED issued
      \/ \E t \in Thread : Opens(t) /\ ~UNCHANGED <<sessions, issued>>
  BY DEF Away, Does, Opens, TakesUp, Reads, Commits, Works
<1> QED BY <1>1, <1>2, <1>3

\* Whatever observes after a step did before it, or has just taken a session.
LEMMA ObservedIdsStep ==
  ASSUME Types, Types', SessionIds, ObservedIds, Away \/ \E t \in Thread : Does(t)
  PROVE  ObservedIds'
<1>0. /\ issued \in Nat /\ \A s \in sessions : s.id \in Nat
      /\ \A t \in Thread : job[t].id \in Nat
  BY TypeFacts
<1>1. CASE Away
  BY <1>0, <1>1 DEF Away, ObservedIds, Observing
<1>2. CASE \E t \in Thread : Does(t)
  <2>1. PICK t \in Thread : Does(t)
    BY <1>2
  <2>2. CASE Opens(t)
    <3>1. /\ Others(t) /\ ~Observing(t)' /\ issued' \in {issued, issued + 1}
          /\ \A s \in sessions' : s \in sessions \/ s.id = issued + 1
      BY <2>2 DEF Opens
    <3>2. \A u \in Thread : Observing(u)' => u # t /\ Observing(u) /\ job'[u] = job[u]
      BY <3>1 DEF Others, Observing
    <3>3. \A u \in Thread : Observing(u) =>
            job[u].id \in 1..issued' /\ job[u].id # issued + 1
      BY <1>0, <3>1 DEF ObservedIds
    <3> QED BY <3>1, <3>2, <3>3 DEF ObservedIds
  <2>3. CASE TakesUp(t)
    <3>1. PICK s \in sessions :
            /\ sessions' = sessions \ {s}
            /\ \/ UNCHANGED job
               \/ /\ job'[t].op = "observe" /\ job'[t].step = "query"
                  /\ job'[t].id = s.id
      BY <2>3 DEF TakesUp
    <3>2. Others(t) /\ UNCHANGED issued /\ s.id \in 1..issued /\ ~Observing(t)
      BY <2>3 DEF TakesUp, SessionIds, Observing
    <3>3. CASE UNCHANGED job
      BY <3>1, <3>2, <3>3 DEF ObservedIds, Observing
    <3>4. CASE job'[t].step = "query" /\ job'[t].id = s.id
      <4>1. \A u \in Thread : Observing(u)' =>
              \/ u = t
              \/ u # t /\ Observing(u) /\ job'[u] = job[u] /\ job[u].id # s.id
        BY <3>2 DEF Others, Observing, ObservedIds
      <4>2. \A r \in sessions' : r \in sessions /\ r.id # s.id
        BY <3>1 DEF SessionIds
      <4> QED BY <3>1, <3>2, <3>4, <4>1, <4>2 DEF ObservedIds
    <3> QED BY <3>1, <3>3, <3>4
  <2>4. CASE Reads(t)
    <3>1. /\ Others(t) /\ UNCHANGED <<sessions, issued>> /\ Observing(t)
          /\ job'[t].id = job[t].id /\ job'[t].step = "commit"
      BY <2>4 DEF Reads, GoesTo
    <3>2. \A u \in Thread : Observing(u)' =>
            /\ Observing(u) /\ job'[u].id = job[u].id
            /\ u = t \/ job'[u].step = job[u].step
      BY <3>1 DEF Others, Observing
    <3> QED BY <3>1, <3>2 DEF ObservedIds
  <2>5. CASE Commits(t) \/ Works(t)
    <3>1. /\ UNCHANGED <<sessions, issued>>
          /\ UNCHANGED job \/ (Others(t) /\ ~Observing(t)')
      BY <2>5 DEF Commits, Works, Begins, Drops, Proceeds, Invokes, Fails, Succeeds,
         Busy, Observing, GoesTo, Frees
    <3>2. \A u \in Thread : Observing(u)' => Observing(u) /\ job'[u] = job[u]
      BY <3>1 DEF Others, Observing
    <3> QED BY <3>1, <3>2 DEF ObservedIds
  <2> QED BY <2>1, <2>2, <2>3, <2>4, <2>5 DEF Does
<1> QED BY <1>1, <1>2

\* No identifier begins to wait or to be pending, and only the one that is
\* observed stops.
LEMMA PendingShrinks ==
  ASSUME Types, Types', SessionIds, ObservedIds, Away \/ \E t \in Thread : Does(t),
         NEW k \in Nat
  PROVE  /\ Waiting(k)' => Waiting(k)
         /\ Pending(k)' => Pending(k)
<1>0. issued \in Nat
  BY TypeFacts
<1>1. CASE Away
  BY <1>0, <1>1 DEF Away, Waiting, Pending, Observing
<1>2. CASE \E t \in Thread : Does(t)
  <2>1. PICK t \in Thread : Does(t)
    BY <1>2
  <2>2. CASE Opens(t)
    <3>1. /\ Others(t) /\ ~Observing(t)' /\ issued' \in {issued, issued + 1}
          /\ \A s \in sessions' : s \in sessions \/ s.id = issued + 1
      BY <2>2 DEF Opens
    <3>2. \A u \in Thread : Observing(u)' => u # t /\ Observing(u) /\ job'[u] = job[u]
      BY <3>1 DEF Others, Observing
    <3>3. /\ k > issued' => k > issued
          /\ k = issued + 1 => k > issued
      BY <1>0, <3>1
    <3> QED BY <3>1, <3>2, <3>3 DEF Waiting, Pending
  <2>3. CASE TakesUp(t)
    <3>1. PICK s \in sessions :
            /\ sessions' = sessions \ {s}
            /\ UNCHANGED job \/ job'[t].id = s.id
      BY <2>3 DEF TakesUp
    <3>2. Others(t) /\ UNCHANGED issued
      BY <2>3 DEF TakesUp
    <3>3. \A u \in Thread : Observing(u)' =>
            job'[u].id = s.id \/ (Observing(u) /\ job'[u] = job[u])
      BY <3>1, <3>2 DEF Others, Observing
    <3> QED BY <3>1, <3>2, <3>3 DEF Waiting, Pending
  <2>4. CASE Reads(t)
    <3>1. /\ Others(t) /\ UNCHANGED <<sessions, issued>> /\ Observing(t)
          /\ job'[t].id = job[t].id /\ job'[t].step = "commit"
      BY <2>4 DEF Reads, GoesTo
    <3>2. \A u \in Thread : Observing(u)' =>
            /\ Observing(u) /\ job'[u].id = job[u].id
            /\ u = t \/ job'[u].step = job[u].step
      BY <3>1 DEF Others, Observing
    <3> QED BY <3>1, <3>2 DEF Waiting, Pending
  <2>5. CASE Commits(t) \/ Works(t)
    <3>1. /\ UNCHANGED <<sessions, issued>>
          /\ UNCHANGED job \/ (Others(t) /\ ~Observing(t)')
      BY <2>5 DEF Commits, Works, Begins, Drops, Proceeds, Invokes, Fails, Succeeds,
         Busy, Observing, GoesTo, Frees
    <3>2. \A u \in Thread : Observing(u)' => Observing(u) /\ job'[u] = job[u]
      BY <3>1 DEF Others, Observing
    <3> QED BY <3>1, <3>2 DEF Waiting, Pending
  <2> QED BY <2>1, <2>2, <2>3, <2>4, <2>5 DEF Does
<1> QED BY <1>1, <1>2

LEMMA WaitingStep ==
  ASSUME Types, Types', SessionIds, ObservedIds, WaitingInv,
         Away \/ \E t \in Thread : Does(t)
  PROVE  WaitingInv'
<1> SUFFICES ASSUME NEW k \in Nat, Waiting(k)'
             PROVE  k \notin DOMAIN facts'
  BY DEF WaitingInv
<1>1. Waiting(k) /\ k \notin DOMAIN facts
  BY PendingShrinks DEF WaitingInv
<1>2. CASE UNCHANGED facts
  BY <1>1, <1>2
<1>3. CASE \E t \in Thread : Reads(t)
  <2>1. PICK t \in Thread : Reads(t)
    BY <1>3
  <2>2. /\ DOMAIN facts' = DOMAIN facts \cup {job[t].id} /\ Observing(t) /\ Others(t)
        /\ job'[t].step = "commit" /\ UNCHANGED <<sessions, issued>>
    BY <2>1 DEF Reads, GoesTo
  <2>3. k # job[t].id
    <3>1. /\ job[t].id \in 1..issued /\ \A s \in sessions : s.id # job[t].id
          /\ \A u \in Thread : Observing(u) /\ job[u].id = job[t].id => u = t
      BY <2>2 DEF ObservedIds
    <3>2. issued \in Nat
      BY TypeFacts
    <3>3. \A u \in Thread : Observing(u)' /\ job'[u].step = "query" =>
            u # t /\ Observing(u) /\ job'[u].id = job[u].id
      BY <2>2 DEF Others, Observing
    <3> QED BY <2>2, <3>1, <3>2, <3>3 DEF Waiting
  <2> QED BY <1>1, <2>2, <2>3
<1> QED BY <1>2, <1>3 DEF Away, Does, Opens, TakesUp, Commits, Works

LEMMA PendingStep ==
  ASSUME Types, Types', SessionIds, ObservedIds, PendingInv,
         Away \/ \E t \in Thread : Does(t)
  PROVE  PendingInv'
<1> SUFFICES ASSUME NEW k \in Nat, Pending(k)'
             PROVE  Untouched(k)'
  BY DEF PendingInv
<1>1. Pending(k) /\ Untouched(k)
  BY PendingShrinks DEF PendingInv
<1>2. CASE Away
  BY <1>1, <1>2 DEF Away, SameLeases, Untouched, Busy
<1>3. CASE \E t \in Thread : Does(t)
  <2>1. PICK t \in Thread : Does(t)
    BY <1>3
  <2>2. CASE Opens(t) \/ TakesUp(t) \/ Reads(t)
    <3>1. UNCHANGED <<leases, calls, done>>
      BY <2>2 DEF Opens, TakesUp, Reads
    <3>2. \A u \in Thread : Busy(u)' => Busy(u) /\ job'[u].id = job[u].id
      BY <2>2 DEF Opens, TakesUp, Reads, Others, Busy, Observing, GoesTo
    <3> QED BY <1>1, <3>1, <3>2 DEF Untouched
  <2>3. CASE Commits(t)
    <3>1. /\ UNCHANGED <<calls, done, sessions, issued>> /\ Others(t) /\ Observing(t)
          /\ job'[t].op = "none"
          /\ UNCHANGED leases \/ Grants(t)
      BY <2>3 DEF Commits
    <3>2. \A u \in Thread : Busy(u)' => Busy(u) /\ job'[u].id = job[u].id
      BY <3>1 DEF Others, Busy
    <3>3. k # job[t].id
      <4>1. /\ job[t].id \in 1..issued /\ \A s \in sessions : s.id # job[t].id
            /\ \A u \in Thread : Observing(u) /\ job[u].id = job[t].id => u = t
        BY <3>1 DEF ObservedIds
      <4>2. issued \in Nat
        BY TypeFacts
      <4>3. \A u \in Thread : Observing(u)' =>
              u # t /\ Observing(u) /\ job'[u].id = job[u].id
        BY <3>1 DEF Others, Observing
      <4> QED BY <3>1, <4>1, <4>2, <4>3 DEF Pending, Waiting
    <3>4. k \notin DOMAIN leases'
      BY <1>1, <3>1, <3>3 DEF Untouched, Grants, Unexpired
    <3> QED BY <1>1, <3>1, <3>2, <3>4 DEF Untouched
  <2>4. CASE Works(t)
    <3>1. DOMAIN leases' \subseteq DOMAIN leases
      BY <2>4 DEF Works, Begins, Drops, Proceeds, Invokes, Fails, Succeeds, Removes
    <3>2. \A u \in Thread : Busy(u)' =>
            \/ Busy(u) /\ job'[u].id = job[u].id
            \/ job'[u].id \in DOMAIN leases
      BY <2>4 DEF Works, Begins, Drops, Proceeds, Invokes, Fails, Succeeds, Others,
         Busy, GoesTo, Frees
    <3>3. \A i \in DOMAIN calls' : calls'[i].id # k
      <4>1. CASE UNCHANGED calls
        BY <1>1, <4>1 DEF Untouched
      <4>2. CASE Busy(t) /\ Invokes(t)
        <5> DEFINE e == [id |-> job[t].id, ord |-> job[t].ord, gen |-> device.gen]
        <5>1. calls' = Append(calls, e) /\ e.id # k
          BY <1>1, <4>2 DEF Invokes, Untouched
        <5> HIDE DEF e
        <5>2. calls \in Seq(Call)
          BY DEF Types
        <5>3. \A i \in DOMAIN calls' : calls'[i] = e \/ (i \in DOMAIN calls /\ calls'[i] = calls[i])
          BY <5>1, <5>2
        <5> QED BY <1>1, <5>1, <5>3 DEF Untouched
      <4> QED BY <2>4, <4>1, <4>2 DEF Works, Begins, Drops, Proceeds, Fails, Succeeds
    <3>4. \A x \in Nat : <<k, x>> \notin done'
      <4>1. CASE UNCHANGED done
        BY <1>1, <4>1 DEF Untouched
      <4>2. CASE Busy(t) /\ Succeeds(t)
        BY <1>1, <4>2 DEF Untouched, Succeeds
      <4> QED BY <2>4, <4>1, <4>2 DEF Works, Begins, Drops, Proceeds, Fails, Invokes
    <3> QED BY <1>1, <3>1, <3>2, <3>3, <3>4 DEF Untouched
  <2> QED BY <2>1, <2>2, <2>3, <2>4 DEF Does
<1> QED BY <1>2, <1>3

-----------------------------------------------------------------------------
(* What was read for an identifier.                                          *)

LEMMA FactsKept ==
  ASSUME Types, WaitingInv, Away \/ \E t \in Thread : Does(t)
  PROVE  \A k \in DOMAIN facts : k \in DOMAIN facts' /\ facts'[k] = facts[k]
<1>1. CASE UNCHANGED facts
  BY <1>1
<1>2. CASE \E t \in Thread : Reads(t)
  <2>1. PICK t \in Thread : Reads(t)
    BY <1>2
  <2>2. job[t].id \notin DOMAIN facts
    <3>1. Waiting(job[t].id) /\ job[t].id \in Nat
      BY <2>1, TypeFacts DEF Reads, Waiting
    <3> QED BY <3>1 DEF WaitingInv
  <2> QED BY <2>1, <2>2 DEF Reads
<1> QED BY <1>1, <1>2 DEF Away, Does, Opens, TakesUp, Commits, Works

LEMMA FactsStep ==
  ASSUME Types, Types', TransportInv, IdsInv, FactsInv,
         Known, device.gen <= device'.gen, Away \/ \E t \in Thread : Does(t)
  PROVE  FactsInv'
<1>0. /\ device.gen \in Nat /\ device'.gen \in Nat
      /\ \A k \in DOMAIN conn.gens : conn.gens[k] \in Nat
      /\ \A k \in DOMAIN facts : facts[k] \in Nat
      /\ \A t \in Thread : job[t].id \in Nat
  BY TypeFacts DEF Types
<1>1. \A k \in DOMAIN facts : k \in DOMAIN facts' /\ facts'[k] = facts[k]
  BY FactsKept DEF IdsInv
\* Who observed before and still does, and the leases there were.
<1>2. ASSUME NEW u \in Thread, Observing(u), job[u].step = "commit"
      PROVE  /\ job[u].id \in DOMAIN facts'
             /\ conn'.gens[job[u].tr] <= facts'[job[u].id]
             /\ facts'[job[u].id] <= device'.gen
  <2>1. /\ job[u].tr \in DOMAIN conn.gens /\ job[u].id \in DOMAIN facts
        /\ conn.gens[job[u].tr] <= facts[job[u].id]
        /\ facts[job[u].id] <= device.gen
    BY <1>2 DEF TransportInv, FactsInv
  <2>2. conn'.gens[job[u].tr] = conn.gens[job[u].tr]
    BY <2>1 DEF Known
  <2> QED BY <1>0, <1>1, <2>1, <2>2
<1>3. \A l \in DOMAIN leases :
        l \in DOMAIN facts' /\ facts'[l] = conn'.gens[leases[l].tr]
  BY <1>1 DEF TransportInv, FactsInv, Known
<1>4. CASE Away
  <2>1. \A u \in Thread : Observing(u)' => Observing(u)
    BY <1>4 DEF Away, Observing
  <2> QED BY <1>1, <1>2, <1>3, <1>4, <2>1 DEF Away, SameLeases, FactsInv, Busy, Observing
<1>5. CASE \E t \in Thread : Does(t)
  <2>1. PICK t \in Thread : Does(t)
    BY <1>5
  <2>2. CASE Opens(t) \/ TakesUp(t)
    <3>1. /\ UNCHANGED <<leases, calls>>
          /\ \A u \in Thread : Busy(u)' => Busy(u) /\ job'[u].id = job[u].id
          /\ \A u \in Thread : Observing(u)' /\ job'[u].step = "commit" =>
               Observing(u) /\ job'[u] = job[u]
      BY <2>2 DEF Opens, TakesUp, Others, Busy, Observing
    <3> QED BY <1>1, <1>2, <1>3, <3>1 DEF FactsInv
  <2>3. CASE Reads(t)
    <3>1. /\ UNCHANGED <<leases, calls, conn, device>> /\ Others(t) /\ Observing(t)
          /\ job'[t].id = job[t].id /\ job'[t].tr = job[t].tr
          /\ job'[t].op = "observe"
          /\ facts'[job[t].id] = device.gen /\ job[t].id \in DOMAIN facts'
      BY <2>3 DEF Reads, GoesTo, Observing
    <3>2. /\ \A u \in Thread : Busy(u)' => Busy(u) /\ job'[u].id = job[u].id
          /\ \A u \in Thread : Observing(u)' => u = t \/ job'[u] = job[u]
          /\ \A u \in Thread : u # t /\ Observing(u)' => Observing(u)
      BY <3>1 DEF Others, Busy, Observing
    <3>3. job[t].tr \in DOMAIN conn.gens /\ conn.gens[job[t].tr] <= device.gen
      BY <3>1 DEF TransportInv
    <3>4. ASSUME NEW u \in Thread, Observing(u)', job'[u].step = "commit"
          PROVE  /\ job'[u].id \in DOMAIN facts'
                 /\ conn'.gens[job'[u].tr] <= facts'[job'[u].id]
                 /\ facts'[job'[u].id] <= device'.gen
      <4>1. CASE u = t
        BY <1>0, <3>1, <3>3, <4>1
      <4>2. CASE u # t
        BY <1>2, <3>2, <3>4, <4>2
      <4> QED BY <4>1, <4>2
    <3> QED BY <1>1, <1>3, <3>1, <3>2, <3>4 DEF FactsInv
  <2>4. CASE Commits(t)
    <3>1. /\ UNCHANGED <<calls, facts, device>> /\ Others(t) /\ Observing(t)
          /\ job'[t].op = "none" /\ job[t].step = "commit" /\ conn'.gens = conn.gens
      BY <2>4 DEF Commits, Stopping
    <3>2. /\ \A u \in Thread : Busy(u)' => Busy(u) /\ job'[u].id = job[u].id
          /\ \A u \in Thread : Observing(u)' => Observing(u) /\ job'[u] = job[u]
      BY <3>1 DEF Others, Busy, Observing
    <3>3. \A l \in DOMAIN leases' :
            l \in DOMAIN facts' /\ facts'[l] = conn'.gens[leases'[l].tr]
      <4>1. CASE UNCHANGED leases
        BY <1>3, <4>1
      <4>2. CASE Grants(t)
        <5>1. /\ conn.gens[job[t].tr] = device.gen /\ job[t].tr \in DOMAIN conn.gens
              /\ DOMAIN leases' = Unexpired \cup {job[t].id}
              /\ leases'[job[t].id].tr = job[t].tr
              /\ \A l \in Unexpired : l # job[t].id => leases'[l] = leases[l]
          BY <4>2 DEF Grants, Holds, Open, TransportInv
        <5>2. /\ job[t].id \in DOMAIN facts
              /\ conn.gens[job[t].tr] <= facts[job[t].id]
              /\ facts[job[t].id] <= device.gen
          BY <3>1 DEF FactsInv
        <5>3. facts[job[t].id] = conn.gens[job[t].tr]
          BY <1>0, <5>1, <5>2
        <5> QED BY <1>3, <3>1, <5>1, <5>2, <5>3 DEF Unexpired
      <4> QED BY <2>4, <4>1, <4>2 DEF Commits
    <3> QED BY <1>1, <1>2, <3>1, <3>2, <3>3 DEF FactsInv
  <2>5. CASE Works(t)
    <3>1. \A l \in DOMAIN leases' : l \in DOMAIN leases /\ leases'[l].tr = leases[l].tr
      BY <2>5 DEF Works, Begins, Drops, Proceeds, Invokes, Fails, Succeeds, Removes
    <3>2. \A u \in Thread : Busy(u)' =>
            \/ Busy(u) /\ job'[u].id = job[u].id
            \/ job'[u].id \in DOMAIN leases
      BY <2>5 DEF Works, Begins, Drops, Proceeds, Invokes, Fails, Succeeds, Others,
         Busy, GoesTo, Frees
    <3>3. \A u \in Thread : Observing(u)' => Observing(u) /\ job'[u] = job[u]
      <4>1. UNCHANGED job \/ (Others(t) /\ ~Observing(t)')
        BY <2>5 DEF Works, Begins, Drops, Proceeds, Invokes, Fails, Succeeds, Busy,
           Observing, GoesTo, Frees
      <4> QED BY <4>1 DEF Others, Observing
    <3>4. \A u \in Thread : Busy(u)' => job'[u].id \in DOMAIN facts
      BY <3>2 DEF FactsInv
    <3>5. \A i \in DOMAIN calls' : calls'[i].id \in DOMAIN facts
      <4>1. CASE UNCHANGED calls
        BY <4>1 DEF FactsInv
      <4>2. CASE Busy(t) /\ Invokes(t)
        <5> DEFINE e == [id |-> job[t].id, ord |-> job[t].ord, gen |-> device.gen]
        <5>1. calls' = Append(calls, e) /\ e.id \in DOMAIN facts
          BY <4>2 DEF Invokes, FactsInv
        <5> HIDE DEF e
        <5>2. calls \in Seq(Call)
          BY DEF Types
        <5>3. \A i \in DOMAIN calls' :
                calls'[i] = e \/ (i \in DOMAIN calls /\ calls'[i] = calls[i])
          BY <5>1, <5>2
        <5> QED BY <5>1, <5>3 DEF FactsInv
      <4> QED BY <2>5, <4>1, <4>2 DEF Works, Begins, Drops, Proceeds, Fails, Succeeds
    <3> QED BY <1>1, <1>2, <1>3, <3>1, <3>3, <3>4, <3>5 DEF FactsInv
  <2> QED BY <2>1, <2>2, <2>3, <2>4, <2>5 DEF Does
<1> QED BY <1>4, <1>5

-----------------------------------------------------------------------------
(* The operations.                                                           *)

LEMMA SoleBusy ==
  ASSUME LockInv, NEW t \in Thread, Busy(t)
  PROVE  \A u \in Thread : Busy(u) => u = t
BY DEF LockInv

LEMMA LockStep ==
  ASSUME LockInv, Away \/ \E t \in Thread : Does(t)
  PROVE  LockInv'
<1>1. CASE Away
  BY <1>1 DEF Away, LockInv, Busy
<1>2. CASE \E t \in Thread : Does(t)
  <2>1. PICK t \in Thread : Does(t)
    BY <1>2
  <2>2. CASE Opens(t) \/ TakesUp(t) \/ Reads(t) \/ Commits(t)
    <3>1. \A u \in Thread : Busy(u)' => Busy(u)
      BY <2>2 DEF Opens, TakesUp, Reads, Commits, Others, Busy, Observing, GoesTo
    <3>2. busy' = busy
      BY <2>2 DEF Opens, TakesUp, Reads, Commits
    <3> QED BY <3>1, <3>2 DEF LockInv
  <2>3. CASE Works(t)
    <3>1. CASE Begins(t)
      <4>1. \A u \in Thread : ~Busy(u)
        BY <3>1, BridgeAssumption DEF Begins, LockInv
      <4> QED BY <3>1, <4>1 DEF Begins, LockInv, Others, Busy
    <3>2. CASE Drops
      BY <3>2 DEF Drops, LockInv, Busy
    <3>3. CASE Busy(t) /\ (Proceeds(t) \/ Invokes(t) \/ Fails(t) \/ Succeeds(t))
      <4>1. \A u \in Thread : u # t => ~Busy(u)
        BY <3>3, SoleBusy
      <4>2. /\ Others(t)
            /\ UNCHANGED busy \/ Frees(t)
        BY <3>3 DEF Proceeds, Invokes, Fails, Succeeds
      <4> QED BY <3>3, <4>1, <4>2 DEF LockInv, Others, Busy, Frees
    <3> QED BY <2>3, <3>1, <3>2, <3>3 DEF Works
  <2> QED BY <2>1, <2>2, <2>3 DEF Does
<1> QED BY <1>1, <1>2

\* What one operation relies on.
WorkOf(t) ==
  /\ job[t].step \in {"fresh", "call", "calling", "after"}
  /\ AtWork(t)
  /\ job[t].step # "after" => NotCalled(t)
  /\ job[t].step = "after" => LastCalled(t)

\* It is not disturbed by a step that leaves it, the calls and the successes
\* alone and at most takes its lease away.
LEMMA Undisturbed ==
  ASSUME Types, Types', FactsInv, NEW t \in Thread, Busy(t), WorkOf(t),
         job'[t] = job[t], UNCHANGED <<calls, done>>, device.gen <= device'.gen,
         job[t].id \in DOMAIN leases' =>
           job[t].id \in DOMAIN leases /\ leases'[job[t].id].ord = leases[job[t].id].ord,
         \A k \in DOMAIN facts : facts'[k] = facts[k]
  PROVE  WorkOf(t)'
<1>1. AtWork(t)'
  BY DEF WorkOf, AtWork
<1>2. NotCalled(t) => NotCalled(t)'
  BY DEF NotCalled
<1>3. LastCalled(t) => LastCalled(t)'
  <2> SUFFICES ASSUME LastCalled(t) PROVE LastCalled(t)'
    OBVIOUS
  <2>1. /\ Len(calls) > 0 /\ calls[Len(calls)].gen <= device.gen
        /\ calls[Len(calls)] \in Call
    BY TypeFacts DEF LastCalled
  <2>2. calls[Len(calls)].gen \in Nat /\ device.gen \in Nat /\ device'.gen \in Nat
    BY <2>1 DEF Call, Types
  <2>3. calls[Len(calls)].gen <= device'.gen
    BY <2>1, <2>2
  <2>4. facts'[job[t].id] = facts[job[t].id]
    BY DEF FactsInv
  <2> QED BY <2>3, <2>4 DEF LastCalled
<1> QED BY <1>1, <1>2, <1>3 DEF WorkOf

LEMMA WorkInvStep ==
  ASSUME Types, Types', TransportInv, IdsInv, FactsInv, LockInv, WorkInv, RestInv,
         device.gen <= device'.gen, Away \/ \E t \in Thread : Does(t)
  PROVE  WorkInv'
<1>0. /\ \A u \in Thread : Busy(u) => WorkOf(u)
      /\ \A k \in DOMAIN facts : facts'[k] = facts[k]
  BY FactsKept DEF WorkInv, WorkOf, IdsInv
<1> SUFFICES ASSUME NEW u \in Thread, Busy(u)' PROVE WorkOf(u)'
  BY DEF WorkInv, WorkOf
<1>1. CASE Away
  <2>1. /\ Busy(u) /\ job'[u] = job[u] /\ UNCHANGED <<calls, done>>
        /\ job[u].id \in DOMAIN leases' =>
             job[u].id \in DOMAIN leases /\ leases'[job[u].id].ord = leases[job[u].id].ord
    BY <1>1 DEF Away, SameLeases, Busy
  <2> QED BY <1>0, <2>1, Undisturbed
<1>2. CASE \E t \in Thread : Does(t)
  <2>1. PICK t \in Thread : Does(t)
    BY <1>2
  <2>2. CASE Opens(t) \/ TakesUp(t) \/ Reads(t) \/ Commits(t)
    <3>1. Busy(u) /\ u # t /\ job'[u] = job[u] /\ UNCHANGED <<calls, done>>
      BY <2>2 DEF Opens, TakesUp, Reads, Commits, Others, Busy, Observing, GoesTo
    <3>2. job[u].id \in DOMAIN leases' =>
            job[u].id \in DOMAIN leases /\ leases'[job[u].id].ord = leases[job[u].id].ord
      <4>1. CASE UNCHANGED leases
        BY <4>1
      <4>2. CASE Commits(t) /\ Grants(t)
        <5>1. Pending(job[t].id) /\ job[t].id \in Nat
          BY <4>2, TypeFacts DEF Commits, Pending
        <5>2. job[u].id # job[t].id
          BY <3>1, <5>1 DEF IdsInv, PendingInv, Untouched
        <5> QED BY <4>2, <5>2 DEF Grants, Unexpired
      <4> QED BY <2>2, <4>1, <4>2 DEF Opens, TakesUp, Reads, Commits
    <3> QED BY <1>0, <3>1, <3>2, Undisturbed
  <2>3. CASE UNCHANGED <<device, sessions, facts, issued>> /\ Begins(t)
    <3>1. \A v \in Thread : ~Busy(v)
      BY <2>3, BridgeAssumption DEF Begins, LockInv
    <3>2. u = t
      BY <2>3, <3>1 DEF Begins, Others, Busy
    <3> DEFINE l == job'[t].id
    <3>3. /\ UNCHANGED <<calls, done>> /\ job'[t].step \in {"fresh", "call"}
          /\ l \in DOMAIN leases /\ job'[t].ord = leases[l].ord + 1
          /\ leases'[l].ord = job'[t].ord /\ leases[l].ord \in Nat
      BY <2>3, TypeFacts DEF Begins
    <3>4. AtRest(l)
      BY <3>1, <3>3 DEF RestInv
    <3> HIDE DEF l
    <3>5. /\ \A x \in 1..(job'[t].ord - 1) : <<l, x>> \in done
          /\ \A x \in Nat : <<l, x>> \in done => x < job'[t].ord
      BY <3>3, <3>4 DEF AtRest
    <3>6. \A i \in DOMAIN calls : calls[i].id = l => calls[i].ord < job'[t].ord
      <4> SUFFICES ASSUME NEW i \in DOMAIN calls, calls[i].id = l
                   PROVE  calls[i].ord < job'[t].ord
        OBVIOUS
      <4>1. calls[i].ord \in Nat
        BY TypeFacts DEF Call
      <4>2. calls[i].ord <= leases[l].ord
        BY <3>4 DEF AtRest
      <4> QED BY <3>3, <4>1, <4>2
    <3> QED BY <3>2, <3>3, <3>5, <3>6 DEF WorkOf, AtWork, NotCalled, l
  <2>4. CASE Drops
    <3>1. Busy(u) /\ job'[u] = job[u] /\ UNCHANGED <<calls, done>>
      BY <2>4 DEF Drops, Busy
    <3>2. job[u].id \in DOMAIN leases' =>
            job[u].id \in DOMAIN leases /\ leases'[job[u].id].ord = leases[job[u].id].ord
      BY <2>4 DEF Drops, Removes
    <3> QED BY <1>0, <3>1, <3>2, Undisturbed
  <2>5. CASE Busy(t) /\ Proceeds(t)
    <3>1. u = t
      BY <2>5, SoleBusy DEF Proceeds, Others, Busy
    <3>2. /\ UNCHANGED <<leases, calls, done>> /\ job[t].step # "after"
          /\ job'[t].step \in {"call", "calling"}
          /\ job'[t].id = job[t].id /\ job'[t].ord = job[t].ord
      BY <2>5 DEF Proceeds, GoesTo
    <3>3. AtWork(t) /\ NotCalled(t)
      BY <1>0, <2>5, <3>2 DEF WorkOf
    <3> QED BY <3>1, <3>2, <3>3 DEF WorkOf, AtWork, NotCalled
  <2>6. CASE UNCHANGED <<device, facts>> /\ Busy(t) /\ Invokes(t)
    <3>1. u = t
      BY <2>6, SoleBusy DEF Invokes, Others, Busy
    <3>2. GoesTo(t, "after") /\ UNCHANGED leases
      BY <2>6, <3>1 DEF Invokes, Frees, Busy
    <3> DEFINE l == job[t].id
               e == [id |-> l, ord |-> job[t].ord, gen |-> device.gen]
               n == Len(calls) + 1
    <3>3. calls' = Append(calls, e) /\ job[t].step = "calling" /\ UNCHANGED done
      BY <2>6 DEF Invokes
    <3>4. e.id = l /\ e.ord = job[t].ord /\ e.gen = device.gen
      OBVIOUS
    <3> HIDE DEF e
    <3>5. /\ Len(calls') = n /\ calls'[n] = e /\ n > 0
          /\ \A i \in 1..(n - 1) : i \in DOMAIN calls /\ calls'[i] = calls[i]
      BY <3>3 DEF Types
    <3>6. AtWork(t) /\ NotCalled(t)
      BY <1>0, <2>6, <3>3 DEF WorkOf
    <3>7. l \in DOMAIN leases => facts[l] <= device.gen
      <4> SUFFICES ASSUME l \in DOMAIN leases PROVE facts[l] <= device.gen
        OBVIOUS
      <4>1. facts[l] = conn.gens[leases[l].tr] /\ leases[l].tr \in DOMAIN conn.gens
        BY DEF FactsInv, TransportInv
      <4> QED BY <4>1 DEF TransportInv
    <3>8. device.gen <= device.gen
      BY TypeFacts
    <3>9. LastCalled(t)'
      BY <2>6, <3>2, <3>4, <3>5, <3>6, <3>7, <3>8 DEF LastCalled, NotCalled, GoesTo
    <3>10. AtWork(t)'
      BY <3>2, <3>3, <3>6 DEF AtWork, GoesTo
    <3> QED BY <3>1, <3>2, <3>9, <3>10 DEF WorkOf, GoesTo
  <2>7. CASE Busy(t) /\ (Fails(t) \/ Succeeds(t))
    BY <2>7, SoleBusy DEF Fails, Succeeds, Others, Frees, Busy
  <2> QED BY <2>1, <2>2, <2>3, <2>4, <2>5, <2>6, <2>7 DEF Does, Works
<1> QED BY <1>1, <1>2

LEMMA RestStep ==
  ASSUME Types, Types', IdsInv, LockInv, WorkInv, RestInv,
         Away \/ \E t \in Thread : Does(t)
  PROVE  RestInv'
<1> SUFFICES ASSUME NEW l \in DOMAIN leases',
                    \A u \in Thread : Busy(u)' => job'[u].id # l
             PROVE  AtRest(l)'
  BY DEF RestInv
\* A lease that rests and is left alone still rests.
<1>1. ASSUME l \in DOMAIN leases, leases'[l].ord = leases[l].ord,
             UNCHANGED <<calls, done>>, \A u \in Thread : Busy(u) => job[u].id # l
      PROVE  AtRest(l)'
  <2>1. AtRest(l)
    BY <1>1 DEF RestInv
  <2> QED BY <1>1, <2>1 DEF AtRest
<1>2. CASE Away
  BY <1>1, <1>2 DEF Away, SameLeases, Busy
<1>3. CASE \E t \in Thread : Does(t)
  <2>1. PICK t \in Thread : Does(t)
    BY <1>3
  <2>2. CASE Opens(t) \/ TakesUp(t) \/ Reads(t) \/ Commits(t)
    <3>1. /\ UNCHANGED <<calls, done>>
          /\ \A u \in Thread : Busy(u) => Busy(u)' /\ job'[u].id = job[u].id
      BY <2>2 DEF Opens, TakesUp, Reads, Commits, Others, Busy, Observing, GoesTo
    <3>2. CASE UNCHANGED leases
      BY <1>1, <3>1, <3>2
    <3>3. CASE Commits(t) /\ Grants(t)
      <4>1. CASE l = job[t].id
        <5>1. Pending(l) /\ l \in Nat /\ leases'[l].ord = 0
          BY <3>3, <4>1, TypeFacts DEF Commits, Grants, Pending
        <5>2. Untouched(l)
          BY <5>1 DEF IdsInv, PendingInv
        <5> QED BY <3>1, <5>1, <5>2 DEF Untouched, AtRest
      <4>2. CASE l # job[t].id
        <5>1. l \in DOMAIN leases /\ leases'[l] = leases[l]
          BY <3>3, <4>2 DEF Grants, Unexpired
        <5> QED BY <1>1, <3>1, <5>1
      <4> QED BY <4>1, <4>2
    <3> QED BY <2>2, <3>2, <3>3 DEF Opens, TakesUp, Reads, Commits
  <2>3. CASE Begins(t)
    <3>1. /\ \A u \in Thread : ~Busy(u)
          /\ UNCHANGED <<calls, done>> /\ l # job'[t].id
      BY <2>3, BridgeAssumption DEF Begins, LockInv, Busy
    <3>2. l \in DOMAIN leases /\ leases'[l].ord = leases[l].ord
      BY <2>3, <3>1 DEF Begins
    <3> QED BY <1>1, <3>1, <3>2
  <2>4. CASE Drops
    <3>1. /\ UNCHANGED <<calls, done, job>>
          /\ l \in DOMAIN leases /\ leases'[l] = leases[l]
      BY <2>4 DEF Drops, Removes
    <3> QED BY <1>1, <3>1 DEF Busy
  <2>5. CASE Busy(t) /\ Proceeds(t)
    <3>1. /\ UNCHANGED <<leases, calls, done>>
          /\ \A u \in Thread : Busy(u) => Busy(u)' /\ job'[u].id = job[u].id
      BY <2>5 DEF Proceeds, Others, Busy, GoesTo
    <3> QED BY <1>1, <3>1
  <2>6. CASE Busy(t) /\ Invokes(t)
    <3>1. /\ l # job[t].id /\ l \in DOMAIN leases /\ leases'[l] = leases[l]
      BY <2>6 DEF Invokes, Removes, GoesTo, Busy
    <3>2. AtRest(l)
      BY <2>6, <3>1, SoleBusy DEF RestInv
    <3> DEFINE e == [id |-> job[t].id, ord |-> job[t].ord, gen |-> device.gen]
    <3>3. calls' = Append(calls, e) /\ e.id # l /\ UNCHANGED done
      BY <2>6, <3>1 DEF Invokes
    <3> HIDE DEF e
    <3>4. \A i \in DOMAIN calls' :
            calls'[i] = e \/ (i \in DOMAIN calls /\ calls'[i] = calls[i])
      BY SMTT(20), <3>3 DEF Types
    <3> QED BY <3>1, <3>2, <3>3, <3>4 DEF AtRest
  <2>7. CASE Busy(t) /\ Fails(t)
    <3>1. /\ l # job[t].id /\ l \in DOMAIN leases /\ leases'[l] = leases[l]
          /\ UNCHANGED <<calls, done>>
      BY <2>7 DEF Fails, Removes
    <3> QED BY <1>1, <2>7, <3>1, SoleBusy
  <2>8. CASE Busy(t) /\ Succeeds(t)
    <3>1. /\ UNCHANGED <<leases, calls>> /\ job[t].step = "after"
          /\ done' = done \cup {<<job[t].id, job[t].ord>>}
      BY <2>8 DEF Succeeds
    <3>2. CASE l = job[t].id
      <4> DEFINE o == job[t].ord
      <4>1. /\ o \in Nat /\ AtWork(t) /\ LastCalled(t) /\ leases[l].ord = o
            /\ DOMAIN calls = 1..Len(calls) /\ Len(calls) \in Nat
            /\ \A i \in DOMAIN calls : calls[i].ord \in Nat
        BY <2>8, <3>1, <3>2, TypeFacts DEF WorkInv, AtWork, Call
      <4>2. \A x \in 1..o : <<l, x>> \in done'
        <5>1. \A x \in 1..o : x = o \/ x \in 1..(o - 1)
          BY <4>1
        <5> QED BY <3>1, <3>2, <4>1, <5>1 DEF AtWork
      <4>3. \A x \in Nat : <<l, x>> \in done' => x <= o
        BY <3>1, <3>2, <4>1 DEF AtWork
      <4>4. \A i \in DOMAIN calls : calls[i].id = l => calls[i].ord <= o
        <5>1. \A i \in DOMAIN calls : i = Len(calls) \/ i \in 1..(Len(calls) - 1)
          BY <4>1
        <5>2. ASSUME NEW i \in DOMAIN calls, calls[i].id = l
              PROVE  calls[i].ord = o \/ calls[i].ord < o
          BY <3>2, <4>1, <5>1, <5>2 DEF LastCalled
        <5> QED BY <4>1, <5>2
      <4> QED BY <3>1, <4>1, <4>2, <4>3, <4>4 DEF AtRest
    <3>3. CASE l # job[t].id
      <4>1. AtRest(l)
        BY <2>8, <3>1, <3>3, SoleBusy DEF RestInv
      <4> QED BY <3>1, <3>3, <4>1 DEF AtRest
    <3> QED BY <3>2, <3>3
  <2> QED BY <2>1, <2>2, <2>3, <2>4, <2>5, <2>6, <2>7, <2>8 DEF Does, Works
<1> QED BY <1>2, <1>3

-----------------------------------------------------------------------------
(* The parts a client relies on.                                             *)

\* The calls and the successes only grow: nothing, a call of the operation under
\* way, or the success of its call.
LEMMA HistoryCases ==
  ASSUME Away \/ \E t \in Thread : Does(t)
  PROVE  \/ UNCHANGED <<calls, done>>
         \/ \E t \in Thread :
              /\ Busy(t) /\ UNCHANGED <<device, facts>>
              /\ Invokes(t) \/ Succeeds(t)
BY DEF Away, Does, Opens, TakesUp, Reads, Commits, Works, Begins, Drops, Proceeds,
     Fails

LEMMA OrderStep ==
  ASSUME Types, WorkInv, OperationsInOrder, Away \/ \E t \in Thread : Does(t)
  PROVE  OperationsInOrder'
<1>1. CASE UNCHANGED <<calls, done>>
  BY <1>1 DEF OperationsInOrder
<1>2. CASE \E t \in Thread : Busy(t) /\ Invokes(t)
  <2>1. PICK t \in Thread : Busy(t) /\ Invokes(t)
    BY <1>2
  <2> DEFINE e == [id |-> job[t].id, ord |-> job[t].ord, gen |-> device.gen]
             n == Len(calls) + 1
  <2>2. /\ calls' = Append(calls, e) /\ UNCHANGED done
        /\ e.id = job[t].id /\ e.ord = job[t].ord
    BY <2>1 DEF Invokes
  <2>3. AtWork(t) /\ NotCalled(t)
    BY <2>1 DEF WorkInv, Invokes
  <2> HIDE DEF e
  <2>4. /\ DOMAIN calls' = 1..n /\ n \in Nat /\ calls'[n] = e
        /\ DOMAIN calls = 1..(n - 1)
        /\ \A i \in DOMAIN calls : calls'[i] = calls[i]
    BY <2>2 DEF Types
  <2> HIDE DEF n
  <2>5. ASSUME NEW i \in DOMAIN calls', NEW j \in DOMAIN calls', i < j,
               calls'[i].id = calls'[j].id
        PROVE  calls'[i].ord < calls'[j].ord
    <3>1. i \in DOMAIN calls /\ calls'[i] = calls[i]
      BY <2>4, <2>5
    <3>2. CASE j = n
      BY <2>2, <2>3, <2>4, <2>5, <3>1, <3>2 DEF NotCalled
    <3>3. CASE j # n
      <4>1. j \in DOMAIN calls /\ calls'[j] = calls[j]
        BY <2>4, <3>3
      <4> QED BY <2>5, <3>1, <4>1 DEF OperationsInOrder
    <3> QED BY <3>2, <3>3
  <2>6. ASSUME NEW i \in DOMAIN calls', NEW o \in 1..(calls'[i].ord - 1)
        PROVE  <<calls'[i].id, o>> \in done'
    <3>1. CASE i = n
      BY <2>2, <2>3, <2>4, <2>6, <3>1 DEF AtWork
    <3>2. CASE i # n
      <4>1. i \in DOMAIN calls /\ calls'[i] = calls[i]
        BY <2>4, <3>2
      <4> QED BY <2>2, <2>6, <4>1 DEF OperationsInOrder
    <3> QED BY <3>1, <3>2
  <2> QED BY <2>5, <2>6 DEF OperationsInOrder
<1>3. CASE \E t \in Thread : Succeeds(t)
  BY <1>3 DEF Succeeds, OperationsInOrder
<1> QED BY <1>1, <1>2, <1>3, HistoryCases

LEMMA SuccessStep ==
  ASSUME Types, WaitingInv, TransportInv, FactsInv, WorkInv, SuccessOnObservedDevice,
         Away \/ \E t \in Thread : Does(t)
  PROVE  SuccessOnObservedDevice'
<1>1. /\ \A i \in DOMAIN calls :
           /\ calls[i].id \in DOMAIN facts /\ calls[i].id \in Nat
           /\ calls[i].ord \in Nat /\ calls[i].gen \in Nat
      /\ DOMAIN calls = 1..Len(calls) /\ Len(calls) \in Nat
      /\ device.gen \in Nat
      /\ \A k \in DOMAIN facts : facts[k] \in Nat
  BY TypeFacts DEF FactsInv, Call
<1>2. CASE UNCHANGED <<calls, done>>
  <2>1. \A i \in DOMAIN calls : facts'[calls[i].id] = facts[calls[i].id]
    BY <1>1, FactsKept
  <2> QED BY <1>2, <2>1 DEF SuccessOnObservedDevice
<1>3. CASE \E t \in Thread : Busy(t) /\ UNCHANGED facts /\ Invokes(t)
  <2>1. PICK t \in Thread : Busy(t) /\ UNCHANGED facts /\ Invokes(t)
    BY <1>3
  <2> DEFINE e == [id |-> job[t].id, ord |-> job[t].ord, gen |-> device.gen]
  <2>2. /\ calls' = Append(calls, e) /\ UNCHANGED done
        /\ e.id = job[t].id /\ e.ord = job[t].ord
    BY <2>1 DEF Invokes
  <2> HIDE DEF e
  <2>3. \A i \in DOMAIN calls' :
          calls'[i] = e \/ (i \in DOMAIN calls /\ calls'[i] = calls[i])
    BY <2>2 DEF Types
  \* The operation under way has not been answered.
  <2>4. <<e.id, e.ord>> \notin done
    <3>1. AtWork(t) /\ job[t].ord \in Nat
      BY <2>1, TypeFacts DEF WorkInv
    <3> QED BY <2>2, <3>1 DEF AtWork
  <2> QED BY <2>1, <2>2, <2>3, <2>4 DEF SuccessOnObservedDevice
<1>4. CASE \E t \in Thread : Busy(t) /\ UNCHANGED facts /\ Succeeds(t)
  <2>1. PICK t \in Thread : Busy(t) /\ UNCHANGED facts /\ Succeeds(t)
    BY <1>4
  <2> DEFINE l == job[t].id
             n == Len(calls)
  <2>2. /\ UNCHANGED calls /\ done' = done \cup {<<l, job[t].ord>>}
        /\ l \in DOMAIN leases /\ conn.gens[leases[l].tr] = device.gen
        /\ LastCalled(t)
    BY <2>1 DEF Succeeds, Holds, WorkInv
  \* The check that has just passed closes the interval around the call.
  <2>3. calls[n].gen = facts[l]
    <3>1. l \in DOMAIN facts /\ facts[l] = device.gen
      BY <2>2 DEF FactsInv
    <3>2. n \in DOMAIN calls /\ calls[n].gen <= device.gen /\ facts[l] <= calls[n].gen
      BY <1>1, <2>2 DEF LastCalled
    <3> QED BY <1>1, <3>1, <3>2
  <2> SUFFICES ASSUME NEW i \in DOMAIN calls, <<calls[i].id, calls[i].ord>> \in done'
               PROVE  calls[i].gen = facts[calls[i].id]
    BY <2>1, <2>2 DEF SuccessOnObservedDevice
  <2>4. CASE <<calls[i].id, calls[i].ord>> \in done
    BY <2>4 DEF SuccessOnObservedDevice
  <2>5. CASE calls[i].id = l /\ calls[i].ord = job[t].ord
    <3>1. i = n
      <4>1. i = n \/ i \in 1..(n - 1)
        BY <1>1
      <4>2. ~(calls[i].ord < job[t].ord)
        BY <1>1, <2>5
      <4> QED BY <2>2, <2>5, <4>1, <4>2 DEF LastCalled
    <3> QED BY <2>3, <2>5, <3>1
  <2> QED BY <2>2, <2>4, <2>5
<1> QED BY <1>2, <1>3, <1>4, HistoryCases

LEMMA TablesStep ==
  ASSUME Types, Types', TablesBounded, Away \/ \E t \in Thread : Does(t)
  PROVE  TablesBounded'
<1>0. /\ IsFiniteSet(sessions) /\ Cardinality(sessions) \in Nat
      /\ IsFiniteSet(Unexpired) /\ Cardinality(Unexpired) \in Nat
      /\ IsFiniteSet(sessions') /\ Cardinality(sessions') \in Nat
      /\ IsFiniteSet(Unexpired') /\ Cardinality(Unexpired') \in Nat
      /\ MaxSessions \in Nat /\ MaxLeases \in Nat
  <2>1. Unexpired \subseteq DOMAIN leases /\ Unexpired' \subseteq DOMAIN leases'
    BY DEF Unexpired
  <2> QED BY <2>1, FS_Subset, FS_CardinalityType, BridgeAssumption DEF Types
<1>1. ASSUME sessions' \subseteq sessions
      PROVE  Cardinality(sessions') <= MaxSessions
  <2>1. Cardinality(sessions') <= Cardinality(sessions)
    BY <1>0, <1>1, FS_Subset
  <2> QED BY <1>0, <2>1 DEF TablesBounded
<1>2. ASSUME Unexpired' \subseteq Unexpired
      PROVE  Cardinality(Unexpired') <= MaxLeases
  <2>1. Cardinality(Unexpired') <= Cardinality(Unexpired)
    BY <1>0, <1>2, FS_Subset
  <2> QED BY <1>0, <2>1 DEF TablesBounded
<1>3. CASE Away
  <2>1. sessions' \subseteq sessions
    BY <1>3 DEF Away
  <2>2. Unexpired' \subseteq Unexpired
    BY <1>3 DEF Away, SameLeases, Unexpired
  <2> QED BY <1>1, <1>2, <2>1, <2>2 DEF TablesBounded
<1>4. CASE \E t \in Thread : Does(t)
  <2>1. PICK t \in Thread : Does(t)
    BY <1>4
  <2>2. CASE Opens(t)
    <3>1. Unexpired' \subseteq Unexpired
      BY <2>2 DEF Opens, Unexpired
    <3>2. CASE UNCHANGED sessions
      <4>1. sessions' \subseteq sessions
        BY <3>2
      <4> QED BY <1>1, <1>2, <3>1, <4>1 DEF TablesBounded
    <3>3. CASE /\ Cardinality(sessions) < MaxSessions
               /\ \E s \in Session : sessions' = sessions \cup {s}
      <4>1. Cardinality(sessions') <= Cardinality(sessions) + 1
        <5>1. PICK s : sessions' = sessions \cup {s}
          BY <3>3
        <5>2. Cardinality(sessions') = IF s \in sessions THEN Cardinality(sessions)
                                       ELSE Cardinality(sessions) + 1
          BY <1>0, <5>1, FS_AddElement
        <5> QED BY <1>0, <5>2
      <4>2. Cardinality(sessions') <= MaxSessions
        BY <1>0, <3>3, <4>1
      <4> QED BY <1>2, <3>1, <4>2 DEF TablesBounded
    <3>4. UNCHANGED sessions \/
            /\ Cardinality(sessions) < MaxSessions
            /\ \E s \in Session : sessions' = sessions \cup {s}
      <4>1. CASE UNCHANGED sessions
        BY <4>1
      <4>2. CASE /\ Cardinality(sessions) < MaxSessions
                 /\ \E tr \in DOMAIN conn.gens, d \in BOOLEAN : sessions' =
                      sessions \cup {[id |-> issued + 1, display |-> d, tr |-> tr]}
        <5>1. PICK tr \in DOMAIN conn.gens, d \in BOOLEAN : sessions' =
                     sessions \cup {[id |-> issued + 1, display |-> d, tr |-> tr]}
          BY <4>2
        <5> DEFINE s == [id |-> issued + 1, display |-> d, tr |-> tr]
        <5>2. s \in sessions' /\ sessions' = sessions \cup {s}
          BY <5>1
        <5>3. s \in Session
          BY <5>2 DEF Types
        <5> QED BY <4>2, <5>2, <5>3
      <4> QED BY <2>2, <4>1, <4>2 DEF Opens
    <3> QED BY <3>2, <3>3, <3>4
  <2>3. CASE TakesUp(t) \/ Reads(t) \/ (Commits(t) /\ UNCHANGED leases)
    <3>1. sessions' \subseteq sessions /\ UNCHANGED leases
      BY <2>3 DEF TakesUp, Reads, Commits
    <3> QED BY <1>1, <1>2, <3>1 DEF TablesBounded, Unexpired
  <2>4. CASE Commits(t) /\ Grants(t)
    <3> DEFINE room == Unexpired \cup {job[t].id}
    <3>1. UNCHANGED sessions /\ Cardinality(Unexpired) < MaxLeases
          /\ Unexpired' \subseteq room
      BY <2>4 DEF Commits, Grants, Unexpired
    <3>2. /\ IsFiniteSet(room)
          /\ Cardinality(room) = IF job[t].id \in Unexpired THEN Cardinality(Unexpired)
                                 ELSE Cardinality(Unexpired) + 1
      BY <1>0, FS_AddElement
    <3> HIDE DEF room
    <3>3. Cardinality(Unexpired') <= Cardinality(room)
      BY <3>1, <3>2, FS_Subset
    <3>4. Cardinality(Unexpired') <= MaxLeases
      BY <1>0, <3>1, <3>2, <3>3
    <3> QED BY <1>1, <3>1, <3>4 DEF TablesBounded
  <2>5. CASE Works(t)
    <3>1. UNCHANGED sessions
      BY <2>5 DEF Works
    <3>2. Unexpired' \subseteq Unexpired
      <4>1. CASE Begins(t)
        BY <4>1 DEF Begins, Unexpired
      <4>2. CASE Drops \/ Fails(t)
        BY <4>2 DEF Drops, Fails, Removes, Unexpired
      <4>3. CASE Proceeds(t) \/ Invokes(t) \/ Succeeds(t)
        BY <4>3 DEF Proceeds, Invokes, Succeeds, Removes, Unexpired
      <4> QED BY <2>5, <4>1, <4>2, <4>3 DEF Works
    <3> QED BY <1>1, <1>2, <3>1, <3>2 DEF TablesBounded
  <2> QED BY <2>1, <2>2, <2>3, <2>4, <2>5 DEF Does, Commits
<1> QED BY <1>3, <1>4

-----------------------------------------------------------------------------
(* The theorems.                                                             *)

LEMMA InitOK == ASSUME Init PROVE IInv
<1>1. /\ device \in [gen : {1}, display : {FALSE}, screen : Screen]
      /\ conn = [slot |-> 0, gens |-> <<>>, open |-> {}]
      /\ sessions = {} /\ leases = <<>> /\ busy = "free"
      /\ job = [t \in Thread |-> NoJob]
      /\ issued = 0 /\ facts = <<>> /\ calls = <<>> /\ done = {}
  BY DEF Init
<1>2. \A t \in Thread : job[t].op = "none" /\ job[t].step = "none"
  BY <1>1, NoJobType
<1>3. Types
  <2>1. device \in [gen : Nat, display : BOOLEAN, screen : Screen]
    <3>1. PICK s \in Screen : device = [gen |-> 1, display |-> FALSE, screen |-> s]
      BY <1>1
    <3> QED BY <3>1
  <2>2. conn \in [slot : Nat, gens : Seq(Nat), open : SUBSET Nat]
    BY <1>1
  <2>3. sessions \subseteq Session /\ IsFiniteSet(sessions)
    BY <1>1, FS_EmptySet
  <2>4. /\ DOMAIN leases = {} /\ IsFiniteSet(DOMAIN leases)
        /\ leases \in [{} -> Lease]
    BY <1>1, FS_EmptySet
  <2>5. DOMAIN facts = {} /\ facts \in [{} -> Nat]
    BY <1>1
  <2>6. job \in [Thread -> Job] /\ issued \in Nat /\ calls \in Seq(Call)
    BY <1>1, NoJobType
  <2> QED BY <2>1, <2>2, <2>3, <2>4, <2>5, <2>6 DEF Types
<1>4. DOMAIN conn.gens = {} /\ conn.open = {} /\ DOMAIN leases = {}
      /\ DOMAIN facts = {} /\ DOMAIN calls = {}
  BY <1>1
<1>5. /\ \A t \in Thread : ~Busy(t) /\ ~Observing(t)
      /\ \A t \in Thread : job[t].step = "none"
  BY <1>2 DEF Busy, Observing
<1>6. TransportInv /\ FactsInv /\ LockInv /\ WorkInv /\ RestInv
  BY <1>1, <1>4, <1>5 DEF TransportInv, FactsInv, LockInv, WorkInv, RestInv
<1>7. IdsInv
  BY <1>1, <1>4, <1>5 DEF IdsInv, SessionIds, ObservedIds, WaitingInv, PendingInv,
       Untouched
<1>8. OperationsInOrder /\ SuccessOnObservedDevice
  BY <1>4 DEF OperationsInOrder, SuccessOnObservedDevice
<1>9. TablesBounded
  <2>1. Unexpired = {}
    BY <1>4 DEF Unexpired
  <2> QED BY <1>1, <2>1, FS_EmptySet, BridgeAssumption DEF TablesBounded
<1> QED BY <1>3, <1>6, <1>7, <1>8, <1>9 DEF IInv

LEMMA IInvStep == ASSUME IInv, [Next]_vars PROVE IInv'
<1>0. /\ Types /\ TransportInv /\ IdsInv /\ FactsInv /\ LockInv /\ WorkInv /\ RestInv
      /\ OperationsInOrder /\ SuccessOnObservedDevice /\ TablesBounded
      /\ SessionIds /\ ObservedIds /\ WaitingInv /\ PendingInv
  BY DEF IInv, IdsInv
<1>1. Types' /\ (Away \/ \E t \in Thread : Does(t))
  BY <1>0, Frames
<1>2. TransportInv' /\ Known /\ device.gen <= device'.gen
  BY <1>0, <1>1, TransportStep
<1>3. IdsInv'
  BY <1>0, <1>1, SessionIdsStep, ObservedIdsStep, WaitingStep, PendingStep DEF IdsInv
<1>4. FactsInv'
  BY <1>0, <1>1, <1>2, FactsStep
<1>5. LockInv' /\ RestInv'
  BY <1>0, <1>1, LockStep, RestStep
<1>6. WorkInv'
  BY <1>0, <1>1, <1>2, WorkInvStep
<1>7. OperationsInOrder' /\ SuccessOnObservedDevice' /\ TablesBounded'
  BY <1>0, <1>1, OrderStep, SuccessStep, TablesStep
<1> QED BY <1>1, <1>2, <1>3, <1>4, <1>5, <1>6, <1>7 DEF IInv

\* Through any interleaving of requests, with reconnections, rotations and
\* expiries in between, an identifier is in one place only, the generation read
\* for a lease is that of its transport, and a lease without an operation under
\* way has succeeded in all of its operations.
THEOREM BridgeInvariant == Spec => []IInv
<1>1. Init => IInv
  BY InitOK
<1>2. IInv /\ [Next]_vars => IInv'
  BY IInvStep
<1> QED BY <1>1, <1>2, PTL DEF Spec

\* A lease touches the device in the order of its ordinals and never after an
\* operation of it was not a success, a success acted on the connection whose
\* identity was read for the lease, and no table outgrows its capacity.
THEOREM BridgeHolds == Spec => []BridgeInv
<1>1. IInv => BridgeInv
  BY DEF IInv, BridgeInv
<1> QED BY <1>1, BridgeInvariant, PTL

\* The identity read for a session is never read again: a session is taken out of
\* the table before it is observed, and its identifier is not given out twice.
THEOREM OneReading == Spec => OneObservationPerSession
<1>1. ASSUME IInv, [Next]_vars
      PROVE  \A k \in DOMAIN facts : facts'[k] = facts[k]
  <2>1. Types /\ TransportInv /\ WaitingInv
    BY <1>1 DEF IInv, IdsInv
  <2>2. Away \/ \E t \in Thread : Does(t)
    BY <1>1, <2>1, Frames
  <2> QED BY <2>1, <2>2, FactsKept
<1>2. IInv /\ [Next]_vars => [\A k \in DOMAIN facts : facts'[k] = facts[k]]_vars
  BY <1>1
<1> QED BY <1>2, BridgeInvariant, PTL DEF Spec, OneObservationPerSession


-----------------------------------------------------------------------------
(* Captures: the inductive invariant.                                      *)

\* Whoever may be at work in capture_control.
Doer == Client \cup {Closer}

CaptureTask ==
  [do : {"none", "start", "stop", "discard", "screenshot"},
   by : {"none", "lease", "plain", "close"},
   step : {"none", "command", "shoot", "verify", "check", "frames", "video", "sdk",
           "find", "await", "pop", "remove", "finish"},
   gen : Nat, mode : {"none", "frames", "video"}, stopped : BOOLEAN]

InTable ==
  [gen : Nat \ {0}, mode : {"frames", "video"}, guarded : BOOLEAN, stop : BOOLEAN,
   kept : SUBSET (Nat \X Nat), failure : BOOLEAN, unconfirmed : BOOLEAN,
   watched : BOOLEAN]

\* What the variables can hold.
CaptureTypes ==
  /\ world \in [lease : BOOLEAN, same : BOOLEAN]
  /\ phase \in {"open", "closing", "closed", "failed"}
  /\ rec \in InTable \cup {Nothing}
  /\ Recording => IsFiniteSet(rec.kept)
  /\ watch \in [step : {"ended", "watching", "stopping"}, asked : BOOLEAN,
                stopped : BOOLEAN, failed : BOOLEAN]
  /\ sampler \in {"off", "loop", "shoot", "keep"}
  /\ session \in Nat /\ made \in Nat
  /\ task \in [Doer -> CaptureTask]
  /\ run \subseteq Nat /\ accepted \subseteq Nat \X Nat

\* Inside the command lock, and on the way to a capture of its own.
InCommand(t) ==
  task[t].step \in {"check", "frames", "video", "sdk", "find", "await", "pop", "remove"}

Starting(t) ==
  \/ task[t].step \in {"check", "frames", "video", "sdk"}
  \/ task[t].step = "command" /\ task[t].do = "start"

\* A lock is named by the one that is inside.
HolderInv ==
  \A t \in Doer :
    /\ InCommand(t) => cmd = t
    /\ task[t].step = "sdk" => lock = t /\ ~Recording
    /\ task[t].by = "lease" => op = t
    /\ task[t].do = "none" <=> task[t].step = "none"
    /\ task[t].do = "none" <=> task[t].by = "none"

\* The step of a task fits what it was asked to do.
StepInv ==
  \A t \in Doer :
    /\ Starting(t) => task[t].do = "start"
    /\ task[t].step \in {"frames", "video"} => task[t].mode = task[t].step
    /\ task[t].step = "sdk" => task[t].mode = "video"
    /\ task[t].step \in {"shoot", "verify"} =>
         task[t].do = "screenshot" /\ task[t].by = "lease"
    /\ task[t].do = "start" => task[t].mode \in Mode
    /\ task[t].step \in {"await", "pop"} => Recording
    /\ task[t].step = "remove" => ~Recording
    /\ task[t].by = "close" => t = Closer
    /\ t = Closer => task[t].by \in {"none", "close"} /\ task[t].do \in {"none", "stop"}
    /\ task[t].by = "lease" /\ task[t].do \in {"start", "stop", "discard"} =>
         task[t].gen = session

\* A number is given to one capture, and none that only starts has evidence yet.
NumberInv ==
  /\ \A t \in Doer : task[t].gen <= made
  /\ rec.gen <= made /\ session <= made
  /\ \A f \in accepted : f[1] <= made
  /\ \A t \in Doer : Starting(t) =>
       /\ task[t].gen # 0 /\ task[t].gen # rec.gen
       /\ \A u \in Doer : Starting(u) /\ task[u].gen = task[t].gen => u = t
       /\ \A f \in accepted : f[1] = task[t].gen => f[2] = 0
  /\ \A t \in Doer : task[t].step = "shoot" => <<task[t].gen, 0>> \notin accepted

\* What records, takes frames or watches does it for the entry of the table.
EntryInv ==
  /\ \A g \in run : g = rec.gen /\ Recording /\ rec.mode = "video"
  /\ Recording /\ rec.guarded => session = rec.gen
  /\ sampler # "off" => Recording /\ rec.mode = "frames"
  /\ watch.step # "ended" \/ watch.stopped =>
       Recording /\ rec.mode = "video" /\ rec.guarded /\ rec.watched
  /\ watch.stopped => watch.step = "ended" /\ run = {}
  /\ \A t \in Doer : task[t].step = "pop" =>
       run = {} /\ sampler = "off" /\ watch.step = "ended"

\* Frames that were kept are on disk, of this capture and of this device.
FramesInv ==
  /\ Recording => /\ \A f \in rec.kept : f[1] = rec.gen /\ f[2] \in 1..Cardinality(rec.kept)
                  /\ rec.mode = "frames" => rec.kept \subseteq files
                  /\ rec.guarded => rec.kept \cap foreign = {}
                  /\ \A f \in accepted : f[1] = rec.gen => f[2] = 0
  /\ world.same => foreign = {}
  /\ accepted \cap foreign = {}

\* Nothing goes on under a lease.
Quiet ==
  /\ ~(Recording /\ rec.guarded /\ rec.mode = "video")
  /\ Recording /\ rec.guarded => sampler # "shoot"
  /\ \A t \in Client : task[t].step = "sdk" => ~Guarded(t)

\* From the point where the closing bridge found everything stopped, it stays so.
ClosingInv ==
  /\ task[Closer].do # "none" => phase = "closing"
  /\ task[Closer].stopped => task[Closer].step = "finish"
  /\ phase = "closed" \/ task[Closer].stopped => phase # "open" /\ Quiet

CaptureIInv ==
  CaptureTypes /\ HolderInv /\ StepInv /\ NumberInv /\ EntryInv /\ FramesInv /\ ClosingInv

\* The closing bridge is no client, and "free" is nobody.
LEMMA Doers ==
  /\ "free" \notin Doer /\ Closer \notin Client
  /\ Closer \in Doer /\ \A t \in Client : t \in Doer
  BY CaptureAssumption DEF Doer, Closer

\* Facts of the types that arithmetic needs.
LEMMA CaptureTypeFacts ==
  ASSUME CaptureTypes
  PROVE  /\ \A u \in Doer : task[u] \in CaptureTask /\ task[u].gen \in Nat
         /\ rec.gen \in Nat
         /\ Recording => rec \in InTable /\ rec.gen # 0
         /\ \A f \in accepted : f \in Nat \X Nat /\ f[1] \in Nat /\ f[2] \in Nat
         /\ made \in Nat /\ session \in Nat
  <1>1. \A u \in Doer : task[u] \in CaptureTask
    BY DEF CaptureTypes
  <1>2. \A u \in CaptureTask : u.gen \in Nat
    BY DEF CaptureTask
  <1>3. /\ rec.gen \in Nat
        /\ Recording => rec \in InTable /\ rec.gen # 0
    BY DEF CaptureTypes, InTable, Nothing, Recording
  <1> QED BY <1>1, <1>2, <1>3 DEF CaptureTypes

\* Updating one task leaves the others.
LEMMA TaskUpdated ==
  ASSUME task \in [Doer -> CaptureTask], NEW t \in Doer, NEW x \in CaptureTask,
         task' = [task EXCEPT ![t] = x]
  PROVE  /\ task' \in [Doer -> CaptureTask]
         /\ task'[t] = x
         /\ \A u \in Doer : u # t => task'[u] = task[u]
  BY Zenon

\* A task that only goes on to its next step.
LEMMA TaskStep ==
  ASSUME task \in [Doer -> CaptureTask], NEW t \in Doer,
         NEW x \in {"none", "command", "shoot", "verify", "check", "frames", "video", "sdk",
           "find", "await", "pop", "remove", "finish"},
         To(t, x)
  PROVE  /\ task' \in [Doer -> CaptureTask]
         /\ \A u \in Doer : u # t => task'[u] = task[u]
         /\ task'[t] = [task[t] EXCEPT !.step = x]
         /\ task'[t].step = x
         /\ task'[t].do = task[t].do /\ task'[t].by = task[t].by
         /\ task'[t].gen = task[t].gen /\ task'[t].mode = task[t].mode
         /\ task'[t].stopped = task[t].stopped
  <1> DEFINE y == [task[t] EXCEPT !.step = x]
  <1>1. task[t] \in CaptureTask
    OBVIOUS
  <1>2. /\ y \in CaptureTask /\ y.step = x
        /\ y.do = task[t].do /\ y.by = task[t].by
        /\ y.gen = task[t].gen /\ y.mode = task[t].mode
        /\ y.stopped = task[t].stopped
    BY <1>1 DEF CaptureTask
  <1>3. task' = [task EXCEPT ![t] = y]
    BY DEF To
  <1> HIDE DEF y
  <1>4. /\ task' \in [Doer -> CaptureTask]
        /\ task'[t] = y
        /\ \A u \in Doer : u # t => task'[u] = task[u]
    BY <1>2, <1>3, TaskUpdated
  <1> QED BY <1>2, <1>4 DEF y

\* What leaving capture_control makes of the task.
LeftAs(t, b) ==
  /\ cmd' = "free"
  /\ task[t].by = "plain" => task'[t] = Idle
  /\ task[t].by # "plain" =>
       /\ task'[t].step = "finish" /\ task'[t].stopped = b
       /\ task'[t].do = task[t].do /\ task'[t].by = task[t].by
       /\ task'[t].gen = task[t].gen /\ task'[t].mode = task[t].mode

\* A task that leaves capture_control.
LEMMA TaskLeft ==
  ASSUME task \in [Doer -> CaptureTask], NEW t \in Doer, NEW b \in BOOLEAN, Leave(t, b)
  PROVE  /\ task' \in [Doer -> CaptureTask]
         /\ \A u \in Doer : u # t => task'[u] = task[u]
         /\ LeftAs(t, b)
  <1> DEFINE y == [task[t] EXCEPT !.step = "finish", !.stopped = b]
             z == IF task[t].by = "plain" THEN Idle ELSE y
  <1>1. task[t] \in CaptureTask
    OBVIOUS
  <1>2. /\ y \in CaptureTask /\ y.step = "finish" /\ y.stopped = b
        /\ y.do = task[t].do /\ y.by = task[t].by
        /\ y.gen = task[t].gen /\ y.mode = task[t].mode
    BY <1>1 DEF CaptureTask
  <1>a. Idle \in CaptureTask
    BY DEF Idle, CaptureTask
  <1>b. z \in CaptureTask
    BY <1>2, <1>a
  <1>3. task' = [task EXCEPT ![t] = z] /\ cmd' = "free"
    BY DEF Leave
  <1> HIDE DEF y
  <1>4. /\ task' \in [Doer -> CaptureTask]
        /\ task'[t] = z
        /\ \A u \in Doer : u # t => task'[u] = task[u]
    BY <1>b, <1>3, TaskUpdated
  <1> QED BY <1>2, <1>3, <1>4 DEF LeftAs

\* What an entry of the table is asked to do does not change what it stands for.
Alike(r, s) ==
  /\ s \in InTable
  /\ s.gen = r.gen /\ s.mode = r.mode /\ s.guarded = r.guarded
  /\ s.unconfirmed = r.unconfirmed

\* Marks on the entry of the table.
LEMMA EntryMarked ==
  ASSUME rec \in InTable, NEW f \in BOOLEAN
  PROVE  /\ \A s \in {[rec EXCEPT !.failure = f], [rec EXCEPT !.stop = TRUE],
                     [rec EXCEPT !.failure = f, !.stop = TRUE]} :
              Alike(rec, s) /\ s.kept = rec.kept /\ s.watched = rec.watched
         /\ LET s == [rec EXCEPT !.watched = TRUE] IN
              Alike(rec, s) /\ s.kept = rec.kept /\ s.watched = TRUE
  <1>1. LET s == [rec EXCEPT !.failure = f] IN
          Alike(rec, s) /\ s.kept = rec.kept /\ s.watched = rec.watched
    BY DEF InTable, Alike
  <1>2. LET s == [rec EXCEPT !.stop = TRUE] IN
          Alike(rec, s) /\ s.kept = rec.kept /\ s.watched = rec.watched
    BY DEF InTable, Alike
  <1>3. LET s == [rec EXCEPT !.failure = f, !.stop = TRUE] IN
          Alike(rec, s) /\ s.kept = rec.kept /\ s.watched = rec.watched
    BY DEF InTable, Alike
  <1>4. LET s == [rec EXCEPT !.watched = TRUE] IN
          Alike(rec, s) /\ s.kept = rec.kept /\ s.watched = TRUE
    BY DEF InTable, Alike
  <1> QED BY <1>1, <1>2, <1>3, <1>4

\* A frame more.
LEMMA FrameKept ==
  ASSUME rec \in InTable, NEW k \in Nat \X Nat
  PROVE  LET s == [rec EXCEPT !.kept = @ \cup {k}] IN
         Alike(rec, s) /\ s.kept = rec.kept \cup {k} /\ s.watched = rec.watched
  <1> DEFINE n == rec.kept \cup {k}
  <1>1. n \in SUBSET (Nat \X Nat)
    BY DEF InTable
  <1> HIDE DEF n
  <1>2. LET s == [rec EXCEPT !.kept = n] IN
        Alike(rec, s) /\ s.kept = n /\ s.watched = rec.watched
    BY <1>1 DEF InTable, Alike
  <1> QED BY <1>2 DEF n

\* The entry of the task that starts a capture.
EnteredAs(t, r) ==
  /\ r \in InTable /\ r.kept = {}
  /\ r.gen = task[t].gen /\ r.mode = task[t].mode /\ r.guarded = Guarded(t)

\* The entry made for a start that succeeds, or fails half-way.
LEMMA NewEntry ==
  ASSUME CaptureTypes, NEW t \in Doer, task[t].gen # 0, task[t].mode \in Mode
  PROVE  /\ EnteredAs(t, New(t)) /\ ~New(t).watched
         /\ LET r == [New(t) EXCEPT !.unconfirmed = TRUE, !.failure = TRUE]
            IN  EnteredAs(t, r) /\ ~r.watched
         /\ \A w \in BOOLEAN :
              LET r == [New(t) EXCEPT !.watched = w, !.failure = ~w]
              IN  EnteredAs(t, r) /\ r.watched = w
  <1>1. task[t].gen \in Nat \ {0} /\ task[t].mode \in {"frames", "video"}
    BY CaptureTypeFacts DEF Mode
  <1>2. Guarded(t) \in BOOLEAN
    BY DEF Guarded
  <1>3. New(t) \in InTable
    BY <1>1, <1>2 DEF New, InTable
  <1> QED BY <1>1, <1>2, <1>3 DEF New, InTable, EnteredAs

\* The absent entry is none of the table.
LEMMA NothingIsNotInTable == Nothing \notin InTable
  BY DEF Nothing, InTable

-----------------------------------------------------------------------------
(* Captures: one lemma per action; what an action does comes first, then    *)
(* each part of the invariant.                                             *)

LEMMA LapseKeeps ==
  ASSUME CaptureIInv, Lapse
  PROVE  CaptureIInv'
  <1> USE DEF locks, threads, disk, Recording, Nothing
  <1>a. world' = [lease |-> FALSE, same |-> world.same]
    BY DEF CaptureIInv, CaptureTypes, Lapse
  <1>1. CaptureTypes'
    BY <1>a DEF CaptureIInv, CaptureTypes, Lapse
  <1>2. HolderInv'
    BY DEF CaptureIInv, CaptureTypes, HolderInv, InCommand, Lapse, InTable, SamplerFails
  <1>3. StepInv'
    BY DEF CaptureIInv, CaptureTypes, StepInv, Starting, Lapse, InTable, SamplerFails
  <1>4. NumberInv'
    BY DEF CaptureIInv, CaptureTypes, NumberInv, Starting, Lapse, InTable, SamplerFails
  <1>5. EntryInv'
    BY DEF CaptureIInv, CaptureTypes, EntryInv, Lapse, InTable, SamplerFails
  <1>6. FramesInv'
    BY DEF CaptureIInv, CaptureTypes, FramesInv, EntryInv, Lapse, InTable, SamplerFails,
       Frame, Check
  <1>7. ClosingInv'
    BY DEF CaptureIInv, CaptureTypes, ClosingInv, Quiet, Guarded, Lapse, InTable,
       SamplerFails, Check
  <1> QED BY <1>1, <1>2, <1>3, <1>4, <1>5, <1>6, <1>7 DEF CaptureIInv

LEMMA ExchangeKeeps ==
  ASSUME CaptureIInv, Exchange
  PROVE  CaptureIInv'
  <1> USE DEF locks, threads, disk, Recording, Nothing
  <1>a. world' = [lease |-> world.lease, same |-> FALSE]
    BY DEF CaptureIInv, CaptureTypes, Exchange
  <1>1. CaptureTypes'
    BY <1>a DEF CaptureIInv, CaptureTypes, Exchange
  <1>2. HolderInv'
    BY DEF CaptureIInv, CaptureTypes, HolderInv, InCommand, Exchange, InTable,
       SamplerFails
  <1>3. StepInv'
    BY DEF CaptureIInv, CaptureTypes, StepInv, Starting, Exchange, InTable, SamplerFails
  <1>4. NumberInv'
    BY DEF CaptureIInv, CaptureTypes, NumberInv, Starting, Exchange, InTable, SamplerFails
  <1>5. EntryInv'
    BY DEF CaptureIInv, CaptureTypes, EntryInv, Exchange, InTable, SamplerFails
  <1>6. FramesInv'
    BY DEF CaptureIInv, CaptureTypes, FramesInv, EntryInv, Exchange, InTable,
       SamplerFails, Frame, Check
  <1>7. ClosingInv'
    BY DEF CaptureIInv, CaptureTypes, ClosingInv, Quiet, Guarded, Exchange, InTable,
       SamplerFails, Check
  <1> QED BY <1>1, <1>2, <1>3, <1>4, <1>5, <1>6, <1>7 DEF CaptureIInv

LEMMA RecorderEndsKeeps ==
  ASSUME CaptureIInv, NEW g \in run, RecorderEnds(g)
  PROVE  CaptureIInv'
  <1> USE DEF locks, threads, disk, Recording, Nothing
  <1>1. CaptureTypes'
    BY DEF CaptureIInv, CaptureTypes, RecorderEnds, InTable, Frame, SamplerFails, Check
  <1>2. HolderInv'
    BY DEF CaptureIInv, CaptureTypes, HolderInv, InCommand, RecorderEnds, InTable,
       SamplerFails
  <1>3. StepInv'
    BY DEF CaptureIInv, CaptureTypes, StepInv, Starting, RecorderEnds, InTable,
       SamplerFails
  <1>4. NumberInv'
    BY DEF CaptureIInv, CaptureTypes, NumberInv, Starting, RecorderEnds, InTable,
       SamplerFails
  <1>5. EntryInv'
    BY DEF CaptureIInv, CaptureTypes, EntryInv, RecorderEnds, InTable, SamplerFails
  <1>6. FramesInv'
    BY DEF CaptureIInv, CaptureTypes, FramesInv, EntryInv, RecorderEnds, InTable,
       SamplerFails, Frame, Check
  <1>7. ClosingInv'
    BY DEF CaptureIInv, CaptureTypes, ClosingInv, Quiet, Guarded, RecorderEnds, InTable,
       SamplerFails, Check
  <1> QED BY <1>1, <1>2, <1>3, <1>4, <1>5, <1>6, <1>7 DEF CaptureIInv

LEMMA SampleLoopKeeps ==
  ASSUME CaptureIInv, SampleLoop
  PROVE  CaptureIInv'
  <1> USE DEF locks, threads, disk
  <1>r. rec \in InTable
    BY DEF CaptureIInv, CaptureTypes, EntryInv, Recording, SampleLoop
  <1>a. /\ UNCHANGED <<world, phase, locks, watch, session, task, made, disk>>
        /\ rec \in InTable /\ Alike(rec, rec') /\ rec'.kept = rec.kept
        /\ rec'.watched = rec.watched
        /\ sampler = "loop" /\ sampler' \in {"off", "shoot"}
        /\ sampler' = "shoot" => ~rec.guarded \/ Check
    <2>1. CASE rec.stop \/ Cardinality(rec.kept) >= MaxFrames
      <3>1. sampler' = "off" /\ rec' = [rec EXCEPT !.stop = TRUE]
        BY <2>1 DEF SampleLoop
      <3> QED BY <1>r, <3>1, EntryMarked DEF SampleLoop
    <2>2. CASE ~(rec.stop \/ Cardinality(rec.kept) >= MaxFrames) /\ rec.guarded /\ ~Check
      BY <1>r, <2>2, EntryMarked DEF SampleLoop, SamplerFails
    <2>3. CASE ~(rec.stop \/ Cardinality(rec.kept) >= MaxFrames) /\ ~(rec.guarded /\ ~Check)
      <3>1. sampler' = "shoot" /\ rec' = rec
        BY <2>3 DEF SampleLoop
      <3>2. ~rec.guarded \/ Check
        BY <2>3
      <3> QED BY <1>r, <3>1, <3>2 DEF SampleLoop, Alike
    <2> QED BY <2>1, <2>2, <2>3
  <1>1. CaptureTypes'
    BY <1>a, NothingIsNotInTable DEF CaptureIInv, CaptureTypes, Alike, Recording
  <1>2. HolderInv'
    BY <1>a, NothingIsNotInTable DEF CaptureIInv, HolderInv, InCommand, Alike, Recording
  <1>3. StepInv'
    BY <1>a, NothingIsNotInTable DEF CaptureIInv, StepInv, Starting, Alike, Recording
  <1>4. NumberInv'
    BY <1>a DEF CaptureIInv, NumberInv, Starting, Alike
  <1>5. EntryInv'
    BY <1>a, NothingIsNotInTable DEF CaptureIInv, CaptureTypes, EntryInv, Alike, Recording
  <1>6. FramesInv'
    BY <1>a, NothingIsNotInTable DEF CaptureIInv, CaptureTypes, FramesInv, EntryInv,
       Alike, Recording
  <1>7. ClosingInv'
    BY <1>a, NothingIsNotInTable DEF CaptureIInv, CaptureTypes, ClosingInv, Quiet,
       Guarded, Alike, Recording, Check
  <1> QED BY <1>1, <1>2, <1>3, <1>4, <1>5, <1>6, <1>7 DEF CaptureIInv

LEMMA SampleRaisesKeeps ==
  ASSUME CaptureIInv, SampleRaises
  PROVE  CaptureIInv'
  <1> USE DEF locks, threads, disk
  <1>r. rec \in InTable
    BY DEF CaptureIInv, CaptureTypes, EntryInv, Recording, SampleRaises
  <1>a. /\ UNCHANGED <<world, phase, locks, watch, session, task, made, disk>>
        /\ rec \in InTable /\ Alike(rec, rec') /\ rec'.kept = rec.kept
        /\ rec'.watched = rec.watched
        /\ sampler = "shoot" /\ sampler' = "off"
    BY <1>r, EntryMarked DEF SampleRaises, SamplerFails
  <1>1. CaptureTypes'
    BY <1>a, NothingIsNotInTable DEF CaptureIInv, CaptureTypes, Alike, Recording
  <1>2. HolderInv'
    BY <1>a, NothingIsNotInTable DEF CaptureIInv, HolderInv, InCommand, Alike, Recording
  <1>3. StepInv'
    BY <1>a, NothingIsNotInTable DEF CaptureIInv, StepInv, Starting, Alike, Recording
  <1>4. NumberInv'
    BY <1>a DEF CaptureIInv, NumberInv, Starting, Alike
  <1>5. EntryInv'
    BY <1>a, NothingIsNotInTable DEF CaptureIInv, CaptureTypes, EntryInv, Alike, Recording
  <1>6. FramesInv'
    BY <1>a, NothingIsNotInTable DEF CaptureIInv, CaptureTypes, FramesInv, EntryInv,
       Alike, Recording
  <1>7. ClosingInv'
    BY <1>a, NothingIsNotInTable DEF CaptureIInv, CaptureTypes, ClosingInv, Quiet,
       Guarded, Alike, Recording, Check
  <1> QED BY <1>1, <1>2, <1>3, <1>4, <1>5, <1>6, <1>7 DEF CaptureIInv

LEMMA SampleShootKeeps ==
  ASSUME CaptureIInv, SampleShoot
  PROVE  CaptureIInv'
  <1> USE DEF locks, threads, disk, Recording, Nothing
  <1>1. CaptureTypes'
    BY DEF CaptureIInv, CaptureTypes, SampleShoot, InTable, Frame, SamplerFails, Check
  <1>2. HolderInv'
    BY DEF CaptureIInv, CaptureTypes, HolderInv, InCommand, SampleShoot, InTable,
       SamplerFails
  <1>3. StepInv'
    BY DEF CaptureIInv, CaptureTypes, StepInv, Starting, SampleShoot, InTable,
       SamplerFails
  <1>4. NumberInv'
    BY DEF CaptureIInv, CaptureTypes, NumberInv, Starting, SampleShoot, InTable,
       SamplerFails
  <1>5. EntryInv'
    BY DEF CaptureIInv, CaptureTypes, EntryInv, SampleShoot, InTable, SamplerFails
  <1>6. FramesInv'
    <2>1. Recording /\ rec \in InTable
      BY DEF CaptureIInv, CaptureTypes, EntryInv, SampleShoot
    <2>2. Cardinality(rec.kept) \in Nat
      BY <2>1, FS_CardinalityType DEF CaptureIInv, CaptureTypes
    <2>3. Frame \notin rec.kept /\ Frame \notin accepted
      <3>1. Frame[1] = rec.gen /\ Frame[2] = Cardinality(rec.kept) + 1
        BY DEF Frame
      <3> QED BY <2>1, <2>2, <3>1 DEF CaptureIInv, FramesInv
    <2> QED BY <2>1, <2>3 DEF CaptureIInv, FramesInv, SampleShoot
  <1>7. ClosingInv'
    BY DEF CaptureIInv, CaptureTypes, ClosingInv, Quiet, Guarded, SampleShoot, InTable,
       SamplerFails, Check
  <1> QED BY <1>1, <1>2, <1>3, <1>4, <1>5, <1>6, <1>7 DEF CaptureIInv

LEMMA SampleKeepKeeps ==
  ASSUME CaptureIInv, NEW room \in BOOLEAN, NEW left \in BOOLEAN, SampleKeep(room, left)
  PROVE  CaptureIInv'
  <1> USE DEF locks, threads, disk
  <1>r. rec \in InTable /\ IsFiniteSet(rec.kept) /\ rec.mode = "frames"
    BY DEF CaptureIInv, CaptureTypes, EntryInv, Recording, SampleKeep
  <1>c. Cardinality(rec.kept) \in Nat
    BY <1>r, FS_CardinalityType
  <1>f. Frame \in Nat \X Nat /\ Frame[1] = rec.gen /\ Frame[2] = Cardinality(rec.kept) + 1
    BY <1>r, <1>c DEF Frame, InTable
  <1>g. Frame \notin rec.kept
    <2>1. Recording
      BY <1>r, NothingIsNotInTable DEF Recording
    <2>2. \A f \in rec.kept : f[2] \in 1..Cardinality(rec.kept)
      BY <2>1 DEF CaptureIInv, FramesInv
    <2> QED BY <2>2, <1>c, <1>f
  <1>h. /\ IsFiniteSet(rec.kept \cup {Frame})
        /\ Cardinality(rec.kept \cup {Frame}) = Cardinality(rec.kept) + 1
    BY <1>r, <1>g, FS_AddElement
  <1> DEFINE good == rec.guarded => Check
  <1>a. /\ UNCHANGED <<world, phase, locks, watch, session, task, made, run, foreign, accepted>>
        /\ rec \in InTable /\ Alike(rec, rec')
        /\ rec'.watched = rec.watched
        /\ sampler = "keep" /\ sampler' \in {"off", "loop"}
        /\ files \subseteq files'
        /\ \/ rec'.kept = rec.kept
           \/ good /\ rec'.kept = rec.kept \cup {Frame} /\ files' = files \cup {Frame}
    <2>1. CASE good /\ room
      <3>1. /\ rec' = [rec EXCEPT !.kept = @ \cup {Frame}] /\ sampler' = "loop"
            /\ files' = files \cup {Frame}
        BY <2>1 DEF SampleKeep
      <3>2. Alike(rec, rec') /\ rec'.kept = rec.kept \cup {Frame} /\ rec'.watched = rec.watched
        BY <1>r, <1>f, <3>1, FrameKept
      <3> HIDE DEF good
      <3> QED BY <1>r, <2>1, <3>1, <3>2 DEF SampleKeep
    <2>2. CASE good /\ ~room
      <3>1. rec' = [rec EXCEPT !.stop = TRUE] /\ sampler' = "off" /\ files' = files
        BY <2>2 DEF SampleKeep
      <3>2. Alike(rec, rec') /\ rec'.kept = rec.kept /\ rec'.watched = rec.watched
        BY <1>r, <3>1, EntryMarked
      <3> HIDE DEF good
      <3> QED BY <1>r, <3>1, <3>2 DEF SampleKeep
    <2>3. CASE ~good
      <3>1. /\ rec' = [rec EXCEPT !.failure = TRUE, !.stop = TRUE] /\ sampler' = "off"
            /\ files \subseteq files'
        BY <2>3 DEF SampleKeep, SamplerFails
      <3>2. Alike(rec, rec') /\ rec'.kept = rec.kept /\ rec'.watched = rec.watched
        BY <1>r, <3>1, EntryMarked
      <3> HIDE DEF good
      <3> QED BY <1>r, <3>1, <3>2 DEF SampleKeep, SamplerFails
    <2> QED BY <2>1, <2>2, <2>3
  <1>1. CaptureTypes'
    BY <1>a, NothingIsNotInTable, <1>f, <1>h DEF CaptureIInv, CaptureTypes, Alike,
       Recording
  <1>2. HolderInv'
    BY <1>a, NothingIsNotInTable DEF CaptureIInv, HolderInv, InCommand, Alike, Recording
  <1>3. StepInv'
    BY <1>a, NothingIsNotInTable DEF CaptureIInv, StepInv, Starting, Alike, Recording
  <1>4. NumberInv'
    BY <1>a DEF CaptureIInv, NumberInv, Starting, Alike
  <1>5. EntryInv'
    BY <1>a, NothingIsNotInTable DEF CaptureIInv, CaptureTypes, EntryInv, Alike, Recording
  <1>6. FramesInv'
    <2>1. CASE rec'.kept = rec.kept
      BY <1>a, <2>1, NothingIsNotInTable DEF CaptureIInv, FramesInv, Alike, Recording
    <2>2. CASE good /\ rec'.kept = rec.kept \cup {Frame} /\ files' = files \cup {Frame}
      <3>1. Recording /\ Recording'
        BY <1>a, NothingIsNotInTable DEF Alike, Recording
      <3>2. \A f \in rec'.kept : f[1] = rec'.gen /\ f[2] \in 1..Cardinality(rec'.kept)
        BY <1>a, <1>c, <1>f, <1>h, <2>2, <3>1 DEF CaptureIInv, FramesInv, Alike
      <3>3. rec.guarded => world.same
        BY <2>2 DEF Check
      <3> QED BY <1>a, <2>2, <3>1, <3>2, <3>3 DEF CaptureIInv, FramesInv, Alike
    <2> QED BY <1>a, <2>1, <2>2
  <1>7. ClosingInv'
    BY <1>a, NothingIsNotInTable DEF CaptureIInv, CaptureTypes, ClosingInv, Quiet,
       Guarded, Alike, Recording, Check
  <1> QED BY <1>1, <1>2, <1>3, <1>4, <1>5, <1>6, <1>7 DEF CaptureIInv

LEMMA WatchLookKeeps ==
  ASSUME CaptureIInv, WatchLook
  PROVE  CaptureIInv'
  <1> USE DEF locks, threads, disk, Recording, Nothing
  <1> DEFINE b == watch.failed \/ ~watch.asked
  <1>a. watch' \in [step : {"ended", "watching", "stopping"}, asked : BOOLEAN,
                    stopped : BOOLEAN, failed : BOOLEAN]
    <2>1. b \in BOOLEAN /\ watch' = [watch EXCEPT !.step = "stopping", !.failed = b]
      BY DEF WatchLook
    <2> HIDE DEF b
    <2> QED BY <2>1 DEF CaptureIInv, CaptureTypes
  <1>1. CaptureTypes'
    BY <1>a DEF CaptureIInv, CaptureTypes, WatchLook
  <1>2. HolderInv'
    BY DEF CaptureIInv, CaptureTypes, HolderInv, InCommand, WatchLook, InTable,
       SamplerFails
  <1>3. StepInv'
    BY DEF CaptureIInv, CaptureTypes, StepInv, Starting, WatchLook, InTable, SamplerFails
  <1>4. NumberInv'
    BY DEF CaptureIInv, CaptureTypes, NumberInv, Starting, WatchLook, InTable,
       SamplerFails
  <1>5. EntryInv'
    BY DEF CaptureIInv, CaptureTypes, EntryInv, WatchLook, InTable, SamplerFails
  <1>6. FramesInv'
    BY DEF CaptureIInv, CaptureTypes, FramesInv, EntryInv, WatchLook, InTable,
       SamplerFails, Frame, Check
  <1>7. ClosingInv'
    BY DEF CaptureIInv, CaptureTypes, ClosingInv, Quiet, Guarded, WatchLook, InTable,
       SamplerFails, Check
  <1> QED BY <1>1, <1>2, <1>3, <1>4, <1>5, <1>6, <1>7 DEF CaptureIInv

LEMMA WatchStopKeeps ==
  ASSUME CaptureIInv, NEW answer \in BOOLEAN, NEW gone \in BOOLEAN, WatchStop(answer, gone)
  PROVE  CaptureIInv'
  <1> USE DEF locks, threads, disk, Recording, Nothing
  <1>a. watch' \in [step : {"ended", "watching", "stopping"}, asked : BOOLEAN,
                    stopped : BOOLEAN, failed : BOOLEAN]
    BY DEF CaptureIInv, CaptureTypes, WatchStop
  <1>1. CaptureTypes'
    BY <1>a DEF CaptureIInv, CaptureTypes, WatchStop
  <1>2. HolderInv'
    BY DEF CaptureIInv, CaptureTypes, HolderInv, InCommand, WatchStop, InTable,
       SamplerFails
  <1>3. StepInv'
    BY DEF CaptureIInv, CaptureTypes, StepInv, Starting, WatchStop, InTable, SamplerFails
  <1>4. NumberInv'
    BY DEF CaptureIInv, CaptureTypes, NumberInv, Starting, WatchStop, InTable,
       SamplerFails
  <1>5. EntryInv'
    BY DEF CaptureIInv, CaptureTypes, EntryInv, WatchStop, InTable, SamplerFails
  <1>6. FramesInv'
    BY DEF CaptureIInv, CaptureTypes, FramesInv, EntryInv, WatchStop, InTable,
       SamplerFails, Frame, Check
  <1>7. ClosingInv'
    BY DEF CaptureIInv, CaptureTypes, ClosingInv, Quiet, Guarded, WatchStop, InTable,
       SamplerFails, Check
  <1> QED BY <1>1, <1>2, <1>3, <1>4, <1>5, <1>6, <1>7 DEF CaptureIInv

LEMMA BeginClosingKeeps ==
  ASSUME CaptureIInv, BeginClosing
  PROVE  CaptureIInv'
  <1> USE DEF locks, threads, disk, Recording, Nothing
  <1>1. CaptureTypes'
    BY DEF CaptureIInv, CaptureTypes, BeginClosing, InTable, Frame, SamplerFails, Check
  <1>2. HolderInv'
    BY DEF CaptureIInv, CaptureTypes, HolderInv, InCommand, BeginClosing, InTable,
       SamplerFails
  <1>3. StepInv'
    BY DEF CaptureIInv, CaptureTypes, StepInv, Starting, BeginClosing, InTable,
       SamplerFails
  <1>4. NumberInv'
    BY DEF CaptureIInv, CaptureTypes, NumberInv, Starting, BeginClosing, InTable,
       SamplerFails
  <1>5. EntryInv'
    BY DEF CaptureIInv, CaptureTypes, EntryInv, BeginClosing, InTable, SamplerFails
  <1>6. FramesInv'
    BY DEF CaptureIInv, CaptureTypes, FramesInv, EntryInv, BeginClosing, InTable,
       SamplerFails, Frame, Check
  <1>7. ClosingInv'
    BY DEF CaptureIInv, CaptureTypes, ClosingInv, Quiet, Guarded, BeginClosing, InTable,
       SamplerFails, Check
  <1> QED BY <1>1, <1>2, <1>3, <1>4, <1>5, <1>6, <1>7 DEF CaptureIInv

LEMMA ScreenshotShootKeeps ==
  ASSUME CaptureIInv, NEW t \in Client, ScreenshotShoot(t)
  PROVE  CaptureIInv'
  <1> USE DEF locks, threads, disk, Recording
  <1> USE Doers
  <1>0. CaptureTypes
    BY DEF CaptureIInv
  <1>t. t \in Doer
    BY DEF Doer
  <1>a. /\ UNCHANGED <<world, phase, locks, rec, threads, session, made, run, files, accepted>>
        /\ t \in Doer /\ task[t].step = "shoot" /\ task'[t].step = "verify"
        /\ task' \in [Doer -> CaptureTask]
        /\ \A u \in Doer : u # t => task'[u] = task[u]
        /\ task'[t].do = task[t].do /\ task'[t].by = task[t].by
        /\ task'[t].gen = task[t].gen /\ task'[t].mode = task[t].mode
        /\ task'[t].stopped = task[t].stopped
        /\ foreign' = IF world.same THEN foreign ELSE foreign \cup {<<task[t].gen, 0>>}
    BY <1>t, TaskStep DEF CaptureIInv, CaptureTypes, ScreenshotShoot
  <1>1. CaptureTypes'
    BY <1>a DEF CaptureIInv, CaptureTypes
  <1>2. HolderInv'
    BY <1>a DEF CaptureIInv, CaptureTypes, HolderInv, InCommand
  <1>3. StepInv'
    BY <1>a DEF CaptureIInv, CaptureTypes, HolderInv, StepInv, Starting
  <1>4. NumberInv'
    BY <1>a, <1>0, CaptureTypeFacts DEF CaptureIInv, CaptureTypes, NumberInv, Starting
  <1>5. EntryInv'
    BY <1>a, <1>0, CaptureTypeFacts DEF CaptureIInv, CaptureTypes, EntryInv
  <1>6. FramesInv'
    <2>1. <<task[t].gen, 0>> \notin accepted
      BY <1>a DEF CaptureIInv, NumberInv
    <2>2. Recording => <<task[t].gen, 0>> \notin rec.kept
      <3>1. ASSUME Recording, NEW f \in rec.kept PROVE f[2] # 0
        BY <3>1 DEF CaptureIInv, FramesInv
      <3> QED BY <3>1
    <2> QED BY <1>a, <2>1, <2>2 DEF CaptureIInv, FramesInv
  <1>7. ClosingInv'
    BY <1>a DEF CaptureIInv, CaptureTypes, ClosingInv, Quiet, Guarded
  <1> QED BY <1>1, <1>2, <1>3, <1>4, <1>5, <1>6, <1>7 DEF CaptureIInv

LEMMA ScreenshotVerifyKeeps ==
  ASSUME CaptureIInv, NEW t \in Client, ScreenshotVerify(t)
  PROVE  CaptureIInv'
  <1> USE DEF locks, threads, disk, Recording
  <1> USE Doers
  <1>0. CaptureTypes
    BY DEF CaptureIInv
  <1>t. t \in Doer
    BY DEF Doer
  <1>a. /\ UNCHANGED <<world, phase, locks, rec, threads, session, made, run, files, foreign>>
        /\ t \in Doer /\ task[t].step = "verify" /\ task'[t].step = "finish"
        /\ task' \in [Doer -> CaptureTask]
        /\ \A u \in Doer : u # t => task'[u] = task[u]
        /\ task'[t].do = task[t].do /\ task'[t].by = task[t].by
        /\ task'[t].gen = task[t].gen /\ task'[t].mode = task[t].mode
        /\ task'[t].stopped = task[t].stopped
        /\ accepted' = IF Check THEN accepted \cup {<<task[t].gen, 0>>} ELSE accepted
    BY <1>t, TaskStep DEF CaptureIInv, CaptureTypes, ScreenshotVerify
  <1>1. CaptureTypes'
    BY <1>a, <1>0, CaptureTypeFacts DEF CaptureIInv, CaptureTypes
  <1>2. HolderInv'
    BY <1>a DEF CaptureIInv, CaptureTypes, HolderInv, InCommand
  <1>3. StepInv'
    BY <1>a DEF CaptureIInv, CaptureTypes, HolderInv, StepInv, Starting
  <1>4. NumberInv'
    BY <1>a, <1>0, CaptureTypeFacts DEF CaptureIInv, CaptureTypes, NumberInv, Starting,
       HolderInv, StepInv
  <1>5. EntryInv'
    BY <1>a, <1>0, CaptureTypeFacts DEF CaptureIInv, CaptureTypes, EntryInv
  <1>6. FramesInv'
    BY <1>a DEF CaptureIInv, CaptureTypes, FramesInv, Check
  <1>7. ClosingInv'
    BY <1>a DEF CaptureIInv, CaptureTypes, ClosingInv, Quiet, Guarded
  <1> QED BY <1>1, <1>2, <1>3, <1>4, <1>5, <1>6, <1>7 DEF CaptureIInv

LEMMA LeasedBeginKeeps ==
  ASSUME CaptureIInv, NEW t \in Client, NEW do \in {"start", "screenshot"},
         NEW mode \in {"frames", "video", "none"}, do = "start" => mode \in Mode,
         LeasedBegin(t, do, mode)
  PROVE  CaptureIInv'
  <1> USE DEF locks, threads, disk, Recording
  <1> USE Doers
  <1>0. CaptureTypes
    BY DEF CaptureIInv
  <1> DEFINE x == [do |-> do, by |-> "lease", step |-> IF do = "start" THEN "command" ELSE "shoot", gen |-> made + 1, mode |-> mode, stopped |-> FALSE]
  <1>x. x \in CaptureTask
    BY DEF CaptureIInv, CaptureTypes, CaptureTask, Mode
  <1>a. /\ UNCHANGED <<world, phase, cmd, lock, rec, threads, disk>>
        /\ t \in Doer /\ t # Closer /\ task[t].do = "none"
        /\ task' \in [Doer -> CaptureTask]
        /\ \A u \in Doer : u # t => task'[u] = task[u]
        /\ task'[t].do = do /\ task'[t].by = "lease"
        /\ task'[t].step = IF do = "start" THEN "command" ELSE "shoot"
        /\ task'[t].gen = made + 1
        /\ task'[t].mode = mode /\ task'[t].stopped = FALSE
        /\ op = "free" /\ op' = t /\ made' = made + 1
        /\ do = "start" => session = 0
        /\ session' = IF do = "start" THEN made + 1 ELSE session
    <2>1. task' = [task EXCEPT ![t] = x] /\ t \in Doer
      BY DEF LeasedBegin, Doer
    <2>2. /\ task' \in [Doer -> CaptureTask] /\ task'[t] = x
          /\ \A u \in Doer : u # t => task'[u] = task[u]
      <3> HIDE DEF x
      <3> QED BY <1>x, <2>1, TaskUpdated DEF CaptureIInv, CaptureTypes
    <2> QED BY <2>1, <2>2 DEF LeasedBegin, Check, Closer
  <1> HIDE DEF x
  <1>1. CaptureTypes'
    BY <1>a DEF CaptureIInv, CaptureTypes
  <1>2. HolderInv'
    BY <1>a DEF CaptureIInv, CaptureTypes, HolderInv, InCommand
  <1>3. StepInv'
    BY <1>a DEF CaptureIInv, CaptureTypes, HolderInv, StepInv, Starting
  <1>4. NumberInv'
    BY <1>a, <1>0, CaptureTypeFacts DEF CaptureIInv, CaptureTypes, NumberInv, Starting
  <1>5. EntryInv'
    BY <1>a, <1>0, CaptureTypeFacts DEF CaptureIInv, CaptureTypes, EntryInv
  <1>6. FramesInv'
    BY <1>a DEF CaptureIInv, CaptureTypes, FramesInv
  <1>7. ClosingInv'
    BY <1>a DEF CaptureIInv, CaptureTypes, ClosingInv, Quiet, Guarded
  <1> QED BY <1>1, <1>2, <1>3, <1>4, <1>5, <1>6, <1>7 DEF CaptureIInv

LEMMA LeasedCleanupKeeps ==
  ASSUME CaptureIInv, NEW t \in Client, NEW do \in {"stop", "discard"}, NEW mode \in Mode,
         LeasedCleanup(t, do, mode)
  PROVE  CaptureIInv'
  <1> USE DEF locks, threads, disk, Recording
  <1> USE Doers
  <1>0. CaptureTypes
    BY DEF CaptureIInv
  <1> DEFINE x == [do |-> do, by |-> "lease", step |-> "command", gen |-> session, mode |-> mode, stopped |-> FALSE]
  <1>x. x \in CaptureTask
    BY DEF CaptureIInv, CaptureTypes, CaptureTask, Mode
  <1>a. /\ UNCHANGED <<world, phase, cmd, lock, rec, threads, session, made, disk>>
        /\ t \in Doer /\ t # Closer /\ task[t].do = "none"
        /\ task' \in [Doer -> CaptureTask]
        /\ \A u \in Doer : u # t => task'[u] = task[u]
        /\ task'[t].do = do /\ task'[t].by = "lease"
        /\ task'[t].step = "command"
        /\ task'[t].gen = session
        /\ task'[t].mode = mode /\ task'[t].stopped = FALSE
        /\ op = "free" /\ op' = t
    <2>1. task' = [task EXCEPT ![t] = x] /\ t \in Doer
      BY DEF LeasedCleanup, Doer
    <2>2. /\ task' \in [Doer -> CaptureTask] /\ task'[t] = x
          /\ \A u \in Doer : u # t => task'[u] = task[u]
      <3> HIDE DEF x
      <3> QED BY <1>x, <2>1, TaskUpdated DEF CaptureIInv, CaptureTypes
    <2> QED BY <2>1, <2>2 DEF LeasedCleanup, Check, Closer
  <1> HIDE DEF x
  <1>1. CaptureTypes'
    BY <1>a DEF CaptureIInv, CaptureTypes
  <1>2. HolderInv'
    BY <1>a DEF CaptureIInv, CaptureTypes, HolderInv, InCommand
  <1>3. StepInv'
    BY <1>a DEF CaptureIInv, CaptureTypes, HolderInv, StepInv, Starting
  <1>4. NumberInv'
    BY <1>a, <1>0, CaptureTypeFacts DEF CaptureIInv, CaptureTypes, NumberInv, Starting
  <1>5. EntryInv'
    BY <1>a, <1>0, CaptureTypeFacts DEF CaptureIInv, CaptureTypes, EntryInv
  <1>6. FramesInv'
    BY <1>a DEF CaptureIInv, CaptureTypes, FramesInv
  <1>7. ClosingInv'
    BY <1>a DEF CaptureIInv, CaptureTypes, ClosingInv, Quiet, Guarded
  <1> QED BY <1>1, <1>2, <1>3, <1>4, <1>5, <1>6, <1>7 DEF CaptureIInv

LEMMA PlainBeginKeeps ==
  ASSUME CaptureIInv, NEW t \in Client, NEW do \in {"start", "stop", "discard"}, NEW mode \in Mode,
         PlainBegin(t, do, mode)
  PROVE  CaptureIInv'
  <1> USE DEF locks, threads, disk, Recording
  <1> USE Doers
  <1>0. CaptureTypes
    BY DEF CaptureIInv
  <1> DEFINE x == [do |-> do, by |-> "plain", step |-> "command", gen |-> IF do = "start" THEN made + 1 ELSE 0, mode |-> mode, stopped |-> FALSE]
  <1>x. x \in CaptureTask
    BY DEF CaptureIInv, CaptureTypes, CaptureTask, Mode
  <1>a. /\ UNCHANGED <<world, phase, locks, rec, threads, session, disk>>
        /\ t \in Doer /\ t # Closer /\ task[t].do = "none"
        /\ task' \in [Doer -> CaptureTask]
        /\ \A u \in Doer : u # t => task'[u] = task[u]
        /\ task'[t].do = do /\ task'[t].by = "plain"
        /\ task'[t].step = "command"
        /\ task'[t].gen = IF do = "start" THEN made + 1 ELSE 0
        /\ task'[t].mode = mode /\ task'[t].stopped = FALSE
        /\ made' = IF do = "start" THEN made + 1 ELSE made
    <2>1. task' = [task EXCEPT ![t] = x] /\ t \in Doer
      BY DEF PlainBegin, Doer
    <2>2. /\ task' \in [Doer -> CaptureTask] /\ task'[t] = x
          /\ \A u \in Doer : u # t => task'[u] = task[u]
      <3> HIDE DEF x
      <3> QED BY <1>x, <2>1, TaskUpdated DEF CaptureIInv, CaptureTypes
    <2> QED BY <2>1, <2>2 DEF PlainBegin, Check, Closer
  <1> HIDE DEF x
  <1>1. CaptureTypes'
    BY <1>a DEF CaptureIInv, CaptureTypes
  <1>2. HolderInv'
    BY <1>a DEF CaptureIInv, CaptureTypes, HolderInv, InCommand
  <1>3. StepInv'
    BY <1>a DEF CaptureIInv, CaptureTypes, HolderInv, StepInv, Starting
  <1>4. NumberInv'
    BY <1>a, <1>0, CaptureTypeFacts DEF CaptureIInv, CaptureTypes, NumberInv, Starting
  <1>5. EntryInv'
    BY <1>a, <1>0, CaptureTypeFacts DEF CaptureIInv, CaptureTypes, EntryInv
  <1>6. FramesInv'
    BY <1>a DEF CaptureIInv, CaptureTypes, FramesInv
  <1>7. ClosingInv'
    BY <1>a DEF CaptureIInv, CaptureTypes, ClosingInv, Quiet, Guarded
  <1> QED BY <1>1, <1>2, <1>3, <1>4, <1>5, <1>6, <1>7 DEF CaptureIInv

LEMMA FinishKeeps ==
  ASSUME CaptureIInv, NEW t \in Client, Finish(t)
  PROVE  CaptureIInv'
  <1> USE DEF locks, threads, disk, Recording
  <1> USE Doers
  <1>0. CaptureTypes
    BY DEF CaptureIInv
  <1>a. /\ UNCHANGED <<world, phase, cmd, lock, rec, threads, made, disk>>
        /\ t \in Doer /\ task[t].step = "finish" /\ task'[t] = Idle
        /\ task' \in [Doer -> CaptureTask]
        /\ \A u \in Doer : u # t => task'[u] = task[u]
        /\ op' = "free" /\ task[t].by = "lease"
        /\ session' = IF task[t].do = "screenshot" \/ rec.gen = task[t].gen
                      THEN session ELSE 0
    <2>1. Idle \in CaptureTask
      BY DEF Idle, CaptureTask
    <2>2. task' = [task EXCEPT ![t] = Idle]
      BY DEF Finish
    <2>3. /\ task' \in [Doer -> CaptureTask] /\ task'[t] = Idle
          /\ \A u \in Doer : u # t => task'[u] = task[u]
      BY <1>0, <2>1, <2>2, TaskUpdated DEF CaptureTypes
    <2> QED BY <2>2, <2>3 DEF Finish
  <1>1. CaptureTypes'
    BY <1>a DEF CaptureIInv, CaptureTypes
  <1>2. HolderInv'
    BY <1>a DEF CaptureIInv, CaptureTypes, HolderInv, InCommand, Idle
  <1>3. StepInv'
    BY <1>a DEF CaptureIInv, CaptureTypes, HolderInv, StepInv, Starting, Idle
  <1>4. NumberInv'
    BY <1>a, <1>0, CaptureTypeFacts DEF CaptureIInv, CaptureTypes, NumberInv, Starting,
       Idle
  <1>5. EntryInv'
    BY <1>a, <1>0, CaptureTypeFacts DEF CaptureIInv, CaptureTypes, EntryInv, Idle,
       CaptureTask, HolderInv, StepInv
  <1>6. FramesInv'
    BY <1>a DEF CaptureIInv, CaptureTypes, FramesInv
  <1>7. ClosingInv'
    BY <1>a DEF CaptureIInv, CaptureTypes, ClosingInv, Quiet, Guarded, Idle
  <1> QED BY <1>1, <1>2, <1>3, <1>4, <1>5, <1>6, <1>7 DEF CaptureIInv

LEMMA CloseStoppedKeeps ==
  ASSUME CaptureIInv, CloseStopped
  PROVE  CaptureIInv'
  <1> USE DEF locks, threads, disk, Recording
  <1> USE Doers
  <1>0. CaptureTypes
    BY DEF CaptureIInv
  <1>a. /\ UNCHANGED <<world, locks, rec, threads, session, made, disk>>
        /\ Closer \in Doer /\ task[Closer].step = "finish" /\ task'[Closer] = Idle
        /\ task' \in [Doer -> CaptureTask]
        /\ \A u \in Doer : u # Closer => task'[u] = task[u]
        /\ phase' = IF task[Closer].stopped THEN "closed" ELSE "failed"
    <2>1. Idle \in CaptureTask
      BY DEF Idle, CaptureTask
    <2>2. task' = [task EXCEPT ![Closer] = Idle]
      BY DEF CloseStopped
    <2>3. /\ task' \in [Doer -> CaptureTask] /\ task'[Closer] = Idle
          /\ \A u \in Doer : u # Closer => task'[u] = task[u]
      BY <1>0, <2>1, <2>2, TaskUpdated DEF CaptureTypes
    <2> QED BY <2>2, <2>3 DEF CloseStopped
  <1>1. CaptureTypes'
    BY <1>a DEF CaptureIInv, CaptureTypes
  <1>2. HolderInv'
    BY <1>a DEF CaptureIInv, CaptureTypes, HolderInv, InCommand, Idle
  <1>3. StepInv'
    BY <1>a DEF CaptureIInv, CaptureTypes, HolderInv, StepInv, Starting, Idle
  <1>4. NumberInv'
    BY <1>a, <1>0, CaptureTypeFacts DEF CaptureIInv, CaptureTypes, NumberInv, Starting,
       Idle
  <1>5. EntryInv'
    BY <1>a, <1>0, CaptureTypeFacts DEF CaptureIInv, CaptureTypes, EntryInv, Idle,
       CaptureTask
  <1>6. FramesInv'
    BY <1>a DEF CaptureIInv, CaptureTypes, FramesInv
  <1>7. ClosingInv'
    BY <1>a DEF CaptureIInv, CaptureTypes, ClosingInv, Quiet, Guarded, Idle
  <1> QED BY <1>1, <1>2, <1>3, <1>4, <1>5, <1>6, <1>7 DEF CaptureIInv

LEMMA DiscardRemoveKeeps ==
  ASSUME CaptureIInv, NEW t \in Client, DiscardRemove(t)
  PROVE  CaptureIInv'
  <1> USE DEF locks, threads, disk, Recording
  <1> USE Doers
  <1>0. CaptureTypes
    BY DEF CaptureIInv
  <1>a. /\ UNCHANGED <<world, phase, op, lock, rec, threads, session, made, run, foreign, accepted>>
        /\ t \in Doer /\ task[t].step = "remove"
        /\ files' = IF task[t].mode = "frames" THEN {} ELSE files
        /\ task' \in [Doer -> CaptureTask]
        /\ \A u \in Doer : u # t => task'[u] = task[u]
        /\ LeftAs(t, TRUE)
    BY <1>0, TaskLeft DEF CaptureTypes, DiscardRemove
  <1>1. CaptureTypes'
    BY <1>a DEF CaptureIInv, CaptureTypes
  <1>2. HolderInv'
    BY <1>a DEF CaptureIInv, CaptureTypes, HolderInv, InCommand, LeftAs, Idle
  <1>3. StepInv'
    BY <1>a DEF CaptureIInv, CaptureTypes, HolderInv, StepInv, Starting, LeftAs, Idle
  <1>4. NumberInv'
    BY <1>a, <1>0, CaptureTypeFacts DEF CaptureIInv, CaptureTypes, NumberInv, Starting,
       LeftAs, Idle
  <1>5. EntryInv'
    BY <1>a, <1>0, CaptureTypeFacts DEF CaptureIInv, CaptureTypes, EntryInv, LeftAs,
       Idle, CaptureTask
  <1>6. FramesInv'
    BY <1>a DEF CaptureIInv, CaptureTypes, FramesInv, StepInv
  <1>7. ClosingInv'
    BY <1>a DEF CaptureIInv, CaptureTypes, ClosingInv, Quiet, Guarded, LeftAs, Idle
  <1> QED BY <1>1, <1>2, <1>3, <1>4, <1>5, <1>6, <1>7 DEF CaptureIInv

LEMMA CommandKeeps ==
  ASSUME CaptureIInv, NEW t \in Doer, Command(t)
  PROVE  CaptureIInv'
  <1> USE DEF locks, threads, disk, Recording
  <1> USE Doers
  <1>0. CaptureTypes
    BY DEF CaptureIInv
  <1>a. /\ UNCHANGED <<world, phase, op, lock, rec, threads, session, made, disk>>
        /\ task[t].step = "command"
        /\ task' \in [Doer -> CaptureTask]
        /\ \A u \in Doer : u # t => task'[u] = task[u]
        /\ \/ /\ task'[t].do = task[t].do /\ task'[t].by = task[t].by
              /\ task'[t].gen = task[t].gen /\ task'[t].mode = task[t].mode
              /\ task'[t].stopped = task[t].stopped
              /\ \/ /\ cmd = "free" /\ cmd' = t
                    /\ task'[t].step = IF task[t].do = "start" THEN "check" ELSE "find"
                 \/ cmd' = cmd /\ task'[t].step = "finish"
           \/ cmd' = cmd /\ ~Guarded(t) /\ task'[t] = Idle
    <2>1. CASE cmd = "free"
      BY <1>0, <2>1, TaskStep DEF CaptureTypes, Command
    <2>2. CASE cmd # "free" /\ Guarded(t)
      <3>1. To(t, "finish") /\ cmd' = cmd
        BY <2>2 DEF Command, To
      <3> QED BY <1>0, <3>1, TaskStep DEF CaptureTypes, Command
    <2>3. CASE cmd # "free" /\ ~Guarded(t)
      <3>1. Idle \in CaptureTask
        BY DEF Idle, CaptureTask
      <3>2. task' = [task EXCEPT ![t] = Idle] /\ cmd' = cmd
        BY <2>3 DEF Command
      <3> QED BY <1>0, <2>3, <3>1, <3>2, TaskUpdated DEF CaptureTypes, Command
    <2> QED BY <2>1, <2>2, <2>3
  <1>1. CaptureTypes'
    BY <1>a DEF CaptureIInv, CaptureTypes
  <1>2. HolderInv'
    BY <1>a DEF CaptureIInv, CaptureTypes, HolderInv, InCommand, Idle
  <1>3. StepInv'
    BY <1>a DEF CaptureIInv, CaptureTypes, HolderInv, StepInv, Starting, Idle
  <1>4. NumberInv'
    BY <1>a, <1>0, CaptureTypeFacts DEF CaptureIInv, CaptureTypes, NumberInv, Starting,
       Idle
  <1>5. EntryInv'
    BY <1>a, <1>0, CaptureTypeFacts DEF CaptureIInv, CaptureTypes, EntryInv, Idle,
       CaptureTask
  <1>6. FramesInv'
    BY <1>a DEF CaptureIInv, CaptureTypes, FramesInv, StepInv
  <1>7. ClosingInv'
    BY <1>a DEF CaptureIInv, CaptureTypes, ClosingInv, Quiet, Guarded, Idle, StepInv,
       HolderInv
  <1> QED BY <1>1, <1>2, <1>3, <1>4, <1>5, <1>6, <1>7 DEF CaptureIInv

LEMMA StartCheckKeeps ==
  ASSUME CaptureIInv, NEW t \in Client, StartCheck(t)
  PROVE  CaptureIInv'
  <1> USE DEF locks, threads, disk, Recording
  <1> USE Doers
  <1>0. CaptureTypes
    BY DEF CaptureIInv
  <1>b. task[t].step = "check" /\ task[t].mode \in Mode
    BY DEF CaptureIInv, StartCheck, StepInv, Starting
  <1>a. /\ UNCHANGED <<world, phase, op, lock, rec, threads, session, made, disk>>
        /\ t \in Doer /\ task[t].step = "check" /\ task[t].mode \in Mode
        /\ task' \in [Doer -> CaptureTask]
        /\ \A u \in Doer : u # t => task'[u] = task[u]
        /\ \/ /\ cmd' = cmd /\ Allowed(t)
              /\ task'[t].do = task[t].do /\ task'[t].by = task[t].by
              /\ task'[t].gen = task[t].gen /\ task'[t].mode = task[t].mode
              /\ task'[t].stopped = task[t].stopped
              /\ task'[t].step = task[t].mode
           \/ LeftAs(t, FALSE)
    <2>1. CASE Allowed(t)
      <3>1. To(t, task[t].mode) /\ cmd' = cmd
        BY <2>1 DEF StartCheck
      <3>2. task[t].mode \in {"frames", "video"}
        BY <1>b DEF Mode
      <3>3. task \in [Doer -> CaptureTask] /\ t \in Doer
        BY <1>0 DEF CaptureTypes
      <3>4. /\ task' \in [Doer -> CaptureTask]
            /\ \A u \in Doer : u # t => task'[u] = task[u]
            /\ task'[t].step = task[t].mode
            /\ task'[t].do = task[t].do /\ task'[t].by = task[t].by
            /\ task'[t].gen = task[t].gen /\ task'[t].mode = task[t].mode
            /\ task'[t].stopped = task[t].stopped
        BY <3>1, <3>2, <3>3, TaskStep
      <3> QED BY <1>b, <2>1, <3>1, <3>3, <3>4 DEF StartCheck
    <2>2. CASE ~Allowed(t)
      BY <1>0, <1>b, <2>2, TaskLeft DEF CaptureTypes, StartCheck, LeftAs
    <2> QED BY <2>1, <2>2
  <1>1. CaptureTypes'
    BY <1>a DEF CaptureIInv, CaptureTypes
  <1>2. HolderInv'
    BY <1>a DEF CaptureIInv, CaptureTypes, HolderInv, InCommand, Idle, LeftAs, Mode
  <1>3. StepInv'
    BY <1>a DEF CaptureIInv, CaptureTypes, HolderInv, StepInv, Starting, Idle, LeftAs,
       Mode
  <1>4. NumberInv'
    BY <1>a, <1>0, CaptureTypeFacts DEF CaptureIInv, CaptureTypes, NumberInv, Starting,
       Idle, LeftAs, Mode
  <1>5. EntryInv'
    BY <1>a, <1>0, CaptureTypeFacts DEF CaptureIInv, CaptureTypes, EntryInv, Idle,
       LeftAs, Mode, CaptureTask
  <1>6. FramesInv'
    BY <1>a DEF CaptureIInv, CaptureTypes, FramesInv
  <1>7. ClosingInv'
    BY <1>a DEF CaptureIInv, CaptureTypes, ClosingInv, Quiet, Guarded, Idle, LeftAs, Mode
  <1> QED BY <1>1, <1>2, <1>3, <1>4, <1>5, <1>6, <1>7 DEF CaptureIInv

LEMMA StartFramesKeeps ==
  ASSUME CaptureIInv, NEW t \in Client, StartFrames(t)
  PROVE  CaptureIInv'
  <1> USE DEF locks, threads, disk, Recording
  <1> USE Doers
  <1>0. CaptureTypes
    BY DEF CaptureIInv
  <1>b. /\ t \in Doer /\ task[t].step = "frames" /\ task[t].mode = "frames"
        /\ task[t].gen # 0
    BY DEF CaptureIInv, StartFrames, StepInv, NumberInv, Starting
  <1>a. /\ UNCHANGED <<world, phase, op, lock, watch, session, made, disk>>
        /\ task' \in [Doer -> CaptureTask]
        /\ \A u \in Doer : u # t => task'[u] = task[u]
        /\ LeftAs(t, FALSE)
        /\ \/ UNCHANGED <<rec, sampler>>
           \/ ~Recording /\ EnteredAs(t, rec') /\ sampler' = "loop"
    <2>1. /\ UNCHANGED <<world, phase, op, lock, watch, session, made, disk>>
          /\ Leave(t, FALSE)
          /\ \/ UNCHANGED <<rec, sampler>>
             \/ ~Recording /\ rec' = New(t) /\ sampler' = "loop"
      BY DEF StartFrames
    <2>2. EnteredAs(t, New(t))
      BY <1>0, <1>b, NewEntry DEF Mode
    <2>3. /\ task' \in [Doer -> CaptureTask]
          /\ \A u \in Doer : u # t => task'[u] = task[u]
          /\ LeftAs(t, FALSE)
      BY <1>0, <1>b, <2>1, TaskLeft DEF CaptureTypes
    <2> QED BY <2>1, <2>2, <2>3
  <1>1. CaptureTypes'
    <2>1. rec' \in InTable \cup {Nothing} /\ sampler' \in {"off", "loop", "shoot", "keep"}
      BY <1>0, <1>a DEF CaptureTypes, EnteredAs
    <2>2. (Recording => IsFiniteSet(rec.kept))'
      BY <1>0, <1>a, FS_EmptySet DEF CaptureTypes, EnteredAs
    <2> QED BY <1>0, <1>a, <2>1, <2>2 DEF CaptureTypes
  <1>2. HolderInv'
    BY <1>a, <1>b, NothingIsNotInTable, FS_EmptySet DEF CaptureIInv, CaptureTypes,
       HolderInv, InCommand, EnteredAs, LeftAs, Idle, HolderInv, StepInv
  <1>3. StepInv'
    BY <1>a, <1>b, NothingIsNotInTable, FS_EmptySet DEF CaptureIInv, CaptureTypes,
       HolderInv, StepInv, Starting, EnteredAs, LeftAs, Idle, InCommand
  <1>4. NumberInv'
    BY <1>a, <1>0, CaptureTypeFacts, <1>b, NothingIsNotInTable, FS_EmptySet DEF
       CaptureIInv, CaptureTypes, NumberInv, Starting, EnteredAs, LeftAs, Idle, Guarded
  <1>5. EntryInv'
    BY <1>a, <1>0, CaptureTypeFacts, <1>b, NothingIsNotInTable, FS_EmptySet DEF
       CaptureIInv, CaptureTypes, EntryInv, EnteredAs, LeftAs, Idle, HolderInv,
       InCommand, StepInv, Starting, Guarded, CaptureTask
  <1>6. FramesInv'
    BY <1>a, <1>b, NothingIsNotInTable, FS_EmptySet DEF CaptureIInv, CaptureTypes,
       FramesInv, EnteredAs, LeftAs, Idle, NumberInv, Starting
  <1>7. ClosingInv'
    BY <1>a, <1>b, NothingIsNotInTable, FS_EmptySet DEF CaptureIInv, CaptureTypes,
       ClosingInv, Quiet, Guarded, EnteredAs, LeftAs, Idle, StepInv
  <1> QED BY <1>1, <1>2, <1>3, <1>4, <1>5, <1>6, <1>7 DEF CaptureIInv

LEMMA StartVideoKeeps ==
  ASSUME CaptureIInv, NEW t \in Client, StartVideo(t)
  PROVE  CaptureIInv'
  <1> USE DEF locks, threads, disk, Recording
  <1> USE Doers
  <1>0. CaptureTypes
    BY DEF CaptureIInv
  <1>b. t \in Doer /\ task[t].step = "video" /\ task[t].mode = "video"
    BY DEF CaptureIInv, StartVideo, StepInv
  <1>a. /\ UNCHANGED <<world, phase, op, rec, threads, session, made, disk>>
        /\ lock = "free"
        /\ task' \in [Doer -> CaptureTask]
        /\ \A u \in Doer : u # t => task'[u] = task[u]
        /\ \/ /\ lock' = t /\ cmd' = cmd /\ ~Recording /\ Allowed(t)
              /\ task'[t].do = task[t].do /\ task'[t].by = task[t].by
              /\ task'[t].gen = task[t].gen /\ task'[t].mode = task[t].mode
              /\ task'[t].stopped = task[t].stopped
              /\ task'[t].step = "sdk"
           \/ lock' = lock /\ LeftAs(t, FALSE)
    <2>1. CASE ~Recording /\ Allowed(t)
      BY <1>0, <1>b, <2>1, TaskStep DEF CaptureTypes, StartVideo
    <2>2. CASE ~(~Recording /\ Allowed(t))
      BY <1>0, <1>b, <2>2, TaskLeft DEF CaptureTypes, StartVideo
    <2> QED BY <2>1, <2>2
  <1>1. CaptureTypes'
    BY <1>a, <1>b DEF CaptureIInv, CaptureTypes, Idle, LeftAs
  <1>2. HolderInv'
    BY <1>a, <1>b DEF CaptureIInv, CaptureTypes, HolderInv, InCommand, Idle, LeftAs
  <1>3. StepInv'
    BY <1>a, <1>b DEF CaptureIInv, CaptureTypes, HolderInv, StepInv, Starting, Idle,
       LeftAs
  <1>4. NumberInv'
    BY <1>a, <1>0, CaptureTypeFacts, <1>b DEF CaptureIInv, CaptureTypes, NumberInv,
       Starting, Idle, LeftAs
  <1>5. EntryInv'
    BY <1>a, <1>0, CaptureTypeFacts, <1>b DEF CaptureIInv, CaptureTypes, EntryInv, Idle,
       LeftAs, CaptureTask
  <1>6. FramesInv'
    BY <1>a, <1>b DEF CaptureIInv, CaptureTypes, FramesInv, Idle, LeftAs
  <1>7. ClosingInv'
    BY <1>a, <1>b DEF CaptureIInv, CaptureTypes, ClosingInv, Quiet, Guarded, Idle,
       LeftAs, Allowed, Check, StepInv
  <1> QED BY <1>1, <1>2, <1>3, <1>4, <1>5, <1>6, <1>7 DEF CaptureIInv

LEMMA StartSdkKeeps ==
  ASSUME CaptureIInv, NEW t \in Client, NEW outcome \in {"none", "ok", "unclear"}, NEW going \in BOOLEAN,
         NEW watched \in BOOLEAN, StartSdk(t, outcome, going, watched)
  PROVE  CaptureIInv'
  <1> USE DEF locks, threads, disk, Recording
  <1> USE Doers
  <1>0. CaptureTypes
    BY DEF CaptureIInv
  <1>b. /\ t \in Doer /\ task[t].step = "sdk" /\ task[t].mode = "video"
        /\ task[t].gen # 0 /\ lock = t /\ ~Recording /\ cmd = t
    BY DEF CaptureIInv, StartSdk, HolderInv, InCommand, StepInv, NumberInv, Starting
  <1>a. /\ UNCHANGED <<world, phase, op, sampler, session, made, files, foreign, accepted>>
        /\ lock' = "free"
        /\ task' \in [Doer -> CaptureTask]
        /\ \A u \in Doer : u # t => task'[u] = task[u]
        /\ LeftAs(t, FALSE)
        /\ \/ UNCHANGED <<rec, watch, run>>
           \/ /\ EnteredAs(t, rec')
              /\ run' \in {run, run \cup {task[t].gen}}
              /\ \/ watch' = watch
                 \/ Guarded(t) /\ rec'.watched /\ watch' = [Ended EXCEPT !.step = "watching"]
    <2>1. /\ UNCHANGED <<world, phase, op, sampler, session, made, files, foreign, accepted>>
          /\ lock' = "free" /\ Leave(t, FALSE)
          /\ run' \in {run, run \cup {task[t].gen}}
      BY DEF StartSdk
    <2>2. /\ task' \in [Doer -> CaptureTask]
          /\ \A u \in Doer : u # t => task'[u] = task[u]
          /\ LeftAs(t, FALSE)
      BY <1>0, <1>b, <2>1, TaskLeft DEF CaptureTypes
    <2>3. CASE outcome = "none"
      BY <2>1, <2>2, <2>3 DEF StartSdk
    <2>4. CASE outcome = "unclear"
      <3>1. /\ rec' = [New(t) EXCEPT !.unconfirmed = TRUE, !.failure = TRUE]
            /\ watch' = watch
        BY <2>4 DEF StartSdk
      <3>2. EnteredAs(t, rec')
        BY <1>0, <1>b, <3>1, NewEntry DEF Mode
      <3> QED BY <2>1, <2>2, <3>1, <3>2
    <2>5. CASE outcome = "ok" /\ ~Guarded(t)
      <3>1. rec' = New(t) /\ watch' = watch
        BY <2>5 DEF StartSdk
      <3>2. EnteredAs(t, rec')
        BY <1>0, <1>b, <3>1, NewEntry DEF Mode
      <3> QED BY <2>1, <2>2, <3>1, <3>2
    <2>6. CASE outcome = "ok" /\ Guarded(t)
      <3>1. /\ rec' = [New(t) EXCEPT !.watched = watched, !.failure = ~watched]
            /\ watch' = IF watched THEN [Ended EXCEPT !.step = "watching"] ELSE watch
        BY <2>6 DEF StartSdk
      <3>2. EnteredAs(t, rec') /\ rec'.watched = watched
        BY <1>0, <1>b, <3>1, NewEntry DEF Mode
      <3> QED BY <2>1, <2>2, <2>6, <3>1, <3>2
    <2> QED BY <2>3, <2>4, <2>5, <2>6
  <1>w. LET w == [Ended EXCEPT !.step = "watching"] IN
        /\ w \in [step : {"ended", "watching", "stopping"}, asked : BOOLEAN,
                  stopped : BOOLEAN, failed : BOOLEAN]
        /\ w.step = "watching" /\ ~w.stopped
    BY DEF Ended
  <1>1. CaptureTypes'
    <2>1. task[t].gen \in Nat
      BY <1>0, <1>b, CaptureTypeFacts
    <2>2. run' \subseteq Nat
      BY <1>0, <1>a, <2>1 DEF CaptureTypes
    <2>3. watch' \in [step : {"ended", "watching", "stopping"}, asked : BOOLEAN,
                      stopped : BOOLEAN, failed : BOOLEAN]
      BY <1>0, <1>a, <1>w DEF CaptureTypes
    <2>4. rec' \in InTable \cup {Nothing} /\ (Recording' => IsFiniteSet(rec'.kept))
      BY <1>0, <1>a, FS_EmptySet DEF CaptureTypes, EnteredAs
    <2> QED BY <1>0, <1>a, <2>2, <2>3, <2>4 DEF CaptureTypes
  <1>2. HolderInv'
    BY <1>a, <1>b, <1>w, NothingIsNotInTable, FS_EmptySet DEF CaptureIInv, CaptureTypes,
       HolderInv, InCommand, EnteredAs, LeftAs, Idle, InCommand
  <1>3. StepInv'
    BY <1>a, <1>b, <1>w, NothingIsNotInTable, FS_EmptySet DEF CaptureIInv, CaptureTypes,
       HolderInv, StepInv, Starting, EnteredAs, LeftAs, Idle, InCommand
  <1>4. NumberInv'
    BY <1>a, <1>0, CaptureTypeFacts, <1>b, <1>w, NothingIsNotInTable, FS_EmptySet DEF
       CaptureIInv, CaptureTypes, NumberInv, Starting, EnteredAs, LeftAs, Idle, Guarded,
       NumberInv
  <1>5. EntryInv'
    <2>1. run = {} /\ sampler = "off" /\ watch.step = "ended" /\ ~watch.stopped
      BY <1>b DEF CaptureIInv, EntryInv
    <2>2. \A u \in Doer : task'[u].step # "pop"
      BY <1>a, <1>b DEF CaptureIInv, HolderInv, InCommand, LeftAs, Idle
    <2>3. Guarded(t) => session = task[t].gen
      <3>1. task[t].do = "start" /\ task[t].by # "none" /\ task[t].by # "close"
        BY <1>b DEF CaptureIInv, HolderInv, StepInv, Starting
      <3>2. task[t].by \in {"lease", "plain"}
        BY <1>0, <1>b, <3>1, CaptureTypeFacts DEF CaptureTask
      <3> QED BY <1>b, <3>1, <3>2 DEF CaptureIInv, StepInv, Guarded
    <2>4. CASE UNCHANGED <<rec, watch, run>>
      BY <1>a, <2>1, <2>2, <2>4 DEF CaptureIInv, EntryInv
    <2>5. CASE EnteredAs(t, rec') /\ run' \in {run, run \cup {task[t].gen}} /\ watch' = watch
      BY <1>a, <1>b, <2>1, <2>2, <2>3, <2>5, NothingIsNotInTable DEF EnteredAs, EntryInv
    <2>6. CASE /\ EnteredAs(t, rec') /\ run' \in {run, run \cup {task[t].gen}}
               /\ Guarded(t) /\ rec'.watched /\ watch' = [Ended EXCEPT !.step = "watching"]
      BY <1>a, <1>b, <1>w, <2>1, <2>2, <2>3, <2>6, NothingIsNotInTable DEF EnteredAs,
         EntryInv
    <2> QED BY <1>a, <2>4, <2>5, <2>6
  <1>6. FramesInv'
    BY <1>a, <1>b, <1>w, NothingIsNotInTable, FS_EmptySet DEF CaptureIInv, CaptureTypes,
       FramesInv, EnteredAs, LeftAs, Idle, NumberInv, Starting
  <1>7. ClosingInv'
    BY <1>a, <1>b, <1>w, NothingIsNotInTable, FS_EmptySet DEF CaptureIInv, CaptureTypes,
       ClosingInv, Quiet, Guarded, EnteredAs, LeftAs, Idle, StepInv
  <1> QED BY <1>1, <1>2, <1>3, <1>4, <1>5, <1>6, <1>7 DEF CaptureIInv

LEMMA CloseOwnedKeeps ==
  ASSUME CaptureIInv, NEW gives_up \in BOOLEAN, CloseOwned(gives_up)
  PROVE  CaptureIInv'
  <1> USE DEF locks, threads, disk, Recording
  <1> USE Doers
  <1>0. CaptureTypes
    BY DEF CaptureIInv
  <1> DEFINE x == [do |-> "stop", by |-> "close", step |-> "command", gen |-> rec.gen,
                   mode |-> rec.mode, stopped |-> FALSE]
  <1>a. /\ UNCHANGED <<world, locks, rec, threads, session, made, disk>>
        /\ phase = "closing" /\ task[Closer].do = "none"
        /\ \/ /\ phase' \in {"failed", "closed"} /\ task' = task
              /\ phase' = "closed" => lock = "free" /\ ~(Recording /\ rec.guarded)
           \/ /\ phase' = phase /\ Recording
              /\ task' \in [Doer -> CaptureTask]
              /\ \A u \in Doer : u # Closer => task'[u] = task[u]
              /\ task'[Closer].do = "stop" /\ task'[Closer].by = "close"
              /\ task'[Closer].step = "command" /\ task'[Closer].gen = rec.gen
              /\ task'[Closer].stopped = FALSE
    <2>1. CASE ~gives_up /\ Recording /\ rec.guarded
      <3>1. task' = [task EXCEPT ![Closer] = x] /\ phase' = phase
        BY <2>1 DEF CloseOwned
      <3>2. x \in CaptureTask
        BY <1>0, <2>1, CaptureTypeFacts DEF CaptureTask, InTable
      <3>3. /\ x.do = "stop" /\ x.by = "close" /\ x.step = "command" /\ x.gen = rec.gen
            /\ x.stopped = FALSE
        OBVIOUS
      <3> HIDE DEF x
      <3> QED BY <1>0, <2>1, <3>1, <3>2, <3>3, TaskUpdated, Doers DEF CloseOwned,
                 CaptureTypes
    <2>2. CASE gives_up \/ ~(Recording /\ rec.guarded)
      BY <2>2 DEF CloseOwned
    <2> QED BY <2>1, <2>2
  <1>1. CaptureTypes'
    BY <1>a DEF CaptureIInv, CaptureTypes
  <1>2. HolderInv'
    BY <1>a DEF CaptureIInv, CaptureTypes, HolderInv, InCommand
  <1>3. StepInv'
    BY <1>a DEF CaptureIInv, CaptureTypes, HolderInv, StepInv, Starting
  <1>4. NumberInv'
    BY <1>a, <1>0, CaptureTypeFacts DEF CaptureIInv, CaptureTypes, NumberInv, Starting
  <1>5. EntryInv'
    BY <1>a, <1>0, CaptureTypeFacts DEF CaptureIInv, CaptureTypes, EntryInv
  <1>6. FramesInv'
    BY <1>a DEF CaptureIInv, CaptureTypes, FramesInv
  <1>7. ClosingInv'
    BY <1>a DEF CaptureIInv, CaptureTypes, ClosingInv, Quiet, Guarded, HolderInv,
       CaptureTask, EntryInv
  <1> QED BY <1>1, <1>2, <1>3, <1>4, <1>5, <1>6, <1>7 DEF CaptureIInv

LEMMA LeaveKeeps ==
  ASSUME CaptureIInv, NEW t \in Doer, NEW b \in BOOLEAN, InCommand(t), LeftAs(t, b),
         b => ~Recording /\ lock = "free",
         UNCHANGED <<world, phase, op, lock, rec, threads, session, made, disk>>,
         task' \in [Doer -> CaptureTask], \A u \in Doer : u # t => task'[u] = task[u]
  PROVE  CaptureIInv'
  <1> USE DEF locks, threads, disk, Recording
  <1> USE Doers
  <1>0. CaptureTypes
    BY DEF CaptureIInv
  <1>a. TRUE
    OBVIOUS
  <1>1. CaptureTypes'
    BY <1>a DEF CaptureIInv, CaptureTypes
  <1>2. HolderInv'
    BY <1>a DEF CaptureIInv, CaptureTypes, HolderInv, InCommand, InCommand, LeftAs, Idle
  <1>3. StepInv'
    BY <1>a DEF CaptureIInv, CaptureTypes, HolderInv, StepInv, Starting, InCommand,
       LeftAs, Idle
  <1>4. NumberInv'
    BY <1>a, <1>0, CaptureTypeFacts DEF CaptureIInv, CaptureTypes, NumberInv, Starting,
       InCommand, LeftAs, Idle
  <1>5. EntryInv'
    BY <1>a, <1>0, CaptureTypeFacts DEF CaptureIInv, CaptureTypes, EntryInv, InCommand,
       LeftAs, Idle, CaptureTask
  <1>6. FramesInv'
    BY <1>a DEF CaptureIInv, CaptureTypes, FramesInv, InCommand, LeftAs, Idle
  <1>7. ClosingInv'
    BY <1>a DEF CaptureIInv, CaptureTypes, ClosingInv, Quiet, Guarded, InCommand,
       LeftAs, Idle, HolderInv, StepInv
  <1> QED BY <1>1, <1>2, <1>3, <1>4, <1>5, <1>6, <1>7 DEF CaptureIInv

LEMMA StopFindKeeps ==
  ASSUME CaptureIInv, NEW t \in Doer, NEW launched \in BOOLEAN, StopFind(t, launched)
  PROVE  CaptureIInv'
  <1> USE DEF locks, threads, disk, Recording
  <1> USE Doers
  <1>0. CaptureTypes
    BY DEF CaptureIInv
  <1>b. task[t].step = "find" /\ lock = "free" /\ cmd = t
    BY DEF CaptureIInv, StopFind, HolderInv, InCommand
  <1> DEFINE video == Own(t) /\ rec.guarded /\ rec.mode = "video" /\ ~rec.unconfirmed
             again == ~rec.watched \/ (watch.step = "ended" /\ ~watch.stopped)
  <1>r. Own(t) => rec \in InTable
    BY <1>0, CaptureTypeFacts DEF Own
  <1>c. \/ /\ rec' = rec /\ watch' = watch /\ LeftAs(t, ~Recording)
        \/ /\ cmd' = cmd /\ rec \in InTable
           /\ task'[t].do = task[t].do /\ task'[t].by = task[t].by
           /\ task'[t].gen = task[t].gen /\ task'[t].mode = task[t].mode
           /\ task'[t].stopped = task[t].stopped /\ task'[t].step = "await"
           /\ Alike(rec, rec') /\ rec'.kept = rec.kept
           /\ rec'.watched = IF video THEN TRUE ELSE rec.watched
    <2>1. CASE ~Own(t) \/ (video /\ again /\ ~launched)
      <3>1. rec' = rec /\ watch' = watch /\ Leave(t, ~Recording)
        BY <2>1 DEF StopFind, Own
      <3> QED BY <1>0, <3>1, TaskLeft DEF CaptureTypes
    <2>2. CASE Own(t) /\ ~(video /\ again /\ ~launched)
      <3>1. /\ cmd' = cmd /\ To(t, "await")
            /\ rec' = IF video THEN [rec EXCEPT !.watched = TRUE] ELSE [rec EXCEPT !.stop = TRUE]
        BY <2>2 DEF StopFind
      <3>2. Alike(rec, rec') /\ rec'.kept = rec.kept
            /\ rec'.watched = IF video THEN TRUE ELSE rec.watched
        BY <1>r, <2>2, <3>1, EntryMarked
      <3> QED BY <1>0, <1>r, <2>2, <3>1, <3>2, TaskStep DEF CaptureTypes
    <2> QED BY <2>1, <2>2
  <1>d. /\ watch' \in [step : {"ended", "watching", "stopping"}, asked : BOOLEAN,
                      stopped : BOOLEAN, failed : BOOLEAN]
        /\ watch'.stopped = watch.stopped
        /\ \/ watch'.step = watch.step
           \/ /\ watch'.step = "stopping" /\ video /\ ~watch.stopped
              /\ task'[t].step = "await" /\ rec'.watched
    <2>1. video => Own(t) /\ rec # Nothing
      BY DEF Own
    <2>2. again => ~watch.stopped
      BY DEF CaptureIInv, EntryInv
    <2>3. CASE video /\ again /\ launched
      <3>1. watch' = [watch EXCEPT !.step = "stopping", !.asked = TRUE]
        BY <2>3 DEF StopFind
      <3>2. To(t, "await") /\ rec' = [rec EXCEPT !.watched = TRUE]
        BY <2>1, <2>3 DEF StopFind
      <3>3. task'[t].step = "await" /\ rec'.watched
        BY <1>0, <1>r, <2>1, <2>3, <3>2, TaskStep, EntryMarked DEF CaptureTypes
      <3>4. video /\ ~watch.stopped
        BY <2>2, <2>3
      <3> HIDE DEF video, again
      <3> QED BY <1>0, <3>1, <3>3, <3>4 DEF CaptureTypes
    <2>4. CASE video /\ ~again
      <3>1. watch' = [watch EXCEPT !.asked = TRUE]
        BY <2>4 DEF StopFind
      <3> HIDE DEF video, again
      <3> QED BY <1>0, <3>1 DEF CaptureTypes
    <2>5. CASE ~(video /\ again /\ launched) /\ ~(video /\ ~again)
      <3>1. watch' = watch
        BY <2>5 DEF StopFind
      <3> QED BY <1>0, <3>1 DEF CaptureTypes
    <2> QED BY <2>3, <2>4, <2>5
  <1>e. /\ UNCHANGED <<world, phase, op, lock, sampler, session, made, disk>>
        /\ task' \in [Doer -> CaptureTask]
        /\ \A u \in Doer : u # t => task'[u] = task[u]
    BY <1>0, <1>c, TaskStep, TaskLeft DEF StopFind, CaptureTypes
  <1> HIDE DEF again
  <1>l. CASE rec' = rec /\ watch' = watch /\ LeftAs(t, ~Recording)
    BY <1>b, <1>e, <1>l, LeaveKeeps DEF InCommand
  <1>g. CASE /\ cmd' = cmd /\ rec \in InTable
             /\ task'[t].do = task[t].do /\ task'[t].by = task[t].by
             /\ task'[t].gen = task[t].gen /\ task'[t].mode = task[t].mode
             /\ task'[t].stopped = task[t].stopped /\ task'[t].step = "await"
             /\ Alike(rec, rec') /\ rec'.kept = rec.kept
             /\ rec'.watched = IF video THEN TRUE ELSE rec.watched
    <2>1. CaptureTypes'
      BY <1>b, <1>e, <1>g, <1>d, NothingIsNotInTable DEF CaptureIInv, CaptureTypes, Alike
    <2>2. HolderInv'
      BY <1>b, <1>e, <1>g, NothingIsNotInTable DEF CaptureIInv, CaptureTypes, HolderInv,
         InCommand, Alike
    <2>3. StepInv'
      BY <1>b, <1>e, <1>g, NothingIsNotInTable DEF CaptureIInv, CaptureTypes, HolderInv,
         StepInv, Starting, Alike
    <2>4. NumberInv'
      BY <1>b, <1>e, <1>g, <1>0, CaptureTypeFacts, NothingIsNotInTable DEF CaptureIInv,
         CaptureTypes, NumberInv, Starting, Alike
    <2>5. EntryInv'
      BY <1>b, <1>e, <1>g, <1>0, CaptureTypeFacts, <1>d, NothingIsNotInTable DEF
         CaptureIInv, CaptureTypes, EntryInv, HolderInv, InCommand, Alike
    <2>6. FramesInv'
      BY <1>b, <1>e, <1>g, NothingIsNotInTable DEF CaptureIInv, CaptureTypes, FramesInv,
         Alike
    <2>7. ClosingInv'
      BY <1>b, <1>e, <1>g, NothingIsNotInTable DEF CaptureIInv, CaptureTypes,
         ClosingInv, Quiet, Guarded, StepInv, Alike
    <2> QED BY <2>1, <2>2, <2>3, <2>4, <2>5, <2>6, <2>7 DEF CaptureIInv
  <1> QED BY <1>c, <1>l, <1>g

LEMMA StopAwaitKeeps ==
  ASSUME CaptureIInv, NEW t \in Doer, NEW gives_up \in BOOLEAN, StopAwait(t, gives_up)
  PROVE  CaptureIInv'
  <1> USE DEF locks, threads, disk, Recording
  <1> USE Doers
  <1>0. CaptureTypes
    BY DEF CaptureIInv
  <1>b. task[t].step = "await" /\ cmd = t /\ rec \in InTable
    BY <1>0, CaptureTypeFacts DEF CaptureIInv, StopAwait, HolderInv, InCommand, StepInv
  <1>l. CASE gives_up
    <2>1. Leave(t, FALSE) /\ UNCHANGED <<world, phase, op, lock, rec, threads, session, made, disk>>
      BY <1>l DEF StopAwait
    <2> QED BY <1>0, <1>b, <2>1, TaskLeft, LeaveKeeps DEF InCommand, CaptureTypes
  <1>g. CASE ~gives_up
    <2>a. /\ UNCHANGED <<world, phase, op, cmd, lock, threads, session, made, files, foreign, accepted>>
          /\ task' \in [Doer -> CaptureTask]
          /\ \A u \in Doer : u # t => task'[u] = task[u]
          /\ task'[t].do = task[t].do /\ task'[t].by = task[t].by
          /\ task'[t].gen = task[t].gen /\ task'[t].mode = task[t].mode
          /\ task'[t].stopped = task[t].stopped /\ task'[t].step = "pop"
      BY <1>0, <1>g, TaskStep DEF StopAwait, CaptureTypes
    <2>b. Alike(rec, rec') /\ rec'.kept = rec.kept /\ rec'.watched = rec.watched
      <3> DEFINE b == rec.failure \/ (rec.mode = "video" /\ watch.failed)
      <3>1. rec' = [rec EXCEPT !.failure = b] /\ b \in BOOLEAN
        BY <1>g DEF StopAwait
      <3> HIDE DEF b
      <3> QED BY <1>b, <3>1, EntryMarked
    <2>c. run' \subseteq run /\ run' = {} /\ sampler = "off" /\ watch.step = "ended"
      <3>1. CASE rec.mode = "frames"
        BY <1>g, <3>1 DEF StopAwait, Still, CaptureIInv, EntryInv
      <3>2. CASE rec.mode = "video" /\ rec.guarded
        BY <1>g, <3>2 DEF StopAwait, Still, CaptureIInv, EntryInv
      <3>3. CASE rec.mode = "video" /\ ~rec.guarded
        <4>1. run' = run \ {rec.gen}
          BY <1>g, <3>3 DEF StopAwait
        <4> QED BY <3>3, <4>1 DEF CaptureIInv, EntryInv
      <3> QED BY <1>b, <3>1, <3>2, <3>3 DEF InTable
    <2>1. CaptureTypes'
      BY <1>b, <2>a, <2>b, <2>c, NothingIsNotInTable DEF CaptureIInv, CaptureTypes, Alike
    <2>2. HolderInv'
      BY <1>b, <2>a, <2>b, <2>c, NothingIsNotInTable DEF CaptureIInv, CaptureTypes,
         HolderInv, InCommand, Alike
    <2>3. StepInv'
      BY <1>b, <2>a, <2>b, <2>c, NothingIsNotInTable DEF CaptureIInv, CaptureTypes,
         HolderInv, StepInv, Starting, Alike
    <2>4. NumberInv'
      BY <1>b, <2>a, <2>b, <2>c, <1>0, CaptureTypeFacts, NothingIsNotInTable DEF
         CaptureIInv, CaptureTypes, NumberInv, Starting, Alike
    <2>5. EntryInv'
      BY <1>b, <2>a, <2>b, <2>c, <1>0, CaptureTypeFacts, NothingIsNotInTable DEF
         CaptureIInv, CaptureTypes, EntryInv, HolderInv, InCommand, Alike
    <2>6. FramesInv'
      BY <1>b, <2>a, <2>b, <2>c, NothingIsNotInTable DEF CaptureIInv, CaptureTypes,
         FramesInv, Alike
    <2>7. ClosingInv'
      BY <1>b, <2>a, <2>b, <2>c, NothingIsNotInTable DEF CaptureIInv, CaptureTypes,
         ClosingInv, Quiet, Guarded, StepInv, Alike
    <2> QED BY <2>1, <2>2, <2>3, <2>4, <2>5, <2>6, <2>7 DEF CaptureIInv
  <1> QED BY <1>l, <1>g

LEMMA StopPopKeeps ==
  ASSUME CaptureIInv, NEW t \in Doer, StopPop(t)
  PROVE  CaptureIInv'
  <1> USE DEF locks, threads, disk, Recording
  <1> USE Doers
  <1>0. CaptureTypes
    BY DEF CaptureIInv
  <1>b. /\ task[t].step = "pop" /\ cmd = t /\ lock = "free" /\ rec \in InTable /\ Recording
        /\ run = {} /\ sampler = "off"
    BY <1>0, CaptureTypeFacts DEF CaptureIInv, StopPop, HolderInv, InCommand, StepInv,
       EntryInv
  <1>c. \A f \in rec.kept : f \in Nat \X Nat /\ f[1] = rec.gen /\ f[2] # 0
    <2>1. ASSUME NEW f \in rec.kept PROVE f[1] = rec.gen /\ f[2] # 0
      BY <1>b DEF CaptureIInv, FramesInv
    <2> QED BY <1>b, <2>1 DEF InTable
  <1>a. /\ UNCHANGED <<world, phase, op, lock, sampler, session, made, run, files, foreign>>
        /\ rec' = Nothing /\ watch' = Ended
        /\ task' \in [Doer -> CaptureTask]
        /\ \A u \in Doer : u # t => task'[u] = task[u]
        /\ accepted' = accepted \/ (rec.guarded /\ accepted' = accepted \cup rec.kept)
        /\ \/ /\ cmd' = cmd /\ task[t].do = "discard"
              /\ task'[t].do = task[t].do /\ task'[t].by = task[t].by
              /\ task'[t].gen = task[t].gen /\ task'[t].mode = task[t].mode
              /\ task'[t].stopped = task[t].stopped /\ task'[t].step = "remove"
           \/ LeftAs(t, TRUE)
    <2>1. CASE task[t].do = "discard"
      BY <1>0, <2>1, TaskStep DEF StopPop, CaptureTypes
    <2>2. CASE task[t].do # "discard"
      BY <1>0, <2>2, TaskLeft DEF StopPop, CaptureTypes
    <2> QED BY <2>1, <2>2
  <1>n. /\ Nothing.gen = 0 /\ ~(Recording') /\ Ended.step = "ended" /\ ~Ended.stopped
        /\ Ended \in [step : {"ended", "watching", "stopping"}, asked : BOOLEAN,
                      stopped : BOOLEAN, failed : BOOLEAN]
    BY <1>a DEF Nothing, Ended
  <1>1. CaptureTypes'
    BY <1>a, <1>b, <1>c, <1>n DEF CaptureIInv, CaptureTypes, LeftAs, Idle
  <1>2. HolderInv'
    BY <1>a, <1>b, <1>c, <1>n DEF CaptureIInv, CaptureTypes, HolderInv, InCommand,
       LeftAs, Idle, InCommand
  <1>3. StepInv'
    BY <1>a, <1>b, <1>c, <1>n DEF CaptureIInv, CaptureTypes, HolderInv, StepInv,
       Starting, LeftAs, Idle, InCommand
  <1>4. NumberInv'
    BY <1>a, <1>0, CaptureTypeFacts, <1>b, <1>c, <1>n DEF CaptureIInv, CaptureTypes,
       NumberInv, Starting, LeftAs, Idle
  <1>5. EntryInv'
    BY <1>a, <1>0, CaptureTypeFacts, <1>b, <1>c, <1>n DEF CaptureIInv, CaptureTypes,
       EntryInv, LeftAs, Idle, HolderInv, InCommand
  <1>6. FramesInv'
    BY <1>a, <1>b, <1>c, <1>n DEF CaptureIInv, CaptureTypes, FramesInv, LeftAs, Idle
  <1>7. ClosingInv'
    BY <1>a, <1>b, <1>c, <1>n DEF CaptureIInv, CaptureTypes, ClosingInv, Quiet, Guarded,
       LeftAs, Idle, StepInv, HolderInv
  <1> QED BY <1>1, <1>2, <1>3, <1>4, <1>5, <1>6, <1>7 DEF CaptureIInv

-----------------------------------------------------------------------------
(* Captures: the theorems.                                                 *)

LEMMA CaptureInitInv == CaptureInit => CaptureIInv
  <1> SUFFICES ASSUME CaptureInit PROVE CaptureIInv
    OBVIOUS
  <1> USE DEF CaptureInit, Recording
  <1>1. /\ Idle \in CaptureTask /\ Idle.do = "none" /\ Idle.by = "none" /\ Idle.step = "none"
        /\ Idle.gen = 0 /\ ~Idle.stopped
    BY DEF Idle, CaptureTask
  <1>2. /\ \A t \in Doer : task[t] = Idle
        /\ task \in [Doer -> CaptureTask]
    BY <1>1 DEF Doer
  <1>3. rec.gen = 0 /\ ~Recording
    BY DEF Nothing
  <1>4. /\ watch \in [step : {"ended", "watching", "stopping"}, asked : BOOLEAN,
                      stopped : BOOLEAN, failed : BOOLEAN]
        /\ watch.step = "ended" /\ ~watch.stopped
    BY DEF Ended
  <1>5. CaptureTypes
    BY <1>2, <1>3, <1>4 DEF CaptureTypes
  <1>6. HolderInv /\ StepInv /\ NumberInv
    BY <1>1, <1>2, <1>3 DEF HolderInv, StepInv, NumberInv, InCommand, Starting
  <1>7. EntryInv /\ FramesInv /\ ClosingInv
    BY <1>1, <1>2, <1>3, <1>4, Doers DEF EntryInv, FramesInv, ClosingInv
  <1> QED BY <1>5, <1>6, <1>7 DEF CaptureIInv

LEMMA CaptureStutters == CaptureIInv /\ UNCHANGED captureVars => CaptureIInv'
  <1> SUFFICES ASSUME CaptureIInv, UNCHANGED captureVars PROVE CaptureIInv'
    OBVIOUS
  <1> USE DEF captureVars, locks, threads, disk, Recording
  <1>1. CaptureTypes' /\ HolderInv' /\ StepInv'
    BY DEF CaptureIInv, CaptureTypes, HolderInv, StepInv, InCommand, Starting
  <1>2. NumberInv' /\ EntryInv' /\ FramesInv' /\ ClosingInv'
    BY DEF CaptureIInv, NumberInv, EntryInv, FramesInv, ClosingInv, Quiet, Guarded,
       Starting
  <1> QED BY <1>1, <1>2 DEF CaptureIInv

LEMMA CaptureStep == CaptureIInv /\ CaptureNext => CaptureIInv'
  <1> SUFFICES ASSUME CaptureIInv, CaptureNext PROVE CaptureIInv'
    OBVIOUS
  <1>1. CASE Lapse \/ Exchange \/ BeginClosing \/ CloseStopped
    BY <1>1, LapseKeeps, ExchangeKeeps, BeginClosingKeeps, CloseStoppedKeeps
  <1>2. CASE \E g \in run : RecorderEnds(g)
    BY <1>2, RecorderEndsKeeps
  <1>3. CASE Requests
    <2> PICK t \in Client :
          \/ \E m \in Mode : LeasedBegin(t, "start", m) \/ PlainBegin(t, "start", m)
          \/ LeasedBegin(t, "screenshot", "none")
          \/ \E m \in Mode, d \in {"stop", "discard"} :
               LeasedCleanup(t, d, m) \/ PlainBegin(t, d, m)
          \/ Finish(t) \/ ScreenshotShoot(t) \/ ScreenshotVerify(t)
          \/ StartCheck(t) \/ StartFrames(t) \/ StartVideo(t)
          \/ \E g, w \in BOOLEAN, o \in {"none", "ok", "unclear"} : StartSdk(t, o, g, w)
          \/ DiscardRemove(t)
      BY <1>3 DEF Requests
    <2>1. CASE \E m \in Mode : LeasedBegin(t, "start", m) \/ PlainBegin(t, "start", m)
      <3>1. PICK m \in Mode : LeasedBegin(t, "start", m) \/ PlainBegin(t, "start", m)
        BY <2>1
      <3>2. m \in {"frames", "video", "none"}
        BY DEF Mode
      <3> QED BY <3>1, <3>2, LeasedBeginKeeps, PlainBeginKeeps
    <2>2. CASE LeasedBegin(t, "screenshot", "none")
      BY <2>2, LeasedBeginKeeps
    <2>3. CASE \E m \in Mode, d \in {"stop", "discard"} :
               LeasedCleanup(t, d, m) \/ PlainBegin(t, d, m)
      BY <2>3, LeasedCleanupKeeps, PlainBeginKeeps
    <2>4. CASE Finish(t) \/ ScreenshotShoot(t) \/ ScreenshotVerify(t) \/ DiscardRemove(t)
      BY <2>4, FinishKeeps, ScreenshotShootKeeps, ScreenshotVerifyKeeps, DiscardRemoveKeeps
    <2>5. CASE StartCheck(t) \/ StartFrames(t) \/ StartVideo(t)
      BY <2>5, StartCheckKeeps, StartFramesKeeps, StartVideoKeeps
    <2>6. CASE \E g, w \in BOOLEAN, o \in {"none", "ok", "unclear"} : StartSdk(t, o, g, w)
      BY <2>6, StartSdkKeeps
    <2> QED BY <2>1, <2>2, <2>3, <2>4, <2>5, <2>6
  <1>4. CASE Commands
    <2> PICK t \in Doer :
          \/ Command(t) \/ StopPop(t)
          \/ \E b \in BOOLEAN : StopFind(t, b) \/ StopAwait(t, b)
      BY <1>4 DEF Commands, Doer
    <2> QED BY CommandKeeps, StopPopKeeps, StopFindKeeps, StopAwaitKeeps
  <1>5. CASE Threads
    <2>1. CASE SampleLoop \/ SampleRaises \/ SampleShoot \/ WatchLook
      BY <2>1, SampleLoopKeeps, SampleRaisesKeeps, SampleShootKeeps, WatchLookKeeps
    <2>2. CASE \E a, b \in BOOLEAN : SampleKeep(a, b) \/ WatchStop(a, b)
      BY <2>2, SampleKeepKeeps, WatchStopKeeps
    <2> QED BY <1>5, <2>1, <2>2 DEF Threads
  <1>6. CASE \E b \in BOOLEAN : CloseOwned(b)
    BY <1>6, CloseOwnedKeeps
  <1> QED BY <1>1, <1>2, <1>3, <1>4, <1>5, <1>6 DEF CaptureNext

\* The invariant of the recorder holds for any number of requests, captures
\* and frames.
THEOREM CaptureIInvHolds == CaptureSpec => []CaptureIInv
  <1>1. CaptureIInv /\ [CaptureNext]_captureVars => CaptureIInv'
    BY CaptureStep, CaptureStutters
  <1> QED BY <1>1, CaptureInitInv, PTL DEF CaptureSpec

\* Recorder, table and files agree: what records is the capture in the table,
\* and between requests the one the session names; frames it kept are on disk;
\* nothing of another device is handed out (server.py, capture_control).
THEOREM CaptureInvHolds == CaptureSpec => []CaptureInv
  <1>1. CaptureIInv => CaptureInv
    BY DEF CaptureIInv, EntryInv, FramesInv, CaptureInv, RecorderReachable,
       KeptFramesStay,
           AcceptedIsOfTheDevice
  <1> QED BY <1>1, CaptureIInvHolds, PTL

\* Once the bridge has closed nothing is recorded under a lease any more,
\* whatever start or stop was under way (close_native_captures).
THEOREM ClosedIsQuietHolds == CaptureSpec => []ClosedIsQuiet
  <1>1. CaptureIInv => ClosedIsQuiet
    BY DEF CaptureIInv, ClosingInv, Quiet, ClosedIsQuiet
  <1> QED BY <1>1, CaptureIInvHolds, PTL

================================================================================
