---------------------------- MODULE NativeBridge ----------------------------
(***************************************************************************)
(* The operator's device bridge (src/tools/airtest-poco-bridge): a         *)
(* threaded HTTP server in front of one Android device.  A client opens a  *)
(* session, observes the device's identity once, and receives a lease; the *)
(* lease admits operations one by one, each checked before and after the   *)
(* SDK call against the connection that was observed                       *)
(* (native_identity_exchange.py, native_identity_actions.py,               *)
(* native_identity_transport.py), and a candidate is executed only if the  *)
(* screen still is the one it was found on (server.py).                    *)
(*                                                                         *)
(* Requests are handled by threads of their own; a step ends where another *)
(* thread, the device or the clock can be noticed.  The device may be      *)
(* reconnected, turned, or show another screen at any time.                *)
(***************************************************************************)
EXTENDS Naturals, Sequences, FiniteSets

CONSTANTS
    Thread,       \* concurrent HTTP requests
    Screen,       \* what the device can show
    Cand,         \* candidate identifiers
    Window,       \* approval windows a client may name
    MaxRegistry,  \* MAX_CANDIDATE_REGISTRY
    MaxSessions,  \* MAX_SESSIONS
    MaxLeases,    \* MAX_LEASES
    MaxIds,       \* sessions one checked run opens
    MaxGen,       \* generations of the connection
    MaxOrdinal    \* operations asked of one lease

ASSUME BridgeAssumption ==
    /\ {MaxRegistry, MaxSessions, MaxLeases} \subseteq Nat \ {0}
    /\ {MaxIds, MaxGen, MaxOrdinal} \subseteq Nat
    /\ "free" \notin Thread

VARIABLES
    device,   \* [gen, display, screen]: connection, orientation, content
    conn,     \* [slot, gens, open]: transports by number, and the current one
    closing,  \* "open", "closing", "closed" or "failed": the exchange
    sessions, \* sessions opened and not yet used: [id, display, tr]
    leases,   \* the lease table: id -> [tr, display, ord, window, over],
              \* over once its time or its window has run out
    registry, \* candidates in the order of registration: [id, seen]
    busy,     \* the thread that holds _operation, or "free"
    job,      \* what each thread is doing
    issued,   \* identifiers given out
    facts,    \* id -> generation whose identity was read (history)
    calls,    \* SDK calls made under a lease, in order (history)
    done      \* operations answered as a success (history)

device_vars == <<conn, closing, sessions, leases, registry, busy, job,
                 issued, facts, calls, done>>
lease_vars == <<leases, facts>>
history == <<calls, done>>
vars == <<device, device_vars>>

Id == 1..MaxIds
NoJob == [op |-> "none", step |-> "none", id |-> 0, ord |-> 0, tr |-> 0,
          display |-> FALSE, cand |-> "none"]
Ambiguous == "collision"

-----------------------------------------------------------------------------
(* The transport: a socket subscribed to the device list, and a query.     *)

\* The numbered transport is not stopped.
Open(t) == t \in conn.open

\* NativeAndroidTransport.check: the subscription lives and the generation
\* asked from the server now is the one it was made for.
Holds(t) == Open(t) /\ conn.gens[t] = device.gen

\* A failed check stops the transport for good.
Asked(t) == IF Holds(t) THEN conn ELSE [conn EXCEPT !.open = @ \ {t}]

\* _check_open.
Accepting == closing = "open"

-----------------------------------------------------------------------------
(* The guard of an operation.                                              *)

Live(l) == l \in DOMAIN leases

\* NativeActionGuard.check: the lease is still in the table, the bridge is
\* not closing, capabilities and declarations are those of the observation,
\* the transport holds, and neither the lease nor its window has run out.
Guard(l) ==
    /\ Live(l) /\ Accepting
    /\ device.display = leases[l].display
    /\ Holds(leases[l].tr)
    /\ ~leases[l].over

\* What the check leaves of the transports.
AfterGuard(l) ==
    IF Live(l) /\ Accepting /\ device.display = leases[l].display
    THEN Asked(leases[l].tr) ELSE conn

Unexpired == {l \in DOMAIN leases : ~leases[l].over}
Without(l) == [k \in DOMAIN leases \ {l} |-> leases[k]]

-----------------------------------------------------------------------------
Init ==
    /\ device \in [gen : {1}, display : {FALSE}, screen : Screen]
    /\ conn = [slot |-> 0, gens |-> <<>>, open |-> {}]
    /\ closing = "open" /\ sessions = {} /\ leases = <<>>
    /\ registry = <<>> /\ busy = "free"
    /\ job = [t \in Thread |-> NoJob]
    /\ issued = 0 /\ facts = <<>> /\ calls = <<>> /\ done = {}

(* The device and the clock.                                               *)

Reconnect ==
    /\ device.gen < MaxGen /\ device' = [device EXCEPT !.gen = @ + 1]
    /\ UNCHANGED device_vars

Turn ==
    /\ device' = [device EXCEPT !.display = ~@]
    /\ UNCHANGED device_vars

Show(s) ==
    /\ s # device.screen /\ device' = [device EXCEPT !.screen = s]
    /\ UNCHANGED device_vars

\* The reader thread of a transport sees the device list change.
Notice(t) ==
    /\ Open(t) /\ ~Holds(t) /\ conn' = Asked(t)
    /\ UNCHANGED <<device, closing, sessions, lease_vars, registry, busy, job, issued, history>>

SessionExpires(s) ==
    /\ s \in sessions /\ sessions' = sessions \ {s}
    /\ UNCHANGED <<device, conn, closing, lease_vars, registry, busy, job, issued, history>>

LeaseExpires(l) ==
    /\ Live(l) /\ ~leases[l].over /\ leases' = [leases EXCEPT ![l].over = TRUE]
    /\ UNCHANGED <<device, conn, closing, sessions, facts, registry, busy, job, issued, history>>

-----------------------------------------------------------------------------
(* open                                                                    *)

Answer(t) == job' = [job EXCEPT ![t] = NoJob]

\* The request's binding is compared with the display of now and the
\* capacity is looked at for the first time.
OpenBegin(t) ==
    /\ job[t].op = "none" /\ issued < MaxIds
    /\ Accepting /\ Cardinality(sessions) < MaxSessions
    /\ job' = [job EXCEPT ![t] = [NoJob EXCEPT !.op = "open", !.step = "connect",
                                               !.display = device.display]]
    /\ UNCHANGED <<device, conn, closing, sessions, lease_vars, registry, busy, issued, history>>

\* _capture_transport: a stopped transport is replaced, a live one reused.
OpenConnect(t) ==
    /\ job[t].op = "open" /\ job[t].step = "connect"
    /\ LET keep == conn.slot # 0 /\ Open(conn.slot)
           n == Len(conn.gens) + 1
       IN  \/ /\ ~Accepting /\ Answer(t) /\ UNCHANGED conn
           \/ /\ Accepting /\ keep /\ ~Holds(conn.slot)
              /\ Answer(t) /\ conn' = Asked(conn.slot)
           \/ /\ Accepting /\ keep /\ Holds(conn.slot) /\ UNCHANGED conn
              /\ job' = [job EXCEPT ![t].step = "commit", ![t].tr = conn.slot]
           \/ /\ Accepting /\ ~keep
              /\ conn' = [slot |-> n, gens |-> Append(conn.gens, device.gen),
                          open |-> conn.open \cup {n}]
              /\ job' = [job EXCEPT ![t].step = "commit", ![t].tr = n]
    /\ UNCHANGED <<device, closing, sessions, lease_vars, registry, busy, issued, history>>

\* The session is created if the capacity still allows it.
OpenCommit(t) ==
    /\ job[t].op = "open" /\ job[t].step = "commit"
    /\ IF Cardinality(sessions) < MaxSessions /\ issued < MaxIds
       THEN /\ issued' = issued + 1
            /\ sessions' = sessions \cup
                 {[id |-> issued + 1, display |-> job[t].display, tr |-> job[t].tr]}
       ELSE UNCHANGED <<issued, sessions>>
    /\ Answer(t)
    /\ UNCHANGED <<device, conn, closing, lease_vars, registry, busy, history>>

-----------------------------------------------------------------------------
(* observe                                                                 *)

\* Mutant of ObserveBegin: the session is read and stays in the table.
ObserveBeginKeeps(t, s) ==
    /\ job[t].op = "none" /\ s \in sessions /\ Accepting
    /\ s.display = device.display /\ Holds(s.tr)
    /\ job' = [job EXCEPT ![t] = [NoJob EXCEPT !.op = "observe", !.step = "query",
                                !.id = s.id, !.display = s.display, !.tr = s.tr]]
    /\ UNCHANGED <<device, conn, closing, sessions, lease_vars, registry, busy, issued, history>>

\* The session is taken out of the table, so it serves one request; then
\* binding and transport are compared.
ObserveBegin(t, s) ==
    /\ job[t].op = "none" /\ s \in sessions /\ Accepting
    /\ sessions' = sessions \ {s}
    /\ IF s.display = device.display
       THEN /\ conn' = Asked(s.tr)
            /\ job' = IF Holds(s.tr)
                      THEN [job EXCEPT ![t] = [NoJob EXCEPT !.op = "observe", !.step = "query",
                                !.id = s.id, !.display = s.display, !.tr = s.tr]]
                      ELSE job
       ELSE UNCHANGED <<conn, job>>
    /\ UNCHANGED <<device, closing, lease_vars, registry, busy, issued, history>>

\* observe_android_identity: its five read-only queries.
ObserveQuery(t) ==
    /\ job[t].op = "observe" /\ job[t].step = "query"
    /\ facts' = [k \in DOMAIN facts \cup {job[t].id} |->
                    IF k = job[t].id THEN device.gen ELSE facts[k]]
    /\ job' = [job EXCEPT ![t].step = "commit"]
    /\ UNCHANGED <<device, conn, closing, sessions, leases, registry, busy, issued, history>>

\* Everything is compared again, then a lease is registered, when the three
\* identifying fields were observed and the table has room.
ObserveCommit(t, identified) ==
    /\ job[t].op = "observe" /\ job[t].step = "commit"
    /\ conn' = IF device.display = job[t].display THEN Asked(job[t].tr) ELSE conn
    /\ leases' =
         IF /\ device.display = job[t].display /\ Holds(job[t].tr) /\ identified
            /\ Cardinality(Unexpired) < MaxLeases
         THEN [k \in Unexpired \cup {job[t].id} |->
                 IF k = job[t].id
                 THEN [tr |-> job[t].tr, display |-> job[t].display, ord |-> 0, window |-> "unbound",
                       over |-> FALSE]
                 ELSE leases[k]]
         ELSE leases
    /\ Answer(t)
    /\ UNCHANGED <<device, closing, sessions, facts, registry, busy, issued, history>>

-----------------------------------------------------------------------------
(* Candidates: discovery remembers what each identifier stood for.         *)

Entry(c) == SelectSeq(registry, LAMBDA e : e.id = c)

\* _remember_candidate: the same binding is kept, a different one leaves a
\* tombstone, a new one may push the oldest entry out.
Remember(c, seen) ==
    CASE Entry(c) # <<>> ->
           [i \in DOMAIN registry |->
              IF registry[i].id = c /\ registry[i].seen # seen
              THEN [id |-> c, seen |-> Ambiguous] ELSE registry[i]]
      [] Entry(c) = <<>> /\ Len(registry) < MaxRegistry ->
           Append(registry, [id |-> c, seen |-> seen])
      [] OTHER -> Append(Tail(registry), [id |-> c, seen |-> seen])

\* discover_candidates works on the observation the client sends back,
\* which may be an old one.
Discover(c, seen) ==
    /\ registry' = Remember(c, seen) /\ registry' # registry
    /\ UNCHANGED <<device, conn, closing, sessions, lease_vars, busy, job, issued, history>>

\* _assert_fresh_candidate: registered, not ambiguous, and the screen
\* observed now is the one it was registered with.
Fresh(c) == Entry(c) # <<>> /\ Entry(c)[1].seen = device.screen

-----------------------------------------------------------------------------
(* perform                                                                 *)

\* A request names a lease, an ordinal and a window.  A wrong ordinal is
\* refused; a foreign digest or another window also ends the lease.
PerformBegin(t, l, o, w, op, c, genuine) ==
    /\ job[t].op = "none" /\ busy = "free" /\ Live(l)
    /\ LET bound == leases[l].window \in {"unbound", w}
       IN  IF genuine /\ o = leases[l].ord + 1 /\ bound
           THEN /\ leases' = [leases EXCEPT ![l].ord = o, ![l].window = w]
                /\ busy' = t
                /\ job' = [job EXCEPT ![t] = [NoJob EXCEPT !.op = op, !.id = l,
                             !.step = IF op = "execute" THEN "fresh" ELSE "call",
                             !.ord = o, !.cand = c]]
           ELSE /\ ~genuine \/ o = leases[l].ord + 1
                /\ leases' = Without(l)
                /\ UNCHANGED <<busy, job>>
    /\ UNCHANGED <<device, conn, closing, sessions, facts, registry, issued, history>>

\* Any refusal or failure takes the lease out and answers.
Fail(t) ==
    /\ leases' = Without(job[t].id)
    /\ UNCHANGED done
    /\ busy' = "free" /\ Answer(t)

Acting(t, step) == job[t].op \in {"execute", "recover"} /\ job[t].step = step

\* guard.check of perform and of execute, one after the other, then the
\* freshness of the candidate.
PerformFresh(t) ==
    /\ Acting(t, "fresh") /\ conn' = AfterGuard(job[t].id)
    /\ IF Guard(job[t].id) /\ Fresh(job[t].cand)
       THEN /\ job' = [job EXCEPT ![t].step = "call"]
            /\ UNCHANGED <<leases, busy, done>>
       ELSE Fail(t)
    /\ UNCHANGED <<device, closing, sessions, facts, registry, issued, calls>>

\* _invoke checks (for recover, right after perform did) and marks the
\* attempt ...
PerformCall(t) ==
    /\ Acting(t, "call") /\ conn' = AfterGuard(job[t].id)
    /\ IF Guard(job[t].id)
       THEN /\ job' = [job EXCEPT ![t].step = "calling"]
            /\ UNCHANGED <<leases, busy, done>>
       ELSE Fail(t)
    /\ UNCHANGED <<device, closing, sessions, facts, registry, issued, calls>>

\* ... the SDK acts on whatever device is connected by then, or raises ...
PerformActs(t, raises) ==
    /\ Acting(t, "calling")
    /\ calls' = Append(calls, [id |-> job[t].id, ord |-> job[t].ord,
                               gen |-> device.gen])
    /\ IF raises THEN Fail(t)
       ELSE job' = [job EXCEPT ![t].step = "after"] /\ UNCHANGED <<leases, busy, done>>
    /\ UNCHANGED <<device, conn, closing, sessions, facts, registry, issued>>

\* Mutant of PerformAfter: the answer of the SDK is taken as it is.
PerformAfterUnchecked(t) ==
    /\ Acting(t, "after") /\ done' = done \cup {<<job[t].id, job[t].ord>>}
    /\ busy' = "free" /\ Answer(t)
    /\ UNCHANGED <<device, conn, closing, sessions, lease_vars, registry, issued, calls>>

\* ... and the same check decides whether the answer may be a success.
PerformAfter(t) ==
    /\ Acting(t, "after") /\ conn' = AfterGuard(job[t].id)
    /\ IF Guard(job[t].id)
       THEN /\ done' = done \cup {<<job[t].id, job[t].ord>>}
            /\ busy' = "free" /\ Answer(t) /\ UNCHANGED leases
       ELSE Fail(t)
    /\ UNCHANGED <<device, closing, sessions, facts, registry, issued, calls>>

-----------------------------------------------------------------------------
(* close                                                                   *)

CloseBegin ==
    /\ closing = "open" /\ closing' = "closing"
    /\ UNCHANGED <<device, conn, sessions, lease_vars, registry, busy, job, issued, history>>

CloseTransport ==
    /\ closing = "closing" /\ closing' = "closed"
    /\ conn' = [conn EXCEPT !.open = @ \ {conn.slot}]
    /\ UNCHANGED <<device, sessions, lease_vars, registry, busy, job, issued, history>>

-----------------------------------------------------------------------------
Environment ==
    \/ Reconnect \/ Turn
    \/ \E s \in Screen : Show(s)
    \/ \E t \in DOMAIN conn.gens : Notice(t)
    \/ \E s \in sessions : SessionExpires(s)
    \/ \E l \in Id : LeaseExpires(l)

Identity ==
    \E t \in Thread :
        \/ OpenBegin(t) \/ OpenConnect(t) \/ OpenCommit(t)
        \/ \E s \in sessions : ObserveBegin(t, s)
        \/ ObserveQuery(t)
        \/ \E i \in BOOLEAN : ObserveCommit(t, i)

Operations ==
    \E t \in Thread :
        \/ \E l \in Id, o \in 1..MaxOrdinal, w \in Window, g \in BOOLEAN :
             \/ \E c \in Cand : PerformBegin(t, l, o, w, "execute", c, g)
             \/ PerformBegin(t, l, o, w, "recover", "none", g)
        \/ PerformFresh(t) \/ PerformCall(t) \/ PerformAfter(t)
        \/ \E r \in BOOLEAN : PerformActs(t, r)

Next ==
    \/ Environment \/ Identity \/ Operations
    \/ \E c \in Cand, s \in Screen : Discover(c, s)
    \/ CloseBegin \/ CloseTransport

Spec == Init /\ [][Next]_vars

-----------------------------------------------------------------------------
\* A lease reaches the device in the order of its ordinals, each at most
\* once, and never again after an operation of it was not a success: a
\* repeated, reordered or refused request cannot touch the device twice.
OperationsInOrder ==
    \A i \in DOMAIN calls :
        /\ \A j \in DOMAIN calls :
             i < j /\ calls[i].id = calls[j].id => calls[i].ord < calls[j].ord
        /\ \A o \in 1..(calls[i].ord - 1) : <<calls[i].id, o>> \in done

\* An operation answered as a success acted on the connection whose identity
\* was read for the lease: the check after the call catches a device
\* that was exchanged between the check and the call.
SuccessOnObservedDevice ==
    \A i \in DOMAIN calls :
        <<calls[i].id, calls[i].ord>> \in done =>
            calls[i].gen = facts[calls[i].id]

\* The tables stay within their capacity although it is read before the
\* transport is taken and another request may have used it up since.
TablesBounded ==
    /\ Cardinality(sessions) <= MaxSessions
    /\ Cardinality(Unexpired) <= MaxLeases

\* A session serves one observation: no two concurrent requests read an
\* identity for it, and its lease stands for one reading.
OneObservationPerSession ==
    [][\A k \in DOMAIN facts : facts'[k] = facts[k]]_vars

\* What a lease may do to the device, and what the tables hold, under two
\* concurrent requests and a device that changes at every await.
BridgeInv ==
    /\ OperationsInOrder
    /\ SuccessOnObservedDevice
    /\ TablesBounded

=============================================================================
