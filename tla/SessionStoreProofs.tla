-------------------------- MODULE SessionStoreProofs --------------------------
(***************************************************************************)
(* The safety of the session directory for any number of processes, calls, *)
(* events and crashes, and that it implements the ledger.                  *)
(***************************************************************************)
EXTENDS SessionStore, TLAPS, WellFoundedInduction

-----------------------------------------------------------------------------
(* The projection of a log: what it depends on, and how it grows.          *)

\* A non-empty set of indices has a largest one.
LEMMA MaxExists ==
  ASSUME NEW n \in Nat, NEW W \in SUBSET (1..n), W # {}
  PROVE  \E m \in W : \A j \in W : j <= m
<1> DEFINE D == {k \in Nat : n - k \in W}
<1>1. PICK w \in W : TRUE
  OBVIOUS
<1>2. D # {}
  <2>1. n - w \in D
    BY <1>1
  <2>. QED BY <2>1
<1>3. IsWellFoundedOn(OpToRel(<, Nat), Nat)
  BY NatLessThanWellFounded
<1>4. PICK d \in D : \A e \in D : <<e, d>> \notin OpToRel(<, Nat)
  <2> HIDE DEF D
  <2>. QED BY <1>2, <1>3, WFMin DEF D
<1>5. \A e \in D : ~(e < d)
  BY <1>4 DEF OpToRel
<1>6. n - d \in W
  OBVIOUS
<1>7. ASSUME NEW j \in W PROVE j <= n - d
  <2>1. n - j \in D
    OBVIOUS
  <2>. QED BY <2>1, <1>5
<1>. QED BY <1>6, <1>7

\* The last value written is one that was written, or the initial one.
LEMMA LastWrittenType ==
  ASSUME NEW n \in Nat, NEW vals, NEW init, NEW S,
         init \in S, \A i \in 1..n : vals[i] \in S \cup {None}
  PROVE  LastWritten(vals, n, init) \in S
<1> DEFINE W == {i \in 1..n : vals[i] # None}
<1>1. CASE W = {}
  BY <1>1 DEF LastWritten
<1>2. CASE W # {}
  <2>1. \E m \in W : \A j \in W : j <= m
    BY <1>2, MaxExists
  <2>2. (CHOOSE i \in W : \A j \in W : j <= i) \in W
    <3> HIDE DEF W
    <3>. QED BY <2>1
  <2>3. LastWritten(vals, n, init) = vals[CHOOSE i \in W : \A j \in W : j <= i]
    BY <1>2 DEF LastWritten
  <2> DEFINE m == CHOOSE i \in W : \A j \in W : j <= i
  <2>4. m \in W
    BY <2>2
  <2> HIDE DEF m
  <2>5. vals[m] \in S
    BY <2>4
  <2>. QED BY <2>3, <2>5 DEF m
<1>. QED BY <1>1, <1>2

\* Only the first n values matter.
LEMMA LastWrittenAgree ==
  ASSUME NEW n \in Nat, NEW v, NEW w, NEW init, \A i \in 1..n : v[i] = w[i]
  PROVE  LastWritten(v, n, init) = LastWritten(w, n, init)
<1> DEFINE V == {i \in 1..n : v[i] # None}
           W == {i \in 1..n : w[i] # None}
<1>1. V = W
  OBVIOUS
<1>2. CASE V = {}
  BY <1>1, <1>2 DEF LastWritten
<1>3. CASE V # {}
  <2> DEFINE m == CHOOSE i \in V : \A j \in V : j <= i
  <2>1. m \in V
    <3>1. \E i \in V : \A j \in V : j <= i
      BY <1>3, MaxExists
    <3> HIDE DEF V
    <3>. QED BY <3>1
  <2>2. LastWritten(v, n, init) = v[m] /\ LastWritten(w, n, init) = w[m]
    BY <1>1, <1>3 DEF LastWritten
  <2> HIDE DEF m
  <2>. QED BY <2>1, <2>2
<1>. QED BY <1>2, <1>3

\* One more value either replaces the last one or leaves it.
LEMMA LastWrittenNext ==
  ASSUME NEW n \in Nat, NEW vals, NEW init
  PROVE  LastWritten(vals, n + 1, init) =
           IF vals[n + 1] # None THEN vals[n + 1]
           ELSE LastWritten(vals, n, init)
<1> DEFINE V == {i \in 1..n : vals[i] # None}
           W == {i \in 1..(n + 1) : vals[i] # None}
<1>1. CASE vals[n + 1] = None
  <2>1. V = W
    <3>1. ASSUME NEW i \in W PROVE i \in V
      <4>1. i # n + 1
        BY <1>1
      <4>. QED BY <4>1
    <3>2. V \subseteq W
      OBVIOUS
    <3>. QED BY <3>1, <3>2
  <2>2. LastWritten(vals, n, init) =
          IF V = {} THEN init ELSE vals[CHOOSE i \in V : \A j \in V : j <= i]
    BY DEF LastWritten
  <2>3. LastWritten(vals, n + 1, init) =
          IF W = {} THEN init ELSE vals[CHOOSE i \in W : \A j \in W : j <= i]
    BY DEF LastWritten
  <2> HIDE DEF V, W
  <2>. QED BY <1>1, <2>1, <2>2, <2>3
<1>2. CASE vals[n + 1] # None
  <2>1. n + 1 \in W /\ \A j \in W : j <= n + 1
    BY <1>2
  <2>2. \A i \in W : (\A j \in W : j <= i) => i = n + 1
    BY <2>1
  <2>3. (CHOOSE i \in W : \A j \in W : j <= i) = n + 1
    <3> W \subseteq Int
      OBVIOUS
    <3> HIDE DEF W
    <3>. QED BY <2>1, <2>2
  <2>4. W # {}
    BY <2>1
  <2>. QED BY <1>2, <2>3, <2>4 DEF LastWritten
<1>. QED BY <1>1, <1>2

LEMMA PresentNext ==
  ASSUME NEW n \in Nat, NEW vals
  PROVE  Present(vals, n + 1) = Present(vals, n) \cup ({vals[n + 1]} \ {None})
<1>1. 1..(n + 1) = (1..n) \cup {n + 1}
  OBVIOUS
<1>. QED BY <1>1 DEF Present

LEMMA PresentAgree ==
  ASSUME NEW n \in Nat, NEW v, NEW w, \A i \in 1..n : v[i] = w[i]
  PROVE  Present(v, n) = Present(w, n)
BY DEF Present

-----------------------------------------------------------------------------
\* The projection of n events depends on those events only: appending leaves
\* every earlier projection as it was.
LEMMA ProjectPrefix ==
  ASSUME NEW l \in Seq(Event), NEW e \in Event, NEW n \in 0..Len(l)
  PROVE  /\ Project(Append(l, e), n) = Project(l, n)
         /\ Status(Append(l, e), n) = Status(l, n)
<1> DEFINE next == Append(l, e)
<1>1. /\ 1..n \subseteq DOMAIN l
      /\ 1..n \subseteq DOMAIN next
      /\ \A i \in 1..n : next[i] = l[i]
  OBVIOUS
<1>2. Status(next, n) = Status(l, n)
  <2> DEFINE v == [i \in DOMAIN next |-> next[i].status]
             w == [i \in DOMAIN l |-> l[i].status]
  <2>1. \A i \in 1..n : v[i] = w[i]
    BY <1>1
  <2> HIDE DEF v, w
  <2>2. LastWritten(v, n, "draft") = LastWritten(w, n, "draft")
    BY <2>1, LastWrittenAgree
  <2>. QED BY <2>2 DEF Status, v, w
<1>3. LastWritten([i \in DOMAIN next |-> next[i].payload.actionCount], n, 0)
        = LastWritten([i \in DOMAIN l |-> l[i].payload.actionCount], n, 0)
  <2> DEFINE v == [i \in DOMAIN next |-> next[i].payload.actionCount]
             w == [i \in DOMAIN l |-> l[i].payload.actionCount]
  <2>1. \A i \in 1..n : v[i] = w[i]
    BY <1>1
  <2> HIDE DEF v, w
  <2>2. LastWritten(v, n, 0) = LastWritten(w, n, 0)
    BY <2>1, LastWrittenAgree
  <2>. QED BY <2>2 DEF v, w
<1>4. ASSUME NEW f \in ScalarFields
      PROVE LastWritten([i \in DOMAIN next |-> next[i].payload.scalars[f]],
                        n, None)
            = LastWritten([i \in DOMAIN l |-> l[i].payload.scalars[f]],
                          n, None)
  <2> DEFINE v == [i \in DOMAIN next |-> next[i].payload.scalars[f]]
             w == [i \in DOMAIN l |-> l[i].payload.scalars[f]]
  <2>1. \A i \in 1..n : v[i] = w[i]
    BY <1>1
  <2> HIDE DEF v, w
  <2>2. LastWritten(v, n, None) = LastWritten(w, n, None)
    BY <2>1, LastWrittenAgree
  <2>. QED BY <2>2 DEF v, w
<1>5. Present([i \in DOMAIN next |-> next[i].payload.runId], n)
        = Present([i \in DOMAIN l |-> l[i].payload.runId], n)
  <2> DEFINE v == [i \in DOMAIN next |-> next[i].payload.runId]
             w == [i \in DOMAIN l |-> l[i].payload.runId]
  <2>1. \A i \in 1..n : v[i] = w[i]
    BY <1>1
  <2> HIDE DEF v, w
  <2>2. Present(v, n) = Present(w, n)
    BY <2>1, PresentAgree
  <2>. QED BY <2>2 DEF v, w
<1>6. Present([i \in DOMAIN next |-> next[i].payload.findingId], n)
        = Present([i \in DOMAIN l |-> l[i].payload.findingId], n)
  <2> DEFINE v == [i \in DOMAIN next |-> next[i].payload.findingId]
             w == [i \in DOMAIN l |-> l[i].payload.findingId]
  <2>1. \A i \in 1..n : v[i] = w[i]
    BY <1>1
  <2> HIDE DEF v, w
  <2>2. Present(v, n) = Present(w, n)
    BY <2>1, PresentAgree
  <2>. QED BY <2>2 DEF v, w
<1>7. Present([i \in DOMAIN next |-> next[i].payload.manifestRef], n)
        = Present([i \in DOMAIN l |-> l[i].payload.manifestRef], n)
  <2> DEFINE v == [i \in DOMAIN next |-> next[i].payload.manifestRef]
             w == [i \in DOMAIN l |-> l[i].payload.manifestRef]
  <2>1. \A i \in 1..n : v[i] = w[i]
    BY <1>1
  <2> HIDE DEF v, w
  <2>2. Present(v, n) = Present(w, n)
    BY <2>1, PresentAgree
  <2>. QED BY <2>2 DEF v, w
<1>8. n # 0 => next[n].eventDigest = l[n].eventDigest
  BY <1>1
<1> HIDE DEF next
<1>9. Project(next, n) = Project(l, n)
  BY <1>2, <1>3, <1>4, <1>5, <1>6, <1>7, <1>8 DEF Project
<1>. QED BY <1>2, <1>9 DEF next

\* One more event: what projectSession computes from the whole log is what
\* appendSessionEventUnlocked computes from the projection and the event.
LEMMA ProjectAppend ==
  ASSUME NEW l \in Seq(Event), NEW e \in Event, e.sequence = Len(l) + 1
  PROVE  Project(Append(l, e), Len(l) + 1)
           = Apply(Project(l, Len(l)), e)
<1> DEFINE next == Append(l, e)
           n == Len(l)
<1>1. n \in Nat /\ n \in 0..Len(l)
  OBVIOUS
<1>2. DOMAIN next = 1..(n + 1) /\ next[n + 1] = e
  OBVIOUS
<1>3. Project(next, n) = Project(l, n)
  BY <1>1, ProjectPrefix
<1> HIDE DEF next, n
<1>4. Status(next, n + 1) = IF e.status # None THEN e.status
                            ELSE Status(next, n)
  <2> DEFINE v == [i \in DOMAIN next |-> next[i].status]
  <2>1. v[n + 1] = e.status
    BY <1>1, <1>2
  <2> HIDE DEF v
  <2>2. LastWritten(v, n + 1, "draft") =
          IF v[n + 1] # None THEN v[n + 1] ELSE LastWritten(v, n, "draft")
    BY <1>1, LastWrittenNext
  <2>. QED BY <2>1, <2>2 DEF Status, v
<1>5. Project(next, n + 1).actionCount =
        IF e.payload.actionCount # None THEN e.payload.actionCount
        ELSE Project(next, n).actionCount
  <2> DEFINE v == [i \in DOMAIN next |-> next[i].payload.actionCount]
  <2>1. v[n + 1] = e.payload.actionCount
    BY <1>1, <1>2
  <2>2. Project(next, n).actionCount = LastWritten(v, n, 0)
    BY DEF Project
  <2>3. Project(next, n + 1).actionCount = LastWritten(v, n + 1, 0)
    BY DEF Project
  <2> HIDE DEF v
  <2>4. LastWritten(v, n + 1, 0) =
          IF v[n + 1] # None THEN v[n + 1] ELSE LastWritten(v, n, 0)
    BY <1>1, LastWrittenNext
  <2>. QED BY <2>1, <2>2, <2>3, <2>4
<1>6. ASSUME NEW f \in ScalarFields
      PROVE Project(next, n + 1).scalars[f] =
              IF e.payload.scalars[f] # None THEN e.payload.scalars[f]
              ELSE Project(next, n).scalars[f]
  <2> DEFINE v == [i \in DOMAIN next |-> next[i].payload.scalars[f]]
  <2>1. v[n + 1] = e.payload.scalars[f]
    BY <1>1, <1>2
  <2>2. Project(next, n).scalars[f] = LastWritten(v, n, None)
    BY DEF Project
  <2>3. Project(next, n + 1).scalars[f] = LastWritten(v, n + 1, None)
    BY DEF Project
  <2> HIDE DEF v
  <2>4. LastWritten(v, n + 1, None) =
          IF v[n + 1] # None THEN v[n + 1] ELSE LastWritten(v, n, None)
    BY <1>1, LastWrittenNext
  <2>. QED BY <2>1, <2>2, <2>3, <2>4
<1>7. Project(next, n + 1).runIds =
        Project(next, n).runIds \cup ({e.payload.runId} \ {None})
  <2> DEFINE v == [i \in DOMAIN next |-> next[i].payload.runId]
  <2>1. v[n + 1] = e.payload.runId
    BY <1>1, <1>2
  <2>2. /\ Project(next, n).runIds = Present(v, n)
        /\ Project(next, n + 1).runIds = Present(v, n + 1)
    BY DEF Project
  <2> HIDE DEF v
  <2>. QED BY <1>1, <2>1, <2>2, PresentNext
<1>8. Project(next, n + 1).findingIds =
        Project(next, n).findingIds \cup ({e.payload.findingId} \ {None})
  <2> DEFINE v == [i \in DOMAIN next |-> next[i].payload.findingId]
  <2>1. v[n + 1] = e.payload.findingId
    BY <1>1, <1>2
  <2>2. /\ Project(next, n).findingIds = Present(v, n)
        /\ Project(next, n + 1).findingIds = Present(v, n + 1)
    BY DEF Project
  <2> HIDE DEF v
  <2>. QED BY <1>1, <2>1, <2>2, PresentNext
<1>9. Project(next, n + 1).runManifestRefs =
        Project(next, n).runManifestRefs
          \cup ({e.payload.manifestRef} \ {None})
  <2> DEFINE v == [i \in DOMAIN next |-> next[i].payload.manifestRef]
  <2>1. v[n + 1] = e.payload.manifestRef
    BY <1>1, <1>2
  <2>2. /\ Project(next, n).runManifestRefs = Present(v, n)
        /\ Project(next, n + 1).runManifestRefs = Present(v, n + 1)
    BY DEF Project
  <2> HIDE DEF v
  <2>. QED BY <1>1, <2>1, <2>2, PresentNext
<1>10. Project(next, n).status = Status(next, n)
  BY DEF Project
<1>11. Project(next, n + 1) =
         [status |-> Status(next, n + 1), eventCount |-> n + 1,
          eventHeadDigest |-> e.eventDigest,
          actionCount |-> Project(next, n + 1).actionCount,
          scalars |-> Project(next, n + 1).scalars,
          runIds |-> Project(next, n + 1).runIds,
          findingIds |-> Project(next, n + 1).findingIds,
          runManifestRefs |-> Project(next, n + 1).runManifestRefs]
  <2>1. (IF n + 1 = 0 THEN None ELSE next[n + 1].eventDigest) = e.eventDigest
    BY <1>1, <1>2
  <2> DEFINE a == LastWritten([i \in DOMAIN next |->
                                 next[i].payload.actionCount], n + 1, 0)
             s == [f \in ScalarFields |->
                     LastWritten([i \in DOMAIN next |->
                                    next[i].payload.scalars[f]], n + 1, None)]
             r == Present([i \in DOMAIN next |-> next[i].payload.runId], n + 1)
             g == Present([i \in DOMAIN next |-> next[i].payload.findingId],
                          n + 1)
             m == Present([i \in DOMAIN next |-> next[i].payload.manifestRef],
                          n + 1)
             h == IF n + 1 = 0 THEN None ELSE next[n + 1].eventDigest
  <2>2. Project(next, n + 1) =
          [status |-> Status(next, n + 1), eventCount |-> n + 1,
           eventHeadDigest |-> h, actionCount |-> a, scalars |-> s,
           runIds |-> r, findingIds |-> g, runManifestRefs |-> m]
    BY DEF Project
  <2> HIDE DEF a, s, r, g, m, h
  <2>. QED BY <2>1, <2>2 DEF h
<1>12. Project(next, n + 1).scalars =
         [f \in ScalarFields |->
            IF e.payload.scalars[f] = None THEN Project(next, n).scalars[f]
            ELSE e.payload.scalars[f]]
  <2> DEFINE g == [f \in ScalarFields |->
                     LastWritten([i \in DOMAIN next |->
                                    next[i].payload.scalars[f]], n + 1, None)]
  <2>1. Project(next, n + 1).scalars = g
    BY DEF Project
  <2>2. g = [f \in ScalarFields |-> g[f]]
    OBVIOUS
  <2> HIDE DEF g
  <2>. QED BY <1>6, <2>1, <2>2
<1>13. e.sequence = n + 1
  BY DEF n
<1>14. Apply(Project(next, n), e) =
         [status |-> Status(next, n + 1), eventCount |-> n + 1,
          eventHeadDigest |-> e.eventDigest,
          actionCount |-> Project(next, n + 1).actionCount,
          scalars |-> Project(next, n + 1).scalars,
          runIds |-> Project(next, n + 1).runIds,
          findingIds |-> Project(next, n + 1).findingIds,
          runManifestRefs |-> Project(next, n + 1).runManifestRefs]
  BY <1>4, <1>5, <1>7, <1>8, <1>9, <1>10, <1>12, <1>13, Zenon DEF Apply
<1>. QED BY <1>3, <1>11, <1>14 DEF next, n

\* A projection of a well-formed log is a well-formed session.
LEMMA ProjectType ==
  ASSUME NEW l \in Seq(Event), NEW n \in 0..Len(l)
  PROVE  Project(l, n) \in Session
<1>1. n \in Nat /\ 1..n \subseteq DOMAIN l /\ \A i \in 1..n : l[i] \in Event
  OBVIOUS
<1>2. Status(l, n) \in Statuses
  <2> DEFINE v == [i \in DOMAIN l |-> l[i].status]
  <2>1. \A i \in 1..n : v[i] \in Statuses \cup {None}
    BY <1>1 DEF Event, Optional
  <2>2. "draft" \in Statuses
    BY DEF Statuses
  <2> HIDE DEF v
  <2>3. LastWritten(v, n, "draft") \in Statuses
    BY <1>1, <2>1, <2>2, LastWrittenType
  <2>. QED BY <2>3 DEF Status, v
<1>3. Project(l, n).actionCount \in Nat
  <2> DEFINE v == [i \in DOMAIN l |-> l[i].payload.actionCount]
  <2>1. \A i \in 1..n : v[i] \in Nat \cup {None}
    BY <1>1, CountsAssumption DEF Event, Payload, Optional
  <2>2. Project(l, n).actionCount = LastWritten(v, n, 0)
    BY DEF Project
  <2>3. 0 \in Nat
    OBVIOUS
  <2> HIDE DEF v
  <2>4. LastWritten(v, n, 0) \in Nat
    BY <1>1, <2>1, <2>3, LastWrittenType, Zenon
  <2>. QED BY <2>2, <2>4
<1>4. ASSUME NEW f \in ScalarFields
      PROVE Project(l, n).scalars[f] \in Optional(Values)
  <2> DEFINE v == [i \in DOMAIN l |-> l[i].payload.scalars[f]]
  <2>1. \A i \in 1..n : v[i] \in Optional(Values) \cup {None}
    BY <1>1 DEF Event, Payload, Optional
  <2>2. Project(l, n).scalars[f] = LastWritten(v, n, None)
    BY DEF Project
  <2>3. None \in Optional(Values)
    BY DEF Optional
  <2> HIDE DEF v
  <2>. QED BY <1>1, <2>1, <2>2, <2>3, LastWrittenType
<1>5. Project(l, n).scalars \in [ScalarFields -> Optional(Values)]
  <2> DEFINE g == [f \in ScalarFields |->
                     LastWritten([i \in DOMAIN l |->
                                    l[i].payload.scalars[f]], n, None)]
  <2>1. Project(l, n).scalars = g
    BY DEF Project
  <2>2. g = [f \in ScalarFields |-> g[f]]
    OBVIOUS
  <2> HIDE DEF g
  <2>. QED BY <1>4, <2>1, <2>2
<1>6. Project(l, n).runIds \in SUBSET RunIds
  BY <1>1 DEF Project, Present, Event, Payload, Optional
<1>7. Project(l, n).findingIds \in SUBSET FindingIds
  BY <1>1 DEF Project, Present, Event, Payload, Optional
<1>8. Project(l, n).runManifestRefs \in SUBSET ManifestRef
  BY <1>1 DEF Project, Present, Event, Payload, Optional
<1>9. Project(l, n).eventHeadDigest \in Optional(Digest)
  BY <1>1 DEF Project, Event, Optional
<1>10. /\ Project(l, n).status = Status(l, n)
       /\ Project(l, n).eventCount = n
  BY DEF Project
<1>11. Project(l, n) =
         [status |-> Project(l, n).status,
          eventCount |-> Project(l, n).eventCount,
          eventHeadDigest |-> Project(l, n).eventHeadDigest,
          actionCount |-> Project(l, n).actionCount,
          scalars |-> Project(l, n).scalars,
          runIds |-> Project(l, n).runIds,
          findingIds |-> Project(l, n).findingIds,
          runManifestRefs |-> Project(l, n).runManifestRefs]
  BY Zenon DEF Project
<1>. QED
  BY <1>1, <1>2, <1>3, <1>5, <1>6, <1>7, <1>8, <1>9, <1>10, <1>11
     DEF Session

\* A session that has no events yet: the first event makes the same of the
\* session.json that creation wrote as of an empty projection.
LEMMA CreatedFacts ==
  /\ CreatedSession \in Session
  /\ CreatedSession.eventCount = 0
  /\ CreatedSession.eventHeadDigest = ZeroDigest
  /\ \A e \in Event : Apply(CreatedSession, e) = Apply(Project(<<>>, 0), e)
<1>1. CreatedSession \in Session
  BY DEF CreatedSession, Session, Optional, Statuses, Digest
<1>2. /\ CreatedSession.eventCount = 0
      /\ CreatedSession.eventHeadDigest = ZeroDigest
  BY DEF CreatedSession
<1>3. \A v, init : LastWritten(v, 0, init) = init /\ Present(v, 0) = {}
  BY DEF LastWritten, Present
<1>4. /\ Project(<<>>, 0).status = CreatedSession.status
      /\ Project(<<>>, 0).actionCount = CreatedSession.actionCount
      /\ Project(<<>>, 0).runIds = CreatedSession.runIds
      /\ Project(<<>>, 0).findingIds = CreatedSession.findingIds
      /\ Project(<<>>, 0).runManifestRefs = CreatedSession.runManifestRefs
  BY <1>3 DEF Project, CreatedSession, Status
<1>5. \A f \in ScalarFields :
        Project(<<>>, 0).scalars[f] = CreatedSession.scalars[f]
  BY <1>3 DEF Project, CreatedSession
<1>6. ASSUME NEW e \in Event
      PROVE  Apply(CreatedSession, e) = Apply(Project(<<>>, 0), e)
  <2>1. [f \in ScalarFields |->
           IF e.payload.scalars[f] = None THEN CreatedSession.scalars[f]
           ELSE e.payload.scalars[f]]
        = [f \in ScalarFields |->
             IF e.payload.scalars[f] = None THEN Project(<<>>, 0).scalars[f]
             ELSE e.payload.scalars[f]]
    BY <1>5
  <2>. QED BY <1>4, <2>1, Zenon DEF Apply
<1>. QED BY <1>1, <1>2, <1>6

-----------------------------------------------------------------------------
(* The session directory.                                                  *)

\* Only a finding carries a finding identifier, only the registration of a
\* manifest carries a manifest.
LEMMA RequestType ==
  /\ NoPayload \in Payload
  /\ \A r \in Requests \cup {CreateRequest} :
       /\ r \in Request
       /\ r.input.payload \in Payload
       /\ r.op = "finding"  => r.input.payload.findingId \in FindingIds
       /\ r.op # "finding"  => r.input.payload.findingId = None
       /\ r.op = "manifest" => r.input.payload.manifestRef \in ManifestRef
       /\ r.op # "manifest" => r.input.payload.manifestRef = None
<1>1. NoPayload \in Payload
  BY DEF NoPayload, Payload, Optional
<1>2. CreateRequest \in Request
  BY <1>1 DEF CreateRequest, Request, Ops, EventInput, EventTypes, Optional
<1>3. /\ CreateRequest.op = "append"
      /\ CreateRequest.input.payload.findingId = None
      /\ CreateRequest.input.payload.manifestRef = None
  BY DEF CreateRequest, NoPayload
<1>4. \A r \in Requests \cup {CreateRequest} :
        r \in Request /\ r.input.payload \in Payload
  BY <1>2, StoreAssumption DEF Request, EventInput
<1>5. \A r \in Requests \cup {CreateRequest} :
        /\ r.input.payload.findingId \in FindingIds \cup {None}
        /\ r.input.payload.manifestRef \in ManifestRef \cup {None}
  BY <1>4 DEF Payload, Optional
<1>. QED BY <1>1, <1>3, <1>4, <1>5, StoreAssumption

LEMMA InitInv == Init => IInv
<1> SUFFICES ASSUME Init PROVE IInv
  OBVIOUS
<1> USE StoreAssumption DEF Init
<1>1. TypeOK
  BY RequestType, CreatedFacts
     DEF TypeOK, PCs, Critical, Optional
<1>2. LockDiscipline
  BY DEF LockDiscipline, Critical
<1>3. ChainIntact(log)
  BY DEF ChainIntact
<1>4. Replayable(log, Len(log))
  BY DEF Replayable
<1>5. ProjectionIsReplay
  BY CreatedFacts DEF ProjectionIsReplay
<1>6. ReadsArePrefixes /\ LockedReadIsFresh /\ WriterIsCurrent
  BY DEF ReadsArePrefixes, LockedReadIsFresh, WriterIsCurrent
<1>7. CopyPrecedesEvent /\ ManifestsHeld
  BY DEF CopyPrecedesEvent, ManifestsHeld
<1>. QED BY <1>1, <1>2, <1>3, <1>4, <1>5, <1>6, <1>7 DEF IInv

\* The steps that leave the files alone: they preserve the invariant because
\* they do not enter the middle of a call, or enter it with the lock.
LEMMA QuietStep ==
  ASSUME IInv, NEW p \in Writers,
         \/ Call(p) \/ Acquire(p) \/ Retry(p) \/ GiveUp(p) \/ DecodePeek(p)
         \/ RefuseEvent(p) \/ Release(p) \/ Crash(p) \/ Restart(p)
         \/ ClearStaleLock(p)
  PROVE  IInv'
<1> USE StoreAssumption
<1>1. UNCHANGED disk
  BY DEF Call, Acquire, Retry, GiveUp, DecodePeek, RefuseEvent, Release, Crash,
         Restart, ClearStaleLock
<1>2. TypeOK'
  <2>. USE RequestType, CreatedFacts, <1>1
       DEF disk, local, Move, Goto, Forget, PCs, Critical, Optional, TypeOK
  <2>1. TypeOK
    BY DEF IInv
  <2>2. CASE Call(p)
    BY <2>1, <2>2 DEF Call
  <2>3. CASE Acquire(p)
    BY <2>1, <2>3 DEF Acquire
  <2>4. CASE Retry(p)
    BY <2>1, <2>4 DEF Retry
  <2>5. CASE GiveUp(p)
    BY <2>1, <2>5 DEF GiveUp
  <2>6. CASE DecodePeek(p)
    BY <2>1, <2>6 DEF DecodePeek
  <2>7. CASE RefuseEvent(p)
    BY <2>1, <2>7 DEF RefuseEvent
  <2>8. CASE Release(p)
    BY <2>1, <2>8 DEF Release
  <2>9. CASE Crash(p)
    BY <2>1, <2>9 DEF Crash
  <2>10. CASE Restart(p)
    BY <2>1, <2>10 DEF Restart
  <2>11. CASE ClearStaleLock(p)
    BY <2>1, <2>11 DEF ClearStaleLock
  <2>. QED BY <2>2, <2>3, <2>4, <2>5, <2>6, <2>7, <2>8, <2>9, <2>10, <2>11
<1>3. LockDiscipline'
  BY DEF IInv, TypeOK, LockDiscipline, local, Call, Acquire, Retry, GiveUp,
         DecodePeek, RefuseEvent, Release, Crash, Restart, ClearStaleLock,
         Move, Goto, Forget, PCs, Critical, Optional
<1>4. /\ ChainIntact(log)' /\ Replayable(log, Len(log))'
      /\ ProjectionIsReplay' /\ ManifestsHeld'
  BY <1>1 DEF IInv, disk, ProjectionIsReplay, ManifestsHeld
<1>5. \A q \in Writers :
        pc'[q] \in {"decode", "peekDecode", "aside", "append", "project",
                    "repair"} =>
          pc'[q] = pc[q] /\ seen'[q] = seen[q] /\ req'[q] = req[q]
  BY DEF IInv, TypeOK, local, Call, Acquire, Retry, GiveUp, DecodePeek,
         RefuseEvent, Release, Crash, Restart, ClearStaleLock, Move, Goto,
         Forget
<1>6. ReadsArePrefixes' /\ LockedReadIsFresh'
  BY <1>1, <1>5 DEF IInv, disk, ReadsArePrefixes, LockedReadIsFresh
<1>7. WriterIsCurrent'
  BY <1>1, <1>5 DEF IInv, disk, WriterIsCurrent, Current
<1>8. CopyPrecedesEvent'
  BY <1>1, <1>5 DEF IInv, disk, CopyPrecedesEvent
<1>. QED BY <1>2, <1>3, <1>4, <1>6, <1>7, <1>8 DEF IInv

\* Two processes are never both between the lock and its release.
LEMMA AloneInside ==
  ASSUME IInv, NEW p \in Writers, NEW q \in Writers,
         pc[p] \in Critical, pc[q] \in Critical
  PROVE  p = q
BY DEF IInv, LockDiscipline

\* The session a process can read is a well-formed one.
LEMMA CurrentType ==
  ASSUME IInv
  PROVE  /\ Current \in Session
         /\ Current.eventCount = Len(log)
<1>1. log \in Seq(Event)
  BY DEF IInv, TypeOK
<1>2. CASE log = <<>>
  BY <1>2, CreatedFacts DEF Current
<1>3. CASE log # <<>>
  <2>1. Len(log) \in 0..Len(log)
    BY <1>1
  <2>2. Project(log, Len(log)) \in Session
    BY <1>1, <2>1, ProjectType
  <2>. QED BY <1>3, <2>2 DEF Current, Project
<1>. QED BY <1>2, <1>3

LEMMA CurrentStatus ==
  ASSUME IInv
  PROVE  Current.status = Status(log, Len(log))
<1>1. CASE log = <<>>
  BY <1>1 DEF Current, CreatedSession, Status, LastWritten
<1>2. CASE log # <<>>
  BY <1>2 DEF Current, Project
<1>. QED BY <1>1, <1>2

\* The event a process is about to append contradicts no registered manifest.
LEMMA ManifestAgrees ==
  ASSUME IInv, NEW p \in Writers, pc[p] = "append", NEW i \in DOMAIN log,
         log[i].payload.manifestRef # None,
         req[p].input.payload.manifestRef # None,
         log[i].payload.manifestRef.runId
           = req[p].input.payload.manifestRef.runId
  PROVE  log[i].payload.manifestRef.sha256
           = req[p].input.payload.manifestRef.sha256
<1>1. req[p].op = "manifest"
  <2>1. req[p] \in Requests \cup {CreateRequest}
    BY DEF IInv, TypeOK
  <2>. QED BY <2>1, RequestType
<1>. QED BY <1>1 DEF IInv, CopyPrecedesEvent, ManifestsHeld

LEMMA ReadProjectionStep ==
  ASSUME IInv, NEW p \in Writers, ReadProjection(p)
  PROVE  IInv'
<1> USE StoreAssumption DEF ReadProjection, Move, Goto
<1>1. UNCHANGED <<lock, disk>>
  OBVIOUS
<1>2. TypeOK /\ TypeOK'
  BY <1>1 DEF IInv, TypeOK, disk, PCs, Critical
<1>3. LockDiscipline'
  BY DEF IInv, TypeOK, LockDiscipline, PCs, Critical
<1>4. /\ ChainIntact(log)' /\ Replayable(log, Len(log))'
      /\ ProjectionIsReplay' /\ ManifestsHeld'
  BY <1>1 DEF IInv, disk, ProjectionIsReplay, ManifestsHeld
<1>5. ReadsArePrefixes'
  BY <1>1, <1>2 DEF IInv, disk, TypeOK, ReadsArePrefixes, ProjectionIsReplay
<1>6. LockedReadIsFresh'
  BY <1>1, <1>2 DEF IInv, disk, TypeOK, LockedReadIsFresh
<1>7. WriterIsCurrent' /\ CopyPrecedesEvent'
  BY <1>1, <1>2 DEF IInv, disk, TypeOK, WriterIsCurrent, CopyPrecedesEvent, Current
<1>. QED BY <1>2, <1>3, <1>4, <1>5, <1>6, <1>7 DEF IInv

\* A decode that does not throw yields the newest session.
LEMMA DecodeYieldsCurrent ==
  ASSUME IInv, NEW p \in Writers, pc[p] = "decode",
         DecodeAccepts(seen[p], log)
  PROVE  Decoded(seen[p], log) = Current
<1>1. /\ seen[p] = session
      /\ session = IF session.eventCount = 0 THEN CreatedSession
                   ELSE Project(log, session.eventCount)
      /\ session.eventCount <= Len(log)
      /\ log \in Seq(Event)
      /\ session \in Session
  BY DEF IInv, TypeOK, LockedReadIsFresh, ProjectionIsReplay
<1>2. CASE log = <<>>
  <2>1. session.eventCount = 0
    BY <1>1, <1>2 DEF Session
  <2>. QED BY <1>1, <1>2, <2>1 DEF Decoded, Current
<1>3. CASE log # <<>>
  <2>1. Len(log) # 0
    BY <1>1, <1>3
  <2>. QED BY <1>1, <1>3, <2>1 DEF Decoded, Current
<1>. QED BY <1>2, <1>3

LEMMA DecodeLockedStep ==
  ASSUME IInv, NEW p \in Writers, DecodeLocked(p)
  PROVE  IInv'
<1> USE StoreAssumption DEF DecodeLocked, Goto
<1>1. UNCHANGED <<lock, disk, req>>
  OBVIOUS
<1>2. /\ pc[p] = "decode" /\ lock = p
      /\ pc' = [pc EXCEPT ![p] = pc'[p]]
      /\ pc'[p] \in {"release", "repair", "append", "aside"}
  BY DEF IInv, TypeOK, LockDiscipline, Critical
<1>3. /\ seen' = [seen EXCEPT ![p] = seen'[p]]
      /\ pc'[p] # "release" => seen'[p] = Current
      /\ seen'[p] \in Session
  <2>1. CASE DecodeAccepts(seen[p], log)
    BY <2>1, DecodeYieldsCurrent, CurrentType DEF IInv, TypeOK
  <2>2. CASE ~DecodeAccepts(seen[p], log)
    BY <2>2 DEF IInv, TypeOK
  <2>. QED BY <2>1, <2>2
<1>4. TypeOK /\ TypeOK'
  <2>1. TypeOK
    BY DEF IInv
  <2>2. /\ pc' \in [Writers -> PCs]
        /\ seen' \in [Writers -> Session]
    <3>1. pc \in [Writers -> PCs] /\ seen \in [Writers -> Session]
      BY <2>1 DEF TypeOK
    <3>2. pc'[p] \in PCs
      BY <1>2 DEF PCs, Critical
    <3> HIDE DEF DecodeLocked, Goto
    <3>. QED BY <1>2, <1>3, <3>1, <3>2
  <2>3. UNCHANGED <<attempts, crashes>>
    OBVIOUS
  <2>. QED BY <1>1, <2>1, <2>2, <2>3 DEF TypeOK, disk
<1>5. LockDiscipline'
  BY <1>1, <1>2, <1>4 DEF IInv, TypeOK, LockDiscipline, Critical
<1>6. /\ ChainIntact(log)' /\ Replayable(log, Len(log))'
      /\ ProjectionIsReplay' /\ ManifestsHeld'
  BY <1>1 DEF IInv, disk, ProjectionIsReplay, ManifestsHeld
<1>7. ReadsArePrefixes' /\ LockedReadIsFresh'
  BY <1>1, <1>2, <1>3, <1>4
     DEF IInv, disk, TypeOK, ReadsArePrefixes, LockedReadIsFresh
<1>8. WriterIsCurrent'
  BY <1>1, <1>2, <1>3, <1>4 DEF IInv, disk, TypeOK, WriterIsCurrent, Current
<1>9. CopyPrecedesEvent'
  <2>1. pc'[p] = "append" => req[p].op # "manifest"
    BY <1>4, RequestType DEF TypeOK
  <2>. QED BY <1>1, <1>2, <1>4, <2>1 DEF IInv, disk, TypeOK, CopyPrecedesEvent
<1>. QED BY <1>4, <1>5, <1>6, <1>7, <1>8, <1>9 DEF IInv

\* session.json is replaced: by the loader's repair or after an append.
LEMMA PublishStep ==
  ASSUME IInv, NEW p \in Writers, Repair(p) \/ WriteProjection(p)
  PROVE  IInv' /\ session' = Current
<1> USE StoreAssumption DEF Repair, WriteProjection, Move, Goto, local
<1>1. /\ UNCHANGED <<lock, log, files, findings, copies, local, crashes>>
      /\ pc[p] \in {"repair", "project"}
      /\ pc' = [pc EXCEPT ![p] = "release"]
      /\ session' = seen[p]
      /\ seen[p] = Current
  BY DEF IInv, WriterIsCurrent
<1>2. TypeOK /\ TypeOK'
  BY <1>1 DEF IInv, TypeOK, PCs, Critical
<1>3. LockDiscipline'
  BY <1>1, <1>2 DEF IInv, TypeOK, LockDiscipline, Critical
<1>4. /\ ChainIntact(log)' /\ Replayable(log, Len(log))' /\ ManifestsHeld'
  BY <1>1 DEF IInv, ManifestsHeld
<1>5. ProjectionIsReplay'
  <2>1. session' = Current /\ session'.eventCount = Len(log)
    BY <1>1, CurrentType
  <2>2. log = <<>> => Len(log) = 0
    OBVIOUS
  <2>3. log # <<>> => Len(log) # 0
    BY <1>2 DEF TypeOK
  <2>. QED BY <1>1, <1>2, <2>1, <2>2, <2>3 DEF TypeOK, ProjectionIsReplay, Current
<1>6. ReadsArePrefixes'
  BY <1>1, <1>2 DEF IInv, TypeOK, ReadsArePrefixes
<1>7. LockedReadIsFresh'
  <2>1. \A q \in Writers : pc[q] # "decode"
    BY <1>1, AloneInside DEF Critical
  <2>. QED BY <1>1, <1>2, <2>1 DEF TypeOK, LockedReadIsFresh
<1>8. WriterIsCurrent' /\ CopyPrecedesEvent'
  BY <1>1, <1>2 DEF IInv, TypeOK, WriterIsCurrent, CopyPrecedesEvent, Current
<1>. QED BY <1>1, <1>2, <1>3, <1>4, <1>5, <1>6, <1>7, <1>8 DEF IInv

\* A file next to the session is written, or a manifest copied: a copy that is
\* there is never replaced by one with another digest.
LEMMA FileStep ==
  ASSUME IInv, NEW p \in Writers,
         WriteFile(p) \/ WriteFindingLine(p) \/ CopyManifest(p)
  PROVE  IInv'
<1> DEFINE ref == req[p].input.payload.manifestRef
<1>1. /\ UNCHANGED <<lock, session, log, req, seen, attempts, crashes>>
      /\ pc[p] = "aside"
      /\ pc' = [pc EXCEPT ![p] = pc'[p]]
      /\ pc'[p] \in {"append", "release"}
  BY DEF IInv, TypeOK, WriteFile, WriteFindingLine, CopyManifest, Move, Goto,
         local
<1>2. TypeOK
  BY DEF IInv
<1>3. /\ req[p].input.payload \in Payload
      /\ req[p].op = "finding" => req[p].input.payload.findingId \in FindingIds
      /\ req[p].op = "manifest" => ref \in ManifestRef
  BY <1>2, RequestType, Zenon DEF TypeOK
<1>4. /\ files' \in [FileOps -> Optional(Payload)]
      /\ findings' \in Seq(FindingIds)
  <2>1. CASE WriteFile(p)
    BY <1>2, <1>3, <2>1 DEF WriteFile, TypeOK, Optional
  <2>2. CASE WriteFindingLine(p)
    BY <1>2, <1>3, <2>2 DEF WriteFindingLine, TypeOK
  <2>3. CASE CopyManifest(p)
    BY <1>2, <2>3 DEF CopyManifest, TypeOK
  <2>. QED BY <2>1, <2>2, <2>3
<1>5. /\ copies' \in [RunIds -> Optional(Digests)]
      /\ \A r \in RunIds : copies[r] # None => copies'[r] = copies[r]
      /\ pc'[p] = "append" /\ req[p].op = "manifest" =>
           copies'[ref.runId] = ref.sha256
  <2>1. CASE CopyManifest(p)
    <3>1. ref.runId \in RunIds /\ ref.sha256 \in Digests
      BY <1>3, <2>1 DEF CopyManifest, ManifestRef
    <3> HIDE DEF ref
    <3>2. CASE copies[ref.runId] \in {None, ref.sha256}
      <4>1. copies' = [copies EXCEPT ![ref.runId] = ref.sha256]
        BY <2>1, <3>2 DEF CopyManifest, ref
      <4>. QED BY <1>2, <3>1, <3>2, <4>1 DEF TypeOK, Optional
    <3>3. CASE copies[ref.runId] \notin {None, ref.sha256}
      <4>1. copies' = copies /\ pc' = [pc EXCEPT ![p] = "release"]
        BY <2>1, <3>3 DEF CopyManifest, Goto, ref
      <4>. QED BY <1>2, <4>1 DEF TypeOK
    <3>. QED BY <3>2, <3>3
  <2>2. CASE WriteFile(p) \/ WriteFindingLine(p)
    <3>1. copies' = copies /\ req[p].op # "manifest"
      BY <2>2 DEF WriteFile, WriteFindingLine, FileOps
    <3>. QED BY <1>2, <3>1 DEF TypeOK
  <2>. QED BY <2>1, <2>2
<1>6. TypeOK'
  BY <1>1, <1>2, <1>4, <1>5 DEF TypeOK, PCs, Critical
<1>7. LockDiscipline'
  BY <1>1, <1>2 DEF IInv, TypeOK, LockDiscipline, Critical
<1>8. /\ ChainIntact(log)' /\ Replayable(log, Len(log))'
      /\ ProjectionIsReplay'
  BY <1>1 DEF IInv, ProjectionIsReplay
<1>9. ReadsArePrefixes' /\ LockedReadIsFresh' /\ WriterIsCurrent'
  BY <1>1, <1>2
     DEF IInv, TypeOK, ReadsArePrefixes, LockedReadIsFresh, WriterIsCurrent,
         Current
<1>10. CopyPrecedesEvent'
  <2>1. \A q \in Writers : q # p => pc[q] # "append"
    BY <1>1, AloneInside DEF Critical
  <2>. QED BY <1>1, <1>2, <1>5, <2>1 DEF TypeOK, CopyPrecedesEvent
<1>11. ManifestsHeld'
  <2>1. ASSUME NEW i \in DOMAIN log, log[i].payload.manifestRef # None
        PROVE  copies'[log[i].payload.manifestRef.runId] =
                 log[i].payload.manifestRef.sha256
    <3>1. log[i].payload.manifestRef \in ManifestRef
      <4>1. log[i] \in Event
        BY <1>2 DEF TypeOK
      <4>2. log[i].payload.manifestRef \in Optional(ManifestRef)
        BY <4>1 DEF Event, Payload
      <4>. QED BY <2>1, <4>2 DEF Optional
    <3>2. log[i].payload.manifestRef.sha256 # None
      BY <3>1, NoneAssumption DEF ManifestRef
    <3>. QED
      BY <1>5, <2>1, <3>1, <3>2 DEF IInv, ManifestsHeld, ManifestRef
  <2>. QED BY <1>1, <2>1 DEF ManifestsHeld
<1>. QED BY <1>7, <1>8, <1>9, <1>10, <1>11, <1>6 DEF IInv

\* The event goes to the end of the log: it continues the chain, moves the
\* lifecycle legally, contradicts no manifest, and what its writer computes
\* from it is what anyone who replays the log computes.
LEMMA AppendEventStep ==
  ASSUME IInv, NEW p \in Writers, AppendEvent(p)
  PROVE  IInv'
<1> DEFINE e == NewEvent(seen[p], req[p].input, p)
           n == Len(log)
           ref == e.payload.manifestRef
<1>1. TypeOK
  BY DEF IInv
<1>2. /\ pc[p] = "append"
      /\ seen[p] = Current
      /\ MayAppend(seen[p], req[p].input)
      /\ log' = Append(log, e)
      /\ UNCHANGED <<lock, session, files, findings, copies, req, attempts,
                     crashes>>
  BY DEF IInv, WriterIsCurrent, AppendEvent
<1>3. /\ n \in Nat /\ n \in 0..Len(log)
      /\ log \in Seq(Event)
      /\ log = <<>> <=> n = 0
      /\ n > 0 => log[n] \in Event
  BY <1>1 DEF TypeOK
<1>4. /\ req[p].input \in EventInput
      /\ req[p].input.payload.manifestRef # None =>
           /\ req[p].op = "manifest"
           /\ req[p].input.payload.manifestRef \in ManifestRef
  <2>1. req[p] \in Requests \cup {CreateRequest}
    BY <1>1 DEF TypeOK
  <2>2. req[p] \in Request
    BY <2>1, RequestType
  <2>3. req[p].input \in EventInput
    BY <2>2 DEF Request
  <2>. QED BY <2>1, <2>3, RequestType
<1>5. seen[p].eventCount = n
  BY <1>2, CurrentType
<1>6. seen[p].eventHeadDigest =
        IF n = 0 THEN ZeroDigest ELSE log[n].eventDigest
  BY <1>2, <1>3, CreatedFacts DEF Current, Project
<1>7. seen[p].status = Status(log, n)
  BY <1>2, CurrentStatus
<1>8. seen[p].runManifestRefs = Project(log, n).runManifestRefs
  <2>1. CASE n = 0
    BY <1>2, <1>3, <2>1
       DEF Current, CreatedSession, Project, Present
  <2>2. CASE n # 0
    BY <1>2, <1>3, <2>2 DEF Current
  <2>. QED BY <2>1, <2>2
<1>9. /\ e.sequence = n + 1
      /\ e.previousDigest = seen[p].eventHeadDigest
      /\ e.status = req[p].input.status
      /\ e.type = req[p].input.type
      /\ e.payload = req[p].input.payload
  BY <1>5 DEF NewEvent
<1>10. e \in Event
  <2>1. e.previousDigest \in Digest
    <3>1. CASE n = 0
      BY <1>6, <1>9, <3>1 DEF Digest
    <3>2. CASE n # 0
      BY <1>3, <1>6, <1>9, <3>2 DEF Event
    <3>. QED BY <3>1, <3>2
  <2>2. <<n + 1, p>> \in Digest /\ n + 1 \in Nat
    BY <1>3 DEF Digest
  <2>. QED BY <1>4, <1>5, <2>1, <2>2 DEF NewEvent, Event, EventInput
<1>11. /\ log' \in Seq(Event) /\ Len(log') = n + 1
       /\ log'[n + 1] = e
       /\ \A i \in 1..n : log'[i] = log[i]
       /\ DOMAIN log' = 1..(n + 1) /\ DOMAIN log = 1..n
  BY <1>2, <1>3, <1>10
<1>12. \A i \in 0..n : /\ Project(log', i) = Project(log, i)
                       /\ Status(log', i) = Status(log, i)
  BY <1>2, <1>3, <1>10, ProjectPrefix
<1>13. ref # None =>
         /\ ref \in ManifestRef
         /\ copies[ref.runId] = ref.sha256
  BY <1>2, <1>4, <1>9 DEF IInv, CopyPrecedesEvent
<1>14. ~ManifestConflict(Project(log, n).runManifestRefs, ref)
  <2>1. ASSUME NEW r \in Project(log, n).runManifestRefs, ref # None,
               r.runId = ref.runId
        PROVE  r.sha256 = ref.sha256
    <3>1. PICK i \in 1..n : /\ log[i].payload.manifestRef # None
                            /\ r = log[i].payload.manifestRef
      BY <1>3, <1>11, <2>1 DEF Project, Present
    <3>. QED BY <1>2, <1>9, <1>11, <2>1, <3>1, ManifestAgrees
  <2>. QED BY <2>1 DEF ManifestConflict
<1>15. /\ ~ManifestConflict(seen[p].runManifestRefs, ref)
       /\ pc' = [pc EXCEPT ![p] = "project"]
       /\ seen' = [seen EXCEPT ![p] = Apply(seen[p], e)]
  BY <1>8, <1>14 DEF AppendEvent, Goto
<1>16. Apply(seen[p], e) = Current'
  <2>1. Current' = Project(log', n + 1)
    BY <1>3, <1>11 DEF Current
  <2>2. Project(log', n + 1) = Apply(Project(log, n), e)
    BY <1>2, <1>3, <1>9, <1>10, ProjectAppend
  <2>3. Apply(seen[p], e) = Apply(Project(log, n), e)
    <3>1. CASE n = 0
      BY <1>2, <1>3, <1>10, <3>1, CreatedFacts DEF Current
    <3>2. CASE n # 0
      BY <1>2, <1>3, <3>2 DEF Current
    <3>. QED BY <3>1, <3>2
  <2>. QED BY <2>1, <2>2, <2>3
<1>17. Current' \in Session
  <2>1. n + 1 \in 0..Len(log')
    BY <1>3, <1>11
  <2>. QED BY <1>3, <1>11, <2>1, ProjectType DEF Current
<1> HIDE DEF e, n, ref
<1>18. TypeOK'
  BY <1>1, <1>2, <1>11, <1>15, <1>16, <1>17 DEF TypeOK, PCs, Critical
<1>19. LockDiscipline'
  BY <1>1, <1>2, <1>15 DEF IInv, TypeOK, LockDiscipline, Critical
<1>20. ChainIntact(log)'
  <2>1. ASSUME NEW i \in 1..n
        PROVE  /\ log'[i].sequence = i
               /\ log'[i].previousDigest =
                    IF i = 1 THEN ZeroDigest ELSE log'[i - 1].eventDigest
               /\ TypeMatchesStatus(log'[i])
    <3>1. i # 1 => i - 1 \in 1..n
      BY <1>3
    <3>. QED BY <1>11, <3>1 DEF IInv, ChainIntact
  <2>2. /\ log'[n + 1].sequence = n + 1
        /\ log'[n + 1].previousDigest =
             IF n + 1 = 1 THEN ZeroDigest ELSE log'[n + 1 - 1].eventDigest
    <3>1. n # 0 => n \in 1..n
      BY <1>3
    <3>2. n + 1 - 1 = n /\ (n + 1 = 1 <=> n = 0)
      BY <1>3
    <3>. QED BY <1>6, <1>9, <1>11, <3>1, <3>2
  <2>3. TypeMatchesStatus(log'[n + 1])
    BY <1>2, <1>9, <1>11 DEF MayAppend, TypeMatchesStatus
  <2>4. \A i \in DOMAIN log' : i \in 1..n \/ i = n + 1
    BY <1>3, <1>11
  <2>5. ASSUME NEW i \in DOMAIN log'
        PROVE  /\ log'[i].sequence = i
               /\ log'[i].previousDigest =
                    IF i = 1 THEN ZeroDigest ELSE log'[i - 1].eventDigest
               /\ TypeMatchesStatus(log'[i])
    <3>1. CASE i \in 1..n
      BY <2>1, <3>1
    <3>2. CASE i = n + 1
      <4>1. /\ log'[i].sequence = i
            /\ log'[i].previousDigest =
                 IF i = 1 THEN ZeroDigest ELSE log'[i - 1].eventDigest
        BY <1>3, <2>2, <3>2
      <4>2. TypeMatchesStatus(log'[i])
        BY <2>3, <3>2
      <4>. QED BY <4>1, <4>2
    <3>. QED BY <2>4, <3>1, <3>2
  <2>. QED BY <2>5 DEF ChainIntact
<1>21. Replayable(log, Len(log))'
  <2>1. ASSUME NEW i \in 1..n
        PROVE  /\ log'[i].status # None =>
                    TransitionAllowed(Status(log', i - 1), log'[i].status)
               /\ ~ManifestConflict(Project(log', i - 1).runManifestRefs,
                                    log'[i].payload.manifestRef)
    <3>1. i - 1 \in 0..n
      BY <1>3
    <3>2. Replayable(log, n)
      BY DEF IInv, n
    <3>. QED BY <1>11, <1>12, <3>1, <3>2 DEF Replayable
  <2>2. /\ e.status # None => TransitionAllowed(Status(log', n), e.status)
        /\ ~ManifestConflict(Project(log', n).runManifestRefs, ref)
    BY <1>2, <1>3, <1>7, <1>9, <1>12, <1>14 DEF MayAppend, n
  <2>3. \A i \in 1..(n + 1) : i \in 1..n \/ (i = n + 1 /\ i - 1 = n)
    BY <1>3
  <2>. QED BY <1>11, <2>1, <2>2, <2>3 DEF Replayable, ref
<1>22. ProjectionIsReplay'
  <2>1. session.eventCount \in 0..n /\ session.eventCount <= n + 1
    BY <1>1, <1>3 DEF IInv, TypeOK, Session, ProjectionIsReplay, n
  <2>. QED BY <1>2, <1>11, <1>12, <2>1 DEF IInv, ProjectionIsReplay
<1>23. ReadsArePrefixes'
  <2>1. ASSUME NEW q \in Writers, pc'[q] \in {"decode", "peekDecode"}
        PROVE  /\ seen'[q].eventCount <= Len(log')
               /\ seen'[q].eventCount > 0 =>
                    seen'[q] = Project(log', seen'[q].eventCount)
    <3>1. q # p /\ pc[q] \in {"decode", "peekDecode"} /\ seen'[q] = seen[q]
      BY <1>1, <1>15, <2>1 DEF TypeOK
    <3>2. seen[q].eventCount \in 0..n /\ seen[q].eventCount <= n + 1
      BY <1>1, <1>3, <3>1 DEF IInv, TypeOK, Session, ReadsArePrefixes, n
    <3>. QED BY <1>11, <1>12, <3>1, <3>2 DEF IInv, ReadsArePrefixes
  <2>. QED BY <2>1 DEF ReadsArePrefixes
<1>24. \A q \in Writers : q # p => pc[q] \notin Critical
  BY <1>2, AloneInside DEF Critical
<1>25. LockedReadIsFresh' /\ CopyPrecedesEvent'
  BY <1>1, <1>2, <1>15, <1>24
     DEF IInv, TypeOK, LockedReadIsFresh, CopyPrecedesEvent, Critical
<1>26. WriterIsCurrent'
  BY <1>1, <1>2, <1>15, <1>16, <1>24 DEF TypeOK, WriterIsCurrent, Critical
<1>27. ManifestsHeld'
  <2>1. ASSUME NEW i \in 1..n
        PROVE  log'[i].payload.manifestRef # None =>
                 copies[log'[i].payload.manifestRef.runId] =
                   log'[i].payload.manifestRef.sha256
    BY <1>11, <2>1 DEF IInv, ManifestsHeld
  <2>2. \A i \in DOMAIN log' : i \in 1..n \/ i = n + 1
    BY <1>3, <1>11
  <2>. QED BY <1>2, <1>11, <1>13, <2>1, <2>2 DEF ManifestsHeld, ref
<1>. QED BY <1>18, <1>19, <1>20, <1>21, <1>22, <1>23, <1>25, <1>26, <1>27 DEF IInv

-----------------------------------------------------------------------------
LEMMA StepInv == IInv /\ [Next]_vars => IInv'
<1> SUFFICES ASSUME IInv, [Next]_vars PROVE IInv'
  OBVIOUS
<1>1. CASE UNCHANGED vars
  BY <1>1 DEF IInv, vars, disk, local, TypeOK, LockDiscipline,
              ProjectionIsReplay, ReadsArePrefixes, LockedReadIsFresh,
              WriterIsCurrent, Current, CopyPrecedesEvent, ManifestsHeld
<1>2. ASSUME NEW p \in Writers,
             Call(p) \/ Work(p) \/ Crash(p) \/ Restart(p) \/ ClearStaleLock(p)
      PROVE  IInv'
  BY <1>2, QuietStep, ReadProjectionStep, DecodeLockedStep, PublishStep,
     FileStep, AppendEventStep DEF Work
<1>. QED BY <1>1, <1>2 DEF Next

\* Every reachable state satisfies the inductive invariant.
THEOREM StoreInvariant == Spec => []IInv
BY InitInv, StepInv, PTL DEF Spec

\* withSessionLock: at most one process is inside, and the lock is never lost
\* by a process that lives.
THEOREM LockIsExclusive ==
  Spec => [](LockDiscipline /\ \A p, q \in Writers :
                                 pc[p] \in Critical /\ pc[q] \in Critical
                                   => p = q)
<1>1. IInv => LockDiscipline /\ \A p, q \in Writers :
                                  pc[p] \in Critical /\ pc[q] \in Critical
                                    => p = q
  BY AloneInside DEF IInv
<1>. QED BY <1>1, StoreInvariant, PTL

\* session.json is the replay of the events it counts, in every state, crashes
\* included.
THEOREM ProjectionFollowsLog == Spec => []ProjectionIsReplay
<1>1. IInv => ProjectionIsReplay
  BY DEF IInv
<1>. QED BY <1>1, StoreInvariant, PTL

\* No writer works on an old session: no update is lost.
THEOREM NoLostUpdate == Spec => []WriterIsCurrent
<1>1. IInv => WriterIsCurrent
  BY DEF IInv
<1>. QED BY <1>1, StoreInvariant, PTL

\* Registered manifests stay where the log says they are.
THEOREM ManifestsStay == Spec => []ManifestsHeld
<1>1. IInv => ManifestsHeld
  BY DEF IInv
<1>. QED BY <1>1, StoreInvariant, PTL

\* decodeSessionProjection accepts what any process has read, the reader
\* without the lock included, once the session has its first event.
THEOREM ReadsAccepted == Spec => []NothingRejected
<1>1. ASSUME IInv PROVE NothingRejected
  <2>1. ASSUME NEW p \in Writers, pc[p] \in {"decode", "peekDecode"},
               seen[p].eventCount # 0
        PROVE  DecodeAccepts(seen[p], log)
    <3> DEFINE n == Len(log)
               c == seen[p].eventCount
    <3>1. /\ log \in Seq(Event) /\ n \in Nat
          /\ seen[p] \in Session /\ c \in Nat
      BY <1>1 DEF IInv, TypeOK, Session
    <3>2. c <= n /\ seen[p] = Project(log, c)
      BY <1>1, <2>1, <3>1 DEF IInv, ReadsArePrefixes
    <3>3. n = c => seen[p].eventHeadDigest = log[n].eventDigest
      BY <2>1, <3>2 DEF Project
    <3>. QED BY <1>1, <3>1, <3>2, <3>3 DEF IInv, DecodeAccepts
  <2>. QED BY <2>1 DEF NothingRejected
<1>. QED BY <1>1, StoreInvariant, PTL

-----------------------------------------------------------------------------
(* The files beside the log. *)

\* Events are announcements of a file exactly when the call that appends them
\* wrote that file, and nothing stops such a call between the two.
LEMMA AnnouncementFacts ==
  ASSUME NEW r \in Requests \cup {CreateRequest}, NEW f \in FileOps
  PROVE  /\ r.input \in Announcements(f) <=> r.op = f
         /\ r.op = f => \A s : MayAppend(s, r.input)
<1>1. CreateRequest.op \notin FileOps
  BY DEF CreateRequest, FileOps
<1>2. CreateRequest.input \notin Announcements(f)
  <2>1. \A q \in Requests : q.op = f => q.input.type = FileEvent(f)
    BY StoreAssumption
  <2>2. CreateRequest.input.type # FileEvent(f)
    BY DEF CreateRequest, FileEvent
  <2>. QED BY <2>1, <2>2 DEF Announcements
<1>3. r \in Requests => (r.input \in Announcements(f) <=> r.op = f)
  BY StoreAssumption DEF Announcements
<1>4. r \in Requests /\ r.op = f => \A s : MayAppend(s, r.input)
  <2>1. r \in Requests /\ r.op = f =>
          r.input.type = FileEvent(f) /\ r.input.status = None
    BY StoreAssumption
  <2>2. ExpectedEventStatus(FileEvent(f)) = None
    BY DEF FileEvent, ExpectedEventStatus
  <2>. QED BY <2>1, <2>2 DEF MayAppend, TypeMatchesStatus
<1>. QED BY <1>1, <1>2, <1>3, <1>4

\* One more event is either the new announcement or changes none.
LEMMA AnnouncedNext ==
  ASSUME TypeOK, NEW e \in Event, NEW f \in FileOps, log' = Append(log, e)
  PROVE  Announced(f)' = IF InputOf(e) \in Announcements(f) THEN e.payload
                         ELSE Announced(f)
<1> DEFINE n == Len(log)
           vals == [i \in DOMAIN log |->
                      IF InputOf(log[i]) \in Announcements(f)
                        THEN log[i].payload ELSE None]
           vals1 == [i \in DOMAIN log' |->
                       IF InputOf(log'[i]) \in Announcements(f)
                         THEN log'[i].payload ELSE None]
<1>1. /\ n \in Nat /\ Len(log') = n + 1
      /\ DOMAIN log = 1..n /\ DOMAIN log' = 1..(n + 1)
      /\ log'[n + 1] = e
      /\ \A i \in 1..n : log'[i] = log[i]
  BY DEF TypeOK
<1>2. \A i \in 1..n : vals1[i] = vals[i]
  BY <1>1
<1>3. vals1[n + 1] = IF InputOf(e) \in Announcements(f) THEN e.payload ELSE None
  BY <1>1
<1>4. e.payload # None
  BY StoreAssumption DEF Event
<1>5. Announced(f) = LastWritten(vals, n, None)
  BY DEF Announced
<1>6. Announced(f)' = LastWritten(vals1, n + 1, None)
  BY <1>1 DEF Announced
<1> HIDE DEF vals, vals1, n
<1>7. LastWritten(vals1, n, None) = LastWritten(vals, n, None)
  BY <1>1, <1>2, LastWrittenAgree
<1>8. LastWritten(vals1, n + 1, None) =
        IF vals1[n + 1] # None THEN vals1[n + 1] ELSE LastWritten(vals1, n, None)
  BY <1>1, LastWrittenNext
<1>. QED BY <1>3, <1>4, <1>5, <1>6, <1>7, <1>8

\* The steps that write neither a file nor an event: whoever is about to
\* announce something stays there, and a process that arrives there came with
\* nothing to announce.
LEMMA FilesQuietStep ==
  ASSUME IInv, FilesInv, NEW p \in Writers,
         \/ Call(p) \/ Acquire(p) \/ Retry(p) \/ GiveUp(p) \/ ReadProjection(p)
         \/ DecodeLocked(p) \/ DecodePeek(p) \/ Repair(p) \/ RefuseEvent(p)
         \/ WriteProjection(p) \/ Release(p) \/ Crash(p) \/ Restart(p)
         \/ ClearStaleLock(p)
  PROVE  FilesInv'
<1>1. UNCHANGED <<log, files, findings>>
  BY DEF Call, Acquire, Retry, GiveUp, ReadProjection, DecodeLocked, DecodePeek,
         Repair, RefuseEvent, WriteProjection, Release, Crash, Restart,
         ClearStaleLock, disk
<1>2. /\ \A q \in Writers : q # p => pc'[q] = pc[q] /\ req'[q] = req[q]
      /\ pc'[p] = "append" =>
           \/ pc[p] = "append" /\ req'[p] = req[p]
           \/ pc[p] = "decode" /\ req'[p] = req[p] /\ req[p].op = "append"
      /\ pc[p] = "append" =>
           \/ pc'[p] = "append" /\ req'[p] = req[p]
           \/ RefuseEvent(p) \/ Crash(p)
  BY DEF IInv, TypeOK, local, Call, Acquire, Retry, GiveUp, ReadProjection,
         DecodeLocked, DecodePeek, Repair, RefuseEvent, WriteProjection, Release,
         Crash, Restart, ClearStaleLock, Move, Goto, Forget
<1>3. WrittenBeforeAnnounced'
  BY <1>1, <1>2 DEF FilesInv, WrittenBeforeAnnounced, FileOps
<1>4. FindingsFiled'
  BY <1>1 DEF FilesInv, FilesAnnounced, FindingsFiled
<1>5. ASSUME crashes' = 0, NEW f \in FileOps, files'[f] # Announced(f)'
      PROVE  \E q \in Writers : pc'[q] = "append" /\ req'[q].op = f
  <2>1. crashes = 0 /\ ~Crash(p)
    BY <1>5 DEF IInv, TypeOK, Call, Acquire, Retry, GiveUp, ReadProjection,
           DecodeLocked, DecodePeek, Repair, RefuseEvent, WriteProjection,
           Release, Crash, Restart, ClearStaleLock
  <2>2. files[f] # Announced(f)
    BY <1>1, <1>5 DEF Announced
  <2>3. PICK q \in Writers : pc[q] = "append" /\ req[q].op = f
    BY <2>1, <2>2 DEF FilesInv, FilesAnnounced
  <2>4. ~RefuseEvent(q)
    <3>1. req[q] \in Requests \cup {CreateRequest}
      BY DEF IInv, TypeOK
    <3>. QED BY <2>3, <3>1, AnnouncementFacts DEF RefuseEvent
  <2>. QED BY <1>2, <2>1, <2>3, <2>4
<1>. QED BY <1>3, <1>4, <1>5 DEF FilesInv, FilesAnnounced

\* A file or a line is written by a process that is alone in the middle of a
\* call and goes on to announce it.
LEMMA FilesWriteStep ==
  ASSUME IInv, FilesInv, NEW p \in Writers,
         WriteFile(p) \/ WriteFindingLine(p) \/ CopyManifest(p)
  PROVE  FilesInv'
<1>1. TypeOK
  BY DEF IInv
<1>2. /\ UNCHANGED <<log, req, crashes>>
      /\ pc[p] = "aside"
      /\ \A q \in Writers : q # p => pc'[q] = pc[q] /\ pc[q] # "append"
  <2>1. \A q \in Writers : q # p => pc[q] # "append"
    BY AloneInside DEF WriteFile, WriteFindingLine, CopyManifest, Move, Critical
  <2>. QED BY <1>1, <2>1 DEF TypeOK, WriteFile, WriteFindingLine, CopyManifest,
              Move, Goto, local
<1>3. \A f \in FileOps : crashes = 0 => files[f] = Announced(f)
  BY <1>2 DEF FilesInv, FilesAnnounced
<1>4. \A f \in FileOps : Announced(f)' = Announced(f)
  BY <1>2 DEF Announced
<1>5. CASE WriteFile(p)
  <2>1. /\ req[p].op \in FileOps
        /\ files' = [files EXCEPT ![req[p].op] = req[p].input.payload]
        /\ findings' = findings
        /\ pc'[p] = "append"
    BY <1>1, <1>5 DEF TypeOK, WriteFile, Move, Goto
  <2>2. files'[req[p].op] = req[p].input.payload
    BY <1>1, <2>1 DEF TypeOK
  <2>3. \A f \in FileOps : f # req[p].op => files'[f] = files[f]
    BY <1>1, <2>1 DEF TypeOK
  <2>4. WrittenBeforeAnnounced'
    BY <1>2, <2>1, <2>2 DEF WrittenBeforeAnnounced, FileOps
  <2>5. FindingsFiled'
    BY <1>2, <2>1 DEF FilesInv, FilesAnnounced, FindingsFiled
  <2>. QED BY <1>2, <1>3, <1>4, <2>1, <2>3, <2>4, <2>5
           DEF FilesInv, FilesAnnounced
<1>6. CASE WriteFindingLine(p)
  <2> DEFINE id == req[p].input.payload.findingId
  <2>1. /\ req[p].op = "finding"
        /\ findings' = Append(findings, id)
        /\ files' = files
        /\ findings \in Seq(FindingIds)
    BY <1>1, <1>6 DEF TypeOK, WriteFindingLine
  <2>2. /\ \A j \in DOMAIN findings :
             j \in DOMAIN findings' /\ findings'[j] = findings[j]
        /\ \E j \in DOMAIN findings' : findings'[j] = id
    <3>1. /\ Len(findings) \in Nat /\ Len(findings') = Len(findings) + 1
          /\ DOMAIN findings' = 1..(Len(findings) + 1)
          /\ findings'[Len(findings) + 1] = id
      BY <2>1
    <3>2. Len(findings) + 1 \in DOMAIN findings'
      BY <3>1
    <3>3. \A j \in DOMAIN findings :
            j \in DOMAIN findings' /\ findings'[j] = findings[j]
      BY <2>1
    <3>. QED BY <3>1, <3>2, <3>3
  <2> HIDE DEF id
  <2>3. WrittenBeforeAnnounced'
    BY <1>2, <2>1, <2>2 DEF WrittenBeforeAnnounced, FileOps, id
  <2>4. FindingsFiled'
    <3>1. ASSUME NEW i \in DOMAIN log, log[i].payload.findingId # None
          PROVE  \E j \in DOMAIN findings' : findings'[j] = log[i].payload.findingId
      <4>1. PICK j \in DOMAIN findings : findings[j] = log[i].payload.findingId
        BY <3>1 DEF FilesInv, FilesAnnounced, FindingsFiled
      <4>. QED BY <2>2, <4>1
    <3>. QED BY <1>2, <3>1 DEF FindingsFiled
  <2>. QED BY <1>2, <1>3, <1>4, <2>1, <2>3, <2>4 DEF FilesInv, FilesAnnounced
<1>7. CASE CopyManifest(p)
  <2>1. req[p].op = "manifest" /\ UNCHANGED <<files, findings>>
    BY <1>7 DEF CopyManifest
  <2>2. WrittenBeforeAnnounced'
    BY <1>2, <2>1 DEF WrittenBeforeAnnounced, FileOps
  <2>3. FindingsFiled'
    BY <1>2, <2>1 DEF FilesInv, FilesAnnounced, FindingsFiled
  <2>. QED BY <1>2, <1>3, <1>4, <2>1, <2>2, <2>3 DEF FilesInv, FilesAnnounced
<1>. QED BY <1>5, <1>6, <1>7

\* The event announces what its writer has written, and nothing else.
LEMMA FilesAppendStep ==
  ASSUME IInv, FilesInv, NEW p \in Writers, AppendEvent(p)
  PROVE  FilesInv'
<1> DEFINE e == NewEvent(seen[p], req[p].input, p)
<1>1. TypeOK /\ TypeOK'
  BY AppendEventStep DEF IInv
<1>2. /\ pc[p] = "append"
      /\ log' = Append(log, e)
      /\ UNCHANGED <<files, findings, req, crashes>>
      /\ pc'[p] \in {"release", "project"}
      /\ \A q \in Writers : q # p => pc'[q] = pc[q] /\ pc[q] # "append"
  <2>1. pc[p] = "append"
    BY DEF AppendEvent
  <2>2. \A q \in Writers : q # p => pc[q] # "append"
    BY <2>1, AloneInside DEF Critical
  <2>. QED BY <1>1, <2>1, <2>2 DEF TypeOK, AppendEvent, Goto
<1>3. /\ req[p] \in Requests \cup {CreateRequest}
      /\ req[p].input \in EventInput
  <2>1. req[p] \in Requests \cup {CreateRequest}
    BY <1>1 DEF TypeOK
  <2>2. req[p] \in Request
    BY <2>1, RequestType
  <2>. QED BY <2>1, <2>2 DEF Request
<1>4. InputOf(e) = req[p].input /\ e.payload = req[p].input.payload
  BY <1>3 DEF InputOf, NewEvent, EventInput
<1>5. e \in Event
  <2>1. /\ log \in Seq(Event) /\ log' \in Seq(Event)
    BY <1>1 DEF TypeOK
  <2>2. Len(log') = Len(log) + 1 /\ log'[Len(log) + 1] = e
    BY <1>2, <2>1
  <2>3. Len(log) + 1 \in DOMAIN log'
    BY <2>1, <2>2
  <2> HIDE DEF e
  <2>. QED BY <2>1, <2>2, <2>3
<1> HIDE DEF e
<1>6. WrittenBeforeAnnounced'
  BY <1>2 DEF WrittenBeforeAnnounced
<1>7. FindingsFiled'
  <2>1. e.payload.findingId # None =>
          \E j \in DOMAIN findings : findings[j] = e.payload.findingId
    <3>1. e.payload.findingId # None => req[p].op = "finding"
      BY <1>3, <1>4, RequestType
    <3>. QED BY <1>2, <1>4, <3>1 DEF FilesInv, WrittenBeforeAnnounced
  <2>2. \A i \in DOMAIN log' :
          log'[i] = e \/ (i \in DOMAIN log /\ log'[i] = log[i])
    BY <1>1, <1>2, <1>5 DEF TypeOK
  <2>. QED BY <1>2, <2>1, <2>2 DEF FilesInv, FilesAnnounced, FindingsFiled
<1>8. ASSUME crashes' = 0, NEW f \in FileOps
      PROVE  files'[f] = Announced(f)'
  <2>1. Announced(f)' = IF req[p].op = f THEN req[p].input.payload
                        ELSE Announced(f)
    BY <1>1, <1>2, <1>3, <1>4, <1>5, AnnouncedNext, AnnouncementFacts
  <2>2. CASE req[p].op = f
    BY <1>2, <2>1, <2>2 DEF FilesInv, WrittenBeforeAnnounced
  <2>3. CASE req[p].op # f
    BY <1>2, <1>8, <2>1, <2>3 DEF FilesInv, FilesAnnounced
  <2>. QED BY <2>2, <2>3
<1>. QED BY <1>6, <1>7, <1>8 DEF FilesInv, FilesAnnounced

\* checkpoint.json, the capability snapshot and findings.jsonl are what the log
\* says of them: only a crash between a file and its event can part them.
THEOREM FilesFollowLog == Spec => []FilesAnnounced
<1>1. Init => FilesInv
  <2> SUFFICES ASSUME Init PROVE FilesInv
    OBVIOUS
  <2>1. Announced("checkpoint") = None /\ Announced("capability") = None
    BY DEF Init, Announced, LastWritten
  <2>2. \A f \in FileOps : files[f] = Announced(f)
    BY <2>1 DEF Init, FileOps
  <2>. QED BY <2>2 DEF Init, FilesInv, FilesAnnounced, FindingsFiled,
              WrittenBeforeAnnounced
<1>2. IInv /\ FilesInv /\ [Next]_vars => FilesInv'
  <2> SUFFICES ASSUME IInv, FilesInv, [Next]_vars PROVE FilesInv'
    OBVIOUS
  <2>1. CASE UNCHANGED vars
    BY <2>1 DEF vars, disk, local, FilesInv, FilesAnnounced, FindingsFiled,
                WrittenBeforeAnnounced, Announced
  <2>2. ASSUME NEW p \in Writers,
               Call(p) \/ Work(p) \/ Crash(p) \/ Restart(p) \/ ClearStaleLock(p)
        PROVE  FilesInv'
    BY <2>2, FilesQuietStep, FilesWriteStep, FilesAppendStep DEF Work
  <2>. QED BY <2>1, <2>2 DEF Next
<1>3. FilesInv => FilesAnnounced
  BY DEF FilesInv
<1>. QED BY <1>1, <1>2, <1>3, StoreInvariant, PTL DEF Spec

-----------------------------------------------------------------------------
(* The store implements the ledger. *)

\* The part of a log the ledger sees.
LEMMA LedgerOfFacts ==
  ASSUME NEW l \in Seq(Event)
  PROVE  /\ LedgerOf(l) \in Seq(EventInput)
         /\ Len(LedgerOf(l)) = Len(l)
         /\ DOMAIN LedgerOf(l) = DOMAIN l
         /\ \A i \in DOMAIN l : /\ LedgerOf(l)[i].status = l[i].status
                                /\ LedgerOf(l)[i].payload = l[i].payload
<1>1. ASSUME NEW i \in 1..Len(l)
      PROVE  InputOf(l[i]) \in EventInput
  <2>1. l[i] \in Event
    OBVIOUS
  <2>. QED BY <2>1 DEF InputOf, Event, EventInput
<1>2. LedgerOf(l) \in [1..Len(l) -> EventInput] /\ Len(l) \in Nat
  BY <1>1 DEF LedgerOf
<1>3. LedgerOf(l) \in Seq(EventInput) /\ Len(LedgerOf(l)) = Len(l)
  BY <1>2
<1>. QED BY <1>3 DEF LedgerOf, InputOf

LEMMA LedgerOfAppend ==
  ASSUME NEW l \in Seq(Event), NEW e \in Event
  PROVE  LedgerOf(Append(l, e)) = Append(LedgerOf(l), InputOf(e))
<1> DEFINE in == InputOf(e)
<1>1. /\ DOMAIN LedgerOf(Append(l, e)) = 1..(Len(l) + 1)
      /\ \A i \in 1..Len(l) : LedgerOf(Append(l, e))[i] = LedgerOf(l)[i]
      /\ LedgerOf(Append(l, e))[Len(l) + 1] = in
  BY DEF LedgerOf
<1>2. LedgerOf(l) \in Seq(EventInput) /\ in \in EventInput
  BY LedgerOfFacts DEF InputOf, Event, EventInput
<1>3. LedgerOf(Append(l, e)) \in Seq(EventInput)
  <2>1. Append(l, e) \in Seq(Event)
    OBVIOUS
  <2>. QED BY <2>1, LedgerOfFacts
<1>4. Len(LedgerOf(l)) = Len(l)
  BY LedgerOfFacts
<1> HIDE DEF in
<1>. QED BY <1>1, <1>2, <1>3, <1>4 DEF in

\* Appending is accepting: the checks the writer makes on the session it has
\* read are the ledger's checks on all the events.
LEMMA AppendAccepts ==
  ASSUME IInv, NEW p \in Writers, AppendEvent(p)
  PROVE  Ledger!Accept(req[p].input)
<1> DEFINE in == req[p].input
           n == Len(log)
<1>1. /\ log \in Seq(Event)
      /\ pc[p] = "append"
      /\ seen[p] = Current
      /\ MayAppend(Current, in)
      /\ session' = session
      /\ log' = Append(log, NewEvent(seen[p], in, p))
  BY DEF IInv, TypeOK, WriterIsCurrent, AppendEvent
<1>2. Ledger!TypeMatchesStatus(in)
  BY <1>1 DEF MayAppend, TypeMatchesStatus, Ledger!TypeMatchesStatus,
              ExpectedEventStatus, Ledger!ExpectedEventStatus
<1>3. Ledger!StatusAfter(Len(LedgerOf(log))) = Status(log, n)
  <2>1. [i \in DOMAIN LedgerOf(log) |-> LedgerOf(log)[i].status]
          = [i \in DOMAIN log |-> log[i].status]
    BY <1>1, LedgerOfFacts
  <2>2. Len(LedgerOf(log)) = n
    BY <1>1, LedgerOfFacts
  <2> DEFINE v == [i \in DOMAIN log |-> log[i].status]
  <2>3. Ledger!StatusAfter(Len(LedgerOf(log))) = Ledger!LastWritten(v, n, "draft")
    BY <2>1, <2>2 DEF Ledger!StatusAfter
  <2>4. Status(log, n) = LastWritten(v, n, "draft")
    BY DEF Status
  <2> HIDE DEF v
  <2>5. Ledger!LastWritten(v, n, "draft") = LastWritten(v, n, "draft")
    BY Zenon DEF Ledger!LastWritten, LastWritten
  <2>. QED BY <2>3, <2>4, <2>5
<1>4. in.status # None =>
        Ledger!TransitionAllowed(Ledger!StatusAfter(Len(LedgerOf(log))),
                                 in.status)
  BY <1>1, <1>3, CurrentStatus
     DEF MayAppend, TransitionAllowed, Ledger!TransitionAllowed
<1>5. \A i \in DOMAIN LedgerOf(log) :
        ~Ledger!ManifestConflict({LedgerOf(log)[i].payload.manifestRef}
                                   \ {None},
                                 in.payload.manifestRef)
  BY SMTT(20), <1>1, LedgerOfFacts, ManifestAgrees DEF Ledger!ManifestConflict
<1>6. LedgerOf(log') = Append(LedgerOf(log), in)
  <2> DEFINE e == NewEvent(seen[p], in, p)
  <2>1. IInv'
    BY AppendEventStep
  <2>2. log' \in Seq(Event) /\ log'[n + 1] = e /\ n + 1 \in DOMAIN log'
    BY <1>1, <2>1 DEF IInv, TypeOK
  <2>3. e \in Event
    BY <2>2
  <2>4. in = InputOf(e)
    <3>1. in \in EventInput
      <4>1. req[p] \in Requests \cup {CreateRequest}
        BY DEF IInv, TypeOK
      <4>2. req[p] \in Request
        BY <4>1, RequestType
      <4>. QED BY <4>2 DEF Request
    <3>. QED BY <3>1 DEF NewEvent, InputOf, EventInput
  <2> HIDE DEF e, in
  <2>. QED BY <1>1, <2>3, <2>4, LedgerOfAppend DEF e
<1>. QED BY <1>1, <1>2, <1>4, <1>5, <1>6 DEF Ledger!Accept

LEMMA LedgerStep ==
  IInv /\ [Next]_vars
    => [Ledger!Next]_<<LedgerOf(log), session.eventCount>>
<1> SUFFICES ASSUME IInv, [Next]_vars
             PROVE  \/ Ledger!Next
                    \/ UNCHANGED <<LedgerOf(log), session.eventCount>>
  OBVIOUS
<1>1. CASE UNCHANGED <<log, session>>
  BY <1>1
<1>2. ASSUME NEW p \in Writers, AppendEvent(p)
      PROVE  Ledger!Next
  <2>1. req[p].input \in Inputs
    BY DEF IInv, TypeOK, Inputs
  <2>. QED BY <1>2, <2>1, AppendAccepts DEF Ledger!Next
<1>3. ASSUME NEW p \in Writers, Repair(p) \/ WriteProjection(p)
      PROVE  Ledger!Next
  <2>1. session' = Current /\ log' = log
    BY <1>3, PublishStep DEF Repair, WriteProjection
  <2>2. session'.eventCount = Len(LedgerOf(log))
    BY <2>1, CurrentType, LedgerOfFacts DEF IInv, TypeOK
  <2>. QED BY <2>1, <2>2 DEF Ledger!Next, Ledger!Publish
<1>4. ASSUME NEW p \in Writers,
             \/ Call(p) \/ Acquire(p) \/ Retry(p) \/ GiveUp(p)
             \/ DecodePeek(p) \/ RefuseEvent(p) \/ Release(p) \/ Crash(p)
             \/ Restart(p) \/ ClearStaleLock(p) \/ ReadProjection(p)
             \/ DecodeLocked(p) \/ WriteFile(p) \/ WriteFindingLine(p)
             \/ CopyManifest(p)
      PROVE  UNCHANGED <<log, session>>
  BY <1>4 DEF Call, Acquire, Retry, GiveUp, DecodePeek, RefuseEvent, Release,
              Crash, Restart, ClearStaleLock, ReadProjection, DecodeLocked,
              WriteFile, WriteFindingLine, CopyManifest, disk
<1>. QED BY <1>1, <1>2, <1>3, <1>4 DEF Next, Work, vars, disk

\* Whatever the processes do and wherever they die, the session directory
\* behaves like the ledger: only legal events enter the log, none leaves it,
\* and session.json moves only to the whole of it.
THEOREM StoreImplementsLedger == Spec => LedgerSpec
<1>1. Init => Ledger!Init
  BY DEF Init, Ledger!Init, CreatedSession, LedgerOf
<1>2. IInv /\ [Next]_vars
        => [Ledger!Next]_<<LedgerOf(log), session.eventCount>>
  BY LedgerStep
<1>. QED BY <1>1, <1>2, StoreInvariant, PTL DEF Spec, LedgerSpec, Ledger!Spec
=============================================================================
