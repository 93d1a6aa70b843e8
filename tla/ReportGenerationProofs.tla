----------------------- MODULE ReportGenerationProofs -----------------------
(***************************************************************************)
(* Proofs about ReportGeneration, for any number of generators, outputs    *)
(* and events.                                                             *)
(***************************************************************************)
EXTENDS ReportGeneration, TLAPS

-----------------------------------------------------------------------------
(* Lemmas about the operators. *)

\* The seven probes by name.
LEMMA ProbesAre ==
  /\ Len(Probes) = 7
  /\ Probes[1] = "run"
  /\ Probes[2] = "unlocked"
  /\ Probes[3] = "manifest"
  /\ Probes[4] = "events"
  /\ Probes[5] = "session"
  /\ Probes[6] = "manifestAgain"
  /\ Probes[7] = "unlockedAgain"
BY DEF Probes

\* A transaction has its place.
LEMMA PlaceType ==
  ASSUME WorkOK, NEW g \in Generators
  PROVE  /\ tx[g] = "bundle" => Place(g) = Output[g] /\ Place(g) \in Outputs
         /\ tx[g] = "receipt" => Place(g) = g
         /\ tx[g] \in {"bundle", "receipt"}
         /\ Place(g) \in Places
BY GenerationAssumption DEF WorkOK, Place, Places, Transactions

\* What the bundle of a generator holds has the form of the inputs.
LEMMA ContentType ==
  ASSUME ReadingOK, WorkOK, NEW g \in Generators, tx[g] = "bundle"
  PROVE  /\ Content(g) \in Inputs
         /\ Content(g).run = snap[g].run
         /\ Content(g).events = snap[g].manifest.events
         /\ Content(g).state = snap[g].manifest.state
BY DEF ReadingOK, WorkOK, Content, Inputs, Digests

\* Nothing that has been read is of the form of what may be read, too.
LEMMA UnreadType == Unread \in [run : BOOLEAN, manifest : Digests]
BY DEF Unread, Digests

\* What a step of the system is.
LEMMA StepCases ==
  ASSUME [Next]_vars
  PROVE  \/ Environment \/ UNCHANGED vars
         \/ \E g \in Generators :
              \/ Start(g) \/ Refuse(g) \/ Deadline(g) \/ Crash(g)
              \/ Collect(g) \/ Vacant(g) \/ Reserve(g) \/ MakeStage(g)
              \/ Write(g) \/ Verify(g) \/ FindAbsent(g) \/ Publish(g)
              \/ RemoveStage(g) \/ Release(g) \/ Fail(g) \/ FailReserved(g)
BY DEF Next, Step

-----------------------------------------------------------------------------
(* Type correctness, one part of the state at a time. *)

LEMMA TypeInit == Init => TypeOK
<1> SUFFICES ASSUME Init PROVE TypeOK
  OBVIOUS
<1>1. SourceOK
  BY DEF Init, SourceOK, Digests
<1>2. ReadingOK
  BY ProbesAre, UnreadType DEF Init, ReadingOK, Optional
<1>3. WorkOK
  BY DEF Init, WorkOK, PCs, Active, Transactions
<1>4. OutcomeOK
  BY DEF Init, OutcomeOK
<1>5. DiskOK
  BY DEF Init, DiskOK, Optional, Places
<1> QED
  BY <1>1, <1>2, <1>3, <1>4, <1>5 DEF TypeOK

LEMMA SourceStep ==
  ASSUME SourceOK, [Next]_vars
  PROVE  SourceOK'
<1> USE DEF SourceOK, Digests
<1>1. CASE FinalizeRun
  BY <1>1 DEF FinalizeRun
<1>2. CASE UpdateSession
  BY <1>2 DEF UpdateSession
<1>3. CASE ExportSession
  BY <1>3 DEF ExportSession
<1>4. CASE UNCHANGED source
  BY <1>4 DEF source
<1>5. ASSUME NEW g \in Generators,
             \/ Start(g) \/ Refuse(g) \/ Deadline(g) \/ Crash(g)
             \/ Collect(g) \/ Vacant(g) \/ Reserve(g) \/ MakeStage(g)
             \/ Write(g) \/ Verify(g) \/ FindAbsent(g) \/ Publish(g)
             \/ RemoveStage(g) \/ Release(g) \/ Fail(g) \/ FailReserved(g)
      PROVE  UNCHANGED source
  BY <1>5 DEF Start, Refuse, Deadline, Crash, Collect, Vacant, Reserve,
              MakeStage, Write, Verify, FindAbsent, Publish, RemoveStage,
              Release, Fail, FailReserved
<1>6. UNCHANGED vars => UNCHANGED source
  BY DEF vars
<1> QED
  BY <1>1, <1>2, <1>3, <1>4, <1>5, <1>6, StepCases DEF Environment

LEMMA ReadingStep ==
  ASSUME TypeOK, [Next]_vars
  PROVE  ReadingOK'
<1> USE ProbesAre DEF TypeOK, ReadingOK
<1>1. CASE UNCHANGED reading
  BY <1>1 DEF reading
<1>2. ASSUME NEW g \in Generators, Collect(g) PROVE ReadingOK'
  BY <1>2 DEF Collect, Advance, SourceOK
<1>3. ASSUME NEW g \in Generators, Write(g) PROVE ReadingOK'
  <2>1. Current \in Inputs
    BY DEF Current, Inputs, SourceOK
  <2> QED
    BY <1>3, <2>1 DEF Write, Optional
<1>4. ASSUME NEW g \in Generators, Verify(g) PROVE ReadingOK'
  BY <1>4 DEF Verify, Advance
<1>5. ASSUME NEW g \in Generators, Forget(g) PROVE ReadingOK'
  BY <1>5, UnreadType DEF Forget, Optional
<1> QED
  BY <1>1, <1>2, <1>3, <1>4, <1>5, StepCases
  DEF Environment, FinalizeRun, UpdateSession, ExportSession, generator, vars,
      reading, Start, Refuse, Deadline, Crash, Vacant, Reserve, MakeStage,
      FindAbsent, Publish, RemoveStage, Release, Fail, FailReserved

LEMMA WorkStep ==
  ASSUME TypeOK, [Next]_vars
  PROVE  WorkOK'
<1> USE DEF TypeOK, WorkOK, Goto, PCs, Active, Reserving
<1>1. CASE UNCHANGED <<pc, tx, stage, good, aborted>>
  BY <1>1
<1>2. ASSUME NEW g \in Generators, Start(g) \/ Refuse(g) PROVE WorkOK'
  BY <1>2 DEF Start, Refuse
<1>3. ASSUME NEW g \in Generators, Deadline(g) PROVE WorkOK'
  BY <1>3 DEF Deadline
<1>4. ASSUME NEW g \in Generators, Crash(g) PROVE WorkOK'
  BY <1>4 DEF Crash
<1>5. ASSUME NEW g \in Generators, Collect(g) \/ Verify(g) PROVE WorkOK'
  BY <1>5 DEF Collect, Verify, Advance
<1>6. ASSUME NEW g \in Generators, Vacant(g) \/ Reserve(g) \/ FindAbsent(g)
      PROVE  WorkOK'
  BY <1>6 DEF Vacant, Reserve, FindAbsent
<1>7. ASSUME NEW g \in Generators, MakeStage(g) PROVE WorkOK'
  BY <1>7 DEF MakeStage, Transactions
<1>8. ASSUME NEW g \in Generators, Write(g) PROVE WorkOK'
  BY <1>8 DEF Write, Transactions
<1>9. ASSUME NEW g \in Generators, Publish(g) PROVE WorkOK'
  BY <1>9 DEF Publish, Transactions
<1>10. ASSUME NEW g \in Generators, RemoveStage(g) PROVE WorkOK'
  <2>1. UNCHANGED <<tx, aborted>> /\ pc' = [pc EXCEPT ![g] = "release"]
    BY <1>10 DEF RemoveStage
  <2>2. stage' \in [Generators ->
                    [Transactions -> {None, "partial", "complete"}]]
    <3>1. [stage[g] EXCEPT ![tx[g]] = None] \in
            [Transactions -> {None, "partial", "complete"}]
      OBVIOUS
    <3>2. \/ stage' = stage
          \/ stage' = [stage EXCEPT ![g] = [@ EXCEPT ![tx[g]] = None]]
      BY <1>10 DEF RemoveStage
    <3> QED
      BY <3>1, <3>2
  <2>3. good' \in [Generators -> BOOLEAN]
    BY <1>10 DEF RemoveStage
  <2> QED
    BY <2>1, <2>2, <2>3
<1>11. ASSUME NEW g \in Generators, NEW ok \in BOOLEAN, Settle(g, ok),
              UNCHANGED stage
       PROVE  WorkOK'
  BY <1>11 DEF Settle, Transactions
<1>12. ASSUME NEW g \in Generators, Release(g) PROVE WorkOK'
  BY <1>11, <1>12 DEF Release
<1>13. ASSUME NEW g \in Generators, Fail(g) PROVE WorkOK'
  <2>1. CASE pc[g] \in Reserving
    BY <1>13, <2>1 DEF Fail
  <2>2. CASE pc[g] \notin Reserving
    BY <1>11, <1>13, <2>2 DEF Fail
  <2> QED
    BY <2>1, <2>2
<1>14. ASSUME NEW g \in Generators, FailReserved(g) PROVE WorkOK'
  BY <1>11, <1>14 DEF FailReserved
<1>15. Environment \/ UNCHANGED vars => UNCHANGED <<pc, tx, stage, good, aborted>>
  BY DEF Environment, FinalizeRun, UpdateSession, ExportSession, generator, vars
<1> QED
  BY <1>1, <1>2, <1>3, <1>4, <1>5, <1>6, <1>7, <1>8, <1>9, <1>10, <1>12,
     <1>13, <1>14, <1>15, StepCases

LEMMA OutcomeStep ==
  ASSUME TypeOK, [Next]_vars
  PROVE  OutcomeOK'
<1> USE GenerationAssumption DEF TypeOK, OutcomeOK
<1>1. CASE UNCHANGED <<result, saved, dirty, tx>>
  BY <1>1
<1>2. ASSUME NEW g \in Generators, Refuse(g) PROVE OutcomeOK'
  BY <1>2 DEF Refuse
<1>3. ASSUME NEW g \in Generators, RemoveStage(g) PROVE OutcomeOK'
  BY <1>3 DEF RemoveStage, Soil, WorkOK, Transactions
<1>4. ASSUME NEW g \in Generators, NEW ok \in BOOLEAN, Settle(g, ok),
             Soil(g) \/ UNCHANGED dirty
      PROVE  OutcomeOK'
  <2>1. dirty' \in [Generators -> SUBSET Transactions]
    BY <1>4 DEF Soil, WorkOK
  <2>2. result' \in [Generators -> {None, "ready", "error"}]
    BY <1>4 DEF Settle
  <2>3. saved' \in [Generators -> BOOLEAN]
    BY <1>4 DEF Settle
  <2>4. \A h \in Generators : tx'[h] = "receipt" => result'[h] # None
    BY SMTT(20), <1>4 DEF Settle, WorkOK
  <2> QED
    BY <2>1, <2>2, <2>3, <2>4
<1>5. ASSUME NEW g \in Generators, Release(g) PROVE OutcomeOK'
  BY <1>4, <1>5 DEF Release, WorkOK
<1>6. ASSUME NEW g \in Generators, Fail(g) PROVE OutcomeOK'
  BY <1>1, <1>4, <1>6 DEF Fail
<1>7. ASSUME NEW g \in Generators, FailReserved(g) PROVE OutcomeOK'
  BY <1>4, <1>7 DEF FailReserved
<1>8. Environment \/ UNCHANGED vars => UNCHANGED <<result, saved, dirty, tx>>
  BY DEF Environment, FinalizeRun, UpdateSession, ExportSession, generator,
         vars, outcome
<1>9. ASSUME NEW g \in Generators,
             \/ Start(g) \/ Deadline(g) \/ Crash(g) \/ Collect(g) \/ Vacant(g)
             \/ Reserve(g) \/ MakeStage(g) \/ Write(g) \/ Verify(g)
             \/ FindAbsent(g) \/ Publish(g)
      PROVE  UNCHANGED <<result, saved, dirty, tx>>
  BY <1>9 DEF Start, Deadline, Crash, Collect, Vacant, Reserve, MakeStage,
              Write, Verify, FindAbsent, Publish, outcome
<1> QED
  BY <1>1, <1>2, <1>3, <1>5, <1>6, <1>7, <1>8, <1>9, StepCases

LEMMA DiskStep ==
  ASSUME TypeOK, [Next]_vars
  PROVE  DiskOK'
<1> USE GenerationAssumption DEF TypeOK, DiskOK
<1>1. CASE UNCHANGED disk
  BY <1>1 DEF disk
<1>2. ASSUME NEW g \in Generators,
             Reserve(g) \/ Release(g) \/ FailReserved(g)
      PROVE  DiskOK'
  BY <1>2 DEF Reserve, Release, FailReserved, Optional
<1>3. ASSUME NEW g \in Generators, Publish(g) PROVE DiskOK'
  <2> DEFINE new == [by |-> g, what |-> Content(g)]
  <2>1. published' = [published EXCEPT ![Place(g)] = new]
    BY <1>3 DEF Publish
  <2>2. lock' = lock
    BY <1>3 DEF Publish
  <2>3. CASE tx[g] = "bundle"
    <3>1. new \in [by : Generators, what : Inputs]
      BY <2>3, ContentType
    <3>2. Place(g) \in Outputs
      BY <2>3, PlaceType
    <3>3. \A h \in Generators : published'[h] = published[h]
      BY <2>1, <3>2 DEF Places
    <3>4. \A o \in Outputs :
             published'[o] \in Optional([by : Generators, what : Inputs])
      BY <2>1, <3>1 DEF Places, Optional
    <3> HIDE DEF new
    <3> QED
      BY <2>1, <2>2, <3>3, <3>4
  <2>4. CASE tx[g] = "receipt"
    <3>1. Place(g) = g
      BY <2>4, PlaceType
    <3>2. Content(g) \in {"ready", "error"}
      BY <2>4 DEF Content, OutcomeOK
    <3>3. new \in [by : {g}, what : {"ready", "error"}]
      BY <3>2
    <3>4. \A o \in Outputs : published'[o] = published[o]
      BY <2>1, <3>1 DEF Places
    <3>5. \A h \in Generators :
             published'[h] \in Optional([by : {h}, what : {"ready", "error"}])
      BY <2>1, <3>1, <3>3 DEF Places, Optional
    <3> HIDE DEF new
    <3> QED
      BY <2>1, <2>2, <3>4, <3>5
  <2> QED
    BY <2>3, <2>4, PlaceType
<1>4. Environment \/ UNCHANGED vars => UNCHANGED disk
  BY DEF Environment, FinalizeRun, UpdateSession, ExportSession, generator,
         vars
<1>5. ASSUME NEW g \in Generators,
             \/ Start(g) \/ Refuse(g) \/ Deadline(g) \/ Crash(g) \/ Collect(g)
             \/ Vacant(g) \/ MakeStage(g) \/ Write(g) \/ Verify(g)
             \/ FindAbsent(g) \/ RemoveStage(g) \/ Fail(g)
      PROVE  UNCHANGED disk
  BY <1>5 DEF Start, Refuse, Deadline, Crash, Collect, Vacant, MakeStage,
              Write, Verify, FindAbsent, RemoveStage, Fail
<1> QED
  BY <1>1, <1>2, <1>3, <1>4, <1>5, StepCases

LEMMA TypeStep ==
  ASSUME TypeOK, [Next]_vars
  PROVE  TypeOK'
BY SourceStep, ReadingStep, WorkStep, OutcomeStep, DiskStep DEF TypeOK

-----------------------------------------------------------------------------
(* The invariant. *)

\* A step of a generator leaves the inputs and the other generators alone.
LEMMA StepIsOwn ==
  ASSUME WorkOK, ReadingOK, NEW g \in Generators,
         \/ Start(g) \/ Refuse(g) \/ Deadline(g) \/ Crash(g)
         \/ Collect(g) \/ Vacant(g) \/ Reserve(g) \/ MakeStage(g)
         \/ Write(g) \/ Verify(g) \/ FindAbsent(g) \/ Publish(g)
         \/ RemoveStage(g) \/ Release(g) \/ Fail(g) \/ FailReserved(g)
  PROVE  /\ UNCHANGED source
         /\ \A h \in Generators \ {g} :
              /\ pc'[h] = pc[h] /\ tx'[h] = tx[h]
              /\ probe'[h] = probe[h] /\ snap'[h] = snap[h]
              /\ base'[h] = base[h]
<1> USE DEF WorkOK, ReadingOK, Goto, Forget, Advance, Settle, reading
<1>1. CASE Start(g) \/ Refuse(g) \/ Deadline(g) \/ Crash(g)
  BY <1>1 DEF Start, Refuse, Deadline, Crash
<1>2. CASE Collect(g) \/ Verify(g) \/ Write(g)
  BY <1>2 DEF Collect, Verify, Write
<1>3. CASE Vacant(g) \/ Reserve(g) \/ MakeStage(g) \/ FindAbsent(g)
  BY <1>3 DEF Vacant, Reserve, MakeStage, FindAbsent
<1>4. CASE Publish(g) \/ RemoveStage(g)
  BY <1>4 DEF Publish, RemoveStage
<1>5. CASE Release(g)
  BY <1>5 DEF Release
<1>6. CASE Fail(g)
  BY <1>6 DEF Fail
<1>7. CASE FailReserved(g)
  BY <1>7 DEF FailReserved
<1> QED
  BY <1>1, <1>2, <1>3, <1>4, <1>5, <1>6, <1>7

LEMMA FollowsStep ==
  ASSUME TypeOK, SessionFollows, [Next]_vars
  PROVE  SessionFollows'
<1> USE DEF TypeOK, SourceOK, SessionFollows
<1>1. CASE FinalizeRun
  BY <1>1 DEF FinalizeRun
<1>2. CASE UpdateSession
  BY <1>2 DEF UpdateSession
<1>3. CASE ExportSession
  BY <1>3 DEF ExportSession
<1>4. CASE UNCHANGED source
  BY <1>4 DEF source
<1> QED
  BY <1>1, <1>2, <1>3, <1>4, StepIsOwn, StepCases DEF Environment, vars

\* The lock of a place is its holder's from its creation to its removal.
LEMMA OneWriterStep ==
  ASSUME TypeOK, OneWriterPerOutput, [Next]_vars
  PROVE  OneWriterPerOutput'
<1> USE GenerationAssumption
    DEF TypeOK, OneWriterPerOutput, WorkOK, DiskOK, Goto, Reserving
<1>1. CASE UNCHANGED <<pc, tx, lock>>
  BY <1>1 DEF Place
<1>2. ASSUME NEW g \in Generators,
             \/ Start(g) \/ Refuse(g) \/ Deadline(g) \/ Crash(g) \/ Collect(g)
             \/ Vacant(g) \/ MakeStage(g) \/ Write(g) \/ Verify(g)
             \/ FindAbsent(g) \/ Publish(g) \/ RemoveStage(g)
      PROVE  OneWriterPerOutput'
  <2>1. UNCHANGED <<tx, lock>>
    BY <1>2 DEF Start, Refuse, Deadline, Crash, Collect, Vacant, MakeStage,
                Write, Verify, FindAbsent, Publish, RemoveStage, disk
  <2>2. pc'[g] \in Reserving => pc[g] \in Reserving
    BY <1>2 DEF Start, Refuse, Deadline, Crash, Collect, Vacant, MakeStage,
                Write, Verify, FindAbsent, Publish, RemoveStage, Alive, Advance
  <2> QED
    BY <1>2, <2>1, <2>2, StepIsOwn DEF Place
<1>3. ASSUME NEW g \in Generators, Reserve(g) PROVE OneWriterPerOutput'
  <2>1. lock[Place(g)] = None /\ lock' = [lock EXCEPT ![Place(g)] = g]
        /\ tx' = tx
    BY <1>3 DEF Reserve
  <2> QED
    BY <1>3, <2>1, StepIsOwn, PlaceType DEF Place
<1>4. ASSUME NEW g \in Generators, FailReserved(g) PROVE OneWriterPerOutput'
  <2>1. lock[Place(g)] = None /\ lock' = [lock EXCEPT ![Place(g)] = g]
        /\ pc'[g] \in {"vacant", "done"}
    BY <1>4 DEF FailReserved, Settle
  <2> QED
    BY <1>4, <2>1, StepIsOwn, PlaceType DEF Place
<1>5. ASSUME NEW g \in Generators, Release(g) PROVE OneWriterPerOutput'
  <2>1. \/ lock' = [lock EXCEPT ![Place(g)] = None]
        \/ lock' = lock
    BY <1>5 DEF Release
  <2>2. pc[g] = "release" /\ pc'[g] \in {"vacant", "done"}
    BY <1>5 DEF Release, Settle
  <2> QED
    BY <1>5, <2>1, <2>2, StepIsOwn, PlaceType DEF Place
<1>6. ASSUME NEW g \in Generators, Fail(g) PROVE OneWriterPerOutput'
  <2>1. lock' = lock
    BY <1>6 DEF Fail, disk
  <2>2. CASE pc[g] \in Reserving
    BY <1>6, <2>1, <2>2, StepIsOwn DEF Place, Fail
  <2>3. CASE pc[g] \notin Reserving
    <3>1. pc'[g] \in {"vacant", "done"}
      BY <1>6, <2>3 DEF Fail, Settle
    <3> QED
      BY <1>6, <2>1, <3>1, StepIsOwn DEF Place
  <2> QED
    BY <2>2, <2>3
<1>7. Environment \/ UNCHANGED vars => UNCHANGED <<pc, tx, lock>>
  BY DEF Environment, FinalizeRun, UpdateSession, ExportSession, generator,
         vars, disk
<1> QED
  BY <1>1, <1>2, <1>3, <1>4, <1>5, <1>6, <1>7, StepCases

\* The inputs only move forward.
LEMMA Forward ==
  ASSUME TypeOK, SessionFollows, [Next]_vars
  PROVE  /\ runFinal => runFinal'
         /\ events <= events' /\ state <= state'
<1> USE DEF TypeOK, SourceOK, SessionFollows
<1>1. CASE FinalizeRun
  BY <1>1 DEF FinalizeRun
<1>2. CASE UpdateSession
  BY <1>2 DEF UpdateSession
<1>3. CASE ExportSession
  BY <1>3 DEF ExportSession
<1>4. CASE UNCHANGED source
  BY <1>4 DEF source
<1> QED
  BY <1>1, <1>2, <1>3, <1>4, StepIsOwn, StepCases DEF Environment, vars

\* What a generator knows stays true while it does nothing itself.
LEMMA ReadingKept ==
  ASSUME TypeOK, TypeOK', NEW h \in Generators, ReadingInv(h),
         runFinal => runFinal', events <= events', state <= state',
         pc'[h] = pc[h], tx'[h] = tx[h], probe'[h] = probe[h],
         snap'[h] = snap[h], base'[h] = base[h]
  PROVE  ReadingInv(h)'
<1> USE DEF TypeOK, SourceOK, ReadingOK, Digests, Inputs, Optional
<1>1. BeginsAnew(h)'
  BY DEF ReadingInv, BeginsAnew
<1>2. ReadIsBehind(h)'
  BY SMTT(20) DEF ReadingInv, ReadIsBehind, HasRead
<1>3. BaseIsBetween(h)'
  BY SMTT(20) DEF ReadingInv, BaseIsBetween, HasVerified
<1> QED
  BY <1>1, <1>2, <1>3 DEF ReadingInv

\* Where the reading is over there is nothing left to know.
LEMMA ReadingForgotten ==
  ASSUME TypeOK, NEW g \in Generators, Forget(g),
         pc'[g] \notin {"idle", "collect", "verify"},
         tx'[g] = "receipt" \/ pc'[g] \in {"dispose", "release", "done", "dead"}
  PROVE  ReadingInv(g)'
<1>1. probe'[g] = 1 /\ base'[g] = None
  BY DEF Forget, TypeOK, ReadingOK
<1> QED
  BY <1>1 DEF ReadingInv, BeginsAnew, ReadIsBehind, BaseIsBetween, HasRead,
              HasVerified

\* At the receipt a generator knows nothing of the inputs, nor needs to.
LEMMA ReceiptKnowsNothing ==
  ASSUME NEW g \in Generators, tx[g] = "receipt", probe[g] = 1,
         pc[g] \notin {"idle", "collect"}
  PROVE  ReadingInv(g)
BY DEF ReadingInv, BeginsAnew, ReadIsBehind, BaseIsBetween, HasRead,
       HasVerified

\* The first reading.
LEMMA CollectReads ==
  ASSUME TypeOK, NEW g \in Generators, ReadingInv(g), Collect(g)
  PROVE  ReadingInv(g)'
<1> USE ProbesAre
    DEF TypeOK, WorkOK, ReadingOK, SourceOK, Digests, Goto, Alive, Advance
<1>1. UNCHANGED <<runFinal, events, state, base, tx>> /\ pc[g] = "collect"
  BY DEF Collect, source
<1>2. tx[g] = "bundle" /\ base[g] = None
  BY <1>1 DEF ReadingInv, BeginsAnew, BaseIsBetween
<1>3. \/ pc'[g] = "collect" /\ probe'[g] = probe[g] + 1 /\ probe[g] < 7
      \/ pc'[g] = "vacant" /\ probe'[g] = 1 /\ probe[g] = 7
  BY DEF Collect
<1>4. \/ probe[g] = 1 /\ (snap'[g].run => runFinal)
      \/ probe[g] = 3
      \/ /\ snap' = snap
         /\ probe[g] = 4 => events = snap[g].manifest.events
         /\ probe[g] = 5 => state = snap[g].manifest.state
         /\ probe[g] = 7 => snap[g].manifest.events = snap[g].manifest.state
         /\ probe[g] # 1
  BY DEF Collect, Agrees
<1>5. probe[g] = 3 => snap'[g].run = snap[g].run
  BY DEF Collect
<1>6. BeginsAnew(g)'
  BY <1>1, <1>2, <1>3 DEF BeginsAnew
<1>7. ReadIsBehind(g)'
  <2>1. probe[g] \in 1..7 /\ ReadIsBehind(g)
    BY DEF ReadingInv
  <2>2. /\ HasRead(g, 4)' => probe[g] >= 4
        /\ HasRead(g, 5)' => probe[g] >= 5
        /\ HasRead(g, 7)' => probe[g] = 7
        /\ probe[g] > 1 => HasRead(g, 1)
        /\ probe[g] > 4 => HasRead(g, 4)
        /\ probe[g] > 5 => HasRead(g, 5)
    BY <1>1, <1>2, <1>3, <2>1 DEF HasRead
  <2>3. snap'[g].run => runFinal
    <3>1. CASE probe[g] = 1
      BY <1>4, <3>1
    <3>2. CASE probe[g] # 1
      <4>1. snap'[g].run = snap[g].run
        BY <1>4, <1>5, <3>2
      <4>2. snap[g].run => runFinal
        BY <2>1, <2>2, <3>2 DEF ReadIsBehind
      <4> QED
        BY <4>1, <4>2
    <3> QED
      BY <3>1, <3>2
  <2>4. probe[g] >= 4 => snap' = snap
    BY <1>4
  <2>5. probe[g] >= 4 => snap[g].manifest.events <= events
    BY <1>4, <2>1, <2>2 DEF ReadIsBehind
  <2>6. probe[g] >= 5 => snap[g].manifest.state <= state
    BY <1>4, <2>1, <2>2 DEF ReadIsBehind
  <2>7. probe[g] = 7 => snap[g].manifest.events = snap[g].manifest.state
    BY <1>4
  <2> QED
    BY <1>1, <2>1, <2>2, <2>3, <2>4, <2>5, <2>6, <2>7 DEF ReadIsBehind
<1>8. BaseIsBetween(g)'
  BY <1>1, <1>2, <1>3 DEF BaseIsBetween, HasVerified
<1> QED
  BY <1>6, <1>7, <1>8 DEF ReadingInv

\* The moment between the readings.
LEMMA WriteFixesBase ==
  ASSUME TypeOK, NEW g \in Generators, ReadingInv(g), Write(g)
  PROVE  ReadingInv(g)'
<1> USE GenerationAssumption
    DEF TypeOK, WorkOK, ReadingOK, SourceOK, Digests, Goto, Alive
<1>1. /\ UNCHANGED <<runFinal, events, state, snap, probe, tx>>
      /\ pc[g] = "write" /\ probe[g] = 1
  BY DEF Write, source, ReadingInv, BeginsAnew
<1>2. CASE tx[g] = "receipt"
  <2>1. pc'[g] = "absent"
    BY <1>2 DEF Write
  <2> QED
    BY <1>1, <1>2, <2>1
    DEF ReadingInv, BeginsAnew, ReadIsBehind, BaseIsBetween, HasRead,
        HasVerified
<1>3. CASE tx[g] = "bundle"
  <2>1. pc'[g] = "verify" /\ base'[g] = Current
    BY <1>3 DEF Write
  <2>2. Current # None
    BY DEF Current
  <2>3. BeginsAnew(g)'
    BY <1>1, <2>1 DEF BeginsAnew
  <2>4. ReadIsBehind(g) /\ HasRead(g, 1) /\ HasRead(g, 4) /\ HasRead(g, 5)
        /\ HasRead(g, 7)
    BY <1>1, <1>3 DEF ReadingInv, HasRead
  <2>5. ReadIsBehind(g)'
    BY <1>1, <2>4 DEF ReadIsBehind
  <2>6. BaseIsBetween(g)'
    BY <1>1, <1>3, <2>1, <2>2, <2>4
    DEF BaseIsBetween, ReadIsBehind, HasVerified, Current
  <2> QED
    BY <2>3, <2>5, <2>6 DEF ReadingInv
<1> QED
  BY <1>2, <1>3 DEF Transactions

\* The second reading.
LEMMA VerifyConfirms ==
  ASSUME TypeOK, NEW g \in Generators, ReadingInv(g), Verify(g)
  PROVE  ReadingInv(g)'
<1> USE ProbesAre
    DEF TypeOK, WorkOK, ReadingOK, SourceOK, Digests, Goto, Alive, Advance
<1>1. UNCHANGED <<runFinal, events, state, snap, base, tx>> /\ pc[g] = "verify"
  BY DEF Verify, source
<1>2. \/ pc'[g] = "verify" /\ probe'[g] = probe[g] + 1 /\ probe[g] < 7
      \/ pc'[g] = "absent" /\ probe'[g] = 1 /\ probe[g] = 7
  BY DEF Verify
<1>3. /\ probe[g] = 1 => runFinal = snap[g].run
      /\ probe[g] = 4 => events = snap[g].manifest.events
      /\ probe[g] = 5 => state = snap[g].manifest.state
  BY DEF Verify, Agrees
<1>4. CASE tx[g] = "receipt"
  BY <1>1, <1>2, <1>4
  DEF ReadingInv, BeginsAnew, ReadIsBehind, BaseIsBetween, HasRead,
      HasVerified
<1>5. CASE tx[g] = "bundle"
  <2>1. base[g] \in Inputs
    BY <1>1, <1>5 DEF ReadingInv, BaseIsBetween, Optional
  <2>2. BeginsAnew(g)'
    BY <1>1, <1>2 DEF BeginsAnew
  <2>3. ReadIsBehind(g)'
    BY <1>1, <1>2, <1>5 DEF ReadingInv, ReadIsBehind, HasRead
  <2>4. /\ snap[g].run => base[g].run
        /\ base[g].run => runFinal
        /\ snap[g].manifest.events <= base[g].events
        /\ base[g].events <= events
        /\ snap[g].manifest.state <= base[g].state
        /\ base[g].state <= state
    BY <1>1, <1>5 DEF ReadingInv, BaseIsBetween
  <2>5. /\ base[g].run \in BOOLEAN /\ snap[g].run \in BOOLEAN
        /\ base[g].events \in Nat /\ snap[g].manifest.events \in Nat
        /\ base[g].state \in Nat /\ snap[g].manifest.state \in Nat
        /\ events \in Nat /\ state \in Nat
        /\ probe[g] \in 1..7
    BY <2>1 DEF Inputs
  <2>6. /\ HasVerified(g, 1)' => base[g].run = snap[g].run
        /\ HasVerified(g, 4)' => base[g].events = snap[g].manifest.events
        /\ HasVerified(g, 5)' => base[g].state = snap[g].manifest.state
    <3>1. /\ HasVerified(g, 1)' => probe[g] = 1 \/ HasVerified(g, 1)
          /\ HasVerified(g, 4)' => probe[g] = 4 \/ HasVerified(g, 4)
          /\ HasVerified(g, 5)' => probe[g] = 5 \/ HasVerified(g, 5)
      BY <1>1, <1>2, <1>5, <2>5 DEF HasVerified
    <3>2. /\ probe[g] = 1 => base[g].run = snap[g].run
          /\ probe[g] = 4 => base[g].events = snap[g].manifest.events
          /\ probe[g] = 5 => base[g].state = snap[g].manifest.state
      <4> HIDE DEF TypeOK, WorkOK, ReadingOK, SourceOK
      <4>1. probe[g] = 1 => (base[g].run <=> snap[g].run)
        BY <1>3, <2>4
      <4>2. probe[g] = 1 => base[g].run = snap[g].run
        BY <4>1, <2>5, Zenon
      <4>3. probe[g] = 4 => base[g].events = snap[g].manifest.events
        BY <1>3, <2>4, <2>5
      <4>4. probe[g] = 5 => base[g].state = snap[g].manifest.state
        BY <1>3, <2>4, <2>5
      <4> QED
        BY <4>2, <4>3, <4>4
    <3> QED
      BY <3>1, <3>2 DEF ReadingInv, BaseIsBetween
  <2>7. BaseIsBetween(g)'
    BY <1>1, <1>2, <1>5, <2>6 DEF ReadingInv, BaseIsBetween
  <2> QED
    BY <2>2, <2>3, <2>7 DEF ReadingInv
<1> QED
  BY <1>4, <1>5 DEF Transactions

\* The steps between the readings, and those after them.
LEMMA OtherSteps ==
  ASSUME TypeOK, NEW g \in Generators, ReadingInv(g),
         \/ Start(g) \/ Vacant(g) \/ Reserve(g) \/ MakeStage(g)
         \/ FindAbsent(g) \/ Refuse(g) \/ Deadline(g) \/ RemoveStage(g)
  PROVE  ReadingInv(g)'
<1> USE DEF TypeOK, WorkOK, ReadingOK, Goto, Alive
<1>1. /\ UNCHANGED <<runFinal, events, state, probe, snap, base, tx>>
      /\ \/ pc'[g] = pc[g]
         \/ pc[g] = "idle" /\ pc'[g] \in {"collect", "done"}
         \/ pc[g] = "vacant" /\ pc'[g] = "reserve"
         \/ pc[g] = "reserve" /\ pc'[g] = "stage"
         \/ pc[g] = "stage" /\ pc'[g] = "write"
         \/ pc[g] = "absent" /\ pc'[g] = "rename"
         \/ pc[g] = "dispose" /\ pc'[g] = "release"
  BY DEF Start, Vacant, Reserve, MakeStage, FindAbsent, Refuse, Deadline,
         RemoveStage, source, reading
<1>2. BeginsAnew(g)'
  BY <1>1 DEF ReadingInv, BeginsAnew
<1>3. ReadIsBehind(g)'
  BY <1>1 DEF ReadingInv, BeginsAnew, ReadIsBehind, HasRead
<1>4. BaseIsBetween(g)'
  BY <1>1 DEF ReadingInv, BaseIsBetween, HasVerified
<1> QED
  BY <1>2, <1>3, <1>4 DEF ReadingInv

LEMMA ReadingsStep ==
  ASSUME IInv, [Next]_vars
  PROVE  \A g \in Generators : ReadingInv(g)'
<1>1. TypeOK /\ TypeOK' /\ \A g \in Generators : ReadingInv(g)
  BY TypeStep DEF IInv
<1>2. (runFinal => runFinal') /\ events <= events' /\ state <= state'
  BY Forward DEF IInv
<1>3. CASE UNCHANGED <<pc, tx, probe, snap, base>>
  BY <1>1, <1>2, <1>3, ReadingKept
<1>4. ASSUME NEW g \in Generators,
             \/ Start(g) \/ Refuse(g) \/ Deadline(g) \/ Crash(g)
             \/ Collect(g) \/ Vacant(g) \/ Reserve(g) \/ MakeStage(g)
             \/ Write(g) \/ Verify(g) \/ FindAbsent(g) \/ Publish(g)
             \/ RemoveStage(g) \/ Release(g) \/ Fail(g) \/ FailReserved(g)
      PROVE  \A h \in Generators : ReadingInv(h)'
  <2>1. \A h \in Generators \ {g} : ReadingInv(h)'
    BY <1>1, <1>2, <1>4, StepIsOwn, ReadingKept DEF TypeOK
  <2>2. ReadingInv(g)'
    <3>1. CASE Collect(g)
      BY <1>1, <3>1, CollectReads
    <3>2. CASE Write(g)
      BY <1>1, <3>2, WriteFixesBase
    <3>3. CASE Verify(g)
      BY <1>1, <3>3, VerifyConfirms
    <3>4. CASE Publish(g) \/ Crash(g)
      BY <1>1, <3>4, ReadingForgotten
      DEF Publish, Crash, Goto, TypeOK, WorkOK
    <3>5. CASE Fail(g) \/ FailReserved(g)
      <4>1. Forget(g) /\ pc'[g] \notin {"idle", "collect", "verify"}
        BY <1>1, <3>5 DEF Fail, FailReserved, Settle, Goto, TypeOK, WorkOK
      <4>2. tx'[g] = "receipt" \/ pc'[g] \in {"dispose", "done"}
        BY <1>1, <3>5 DEF Fail, FailReserved, Settle, Goto, TypeOK, WorkOK
      <4> QED
        BY <1>1, <4>1, <4>2, ReadingForgotten
    <3>6. CASE Release(g)
      <4>1. probe'[g] = 1 /\ pc'[g] \in {"vacant", "done"}
        BY <1>1, <3>6
        DEF Release, Settle, Goto, TypeOK, WorkOK, reading, ReadingInv,
            BeginsAnew
      <4>2. tx'[g] = "receipt"
        BY <1>1, <3>6 DEF Release, Settle, TypeOK, WorkOK
      <4> QED
        BY <4>1, <4>2
        DEF ReadingInv, BeginsAnew, ReadIsBehind, BaseIsBetween, HasRead,
            HasVerified
    <3> QED
      BY <1>1, <1>4, <3>1, <3>2, <3>3, <3>4, <3>5, <3>6, OtherSteps
  <2> QED
    BY <2>1, <2>2
<1>5. Environment \/ UNCHANGED vars => UNCHANGED <<pc, tx, probe, snap, base>>
  BY DEF Environment, FinalizeRun, UpdateSession, ExportSession, generator,
         vars, reading
<1> QED
  BY <1>3, <1>4, <1>5, StepCases

\* What a step of one generator does to what another one claims: a place it
\* publishes at was empty before, and a lock it takes was free.
LEMMA ClaimsOfOthers ==
  ASSUME TypeOK, NEW g \in Generators, NEW h \in Generators \ {g},
         \/ Start(g) \/ Refuse(g) \/ Deadline(g) \/ Crash(g)
         \/ Collect(g) \/ Vacant(g) \/ Reserve(g) \/ MakeStage(g)
         \/ Write(g) \/ Verify(g) \/ FindAbsent(g) \/ Publish(g)
         \/ RemoveStage(g) \/ Release(g) \/ Fail(g) \/ FailReserved(g)
  PROVE  /\ Mine(h)' <=> Mine(h)
         /\ published'[h] = published[h]
         /\ lock'[Output[h]] = h => lock[Output[h]] = h
         /\ lock'[h] = h => lock[h] = h
<1> USE GenerationAssumption DEF TypeOK, DiskOK, Mine
<1>1. Place(g) \in Places /\ Place(g) # h /\ Output[h] \in Places
      /\ h \in Places
  BY PlaceType DEF Places
<1>2. \/ published' = published
      \/ /\ published[Place(g)] = None
         /\ published' = [published EXCEPT ![Place(g)] =
                            [by |-> g, what |-> Content(g)]]
  BY DEF Start, Refuse, Deadline, Crash, Collect, Vacant, Reserve, MakeStage,
         Write, Verify, FindAbsent, Publish, RemoveStage, Release, Fail,
         FailReserved, disk
<1>3. \/ lock' = lock
      \/ lock' = [lock EXCEPT ![Place(g)] = g]
      \/ lock' = [lock EXCEPT ![Place(g)] = None]
  BY DEF Start, Refuse, Deadline, Crash, Collect, Vacant, Reserve, MakeStage,
         Write, Verify, FindAbsent, Publish, RemoveStage, Release, Fail,
         FailReserved, disk
<1>4. Mine(h)' <=> Mine(h)
  <2>1. CASE Output[h] = Place(g)
    BY <1>1, <1>2, <2>1
  <2>2. CASE Output[h] # Place(g)
    BY <1>1, <1>2, <2>2
  <2> QED
    BY <2>1, <2>2
<1>5. published'[h] = published[h]
  BY <1>1, <1>2
<1>6. /\ lock'[Output[h]] = h => lock[Output[h]] = h
      /\ lock'[h] = h => lock[h] = h
  BY <1>1, <1>3
<1> QED
  BY <1>4, <1>5, <1>6

\* A step of a generator leaves the work of the others alone.
LEMMA WorkIsOwn ==
  ASSUME TypeOK, NEW g \in Generators, NEW h \in Generators \ {g},
         \/ Start(g) \/ Refuse(g) \/ Deadline(g) \/ Crash(g)
         \/ Collect(g) \/ Vacant(g) \/ Reserve(g) \/ MakeStage(g)
         \/ Write(g) \/ Verify(g) \/ FindAbsent(g) \/ Publish(g)
         \/ RemoveStage(g) \/ Release(g) \/ Fail(g) \/ FailReserved(g)
  PROVE  /\ stage'[h] = stage[h] /\ good'[h] = good[h]
         /\ result'[h] = result[h] /\ saved'[h] = saved[h]
         /\ dirty'[h] = dirty[h]
<1> USE DEF TypeOK, WorkOK, OutcomeOK, outcome, Settle, Soil
<1>1. CASE Start(g) \/ Refuse(g) \/ Deadline(g) \/ Crash(g)
  BY <1>1 DEF Start, Refuse, Deadline, Crash
<1>2. CASE Collect(g) \/ Verify(g) \/ Write(g)
  BY <1>2 DEF Collect, Verify, Write
<1>3. CASE Vacant(g) \/ Reserve(g) \/ MakeStage(g) \/ FindAbsent(g)
  BY <1>3 DEF Vacant, Reserve, MakeStage, FindAbsent
<1>4. CASE Publish(g) \/ RemoveStage(g)
  BY <1>4 DEF Publish, RemoveStage
<1>5. CASE Release(g)
  BY <1>5 DEF Release
<1>6. CASE Fail(g)
  BY <1>6 DEF Fail
<1>7. CASE FailReserved(g)
  BY <1>7 DEF FailReserved
<1> QED
  BY <1>1, <1>2, <1>3, <1>4, <1>5, <1>6, <1>7

\* The claims of a generator hold while others act.
LEMMA ClaimsKept ==
  ASSUME NEW h \in Generators, OutcomeInv(h), CleanInv(h),
         pc'[h] = pc[h], tx'[h] = tx[h], stage'[h] = stage[h],
         good'[h] = good[h], result'[h] = result[h], saved'[h] = saved[h],
         dirty'[h] = dirty[h], Mine(h)' <=> Mine(h),
         published'[h] = published[h],
         lock'[Output[h]] = h => lock[Output[h]] = h,
         lock'[h] = h => lock[h] = h
  PROVE  OutcomeInv(h)' /\ CleanInv(h)'
<1>1. OutcomeInv(h)'
  <2>1. Receipted(h)' <=> Receipted(h)
    BY DEF Receipted
  <2> QED
    BY <2>1 DEF OutcomeInv
<1>2. CleanInv(h)'
  BY DEF CleanInv
<1> QED
  BY <1>1, <1>2

\* Steps that only move on.
LEMMA ClaimsMove ==
  ASSUME TypeOK, NEW g \in Generators, BeginsAnew(g), OutcomeInv(g), CleanInv(g),
         \/ Start(g) \/ Deadline(g) \/ Crash(g) \/ Collect(g) \/ Vacant(g)
         \/ Verify(g) \/ FindAbsent(g) \/ Refuse(g)
  PROVE  OutcomeInv(g)' /\ CleanInv(g)'
<1> USE DEF TypeOK, WorkOK, OutcomeOK, Goto, Alive, Advance
<1>1. UNCHANGED <<tx, stage, good, saved, dirty, lock, published>>
  BY DEF Start, Deadline, Crash, Collect, Vacant, Verify, FindAbsent, Refuse,
         outcome, disk
<1>2. \/ pc'[g] = pc[g] /\ result' = result
      \/ /\ result' = result
         /\ pc[g] \in Active /\ pc'[g] = "dead"
      \/ /\ result' = result
         /\ pc[g] \in {"idle", "collect", "vacant"}
         /\ pc'[g] \in {"collect", "vacant", "reserve"}
      \/ /\ result' = result
         /\ pc[g] \in {"verify", "absent"}
         /\ pc'[g] \in {"verify", "absent", "rename"}
      \/ /\ pc[g] = "idle" /\ pc'[g] = "done" /\ tx[g] = "bundle"
         /\ result'[g] = "error"
  <2>1. CASE Start(g) \/ Deadline(g) \/ Crash(g) \/ Vacant(g) \/ FindAbsent(g)
    BY <2>1 DEF Start, Deadline, Crash, Vacant, FindAbsent, outcome
  <2>2. CASE Collect(g) \/ Verify(g)
    BY <2>2 DEF Collect, Verify, outcome
  <2>3. CASE Refuse(g)
    BY <2>3 DEF Refuse, BeginsAnew
  <2> QED
    BY <2>1, <2>2, <2>3
<1>3. OutcomeInv(g)'
  BY <1>1, <1>2
  DEF OutcomeInv, Mine, Receipted, Disposing, Active, Reserving
<1>4. CleanInv(g)'
  BY <1>1, <1>2 DEF CleanInv, Active, Reserving
<1> QED
  BY <1>3, <1>4

\* The reservation and the work on the directory.
LEMMA ClaimsWork ==
  ASSUME TypeOK, NEW g \in Generators, OutcomeInv(g), CleanInv(g),
         Reserve(g) \/ MakeStage(g) \/ Write(g)
  PROVE  OutcomeInv(g)' /\ CleanInv(g)'
<1> USE GenerationAssumption DEF TypeOK, WorkOK, OutcomeOK, Goto, Alive
<1>1. UNCHANGED <<tx, good, result, saved, dirty, published>>
  BY DEF Reserve, MakeStage, Write, outcome, disk
<1>2. \/ pc[g] = "reserve" /\ pc'[g] = "stage" /\ stage' = stage
      \/ pc[g] = "stage" /\ pc'[g] = "write"
      \/ pc[g] = "write" /\ pc'[g] \in {"verify", "absent"}
  BY DEF Reserve, MakeStage, Write
<1>3. /\ tx[g] = "bundle" => stage'[g]["receipt"] = stage[g]["receipt"]
      /\ tx[g] = "receipt" => stage'[g]["bundle"] = stage[g]["bundle"]
  BY PlaceType DEF Reserve, MakeStage, Write, Transactions
<1>4. \/ lock' = lock /\ pc[g] # "reserve"
      \/ lock' = [lock EXCEPT ![Place(g)] = g]
  BY DEF Reserve, MakeStage, Write, disk
<1>5. OutcomeInv(g)'
  BY <1>1, <1>2 DEF OutcomeInv, Mine, Receipted, Disposing
<1>6. /\ lock'[Output[g]] = g =>
           lock[Output[g]] = g \/ tx[g] = "bundle"
      /\ lock'[g] = g => lock[g] = g \/ tx[g] = "receipt"
  <2>1. Output[g] # g /\ Output[g] \in Places /\ g \in Places
    BY DEF Places
  <2> QED
    BY <1>4, <2>1, PlaceType DEF DiskOK
<1>7. CleanInv(g)'
  BY <1>1, <1>2, <1>3, <1>6 DEF CleanInv, Reserving
<1> QED
  BY <1>5, <1>7

\* The publication.
LEMMA ClaimsPublish ==
  ASSUME TypeOK, NEW g \in Generators, OutcomeInv(g), CleanInv(g), Publish(g)
  PROVE  OutcomeInv(g)' /\ CleanInv(g)'
<1> USE GenerationAssumption DEF TypeOK, WorkOK, OutcomeOK, DiskOK
<1>1. /\ UNCHANGED <<tx, result, saved, dirty, lock>>
      /\ pc[g] = "rename" /\ pc'[g] = "dispose" /\ good'[g] = TRUE
  BY DEF Publish, outcome, Goto, Alive
<1>2. published' = [published EXCEPT ![Place(g)] =
                      [by |-> g, what |-> Content(g)]]
  BY DEF Publish
<1>3. Output[g] # g /\ Output[g] \in Places /\ g \in Places
  BY DEF Places
<1>4. /\ stage'[g]["receipt"] = stage[g]["receipt"]
      /\ stage'[g]["bundle"] =
           IF tx[g] = "bundle" THEN None ELSE stage[g]["bundle"]
  BY DEF Publish, Transactions
<1>5. OutcomeInv(g)'
  <2>1. CASE tx[g] = "bundle"
    <3>1. published'[Output[g]] = [by |-> g, what |-> Content(g)]
      BY <1>2, <1>3, <2>1, PlaceType
    <3>2. published'[Output[g]] # None
      <4>1. published'[Output[g]] \in [by : Generators, what : Inputs]
        BY <2>1, <3>1, ContentType
      <4> QED
        BY <4>1 DEF Inputs
    <3>3. Mine(g)'
      BY <3>1, <3>2 DEF Mine
    <3> QED
      BY <1>1, <2>1, <3>3 DEF OutcomeInv, Disposing
  <2>2. CASE tx[g] = "receipt"
    <3>1. published'[g] = [by |-> g, what |-> result[g]]
      BY <1>2, <1>3, <2>2, PlaceType DEF Content
    <3>2. Receipted(g)'
      BY <1>1, <3>1 DEF Receipted
    <3>3. published'[Output[g]] = published[Output[g]]
      BY <1>2, <1>3, <2>2, PlaceType
    <3>4. Mine(g)' <=> Mine(g)
      BY <3>3 DEF Mine
    <3> QED
      BY <1>1, <2>2, <3>2, <3>4 DEF OutcomeInv, Disposing
  <2> QED
    BY <2>1, <2>2, PlaceType
<1>6. CleanInv(g)'
  BY <1>1, <1>4 DEF CleanInv, Reserving
<1> QED
  BY <1>5, <1>6

\* The clean-up of the directory.
LEMMA ClaimsRemove ==
  ASSUME TypeOK, NEW g \in Generators, OutcomeInv(g), CleanInv(g),
         RemoveStage(g)
  PROVE  OutcomeInv(g)' /\ CleanInv(g)'
<1> USE GenerationAssumption DEF TypeOK, WorkOK, OutcomeOK
<1>1. /\ UNCHANGED <<tx, result, saved, lock, published>>
      /\ pc[g] = "dispose" /\ pc'[g] = "release"
  BY DEF RemoveStage, disk, Goto
<1>2. \/ /\ UNCHANGED <<good, dirty>>
         /\ tx[g] = "bundle" =>
              /\ stage'[g]["receipt"] = stage[g]["receipt"]
              /\ stage'[g]["bundle"] = None
         /\ tx[g] = "receipt" =>
              /\ stage'[g]["bundle"] = stage[g]["bundle"]
              /\ stage'[g]["receipt"] = None
      \/ /\ stage' = stage
         /\ good'[g] = FALSE
         /\ dirty'[g] = dirty[g] \cup {tx[g]}
  BY DEF RemoveStage, Soil, Transactions
<1>3. OutcomeInv(g)'
  BY <1>1, <1>2 DEF OutcomeInv, Mine, Receipted, Disposing
<1>4. CleanInv(g)'
  BY <1>1, <1>2 DEF CleanInv, Reserving
<1> QED
  BY <1>3, <1>4

\* A transaction ends: with its lock, or without it.
LEMMA ClaimsSettle ==
  ASSUME TypeOK, NEW g \in Generators, OutcomeInv(g), CleanInv(g),
         NEW ok \in BOOLEAN, Settle(g, ok),
         UNCHANGED <<stage, published>>,
         ok => pc[g] = "release" /\ good[g] /\ UNCHANGED dirty,
         pc[g] = "release" /\ good[g] /\ ~ok => Soil(g),
         pc[g] \in {"collect", "vacant", "reserve", "release"},
         \/ pc[g] = "release" /\ lock' = [lock EXCEPT ![Place(g)] = None]
            /\ UNCHANGED dirty
         \/ pc[g] # "release" /\ lock' = lock /\ UNCHANGED dirty
         \/ lock' = lock /\ Soil(g)
         \/ lock' = [lock EXCEPT ![Place(g)] = g] /\ Soil(g)
  PROVE  OutcomeInv(g)' /\ CleanInv(g)'
<1> USE GenerationAssumption DEF TypeOK, WorkOK, OutcomeOK
<1>1. good'[g] = FALSE
  BY DEF Settle
<1>2. UNCHANGED dirty \/ dirty'[g] = dirty[g] \cup {tx[g]}
  BY DEF Soil
<1>3. Output[g] # g /\ Output[g] \in Places /\ g \in Places
  BY DEF Places
<1>4. /\ lock'[Output[g]] = g =>
           \/ lock[Output[g]] = g
              /\ (tx[g] = "bundle" =>
                    pc[g] # "release" \/ "bundle" \in dirty'[g])
           \/ tx[g] = "bundle" /\ "bundle" \in dirty'[g]
      /\ lock'[g] = g =>
           \/ lock[g] = g
              /\ (tx[g] = "receipt" =>
                    pc[g] # "release" \/ "receipt" \in dirty'[g])
           \/ tx[g] = "receipt" /\ "receipt" \in dirty'[g]
  BY <1>2, <1>3, PlaceType DEF DiskOK, Soil
<1>5. (Mine(g)' <=> Mine(g)) /\ published' = published /\ stage' = stage
  BY DEF Mine
<1>6. CASE tx[g] = "bundle"
  <2>1. /\ tx'[g] = "receipt" /\ pc'[g] = "vacant" /\ saved' = saved
        /\ result'[g] = IF ok THEN "ready" ELSE "error"
    BY <1>6 DEF Settle, Goto
  <2>2. OutcomeInv(g)'
    BY <1>1, <1>2, <1>5, <1>6, <2>1 DEF OutcomeInv, Disposing, Soil
  <2>3. CleanInv(g)'
    BY <1>2, <1>4, <1>5, <1>6, <2>1 DEF CleanInv, Reserving
  <2> QED
    BY <2>2, <2>3
<1>7. CASE tx[g] = "receipt"
  <2>1. /\ tx'[g] = "receipt" /\ pc'[g] = "done" /\ saved'[g] = ok
        /\ result' = result
    BY <1>7 DEF Settle, Goto
  <2>2. OutcomeInv(g)'
    BY <1>1, <1>2, <1>5, <1>7, <2>1
    DEF OutcomeInv, Disposing, Soil, Receipted
  <2>3. CleanInv(g)'
    BY <1>2, <1>4, <1>5, <1>7, <2>1 DEF CleanInv, Reserving
  <2> QED
    BY <2>2, <2>3
<1> QED
  BY <1>6, <1>7, PlaceType

LEMMA ClaimsStep ==
  ASSUME IInv, [Next]_vars
  PROVE  \A g \in Generators : OutcomeInv(g)' /\ CleanInv(g)'
<1>1. /\ TypeOK
      /\ \A g \in Generators : BeginsAnew(g) /\ OutcomeInv(g) /\ CleanInv(g)
  BY DEF IInv, ReadingInv
<1>2. ASSUME NEW g \in Generators,
             \/ Start(g) \/ Refuse(g) \/ Deadline(g) \/ Crash(g)
             \/ Collect(g) \/ Vacant(g) \/ Reserve(g) \/ MakeStage(g)
             \/ Write(g) \/ Verify(g) \/ FindAbsent(g) \/ Publish(g)
             \/ RemoveStage(g) \/ Release(g) \/ Fail(g) \/ FailReserved(g)
      PROVE  \A h \in Generators : OutcomeInv(h)' /\ CleanInv(h)'
  <2>1. ASSUME NEW h \in Generators \ {g}
        PROVE  OutcomeInv(h)' /\ CleanInv(h)'
    <3>1. pc'[h] = pc[h] /\ tx'[h] = tx[h]
      BY <1>1, <1>2, StepIsOwn DEF TypeOK
    <3>2. /\ stage'[h] = stage[h] /\ good'[h] = good[h]
          /\ result'[h] = result[h] /\ saved'[h] = saved[h]
          /\ dirty'[h] = dirty[h]
      BY <1>1, <1>2, WorkIsOwn
    <3>3. /\ Mine(h)' <=> Mine(h)
          /\ published'[h] = published[h]
          /\ lock'[Output[h]] = h => lock[Output[h]] = h
          /\ lock'[h] = h => lock[h] = h
      BY <1>1, <1>2, ClaimsOfOthers
    <3> QED
      BY <1>1, <3>1, <3>2, <3>3, ClaimsKept
  <2>2. OutcomeInv(g)' /\ CleanInv(g)'
    <3>1. CASE Reserve(g) \/ MakeStage(g) \/ Write(g)
      BY <1>1, <3>1, ClaimsWork
    <3>2. CASE Publish(g)
      BY <1>1, <3>2, ClaimsPublish
    <3>3. CASE RemoveStage(g)
      BY <1>1, <3>3, ClaimsRemove
    <3>4. CASE Release(g)
      <4>1. /\ pc[g] = "release" /\ stage' = stage /\ published' = published
            /\ good[g] \in BOOLEAN
        BY <1>1, <3>4 DEF Release, TypeOK, WorkOK
      <4>2. CASE /\ lock' = [lock EXCEPT ![Place(g)] = None]
                 /\ Settle(g, good[g]) /\ UNCHANGED dirty
        BY <1>1, <4>1, <4>2, ClaimsSettle
      <4>3. CASE Settle(g, FALSE) /\ Soil(g) /\ lock' = lock
        BY <1>1, <4>1, <4>3, ClaimsSettle
      <4> QED
        BY <3>4, <4>2, <4>3 DEF Release
    <3>5. CASE Fail(g)
      <4>1. CASE pc[g] \in Reserving
        <5>1. /\ UNCHANGED <<tx, good, stage, result, saved, dirty, lock,
                             published>>
              /\ pc[g] \in Reserving \ Disposing /\ pc'[g] = "dispose"
          BY <1>1, <3>5, <4>1
          DEF Fail, Goto, disk, TypeOK, WorkOK, Reserving, Disposing
        <5>2. OutcomeInv(g)'
          BY <1>1, <5>1
          DEF OutcomeInv, Mine, Receipted, Disposing, Reserving
        <5>3. CleanInv(g)'
          BY <1>1, <5>1 DEF CleanInv, Disposing, Reserving
        <5> QED
          BY <5>2, <5>3
      <4>2. CASE pc[g] \notin Reserving
        <5>1. /\ Settle(g, FALSE) /\ UNCHANGED <<stage, dirty, lock, published>>
              /\ pc[g] \in {"collect", "vacant", "reserve"}
          BY <3>5, <4>2 DEF Fail, disk, Active, Reserving
        <5> QED
          BY <1>1, <5>1, ClaimsSettle
      <4> QED
        BY <4>1, <4>2
    <3>6. CASE FailReserved(g)
      <4>1. /\ Settle(g, FALSE) /\ Soil(g) /\ UNCHANGED <<stage, published>>
            /\ lock' = [lock EXCEPT ![Place(g)] = g]
            /\ pc[g] = "reserve"
        BY <3>6 DEF FailReserved, Alive
      <4> QED
        BY <1>1, <4>1, ClaimsSettle
    <3>7. CASE \/ Start(g) \/ Deadline(g) \/ Crash(g) \/ Collect(g)
               \/ Vacant(g) \/ Verify(g) \/ FindAbsent(g) \/ Refuse(g)
      BY <1>1, <3>7, ClaimsMove
    <3> QED
      BY <1>2, <3>1, <3>2, <3>3, <3>4, <3>5, <3>6, <3>7
  <2> QED
    BY <2>1, <2>2
<1>3. ASSUME Environment \/ UNCHANGED vars
      PROVE  \A h \in Generators : OutcomeInv(h)' /\ CleanInv(h)'
  <2>1. UNCHANGED <<pc, tx, stage, good, result, saved, dirty, lock, published>>
    BY <1>3 DEF Environment, FinalizeRun, UpdateSession, ExportSession,
                generator, vars, outcome, disk
  <2>2. \A h \in Generators : Mine(h)' <=> Mine(h)
    BY <2>1 DEF Mine
  <2> QED
    BY <1>1, <2>1, <2>2, ClaimsKept
<1> QED
  BY <1>2, <1>3, StepCases

LEMMA IInvInit == Init => IInv
<1> SUFFICES ASSUME Init PROVE IInv
  OBVIOUS
<1>1. TypeOK
  BY TypeInit
<1>2. SessionFollows /\ OneWriterPerOutput
  BY DEF Init, SessionFollows, OneWriterPerOutput, Reserving
<1>3. \A g \in Generators : ReadingInv(g)
  BY DEF Init, ReadingInv, BeginsAnew, ReadIsBehind, BaseIsBetween, HasRead,
         HasVerified
<1>4. \A g \in Generators : OutcomeInv(g) /\ CleanInv(g)
  BY GenerationAssumption
  DEF Init, OutcomeInv, CleanInv, Mine, Disposing, Transactions, Places
<1> QED
  BY <1>1, <1>2, <1>3, <1>4 DEF IInv

LEMMA IInvStep ==
  ASSUME IInv, [Next]_vars
  PROVE  IInv'
<1>1. TypeOK' /\ SessionFollows' /\ OneWriterPerOutput'
  BY TypeStep, FollowsStep, OneWriterStep DEF IInv
<1>2. \A g \in Generators : ReadingInv(g)' /\ OutcomeInv(g)' /\ CleanInv(g)'
  BY ReadingsStep, ClaimsStep
<1> QED
  BY <1>1, <1>2 DEF IInv

\* The inductive invariant holds in every reachable state: reservations
\* belong to their generators, and what has been read is never ahead of the
\* inputs nor, once read a second time, different from what they were.
THEOREM GenerationInvariant == Spec => []IInv
BY IInvInit, IInvStep, PTL DEF Spec

\* What a generator says of its report in the end is so.
THEOREM ReceiptsTold == Spec => []ReceiptsAreTrue
<1>1. IInv => ReceiptsAreTrue
  <2> SUFFICES ASSUME IInv, NEW g \in Generators
               PROVE  /\ result[g] = "ready" => Mine(g) /\ "bundle" \notin dirty[g]
                      /\ result[g] = "error" /\ "bundle" \notin dirty[g] => ~Mine(g)
                      /\ saved[g] => Receipted(g) /\ "receipt" \notin dirty[g]
    BY DEF ReceiptsAreTrue, Mine, Receipted
  <2>1. OutcomeInv(g) /\ tx[g] \in {"bundle", "receipt"}
    BY PlaceType DEF IInv, TypeOK
  <2>2. result[g] = "error" => None # "error"
    BY GenerationAssumption
  <2> QED
    BY <2>1, <2>2 DEF OutcomeInv, Disposing
<1> QED
  BY <1>1, GenerationInvariant, PTL

\* A generator that has ended leaves nothing behind.
THEOREM NothingIsLeft == Spec => []NothingLeftBehind
<1>1. IInv => NothingLeftBehind
  <2> SUFFICES ASSUME IInv, NEW g \in Generators, pc[g] = "done"
               PROVE  /\ \A t \in Transactions \ dirty[g] : stage[g][t] = None
                      /\ "bundle" \notin dirty[g] => lock[Output[g]] # g
                      /\ "receipt" \notin dirty[g] => lock[g] # g
    BY DEF NothingLeftBehind
  <2>1. CleanInv(g) /\ tx[g] \in {"bundle", "receipt"}
    BY PlaceType DEF IInv, TypeOK
  <2> QED
    BY <2>1 DEF CleanInv, Reserving, Transactions
<1> QED
  BY <1>1, GenerationInvariant, PTL

\* Two generators never prepare a report for the same output at a time.
THEOREM OutputIsReserved == Spec => []OneWriterPerOutput
<1>1. IInv => OneWriterPerOutput
  BY DEF IInv
<1> QED
  BY <1>1, GenerationInvariant, PTL

\* Nothing is published after the deadline.
THEOREM DeadlineHolds == Spec => NothingAfterDeadline
<1>1. ASSUME IInv, [Next]_vars
      PROVE  [\A p \in Places :
                published'[p] # published[p] => ~aborted[published'[p].by]]_vars
  <2>1. ASSUME NEW g \in Generators, Publish(g)
        PROVE  \A p \in Places :
                 published'[p] # published[p] => ~aborted[published'[p].by]
    <3>1. /\ ~aborted[g]
          /\ published' = [published EXCEPT ![Place(g)] =
                             [by |-> g, what |-> Content(g)]]
      BY <2>1 DEF Publish, Alive
    <3> QED
      BY <1>1, <3>1 DEF IInv, TypeOK, DiskOK
  <2>2. ASSUME NEW g \in Generators,
               \/ Start(g) \/ Refuse(g) \/ Deadline(g) \/ Crash(g)
               \/ Collect(g) \/ Vacant(g) \/ Reserve(g) \/ MakeStage(g)
               \/ Write(g) \/ Verify(g) \/ FindAbsent(g) \/ RemoveStage(g)
               \/ Release(g) \/ Fail(g) \/ FailReserved(g)
        PROVE  published' = published
    BY <2>2 DEF Start, Refuse, Deadline, Crash, Collect, Vacant, Reserve,
                MakeStage, Write, Verify, FindAbsent, RemoveStage, Release,
                Fail, FailReserved, disk
  <2>3. Environment \/ UNCHANGED vars => published' = published
    BY DEF Environment, FinalizeRun, UpdateSession, ExportSession, generator,
           vars, disk
  <2> QED
    BY <1>1, <2>1, <2>2, <2>3, StepCases
<1> QED
  BY <1>1, GenerationInvariant, PTL DEF Spec, NothingAfterDeadline

-----------------------------------------------------------------------------
(* The refinement. *)

\* A published bundle shows the moment between the readings.
LEMMA BundleShowsBase ==
  ASSUME IInv, NEW g \in Generators, pc[g] = "rename", tx[g] = "bundle"
  PROVE  /\ base[g] # None /\ base[g] \in Inputs
         /\ base[g].events = base[g].state
         /\ Content(g) = base[g]
<1> USE DEF IInv, TypeOK, ReadingOK
<1>1. BaseIsBetween(g) /\ ReadIsBehind(g)
  BY DEF ReadingInv
<1>2. HasVerified(g, 1) /\ HasVerified(g, 4) /\ HasVerified(g, 5)
      /\ HasRead(g, 7)
  BY DEF HasVerified, HasRead
<1>3. base[g] # None /\ base[g] \in Inputs
  BY <1>1 DEF BaseIsBetween, Optional
<1>4. /\ base[g].run = snap[g].run
      /\ base[g].events = snap[g].manifest.events
      /\ base[g].state = snap[g].manifest.state
      /\ snap[g].manifest.events = snap[g].manifest.state
  BY <1>1, <1>2 DEF BaseIsBetween, ReadIsBehind
<1>5. Content(g) = base[g]
  BY <1>3, <1>4, ContentType DEF Inputs
<1> QED
  BY <1>3, <1>4, <1>5

LEMMA LedgerInit == Init => Ledger!Init
<1> SUFFICES ASSUME Init PROVE Ledger!Init
  OBVIOUS
<1>1. Current \in [run : BOOLEAN, events : Nat, state : Nat]
  BY DEF Init, Current
<1>2. \A o \in Outputs : published[o] = None
  BY DEF Init, Places
<1> QED
  BY <1>1, <1>2 DEF Init, Ledger!Init

LEMMA LedgerStep ==
  ASSUME IInv, IInv', [Next]_vars
  PROVE  [Ledger!Next]_(<<Current, base, [o \in Outputs |-> published[o]]>>)
<1> DEFINE shelf == [o \in Outputs |-> published[o]]
<1> USE GenerationAssumption
<1>1. TypeOK /\ TypeOK'
  BY DEF IInv
<1>2. CASE UNCHANGED <<runFinal, events, state, base, published>>
  BY <1>2 DEF Current
<1>3. CASE Environment
  <2>1. UNCHANGED <<base, published>>
    BY <1>3 DEF Environment, FinalizeRun, UpdateSession, ExportSession,
                generator, reading, disk
  <2>2. Current' \in [run : BOOLEAN, events : Nat, state : Nat]
    BY <1>1 DEF TypeOK, SourceOK, Current
  <2> QED
    BY <2>1, <2>2 DEF Ledger!Next, Ledger!Change
<1>4. ASSUME NEW g \in Generators, Forget(g), UNCHANGED <<source, published>>
      PROVE  Ledger!Drop(g)
  BY <1>4 DEF Forget, source, Current, Ledger!Drop
<1>5. ASSUME NEW g \in Generators, Crash(g) \/ Fail(g) \/ FailReserved(g)
      PROVE  Ledger!Drop(g)
  BY <1>4, <1>5 DEF Crash, Fail, FailReserved, disk
<1>6. ASSUME NEW g \in Generators, Write(g), tx[g] = "bundle"
      PROVE  Ledger!Take(g)
  <2>1. base[g] = None
    BY <1>6 DEF Write, Alive, IInv, ReadingInv, BaseIsBetween
  <2> QED
    BY <1>6, <2>1 DEF Write, source, disk, Current, Ledger!Take
<1>7. ASSUME NEW g \in Generators, Publish(g), tx[g] = "bundle"
      PROVE  Ledger!Publish(g, Output[g])
  <2>1. Place(g) = Output[g] /\ Output[g] \in Outputs /\ Output[g] \in Places
    BY <1>1, <1>7, PlaceType DEF TypeOK, Places
  <2>2. /\ base[g] # None /\ base[g].events = base[g].state
        /\ Content(g) = base[g]
    BY <1>7, BundleShowsBase DEF Publish, Alive
  <2>3. shelf[Output[g]] = None
    BY <1>7, <2>1 DEF Publish
  <2>4. published' = [published EXCEPT ![Output[g]] =
                        [by |-> g, what |-> base[g]]]
    BY <1>7, <2>1, <2>2 DEF Publish
  <2>5. shelf' = [shelf EXCEPT ![Output[g]] = [by |-> g, what |-> base[g]]]
    BY <1>1, <2>1, <2>4 DEF TypeOK, DiskOK, Places
  <2>6. base' = [base EXCEPT ![g] = None] /\ Current' = Current
    BY <1>7 DEF Publish, Forget, source, Current
  <2> QED
    BY <2>2, <2>3, <2>5, <2>6 DEF Ledger!Publish, Ledger!Settled
<1>8. ASSUME NEW g \in Generators, Publish(g), tx[g] = "receipt"
      PROVE  Ledger!Drop(g)
  <2>1. Place(g) = g /\ g \notin Outputs
    BY <1>1, <1>8, PlaceType DEF TypeOK
  <2>2. shelf' = shelf
    BY <1>1, <1>8, <2>1 DEF Publish, TypeOK, DiskOK, Places
  <2> QED
    BY <1>8, <2>2 DEF Publish, Forget, source, Current, Ledger!Drop
<1>9. ASSUME NEW g \in Generators,
             \/ Start(g) \/ Refuse(g) \/ Deadline(g) \/ Collect(g) \/ Vacant(g)
             \/ Reserve(g) \/ MakeStage(g) \/ Verify(g) \/ FindAbsent(g)
             \/ RemoveStage(g) \/ Release(g)
             \/ (Write(g) /\ tx[g] = "receipt")
      PROVE  UNCHANGED <<runFinal, events, state, base, published>>
  BY <1>9 DEF Start, Refuse, Deadline, Collect, Vacant, Reserve, MakeStage,
              Verify, FindAbsent, RemoveStage, Release, Write, source,
              reading, disk
<1>10. UNCHANGED vars => UNCHANGED <<runFinal, events, state, base, published>>
  BY DEF vars, source, reading, disk
<1>11. \A g \in Generators : tx[g] \in {"bundle", "receipt"}
  BY <1>1, PlaceType DEF TypeOK
<1>12. ASSUME NEW g \in Generators,
              \/ Ledger!Take(g) \/ Ledger!Drop(g)
              \/ Ledger!Publish(g, Output[g])
       PROVE  Ledger!Next
  BY <1>12 DEF Ledger!Next
<1>13. ASSUME NEW g \in Generators,
              \/ Start(g) \/ Refuse(g) \/ Deadline(g) \/ Crash(g)
              \/ Collect(g) \/ Vacant(g) \/ Reserve(g) \/ MakeStage(g)
              \/ Write(g) \/ Verify(g) \/ FindAbsent(g) \/ Publish(g)
              \/ RemoveStage(g) \/ Release(g) \/ Fail(g) \/ FailReserved(g)
       PROVE  \/ Ledger!Take(g) \/ Ledger!Drop(g)
              \/ Ledger!Publish(g, Output[g])
              \/ UNCHANGED <<runFinal, events, state, base, published>>
  <2>1. CASE Crash(g) \/ Fail(g) \/ FailReserved(g)
    BY <1>5, <2>1
  <2>2. CASE Write(g)
    BY <1>6, <1>9, <1>11, <2>2
  <2>3. CASE Publish(g)
    BY <1>7, <1>8, <1>11, <2>3
  <2>4. CASE \/ Start(g) \/ Refuse(g) \/ Deadline(g) \/ Collect(g)
             \/ Vacant(g) \/ Reserve(g) \/ MakeStage(g) \/ Verify(g)
             \/ FindAbsent(g) \/ RemoveStage(g) \/ Release(g)
    BY <1>9, <2>4
  <2> QED
    BY <1>13, <2>1, <2>2, <2>3, <2>4
<1>14. \/ Environment \/ Ledger!Next
       \/ UNCHANGED <<runFinal, events, state, base, published>>
  BY <1>10, <1>12, <1>13, StepCases
<1> QED
  BY <1>2, <1>3, <1>14

\* Report generation implements the abstract one: every report in an output
\* directory shows its inputs as they all were at one moment, with the session
\* between two updates, and is never replaced.
THEOREM GenerationImplementsLedger == Spec => LedgerSpec
BY LedgerInit, LedgerStep, GenerationInvariant, PTL
DEF Spec, LedgerSpec, Ledger!Spec
=============================================================================
