--------------------------- MODULE BarrierProofs ----------------------------
(***************************************************************************)
(* Safety of barrier.hpp for every finite set of threads, every number of  *)
(* rounds and every width of the generation counter: the invariants the    *)
(* runs of MCBarrier check, and the safety part of the refinement.         *)
(***************************************************************************)
EXTENDS Barrier, FiniteSetTheorems, TLAPS

-----------------------------------------------------------------------------
(* Facts about the helpers                                                 *)

\* The generation after an opening differs from the one before it, wrapped or
\* not, and stays in range.
LEMMA NextGenerationDiffers ==
  ASSUME TypeOK
  PROVE  NextGeneration \in 0..(GenerationLimit - 1) /\ NextGeneration # generation
BY GenerationAssumption DEF TypeOK, NextGeneration

LEMMA NumThreadsType == num_threads \in Nat
BY ThreadsAssumption, FS_CardinalityType DEF num_threads

LEMMA ParkedIsFinite ==
  /\ IsFiniteSet(ParkedThreads)
  /\ Cardinality(ParkedThreads) \in Nat
  /\ ParkedThreads \subseteq Threads
<1>1. ParkedThreads \in SUBSET Threads
  BY DEF ParkedThreads
<1>2. IsFiniteSet(ParkedThreads)
  BY <1>1, ThreadsAssumption, FS_Subset
<1>. QED
  BY <1>1, <1>2, FS_CardinalityType

\* When count is 1 a thread outside the barrier is the only one missing.
LEMMA LastArrival ==
  ASSUME CountIsMissing, count = 1, NEW t \in Threads, pc[t] = "outside"
  PROVE  \A s \in Threads : s # t => Parked(s)
<1>1. t \notin ParkedThreads
  BY DEF ParkedThreads, Parked
<1>2. ParkedThreads \in SUBSET (Threads \ {t})
  BY <1>1, ParkedIsFinite
<1>3. /\ IsFiniteSet(Threads \ {t})
      /\ Cardinality(Threads \ {t}) = num_threads - 1
  BY ThreadsAssumption, FS_RemoveElement DEF num_threads
<1>4. Cardinality(ParkedThreads) = num_threads - 1
  BY NumThreadsType, ParkedIsFinite DEF CountIsMissing
<1>5. ParkedThreads = Threads \ {t}
  BY <1>2, <1>3, <1>4, FS_Subset
<1>. QED
  BY <1>5 DEF ParkedThreads

-----------------------------------------------------------------------------
(* The inductive invariant                                                 *)

LEMMA InitIInv == Init => IInv
<1> SUFFICES ASSUME Init PROVE IInv
  OBVIOUS
<1>1. TypeOK
  BY NumThreadsType, RoundsAssumption, GenerationAssumption DEF Init, TypeOK
<1>2. \A t \in Threads : ~Parked(t)
  BY DEF Init, Parked
<1>3. ParkedThreads = {}
  BY <1>2 DEF ParkedThreads
<1>4. CountIsMissing
  <2>1. Threads # {} => num_threads # 0
    BY ThreadsAssumption, FS_EmptySet DEF num_threads
  <2>. QED
    BY <1>3, <2>1, FS_EmptySet, NumThreadsType DEF Init, CountIsMissing
<1>5. NoLostWakeup /\ SameEpoch /\ CallsLeft
  BY <1>2 DEF Init, NoLostWakeup, SameEpoch, Openings, Begun, CallsLeft
<1>. QED
  BY <1>1, <1>4, <1>5 DEF IInv

LEMMA ArriveLastIInv ==
  ASSUME IInv, NEW t \in Threads, ArriveLast(t)
  PROVE  IInv'
<1> USE DEF IInv
<1>1. TypeOK'
  BY NumThreadsType, NextGenerationDiffers DEF TypeOK, ArriveLast, ResetCount
<1>2. \A s \in Threads : s # t => Parked(s)
  BY LastArrival DEF ArriveLast
<1>3. \A s \in Threads : ~Parked(s)'
  BY <1>2, NextGenerationDiffers DEF TypeOK, ArriveLast, Parked, Opened
<1>4. CountIsMissing'
  <2>1. ParkedThreads' = {}
    BY <1>3 DEF ParkedThreads
  <2>2. num_threads # 0
    BY ThreadsAssumption, FS_EmptySet DEF num_threads
  <2>. QED
    BY <2>1, <2>2, FS_EmptySet, NumThreadsType
    DEF CountIsMissing, ArriveLast, ResetCount, num_threads
<1>5. SameEpoch'
  <2>1. \A s \in Threads : Openings(s)' = Openings(s) + 1
    <3>1. ASSUME NEW s \in Threads, s # t
          PROVE  Openings(s)' = Openings(s) + 1
      BY <1>2, <1>3, <3>1 DEF TypeOK, ArriveLast, Openings, Begun, Parked
    <3>2. Openings(t)' = Openings(t) + 1
      BY <1>3 DEF TypeOK, ArriveLast, Openings, Begun, Parked
    <3>. QED
      BY <3>1, <3>2
  <2>. QED
    BY <2>1 DEF SameEpoch
<1>6. NoLostWakeup'
  BY DEF NoLostWakeup, ArriveLast, NotifyAll
<1>7. CallsLeft'
  BY DEF TypeOK, CallsLeft, ArriveLast
<1>. QED
  BY <1>1, <1>4, <1>5, <1>6, <1>7

LEMMA ArriveEarlyIInv ==
  ASSUME IInv, NEW t \in Threads, ArriveEarly(t)
  PROVE  IInv'
<1> USE DEF IInv
<1>1. count > 0 /\ count - 1 \in 0..num_threads /\ count - 1 > 0
  BY NumThreadsType DEF TypeOK, CountIsMissing, ArriveEarly
<1>2. TypeOK'
  BY <1>1, NumThreadsType DEF TypeOK, ArriveEarly, num_threads
<1>3. \A s \in Threads : Parked(s)' <=> (Parked(s) \/ s = t)
  BY DEF TypeOK, ArriveEarly, Parked, Opened
<1>4. CountIsMissing'
  <2>1. t \notin ParkedThreads
    BY DEF ParkedThreads, Parked, ArriveEarly
  <2>2. ParkedThreads' = ParkedThreads \cup {t}
    BY <1>3 DEF ParkedThreads
  <2>3. Cardinality(ParkedThreads') = Cardinality(ParkedThreads) + 1
    BY <2>1, <2>2, ParkedIsFinite, FS_AddElement
  <2>4. count' = count - 1 /\ num_threads' = num_threads
    BY DEF ArriveEarly, num_threads
  <2>. QED
    BY <1>1, <2>3, <2>4, NumThreadsType, ParkedIsFinite DEF CountIsMissing
<1>5. SameEpoch'
  <2>1. \A s \in Threads : Openings(s)' = Openings(s)
    BY <1>3 DEF TypeOK, ArriveEarly, Openings, Begun, Parked
  <2>. QED
    BY <2>1 DEF SameEpoch
<1>6. NoLostWakeup'
  BY <1>3 DEF NoLostWakeup, ArriveEarly, TypeOK
<1>7. CallsLeft'
  BY DEF TypeOK, CallsLeft, ArriveEarly
<1>. QED
  BY <1>2, <1>4, <1>5, <1>6, <1>7

\* A step that moves nobody into or out of the parked threads.
LEMMA SameParked ==
  ASSUME IInv, count' = count,
         \A s \in Threads : Parked(s)' <=> Parked(s),
         \A s \in Threads : Begun(s)' = Begun(s)
  PROVE  CountIsMissing' /\ SameEpoch'
<1>1. ParkedThreads' = ParkedThreads
  BY DEF ParkedThreads
<1>2. CountIsMissing'
  BY <1>1 DEF IInv, CountIsMissing, num_threads
<1>3. \A s \in Threads : Openings(s)' = Openings(s)
  BY DEF Openings
<1>. QED
  BY <1>2, <1>3 DEF IInv, SameEpoch

LEMMA QuietStepIInv ==
  ASSUME IInv, NEW t \in Threads,
         SpuriousWakeup(t) \/ WakeAndLeave(t) \/ WakeAndBlock(t) \/ Return(t)
  PROVE  IInv'
<1> USE DEF IInv
<1>1. TypeOK'
  BY RoundsAssumption
  DEF TypeOK, CallsLeft, SpuriousWakeup, WakeAndLeave, WakeAndBlock, Return, num_threads
<1>2. \A s \in Threads : Parked(s)' <=> Parked(s)
  BY DEF TypeOK, SpuriousWakeup, WakeAndLeave, WakeAndBlock, Return, Parked, Opened
<1>3. \A s \in Threads : Begun(s)' = Begun(s)
  BY DEF TypeOK, SpuriousWakeup, WakeAndLeave, WakeAndBlock, Return, Begun
<1>4. CountIsMissing' /\ SameEpoch'
  BY <1>2, <1>3, SameParked DEF SpuriousWakeup, WakeAndLeave, WakeAndBlock, Return
<1>5. NoLostWakeup'
  BY <1>2
  DEF TypeOK, NoLostWakeup, SpuriousWakeup, WakeAndLeave, WakeAndBlock, Return, Parked
<1>6. CallsLeft'
  BY DEF TypeOK, CallsLeft, SpuriousWakeup, WakeAndLeave, WakeAndBlock, Return
<1>. QED
  BY <1>1, <1>4, <1>5, <1>6

LEMMA NextIInv == IInv /\ [Next]_vars => IInv'
<1> SUFFICES ASSUME IInv, [Next]_vars PROVE IInv'
  OBVIOUS
<1>1. ASSUME NEW t \in Threads, ArriveLast(t) PROVE IInv'
  BY <1>1, ArriveLastIInv
<1>2. ASSUME NEW t \in Threads, ArriveEarly(t) PROVE IInv'
  BY <1>2, ArriveEarlyIInv
<1>3. ASSUME NEW t \in Threads,
             SpuriousWakeup(t) \/ WakeAndLeave(t) \/ WakeAndBlock(t) \/ Return(t)
      PROVE  IInv'
  BY <1>3, QuietStepIInv
<1>4. CASE UNCHANGED vars
  BY <1>4
  DEF vars, IInv, TypeOK, NoLostWakeup, SameEpoch, Openings, Begun, CountIsMissing,
      ParkedThreads, Parked, Opened, num_threads, CallsLeft
<1>. QED
  BY <1>1, <1>2, <1>3, <1>4 DEF Next, Step, Finished

\* Everything the safety run checks holds for all values of the constants.
THEOREM BarrierInvariant == Spec => []IInv
BY InitIInv, NextIInv, PTL DEF Spec

\* The range of every member of the class, and of the program counters.
THEOREM BarrierTyping == Spec => []TypeOK
<1>1. IInv => TypeOK
  BY DEF IInv
<1>. QED
  BY <1>1, BarrierInvariant, PTL

\* A thread blocked in cv.wait still has the notify_all of its generation to
\* come.
THEOREM NoWakeupLost == Spec => []NoLostWakeup
<1>1. IInv => NoLostWakeup
  BY DEF IInv
<1>. QED
  BY <1>1, BarrierInvariant, PTL

\* A copy of the wrapping generation counter is never two openings behind, so
\* the != of the predicate tells an opened barrier from one still gathering.
THEOREM AllSeeTheSameEpoch == Spec => []SameEpoch
<1>1. IInv => SameEpoch
  BY DEF IInv
<1>. QED
  BY <1>1, BarrierInvariant, PTL

\* count is the number of threads still to arrive, and --count never wraps.
THEOREM CountIsTheMissing == Spec => []CountIsMissing
<1>1. IInv => CountIsMissing
  BY DEF IInv
<1>. QED
  BY <1>1, BarrierInvariant, PTL

\* No call of arrive_and_wait returns before every thread has begun its call
\* of the same round.
LEMMA IInvNobodyEarly == IInv => NobodyEarly
<1> SUFFICES ASSUME IInv, NEW s \in Threads, NEW t \in Threads
             PROVE  calls[t] <= Begun(s)
  BY DEF NobodyEarly
<1>1. calls[t] <= Openings(t)
  BY DEF IInv, TypeOK, Openings, Begun, Parked
<1>2. Openings(s) <= Begun(s)
  BY DEF IInv, TypeOK, Openings, Begun
<1>3. Openings(t) = Openings(s)
  BY DEF IInv, SameEpoch
<1>4. Openings(t) \in Int /\ Openings(s) \in Int /\ calls[t] \in Int /\ Begun(s) \in Int
  BY DEF IInv, TypeOK, Openings, Begun
<1>. QED
  BY <1>1, <1>2, <1>3, <1>4

\* No thread leaves arrive_and_wait before every thread has called it as often as
\* the one that leaves.
THEOREM NobodyIsEarly == Spec => []NobodyEarly
BY IInvNobodyEarly, BarrierInvariant, PTL

-----------------------------------------------------------------------------
(* The refinement                                                          *)

LEMMA InitKeepsPromise == Init => Promise!Init
BY DEF Init, Promise!Init, Begun

\* Arrivals map to Arrive, the return of a call to Leave, and everything the
\* condition variable does in between to a stutter.
LEMMA StepKeepsPromise == IInv /\ [Next]_vars => [Promise!Next]_(Promise!vars)
<1> SUFFICES ASSUME IInv, [Next]_vars
             PROVE  Promise!Next \/ UNCHANGED Promise!vars
  OBVIOUS
<1> USE DEF IInv, TypeOK
<1>1. ASSUME NEW t \in Threads, ArriveLast(t) \/ ArriveEarly(t)
      PROVE  Promise!Arrive(t)
  <2>1. /\ calls' = calls
        /\ pc[t] = "outside" /\ pc'[t] # "outside"
        /\ calls[t] < Rounds
        /\ \A s \in Threads \ {t} : pc'[s] = pc[s]
    BY <1>1 DEF ArriveLast, ArriveEarly
  <2>2. [s \in Threads |-> Begun(s)]' =
          [[s \in Threads |-> Begun(s)] EXCEPT ![t] = @ + 1]
    <3>1. \A s \in Threads :
            Begun(s)' = IF s = t THEN Begun(s) + 1 ELSE Begun(s)
      BY <2>1 DEF Begun
    <3>. QED
      BY <3>1
  <2>3. Begun(t) = calls[t]
    BY <2>1 DEF Begun
  <2>. QED
    BY <2>1, <2>2, <2>3 DEF Promise!Arrive
<1>2. ASSUME NEW t \in Threads, Return(t)
      PROVE  Promise!Leave(t)
  <2>1. Begun(t) = Openings(t) /\ calls[t] < Begun(t)
    BY <1>2 DEF Return, Openings, Begun, Parked
  <2>2. \A s \in Threads : Openings(s) <= Begun(s)
    BY DEF Openings, Begun
  <2>3. \A s \in Threads : Begun(t) <= Begun(s)
    BY <2>1, <2>2 DEF SameEpoch
  <2>4. [s \in Threads |-> Begun(s)]' = [s \in Threads |-> Begun(s)]
    BY <1>2 DEF Return, Begun
  <2>. QED
    BY <1>2, <2>1, <2>3, <2>4 DEF Return, Promise!Leave
<1>3. ASSUME NEW t \in Threads,
             SpuriousWakeup(t) \/ WakeAndLeave(t) \/ WakeAndBlock(t)
      PROVE  UNCHANGED Promise!vars
  BY <1>3 DEF SpuriousWakeup, WakeAndLeave, WakeAndBlock, Begun, Promise!vars
<1>4. CASE UNCHANGED vars
  BY <1>4 DEF vars, Begun, Promise!vars
<1>. QED
  BY <1>1, <1>2, <1>3, <1>4 DEF Next, Step, Finished, Promise!Next

\* The mutex, the counter, the wrapping generation and the condition variable
\* together give exactly what PhaseBarrier promises, so the race modules may
\* use the contract in their place.
THEOREM BarrierKeepsPromise == Spec => ImplementsPhaseBarrierSafely
BY InitKeepsPromise, StepKeepsPromise, BarrierInvariant, PTL
DEF Spec, ImplementsPhaseBarrierSafely, Promise!Spec

=============================================================================
