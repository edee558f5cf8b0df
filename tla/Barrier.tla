------------------------------ MODULE Barrier -------------------------------
(***************************************************************************)
(* The reusable barrier of barrier.hpp.  Between lock() and the release of *)
(* the mutex (by the return, or inside cv.wait) a thread of this class     *)
(* touches nothing but the members the mutex protects, so each critical    *)
(* section is one action: from the call to the first release, and from     *)
(* every wake-up to the next release.  A thread blocked in cv.wait is in   *)
(* cv; notify_all empties cv, and a spurious wake-up takes one thread out  *)
(* of it at any time.                                                      *)
(***************************************************************************)
EXTENDS Naturals, FiniteSets

CONSTANTS
  Threads,          \* the threads that share the barrier
  Rounds,           \* calls each thread makes: bounds the run of the callers
  GenerationLimit   \* generation wraps at this value (2^64 for size_t)

ASSUME ThreadsAssumption == IsFiniteSet(Threads)
ASSUME RoundsAssumption == Rounds \in Nat
ASSUME GenerationAssumption == GenerationLimit \in Nat /\ GenerationLimit >= 2

VARIABLES
  count,               \* arrivals still missing in this generation
  generation,          \* how often the barrier has opened, modulo the limit
  cv,                  \* the threads blocked in cv.wait
  current_generation,  \* each thread's copy of generation, taken on arrival
  pc,                  \* where each thread is in arrive_and_wait
  calls                \* the calls each thread has returned from

vars == <<count, generation, cv, current_generation, pc, calls>>

\* The constructor's argument: the callers build the barrier with the number
\* of the threads that will use it.
num_threads == Cardinality(Threads)

Init ==
  /\ count = num_threads
  /\ generation = 0
  /\ cv = {}
  /\ current_generation = [t \in Threads |-> 0]
  /\ pc = [t \in Threads |-> "outside"]
  /\ calls = [t \in Threads |-> 0]

-----------------------------------------------------------------------------
(* Mutated forms of the helpers below, one plausible slip each.            *)
(* StuckGeneration: opening the barrier forgets generation++.              *)
(* LeaveOnAnyWakeup: cv.wait without its predicate.                        *)
(* NotifyOne: notify_one where notify_all is needed.                       *)
StuckGeneration == generation
LeaveOnAnyWakeup(t) == TRUE
NotifyOne == IF cv = {} THEN {} ELSE {CHOOSE t \in cv : TRUE}

-----------------------------------------------------------------------------
\* generation++ on a size_t
NextGeneration ==
  IF generation = GenerationLimit - 1 THEN 0 ELSE generation + 1

\* the predicate handed to cv.wait
Opened(t) == current_generation[t] # generation

\* the threads cv.notify_all takes out of cv.wait
NotifyAll == cv

\* count = num_threads
ResetCount == num_threads

\* arrive_and_wait by the last thread of the generation: it opens the
\* barrier, resets it for the next generation and wakes the others.
ArriveLast(t) ==
  /\ pc[t] = "outside"
  /\ calls[t] < Rounds
  /\ count = 1
  /\ current_generation' = [current_generation EXCEPT ![t] = generation]
  /\ generation' = NextGeneration
  /\ count' = ResetCount
  /\ cv' = cv \ NotifyAll
  /\ pc' = [pc EXCEPT ![t] = "returning"]
  /\ UNCHANGED calls

\* arrive_and_wait by any other thread: the predicate is false on arrival,
\* so the thread blocks.
ArriveEarly(t) ==
  /\ pc[t] = "outside"
  /\ calls[t] < Rounds
  /\ count # 1
  /\ current_generation' = [current_generation EXCEPT ![t] = generation]
  /\ count' = count - 1
  /\ cv' = cv \cup {t}
  /\ pc' = [pc EXCEPT ![t] = "waiting"]
  /\ UNCHANGED <<generation, calls>>

\* cv.wait may wake a thread nobody notified.
SpuriousWakeup(t) ==
  /\ t \in cv
  /\ cv' = cv \ {t}
  /\ UNCHANGED <<count, generation, current_generation, pc, calls>>

\* A woken thread has the mutex again and finds the predicate true.
WakeAndLeave(t) ==
  /\ pc[t] = "waiting"
  /\ t \notin cv
  /\ Opened(t)
  /\ pc' = [pc EXCEPT ![t] = "returning"]
  /\ UNCHANGED <<count, generation, cv, current_generation, calls>>

\* A woken thread finds the predicate false and blocks again.
WakeAndBlock(t) ==
  /\ pc[t] = "waiting"
  /\ t \notin cv
  /\ ~Opened(t)
  /\ cv' = cv \cup {t}
  /\ UNCHANGED <<count, generation, current_generation, pc, calls>>

\* unique_lock releases the mutex and the call returns to its caller.
Return(t) ==
  /\ pc[t] = "returning"
  /\ pc' = [pc EXCEPT ![t] = "outside"]
  /\ calls' = [calls EXCEPT ![t] = @ + 1]
  /\ UNCHANGED <<count, generation, cv, current_generation>>

\* Every thread has made all its calls: the program may rest here.
Finished ==
  /\ \A t \in Threads : pc[t] = "outside" /\ calls[t] = Rounds
  /\ UNCHANGED vars

\* What thread t does by itself, without the environment's spurious wake-ups.
Step(t) ==
  ArriveLast(t) \/ ArriveEarly(t) \/ WakeAndLeave(t) \/ WakeAndBlock(t) \/ Return(t)

Next == (\E t \in Threads : Step(t) \/ SpuriousWakeup(t)) \/ Finished

Spec == Init /\ [][Next]_vars

\* The scheduler runs every thread that can run.  No fairness is assumed of
\* spurious wake-ups.
FairSpec == Spec /\ \A t \in Threads : WF_vars(Step(t))

-----------------------------------------------------------------------------
(* Properties *)

\* Every member of the class stays in its range: count never wraps below 0,
\* and a program counter is at one of the three places of arrive_and_wait.
TypeOK ==
  /\ count \in 0..num_threads
  /\ generation \in 0..(GenerationLimit - 1)
  /\ cv \subseteq Threads
  /\ current_generation \in [Threads -> 0..(GenerationLimit - 1)]
  /\ pc \in [Threads -> {"outside", "waiting", "returning"}]
  /\ calls \in [Threads -> 0..Rounds]

\* The calls thread t has begun.
Begun(t) == calls[t] + (IF pc[t] = "outside" THEN 0 ELSE 1)

\* t waits for the generation that is still gathering.
Parked(t) == pc[t] = "waiting" /\ ~Opened(t)

ParkedThreads == {t \in Threads : Parked(t)}

\* How often the barrier has opened, as thread t can tell it.
Openings(t) == Begun(t) - (IF Parked(t) THEN 1 ELSE 0)

\* No call of arrive_and_wait returns before every thread has begun its call
\* of the same round: nobody leaves the starting blocks early, and a thread
\* that runs ahead into the next round cannot slip through it.
NobodyEarly == \A s, t \in Threads : calls[t] <= Begun(s)

\* No wake-up is lost: a thread blocked in cv.wait belongs to a generation
\* that is still gathering, so the notify_all of its opening is yet to come.
NoLostWakeup == \A t \in cv : Parked(t)

\* All threads agree how often the barrier has opened, although each one sees
\* only its own copy of a generation number that wraps: no copy is ever two
\* openings behind, so the comparison in the predicate is never fooled.
SameEpoch == \A s, t \in Threads : Openings(s) = Openings(t)

\* count is what is missing from the parked threads, and never 0 between two
\* critical sections: the next --count cannot wrap below zero.
CountIsMissing ==
  /\ count = num_threads - Cardinality(ParkedThreads)
  /\ Threads # {} => count > 0

\* Between its arrival and its return a thread still has this call to make.
CallsLeft == \A t \in Threads : pc[t] # "outside" => calls[t] < Rounds

\* What every step preserves, from which NobodyEarly and the promise follow.
IInv == TypeOK /\ NoLostWakeup /\ SameEpoch /\ CountIsMissing /\ CallsLeft

\* The class keeps the promise of PhaseBarrier, the return of every call that
\* may return included.
Promise == INSTANCE PhaseBarrier
             WITH arrived <- [t \in Threads |-> Begun(t)], left <- calls

ImplementsPhaseBarrier == Promise!FairSpec

\* The safety part of the promise.
ImplementsPhaseBarrierSafely == Promise!Spec

=============================================================================
