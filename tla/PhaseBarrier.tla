---------------------------- MODULE PhaseBarrier ----------------------------
(***************************************************************************)
(* What barrier.hpp promises to the threads that share a barrier, without  *)
(* its mutex, condition variable, counter and generation: every thread     *)
(* makes Rounds calls of arrive_and_wait, one after the other, and no call *)
(* returns before every thread has begun its call of the same round.       *)
(*                                                                         *)
(* Barrier.tla is shown to implement this module, and the race modules use *)
(* it as the contract of barrier_allthreads_started and barrier_go.        *)
(***************************************************************************)
EXTENDS Naturals

CONSTANTS
  Threads,    \* the threads that share the barrier
  Rounds      \* how many calls of arrive_and_wait each of them makes

VARIABLES
  arrived,    \* arrived[t]: the calls thread t has begun
  left        \* left[t]: the calls thread t has returned from

vars == <<arrived, left>>

Init ==
  /\ arrived = [t \in Threads |-> 0]
  /\ left = [t \in Threads |-> 0]

\* Thread t calls arrive_and_wait.
Arrive(t) ==
  /\ arrived[t] = left[t]
  /\ arrived[t] < Rounds
  /\ arrived' = [arrived EXCEPT ![t] = @ + 1]
  /\ UNCHANGED left

\* The call returns: everybody has begun the call of this round.
Leave(t) ==
  /\ left[t] < arrived[t]
  /\ \A s \in Threads : arrived[t] <= arrived[s]
  /\ left' = [left EXCEPT ![t] = @ + 1]
  /\ UNCHANGED arrived

Next == \E t \in Threads : Arrive(t) \/ Leave(t)

Spec == Init /\ [][Next]_vars

\* A call that may return does return: the waiting threads are woken.
FairSpec == Spec /\ \A t \in Threads : WF_vars(Leave(t))

=============================================================================
