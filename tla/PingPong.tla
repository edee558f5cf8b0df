------------------------------ MODULE PingPong ------------------------------
(***************************************************************************)
(* The thread ping-pong of Task5_Benchmark.cpp: main and one worker pass a *)
(* ball with two flags and two condition variables under one mutex.        *)
(*                                                                         *)
(* The flags are touched under pp_mtx only, so a critical section, from    *)
(* getting the mutex to giving it back (in a wait, by unlock or at the end *)
(* of the scope), is one action.  The one call outside the mutex, the      *)
(* worker's notify_one, is an action of its own.  Only main waits on       *)
(* cv_pong and only the worker on cv_ping.                                 *)
(***************************************************************************)
EXTENDS Iterations

VARIABLES
  ping_ready, pong_ready, stop_thread,   \* the flags
  i,         \* main's loop counter
  main,      \* where main is: before the loop, in cv_pong.wait, in join, after it
  worker,    \* where the worker is: in or before cv_ping.wait, before its
             \* notify_one, or gone
  blocked    \* the threads asleep in their wait

ppVars == <<ping_ready, pong_ready, stop_thread, i, main, worker, blocked>>

PPInit ==
  /\ ping_ready = FALSE
  /\ pong_ready = FALSE
  /\ stop_thread = FALSE
  /\ i = 0
  /\ main = "start"
  /\ worker = "ping"
  /\ blocked = {}

-----------------------------------------------------------------------------
(* Mutated forms of the helpers below.                                     *)
(* Nobody: a flag is set and notify_one is forgotten.                      *)
Nobody == {}

-----------------------------------------------------------------------------
\* the predicates of the two waits
PingCame == ping_ready \/ stop_thread
PongCame == pong_ready

\* whom cv_ping.notify_one wakes, after a ping and after the stop, and whom
\* cv_pong.notify_one wakes
WokenByPing == {"worker"}
WokenByStop == {"worker"}
WokenByPong == {"main"}

\* the flags after they have been consumed
PingConsumed == FALSE
PongConsumed == FALSE

InLoop(k) == k < ITERATIONS

\* main in iteration k: it serves and waits, or leaves the loop, tells the
\* worker to stop and gives the mutex back.
Serve(k) ==
  /\ i' = k
  /\ InLoop(k)
  /\ ping_ready' = TRUE
  /\ main' = "pong"
  /\ blocked' = (blocked \ WokenByPing) \cup (IF pong_ready' THEN {} ELSE {"main"})
  /\ UNCHANGED <<stop_thread, worker>>

LeaveLoop(k) ==
  /\ i' = k
  /\ ~InLoop(k)
  /\ stop_thread' = TRUE
  /\ main' = "join"
  /\ blocked' = blocked \ WokenByStop
  /\ UNCHANGED <<ping_ready, worker>>

\* ITERATIONS is not 0: main serves.
MainStarts ==
  /\ main = "start"
  /\ UNCHANGED pong_ready
  /\ Serve(0)

\* main has the mutex again and finds its predicate true.
MainReceives ==
  /\ main = "pong"
  /\ "main" \notin blocked
  /\ PongCame
  /\ pong_ready' = PongConsumed
  /\ Serve(i + 1) \/ LeaveLoop(i + 1)

MainBlocksAgain ==
  /\ main = "pong"
  /\ "main" \notin blocked
  /\ ~PongCame
  /\ blocked' = blocked \cup {"main"}
  /\ UNCHANGED <<ping_ready, pong_ready, stop_thread, i, main, worker>>

MainJoins ==
  /\ main = "join"
  /\ worker = "gone"
  /\ main' = "done"
  /\ UNCHANGED <<ping_ready, pong_ready, stop_thread, i, worker, blocked>>

\* The worker gets the mutex, at its start or after its notification or a
\* wake-up, and finds its predicate false.
WorkerBlocks ==
  /\ worker = "ping"
  /\ "worker" \notin blocked
  /\ ~PingCame
  /\ blocked' = blocked \cup {"worker"}
  /\ UNCHANGED <<ping_ready, pong_ready, stop_thread, i, main, worker>>

WorkerStops ==
  /\ worker = "ping"
  /\ "worker" \notin blocked
  /\ PingCame
  /\ stop_thread
  /\ worker' = "gone"
  /\ UNCHANGED <<ping_ready, pong_ready, stop_thread, i, main, blocked>>

WorkerReturns ==
  /\ worker = "ping"
  /\ "worker" \notin blocked
  /\ PingCame
  /\ ~stop_thread
  /\ ping_ready' = PingConsumed
  /\ pong_ready' = TRUE
  /\ worker' = "notify"
  /\ UNCHANGED <<stop_thread, i, main, blocked>>

\* after unlock and before lock
WorkerNotifies ==
  /\ worker = "notify"
  /\ blocked' = blocked \ WokenByPong
  /\ worker' = "ping"
  /\ UNCHANGED <<ping_ready, pong_ready, stop_thread, i, main>>

SpuriousWakeup ==
  /\ \E t \in blocked : blocked' = blocked \ {t}
  /\ UNCHANGED <<ping_ready, pong_ready, stop_thread, i, main, worker>>

\* main goes on to the next benchmark.
Finished == main = "done" /\ UNCHANGED ppVars

MainStep == MainStarts \/ MainReceives \/ MainBlocksAgain \/ MainJoins
WorkerStep == WorkerBlocks \/ WorkerStops \/ WorkerReturns \/ WorkerNotifies

PPNext == MainStep \/ WorkerStep \/ SpuriousWakeup \/ Finished

PPSpec == PPInit /\ [][PPNext]_ppVars

\* Both threads run when they can; spurious wake-ups may go on for ever.
PPFairSpec == PPSpec /\ WF_ppVars(MainStep) /\ WF_ppVars(WorkerStep)

-----------------------------------------------------------------------------
(* Properties *)

\* The flags are Booleans, the threads at known places, and main never plays
\* more rounds than it measures.
PPTypeOK ==
  /\ ping_ready \in BOOLEAN
  /\ pong_ready \in BOOLEAN
  /\ stop_thread \in BOOLEAN
  /\ i \in 0..ITERATIONS
  /\ main \in {"start", "pong", "join", "done"}
  /\ worker \in {"ping", "notify", "gone"}
  /\ blocked \subseteq {"main", "worker"}

\* While main waits there is one ball, on one side of the net; otherwise there
\* is none.
OneBall ==
  /\ ~(ping_ready /\ pong_ready)
  /\ main = "pong" <=> (ping_ready \/ pong_ready)

\* A worker asleep in cv_ping.wait has nothing to do, and a main asleep in
\* cv_pong.wait with the ball on its side is about to be notified although
\* the worker no longer holds the mutex.
NobodySleepsOnABall ==
  /\ "worker" \in blocked => worker = "ping" /\ ~ping_ready /\ ~stop_thread
  /\ "main" \in blocked => main = "pong" /\ (pong_ready => worker = "notify")

\* stop_thread is set after the last pong was taken, and the worker leaves for
\* no other reason.
StopsAfterLastRound ==
  /\ stop_thread <=> main \in {"join", "done"}
  /\ worker = "gone" => stop_thread
  /\ stop_thread => i = ITERATIONS
  /\ main = "pong" => i < ITERATIONS

PPInv ==
  /\ PPTypeOK
  /\ OneBall
  /\ NobodySleepsOnABall
  /\ StopsAfterLastRound
  /\ main = "start" => i = 0 /\ worker = "ping"

\* The two threads keep strict alternation, and the benchmark ends: the
\* worker is told to stop wherever it is, and is joined.
PPRally == INSTANCE Alternation
           WITH pings <- i + (IF main = "pong" THEN 1 ELSE 0),
                pongs <- i + (IF pong_ready THEN 1 ELSE 0),
                over <- main = "done"

ImplementsAlternation == PPRally!Spec

\* The safety part of it.
Alternates == PPRally!SafeSpec

=============================================================================
