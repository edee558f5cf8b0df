---------------------------- MODULE Alternation -----------------------------
(***************************************************************************)
(* What a strict ping-pong benchmark must do for its average to be a round *)
(* trip: every ping is answered by one pong before the next ping, and the  *)
(* measurement ends after ITERATIONS round trips.                          *)
(***************************************************************************)
EXTENDS Naturals

CONSTANT ITERATIONS

VARIABLES pings, pongs, over

vars == <<pings, pongs, over>>

Init == pings = 0 /\ pongs = 0 /\ over = FALSE

Ping ==
  /\ pings = pongs
  /\ pings < ITERATIONS
  /\ pings' = pings + 1
  /\ UNCHANGED <<pongs, over>>

Pong ==
  /\ pongs < pings
  /\ pongs' = pongs + 1
  /\ UNCHANGED <<pings, over>>

Stop ==
  /\ pongs = ITERATIONS
  /\ ~over
  /\ over' = TRUE
  /\ UNCHANGED <<pings, pongs>>

Next == Ping \/ Pong \/ Stop

Spec == Init /\ [][Next]_vars /\ WF_vars(Next)

SafeSpec == Init /\ [][Next]_vars

=============================================================================
