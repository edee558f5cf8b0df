----------------------------- MODULE SprintRace -----------------------------
(***************************************************************************)
(* What the 16x100 m race promises to whoever reads its results: every     *)
(* runner's time is added to the runner's team once, and the results are   *)
(* printed when all have been.  Sprint.tla is shown to implement this      *)
(* module.                                                                 *)
(***************************************************************************)
CONSTANT Runners

VARIABLES
  credited,    \* the runners whose time is part of their team's time
  over         \* the team results have been printed

vars == <<credited, over>>

Init == credited = {} /\ over = FALSE

Credit(r) ==
  /\ r \notin credited
  /\ credited' = credited \cup {r}
  /\ UNCHANGED over

PrintResults ==
  /\ credited = Runners
  /\ ~over
  /\ over' = TRUE
  /\ UNCHANGED credited

Next == PrintResults \/ \E r \in Runners : Credit(r)

SafeSpec == Init /\ [][Next]_vars

Spec == SafeSpec /\ WF_vars(Next)

=============================================================================
