----------------------------- MODULE RelayRace ------------------------------
(***************************************************************************)
(* What the relay promises to whoever reads its output, without threads,   *)
(* batons, barriers and flags: every team runs its legs one after the      *)
(* other, at most one team is called the winner, no team before it has all *)
(* its legs, and the results come last.  Relay.tla is shown to implement   *)
(* this module.                                                            *)
(***************************************************************************)
EXTENDS Naturals, Sequences

CONSTANTS Teams, NUM_MEMBERS

VARIABLES
  legs,        \* legs[team]: how each leg ended that the team has recorded
  champions,   \* the teams that were announced as the winner
  over         \* the team results have been printed

vars == <<legs, champions, over>>

Init ==
  /\ legs = [team \in Teams |-> <<>>]
  /\ champions = {}
  /\ over = FALSE

Complete(team) == Len(legs[team]) = NUM_MEMBERS

\* A team records its next leg.  The first runner holds the baton from the
\* start, so only later legs can end with a dropped baton.
RunLeg(team, outcome) ==
  /\ ~over
  /\ ~Complete(team)
  /\ outcome = "drop" => legs[team] # <<>>
  /\ legs' = [legs EXCEPT ![team] = Append(@, outcome)]
  /\ UNCHANGED <<champions, over>>

Win(team) ==
  /\ ~over
  /\ Complete(team)
  /\ champions = {}
  /\ champions' = {team}
  /\ UNCHANGED <<legs, over>>

\* A race without a winner is possible only when no team brought its baton home.
PrintResults ==
  /\ ~over
  /\ \A team \in Teams : Complete(team)
  /\ champions = {} => \A team \in Teams : legs[team][NUM_MEMBERS] = "drop"
  /\ over' = TRUE
  /\ UNCHANGED <<legs, champions>>

Next ==
  \/ \E team \in Teams : Win(team) \/ \E outcome \in {"sprint", "drop"} : RunLeg(team, outcome)
  \/ PrintResults

Spec == Init /\ [][Next]_vars

=============================================================================
