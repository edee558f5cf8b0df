--------------------------- MODULE RelayFirstHome ---------------------------
(***************************************************************************)
(* Relay with one history variable: the team whose last runner's time was  *)
(* recorded first.  It compares the team that is announced with the team   *)
(* that finished.                                                          *)
(***************************************************************************)
EXTENDS Relay

VARIABLE home   \* the first team to have all its exchanges, as a set

BringsHome(team) == iNumBatonExchanges[team] # NUM_MEMBERS /\ iNumBatonExchanges'[team] = NUM_MEMBERS

HomeInit == Init /\ home = {}

HomeNext ==
  /\ Next
  /\ home' = IF home = {} THEN {team \in Teams : BringsHome(team)} ELSE home

HomeSpec == HomeInit /\ [][HomeNext]_<<vars, home>>

\* v2.cpp says that "finished" is printed by the first thread to complete.  In
\* a race without a dropped baton the announced team would then be the one
\* whose last runner finished first.
FirstHomeIsAnnounced ==
  (\A r \in Runners : time[r] # "drop") =>
    \A r \in announced : home = {r[1]}

=============================================================================
