------------------------------ MODULE RelayLegs ------------------------------
(***************************************************************************)
(* Relay with the line each runner prints between setTime and the finish   *)
(* test: its leg number is the team's exchange counter, read without the   *)
(* team's mutex, and not the runner's own place in the team.               *)
(***************************************************************************)
EXTENDS Relay

VARIABLE leg   \* the leg number a runner has printed, or 0

LegsInit == Init /\ leg = [r \in Runners |-> 0]

\* The other runners of the team may have counted exchanges since setTime.
PrintLeg(r) ==
  /\ pc[r] = "cross" /\ leg[r] = 0
  /\ leg' = [leg EXCEPT ![r] = iNumBatonExchanges[r[1]]]
  /\ UNCHANGED vars

\* The finish test comes after the line.
LegsNext ==
  \/ \E r \in Runners : PrintLeg(r)
  \/ /\ Next
     /\ \A r \in Runners : pc[r] = "cross" /\ leg[r] = 0 => pc'[r] = "cross"
     /\ UNCHANGED leg

LegsSpec == LegsInit /\ [][LegsNext]_<<vars, leg>>

\* The fairness of Relay, and the threads print.
LegsFairSpec ==
  LegsSpec /\ Fairness /\ \A r \in Runners : WF_<<vars, leg>>(PrintLeg(r))

Recorded(r) == time[r] # "none"

\* A runner may print a leg later than its own: the next one may drop the baton,
\* or even run, before the counter is read.  But then the times of all legs up to
\* the printed one are recorded, and nobody prints a leg before its own.
PrintedLegsWereRun ==
  \A r \in Runners :
    leg[r] # 0 => leg[r] \in r[2]..NUM_MEMBERS /\ \A k \in 1..leg[r] : Recorded(<<r[1], k>>)

=============================================================================
