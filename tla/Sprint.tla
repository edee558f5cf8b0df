------------------------------- MODULE Sprint -------------------------------
(***************************************************************************)
(* The 16x100 m race of Task1to3_v1.cpp with Team and Competitor of        *)
(* cs_helper_DoNotModify.hpp: everybody runs at the same time, so the      *)
(* runners of a team call Team::addTime at the same time.                  *)
(*                                                                         *)
(* The two updates of addTime are modelled as the loads and stores they    *)
(* are, and the team's mutex by who is between taking and releasing it.    *)
(* The float sum is modelled by what went into it: fTeamTime_s[team] is    *)
(* the set of the runners whose time it contains.  The barriers are used   *)
(* through their contract, each for its only round.  Nobody waits for a    *)
(* baton in this race, so setTime's lock and notify_one change nothing.    *)
(***************************************************************************)
EXTENDS Naturals, FiniteSets

CONSTANTS NUM_TEAMS, NUM_MEMBERS

ASSUME TeamsAssumption == NUM_TEAMS \in Nat \ {0}
ASSUME MembersAssumption == NUM_MEMBERS \in Nat \ {0}

Teams == 1..NUM_TEAMS
Members == 1..NUM_MEMBERS

\* athlete[i][j] and its thread
Runners == Teams \X Members

\* The main thread is the official, who stands in no team's lane.
Main == <<0, 0>>
Parties == Runners \cup {Main}

VARIABLES
  pc,                   \* where each thread is
  started,              \* the threads that called barrier_allthreads_started
  go,                   \* the threads that called barrier_go
  fTeamTime_s,          \* Team::fTeamTime_s: the runners whose time is in it
  iNumBatonExchanges,   \* Team::iNumBatonExchanges
  bFinished,            \* the runners with Competitor::bFinished
  timeRead,             \* what each runner has loaded of fTeamTime_s
  countRead             \* and of iNumBatonExchanges

vars == <<pc, started, go, fTeamTime_s, iNumBatonExchanges, bFinished, timeRead, countRead>>

team_vars == <<fTeamTime_s, iNumBatonExchanges, bFinished, timeRead, countRead>>

Init ==
  /\ pc = [t \in Parties |-> IF t = Main THEN "create" ELSE "unborn"]
  /\ started = {}
  /\ go = {}
  /\ fTeamTime_s = [team \in Teams |-> {}]
  /\ iNumBatonExchanges = [team \in Teams |-> 0]
  /\ bFinished = {}
  /\ timeRead = [r \in Runners |-> {}]
  /\ countRead = [r \in Runners |-> 0]

-----------------------------------------------------------------------------
(* Mutated forms of the helpers below, one plausible slip each.            *)
(* NoLock: addTime without its lock_guard.                                 *)
(* JoinFirstRunners: main joins one thread of each team only.              *)
NoLock(r) == TRUE
JoinFirstRunners == Teams \X {1}

-----------------------------------------------------------------------------
(* The start                                                               *)

\* The argument of both barriers: the runners and the official
BarrierSize == 1 + (NUM_TEAMS * NUM_MEMBERS)

\* every arrive_and_wait of this barrier's only round may return
Opened(arrivals) == Cardinality(arrivals) = BarrierSize

\* the order of the nested loops of main
Before(s, r) == s[1] < r[1] \/ (s[1] = r[1] /\ s[2] < r[2])

\* main constructs the thread of the next athlete.
CreateThread(r) ==
  /\ pc[Main] = "create"
  /\ pc[r] = "unborn"
  /\ \A s \in Runners : Before(s, r) => pc[s] # "unborn"
  /\ pc' = [pc EXCEPT ![r] = "ready",
                      ![Main] = IF r = <<NUM_TEAMS, NUM_MEMBERS>> THEN "ready" ELSE "create"]
  /\ UNCHANGED <<started, go, team_vars>>

\* A thread calls barrier_allthreads_started.arrive_and_wait().
ArriveStarted(t) ==
  /\ pc[t] = "ready"
  /\ started' = started \cup {t}
  /\ pc' = [pc EXCEPT ![t] = "at_start"]
  /\ UNCHANGED <<go, team_vars>>

\* The call returns and the thread calls barrier_go.arrive_and_wait(): the
\* runners at once, the official when she fires the pistol.
ArriveGo(t) ==
  /\ pc[t] = "at_start"
  /\ Opened(started)
  /\ go' = go \cup {t}
  /\ pc' = [pc EXCEPT ![t] = "at_go"]
  /\ UNCHANGED <<started, team_vars>>

\* The official starts to join the threads, the others run.
LeaveGo(t) ==
  /\ pc[t] = "at_go"
  /\ Opened(go)
  /\ pc' = [pc EXCEPT ![t] = IF t = Main THEN "join" ELSE "run"]
  /\ UNCHANGED <<started, go, team_vars>>

-----------------------------------------------------------------------------
(* Competitor::setTime after the sprint                                    *)

\* between taking the team's mutex and releasing it
InAddTime == {"read", "written", "reread"}

\* the lock_guard of addTime
MayLock(r) == \A s \in Runners : s[1] = r[1] => pc[s] \notin InAddTime

\* lock, and the load of fTeamTime_s += ...
LoadTime(r) ==
  /\ pc[r] = "run"
  /\ MayLock(r)
  /\ timeRead' = [timeRead EXCEPT ![r] = fTeamTime_s[r[1]]]
  /\ pc' = [pc EXCEPT ![r] = "read"]
  /\ UNCHANGED <<started, go, fTeamTime_s, iNumBatonExchanges, bFinished, countRead>>

StoreTime(r) ==
  /\ pc[r] = "read"
  /\ fTeamTime_s' = [fTeamTime_s EXCEPT ![r[1]] = timeRead[r] \cup {r}]
  /\ pc' = [pc EXCEPT ![r] = "written"]
  /\ UNCHANGED <<started, go, iNumBatonExchanges, bFinished, timeRead, countRead>>

\* the load of iNumBatonExchanges++
LoadCount(r) ==
  /\ pc[r] = "written"
  /\ countRead' = [countRead EXCEPT ![r] = iNumBatonExchanges[r[1]]]
  /\ pc' = [pc EXCEPT ![r] = "reread"]
  /\ UNCHANGED <<started, go, fTeamTime_s, iNumBatonExchanges, bFinished, timeRead>>

CountExchange(n) == n + 1

\* its store, and the end of the lock_guard's scope
StoreCount(r) ==
  /\ pc[r] = "reread"
  /\ iNumBatonExchanges' = [iNumBatonExchanges EXCEPT ![r[1]] = CountExchange(countRead[r])]
  /\ pc' = [pc EXCEPT ![r] = "finish"]
  /\ UNCHANGED <<started, go, fTeamTime_s, bFinished, timeRead, countRead>>

\* bFinished = true, a notification nobody waits for, and the thread's end
SetFinished(r) ==
  /\ pc[r] = "finish"
  /\ bFinished' = bFinished \cup {r}
  /\ pc' = [pc EXCEPT ![r] = "gone"]
  /\ UNCHANGED <<started, go, fTeamTime_s, iNumBatonExchanges, timeRead, countRead>>

\* the threads main joins
Joined == Runners

\* Every join returns, and main prints the results.
PrintResults ==
  /\ pc[Main] = "join"
  /\ \A r \in Joined : pc[r] = "gone"
  /\ pc' = [pc EXCEPT ![Main] = "done"]
  /\ UNCHANGED <<started, go, team_vars>>

\* main has returned: the program may rest here.
Finished == pc[Main] = "done" /\ UNCHANGED vars

-----------------------------------------------------------------------------
RunnerStep(r) ==
  \/ ArriveStarted(r) \/ ArriveGo(r) \/ LeaveGo(r)
  \/ LoadTime(r) \/ StoreTime(r) \/ LoadCount(r) \/ StoreCount(r) \/ SetFinished(r)

MainStep ==
  \/ \E r \in Runners : CreateThread(r)
  \/ ArriveStarted(Main) \/ ArriveGo(Main) \/ LeaveGo(Main)
  \/ PrintResults

Next ==
  \/ \E r \in Runners : RunnerStep(r)
  \/ MainStep
  \/ Finished

Spec == Init /\ [][Next]_vars

\* The scheduler runs every thread that can run.  Weak fairness is enough for
\* the mutexes: each is taken a bounded number of times in all.
FairSpec == Spec /\ WF_vars(MainStep) /\ \A r \in Runners : WF_vars(RunnerStep(r))

-----------------------------------------------------------------------------
(* Properties *)

MainPlaces == {"create", "ready", "at_start", "at_go", "join", "done"}

\* after Team::addTime
Timed == {"finish", "gone"}
RunnerPlaces == {"unborn", "ready", "at_start", "at_go", "run"} \cup InAddTime \cup Timed
Places == MainPlaces \cup RunnerPlaces

\* with the time stored
Stored == {"written", "reread"} \cup Timed

\* Every variable keeps its range: no team counts more runners than it has.
TypeOK ==
  /\ pc \in [Parties -> Places]
  /\ pc[Main] \in MainPlaces
  /\ \A r \in Runners : pc[r] \in RunnerPlaces
  /\ started \subseteq Parties
  /\ go \subseteq Parties
  /\ fTeamTime_s \in [Teams -> SUBSET Runners]
  /\ iNumBatonExchanges \in [Teams -> 0..NUM_MEMBERS]
  /\ bFinished \subseteq Runners
  /\ timeRead \in [Runners -> SUBSET Runners]
  /\ countRead \in [Runners -> 0..NUM_MEMBERS]

\* No time is lost and none is added to the wrong team, however the runners
\* of a team overlap: at every moment a team's time is the sum of the times
\* its runners have stored.
NoTimeLost ==
  \A team \in Teams :
    fTeamTime_s[team] = {r \in Runners : r[1] = team /\ pc[r] \in Stored}

\* The runners of a team who have left addTime, in whatever order, are those
\* its counter has counted.
NoExchangeLost ==
  \A team \in Teams :
    iNumBatonExchanges[team] = Cardinality({r \in Runners : r[1] = team /\ pc[r] \in Timed})

\* When main prints the totals, which it reads without the mutexes, every
\* team has the times of all its runners, and every runner has finished.
ResultsAreComplete ==
  pc[Main] = "done" =>
    /\ \A team \in Teams : fTeamTime_s[team] = {team} \X Members
    /\ \A team \in Teams : iNumBatonExchanges[team] = NUM_MEMBERS
    /\ bFinished = Runners

-----------------------------------------------------------------------------
(* The inductive invariant                                                 *)

\* one runner of a team in addTime at a time
MutexHeld ==
  \A r, s \in Runners :
    r[1] = s[1] /\ pc[r] \in InAddTime /\ pc[s] \in InAddTime => r = s

\* What the runner in addTime has loaded is still what the team holds.
FreshReads ==
  \A r \in Runners :
    /\ pc[r] = "read" => timeRead[r] = fTeamTime_s[r[1]]
    /\ pc[r] = "reread" => countRead[r] = iNumBatonExchanges[r[1]]

\* bFinished is set last, and main is past the joins when all threads are gone.
FinishedAreGone ==
  /\ bFinished = {r \in Runners : pc[r] = "gone"}
  /\ pc[Main] = "done" => \A r \in Runners : pc[r] = "gone"

IInv ==
  /\ TypeOK
  /\ MutexHeld
  /\ FreshReads
  /\ NoTimeLost
  /\ NoExchangeLost
  /\ FinishedAreGone

-----------------------------------------------------------------------------
\* Every time is added once, the results come when all are, and they come.
Race == INSTANCE SprintRace
          WITH credited <- UNION {fTeamTime_s[team] : team \in Teams},
               over <- pc[Main] = "done"

ImplementsSprintRace == Race!Spec

\* The safety part of it.
IsSprintRace == Race!SafeSpec

=============================================================================
