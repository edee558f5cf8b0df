------------------------------- MODULE Relay --------------------------------
(***************************************************************************)
(* The 4x100 m relay of Task1to3_v4.cpp with the Team and Competitor       *)
(* classes of cs_helper_DoNotModify.hpp: one thread per runner, the main   *)
(* thread as the race official, two barriers for the start, one mutex and  *)
(* condition variable per runner for the baton, and one atomic flag for    *)
(* the winner.                                                             *)
(*                                                                         *)
(* A step is what a thread does between two points where another thread    *)
(* can tell the difference.  The barriers are used through their contract  *)
(* (PhaseBarrier, which Barrier.tla implements).  Times, names and the     *)
(* text of the messages are left out; sleeps let anything happen first.    *)
(***************************************************************************)
EXTENDS Naturals, FiniteSets

CONSTANTS NUM_TEAMS, NUM_MEMBERS

ASSUME TeamsAssumption == NUM_TEAMS \in Nat \ {0}
ASSUME MembersAssumption == NUM_MEMBERS \in Nat \ {0}

Teams == 1..NUM_TEAMS
Legs == 1..NUM_MEMBERS

\* athlete[i][j] and its thread
Runners == Teams \X Legs

\* pPrevA; the first runner of a team has none
Prev(r) == <<r[1], r[2] - 1>>

\* The main thread is the official, who stands in no team's lane.
Main == <<0, 0>>
Parties == Runners \cup {Main}

VARIABLES
  pc,                   \* where each thread is
  started,              \* the threads that called barrier_allthreads_started
  go,                   \* the threads that called barrier_go
  locked,               \* the runners whose mtx the following runner holds
  bFinished,            \* Competitor::bFinished
  time,                 \* Competitor::_fTime_s: "none", "sprint" or "drop" (9999)
  iNumBatonExchanges,   \* Team::iNumBatonExchanges
  winner,               \* the atomic flag
  announced             \* the runners whose thread printed the WINNER line

vars == <<pc, started, go, locked, bFinished, time, iNumBatonExchanges, winner, announced>>

Init ==
  /\ pc = [t \in Parties |-> IF t = Main THEN "create" ELSE "unborn"]
  /\ started = {}
  /\ go = {}
  /\ locked = {}
  /\ bFinished = [r \in Runners |-> FALSE]
  /\ time = [r \in Runners |-> "none"]
  /\ iNumBatonExchanges = [team \in Teams |-> 0]
  /\ winner = FALSE
  /\ announced = {}

-----------------------------------------------------------------------------
(* Mutated forms of the helpers below, one plausible slip each.            *)
(* OfficialForgotten: the barriers are built without the 1 +.              *)
(* WaitWithoutPredicate: baton.wait(lock) with no lambda.                  *)
(* NotifyWithoutLock: setTime notifies without taking mtx.                 *)
(* NotifyForgotten: setTime does not notify at all.                        *)
(* CountedTwice: setTime and addTime both count the exchange.              *)
(* LoadOnly: winner.load() where winner.exchange(true) is needed.          *)
(* JoinFirstRunners: main joins one thread of each team only.              *)
OfficialForgotten == NUM_TEAMS * NUM_MEMBERS
WaitWithoutPredicate(r) == TRUE
NotifyWithoutLock(r) == TRUE
NotifyForgotten(r) == {}
CountedTwice(n) == n + 2
LoadOnly == winner
JoinFirstRunners == Teams \X {1}

-----------------------------------------------------------------------------
(* The start                                                               *)

\* The argument of both barriers: the runners and the official
BarrierSize == 1 + (NUM_TEAMS * NUM_MEMBERS)

\* every arrive_and_wait of this barrier's only round may return
Opened(arrivals) == Cardinality(arrivals) = BarrierSize

\* the order of the nested loops of main
Before(s, r) == s[1] < r[1] \/ (s[1] = r[1] /\ s[2] < r[2])

\* main constructs the thread of the next athlete.
CreateThread(r) ==
  /\ pc[Main] = "create"
  /\ pc[r] = "unborn"
  /\ \A s \in Runners : Before(s, r) => pc[s] # "unborn"
  /\ pc' = [pc EXCEPT ![r] = "ready",
                      ![Main] = IF r = <<NUM_TEAMS, NUM_MEMBERS>> THEN "ready" ELSE "create"]
  /\ UNCHANGED <<started, go, locked, bFinished, time, iNumBatonExchanges, winner, announced>>

\* A thread calls barrier_allthreads_started.arrive_and_wait().
ArriveStarted(t) ==
  /\ pc[t] = "ready"
  /\ started' = started \cup {t}
  /\ pc' = [pc EXCEPT ![t] = "at_start"]
  /\ UNCHANGED <<go, locked, bFinished, time, iNumBatonExchanges, winner, announced>>

\* The call returns and the thread calls barrier_go.arrive_and_wait(): the
\* runners at once, the official when she fires the pistol.
ArriveGo(t) ==
  /\ pc[t] = "at_start"
  /\ Opened(started)
  /\ go' = go \cup {t}
  /\ pc' = [pc EXCEPT ![t] = "at_go"]
  /\ UNCHANGED <<started, locked, bFinished, time, iNumBatonExchanges, winner, announced>>

\* The official starts to join the threads, first runners (pPrevA is NULL)
\* run, the others ask for the mutex of the runner before them.
AfterTheGun(t) ==
  CASE t = Main -> "join"
    [] t # Main /\ t[2] = 1 -> "run"
    [] OTHER -> "lock"

LeaveGo(t) ==
  /\ pc[t] = "at_go"
  /\ Opened(go)
  /\ pc' = [pc EXCEPT ![t] = AfterTheGun(t)]
  /\ UNCHANGED <<started, go, locked, bFinished, time, iNumBatonExchanges, winner, announced>>

-----------------------------------------------------------------------------
(* Waiting for the baton: baton.wait(lock, predicate) on pPrevA            *)

\* the predicate, read under a mutex its writer does not hold
BatonThere(r) == bFinished[Prev(r)]

LockBaton(r) ==
  /\ pc[r] = "lock"
  /\ Prev(r) \notin locked
  /\ locked' = locked \cup {Prev(r)}
  /\ pc' = [pc EXCEPT ![r] = "check"]
  /\ UNCHANGED <<started, go, bFinished, time, iNumBatonExchanges, winner, announced>>

\* The predicate is true: the scope ends, the mutex is released.
BatonArrived(r) ==
  /\ pc[r] = "check"
  /\ BatonThere(r)
  /\ locked' = locked \ {Prev(r)}
  /\ pc' = [pc EXCEPT ![r] = "exchange"]
  /\ UNCHANGED <<started, go, bFinished, time, iNumBatonExchanges, winner, announced>>

\* The predicate is false, and may become true before the thread blocks.
BatonMissing(r) ==
  /\ pc[r] = "check"
  /\ ~BatonThere(r)
  /\ pc' = [pc EXCEPT ![r] = "block"]
  /\ UNCHANGED <<started, go, locked, bFinished, time, iNumBatonExchanges, winner, announced>>

\* The thread blocks and releases the mutex in one step.
BlockOnBaton(r) ==
  /\ pc[r] = "block"
  /\ locked' = locked \ {Prev(r)}
  /\ pc' = [pc EXCEPT ![r] = "wait"]
  /\ UNCHANGED <<started, go, bFinished, time, iNumBatonExchanges, winner, announced>>

SpuriousWakeup(r) ==
  /\ pc[r] = "wait"
  /\ pc' = [pc EXCEPT ![r] = "lock"]
  /\ UNCHANGED <<started, go, locked, bFinished, time, iNumBatonExchanges, winner, announced>>

\* The draw of rand_fumble: the baton is dropped, or taken.  A fumbled baton
\* is taken after a delay.
Exchange(r) ==
  /\ pc[r] = "exchange"
  /\ \E outcome \in {"drop", "run"} : pc' = [pc EXCEPT ![r] = outcome]
  /\ UNCHANGED <<started, go, locked, bFinished, time, iNumBatonExchanges, winner, announced>>

-----------------------------------------------------------------------------
(* Competitor::setTime, after the sprint or at once with a dropped baton   *)

\* iNumBatonExchanges++
CountExchange(n) == n + 1

\* Team::addTime under the mutex of the team
AddTime(r) ==
  /\ pc[r] \in {"run", "drop"}
  /\ time' = [time EXCEPT ![r] = IF pc[r] = "run" THEN "sprint" ELSE "drop"]
  /\ iNumBatonExchanges' = [iNumBatonExchanges EXCEPT ![r[1]] = CountExchange(@)]
  /\ pc' = [pc EXCEPT ![r] = "finish"]
  /\ UNCHANGED <<started, go, locked, bFinished, winner, announced>>

\* bFinished = true, before the mutex is taken
SetFinished(r) ==
  /\ pc[r] = "finish"
  /\ bFinished' = [bFinished EXCEPT ![r] = TRUE]
  /\ pc' = [pc EXCEPT ![r] = "notify"]
  /\ UNCHANGED <<started, go, locked, time, iNumBatonExchanges, winner, announced>>

\* lock_guard on the runner's own mtx
MayLock(r) == r \notin locked

\* the thread baton.notify_one() wakes: only the following runner waits on it
Woken(r) == {s \in Runners : s[1] = r[1] /\ s[2] = r[2] + 1 /\ pc[s] = "wait"}

\* lock, notify_one, unlock.  With a dropped baton the thread ends here.
NotifyBaton(r) ==
  /\ pc[r] = "notify"
  /\ MayLock(r)
  /\ pc' = [t \in Parties |->
              IF t = r THEN (IF time[r] = "drop" THEN "gone" ELSE "cross")
              ELSE IF t \in Woken(r) THEN "lock"
              ELSE pc[t]]
  /\ UNCHANGED <<started, go, locked, bFinished, time, iNumBatonExchanges, winner, announced>>

-----------------------------------------------------------------------------
(* The finish                                                              *)

\* a.numBatonExchanges() == NUM_MEMBERS
LastLeg(n) == n = NUM_MEMBERS

\* The team's counter is read without its mutex.
CrossLine(r) ==
  /\ pc[r] = "cross"
  /\ pc' = [pc EXCEPT ![r] = IF LastLeg(iNumBatonExchanges[r[1]]) THEN "claim" ELSE "gone"]
  /\ UNCHANGED <<started, go, locked, bFinished, time, iNumBatonExchanges, winner, announced>>

\* what winner holds after winner.exchange(true)
Exchanged == TRUE

Claim(r) ==
  /\ pc[r] = "claim"
  /\ winner' = Exchanged
  /\ pc' = [pc EXCEPT ![r] = IF winner THEN "gone" ELSE "announce"]
  /\ UNCHANGED <<started, go, locked, bFinished, time, iNumBatonExchanges, announced>>

Announce(r) ==
  /\ pc[r] = "announce"
  /\ announced' = announced \cup {r}
  /\ pc' = [pc EXCEPT ![r] = "gone"]
  /\ UNCHANGED <<started, go, locked, bFinished, time, iNumBatonExchanges, winner>>

\* the threads main joins
Joined == Runners

\* Every join returns, and main prints the results.
PrintResults ==
  /\ pc[Main] = "join"
  /\ \A r \in Joined : pc[r] = "gone"
  /\ pc' = [pc EXCEPT ![Main] = "done"]
  /\ UNCHANGED <<started, go, locked, bFinished, time, iNumBatonExchanges, winner, announced>>

\* main has returned: the program may rest here.
Finished == pc[Main] = "done" /\ UNCHANGED vars

-----------------------------------------------------------------------------
\* What runner r's thread does when the scheduler runs it.
RunnerStep(r) ==
  \/ ArriveStarted(r) \/ ArriveGo(r) \/ LeaveGo(r)
  \/ BatonArrived(r) \/ BatonMissing(r) \/ BlockOnBaton(r) \/ Exchange(r)
  \/ AddTime(r) \/ SetFinished(r)
  \/ CrossLine(r) \/ Claim(r) \/ Announce(r)

\* What it does when it also gets a baton mutex.
LockStep(r) == LockBaton(r) \/ NotifyBaton(r)

MainStep ==
  \/ \E r \in Runners : CreateThread(r)
  \/ ArriveStarted(Main) \/ ArriveGo(Main) \/ LeaveGo(Main)
  \/ PrintResults

Next ==
  \/ \E r \in Runners : RunnerStep(r) \/ LockStep(r) \/ SpuriousWakeup(r)
  \/ MainStep
  \/ Finished

Spec == Init /\ [][Next]_vars

\* The scheduler runs every thread that can run, and a thread that keeps
\* asking for a mutex that keeps becoming free gets it.  Nothing is assumed
\* of spurious wake-ups: they may go on for ever.
Fairness ==
  /\ WF_vars(MainStep)
  /\ \A r \in Runners : WF_vars(RunnerStep(r)) /\ SF_vars(LockStep(r))

FairSpec == Spec /\ Fairness

-----------------------------------------------------------------------------
(* Properties *)

MainPlaces == {"create", "ready", "at_start", "at_go", "join", "done"}

\* waiting for the baton; with the baton, or dropping it
Waiting == {"lock", "check", "block", "wait"}
Racing == {"exchange", "run", "drop"}

\* after Team::addTime, and after bFinished = true
Timed == {"finish", "notify", "cross", "claim", "announce", "gone"}
Flagged == Timed \ {"finish"}
Notified == Flagged \ {"notify"}

RunnerPlaces == {"unborn", "ready", "at_start", "at_go"} \cup Waiting \cup Racing \cup Timed
Places == MainPlaces \cup RunnerPlaces

\* Every variable keeps its range: in particular no team ever counts more
\* baton exchanges than it has members, which would hide its finish.
TypeOK ==
  /\ pc \in [Parties -> Places]
  /\ pc[Main] \in MainPlaces
  /\ \A r \in Runners : pc[r] \in RunnerPlaces
  /\ started \subseteq Parties
  /\ go \subseteq Parties
  /\ locked \subseteq Runners
  /\ bFinished \in [Runners -> BOOLEAN]
  /\ time \in [Runners -> {"none", "sprint", "drop"}]
  /\ iNumBatonExchanges \in [Teams -> 0..NUM_MEMBERS]
  /\ winner \in BOOLEAN
  /\ announced \subseteq Runners

\* Nobody is on the track before every thread exists, is in its blocks and
\* the official has fired.
NobodyRunsBeforeTheGun ==
  (\E r \in Runners : pc[r] \in Waiting \cup Racing \cup Timed) =>
    /\ pc[Main] \in {"at_go", "join", "done"}
    /\ \A r \in Runners : pc[r] \notin {"unborn", "ready", "at_start"}

\* The team's counter and its runners' times tell the same story: the legs
\* recorded are the first ones, so nobody runs before the baton is there.
LegsInOrder ==
  \A r \in Runners : time[r] # "none" <=> r[2] <= iNumBatonExchanges[r[1]]

\* No baton is lost: a runner who blocks, or has seen the predicate false and
\* is about to, still has the notify_one of the runner before it to come,
\* although bFinished is written without the mutex.
NoLostBaton ==
  \A r \in Runners : pc[r] \in {"block", "wait"} => pc[Prev(r)] \notin Notified

\* The threads that took the flag
Claimants == {r \in Runners : pc[r] = "announce"} \cup announced

\* One thread claims the race, although several threads of one team, and
\* those of several teams, may find their team's counter at NUM_MEMBERS.
SingleWinner == \A r, s \in Claimants : r = s

\* A team is announced only when all its legs are recorded.
WinnerRanAllLegs ==
  \A r \in Claimants : \A s \in Runners : s[1] = r[1] => time[s] # "none"

\* When the results are printed every leg is recorded, and if no team was
\* announced then every team dropped its last baton.
ResultsAreFinal ==
  pc[Main] = "done" =>
    /\ \A r \in Runners : time[r] # "none"
    /\ announced = {} => \A team \in Teams : time[<<team, NUM_MEMBERS>>] = "drop"

\* The parts of the inductive invariant that the properties above rest on.
\* Gates: a thread is in a barrier's set once it has arrived, and is past a
\* barrier only when all have.
BeforeStart == {"create", "unborn", "ready"}
BeforeGo == BeforeStart \cup {"at_start"}
BeforeRace == BeforeGo \cup {"at_go"}

Gates ==
  /\ started = {t \in Parties : pc[t] \notin BeforeStart}
  /\ go = {t \in Parties : pc[t] \notin BeforeGo}
  /\ (\E t \in Parties : pc[t] \notin BeforeGo) => started = Parties
  /\ (\E t \in Parties : pc[t] \notin BeforeRace) => go = Parties

\* Times and flags are written once, at the places setTime writes them, and
\* only a runner who could drop the baton has dropped it.
Written ==
  \A r \in Runners :
    /\ time[r] # "none" <=> pc[r] \in Timed
    /\ bFinished[r] <=> pc[r] \in Flagged
    /\ time[r] = "drop" => pc[r] \in {"finish", "notify", "gone"}

\* Nobody has the baton before the previous runner's flag is up.
BatonHanded ==
  \A r \in Runners :
    pc[r] \in Racing \cup Timed /\ r[2] # 1 => bFinished[Prev(r)]

\* First runners never wait and never drop the baton.
FirstRunners ==
  \A r \in Runners : pc[r] \in Waiting \cup {"exchange", "drop"} \/ time[r] = "drop" => r[2] # 1

\* A mutex is held exactly while the following runner is in its scope.
MutexHeld ==
  \A r \in Runners : r[2] # 1 => (Prev(r) \in locked <=> pc[r] \in {"check", "block"})

\* The flag is up once somebody took it; who is announced is gone and belongs
\* to a team with all its exchanges, and whoever ran the last leg and found
\* the flag down took it.
FlagTaken ==
  /\ winner <=> Claimants # {}
  /\ \A r \in announced : pc[r] = "gone"
  /\ \A r \in Runners : pc[r] = "claim" \/ r \in Claimants =>
       iNumBatonExchanges[r[1]] = NUM_MEMBERS
  /\ \A r \in Runners : r[2] = NUM_MEMBERS /\ pc[r] = "gone" /\ time[r] = "sprint" => winner
  /\ pc[Main] = "done" => \A r \in Runners : pc[r] = "gone"

IInv ==
  /\ TypeOK
  /\ Gates
  /\ LegsInOrder
  /\ Written
  /\ BatonHanded
  /\ FirstRunners
  /\ MutexHeld
  /\ NoLostBaton
  /\ SingleWinner
  /\ FlagTaken

\* The race ends: a dropped baton does not strand the rest of its team.
RaceFinishes == <>(pc[Main] = "done")

\* What barrier.hpp counts: the calls begun, and those that returned
ReturnedFrom(arrivals, place) == [t \in Parties |-> IF t \in arrivals /\ pc[t] # place THEN 1 ELSE 0]
ArrivedAt(arrivals) == [t \in Parties |-> IF t \in arrivals THEN 1 ELSE 0]

Start == INSTANCE PhaseBarrier
           WITH Threads <- Parties, Rounds <- 1,
                arrived <- ArrivedAt(started), left <- ReturnedFrom(started, "at_start")

Gun == INSTANCE PhaseBarrier
         WITH Threads <- Parties, Rounds <- 1,
              arrived <- ArrivedAt(go), left <- ReturnedFrom(go, "at_go")

\* Both barriers are used as barrier.hpp allows, and what the race relies on
\* is what barrier.hpp promises.
KeepsBarrierContracts == Start!Spec /\ Gun!Spec

\* The threads together run the race that RelayRace describes.
Race == INSTANCE RelayRace
          WITH legs <- [team \in Teams |->
                          [leg \in 1..iNumBatonExchanges[team] |-> time[<<team, leg>>]]],
               champions <- {r[1] : r \in announced},
               over <- pc[Main] = "done"

ImplementsRelayRace == Race!Spec

\* v4.cpp says that a team that dropped its baton cannot be the champion.
EliminatedNeverWins ==
  \A r \in announced : \A s \in Runners : s[1] = r[1] => time[s] # "drop"

=============================================================================
