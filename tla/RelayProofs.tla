---------------------------- MODULE RelayProofs -----------------------------
(***************************************************************************)
(* Safety of the relay for every number of teams and of members: the       *)
(* inductive invariant IInv of Relay.tla, and the properties that the runs *)
(* check on small races as its consequences.                               *)
(***************************************************************************)
EXTENDS RelayLegs, Sequences, FiniteSetTheorems, TLAPS

-----------------------------------------------------------------------------
(* Runners, lanes and barriers                                             *)

LEMMA MainIsNoRunner == Main \in Parties /\ Main \notin Runners
BY DEF Main, Parties, Runners, Teams, Legs

LEMMA RunnerTyping ==
  ASSUME NEW r \in Runners
  PROVE  /\ r \in Parties /\ r # Main
         /\ r[1] \in Teams /\ r[2] \in Legs
         /\ r[2] \in Nat /\ r[2] >= 1 /\ r[2] <= NUM_MEMBERS
         /\ r = <<r[1], r[2]>>
BY MembersAssumption, MainIsNoRunner DEF Parties, Runners, Teams, Legs

LEMMA PrevTyping ==
  ASSUME NEW r \in Runners, r[2] # 1
  PROVE  /\ Prev(r) \in Runners /\ Prev(r) # r
         /\ Prev(r)[1] = r[1] /\ Prev(r)[2] = r[2] - 1
BY MembersAssumption, RunnerTyping DEF Prev, Runners, Teams, Legs

\* A runner hands its baton to one runner only.
LEMMA PrevInjective ==
  ASSUME NEW r \in Runners, NEW s \in Runners, Prev(r) = Prev(s)
  PROVE  r = s
BY RunnerTyping, MembersAssumption DEF Prev

LEMMA SameLaneSameLeg ==
  ASSUME NEW r \in Runners, NEW s \in Runners, r[1] = s[1], r[2] = s[2]
  PROVE  r = s
BY RunnerTyping

LEMMA PartiesAreCounted ==
  IsFiniteSet(Parties) /\ Cardinality(Parties) = BarrierSize
<1>1. IsFiniteSet(Teams) /\ Cardinality(Teams) = NUM_TEAMS
  BY TeamsAssumption, FS_Interval DEF Teams
<1>2. IsFiniteSet(Legs) /\ Cardinality(Legs) = NUM_MEMBERS
  BY MembersAssumption, FS_Interval DEF Legs
<1>3. IsFiniteSet(Runners) /\ Cardinality(Runners) = NUM_TEAMS * NUM_MEMBERS
  BY <1>1, <1>2, FS_Product DEF Runners
<1>4. IsFiniteSet(Parties) /\ Cardinality(Parties) = (NUM_TEAMS * NUM_MEMBERS) + 1
  BY <1>3, MainIsNoRunner, FS_AddElement DEF Parties
<1>5. NUM_TEAMS * NUM_MEMBERS \in Nat
  BY <1>3, FS_CardinalityType
<1>. QED
  BY <1>4, <1>5 DEF BarrierSize

\* A barrier of that size opens only when everybody has arrived.
LEMMA OpenedForAll ==
  ASSUME NEW arrivals \in SUBSET Parties, Opened(arrivals)
  PROVE  arrivals = Parties
BY PartiesAreCounted, FS_Subset DEF Opened

-----------------------------------------------------------------------------
(* The inductive invariant                                                 *)

LEMMA InitIInv == Init => IInv
<1> SUFFICES ASSUME Init PROVE IInv
  OBVIOUS
<1>1. /\ pc[Main] = "create"
      /\ \A r \in Runners : pc[r] = "unborn"
      /\ \A t \in Parties : pc[t] \in {"create", "unborn"}
  BY MainIsNoRunner, RunnerTyping DEF Init
<1>2. TypeOK
  <2>1. pc \in [Parties -> Places]
    BY DEF Init, MainPlaces, RunnerPlaces, Places
  <2>2. iNumBatonExchanges \in [Teams -> 0..NUM_MEMBERS]
    BY MembersAssumption DEF Init
  <2>3. pc[Main] \in MainPlaces /\ \A r \in Runners : pc[r] \in RunnerPlaces
    BY <1>1 DEF MainPlaces, RunnerPlaces
  <2>. QED
    BY <2>1, <2>2, <2>3 DEF Init, TypeOK
<1>3. Gates
  BY <1>1 DEF Init, Gates, BeforeStart, BeforeGo, BeforeRace
<1>4. LegsInOrder
  <2> SUFFICES ASSUME NEW r \in Runners
               PROVE  time[r] # "none" <=> r[2] <= iNumBatonExchanges[r[1]]
    BY DEF LegsInOrder
  <2>1. time[r] = "none" /\ iNumBatonExchanges[r[1]] = 0
    BY RunnerTyping DEF Init
  <2>. QED
    BY <2>1, RunnerTyping
<1>5. Written /\ BatonHanded /\ FirstRunners /\ MutexHeld /\ NoLostBaton
  BY <1>1
  DEF Init, Written, BatonHanded, FirstRunners, MutexHeld, NoLostBaton,
      Waiting, Racing, Timed, Flagged, Notified
<1>6. SingleWinner /\ FlagTaken
  BY <1>1 DEF Init, SingleWinner, FlagTaken, Claimants
<1>. QED
  BY <1>2, <1>3, <1>4, <1>5, <1>6 DEF IInv

\* When one thread moves, it is where it moved to and the others stay.
LEMMA OneMoves ==
  ASSUME TypeOK, NEW t \in Parties, NEW p \in Places, pc' = [pc EXCEPT ![t] = p]
  PROVE  /\ pc' \in [Parties -> Places]
         /\ pc'[t] = p
         /\ \A s \in Parties \ {t} : pc'[s] = pc[s]
         /\ t # Main => pc'[Main] = pc[Main]
         /\ \A r \in Runners \ {t} : pc'[r] = pc[r]
BY MainIsNoRunner, RunnerTyping DEF TypeOK

\* A step of the barriers: t moves on, everything else stays.
LEMMA StartIInv ==
  ASSUME IInv, NEW t \in Parties, ArriveStarted(t) \/ ArriveGo(t) \/ LeaveGo(t)
  PROVE  IInv'
<1> USE DEF IInv
<1> DEFINE p == pc'[t]
<1>1. /\ p \in {"at_start", "at_go"} \cup (IF t = Main THEN {"join"} ELSE {"run", "lock"})
      /\ t # Main => (p = "run" => t[2] = 1) /\ (p = "lock" => t[2] # 1)
      /\ pc' = [pc EXCEPT ![t] = p]
      /\ pc[t] \in {"ready", "at_start", "at_go"}
      /\ UNCHANGED <<locked, bFinished, time, iNumBatonExchanges, winner, announced>>
  BY DEF ArriveStarted, ArriveGo, LeaveGo, AfterTheGun, TypeOK
<1>2. p \in Places /\ (t = Main => p \in MainPlaces) /\ (t # Main => p \in RunnerPlaces)
  BY <1>1 DEF Places, MainPlaces, RunnerPlaces, Waiting, Racing
<1> HIDE DEF p
<1>3. /\ pc' \in [Parties -> Places]
      /\ pc'[t] = p
      /\ \A s \in Parties \ {t} : pc'[s] = pc[s]
      /\ t # Main => pc'[Main] = pc[Main]
      /\ \A r \in Runners \ {t} : pc'[r] = pc[r]
  BY <1>1, <1>2, OneMoves
<1>4. TypeOK'
  <2>1. started' \subseteq Parties /\ go' \subseteq Parties
    BY DEF TypeOK, ArriveStarted, ArriveGo, LeaveGo
  <2>. QED
    BY <1>1, <1>2, <1>3, <2>1, MainIsNoRunner DEF TypeOK
<1>5. Gates'
  <2>1. CASE ArriveStarted(t)
    BY <1>3, <2>1 DEF ArriveStarted, TypeOK, Gates, BeforeStart, BeforeGo, BeforeRace
  <2>2. CASE ArriveGo(t)
    BY <1>3, <2>2, OpenedForAll DEF ArriveGo, TypeOK, Gates, BeforeStart, BeforeGo, BeforeRace
  <2>3. CASE LeaveGo(t)
    BY <1>3, <2>3, OpenedForAll
    DEF LeaveGo, TypeOK, Gates, BeforeStart, BeforeGo, BeforeRace, AfterTheGun
  <2>. QED
    BY <2>1, <2>2, <2>3
<1>6. LegsInOrder'
  BY <1>1 DEF LegsInOrder
<1>7. Written'
  BY <1>1, <1>3 DEF Written, Timed, Flagged
<1>8. BatonHanded'
  BY <1>1, <1>3 DEF BatonHanded, Racing, Timed
<1>9. FirstRunners'
  BY <1>1, <1>3 DEF FirstRunners, Waiting
<1>10. MutexHeld'
  BY <1>1, <1>3 DEF MutexHeld
<1>11. NoLostBaton'
  BY <1>1, <1>3 DEF NoLostBaton, Notified, Flagged, Timed
<1>12. SingleWinner' /\ FlagTaken'
  <2>1. Claimants' = Claimants
    BY <1>1, <1>3 DEF Claimants
  <2>. QED
    BY <1>1, <1>3, <2>1, MainIsNoRunner DEF TypeOK, SingleWinner, FlagTaken
<1>. QED
  BY <1>4, <1>5, <1>6, <1>7, <1>8, <1>9, <1>10, <1>11, <1>12

\* main constructs a thread: one runner is ready, and main after the last one.
LEMMA CreateIInv ==
  ASSUME IInv, NEW r \in Runners, CreateThread(r)
  PROVE  IInv'
<1> USE DEF IInv
<1> DEFINE p == pc'[Main]
<1>1. /\ p \in {"create", "ready"}
      /\ pc' = [pc EXCEPT ![r] = "ready", ![Main] = p]
      /\ pc[r] = "unborn" /\ pc[Main] = "create"
      /\ UNCHANGED <<started, go, locked, bFinished, time, iNumBatonExchanges, winner, announced>>
  BY RunnerTyping, MainIsNoRunner DEF CreateThread, TypeOK
<1> HIDE DEF p
<1>2. /\ pc' \in [Parties -> Places]
      /\ pc'[r] = "ready" /\ pc'[Main] = p
      /\ \A t \in Parties \ {r, Main} : pc'[t] = pc[t]
      /\ \A s \in Runners \ {r} : pc'[s] = pc[s]
  BY <1>1, RunnerTyping, MainIsNoRunner DEF TypeOK, Places, MainPlaces, RunnerPlaces
<1>3. TypeOK'
  BY <1>1, <1>2 DEF TypeOK, MainPlaces, RunnerPlaces
<1>4. Gates'
  BY <1>1, <1>2, RunnerTyping, MainIsNoRunner DEF Gates, BeforeStart, BeforeGo, BeforeRace
<1>5. LegsInOrder'
  BY <1>1 DEF LegsInOrder
<1>6. Written'
  BY <1>1, <1>2 DEF Written, Timed, Flagged
<1>7. BatonHanded' /\ FirstRunners'
  BY <1>1, <1>2 DEF BatonHanded, FirstRunners, Waiting, Racing, Timed
<1>8. MutexHeld'
  BY <1>1, <1>2 DEF MutexHeld
<1>9. NoLostBaton'
  BY <1>1, <1>2, PrevTyping
  DEF NoLostBaton, FirstRunners, Waiting, Notified, Flagged, Timed
<1>10. SingleWinner' /\ FlagTaken'
  <2>1. Claimants' = Claimants
    BY <1>1, <1>2 DEF Claimants
  <2>. QED
    BY <1>1, <1>2, <2>1 DEF TypeOK, SingleWinner, FlagTaken
<1>. QED
  BY <1>3, <1>4, <1>5, <1>6, <1>7, <1>8, <1>9, <1>10

\* The steps of a runner around the baton: only its place and the mutex of
\* the runner before it change.
LEMMA BatonIInv ==
  ASSUME IInv, NEW r \in Runners,
         LockBaton(r) \/ BatonArrived(r) \/ BatonMissing(r) \/ BlockOnBaton(r)
           \/ SpuriousWakeup(r) \/ Exchange(r)
  PROVE  IInv'
<1> USE DEF IInv
<1> DEFINE p == pc'[r]
<1>1. /\ pc[r] \in Waiting \cup {"exchange"}
      /\ p \in {"lock", "check", "block", "wait", "exchange", "run", "drop"}
      /\ p \in {"exchange", "run", "drop"} => pc[r] = "exchange" \/ bFinished[Prev(r)]
      /\ p = "block" => ~bFinished[Prev(r)]
      /\ p = "wait" => pc[r] = "block"
      /\ pc' = [pc EXCEPT ![r] = p]
      /\ UNCHANGED <<started, go, bFinished, time, iNumBatonExchanges, winner, announced>>
  BY RunnerTyping
  DEF LockBaton, BatonArrived, BatonMissing, BlockOnBaton, SpuriousWakeup, Exchange,
      BatonThere, TypeOK, Waiting
<1>2. p \in Places /\ p \in RunnerPlaces
  BY <1>1 DEF Places, RunnerPlaces, Waiting, Racing
<1>3. r[2] # 1 /\ Prev(r) \in Runners
  BY <1>1, PrevTyping DEF FirstRunners
<1>4. IF p \in {"check", "block"} THEN locked' = locked \cup {Prev(r)}
                                  ELSE locked' = locked \ {Prev(r)}
  <2>1. pc[r] \notin {"check", "block"} => Prev(r) \notin locked
    BY <1>3 DEF MutexHeld
  <2>2. pc[r] \in {"check", "block"} => Prev(r) \in locked
    BY <1>3 DEF MutexHeld
  <2>3. CASE LockBaton(r)
    BY <2>3, RunnerTyping DEF LockBaton, TypeOK
  <2>4. CASE BatonArrived(r) \/ BlockOnBaton(r)
    BY <2>4, RunnerTyping DEF BatonArrived, BlockOnBaton, TypeOK
  <2>5. CASE BatonMissing(r)
    BY <2>2, <2>5, RunnerTyping DEF BatonMissing, TypeOK
  <2>6. CASE SpuriousWakeup(r) \/ Exchange(r)
    BY <2>1, <2>6, RunnerTyping DEF SpuriousWakeup, Exchange, TypeOK
  <2>. QED
    BY <2>3, <2>4, <2>5, <2>6
<1> HIDE DEF p
<1>5. /\ pc' \in [Parties -> Places]
      /\ pc'[r] = p
      /\ pc'[Main] = pc[Main]
      /\ \A t \in Parties \ {r} : pc'[t] = pc[t]
      /\ \A s \in Runners \ {r} : pc'[s] = pc[s]
  BY <1>1, <1>2, OneMoves, RunnerTyping
<1>6. TypeOK'
  BY <1>1, <1>2, <1>3, <1>4, <1>5 DEF TypeOK
<1>7. Gates'
  BY <1>1, <1>5, RunnerTyping DEF Gates, BeforeStart, BeforeGo, BeforeRace, Waiting
<1>8. LegsInOrder'
  BY <1>1 DEF LegsInOrder
<1>9. Written'
  BY <1>1, <1>5 DEF Written, Timed, Flagged, Waiting
<1>10. BatonHanded'
  BY <1>1, <1>3, <1>5 DEF BatonHanded, Racing, Timed
<1>11. FirstRunners'
  BY <1>1, <1>3, <1>5 DEF FirstRunners, Waiting
<1>12. MutexHeld'
  BY <1>1, <1>4, <1>5, PrevInjective DEF MutexHeld
<1>13. NoLostBaton'
  BY <1>1, <1>3, <1>5, PrevTyping
  DEF NoLostBaton, Written, Notified, Flagged, Timed, Waiting
<1>14. SingleWinner' /\ FlagTaken'
  <2>1. Claimants' = Claimants
    BY <1>1, <1>5 DEF Claimants, Waiting
  <2>. QED
    BY <1>1, <1>5, <2>1 DEF SingleWinner, FlagTaken, Waiting
<1>. QED
  BY <1>6, <1>7, <1>8, <1>9, <1>10, <1>11, <1>12, <1>13, <1>14

-----------------------------------------------------------------------------
(* Competitor::setTime                                                     *)

\* Team::addTime: the runner's leg is the next one its team has to record.
LEMMA AddTimeIInv ==
  ASSUME IInv, NEW r \in Runners, AddTime(r)
  PROVE  IInv'
<1> USE DEF IInv
<1> DEFINE n == iNumBatonExchanges[r[1]]
<1>1. /\ pc[r] \in {"run", "drop"}
      /\ pc' = [pc EXCEPT ![r] = "finish"]
      /\ iNumBatonExchanges' = [iNumBatonExchanges EXCEPT ![r[1]] = @ + 1]
      /\ time' = [time EXCEPT ![r] = IF pc[r] = "run" THEN "sprint" ELSE "drop"]
      /\ UNCHANGED <<started, go, locked, bFinished, winner, announced>>
  BY DEF AddTime, CountExchange
<1>2. /\ pc' \in [Parties -> Places]
      /\ pc'[r] = "finish"
      /\ pc'[Main] = pc[Main]
      /\ \A t \in Parties \ {r} : pc'[t] = pc[t]
      /\ \A s \in Runners \ {r} : pc'[s] = pc[s]
  BY <1>1, OneMoves, RunnerTyping DEF Places, RunnerPlaces, Timed
<1>3. n + 1 = r[2]
  <2>1. n \in Nat /\ r[2] \in Nat /\ r[2] >= 1
    BY RunnerTyping DEF TypeOK
  <2>2. r[2] > n
    <3>1. time[r] = "none"
      BY <1>1 DEF Written, Timed
    <3>. QED
      BY <2>1, <3>1 DEF LegsInOrder
  <2>3. r[2] # 1 => r[2] - 1 <= n
    <3> SUFFICES ASSUME r[2] # 1 PROVE r[2] - 1 <= n
      OBVIOUS
    <3>1. time[Prev(r)] # "none"
      BY <1>1, PrevTyping DEF BatonHanded, Written, Racing, Timed, Flagged
    <3>. QED
      BY <3>1, PrevTyping DEF LegsInOrder
  <2>. QED
    BY <2>1, <2>2, <2>3
<1>4. /\ iNumBatonExchanges'[r[1]] = r[2]
      /\ \A team \in Teams \ {r[1]} : iNumBatonExchanges'[team] = iNumBatonExchanges[team]
  BY <1>1, <1>3, RunnerTyping DEF TypeOK
<1>5. /\ time'[r] \in {"sprint", "drop"}
      /\ time'[r] = "drop" => pc[r] = "drop"
      /\ \A s \in Runners \ {r} : time'[s] = time[s]
  BY <1>1 DEF TypeOK
<1>6. TypeOK'
  BY <1>1, <1>2, <1>4, <1>5, RunnerTyping DEF TypeOK, RunnerPlaces, Timed
<1>7. Gates'
  BY <1>1, <1>2, RunnerTyping DEF Gates, BeforeStart, BeforeGo, BeforeRace
<1>8. LegsInOrder'
  <2> SUFFICES ASSUME NEW s \in Runners
               PROVE  time'[s] # "none" <=> s[2] <= iNumBatonExchanges'[s[1]]
    BY DEF LegsInOrder
  <2>1. CASE s[1] # r[1]
    BY <1>4, <1>5, <2>1, RunnerTyping DEF LegsInOrder
  <2>2. CASE s = r
    BY <1>4, <1>5, <2>2, RunnerTyping
  <2>3. CASE s[1] = r[1] /\ s # r
    <3>1. s[2] # r[2] /\ s[2] \in Nat /\ r[2] \in Nat
      BY <2>3, SameLaneSameLeg, RunnerTyping
    <3>2. time[s] # "none" <=> s[2] <= r[2] - 1
      BY <1>3, <2>3, RunnerTyping DEF LegsInOrder, TypeOK
    <3>. QED
      BY <1>4, <1>5, <2>3, <3>1, <3>2
  <2>. QED
    BY <2>1, <2>2, <2>3
<1>9. Written'
  BY <1>1, <1>2, <1>5 DEF Written, Timed, Flagged
<1>10. BatonHanded'
  BY <1>1, <1>2 DEF BatonHanded, Racing, Timed
<1>11. FirstRunners'
  BY <1>1, <1>2, <1>5 DEF FirstRunners, Waiting
<1>12. MutexHeld' /\ NoLostBaton'
  BY <1>1, <1>2, PrevTyping
  DEF MutexHeld, NoLostBaton, FirstRunners, Waiting, Notified, Flagged, Timed
<1>13. SingleWinner' /\ FlagTaken'
  <2>1. Claimants' = Claimants
    BY <1>1, <1>2 DEF Claimants
  <2>2. n # NUM_MEMBERS
    BY <1>3, RunnerTyping DEF TypeOK
  <2>. QED
    BY <1>1, <1>2, <1>4, <1>5, <2>1, <2>2, RunnerTyping DEF TypeOK, SingleWinner, FlagTaken, Claimants
<1>. QED
  BY <1>6, <1>7, <1>8, <1>9, <1>10, <1>11, <1>12, <1>13

LEMMA SetFinishedIInv ==
  ASSUME IInv, NEW r \in Runners, SetFinished(r)
  PROVE  IInv'
<1> USE DEF IInv
<1>1. /\ pc[r] = "finish"
      /\ pc' = [pc EXCEPT ![r] = "notify"]
      /\ bFinished' = [bFinished EXCEPT ![r] = TRUE]
      /\ UNCHANGED <<started, go, locked, time, iNumBatonExchanges, winner, announced>>
  BY DEF SetFinished
<1>2. /\ pc' \in [Parties -> Places]
      /\ pc'[r] = "notify"
      /\ pc'[Main] = pc[Main]
      /\ \A t \in Parties \ {r} : pc'[t] = pc[t]
      /\ \A s \in Runners \ {r} : pc'[s] = pc[s]
  BY <1>1, OneMoves, RunnerTyping DEF Places, RunnerPlaces, Timed
<1>3. bFinished'[r] /\ \A s \in Runners \ {r} : bFinished'[s] = bFinished[s]
  BY <1>1 DEF TypeOK
<1>4. TypeOK'
  BY <1>1, <1>2 DEF TypeOK, RunnerPlaces, Timed
<1>5. Gates'
  BY <1>1, <1>2, RunnerTyping DEF Gates, BeforeStart, BeforeGo, BeforeRace
<1>6. LegsInOrder'
  BY <1>1 DEF LegsInOrder
<1>7. Written'
  BY <1>1, <1>2, <1>3 DEF Written, Timed, Flagged
<1>8. BatonHanded'
  BY <1>1, <1>2, <1>3, PrevTyping DEF BatonHanded, Racing, Timed
<1>9. FirstRunners' /\ MutexHeld'
  BY <1>1, <1>2 DEF FirstRunners, MutexHeld, Waiting
<1>10. NoLostBaton'
  BY <1>1, <1>2, PrevTyping DEF NoLostBaton, FirstRunners, Waiting, Notified, Flagged, Timed
<1>11. SingleWinner' /\ FlagTaken'
  <2>1. Claimants' = Claimants
    BY <1>1, <1>2 DEF Claimants
  <2>. QED
    BY <1>1, <1>2, <2>1 DEF TypeOK, SingleWinner, FlagTaken
<1>. QED
  BY <1>4, <1>5, <1>6, <1>7, <1>8, <1>9, <1>10, <1>11

\* The following runner is not between its check and its wait, because that
\* takes the mutex: it is woken if it waits, and else will see the flag.
LEMMA NotifyBatonIInv ==
  ASSUME IInv, NEW r \in Runners, NotifyBaton(r)
  PROVE  IInv'
<1> USE DEF IInv
<1>1. /\ pc[r] = "notify" /\ r \notin locked
      /\ UNCHANGED <<started, go, locked, bFinished, time, iNumBatonExchanges, winner, announced>>
  BY DEF NotifyBaton, MayLock
<1>2. /\ pc'[r] = IF time[r] = "drop" THEN "gone" ELSE "cross"
      /\ pc'[Main] = pc[Main]
      /\ \A s \in Runners \ {r} :
            IF s \in Woken(r) THEN pc'[s] = "lock" /\ pc[s] = "wait" ELSE pc'[s] = pc[s]
  BY RunnerTyping, MainIsNoRunner DEF NotifyBaton, Woken
<1>3. pc' \in [Parties -> Places]
  BY <1>1 DEF NotifyBaton, TypeOK, Places, RunnerPlaces, Waiting, Timed
<1>4. TypeOK'
  BY <1>1, <1>2, <1>3 DEF TypeOK, RunnerPlaces, Timed, Waiting
<1>5. Gates'
  <2>1. \A t \in Parties : pc'[t] # pc[t] =>
          {pc[t], pc'[t]} \cap (BeforeRace \cup MainPlaces) = {}
    BY <1>1, <1>2, RunnerTyping
    DEF Parties, BeforeStart, BeforeGo, BeforeRace, MainPlaces
  <2>. QED
    BY <1>1, <2>1 DEF Gates, BeforeStart, BeforeGo, BeforeRace
<1>6. LegsInOrder'
  BY <1>1 DEF LegsInOrder
<1>7. Written'
  BY <1>1, <1>2 DEF Written, Timed, Flagged
<1>8. BatonHanded'
  BY <1>1, <1>2 DEF BatonHanded, Racing, Timed
<1>9. FirstRunners'
  BY <1>1, <1>2 DEF FirstRunners, Waiting
<1>10. MutexHeld'
  BY <1>1, <1>2 DEF MutexHeld
<1>11. NoLostBaton'
  <2> SUFFICES ASSUME NEW s \in Runners, pc'[s] \in {"block", "wait"}
               PROVE  pc'[Prev(s)] \notin Notified
    BY DEF NoLostBaton
  <2>1. s \notin Woken(r) /\ s # r /\ pc[s] = pc'[s]
    BY <1>2
  <2>2. s[2] # 1
    BY <2>1 DEF FirstRunners, Waiting
  <2>3. Prev(s) # r
    <3> SUFFICES ASSUME Prev(s) = r PROVE FALSE
      OBVIOUS
    <3>1. pc[s] = "wait"
      BY <1>1, <2>1, <2>2 DEF MutexHeld
    <3>2. s[1] = r[1] /\ s[2] = r[2] + 1
      BY <2>2, PrevTyping, RunnerTyping
    <3>. QED
      BY <2>1, <3>1, <3>2 DEF Woken
  <2>. QED
    BY <1>2, <2>1, <2>2, <2>3, PrevTyping DEF NoLostBaton, Notified, Flagged, Timed
<1>12. SingleWinner' /\ FlagTaken'
  <2>1. Claimants' = Claimants
    BY <1>1, <1>2 DEF Claimants
  <2>. QED
    BY <1>1, <1>2, <2>1 DEF TypeOK, SingleWinner, FlagTaken
<1>. QED
  BY <1>4, <1>5, <1>6, <1>7, <1>8, <1>9, <1>10, <1>11, <1>12

-----------------------------------------------------------------------------
(* The finish                                                              *)

\* The steps after setTime change the runner's place, the flag and the
\* announcement only, so only SingleWinner and FlagTaken are at stake.
LEMMA HomeIInv ==
  ASSUME IInv, NEW r \in Runners, CrossLine(r) \/ Claim(r) \/ Announce(r)
  PROVE  IInv'
<1> USE DEF IInv
<1> DEFINE p == pc'[r]
<1>1. /\ pc[r] \in {"cross", "claim", "announce"}
      /\ p \in {"claim", "announce", "gone"}
      /\ pc' = [pc EXCEPT ![r] = p]
      /\ winner' \in BOOLEAN
      /\ announced' \in SUBSET Runners
      /\ UNCHANGED <<started, go, locked, bFinished, time, iNumBatonExchanges>>
  BY RunnerTyping DEF CrossLine, Claim, Announce, Exchanged, TypeOK
<1>2. p \in Places /\ p \in RunnerPlaces
  BY <1>1 DEF Places, RunnerPlaces, Timed
<1> HIDE DEF p
<1>3. /\ pc' \in [Parties -> Places]
      /\ pc'[r] = p
      /\ pc'[Main] = pc[Main]
      /\ \A t \in Parties \ {r} : pc'[t] = pc[t]
      /\ \A s \in Runners \ {r} : pc'[s] = pc[s]
  BY <1>1, <1>2, OneMoves, RunnerTyping
<1>4. TypeOK'
  BY <1>1, <1>2, <1>3 DEF TypeOK
<1>5. Gates'
  BY <1>1, <1>3, RunnerTyping DEF Gates, BeforeStart, BeforeGo, BeforeRace
<1>6. LegsInOrder'
  BY <1>1 DEF LegsInOrder
<1>7. Written'
  BY <1>1, <1>3 DEF Written, Timed, Flagged
<1>8. BatonHanded' /\ FirstRunners' /\ MutexHeld'
  BY <1>1, <1>3 DEF BatonHanded, FirstRunners, MutexHeld, Waiting, Racing, Timed
<1>9. NoLostBaton'
  BY <1>1, <1>3, PrevTyping DEF NoLostBaton, FirstRunners, Waiting, Notified, Flagged, Timed
<1>10. SingleWinner' /\ FlagTaken'
  <2>1. CASE CrossLine(r)
    <3>1. Claimants' = Claimants
      BY <1>3, <2>1 DEF CrossLine, Claimants
    <3>2. r[2] = NUM_MEMBERS => iNumBatonExchanges[r[1]] = NUM_MEMBERS
      BY <2>1, RunnerTyping DEF CrossLine, Written, Timed, LegsInOrder, TypeOK
    <3>3. p = IF iNumBatonExchanges[r[1]] = NUM_MEMBERS THEN "claim" ELSE "gone"
      BY <1>3, <2>1, RunnerTyping DEF CrossLine, LastLeg, TypeOK
    <3>. QED
      BY <1>1, <1>3, <2>1, <3>1, <3>2, <3>3 DEF CrossLine, TypeOK, SingleWinner, FlagTaken
  <2>2. CASE Claim(r)
    <3>1. /\ pc[r] = "claim" /\ announced' = announced /\ winner' = TRUE
          /\ p = IF winner THEN "gone" ELSE "announce"
      BY <1>3, <2>2, RunnerTyping DEF Claim, Exchanged, TypeOK
    <3>2. Claimants' = IF winner THEN Claimants ELSE {r}
      BY <1>3, <3>1 DEF Claimants, FlagTaken
    <3>. QED
      BY <1>1, <1>3, <3>1, <3>2 DEF TypeOK, SingleWinner, FlagTaken
  <2>3. CASE Announce(r)
    <3>1. /\ pc[r] = "announce" /\ announced' = announced \cup {r} /\ winner' = winner
          /\ p = "gone"
      BY <1>3, <2>3, RunnerTyping DEF Announce, TypeOK
    <3>2. Claimants' = Claimants
      BY <1>3, <3>1 DEF Claimants
    <3>3. r \in Claimants
      BY <3>1 DEF Claimants
    <3>. QED
      BY <1>1, <1>3, <3>1, <3>2, <3>3 DEF TypeOK, SingleWinner, FlagTaken
  <2>. QED
    BY <2>1, <2>2, <2>3
<1>. QED
  BY <1>4, <1>5, <1>6, <1>7, <1>8, <1>9, <1>10

LEMMA PrintResultsIInv ==
  ASSUME IInv, PrintResults
  PROVE  IInv'
<1> USE DEF IInv
<1>1. /\ pc[Main] = "join" /\ pc' = [pc EXCEPT ![Main] = "done"]
      /\ \A r \in Runners : pc[r] = "gone"
      /\ UNCHANGED <<started, go, locked, bFinished, time, iNumBatonExchanges, winner, announced>>
  BY DEF PrintResults, Joined
<1>2. /\ pc' \in [Parties -> Places]
      /\ pc'[Main] = "done"
      /\ \A t \in Parties \ {Main} : pc'[t] = pc[t]
      /\ \A r \in Runners : pc'[r] = pc[r]
  BY <1>1, OneMoves, MainIsNoRunner DEF Places, MainPlaces
<1>3. TypeOK'
  BY <1>1, <1>2 DEF TypeOK, MainPlaces
<1>4. Gates'
  BY <1>1, <1>2, MainIsNoRunner DEF Gates, BeforeStart, BeforeGo, BeforeRace
<1>5. LegsInOrder' /\ Written' /\ FirstRunners' /\ MutexHeld'
  BY <1>1, <1>2 DEF LegsInOrder, Written, FirstRunners, MutexHeld
<1>6. BatonHanded' /\ NoLostBaton'
  BY <1>1, <1>2 DEF BatonHanded, NoLostBaton
<1>7. SingleWinner' /\ FlagTaken'
  <2>1. Claimants' = Claimants
    BY <1>1, <1>2 DEF Claimants
  <2>. QED
    BY <1>1, <1>2, <2>1 DEF TypeOK, SingleWinner, FlagTaken
<1>. QED
  BY <1>3, <1>4, <1>5, <1>6, <1>7

-----------------------------------------------------------------------------
LEMMA NextIInv == IInv /\ [Next]_vars => IInv'
<1> SUFFICES ASSUME IInv, [Next]_vars PROVE IInv'
  OBVIOUS
<1>1. ASSUME NEW t \in Parties, ArriveStarted(t) \/ ArriveGo(t) \/ LeaveGo(t) PROVE IInv'
  BY <1>1, StartIInv
<1>2. ASSUME NEW r \in Runners, RunnerStep(r) \/ LockStep(r) \/ SpuriousWakeup(r) PROVE IInv'
  BY <1>1, <1>2, RunnerTyping, BatonIInv, AddTimeIInv, SetFinishedIInv, NotifyBatonIInv, HomeIInv
  DEF RunnerStep, LockStep
<1>3. ASSUME MainStep PROVE IInv'
  BY <1>1, <1>3, MainIsNoRunner, CreateIInv, PrintResultsIInv DEF MainStep
<1>4. CASE UNCHANGED vars
  BY <1>4
  DEF vars, IInv, TypeOK, Gates, LegsInOrder, Written, BatonHanded, FirstRunners, MutexHeld,
      NoLostBaton, SingleWinner, FlagTaken, Claimants
<1>. QED
  BY <1>2, <1>3, <1>4 DEF Next, Finished

(* The theorems                                                            *)

\* Every step of every race preserves the invariant.
THEOREM RelayInvariant == Spec => []IInv
BY InitIInv, NextIInv, PTL DEF Spec

\* Every variable keeps its range, the exchange counter included.
THEOREM RelayTyping == Spec => []TypeOK
<1>1. IInv => TypeOK
  BY DEF IInv
<1>. QED
  BY <1>1, RelayInvariant, PTL

\* Nobody is on the track before every thread is in its blocks and the
\* official has fired.
THEOREM FairStart == Spec => []NobodyRunsBeforeTheGun
<1>1. IInv => NobodyRunsBeforeTheGun
  <2> SUFFICES ASSUME IInv, NEW r \in Runners, pc[r] \in Waiting \cup Racing \cup Timed
               PROVE  /\ pc[Main] \in {"at_go", "join", "done"}
                      /\ \A s \in Runners : pc[s] \notin {"unborn", "ready", "at_start"}
    BY DEF NobodyRunsBeforeTheGun
  <2>1. go = Parties
    BY RunnerTyping
    DEF IInv, Gates, BeforeRace, BeforeGo, BeforeStart, Waiting, Racing, Timed
  <2>2. \A t \in Parties : pc[t] \notin {"create", "unborn", "ready", "at_start"}
    BY <2>1 DEF IInv, Gates, BeforeGo, BeforeStart
  <2>. QED
    BY <2>2, MainIsNoRunner, RunnerTyping DEF IInv, TypeOK, MainPlaces
<1>. QED
  BY <1>1, RelayInvariant, PTL

\* The legs a team has recorded are its first ones.
THEOREM LegsAreInOrder == Spec => []LegsInOrder
<1>1. IInv => LegsInOrder
  BY DEF IInv
<1>. QED
  BY <1>1, RelayInvariant, PTL

\* A runner blocked on the baton still has its notify_one to come.
THEOREM NoBatonIsLost == Spec => []NoLostBaton
<1>1. IInv => NoLostBaton
  BY DEF IInv
<1>. QED
  BY <1>1, RelayInvariant, PTL

\* One thread of all teams is the winner.
THEOREM OneWinner == Spec => []SingleWinner
<1>1. IInv => SingleWinner
  BY DEF IInv
<1>. QED
  BY <1>1, RelayInvariant, PTL

\* The winner's team has all its legs behind it.
LEMMA IInvWinnerRanAllLegs == IInv => WinnerRanAllLegs
<1> SUFFICES ASSUME IInv, NEW r \in Claimants, NEW s \in Runners, s[1] = r[1]
             PROVE  time[s] # "none"
  BY DEF WinnerRanAllLegs
<1>1. r \in Runners /\ iNumBatonExchanges[r[1]] = NUM_MEMBERS
  BY DEF IInv, TypeOK, FlagTaken, Claimants
<1>. QED
  BY <1>1, RunnerTyping DEF IInv, LegsInOrder

\* A team that has taken the winner flag, and so is announced, has every leg recorded.
THEOREM WinnerIsComplete == Spec => []WinnerRanAllLegs
BY IInvWinnerRanAllLegs, RelayInvariant, PTL

\* The printed results are those of finished teams, and a race without a
\* winner is one in which every team dropped its last baton.
LEMMA LastRunners ==
  ASSUME NEW team \in Teams
  PROVE  /\ <<team, NUM_MEMBERS>> \in Runners
         /\ <<team, NUM_MEMBERS>>[1] = team /\ <<team, NUM_MEMBERS>>[2] = NUM_MEMBERS
BY MembersAssumption DEF Runners, Legs

LEMMA IInvResultsAreFinal == IInv => ResultsAreFinal
<1> SUFFICES ASSUME IInv, pc[Main] = "done"
             PROVE  /\ \A r \in Runners : time[r] # "none"
                    /\ announced = {} =>
                         \A team \in Teams : time[<<team, NUM_MEMBERS>>] = "drop"
  BY DEF ResultsAreFinal
<1>1. \A r \in Runners : pc[r] = "gone"
  BY DEF IInv, FlagTaken
<1>2. \A r \in Runners : time[r] # "none"
  BY <1>1 DEF IInv, Written, Timed
<1>3. ASSUME announced = {}, NEW team \in Teams
      PROVE  time[<<team, NUM_MEMBERS>>] = "drop"
  <2>1. ~winner
    BY <1>1, <1>3 DEF IInv, FlagTaken, Claimants
  <2>. QED
    BY <1>1, <1>2, <2>1, LastRunners DEF IInv, TypeOK, FlagTaken
<1>. QED
  BY <1>2, <1>3

\* When main prints the results every leg is recorded, and if no team was announced
\* every team dropped its last baton.
THEOREM ResultsComeLast == Spec => []ResultsAreFinal
BY IInvResultsAreFinal, RelayInvariant, PTL

-----------------------------------------------------------------------------
(* The two barriers                                                        *)

\* A function that differs from another at t only, where it is one more
LEMMA OneMore ==
  ASSUME NEW f, NEW g, NEW t \in Parties,
         f \in [Parties -> 0..1], g \in [Parties -> 0..1], f[t] = 0, g[t] = 1,
         \A s \in Parties \ {t} : g[s] = f[s]
  PROVE  g = [f EXCEPT ![t] = @ + 1]
OBVIOUS

LEMMA BarrierStep ==
  ASSUME IInv, IInv', [Next]_vars
  PROVE  [Start!Next]_(Start!vars) /\ [Gun!Next]_(Gun!vars)
<1> USE DEF IInv
<1>1. ASSUME NEW t \in Parties, ArriveStarted(t)
      PROVE  Start!Arrive(t) /\ UNCHANGED Gun!vars
  <2>1. /\ pc[t] = "ready" /\ t \notin started /\ t \notin go /\ pc'[t] = "at_start"
        /\ started' = started \cup {t} /\ go' = go
        /\ \A s \in Parties \ {t} : pc'[s] = pc[s]
    BY <1>1 DEF ArriveStarted, Gates, BeforeStart, BeforeGo, TypeOK
  <2>. QED
    <3>1. ArrivedAt(started)' = [ArrivedAt(started) EXCEPT ![t] = @ + 1]
      <4>1. ArrivedAt(started) \in [Parties -> 0..1] /\ ArrivedAt(started)' \in [Parties -> 0..1]
        BY DEF ArrivedAt
      <4>2. ArrivedAt(started)[t] = 0 /\ ArrivedAt(started)'[t] = 1
        BY <2>1 DEF ArrivedAt
      <4>3. \A s \in Parties \ {t} : ArrivedAt(started)'[s] = ArrivedAt(started)[s]
        BY <2>1 DEF ArrivedAt
      <4>. QED
        BY <4>1, <4>2, <4>3, OneMore
    <3>2. ReturnedFrom(started, "at_start")' = ReturnedFrom(started, "at_start")
      BY <2>1 DEF ReturnedFrom
    <3>3. ArrivedAt(go)' = ArrivedAt(go) /\ ReturnedFrom(go, "at_go")' = ReturnedFrom(go, "at_go")
      BY <2>1 DEF ArrivedAt, ReturnedFrom
    <3>4. ArrivedAt(started)[t] = 0 /\ ReturnedFrom(started, "at_start")[t] = 0
      BY <2>1 DEF ArrivedAt, ReturnedFrom
    <3>. QED
      BY <3>1, <3>2, <3>3, <3>4 DEF Start!Arrive, Gun!vars
<1>2. ASSUME NEW t \in Parties, ArriveGo(t)
      PROVE  Start!Leave(t) /\ Gun!Arrive(t)
  <2>1. /\ pc[t] = "at_start" /\ t \in started /\ t \notin go /\ pc'[t] = "at_go"
        /\ started' = started /\ go' = go \cup {t} /\ started = Parties
        /\ \A s \in Parties \ {t} : pc'[s] = pc[s]
    BY <1>2, OpenedForAll DEF ArriveGo, Gates, BeforeStart, BeforeGo, TypeOK
  <2>. QED
    <3>1. ArrivedAt(go)' = [ArrivedAt(go) EXCEPT ![t] = @ + 1]
      <4>1. ArrivedAt(go) \in [Parties -> 0..1] /\ ArrivedAt(go)' \in [Parties -> 0..1]
        BY DEF ArrivedAt
      <4>2. ArrivedAt(go)[t] = 0 /\ ArrivedAt(go)'[t] = 1
        BY <2>1 DEF ArrivedAt
      <4>3. \A s \in Parties \ {t} : ArrivedAt(go)'[s] = ArrivedAt(go)[s]
        BY <2>1 DEF ArrivedAt
      <4>. QED
        BY <4>1, <4>2, <4>3, OneMore
    <3>2. ReturnedFrom(started, "at_start")' = [ReturnedFrom(started, "at_start") EXCEPT ![t] = @ + 1]
      <4>1. ReturnedFrom(started, "at_start") \in [Parties -> 0..1] /\ ReturnedFrom(started, "at_start")' \in [Parties -> 0..1]
        BY DEF ReturnedFrom
      <4>2. ReturnedFrom(started, "at_start")[t] = 0 /\ ReturnedFrom(started, "at_start")'[t] = 1
        BY <2>1 DEF ReturnedFrom
      <4>3. \A s \in Parties \ {t} : ReturnedFrom(started, "at_start")'[s] = ReturnedFrom(started, "at_start")[s]
        BY <2>1 DEF ReturnedFrom
      <4>. QED
        BY <4>1, <4>2, <4>3, OneMore
    <3>3. ArrivedAt(started)' = ArrivedAt(started) /\ ReturnedFrom(go, "at_go")' = ReturnedFrom(go, "at_go")
      BY <2>1 DEF ArrivedAt, ReturnedFrom
    <3>4. ArrivedAt(go)[t] = 0 /\ ReturnedFrom(go, "at_go")[t] = 0 /\ ReturnedFrom(started, "at_start")[t] = 0
      BY <2>1 DEF ArrivedAt, ReturnedFrom
    <3>5. \A s \in Parties : ArrivedAt(started)[s] = 1
      BY <2>1 DEF ArrivedAt
    <3>. QED
      BY <3>1, <3>2, <3>3, <3>4, <3>5 DEF Start!Leave, Gun!Arrive
<1>3. ASSUME NEW t \in Parties, LeaveGo(t)
      PROVE  UNCHANGED Start!vars /\ Gun!Leave(t)
  <2>1. /\ pc[t] = "at_go" /\ pc'[t] \notin {"at_start", "at_go"}
        /\ started' = started /\ go' = go /\ go = Parties
        /\ \A s \in Parties \ {t} : pc'[s] = pc[s]
    BY <1>3, OpenedForAll DEF LeaveGo, AfterTheGun, TypeOK
  <2>. QED
    <3>1. ReturnedFrom(go, "at_go")' = [ReturnedFrom(go, "at_go") EXCEPT ![t] = @ + 1]
      <4>1. ReturnedFrom(go, "at_go") \in [Parties -> 0..1] /\ ReturnedFrom(go, "at_go")' \in [Parties -> 0..1]
        BY DEF ReturnedFrom
      <4>2. ReturnedFrom(go, "at_go")[t] = 0 /\ ReturnedFrom(go, "at_go")'[t] = 1
        BY <2>1 DEF ReturnedFrom
      <4>3. \A s \in Parties \ {t} : ReturnedFrom(go, "at_go")'[s] = ReturnedFrom(go, "at_go")[s]
        BY <2>1 DEF ReturnedFrom
      <4>. QED
        BY <4>1, <4>2, <4>3, OneMore
    <3>2. ArrivedAt(go)' = ArrivedAt(go) /\ ArrivedAt(started)' = ArrivedAt(started)
      BY <2>1 DEF ArrivedAt
    <3>3. ReturnedFrom(started, "at_start")' = ReturnedFrom(started, "at_start")
      BY <2>1 DEF ReturnedFrom
    <3>4. ReturnedFrom(go, "at_go")[t] = 0 /\ \A s \in Parties : ArrivedAt(go)[s] = 1
      BY <2>1 DEF ArrivedAt, ReturnedFrom
    <3>. QED
      BY <3>1, <3>2, <3>3, <3>4 DEF Start!vars, Gun!Leave
<1>4. ASSUME started' = started, go' = go,
             \A t \in Parties : pc'[t] # pc[t] =>
               {pc[t], pc'[t]} \cap {"at_start", "at_go"} = {}
      PROVE  UNCHANGED Start!vars /\ UNCHANGED Gun!vars
  BY <1>4 DEF Start!vars, Gun!vars, ArrivedAt, ReturnedFrom
<1>5. ASSUME NEW r \in Runners, CreateThread(r)
      PROVE  UNCHANGED Start!vars /\ UNCHANGED Gun!vars
  BY <1>4, <1>5, RunnerTyping, MainIsNoRunner DEF CreateThread, TypeOK
<1>6. ASSUME NEW r \in Runners,
             \/ LockStep(r) \/ SpuriousWakeup(r) \/ BatonArrived(r) \/ BatonMissing(r)
             \/ BlockOnBaton(r) \/ Exchange(r) \/ AddTime(r) \/ SetFinished(r)
             \/ CrossLine(r) \/ Claim(r) \/ Announce(r)
      PROVE  UNCHANGED Start!vars /\ UNCHANGED Gun!vars
  BY <1>4, <1>6, RunnerTyping
  DEF LockStep, LockBaton, NotifyBaton, Woken, SpuriousWakeup, BatonArrived, BatonMissing,
      BlockOnBaton, Exchange, AddTime, SetFinished, CrossLine, Claim, Announce, TypeOK
<1>7. ASSUME PrintResults
      PROVE  UNCHANGED Start!vars /\ UNCHANGED Gun!vars
  BY <1>4, <1>7, MainIsNoRunner DEF PrintResults, TypeOK
<1>8. CASE UNCHANGED vars
  BY <1>4, <1>8 DEF vars
<1>. QED
  BY <1>1, <1>2, <1>3, <1>5, <1>6, <1>7, <1>8, MainIsNoRunner, RunnerTyping
  DEF Next, RunnerStep, MainStep, Finished, Start!Next, Gun!Next

LEMMA BarrierInit == Init => Start!Init /\ Gun!Init
BY DEF Init, Start!Init, Gun!Init, ArrivedAt, ReturnedFrom

\* The race uses each barrier once per thread and gets from it what
\* PhaseBarrier promises, and Barrier.tla implements.
THEOREM BarriersKeepContract == Spec => KeepsBarrierContracts
BY BarrierInit, BarrierStep, RelayInvariant, PTL
DEF Spec, KeepsBarrierContracts, Start!Spec, Gun!Spec

-----------------------------------------------------------------------------
(* The refinement of RelayRace                                             *)

\* The team that adds a time records its next leg.
LEMMA AddTimeRunsLeg ==
  ASSUME IInv, IInv', NEW r \in Runners, AddTime(r), NEW outcome, outcome = time'[r]
  PROVE  Race!RunLeg(r[1], outcome)
<1> DEFINE n == iNumBatonExchanges[r[1]]
           Mapped == [team \in Teams |->
                        [lap \in 1..iNumBatonExchanges[team] |-> time[<<team, lap>>]]]
<1>1. r[1] \in Teams /\ n \in Nat /\ r[2] = n + 1 /\ r[2] <= NUM_MEMBERS /\ r = <<r[1], n + 1>>
  <2>1. time[r] = "none" /\ time'[r] # "none"
    BY DEF AddTime, IInv, Written, Timed, TypeOK
  <2>2. r[2] > n /\ r[2] <= iNumBatonExchanges'[r[1]]
    BY <2>1, RunnerTyping DEF IInv, LegsInOrder, TypeOK
  <2>3. iNumBatonExchanges'[r[1]] = n + 1
    BY RunnerTyping DEF AddTime, CountExchange, IInv, TypeOK
  <2>. QED
    BY <2>2, <2>3, RunnerTyping DEF IInv, TypeOK
<1>2. /\ iNumBatonExchanges'[r[1]] = n + 1
      /\ \A team \in Teams \ {r[1]} : iNumBatonExchanges'[team] = iNumBatonExchanges[team]
      /\ \A s \in Runners \ {r} : time'[s] = time[s]
      /\ announced' = announced /\ pc'[Main] = pc[Main] /\ pc[r] \in {"run", "drop"}
  BY <1>1, RunnerTyping, MainIsNoRunner DEF AddTime, CountExchange, IInv, TypeOK
<1>3. pc[Main] # "done"
  BY <1>2 DEF IInv, FlagTaken
<1>4. Mapped' = [Mapped EXCEPT ![r[1]] = Append(@, time'[r])]
  <2>1. \A team \in Teams \ {r[1]} : Mapped'[team] = Mapped[team]
    <3> SUFFICES ASSUME NEW team \in Teams \ {r[1]}
                 PROVE  Mapped'[team] = Mapped[team]
      OBVIOUS
    <3>1. \A lap \in 1..iNumBatonExchanges[team] : time'[<<team, lap>>] = time[<<team, lap>>]
      BY <1>2, RunnerTyping, MembersAssumption DEF IInv, TypeOK, Runners, Legs
    <3>. QED
      BY <1>2, <3>1
  <2>2. Mapped'[r[1]] = Append(Mapped[r[1]], time'[r])
    <3>1. \A lap \in 1..n : time'[<<r[1], lap>>] = time[<<r[1], lap>>]
      <4> SUFFICES ASSUME NEW lap \in 1..n PROVE time'[<<r[1], lap>>] = time[<<r[1], lap>>]
        OBVIOUS
      <4>1. <<r[1], lap>> \in Runners /\ <<r[1], lap>> # r
        BY <1>1, MembersAssumption DEF Runners, Legs
      <4>. QED
        BY <1>2, <4>1
    <3>2. Mapped'[r[1]] = [lap \in 1..(n + 1) |-> time'[<<r[1], lap>>]]
      BY <1>1, <1>2
    <3>3. Mapped[r[1]] = [lap \in 1..n |-> time[<<r[1], lap>>]]
      BY <1>1
    <3>4. Append([lap \in 1..n |-> time[<<r[1], lap>>]], time'[r]) =
            [lap \in 1..(n + 1) |-> IF lap = n + 1 THEN time'[r] ELSE time[<<r[1], lap>>]]
      BY <1>1
    <3>5. \A lap \in 1..(n + 1) :
            time'[<<r[1], lap>>] = IF lap = n + 1 THEN time'[r] ELSE time[<<r[1], lap>>]
      BY <1>1, <3>1
    <3>. QED
      BY <3>2, <3>3, <3>4, <3>5
  <2>. QED
    BY <1>1, <2>1, <2>2
<1>5. Mapped[r[1]] = [lap \in 1..n |-> time[<<r[1], lap>>]] /\ Len(Mapped[r[1]]) = n
  BY <1>1
<1>6. time'[r] = "drop" => Mapped[r[1]] # <<>>
  <2> SUFFICES ASSUME time'[r] = "drop" PROVE n # 0
    BY <1>1, <1>5
  <2>. QED
    BY <1>1 DEF IInv, FirstRunners
<1>7. n # NUM_MEMBERS
  BY <1>1, MembersAssumption
<1>. QED
  BY <1>2, <1>3, <1>4, <1>5, <1>6, <1>7 DEF Race!RunLeg, Race!Complete

\* The announcement is the win of a team that has all its legs.
LEMMA AnnounceWins ==
  ASSUME IInv, NEW r \in Runners, Announce(r)
  PROVE  Race!Win(r[1])
<1> USE DEF IInv
<1>1. /\ pc[r] = "announce" /\ announced' = announced \cup {r}
      /\ pc'[Main] = pc[Main] /\ time' = time /\ iNumBatonExchanges' = iNumBatonExchanges
  BY RunnerTyping, MainIsNoRunner DEF Announce, TypeOK
<1>2. r \in Claimants /\ iNumBatonExchanges[r[1]] = NUM_MEMBERS /\ pc[Main] # "done"
  BY <1>1 DEF Claimants, FlagTaken
<1>3. announced = {}
  BY <1>1, <1>2 DEF SingleWinner, FlagTaken, Claimants, TypeOK
<1>4. {s[1] : s \in announced} = {} /\ {s[1] : s \in announced'} = {r[1]}
  BY <1>1, <1>3
<1>5. r[1] \in Teams
  BY RunnerTyping
<1>6. Len([lap \in 1..iNumBatonExchanges[r[1]] |-> time[<<r[1], lap>>]]) = NUM_MEMBERS
  BY <1>2, MembersAssumption
<1>. QED
  BY <1>1, <1>2, <1>4, <1>5, <1>6 DEF Race!Win, Race!Complete

\* The joins make the printed results those of finished teams.
LEMMA ResultsEndRace ==
  ASSUME IInv, IInv', PrintResults
  PROVE  Race!PrintResults
<1> USE DEF IInv
<1>1. /\ pc[Main] # "done" /\ pc'[Main] = "done"
      /\ announced' = announced /\ time' = time /\ iNumBatonExchanges' = iNumBatonExchanges
  BY MainIsNoRunner DEF PrintResults, TypeOK
<1>2. ResultsAreFinal'
  BY IInvResultsAreFinal, PTL
<1>3. ASSUME NEW team \in Teams PROVE iNumBatonExchanges[team] = NUM_MEMBERS
  <2>1. time[<<team, NUM_MEMBERS>>] # "none"
    BY <1>1, <1>2, LastRunners DEF ResultsAreFinal
  <2>2. NUM_MEMBERS <= iNumBatonExchanges[team]
    BY <2>1, LastRunners DEF LegsInOrder
  <2>. QED
    BY <2>2, MembersAssumption DEF TypeOK
<1>4. \A team \in Teams :
        /\ Len([lap \in 1..iNumBatonExchanges[team] |-> time[<<team, lap>>]]) = NUM_MEMBERS
        /\ [lap \in 1..iNumBatonExchanges[team] |-> time[<<team, lap>>]][NUM_MEMBERS] =
             time[<<team, NUM_MEMBERS>>]
  BY <1>3, MembersAssumption
<1>5. {s[1] : s \in announced} = {} => announced = {}
  OBVIOUS
<1>. QED
  BY <1>1, <1>2, <1>4, <1>5 DEF Race!PrintResults, Race!Complete, ResultsAreFinal

LEMMA InitIsRace == Init => Race!Init
<1> SUFFICES ASSUME Init PROVE Race!Init
  OBVIOUS
<1>1. pc[Main] = "create" /\ announced = {}
  BY MainIsNoRunner DEF Init
<1>2. \A team \in Teams : [lap \in 1..iNumBatonExchanges[team] |-> time[<<team, lap>>]] = <<>>
  BY DEF Init
<1>. QED
  BY <1>1, <1>2 DEF Race!Init

LEMMA StepIsRace ==
  ASSUME IInv, IInv', [Next]_vars
  PROVE  [Race!Next]_(Race!vars)
<1>1. ASSUME NEW r \in Runners, AddTime(r) PROVE Race!Next
  <2>1. r[1] \in Teams /\ time'[r] \in {"sprint", "drop"}
    BY <1>1, RunnerTyping DEF AddTime, IInv, TypeOK
  <2>2. PICK outcome \in {"sprint", "drop"} : outcome = time'[r]
    BY <2>1
  <2>3. Race!RunLeg(r[1], outcome)
    BY <1>1, <2>2, AddTimeRunsLeg
  <2>. QED
    BY <2>1, <2>3 DEF Race!Next
<1>2. ASSUME NEW r \in Runners, Announce(r) PROVE Race!Next
  BY <1>2, AnnounceWins, RunnerTyping DEF Race!Next
<1>3. ASSUME PrintResults PROVE Race!Next
  BY <1>3, ResultsEndRace DEF Race!Next
<1>4. ASSUME time' = time, iNumBatonExchanges' = iNumBatonExchanges, announced' = announced,
             (pc'[Main] = "done") <=> (pc[Main] = "done")
      PROVE  UNCHANGED Race!vars
  BY <1>4 DEF Race!vars
<1>5. ASSUME NEW t \in Parties, ArriveStarted(t) \/ ArriveGo(t) \/ LeaveGo(t)
      PROVE  UNCHANGED Race!vars
  BY <1>4, <1>5, MainIsNoRunner
  DEF ArriveStarted, ArriveGo, LeaveGo, AfterTheGun, IInv, TypeOK
<1>6. ASSUME NEW r \in Runners, CreateThread(r)
      PROVE  UNCHANGED Race!vars
  BY <1>4, <1>6, MainIsNoRunner, RunnerTyping DEF CreateThread, IInv, TypeOK
<1>7. ASSUME NEW r \in Runners,
             \/ LockStep(r) \/ SpuriousWakeup(r) \/ BatonArrived(r) \/ BatonMissing(r)
             \/ BlockOnBaton(r) \/ Exchange(r) \/ SetFinished(r)
             \/ CrossLine(r) \/ Claim(r)
      PROVE  UNCHANGED Race!vars
  BY <1>4, <1>7, RunnerTyping, MainIsNoRunner
  DEF LockStep, LockBaton, NotifyBaton, Woken, SpuriousWakeup, BatonArrived, BatonMissing,
      BlockOnBaton, Exchange, SetFinished, CrossLine, Claim, IInv, TypeOK
<1>8. CASE UNCHANGED vars
  BY <1>4, <1>8 DEF vars
<1>. QED
  BY <1>1, <1>2, <1>3, <1>5, <1>6, <1>7, <1>8, MainIsNoRunner, RunnerTyping
  DEF Next, RunnerStep, MainStep, Finished

\* The threads, batons and flags of v4.cpp together run the race RelayRace
\* describes, for every number of teams and of members.
THEOREM RelayIsRace == Spec => ImplementsRelayRace
BY InitIsRace, StepIsRace, RelayInvariant, PTL
DEF Spec, ImplementsRelayRace, Race!Spec

-----------------------------------------------------------------------------
(* The printed legs                                                        *)

\* Printing is no step of the race, so all the theorems above hold of the
\* race that prints.
LEMMA LegsSpecIsSpec == LegsSpec => Spec
<1>1. LegsInit => Init
  BY DEF LegsInit
<1>2. [LegsNext]_<<vars, leg>> => [Next]_vars
  BY DEF LegsNext, PrintLeg
<1>. QED
  BY <1>1, <1>2, PTL DEF LegsSpec, Spec

\* A recorded time stays.
LEMMA TimesStay ==
  ASSUME TypeOK, [Next]_vars, NEW r \in Runners, Recorded(r)
  PROVE  Recorded(r)'
<1>1. CASE \E s \in Runners : AddTime(s)
  BY <1>1 DEF AddTime, Recorded, TypeOK
<1>2. CASE UNCHANGED time
  BY <1>2 DEF Recorded
<1>. QED
  BY <1>1, <1>2
  DEF Next, vars, RunnerStep, LockStep, MainStep, Finished, CreateThread, ArriveStarted, ArriveGo,
      LeaveGo, LockBaton, BatonArrived, BatonMissing, BlockOnBaton, SpuriousWakeup, Exchange,
      SetFinished, NotifyBaton, CrossLine, Claim, Announce, PrintResults

PrintInv == leg \in [Runners -> Nat] /\ PrintedLegsWereRun

LEMMA PrintLegPrintInv ==
  ASSUME IInv, PrintInv, NEW r \in Runners, PrintLeg(r)
  PROVE  PrintInv'
<1> USE DEF PrintInv
<1> DEFINE n == iNumBatonExchanges[r[1]]
<1>1. /\ n \in 0..NUM_MEMBERS /\ n \in Nat
      /\ leg' = [leg EXCEPT ![r] = n]
      /\ UNCHANGED <<time, iNumBatonExchanges>>
  BY RunnerTyping DEF IInv, TypeOK, PrintLeg, vars
<1>2. time[r] # "none"
  BY DEF PrintLeg, IInv, Written, Timed
<1>3. r[2] <= n
  BY <1>2 DEF IInv, LegsInOrder
<1>4. ASSUME NEW k \in 1..n PROVE Recorded(<<r[1], k>>)
  <2>1. <<r[1], k>> \in Runners
    BY <1>1, RunnerTyping, MembersAssumption DEF Runners, Legs
  <2>. QED
    BY <1>1, <2>1 DEF IInv, LegsInOrder, Recorded
<1> HIDE DEF n
<1>5. leg' \in [Runners -> Nat]
  BY <1>1
<1>6. ASSUME NEW s \in Runners, leg'[s] # 0
      PROVE  leg'[s] \in s[2]..NUM_MEMBERS /\ \A k \in 1..leg'[s] : Recorded(<<s[1], k>>)
  <2>1. CASE s = r
    BY <1>1, <1>3, <1>4, <2>1, RunnerTyping, MembersAssumption
  <2>2. CASE s # r
    BY <1>1, <1>6, <2>2 DEF PrintedLegsWereRun
  <2>. QED
    BY <2>1, <2>2
<1>. QED
  BY <1>1, <1>5, <1>6 DEF PrintedLegsWereRun, Recorded

LEMMA NextPrintInv == IInv /\ PrintInv /\ [LegsNext]_<<vars, leg>> => PrintInv'
<1> SUFFICES ASSUME IInv, PrintInv, [LegsNext]_<<vars, leg>> PROVE PrintInv'
  OBVIOUS
<1>1. CASE \E r \in Runners : PrintLeg(r)
  BY <1>1, PrintLegPrintInv
<1>2. CASE [Next]_vars /\ UNCHANGED leg
  <2> SUFFICES ASSUME NEW r \in Runners, leg[r] # 0
               PROVE  \A k \in 1..leg[r] : Recorded(<<r[1], k>>)'
    BY <1>2 DEF PrintInv, PrintedLegsWereRun
  <2> TAKE k \in 1..leg[r]
  <2>1. Recorded(<<r[1], k>>) /\ leg[r] \in r[2]..NUM_MEMBERS
    BY DEF PrintInv, PrintedLegsWereRun
  <2>2. <<r[1], k>> \in Runners
    BY <2>1, RunnerTyping, MembersAssumption DEF Runners, Legs, PrintInv
  <2>. QED
    BY <1>2, <2>1, <2>2, TimesStay DEF IInv
<1>. QED
  BY <1>1, <1>2 DEF LegsNext

\* Line 128 of v4 reads the team's counter late, but whatever the number of
\* runners and teams the leg it prints is not before the runner's own and it
\* and all the legs before it are recorded.
THEOREM LegsPrintedWereRun == LegsSpec => []PrintedLegsWereRun
<1>1. LegsInit => PrintInv
  BY DEF LegsInit, PrintInv, PrintedLegsWereRun
<1>2. LegsSpec => []IInv
  BY LegsSpecIsSpec, RelayInvariant, PTL
<1>3. PrintInv => PrintedLegsWereRun
  BY DEF PrintInv
<1>. QED
  BY <1>1, <1>2, <1>3, NextPrintInv, PTL DEF LegsSpec

=============================================================================
