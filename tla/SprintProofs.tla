---------------------------- MODULE SprintProofs ----------------------------
(***************************************************************************)
(* Team::addTime loses nothing, for every number of teams and of runners   *)
(* who finish together.                                                    *)
(***************************************************************************)
EXTENDS Sprint, FiniteSetTheorems, TLAPS

LEMMA MainIsNoRunner == Main \in Parties /\ Main \notin Runners
BY DEF Main, Parties, Runners, Teams, Members

LEMMA RunnerTyping ==
  ASSUME NEW r \in Runners
  PROVE  r \in Parties /\ r # Main /\ r[1] \in Teams
BY MainIsNoRunner DEF Parties, Runners, Teams, Members

\* the runners of a team who have left addTime
Counted(team) == {r \in Runners : r[1] = team /\ pc[r] \in Timed}

LEMMA TeamsAreCounted ==
  ASSUME NEW team \in Teams, NEW S \in SUBSET {r \in Runners : r[1] = team}
  PROVE  /\ {r \in Runners : r[1] = team} = {team} \X Members
         /\ IsFiniteSet(S) /\ Cardinality(S) \in 0..NUM_MEMBERS
         /\ S = {team} \X Members => Cardinality(S) = NUM_MEMBERS
<1>1. {r \in Runners : r[1] = team} = {team} \X Members
  BY DEF Runners
<1>2. IsFiniteSet(Members) /\ Cardinality(Members) = NUM_MEMBERS
  BY MembersAssumption, FS_Interval DEF Members
<1>3. IsFiniteSet({team}) /\ Cardinality({team}) = 1
  BY FS_Singleton
<1>4. IsFiniteSet({team} \X Members) /\ Cardinality({team} \X Members) = 1 * NUM_MEMBERS
  BY <1>2, <1>3, FS_Product
<1>5. S \in SUBSET ({team} \X Members)
  BY <1>1
<1>6. IsFiniteSet(S) /\ Cardinality(S) <= 1 * NUM_MEMBERS
  BY <1>4, <1>5, FS_Subset
<1>7. Cardinality(S) \in Nat
  BY <1>6, FS_CardinalityType
<1>8. Cardinality(S) \in 0..NUM_MEMBERS
  BY <1>6, <1>7, MembersAssumption
<1>9. S = {team} \X Members => Cardinality(S) = NUM_MEMBERS
  BY <1>4, MembersAssumption
<1>. QED
  BY <1>1, <1>6, <1>8, <1>9

-----------------------------------------------------------------------------
(* The inductive invariant                                                 *)

LEMMA InitIInv == Init => IInv
<1> SUFFICES ASSUME Init PROVE IInv
  OBVIOUS
<1>1. pc[Main] = "create" /\ \A r \in Runners : pc[r] = "unborn"
  BY MainIsNoRunner, RunnerTyping DEF Init
<1>2. 0 \in 0..NUM_MEMBERS
  BY MembersAssumption
<1>3. pc \in [Parties -> Places]
  BY DEF Init, Places, MainPlaces, RunnerPlaces
<1>4. TypeOK
  BY <1>1, <1>2, <1>3 DEF Init, TypeOK, MainPlaces, RunnerPlaces
<1>5. MutexHeld /\ FreshReads /\ FinishedAreGone
  BY <1>1 DEF Init, MutexHeld, FreshReads, FinishedAreGone, InAddTime
<1>6. NoTimeLost
  BY <1>1 DEF Init, NoTimeLost, Stored, Timed
<1>7. NoExchangeLost
  <2>1. \A team \in Teams : {r \in Runners : r[1] = team /\ pc[r] \in Timed} = {}
    BY <1>1 DEF Timed
  <2>. QED
    BY <2>1, FS_EmptySet DEF Init, NoExchangeLost
<1>. QED
  BY <1>4, <1>5, <1>6, <1>7 DEF IInv

\* When one thread moves, it is where it moved to and the others stay.
LEMMA OneMoves ==
  ASSUME TypeOK, NEW t \in Parties, NEW p \in Places, pc' = [pc EXCEPT ![t] = p]
  PROVE  /\ pc' \in [Parties -> Places]
         /\ pc'[t] = p
         /\ \A s \in Parties \ {t} : pc'[s] = pc[s]
         /\ t # Main => pc'[Main] = pc[Main]
         /\ \A r \in Runners \ {t} : pc'[r] = pc[r]
BY MainIsNoRunner, RunnerTyping DEF TypeOK

\* Before addTime, and in main, nothing the teams hold changes.
LEMMA QuietIInv ==
  ASSUME IInv, TypeOK', UNCHANGED team_vars,
         \A r \in Runners : pc'[r] # pc[r] =>
           pc[r] \notin InAddTime \cup Timed /\ pc'[r] \notin InAddTime \cup Timed,
         pc'[Main] = "done" => \A r \in Runners : pc[r] = "gone"
  PROVE  IInv'
<1> USE DEF IInv, team_vars
<1>1. MutexHeld' /\ FreshReads'
  BY DEF MutexHeld, FreshReads, InAddTime
<1>2. NoTimeLost'
  BY DEF NoTimeLost, Stored, InAddTime
<1>3. NoExchangeLost'
  <2>1. ASSUME NEW team \in Teams PROVE Counted(team)' = Counted(team)
    BY DEF Counted
  <2>. QED
    BY <2>1 DEF NoExchangeLost, Counted
<1>4. FinishedAreGone'
  BY DEF FinishedAreGone, Timed
<1>. QED
  BY <1>1, <1>2, <1>3, <1>4

LEMMA StartIInv ==
  ASSUME IInv, NEW t \in Parties, ArriveStarted(t) \/ ArriveGo(t) \/ LeaveGo(t)
  PROVE  IInv'
<1> USE DEF IInv
<1> DEFINE p == pc'[t]
<1>1. /\ p \in {"at_start", "at_go"} \cup (IF t = Main THEN {"join"} ELSE {"run"})
      /\ pc' = [pc EXCEPT ![t] = p]
      /\ pc[t] \in {"ready", "at_start", "at_go"}
      /\ UNCHANGED team_vars
      /\ started' \subseteq Parties /\ go' \subseteq Parties
  BY DEF ArriveStarted, ArriveGo, LeaveGo, TypeOK
<1>2. p \in Places /\ (t = Main => p \in MainPlaces) /\ (t # Main => p \in RunnerPlaces)
  BY <1>1 DEF Places, MainPlaces, RunnerPlaces
<1> HIDE DEF p
<1>3. /\ pc' \in [Parties -> Places]
      /\ pc'[t] = p
      /\ t # Main => pc'[Main] = pc[Main]
      /\ \A r \in Runners \ {t} : pc'[r] = pc[r]
  BY <1>1, <1>2, OneMoves
<1>4. TypeOK'
  BY <1>1, <1>2, <1>3, MainIsNoRunner DEF TypeOK, team_vars
<1>5. \A r \in Runners : pc'[r] # pc[r] =>
        pc[r] \notin InAddTime \cup Timed /\ pc'[r] \notin InAddTime \cup Timed
  BY <1>1, <1>3, RunnerTyping DEF InAddTime, Timed
<1>6. pc'[Main] = "done" => \A r \in Runners : pc[r] = "gone"
  BY <1>1, <1>3 DEF FinishedAreGone
<1>. QED
  BY <1>1, <1>4, <1>5, <1>6, QuietIInv

LEMMA CreateIInv ==
  ASSUME IInv, NEW r \in Runners, CreateThread(r)
  PROVE  IInv'
<1> USE DEF IInv
<1> DEFINE p == pc'[Main]
<1>1. /\ p \in {"create", "ready"}
      /\ pc' = [pc EXCEPT ![r] = "ready", ![Main] = p]
      /\ pc[r] = "unborn" /\ UNCHANGED <<started, go, team_vars>>
  BY RunnerTyping, MainIsNoRunner DEF CreateThread, TypeOK
<1> HIDE DEF p
<1>2. /\ pc' \in [Parties -> Places]
      /\ pc'[r] = "ready" /\ pc'[Main] = p
      /\ \A s \in Runners \ {r} : pc'[s] = pc[s]
  BY <1>1, RunnerTyping, MainIsNoRunner DEF TypeOK, Places, MainPlaces, RunnerPlaces
<1>3. TypeOK'
  BY <1>1, <1>2 DEF TypeOK, MainPlaces, RunnerPlaces, team_vars
<1>. QED
  BY <1>1, <1>2, <1>3, QuietIInv DEF InAddTime, Timed, team_vars

LEMMA PrintResultsIInv ==
  ASSUME IInv, PrintResults
  PROVE  IInv'
<1> USE DEF IInv
<1>1. /\ pc' = [pc EXCEPT ![Main] = "done"]
      /\ \A r \in Runners : pc[r] = "gone"
      /\ UNCHANGED <<started, go, team_vars>>
  BY DEF PrintResults, Joined
<1>2. /\ pc' \in [Parties -> Places]
      /\ pc'[Main] = "done"
      /\ \A r \in Runners : pc'[r] = pc[r]
  BY <1>1, OneMoves, MainIsNoRunner DEF Places, MainPlaces
<1>3. TypeOK'
  BY <1>1, <1>2 DEF TypeOK, MainPlaces, team_vars
<1>. QED
  BY <1>1, <1>2, <1>3, QuietIInv DEF team_vars

-----------------------------------------------------------------------------
(* Competitor::setTime                                                     *)

\* The mutex is free: nobody of the team is in addTime, and what is loaded
\* now will be what the team holds when it is stored.
LEMMA LoadTimeIInv ==
  ASSUME IInv, NEW r \in Runners, LoadTime(r)
  PROVE  IInv'
<1> USE DEF IInv
<1>1. /\ pc[r] = "run" /\ pc' = [pc EXCEPT ![r] = "read"]
      /\ \A s \in Runners : s[1] = r[1] => pc[s] \notin InAddTime
      /\ timeRead' = [timeRead EXCEPT ![r] = fTeamTime_s[r[1]]]
      /\ UNCHANGED <<started, go, fTeamTime_s, iNumBatonExchanges, bFinished, countRead>>
  BY DEF LoadTime, MayLock
<1>2. /\ pc' \in [Parties -> Places]
      /\ pc'[r] = "read"
      /\ pc'[Main] = pc[Main]
      /\ \A s \in Runners \ {r} : pc'[s] = pc[s]
  BY <1>1, OneMoves, RunnerTyping DEF Places, RunnerPlaces, InAddTime
<1>3. timeRead'[r] = fTeamTime_s[r[1]] /\ \A s \in Runners \ {r} : timeRead'[s] = timeRead[s]
  BY <1>1 DEF TypeOK
<1>4. TypeOK'
  BY <1>1, <1>2, RunnerTyping DEF TypeOK, RunnerPlaces, InAddTime
<1>5. MutexHeld'
  BY <1>1, <1>2 DEF MutexHeld
<1>6. FreshReads'
  BY <1>1, <1>2, <1>3 DEF FreshReads
<1>7. NoTimeLost'
  BY <1>1, <1>2 DEF NoTimeLost, Stored, Timed
<1>8. NoExchangeLost'
  <2>1. ASSUME NEW team \in Teams PROVE Counted(team)' = Counted(team)
    BY <1>1, <1>2 DEF Counted, Timed
  <2>. QED
    BY <1>1, <2>1 DEF NoExchangeLost, Counted
<1>9. FinishedAreGone'
  BY <1>1, <1>2 DEF FinishedAreGone
<1>. QED
  BY <1>4, <1>5, <1>6, <1>7, <1>8, <1>9

\* The store adds r to what r has loaded, which is still what the team holds.
LEMMA StoreTimeIInv ==
  ASSUME IInv, NEW r \in Runners, StoreTime(r)
  PROVE  IInv'
<1> USE DEF IInv
<1>1. /\ pc[r] = "read" /\ pc' = [pc EXCEPT ![r] = "written"]
      /\ fTeamTime_s' = [fTeamTime_s EXCEPT ![r[1]] = @ \cup {r}]
      /\ UNCHANGED <<started, go, iNumBatonExchanges, bFinished, timeRead, countRead>>
  BY DEF StoreTime, FreshReads
<1>2. /\ pc' \in [Parties -> Places]
      /\ pc'[r] = "written"
      /\ pc'[Main] = pc[Main]
      /\ \A s \in Runners \ {r} : pc'[s] = pc[s]
  BY <1>1, OneMoves, RunnerTyping DEF Places, RunnerPlaces, InAddTime
<1>3. /\ fTeamTime_s'[r[1]] = fTeamTime_s[r[1]] \cup {r}
      /\ \A team \in Teams \ {r[1]} : fTeamTime_s'[team] = fTeamTime_s[team]
  BY <1>1, RunnerTyping DEF TypeOK
<1>4. TypeOK'
  <2>1. fTeamTime_s' \in [Teams -> SUBSET Runners]
    BY <1>1, RunnerTyping DEF TypeOK
  <2>. QED
    BY <1>1, <1>2, <2>1 DEF TypeOK, RunnerPlaces, InAddTime
<1>5. MutexHeld'
  BY <1>1, <1>2 DEF MutexHeld, InAddTime
<1>6. FreshReads'
  <2> SUFFICES ASSUME NEW s \in Runners
               PROVE  /\ pc'[s] = "read" => timeRead'[s] = fTeamTime_s'[s[1]]
                      /\ pc'[s] = "reread" => countRead'[s] = iNumBatonExchanges'[s[1]]
    BY DEF FreshReads
  <2>1. pc'[s] = "read" => s # r /\ s[1] # r[1]
    BY <1>1, <1>2 DEF MutexHeld, InAddTime
  <2>. QED
    BY <1>1, <1>2, <1>3, <2>1, RunnerTyping DEF FreshReads
<1>7. NoTimeLost'
  <2> SUFFICES ASSUME NEW team \in Teams
               PROVE  fTeamTime_s'[team] = {s \in Runners : s[1] = team /\ pc'[s] \in Stored}
    BY DEF NoTimeLost, Stored
  <2>1. fTeamTime_s[team] = {s \in Runners : s[1] = team /\ pc[s] \in Stored}
    BY DEF NoTimeLost
  <2>2. pc'[r] \in Stored
    BY <1>2 DEF Stored
  <2>. QED
    BY <1>2, <1>3, <2>1, <2>2
<1>8. NoExchangeLost'
  <2>1. ASSUME NEW team \in Teams PROVE Counted(team)' = Counted(team)
    BY <1>1, <1>2 DEF Counted, Timed
  <2>. QED
    BY <1>1, <2>1 DEF NoExchangeLost, Counted
<1>9. FinishedAreGone'
  BY <1>1, <1>2 DEF FinishedAreGone
<1>. QED
  BY <1>4, <1>5, <1>6, <1>7, <1>8, <1>9

LEMMA LoadCountIInv ==
  ASSUME IInv, NEW r \in Runners, LoadCount(r)
  PROVE  IInv'
<1> USE DEF IInv
<1>1. /\ pc[r] = "written" /\ pc' = [pc EXCEPT ![r] = "reread"]
      /\ countRead' = [countRead EXCEPT ![r] = iNumBatonExchanges[r[1]]]
      /\ UNCHANGED <<started, go, fTeamTime_s, iNumBatonExchanges, bFinished, timeRead>>
  BY DEF LoadCount
<1>2. /\ pc' \in [Parties -> Places]
      /\ pc'[r] = "reread"
      /\ pc'[Main] = pc[Main]
      /\ \A s \in Runners \ {r} : pc'[s] = pc[s]
  BY <1>1, OneMoves, RunnerTyping DEF Places, RunnerPlaces, InAddTime
<1>3. countRead'[r] = iNumBatonExchanges[r[1]] /\ \A s \in Runners \ {r} : countRead'[s] = countRead[s]
  BY <1>1 DEF TypeOK
<1>4. TypeOK'
  BY <1>1, <1>2, RunnerTyping DEF TypeOK, RunnerPlaces, InAddTime
<1>5. MutexHeld'
  BY <1>1, <1>2 DEF MutexHeld, InAddTime
<1>6. FreshReads'
  BY <1>1, <1>2, <1>3 DEF FreshReads
<1>7. NoTimeLost'
  BY <1>1, <1>2 DEF NoTimeLost, Stored
<1>8. NoExchangeLost'
  <2>1. ASSUME NEW team \in Teams PROVE Counted(team)' = Counted(team)
    BY <1>1, <1>2 DEF Counted, Timed
  <2>. QED
    BY <1>1, <2>1 DEF NoExchangeLost, Counted
<1>9. FinishedAreGone'
  BY <1>1, <1>2 DEF FinishedAreGone
<1>. QED
  BY <1>4, <1>5, <1>6, <1>7, <1>8, <1>9

\* The store of the count, one more than the count that is still there
LEMMA StoreCountIInv ==
  ASSUME IInv, NEW r \in Runners, StoreCount(r)
  PROVE  IInv'
<1> USE DEF IInv
<1>1. /\ pc[r] = "reread" /\ pc' = [pc EXCEPT ![r] = "finish"]
      /\ iNumBatonExchanges' = [iNumBatonExchanges EXCEPT ![r[1]] = @ + 1]
      /\ UNCHANGED <<started, go, fTeamTime_s, bFinished, timeRead, countRead>>
  BY DEF StoreCount, FreshReads, CountExchange
<1>2. /\ pc' \in [Parties -> Places]
      /\ pc'[r] = "finish"
      /\ pc'[Main] = pc[Main]
      /\ \A s \in Runners \ {r} : pc'[s] = pc[s]
  BY <1>1, OneMoves, RunnerTyping DEF Places, RunnerPlaces, Timed
<1>3. /\ iNumBatonExchanges'[r[1]] = iNumBatonExchanges[r[1]] + 1
      /\ \A team \in Teams \ {r[1]} : iNumBatonExchanges'[team] = iNumBatonExchanges[team]
  BY <1>1, RunnerTyping DEF TypeOK
<1>4. ASSUME NEW team \in Teams
      PROVE  /\ iNumBatonExchanges'[team] = Cardinality(Counted(team)')
             /\ iNumBatonExchanges'[team] \in 0..NUM_MEMBERS
  <2>1. Counted(team) \in SUBSET {s \in Runners : s[1] = team}
    BY DEF Counted
  <2>2. Counted(team)' \in SUBSET {s \in Runners : s[1] = team}
    BY DEF Counted
  <2>3. iNumBatonExchanges[team] = Cardinality(Counted(team))
    BY DEF NoExchangeLost, Counted
  <2>4. Cardinality(Counted(team)') \in 0..NUM_MEMBERS /\ IsFiniteSet(Counted(team))
    BY <2>1, <2>2, TeamsAreCounted
  <2>5. CASE team = r[1]
    <3>1. Counted(team)' = Counted(team) \cup {r} /\ r \notin Counted(team)
      BY <1>1, <1>2, <2>5 DEF Counted, Timed
    <3>2. Cardinality(Counted(team)') = Cardinality(Counted(team)) + 1
      BY <2>4, <3>1, FS_AddElement
    <3>. QED
      BY <1>3, <2>3, <2>4, <2>5, <3>2
  <2>6. CASE team # r[1]
    <3>1. Counted(team)' = Counted(team)
      BY <1>2, <2>6 DEF Counted
    <3>. QED
      BY <1>3, <2>3, <2>4, <2>6, <3>1
  <2>. QED
    BY <2>5, <2>6
<1>5. TypeOK'
  <2>1. iNumBatonExchanges' \in [Teams -> 0..NUM_MEMBERS]
    BY <1>1, <1>4 DEF TypeOK
  <2>. QED
    BY <1>1, <1>2, <2>1 DEF TypeOK, RunnerPlaces, Timed
<1>6. MutexHeld'
  BY <1>1, <1>2 DEF MutexHeld, InAddTime
<1>7. FreshReads'
  <2> SUFFICES ASSUME NEW s \in Runners
               PROVE  /\ pc'[s] = "read" => timeRead'[s] = fTeamTime_s'[s[1]]
                      /\ pc'[s] = "reread" => countRead'[s] = iNumBatonExchanges'[s[1]]
    BY DEF FreshReads
  <2>1. pc'[s] = "reread" => s # r /\ s[1] # r[1]
    BY <1>1, <1>2 DEF MutexHeld, InAddTime
  <2>. QED
    BY <1>1, <1>2, <1>3, <2>1, RunnerTyping DEF FreshReads
<1>8. NoTimeLost'
  BY <1>1, <1>2 DEF NoTimeLost, Stored, Timed
<1>9. NoExchangeLost'
  BY <1>4 DEF NoExchangeLost, Counted
<1>10. FinishedAreGone'
  BY <1>1, <1>2 DEF FinishedAreGone
<1>. QED
  BY <1>5, <1>6, <1>7, <1>8, <1>9, <1>10

LEMMA SetFinishedIInv ==
  ASSUME IInv, NEW r \in Runners, SetFinished(r)
  PROVE  IInv'
<1> USE DEF IInv
<1>1. /\ pc[r] = "finish" /\ pc' = [pc EXCEPT ![r] = "gone"]
      /\ bFinished' = bFinished \cup {r}
      /\ UNCHANGED <<started, go, fTeamTime_s, iNumBatonExchanges, timeRead, countRead>>
  BY DEF SetFinished
<1>2. /\ pc' \in [Parties -> Places]
      /\ pc'[r] = "gone"
      /\ pc'[Main] = pc[Main]
      /\ \A s \in Runners \ {r} : pc'[s] = pc[s]
  BY <1>1, OneMoves, RunnerTyping DEF Places, RunnerPlaces, Timed
<1>3. TypeOK'
  BY <1>1, <1>2 DEF TypeOK, RunnerPlaces, Timed
<1>4. MutexHeld' /\ FreshReads'
  BY <1>1, <1>2 DEF MutexHeld, FreshReads, InAddTime
<1>5. NoTimeLost'
  BY <1>1, <1>2 DEF NoTimeLost, Stored, Timed
<1>6. NoExchangeLost'
  <2>1. ASSUME NEW team \in Teams PROVE Counted(team)' = Counted(team)
    BY <1>1, <1>2 DEF Counted, Timed
  <2>. QED
    BY <1>1, <2>1 DEF NoExchangeLost, Counted
<1>7. FinishedAreGone'
  BY <1>1, <1>2 DEF FinishedAreGone
<1>. QED
  BY <1>3, <1>4, <1>5, <1>6, <1>7

-----------------------------------------------------------------------------
LEMMA NextIInv == IInv /\ [Next]_vars => IInv'
<1> SUFFICES ASSUME IInv, [Next]_vars PROVE IInv'
  OBVIOUS
<1>1. ASSUME NEW r \in Runners, RunnerStep(r) PROVE IInv'
  BY <1>1, RunnerTyping, StartIInv, LoadTimeIInv, StoreTimeIInv, LoadCountIInv,
     StoreCountIInv, SetFinishedIInv
  DEF RunnerStep
<1>2. ASSUME MainStep PROVE IInv'
  BY <1>2, MainIsNoRunner, StartIInv, CreateIInv, PrintResultsIInv DEF MainStep
<1>3. CASE UNCHANGED vars
  <2>1. TypeOK' /\ UNCHANGED team_vars
    BY <1>3 DEF vars, team_vars, IInv, TypeOK
  <2>. QED
    BY <1>3, <2>1, QuietIInv DEF vars, IInv, FinishedAreGone
<1>. QED
  BY <1>1, <1>2, <1>3 DEF Next, Finished

(* The theorems                                                            *)

\* Every step of every race preserves the invariant.
THEOREM SprintInvariant == Spec => []IInv
BY InitIInv, NextIInv, PTL DEF Spec

\* Every variable keeps its range, the exchange counters included.
THEOREM SprintTyping == Spec => []TypeOK
<1>1. IInv => TypeOK
  BY DEF IInv
<1>. QED
  BY <1>1, SprintInvariant, PTL

\* No store of Team::addTime overwrites the time of another runner.
THEOREM NoTimeIsLost == Spec => []NoTimeLost
<1>1. IInv => NoTimeLost
  BY DEF IInv
<1>. QED
  BY <1>1, SprintInvariant, PTL

\* No increment of the exchange counter is lost.
THEOREM NoExchangeIsLost == Spec => []NoExchangeLost
<1>1. IInv => NoExchangeLost
  BY DEF IInv
<1>. QED
  BY <1>1, SprintInvariant, PTL

LEMMA IInvResultsAreComplete == IInv => ResultsAreComplete
<1> SUFFICES ASSUME IInv, pc[Main] = "done", NEW team \in Teams
             PROVE  /\ fTeamTime_s[team] = {team} \X Members
                    /\ iNumBatonExchanges[team] = NUM_MEMBERS
                    /\ bFinished = Runners
  BY TeamsAssumption DEF ResultsAreComplete, Teams
<1>1. \A r \in Runners : pc[r] = "gone"
  BY DEF IInv, FinishedAreGone
<1>2. fTeamTime_s[team] = {r \in Runners : r[1] = team}
  BY <1>1 DEF IInv, NoTimeLost, Stored, Timed
<1>3. Counted(team) = {r \in Runners : r[1] = team}
  BY <1>1 DEF Counted, Timed
<1>4. iNumBatonExchanges[team] = Cardinality(Counted(team))
  BY DEF IInv, NoExchangeLost, Counted
<1>5. bFinished = Runners
  BY <1>1 DEF IInv, FinishedAreGone
<1>. QED
  BY <1>2, <1>3, <1>4, <1>5, TeamsAreCounted

\* The totals main prints are those of all runners.
THEOREM ResultsComeComplete == Spec => []ResultsAreComplete
BY IInvResultsAreComplete, SprintInvariant, PTL

-----------------------------------------------------------------------------
(* The race                                                                *)

Credited == UNION {fTeamTime_s[team] : team \in Teams}

LEMMA CreditedIsStored ==
  ASSUME IInv
  PROVE  Credited = {r \in Runners : pc[r] \in Stored}
BY RunnerTyping DEF IInv, NoTimeLost, Credited

\* The store of a runner's time is its credit, the print is the end.
LEMMA StepIsRace ==
  ASSUME IInv, IInv', [Next]_vars
  PROVE  [Race!Next]_(Race!vars)
<1>1. /\ Credited = {r \in Runners : pc[r] \in Stored}
      /\ Credited' = {r \in Runners : pc'[r] \in Stored}
  <2>1. Credited = {r \in Runners : pc[r] \in Stored}
    BY CreditedIsStored
  <2>2. Credited' = {r \in Runners : pc'[r] \in Stored'}
    BY RunnerTyping DEF IInv, NoTimeLost, Credited
  <2>. QED
    BY <2>1, <2>2 DEF Stored, Timed
<1> DEFINE over == pc[Main] = "done"
<1>2. ASSUME Credited' = Credited, over' = over
      PROVE  UNCHANGED Race!vars
  BY <1>2 DEF Race!vars, Credited
<1>3. ASSUME NEW t \in Parties, ArriveStarted(t) \/ ArriveGo(t) \/ LeaveGo(t)
      PROVE  UNCHANGED Race!vars
  <2>1. Credited' = Credited
    BY <1>3 DEF ArriveStarted, ArriveGo, LeaveGo, team_vars, Credited
  <2>2. /\ pc[t] # "done" /\ pc'[t] # "done"
        /\ \A s \in Parties \ {t} : pc'[s] = pc[s]
    BY <1>3 DEF ArriveStarted, ArriveGo, LeaveGo, IInv, TypeOK
  <2>3. over' = over
    BY <2>2, MainIsNoRunner
  <2>. QED
    BY <1>2, <2>1, <2>3
<1>4. ASSUME NEW r \in Runners, CreateThread(r)
      PROVE  UNCHANGED Race!vars
  <2>1. Credited' = Credited
    BY <1>4 DEF CreateThread, team_vars, Credited
  <2>2. over' = over
    BY <1>4, RunnerTyping, MainIsNoRunner DEF CreateThread, IInv, TypeOK
  <2>. QED
    BY <1>2, <2>1, <2>2
<1>5. ASSUME NEW r \in Runners, StoreTime(r)
      PROVE  Race!Credit(r)
  <2>1. pc[r] = "read" /\ pc'[r] = "written" /\ pc'[Main] = pc[Main]
        /\ \A s \in Runners \ {r} : pc'[s] = pc[s]
    BY <1>5, RunnerTyping, MainIsNoRunner DEF StoreTime, IInv, TypeOK
  <2>2. r \notin Credited /\ Credited' = Credited \cup {r}
    BY <1>1, <2>1 DEF Stored, Timed
  <2>. QED
    BY <2>1, <2>2 DEF Race!Credit, Credited
<1>6. ASSUME NEW r \in Runners,
             LoadTime(r) \/ LoadCount(r) \/ StoreCount(r) \/ SetFinished(r)
      PROVE  UNCHANGED Race!vars
  <2>1. Credited' = Credited
    BY <1>6 DEF LoadTime, LoadCount, StoreCount, SetFinished, Credited
  <2>2. over' = over
    BY <1>6, RunnerTyping, MainIsNoRunner
    DEF LoadTime, LoadCount, StoreCount, SetFinished, IInv, TypeOK
  <2>. QED
    BY <1>2, <2>1, <2>2
<1>7. ASSUME PrintResults
      PROVE  Race!PrintResults
  <2>1. pc[Main] = "join" /\ pc'[Main] = "done" /\ \A r \in Runners : pc[r] = "gone"
    BY <1>7, MainIsNoRunner DEF PrintResults, Joined, IInv, TypeOK
  <2>2. Credited = Runners
    BY <1>1, <2>1 DEF Stored, Timed
  <2>3. Credited' = Credited
    BY <1>7 DEF PrintResults, team_vars, Credited
  <2>. QED
    BY <2>1, <2>2, <2>3 DEF Race!PrintResults, Credited
<1>8. CASE UNCHANGED vars
  BY <1>2, <1>8 DEF vars, Credited
<1>. QED
  BY <1>3, <1>4, <1>5, <1>6, <1>7, <1>8, MainIsNoRunner, RunnerTyping
  DEF Next, RunnerStep, MainStep, Finished, Race!Next

LEMMA InitIsRace == Init => Race!Init
<1> SUFFICES ASSUME Init PROVE Race!Init
  OBVIOUS
<1>1. UNION {fTeamTime_s[team] : team \in Teams} = {}
  BY DEF Init
<1>2. pc[Main] # "done"
  BY MainIsNoRunner DEF Init
<1>. QED
  BY <1>1, <1>2 DEF Race!Init

\* The threads of the sprint run the race SprintRace describes.
THEOREM SprintIsRace == Spec => IsSprintRace
BY InitIsRace, StepIsRace, SprintInvariant, PTL
DEF Spec, IsSprintRace, Race!SafeSpec

=============================================================================
