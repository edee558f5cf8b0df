------------------------- MODULE AlternationProofs --------------------------
(***************************************************************************)
(* The two benchmarks that play ball, each against Alternation: the thread *)
(* ping-pong alternates strictly, the UDP echo until its first timeout.    *)
(* Both for every number of iterations, and the second for whatever the    *)
(* loopback does.                                                          *)
(***************************************************************************)
EXTENDS PingPong, UdpEcho, FiniteSetTheorems, TLAPS

-----------------------------------------------------------------------------
(* The thread ping-pong                                                    *)

LEMMA InitPPInv == PPInit => PPInv
<1> SUFFICES ASSUME PPInit PROVE PPInv
  OBVIOUS
<1>1. i \in 0..ITERATIONS
  BY IterationsAssumption DEF PPInit
<1>2. PPTypeOK
  BY <1>1 DEF PPInit, PPTypeOK
<1>3. OneBall /\ NobodySleepsOnABall
  BY DEF PPInit, OneBall, NobodySleepsOnABall
<1>4. StopsAfterLastRound
  BY DEF PPInit, StopsAfterLastRound
<1>. QED
  BY <1>2, <1>3, <1>4 DEF PPInit, PPInv

\* The steps of main
LEMMA MainPPInv ==
  ASSUME PPInv, MainStep
  PROVE  PPInv'
<1> USE DEF PPInv
<1>1. CASE MainStarts
  BY <1>1, IterationsAssumption
  DEF MainStarts, Serve, InLoop, WokenByPing,
      PPTypeOK, OneBall, NobodySleepsOnABall, StopsAfterLastRound
<1>2. CASE MainReceives
  <2>1. i' = i + 1 /\ i' \in 0..ITERATIONS /\ pong_ready' = FALSE /\ worker' = worker
    BY <1>2, IterationsAssumption
    DEF MainReceives, Serve, LeaveLoop, PongConsumed, PPTypeOK, StopsAfterLastRound
  <2>2. CASE Serve(i + 1)
    BY <1>2, <2>1, <2>2, IterationsAssumption
    DEF MainReceives, PongCame, Serve, InLoop, WokenByPing,
        PPTypeOK, OneBall, NobodySleepsOnABall, StopsAfterLastRound
  <2>3. CASE LeaveLoop(i + 1)
    <3>1. /\ main = "pong" /\ main' = "join" /\ stop_thread'
          /\ pong_ready /\ ~ping_ready /\ ~ping_ready'
          /\ "main" \notin blocked /\ blocked' = blocked \ {"worker"}
      BY <1>2, <2>3 DEF MainReceives, PongCame, LeaveLoop, WokenByStop, OneBall
    <3>2. i' = ITERATIONS
      BY <2>1, <2>3, IterationsAssumption DEF LeaveLoop, InLoop
    <3>3. PPTypeOK'
      BY <2>1, <2>3, <3>1 DEF PPTypeOK, LeaveLoop
    <3>4. OneBall'
      BY <2>1, <3>1 DEF OneBall
    <3>5. NobodySleepsOnABall'
      BY <3>1 DEF NobodySleepsOnABall
    <3>6. StopsAfterLastRound'
      BY <3>1, <3>2 DEF StopsAfterLastRound
    <3>. QED
      BY <3>1, <3>3, <3>4, <3>5, <3>6
  <2>. QED
    BY <1>2, <2>2, <2>3 DEF MainReceives
<1>3. CASE MainBlocksAgain
  BY <1>3
  DEF MainBlocksAgain, PongCame,
      PPTypeOK, OneBall, NobodySleepsOnABall, StopsAfterLastRound
<1>4. CASE MainJoins
  BY <1>4 DEF MainJoins, PPTypeOK, OneBall, NobodySleepsOnABall, StopsAfterLastRound
<1>. QED
  BY <1>1, <1>2, <1>3, <1>4 DEF MainStep

\* The steps of the worker, and wake-ups nobody asked for
LEMMA WorkerPPInv ==
  ASSUME PPInv, WorkerStep \/ SpuriousWakeup
  PROVE  PPInv'
<1> USE DEF PPInv, PPTypeOK, OneBall, NobodySleepsOnABall, StopsAfterLastRound
<1>1. CASE WorkerBlocks
  BY <1>1 DEF WorkerBlocks, PingCame
<1>2. CASE WorkerStops
  BY <1>2 DEF WorkerStops, PingCame
<1>3. CASE WorkerReturns
  BY <1>3 DEF WorkerReturns, PingCame, PingConsumed
<1>4. CASE WorkerNotifies
  BY <1>4 DEF WorkerNotifies, WokenByPong
<1>5. CASE SpuriousWakeup
  BY <1>5 DEF SpuriousWakeup
<1>. QED
  BY <1>1, <1>2, <1>3, <1>4, <1>5 DEF WorkerStep

LEMMA NextPPInv == PPInv /\ [PPNext]_ppVars => PPInv'
<1> SUFFICES ASSUME PPInv, [PPNext]_ppVars PROVE PPInv'
  OBVIOUS
<1>1. CASE MainStep
  BY <1>1, MainPPInv
<1>2. CASE WorkerStep \/ SpuriousWakeup
  BY <1>2, WorkerPPInv
<1>3. CASE UNCHANGED ppVars
  BY <1>3 DEF ppVars, PPInv, PPTypeOK, OneBall, NobodySleepsOnABall,
              StopsAfterLastRound
<1>. QED
  BY <1>1, <1>2, <1>3 DEF PPNext, Finished

\* The two flags, the two waits and the loop counter of the ping-pong agree in
\* every reachable state.
THEOREM PingPongInvariant == PPSpec => []PPInv
BY InitPPInv, NextPPInv, PTL DEF PPSpec

\* The ranges of the flags, the loop counter and the two program counters.
THEOREM PingPongTyping == PPSpec => []PPTypeOK
<1>1. PPInv => PPTypeOK
  BY DEF PPInv
<1>. QED
  BY <1>1, PingPongInvariant, PTL

\* There is one ball while main waits, and none otherwise.
THEOREM OneBallOnly == PPSpec => []OneBall
<1>1. PPInv => OneBall
  BY DEF PPInv
<1>. QED
  BY <1>1, PingPongInvariant, PTL

\* Neither thread sleeps through a ball, although the worker notifies after
\* it has given the mutex back.
THEOREM NobodyMissesABall == PPSpec => []NobodySleepsOnABall
<1>1. PPInv => NobodySleepsOnABall
  BY DEF PPInv
<1>. QED
  BY <1>1, PingPongInvariant, PTL

\* The worker is stopped after the last round trip and not before.
THEOREM StopIsLast == PPSpec => []StopsAfterLastRound
<1>1. PPInv => StopsAfterLastRound
  BY DEF PPInv
<1>. QED
  BY <1>1, PingPongInvariant, PTL

-----------------------------------------------------------------------------
\* The worker's return of the ball is the pong; main's next service the ping.
LEMMA PPStepAlternates == PPInv /\ [PPNext]_ppVars => [PPRally!Next]_(PPRally!vars)
<1> SUFFICES ASSUME PPInv, [PPNext]_ppVars PROVE [PPRally!Next]_(PPRally!vars)
  OBVIOUS
<1> USE DEF PPInv, PPTypeOK, OneBall, StopsAfterLastRound
<1>1. CASE MainStarts
  BY <1>1 DEF MainStarts, Serve, InLoop, PPRally!Next, PPRally!Ping
<1>2. CASE MainReceives
  <2>1. pong_ready /\ ~pong_ready' /\ main = "pong" /\ i' = i + 1
    BY <1>2 DEF MainReceives, PongCame, PongConsumed, Serve, LeaveLoop
  <2>2. CASE Serve(i + 1)
    BY <2>1, <2>2 DEF Serve, InLoop, PPRally!Next, PPRally!Ping
  <2>3. CASE LeaveLoop(i + 1)
    BY <2>1, <2>3 DEF LeaveLoop, PPRally!vars
  <2>. QED
    BY <1>2, <2>2, <2>3 DEF MainReceives
<1>3. CASE MainJoins
  BY <1>3 DEF MainJoins, PPRally!Next, PPRally!Stop
<1>4. CASE WorkerReturns
  BY <1>4 DEF WorkerReturns, PingCame, PPRally!Next, PPRally!Pong
<1>5. CASE MainBlocksAgain \/ WorkerBlocks \/ WorkerStops \/ WorkerNotifies
           \/ SpuriousWakeup
  BY <1>5 DEF MainBlocksAgain, WorkerBlocks, WorkerStops, WorkerNotifies,
              SpuriousWakeup,
              PPRally!vars
<1>6. CASE UNCHANGED ppVars
  BY <1>6 DEF ppVars, PPRally!vars
<1>. QED
  BY <1>1, <1>2, <1>3, <1>4, <1>5, <1>6 DEF PPNext, MainStep, WorkerStep, Finished

LEMMA PPInitAlternates == PPInit => PPRally!Init
BY DEF PPInit, PPRally!Init

\* Every ping is answered by one pong before the next, so the average main
\* computes is that of ITERATIONS round trips.
THEOREM StrictAlternation == PPSpec => Alternates
BY PPInitAlternates, PPStepAlternates, PingPongInvariant, PTL
DEF PPSpec, Alternates, PPRally!SafeSpec

-----------------------------------------------------------------------------
(* The UDP echo                                                            *)

\* What is appended comes last and moves nothing
LEMMA Appended ==
  ASSUME NEW S, NEW s \in Seq(S), NEW e \in S
  PROVE  /\ Append(s, e) \in Seq(S)
         /\ Len(Append(s, e)) = Len(s) + 1
         /\ DOMAIN Append(s, e) = 1..(Len(s) + 1)
         /\ DOMAIN s = 1..Len(s)
         /\ Len(s) \in Nat
         /\ \A k \in 1..Len(s) : Append(s, e)[k] = s[k]
         /\ Append(s, e)[Len(s) + 1] = e
OBVIOUS

\* Failed is no ping
LEMMA FailedIsNoPing == TypeOK => Len(got) \in Nat /\ SentPings \subseteq Nat /\ Failed \notin SentPings
<1> SUFFICES ASSUME TypeOK PROVE Len(got) \in Nat /\ SentPings \subseteq Nat
  BY UdpAssumption
<1>1. Len(got) \in Nat
  BY DEF TypeOK
<1>. QED
  BY <1>1 DEF SentPings

LEMMA InitIInv == Init => IInv
<1> SUFFICES ASSUME Init PROVE IInv
  OBVIOUS
<1>1. got = <<>> /\ served = <<>> /\ Len(got) = 0 /\ Len(served) = 0 /\ DOMAIN got = {} /\ DOMAIN served = {}
  BY DEF Init
<1>2. TypeOK
  BY <1>1, IterationsAssumption DEF Init, TypeOK
<1>. QED
  BY <1>1, <1>2 DEF Init, IInv, OnePlace, EchoedOnce, ShiftNeedsTimeout, InOrder

LEMMA ClientSendsIInv == ASSUME IInv, ClientSends PROVE IInv'
<1> USE DEF IInv, TypeOK
<1>1. Len(got) \in 0..(ITERATIONS - 1) /\ SentPings \subseteq SentPings' /\ Len(got) \in SentPings' \ SentPings
  BY IterationsAssumption DEF ClientSends, SentPings
<1>2. got' \in Seq((SentPings \cup {Failed})') /\ served' \in Seq((SentPings \cup {Failed})')
  BY <1>1 DEF ClientSends
<1>3. toServer' \subseteq toServer \cup {Len(got)}
  BY DEF ClientSends, Sent
<1>4. TypeOK'
  BY <1>1, <1>2, <1>3 DEF ClientSends
<1>5. Len(got) # held /\ \A k \in DOMAIN served : served[k] # Len(got)
  BY <1>1, IterationsAssumption, UdpAssumption
<1>6. OnePlace'
  BY <1>3, <1>5 DEF ClientSends, OnePlace
<1>7. EchoedOnce' /\ ShiftNeedsTimeout' /\ InOrder'
  BY DEF ClientSends, EchoedOnce, ShiftNeedsTimeout, InOrder, NoFailure
<1>. QED
  BY <1>4, <1>6, <1>7

\* A round that ends with an echo, or with a failure
LEMMA EndRoundIInv ==
  ASSUME IInv, NEW p \in SentPings \cup {Failed}, NEW net \in SUBSET toClient,
         p \notin net,
         p # Failed => p \in toClient,
         EndRound(p, net)
  PROVE  IInv'
<1> USE DEF IInv, TypeOK, EndRound
<1>1. /\ client = "recv" /\ Len(got) \in 0..(ITERATIONS - 1)
      /\ SentPings = 0..Len(got) /\ SentPings' = SentPings
      /\ client' = IF Len(got') < ITERATIONS THEN "send" ELSE "join"
  <2>1. Len(got') = Len(got) + 1 /\ Len(got) \in Nat
    BY Appended
  <2>2. client = "recv" /\ Len(got) \in 0..(ITERATIONS - 1) /\ SentPings = 0..Len(got)
    BY <2>1, IterationsAssumption DEF SentPings
  <2>3. client' = IF Len(got') < ITERATIONS THEN "send" ELSE "join"
    BY <2>1 DEF ClientAfter
  <2>. QED
    BY <2>1, <2>2, <2>3 DEF SentPings
<1>2. /\ got' \in Seq(SentPings \cup {Failed})
      /\ Len(got') = Len(got) + 1
      /\ DOMAIN got' = 1..(Len(got) + 1)
      /\ DOMAIN got = 1..Len(got)
      /\ \A k \in 1..Len(got) : got'[k] = got[k]
      /\ got'[Len(got) + 1] = p
  BY Appended
<1>3. toClient' \subseteq toClient /\ p \notin toClient'
  OBVIOUS
<1>4. TypeOK'
  <2>1. got' \in Seq((SentPings \cup {Failed})') /\ served' \in Seq((SentPings \cup {Failed})')
    BY <1>1, <1>2
  <2>2. Len(got') <= ITERATIONS /\ (client' \in {"send", "recv"} <=> Len(got') < ITERATIONS)
    BY <1>1, <1>2, IterationsAssumption
  <2>3. client' \in {"send", "recv", "join", "done"}
    BY <1>1
  <2>. QED
    BY <1>1, <1>3, <2>1, <2>2, <2>3
<1>5. OnePlace'
  BY <1>1, <1>2, <1>3, IterationsAssumption DEF OnePlace
<1>6. \A k \in DOMAIN got : p # Failed => got[k] # p
  BY DEF OnePlace
<1>7. EchoedOnce'
  BY <1>1, <1>2, <1>6 DEF EchoedOnce
<1>8. ShiftNeedsTimeout'
  <2>1. ASSUME \A j \in 1..(Len(got) + 1) : got'[j] # Failed
        PROVE  p = Len(got)
    <3>1. p # Failed /\ p \in 0..Len(got)
      BY <1>1, <1>2, <2>1
    <3>2. \A k \in 1..Len(got) : got[k] = k - 1
      <4>1. \A k \in 1..Len(got) : \A j \in 1..k : got[j] # Failed
        BY <1>1, <1>2, <2>1
      <4>. QED
        BY <1>2, <4>1 DEF ShiftNeedsTimeout
    <3>3. ASSUME p < Len(got) PROVE FALSE
      <4>1. p + 1 \in 1..Len(got) /\ got[p + 1] = p
        BY <1>1, <3>1, <3>2, <3>3
      <4>. QED
        BY <1>2, <1>6, <3>1, <4>1
    <3>. QED
      BY <1>1, <3>1, <3>3
  <2>2. ASSUME NEW k \in DOMAIN got', \A j \in 1..k : got'[j] # Failed
        PROVE  got'[k] = k - 1
    <3>1. CASE k = Len(got) + 1
      <4>1. \A j \in 1..(Len(got) + 1) : got'[j] # Failed
        BY <2>2, <3>1
      <4>2. p = Len(got)
        BY <2>1, <4>1
      <4>. QED
        BY <1>1, <1>2, <3>1, <4>2
    <3>2. CASE k \in 1..Len(got)
      <4>1. \A j \in 1..k : j \in 1..Len(got) /\ got[j] # Failed
        BY <1>1, <1>2, <2>2, <3>2
      <4>. QED
        BY <1>2, <3>2, <4>1 DEF ShiftNeedsTimeout
    <3>. QED
      BY <1>1, <1>2, <3>1, <3>2
  <2>. QED
    BY <2>2 DEF ShiftNeedsTimeout
<1>9. InOrder'
  BY <1>1, <1>2 DEF InOrder, NoFailure
<1>. QED
  BY <1>4, <1>5, <1>7, <1>8, <1>9

LEMMA ClientIInv == ASSUME IInv, ClientStep PROVE IInv'
<1>1. CASE ClientSends
  BY <1>1, ClientSendsIInv
<1>2. CASE ClientReceives
  <2>1. PICK p \in toClient : EndRound(p, toClient \ {p})
    BY <1>2 DEF ClientReceives, Taken
  <2>2. p \in SentPings
    BY DEF IInv, TypeOK
  <2>. QED
    BY <2>1, <2>2, EndRoundIInv
<1>3. CASE ClientFails
  <2>1. Failed \notin toClient
    BY FailedIsNoPing DEF IInv, TypeOK
  <2>. QED
    BY <1>3, <2>1, EndRoundIInv DEF ClientFails
<1>4. CASE ClientJoins
  BY <1>4 DEF ClientJoins, IInv, TypeOK, SentPings, OnePlace, EchoedOnce, ShiftNeedsTimeout,
              InOrder, NoFailure
<1>. QED
  BY <1>1, <1>2, <1>3, <1>4 DEF ClientStep

-----------------------------------------------------------------------------
\* Before any failure the pings reach the server in order, because main sends
\* the next one only after the echo of the last.
LEMMA NextToServe ==
  ASSUME IInv, NoFailure(got), NoFailure(served), NEW p \in SentPings,
         \A k \in DOMAIN served : served[k] # p
  PROVE  p = Len(served)
<1> USE DEF IInv, TypeOK, NoFailure
<1>1. Len(got) \in Nat /\ Len(served) \in Nat /\ p \in 0..Len(got)
  BY DEF SentPings
<1>2. \A k \in 1..Len(served) : served[k] = k - 1
  BY DEF InOrder
<1>3. ~(p < Len(served))
  <2> SUFFICES ASSUME p < Len(served) PROVE FALSE
    OBVIOUS
  <2>1. p + 1 \in DOMAIN served /\ served[p + 1] = p
    BY <1>1, <1>2
  <2>. QED
    BY <2>1
<1>4. Len(got) <= Len(served)
  <2> SUFFICES ASSUME Len(got) > 0 PROVE Len(got) <= Len(served)
    BY <1>1
  <2>1. Len(got) \in DOMAIN got /\ got[Len(got)] = Len(got) - 1
    BY <1>1 DEF ShiftNeedsTimeout
  <2>2. PICK k \in DOMAIN served : served[k] = Len(got) - 1
    BY <2>1 DEF OnePlace
  <2>. QED
    BY <1>1, <1>2, <2>2
<1>. QED
  BY <1>1, <1>3, <1>4

LEMMA ServerReceivesIInv == ASSUME IInv, ServerReceives PROVE IInv'
<1> USE DEF IInv
<1>1. PICK p \in toServer : held' = p /\ toServer' = toServer \ {p}
  BY DEF ServerReceives, Taken
<1>2. p \in SentPings /\ p # Failed /\ SentPings' = SentPings
  BY FailedIsNoPing DEF ServerReceives, TypeOK, SentPings
<1>3. TypeOK'
  BY <1>1, <1>2 DEF ServerReceives, TypeOK
<1>4. \A k \in DOMAIN served : served[k] # p
  BY DEF OnePlace
<1>5. OnePlace'
  BY <1>1, <1>4 DEF ServerReceives, OnePlace
<1>6. EchoedOnce' /\ ShiftNeedsTimeout'
  BY DEF ServerReceives, EchoedOnce, ShiftNeedsTimeout
<1>7. InOrder'
  <2> SUFFICES ASSUME NoFailure(got), NoFailure(served)
               PROVE  (\A k \in DOMAIN served : served[k] = k - 1) /\ p = Len(served)
    BY <1>1 DEF ServerReceives, InOrder, NoFailure
  <2>1. p = Len(served)
    BY <1>2, <1>4, NextToServe
  <2>. QED
    BY <2>1 DEF InOrder
<1>. QED
  BY <1>3, <1>5, <1>6, <1>7

\* An iteration of the server that ends with an echo, or with a failure
LEMMA EndServiceIInv ==
  ASSUME IInv, EndService(held), server # "closed",
         toClient' \subseteq toClient \cup ({held} \ {Failed})
  PROVE  IInv'
<1> USE DEF IInv, EndService
<1>1. /\ served' \in Seq(SentPings \cup {Failed})
      /\ Len(served') = Len(served) + 1
      /\ DOMAIN served' = 1..(Len(served) + 1)
      /\ DOMAIN served = 1..Len(served)
      /\ Len(served) \in Nat
      /\ \A k \in 1..Len(served) : served'[k] = served[k]
      /\ served'[Len(served) + 1] = held
  BY Appended DEF TypeOK
<1>2. SentPings' = SentPings /\ Failed \notin SentPings /\ toServer' \subseteq toServer
  BY FailedIsNoPing DEF SentPings
<1>3. /\ server' \in {"recv", "closed"}
      /\ Len(served') <= ITERATIONS /\ (server' # "closed" <=> Len(served') < ITERATIONS)
  BY <1>1, IterationsAssumption DEF ServerAfter, TypeOK
<1>4. TypeOK'
  <2>1. got' \in Seq((SentPings \cup {Failed})') /\ served' \in Seq((SentPings \cup {Failed})')
    BY <1>1, <1>2 DEF TypeOK
  <2>2. toClient' \subseteq SentPings /\ toServer' \subseteq SentPings
    BY <1>2 DEF TypeOK
  <2>. QED
    BY <1>2, <1>3, <2>1, <2>2 DEF TypeOK
<1>5. held' = Failed /\ Failed \notin toServer'
  BY <1>2 DEF TypeOK
<1>6. \A j, k \in DOMAIN served' : served'[j] = served'[k] /\ served'[j] # Failed => j = k
  BY <1>1 DEF OnePlace
<1>7. \A k \in DOMAIN served' : served'[k] \notin toServer'
  BY <1>1, <1>2 DEF OnePlace
<1>8. \A p \in toClient' : \E k \in DOMAIN served' : served'[k] = p
  BY <1>1 DEF OnePlace
<1>9. \A j \in DOMAIN got : got[j] # Failed =>
        got[j] \notin toClient' /\ \E k \in DOMAIN served' : served'[k] = got[j]
  BY <1>1 DEF OnePlace
<1>10. OnePlace'
  BY <1>5, <1>6, <1>7, <1>8, <1>9 DEF OnePlace
<1>11. EchoedOnce' /\ ShiftNeedsTimeout'
  BY DEF EchoedOnce, ShiftNeedsTimeout
<1>12. InOrder'
  <2> SUFFICES ASSUME NoFailure(got), NoFailure(served')
               PROVE  \A k \in DOMAIN served' : served'[k] = k - 1
    BY <1>3 DEF InOrder
  <2>1. NoFailure(served) /\ held # Failed
    BY <1>1 DEF NoFailure
  <2>2. held \in SentPings /\ \A k \in DOMAIN served : served[k] # held
    BY <2>1 DEF TypeOK, OnePlace
  <2>3. held = Len(served)
    BY <2>1, <2>2, NextToServe
  <2>. QED
    BY <1>1, <2>1, <2>3 DEF InOrder
<1>. QED
  BY <1>4, <1>10, <1>11, <1>12

LEMMA ServerIInv == ASSUME IInv, ServerStep PROVE IInv'
<1>1. CASE ServerReceives
  BY <1>1, ServerReceivesIInv
<1>2. CASE ServerFails
  <2>1. held = Failed
    BY <1>2 DEF ServerFails, IInv, TypeOK
  <2>. QED
    BY <1>2, <2>1, EndServiceIInv DEF ServerFails
<1>3. CASE ServerEchoes
  <2>1. toClient' \subseteq toClient \cup ({held} \ {Failed})
    BY <1>3 DEF ServerEchoes, IInv, TypeOK
  <2>. QED
    BY <1>3, <2>1, EndServiceIInv DEF ServerEchoes
<1>. QED
  BY <1>1, <1>2, <1>3 DEF ServerStep

LEMMA NextIInv == IInv /\ [Next]_vars => IInv'
<1> SUFFICES ASSUME IInv, [Next]_vars PROVE IInv'
  OBVIOUS
<1>1. CASE ClientStep
  BY <1>1, ClientIInv
<1>2. CASE ServerStep
  BY <1>2, ServerIInv
<1>3. CASE Lose
  BY <1>3 DEF Lose, IInv, TypeOK, SentPings, OnePlace, EchoedOnce, ShiftNeedsTimeout, InOrder,
              NoFailure
<1>4. CASE UNCHANGED vars
  BY <1>4 DEF vars, IInv, TypeOK, SentPings, OnePlace, EchoedOnce, ShiftNeedsTimeout, InOrder,
              NoFailure
<1>. QED
  BY <1>1, <1>2, <1>3, <1>4 DEF Next

LEMMA Invariant == Spec => []IInv
BY InitIInv, NextIInv, PTL DEF Spec

\* The state is well typed: no datagram carries a ping main has not sent, and
\* neither loop runs longer than ITERATIONS.
THEOREM UdpTyping == Spec => []TypeOK
<1>1. IInv => TypeOK
  BY DEF IInv
<1>. QED
  BY <1>1, Invariant, PTL

\* No echo is taken for the end of two rounds.
THEOREM EchoEndsOneRound == Spec => []EchoedOnce
<1>1. IInv => EchoedOnce
  BY DEF IInv
<1>. QED
  BY <1>1, Invariant, PTL

\* Before main's first timeout each of its rounds is a round trip.
THEOREM RoundTripsBeforeTimeout == Spec => []ShiftNeedsTimeout
<1>1. IInv => ShiftNeedsTimeout
  BY DEF IInv
<1>. QED
  BY <1>1, Invariant, PTL

\* A server that has gone round ITERATIONS times without a failure has had
\* ITERATIONS different pings in its hands, so main has sent them all.
THEOREM CloseAfterAllPings == Spec => []EarlyCloseNeedsTimeout
<1>1. IInv => EarlyCloseNeedsTimeout
  <2> SUFFICES ASSUME IInv, server = "closed", NoFailure(served), SentPings # Pings
               PROVE  FALSE
    BY DEF EarlyCloseNeedsTimeout
  <2> USE DEF IInv, TypeOK
  <2>1. Len(served) = ITERATIONS /\ DOMAIN served = 1..ITERATIONS
    BY IterationsAssumption
  <2>2. served \in [1..ITERATIONS -> SentPings]
    BY <2>1 DEF NoFailure
  <2>3. PICK n \in Int : SentPings = 0..n /\ n >= -1 /\ n < ITERATIONS - 1
    <3>1. Len(got) \in Nat
      OBVIOUS
    <3>. QED
      BY <3>1, IterationsAssumption DEF SentPings, Pings
  <2>4. Cardinality(SentPings) < Cardinality(1..ITERATIONS)
    <3>1. Cardinality(SentPings) = n + 1
      BY <2>3, FS_Interval
    <3>2. Cardinality(1..ITERATIONS) = ITERATIONS
      BY FS_Interval, IterationsAssumption
    <3>. QED
      BY <2>3, <3>1, <3>2, IterationsAssumption
  <2>5. IsFiniteSet(SentPings) /\ IsFiniteSet(1..ITERATIONS)
    BY <2>3, FS_Interval, IterationsAssumption
  <2>6. PICK j, k \in 1..ITERATIONS : j # k /\ served[j] = served[k]
    BY <2>2, <2>4, <2>5, FS_PigeonHole
  <2>. QED
    BY <2>1, <2>6 DEF OnePlace, NoFailure
<1>. QED
  BY <1>1, Invariant, PTL

-----------------------------------------------------------------------------
\* While nothing has failed, main's sendto is the ping and the server's the pong.
LEMMA StepAlternates ==
  ASSUME IInv, [Next]_vars, NoFailure(got'), NoFailure(served')
  PROVE  [Rally!Next]_(Rally!vars)
<1> USE DEF IInv
<1>1. Len(got) \in Nat /\ Len(served) \in Nat
  BY DEF TypeOK
<1>2. CASE ClientSends
  <2>1. NoFailure(got) /\ NoFailure(served) /\ got' = got /\ served' = served
    BY <1>2 DEF ClientSends
  <2>2. Len(got) <= Len(served)
    <3> SUFFICES ASSUME Len(got) > 0 PROVE Len(got) <= Len(served)
      BY <1>1
    <3>1. Len(got) \in DOMAIN got /\ got[Len(got)] = Len(got) - 1
      BY <1>1, <2>1 DEF ShiftNeedsTimeout, NoFailure, TypeOK
    <3>2. PICK k \in DOMAIN served : served[k] = Len(got) - 1
      BY <2>1, <3>1 DEF OnePlace, NoFailure
    <3>. QED
      BY <1>1, <2>1, <3>2 DEF InOrder, TypeOK
  <2>3. Len(served) <= Len(got)
    <3> SUFFICES ASSUME Len(served) > 0 PROVE Len(served) <= Len(got)
      BY <1>1
    <3>1. Len(served) \in DOMAIN served /\ served[Len(served)] = Len(served) - 1
      BY <1>1, <2>1 DEF InOrder, TypeOK
    <3>2. served[Len(served)] \in SentPings
      BY <2>1, <3>1 DEF TypeOK, NoFailure
    <3>. QED
      BY <1>1, <1>2, <3>1, <3>2 DEF SentPings, ClientSends
  <2>. QED
    BY <1>1, <1>2, <2>2, <2>3 DEF ClientSends, TypeOK, Rally!Next, Rally!Ping
<1>3. CASE ClientReceives \/ ClientFails
  <2>1. PICK p, net : EndRound(p, net)
    BY <1>3 DEF ClientReceives, ClientFails
  <2>2. Len(got') = Len(got) + 1 /\ client = "recv" /\ client' \in {"send", "join"}
    <3>1. got \in Seq(SentPings \cup {Failed, p})
      BY DEF TypeOK
    <3>. QED
      BY <2>1, <3>1, Appended DEF EndRound, ClientAfter
  <2>. QED
    BY <1>1, <2>1, <2>2 DEF EndRound, Rally!vars
<1>4. CASE ClientJoins
  <2>1. Len(got) = ITERATIONS /\ Len(served) = ITERATIONS
    BY <1>1, <1>4, IterationsAssumption DEF ClientJoins, TypeOK
  <2>. QED
    BY <1>4, <2>1 DEF ClientJoins, Rally!Next, Rally!Stop
<1>5. CASE ServerReceives \/ Lose \/ UNCHANGED vars
  BY <1>5 DEF ServerReceives, Lose, vars, Rally!vars
<1>6. CASE ServerFails
  <2>1. Failed \in {served'[k] : k \in DOMAIN served'}
    BY <1>6, Appended DEF ServerFails, EndService, TypeOK
  <2>. QED
    BY <2>1 DEF NoFailure
<1>7. CASE ServerEchoes
  <2>1. /\ Len(served') = Len(served) + 1
        /\ NoFailure(served) /\ got' = got /\ client' = client /\ held # Failed
    BY <1>7, Appended DEF ServerEchoes, EndService, TypeOK, NoFailure
  <2>2. held = Len(served) /\ held \in SentPings
    BY <1>7, <2>1 DEF InOrder, TypeOK, ServerEchoes
  <2>. QED
    BY <1>1, <2>1, <2>2 DEF SentPings, Rally!Next, Rally!Pong
<1>. QED
  BY <1>2, <1>3, <1>4, <1>5, <1>6, <1>7 DEF Next, ClientStep, ServerStep

\* As long as neither side has seen a timeout, main measures round trips of a
\* strict ping-pong.
THEOREM UdpAlternatesWhileCalm == Spec => AlternatesWhileCalm
<1>1. Init => Rally!Init
  BY DEF Init, Rally!Init
<1>2. IInv /\ [Next]_vars
      => [(NoFailure(got) /\ NoFailure(served))' => [Rally!Next]_(Rally!vars)]_vars
  BY StepAlternates DEF NoFailure
<1>. QED
  BY <1>1, <1>2, Invariant, PTL DEF Spec, AlternatesWhileCalm

=============================================================================
