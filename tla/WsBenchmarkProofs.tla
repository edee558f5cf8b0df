------------------------- MODULE WsBenchmarkProofs --------------------------
(***************************************************************************)
(* The WebSocket round trips for every number of iterations and whatever   *)
(* happens to the connection: what main may rely on, and the alternation   *)
(* of its rounds.                                                          *)
(***************************************************************************)
EXTENDS WsBenchmark, WsConnectionProofs, TLAPS

Numbers == 0..(ITERATIONS - 1)

-----------------------------------------------------------------------------
(* The one message on its way                                              *)

LEMMA ControlIsNoText ==
  /\ Eof.op # "text"
  /\ \A op \in {"request", "response", "close", "ack", "eof"} : Control(op).op # "text"
BY DEF Eof, Control

LEMMA SilentOps ==
  ASSUME NEW P, NEW w \in Seq(Frames(P)), Silent(w)
  PROVE  /\ w # <<>> => Silent(Tail(w)) /\ Head(w).op # "text"
         /\ \A f \in Frames(P) : f.op # "text" => Silent(Push(w, f)) /\ Silent(Append(w, f))
         /\ \A f \in Frames(P) : OneText(Push(w, f)) /\ OneText(Append(w, f))
         /\ OneText(w)
<1>1. ASSUME w # <<>> PROVE Silent(Tail(w)) /\ Head(w).op # "text"
  BY <1>1 DEF Silent
<1>2. ASSUME NEW f \in Frames(P), f.op # "text" PROVE Silent(Append(w, f))
  BY <1>2 DEF Silent
<1>3. ASSUME NEW f \in Frames(P) PROVE OneText(Append(w, f))
  BY <1>3 DEF Silent, OneText
<1>4. OneText(w)
  BY DEF Silent, OneText
<1>. QED
  BY <1>1, <1>2, <1>3, <1>4 DEF Push

LEMMA OneTextOps ==
  ASSUME NEW P, NEW w \in Seq(Frames(P)), OneText(w)
  PROVE  /\ w # <<>> => OneText(Tail(w)) /\ (Head(w).op = "text" => Silent(Tail(w)))
         /\ \A f \in Frames(P) : f.op # "text" => OneText(Push(w, f)) /\ OneText(Append(w, f))
<1>1. ASSUME w # <<>> PROVE OneText(Tail(w))
  BY <1>1 DEF OneText
<1>2. ASSUME w # <<>>, Head(w).op = "text" PROVE Silent(Tail(w))
  <2>1. ASSUME NEW k \in DOMAIN Tail(w) PROVE Tail(w)[k].op # "text"
    <3>1. k + 1 \in DOMAIN w /\ Tail(w)[k] = w[k + 1] /\ 1 \in DOMAIN w /\ w[1].op = "text" /\ k + 1 # 1
      BY <1>2, <2>1
    <3>. QED
      BY <3>1 DEF OneText
  <2>. QED
    BY <2>1 DEF Silent
<1>3. ASSUME NEW f \in Frames(P), f.op # "text" PROVE OneText(Append(w, f))
  BY <1>3 DEF OneText
<1>. QED
  BY <1>1, <1>2, <1>3 DEF Push

LEMMA EndIsSilent == Silent(<<>>) /\ Silent(<<Eof>>) /\ OneText(<<>>) /\ OneText(<<Eof>>)
BY ControlIsNoText DEF Silent, OneText

\* The step from c to d brings no message on its way.
NoNewText(c, d) ==
  /\ Idle(c) => Idle(d)
  /\ \A t \in Sides : Carries(c, t) => Carries(d, t)

LEMMA FlowTypes ==
  ASSUME NEW P, NEW c \in Connections(P), NEW s \in Sides
  PROVE  /\ c.queue[s] \in Seq(Frames(P)) /\ c.wire[s] \in Seq(Frames(P))
         /\ c.queue[Peer(s)] \in Seq(Frames(P)) /\ c.wire[Peer(s)] \in Seq(Frames(P))
BY ConnectionFields, TwoSides

LEMMA SameFlowNoNewText == ASSUME NEW c, NEW d, SameFlow(c, d) PROVE NoNewText(c, d)
BY DEF SameFlow, NoNewText, Idle, Carries

LEMMA WritesNoNewText ==
  ASSUME NEW P, NEW c \in Connections(P), NEW d, NEW s \in Sides, Writes(c, d, s)
  PROVE  NoNewText(c, d)
<1>. DEFINE q == c.queue[s]
            f == Head(q)
<1>1. /\ q \in Seq(Frames(P)) /\ q # <<>> /\ f \in Frames(P)
      /\ \A t \in Sides : c.queue[t] \in Seq(Frames(P)) /\ c.wire[t] \in Seq(Frames(P))
  BY FlowTypes, HeadAndTail DEF Writes
<1>2. /\ \A t \in Sides : d.queue[t] = IF t = s THEN Tail(q) ELSE c.queue[t]
      /\ \A t \in Sides : d.wire[t] = IF t = s THEN c.wire[t] ELSE Push(c.wire[t], f)
  BY DEF Writes
<1>. HIDE DEF f, q
<1>3. ASSUME Idle(c) PROVE Idle(d)
  <2>1. Silent(q) /\ f.op # "text" /\ Silent(Tail(q))
    BY <1>1, <1>3, SilentOps DEF Idle, q, f
  <2>2. \A t \in Sides : Silent(Push(c.wire[t], f))
    BY <1>1, <1>3, <2>1, SilentOps DEF Idle
  <2>. QED
    BY <1>2, <1>3, <2>1, <2>2 DEF Idle
<1>4. ASSUME NEW t \in Sides, Carries(c, t), t = s PROVE Carries(d, t)
  <2>1. /\ Peer(t) \in Sides /\ Peer(t) # t
        /\ OneText(q) /\ OneText(c.wire[Peer(t)]) /\ (Silent(q) \/ Silent(c.wire[Peer(t)]))
        /\ Silent(c.queue[Peer(t)]) /\ Silent(c.wire[t])
    BY <1>4, TwoSides DEF Carries, q
  <2>2. OneText(Tail(q))
    BY <1>1, <2>1, OneTextOps
  <2>3. CASE f.op = "text"
    <3>1. Silent(Tail(q)) /\ Silent(c.wire[Peer(t)])
      BY <1>1, <2>1, <2>3, OneTextOps, SilentOps DEF f
    <3>2. OneText(Push(c.wire[Peer(t)], f))
      BY <1>1, <2>1, <3>1, SilentOps
    <3>. QED
      BY <1>2, <1>4, <2>1, <2>2, <3>1, <3>2 DEF Carries
  <2>4. CASE f.op # "text"
    <3>1. OneText(Push(c.wire[Peer(t)], f))
      BY <1>1, <2>1, <2>4, OneTextOps
    <3>2. Silent(Tail(q)) \/ Silent(Push(c.wire[Peer(t)], f))
      BY <1>1, <2>1, <2>4, SilentOps
    <3>. QED
      BY <1>2, <1>4, <2>1, <2>2, <3>1, <3>2 DEF Carries
  <2>. QED
    BY <2>3, <2>4
<1>5. ASSUME NEW t \in Sides, Carries(c, t), t # s PROVE Carries(d, t)
  <2>1. Peer(t) = s
    BY <1>5, TwoSides
  <2>2. Silent(q) /\ f.op # "text" /\ Silent(Tail(q))
    BY <1>1, <1>5, <2>1, SilentOps DEF Carries, q, f
  <2>3. Silent(Push(c.wire[t], f))
    BY <1>1, <1>5, <2>2, SilentOps DEF Carries
  <2>. QED
    BY <1>2, <1>5, <2>1, <2>2, <2>3 DEF Carries
<1>. QED
  BY <1>3, <1>4, <1>5 DEF NoNewText

LEMMA TakesNoNewText ==
  ASSUME NEW P, NEW c \in Connections(P), NEW d, NEW s \in Sides, Takes(c, d, s)
  PROVE  NoNewText(c, d)
<1>1. /\ c.wire[s] \in Seq(Frames(P)) /\ c.wire[s] # <<>>
      /\ d.queue = c.queue
      /\ \A t \in Sides : d.wire[t] = IF t = s THEN Tail(c.wire[s]) ELSE c.wire[t]
  BY FlowTypes DEF Takes
<1>2. /\ Silent(c.wire[s]) => Silent(Tail(c.wire[s]))
      /\ OneText(c.wire[s]) => OneText(Tail(c.wire[s]))
  BY <1>1, SilentOps, OneTextOps
<1>. QED
  BY <1>1, <1>2, TwoSides DEF NoNewText, Idle, Carries

LEMMA QueuesNoNewText ==
  ASSUME NEW P, NEW c \in Connections(P), NEW d, NEW s \in Sides,
         NEW f \in Frames(P), f.op # "text", Queues(c, d, s, f)
  PROVE  NoNewText(c, d)
<1>1. /\ c.queue[s] \in Seq(Frames(P))
      /\ d.wire = c.wire
      /\ \A t \in Sides : d.queue[t] = IF t = s THEN Append(c.queue[s], f) ELSE c.queue[t]
  BY FlowTypes DEF Queues
<1>2. /\ Silent(c.queue[s]) => Silent(Append(c.queue[s], f))
      /\ OneText(c.queue[s]) => OneText(Append(c.queue[s], f))
  BY <1>1, SilentOps, OneTextOps
<1>. QED
  BY <1>1, <1>2, TwoSides DEF NoNewText, Idle, Carries

LEMMA EndsNoNewText ==
  ASSUME NEW P, NEW c \in Connections(P), NEW d, NEW s \in Sides, Ends(c, d, s)
  PROVE  NoNewText(c, d)
<1>1. \A t \in Sides :
        /\ Silent(c.wire[t]) => Silent(Push(c.wire[t], Eof))
        /\ OneText(c.wire[t]) => OneText(Push(c.wire[t], Eof))
  BY FlowTypes, FrameTypes, ControlIsNoText, SilentOps, OneTextOps
<1>. QED
  BY <1>1, EndIsSilent, TwoSides DEF Ends, NoNewText, Idle, Carries

\* The library's own steps bring no message on its way.
LEMMA QuietNoNewText ==
  ASSUME NEW P, NEW c \in Connections(P), NEW s \in Sides, NEW d \in Quiet(c, s)
  PROVE  NoNewText(c, d)
<1>1. ASSUME NEW b \in Connections(P), NoNewText(c, b),
             \/ SameFlow(b, d) \/ Queues(b, d, s, Control("ack")) \/ Ends(b, d, s)
      PROVE  NoNewText(c, d)
  <2>1. NoNewText(b, d)
    BY <1>1, SameFlowNoNewText, QueuesNoNewText, EndsNoNewText, FrameTypes, ControlIsNoText
  <2>. QED
    BY <1>1, <2>1 DEF NoNewText
<1>2. ASSUME NEW b \in Connections(P), Writes(c, b, s) \/ Takes(c, b, s) PROVE NoNewText(c, b)
  BY <1>2, WritesNoNewText, TakesNoNewText
<1>3. d \in Connections(P)
  BY QuietIs
<1>4. Ends(c, d, s) => NoNewText(c, d)
  BY EndsNoNewText
<1>. QED
  BY <1>1, <1>2, <1>3, <1>4, QuietFlow

-----------------------------------------------------------------------------
(* The inductive invariant                                                 *)

LEMMA InitIInv == Init => IInv
<1> SUFFICES ASSUME Init PROVE IInv
  OBVIOUS
<1>1. /\ i = 0 /\ echoed = 0 /\ main = "connect" /\ clientLoop = "none" /\ serverLoop = "start"
      /\ con = NoConnection
  BY DEF Init
<1>2. {failed, asleep, connected_, has_error_, message_received_, clientStopped, serverStopped,
       listening, broken} \subseteq BOOLEAN
  BY Zenon DEF Init
<1>3. ~connected_ /\ ~has_error_ /\ ~failed
  BY DEF Init
<1>4. TypeOK
  BY <1>1, <1>2, IterationsAssumption, NoConnectionType DEF TypeOK
<1>5. Idle(con) /\ con.ending["client"] = "none"
  BY <1>1, EndIsSilent, TwoSides DEF Idle, NoConnection
<1>6. Handshake
  BY <1>1, <1>3, <1>5 DEF Handshake, FailedSession
<1>7. Rounds
  BY <1>1, <1>3 DEF Rounds, Playing
<1>8. InFlight
  BY <1>1, <1>5 DEF InFlight
<1>. QED
  BY <1>1, <1>4, <1>6, <1>7, <1>8 DEF IInv, CloseOwnsConnected

\* The connection after a step of the library: the client's session goes no
\* way but forward.
Forward(c, d) ==
  \/ d.state["client"] = c.state["client"] /\ d.ending["client"] = c.ending["client"]
  \/ /\ c.state["client"] = "open" /\ d.state["client"] = "closing"
     /\ d.ending["client"] = c.ending["client"]
  \/ /\ c.state["client"] \in {"connecting", "responding", "open", "closing"}
     /\ d.state["client"] = "closed"
     /\ d.ending["client"] = IF c.state["client"] \in Handshaking THEN "fail" ELSE "close"

\* A step that only moves the connection
LEMMA LibraryIInv ==
  ASSUME IInv, NEW d \in Connections(Numbers), con' = d, UNCHANGED progVars, broken' \in BOOLEAN,
         clientLoop # "none", NoNewText(con, d), Forward(con, d)
  PROVE  IInv'
<1>. USE DEF IInv, progVars
<1>1. TypeOK'
  <2>1. {failed', asleep', connected_', has_error_', message_received_', clientStopped',
         serverStopped', listening', broken'} \subseteq BOOLEAN
    BY Zenon DEF TypeOK
  <2>. QED
    BY <2>1 DEF TypeOK, Numbers
<1>2. Handshake'
  BY DEF Handshake, FailedSession, Forward, Handshaking
<1>3. Rounds'
  BY DEF Rounds, Playing
<1>4. InFlight'
  BY TwoSides DEF InFlight, NoNewText
<1>5. CloseOwnsConnected'
  BY DEF CloseOwnsConnected, Forward
<1>. QED
  BY <1>1, <1>2, <1>3, <1>4, <1>5

\* Before client_thread_ is started there is no session, and no flag is set.
LEMMA NothingYet ==
  ASSUME IInv, clientLoop = "none"
  PROVE  /\ \A s \in Sides : con.state[s] = "none" /\ con.wire[s] = <<>> /\ con.queue[s] = <<>>
         /\ ~connected_ /\ ~has_error_
BY DEF IInv, Handshake, NoConnection

\* The steps of the library and of the network, and the server's own
LEMMA ServerLibraryIInv ==
  ASSUME IInv, NEW d \in Connections(Numbers), con' = d, UNCHANGED progVars, broken' = broken,
         clientLoop # "none", NoNewText(con, d),
         d.state["client"] = con.state["client"], d.ending["client"] = con.ending["client"]
  PROVE  IInv'
<1>1. Forward(con, d) /\ broken' \in BOOLEAN
  BY DEF Forward, IInv, TypeOK
<1>. QED
  BY <1>1, LibraryIInv

LEMMA RespondNoNewText ==
  ASSUME NEW P, NEW c \in Connections(P), CanRespond(c)
  PROVE  NoNewText(c, Respond(c))
<1>. DEFINE d == Respond(c)
<1>1. /\ d.queue = c.queue
      /\ \A t \in Sides : d.wire[t] = IF t = "server" THEN Tail(c.wire["server"])
                                       ELSE Push(c.wire[t], Control("response"))
  BY RespondIs
<1>2. c.wire["server"] # <<>>
  BY DEF CanRespond, Arrived, Control
<1>3. Control("response") \in Frames(P) /\ Control("response").op # "text"
  BY FrameTypes, ControlIsNoText
<1>4. \A t \in Sides :
        /\ Silent(c.wire[t]) => Silent(Push(c.wire[t], Control("response")))
        /\ OneText(c.wire[t]) => OneText(Push(c.wire[t], Control("response")))
  BY <1>3, FlowTypes, SilentOps, OneTextOps
<1>5. /\ Silent(c.wire["server"]) => Silent(Tail(c.wire["server"]))
      /\ OneText(c.wire["server"]) => OneText(Tail(c.wire["server"]))
  BY <1>2, FlowTypes, TwoSides, SilentOps, OneTextOps
<1>. HIDE DEF d
<1>. QED
  BY <1>1, <1>4, <1>5, TwoSides DEF NoNewText, Idle, Carries, d

LEMMA OpenNoNewText ==
  ASSUME NEW P, NEW c \in Connections(P), NEW s \in Sides, CanOpen(c, s)
  PROVE  NoNewText(c, Open(c, s))
<1>. DEFINE d == Open(c, s)
<1>1. /\ d.queue = c.queue
      /\ \A t \in Sides : d.wire[t] = IF t = s /\ s = "client" THEN Tail(c.wire[s]) ELSE c.wire[t]
  BY OpenIs
<1>2. s = "client" => c.wire[s] # <<>>
  BY DEF CanOpen, Arrived, Control
<1>3. ASSUME s = "client"
      PROVE  /\ Silent(c.wire[s]) => Silent(Tail(c.wire[s]))
             /\ OneText(c.wire[s]) => OneText(Tail(c.wire[s]))
  BY <1>2, <1>3, FlowTypes, SilentOps, OneTextOps
<1>. HIDE DEF d
<1>. QED
  BY <1>1, <1>3, TwoSides DEF NoNewText, Idle, Carries, d

LEMMA LoseNoNewText ==
  ASSUME NEW P, NEW c \in Connections(P)
  PROVE  NoNewText(c, Lose(c))
BY LoseIs, EndIsSilent, TwoSides DEF NoNewText, Idle, Carries

\* A message is taken from the wire: nothing is on its way any more.
LEMMA TakenIsIdle ==
  ASSUME NEW P, NEW c \in Connections(P), NEW s \in Sides, Delivers(c, s),
         Idle(c) \/ (\E t \in Sides : Carries(c, t))
  PROVE  /\ Carries(c, Peer(s)) /\ ~Idle(c) /\ ~Carries(c, s)
         /\ Idle(Taken(c, s))
<1>1. /\ c.wire[s] \in Seq(Frames(P)) /\ c.wire[s] # <<>> /\ Head(c.wire[s]).op = "text"
  BY FlowTypes DEF Delivers, Arrived, Control
<1>2. ~Silent(c.wire[s])
  BY <1>1, SilentOps
<1>3. ~Idle(c) /\ ~Carries(c, s)
  BY <1>2 DEF Idle, Carries
<1>4. Carries(c, Peer(s)) /\ Peer(Peer(s)) = s /\ Peer(s) \in Sides /\ Sides = {s, Peer(s)}
  BY <1>3, TwoSides DEF Sides, Peer
<1>5. /\ Silent(c.queue[s]) /\ Silent(c.wire[Peer(s)]) /\ OneText(c.wire[s])
      /\ Silent(c.queue[Peer(s)])
  BY <1>2, <1>4 DEF Carries
<1>6. Silent(Tail(c.wire[s]))
  BY <1>1, <1>5, OneTextOps
<1>7. /\ Taken(c, s).queue = c.queue
      /\ \A t \in Sides : Taken(c, s).wire[t] = IF t = s THEN Tail(c.wire[s]) ELSE c.wire[t]
  BY <1>1, TakenIs
<1>. QED
  BY <1>3, <1>4, <1>5, <1>6, <1>7 DEF Idle

\* A message is sent when nothing is on its way.
LEMMA SendCarries ==
  ASSUME NEW P, NEW c \in Connections(P), NEW s \in Sides, NEW m \in P, Idle(c)
  PROVE  Carries(Send(c, s, m), s)
<1>. DEFINE d == Send(c, s, m)
<1>1. /\ d.wire = c.wire
      /\ \A t \in Sides : d.queue[t] = IF t = s THEN Append(c.queue[s], Text(m)) ELSE c.queue[t]
  BY SendIs
<1>2. OneText(Append(c.queue[s], Text(m)))
  BY FlowTypes, FrameTypes, SilentOps DEF Idle
<1>3. \A t \in Sides : OneText(c.wire[t])
  BY FlowTypes, SilentOps DEF Idle
<1>. HIDE DEF d
<1>. QED
  BY <1>1, <1>2, <1>3, TwoSides DEF Idle, Carries, d

\* The network breaks an open connection, or a timer that runs late ends it.
LEMMA DisturbanceIInv == ASSUME IInv, Disturbance PROVE IInv'
<1>1. con \in Connections(Numbers)
  BY DEF IInv, TypeOK, Numbers
<1>2. CASE Break
  <2>1. /\ Lose(con) \in Connections(Numbers) /\ NoNewText(con, Lose(con))
        /\ Forward(con, Lose(con))
    BY <1>1, LoseIs, LoseNoNewText DEF Forward
  <2>2. clientLoop # "none"
    BY <1>2, NothingYet, TwoSides DEF Break
  <2>3. con' = Lose(con) /\ UNCHANGED progVars /\ broken' \in BOOLEAN
    BY <1>2 DEF Break
  <2>. QED
    BY <2>1, <2>2, <2>3, LibraryIInv
<1>3. ASSUME NEW s \in Sides, CutByTimer(s) PROVE IInv'
  <2>. DEFINE d == Terminate(con, s)
  <2>1. con' = d /\ UNCHANGED progVars /\ broken' \in BOOLEAN /\ TimerRunsLate(con, s)
    BY <1>3 DEF CutByTimer
  <2>2. /\ d \in Connections(Numbers) /\ Ends(con, d, s)
        /\ \A t \in Sides :
             /\ d.state[t] = IF t = s THEN "closed" ELSE con.state[t]
             /\ d.ending[t] = IF t # s THEN con.ending[t]
                              ELSE IF con.state[s] \in Handshaking THEN "fail" ELSE "close"
    BY <1>1, TerminateIs DEF Ends
  <2>3. clientLoop # "none"
    BY <2>1, NothingYet DEF TimerRunsLate
  <2>. HIDE DEF d
  <2>4. Forward(con, d)
    BY <2>1, <2>2, TwoSides DEF Forward, TimerRunsLate
  <2>5. NoNewText(con, d)
    BY <1>1, <2>2, EndsNoNewText
  <2>. QED
    BY <2>1, <2>2, <2>3, <2>4, <2>5, LibraryIInv
<1>. QED
  BY <1>2, <1>3 DEF Disturbance

\* The steps of the server's event loop, but for the echo
LEMMA ServerIInv ==
  ASSUME IInv, UNCHANGED broken,
         \/ ServerListens \/ ServerAccepts \/ ServerResponds \/ ServerOpens
         \/ ServerLibrary \/ ServerLoopEnds
  PROVE  IInv'
<1>1. con \in Connections(Numbers)
  BY DEF IInv, TypeOK, Numbers
<1>2. CASE ServerListens \/ ServerLoopEnds
  <2>1. /\ serverLoop' \in {"start", "run", "ended"} /\ listening' \in BOOLEAN
        /\ UNCHANGED <<mainVars, flags, clientLoop, clientStopped, serverStopped, con, echoed>>
    BY <1>2 DEF ServerListens, ServerLoopEnds, IInv, TypeOK
  <2>2. {failed', asleep', connected_', has_error_', message_received_', clientStopped',
         serverStopped', listening', broken'} \subseteq BOOLEAN
    BY <2>1, Zenon DEF IInv, TypeOK, mainVars, flags
  <2>. QED
    BY <2>1, <2>2 DEF IInv, TypeOK, Handshake, FailedSession, Rounds, Playing, InFlight,
                      CloseOwnsConnected, mainVars, flags
<1>3. CASE ServerAccepts
  <2>. DEFINE d == Accept(con)
  <2>1. con' = d /\ UNCHANGED progVars /\ con.wire["server"] # <<>>
    BY <1>3 DEF ServerAccepts, CanAccept
  <2>2. /\ d \in Connections(Numbers) /\ d.state["client"] = con.state["client"]
        /\ d.ending = con.ending /\ SameFlow(con, d)
    BY <1>1, AcceptIs, TwoSides DEF SameFlow
  <2>3. clientLoop # "none"
    BY <2>1, NothingYet, TwoSides
  <2>. HIDE DEF d
  <2>. QED
    BY <2>1, <2>2, <2>3, SameFlowNoNewText, ServerLibraryIInv
<1>4. CASE ServerOpens
  <2>. DEFINE d == Open(con, "server")
  <2>1. con' = d /\ UNCHANGED progVars /\ CanOpen(con, "server")
    BY <1>4 DEF ServerOpens
  <2>2. /\ d \in Connections(Numbers) /\ d.state["client"] = con.state["client"]
        /\ d.ending = con.ending /\ NoNewText(con, d)
    BY <1>1, <2>1, OpenIs, OpenNoNewText, TwoSides
  <2>3. clientLoop # "none"
    BY <2>1, NothingYet, TwoSides DEF CanOpen
  <2>. HIDE DEF d
  <2>. QED
    BY <2>1, <2>2, <2>3, ServerLibraryIInv
<1>6. CASE ServerResponds
  <2>. DEFINE d == Respond(con)
  <2>1. con' = d /\ UNCHANGED progVars /\ CanRespond(con)
    BY <1>6 DEF ServerResponds
  <2>2. /\ d \in Connections(Numbers) /\ d.state["client"] = con.state["client"]
        /\ d.ending = con.ending /\ NoNewText(con, d)
    BY <1>1, <2>1, RespondIs, RespondNoNewText, TwoSides
  <2>3. clientLoop # "none"
    BY <2>1, NothingYet, TwoSides DEF CanRespond
  <2>. HIDE DEF d
  <2>. QED
    BY <2>1, <2>2, <2>3, ServerLibraryIInv
<1>5. CASE ServerLibrary
  <2>1. con' \in Quiet(con, "server") /\ UNCHANGED progVars
    BY <1>5 DEF ServerLibrary
  <2>2. /\ con' \in Connections(Numbers) /\ con'.state["client"] = con.state["client"]
        /\ con'.ending["client"] = con.ending["client"]
    BY <1>1, <2>1, QuietIs, TwoSides
  <2>3. NoNewText(con, con')
    BY <1>1, <2>1, QuietNoNewText, TwoSides
  <2>4. clientLoop # "none"
    BY <1>1, <2>1, NothingYet, QuietIsLive, TwoSides
  <2>. QED
    BY <2>1, <2>2, <2>3, <2>4, ServerLibraryIInv
<1>. QED
  BY <1>2, <1>3, <1>4, <1>5, <1>6

\* The echo: the message main waits for is with the server, and nothing else is
\* on its way.
LEMMA EchoFacts ==
  ASSUME IInv, ServerHandlesMessage
  PROVE  /\ main = "waitMessage" /\ echoed = i /\ ~message_received_
         /\ con' \in Connections(Numbers) /\ con'.state = con.state /\ con'.ending = con.ending
         /\ Carries(con', "server")
         /\ echoed' = i + 1 /\ clientLoop # "none"
         /\ UNCHANGED <<mainVars, flags, loops>>
<1>. DEFINE b == Taken(con, "server")
            m == Head(con.wire["server"]).payload
<1>1. con \in Connections(Numbers) /\ i \in Nat
  BY DEF IInv, TypeOK, Numbers
<1>2. /\ Delivers(con, "server") /\ con' = Send(b, "server", m) /\ echoed' = echoed + 1
      /\ UNCHANGED <<mainVars, flags, loops>>
  BY DEF ServerHandlesMessage
<1>3. con.wire["server"] # <<>> /\ Head(con.wire["server"]).op = "text"
  BY <1>2 DEF Delivers, Arrived, Control
<1>4. m \in Numbers
  BY <1>1, <1>3, FrameTypes, HeadAndTail, FlowTypes, TwoSides
<1>5. b \in Connections(Numbers) /\ b.state = con.state /\ b.ending = con.ending
  BY <1>1, <1>3, TakenIs, TwoSides
<1>6. Idle(con) \/ Carries(con, "client") \/ Carries(con, "server")
  BY DEF IInv, InFlight
<1>7. ~Idle(con) /\ ~Carries(con, "server") /\ Idle(b)
  BY <1>1, <1>2, <1>6, TakenIsIdle, TwoSides
<1>8. main = "waitMessage" /\ echoed = i /\ ~message_received_
  BY <1>7 DEF IInv, InFlight
<1>. HIDE DEF b, m
<1>9. /\ con' \in Connections(Numbers) /\ con'.state = con.state /\ con'.ending = con.ending
      /\ Carries(con', "server")
  BY <1>2, <1>4, <1>5, <1>7, SendIs, SendCarries, TwoSides
<1>10. clientLoop # "none"
  BY <1>2, NothingYet, TwoSides DEF Delivers
<1>. QED
  BY <1>2, <1>8, <1>9, <1>10

LEMMA EchoIInv == ASSUME IInv, ServerHandlesMessage, UNCHANGED broken PROVE IInv'
<1>. USE EchoFacts DEF mainVars, flags, loops
<1>1. i \in 0..(ITERATIONS - 1) /\ i + 1 \in 0..ITERATIONS
  BY IterationsAssumption DEF IInv, TypeOK, Rounds, Playing
<1>2. {failed', asleep', connected_', has_error_', message_received_', clientStopped',
       serverStopped', listening', broken'} \subseteq BOOLEAN
  BY Zenon DEF IInv, TypeOK
<1>3. TypeOK'
  BY <1>1, <1>2 DEF IInv, TypeOK, Numbers
<1>4. Handshake' /\ CloseOwnsConnected'
  BY DEF IInv, Handshake, FailedSession, CloseOwnsConnected
<1>5. Rounds' /\ InFlight'
  BY DEF IInv, Rounds, Playing, InFlight
<1>. QED
  BY <1>3, <1>4, <1>5 DEF IInv

\* The steps of the client's event loop
LEMMA ClientIInv == ASSUME IInv, ClientStep PROVE IInv'
<1>1. con \in Connections(Numbers) /\ broken' = broken
  BY DEF IInv, TypeOK, Numbers, ClientStep
<1>2. ASSUME connected_' \in BOOLEAN, has_error_' \in BOOLEAN,
             message_received_' \in BOOLEAN, UNCHANGED <<failed, clientStopped, serverStopped,
             listening>>, asleep' \in BOOLEAN
      PROVE  {failed', asleep', connected_', has_error_', message_received_', clientStopped',
              serverStopped', listening', broken'} \subseteq BOOLEAN
  <2>1. /\ failed' \in BOOLEAN /\ clientStopped' \in BOOLEAN /\ serverStopped' \in BOOLEAN
        /\ listening' \in BOOLEAN /\ broken' \in BOOLEAN
    BY <1>1, <1>2, Zenon DEF IInv, TypeOK
  <2>. QED
    BY <1>2, <2>1, Zenon
<1>3. /\ connected_ \in BOOLEAN /\ has_error_ \in BOOLEAN /\ message_received_ \in BOOLEAN
      /\ asleep \in BOOLEAN
  BY Zenon DEF IInv, TypeOK
<1>4. CASE ClientHandlesOpen
  <2>. DEFINE d == Open(con, "client")
  <2>1. /\ con' = d /\ CanOpen(con, "client") /\ connected_' = TRUE /\ clientLoop' = "notifyOpen"
        /\ clientLoop = "run"
        /\ UNCHANGED <<mainVars, has_error_, message_received_, clientStopped, serverLoop,
                       serverStopped, listening, echoed>>
    BY <1>4 DEF ClientHandlesOpen, ClientRuns
  <2>2. /\ d \in Connections(Numbers) /\ d.state["client"] = "open" /\ d.ending = con.ending
        /\ NoNewText(con, d)
    BY <1>1, <2>1, OpenIs, OpenNoNewText, TwoSides
  <2>. HIDE DEF d
  <2>3. con.state["client"] = "connecting"
    BY <2>1 DEF CanOpen
  <2>4. TypeOK'
    BY <1>2, <1>3, <2>1, <2>2 DEF IInv, TypeOK, Numbers, mainVars
  <2>5. Handshake'
    BY <2>1, <2>2, <2>3 DEF IInv, Handshake, FailedSession, mainVars
  <2>6. Rounds'
    BY <2>1 DEF IInv, Rounds, Playing, mainVars
  <2>7. InFlight'
    BY <2>1, <2>2, TwoSides DEF IInv, InFlight, NoNewText, mainVars
  <2>8. CloseOwnsConnected'
    BY <2>1, <2>2 DEF IInv, CloseOwnsConnected
  <2>. QED
    BY <2>4, <2>5, <2>6, <2>7, <2>8 DEF IInv
<1>5. CASE ClientHandlesEnd
  <2>. DEFINE d == Notified(con, "client")
  <2>1. /\ con' = d /\ con.ending["client"] # "none" /\ clientLoop = "run"
        /\ \/ con.ending["client"] = "fail" /\ has_error_' = TRUE /\ clientLoop' = "notifyFail"
           \/ con.ending["client"] # "fail" /\ UNCHANGED <<has_error_, clientLoop>>
        /\ UNCHANGED <<mainVars, connected_, message_received_, clientStopped, serverLoop,
                       serverStopped, listening, echoed>>
    BY <1>5 DEF ClientHandlesEnd, ClientRuns
  <2>2. /\ d \in Connections(Numbers) /\ d.state = con.state /\ d.ending["client"] = "none"
        /\ SameFlow(con, d)
    BY <1>1, NotifiedIs, TwoSides DEF SameFlow
  <2>. HIDE DEF d
  <2>3. TypeOK'
    <3>1. has_error_' \in BOOLEAN
      BY <1>3, <2>1
    <3>. QED
      BY <1>2, <1>3, <2>1, <2>2, <3>1 DEF IInv, TypeOK, Numbers, mainVars
  <2>4. Handshake'
    BY <2>1, <2>2 DEF IInv, Handshake, FailedSession, mainVars
  <2>5. Rounds'
    BY <2>1 DEF IInv, Rounds, Playing, mainVars
  <2>6. InFlight'
    BY <2>1, <2>2, SameFlowNoNewText, TwoSides DEF IInv, InFlight, NoNewText, mainVars
  <2>7. CloseOwnsConnected'
    BY <2>1, <2>2 DEF IInv, CloseOwnsConnected, mainVars
  <2>. QED
    BY <2>3, <2>4, <2>5, <2>6, <2>7 DEF IInv
<1>6. CASE ClientHandlesMessage
  <2>. DEFINE d == Taken(con, "client")
  <2>1. /\ con' = d /\ Delivers(con, "client") /\ message_received_' = TRUE
        /\ clientLoop' = "notifyMessage" /\ clientLoop = "run"
        /\ UNCHANGED <<mainVars, connected_, has_error_, clientStopped, serverLoop, serverStopped,
                       listening, echoed>>
    BY <1>6 DEF ClientHandlesMessage, ClientRuns
  <2>2. con.wire["client"] # <<>>
    BY <2>1 DEF Delivers, Arrived, Control
  <2>3. d \in Connections(Numbers) /\ d.state = con.state /\ d.ending = con.ending
    BY <1>1, <2>2, TakenIs, TwoSides
  <2>4. Idle(con) \/ Carries(con, "client") \/ Carries(con, "server")
    BY DEF IInv, InFlight
  <2>5. Idle(d) /\ ~Idle(con) /\ ~Carries(con, "client")
    BY <1>1, <2>1, <2>4, TakenIsIdle, TwoSides
  <2>. HIDE DEF d
  <2>6. TypeOK'
    BY <1>2, <1>3, <2>1, <2>3 DEF IInv, TypeOK, Numbers, mainVars
  <2>7. Handshake'
    BY <2>1, <2>3 DEF IInv, Handshake, FailedSession, mainVars
  <2>8. Rounds'
    BY <2>1 DEF IInv, Rounds, Playing, mainVars
  <2>9. InFlight'
    BY <2>1, <2>5 DEF IInv, InFlight, mainVars
  <2>10. CloseOwnsConnected'
    BY <2>1, <2>3 DEF IInv, CloseOwnsConnected, mainVars
  <2>. QED
    BY <2>6, <2>7, <2>8, <2>9, <2>10 DEF IInv
<1>7. CASE ClientNotifies \/ ClientLoopEnds
  <2>1. /\ clientLoop # "none" /\ clientLoop' \in {"run", "ended"} /\ asleep' \in BOOLEAN
        /\ UNCHANGED <<main, i, failed, flags, clientStopped, serverLoop, serverStopped,
                       listening, con, echoed>>
    BY <1>3, <1>7 DEF ClientNotifies, ClientLoopEnds, mainVars
  <2>2. TypeOK'
    BY <1>2, <1>3, <2>1 DEF IInv, TypeOK, flags
  <2>. QED
    BY <2>1, <2>2 DEF IInv, Handshake, FailedSession, Rounds, Playing, InFlight,
                      CloseOwnsConnected, flags
<1>8. CASE ClientIsRefused
  <2>. DEFINE d == Refuse(con)
  <2>1. con' = d /\ UNCHANGED progVars /\ clientLoop # "none" /\ con.state["client"] = "connecting"
    BY <1>8 DEF ClientIsRefused, ClientRuns
  <2>2. /\ d \in Connections(Numbers) /\ Ends(con, d, "client") /\ d.state["client"] = "closed"
        /\ d.ending["client"] = "fail"
    BY <1>1, <2>1, TerminateIs, TwoSides DEF Refuse, Ends, Handshaking
  <2>. HIDE DEF d
  <2>3. NoNewText(con, d) /\ Forward(con, d)
    BY <1>1, <2>1, <2>2, EndsNoNewText, TwoSides DEF Forward, Handshaking
  <2>4. broken' \in BOOLEAN
    BY <1>1 DEF IInv, TypeOK
  <2>. QED
    BY <2>1, <2>2, <2>3, <2>4, LibraryIInv
<1>9. CASE ClientLibrary
  <2>1. con' \in Quiet(con, "client") /\ UNCHANGED progVars /\ clientLoop # "none"
    BY <1>9 DEF ClientLibrary, ClientRuns
  <2>2. con' \in Connections(Numbers) /\ Forward(con, con')
    BY <1>1, <2>1, QuietIs, TwoSides DEF Forward
  <2>3. NoNewText(con, con')
    BY <1>1, <2>1, QuietNoNewText, TwoSides
  <2>4. broken' \in BOOLEAN
    BY <1>1 DEF IInv, TypeOK
  <2>. QED
    BY <2>1, <2>2, <2>3, <2>4, LibraryIInv
<1>. QED
  BY <1>4, <1>5, <1>6, <1>7, <1>8, <1>9 DEF ClientStep

\* The steps of main
LEMMA MainIInv == ASSUME IInv, MainStep PROVE IInv'
<1>1. con \in Connections(Numbers) /\ broken' = broken /\ i \in 0..ITERATIONS /\ echoed \in 0..ITERATIONS
  BY DEF IInv, TypeOK, Numbers, MainStep
<1>2. /\ connected_ \in BOOLEAN /\ has_error_ \in BOOLEAN /\ message_received_ \in BOOLEAN
      /\ asleep \in BOOLEAN /\ failed \in BOOLEAN /\ clientStopped \in BOOLEAN
      /\ serverStopped \in BOOLEAN /\ listening \in BOOLEAN /\ broken \in BOOLEAN
  BY Zenon DEF IInv, TypeOK
<1>3. ASSUME failed' \in BOOLEAN, asleep' \in BOOLEAN, connected_' \in BOOLEAN,
             has_error_' \in BOOLEAN, message_received_' \in BOOLEAN, clientStopped' \in BOOLEAN,
             serverStopped' \in BOOLEAN, listening' \in BOOLEAN
      PROVE  {failed', asleep', connected_', has_error_', message_received_', clientStopped',
              serverStopped', listening', broken'} \subseteq BOOLEAN
  BY <1>1, <1>2, <1>3, Zenon
<1>4. ASSUME NEW d \in Connections(Numbers), con' = d, i' \in 0..ITERATIONS,
             main' \in {"waitConnect", "reset", "send", "waitMessage", "close", "stopClient",
                        "joinClient", "stopServer", "joinServer", "end"},
             failed' \in BOOLEAN, asleep' \in BOOLEAN, connected_' \in BOOLEAN,
             message_received_' \in BOOLEAN, clientStopped' \in BOOLEAN, listening' \in BOOLEAN,
             serverStopped' \in BOOLEAN, clientLoop' \in {clientLoop, "run"},
             UNCHANGED <<has_error_, serverLoop, echoed>>
      PROVE  TypeOK'
  <2>1. {failed', asleep', connected_', has_error_', message_received_', clientStopped',
         serverStopped', listening', broken'} \subseteq BOOLEAN
    BY <1>2, <1>3, <1>4
  <2>. QED
    BY <1>1, <1>4, <2>1 DEF IInv, TypeOK, Numbers
<1>5. CASE MainConnects
  <2>1. main = "connect" /\ clientLoop = "none" /\ con = NoConnection /\ i = 0 /\ echoed = 0
        /\ Idle(con) /\ ~connected_ /\ ~has_error_
    BY <1>5 DEF MainConnects, IInv, Handshake, Rounds, InFlight
  <2>2. CASE Throw /\ UNCHANGED <<clientLoop, con>>
    <3>1. failed' = TRUE /\ main' = "close"
          /\ UNCHANGED <<i, asleep, flags, clientStopped, serverLoop, serverStopped, listening,
                         echoed, clientLoop, con>>
      BY <1>5, <2>2 DEF MainConnects, Throw
    <3>2. TypeOK'
      BY <1>1, <1>2, <1>4, <3>1 DEF flags
    <3>. QED
      BY <2>1, <3>1, <3>2 DEF IInv, Handshake, FailedSession, Rounds, Playing, InFlight,
                              CloseOwnsConnected, flags
  <2>3. CASE main' = "waitConnect" /\ clientLoop' = "run" /\ con' = Connect(con) /\ UNCHANGED failed
    <3>. DEFINE d == Connect(con)
    <3>1. /\ con' = d
          /\ UNCHANGED <<i, asleep, flags, clientStopped, serverLoop, serverStopped, listening,
                         echoed>>
      BY <1>5, <2>3 DEF MainConnects
    <3>2. /\ d \in Connections(Numbers) /\ d.queue = con.queue /\ d.ending = con.ending
          /\ d.state["client"] = "connecting"
          /\ \A t \in Sides : d.wire[t] = IF t = "server" THEN <<Control("request")>> ELSE con.wire[t]
      BY <1>1, ConnectIs, TwoSides
    <3>. HIDE DEF d
    <3>3. con.ending["client"] = "none"
      BY <2>1, TwoSides DEF NoConnection
    <3>4. Idle(d)
      <4>1. Silent(<<Control("request")>>)
        BY ControlIsNoText DEF Silent
      <4>. QED
        BY <2>1, <3>2, <4>1 DEF Idle
    <3>5. TypeOK'
      BY <1>1, <1>2, <1>4, <2>3, <3>1, <3>2 DEF flags
    <3>6. Handshake'
      BY <2>1, <2>3, <3>1, <3>2, <3>3 DEF Handshake, FailedSession, flags
    <3>7. Rounds' /\ InFlight' /\ CloseOwnsConnected'
      BY <2>1, <2>3, <3>1, <3>4 DEF IInv, Rounds, Playing, InFlight, CloseOwnsConnected
    <3>. QED
      BY <3>5, <3>6, <3>7 DEF IInv
  <2>. QED
    BY <1>5, <2>2, <2>3 DEF MainConnects
<1>6. CASE Blocks("waitConnect", ConnectDone) \/ Blocks("waitMessage", MessageDone)
  <2>1. asleep' = TRUE /\ UNCHANGED <<main, i, failed, flags, loops, con, echoed>> /\ main # "connect"
    BY <1>6 DEF Blocks
  <2>2. TypeOK'
    <3>1. main' \in {"waitConnect", "waitMessage"}
      BY <1>6, <2>1 DEF Blocks
    <3>. QED
      BY <1>1, <1>2, <1>4, <2>1, <3>1 DEF flags, loops
  <2>. QED
    BY <2>1, <2>2 DEF IInv, Handshake, FailedSession, Rounds, Playing, InFlight,
                      CloseOwnsConnected, flags, loops
<1>7. CASE MainConnected
  <2>1. /\ main = "waitConnect" /\ (connected_ \/ has_error_)
        /\ \/ has_error_ /\ failed' = TRUE /\ main' = "close"
           \/ connected_ /\ main' = "reset" /\ failed' = failed
        /\ UNCHANGED <<i, asleep, flags, loops, con, echoed>>
    BY <1>7 DEF MainConnected, ConnectDone, ConnectFailed, Throw
  <2>2. TypeOK'
    BY <1>1, <1>2, <1>4, <2>1 DEF flags, loops
  <2>3. Handshake' /\ CloseOwnsConnected'
    BY <2>1 DEF IInv, Handshake, FailedSession, CloseOwnsConnected, flags, loops
  <2>4. Rounds'
    <3>1. i = 0 /\ 0 < ITERATIONS /\ ~failed
      BY <2>1, IterationsAssumption DEF IInv, Rounds
    <3>. QED
      BY <2>1, <3>1 DEF Rounds, Playing, flags
  <2>5. InFlight'
    BY <2>1 DEF IInv, InFlight, flags
  <2>. QED
    BY <2>2, <2>3, <2>4, <2>5 DEF IInv
<1>8. CASE MainResets
  <2>1. main = "reset" /\ connected_ /\ ~has_error_
    BY <1>8 DEF MainResets, IInv, Rounds, Playing, Handshake, FailedSession
  <2>2. /\ message_received_' = FALSE /\ main' = "send"
        /\ UNCHANGED <<i, asleep, connected_, has_error_, loops, con, echoed, failed>>
    BY <1>8, <2>1 DEF MainResets, BeforeSend
  <2>3. TypeOK'
    BY <1>1, <1>2, <1>4, <2>2 DEF loops
  <2>. QED
    BY <2>1, <2>2, <2>3 DEF IInv, Handshake, FailedSession, Rounds, Playing, InFlight,
                            CloseOwnsConnected, loops
<1>9. CASE MainSends
  <2>1. /\ main = "send" /\ Idle(con) /\ echoed = i /\ ~message_received_ /\ connected_
        /\ i \in Numbers
        /\ UNCHANGED <<i, asleep, flags, loops, echoed>>
    BY <1>1, <1>9, IterationsAssumption DEF MainSends, IInv, InFlight, Rounds, Playing, Numbers
  <2>2. CASE CanSend(con, "client", i)
    <3>. DEFINE d == Send(con, "client", i)
    <3>1. con' = d /\ main' = "waitMessage" /\ UNCHANGED failed
      BY <1>9, <2>2 DEF MainSends
    <3>2. /\ d \in Connections(Numbers) /\ d.state = con.state /\ d.ending = con.ending
          /\ Carries(d, "client")
      BY <1>1, <2>1, SendIs, SendCarries, TwoSides
    <3>. HIDE DEF d
    <3>3. TypeOK'
      BY <1>1, <1>2, <1>4, <2>1, <3>1, <3>2 DEF flags, loops
    <3>4. clientLoop # "none"
      BY <2>1, NothingYet
    <3>5. Handshake'
      BY <2>1, <3>1, <3>2, <3>4 DEF IInv, Handshake, FailedSession, flags, loops
    <3>6. Rounds' /\ InFlight' /\ CloseOwnsConnected'
      BY <2>1, <3>1, <3>2 DEF IInv, Rounds, Playing, InFlight, CloseOwnsConnected, flags, loops
    <3>. QED
      BY <3>3, <3>5, <3>6 DEF IInv
  <2>3. CASE ~CanSend(con, "client", i)
    <3>1. failed' = TRUE /\ main' = "close" /\ UNCHANGED con
      BY <1>9, <2>3 DEF MainSends, Throw
    <3>2. TypeOK'
      BY <1>1, <1>2, <1>4, <2>1, <3>1 DEF flags, loops
    <3>. QED
      BY <2>1, <3>1, <3>2 DEF IInv, Handshake, FailedSession, Rounds, Playing, InFlight,
                              CloseOwnsConnected, flags, loops
  <2>. QED
    BY <2>2, <2>3
<1>10. CASE MainReceives
  <2>1. /\ main = "waitMessage" /\ connected_ /\ ~has_error_ /\ message_received_
        /\ i < ITERATIONS /\ ~failed
    BY <1>10 DEF MainReceives, MessageDone, IInv, Rounds, Playing, Handshake, FailedSession
  <2>2. /\ i' = i + 1 /\ main' = IF i' < ITERATIONS THEN "reset" ELSE "close"
        /\ UNCHANGED <<failed, asleep, flags, loops, con, echoed>>
    BY <1>10, <2>1 DEF MainReceives, InLoop
  <2>3. Idle(con) /\ echoed = i + 1
    BY <2>1 DEF IInv, InFlight
  <2>4. /\ i' \in 0..ITERATIONS
        /\ \/ main' = "reset" /\ i' < ITERATIONS
           \/ main' = "close" /\ i' = ITERATIONS
    <3>1. ITERATIONS \in Nat /\ i \in Nat /\ i < ITERATIONS /\ i' = i + 1
      BY <1>1, <2>1, <2>2, IterationsAssumption
    <3>2. CASE i' < ITERATIONS
      BY <2>2, <3>1, <3>2
    <3>3. CASE ~(i' < ITERATIONS)
      BY <2>2, <3>1, <3>3
    <3>. QED
      BY <3>2, <3>3
  <2>5. TypeOK'
    BY <1>1, <1>2, <1>4, <2>2, <2>4 DEF flags, loops
  <2>. QED
    BY <2>1, <2>2, <2>3, <2>4, <2>5 DEF IInv, Handshake, FailedSession, Rounds, Playing, InFlight,
                                        CloseOwnsConnected, flags, loops
<1>11. CASE MainCloses
  <2>1. /\ main = "close" /\ main' = "stopClient" /\ connected_' = FALSE
        /\ UNCHANGED <<i, failed, asleep, has_error_, message_received_, loops, echoed>>
    BY <1>11 DEF MainCloses
  <2>2. PICK d \in Connections(Numbers) :
          /\ con' = d /\ d.ending = con.ending /\ NoNewText(con, d)
          /\ \/ d = con
             \/ con.state["client"] = "open" /\ d.state["client"] = "closing" /\ clientLoop # "none"
    <3>1. CASE connected_ /\ CanClose(con, "client")
      <4>. DEFINE d == Close(con, "client")
      <4>1. con' = d /\ con.state["client"] = "open" /\ clientLoop # "none"
        BY <1>11, <3>1, NothingYet DEF MainCloses, CanClose
      <4>2. /\ d \in Connections(Numbers) /\ d.ending = con.ending /\ d.state["client"] = "closing"
            /\ Queues(con, d, "client", Control("close"))
        BY <1>1, CloseIs, TwoSides
      <4>. HIDE DEF d
      <4>3. NoNewText(con, d)
        <5>1. Control("close") \in Frames(Numbers) /\ Control("close").op # "text"
          BY FrameTypes, ControlIsNoText
        <5>. QED
          BY <1>1, <4>2, <5>1, QueuesNoNewText, TwoSides
      <4>. QED
        BY <4>1, <4>2, <4>3
    <3>2. CASE ~(connected_ /\ CanClose(con, "client"))
      <4>1. con' = con
        BY <1>11, <3>2 DEF MainCloses
      <4>. QED
        BY <1>1, <4>1 DEF NoNewText
    <3>. QED
      BY <3>1, <3>2
  <2>3. TypeOK'
    BY <1>1, <1>2, <1>4, <2>1, <2>2 DEF loops
  <2>4. Handshake' /\ CloseOwnsConnected'
    BY <2>1, <2>2 DEF IInv, Handshake, FailedSession, CloseOwnsConnected, loops
  <2>5. Rounds' /\ InFlight'
    BY <2>1, <2>2 DEF IInv, Rounds, Playing, InFlight, NoNewText, loops
  <2>. QED
    BY <2>3, <2>4, <2>5 DEF IInv
<1>12. CASE MainStopsClient \/ MainJoinsClient \/ MainStopsServer \/ MainJoinsServer
  <2>1. /\ main \in {"stopClient", "joinClient", "stopServer", "joinServer"}
        /\ main' \in {"joinClient", "stopServer", "joinServer", "end"}
        /\ clientStopped' \in {clientStopped, TRUE} /\ serverStopped' \in {serverStopped, TRUE}
        /\ listening' \in {listening, FALSE}
        /\ UNCHANGED <<i, failed, asleep, flags, clientLoop, serverLoop, con, echoed>>
    BY <1>12 DEF MainStopsClient, MainJoinsClient, MainStopsServer, MainJoinsServer, loops
  <2>2. TypeOK'
    BY <1>1, <1>2, <1>4, <2>1 DEF flags
  <2>. QED
    BY <2>1, <2>2 DEF IInv, Handshake, FailedSession, Rounds, Playing, InFlight,
                      CloseOwnsConnected, flags
<1>. QED
  BY <1>5, <1>6, <1>7, <1>8, <1>9, <1>10, <1>11, <1>12 DEF MainStep

LEMMA NextIInv == IInv /\ [Next]_vars => IInv'
<1>. SUFFICES ASSUME IInv, [Next]_vars PROVE IInv'
  OBVIOUS
<1>1. CASE ServerStep
  BY <1>1, ServerIInv, EchoIInv DEF ServerStep
<1>2. CASE SpuriousWakeup
  <2>1. asleep' = FALSE /\ UNCHANGED <<main, i, failed, flags, loops, con, echoed, broken>>
    BY <1>2 DEF SpuriousWakeup
  <2>2. {failed', asleep', connected_', has_error_', message_received_', clientStopped',
         serverStopped', listening', broken'} \subseteq BOOLEAN
    BY <2>1, Zenon DEF IInv, TypeOK, flags, loops
  <2>. QED
    BY <2>1, <2>2 DEF IInv, TypeOK, Handshake, FailedSession, Rounds, Playing, InFlight,
                      CloseOwnsConnected, flags, loops
<1>3. CASE UNCHANGED vars
  BY <1>3 DEF IInv, TypeOK, Handshake, FailedSession, Rounds, Playing, InFlight,
              CloseOwnsConnected, vars, progVars
<1>. QED
  BY <1>1, <1>2, <1>3, MainIInv, ClientIInv, DisturbanceIInv DEF Next

\* The handshake, the rounds and the one message on its way, in every reachable
\* state.
THEOREM WsInvariant == Spec => []IInv
BY InitIInv, NextIInv, PTL DEF Spec

-----------------------------------------------------------------------------
(* The properties                                                          *)

\* Every variable of the benchmark stays in its range, and main plays no more
\* rounds than it measures, for any number of them.
THEOREM WsTyping == Spec => []TypeOK
<1>1. IInv => TypeOK
  BY DEF IInv
<1>. QED
  BY <1>1, WsInvariant, PTL

\* The open and the fail handler exclude each other: send_and_wait never finds
\* has_error_ set.
THEOREM ErrorComesBeforeConnected == Spec => []NoErrorOnceConnected
<1>1. IInv => NoErrorOnceConnected
  BY DEF IInv, Handshake, FailedSession, Rounds, Playing, NoErrorOnceConnected
<1>. QED
  BY <1>1, WsInvariant, PTL

\* While close reads and writes connected_ without the mutex, the open handler
\* has run or will never run.
THEOREM CloseHasConnectedAlone == Spec => []CloseOwnsConnected
<1>1. IInv => CloseOwnsConnected
  BY DEF IInv
<1>. QED
  BY <1>1, WsInvariant, PTL

LEMMA InitRally == Init => Rally!Init
<1>. SUFFICES ASSUME Init PROVE Rally!Init
  OBVIOUS
<1>. QED
  BY DEF Init, Rally!Init

\* A step of main is a ping when it sends, the end when it has joined the server
\* after the last round, and no event of the rally otherwise.
LEMMA MainRally == ASSUME IInv, MainStep PROVE [Rally!Next]_(Rally!vars)
<1>1. i \in Nat /\ echoed \in Nat /\ ITERATIONS \in Nat
  BY IterationsAssumption DEF IInv, TypeOK
<1>2. CASE MainSends
  <2>1. main = "send" /\ echoed = i /\ i < ITERATIONS /\ UNCHANGED <<i, echoed>>
    BY <1>2 DEF MainSends, IInv, InFlight, Rounds, Playing
  <2>2. main' = "waitMessage" \/ main' = "close"
    BY <1>2 DEF MainSends, Throw
  <2>3. main' = "close" => failed'
    BY <1>2 DEF MainSends, Throw
  <2>. QED
    BY <1>1, <2>1, <2>2, <2>3 DEF Rally!Next, Rally!Ping, Rally!vars
<1>3. CASE MainReceives
  <2>1. main = "waitMessage" /\ ~has_error_
    BY <1>3 DEF MainReceives, IInv, Rounds, Playing, Handshake, FailedSession
  <2>2. i' = i + 1 /\ main' \in {"reset", "close"} /\ echoed' = echoed
    BY <1>3, <2>1 DEF MainReceives
  <2>. QED
    BY <1>1, <2>1, <2>2 DEF Rally!vars
<1>4. CASE MainJoinsServer
  <2>1. main = "joinServer" /\ main' = "end" /\ UNCHANGED <<i, echoed, failed>>
    BY <1>4 DEF MainJoinsServer
  <2>2. echoed = i /\ (i = ITERATIONS \/ failed)
    BY <2>1 DEF IInv, InFlight, Rounds, Playing
  <2>. QED
    BY <1>1, <2>1, <2>2 DEF Rally!Next, Rally!Stop, Rally!vars
<1>5. CASE \/ MainConnects \/ MainConnected \/ MainResets \/ MainCloses
           \/ MainStopsClient \/ MainJoinsClient \/ MainStopsServer
  <2>1. /\ main \notin {"waitMessage", "end"} /\ main' \notin {"waitMessage", "end"}
        /\ UNCHANGED <<i, echoed>>
    BY <1>5 DEF MainConnects, MainConnected, MainResets, MainCloses, MainStopsClient,
                MainJoinsClient, MainStopsServer, Throw
  <2>. QED
    BY <1>1, <2>1 DEF Rally!vars
<1>6. CASE Blocks("waitConnect", ConnectDone) \/ Blocks("waitMessage", MessageDone)
  BY <1>6 DEF Blocks, Rally!vars
<1>. QED
  BY <1>2, <1>3, <1>4, <1>5, <1>6 DEF MainStep

LEMMA NextRally == IInv /\ [Next]_vars => [Rally!Next]_(Rally!vars)
<1>. SUFFICES ASSUME IInv, [Next]_vars PROVE [Rally!Next]_(Rally!vars)
  OBVIOUS
<1>1. CASE ServerHandlesMessage
  <2>1. main = "waitMessage" /\ echoed = i /\ echoed' = i + 1 /\ UNCHANGED <<main, i, failed>>
    BY <1>1, EchoFacts DEF mainVars
  <2>2. i \in Nat
    BY DEF IInv, TypeOK
  <2>. QED
    BY <2>1, <2>2 DEF Rally!Next, Rally!Pong, Rally!vars
<1>2. CASE \/ ServerListens \/ ServerAccepts \/ ServerResponds \/ ServerOpens \/ ServerLibrary
           \/ ServerLoopEnds \/ ClientStep \/ Disturbance \/ SpuriousWakeup \/ UNCHANGED vars
  <2>1. UNCHANGED <<main, i, failed, echoed>>
    BY <1>2 DEF ServerListens, ServerAccepts, ServerResponds, ServerOpens, ServerLibrary,
                ServerLoopEnds, ClientStep, ClientHandlesOpen, ClientHandlesEnd, ClientHandlesMessage,
                ClientNotifies, ClientIsRefused, ClientLibrary, ClientLoopEnds,
                Disturbance, Break, CutByTimer, SpuriousWakeup, vars, progVars, mainVars
  <2>. QED
    BY <2>1 DEF Rally!vars
<1>. QED
  BY <1>1, <1>2, MainRally DEF Next, ServerStep

\* The rounds main measures are a strict ping-pong: a send, the server's echo
\* of it, and the next send.
THEOREM WsRoundsAlternate == Spec => Alternates
BY InitRally, NextRally, WsInvariant, PTL DEF Spec, Alternates, Rally!SafeSpec

=============================================================================
