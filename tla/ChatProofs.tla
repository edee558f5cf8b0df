----------------------------- MODULE ChatProofs ------------------------------
(***************************************************************************)
(* The chat server's bookkeeping, the clean exit of a console, the order   *)
(* of the echoes and the buttons of the test page, for any number of       *)
(* clients, texts and clicks.                                              *)
(***************************************************************************)
EXTENDS Chat, TestPage, WsConnectionProofs, TLAPS

-----------------------------------------------------------------------------
(* The life of a console whose connection does not break                   *)

LEMMA PlainOps ==
  ASSUME NEW P, NEW w \in Seq(Frames(P)), Plain(w)
  PROVE  /\ w # <<>> => Plain(Tail(w)) /\ Head(w).op = "text" /\ Head(w).payload # Exit
         /\ \A f \in Frames(P) : f.op = "text" /\ f.payload # Exit =>
              Plain(Push(w, f)) /\ Plain(Append(w, f))
<1>1. ASSUME w # <<>> PROVE Plain(Tail(w)) /\ Head(w).op = "text" /\ Head(w).payload # Exit
  BY <1>1 DEF Plain, PlainText
<1>2. ASSUME NEW f \in Frames(P), f.op = "text", f.payload # Exit
      PROVE  Plain(Append(w, f))
  BY <1>2 DEF Plain, PlainText
<1>3. Eof.op # "text"
  BY DEF Eof, Control
<1>4. w # <<>> => w[Len(w)] # Eof
  BY <1>3 DEF Plain, PlainText
<1>. QED
  BY <1>1, <1>2, <1>4 DEF Push

\* What a plain stream delivers
LEMMA PlainArrived ==
  ASSUME NEW P, NEW c \in Connections(P), NEW s \in Sides, Plain(c.wire[s])
  PROVE  /\ Arrived(c, s).op \notin {"request", "response", "close", "ack", "eof"}
         /\ Arrived(c, s) # Eof
         /\ Arrived(c, s).op = "text" => Arrived(c, s) = Head(c.wire[s]) /\ c.wire[s] # <<>>
<1>1. c.wire[s] \in Seq(Frames(P))
  BY ConnectionFields
<1>2. CASE c.wire[s] = <<>>
  BY <1>2 DEF Arrived, Control, Eof
<1>3. CASE c.wire[s] # <<>>
  BY <1>1, <1>3, PlainOps DEF Arrived, Control, Eof
<1>. QED
  BY <1>2, <1>3

\* Writing is all the library does by itself while the two sides talk.
LEMMA TalkWrites ==
  ASSUME NEW c \in Connections(Payloads), NEW a, NEW n, Talking(c, a, n),
         NEW s \in Sides, NEW d \in Quiet(c, s)
  PROVE  Talking(d, a, n)
<1> USE DEF Talking
<1>1. ~Drops(c, s) /\ ~CanReadClose(c, s) /\ ~ReadsEof(c, s) /\ ~HasTimer(c, s)
  <2>1. c.state[s] \in {"responding", "open"}
    BY DEF Sides
  <2>. QED
    BY <2>1, PlainArrived DEF Drops, CanReadClose, ReadsEof, HasTimer
<1>2. CanWrite(c, s) /\ d = Write(c, s)
  BY <1>1 DEF Quiet
<1>3. c.queue[s] # <<>> /\ c.queue[s] \in Seq(Frames(Payloads))
  BY <1>2, ConnectionFields DEF CanWrite
<1>. DEFINE f == Head(c.queue[s])
<1>4. f \in Frames(Payloads) /\ f.op = "text" /\ f.payload # Exit /\ Plain(Tail(c.queue[s]))
  BY <1>3, HeadAndTail, PlainOps
<1>5. ~Terminal(s, f)
  BY <1>4 DEF Terminal
<1>6. d = Written(c, s)
  BY <1>2, <1>5, Zenon DEF Write, Written
<1>7. /\ d.state = c.state /\ d.ending = c.ending
      /\ \A t \in Sides : d.queue[t] = IF t = s THEN Tail(c.queue[s]) ELSE c.queue[t]
      /\ \A t \in Sides : d.wire[t] = IF t = s THEN c.wire[t] ELSE Push(c.wire[t], f)
  BY <1>3, <1>6, WrittenIs
<1>8. \A t \in Sides : Plain(Push(c.wire[t], f))
  <2>1. \A t \in Sides : c.wire[t] \in Seq(Frames(Payloads))
    BY ConnectionFields
  <2>. QED
    BY <1>4, <2>1, PlainOps
<1>. HIDE DEF f
<1>. QED
  BY <1>4, <1>7, <1>8

LEMMA ServerKeepsCalm ==
  ASSUME NEW c \in Connections(Payloads), NEW a, NEW n, Calm(c, a, n), NEW d \in Quiet(c, "server")
  PROVE  Calm(d, a, n)
<1> USE TwoSides
<1>1. CASE Unstarted(c, a, n)
  <2>1. c.state["server"] = "none"
    BY <1>1 DEF Unstarted, NoConnection
  <2>. QED
    BY <2>1 DEF Quiet, CanWrite, Drops, CanReadClose, ReadsEof, HasTimer, Live
<1>2. CASE Shaking(c, a, n)
  <2>1. ~CanWrite(c, "server") /\ ~Drops(c, "server")
    BY <1>2 DEF Shaking, CanWrite, Drops, Arrived, Control
  <2>2. c.state["server"] \in {"responding", "open"} => c.wire["server"] = <<>>
    BY <1>2 DEF Shaking
  <2>3. ~CanReadClose(c, "server")
    BY <1>2, <2>2 DEF Shaking, CanReadClose, Arrived, Control
  <2>4. c.state["server"] = "connecting" /\ d = Terminate(c, "server")
    <3>1. c.state["server"] \in {"responding", "open"} => Arrived(c, "server") # Eof
      BY <2>2 DEF Arrived, Control, Eof
    <3>. QED
      BY <1>2, <2>1, <2>3, <3>1 DEF Quiet, ReadsEof, HasTimer, Live, Shaking
  <2>5. /\ d.state["server"] = "closed" /\ d.state["client"] = "connecting"
        /\ d.ending["client"] = "none"
        /\ d.queue["client"] = <<>> /\ d.queue["server"] = <<>>
        /\ d.wire["server"] = <<Eof>> /\ d.wire["client"] = Push(<<>>, Eof)
    BY <1>2, <2>4, TerminateIs DEF Shaking
  <2>6. Push(<<>>, Eof) = <<Eof>>
    BY DEF Push
  <2>. QED
    BY <1>2, <2>5, <2>6 DEF Shaking, Calm
<1>3. CASE Talking(c, a, n)
  BY <1>3, TalkWrites DEF Calm
<1>4. CASE Over(c, a, n)
  BY <1>4, QuietIs DEF Calm, Over
<1>5. CASE Garbled(c, a)
  BY <1>5, QuietIs DEF Calm, Garbled
<1>. QED
  BY <1>1, <1>2, <1>3, <1>4, <1>5 DEF Calm

LEMMA ClientKeepsCalm ==
  ASSUME NEW c \in Connections(Payloads), NEW a, NEW n, a = "run", Calm(c, a, n),
         NEW d \in Quiet(c, "client")
  PROVE  Calm(d, a, n)
<1> USE TwoSides
<1>1. CASE Unstarted(c, a, n)
  <2>1. c.state["client"] = "none"
    BY <1>1 DEF Unstarted, NoConnection
  <2>. QED
    BY <2>1 DEF Quiet, CanWrite, Drops, CanReadClose, ReadsEof, HasTimer, Live
<1>2. CASE Shaking(c, a, n)
  <2>1. c.state["client"] = "connecting" /\ ~CanWrite(c, "client")
    BY <1>2 DEF Shaking, CanWrite
  <2>2. d = Terminate(c, "client")
    BY <2>1 DEF Quiet, Drops, CanReadClose
  <2>3. d.state["client"] = "closed"
    BY <2>2, TerminateIs
  <2>. QED
    BY <1>2, <2>3 DEF Shaking, Over, Calm
<1>3. CASE Talking(c, a, n)
  BY <1>3, TalkWrites DEF Calm
<1>4. CASE Over(c, a, n)
  BY <1>4, QuietIs DEF Calm, Over
<1>. QED
  BY <1>1, <1>2, <1>3, <1>4 DEF Calm, Garbled

\* The handshake: the server's response, its open handler, and the client's, which
\* starts the input thread.
LEMMA RespondKeepsCalm ==
  ASSUME NEW c \in Connections(Payloads), NEW a, NEW n, Calm(c, a, n), CanRespond(c)
  PROVE  Calm(Respond(c), a, n)
<1> USE TwoSides
<1>. DEFINE d == Respond(c)
<1>1. c.state["server"] = "connecting"
  BY DEF CanRespond
<1>2. /\ d.ending = c.ending /\ d.queue = c.queue
      /\ d.state["server"] = "responding" /\ d.state["client"] = c.state["client"]
      /\ d.wire["server"] = Tail(c.wire["server"])
      /\ d.wire["client"] = Push(c.wire["client"], Control("response"))
  BY RespondIs
<1>. HIDE DEF d
<1>3. ~Unstarted(c, a, n) /\ ~Talking(c, a, n)
  BY <1>1 DEF Unstarted, NoConnection, Talking
<1>4. ASSUME Shaking(c, a, n) PROVE Shaking(d, a, n)
  <2>1. c.wire["server"] = <<Control("request")>> /\ c.wire["client"] = <<>>
    BY <1>1, <1>4 DEF Shaking
  <2>2. Tail(<<Control("request")>>) = <<>> /\ Push(<<>>, Control("response")) = <<Control("response")>>
    BY DEF Push
  <2>3. d.wire["server"] = <<>> /\ d.wire["client"] = <<Control("response")>>
    BY <1>2, <2>1, <2>2
  <2>. QED
    BY <1>2, <1>4, <2>3 DEF Shaking
<1>5. Over(c, a, n) => Over(d, a, n)
  BY <1>2 DEF Over
<1>6. Garbled(c, a) => Garbled(d, a)
  BY <1>2 DEF Garbled
<1>. QED
  BY <1>3, <1>4, <1>5, <1>6 DEF Calm, d

LEMMA OpensKeepCalm ==
  ASSUME NEW c \in Connections(Payloads), NEW a, NEW n, Calm(c, a, n), NEW s \in Sides, CanOpen(c, s)
  PROVE  IF s = "server" THEN Calm(Open(c, s), a, n)
         ELSE a = "run" => Calm(Open(c, s), a, "reading")
<1> USE TwoSides
<1>. DEFINE d == Open(c, s)
<1>1. c.state[s] = IF s = "server" THEN "responding" ELSE "connecting"
  BY DEF CanOpen
<1>2. /\ d.ending = c.ending /\ d.queue = c.queue
      /\ \A t \in Sides : d.state[t] = IF t = s THEN "open" ELSE c.state[t]
      /\ \A t \in Sides : d.wire[t] = IF t = s /\ s = "client" THEN Tail(c.wire[s]) ELSE c.wire[t]
  BY OpenIs
<1>. HIDE DEF d
<1>3. CASE Unstarted(c, a, n)
  BY <1>1, <1>3 DEF Unstarted, NoConnection, Sides
<1>4. CASE Shaking(c, a, n)
  <2>1. CASE s = "server"
    BY <1>1, <1>2, <1>4, <2>1 DEF Shaking, Calm, d
  <2>2. CASE s = "client"
    <3>1. Arrived(c, "client").op = "response"
      BY <2>2 DEF CanOpen
    <3>2. c.wire["client"] # <<>> /\ c.wire["client"] # <<Eof>>
      BY <3>1 DEF Arrived, Control, Eof
    <3>3. /\ c.state["server"] \in {"responding", "open"}
          /\ c.wire["server"] = <<>> /\ c.wire["client"] = <<Control("response")>>
      BY <1>4, <3>2 DEF Shaking
    <3>4. d.wire["server"] = <<>> /\ d.wire["client"] = <<>>
      BY <1>2, <2>2, <3>3
    <3>5. Plain(<<>>)
      BY DEF Plain, PlainText
    <3>6. /\ d.state["client"] = "open" /\ d.state["server"] \in {"responding", "open"}
          /\ \A t \in Sides : Plain(d.queue[t]) /\ Plain(d.wire[t])
      BY <1>2, <1>4, <2>2, <3>3, <3>4, <3>5 DEF Shaking, Sides
    <3>. QED
      BY <1>2, <1>4, <2>2, <3>6 DEF Shaking, Talking, Calm, d
  <2>. QED
    BY <2>1, <2>2 DEF Sides
<1>5. CASE Talking(c, a, n)
  BY <1>1, <1>2, <1>5 DEF Talking, Calm, Sides, d
<1>6. CASE Over(c, a, n)
  BY <1>1, <1>2, <1>6 DEF Over, Calm, Sides, d
<1>7. CASE Garbled(c, a)
  BY <1>1, <1>2, <1>7 DEF Garbled, Calm, Sides, d
<1>. QED
  BY <1>3, <1>4, <1>5, <1>6, <1>7 DEF Calm

\* A message of a console that talks: the server echoes it, for it is not exit.
LEMMA EchoKeepsCalm ==
  ASSUME NEW c \in Connections(Payloads), NEW a, NEW n, Calm(c, a, n), Delivers(c, "server"),
         NEW m, m = Head(c.wire["server"]).payload
  PROVE  /\ Talking(c, a, n) \/ Over(c, a, n) \/ Garbled(c, a)
         /\ Talking(c, a, n) => m # Exit /\ Talking(Send(Taken(c, "server"), "server", m), a, n)
<1> USE TwoSides
<1>. DEFINE b == Taken(c, "server")
            d == Send(b, "server", m)
<1>1. c.state["server"] = "open" /\ c.wire["server"] # <<>> /\ Head(c.wire["server"]).op = "text"
  BY DEF Delivers, Arrived, Control
<1>2. Talking(c, a, n) \/ Over(c, a, n) \/ Garbled(c, a)
  BY <1>1 DEF Calm, Unstarted, NoConnection, Shaking
<1>3. ASSUME Talking(c, a, n) PROVE m # Exit /\ Talking(d, a, n)
  <2>1. c.wire["server"] \in Seq(Frames(Payloads)) /\ Plain(c.wire["server"])
    BY <1>3, ConnectionFields DEF Talking
  <2>2. m # Exit /\ Plain(Tail(c.wire["server"]))
    BY <1>1, <2>1, PlainOps
  <2>3. m \in Payloads
    BY <1>1, <2>1, HeadAndTail, FrameTypes
  <2>4. Text(m) \in Frames(Payloads) /\ Text(m).op = "text" /\ Text(m).payload # Exit
    BY <2>2, <2>3, FrameTypes DEF Text
  <2>5. /\ b \in Connections(Payloads)
        /\ b.state = c.state /\ b.queue = c.queue /\ b.ending = c.ending
        /\ \A t \in Sides : b.wire[t] = IF t = "server" THEN Tail(c.wire["server"]) ELSE c.wire[t]
    BY <1>1, TakenIs
  <2>. HIDE DEF b
  <2>6. /\ d.state = b.state /\ d.wire = b.wire /\ d.ending = b.ending
        /\ \A t \in Sides : d.queue[t] = IF t = "server" THEN Append(b.queue["server"], Text(m))
                                                          ELSE b.queue[t]
    BY <2>3, <2>5, SendIs
  <2>7. Plain(Append(c.queue["server"], Text(m)))
    BY <1>3, <2>4, PlainOps, ConnectionFields DEF Talking
  <2>. HIDE DEF d
  <2>8. Talking(d, a, n)
    BY <1>3, <2>2, <2>5, <2>6, <2>7 DEF Talking
  <2>. QED
    BY <2>2, <2>8 DEF d, b
<1>. QED
  BY <1>2, <1>3 DEF d, b

\* An echo that a console hears
LEMMA HearingKeepsCalm ==
  ASSUME NEW c \in Connections(Payloads), NEW a, NEW n, a = "run", Calm(c, a, n),
         Delivers(c, "client")
  PROVE  Calm(Taken(c, "client"), a, n)
<1> USE TwoSides
<1>1. c.state["client"] = "open" /\ c.wire["client"] # <<>>
  BY DEF Delivers, Arrived, Control
<1>2. Talking(c, a, n)
  BY <1>1 DEF Calm, Unstarted, NoConnection, Shaking, Over, Garbled
<1>3. c.wire["client"] \in Seq(Frames(Payloads)) /\ Plain(Tail(c.wire["client"]))
  BY <1>1, <1>2, ConnectionFields, PlainOps DEF Talking
<1>. DEFINE b == Taken(c, "client")
<1>4. /\ b.state = c.state /\ b.queue = c.queue /\ b.ending = c.ending
      /\ \A t \in Sides : b.wire[t] = IF t = "client" THEN Tail(c.wire["client"]) ELSE c.wire[t]
  BY <1>1, TakenIs
<1>. HIDE DEF b
<1>5. Talking(b, a, n)
  BY <1>2, <1>3, <1>4 DEF Talking
<1>. QED
  BY <1>5 DEF b, Calm

\* A line of the user: the connection is open, and the thread goes on or ends, or
\* the process dies of a line that is not UTF-8.
LEMMA TypingKeepsCalm ==
  ASSUME NEW c \in Connections(Payloads), NEW a, NEW n, a = "run", Calm(c, a, n), n = "reading"
  PROVE  /\ CanClose(c, "client")
         /\ \A m : CanSend(c, "client", m) <=> m # Invalid
         /\ Calm(Close(c, "client"), a, "ended")
         /\ Calm(Lose(c), "crashed", n)
         /\ \A m \in Payloads \ {Exit} : Calm(Send(c, "client", m), a, n)
<1> USE TwoSides
<1>1. Talking(c, a, n)
  BY DEF Calm, Unstarted, Shaking, Over, Garbled
<1>2. CanClose(c, "client") /\ \A m : CanSend(c, "client", m) <=> m # Invalid
  BY <1>1 DEF Talking, CanSend, CanClose
<1>6. Calm(Lose(c), "crashed", n)
  BY <1>1, LoseIs DEF Talking, Calm, Garbled
<1>3. Close(c, "client").state["client"] = "closing"
  BY CloseIs
<1>4. Calm(Close(c, "client"), a, "ended")
  BY <1>1, <1>3 DEF Calm, Over, Talking
<1>5. ASSUME NEW m \in Payloads \ {Exit} PROVE Talking(Send(c, "client", m), a, n)
  <2>. DEFINE d == Send(c, "client", m)
  <2>1. Text(m) \in Frames(Payloads) /\ Text(m).op = "text" /\ Text(m).payload # Exit
    BY <1>5, FrameTypes DEF Text
  <2>2. /\ d.state = c.state /\ d.wire = c.wire /\ d.ending = c.ending
        /\ \A t \in Sides : d.queue[t] = IF t = "client" THEN Append(c.queue["client"], Text(m))
                                                          ELSE c.queue[t]
    BY SendIs
  <2>3. Plain(Append(c.queue["client"], Text(m)))
    BY <1>1, <2>1, PlainOps, ConnectionFields DEF Talking
  <2>. HIDE DEF d
  <2>4. Talking(d, a, n)
    BY <1>1, <2>2, <2>3 DEF Talking
  <2>. QED
    BY <2>4 DEF d
<1>. QED
  BY <1>2, <1>4, <1>5, <1>6 DEF Calm

-----------------------------------------------------------------------------
(* The invariant                                                           *)

LEMMA InitIInv == Init => IInv
<1>. SUFFICES ASSUME Init PROVE IInv
  OBVIOUS
<1>1. Shapes
  BY NoConnectionType, ChatAssumption DEF Init, Shapes
<1>2. \A c \in Clients : con[c] = NoConnection
  BY DEF Init
<1>3. ~Session(NoConnection) /\ EndsOnce(NoConnection)
  BY TwoSides DEF Session, EndsOnce, NoConnection
<1>4. ConnectionsAreSessions
  BY <1>2, <1>3 DEF Init, ConnectionsAreSessions
<1>5. \A c \in Consoles : Calm(con[c], app[c], input[c])
  BY <1>2 DEF Init, Clients, Calm, Unstarted
<1>. QED
  BY <1>1, <1>2, <1>3, <1>4, <1>5 DEF IInv, ServerSurvives, Init, Clients

\* A step changes the connection of one client, and no more than this client's
\* part of everything else.
LEMMA OneClient ==
  ASSUME IInv, NEW c \in Clients, NEW d \in Connections(Payloads), Put(c, d),
         server' = server,
         connections' = IF Session(d) THEN connections \cup {c} ELSE connections \ {c},
         broken' = broken \/ broken' = broken \cup {c},
         app' \in [Clients -> {"off", "run", "ended", "crashed"}],
         input' \in [Clients -> {"none", "reading", "ended"}],
         texts' \in [Clients -> 0..MaxTexts],
         \A x \in Clients : x # c => app'[x] = app[x] /\ input'[x] = input[x],
         EndsOnce(d),
         c \in Consoles \ broken' => Calm(d, app'[c], input'[c])
  PROVE  IInv'
<1>1. /\ con \in [Clients -> Connections(Payloads)]
      /\ connections \subseteq Clients /\ broken \subseteq Clients
  BY DEF IInv, Shapes
<1>2. \A x \in Clients : con'[x] = IF x = c THEN d ELSE con[x]
  BY <1>1 DEF Put
<1>3. Shapes'
  BY <1>1 DEF Put, Shapes, Payloads
<1>4. ConnectionsAreSessions'
  BY <1>1, <1>2 DEF IInv, ConnectionsAreSessions
<1>5. \A x \in Clients : EndsOnce(con'[x])
  BY <1>2 DEF IInv
<1>6. \A x \in Consoles \ broken' : Calm(con'[x], app'[x], input'[x])
  BY <1>2 DEF IInv, Clients
<1>. QED
  BY <1>3, <1>4, <1>5, <1>6 DEF IInv, ServerSurvives

\* What the invariant says of one client
LEMMA AboutOne ==
  ASSUME IInv, NEW c \in Clients
  PROVE  /\ con[c] \in Connections(Payloads)
         /\ c \in connections <=> Session(con[c])
         /\ EndsOnce(con[c])
         /\ c \in Consoles \ broken => Calm(con[c], app[c], input[c])
         /\ server = "run"
         /\ app \in [Clients -> {"off", "run", "ended", "crashed"}]
         /\ input \in [Clients -> {"none", "reading", "ended"}]
         /\ texts \in [Clients -> 0..MaxTexts]
BY DEF IInv, Shapes, ConnectionsAreSessions, ServerSurvives

\* A step of the client's side leaves the server's session as it is.
LEMMA ClientSide ==
  ASSUME IInv, NEW c \in Clients, NEW d \in Connections(Payloads), Put(c, d),
         UNCHANGED <<connections, server>>,
         d.state["server"] = con[c].state["server"], d.ending["server"] = con[c].ending["server"],
         broken' = broken \/ broken' = broken \cup {c},
         app' \in [Clients -> {"off", "run", "ended", "crashed"}],
         input' \in [Clients -> {"none", "reading", "ended"}],
         texts' \in [Clients -> 0..MaxTexts],
         \A x \in Clients : x # c => app'[x] = app[x] /\ input'[x] = input[x],
         c \in Consoles \ broken' => Calm(d, app'[c], input'[c])
  PROVE  IInv'
<1>1. /\ Session(d) <=> Session(con[c])
      /\ EndsOnce(d) <=> EndsOnce(con[c])
  BY DEF Session, EndsOnce
<1>2. EndsOnce(d) /\ (c \in connections <=> Session(d)) /\ connections' = connections
  BY <1>1, AboutOne
<1>3. connections' = IF Session(d) THEN connections \cup {c} ELSE connections \ {c}
  BY <1>2
<1>. QED
  BY <1>2, <1>3, OneClient

LEMMA ServerStepIInv ==
  ASSUME IInv, NEW c \in Clients, ServerStep(c)
  PROVE  IInv'
<1> USE TwoSides
<1>. DEFINE k == con[c]
<1>1. /\ k \in Connections(Payloads)
      /\ c \in connections <=> Session(k)
      /\ EndsOnce(k)
      /\ c \in Consoles \ broken => Calm(k, app[c], input[c])
      /\ app \in [Clients -> {"off", "run", "ended", "crashed"}]
      /\ input \in [Clients -> {"none", "reading", "ended"}]
      /\ texts \in [Clients -> 0..MaxTexts]
      /\ k.state["server"] \in {"none", "connecting", "responding", "open", "closing", "closed"}
      /\ k.ending["server"] \in {"none", "fail", "close"}
  BY AboutOne, ConnectionFields
<1>. HIDE DEF k
<1>2. ASSUME NEW d \in Connections(Payloads), Put(c, d), server' = server,
             UNCHANGED <<app, input, texts, broken>>,
             connections' = IF Session(d) THEN connections \cup {c} ELSE connections \ {c},
             EndsOnce(d), Calm(k, app[c], input[c]) => Calm(d, app[c], input[c])
      PROVE  IInv'
  BY <1>1, <1>2, OneClient
<1>3. CASE ServerOpens(c)
  <2>. DEFINE d == Open(k, "server")
  <2>1. CanOpen(k, "server") /\ k.state["server"] = "responding"
    BY <1>3 DEF ServerOpens, CanOpen, k
  <2>2. d \in Connections(Payloads) /\ d.state["server"] = "open" /\ d.ending = k.ending
    BY <1>1, <2>1, OpenIs
  <2>3. Calm(k, app[c], input[c]) => Calm(d, app[c], input[c])
    BY <1>1, <2>1, OpensKeepCalm
  <2>. HIDE DEF d
  <2>4. Session(d) /\ EndsOnce(d)
    BY <1>1, <2>1, <2>2 DEF Session, EndsOnce
  <2>5. Put(c, d)
    BY <1>3 DEF ServerOpens, d, k
  <2>. QED
    BY <1>2, <1>3, <2>2, <2>3, <2>4, <2>5 DEF ServerOpens, Inserted
<1>4. CASE ServerHandlesEnd(c)
  <2>. DEFINE d == Notified(k, "server")
  <2>1. k.ending["server"] # "none" /\ k.state["server"] = "closed"
    BY <1>1, <1>4 DEF ServerHandlesEnd, EndsOnce, k
  <2>2. /\ d \in Connections(Payloads) /\ d.state = k.state /\ d.queue = k.queue /\ d.wire = k.wire
        /\ d.ending["server"] = "none" /\ d.ending["client"] = k.ending["client"]
    BY <1>1, NotifiedIs
  <2>. HIDE DEF d
  <2>3. ~Session(d) /\ EndsOnce(d)
    BY <2>1, <2>2 DEF Session, EndsOnce
  <2>4. connections' = connections \ {c}
    BY <1>1, <1>4, <2>1 DEF ServerHandlesEnd, Erased, Session, k
  <2>5. Calm(k, app[c], input[c]) => Calm(d, app[c], input[c])
    <3>1. ~Unstarted(k, app[c], input[c]) /\ ~Talking(k, app[c], input[c])
      BY <2>1 DEF Unstarted, NoConnection, Talking
    <3>2. Shaking(k, app[c], input[c]) => Shaking(d, app[c], input[c])
      BY <2>2 DEF Shaking
    <3>3. Over(k, app[c], input[c]) => Over(d, app[c], input[c])
      BY <2>2 DEF Over
    <3>4. Garbled(k, app[c]) => Garbled(d, app[c])
      BY <2>2 DEF Garbled
    <3>. QED
      BY <3>1, <3>2, <3>3, <3>4 DEF Calm
  <2>6. Put(c, d)
    BY <1>4 DEF ServerHandlesEnd, d, k
  <2>. QED
    BY <1>2, <1>4, <2>2, <2>3, <2>4, <2>5, <2>6 DEF ServerHandlesEnd
<1>5. CASE ServerHandlesMessage(c)
  <2>. DEFINE b == Taken(k, "server")
              m == Head(k.wire["server"]).payload
  <2>1. Delivers(k, "server")
    BY <1>5 DEF ServerHandlesMessage, k
  <2>2. k.state["server"] = "open" /\ k.wire["server"] # <<>> /\ Head(k.wire["server"]).op = "text"
    BY <2>1 DEF Delivers, Arrived, Control
  <2>3. m \in Payloads
    BY <1>1, <2>2, ConnectionFields, HeadAndTail, FrameTypes
  <2>4. b \in Connections(Payloads) /\ b.state = k.state /\ b.ending = k.ending
    BY <1>1, <2>2, TakenIs
  <2>5. Calm(k, app[c], input[c]) =>
          /\ Talking(k, app[c], input[c]) \/ Over(k, app[c], input[c]) \/ Garbled(k, app[c])
          /\ Talking(k, app[c], input[c]) => m # Exit /\ Talking(Send(b, "server", m), app[c], input[c])
    BY <1>1, <2>1, EchoKeepsCalm
  <2>6. CanClose(b, "server") /\ CanSend(b, "server", m)
    <3>1. m # Invalid
      BY <2>3, ChatAssumption DEF Payloads
    <3>. QED
      BY <2>2, <2>4, <3>1 DEF CanClose, CanSend
  <2>7. CASE m = Exit
    <3>. DEFINE d == Close(b, "server")
    <3>1. Put(c, d) /\ server' = server
      BY <1>5, <2>6, <2>7 DEF ServerHandlesMessage, k
    <3>. HIDE DEF b
    <3>2. /\ d \in Connections(Payloads) /\ d.ending = k.ending
          /\ d.state["server"] = "closing" /\ d.state["client"] = k.state["client"]
      BY <2>4, CloseIs
    <3>. HIDE DEF d
    <3>3. Session(d) /\ Session(k) /\ EndsOnce(d)
      BY <1>1, <2>2, <3>2 DEF Session, EndsOnce
    <3>4. Calm(k, app[c], input[c]) => Calm(d, app[c], input[c])
      BY <2>5, <2>7, <3>2 DEF Calm, Over, Garbled
    <3>5. connections' = connections \cup {c}
      BY <1>1, <1>5, <3>3 DEF ServerHandlesMessage
    <3>. QED
      BY <1>2, <1>5, <3>1, <3>2, <3>3, <3>4, <3>5 DEF ServerHandlesMessage
  <2>8. CASE m # Exit
    <3>. DEFINE d == Send(b, "server", m)
    <3>1. Put(c, d) /\ server' = server
      BY <1>5, <2>6, <2>8 DEF ServerHandlesMessage, k
    <3>. HIDE DEF b, m
    <3>2. d \in Connections(Payloads) /\ d.ending = k.ending /\ d.state = k.state
      BY <2>3, <2>4, SendIs
    <3>. HIDE DEF d
    <3>3. Session(d) /\ Session(k) /\ EndsOnce(d)
      BY <1>1, <2>2, <3>2 DEF Session, EndsOnce
    <3>4. Calm(k, app[c], input[c]) => Calm(d, app[c], input[c])
      BY <2>5, <3>2 DEF Calm, Over, Garbled, d
    <3>5. connections' = connections \cup {c}
      BY <1>1, <1>5, <3>3 DEF ServerHandlesMessage
    <3>. QED
      BY <1>2, <1>5, <3>1, <3>2, <3>3, <3>4, <3>5 DEF ServerHandlesMessage
  <2>. QED
    BY <2>7, <2>8
<1>6. CASE ServerLibrary(c)
  <2>1. UNCHANGED <<connections, server, app, input, texts, broken>>
    BY <1>6 DEF ServerLibrary
  <2>2. ASSUME NEW d \in Quiet(k, "server"), Put(c, d) PROVE IInv'
    <3>1. /\ d \in Connections(Payloads)
          /\ \/ d.state["server"] = k.state["server"] /\ d.ending["server"] = k.ending["server"]
             \/ /\ k.state["server"] = "open" /\ d.state["server"] = "closing"
                /\ d.ending["server"] = k.ending["server"]
             \/ /\ k.state["server"] \in {"connecting", "responding", "open", "closing"}
                /\ d.state["server"] = "closed"
                /\ d.ending["server"] = IF k.state["server"] \in Handshaking THEN "fail" ELSE "close"
      BY <1>1, <2>2, QuietIs
    <3>2. EndsOnce(d) /\ (Session(d) <=> Session(k))
      BY <1>1, <3>1 DEF EndsOnce, Session, Handshaking
    <3>3. Calm(k, app[c], input[c]) => Calm(d, app[c], input[c])
      BY <1>1, <2>2, ServerKeepsCalm
    <3>4. connections' = IF Session(d) THEN connections \cup {c} ELSE connections \ {c}
      BY <1>1, <2>1, <3>2
    <3>. QED
      BY <1>2, <2>1, <2>2, <3>1, <3>2, <3>3, <3>4
  <2>3. ASSUME CanAccept(k), Put(c, Accept(k)) PROVE IInv'
    <3>. DEFINE d == Accept(k)
    <3>1. k.state["server"] = "none" /\ k.wire["server"] # <<>>
      BY <2>3 DEF CanAccept
    <3>2. /\ d \in Connections(Payloads)
          /\ d.queue = k.queue /\ d.wire = k.wire /\ d.ending = k.ending
          /\ d.state["server"] = "connecting" /\ d.state["client"] = k.state["client"]
      BY <1>1, AcceptIs
    <3>. HIDE DEF d
    <3>3. EndsOnce(d) /\ ~Session(d) /\ ~Session(k)
      BY <1>1, <3>1, <3>2 DEF EndsOnce, Session
    <3>4. Calm(k, app[c], input[c]) => Calm(d, app[c], input[c])
      <4>1. ~Unstarted(k, app[c], input[c]) /\ ~Talking(k, app[c], input[c])
        BY <3>1 DEF Unstarted, NoConnection, Talking
      <4>2. Shaking(k, app[c], input[c]) => Shaking(d, app[c], input[c])
        BY <3>1, <3>2 DEF Shaking
      <4>3. Over(k, app[c], input[c]) => Over(d, app[c], input[c])
        BY <3>2 DEF Over
      <4>4. Garbled(k, app[c]) => Garbled(d, app[c])
        BY <3>2 DEF Garbled
      <4>. QED
        BY <4>1, <4>2, <4>3, <4>4 DEF Calm
    <3>5. connections' = IF Session(d) THEN connections \cup {c} ELSE connections \ {c}
      BY <1>1, <2>1, <3>3
    <3>6. Put(c, d)
      BY <2>3 DEF d
    <3>. QED
      BY <1>2, <2>1, <3>2, <3>3, <3>4, <3>5, <3>6
  <2>4. ASSUME CanRespond(k), Put(c, Respond(k)) PROVE IInv'
    <3>. DEFINE d == Respond(k)
    <3>1. k.state["server"] = "connecting"
      BY <2>4 DEF CanRespond
    <3>2. d \in Connections(Payloads) /\ d.ending = k.ending /\ d.state["server"] = "responding"
      BY <1>1, <2>4, RespondIs
    <3>3. Calm(k, app[c], input[c]) => Calm(d, app[c], input[c])
      BY <1>1, <2>4, RespondKeepsCalm
    <3>. HIDE DEF d
    <3>4. EndsOnce(d) /\ ~Session(d) /\ ~Session(k)
      BY <1>1, <3>1, <3>2 DEF EndsOnce, Session
    <3>5. connections' = IF Session(d) THEN connections \cup {c} ELSE connections \ {c}
      BY <1>1, <2>1, <3>4
    <3>6. Put(c, d)
      BY <2>4 DEF d
    <3>. QED
      BY <1>2, <2>1, <3>2, <3>3, <3>4, <3>5, <3>6
  <2>. QED
    BY <1>6, <2>2, <2>3, <2>4 DEF ServerLibrary, k
<1>. QED
  BY <1>3, <1>4, <1>5, <1>6 DEF ServerStep

LEMMA ClientStepIInv ==
  ASSUME IInv, NEW c \in Clients, ClientStep(c)
  PROVE  IInv'
<1> USE TwoSides
<1>. DEFINE k == con[c]
<1>1. /\ k \in Connections(Payloads)
      /\ c \in Consoles \ broken => Calm(k, app[c], input[c])
      /\ app \in [Clients -> {"off", "run", "ended", "crashed"}]
      /\ input \in [Clients -> {"none", "reading", "ended"}]
      /\ texts \in [Clients -> 0..MaxTexts]
  BY AboutOne
<1>. HIDE DEF k
<1>2. ASSUME NEW d \in Connections(Payloads), Put(c, d),
             UNCHANGED <<connections, server, app, input, texts, broken>>,
             d.state["server"] = k.state["server"], d.ending["server"] = k.ending["server"],
             Calm(k, app[c], input[c]) => Calm(d, app[c], input[c])
      PROVE  IInv'
  BY <1>1, <1>2, ClientSide DEF k
<1>3. CASE ClientOpens(c)
  <2>. DEFINE d == Open(k, "client")
  <2>1. CanOpen(k, "client") /\ app[c] = "run"
    BY <1>3 DEF ClientOpens, k
  <2>2. d \in Connections(Payloads) /\ d.state["server"] = k.state["server"] /\ d.ending = k.ending
    BY <1>1, <2>1, OpenIs
  <2>3. Calm(k, app[c], input[c]) => Calm(d, app[c], "reading")
    BY <1>1, <2>1, OpensKeepCalm
  <2>4. Put(c, d)
    BY <1>3 DEF ClientOpens, k
  <2>. HIDE DEF d
  <2>5. /\ input' \in [Clients -> {"none", "reading", "ended"}]
        /\ \A x \in Clients : x # c => input'[x] = input[x]
        /\ c \in Consoles => input'[c] = "reading"
    BY <1>1, <1>3 DEF ClientOpens
  <2>. QED
    BY <1>1, <1>3, <2>2, <2>3, <2>4, <2>5, ClientSide DEF ClientOpens, k
<1>4. CASE ClientHandlesMessage(c)
  <2>. DEFINE d == Taken(k, "client")
  <2>1. Delivers(k, "client") /\ k.wire["client"] # <<>>
    BY <1>4 DEF ClientHandlesMessage, Delivers, Arrived, Control, k
  <2>2. d \in Connections(Payloads) /\ d.state = k.state /\ d.ending = k.ending
    BY <1>1, <2>1, TakenIs
  <2>5. app[c] = "run"
    BY <1>4 DEF ClientHandlesMessage
  <2>3. Calm(k, app[c], input[c]) => Calm(d, app[c], input[c])
    BY <1>1, <2>1, <2>5, HearingKeepsCalm
  <2>4. Put(c, d)
    BY <1>4 DEF ClientHandlesMessage, k
  <2>. HIDE DEF d
  <2>. QED
    BY <1>2, <1>4, <2>2, <2>3, <2>4 DEF ClientHandlesMessage
<1>5. CASE ClientLibrary(c)
  <2>1. UNCHANGED <<connections, server, app, input, texts, broken>> /\ app[c] = "run"
    BY <1>5 DEF ClientLibrary
  <2>2. ASSUME NEW d \in Quiet(k, "client"), Put(c, d) PROVE IInv'
    <3>1. /\ d \in Connections(Payloads)
          /\ d.state["server"] = k.state["server"] /\ d.ending["server"] = k.ending["server"]
      BY <1>1, QuietIs
    <3>2. Calm(k, app[c], input[c]) => Calm(d, app[c], input[c])
      BY <1>1, <2>1, ClientKeepsCalm
    <3>. QED
      BY <1>2, <2>1, <2>2, <3>1, <3>2
  <2>3. ASSUME k.state["client"] = "connecting", Put(c, Refuse(k)) PROVE IInv'
    <3>. DEFINE d == Refuse(k)
    <3>1. /\ d \in Connections(Payloads)
          /\ d.state["server"] = k.state["server"] /\ d.ending["server"] = k.ending["server"]
          /\ d.state["client"] = "closed"
      BY <1>1, TerminateIs DEF Refuse
    <3>. HIDE DEF d
    <3>2. Calm(k, app[c], input[c]) => Calm(d, app[c], input[c])
      <4>1. Calm(k, app[c], input[c]) => Shaking(k, app[c], input[c])
        BY <2>1, <2>3 DEF Calm, Unstarted, NoConnection, Talking, Over, Garbled
      <4>. QED
        BY <3>1, <4>1 DEF Calm, Shaking, Over
    <3>3. Put(c, d)
      BY <2>3 DEF d
    <3>. QED
      BY <1>2, <2>1, <3>1, <3>2, <3>3
  <2>4. ASSUME k.ending["client"] # "none", Put(c, Notified(k, "client")) PROVE IInv'
    <3>. DEFINE d == Notified(k, "client")
    <3>1. /\ d \in Connections(Payloads)
          /\ d.state = k.state /\ d.ending["server"] = k.ending["server"]
      BY <1>1, NotifiedIs
    <3>. HIDE DEF d
    <3>2. Calm(k, app[c], input[c]) => Calm(d, app[c], input[c])
      <4>1. Calm(k, app[c], input[c]) => Over(k, app[c], input[c])
        BY <2>1, <2>4 DEF Calm, Unstarted, NoConnection, Talking, Shaking, Garbled
      <4>. QED
        BY <3>1, <4>1 DEF Calm, Over
    <3>3. Put(c, d)
      BY <2>4 DEF d
    <3>. QED
      BY <1>2, <2>1, <3>1, <3>2, <3>3
  <2>. QED
    BY <1>5, <2>2, <2>3, <2>4 DEF ClientLibrary, k
<1>6. CASE ClientEnds(c)
  <2>1. /\ k.state["client"] = "closed" /\ app[c] = "run"
        /\ UNCHANGED <<con, connections, server, input, texts, broken>>
        /\ app' = [app EXCEPT ![c] = "ended"]
    BY <1>6 DEF ClientEnds, k
  <2>2. Calm(k, app[c], input[c]) => Over(k, app[c], input[c])
    BY <2>1 DEF Calm, Unstarted, NoConnection, Talking, Shaking, Garbled
  <2>3. Put(c, k)
    BY <2>1 DEF Put, k, IInv, Shapes
  <2>4. /\ app' \in [Clients -> {"off", "run", "ended", "crashed"}] /\ app'[c] = "ended"
        /\ \A x \in Clients : x # c => app'[x] = app[x]
    BY <1>1, <2>1
  <2>5. c \in Consoles \ broken' => Calm(k, app'[c], input'[c])
    BY <1>1, <2>1, <2>2, <2>4 DEF Calm, Over
  <2>. QED
    BY <1>1, <2>1, <2>3, <2>4, <2>5, ClientSide DEF k
<1>. QED
  BY <1>3, <1>4, <1>5, <1>6 DEF ClientStep

LEMMA UserStepIInv ==
  ASSUME IInv, NEW c \in Clients, UserStep(c) \/ Disturbance(c)
  PROVE  IInv'
<1> USE TwoSides
<1>. DEFINE k == con[c]
<1>1. /\ k \in Connections(Payloads)
      /\ c \in Consoles \ broken => Calm(k, app[c], input[c])
      /\ app \in [Clients -> {"off", "run", "ended", "crashed"}]
      /\ input \in [Clients -> {"none", "reading", "ended"}]
      /\ texts \in [Clients -> 0..MaxTexts] /\ texts[c] \in 0..MaxTexts
  BY AboutOne
<1>2. /\ MaxTexts \in Nat /\ MaxLines \in 0..MaxTexts /\ Exit \notin Nat /\ Invalid \notin Nat
      /\ c \in Pages => c \notin Consoles
  BY ChatAssumption
<1>. HIDE DEF k
<1>3. CASE ClientStarts(c)
  <2>. DEFINE d == Connect(k)
  <2>1. /\ app[c] = "off" /\ app' = [app EXCEPT ![c] = "run"] /\ Put(c, d)
        /\ UNCHANGED <<connections, server, input, texts, broken>>
    BY <1>3 DEF ClientStarts, k
  <2>2. /\ d \in Connections(Payloads) /\ d.queue = k.queue /\ d.ending = k.ending
        /\ d.state["server"] = k.state["server"] /\ d.state["client"] = "connecting"
        /\ d.wire["server"] = <<Control("request")>> /\ d.wire["client"] = k.wire["client"]
    BY <1>1, ConnectIs
  <2>. HIDE DEF d
  <2>3. /\ app' \in [Clients -> {"off", "run", "ended", "crashed"}] /\ app'[c] = "run"
        /\ \A x \in Clients : x # c => app'[x] = app[x]
    BY <1>1, <2>1
  <2>4. Calm(k, app[c], input[c]) => Calm(d, "run", input[c])
    <3>1. Calm(k, app[c], input[c]) => k = NoConnection /\ input[c] = "none"
      BY <2>1 DEF Calm, Unstarted, Shaking, Talking, Over, Garbled
    <3>2. /\ NoConnection.state["server"] = "none" /\ NoConnection.ending["client"] = "none"
          /\ NoConnection.queue["server"] = <<>> /\ NoConnection.queue["client"] = <<>>
          /\ NoConnection.wire["client"] = <<>>
      BY DEF NoConnection
    <3>. QED
      BY <2>2, <3>1, <3>2 DEF Calm, Shaking
  <2>. QED
    BY <1>1, <2>1, <2>2, <2>3, <2>4, ClientSide DEF k
<1>4. ASSUME Crash(c), c \in Consoles, app[c] = "run", input[c] = "reading",
             UNCHANGED <<connections, server, broken>>
      PROVE  IInv'
  <2>. DEFINE d == Lose(k)
  <2>1. c \notin broken => Calm(d, "crashed", input[c])
    BY <1>1, <1>4, TypingKeepsCalm
  <2>2. d \in Connections(Payloads) /\ d.state = k.state /\ d.ending = k.ending
    BY <1>1, LoseIs
  <2>3. Put(c, d) /\ app' = [app EXCEPT ![c] = "crashed"] /\ UNCHANGED <<input, texts>>
    BY <1>4 DEF Crash, k
  <2>. HIDE DEF d
  <2>4. /\ app' \in [Clients -> {"off", "run", "ended", "crashed"}] /\ app'[c] = "crashed"
        /\ \A x \in Clients : x # c => app'[x] = app[x]
    BY <1>1, <2>3
  <2>. QED
    BY <1>1, <1>4, <2>1, <2>2, <2>3, <2>4, ClientSide DEF k
<1>5. CASE c \in Consoles /\ ConsoleTypesExit(c)
  <2>1. app[c] = "run" /\ input[c] = "reading" /\ UNCHANGED <<connections, server, broken>>
    BY <1>5 DEF ConsoleTypesExit
  <2>2. CASE CanClose(k, "client")
    <3>. DEFINE d == Close(k, "client")
    <3>1. Put(c, d) /\ input' = [input EXCEPT ![c] = "ended"] /\ UNCHANGED <<app, texts>>
      BY <1>5, <2>2 DEF ConsoleTypesExit, AfterExit, k
    <3>2. d \in Connections(Payloads) /\ d.state["server"] = k.state["server"] /\ d.ending = k.ending
      BY <1>1, CloseIs
    <3>3. Calm(k, app[c], input[c]) => Calm(d, app[c], "ended")
      BY <1>1, <2>1, TypingKeepsCalm
    <3>. HIDE DEF d
    <3>4. /\ input' \in [Clients -> {"none", "reading", "ended"}] /\ input'[c] = "ended"
          /\ \A x \in Clients : x # c => input'[x] = input[x]
      BY <1>1, <3>1
    <3>. QED
      BY <1>1, <2>1, <3>1, <3>2, <3>3, <3>4, ClientSide DEF k
  <2>3. CASE ~CanClose(k, "client")
    <3>1. Crash(c)
      BY <1>5, <2>3 DEF ConsoleTypesExit, k
    <3>. QED
      BY <1>4, <1>5, <2>1, <3>1
  <2>. QED
    BY <2>2, <2>3
<1>6. CASE c \in Consoles /\ ConsoleTypesText(c)
  <2>1. /\ app[c] = "run" /\ input[c] = "reading" /\ texts[c] < MaxTexts
        /\ UNCHANGED <<connections, server, broken>>
    BY <1>1, <1>2, <1>6 DEF ConsoleTypesText
  <2>2. PICK m \in {texts[c] + 1, Invalid} :
          IF CanSend(k, "client", m)
            THEN /\ texts' = [texts EXCEPT ![c] = m]
                 /\ Put(c, Send(k, "client", m))
                 /\ UNCHANGED <<app, input>>
            ELSE Crash(c)
    BY <1>6 DEF ConsoleTypesText, k
  <2>3. CASE CanSend(k, "client", m)
    <3>. DEFINE d == Send(k, "client", m)
    <3>1. texts' = [texts EXCEPT ![c] = m] /\ Put(c, d) /\ UNCHANGED <<app, input>>
      BY <2>2, <2>3
    <3>2. m = texts[c] + 1
      BY <2>3 DEF CanSend
    <3>3. texts' \in [Clients -> 0..MaxTexts] /\ m \in Payloads \ {Exit}
      BY <1>1, <1>2, <2>1, <3>1, <3>2 DEF Payloads
    <3>4. d \in Connections(Payloads) /\ d.state = k.state /\ d.ending = k.ending
      BY <1>1, <3>3, SendIs
    <3>5. Calm(k, app[c], input[c]) => Calm(d, app[c], input[c])
      BY <1>1, <2>1, <3>3, TypingKeepsCalm
    <3>. HIDE DEF d
    <3>. QED
      BY <1>1, <2>1, <3>1, <3>3, <3>4, <3>5, ClientSide DEF k
  <2>4. CASE ~CanSend(k, "client", m)
    BY <1>4, <1>6, <2>1, <2>2, <2>4
  <2>. QED
    BY <2>3, <2>4
<1>7. CASE c \in Pages /\ PageSends(c)
  <2>1. PICK m \in {texts[c] + 1, Exit} : Put(c, Send(k, "client", m))
    BY <1>7 DEF PageSends, k
  <2>2. /\ texts[c] < MaxTexts /\ texts' = [texts EXCEPT ![c] = @ + 1]
        /\ UNCHANGED <<connections, server, app, input, broken>>
    BY <1>7 DEF PageSends
  <2>3. texts' \in [Clients -> 0..MaxTexts] /\ m \in Payloads
    BY <1>1, <1>2, <2>1, <2>2 DEF Payloads
  <2>. DEFINE d == Send(k, "client", m)
  <2>4. d \in Connections(Payloads) /\ d.state = k.state /\ d.ending = k.ending
    BY <1>1, <2>3, SendIs
  <2>5. Put(c, d)
    BY <2>1
  <2>. HIDE DEF d
  <2>. QED
    BY <1>1, <1>2, <1>7, <2>2, <2>3, <2>4, <2>5, ClientSide DEF k
<1>8. CASE c \in Pages /\ PageDisconnects(c)
  <2>. DEFINE d == Close(k, "client")
  <2>1. Put(c, d) /\ UNCHANGED <<connections, server, app, input, texts, broken>>
    BY <1>8 DEF PageDisconnects, k
  <2>2. d \in Connections(Payloads) /\ d.state["server"] = k.state["server"] /\ d.ending = k.ending
    BY <1>1, CloseIs
  <2>. HIDE DEF d
  <2>. QED
    BY <1>1, <1>2, <1>8, <2>1, <2>2, ClientSide DEF k
<1>9. CASE Break(c)
  <2>. DEFINE d == Lose(k)
  <2>1. /\ Put(c, d) /\ broken' = broken \cup {c}
        /\ UNCHANGED <<connections, server, app, input, texts>>
    BY <1>9 DEF Break, k
  <2>2. d \in Connections(Payloads) /\ d.state = k.state /\ d.ending = k.ending
    BY <1>1, LoseIs
  <2>. HIDE DEF d
  <2>. QED
    BY <1>1, <2>1, <2>2, ClientSide DEF k
<1>10. ASSUME NEW s \in Sides, CutByTimer(c, s) PROVE IInv'
  <2>. DEFINE d == Terminate(k, s)
  <2>1. /\ Put(c, d) /\ broken' = broken \cup {c} /\ TimerRunsLate(k, s)
        /\ UNCHANGED <<connections, server, app, input, texts>>
    BY <1>10 DEF CutByTimer, k
  <2>2. /\ d \in Connections(Payloads)
        /\ \A t \in Sides :
             /\ d.state[t] = IF t = s THEN "closed" ELSE k.state[t]
             /\ d.ending[t] = IF t # s THEN k.ending[t]
                              ELSE IF k.state[s] \in Handshaking THEN "fail" ELSE "close"
    BY <1>1, TerminateIs
  <2>. HIDE DEF d
  <2>3. EndsOnce(k) /\ (c \in connections <=> Session(k))
    BY AboutOne DEF k
  <2>4. EndsOnce(d) /\ (Session(d) <=> Session(k))
    BY <2>1, <2>2, <2>3 DEF EndsOnce, Session, TimerRunsLate, Handshaking
  <2>5. connections' = IF Session(d) THEN connections \cup {c} ELSE connections \ {c}
    BY <2>1, <2>3, <2>4
  <2>. QED
    BY <1>1, <2>1, <2>2, <2>4, <2>5, OneClient
<1>. QED
  BY <1>3, <1>5, <1>6, <1>7, <1>8, <1>9, <1>10 DEF UserStep, Disturbance

LEMMA NextIInv == IInv /\ [Next]_vars => IInv'
<1>1. ASSUME IInv, UNCHANGED vars PROVE IInv'
  BY <1>1 DEF vars, IInv, Shapes, ServerSurvives, ConnectionsAreSessions
<1>. QED
  BY <1>1, ServerStepIInv, ClientStepIInv, UserStepIInv DEF Next

\* What each handler of the server and each place of a console's two threads may
\* rely on holds in every reachable state.
THEOREM ChatInvariant == Spec => []IInv
BY InitIInv, NextIInv, PTL DEF Spec

-----------------------------------------------------------------------------
(* The properties                                                          *)

LEMMA HeardIsNat == Spec => [](heard \in [Clients -> Nat])
<1>. DEFINE H == heard \in [Clients -> Nat]
<1>1. Init => H
  BY DEF Init
<1>2. ASSUME H, NEW c \in Clients, ServerStep(c) \/ ClientStep(c) \/ UserStep(c) \/ Disturbance(c)
      PROVE  H'
  <2>1. UNCHANGED heard \/ heard' = [heard EXCEPT ![c] = @ + 1]
    BY <1>2 DEF ServerStep, ServerOpens, ServerHandlesEnd, ServerHandlesMessage, ServerLibrary,
                ClientStep, ClientOpens, ClientHandlesMessage, ClientLibrary, ClientEnds,
                UserStep, ClientStarts, ConsoleTypesExit, ConsoleTypesText, PageSends,
                PageDisconnects, Disturbance, Break, CutByTimer
  <2>. QED
    BY <1>2, <2>1
<1>3. H /\ [Next]_vars => H'
  BY <1>2 DEF Next, vars
<1>. QED
  BY <1>1, <1>3, PTL DEF Spec

\* Every variable of the chat stays in its range, for any number of clients.
THEOREM ChatTyping == Spec => []TypeOK
<1>1. IInv /\ heard \in [Clients -> Nat] => TypeOK
  BY DEF IInv, TypeOK, ServerSurvives
<1>. QED
  BY <1>1, ChatInvariant, HeardIsNat, PTL

\* The server's set holds the handles of the opened sessions whose close
\* handler has not run, for any number of clients.
THEOREM ConnectionsAreExact == Spec => []ConnectionsAreSessions
<1>1. IInv => ConnectionsAreSessions
  BY DEF IInv
<1>. QED
  BY <1>1, ChatInvariant, PTL

\* my_message_cb never calls a close that the library refuses, so no exception
\* leaves run().
THEOREM ServerNeverDies == Spec => []ServerSurvives
<1>1. IInv => ServerSurvives
  BY DEF IInv
<1>. QED
  BY <1>1, ChatInvariant, PTL

\* The input thread of a console is refused because the session is over only when
\* the connection broke or a handshake timer ran late.
THEOREM ConsoleRefusalNeedsBreak == Spec => []RefusalNeedsBreak
<1>1. IInv => RefusalNeedsBreak
  BY DEF IInv, RefusalNeedsBreak, Calm, Unstarted, Shaking, Talking, Over, Garbled
<1>. QED
  BY <1>1, ChatInvariant, PTL

\* main of a console returns after the input thread has ended, so the ws_client it
\* points to is still there; unless the connection broke or a handshake timer
\* ran late.
THEOREM ConsoleExitIsClean == Spec => []ExitIsClean
<1>1. IInv => ExitIsClean
  BY DEF IInv, ExitIsClean, Calm, Unstarted, Shaking, Talking, Over, Garbled
<1>. QED
  BY <1>1, ChatInvariant, PTL

-----------------------------------------------------------------------------
(* The order of the echoes                                                 *)

LEMMA Joined ==
  ASSUME NEW S, NEW v \in Seq(S), NEW w \in Seq(S)
  PROVE  /\ v \o w \in Seq(S)
         /\ Len(v) \in Nat /\ Len(w) \in Nat /\ Len(v \o w) = Len(v) + Len(w)
         /\ DOMAIN v = 1..Len(v) /\ DOMAIN w = 1..Len(w)
         /\ DOMAIN (v \o w) = 1..(Len(v) + Len(w))
         /\ \A k \in 1..Len(v) : (v \o w)[k] = v[k]
         /\ \A k \in 1..Len(w) : (v \o w)[Len(v) + k] = w[k]
OBVIOUS

LEMMA Longer ==
  ASSUME NEW S, NEW w \in Seq(S), NEW f \in S
  PROVE  /\ Append(w, f) \in Seq(S) /\ Len(w) \in Nat /\ Len(Append(w, f)) = Len(w) + 1
         /\ DOMAIN w = 1..Len(w) /\ DOMAIN Append(w, f) = 1..(Len(w) + 1)
         /\ \A k \in 1..Len(w) : Append(w, f)[k] = w[k]
         /\ Append(w, f)[Len(w) + 1] = f
OBVIOUS

LEMMA Shorter ==
  ASSUME NEW S, NEW w \in Seq(S), w # <<>>
  PROVE  /\ Tail(w) \in Seq(S) /\ Head(w) \in S /\ Head(w) = w[1]
         /\ Len(w) \in Nat \ {0} /\ Len(Tail(w)) = Len(w) - 1
         /\ DOMAIN w = 1..Len(w) /\ DOMAIN Tail(w) = 1..(Len(w) - 1)
         /\ \A k \in 1..(Len(w) - 1) : Tail(w)[k] = w[k + 1]
OBVIOUS

\* A frame that goes from the front of w to the end of v
LEMMA Passed ==
  ASSUME NEW S, NEW v \in Seq(S), NEW w \in Seq(S), w # <<>>
  PROVE  Append(v, Head(w)) \o Tail(w) = v \o w
OBVIOUS

LEMMA AppendedToSecond ==
  ASSUME NEW S, NEW v \in Seq(S), NEW w \in Seq(S), NEW f \in S
  PROVE  v \o Append(w, f) = Append(v \o w, f)
OBVIOUS

LEMMA TakenFromFirst ==
  ASSUME NEW S, NEW v \in Seq(S), NEW w \in Seq(S), v # <<>>
  PROVE  Tail(v) \o w = Tail(v \o w) /\ Head(v \o w) = Head(v) /\ v \o w # <<>>
OBVIOUS

\* y is x up to a frame g, behind which nothing is new.
EndedBy(x, y, g) ==
  \E p \in DOMAIN y :
    /\ y[p] = g
    /\ \A k \in 1..(p - 1) : k \in DOMAIN x /\ y[k] = x[k]
    /\ \A k \in DOMAIN y : y[k] = g \/ \E j \in DOMAIN x : y[k] = x[j]

\* What counts of the stream ends at a frame that is no plain text.
LEMMA NumberedUpTo ==
  ASSUME NEW S, NEW x \in Seq(S), NEW y \in Seq(S), NEW h \in Nat, NEW n, NEW m,
         Numbered(x, h, n), NEW p \in DOMAIN y, ~PlainText(y[p]),
         \A k \in 1..(p - 1) : k \in DOMAIN x /\ y[k] = x[k]
  PROVE  Numbered(y, h, m)
<1>1. DOMAIN y = 1..Len(y) /\ Len(y) \in Nat
  OBVIOUS
<1>2. ASSUME NEW k \in DOMAIN y, \A j \in 1..k : PlainText(y[j])
      PROVE  y[k].payload = h + k
  <2>1. k < p /\ k \in 1..(p - 1)
    BY <1>1, <1>2
  <2>2. k \in DOMAIN x /\ \A j \in 1..k : PlainText(x[j]) /\ y[j] = x[j]
    BY <1>1, <1>2, <2>1
  <2>. QED
    BY <2>1, <2>2 DEF Numbered
<1>3. ~Plain(y)
  BY DEF Plain
<1>. QED
  BY <1>2, <1>3 DEF Numbered

\* The server's part of the stream is ended by g: what the client still sends
\* does not count.
LEMMA NumberedEnded ==
  ASSUME NEW S, NEW v \in Seq(S), NEW w \in Seq(S), NEW v2 \in Seq(S), NEW w2 \in Seq(S),
         NEW h \in Nat, NEW n, NEW m, Numbered(v \o w, h, n), NEW g, ~PlainText(g),
         EndedBy(v, v2, g)
  PROVE  Numbered(v2 \o w2, h, m)
<1>1. PICK p \in DOMAIN v2 : v2[p] = g /\ \A k \in 1..(p - 1) : k \in DOMAIN v /\ v2[k] = v[k]
  BY DEF EndedBy
<1>2. /\ v \o w \in Seq(S) /\ v2 \o w2 \in Seq(S)
      /\ p \in DOMAIN (v2 \o w2) /\ (v2 \o w2)[p] = g
      /\ \A k \in 1..(p - 1) : k \in DOMAIN (v \o w) /\ (v2 \o w2)[k] = (v \o w)[k]
  <2>1. p \in 1..Len(v2) /\ Len(v2) \in Nat
    BY Joined
  <2>2. /\ v \o w \in Seq(S) /\ v2 \o w2 \in Seq(S)
        /\ p \in DOMAIN (v2 \o w2) /\ (v2 \o w2)[p] = g
    BY <1>1, <2>1, Joined
  <2>3. ASSUME NEW k \in 1..(p - 1)
        PROVE  k \in DOMAIN (v \o w) /\ (v2 \o w2)[k] = (v \o w)[k]
    <3>1. k \in 1..Len(v2) /\ k \in DOMAIN v /\ v2[k] = v[k]
      BY <1>1, <2>1
    <3>2. k \in 1..Len(v)
      BY <3>1, Joined
    <3>3. (v2 \o w2)[k] = v2[k] /\ (v \o w)[k] = v[k] /\ k \in DOMAIN (v \o w)
      BY <3>1, <3>2, Joined
    <3>. QED
      BY <3>1, <3>3
  <2>. QED
    BY <2>2, <2>3
<1>. QED
  BY <1>2, NumberedUpTo

\* The client's part is ended by g.
LEMMA NumberedCutShort ==
  ASSUME NEW S, NEW v \in Seq(S), NEW w \in Seq(S), NEW w2 \in Seq(S),
         NEW h \in Nat, NEW n, NEW m, Numbered(v \o w, h, n), NEW g, ~PlainText(g),
         EndedBy(w, w2, g)
  PROVE  Numbered(v \o w2, h, m)
<1>1. PICK p \in DOMAIN w2 : w2[p] = g /\ \A k \in 1..(p - 1) : k \in DOMAIN w /\ w2[k] = w[k]
  BY DEF EndedBy
<1>. DEFINE r == Len(v) + p
<1>2. /\ v \o w \in Seq(S) /\ v \o w2 \in Seq(S)
      /\ r \in DOMAIN (v \o w2) /\ (v \o w2)[r] = g
  BY <1>1, Joined
<1>3. ASSUME NEW k \in 1..(r - 1)
      PROVE  k \in DOMAIN (v \o w) /\ (v \o w2)[k] = (v \o w)[k]
  <2>0. p \in 1..Len(w2) /\ Len(w2) \in Nat /\ Len(v) \in Nat
    BY Joined
  <2>1. CASE k \in 1..Len(v)
    BY <2>1, Joined
  <2>2. CASE k \notin 1..Len(v)
    <3>. DEFINE j == k - Len(v)
    <3>1. j \in 1..(p - 1) /\ k = Len(v) + j
      BY <2>0, <2>2
    <3>2. j \in DOMAIN w /\ w2[j] = w[j] /\ j \in 1..Len(w2) /\ j \in 1..Len(w)
      BY <1>1, <2>0, <3>1, Joined
    <3>. HIDE DEF j
    <3>. QED
      BY <3>1, <3>2, Joined
  <2>. QED
    BY <2>1, <2>2
<1>. HIDE DEF r
<1>. QED
  BY <1>2, <1>3, NumberedUpTo

LEMMA NumberedTail ==
  ASSUME NEW S, NEW z \in Seq(S), z # <<>>, NEW h \in Nat, NEW n, Numbered(z, h, n),
         PlainText(z[1])
  PROVE  /\ z[1].payload = h + 1
         /\ Numbered(Tail(z), h + 1, n)
<1>1. z[1].payload = h + 1
  BY Shorter DEF Numbered
<1>2. ASSUME NEW k \in DOMAIN Tail(z), \A j \in 1..k : PlainText(Tail(z)[j])
      PROVE  Tail(z)[k].payload = (h + 1) + k
  <2>1. k \in Nat /\ k + 1 \in DOMAIN z /\ Tail(z)[k] = z[k + 1]
    BY Shorter
  <2>2. ASSUME NEW j \in 1..(k + 1) PROVE PlainText(z[j])
    <3>1. CASE j = 1
      BY <3>1
    <3>2. CASE j # 1
      <4>1. j - 1 \in 1..k /\ Tail(z)[j - 1] = z[j]
        BY <1>2, <2>1, <3>2, Shorter
      <4>. QED
        BY <1>2, <4>1
    <3>. QED
      BY <3>1, <3>2
  <2>3. z[k + 1].payload = h + (k + 1)
    BY <2>1, <2>2 DEF Numbered
  <2>. QED
    BY <2>1, <2>3
<1>3. ASSUME Plain(Tail(z)) PROVE n = (h + 1) + Len(Tail(z))
  <2>1. ASSUME NEW j \in DOMAIN z PROVE PlainText(z[j])
    <3>1. CASE j = 1
      BY <3>1
    <3>2. CASE j # 1
      <4>1. j - 1 \in DOMAIN Tail(z) /\ Tail(z)[j - 1] = z[j]
        BY <3>2, Shorter
      <4>. QED
        BY <1>3, <4>1 DEF Plain
    <3>. QED
      BY <3>1, <3>2
  <2>2. n = h + Len(z)
    BY <2>1 DEF Numbered, Plain
  <2>. QED
    BY <2>2, Shorter
<1>. QED
  BY <1>1, <1>2, <1>3 DEF Numbered

LEMMA NumberedAppend ==
  ASSUME NEW S, NEW z \in Seq(S), NEW f \in S, NEW h \in Nat, NEW n \in Nat, Numbered(z, h, n),
         PlainText(f) => f.payload = n + 1
  PROVE  Numbered(Append(z, f), h, n + 1)
<1>. DEFINE y == Append(z, f)
<1>1. /\ Len(z) \in Nat /\ Len(y) = Len(z) + 1 /\ DOMAIN z = 1..Len(z) /\ DOMAIN y = 1..(Len(z) + 1)
      /\ \A k \in 1..Len(z) : y[k] = z[k]
      /\ y[Len(z) + 1] = f
  BY Longer
<1>. HIDE DEF y
<1>2. ASSUME Plain(y) PROVE n + 1 = h + Len(y) /\ f.payload = h + Len(y)
  <2>1. Plain(z) /\ PlainText(f)
    BY <1>1, <1>2 DEF Plain
  <2>. QED
    BY <1>1, <2>1 DEF Numbered
<1>3. ASSUME NEW k \in DOMAIN y, \A j \in 1..k : PlainText(y[j])
      PROVE  y[k].payload = h + k
  <2>1. CASE k \in 1..Len(z)
    BY <1>1, <1>3, <2>1 DEF Numbered
  <2>2. CASE k = Len(z) + 1
    <3>1. Plain(y)
      BY <1>1, <1>3, <2>2 DEF Plain
    <3>. QED
      BY <1>1, <1>2, <2>2, <3>1
  <2>. QED
    BY <1>1, <2>1, <2>2
<1>. QED
  BY <1>2, <1>3 DEF Numbered, y

\* An end behind an end
LEMMA EndedAgain ==
  ASSUME NEW S, NEW x \in Seq(S), NEW y \in Seq(S), NEW z \in Seq(S), NEW g,
         EndedBy(x, y, g), EndedBy(y, z, g)
  PROVE  EndedBy(x, z, g)
<1>1. PICK p \in DOMAIN y :
        /\ y[p] = g
        /\ \A k \in 1..(p - 1) : k \in DOMAIN x /\ y[k] = x[k]
        /\ \A k \in DOMAIN y : y[k] = g \/ \E j \in DOMAIN x : y[k] = x[j]
  BY DEF EndedBy
<1>2. PICK q \in DOMAIN z :
        /\ z[q] = g
        /\ \A k \in 1..(q - 1) : k \in DOMAIN y /\ z[k] = y[k]
        /\ \A k \in DOMAIN z : z[k] = g \/ \E j \in DOMAIN y : z[k] = y[j]
  BY DEF EndedBy
<1>3. /\ DOMAIN z = 1..Len(z) /\ Len(z) \in Nat
      /\ DOMAIN y = 1..Len(y) /\ Len(y) \in Nat
  OBVIOUS
<1>4. \A k \in DOMAIN z : z[k] = g \/ \E j \in DOMAIN x : z[k] = x[j]
  BY <1>1, <1>2
<1>5. CASE p < q
  <2>1. p \in DOMAIN z /\ z[p] = g
    BY <1>1, <1>2, <1>3, <1>5
  <2>2. \A k \in 1..(p - 1) : k \in DOMAIN x /\ z[k] = x[k]
    BY <1>1, <1>2, <1>3, <1>5
  <2>. QED
    BY <1>4, <2>1, <2>2 DEF EndedBy
<1>6. CASE q <= p
  <2>1. \A k \in 1..(q - 1) : k \in DOMAIN x /\ z[k] = x[k]
    BY <1>1, <1>2, <1>3, <1>6
  <2>. QED
    BY <1>2, <1>4, <2>1 DEF EndedBy
<1>. QED
  BY <1>3, <1>5, <1>6

\* g comes behind v, or instead of it: what is left of w is no news.
LEMMA EndedAfter ==
  ASSUME NEW S, NEW v \in Seq(S), NEW w \in Seq(S), NEW w2 \in Seq(S), NEW g \in S,
         \A k \in DOMAIN w2 : \E j \in DOMAIN w : w2[k] = w[j]
  PROVE  /\ EndedBy(v \o w, Append(v, g) \o w2, g)
         /\ EndedBy(v \o w, <<g>> \o w2, g)
         /\ v # <<>> /\ v[Len(v)] = g => EndedBy(v \o w, v \o w2, g)
<1>1. \A k \in DOMAIN w2 : \E j \in DOMAIN (v \o w) : w2[k] = (v \o w)[j]
  <2>. SUFFICES ASSUME NEW k \in DOMAIN w2 PROVE \E j \in DOMAIN (v \o w) : w2[k] = (v \o w)[j]
    OBVIOUS
  <2>1. PICK j \in DOMAIN w : w2[k] = w[j]
    OBVIOUS
  <2>2. Len(v) + j \in DOMAIN (v \o w) /\ (v \o w)[Len(v) + j] = w[j]
    BY Joined
  <2>. QED
    BY <2>1, <2>2
<1>2. ASSUME NEW u \in Seq(S), u # <<>>, u[Len(u)] = g, 
             \A k \in 1..(Len(u) - 1) : k \in DOMAIN v /\ u[k] = v[k]
      PROVE  EndedBy(v \o w, u \o w2, g)
  <2>. DEFINE p == Len(u)
              y == u \o w2
  <2>1. p \in Nat \ {0} /\ p \in DOMAIN y /\ y[p] = g
    BY <1>2, Joined
  <2>2. ASSUME NEW k \in 1..(p - 1) PROVE k \in DOMAIN (v \o w) /\ y[k] = (v \o w)[k]
    <3>1. k \in 1..Len(u) /\ k \in 1..Len(v) /\ u[k] = v[k]
      BY <1>2, <2>1, Joined
    <3>. QED
      BY <1>2, <3>1, Joined
  <2>3. ASSUME NEW k \in DOMAIN y PROVE y[k] = g \/ \E j \in DOMAIN (v \o w) : y[k] = (v \o w)[j]
    <3>0. Len(w2) \in Nat /\ DOMAIN w2 = 1..Len(w2) /\ k \in 1..(p + Len(w2))
      BY <1>2, Joined
    <3>1. CASE k \in 1..(p - 1)
      BY <2>2, <3>1
    <3>2. CASE k = p
      BY <2>1, <3>2
    <3>3. CASE k > p
      <4>. DEFINE j == k - p
      <4>1. j \in 1..Len(w2) /\ k = p + j
        BY <2>1, <3>0, <3>3
      <4>. HIDE DEF j
      <4>2. y[k] = w2[j] /\ j \in DOMAIN w2
        BY <1>2, <3>0, <4>1, Joined
      <4>. QED
        BY <1>1, <4>2
    <3>. QED
      BY <2>1, <3>0, <3>1, <3>2, <3>3
  <2>. HIDE DEF p, y
  <2>4. EndedBy(v \o w, y, g)
    BY <2>1, <2>2, <2>3 DEF EndedBy
  <2>. QED
    BY <2>4 DEF y
<1>3. EndedBy(v \o w, Append(v, g) \o w2, g)
  <2>1. /\ Append(v, g) \in Seq(S) /\ Append(v, g) # <<>>
        /\ Append(v, g)[Len(Append(v, g))] = g
        /\ \A k \in 1..(Len(Append(v, g)) - 1) : k \in DOMAIN v /\ Append(v, g)[k] = v[k]
    OBVIOUS
  <2>. QED
    BY <1>2, <2>1
<1>4. EndedBy(v \o w, <<g>> \o w2, g)
  <2>1. /\ <<g>> \in Seq(S) /\ <<g>> # <<>> /\ Len(<<g>>) = 1 /\ <<g>>[1] = g
    OBVIOUS
  <2>2. \A k \in 1..(Len(<<g>>) - 1) : FALSE
    BY <2>1
  <2>. QED
    BY <1>2, <2>1, <2>2
<1>5. ASSUME v # <<>>, v[Len(v)] = g PROVE EndedBy(v \o w, v \o w2, g)
  <2>1. \A k \in 1..(Len(v) - 1) : k \in DOMAIN v /\ v[k] = v[k]
    OBVIOUS
  <2>. QED
    BY <1>2, <1>5, <2>1
<1>. QED
  BY <1>3, <1>4, <1>5

\* What is pushed on a wire: behind the end of the stream, nothing
LEMMA EndedByPush ==
  ASSUME NEW P, NEW v \in Seq(Frames(P)), NEW w \in Seq(Frames(P)), NEW w2 \in Seq(Frames(P)),
         NEW g \in Frames(P), \A k \in DOMAIN w2 : \E j \in DOMAIN w : w2[k] = w[j]
  PROVE  \/ Push(v, g) = Append(v, g) /\ EndedBy(v \o w, Push(v, g) \o w2, g)
         \/ Push(v, g) = v /\ EndedBy(v \o w, Push(v, g) \o w2, Eof)
<1>1. Eof \in Frames(P)
  BY FrameTypes
<1>2. CASE v # <<>> /\ v[Len(v)] = Eof
  <2>1. Push(v, g) = v
    BY <1>2 DEF Push
  <2>2. EndedBy(v \o w, v \o w2, Eof)
    BY <1>1, <1>2, EndedAfter
  <2>. QED
    BY <2>1, <2>2
<1>3. CASE ~(v # <<>> /\ v[Len(v)] = Eof)
  <2>1. Push(v, g) = Append(v, g)
    BY <1>3 DEF Push
  <2>2. EndedBy(v \o w, Append(v, g) \o w2, g)
    BY EndedAfter
  <2>. QED
    BY <2>1, <2>2
<1>. QED
  BY <1>2, <1>3

-----------------------------------------------------------------------------
(* What the steps of a connection do to the two halves of the stream       *)

\* The two halves of the stream are sequences of frames.
LEMMA StreamTypes ==
  ASSUME NEW P, NEW c \in Connections(P)
  PROVE  /\ \A s \in Sides : c.wire[s] \in Seq(Frames(P)) /\ c.queue[s] \in Seq(Frames(P))
         /\ Echoes(c) \in Seq(Frames(P)) /\ Inbound(c) \in Seq(Frames(P))
<1>1. \A s \in Sides : c.wire[s] \in Seq(Frames(P)) /\ c.queue[s] \in Seq(Frames(P))
  BY ConnectionFields
<1>. QED
  BY <1>1, TwoSides, Joined DEF Echoes, Inbound

\* At most the end of the stream comes in between.
Until(x, y) == y = x \/ EndedBy(x, y, Eof)

\* A frame that is written stays in its place of the stream.
LEMMA WrittenFlow ==
  ASSUME NEW P, NEW c \in Connections(P), NEW d \in Connections(P), NEW s \in Sides, Writes(c, d, s)
  PROVE  Until(Echoes(c), Echoes(d)) /\ Until(Inbound(c), Inbound(d))
<1>. DEFINE q == c.queue[s]
            v == c.wire[Peer(s)]
<1>1. q \in Seq(Frames(P)) /\ q # <<>> /\ v \in Seq(Frames(P)) /\ Peer(s) \in Sides /\ Peer(s) # s
  BY StreamTypes, TwoSides DEF Writes
<1>2. /\ d.queue[s] = Tail(q) /\ d.wire[Peer(s)] = Push(v, Head(q))
      /\ d.queue[Peer(s)] = c.queue[Peer(s)] /\ d.wire[s] = c.wire[s]
  BY <1>1 DEF Writes
<1>. HIDE DEF q, v
<1>3. Until(v \o q, Push(v, Head(q)) \o Tail(q))
  <2>1. Head(q) \in Frames(P) /\ Tail(q) \in Seq(Frames(P))
    BY <1>1, Shorter
  <2>2. \A k \in DOMAIN Tail(q) : \E j \in DOMAIN q : Tail(q)[k] = q[j]
    <3>. SUFFICES ASSUME NEW k \in DOMAIN Tail(q) PROVE \E j \in DOMAIN q : Tail(q)[k] = q[j]
      OBVIOUS
    <3>1. k + 1 \in DOMAIN q /\ Tail(q)[k] = q[k + 1]
      BY <1>1, Shorter
    <3>. QED
      BY <3>1
  <2>3. Append(v, Head(q)) \o Tail(q) = v \o q
    BY <1>1, Passed
  <2>4. \/ Push(v, Head(q)) = Append(v, Head(q))
        \/ EndedBy(v \o q, Push(v, Head(q)) \o Tail(q), Eof)
    BY <1>1, <2>1, <2>2, EndedByPush
  <2>. QED
    BY <2>3, <2>4 DEF Until
<1>4. CASE s = "client"
  <2>1. Echoes(d) = Echoes(c)
    BY <1>2, <1>4, TwoSides DEF Echoes
  <2>2. Inbound(c) = v \o q /\ Inbound(d) = Push(v, Head(q)) \o Tail(q)
    BY <1>2, <1>4, TwoSides DEF Inbound, v, q
  <2>. QED
    BY <1>3, <2>1, <2>2 DEF Until
<1>5. CASE s = "server"
  <2>1. Inbound(d) = Inbound(c)
    BY <1>2, <1>5, TwoSides DEF Inbound
  <2>2. Echoes(c) = v \o q /\ Echoes(d) = Push(v, Head(q)) \o Tail(q)
    BY <1>2, <1>5, TwoSides DEF Echoes, v, q
  <2>. QED
    BY <1>3, <2>1, <2>2 DEF Until
<1>. QED
  BY <1>4, <1>5 DEF Sides

\* A session that ends ends the stream on both sides of it.
LEMMA EndedFlow ==
  ASSUME NEW P, NEW c \in Connections(P), NEW d \in Connections(P), NEW s \in Sides, Ends(c, d, s)
  PROVE  EndedBy(Echoes(c), Echoes(d), Eof) /\ EndedBy(Inbound(c), Inbound(d), Eof)
<1>1. Eof \in Frames(P) /\ \A t \in Sides : c.wire[t] \in Seq(Frames(P)) /\ c.queue[t] \in Seq(Frames(P))
  BY FrameTypes, StreamTypes
<1>2. ASSUME NEW v \in Seq(Frames(P)), NEW q \in Seq(Frames(P)), NEW r \in {q, <<>>}
      PROVE  EndedBy(v \o q, Push(v, Eof) \o r, Eof) /\ EndedBy(v \o q, <<Eof>> \o r, Eof)
  <2>1. r \in Seq(Frames(P)) /\ \A k \in DOMAIN r : \E j \in DOMAIN q : r[k] = q[j]
    <3>1. CASE r = q
      BY <3>1
    <3>2. CASE r = <<>>
      BY <3>2
    <3>. QED
      BY <3>1, <3>2
  <2>. QED
    BY <1>1, <2>1, EndedByPush, EndedAfter
<1>3. CASE s = "client"
  <2>1. /\ Echoes(d) = <<Eof>> \o c.queue["server"]
        /\ Inbound(d) = Push(c.wire["server"], Eof) \o <<>>
    BY <1>3, TwoSides DEF Echoes, Inbound, Ends
  <2>. QED
    BY <1>1, <1>2, <2>1, TwoSides DEF Echoes, Inbound
<1>4. CASE s = "server"
  <2>1. /\ Echoes(d) = Push(c.wire["client"], Eof) \o <<>>
        /\ Inbound(d) = <<Eof>> \o c.queue["client"]
    BY <1>4, TwoSides DEF Echoes, Inbound, Ends
  <2>. QED
    BY <1>1, <1>2, <2>1, TwoSides DEF Echoes, Inbound
<1>. QED
  BY <1>3, <1>4 DEF Sides

\* A break does the same to both halves.
LEMMA LostFlow ==
  ASSUME NEW P, NEW c \in Connections(P)
  PROVE  EndedBy(Echoes(c), Echoes(Lose(c)), Eof) /\ EndedBy(Inbound(c), Inbound(Lose(c)), Eof)
<1>1. Eof \in Frames(P) /\ \A t \in Sides : c.wire[t] \in Seq(Frames(P)) /\ c.queue[t] \in Seq(Frames(P))
  BY FrameTypes, StreamTypes
<1>2. ASSUME NEW v \in Seq(Frames(P)), NEW q \in Seq(Frames(P))
      PROVE  EndedBy(v \o q, <<Eof>> \o q, Eof)
  BY <1>1, EndedAfter
<1>3. /\ Echoes(Lose(c)) = <<Eof>> \o c.queue["server"]
      /\ Inbound(Lose(c)) = <<Eof>> \o c.queue["client"]
  BY LoseIs, TwoSides DEF Echoes, Inbound
<1>. QED
  BY <1>1, <1>2, <1>3, TwoSides DEF Echoes, Inbound

\* A frame that is read leaves the stream at its front.
LEMMA TakenFlow ==
  ASSUME NEW P, NEW c \in Connections(P), NEW d \in Connections(P), NEW s \in Sides, Takes(c, d, s)
  PROVE  /\ s = "server" => /\ Echoes(d) = Echoes(c)
                            /\ Inbound(c) # <<>> /\ Inbound(d) = Tail(Inbound(c))
                            /\ Head(Inbound(c)) = Head(c.wire[s])
         /\ s = "client" => /\ Inbound(d) = Inbound(c)
                            /\ Echoes(c) # <<>> /\ Echoes(d) = Tail(Echoes(c))
                            /\ Head(Echoes(c)) = Head(c.wire[s])
<1>1. /\ \A t \in Sides : c.wire[t] \in Seq(Frames(P)) /\ c.queue[t] \in Seq(Frames(P))
      /\ c.wire[s] # <<>>
  BY StreamTypes DEF Takes
<1>2. /\ d.wire[s] = Tail(c.wire[s]) /\ d.wire[Peer(s)] = c.wire[Peer(s)]
      /\ d.queue[s] = c.queue[s] /\ d.queue[Peer(s)] = c.queue[Peer(s)]
  BY TwoSides DEF Takes
<1>3. \A q \in Seq(Frames(P)) :
        /\ Tail(c.wire[s]) \o q = Tail(c.wire[s] \o q)
        /\ Head(c.wire[s] \o q) = Head(c.wire[s]) /\ c.wire[s] \o q # <<>>
  BY <1>1, TakenFromFirst
<1>4. CASE s = "server"
  <2>1. Echoes(d) = Echoes(c)
    BY <1>2, <1>4, TwoSides DEF Echoes
  <2>2. /\ Inbound(c) = c.wire[s] \o c.queue["client"]
        /\ Inbound(d) = Tail(c.wire[s]) \o c.queue["client"]
    BY <1>2, <1>4, TwoSides DEF Inbound
  <2>. QED
    BY <1>1, <1>3, <1>4, <2>1, <2>2, TwoSides
<1>5. CASE s = "client"
  <2>1. Inbound(d) = Inbound(c)
    BY <1>2, <1>5, TwoSides DEF Inbound
  <2>2. /\ Echoes(c) = c.wire[s] \o c.queue["server"]
        /\ Echoes(d) = Tail(c.wire[s]) \o c.queue["server"]
    BY <1>2, <1>5, TwoSides DEF Echoes
  <2>. QED
    BY <1>1, <1>3, <1>5, <2>1, <2>2, TwoSides
<1>. QED
  BY <1>4, <1>5

\* A frame that is queued is the last of the stream.
LEMMA QueuedFlow ==
  ASSUME NEW P, NEW c \in Connections(P), NEW d \in Connections(P), NEW s \in Sides,
         NEW f \in Frames(P), Queues(c, d, s, f)
  PROVE  /\ s = "server" => Echoes(d) = Append(Echoes(c), f) /\ Inbound(d) = Inbound(c)
         /\ s = "client" => Inbound(d) = Append(Inbound(c), f) /\ Echoes(d) = Echoes(c)
<1>1. \A t \in Sides : c.wire[t] \in Seq(Frames(P)) /\ c.queue[t] \in Seq(Frames(P))
  BY StreamTypes
<1>2. /\ d.queue[s] = Append(c.queue[s], f) /\ d.queue[Peer(s)] = c.queue[Peer(s)]
      /\ d.wire[s] = c.wire[s] /\ d.wire[Peer(s)] = c.wire[Peer(s)]
  BY TwoSides DEF Queues
<1>3. \A w \in Seq(Frames(P)) : w \o Append(c.queue[s], f) = Append(w \o c.queue[s], f)
  BY <1>1, AppendedToSecond
<1>4. CASE s = "server"
  <2>1. Inbound(d) = Inbound(c)
    BY <1>2, <1>4, TwoSides DEF Inbound
  <2>2. /\ Echoes(c) = c.wire["client"] \o c.queue[s]
        /\ Echoes(d) = c.wire["client"] \o Append(c.queue[s], f)
    BY <1>2, <1>4, TwoSides DEF Echoes
  <2>. QED
    BY <1>1, <1>3, <1>4, <2>1, <2>2, TwoSides
<1>5. CASE s = "client"
  <2>1. Echoes(d) = Echoes(c)
    BY <1>2, <1>5, TwoSides DEF Echoes
  <2>2. /\ Inbound(c) = c.wire["server"] \o c.queue[s]
        /\ Inbound(d) = c.wire["server"] \o Append(c.queue[s], f)
    BY <1>2, <1>5, TwoSides DEF Inbound
  <2>. QED
    BY <1>1, <1>3, <1>5, <2>1, <2>2, TwoSides
<1>. QED
  BY <1>4, <1>5

-----------------------------------------------------------------------------
(* Steps that keep the stream in order                                     *)

\* The server's part of the stream is ended by a frame that is no text.
LEMMA EndedInStep ==
  ASSUME NEW P, NEW c \in Connections(P), NEW d \in Connections(P), NEW h \in Nat, NEW n,
         InStep(c, h, n), NEW g, g.op # "text", EndedBy(Echoes(c), Echoes(d), g),
         d.state["server"] \in {"closing", "closed"} => g.op \in {"close", "ack", "eof"}
  PROVE  InStep(d, h, n)
<1>1. /\ \E p \in DOMAIN Echoes(d) : Echoes(d)[p] = g
      /\ \A k \in DOMAIN Echoes(d) : Echoes(d)[k] = g \/ \E j \in DOMAIN Echoes(c) : Echoes(d)[k] = Echoes(c)[j]
  BY DEF EndedBy
<1>2. NoExit(Echoes(d))
  BY <1>1 DEF InStep, NoExit
<1>3. d.state["server"] \in {"closing", "closed"} => Cut(Echoes(d))
  BY <1>1 DEF Cut
<1>4. Numbered(Echoes(d) \o Inbound(d), h, n)
  <2>1. ~PlainText(g)
    BY DEF PlainText
  <2>. QED
    BY <2>1, StreamTypes, NumberedEnded DEF InStep
<1>. QED
  BY <1>2, <1>3, <1>4 DEF InStep

\* Nothing happens to the stream but that it ends, on either side.
LEMMA EndsInStream ==
  ASSUME NEW P, NEW c \in Connections(P), NEW d \in Connections(P), NEW h \in Nat, NEW n,
         Stream(c, h, n), Until(Echoes(c), Echoes(d)), Until(Inbound(c), Inbound(d)),
         d.state["client"] = c.state["client"],
         \/ d.state["server"] = c.state["server"]
         \/ d.state["server"] \in {"connecting", "open"}
         \/ d.state["server"] = "closed" /\ EndedBy(Echoes(c), Echoes(d), Eof)
  PROVE  Stream(d, h, n)
<1>1. Eof.op = "eof" /\ ~PlainText(Eof)
  BY DEF Eof, Control, PlainText
<1>2. ASSUME Fresh(c, h, n) PROVE Fresh(d, h, n)
  <2>1. ASSUME NEW x, NEW y, NEW O, Until(x, y), \A k \in DOMAIN x : x[k].op \in O, "eof" \in O
        PROVE  \A k \in DOMAIN y : y[k].op \in O
    BY <1>1, <2>1 DEF Until, EndedBy
  <2>2. \A k \in DOMAIN Echoes(d) : Echoes(d)[k].op \in {"response", "eof"}
    BY <1>2, <2>1 DEF Fresh
  <2>3. \A k \in DOMAIN Inbound(d) : Inbound(d)[k].op \in {"request", "eof"}
    BY <1>2, <2>1 DEF Fresh
  <2>4. EndedBy(Echoes(c), Echoes(d), Eof) => Cut(Echoes(d))
    BY <1>1 DEF EndedBy, Cut
  <2>5. d.state["server"] # "closing"
    BY <1>2 DEF Fresh
  <2>6. d.state["server"] = "closed" => Cut(Echoes(d))
    BY <1>2, <2>4 DEF Fresh, Until
  <2>. QED
    BY <1>2, <2>2, <2>3, <2>5, <2>6 DEF Fresh
<1>3. ASSUME InStep(c, h, n) PROVE InStep(d, h, n)
  <2>1. CASE EndedBy(Echoes(c), Echoes(d), Eof)
    BY <1>1, <1>3, <2>1, EndedInStep
  <2>2. CASE Echoes(d) = Echoes(c)
    <3>1. Numbered(Echoes(d) \o Inbound(d), h, n)
      <4>1. CASE Inbound(d) = Inbound(c)
        BY <1>3, <2>2, <4>1 DEF InStep
      <4>2. CASE EndedBy(Inbound(c), Inbound(d), Eof)
        <5>1. Numbered(Echoes(c) \o Inbound(c), h, n)
          BY <1>3 DEF InStep
        <5>2. Numbered(Echoes(c) \o Inbound(d), h, n)
          BY <1>1, <4>2, <5>1, StreamTypes, NumberedCutShort
        <5>. QED
          BY <2>2, <5>2
      <4>. QED
        BY <4>1, <4>2 DEF Until
    <3>2. d.state["server"] \in {"closing", "closed"} => Cut(Echoes(d))
      <4>1. EndedBy(Echoes(c), Echoes(d), Eof) => Cut(Echoes(d))
        BY <1>1 DEF EndedBy, Cut
      <4>. QED
        BY <1>3, <2>2, <4>1 DEF InStep
    <3>. QED
      BY <1>3, <2>2, <3>1, <3>2 DEF InStep
  <2>. QED
    BY <2>1, <2>2 DEF Until
<1>. QED
  BY <1>2, <1>3 DEF Stream

\* A client whose session is closing or over has no stream to speak of.
LEMMA OverIsStream ==
  ASSUME NEW d, NEW h, NEW n, d.state["client"] \in {"closing", "closed"}
  PROVE  Stream(d, h, n)
BY DEF Stream

\* An end behind what may have ended already
LEMMA UntilAgain ==
  ASSUME NEW S, NEW x \in Seq(S), NEW y \in Seq(S), NEW z \in Seq(S),
         Until(x, y), EndedBy(y, z, Eof)
  PROVE  EndedBy(x, z, Eof)
<1>1. CASE y = x
  BY <1>1
<1>2. CASE EndedBy(x, y, Eof)
  BY <1>2, EndedAgain
<1>. QED
  BY <1>1, <1>2 DEF Until

\* The stream of an open client whose server has announced the end: what the server
\* takes from it no longer counts.
LEMMA CutInStep ==
  ASSUME NEW P, NEW c \in Connections(P), NEW d \in Connections(P), NEW h \in Nat, NEW n,
         InStep(c, h, n), Cut(Echoes(c)), Echoes(d) = Echoes(c)
  PROVE  InStep(d, h, n)
<1>1. PICK p \in DOMAIN Echoes(c) : Echoes(c)[p].op \in {"close", "ack", "eof"}
  BY DEF Cut
<1>. DEFINE g == Echoes(c)[p]
<1>2. Echoes(c) \in Seq(Frames(P))
  BY StreamTypes
<1>3. EndedBy(Echoes(c), Echoes(d), g)
  <2>1. \A k \in 1..(p - 1) : k \in DOMAIN Echoes(c)
    BY <1>2
  <2>. QED
    BY <2>1 DEF EndedBy
<1>4. g.op # "text" /\ g.op \in {"close", "ack", "eof"}
  BY <1>1
<1>. HIDE DEF g
<1>. QED
  BY <1>3, <1>4, EndedInStep

\* A frame at the end of the stream
LEMMA AppendedEnds ==
  ASSUME NEW S, NEW x \in Seq(S), NEW f \in S
  PROVE  EndedBy(x, Append(x, f), f)
<1>1. /\ Len(x) \in Nat /\ DOMAIN x = 1..Len(x) /\ DOMAIN Append(x, f) = 1..(Len(x) + 1)
      /\ \A k \in 1..Len(x) : Append(x, f)[k] = x[k]
      /\ Append(x, f)[Len(x) + 1] = f
  BY Longer
<1>2. Len(x) + 1 \in DOMAIN Append(x, f)
  BY <1>1
<1>3. \A k \in 1..((Len(x) + 1) - 1) : k \in DOMAIN x /\ Append(x, f)[k] = x[k]
  BY <1>1
<1>4. \A k \in DOMAIN Append(x, f) : Append(x, f)[k] = f \/ \E j \in DOMAIN x : Append(x, f)[k] = x[j]
  BY <1>1
<1>. QED
  BY <1>1, <1>2, <1>3, <1>4, Zenon DEF EndedBy

-----------------------------------------------------------------------------
(* The library                                                             *)

\* Before the session of the client is open nothing but the handshake is on its way
\* to the server.
LEMMA FreshArrives ==
  ASSUME NEW P, NEW c \in Connections(P), NEW h, NEW n, Fresh(c, h, n)
  PROVE  /\ Arrived(c, "server").op \in {"none", "request", "eof"}
         /\ Arrived(c, "client").op \in {"none", "response", "eof"}
<1>1. ASSUME NEW s \in Sides, NEW z \in Seq(Frames(P)), NEW q \in Seq(Frames(P)), z = c.wire[s] \o q,
             NEW O, "none" \in O, \A k \in DOMAIN z : z[k].op \in O
      PROVE  Arrived(c, s).op \in O
  <2>1. c.wire[s] \in Seq(Frames(P))
    BY StreamTypes
  <2>2. CASE c.wire[s] = <<>>
    BY <1>1, <2>2 DEF Arrived, Control
  <2>3. CASE c.wire[s] # <<>>
    <3>1. Head(z) = Head(c.wire[s]) /\ z # <<>>
      BY <1>1, <2>1, <2>3, TakenFromFirst
    <3>2. Head(z) = z[1] /\ 1 \in DOMAIN z
      BY <3>1, Shorter
    <3>. QED
      BY <1>1, <2>3, <3>1, <3>2 DEF Arrived
  <2>. QED
    BY <2>2, <2>3
<1>2. /\ \A t \in Sides : c.queue[t] \in Seq(Frames(P))
      /\ Echoes(c) \in Seq(Frames(P)) /\ Inbound(c) \in Seq(Frames(P))
  BY StreamTypes
<1>3. Arrived(c, "server").op \in {"none", "request", "eof"}
  <2>. DEFINE O == {"none", "request", "eof"}
  <2>1. "none" \in O /\ \A k \in DOMAIN Inbound(c) : Inbound(c)[k].op \in O
    BY DEF Fresh
  <2>2. Inbound(c) = c.wire["server"] \o c.queue["client"]
    BY DEF Inbound
  <2>3. "server" \in Sides /\ c.queue["client"] \in Seq(Frames(P))
    BY <1>2, TwoSides
  <2>. HIDE DEF O
  <2>4. Arrived(c, "server").op \in O
    BY <1>1, <1>2, <2>1, <2>2, <2>3, Zenon
  <2>. QED
    BY <2>4 DEF O
<1>4. Arrived(c, "client").op \in {"none", "response", "eof"}
  <2>. DEFINE O == {"none", "response", "eof"}
  <2>1. "none" \in O /\ \A k \in DOMAIN Echoes(c) : Echoes(c)[k].op \in O
    BY DEF Fresh
  <2>2. Echoes(c) = c.wire["client"] \o c.queue["server"]
    BY DEF Echoes
  <2>3. "client" \in Sides /\ c.queue["server"] \in Seq(Frames(P))
    BY <1>2, TwoSides
  <2>. HIDE DEF O
  <2>4. Arrived(c, "client").op \in O
    BY <1>1, <1>2, <2>1, <2>2, <2>3, Zenon
  <2>. QED
    BY <2>4 DEF O
<1>. QED
  BY <1>3, <1>4

\* The server's steps of the library
LEMMA ServerQuietStream ==
  ASSUME NEW P, NEW c \in Connections(P), NEW h \in Nat, NEW n, Stream(c, h, n),
         NEW d \in Quiet(c, "server")
  PROVE  Stream(d, h, n)
<1> USE TwoSides
<1>1. d \in Connections(P) /\ d.state["client"] = c.state["client"]
  BY QuietIs
<1>2. /\ Echoes(c) \in Seq(Frames(P)) /\ Inbound(c) \in Seq(Frames(P))
      /\ Echoes(d) \in Seq(Frames(P)) /\ Inbound(d) \in Seq(Frames(P))
  BY <1>1, StreamTypes
<1>3. ASSUME NEW b \in Connections(P), Writes(c, b, "server"), SameFlow(b, d), d.state = c.state
      PROVE  Stream(d, h, n)
  <2>1. Echoes(d) = Echoes(b) /\ Inbound(d) = Inbound(b)
    BY <1>3 DEF SameFlow, Echoes, Inbound
  <2>2. Until(Echoes(c), Echoes(d)) /\ Until(Inbound(c), Inbound(d))
    BY <1>3, <2>1, WrittenFlow
  <2>. QED
    BY <1>1, <1>3, <2>2, EndsInStream
<1>4. ASSUME NEW b \in Connections(P), Writes(c, b, "server") \/ b = c,
             Ends(b, d, "server"), d.state["server"] = "closed"
      PROVE  Stream(d, h, n)
  <2>1. Until(Echoes(c), Echoes(b)) /\ Until(Inbound(c), Inbound(b))
    <3>1. CASE Writes(c, b, "server")
      BY <3>1, WrittenFlow
    <3>2. CASE b = c
      BY <3>2 DEF Until
    <3>. QED
      BY <1>4, <3>1, <3>2
  <2>2. EndedBy(Echoes(b), Echoes(d), Eof) /\ EndedBy(Inbound(b), Inbound(d), Eof)
    BY <1>1, <1>4, EndedFlow
  <2>3. Echoes(b) \in Seq(Frames(P)) /\ Inbound(b) \in Seq(Frames(P))
    BY StreamTypes
  <2>4. EndedBy(Echoes(c), Echoes(d), Eof) /\ EndedBy(Inbound(c), Inbound(d), Eof)
    BY <1>2, <2>1, <2>2, <2>3, UntilAgain
  <2>. QED
    BY <1>1, <1>4, <2>4, EndsInStream DEF Until
<1>5. ASSUME c.state["server"] = "closing" \/ CanReadClose(c, "server"),
             c.state["client"] = "open" => InStep(d, h, n)
      PROVE  Stream(d, h, n)
  <2>1. CanReadClose(c, "server") => Arrived(c, "server").op \in {"close", "ack"}
    BY DEF CanReadClose
  <2>2. ~Fresh(c, h, n)
    BY <1>5, <2>1, FreshArrives DEF Fresh
  <2>. QED
    BY <1>1, <1>5, <2>2 DEF Stream
<1>6. ASSUME c.state["server"] = "closing", Echoes(d) = Echoes(c) PROVE Stream(d, h, n)
  <2>1. ASSUME InStep(c, h, n) PROVE InStep(d, h, n)
    <3>1. Cut(Echoes(c))
      BY <1>6, <2>1 DEF InStep
    <3>. QED
      BY <1>1, <1>6, <2>1, <3>1, CutInStep
  <2>. QED
    BY <1>5, <1>6, <2>1 DEF Stream
<1>7. ASSUME Drops(c, "server"), Takes(c, d, "server"), d.state = c.state PROVE Stream(d, h, n)
  <2>1. c.state["server"] = "closing" /\ Echoes(d) = Echoes(c)
    BY <1>1, <1>7, TakenFlow DEF Drops
  <2>. QED
    BY <1>6, <2>1
<1>8. ASSUME CanReadClose(c, "server"), NEW b \in Connections(P), Takes(c, b, "server"),
             \/ SameFlow(b, d) /\ c.state["server"] = "closing"
             \/ Queues(b, d, "server", Control("ack")) /\ d.state["server"] = "closing"
             \/ Ends(b, d, "server") /\ d.state["server"] = "closed"
      PROVE  Stream(d, h, n)
  <2>1. Echoes(b) = Echoes(c)
    BY <1>8, TakenFlow
  <2>2. CASE SameFlow(b, d) /\ c.state["server"] = "closing"
    <3>1. Echoes(d) = Echoes(c)
      BY <2>1, <2>2 DEF SameFlow, Echoes
    <3>. QED
      BY <1>6, <2>2, <3>1
  <2>3. ASSUME NEW g, g.op \in {"ack", "eof"}, EndedBy(Echoes(c), Echoes(d), g) PROVE Stream(d, h, n)
    <3>1. ASSUME InStep(c, h, n) PROVE InStep(d, h, n)
      <4>1. g.op # "text" /\ g.op \in {"close", "ack", "eof"}
        BY <2>3
      <4>. QED
        BY <1>1, <2>3, <3>1, <4>1, EndedInStep
    <3>. QED
      BY <1>5, <1>8, <3>1 DEF Stream
  <2>4. CASE Queues(b, d, "server", Control("ack"))
    <3>1. Control("ack") \in Frames(P) /\ Control("ack").op = "ack"
      BY FrameTypes DEF Control
    <3>2. Echoes(d) = Append(Echoes(c), Control("ack"))
      BY <1>1, <2>1, <2>4, <3>1, QueuedFlow
    <3>3. EndedBy(Echoes(c), Echoes(d), Control("ack"))
      BY <1>2, <3>1, <3>2, AppendedEnds
    <3>. QED
      BY <2>3, <3>1, <3>3
  <2>5. CASE Ends(b, d, "server")
    <3>1. EndedBy(Echoes(c), Echoes(d), Eof)
      BY <1>1, <2>1, <2>5, EndedFlow
    <3>2. Eof.op = "eof"
      BY DEF Eof, Control
    <3>. QED
      BY <2>3, <3>1, <3>2
  <2>. QED
    BY <1>8, <2>2, <2>4, <2>5
<1>9. ASSUME Ends(c, d, "server"), d.state["server"] = "closed" PROVE Stream(d, h, n)
  BY <1>4, <1>9
<1>. QED
  BY <1>3, <1>4, <1>7, <1>8, <1>9, QuietFlow

\* The client's steps of the library
LEMMA ClientQuietStream ==
  ASSUME NEW P, NEW c \in Connections(P), NEW h \in Nat, NEW n, Stream(c, h, n),
         NEW d \in Quiet(c, "client")
  PROVE  Stream(d, h, n)
<1> USE TwoSides
<1>1. /\ d \in Connections(P) /\ d.state["server"] = c.state["server"]
      /\ c.state["client"] = "closing" => d.state["client"] \in {"closing", "closed"}
  BY QuietIs
<1>2. ASSUME NEW b \in Connections(P), Writes(c, b, "client"), SameFlow(b, d), d.state = c.state
      PROVE  Stream(d, h, n)
  <2>1. Echoes(d) = Echoes(b) /\ Inbound(d) = Inbound(b)
    BY <1>2 DEF SameFlow, Echoes, Inbound
  <2>2. Until(Echoes(c), Echoes(d)) /\ Until(Inbound(c), Inbound(d))
    BY <1>2, <2>1, WrittenFlow
  <2>. QED
    BY <1>1, <1>2, <2>2, EndsInStream
<1>3. \/ \E b \in Connections(P) : Writes(c, b, "client") /\ SameFlow(b, d) /\ d.state = c.state
      \/ c.state["client"] = "closing"
      \/ d.state["client"] \in {"closing", "closed"}
  <2>1. Drops(c, "client") => c.state["client"] = "closing"
    BY DEF Drops
  <2>. QED
    BY <2>1, QuietFlow
<1>. QED
  BY <1>1, <1>2, <1>3, OverIsStream

-----------------------------------------------------------------------------
(* The handlers                                                            *)

\* The frame a handler is given
LEMMA DeliveredIs ==
  ASSUME NEW P, NEW c \in Connections(P), NEW s \in Sides, Delivers(c, s)
  PROVE  /\ c.state[s] = "open" /\ c.wire[s] # <<>>
         /\ Arrived(c, s) = Head(c.wire[s]) /\ Head(c.wire[s]).payload \in P
         /\ Head(c.wire[s]) = Text(Head(c.wire[s]).payload)
<1>1. c.state[s] = "open" /\ Arrived(c, s).op = "text" /\ c.wire[s] \in Seq(Frames(P))
  BY StreamTypes DEF Delivers
<1>2. c.wire[s] # <<>> /\ Arrived(c, s) = Head(c.wire[s])
  BY <1>1 DEF Arrived, Control
<1>3. Head(c.wire[s]) \in Frames(P)
  BY <1>1, <1>2, HeadAndTail
<1>4. \A f \in Frames(P) : f.op = "text" => f.payload \in P /\ f = Text(f.payload)
  BY DEF Frames, Text
<1>. QED
  BY <1>1, <1>2, <1>3, <1>4

\* The server reads the request; its response is the first frame it sends.
LEMMA RespondedStream ==
  ASSUME NEW P, NEW c \in Connections(P), NEW h \in Nat, NEW n, Stream(c, h, n), CanRespond(c)
  PROVE  Stream(Respond(c), h, n)
<1> USE TwoSides
<1>. DEFINE d == Respond(c)
            r == Control("response")
<1>1. c.state["server"] = "connecting" /\ c.wire["server"] # <<>>
  BY DEF CanRespond, Arrived, Control
<1>2. /\ d \in Connections(P) /\ d.queue = c.queue
      /\ d.state["server"] = "responding" /\ d.state["client"] = c.state["client"]
      /\ d.wire["server"] = Tail(c.wire["server"]) /\ d.wire["client"] = Push(c.wire["client"], r)
  BY RespondIs
<1>. HIDE DEF d
<1>3. r \in Frames(P) /\ r.op = "response" /\ Eof.op = "eof"
  BY FrameTypes DEF Control, Eof
<1>4. \A s \in Sides : c.wire[s] \in Seq(Frames(P)) /\ c.queue[s] \in Seq(Frames(P))
  BY StreamTypes
<1>5. \E g \in {r, Eof} : EndedBy(Echoes(c), Echoes(d), g)
  <2>1. Echoes(d) = Push(c.wire["client"], r) \o c.queue["server"]
    BY <1>2 DEF Echoes
  <2>2. \E g \in {r, Eof} : EndedBy(c.wire["client"] \o c.queue["server"],
                                    Push(c.wire["client"], r) \o c.queue["server"], g)
    <3>. HIDE DEF r
    <3>. QED
      BY <1>3, <1>4, EndedByPush
  <2>. QED
    BY <2>1, <2>2 DEF Echoes
<1>6. Inbound(c) # <<>> /\ Inbound(d) = Tail(Inbound(c)) /\ Inbound(c) \in Seq(Frames(P))
  <2>. DEFINE v == c.wire["server"]
              q == c.queue["client"]
  <2>1. v \in Seq(Frames(P)) /\ q \in Seq(Frames(P)) /\ v # <<>>
    BY <1>1, <1>4
  <2>2. Inbound(c) = v \o q /\ Inbound(d) = Tail(v) \o q
    BY <1>2 DEF Inbound
  <2>. HIDE DEF v, q
  <2>3. Tail(v) \o q = Tail(v \o q) /\ v \o q # <<>> /\ v \o q \in Seq(Frames(P))
    BY <2>1, TakenFromFirst, Joined
  <2>. QED
    BY <2>2, <2>3
<1>7. ASSUME Fresh(c, h, n) PROVE Fresh(d, h, n)
  <2>1. \A k \in DOMAIN Echoes(d) : Echoes(d)[k].op \in {"response", "eof"}
    BY <1>3, <1>5, <1>7 DEF EndedBy, Fresh
  <2>2. \A k \in DOMAIN Inbound(d) : Inbound(d)[k].op \in {"request", "eof"}
    <3>. SUFFICES ASSUME NEW k \in DOMAIN Inbound(d) PROVE Inbound(d)[k].op \in {"request", "eof"}
      OBVIOUS
    <3>1. k + 1 \in DOMAIN Inbound(c) /\ Inbound(d)[k] = Inbound(c)[k + 1]
      BY <1>6, Shorter
    <3>. QED
      BY <1>7, <3>1 DEF Fresh
  <2>. QED
    BY <1>2, <1>7, <2>1, <2>2 DEF Fresh
<1>8. ASSUME InStep(c, h, n) PROVE InStep(d, h, n)
  <2>1. PICK g \in {r, Eof} : EndedBy(Echoes(c), Echoes(d), g)
    BY <1>5
  <2>2. g.op # "text"
    BY <1>3
  <2>. QED
    BY <1>2, <1>8, <2>1, <2>2, EndedInStep
<1>9. Stream(d, h, n)
  BY <1>2, <1>7, <1>8 DEF Stream
<1>. QED
  BY <1>9 DEF d

\* The response is written.
LEMMA ServerOpensStream ==
  ASSUME NEW P, NEW c \in Connections(P), NEW h \in Nat, NEW n, Stream(c, h, n), CanOpen(c, "server")
  PROVE  Stream(Open(c, "server"), h, n)
<1> USE TwoSides
<1>. DEFINE d == Open(c, "server")
<1>1. /\ d \in Connections(P) /\ d.queue = c.queue
      /\ d.state["server"] = "open" /\ d.state["client"] = c.state["client"]
      /\ \A t \in Sides : d.wire[t] = c.wire[t]
  BY OpenIs
<1>. HIDE DEF d
<1>2. Until(Echoes(c), Echoes(d)) /\ Until(Inbound(c), Inbound(d))
  BY <1>1 DEF Until, Echoes, Inbound
<1>3. Stream(d, h, n)
  BY <1>1, <1>2, EndsInStream
<1>. QED
  BY <1>3 DEF d

\* A session that is ended, by a handshake timer that runs late
LEMMA CutStream ==
  ASSUME NEW P, NEW c \in Connections(P), NEW h \in Nat, NEW n, Stream(c, h, n), NEW s \in Sides
  PROVE  Stream(Terminate(c, s), h, n)
<1>. DEFINE d == Terminate(c, s)
<1>1. /\ d \in Connections(P)
      /\ \A t \in Sides : d.state[t] = IF t = s THEN "closed" ELSE c.state[t]
      /\ \A t \in Sides : d.queue[t] = IF t = s THEN <<>> ELSE c.queue[t]
      /\ \A t \in Sides : d.wire[t] = IF t = s THEN <<Eof>> ELSE Push(c.wire[t], Eof)
  BY TerminateIs
<1>. HIDE DEF d
<1>5. Ends(c, d, s)
  BY <1>1, TwoSides DEF Ends
<1> USE TwoSides, <1>5
<1>2. EndedBy(Echoes(c), Echoes(d), Eof) /\ EndedBy(Inbound(c), Inbound(d), Eof)
  BY <1>1, EndedFlow
<1>3. CASE s = "client"
  BY <1>1, <1>3, OverIsStream DEF d
<1>4. CASE s = "server"
  <2>1. Stream(d, h, n)
    BY <1>1, <1>2, <1>4, EndsInStream DEF Until
  <2>. QED
    BY <2>1 DEF d
<1>. QED
  BY <1>3, <1>4 DEF Sides

\* my_message_cb: a text goes from the front of what comes in to the end of what
\* goes out.
LEMMA EchoedStream ==
  ASSUME NEW P, NEW c \in Connections(P), NEW h \in Nat, NEW n, Stream(c, h, n), Delivers(c, "server"),
         NEW m, m = Head(c.wire["server"]).payload, m # Exit
  PROVE  Stream(Send(Taken(c, "server"), "server", m), h, n)
<1> USE TwoSides
<1>. DEFINE b == Taken(c, "server")
            d == Send(b, "server", m)
<1>1. /\ c.state["server"] = "open" /\ c.wire["server"] # <<>> /\ m \in P
      /\ Head(c.wire["server"]) = Text(m) /\ Arrived(c, "server").op = "text"
  BY DeliveredIs DEF Delivers
<1>2. b \in Connections(P) /\ b.state = c.state /\ Takes(c, b, "server")
  BY <1>1, TakenIs DEF Takes
<1>. HIDE DEF b
<1>3. d \in Connections(P) /\ d.state = b.state /\ Queues(b, d, "server", Text(m)) /\ Text(m) \in Frames(P)
  BY <1>1, <1>2, SendIs, FrameTypes DEF Queues
<1>. HIDE DEF d
<1>4. /\ Echoes(d) = Append(Echoes(c), Text(m)) /\ Inbound(d) = Tail(Inbound(c))
      /\ Inbound(c) # <<>> /\ Head(Inbound(c)) = Text(m)
  BY <1>1, <1>2, <1>3, TakenFlow, QueuedFlow
<1>5. ~Fresh(c, h, n)
  BY <1>1, FreshArrives
<1>6. ASSUME InStep(c, h, n) PROVE InStep(d, h, n)
  <2>1. Echoes(c) \in Seq(Frames(P)) /\ Inbound(c) \in Seq(Frames(P))
    BY StreamTypes
  <2>2. Echoes(d) \o Inbound(d) = Echoes(c) \o Inbound(c)
    BY <1>4, <2>1, Passed
  <2>3. NoExit(Echoes(d))
    <3>1. Text(m).payload # Exit
      BY DEF Text
    <3>2. NoExit(Echoes(c))
      BY <1>6 DEF InStep
    <3>. DEFINE x == Echoes(c)
    <3>3. /\ Len(x) \in Nat /\ DOMAIN x = 1..Len(x) /\ DOMAIN Append(x, Text(m)) = 1..(Len(x) + 1)
          /\ \A k \in 1..Len(x) : Append(x, Text(m))[k] = x[k]
          /\ Append(x, Text(m))[Len(x) + 1] = Text(m)
      BY <1>3, <2>1, Longer
    <3>. QED
      BY <1>4, <3>1, <3>2, <3>3 DEF NoExit
  <2>4. d.state["server"] = "open"
    BY <1>1, <1>2, <1>3
  <2>. QED
    BY <1>6, <2>2, <2>3, <2>4 DEF InStep
<1>7. Stream(d, h, n)
  BY <1>2, <1>3, <1>5, <1>6 DEF Stream
<1>. QED
  BY <1>7 DEF d, b

\* The word exit, upon which the server closes
LEMMA ExitStream ==
  ASSUME NEW P, NEW c \in Connections(P), NEW h \in Nat, NEW n, Stream(c, h, n), Delivers(c, "server")
  PROVE  Stream(Close(Taken(c, "server"), "server"), h, n)
<1> USE TwoSides
<1>. DEFINE b == Taken(c, "server")
            d == Close(b, "server")
            g == Control("close")
<1>1. c.wire["server"] # <<>> /\ Arrived(c, "server").op = "text"
  BY DeliveredIs DEF Delivers
<1>2. b \in Connections(P) /\ b.state = c.state /\ Takes(c, b, "server")
  BY <1>1, TakenIs DEF Takes
<1>. HIDE DEF b
<1>3. d \in Connections(P) /\ d.state["client"] = c.state["client"] /\ Queues(b, d, "server", g)
  BY <1>2, CloseIs
<1>. HIDE DEF d
<1>4. g \in Frames(P) /\ g.op = "close"
  BY FrameTypes DEF Control
<1>5. EndedBy(Echoes(c), Echoes(d), g)
  <2>1. Echoes(d) = Append(Echoes(c), g)
    BY <1>2, <1>3, <1>4, TakenFlow, QueuedFlow
  <2>. QED
    BY <1>4, <2>1, StreamTypes, AppendedEnds
<1>6. ~Fresh(c, h, n)
  BY <1>1, FreshArrives
<1>7. ASSUME InStep(c, h, n) PROVE InStep(d, h, n)
  <2>1. g.op # "text" /\ g.op \in {"close", "ack", "eof"}
    BY <1>4
  <2>. HIDE DEF g
  <2>. QED
    BY <1>3, <1>5, <1>7, <2>1, EndedInStep
<1>8. Stream(d, h, n)
  BY <1>3, <1>6, <1>7 DEF Stream
<1>. QED
  BY <1>8 DEF d, b

-----------------------------------------------------------------------------
(* The client's part                                                       *)

\* The client has read the response: there is no text yet, and none was sent.
LEMMA ClientOpensStream ==
  ASSUME NEW P, NEW c \in Connections(P), NEW h \in Nat, NEW n, Stream(c, h, n), CanOpen(c, "client")
  PROVE  Stream(Open(c, "client"), h, n)
<1> USE TwoSides
<1>. DEFINE d == Open(c, "client")
<1>1. /\ c.state["client"] = "connecting" /\ c.wire["client"] # <<>>
      /\ Arrived(c, "client").op = "response"
  BY DEF CanOpen, Arrived, Control
<1>2. /\ d \in Connections(P) /\ d.queue = c.queue
      /\ d.state["client"] = "open" /\ d.state["server"] = c.state["server"]
      /\ d.wire["client"] = Tail(c.wire["client"]) /\ d.wire["server"] = c.wire["server"]
  BY OpenIs
<1>. HIDE DEF d
<1>3. Fresh(c, h, n)
  BY <1>1 DEF Stream
<1>4. Takes(c, d, "client")
  BY <1>1, <1>2 DEF Takes, Sides
<1>5. /\ Inbound(d) = Inbound(c) /\ Echoes(c) # <<>> /\ Echoes(d) = Tail(Echoes(c))
      /\ Head(Echoes(c)).op = "response"
  BY <1>1, <1>2, <1>4, TakenFlow DEF Arrived
<1>. DEFINE x == Echoes(c)
            y == Echoes(d)
            w == Inbound(d)
<1>6. /\ x \in Seq(Frames(P)) /\ y \in Seq(Frames(P)) /\ w \in Seq(Frames(P))
      /\ Len(x) \in Nat \ {0} /\ DOMAIN x = 1..Len(x) /\ DOMAIN y = 1..(Len(x) - 1)
      /\ x[1].op = "response" /\ \A k \in 1..(Len(x) - 1) : y[k] = x[k + 1]
  BY <1>2, <1>5, StreamTypes, Shorter
<1>7. /\ \A k \in DOMAIN x : x[k].op \in {"response", "eof"}
      /\ \A k \in DOMAIN w : w[k].op \in {"request", "eof"}
      /\ h = 0 /\ n = 0 /\ c.state["server"] # "closing"
      /\ c.state["server"] = "closed" => Cut(x)
  BY <1>3, <1>5 DEF Fresh
<1>. HIDE DEF x, y, w
<1>8. \A k \in DOMAIN y : y[k].op \in {"response", "eof"}
  <2>1. \A k \in DOMAIN y : k + 1 \in DOMAIN x /\ y[k] = x[k + 1]
    BY <1>6
  <2>. QED
    BY <1>7, <2>1, Zenon
<1>9. NoExit(y)
  BY <1>8 DEF NoExit
<1>10. ASSUME Cut(x) PROVE Cut(y)
  <2>1. PICK k \in DOMAIN x : x[k].op \in {"close", "ack", "eof"}
    BY <1>10 DEF Cut
  <2>2. k # 1 /\ k - 1 \in DOMAIN y /\ y[k - 1] = x[k]
    BY <1>6, <2>1
  <2>. QED
    BY <2>1, <2>2 DEF Cut
<1>11. Numbered(y \o w, h, n)
  <2>1. /\ y \o w \in Seq(Frames(P)) /\ DOMAIN (y \o w) = 1..Len(y \o w) /\ Len(y \o w) \in Nat
    BY <1>6, Joined
  <2>2. ASSUME y \o w # <<>> PROVE ~PlainText((y \o w)[1]) /\ 1 \in DOMAIN (y \o w)
    <3>1. 1 \in DOMAIN (y \o w)
      BY <2>1, <2>2
    <3>2. CASE y # <<>>
      <4>1. 1 \in DOMAIN y /\ (y \o w)[1] = y[1]
        BY <1>6, <3>2, Joined
      <4>. QED
        BY <1>8, <3>1, <4>1 DEF PlainText
    <3>3. CASE y = <<>>
      <4>1. 1 \in DOMAIN w /\ (y \o w)[1] = w[1]
        BY <1>6, <2>2, <3>3
      <4>. QED
        BY <1>7, <3>1, <4>1 DEF PlainText
    <3>. QED
      BY <3>2, <3>3
  <2>3. ASSUME NEW k \in DOMAIN (y \o w) PROVE ~(\A j \in 1..k : PlainText((y \o w)[j]))
    <3>1. y \o w # <<>> /\ 1 \in 1..k
      BY <2>1
    <3>. QED
      BY <2>2, <3>1
  <2>4. Plain(y \o w) => Len(y \o w) = 0
    BY <2>1, <2>2 DEF Plain
  <2>. QED
    BY <1>7, <2>3, <2>4 DEF Numbered
<1>12. InStep(d, h, n)
  BY <1>2, <1>7, <1>9, <1>10, <1>11 DEF InStep, y, w
<1>13. Stream(d, h, n)
  BY <1>2, <1>12 DEF Stream
<1>. QED
  BY <1>13 DEF d

\* The message a client is given is the echo of its next text.
LEMMA HeardIsNext ==
  ASSUME NEW P, NEW c \in Connections(P), NEW h \in Nat, NEW n, Stream(c, h, n), Delivers(c, "client")
  PROVE  /\ Head(c.wire["client"]).payload = h + 1
         /\ Stream(Taken(c, "client"), h + 1, n)
<1> USE TwoSides
<1>. DEFINE d == Taken(c, "client")
<1>1. /\ c.state["client"] = "open" /\ c.wire["client"] # <<>> /\ Head(c.wire["client"]).op = "text"
  BY DeliveredIs DEF Delivers
<1>2. d \in Connections(P) /\ d.state = c.state /\ Takes(c, d, "client")
  BY <1>1, TakenIs DEF Takes
<1>. HIDE DEF d
<1>. DEFINE x == Echoes(c)
            w == Inbound(c)
<1>3. Inbound(d) = w /\ x # <<>> /\ Echoes(d) = Tail(x) /\ Head(x) = Head(c.wire["client"])
  BY <1>2, TakenFlow
<1>4. x \in Seq(Frames(P)) /\ w \in Seq(Frames(P))
  BY StreamTypes
<1>5. Numbered(x \o w, h, n) /\ NoExit(x) /\ (c.state["server"] \in {"closing", "closed"} => Cut(x))
  BY <1>1 DEF Stream, InStep
<1>. HIDE DEF x, w
<1>6. /\ Len(x) \in Nat \ {0} /\ DOMAIN x = 1..Len(x) /\ DOMAIN Tail(x) = 1..(Len(x) - 1)
      /\ Head(x) = x[1] /\ \A k \in 1..(Len(x) - 1) : Tail(x)[k] = x[k + 1]
  BY <1>3, <1>4, Shorter
<1>7. PlainText(x[1])
  BY <1>1, <1>3, <1>5, <1>6 DEF NoExit, PlainText
<1>8. /\ x \o w \in Seq(Frames(P)) /\ x \o w # <<>> /\ (x \o w)[1] = x[1]
      /\ Tail(x) \o w = Tail(x \o w)
  <2>1. 1 \in 1..Len(x)
    BY <1>6
  <2>. QED
    BY <1>3, <1>4, <2>1, Joined, TakenFromFirst
<1>9. x[1].payload = h + 1 /\ Numbered(Tail(x) \o w, h + 1, n)
  <2>. DEFINE z == x \o w
  <2>. HIDE DEF z
  <2>1. z \in Seq(Frames(P)) /\ z # <<>> /\ Numbered(z, h, n) /\ PlainText(z[1])
    BY <1>5, <1>7, <1>8 DEF z
  <2>2. z[1].payload = h + 1 /\ Numbered(Tail(z), h + 1, n)
    BY <2>1, NumberedTail
  <2>. QED
    BY <1>8, <2>2 DEF z
<1>10. NoExit(Tail(x))
  BY <1>5, <1>6 DEF NoExit
<1>11. ASSUME Cut(x) PROVE Cut(Tail(x))
  <2>1. PICK k \in DOMAIN x : x[k].op \in {"close", "ack", "eof"}
    BY <1>11 DEF Cut
  <2>2. k # 1
    BY <1>7, <2>1 DEF PlainText
  <2>3. k - 1 \in DOMAIN Tail(x) /\ Tail(x)[k - 1] = x[k]
    BY <1>6, <2>1, <2>2
  <2>. QED
    BY <2>1, <2>3 DEF Cut
<1>12. InStep(d, h + 1, n)
  BY <1>2, <1>3, <1>5, <1>9, <1>10, <1>11 DEF InStep
<1>13. Stream(d, h + 1, n)
  BY <1>1, <1>2, <1>12 DEF Stream
<1>. QED
  BY <1>3, <1>6, <1>9, <1>13 DEF d

\* A text, or exit, that a client sends
LEMMA SentStream ==
  ASSUME NEW P, NEW c \in Connections(P), NEW h \in Nat, NEW n \in Nat, Stream(c, h, n),
         c.state["client"] = "open", NEW m \in P, m \in {n + 1, Exit}
  PROVE  Stream(Send(c, "client", m), h, n + 1)
<1> USE TwoSides
<1>. DEFINE d == Send(c, "client", m)
            f == Text(m)
<1>1. d \in Connections(P) /\ d.state = c.state /\ Queues(c, d, "client", f)
  BY SendIs DEF Queues
<1>. HIDE DEF d
<1>2. f \in Frames(P) /\ f.payload = m
  BY FrameTypes DEF Text
<1>. HIDE DEF f
<1>. DEFINE x == Echoes(c)
            w == Inbound(c)
<1>3. Inbound(d) = Append(w, f) /\ Echoes(d) = x
  BY <1>1, <1>2, QueuedFlow
<1>4. c.state["client"] = "open"
  OBVIOUS
<1>5. x \in Seq(Frames(P)) /\ w \in Seq(Frames(P)) /\ Numbered(x \o w, h, n)
  BY <1>4, StreamTypes DEF Stream, InStep
<1>. HIDE DEF x, w
<1>6. x \o w \in Seq(Frames(P)) /\ x \o Append(w, f) = Append(x \o w, f)
  BY <1>2, <1>5, Joined, AppendedToSecond
<1>7. PlainText(f) => f.payload = n + 1
  BY <1>2 DEF PlainText
<1>8. Numbered(Append(x \o w, f), h, n + 1)
  <2>. DEFINE z == x \o w
  <2>. HIDE DEF z
  <2>1. z \in Seq(Frames(P)) /\ Numbered(z, h, n)
    BY <1>5, <1>6 DEF z
  <2>2. Numbered(Append(z, f), h, n + 1)
    BY <1>2, <1>7, <2>1, NumberedAppend
  <2>. QED
    BY <2>2 DEF z
<1>9. InStep(d, h, n + 1)
  <2>1. Numbered(Echoes(d) \o Inbound(d), h, n + 1)
    BY <1>3, <1>6, <1>8
  <2>. QED
    BY <1>1, <1>3, <1>4, <2>1 DEF Stream, InStep, x
<1>10. Stream(d, h, n + 1)
  BY <1>1, <1>4, <1>9 DEF Stream
<1>. QED
  BY <1>10 DEF d

\* A connection that begins
LEMMA ConnectedStream == Stream(NoConnection, 0, 0) /\ Stream(Connect(NoConnection), 0, 0)
<1> USE TwoSides
<1>. DEFINE c == NoConnection
            d == Connect(c)
<1>1. /\ c.state = [s \in Sides |-> "none"]
      /\ c.queue = [s \in Sides |-> <<>>] /\ c.wire = [s \in Sides |-> <<>>]
  BY DEF NoConnection
<1>2. /\ d.queue = c.queue
      /\ d.state["server"] = "none" /\ d.state["client"] = "connecting"
      /\ d.wire["server"] = <<Control("request")>> /\ d.wire["client"] = <<>>
  BY <1>1, NoConnectionType, ConnectIs
<1>. HIDE DEF c, d
<1>3. Echoes(c) = <<>> /\ Inbound(c) = <<>>
  BY <1>1 DEF Echoes, Inbound
<1>4. Echoes(d) = <<>> /\ Inbound(d) = <<Control("request")>>
  <2>1. <<Control("request")>> \o <<>> = <<Control("request")>>
    OBVIOUS
  <2>. QED
    BY <1>1, <1>2, <2>1 DEF Echoes, Inbound
<1>5. Fresh(c, 0, 0)
  BY <1>1, <1>3 DEF Fresh
<1>6. Fresh(d, 0, 0)
  <2>1. Control("request").op = "request"
    BY DEF Control
  <2>. QED
    BY <1>2, <1>4, <2>1 DEF Fresh
<1>. QED
  BY <1>1, <1>2, <1>5, <1>6 DEF Stream, c, d

-----------------------------------------------------------------------------
(* The order is an invariant                                               *)

\* The stream before the first client starts
LEMMA InitStream == Init => StreamInv
BY ConnectedStream DEF Init, StreamInv

\* What the typing says of the stream of one client
LEMMA StreamOfOne ==
  ASSUME IInv, heard \in [Clients -> Nat], StreamInv, NEW c \in Clients
  PROVE  /\ con[c] \in Connections(Payloads) /\ heard[c] \in Nat /\ texts[c] \in Nat
         /\ Stream(con[c], heard[c], texts[c])
         /\ app[c] = "off" => con[c] = NoConnection /\ heard[c] = 0 /\ texts[c] = 0
<1>1. texts[c] \in 0..MaxTexts /\ MaxTexts \in Nat
  BY AboutOne, ChatAssumption
<1>. QED
  BY <1>1, AboutOne DEF StreamInv

\* A step that changes the connection of one client, which has started
LEMMA StreamPut ==
  ASSUME IInv, StreamInv, NEW c \in Clients, NEW d, Put(c, d), app'[c] # "off",
         \A x \in Clients : x # c => app'[x] = app[x] /\ heard'[x] = heard[x] /\ texts'[x] = texts[x],
         Stream(d, heard'[c], texts'[c])
  PROVE  StreamInv'
<1>1. con \in [Clients -> Connections(Payloads)]
  BY DEF IInv, Shapes
<1>2. \A x \in Clients : con'[x] = IF x = c THEN d ELSE con[x]
  BY <1>1 DEF Put
<1>. QED
  BY <1>2 DEF StreamInv

\* The server and the network do nothing to a connection that was not begun.
LEMMA Begun ==
  ASSUME NEW s \in Sides
  PROVE  /\ ~CanOpen(NoConnection, s) /\ ~Delivers(NoConnection, s) /\ ~CanAccept(NoConnection)
         /\ ~CanRespond(NoConnection) /\ ~TimerRunsLate(NoConnection, s)
         /\ ~Live(NoConnection, s) /\ NoConnection.ending[s] = "none"
         /\ Quiet(NoConnection, s) = {}
<1>1. /\ NoConnection.state = [t \in Sides |-> "none"] /\ NoConnection.wire = [t \in Sides |-> <<>>]
      /\ NoConnection.ending[s] = "none"
  BY DEF NoConnection
<1>2. /\ NoConnection.state[s] = "none"
      /\ NoConnection.state["server"] = "none" /\ NoConnection.wire["server"] = <<>>
  BY <1>1, TwoSides
<1>. QED
  BY <1>1, <1>2 DEF CanOpen, Delivers, CanAccept, CanRespond, TimerRunsLate, Live, Quiet, CanWrite,
                     Drops, CanReadClose, ReadsEof, HasTimer

\* The handlers of the server and its library
LEMMA ServerStepStream ==
  ASSUME IInv, heard \in [Clients -> Nat], StreamInv, NEW c \in Clients, ServerStep(c)
  PROVE  StreamInv'
<1> USE TwoSides
<1>. DEFINE k == con[c]
<1>1. /\ k \in Connections(Payloads) /\ heard[c] \in Nat
      /\ Stream(k, heard[c], texts[c])
      /\ app[c] = "off" => k = NoConnection
  BY StreamOfOne
<1>2. UNCHANGED <<app, heard, texts>>
  BY DEF ServerStep, ServerOpens, ServerHandlesEnd, ServerHandlesMessage, ServerLibrary
<1>3. ASSUME NEW d, Put(c, d), k # NoConnection, Stream(d, heard[c], texts[c]) PROVE StreamInv'
  BY <1>1, <1>2, <1>3, StreamPut
<1>. HIDE DEF k
<1>4. CASE ServerOpens(c)
  <2>1. CanOpen(k, "server") /\ Put(c, Open(k, "server"))
    BY <1>4 DEF ServerOpens, k
  <2>. QED
    BY <1>1, <1>3, <2>1, ServerOpensStream, Begun
<1>5. CASE ServerHandlesEnd(c)
  <2>. DEFINE d == Notified(k, "server")
  <2>1. k.ending["server"] # "none" /\ Put(c, d)
    BY <1>5 DEF ServerHandlesEnd, k
  <2>2. d \in Connections(Payloads) /\ d.state = k.state /\ d.queue = k.queue /\ d.wire = k.wire
    BY <1>1, NotifiedIs
  <2>. HIDE DEF d
  <2>3. Stream(d, heard[c], texts[c])
    BY <1>1, <2>2 DEF Stream, Fresh, InStep, Echoes, Inbound
  <2>. QED
    BY <1>3, <2>1, <2>3, Begun
<1>6. CASE ServerHandlesMessage(c)
  <2>. DEFINE b == Taken(k, "server")
              m == Head(k.wire["server"]).payload
  <2>1. Delivers(k, "server") /\ k # NoConnection
    BY <1>6, Begun DEF ServerHandlesMessage, k
  <2>2. k.state["server"] = "open" /\ k.wire["server"] # <<>>
    BY <1>1, <2>1, DeliveredIs
  <2>3. CanClose(b, "server") /\ CanSend(b, "server", m)
    <3>1. m # Invalid
      BY <1>1, <2>1, DeliveredIs, ChatAssumption DEF Payloads
    <3>. QED
      BY <1>1, <2>2, <3>1, TakenIs DEF CanClose, CanSend
  <2>4. CASE m = Exit
    <3>1. Put(c, Close(b, "server"))
      BY <1>6, <2>3, <2>4 DEF ServerHandlesMessage, k
    <3>2. Stream(Close(b, "server"), heard[c], texts[c])
      BY <1>1, <2>1, ExitStream
    <3>. QED
      BY <1>3, <2>1, <3>1, <3>2
  <2>5. CASE m # Exit
    <3>1. Put(c, Send(b, "server", m))
      BY <1>6, <2>3, <2>5 DEF ServerHandlesMessage, k
    <3>2. Stream(Send(b, "server", m), heard[c], texts[c])
      BY <1>1, <2>1, <2>5, EchoedStream
    <3>. QED
      BY <1>3, <2>1, <3>1, <3>2
  <2>. QED
    BY <2>4, <2>5
<1>7. CASE ServerLibrary(c)
  <2>1. ASSUME NEW d \in Quiet(k, "server"), Put(c, d) PROVE StreamInv'
    <3>1. Stream(d, heard[c], texts[c])
      BY <1>1, <2>1, ServerQuietStream
    <3>. QED
      BY <1>3, <2>1, <3>1, Begun
  <2>2. ASSUME CanAccept(k), Put(c, Accept(k)) PROVE StreamInv'
    <3>. DEFINE d == Accept(k)
    <3>1. /\ d \in Connections(Payloads) /\ d.queue = k.queue /\ d.wire = k.wire
          /\ d.state["client"] = k.state["client"]
          /\ k.state["server"] = "none" /\ d.state["server"] = "connecting"
      BY <1>1, <2>2, AcceptIs DEF CanAccept
    <3>. HIDE DEF d
    <3>2. Until(Echoes(k), Echoes(d)) /\ Until(Inbound(k), Inbound(d))
      BY <3>1 DEF Until, Echoes, Inbound
    <3>3. Stream(d, heard[c], texts[c])
      BY <1>1, <3>1, <3>2, EndsInStream
    <3>. QED
      BY <1>3, <2>2, <3>3, Begun DEF d
  <2>3. ASSUME CanRespond(k), Put(c, Respond(k)) PROVE StreamInv'
    BY <1>1, <1>3, <2>3, RespondedStream, Begun
  <2>. QED
    BY <1>7, <2>1, <2>2, <2>3 DEF ServerLibrary, k
<1>. QED
  BY <1>4, <1>5, <1>6, <1>7 DEF ServerStep

\* The client's handlers and its library
LEMMA ClientStepStream ==
  ASSUME IInv, heard \in [Clients -> Nat], StreamInv, NEW c \in Clients, ClientStep(c)
  PROVE  StreamInv'
<1> USE TwoSides
<1>. DEFINE k == con[c]
<1>1. /\ k \in Connections(Payloads) /\ heard[c] \in Nat
      /\ Stream(k, heard[c], texts[c])
  BY StreamOfOne
<1>2. app[c] = "run" /\ UNCHANGED texts
  BY DEF ClientStep, ClientOpens, ClientHandlesMessage, ClientLibrary, ClientEnds
<1>3. ASSUME NEW d, Put(c, d), UNCHANGED <<app, heard>>, Stream(d, heard[c], texts[c]) PROVE StreamInv'
  BY <1>2, <1>3, StreamPut
<1>. HIDE DEF k
<1>4. CASE ClientOpens(c)
  <2>1. CanOpen(k, "client") /\ Put(c, Open(k, "client")) /\ UNCHANGED <<app, heard>>
    BY <1>4 DEF ClientOpens, k
  <2>2. Stream(Open(k, "client"), heard[c], texts[c])
    BY <1>1, <2>1, ClientOpensStream
  <2>. QED
    BY <1>3, <2>1, <2>2
<1>5. CASE ClientHandlesMessage(c)
  <2>. DEFINE d == Taken(k, "client")
  <2>1. /\ Delivers(k, "client") /\ Put(c, d) /\ UNCHANGED app
        /\ heard' = [heard EXCEPT ![c] = @ + 1]
    BY <1>5 DEF ClientHandlesMessage, k
  <2>2. Stream(d, heard[c] + 1, texts[c])
    BY <1>1, <2>1, HeardIsNext
  <2>. HIDE DEF d
  <2>3. /\ heard'[c] = heard[c] + 1 /\ \A x \in Clients : x # c => heard'[x] = heard[x]
    BY <2>1
  <2>. QED
    BY <1>2, <2>1, <2>2, <2>3, StreamPut
<1>6. CASE ClientLibrary(c)
  <2>1. UNCHANGED <<app, heard>>
    BY <1>6 DEF ClientLibrary
  <2>2. ASSUME NEW d \in Quiet(k, "client"), Put(c, d) PROVE StreamInv'
    <3>1. Stream(d, heard[c], texts[c])
      BY <1>1, ClientQuietStream
    <3>. QED
      BY <1>3, <2>1, <2>2, <3>1
  <2>3. ASSUME Put(c, Refuse(k)) PROVE StreamInv'
    <3>1. Refuse(k).state["client"] = "closed"
      BY <1>1, TerminateIs DEF Refuse
    <3>2. Stream(Refuse(k), heard[c], texts[c])
      BY <3>1, OverIsStream
    <3>. QED
      BY <1>3, <2>1, <2>3, <3>2
  <2>4. ASSUME Put(c, Notified(k, "client")) PROVE StreamInv'
    <3>. DEFINE d == Notified(k, "client")
    <3>1. d.state = k.state /\ d.queue = k.queue /\ d.wire = k.wire
      BY <1>1, NotifiedIs
    <3>. HIDE DEF d
    <3>2. Stream(d, heard[c], texts[c])
      BY <1>1, <3>1 DEF Stream, Fresh, InStep, Echoes, Inbound
    <3>. QED
      BY <1>3, <2>1, <2>4, <3>2 DEF d
  <2>. QED
    BY <1>6, <2>2, <2>3, <2>4 DEF ClientLibrary, k
<1>7. CASE ClientEnds(c)
  <2>1. UNCHANGED <<con, heard>> /\ app' = [app EXCEPT ![c] = "ended"]
    BY <1>7 DEF ClientEnds
  <2>2. Put(c, k)
    BY <2>1 DEF Put, k, IInv, Shapes
  <2>3. app'[c] # "off" /\ \A x \in Clients : x # c => app'[x] = app[x]
    BY <2>1, AboutOne
  <2>. QED
    BY <1>1, <1>2, <2>1, <2>2, <2>3, StreamPut
<1>. QED
  BY <1>4, <1>5, <1>6, <1>7 DEF ClientStep

\* What the users do, and the network
LEMMA UserStepStream ==
  ASSUME IInv, heard \in [Clients -> Nat], StreamInv, NEW c \in Clients, UserStep(c) \/ Disturbance(c)
  PROVE  StreamInv'
<1> USE TwoSides
<1>. DEFINE k == con[c]
<1>1. /\ k \in Connections(Payloads) /\ heard[c] \in Nat /\ texts[c] \in Nat
      /\ Stream(k, heard[c], texts[c])
      /\ app[c] = "off" => k = NoConnection /\ heard[c] = 0 /\ texts[c] = 0
      /\ app \in [Clients -> {"off", "run", "ended", "crashed"}]
      /\ texts \in [Clients -> 0..MaxTexts]
  BY StreamOfOne, AboutOne
<1>2. UNCHANGED heard /\ MaxTexts \in Nat /\ MaxLines \in 0..MaxTexts
  BY ChatAssumption DEF UserStep, Disturbance, Break, CutByTimer, ClientStarts, ConsoleTypesExit,
                        ConsoleTypesText, PageSends, PageDisconnects
<1>. HIDE DEF k
<1>3. CASE ClientStarts(c)
  <2>1. app[c] = "off" /\ app' = [app EXCEPT ![c] = "run"] /\ Put(c, Connect(k)) /\ UNCHANGED texts
    BY <1>3 DEF ClientStarts, k
  <2>2. app'[c] # "off" /\ \A x \in Clients : x # c => app'[x] = app[x]
    BY <1>1, <2>1
  <2>3. Stream(Connect(k), heard[c], texts[c])
    BY <1>1, <2>1, ConnectedStream
  <2>. QED
    BY <1>2, <2>1, <2>2, <2>3, StreamPut
<1>4. Until(Echoes(k), Echoes(Lose(k))) /\ Until(Inbound(k), Inbound(Lose(k)))
  BY <1>1, LostFlow DEF Until
<1>5. Stream(Lose(k), heard[c], texts[c])
  <2>1. Lose(k) \in Connections(Payloads) /\ Lose(k).state = k.state
    BY <1>1, LoseIs
  <2>. QED
    BY <1>1, <1>4, <2>1, EndsInStream
<1>6. ASSUME Crash(c), app[c] = "run" PROVE StreamInv'
  <2>1. app' = [app EXCEPT ![c] = "crashed"] /\ Put(c, Lose(k)) /\ UNCHANGED texts
    BY <1>6 DEF Crash, k
  <2>2. app'[c] # "off" /\ \A x \in Clients : x # c => app'[x] = app[x]
    BY <1>1, <2>1
  <2>. QED
    BY <1>2, <1>5, <2>1, <2>2, StreamPut
<1>7. ASSUME Put(c, Close(k, "client")), app[c] = "run", UNCHANGED <<app, texts>> PROVE StreamInv'
  <2>1. Close(k, "client").state["client"] = "closing"
    BY <1>1, CloseIs
  <2>2. Stream(Close(k, "client"), heard[c], texts[c])
    BY <2>1, OverIsStream
  <2>. QED
    BY <1>2, <1>7, <2>2, StreamPut
<1>8. ASSUME k.state["client"] = "open", app[c] = "run", UNCHANGED app,
             texts[c] < MaxTexts, texts' = [texts EXCEPT ![c] = @ + 1],
             NEW m \in {texts[c] + 1, Exit}, Put(c, Send(k, "client", m))
      PROVE  StreamInv'
  <2>1. texts'[c] = texts[c] + 1 /\ \A x \in Clients : x # c => texts'[x] = texts[x]
    BY <1>1, <1>8
  <2>2. m \in Payloads
    BY <1>1, <1>2, <1>8 DEF Payloads
  <2>3. Stream(Send(k, "client", m), heard[c], texts[c] + 1)
    BY <1>1, <1>8, <2>2, SentStream
  <2>. QED
    BY <1>2, <1>8, <2>1, <2>3, StreamPut
<1>9. CASE c \in Consoles /\ ConsoleTypesExit(c)
  BY <1>6, <1>7, <1>9 DEF ConsoleTypesExit, k
<1>10. CASE c \in Consoles /\ ConsoleTypesText(c)
  <2>1. app[c] = "run" /\ texts[c] < MaxTexts
    BY <1>1, <1>2, <1>10 DEF ConsoleTypesText
  <2>2. PICK m \in {texts[c] + 1, Invalid} :
          IF CanSend(k, "client", m)
            THEN texts' = [texts EXCEPT ![c] = m] /\ Put(c, Send(k, "client", m)) /\ UNCHANGED app
            ELSE Crash(c)
    BY <1>10 DEF ConsoleTypesText, k
  <2>3. CASE CanSend(k, "client", m)
    <3>1. m = texts[c] + 1 /\ k.state["client"] = "open"
      BY <2>3 DEF CanSend
    <3>2. texts' = [texts EXCEPT ![c] = @ + 1]
      BY <2>2, <2>3, <3>1
    <3>. QED
      BY <1>8, <2>1, <2>2, <2>3, <3>1, <3>2
  <2>4. CASE ~CanSend(k, "client", m)
    BY <1>6, <2>1, <2>2, <2>4
  <2>. QED
    BY <2>3, <2>4
<1>11. CASE c \in Pages /\ PageSends(c)
  <2>1. PICK m \in {texts[c] + 1, Exit} : Put(c, Send(k, "client", m))
    BY <1>11 DEF PageSends, k
  <2>2. /\ k.state["client"] = "open" /\ app[c] = "run" /\ UNCHANGED app
        /\ texts[c] < MaxTexts /\ texts' = [texts EXCEPT ![c] = @ + 1]
    BY <1>11 DEF PageSends, CanSend, k
  <2>. QED
    BY <1>8, <2>1, <2>2
<1>12. CASE c \in Pages /\ PageDisconnects(c)
  BY <1>7, <1>12 DEF PageDisconnects, k
<1>13. CASE Break(c)
  <2>1. Live(k, "server") /\ Put(c, Lose(k)) /\ UNCHANGED <<app, texts>>
    BY <1>13 DEF Break, k
  <2>2. app[c] # "off"
    BY <1>1, <2>1, Begun
  <2>. QED
    BY <1>2, <1>5, <2>1, <2>2, StreamPut
<1>14. ASSUME NEW s \in Sides, CutByTimer(c, s) PROVE StreamInv'
  <2>1. TimerRunsLate(k, s) /\ Put(c, Terminate(k, s)) /\ UNCHANGED <<app, texts>>
    BY <1>14 DEF CutByTimer, k
  <2>2. app[c] # "off"
    BY <1>1, <2>1, Begun
  <2>3. Stream(Terminate(k, s), heard[c], texts[c])
    BY <1>1, CutStream
  <2>. QED
    BY <1>2, <2>1, <2>2, <2>3, StreamPut
<1>. QED
  BY <1>3, <1>9, <1>10, <1>11, <1>12, <1>13, <1>14 DEF UserStep, Disturbance

LEMMA NextStream == IInv /\ heard \in [Clients -> Nat] /\ StreamInv /\ [Next]_vars => StreamInv'
<1>1. ASSUME StreamInv, UNCHANGED vars PROVE StreamInv'
  BY <1>1 DEF vars, StreamInv
<1>. QED
  BY <1>1, ServerStepStream, ClientStepStream, UserStepStream DEF Next

\* The echoes that are on their way to a client, and behind them the texts that are
\* on their way to the server, go on where those it has heard end.
THEOREM StreamInvariant == Spec => []StreamInv
BY ChatInvariant, HeardIsNat, InitStream, NextStream, PTL DEF Spec

\* The echoes reach every client in the order of its texts, and none that follows
\* an exit, for any number of clients and texts.
THEOREM EchoesStayInOrder == Spec => []EchoesInOrder
<1>1. IInv /\ heard \in [Clients -> Nat] /\ StreamInv => EchoesInOrder
  <2>. SUFFICES ASSUME IInv, heard \in [Clients -> Nat], StreamInv, NEW c \in Clients,
                       Delivers(con[c], "client")
                PROVE  Head(con[c].wire["client"]).payload = heard[c] + 1
    BY DEF EchoesInOrder
  <2>. QED
    BY StreamOfOne, HeardIsNext
<1>. QED
  BY <1>1, ChatInvariant, HeardIsNat, StreamInvariant, PTL

\* When nothing is on its way on the connection of a client whose session is
\* open, the client has heard an echo of every text it has sent.
AllHeard ==
  \A c \in Clients :
    /\ con[c].state["client"] = "open"
    /\ \A s \in Sides : con[c].wire[s] = <<>> /\ con[c].queue[s] = <<>>
    => heard[c] = texts[c]

\* The server and the library lose no text of a session that goes on, whatever
\* the other clients do and however their connections break.
THEOREM NoTextIsLost == Spec => []AllHeard
<1>1. IInv /\ heard \in [Clients -> Nat] /\ StreamInv => AllHeard
  <2>. SUFFICES ASSUME IInv, heard \in [Clients -> Nat], StreamInv, NEW c \in Clients,
                       con[c].state["client"] = "open",
                       \A s \in Sides : con[c].wire[s] = <<>> /\ con[c].queue[s] = <<>>
                PROVE  heard[c] = texts[c]
    BY DEF AllHeard
  <2>1. heard[c] \in Nat /\ Stream(con[c], heard[c], texts[c])
    BY StreamOfOne
  <2>2. Echoes(con[c]) \o Inbound(con[c]) = <<>>
    BY TwoSides DEF Echoes, Inbound
  <2>3. Numbered(<<>>, heard[c], texts[c])
    BY <2>1, <2>2 DEF Stream, InStep
  <2>4. Plain(<<>>) /\ Len(<<>>) = 0
    BY DEF Plain
  <2>5. texts[c] = heard[c] + 0
    BY <2>3, <2>4 DEF Numbered
  <2>. QED
    BY <2>1, <2>5
<1>. QED
  BY <1>1, ChatInvariant, HeardIsNat, StreamInvariant, PTL

-----------------------------------------------------------------------------
(* The test page                                                           *)

\* The three buttons change together.
ButtonsAgree == (sendBtn <=> ~connectBtn) /\ (disconnectBtn <=> ~connectBtn)

\* Without hurry Connect is clicked on a closed socket only.
CalmClicks == ~hurried => \A s \in Sockets : s < created => readyState[s] = "closed"

PageInv == PageTypeOK /\ OldSocketsEnd /\ NeverStuck /\ ButtonsTellState /\ ButtonsAgree /\ CalmClicks

LEMMA InitPageInv == PageInit => PageInv
<1>. SUFFICES ASSUME PageInit PROVE PageInv
  OBVIOUS
<1>1. connectBtn /\ ~disconnectBtn /\ ~sendBtn /\ ~hurried
  BY DEF PageInit
<1>2. {connectBtn, disconnectBtn, sendBtn, hurried} \subseteq BOOLEAN
  BY Zenon DEF PageInit
<1>3. created = 0 /\ readyState = [s \in Sockets |-> "none"]
  BY DEF PageInit
<1>4. PageTypeOK
  BY <1>2, <1>3, PageAssumption DEF PageTypeOK, Sockets
<1>. QED
  BY <1>1, <1>3, <1>4 DEF PageInv, OldSocketsEnd, NeverStuck, ButtonsTellState, ButtonsAgree, CalmClicks,
     Sockets

\* CloseSocket touches the socket it is given and starts its closing.
LEMMA CloseSocketIs ==
  ASSUME PageTypeOK
  PROVE  LET t == CloseSocket(readyState, created)
         IN  /\ t \in [Sockets -> {"none", "connecting", "open", "closing", "closed"}]
             /\ \A s \in Sockets :
                  t[s] = IF s = created /\ readyState[s] \in {"connecting", "open"} THEN "closing"
                         ELSE readyState[s]
BY DEF PageTypeOK, CloseSocket, Sockets

LEMMA NextPageInv == PageInv /\ [PageNext]_pageVars => PageInv'
<1>. SUFFICES ASSUME PageInv, [PageNext]_pageVars PROVE PageInv'
  OBVIOUS
<1>. USE PageAssumption DEF PageInv, Sockets
<1>1. CASE ClickConnect
  <2>. DEFINE t == CloseSocket(readyState, created)
  <2>1. /\ t \in [Sockets -> {"none", "connecting", "open", "closing", "closed"}]
        /\ \A s \in Sockets :
             t[s] = IF s = created /\ readyState[s] \in {"connecting", "open"} THEN "closing"
                    ELSE readyState[s]
    BY CloseSocketIs
  <2>. HIDE DEF t
  <2>2. /\ created' = created + 1 /\ created' \in Sockets /\ created \in 0..MaxSockets
        /\ UNCHANGED <<connectBtn, disconnectBtn, sendBtn>>
        /\ connectBtn
    BY <1>1 DEF ClickConnect, buttons, PageTypeOK
  <2>3. readyState' = [t EXCEPT ![created + 1] = "connecting"]
    BY <1>1 DEF ClickConnect, Created, t
  <2>4. \A s \in Sockets : readyState'[s] = IF s = created + 1 THEN "connecting" ELSE t[s]
    BY <2>1, <2>2, <2>3
  <2>5. PageTypeOK'
    <3>1. readyState' \in [Sockets -> {"none", "connecting", "open", "closing", "closed"}]
      BY <2>1, <2>3
    <3>2. \A s \in Sockets : s > created' <=> readyState'[s] = "none"
      BY <2>1, <2>2, <2>4 DEF PageTypeOK
    <3>3. hurried' \in BOOLEAN
      BY <1>1 DEF ClickConnect
    <3>. QED
      BY <2>2, <3>1, <3>2, <3>3 DEF PageTypeOK
  <2>6. OldSocketsEnd'
    BY <2>1, <2>2, <2>4 DEF OldSocketsEnd, PageTypeOK
  <2>7. ASSUME ~hurried'
        PROVE  ~hurried /\ \A s \in Sockets : s <= created => readyState[s] = "closed"
    <3>1. ~hurried /\ ~(created > 0 /\ readyState[created] = "connecting")
      BY <1>1, <2>7 DEF ClickConnect
    <3>2. ~(created > 0 /\ readyState[created] \in {"open", "closing"})
      BY <2>2, <3>1 DEF ButtonsTellState, ButtonsAgree
    <3>. QED
      BY <2>2, <3>1, <3>2 DEF CalmClicks, PageTypeOK
  <2>8. CalmClicks'
    BY <2>1, <2>2, <2>4, <2>7 DEF CalmClicks
  <2>9. ButtonsTellState' /\ NeverStuck' /\ ButtonsAgree'
    BY <2>2, <2>4 DEF ButtonsTellState, NeverStuck, ButtonsAgree
  <2>. QED
    BY <2>5, <2>6, <2>8, <2>9
<1>2. CASE ClickDisconnect
  <2>1. /\ readyState' \in [Sockets -> {"none", "connecting", "open", "closing", "closed"}]
        /\ \A s \in Sockets :
             readyState'[s] = IF s = created /\ readyState[s] \in {"connecting", "open"}
                              THEN "closing" ELSE readyState[s]
        /\ UNCHANGED <<created, connectBtn, disconnectBtn, sendBtn, hurried>>
        /\ disconnectBtn
    BY <1>2, CloseSocketIs DEF ClickDisconnect, buttons
  <2>2. created \in 1..MaxSockets /\ readyState[created] \in {"open", "closing"}
    BY <2>1 DEF NeverStuck, ButtonsAgree, PageTypeOK
  <2>3. PageTypeOK'
    BY <2>1 DEF PageTypeOK
  <2>4. OldSocketsEnd' /\ CalmClicks'
    BY <2>1, <2>2 DEF OldSocketsEnd, CalmClicks
  <2>5. ButtonsTellState' /\ NeverStuck' /\ ButtonsAgree'
    BY <2>1, <2>2 DEF ButtonsTellState, NeverStuck, ButtonsAgree
  <2>. QED
    BY <2>3, <2>4, <2>5
<1>3. ASSUME NEW s \in Sockets, Opens(s) PROVE PageInv'
  <2>1. /\ readyState[s] = "connecting" /\ readyState' = [readyState EXCEPT ![s] = "open"]
        /\ created' = created /\ hurried' = hurried
        /\ ~connectBtn' /\ disconnectBtn' /\ sendBtn' /\ s = created
    BY <1>3 DEF Opens, OnOpen, OldSocketsEnd, PageTypeOK
  <2>2. PageTypeOK'
    <3>1. {connectBtn', disconnectBtn', sendBtn', hurried'} \subseteq BOOLEAN
      BY <1>3, Zenon DEF Opens, OnOpen, PageTypeOK
    <3>. QED
      BY <2>1, <3>1 DEF PageTypeOK
  <2>3. OldSocketsEnd' /\ CalmClicks'
    BY <2>1 DEF OldSocketsEnd, CalmClicks, PageTypeOK
  <2>4. readyState'[created] = "open" /\ created' > 0
    BY <2>1 DEF PageTypeOK
  <2>5. ButtonsTellState' /\ NeverStuck' /\ ButtonsAgree'
    BY <2>1, <2>4 DEF ButtonsTellState, NeverStuck, ButtonsAgree
  <2>. QED
    BY <2>2, <2>3, <2>5
<1>4. ASSUME NEW s \in Sockets, ServerCloses(s) PROVE PageInv'
  <2>1. /\ readyState[s] = "open" /\ readyState' = [readyState EXCEPT ![s] = "closing"]
        /\ UNCHANGED <<created, connectBtn, disconnectBtn, sendBtn, hurried>> /\ s = created
    BY <1>4 DEF ServerCloses, buttons, OldSocketsEnd, PageTypeOK
  <2>2. PageTypeOK'
    BY <2>1 DEF PageTypeOK
  <2>3. OldSocketsEnd' /\ CalmClicks'
    BY <2>1 DEF OldSocketsEnd, CalmClicks, PageTypeOK
  <2>4. readyState'[created] = "closing" /\ created > 0
    BY <2>1 DEF PageTypeOK
  <2>5. ButtonsTellState' /\ NeverStuck' /\ ButtonsAgree'
    BY <2>1, <2>4 DEF ButtonsTellState, NeverStuck, ButtonsAgree
  <2>. QED
    BY <2>2, <2>3, <2>5
<1>5. ASSUME NEW s \in Sockets, Closes(s) PROVE PageInv'
  <2>1. /\ readyState[s] \in {"connecting", "open", "closing"}
        /\ readyState' = [readyState EXCEPT ![s] = "closed"]
        /\ created' = created /\ hurried' = hurried
        /\ connectBtn' /\ ~disconnectBtn' /\ ~sendBtn'
    BY <1>5 DEF Closes, OnClose
  <2>2. PageTypeOK'
    <3>1. {connectBtn', disconnectBtn', sendBtn', hurried'} \subseteq BOOLEAN
      BY <1>5, Zenon DEF Closes, OnClose, PageTypeOK
    <3>. QED
      BY <2>1, <3>1 DEF PageTypeOK
  <2>3. OldSocketsEnd' /\ CalmClicks'
    BY <2>1 DEF OldSocketsEnd, CalmClicks, PageTypeOK
  <2>4. ~hurried => s = created
    BY <2>1 DEF CalmClicks, PageTypeOK
  <2>5. ButtonsTellState' /\ NeverStuck' /\ ButtonsAgree'
    BY <2>1, <2>4 DEF ButtonsTellState, NeverStuck, ButtonsAgree, PageTypeOK
  <2>. QED
    BY <2>2, <2>3, <2>5
<1>6. CASE UNCHANGED pageVars
  BY <1>6 DEF pageVars, PageTypeOK, OldSocketsEnd, NeverStuck, ButtonsTellState, ButtonsAgree, CalmClicks
<1>. QED
  BY <1>1, <1>2, <1>3, <1>4, <1>5, <1>6 DEF PageNext

\* The buttons, the page's ws variable and the sockets it has made agree in every
\* reachable state.
THEOREM PageInvariant == PageSpec => []PageInv
BY InitPageInv, NextPageInv, PTL DEF PageSpec

\* The sockets are numbered without a gap, each has a state of a WebSocket.
THEOREM PageTyping == PageSpec => []PageTypeOK
<1>1. PageInv => PageTypeOK
  BY DEF PageInv
<1>. QED
  BY <1>1, PageInvariant, PTL

\* The close at the head of the Connect handler leaves no old socket open,
\* however often it is clicked.
THEOREM NoSocketLeftBehind == PageSpec => []OldSocketsEnd
<1>1. PageInv => OldSocketsEnd
  BY DEF PageInv
<1>. QED
  BY <1>1, PageInvariant, PTL

\* A disabled Connect button always has a Disconnect that works beside it, and
\* a close event that will enable it again.
THEOREM PageNeverStuck == PageSpec => []NeverStuck
<1>1. PageInv => NeverStuck
  BY DEF PageInv
<1>. QED
  BY <1>1, PageInvariant, PTL

\* onopen and onclose of the sockets leave the buttons in the state of ws unless
\* Connect was clicked on a connecting socket.
THEOREM ButtonsFollowSocket == PageSpec => []ButtonsTellState
<1>1. PageInv => ButtonsTellState
  BY DEF PageInv
<1>. QED
  BY <1>1, PageInvariant, PTL

=============================================================================
