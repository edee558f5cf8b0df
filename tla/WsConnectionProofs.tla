------------------------- MODULE WsConnectionProofs -------------------------
(***************************************************************************)
(* What the operators of WsConnection make of a connection, for the proofs *)
(* about the programs that use one.                                        *)
(***************************************************************************)
EXTENDS WsConnection, TLAPS

\* What a step of side s does to the queues and wires of a connection c: nothing,
\* write a frame, take a frame, queue one, end the session
SameFlow(c, d) == d.queue = c.queue /\ d.wire = c.wire

Writes(c, d, s) ==
  /\ c.queue[s] # <<>>
  /\ \A t \in Sides : d.queue[t] = IF t = s THEN Tail(c.queue[s]) ELSE c.queue[t]
  /\ \A t \in Sides : d.wire[t] = IF t = s THEN c.wire[t] ELSE Push(c.wire[t], Head(c.queue[s]))

Takes(c, d, s) ==
  /\ c.wire[s] # <<>>
  /\ d.queue = c.queue
  /\ \A t \in Sides : d.wire[t] = IF t = s THEN Tail(c.wire[s]) ELSE c.wire[t]

Queues(c, d, s, f) ==
  /\ d.wire = c.wire
  /\ \A t \in Sides : d.queue[t] = IF t = s THEN Append(c.queue[s], f) ELSE c.queue[t]

Ends(c, d, s) ==
  \A t \in Sides :
    /\ d.queue[t] = IF t = s THEN <<>> ELSE c.queue[t]
    /\ d.wire[t] = IF t = s THEN <<Eof>> ELSE Push(c.wire[t], Eof)

\* Both sides of a connection
LEMMA TwoSides ==
  /\ "client" \in Sides /\ "server" \in Sides
  /\ Peer("client") = "server" /\ Peer("server") = "client"
  /\ \A s \in Sides : Peer(s) \in Sides /\ Peer(s) # s /\ Sides = {s, Peer(s)}
BY DEF Sides, Peer

LEMMA FrameTypes ==
  ASSUME NEW P
  PROVE  /\ Eof \in Frames(P)
         /\ \A op \in {"request", "response", "close", "ack", "eof"} : Control(op) \in Frames(P)
         /\ \A m \in P : Text(m) \in Frames(P)
         /\ \A f \in Frames(P) : f.op = "text" => f.payload \in P
BY DEF Frames, Eof, Control, Text

\* The fields of a connection
LEMMA ConnectionFields ==
  ASSUME NEW P, NEW c \in Connections(P)
  PROVE  /\ c.state \in [Sides -> {"none", "connecting", "responding", "open", "closing", "closed"}]
         /\ c.queue \in [Sides -> Seq(Frames(P))]
         /\ c.wire \in [Sides -> Seq(Frames(P))]
         /\ c.clean \in [Sides -> BOOLEAN]
         /\ c.ending \in [Sides -> {"none", "fail", "close"}]
BY DEF Connections

LEMMA PushType ==
  ASSUME NEW P, NEW w \in Seq(Frames(P)), NEW f \in Frames(P)
  PROVE  Push(w, f) \in Seq(Frames(P))
BY DEF Push

\* The first frame of a sequence of frames, and the others
LEMMA HeadAndTail ==
  ASSUME NEW P, NEW w \in Seq(Frames(P)), w # <<>>
  PROVE  Head(w) \in Frames(P) /\ Tail(w) \in Seq(Frames(P)) /\ Head(w) = w[1] /\ 1 \in DOMAIN w
OBVIOUS

LEMMA NoConnectionType == ASSUME NEW P PROVE NoConnection \in Connections(P)
BY DEF NoConnection, Connections

LEMMA EndType ==
  ASSUME NEW P, NEW c \in Connections(P), NEW s \in Sides, NEW u \in Sides,
         NEW e \in {"none", "fail", "close"}, NEW q \in Seq(Frames(P)),
         NEW v \in Seq(Frames(P)), NEW w \in Seq(Frames(P))
  PROVE  [c EXCEPT !.state[s] = "closed", !.ending[s] = e, !.queue[s] = q, !.wire[s] = v,
                   !.wire[u] = w] \in Connections(P)
BY DEF Connections

LEMMA TerminateIs ==
  ASSUME NEW P, NEW c \in Connections(P), NEW s \in Sides
  PROVE  LET d == Terminate(c, s)
         IN  /\ d \in Connections(P)
             /\ \A t \in Sides :
                  /\ d.state[t] = IF t = s THEN "closed" ELSE c.state[t]
                  /\ d.ending[t] = IF t # s THEN c.ending[t]
                                   ELSE IF c.state[s] \in Handshaking THEN "fail" ELSE "close"
                  /\ d.queue[t] = IF t = s THEN <<>> ELSE c.queue[t]
                  /\ d.wire[t] = IF t = s THEN <<Eof>> ELSE Push(c.wire[t], Eof)
<1>. DEFINE e == IF c.state[s] \in Handshaking THEN "fail" ELSE "close"
            v == <<Eof>>
            w == Push(c.wire[Peer(s)], Eof)
            u == Peer(s)
            d == Terminate(c, s)
<1>1. e \in {"none", "fail", "close"} /\ u \in Sides /\ u # s /\ Sides = {s, u}
  BY TwoSides
<1>2. v \in Seq(Frames(P)) /\ w \in Seq(Frames(P)) /\ <<>> \in Seq(Frames(P))
  <2>1. c.wire[Peer(s)] \in Seq(Frames(P))
    BY TwoSides, ConnectionFields
  <2>2. Eof \in Frames(P)
    BY FrameTypes
  <2>. QED
    BY <2>1, <2>2, PushType
<1>3. d = [c EXCEPT !.state[s] = "closed", !.ending[s] = e, !.queue[s] = <<>>, !.wire[s] = v,
                    !.wire[u] = w]
  BY <1>1, Zenon DEF Terminate
<1>4. d \in Connections(P)
  <2>. HIDE DEF e, v, w, u, d
  <2>. QED
    BY <1>1, <1>2, <1>3, EndType, Zenon
<1>5. /\ d.state = [c.state EXCEPT ![s] = "closed"]
      /\ d.queue = [c.queue EXCEPT ![s] = <<>>]
      /\ d.wire = [c.wire EXCEPT ![s] = v, ![u] = w]
      /\ d.ending = [c.ending EXCEPT ![s] = e]
  <2>. HIDE DEF e, v, w, u, d
  <2>. QED
    BY <1>1, <1>2, <1>3 DEF Connections
<1>6. \A t \in Sides : d.state[t] = IF t = s THEN "closed" ELSE c.state[t]
  BY <1>5, ConnectionFields
<1>7. \A t \in Sides : d.ending[t] = IF t = s THEN e ELSE c.ending[t]
  BY <1>5, ConnectionFields
<1>8. \A t \in Sides : d.queue[t] = IF t = s THEN <<>> ELSE c.queue[t]
  BY <1>5, ConnectionFields
<1>9. \A t \in Sides : d.wire[t] = IF t = s THEN <<Eof>> ELSE Push(c.wire[t], Eof)
  BY <1>1, <1>5, ConnectionFields
<1>. QED
  BY <1>4, <1>6, <1>7, <1>8, <1>9

LEMMA NotifiedIs ==
  ASSUME NEW P, NEW c \in Connections(P), NEW s \in Sides
  PROVE  LET d == Notified(c, s)
         IN  /\ d \in Connections(P)
             /\ d.state = c.state /\ d.queue = c.queue /\ d.wire = c.wire
             /\ \A t \in Sides : d.ending[t] = IF t = s THEN "none" ELSE c.ending[t]
BY DEF Notified, Connections

LEMMA AcceptIs ==
  ASSUME NEW P, NEW c \in Connections(P)
  PROVE  LET d == Accept(c)
         IN  /\ d \in Connections(P)
             /\ d.queue = c.queue /\ d.wire = c.wire /\ d.ending = c.ending
             /\ \A t \in Sides : d.state[t] = IF t = "server" THEN "connecting" ELSE c.state[t]
BY TwoSides DEF Accept, Connections

LEMMA TakenIs ==
  ASSUME NEW P, NEW c \in Connections(P), NEW s \in Sides, c.wire[s] # <<>>
  PROVE  LET d == Taken(c, s)
         IN  /\ d \in Connections(P)
             /\ d.state = c.state /\ d.queue = c.queue /\ d.ending = c.ending
             /\ \A t \in Sides : d.wire[t] = IF t = s THEN Tail(c.wire[s]) ELSE c.wire[t]
<1>1. Tail(c.wire[s]) \in Seq(Frames(P))
  BY HeadAndTail, ConnectionFields
<1>. QED
  BY <1>1 DEF Taken, Connections

\* send, and any other frame that is queued
LEMMA QueuedIs ==
  ASSUME NEW P, NEW c \in Connections(P), NEW s \in Sides, NEW f \in Frames(P)
  PROVE  LET d == [c EXCEPT !.queue[s] = Append(@, f)]
         IN  /\ d \in Connections(P)
             /\ d.state = c.state /\ d.wire = c.wire /\ d.ending = c.ending
             /\ \A t \in Sides : d.queue[t] = IF t = s THEN Append(c.queue[s], f) ELSE c.queue[t]
<1>1. Append(c.queue[s], f) \in Seq(Frames(P))
  BY ConnectionFields
<1>. QED
  BY <1>1 DEF Connections

LEMMA SendIs ==
  ASSUME NEW P, NEW c \in Connections(P), NEW s \in Sides, NEW m \in P
  PROVE  LET d == Send(c, s, m)
         IN  /\ d \in Connections(P)
             /\ d.state = c.state /\ d.wire = c.wire /\ d.ending = c.ending
             /\ \A t \in Sides : d.queue[t] = IF t = s THEN Append(c.queue[s], Text(m))
                                               ELSE c.queue[t]
<1>1. Text(m) \in Frames(P)
  BY FrameTypes
<1>. QED
  BY <1>1, QueuedIs DEF Send

LEMMA CleanIs ==
  ASSUME NEW P, NEW c \in Connections(P), NEW s \in Sides
  PROVE  LET d == [c EXCEPT !.clean[s] = TRUE]
         IN  /\ d \in Connections(P)
             /\ d.queue = c.queue /\ d.state = c.state /\ d.ending = c.ending /\ d.wire = c.wire
BY DEF Connections

LEMMA CloseIs ==
  ASSUME NEW P, NEW c \in Connections(P), NEW s \in Sides
  PROVE  LET d == Close(c, s)
         IN  /\ d \in Connections(P)
             /\ d.ending = c.ending
             /\ \A t \in Sides : d.state[t] = IF t = s THEN "closing" ELSE c.state[t]
             /\ Queues(c, d, s, Control("close"))
<1>. DEFINE b == [c EXCEPT !.state[s] = "closing"]
            d == [b EXCEPT !.queue[s] = Append(@, Control("close"))]
<1>1. /\ b \in Connections(P) /\ b.ending = c.ending /\ SameFlow(c, b)
      /\ \A t \in Sides : b.state[t] = IF t = s THEN "closing" ELSE c.state[t]
  BY DEF Connections, SameFlow
<1>2. /\ d \in Connections(P) /\ d.ending = b.ending /\ d.state = b.state
      /\ Queues(b, d, s, Control("close"))
  <2>1. Control("close") \in Frames(P)
    BY FrameTypes
  <2>. HIDE DEF b
  <2>. QED
    BY <1>1, <2>1, QueuedIs DEF Queues
<1>3. Close(c, s) = d
  BY Zenon DEF Close
<1>4. Queues(c, d, s, Control("close"))
  BY <1>1, <1>2 DEF Queues, SameFlow
<1>. QED
  BY <1>1, <1>2, <1>3, <1>4

LEMMA ConnectIs ==
  ASSUME NEW P, NEW c \in Connections(P)
  PROVE  LET d == Connect(c)
         IN  /\ d \in Connections(P)
             /\ d.queue = c.queue /\ d.ending = c.ending
             /\ \A t \in Sides : d.state[t] = IF t = "client" THEN "connecting" ELSE c.state[t]
             /\ \A t \in Sides : d.wire[t] = IF t = "server" THEN <<Control("request")>> ELSE c.wire[t]
<1>. DEFINE b == [c EXCEPT !.state["client"] = "connecting"]
            d == [b EXCEPT !.wire["server"] = <<Control("request")>>]
<1>1. /\ b \in Connections(P) /\ b.ending = c.ending /\ b.queue = c.queue /\ b.wire = c.wire
      /\ \A t \in Sides : b.state[t] = IF t = "client" THEN "connecting" ELSE c.state[t]
  BY TwoSides DEF Connections
<1>2. /\ d \in Connections(P) /\ d.ending = b.ending /\ d.queue = b.queue /\ d.state = b.state
      /\ \A t \in Sides : d.wire[t] = IF t = "server" THEN <<Control("request")>> ELSE b.wire[t]
  <2>1. <<Control("request")>> \in Seq(Frames(P))
    BY FrameTypes
  <2>. HIDE DEF b
  <2>. QED
    BY <1>1, <2>1, TwoSides DEF Connections
<1>3. Connect(c) = d
  BY Zenon DEF Connect
<1>. QED
  BY <1>1, <1>2, <1>3

LEMMA LoseIs ==
  ASSUME NEW P, NEW c \in Connections(P)
  PROVE  LET d == Lose(c)
         IN  /\ d \in Connections(P)
             /\ d.state = c.state /\ d.ending = c.ending /\ d.queue = c.queue
             /\ \A s \in Sides : d.wire[s] = <<Eof>>
<1>1. [s \in Sides |-> <<Eof>>] \in [Sides -> Seq(Frames(P))]
  BY FrameTypes
<1>. QED
  BY <1>1 DEF Lose, Connections

\* The frame at the front of the queue has been written.
Written(c, s) == [c EXCEPT !.queue[s] = Tail(@), !.wire[Peer(s)] = Push(@, Head(c.queue[s]))]

LEMMA WrittenIs ==
  ASSUME NEW P, NEW c \in Connections(P), NEW s \in Sides, c.queue[s] # <<>>
  PROVE  LET d == Written(c, s)
         IN  /\ d \in Connections(P)
             /\ d.state = c.state /\ d.ending = c.ending
             /\ \A t \in Sides : d.queue[t] = IF t = s THEN Tail(c.queue[s]) ELSE c.queue[t]
             /\ \A t \in Sides : d.wire[t] = IF t = s THEN c.wire[t]
                                             ELSE Push(c.wire[t], Head(c.queue[s]))
<1>. DEFINE q == Tail(c.queue[s])
            w == Push(c.wire[Peer(s)], Head(c.queue[s]))
            b == [c EXCEPT !.queue[s] = q]
            d == [b EXCEPT !.wire[Peer(s)] = w]
<1>1. q \in Seq(Frames(P)) /\ Head(c.queue[s]) \in Frames(P)
  BY HeadAndTail, ConnectionFields
<1>2. w \in Seq(Frames(P))
  <2>1. c.wire[Peer(s)] \in Seq(Frames(P))
    BY TwoSides, ConnectionFields
  <2>. QED
    BY <1>1, <2>1, PushType
<1>3. Peer(s) \in Sides /\ Peer(s) # s /\ Sides = {s, Peer(s)}
  BY TwoSides
<1>4. /\ b \in Connections(P) /\ b.state = c.state /\ b.ending = c.ending /\ b.wire = c.wire
      /\ \A t \in Sides : b.queue[t] = IF t = s THEN q ELSE c.queue[t]
  <2>. HIDE DEF q
  <2>. QED
    BY <1>1 DEF Connections
<1>5. /\ d \in Connections(P) /\ d.state = b.state /\ d.ending = b.ending /\ d.queue = b.queue
      /\ \A t \in Sides : d.wire[t] = IF t = Peer(s) THEN w ELSE b.wire[t]
  <2>. HIDE DEF b, w
  <2>. QED
    BY <1>2, <1>3, <1>4 DEF Connections
<1>6. Written(c, s) = d
  <2>1. b.wire[Peer(s)] = c.wire[Peer(s)]
    BY <1>4
  <2>. QED
    BY <2>1, Zenon DEF Written
<1>. HIDE DEF d, b
<1>. QED
  BY <1>3, <1>4, <1>5, <1>6

LEMMA WriteIs ==
  ASSUME NEW P, NEW c \in Connections(P), NEW s \in Sides, CanWrite(c, s)
  PROVE  LET d == Write(c, s)
         IN  /\ d \in Connections(P)
             /\ \/ d.state[s] = c.state[s] /\ d.ending[s] = c.ending[s]
                \/ /\ d.state[s] = "closed"
                   /\ d.ending[s] = IF c.state[s] \in Handshaking THEN "fail" ELSE "close"
             /\ d.state[Peer(s)] = c.state[Peer(s)] /\ d.ending[Peer(s)] = c.ending[Peer(s)]
             /\ \E b \in Connections(P) :
                  /\ Writes(c, b, s)
                  /\ \/ SameFlow(b, d) /\ d.state = c.state
                     \/ Ends(b, d, s) /\ d.state[s] = "closed"
<1>. DEFINE b == Written(c, s)
<1>1. b \in Connections(P) /\ b.state = c.state /\ b.ending = c.ending /\ Writes(c, b, s)
  BY WrittenIs DEF CanWrite, Writes
<1>2. Write(c, s) = b \/ Write(c, s) = Terminate(b, s)
  BY Zenon DEF Write, Written
<1>. HIDE DEF b
<1>3. /\ Terminate(b, s) \in Connections(P)
      /\ \A t \in Sides :
           /\ Terminate(b, s).state[t] = IF t = s THEN "closed" ELSE b.state[t]
           /\ Terminate(b, s).ending[t] = IF t # s THEN b.ending[t]
                                          ELSE IF b.state[s] \in Handshaking THEN "fail" ELSE "close"
      /\ Ends(b, Terminate(b, s), s)
  BY <1>1, TerminateIs DEF Ends
<1>4. SameFlow(b, b)
  BY DEF SameFlow
<1>. QED
  BY <1>1, <1>2, <1>3, <1>4, TwoSides

LEMMA ReadCloseIs ==
  ASSUME NEW P, NEW c \in Connections(P), NEW s \in Sides, CanReadClose(c, s)
  PROVE  LET d == ReadClose(c, s)
         IN  /\ d \in Connections(P)
             /\ \/ d.state[s] = c.state[s] /\ d.ending[s] = c.ending[s]
                \/ c.state[s] = "open" /\ d.state[s] = "closing" /\ d.ending[s] = c.ending[s]
                \/ d.state[s] = "closed" /\ d.ending[s] = "close"
             /\ d.state[Peer(s)] = c.state[Peer(s)] /\ d.ending[Peer(s)] = c.ending[Peer(s)]
             /\ \E b \in Connections(P) :
                  /\ Takes(c, b, s)
                  /\ \/ SameFlow(b, d) /\ c.state[s] = "closing"
                     \/ Queues(b, d, s, Control("ack")) /\ d.state[s] = "closing"
                     \/ Ends(b, d, s) /\ d.state[s] = "closed"
<1>. DEFINE a == Taken(c, s)
            b == [a EXCEPT !.clean[s] = TRUE]
            x == [b EXCEPT !.state[s] = "closing"]
            y == [x EXCEPT !.queue[s] = Append(@, Control("ack"))]
<1>1. c.wire[s] # <<>>
  BY DEF CanReadClose, Arrived, Control
<1>2. a \in Connections(P) /\ a.state = c.state /\ a.ending = c.ending /\ Takes(c, a, s)
  BY <1>1, TakenIs DEF Takes
<1>3. b \in Connections(P) /\ b.state = c.state /\ b.ending = c.ending /\ Takes(c, b, s)
  <2>. HIDE DEF a
  <2>. QED
    BY <1>2, CleanIs DEF Takes
<1>. HIDE DEF b
<1>4. /\ x \in Connections(P) /\ x.ending = b.ending /\ SameFlow(b, x)
      /\ \A t \in Sides : x.state[t] = IF t = s THEN "closing" ELSE b.state[t]
  BY <1>3 DEF Connections, SameFlow
<1>5. /\ y \in Connections(P) /\ y.ending = x.ending /\ y.state = x.state
      /\ Queues(b, y, s, Control("ack"))
  <2>1. Control("ack") \in Frames(P)
    BY FrameTypes
  <2>. HIDE DEF x
  <2>. QED
    BY <1>4, <2>1, QueuedIs DEF Queues, SameFlow
<1>6. /\ Terminate(b, s) \in Connections(P)
      /\ \A t \in Sides :
           /\ Terminate(b, s).state[t] = IF t = s THEN "closed" ELSE b.state[t]
           /\ Terminate(b, s).ending[t] = IF t # s THEN b.ending[t]
                                          ELSE IF b.state[s] \in Handshaking THEN "fail" ELSE "close"
      /\ Ends(b, Terminate(b, s), s)
  BY <1>3, TerminateIs DEF Ends
<1>7. c.state[s] \in {"open", "closing"}
  BY DEF CanReadClose
<1>8. CASE c.state[s] = "open"
  <2>1. ReadClose(c, s) = [b EXCEPT !.state[s] = "closing", !.queue[s] = Append(@, Control("ack"))]
    BY <1>8 DEF ReadClose, b
  <2>2. ReadClose(c, s) = y
    BY <2>1, Zenon
  <2>. HIDE DEF x, y
  <2>. QED
    BY <1>3, <1>4, <1>5, <1>8, <2>2, TwoSides
<1>9. CASE c.state[s] = "closing"
  <2>1. ReadClose(c, s) = b \/ ReadClose(c, s) = Terminate(b, s)
    BY <1>9 DEF ReadClose, b
  <2>2. SameFlow(b, b)
    BY DEF SameFlow
  <2>. QED
    BY <1>3, <1>6, <1>9, <2>1, <2>2, TwoSides DEF Handshaking
<1>. QED
  BY <1>7, <1>8, <1>9

\* What a step of the library without a handler does to the state of its side;
\* the other side's stays.
LEMMA QuietIs ==
  ASSUME NEW P, NEW c \in Connections(P), NEW s \in Sides, NEW d \in Quiet(c, s)
  PROVE  /\ d \in Connections(P)
         /\ \/ d.state[s] = c.state[s] /\ d.ending[s] = c.ending[s]
            \/ c.state[s] = "open" /\ d.state[s] = "closing" /\ d.ending[s] = c.ending[s]
            \/ /\ c.state[s] \in {"connecting", "responding", "open", "closing"} /\ d.state[s] = "closed"
               /\ d.ending[s] = IF c.state[s] \in Handshaking THEN "fail" ELSE "close"
         /\ d.state[Peer(s)] = c.state[Peer(s)] /\ d.ending[Peer(s)] = c.ending[Peer(s)]
<1>1. /\ c.state[s] \in {"none", "connecting", "responding", "open", "closing", "closed"}
      /\ Peer(s) \in Sides /\ Peer(s) # s
  BY ConnectionFields, TwoSides
<1>2. CASE CanWrite(c, s) /\ d = Write(c, s)
  BY <1>1, <1>2, WriteIs DEF CanWrite, Live, Handshaking
<1>3. CASE Drops(c, s) /\ d = Taken(c, s)
  <2>1. c.wire[s] # <<>>
    BY <1>3 DEF Drops, Arrived, Control
  <2>. QED
    BY <1>3, <2>1, TakenIs
<1>4. CASE CanReadClose(c, s) /\ d = ReadClose(c, s)
  BY <1>4, ReadCloseIs DEF CanReadClose, Handshaking
<1>5. CASE (ReadsEof(c, s) \/ HasTimer(c, s)) /\ d = Terminate(c, s)
  BY <1>1, <1>5, TerminateIs DEF ReadsEof, HasTimer, Live
<1>. QED
  BY <1>2, <1>3, <1>4, <1>5 DEF Quiet

\* What it does to the queues and wires: it writes the frame at the front of its
\* queue, drops a data frame behind its own close, reads a close and acknowledges
\* it, or ends the session
LEMMA QuietFlow ==
  ASSUME NEW P, NEW c \in Connections(P), NEW s \in Sides, NEW d \in Quiet(c, s)
  PROVE  \/ \E b \in Connections(P) :
              /\ Writes(c, b, s)
              /\ \/ SameFlow(b, d) /\ d.state = c.state
                 \/ Ends(b, d, s) /\ d.state[s] = "closed"
         \/ Drops(c, s) /\ Takes(c, d, s) /\ d.state = c.state
         \/ /\ CanReadClose(c, s)
            /\ \E b \in Connections(P) :
                 /\ Takes(c, b, s)
                 /\ \/ SameFlow(b, d) /\ c.state[s] = "closing"
                    \/ Queues(b, d, s, Control("ack")) /\ d.state[s] = "closing"
                    \/ Ends(b, d, s) /\ d.state[s] = "closed"
         \/ Ends(c, d, s) /\ d.state[s] = "closed"
<1>1. CASE CanWrite(c, s) /\ d = Write(c, s)
  BY <1>1, WriteIs
<1>2. CASE Drops(c, s) /\ d = Taken(c, s)
  <2>1. c.wire[s] # <<>>
    BY <1>2 DEF Drops, Arrived, Control
  <2>. QED
    BY <1>2, <2>1, TakenIs DEF Takes
<1>3. CASE CanReadClose(c, s) /\ d = ReadClose(c, s)
  BY <1>3, ReadCloseIs
<1>4. CASE d = Terminate(c, s)
  BY <1>4, TerminateIs DEF Ends
<1>. QED
  BY <1>1, <1>2, <1>3, <1>4 DEF Quiet

\* The library works for a session that has begun and has not ended.
LEMMA QuietIsLive ==
  ASSUME NEW P, NEW c \in Connections(P), NEW s \in Sides, NEW d \in Quiet(c, s)
  PROVE  c.state[s] \in {"connecting", "responding", "open", "closing"}
<1>1. c.state[s] \in {"none", "connecting", "responding", "open", "closing", "closed"}
  BY ConnectionFields
<1>. QED
  BY <1>1 DEF Quiet, CanWrite, Live, Drops, CanReadClose, ReadsEof, HasTimer

\* The server's response
LEMMA RespondIs ==
  ASSUME NEW P, NEW c \in Connections(P), CanRespond(c)
  PROVE  LET d == Respond(c)
         IN  /\ d \in Connections(P)
             /\ d.ending = c.ending /\ d.queue = c.queue
             /\ \A t \in Sides : d.state[t] = IF t = "server" THEN "responding" ELSE c.state[t]
             /\ \A t \in Sides : d.wire[t] = IF t = "server" THEN Tail(c.wire["server"])
                                             ELSE Push(c.wire[t], Control("response"))
<1>. DEFINE w == Push(c.wire["client"], Control("response"))
            v == Tail(c.wire["server"])
            a == [c EXCEPT !.state["server"] = "responding"]
            b == [a EXCEPT !.wire["server"] = v]
            d == [b EXCEPT !.wire["client"] = w]
<1>1. Sides = {"client", "server"}
  BY DEF Sides
<1>2. c.wire["server"] # <<>>
  BY DEF CanRespond, Arrived, Control
<1>3. v \in Seq(Frames(P)) /\ w \in Seq(Frames(P))
  <2>1. c.wire["server"] \in Seq(Frames(P)) /\ c.wire["client"] \in Seq(Frames(P))
    BY <1>1, ConnectionFields
  <2>2. Control("response") \in Frames(P)
    BY FrameTypes
  <2>. QED
    BY <1>2, <2>1, <2>2, HeadAndTail, PushType
<1>4. /\ a \in Connections(P) /\ a.ending = c.ending /\ a.queue = c.queue /\ a.wire = c.wire
      /\ \A t \in Sides : a.state[t] = IF t = "server" THEN "responding" ELSE c.state[t]
  BY <1>1 DEF Connections
<1>5. /\ b \in Connections(P) /\ b.ending = a.ending /\ b.queue = a.queue /\ b.state = a.state
      /\ \A t \in Sides : b.wire[t] = IF t = "server" THEN v ELSE a.wire[t]
  <2>. HIDE DEF a, v
  <2>. QED
    BY <1>1, <1>3, <1>4 DEF Connections
<1>6. /\ d \in Connections(P) /\ d.ending = b.ending /\ d.queue = b.queue /\ d.state = b.state
      /\ \A t \in Sides : d.wire[t] = IF t = "client" THEN w ELSE b.wire[t]
  <2>. HIDE DEF b, w
  <2>. QED
    BY <1>1, <1>3, <1>5 DEF Connections
<1>7. Respond(c) = d
  <2>1. b.wire["client"] = c.wire["client"] /\ a.wire["server"] = c.wire["server"]
    BY <1>1, <1>4, <1>5
  <2>. QED
    BY <2>1, Zenon DEF Respond
<1>. HIDE DEF a, b, d
<1>. QED
  BY <1>1, <1>4, <1>5, <1>6, <1>7

\* The end of a handshake
LEMMA OpenIs ==
  ASSUME NEW P, NEW c \in Connections(P), NEW s \in Sides, CanOpen(c, s)
  PROVE  LET d == Open(c, s)
         IN  /\ d \in Connections(P)
             /\ d.ending = c.ending /\ d.queue = c.queue
             /\ \A t \in Sides : d.state[t] = IF t = s THEN "open" ELSE c.state[t]
             /\ \A t \in Sides : d.wire[t] = IF t = s /\ s = "client" THEN Tail(c.wire[s])
                                             ELSE c.wire[t]
<1>. DEFINE v == IF s = "server" THEN c.wire[s] ELSE Tail(c.wire[s])
            a == [c EXCEPT !.state[s] = "open"]
            b == [a EXCEPT !.wire[s] = v]
<1>1. s \in {"client", "server"}
  BY DEF Sides
<1>2. v \in Seq(Frames(P))
  <2>1. c.wire[s] \in Seq(Frames(P))
    BY ConnectionFields
  <2>2. s = "client" => c.wire[s] # <<>>
    BY DEF CanOpen, Arrived, Control
  <2>. QED
    BY <1>1, <2>1, <2>2, HeadAndTail
<1>3. /\ a \in Connections(P) /\ a.ending = c.ending /\ a.queue = c.queue /\ a.wire = c.wire
      /\ \A t \in Sides : a.state[t] = IF t = s THEN "open" ELSE c.state[t]
  BY DEF Connections
<1>4. /\ b \in Connections(P) /\ b.ending = a.ending /\ b.queue = a.queue /\ b.state = a.state
      /\ \A t \in Sides : b.wire[t] = IF t = s THEN v ELSE a.wire[t]
  <2>. HIDE DEF a, v
  <2>. QED
    BY <1>2, <1>3 DEF Connections
<1>5. Open(c, s) = b
  BY <1>3, Zenon DEF Open
<1>. HIDE DEF a, b
<1>. QED
  BY <1>1, <1>3, <1>4, <1>5

=============================================================================
