---------------------------- MODULE WsConnection ----------------------------
(***************************************************************************)
(* One WebSocket connection as websocketpp runs it, for the programs that  *)
(* are built on it: the library's session of the client, that of the       *)
(* server, and the TCP stream between them.  The module has no variables:  *)
(* an operator takes a connection c, the side s that acts, and gives the   *)
(* connection after the library's step.  The program's handlers belong to  *)
(* the module of the program.                                              *)
(*                                                                         *)
(* A frame is written whole and read whole.  A session writes and reads in *)
(* its endpoint's event loop only; send and close just queue a frame.      *)
(***************************************************************************)
EXTENDS Naturals, Sequences

CONSTANT Invalid    \* a payload that is not UTF-8

Sides == {"client", "server"}

Peer(s) == IF s = "client" THEN "server" ELSE "client"

Text(m) == [op |-> "text", payload |-> m]
Control(op) == [op |-> op]

\* the end of the stream, behind the last frame
Eof == Control("eof")

(* state:  m_state, "none" before a session is made; a server that is       *)
(*         "responding" is still connecting, its response is being written  *)
(* queue:  m_send_queue                                                     *)
(* wire:   what is on its way to the side                                   *)
(* clean:  m_was_clean                                                      *)
(* ending: the handler handle_terminate still has to call                   *)
NoConnection ==
  [state  |-> [s \in Sides |-> "none"],
   queue  |-> [s \in Sides |-> <<>>],
   wire   |-> [s \in Sides |-> <<>>],
   clean  |-> [s \in Sides |-> FALSE],
   ending |-> [s \in Sides |-> "none"]]

Frames(P) ==
  [op : {"text"}, payload : P] \cup [op : {"request", "response", "close", "ack", "eof"}]

Connections(P) ==
  [state  : [Sides -> {"none", "connecting", "responding", "open", "closing", "closed"}],
   queue  : [Sides -> Seq(Frames(P))],
   wire   : [Sides -> Seq(Frames(P))],
   clean  : [Sides -> BOOLEAN],
   ending : [Sides -> {"none", "fail", "close"}]]

-----------------------------------------------------------------------------
(* Mutated forms of the operators below.                                   *)
(* InAnyState: a data frame is dispatched whatever the state is.           *)
(* InFront: a frame is queued in front of the others.                      *)
InAnyState(c, s) == c.wire[s] # <<>> /\ Head(c.wire[s]).op = "text"
InFront(c, s, m) == [c EXCEPT !.queue[s] = <<Text(m)>> \o @]

-----------------------------------------------------------------------------
\* Nothing follows the end of the stream.
Push(w, f) == IF w # <<>> /\ w[Len(w)] = Eof THEN w ELSE Append(w, f)

Arrived(c, s) == IF c.wire[s] = <<>> THEN Control("none") ELSE Head(c.wire[s])

\* terminate: the socket is shut down and handle_terminate is on its way to
\* call the fail handler, or the close handler once the session was open.
Live(c, s) == c.state[s] \notin {"none", "closed"}

Handshaking == {"connecting", "responding"}

Terminate(c, s) ==
  [c EXCEPT !.state[s] = "closed",
            !.ending[s] = IF c.state[s] \in Handshaking THEN "fail" ELSE "close",
            !.queue[s] = <<>>,
            !.wire[s] = <<Eof>>,
            !.wire[Peer(s)] = Push(@, Eof)]

\* handle_terminate calls the handler named by ending
Notified(c, s) == [c EXCEPT !.ending[s] = "none"]

\* connect: a connection attempt, and its end when nobody listens
Connect(c) ==
  [c EXCEPT !.state["client"] = "connecting", !.wire["server"] = <<Control("request")>>]

Refuse(c) == Terminate(c, "client")

\* handle_accept
CanAccept(c) == c.state["server"] = "none" /\ c.wire["server"] # <<>>

Accept(c) == [c EXCEPT !.state["server"] = "connecting"]

\* write_http_response: the server has read the request and sends its response.
CanRespond(c) == c.state["server"] = "connecting" /\ Arrived(c, "server").op = "request"

Respond(c) ==
  [c EXCEPT !.state["server"] = "responding",
            !.wire["server"] = Tail(@),
            !.wire["client"] = Push(@, Control("response"))]

\* The response is written, or the client has read it.  The open handler is
\* called next.
CanOpen(c, s) ==
  IF s = "server" THEN c.state[s] = "responding"
                  ELSE c.state[s] = "connecting" /\ Arrived(c, s).op = "response"

Open(c, s) ==
  [c EXCEPT !.state[s] = "open", !.wire[s] = IF s = "server" THEN @ ELSE Tail(@)]

\* send, which is refused in every other state and for a text that is not UTF-8.
\* The message manager never runs out of buffers.
CanSend(c, s, m) == c.state[s] = "open" /\ m # Invalid

Send(c, s, m) == [c EXCEPT !.queue[s] = Append(@, Text(m))]

\* close, which is refused in every other state
CanClose(c, s) == c.state[s] = "open"

Close(c, s) == [c EXCEPT !.state[s] = "closing", !.queue[s] = Append(@, Control("close"))]

\* write_frame, one frame at a time.  The server's acknowledgement of a close is marked terminal:
\* once it is written the server drops the connection.
Terminal(s, f) == f.op = "ack" /\ s = "server"

CanWrite(c, s) == Live(c, s) /\ c.queue[s] # <<>>

Write(c, s) ==
  LET f == Head(c.queue[s])
      d == [c EXCEPT !.queue[s] = Tail(@), !.wire[Peer(s)] = Push(@, f)]
  IN IF Terminal(s, f) THEN Terminate(d, s) ELSE d

\* A data frame is dispatched to the message handler in the open state only;
\* behind our own close it is dropped.
Delivers(c, s) == c.state[s] = "open" /\ Arrived(c, s).op = "text"

Drops(c, s) == c.state[s] = "closing" /\ Arrived(c, s).op = "text"

Taken(c, s) == [c EXCEPT !.wire[s] = Tail(@)]

\* process_control_frame: a peer's close is acknowledged, or is itself the
\* acknowledgement of ours, or crosses it.  A client then waits for the server
\* to end the stream.
CanReadClose(c, s) ==
  c.state[s] \in {"open", "closing"} /\ Arrived(c, s).op \in {"close", "ack"}

ReadClose(c, s) ==
  LET d == [Taken(c, s) EXCEPT !.clean[s] = TRUE]
  IN CASE c.state[s] = "open" ->
            [d EXCEPT !.state[s] = "closing", !.queue[s] = Append(@, Control("ack"))]
       [] c.state[s] = "closing" /\ ~c.clean[s] /\ s = "server" -> Terminate(d, s)
       [] OTHER -> d

\* a read or a write that fails, and the timers of the two handshakes
ReadsEof(c, s) == Live(c, s) /\ Arrived(c, s) = Eof

HasTimer(c, s) == c.state[s] \in {"connecting", "closing"}

\* The timer's handler tests no state, and cancel() does not call it back once it
\* is queued: when the time is up while a handshake completes, it ends the open
\* session.  How long the handler stays queued is left open.
TimerRunsLate(c, s) == c.state[s] \in {"responding", "open"}

\* The TCP connection breaks.
Lose(c) == [c EXCEPT !.wire = [s \in Sides |-> <<Eof>>]]

-----------------------------------------------------------------------------
\* A step of the library in the event loop of side s that calls no handler
Quiet(c, s) ==
  (IF CanWrite(c, s) THEN {Write(c, s)} ELSE {})
    \cup (IF Drops(c, s) THEN {Taken(c, s)} ELSE {})
    \cup (IF CanReadClose(c, s) THEN {ReadClose(c, s)} ELSE {})
    \cup (IF ReadsEof(c, s) \/ HasTimer(c, s) THEN {Terminate(c, s)} ELSE {})

=============================================================================
