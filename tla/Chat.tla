-------------------------------- MODULE Chat --------------------------------
(***************************************************************************)
(* The echo server ws_server.cpp and its clients: consoles, which run      *)
(* ws_client.cpp, and pages, which are sockets of a browser.  A client     *)
(* makes one connection; one that reconnects is another client.            *)
(*                                                                         *)
(* The server is one event loop: a handler is one action.  A console is    *)
(* two threads: main in run(), which is its event loop, and the detached   *)
(* thread that reads the user's lines.  Texts are numbered by their client *)
(* so that echoes can be told apart; the word exit is Exit.                *)
(***************************************************************************)
EXTENDS Integers, WsConnection

CONSTANTS Consoles, Pages,
          Exit,      \* the payload "exit"
          MaxLines,  \* bound: the texts of a console
          MaxTexts   \* bound: the texts of a page

ASSUME ChatAssumption ==
  /\ Consoles \cap Pages = {}
  /\ MaxTexts \in Nat /\ MaxLines \in 0..MaxTexts
  /\ Exit \notin Nat /\ Invalid \notin Nat \cup {Exit}

Clients == Consoles \cup Pages

VARIABLES
  con,          \* per client, its connection
  connections,  \* the server's set of handles
  server,       \* run() of the server is running, or an exception has ended it
  app,          \* the client: not started, running, ended, or ended by an exception
  input,        \* a console's input thread: not started, reading, ended
  texts,        \* the texts a client has sent
  heard,        \* the echoes it has received
  broken        \* the clients whose TCP connection broke, or whose session was
                \* ended by a handshake timer that ran late

vars == <<con, connections, server, app, input, texts, heard, broken>>

Init ==
  /\ con = [c \in Clients |-> NoConnection]
  /\ connections = {}
  /\ server = "run"
  /\ app = [c \in Clients |-> "off"]
  /\ input = [c \in Clients |-> "none"]
  /\ texts = [c \in Clients |-> 0]
  /\ heard = [c \in Clients |-> 0]
  /\ broken = {}

-----------------------------------------------------------------------------
(* Mutated forms of the helpers below.                                     *)
(* Kept: the close handler forgets its handle.                             *)
(* StillReading: the input thread has no break.                            *)
Kept(c) == connections
StillReading == "reading"

-----------------------------------------------------------------------------
Put(c, d) == con' = [con EXCEPT ![c] = d]

\* what the server's open and close handlers make of connections
Inserted(c) == connections \cup {c}
Erased(c) == connections \ {c}

\* the input thread after exit
AfterExit == "ended"

ServerOpens(c) ==
  /\ server = "run"
  /\ CanOpen(con[c], "server")
  /\ Put(c, Open(con[c], "server"))
  /\ connections' = Inserted(c)
  /\ UNCHANGED <<server, app, input, texts, heard, broken>>

\* Only the close handler is set; a failed handshake was never inserted.
ServerHandlesEnd(c) ==
  /\ server = "run"
  /\ con[c].ending["server"] # "none"
  /\ Put(c, Notified(con[c], "server"))
  /\ connections' = IF con[c].ending["server"] = "close" THEN Erased(c) ELSE connections
  /\ UNCHANGED <<server, app, input, texts, heard, broken>>

\* my_message_cb.  The close of "exit" is outside the try block: if it were
\* refused the exception would end run(), and with it the server.
ServerHandlesMessage(c) ==
  /\ server = "run"
  /\ Delivers(con[c], "server")
  /\ LET d == Taken(con[c], "server")
         m == Head(con[c].wire["server"]).payload
     IN IF m = Exit
          THEN IF CanClose(d, "server")
                 THEN Put(c, Close(d, "server")) /\ UNCHANGED server
                 ELSE con' = [x \in Clients |-> Lose(con[x])] /\ server' = "gone"
          ELSE /\ Put(c, IF CanSend(d, "server", m) THEN Send(d, "server", m) ELSE d)
               /\ UNCHANGED server
  /\ UNCHANGED <<connections, app, input, texts, heard, broken>>

ServerLibrary(c) ==
  /\ server = "run"
  /\ \/ \E d \in Quiet(con[c], "server") : Put(c, d)
     \/ CanAccept(con[c]) /\ Put(c, Accept(con[c]))
     \/ CanRespond(con[c]) /\ Put(c, Respond(con[c]))
  /\ UNCHANGED <<connections, server, app, input, texts, heard, broken>>

-----------------------------------------------------------------------------
ClientStarts(c) ==
  /\ app[c] = "off"
  /\ app' = [app EXCEPT ![c] = "run"]
  /\ Put(c, Connect(con[c]))
  /\ UNCHANGED <<connections, server, input, texts, heard, broken>>

\* on_open starts the input thread of a console.
ClientOpens(c) ==
  /\ app[c] = "run"
  /\ CanOpen(con[c], "client")
  /\ Put(c, Open(con[c], "client"))
  /\ input' = IF c \in Consoles THEN [input EXCEPT ![c] = "reading"] ELSE input
  /\ UNCHANGED <<connections, server, app, texts, heard, broken>>

ClientHandlesMessage(c) ==
  /\ app[c] = "run"
  /\ Delivers(con[c], "client")
  /\ Put(c, Taken(con[c], "client"))
  /\ heard' = [heard EXCEPT ![c] = @ + 1]
  /\ UNCHANGED <<connections, server, app, input, texts, broken>>

ClientLibrary(c) ==
  /\ app[c] = "run"
  /\ \/ \E d \in Quiet(con[c], "client") : Put(c, d)
     \/ con[c].state["client"] = "connecting" /\ con[c].state["server"] = "none"
          /\ Put(c, Refuse(con[c]))
     \/ con[c].ending["client"] # "none" /\ Put(c, Notified(con[c], "client"))
  /\ UNCHANGED <<connections, server, app, input, texts, heard, broken>>

\* The session is over and its handler has run: run() of a console returns, and
\* main.  A page stays.
ClientEnds(c) ==
  /\ c \in Consoles /\ app[c] = "run"
  /\ con[c].state["client"] = "closed" /\ con[c].ending["client"] = "none"
  /\ app' = [app EXCEPT ![c] = "ended"]
  /\ UNCHANGED <<con, connections, server, input, texts, heard, broken>>

\* send and close of the input thread throw when they are refused, and nobody
\* catches: the process dies and its socket with it.
Crash(c) ==
  /\ app' = [app EXCEPT ![c] = "crashed"]
  /\ Put(c, Lose(con[c]))
  /\ UNCHANGED <<input, texts>>

ConsoleTypesExit(c) ==
  /\ app[c] = "run" /\ input[c] = "reading"
  /\ IF CanClose(con[c], "client")
       THEN /\ Put(c, Close(con[c], "client"))
            /\ input' = [input EXCEPT ![c] = AfterExit]
            /\ UNCHANGED <<app, texts>>
       ELSE Crash(c)
  /\ UNCHANGED <<connections, server, heard, broken>>

\* What is typed on the console need not be UTF-8.
ConsoleTypesText(c) ==
  /\ app[c] = "run" /\ input[c] = "reading"
  /\ texts[c] < MaxLines
  /\ \E m \in {texts[c] + 1, Invalid} :
       IF CanSend(con[c], "client", m)
         THEN /\ texts' = [texts EXCEPT ![c] = m]
              /\ Put(c, Send(con[c], "client", m))
              /\ UNCHANGED <<app, input>>
         ELSE Crash(c)
  /\ UNCHANGED <<connections, server, heard, broken>>

\* The page sends only on an open socket, and exit is a text like any other.
PageSends(c) ==
  /\ app[c] = "run"
  /\ texts[c] < MaxTexts
  /\ texts' = [texts EXCEPT ![c] = @ + 1]
  /\ \E m \in {texts[c] + 1, Exit} :
       CanSend(con[c], "client", m) /\ Put(c, Send(con[c], "client", m))
  /\ UNCHANGED <<connections, server, app, input, heard, broken>>

PageDisconnects(c) ==
  /\ app[c] = "run"
  /\ CanClose(con[c], "client")
  /\ Put(c, Close(con[c], "client"))
  /\ UNCHANGED <<connections, server, app, input, texts, heard, broken>>

\* A connection breaks, and both ends come to know it.
Break(c) ==
  /\ Live(con[c], "server") /\ c \notin broken
  /\ broken' = broken \cup {c}
  /\ Put(c, Lose(con[c]))
  /\ UNCHANGED <<connections, server, app, input, texts, heard>>

\* A handshake timer runs late, in the event loop of the server or the client.
CutByTimer(c, s) ==
  /\ IF s = "server" THEN server = "run" ELSE app[c] = "run"
  /\ TimerRunsLate(con[c], s)
  /\ broken' = broken \cup {c}
  /\ Put(c, Terminate(con[c], s))
  /\ UNCHANGED <<connections, server, app, input, texts, heard>>

ServerStep(c) ==
  ServerOpens(c) \/ ServerHandlesEnd(c) \/ ServerHandlesMessage(c) \/ ServerLibrary(c)

ClientStep(c) == ClientOpens(c) \/ ClientHandlesMessage(c) \/ ClientLibrary(c) \/ ClientEnds(c)

UserStep(c) ==
  \/ ClientStarts(c)
  \/ c \in Consoles /\ (ConsoleTypesExit(c) \/ ConsoleTypesText(c))
  \/ c \in Pages /\ (PageSends(c) \/ PageDisconnects(c))

Disturbance(c) == Break(c) \/ \E s \in Sides : CutByTimer(c, s)

Next == \E c \in Clients : ServerStep(c) \/ ClientStep(c) \/ UserStep(c) \/ Disturbance(c)

Spec == Init /\ [][Next]_vars

\* The server's event loop runs while it has something to do; which connection it
\* serves next is left open.  Nothing is assumed of the clients and their users.
FairSpec == Spec /\ WF_vars(\E c \in Clients : ServerStep(c))

-----------------------------------------------------------------------------
(* Properties *)

Payloads == (1..MaxTexts) \cup {Exit}

Shapes ==
  /\ con \in [Clients -> Connections(Payloads)]
  /\ connections \subseteq Clients /\ broken \subseteq Clients
  /\ app \in [Clients -> {"off", "run", "ended", "crashed"}]
  /\ input \in [Clients -> {"none", "reading", "ended"}]
  /\ texts \in [Clients -> 0..MaxTexts]

\* Everything is where it belongs; nobody sends more than the bound.
TypeOK ==
  /\ Shapes
  /\ server \in {"run", "gone"}
  /\ heard \in [Clients -> Nat]

\* The server's session of connection d was opened and its close handler has
\* not run.
Session(d) == d.state["server"] \in {"open", "closing"} \/ d.ending["server"] = "close"

\* connections holds the handles of exactly the sessions that were opened and
\* whose close handler has not run: none is forgotten, none is left behind.
ConnectionsAreSessions == connections = {c \in Clients : Session(con[c])}

\* No exit, be it the second of two or one that meets the client's own close,
\* ends the server: the close in my_message_cb is never refused.
ServerSurvives == server = "run"

\* The echoes reach a client in the order of its texts, none twice and none
\* left out; nothing that follows an exit is echoed.
EchoesInOrder ==
  \A c \in Clients :
    Delivers(con[c], "client") => Head(con[c].wire["client"]).payload = heard[c] + 1

\* The input thread of a console is refused a send or a close because its
\* session is over only if the connection broke or a handshake timer ran late:
\* neither the server nor an exit of the console ends a session under it.  A
\* console that dies with its session open has typed a line that is not UTF-8.
RefusalNeedsBreak ==
  \A c \in Consoles :
    app[c] = "crashed" /\ con[c].state["client"] # "open" => c \in broken

\* When main of a console returns, and ws_client with it, the input thread
\* has ended, unless the connection broke or a handshake timer ran late.
ExitIsClean ==
  \A c \in Consoles : app[c] = "ended" /\ input[c] = "reading" => c \in broken

\* A handler is due only for a session that has ended.
EndsOnce(d) == d.ending["server"] # "none" => d.state["server"] = "closed"

(* The life of a console whose connection does not break and that no late  *)
(* timer cuts: d is its connection, a its process, n its input thread.     *)
PlainText(f) == f.op = "text" /\ f.payload # Exit
Plain(w) == \A k \in DOMAIN w : PlainText(w[k])

Unstarted(d, a, n) == a = "off" /\ d = NoConnection /\ n = "none"

Shaking(d, a, n) ==
  /\ a = "run" /\ n = "none"
  /\ d.state["client"] = "connecting" /\ d.ending["client"] = "none"
  /\ d.queue["client"] = <<>> /\ d.queue["server"] = <<>>
  /\ \/ /\ d.state["server"] \in {"none", "connecting"}
        /\ d.wire["server"] = <<Control("request")>> /\ d.wire["client"] = <<>>
     \/ /\ d.state["server"] \in {"responding", "open"}
        /\ d.wire["server"] = <<>> /\ d.wire["client"] = <<Control("response")>>
     \/ /\ d.state["server"] = "closed"
        /\ d.wire["server"] = <<Eof>> /\ d.wire["client"] = <<Eof>>

Talking(d, a, n) ==
  /\ a = "run" /\ n = "reading"
  /\ d.ending["client"] = "none"
  /\ d.state["client"] = "open" /\ d.state["server"] \in {"responding", "open"}
  /\ \A s \in Sides : Plain(d.queue[s]) /\ Plain(d.wire[s])

Over(d, a, n) ==
  a \in {"run", "ended"} /\ n # "reading" /\ d.state["client"] \in {"closing", "closed"}

Garbled(d, a) == a = "crashed" /\ d.state["client"] = "open"

Calm(d, a, n) ==
  Unstarted(d, a, n) \/ Shaking(d, a, n) \/ Talking(d, a, n) \/ Over(d, a, n) \/ Garbled(d, a)

IInv ==
  /\ Shapes /\ ServerSurvives /\ ConnectionsAreSessions
  /\ \A c \in Clients : EndsOnce(con[c])
  /\ \A c \in Consoles \ broken : Calm(con[c], app[c], input[c])

(* The way of the texts of a client whose session is open: h of their      *)
(* echoes were heard of n sent.  A step of the echo moves a frame from     *)
(* Inbound to Echoes, so their order is one sequence, and what counts of   *)
(* it is what precedes the first frame that is no plain text.              *)
Echoes(d) == d.wire["client"] \o d.queue["server"]
Inbound(d) == d.wire["server"] \o d.queue["client"]

Numbered(z, h, n) ==
  /\ \A k \in DOMAIN z : (\A j \in 1..k : PlainText(z[j])) => z[k].payload = h + k
  /\ Plain(z) => n = h + Len(z)

NoExit(w) == \A k \in DOMAIN w : w[k].op = "text" => w[k].payload # Exit

\* The server has announced the end.
Cut(w) == \E k \in DOMAIN w : w[k].op \in {"close", "ack", "eof"}

Fresh(d, h, n) ==
  /\ h = 0 /\ n = 0
  /\ \A k \in DOMAIN Echoes(d) : Echoes(d)[k].op \in {"response", "eof"}
  /\ \A k \in DOMAIN Inbound(d) : Inbound(d)[k].op \in {"request", "eof"}
  /\ d.state["server"] # "closing"
  /\ d.state["server"] = "closed" => Cut(Echoes(d))

InStep(d, h, n) ==
  /\ Numbered(Echoes(d) \o Inbound(d), h, n)
  /\ NoExit(Echoes(d))
  /\ d.state["server"] \in {"closing", "closed"} => Cut(Echoes(d))

Stream(d, h, n) ==
  /\ d.state["client"] \in {"none", "connecting"} => Fresh(d, h, n)
  /\ d.state["client"] = "open" => InStep(d, h, n)

StreamInv ==
  \A c \in Clients :
    /\ app[c] = "off" => con[c] = NoConnection /\ heard[c] = 0 /\ texts[c] = 0
    /\ Stream(con[c], heard[c], texts[c])

\* Every session that ends, in whatever way, is taken out of connections.
EndedIsForgotten ==
  \A c \in Clients :
    con[c].state["server"] \in {"closing", "closed"} ~> c \notin connections

=============================================================================
