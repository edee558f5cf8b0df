---------------------------- MODULE WsBenchmark -----------------------------
(***************************************************************************)
(* The WebSocket round trips of Task5_Benchmark.cpp: main, the client's    *)
(* event loop in client_thread_ and the echo server's event loop in        *)
(* wsServerThread, over one connection.                                    *)
(*                                                                         *)
(* mtx_ is held for one assignment or one test at a time, so a critical    *)
(* section is one action; a notification outside it is an action of its    *)
(* own.  The payload is always TEST_MSG: the number of a message is the    *)
(* model's.  Nobody else uses port 9002.                                   *)
(***************************************************************************)
EXTENDS Integers, WsConnection, Iterations

VARIABLES
  main,      \* where main is; its comments name the calls
  i,         \* the loop counter
  failed,    \* main has caught an exception
  asleep,    \* main is blocked in a wait
  connected_, has_error_, message_received_,   \* the client's flags
  clientLoop,     \* client_thread_: not started, in run(), about to notify, ended
  clientStopped,  \* client_.stop() was called
  serverLoop,     \* wsServerThread: before listen, in run(), ended
  serverStopped,  \* endpoint_.stop() was called
  listening,
  con,       \* the connection
  echoed,    \* how many messages the server has returned
  broken     \* history: the connection broke after it was opened, or a handshake
             \* timer that ran late ended it

progVars == <<main, i, failed, asleep, connected_, has_error_, message_received_, clientLoop,
              clientStopped, serverLoop, serverStopped, listening, echoed>>

vars == <<progVars, con, broken>>

mainVars == <<main, i, failed, asleep>>
flags == <<connected_, has_error_, message_received_>>
loops == <<clientLoop, clientStopped, serverLoop, serverStopped, listening>>

Init ==
  /\ main = "connect" /\ i = 0 /\ failed = FALSE /\ asleep = FALSE
  /\ connected_ = FALSE /\ has_error_ = FALSE /\ message_received_ = FALSE
  /\ clientLoop = "none" /\ clientStopped = FALSE
  /\ serverLoop = "start" /\ serverStopped = FALSE /\ listening = FALSE
  /\ con = NoConnection
  /\ echoed = 0
  /\ broken = FALSE

-----------------------------------------------------------------------------
(* Mutated forms of the helpers below.                                     *)
(* AnyWakeup: a wait without its predicate.                                *)
(* NotChecked: connect returns whatever woke it.                           *)
(* NotReset: the flag of the last round is kept.                           *)
(* LoopTooLong: <= where < is meant.                                       *)
(* Nobody, SenderOnly: a handler that forgets a notification.              *)
AnyWakeup == TRUE
NotChecked == FALSE
NotReset == message_received_
LoopTooLong(k) == k <= ITERATIONS
Nobody == {}
SenderOnly == {"waitMessage"}

-----------------------------------------------------------------------------
\* the predicates of the two waits
ConnectDone == connected_ \/ has_error_
MessageDone == message_received_ \/ has_error_

\* what makes connect throw
ConnectFailed == has_error_ /\ ~connected_

InLoop(k) == k < ITERATIONS

\* the value send_and_wait gives message_received_ before it sends
BeforeSend == FALSE

\* The places main may be woken from by the notifications of each handler
WokenByOpen == {"waitConnect"}
WokenByFail == {"waitConnect", "waitMessage"}
WokenByMessage == {"waitMessage"}

\* An exception leaves the try block: ~WebSocketRTTClient runs close().
Throw == failed' = TRUE /\ main' = "close"

\* connect: get_connection may fail; otherwise the attempt and the client's
\* event loop are started.
MainConnects ==
  /\ main = "connect"
  /\ \/ Throw /\ UNCHANGED <<clientLoop, con>>
     \/ /\ main' = "waitConnect"
        /\ clientLoop' = "run"
        /\ con' = Connect(con)
        /\ UNCHANGED failed
  /\ UNCHANGED <<i, asleep, flags, clientStopped, serverLoop, serverStopped, listening, echoed>>

\* A wait: main blocks, or goes on under the mutex.
Blocks(here, done) ==
  /\ main = here /\ ~asleep /\ ~done
  /\ asleep' = TRUE
  /\ UNCHANGED <<main, i, failed, flags, loops, con, echoed>>

MainConnected ==
  /\ main = "waitConnect" /\ ~asleep /\ ConnectDone
  /\ IF ConnectFailed THEN Throw ELSE main' = "reset" /\ UNCHANGED failed
  /\ UNCHANGED <<i, asleep, flags, loops, con, echoed>>

\* send_and_wait, first critical section
MainResets ==
  /\ main = "reset"
  /\ IF has_error_ THEN Throw /\ UNCHANGED message_received_
                   ELSE /\ message_received_' = BeforeSend
                        /\ main' = "send"
                        /\ UNCHANGED failed
  /\ UNCHANGED <<i, asleep, connected_, has_error_, loops, con, echoed>>

MainSends ==
  /\ main = "send"
  /\ IF CanSend(con, "client", i)
       THEN con' = Send(con, "client", i) /\ main' = "waitMessage" /\ UNCHANGED failed
       ELSE Throw /\ UNCHANGED con
  /\ UNCHANGED <<i, asleep, flags, loops, echoed>>

\* The round is over; after the last one main calls close().
MainReceives ==
  /\ main = "waitMessage" /\ ~asleep /\ MessageDone
  /\ IF has_error_
       THEN Throw /\ UNCHANGED i
       ELSE /\ i' = i + 1
            /\ main' = IF InLoop(i') THEN "reset" ELSE "close"
            /\ UNCHANGED failed
  /\ UNCHANGED <<asleep, flags, loops, con, echoed>>

\* close(): connected_ is read and written without the mutex; a refused close
\* leaves its reason in ec, which nobody reads.
MainCloses ==
  /\ main = "close"
  /\ con' = IF connected_ /\ CanClose(con, "client") THEN Close(con, "client") ELSE con
  /\ connected_' = FALSE
  /\ main' = "stopClient"
  /\ UNCHANGED <<i, failed, asleep, has_error_, message_received_, loops, echoed>>

MainStopsClient ==
  /\ main = "stopClient"
  /\ clientStopped' = TRUE
  /\ main' = "joinClient"
  /\ UNCHANGED <<i, failed, asleep, flags, clientLoop, serverLoop, serverStopped, listening,
                 con, echoed>>

\* client_thread_.join(), if it was started
MainJoinsClient ==
  /\ main = "joinClient"
  /\ clientLoop \in {"none", "ended"}
  /\ main' = "stopServer"
  /\ UNCHANGED <<i, failed, asleep, flags, loops, con, echoed>>

\* cleanup_ws: stop_listening, stop, join
MainStopsServer ==
  /\ main = "stopServer"
  /\ listening' = FALSE
  /\ serverStopped' = TRUE
  /\ main' = "joinServer"
  /\ UNCHANGED <<i, failed, asleep, flags, clientLoop, clientStopped, serverLoop, con, echoed>>

MainJoinsServer ==
  /\ main = "joinServer"
  /\ serverLoop = "ended"
  /\ main' = "end"
  /\ UNCHANGED <<i, failed, asleep, flags, loops, con, echoed>>

-----------------------------------------------------------------------------
\* The client's event loop takes no new handler once it is stopped.
ClientRuns == clientLoop = "run" /\ ~clientStopped

ClientHandlesOpen ==
  /\ ClientRuns
  /\ CanOpen(con, "client")
  /\ con' = Open(con, "client")
  /\ connected_' = TRUE
  /\ clientLoop' = "notifyOpen"
  /\ UNCHANGED <<mainVars, has_error_, message_received_, clientStopped, serverLoop,
                 serverStopped, listening, echoed>>

\* No close handler is set: the end of an open connection goes unnoticed.
ClientHandlesEnd ==
  /\ ClientRuns
  /\ con.ending["client"] # "none"
  /\ con' = Notified(con, "client")
  /\ IF con.ending["client"] = "fail"
       THEN has_error_' = TRUE /\ clientLoop' = "notifyFail"
       ELSE UNCHANGED <<has_error_, clientLoop>>
  /\ UNCHANGED <<mainVars, connected_, message_received_, clientStopped, serverLoop,
                 serverStopped, listening, echoed>>

ClientHandlesMessage ==
  /\ ClientRuns
  /\ Delivers(con, "client")
  /\ con' = Taken(con, "client")
  /\ message_received_' = TRUE
  /\ clientLoop' = "notifyMessage"
  /\ UNCHANGED <<mainVars, connected_, has_error_, clientStopped, serverLoop, serverStopped,
                 listening, echoed>>

\* The handler has given mtx_ back and notifies.
ClientNotifies ==
  /\ clientLoop \in {"notifyOpen", "notifyFail", "notifyMessage"}
  /\ asleep' = (asleep /\ main \notin CASE clientLoop = "notifyOpen" -> WokenByOpen
                                         [] clientLoop = "notifyFail" -> WokenByFail
                                         [] OTHER -> WokenByMessage)
  /\ clientLoop' = "run"
  /\ UNCHANGED <<main, i, failed, flags, clientStopped, serverLoop, serverStopped, listening,
                 con, echoed>>

\* Nobody listens on the port, or the attempt is turned down.
ClientIsRefused ==
  /\ ClientRuns
  /\ con.state["client"] = "connecting" /\ con.state["server"] = "none"
  /\ con' = Refuse(con)
  /\ UNCHANGED progVars

ClientLibrary == ClientRuns /\ con' \in Quiet(con, "client") /\ UNCHANGED progVars

\* run() returns when it was stopped or has nothing left to do.
ClientLoopEnds ==
  /\ clientLoop = "run"
  /\ clientStopped \/ (con.state["client"] = "closed" /\ con.ending["client"] = "none")
  /\ clientLoop' = "ended"
  /\ UNCHANGED <<mainVars, flags, clientStopped, serverLoop, serverStopped, listening, con,
                 echoed>>

-----------------------------------------------------------------------------
ServerRuns == serverLoop = "run" /\ ~serverStopped

\* listen may throw: the port is taken.
ServerListens ==
  /\ serverLoop = "start"
  /\ \/ serverLoop' = "run" /\ listening' = TRUE
     \/ serverLoop' = "ended" /\ UNCHANGED listening
  /\ UNCHANGED <<mainVars, flags, clientLoop, clientStopped, serverStopped, con, echoed>>

ServerAccepts ==
  /\ ServerRuns /\ listening
  /\ CanAccept(con)
  /\ con' = Accept(con)
  /\ UNCHANGED progVars

ServerResponds ==
  /\ ServerRuns
  /\ CanRespond(con)
  /\ con' = Respond(con)
  /\ UNCHANGED progVars

ServerOpens ==
  /\ ServerRuns
  /\ CanOpen(con, "server")
  /\ con' = Open(con, "server")
  /\ UNCHANGED progVars

\* the echo, which is not refused: the session is open, the text came as UTF-8
ServerHandlesMessage ==
  /\ ServerRuns
  /\ Delivers(con, "server")
  /\ con' = Send(Taken(con, "server"), "server", Head(con.wire["server"]).payload)
  /\ echoed' = echoed + 1
  /\ UNCHANGED <<mainVars, flags, loops>>

\* No open, fail or close handler is set in the server.
ServerLibrary == ServerRuns /\ con' \in Quiet(con, "server") /\ UNCHANGED progVars

ServerLoopEnds ==
  /\ serverLoop = "run" /\ serverStopped
  /\ serverLoop' = "ended"
  /\ UNCHANGED <<mainVars, flags, clientLoop, clientStopped, serverStopped, listening, con,
                 echoed>>

\* An open connection breaks.
Break ==
  /\ con.state["client"] = "open" \/ con.state["server"] = "open"
  /\ con' = Lose(con)
  /\ broken' = TRUE
  /\ UNCHANGED progVars

\* A handshake timer runs late, in the event loop of side s.
CutByTimer(s) ==
  /\ IF s = "client" THEN ClientRuns ELSE ServerRuns
  /\ TimerRunsLate(con, s)
  /\ con' = Terminate(con, s)
  /\ broken' = TRUE
  /\ UNCHANGED progVars

SpuriousWakeup ==
  /\ asleep
  /\ asleep' = FALSE
  /\ UNCHANGED <<main, i, failed, flags, loops, con, echoed, broken>>

MainStep ==
  /\ \/ MainConnects \/ Blocks("waitConnect", ConnectDone) \/ MainConnected
     \/ MainResets \/ MainSends \/ Blocks("waitMessage", MessageDone) \/ MainReceives
     \/ MainCloses \/ MainStopsClient \/ MainJoinsClient \/ MainStopsServer \/ MainJoinsServer
  /\ UNCHANGED broken

ClientStep ==
  /\ \/ ClientHandlesOpen \/ ClientHandlesEnd \/ ClientHandlesMessage \/ ClientNotifies
     \/ ClientIsRefused \/ ClientLibrary \/ ClientLoopEnds
  /\ UNCHANGED broken

ServerStep ==
  /\ \/ ServerListens \/ ServerAccepts \/ ServerResponds \/ ServerOpens
     \/ ServerHandlesMessage \/ ServerLibrary \/ ServerLoopEnds
  /\ UNCHANGED broken

Disturbance == Break \/ \E s \in Sides : CutByTimer(s)

Next == MainStep \/ ClientStep \/ ServerStep \/ Disturbance \/ SpuriousWakeup

Spec == Init /\ [][Next]_vars

\* The three threads run when they can.
FairSpec == Spec /\ WF_vars(MainStep) /\ WF_vars(ClientStep) /\ WF_vars(ServerStep)

-----------------------------------------------------------------------------
(* Properties *)

\* Everything is where it belongs, and no more rounds are played than measured.
TypeOK ==
  /\ main \in {"connect", "waitConnect", "reset", "send", "waitMessage", "close", "stopClient",
              "joinClient", "stopServer", "joinServer", "end"}
  /\ i \in 0..ITERATIONS /\ echoed \in 0..ITERATIONS
  /\ {failed, asleep, connected_, has_error_, message_received_, clientStopped, serverStopped,
      listening, broken} \subseteq BOOLEAN
  /\ clientLoop \in {"none", "run", "notifyOpen", "notifyFail", "notifyMessage", "ended"}
  /\ serverLoop \in {"start", "run", "ended"}
  /\ con \in Connections(0..(ITERATIONS - 1))

\* The fail handler and the open handler exclude each other, so send_and_wait
\* never finds has_error_ set: its two tests catch nothing.
NoErrorOnceConnected ==
  has_error_ => ~connected_ /\ main \notin {"reset", "send", "waitMessage"}

\* close() uses connected_ without the mutex, but no handler will write it any
\* more: the session is past its handshake or was never started.
CloseOwnsConnected ==
  main \in {"close", "stopClient"} => clientLoop = "none" \/ con.state["client"] # "connecting"

\* The parts of the inductive invariant.
\* Handshake: connected_ is set in an opened session only, a session that failed
\* is closed and stays so, and nothing happens before client_thread_ is started.
FailedSession == has_error_ \/ con.ending["client"] = "fail"

Handshake ==
  /\ connected_ => con.state["client"] \in {"open", "closing", "closed"}
  /\ FailedSession => con.state["client"] = "closed" /\ ~connected_
  /\ main = "connect" => clientLoop = "none"
  /\ clientLoop = "none" => con = NoConnection /\ ~connected_ /\ ~has_error_

\* Rounds: where main is tells how many rounds it has played.
Playing == {"reset", "send", "waitMessage"}

Rounds ==
  /\ main \in {"connect", "waitConnect"} => i = 0
  /\ main \in {"connect", "waitConnect"} \cup Playing => ~failed
  /\ main \in Playing => i < ITERATIONS /\ connected_
  /\ main \notin {"connect", "waitConnect"} \cup Playing => i = ITERATIONS \/ failed

\* InFlight: one message at most is on its way.  While main waits for it, it is
\* on its way to the server, on its way back, in message_received_, or lost;
\* otherwise there is none.
Silent(w) == \A k \in DOMAIN w : w[k].op # "text"
OneText(w) == \A j, k \in DOMAIN w : w[j].op = "text" /\ w[k].op = "text" => j = k

Idle(c) == \A s \in Sides : Silent(c.queue[s]) /\ Silent(c.wire[s])

Carries(c, s) ==
  /\ Silent(c.queue[Peer(s)]) /\ Silent(c.wire[s])
  /\ OneText(c.queue[s]) /\ OneText(c.wire[Peer(s)])
  /\ Silent(c.queue[s]) \/ Silent(c.wire[Peer(s)])

InFlight ==
  /\ main # "waitMessage" => Idle(con) /\ echoed = i
  /\ main = "send" => ~message_received_
  /\ main = "waitMessage" =>
       \/ echoed = i /\ ~message_received_ /\ Carries(con, "client")
       \/ echoed = i + 1 /\ ~message_received_ /\ Carries(con, "server")
       \/ echoed = i + 1 /\ message_received_ /\ Idle(con)

IInv == TypeOK /\ Handshake /\ Rounds /\ InFlight /\ CloseOwnsConnected

\* Each measured round is a send, the server's echo of it, and its arrival:
\* message_received_ never answers for the round before.
Rally == INSTANCE Alternation
           WITH pings <- i + (IF main = "waitMessage" THEN 1 ELSE 0),
                pongs <- echoed,
                over <- main = "end" /\ ~failed

Alternates == Rally!SafeSpec

\* The benchmark ends, with a result or with an exception, and both event
\* loops are joined, whether the closing handshake was finished or cut short by
\* stop(); unless an open connection breaks or a handshake timer ends it.
EndsUnlessBroken == <>(broken \/ main = "end")

\* Even then there is one place only where it can hang: the wait for a message
\* on a session that is closed already.
OnlyHang ==
  <>[](main = "end" \/ (main = "waitMessage" /\ con.state["client"] = "closed"))

\* What the comment on the fail handler's notification says: it wakes a main
\* that waits in send_and_wait when the connection is gone.
LossWakesSendAndWait ==
  (main = "waitMessage" /\ con.state["client"] = "closed") ~> main # "waitMessage"

=============================================================================
