------------------------------ MODULE TestPage ------------------------------
(***************************************************************************)
(* The script of websock_test.html: three buttons and the handlers of a    *)
(* WebSocket that every click on Connect replaces.  The handlers of an old *)
(* socket stay attached and change the same buttons.                       *)
(*                                                                         *)
(* A click or an event is one task of the browser's event loop.  What the  *)
(* browser does with a WebSocket is taken from how the script uses it:     *)
(* close() only starts the closing of a socket, readyState changes with    *)
(* the event that reports it, and a socket that is closing does not open.  *)
(***************************************************************************)
EXTENDS Integers

CONSTANT MaxSockets    \* bound: the clicks on Connect

ASSUME PageAssumption == MaxSockets \in Nat

Sockets == 1..MaxSockets

VARIABLES
  created,     \* the sockets made so far; the last one is ws
  readyState,  \* of each socket
  connectBtn, disconnectBtn, sendBtn,   \* is the button enabled
  hurried      \* history: Connect was clicked while ws was still connecting

pageVars == <<created, readyState, connectBtn, disconnectBtn, sendBtn, hurried>>
buttons == <<connectBtn, disconnectBtn, sendBtn>>

PageInit ==
  /\ created = 0
  /\ readyState = [s \in Sockets |-> "none"]
  /\ connectBtn = TRUE
  /\ disconnectBtn = FALSE
  /\ sendBtn = FALSE
  /\ hurried = FALSE

-----------------------------------------------------------------------------
(* Mutated forms of the helpers below.                                     *)
(* Forgotten: Connect does not close the previous socket.                  *)
(* LeftOpen: onclose leaves the buttons as they are.                       *)
Forgotten(states, s) == states
LeftOpen == UNCHANGED buttons

-----------------------------------------------------------------------------
\* ws.close(), if there is a ws: nothing happens to a socket that is closed.
CloseSocket(states, s) ==
  IF s \in Sockets /\ states[s] \in {"connecting", "open"}
  THEN [states EXCEPT ![s] = "closing"]
  ELSE states

\* new WebSocket, assigned to ws
Created(states) == [states EXCEPT ![created + 1] = "connecting"]

OnOpen ==
  /\ connectBtn' = FALSE
  /\ disconnectBtn' = TRUE
  /\ sendBtn' = TRUE

OnClose ==
  /\ connectBtn' = TRUE
  /\ disconnectBtn' = FALSE
  /\ sendBtn' = FALSE

ClickConnect ==
  /\ connectBtn
  /\ created < MaxSockets
  /\ created' = created + 1
  /\ readyState' = Created(CloseSocket(readyState, created))
  /\ hurried' = (hurried \/ (created > 0 /\ readyState[created] = "connecting"))
  /\ UNCHANGED buttons

ClickDisconnect ==
  /\ disconnectBtn
  /\ readyState' = CloseSocket(readyState, created)
  /\ UNCHANGED <<created, buttons, hurried>>

\* The open event of s
Opens(s) ==
  /\ readyState[s] = "connecting"
  /\ readyState' = [readyState EXCEPT ![s] = "open"]
  /\ OnOpen
  /\ UNCHANGED <<created, hurried>>

\* A close frame of the server has come.
ServerCloses(s) ==
  /\ readyState[s] = "open"
  /\ readyState' = [readyState EXCEPT ![s] = "closing"]
  /\ UNCHANGED <<created, buttons, hurried>>

\* The close event of s, the current socket or not: refused, lost, or closed by
\* both sides
Closes(s) ==
  /\ readyState[s] \in {"connecting", "open", "closing"}
  /\ readyState' = [readyState EXCEPT ![s] = "closed"]
  /\ OnClose
  /\ UNCHANGED <<created, hurried>>

PageNext ==
  \/ ClickConnect
  \/ ClickDisconnect
  \/ \E s \in Sockets : Opens(s) \/ ServerCloses(s) \/ Closes(s)

PageSpec == PageInit /\ [][PageNext]_pageVars

\* The browser gets over with a socket that is closing; nobody has to click.
PageFairSpec == PageSpec /\ \A s \in Sockets : WF_pageVars(readyState[s] = "closing" /\ Closes(s))

-----------------------------------------------------------------------------
(* Properties *)

\* The sockets made are the first ones, and each has a state.
PageTypeOK ==
  /\ created \in 0..MaxSockets
  /\ readyState \in [Sockets -> {"none", "connecting", "open", "closing", "closed"}]
  /\ \A s \in Sockets : s > created <=> readyState[s] = "none"
  /\ {connectBtn, disconnectBtn, sendBtn, hurried} \subseteq BOOLEAN

\* However often Connect is clicked, no connection is left behind: a socket
\* that ws no longer points to is closing or closed, so its handlers can run
\* once more at most, and never onopen.
OldSocketsEnd ==
  \A s \in Sockets : s < created => readyState[s] \in {"closing", "closed"}

\* While Connect is disabled the page has a socket whose close event is still
\* to come, and Disconnect and Send work: the user is never stuck.
NeverStuck ==
  ~connectBtn =>
    /\ disconnectBtn /\ sendBtn
    /\ created > 0 /\ readyState[created] \in {"open", "closing"}

\* The buttons tell the state of ws, unless Connect was once clicked while ws was
\* connecting: only then can an old socket's onclose come after the onopen of
\* its successor and disable Send and Disconnect of an open connection.
ButtonsTellState ==
  ~hurried =>
    (sendBtn <=> created > 0 /\ readyState[created] \in {"open", "closing"})

\* A connection that is closing, by whichever side, gives Connect back.
ConnectComesBack ==
  (created > 0 /\ readyState[created] = "closing") ~> connectBtn

=============================================================================
