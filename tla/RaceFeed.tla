------------------------------ MODULE RaceFeed ------------------------------
(***************************************************************************)
(* What thrd_print of Task1to3_v4.cpp shows on the console and sends to    *)
(* the receiver of Task 4.  The runners and main print while the race      *)
(* runs; main joins the runners, prints the results and closes the socket. *)
(*                                                                         *)
(* The text of a message is abstracted to who printed it and how many that *)
(* thread had printed before; cout << str is not atomic: it comes out in   *)
(* two pieces.  sendto on the loopback is one step that puts the datagram  *)
(* in the buffer of the socket bound to port 6000, if there is one; the    *)
(* buffer keeps the order and loses what it likes; the receiver is started *)
(* and stopped at any time.  The model begins when main has created the    *)
(* threads.                                                                *)
(***************************************************************************)
EXTENDS Integers, Sequences

CONSTANTS
  Runners,   \* the threads main creates
  Main,      \* the main thread
  Messages   \* bound: the messages of each runner, and of main before the joins

ASSUME FeedAssumption ==
  /\ Main \notin Runners
  /\ Messages \in Nat \ {0}

Threads == Runners \cup {Main}

VARIABLES
  pc,        \* in thrd_print: idle, half of the line out, about to send;
             \* main goes on to join, and ends with done
  printed,   \* the messages each thread has printed and sent
  console,   \* the pieces of messages that came out
  socket,    \* g_SendSocket: invalid, open, closed
  receiver,  \* is Task4_Receiver bound to port 6000
  buffer,    \* the datagrams it has still to receive
  feed,      \* what it has printed since it was started
  missed     \* history: a datagram was lost, or the receiver was not there from
             \* the start to the end

vars == <<pc, printed, console, socket, receiver, buffer, feed, missed>>

Init ==
  /\ pc = [t \in Threads |-> "idle"]
  /\ printed = [t \in Threads |-> 0]
  /\ console = <<>>
  /\ socket \in {"invalid", "open"}
  /\ receiver \in BOOLEAN
  /\ buffer = <<>>
  /\ feed = <<>>
  /\ missed = ~(receiver /\ socket = "open")

\* The message t prints next
Message(t) == <<t, printed[t]>>

-----------------------------------------------------------------------------
(* Mutated forms of the helpers below.                                     *)
(* NoLock: the line goes to cout directly, as the winner's line of v3 does.*)
(* SendOutside: the mutex is released before sendto.                       *)
(* ResultsFirst: main does not wait for the runners.                       *)
NoLock(t) == TRUE
SendOutside(t) == \A u \in Threads : pc[u] # "rest"
ResultsFirst == TRUE

-----------------------------------------------------------------------------
\* print_mtx is free: its holder prints or sends.
MayPrint(t) == \A u \in Threads : pc[u] \notin {"rest", "send"}

AfterMessage(t) == printed[t] + 1

\* Every runner has returned from its last thrd_print.
Joined == \A r \in Runners : pc[r] = "idle" /\ printed[r] = Messages

\* Main has one message more: the results.
Wants(t) ==
  \/ printed[t] < Messages
  \/ t = Main /\ printed[t] = Messages /\ Joined

PrintHead(t) ==
  /\ pc[t] = "idle"
  /\ Wants(t)
  /\ MayPrint(t)
  /\ console' = Append(console, [msg |-> Message(t), piece |-> "head"])
  /\ pc' = [pc EXCEPT ![t] = "rest"]
  /\ UNCHANGED <<printed, socket, receiver, buffer, feed, missed>>

PrintRest(t) ==
  /\ pc[t] = "rest"
  /\ console' = Append(console, [msg |-> Message(t), piece |-> "tail"])
  /\ pc' = [pc EXCEPT ![t] = "send"]
  /\ UNCHANGED <<printed, socket, receiver, buffer, feed, missed>>

\* Nobody looks at the result of sendto.
SendAndUnlock(t) ==
  /\ pc[t] = "send"
  /\ buffer' = IF socket = "open" /\ receiver THEN Append(buffer, Message(t)) ELSE buffer
  /\ printed' = [printed EXCEPT ![t] = AfterMessage(t)]
  /\ pc' = [pc EXCEPT ![t] = "idle"]
  /\ UNCHANGED <<console, socket, receiver, feed, missed>>

\* Datagrams that are already in the receiver's buffer outlive the socket.
CloseSocket ==
  /\ pc[Main] = "idle"
  /\ printed[Main] = Messages + 1
  /\ socket' = IF socket = "invalid" THEN "invalid" ELSE "closed"
  /\ pc' = [pc EXCEPT ![Main] = "done"]
  /\ UNCHANGED <<printed, console, receiver, buffer, feed, missed>>

\* One round of the receiver's loop: a datagram is received and printed whole.
Receive ==
  /\ receiver
  /\ buffer # <<>>
  /\ feed' = Append(feed, Head(buffer))
  /\ buffer' = Tail(buffer)
  /\ UNCHANGED <<pc, printed, console, socket, receiver, missed>>

\* The receiver is started, with an empty buffer and a console of its own.
StartReceiver ==
  /\ ~receiver
  /\ receiver' = TRUE
  /\ feed' = <<>>
  /\ UNCHANGED <<pc, printed, console, socket, buffer, missed>>

\* It is stopped, or ends with an exception; its console stays.
StopReceiver ==
  /\ receiver
  /\ receiver' = FALSE
  /\ buffer' = <<>>
  /\ missed' = TRUE
  /\ UNCHANGED <<pc, printed, console, socket, feed>>

LoseDatagram ==
  /\ \E k \in DOMAIN buffer :
       buffer' = SubSeq(buffer, 1, k - 1) \o SubSeq(buffer, k + 1, Len(buffer))
  /\ missed' = TRUE
  /\ UNCHANGED <<pc, printed, console, socket, receiver, feed>>

ThreadStep(t) ==
  \/ PrintHead(t) \/ PrintRest(t) \/ SendAndUnlock(t)
  \/ t = Main /\ CloseSocket

Next ==
  \/ \E t \in Threads : ThreadStep(t)
  \/ Receive \/ StartReceiver \/ StopReceiver \/ LoseDatagram

Spec == Init /\ [][Next]_vars

\* Every thread runs when it can, and a running receiver's loop does.  The
\* mutex need not be fair: each thread asks for it finitely often.
FairSpec == Spec /\ (\A t \in Threads : WF_vars(ThreadStep(t))) /\ WF_vars(Receive)

-----------------------------------------------------------------------------
(* Properties *)

AllMessages == Threads \X (0..Messages)

\* Every variable stays in its range; a stopped receiver has no buffer.
TypeOK ==
  /\ pc \in [Threads -> {"idle", "rest", "send", "done"}]
  /\ printed \in [Threads -> 0..(Messages + 1)]
  /\ console \in Seq([msg : AllMessages, piece : {"head", "tail"}])
  /\ socket \in {"invalid", "open", "closed"}
  /\ {receiver, missed} \subseteq BOOLEAN
  /\ buffer \in Seq(AllMessages)
  /\ feed \in Seq(AllMessages)
  /\ ~receiver => buffer = <<>>

\* On the console every message is whole: nothing comes between its two pieces.
WholeLines ==
  \A k \in 1..(Len(console) - 1) :
    console[k].piece = "head" =>
      console[k + 1] = [msg |-> console[k].msg, piece |-> "tail"]

\* The console showed all of m before it began with n.
Before(m, n) ==
  \E j, k \in DOMAIN console :
    /\ j < k
    /\ console[j] = [msg |-> m, piece |-> "tail"]
    /\ console[k] = [msg |-> n, piece |-> "head"]

\* What the receiver has shown and will show, if nothing more is lost
Arriving == feed \o buffer

\* However many datagrams are lost and whenever the receiver is started, what
\* it shows comes in the order of the race's console, and nothing comes twice.
FeedInConsoleOrder ==
  \A j, k \in DOMAIN Arriving : j < k => Before(Arriving[j], Arriving[k])

Printing(t) == pc[t] \in {"rest", "send"}

\* The socket is open, or was never there, whenever a message is sent: main
\* closes it after the last thrd_print of any thread.
NoSendAfterClose == (\E t \in Threads : Printing(t)) => socket # "closed"

\* One thread prints at a time, and the end of the console is its message: the
\* first half, or all of it.
LineInHand ==
  /\ \A t, u \in Threads : Printing(t) /\ Printing(u) => t = u
  /\ \A t \in Threads :
       /\ pc[t] = "rest" =>
            Len(console) > 0 /\ console[Len(console)] = [msg |-> Message(t), piece |-> "head"]
       /\ pc[t] = "send" =>
            /\ Len(console) > 1
            /\ console[Len(console) - 1] = [msg |-> Message(t), piece |-> "head"]
            /\ console[Len(console)] = [msg |-> Message(t), piece |-> "tail"]
  /\ Len(console) > 0 /\ console[Len(console)].piece = "head" =>
       \E t \in Threads : pc[t] = "rest"

\* The receiver gets only what has been printed whole and counted as sent.
SentWasPrinted ==
  \A k \in DOMAIN Arriving :
    /\ Arriving[k][2] < printed[Arriving[k][1]]
    /\ \E j \in DOMAIN console : console[j] = [msg |-> Arriving[k], piece |-> "tail"]

\* Main prints the results, and closes the socket, when every runner has
\* printed its last message.
MainIsLast ==
  /\ \A r \in Runners : pc[r] # "done" /\ printed[r] <= Messages
  /\ \A t \in Threads : Printing(t) => printed[t] < Messages \/ (t = Main /\ printed[t] = Messages)
  /\ Printing(Main) /\ printed[Main] = Messages => Joined
  /\ printed[Main] = Messages + 1 => Joined
  /\ pc[Main] = "done" => printed[Main] = Messages + 1
  /\ socket = "closed" => pc[Main] = "done"

IInv ==
  TypeOK /\ WholeLines /\ LineInHand /\ SentWasPrinted /\ FeedInConsoleOrder /\ MainIsLast

\* A receiver that is there from the start to the end and loses nothing ends with
\* the whole race: every line thrd_print has printed, up to the results.
ReceiverSeesTheRace ==
  <>[](\/ missed
       \/ /\ \A t \in Threads : \A n \in 0..(Messages - 1) : \E k \in DOMAIN feed : feed[k] = <<t, n>>
          /\ feed # <<>> /\ feed[Len(feed)] = <<Main, Messages>>)

=============================================================================
