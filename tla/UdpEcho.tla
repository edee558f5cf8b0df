------------------------------- MODULE UdpEcho -------------------------------
(***************************************************************************)
(* The UDP echo of Task5_Benchmark.cpp: main sends a ping and receives one *)
(* datagram, ITERATIONS times; the server thread receives one datagram and *)
(* sends it back, ITERATIONS times.                                        *)
(*                                                                         *)
(* Every ping has the same text: the number that tells them apart is the   *)
(* model's, not the program's.  The loopback may lose, delay and reorder   *)
(* datagrams; it does not duplicate them.  A recvfrom may fail at any time:*)
(* SO_RCVTIMEO has expired, or the peer's port is closed.                  *)
(***************************************************************************)
EXTENDS Integers, Sequences, Iterations

CONSTANT Failed    \* the result of a recvfrom that failed

ASSUME UdpAssumption == Failed \notin Nat

Pings == 0..(ITERATIONS - 1)

VARIABLES
  bound,     \* bind got port 6000
  client,    \* main: in sendto, in recvfrom, in join, after it
  got,       \* per finished iteration of main, the ping whose echo it received,
             \* or Failed; the loop counter is its length
  server,    \* the server thread: in recvfrom, in sendto, socket closed
  held,      \* the ping in the server's buf
  served,    \* per finished iteration of the server, the ping it returned, or Failed
  toServer, toClient  \* the pings and echoes in flight or in a socket's buffer

vars == <<bound, client, got, server, held, served, toServer, toClient>>

Init ==
  /\ bound \in BOOLEAN
  /\ client = "send"
  /\ got = <<>>
  /\ server = "recv"
  /\ held = Failed
  /\ served = <<>>
  /\ toServer = {}
  /\ toClient = {}

-----------------------------------------------------------------------------
(* Mutated forms of the helpers below.                                     *)
(* NoTimeout: a socket without SO_RCVTIMEO.                                *)
(* OneShort: the server goes round one time less.                          *)
(* Kept: a datagram that is still in the buffer after it has been read.    *)
NoTimeout == FALSE
OneShort(s) == IF Len(s) + 2 < ITERATIONS THEN "recv" ELSE "closed"
Kept(net, p) == net

-----------------------------------------------------------------------------
\* SO_RCVTIMEO is set on both sockets
ServerGivesUp == TRUE
ClientGivesUp == TRUE

\* what recvfrom leaves in the buffer
Taken(net, p) == net \ {p}

\* where the loops are after one more iteration
ClientAfter(s) == IF Len(s) + 1 < ITERATIONS THEN "send" ELSE "join"
ServerAfter(s) == IF Len(s) + 1 < ITERATIONS THEN "recv" ELSE "closed"

\* A datagram to a port nobody is bound to is dropped.
Sent(p) == IF bound /\ server # "closed" THEN toServer \cup {p} ELSE toServer

ClientSends ==
  /\ client = "send"
  /\ toServer' = Sent(Len(got))
  /\ client' = "recv"
  /\ UNCHANGED <<bound, got, server, held, served, toClient>>

\* The result of recvfrom, here p or Failed, is not looked at; after the last
\* iteration main closes its socket.
EndRound(p, net) ==
  /\ client = "recv"
  /\ got' = Append(got, p)
  /\ client' = ClientAfter(got)
  /\ toClient' = IF client' = "join" THEN {} ELSE net
  /\ UNCHANGED <<bound, server, held, served, toServer>>

ClientReceives == \E p \in toClient : EndRound(p, Taken(toClient, p))

ClientFails == ClientGivesUp /\ EndRound(Failed, toClient)

ClientJoins ==
  /\ client = "join"
  /\ server = "closed"
  /\ client' = "done"
  /\ UNCHANGED <<bound, got, server, held, served, toServer, toClient>>

\* One iteration of the server is over; after the last it closes its socket.
EndService(p) ==
  /\ served' = Append(served, p)
  /\ server' = ServerAfter(served)
  /\ held' = Failed
  /\ toServer' = IF server' = "closed" THEN {} ELSE toServer
  /\ UNCHANGED <<bound, client, got>>

ServerReceives ==
  /\ server = "recv"
  /\ \E p \in toServer : held' = p /\ toServer' = Taken(toServer, p)
  /\ server' = "send"
  /\ UNCHANGED <<bound, client, got, served, toClient>>

ServerFails ==
  /\ server = "recv"
  /\ ServerGivesUp
  /\ EndService(Failed)
  /\ UNCHANGED toClient

ServerEchoes ==
  /\ server = "send"
  /\ EndService(held)
  /\ toClient' = IF client \in {"send", "recv"} THEN toClient \cup {held} ELSE toClient

\* A datagram is lost.
Lose ==
  /\ \/ /\ \E p \in toServer : toServer' = toServer \ {p}
        /\ UNCHANGED toClient
     \/ /\ \E p \in toClient : toClient' = toClient \ {p}
        /\ UNCHANGED toServer
  /\ UNCHANGED <<bound, client, got, server, held, served>>

ClientStep == ClientSends \/ ClientReceives \/ ClientFails \/ ClientJoins
ServerStep == ServerReceives \/ ServerFails \/ ServerEchoes

Next == ClientStep \/ ServerStep \/ Lose

Spec == Init /\ [][Next]_vars

\* Both threads run when they can; nothing is assumed of the loopback.
FairSpec == Spec /\ WF_vars(ClientStep) /\ WF_vars(ServerStep)

-----------------------------------------------------------------------------
(* Properties *)

\* The pings main has sent
SentPings == 0..(Len(got) - (IF client = "recv" THEN 0 ELSE 1))

\* Every datagram, wherever it is, carries a ping main has sent, and the two
\* loops run ITERATIONS times each.
TypeOK ==
  /\ bound \in BOOLEAN
  /\ client \in {"send", "recv", "join", "done"}
  /\ server \in {"recv", "send", "closed"}
  /\ got \in Seq(SentPings \cup {Failed})
  /\ served \in Seq(SentPings \cup {Failed})
  /\ held \in SentPings \cup {Failed}
  /\ toServer \subseteq SentPings
  /\ toClient \subseteq SentPings
  /\ Len(got) <= ITERATIONS /\ (client \in {"send", "recv"} <=> Len(got) < ITERATIONS)
  /\ Len(served) <= ITERATIONS /\ (server # "closed" <=> Len(served) < ITERATIONS)
  /\ server = "send" <=> held # Failed

\* No recvfrom in s has failed.
NoFailure(s) == \A k \in DOMAIN s : s[k] # Failed

\* No echo ends two rounds of main, however late it comes.
EchoedOnce ==
  \A j, k \in DOMAIN got : got[j] = got[k] /\ got[j] # Failed => j = k

\* Until main's first timeout every round ends with the echo of its own ping,
\* whatever the server missed: only a timeout shifts the later rounds.
ShiftNeedsTimeout ==
  \A k \in DOMAIN got : (\A j \in 1..k : got[j] # Failed) => got[k] = k - 1

\* The server closes before main has sent its last ping only if one of its
\* iterations went to a timeout.
EarlyCloseNeedsTimeout ==
  server = "closed" /\ NoFailure(served) => SentPings = Pings

\* A ping is in one place only: on its way, in the server's hands, or returned
\* by it once; an echo in flight or received is one the server returned.
OnePlace ==
  /\ held \notin toServer
  /\ \A k \in DOMAIN served : served[k] \notin toServer \cup ({held} \ {Failed})
  /\ \A j, k \in DOMAIN served : served[j] = served[k] /\ served[j] # Failed => j = k
  /\ \A p \in toClient : \E k \in DOMAIN served : served[k] = p
  /\ \A j \in DOMAIN got :
       got[j] # Failed => got[j] \notin toClient /\ \E k \in DOMAIN served : served[k] = got[j]

\* Before any failure the server has served the pings in their order.
InOrder ==
  NoFailure(got) /\ NoFailure(served) =>
    /\ \A k \in DOMAIN served : served[k] = k - 1
    /\ server = "send" => held = Len(served)

IInv == TypeOK /\ OnePlace /\ EchoedOnce /\ ShiftNeedsTimeout /\ InOrder

\* As long as no recvfrom has failed, on either side, the two loops are in
\* step: the time main measures is that of a strict ping-pong.
Rally == INSTANCE Alternation
           WITH pings <- Len(got) + (IF client = "recv" THEN 1 ELSE 0),
                pongs <- Len(served),
                over <- client = "done"

AlternatesWhileCalm ==
  /\ Rally!Init
  /\ [][(NoFailure(got) /\ NoFailure(served))' => [Rally!Next]_(Rally!vars)]_vars

\* Whatever the loopback loses, both loops end, the server is joined and main
\* goes on to the next benchmark.
BothLoopsEnd == <>(client = "done")

=============================================================================
