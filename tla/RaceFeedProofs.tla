--------------------------- MODULE RaceFeedProofs ----------------------------
(***************************************************************************)
(* What the mutex of thrd_print and main's joins give the race feed, for   *)
(* any number of runners and messages and whatever the network loses.      *)
(***************************************************************************)
EXTENDS RaceFeed, SequenceTheorems, TLAPS

\* What is appended comes last and moves nothing.
LEMMA Appended ==
  ASSUME NEW S, NEW s \in Seq(S), NEW e \in S
  PROVE  /\ Append(s, e) \in Seq(S)
         /\ Len(Append(s, e)) = Len(s) + 1
         /\ DOMAIN Append(s, e) = 1..(Len(s) + 1)
         /\ DOMAIN s = 1..Len(s)
         /\ Len(s) \in Nat
         /\ \A k \in 1..Len(s) : Append(s, e)[k] = s[k]
         /\ Append(s, e)[Len(s) + 1] = e
OBVIOUS

LEMMA LastElement ==
  ASSUME NEW S, NEW s \in Seq(S), Len(s) > 0
  PROVE  s[Len(s)] \in S
OBVIOUS

\* The elements of a concatenation
LEMMA Joint ==
  ASSUME NEW S, NEW s \in Seq(S), NEW t \in Seq(S)
  PROVE  /\ s \o t \in Seq(S)
         /\ Len(s) \in Nat /\ Len(t) \in Nat
         /\ DOMAIN (s \o t) = 1..(Len(s) + Len(t))
         /\ \A k \in 1..Len(s) : (s \o t)[k] = s[k]
         /\ \A k \in 1..Len(t) : (s \o t)[Len(s) + k] = t[k]
         /\ \A k \in (Len(s) + 1)..(Len(s) + Len(t)) : (s \o t)[k] = t[k - Len(s)]
OBVIOUS

\* A sequence without its k-th element
LEMMA Without ==
  ASSUME NEW S, NEW s \in Seq(S), NEW k \in DOMAIN s,
         NEW t, t = SubSeq(s, 1, k - 1) \o SubSeq(s, k + 1, Len(s))
  PROVE  /\ t \in Seq(S)
         /\ Len(s) \in Nat
         /\ Len(t) = Len(s) - 1
         /\ \A j \in 1..(Len(s) - 1) : t[j] = IF j < k THEN s[j] ELSE s[j + 1]
<1>1. k \in 1..Len(s) /\ Len(s) \in Nat
  OBVIOUS
<1>2. /\ SubSeq(s, 1, k - 1) \in Seq(S) /\ Len(SubSeq(s, 1, k - 1)) = k - 1
      /\ \A j \in 1..(k - 1) : SubSeq(s, 1, k - 1)[j] = s[j]
  BY <1>1
<1>3. /\ SubSeq(s, k + 1, Len(s)) \in Seq(S) /\ Len(SubSeq(s, k + 1, Len(s))) = Len(s) - k
      /\ \A j \in 1..(Len(s) - k) : SubSeq(s, k + 1, Len(s))[j] = s[k + j]
  BY <1>1
<1>. DEFINE a == SubSeq(s, 1, k - 1)
            b == SubSeq(s, k + 1, Len(s))
<1>4. /\ t \in Seq(S) /\ DOMAIN t = 1..(Len(s) - 1)
      /\ \A j \in 1..(k - 1) : t[j] = s[j]
      /\ \A j \in k..(Len(s) - 1) : t[j] = b[j - (k - 1)]
  <2>. HIDE DEF a, b
  <2>1. a \in Seq(S) /\ b \in Seq(S) /\ Len(a) = k - 1 /\ Len(b) = Len(s) - k /\ t = a \o b
    BY <1>2, <1>3 DEF a, b
  <2>2. \A j \in 1..(k - 1) : a[j] = s[j]
    BY <1>2 DEF a
  <2>3. Len(a) + Len(b) = Len(s) - 1 /\ Len(a) + 1 = k
    BY <1>1, <2>1
  <2>4. /\ a \o b \in Seq(S) /\ DOMAIN (a \o b) = 1..(Len(a) + Len(b))
        /\ \A j \in 1..Len(a) : (a \o b)[j] = a[j]
        /\ \A j \in (Len(a) + 1)..(Len(a) + Len(b)) : (a \o b)[j] = b[j - Len(a)]
    BY <2>1, Joint
  <2>5. /\ a \o b \in Seq(S) /\ DOMAIN (a \o b) = 1..(Len(s) - 1)
        /\ \A j \in 1..(k - 1) : (a \o b)[j] = a[j]
        /\ \A j \in k..(Len(s) - 1) : (a \o b)[j] = b[j - (k - 1)]
    BY <2>1, <2>3, <2>4, Zenon
  <2>. QED
    BY <2>1, <2>2, <2>5, Zenon
<1>5. \A j \in k..(Len(s) - 1) : b[j - (k - 1)] = s[j + 1]
  <2>1. ASSUME NEW j \in k..(Len(s) - 1) PROVE b[j - (k - 1)] = s[j + 1]
    <3>1. j - (k - 1) \in 1..(Len(s) - k) /\ k + (j - (k - 1)) = j + 1
      BY <1>1
    <3>. QED
      BY <1>3, <3>1
  <2>. QED
    BY <2>1
<1>6. Len(t) = Len(s) - 1
  BY <1>1, <1>4
<1>7. ASSUME NEW j \in 1..(Len(s) - 1) PROVE t[j] = IF j < k THEN s[j] ELSE s[j + 1]
  <2>1. CASE j < k
    <3>1. j \in 1..(k - 1)
      BY <1>1, <2>1
    <3>. QED
      BY <1>4, <2>1, <3>1, Zenon
  <2>2. CASE ~(j < k)
    <3>1. j \in k..(Len(s) - 1)
      BY <1>1, <2>2
    <3>. HIDE DEF b
    <3>. QED
      BY <1>4, <1>5, <2>2, <3>1, Zenon
  <2>. QED
    BY <2>1, <2>2, Zenon
<1>. QED
  BY <1>1, <1>4, <1>6, <1>7

LEMMA InitIInv == Init => IInv
<1> SUFFICES ASSUME Init PROVE IInv
  OBVIOUS
<1>1. /\ console = <<>> /\ feed = <<>> /\ buffer = <<>> /\ Arriving = <<>>
      /\ Len(console) = 0 /\ DOMAIN Arriving = {}
  BY DEF Init, Arriving
<1>2. TypeOK
  <2>1. socket \in {"invalid", "open", "closed"}
    BY DEF Init
  <2>3. {receiver, missed} \subseteq BOOLEAN
    <3>1. missed \in BOOLEAN
      BY Zenon DEF Init
    <3>. QED
      BY <3>1 DEF Init
  <2>2. pc \in [Threads -> {"idle", "rest", "send", "done"}] /\ printed \in [Threads -> 0..(Messages + 1)]
    BY FeedAssumption DEF Init
  <2>. QED
    BY <1>1, <2>1, <2>2, <2>3 DEF TypeOK
<1>3. MainIsLast
  BY FeedAssumption DEF Init, MainIsLast, Printing, Threads
<1>. QED
  BY <1>1, <1>2, <1>3 DEF Init, IInv, WholeLines, LineInHand, SentWasPrinted, FeedInConsoleOrder, Printing

\* A console that only grows keeps what was before what.
LEMMA GrownConsole ==
  ASSUME IInv, NEW e \in [msg : AllMessages, piece : {"head", "tail"}],
         console' = Append(console, e), UNCHANGED <<printed, buffer, feed>>
  PROVE  SentWasPrinted' /\ FeedInConsoleOrder'
<1>1. /\ DOMAIN console' = 1..(Len(console) + 1) /\ DOMAIN console = 1..Len(console)
      /\ Len(console) \in Nat
      /\ \A k \in 1..Len(console) : console'[k] = console[k]
  BY Appended DEF IInv, TypeOK
<1>2. Arriving' = Arriving
  BY DEF Arriving
<1>3. \A m, n : Before(m, n) => Before(m, n)'
  BY <1>1 DEF Before
<1>. QED
  BY <1>1, <1>2, <1>3 DEF IInv, SentWasPrinted, FeedInConsoleOrder

LEMMA PrintIInv == ASSUME IInv, NEW t \in Threads, PrintHead(t) PROVE IInv'
<1> USE DEF IInv
<1>. DEFINE e == [msg |-> Message(t), piece |-> "head"]
<1>1. printed[t] \in 0..Messages /\ Message(t) \in AllMessages /\ e \in [msg : AllMessages, piece : {"head", "tail"}]
  BY FeedAssumption DEF PrintHead, Wants, TypeOK, Message, AllMessages
<1>2. /\ console' \in Seq([msg : AllMessages, piece : {"head", "tail"}])
      /\ Len(console') = Len(console) + 1 /\ Len(console) \in Nat
      /\ \A k \in 1..Len(console) : console'[k] = console[k]
      /\ console'[Len(console) + 1] = e
  BY <1>1, Appended DEF PrintHead, TypeOK
<1>3. TypeOK'
  BY <1>2 DEF PrintHead, TypeOK
<1>4. \A u \in Threads : ~Printing(u)
  BY DEF PrintHead, MayPrint, Printing
<1>5. Len(console) > 0 => console[Len(console)].piece = "tail"
  <2>1. Len(console) > 0 => console[Len(console)].piece # "head"
    BY <1>4 DEF LineInHand, Printing
  <2>2. Len(console) > 0 => console[Len(console)] \in [msg : AllMessages, piece : {"head", "tail"}]
    BY LastElement, Zenon DEF TypeOK
  <2>3. \A c \in [msg : AllMessages, piece : {"head", "tail"}] : c.piece \in {"head", "tail"}
    OBVIOUS
  <2>. QED
    BY <2>1, <2>2, <2>3
<1>6. WholeLines'
  BY <1>2, <1>5 DEF WholeLines
<1>7. \A u \in Threads : pc'[u] = IF u = t THEN "rest" ELSE pc[u]
  BY DEF PrintHead, TypeOK
<1>8. \A u \in Threads : u # t => pc'[u] \notin {"rest", "send"}
  BY <1>4, <1>7 DEF Printing
<1>9. LineInHand'
  <2>1. Message(t)' = Message(t)
    BY DEF PrintHead, Message
  <2>. QED
    BY <1>2, <1>7, <1>8, <2>1 DEF LineInHand, Printing
<1>10. MainIsLast'
  <2>1. \A u \in Threads : Wants(u) /\ u # Main => printed[u] < Messages
    BY DEF Wants
  <2>2. t = Main => printed[Main] < Messages \/ (printed[Main] = Messages /\ Joined)
    BY DEF PrintHead, Wants
  <2>3. Joined => Joined'
    <3>1. ASSUME Joined PROVE t \notin Runners
      BY <3>1, FeedAssumption DEF PrintHead, Wants, Joined
    <3>. QED
      BY <1>7, <3>1 DEF PrintHead, Joined, Threads
  <2>4. printed[Main] \in Nat /\ Messages \in Nat
    BY FeedAssumption DEF TypeOK, Threads
  <2>5. printed' = printed /\ socket' = socket /\ pc[t] = "idle"
    BY DEF PrintHead
  <2>6. printed[t] < Messages \/ (t = Main /\ printed[t] = Messages)
    BY <2>1, <2>2 DEF PrintHead
  <2>7. \A r \in Runners : r \in Threads /\ r # Main
    BY FeedAssumption DEF Threads
  <2>8. Main \in Threads
    BY DEF Threads
  <2>. QED
    BY <1>4, <1>7, <1>8, <2>2, <2>3, <2>4, <2>5, <2>6, <2>7, <2>8 DEF MainIsLast, Printing
<1>11. SentWasPrinted' /\ FeedInConsoleOrder'
  BY <1>1, GrownConsole DEF PrintHead
<1>. QED
  BY <1>3, <1>6, <1>9, <1>10, <1>11

LEMMA PrintRestIInv == ASSUME IInv, NEW t \in Threads, PrintRest(t) PROVE IInv'
<1> USE DEF IInv
<1>. DEFINE e == [msg |-> Message(t), piece |-> "tail"]
<1>1. printed[t] \in 0..Messages /\ Message(t) \in AllMessages /\ e \in [msg : AllMessages, piece : {"head", "tail"}]
  <2>1. printed[t] < Messages \/ printed[t] = Messages
    BY DEF PrintRest, Printing, MainIsLast
  <2>2. printed[t] \in 0..Messages
    BY <2>1, FeedAssumption DEF TypeOK
  <2>. QED
    BY <2>2 DEF Message, AllMessages
<1>2. /\ console' \in Seq([msg : AllMessages, piece : {"head", "tail"}])
      /\ Len(console') = Len(console) + 1 /\ Len(console) \in Nat
      /\ \A k \in 1..Len(console) : console'[k] = console[k]
      /\ console'[Len(console) + 1] = e
  BY <1>1, Appended DEF PrintRest, TypeOK
<1>3. TypeOK'
  BY <1>2 DEF PrintRest, TypeOK
<1>4. Len(console) > 0 /\ console[Len(console)] = [msg |-> Message(t), piece |-> "head"]
  BY DEF PrintRest, LineInHand
<1>5. WholeLines'
  BY <1>2, <1>4 DEF WholeLines
<1>6. \A u \in Threads : pc'[u] = IF u = t THEN "send" ELSE pc[u]
  BY DEF PrintRest, TypeOK
<1>7. \A u \in Threads : Printing(u)' <=> Printing(u)
  BY <1>6 DEF PrintRest, Printing
<1>8. \A u \in Threads : Printing(u) => u = t
  BY DEF PrintRest, LineInHand, Printing
<1>9. LineInHand'
  <2>1. Message(t)' = Message(t)
    BY DEF PrintRest, Message
  <2>2. console'[Len(console') - 1] = [msg |-> Message(t), piece |-> "head"]
    BY <1>2, <1>4
  <2>3. \A u \in Threads : u # t => pc'[u] \notin {"rest", "send"}
    BY <1>6, <1>8 DEF Printing
  <2>. QED
    BY <1>2, <1>4, <1>6, <2>1, <2>2, <2>3 DEF LineInHand, Printing
<1>10. MainIsLast'
  <2>1. Joined => Joined'
    <3>1. ASSUME Joined PROVE t \notin Runners
      BY <3>1 DEF PrintRest, Joined
    <3>. QED
      BY <1>6, <3>1 DEF PrintRest, Joined, Threads
  <2>2. \A r \in Runners : r \in Threads
    BY DEF Threads
  <2>3. Main \in Threads /\ printed' = printed /\ socket' = socket /\ pc[t] = "rest"
    BY DEF PrintRest, Threads
  <2>. QED
    BY <1>6, <1>7, <2>1, <2>2, <2>3 DEF MainIsLast
<1>11. SentWasPrinted' /\ FeedInConsoleOrder'
  BY <1>1, GrownConsole DEF PrintRest
<1>. QED
  BY <1>3, <1>5, <1>9, <1>10, <1>11

\* Whatever thins out or keeps what arrives keeps its order.
LEMMA ThinnedFeed ==
  ASSUME IInv, UNCHANGED <<printed, console>>,
         \A k \in DOMAIN Arriving' : \E j \in DOMAIN Arriving : Arriving'[k] = Arriving[j],
         \A j, k \in DOMAIN Arriving' : j < k =>
            \E i, l \in DOMAIN Arriving :
              i < l /\ Arriving'[j] = Arriving[i] /\ Arriving'[k] = Arriving[l]
  PROVE  SentWasPrinted' /\ FeedInConsoleOrder'
<1>1. \A m, n : Before(m, n) => Before(m, n)'
  BY DEF Before
<1>. QED
  BY <1>1 DEF IInv, SentWasPrinted, FeedInConsoleOrder

\* The network and the receiver touch nothing of the threads.
LEMMA SameThreads ==
  ASSUME IInv, UNCHANGED <<pc, printed, console, socket>>
  PROVE  WholeLines' /\ LineInHand' /\ MainIsLast'
BY DEF IInv, WholeLines, LineInHand, MainIsLast, Printing, Message, Joined

\* What arrives, by its place in the feed or in the buffer
LEMMA ArrivingType ==
  ASSUME TypeOK
  PROVE  /\ Len(feed) \in Nat /\ Len(buffer) \in Nat
         /\ DOMAIN Arriving = 1..(Len(feed) + Len(buffer))
         /\ \A k \in 1..Len(feed) : Arriving[k] = feed[k]
         /\ \A k \in 1..Len(buffer) : Arriving[Len(feed) + k] = buffer[k]
         /\ \A k \in (Len(feed) + 1)..(Len(feed) + Len(buffer)) : Arriving[k] = buffer[k - Len(feed)]
         /\ \A k \in DOMAIN Arriving : Arriving[k] \in AllMessages
<1>1. feed \in Seq(AllMessages) /\ buffer \in Seq(AllMessages)
  BY DEF TypeOK
<1>2. Arriving \in Seq(AllMessages)
  BY <1>1, Joint DEF Arriving
<1>3. \A k \in DOMAIN Arriving : Arriving[k] \in AllMessages
  BY <1>2
<1>. QED
  BY <1>1, <1>3, Joint DEF Arriving

LEMMA SendAndUnlockIInv == ASSUME IInv, NEW t \in Threads, SendAndUnlock(t) PROVE IInv'
<1> USE DEF IInv
<1>. DEFINE m == Message(t)
<1>1. printed[t] \in 0..Messages /\ m \in AllMessages /\ (t # Main => printed[t] < Messages)
  <2>1. printed[t] < Messages \/ (t = Main /\ printed[t] = Messages)
    BY DEF SendAndUnlock, Printing, MainIsLast
  <2>2. printed[t] \in 0..Messages
    BY <2>1, FeedAssumption DEF TypeOK
  <2>. QED
    BY <2>1, <2>2 DEF Message, AllMessages
<1>2. \A u \in Threads :
        /\ printed'[u] = IF u = t THEN printed[u] + 1 ELSE printed[u]
        /\ pc'[u] = IF u = t THEN "idle" ELSE pc[u]
        /\ u # t => ~Printing(u)
  BY DEF SendAndUnlock, AfterMessage, TypeOK, LineInHand, Printing
<1>3. feed \in Seq(AllMessages) /\ buffer \in Seq(AllMessages) /\ feed' = feed
  BY DEF TypeOK, SendAndUnlock
<1>4. buffer' = buffer \/ (buffer' = Append(buffer, m) /\ receiver)
  BY DEF SendAndUnlock
<1>5. TypeOK'
  <2>1. buffer' \in Seq(AllMessages)
    BY <1>1, <1>3, <1>4, Appended
  <2>2. printed' \in [Threads -> 0..(Messages + 1)]
    <3>1. printed[t] + 1 \in 0..(Messages + 1)
      BY <1>1, FeedAssumption
    <3>. QED
      BY <3>1 DEF SendAndUnlock, AfterMessage, TypeOK
  <2>3. pc' \in [Threads -> {"idle", "rest", "send", "done"}]
    BY DEF SendAndUnlock, TypeOK
  <2>. QED
    BY <1>4, <2>1, <2>2, <2>3 DEF SendAndUnlock, TypeOK
<1>6. console' = console
  BY DEF SendAndUnlock
<1>7. WholeLines'
  BY <1>6 DEF WholeLines
<1>8. /\ Len(console) > 1
      /\ console[Len(console) - 1] = [msg |-> m, piece |-> "head"]
      /\ console[Len(console)] = [msg |-> m, piece |-> "tail"]
  BY DEF SendAndUnlock, LineInHand
<1>9. LineInHand'
  <2>1. \A u \in Threads : ~Printing(u)'
    BY <1>2 DEF Printing
  <2>2. console[Len(console)].piece = "tail"
    BY <1>8
  <2>. QED
    BY <1>6, <2>1, <2>2 DEF LineInHand, Printing
<1>10. MainIsLast'
  <2>1. \A r \in Runners : r \in Threads /\ r # Main
    BY FeedAssumption DEF Threads
  <2>2. Main \in Threads /\ pc[t] = "send" /\ socket' = socket
    BY DEF Threads, SendAndUnlock
  <2>3. \A r \in Runners : pc'[r] # "done" /\ printed'[r] <= Messages
    <3>1. ASSUME NEW r \in Runners PROVE printed'[r] <= Messages
      BY <1>1, <1>2, <2>1, FeedAssumption DEF MainIsLast, TypeOK
    <3>. QED
      BY <1>2, <2>1, <3>1 DEF MainIsLast
  <2>4. \A u \in Threads : ~Printing(u)'
    BY <1>2 DEF Printing
  <2>5. ASSUME printed'[Main] = Messages + 1 PROVE Joined'
    <3>1. CASE t = Main
      <4>1. printed[Main] = Messages
        BY <1>1, <1>2, <2>2, <2>5, <3>1, FeedAssumption
      <4>2. Joined
        BY <2>2, <3>1, <4>1 DEF MainIsLast, Printing
      <4>. QED
        BY <1>2, <2>1, <3>1, <4>2 DEF Joined
    <3>2. CASE t # Main
      <4>1. Joined
        BY <1>2, <2>2, <2>5, <3>2 DEF MainIsLast
      <4>2. t \in Runners
        BY <3>2 DEF Threads
      <4>. QED
        BY <2>2, <4>1, <4>2 DEF Joined
    <3>. QED
      BY <3>1, <3>2
  <2>6. pc'[Main] = "done" => printed'[Main] = Messages + 1
    BY <1>2, <2>2 DEF MainIsLast
  <2>7. socket' = "closed" => pc'[Main] = "done"
    <3>1. ASSUME socket = "closed" PROVE FALSE
      <4>1. pc[Main] = "done" /\ printed[Main] = Messages + 1 /\ Joined
        BY <3>1 DEF MainIsLast
      <4>2. t \in Runners
        BY <2>2, <4>1 DEF Threads
      <4>. QED
        BY <2>2, <4>1, <4>2 DEF Joined
    <3>. QED
      BY <2>2, <3>1
  <2>. QED
    BY <2>2, <2>3, <2>4, <2>5, <2>6, <2>7 DEF MainIsLast, Printing
<1>11. SentWasPrinted' /\ FeedInConsoleOrder'
  <2>. DEFINE n == Len(feed) + Len(buffer)
  <2>1. n \in Nat /\ DOMAIN Arriving = 1..n /\ \A k \in 1..n : Arriving[k] \in AllMessages
    BY ArrivingType
  <2>2. /\ \A k \in 1..n : Arriving'[k] = Arriving[k]
        /\ \/ DOMAIN Arriving' = 1..n
           \/ DOMAIN Arriving' = 1..(n + 1) /\ Arriving'[n + 1] = m
    <3>1. CASE buffer' = buffer
      BY <1>3, <2>1, <3>1 DEF Arriving
    <3>2. CASE buffer' = Append(buffer, m)
      <4>1. /\ buffer' \in Seq(AllMessages) /\ Len(buffer') = Len(buffer) + 1
            /\ \A k \in 1..Len(buffer) : buffer'[k] = buffer[k]
            /\ buffer'[Len(buffer) + 1] = m
        BY <1>1, <1>3, <3>2, Appended
      <4>2. /\ DOMAIN Arriving' = 1..(Len(feed) + Len(buffer'))
            /\ \A k \in 1..Len(feed) : Arriving'[k] = feed[k]
            /\ \A k \in (Len(feed) + 1)..(Len(feed) + Len(buffer')) : Arriving'[k] = buffer'[k - Len(feed)]
        <5>1. Arriving' = feed \o buffer'
          BY <1>3 DEF Arriving
        <5>2. feed \in Seq(AllMessages) /\ buffer' \in Seq(AllMessages)
          BY <1>3, <4>1
        <5>. QED
          BY <5>1, <5>2, Joint, Zenon
      <4>3. Len(feed) \in Nat /\ Len(buffer) \in Nat
        BY ArrivingType
      <4>4. ASSUME NEW k \in 1..n PROVE Arriving'[k] = Arriving[k]
        <5>1. CASE k \in 1..Len(feed)
          BY <4>2, <5>1, ArrivingType
        <5>2. CASE k \in (Len(feed) + 1)..(Len(feed) + Len(buffer))
          <6>1. /\ k \in (Len(feed) + 1)..(Len(feed) + Len(buffer'))
                /\ k - Len(feed) \in 1..Len(buffer)
            BY <4>1, <4>3, <5>2
          <6>. QED
            BY <4>1, <4>2, <5>2, <6>1, ArrivingType
        <5>. QED
          BY <4>3, <5>1, <5>2
      <4>5. /\ n + 1 = Len(feed) + Len(buffer')
            /\ n + 1 \in (Len(feed) + 1)..(Len(feed) + Len(buffer'))
            /\ n + 1 - Len(feed) = Len(buffer) + 1
        BY <4>1, <4>3
      <4>. QED
        BY <4>1, <4>2, <4>4, <4>5
    <3>. QED
      BY <1>4, <3>1, <3>2
  <2>3. \A k \in 1..n : /\ Arriving[k][1] \in Threads
                        /\ Arriving[k][2] < printed[Arriving[k][1]]
                        /\ \E j \in DOMAIN console : console[j] = [msg |-> Arriving[k], piece |-> "tail"]
    BY <2>1 DEF SentWasPrinted, AllMessages
  <2>4. m[1] = t /\ m[2] = printed[t]
    BY DEF Message
  <2>5. \A k \in 1..n : Arriving[k] # m
    BY <1>1, <2>3, <2>4
  <2>6. DOMAIN console = 1..Len(console) /\ Len(console) \in Nat
    BY DEF TypeOK
  <2>8. ASSUME NEW k \in 1..n PROVE Before(Arriving[k], m)
    <3>1. PICK j \in DOMAIN console : console[j] = [msg |-> Arriving[k], piece |-> "tail"]
      BY <2>3
    <3>2. j # Len(console) /\ j # Len(console) - 1
      BY <1>8, <2>5, <3>1
    <3>3. j < Len(console) - 1 /\ Len(console) - 1 \in DOMAIN console
      BY <1>8, <2>6, <3>2
    <3>. QED
      BY <1>8, <3>1, <3>3 DEF Before
  <2>9. SentWasPrinted'
    <3>1. ASSUME NEW k \in 1..n
          PROVE  /\ Arriving'[k][2] < printed'[Arriving'[k][1]]
                 /\ \E j \in DOMAIN console : console[j] = [msg |-> Arriving'[k], piece |-> "tail"]
      <4>1. Arriving'[k] = Arriving[k] /\ Arriving[k][2] \in Nat
        BY <2>1, <2>2, FeedAssumption DEF AllMessages
      <4>2. \A u \in Threads : printed[u] \in Nat /\ printed'[u] \in Nat /\ printed[u] <= printed'[u]
        BY <1>2, FeedAssumption DEF TypeOK
      <4>. QED
        BY <2>3, <4>1, <4>2
    <3>2. /\ m[2] < printed'[m[1]]
          /\ \E j \in DOMAIN console : console[j] = [msg |-> m, piece |-> "tail"]
      BY <1>1, <1>2, <1>8, <2>4, <2>6
    <3>3. \A k \in DOMAIN Arriving' : k \in 1..n \/ (k = n + 1 /\ Arriving'[k] = m)
      BY <2>1, <2>2
    <3>. QED
      BY <1>6, <3>1, <3>2, <3>3 DEF SentWasPrinted
  <2>10. FeedInConsoleOrder'
    <3>1. \A j, k \in 1..n : j < k => Before(Arriving[j], Arriving[k])
      BY <2>1 DEF FeedInConsoleOrder
    <3>2. ASSUME NEW j \in DOMAIN Arriving', NEW k \in DOMAIN Arriving', j < k
          PROVE  Before(Arriving[j], Arriving[k])'
      <4>1. j \in 1..n /\ Arriving'[j] = Arriving[j]
        BY <2>1, <2>2, <3>2
      <4>2. k \in 1..n \/ (k = n + 1 /\ Arriving'[k] = m)
        BY <2>1, <2>2
      <4>3. Before(Arriving'[j], Arriving'[k])
        BY <2>2, <2>8, <3>1, <3>2, <4>1, <4>2
      <4>. QED
        BY <1>6, <4>3 DEF Before
    <3>. QED
      BY <3>2 DEF FeedInConsoleOrder
  <2>. QED
    BY <2>9, <2>10
<1>. QED
  BY <1>5, <1>7, <1>9, <1>10, <1>11

LEMMA CloseSocketIInv == ASSUME IInv, CloseSocket PROVE IInv'
<1> USE DEF IInv
<1>1. /\ \A u \in Threads : pc'[u] = IF u = Main THEN "done" ELSE pc[u]
      /\ pc' \in [Threads -> {"idle", "rest", "send", "done"}]
      /\ Main \in Threads /\ pc[Main] = "idle"
  BY DEF CloseSocket, TypeOK, Threads
<1>2. UNCHANGED <<printed, console, receiver, buffer, feed>>
  BY DEF CloseSocket
<1>3. TypeOK'
  BY <1>1, <1>2 DEF CloseSocket, TypeOK
<1>4. \A u \in Threads : Printing(u)' <=> Printing(u)
  BY <1>1 DEF Printing
<1>5. \A u \in Threads : /\ pc'[u] = "rest" <=> pc[u] = "rest"
                         /\ pc'[u] = "send" <=> pc[u] = "send"
  BY <1>1
<1>6. WholeLines' /\ LineInHand'
  BY <1>2, <1>4, <1>5 DEF WholeLines, LineInHand, Message
<1>7. SentWasPrinted' /\ FeedInConsoleOrder'
  BY <1>2 DEF SentWasPrinted, FeedInConsoleOrder, Arriving, Before
<1>8. MainIsLast'
  <2>1. \A r \in Runners : r \in Threads /\ r # Main
    BY FeedAssumption DEF Threads
  <2>2. Joined => Joined'
    BY <1>1, <1>2, <2>1 DEF Joined
  <2>3. printed[Main] = Messages + 1
    BY DEF CloseSocket
  <2>. QED
    BY <1>1, <1>2, <1>4, <2>1, <2>2, <2>3 DEF MainIsLast
<1>. QED
  BY <1>3, <1>6, <1>7, <1>8

LEMMA ReceiveIInv == ASSUME IInv, Receive PROVE IInv'
<1> USE DEF IInv
<1>1. /\ feed \in Seq(AllMessages) /\ buffer \in Seq(AllMessages)
      /\ Len(buffer) \in Nat /\ Len(feed) \in Nat /\ Len(buffer) > 0
  BY DEF Receive, TypeOK
<1>2. /\ buffer' \in Seq(AllMessages) /\ Len(buffer') = Len(buffer) - 1
      /\ \A k \in 1..(Len(buffer) - 1) : buffer'[k] = buffer[k + 1]
      /\ Head(buffer) = buffer[1] /\ buffer[1] \in AllMessages
  BY <1>1 DEF Receive
<1>3. /\ feed' \in Seq(AllMessages) /\ Len(feed') = Len(feed) + 1
      /\ \A k \in 1..Len(feed) : feed'[k] = feed[k]
      /\ feed'[Len(feed) + 1] = buffer[1]
  BY <1>1, <1>2, Appended DEF Receive
<1>4. TypeOK'
  BY <1>2, <1>3 DEF Receive, TypeOK
<1>5. /\ DOMAIN Arriving' = 1..(Len(feed') + Len(buffer'))
      /\ \A k \in 1..Len(feed') : Arriving'[k] = feed'[k]
      /\ \A k \in (Len(feed') + 1)..(Len(feed') + Len(buffer')) : Arriving'[k] = buffer'[k - Len(feed')]
  <2>1. Arriving' = feed' \o buffer'
    BY DEF Arriving
  <2>2. feed' \in Seq(AllMessages) /\ buffer' \in Seq(AllMessages)
    BY <1>2, <1>3
  <2>. QED
    BY <2>1, <2>2, Joint, Zenon
<1>6. DOMAIN Arriving' = DOMAIN Arriving /\ DOMAIN Arriving = 1..(Len(feed) + Len(buffer))
  BY <1>1, <1>2, <1>3, <1>5, ArrivingType
<1>7. ASSUME NEW k \in DOMAIN Arriving PROVE Arriving'[k] = Arriving[k]
  <2>1. CASE k \in 1..Len(feed)
    <3>1. k \in 1..Len(feed')
      BY <1>1, <1>3, <2>1
    <3>. QED
      BY <1>3, <1>5, <2>1, <3>1, ArrivingType
  <2>2. CASE k = Len(feed) + 1
    <3>1. k \in 1..Len(feed') /\ 1 \in 1..Len(buffer)
      BY <1>1, <1>3, <2>2
    <3>. QED
      BY <1>3, <1>5, <2>2, <3>1, ArrivingType
  <2>3. CASE k \in (Len(feed) + 2)..(Len(feed) + Len(buffer))
    <3>1. /\ k \in (Len(feed') + 1)..(Len(feed') + Len(buffer'))
          /\ k \in (Len(feed) + 1)..(Len(feed) + Len(buffer))
          /\ k - Len(feed') \in 1..(Len(buffer) - 1)
          /\ k - Len(feed') + 1 = k - Len(feed)
      BY <1>1, <1>2, <1>3, <2>3
    <3>2. Arriving[k] = buffer[k - Len(feed)]
      BY <3>1, ArrivingType
    <3>3. Arriving'[k] = buffer[k - Len(feed') + 1]
      BY <1>2, <1>5, <3>1
    <3>. QED
      BY <3>1, <3>2, <3>3
  <2>. QED
    BY <1>1, <1>6, <2>1, <2>2, <2>3
<1>8. SentWasPrinted' /\ FeedInConsoleOrder'
  BY <1>6, <1>7, ThinnedFeed DEF Receive
<1>9. WholeLines' /\ LineInHand' /\ MainIsLast'
  BY SameThreads DEF Receive
<1>. QED
  BY <1>4, <1>8, <1>9

\* A new run of the receiver shows what is sent from now on: its buffer was empty.
LEMMA StartReceiverIInv == ASSUME IInv, StartReceiver PROVE IInv'
<1> USE DEF IInv
<1>1. buffer = <<>> /\ buffer' = <<>> /\ feed' = <<>>
  BY DEF StartReceiver, TypeOK
<1>2. TypeOK'
  BY <1>1 DEF StartReceiver, TypeOK
<1>3. DOMAIN Arriving' = {}
  BY <1>1 DEF Arriving
<1>4. SentWasPrinted' /\ FeedInConsoleOrder'
  BY <1>3 DEF SentWasPrinted, FeedInConsoleOrder
<1>5. WholeLines' /\ LineInHand' /\ MainIsLast'
  BY SameThreads DEF StartReceiver
<1>. QED
  BY <1>2, <1>4, <1>5

LEMMA StopReceiverIInv == ASSUME IInv, StopReceiver PROVE IInv'
<1> USE DEF IInv
<1>1. buffer' = <<>> /\ feed' = feed /\ feed \in Seq(AllMessages)
  BY DEF StopReceiver, TypeOK
<1>2. TypeOK'
  <2>1. buffer' \in Seq(AllMessages) /\ feed' \in Seq(AllMessages)
    BY <1>1
  <2>2. UNCHANGED <<pc, printed, console, socket>> /\ receiver' = FALSE /\ missed' = TRUE
    BY DEF StopReceiver
  <2>. QED
    BY <1>1, <2>1, <2>2 DEF TypeOK
<1>3. Arriving' = feed
  BY <1>1 DEF Arriving
<1>4. DOMAIN feed \subseteq DOMAIN Arriving /\ \A k \in DOMAIN feed : Arriving[k] = feed[k]
  <2>1. DOMAIN feed = 1..Len(feed)
    BY <1>1
  <2>2. /\ Len(feed) \in Nat /\ Len(buffer) \in Nat
        /\ DOMAIN Arriving = 1..(Len(feed) + Len(buffer))
        /\ \A k \in 1..Len(feed) : Arriving[k] = feed[k]
    BY ArrivingType
  <2>. QED
    BY <2>1, <2>2
<1>5. SentWasPrinted' /\ FeedInConsoleOrder'
  BY <1>3, <1>4, ThinnedFeed DEF StopReceiver
<1>6. WholeLines' /\ LineInHand' /\ MainIsLast'
  BY SameThreads DEF StopReceiver
<1>. QED
  BY <1>2, <1>5, <1>6

LEMMA LoseDatagramIInv == ASSUME IInv, LoseDatagram PROVE IInv'
<1> USE DEF IInv
<1>1. feed \in Seq(AllMessages) /\ buffer \in Seq(AllMessages) /\ feed' = feed
  BY DEF LoseDatagram, TypeOK
<1>2. PICK k \in DOMAIN buffer :
        buffer' = SubSeq(buffer, 1, k - 1) \o SubSeq(buffer, k + 1, Len(buffer))
  BY DEF LoseDatagram
<1>3. /\ buffer' \in Seq(AllMessages) /\ Len(buffer') = Len(buffer) - 1
      /\ \A j \in 1..(Len(buffer) - 1) : buffer'[j] = IF j < k THEN buffer[j] ELSE buffer[j + 1]
  BY <1>1, <1>2, Without
<1>4. k \in 1..Len(buffer) /\ Len(buffer) \in Nat /\ Len(feed) \in Nat
  BY <1>1
<1>5. TypeOK'
  <2>1. buffer # <<>>
    BY <1>4
  <2>. QED
    BY <1>1, <1>3, <2>1 DEF LoseDatagram, TypeOK
<1>6. /\ DOMAIN Arriving' = 1..(Len(feed) + Len(buffer'))
      /\ \A j \in 1..Len(feed) : Arriving'[j] = feed[j]
      /\ \A j \in (Len(feed) + 1)..(Len(feed) + Len(buffer')) : Arriving'[j] = buffer'[j - Len(feed)]
  <2>1. Arriving' = feed \o buffer'
    BY <1>1 DEF Arriving
  <2>. QED
    BY <1>1, <1>3, <2>1, Joint
<1>. DEFINE at(j) == IF j < Len(feed) + k THEN j ELSE j + 1
<1>7. ASSUME NEW j \in DOMAIN Arriving'
      PROVE  at(j) \in DOMAIN Arriving /\ Arriving'[j] = Arriving[at(j)]
  <2>1. j \in 1..(Len(feed) + Len(buffer) - 1)
    BY <1>3, <1>4, <1>6
  <2>2. CASE j \in 1..Len(feed)
    BY <1>4, <1>6, <2>2, ArrivingType
  <2>3. CASE j \in (Len(feed) + 1)..(Len(feed) + Len(buffer) - 1)
    <3>1. /\ j - Len(feed) \in 1..(Len(buffer) - 1)
          /\ j \in (Len(feed) + 1)..(Len(feed) + Len(buffer'))
          /\ at(j) \in (Len(feed) + 1)..(Len(feed) + Len(buffer))
          /\ at(j) - Len(feed) = IF j - Len(feed) < k THEN j - Len(feed) ELSE j - Len(feed) + 1
      BY <1>3, <1>4, <2>3
    <3>2. Arriving'[j] = buffer[at(j) - Len(feed)]
      BY <1>3, <1>6, <3>1
    <3>3. Arriving[at(j)] = buffer[at(j) - Len(feed)] /\ at(j) \in DOMAIN Arriving
      BY <1>4, <3>1, ArrivingType
    <3>. QED
      BY <3>2, <3>3
  <2>. QED
    BY <1>4, <2>1, <2>2, <2>3
<1>8. \A i, j \in DOMAIN Arriving' : i < j => at(i) < at(j)
  BY <1>3, <1>4, <1>6
<1>9. SentWasPrinted' /\ FeedInConsoleOrder'
  <2>. HIDE DEF at
  <2>. QED
    BY <1>7, <1>8, ThinnedFeed DEF LoseDatagram
<1>10. WholeLines' /\ LineInHand' /\ MainIsLast'
  BY SameThreads DEF LoseDatagram
<1>. QED
  BY <1>5, <1>9, <1>10

LEMMA NextIInv == IInv /\ [Next]_vars => IInv'
<1> SUFFICES ASSUME IInv, [Next]_vars PROVE IInv'
  OBVIOUS
<1>1. ASSUME NEW t \in Threads, ThreadStep(t) PROVE IInv'
  BY <1>1, PrintIInv, PrintRestIInv, SendAndUnlockIInv, CloseSocketIInv DEF ThreadStep
<1>2. CASE Receive \/ StartReceiver \/ StopReceiver \/ LoseDatagram
  BY <1>2, ReceiveIInv, StartReceiverIInv, StopReceiverIInv, LoseDatagramIInv
<1>3. CASE UNCHANGED vars
  <2>1. TypeOK'
    BY <1>3 DEF vars, IInv, TypeOK
  <2>2. SentWasPrinted' /\ FeedInConsoleOrder'
    BY <1>3 DEF vars, IInv, SentWasPrinted, FeedInConsoleOrder, Arriving, Before
  <2>. QED
    BY <1>3, <2>1, <2>2, SameThreads DEF vars, IInv
<1>. QED
  BY <1>1, <1>2, <1>3 DEF Next

\* All parts of the invariant hold together.
THEOREM RaceFeedInvariant == Spec => []IInv
BY InitIInv, NextIInv, PTL DEF Spec

\* The ranges of the threads' counters, the console and the receiver's buffer.
THEOREM RaceFeedTyping == Spec => []TypeOK
<1>1. IInv => TypeOK
  BY DEF IInv
<1>. QED
  BY <1>1, RaceFeedInvariant, PTL

\* print_mtx keeps the lines of different threads apart on the console.
THEOREM LinesAreWhole == Spec => []WholeLines
<1>1. IInv => WholeLines
  BY DEF IInv
<1>. QED
  BY <1>1, RaceFeedInvariant, PTL

\* sendto inside the mutex keeps the receiver's lines in the console's order.
THEOREM FeedFollowsConsole == Spec => []FeedInConsoleOrder
<1>1. IInv => FeedInConsoleOrder
  BY DEF IInv
<1>. QED
  BY <1>1, RaceFeedInvariant, PTL

\* main's joins keep every sendto before closesocket.
THEOREM SocketOutlivesThreads == Spec => []NoSendAfterClose
<1>1. ASSUME IInv, NEW t \in Threads, Printing(t), socket = "closed" PROVE FALSE
  <2>1. pc[Main] = "done" /\ printed[Main] = Messages + 1 /\ Joined
    BY <1>1 DEF IInv, MainIsLast
  <2>2. t \in Runners
    BY <1>1, <2>1 DEF Threads, Printing
  <2>. QED
    BY <1>1, <2>1, <2>2 DEF Joined, Printing
<1>2. IInv => NoSendAfterClose
  BY <1>1 DEF NoSendAfterClose
<1>. QED
  BY <1>2, RaceFeedInvariant, PTL

=============================================================================
