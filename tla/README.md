# TLA+ models of the EEEN30141 concurrent systems coursework

The repository simulates a 4x100 m relay with one thread per runner (`src/11314389_Xu_Task1to3_v*.cpp`),
sends the race to a UDP receiver (`src/11314389_Xu_Task4_Receiver.cpp`), measures the round-trip time of
threads, UDP and WebSockets (`src/11314389_Xu_Task5_Benchmark.cpp`) and holds a WebSocket chat server, a
client and a test page (`src/ws_server.cpp`, `src/ws_client.cpp`, `src/websock_test*`). Everything else in
`src/` is vendored (asio, websocketpp), generated (`build*`) or a copy of these files (`Submit`,
`Lab3_IPC_v2`). This directory holds the specifications of the program's own code, the TLC runs that check
them, and TLAPS proofs.

## Inventory

| component | state | operations | interacts with |
|---|---|---|---|
| barrier (`barrier.hpp`) | `count`, `generation`, mutex, condition variable | `arrive_and_wait` | all runner threads and main |
| `Team`, `Competitor` (`cs_helper_DoNotModify.hpp`) | team time, exchange counter, `bFinished`, `baton`, two mutexes | `addTime`, `setTime`, unlocked getters | runner threads, main |
| relay runner (`thd_runner_4x4x100m`) | position in the function | ready, two barriers, wait for the baton, exchange, sprint, `setTime`, finish test, winner flag | previous and next runner, barriers, flag |
| official (`main` of v1..v4) | position in main | create threads, two barriers, join, print results | everything above |
| sprint runner (`thd_runner_16x100m`) | position in the function | barriers, sprint, `setTime` | three team-mates through `Team` |
| `RandomTwister`, `thrd_print` | engine; console and UDP socket | `generate`; print and send | all threads |
| UDP receiver (Task 4) | socket, one buffer | receive and print, for ever | `thrd_print` by UDP |
| thread ping-pong (Task 5) | `ping_ready`, `pong_ready`, `stop_thread` | worker loop, main loop, stop | each other |
| UDP echo (Task 5) | loop counters, datagrams in flight | send, receive or time out, echo | each other by UDP |
| WebSocket RTT (Task 5) | `connected_`, `message_received_`, `has_error_`, `closed_` | connect, send_and_wait, close; open, fail and message handlers; server echo, stop | main, client thread, server thread |
| chat server, client, page | connection set; detached input thread; button states | handlers, exit message, console input, socket events | each other by WebSocket |

What is hard in it, with the line where it bites, is the `hazards` list of `PROJECT.json`: mutexes that do
not cover every write (`bFinished`, the exchange counter), wake-ups that could be lost or come for nothing,
a barrier that is reused, a first-come flag taken late, loops that count time-outs as messages, callbacks
that race with the thread that waits for them.

What makes each component correct:

* barrier: nobody leaves early, nobody is left behind, in any round and for any width of the counter;
* relay: nobody runs before the gun; legs in order; no baton lost; one winner, with all its legs; complete
  results; the race ends although batons are dropped;
* sprint: no time is lost when team-mates finish together;
* feed: what is received is a subsequence of what was printed, one message at a time;
* ping-pong: strict alternation, and the worker stops;
* UDP echo: both loops end whatever is lost; an echo belongs to the latest ping until main's first time-out
  (afterwards it need not);
* WebSocket RTT: every send is matched by its own echo; connect ends when the connection fails; all threads
  are joined (unless the open connection breaks or a handshake timer that runs late ends it);
* chat: the connection set is the set of sessions that were opened and whose close handler has not run; the
  server survives every order of exits and closes; a console ends with its input thread, and that thread is not
  refused by a session that is over (the same two cases excepted);
* page: the buttons let the user do what the current socket allows; no replaced socket stays open.

## The modules

Each component has a specification of what it promises, a detailed one with one action per step of the code,
and a module of proofs; a module of proofs may serve two components that share their contract or library. Such
a module extends both, so the names of one of them carry a prefix (`PPInit`, `PPSpec` ... of `PingPong`,
`PageInit`, `PageSpec` ... of `TestPage`). The detailed modules begin with mutated forms of their helpers (a forgotten reset, a
missing lock ...); each is used to confirm that a property can fail, and none is part of the specification.

### `PhaseBarrier`, `Barrier`, `MCBarrier`, `BarrierProofs` (`barrier.hpp`)

`Barrier` keeps the class's `count`, `generation` and `cv` (the set of threads blocked in `cv.wait`), each
thread's `current_generation`, its place in `arrive_and_wait` and the number of its calls. All members are
touched under the mutex only, so a critical section is one action: `ArriveLast` (lines 12-19),
`ArriveEarly` (12-22, which ends by blocking), `WakeAndLeave` and `WakeAndBlock` (what a woken thread finds),
`Return`. `SpuriousWakeup` may take any thread out of `cv.wait` at any time. `generation` is a `size_t`;
it wraps at the constant `GenerationLimit`, which may be any number from 2 up.

`PhaseBarrier` is the contract: a call returns only after every thread has begun its call of the same round,
and then it does return.

### `RelayRace`, `Relay`, `RelayFirstHome`, `RelayLegs`, `RelayProofs` (`Task1to3_v4.cpp`, `cs_helper_DoNotModify.hpp`)

`Relay` has one process per runner and main as the official. Its state is `pc`, the threads that called each
barrier (`started`, `go`), the held runner mutexes (`locked`), `bFinished`, `time`, `iNumBatonExchanges`,
`winner` and the runners that printed the WINNER line (`announced`).

| action | code |
|---|---|
| `CreateThread` | the nested loops of main, 169-186; threads start to run at once |
| `ArriveStarted`, `ArriveGo`, `LeaveGo` | the two barriers, 90-92 and 188-194 |
| `LockBaton`, `BatonArrived`, `BatonMissing`, `BlockOnBaton`, `SpuriousWakeup` | `baton.wait(lock, predicate)`, 102-103 |
| `Exchange` | the draw of a fumbled or dropped baton, 106-123 |
| `AddTime`, `SetFinished`, `NotifyBaton` | `setTime`: `addTime`, `bFinished = true`, lock and notify, helper 48-54 |
| `CrossLine`, `Claim`, `Announce` | the finish test 130, `winner.exchange(true)` 135, the WINNER line 138 |
| `PrintResults` | joins and results, 198-218 |

Here critical sections are not one action: `bFinished` is written without the mutex under which it is read,
so reading the predicate (`BatonMissing`) and blocking (`BlockOnBaton`) are separate steps with the mutex held
between them. That the read and the write of `bFinished` are unsynchronised is a data race in C++ terms; the
model lets the reader see either value, as the builds do for a `bool`. The barriers are used through the
contract (`Start` and `Gun` are instances of `PhaseBarrier` over the barrier sets), so `Barrier` and `Relay`
meet in `PhaseBarrier`.

`RelayRace` is the race as a reader of the output knows it: legs one after the other, at most one champion,
with all its legs, results last, no champion only if every team dropped its last baton. `RelayFirstHome` adds
a history variable, the team whose last time was recorded first. `RelayLegs` adds the line a runner prints
between `setTime` and the finish test (v4, 128): the leg number in it is the team's exchange counter, read
later and without the mutex of `addTime`.

### `Alternation`, `Iterations`, `PingPong`, `AlternationProofs` (`Task5_Benchmark.cpp` 39-70 and 304-332)

`PingPong` keeps the three flags, main's loop counter, where each thread is and who is asleep (`blocked`).
Flags are touched under `pp_mtx` only, so critical sections are actions: for main `MainStarts`,
`MainReceives` (which consumes the pong and then serves again, `Serve`, or leaves the loop, `LeaveLoop`),
`MainBlocksAgain`, `MainJoins`; for the worker `WorkerBlocks`, `WorkerStops`, `WorkerReturns`. The worker's
`notify_one` comes after `unlock`, so `WorkerNotifies` is a step of its own. `Alternation` demands that every
ping be answered before the next and that the measurement end. `Iterations` declares the constant
`ITERATIONS`, which the three benchmarks share.

### `SprintRace`, `Sprint`, `SprintProofs` (`Task1to3_v1.cpp`, `cs_helper_DoNotModify.hpp` 23-54)

Start and end are as in the relay. All runners of a team call `addTime` at the same time, so its two updates
are modelled as loads and stores: `LoadTime` (takes the mutex), `StoreTime`, `LoadCount`, `StoreCount`
(releases it), then `SetFinished`. The float sum is the set of the runners whose time went into it: a store
that overwrites a team-mate's time loses a member. Rounding, and with it the order of the additions, is not
modelled. `SprintRace` demands that every time be credited once and the results come when all are.

### `RaceFeed`, `RaceFeedProofs` (`Task1to3_v4.cpp` 53-72 and 198-226, `Task4_Receiver.cpp`)

`RaceFeed` begins when the threads have been created. A message is who printed it and how many that thread
had printed before. `cout` is not atomic, so a line comes out in two pieces, `PrintHead` (takes `print_mtx`) and
`PrintRest`; `SendAndUnlock` is `sendto`, whose result nobody reads, and the end of the lock. `CloseSocket` is
the end of main. The receiver's loop is `Receive`; it may be started late, stopped and restarted, and the
datagrams in its buffer may be lost. The loopback does not reorder datagrams between one sender and one
socket here: the sender holds the mutex while it sends, and the kernel's buffer is a queue. The history
variable `missed` remembers that a datagram was lost or that the receiver was not there all the time.

### `UdpEcho`, `AlternationProofs` (`Task5_Benchmark.cpp` 72-103 and 336-376)

Main sends a ping and receives one datagram `ITERATIONS` times; the server receives one and sends it back as
often. `got` and `served` hold what each finished iteration received, or `Failed`, and their lengths are the
loop counters. `recvfrom` may fail at any time (the time-out of a second is not a bound on anything else in
the program), the port may be taken (`bound`), and a datagram may be lost, delayed or overtaken in either
direction. `Alternation`, the contract of the ping-pong, is what the two loops implement until the first
failure.

### `WsConnection`, `WsConnectionProofs`, `WsBenchmark`, `WsBenchmarkProofs` (`Task5_Benchmark.cpp` 105-275 and 380-415, `websocketpp`)

`WsConnection` has no variables: it describes one connection, as the two programs see it, by operators that
take a connection and the acting side and give the connection after a step of WebSocket++: connect, accept,
the two halves of the opening handshake, `send`, `close`, the write of one frame, the read of one frame, the
close handshake from either side and from both at once, the handshake timers, `terminate` and the fail or
close handler it leads to. Its parts are `m_state`, `m_send_queue`, `m_was_clean` and the frames on the wire.
`send` and `close` only queue a frame; everything else happens in the event loop of its endpoint.

* `send` (`CanSend`) is refused in every state but open, and for a text that is not UTF-8, which
  `prepare_data_frame` turns down; all such texts are the one payload `Invalid`. Its third refusal, a message
  manager without a buffer, cannot happen here: the manager of both configurations allocates and never
  returns null.
* A server opens in two steps, `Respond` and `Open`: while its response is being written it is `responding`, which is
  `connecting` to the code. If the handshake timer ends it there, the completion of the write finds a closed
  session and does nothing (`connection_impl.hpp` 1363-1369), although the client may have opened by then.
* A handshake timer is `HasTimer` while the handshake it was set for is under way. Its handler tests no state, and
  `cancel()` does not call back a handler that is queued already, so a time-out that meets the completion of the
  handshake ends an open session: `TimerRunsLate`, in the states `responding` and `open`. How long such a handler
  stays in its queue is left open, so the model lets it run at any later moment of the open session and more
  than once, which the code does at most once and soon; this only adds behaviours.

`WsBenchmark` adds the program: main (`connect`, `send_and_wait` and `close` of `WebSocketRTTClient`, and
`cleanup_ws`), the client's event loop, which runs the open, fail and message handlers, and the echo server's
event loop. The critical sections of `mtx_` are actions; a handler's notification comes after the mutex is
given back and is a step of its own (`ClientNotifies`). `connect`, `listen` and `send` may throw. `close` reads and
writes `connected_` without the mutex, as the code does, and `stop` follows it at once. The rounds implement
`Alternation`. The history variable `broken` remembers that the open connection broke or that a
handshake timer ran late (`CutByTimer`, in either event loop).

### `Chat`, `ChatProofs` (`ws_server.cpp`, `ws_client.cpp`, `websock_test.html`)

Any number of consoles and pages, each with one `WsConnection`, and one server. A handler of the server is an
action (`ServerOpens`, `ServerHandlesEnd`, `ServerHandlesMessage`), as is every step of the library
(`ServerLibrary`). A console is two threads: its event loop in main (`ClientOpens` ... `ClientEnds`) and the
detached input thread (`ConsoleTypesText`, `ConsoleTypesExit`), whose `send` or `close` throws when the session
is not open, or when the line is not UTF-8, which ends the process (`Crash`). A page sends and closes by itself,
and may send the word exit; its texts are UTF-8, because a browser encodes them. Connections break at any moment
(`Break`), and a handshake timer of the server or of the client may run late (`CutByTimer`); the history variable
`broken` holds the clients to whom either has happened.

### `TestPage`, proofs in `ChatProofs` (`websock_test.html` 32-82)

The page's three buttons and every socket it has made. A click or an event is one task of the browser.
`ClickConnect` closes the socket `ws` points to and makes another, whose handlers (`Opens`, `Closes`) change the
same buttons as those of the old one, which stay attached.

## Runs

| run | instance | what it shows |
|---|---|---|
| `barrier` | 4 threads, 3 calls each, generation wraps at 2, fair | nobody returns early, no wake-up is lost, the contract with its fairness: every call returns |
| `relay` | 2 teams of 2, leg lines, fair | legs in order, no lost baton, one winner; a printed leg is never before the runner's own and every leg up to it is recorded; both barrier contracts; `RelayRace`; the race ends |
| `relay_eliminated` | 2 teams of 2 | counterexample: an eliminated team is announced |
| `relay_first_home` | 2 teams of 2 | counterexample: the team that finished second is announced |
| `ping_pong` | 40 iterations, fair | nobody asleep on a ball, strict alternation, stop after the last round, join |
| `sprint` | 2 teams of 3, fair | no time and no count lost, `SprintRace`: the results come and are complete |
| `udp_echo` | 4 iterations, fair | both loops end; no echo ends two rounds; only a time-out shifts rounds or closes early; `Alternation` while nothing fails |
| `ws_benchmark` | 20 iterations; the connection may be refused, time out, be cut by a late timer or break; fair | rounds alternate, no error once connected, `close` has `connected_` for itself; the benchmark ends and joins both event loops unless the open connection broke or a late timer ended it, and then main hangs in one place only |
| `ws_benchmark_wakes` | 1 iteration, same connection, fair | counterexample: nobody wakes main |
| `chat` | 1 console (1 text, UTF-8 or not, and exit) and 1 page (2 texts, any of them exit), breaks and late timers, fair server | the server's set is its sessions and forgets the ended ones; no close is refused in it; echoes in order; a console is refused because its session is over, or leaves its input thread behind, only if its connection broke or a handshake timer ran late |
| `race_feed` | 2 runners and main, 2 messages each and the results, lossy, fair | whole lines, the feed in the console's order and nothing twice, no send on a closed socket; a receiver that missed nothing ends with every line, the results last |
| `test_page` | 6 clicks on Connect, fair | old sockets end, the user is never stuck, buttons tell the state, Connect comes back |

A property that the proofs establish for all instances, and that no run would show more of, is left to them:
the type invariants but that of `WsBenchmark`, `SameEpoch` and `CountIsMissing` of `Barrier`,
`NobodyRunsBeforeTheGun`, `WinnerRanAllLegs` and `ResultsAreFinal` of `Relay`, `OneBall` and
`StopsAfterLastRound` of `PingPong`, `ResultsAreComplete` of `Sprint`.

Why these bounds are enough. Barrier: three calls make the generation come back to a value a slow thread may
still hold when it wraps at 2, the smallest width the class could have, and one more call than that; four
threads allow two slow and two fast ones. Relay: every hand-over is between a runner who may wait and one who
notifies, the same for every pair, and two teams give a race for the flag; longer teams are the matter of the
proofs. Ping-pong: the state repeats after the second round, forty rounds only show that it does. Sprint:
three runners are one more than a lost update needs. Feed: two runners contend with main, and with two
messages the second of one may come before the first of the other. UDP echo: a late echo needs a lost round, a
shifted one and one to receive it; four leave one round on either side. WebSocket round trips: the flags
repeat from the second round on. Chat: clients meet only in the server's set, so two are enough; two texts put
a text before or behind an exit, two exits behind each other, and either in flight while the page closes;
one text of a console suffices to send on a session that ends. Page: two sockets are enough for an old one's
event to meet a new one, six leave several closing at once. Where a counter would grow for ever, the bound is
a constant of the module named as such (`Rounds` of a barrier, `MaxLines` a console types, `MaxTexts` a page
sends, `MaxSockets`, `Messages`).

`CHECK_DEADLOCK FALSE` stands in the runs of programs that end (round trips, feed, chat) and of the page,
whose user stops clicking.

The three counterexamples are disagreements of the code with comments of the repository:

* `EliminatedNeverWins`: a runner that drops the baton calls `setTime(9999)`, which counts as an exchange, so
  its team still reaches the finish test, and line 135 asks the flag alone. The comment at line 132 of v4
  says that an eliminated team cannot be champion because its time is large.
* `FirstHomeIsAnnounced`: between the end of a leg (`setTime`, 127) and the flag (135) lie a print and a read;
  another team's last runner can overtake. v2 says at line 122 that "finished" is printed by the first thread
  to complete.
* `LossWakesSendAndWait`: the comment at line 184 says that the fail handler's notification wakes a main that
  waits in `send_and_wait`; the fail handler runs for a session that never opened, no close handler is set, and
  a main that waits on a connection that breaks, or that a handshake timer cuts late, is not woken.

A fourth disagreement needs no run of its own: the comment at line 369 of the benchmark says that a UDP round
is over only when the echo has been received, and `recvfrom` at 370 times out after a second without its
result being looked at. `ClientFails` of `UdpEcho` is that step, and `ShiftNeedsTimeout` says what it can do.

## Fairness

The code relies on the operating system to run every thread, so each thread's steps are weakly fair. In the
relay, taking a baton mutex (`LockStep`) is strongly fair: a waiting runner may be woken spuriously for ever
and take the mutex each time, so the notifier finds it free again and again but not continuously; a
scheduler that never let it in would not be one the code can be run on. In the sprint each mutex is taken a
bounded number of times and weak fairness is enough. Nothing is assumed of spurious wake-ups (they may never
come or come for ever), and nothing of the random draws (every baton may be dropped).

In `UdpEcho` the two threads are weakly fair and nothing is assumed of the network: the time-outs alone end
the loops. In `WsBenchmark` main and the two event loops are weakly fair; the handshake timers may expire at
any time and run late or not, and the connection need not break. In `Chat` only the server's loop is fair, as a whole: it runs
while a handler is due, and which one it takes next is left open. No client has to read, no user to type or click.
That no session waits for ever behind busy clients rests in the run on the bounded number of texts; asio, which
serves its handlers in turn, gives it for any number. In
`RaceFeed` each thread and the receiver's loop are weakly fair; `print_mtx` need not be fair, because each
thread asks for it finitely often. In `TestPage` the browser gets over with a socket that is closing; nobody
has to click and no server has to answer.

## Proofs

The proofs hold for every finite set of threads, every number of rounds and every generation width >= 2; for
every positive `NUM_TEAMS`, `NUM_MEMBERS` and `ITERATIONS`; for any sets of runners, consoles and pages, and
any number of messages, texts and clicks. Each detailed module names its inductive invariant
`IInv`; its proof module shows `Init => IInv` and `IInv /\ [Next]_vars => IInv'` with one lemma per action or
group of actions, and derives the properties.

* `BarrierProofs`. `NobodyEarly` is not inductive: it says nothing of a thread that has blocked. `IInv` adds
  that all threads agree on the number of openings (`SameEpoch`), that `count` is what is missing from the
  parked threads (`CountIsMissing`, by cardinality arguments) and that blocked threads are parked. The last
  arrival then finds everybody else parked, so the opening releases exactly one generation.
  `BarrierKeepsPromise` is the safety part of the refinement.
* `RelayProofs`. `IInv` joins the barrier sets with the places of the threads (`Gates`), the order of a
  runner's writes (`Written`), the chain of batons (`BatonHanded`), the mutexes (`MutexHeld`) and the flag
  (`FlagTaken`). The heart is `NotifyBatonIInv`: the notifier holds the mutex, hence the following runner is
  not between its check and its wait. `BarriersKeepContract` and `RelayIsRace` are refinements.
  `LegsPrintedWereRun` is proved of `RelayLegs` over the same invariant: a runner past its `setTime` has counted
  itself and all before it, and the counter only grows, so the leg it reads later is one that was run.
* `AlternationProofs`, of both benchmarks that implement `Alternation`. `PPInv` of the ping-pong is the
  conjunction of its four invariants and what holds before the first service; `IInv` of the UDP echo adds to
  its properties that a ping is in one place only, on its way, in the server's hands or returned once
  (`OnePlace`), and that the server serves in order until something fails (`InOrder`). `StrictAlternation` and
  `UdpAlternatesWhileCalm` are the safety parts of the two refinements, the second under the hypothesis that
  nothing failed.
* `SprintProofs`. `IInv` adds mutual exclusion and that what the runner inside has loaded is still current
  (`FreshReads`); the counter is the cardinality of the runners that have left `addTime`. `SprintIsRace` is
  the safety part of the refinement.
* `RaceFeedProofs`. `IInv` adds that the end of the console is the message of whoever holds `print_mtx`
  (`LineInHand`), that what is on its way was printed whole and is older than its thread's next message
  (`SentWasPrinted`), and that main's last message and the close come after all the runners (`MainIsLast`).
  A datagram is then always sent with the whole console before it, and loss only removes from an ordered feed.
* `WsConnectionProofs`: what each operator of `WsConnection` leaves of the state, the queues, the wires and the
  pending handler of either side (`WriteIs`, `ReadCloseIs`, `TerminateIs` ...), and what a step of the library
  that calls no handler can be (`QuietIs`, `QuietFlow`): it writes the frame at the front of its queue, takes a
  frame, queues an acknowledgement or ends the session. Both programs on WebSocket++ are proved over these
  lemmas, which hold for every set of payloads.
* `WsBenchmarkProofs`. The properties are about three threads that share flags with and without `mtx_`. `IInv`
  ties each flag to the place of its writer and to the session: `Handshake` (connected_ is set only in a session
  that opened, has_error_ only in one that failed in its handshake), `Rounds` (what main counts against what the
  server echoed) and `InFlight`, the heart: while main does not wait, no text is anywhere (`Idle`); while it waits
  for an echo, at most one is, either on its way to the server or on its way back (`Carries`), and the count of
  the echoes tells which. `ErrorComesBeforeConnected` and `CloseHasConnectedAlone` are the two
  unlocked accesses of the class; `WsRoundsAlternate` is the safety part of the refinement of `Alternation`.
* `ChatProofs`, the consoles. The connection of a console that does not break and that no late timer cuts is in
  one of four phases (`Unstarted`, `Shaking`, `Talking`, `Over`), and while it talks neither queue nor wire holds
  an exit or a close; hence no `close` of its input thread is refused, nor a `send` of a text that is UTF-8. A fifth
  case, `Garbled`, is the console that has died of a line that is not, with its session open. This gives
  `ConsoleRefusalNeedsBreak` and `ConsoleExitIsClean`. `EndsOnce` ties a pending handler to a closed session, which
  makes `ConnectionsAreSessions` inductive, with breaks and late timers.
* `ChatProofs`, the echoes. `EchoesInOrder` speaks of one frame and is far from inductive. What is invariant is
  the whole way of the texts (`StreamInv`): the frames from the server to the client (`Echoes`) followed by those
  from the client to the server (`Inbound`) are one sequence, numbered on from the last echo heard, and an echo
  of the server moves a frame across the border of the two and leaves the sequence as it is (`EchoedStream`).
  Exits, closes, breaks, late timers and terminations cut it: only what precedes the first frame that is no plain text counts
  (`Numbered`, `EndedBy`), no exit is ever echoed (`NoExit`), and a server that is closing has announced it behind
  its last echo (`Cut`), so that what it drops does not matter. `StreamInvariant` holds with any breaks and for
  any number of texts; `EchoesStayInOrder` follows, and so does `NoTextIsLost`: a client that is open, with nothing
  on its way on its connection, has heard an echo of every text it has sent.
* `ChatProofs`, the test page. `PageInv` adds that the three buttons change together and that a user who does not
  hurry clicks Connect only when the sockets before are closed (`CalmClicks`).

Only model-checked: the liveness properties (`RaceFinishes`, `BothLoopsEnd`, `EndsUnlessBroken`, `OnlyHang`,
`EndedIsForgotten`, `ReceiverSeesTheRace`, `ConnectComesBack`, the fair parts of `ImplementsPhaseBarrier`,
`ImplementsAlternation` and `ImplementsSprintRace`), because liveness under fairness is
beyond the prover, and the three counterexamples. Every invariant a run checks is also a theorem.

## What is left out

* Times, names and the text and order of messages; `RandomTwister` (its draws are free choices); sleeps
  (anything may happen first); rounding of float sums.
* Failure to create a thread: nothing in the code handles it; the program would terminate.
* A `Team` or `Competitor` shared by several races, a barrier with a wrong count, other callers than the
  programs above: not in the code.
* The earlier relay versions v2 and v3 (same synchronisation), the template vVersion, the report, and vendored
  and generated files.
* WebSocket++ beyond what the two programs use: pings, extensions, TLS, HTTP errors, malformed or fragmented
  frames. A frame is written and read whole. A connection that breaks is noticed by both ends, sooner or
  later; one that silently stops delivering is not modelled (the library has no timer for an open session).
  No text exceeds the library's limit for a received message (32 MB), and memory does not run out.
* The round-trip benchmark assumes that nobody else connects to port 9002, and the UDP benchmark that nobody
  else sends to its ports.
* The page's Send click and its log: the click tests `readyState` and sends in one task, and no button
  depends on it. `websock_test_server.cpp` is `ws_server.cpp` without the set and the exit message.
* The end of a console's input (`ws_client.cpp` line 41): lines are choices of the model, and each is read.
* Asio, whose event loop appears in the modules only as the loop that runs one handler at a time. It is most
  of the lines of `src/`; the programs' own code is about two thousand lines.

## Plan

Everything planned is done; most important first.

1. `PhaseBarrier`, `Barrier`, `BarrierProofs`: the contract of the barrier and its implementation.
2. `RelayRace`, `Relay`, `RelayFirstHome`, `RelayLegs`, `RelayProofs`: the race, composed with the contract of
   the barrier.
3. `Alternation`, `Iterations`, `PingPong`, `AlternationProofs`: strict alternation over two condition variables.
4. `SprintRace`, `Sprint`, `SprintProofs`: `addTime` at the granularity of loads and stores.
5. `UdpEcho`, `AlternationProofs`: two counting loops with loss, delay and time-outs; `Alternation` while calm.
6. `WsConnection`, `WsBenchmark`, with their proofs: handlers of the client thread against connect, send_and_wait and close.
7. `RaceFeed`, `RaceFeedProofs`: `thrd_print`, lossy UDP and a receiver that comes and goes.
8. `Chat`, then `TestPage`, both with `ChatProofs`.

What could still be added: the end of the input of a console.
