# Verification of ibitcoinq

TLA+ modules, TLC configurations and TLAPS proofs for the trading client in
`src/src`: a console program that keeps two web-socket connections to the OKEx
exchange, sends orders and subscriptions over them and shows balances,
positions, instruments and tickers. The repository has no tests and no design
documents, so every definition is read off the code; the correctness statements
are what the code is written to achieve (re-sending, re-subscribing, keeping a
connection alive) and what its comments, messages and assertions say.

## 1. The system

### Threads

| thread | started in | runs |
|---|---|---|
| main | `main.cpp` | `Client::start`, then one handler per line typed |
| I/O | `okex/client.cpp:27` | `ioc_.run()`: every asynchronous handler of every session |
| run, one per channel | `okex/channel.cpp:18` | `Channel::run`: connect, log in, re-send, loop |
| callback, one per channel | `okex/channel.cpp:19` | `Channel::cb_proc` |
| timer | `utils/timer_wheel.cpp:57` | `TimerWheel::run` (in the library, not started by the program) |

### Components

| component | state | operations | interacts with | hard behaviour |
|---|---|---|---|---|
| `ConcurrentQueueT` (`utils/concurrent_queue.h`) | deque, `over_`, mutex, condition | push, pop, timed pop, tryPop, abort, clear | used between all threads of a channel | notifies only on a push into an empty deque; time-out against push; abort against waiting threads |
| `Channel` (`okex/channel.*`, `private_channel.*`, `public_channel.*`) | `outq_`, `inq_`, `waiting_resp_q_`, `cb_q_`, `connected_` | sendCmd, run, parseIncomeData, cb_proc, reconnect, waitConnected | `WSSession`, `Command`, callers | reconnects for ever; re-sends what has no answer; replies without ids; busy retries; reads that outlive their session; keep-alive |
| `Command` (`okex/command.*`) | none | make*Req, parseReceivedData | `Channel`, `TradesManager` | codes of replies; batches; a message that throws half-way |
| `WSSession` (`utils/ws_session.*`) | handler chain, `connected_`, `ec_`, `async_read_called_`, `buffer_`, `last_pong_tp_` | start, waitUtilConnected, send, read, async_read, ping, close | I/O thread | wait without predicate; flag reset before the buffer is free |
| `HttpSession` (`utils/http_session.*`) | handler chain, `connected_`, `ec_` | start, waitUtilConnected, send, read | `RestApi` | the same wait; a handler that ends without a verdict |
| `RestApi` (`okex/rest_api.*`) | none between calls | setLeverage, closePosition, checkOrderFilled, getMarkPriceHistoryCandles, sendCmd | `HttpSession` | one session per request; replies lost or unreadable; paging must end and be complete |
| `Client` (`okex/client.*`), `main.cpp` | the channels, `io_thread_` | start, console | everything | threads started by a base constructor; wait for both channels |
| `TradesManager` (`trades_manager.*`) | balances, positions, instruments, tickers, mutex | update*, process | `Command`, console | what is shown goes stale while a channel is down |
| `TimerWheel` (`utils/timer_wheel.*`) | wheels of slots, node states | schedule, remove, step, exit | its callbacks | cascades, removal against a running callback, re-scheduling |
| SOCKS handshake (`utils/socks/impl/handshake.hpp`) | step of the handshake, buffers | socks4, socks5 | both sessions, the proxy | byte counts; a proxy that refuses, lies or falls silent; no timer of its own |
| URI parser (`utils/socks/uri.hpp`, `impl/uri.ipp`) | eight views of the text, flags of the pass | parse | both sessions | user or host is known only later; offsets of views |
| `Settings`, logger, tables, JSON, crypto | - | - | - | formatting and arithmetic on strings |

How they interact: the application calls `sendCmd`, which pushes into `outq_`.
The run thread moves a command to `waiting_resp_q_`, writes it on the session
and, when the I/O thread has pushed the reply into `inq_`, takes the entry out
again and pushes its callback into `cb_q_`; the callback thread runs it. Data
messages take the same way up to `parseReceivedData`, which updates
`TradesManager` on the run thread. `RestApi` makes an `HttpSession` for each
request, waits for it and reads one reply. Both kinds of session go through a SOCKS
proxy if one is set: its URL is parsed, its host connected to, the handshake made,
and the session goes on through the tunnel. Any exception on the run thread closes the
session; a second later a new one is made, `onConnected` queues the
subscriptions again and everything in `waiting_resp_q_` is written again.

What makes each part correct is stated in section 3. `PROJECT.json` lists the hazards, each at its
line, with the properties that cover it.

## 2. Modules

| module | models | lines |
|---|---|---|
| `FifoQueue` | abstract: a queue of values, first in first out | promise of `ConcurrentQueueT` |
| `ConcurrentQueue` | `ConcurrentQueueT`, one action per critical section | `concurrent_queue.h:12-78` |
| `OrderService` | abstract: what a caller of `sendCmd` may rely on | promise of `Channel` |
| `Channel` | `Channel::run`, `parseIncomeData`, `cb_proc`, `sendCmd`, `onConnected`, `WSSession::async_read`, the network and the exchange | `channel.cpp:25-198`, `private_channel.cpp:10-60`, `ws_session.cpp:189-223`, `command.cpp:432-499` |
| `KeepAlive` | the clocks of the keep-alive, of which `Channel` keeps only pass or fail | `channel.cpp:65-117`, `ws_session.cpp:166-174`, `ws_session.h:78` |
| `Client` | `Client::start`, the constructors of the channels, `waitConnected`, `connected_` | `client.cpp:17-38`, `channel.cpp:9-20, 34-69, 119-135, 200-205` |
| `TradesManager` | the data messages and the updates | `trades_manager.cpp:8-29`, `command.cpp:500-570, 685-688` |
| `TimerWheel` | the lists of every wheel, schedule, remove, step, exit, the destructor | `timer_wheel.cpp:6-185`, `timer_wheel.h:105-218` |
| `Session` | the chain of handlers of both sessions and `waitUtilConnected` | `ws_session.cpp:9-187, 225-232`, `http_session.cpp:95-170` |
| `RestApi` | `Session` and the calls made over it, the exchange, and a channel's session opened the same way | `rest_api.cpp:76-308`, `http_session.cpp:149-161`, `channel.cpp:32-47` |
| `Uri` | `uri::parse`, one action per case of its switch | `uri.ipp:64-571`, `char_type.hpp:35-83` |
| `SocksHandshake` | `socks4_op`, `socks5_op` and the proxy, in bytes | `handshake.hpp:75-156, 183-520` |
| `Proxy` | the composition of the two: start, the proxy's URL, look-up, connection, handshake | `http_session.cpp:18-93`, `ws_session.cpp:20-41`, `handshake.hpp:537-594` |
| `*_proofs` | theorems about the module of that name | |
| `MC*` | constants for TLC | |

`ConcurrentQueue` shows that the operations of the queue are the atomic
operations of `FifoQueue`; `Channel` therefore uses plain sequences for `outq_`,
`inq_` and `cb_q_`. `Channel` shows that sessions end and begin and that `inq_`
never mixes two of them (`NothingStaleInq`); `TradesManager`, `Client` and
`KeepAlive` build on that and keep of a session only the phases they need.
`Proxy` is the way through a proxy in full; `Session` keeps of it that each of its
steps may fail and that start() may end without a word. `RestApi` extends `Session`:
each request starts a fresh one.

### State and actions against the code

*ConcurrentQueue.* `pc` says where each thread stands (outside, before the
notification, in one of the two waits). `Push` is the critical section of push,
`NotifyPushed` the notification after the unlock, which is a step of its own.
`Pop`, `TimedPop`, `TryPop` are the critical sections; each has a part that
removes, one that returns false and one that goes to sleep. `TimeOut` and
`SpuriousWakeup` end a wait.

*Channel.* `pc` is the position of the run thread: `connect` (top of the loop),
`waitConnected`, `login`, `onConnected`, `resend`, and `read`, `outq`, `inq` for
the three parts of the inner loop. One action per handler of the loop:
`SendNext`, `CloseCommand`, `ConnectionClosed`, `ParseIncomeData`, `KeepAlive`,
`PingFailed`. Every exception goes through `DropSession`, the catch clauses.
`ReadDone` and `ReadCallback` are the two halves of the completion handler of
`async_read`, between which the run thread may already start the next read on
the buffer in use: that data race is a choice of outcomes in `StartRead` and
`Clobber`. `stale` holds what the handlers of a session that was given up will
still push. Replies are records (session, request they answer, verdict); the
verdict stands for the codes `parseReceivedData` tells apart. `Matches` is the
comparison of id and op. A busy request goes back under its *old* id, as in
`channel.cpp:168-170`, where `newreq` is not used. The keep-alive may fail on a
working connection only as one of the counted failures.

*Client.* `main` is the position of `Client::start`, `phase[c]` the phase of the
run thread of channel c. The base constructor starts that thread (`Build`)
before the object is of the derived class (`Derive`). `WaitConnected` is the
critical section up to the wait; the wait has no predicate, hence `WokenUp`.

*TradesManager.* `held` is the truth at the exchange, `pushed` and `todo` the
messages and items on their way, `shown` the maps of the class. Currencies stand
also for instruments and tickers, which are stored the same way.
`ParseThrows` is the exception of `parseReceivedData`.

*KeepAlive.* The three time points are kept as ages, so that the state space is
finite with no bound on time but one, `MaxConnect`, on the time from the construction
of the session to the loop. The code has no such bound (the login may take any time),
and the proofs need none: `MaxConnect` may be any number. `Tick` is a unit of time in
which the run thread comes round at least once. `quiet`, `deaf` and `late` are added for
the properties: the ages of the last sign of life and of the last pong, both counted from
the beginning of the loop at the earliest, and whether a pong or the connection was late.

*TimerWheel.* A node is in at most one list, so the lists are the function `at` from
nodes to places: a slot `<<wheel, index>>`, `Active` (the local list of step()) or
none. One `Tick` is the critical section of one round of step(): the due slot is
taken and the current slots of the wheels that turn are emptied from the top
(`Fall`: a node may fall through several wheels at once). `Fire`, `CallbackDone`
and `Reschedule` are the rest of the round, which runs without the mutex. Sizes
and durations are in ticks, values modulo a turn of the last wheel, as the masks
leave them. `left` is added: it counts down beside the wheels. `Reused` and
`Careless` say what the application does with nodes of its own: `schedule(duration,
func)` gives a new node each time, `schedule(int, NodeBase*)` leaves it to the
caller.

*Session.* `stage` is the handler that runs next; each handler's end is atomic,
because `on_fail` and the last handler change `ec_` or `connected_` and notify under
the mutex. `caller` is the thread in `waitUtilConnected`; the wait has no predicate, so
`Notified`, `TimesOut` and `SpuriousWakeup` all return `connected_`. `early` is added: was the
session connected before the wait began. The two classes differ in `SetHostName` and in
the web-socket handshake; everything else is the same code twice.

*RestApi.* `pc` is the position of the call: the request, the wait, the request on the
wire, the reply, its handling. Replies are abstracted to what the calls tell apart:
status not 200, unreadable, a refusal (code not 0), done, done without a code.
`executed` is what the exchange did. Candles are their times, 1, 2, ...; the
exchange sends the newest of those asked for, in any order. A time of 0 means "no
page yet" to the code and no candle has it.

*Uri.* `b` is the number of characters read, views are pairs of offsets, each case of
the switch is an action, split where it returns, accepts or goes on. What
`is_ipv4_host` and `is_ipv6_host` refuse is a constant, apart from the empty host and
characters that no address has. `isalpha` and `isdigit` are constants too;
`ishexdigit` takes every letter, as the code's does.

*SocksHandshake.* One action per case of the two switches; an operation under way
completes (`Complete`) when it is a write or when as many bytes as it reads have come. `unread`
are bytes of the proxy's reply, `tunnel` those that follow it: a read that asks for
too many takes bytes of the tunnel (`swallowed`). The rest of a reply is computed
unsigned, so a name of fewer than 3 bytes asks for more bytes than ever come
(`Never`). The target is a name or an IPv4 address: with socks4 a name is refused before
anything is sent (`handshake.hpp:102`), so a session of this program, which always
passes a name, gets through a socks5 proxy only. User and password go out whole, each
behind the last 8 bits of its length (`handshake.hpp:282`, `285`), and the proxy reads
what those bytes say: `ToldUser`, `ToldPassword` and `ToldTarget` are what it makes of the
messages. What it takes for the password behind a user that was cut, and for the
target when bytes are left over, is not spelled out ("misread"); it answers once per message
of the client all the same. The length of the session's host is cut too, behind an
assertion that it has at most 255 bytes (`handshake.hpp:353`), which is taken to hold.

*Proxy.* `stage` is the handler of the session that runs next. The views into
`socks_server_` are copied when the handshake starts.

## 3. Runs and what they show

| run | instance | shows |
|---|---|---|
| `queue` | 2 pushing, 2 removing threads, 2 values, deques up to 2 | one notification per push into an empty deque is enough (`NoLostWakeup`, `ValueWakesWaiter`); abort frees every thread (`AbortEndsWait`; that none is left asleep, `AbortWakesAll`, is proved) and false for good means drained (`StoppedMeansDrained`); the queue is a FIFO queue (`ImplementsFifo`) |
| `channel_orders` | a plain order, a batch, 2 failures | no order lost or answered twice (`RequestConserved`), no answer of another order and no false "ok" (`AnsweredTruthfully`), executed once per session (`OncePerSession`), the channel implements `OrderService` (`ImplementsService`) |
| `channel_subscriptions` | 2 subscriptions, 2 failures | messages of an old session pollute nothing (`NothingStaleInq`), the next reply is always for the request that has waited longest, which is all that tells replies without ids apart (`RepliesInOrder`), every session ends up subscribed (`SubscriptionsRestored`), at most one new session per failure (`NoReconnectStorm`) |
| `channel_liveness` | 1 order, 3 failures, fairness | an order is answered in the end unless its reply on the last session was unusable (`OrderAnswered`), a demand to log in again ends the session (`ReloginFollowed`) |
| `client_start` | both channels, 2 drops each | no virtual call on an unfinished object (`NoCallBeforeBuilt`), start returns (`StartReturns`) and then every channel has been connected (`StartedMeansOpened`), the notification is not missed (`NoMissedConnection`) |
| `trades` | 2 positions, 1 balance, 3 changes, 2 failures | after the messages of a session have been parsed every balance and every open position is the exchange's (`OpenIsCurrent`), a closed one is shown only if its closing was told to nobody (`StaleOnlyIfUnseen`), and what is shown settles (`Converges`) |
| `keepalive` | Idle 3, PingEvery 12, Grace 2, 0 to 14 units until the loop | a silent connection ends within two idle periods and Grace (`SilenceEnds`), a deaf one within two ping periods and Grace of the last pong or the beginning of the loop (`DeafnessEnds`), a prompt exchange is never given up (`LivePeerKept`), one that is dead once the loop runs is noticed (`DeathNoticed`) |
| `keepalive_no_ping` | the same | **violated**: "ping failed!" without a ping, see section 7 |
| `timer` | 3 wheels of 2, 4 and 4 slots, 2 nodes, durations 1 and 24 (the longest that fits) | a timer is taken in the very tick its duration is over (`OnTime`, `Taken`), a removal holds (`CancelHolds`), a destroyed node is in no list and its callback is over (`DestroyedIsUnused`) |
| `timer_push` | the same, a node scheduled again while in use | **violated**: the assertion of `NodesList::push`, see section 7 |
| `proxy` | some 130 URLs written from their parts, among them users and passwords of 255 and 257 bytes, some 3000 other texts of up to 13 characters, bound names of 2, 3 and 5 bytes, up to 2 bytes of tunnel | parts never reach outside the text (`ViewsInside`), a URL is taken apart into the parts it was written from (`RoundTrip`), the proxy's replies are read to the byte (`TunnelClean`), a granted connection is not thrown away (`GrantIsTaken`), the handshake that succeeds is the one configured, as far as SOCKS 5 has bytes for the lengths (`ActsAsConfigured`), and it ends with a silent proxy too (`HandshakeEnds`) |
| `rest_api` | 2 calls, up to 5 candles, pages of 2 | a caller sleeps beside a verdict only after an early success (`SleepsOnlyIfLate`), true means executed (`TrueMeansDone`), a history returned with true is complete and without doubles (`PagesComplete`), every call returns (`CallsReturn`) |

The type invariants of the queue, the channel, the start and the keep-alive are
proved (section 4) and need no run; of the other modules the
inductive invariants in the proof modules contain the types as far as the proofs need them.

Each property is broken by at least one plausible bug: the definitions marked
*Fault* in the modules are the changed forms of the definition that follows
them, and `PROJECT.json` says which property each must break.

### Bounds and why they are enough

* Queue: with two waiting threads one notification has to serve both; with two
  values and room for two, a push finds the deque not empty. More threads or
  values repeat these cases, and the safety part is proved for any number.
* Channel: a failure is any of: a failed connection or login, a lost connection
  (reset or silent), a busy, re-login, unreadable or id-less reply, a partly busy
  batch, a clobbered read, a false alarm of the keep-alive. Two failures give
  every pair, among them a busy reply followed by a lost connection and a
  session lost while re-sending; three are allowed for one order in the liveness
  run. `sid` is bounded by the failures, which `NoReconnectStorm` shows, so the
  state space needs no other constraint. Two subscriptions are the fewest that
  can be confused with each other. Each order is sent once by the application.
* Client: two drops per channel let a channel go up, down and up again while the
  main thread is still waiting for the other.
* TradesManager: three changes allow open, close, open of one position, or close
  while down and another change after; two failures a lost connection and an
  unreadable item.
* KeepAlive: the order Grace < Idle < PingEvery of the code (10 s, 15 s, 60 s) is
  kept, with PingEvery at least four idle periods; the two bounds on time are
  reached in the run, and proved for all values in that order. Connecting takes up to
  14 units, so that it may be quick, later than Grace, Idle or PingEvery.
* TimerWheel: three wheels are the fewest in which a node falls through two of them
  in one tick; the wheels keep turning, so a timer is scheduled at every position
  of all three. Reused nodes come back from a callback at any position too. One
  removal per node is enough for every place a removal can meet a node in.

* Proxy: the texts are every sequence of up to three characters, one of each class the
  parser tells apart, after `x://` and `x://a@`, and of up to two after each kind of
  host, so every pair of branches of a state and every character at the end of the
  text occurs; `ViewsInside` is proved for any text. `s4`, `s5` and `f` stand for socks4,
  socks5 and file. URLs that cannot be written unambiguously are left out of
  `RoundTrip`: a password without a user, an empty port after a colon, an at-sign in
  the path, a user with a colon, the file scheme.
  A user or a password of 255 bytes is the longest a length byte can tell, and of 257
  bytes it leaves one: the run has each of the two alone and both.
  Bound names of 2, 3 and 5 bytes are below, at and above the length at
  which the rest of the reply is not negative.
* RestApi: two calls let a call see what another left behind; five candles in pages of
  two make three pages and an empty one, with up to five candles added meanwhile.

`CHECK_DEADLOCK FALSE` is set where the model stops when all counted changes and
failures are used up, a session has been given up for good or the timer wheel is
destroyed.

### Fairness

Weak fairness of every thread: the operating system runs them, and none blocks
for ever at the steps it is assumed of. Two assumptions go further. In `Channel`
`SF(link # "up" /\ PingFailed)`: a connection that does not work is noticed in the
end; a silent link lets pings and log-ins pass until TCP gives up on them, and
`KeepAlive` shows the rest. In `Client` `SF(Established(c))`: a connection that
can come up again and again does in the end; without it `start` may wait for
ever, and does so in the code. The exchange answers the requests of a working
connection. The login is read synchronously without an effective time-out
(`channel.cpp:53`): an exchange that accepts the connection and says nothing is
outside these assumptions. `KeepAlive` assumes nothing of the exchange, not even that the
login ends and the loop is reached: `DeathNoticed` is about the loop. And
`TimerWheel` assumes that callbacks return. `Proxy` assumes that the I/O thread runs what
is ready and that a timer goes off in the end (the 30 seconds set when the proxy has
been looked up), nothing of the proxy or the network; the timer is taken to be long
compared with an answer that has arrived. `RestApi` assumes the two threads run, the
wait's time-out expires, and the exchange answers or the connection breaks: the reply
is read synchronously (`http_session.cpp:156`), where the stream's timer does nothing.

## 4. What is proved

All proofs are checked by TLAPS (SMT, Zenon, LS4) for every value of the
constants that satisfies the named assumptions (such as `CommandsApart` and `NoIdIsNoOrder` of
`Channel`, `KeysFinite` of `TradesManager`, `ServersAreWellFormed` of `Proxy`), which every run
of the module evaluates. Every safety property that a run checks is stated by a theorem.

| theorem | says |
|---|---|
| `ConcurrentQueue_proofs!TypeCorrect`, `NoWakeupIsLost`, `AbortReleasesAll`, `StoppedDrained` | the safety of the queue, any threads and values |
| `Client_proofs!TypeCorrect`, `KeepAlive_proofs!TypeCorrect` | types, any channels and times |
| `ConcurrentQueue_proofs!QueueIsFifo` | the queue implements `FifoQueue` |
| `Channel_proofs!TypeCorrect` | types, any orders, subscriptions and number of failures |
| `Channel_proofs!OrdersConserved` | `RequestConserved` |
| `Channel_proofs!AnswersAreTrue` | `AnsweredTruthfully` |
| `Channel_proofs!ExecutedOncePerSession` | `OncePerSession` |
| `Channel_proofs!InqIsOfThisSession` | `NothingStaleInq` |
| `Channel_proofs!OrdersAreServed` | the channel implements `OrderService` |
| `Channel_proofs!ReconnectsAreForAReason` | `NoReconnectStorm`: as many connections as failures and one, whatever the interleaving |
| `Channel_proofs!RepliesComeInOrder` | `RepliesInOrder`: every reply that can still be parsed answers the request at its place in `waiting_resp_q_` |
| `Channel_proofs!SubscriptionsAreRestored` | `SubscriptionsRestored`: no subscription is forgotten in a session that has come to the loop |
| `TradesManager_proofs!OpenPositionsAreRight`, `StaleHasAnExcuse` | `OpenIsCurrent` and `StaleOnlyIfUnseen`, any positions, balances, changes and failures |
| `Client_proofs!VirtualCallsAreSafe`, `StartWaitsForAll`, `NoConnectionMissed` | the three invariants of the start, any list of channels |
| `KeepAlive_proofs!SilenceIsBounded`, `DeafnessIsBounded`, `LivePeerIsKept` | the bounds of the keep-alive, any times with Grace < Idle < PingEvery and any time until the loop |
| `TimerWheel_proofs!DestroyedSafe`, `CancelSafe` | destruction and removal, any nodes, wheels and durations, unless the application is careless |
| `TimerWheel_proofs!TakenOnTime` | `OnTime`, any number and sizes of wheels, any duration they can hold |
| `Proxy_proofs!PartsLieInTheText` | `ViewsInside`, any text and classes of characters |
| `Proxy_proofs!UrlsAreRead` | `RoundTrip`, parts of any length, with or without each of the optional ones |
| `Proxy_proofs!RepliesReadToTheByte`, `GrantsAreTaken` | `TunnelClean` and `GrantIsTaken`, any URL, any lengths of names, any bytes of tunnel |
| `Proxy_proofs!HandshakeIsAsConfigured` | `ActsAsConfigured`, any URL and any answers of the proxy; for SOCKS 5 what was told is the URL's only if user and password have less than 256 bytes, which the property says |
| `RestApi_proofs!NoVerdictSleptThrough`, `TrueIsDone`, `HistoriesAreComplete` | `SleepsOnlyIfLate`, `TrueMeansDone`, `PagesComplete`, any number of calls, candles and candles in a page |

The inductive invariants, and why the properties alone are not inductive:

* Queue: `Inv` adds to the properties that a stopped thread has seen `over_` on an
  empty deque; the refinement uses the identity mapping on the deque, and every
  critical section is one abstract step or a stutter.
* Channel, types: `LoopIndex` (the index of the two loops is at least 1 where it is
  used) is needed to know that what is subscribed or re-sent is a command.
* Channel, conservation: `Conserved(r)` counts the occurrences of r by cases: in none
  of the four places, or in exactly one of them at exactly one index. The lemmas
  `AppendOccurs`, `TailOccurs`, `RemoveAtOccurs` say what each queue operation does
  to occurrences, and each action is shown to move an order from one place to
  the next. `PlacesConserved` translates to the set of places the property uses.
* Channel, truth: every message between the exchange and the callbacks is one the
  exchange could have sent (`Truths`: "ok" only for an executed order), and every entry of
  `cb_q` carries the reply to its own order (`Calls`); an order's id makes the match exact
  (`MatchIsOwn`), which is why `NoId` must not be an order.
* Channel, refinement: `ServiceInv` joins conservation (so that an answer is the first),
  truth (so that "ok" is deserved) and `SentInv` (only submitted orders are on their way
  to the exchange). The status of an order is read off `submitted` and `answers`.
* Channel, sessions: `SessionInv` says that nothing has been started while the thread
  connects, that no callback of an old session is left once connected, and that all
  messages then are of the current session (`Own`).
* Channel, once per session: `OnceInv` follows an order through the connection that is up:
  it is there at most once, as a request, on its way back, in hand or in `inq_`
  (`UnderWay`); if it is still to be sent in this session it is nowhere and not yet
  executed (`ToSend`); and a reply that sends it back to `outq_` is of an exchange that did
  nothing (`Told`). Orphans belong to earlier connections and to orders not executed there
  (`Distinct`). Conservation is needed: an order cannot wait and be queued at once.
* Channel, reconnections: `ReasonsInv` is a potential. What has failed so far is at least the
  sessions given up (`GivenUp`) and the reasons to give up the present one that are still
  pending (`Pending`): a failed read, a lost link, a demand to log in again on its way, in hand
  or in `inq_`, the Close in `outq_` or `channel_err_`. A step that ends a session takes one of
  these, and a step that adds one has paid for it with a failure (`NextReasons`).
* Channel, order of the replies: `InStepInv` relates the two directions. What has been written
  in this session (`SentUpTo`) is the first part of `waiting_resp_q_`; the replies, from `inq_`
  by way of the read in hand to the exchange, and after them the requests the exchange has not
  answered are in step with it entry by entry (`InStep`), up to the first failed read. While the
  requests of the last session are re-sent only those before `k` take part. The lemmas say what
  appending, answering, spoiling, losing and parsing do to two sequences that are in step.
* Channel, subscriptions: `RestoredInv` says that in the loop every subscription waits to be
  sent, is in `waiting_resp_q_`, or was decided by the exchange in this session and every
  message that could undo that came before (`Decided`). It needs `InStepInv`: a reply that
  erases a request erases the one it is the reply to.
* TradesManager: `KeyInv` says of each key that either the last item on its way about it,
  in `pushed` or in `todo`, says what the exchange holds, or no item speaks of it and
  what is shown is right up to the excuses of the properties. A snapshot, a set made a
  sequence, mentions each key once (`SnapshotSeq`), for which the keys must be finite.
* Client: how far the building and the waiting have come (`BuiltSoFar`,
  `AwaitedSoFar`), that no session gets anywhere before the I/O thread runs
  (`IoAfterBuilding`), and what `connected_` says about the past (`ConnectedMeans`).
  `NoCallBeforeBuilt` holds only because of the second.
* KeepAlive: `SilenceInv` splits on whether the last sign of life came before or after
  the last ping; in the first case the check before bounds the distance of the
  two. `Punctual` says that a thread that has come round is not late. `DeafnessInv` bounds
  how far the last pong, or the beginning of the loop, is before the last ping. The check
  compares with the construction of the session until a pong comes, so a slow connection
  only makes it fail earlier (`deaf <= pong_age`), and its time does not enter the bound.
* TimerWheel: `StateOf(n)` ties the state of a node to its place, `UseOf` and `CancelOf`
  say who destroys it: a node in use that is neither due nor running has been
  destroyed, and a node removed while running is CANCELLING until step() drops
  it. The assumption `~Careless` is needed: `timer_push` shows what happens without.
* TimerWheel, times: a node that is to be taken at time x = `wheels_value` + `left` is in the
  slot of x of a wheel i that x is near to (`Near`): the digits of x above i are those of the
  clock, that of i is still to come, and on the last wheel x is less than a turn away
  (`ClockInv`, `Homed`). `Turns` and `Index` are the quotient and the digit; the lemmas about
  them say that schedule() finds such a wheel (`Schedules`), and that a tick keeps a node near
  or is the one in which its slot is emptied, when it is near to a lower wheel or due. The clock wraps
  at `Turn`, which shifts x by as much. That the durations fit
  (`DurationsFit`) is assumed: the code does not check it, its callers have to.
* Proxy, parser: `ParserInv` says that every offset the parser keeps (`part_start`, the
  probe, the brackets, `b`) lies in the text and in which order, depending on the state;
  only with it are the views computed from them inside.
* Proxy, round trip: `RoundInv` says how far a URL written from u has been read (`ReadTo`): each
  state of the parser belongs to a stretch of the text, between offsets that depend on u alone
  (`LaidOut`, which the lemmas about `Spells` derive from `Written`), and the parts up to there
  are u's (`Got`). In `InLogin` and `InHostProbe` the parser is in the same state, `probe`, and
  what it keeps means different things: before an at-sign the first colon ends the user,
  otherwise the host, unless the colon is in an address, where the closing bracket forgets
  it. There is no induction over the text: the steps of the parser are the steps of the proof, one lemma for
  each stretch. The assumptions are `ClassesApart` (no letter or digit is a delimiter) and
  `ServersAreWellFormed`, the URLs that can be told from others.
* Proxy, handshake: `HandshakeInv` ties the operation under way to the reply on the wire:
  which kind the proxy has to answer at each step, how many bytes of its reply are
  unread, and that no byte of the tunnel comes before the reply is complete.
* Proxy, the handshake the URL asks for: `Configured` says that the session gets past start()
  only by an accepted URL and what the arguments are then, `Told` what has been told to the
  proxy at each step and which answer means that it admitted the client or granted the
  connection. `HandshakeInv` gives that the answer read is the one to the last message, and
  `UrlsAreRead` that the arguments are the parts the URL was written from. A text shorter than
  256 bytes is what its length byte says (`ShortIsWhole`).
* RestApi: `SleepsOnlyIfLate` is inductive as it stands. `TrueMeansDone` needs what a reply on
  its way says about the exchange (`ReplyTells`). `PagesComplete` needs `HistoryInv`: what has
  been gathered is an interval from `after_time` to the last candle of the first page, each
  candle once (`Gathered`), and a page is the end of what is left, empty only if nothing is
  (`PageHolds`). The lemma `NewestAreLast` gives the second from the exchange's choice,
  `OldestFound` shows that the least time is the page's first.

## 5. Model-checked only

* Every liveness property (`ValueWakesWaiter`, `AbortEndsWait`, `OrderAnswered`,
  `ReloginFollowed`, `StartReturns`, `Converges`, `DeathNoticed`, `Taken`, `HandshakeEnds`,
  `CallsReturn`): liveness under fairness and ENABLED are out of the prover's reach.
* The two properties that a run shows to be violated, section 7.

## 6. What is left

1. Refinements between the models of the same code: that `Proxy` implements the first steps
   of `Session`, and `Channel` the phases of a session in `Client`.
2. `Session` composed with `Client` through its phases, in place of the phases `Client` keeps.
3. The clock of `TimerWheel::run`, and the console of `main.cpp`.

## 7. Findings

`keepalive_no_ping`: `channel.cpp:113` throws "ping failed!". The code compares
`last_ping_tp`, which is set to the moment the loop is entered although no ping is
sent then (`channel.cpp:72`), with `last_pong_tp_`, which is set when the session
object is made (`ws_session.h:78`). If connecting and logging in took longer than
10 s (the wait alone may take 10), the first 15 idle seconds end a healthy
session. `LivePeerKept` shows that this, and a pong later than Idle, are the only
ways a live exchange is given up.

`timer_push`: `NodesList::push` asserts that the node is in no list
(`timer_wheel.h:112`). `schedule` refuses a READY node (`timer_wheel.cpp:77`) but
links a RUNNING one, and step() marks every due node RUNNING while it is still
linked into its local list (`timer_wheel.cpp:153`). A node scheduled again between
the two, by another thread or by the callback of another due node, fails the
assertion. Timers made with `schedule(duration, func)` cannot be scheduled again by
the application and are not concerned.

Other behaviour the models make explicit, none of which contradicts a statement
of the repository: an order may be executed once per session it is sent on,
unless the exchange recognises its `clOrdId` (`OrderService` does not promise
more); a reply that cannot be parsed leaves its order waiting until the session
ends; a session that is connected before its caller begins to wait is noticed only
when the wait's time is over (1000 s for a request, `SleepsOnlyIfLate` shows this is the
only such case for which no failure is to blame); a session whose proxy URL is
refused, or an `HttpSession` whose host name cannot be set, says nothing, and its caller
waits as long; a socks5 proxy that reports a bound name of fewer than 3 bytes is
given up although it granted the connection; a user or a password of 256 bytes or more
is sent with a length that is cut, so that a socks5 proxy reads other credentials and
other requests than were meant; a position closed while nobody was subscribed is shown for ever; a Close
command left over from one session costs the next one.

## 8. Not modelled

* The text of requests and replies, the signature of the login, tables, logging,
  settings: formatting and pure input.
* The clock of `TimerWheel::run` (how many ticks a call of step makes), and `exit`
  called from a callback, where the thread would join itself.
* `main.cpp`'s console: one handler per line, on one thread.
* Cryptography and encoding: arithmetic without state; the URI encoders and the query
  iterator, which nothing calls.
* The handshake with `use_hostname` = FALSE, which no session asks for, and the default
  port of a scheme (`known_port`).
* TLS, web-socket framing, name resolution: libraries.
* Third-party code (`rapidjson`, boost).
