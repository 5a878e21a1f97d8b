------------------------------- MODULE Channel -------------------------------
(***************************************************************************)
(* okex::Channel (okex/channel.cpp): one web-socket connection to the      *)
(* exchange, kept up by a thread that reconnects for ever.  Actors:        *)
(*   - application threads, which queue requests with sendCmd;             *)
(*   - the run thread: connect, log in, re-subscribe, re-send what has no  *)
(*     answer yet, then loop over outq, inq and the keep-alive;            *)
(*   - the I/O thread, which completes asynchronous reads one at a time;   *)
(*   - the callback thread, which runs the callbacks of answered requests; *)
(*   - the exchange and the network, which are not part of the repository. *)
(* The queues are FIFO and atomic, which ConcurrentQueue shows.            *)
(***************************************************************************)
EXTENDS Integers, Sequences, SequencesExt

CONSTANTS
    Orders,         \* requests of the application, each with an id of its own
    Batches,        \* the orders that carry several items
    Subscriptions,  \* what onConnected subscribes to, in order; no request id
    LoginRequired,  \* required_login_
    Close,          \* the Close command
    MaxFaults       \* bound: failures of network, exchange and timing

Subs == Range(Subscriptions)
Requests == Orders \cup Subs
Commands == Requests \cup {Close}

ASSUME BatchesAreOrders == Batches \subseteq Orders
ASSUME SubscriptionsSeq == Subscriptions \in Seq(Subs)
ASSUME CommandsApart == Orders \cap Subs = {} /\ Close \notin Requests
ASSUME LoginBoolean == LoginRequired \in BOOLEAN
ASSUME MaxFaultsNat == MaxFaults \in Nat

VARIABLES
    \* the application
    submitted,          \* the orders sendCmd has been called with
    answers,            \* per order, the verdicts its callback was called with
    \* the members of Channel
    outq,               \* outq_: commands to send
    inq,                \* inq_: messages received
    waiting_resp_q,     \* waiting_resp_q_: sent, not answered
    cb_q,               \* cb_q_: callbacks to run
    \* the run thread
    pc,                 \* where it stands in run()
    k,                  \* index of its loops over Subscriptions and waiting_resp_q
    sid,                \* number of the current WSSession
    \* the I/O thread
    async_read_called,  \* async_read_called_ of the current session
    in_hand,            \* the message its read callback carries, between the
                        \* reset of that flag and the push into inq
    clobbered,          \* the outstanding read was started on a buffer in use
    stale,              \* what the callbacks of the previous session will push
    \* the network and the exchange
    link,               \* the connection of the current session
    to_server,          \* requests on their way
    to_client,          \* messages on their way
    orphans,            \* <<session, order>> still on its way on a lost connection
    executed,           \* per order, the sessions on which the exchange executed it
    settled,            \* subscriptions the exchange decided on in this session
    unread,             \* requests whose reply in this session answered nothing
    faults              \* failures so far

app == <<submitted, answers>>
run == <<pc, k, sid>>
io == <<async_read_called, in_hand, clobbered, stale>>
net == <<link, to_server, to_client, orphans>>
exchange == <<executed, settled, unread>>
vars == <<app, outq, inq, waiting_resp_q, cb_q, run, io, net, exchange, faults>>

-----------------------------------------------------------------------------
(* Messages *)

(***************************************************************************)
(* ok, error   code 0, any other code that is not listed below             *)
(* busy        50013, 50011, 50001: nothing was done, retry                *)
(* partial     a batch: some items done, some busy                         *)
(* relogin     60011                                                       *)
(* unreadable  parseReceivedData throws inside and returns 0               *)
(* rejected    an error event that does not carry the id of the order      *)
(* closed      the empty string a failed read leaves in inq                *)
(***************************************************************************)
OrderVerdicts == {"ok", "error", "busy", "relogin", "unreadable", "rejected"}
SubVerdicts == {"ok", "error", "busy", "relogin"}
Verdicts == OrderVerdicts \cup {"partial"}

VerdictsFor(c) == CASE c \in Batches -> OrderVerdicts \cup {"partial"}
                    [] c \in Subs    -> SubVerdicts
                    [] OTHER         -> OrderVerdicts

Executes(v) == v \in {"ok", "partial"}

Reply(c, v) == [session |-> sid, to |-> c, verdict |-> v]
Closed == [session |-> sid, to |-> Close, verdict |-> "closed"]
Spoilt(m) == [session |-> m.session, to |-> m.to, verdict |-> "unreadable"]
Replies == [session : Nat, to : Requests, verdict : Verdicts]
Messages == Replies \cup [session : Nat, to : {Close}, verdict : {"closed"}]

NoId == "no id"
ASSUME NoIdIsNoOrder == NoId \notin Orders
RequestId(c) == IF c \in Orders THEN c ELSE NoId
RequestOp(c) == IF c \in Orders THEN "order" ELSE "subscribe"

\* The fields parseReceivedData reads from a message.
RespId(m) == IF m.verdict = "rejected" THEN NoId ELSE RequestId(m.to)
IsErrorEvent(m) == m.verdict = "rejected" \/ (m.to \in Subs /\ m.verdict # "ok")
RespOp(m) == IF IsErrorEvent(m) THEN "error" ELSE RequestOp(m.to)

\* Fault: the busy codes are not told from other errors.
RetBusyUnknown(m) == CASE m.verdict = "relogin"    -> -1
                       [] m.verdict = "unreadable" -> 0
                       [] OTHER                    -> 1

\* The value it returns.
Ret(m) == CASE m.verdict = "relogin"           -> -1
            [] m.verdict \in {"busy", "partial"} -> -2
            [] m.verdict = "unreadable"        -> 0
            [] OTHER                           -> 1

-----------------------------------------------------------------------------

Init ==
    /\ submitted = {}
    /\ answers = [r \in Orders |-> << >>]
    /\ outq = << >> /\ inq = << >> /\ waiting_resp_q = << >> /\ cb_q = << >>
    /\ pc = "connect" /\ k = 0 /\ sid = 0
    /\ async_read_called = FALSE /\ in_hand = << >> /\ clobbered = FALSE /\ stale = << >>
    /\ link = "none" /\ to_server = << >> /\ to_client = << >> /\ orphans = {}
    /\ executed = [r \in Orders |-> << >>]
    /\ settled = {} /\ unread = {}
    /\ faults = 0

Fault == faults < MaxFaults /\ faults' = faults + 1

-----------------------------------------------------------------------------
(* Application and callback threads *)

SendCmd(r) ==
    /\ r \notin submitted
    /\ submitted' = submitted \cup {r}
    /\ outq' = Append(outq, r)
    /\ UNCHANGED <<answers, inq, waiting_resp_q, cb_q, run, io, net, exchange, faults>>

\* cb_proc: runs one callback; what it throws is dropped.
RunCallback ==
    /\ cb_q # << >>
    /\ cb_q' = Tail(cb_q)
    /\ LET e == Head(cb_q)
       IN answers' = [r \in Orders |-> IF r = e.cb THEN Append(answers[r], e.resp.verdict)
                                       ELSE answers[r]]
    /\ UNCHANGED <<submitted, outq, inq, waiting_resp_q, run, io, net, exchange, faults>>

-----------------------------------------------------------------------------
(* The run thread: connecting *)

NewSession ==
    /\ pc = "connect"
    /\ pc' = "waitConnected"
    /\ sid' = sid + 1
    /\ settled' = {} /\ unread' = {}
    /\ UNCHANGED <<app, outq, inq, waiting_resp_q, cb_q, k, io, net, executed, faults>>

\* Fault: several I/O threads, so that old callbacks may still be queued.
ConnectedEarly ==
    /\ pc = "waitConnected"
    /\ pc' = IF LoginRequired THEN "login" ELSE "onConnected"
    /\ k' = 1 /\ link' = "up"
    /\ UNCHANGED <<app, outq, inq, waiting_resp_q, cb_q, sid, io, to_server, to_client,
                   orphans, exchange, faults>>

(***************************************************************************)
(* waitUtilConnected returns true.  The I/O thread has finished the        *)
(* handshake of this session, so it has run every callback of the previous *)
(* one, which were queued to it before.                                    *)
(***************************************************************************)
Connected ==
    /\ pc = "waitConnected"
    /\ stale = << >>
    /\ pc' = IF LoginRequired THEN "login" ELSE "onConnected"
    /\ k' = 1
    /\ link' = "up"
    /\ UNCHANGED <<app, outq, inq, waiting_resp_q, cb_q, sid, io, to_server, to_client,
                   orphans, exchange, faults>>

ConnectFailed ==
    /\ pc = "waitConnected"
    /\ Fault
    /\ pc' = "connect"
    /\ UNCHANGED <<app, outq, inq, waiting_resp_q, cb_q, k, sid, io, net, exchange>>

LoggedIn ==
    /\ pc = "login"
    /\ link = "up"
    /\ pc' = "onConnected"
    /\ UNCHANGED <<app, outq, inq, waiting_resp_q, cb_q, k, sid, io, net, exchange, faults>>

\* The catch clauses: the session is closed and its object goes away.  A read
\* that is outstanding completes with an error, a callback that is running goes
\* on; both belong to the old session.  What was sent may still arrive.
DropSession ==
    /\ pc' = "connect"
    /\ link' = "none"
    /\ orphans' = orphans \cup {<<sid, r>> : r \in Orders \cap Range(to_server)}
    /\ to_server' = << >> /\ to_client' = << >>
    /\ stale' = stale \o in_hand \o (IF async_read_called THEN <<Closed>> ELSE << >>)
    /\ in_hand' = << >> /\ async_read_called' = FALSE /\ clobbered' = FALSE

LoginFailed ==
    /\ pc = "login"
    /\ \/ link # "up" /\ UNCHANGED faults
       \/ link = "up" /\ Fault
    /\ DropSession
    /\ UNCHANGED <<app, outq, inq, waiting_resp_q, cb_q, k, sid, exchange>>

\* Fault: only the first connection subscribes.
SubscribeOnce ==
    /\ pc = "onConnected" /\ k <= Len(Subscriptions)
    /\ outq' = IF sid = 1 THEN Append(outq, Subscriptions[k]) ELSE outq
    /\ k' = k + 1
    /\ UNCHANGED <<app, inq, waiting_resp_q, cb_q, pc, sid, io, net, exchange, faults>>

\* onConnected: one sendCmd per channel, at every connection.
Subscribe ==
    /\ pc = "onConnected"
    /\ k <= Len(Subscriptions)
    /\ outq' = Append(outq, Subscriptions[k])
    /\ k' = k + 1
    /\ UNCHANGED <<app, inq, waiting_resp_q, cb_q, pc, sid, io, net, exchange, faults>>

\* Fault: inq_ is not cleared.
ClearInqForgotten ==
    /\ pc = "onConnected" /\ k > Len(Subscriptions)
    /\ pc' = "resend" /\ k' = 1
    /\ UNCHANGED <<app, outq, inq, waiting_resp_q, cb_q, sid, io, net, exchange, faults>>

\* inq_.clear(), after onConnected has returned.
ClearInq ==
    /\ pc = "onConnected"
    /\ k > Len(Subscriptions)
    /\ inq' = << >>
    /\ pc' = "resend" /\ k' = 1
    /\ UNCHANGED <<app, outq, waiting_resp_q, cb_q, sid, io, net, exchange, faults>>

(***************************************************************************)
(* WSSession::send.  On a connection that is lost the write may succeed    *)
(* locally; on one that was reset it may also throw.                       *)
(***************************************************************************)
Written(c) ==
    /\ to_server' = IF link = "up" THEN Append(to_server, c) ELSE to_server
    /\ UNCHANGED <<link, to_client, orphans, io, faults>>

WriteThrows == link = "reset" /\ DropSession /\ UNCHANGED faults

Resend ==
    /\ pc = "resend"
    /\ k <= Len(waiting_resp_q)
    /\ \/ Written(waiting_resp_q[k]) /\ k' = k + 1 /\ UNCHANGED pc
       \/ WriteThrows /\ UNCHANGED k
    /\ UNCHANGED <<app, outq, inq, waiting_resp_q, cb_q, sid, exchange>>

\* Fault: the loop is entered before everything has been sent again.
ResendDoneEarly ==
    /\ pc = "resend"
    /\ pc' = "read"
    /\ UNCHANGED <<app, outq, inq, waiting_resp_q, cb_q, k, sid, io, net, exchange, faults>>

ResendDone ==
    /\ pc = "resend"
    /\ k > Len(waiting_resp_q)
    /\ pc' = "read"
    /\ UNCHANGED <<app, outq, inq, waiting_resp_q, cb_q, k, sid, io, net, exchange, faults>>

-----------------------------------------------------------------------------
(* The run thread: the loop *)

(***************************************************************************)
(* async_read.  The flag is reset before the I/O thread has copied and     *)
(* cleared buffer_, so a new read can be started on a buffer in use (a     *)
(* data race).  It may spoil the message in hand; the message it is meant  *)
(* for is then lost, see ReadDone.                                         *)
(***************************************************************************)
StartRead ==
    /\ pc = "read"
    /\ pc' = "outq"
    /\ async_read_called' = TRUE
    /\ \/ UNCHANGED <<in_hand, clobbered, unread, faults>>
       \/ /\ ~async_read_called /\ in_hand # << >>
          /\ Fault
          /\ clobbered' = TRUE
          /\ \/ UNCHANGED <<in_hand, unread>>
             \/ /\ in_hand[1].verdict # "closed"
                /\ in_hand' = <<Spoilt(in_hand[1])>>
                /\ unread' = unread \cup {in_hand[1].to}
    /\ UNCHANGED <<app, outq, inq, waiting_resp_q, cb_q, k, sid, stale, net, executed, settled>>

\* Fault: the command is put in waiting_resp_q_ after it has been written.
SendNextThenWait ==
    /\ pc = "outq"
    /\ outq # << >> /\ Head(outq) # Close
    /\ outq' = Tail(outq)
    /\ \/ /\ Written(Head(outq)) /\ UNCHANGED pc
          /\ waiting_resp_q' = Append(waiting_resp_q, Head(outq))
       \/ WriteThrows /\ UNCHANGED waiting_resp_q
    /\ UNCHANGED <<app, inq, cb_q, k, sid, exchange>>

\* while (outq_.pop(&cmd, 10ms)): the command is put in waiting_resp_q_ before
\* it is written, so that a failed write does not lose it.
SendNext ==
    /\ pc = "outq"
    /\ outq # << >> /\ Head(outq) # Close
    /\ outq' = Tail(outq)
    /\ waiting_resp_q' = Append(waiting_resp_q, Head(outq))
    /\ \/ Written(Head(outq)) /\ UNCHANGED pc
       \/ WriteThrows
    /\ UNCHANGED <<app, inq, cb_q, k, sid, exchange>>

\* Fault: Close leaves the session as it is.
CloseIgnored ==
    /\ pc = "outq" /\ outq # << >> /\ Head(outq) = Close
    /\ outq' = Tail(outq)
    /\ UNCHANGED <<app, inq, waiting_resp_q, cb_q, run, io, net, exchange, faults>>

CloseCommand ==
    /\ pc = "outq"
    /\ outq # << >> /\ Head(outq) = Close
    /\ outq' = Tail(outq)
    /\ DropSession
    /\ UNCHANGED <<app, inq, waiting_resp_q, cb_q, k, sid, exchange, faults>>

OutqEmpty ==
    /\ pc = "outq"
    /\ outq = << >>
    /\ pc' = "inq"
    /\ UNCHANGED <<app, outq, inq, waiting_resp_q, cb_q, k, sid, io, net, exchange, faults>>

\* "connection closed!"
ConnectionClosed ==
    /\ pc = "inq"
    /\ inq # << >> /\ Head(inq).verdict = "closed"
    /\ inq' = Tail(inq)
    /\ DropSession
    /\ UNCHANGED <<app, outq, waiting_resp_q, cb_q, k, sid, exchange, faults>>

\* Fault: only op is compared.
MatchesOp(m, c) == RespOp(m) \in {RequestOp(c), "error"}

Matches(m, c) == RespId(m) = RequestId(c) /\ RespOp(m) \in {RequestOp(c), "error"}

\* Fault: the search runs from the back.
LastMatch(m, i) == /\ Matches(m, waiting_resp_q[i])
                   /\ \A j \in (i + 1)..Len(waiting_resp_q) : ~Matches(m, waiting_resp_q[j])

FirstMatch(m, i) == /\ Matches(m, waiting_resp_q[i])
                    /\ \A j \in 1..(i - 1) : ~Matches(m, waiting_resp_q[j])

\* Fault: a busy request is queued again and also kept.
EraseKeepsBusy(m, i) ==
    IF Ret(m) = -2
    THEN outq' = Append(outq, waiting_resp_q[i]) /\ UNCHANGED <<waiting_resp_q, cb_q>>
    ELSE /\ waiting_resp_q' = RemoveAt(waiting_resp_q, i)
         /\ cb_q' = Append(cb_q, [cb |-> waiting_resp_q[i], resp |-> m])
         /\ UNCHANGED outq

\* The erase of entry i, and what happens to it: a busy request goes back to
\* outq_ under the id it had, any other reply goes to its callback.
Erase(m, i) ==
    /\ waiting_resp_q' = RemoveAt(waiting_resp_q, i)
    /\ IF Ret(m) = -2
       THEN outq' = Append(outq, waiting_resp_q[i]) /\ UNCHANGED cb_q
       ELSE cb_q' = Append(cb_q, [cb |-> waiting_resp_q[i], resp |-> m]) /\ UNCHANGED outq

\* parseIncomeData on the next message.
ParseIncomeData ==
    /\ pc = "inq"
    /\ inq # << >> /\ Head(inq).verdict # "closed"
    /\ inq' = Tail(inq)
    /\ LET m == Head(inq)
       IN \/ Ret(m) = -1 /\ outq' = Append(outq, Close) /\ UNCHANGED <<waiting_resp_q, cb_q>>
          \/ Ret(m) = 0 /\ UNCHANGED <<outq, waiting_resp_q, cb_q>>
          \/ /\ Ret(m) \in {1, -2}
             /\ \/ \E i \in DOMAIN waiting_resp_q : FirstMatch(m, i) /\ Erase(m, i)
                \/ /\ \A i \in DOMAIN waiting_resp_q : ~Matches(m, waiting_resp_q[i])
                   /\ UNCHANGED <<outq, waiting_resp_q, cb_q>>
    /\ UNCHANGED <<app, run, io, net, exchange, faults>>

\* inq_ is empty; the keep-alive finds the connection in order or pings it.
KeepAlive ==
    /\ pc = "inq"
    /\ inq = << >>
    /\ pc' = "read"
    /\ UNCHANGED <<app, outq, inq, waiting_resp_q, cb_q, k, sid, io, net, exchange, faults>>

\* "ping failed!", or the ping cannot be written.
PingFailed ==
    /\ pc = "inq"
    /\ inq = << >>
    /\ \/ link # "up" /\ UNCHANGED faults
       \/ link = "up" /\ Fault
    /\ DropSession
    /\ UNCHANGED <<app, outq, inq, waiting_resp_q, cb_q, k, sid, exchange>>

-----------------------------------------------------------------------------
(* The I/O thread *)

\* What a clobbered read delivers instead of message m.
Clobber(m) == {Closed, Spoilt(m)}

\* A read completes: its callback resets the flag ...
ReadDone ==
    /\ async_read_called /\ in_hand = << >>
    /\ async_read_called' = FALSE /\ clobbered' = FALSE
    /\ \/ /\ to_client # << >> /\ link # "silent"
          /\ to_client' = Tail(to_client)
          /\ LET m == Head(to_client)
             IN \E n \in (IF clobbered THEN Clobber(m) ELSE {m}) :
                  /\ in_hand' = <<n>>
                  /\ unread' = IF n # m /\ n # Closed THEN unread \cup {m.to} ELSE unread
       \/ /\ link = "reset"
          /\ in_hand' = <<Closed>>
          /\ UNCHANGED <<to_client, unread>>
    /\ UNCHANGED <<app, outq, inq, waiting_resp_q, cb_q, run, stale, link, to_server, orphans,
                   executed, settled, faults>>

\* ... and pushes what it read.
ReadCallback ==
    /\ in_hand # << >>
    /\ inq' = Append(inq, in_hand[1])
    /\ in_hand' = << >>
    /\ UNCHANGED <<app, outq, waiting_resp_q, cb_q, run, async_read_called, clobbered, stale, net,
                   exchange, faults>>

\* A callback of the previous session, whose object may be gone: it pushes its
\* message or nothing.
StaleCallback ==
    /\ stale # << >>
    /\ stale' = Tail(stale)
    /\ inq' = Append(inq, Head(stale)) \/ UNCHANGED inq
    /\ UNCHANGED <<app, outq, waiting_resp_q, cb_q, run, async_read_called, in_hand, clobbered, net,
                   exchange, faults>>

-----------------------------------------------------------------------------
(* The exchange and the network *)

\* The exchange takes the requests of a connection in order and replies to each.
ServerReplies ==
    /\ link = "up"
    /\ to_server # << >>
    /\ to_server' = Tail(to_server)
    /\ LET c == Head(to_server)
       IN \E v \in VerdictsFor(c) :
            /\ to_client' = Append(to_client, Reply(c, v))
            /\ IF v \in {"ok", "error"} THEN UNCHANGED faults ELSE Fault
            /\ executed' = [r \in Orders |-> IF r = c /\ Executes(v) THEN Append(executed[r], sid)
                                             ELSE executed[r]]
            /\ settled' = IF c \in Subs /\ v \in {"ok", "error"} THEN settled \cup {c} ELSE settled
            /\ unread' = IF v \in {"relogin", "unreadable", "rejected"} THEN unread \cup {c} ELSE unread
    /\ UNCHANGED <<app, outq, inq, waiting_resp_q, cb_q, run, io, link, orphans>>

\* A request that was on its way when its connection was lost is executed all
\* the same; nobody sees the reply.
OrphanExecuted ==
    /\ \E o \in orphans : /\ orphans' = orphans \ {o}
                          /\ executed' = [executed EXCEPT ![o[2]] = Append(@, o[1])]
    /\ UNCHANGED <<app, outq, inq, waiting_resp_q, cb_q, run, io, link, to_server, to_client,
                   settled, unread, faults>>

\* The connection is reset, or falls silent: nothing arrives any more on either
\* side and nothing fails.
LinkLost ==
    /\ link = "up"
    /\ Fault
    /\ link' \in {"reset", "silent"}
    /\ orphans' = orphans \cup {<<sid, r>> : r \in Orders \cap Range(to_server)}
    /\ to_server' = << >>
    /\ UNCHANGED <<app, outq, inq, waiting_resp_q, cb_q, run, io, to_client, exchange>>

-----------------------------------------------------------------------------

RunThread ==
    \/ NewSession \/ Connected \/ ConnectFailed \/ LoggedIn \/ LoginFailed
    \/ Subscribe \/ ClearInq \/ Resend \/ ResendDone
    \/ StartRead \/ SendNext \/ CloseCommand \/ OutqEmpty
    \/ ConnectionClosed \/ ParseIncomeData \/ KeepAlive \/ PingFailed

IoThread == ReadDone \/ ReadCallback \/ StaleCallback

Next ==
    \/ \E r \in Orders : SendCmd(r)
    \/ RunThread
    \/ IoThread
    \/ RunCallback
    \/ ServerReplies \/ OrphanExecuted \/ LinkLost

(***************************************************************************)
(* Threads run.  The exchange answers on a connection that works; one that *)
(* does not is noticed in the end: the keep-alive pings it, and neither a  *)
(* ping nor a login request is acknowledged by TCP for ever.               *)
(***************************************************************************)
Fairness ==
    /\ WF_vars(RunThread)
    /\ WF_vars(IoThread)
    /\ WF_vars(RunCallback)
    /\ WF_vars(ServerReplies)
    /\ SF_vars(link # "up" /\ PingFailed)

Spec == Init /\ [][Next]_vars /\ Fairness

-----------------------------------------------------------------------------
(* Properties *)

RunStates == {"connect", "waitConnected", "login", "onConnected", "resend", "read", "outq", "inq"}
InLoop == pc \in {"read", "outq", "inq"}

\* Every variable has its type.
TypeOK ==
    /\ submitted \subseteq Orders
    /\ answers \in [Orders -> Seq(Verdicts)]
    /\ outq \in Seq(Commands)
    /\ inq \in Seq(Messages)
    /\ waiting_resp_q \in Seq(Requests)
    /\ cb_q \in Seq([cb : Requests, resp : Replies])
    /\ pc \in RunStates
    /\ k \in Nat
    /\ sid \in Nat
    /\ async_read_called \in BOOLEAN
    /\ in_hand \in Seq(Messages) /\ Len(in_hand) <= 1
    /\ clobbered \in BOOLEAN
    /\ stale \in Seq(Messages)
    /\ link \in {"none", "up", "reset", "silent"}
    /\ to_server \in Seq(Requests)
    /\ to_client \in Seq(Replies)
    /\ orphans \subseteq Nat \X Orders
    /\ executed \in [Orders -> Seq(Nat)]
    /\ settled \subseteq Subs
    /\ unread \subseteq Requests
    /\ faults \in Nat

\* Where order r is: a place in one of the queues, or a call of its callback.
PlacesOf(r) ==
    {<<"outq", i>> : i \in {j \in DOMAIN outq : outq[j] = r}}
    \cup {<<"waiting", i>> : i \in {j \in DOMAIN waiting_resp_q : waiting_resp_q[j] = r}}
    \cup {<<"callback", i>> : i \in {j \in DOMAIN cb_q : cb_q[j].cb = r}}
    \cup {<<"answered", i>> : i \in DOMAIN answers[r]}

\* No order is lost and none is answered twice, through every reconnect, failed
\* write and busy retry: an order handed to sendCmd is in exactly one place.
RequestConserved ==
    \A r \in Orders :
        IF r \in submitted THEN \E p \in PlacesOf(r) : PlacesOf(r) = {p}
                           ELSE PlacesOf(r) = {}

\* An order's callback is told "ok" only if the exchange executed that order,
\* and a callback is never handed the reply to another order.
AnsweredTruthfully ==
    /\ \A r \in Orders : ("ok" \in Range(answers[r])) => executed[r] # << >>
    /\ \A e \in Range(cb_q) : e.cb \in Orders => e.resp.to = e.cb

\* Re-sending may execute an order again, but only on another connection: within
\* one session the exchange executes a single order at most once.
OncePerSession ==
    \A r \in Orders \ Batches : \A i, j \in DOMAIN executed[r] :
        executed[r][i] = executed[r][j] => i = j

\* In the loop every message in inq_ comes from the current session, although the
\* reads of the session before may end after it was given up.
NothingStaleInq == InLoop => \A m \in Range(inq) : m.session = sid

\* The messages the run thread is still to parse, in the order it will, and the
\* requests they answer, those included that the exchange has yet to reply to.
Arriving == inq \o in_hand \o to_client
Upcoming == [i \in DOMAIN Arriving |-> Arriving[i].to] \o to_server

\* Subscriptions have no id, so a reply goes to the first one that waits.  That is
\* the right one, because requests are answered in the order in which they wait:
\* the next reply is for the head of waiting_resp_q_, the one after it for the
\* second, and so on up to the message that ends the session, unless a reply in
\* this session could not be matched.
RepliesInOrder ==
    (InLoop /\ unread = {}) =>
        \A i \in DOMAIN Upcoming :
            (\A j \in DOMAIN Arriving : j <= i => Arriving[j].verdict # "closed")
              => i <= Len(waiting_resp_q) /\ Upcoming[i] = waiting_resp_q[i]

\* A session that has reached the loop ends up with every subscription: each is to
\* be sent, waits, or has been decided by the exchange in this very session,
\* unless a reply could not be matched.
SubscriptionsRestored ==
    (InLoop /\ unread = {}) =>
        \A s \in Subs : s \in settled \cup Range(outq) \cup Range(waiting_resp_q)

\* Every order is answered in the end, unless its reply came on the session that
\* is current for ever and could not be parsed: there is no time-out per request.
OrderAnswered ==
    \A r \in Orders : r \in submitted ~> (answers[r] # << >> \/ []<>(r \in unread))

\* A demand to log in again is followed: the session it came on is given up.
ReloginFollowed ==
    \A n \in 1..(MaxFaults + 1) : (sid = n /\ Close \in Range(outq)) ~> sid > n

\* A session is given up only for a reason of its own: the thread does not connect
\* more often than something failed, whatever a session leaves behind in the queues.
NoReconnectStorm == sid <= faults + 1

\* What callers see of the channel.
Service == INSTANCE OrderService WITH
    status <- [r \in Orders |-> IF r \notin submitted THEN "unsent"
                               ELSE IF answers[r] = << >> THEN "pending" ELSE answers[r][1]],
    done <- [r \in Orders |-> executed[r] # << >>]
ImplementsService == Service!Spec
==============================================================================
