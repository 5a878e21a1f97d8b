------------------------------- MODULE RestApi -------------------------------
(***************************************************************************)
(* RestApi (okex/rest_api.cpp): each request opens an HttpSession of its   *)
(* own (Session) and reads one reply.  The calls are made one after the    *)
(* other by one thread; the exchange (external) executes or refuses a      *)
(* request, and its reply may be lost or unreadable.  A WSSession is       *)
(* opened the same way by Channel::run; its call ends with the wait.       *)
(***************************************************************************)
EXTENDS Session, Sequences, FiniteSets, FiniteSetsExt

CONSTANTS
    MaxCalls,   \* bound: calls made
    MaxTime,    \* bound: the time of the last candle, of 1, 2, ...
    PageSize    \* candles in a reply

ASSUME PagesHold == PageSize \in Nat \ {0} /\ MaxTime \in Nat

VARIABLES
    pc, op,      \* the call under way
    ok,          \* what the last call returned
    calls,
    executed,    \* was the request executed?
    reply, page, \* the reply, and the candles in it, in its order
    after_time, out,
    candles,     \* the last time for which the exchange has a candle
    first        \* candles when the first page was made

call == <<pc, op, ok, calls>>
history == <<after_time, out>>
exchange == <<executed, reply, page, candles, first>>
vars == <<session, call, history, exchange>>

Commands == {"setLeverage", "closePosition"}
HttpOps == Commands \cup {"checkOrderFilled", "candles"}

Init ==
    /\ kind = "http" /\ socks = "none" /\ stage = "ended" /\ ec_ = FALSE /\ connected_ = FALSE
    /\ caller = "returned" /\ early = FALSE /\ result = FALSE
    /\ pc = "idle" /\ op = "none" /\ ok = FALSE /\ calls = 0
    /\ executed = FALSE /\ reply = "none" /\ page = << >>
    /\ after_time = 0 /\ out = << >>
    /\ candles \in 0..MaxTime /\ first = 0

-----------------------------------------------------------------------------

Call(o) ==
    /\ pc = "idle" /\ calls < MaxCalls
    /\ pc' = "request" /\ op' = o /\ calls' = calls + 1
    /\ after_time' = 0 /\ out' = << >> /\ executed' = FALSE
    /\ UNCHANGED <<session, ok, reply, page, candles, first>>

\* The call returns.
Answers(value) == pc' = "idle" /\ ok' = value /\ UNCHANGED <<op, calls>>

\* sendCmd, up to the wait.
SendCmd ==
    /\ pc = "request" /\ pc' = "connect"
    /\ \E proxy \in {"none", "good", "bad"} : Fresh(IF op = "open" THEN "ws" ELSE "http", proxy)
    /\ UNCHANGED <<op, ok, calls, history, exchange>>

Connecting == /\ pc = "connect"
              /\ start \/ Handlers \/ Waits
              /\ UNCHANGED <<call, history, exchange>>

WakesSpuriously == pc = "connect" /\ SpuriousWakeup /\ UNCHANGED <<call, history, exchange>>

Opened ==
    /\ pc = "connect" /\ caller = "returned" /\ op = "open"
    /\ Answers(result)
    /\ UNCHANGED <<session, history, exchange>>

NotConnected ==
    /\ pc = "connect" /\ caller = "returned" /\ op # "open" /\ ~result
    /\ Answers(FALSE)
    /\ UNCHANGED <<session, history, exchange>>

\* Writing the request, which throws on a broken connection ...
Write ==
    /\ pc = "connect" /\ caller = "returned" /\ op # "open" /\ result
    /\ \/ pc' = "sent" /\ UNCHANGED <<op, ok, calls>>
       \/ Answers(FALSE)
    /\ UNCHANGED <<session, history, exchange>>

\* ... and reading the reply, which returns false on one.
Read ==
    /\ pc = "answered"
    /\ \/ pc' = "handle" /\ UNCHANGED <<op, ok, calls>>
       \/ Answers(FALSE)
    /\ UNCHANGED <<session, history, exchange>>

\* Status 200, a body that can be parsed, and a code, if there is one, that is 0.
Readable == reply \notin {"http error", "garbage"}

\* Fault: the code is not looked at.
AcceptedUnseen == Readable

Accepted == Readable /\ reply # "refused"

HandleCommand ==
    /\ pc = "handle" /\ op \in Commands
    /\ Answers(Accepted)
    /\ UNCHANGED <<session, history, exchange>>

\* checkOrderFilled reads the data only, which a refusal has too; and what it
\* calls, updateOrderStatus, changes nothing.
HandleFills ==
    /\ pc = "handle" /\ op = "checkOrderFilled"
    /\ Answers(Readable)
    /\ UNCHANGED <<session, history, exchange>>

\* Fault: the last candle is taken for the oldest.
OldestIsLast == page[Len(page)]

\* The least time of the page and of those before.
Oldest == LET times == {page[i] : i \in DOMAIN page}
          IN Min(IF after_time = 0 THEN times ELSE times \cup {after_time})

\* One turn of the loop of getMarkPriceHistoryCandles.
HandlePage ==
    /\ pc = "handle" /\ op = "candles"
    /\ \/ ~Accepted /\ Answers(FALSE) /\ UNCHANGED history
       \/ Accepted /\ page = << >> /\ Answers(TRUE) /\ UNCHANGED history
       \/ /\ Accepted /\ page # << >>
          /\ after_time' = Oldest /\ out' = out \o page
          /\ pc' = "request" /\ UNCHANGED <<op, ok, calls>>
    /\ UNCHANGED <<session, exchange>>

-----------------------------------------------------------------------------
(* The exchange *)

\* The candles asked for.
Asked == IF after_time = 0 THEN 1..candles ELSE 1..(after_time - 1)

Newest(times) == {t \in times : Cardinality({u \in times : u > t}) < PageSize}

Orders(times) == {s \in [1..Cardinality(times) -> times] : \A t \in times : \E i \in DOMAIN s : s[i] = t}

Executes ==
    /\ pc = "sent" /\ pc' = "answered"
    /\ \E r \in {"http error", "garbage", "refused", "done", "done, without a code"} :
         /\ reply' = r
         /\ executed' \in CASE r = "refused" -> {FALSE}
                            [] r \in {"http error", "garbage"} -> BOOLEAN
                            [] OTHER -> {TRUE}
         /\ page' \in IF op = "candles" /\ r \in {"done", "done, without a code"}
                      THEN Orders(Newest(Asked)) ELSE {<< >>}
    /\ first' = IF op = "candles" /\ after_time = 0 THEN candles ELSE first
    /\ UNCHANGED <<session, op, ok, calls, history, candles>>

\* Time goes on.
Grows ==
    /\ candles < MaxTime /\ candles' = candles + 1
    /\ UNCHANGED <<session, call, history, executed, reply, page, first>>

-----------------------------------------------------------------------------

Step == \/ SendCmd \/ Connecting \/ Opened \/ NotConnected \/ Write \/ Executes \/ Read
        \/ HandleCommand \/ HandleFills \/ HandlePage

Stopped == pc = "idle" /\ calls = MaxCalls /\ UNCHANGED vars

Next == (\E o \in HttpOps \cup {"open"} : Call(o)) \/ Step \/ WakesSpuriously \/ Grows \/ Stopped

\* Both threads run, the wait has an end, and the exchange answers or the
\* connection breaks.
Spec == Init /\ [][Next]_vars /\ WF_vars(Step)

-----------------------------------------------------------------------------
(* Properties *)

\* True means done: setLeverage and closePosition return true only if the exchange
\* executed the request of this very call.
TrueMeansDone == pc = "idle" /\ op \in Commands /\ ok => executed

\* A history that was returned with true holds every candle there was at the first
\* page and no other, each of them once, whatever the order within the pages, the
\* number of pages, and the candles that were added meanwhile.
PagesComplete ==
    pc = "idle" /\ op = "candles" /\ ok =>
        /\ Len(out) = first
        /\ {out[i] : i \in DOMAIN out} = 1..first

\* Every call returns, also one over a session that never says what became of it,
\* and the paging comes to an end while the exchange goes on adding candles.
CallsReturn == pc # "idle" ~> pc = "idle"
==============================================================================
