------------------------------- MODULE Session -------------------------------
(***************************************************************************)
(* How a session connects and how its user waits for it: the handlers of   *)
(* WSSession (utils/ws_session.cpp) and HttpSession (utils/                *)
(* http_session.cpp), which run one after the other on the I/O thread, and *)
(* waitUtilConnected on the user's thread.  The way through a proxy is in  *)
(* Proxy; here its steps succeed or fail.                                  *)
(*                                                                         *)
(* A handler's end is atomic, because on_fail and the last handler change  *)
(* ec_ or connected_ and notify under mutex_, and so is the start of the   *)
(* wait, which gives the mutex up only to sleep.                           *)
(***************************************************************************)
EXTENDS Naturals

VARIABLES
    kind,        \* "ws" or "http"
    socks,       \* socks_server_: "none", "good", or "bad" if start() refuses it
    stage,       \* the handler that runs next
    ec_, connected_,
    caller,      \* the user's thread
    early,       \* was the session connected before the wait began?
    result       \* what waitUtilConnected returned

settings == <<kind, socks>>
verdict == <<ec_, connected_>>
chain == <<stage, verdict>>
wait == <<caller, early, result>>
session == <<settings, chain, wait>>

\* A session just constructed; its user holds the first reference.
Fresh(k, proxy) ==
    /\ kind' = k /\ socks' = proxy
    /\ stage' = "new" /\ ec_' = FALSE /\ connected_' = FALSE
    /\ caller' = "calling" /\ early' = FALSE /\ result' = FALSE

-----------------------------------------------------------------------------
(* The handlers *)

Notify == caller' = IF caller = "waiting" THEN "notified" ELSE caller

Goes(next) == stage' = next /\ UNCHANGED <<verdict, caller>>

on_fail == stage' = "failed" /\ ec_' = TRUE /\ Notify /\ UNCHANGED connected_

Connects == stage' = "connected" /\ connected_' = TRUE /\ Notify /\ UNCHANGED ec_

Handler(s) == stage = s /\ UNCHANGED <<settings, early, result>>

\* start() says nothing if the proxy's URL cannot be used.
start ==
    /\ Handler("new")
    /\ Goes(CASE socks = "none" -> "resolve" [] socks = "good" -> "proxy_resolve" [] socks = "bad" -> "ended")

OnResolve == Handler("resolve") /\ (on_fail \/ Goes("connect"))

OnProxyResolve == Handler("proxy_resolve") /\ (on_fail \/ Goes("proxy_connect"))

OnProxyConnect == Handler("proxy_connect") /\ (on_fail \/ Goes("proxy_handshake"))

\* The host name is set for the handshake; if that fails, WSSession fails and
\* HttpSession says nothing.
SetHostName ==
    \/ Goes("ssl_handshake")
    \/ kind = "ws" /\ on_fail
    \/ kind = "http" /\ Goes("ended")

OnProxyHandshake == Handler("proxy_handshake") /\ (on_fail \/ SetHostName)

OnConnect == Handler("connect") /\ (on_fail \/ SetHostName)

\* HttpSession is connected now, WSSession has its own handshake to make.
OnSslHandshake ==
    /\ Handler("ssl_handshake")
    /\ \/ on_fail
       \/ kind = "http" /\ Connects
       \/ kind = "ws" /\ Goes("handshake")

OnHandshake == Handler("handshake") /\ (on_fail \/ Connects)

Handlers == \/ OnResolve \/ OnProxyResolve \/ OnProxyConnect \/ OnProxyHandshake
            \/ OnConnect \/ OnSslHandshake \/ OnHandshake

-----------------------------------------------------------------------------
(* waitUtilConnected *)

Returns(value) == caller' = "returned" /\ result' = value /\ UNCHANGED <<settings, chain, early>>

Sleeps == /\ caller' = "waiting" /\ early' = connected_
          /\ UNCHANGED <<settings, chain, result>>

\* Fault: ec_ is not looked at.
WaitAnyway == caller = "calling" /\ stage # "new" /\ Sleeps

WaitUtilConnected ==
    /\ caller = "calling" /\ stage # "new"
    /\ \/ ec_ /\ Returns(FALSE)
       \/ ~ec_ /\ Sleeps

\* There is no predicate: whatever ends the wait, connected_ is the answer.
Notified == caller = "notified" /\ Returns(connected_)

\* Fault: the wait is not bounded.
TimesOutNever == caller = "waiting" /\ FALSE /\ Returns(connected_)

TimesOut == caller = "waiting" /\ Returns(connected_)

SpuriousWakeup == caller = "waiting" /\ Returns(connected_)

Waits == WaitUtilConnected \/ Notified \/ TimesOut

-----------------------------------------------------------------------------
(* Properties *)

\* A caller sleeps beside a verdict only if the session had connected before it
\* began to wait: that success is not looked at, a failure is (ws_session.cpp:183).
SleepsOnlyIfLate == caller = "waiting" /\ (ec_ \/ connected_) => early
==============================================================================
