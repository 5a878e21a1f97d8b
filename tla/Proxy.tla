-------------------------------- MODULE Proxy --------------------------------
(***************************************************************************)
(* A session's way through a SOCKS proxy (WSSession and HttpSession, start *)
(* to on_socks_proxy_handshake): the proxy's URL is parsed, its scheme     *)
(* decides the version, its host is resolved and connected to, and the     *)
(* handshake is made with its user and password.                           *)
(***************************************************************************)
EXTENDS Uri, SocksHandshake

CONSTANTS
    Servers,   \* the proxies that may be configured, by their parts
    Texts,     \* and any other texts
    Socks4Scheme, Socks5Scheme   \* "socks4", "socks5"

VARIABLES
    given,     \* the parts socks_server_ was written from, if it was
    stage

proxied == <<given, stage>>
vars == <<parser, handshake, proxied>>

\* A text made of known parts, as a user writes one.
Option(before, text, after) == IF text = << >> THEN << >> ELSE before \o text \o after

Written(u) ==
    u.scheme \o <<":", "/", "/">>
    \o Option(<< >>, u.username \o Option(<<":">>, u.password, << >>), <<"@">>)
    \o (IF u.v6 THEN <<"[">> \o u.host \o <<"]">> ELSE u.host)
    \o Option(<<":">>, u.port, << >>) \o u.path
    \o Option(<<"?">>, u.query, << >>) \o Option(<<"#">>, u.fragment, << >>)

\* A user has no colon, a password a user, a port digits, and a path starts with a
\* slash: other URLs cannot be told from ones with other parts.
WellFormed(u) ==
    /\ \A p \in Part : u[p] \in Seq(STRING)
    /\ u.scheme \notin {<< >>, FileScheme} /\ u.scheme[1] \in Alphas
    /\ ToSet(u.scheme) \subseteq Alphas \cup Digits \cup {"+", "-", "."}
    /\ ToSet(u.username) \subseteq Unreserved \cup SubDelims \cup {"%", " "}
    /\ ToSet(u.password) \subseteq Unreserved \cup SubDelims \cup {"%", " ", ":"}
    /\ u.password # << >> => u.username # << >>
    /\ u.v6 \in BOOLEAN
    /\ ToSet(u.host) \subseteq IF u.v6 THEN HexDigits \cup {":"} ELSE Unreserved \cup SubDelims \cup {"%"}
    /\ u.host # << >> /\ <<u.v6, u.host>> \notin RefusedHosts
    /\ ToSet(u.port) \subseteq Digits
    /\ u.path # << >> => u.path[1] = "/"
    /\ ToSet(u.path) \subseteq Unreserved \cup SubDelims \cup {"%", "/", "&", ":"}
    /\ ToSet(u.query) \cup ToSet(u.fragment) \subseteq HSegment \cup SubDelims \cup {"/", "?"}

ASSUME ServersAreWellFormed == \A u \in Servers : WellFormed(u)
ASSUME SchemesApart == Socks4Scheme # Socks5Scheme
ASSUME ServersAreTexts == Texts \cup {Written(u) : u \in Servers} \subseteq Seq(STRING)

Unknown == [scheme |-> << >>]

Init ==
    /\ \/ \E u \in Servers : given = u /\ StartOn(Written(u))
       \/ \E text \in Texts : given = Unknown /\ StartOn(text)
    /\ HandshakeInit
    /\ stage = "start"

To(s) == stage' = s /\ UNCHANGED given

SocksVersion == CASE Text(parts["scheme"]) = Socks4Scheme -> 4
                  [] Text(parts["scheme"]) = Socks5Scheme -> 5
                  [] OTHER -> 0

-----------------------------------------------------------------------------

\* start(): parse ...
Parses == stage = "start" /\ Parse /\ UNCHANGED <<handshake, proxied>>

\* ... and return without on_fail if that or the scheme is wrong ...
StartRefuses ==
    /\ stage = "start"
    /\ verdict = "malformed" \/ (verdict = "accepted" /\ SocksVersion = 0)
    /\ To("returned") /\ UNCHANGED <<parser, handshake>>

\* ... or look the proxy up.
StartResolves ==
    /\ stage = "start" /\ verdict = "accepted" /\ SocksVersion # 0
    /\ To("resolve") /\ UNCHANGED <<parser, handshake>>

on_socks_proxy_resolve ==
    /\ stage = "resolve"
    /\ To("connect") \/ To("failed")
    /\ UNCHANGED <<parser, handshake>>

\* The views are copied for the handshake.
on_socks_proxy_connect ==
    /\ stage = "connect"
    /\ \/ To("failed") /\ UNCHANGED handshake
       \/ /\ To("handshake")
          /\ version' = SocksVersion
          /\ username' = Text(parts["username"]) /\ password' = Text(parts["password"])
          /\ op' = "start"
          /\ UNCHANGED <<hostname, step, want, error, proxy, asked, wire>>
    /\ UNCHANGED parser

ShakesHands == stage = "handshake" /\ Handshake /\ UNCHANGED <<parser, proxied>>

on_socks_proxy_handshake ==
    /\ stage = "handshake" /\ op = "done"
    /\ To(IF error = "none" THEN "proceeds" ELSE "failed")
    /\ UNCHANGED <<parser, handshake>>

Chain == \/ StartRefuses \/ StartResolves
         \/ on_socks_proxy_resolve \/ on_socks_proxy_connect \/ on_socks_proxy_handshake

Stopped == stage \in {"returned", "failed", "proceeds"} /\ UNCHANGED vars

Next == Parses \/ Chain \/ ShakesHands \/ Stopped

\* The io_context runs what is ready, and a timer goes off in the end.
Fairness ==
    /\ WF_vars(Parses) /\ WF_vars(Chain)
    /\ WF_vars(stage = "handshake" /\ Operator /\ UNCHANGED <<parser, proxied>>)
    /\ WF_vars(stage = "handshake" /\ Expires /\ UNCHANGED <<parser, proxied>>)

Spec == Init /\ [][Next]_vars /\ Fairness

-----------------------------------------------------------------------------
(* Properties *)

\* A URL written from its parts is accepted and taken apart into the same parts:
\* whether "a:b" is a user with a password or a host with a port is known only
\* when an at-sign or a delimiter is reached (uri.ipp, probe_userinfo_hostname).
RoundTrip ==
    given # Unknown /\ verdict # "parsing" =>
        verdict = "accepted" /\ \A p \in Part : Text(parts[p]) = given[p]

\* A handshake that succeeds was made as the URL says, by the version of its scheme
\* and through a proxy that let the client in and granted a connection.  By SOCKS 4,
\* or if user and password have less than 256 bytes, the proxy was also told the
\* user and the password as they are, if it wanted any, and the session's host:
\* SOCKS 5 has one byte for a length, and the code does not refuse longer ones.
ActsAsConfigured ==
    Succeeded =>
        /\ granted
        /\ version = 5 => admitted
        /\ given # Unknown => version = (IF given.scheme = Socks4Scheme THEN 4 ELSE 5)
        /\ version = 4 \/ CredentialsFit =>
             /\ asked.target = hostname
             /\ given # Unknown =>
                  /\ version = 4 => asked.user = given.username
                  /\ version = 5 /\ asked.user # Untold => /\ asked.user = given.username
                                                          /\ asked.password = given.password

\* The reads of the handshake have no timer of their own; the one set when the
\* proxy was resolved ends a handshake with a proxy that does not answer.
HandshakeEnds == stage = "handshake" ~> stage \in {"failed", "proceeds"}
==============================================================================
