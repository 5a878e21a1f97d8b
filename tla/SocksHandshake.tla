---------------------------- MODULE SocksHandshake ----------------------------
(***************************************************************************)
(* socks4_op and socks5_op (utils/socks/impl/handshake.hpp): the handshake *)
(* with a SOCKS proxy in the client role.  operator() is run when the read *)
(* or write started by the last run is complete; there is one action per   *)
(* case of its switch.  Bytes are counted, and of a reply only the fields  *)
(* are kept that the code looks at.                                        *)
(*                                                                         *)
(* The proxy (external) may answer anything, or nothing.  After it granted *)
(* the connection, bytes of the tunnel may follow its reply.               *)
(***************************************************************************)
EXTENDS Integers, Sequences

CONSTANTS
    DomainLengths,  \* of the bound address in a reply, when it is a name
    MaxTunnel       \* bound: bytes of the tunnel before the handshake is over

ASSUME LengthsAreBytes == DomainLengths \subseteq 0..255
ASSUME MaxTunnelNat == MaxTunnel \in Nat

VARIABLES
    version, hostname,    \* the arguments; use_hostname is always true, and
    username, password,   \* hostname is a name or an IPv4 address
    step,
    op,        \* the operation under way, "write" or "read", and how many bytes it
    want,      \* has still to read
    error,     \* ec
    peer,      \* what the proxy has to answer
    asked,     \* the credentials and the target it read out of the messages
    admitted,  \* has it let the client in, and
    granted,   \* granted the connection?
    reply,     \* the fields of its last reply
    unread,    \* bytes of it on the wire, followed by
    tunnel,    \* the bytes of the tunnel that have come,
    swallowed  \* and those the handshake has read

arguments == <<version, hostname, username, password>>
client == <<step, op, want, error>>
proxy == <<peer, admitted, granted, reply>>
wire == <<unread, tunnel, swallowed>>
handshake == <<arguments, client, proxy, asked, wire>>

NoUser == << >>    \* the empty username_
NoReply == [kind |-> "none"]
Untold == <<"untold">>
Nothing == [user |-> Untold, password |-> Untold, target |-> "none"]

\* transfer_exactly of a negative number, as size_t: never.
Never == -1

Bad == 99    \* any byte with no meaning

HandshakeInit ==
    /\ version = 0 /\ hostname \in {"name", "ipv4"}
    /\ username = NoUser /\ password = NoUser
    /\ step = 0 /\ op = "idle" /\ want = 0 /\ error = "none"
    /\ peer = "silent" /\ asked = Nothing /\ admitted = FALSE /\ granted = FALSE
    /\ reply = NoReply
    /\ unread = 0 /\ tunnel = 0 /\ swallowed = 0

-----------------------------------------------------------------------------
(* Completing an operation and starting the next *)

\* Is what was started complete, so that operator() runs?
Complete == op = "write" \/ (op = "read" /\ want # Never /\ unread + tunnel >= want)

Missing == IF want > unread THEN want - unread ELSE 0

\* The bytes of a complete read leave the wire.
Received == IF op = "read"
            THEN /\ unread' = (IF want > unread THEN 0 ELSE unread - want)
                 /\ tunnel' = tunnel - Missing /\ swallowed' = swallowed + Missing
            ELSE UNCHANGED wire

Runs(s) == step = s /\ Complete /\ Received

Read(s, n) ==
    /\ step' = s /\ op' = "read" /\ want' = n
    /\ UNCHANGED <<arguments, error, proxy, asked>>

\* A message for the proxy, that it will answer as the given kind.
Write(s, kind, what) ==
    /\ step' = s /\ op' = "write" /\ want' = 0
    /\ peer' = kind /\ asked' = what
    /\ UNCHANGED <<arguments, error, admitted, granted, reply>>

Done(ec) ==
    /\ op' = "done" /\ error' = ec /\ want' = 0
    /\ UNCHANGED <<arguments, step, proxy, asked>>

-----------------------------------------------------------------------------
(* socks4_op *)

V4Request ==
    /\ version = 4 /\ op = "start" /\ UNCHANGED wire
    /\ \/ hostname # "ipv4" /\ Done("not an address")
       \/ hostname = "ipv4" /\ Write(1, "connect4", [Nothing EXCEPT !.user = username, !.target = hostname])

V4Sent == version = 4 /\ Runs(1) /\ Read(2, 8)

V4Reply ==
    /\ version = 4 /\ Runs(2)
    /\ Done(IF reply.cd = 90 THEN "none" ELSE "rejected")

-----------------------------------------------------------------------------
(* socks5_op *)

V5Methods ==
    /\ version = 5 /\ op = "start" /\ UNCHANGED wire
    /\ Write(1, "methods", asked)

V5MethodsSent == version = 5 /\ Runs(1) /\ Read(2, 2)

\* Case 5: the request, which the cases 2 and 4 go on to, and what is read of it.
Request(target) == Write(6, "connect", [asked EXCEPT !.target = target])

\* A text goes out whole behind a byte for its length, the last 8 bits of which are
\* left.  The proxy reads as much of the text as that byte says.
FitsByte(text) == Len(text) < 256
Cut(text) == SubSeq(text, 1, Len(text) % 256)

CredentialsFit == FitsByte(username) /\ FitsByte(password)

\* Behind a user that was cut it takes a piece of the message for the password, and
\* bytes left over of either for the beginning of the request.
ToldUser == Cut(username)
ToldPassword == IF FitsByte(username) THEN Cut(password) ELSE <<"misread">>
ToldTarget == IF CredentialsFit THEN hostname ELSE "misread"

V5Method ==
    /\ version = 5 /\ Runs(2)
    /\ \/ reply.ver # 5 /\ Done("unsupported version")
       \/ reply.ver = 5 /\ reply.method = 2 /\ username = NoUser /\ Done("username required")
       \/ /\ reply.ver = 5 /\ reply.method = 2 /\ username # NoUser
          /\ Write(3, "auth", [asked EXCEPT !.user = ToldUser, !.password = ToldPassword])
       \/ reply.ver = 5 /\ reply.method = 0 /\ Request(hostname)
       \/ reply.ver = 5 /\ reply.method \notin {0, 2} /\ Done("unsupported authentication")

V5AuthSent == version = 5 /\ Runs(3) /\ Read(4, 2)

V5AuthStatus ==
    /\ version = 5 /\ Runs(4)
    /\ \/ reply.ver # 1 /\ Done("unsupported authentication")
       \/ reply.ver = 1 /\ reply.status # 0 /\ Done("authentication error")
       \/ reply.ver = 1 /\ reply.status = 0 /\ Request(ToldTarget)

V5RequestSent == version = 5 /\ Runs(6) /\ Read(7, 10)

\* Fault: the code of the reply is skipped, as in case 7.
FinishBlindly == Done("none")

\* Case 8: the whole reply is there.
Finish == Done(IF reply.rep = 0 THEN "none" ELSE "refused")

\* Fault: the length byte itself is not counted.
RestOfOneLess ==
    CASE reply.atyp = "domain" -> IF reply.length >= 4 THEN reply.length - 4 ELSE Never
      [] reply.atyp = "ipv6"   -> 12
      [] OTHER                 -> 0

\* Fault: all 16 bytes of an address are still awaited.
RestOfWholeAddress ==
    CASE reply.atyp = "domain" -> IF reply.length >= 3 THEN reply.length - 3 ELSE Never
      [] reply.atyp = "ipv6"   -> 16
      [] OTHER                 -> 0

\* What follows the first 10 bytes of the reply.
Rest == CASE reply.atyp = "domain" -> IF reply.length >= 3 THEN reply.length - 3 ELSE Never
          [] reply.atyp = "ipv6"   -> 12
          [] OTHER                 -> 0

V5Reply ==
    /\ version = 5 /\ Runs(7)
    /\ \/ reply.ver # 5 /\ Done("unsupported version")
       \/ reply.ver = 5 /\ reply.atyp = "bad" /\ Done("general failure")
       \/ reply.ver = 5 /\ reply.atyp = "ipv4" /\ Finish
       \/ reply.ver = 5 /\ reply.atyp \in {"domain", "ipv6"} /\ Read(8, Rest)

V5Rest == version = 5 /\ Runs(8) /\ Finish

-----------------------------------------------------------------------------
(* What comes from outside *)

\* An operation fails: the connection is lost.
LinkFails ==
    /\ op \in {"write", "read"}
    /\ Done("link") /\ UNCHANGED wire

\* Fault: no timer is set before the connection is made.
ExpiresNever == FALSE /\ Done("expired") /\ UNCHANGED wire

\* The timer of 30 seconds, set before the connection is made, goes off while an
\* answer is awaited.
Expires ==
    /\ op = "read" /\ ~Complete
    /\ Done("expired") /\ UNCHANGED wire

Sends(r, bytes) ==
    /\ reply' = r /\ unread' = unread + bytes
    /\ peer' = "silent"
    /\ UNCHANGED <<arguments, client, asked, tunnel, swallowed>>

AnswerMethods ==
    /\ peer = "methods" /\ op # "done"
    /\ \E ver \in {5, Bad}, method \in {0, 2, 255} :
         /\ Sends([kind |-> "method", ver |-> ver, method |-> method], 2)
         /\ admitted' = (method = 0)
    /\ UNCHANGED granted

AnswerAuth ==
    /\ peer = "auth" /\ op # "done"
    /\ \E ver \in {1, Bad}, status \in {0, 1} :
         /\ Sends([kind |-> "auth", ver |-> ver, status |-> status], 2)
         /\ admitted' = (status = 0)
    /\ UNCHANGED granted

AnswerConnect4 ==
    /\ peer = "connect4" /\ op # "done"
    /\ \E cd \in {90, 91} :
         /\ Sends([kind |-> "reply4", cd |-> cd], 8)
         /\ granted' = (cd = 90)
    /\ UNCHANGED admitted

\* Bytes of an address in a reply.
AddressSize(atyp, length) == CASE atyp = "domain" -> 1 + length [] atyp = "ipv6" -> 16 [] OTHER -> 4

AnswerConnect ==
    /\ peer = "connect" /\ op # "done"
    /\ \E ver \in {5, Bad}, rep \in {0, 5}, atyp \in {"ipv4", "ipv6", "domain", "bad"}, length \in DomainLengths :
         /\ atyp # "domain" => \A l \in DomainLengths : length <= l
         /\ Sends([kind |-> "reply", ver |-> ver, rep |-> rep, atyp |-> atyp, length |-> length],
                  6 + AddressSize(atyp, length))
         /\ granted' = (rep = 0)
    /\ UNCHANGED admitted

\* The far end speaks first.
TunnelByte ==
    /\ granted /\ peer = "silent" /\ op # "done" /\ tunnel + swallowed < MaxTunnel
    /\ tunnel' = tunnel + 1
    /\ UNCHANGED <<arguments, client, proxy, asked, unread, swallowed>>

Operator == \/ V4Request \/ V4Sent \/ V4Reply
            \/ V5Methods \/ V5MethodsSent \/ V5Method \/ V5AuthSent \/ V5AuthStatus
            \/ V5RequestSent \/ V5Reply \/ V5Rest

Peer == \/ AnswerMethods \/ AnswerAuth \/ AnswerConnect4 \/ AnswerConnect \/ TunnelByte

Handshake == Operator \/ LinkFails \/ Expires \/ Peer

-----------------------------------------------------------------------------
(* Properties *)

Succeeded == op = "done" /\ error = "none"

\* What follows on the stream belongs to the tunnel: a handshake that succeeds has
\* read every byte of the proxy's replies and none after them.
TunnelClean == Succeeded => unread = 0 /\ swallowed = 0

\* A connection the proxy granted is lost only with the link, to a proxy that
\* breaks the protocol, or if the bound address is a name of less than 3 bytes.
GrantIsTaken ==
    granted /\ op = "done" =>
        \/ error \in {"none", "link"}
        \/ reply.kind = "reply" /\ (reply.ver # 5 \/ reply.atyp = "bad")
        \/ reply.kind = "reply" /\ reply.atyp = "domain" /\ reply.length < 3
==============================================================================
