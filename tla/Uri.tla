--------------------------------- MODULE Uri ---------------------------------
(***************************************************************************)
(* socks::uri::parse (utils/socks/impl/uri.ipp): one pass over the text, a *)
(* state machine with one action per case of the switch and one step per   *)
(* character.  Pointers into the text are offsets, 0 before the first      *)
(* character; a string_view is a pair of them.                             *)
(***************************************************************************)
EXTENDS Integers, Sequences, SequencesExt

CONSTANTS
    Alphas, Digits,   \* isalpha, isdigit
    RefusedHosts      \* <<TRUE, text>> if is_ipv6_host refuses text, <<FALSE, text>> if
                      \* is_ipv4_host does

ASSUME ClassesApart == (Alphas \cup Digits) \cap {":", "@", "/", "?", "#", "[", "]"} = {}

\* ishexdigit takes every letter.
HexDigits == Alphas \cup Digits

Unreserved == Alphas \cup Digits \cup {"-", ".", "_", "~"}
SubDelims == {"!", "$", "'", "(", ")", "*", "+", ",", "="}
HSegment == Unreserved \cup {";", "?", "&", "=", ":", "@"}

Null == -1
Empty == <<0, 0>>
Part == {"scheme", "username", "password", "host", "port", "path", "query", "fragment"}
FileScheme == <<"f">>   \* stands for "file"

VARIABLES
    url,
    state, verdict,
    b,                    \* characters read
    part_start,
    v6_start, v6_end, is_ipv6,
    has_port, port_vaild,
    probe,                \* what comes before the first colon: user or host
    parts                 \* scheme_, username_ ... fragment_

v6 == <<v6_start, v6_end, is_ipv6>>
ports == <<has_port, port_vaild, probe>>
parser == <<url, state, verdict, b, part_start, v6, ports, parts>>

StartOn(text) ==
    /\ url = text
    /\ state = "scheme_start" /\ verdict = "parsing"
    /\ b = 0 /\ part_start = 0
    /\ v6_start = Null /\ v6_end = Null /\ is_ipv6 = FALSE
    /\ has_port = FALSE /\ port_vaild = FALSE /\ probe = Empty
    /\ parts = [p \in Part |-> Empty]

-----------------------------------------------------------------------------
(* The character read and what can be done with it *)

c == url[b + 1]
After == b + 1
AtEnd == After = Len(url)
Peek(ch) == After < Len(url) /\ url[After + 1] = ch

IsEmpty(view) == view[1] = view[2]
Text(view) == SubSeq(url, view[1] + 1, view[2])
With(p, view) == [parts EXCEPT ![p] = view]

\* check_host: what the host may not be.
HostOk(is6, host) ==
    LET text == Text(host)
    IN /\ text # << >>
       /\ is6 => ToSet(text) \subseteq HexDigits \cup {":"}
       /\ <<is6, text>> \notin RefusedHosts

Reads == verdict = "parsing" /\ b < Len(url)
In(s) == Reads /\ state = s

Malformed == verdict' = "malformed" /\ UNCHANGED <<url, state, b, part_start, v6, ports, parts>>
Accept == verdict' = "accepted" /\ b' = After /\ UNCHANGED <<url, state, part_start, v6, ports>>
Stay == b' = After /\ UNCHANGED <<url, state, verdict, part_start, v6, ports, parts>>

\* On to state s; its part starts at from.
GoTo(s, from, next) ==
    /\ state' = s /\ part_start' = from /\ b' = next
    /\ UNCHANGED <<url, verdict, v6, ports>>

\* The delimiter c ends a part.  A slash is read again, as part of the path.
Delimited == \/ c = "/" /\ GoTo("path", b, b)
             \/ c \in {"?", "#"} /\ AtEnd /\ Accept
             \/ c = "?" /\ ~AtEnd /\ GoTo("query", After, After)
             \/ c = "#" /\ ~AtEnd /\ GoTo("fragment", After, After)

-----------------------------------------------------------------------------

SchemeStart ==
    /\ In("scheme_start")
    /\ \/ c \in Alphas /\ GoTo("scheme", part_start, After) /\ UNCHANGED parts
       \/ c \notin Alphas /\ Malformed

Scheme ==
    /\ In("scheme")
    /\ \/ c \in Alphas \cup Digits \cup {"+", "-", "."} /\ Stay
       \/ c = ":" /\ parts' = With("scheme", <<part_start, b>>) /\ GoTo("slash_start", part_start, After)
       \/ c \notin Alphas \cup Digits \cup {"+", "-", ".", ":"} /\ Malformed

SlashStart ==
    /\ In("slash_start")
    /\ \/ c = "/" /\ GoTo("slash", part_start, After) /\ UNCHANGED parts
       \/ c # "/" /\ GoTo("urn", b, b) /\ UNCHANGED parts

Urn ==
    /\ In("urn")
    /\ \/ AtEnd /\ Accept /\ parts' = With("path", <<part_start, After>>)
       \/ ~AtEnd /\ c = "?" /\ parts' = With("path", <<part_start, b>>) /\ GoTo("query", After, After)
       \/ ~AtEnd /\ c # "?" /\ Stay

Slash ==
    /\ In("slash")
    /\ \/ c # "/" /\ Malformed
       \/ /\ c = "/"
          /\ GoTo(IF Text(parts["scheme"]) = FileScheme /\ Peek("/") THEN "path" ELSE "probe", After, After)
          /\ UNCHANGED parts

-----------------------------------------------------------------------------
(* probe_userinfo_hostname: user or host, that turns out at an @ or a      *)
(* delimiter                                                               *)

\* The at-sign: what was read is the user, and the password if there was a colon.
ProbeUser ==
    /\ In("probe") /\ c = "@"
    /\ parts' = IF IsEmpty(probe) THEN With("username", <<part_start, b>>)
                ELSE [parts EXCEPT !["username"] = probe, !["password"] = <<probe[2] + 1, b>>]
    /\ v6_start' = Null /\ v6_end' = Null /\ is_ipv6' = FALSE
    /\ state' = "host" /\ part_start' = After /\ b' = After
    /\ UNCHANGED <<url, verdict, ports>>

\* A colon: "host:" at the end is a host; the first one may precede a port.
ProbeColon ==
    /\ In("probe") /\ c = ":"
    /\ \/ /\ AtEnd
          /\ \/ HostOk(is_ipv6, <<part_start, b>>) /\ Accept /\ parts' = With("host", <<part_start, b>>)
             \/ ~HostOk(is_ipv6, <<part_start, b>>) /\ Malformed
       \/ /\ ~AtEnd
          /\ IF IsEmpty(probe) THEN probe' = <<part_start, b>> /\ port_vaild' = TRUE /\ has_port' = TRUE
                               ELSE port_vaild' = FALSE /\ UNCHANGED <<probe, has_port>>
          /\ b' = After
          /\ UNCHANGED <<url, state, verdict, part_start, v6, parts>>

\* The locals after c: a bracket opens or closes an address, or spoils it.
Opens == c = "[" /\ v6_start = Null
Closes == c = "]" /\ is_ipv6 /\ v6_end = Null
V6Start == IF Opens THEN After ELSE v6_start
V6End == IF Closes THEN b ELSE v6_end
IsV6 == Opens \/ Closes \/ (is_ipv6 /\ c \notin {"[", "]"})
Probe == IF Closes THEN Empty ELSE probe

\* The text up to end holds host and port: parts, or none if it does not fit.
HasPort == IF IsV6 THEN ~IsEmpty(Probe) ELSE has_port

ProbedHost(end) == IF IsV6 THEN <<V6Start, V6End>> ELSE IF has_port THEN probe ELSE <<part_start, end>>

ProbeFits(end, valid) ==
    /\ IF IsV6 THEN Null \notin {V6Start, V6End} /\ V6Start # V6End ELSE V6Start = Null /\ V6End = Null
    /\ HasPort => valid
    /\ HostOk(IsV6, ProbedHost(end))

\* Fault: the port starts a character late.
ProbedPartsPastColon(end) == [parts EXCEPT !["host"] = ProbedHost(end),
                                           !["port"] = IF HasPort THEN <<Probe[2] + 2, end>> ELSE @]

\* Fault: the colon is taken for a part of the port.
ProbedPartsWithColon(end) == [parts EXCEPT !["host"] = ProbedHost(end),
                                           !["port"] = IF HasPort THEN <<Probe[2], end>> ELSE @]

ProbedParts(end) == [parts EXCEPT !["host"] = ProbedHost(end),
                                  !["port"] = IF HasPort THEN <<Probe[2] + 1, end>> ELSE @]

ProbeDelimiter ==
    /\ In("probe") /\ c \in {"/", "?", "#"}
    /\ \/ ProbeFits(b, port_vaild) /\ parts' = ProbedParts(b) /\ Delimited
       \/ ~ProbeFits(b, port_vaild) /\ Malformed

\* Any other character, the last one ...
ProbeLast ==
    /\ In("probe") /\ c \notin {"@", ":", "/", "?", "#"} /\ AtEnd
    /\ LET valid == port_vaild /\ c \in Digits
       IN \/ ProbeFits(After, valid) /\ parts' = ProbedParts(After) /\ Accept
          \/ ~ProbeFits(After, valid) /\ Malformed

\* ... or one in between.
ProbeOther ==
    /\ In("probe") /\ c \notin {"@", ":", "/", "?", "#"} /\ ~AtEnd
    /\ \/ c \notin Unreserved \cup SubDelims \cup {"%", " ", "[", "]"} /\ Malformed
       \/ /\ c \in Unreserved \cup SubDelims \cup {"%", " ", "[", "]"}
          /\ v6_start' = V6Start /\ v6_end' = V6End /\ is_ipv6' = IsV6 /\ probe' = Probe
          /\ port_vaild' = (port_vaild /\ c \in Digits)
          /\ b' = After
          /\ UNCHANGED <<url, state, verdict, part_start, has_port, parts>>

-----------------------------------------------------------------------------
(* host: after a user *)

HostOpens ==
    /\ In("host") /\ c = "["
    /\ \/ v6_start # Null /\ Malformed
       \/ /\ v6_start = Null
          /\ is_ipv6' = TRUE /\ v6_start' = After /\ b' = After
          /\ UNCHANGED <<url, state, verdict, part_start, v6_end, ports, parts>>

\* The end of an address; v6_end is not read after it.
HostCloses ==
    /\ In("host") /\ is_ipv6 /\ c = "]"
    /\ LET host == <<v6_start, b>>
       IN \/ /\ HostOk(TRUE, host)
             /\ \/ AtEnd /\ Accept
                \/ Peek(":") /\ GoTo("port", After + 1, After + 1)
                \/ Peek("/") /\ GoTo("path", After, After)
                \/ Peek("?") /\ GoTo("query", After + 1, After + 1)
                \/ Peek("#") /\ GoTo("fragment", After + 1, After + 1)
             /\ parts' = With("host", host)
          \/ /\ HostOk(TRUE, host) => ~AtEnd /\ \A d \in {":", "/", "?", "#"} : ~Peek(d)
             /\ Malformed

HostDelimiter ==
    /\ In("host")
    /\ c \in {"/", "?", "#"} \/ (c = ":" /\ ~is_ipv6)
    /\ LET host == <<part_start, b>>
       IN \/ /\ HostOk(is_ipv6, host) /\ (c = "/" => ~is_ipv6)
             /\ parts' = With("host", host)
             /\ Delimited \/ (c = ":" /\ GoTo("port", After, After))
          \/ ~(HostOk(is_ipv6, host) /\ (c = "/" => ~is_ipv6)) /\ Malformed

HostOther ==
    /\ In("host")
    /\ c \notin {"[", "/", "?", "#"} /\ (is_ipv6 => c # "]") /\ (c = ":" => is_ipv6)
    /\ LET host == <<part_start, After>>
           allowed == c \in Unreserved \cup SubDelims \cup {"%", ":", "@"}
       IN \/ AtEnd /\ HostOk(is_ipv6, host) /\ Accept /\ parts' = With("host", host)
          \/ ~AtEnd /\ allowed /\ Stay
          \/ IF AtEnd THEN ~HostOk(is_ipv6, host) /\ Malformed ELSE ~allowed /\ Malformed

-----------------------------------------------------------------------------
(* The parts after the host: the last character is not looked at *)

\* Part p, in the state of its name: its delimiters end it, and so does the end.
Reading(p, delimiters, allowed) ==
    /\ In(p)
    /\ \/ c \in delimiters /\ parts' = With(p, <<part_start, b>>) /\ Delimited
       \/ c \notin delimiters /\ AtEnd /\ parts' = With(p, <<part_start, After>>) /\ Accept
       \/ c \in allowed \ delimiters /\ ~AtEnd /\ Stay
       \/ c \notin allowed \cup delimiters /\ ~AtEnd /\ Malformed

Port == Reading("port", {"/", "?", "#"}, Digits)
Path == Reading("path", {"?", "#"}, Unreserved \cup SubDelims \cup {"%", "/", "&", ":"})
Query == Reading("query", {"#"}, HSegment \cup SubDelims \cup {"/", "?"})
Fragment == Reading("fragment", {}, HSegment \cup SubDelims \cup {"/", "?"})

\* The loop is over and nothing has been returned.
RunOut == verdict = "parsing" /\ b >= Len(url) /\ Malformed

Parse == \/ SchemeStart \/ Scheme \/ SlashStart \/ Urn \/ Slash
         \/ ProbeUser \/ ProbeColon \/ ProbeDelimiter \/ ProbeLast \/ ProbeOther
         \/ HostOpens \/ HostCloses \/ HostDelimiter \/ HostOther
         \/ Port \/ Path \/ Query \/ Fragment
         \/ RunOut

-----------------------------------------------------------------------------
(* Properties *)

\* A view handed out lies in the text, whatever the text is: no part reaches
\* beyond its ends and none has its end before its start.
ViewsInside ==
    \A p \in Part : 0 <= parts[p][1] /\ parts[p][1] <= parts[p][2] /\ parts[p][2] <= Len(url)
==============================================================================
