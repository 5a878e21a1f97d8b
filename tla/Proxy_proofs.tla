----------------------------- MODULE Proxy_proofs -----------------------------
(***************************************************************************)
(* Proofs about Proxy, for texts of any length and content, replies with   *)
(* names of any length and any number of bytes of the tunnel: what the     *)
(* parser hands out lies in the text, a URL written from its parts is      *)
(* taken apart into them, the handshake reads the proxy's replies to the   *)
(* byte, and it is the one the URL asks for.                               *)
(***************************************************************************)
EXTENDS Proxy, SequenceTheorems, TLAPS

-----------------------------------------------------------------------------
(* The parser *)

Views == {w \in Nat \X Nat : w[1] <= w[2] /\ w[2] <= Len(url)}

\* Where the pointers are: the first colon has been read when probe is set, and an
\* address is closed only after it was opened.
Pointers ==
    /\ url \in Seq(STRING)
    /\ b \in Nat /\ b <= Len(url)
    /\ part_start \in Nat /\ part_start <= b
    /\ v6_start \in Nat \cup {Null} /\ v6_start <= b
    /\ v6_end \in Nat \cup {Null} /\ v6_end <= b
    /\ is_ipv6 => v6_start # Null
    /\ v6_end # Null => v6_start # Null /\ v6_start <= v6_end
    /\ probe \in Nat \X Nat /\ probe[1] <= probe[2] /\ probe[2] <= b
    /\ has_port \/ ~IsEmpty(probe) => probe[2] + 1 <= b

ParserInv == Pointers /\ parts \in [Part -> Views]

\* Setting a part to a view of the text.
LEMMA PartSet ==
    ASSUME parts \in [Part -> Views], NEW p \in Part, NEW w \in Views
    PROVE  With(p, w) \in [Part -> Views]
BY DEF With

LEMMA ViewMade ==
    ASSUME NEW from \in Nat, NEW to \in Nat, from <= to, to <= Len(url)
    PROVE  <<from, to>> \in Views
BY DEF Views

\* What is not changed, and the ways an action ends.
LEMMA ViewsStay == ASSUME url' = url PROVE Views' = Views
BY DEF Views

LEMMA PointersStay ==
    ASSUME Pointers, UNCHANGED <<url, part_start, v6, ports>>, b' \in Nat, b <= b', b' <= Len(url)
    PROVE  Pointers'
<1>1. /\ url' = url /\ part_start' = part_start /\ v6_start' = v6_start /\ v6_end' = v6_end
      /\ is_ipv6' = is_ipv6 /\ has_port' = has_port /\ probe' = probe
  BY DEF v6, ports
<1>2. b \in Nat /\ part_start \in Nat /\ probe[2] \in Nat /\ Len(url) \in Nat
  BY DEF Pointers
<1>3. v6_start \in Int /\ v6_end \in Int
  BY DEF Pointers, Null
<1>4. b' \in Nat /\ b' <= Len(url') /\ part_start' <= b' /\ v6_start' <= b' /\ v6_end' <= b' /\ probe'[2] <= b'
  BY <1>1, <1>2, <1>3 DEF Pointers
<1>5. has_port' \/ ~IsEmpty(probe)' => probe'[2] + 1 <= b'
  BY <1>1, <1>2 DEF Pointers, IsEmpty
<1> QED
  BY <1>1, <1>4, <1>5 DEF Pointers, IsEmpty

LEMMA PointersGoTo ==
    ASSUME Pointers, NEW s, NEW from \in Nat, NEW next \in Nat, GoTo(s, from, next),
           from <= next, b <= next, next <= Len(url)
    PROVE  Pointers'
<1>1. /\ url' = url /\ part_start' = from /\ b' = next /\ v6_start' = v6_start /\ v6_end' = v6_end
      /\ is_ipv6' = is_ipv6 /\ has_port' = has_port /\ probe' = probe
  BY DEF GoTo, v6, ports
<1>2. b \in Nat /\ probe[2] \in Nat /\ Len(url) \in Nat /\ v6_start \in Int /\ v6_end \in Int
  BY DEF Pointers, Null
<1>3. b' <= Len(url') /\ part_start' <= b' /\ v6_start' <= b' /\ v6_end' <= b' /\ probe'[2] <= b'
  BY <1>1, <1>2 DEF Pointers
<1>4. has_port' \/ ~IsEmpty(probe)' => probe'[2] + 1 <= b'
  BY <1>1, <1>2 DEF Pointers, IsEmpty
<1> QED
  BY <1>1, <1>3, <1>4 DEF Pointers, IsEmpty

LEMMA ReadsIn ==
    ASSUME Pointers, Reads
    PROVE  b \in Nat /\ After \in Nat /\ b < After /\ After <= Len(url) /\ Len(url) \in Nat
BY DEF Pointers, Reads, After

LEMMA MalformedKeeps == ASSUME ParserInv, Malformed PROVE ParserInv'
<1>1. UNCHANGED <<url, part_start, v6, ports>> /\ b' = b /\ parts' = parts
  BY DEF Malformed
<1>2. Pointers'
  BY <1>1, PointersStay DEF ParserInv, Pointers
<1> QED
  BY <1>1, <1>2, ViewsStay DEF ParserInv

LEMMA AcceptKeeps == ASSUME Pointers, Reads, Accept PROVE Pointers' /\ Views' = Views
BY PointersStay, ViewsStay, ReadsIn DEF Accept

LEMMA StayKeeps == ASSUME ParserInv, Reads, Stay PROVE ParserInv'
<1>1. UNCHANGED <<url, part_start, v6, ports>> /\ b' = After /\ parts' = parts
  BY DEF Stay
<1>2. Pointers'
  BY <1>1, PointersStay, ReadsIn DEF ParserInv
<1> QED
  BY <1>1, <1>2, ViewsStay DEF ParserInv

LEMMA GoesOn == ASSUME Pointers, Reads, NEW s, GoTo(s, part_start, After) PROVE Pointers' /\ Views' = Views
<1>1. part_start \in Nat /\ part_start <= After
  BY ReadsIn DEF Pointers
<1>2. url' = url
  BY DEF GoTo
<1> QED
  BY <1>1, <1>2, PointersGoTo, ReadsIn, ViewsStay

LEMMA SkipsTo == ASSUME Pointers, Reads, NEW s, GoTo(s, After, After) PROVE Pointers' /\ Views' = Views
<1>1. url' = url
  BY DEF GoTo
<1> QED
  BY <1>1, PointersGoTo, ReadsIn, ViewsStay

LEMMA DelimitedKeeps == ASSUME Pointers, Reads, Delimited PROVE Pointers' /\ Views' = Views
<1>1. CASE GoTo("path", b, b)
  BY <1>1, PointersGoTo, ReadsIn, ViewsStay DEF GoTo
<1>2. CASE Accept
  BY <1>2, AcceptKeeps
<1>3. CASE \E s \in {"query", "fragment"} : GoTo(s, After, After)
  BY <1>3, SkipsTo
<1> QED
  BY <1>1, <1>2, <1>3 DEF Delimited

LEMMA PartRead ==
    ASSUME ParserInv, Reads, NEW p \in Part, NEW end \in {b, After}
    PROVE  With(p, <<part_start, end>>) \in [Part -> Views]
<1>1. part_start \in Nat /\ part_start <= end /\ end \in Nat /\ end <= Len(url)
  BY ReadsIn DEF ParserInv, Pointers
<1>2. <<part_start, end>> \in Views
  BY <1>1, ViewMade
<1> QED
  BY <1>2, PartSet DEF ParserInv

LEMMA ReadingKeeps ==
    ASSUME ParserInv, NEW p \in Part, NEW delimiters, NEW allowed, Reading(p, delimiters, allowed)
    PROVE  ParserInv'
<1>1. Reads
  BY DEF Reading, In
<1>2. CASE parts' = With(p, <<part_start, b>>) /\ Delimited
  BY <1>1, <1>2, DelimitedKeeps, PartRead DEF ParserInv
<1>3. CASE parts' = With(p, <<part_start, After>>) /\ Accept
  BY <1>1, <1>3, AcceptKeeps, PartRead DEF ParserInv
<1>4. CASE Stay
  BY <1>1, <1>4, StayKeeps
<1>5. CASE Malformed
  BY <1>5, MalformedKeeps
<1> QED
  BY <1>2, <1>3, <1>4, <1>5 DEF Reading

\* The states before the host.
LEMMA PrefixKeeps ==
    ASSUME ParserInv, SchemeStart \/ Scheme \/ SlashStart \/ Urn \/ Slash
    PROVE  ParserInv'
<1>1. Reads
  BY DEF SchemeStart, Scheme, SlashStart, Urn, Slash, In
<1>2. /\ "scheme" \in Part /\ "path" \in Part
      /\ Pointers /\ parts \in [Part -> Views]
  BY DEF Part, ParserInv
<1>3. CASE SchemeStart
  BY <1>1, <1>2, <1>3, GoesOn, MalformedKeeps DEF SchemeStart, ParserInv
<1>4. CASE Scheme
  BY <1>1, <1>2, <1>4, GoesOn, StayKeeps, PartRead, MalformedKeeps DEF Scheme, ParserInv
<1>5. CASE SlashStart
  <2>1. CASE GoTo("slash", part_start, After) /\ UNCHANGED parts
    BY <1>1, <1>2, <2>1, GoesOn DEF ParserInv
  <2>2. CASE GoTo("urn", b, b) /\ UNCHANGED parts
    BY <1>1, <1>2, <2>2, PointersGoTo, ReadsIn, ViewsStay DEF ParserInv, GoTo
  <2> QED
    BY <1>5, <2>1, <2>2 DEF SlashStart
<1>6. CASE Urn
  <2>1. CASE Accept /\ parts' = With("path", <<part_start, After>>)
    BY <1>1, <1>2, <2>1, AcceptKeeps, PartRead DEF ParserInv
  <2>2. CASE parts' = With("path", <<part_start, b>>) /\ GoTo("query", After, After)
    BY <1>1, <1>2, <2>2, SkipsTo, PartRead DEF ParserInv
  <2> QED
    BY <1>1, <1>6, <2>1, <2>2, StayKeeps DEF Urn
<1>7. CASE Slash
  <2>1. CASE Malformed
    BY <2>1, MalformedKeeps
  <2>2. ASSUME NEW s, GoTo(s, After, After), UNCHANGED parts PROVE ParserInv'
    BY <1>1, <1>2, <2>2, SkipsTo DEF ParserInv
  <2> QED
    BY <1>7, <2>1, <2>2 DEF Slash
<1> QED
  BY <1>3, <1>4, <1>5, <1>6, <1>7

-----------------------------------------------------------------------------
(* User or host: the locals after c, and what is made of them *)

LEMMA ProbeLocals ==
    ASSUME Pointers, Reads
    PROVE  /\ V6Start \in Nat \cup {Null} /\ V6Start <= After
           /\ V6End \in Nat \cup {Null} /\ V6End <= b
           /\ IsV6 => V6Start # Null
           /\ V6End # Null => V6Start # Null /\ V6Start <= V6End
           /\ Probe \in Nat \X Nat /\ Probe[1] <= Probe[2] /\ Probe[2] <= b
           /\ has_port \/ ~IsEmpty(Probe) => Probe[2] + 1 <= After
<1>1. b \in Nat /\ After = b + 1
  BY ReadsIn DEF After
<1>2. CASE Opens
  <2>1. V6Start = After /\ V6End = Null /\ Probe = probe /\ v6_end = Null
    BY <1>2 DEF V6Start, V6End, Probe, Opens, Closes, Pointers, Null
  <2> QED
    BY <1>1, <2>1 DEF Pointers, Null, IsEmpty
<1>3. CASE Closes
  <2>1. V6Start = v6_start /\ V6End = b /\ Probe = Empty /\ v6_start # Null
    BY <1>3 DEF V6Start, V6End, Probe, Opens, Closes, Pointers
  <2> QED
    BY <1>1, <2>1 DEF Pointers, Null, IsEmpty, Empty
<1>4. CASE ~Opens /\ ~Closes
  <2>1. V6Start = v6_start /\ V6End = v6_end /\ Probe = probe /\ (IsV6 => is_ipv6)
    BY <1>4 DEF V6Start, V6End, Probe, IsV6
  <2> QED
    BY <1>1, <2>1 DEF Pointers, Null, IsEmpty
<1> QED
  BY <1>2, <1>3, <1>4

LEMMA ProbedPartsMade ==
    ASSUME ParserInv, Reads, NEW end \in {b, After}, NEW valid, ProbeFits(end, valid)
    PROVE  ProbedParts(end) \in [Part -> Views]
<1>1. /\ b \in Nat /\ After \in Nat /\ b < After /\ end \in Nat /\ b <= end /\ end <= Len(url)
      /\ Pointers /\ parts \in [Part -> Views] /\ part_start \in Nat /\ part_start <= end
  BY ReadsIn DEF ParserInv, Pointers
<1>2. ProbedHost(end) \in Views
  <2>1. CASE IsV6
    <3>1. V6Start \in Nat /\ V6End \in Nat /\ V6Start <= V6End /\ V6End <= Len(url)
      BY <1>1, <2>1, ProbeLocals, ReadsIn DEF ProbeFits, Null
    <3> QED
      BY <2>1, <3>1, ViewMade DEF ProbedHost
  <2>2. CASE ~IsV6 /\ has_port
    BY <1>1, <2>2, ReadsIn DEF ProbedHost, Views, Pointers
  <2>3. CASE ~IsV6 /\ ~has_port
    BY <1>1, <2>3, ViewMade DEF ProbedHost
  <2> QED
    BY <2>1, <2>2, <2>3
<1>3. HasPort => <<Probe[2] + 1, end>> \in Views
  <2>1. SUFFICES ASSUME HasPort PROVE <<Probe[2] + 1, end>> \in Views
    OBVIOUS
  <2>2. CASE IsV6
    <3>1. Probe # Empty /\ Probe = probe /\ ~IsEmpty(probe)
      BY <2>1, <2>2 DEF HasPort, Probe, Empty, IsEmpty
    <3>2. Probe[2] \in Nat /\ Probe[2] + 1 <= b
      BY <1>1, <3>1 DEF Pointers
    <3> QED
      BY <1>1, <3>2, ViewMade
  <2>3. CASE ~IsV6
    <3>1. has_port /\ V6Start = Null
      BY <2>1, <2>3 DEF HasPort, ProbeFits
    <3>2. ~Closes
      BY <1>1, <3>1 DEF V6Start, Closes, Pointers, Null
    <3>3. Probe = probe
      BY <3>2 DEF Probe
    <3>4. Probe[2] \in Nat /\ Probe[2] + 1 <= b
      BY <1>1, <3>1, <3>3 DEF Pointers
    <3> QED
      BY <1>1, <3>4, ViewMade
  <2> QED
    BY <2>2, <2>3
<1>4. "host" \in Part /\ "port" \in Part
  BY DEF Part
<1> QED
  BY <1>1, <1>2, <1>3, <1>4 DEF ProbedParts

LEMMA ProbeUserKeeps == ASSUME ParserInv, ProbeUser PROVE ParserInv'
<1>1. Reads /\ Pointers /\ parts \in [Part -> Views]
  BY DEF ProbeUser, In, ParserInv
<1>2. /\ url' = url /\ b' = After /\ part_start' = After /\ v6_start' = Null /\ v6_end' = Null
      /\ is_ipv6' = FALSE /\ has_port' = has_port /\ probe' = probe
  BY DEF ProbeUser, ports
<1>3. b \in Nat /\ After = b + 1 /\ After <= Len(url)
  BY <1>1, ReadsIn DEF After
<1>4. /\ Pointers'
  BY <1>1, <1>2, <1>3 DEF Pointers, Null, IsEmpty
<1>5. parts' \in [Part -> Views]
  <2>1. CASE IsEmpty(probe)
    BY <1>1, <2>1, PartRead DEF ProbeUser, Part
  <2>2. CASE ~IsEmpty(probe)
    <3>1. probe \in Views /\ <<probe[2] + 1, b>> \in Views
      BY <1>1, <1>3, <2>2, ViewMade DEF Pointers, Views
    <3> QED
      BY <1>1, <2>2, <3>1 DEF ProbeUser, Part
  <2> QED
    BY <2>1, <2>2
<1> QED
  BY <1>2, <1>4, <1>5, ViewsStay DEF ParserInv

LEMMA ProbeColonKeeps == ASSUME ParserInv, ProbeColon PROVE ParserInv'
<1>1. Reads /\ Pointers /\ parts \in [Part -> Views]
  BY DEF ProbeColon, In, ParserInv
<1>2. CASE Accept /\ parts' = With("host", <<part_start, b>>)
  BY <1>1, <1>2, AcceptKeeps, PartRead DEF ParserInv, Part
<1>3. CASE Malformed
  BY <1>3, MalformedKeeps
<1>4. CASE /\ IF IsEmpty(probe) THEN probe' = <<part_start, b>> /\ port_vaild' = TRUE /\ has_port' = TRUE
                                ELSE port_vaild' = FALSE /\ UNCHANGED <<probe, has_port>>
           /\ b' = After
           /\ UNCHANGED <<url, state, verdict, part_start, v6, parts>>
  <2>1. /\ url' = url /\ part_start' = part_start /\ v6_start' = v6_start /\ v6_end' = v6_end
        /\ is_ipv6' = is_ipv6 /\ b' = After /\ parts' = parts
    BY <1>4 DEF v6
  <2>2. b \in Nat /\ After = b + 1 /\ After <= Len(url) /\ part_start \in Nat /\ part_start <= b
    BY <1>1, ReadsIn DEF After, Pointers
  <2>3. /\ probe' \in Nat \X Nat /\ probe'[1] <= probe'[2] /\ probe'[2] <= b'
        /\ probe'[2] + 1 <= b'
    BY <1>1, <1>4, <2>1, <2>2 DEF Pointers
  <2>4. Pointers'
    BY <1>1, <2>1, <2>2, <2>3 DEF Pointers, Null
  <2> QED
    BY <1>1, <2>1, <2>4, ViewsStay DEF ParserInv
<1> QED
  BY <1>2, <1>3, <1>4 DEF ProbeColon

LEMMA ProbeEndKeeps == ASSUME ParserInv, ProbeDelimiter \/ ProbeLast PROVE ParserInv'
<1>1. Reads /\ Pointers
  BY DEF ProbeDelimiter, ProbeLast, In, ParserInv
<1>2. CASE Malformed
  BY <1>2, MalformedKeeps
<1>3. CASE ProbeFits(b, port_vaild) /\ parts' = ProbedParts(b) /\ Delimited
  BY <1>1, <1>3, ProbedPartsMade, DelimitedKeeps DEF ParserInv
<1>4. CASE ProbeFits(After, port_vaild /\ c \in Digits) /\ parts' = ProbedParts(After) /\ Accept
  BY <1>1, <1>4, ProbedPartsMade, AcceptKeeps DEF ParserInv
<1> QED
  BY <1>2, <1>3, <1>4 DEF ProbeDelimiter, ProbeLast

LEMMA ProbeOtherKeeps == ASSUME ParserInv, ProbeOther PROVE ParserInv'
<1>1. Reads /\ Pointers /\ parts \in [Part -> Views]
  BY DEF ProbeOther, In, ParserInv
<1>2. CASE Malformed
  BY <1>2, MalformedKeeps
<1>3. CASE /\ v6_start' = V6Start /\ v6_end' = V6End /\ is_ipv6' = IsV6 /\ probe' = Probe
           /\ b' = After
           /\ UNCHANGED <<url, state, verdict, part_start, has_port, parts>>
  <2>1. b \in Nat /\ After = b + 1 /\ After <= Len(url) /\ part_start \in Nat /\ part_start <= b
    BY <1>1, ReadsIn DEF After, Pointers
  <2>2. v6_start' \in Nat \cup {Null} /\ v6_start' <= b' /\ v6_end' \in Nat \cup {Null} /\ v6_end' <= b'
    BY <1>1, <1>3, <2>1, ProbeLocals DEF Null
  <2>3. is_ipv6' => v6_start' # Null
    BY <1>1, <1>3, ProbeLocals
  <2>4. v6_end' # Null => v6_start' # Null /\ v6_start' <= v6_end'
    BY <1>1, <1>3, ProbeLocals
  <2>5. probe' \in Nat \X Nat /\ probe'[1] <= probe'[2] /\ probe'[2] <= b'
    BY <1>1, <1>3, <2>1, ProbeLocals
  <2>6. has_port' \/ ~IsEmpty(probe)' => probe'[2] + 1 <= b'
    BY <1>1, <1>3, ProbeLocals DEF IsEmpty
  <2>7. url' = url /\ b' = After /\ part_start' = part_start /\ parts' = parts
    BY <1>3
  <2>8. Pointers'
    BY <1>1, <2>1, <2>2, <2>3, <2>4, <2>5, <2>6, <2>7 DEF Pointers
  <2> QED
    BY <1>1, <2>7, <2>8, ViewsStay DEF ParserInv
<1> QED
  BY <1>2, <1>3 DEF ProbeOther

-----------------------------------------------------------------------------
(* host, and the whole of the parser *)

LEMMA HostOpensKeeps == ASSUME ParserInv, HostOpens PROVE ParserInv'
<1>1. Reads /\ Pointers /\ parts \in [Part -> Views]
  BY DEF HostOpens, In, ParserInv
<1>2. CASE Malformed
  BY <1>2, MalformedKeeps
<1>3. CASE /\ v6_start = Null
           /\ is_ipv6' = TRUE /\ v6_start' = After /\ b' = After
           /\ UNCHANGED <<url, state, verdict, part_start, v6_end, ports, parts>>
  <2>1. /\ url' = url /\ b' = After /\ part_start' = part_start /\ parts' = parts /\ v6_start' = After
        /\ v6_end' = v6_end /\ has_port' = has_port /\ probe' = probe
    BY <1>3 DEF ports
  <2>2. b \in Nat /\ After = b + 1 /\ After <= Len(url) /\ v6_end = Null
    BY <1>1, <1>3, ReadsIn DEF After, Pointers
  <2>3. Pointers'
    BY <1>1, <2>1, <2>2 DEF Pointers, Null, IsEmpty
  <2> QED
    BY <1>1, <2>1, <2>3, ViewsStay DEF ParserInv
<1> QED
  BY <1>2, <1>3 DEF HostOpens

LEMMA HostClosesKeeps == ASSUME ParserInv, HostCloses PROVE ParserInv'
<1>1. Reads /\ Pointers /\ parts \in [Part -> Views] /\ is_ipv6
  BY DEF HostCloses, In, ParserInv
<1>2. CASE Malformed
  BY <1>2, MalformedKeeps
<1>3. CASE parts' = With("host", <<v6_start, b>>) /\ ~Malformed
  <2>1. <<v6_start, b>> \in Views
    BY <1>1, ReadsIn, ViewMade DEF Pointers, Null
  <2>2. parts' \in [Part -> Views]
    BY <1>1, <1>3, <2>1, PartSet DEF Part
  <2>3. CASE Accept
    BY <1>1, <2>2, <2>3, AcceptKeeps DEF ParserInv
  <2>4. CASE GoTo("path", After, After)
    BY <1>1, <2>2, <2>4, SkipsTo DEF ParserInv
  <2>5. ASSUME NEW d, Peek(d), NEW s, GoTo(s, After + 1, After + 1) PROVE ParserInv'
    <3>1. After + 1 \in Nat /\ After + 1 <= Len(url) /\ b <= After + 1
      BY <1>1, <2>5, ReadsIn DEF Peek
    <3>2. Pointers' /\ url' = url
      BY <1>1, <2>5, <3>1, PointersGoTo DEF GoTo
    <3> QED
      BY <2>2, <3>2, ViewsStay DEF ParserInv
  <2> QED
    BY <1>3, <2>3, <2>4, <2>5 DEF HostCloses
<1> QED
  BY <1>2, <1>3 DEF HostCloses

LEMMA HostKeeps == ASSUME ParserInv, HostDelimiter \/ HostOther PROVE ParserInv'
<1>1. Reads /\ Pointers /\ "host" \in Part
  BY DEF HostDelimiter, HostOther, In, ParserInv, Part
<1>2. CASE Malformed
  BY <1>2, MalformedKeeps
<1>3. CASE parts' = With("host", <<part_start, b>>) /\ Delimited
  BY <1>1, <1>3, PartRead, DelimitedKeeps DEF ParserInv
<1>4. CASE parts' = With("host", <<part_start, b>>) /\ GoTo("port", After, After)
  BY <1>1, <1>4, PartRead, SkipsTo DEF ParserInv
<1>5. CASE Accept /\ parts' = With("host", <<part_start, After>>)
  BY <1>1, <1>5, PartRead, AcceptKeeps DEF ParserInv
<1>6. CASE Stay
  BY <1>1, <1>6, StayKeeps
<1> QED
  BY <1>2, <1>3, <1>4, <1>5, <1>6 DEF HostDelimiter, HostOther

LEMMA ParseKeeps == ASSUME ParserInv, Parse PROVE ParserInv'
<1>1. CASE SchemeStart \/ Scheme \/ SlashStart \/ Urn \/ Slash
  BY <1>1, PrefixKeeps
<1>2. CASE ProbeUser
  BY <1>2, ProbeUserKeeps
<1>3. CASE ProbeColon
  BY <1>3, ProbeColonKeeps
<1>4. CASE ProbeDelimiter \/ ProbeLast
  BY <1>4, ProbeEndKeeps
<1>5. CASE ProbeOther
  BY <1>5, ProbeOtherKeeps
<1>6. CASE HostOpens
  BY <1>6, HostOpensKeeps
<1>7. CASE HostCloses
  BY <1>7, HostClosesKeeps
<1>8. CASE HostDelimiter \/ HostOther
  BY <1>8, HostKeeps
<1>9. CASE Port \/ Path \/ Query \/ Fragment
  <2>1. \A p \in {"port", "path", "query", "fragment"} : p \in Part
    BY DEF Part
  <2>2. CASE Port
    BY <2>1, <2>2, ReadingKeeps DEF Port
  <2>3. CASE Path
    BY <2>1, <2>3, ReadingKeeps DEF Path
  <2>4. CASE Query
    BY <2>1, <2>4, ReadingKeeps DEF Query
  <2>5. CASE Fragment
    BY <2>1, <2>5, ReadingKeeps DEF Fragment
  <2> QED
    BY <1>9, <2>2, <2>3, <2>4, <2>5
<1>10. CASE RunOut
  BY <1>10, MalformedKeeps DEF RunOut
<1> QED
  BY <1>1, <1>2, <1>3, <1>4, <1>5, <1>6, <1>7, <1>8, <1>9, <1>10 DEF Parse

\* A view handed out lies in the text, for every text: the pointer arithmetic of
\* the parser never takes a part beyond the text, nor its end before its start.
THEOREM PartsLieInTheText == Spec => []ViewsInside
<1>1. Init => ParserInv
  <2>1. ASSUME Init PROVE url \in Seq(STRING)
    <3>1. CASE \E u \in Servers : StartOn(Written(u))
      BY <3>1, ServersAreTexts DEF StartOn
    <3>2. CASE \E text \in Texts : StartOn(text)
      BY <3>2, ServersAreTexts DEF StartOn
    <3> QED
      BY <2>1, <3>1, <3>2 DEF Init
  <2>2. ASSUME Init
        PROVE  /\ b = 0 /\ part_start = 0 /\ v6_start = Null /\ v6_end = Null /\ is_ipv6 = FALSE
               /\ has_port = FALSE /\ probe = Empty /\ parts = [p \in Part |-> Empty]
    BY <2>2 DEF Init, StartOn
  <2>3. SUFFICES ASSUME Init PROVE ParserInv
    OBVIOUS
  <2>4. Len(url) \in Nat
    BY <2>1, <2>3
  <2>5. Pointers
    BY <2>1, <2>2, <2>3, <2>4 DEF Pointers, Null, Empty, IsEmpty
  <2>6. Empty \in Views
    BY <2>4 DEF Views, Empty
  <2> QED
    BY <2>2, <2>3, <2>5, <2>6 DEF ParserInv
<1>2. ParserInv /\ [Next]_vars => ParserInv'
  <2>1. ASSUME ParserInv, UNCHANGED parser PROVE ParserInv'
    <3>1. /\ url' = url /\ b' = b /\ part_start' = part_start /\ v6_start' = v6_start /\ v6_end' = v6_end
          /\ is_ipv6' = is_ipv6 /\ has_port' = has_port /\ probe' = probe /\ parts' = parts
      BY <2>1 DEF parser, v6, ports
    <3> QED
      BY <2>1, <3>1 DEF ParserInv, Pointers, Views, IsEmpty
  <2>2. [Next]_vars => Parse \/ UNCHANGED parser
    BY DEF Next, Parses, Chain, StartRefuses, StartResolves, on_socks_proxy_resolve, on_socks_proxy_connect,
           on_socks_proxy_handshake, ShakesHands, Stopped, vars
  <2> QED
    BY <2>1, <2>2, ParseKeeps
<1>3. ParserInv => ViewsInside
  <2>1. SUFFICES ASSUME ParserInv, NEW p \in Part
                 PROVE  0 <= parts[p][1] /\ parts[p][1] <= parts[p][2] /\ parts[p][2] <= Len(url)
    BY DEF ViewsInside
  <2>2. parts[p] \in Views
    BY <2>1 DEF ParserInv
  <2> QED
    BY <2>2 DEF Views
<1> QED
  BY <1>1, <1>2, <1>3, PTL DEF Spec

-----------------------------------------------------------------------------
(* Where the parts lie in a text written from them *)

\* From offset a on, t reads x.
Spells(t, a, x) == a + Len(x) <= Len(t) /\ \A i \in 1..Len(x) : t[a + i] = x[i]

\* What a URL is made of: the provers do not know which characters are strings.
Chars == STRING \cup {":", "/", "@", "[", "]", "?", "#"}

LEMMA StringsAreChars == Seq(STRING) \subseteq Seq(Chars)
<1>1. ASSUME NEW x \in Seq(STRING) PROVE x \in Seq(Chars)
  <2>1. PICK n \in Nat : x \in [1..n -> STRING]
    BY <1>1, SeqDef
  <2>2. x \in [1..n -> Chars]
    BY <2>1 DEF Chars
  <2> QED BY <2>2, SeqDef
<1> QED BY <1>1

LEMMA SpellsConcat ==
    ASSUME NEW x \in Seq(Chars), NEW y \in Seq(Chars)
    PROVE  /\ x \o y \in Seq(Chars) /\ Len(x \o y) = Len(x) + Len(y)
           /\ Spells(x \o y, 0, x) /\ Spells(x \o y, Len(x), y)
<1>1. /\ x \o y \in Seq(Chars) /\ Len(x \o y) = Len(x) + Len(y) /\ Len(x) \in Nat /\ Len(y) \in Nat
      /\ \A i \in 1..(Len(x) + Len(y)) : (x \o y)[i] = IF i <= Len(x) THEN x[i] ELSE y[i - Len(x)]
  BY ConcatProperties, LenProperties
<1>2. Spells(x \o y, 0, x)
  BY <1>1 DEF Spells
<1>3. Spells(x \o y, Len(x), y)
  <2>1. ASSUME NEW i \in 1..Len(y) PROVE (x \o y)[Len(x) + i] = y[i]
    <3>1. Len(x) + i \in 1..(Len(x) + Len(y)) /\ ~(Len(x) + i <= Len(x)) /\ (Len(x) + i) - Len(x) = i
      BY <1>1
    <3> QED BY <1>1, <3>1
  <2> QED BY <1>1, <2>1 DEF Spells
<1> QED BY <1>1, <1>2, <1>3

LEMMA SpellsWithin ==
    ASSUME NEW t, NEW x, NEW y, NEW a \in Nat, NEW o \in Nat, Len(x) \in Nat, Len(y) \in Nat, Len(t) \in Nat,
           Spells(t, a, x), Spells(x, o, y)
    PROVE  Spells(t, a + o, y)
<1>1. a + o + Len(y) <= Len(t)
  BY DEF Spells
<1>2. ASSUME NEW i \in 1..Len(y) PROVE t[(a + o) + i] = y[i]
  <2>1. o + i \in 1..Len(x) /\ a + (o + i) = (a + o) + i
    BY DEF Spells
  <2>2. t[a + (o + i)] = x[o + i] /\ x[o + i] = y[i]
    BY <2>1 DEF Spells
  <2> QED BY <2>1, <2>2
<1> QED BY <1>1, <1>2 DEF Spells

LEMMA SpellsText ==
    ASSUME NEW t \in Seq(Chars), NEW x \in Seq(Chars), NEW a \in Nat, Spells(t, a, x)
    PROVE  SubSeq(t, a + 1, a + Len(x)) = x
<1>1. Len(x) \in Nat /\ Len(t) \in Nat /\ a + Len(x) <= Len(t)
  BY LenProperties DEF Spells
<1>2. CASE x = << >>
  <2>1. Len(x) = 0
    BY <1>2
  <2> QED BY <1>1, <1>2, <2>1
<1>3. CASE x # << >>
  <2>1. a + 1 \in 1..Len(t) /\ a + Len(x) \in 1..Len(t) /\ a + 1 <= a + Len(x) /\ Len(x) >= 1
    BY <1>1, <1>3, EmptySeq
  <2> DEFINE y == SubSeq(t, a + 1, a + Len(x))
  <2>2. y \in Seq(Chars) /\ Len(y) = Len(x)
    BY <1>1, <2>1, SubSeqProperties
  <2>3. ASSUME NEW i \in 1..Len(x) PROVE y[i] = x[i]
    <3>1. y[i] = t[(a + 1) + i - 1]
      BY <1>1, <2>1, SubSeqProperties
    <3>2. (a + 1) + i - 1 = a + i
      BY <1>1
    <3> QED BY <3>1, <3>2 DEF Spells
  <2> HIDE DEF y
  <2>4. y = x
    BY <2>2, <2>3, SeqEqual
  <2> QED BY <2>4 DEF y
<1> QED BY <1>2, <1>3

LEMMA SpellsSplit ==
    ASSUME NEW t \in Seq(Chars), NEW x \in Seq(Chars), NEW y \in Seq(Chars), NEW a \in Nat, Spells(t, a, x \o y)
    PROVE  Spells(t, a, x) /\ Spells(t, a + Len(x), y)
<1>1. /\ x \o y \in Seq(Chars) /\ Spells(x \o y, 0, x) /\ Spells(x \o y, Len(x), y)
  BY SpellsConcat
<1>2. Len(x) \in Nat /\ Len(y) \in Nat /\ Len(t) \in Nat /\ Len(x \o y) \in Nat
  BY <1>1, LenProperties
<1>3. Spells(t, a + 0, x)
  BY <1>1, <1>2, SpellsWithin
<1>4. Spells(t, a + Len(x), y)
  BY <1>1, <1>2, SpellsWithin
<1> QED BY <1>3, <1>4

\* A single character.
LEMMA OneCharacter ==
    ASSUME NEW ch \in Chars
    PROVE  <<ch>> \in Seq(Chars) /\ Len(<<ch>>) = 1 /\ <<ch>>[1] = ch
<1>1. <<ch>> \in Seq(Chars)
  OBVIOUS
<1>2. Len(<<ch>>) = 1
  OBVIOUS
<1>3. <<ch>>[1] = ch
  OBVIOUS
<1> QED BY <1>1, <1>2, <1>3

LEMMA SpellsOne ==
    ASSUME NEW t \in Seq(Chars), NEW ch \in Chars, NEW a \in Nat, Spells(t, a, <<ch>>)
    PROVE  t[a + 1] = ch /\ a + 1 <= Len(t)
<1> DEFINE d == <<ch>>
<1>1. Len(d) = 1 /\ d[1] = ch
  BY OneCharacter
<1>2. Spells(t, a, d)
  OBVIOUS
<1> HIDE DEF d
<1>3. a + 1 <= Len(t) /\ t[a + 1] = d[1]
  BY <1>1, <1>2 DEF Spells
<1> QED BY <1>1, <1>3

LEMMA OptionSpells ==
    ASSUME NEW ch \in Chars, NEW x \in Seq(Chars)
    PROVE  /\ Option(<<ch>>, x, << >>) \in Seq(Chars)
           /\ Len(Option(<<ch>>, x, << >>)) = IF x = << >> THEN 0 ELSE 1 + Len(x)
           /\ \A t \in Seq(Chars), a \in Nat :
                Spells(t, a, Option(<<ch>>, x, << >>)) /\ x # << >> => t[a + 1] = ch /\ Spells(t, a + 1, x)
<1>1. CASE x = << >>
  <2>1. Option(<<ch>>, x, << >>) = << >>
    BY <1>1 DEF Option
  <2> QED BY <1>1, <2>1
<1>2. CASE x # << >>
  <2> DEFINE d == <<ch>>
             o == d \o x
  <2>0. << >> \in Seq(Chars) /\ d \in Seq(Chars) /\ Len(d) = 1
    BY EmptySeq, OneCharacter
  <2> HIDE DEF d
  <2>1. o \in Seq(Chars) /\ Len(o) = 1 + Len(x)
    BY <2>0, SpellsConcat
  <2>2. Option(d, x, << >>) = o
    <3>1. Option(d, x, << >>) = o \o << >>
      BY <1>2 DEF Option
    <3> HIDE DEF o
    <3>2. o \o << >> = o
      BY <2>1, ConcatEmptySeq
    <3> QED BY <3>1, <3>2
  <2>3. ASSUME NEW t \in Seq(Chars), NEW a \in Nat, Spells(t, a, o)
        PROVE  t[a + 1] = ch /\ Spells(t, a + 1, x)
    <3>1. Spells(t, a, d) /\ Spells(t, a + Len(d), x)
      BY <2>0, <2>3, SpellsSplit
    <3>2. t[a + 1] = ch
      BY <3>1, SpellsOne DEF d
    <3> QED BY <2>0, <3>1, <3>2
  <2> HIDE DEF o
  <2>4. Option(<<ch>>, x, << >>) = o
    BY <2>2 DEF d
  <2> QED BY <1>2, <2>1, <2>3, <2>4
<1> QED BY <1>1, <1>2

-----------------------------------------------------------------------------
(* The layout of a URL written from u *)

UserAt(u) == Len(u.scheme) + 3
UserEnd(u) == UserAt(u) + Len(u.username)
LoginEnd(u) == IF u.password = << >> THEN UserEnd(u) ELSE UserEnd(u) + 1 + Len(u.password)
HostAt(u) == IF u.username = << >> THEN UserAt(u) ELSE LoginEnd(u) + 1
HostFrom(u) == IF u.v6 THEN HostAt(u) + 1 ELSE HostAt(u)
HostTo(u) == HostFrom(u) + Len(u.host)
HostEnd(u) == IF u.v6 THEN HostTo(u) + 1 ELSE HostTo(u)
PortTo(u) == IF u.port = << >> THEN HostEnd(u) ELSE HostEnd(u) + 1 + Len(u.port)
PathTo(u) == PortTo(u) + Len(u.path)
QueryTo(u) == IF u.query = << >> THEN PathTo(u) ELSE PathTo(u) + 1 + Len(u.query)
FragTo(u) == IF u.fragment = << >> THEN QueryTo(u) ELSE QueryTo(u) + 1 + Len(u.fragment)

\* Where a part starts, and the view of it.
From(u) == [scheme |-> 0, username |-> UserAt(u), password |-> UserEnd(u) + 1, host |-> HostFrom(u),
            port |-> HostEnd(u) + 1, path |-> PortTo(u), query |-> PathTo(u) + 1, fragment |-> QueryTo(u) + 1]

View(u, p) == IF u[p] = << >> THEN Empty ELSE <<From(u)[p], From(u)[p] + Len(u[p])>>

Delimiters(u, t) ==
    /\ t[Len(u.scheme) + 1] = ":" /\ t[Len(u.scheme) + 2] = "/" /\ t[Len(u.scheme) + 3] = "/"
    /\ u.password # << >> => t[UserEnd(u) + 1] = ":"
    /\ u.username # << >> => t[LoginEnd(u) + 1] = "@"
    /\ u.v6 => t[HostAt(u) + 1] = "[" /\ t[HostTo(u) + 1] = "]"
    /\ u.port # << >> => t[HostEnd(u) + 1] = ":"
    /\ u.query # << >> => t[PathTo(u) + 1] = "?"
    /\ u.fragment # << >> => t[QueryTo(u) + 1] = "#"

LEMMA PartsAreTexts ==
    ASSUME NEW u \in Servers
    PROVE  /\ \A p \in Part : u[p] \in Seq(Chars)
           /\ u.scheme \in Seq(Chars) /\ u.username \in Seq(Chars) /\ u.password \in Seq(Chars)
           /\ u.host \in Seq(Chars) /\ u.port \in Seq(Chars) /\ u.path \in Seq(Chars)
           /\ u.query \in Seq(Chars) /\ u.fragment \in Seq(Chars)
           /\ u.v6 \in BOOLEAN
BY ServersAreWellFormed, StringsAreChars DEF WellFormed, Part

\* The user as it is written, with its password.
LEMMA LoginSpells ==
    ASSUME NEW u \in Servers, u.password # << >> => u.username # << >>
    PROVE  LET login == Option(<< >>, u.username \o Option(<<":">>, u.password, << >>), <<"@">>)
               size == Len(u.username) + (IF u.password = << >> THEN 0 ELSE 1 + Len(u.password))
           IN  /\ login \in Seq(Chars)
               /\ Len(login) = IF u.username = << >> THEN 0 ELSE size + 1
               /\ \A t \in Seq(Chars), a \in Nat : Spells(t, a, login) /\ u.username # << >> =>
                    /\ Spells(t, a, u.username) /\ t[(a + size) + 1] = "@"
                    /\ u.password # << >> => /\ t[(a + Len(u.username)) + 1] = ":"
                                             /\ Spells(t, (a + Len(u.username)) + 1, u.password)
<1> DEFINE at == <<"@">>
           o == Option(<<":">>, u.password, << >>)
           x == u.username \o o
           login == Option(<< >>, x, at)
           size == Len(u.username) + (IF u.password = << >> THEN 0 ELSE 1 + Len(u.password))
<1>1. u.username \in Seq(Chars) /\ u.password \in Seq(Chars)
  BY PartsAreTexts
<1>2. Len(u.username) \in Nat /\ Len(u.password) \in Nat
  BY <1>1, LenProperties
<1>3. at \in Seq(Chars) /\ Len(at) = 1
  BY OneCharacter DEF Chars
<1>4. /\ o \in Seq(Chars) /\ Len(o) = IF u.password = << >> THEN 0 ELSE 1 + Len(u.password)
      /\ \A t \in Seq(Chars), a \in Nat :
           Spells(t, a, o) /\ u.password # << >> => t[a + 1] = ":" /\ Spells(t, a + 1, u.password)
  <2>1. ":" \in Chars
    BY DEF Chars
  <2> QED BY <1>1, <2>1, OptionSpells
<1> HIDE DEF o
<1>5. x \in Seq(Chars) /\ Len(x) = Len(u.username) + Len(o)
  BY <1>1, <1>4, SpellsConcat
<1>6. size \in Nat /\ Len(o) \in Nat /\ Len(x) = size
  <2>1. Len(o) \in Nat
    BY <1>4, LenProperties
  <2>2. size \in Nat
    <3>1. size = Len(u.username) + Len(o)
      BY <1>4
    <3> HIDE DEF size
    <3> QED BY <1>2, <2>1, <3>1
  <2>3. Len(x) = size
    BY <1>4, <1>5
  <2> QED BY <2>1, <2>2, <2>3
<1> HIDE DEF x, size
<1>7. CASE u.username = << >>
  <2>1. u.password = << >> /\ Len(u.username) = 0
    BY <1>7, EmptySeq
  <2>2. size = 0
    BY <2>1 DEF size
  <2>3. x = << >>
    BY <1>5, <1>6, <2>2, EmptySeq
  <2>4. login = << >>
    BY <2>3 DEF Option
  <2>5. Len(login) = 0 /\ login \in Seq(Chars)
    BY <2>4, EmptySeq
  <2> HIDE DEF login
  <2>6. /\ Len(login) = IF u.username = << >> THEN 0 ELSE size + 1
        /\ \A t \in Seq(Chars), a \in Nat : Spells(t, a, login) /\ u.username # << >> =>
             /\ Spells(t, a, u.username) /\ t[(a + size) + 1] = "@"
             /\ u.password # << >> => /\ t[(a + Len(u.username)) + 1] = ":"
                                      /\ Spells(t, (a + Len(u.username)) + 1, u.password)
    BY <1>7, <2>5
  <2> QED BY <2>5, <2>6 DEF login, x, o, size
<1>8. CASE u.username # << >>
  <2>1. Len(u.username) > 0
    BY <1>1, <1>2, <1>8, EmptySeq
  <2>2. x # << >>
    <3>1. Len(x) > 0
      BY <1>2, <1>5, <1>6, <2>1
    <3> QED BY <3>1, <1>5, EmptySeq
  <2>3. << >> \o x = x
    BY <1>5, ConcatEmptySeq
  <2>4. login = x \o at
    BY <2>2, <2>3 DEF Option
  <2> HIDE DEF at, login
  <2>5. login \in Seq(Chars) /\ Len(login) = size + 1
    BY <1>3, <1>5, <1>6, <2>4, SpellsConcat
  <2>6. ASSUME NEW t \in Seq(Chars), NEW a \in Nat, Spells(t, a, login)
        PROVE  /\ Spells(t, a, u.username) /\ t[(a + size) + 1] = "@"
               /\ u.password # << >> => /\ t[(a + Len(u.username)) + 1] = ":"
                                        /\ Spells(t, (a + Len(u.username)) + 1, u.password)
    <3>1. Spells(t, a, x) /\ Spells(t, a + size, at)
      BY <1>3, <1>5, <1>6, <2>4, <2>6, SpellsSplit
    <3>2. Spells(t, a, u.username) /\ Spells(t, a + Len(u.username), o)
      BY <1>1, <1>4, <3>1, SpellsSplit DEF x
    <3>3. a + size \in Nat /\ a + Len(u.username) \in Nat 
      BY <1>2, <1>6
    <3>4. t[(a + size) + 1] = "@"
      <4>1. "@" \in Chars
        BY DEF Chars
      <4> QED BY <3>1, <3>3, <4>1, SpellsOne DEF at
    <3> QED BY <1>4, <3>2, <3>3, <3>4
  <2>7. /\ Len(login) = IF u.username = << >> THEN 0 ELSE size + 1
        /\ \A t \in Seq(Chars), a \in Nat : Spells(t, a, login) /\ u.username # << >> =>
             /\ Spells(t, a, u.username) /\ t[(a + size) + 1] = "@"
             /\ u.password # << >> => /\ t[(a + Len(u.username)) + 1] = ":"
                                      /\ Spells(t, (a + Len(u.username)) + 1, u.password)
    BY <1>8, <2>5, <2>6
  <2> QED BY <2>5, <2>7 DEF login, x, o, size, at
<1> QED BY <1>7, <1>8

LEMMA HostSpells ==
    ASSUME NEW u \in Servers
    PROVE  LET host == IF u.v6 THEN <<"[">> \o u.host \o <<"]">> ELSE u.host
           IN  /\ host \in Seq(Chars)
               /\ Len(host) = IF u.v6 THEN (Len(u.host) + 1) + 1 ELSE Len(u.host)
               /\ \A t \in Seq(Chars), a \in Nat : Spells(t, a, host) =>
                    IF u.v6 THEN t[a + 1] = "[" /\ Spells(t, a + 1, u.host) /\ t[((a + 1) + Len(u.host)) + 1] = "]"
                            ELSE Spells(t, a, u.host)
<1> DEFINE open == <<"[">>
           close == <<"]">>
           host == IF u.v6 THEN open \o u.host \o close ELSE u.host
<1>1. u.host \in Seq(Chars) /\ Len(u.host) \in Nat /\ u.v6 \in BOOLEAN
  BY PartsAreTexts, LenProperties
<1>2. CASE ~u.v6
  <2>1. host = u.host
    BY <1>2
  <2> HIDE DEF host
  <2>2. /\ host \in Seq(Chars)
        /\ Len(host) = IF u.v6 THEN (Len(u.host) + 1) + 1 ELSE Len(u.host)
        /\ \A t \in Seq(Chars), a \in Nat : Spells(t, a, host) =>
             IF u.v6 THEN t[a + 1] = "[" /\ Spells(t, a + 1, u.host) /\ t[((a + 1) + Len(u.host)) + 1] = "]"
                     ELSE Spells(t, a, u.host)
    BY <1>1, <1>2, <2>1
  <2> QED BY <2>2 DEF host, open, close
<1>3. CASE u.v6
  <2>1. open \in Seq(Chars) /\ Len(open) = 1 /\ close \in Seq(Chars) /\ Len(close) = 1 /\ "[" \in Chars /\ "]" \in Chars
    BY OneCharacter DEF Chars
  <2> DEFINE x == open \o u.host
  <2>2. host = x \o close
    BY <1>3
  <2> HIDE DEF open, close, host
  <2>3. x \in Seq(Chars) /\ Len(x) = 1 + Len(u.host)
    BY <1>1, <2>1, SpellsConcat
  <2>4. host \in Seq(Chars) /\ Len(host) = Len(x) + 1
    BY <2>1, <2>2, <2>3, SpellsConcat
  <2>5. ASSUME NEW t \in Seq(Chars), NEW a \in Nat, Spells(t, a, host)
        PROVE  t[a + 1] = "[" /\ Spells(t, a + 1, u.host) /\ t[((a + 1) + Len(u.host)) + 1] = "]"
    <3>1. Spells(t, a, x) /\ Spells(t, a + Len(x), close)
      BY <2>1, <2>2, <2>3, <2>5, SpellsSplit
    <3>2. Spells(t, a, open) /\ Spells(t, a + 1, u.host)
      BY <1>1, <2>1, <3>1, SpellsSplit
    <3>3. t[a + 1] = "["
      BY <2>1, <3>2, SpellsOne DEF open
    <3>4. a + Len(x) = (a + 1) + Len(u.host) /\ a + Len(x) \in Nat
      <4>1. PICK n \in Nat : n = Len(u.host)
        BY <1>1
      <4>2. Len(x) = 1 + n
        BY <2>3, <4>1
      <4>3. a + (1 + n) = (a + 1) + n /\ a + (1 + n) \in Nat
        OBVIOUS
      <4> QED BY <4>1, <4>2, <4>3
    <3>5. t[(a + Len(x)) + 1] = "]"
      BY <2>1, <3>1, <3>4, SpellsOne DEF close
    <3> QED BY <3>2, <3>3, <3>4, <3>5
  <2>6. Len(host) = (Len(u.host) + 1) + 1
    BY <1>1, <2>3, <2>4
  <2>7. /\ host \in Seq(Chars)
        /\ Len(host) = IF u.v6 THEN (Len(u.host) + 1) + 1 ELSE Len(u.host)
        /\ \A t \in Seq(Chars), a \in Nat : Spells(t, a, host) =>
             IF u.v6 THEN t[a + 1] = "[" /\ Spells(t, a + 1, u.host) /\ t[((a + 1) + Len(u.host)) + 1] = "]"
                     ELSE Spells(t, a, u.host)
    BY <1>3, <2>4, <2>5, <2>6
  <2> QED BY <2>7 DEF host, open, close
<1> QED BY <1>1, <1>2, <1>3

LEMMA SlashesSpell ==
    LET d == <<":", "/", "/">>
    IN  /\ d \in Seq(Chars) /\ Len(d) = 3
        /\ \A t \in Seq(Chars), a \in Nat : Spells(t, a, d) => t[a + 1] = ":" /\ t[a + 2] = "/" /\ t[a + 3] = "/"
<1> DEFINE d == <<":", "/", "/">>
<1>1. ":" \in Chars /\ "/" \in Chars
  BY DEF Chars
<1>2. d \in Seq(Chars)
  BY <1>1
<1>3. Len(d) = 3 /\ d[1] = ":" /\ d[2] = "/" /\ d[3] = "/"
  OBVIOUS
<1> HIDE DEF d
<1>4. ASSUME NEW t \in Seq(Chars), NEW a \in Nat, Spells(t, a, d) PROVE t[a + 1] = ":" /\ t[a + 2] = "/" /\ t[a + 3] = "/"
  <2>1. \A i \in 1..3 : t[a + i] = d[i]
    BY <1>3, <1>4 DEF Spells
  <2> QED BY <1>3, <2>1
<1>5. d \in Seq(Chars) /\ Len(d) = 3
      /\ \A t \in Seq(Chars), a \in Nat : Spells(t, a, d) => t[a + 1] = ":" /\ t[a + 2] = "/" /\ t[a + 3] = "/"
  BY <1>2, <1>3, <1>4
<1> QED BY <1>5 DEF d

Lengths(u) ==
    /\ Len(u.scheme) \in Nat /\ Len(u.username) \in Nat /\ Len(u.password) \in Nat /\ Len(u.host) \in Nat
    /\ Len(u.port) \in Nat /\ Len(u.path) \in Nat /\ Len(u.query) \in Nat /\ Len(u.fragment) \in Nat

\* The offsets are in this order.
Ordered(u) ==
    /\ UserAt(u) \in Nat /\ UserEnd(u) \in Nat /\ LoginEnd(u) \in Nat /\ HostAt(u) \in Nat /\ HostFrom(u) \in Nat
    /\ HostTo(u) \in Nat /\ HostEnd(u) \in Nat /\ PortTo(u) \in Nat /\ PathTo(u) \in Nat /\ QueryTo(u) \in Nat
    /\ FragTo(u) \in Nat
    /\ Len(u.scheme) < UserAt(u) /\ UserAt(u) <= UserEnd(u) /\ UserEnd(u) <= LoginEnd(u)
    /\ UserAt(u) <= HostAt(u) /\ HostAt(u) <= HostFrom(u) /\ HostFrom(u) <= HostTo(u) /\ HostTo(u) <= HostEnd(u)
    /\ HostEnd(u) <= PortTo(u) /\ PortTo(u) <= PathTo(u) /\ PathTo(u) <= QueryTo(u) /\ QueryTo(u) <= FragTo(u)

LEMMA LengthsAre == ASSUME NEW u \in Servers PROVE Lengths(u)
BY PartsAreTexts, LenProperties DEF Lengths

LEMMA OffsetsOrdered == ASSUME NEW u \in Servers PROVE Ordered(u)
<1>1. Lengths(u)
  BY LengthsAre
<1>2. PICK s \in Nat, n \in Nat, w \in Nat, h \in Nat, o \in Nat, pa \in Nat, q \in Nat, f \in Nat :
        /\ s = Len(u.scheme) /\ n = Len(u.username) /\ w = Len(u.password) /\ h = Len(u.host)
        /\ o = Len(u.port) /\ pa = Len(u.path) /\ q = Len(u.query) /\ f = Len(u.fragment)
  BY <1>1 DEF Lengths
<1>3. PICK ua \in Nat, ue \in Nat : ua = UserAt(u) /\ ue = UserEnd(u) /\ s < ua /\ ua <= ue
  <2>1. PICK ua \in Nat : ua = UserAt(u) /\ s < ua
    BY SMTT(30), <1>2 DEF UserAt
  <2>2. PICK ue \in Nat : ue = UserEnd(u) /\ ua <= ue
    BY <1>2, <2>1 DEF UserEnd
  <2> QED BY <2>1, <2>2
<1>4. PICK le \in Nat : le = LoginEnd(u) /\ ue <= le
  BY <1>2, <1>3 DEF LoginEnd
<1>5. PICK ha \in Nat : ha = HostAt(u) /\ ua <= ha
  <2>1. ua <= le + 1 /\ le + 1 \in Nat
    BY <1>3, <1>4
  <2> QED BY <1>3, <1>4, <2>1 DEF HostAt
<1>6. PICK hf \in Nat : hf = HostFrom(u) /\ ha <= hf
  BY <1>5 DEF HostFrom
<1>7. PICK ht \in Nat : ht = HostTo(u) /\ hf <= ht
  BY <1>2, <1>6 DEF HostTo
<1>8. PICK he \in Nat : he = HostEnd(u) /\ ht <= he
  BY <1>7 DEF HostEnd
<1>9. PICK pt \in Nat : pt = PortTo(u) /\ he <= pt
  BY SMTT(30), <1>2, <1>8 DEF PortTo
<1>10. PICK pe \in Nat : pe = PathTo(u) /\ pt <= pe
  BY <1>2, <1>9 DEF PathTo
<1>11. PICK qe \in Nat : qe = QueryTo(u) /\ pe <= qe
  BY <1>2, <1>10 DEF QueryTo
<1>12. PICK fe \in Nat : fe = FragTo(u) /\ qe <= fe
  BY <1>2, <1>11 DEF FragTo
<1> QED
  BY <1>2, <1>3, <1>4, <1>5, <1>6, <1>7, <1>8, <1>9, <1>10, <1>11, <1>12 DEF Ordered

\* Where u is written, its parts are where From has them and its delimiters between.
LaidOut(u, t) ==
    /\ t \in Seq(Chars) /\ Len(t) = FragTo(u)
    /\ \A p \in Part : u[p] # << >> => Spells(t, From(u)[p], u[p])
    /\ Delimiters(u, t)

LEMMA WrittenIsLaidOut == ASSUME NEW u \in Servers PROVE LaidOut(u, Written(u))
<1> DEFINE slashes == <<":", "/", "/">>
           login == Option(<< >>, u.username \o Option(<<":">>, u.password, << >>), <<"@">>)
           size == Len(u.username) + (IF u.password = << >> THEN 0 ELSE 1 + Len(u.password))
           host == IF u.v6 THEN <<"[">> \o u.host \o <<"]">> ELSE u.host
           port == Option(<<":">>, u.port, << >>)
           query == Option(<<"?">>, u.query, << >>)
           fragment == Option(<<"#">>, u.fragment, << >>)
           w1 == u.scheme \o slashes
           w2 == w1 \o login
           w3 == w2 \o host
           w4 == w3 \o port
           w5 == w4 \o u.path
           w6 == w5 \o query
           t == w6 \o fragment
<1>1. Written(u) = t
  BY DEF Written
<1>2. Ordered(u) /\ Lengths(u)
  BY OffsetsOrdered, LengthsAre
<1>3. /\ u.scheme \in Seq(Chars) /\ u.port \in Seq(Chars) /\ u.path \in Seq(Chars)
      /\ u.query \in Seq(Chars) /\ u.fragment \in Seq(Chars)
  BY PartsAreTexts
<1>4. /\ ":" \in Chars /\ "?" \in Chars /\ "#" \in Chars
  BY DEF Chars
<1>5. /\ slashes \in Seq(Chars) /\ Len(slashes) = 3
      /\ \A x \in Seq(Chars), a \in Nat : Spells(x, a, slashes) => x[a + 1] = ":" /\ x[a + 2] = "/" /\ x[a + 3] = "/"
  BY SlashesSpell
<1>6. u.password # << >> => u.username # << >>
  BY ServersAreWellFormed DEF WellFormed
<1>7. /\ login \in Seq(Chars)
      /\ Len(login) = IF u.username = << >> THEN 0 ELSE size + 1
      /\ \A x \in Seq(Chars), a \in Nat : Spells(x, a, login) /\ u.username # << >> =>
           /\ Spells(x, a, u.username) /\ x[(a + size) + 1] = "@"
           /\ u.password # << >> => /\ x[(a + Len(u.username)) + 1] = ":"
                                    /\ Spells(x, (a + Len(u.username)) + 1, u.password)
  BY <1>6, LoginSpells
<1>8. /\ host \in Seq(Chars)
      /\ Len(host) = IF u.v6 THEN (Len(u.host) + 1) + 1 ELSE Len(u.host)
      /\ \A x \in Seq(Chars), a \in Nat : Spells(x, a, host) =>
           IF u.v6 THEN x[a + 1] = "[" /\ Spells(x, a + 1, u.host) /\ x[((a + 1) + Len(u.host)) + 1] = "]"
                   ELSE Spells(x, a, u.host)
  BY HostSpells
<1>9. /\ port \in Seq(Chars) /\ Len(port) = IF u.port = << >> THEN 0 ELSE 1 + Len(u.port)
      /\ \A x \in Seq(Chars), a \in Nat :
           Spells(x, a, port) /\ u.port # << >> => x[a + 1] = ":" /\ Spells(x, a + 1, u.port)
  BY <1>3, <1>4, OptionSpells
<1>10. /\ query \in Seq(Chars) /\ Len(query) = IF u.query = << >> THEN 0 ELSE 1 + Len(u.query)
       /\ \A x \in Seq(Chars), a \in Nat :
            Spells(x, a, query) /\ u.query # << >> => x[a + 1] = "?" /\ Spells(x, a + 1, u.query)
  BY <1>3, <1>4, OptionSpells
<1>11. /\ fragment \in Seq(Chars) /\ Len(fragment) = IF u.fragment = << >> THEN 0 ELSE 1 + Len(u.fragment)
       /\ \A x \in Seq(Chars), a \in Nat :
            Spells(x, a, fragment) /\ u.fragment # << >> => x[a + 1] = "#" /\ Spells(x, a + 1, u.fragment)
  BY <1>3, <1>4, OptionSpells
<1> HIDE DEF slashes, login, host, port, query, fragment
<1>12. UserAt(u) + size = LoginEnd(u)
  <2>1. PICK a \in Nat, n \in Nat, w \in Nat : a = UserAt(u) /\ n = Len(u.username) /\ w = Len(u.password)
    BY <1>2 DEF Ordered, Lengths
  <2>2. CASE u.password = << >>
    <3>1. size = n
      BY <2>1, <2>2
    <3>2. LoginEnd(u) = a + n
      BY <2>1, <2>2 DEF LoginEnd, UserEnd
    <3> QED BY <2>1, <3>1, <3>2
  <2>3. CASE u.password # << >>
    <3>1. size = n + (1 + w)
      BY <2>1, <2>3
    <3>2. LoginEnd(u) = (a + n) + 1 + w
      BY <2>1, <2>3 DEF LoginEnd, UserEnd
    <3>3. a + (n + (1 + w)) = (a + n) + 1 + w
      OBVIOUS
    <3> QED BY <2>1, <3>1, <3>2, <3>3
  <2> QED BY <2>2, <2>3
<1>13. size \in Nat
  <2>1. PICK n \in Nat, w \in Nat : n = Len(u.username) /\ w = Len(u.password)
    BY <1>2 DEF Lengths
  <2>2. size = n + (IF u.password = << >> THEN 0 ELSE 1 + w)
    BY <2>1
  <2>3. n + 0 \in Nat /\ n + (1 + w) \in Nat
    OBVIOUS
  <2> HIDE DEF size
  <2> QED BY <2>2, <2>3
<1> HIDE DEF size
<1>14. w1 \in Seq(Chars) /\ Len(w1) = UserAt(u)
  <2>1. w1 \in Seq(Chars) /\ Len(w1) = Len(u.scheme) + Len(slashes)
    BY <1>3, <1>5, SpellsConcat
  <2> QED BY <1>5, <2>1 DEF UserAt
<1> HIDE DEF w1
<1>15. w2 \in Seq(Chars) /\ Len(w2) = HostAt(u)
  <2>1. w2 \in Seq(Chars) /\ Len(w2) = UserAt(u) + Len(login)
    BY SMTT(30), <1>7, <1>14, SpellsConcat
  <2>2. PICK a \in Nat, n \in Nat : a = UserAt(u) /\ n = size
    BY <1>2, <1>13 DEF Ordered
  <2>3. CASE u.username = << >>
    BY <1>7, <2>1, <2>2, <2>3 DEF HostAt
  <2>4. CASE u.username # << >>
    <3>1. Len(login) = n + 1 /\ HostAt(u) = LoginEnd(u) + 1 /\ LoginEnd(u) = a + n
      BY <1>7, <1>12, <2>2, <2>4 DEF HostAt
    <3>2. a + (n + 1) = (a + n) + 1
      OBVIOUS
    <3> QED BY <2>1, <2>2, <3>1, <3>2
  <2> QED BY <2>3, <2>4
<1> HIDE DEF w2
<1>16. w3 \in Seq(Chars) /\ Len(w3) = HostEnd(u)
  <2>1. w3 \in Seq(Chars) /\ Len(w3) = HostAt(u) + Len(host)
    BY <1>8, <1>15, SpellsConcat
  <2>2. PICK a \in Nat, n \in Nat : a = HostAt(u) /\ n = Len(u.host)
    BY <1>2 DEF Ordered, Lengths
  <2>3. CASE u.v6
    <3>1. Len(host) = (n + 1) + 1 /\ HostEnd(u) = ((a + 1) + n) + 1
      BY <1>8, <2>2, <2>3 DEF HostEnd, HostTo, HostFrom
    <3>2. a + ((n + 1) + 1) = ((a + 1) + n) + 1
      OBVIOUS
    <3> QED BY <2>1, <2>2, <3>1, <3>2
  <2>4. CASE ~u.v6
    BY <1>8, <2>1, <2>2, <2>4 DEF HostEnd, HostTo, HostFrom
  <2> QED BY <2>3, <2>4
<1> HIDE DEF w3
<1>17. w4 \in Seq(Chars) /\ Len(w4) = PortTo(u)
  <2>1. w4 \in Seq(Chars) /\ Len(w4) = HostEnd(u) + Len(port)
    BY <1>9, <1>16, SpellsConcat
  <2>2. PICK a \in Nat, n \in Nat : a = HostEnd(u) /\ n = Len(u.port)
    BY <1>2 DEF Ordered, Lengths
  <2>3. Len(port) = (IF u.port = << >> THEN 0 ELSE 1 + n) /\ PortTo(u) = IF u.port = << >> THEN a ELSE a + 1 + n
    BY <1>9, <2>2 DEF PortTo
  <2>4. a + 0 = a /\ a + (1 + n) = a + 1 + n
    OBVIOUS
  <2> QED BY <2>1, <2>2, <2>3, <2>4
<1> HIDE DEF w4
<1>18. w5 \in Seq(Chars) /\ Len(w5) = PathTo(u)
  BY <1>3, <1>17, SpellsConcat DEF PathTo
<1> HIDE DEF w5
<1>19. w6 \in Seq(Chars) /\ Len(w6) = QueryTo(u)
  <2>1. w6 \in Seq(Chars) /\ Len(w6) = PathTo(u) + Len(query)
    BY <1>10, <1>18, SpellsConcat
  <2>2. PICK a \in Nat, n \in Nat : a = PathTo(u) /\ n = Len(u.query)
    BY <1>2 DEF Ordered, Lengths
  <2>3. Len(query) = (IF u.query = << >> THEN 0 ELSE 1 + n) /\ QueryTo(u) = IF u.query = << >> THEN a ELSE a + 1 + n
    BY <1>10, <2>2 DEF QueryTo
  <2>4. a + 0 = a /\ a + (1 + n) = a + 1 + n
    OBVIOUS
  <2> QED BY <2>1, <2>2, <2>3, <2>4
<1> HIDE DEF w6
<1>20. t \in Seq(Chars) /\ Len(t) = FragTo(u)
  <2>1. t \in Seq(Chars) /\ Len(t) = QueryTo(u) + Len(fragment)
    BY <1>11, <1>19, SpellsConcat
  <2>2. PICK a \in Nat, n \in Nat : a = QueryTo(u) /\ n = Len(u.fragment)
    BY <1>2 DEF Ordered, Lengths
  <2>3. Len(fragment) = (IF u.fragment = << >> THEN 0 ELSE 1 + n) /\ FragTo(u) = IF u.fragment = << >> THEN a ELSE a + 1 + n
    BY <1>11, <2>2 DEF FragTo
  <2>4. a + 0 = a /\ a + (1 + n) = a + 1 + n
    OBVIOUS
  <2> QED BY <2>1, <2>2, <2>3, <2>4
<1>21. Spells(t, 0, w6) /\ Spells(t, QueryTo(u), fragment)
  BY <1>11, <1>19, SpellsConcat
<1> HIDE DEF t
<1>22. Spells(t, 0, w5) /\ Spells(t, PathTo(u), query)
  <2>1. 0 + Len(w5) = PathTo(u)
    BY <1>2, <1>18 DEF Ordered
  <2> QED BY <1>10, <1>18, <1>20, <1>21, <2>1, SpellsSplit DEF w6
<1>23. Spells(t, 0, w4) /\ Spells(t, PortTo(u), u.path)
  <2>1. 0 + Len(w4) = PortTo(u)
    BY <1>2, <1>17 DEF Ordered
  <2> QED BY <1>3, <1>17, <1>20, <1>22, <2>1, SpellsSplit DEF w5
<1>24. Spells(t, 0, w3) /\ Spells(t, HostEnd(u), port)
  <2>1. 0 + Len(w3) = HostEnd(u)
    BY <1>2, <1>16 DEF Ordered
  <2> QED BY <1>9, <1>16, <1>20, <1>23, <2>1, SpellsSplit DEF w4
<1>25. Spells(t, 0, w2) /\ Spells(t, HostAt(u), host)
  <2>1. 0 + Len(w2) = HostAt(u)
    BY <1>2, <1>15 DEF Ordered
  <2> QED BY <1>8, <1>15, <1>20, <1>24, <2>1, SpellsSplit DEF w3
<1>26. Spells(t, 0, w1) /\ Spells(t, UserAt(u), login)
  <2>1. 0 + Len(w1) = UserAt(u)
    BY <1>2, <1>14 DEF Ordered
  <2> QED BY <1>7, <1>14, <1>20, <1>25, <2>1, SpellsSplit DEF w2
<1>27. Spells(t, 0, u.scheme) /\ Spells(t, Len(u.scheme), slashes)
  <2>1. 0 + Len(u.scheme) = Len(u.scheme)
    BY <1>2 DEF Lengths
  <2> QED BY <1>3, <1>5, <1>20, <1>26, <2>1, SpellsSplit DEF w1
<1>28. Delimiters(u, t)
  <2>1. t[Len(u.scheme) + 1] = ":" /\ t[Len(u.scheme) + 2] = "/" /\ t[Len(u.scheme) + 3] = "/"
    BY <1>2, <1>5, <1>20, <1>27 DEF Lengths
  <2>2. u.username # << >> => t[LoginEnd(u) + 1] = "@"
    BY <1>2, <1>7, <1>12, <1>20, <1>26 DEF Ordered
  <2>3. u.password # << >> => t[UserEnd(u) + 1] = ":"
    BY <1>2, <1>6, <1>7, <1>20, <1>26 DEF Ordered, UserEnd
  <2>4. u.v6 => t[HostAt(u) + 1] = "[" /\ t[HostTo(u) + 1] = "]"
    BY <1>2, <1>8, <1>20, <1>25 DEF Ordered, HostTo, HostFrom
  <2>5. u.port # << >> => t[HostEnd(u) + 1] = ":"
    BY <1>2, <1>9, <1>20, <1>24 DEF Ordered
  <2>6. u.query # << >> => t[PathTo(u) + 1] = "?"
    BY <1>2, <1>10, <1>20, <1>22 DEF Ordered
  <2>7. u.fragment # << >> => t[QueryTo(u) + 1] = "#"
    BY <1>2, <1>11, <1>20, <1>21 DEF Ordered
  <2> QED BY <2>1, <2>2, <2>3, <2>4, <2>5, <2>6, <2>7 DEF Delimiters
<1>29. ASSUME NEW p \in Part, u[p] # << >> PROVE Spells(t, From(u)[p], u[p])
  <2>1. CASE p = "scheme"
    BY <1>27, <2>1 DEF From
  <2>2. CASE p = "username"
    BY <1>2, <1>7, <1>20, <1>26, <1>29, <2>2 DEF From, Ordered
  <2>3. CASE p = "password"
    BY <1>2, <1>6, <1>7, <1>20, <1>26, <1>29, <2>3 DEF From, Ordered, UserEnd
  <2>4. CASE p = "host"
    BY <1>2, <1>8, <1>20, <1>25, <2>4 DEF From, Ordered, HostFrom
  <2>5. CASE p = "port"
    BY <1>2, <1>9, <1>20, <1>24, <1>29, <2>5 DEF From, Ordered
  <2>6. CASE p = "path"
    BY <1>23, <2>6 DEF From
  <2>7. CASE p = "query"
    BY <1>2, <1>10, <1>20, <1>22, <1>29, <2>7 DEF From, Ordered
  <2>8. CASE p = "fragment"
    BY <1>2, <1>11, <1>20, <1>21, <1>29, <2>8 DEF From, Ordered
  <2> QED BY <2>1, <2>2, <2>3, <2>4, <2>5, <2>6, <2>7, <2>8 DEF Part
<1> QED BY <1>1, <1>20, <1>28, <1>29 DEF LaidOut

-----------------------------------------------------------------------------
(* What is read where *)

Plain == Unreserved \cup SubDelims \cup {"%", " "}
PathChars == Unreserved \cup SubDelims \cup {"%", "/", "&", ":"}
QueryChars == HSegment \cup SubDelims \cup {"/", "?"}

LEMMA PlainIsApart == Plain \cap {":", "@", "/", "?", "#", "[", "]"} = {}
BY ClassesApart DEF Plain, Unreserved, SubDelims

LEMMA ClassesWithin ==
    /\ HexDigits \subseteq Plain /\ Digits \subseteq Plain /\ Unreserved \cup SubDelims \cup {"%"} \subseteq Plain
    /\ "#" \notin QueryChars /\ "?" \notin PathChars /\ "#" \notin PathChars
BY ClassesApart DEF HexDigits, Plain, Unreserved, SubDelims, QueryChars, PathChars, HSegment

\* The characters of a part.
LEMMA PartSpelled ==
    ASSUME NEW x \in Seq(Chars), NEW t \in Seq(Chars), NEW a \in Nat, NEW i \in Nat, Spells(t, a, x),
           a <= i, i < a + Len(x)
    PROVE  t[i + 1] \in ToSet(x)
<1>1. Len(x) \in Nat /\ DOMAIN x = 1..Len(x)
  BY LenProperties
<1>2. PICK n \in Nat : n = Len(x)
  BY <1>1
<1>3. (i - a) + 1 \in 1..n /\ a + ((i - a) + 1) = i + 1
  BY <1>2
<1>4. t[a + ((i - a) + 1)] = x[(i - a) + 1]
  BY <1>2, <1>3 DEF Spells
<1> QED BY <1>1, <1>2, <1>3, <1>4 DEF ToSet

\* The parts are not empty from start to end.
LEMMA NotEmpty == ASSUME NEW x \in Seq(Chars), x # << >> PROVE Len(x) \in Nat /\ Len(x) >= 1
BY EmptySeq, LenProperties

\* The view of each part, and where it ends.
Ends(u) == [scheme |-> Len(u.scheme), username |-> UserEnd(u), password |-> LoginEnd(u), host |-> HostTo(u),
            port |-> PortTo(u), path |-> PathTo(u), query |-> QueryTo(u), fragment |-> FragTo(u)]

LEMMA PartEnds ==
    ASSUME NEW u \in Servers, NEW p \in Part, u[p] # << >>
    PROVE  /\ From(u)[p] \in Nat /\ From(u)[p] + Len(u[p]) = Ends(u)[p] /\ Ends(u)[p] \in Nat
           /\ From(u)[p] < Ends(u)[p]
           /\ View(u, p) = <<From(u)[p], Ends(u)[p]>>
<1>1. Ordered(u) /\ Lengths(u)
  BY OffsetsOrdered, LengthsAre
<1>2. From(u)[p] \in Nat /\ Ends(u)[p] \in Nat
  <2>1. /\ UserAt(u) \in Nat /\ UserEnd(u) + 1 \in Nat /\ HostFrom(u) \in Nat /\ HostEnd(u) + 1 \in Nat
        /\ PortTo(u) \in Nat /\ PathTo(u) + 1 \in Nat /\ QueryTo(u) + 1 \in Nat
    BY SMTT(30), <1>1 DEF Ordered
  <2>2. From(u)[p] \in Nat
    BY <2>1 DEF From, Part
  <2>3. /\ Len(u.scheme) \in Nat /\ UserEnd(u) \in Nat /\ LoginEnd(u) \in Nat /\ HostTo(u) \in Nat
        /\ PortTo(u) \in Nat /\ PathTo(u) \in Nat /\ QueryTo(u) \in Nat /\ FragTo(u) \in Nat
    BY <1>1 DEF Ordered, Lengths
  <2>4. Ends(u)[p] \in Nat
    BY <2>3 DEF Ends, Part
  <2> QED BY <2>2, <2>4
<1>3. From(u)[p] + Len(u[p]) = Ends(u)[p]
  <2>1. CASE p = "scheme"
    BY <1>1, <2>1 DEF From, Ends, Lengths
  <2>2. CASE p = "username"
    BY <2>2 DEF From, Ends, UserEnd
  <2>3. CASE p = "password"
    BY <2>3 DEF From, Ends, LoginEnd
  <2>4. CASE p = "host"
    BY <2>4 DEF From, Ends, HostTo
  <2>5. CASE p = "port"
    BY <2>5 DEF From, Ends, PortTo
  <2>6. CASE p = "path"
    BY <2>6 DEF From, Ends, PathTo
  <2>7. CASE p = "query"
    BY <2>7 DEF From, Ends, QueryTo
  <2>8. CASE p = "fragment"
    BY <2>8 DEF From, Ends, FragTo
  <2> QED BY <2>1, <2>2, <2>3, <2>4, <2>5, <2>6, <2>7, <2>8 DEF Part
<1>4. u[p] \in Seq(Chars)
  BY PartsAreTexts
<1>5. PICK n \in Nat, a \in Nat : n = Len(u[p]) /\ n >= 1 /\ a = From(u)[p]
  BY <1>2, <1>4, NotEmpty
<1>6. a < a + n
  BY <1>5
<1> QED BY <1>2, <1>3, <1>5, <1>6 DEF View

LEMMA PartRuns ==
    ASSUME NEW u \in Servers, NEW p \in Part, u[p] # << >>, url = Written(u), b \in Nat,
           From(u)[p] <= b, b < Ends(u)[p]
    PROVE  c \in ToSet(u[p])
<1>1. LaidOut(u, url)
  BY WrittenIsLaidOut
<1>2. u[p] \in Seq(Chars)
  BY PartsAreTexts
<1> QED BY <1>1, <1>2, PartEnds, PartSpelled DEF LaidOut, c

\* What is handed out is the part.
LEMMA ViewReads ==
    ASSUME NEW u \in Servers, NEW p \in Part, url = Written(u)
    PROVE  Text(View(u, p)) = u[p]
<1>1. LaidOut(u, url)
  BY WrittenIsLaidOut
<1>2. u[p] \in Seq(Chars)
  BY PartsAreTexts
<1>3. CASE u[p] = << >>
  <2>1. View(u, p) = <<0, 0>>
    BY <1>3 DEF View, Empty
  <2>2. SubSeq(url, 0 + 1, 0) = << >>
    BY <1>1, SubSeqProperties, EmptySeq DEF LaidOut
  <2> QED BY <1>3, <2>1, <2>2 DEF Text
<1>4. CASE u[p] # << >>
  <2>1. PICK a \in Nat, e \in Nat : a = From(u)[p] /\ e = Ends(u)[p] /\ a + Len(u[p]) = e /\ View(u, p) = <<a, e>>
    BY <1>4, PartEnds
  <2>2. Spells(url, a, u[p])
    BY <1>1, <1>4, <2>1 DEF LaidOut
  <2>3. SubSeq(url, a + 1, a + Len(u[p])) = u[p]
    BY <1>1, <1>2, <2>2, SpellsText DEF LaidOut
  <2>4. Text(<<a, e>>) = SubSeq(url, a + 1, e)
    BY DEF Text
  <2> QED BY <2>1, <2>3, <2>4
<1> QED BY <1>3, <1>4

LEMMA HostPasses ==
    ASSUME NEW u \in Servers, url = Written(u)
    PROVE  /\ HostOk(u.v6, <<HostFrom(u), HostTo(u)>>) /\ u.host # << >>
           /\ View(u, "host") = <<HostFrom(u), HostTo(u)>> /\ HostFrom(u) < HostTo(u)
<1>1. u.host # << >> /\ <<u.v6, u.host>> \notin RefusedHosts /\ (u.v6 => ToSet(u.host) \subseteq HexDigits \cup {":"})
  BY ServersAreWellFormed DEF WellFormed
<1>2. "host" \in Part
  BY DEF Part
<1>3. View(u, "host") = <<HostFrom(u), HostTo(u)>> /\ HostFrom(u) < HostTo(u)
  BY <1>1, <1>2, PartEnds DEF From, Ends
<1>4. Text(View(u, "host")) = u.host
  BY <1>2, ViewReads
<1> QED BY <1>1, <1>3, <1>4 DEF HostOk

-----------------------------------------------------------------------------
(* How far a URL written from u has been read *)

\* The parts of P have been read, the others not.
Got(u, P) == [p \in Part |-> IF p \in P THEN View(u, p) ELSE Empty]

NoAddress == v6_start = Null /\ v6_end = Null /\ is_ipv6 = FALSE

InScheme(u) ==
    /\ \/ state = "scheme_start" /\ b = 0
       \/ state = "scheme" /\ 1 <= b /\ b <= Len(u.scheme)
    /\ part_start = 0 /\ NoAddress /\ probe = Empty /\ ~has_port /\ parts = Got(u, {})

InSlashes(u) ==
    /\ \/ state = "slash_start" /\ b = Len(u.scheme) + 1
       \/ state = "slash" /\ b = Len(u.scheme) + 2
    /\ NoAddress /\ probe = Empty /\ ~has_port /\ parts = Got(u, {"scheme"})

\* What is probed is a user: the first colon ends it.
InLogin(u) ==
    /\ u.username # << >> /\ state = "probe" /\ part_start = UserAt(u)
    /\ UserAt(u) <= b /\ b <= LoginEnd(u)
    /\ NoAddress /\ parts = Got(u, {"scheme"})
    /\ probe = IF b <= UserEnd(u) THEN Empty ELSE <<UserAt(u), UserEnd(u)>>

\* What is probed is a host, whose address may hold colons: what was probed counts
\* again from the bracket that closes it.
NamePort(u) ==
    /\ NoAddress
    /\ IF b <= HostEnd(u) THEN probe = Empty /\ ~has_port
                          ELSE probe = <<HostAt(u), HostEnd(u)>> /\ has_port /\ port_vaild

AddressPort(u) ==
    \/ b = HostAt(u) /\ NoAddress
    \/ HostAt(u) < b /\ b <= HostTo(u) /\ v6_start = HostFrom(u) /\ v6_end = Null /\ is_ipv6
    \/ /\ HostEnd(u) <= b /\ v6_start = HostFrom(u) /\ v6_end = HostTo(u) /\ is_ipv6
       /\ IF b = HostEnd(u) THEN probe = Empty ELSE probe = <<HostAt(u), HostEnd(u)>> /\ port_vaild

InHostProbe(u) ==
    /\ u.username = << >> /\ state = "probe" /\ part_start = HostAt(u)
    /\ HostAt(u) <= b /\ b <= PortTo(u)
    /\ parts = Got(u, {"scheme"})
    /\ IF u.v6 THEN AddressPort(u) ELSE NamePort(u)

InHost(u) ==
    /\ u.username # << >> /\ state = "host" /\ part_start = HostAt(u)
    /\ HostAt(u) <= b /\ b <= HostTo(u)
    /\ parts = Got(u, {"scheme", "username", "password"})
    /\ IF u.v6 /\ b > HostAt(u) THEN v6_start = HostFrom(u) /\ is_ipv6 ELSE NoAddress

ToHost == {"scheme", "username", "password", "host"}

InPort(u) ==
    /\ u.port # << >> /\ state = "port" /\ part_start = HostEnd(u) + 1
    /\ part_start <= b /\ b <= PortTo(u) /\ parts = Got(u, ToHost)

InPath(u) ==
    /\ u.path # << >> /\ state = "path" /\ part_start = PortTo(u)
    /\ part_start <= b /\ b <= PathTo(u) /\ parts = Got(u, ToHost \cup {"port"})

InQuery(u) ==
    /\ u.query # << >> /\ state = "query" /\ part_start = PathTo(u) + 1
    /\ part_start <= b /\ b <= QueryTo(u) /\ parts = Got(u, ToHost \cup {"port", "path"})

InFragment(u) ==
    /\ u.fragment # << >> /\ state = "fragment" /\ part_start = QueryTo(u) + 1
    /\ part_start <= b /\ b <= FragTo(u) /\ parts = Got(u, ToHost \cup {"port", "path", "query"})

InTail(u) == InPort(u) \/ InPath(u) \/ InQuery(u) \/ InFragment(u)

ReadTo(u) == InScheme(u) \/ InSlashes(u) \/ InLogin(u) \/ InHostProbe(u) \/ InHost(u) \/ InTail(u)

ReadSo(u) ==
    \/ verdict = "parsing" /\ b < Len(url) /\ ReadTo(u)
    \/ verdict = "accepted" /\ parts = Got(u, Part)

RoundInv == given # Unknown => b \in Nat /\ given \in Servers /\ url = Written(given) /\ ReadSo(given)

LEMMA GotGrows ==
    ASSUME NEW u, NEW P, NEW p \in Part, parts = Got(u, P), NEW w, w = View(u, p)
    PROVE  With(p, w) = Got(u, P \cup {p})
BY DEF With, Got

LEMMA GotSame ==
    ASSUME NEW u, NEW P, NEW p \in Part, u[p] = << >>
    PROVE  Got(u, P \cup {p}) = Got(u, P)
BY DEF Got, View

LEMMA GotAll == ASSUME NEW u PROVE Got(u, ToHost \cup {"port", "path", "query", "fragment"}) = Got(u, Part)
BY DEF ToHost, Part

LEMMA WrittenEnds ==
    ASSUME NEW u \in Servers, url = Written(u)
    PROVE  Len(url) = FragTo(u) /\ Len(url) \in Nat
BY WrittenIsLaidOut, OffsetsOrdered DEF LaidOut, Ordered

\* Each state has its actions.
LEMMA ParseByState ==
    ASSUME Parse, Reads, b \in Nat, Len(url) \in Nat
    PROVE  /\ state = "scheme_start" => SchemeStart
           /\ state = "scheme" => Scheme
           /\ state = "slash_start" => SlashStart
           /\ state = "slash" => Slash
           /\ state = "probe" => ProbeUser \/ ProbeColon \/ ProbeDelimiter \/ ProbeLast \/ ProbeOther
           /\ state = "host" => HostOpens \/ HostCloses \/ HostDelimiter \/ HostOther
           /\ state = "port" => Port
           /\ state = "path" => Path
           /\ state = "query" => Query
           /\ state = "fragment" => Fragment
<1>1. ~RunOut
  BY DEF RunOut, Reads
<1>2. /\ SchemeStart => state = "scheme_start"
      /\ Scheme => state = "scheme"
      /\ SlashStart => state = "slash_start"
      /\ Urn => state = "urn"
      /\ Slash => state = "slash"
  BY DEF SchemeStart, Scheme, SlashStart, Urn, Slash, In
<1>3. ProbeUser \/ ProbeColon \/ ProbeDelimiter \/ ProbeLast \/ ProbeOther => state = "probe"
  BY DEF ProbeUser, ProbeColon, ProbeDelimiter, ProbeLast, ProbeOther, In
<1>4. HostOpens \/ HostCloses \/ HostDelimiter \/ HostOther => state = "host"
  BY DEF HostOpens, HostCloses, HostDelimiter, HostOther, In
<1>5. (Port => state = "port") /\ (Path => state = "path") /\ (Query => state = "query") /\ (Fragment => state = "fragment")
  BY DEF Port, Path, Query, Fragment, Reading, In
<1> QED BY <1>1, <1>2, <1>3, <1>4, <1>5 DEF Parse

-----------------------------------------------------------------------------
(* The parts behind the host *)

\* The delimiter at e takes the parser to the part behind it.
Goes(e) == \/ url[e + 1] = "/" /\ GoTo("path", e, e)
           \/ url[e + 1] = "?" /\ GoTo("query", e + 1, e + 1)
           \/ url[e + 1] = "#" /\ GoTo("fragment", e + 1, e + 1)

LEMMA GoesFromQuery ==
    ASSUME NEW u \in Servers, url = Written(u), verdict = "parsing", QueryTo(u) < Len(url),
           parts' = Got(u, ToHost \cup {"port", "path", "query"})
    PROVE  /\ u.fragment # << >> /\ url[QueryTo(u) + 1] = "#" /\ QueryTo(u) + 1 < Len(url)
           /\ Goes(QueryTo(u)) => ReadSo(u)' /\ b' \in Nat
<1>1. PICK q \in Nat, f \in Nat : q = QueryTo(u) /\ f = FragTo(u) /\ f = Len(url)
  BY WrittenEnds, OffsetsOrdered DEF Ordered
<1>2. u.fragment # << >>
  BY <1>1 DEF FragTo
<1>3. "fragment" \in Part /\ u.fragment \in Seq(Chars)
  BY PartsAreTexts DEF Part
<1>4. q + 1 < f
  BY <1>1, <1>2, <1>3, PartEnds DEF From, Ends
<1>5. url[q + 1] = "#"
  BY <1>1, <1>2, WrittenIsLaidOut DEF LaidOut, Delimiters
<1>6. ASSUME Goes(q) PROVE ReadSo(u)' /\ b' \in Nat
  <2>1. GoTo("fragment", q + 1, q + 1)
    BY <1>5, <1>6 DEF Goes
  <2>2. state' = "fragment" /\ part_start' = q + 1 /\ b' = q + 1 /\ url' = url /\ verdict' = "parsing"
    BY <2>1 DEF GoTo
  <2>3. InFragment(u)'
    BY <1>1, <1>2, <1>4, <2>2 DEF InFragment
  <2>4. b' < Len(url')
    BY <1>1, <1>4, <2>2
  <2> QED BY <1>1, <2>2, <2>3, <2>4 DEF ReadSo, ReadTo, InTail
<1> QED BY <1>1, <1>2, <1>4, <1>5, <1>6

LEMMA GoesFromPath ==
    ASSUME NEW u \in Servers, url = Written(u), verdict = "parsing", PathTo(u) < Len(url),
           parts' = Got(u, ToHost \cup {"port", "path"})
    PROVE  /\ url[PathTo(u) + 1] \in {"?", "#"} /\ PathTo(u) + 1 < Len(url)
           /\ Goes(PathTo(u)) => ReadSo(u)' /\ b' \in Nat
<1>1. PICK e \in Nat, q \in Nat, f \in Nat : e = PathTo(u) /\ q = QueryTo(u) /\ f = Len(url) /\ q <= f
  BY WrittenEnds, OffsetsOrdered DEF Ordered
<1>2. "query" \in Part /\ u.query \in Seq(Chars)
  BY PartsAreTexts DEF Part
<1>3. CASE u.query = << >>
  <2>1. QueryTo(u) = PathTo(u)
    BY <1>3 DEF QueryTo
  <2>2. parts' = Got(u, ToHost \cup {"port", "path", "query"})
    <3>1. Got(u, (ToHost \cup {"port", "path"}) \cup {"query"}) = Got(u, ToHost \cup {"port", "path"})
      BY <1>2, <1>3, GotSame
    <3>2. (ToHost \cup {"port", "path"}) \cup {"query"} = ToHost \cup {"port", "path", "query"}
      OBVIOUS
    <3> QED BY <3>1, <3>2
  <2> QED BY <2>1, <2>2, GoesFromQuery
<1>4. CASE u.query # << >>
  <2>1. e + 1 < q
    BY <1>1, <1>2, <1>4, PartEnds DEF From, Ends
  <2>2. url[e + 1] = "?"
    BY <1>1, <1>4, WrittenIsLaidOut DEF LaidOut, Delimiters
  <2>3. ASSUME Goes(e) PROVE ReadSo(u)' /\ b' \in Nat
    <3>1. GoTo("query", e + 1, e + 1)
      BY <2>2, <2>3 DEF Goes
    <3>2. state' = "query" /\ part_start' = e + 1 /\ b' = e + 1 /\ url' = url /\ verdict' = "parsing"
      BY <3>1 DEF GoTo
    <3>3. InQuery(u)'
      BY <1>1, <1>4, <2>1, <3>2 DEF InQuery
    <3>4. b' < Len(url')
      BY <1>1, <2>1, <3>2
    <3> QED BY <1>1, <3>2, <3>3, <3>4 DEF ReadSo, ReadTo, InTail
  <2> QED BY <1>1, <2>1, <2>2, <2>3
<1> QED BY <1>3, <1>4

LEMMA GoesFromPort ==
    ASSUME NEW u \in Servers, url = Written(u), verdict = "parsing", PortTo(u) < Len(url),
           parts' = Got(u, ToHost \cup {"port"})
    PROVE  /\ url[PortTo(u) + 1] \in {"/", "?", "#"} /\ (url[PortTo(u) + 1] # "/" => PortTo(u) + 1 < Len(url))
           /\ Goes(PortTo(u)) => ReadSo(u)' /\ b' \in Nat
<1>1. PICK e \in Nat, p \in Nat, f \in Nat : e = PortTo(u) /\ p = PathTo(u) /\ f = Len(url) /\ e < f
  BY WrittenEnds, OffsetsOrdered DEF Ordered
<1>2. "path" \in Part /\ u.path \in Seq(Chars)
  BY PartsAreTexts DEF Part
<1>3. CASE u.path = << >>
  <2>1. PathTo(u) = PortTo(u)
    <3>1. Len(u.path) = 0
      BY <1>3
    <3> QED BY <1>1, <3>1 DEF PathTo
  <2>2. parts' = Got(u, ToHost \cup {"port", "path"})
    <3>1. Got(u, (ToHost \cup {"port"}) \cup {"path"}) = Got(u, ToHost \cup {"port"})
      BY <1>2, <1>3, GotSame
    <3>2. (ToHost \cup {"port"}) \cup {"path"} = ToHost \cup {"port", "path"}
      OBVIOUS
    <3> QED BY <3>1, <3>2
  <2> QED BY <2>1, <2>2, GoesFromPath
<1>4. CASE u.path # << >>
  <2>1. e < p
    BY <1>1, <1>2, <1>4, PartEnds DEF From, Ends
  <2>2. url[e + 1] = "/"
    <3>1. u.path[1] = "/"
      BY <1>4, ServersAreWellFormed DEF WellFormed
    <3>2. Spells(url, e, u.path)
      BY <1>1, <1>2, <1>4, WrittenIsLaidOut DEF LaidOut, From
    <3>3. 1 \in 1..Len(u.path)
      BY <1>2, <1>4, NotEmpty
    <3> QED BY <3>1, <3>2, <3>3 DEF Spells
  <2>3. ASSUME Goes(e) PROVE ReadSo(u)' /\ b' \in Nat
    <3>1. GoTo("path", e, e)
      BY <2>2, <2>3 DEF Goes
    <3>2. state' = "path" /\ part_start' = e /\ b' = e /\ url' = url /\ verdict' = "parsing"
      BY <3>1 DEF GoTo
    <3>3. InPath(u)'
      BY <1>1, <1>4, <2>1, <3>2 DEF InPath
    <3>4. b' < Len(url')
      BY <1>1, <3>2
    <3> QED BY <1>1, <3>2, <3>3, <3>4 DEF ReadSo, ReadTo, InTail
  <2> QED BY <1>1, <2>1, <2>2, <2>3
<1> QED BY <1>3, <1>4

\* A delimiter read where a part ends.
LEMMA DelimitedGoes ==
    ASSUME Delimited, c # "/" => b + 1 < Len(url), b \in Nat, Len(url) \in Nat
    PROVE  Goes(b)
BY DEF Delimited, Goes, AtEnd, After, c

\* A part in the state of its name, from from to to: it is read on, or it ends with
\* the text, or at a delimiter.
LEMMA ReadingOn ==
    ASSUME NEW p \in Part, NEW D, NEW allowed, NEW to \in Nat, b \in Nat, Len(url) \in Nat, to <= Len(url),
           Reading(p, D, allowed), b <= to,
           b < to => c \in allowed \ D,
           b = to => c \in D
    PROVE  \/ b < to /\ b + 1 < Len(url) /\ Stay
           \/ b < to /\ b + 1 = to /\ to = Len(url) /\ Accept /\ parts' = With(p, <<part_start, to>>)
           \/ b = to /\ Delimited /\ parts' = With(p, <<part_start, to>>)
<1>1. b < Len(url)
  BY DEF Reading, In, Reads
<1>2. AtEnd <=> b + 1 = Len(url)
  BY DEF AtEnd, After
<1>3. CASE b < to
  <2>1. c \in allowed /\ c \notin D
    BY <1>3
  <2>2. CASE b + 1 = Len(url)
    <3>1. b + 1 = to
      BY <1>3, <2>2
    <3>2. Accept /\ parts' = With(p, <<part_start, After>>)
      BY <1>2, <2>1, <2>2 DEF Reading
    <3> QED BY <1>3, <2>2, <3>1, <3>2 DEF After
  <2>3. CASE b + 1 # Len(url)
    <3>1. Stay
      BY <1>2, <2>1, <2>3 DEF Reading
    <3> QED BY <1>1, <1>3, <2>3, <3>1
  <2> QED BY <2>2, <2>3
<1>4. CASE b = to
  <2>1. parts' = With(p, <<part_start, b>>) /\ Delimited
    BY <1>4 DEF Reading
  <2> QED BY <1>4, <2>1
<1> QED BY <1>3, <1>4

LEMMA StaysSo ==
    ASSUME Stay
    PROVE  /\ url' = url /\ state' = state /\ verdict' = verdict /\ part_start' = part_start /\ parts' = parts
           /\ v6_start' = v6_start /\ v6_end' = v6_end /\ is_ipv6' = is_ipv6
           /\ has_port' = has_port /\ port_vaild' = port_vaild /\ probe' = probe /\ b' = b + 1
BY DEF Stay, After, v6, ports

LEMMA Accepted ==
    ASSUME NEW u \in Servers, Accept, b \in Nat, parts' = Got(u, Part)
    PROVE  ReadSo(u)' /\ b' \in Nat
BY DEF ReadSo, Accept, After, Got

\* The fragment and the query may end the text.
LEMMA FragmentReads ==
    ASSUME NEW u \in Servers, url = Written(u), Reads, b \in Nat, InFragment(u), Parse
    PROVE  ReadSo(u)' /\ b' \in Nat
<1>1. PICK f \in Nat : f = FragTo(u) /\ f = Len(url)
  BY WrittenEnds
<1>2. b < f /\ b + 1 <= f
  BY <1>1 DEF Reads
<1>3. "fragment" \in Part /\ u["fragment"] # << >> /\ From(u)["fragment"] = part_start /\ Ends(u)["fragment"] = f
  BY <1>1 DEF Part, InFragment, From, Ends
<1>4. View(u, "fragment") = <<part_start, f>>
  BY <1>3, PartEnds
<1>5. c \in ToSet(u.fragment)
  BY <1>2, <1>3, PartRuns DEF InFragment
<1>6. c \in QueryChars \ {}
  BY <1>5, ServersAreWellFormed DEF WellFormed, QueryChars
<1>7. Reading("fragment", {}, QueryChars)
  BY <1>1, ParseByState DEF Fragment, QueryChars, InFragment
<1>8. \/ b + 1 < Len(url) /\ Stay
      \/ Accept /\ parts' = With("fragment", <<part_start, f>>)
  BY <1>1, <1>2, <1>3, <1>6, <1>7, ReadingOn
<1>9. CASE b + 1 < Len(url) /\ Stay
  <2>1. InFragment(u)' /\ b' \in Nat /\ b' < Len(url') /\ verdict' = "parsing"
    BY <1>1, <1>2, <1>9, StaysSo, PartEnds, <1>3 DEF InFragment, Reads, Got
  <2> QED BY <2>1 DEF ReadSo, ReadTo, InTail
<1>10. CASE Accept /\ parts' = With("fragment", <<part_start, f>>)
  <2>1. parts' = Got(u, (ToHost \cup {"port", "path", "query"}) \cup {"fragment"})
    BY <1>3, <1>4, <1>10, GotGrows DEF InFragment
  <2>2. (ToHost \cup {"port", "path", "query"}) \cup {"fragment"} = ToHost \cup {"port", "path", "query", "fragment"}
    OBVIOUS
  <2> QED BY <1>10, <2>1, <2>2, GotAll, Accepted
<1> QED BY <1>8, <1>9, <1>10

LEMMA QueryReads ==
    ASSUME NEW u \in Servers, url = Written(u), Reads, b \in Nat, InQuery(u), Parse
    PROVE  ReadSo(u)' /\ b' \in Nat
<1>1. PICK q \in Nat, f \in Nat : q = QueryTo(u) /\ f = FragTo(u) /\ f = Len(url) /\ q <= f
  BY WrittenEnds, OffsetsOrdered DEF Ordered
<1>2. b < f /\ b <= q /\ verdict = "parsing"
  BY <1>1 DEF Reads, InQuery
<1>3. "query" \in Part /\ u["query"] # << >> /\ From(u)["query"] = part_start /\ Ends(u)["query"] = q
  BY <1>1 DEF Part, InQuery, From, Ends
<1>4. View(u, "query") = <<part_start, q>> /\ part_start \in Nat
  BY <1>3, PartEnds
<1>5. b < q => c \in QueryChars \ {"#"}
  <2>1. SUFFICES ASSUME b < q PROVE c \in QueryChars \ {"#"}
    OBVIOUS
  <2>2. c \in ToSet(u.query)
    BY <1>3, <2>1, PartRuns DEF InQuery
  <2>3. c \in QueryChars
    BY <2>2, ServersAreWellFormed DEF WellFormed, QueryChars
  <2> QED BY <2>3, ClassesWithin
<1>6. parts' = With("query", <<part_start, q>>) => parts' = Got(u, ToHost \cup {"port", "path", "query"})
  <2>1. With("query", <<part_start, q>>) = Got(u, (ToHost \cup {"port", "path"}) \cup {"query"})
    BY <1>3, <1>4, GotGrows DEF InQuery
  <2>2. (ToHost \cup {"port", "path"}) \cup {"query"} = ToHost \cup {"port", "path", "query"}
    OBVIOUS
  <2> QED BY <2>1, <2>2
<1>7. b = q => c \in {"#"}
  <2>1. "#" = url[q + 1] \/ b < q
    <3>1. u.fragment # << >> \/ q = f
      BY <1>1 DEF FragTo
    <3>2. u.fragment # << >> => url[q + 1] = "#"
      BY <1>1, WrittenIsLaidOut DEF LaidOut, Delimiters
    <3> QED BY <1>2, <3>1, <3>2
  <2> QED BY <2>1 DEF c
<1>8. Reading("query", {"#"}, QueryChars)
  BY <1>1, ParseByState DEF Query, QueryChars, InQuery
<1>9. \/ b < q /\ b + 1 < Len(url) /\ Stay
      \/ b + 1 = q /\ q = Len(url) /\ Accept /\ parts' = With("query", <<part_start, q>>)
      \/ b = q /\ Delimited /\ parts' = With("query", <<part_start, q>>)
  BY <1>1, <1>2, <1>3, <1>5, <1>7, <1>8, ReadingOn
<1>10. CASE b < q /\ b + 1 < Len(url) /\ Stay
  <2>1. InQuery(u)' /\ b' \in Nat /\ b' < Len(url') /\ verdict' = "parsing"
    BY <1>1, <1>2, <1>4, <1>10, StaysSo DEF InQuery, Got
  <2> QED BY <2>1 DEF ReadSo, ReadTo, InTail
<1>11. CASE q = Len(url) /\ Accept /\ parts' = With("query", <<part_start, q>>)
  <2>1. u["fragment"] = << >> /\ "fragment" \in Part
    <3>1. "fragment" \in Part
      BY DEF Part
    <3>2. u["fragment"] # << >> => q + 1 < f
      BY <1>1, <3>1, PartEnds DEF From, Ends
    <3> QED BY <1>1, <1>11, <3>1, <3>2
  <2>2. parts' = Got(u, (ToHost \cup {"port", "path", "query"}) \cup {"fragment"})
    BY <1>6, <1>11, <2>1, GotSame
  <2>3. (ToHost \cup {"port", "path", "query"}) \cup {"fragment"} = ToHost \cup {"port", "path", "query", "fragment"}
    OBVIOUS
  <2> QED BY <1>11, <2>2, <2>3, GotAll, Accepted
<1>12. CASE b = q /\ Delimited /\ parts' = With("query", <<part_start, q>>)
  <2>1. QueryTo(u) < Len(url)
    BY <1>1, <1>2, <1>12
  <2>2. q + 1 < Len(url) /\ (Goes(q) => ReadSo(u)' /\ b' \in Nat)
    BY <1>1, <1>2, <1>6, <1>12, <2>1, GoesFromQuery
  <2> QED BY <1>1, <1>12, <2>2, DelimitedGoes
<1> QED BY <1>9, <1>10, <1>11, <1>12

\* The parts behind the end of the text are empty.
LEMMA NothingLeft ==
    ASSUME NEW u \in Servers, url = Written(u)
    PROVE  /\ PathTo(u) = Len(url) => Got(u, ToHost \cup {"port", "path"}) = Got(u, Part)
           /\ PortTo(u) = Len(url) => Got(u, ToHost \cup {"port"}) = Got(u, Part)
           /\ HostEnd(u) = Len(url) => Got(u, ToHost) = Got(u, Part)
<1>1. PICK h \in Nat, o \in Nat, p \in Nat, q \in Nat, f \in Nat :
        /\ h = HostEnd(u) /\ o = PortTo(u) /\ p = PathTo(u) /\ q = QueryTo(u) /\ f = Len(url) /\ f = FragTo(u)
        /\ h <= o /\ o <= p /\ p <= q /\ q <= f
  BY WrittenEnds, OffsetsOrdered DEF Ordered
<1>2. /\ u["port"] # << >> => h + 1 < o
      /\ u["path"] # << >> => o < p
      /\ u["query"] # << >> => p + 1 < q
      /\ u["fragment"] # << >> => q + 1 < f
  BY <1>1, PartEnds DEF From, Ends, Part
<1>3. p = f => u["query"] = << >> /\ u["fragment"] = << >>
  BY <1>1, <1>2
<1>4. o = f => u["path"] = << >> /\ p = f
  BY <1>1, <1>2
<1>5. h = f => u["port"] = << >> /\ o = f
  BY <1>1, <1>2
<1>6. u["query"] = << >> /\ u["fragment"] = << >> => Got(u, ToHost \cup {"port", "path"}) = Got(u, Part)
  BY DEF Got, View, Part, ToHost
<1>7. u["path"] = << >> => Got(u, ToHost \cup {"port", "path"}) = Got(u, ToHost \cup {"port"})
  BY DEF Got, View, Part
<1>8. u["port"] = << >> => Got(u, ToHost \cup {"port"}) = Got(u, ToHost)
  BY DEF Got, View, Part
<1> QED BY <1>1, <1>3, <1>4, <1>5, <1>6, <1>7, <1>8

LEMMA PathReads ==
    ASSUME NEW u \in Servers, url = Written(u), Reads, b \in Nat, InPath(u), Parse
    PROVE  ReadSo(u)' /\ b' \in Nat
<1>1. PICK q \in Nat, f \in Nat : q = PathTo(u) /\ f = FragTo(u) /\ f = Len(url) /\ q <= f
  <2>1. PathTo(u) <= FragTo(u) /\ PathTo(u) \in Nat
    BY OffsetsOrdered DEF Ordered
  <2> QED BY <2>1, WrittenEnds
<1>2. b < f /\ b <= q /\ verdict = "parsing"
  BY <1>1 DEF Reads, InPath
<1>3. "path" \in Part /\ u["path"] # << >> /\ From(u)["path"] = part_start /\ Ends(u)["path"] = q
  BY <1>1 DEF Part, InPath, From, Ends
<1>4. View(u, "path") = <<part_start, q>> /\ part_start \in Nat
  BY <1>3, PartEnds
<1>5. b < q => c \in PathChars \ {"?", "#"}
  <2>1. SUFFICES ASSUME b < q PROVE c \in PathChars \ {"?", "#"}
    OBVIOUS
  <2>2. c \in ToSet(u.path)
    BY <1>3, <2>1, PartRuns DEF InPath
  <2>3. c \in PathChars
    BY <2>2, ServersAreWellFormed DEF WellFormed, PathChars
  <2> QED BY <2>3, ClassesWithin
<1>6. parts' = With("path", <<part_start, q>>) => parts' = Got(u, ToHost \cup {"port", "path"})
  <2>1. With("path", <<part_start, q>>) = Got(u, (ToHost \cup {"port"}) \cup {"path"})
    BY <1>3, <1>4, GotGrows DEF InPath
  <2>2. (ToHost \cup {"port"}) \cup {"path"} = ToHost \cup {"port", "path"}
    OBVIOUS
  <2> QED BY <2>1, <2>2
<1>7. b = q => c \in {"?", "#"}
  <2>1. SUFFICES ASSUME b = q PROVE c \in {"?", "#"}
    OBVIOUS
  <2>2. u.query # << >> => url[q + 1] = "?"
    BY <1>1, WrittenIsLaidOut DEF LaidOut, Delimiters
  <2>3. u.query = << >> => QueryTo(u) = q
    BY <1>1 DEF QueryTo
  <2>4. QueryTo(u) = q => u.fragment # << >>
    BY <1>1, <1>2, <2>1 DEF FragTo
  <2>5. QueryTo(u) = q /\ u.fragment # << >> => url[q + 1] = "#"
    BY <1>1, WrittenIsLaidOut DEF LaidOut, Delimiters
  <2> QED BY <2>1, <2>2, <2>3, <2>4, <2>5 DEF c
<1>8. Reading("path", {"?", "#"}, PathChars)
  BY <1>1, ParseByState DEF Path, PathChars, InPath
<1>9. \/ b < q /\ b + 1 < Len(url) /\ Stay
      \/ b + 1 = q /\ q = Len(url) /\ Accept /\ parts' = With("path", <<part_start, q>>)
      \/ b = q /\ Delimited /\ parts' = With("path", <<part_start, q>>)
  BY <1>1, <1>2, <1>3, <1>5, <1>7, <1>8, ReadingOn
<1>10. CASE b < q /\ b + 1 < Len(url) /\ Stay
  <2>1. InPath(u)' /\ b' \in Nat /\ b' < Len(url') /\ verdict' = "parsing"
    BY <1>1, <1>2, <1>4, <1>10, StaysSo DEF InPath, Got
  <2> QED BY <2>1 DEF ReadSo, ReadTo, InTail
<1>11. CASE q = Len(url) /\ Accept /\ parts' = With("path", <<part_start, q>>)
  BY <1>1, <1>6, <1>11, NothingLeft, Accepted
<1>12. CASE b = q /\ Delimited /\ parts' = With("path", <<part_start, q>>)
  <2>1. PathTo(u) < Len(url)
    BY <1>1, <1>2, <1>12
  <2>2. q + 1 < Len(url) /\ (Goes(q) => ReadSo(u)' /\ b' \in Nat)
    BY <1>1, <1>2, <1>6, <1>12, <2>1, GoesFromPath
  <2> QED BY <1>1, <1>12, <2>2, DelimitedGoes
<1> QED BY <1>9, <1>10, <1>11, <1>12

\* Behind host and port comes a delimiter, if anything does.
LEMMA BehindPort ==
    ASSUME NEW u \in Servers, url = Written(u), PortTo(u) < Len(url)
    PROVE  url[PortTo(u) + 1] \in {"/", "?", "#"}
<1>1. PICK e \in Nat, p \in Nat, q \in Nat, f \in Nat :
        e = PortTo(u) /\ p = PathTo(u) /\ q = QueryTo(u) /\ f = Len(url) /\ f = FragTo(u) /\ e < f
  BY WrittenEnds, OffsetsOrdered DEF Ordered
<1>2. u.path # << >> => url[e + 1] = "/"
  <2>1. SUFFICES ASSUME u.path # << >> PROVE url[e + 1] = "/"
    OBVIOUS
  <2>2. "path" \in Part /\ u.path \in Seq(Chars)
    BY PartsAreTexts DEF Part
  <2>3. u.path[1] = "/"
    BY <2>1, ServersAreWellFormed DEF WellFormed
  <2>4. Spells(url, e, u.path)
    BY <1>1, <2>1, <2>2, WrittenIsLaidOut DEF LaidOut, From
  <2>5. 1 \in 1..Len(u.path)
    BY <2>1, <2>2, NotEmpty
  <2> QED BY <2>3, <2>4, <2>5 DEF Spells
<1>3. u.path = << >> => p = e
  <2>1. u.path = << >> => Len(u.path) = 0
    OBVIOUS
  <2> QED BY <1>1, <2>1 DEF PathTo
<1>4. u.query # << >> => url[p + 1] = "?"
  BY <1>1, WrittenIsLaidOut DEF LaidOut, Delimiters
<1>5. u.query = << >> => q = p
  BY <1>1 DEF QueryTo
<1>6. u.fragment # << >> => url[q + 1] = "#"
  BY <1>1, WrittenIsLaidOut DEF LaidOut, Delimiters
<1>7. u.fragment = << >> => f = q
  BY <1>1 DEF FragTo
<1> QED BY <1>1, <1>2, <1>3, <1>4, <1>5, <1>6, <1>7

LEMMA PortReads ==
    ASSUME NEW u \in Servers, url = Written(u), Reads, b \in Nat, InPort(u), Parse
    PROVE  ReadSo(u)' /\ b' \in Nat
<1>1. PICK q \in Nat, f \in Nat : q = PortTo(u) /\ f = FragTo(u) /\ f = Len(url) /\ q <= f
  <2>1. PortTo(u) <= FragTo(u) /\ PortTo(u) \in Nat
    BY OffsetsOrdered DEF Ordered
  <2> QED BY <2>1, WrittenEnds
<1>2. b < f /\ b <= q /\ verdict = "parsing"
  BY <1>1 DEF Reads, InPort
<1>3. "port" \in Part /\ u["port"] # << >> /\ From(u)["port"] = part_start /\ Ends(u)["port"] = q
  BY <1>1 DEF Part, InPort, From, Ends
<1>4. View(u, "port") = <<part_start, q>> /\ part_start \in Nat
  BY <1>3, PartEnds
<1>5. b < q => c \in Digits \ {"/", "?", "#"}
  <2>1. SUFFICES ASSUME b < q PROVE c \in Digits \ {"/", "?", "#"}
    OBVIOUS
  <2>2. c \in ToSet(u.port)
    BY <1>3, <2>1, PartRuns DEF InPort
  <2>3. c \in Digits
    BY <2>2, ServersAreWellFormed DEF WellFormed
  <2> QED BY <2>3, ClassesApart
<1>6. parts' = With("port", <<part_start, q>>) => parts' = Got(u, ToHost \cup {"port"})
  BY <1>3, <1>4, GotGrows DEF InPort
<1>7. b = q => c \in {"/", "?", "#"}
  BY <1>1, <1>2, BehindPort DEF c
<1>8. Reading("port", {"/", "?", "#"}, Digits)
  BY <1>1, ParseByState DEF Port, InPort
<1>9. \/ b < q /\ b + 1 < Len(url) /\ Stay
      \/ b + 1 = q /\ q = Len(url) /\ Accept /\ parts' = With("port", <<part_start, q>>)
      \/ b = q /\ Delimited /\ parts' = With("port", <<part_start, q>>)
  BY <1>1, <1>2, <1>3, <1>5, <1>7, <1>8, ReadingOn
<1>10. CASE b < q /\ b + 1 < Len(url) /\ Stay
  <2>1. InPort(u)' /\ b' \in Nat /\ b' < Len(url') /\ verdict' = "parsing"
    BY <1>1, <1>2, <1>4, <1>10, StaysSo DEF InPort, Got
  <2> QED BY <2>1 DEF ReadSo, ReadTo, InTail
<1>11. CASE q = Len(url) /\ Accept /\ parts' = With("port", <<part_start, q>>)
  BY <1>1, <1>6, <1>11, NothingLeft, Accepted
<1>12. CASE b = q /\ Delimited /\ parts' = With("port", <<part_start, q>>)
  <2>1. PortTo(u) < Len(url)
    BY <1>1, <1>2, <1>12
  <2>2. (url[q + 1] # "/" => q + 1 < Len(url)) /\ (Goes(q) => ReadSo(u)' /\ b' \in Nat)
    BY <1>1, <1>2, <1>6, <1>12, <2>1, GoesFromPort
  <2> QED BY <1>1, <1>12, <2>2, DelimitedGoes DEF c
<1> QED BY <1>9, <1>10, <1>11, <1>12

-----------------------------------------------------------------------------
(* The parts before the host *)

LEMMA GoToSo ==
    ASSUME NEW s, NEW from, NEW next, GoTo(s, from, next)
    PROVE  /\ url' = url /\ state' = s /\ verdict' = verdict /\ part_start' = from /\ b' = next
           /\ v6_start' = v6_start /\ v6_end' = v6_end /\ is_ipv6' = is_ipv6
           /\ has_port' = has_port /\ port_vaild' = port_vaild /\ probe' = probe
BY DEF GoTo, v6, ports

\* There is a host behind the scheme and the user.
LEMMA HostBehind ==
    ASSUME NEW u \in Servers, url = Written(u)
    PROVE  /\ Len(u.scheme) \in Nat /\ Len(u.scheme) >= 1 /\ UserAt(u) \in Nat /\ UserAt(u) = Len(u.scheme) + 3
           /\ UserAt(u) < Len(url) /\ HostAt(u) < Len(url) /\ Len(url) \in Nat
<1>1. PICK a \in Nat, h \in Nat, hf \in Nat, ht \in Nat :
        /\ a = UserAt(u) /\ h = HostAt(u) /\ hf = HostFrom(u) /\ ht = HostTo(u)
        /\ a <= h /\ h <= hf /\ hf < ht
  BY HostPasses, OffsetsOrdered DEF Ordered
<1>2. PICK he \in Nat, o \in Nat, p \in Nat, q \in Nat :
        /\ he = HostEnd(u) /\ o = PortTo(u) /\ p = PathTo(u) /\ q = QueryTo(u)
        /\ ht <= he /\ he <= o /\ o <= p /\ p <= q /\ q <= Len(url) /\ Len(url) \in Nat
  BY <1>1, WrittenEnds, OffsetsOrdered DEF Ordered
<1>3. a < Len(url) /\ h < Len(url)
  BY <1>1, <1>2
<1>4. u.scheme # << >> /\ u.scheme \in Seq(Chars)
  BY PartsAreTexts, ServersAreWellFormed DEF WellFormed
<1> QED BY <1>1, <1>2, <1>3, <1>4, NotEmpty DEF UserAt

LEMMA SchemeReads ==
    ASSUME NEW u \in Servers, url = Written(u), Reads, b \in Nat, InScheme(u), Parse
    PROVE  ReadSo(u)' /\ b' \in Nat
<1>1. PICK s \in Nat, f \in Nat : s = Len(u.scheme) /\ f = Len(url) /\ s >= 1 /\ s + 3 < f
  BY HostBehind
<1>2. verdict = "parsing" /\ part_start = 0 /\ NoAddress /\ probe = Empty /\ ~has_port /\ parts = Got(u, {})
  BY DEF Reads, InScheme
<1>3. "scheme" \in Part /\ u["scheme"] # << >> /\ From(u)["scheme"] = 0 /\ Ends(u)["scheme"] = s
  BY <1>1, ServersAreWellFormed DEF Part, From, Ends, WellFormed
<1>4. View(u, "scheme") = <<0, s>>
  BY <1>3, PartEnds
<1>5. CASE state = "scheme_start"
  <2>1. b = 0 /\ SchemeStart
    BY <1>1, <1>5, ParseByState DEF InScheme
  <2>2. c \in Alphas
    <3>1. u.scheme[1] \in Alphas
      BY ServersAreWellFormed DEF WellFormed
    <3>2. Spells(url, 0, u.scheme)
      BY <1>3, WrittenIsLaidOut DEF LaidOut
    <3>3. 1 \in 1..Len(u.scheme)
      BY <1>1
    <3>4. url[0 + 1] = u.scheme[1]
      BY <3>2, <3>3 DEF Spells
    <3> QED BY <2>1, <3>1, <3>4 DEF c
  <2>3. GoTo("scheme", part_start, After) /\ parts' = parts
    BY <2>1, <2>2 DEF SchemeStart
  <2>4. state' = "scheme" /\ part_start' = 0 /\ b' = 1 /\ url' = url /\ verdict' = verdict
        /\ NoAddress' /\ probe' = Empty /\ ~has_port'
    BY <1>2, <2>1, <2>3, GoToSo DEF After, NoAddress
  <2>5. InScheme(u)' /\ b' < Len(url')
    BY <1>1, <1>2, <2>3, <2>4 DEF InScheme, Got
  <2> QED BY <1>2, <2>4, <2>5 DEF ReadSo, ReadTo
<1>6. CASE state = "scheme"
  <2>1. 1 <= b /\ b <= s /\ Scheme
    BY <1>1, <1>6, ParseByState DEF InScheme
  <2>2. CASE b < s
    <3>1. c \in ToSet(u.scheme)
      BY <1>3, <2>2, PartRuns
    <3>2. c \in Alphas \cup Digits \cup {"+", "-", "."} /\ c # ":"
      BY <3>1, ServersAreWellFormed, ClassesApart DEF WellFormed
    <3>3. Stay
      BY <2>1, <3>2 DEF Scheme
    <3>4. InScheme(u)' /\ b' < Len(url') /\ b' \in Nat /\ verdict' = "parsing"
      BY <1>1, <1>2, <1>6, <2>1, <2>2, <3>3, StaysSo DEF InScheme, Got, NoAddress
    <3> QED BY <3>4 DEF ReadSo, ReadTo
  <2>3. CASE b = s
    <3>1. c = ":"
      BY <1>1, <2>3, WrittenIsLaidOut DEF LaidOut, Delimiters, c
    <3>2. c \notin Alphas \cup Digits \cup {"+", "-", "."}
      BY <3>1, ClassesApart
    <3>3. parts' = With("scheme", <<part_start, b>>) /\ GoTo("slash_start", part_start, After)
      BY <2>1, <3>1, <3>2 DEF Scheme
    <3>4. parts' = Got(u, {"scheme"})
      <4>1. parts' = Got(u, {} \cup {"scheme"})
        BY <1>2, <1>3, <1>4, <2>3, <3>3, GotGrows
      <4>2. {} \cup {"scheme"} = {"scheme"}
        OBVIOUS
      <4> QED BY <4>1, <4>2
    <3>5. state' = "slash_start" /\ b' = s + 1 /\ url' = url /\ verdict' = verdict
          /\ NoAddress' /\ probe' = Empty /\ ~has_port'
      BY <1>2, <2>3, <3>3, GoToSo DEF After, NoAddress
    <3>6. InSlashes(u)' /\ b' < Len(url') /\ b' \in Nat
      BY <1>1, <3>4, <3>5 DEF InSlashes, Got
    <3> QED BY <1>2, <3>5, <3>6 DEF ReadSo, ReadTo
  <2> QED BY <2>1, <2>2, <2>3
<1> QED BY <1>5, <1>6 DEF InScheme

LEMMA SlashesRead ==
    ASSUME NEW u \in Servers, url = Written(u), Reads, b \in Nat, InSlashes(u), Parse
    PROVE  ReadSo(u)' /\ b' \in Nat
<1>1. PICK s \in Nat, f \in Nat : s = Len(u.scheme) /\ f = Len(url) /\ s >= 1 /\ s + 3 < f /\ UserAt(u) = s + 3
  BY HostBehind
<1>2. verdict = "parsing" /\ NoAddress /\ probe = Empty /\ ~has_port /\ parts = Got(u, {"scheme"})
  BY DEF Reads, InSlashes
<1>3. url[s + 2] = "/" /\ url[s + 3] = "/"
  BY <1>1, WrittenIsLaidOut DEF LaidOut, Delimiters
<1>4. CASE state = "slash_start"
  <2>1. b = s + 1 /\ SlashStart
    BY <1>1, <1>4, ParseByState DEF InSlashes
  <2>2. c = "/"
    BY <1>3, <2>1 DEF c
  <2>3. GoTo("slash", part_start, After) /\ parts' = parts
    BY <2>1, <2>2 DEF SlashStart
  <2>4. state' = "slash" /\ b' = s + 2 /\ url' = url /\ verdict' = verdict
        /\ NoAddress' /\ probe' = Empty /\ ~has_port'
    BY <1>2, <2>1, <2>3, GoToSo DEF After, NoAddress
  <2>5. InSlashes(u)' /\ b' < Len(url') /\ b' \in Nat
    BY <1>1, <1>2, <2>3, <2>4 DEF InSlashes, Got
  <2> QED BY <1>2, <2>4, <2>5 DEF ReadSo, ReadTo
<1>5. CASE state = "slash"
  <2>1. b = s + 2 /\ Slash
    BY <1>1, <1>5, ParseByState DEF InSlashes
  <2>2. c = "/"
    BY <1>3, <2>1 DEF c
  <2>3. Text(parts["scheme"]) # FileScheme
    <3>1. "scheme" \in Part /\ u.scheme # FileScheme
      BY ServersAreWellFormed DEF Part, WellFormed
    <3>2. parts["scheme"] = View(u, "scheme")
      BY <1>2, <3>1 DEF Got
    <3> QED BY <3>1, <3>2, ViewReads
  <2>4. GoTo("probe", After, After) /\ parts' = parts
    BY <2>1, <2>2, <2>3 DEF Slash
  <2>5. state' = "probe" /\ b' = s + 3 /\ part_start' = s + 3 /\ url' = url /\ verdict' = verdict
        /\ NoAddress' /\ probe' = Empty /\ ~has_port'
    BY <1>2, <2>1, <2>4, GoToSo DEF After, NoAddress
  <2>6. b' < Len(url') /\ b' \in Nat
    BY <1>1, <2>5
  <2>7. CASE u.username # << >>
    <3>1. s + 3 <= LoginEnd(u) /\ s + 3 <= UserEnd(u)
      <4>1. PICK a \in Nat, e \in Nat, w \in Nat : a = UserAt(u) /\ e = UserEnd(u) /\ w = LoginEnd(u) /\ a <= e /\ e <= w
        BY OffsetsOrdered DEF Ordered
      <4> QED BY <1>1, <4>1
    <3>2. InLogin(u)'
      BY <1>1, <1>2, <2>4, <2>5, <2>7, <3>1 DEF InLogin, Got
    <3> QED BY <1>2, <2>5, <2>6, <3>2 DEF ReadSo, ReadTo
  <2>8. CASE u.username = << >>
    <3>1. HostAt(u) = s + 3
      BY <1>1, <2>8 DEF HostAt
    <3>2. s + 3 <= HostEnd(u) /\ s + 3 <= PortTo(u)
      <4>1. PICK a \in Nat, hf \in Nat, ht \in Nat, he \in Nat, o \in Nat :
              /\ a = HostAt(u) /\ hf = HostFrom(u) /\ ht = HostTo(u) /\ he = HostEnd(u) /\ o = PortTo(u)
              /\ a <= hf /\ hf <= ht /\ ht <= he /\ he <= o
        BY OffsetsOrdered DEF Ordered
      <4> QED BY <3>1, <4>1
    <3>3. IF u.v6 THEN AddressPort(u)' ELSE NamePort(u)'
      BY <2>5, <3>1, <3>2 DEF AddressPort, NamePort
    <3>4. InHostProbe(u)'
      BY <1>2, <2>4, <2>5, <2>8, <3>1, <3>2, <3>3 DEF InHostProbe, Got
    <3> QED BY <1>2, <2>5, <2>6, <3>4 DEF ReadSo, ReadTo
  <2> QED BY <2>7, <2>8
<1> QED BY <1>4, <1>5 DEF InSlashes

-----------------------------------------------------------------------------
(* User or host: what is probed *)

Probes == Parse /\ Reads /\ state = "probe" /\ b \in Nat /\ Len(url) \in Nat

LEMMA ProbeActions == Probes => ProbeUser \/ ProbeColon \/ ProbeDelimiter \/ ProbeLast \/ ProbeOther
BY ParseByState DEF Probes

\* A character that ends nothing and is not the last.
LEMMA PlainProbed ==
    ASSUME Probes, c \in Plain, b + 1 < Len(url)
    PROVE  /\ url' = url /\ state' = state /\ verdict' = verdict /\ part_start' = part_start /\ parts' = parts
           /\ v6_start' = v6_start /\ v6_end' = v6_end /\ (is_ipv6' <=> is_ipv6) /\ is_ipv6' \in BOOLEAN
           /\ has_port' = has_port /\ probe' = probe /\ b' = b + 1
           /\ port_vaild' = (port_vaild /\ c \in Digits)
<1>1. c \notin {"@", ":", "/", "?", "#", "[", "]"}
  BY PlainIsApart
<1>2. b + 1 # Len(url)
  BY DEF Probes
<1>3. ~AtEnd
  BY <1>2 DEF AtEnd, After
<1>4. ProbeOther
  BY <1>1, <1>3, ProbeActions DEF ProbeUser, ProbeColon, ProbeDelimiter, ProbeLast
<1>5. ~Opens /\ ~Closes
  BY <1>1 DEF Opens, Closes
<1>6. V6Start = v6_start /\ V6End = v6_end /\ (IsV6 <=> is_ipv6) /\ IsV6 \in BOOLEAN /\ Probe = probe
  BY <1>1, <1>5 DEF V6Start, V6End, IsV6, Probe
<1>7. /\ v6_start' = V6Start /\ v6_end' = V6End /\ is_ipv6' = IsV6 /\ probe' = Probe
      /\ port_vaild' = (port_vaild /\ c \in Digits)
      /\ b' = After
      /\ UNCHANGED <<url, state, verdict, part_start, has_port, parts>>
  BY <1>4 DEF ProbeOther, Plain
<1> QED BY <1>6, <1>7 DEF After

\* A colon that is not the last character: what was probed ends at the first.
LEMMA ColonProbed ==
    ASSUME Probes, c = ":", b + 1 < Len(url)
    PROVE  /\ url' = url /\ state' = state /\ verdict' = verdict /\ part_start' = part_start /\ parts' = parts
           /\ v6_start' = v6_start /\ v6_end' = v6_end /\ is_ipv6' = is_ipv6 /\ b' = b + 1
           /\ IsEmpty(probe) => probe' = <<part_start, b>> /\ port_vaild' = TRUE /\ has_port' = TRUE
           /\ ~IsEmpty(probe) => probe' = probe /\ has_port' = has_port
<1>1. b + 1 # Len(url)
  BY DEF Probes
<1>2. ~AtEnd
  BY <1>1 DEF AtEnd, After
<1>3. ProbeColon
  BY ProbeActions DEF ProbeUser, ProbeDelimiter, ProbeLast, ProbeOther
<1>4. /\ IF IsEmpty(probe) THEN probe' = <<part_start, b>> /\ port_vaild' = TRUE /\ has_port' = TRUE
                           ELSE port_vaild' = FALSE /\ UNCHANGED <<probe, has_port>>
      /\ b' = After
      /\ UNCHANGED <<url, state, verdict, part_start, v6, parts>>
  BY <1>2, <1>3 DEF ProbeColon
<1> QED BY <1>4 DEF After, v6

LEMMA LoginReads ==
    ASSUME NEW u \in Servers, url = Written(u), Reads, b \in Nat, InLogin(u), Parse
    PROVE  ReadSo(u)' /\ b' \in Nat
<1>1. u.username # << >> /\ u["username"] # << >> /\ "username" \in Part /\ "password" \in Part
  BY DEF InLogin, Part
<1>2. PICK a \in Nat, e \in Nat, w \in Nat, f \in Nat :
        a = UserAt(u) /\ e = UserEnd(u) /\ w = LoginEnd(u) /\ f = Len(url) /\ e <= w
  BY WrittenEnds, OffsetsOrdered DEF Ordered
<1>3. a < e /\ View(u, "username") = <<a, e>>
  BY <1>1, <1>2, PartEnds DEF From, Ends
<1>4. HostAt(u) = w + 1 /\ w + 1 < f
  BY <1>1, <1>2, HostBehind DEF HostAt
<1>5. /\ state = "probe" /\ part_start = a /\ a <= b /\ b <= w /\ NoAddress
      /\ parts = Got(u, {"scheme"}) /\ verdict = "parsing" /\ probe = IF b <= e THEN Empty ELSE <<a, e>>
  BY <1>2 DEF InLogin, Reads
<1>6. Probes
  BY <1>2, <1>5 DEF Probes
<1>7. b + 1 < f /\ b + 1 \in Nat
  BY <1>2, <1>4, <1>5
<1>8. /\ u.password = << >> => w = e
      /\ u.password # << >> => e + 1 < w /\ url[e + 1] = ":" /\ View(u, "password") = <<e + 1, w>>
  <2>1. u.password = << >> => w = e
    BY <1>2 DEF LoginEnd
  <2>2. u.password # << >> => url[e + 1] = ":"
    BY <1>2, WrittenIsLaidOut DEF LaidOut, Delimiters
  <2>3. u["password"] # << >> => e + 1 < w /\ View(u, "password") = <<e + 1, w>>
    BY <1>1, <1>2, PartEnds DEF From, Ends
  <2> QED BY <2>1, <2>2, <2>3
<1>9. b < e => c \in Plain
  <2>1. SUFFICES ASSUME b < e PROVE c \in Plain
    OBVIOUS
  <2>2. From(u)["username"] = a /\ Ends(u)["username"] = e
    BY <1>2 DEF From, Ends
  <2>3. c \in ToSet(u.username)
    BY <1>1, <1>5, <2>1, <2>2, PartRuns
  <2> QED BY <2>3, ServersAreWellFormed DEF WellFormed, Plain
<1>10. e < b /\ b < w => c \in Plain \cup {":"}
  <2>1. SUFFICES ASSUME e < b, b < w PROVE c \in Plain \cup {":"}
    OBVIOUS
  <2>2. From(u)["password"] = e + 1 /\ Ends(u)["password"] = w
    BY <1>2 DEF From, Ends
  <2>3. u["password"] # << >> /\ e + 1 <= b
    BY <1>2, <1>8, <2>1
  <2>4. c \in ToSet(u.password)
    BY <1>1, <2>1, <2>2, <2>3, PartRuns
  <2> QED BY <2>4, ServersAreWellFormed DEF WellFormed, Plain
<1>11. CASE b < e
  <2>1. /\ url' = url /\ state' = state /\ verdict' = verdict /\ part_start' = part_start /\ parts' = parts
        /\ NoAddress' /\ probe' = Empty /\ b' = b + 1
    <3>1. c \in Plain /\ probe = Empty
      BY <1>2, <1>5, <1>9, <1>11
    <3> QED BY <1>2, <1>5, <1>6, <1>7, <3>1, PlainProbed DEF NoAddress
  <2>2. b + 1 <= e /\ b + 1 <= w /\ a <= b + 1
    BY <1>2, <1>5, <1>11
  <2>3. InLogin(u)'
    BY <1>1, <1>2, <1>5, <1>7, <2>1, <2>2 DEF InLogin, Got
  <2> QED BY <1>2, <1>5, <1>7, <2>1, <2>3 DEF ReadSo, ReadTo
<1>12. CASE e <= b /\ b < w
  <2>1. /\ url' = url /\ state' = state /\ verdict' = verdict /\ part_start' = part_start /\ parts' = parts
        /\ NoAddress' /\ probe' = <<a, e>> /\ b' = b + 1
    <3>1. CASE b = e
      <4>1. c = ":"
        BY <1>2, <1>8, <1>12, <3>1 DEF c
      <4>2. IsEmpty(probe)
        BY <1>2, <1>5, <3>1 DEF IsEmpty, Empty
      <4> QED BY <1>2, <1>5, <1>6, <1>7, <3>1, <4>1, <4>2, ColonProbed DEF NoAddress
    <3>2. CASE e < b
      <4>1. probe = <<a, e>>
        BY <1>2, <1>5, <3>2
      <4>2. ~IsEmpty(probe)
        BY <1>2, <1>3, <4>1 DEF IsEmpty
      <4>3. CASE c = ":"
        BY <1>2, <1>5, <1>6, <1>7, <4>1, <4>2, <4>3, ColonProbed DEF NoAddress
      <4>4. CASE c \in Plain
        BY <1>2, <1>5, <1>6, <1>7, <4>1, <4>4, PlainProbed DEF NoAddress
      <4> QED BY <1>10, <1>12, <3>2, <4>3, <4>4
    <3> QED BY <1>2, <1>12, <3>1, <3>2
  <2>2. ~(b + 1 <= e) /\ b + 1 <= w /\ a <= b + 1
    BY <1>2, <1>5, <1>12
  <2>3. InLogin(u)'
    BY <1>1, <1>2, <1>5, <1>7, <2>1, <2>2 DEF InLogin, Got
  <2> QED BY <1>2, <1>5, <1>7, <2>1, <2>3 DEF ReadSo, ReadTo
<1>13. CASE b = w
  <2>1. c = "@"
    BY <1>1, <1>2, <1>13, WrittenIsLaidOut DEF LaidOut, Delimiters, c
  <2>2. ProbeUser
    BY <1>6, <2>1, ProbeActions DEF ProbeColon, ProbeDelimiter, ProbeLast, ProbeOther
  <2>3. /\ state' = "host" /\ part_start' = w + 1 /\ b' = w + 1 /\ NoAddress' /\ url' = url /\ verdict' = verdict
    BY <1>13, <2>2 DEF ProbeUser, After, NoAddress
  <2>4. parts' = Got(u, {"scheme", "username", "password"})
    <3>2. CASE u.password = << >>
      <4>1. IsEmpty(probe)
        BY <1>2, <1>5, <1>8, <1>13, <3>2 DEF IsEmpty, Empty
      <4>2. parts' = With("username", <<a, e>>)
        BY <1>5, <1>8, <1>13, <2>2, <3>2, <4>1 DEF ProbeUser
      <4>3. parts' = Got(u, {"scheme"} \cup {"username"})
        BY <1>1, <1>3, <1>5, <4>2, GotGrows
      <4>4. parts' = Got(u, ({"scheme"} \cup {"username"}) \cup {"password"})
        BY <1>1, <3>2, <4>3, GotSame
      <4>5. ({"scheme"} \cup {"username"}) \cup {"password"} = {"scheme", "username", "password"}
        OBVIOUS
      <4> QED BY <4>4, <4>5
    <3>3. CASE u.password # << >>
      <4>1. probe = <<a, e>> /\ ~IsEmpty(probe)
        BY <1>2, <1>3, <1>5, <1>8, <1>13, <3>3 DEF IsEmpty
      <4>2. parts' = [parts EXCEPT !["username"] = <<a, e>>, !["password"] = <<e + 1, w>>]
        BY <1>13, <2>2, <4>1 DEF ProbeUser
      <4> QED BY <1>3, <1>5, <1>8, <3>3, <4>2 DEF Got
    <3> QED BY <3>2, <3>3
  <2>5. InHost(u)'
    <3>1. w + 1 <= HostTo(u)
      <4>1. PICK h \in Nat, hf \in Nat, ht \in Nat : h = HostAt(u) /\ hf = HostFrom(u) /\ ht = HostTo(u) /\ h <= hf /\ hf <= ht
        BY OffsetsOrdered DEF Ordered
      <4> QED BY <1>4, <4>1
    <3>2. ~(w + 1 > w + 1) /\ w + 1 <= w + 1
      BY <1>2
    <3> QED BY <1>1, <1>4, <2>3, <2>4, <3>1, <3>2 DEF InHost, Got, NoAddress
  <2> QED BY <1>2, <1>4, <1>5, <2>3, <2>5 DEF ReadSo, ReadTo
<1> QED BY <1>2, <1>5, <1>11, <1>12, <1>13

\* What has been probed with the character at hand is the host of u and its port.
Fitting(u, valid) ==
    /\ u.username = << >> /\ part_start = HostAt(u) /\ parts = Got(u, {"scheme"})
    /\ IF u.v6 THEN IsV6 /\ V6Start = HostFrom(u) /\ V6End = HostTo(u)
               ELSE ~IsV6 /\ V6Start = Null /\ V6End = Null
    /\ IF u.port = << >> THEN IF u.v6 THEN Probe = Empty ELSE ~has_port
                         ELSE /\ Probe = <<HostAt(u), HostEnd(u)>> /\ valid
                              /\ ~u.v6 => has_port /\ probe = Probe

LEMMA Fits ==
    ASSUME NEW u \in Servers, url = Written(u), NEW valid, Fitting(u, valid)
    PROVE  /\ ProbeFits(PortTo(u), valid)
           /\ ProbedParts(PortTo(u)) = Got(u, ToHost \cup {"port"})
<1>1. PICK h \in Nat, hf \in Nat, ht \in Nat, he \in Nat, o \in Nat :
        h = HostAt(u) /\ hf = HostFrom(u) /\ ht = HostTo(u) /\ he = HostEnd(u) /\ o = PortTo(u) /\ h <= hf /\ ht <= he
  BY OffsetsOrdered DEF Ordered
<1>2. HostOk(u.v6, <<hf, ht>>) /\ View(u, "host") = <<hf, ht>> /\ hf < ht
  BY <1>1, HostPasses
<1>3. ~u.v6 => h = hf /\ ht = he
  BY <1>1 DEF HostFrom, HostEnd
<1>4. u.port = << >> => o = he
  BY <1>1 DEF PortTo
<1>5. HasPort <=> u.port # << >>
  <2>1. ~IsEmpty(<<h, he>>) /\ IsEmpty(Empty)
    <3>1. h < he
      BY <1>1, <1>2
    <3> QED BY <3>1 DEF IsEmpty, Empty
  <2> QED BY <1>1, <2>1 DEF Fitting, HasPort
<1>6. ProbedHost(o) = <<hf, ht>>
  BY <1>1, <1>3, <1>4 DEF Fitting, ProbedHost
<1>7. ProbeFits(o, valid)
  <2>1. IF IsV6 THEN Null \notin {V6Start, V6End} /\ V6Start # V6End ELSE V6Start = Null /\ V6End = Null
    BY <1>1, <1>2 DEF Fitting, Null
  <2>2. HasPort => valid
    BY <1>5 DEF Fitting
  <2>3. HostOk(IsV6, <<hf, ht>>)
    <3>1. u.v6 \in BOOLEAN
      BY PartsAreTexts
    <3>2. IsV6 \in BOOLEAN
      BY DEF IsV6
    <3>3. IsV6 = u.v6
      BY <3>1, <3>2 DEF Fitting
    <3> QED BY <1>2, <3>3
  <2> QED BY <1>6, <2>1, <2>2, <2>3 DEF ProbeFits
<1>8. ProbedParts(o) = Got(u, ToHost \cup {"port"})
  <2>1. u["password"] = << >> /\ u["username"] = << >>
    BY ServersAreWellFormed DEF Fitting, WellFormed
  <2>2. View(u, "username") = Empty /\ View(u, "password") = Empty
    BY <2>1 DEF View
  <2>3. View(u, "port") = IF HasPort THEN <<Probe[2] + 1, o>> ELSE Empty
    <3>1. CASE u.port = << >>
      BY <1>5, <3>1 DEF View
    <3>2. CASE u.port # << >>
      <4>1. View(u, "port") = <<he + 1, o>>
        BY <1>1, <3>2, PartEnds DEF Part, From, Ends
      <4>2. Probe[2] = he
        BY <1>1, <3>2 DEF Fitting
      <4> QED BY <1>5, <3>2, <4>1, <4>2
    <3> QED BY <3>1, <3>2
  <2>4. ProbedParts(o) = [parts EXCEPT !["host"] = View(u, "host"), !["port"] = IF HasPort THEN View(u, "port") ELSE @]
    BY <1>2, <1>6, <2>3 DEF ProbedParts
  <2>5. parts = [p \in Part |-> IF p \in {"scheme"} THEN View(u, p) ELSE Empty]
    BY DEF Fitting, Got
  <2>6. ~HasPort => View(u, "port") = Empty
    BY <2>3
  <2> QED BY <2>2, <2>4, <2>5, <2>6 DEF Got, ToHost, Part
<1> QED BY <1>1, <1>7, <1>8

LEMMA LastProbed ==
    ASSUME NEW u \in Servers, url = Written(u), Probes, c \notin {"@", ":", "/", "?", "#"},
           b + 1 = Len(url), PortTo(u) = Len(url), Fitting(u, port_vaild /\ c \in Digits)
    PROVE  ReadSo(u)' /\ b' \in Nat
<1>1. AtEnd /\ After = PortTo(u)
  BY DEF AtEnd, After
<1>2. ProbeLast
  BY <1>1, ProbeActions DEF ProbeUser, ProbeColon, ProbeDelimiter, ProbeOther
<1>3. Accept /\ parts' = ProbedParts(After)
  BY <1>1, <1>2, Fits DEF ProbeLast
<1>4. parts' = Got(u, Part)
  BY <1>1, <1>3, Fits, NothingLeft
<1> QED BY <1>3, <1>4, Accepted DEF Probes

LEMMA DelimiterProbed ==
    ASSUME NEW u \in Servers, url = Written(u), Probes, b = PortTo(u), PortTo(u) < Len(url), Fitting(u, port_vaild)
    PROVE  ReadSo(u)' /\ b' \in Nat
<1>1. c \in {"/", "?", "#"}
  BY BehindPort DEF c
<1>2. ProbeDelimiter
  BY <1>1, ProbeActions DEF ProbeUser, ProbeColon, ProbeLast, ProbeOther
<1>3. Delimited /\ parts' = Got(u, ToHost \cup {"port"})
  BY <1>2, Fits DEF ProbeDelimiter
<1>4. (c # "/" => b + 1 < Len(url)) /\ (Goes(b) => ReadSo(u)' /\ b' \in Nat)
  BY <1>3, GoesFromPort DEF Probes, Reads, c
<1> QED BY <1>3, <1>4, DelimitedGoes DEF Probes

LEMMA BracketProbed ==
    ASSUME Probes, c \in {"[", "]"}, b + 1 < Len(url)
    PROVE  /\ url' = url /\ state' = state /\ verdict' = verdict /\ part_start' = part_start /\ parts' = parts
           /\ v6_start' = V6Start /\ v6_end' = V6End /\ is_ipv6' = IsV6 /\ probe' = Probe /\ b' = b + 1
<1>1. b + 1 # Len(url)
  BY DEF Probes
<1>2. ~AtEnd
  BY <1>1 DEF AtEnd, After
<1>3. ProbeOther
  BY <1>2, ProbeActions DEF ProbeUser, ProbeColon, ProbeDelimiter, ProbeLast
<1> QED BY <1>3 DEF ProbeOther, After

LEMMA LocalsStay ==
    ASSUME c \notin {"[", "]"}
    PROVE  V6Start = v6_start /\ V6End = v6_end /\ (IsV6 <=> is_ipv6) /\ Probe = probe
BY DEF V6Start, V6End, IsV6, Probe, Opens, Closes

\* A host by its name, and its port.
LEMMA NameReads ==
    ASSUME NEW u \in Servers, url = Written(u), Reads, b \in Nat, InHostProbe(u), ~u.v6, Parse
    PROVE  ReadSo(u)' /\ b' \in Nat
<1>1. PICK h \in Nat, he \in Nat, o \in Nat, f \in Nat :
        h = HostAt(u) /\ he = HostEnd(u) /\ o = PortTo(u) /\ f = Len(url) /\ he <= o
  BY WrittenEnds, OffsetsOrdered DEF Ordered
<1>2. HostFrom(u) = h /\ HostTo(u) = he
  BY <1>1 DEF HostFrom, HostEnd
<1>3. h < he
  BY <1>1, <1>2, HostPasses
<1>4. o <= f
  <2>1. PICK p \in Nat, q \in Nat : p = PathTo(u) /\ q = QueryTo(u) /\ o <= p /\ p <= q /\ q <= f
    BY <1>1, WrittenEnds, OffsetsOrdered DEF Ordered
  <2> QED BY <1>1, <2>1
<1>5. /\ u.username = << >> /\ state = "probe" /\ verdict = "parsing" /\ part_start = h /\ h <= b /\ b <= o /\ b < f
      /\ parts = Got(u, {"scheme"}) /\ NoAddress
      /\ IF b <= he THEN probe = Empty /\ ~has_port ELSE probe = <<h, he>> /\ has_port /\ port_vaild
  BY <1>1 DEF InHostProbe, Reads, NamePort
<1>6. Probes
  BY <1>1, <1>5 DEF Probes
<1>7. /\ u.port = << >> => o = he
      /\ u.port # << >> => he + 1 < o /\ url[he + 1] = ":"
  <2>1. u.port = << >> => o = he
    BY <1>1 DEF PortTo
  <2>2. u["port"] # << >> => he + 1 < o
    BY <1>1, PartEnds DEF Part, From, Ends
  <2>3. u.port # << >> => url[he + 1] = ":"
    BY <1>1, WrittenIsLaidOut DEF LaidOut, Delimiters
  <2> QED BY <2>1, <2>2, <2>3
<1>8. b < he => c \in Plain
  <2>1. SUFFICES ASSUME b < he PROVE c \in Plain
    OBVIOUS
  <2>2. "host" \in Part /\ u["host"] # << >> /\ From(u)["host"] = h /\ Ends(u)["host"] = he
    BY <1>2, HostPasses DEF Part, From, Ends
  <2>3. c \in ToSet(u.host)
    BY <1>5, <2>1, <2>2, PartRuns
  <2>4. ToSet(u.host) \subseteq Unreserved \cup SubDelims \cup {"%"}
    BY ServersAreWellFormed DEF WellFormed
  <2> QED BY <2>3, <2>4, ClassesWithin
<1>9. he < b /\ b < o => c \in Digits
  <2>1. SUFFICES ASSUME he < b, b < o PROVE c \in Digits
    OBVIOUS
  <2>2. "port" \in Part /\ u["port"] # << >> /\ From(u)["port"] = he + 1 /\ Ends(u)["port"] = o /\ he + 1 <= b
    BY <1>1, <1>7, <2>1 DEF Part, From, Ends
  <2>3. c \in ToSet(u.port)
    BY <2>1, <2>2, PartRuns
  <2> QED BY <2>3, ServersAreWellFormed DEF WellFormed
<1>10. c \notin {"[", "]"} => ~IsV6 /\ V6Start = Null /\ V6End = Null /\ Probe = probe
  BY <1>5, LocalsStay DEF NoAddress
<1>11. CASE b < he
  <2>1. c \notin {"@", ":", "/", "?", "#", "[", "]"} /\ c \in Plain
    BY <1>8, <1>11, PlainIsApart
  <2>2. probe = Empty /\ ~has_port
    BY <1>1, <1>5, <1>11
  <2>3. CASE b + 1 < f
    <3>1. /\ url' = url /\ state' = state /\ verdict' = verdict /\ part_start' = part_start /\ parts' = parts
          /\ NoAddress' /\ probe' = Empty /\ ~has_port' /\ b' = b + 1
      BY <1>1, <1>5, <1>6, <2>1, <2>2, <2>3, PlainProbed DEF NoAddress
    <3>2. b + 1 <= he /\ b + 1 <= o /\ h <= b + 1 /\ b + 1 \in Nat
      BY <1>1, <1>5, <1>11
    <3>3. NamePort(u)'
      BY <1>1, <3>1, <3>2 DEF NamePort
    <3>4. InHostProbe(u)'
      BY <1>1, <1>5, <3>1, <3>2, <3>3 DEF InHostProbe, Got
    <3> QED BY <1>1, <1>5, <2>3, <3>1, <3>2, <3>4 DEF ReadSo, ReadTo
  <2>4. CASE b + 1 = f
    <3>1. he = f /\ o = f /\ u.port = << >>
      BY <1>1, <1>4, <1>7, <1>11, <2>4
    <3>2. Fitting(u, port_vaild /\ c \in Digits)
      BY <1>1, <1>5, <1>10, <2>1, <2>2, <3>1 DEF Fitting
    <3> QED BY <1>1, <1>6, <2>1, <2>4, <3>1, <3>2, LastProbed
  <2> QED BY <1>1, <1>5, <2>3, <2>4
<1>12. CASE b = he /\ b < o
  <2>1. c = ":" /\ b + 1 < o /\ u.port # << >>
    BY <1>1, <1>7, <1>12 DEF c
  <2>2. b + 1 < f /\ b + 1 \in Nat
    BY <1>1, <1>4, <2>1
  <2>3. IsEmpty(probe)
    BY <1>1, <1>5, <1>12 DEF IsEmpty, Empty
  <2>4. /\ url' = url /\ state' = state /\ verdict' = verdict /\ part_start' = part_start /\ parts' = parts
        /\ NoAddress' /\ probe' = <<h, he>> /\ has_port' /\ port_vaild' /\ b' = b + 1
    BY <1>1, <1>5, <1>6, <1>12, <2>1, <2>2, <2>3, ColonProbed DEF NoAddress
  <2>5. ~(b + 1 <= he) /\ b + 1 <= o /\ h <= b + 1
    BY <1>1, <1>5, <1>12, <2>1
  <2>6. NamePort(u)'
    BY <1>1, <2>4, <2>5 DEF NamePort
  <2>7. InHostProbe(u)'
    BY <1>1, <1>5, <2>4, <2>5, <2>6 DEF InHostProbe, Got
  <2> QED BY <1>1, <1>5, <2>2, <2>4, <2>7 DEF ReadSo, ReadTo
<1>13. CASE he < b /\ b < o
  <2>1. c \in Digits /\ c \in Plain /\ u.port # << >>
    BY <1>1, <1>7, <1>9, <1>13, ClassesWithin
  <2>2. c \notin {"@", ":", "/", "?", "#", "[", "]"}
    BY <2>1, PlainIsApart
  <2>3. probe = <<h, he>> /\ has_port /\ port_vaild
    BY <1>1, <1>5, <1>13
  <2>4. CASE b + 1 < f
    <3>1. /\ url' = url /\ state' = state /\ verdict' = verdict /\ part_start' = part_start /\ parts' = parts
          /\ NoAddress' /\ probe' = <<h, he>> /\ has_port' /\ port_vaild' /\ b' = b + 1
      BY <1>1, <1>5, <1>6, <2>1, <2>3, <2>4, PlainProbed DEF NoAddress
    <3>2. ~(b + 1 <= he) /\ b + 1 <= o /\ h <= b + 1 /\ b + 1 \in Nat
      BY <1>1, <1>5, <1>13
    <3>3. NamePort(u)'
      BY <1>1, <3>1, <3>2 DEF NamePort
    <3>4. InHostProbe(u)'
      BY <1>1, <1>5, <3>1, <3>2, <3>3 DEF InHostProbe, Got
    <3> QED BY <1>1, <1>5, <2>4, <3>1, <3>2, <3>4 DEF ReadSo, ReadTo
  <2>5. CASE b + 1 = f
    <3>1. o = f
      BY <1>1, <1>4, <1>13, <2>5
    <3>2. Fitting(u, port_vaild /\ c \in Digits)
      BY <1>1, <1>5, <1>10, <2>1, <2>2, <2>3 DEF Fitting
    <3> QED BY <1>1, <1>6, <2>2, <2>5, <3>1, <3>2, LastProbed
  <2> QED BY <1>1, <1>5, <2>4, <2>5
<1>14. CASE b = o
  <2>1. PortTo(u) < Len(url) /\ b = PortTo(u)
    BY <1>1, <1>5, <1>14
  <2>2. c \notin {"[", "]"}
    BY <2>1, BehindPort DEF c
  <2>3. Fitting(u, port_vaild)
    <3>1. CASE u.port = << >>
      BY <1>1, <1>5, <1>7, <1>10, <1>14, <2>2, <3>1 DEF Fitting
    <3>2. CASE u.port # << >>
      <4>1. ~(b <= he)
        BY <1>1, <1>7, <1>14, <3>2
      <4> QED BY <1>1, <1>5, <1>10, <2>2, <3>2, <4>1 DEF Fitting
    <3> QED BY <3>1, <3>2
  <2> QED BY <1>6, <2>1, <2>3, DelimiterProbed
<1> QED BY <1>1, <1>5, <1>11, <1>12, <1>13, <1>14

\* A host by its address in brackets, and its port.
LEMMA AddressReads ==
    ASSUME NEW u \in Servers, url = Written(u), Reads, b \in Nat, InHostProbe(u), u.v6, Parse
    PROVE  ReadSo(u)' /\ b' \in Nat
<1>1. PICK h \in Nat, ht \in Nat, o \in Nat, f \in Nat :
        h = HostAt(u) /\ ht = HostTo(u) /\ o = PortTo(u) /\ f = Len(url)
  BY WrittenEnds, OffsetsOrdered DEF Ordered
<1>2. HostFrom(u) = h + 1 /\ HostEnd(u) = ht + 1 /\ h + 1 < ht
  BY <1>1, HostPasses DEF HostFrom, HostEnd
<1>3. ht + 1 <= o /\ o <= f
  <2>1. PICK p \in Nat, q \in Nat : p = PathTo(u) /\ q = QueryTo(u) /\ o <= p /\ p <= q /\ q <= f
    BY <1>1, WrittenEnds, OffsetsOrdered DEF Ordered
  <2>2. HostEnd(u) <= o
    BY <1>1, OffsetsOrdered DEF Ordered
  <2> QED BY <1>1, <1>2, <2>1, <2>2
<1>4. /\ u.username = << >> /\ state = "probe" /\ verdict = "parsing" /\ part_start = h /\ h <= b /\ b <= o /\ b < f
      /\ parts = Got(u, {"scheme"})
      /\ \/ b = h /\ NoAddress
         \/ h < b /\ b <= ht /\ v6_start = h + 1 /\ v6_end = Null /\ is_ipv6
         \/ /\ ht + 1 <= b /\ v6_start = h + 1 /\ v6_end = ht /\ is_ipv6
            /\ IF b = ht + 1 THEN probe = Empty ELSE probe = <<h, ht + 1>> /\ port_vaild
  BY <1>1, <1>2 DEF InHostProbe, Reads, AddressPort
<1>5. Probes
  BY <1>1, <1>4 DEF Probes
<1>6. /\ u.port = << >> => o = ht + 1
      /\ u.port # << >> => (ht + 1) + 1 < o /\ url[(ht + 1) + 1] = ":"
  <2>1. u.port = << >> => o = ht + 1
    BY <1>1, <1>2 DEF PortTo
  <2>2. u["port"] # << >> => (ht + 1) + 1 < o
    BY <1>1, <1>2, PartEnds DEF Part, From, Ends
  <2>3. u.port # << >> => url[(ht + 1) + 1] = ":"
    BY <1>1, <1>2, WrittenIsLaidOut DEF LaidOut, Delimiters
  <2> QED BY <2>1, <2>2, <2>3
<1>7. url[h + 1] = "[" /\ url[ht + 1] = "]"
  BY <1>1, WrittenIsLaidOut DEF LaidOut, Delimiters
<1>8. h < b /\ b < ht => c \in Plain \cup {":"}
  <2>1. SUFFICES ASSUME h < b, b < ht PROVE c \in Plain \cup {":"}
    OBVIOUS
  <2>2. "host" \in Part /\ u["host"] # << >>
    BY HostPasses DEF Part
  <2>3. From(u)["host"] = h + 1 /\ Ends(u)["host"] = ht
    BY <1>1, <1>2 DEF From, Ends
  <2>4. h + 1 <= b
    BY <2>1
  <2>5. c \in ToSet(u.host)
    BY <2>1, <2>2, <2>3, <2>4, PartRuns
  <2>6. ToSet(u.host) \subseteq HexDigits \cup {":"}
    BY ServersAreWellFormed DEF WellFormed
  <2> QED BY <2>5, <2>6, ClassesWithin
<1>9. ht + 1 < b /\ b < o => c \in Digits
  <2>1. SUFFICES ASSUME ht + 1 < b, b < o PROVE c \in Digits
    OBVIOUS
  <2>2. "port" \in Part /\ u["port"] # << >> /\ From(u)["port"] = (ht + 1) + 1 /\ Ends(u)["port"] = o /\ (ht + 1) + 1 <= b
    BY <1>1, <1>2, <1>6, <2>1 DEF Part, From, Ends
  <2>3. c \in ToSet(u.port)
    BY <2>1, <2>2, PartRuns
  <2> QED BY <2>3, ServersAreWellFormed DEF WellFormed
<1>10. CASE b = h
  <2>1. c = "[" /\ NoAddress /\ b + 1 < f
    BY <1>1, <1>2, <1>3, <1>4, <1>7, <1>10 DEF c
  <2>2. V6Start = h + 1 /\ V6End = Null /\ IsV6
    <3>1. Opens /\ ~Closes
      BY <2>1 DEF Opens, Closes, NoAddress
    <3> QED BY <1>10, <2>1, <3>1 DEF V6Start, V6End, IsV6, After, NoAddress
  <2>3. /\ url' = url /\ state' = state /\ verdict' = verdict /\ part_start' = part_start /\ parts' = parts
        /\ v6_start' = h + 1 /\ v6_end' = Null /\ is_ipv6' /\ b' = h + 1
    BY <1>1, <1>5, <1>10, <2>1, <2>2, BracketProbed
  <2>4. h < h + 1 /\ h + 1 <= ht /\ h <= h + 1 /\ h + 1 <= o
    BY <1>1, <1>2, <1>3
  <2>5. AddressPort(u)'
    BY <1>1, <1>2, <2>3, <2>4 DEF AddressPort
  <2>6. InHostProbe(u)'
    BY <1>1, <1>4, <2>3, <2>4, <2>5 DEF InHostProbe, Got
  <2> QED BY <1>1, <1>4, <1>10, <2>1, <2>3, <2>6 DEF ReadSo, ReadTo
<1>11. CASE h < b /\ b < ht
  <2>1. v6_start = h + 1 /\ v6_end = Null /\ is_ipv6 /\ b + 1 < f
    BY <1>1, <1>3, <1>4, <1>11
  <2>2. /\ url' = url /\ state' = state /\ verdict' = verdict /\ part_start' = part_start /\ parts' = parts
        /\ v6_start' = h + 1 /\ v6_end' = Null /\ is_ipv6' /\ b' = b + 1
    <3>1. CASE c = ":"
      BY <1>1, <1>5, <2>1, <3>1, ColonProbed
    <3>2. CASE c \in Plain
      BY <1>1, <1>5, <2>1, <3>2, PlainProbed
    <3> QED BY <1>8, <1>11, <3>1, <3>2
  <2>3. h < b + 1 /\ b + 1 <= ht /\ h <= b + 1 /\ b + 1 <= o /\ b + 1 \in Nat
    BY <1>1, <1>3, <1>11
  <2>4. AddressPort(u)'
    BY <1>1, <1>2, <2>2, <2>3 DEF AddressPort
  <2>5. InHostProbe(u)'
    BY <1>1, <1>4, <2>2, <2>3, <2>4 DEF InHostProbe, Got
  <2> QED BY <1>1, <1>4, <2>1, <2>2, <2>3, <2>5 DEF ReadSo, ReadTo
<1>12. CASE b = ht
  <2>1. c = "]" /\ v6_start = h + 1 /\ v6_end = Null /\ is_ipv6
    <3>1. h # ht /\ ~(ht + 1 <= ht)
      BY <1>1, <1>2
    <3> QED BY <1>1, <1>4, <1>7, <1>12, <3>1 DEF c
  <2>2. V6Start = h + 1 /\ V6End = ht /\ IsV6 /\ Probe = Empty
    <3>1. ~Opens /\ Closes
      BY <2>1 DEF Opens, Closes
    <3> QED BY <1>12, <2>1, <3>1 DEF V6Start, V6End, IsV6, Probe
  <2>3. CASE b + 1 < f
    <3>1. /\ url' = url /\ state' = state /\ verdict' = verdict /\ part_start' = part_start /\ parts' = parts
          /\ v6_start' = h + 1 /\ v6_end' = ht /\ is_ipv6' /\ b' = ht + 1 /\ probe' = Empty
      BY <1>1, <1>5, <1>12, <2>1, <2>2, <2>3, BracketProbed
    <3>2. ht + 1 <= ht + 1 /\ h <= ht + 1 /\ ht + 1 \in Nat
      BY <1>1, <1>2
    <3>3. AddressPort(u)'
      BY <1>1, <1>2, <3>1, <3>2 DEF AddressPort
    <3>4. InHostProbe(u)'
      BY <1>1, <1>3, <1>4, <3>1, <3>2, <3>3 DEF InHostProbe, Got
    <3> QED BY <1>1, <1>4, <1>12, <2>3, <3>1, <3>2, <3>4 DEF ReadSo, ReadTo
  <2>4. CASE b + 1 = f
    <3>1. o = f /\ u.port = << >>
      BY <1>1, <1>3, <1>6, <1>12, <2>4
    <3>2. Fitting(u, port_vaild /\ c \in Digits)
      BY <1>1, <1>2, <1>4, <2>2, <3>1 DEF Fitting
    <3> QED BY <1>1, <1>5, <2>1, <2>4, <3>1, <3>2, LastProbed
  <2> QED BY <1>1, <1>4, <2>3, <2>4
<1>13. ht < b => /\ v6_start = h + 1 /\ v6_end = ht /\ is_ipv6
                 /\ IF b = ht + 1 THEN probe = Empty ELSE probe = <<h, ht + 1>> /\ port_vaild
  <2>1. ht < b => b # h /\ ~(b <= ht)
    BY <1>1, <1>2
  <2> QED BY <1>4, <2>1
<1>14. ht < b /\ c \notin {"[", "]"} => V6Start = h + 1 /\ V6End = ht /\ IsV6 /\ Probe = probe
  BY <1>13, LocalsStay
<1>15. CASE b = ht + 1 /\ b < o
  <2>1. c = ":" /\ b + 1 < o /\ u.port # << >> /\ ht < b
    BY <1>1, <1>6, <1>15 DEF c
  <2>2. b + 1 < f /\ b + 1 \in Nat
    BY <1>1, <1>3, <2>1
  <2>3. IsEmpty(probe)
    BY <1>13, <1>15, <2>1 DEF IsEmpty, Empty
  <2>4. /\ url' = url /\ state' = state /\ verdict' = verdict /\ part_start' = part_start /\ parts' = parts
        /\ v6_start' = h + 1 /\ v6_end' = ht /\ is_ipv6' /\ b' = b + 1 /\ probe' = <<h, ht + 1>> /\ port_vaild'
    BY <1>1, <1>4, <1>5, <1>13, <1>15, <2>1, <2>2, <2>3, ColonProbed
  <2>5. ht + 1 <= b + 1 /\ b + 1 # ht + 1 /\ b + 1 <= o /\ h <= b + 1
    BY <1>1, <1>4, <1>15, <2>1
  <2>6. AddressPort(u)'
    BY <1>1, <1>2, <2>4, <2>5 DEF AddressPort
  <2>7. InHostProbe(u)'
    BY <1>1, <1>4, <2>4, <2>5, <2>6 DEF InHostProbe, Got
  <2> QED BY <1>1, <1>4, <2>2, <2>4, <2>7 DEF ReadSo, ReadTo
<1>16. CASE ht + 1 < b /\ b < o
  <2>1. c \in Digits /\ c \in Plain /\ u.port # << >>
    BY <1>1, <1>6, <1>9, <1>16, ClassesWithin
  <2>2. c \notin {"@", ":", "/", "?", "#", "[", "]"}
    BY <2>1, PlainIsApart
  <2>3. ht < b /\ b # ht + 1
    BY <1>1, <1>16
  <2>4. v6_start = h + 1 /\ v6_end = ht /\ is_ipv6 /\ probe = <<h, ht + 1>> /\ port_vaild
    BY <1>13, <2>3
  <2>5. CASE b + 1 < f
    <3>1. /\ url' = url /\ state' = state /\ verdict' = verdict /\ part_start' = part_start /\ parts' = parts
          /\ v6_start' = h + 1 /\ v6_end' = ht /\ is_ipv6' /\ probe' = <<h, ht + 1>> /\ port_vaild' /\ b' = b + 1
      BY <1>1, <1>5, <2>1, <2>4, <2>5, PlainProbed
    <3>2. ht + 1 <= b + 1 /\ b + 1 # ht + 1 /\ b + 1 <= o /\ h <= b + 1 /\ b + 1 \in Nat
      BY <1>1, <1>4, <1>16
    <3>3. AddressPort(u)'
      BY <1>1, <1>2, <3>1, <3>2 DEF AddressPort
    <3>4. InHostProbe(u)'
      BY <1>1, <1>4, <3>1, <3>2, <3>3 DEF InHostProbe, Got
    <3> QED BY <1>1, <1>4, <2>5, <3>1, <3>2, <3>4 DEF ReadSo, ReadTo
  <2>6. CASE b + 1 = f
    <3>1. o = f
      BY <1>1, <1>3, <1>16, <2>6
    <3>2. Fitting(u, port_vaild /\ c \in Digits)
      BY <1>1, <1>2, <1>4, <1>14, <2>1, <2>2, <2>3, <2>4 DEF Fitting
    <3> QED BY <1>1, <1>5, <2>2, <2>6, <3>1, <3>2, LastProbed
  <2> QED BY <1>1, <1>4, <2>5, <2>6
<1>17. CASE b = o
  <2>1. PortTo(u) < Len(url) /\ b = PortTo(u) /\ ht < b
    BY <1>1, <1>3, <1>4, <1>17
  <2>2. c \notin {"[", "]"}
    BY <2>1, BehindPort DEF c
  <2>3. Fitting(u, port_vaild)
    <3>1. CASE u.port = << >>
      BY <1>1, <1>2, <1>4, <1>6, <1>13, <1>14, <1>17, <2>1, <2>2, <3>1 DEF Fitting
    <3>2. CASE u.port # << >>
      <4>1. b # ht + 1
        BY <1>1, <1>6, <1>17, <3>2
      <4> QED BY <1>1, <1>2, <1>4, <1>13, <1>14, <2>1, <2>2, <3>2, <4>1 DEF Fitting
    <3> QED BY <3>1, <3>2
  <2> QED BY <1>5, <2>1, <2>3, DelimiterProbed
<1> QED
  <2>1. b = h \/ (h < b /\ b < ht) \/ b = ht \/ (b = ht + 1 /\ b < o) \/ (ht + 1 < b /\ b < o) \/ b = o
    BY <1>1, <1>4
  <2> QED BY <2>1, <1>10, <1>11, <1>12, <1>15, <1>16, <1>17

-----------------------------------------------------------------------------
(* The host after a user *)

HostActions == HostOpens \/ HostCloses \/ HostDelimiter \/ HostOther

\* The host has been read up to its end, with no port or before one.
LEMMA HostEnds ==
    ASSUME NEW u \in Servers, url = Written(u), Reads, InHost(u)
    PROVE  /\ With("host", <<HostFrom(u), HostTo(u)>>) = Got(u, ToHost)
           /\ u.port = << >> => PortTo(u) = HostEnd(u) /\ Got(u, ToHost) = Got(u, ToHost \cup {"port"})
           /\ u.port # << >> => /\ url[HostEnd(u) + 1] = ":" /\ HostEnd(u) + 1 < PortTo(u)
                                /\ GoTo("port", HostEnd(u) + 1, HostEnd(u) + 1) /\ parts' = Got(u, ToHost) =>
                                     ReadSo(u)' /\ b' \in Nat
<1>1. "host" \in Part /\ "port" \in Part
  BY DEF Part
<1>2. With("host", <<HostFrom(u), HostTo(u)>>) = Got(u, ToHost)
  <2>1. With("host", <<HostFrom(u), HostTo(u)>>) = Got(u, {"scheme", "username", "password"} \cup {"host"})
    BY <1>1, HostPasses, GotGrows DEF InHost
  <2>2. {"scheme", "username", "password"} \cup {"host"} = ToHost
    BY DEF ToHost
  <2> QED BY <2>1, <2>2
<1>3. u.port = << >> => PortTo(u) = HostEnd(u) /\ Got(u, ToHost) = Got(u, ToHost \cup {"port"})
  BY <1>1, GotSame DEF PortTo
<1>4. u.port # << >> => url[HostEnd(u) + 1] = ":" /\ HostEnd(u) + 1 < PortTo(u)
  BY <1>1, WrittenIsLaidOut, PartEnds DEF LaidOut, Delimiters, From, Ends
<1>5. ASSUME u.port # << >>, GoTo("port", HostEnd(u) + 1, HostEnd(u) + 1), parts' = Got(u, ToHost)
      PROVE  ReadSo(u)' /\ b' \in Nat
  <2>1. PICK he \in Nat, o \in Nat, f \in Nat :
          he = HostEnd(u) /\ o = PortTo(u) /\ f = Len(url) /\ he + 1 < o
    BY <1>4, <1>5, WrittenEnds, OffsetsOrdered DEF Ordered
  <2>2. o <= f
    <3>1. PICK p \in Nat, q \in Nat : p = PathTo(u) /\ q = QueryTo(u) /\ o <= p /\ p <= q /\ q <= f
      BY <2>1, WrittenEnds, OffsetsOrdered DEF Ordered
    <3> QED BY <2>1, <3>1
  <2>3. state' = "port" /\ part_start' = he + 1 /\ b' = he + 1 /\ url' = url /\ verdict' = "parsing"
    BY <1>5, <2>1, GoToSo DEF Reads
  <2>4. he + 1 <= o /\ he + 1 < f /\ he + 1 \in Nat /\ he + 1 <= he + 1
    BY <2>1, <2>2
  <2>5. InPort(u)'
    BY <1>5, <2>1, <2>3, <2>4 DEF InPort, Got
  <2> QED BY <2>1, <2>3, <2>4, <2>5 DEF ReadSo, ReadTo, InTail
<1> QED BY <1>2, <1>3, <1>4, <1>5

LEMMA NameHostReads ==
    ASSUME NEW u \in Servers, url = Written(u), Reads, b \in Nat, InHost(u), ~u.v6, HostActions
    PROVE  ReadSo(u)' /\ b' \in Nat
<1>1. PICK h \in Nat, he \in Nat, o \in Nat, f \in Nat :
        h = HostAt(u) /\ he = HostEnd(u) /\ o = PortTo(u) /\ f = Len(url) /\ he <= o
  BY WrittenEnds, OffsetsOrdered DEF Ordered
<1>2. HostFrom(u) = h /\ HostTo(u) = he
  BY <1>1 DEF HostFrom, HostEnd
<1>3. o <= f
  <2>1. PICK p \in Nat, q \in Nat : p = PathTo(u) /\ q = QueryTo(u) /\ o <= p /\ p <= q /\ q <= f
    BY <1>1, WrittenEnds, OffsetsOrdered DEF Ordered
  <2> QED BY <1>1, <2>1
<1>4. /\ u.username # << >> /\ state = "host" /\ verdict = "parsing" /\ part_start = h /\ h <= b /\ b <= he /\ b < f
      /\ parts = Got(u, {"scheme", "username", "password"}) /\ NoAddress
  BY <1>1, <1>2 DEF InHost, Reads
<1>5. HostOk(is_ipv6, <<h, he>>)
  <2>1. u.v6 = is_ipv6
    BY <1>4, PartsAreTexts DEF NoAddress
  <2> QED BY <1>2, <2>1, HostPasses
<1>6. With("host", <<h, he>>) = Got(u, ToHost)
  BY <1>2, HostEnds
<1>7. CASE b < he
  <2>1. c \in Unreserved \cup SubDelims \cup {"%"}
    <3>1. "host" \in Part /\ u["host"] # << >> /\ From(u)["host"] = h /\ Ends(u)["host"] = he
      BY <1>2, HostPasses DEF Part, From, Ends
    <3>2. c \in ToSet(u.host)
      BY <1>4, <1>7, <3>1, PartRuns
    <3> QED BY <3>2, ServersAreWellFormed DEF WellFormed
  <2>2. c \notin {"@", ":", "/", "?", "#", "[", "]"}
    BY <2>1, ClassesWithin, PlainIsApart
  <2>3. HostOther
    BY <1>4, <2>2 DEF HostActions, HostOpens, HostCloses, HostDelimiter, NoAddress
  <2>4. CASE b + 1 = f
    <3>1. After = he /\ he = f /\ AtEnd
      BY <1>1, <1>3, <1>7, <2>4 DEF After, AtEnd
    <3>2. Accept /\ parts' = With("host", <<h, he>>)
      BY <1>4, <1>5, <2>3, <3>1 DEF HostOther
    <3>3. parts' = Got(u, Part)
      BY <1>1, <1>6, <3>1, <3>2, NothingLeft
    <3> QED BY <3>2, <3>3, Accepted
  <2>5. CASE b + 1 # f
    <3>1. ~AtEnd
      BY <1>1, <2>5 DEF AtEnd, After
    <3>2. Stay
      BY <2>1, <2>3, <3>1 DEF HostOther
    <3>3. b + 1 < f /\ b + 1 \in Nat /\ b + 1 <= he /\ h <= b + 1
      BY <1>1, <1>4, <1>7, <2>5
    <3>4. InHost(u)'
      BY <1>1, <1>2, <1>4, <3>2, <3>3, StaysSo DEF InHost, Got, NoAddress
    <3> QED BY <1>1, <1>4, <3>2, <3>3, <3>4, StaysSo DEF ReadSo, ReadTo
  <2> QED BY <2>4, <2>5
<1>8. CASE b = he
  <2>1. c \in {":", "/", "?", "#"} /\ (u.port # << >> => c = ":") /\ (u.port = << >> => c # ":" /\ o = b)
    <3>1. CASE u.port # << >>
      BY <1>1, <1>8, <3>1, HostEnds DEF c
    <3>2. CASE u.port = << >>
      <4>1. o = b /\ PortTo(u) < Len(url)
        BY <1>1, <1>4, <1>8, <3>2, HostEnds
      <4>2. url[o + 1] \in {"/", "?", "#"}
        BY <1>1, <4>1, BehindPort
      <4>3. c \in {"/", "?", "#"}
        BY <4>1, <4>2 DEF c
      <4> QED BY <3>2, <4>1, <4>3
    <3> QED BY <3>1, <3>2
  <2>2. HostDelimiter
    BY <1>4, <2>1 DEF HostActions, HostOpens, HostCloses, HostOther, NoAddress
  <2>3. /\ parts' = With("host", <<h, he>>)
        /\ Delimited \/ (c = ":" /\ GoTo("port", After, After))
    BY <1>4, <1>5, <1>8, <2>2 DEF HostDelimiter, NoAddress
  <2>4. parts' = Got(u, ToHost)
    BY <1>6, <2>3
  <2>5. CASE u.port # << >>
    <3>1. GoTo("port", he + 1, he + 1)
      BY <1>8, <2>1, <2>3, <2>5 DEF Delimited, After
    <3> QED BY <1>1, <2>4, <2>5, <3>1, HostEnds
  <2>6. CASE u.port = << >>
    <3>1. Delimited /\ b = PortTo(u) /\ PortTo(u) < Len(url)
      BY <1>1, <1>4, <2>1, <2>3, <2>6
    <3>2. parts' = Got(u, ToHost \cup {"port"})
      BY <2>4, <2>6, HostEnds
    <3>3. (c # "/" => b + 1 < Len(url)) /\ (Goes(b) => ReadSo(u)' /\ b' \in Nat)
      BY <1>4, <3>1, <3>2, GoesFromPort DEF c
    <3> QED BY <1>1, <3>1, <3>3, DelimitedGoes
  <2> QED BY <2>5, <2>6
<1> QED BY <1>1, <1>4, <1>7, <1>8

LEMMA AddressHostReads ==
    ASSUME NEW u \in Servers, url = Written(u), Reads, b \in Nat, InHost(u), u.v6, HostActions
    PROVE  ReadSo(u)' /\ b' \in Nat
<1>1. PICK h \in Nat, ht \in Nat, o \in Nat, f \in Nat :
        h = HostAt(u) /\ ht = HostTo(u) /\ o = PortTo(u) /\ f = Len(url)
  BY WrittenEnds, OffsetsOrdered DEF Ordered
<1>2. HostFrom(u) = h + 1 /\ HostEnd(u) = ht + 1 /\ h + 1 < ht
  BY <1>1, HostPasses DEF HostFrom, HostEnd
<1>3. ht + 1 <= o /\ o <= f
  <2>1. PICK p \in Nat, q \in Nat : p = PathTo(u) /\ q = QueryTo(u) /\ o <= p /\ p <= q /\ q <= f
    BY <1>1, WrittenEnds, OffsetsOrdered DEF Ordered
  <2>2. HostEnd(u) <= o
    BY <1>1, OffsetsOrdered DEF Ordered
  <2> QED BY <1>1, <1>2, <2>1, <2>2
<1>4. /\ u.username # << >> /\ state = "host" /\ verdict = "parsing" /\ part_start = h /\ h <= b /\ b <= ht /\ b < f
      /\ parts = Got(u, {"scheme", "username", "password"})
      /\ IF b > h THEN v6_start = h + 1 /\ is_ipv6 ELSE NoAddress
  BY <1>1, <1>2 DEF InHost, Reads
<1>5. url[h + 1] = "[" /\ url[ht + 1] = "]"
  BY <1>1, WrittenIsLaidOut DEF LaidOut, Delimiters
<1>6. CASE b = h
  <2>1. c = "[" /\ NoAddress /\ b + 1 < f
    BY <1>1, <1>2, <1>3, <1>4, <1>5, <1>6 DEF c
  <2>2. HostOpens
    BY <2>1 DEF HostActions, HostCloses, HostDelimiter, HostOther
  <2>3. /\ is_ipv6' /\ v6_start' = h + 1 /\ b' = h + 1
        /\ url' = url /\ state' = state /\ verdict' = verdict /\ part_start' = part_start /\ parts' = parts
    BY <1>6, <2>1, <2>2 DEF HostOpens, NoAddress, After
  <2>4. h + 1 <= ht /\ h <= h + 1 /\ h + 1 > h /\ h + 1 \in Nat
    BY <1>1, <1>2
  <2>5. InHost(u)'
    BY <1>1, <1>2, <1>4, <2>3, <2>4 DEF InHost, Got
  <2> QED BY <1>1, <1>4, <1>6, <2>1, <2>3, <2>4, <2>5 DEF ReadSo, ReadTo
<1>7. CASE h < b /\ b < ht
  <2>1. c \in HexDigits \cup {":"} /\ v6_start = h + 1 /\ is_ipv6
    <3>1. "host" \in Part /\ u["host"] # << >>
      BY HostPasses DEF Part
    <3>2. From(u)["host"] = h + 1 /\ Ends(u)["host"] = ht
      BY <1>1, <1>2 DEF From, Ends
    <3>3. h + 1 <= b /\ b > h
      BY <1>7
    <3>4. c \in ToSet(u.host)
      BY <1>7, <3>1, <3>2, <3>3, PartRuns
    <3> QED BY <1>4, <3>3, <3>4, ServersAreWellFormed DEF WellFormed
  <2>2. c \notin {"@", "/", "?", "#", "[", "]"} /\ c \in Unreserved \cup SubDelims \cup {"%", ":", "@"}
    BY <2>1, ClassesApart DEF HexDigits, Unreserved
  <2>3. HostOther
    BY <2>1, <2>2 DEF HostActions, HostOpens, HostCloses, HostDelimiter
  <2>4. b + 1 < f /\ b + 1 \in Nat /\ b + 1 <= ht /\ h <= b + 1 /\ b + 1 > h
    BY <1>1, <1>3, <1>7
  <2>5. ~AtEnd
    <3>1. b + 1 # f
      BY <2>4
    <3> QED BY <1>1, <3>1 DEF AtEnd, After
  <2>6. Stay
    BY <2>2, <2>3, <2>5 DEF HostOther
  <2>7. InHost(u)'
    BY <1>1, <1>2, <1>4, <2>1, <2>4, <2>6, StaysSo DEF InHost, Got
  <2> QED BY <1>1, <1>4, <2>4, <2>6, <2>7, StaysSo DEF ReadSo, ReadTo
<1>8. CASE b = ht
  <2>1. c = "]" /\ v6_start = h + 1 /\ is_ipv6
    <3>1. ht > h
      BY <1>1, <1>2
    <3> QED BY <1>1, <1>4, <1>5, <1>8, <3>1 DEF c
  <2>2. HostCloses
    BY <2>1 DEF HostActions, HostOpens, HostDelimiter, HostOther
  <2>3. HostOk(TRUE, <<v6_start, b>>) /\ <<v6_start, b>> = <<HostFrom(u), HostTo(u)>>
    <3>1. u.v6 = TRUE
      BY PartsAreTexts
    <3> QED BY <1>1, <1>2, <1>8, <2>1, <3>1, HostPasses
  <2>4. After = ht + 1
    BY <1>8 DEF After
  <2>5. CASE ht + 1 = f
    <3>1. AtEnd /\ \A d : ~Peek(d)
      BY <1>1, <2>4, <2>5 DEF AtEnd, Peek
    <3>2. Accept /\ parts' = With("host", <<HostFrom(u), HostTo(u)>>)
      BY <2>2, <2>3, <3>1 DEF HostCloses
    <3>3. parts' = Got(u, Part)
      BY <1>1, <1>2, <2>5, <3>2, HostEnds, NothingLeft
    <3> QED BY <3>2, <3>3, Accepted
  <2>6. CASE ht + 1 < f
    <3> DEFINE next == url[(ht + 1) + 1]
    <3>1. /\ ~AtEnd
          /\ (Peek(":") <=> next = ":") /\ (Peek("/") <=> next = "/")
          /\ (Peek("?") <=> next = "?") /\ (Peek("#") <=> next = "#")
      <4>1. ht + 1 # f
        BY <1>1, <2>6
      <4> QED BY <1>1, <2>4, <2>6, <4>1 DEF AtEnd, Peek
    <3>2. Peek(":") \/ Peek("/") \/ Peek("?") \/ Peek("#") =>
            /\ \/ Peek(":") /\ GoTo("port", After + 1, After + 1)
               \/ Peek("/") /\ GoTo("path", After, After)
               \/ Peek("?") /\ GoTo("query", After + 1, After + 1)
               \/ Peek("#") /\ GoTo("fragment", After + 1, After + 1)
            /\ parts' = With("host", <<v6_start, b>>)
      BY <2>2, <2>3, <3>1 DEF HostCloses
    <3> HIDE DEF next
    <3>3. CASE u.port # << >>
      <4>1. next = ":"
        BY <1>2, <3>3, HostEnds DEF next
      <4>2. GoTo("port", After + 1, After + 1) /\ parts' = With("host", <<HostFrom(u), HostTo(u)>>)
        BY <2>3, <3>1, <3>2, <4>1
      <4> QED BY <1>2, <2>4, <3>3, <4>2, HostEnds
    <3>4. CASE u.port = << >>
      <4>1. PortTo(u) = ht + 1 /\ Got(u, ToHost) = Got(u, ToHost \cup {"port"})
        BY <1>2, <3>4, HostEnds
      <4>2. PortTo(u) < Len(url)
        BY <1>1, <2>6, <4>1
      <4>3. next \in {"/", "?", "#"}
        BY <4>1, <4>2, BehindPort DEF next
      <4>4. /\ \/ Peek("/") /\ GoTo("path", After, After)
               \/ Peek("?") /\ GoTo("query", After + 1, After + 1)
               \/ Peek("#") /\ GoTo("fragment", After + 1, After + 1)
            /\ parts' = With("host", <<HostFrom(u), HostTo(u)>>)
        BY <2>3, <3>1, <3>2, <4>3
      <4>5. Goes(PortTo(u))
        BY <2>4, <3>1, <4>1, <4>4 DEF Goes, next
      <4>6. parts' = Got(u, ToHost \cup {"port"})
        BY <4>1, <4>4, HostEnds
      <4> QED BY <1>4, <4>2, <4>5, <4>6, GoesFromPort
    <3> QED BY <3>3, <3>4
  <2> QED
    <3>1. ht + 1 = f \/ ht + 1 < f
      BY <1>1, <1>3
    <3> QED BY <2>5, <2>6, <3>1
<1> QED
  <2>1. b = h \/ (h < b /\ b < ht) \/ b = ht
    BY <1>1, <1>4
  <2> QED BY <2>1, <1>6, <1>7, <1>8

-----------------------------------------------------------------------------
(* The whole of the text *)

LEMMA ReadStep ==
    ASSUME NEW u \in Servers, url = Written(u), b \in Nat, ReadSo(u), Parse
    PROVE  ReadSo(u)' /\ b' \in Nat
<1>1. verdict = "parsing"
  BY DEF Parse, SchemeStart, Scheme, SlashStart, Urn, Slash, ProbeUser, ProbeColon, ProbeDelimiter, ProbeLast,
         ProbeOther, HostOpens, HostCloses, HostDelimiter, HostOther, Port, Path, Query, Fragment, Reading, RunOut,
         In, Reads
<1>2. Reads /\ ReadTo(u)
  BY <1>1 DEF ReadSo, Reads
<1>3. CASE InScheme(u) \/ InSlashes(u) \/ InLogin(u)
  BY <1>2, <1>3, SchemeReads, SlashesRead, LoginReads
<1>4. CASE InHostProbe(u)
  BY <1>2, <1>4, NameReads, AddressReads
<1>5. CASE InHost(u)
  <2>1. HostActions
    BY <1>2, <1>5, ParseByState, WrittenEnds DEF InHost, HostActions
  <2> QED BY <1>2, <1>5, <2>1, NameHostReads, AddressHostReads
<1>6. CASE InTail(u)
  BY <1>2, <1>6, PortReads, PathReads, QueryReads, FragmentReads DEF InTail
<1> QED BY <1>2, <1>3, <1>4, <1>5, <1>6 DEF ReadTo

LEMMA UrlStays == Parse => url' = url
<1>1. Malformed \/ Accept \/ Stay \/ Delimited => url' = url
  BY DEF Malformed, Accept, Stay, Delimited, GoTo
<1>2. SchemeStart \/ Scheme \/ SlashStart \/ Urn \/ Slash => url' = url
  BY <1>1 DEF SchemeStart, Scheme, SlashStart, Urn, Slash, GoTo
<1>3. ProbeUser \/ ProbeColon \/ ProbeDelimiter \/ ProbeLast \/ ProbeOther => url' = url
  BY <1>1 DEF ProbeUser, ProbeColon, ProbeDelimiter, ProbeLast, ProbeOther
<1>4. HostOpens \/ HostCloses \/ HostDelimiter \/ HostOther => url' = url
  BY <1>1 DEF HostOpens, HostCloses, HostDelimiter, HostOther, GoTo
<1>5. Port \/ Path \/ Query \/ Fragment \/ RunOut => url' = url
  BY <1>1 DEF Port, Path, Query, Fragment, Reading, RunOut
<1> QED BY <1>2, <1>3, <1>4, <1>5 DEF Parse

LEMMA RoundStarts == Init => RoundInv
<1>1. SUFFICES ASSUME Init PROVE RoundInv
  OBVIOUS
<1>2. CASE \E text \in Texts : given = Unknown /\ StartOn(text)
  BY <1>2 DEF RoundInv, StartOn
<1>3. CASE \E u \in Servers : given = u /\ StartOn(Written(u))
  <2>1. PICK u \in Servers : given = u /\ StartOn(Written(u))
    BY <1>3
  <2>2. /\ url = Written(u) /\ state = "scheme_start" /\ verdict = "parsing" /\ b = 0 /\ part_start = 0
        /\ v6_start = Null /\ v6_end = Null /\ is_ipv6 = FALSE /\ has_port = FALSE /\ probe = Empty
        /\ parts = [p \in Part |-> Empty]
    BY <2>1 DEF StartOn
  <2>3. b < Len(url)
    BY <2>2, HostBehind
  <2>4. InScheme(u)
    BY <2>2 DEF InScheme, NoAddress, Got
  <2> QED BY <2>1, <2>2, <2>3, <2>4 DEF RoundInv, ReadSo, ReadTo
<1> QED BY <1>1, <1>2, <1>3 DEF Init

\* Where the session is does not concern the parser, and what was given stays.
LEMMA ParserSteps == [Next]_vars => (Parses \/ UNCHANGED parser) /\ given' = given
<1>1. SUFFICES ASSUME [Next]_vars PROVE (Parses \/ UNCHANGED parser) /\ given' = given
  OBVIOUS
<1>2. CASE Parses
  BY <1>2 DEF Parses, proxied
<1>3. CASE Chain
  BY <1>3 DEF Chain, StartRefuses, StartResolves, on_socks_proxy_resolve, on_socks_proxy_connect,
              on_socks_proxy_handshake, To
<1>4. CASE ShakesHands \/ UNCHANGED vars
  BY <1>4 DEF ShakesHands, vars, proxied
<1> QED BY <1>1, <1>2, <1>3, <1>4 DEF Next, Stopped

LEMMA RoundStays == ASSUME RoundInv, UNCHANGED parser, given' = given PROVE RoundInv'
<1>1. /\ url' = url /\ state' = state /\ verdict' = verdict /\ b' = b /\ part_start' = part_start
      /\ v6_start' = v6_start /\ v6_end' = v6_end /\ is_ipv6' = is_ipv6
      /\ has_port' = has_port /\ port_vaild' = port_vaild /\ probe' = probe /\ parts' = parts
  BY DEF parser, v6, ports
<1>2. ASSUME NEW u, ReadSo(u) PROVE ReadSo(u)'
  BY <1>1, <1>2 DEF ReadSo, ReadTo, InTail, InScheme, InSlashes, InLogin, InHostProbe, InHost, InPort, InPath,
                    InQuery, InFragment, NoAddress, NamePort, AddressPort, Got
<1> QED BY <1>1, <1>2 DEF RoundInv

LEMMA RoundStep == RoundInv /\ [Next]_vars => RoundInv'
<1>1. SUFFICES ASSUME RoundInv, [Next]_vars PROVE RoundInv'
  OBVIOUS
<1>2. CASE UNCHANGED parser
  BY <1>1, <1>2, ParserSteps, RoundStays
<1>3. CASE Parses
  <2>1. Parse /\ url' = url /\ given' = given
    BY <1>1, <1>3, ParserSteps, UrlStays DEF Parses
  <2>2. CASE given = Unknown
    BY <2>1, <2>2 DEF RoundInv
  <2>3. CASE given # Unknown
    <3>1. given \in Servers /\ url = Written(given) /\ ReadSo(given) /\ b \in Nat
      BY <1>1, <2>3 DEF RoundInv
    <3>2. PICK u \in Servers : u = given
      BY <3>1
    <3>3. ReadSo(u)' /\ b' \in Nat
      BY <2>1, <3>1, <3>2, ReadStep
    <3>4. ReadSo(given)'
      BY <2>1, <3>2, <3>3
    <3>5. given' \in Servers /\ url' = Written(given)'
      BY <2>1, <3>1
    <3> QED BY <3>3, <3>4, <3>5 DEF RoundInv
  <2> QED BY <2>2, <2>3
<1> QED BY <1>1, <1>2, <1>3, ParserSteps

\* The parser is always where its URL's parts say, for any parts of any length.
THEOREM RoundInvHolds == Spec => []RoundInv
BY RoundStarts, RoundStep, PTL DEF Spec

\* A URL written from its parts is accepted and taken apart into the same parts,
\* whatever the parts are: of any length, with or without a user, a password, a
\* port, a path, a query and a fragment, the host a name or an address.
THEOREM UrlsAreRead == Spec => []RoundTrip
<1>1. RoundInv => RoundTrip
  <2>1. SUFFICES ASSUME RoundInv, given # Unknown, verdict # "parsing"
                 PROVE  verdict = "accepted" /\ \A p \in Part : Text(parts[p]) = given[p]
    BY DEF RoundTrip
  <2>2. given \in Servers /\ url = Written(given) /\ verdict = "accepted" /\ parts = Got(given, Part)
    BY <2>1 DEF RoundInv, ReadSo
  <2>3. ASSUME NEW p \in Part PROVE Text(parts[p]) = given[p]
    <3>1. parts[p] = View(given, p)
      BY <2>2 DEF Got
    <3> QED BY <2>2, <3>1, ViewReads
  <2> QED BY <2>2, <2>3
<1> QED BY <1>1, RoundInvHolds, PTL

-----------------------------------------------------------------------------
(* The handshake *)

\* An answer of so many bytes is still to be given, or has been.
Owed(kind, bytes) == \/ peer = kind /\ unread = 0 /\ ~granted
                     \/ peer = "silent" /\ unread = bytes

IsReply == reply.kind = "reply" /\ reply.length \in Nat /\ (granted => reply.rep = 0)

Short == reply.atyp = "domain" /\ reply.length < 3

ReplyOwed == /\ Owed("connect", 6 + AddressSize(reply.atyp, reply.length))
             /\ peer = "silent" => IsReply

RestOwed == /\ peer = "silent" /\ IsReply /\ reply.ver = 5
            /\ want = Rest
            /\ \/ Short
               \/ ~Short /\ unread = want /\ swallowed = 0

Phase4 == \/ step = 1 /\ op = "write" /\ Owed("connect4", 8)
          \/ step = 2 /\ op = "read" /\ want = 8 /\ Owed("connect4", 8)

Phase5 == \/ step = 1 /\ op = "write" /\ Owed("methods", 2) /\ ~granted
          \/ step = 2 /\ op = "read" /\ want = 2 /\ Owed("methods", 2) /\ ~granted
          \/ step = 3 /\ op = "write" /\ Owed("auth", 2) /\ ~granted
          \/ step = 4 /\ op = "read" /\ want = 2 /\ Owed("auth", 2) /\ ~granted
          \/ step = 6 /\ op = "write" /\ ReplyOwed
          \/ step = 7 /\ op = "read" /\ want = 10 /\ ReplyOwed

Counts == unread \in Nat /\ tunnel \in Nat /\ swallowed \in Nat

Begun == op \in {"write", "read"}

HandshakeInv ==
    /\ Counts
    /\ tunnel > 0 => granted
    /\ op \in {"idle", "start", "write", "read", "done"}
    /\ stage \in {"start", "resolve", "connect"} => op = "idle"
    /\ op \in {"idle", "start"} => unread = 0 /\ swallowed = 0 /\ peer = "silent" /\ ~granted /\ step = 0
    /\ Begun /\ version = 4 => Phase4 /\ swallowed = 0 /\ (granted => reply.kind = "reply4" /\ reply.cd = 90)
    /\ Begun /\ version # 4 => version = 5 /\ ((Phase5 /\ swallowed = 0) \/ (step = 8 /\ op = "read" /\ RestOwed))
    /\ TunnelClean /\ GrantIsTaken

\* What a step of the client leaves alone, and what it takes from the wire.
LEMMA ReceivedAll ==
    ASSUME Counts, op = "read", unread = want, Received
    PROVE  unread' = 0 /\ tunnel' = tunnel /\ swallowed' = swallowed
BY DEF Counts, Received, Missing

LEMMA ReceivedSome ==
    ASSUME Counts, op = "read", want \in Nat, Complete, Received
    PROVE  Counts'
BY DEF Counts, Received, Missing, Complete

LEMMA WrittenNothing ==
    ASSUME op = "write" \/ op = "start" \/ op = "idle", Received
    PROVE  unread' = unread /\ tunnel' = tunnel /\ swallowed' = swallowed
BY DEF Received, wire

\* The end of a handshake without success, when nothing was granted or it may fail so.
LEMMA DoneKeeps ==
    ASSUME HandshakeInv, NEW ec, Done(ec), stage = "handshake", stage' = stage, Counts',
           tunnel' > 0 => granted,
           ec = "none" => unread' = 0 /\ swallowed' = 0,
           granted => \/ ec \in {"none", "link"}
                      \/ IsReply /\ (reply.ver # 5 \/ reply.atyp = "bad" \/ Short)
    PROVE  HandshakeInv'
<1>1. op' = "done" /\ error' = ec /\ granted' = granted /\ reply' = reply
  BY DEF Done, proxy
<1>2. TunnelClean'
  BY <1>1 DEF TunnelClean, Succeeded
<1>3. GrantIsTaken'
  BY <1>1 DEF GrantIsTaken, IsReply, Short
<1> QED
  BY <1>1, <1>2, <1>3 DEF HandshakeInv, Begun

LEMMA V4Keeps ==
    ASSUME HandshakeInv, stage = "handshake", stage' = stage, V4Request \/ V4Sent \/ V4Reply
    PROVE  HandshakeInv'
<1>1. version = 4 /\ Counts
  BY DEF V4Request, V4Sent, V4Reply, HandshakeInv
<1>2. CASE V4Request
  <2>1. /\ unread' = unread /\ tunnel' = tunnel /\ swallowed' = swallowed /\ op = "start"
        /\ unread = 0 /\ swallowed = 0 /\ ~granted
    BY <1>2 DEF V4Request, wire, HandshakeInv
  <2>2. Counts' /\ (tunnel' > 0 => granted)
    BY <1>1, <2>1 DEF Counts, HandshakeInv
  <2>3. CASE Done("not an address")
    BY <2>1, <2>2, <2>3, DoneKeeps
  <2>4. CASE Write(1, "connect4", [Nothing EXCEPT !.user = username, !.target = hostname])
    <3>1. /\ step' = 1 /\ op' = "write" /\ peer' = "connect4" /\ granted' = granted /\ version' = version
          /\ reply' = reply
      BY <2>4 DEF Write, arguments
    <3>2. Phase4'
      BY <2>1, <3>1 DEF Phase4, Owed
    <3>3. TunnelClean' /\ GrantIsTaken'
      BY <3>1 DEF TunnelClean, GrantIsTaken, Succeeded
    <3> QED
      BY <1>1, <2>1, <2>2, <3>1, <3>2, <3>3 DEF HandshakeInv, Begun
  <2> QED
    BY <1>2, <2>3, <2>4 DEF V4Request
<1>3. CASE V4Sent
  <2>1. step = 1 /\ Complete /\ Received /\ Read(2, 8)
    BY <1>3 DEF V4Sent, Runs
  <2>2. Begun /\ Phase4 /\ swallowed = 0 /\ (granted => reply.kind = "reply4" /\ reply.cd = 90)
    BY <1>1, <2>1 DEF Complete, HandshakeInv, Begun
  <2>3. op = "write" /\ Owed("connect4", 8)
    BY <2>1, <2>2 DEF Phase4
  <2>4. unread' = unread /\ tunnel' = tunnel /\ swallowed' = swallowed
    BY <2>1, <2>3, WrittenNothing
  <2>5. /\ step' = 2 /\ op' = "read" /\ want' = 8 /\ peer' = peer /\ granted' = granted /\ reply' = reply
        /\ version' = version
    BY <2>1 DEF Read, proxy, arguments
  <2>6. Phase4'
    BY <2>3, <2>4, <2>5 DEF Phase4, Owed
  <2>7. TunnelClean' /\ GrantIsTaken'
    BY <2>5 DEF TunnelClean, GrantIsTaken, Succeeded
  <2> QED
    BY <1>1, <2>2, <2>4, <2>5, <2>6, <2>7 DEF HandshakeInv, Begun, Counts
<1>4. CASE V4Reply
  <2>1. step = 2 /\ Complete /\ Received
    BY <1>4 DEF V4Reply, Runs
  <2>2. Begun /\ Phase4 /\ swallowed = 0 /\ (granted => reply.kind = "reply4" /\ reply.cd = 90)
    BY <1>1, <2>1 DEF Complete, HandshakeInv, Begun
  <2>3. op = "read" /\ want = 8 /\ Owed("connect4", 8)
    BY <2>1, <2>2 DEF Phase4
  <2>4. unread = 8
    BY <1>1, <2>1, <2>3 DEF Owed, Complete, HandshakeInv, Counts
  <2>5. unread' = 0 /\ tunnel' = tunnel /\ swallowed' = 0
    BY <1>1, <2>1, <2>2, <2>3, <2>4, ReceivedAll
  <2>6. Counts' /\ (tunnel' > 0 => granted)
    BY <1>1, <2>5 DEF Counts, HandshakeInv
  <2>7. Done(IF reply.cd = 90 THEN "none" ELSE "rejected")
    BY <1>4 DEF V4Reply
  <2> QED
    BY <2>2, <2>5, <2>6, <2>7, DoneKeeps
<1> QED
  BY <1>2, <1>3, <1>4

LEMMA V5GoesOn ==
    ASSUME version' = 5, stage' = "handshake", Counts', tunnel' > 0 => granted', op' \in {"write", "read"},
           (Phase5' /\ swallowed' = 0) \/ (step' = 8 /\ op' = "read" /\ RestOwed')
    PROVE  HandshakeInv'
<1>1. TunnelClean' /\ GrantIsTaken'
  BY DEF TunnelClean, GrantIsTaken, Succeeded
<1> QED
  BY <1>1 DEF HandshakeInv, Begun

\* A run of operator() in the steps up to 7, by the step.
LEMMA V5Phase ==
    ASSUME HandshakeInv, version = 5, NEW s \in {1, 2, 3, 4, 6, 7}, Runs(s)
    PROVE  Phase5 /\ swallowed = 0 /\ Counts /\ (tunnel > 0 => granted)
BY DEF Runs, Complete, HandshakeInv, Begun

\* An answer of two bytes that is complete.
LEMMA V5Answered ==
    ASSUME HandshakeInv, version = 5, NEW s \in {2, 4}, Runs(s)
    PROVE  /\ peer = "silent" /\ ~granted
           /\ unread' = 0 /\ tunnel' = tunnel /\ swallowed' = 0 /\ Counts' /\ ~(tunnel' > 0)
<1>1. Phase5 /\ swallowed = 0 /\ Counts /\ (tunnel > 0 => granted)
  BY V5Phase
<1>2. op = "read" /\ want = 2 /\ ~granted /\ (Owed("methods", 2) \/ Owed("auth", 2))
  BY <1>1 DEF Phase5, Runs
<1>3. unread = 2 /\ peer = "silent"
  BY <1>1, <1>2 DEF Owed, Complete, Runs, Counts
<1>4. unread' = 0 /\ tunnel' = tunnel /\ swallowed' = swallowed
  BY <1>1, <1>2, <1>3, ReceivedAll DEF Runs
<1> QED
  BY <1>1, <1>2, <1>3, <1>4 DEF Counts

\* The next request of a handshake that nothing is owed for.
LEMMA V5Writes ==
    ASSUME version = 5, stage = "handshake", stage' = stage,
           ~granted, unread' = 0, swallowed' = 0, Counts', ~(tunnel' > 0),
           NEW s, NEW kind, NEW what, Write(s, kind, what),
           (s = 1 /\ kind = "methods") \/ (s = 3 /\ kind = "auth") \/ (s = 6 /\ kind = "connect")
    PROVE  HandshakeInv'
<1>1. /\ step' = s /\ op' = "write" /\ peer' = kind /\ granted' = granted /\ version' = 5
  BY DEF Write, arguments
<1>2. Phase5'
  BY <1>1 DEF Phase5, Owed, ReplyOwed
<1> QED
  BY <1>1, <1>2, V5GoesOn

\* A read that only waits for what is owed.
LEMMA V5SentKeeps ==
    ASSUME HandshakeInv, stage = "handshake", stage' = stage, V5MethodsSent \/ V5AuthSent \/ V5RequestSent
    PROVE  HandshakeInv'
<1>1. version = 5 /\ \E s \in {1, 3, 6} : Runs(s) /\ Read(s + 1, IF s = 6 THEN 10 ELSE 2)
  BY DEF V5MethodsSent, V5AuthSent, V5RequestSent
<1>2. PICK s \in {1, 3, 6} : Runs(s) /\ Read(s + 1, IF s = 6 THEN 10 ELSE 2)
  BY <1>1
<1>3. Phase5 /\ swallowed = 0 /\ Counts /\ (tunnel > 0 => granted)
  BY <1>1, <1>2, V5Phase
<1>4. step = s /\ op = "write" /\ Received
  BY <1>2, <1>3 DEF Phase5, Runs
<1>5. unread' = unread /\ tunnel' = tunnel /\ swallowed' = swallowed
  BY <1>4, WrittenNothing
<1>6. /\ step' = s + 1 /\ op' = "read" /\ want' = (IF s = 6 THEN 10 ELSE 2)
      /\ peer' = peer /\ granted' = granted /\ reply' = reply /\ version' = 5
  BY <1>1, <1>2 DEF Read, proxy, arguments
<1>7. CASE s = 6
  <2>1. ReplyOwed
    BY <1>3, <1>4, <1>7 DEF Phase5
  <2>2. ReplyOwed'
    BY <1>5, <1>6, <2>1 DEF ReplyOwed, Owed, IsReply
  <2> QED
    BY <1>3, <1>5, <1>6, <1>7, <2>2, V5GoesOn DEF Phase5, Counts
<1>8. CASE s # 6
  <2>1. Phase5'
    BY <1>3, <1>4, <1>5, <1>6, <1>8 DEF Phase5, Owed
  <2> QED
    BY <1>3, <1>5, <1>6, <2>1, V5GoesOn DEF Counts
<1> QED
  BY <1>7, <1>8

LEMMA V5AuthKeeps ==
    ASSUME HandshakeInv, stage = "handshake", stage' = stage, V5Methods \/ V5Method \/ V5AuthStatus
    PROVE  HandshakeInv'
<1>1. CASE V5Methods
  <2>1. /\ version = 5 /\ op = "start" /\ Write(1, "methods", asked)
        /\ unread' = unread /\ tunnel' = tunnel /\ swallowed' = swallowed
    BY <1>1 DEF V5Methods, wire
  <2>2. ~granted /\ unread = 0 /\ swallowed = 0 /\ Counts /\ ~(tunnel > 0)
    BY <2>1 DEF HandshakeInv
  <2> QED
    BY <2>1, <2>2, V5Writes DEF Counts
<1>2. CASE V5Method \/ V5AuthStatus
  <2>1. version = 5 /\ \E s \in {2, 4} : Runs(s)
    BY <1>2 DEF V5Method, V5AuthStatus
  <2>2. /\ ~granted /\ unread' = 0 /\ tunnel' = tunnel /\ swallowed' = 0 /\ Counts' /\ ~(tunnel' > 0)
    BY <2>1, V5Answered
  <2>3. ASSUME NEW ec, Done(ec) PROVE HandshakeInv'
    BY <2>2, <2>3, DoneKeeps
  <2>4. ASSUME NEW s, NEW kind, NEW what, Write(s, kind, what),
               (s = 3 /\ kind = "auth") \/ (s = 6 /\ kind = "connect")
        PROVE  HandshakeInv'
    BY <2>1, <2>2, <2>4, V5Writes
  <2> QED
    BY <1>2, <2>3, <2>4 DEF V5Method, V5AuthStatus, Request
<1> QED
  BY <1>1, <1>2

LEMMA V5RestKeeps ==
    ASSUME HandshakeInv, stage = "handshake", stage' = stage, V5Rest
    PROVE  HandshakeInv'
<1>1. version = 5 /\ step = 8 /\ Complete /\ Received /\ Finish
  BY DEF V5Rest, Runs
<1>2. op = "read" /\ RestOwed /\ Counts
  BY <1>1 DEF HandshakeInv, Begun, Complete, Phase5
<1>3. ~Short
  <2>1. SUFFICES ASSUME Short PROVE FALSE
    OBVIOUS
  <2>2. Rest = Never
    BY <1>2, <2>1 DEF Rest, Short, RestOwed, IsReply
  <2> QED
    BY <1>1, <1>2, <2>2 DEF RestOwed, Complete
<1>4. unread = want /\ swallowed = 0 /\ IsReply
  BY <1>2, <1>3 DEF RestOwed
<1>5. unread' = 0 /\ tunnel' = tunnel /\ swallowed' = 0
  BY <1>1, <1>2, <1>4, ReceivedAll
<1>6. Counts' /\ (tunnel' > 0 => granted)
  BY <1>2, <1>5 DEF Counts, HandshakeInv
<1>7. Done(IF reply.rep = 0 THEN "none" ELSE "refused") /\ (granted => reply.rep = 0)
  BY <1>1, <1>4 DEF Finish, IsReply
<1> QED
  BY <1>5, <1>6, <1>7, DoneKeeps

LEMMA V5ReplyKeeps ==
    ASSUME HandshakeInv, stage = "handshake", stage' = stage, V5Reply
    PROVE  HandshakeInv'
<1>1. version = 5 /\ Runs(7)
  BY DEF V5Reply
<1>2. Phase5 /\ swallowed = 0 /\ Counts /\ (tunnel > 0 => granted)
  BY <1>1, V5Phase
<1>3. op = "read" /\ want = 10 /\ ReplyOwed
  BY <1>1, <1>2 DEF Phase5, Runs
<1>4. peer = "silent" /\ IsReply /\ unread = 6 + AddressSize(reply.atyp, reply.length)
  BY <1>1, <1>2, <1>3 DEF ReplyOwed, Owed, Complete, Runs, Counts
<1>5. Counts'
  BY <1>1, <1>2, <1>3, ReceivedSome DEF Runs
<1>6. tunnel' > 0 => granted
  BY <1>1, <1>2, <1>3 DEF Received, Runs, Missing, Counts
<1>7. reply.length \in Nat /\ (granted => reply.rep = 0)
  BY <1>4 DEF IsReply
<1>8. CASE Short
  <2>1. ASSUME NEW ec, Done(ec), ec # "none" PROVE HandshakeInv'
    BY <1>4, <1>5, <1>6, <1>8, <2>1, DoneKeeps
  <2>2. CASE reply.ver = 5 /\ reply.atyp \in {"domain", "ipv6"} /\ Read(8, Rest)
    <3>1. /\ step' = 8 /\ op' = "read" /\ want' = Rest /\ peer' = peer /\ granted' = granted /\ reply' = reply
          /\ version' = 5
      BY <1>1, <2>2 DEF Read, proxy, arguments
    <3>2. RestOwed'
      BY <1>4, <1>8, <2>2, <3>1 DEF RestOwed, IsReply, Short, Rest
    <3> QED
      BY <1>5, <1>6, <3>1, <3>2, V5GoesOn
  <2> QED
    BY <1>8, <2>1, <2>2 DEF V5Reply, Short
<1>9. CASE ~Short
  <2>1. unread >= 10 /\ unread \in Nat
    BY <1>2, <1>4, <1>7, <1>9 DEF AddressSize, Short, Counts
  <2>2. unread' = unread - 10 /\ tunnel' = tunnel /\ swallowed' = 0
    BY <1>1, <1>2, <1>3, <2>1 DEF Received, Runs, Missing, Counts
  <2>3. CASE reply.ver # 5 /\ Done("unsupported version")
    BY <1>4, <1>5, <1>6, <2>3, DoneKeeps
  <2>4. CASE reply.atyp = "bad" /\ Done("general failure")
    BY <1>4, <1>5, <1>6, <2>4, DoneKeeps
  <2>5. CASE reply.atyp = "ipv4" /\ Finish
    <3>1. unread = 10
      BY <1>4, <2>5 DEF AddressSize
    <3>2. unread' = 0
      BY <2>2, <3>1
    <3>3. Done(IF reply.rep = 0 THEN "none" ELSE "refused")
      BY <2>5 DEF Finish
    <3> QED
      BY <1>5, <1>6, <1>7, <2>2, <3>2, <3>3, DoneKeeps
  <2>6. CASE reply.ver = 5 /\ reply.atyp \in {"domain", "ipv6"} /\ Read(8, Rest)
    <3>1. /\ step' = 8 /\ op' = "read" /\ want' = Rest /\ peer' = peer /\ granted' = granted /\ reply' = reply
          /\ version' = 5
      BY <1>1, <2>6 DEF Read, proxy, arguments
    <3>2. unread - 10 = Rest
      <4>1. CASE reply.atyp = "domain"
        BY <1>4, <1>7, <1>9, <4>1 DEF AddressSize, Rest, Short
      <4>2. CASE reply.atyp = "ipv6"
        BY <1>4, <4>2 DEF AddressSize, Rest
      <4> QED
        BY <2>6, <4>1, <4>2
    <3>3. Rest' = Rest
      BY <3>1 DEF Rest
    <3>4. RestOwed'
      BY <1>4, <1>9, <2>2, <2>6, <3>1, <3>2, <3>3 DEF RestOwed, IsReply, Short
    <3> QED
      BY <1>5, <1>6, <3>1, <3>4, V5GoesOn
  <2> QED
    BY <2>3, <2>4, <2>5, <2>6 DEF V5Reply
<1> QED
  BY <1>8, <1>9

LEMMA LinkFailsKeeps ==
    ASSUME HandshakeInv, stage = "handshake", stage' = stage, LinkFails
    PROVE  HandshakeInv'
<1>1. Done("link") /\ unread' = unread /\ tunnel' = tunnel /\ swallowed' = swallowed
  BY DEF LinkFails, wire
<1>2. Counts' /\ (tunnel' > 0 => granted)
  BY <1>1 DEF HandshakeInv, Counts
<1> QED
  BY <1>1, <1>2, DoneKeeps

\* A granted connection is still waited for only if the name in the reply is short.
LEMMA ExpiresKeeps ==
    ASSUME HandshakeInv, stage = "handshake", stage' = stage, Expires
    PROVE  HandshakeInv'
<1>1. Done("expired") /\ unread' = unread /\ tunnel' = tunnel /\ swallowed' = swallowed
  BY DEF Expires, wire
<1>2. Counts /\ op = "read" /\ ~Complete /\ Begun
  BY DEF Expires, HandshakeInv, Begun
<1>3. Counts' /\ (tunnel' > 0 => granted)
  BY <1>1, <1>2 DEF HandshakeInv, Counts
<1>4. granted => IsReply /\ Short
  <2>1. SUFFICES ASSUME granted PROVE IsReply /\ Short
    OBVIOUS
  <2>2. CASE version = 4
    <3>1. want = 8 /\ unread = 8
      BY <1>2, <2>1, <2>2 DEF HandshakeInv, Phase4, Owed
    <3> QED
      BY <1>2, <3>1 DEF Complete, Counts, Never
  <2>3. CASE version # 4 /\ Phase5
    <3>1. want = 10 /\ ReplyOwed /\ peer = "silent"
      BY <1>2, <2>1, <2>3 DEF Phase5, ReplyOwed, Owed
    <3>2. IsReply /\ unread = 6 + AddressSize(reply.atyp, reply.length) /\ reply.length \in Nat
      BY <2>1, <3>1 DEF ReplyOwed, Owed, IsReply
    <3>3. unread < 10
      BY <1>2, <3>1, <3>2 DEF Complete, Counts, Never
    <3> QED
      BY <3>2, <3>3 DEF AddressSize, Short
  <2>4. CASE version # 4 /\ RestOwed
    <3>1. ~Short => unread = want /\ unread \in Nat
      BY <1>2, <2>4 DEF RestOwed, Counts
    <3> QED
      BY <1>2, <2>4, <3>1 DEF RestOwed, Complete, Never, Counts
  <2> QED
    BY <1>2, <2>2, <2>3, <2>4 DEF HandshakeInv
<1> QED
  BY <1>1, <1>3, <1>4, DoneKeeps

LEMMA SendsKeeps ==
    ASSUME NEW r, NEW bytes, Sends(r, bytes)
    PROVE  /\ reply' = r /\ unread' = unread + bytes /\ peer' = "silent"
           /\ tunnel' = tunnel /\ swallowed' = swallowed /\ version' = version
           /\ step' = step /\ op' = op /\ want' = want
BY DEF Sends, arguments, client

\* Whom an answer is owed to tells the step.
LEMMA Owing ==
    ASSUME HandshakeInv, peer # "silent", op # "done"
    PROVE  /\ Begun /\ unread = 0 /\ ~granted /\ Counts /\ ~(tunnel > 0) /\ swallowed = 0
           /\ peer = "connect4" => version = 4 /\ Phase4
           /\ peer \in {"methods", "auth", "connect"} => version = 5 /\ Phase5
<1>1. Begun /\ Counts /\ (tunnel > 0 => granted)
  BY DEF HandshakeInv, Begun
<1>2. CASE version = 4
  BY <1>1, <1>2 DEF HandshakeInv, Phase4, Owed
<1>3. CASE version # 4
  <2>1. version = 5 /\ Phase5 /\ swallowed = 0
    BY <1>1, <1>3 DEF HandshakeInv, RestOwed
  <2> QED
    BY <1>1, <2>1 DEF Phase5, ReplyOwed, Owed
<1> QED
  BY <1>2, <1>3

LEMMA AnswersKeep ==
    ASSUME HandshakeInv, stage = "handshake", stage' = stage,
           AnswerMethods \/ AnswerAuth \/ AnswerConnect4 \/ AnswerConnect
    PROVE  HandshakeInv'
<1>1. peer # "silent" /\ op # "done"
  BY DEF AnswerMethods, AnswerAuth, AnswerConnect4, AnswerConnect
<1>2. /\ Begun /\ unread = 0 /\ ~granted /\ Counts /\ ~(tunnel > 0) /\ swallowed = 0
      /\ peer = "connect4" => version = 4 /\ Phase4
      /\ peer \in {"methods", "auth", "connect"} => version = 5 /\ Phase5
  BY <1>1, Owing
<1>3. CASE AnswerMethods \/ AnswerAuth
  <2>1. PICK r : Sends(r, 2) /\ granted' = granted /\ peer \in {"methods", "auth"}
    BY <1>3 DEF AnswerMethods, AnswerAuth
  <2>2. /\ unread' = 2 /\ peer' = "silent" /\ tunnel' = tunnel /\ swallowed' = 0 /\ version' = 5
        /\ step' = step /\ op' = op /\ want' = want /\ ~granted'
    BY <1>2, <2>1, SendsKeeps DEF Counts
  <2>3. Phase5'
    BY <1>2, <2>1, <2>2 DEF Phase5, Owed, ReplyOwed
  <2>4. Counts' /\ op' \in {"write", "read"} /\ ~(tunnel' > 0)
    BY <1>2, <2>2 DEF Counts, Begun
  <2> QED
    BY <2>2, <2>3, <2>4, V5GoesOn
<1>4. CASE AnswerConnect4
  <2>1. PICK cd \in {90, 91} :
          Sends([kind |-> "reply4", cd |-> cd], 8) /\ granted' = (cd = 90) /\ peer = "connect4"
    BY <1>4 DEF AnswerConnect4
  <2>2. /\ reply' = [kind |-> "reply4", cd |-> cd]
        /\ unread' = 8 /\ peer' = "silent" /\ tunnel' = tunnel /\ swallowed' = 0 /\ version' = 4
        /\ step' = step /\ op' = op /\ want' = want
    BY <1>2, <2>1, SendsKeeps DEF Counts
  <2>3. Phase4'
    BY <1>2, <2>1, <2>2 DEF Phase4, Owed
  <2>4. granted' => reply'.kind = "reply4" /\ reply'.cd = 90
    BY <2>1, <2>2
  <2>5. TunnelClean' /\ GrantIsTaken'
    BY <1>1, <2>2 DEF TunnelClean, GrantIsTaken, Succeeded
  <2>6. Counts' /\ ~(tunnel' > 0)
    BY <1>2, <2>2 DEF Counts
  <2> QED
    BY <1>2, <2>2, <2>3, <2>4, <2>5, <2>6 DEF HandshakeInv, Begun
<1>5. CASE AnswerConnect
  <2>1. PICK ver \in {5, Bad}, rep \in {0, 5}, atyp \in {"ipv4", "ipv6", "domain", "bad"}, length \in DomainLengths :
          /\ Sends([kind |-> "reply", ver |-> ver, rep |-> rep, atyp |-> atyp, length |-> length],
                   6 + AddressSize(atyp, length))
          /\ granted' = (rep = 0) /\ peer = "connect"
    BY <1>5 DEF AnswerConnect
  <2>2. length \in Nat /\ AddressSize(atyp, length) \in Nat
    BY <2>1, LengthsAreBytes DEF AddressSize
  <2>3. /\ reply' = [kind |-> "reply", ver |-> ver, rep |-> rep, atyp |-> atyp, length |-> length]
        /\ unread' = 6 + AddressSize(atyp, length)
        /\ peer' = "silent" /\ tunnel' = tunnel /\ swallowed' = 0 /\ version' = 5
        /\ step' = step /\ op' = op /\ want' = want
    BY <1>2, <2>1, <2>2, SendsKeeps DEF Counts
  <2>4. IsReply' /\ reply'.atyp = atyp /\ reply'.length = length
    BY <2>1, <2>2, <2>3 DEF IsReply
  <2>5. ReplyOwed'
    BY <2>3, <2>4 DEF ReplyOwed, Owed, AddressSize
  <2>6. (step = 6 /\ op = "write") \/ (step = 7 /\ op = "read" /\ want = 10)
    BY <1>2, <2>1 DEF Phase5, Owed, ReplyOwed
  <2>7. Phase5'
    BY <2>3, <2>5, <2>6 DEF Phase5
  <2>8. Counts' /\ op' \in {"write", "read"} /\ ~(tunnel' > 0)
    BY <1>2, <2>2, <2>3, <2>6 DEF Counts
  <2> QED
    BY <2>3, <2>7, <2>8, V5GoesOn
<1> QED
  BY <1>3, <1>4, <1>5

LEMMA TunnelByteKeeps ==
    ASSUME HandshakeInv, stage = "handshake", stage' = stage, TunnelByte
    PROVE  HandshakeInv'
<1>1. /\ tunnel' = tunnel + 1 /\ granted /\ op # "done" /\ op' = op /\ want' = want /\ step' = step
      /\ unread' = unread /\ swallowed' = swallowed /\ version' = version
      /\ peer' = peer /\ granted' = granted /\ reply' = reply
  BY DEF TunnelByte, arguments, client, proxy
<1>2. Counts'
  BY <1>1 DEF HandshakeInv, Counts
<1>3. Phase4 => Phase4'
  BY <1>1 DEF Phase4, Owed
<1>4. Phase5 => Phase5'
  BY <1>1 DEF Phase5, Owed, ReplyOwed, IsReply
<1>5. RestOwed => RestOwed'
  BY <1>1 DEF RestOwed, IsReply, Rest, Short
<1>6. TunnelClean' /\ GrantIsTaken'
  BY <1>1 DEF TunnelClean, GrantIsTaken, Succeeded
<1> QED
  BY <1>1, <1>2, <1>3, <1>4, <1>5, <1>6 DEF HandshakeInv, Begun

LEMMA HandshakeStarts == Init => HandshakeInv
<1>1. SUFFICES ASSUME Init PROVE HandshakeInv
  OBVIOUS
<1>2. /\ op = "idle" /\ unread = 0 /\ tunnel = 0 /\ swallowed = 0 /\ peer = "silent" /\ granted = FALSE /\ step = 0
  BY <1>1 DEF Init, HandshakeInit
<1> QED
  BY <1>2 DEF HandshakeInv, Counts, Begun, TunnelClean, GrantIsTaken, Succeeded

LEMMA HandshakeStays ==
    ASSUME HandshakeInv, UNCHANGED handshake, stage' \in {"start", "resolve", "connect"} => op = "idle"
    PROVE  HandshakeInv'
<1>1. /\ version' = version /\ step' = step /\ op' = op /\ want' = want /\ error' = error
      /\ peer' = peer /\ granted' = granted /\ reply' = reply
      /\ unread' = unread /\ tunnel' = tunnel /\ swallowed' = swallowed
  BY DEF handshake, arguments, client, proxy, wire
<1> QED
  BY <1>1 DEF HandshakeInv, Counts, Begun, Phase4, Phase5, Owed, ReplyOwed, RestOwed, IsReply, Short, Rest,
              TunnelClean, GrantIsTaken, Succeeded

LEMMA HandshakeStep == HandshakeInv /\ [Next]_vars => HandshakeInv'
<1>1. SUFFICES ASSUME HandshakeInv, [Next]_vars PROVE HandshakeInv'
  OBVIOUS
<1>2. CASE UNCHANGED vars
  BY <1>1, <1>2, HandshakeStays DEF vars, proxied, HandshakeInv
<1>3. CASE Parses \/ Stopped
  BY <1>1, <1>3, HandshakeStays DEF Parses, Stopped, vars, proxied, HandshakeInv
<1>4. CASE Chain
  <2>1. CASE StartRefuses \/ StartResolves \/ on_socks_proxy_resolve \/ on_socks_proxy_handshake
    BY <1>1, <2>1, HandshakeStays DEF StartRefuses, StartResolves, on_socks_proxy_resolve, on_socks_proxy_handshake,
                                      To, HandshakeInv
  <2>2. CASE on_socks_proxy_connect
    <3>1. CASE To("failed") /\ UNCHANGED handshake
      BY <1>1, <3>1, HandshakeStays DEF To
    <3>2. CASE /\ To("handshake") /\ op' = "start"
               /\ UNCHANGED <<hostname, step, want, error, proxy, asked, wire>>
      <4>1. /\ step' = step /\ peer' = peer /\ granted' = granted
            /\ unread' = unread /\ tunnel' = tunnel /\ swallowed' = swallowed /\ stage' = "handshake"
        BY <3>2 DEF proxy, wire, To
      <4>2. stage = "connect" /\ op = "idle"
        BY <1>1, <2>2 DEF on_socks_proxy_connect, HandshakeInv
      <4> QED
        BY <1>1, <3>2, <4>1, <4>2 DEF HandshakeInv, Counts, Begun, TunnelClean, GrantIsTaken, Succeeded
    <3> QED
      BY <2>2, <3>1, <3>2 DEF on_socks_proxy_connect
  <2> QED
    BY <1>4, <2>1, <2>2 DEF Chain
<1>5. CASE ShakesHands
  <2>1. stage = "handshake" /\ stage' = stage /\ Handshake
    BY <1>5 DEF ShakesHands, proxied
  <2> QED
    BY <1>1, <2>1, V4Keeps, V5SentKeeps, V5AuthKeeps, V5ReplyKeeps, V5RestKeeps, LinkFailsKeeps, ExpiresKeeps,
       AnswersKeep, TunnelByteKeeps DEF Handshake, Operator, Peer
<1> QED
  BY <1>1, <1>2, <1>3, <1>4, <1>5 DEF Next

\* A handshake that succeeds has read the proxy's replies to the byte, for bound
\* addresses of any kind and length and any bytes of the tunnel behind them.
THEOREM RepliesReadToTheByte == Spec => []TunnelClean
<1>1. HandshakeInv => TunnelClean
  BY DEF HandshakeInv
<1> QED
  BY <1>1, HandshakeStarts, HandshakeStep, PTL DEF Spec

\* A connection the proxy granted is used, unless the link fails, the proxy breaks
\* the protocol or the name of the bound address has less than 3 bytes.
THEOREM GrantsAreTaken == Spec => []GrantIsTaken
<1>1. HandshakeInv => GrantIsTaken
  BY DEF HandshakeInv
<1> QED
  BY <1>1, HandshakeStarts, HandshakeStep, PTL DEF Spec

-----------------------------------------------------------------------------
(* The handshake the URL asks for *)

Credentials(t) == [user |-> ToldUser, password |-> ToldPassword, target |-> t]
NoCredentials(t) == [user |-> Untold, password |-> Untold, target |-> t]

\* What the proxy was told, and what it can be known to have decided by its answer.
Told4 == /\ asked = [user |-> username, password |-> Untold, target |-> hostname]
         /\ peer = "silent" /\ reply.cd = 90 => granted

Told5 == \/ step \in {1, 2} /\ asked = Nothing /\ (peer = "silent" /\ reply.method = 0 => admitted)
         \/ step \in {3, 4} /\ asked = Credentials("none") /\ (peer = "silent" /\ reply.status = 0 => admitted)
         \/ /\ step \in {6, 7, 8} /\ asked \in {Credentials(ToldTarget), NoCredentials(hostname)} /\ admitted
            /\ peer = "silent" /\ reply.rep = 0 => granted

\* A handshake over and done with was granted what it asked for.
Got4 == granted /\ asked = [user |-> username, password |-> Untold, target |-> hostname]
Got5 == granted /\ admitted /\ asked \in {Credentials(ToldTarget), NoCredentials(hostname)}

Told ==
    /\ op \in {"idle", "start"} => asked = Nothing
    /\ Begun => (version = 4 /\ Told4) \/ (version = 5 /\ Told5)
    /\ Succeeded => (version = 4 /\ Got4) \/ (version = 5 /\ Got5)

\* The session gets as far as the handshake only by a URL that was accepted, and
\* makes it with what was found there.
Configured ==
    /\ stage \notin {"start", "returned"} => verdict = "accepted" /\ SocksVersion # 0
    /\ op # "idle" => /\ stage \notin {"start", "returned"} /\ version = SocksVersion
                      /\ username = Text(parts["username"]) /\ password = Text(parts["password"])

LEMMA Answered == ASSUME HandshakeInv, Complete, op = "read" PROVE peer = "silent"
<1>1. SUFFICES ASSUME peer # "silent" PROVE FALSE
  OBVIOUS
<1>2. unread = 0 /\ tunnel \in Nat /\ ~(tunnel > 0) /\ (Phase4 \/ Phase5)
  <2>1. HandshakeInv /\ op # "done"
    OBVIOUS
  <2>2. peer # "silent" => unread = 0 /\ Counts /\ ~(tunnel > 0)
    BY <1>1, <2>1, Owing
  <2>3. Begun
    BY DEF Begun
  <2>4. Phase4 \/ Phase5
    BY <1>1, <2>3 DEF HandshakeInv, RestOwed
  <2> QED BY <1>1, <2>2, <2>4 DEF Counts
<1>3. want \in {2, 8, 10}
  BY <1>2 DEF Phase4, Phase5
<1> QED BY <1>2, <1>3 DEF Complete

\* What is over without success shows nothing.
LEMMA GivenUp == ASSUME NEW ec, Done(ec), ec # "none" PROVE Told'
BY DEF Done, Told, Begun, Succeeded

LEMMA Written4 ==
    ASSUME version = 4, Write(1, "connect4", [Nothing EXCEPT !.user = username, !.target = hostname])
    PROVE  Told'
<1>1. /\ op' = "write" /\ peer' = "connect4" /\ version' = 4 /\ username' = username /\ hostname' = hostname
      /\ asked' = [Nothing EXCEPT !.user = username, !.target = hostname]
  BY DEF Write, arguments
<1>2. asked' = [user |-> username, password |-> Untold, target |-> hostname]
  BY <1>1 DEF Nothing
<1>3. Told4'
  BY <1>1, <1>2 DEF Told4
<1> QED BY <1>1, <1>3 DEF Told, Begun, Succeeded

\* What the proxy reads out of the messages depends on the arguments only.
LEMMA ToldTheSame ==
    ASSUME hostname' = hostname, username' = username, password' = password
    PROVE  ToldUser' = ToldUser /\ ToldPassword' = ToldPassword /\ ToldTarget' = ToldTarget
BY DEF ToldUser, ToldPassword, ToldTarget, CredentialsFit, FitsByte, Cut

LEMMA ReadStays ==
    ASSUME NEW s, NEW n, Read(s, n)
    PROVE  /\ op' = "read" /\ step' = s /\ version' = version /\ hostname' = hostname
           /\ username' = username /\ password' = password /\ asked' = asked
           /\ peer' = peer /\ admitted' = admitted /\ granted' = granted /\ reply' = reply
           /\ ToldUser' = ToldUser /\ ToldPassword' = ToldPassword /\ ToldTarget' = ToldTarget
BY ToldTheSame DEF Read, arguments, proxy

LEMMA DoneStays ==
    ASSUME NEW ec, Done(ec)
    PROVE  /\ op' = "done" /\ error' = ec /\ version' = version /\ hostname' = hostname
           /\ username' = username /\ password' = password /\ asked' = asked
           /\ admitted' = admitted /\ granted' = granted
           /\ ToldUser' = ToldUser /\ ToldPassword' = ToldPassword /\ ToldTarget' = ToldTarget
BY ToldTheSame DEF Done, arguments, proxy

LEMMA V4Tells == ASSUME HandshakeInv, Told, V4Request \/ V4Sent \/ V4Reply PROVE Told'
<1>1. CASE V4Request
  BY <1>1, Written4, GivenUp DEF V4Request
<1>2. CASE V4Sent
  <2>1. version = 4 /\ Runs(1) /\ Read(2, 8)
    BY <1>2 DEF V4Sent
  <2>2. Begun
    BY <2>1 DEF Runs, Complete, Begun
  <2>3. Told4
    BY <2>1, <2>2 DEF Told
  <2>4. Told4'
    BY <2>1, <2>3, ReadStays DEF Told4
  <2> QED BY <2>1, <2>4, ReadStays DEF Told, Begun, Succeeded
<1>3. CASE V4Reply
  <2>1. version = 4 /\ Runs(2) /\ Done(IF reply.cd = 90 THEN "none" ELSE "rejected")
    BY <1>3 DEF V4Reply
  <2>2. CASE reply.cd # 90
    BY <2>1, <2>2, GivenUp
  <2>3. CASE reply.cd = 90
    <3>1. Begun /\ Complete
      BY <2>1 DEF Runs, Complete, Begun
    <3>2. op = "read"
      BY <2>1, <3>1 DEF Runs, HandshakeInv, Phase4
    <3>3. peer = "silent"
      BY <3>1, <3>2, Answered
    <3>4. Told4
      BY <2>1, <3>1 DEF Told
    <3>5. Got4'
      BY <2>1, <2>3, <3>3, <3>4, DoneStays DEF Told4, Got4
    <3> QED BY <2>1, <3>5, DoneStays DEF Told, Begun
  <2> QED BY <2>2, <2>3
<1> QED BY <1>1, <1>2, <1>3

LEMMA V5GoesOnTelling ==
    ASSUME version' = 5, op' \in {"write", "read"}, Told5'
    PROVE  Told'
BY DEF Told, Begun, Succeeded

LEMMA V5SentTells ==
    ASSUME HandshakeInv, Told, V5Methods \/ V5MethodsSent \/ V5AuthSent \/ V5RequestSent
    PROVE  Told'
<1>1. CASE V5Methods
  <2>1. version' = 5 /\ op' = "write" /\ step' = 1 /\ peer' = "methods" /\ asked' = Nothing
    BY <1>1 DEF V5Methods, Write, arguments, Told
  <2>2. Nothing' = Nothing
    BY DEF Nothing
  <2>3. Told5'
    BY <2>1, <2>2 DEF Told5
  <2> QED BY <2>1, <2>3, V5GoesOnTelling
<1>2. ASSUME version = 5, NEW s \in {1, 3, 6}, Runs(s), Read(s + 1, IF s = 6 THEN 10 ELSE 2) PROVE Told'
  <2>1. Begun /\ step = s
    BY <1>2 DEF Runs, Complete, Begun
  <2>2. Told5
    BY <1>2, <2>1 DEF Told
  <2>3. Told5'
    <3>1. step' = s + 1
      BY <1>2, ReadStays
    <3> QED BY <1>2, <2>1, <2>2, <3>1, ReadStays DEF Told5, Credentials, NoCredentials, Nothing
  <2> QED BY <1>2, <2>3, ReadStays, V5GoesOnTelling
<1>3. CASE V5MethodsSent
  BY <1>2, <1>3 DEF V5MethodsSent
<1>4. CASE V5AuthSent
  BY <1>2, <1>4 DEF V5AuthSent
<1>5. CASE V5RequestSent
  BY <1>2, <1>5 DEF V5RequestSent
<1> QED BY <1>1, <1>3, <1>4, <1>5

\* A request is made once the proxy has let the client in.
LEMMA RequestTells ==
    ASSUME version = 5, admitted,
           \/ asked = Nothing /\ Request(hostname)
           \/ asked = Credentials("none") /\ Request(ToldTarget)
    PROVE  Told'
<1>1. PICK t : Request(t) /\ asked' = [asked EXCEPT !.target = t]
               /\ ((asked = Nothing /\ t = hostname) \/ (asked = Credentials("none") /\ t = ToldTarget))
  BY DEF Request, Write
<1>2. /\ op' = "write" /\ step' = 6 /\ peer' = "connect" /\ version' = 5 /\ username' = username
      /\ password' = password /\ hostname' = hostname /\ admitted' = admitted
  BY <1>1 DEF Request, Write, arguments
<1>3. ToldUser' = ToldUser /\ ToldPassword' = ToldPassword /\ ToldTarget' = ToldTarget
  BY <1>2, ToldTheSame
<1>4. CASE asked = Nothing /\ t = hostname
  <2>1. asked' = NoCredentials(hostname)
    BY <1>1, <1>4 DEF Nothing, NoCredentials
  <2>2. asked' = NoCredentials(hostname)'
    BY <1>2, <2>1 DEF NoCredentials
  <2>3. Told5'
    BY <1>2, <2>2 DEF Told5
  <2> QED BY <1>2, <2>3, V5GoesOnTelling
<1>5. CASE asked = Credentials("none") /\ t = ToldTarget
  <2>1. asked' = Credentials(ToldTarget)
    BY <1>1, <1>5 DEF Credentials
  <2>2. asked' = Credentials(ToldTarget)'
    BY <1>3, <2>1 DEF Credentials
  <2>3. Told5'
    BY <1>2, <2>2 DEF Told5
  <2> QED BY <1>2, <2>3, V5GoesOnTelling
<1> QED BY <1>1, <1>4, <1>5

\* At the steps 2, 4, 7 and 8 the answer is there.
LEMMA V5Reads ==
    ASSUME HandshakeInv, Told, version = 5, NEW s \in {2, 4, 7, 8}, Runs(s)
    PROVE  peer = "silent" /\ step = s /\ Told5
<1>1. Begun /\ Complete /\ step = s
  BY DEF Runs, Complete, Begun
<1>2. op = "read"
  BY <1>1 DEF HandshakeInv, Phase5
<1> QED BY <1>1, <1>2, Answered DEF Told

LEMMA V5AuthTells == ASSUME HandshakeInv, Told, V5Method \/ V5AuthStatus PROVE Told'
<1>1. CASE V5Method
  <2>1. version = 5 /\ Runs(2)
    BY <1>1 DEF V5Method
  <2>2. asked = Nothing /\ (reply.method = 0 => admitted)
    BY <2>1, V5Reads DEF Told5
  <2>3. CASE \E ec \in {"unsupported version", "username required", "unsupported authentication"} : Done(ec)
    BY <2>3, GivenUp
  <2>4. CASE Write(3, "auth", [asked EXCEPT !.user = ToldUser, !.password = ToldPassword])
    <3>1. /\ op' = "write" /\ step' = 3 /\ peer' = "auth" /\ version' = 5 /\ hostname' = hostname
          /\ username' = username /\ password' = password
          /\ asked' = [asked EXCEPT !.user = ToldUser, !.password = ToldPassword]
      BY <2>1, <2>4 DEF Write, arguments
    <3>2. asked' = Credentials("none")'
      BY <2>2, <3>1, ToldTheSame DEF Nothing, Credentials
    <3>3. Told5'
      BY <3>1, <3>2 DEF Told5
    <3> QED BY <3>1, <3>3, V5GoesOnTelling
  <2>5. CASE reply.method = 0 /\ Request(hostname)
    BY <2>1, <2>2, <2>5, RequestTells
  <2> QED BY <1>1, <2>3, <2>4, <2>5 DEF V5Method
<1>2. CASE V5AuthStatus
  <2>1. version = 5 /\ Runs(4)
    BY <1>2 DEF V5AuthStatus
  <2>2. asked = Credentials("none") /\ (reply.status = 0 => admitted)
    BY <2>1, V5Reads DEF Told5
  <2>3. CASE \E ec \in {"unsupported authentication", "authentication error"} : Done(ec)
    BY <2>3, GivenUp
  <2>4. CASE reply.status = 0 /\ Request(ToldTarget)
    BY <2>1, <2>2, <2>4, RequestTells
  <2> QED BY <1>2, <2>3, <2>4 DEF V5AuthStatus
<1> QED BY <1>1, <1>2

LEMMA V5ReplyTells == ASSUME HandshakeInv, Told, V5Reply \/ V5Rest PROVE Told'
<1>1. PICK s \in {7, 8} : version = 5 /\ Runs(s)
  BY DEF V5Reply, V5Rest
<1>2. /\ admitted /\ asked \in {Credentials(ToldTarget), NoCredentials(hostname)}
      /\ reply.rep = 0 => granted
  BY <1>1, V5Reads DEF Told5
<1>3. CASE Finish
  <2>1. CASE reply.rep # 0
    BY <1>3, <2>1, GivenUp DEF Finish
  <2>2. CASE reply.rep = 0
    <3>1. Done("none")
      BY <1>3, <2>2 DEF Finish
    <3>2. Got5'
      BY <1>2, <2>2, <3>1, DoneStays DEF Got5, Credentials, NoCredentials
    <3> QED BY <1>1, <3>1, <3>2, DoneStays DEF Told, Begun
  <2> QED BY <2>1, <2>2
<1>4. CASE \E ec \in {"unsupported version", "general failure"} : Done(ec)
  BY <1>4, GivenUp
<1>5. CASE Read(8, Rest)
  <2>1. Told5'
    BY <1>2, <1>5, ReadStays DEF Told5, Credentials, NoCredentials
  <2> QED BY <1>1, <1>5, <2>1, ReadStays, V5GoesOnTelling
<1> QED BY <1>3, <1>4, <1>5 DEF V5Reply, V5Rest

\* Whatever the proxy answers, it is known what it decided.
LEMMA AnswersTell ==
    ASSUME HandshakeInv, Told, AnswerMethods \/ AnswerAuth \/ AnswerConnect4 \/ AnswerConnect
    PROVE  Told'
<1>1. peer # "silent" /\ op # "done"
  BY DEF AnswerMethods, AnswerAuth, AnswerConnect4, AnswerConnect
<1>2. /\ Begun
      /\ peer = "connect4" => version = 4 /\ Phase4
      /\ peer \in {"methods", "auth", "connect"} => version = 5 /\ Phase5
  BY <1>1, Owing
<1>3. \E r, n : Sends(r, n)
  BY DEF AnswerMethods, AnswerAuth, AnswerConnect4, AnswerConnect
<1>4. /\ op' = op /\ step' = step /\ version' = version /\ username' = username /\ password' = password
      /\ hostname' = hostname /\ asked' = asked /\ peer' = "silent"
      /\ ToldUser' = ToldUser /\ ToldPassword' = ToldPassword /\ ToldTarget' = ToldTarget
  BY <1>3, ToldTheSame DEF Sends, arguments, client
<1>5. CASE AnswerMethods
  <2>1. version = 5 /\ step \in {1, 2} /\ (reply'.method = 0 => admitted')
    <3>1. PICK ver \in {5, Bad}, method \in {0, 2, 255} :
            Sends([kind |-> "method", ver |-> ver, method |-> method], 2) /\ admitted' = (method = 0)
      BY <1>5 DEF AnswerMethods
    <3>2. reply' = [kind |-> "method", ver |-> ver, method |-> method]
      BY <3>1 DEF Sends
    <3>3. version = 5 /\ step \in {1, 2}
      BY <1>2, <1>5 DEF AnswerMethods, Phase5, Owed, ReplyOwed
    <3> QED BY <3>1, <3>2, <3>3
  <2>2. Told5'
    BY <1>2, <1>4, <2>1 DEF Told, Told5, Nothing
  <2> QED BY <1>2, <1>4, <2>1, <2>2, V5GoesOnTelling DEF Begun
<1>6. CASE AnswerAuth
  <2>1. version = 5 /\ step \in {3, 4} /\ (reply'.status = 0 => admitted')
    <3>1. PICK ver, status : reply' = [kind |-> "auth", ver |-> ver, status |-> status] /\ admitted' = (status = 0)
      BY <1>6 DEF AnswerAuth, Sends
    <3>2. version = 5 /\ step \in {3, 4}
      BY <1>2, <1>6 DEF AnswerAuth, Phase5, Owed, ReplyOwed
    <3> QED BY <3>1, <3>2
  <2>2. Told5'
    BY <1>2, <1>4, <2>1 DEF Told, Told5, Credentials
  <2> QED BY <1>2, <1>4, <2>1, <2>2, V5GoesOnTelling DEF Begun
<1>7. CASE AnswerConnect
  <2>1. version = 5 /\ step \in {6, 7} /\ (reply'.rep = 0 => granted') /\ admitted' = admitted
    <3>1. PICK ver \in {5, Bad}, rep \in {0, 5}, atyp \in {"ipv4", "ipv6", "domain", "bad"}, length \in DomainLengths :
            /\ Sends([kind |-> "reply", ver |-> ver, rep |-> rep, atyp |-> atyp, length |-> length],
                     6 + AddressSize(atyp, length))
            /\ granted' = (rep = 0)
      BY <1>7 DEF AnswerConnect
    <3>2. reply' = [kind |-> "reply", ver |-> ver, rep |-> rep, atyp |-> atyp, length |-> length]
      BY <3>1 DEF Sends
    <3>3. version = 5 /\ step \in {6, 7} /\ admitted' = admitted
      BY <1>2, <1>7 DEF AnswerConnect, Phase5, Owed, ReplyOwed
    <3> QED BY <3>1, <3>2, <3>3
  <2>2. Told5'
    BY <1>2, <1>4, <2>1 DEF Told, Told5, Credentials, NoCredentials
  <2> QED BY <1>2, <1>4, <2>1, <2>2, V5GoesOnTelling DEF Begun
<1>8. CASE AnswerConnect4
  <2>1. version = 4 /\ (reply'.cd = 90 => granted')
    <3>1. PICK cd : reply' = [kind |-> "reply4", cd |-> cd] /\ granted' = (cd = 90)
      BY <1>8 DEF AnswerConnect4, Sends
    <3>2. version = 4
      BY <1>2, <1>8 DEF AnswerConnect4
    <3> QED BY <3>1, <3>2
  <2>2. Told4'
    BY <1>2, <1>4, <2>1 DEF Told, Told4
  <2> QED BY <1>2, <1>4, <2>1, <2>2 DEF Told, Begun, Succeeded
<1> QED BY <1>5, <1>6, <1>7, <1>8

\* Nothing of what Told is about changes.
LEMMA ToldStays ==
    ASSUME Told, UNCHANGED <<arguments, client, proxy, asked>>
    PROVE  Told'
<1>1. /\ version' = version /\ hostname' = hostname /\ username' = username /\ password' = password
      /\ step' = step /\ op' = op /\ error' = error /\ asked' = asked
      /\ peer' = peer /\ admitted' = admitted /\ granted' = granted /\ reply' = reply
      /\ ToldUser' = ToldUser /\ ToldPassword' = ToldPassword /\ ToldTarget' = ToldTarget
  BY ToldTheSame DEF arguments, client, proxy
<1> QED BY <1>1 DEF Told, Begun, Succeeded, Told4, Told5, Got4, Got5, Credentials, NoCredentials, Nothing

LEMMA HandshakeTells == ASSUME HandshakeInv, Told, Handshake PROVE Told'
<1>1. CASE LinkFails \/ Expires
  BY <1>1, GivenUp DEF LinkFails, Expires
<1>2. CASE TunnelByte
  BY <1>2, ToldStays DEF TunnelByte
<1> QED
  BY <1>1, <1>2, V4Tells, V5SentTells, V5AuthTells, V5ReplyTells, AnswersTell DEF Handshake, Operator, Peer

\* The handshake keeps to its arguments.
LEMMA ArgumentsStay == ASSUME HandshakeInv, Handshake PROVE UNCHANGED arguments /\ op # "idle" /\ op' # "idle"
<1>1. /\ \A s, n : Read(s, n) => UNCHANGED arguments /\ op' # "idle"
      /\ \A s, k, w : Write(s, k, w) => UNCHANGED arguments /\ op' # "idle"
      /\ \A ec : Done(ec) => UNCHANGED arguments /\ op' # "idle"
      /\ \A r, n : Sends(r, n) => UNCHANGED arguments /\ op' = op
      /\ \A s : Runs(s) => op # "idle"
  BY DEF Read, Write, Done, Sends, Runs, Complete, client
<1>2. CASE Operator
  BY <1>1, <1>2 DEF Operator, V4Request, V4Sent, V4Reply, V5Methods, V5MethodsSent, V5Method, V5AuthSent,
                    V5AuthStatus, V5RequestSent, V5Reply, V5Rest, Request, Finish
<1>3. CASE LinkFails \/ Expires
  BY <1>1, <1>3 DEF LinkFails, Expires
<1>4. CASE TunnelByte
  BY <1>4 DEF TunnelByte, HandshakeInv, client
<1>5. CASE AnswerMethods \/ AnswerAuth \/ AnswerConnect4 \/ AnswerConnect
  <2>1. \E r, n : Sends(r, n)
    BY <1>5 DEF AnswerMethods, AnswerAuth, AnswerConnect4, AnswerConnect
  <2>2. op # "idle"
    BY <1>5 DEF AnswerMethods, AnswerAuth, AnswerConnect4, AnswerConnect, HandshakeInv
  <2> QED BY <1>1, <2>1, <2>2
<1> QED BY <1>2, <1>3, <1>4, <1>5 DEF Handshake, Peer

LEMMA ConfiguredStarts == Init => Configured /\ Told
BY DEF Init, HandshakeInit, Configured, Told, Begun, Succeeded

LEMMA ConfiguredStays ==
    ASSUME Configured, UNCHANGED parser, UNCHANGED arguments, op' # "idle" => op # "idle",
           stage' \notin {"start", "returned"} => stage \notin {"start", "returned"} \/ (verdict = "accepted" /\ SocksVersion # 0),
           op' # "idle" => stage' \notin {"start", "returned"}
    PROVE  Configured'
<1>1. /\ url' = url /\ verdict' = verdict /\ parts' = parts
      /\ version' = version /\ username' = username /\ password' = password
  BY DEF parser, arguments
<1> QED BY <1>1 DEF Configured, SocksVersion, Text

LEMMA ConfiguredStep == HandshakeInv /\ Configured /\ Told /\ [Next]_vars => (Configured /\ Told)'
<1>1. SUFFICES ASSUME HandshakeInv, Configured, Told, [Next]_vars PROVE Configured' /\ Told'
  OBVIOUS
<1>2. CASE Parses
  <2>1. op = "idle" /\ op' = op /\ stage' = stage /\ stage = "start"
    BY <1>1, <1>2 DEF Parses, handshake, client, proxied, HandshakeInv
  <2>2. Configured'
    BY <2>1 DEF Configured
  <2> QED BY <1>1, <1>2, <2>2, ToldStays DEF Parses, handshake
<1>3. CASE UNCHANGED vars
  <2>1. UNCHANGED <<parser, handshake, stage, arguments, client, proxy, asked>> /\ op' = op
    BY <1>3 DEF vars, proxied, handshake, client
  <2> QED BY <1>1, <2>1, ToldStays, ConfiguredStays DEF Configured
<1>4. CASE StartRefuses \/ StartResolves \/ on_socks_proxy_resolve \/ on_socks_proxy_handshake
  <2>1. UNCHANGED <<parser, handshake, arguments, client, proxy, asked>> /\ op' = op
    BY <1>4 DEF StartRefuses, StartResolves, on_socks_proxy_resolve, on_socks_proxy_handshake, handshake, client
  <2>2. op' # "idle" => stage' \notin {"start", "returned"}
    BY <1>1, <1>4, <2>1 DEF StartRefuses, StartResolves, on_socks_proxy_resolve, on_socks_proxy_handshake, To,
                            HandshakeInv, Configured
  <2>3. stage' \notin {"start", "returned"} =>
          stage \notin {"start", "returned"} \/ (verdict = "accepted" /\ SocksVersion # 0)
    BY <1>4 DEF StartRefuses, StartResolves, on_socks_proxy_resolve, on_socks_proxy_handshake, To
  <2> QED BY <1>1, <2>1, <2>2, <2>3, ToldStays, ConfiguredStays
<1>5. CASE on_socks_proxy_connect
  <2>1. stage = "connect" /\ op = "idle" /\ asked = Nothing
    BY <1>1, <1>5 DEF on_socks_proxy_connect, HandshakeInv, Told
  <2>2. CASE To("failed") /\ UNCHANGED handshake
    <3>1. op' = op /\ stage' = "failed" /\ UNCHANGED <<parser, arguments, client, proxy, asked>>
      BY <1>5, <2>2 DEF on_socks_proxy_connect, To, handshake, client
    <3> QED BY <1>1, <2>1, <3>1, ToldStays, ConfiguredStays
  <2>3. CASE /\ To("handshake")
             /\ version' = SocksVersion
             /\ username' = Text(parts["username"]) /\ password' = Text(parts["password"])
             /\ op' = "start"
             /\ UNCHANGED <<hostname, step, want, error, proxy, asked, wire>>
    <3>1. url' = url /\ verdict' = verdict /\ parts' = parts /\ stage' = "handshake"
      BY <1>5, <2>3 DEF on_socks_proxy_connect, To, parser
    <3>2. SocksVersion' = SocksVersion /\ \A p : Text(parts[p])' = Text(parts[p])
      BY <3>1 DEF SocksVersion, Text
    <3>3. Configured'
      BY <1>1, <2>1, <2>3, <3>1 DEF Configured, SocksVersion, Text
    <3>4. Told'
      BY <2>1, <2>3 DEF Told, Begun, Succeeded, Nothing
    <3> QED BY <3>3, <3>4
  <2> QED BY <1>5, <2>2, <2>3 DEF on_socks_proxy_connect
<1>6. CASE ShakesHands
  <2>1. Handshake /\ UNCHANGED <<parser, stage>> /\ stage = "handshake"
    BY <1>6 DEF ShakesHands, proxied
  <2>2. Told' /\ UNCHANGED arguments /\ op # "idle"
    BY <1>1, <2>1, HandshakeTells, ArgumentsStay
  <2> QED BY <1>1, <2>1, <2>2, ConfiguredStays
<1> QED BY <1>1, <1>2, <1>3, <1>4, <1>5, <1>6 DEF Next, Chain, Stopped

\* A text with a length that a byte can tell is read as it is.
LEMMA ShortIsWhole == ASSUME NEW t \in Seq(STRING), FitsByte(t) PROVE Cut(t) = t
<1>1. Len(t) \in Nat /\ Len(t) % 256 = Len(t)
  BY DEF FitsByte
<1>2. SubSeq(t, 1, Len(t)) = t
  OBVIOUS
<1> QED BY <1>1, <1>2 DEF Cut

\* A handshake that succeeds was made as the URL says, whatever the proxy answers,
\* when and in what order: by the version of its scheme, admitted and granted; and
\* by SOCKS 4, or if user and password have less than 256 bytes, with that user and
\* that password if the proxy wanted any, and to the session's host.
THEOREM HandshakeIsAsConfigured == Spec => []ActsAsConfigured
<1>1. HandshakeInv /\ Configured /\ Told /\ RoundTrip /\ RoundInv => ActsAsConfigured
  <2>1. SUFFICES ASSUME HandshakeInv, Configured, Told, RoundTrip, RoundInv, Succeeded
                 PROVE  /\ granted
                        /\ version = 5 => admitted
                        /\ given # Unknown => version = (IF given.scheme = Socks4Scheme THEN 4 ELSE 5)
                        /\ version = 4 \/ CredentialsFit =>
                             /\ asked.target = hostname
                             /\ given # Unknown =>
                                  /\ version = 4 => asked.user = given.username
                                  /\ version = 5 /\ asked.user # Untold => /\ asked.user = given.username
                                                                          /\ asked.password = given.password
    BY DEF ActsAsConfigured
  <2>2. (version = 4 /\ Got4) \/ (version = 5 /\ Got5)
    BY <2>1 DEF Told
  <2>3. granted /\ (version = 5 => admitted)
    BY <2>2 DEF Got4, Got5
  <2>4. version = 4 \/ CredentialsFit => asked.target = hostname
    BY <2>2 DEF Got4, Got5, Credentials, NoCredentials, ToldTarget
  <2>5. ASSUME given # Unknown
        PROVE  /\ version = (IF given.scheme = Socks4Scheme THEN 4 ELSE 5)
               /\ version = 4 => asked.user = given.username
               /\ version = 5 /\ CredentialsFit /\ asked.user # Untold =>
                    asked.user = given.username /\ asked.password = given.password
    <3>1. /\ verdict = "accepted" /\ version = SocksVersion /\ version # 0
          /\ username = Text(parts["username"]) /\ password = Text(parts["password"])
      BY <2>1 DEF Configured, Succeeded
    <3>2. /\ Text(parts["scheme"]) = given["scheme"] /\ Text(parts["username"]) = given["username"]
          /\ Text(parts["password"]) = given["password"]
      BY <2>1, <2>5, <3>1 DEF RoundTrip, Part
    <3>3. version = (IF given.scheme = Socks4Scheme THEN 4 ELSE 5)
      BY <3>1, <3>2, SchemesApart DEF SocksVersion
    <3>4. version = 4 => asked.user = given.username
      BY <2>2, <3>1, <3>2 DEF Got4
    <3>5. ASSUME version = 5, CredentialsFit, asked.user # Untold
          PROVE  asked.user = given.username /\ asked.password = given.password
      <4>1. username \in Seq(STRING) /\ password \in Seq(STRING)
        <5>1. WellFormed(given)
          BY <2>1, <2>5, ServersAreWellFormed DEF RoundInv
        <5>2. given["username"] \in Seq(STRING) /\ given["password"] \in Seq(STRING)
          BY <5>1, Zenon DEF WellFormed, Part
        <5> QED BY <3>1, <3>2, <5>2
      <4>2. ToldUser = username /\ ToldPassword = password
        BY <3>5, <4>1, ShortIsWhole DEF ToldUser, ToldPassword, CredentialsFit
      <4>3. asked = Credentials(ToldTarget)
        BY <2>2, <3>5 DEF Got5, NoCredentials
      <4>4. asked.user = username /\ asked.password = password
        BY <4>2, <4>3 DEF Credentials
      <4> QED BY <3>1, <3>2, <4>4
    <3> QED BY <3>3, <3>4, <3>5
  <2> QED BY <2>3, <2>4, <2>5
<1>2. Spec => []HandshakeInv
  BY HandshakeStarts, HandshakeStep, PTL DEF Spec
<1>3. Spec => [](Configured /\ Told)
  BY <1>2, ConfiguredStarts, ConfiguredStep, PTL DEF Spec
<1> QED BY <1>1, <1>2, <1>3, UrlsAreRead, RoundInvHolds, PTL
==============================================================================
