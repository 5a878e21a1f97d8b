------------------------------- MODULE MCProxy -------------------------------
EXTENDS Proxy

MCAlphas == {"a", "f", "h", "p", "q", "s", "u", "x"}
MCDigits == {"1", "4", "5"}

\* "s4" and "s5" stand for the schemes.
MCSocks4Scheme == <<"s", "4">>
MCSocks5Scheme == <<"s", "5">>

\* The most a length byte can tell, and of the other it leaves one byte.
Longest == [i \in 1..255 |-> "u"]
TooLong == [i \in 1..257 |-> "u"]

Host6 == <<":", ":", "1">>

\* No :: in it, or no address, as far as texts of these lengths go.
MCRefusedHosts ==
    {<<TRUE, text>> : text \in BoundedSeq({"1", "a", ":"}, 4) \ {<<":", ":">>, Host6, Host6 \o <<"1">>}}
    \cup {<<FALSE, <<"5", "5", "5", "5">>>>}

NoTail == <<<< >>, << >>, << >>>>
Tails == {NoTail, <<<<"/", "p", ":">>, << >>, << >>>>, <<<< >>, <<"q", "?">>, << >>>>, <<<< >>, << >>, <<"f">>>>,
          <<<<"/", "p">>, <<"q", "@">>, <<"f", "/">>>>}
Users == {<<<< >>, << >>>>, <<<<"u">>, << >>>>, <<<<"u">>, <<"p", ":">>>>}

LongUsers == {<<Longest, Longest>>, <<TooLong, <<"p">>>>, <<<<"u">>, TooLong>>, <<TooLong, TooLong>>}

MCServers ==
    {[scheme |-> scheme, username |-> user[1], password |-> user[2], v6 |-> v6host[1], host |-> v6host[2],
      port |-> port, path |-> tail[1], query |-> tail[2], fragment |-> tail[3]] :
        scheme \in {MCSocks4Scheme, MCSocks5Scheme}, user \in Users,
        v6host \in {<<FALSE, <<"h", ".", "1">>>>, <<TRUE, Host6>>},
        port \in {<< >>, <<"1", "4">>}, tail \in Tails}
    \cup {[scheme |-> scheme, username |-> user[1], password |-> user[2], v6 |-> FALSE, host |-> <<"h">>,
            port |-> << >>, path |-> << >>, query |-> << >>, fragment |-> << >>] :
              scheme \in {MCSocks4Scheme, MCSocks5Scheme}, user \in LongUsers}

Chars == {"a", "1", ":", "@", "[", "]", "/", "?", "#", " "}
X == <<"x", ":", "/", "/">>
Heads == {X, X \o <<"a", "@">>}
LongHeads == {X \o <<"a", "/">>, X \o <<"a", "?">>, X \o <<"a", "#">>, X \o <<"a", "@", "h", ":", "1">>,
              X \o <<"[">> \o Host6 \o <<"]">>, X \o <<"a", "@", "[">> \o Host6 \o <<"]">>}

MCTexts ==
    {head \o tail : head \in Heads, tail \in BoundedSeq(Chars, 3)}
    \cup {head \o tail : head \in LongHeads, tail \in BoundedSeq(Chars, 2)}
    \cup {<< >>, <<"1">>, <<"x">>, <<"x", "@">>, <<"x", ":", "a">>, <<"x", ":", "a", "?", "q">>, <<"x", ":", "/", "a">>,
          <<"f", ":", "/", "/", "/", "p">>, <<"x", "+", ":", "/", "/", "h">>,
          X \o <<"5", "5", "5", "5">>, X \o <<"5", "5", "5", "5", ":">>, X \o <<"a", "@", "5", "5", "5", "5">>}
==============================================================================
