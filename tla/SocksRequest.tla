---------------------------- MODULE SocksRequest ----------------------------
(***************************************************************************)
(* project4/socks_server: how a session reads a SOCKS4 request and decides *)
(* it with the two files of rules.                                         *)
(***************************************************************************)
EXTENDS Integers, Sequences, SequencesExt

CONSTANT
    Resolve   \* the host names the resolver knows, with their addresses

\* A request: version and command bytes, the four octets of the address, and
\* the bytes that follow them (user id, 0, host name, 0).
Command(r) == CASE r.cd = 1 -> "CONNECT" [] r.cd = 2 -> "BIND" [] OTHER -> ""

\* The user id and the host name the parser takes from the bytes b: after
\* each byte it keeps it skips one, terminators included.
Names(b) ==
    LET from[i \in 1..(Len(b) + 2), host \in BOOLEAN] ==
            IF i > Len(b) THEN [userid |-> << >>, host |-> << >>]
            ELSE IF b[i] = 0 THEN from[i + 1, TRUE]
            ELSE LET rest == from[i + 2, host]
                 IN  IF host THEN [rest EXCEPT !.host = <<b[i]>> \o @]
                             ELSE [rest EXCEPT !.userid = <<b[i]>> \o @]
    IN  from[1, FALSE]

\* What the protocol says the host name of those bytes is.
HostSent(b) ==
    LET zeros == {i \in DOMAIN b : b[i] = 0}
        first == CHOOSE i \in zeros : \A j \in zeros : i <= j
    IN  IF zeros = {} THEN << >> ELSE SelectSeq(SubSeq(b, first + 1, Len(b)), LAMBDA c : c # 0)

NoAddress == <<0, 0, 0, 0>>

\* A request for a host name has the address 0.0.0.x.
ByName(r) ==
    /\ SubSeq(r.ip, 1, 3) = <<0, 0, 0>>
    /\ r.ip # NoAddress
    /\ Names(r.tail).host # << >>

\* The resolver throws for a name it does not know; nobody catches it.
Unresolvable(r) == ByName(r) /\ Names(r.tail).host \notin DOMAIN Resolve

Destination(r) == IF ByName(r) THEN Resolve[Names(r.tail).host] ELSE r.ip

-----------------------------------------------------------------------------
(* Rules *)

\* A file of rules; [present |-> FALSE] when it cannot be opened.
Conf(rules) == [present |-> TRUE, rules |-> rules]
NoConf == [present |-> FALSE, rules |-> << >>]

\* The octet of a pattern that is compared with octet i of an address: a
\* pattern that is too short goes on with its last one.
At(pattern, i) == IF i <= Len(pattern) THEN pattern[i] ELSE Last(pattern)

\* "*" in a pattern.
Star == 256

\* The bug of a comparison that is content with one octet.
MatchesSome(pattern, ip) == \E i \in 1..4 : At(pattern, i) \in {Star, ip[i]}

Matches(pattern, ip) == \A i \in 1..4 : At(pattern, i) \in {Star, ip[i]}

\* A rule of type "c" is for CONNECT and one of type "b" for BIND; its first
\* word, "permit" in the file, is not looked at.
Concerns(rule, command) == <<command, rule.type>> \in {<<"CONNECT", "c">>, <<"BIND", "b">>}

Passes(conf, command, ip) ==
    conf.present => \E i \in DOMAIN conf.rules :
                        Concerns(conf.rules[i], command) /\ Matches(conf.rules[i].pattern, ip)

\* Whether a session from address s goes on to connect.
Granted(r, s, clientConf, destConf) ==
    /\ Passes(clientConf, Command(r), s)
    /\ Passes(destConf, Command(r), Destination(r))
    /\ Destination(r) # NoAddress
    /\ r.vn = 4
=============================================================================
