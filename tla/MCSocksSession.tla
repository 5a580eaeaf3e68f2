--------------------------- MODULE MCSocksSession ---------------------------
(* Requests, rules and names for SocksSession. *)
EXTENDS SocksSession, TLC

Req(vn, cd, ip, tail) == [vn |-> vn, cd |-> cd, ip |-> ip, tail |-> tail]
Rule(type, pattern) == [type |-> type, pattern |-> pattern]

Near == <<10, 0, 0, 1>>
Far  == <<10, 9, 9, 9>>

\* The name <<7, 8>>, of which the parser keeps the first byte.
NameTail == <<0, 7, 8, 0>>
KnownNames == (<<7>> :> Far)

\* CONNECT, BIND and neither, near and far, by address and by name, and two
\* requests that are refused whatever the rules say.
AllRequests ==
    {Req(4, cd, Near, <<0>>) : cd \in 1..3}
    \cup {Req(4, 1, <<0, 0, 0, 1>>, NameTail), Req(4, 1, <<0, 0, 0, 1>>, <<0, 8, 0>>),
          Req(4, 1, NoAddress, <<0>>), Req(5, 1, Near, <<0>>)}
OneIp == {Near}
TwoIps == {Near, Far}

\* No file, a file without rules, and one with a rule of each kind: the
\* second pattern is too short and stands for 10.9.9.9.
NoConfs == {NoConf}
AllConfs == {NoConf, Conf(<< >>), Conf(<<Rule("b", <<10, Star, 0, 1>>), Rule("c", <<10, 9>>)>>)}

NamedRequests == {Req(4, 1, <<0, 0, 0, 1>>, NameTail)}
=============================================================================
