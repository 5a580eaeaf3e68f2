----------------------------- MODULE MCNpSingle -----------------------------
(***************************************************************************)
(* The lines users type in the runs of NpSingle.                           *)
(***************************************************************************)
EXTENDS NpSingle

Cat(n)      == [read |-> n, write |-> "standard", arg |-> 0]
To(k, n)    == [read |-> 0, write |-> k, arg |-> n]
RunThen(stages, last) == [op |-> "run", stages |-> stages, last |-> last]
RunOf(stages) == RunThen(stages, Wait)
Op(o) == [op |-> o]

\* Chat, a nickname, a block of the second user and of a user who is not there,
\* "ls", "ls | name a" and "tell" with nobody to tell.
RoomLines ==
    {Op("exit"), Op("yell"), [op |-> "tell", uid |-> 2]}
        \cup {[op |-> "name", name |-> n] : n \in NickNames}
        \cup {Op("blank"), Op("who"), [op |-> "block", uid |-> 2]}
        \cup {RunOf(<<Cat(0)>>), RunThen(<<To("normal", 0)>>, [op |-> "name", name |-> CHOOSE n \in NickNames : TRUE]),
              RunThen(<< >>, [op |-> "malformed"])}

\* "ls |2", "ls |1 cat", "ls | cat <1", "ls |", "ls >2": number pipes that are due,
\* missed and merged, "<1" and nothing at all behind a normal pipe, pipes to oneself
\* and to another user, taken by whom they are for and by others; "ls |1 ls | setenv v x"
\* counts a pipe down to a program and has a built-in behind another.
PipeLines ==
    {Op("exit"), RunOf(<<To("number", 2)>>), RunOf(<<To("number", 1), Cat(0)>>),
     RunOf(<<To("normal", 0), Cat(1)>>), RunOf(<<To("normal", 0)>>), RunOf(<<To("user", 2)>>),
     RunThen(<<To("number", 1), To("normal", 0)>>, [op |-> "setenv", var |-> "v"])}

TheftLines == {RunOf(<<To("user", 2)>>), RunOf(<<Cat(1)>>)}
=============================================================================
