------------------------------ MODULE ChatRoom ------------------------------
(***************************************************************************)
(* What the chat servers of project2 promise, whoever implements it: a     *)
(* room whose members have distinct numbers and distinct nicknames, and    *)
(* user pipes, at most one from a member to a member, that disappear with  *)
(* either of them.                                                         *)
(***************************************************************************)
EXTENDS Integers

CONSTANTS
    MaxUsers,   \* how many members the room holds
    NickNames,  \* the nicknames a member can ask for
    NoName      \* the nickname of a member that has asked for none

VARIABLES
    members,    \* function from the numbers in use to nicknames
    pipes       \* the user pipes: pairs of numbers

cvars == <<members, pipes>>

Present == DOMAIN members

Init == members = << >> /\ pipes = {}

\* A new member gets the lowest number in 1..MaxUsers that is not in use.
Arrive ==
    \E u \in (1..MaxUsers) \ Present :
        /\ 1..(u - 1) \subseteq Present
        /\ members' = [v \in Present \cup {u} |-> IF v = u THEN NoName ELSE members[v]]
        /\ UNCHANGED pipes

\* A nickname is given only when nobody has it.
Rename ==
    \E u \in Present, n \in NickNames :
        /\ \A v \in Present : members[v] # n
        /\ members' = [members EXCEPT ![u] = n]
        /\ UNCHANGED pipes

\* A member takes the pipe that a member opened to it, opens a pipe to a
\* member it has none to, or both: {taken} and {opened} are empty or singletons.
Exchange ==
    \E u \in Present, taken, opened \in SUBSET Present :
        /\ \A v, w \in taken : v = w
        /\ \A v, w \in opened : v = w
        /\ \A v \in taken : <<v, u>> \in pipes
        /\ \A v \in opened : <<u, v>> \notin pipes
        /\ pipes' = (pipes \ {<<v, u>> : v \in taken}) \cup {<<u, v>> : v \in opened}
        /\ UNCHANGED members

\* A member leaves and its pipes go with it.
Depart ==
    \E u \in Present :
        /\ members' = [v \in Present \ {u} |-> members[v]]
        /\ pipes' = {p \in pipes : u \notin {p[1], p[2]}}

Next == Arrive \/ Rename \/ Exchange \/ Depart

Spec == Init /\ [][Next]_cvars
=============================================================================
