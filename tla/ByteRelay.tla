------------------------------ MODULE ByteRelay ------------------------------
(***************************************************************************)
(* What a relay between two sides promises: each side hears what the other *)
(* one said, from the start, in order, nothing twice; and only while the   *)
(* relay lasts.  When it is cut, a side may lose the end of what was under *)
(* way to it, and hears no more.                                           *)
(***************************************************************************)
EXTENDS Sequences, SequencesExt

CONSTANTS Side, Unit

VARIABLES
    said,    \* what each side has sent
    heard,   \* what has arrived at each side
    cut      \* the relay has ended

Init ==
    /\ said = [s \in Side |-> << >>]
    /\ heard = [s \in Side |-> << >>]
    /\ cut = FALSE

Say(s) ==
    /\ \E u \in Unit : said' = [said EXCEPT ![s] = Append(@, u)]
    /\ UNCHANGED <<heard, cut>>

Hear(s) ==
    /\ ~cut
    /\ \E o \in Side \ {s}, u \in Unit :
        /\ IsPrefix(Append(heard[s], u), said[o])
        /\ heard' = [heard EXCEPT ![s] = Append(@, u)]
    /\ UNCHANGED <<said, cut>>

Cut ==
    /\ ~cut
    /\ cut' = TRUE
    /\ DOMAIN heard' = Side
    /\ \A s \in Side : IsPrefix(heard'[s], heard[s])
    /\ UNCHANGED said

Next == Cut \/ \E s \in Side : Say(s) \/ Hear(s)

Spec == Init /\ [][Next]_<<said, heard, cut>>
=============================================================================
