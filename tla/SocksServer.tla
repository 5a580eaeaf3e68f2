----------------------------- MODULE SocksServer -----------------------------
(***************************************************************************)
(* project4/socks_server: the process that listens.  It accepts a client,  *)
(* forks a child that runs the session (SocksSession), closes its own copy *)
(* of the connection and accepts again; the SIGCHLD of a child that ends   *)
(* reaps one child.                                                        *)
(***************************************************************************)
EXTENDS Integers, FiniteSets

CONSTANT Client   \* the connections clients make, one session each

Listener == "listener"
Process == Client \cup {Listener}   \* the child of a client has its name

ASSUME ClientAssumption == IsFiniteSet(Client) /\ Listener \notin Client

VARIABLES
    listening,  \* the process runs and its acceptor is armed
    client,     \* where each connection is
    holders,    \* the processes that have each connection open
    accepted,   \* the connection the handler of the listener is at, as a set
    pending,    \* SIGCHLD is pending
    missed      \* history: how many SIGCHLD found one pending

vars == <<listening, client, holders, accepted, pending, missed>>

\* A child that has ended is a zombie until it is reaped.
State == {"unknown", "waiting", "served", "zombie", "reaped", "dropped"}
In(state) == {c \in Client : client[c] = state}

Init ==
    /\ listening = TRUE
    /\ client = [c \in Client |-> "unknown"]
    /\ holders = [c \in Client |-> {}]
    /\ accepted = {}
    /\ pending = FALSE
    /\ missed = 0

\* The kernel completes the connection; the listener need not be ready.
Connect(c) ==
    /\ listening
    /\ client[c] = "unknown"
    /\ client' = [client EXCEPT ![c] = "waiting"]
    /\ UNCHANGED <<listening, holders, accepted, pending, missed>>

\* do_accept's handler: the child has all the listener has open, but for the
\* acceptor, which it closes.
Fork(c) ==
    /\ listening
    /\ accepted = {}
    /\ client[c] = "waiting"
    /\ client' = [client EXCEPT ![c] = "served"]
    /\ holders' = [d \in Client |-> IF d = c THEN {Listener, c}
                                    ELSE holders[d] \cup (IF Listener \in holders[d] THEN {c} ELSE {})]
    /\ accepted' = {c}
    /\ UNCHANGED <<listening, pending, missed>>

\* fork() fails; its -1 is taken for the pid of a child.
ForkFails(c) ==
    /\ listening
    /\ accepted = {}
    /\ client[c] = "waiting"
    /\ client' = [client EXCEPT ![c] = "dropped"]
    /\ holders' = [holders EXCEPT ![c] = {Listener}]
    /\ accepted' = {c}
    /\ UNCHANGED <<listening, pending, missed>>

\* The listener closes its copy and accepts again.  The bug that keeps it.
AcceptAgainOnly ==
    /\ accepted # {}
    /\ accepted' = {}
    /\ UNCHANGED <<listening, client, holders, pending, missed>>

\* The bug of a listener that does not accept again.
CloseOnly ==
    /\ accepted # {}
    /\ holders' = [c \in Client |-> IF c \in accepted THEN holders[c] \ {Listener} ELSE holders[c]]
    /\ UNCHANGED <<listening, client, accepted, pending, missed>>

AcceptAgain ==
    /\ accepted # {}
    /\ holders' = [c \in Client |-> IF c \in accepted THEN holders[c] \ {Listener} ELSE holders[c]]
    /\ accepted' = {}
    /\ UNCHANGED <<listening, client, pending, missed>>

\* accept() fails: nobody accepts again, the event loop has nothing to do and
\* main() returns.  The kernel drops who was waiting and reaps.
AcceptFails ==
    /\ listening
    /\ accepted = {}
    /\ In("waiting") # {}
    /\ listening' = FALSE
    /\ client' = [c \in Client |-> CASE client[c] = "waiting" -> "dropped"
                                    [] client[c] = "zombie" -> "reaped"
                                    [] OTHER -> client[c]]
    /\ pending' = FALSE
    /\ UNCHANGED <<holders, accepted, missed>>

\* The session of c ends, by exit() or by an exception.
SessionEnds(c) ==
    /\ client[c] = "served"
    /\ client' = [client EXCEPT ![c] = IF listening THEN "zombie" ELSE "reaped"]
    /\ holders' = [d \in Client |-> holders[d] \ {c}]
    /\ pending' = listening
    /\ missed' = IF pending /\ listening THEN missed + 1 ELSE missed
    /\ UNCHANGED <<listening, accepted>>

\* killChild: waitpid(-1, NULL, WNOHANG) reaps one child, whichever.  The bug
\* of a handler that ignores the signal.
IgnoreChild ==
    /\ listening /\ pending
    /\ pending' = FALSE
    /\ UNCHANGED <<listening, client, holders, accepted, missed>>

killChild ==
    /\ listening /\ pending
    /\ pending' = FALSE
    /\ \E c \in In("zombie") : client' = [client EXCEPT ![c] = "reaped"]
    /\ UNCHANGED <<listening, holders, accepted, missed>>

Done == In("unknown") \cup In("waiting") \cup In("served") = {} /\ accepted = {} /\ ~pending /\ UNCHANGED vars
Gone == ~listening /\ In("served") = {} /\ UNCHANGED vars

Accepting == AcceptFails \/ \E c \in Client : Fork(c) \/ ForkFails(c)

Next ==
    \/ Accepting \/ AcceptAgain \/ killChild \/ Done \/ Gone
    \/ \E c \in Client : Connect(c) \/ SessionEnds(c)

Spec == Init /\ [][Next]_vars

\* The listener is scheduled and gets its signals.
FairSpec == Spec /\ WF_vars(Accepting) /\ WF_vars(AcceptAgain) /\ WF_vars(killChild)

-----------------------------------------------------------------------------
(* Correctness *)

\* The values the state of the listener ranges over.
TypeOK ==
    /\ listening \in BOOLEAN
    /\ client \in [Client -> State]
    /\ holders \in [Client -> SUBSET Process]
    /\ accepted \in SUBSET Client
    /\ pending \in BOOLEAN
    /\ missed \in Nat

\* Nobody but its own child has a connection open once the listener has gone
\* on, so a client sees the end of its session; a fork at the wrong moment
\* would leave a copy with another child, for as long as that one lives.
ClosedWithSession ==
    \A c \in Client : holders[c] \subseteq (IF client[c] = "served" THEN {c} ELSE {})
                                     \cup (IF c \in accepted THEN {Listener} ELSE {})

\* As long as the listener runs, the children that are left unreaped are as
\* many as SIGCHLDs found one pending, and one more if one is pending now.
ZombiesAreMissedSignals ==
    listening => Cardinality(In("zombie")) = missed + (IF pending THEN 1 ELSE 0)

\* Every client that connects is dealt with: it gets a session, or is dropped
\* because fork() or accept() failed.
EveryClientDealtWith == \A c \in Client : client[c] = "waiting" ~> client[c] # "waiting"
=============================================================================
