----------------------------- MODULE WebServer -----------------------------
(***************************************************************************)
(* The servers of the pages: http_server, which forks a CGI program for a  *)
(* request, and cgi_server, which makes the panel and the consoles itself. *)
(* One thread runs the handlers of every connection, so the steps of two   *)
(* requests interleave; a console of cgi_server runs its handlers, and     *)
(* those of the server, from inside the handler that has called it.        *)
(*                                                                         *)
(* The module composes the servers with Console: the variables program and *)
(* process are those of the process, whichever of the four it is.          *)
(***************************************************************************)
EXTENDS Console

CONSTANTS
    Conns,          \* connections of browsers
    Nobody,         \* no connection
    MaxProcesses    \* children the kernel lets http_server have, zombies included

ASSUME WebServerAssumption == Nobody \notin Conns /\ MaxProcesses \in Nat

VARIABLES
    conn,           \* of a connection: "none", "reads", "parsed", "closed"
    page,           \* what it asks for: "panel" or "other"
    order,          \* the requests in the order they were parsed (ghost)
    env,            \* whose request the environment of http_server holds
    child,          \* the CGI program of a connection: "none", "runs", "zombie", "reaped"
    inherits,       \* the connections a CGI program has a descriptor of
    childEnv,       \* whose request its environment holds
    sigchld         \* SIGCHLD is pending

server == <<conn, page, order, env, child, inherits, childEnv, sigchld>>
vars == <<consoleVars, server>>

Programs == {"console.cgi", "hw4.cgi", "cgi_server", "http_server"}
IsServer == program \in {"cgi_server", "http_server"}

TypeOK ==
    /\ ConsoleTypeOK
    /\ conn \in [Conns -> {"none", "reads", "parsed", "closed"}]
    /\ page \in [Conns -> {"panel", "other"}]
    /\ order \in Seq(Conns)
    /\ env \in Conns \cup {Nobody}
    /\ child \in [Conns -> {"none", "runs", "zombie", "reaped"}]
    /\ inherits \in [Conns -> SUBSET Conns]
    /\ childEnv \in [Conns -> Conns \cup {Nobody}]
    /\ sigchld \in BOOLEAN

ServerInit ==
    /\ conn = [c \in Conns |-> "none"]
    /\ page \in [Conns -> {"panel", "other"}]
    /\ order = <<>>
    /\ env = Nobody
    /\ child = [c \in Conns |-> "none"]
    /\ inherits = [c \in Conns |-> {}]
    /\ childEnv = [c \in Conns |-> Nobody]
    /\ sigchld = FALSE

-----------------------------------------------------------------------------
(* A request, from the connection to the end of the first write.           *)

Accept(c) ==
    /\ IsServer /\ process = "runs" /\ conn[c] = "none"
    /\ conn' = [conn EXCEPT ![c] = "reads"]
    /\ UNCHANGED <<consoleVars, page, order, env, child, inherits, childEnv, sigchld>>

\* The bug of a setenv() that keeps what is there.
SetEnvOnce(c) == env' = IF program = "http_server" /\ env = Nobody THEN c ELSE env

\* setenv() replaces what an earlier request has left.
SetEnv(c) == env' = IF program = "http_server" THEN c ELSE env

\* A read that fails drops the session.  The parser throws when the browser has gone
\* or has sent no path, and nothing catches it.
Request(c) ==
    /\ process = "runs" /\ conn[c] = "reads"
    /\ \/ conn' = [conn EXCEPT ![c] = "closed"] /\ UNCHANGED <<order, env, process>>
       \/ process' = "throws" /\ UNCHANGED <<conn, order, env>>
       \/ /\ conn' = [conn EXCEPT ![c] = "parsed"]
          /\ order' = Append(order, c)
          /\ SetEnv(c)
          /\ UNCHANGED process
    /\ UNCHANGED <<program, link, reading, writing, left, shown, fresh, remote,
                   page, child, inherits, childEnv, sigchld>>

\* Sessions of the process that hold a descriptor of their own.
OpenConns == {d \in Conns : conn[d] \in {"reads", "parsed"}}

Children == {d \in Conns : child[d] \in {"runs", "zombie"}}

\* The child of a fork has every socket of the server but the one it makes its own,
\* which it has as its standard input and output.
Fork(c) ==
    /\ Cardinality(Children) < MaxProcesses
    /\ child' = [child EXCEPT ![c] = "runs"]
    /\ inherits' = [inherits EXCEPT ![c] = OpenConns]
    /\ childEnv' = [childEnv EXCEPT ![c] = env]

ForkFails == Cardinality(Children) >= MaxProcesses /\ UNCHANGED <<child, inherits, childEnv>>

\* The bug of a parent that does not close the connection it has handed over.
RespondsAndKeeps(c) ==
    /\ program = "http_server" /\ process = "runs" /\ conn[c] = "parsed"
    /\ UNCHANGED conn
    /\ \/ page[c] = "panel" /\ (Fork(c) \/ ForkFails)
       \/ UNCHANGED <<child, inherits, childEnv>>
    /\ UNCHANGED <<consoleVars, page, order, env, sigchld>>

\* The write of http_server has ended: it calls the panel, or closes after "403".  A
\* write that fails drops the session.
Responds(c) ==
    /\ program = "http_server" /\ process = "runs" /\ conn[c] = "parsed"
    /\ conn' = [conn EXCEPT ![c] = "closed"]
    /\ \/ page[c] = "panel" /\ (Fork(c) \/ ForkFails)
       \/ UNCHANGED <<child, inherits, childEnv>>
    /\ UNCHANGED <<consoleVars, page, order, env, sigchld>>

\* cgi_server writes the panel, and closes, or starts a console that keeps the
\* connection; the sessions its query asks for are of no other console.
MakesPage(c) ==
    /\ program = "cgi_server" /\ process = "runs" /\ conn[c] = "parsed"
    /\ conn' = [conn EXCEPT ![c] = "closed"]
    /\ IF page[c] = "panel"
         THEN UNCHANGED consoleVars
         ELSE \E i \in Sessions : link[i] = "none" /\ Start({i})
    /\ UNCHANGED <<page, order, env, child, inherits, childEnv, sigchld>>

\* A console that runs as a CGI program starts with its query.
ConsoleStarts ==
    /\ ~IsServer
    /\ \A i \in Sessions : link[i] = "none"
    /\ \E asked \in SUBSET Sessions : Parsed(asked) # {} /\ Start(Parsed(asked))
    /\ UNCHANGED server

-----------------------------------------------------------------------------
(* The CGI programs of http_server end by themselves.                      *)

CgiEnds(c) ==
    /\ child[c] = "runs"
    /\ child' = [child EXCEPT ![c] = "zombie"]
    /\ inherits' = [inherits EXCEPT ![c] = {}]
    /\ sigchld' = (process = "runs")
    /\ UNCHANGED <<consoleVars, conn, page, order, env, childEnv>>

\* The handler takes one child, whatever the number that have ended.
KillChild ==
    /\ sigchld /\ process = "runs"
    /\ sigchld' = FALSE
    /\ \/ \E c \in Conns : child[c] = "zombie" /\ child' = [child EXCEPT ![c] = "reaped"]
       \/ (\A c \in Conns : child[c] # "zombie") /\ UNCHANGED child
    /\ UNCHANGED <<consoleVars, conn, page, order, env, inherits, childEnv>>

-----------------------------------------------------------------------------
Init == program \in Programs /\ ConsoleInit /\ ServerInit

Serving(c) == Accept(c) \/ Request(c) \/ Responds(c) \/ MakesPage(c)

Next ==
    \/ \E c \in Conns : Serving(c) \/ CgiEnds(c)
    \/ ConsoleStarts \/ KillChild
    \/ \E i \in Sessions : (Handler(i) \/ Remote(i)) /\ UNCHANGED server

Spec == Init /\ [][Next]_vars

\* The handlers that are ready run, a CGI program ends, a shell and a proxy answer.
Fairness ==
    /\ \A c \in Conns : WF_vars(Request(c) \/ Responds(c) \/ MakesPage(c)) /\ WF_vars(CgiEnds(c))
    /\ \A i \in Sessions :
        /\ WF_vars(Handler(i) /\ UNCHANGED server)
        /\ WF_vars((Executes(i) \/ Accepts(i) \/ ProxyAnswers(i)) /\ UNCHANGED server)

FairSpec == Spec /\ Fairness

-----------------------------------------------------------------------------
(* Properties.                                                             *)

\* Who has a descriptor of a connection: the server until it closes it, and every CGI
\* program that was forked while it was open.
Holders(c) == {d \in Conns : c \in inherits[d]}

Held(c) == Holders(c) # {} \/ (process = "runs" /\ conn[c] \in {"reads", "parsed"})

\* A browser always sees the end of its page, although the CGI programs of others
\* hold copies of its connection.
EveryResponseEnds == \A c \in Conns :
    (program = "http_server" /\ conn[c] = "parsed") ~> ~Held(c)

\* A request parsed between another's parse and its fork leaves its environment
\* there; but no CGI program runs in an environment older than its own request.
Position(c) == CHOOSE k \in DOMAIN order : order[k] = c

EnvironmentNotOlder == \A c \in Conns :
    child[c] # "none" => childEnv[c] # Nobody /\ Position(childEnv[c]) >= Position(c)
=============================================================================
