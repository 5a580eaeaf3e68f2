------------------------------ MODULE Console ------------------------------
(***************************************************************************)
(* A console: one process that talks to several remote shells at once and  *)
(* sends each the commands of a file, one at every prompt.  It is the CGI  *)
(* program console.cgi, the class CGI of cgi_server, and hw4.cgi, which    *)
(* asks a SOCKS proxy to connect it.  One thread runs the handlers; the    *)
(* shells and the proxy act in between.                                    *)
(*                                                                         *)
(* A session that meets the end of its connection reads again, for ever:   *)
(* such a handler changes nothing and has no action here.                  *)
(***************************************************************************)
EXTENDS Naturals, Sequences, FiniteSets

CONSTANTS
    Sessions,       \* the sessions a query may ask for: 1 .. 5 in the code
    Commands        \* numbers of commands a file may have

ASSUME ConsoleAssumption == IsFiniteSet(Sessions) /\ Sessions = 1 .. Cardinality(Sessions)
                         /\ Commands \subseteq Nat

VARIABLES
    program,        \* "console.cgi", "hw4.cgi", "cgi_server" or (no console) "http_server"
    process,        \* "runs", or what ended it: "throws", "overrun"
    link,           \* of each session: "none", "asks", "awaits", "open", "stops"
    reading,        \* an async_read_some() is pending
    writing,        \* an async_write() is pending
    left,           \* commands in the list
    shown,          \* commands shown on the page
    fresh           \* nothing has been read: data_ is not initialised

\* The remote shells.
VARIABLES
    file,           \* what the files hold: how many commands, which of them is "exit" (0: none)
    honest,         \* "%" is in nothing but prompts, and in no uninitialised buffer
    shell,          \* "off", "up", "gone", "rejected"
    inbox,          \* commands that have arrived and are not executed
    done,           \* commands executed
    wire            \* what the shell (or the proxy) has said and the console has not read;
                    \* "after" is how many commands it had executed by then

console == <<program, process, link, reading, writing, left, shown, fresh>>
remote  == <<file, honest, shell, inbox, done, wire>>
consoleVars == <<console, remote>>

Says == {"text", "percent", "prompt", "reply", "part", "rest"}
Item(s, n) == [says |-> s, after |-> n]

ConsoleTypeOK ==
    /\ program \in {"console.cgi", "hw4.cgi", "cgi_server", "http_server"}
    /\ process \in {"runs", "throws", "overrun"}
    /\ link \in [Sessions -> {"none", "asks", "awaits", "open", "stops"}]
    /\ reading \in [Sessions -> BOOLEAN] /\ writing \in [Sessions -> BOOLEAN]
    /\ left \in [Sessions -> Nat] /\ shown \in [Sessions -> Nat]
    /\ fresh \in [Sessions -> BOOLEAN]
    /\ file \in [Sessions -> [commands : Nat, exit : Nat]]
    /\ honest \in BOOLEAN
    /\ shell \in [Sessions -> {"off", "up", "gone", "rejected"}]
    /\ inbox \in [Sessions -> Nat] /\ done \in [Sessions -> Nat]
    /\ wire \in [Sessions -> Seq([says : Says, after : Nat])]

ConsoleInit ==
    /\ process = "runs"
    /\ link = [i \in Sessions |-> "none"]
    /\ reading = [i \in Sessions |-> FALSE] /\ writing = reading
    /\ \E n \in Commands : \E x \in 0 .. n : file = [i \in Sessions |-> [commands |-> n, exit |-> x]]
    /\ left = [i \in Sessions |-> file[i].commands]
    /\ shown = [i \in Sessions |-> 0]
    /\ fresh = [i \in Sessions |-> TRUE]
    /\ honest \in BOOLEAN
    /\ shell = [i \in Sessions |-> "off"]
    /\ inbox = [i \in Sessions |-> 0] /\ done = inbox
    /\ wire = [i \in Sessions |-> <<>>]

-----------------------------------------------------------------------------
(* Setting up.                                                             *)

\* The parser stops at the first session without a host.
Parsed(asked) == {i \in Sessions : 1 .. i \subseteq asked}

\* Every session of a query is set up before any handler runs.  A name that is not
\* found ends the process; so does a proxy that cannot be reached.
Start(S) ==
    /\ process = "runs"
    /\ \A i \in S : link[i] = "none"
    /\ \/ /\ link' = [i \in Sessions |-> IF i \notin S THEN link[i]
                                         ELSE IF program = "hw4.cgi" THEN "asks" ELSE "open"]
          /\ reading' = [i \in Sessions |-> reading[i] \/ (i \in S /\ program # "hw4.cgi")]
          /\ UNCHANGED process
       \/ S # {} /\ process' = "throws" /\ UNCHANGED <<link, reading>>
    /\ UNCHANGED <<program, writing, left, shown, fresh, remote>>

\* sendSOCKS4 and recvReply: what the reply says is not looked at, and an error ends
\* the session without a word.
Asked(i) ==
    /\ process = "runs" /\ link[i] = "asks"
    /\ \/ link' = [link EXCEPT ![i] = "awaits"]
       \/ shell[i] = "gone" /\ link' = [link EXCEPT ![i] = "stops"]
    /\ UNCHANGED <<program, process, reading, writing, left, shown, fresh, remote>>

\* The bug of sending the first command as soon as the proxy has answered.
GetsReplySends(i) ==
    /\ process = "runs" /\ link[i] = "awaits" /\ wire[i] # <<>>
    /\ wire' = [wire EXCEPT ![i] = Tail(@)]
    /\ link' = [link EXCEPT ![i] = "open"]
    /\ left[i] > 0 /\ writing' = [writing EXCEPT ![i] = TRUE]
    /\ inbox' = [inbox EXCEPT ![i] = IF shell[i] = "up" THEN @ + 1 ELSE @]
    /\ UNCHANGED <<program, process, reading, left, shown, fresh, file, honest, shell, done>>

GetsReply(i) ==
    /\ process = "runs" /\ link[i] = "awaits"
    /\ \/ /\ wire[i] # <<>>
          /\ wire' = [wire EXCEPT ![i] = Tail(@)]
          /\ link' = [link EXCEPT ![i] = "open"]
          /\ reading' = [reading EXCEPT ![i] = TRUE]
       \/ /\ wire[i] = <<>> /\ shell[i] \in {"gone", "rejected"}
          /\ link' = [link EXCEPT ![i] = "stops"]
          /\ UNCHANGED <<wire, reading>>
    /\ UNCHANGED <<program, process, writing, left, shown, fresh, file, honest, shell, inbox, done>>

-----------------------------------------------------------------------------
(* Reading up to a prompt and sending a command.                           *)

\* The bug of taking whatever a shell says for its prompt.
PromptedByAnything(i, chunk, garbage) == (\E k \in DOMAIN chunk : chunk[k].says # "rest") \/ garbage

\* Any "%" in what has been read counts; the rest of a reply that came in two
\* pieces, and a buffer nobody has initialised, may have one.
Prompted(i, chunk, garbage) ==
    \/ \E k \in DOMAIN chunk : chunk[k].says \in {"prompt", "percent"}
    \/ garbage

\* The bug of reading on while the command is being written.
SendAndRead(i) ==
    /\ left[i] > 0
    /\ writing' = [writing EXCEPT ![i] = TRUE]
    /\ inbox' = [inbox EXCEPT ![i] = IF shell[i] = "up" THEN @ + 1 ELSE @]
    /\ UNCHANGED <<reading, process>>

\* sendCommand takes the first command of the list ...
SendCommand(i) ==
    /\ left[i] > 0
    /\ writing' = [writing EXCEPT ![i] = TRUE]
    /\ inbox' = [inbox EXCEPT ![i] = IF shell[i] = "up" THEN @ + 1 ELSE @]
    /\ reading' = [reading EXCEPT ![i] = FALSE]
    /\ UNCHANGED process

\* ... and of an empty list a string that is not there: undefined, taken to be fatal.
Overruns(i) ==
    /\ left[i] = 0
    /\ process' = "overrun"
    /\ UNCHANGED <<writing, inbox, reading>>

Read(i) ==
    /\ process = "runs" /\ reading[i]
    /\ \E n \in 1 .. Len(wire[i]), garbage \in BOOLEAN :
        LET chunk == SubSeq(wire[i], 1, n)
        IN  /\ garbage => ~honest /\ (fresh[i] \/ \E k \in 1 .. n : chunk[k].says = "rest")
            /\ wire' = [wire EXCEPT ![i] = SubSeq(@, n + 1, Len(@))]
            /\ fresh' = [fresh EXCEPT ![i] = FALSE]
            /\ IF Prompted(i, chunk, garbage)
                 THEN SendCommand(i) \/ Overruns(i)
                 ELSE UNCHANGED <<writing, inbox, reading, process>>
    /\ UNCHANGED <<program, link, left, shown, file, honest, shell, done>>

\* The bug of a handler that does not start the next read.
WrittenOnly(i) ==
    /\ process = "runs" /\ writing[i]
    /\ writing' = [writing EXCEPT ![i] = FALSE]
    /\ shown' = [shown EXCEPT ![i] = @ + 1]
    /\ left' = [left EXCEPT ![i] = @ - 1]
    /\ UNCHANGED <<program, process, link, reading, fresh, remote>>

\* The handler of the write shows the command, whether it arrived or not, and reads again.
Written(i) ==
    /\ process = "runs" /\ writing[i]
    /\ writing' = [writing EXCEPT ![i] = FALSE]
    /\ reading' = [reading EXCEPT ![i] = TRUE]
    /\ shown' = [shown EXCEPT ![i] = @ + 1]
    /\ left' = [left EXCEPT ![i] = @ - 1]
    /\ UNCHANGED <<program, process, link, fresh, remote>>

Handler(i) == Asked(i) \/ GetsReply(i) \/ Read(i) \/ Written(i)

-----------------------------------------------------------------------------
(* The remote shells, and the proxy in front of them.                      *)

Greeting == <<Item("text", 0), Item("prompt", 0)>>

Comes(i, w) ==
    /\ shell' = [shell EXCEPT ![i] = "up"]
    /\ wire' = [wire EXCEPT ![i] = w \o Greeting]

\* A shell accepts the connection, or there is none.
Accepts(i) ==
    /\ program # "hw4.cgi" /\ link[i] = "open" /\ shell[i] = "off"
    /\ \/ Comes(i, <<>>)
       \/ shell' = [shell EXCEPT ![i] = "gone"] /\ UNCHANGED wire
    /\ UNCHANGED <<console, file, honest, inbox, done>>

Replies == {<<Item("reply", 0)>>, <<Item("part", 0), Item("rest", 0)>>}

\* The proxy answers a request, or the process that serves it dies.
ProxyAnswers(i) ==
    /\ program = "hw4.cgi" /\ link[i] = "awaits" /\ shell[i] = "off"
    /\ \E r \in Replies :
        \/ Comes(i, r)
        \/ shell' = [shell EXCEPT ![i] = "rejected"] /\ wire' = [wire EXCEPT ![i] = r]
    /\ UNCHANGED <<console, file, honest, inbox, done>>

ProxyDies(i) ==
    /\ program = "hw4.cgi" /\ link[i] \in {"asks", "awaits"} /\ shell[i] = "off"
    /\ shell' = [shell EXCEPT ![i] = "gone"]
    /\ UNCHANGED <<console, file, honest, inbox, done, wire>>

\* What it says may come in pieces; both read at once is a command that says nothing.
Answers(n) == {<<Item(s, n), Item("prompt", n)>> : s \in {"text"} \cup IF honest THEN {} ELSE {"percent"}}

\* A shell executes a command and gives its prompt again; "exit" is its last.
Executes(i) ==
    /\ shell[i] = "up" /\ inbox[i] > 0
    /\ inbox' = [inbox EXCEPT ![i] = @ - 1]
    /\ done' = [done EXCEPT ![i] = @ + 1]
    /\ IF done[i] + 1 = file[i].exit
         THEN shell' = [shell EXCEPT ![i] = "gone"] /\ UNCHANGED wire
         ELSE /\ \E a \in Answers(done[i] + 1) : wire' = [wire EXCEPT ![i] = @ \o a]
              /\ UNCHANGED shell
    /\ UNCHANGED <<console, file, honest>>

ShellDies(i) ==
    /\ shell[i] = "up"
    /\ shell' = [shell EXCEPT ![i] = "gone"]
    /\ UNCHANGED <<console, file, honest, inbox, done, wire>>

Remote(i) == Accepts(i) \/ ProxyAnswers(i) \/ ProxyDies(i) \/ Executes(i) \/ ShellDies(i)

-----------------------------------------------------------------------------
(* Properties.                                                             *)

Prompts(i) == Cardinality({k \in DOMAIN wire[i] : wire[i][k].says = "prompt"})

\* Console and shell take turns: there is one prompt that has not been answered, or
\* one command that has not been executed, never both and never two of one, as
\* long as no "%" is taken for a prompt that is none.
OneTurn == honest => \A i \in Sessions : inbox[i] + Prompts(i) <= 1

\* The page shows a command before what the shell says to it, although the shell may
\* answer before the handler of the write has run.
AnswersBelowCommands ==
    \A i \in Sessions : reading[i] => \A k \in DOMAIN wire[i] : wire[i][k].after <= shown[i]

\* A file that says "exit" never makes the console take a command from an empty
\* list, which would end it for all its sessions.
ExitInTime == honest /\ (\A i \in Sessions : file[i].exit > 0) => process # "overrun"

\* The commands of a session are all sent as long as its shell lasts, whatever
\* becomes of the other sessions.
AllSent == \A i \in Sessions :
    shell[i] = "up" ~> (left[i] = 0 \/ shell[i] = "gone" \/ process # "runs")
=============================================================================
