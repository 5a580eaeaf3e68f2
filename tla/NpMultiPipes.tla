---------------------------- MODULE NpMultiPipes ----------------------------
(***************************************************************************)
(* The user pipes of project2/np_multi_proc.  A pipe from one user to      *)
(* another is a FIFO: the writer makes the file, tells the reader with     *)
(* SIGUSR2 and opens it; the reader opens it in its handler and keeps the  *)
(* descriptor in a list.  Either open waits for the other, and any signal  *)
(* that is handled meanwhile makes it fail.  One SIGUSR2 can be pending,   *)
(* a second one is lost.                                                   *)
(*                                                                         *)
(* Users log in and out, or end without leaving the table.  The table and  *)
(* the broadcasts are those of NpMulti and are one step here, which        *)
(* interrupts whoever is waiting.                                          *)
(***************************************************************************)
EXTENDS Integers, Sequences, FiniteSets, SequencesExt

CONSTANTS
    Users,          \* the uids that come and go, of 1 .. 30
    MaxBusy         \* bound: how many users are in the middle of something

ASSUME UsersAssumption == Users \subseteq 1 .. 30
ASSUME BusyAssumption == MaxBusy \in Nat \ {0}

VARIABLES
    here,           \* the uid is in the table
    gone,           \* in the table, but the process has ended
    phase,          \* where the process is
    reads, writes,  \* the users its line reads from and writes to, 0 for none
    handler,        \* the user whose pipe its handler is opening, 0 for none
    pending,        \* the value of its pending SIGUSR2, negative for a logout, 0 for none
    entries,        \* readUserPipeList: who has piped to it, and whether the open went well
    fifo,           \* the files in user_pipe
    orphan,         \* processes that wait at a FIFO whose file is gone
    disturbed       \* history: a signal was lost (a broadcast whose last one goes to a process
                    \* that has ended among them), an open was interrupted, a process ended
                    \* while others were busy or with unread pipes to it, somebody logged
                    \* out while others were busy or took away a file of two others, at once
                    \* or in the handler of somebody else, or a uid was used again before
                    \* all had handled the logout

vars == <<here, gone, phase, reads, writes, handler, pending, entries, fifo, orphan, disturbed>>

Phases == {"idle", "mkfifo", "signal", "open", "waits", "piped", "runs", "unlinked", "signalled"}

TypeOK ==
    /\ here \in [Users -> BOOLEAN] /\ gone \subseteq Users
    /\ phase \in [Users -> Phases]
    /\ reads \in [Users -> Users \cup {0}] /\ writes \in [Users -> Users \cup {0}]
    /\ handler \in [Users -> Users \cup {0}]
    /\ pending \in [Users -> Users \cup {0} \cup {-u : u \in Users}]
    /\ entries \in [Users -> Seq([from : Users, open : BOOLEAN])]
    /\ fifo \subseteq Nat
    /\ orphan \subseteq Users
    /\ disturbed \in BOOLEAN

\* "FIFO" and the two numbers, with nothing between them: 1 to 11 and 11 to 1 are one.
Name(from, to) == IF to > 9 THEN 100 * from + to ELSE 10 * from + to

Init ==
    /\ here = [u \in Users |-> TRUE] /\ gone = {}
    /\ phase = [u \in Users |-> "idle"]
    /\ reads = [u \in Users |-> 0] /\ writes = reads /\ handler = reads /\ pending = reads
    /\ entries = [u \in Users |-> <<>>]
    /\ fifo = {} /\ orphan = {}
    /\ disturbed = FALSE

-----------------------------------------------------------------------------
(* Who waits, and for what.                                                *)

Busy == {u \in Users : phase[u] # "idle" \/ handler[u] # 0 \/ pending[u] # 0}
Exiting == {u \in Users : phase[u] \in {"unlinked", "signalled"}}

Alive(u) == here[u] /\ u \notin gone

\* A pending signal is handled before the process goes on.
Ready(u) == Alive(u) /\ handler[u] = 0 /\ pending[u] = 0

\* The file at which a process waits in open(), in its handler or in its line.
WaitsAt(u) == IF handler[u] # 0 THEN Name(handler[u], u) ELSE Name(u, writes[u])

Waiting == {u \in Users : handler[u] # 0 \/ phase[u] = "waits"}
ReadersAt(name) == {u \in Waiting \ orphan : handler[u] # 0 /\ WaitsAt(u) = name}
WritersAt(name) == {u \in Waiting \ orphan : handler[u] = 0 /\ WaitsAt(u) = name}

Unlink(names) ==
    /\ fifo' = fifo \ names
    /\ orphan' = orphan \cup {u \in Waiting : WaitsAt(u) \in names}

Entry(from, open) == <<[from |-> from, open |-> open]>>

\* A broadcast makes the handler of SIGUSR1 run in everybody, and open() fail in those
\* who wait; the handler of SIGUSR2 keeps what open() has returned.
Hit == {v \in Waiting : here[v]}
Kept(v) == IF v \in Hit /\ handler[v] # 0 THEN Entry(handler[v], FALSE) \o entries[v] ELSE entries[v]
Broadcast ==
    /\ entries' = [v \in Users |-> Kept(v)]
    /\ handler' = [v \in Users |-> IF v \in Hit THEN 0 ELSE handler[v]]
    /\ orphan' = orphan \ Hit

\* Only the last user of the table lets the next message be written: its signal is
\* lost when its process has ended.
Unshown(table) == \E u \in gone : table[u] /\ \A v \in Users : v > u => ~table[v]

\* The writers among those who wait go on.
GoOn(u, next) == [v \in Users |-> IF v = u THEN next
                                  ELSE IF v \in Hit /\ handler[v] = 0 THEN "piped" ELSE phase[v]]

-----------------------------------------------------------------------------
(* A line that reads a user pipe, writes one, or both.                     *)

\* After a disturbance nobody starts anything.
MayAct(u) ==
    /\ Ready(u) /\ phase[u] = "idle" /\ ~disturbed
    /\ Cardinality(Busy) < MaxBusy

HasPipe(u, from) == \E i \in DOMAIN entries[u] : entries[u][i].from = from

\* "<n" looks at the table, then at the list, and tells everybody.
Types(u, n, m) ==
    /\ MayAct(u)
    /\ LET found == n # 0 /\ here[n] /\ HasPipe(u, n)
           next == IF m = 0 THEN "runs" ELSE "mkfifo"
       IN  /\ reads' = [reads EXCEPT ![u] = IF found THEN n ELSE 0]
           /\ IF found THEN Broadcast /\ phase' = GoOn(u, next)
              ELSE /\ phase' = [phase EXCEPT ![u] = next]
                   /\ UNCHANGED <<entries, handler, orphan>>
           /\ disturbed' = (Exiting # {} \/ (found /\ (Hit # {} \/ Unshown(here))))
    /\ writes' = [writes EXCEPT ![u] = m]
    /\ UNCHANGED <<here, gone, pending, fifo>>

\* The bug of opening the file before its reader is told.
MakeAndOpen(u) ==
    /\ Ready(u) /\ phase[u] = "mkfifo"
    /\ LET name == Name(u, writes[u])
           made == here[writes[u]] /\ name \notin fifo
       IN  /\ phase' = [phase EXCEPT ![u] = IF made THEN "open" ELSE "runs"]
           /\ fifo' = IF made THEN fifo \cup {name} ELSE fifo
    /\ UNCHANGED <<here, gone, reads, writes, handler, pending, entries, orphan, disturbed>>

\* ">m" looks at the table, and at the directory: a file that exists is an error.
MakeFifo(u) ==
    /\ Ready(u) /\ phase[u] = "mkfifo"
    /\ LET name == Name(u, writes[u])
           made == here[writes[u]] /\ name \notin fifo
       IN  /\ phase' = [phase EXCEPT ![u] = IF made THEN "signal" ELSE "runs"]
           /\ fifo' = IF made THEN fifo \cup {name} ELSE fifo
    /\ UNCHANGED <<here, gone, reads, writes, handler, pending, entries, orphan, disturbed>>

\* A signal that comes while kill() runs is handled after it: two users can tell each
\* other of a pipe at the same time.
SignalReader(u) ==
    /\ Alive(u) /\ handler[u] = 0 /\ phase[u] = "signal"
    /\ LET m == writes[u]
       IN  /\ pending' = [pending EXCEPT ![m] = IF Alive(m) /\ @ = 0 THEN u ELSE @]
           /\ disturbed' = (disturbed \/ ~Alive(m) \/ pending[m] # 0)
    /\ phase' = [phase EXCEPT ![u] = "open"]
    /\ UNCHANGED <<here, gone, reads, writes, handler, entries, fifo, orphan>>

\* The first to open waits; the second lets both go on.
OpenToWrite(u) ==
    /\ Ready(u) /\ phase[u] = "open"
    /\ LET name == Name(u, writes[u])
           there == ReadersAt(name)
       IN  /\ phase' = [phase EXCEPT ![u] = IF name \in fifo /\ there = {} THEN "waits" ELSE "piped"]
           /\ entries' = [v \in Users |-> IF v \in there THEN Entry(handler[v], TRUE) \o entries[v]
                                          ELSE entries[v]]
           /\ handler' = [v \in Users |-> IF v \in there THEN 0 ELSE handler[v]]
    /\ UNCHANGED <<here, gone, reads, writes, pending, fifo, orphan, disturbed>>

TellPiped(u) ==
    /\ Ready(u) /\ phase[u] = "piped"
    /\ Broadcast /\ phase' = GoOn(u, "runs")
    /\ disturbed' = (disturbed \/ Hit # {} \/ Unshown(here))
    /\ UNCHANGED <<here, gone, reads, writes, pending, fifo>>

\* The program has been started: the pipe it reads leaves the list and the directory.
\* When the handler has deleted that entry meanwhile, the pointer is stale: undefined,
\* taken to do nothing to the list.
First(u, from) == SelectInSeq(entries[u], LAMBDA e : e.from = from)

EndLine(u) ==
    /\ Ready(u) /\ phase[u] = "runs"
    /\ phase' = [phase EXCEPT ![u] = "idle"]
    /\ IF reads[u] # 0
         THEN /\ entries' = [entries EXCEPT ![u] = IF HasPipe(u, reads[u])
                                                   THEN RemoveAt(@, First(u, reads[u])) ELSE @]
              /\ Unlink({Name(reads[u], u)})
         ELSE UNCHANGED <<entries, fifo, orphan>>
    /\ reads' = [reads EXCEPT ![u] = 0] /\ writes' = [writes EXCEPT ![u] = 0]
    /\ UNCHANGED <<here, gone, handler, pending, disturbed>>

-----------------------------------------------------------------------------
(* The handler of SIGUSR2.                                                 *)

\* A pipe is announced: it is opened, at once if its writer waits already.
openReadFIFO(u, from) ==
    LET name == Name(from, u)
        there == WritersAt(name) \ {u}
        waits == name \in fifo /\ there = {}
    IN  /\ handler' = [handler EXCEPT ![u] = IF waits THEN from ELSE 0]
        /\ entries' = [entries EXCEPT ![u] = IF waits THEN @ ELSE Entry(from, name \in fifo) \o @]
        /\ phase' = [v \in Users |-> IF v \in there \/ (v = u /\ phase[u] = "waits")
                                     THEN "piped" ELSE phase[v]]
        /\ orphan' = orphan \ {u}
        /\ UNCHANGED fifo

\* A user has logged out: its pipe leaves the list.  Only behind the head of the list
\* is the file unlinked too, which is gone by then: a file of that name is the new
\* pipe of two others.
closeReadFIFO(u, from) ==
    LET i == First(u, from)
    IN  /\ entries' = [entries EXCEPT ![u] = IF HasPipe(u, from) THEN RemoveAt(@, i) ELSE @]
        /\ phase' = [phase EXCEPT ![u] = IF @ = "waits" THEN "piped" ELSE @]
        /\ fifo' = IF HasPipe(u, from) /\ i > 1 THEN fifo \ {Name(from, u)} ELSE fifo
        /\ orphan' = (orphan \ {u}) \cup
             {v \in Waiting \ {u} : WaitsAt(v) \in fifo \ fifo'}
        /\ UNCHANGED handler

getUserPipeSig(u) ==
    /\ Alive(u) /\ pending[u] # 0 /\ handler[u] = 0
    /\ IF pending[u] > 0 THEN openReadFIFO(u, pending[u]) ELSE closeReadFIFO(u, -pending[u])
    /\ pending' = [pending EXCEPT ![u] = 0]
    /\ disturbed' = (disturbed \/ phase[u] = "waits" \/ fifo' # fifo)
    /\ UNCHANGED <<here, gone, reads, writes>>

-----------------------------------------------------------------------------
(* Logout and login.                                                       *)

\* A pipe between two others with one of the names: 1 unlinks FIFO112, its pipe to 12,
\* which is that from 11 to 2.
OfOthers(u, names) == \E v \in Users \ {u} : \E i \in DOMAIN entries[v] :
    entries[v][i].from # u /\ Name(entries[v][i].from, v) \in names

\* The bug of leaving the pipes that others have not read yet.
ExitOwnPipes(u) ==
    /\ MayAct(u)
    /\ phase' = [phase EXCEPT ![u] = "unlinked"]
    /\ Unlink({Name(entries[u][i].from, u) : i \in DOMAIN entries[u]})
    /\ disturbed' = (Busy # {})
    /\ UNCHANGED <<here, gone, reads, writes, handler, pending, entries>>

\* exitChild: the pipes to the user, which are in its list, and those from it.
ExitPipes(u) ==
    /\ MayAct(u)
    /\ phase' = [phase EXCEPT ![u] = "unlinked"]
    /\ LET names == {Name(entries[u][i].from, u) : i \in DOMAIN entries[u]}
                     \cup {Name(u, v) : v \in 1 .. 30}
       IN  Unlink(names) /\ disturbed' = (Busy # {} \/ OfOthers(u, names))
    /\ UNCHANGED <<here, gone, reads, writes, handler, pending, entries>>

ExitSignals(u) ==
    /\ Ready(u) /\ phase[u] = "unlinked"
    /\ phase' = [phase EXCEPT ![u] = "signalled"]
    /\ pending' = [v \in Users |-> IF Alive(v) /\ pending[v] = 0 THEN -u ELSE pending[v]]
    /\ disturbed' = (disturbed \/ \E v \in Users : Alive(v) /\ pending[v] # 0)
    /\ UNCHANGED <<here, gone, reads, writes, handler, entries, fifo, orphan>>

ExitLeaves(u) ==
    /\ Ready(u) /\ phase[u] = "signalled"
    /\ here' = [here EXCEPT ![u] = FALSE]
    /\ phase' = GoOn(u, "idle")
    /\ entries' = [v \in Users |-> IF v = u THEN <<>> ELSE Kept(v)]
    /\ handler' = [v \in Users |-> IF v \in Hit THEN 0 ELSE handler[v]]
    /\ orphan' = orphan \ Hit
    /\ disturbed' = (disturbed \/ Hit # {} \/ Unshown(here'))
    /\ UNCHANGED <<gone, reads, writes, pending, fifo>>

\* A new process, with the lowest uid that is free; everybody is told.
Login(u) ==
    /\ ~here[u] /\ ~disturbed
    /\ \A v \in Users : v < u => here[v]
    /\ here' = [here EXCEPT ![u] = TRUE]
    /\ Broadcast /\ phase' = GoOn(u, "idle")
    /\ disturbed' = (Hit # {} \/ Unshown(here') \/ \E v \in Users : pending[v] = -u)
    /\ UNCHANGED <<gone, reads, writes, pending, fifo>>

\* The client closes without "exit": the process ends at the prompt, or when its handler
\* writes a message to the client.  Its entry in the table and its files stay.
Vanish(u) ==
    /\ Alive(u) /\ ~disturbed
    /\ gone' = gone \cup {u}
    /\ phase' = [phase EXCEPT ![u] = "idle"]
    /\ reads' = [reads EXCEPT ![u] = 0] /\ writes' = [writes EXCEPT ![u] = 0]
    /\ handler' = [handler EXCEPT ![u] = 0] /\ pending' = [pending EXCEPT ![u] = 0]
    /\ entries' = [entries EXCEPT ![u] = <<>>]
    /\ orphan' = orphan \ {u}
    /\ disturbed' = (Busy # {} \/ entries[u] # <<>>)
    /\ UNCHANGED <<here, fifo>>

-----------------------------------------------------------------------------
\* Bound of the runs: nothing is claimed of what follows a disturbance.
Undisturbed == ~disturbed

Step(u) ==
    \/ MakeFifo(u) \/ SignalReader(u) \/ OpenToWrite(u) \/ TellPiped(u) \/ EndLine(u)
    \/ getUserPipeSig(u) \/ ExitSignals(u) \/ ExitLeaves(u)

Next == \E u \in Users :
    \/ \E n, m \in Users \cup {0} : Types(u, n, m)
    \/ ExitPipes(u) \/ Login(u) \/ Vanish(u) \/ Step(u)

Spec == Init /\ [][Next]_vars
FairSpec == Spec /\ \A u \in Users : WF_vars(Step(u))

-----------------------------------------------------------------------------
(* Properties.                                                             *)

\* As long as no signal is lost, no open interrupted, nobody logs out or vanishes among
\* the busy or with unread pipes, no logout takes away a file of two others and no uid
\* is used again too soon, the directory and the lists agree when everybody is idle:
\* what "already exists" for a writer is what its reader can read, from a user who is
\* in the table, though the process may have ended.
PipesAgree ==
    (~disturbed /\ Busy = {}) =>
        /\ fifo = UNION {{Name(entries[u][i].from, u) : i \in DOMAIN entries[u]} : u \in Users}
        /\ \A u \in Users : \A i \in DOMAIN entries[u] :
             /\ here[u] /\ here[entries[u][i].from] /\ entries[u][i].open
             /\ \A v \in Users : \A j \in DOMAIN entries[v] :
                  Name(entries[u][i].from, u) = Name(entries[v][j].from, v) => u = v /\ i = j

\* Users who wait in their handlers for one another only, or one for itself.
Deadlocked == \E S \in SUBSET Users : S # {} /\ \A u \in S : handler[u] \in S

\* A user pipe keeps nobody from the prompt, but users who pipe to each other, or to
\* themselves, at the same time.
PromptComesBack == \A u \in Users :
    here[u] /\ phase[u] # "idle" ~> phase[u] = "idle" \/ disturbed \/ Deadlocked
=============================================================================
