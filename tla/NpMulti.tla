------------------------------ MODULE NpMulti ------------------------------
(***************************************************************************)
(* project2/np_multi_proc: a process per user.  The user table and one     *)
(* message are in shared memory.  A change of the table is a read of it, a *)
(* memset and a memcpy.  A broadcast takes semR, writes the message, sends *)
(* SIGUSR1 to every user of the table, and the handler of the last one     *)
(* gives semR back.  Signals interrupt sem_wait(), are lost when one of    *)
(* their kind is pending, and kill a process without a handler.            *)
(*                                                                         *)
(* The module models connection, login, logout, "name", "yell", "tell" and *)
(* the look at the table every program line starts with; pipes are local   *)
(* to a process or, for user pipes, not modelled here.                     *)
(***************************************************************************)
EXTENDS UserTable, FiniteSets

CONSTANTS
    Proc,            \* the processes, one per connection
    NickNames,       \* the nicknames of "name" lines
    NoName,          \* "(no name)"
    CommaNames,      \* those of them with a comma, the separator in the table
    Half,            \* what is in front of the comma
    Lines,           \* the kinds of lines users type
    Nobody,          \* none of the processes
    MaxBusy,         \* bound: how many processes are in the middle of something
    MayVanish,       \* whether clients close their connection without "exit"
    MaxInterrupted   \* bound: how often sem_wait() is interrupted

ASSUME NamesAssumption == NoName \notin NickNames /\ CommaNames \subseteq NickNames
ASSUME ProcAssumption == IsFiniteSet(Proc) /\ Nobody \notin Proc
ASSUME ModesAssumption == MayVanish \in BOOLEAN
ASSUME BoundsAssumption == MaxBusy \in Nat \ {0} /\ MaxInterrupted \in Nat
ASSUME LinesAssumption == Lines \subseteq {"exit", "name", "yell", "tell", "run"}

Place == {"none",                      \* not connected
          "enter",                     \* newUserIn: reads the table
          "idle",                      \* waits for a line
          "lock", "wipe", "fill",      \* storeBack, for "exit" under semW
          "look", "takeR", "takeW", "put", "send",   \* broadcast
          "leaving",                   \* the end of exitChild
          "tellPut", "tellSend",       \* tell
          "dead"}
Task == {"login", "chat", "name", "exit"}

VARIABLES
    table,     \* the memory at infoAddr: users in order, empty between memset and memcpy
    message,   \* the memory at broAddr: whose message it holds
    semR, semW,
    pc,        \* where each process is
    task,      \* what it is doing there
    uid,       \* the uid newUserIn returned to it, 0 before
    copy,      \* its copy of the table
    target,    \* the process its "tell" is for
    usr1,      \* its pending SIGUSR1: "none", "show", or "post" for the value 1
    usr2,      \* the processes with SIGUSR2 pending
    owed,      \* history: whose messages were sent to it and not shown yet
    interrupted \* history: how often sem_wait() was interrupted

memory == <<table, message, semR, semW>>
local  == <<pc, task, uid, copy, target>>
signals == <<usr1, usr2>>
vars == <<memory, local, signals, owed, interrupted>>

Pids(t) == {t[i].pid : i \in DOMAIN t}
Entry(p) == [uid |-> 1, pid |-> p, name |-> NoName]
InTable(t, p) == uid[p] \in UidsOf(t)

\* Every look at the table takes its text apart at commas: behind a name with
\* a comma the address is taken for the pid, and its first number is nobody's.
getInfoList(t) ==
    [i \in DOMAIN t |-> IF t[i].name \in CommaNames
                        THEN [t[i] EXCEPT !.name = Half, !.pid = Nobody]
                        ELSE t[i]]
Read == getInfoList(table)

Init ==
    /\ table = << >> /\ message = Nobody /\ semR = 1 /\ semW = 1
    /\ pc = [p \in Proc |-> "none"]
    /\ task = [p \in Proc |-> "login"]
    /\ uid = [p \in Proc |-> 0]
    /\ copy = [p \in Proc |-> << >>]
    /\ target = [p \in Proc |-> Nobody]
    /\ usr1 = [p \in Proc |-> "none"]
    /\ usr2 = {}
    /\ owed = [p \in Proc |-> {}]
    /\ interrupted = 0

Alive(p) == pc[p] \notin {"none", "dead"}

\* A process handles its signals before it does anything else.
Runs(p, place) == pc[p] = place /\ usr1[p] = "none" /\ p \notin usr2

Goto(p, place) == pc' = [pc EXCEPT ![p] = place]

\* Who has no prompt yet, or a signal under way.
Busy == {p \in Proc : pc[p] \notin {"none", "idle", "dead"} \/ usr1[p] # "none" \/ p \in usr2}
MayAct == Cardinality(Busy) < MaxBusy

-----------------------------------------------------------------------------
(* Login: newUserIn *)

Connect(p) ==
    /\ MayAct
    /\ pc[p] = "none"
    /\ Goto(p, "enter")
    /\ UNCHANGED <<memory, task, uid, copy, target, signals, owed, interrupted>>

\* The new user is put into a copy of the table and gets the lowest free uid,
\* or, when there is none, uid 1 and no place.  The bug of returning the number
\* of users.
NewUidByCount(t) == IF Len(t) < MaxUsers THEN Len(t) + 1 ELSE 1
NewUid(t) == IF FirstGap(t) <= MaxUsers THEN FirstGap(t) ELSE 1
Entered(p) == Enter(Read, Entry(p))

ReadToEnter(p) ==
    /\ Runs(p, "enter")
    /\ uid' = [uid EXCEPT ![p] = NewUid(Read)]
    /\ copy' = [copy EXCEPT ![p] = Entered(p)]
    /\ Goto(p, "wipe")
    /\ UNCHANGED <<memory, task, target, signals, owed, interrupted>>

-----------------------------------------------------------------------------
(* storeBack *)

Wipe(p) ==
    /\ Runs(p, "wipe")
    /\ table' = << >>
    /\ Goto(p, "fill")
    /\ UNCHANGED <<message, semR, semW, task, uid, copy, target, signals, owed, interrupted>>

\* exitChild gives semW back afterwards.
Fill(p) ==
    /\ Runs(p, "fill")
    /\ table' = copy[p]
    /\ semW' = IF task[p] = "exit" THEN semW + 1 ELSE semW
    /\ Goto(p, "look")
    /\ UNCHANGED <<message, semR, task, uid, copy, target, signals, owed, interrupted>>

-----------------------------------------------------------------------------
(* broadcast *)

\* The recipients are those of the table now.
Look(p) ==
    /\ Runs(p, "look")
    /\ copy' = [copy EXCEPT ![p] = Read]
    /\ Goto(p, "takeR")
    /\ UNCHANGED <<memory, task, uid, target, signals, owed, interrupted>>

TakeR(p) ==
    /\ Runs(p, "takeR")
    /\ semR > 0
    /\ semR' = semR - 1
    /\ Goto(p, "takeW")
    /\ UNCHANGED <<table, message, semW, task, uid, copy, target, signals, owed, interrupted>>

TakeW(p) ==
    /\ Runs(p, "takeW")
    /\ semW > 0
    /\ semW' = semW - 1
    /\ Goto(p, "put")
    /\ UNCHANGED <<table, message, semR, task, uid, copy, target, signals, owed, interrupted>>

Put(p) ==
    /\ Runs(p, "put")
    /\ message' = p
    /\ semW' = semW + 1
    /\ Goto(p, "send")
    /\ UNCHANGED <<table, semR, task, uid, copy, target, signals, owed, interrupted>>

\* A SIGUSR1 that finds one pending is lost, with its value.
Raised(q, value) == IF Alive(q) /\ usr1[q] = "none" THEN value ELSE usr1[q]

\* The last user of the copy is the one told to give semR back.
Poster(t) == t[Len(t)].pid

Send(p) ==
    /\ Runs(p, "send")
    /\ LET t == copy[p]
       IN  /\ semR' = IF t = << >> THEN semR + 1 ELSE semR
           /\ usr1' = [q \in Proc |-> IF q \in Pids(t)
                                      THEN Raised(q, IF q = Poster(t) THEN "post" ELSE "show")
                                      ELSE usr1[q]]
           /\ owed' = [q \in Proc |-> IF q \in Pids(t) /\ Alive(q) THEN owed[q] \cup {p} ELSE owed[q]]
    /\ Goto(p, IF task[p] = "exit" THEN "leaving" ELSE "idle")
    /\ task' = [task EXCEPT ![p] = IF @ = "exit" THEN @ ELSE "chat"]
    /\ copy' = [copy EXCEPT ![p] = << >>]
    /\ UNCHANGED <<table, message, semW, uid, target, usr2, interrupted>>

-----------------------------------------------------------------------------
(* Lines *)

\* The process ends, however; what it had pending goes with it.
Dies(p) ==
    /\ pc' = [pc EXCEPT ![p] = "dead"]
    /\ task' = [task EXCEPT ![p] = "chat"]
    /\ copy' = [copy EXCEPT ![p] = << >>]
    /\ target' = [target EXCEPT ![p] = Nobody]
    /\ usr1' = [usr1 EXCEPT ![p] = "none"]
    /\ usr2' = usr2 \ {p}
    /\ owed' = [owed EXCEPT ![p] = {}]
    /\ UNCHANGED uid

Types(p, line) == line \in Lines /\ Runs(p, "idle") /\ MayAct

\* A process that does not find its uid goes on with position -1 of its copy,
\* for what that yields, or crashes.
Lost(p) == ~InTable(table, p)
Crashes(p) ==
    /\ Runs(p, "idle") /\ MayAct
    /\ Lines \cap {"exit", "name", "yell", "tell"} # {}
    /\ Lost(p)
    /\ Dies(p)
    /\ UNCHANGED <<memory, interrupted>>

MyIndex(p) == IndexById(table, uid[p])

\* exit: who is in the table is told with SIGUSR2, the process itself
\* included.  A process that does not find its uid removes nobody.  The bug
\* of removing the last user of the list.
WithoutLast(p) == IF Read = << >> THEN Read ELSE RemoveAt(Read, Len(Read))
WithoutMe(p) == IF Lost(p) THEN Read ELSE RemoveAt(Read, MyIndex(p))

ReadToExit(p) ==
    /\ Types(p, "exit")
    /\ copy' = [copy EXCEPT ![p] = WithoutMe(p)]
    /\ usr2' = usr2 \cup {q \in Proc : q \in Pids(Read) /\ Alive(q)}
    /\ task' = [task EXCEPT ![p] = "exit"]
    /\ Goto(p, "lock")
    /\ UNCHANGED <<memory, uid, target, usr1, owed, interrupted>>

Lock(p) ==
    /\ Runs(p, "lock")
    /\ semW > 0
    /\ semW' = semW - 1
    /\ Goto(p, "wipe")
    /\ UNCHANGED <<table, message, semR, task, uid, copy, target, signals, owed, interrupted>>

Leave(p) ==
    /\ Runs(p, "leaving")
    /\ Dies(p)
    /\ UNCHANGED <<memory, interrupted>>

\* name: refused when somebody has it in the table as it is now.  The bug of
\* not looking.
NeverTaken(n) == FALSE
NameTaken(n) == \E i \in DOMAIN table : Read[i].name = n

ReadToName(p) ==
    /\ Types(p, "name")
    /\ \E n \in NickNames :
        /\ ~NameTaken(n)
        /\ copy' = [copy EXCEPT ![p] = IF Lost(p) THEN Read ELSE [Read EXCEPT ![MyIndex(p)].name = n]]
    /\ task' = [task EXCEPT ![p] = "name"]
    /\ Goto(p, "wipe")
    /\ UNCHANGED <<memory, uid, target, signals, owed, interrupted>>

Yell(p) ==
    /\ Types(p, "yell")
    /\ Goto(p, "look")
    /\ UNCHANGED <<memory, task, uid, copy, target, signals, owed, interrupted>>

\* tell writes the message without either semaphore.
ReadToTell(p) ==
    /\ Types(p, "tell")
    /\ \E i \in DOMAIN table : target' = [target EXCEPT ![p] = Read[i].pid]
    /\ Goto(p, "tellPut")
    /\ UNCHANGED <<memory, task, uid, copy, signals, owed, interrupted>>

TellPut(p) ==
    /\ Runs(p, "tellPut")
    /\ message' = p
    /\ Goto(p, "tellSend")
    /\ UNCHANGED <<table, semR, semW, task, uid, copy, target, signals, owed, interrupted>>

TellSend(p) ==
    /\ Runs(p, "tellSend")
    /\ usr1' = [q \in Proc |-> IF q = target[p] THEN Raised(q, "show") ELSE usr1[q]]
    /\ owed' = [q \in Proc |-> IF q = target[p] /\ Alive(q) THEN owed[q] \cup {p} ELSE owed[q]]
    /\ target' = [target EXCEPT ![p] = Nobody]
    /\ Goto(p, "idle")
    /\ UNCHANGED <<memory, task, uid, copy, usr2, interrupted>>

\* A line with a program that does not find its user in the table: exit(1).
NoUser(p) ==
    /\ Types(p, "run")
    /\ Lost(p)
    /\ Dies(p)
    /\ UNCHANGED <<memory, interrupted>>

\* recv() returns 0: the process ends and its user stays in the table.
Vanish(p) ==
    /\ MayVanish
    /\ Runs(p, "idle") /\ MayAct
    /\ Dies(p)
    /\ UNCHANGED <<memory, interrupted>>

-----------------------------------------------------------------------------
(* Signals *)

\* sem_wait() returns when a handler has run, without the semaphore, if the
\* process was already waiting for it; its result is not looked at.
Waits(p) == (pc[p] = "takeR" /\ semR = 0) \/ (pc[p] \in {"takeW", "lock"} /\ semW = 0)
Past == [takeR |-> "takeW", takeW |-> "put", lock |-> "wipe"]

Handled(p) ==
    \/ UNCHANGED <<pc, interrupted>>
    \/ /\ Waits(p)
       /\ interrupted < MaxInterrupted
       /\ Goto(p, Past[pc[p]])
       /\ interrupted' = interrupted + 1

\* SIGUSR1: shows the message there is; the last user gives semR back.  The
\* bugs of a handler that does not, and of one that does nothing else then.
ShowOnly(p) ==
    /\ usr1[p] # "none"
    /\ usr1' = [usr1 EXCEPT ![p] = "none"]
    /\ owed' = [owed EXCEPT ![p] = @ \ {message}]
    /\ Handled(p)
    /\ UNCHANGED <<memory, task, uid, copy, target, usr2>>

ShowOrPost(p) ==
    /\ usr1[p] # "none"
    /\ usr1' = [usr1 EXCEPT ![p] = "none"]
    /\ owed' = IF usr1[p] = "show" THEN [owed EXCEPT ![p] = @ \ {message}] ELSE owed
    /\ semR' = IF usr1[p] = "post" THEN semR + 1 ELSE semR
    /\ Handled(p)
    /\ UNCHANGED <<table, message, semW, task, uid, copy, target, usr2>>

getBroadcast(p) ==
    /\ usr1[p] # "none"
    /\ usr1' = [usr1 EXCEPT ![p] = "none"]
    /\ owed' = [owed EXCEPT ![p] = @ \ {message}]
    /\ semR' = IF usr1[p] = "post" THEN semR + 1 ELSE semR
    /\ Handled(p)
    /\ UNCHANGED <<table, message, semW, task, uid, copy, target, usr2>>

\* SIGUSR2: its handler is installed when the login is over, and has nothing
\* to do without user pipes.
getUserPipeSig(p) ==
    /\ p \in usr2
    /\ task[p] # "login"
    /\ usr2' = usr2 \ {p}
    /\ Handled(p)
    /\ UNCHANGED <<memory, task, uid, copy, target, usr1, owed>>

\* Before that it is the end of the process, wherever it is.
KilledInLogin(p) ==
    /\ p \in usr2
    /\ task[p] = "login"
    /\ Dies(p)
    /\ UNCHANGED <<memory, interrupted>>

-----------------------------------------------------------------------------
\* Where a process goes on by itself.
Step(p) ==
    \/ ReadToEnter(p) \/ Wipe(p) \/ Fill(p) \/ Look(p) \/ TakeR(p) \/ TakeW(p) \/ Put(p) \/ Send(p)
    \/ Lock(p) \/ Leave(p) \/ TellPut(p) \/ TellSend(p)
    \/ getBroadcast(p) \/ getUserPipeSig(p) \/ KilledInLogin(p)

Line(p) ==
    \/ ReadToExit(p) \/ ReadToName(p) \/ Yell(p) \/ ReadToTell(p) \/ NoUser(p) \/ Crashes(p)

Next == \E p \in Proc : Connect(p) \/ Step(p) \/ Line(p) \/ Vanish(p)

Spec == Init /\ [][Next]_vars

-----------------------------------------------------------------------------
(* Correctness *)

UserEntry == [uid : Uid, pid : Proc \cup {Nobody}, name : NickNames \cup {NoName, Half}]

\* The values the shared memory and the processes range over.
TypeOK ==
    /\ table \in Seq(UserEntry)
    /\ message \in Proc \cup {Nobody}
    /\ semR \in Nat /\ semW \in Nat
    /\ pc \in [Proc -> Place]
    /\ task \in [Proc -> Task]
    /\ uid \in [Proc -> Uid \cup {0}]
    /\ copy \in [Proc -> Seq(UserEntry)]
    /\ target \in [Proc -> Proc \cup {Nobody}]
    /\ usr1 \in [Proc -> {"none", "show", "post"}]
    /\ usr2 \subseteq Proc
    /\ owed \in [Proc -> SUBSET Proc]
    /\ interrupted \in 0..MaxInterrupted

\* The table in memory and the copies that processes work on.
Tables == {table} \cup {copy[p] : p \in Proc}

\* However logins, logouts and changes of names overlap and undo each other,
\* the table in memory, and every copy of it that is about to be stored, is
\* one that newUserIn can search for a free uid, and within its bound.
TableOrdered == \A t \in Tables : Increasing(t) /\ Len(t) <= MaxUsers

\* Whatever is lost, nothing is made up: who is in the table, or in a copy,
\* has come from newUserIn, is there once, and under the uid its process was
\* given, though the process may be dead or, for a name with a comma, be
\* found no more.
EntriesTruthful ==
    \A t \in Tables : \A i \in DOMAIN t :
        t[i].pid # Nobody => /\ pc[t[i].pid] \notin {"none", "enter"}
                             /\ uid[t[i].pid] = t[i].uid
                             /\ \A j \in DOMAIN t : t[j].pid = t[i].pid => j = i

-----------------------------------------------------------------------------
(* What users see *)

\* The table as the users see it between two changes.
Stored == IF \E p \in Proc : pc[p] = "fill" THEN copy[CHOOSE p \in Proc : pc[p] = "fill"] ELSE table

Room == INSTANCE ChatRoom WITH
            members <- [u \in UidsOf(Stored) |-> Stored[IndexById(Stored, u)].name],
            pipes <- {}

\* npshell_multi_proc.h:52, of broadcast(): "broadcast msg to all users": who
\* has no signal pending has shown every message that was sent to it.
EveryBroadcastShown == \A p \in Proc : usr1[p] = "none" => owed[p] = {}
=============================================================================
