------------------------------ MODULE NpSingle ------------------------------
(***************************************************************************)
(* project2/np_single_proc: one process serves every user of the chat      *)
(* room.  It waits in select(), then serves the ready sockets in ascending *)
(* order, one line of input each; a line runs to its end before the next   *)
(* one is read.  The module models the tables of the server, the file      *)
(* descriptors of its process and the control flow of a line; the programs *)
(* a line starts are children whose effect on this process is that         *)
(* waitpid() returns.                                                      *)
(***************************************************************************)
EXTENDS UserTable, FiniteSets

CONSTANTS
    MaxFd,       \* the descriptors 1..MaxFd are the ones the process can still open
    Lines,       \* the input lines users type, see LineKinds
    NickNames,   \* the nicknames of "name" lines
    NoName,      \* "(no name)"
    EnvVars,     \* the variables of "setenv" lines
    MaxMissed,   \* bound: how many lines a user types after missing a number pipe
    MaxGone,     \* bound: how many clients at a time are gone without "exit"
    MaxReady     \* bound: how many sockets with input one select() reports

ASSUME MaxFdAssumption == MaxFd \in Nat
ASSUME NamesAssumption == NoName \notin NickNames
ASSUME BoundsAssumption == MaxMissed \in Nat \ {0} /\ MaxGone \in Nat /\ MaxReady \in Nat \ {0}

Fd == 1..MaxFd

\* What a descriptor is open on.  A connection is "live", or its client is
\* "gone", or is gone and has answered a send() with a reset.
Connected  == {"live", "gone", "reset"}
Descriptor == {"free", "pipe"} \cup Connected

WriteKind == {"standard", "normal", "number", "user"}
ReadKind  == {"standard", "normal", "number"}

\* A stage is one program of a line: read is the uid of "<n" or 0, write the
\* direction of its output, arg the n of "|n", "!n" and ">n".
Stage == [read : Nat, write : WriteKind, arg : Nat]

\* What ends the programs of a line, and comes before any that are never started: the
\* wait for the last of them, a built-in, or a word that no number can be read
\* from or that is missing.
Ending ==
         [op : {"wait", "printenv", "malformed"}]
    \cup [op : {"name"}, name : NickNames]
    \cup [op : {"setenv"}, var : EnvVars]
    \cup [op : {"block"}, uid : Nat]

LineKinds ==
         [op : {"exit", "blank", "who", "yell", "printenv"}]
    \cup [op : {"tell", "block"}, uid : Nat]
    \cup [op : {"name"}, name : NickNames]
    \cup [op : {"setenv"}, var : EnvVars]
    \cup [op : {"run"}, stages : Seq(Stage), last : Ending]

ASSUME LinesAssumption == Lines \subseteq LineKinds

VARIABLES
    up,           \* the process is alive
    fds,          \* its descriptor table
    userinfo,     \* the user table: sequence of [sockid, uid, name]
    numberPipes,  \* numberPipeList: the number pipes of each uid, newest first
    userPipes,    \* userPipeList: the user pipes, oldest first
    env,          \* envList: the variables each uid has set
    blockList,    \* the sockets blocked at each POSITION of the user table
    batch,        \* the sockets select() reported that are not served yet
    cmd,          \* the line being executed
    muted,        \* history: the pairs of sockets whose users asked for a block
    left,         \* history: some user has left
    stolen        \* history: some user has read a user pipe addressed to another

vars == <<up, fds, userinfo, numberPipes, userPipes, env, blockList, batch, cmd,
          muted, left, stolen>>
tables == <<userinfo, numberPipes, userPipes, env, blockList>>
ghosts == <<muted, left, stolen>>

\* The line in execution: who sent it, its programs not started yet, what
\* comes after them, where the next one reads, the normal pipe that leads to
\* it, and whether the line was "exit" and the logout is under way.
Wait == [op |-> "wait"]
NoCmd == [sock |-> 0, todo |-> << >>, last |-> Wait, read |-> "standard", pipe |-> << >>,
          leaving |-> FALSE]
Idle == cmd = NoCmd

Socks == SocksOf(userinfo)
Me == userinfo[IndexBySock(userinfo, cmd.sock)].uid

-----------------------------------------------------------------------------
(* Descriptors *)

FreeFds(t) == {f \in Fd : t[f] = "free"}
Lowest(S)  == CHOOSE f \in S : \A g \in S : f <= g

\* accept() and pipe() return the lowest free descriptors.
ReadEnd(t)  == Lowest(FreeFds(t))
WriteEnd(t) == Lowest(FreeFds(t) \ {ReadEnd(t)})
CanPipe(t)  == \E f, g \in FreeFds(t) : f # g

OpenPipe(t)  == [t EXCEPT ![ReadEnd(t)] = "pipe", ![WriteEnd(t)] = "pipe"]

\* close() of numbers that may be free, or in other hands, by now.
Close(t, S) == [f \in Fd |-> IF f \in S THEN "free" ELSE t[f]]

\* The change of a server that ignores SIGPIPE.
SendQuietly(S, t) ==
    /\ up'  = TRUE
    /\ fds' = [f \in Fd |-> IF f \in S /\ t[f] = "gone" THEN "reset" ELSE t[f]]

\* send() to sockets S, starting from descriptor table t: the peer that is
\* gone answers with a reset, and the next send() raises SIGPIPE, which
\* nobody handles.
SendTo(S, t) ==
    /\ up'  = (\A f \in S \cap Fd : t[f] # "reset")
    /\ fds' = [f \in Fd |-> IF f \in S /\ t[f] = "gone" THEN "reset" ELSE t[f]]

\* exit(): the state of a dead process is of no interest.
Die == up' = FALSE /\ UNCHANGED <<fds, tables, batch, cmd, ghosts>>

-----------------------------------------------------------------------------
(* Connections *)

Init ==
    /\ up = TRUE
    /\ fds = [f \in Fd |-> "free"]
    /\ userinfo = << >>
    /\ numberPipes = [u \in Uid |-> << >>]
    /\ userPipes = << >>
    /\ env = [u \in Uid |-> {}]
    /\ blockList = [i \in Uid |-> {}]
    /\ batch = {}
    /\ cmd = NoCmd
    /\ muted = {}
    /\ left = FALSE
    /\ stolen = FALSE

\* select() fails at once, for ever, when a socket of the table is closed.
Waiting == up /\ Idle /\ batch = {} /\ \A s \in Socks : fds[s] # "free"

\* The server then keeps the processor and serves nobody.
Deaf == up /\ Idle /\ batch = {} /\ \E s \in Socks : fds[s] = "free"
Spin == Deaf /\ UNCHANGED vars

\* A client connects; the listening socket is served before any other.  The
\* test before accept() lets a client in when the table is full.
Accept ==
    /\ Waiting
    /\ FreeFds(fds) # {}
    /\ Len(userinfo) <= MaxUsers
    /\ LET s == Lowest(FreeFds(fds))
           t == Enter(userinfo, [sockid |-> s, uid |-> 1, name |-> NoName])
       IN  /\ userinfo' = t
           /\ SendTo(SocksOf(t) \cup {s}, [fds EXCEPT ![s] = "live"])
    /\ UNCHANGED <<numberPipes, userPipes, env, blockList, batch, cmd, ghosts>>

\* accept() fails for want of a descriptor and the server exits.
AcceptFails ==
    /\ Waiting
    /\ FreeFds(fds) = {}
    /\ Die

\* A client ends its connection, without "exit".
HangUp ==
    /\ up
    /\ Cardinality({f \in Fd : fds[f] \in {"gone", "reset"}}) < MaxGone
    /\ \E f \in Fd : fds[f] = "live" /\ fds' = [fds EXCEPT ![f] = "gone"]
    /\ UNCHANGED <<up, tables, batch, cmd, ghosts>>

\* select() reports sockets with input, and at least every socket of the
\* table whose client is gone: recv() on it returns 0 without waiting.
Select ==
    /\ Waiting
    /\ \E R \in SUBSET Socks :
        /\ R # {}
        /\ {s \in Socks : fds[s] \in {"gone", "reset"}} \subseteq R
        /\ Cardinality({s \in R : fds[s] = "live"}) <= MaxReady
        /\ batch' = R
    /\ UNCHANGED <<up, fds, tables, cmd, ghosts>>

-----------------------------------------------------------------------------
(* Lines that the shell answers itself *)

\* The ready socket that is served next.  The bug that leaves it in the batch.
ServingAgain(s) == up /\ Idle /\ batch # {} /\ s = Lowest(batch) /\ batch' = batch
Serving(s) == up /\ Idle /\ batch # {} /\ s = Lowest(batch) /\ batch' = batch \ {s}

PosOf(s) == IndexBySock(userinfo, s)
UidOf(s) == userinfo[PosOf(s)].uid

\* recv() yields nothing: the client is gone, or the number s is no socket.
\* What is left is the empty line, answered by a prompt.
ServeNothing ==
    \E s \in batch :
        /\ Serving(s)
        /\ fds[s] # "live"
        /\ SendTo({s}, fds)
        /\ UNCHANGED <<tables, cmd, ghosts>>

\* recv() yields the line l.
Reads(s, l) == Serving(s) /\ fds[s] = "live" /\ l \in Lines

Blank ==
    \E s \in batch, l \in Lines :
        /\ Reads(s, l)
        /\ l.op = "blank"
        /\ SendTo({s}, fds)
        /\ UNCHANGED <<tables, cmd, ghosts>>

\* Every line that is neither empty nor "exit" counts the number pipes of
\* its user down, whatever it goes on to do.
Tick(ps) == [i \in DOMAIN ps |-> [ps[i] EXCEPT !.counter = @ - 1]]
Due(ps)  == {i \in DOMAIN ps : ps[i].counter = 0}
TickFor(s) == [numberPipes EXCEPT ![UidOf(s)] = Tick(@)]
Bounded(s) == \A i \in DOMAIN numberPipes[UidOf(s)] : numberPipes[UidOf(s)][i].counter > -MaxMissed

\* The line in execution has started its programs.
Started == up /\ cmd.sock # 0 /\ ~cmd.leaving /\ cmd.todo = << >>

\* The built-in l of user s: on a line of its own, or behind the programs of
\* the line in execution.  It ends that line in the middle of the loop over the
\* programs, which are not waited for and whose normal pipe stays open.
Answers(s, l) ==
    \/ /\ Reads(s, l)
       /\ Bounded(s)
       /\ numberPipes' = TickFor(s)
       /\ UNCHANGED cmd
    \/ /\ Started
       /\ s = cmd.sock /\ l = cmd.last
       /\ cmd' = NoCmd
       /\ UNCHANGED <<numberPipes, batch>>

Askers == batch \cup {cmd.sock}
Asked  == Lines \cup {cmd.last}

\* who and printenv tell the sender alone.
Ask ==
    \E s \in Askers, l \in Asked :
        /\ Answers(s, l)
        /\ l.op \in {"who", "printenv"}
        /\ SendTo({s}, fds)
        /\ UNCHANGED <<userinfo, userPipes, env, blockList, ghosts>>

\* Whom the user at position i can reach.
Reach(i) == Socks \ blockList[i]

Yell ==
    \E s \in batch, l \in Lines :
        /\ Reads(s, l)
        /\ l.op = "yell"
        /\ Bounded(s)
        /\ numberPipes' = TickFor(s)
        /\ SendTo(Reach(PosOf(s)) \cup {s}, fds)
        /\ UNCHANGED <<userinfo, userPipes, env, blockList, cmd, ghosts>>

Tell ==
    \E s \in batch, l \in Lines :
        /\ Reads(s, l)
        /\ l.op = "tell"
        /\ Bounded(s)
        /\ numberPipes' = TickFor(s)
        /\ LET to == {userinfo[i].sockid : i \in {j \in DOMAIN userinfo : userinfo[j].uid = l.uid}}
           IN  SendTo((to \cap Reach(PosOf(s))) \cup {s}, fds)
        /\ UNCHANGED <<userinfo, userPipes, env, blockList, cmd, ghosts>>

\* name() refuses a nickname that somebody has.  The bug that does not look.
NameAlways(s, n) == [userinfo EXCEPT ![PosOf(s)].name = n]
NameTaken(n) == \E i \in DOMAIN userinfo : userinfo[i].name = n
Named(s, n) == IF NameTaken(n) THEN userinfo ELSE [userinfo EXCEPT ![PosOf(s)].name = n]

Name ==
    \E s \in Askers, l \in Asked :
        /\ Answers(s, l)
        /\ l.op = "name"
        /\ userinfo' = Named(s, l.name)
        /\ SendTo(IF NameTaken(l.name) THEN {s} ELSE Socks, fds)
        /\ UNCHANGED <<userPipes, env, blockList, ghosts>>

SetEnv ==
    \E s \in Askers, l \in Asked :
        /\ Answers(s, l)
        /\ l.op = "setenv"
        /\ env' = [env EXCEPT ![UidOf(s)] = @ \cup {l.var}]
        /\ SendTo({s}, fds)
        /\ UNCHANGED <<userinfo, userPipes, blockList, ghosts>>

\* Both positions of the table get the socket of the other user.  The bug
\* that tells only one of them.
BlockOneWay(i, j) == [blockList EXCEPT ![i] = @ \cup {userinfo[j].sockid}]
BlockBothWays(i, j) ==
    [k \in Uid |-> blockList[k] \cup (IF k = i THEN {userinfo[j].sockid} ELSE {})
                                \cup (IF k = j THEN {userinfo[i].sockid} ELSE {})]

Block ==
    \E s \in Askers, l \in Asked :
        /\ Answers(s, l)
        /\ l.op = "block"
        /\ l.uid \in UidsOf(userinfo)
        /\ LET j == IndexById(userinfo, l.uid)
           IN  /\ blockList' = BlockBothWays(PosOf(s), j)
               /\ muted' = muted \cup {{s, userinfo[j].sockid}}
        /\ SendTo({s}, fds)
        /\ UNCHANGED <<userinfo, userPipes, env, left, stolen>>

\* The uid of "block" is not in the table: position -1 is read and written,
\* so a number from anywhere is blocked, or the process crashes.
BlockNobody ==
    \E s \in Askers, l \in Asked :
        /\ Answers(s, l)
        /\ l.op = "block"
        /\ l.uid \notin UidsOf(userinfo)
        /\ \/ /\ \E junk \in Fd \cup {0} :
                    blockList' = [blockList EXCEPT ![PosOf(s)] = @ \cup {junk}]
              /\ SendTo({s}, fds)
           \/ up' = FALSE /\ UNCHANGED <<fds, blockList>>
        /\ UNCHANGED <<userinfo, userPipes, env, ghosts>>

-----------------------------------------------------------------------------
(* Lines that run programs *)

\* The programs of the line; the first reads the number pipe that is due.
Run ==
    \E s \in batch, l \in Lines :
        /\ Reads(s, l)
        /\ l.op = "run"
        /\ Bounded(s)
        /\ numberPipes' = TickFor(s)
        /\ cmd' = [NoCmd EXCEPT !.sock = s, !.todo = l.stages, !.last = l.last,
                     !.read = IF Due(Tick(numberPipes[UidOf(s)])) = {} THEN "standard" ELSE "number"]
        /\ UNCHANGED <<up, fds, userinfo, userPipes, env, blockList, ghosts>>

\* The entries of the user-pipe list that "<x" may mean.  The source compares
\* the sender only.
From(x) == {i \in DOMAIN userPipes : userPipes[i].from = x}
PipeTo(ps, x, y) == {i \in DOMAIN ps : ps[i].from = x /\ ps[i].to = y}

\* Why "<x" and ">y" are refused.  The bug that lets a second pipe through.
ReadFails(x)  == x \notin UidsOf(userinfo) \/ From(x) = {}
WriteSeldomFails(y) == y \notin UidsOf(userinfo)
WriteFails(y) == y \notin UidsOf(userinfo) \/ PipeTo(userPipes, Me, y) # {}

\* The number pipe of this line's user with counter n, which is written
\* again instead of a new one.  The bug that always makes a new one.
NeverSame(n) == {}
SameCounter(n) == {i \in DOMAIN numberPipes[Me] : numberPipes[Me][i].counter = n}

NeedsPipe(st) ==
    \/ st.write = "normal"
    \/ st.write = "number" /\ SameCounter(st.arg) = {}
    \/ st.write = "user" /\ ~WriteFails(st.arg)

\* Opening the output of stage st: the descriptors, the pipes of this line's
\* user and the user pipes after it.
Made(st) == NeedsPipe(st) /\ st.write # "normal"
FdsOpened(st) == IF NeedsPipe(st) THEN OpenPipe(fds) ELSE fds
NumberOpened(st) ==
    IF Made(st) /\ st.write = "number"
    THEN <<[counter |-> st.arg, rd |-> ReadEnd(fds), wr |-> WriteEnd(fds)]>> \o numberPipes[Me]
    ELSE numberPipes[Me]
UserOpened(st) ==
    IF Made(st) /\ st.write = "user"
    THEN Append(userPipes, [from |-> Me, to |-> st.arg, rd |-> ReadEnd(fds), wr |-> WriteEnd(fds)])
    ELSE userPipes

\* Where stage st reads: "<x" overrides the pipe that leads to it.
Source(st) ==
    IF st.read # 0
    THEN IF ReadFails(st.read) THEN "null" ELSE "user"
    ELSE cmd.read

Ends(p) == {p.rd, p.wr}
EndsOf(ps) == UNION {Ends(ps[i]) : i \in DOMAIN ps}

DuePipes(st) == UNION {Ends(NumberOpened(st)[i]) : i \in Due(NumberOpened(st))}

\* The descriptors the parent closes after the fork: both ends of the pipe
\* the program reads.  The bug that leaves the writing end of a number pipe.
ConsumedToRead(st) ==
    CASE Source(st) = "normal" -> ToSet(cmd.pipe)
      [] Source(st) = "number" -> {NumberOpened(st)[i].rd : i \in Due(NumberOpened(st))}
      [] Source(st) = "user"   -> Ends(userPipes[Lowest(From(st.read))])
      [] OTHER -> {}
Consumed(st) ==
    CASE Source(st) = "normal" -> ToSet(cmd.pipe)
      [] Source(st) = "number" -> DuePipes(st)
      [] Source(st) = "user"   -> Ends(userPipes[Lowest(From(st.read))])
      [] OTHER -> {}

Without(ps, S) == IF S = {} THEN ps ELSE RemoveAt(ps, Lowest(S))

\* A number pipe that was read leaves the list; when anything follows a number
\* pipe on the line, the counters go down again.
NumberLeft(st) == IF Source(st) = "number" THEN Without(NumberOpened(st), Due(NumberOpened(st))) ELSE NumberOpened(st)
TicksAgain(st) == st.write = "number" /\ (Len(cmd.todo) > 1 \/ cmd.last # Wait)
NumberAfter(st) == IF TicksAgain(st) THEN Tick(NumberLeft(st)) ELSE NumberLeft(st)

\* Of the user pipes the first from x to this user leaves the list, which
\* need not be the one that was read and closed.  The bug that keeps it.
UserKept(st) == UserOpened(st)
UserAfter(st) ==
    IF Source(st) = "user"
    THEN Without(UserOpened(st), PipeTo(UserOpened(st), st.read, Me))
    ELSE UserOpened(st)

NextRead(st) ==
    IF TicksAgain(st) /\ Due(NumberAfter(st)) # {} THEN "number"
    ELSE IF st.write = "normal" THEN "normal" ELSE "standard"

\* Exchanges of user pipes are broadcast; refused ones are told to the user.
Audience(st) ==
       (IF Source(st) = "user" \/ UserOpened(st) # userPipes THEN Socks ELSE {})
  \cup (IF Source(st) = "null" \/ (st.write = "user" /\ WriteFails(st.arg)) THEN {cmd.sock} ELSE {})

RunStage ==
    /\ up
    /\ cmd.todo # << >>
    /\ LET st == Head(cmd.todo)
       IN  /\ NeedsPipe(st) => CanPipe(fds)
           /\ numberPipes' = [numberPipes EXCEPT ![Me] = NumberAfter(st)]
           /\ userPipes' = UserAfter(st)
           /\ SendTo(Audience(st), Close(FdsOpened(st), Consumed(st)))
           /\ cmd' = [cmd EXCEPT !.todo = Tail(@), !.read = NextRead(st),
                        !.pipe = IF st.write = "normal" THEN <<ReadEnd(fds), WriteEnd(fds)>> ELSE << >>]
           /\ stolen' = (stolen \/ (Source(st) = "user" /\ userPipes[Lowest(From(st.read))].to # Me))
    /\ UNCHANGED <<userinfo, env, blockList, batch, muted, left>>

\* pipe() fails and the server exits.
PipeFails ==
    /\ up
    /\ cmd.todo # << >>
    /\ NeedsPipe(Head(cmd.todo)) /\ ~CanPipe(fds)
    /\ Die

\* waitpid() for the last program has returned; the prompt ends the line.
EndLine ==
    /\ Started
    /\ cmd.last = Wait
    /\ cmd' = NoCmd
    /\ SendTo({cmd.sock}, fds)
    /\ UNCHANGED <<tables, batch, ghosts>>

\* A built-in that is not alone on its line deletes words that it has not set,
\* which may end the server; a missing number, or a word that is none, does.
LineCrashes ==
    /\ Started
    /\ cmd.last # Wait
    /\ Die

-----------------------------------------------------------------------------
(* Logout *)

\* "exit": the number pipes of the user are freed, their descriptors stay open.
ForgetNothing(u) == numberPipes
Forget(u) == [numberPipes EXCEPT ![u] = << >>]

Exit ==
    \E s \in batch, l \in Lines :
        /\ Reads(s, l)
        /\ l.op = "exit"
        /\ numberPipes' = Forget(UidOf(s))
        /\ cmd' = [NoCmd EXCEPT !.sock = s, !.leaving = TRUE]
        /\ UNCHANGED <<up, fds, userinfo, userPipes, env, blockList, ghosts>>

\* The loop over the user pipes closes and erases the user's, one by one.
HeldSent == {i \in DOMAIN userPipes : userPipes[i].from = Me}
Held == {i \in DOMAIN userPipes : Me \in {userPipes[i].from, userPipes[i].to}}

DropPipe ==
    /\ up
    /\ cmd.leaving
    /\ Held # {}
    /\ fds' = Close(fds, Ends(userPipes[Lowest(Held)]))
    /\ userPipes' = RemoveAt(userPipes, Lowest(Held))
    /\ UNCHANGED <<up, userinfo, numberPipes, env, blockList, batch, cmd, ghosts>>

ClearEnv(u) == [env EXCEPT ![u] = {}]

\* The rest of the logout: environment, table entry, socket, broadcast.
Leave ==
    /\ up
    /\ cmd.leaving
    /\ Held = {}
    /\ env' = ClearEnv(Me)
    /\ userinfo' = RemoveAt(userinfo, IndexBySock(userinfo, cmd.sock))
    /\ SendTo(SocksOf(userinfo'), Close(fds, {cmd.sock}))
    /\ cmd' = NoCmd
    /\ muted' = {p \in muted : cmd.sock \notin p}
    /\ left' = TRUE
    /\ UNCHANGED <<numberPipes, userPipes, blockList, batch, stolen>>

-----------------------------------------------------------------------------
Down == ~up /\ UNCHANGED vars

\* The steps the server takes by itself once it is asked to.
Work == ServeNothing \/ Blank \/ Ask \/ Yell \/ Tell \/ Name \/ SetEnv \/ Block \/ BlockNobody
        \/ Run \/ Exit \/ RunStage \/ PipeFails \/ EndLine \/ LineCrashes \/ DropPipe \/ Leave

Next == Accept \/ AcceptFails \/ HangUp \/ Select \/ Work \/ Spin \/ Down

Spec == Init /\ [][Next]_vars

\* The process is scheduled, and the programs of a line end.
Fairness == WF_vars(Select) /\ WF_vars(Work)
FairSpec == Spec /\ Fairness

-----------------------------------------------------------------------------
(* Correctness *)

UserRecord == [sockid : Fd, uid : Uid, name : NickNames \cup {NoName}]
NumberPipe == [counter : Int, rd : Fd, wr : Fd]
UserPipe   == [from : Uid, to : Uid, rd : Fd, wr : Fd]
Command    == [sock : Fd \cup {0}, todo : Seq(Stage), last : Ending, read : ReadKind,
               pipe : {<< >>} \cup (Fd \X Fd), leaving : BOOLEAN]

\* The values the tables of the server range over.
TypeOK ==
    /\ up \in BOOLEAN
    /\ fds \in [Fd -> Descriptor]
    /\ userinfo \in Seq(UserRecord)
    /\ numberPipes \in [Uid -> Seq(NumberPipe)]
    /\ userPipes \in Seq(UserPipe)
    /\ env \in [Uid -> SUBSET EnvVars]
    /\ blockList \in [Uid -> SUBSET (Fd \cup {0})]
    /\ batch \subseteq Fd
    /\ cmd \in Command
    /\ muted \subseteq SUBSET Fd
    /\ left \in BOOLEAN
    /\ stolen \in BOOLEAN

\* Whatever users come and go, the table stays ordered by uid and no two
\* users share one: the search for a gap in newConnection() relies on the
\* order and every array of the server is indexed by uid.
UidsIncreasing == Increasing(userinfo) /\ Len(userinfo) <= MaxUsers

\* No two users have the same nickname, but for those that have asked for none
\* (name() refuses a name that somebody has).
NamesDistinct ==
    \A i, j \in DOMAIN userinfo :
        i # j /\ userinfo[i].name = userinfo[j].name => userinfo[i].name = NoName

\* Both ends of every user pipe are logged in: a pipe never waits for a later
\* user that happens to get the uid of the one it was meant for.
PipesBetweenUsers ==
    \A i \in DOMAIN userPipes : {userPipes[i].from, userPipes[i].to} \subseteq UidsOf(userinfo)

\* At most one user pipe leads from a user to a user; "<n" and the refusal
\* "already exists" rely on it.
PipePairsDistinct ==
    \A i, j \in DOMAIN userPipes :
        userPipes[i].from = userPipes[j].from /\ userPipes[i].to = userPipes[j].to => i = j

\* Number pipes of a user that were not missed have different counters, so
\* at most one is due for a line and readNumberPipe is the only candidate.
CountersDistinct ==
    \A u \in Uid : \A i, j \in DOMAIN numberPipes[u] :
        numberPipes[u][i].counter = numberPipes[u][j].counter => i = j

\* A uid that nobody has owns no number pipe and no environment variable: a
\* new user starts from nothing, whoever had the uid before.
FreeUidIsClean ==
    \A u \in Uid \ UidsOf(userinfo) : numberPipes[u] = << >> /\ env[u] = {}

\* As long as nobody has left, a line of a user who blocked another, or was
\* blocked, never reaches that user: positions of the table do not move then.
BlockHonoured ==
    ~left => \A i \in DOMAIN userinfo : \A p \in muted :
                 userinfo[i].sockid \in p => p \cap Reach(i) \subseteq {userinfo[i].sockid}

\* What the tables of the server, and the line in execution, hold descriptors for.
UserClaims == {[for |-> <<"user", i>>, fd |-> userinfo[i].sockid] : i \in DOMAIN userinfo}
NormalClaims == {[for |-> <<"normalPipe", i>>, fd |-> cmd.pipe[i]] : i \in DOMAIN cmd.pipe}
UserPipeClaims ==
    UNION {{[for |-> <<"userPipe", i, "rd">>, fd |-> userPipes[i].rd],
            [for |-> <<"userPipe", i, "wr">>, fd |-> userPipes[i].wr]} : i \in DOMAIN userPipes}
NumberClaims(u) ==
    UNION {{[for |-> <<"numberPipe", u, i, "rd">>, fd |-> numberPipes[u][i].rd],
            [for |-> <<"numberPipe", u, i, "wr">>, fd |-> numberPipes[u][i].wr]} : i \in DOMAIN numberPipes[u]}
Claims == UserClaims \cup NormalClaims \cup UserPipeClaims \cup UNION {NumberClaims(u) : u \in Uid}

\* As long as no user has read a pipe addressed to another, no descriptor is
\* held twice and none that is held is closed, so close() never hits a
\* descriptor in other hands and no table names a closed one.
FdsHeldOnce ==
    ~stolen =>
        /\ \A c \in Claims : fds[c.fd] \in (IF c.for[1] = "user" THEN Connected ELSE {"pipe"})
        /\ \A c, d \in Claims : c.fd = d.fd => c = d

\* Open descriptors that nothing in the server refers to.
Unheld == {f \in Fd : fds[f] # "free" /\ \A c \in Claims : c.fd # f}

\* What the server forgets without closing it: the connection it accepts into
\* a full room, the number pipes of a user who leaves, the normal pipe to a
\* program that reads "<n" instead, the one to a built-in and the one a line
\* ends with.
Forgotten ==
         (IF Idle /\ Len(userinfo) = MaxUsers THEN FreeFds(fds) ELSE {})
    \cup (IF cmd.todo = << >> \/ Head(cmd.todo).read # 0 THEN ToSet(cmd.pipe) ELSE {})
    \cup UNION {EndsOf(numberPipes[userinfo[i].uid]) :
                  i \in {j \in DOMAIN userinfo : cmd'.leaving /\ cmd'.sock = userinfo[j].sockid}}

\* A running server loses descriptors in these five ways and in no other:
\* every pipe that a line, a missed line, a merged counter or a logout is done
\* with is closed at both ends, until a user has read a pipe of another.
LosesOnlyForgotten == [][~stolen' => Unheld' \ Unheld \subseteq Forgotten]_vars

\* One line at a time: the sockets still to be served, and the one whose line
\* is in execution, are those of users in the table; a line is not served
\* twice; a logout has forgotten the number pipes before it frees the uid.
LineHasUser ==
    /\ batch \subseteq Socks
    /\ cmd.sock \notin batch
    /\ IF cmd.sock = 0 THEN cmd = NoCmd ELSE cmd.sock \in Socks
    /\ cmd.leaving => cmd.todo = << >> /\ numberPipes[Me] = << >>

\* The room as the other users see it: the user that is leaving has left.
Leaving(u) == cmd.leaving /\ u = Me
Staying == {i \in DOMAIN userinfo : ~Leaving(userinfo[i].uid)}
RoomMembers ==
    [u \in {userinfo[i].uid : i \in Staying} |-> userinfo[IndexById(userinfo, u)].name]
RoomPipes ==
    {<<userPipes[i].from, userPipes[i].to>> :
        i \in {j \in DOMAIN userPipes : ~Leaving(userPipes[j].from) /\ ~Leaving(userPipes[j].to)}}

Room == INSTANCE ChatRoom WITH members <- RoomMembers, pipes <- RoomPipes

\* The server implements the chat room, "exit" being the step a user leaves.
ImplementsChatRoom == Room!Spec

\* Every socket that select() reported is served before it waits again,
\* unless the process dies.
BatchServed == batch # {} ~> (batch = {} \/ ~up)

\* A client that is in the table and goes away without "exit" brings the
\* server down, unless its "exit" is being executed already: its socket stays
\* ready, and the second prompt sent to it raises SIGPIPE.  The exception is
\* a server that already serves nobody.
VanishedClientIsFatal == (Idle /\ \E f \in Socks : fds[f] = "gone") ~> (~up \/ Deaf)

-----------------------------------------------------------------------------
(* What the source says of itself and does not do *)

\* npshell_single_proc.cpp:259 and :296, "<n" is an error when "the pipe
\* #n->#me does not exist yet": no user reads a pipe to another.
OnlyAddresseeReads == ~stolen
=============================================================================
