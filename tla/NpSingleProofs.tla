--------------------------- MODULE NpSingleProofs ---------------------------
(***************************************************************************)
(* What holds of the single-process server for every number of users,      *)
(* descriptors and bound, and every set of input lines.                    *)
(*                                                                         *)
(* Base is inductive: the tables have their types, the table of users is   *)
(* ordered, and the line in execution and the sockets still to be served   *)
(* belong to users.  The invariants after it are inductive relative to     *)
(* Base: names, pipes, variables, counters and blocks, then who holds      *)
(* which descriptor.  Last, every step is one of the abstract chat room,   *)
(* or changes nothing there.                                               *)
(***************************************************************************)
EXTENDS NpSingle, UserTableProofs

Base == TypeOK /\ LineHasUser /\ UidsIncreasing

-----------------------------------------------------------------------------
(* Operators of the model *)

LEMMA LowestFacts ==
    ASSUME NEW S \in SUBSET Nat, S # {}
    PROVE  Lowest(S) \in S /\ \A g \in S : Lowest(S) <= g
<1>1. PICK k \in S : \A j \in S : k <= j
    BY LeastExists
<1> QED BY <1>1 DEF Lowest

LEMMA SendToTypes ==
    ASSUME NEW S, NEW t \in [Fd -> Descriptor], SendTo(S, t)
    PROVE  up' \in BOOLEAN /\ fds' \in [Fd -> Descriptor]
<1>1. up' \in BOOLEAN
    BY Zenon DEF SendTo
<1>2. fds' \in [Fd -> Descriptor]
    BY DEF SendTo, Descriptor, Connected
<1> QED BY <1>1, <1>2

\* Counting down changes neither how many number pipes there are nor their ends.
LEMMA TickTypes ==
    ASSUME NEW ps \in Seq(NumberPipe)
    PROVE  /\ Tick(ps) \in Seq(NumberPipe)
           /\ DOMAIN Tick(ps) = DOMAIN ps
           /\ \A i \in DOMAIN ps : Tick(ps)[i].counter = ps[i].counter - 1
<1>1. Len(ps) \in Nat /\ DOMAIN ps = 1..Len(ps) /\ \A i \in DOMAIN ps : ps[i] \in NumberPipe
    BY ElementOfSeq, LenProperties
<1>2. \A i \in DOMAIN ps : [ps[i] EXCEPT !.counter = @ - 1] \in NumberPipe
    BY <1>1 DEF NumberPipe
<1>3. \A i \in DOMAIN ps : [ps[i] EXCEPT !.counter = @ - 1].counter = ps[i].counter - 1
    BY <1>1 DEF NumberPipe
<1>4. Tick(ps) \in [1..Len(ps) -> NumberPipe]
    BY <1>1, <1>2 DEF Tick
<1>5. Tick(ps) \in Seq(NumberPipe)
    BY <1>1, <1>4, IsASeq DEF Tick
<1>6. DOMAIN Tick(ps) = DOMAIN ps /\ \A i \in DOMAIN ps : Tick(ps)[i].counter = ps[i].counter - 1
    BY <1>3 DEF Tick
<1> QED BY <1>5, <1>6

\* Removing the first of some positions, or nothing.
LEMMA WithoutTypes ==
    ASSUME NEW T, NEW ps \in Seq(T), NEW S \in SUBSET DOMAIN ps
    PROVE  /\ Without(ps, S) \in Seq(T)
           /\ S = {} => Without(ps, S) = ps
           /\ S # {} => Lowest(S) \in S /\ Without(ps, S) = RemoveAt(ps, Lowest(S))
<1>1. CASE S = {}
    BY <1>1 DEF Without
<1>2. CASE S # {}
  <2>1. S \in SUBSET Nat /\ S \subseteq 1..Len(ps)
      BY LenProperties
  <2>2. Lowest(S) \in S
      BY <1>2, <2>1, LowestFacts
  <2>3. RemoveAt(ps, Lowest(S)) \in Seq(T)
      BY <2>1, <2>2, RemoveAtFacts
  <2> QED BY <1>2, <2>2, <2>3 DEF Without
<1> QED BY <1>1, <1>2

\* pipe() returns two different free descriptors when there are two.
LEMMA PipeEnds ==
    ASSUME NEW t \in [Fd -> Descriptor], CanPipe(t)
    PROVE  /\ ReadEnd(t) \in Fd /\ WriteEnd(t) \in Fd /\ ReadEnd(t) # WriteEnd(t)
           /\ t[ReadEnd(t)] = "free" /\ t[WriteEnd(t)] = "free"
<1>1. FreeFds(t) \in SUBSET Nat /\ FreeFds(t) # {} /\ FreeFds(t) \subseteq Fd
    BY DEF CanPipe, FreeFds, Fd
<1>2. ReadEnd(t) \in FreeFds(t)
    BY <1>1, LowestFacts DEF ReadEnd
<1>3. FreeFds(t) \ {ReadEnd(t)} \in SUBSET Nat /\ FreeFds(t) \ {ReadEnd(t)} # {}
    BY <1>1 DEF CanPipe
<1>4. WriteEnd(t) \in FreeFds(t) \ {ReadEnd(t)}
    BY <1>3, LowestFacts DEF WriteEnd
<1> QED BY <1>1, <1>2, <1>4 DEF FreeFds

-----------------------------------------------------------------------------
(* What Base says of the line that is served *)

LEMMA Sender ==
    ASSUME Base, NEW s \in Socks
    PROVE  /\ PosOf(s) \in DOMAIN userinfo /\ userinfo[PosOf(s)].sockid = s
           /\ UidOf(s) \in Uid /\ UidOf(s) \in UidsOf(userinfo)
<1>1. userinfo \in Seq(UserRecord)
    BY DEF Base, TypeOK
<1>2. PosOf(s) \in DOMAIN userinfo /\ userinfo[PosOf(s)].sockid = s
    BY <1>1, IndexBySockFacts DEF PosOf, Socks
<1>3. userinfo[PosOf(s)] \in UserRecord
    BY <1>1, <1>2, ElementOfSeq, LenProperties
<1> QED BY <1>2, <1>3 DEF UidOf, UidsOf, UserRecord

LEMMA MeIsUser ==
    ASSUME Base, cmd.sock # 0
    PROVE  /\ Me \in Uid /\ Me \in UidsOf(userinfo)
           /\ IndexBySock(userinfo, cmd.sock) \in DOMAIN userinfo
           /\ userinfo[IndexBySock(userinfo, cmd.sock)].sockid = cmd.sock
<1>1. cmd.sock \in Socks
    BY DEF Base, LineHasUser
<1>2. Me = UidOf(cmd.sock)
    BY DEF Me, UidOf, PosOf
<1> QED BY <1>1, <1>2, Sender DEF PosOf

LEMMA ServedIsUser ==
    ASSUME Base, NEW s \in batch, Serving(s)
    PROVE  /\ s \in Socks /\ s \in Fd
           /\ cmd = NoCmd
           /\ batch' = batch \ {s}
<1> QED BY DEF Base, TypeOK, LineHasUser, Serving, Idle

LEMMA ServingReady ==
    ASSUME Base, NEW s, Serving(s)
    PROVE  s \in batch
<1>1. batch \in SUBSET Nat /\ batch # {}
    BY DEF Base, TypeOK, Serving, Fd
<1> QED BY <1>1, LowestFacts DEF Serving

LEMMA NoCmdType == NoCmd \in Command
BY DEF NoCmd, Command, ReadKind, Ending, Wait

LEMMA InitBase == Init => Base
<1> SUFFICES ASSUME Init PROVE Base
    OBVIOUS
<1>1. TypeOK
  <2>1. userinfo \in Seq(UserRecord) /\ userPipes \in Seq(UserPipe)
      BY DEF Init
  <2>2. numberPipes \in [Uid -> Seq(NumberPipe)]
      BY DEF Init
  <2>3. cmd \in Command
      BY NoCmdType DEF Init
  <2>4. fds \in [Fd -> Descriptor] /\ env \in [Uid -> SUBSET EnvVars]
      BY DEF Init, Descriptor
  <2>5. blockList \in [Uid -> SUBSET (Fd \cup {0})]
      BY DEF Init
  <2> QED BY <2>1, <2>2, <2>3, <2>4, <2>5 DEF Init, TypeOK
<1>2. LineHasUser
    BY DEF Init, LineHasUser, NoCmd
<1>3. UidsIncreasing
    BY MaxUsersAssumption DEF Init, UidsIncreasing, Increasing
<1> QED BY <1>1, <1>2, <1>3 DEF Base

-----------------------------------------------------------------------------
(* Every step preserves Base *)

\* A line that the shell answers itself leaves no line in execution.
LEMMA AnsweredBase ==
    ASSUME Base, batch' \subseteq batch, cmd' = NoCmd,
           numberPipes' \in [Uid -> Seq(NumberPipe)],
           userinfo' \in Seq(UserRecord), SocksOf(userinfo') = Socks, UidsIncreasing',
           env' \in [Uid -> SUBSET EnvVars], blockList' \in [Uid -> SUBSET (Fd \cup {0})],
           muted' \subseteq SUBSET Fd,
           up' \in BOOLEAN, fds' \in [Fd -> Descriptor],
           UNCHANGED <<userPipes, left, stolen>>
    PROVE  Base'
<1>2. TypeOK'
    BY NoCmdType DEF Base, TypeOK
<1>3. Socks' = Socks
    BY DEF Socks
<1>4. LineHasUser'
    BY <1>3 DEF Base, TypeOK, LineHasUser, NoCmd, Fd
<1> QED BY <1>2, <1>4 DEF Base

LEMMA TickForTypes ==
    ASSUME Base, NEW s \in Socks
    PROVE  TickFor(s) \in [Uid -> Seq(NumberPipe)]
<1>1. numberPipes \in [Uid -> Seq(NumberPipe)] /\ UidOf(s) \in Uid
    BY Sender DEF Base, TypeOK
<1>2. Tick(numberPipes[UidOf(s)]) \in Seq(NumberPipe)
    BY <1>1, TickTypes
<1> QED BY <1>1, <1>2 DEF TickFor

\* Whether it was alone on its line or behind programs, a built-in ends it.
LEMMA AnswersFacts ==
    ASSUME Base, NEW s, NEW l, Answers(s, l)
    PROVE  /\ s \in Socks /\ s \in Fd
           /\ batch' \subseteq batch /\ ~cmd.leaving /\ cmd' = NoCmd
           /\ numberPipes' \in [Uid -> Seq(NumberPipe)]
           /\ l \in LineKinds \cup Ending
<1>1. CASE Reads(s, l) /\ numberPipes' = TickFor(s) /\ UNCHANGED cmd
  <2>1. s \in batch /\ Serving(s) /\ l \in LineKinds
      BY <1>1, ServingReady, LinesAssumption DEF Reads
  <2>2. s \in Socks /\ s \in Fd /\ cmd = NoCmd /\ batch' = batch \ {s}
      BY <2>1, ServedIsUser
  <2> QED BY <1>1, <2>1, <2>2, TickForTypes DEF NoCmd
<1>2. CASE Started /\ s = cmd.sock /\ l = cmd.last /\ cmd' = NoCmd /\ UNCHANGED <<numberPipes, batch>>
  <2>1. cmd \in Command /\ cmd.last \in Ending
      BY DEF Base, TypeOK, Command
  <2>2. cmd.sock \in Socks /\ cmd.sock \in Fd
      BY <1>2, <2>1 DEF Base, LineHasUser, Started, Command
  <2> QED BY <1>2, <2>1, <2>2 DEF Base, TypeOK, Started
<1> QED BY <1>1, <1>2 DEF Answers

LEMMA ServeNothingBase == Base /\ ServeNothing => Base'
<1> SUFFICES ASSUME Base, NEW s \in batch, Serving(s), SendTo({s}, fds), UNCHANGED <<tables, cmd, ghosts>>
             PROVE  Base'
    BY DEF ServeNothing
<1>1. up' \in BOOLEAN /\ fds' \in [Fd -> Descriptor]
    BY SendToTypes DEF Base, TypeOK
<1>2. UidsIncreasing'
    BY DEF Base, UidsIncreasing, tables
<1>3. batch' \subseteq batch /\ cmd' = NoCmd
    BY ServedIsUser
<1> QED BY <1>1, <1>2, <1>3, AnsweredBase DEF Base, TypeOK, tables, ghosts, Socks

LEMMA BlankBase == Base /\ Blank => Base'
<1> SUFFICES ASSUME Base, NEW s \in batch, Serving(s), SendTo({s}, fds), UNCHANGED <<tables, cmd, ghosts>>
             PROVE  Base'
    BY DEF Blank, Reads
<1>1. up' \in BOOLEAN /\ fds' \in [Fd -> Descriptor]
    BY SendToTypes DEF Base, TypeOK
<1>2. UidsIncreasing'
    BY DEF Base, UidsIncreasing, tables
<1>3. batch' \subseteq batch /\ cmd' = NoCmd
    BY ServedIsUser
<1> QED BY <1>1, <1>2, <1>3, AnsweredBase DEF Base, TypeOK, tables, ghosts, Socks

\* who, printenv, yell and tell change no table but the counters.
LEMMA ChatBase ==
    ASSUME Base, batch' \subseteq batch, cmd' = NoCmd, NEW S, SendTo(S, fds),
           numberPipes' \in [Uid -> Seq(NumberPipe)],
           UNCHANGED <<userinfo, userPipes, env, blockList, ghosts>>
    PROVE  Base'
<1>1. up' \in BOOLEAN /\ fds' \in [Fd -> Descriptor]
    BY SendToTypes DEF Base, TypeOK
<1>2. UidsIncreasing'
    BY DEF Base, UidsIncreasing
<1> QED BY <1>1, <1>2, AnsweredBase DEF Base, TypeOK, ghosts, Socks

LEMMA AskYellTellBase == Base /\ (Ask \/ Yell \/ Tell) => Base'
<1> SUFFICES ASSUME Base, Ask \/ Yell \/ Tell PROVE Base'
    OBVIOUS
<1>1. CASE Ask
    BY <1>1, AnswersFacts, ChatBase DEF Ask
<1>2. ASSUME NEW s \in batch, NEW l \in Lines, Reads(s, l), NEW S, SendTo(S, fds),
             numberPipes' = TickFor(s), UNCHANGED <<userinfo, userPipes, env, blockList, cmd, ghosts>>
      PROVE  Base'
  <2>1. s \in Socks /\ batch' \subseteq batch /\ cmd' = NoCmd
      BY <1>2, ServedIsUser DEF Reads
  <2> QED BY <1>2, <2>1, TickForTypes, ChatBase
<1>3. CASE Yell
    BY <1>2, <1>3 DEF Yell
<1>4. CASE Tell
    BY <1>2, <1>4 DEF Tell
<1> QED BY <1>1, <1>3, <1>4

\* A nickname changes neither the sockets nor the uids of the table.
LEMMA NamedFacts ==
    ASSUME Base, NEW s \in Socks, NEW n \in NickNames
    PROVE  /\ Named(s, n) \in Seq(UserRecord)
           /\ DOMAIN Named(s, n) = DOMAIN userinfo
           /\ \A i \in DOMAIN userinfo :
                 /\ Named(s, n)[i].sockid = userinfo[i].sockid
                 /\ Named(s, n)[i].uid = userinfo[i].uid
                 /\ Named(s, n)[i].name = IF i = PosOf(s) /\ ~NameTaken(n) THEN n ELSE userinfo[i].name
<1>1. userinfo \in Seq(UserRecord)
    BY DEF Base, TypeOK
<1>2. PosOf(s) \in DOMAIN userinfo
    BY Sender
<1>3. CASE NameTaken(n)
    BY <1>1, <1>3 DEF Named
<1>4. CASE ~NameTaken(n)
  <2>1. Named(s, n) = [userinfo EXCEPT ![PosOf(s)] = [userinfo[PosOf(s)] EXCEPT !.name = n]]
      BY <1>4 DEF Named
  <2>2. userinfo[PosOf(s)] \in UserRecord
      BY <1>1, <1>2, ElementOfSeq, LenProperties
  <2>3. /\ [userinfo[PosOf(s)] EXCEPT !.name = n] \in UserRecord
        /\ [userinfo[PosOf(s)] EXCEPT !.name = n].sockid = userinfo[PosOf(s)].sockid
        /\ [userinfo[PosOf(s)] EXCEPT !.name = n].uid = userinfo[PosOf(s)].uid
        /\ [userinfo[PosOf(s)] EXCEPT !.name = n].name = n
      BY <2>2 DEF UserRecord
  <2>4. PosOf(s) \in 1..Len(userinfo)
      BY <1>1, <1>2, LenProperties
  <2>5. Named(s, n) \in Seq(UserRecord)
      BY <1>1, <2>1, <2>3, <2>4, ExceptSeq
  <2> QED BY <1>2, <1>4, <2>1, <2>3, <2>5
<1> QED BY <1>3, <1>4

LEMMA NameBase == Base /\ Name => Base'
<1> SUFFICES ASSUME Base, NEW s, NEW l, Answers(s, l), l.op = "name",
                    userinfo' = Named(s, l.name),
                    NEW S, SendTo(S, fds), UNCHANGED <<userPipes, env, blockList, ghosts>>
             PROVE  Base'
    BY DEF Name
<1>1. up' \in BOOLEAN /\ fds' \in [Fd -> Descriptor]
    BY SendToTypes DEF Base, TypeOK
<1>2. s \in Socks /\ batch' \subseteq batch /\ cmd' = NoCmd /\ numberPipes' \in [Uid -> Seq(NumberPipe)]
    BY AnswersFacts
<1>3. l.name \in NickNames
    BY AnswersFacts DEF LineKinds, Ending
<1>4. /\ userinfo' \in Seq(UserRecord)
      /\ DOMAIN userinfo' = DOMAIN userinfo
      /\ \A i \in DOMAIN userinfo : userinfo'[i].sockid = userinfo[i].sockid /\ userinfo'[i].uid = userinfo[i].uid
    BY <1>2, <1>3, NamedFacts
<1>5. SocksOf(userinfo') = Socks
    BY <1>4 DEF SocksOf, Socks
<1>6. UidsIncreasing'
  <2>1. userinfo \in Seq(UserRecord)
      BY DEF Base, TypeOK
  <2>2. Len(userinfo') = Len(userinfo)
      BY <1>4, <2>1, LenProperties
  <2> QED BY <1>4, <2>2 DEF Base, UidsIncreasing, Increasing
<1> QED BY <1>1, <1>2, <1>4, <1>5, <1>6, AnsweredBase DEF Base, TypeOK, ghosts

LEMMA SetEnvBase == Base /\ SetEnv => Base'
<1> SUFFICES ASSUME Base, NEW s, NEW l, Answers(s, l), l.op = "setenv",
                    env' = [env EXCEPT ![UidOf(s)] = @ \cup {l.var}],
                    SendTo({s}, fds), UNCHANGED <<userinfo, userPipes, blockList, ghosts>>
             PROVE  Base'
    BY DEF SetEnv
<1>1. up' \in BOOLEAN /\ fds' \in [Fd -> Descriptor]
    BY SendToTypes DEF Base, TypeOK
<1>2. s \in Socks /\ batch' \subseteq batch /\ cmd' = NoCmd /\ numberPipes' \in [Uid -> Seq(NumberPipe)]
    BY AnswersFacts
<1>3. l.var \in EnvVars
    BY AnswersFacts DEF LineKinds, Ending
<1>4. env' \in [Uid -> SUBSET EnvVars]
    BY <1>3 DEF Base, TypeOK
<1>5. UidsIncreasing'
    BY DEF Base, UidsIncreasing
<1> QED BY <1>1, <1>2, <1>4, <1>5, AnsweredBase DEF Base, TypeOK, ghosts, Socks

LEMMA SocksAreFds ==
    ASSUME Base
    PROVE  Socks \subseteq Fd /\ \A i \in DOMAIN userinfo : userinfo[i].sockid \in Fd /\ userinfo[i].uid \in Uid
<1>1. \A i \in DOMAIN userinfo : userinfo[i] \in UserRecord
    BY ElementOfSeq, LenProperties DEF Base, TypeOK
<1> QED BY <1>1 DEF Socks, SocksOf, UserRecord

LEMMA BlockBase == Base /\ Block => Base'
<1> SUFFICES ASSUME Base, NEW s, NEW l, Answers(s, l), l.uid \in UidsOf(userinfo),
                    blockList' = BlockBothWays(PosOf(s), IndexById(userinfo, l.uid)),
                    muted' = muted \cup {{s, userinfo[IndexById(userinfo, l.uid)].sockid}},
                    SendTo({s}, fds), UNCHANGED <<userinfo, userPipes, env, left, stolen>>
             PROVE  Base'
    BY DEF Block
<1>1. up' \in BOOLEAN /\ fds' \in [Fd -> Descriptor]
    BY SendToTypes DEF Base, TypeOK
<1>2. /\ s \in Socks /\ s \in Fd /\ batch' \subseteq batch /\ cmd' = NoCmd
      /\ numberPipes' \in [Uid -> Seq(NumberPipe)]
    BY AnswersFacts
<1>3. IndexById(userinfo, l.uid) \in DOMAIN userinfo
    BY IndexByIdFacts DEF Base, TypeOK
<1>4. userinfo[IndexById(userinfo, l.uid)].sockid \in Fd /\ userinfo[PosOf(s)].sockid \in Fd
    BY <1>2, <1>3, SocksAreFds, Sender
<1>5. blockList' \in [Uid -> SUBSET (Fd \cup {0})] /\ muted' \subseteq SUBSET Fd
    BY <1>2, <1>4 DEF Base, TypeOK, BlockBothWays
<1>6. UidsIncreasing'
    BY DEF Base, UidsIncreasing
<1> QED BY <1>1, <1>2, <1>5, <1>6, AnsweredBase DEF Base, TypeOK, Socks

LEMMA BlockNobodyBase == Base /\ BlockNobody => Base'
<1> SUFFICES ASSUME Base, NEW s, NEW l, Answers(s, l),
                    \/ /\ \E junk \in Fd \cup {0} :
                             blockList' = [blockList EXCEPT ![PosOf(s)] = @ \cup {junk}]
                       /\ SendTo({s}, fds)
                    \/ up' = FALSE /\ UNCHANGED <<fds, blockList>>,
                    UNCHANGED <<userinfo, userPipes, env, ghosts>>
             PROVE  Base'
    BY DEF BlockNobody
<1>1. up' \in BOOLEAN /\ fds' \in [Fd -> Descriptor]
  <2>1. CASE SendTo({s}, fds)
      BY <2>1, SendToTypes DEF Base, TypeOK
  <2>2. CASE up' = FALSE /\ UNCHANGED <<fds, blockList>>
      BY <2>2 DEF Base, TypeOK
  <2> QED BY <2>1, <2>2
<1>2. batch' \subseteq batch /\ cmd' = NoCmd /\ numberPipes' \in [Uid -> Seq(NumberPipe)]
    BY AnswersFacts
<1>3. blockList' \in [Uid -> SUBSET (Fd \cup {0})]
  <2>1. blockList \in [Uid -> SUBSET (Fd \cup {0})]
      BY DEF Base, TypeOK
  <2>2. CASE blockList' = blockList
      BY <2>1, <2>2
  <2>3. ASSUME NEW junk \in Fd \cup {0},
               blockList' = [blockList EXCEPT ![PosOf(s)] = @ \cup {junk}]
        PROVE  blockList' \in [Uid -> SUBSET (Fd \cup {0})]
      BY <2>1, <2>3
  <2> QED BY <2>2, <2>3
<1>4. UidsIncreasing'
    BY DEF Base, UidsIncreasing
<1> QED BY <1>1, <1>2, <1>3, <1>4, AnsweredBase DEF Base, TypeOK, ghosts, Socks

LEMMA RunBase == Base /\ Run => Base'
<1> SUFFICES ASSUME Base, NEW s \in batch, NEW l \in Lines, Reads(s, l), l.op = "run",
                    numberPipes' = TickFor(s),
                    NEW r \in ReadKind,
                    cmd' = [NoCmd EXCEPT !.sock = s, !.todo = l.stages, !.last = l.last, !.read = r],
                    UNCHANGED <<up, fds, userinfo, userPipes, env, blockList, ghosts>>
             PROVE  Base'
    BY DEF Run, ReadKind
<1>1. Serving(s) /\ s \in Socks /\ s \in Fd /\ cmd = NoCmd /\ batch' = batch \ {s}
    BY ServedIsUser DEF Reads
<1>2. l.stages \in Seq(Stage) /\ l.last \in Ending
    BY LinesAssumption DEF LineKinds
<1>3. cmd' \in Command /\ cmd'.sock = s /\ cmd'.leaving = FALSE
    BY <1>1, <1>2 DEF NoCmd, Command
<1>4. numberPipes' \in [Uid -> Seq(NumberPipe)]
    BY <1>1, TickForTypes
<1>5. TypeOK'
    BY <1>1, <1>3, <1>4 DEF Base, TypeOK, ghosts
<1>6. LineHasUser'
    BY <1>1, <1>3 DEF Base, LineHasUser, Socks, Fd
<1>7. UidsIncreasing'
    BY DEF Base, UidsIncreasing
<1> QED BY <1>5, <1>6, <1>7 DEF Base

LEMMA ExitBase == Base /\ Exit => Base'
<1> SUFFICES ASSUME Base, NEW s \in batch, NEW l \in Lines, Reads(s, l),
                    numberPipes' = Forget(UidOf(s)),
                    cmd' = [NoCmd EXCEPT !.sock = s, !.leaving = TRUE],
                    UNCHANGED <<up, fds, userinfo, userPipes, env, blockList, ghosts>>
             PROVE  Base'
    BY DEF Exit
<1>1. Serving(s) /\ s \in Socks /\ s \in Fd /\ cmd = NoCmd /\ batch' = batch \ {s}
    BY ServedIsUser DEF Reads
<1>2. cmd' \in Command /\ cmd'.sock = s /\ cmd'.todo = << >>
    BY <1>1, NoCmdType DEF NoCmd, Command
<1>3. UidOf(s) \in Uid
    BY <1>1, Sender
<1>4. numberPipes' \in [Uid -> Seq(NumberPipe)] /\ numberPipes'[UidOf(s)] = << >>
    BY <1>3 DEF Base, TypeOK, Forget
<1>5. TypeOK'
    BY <1>1, <1>2, <1>4 DEF Base, TypeOK, ghosts
<1>6. Me' = UidOf(s)
    BY <1>2 DEF Me, UidOf, PosOf
<1>7. LineHasUser'
    BY <1>1, <1>2, <1>4, <1>6 DEF Base, LineHasUser, Socks, Fd
<1>8. UidsIncreasing'
    BY DEF Base, UidsIncreasing
<1> QED BY <1>5, <1>7, <1>8 DEF Base

LEMMA DieBase == Base /\ Die => Base'
<1> SUFFICES ASSUME Base, Die PROVE Base'
    OBVIOUS
<1>1. TypeOK'
    BY DEF Base, TypeOK, Die, tables, ghosts
<1>2. Socks' = Socks /\ Me' = Me
    BY DEF Socks, Me, Die, tables
<1>3. LineHasUser'
    BY <1>2 DEF Base, LineHasUser, Die, tables
<1>4. UidsIncreasing'
    BY DEF Base, UidsIncreasing, Die, tables
<1> QED BY <1>1, <1>3, <1>4 DEF Base

LEMMA HangUpSelectBase == Base /\ (HangUp \/ Select) => Base'
<1> SUFFICES ASSUME Base, HangUp \/ Select PROVE Base'
    OBVIOUS
<1>1. UNCHANGED <<up, userinfo, numberPipes, userPipes, env, blockList, cmd, ghosts>>
    BY DEF HangUp, Select, tables
<1>2. fds' \in [Fd -> Descriptor]
    BY DEF HangUp, Select, Base, TypeOK, Descriptor, Connected
<1>3. Socks' = Socks /\ Me' = Me
    BY <1>1 DEF Socks, Me
<1>4. batch' = batch \/ (batch' \subseteq Socks /\ cmd = NoCmd)
    BY DEF HangUp, Select, Waiting, Idle
<1>5. batch' \subseteq Socks /\ batch' \subseteq Fd
    BY <1>4, SocksAreFds DEF Base, LineHasUser
<1>6. cmd'.sock \notin batch'
    BY <1>1, <1>4, <1>5 DEF Base, LineHasUser, NoCmd, Fd
<1>7. TypeOK'
    BY <1>1, <1>2, <1>5 DEF Base, TypeOK, ghosts
<1>8. LineHasUser'
    BY <1>1, <1>3, <1>5, <1>6 DEF Base, LineHasUser
<1>9. UidsIncreasing'
    BY <1>1 DEF Base, UidsIncreasing
<1> QED BY <1>7, <1>8, <1>9 DEF Base

LEMMA EndLineBase == Base /\ EndLine => Base'
<1> SUFFICES ASSUME Base, EndLine PROVE Base'
    OBVIOUS
<1>1. up' \in BOOLEAN /\ fds' \in [Fd -> Descriptor]
    BY SendToTypes DEF Base, TypeOK, EndLine
<1>2. UNCHANGED <<userinfo, numberPipes, userPipes, env, blockList, batch, ghosts>> /\ cmd' = NoCmd
    BY DEF EndLine, tables
<1>3. TypeOK'
    BY <1>1, <1>2, NoCmdType DEF Base, TypeOK, ghosts
<1>4. Socks' = Socks
    BY <1>2 DEF Socks
<1>5. LineHasUser'
    BY <1>2, <1>4 DEF Base, TypeOK, LineHasUser, NoCmd, Fd
<1>6. UidsIncreasing'
    BY <1>2 DEF Base, UidsIncreasing
<1> QED BY <1>3, <1>5, <1>6 DEF Base

LEMMA AcceptBase == Base /\ Accept => Base'
<1> SUFFICES ASSUME Base, Accept PROVE Base'
    OBVIOUS
<1> DEFINE s == Lowest(FreeFds(fds))
           u == [sockid |-> s, uid |-> 1, name |-> NoName]
<1>1. /\ userinfo' = Enter(userinfo, u)
      /\ SendTo(SocksOf(userinfo') \cup {s}, [fds EXCEPT ![s] = "live"])
      /\ batch = {} /\ cmd = NoCmd
      /\ UNCHANGED <<numberPipes, userPipes, env, blockList, batch, cmd, ghosts>>
    BY DEF Accept, Waiting, Idle
<1>2. s \in Fd
  <2>1. FreeFds(fds) \in SUBSET Nat /\ FreeFds(fds) # {}
      BY DEF Accept, FreeFds, Fd
  <2>2. s \in FreeFds(fds)
      BY <2>1, LowestFacts
  <2> QED BY <2>2 DEF FreeFds
<1>3. up' \in BOOLEAN /\ fds' \in [Fd -> Descriptor]
  <2>1. [fds EXCEPT ![s] = "live"] \in [Fd -> Descriptor]
      BY DEF Base, TypeOK, Descriptor, Connected
  <2> QED BY <1>1, <2>1, SendToTypes
<1>4. /\ userinfo \in Seq(UserRecord) /\ Increasing(userinfo) /\ Len(userinfo) <= MaxUsers
      /\ \A i \in DOMAIN userinfo : userinfo[i].uid \in Uid
    BY SocksAreFds DEF Base, TypeOK, UidsIncreasing
<1>5. /\ u \in UserRecord
      /\ \A k \in Uid : [u EXCEPT !.uid = k] \in UserRecord /\ [u EXCEPT !.uid = k].uid = k
    BY <1>2, MaxUsersAssumption DEF UserRecord, Uid
<1>6. userinfo' \in Seq(UserRecord) /\ Increasing(userinfo') /\ Len(userinfo') <= MaxUsers
    BY <1>1, <1>4, <1>5, EnterCorrect
<1>7. TypeOK'
    BY <1>1, <1>3, <1>6 DEF Base, TypeOK, ghosts
<1>8. LineHasUser'
    BY <1>1 DEF LineHasUser, NoCmd
<1>9. UidsIncreasing'
    BY <1>6 DEF UidsIncreasing
<1> QED BY <1>7, <1>8, <1>9 DEF Base

LEMMA CloseTypes ==
    ASSUME NEW t \in [Fd -> Descriptor], NEW S
    PROVE  Close(t, S) \in [Fd -> Descriptor]
BY DEF Close, Descriptor

LEMMA DropPipeBase == Base /\ DropPipe => Base'
<1> SUFFICES ASSUME Base, DropPipe PROVE Base'
    OBVIOUS
<1>1. /\ fds' = Close(fds, Ends(userPipes[Lowest(Held)]))
      /\ userPipes' = RemoveAt(userPipes, Lowest(Held))
      /\ UNCHANGED <<up, userinfo, numberPipes, env, blockList, batch, cmd, ghosts>>
    BY DEF DropPipe
<1>2. fds' \in [Fd -> Descriptor]
    BY <1>1, CloseTypes DEF Base, TypeOK
<1>3. userPipes' \in Seq(UserPipe)
  <2>1. userPipes \in Seq(UserPipe) /\ Held # {}
      BY DEF Base, TypeOK, DropPipe
  <2>2. Held \in SUBSET Nat /\ Held \subseteq 1..Len(userPipes)
      BY <2>1, LenProperties DEF Held
  <2>3. Lowest(Held) \in 1..Len(userPipes)
      BY <2>1, <2>2, LowestFacts
  <2> QED BY <1>1, <2>1, <2>3, RemoveAtFacts
<1>4. TypeOK'
    BY <1>1, <1>2, <1>3 DEF Base, TypeOK, ghosts
<1>5. Socks' = Socks /\ Me' = Me
    BY <1>1 DEF Socks, Me
<1>6. LineHasUser'
    BY <1>1, <1>5 DEF Base, LineHasUser
<1>7. UidsIncreasing'
    BY <1>1 DEF Base, UidsIncreasing
<1> QED BY <1>4, <1>6, <1>7 DEF Base

\* The table without the user that left: no other user is lost or changed.
LEMMA LeftTable ==
    ASSUME Base, cmd.sock # 0, NEW t, t = RemoveAt(userinfo, IndexBySock(userinfo, cmd.sock))
    PROVE  /\ t \in Seq(UserRecord) /\ Len(t) = Len(userinfo) - 1
           /\ Increasing(t)
           /\ Socks \ {cmd.sock} \subseteq SocksOf(t)
           /\ UidsOf(userinfo) \ {Me} \subseteq UidsOf(t)
           /\ \A i \in DOMAIN t : \E j \in DOMAIN userinfo : t[i] = userinfo[j]
<1> DEFINE k == IndexBySock(userinfo, cmd.sock)
<1>1. userinfo \in Seq(UserRecord) /\ Len(userinfo) \in Nat /\ DOMAIN userinfo = 1..Len(userinfo)
    BY LenProperties DEF Base, TypeOK
<1>2. k \in 1..Len(userinfo) /\ userinfo[k].sockid = cmd.sock /\ userinfo[k].uid = Me
    BY <1>1, MeIsUser DEF Me
<1> HIDE DEF k
<1>3. /\ t \in Seq(UserRecord)
      /\ Len(t) = Len(userinfo) - 1
      /\ \A i \in 1..(k - 1) : t[i] = userinfo[i]
      /\ \A i \in k..(Len(userinfo) - 1) : t[i] = userinfo[i + 1]
    BY <1>1, <1>2, RemoveAtFacts DEF k
<1>4. DOMAIN t = 1..(Len(userinfo) - 1)
    BY <1>3, LenProperties
<1>5. ASSUME NEW j \in DOMAIN userinfo, j # k
      PROVE  \E i \in DOMAIN t : t[i] = userinfo[j]
  <2>1. CASE j < k
    <3>1. j \in DOMAIN t /\ j \in 1..(k - 1)
        BY <1>1, <1>2, <1>4, <2>1
    <3> QED BY <3>1, <1>3
  <2>2. CASE j > k
    <3>1. j - 1 \in DOMAIN t /\ j - 1 \in k..(Len(userinfo) - 1) /\ (j - 1) + 1 = j
        BY <1>1, <1>2, <1>4, <2>2
    <3> QED BY <3>1, <1>3
  <2> QED BY <1>1, <1>2, <1>5, <2>1, <2>2
<1>6. Socks \ {cmd.sock} \subseteq SocksOf(t)
    BY <1>2, <1>5 DEF Socks, SocksOf
<1>7. UidsOf(userinfo) \ {Me} \subseteq UidsOf(t)
    BY <1>2, <1>5 DEF UidsOf
<1>8. Increasing(t)
  <2> SUFFICES ASSUME NEW i \in DOMAIN t, NEW j \in DOMAIN t, i < j
               PROVE  t[i].uid < t[j].uid
      BY DEF Increasing
  <2> DEFINE f(n) == IF n < k THEN n ELSE n + 1
  <2>1. f(i) \in DOMAIN userinfo /\ f(j) \in DOMAIN userinfo /\ f(i) < f(j)
      BY <1>1, <1>2, <1>4
  <2>2. t[i] = userinfo[f(i)] /\ t[j] = userinfo[f(j)]
      BY <1>1, <1>2, <1>3, <1>4
  <2> HIDE DEF f
  <2> QED BY <2>1, <2>2 DEF Base, UidsIncreasing, Increasing
<1>9. ASSUME NEW i \in DOMAIN t PROVE \E j \in DOMAIN userinfo : t[i] = userinfo[j]
  <2>1. CASE i < k
      BY <1>1, <1>2, <1>3, <1>4, <2>1
  <2>2. CASE i >= k
    <3>1. i \in k..(Len(userinfo) - 1) /\ i + 1 \in DOMAIN userinfo
        BY <1>1, <1>2, <1>4, <2>2
    <3> QED BY <3>1, <1>3
  <2> QED BY <1>2, <1>4, <2>1, <2>2
<1> QED BY <1>3, <1>6, <1>7, <1>8, <1>9

LEMMA LeavingFacts == ASSUME Base, cmd.leaving PROVE cmd.sock # 0 /\ cmd.sock \in Fd
BY SocksAreFds DEF Base, LineHasUser, NoCmd

LEMMA LeaveBase == Base /\ Leave => Base'
<1> SUFFICES ASSUME Base, Leave PROVE Base'
    OBVIOUS
<1>1. /\ cmd.leaving
      /\ env' = ClearEnv(Me)
      /\ userinfo' = RemoveAt(userinfo, IndexBySock(userinfo, cmd.sock))
      /\ SendTo(SocksOf(userinfo'), Close(fds, {cmd.sock}))
      /\ cmd' = NoCmd
      /\ muted' = {p \in muted : cmd.sock \notin p}
      /\ left' = TRUE
      /\ UNCHANGED <<numberPipes, userPipes, blockList, batch, stolen>>
    BY DEF Leave
<1>2. cmd.sock # 0
    BY <1>1, LeavingFacts
<1>3. /\ userinfo' \in Seq(UserRecord) /\ Len(userinfo') = Len(userinfo) - 1
      /\ Increasing(userinfo')
      /\ Socks \ {cmd.sock} \subseteq SocksOf(userinfo')
    BY <1>1, <1>2, LeftTable
<1>4. up' \in BOOLEAN /\ fds' \in [Fd -> Descriptor]
    BY <1>1, CloseTypes, SendToTypes DEF Base, TypeOK
<1>5. env' \in [Uid -> SUBSET EnvVars]
    BY <1>1 DEF Base, TypeOK, ClearEnv
<1>6. TypeOK'
    BY <1>1, <1>3, <1>4, <1>5, NoCmdType DEF Base, TypeOK
<1>7. LineHasUser'
    BY <1>1, <1>3 DEF Base, TypeOK, LineHasUser, NoCmd, Socks, Fd
<1>8. UidsIncreasing'
  <2>1. Len(userinfo) \in Nat
      BY LenProperties DEF Base, TypeOK
  <2> QED BY <1>3, <2>1, MaxUsersAssumption DEF Base, UidsIncreasing
<1> QED BY <1>6, <1>7, <1>8 DEF Base

-----------------------------------------------------------------------------
(* A stage of a line *)

\* What RunStage starts from.
LEMMA StageFacts ==
    ASSUME Base, RunStage
    PROVE  /\ Head(cmd.todo) \in Stage /\ Tail(cmd.todo) \in Seq(Stage)
           /\ NeedsPipe(Head(cmd.todo)) => CanPipe(fds)
           /\ cmd.sock # 0 /\ ~cmd.leaving
           /\ Me \in Uid /\ Me \in UidsOf(userinfo)
<1>1. cmd.todo \in Seq(Stage) /\ cmd.todo # << >>
    BY DEF Base, TypeOK, Command, RunStage
<1>2. Head(cmd.todo) \in Stage /\ Tail(cmd.todo) \in Seq(Stage)
    BY <1>1, HeadTailProperties
<1>3. NeedsPipe(Head(cmd.todo)) => CanPipe(fds)
    BY DEF RunStage
<1>4. cmd.sock # 0 /\ ~cmd.leaving
    BY <1>1 DEF Base, LineHasUser, NoCmd
<1> QED BY <1>2, <1>3, <1>4, MeIsUser

\* The number pipes of the user once the output of the stage is open.
LEMMA NumberOpenedFacts ==
    ASSUME Base, Me \in Uid, NEW st \in Stage, NeedsPipe(st) => CanPipe(fds)
    PROVE  /\ NumberOpened(st) \in Seq(NumberPipe)
           /\ \/ NumberOpened(st) = numberPipes[Me]
              \/ \E p \in NumberPipe :
                    /\ NumberOpened(st) = <<p>> \o numberPipes[Me]
                    /\ p.counter = st.arg /\ SameCounter(st.arg) = {}
<1>1. numberPipes[Me] \in Seq(NumberPipe)
    BY DEF Base, TypeOK
<1>2. CASE ~(Made(st) /\ st.write = "number")
    BY <1>1, <1>2 DEF NumberOpened
<1>3. CASE Made(st) /\ st.write = "number"
  <2> DEFINE p == [counter |-> st.arg, rd |-> ReadEnd(fds), wr |-> WriteEnd(fds)]
  <2>1. CanPipe(fds) /\ SameCounter(st.arg) = {}
      BY <1>3 DEF Made, NeedsPipe
  <2>2. p \in NumberPipe
      BY <2>1, PipeEnds DEF NumberPipe, Stage, Base, TypeOK
  <2>3. NumberOpened(st) = <<p>> \o numberPipes[Me]
      BY <1>3 DEF NumberOpened
  <2>4. p.counter = st.arg
      OBVIOUS
  <2> HIDE DEF p
  <2>5. <<p>> \o numberPipes[Me] \in Seq(NumberPipe)
      BY <1>1, <2>2, ConcatProperties
  <2> QED BY <2>1, <2>2, <2>3, <2>4, <2>5
<1> QED BY <1>2, <1>3

LEMMA NumberAfterType ==
    ASSUME Base, Me \in Uid, NEW st \in Stage, NeedsPipe(st) => CanPipe(fds)
    PROVE  NumberLeft(st) \in Seq(NumberPipe) /\ NumberAfter(st) \in Seq(NumberPipe)
<1>1. NumberOpened(st) \in Seq(NumberPipe)
    BY NumberOpenedFacts
<1>2. Due(NumberOpened(st)) \in SUBSET DOMAIN NumberOpened(st)
    BY DEF Due
<1>3. NumberLeft(st) \in Seq(NumberPipe)
    BY <1>1, <1>2, WithoutTypes DEF NumberLeft
<1>4. Tick(NumberLeft(st)) \in Seq(NumberPipe)
    BY <1>3, TickTypes
<1> QED BY <1>3, <1>4 DEF NumberAfter

\* The user pipes once the output of the stage is open.
LEMMA UserOpenedFacts ==
    ASSUME Base, Me \in Uid, NEW st \in Stage, NeedsPipe(st) => CanPipe(fds)
    PROVE  /\ UserOpened(st) \in Seq(UserPipe)
           /\ \/ UserOpened(st) = userPipes
              \/ \E p \in UserPipe :
                    /\ UserOpened(st) = Append(userPipes, p)
                    /\ p.from = Me /\ p.to = st.arg /\ ~WriteFails(st.arg)
<1>1. userPipes \in Seq(UserPipe)
    BY DEF Base, TypeOK
<1>2. CASE ~(Made(st) /\ st.write = "user")
    BY <1>1, <1>2 DEF UserOpened
<1>3. CASE Made(st) /\ st.write = "user"
  <2> DEFINE p == [from |-> Me, to |-> st.arg, rd |-> ReadEnd(fds), wr |-> WriteEnd(fds)]
  <2>1. CanPipe(fds) /\ ~WriteFails(st.arg)
      BY <1>3 DEF Made, NeedsPipe
  <2>2. st.arg \in UidsOf(userinfo)
      BY <2>1 DEF WriteFails
  <2>3. st.arg \in Uid
      BY <2>2, SocksAreFds DEF UidsOf
  <2>4. p \in UserPipe
      BY <2>1, <2>3, PipeEnds DEF UserPipe, Base, TypeOK
  <2>5. UserOpened(st) = Append(userPipes, p)
      BY <1>3 DEF UserOpened
  <2>6. p.from = Me /\ p.to = st.arg
      OBVIOUS
  <2> HIDE DEF p
  <2>7. Append(userPipes, p) \in Seq(UserPipe)
      BY <1>1, <2>4, AppendProperties
  <2> QED BY <2>1, <2>4, <2>5, <2>6, <2>7
<1> QED BY <1>2, <1>3

LEMMA UserAfterType ==
    ASSUME Base, Me \in Uid, NEW st \in Stage, NeedsPipe(st) => CanPipe(fds)
    PROVE  UserAfter(st) \in Seq(UserPipe)
<1>1. UserOpened(st) \in Seq(UserPipe)
    BY UserOpenedFacts
<1>2. PipeTo(UserOpened(st), st.read, Me) \in SUBSET DOMAIN UserOpened(st)
    BY DEF PipeTo
<1>3. Without(UserOpened(st), PipeTo(UserOpened(st), st.read, Me)) \in Seq(UserPipe)
    BY <1>1, <1>2, WithoutTypes
<1> QED BY <1>1, <1>3 DEF UserAfter

LEMMA RunStageBase == Base /\ RunStage => Base'
<1> SUFFICES ASSUME Base, RunStage PROVE Base'
    OBVIOUS
<1> DEFINE st == Head(cmd.todo)
<1>1. /\ numberPipes' = [numberPipes EXCEPT ![Me] = NumberAfter(st)]
      /\ userPipes' = UserAfter(st)
      /\ SendTo(Audience(st), Close(FdsOpened(st), Consumed(st)))
      /\ cmd' = [cmd EXCEPT !.todo = Tail(@), !.read = NextRead(st),
                   !.pipe = IF st.write = "normal" THEN <<ReadEnd(fds), WriteEnd(fds)>> ELSE << >>]
      /\ stolen' = (stolen \/ (Source(st) = "user" /\ userPipes[Lowest(From(st.read))].to # Me))
      /\ UNCHANGED <<userinfo, env, blockList, batch, muted, left>>
    BY DEF RunStage
<1>2. /\ st \in Stage /\ Tail(cmd.todo) \in Seq(Stage) /\ (NeedsPipe(st) => CanPipe(fds))
      /\ cmd.sock # 0 /\ ~cmd.leaving /\ Me \in Uid
    BY StageFacts
<1>3. fds \in [Fd -> Descriptor]
    BY DEF Base, TypeOK
<1> HIDE DEF st
<1>4. numberPipes' \in [Uid -> Seq(NumberPipe)]
  <2>1. NumberAfter(st) \in Seq(NumberPipe)
      BY <1>2, NumberAfterType
  <2> QED BY <1>1, <2>1 DEF Base, TypeOK
<1>5. userPipes' \in Seq(UserPipe)
  <2>1. UserAfter(st) \in Seq(UserPipe)
      BY <1>2, UserAfterType
  <2> QED BY <1>1, <2>1
<1>6. FdsOpened(st) \in [Fd -> Descriptor]
    BY <1>3 DEF FdsOpened, OpenPipe, Descriptor
<1>7. up' \in BOOLEAN /\ fds' \in [Fd -> Descriptor]
    BY <1>1, <1>6, CloseTypes, SendToTypes
<1>8. NextRead(st) \in ReadKind
    BY DEF NextRead, ReadKind
<1>9. (IF st.write = "normal" THEN <<ReadEnd(fds), WriteEnd(fds)>> ELSE << >>) \in {<< >>} \cup (Fd \X Fd)
  <2>1. CASE st.write = "normal"
    <3>1. CanPipe(fds)
        BY <1>2, <2>1 DEF NeedsPipe
    <3>2. ReadEnd(fds) \in Fd /\ WriteEnd(fds) \in Fd
        BY <1>3, <3>1, PipeEnds
    <3> QED BY <2>1, <3>2
  <2>2. CASE st.write # "normal"
      BY <2>2
  <2> QED BY <2>1, <2>2
<1>10. cmd' \in Command /\ cmd'.sock = cmd.sock /\ cmd'.leaving = cmd.leaving
    BY <1>1, <1>2, <1>8, <1>9 DEF Base, TypeOK, Command
<1>11. stolen' \in BOOLEAN
  <2> DEFINE wrong == Source(st) = "user" /\ userPipes[Lowest(From(st.read))].to # Me
  <2>1. wrong \in BOOLEAN /\ stolen \in BOOLEAN
      BY DEF Base, TypeOK
  <2>2. stolen' = (stolen \/ wrong)
      BY <1>1
  <2> HIDE DEF wrong
  <2> QED BY <2>1, <2>2
<1>12. TypeOK'
    BY <1>1, <1>4, <1>5, <1>7, <1>10, <1>11 DEF Base, TypeOK
<1>13. Socks' = Socks
    BY <1>1 DEF Socks
<1>14. LineHasUser'
    BY <1>1, <1>2, <1>10, <1>13 DEF Base, LineHasUser
<1>15. UidsIncreasing'
    BY <1>1 DEF Base, UidsIncreasing
<1> QED BY <1>12, <1>14, <1>15 DEF Base

\* Base is inductive.
LEMMA NextBase == Base /\ [Next]_vars => Base'
<1> SUFFICES ASSUME Base, [Next]_vars PROVE Base'
    OBVIOUS
<1>1. CASE UNCHANGED vars
  <2>1. Socks' = Socks /\ Me' = Me
      BY <1>1 DEF Socks, Me, vars
  <2> QED BY <1>1, <2>1 DEF Base, TypeOK, LineHasUser, UidsIncreasing, vars
<1>2. CASE Next
  <2>1. CASE Accept
      BY <2>1, AcceptBase
  <2>2. CASE AcceptFails \/ PipeFails \/ LineCrashes
      BY <2>2, DieBase DEF AcceptFails, PipeFails, LineCrashes
  <2>3. CASE HangUp \/ Select
      BY <2>3, HangUpSelectBase
  <2>4. CASE ServeNothing
      BY <2>4, ServeNothingBase
  <2>5. CASE Blank
      BY <2>5, BlankBase
  <2>6. CASE Ask \/ Yell \/ Tell
      BY <2>6, AskYellTellBase
  <2>7. CASE Name
      BY <2>7, NameBase
  <2>8. CASE SetEnv
      BY <2>8, SetEnvBase
  <2>9. CASE Block
      BY <2>9, BlockBase
  <2>10. CASE BlockNobody
      BY <2>10, BlockNobodyBase
  <2>11. CASE Run
      BY <2>11, RunBase
  <2>12. CASE Exit
      BY <2>12, ExitBase
  <2>13. CASE RunStage
      BY <2>13, RunStageBase
  <2>14. CASE EndLine
      BY <2>14, EndLineBase
  <2>15. CASE DropPipe
      BY <2>15, DropPipeBase
  <2>16. CASE Leave
      BY <2>16, LeaveBase
  <2>17. CASE Spin \/ Down
      BY <2>17, <1>1 DEF Spin, Down
  <2> QED BY <1>2, <2>1, <2>2, <2>3, <2>4, <2>5, <2>6, <2>7, <2>8, <2>9, <2>10, <2>11,
             <2>12, <2>13, <2>14, <2>15, <2>16, <2>17 DEF Next, Work
<1> QED BY <1>1, <1>2

\* The tables of the server keep their types: every uid is in 1..MaxUsers, the
\* bound of the arrays indexed by it, every counter a number, every
\* descriptor one the process can have.
THEOREM TypeCorrect == Spec => []TypeOK
<1>1. Spec => []Base
    BY InitBase, NextBase, PTL DEF Spec
<1>2. Base => TypeOK
    BY DEF Base
<1> QED BY <1>1, <1>2, PTL

\* The user table is ordered by uid, without duplicates, and never longer than
\* the room: newConnection() finds a free uid whatever came before.
THEOREM TableOrdered == Spec => []UidsIncreasing
<1>1. Spec => []Base
    BY InitBase, NextBase, PTL DEF Spec
<1>2. Base => UidsIncreasing
    BY DEF Base
<1> QED BY <1>1, <1>2, PTL

\* The line in execution, the logout under way and the sockets still to be
\* served belong to users of the table: a handler finds its user.
THEOREM LinesHaveUsers == Spec => []LineHasUser
<1>1. Spec => []Base
    BY InitBase, NextBase, PTL DEF Spec
<1>2. Base => LineHasUser
    BY DEF Base
<1> QED BY <1>1, <1>2, PTL

-----------------------------------------------------------------------------
(* Sequences that lose an element *)

LEMMA WithoutKeeps ==
    ASSUME NEW T, NEW ps \in Seq(T), NEW S \in SUBSET DOMAIN ps
    PROVE  \E f \in [DOMAIN Without(ps, S) -> DOMAIN ps] :
               /\ \A i \in DOMAIN Without(ps, S) : Without(ps, S)[i] = ps[f[i]]
               /\ \A i, j \in DOMAIN Without(ps, S) : f[i] = f[j] => i = j
<1>1. CASE S = {}
  <2> DEFINE f == [i \in DOMAIN ps |-> i]
  <2>1. Without(ps, S) = ps
      BY <1>1 DEF Without
  <2>2. f \in [DOMAIN ps -> DOMAIN ps] /\ \A i \in DOMAIN ps : f[i] = i
      OBVIOUS
  <2> HIDE DEF f
  <2> QED BY <2>1, <2>2
<1>2. CASE S # {}
  <2>1. DOMAIN ps = 1..Len(ps)
      BY LenProperties
  <2>2. Lowest(S) \in 1..Len(ps) /\ Without(ps, S) = RemoveAt(ps, Lowest(S))
      BY <1>2, <2>1, WithoutTypes
  <2>3. PICK f \in [DOMAIN RemoveAt(ps, Lowest(S)) -> DOMAIN ps \ {Lowest(S)}] :
            /\ \A i \in DOMAIN RemoveAt(ps, Lowest(S)) : RemoveAt(ps, Lowest(S))[i] = ps[f[i]]
            /\ \A i, j \in DOMAIN RemoveAt(ps, Lowest(S)) : f[i] = f[j] => i = j
      BY <2>2, RemoveAtKeeps
  <2>4. f \in [DOMAIN Without(ps, S) -> DOMAIN ps]
      BY <2>2, <2>3
  <2> QED BY <2>2, <2>3, <2>4
<1> QED BY <1>1, <1>2

-----------------------------------------------------------------------------
(* What a step may change *)

LEMMA Frame ==
    ASSUME Base, [Next]_vars
    PROVE  /\ userinfo' = userinfo \/ Accept \/ Name \/ Leave
           /\ userPipes' = userPipes \/ RunStage \/ DropPipe
           /\ env' = env \/ SetEnv \/ Leave
<1>1. CASE Accept \/ AcceptFails \/ HangUp \/ Select \/ Spin \/ Down \/ UNCHANGED vars
    BY <1>1 DEF Accept, AcceptFails, Die, HangUp, Select, Spin, Down, vars, tables
<1>2. CASE ServeNothing \/ Blank \/ Ask \/ Yell \/ Tell \/ Name \/ SetEnv \/ Block \/ BlockNobody
    BY <1>2 DEF ServeNothing, Blank, Ask, Yell, Tell, Name, SetEnv, Block, BlockNobody, tables
<1>3. CASE Run \/ Exit \/ RunStage \/ PipeFails \/ EndLine \/ LineCrashes \/ DropPipe \/ Leave
    BY <1>3 DEF Run, Exit, RunStage, PipeFails, LineCrashes, Die, EndLine, DropPipe, Leave, tables
<1> QED BY <1>1, <1>2, <1>3 DEF Next, Work

\* A new user gets a descriptor that was free, the lowest free uid and no
\* nickname; the others stay in place or move up by one.
LEMMA AcceptInserts ==
    ASSUME Base, Accept
    PROVE  \E s \in Fd \ Socks :
              /\ s = Lowest(FreeFds(fds)) /\ fds[s] = "free"
              /\ SendTo(SocksOf(userinfo') \cup {s}, [fds EXCEPT ![s] = "live"])
              /\ \/ userinfo' = userinfo /\ Len(userinfo) = MaxUsers
                 \/ \E k \in Uid \ UidsOf(userinfo), e \in UserRecord :
                       /\ k \in 1..(Len(userinfo) + 1)
                       /\ e = [sockid |-> s, uid |-> k, name |-> NoName]
                       /\ userinfo' = InsertAt(userinfo, k, e)
                       /\ 1..(k - 1) \subseteq UidsOf(userinfo)
<1> DEFINE s == Lowest(FreeFds(fds))
           u == [sockid |-> s, uid |-> 1, name |-> NoName]
<1>1. userinfo' = Enter(userinfo, u) /\ SendTo(SocksOf(userinfo') \cup {s}, [fds EXCEPT ![s] = "live"])
    BY DEF Accept
<1>2. s \in Fd /\ fds[s] = "free"
  <2>1. FreeFds(fds) \in SUBSET Nat /\ FreeFds(fds) # {}
      BY DEF Accept, FreeFds, Fd
  <2>2. s \in FreeFds(fds)
      BY <2>1, LowestFacts
  <2> QED BY <2>2 DEF FreeFds
<1>3. s \notin Socks
    BY <1>2 DEF Accept, Waiting
<1>4. /\ userinfo \in Seq(UserRecord) /\ Increasing(userinfo) /\ Len(userinfo) <= MaxUsers
      /\ \A i \in DOMAIN userinfo : userinfo[i].uid \in Uid
    BY SocksAreFds DEF Base, TypeOK, UidsIncreasing
<1>5. /\ u \in UserRecord
      /\ \A k \in Uid : /\ [u EXCEPT !.uid = k] \in UserRecord /\ [u EXCEPT !.uid = k].uid = k
                        /\ [u EXCEPT !.uid = k] = [sockid |-> s, uid |-> k, name |-> NoName]
    BY <1>2, MaxUsersAssumption DEF UserRecord, Uid
<1> HIDE DEF u, s
<1>6. \/ Enter(userinfo, u) = userinfo /\ Len(userinfo) = MaxUsers
      \/ \E k \in Uid \ UidsOf(userinfo) :
            /\ k \in 1..(Len(userinfo) + 1)
            /\ Enter(userinfo, u) = InsertAt(userinfo, k, [u EXCEPT !.uid = k])
            /\ 1..(k - 1) \subseteq UidsOf(userinfo)
  <2>1. u \in UserRecord /\ \A k \in Uid : [u EXCEPT !.uid = k] \in UserRecord /\ [u EXCEPT !.uid = k].uid = k
      BY <1>5
  <2>2. u \in UserRecord
      BY <2>1
  <2> QED BY ONLY <1>4, <2>1, <2>2, EnterCorrect
<1>7. \/ userinfo' = userinfo /\ Len(userinfo) = MaxUsers
      \/ \E k \in Uid \ UidsOf(userinfo), e \in UserRecord :
            /\ k \in 1..(Len(userinfo) + 1)
            /\ e = [sockid |-> s, uid |-> k, name |-> NoName]
            /\ userinfo' = InsertAt(userinfo, k, e)
            /\ 1..(k - 1) \subseteq UidsOf(userinfo)
    BY <1>1, <1>5, <1>6
<1> QED BY <1>1, <1>2, <1>3, <1>7 DEF s

LEMMA AcceptFacts ==
    ASSUME Base, Accept
    PROVE  \/ userinfo' = userinfo
           \/ \E k \in 1..(Len(userinfo) + 1), e \in UserRecord :
                 userinfo' = InsertAt(userinfo, k, e) /\ e.name = NoName
<1>1. CASE userinfo' = userinfo
    BY <1>1
<1>2. CASE userinfo' # userinfo
  <2>1. PICK s \in Fd, k \in Uid, e \in UserRecord :
            /\ k \in 1..(Len(userinfo) + 1)
            /\ e = [sockid |-> s, uid |-> k, name |-> NoName]
            /\ userinfo' = InsertAt(userinfo, k, e)
      BY <1>2, AcceptInserts
  <2>2. e.name = NoName
      BY <2>1
  <2> QED BY <2>1, <2>2
<1> QED BY <1>1, <1>2

\* Nobody leaves when somebody comes.
LEMMA AcceptKeeps ==
    ASSUME Base, Accept
    PROVE  UidsOf(userinfo) \subseteq UidsOf(userinfo')
<1>1. CASE userinfo' = userinfo
    BY <1>1
<1>2. ASSUME NEW k \in 1..(Len(userinfo) + 1), NEW e \in UserRecord,
             userinfo' = InsertAt(userinfo, k, e)
      PROVE  UidsOf(userinfo) \subseteq UidsOf(userinfo')
  <2>1. userinfo \in Seq(UserRecord) /\ e \in UserRecord /\ k \in 1..(Len(userinfo) + 1)
      BY DEF Base, TypeOK
  <2>2. \A i \in DOMAIN userinfo : \E j \in DOMAIN InsertAt(userinfo, k, e) : InsertAt(userinfo, k, e)[j] = userinfo[i]
      BY ONLY <2>1, InsertKeepsAll
  <2> QED BY <1>2, <2>2 DEF UidsOf
<1> QED BY <1>1, <1>2, AcceptFacts

\* name changes nothing but one nickname, to one that nobody has.
LEMMA NameFacts ==
    ASSUME Base, Name
    PROVE  /\ DOMAIN userinfo' = DOMAIN userinfo
           /\ \A i \in DOMAIN userinfo :
                 userinfo'[i].uid = userinfo[i].uid /\ userinfo'[i].sockid = userinfo[i].sockid
           /\ \/ \A i \in DOMAIN userinfo : userinfo'[i].name = userinfo[i].name
              \/ \E k \in DOMAIN userinfo, n \in NickNames :
                    /\ ~NameTaken(n)
                    /\ \A i \in DOMAIN userinfo :
                          userinfo'[i].name = IF i = k THEN n ELSE userinfo[i].name
<1>1. PICK s \in Askers, l \in Asked : Answers(s, l) /\ l.op = "name" /\ userinfo' = Named(s, l.name)
    BY DEF Name
<1>2. s \in Socks /\ PosOf(s) \in DOMAIN userinfo
    BY <1>1, AnswersFacts, Sender
<1>3. l.name \in NickNames
    BY <1>1, AnswersFacts DEF LineKinds, Ending
<1> QED BY <1>1, <1>2, <1>3, NamedFacts

LEMMA NameKeeps ==
    ASSUME Base, Name
    PROVE  UidsOf(userinfo') = UidsOf(userinfo)
BY NameFacts DEF UidsOf

LEMMA RecordsHaveUids ==
    ASSUME NEW t \in Seq(UserRecord)
    PROVE  DOMAIN t \subseteq Nat /\ \A q \in DOMAIN t : t[q].uid \in Nat
<1>1. Len(t) \in Nat /\ DOMAIN t = 1..Len(t)
    BY LenProperties
<1>2. \A q \in 1..Len(t) : t[q] \in UserRecord
    BY ElementOfSeq
<1> QED BY <1>1, <1>2 DEF UserRecord, Uid

LEMMA LeaveKeeps ==
    ASSUME Base, Leave
    PROVE  /\ UidsOf(userinfo) \ {Me} \subseteq UidsOf(userinfo')
           /\ \A i \in DOMAIN userinfo' : \E j \in DOMAIN userinfo : userinfo'[i] = userinfo[j]
           /\ userinfo' \in Seq(UserRecord) /\ Increasing(userinfo')
BY LeavingFacts, LeftTable DEF Leave

-----------------------------------------------------------------------------
(* Nicknames *)

LEMMA NamesStep == Base /\ NamesDistinct /\ [Next]_vars => NamesDistinct'
<1> SUFFICES ASSUME Base, NamesDistinct, [Next]_vars,
                    NEW i \in DOMAIN userinfo', NEW j \in DOMAIN userinfo',
                    i # j, userinfo'[i].name = userinfo'[j].name
             PROVE  userinfo'[i].name = NoName
    BY DEF NamesDistinct
<1>0. userinfo \in Seq(UserRecord) /\ Len(userinfo) \in Nat /\ DOMAIN userinfo = 1..Len(userinfo)
    BY LenProperties DEF Base, TypeOK
<1>1. CASE userinfo' = userinfo
    BY <1>1 DEF NamesDistinct
<1>2. CASE Accept /\ userinfo' # userinfo
  <2>1. PICK k \in 1..(Len(userinfo) + 1), e \in UserRecord :
            userinfo' = InsertAt(userinfo, k, e) /\ e.name = NoName
      BY <1>2, AcceptFacts
  <2> DEFINE t == InsertAt(userinfo, k, e)
  <2>0. /\ DOMAIN t = 1..(Len(userinfo) + 1) /\ t[k] = e
        /\ \A m \in 1..(k - 1) : t[m] = userinfo[m]
        /\ \A m \in (k + 1)..(Len(userinfo) + 1) : t[m] = userinfo[m - 1]
      BY ONLY <1>0, e \in UserRecord, k \in 1..(Len(userinfo) + 1), InsertElements
  <2> HIDE DEF t
  <2>2. /\ userinfo'[k] = e
        /\ \A m \in 1..(k - 1) : userinfo'[m] = userinfo[m]
        /\ \A m \in (k + 1)..(Len(userinfo) + 1) : userinfo'[m] = userinfo[m - 1]
      BY <2>0, <2>1 DEF t
  <2>3. DOMAIN userinfo' = 1..(Len(userinfo) + 1)
      BY <2>0, <2>1 DEF t
  <2>4. CASE i = k \/ j = k
      BY <2>1, <2>2, <2>4
  <2>5. CASE i # k /\ j # k
    <3> DEFINE f(m) == IF m < k THEN m ELSE m - 1
    <3>1. f(i) \in DOMAIN userinfo /\ f(j) \in DOMAIN userinfo /\ f(i) # f(j)
        BY <1>0, <2>3, <2>5
    <3>2. userinfo'[i] = userinfo[f(i)] /\ userinfo'[j] = userinfo[f(j)]
      <4>1. \A m \in DOMAIN userinfo' : m < k => m \in 1..(k - 1)
          BY <1>0, <2>3
      <4>2. \A m \in DOMAIN userinfo' : ~(m < k) /\ m # k => m \in (k + 1)..(Len(userinfo) + 1)
          BY <1>0, <2>3
      <4> QED BY <2>2, <2>5, <4>1, <4>2
    <3> HIDE DEF f
    <3> QED BY <3>1, <3>2 DEF NamesDistinct
  <2> QED BY <2>4, <2>5
<1>3. CASE Name
  <2>1. CASE \A m \in DOMAIN userinfo : userinfo'[m].name = userinfo[m].name
      BY <1>3, <2>1, NameFacts DEF NamesDistinct
  <2>2. ASSUME NEW k \in DOMAIN userinfo, NEW n \in NickNames, ~NameTaken(n),
               \A m \in DOMAIN userinfo : userinfo'[m].name = IF m = k THEN n ELSE userinfo[m].name
        PROVE  userinfo'[i].name = NoName
    <3>1. \A m \in DOMAIN userinfo : userinfo[m].name # n
        BY <2>2 DEF NameTaken
    <3> QED BY <1>3, <2>2, <3>1, NameFacts DEF NamesDistinct
  <2> QED BY <1>3, <2>1, <2>2, NameFacts
<1>4. CASE Leave
  <2>1. PICK m \in DOMAIN userinfo : userinfo'[i] = userinfo[m]
      BY <1>4, LeaveKeeps
  <2>2. PICK n \in DOMAIN userinfo : userinfo'[j] = userinfo[n]
      BY <1>4, LeaveKeeps
  <2>3. userinfo'[i].uid # userinfo'[j].uid
    <3>1. userinfo' \in Seq(UserRecord) /\ Increasing(userinfo')
        BY <1>4, LeaveKeeps
    <3>2. DOMAIN userinfo' \subseteq Nat /\ \A q \in DOMAIN userinfo' : userinfo'[q].uid \in Nat
        BY <3>1, RecordsHaveUids
    <3>3. i < j \/ j < i
        BY <3>2
    <3> QED BY <3>1, <3>2, <3>3 DEF Increasing
  <2>4. m # n
      BY <2>1, <2>2, <2>3
  <2> QED BY <2>1, <2>2, <2>4 DEF NamesDistinct
<1> QED BY <1>1, <1>2, <1>3, <1>4, Frame

\* Whoever comes, goes and asks for which nickname, no two users have the same.
THEOREM NicknamesDistinct == Spec => []NamesDistinct
<1>1. Init => Base /\ NamesDistinct
    BY InitBase DEF Init, NamesDistinct
<1>2. Base /\ NamesDistinct /\ [Next]_vars => (Base /\ NamesDistinct)'
    BY NextBase, NamesStep
<1> QED BY <1>1, <1>2, PTL DEF Spec

-----------------------------------------------------------------------------
(* User pipes *)

\* Every entry of the list after a step was in it, or leads from the user of
\* the line to a user it had no pipe to.
LEMMA PipesFrame ==
    ASSUME Base, RunStage \/ DropPipe
    PROVE  \E L \in Seq(UserPipe) :
               /\ \/ L = userPipes
                  \/ \E p \in UserPipe : /\ L = Append(userPipes, p)
                                         /\ {p.from, p.to} \subseteq UidsOf(userinfo)
                                         /\ PipeTo(userPipes, p.from, p.to) = {}
               /\ \E S \in SUBSET DOMAIN L : userPipes' = Without(L, S)
               /\ userinfo' = userinfo
<1>1. userPipes \in Seq(UserPipe)
    BY DEF Base, TypeOK
<1>2. CASE RunStage
  <2> DEFINE st == Head(cmd.todo)
             L == UserOpened(st)
  <2>1. st \in Stage /\ (NeedsPipe(st) => CanPipe(fds)) /\ cmd.sock # 0
      BY <1>2, StageFacts
  <2>2. userPipes' = UserAfter(st) /\ userinfo' = userinfo
      BY <1>2 DEF RunStage
  <2>3. Me \in Uid /\ Me \in UidsOf(userinfo)
      BY <2>1, MeIsUser
  <2> HIDE DEF st
  <2>4. /\ L \in Seq(UserPipe)
        /\ \/ L = userPipes
           \/ \E p \in UserPipe :
                 L = Append(userPipes, p) /\ p.from = Me /\ p.to = st.arg /\ ~WriteFails(st.arg)
      BY <2>1, <2>3, UserOpenedFacts
  <2>5. ~WriteFails(st.arg) => st.arg \in UidsOf(userinfo) /\ PipeTo(userPipes, Me, st.arg) = {}
      BY DEF WriteFails
  <2>6. \E S \in SUBSET DOMAIN L : userPipes' = Without(L, S)
    <3>1. PipeTo(L, st.read, Me) \in SUBSET DOMAIN L /\ {} \in SUBSET DOMAIN L
        BY DEF PipeTo
    <3>2. userPipes' = Without(L, PipeTo(L, st.read, Me)) \/ userPipes' = Without(L, {})
        BY <2>2 DEF UserAfter, Without
    <3> QED BY <3>1, <3>2
  <2> HIDE DEF L
  <2>7. \/ L = userPipes
        \/ \E p \in UserPipe : /\ L = Append(userPipes, p)
                               /\ {p.from, p.to} \subseteq UidsOf(userinfo)
                               /\ PipeTo(userPipes, p.from, p.to) = {}
      BY <2>3, <2>4, <2>5
  <2> QED BY <2>2, <2>4, <2>6, <2>7
<1>3. CASE DropPipe
  <2>1. Held \in SUBSET DOMAIN userPipes /\ Held # {}
      BY <1>3 DEF DropPipe, Held
  <2>2. userPipes' = Without(userPipes, Held) /\ userinfo' = userinfo
      BY <1>3, <2>1 DEF DropPipe, Without
  <2> QED BY <1>1, <2>1, <2>2
<1> QED BY <1>2, <1>3

LEMMA PipesBetweenStep == Base /\ PipesBetweenUsers /\ [Next]_vars => PipesBetweenUsers'
<1> SUFFICES ASSUME Base, PipesBetweenUsers, [Next]_vars, NEW i \in DOMAIN userPipes'
             PROVE  {userPipes'[i].from, userPipes'[i].to} \subseteq UidsOf(userinfo')
    BY DEF PipesBetweenUsers
<1>1. CASE RunStage \/ DropPipe
  <2>1. PICK L \in Seq(UserPipe) :
            /\ \/ L = userPipes
               \/ \E p \in UserPipe : /\ L = Append(userPipes, p)
                                      /\ {p.from, p.to} \subseteq UidsOf(userinfo)
            /\ \E S \in SUBSET DOMAIN L : userPipes' = Without(L, S)
            /\ userinfo' = userinfo
      BY <1>1, PipesFrame
  <2>2. \A m \in DOMAIN L : {L[m].from, L[m].to} \subseteq UidsOf(userinfo)
    <3>1. CASE L = userPipes
        BY <3>1 DEF PipesBetweenUsers
    <3>2. ASSUME NEW p \in UserPipe, L = Append(userPipes, p), {p.from, p.to} \subseteq UidsOf(userinfo)
          PROVE  \A m \in DOMAIN L : {L[m].from, L[m].to} \subseteq UidsOf(userinfo)
      <4>1. userPipes \in Seq(UserPipe)
          BY DEF Base, TypeOK
      <4>2. /\ DOMAIN L = DOMAIN userPipes \cup {Len(userPipes) + 1}
            /\ \A m \in DOMAIN userPipes : L[m] = userPipes[m]
            /\ L[Len(userPipes) + 1] = p
          BY <3>2, <4>1, AppendElements
      <4> QED BY <3>2, <4>2 DEF PipesBetweenUsers
    <3> QED BY <2>1, <3>1, <3>2
  <2>3. PICK S \in SUBSET DOMAIN L : userPipes' = Without(L, S)
      BY <2>1
  <2>4. \E m \in DOMAIN L : userPipes'[i] = L[m]
    <3>1. PICK f \in [DOMAIN Without(L, S) -> DOMAIN L] :
              \A m \in DOMAIN Without(L, S) : Without(L, S)[m] = L[f[m]]
        BY WithoutKeeps
    <3>2. i \in DOMAIN Without(L, S)
        BY <2>3
    <3> QED BY <2>3, <3>1, <3>2
  <2> QED BY <2>1, <2>2, <2>4
<1>2. CASE userPipes' = userPipes
  <2>1. {userPipes[i].from, userPipes[i].to} \subseteq UidsOf(userinfo)
      BY <1>2 DEF PipesBetweenUsers
  <2>2. CASE userinfo' = userinfo
      BY <1>2, <2>1, <2>2
  <2>3. CASE Accept
      BY <1>2, <2>1, <2>3, AcceptKeeps
  <2>4. CASE Name
      BY <1>2, <2>1, <2>4, NameKeeps
  <2>5. CASE Leave
    <3>1. Me \notin {userPipes[i].from, userPipes[i].to}
        BY <1>2, <2>5 DEF Leave, Held
    <3> QED BY <1>2, <2>1, <2>5, <3>1, LeaveKeeps
  <2> QED BY <2>2, <2>3, <2>4, <2>5, Frame
<1> QED BY <1>1, <1>2, Frame

\* A logout leaves no pipe behind, so none waits for whoever gets the uid.
THEOREM PipesHaveUsers == Spec => []PipesBetweenUsers
<1>1. Init => Base /\ PipesBetweenUsers
    BY InitBase DEF Init, PipesBetweenUsers
<1>2. Base /\ PipesBetweenUsers /\ [Next]_vars => (Base /\ PipesBetweenUsers)'
    BY NextBase, PipesBetweenStep
<1> QED BY <1>1, <1>2, PTL DEF Spec

LEMMA PipePairsStep == Base /\ PipePairsDistinct /\ [Next]_vars => PipePairsDistinct'
<1> SUFFICES ASSUME Base, PipePairsDistinct, [Next]_vars,
                    NEW i \in DOMAIN userPipes', NEW j \in DOMAIN userPipes',
                    userPipes'[i].from = userPipes'[j].from, userPipes'[i].to = userPipes'[j].to
             PROVE  i = j
    BY DEF PipePairsDistinct
<1>1. CASE RunStage \/ DropPipe
  <2>1. PICK L \in Seq(UserPipe) :
            /\ \/ L = userPipes
               \/ \E p \in UserPipe : L = Append(userPipes, p) /\ PipeTo(userPipes, p.from, p.to) = {}
            /\ \E S \in SUBSET DOMAIN L : userPipes' = Without(L, S)
      BY <1>1, PipesFrame
  <2>2. ASSUME NEW m \in DOMAIN L, NEW n \in DOMAIN L, L[m].from = L[n].from, L[m].to = L[n].to
        PROVE  m = n
    <3>1. CASE L = userPipes
        BY <2>2, <3>1 DEF PipePairsDistinct
    <3>2. ASSUME NEW p \in UserPipe, L = Append(userPipes, p), PipeTo(userPipes, p.from, p.to) = {}
          PROVE  m = n
      <4>1. userPipes \in Seq(UserPipe)
          BY DEF Base, TypeOK
      <4>2. /\ DOMAIN L = DOMAIN userPipes \cup {Len(userPipes) + 1}
            /\ \A q \in DOMAIN userPipes : L[q] = userPipes[q]
            /\ L[Len(userPipes) + 1] = p
          BY <3>2, <4>1, AppendElements
      <4>3. \A q \in DOMAIN userPipes : ~(userPipes[q].from = p.from /\ userPipes[q].to = p.to)
          BY <3>2 DEF PipeTo
      <4> QED BY <2>2, <4>2, <4>3 DEF PipePairsDistinct
    <3> QED BY <2>1, <3>1, <3>2
  <2>3. PICK S \in SUBSET DOMAIN L : userPipes' = Without(L, S)
      BY <2>1
  <2>4. PICK f \in [DOMAIN Without(L, S) -> DOMAIN L] :
            /\ \A m \in DOMAIN Without(L, S) : Without(L, S)[m] = L[f[m]]
            /\ \A m, n \in DOMAIN Without(L, S) : f[m] = f[n] => m = n
      BY WithoutKeeps
  <2>5. /\ i \in DOMAIN Without(L, S) /\ j \in DOMAIN Without(L, S)
        /\ userPipes'[i] = L[f[i]] /\ userPipes'[j] = L[f[j]]
        /\ f[i] \in DOMAIN L /\ f[j] \in DOMAIN L
      BY <2>3, <2>4
  <2>6. f[i] = f[j]
      BY <2>2, <2>5
  <2> QED BY <2>4, <2>5, <2>6
<1>2. CASE userPipes' = userPipes
    BY <1>2 DEF PipePairsDistinct
<1> QED BY <1>1, <1>2, Frame

\* At most one pipe leads from a user to a user, however long lines are.
THEOREM PipePairsUnique == Spec => []PipePairsDistinct
<1>1. Init => Base /\ PipePairsDistinct
    BY InitBase DEF Init, PipePairsDistinct
<1>2. Base /\ PipePairsDistinct /\ [Next]_vars => (Base /\ PipePairsDistinct)'
    BY NextBase, PipePairsStep
<1> QED BY <1>1, <1>2, PTL DEF Spec

-----------------------------------------------------------------------------
(* Number pipes and variables *)

\* The number pipes change by a line that counts them down, by "exit" and by
\* the programs of a line, and always for a user of the table.
LEMMA NumberFrame ==
    ASSUME Base, [Next]_vars
    PROVE  \/ numberPipes' = numberPipes
           \/ \E s \in Socks : numberPipes' = TickFor(s)
           \/ \E s \in Socks : numberPipes' = Forget(UidOf(s))
           \/ RunStage
<1>1. CASE Accept \/ AcceptFails \/ HangUp \/ Select \/ Spin \/ Down \/ UNCHANGED vars
    BY <1>1 DEF Accept, AcceptFails, Die, HangUp, Select, Spin, Down, vars, tables
<1>2. CASE ServeNothing \/ Blank \/ PipeFails \/ EndLine \/ LineCrashes \/ DropPipe \/ Leave
    BY <1>2 DEF ServeNothing, Blank, PipeFails, LineCrashes, Die, EndLine, DropPipe, Leave, tables
<1>3. CASE Yell \/ Tell \/ Run
    BY <1>3, ServedIsUser DEF Yell, Tell, Run, Reads
<1>4. ASSUME NEW s, NEW l, Answers(s, l)
      PROVE  numberPipes' = numberPipes \/ (s \in Socks /\ numberPipes' = TickFor(s))
    BY <1>4, AnswersFacts DEF Answers
<1>5. CASE Ask \/ Name \/ SetEnv \/ Block \/ BlockNobody
    BY <1>4, <1>5 DEF Ask, Name, SetEnv, Block, BlockNobody
<1>6. CASE Exit
    BY <1>6, ServedIsUser DEF Exit, Reads
<1>7. CASE RunStage
    BY <1>7
<1> QED BY <1>1, <1>2, <1>3, <1>4, <1>5, <1>6, <1>7 DEF Next, Work

\* Nobody but the user that leaves loses the uid.
LEMMA UidsFrame ==
    ASSUME Base, [Next]_vars
    PROVE  \/ UidsOf(userinfo) \subseteq UidsOf(userinfo')
           \/ Leave
BY Frame, AcceptKeeps, NameKeeps

LEMMA FreeUidStep == Base /\ FreeUidIsClean /\ [Next]_vars => FreeUidIsClean'
<1> SUFFICES ASSUME Base, FreeUidIsClean, [Next]_vars, NEW u \in Uid, u \notin UidsOf(userinfo')
             PROVE  numberPipes'[u] = << >> /\ env'[u] = {}
    BY DEF FreeUidIsClean
<1>1. numberPipes \in [Uid -> Seq(NumberPipe)] /\ env \in [Uid -> SUBSET EnvVars]
    BY DEF Base, TypeOK
<1>2. CASE Leave
  <2>1. numberPipes' = numberPipes /\ env' = ClearEnv(Me) /\ cmd.leaving
      BY <1>2 DEF Leave
  <2>2. numberPipes[Me] = << >> /\ Me \in Uid
      BY <2>1, LeavingFacts, MeIsUser DEF Base, LineHasUser
  <2>3. u = Me \/ u \notin UidsOf(userinfo)
      BY <1>2, LeaveKeeps
  <2> QED BY <1>1, <2>1, <2>2, <2>3 DEF FreeUidIsClean, ClearEnv
<1>3. CASE ~Leave
  <2>1. u \notin UidsOf(userinfo)
      BY <1>3, UidsFrame
  <2>2. numberPipes[u] = << >> /\ env[u] = {}
      BY <2>1 DEF FreeUidIsClean
  <2>3. \A s \in Socks : UidOf(s) # u
      BY <2>1, Sender
  <2>4. numberPipes'[u] = numberPipes[u]
    <3>1. ASSUME NEW s \in Socks, numberPipes' \in {TickFor(s), Forget(UidOf(s))}
          PROVE  numberPipes'[u] = numberPipes[u]
        BY <1>1, <2>3, <3>1 DEF TickFor, Forget
    <3>2. CASE RunStage
      <4>1. Me # u
          BY <2>1, <3>2, StageFacts
      <4> QED BY <1>1, <3>2, <4>1 DEF RunStage
    <3> QED BY <3>1, <3>2, NumberFrame
  <2>5. env'[u] = env[u]
    <3>1. CASE SetEnv
        BY <1>1, <2>3, <3>1, AnswersFacts DEF SetEnv
    <3> QED BY <1>3, <3>1, Frame
  <2> QED BY <2>2, <2>4, <2>5
<1> QED BY <1>2, <1>3

\* Whoever gets a uid starts without number pipes and variables, whatever its
\* last owner left undone at "exit".
THEOREM NewUserStartsClean == Spec => []FreeUidIsClean
<1>1. Init => Base /\ FreeUidIsClean
    BY InitBase DEF Init, FreeUidIsClean
<1>2. Base /\ FreeUidIsClean /\ [Next]_vars => (Base /\ FreeUidIsClean)'
    BY NextBase, FreeUidStep
<1> QED BY <1>1, <1>2, PTL DEF Spec

-----------------------------------------------------------------------------
(* Counters *)

\* Different counters: what CountersDistinct says of the pipes of one user.
Differ(ps) == \A i, j \in DOMAIN ps : ps[i].counter = ps[j].counter => i = j

LEMMA TickDiffers ==
    ASSUME NEW ps \in Seq(NumberPipe), Differ(ps)
    PROVE  Differ(Tick(ps))
<1>1. \A i \in DOMAIN ps : ps[i].counter \in Int
  <2>1. \A i \in DOMAIN ps : ps[i] \in NumberPipe
      BY ElementOfSeq, LenProperties
  <2> QED BY <2>1 DEF NumberPipe
<1>2. DOMAIN Tick(ps) = DOMAIN ps /\ \A i \in DOMAIN ps : Tick(ps)[i].counter = ps[i].counter - 1
    BY TickTypes
<1> SUFFICES ASSUME NEW i \in DOMAIN ps, NEW j \in DOMAIN ps, ps[i].counter - 1 = ps[j].counter - 1
             PROVE  i = j
    BY <1>2 DEF Differ
<1>3. ps[i].counter = ps[j].counter
    BY <1>1
<1> QED BY <1>3 DEF Differ

LEMMA WithoutDiffers ==
    ASSUME NEW ps \in Seq(NumberPipe), Differ(ps), NEW S \in SUBSET DOMAIN ps
    PROVE  Differ(Without(ps, S))
<1>1. PICK f \in [DOMAIN Without(ps, S) -> DOMAIN ps] :
          /\ \A i \in DOMAIN Without(ps, S) : Without(ps, S)[i] = ps[f[i]]
          /\ \A i, j \in DOMAIN Without(ps, S) : f[i] = f[j] => i = j
    BY WithoutKeeps
<1> SUFFICES ASSUME NEW i \in DOMAIN Without(ps, S), NEW j \in DOMAIN Without(ps, S),
                    Without(ps, S)[i].counter = Without(ps, S)[j].counter
             PROVE  i = j
    BY DEF Differ
<1>2. f[i] \in DOMAIN ps /\ f[j] \in DOMAIN ps /\ ps[f[i]].counter = ps[f[j]].counter
    BY <1>1
<1>3. f[i] = f[j]
    BY <1>2 DEF Differ
<1> QED BY <1>1, <1>3

\* Putting an element in front.
LEMMA PrependElements ==
    ASSUME NEW T, NEW s \in Seq(T), NEW e \in T
    PROVE  /\ <<e>> \o s \in Seq(T)
           /\ DOMAIN (<<e>> \o s) = 1..(Len(s) + 1) /\ DOMAIN s = 1..Len(s) /\ Len(s) \in Nat
           /\ (<<e>> \o s)[1] = e
           /\ \A i \in 2..(Len(s) + 1) : (<<e>> \o s)[i] = s[i - 1]
<1>1. <<e>> \in Seq(T) /\ Len(<<e>>) = 1 /\ <<e>>[1] = e
    OBVIOUS
<1>2. /\ <<e>> \o s \in Seq(T)
      /\ Len(<<e>> \o s) = 1 + Len(s)
      /\ \A i \in 1..1 : (<<e>> \o s)[i] = <<e>>[i]
      /\ \A i \in (1 + 1)..(1 + Len(s)) : (<<e>> \o s)[i] = s[i - 1]
    BY <1>1, ConcatElements
<1>3. DOMAIN s = 1..Len(s) /\ Len(s) \in Nat /\ DOMAIN (<<e>> \o s) = 1..(1 + Len(s))
    BY <1>2, LenProperties
<1> QED BY <1>1, <1>2, <1>3

\* A counter is given to a new pipe only when no pipe of the user has it.
LEMMA OpenedDiffers ==
    ASSUME Base, Me \in Uid, NEW st \in Stage, NeedsPipe(st) => CanPipe(fds), Differ(numberPipes[Me])
    PROVE  Differ(NumberOpened(st))
<1>1. numberPipes[Me] \in Seq(NumberPipe)
    BY DEF Base, TypeOK
<1>2. CASE NumberOpened(st) = numberPipes[Me]
    BY <1>2
<1>3. ASSUME NEW p \in NumberPipe, NumberOpened(st) = <<p>> \o numberPipes[Me],
             p.counter = st.arg, SameCounter(st.arg) = {}
      PROVE  Differ(NumberOpened(st))
  <2> DEFINE ps == numberPipes[Me]
             qs == <<p>> \o ps
  <2>1. \A i \in DOMAIN ps : ps[i].counter # p.counter
      BY <1>3 DEF SameCounter
  <2>2. /\ DOMAIN qs = 1..(Len(ps) + 1) /\ DOMAIN ps = 1..Len(ps) /\ Len(ps) \in Nat
        /\ qs[1] = p /\ \A i \in 2..(Len(ps) + 1) : qs[i] = ps[i - 1]
      BY <1>1, <1>3, PrependElements
  <2> HIDE DEF qs, ps
  <2>3. Differ(qs)
    <3> SUFFICES ASSUME NEW i \in DOMAIN qs, NEW j \in DOMAIN qs, qs[i].counter = qs[j].counter
                 PROVE  i = j
        BY DEF Differ
    <3>1. \A k \in DOMAIN qs : k # 1 => k - 1 \in DOMAIN ps /\ qs[k] = ps[k - 1]
        BY <2>2
    <3>2. CASE i = 1 \/ j = 1
        BY <2>1, <2>2, <3>1, <3>2
    <3>3. CASE i # 1 /\ j # 1
      <4>1. i - 1 = j - 1
          BY <3>1, <3>3 DEF Differ, ps
      <4> QED BY <2>2, <4>1
    <3> QED BY <3>2, <3>3
  <2> QED BY <1>3, <2>3 DEF qs, ps
<1> QED BY <1>2, <1>3, NumberOpenedFacts

LEMMA AfterDiffers ==
    ASSUME Base, Me \in Uid, NEW st \in Stage, NeedsPipe(st) => CanPipe(fds), Differ(numberPipes[Me])
    PROVE  Differ(NumberAfter(st))
<1>1. NumberOpened(st) \in Seq(NumberPipe) /\ Differ(NumberOpened(st))
    BY NumberOpenedFacts, OpenedDiffers
<1>2. Due(NumberOpened(st)) \in SUBSET DOMAIN NumberOpened(st)
    BY DEF Due
<1>3. Differ(NumberLeft(st)) /\ NumberLeft(st) \in Seq(NumberPipe)
    BY <1>1, <1>2, WithoutDiffers, NumberAfterType DEF NumberLeft
<1> QED BY <1>3, TickDiffers DEF NumberAfter

LEMMA CountersStep == Base /\ CountersDistinct /\ [Next]_vars => CountersDistinct'
<1> SUFFICES ASSUME Base, CountersDistinct, [Next]_vars, NEW u \in Uid
             PROVE  Differ(numberPipes'[u])
    BY DEF CountersDistinct, Differ
<1>1. numberPipes \in [Uid -> Seq(NumberPipe)] /\ \A v \in Uid : Differ(numberPipes[v])
    BY DEF Base, TypeOK, CountersDistinct, Differ
<1>2. CASE numberPipes' = numberPipes
    BY <1>1, <1>2
<1>3. ASSUME NEW s \in Socks, numberPipes' = TickFor(s)
      PROVE  Differ(numberPipes'[u])
  <2>1. UidOf(s) \in Uid
      BY Sender
  <2>2. Differ(Tick(numberPipes[UidOf(s)]))
      BY <1>1, <2>1, TickDiffers
  <2> QED BY <1>1, <1>3, <2>1, <2>2 DEF TickFor
<1>4. ASSUME NEW s \in Socks, numberPipes' = Forget(UidOf(s))
      PROVE  Differ(numberPipes'[u])
  <2>1. Differ(<< >>)
      BY DEF Differ
  <2> QED BY <1>1, <1>4, <2>1 DEF Forget
<1>5. CASE RunStage
  <2> DEFINE st == Head(cmd.todo)
  <2>1. st \in Stage /\ (NeedsPipe(st) => CanPipe(fds)) /\ Me \in Uid
      BY <1>5, StageFacts
  <2>2. numberPipes' = [numberPipes EXCEPT ![Me] = NumberAfter(st)]
      BY <1>5 DEF RunStage
  <2> HIDE DEF st
  <2>3. Differ(NumberAfter(st))
      BY <1>1, <2>1, AfterDiffers
  <2> QED BY <1>1, <2>2, <2>3
<1> QED BY <1>2, <1>3, <1>4, <1>5, NumberFrame

\* However many lines a user types after missing a number pipe, and whatever they
\* count down, no two of the user's pipes are due at once.
THEOREM CountersDiffer == Spec => []CountersDistinct
<1>1. Init => Base /\ CountersDistinct
    BY InitBase DEF Init, CountersDistinct
<1>2. Base /\ CountersDistinct /\ [Next]_vars => (Base /\ CountersDistinct)'
    BY NextBase, CountersStep
<1> QED BY <1>1, <1>2, PTL DEF Spec

-----------------------------------------------------------------------------
(* Blocks *)

\* The position, before an insertion at k, of what is at position i after it.
Old(k, i) == IF i < k THEN i ELSE i - 1

LEMMA InsertKeeps ==
    ASSUME NEW T, NEW s \in Seq(T), NEW e \in T, NEW k \in 1..(Len(s) + 1)
    PROVE  /\ k \in DOMAIN InsertAt(s, k, e) /\ InsertAt(s, k, e)[k] = e
           /\ \A i \in DOMAIN InsertAt(s, k, e) :
                 i # k => Old(k, i) \in DOMAIN s /\ InsertAt(s, k, e)[i] = s[Old(k, i)]
           /\ \A i, j \in DOMAIN InsertAt(s, k, e) :
                 i # k /\ j # k /\ Old(k, i) = Old(k, j) => i = j
<1> DEFINE t == InsertAt(s, k, e)
<1>0. s \in Seq(T) /\ e \in T /\ k \in 1..(Len(s) + 1)
    OBVIOUS
<1>1. /\ t \in Seq(T) /\ Len(t) = Len(s) + 1 /\ t[k] = e
      /\ \A i \in 1..(k - 1) : t[i] = s[i]
      /\ \A i \in (k + 1)..(Len(s) + 1) : t[i] = s[i - 1]
    BY ONLY <1>0, InsertAtFacts
<1> HIDE DEF t
<1>2. DOMAIN t = 1..(Len(s) + 1) /\ Len(s) \in Nat /\ DOMAIN s = 1..Len(s)
    BY <1>0, <1>1, LenProperties
<1>3. \A i \in DOMAIN t : i # k => Old(k, i) \in DOMAIN s /\ t[i] = s[Old(k, i)]
  <2>1. \A i \in DOMAIN t : i < k => i \in 1..(k - 1)
      BY <1>2
  <2>2. \A i \in DOMAIN t : ~(i < k) /\ i # k => i \in (k + 1)..(Len(s) + 1)
      BY <1>2
  <2> QED BY <1>1, <1>2, <2>1, <2>2 DEF Old
<1>4. \A i, j \in DOMAIN t : i # k /\ j # k /\ Old(k, i) = Old(k, j) => i = j
    BY <1>2 DEF Old
<1>5. k \in DOMAIN t /\ t[k] = e
    BY <1>1, <1>2
<1> QED BY <1>3, <1>4, <1>5 DEF t

\* No two users have the same socket: a number is given to a connection only
\* when no user of the table has it.
SocksDistinct ==
    \A i, j \in DOMAIN userinfo : userinfo[i].sockid = userinfo[j].sockid => i = j

LEMMA SocksDistinctStep == Base /\ SocksDistinct /\ [Next]_vars => SocksDistinct'
<1> SUFFICES ASSUME Base, SocksDistinct, [Next]_vars,
                    NEW i \in DOMAIN userinfo', NEW j \in DOMAIN userinfo',
                    userinfo'[i].sockid = userinfo'[j].sockid
             PROVE  i = j
    BY DEF SocksDistinct
<1>0. userinfo \in Seq(UserRecord) /\ Len(userinfo) \in Nat /\ DOMAIN userinfo = 1..Len(userinfo)
    BY LenProperties DEF Base, TypeOK
<1>1. CASE userinfo' = userinfo
    BY <1>1 DEF SocksDistinct
<1>2. CASE Accept /\ userinfo' # userinfo
  <2>1. PICK s \in Fd \ Socks, k \in 1..(Len(userinfo) + 1), e \in UserRecord :
            /\ e = [sockid |-> s, uid |-> k, name |-> NoName]
            /\ userinfo' = InsertAt(userinfo, k, e)
      BY <1>2, AcceptInserts
  <2>2. e.sockid = s
      BY <2>1
  <2>3. userinfo \in Seq(UserRecord) /\ e \in UserRecord /\ k \in 1..(Len(userinfo) + 1)
      BY <1>0
  <2> DEFINE t == InsertAt(userinfo, k, e)
  <2>4. /\ k \in DOMAIN t /\ t[k] = e
        /\ \A m \in DOMAIN t : m # k => Old(k, m) \in DOMAIN userinfo /\ t[m] = userinfo[Old(k, m)]
        /\ \A m, n \in DOMAIN t : m # k /\ n # k /\ Old(k, m) = Old(k, n) => m = n
      BY ONLY <2>3, InsertKeeps
  <2> HIDE DEF t
  <2>5. userinfo' = t
      BY <2>1 DEF t
  <2>6. \A m \in DOMAIN t : m # k => t[m].sockid # s
      BY <2>4 DEF Socks, SocksOf
  <2>7. CASE i = k \/ j = k
      BY <2>2, <2>4, <2>5, <2>6, <2>7
  <2>8. CASE i # k /\ j # k
    <3>1. Old(k, i) = Old(k, j)
        BY <2>4, <2>5, <2>8 DEF SocksDistinct
    <3> QED BY <2>4, <2>5, <2>8, <3>1
  <2> QED BY <2>7, <2>8
<1>3. CASE Name
  <2>1. DOMAIN userinfo' = DOMAIN userinfo /\ \A m \in DOMAIN userinfo : userinfo'[m].sockid = userinfo[m].sockid
      BY <1>3, NameFacts
  <2> QED BY <2>1 DEF SocksDistinct
<1>4. CASE Leave
  <2>1. IndexBySock(userinfo, cmd.sock) \in 1..Len(userinfo)
      BY <1>0, <1>4, LeavingFacts, MeIsUser DEF Leave
  <2>2. PICK f \in [DOMAIN userinfo' -> DOMAIN userinfo] :
              /\ \A m \in DOMAIN userinfo' : userinfo'[m] = userinfo[f[m]]
              /\ \A m, n \in DOMAIN userinfo' : f[m] = f[n] => m = n
    <3>1. userinfo' = RemoveAt(userinfo, IndexBySock(userinfo, cmd.sock))
        BY <1>4 DEF Leave
    <3> QED BY <1>0, <2>1, <3>1, RemoveAtKeeps
  <2>3. f[i] = f[j]
      BY <2>2 DEF SocksDistinct
  <2> QED BY <2>2, <2>3
<1> QED BY <1>1, <1>2, <1>3, <1>4, Frame

\* As long as nobody has left, users are in the order in which they came, and
\* those who asked for a block are there.
Unmoved ==
    ~left => /\ \A i \in DOMAIN userinfo : userinfo[i].uid = i
             /\ muted \subseteq SUBSET Socks

\* The table of a room that nobody has left grows at its end only.
LEMMA GrowsAtEnd ==
    ASSUME Base, Unmoved, ~left, Accept, userinfo' # userinfo
    PROVE  \E e \in UserRecord :
              /\ e.uid = Len(userinfo) + 1 /\ e.sockid \in Fd \ Socks
              /\ DOMAIN userinfo' = DOMAIN userinfo \cup {Len(userinfo) + 1}
              /\ userinfo'[Len(userinfo) + 1] = e
              /\ \A i \in DOMAIN userinfo : userinfo'[i] = userinfo[i]
<1>0. userinfo \in Seq(UserRecord) /\ Len(userinfo) \in Nat /\ DOMAIN userinfo = 1..Len(userinfo)
    BY LenProperties DEF Base, TypeOK
<1>1. PICK s \in Fd \ Socks, k \in Uid \ UidsOf(userinfo), e \in UserRecord :
          /\ k \in 1..(Len(userinfo) + 1)
          /\ e = [sockid |-> s, uid |-> k, name |-> NoName]
          /\ userinfo' = InsertAt(userinfo, k, e)
    BY AcceptInserts
<1>2. e.sockid = s /\ e.uid = k
    BY <1>1
<1>3. k = Len(userinfo) + 1
  <2>1. \A i \in 1..Len(userinfo) : i \in UidsOf(userinfo)
      BY <1>0 DEF Unmoved, UidsOf
  <2> QED BY <1>0, <1>1, <2>1
<1> DEFINE t == InsertAt(userinfo, k, e)
<1>4. /\ DOMAIN t = 1..(Len(userinfo) + 1) /\ t[k] = e
      /\ \A m \in 1..(k - 1) : t[m] = userinfo[m]
    BY ONLY <1>0, <1>1, e \in UserRecord, InsertElements
<1>5. DOMAIN userinfo' = 1..(Len(userinfo) + 1) /\ userinfo'[k] = e /\ \A m \in 1..(k - 1) : userinfo'[m] = userinfo[m]
    BY <1>1, <1>4
<1> QED BY <1>0, <1>2, <1>3, <1>5

LEMMA BlockFrame ==
    ASSUME Base, [Next]_vars
    PROVE  \/ UNCHANGED <<muted, left, blockList>>
           \/ Block \/ BlockNobody \/ Leave
<1>1. CASE Accept \/ AcceptFails \/ HangUp \/ Select \/ Spin \/ Down \/ UNCHANGED vars
    BY <1>1 DEF Accept, AcceptFails, Die, HangUp, Select, Spin, Down, vars, tables, ghosts
<1>2. CASE ServeNothing \/ Blank \/ Ask \/ Yell \/ Tell \/ Name \/ SetEnv
    BY <1>2 DEF ServeNothing, Blank, Ask, Yell, Tell, Name, SetEnv, tables, ghosts
<1>3. CASE Run \/ Exit \/ RunStage \/ PipeFails \/ EndLine \/ LineCrashes \/ DropPipe
    BY <1>3 DEF Run, Exit, RunStage, PipeFails, LineCrashes, Die, EndLine, DropPipe, tables, ghosts
<1> QED BY <1>1, <1>2, <1>3 DEF Next, Work

LEMMA NobodyLeft ==
    ASSUME Base, [Next]_vars, ~left'
    PROVE  ~left /\ ~Leave
<1>1. ~Leave
    BY DEF Leave
<1>2. left' = left
    BY <1>1, BlockFrame DEF Block, BlockNobody, ghosts
<1> QED BY <1>1, <1>2

\* The user who blocks, and the one who is blocked.
LEMMA BlockFacts ==
    ASSUME Base, Block
    PROVE  \E i, j \in DOMAIN userinfo :
              /\ blockList' = BlockBothWays(i, j)
              /\ muted' = muted \cup {{userinfo[i].sockid, userinfo[j].sockid}}
              /\ userinfo' = userinfo /\ left' = left
<1>1. PICK s \in Askers, l \in Asked :
          /\ Answers(s, l) /\ l.uid \in UidsOf(userinfo)
          /\ blockList' = BlockBothWays(PosOf(s), IndexById(userinfo, l.uid))
          /\ muted' = muted \cup {{s, userinfo[IndexById(userinfo, l.uid)].sockid}}
          /\ userinfo' = userinfo /\ left' = left
    BY DEF Block
<1>2. PosOf(s) \in DOMAIN userinfo /\ userinfo[PosOf(s)].sockid = s
    BY <1>1, AnswersFacts, Sender
<1>3. IndexById(userinfo, l.uid) \in DOMAIN userinfo
    BY <1>1, IndexByIdFacts DEF Base, TypeOK
<1> QED BY <1>1, <1>2, <1>3

LEMMA UnmovedStep == Base /\ Unmoved /\ [Next]_vars => Unmoved'
<1> SUFFICES ASSUME Base, Unmoved, [Next]_vars, ~left'
             PROVE  (\A i \in DOMAIN userinfo' : userinfo'[i].uid = i) /\ muted' \subseteq SUBSET Socks'
    BY DEF Unmoved
<1>1. ~left /\ ~Leave
    BY NobodyLeft
<1>2. (\A i \in DOMAIN userinfo : userinfo[i].uid = i) /\ muted \subseteq SUBSET Socks
    BY <1>1 DEF Unmoved
<1>3. \A i \in DOMAIN userinfo' : userinfo'[i].uid = i
  <2>1. CASE userinfo' = userinfo
      BY <1>2, <2>1
  <2>2. CASE Accept /\ userinfo' # userinfo
      BY <1>1, <1>2, <2>2, GrowsAtEnd
  <2>3. CASE Name
      BY <1>2, <2>3, NameFacts
  <2> QED BY <1>1, <2>1, <2>2, <2>3, Frame
<1>4. Socks \subseteq Socks'
  <2>1. CASE userinfo' = userinfo
      BY <2>1 DEF Socks
  <2>2. CASE Accept /\ userinfo' # userinfo
      BY <1>1, <2>2, GrowsAtEnd DEF Socks, SocksOf
  <2>3. CASE Name
      BY <2>3, NameFacts DEF Socks, SocksOf
  <2> QED BY <1>1, <2>1, <2>2, <2>3, Frame
<1>5. muted' \subseteq SUBSET Socks'
  <2>1. CASE muted' = muted
      BY <1>2, <1>4, <2>1
  <2>2. CASE Block
    <3>1. PICK i, j \in DOMAIN userinfo : muted' = muted \cup {{userinfo[i].sockid, userinfo[j].sockid}}
        BY <2>2, BlockFacts
    <3>2. {userinfo[i].sockid, userinfo[j].sockid} \subseteq Socks
        BY DEF Socks, SocksOf
    <3> QED BY <1>2, <1>4, <3>1, <3>2
  <2> QED BY <1>1, <2>1, <2>2, BlockFrame DEF BlockNobody, ghosts
<1> QED BY <1>3, <1>5

\* A step that adds to the blocks, or changes neither them nor who is there.
LEMMA BlockStep == Base /\ SocksDistinct /\ Unmoved /\ BlockHonoured /\ [Next]_vars => BlockHonoured'
<1> SUFFICES ASSUME Base, SocksDistinct, Unmoved, BlockHonoured, [Next]_vars, ~left',
                    NEW i \in DOMAIN userinfo', NEW p \in muted', userinfo'[i].sockid \in p,
                    NEW x \in p, x \in Socks', x \notin blockList'[i]
             PROVE  x = userinfo'[i].sockid
    BY DEF BlockHonoured, Reach
<1>0. blockList \in [Uid -> SUBSET (Fd \cup {0})] /\ DOMAIN userinfo \subseteq Uid
  <2>1. userinfo \in Seq(UserRecord) /\ Len(userinfo) <= MaxUsers
      BY DEF Base, TypeOK, UidsIncreasing
  <2>2. Len(userinfo) \in Nat /\ DOMAIN userinfo = 1..Len(userinfo)
      BY <2>1, LenProperties
  <2> QED BY <2>1, <2>2, MaxUsersAssumption DEF Base, TypeOK, Uid
<1>1. ~left /\ ~Leave
    BY NobodyLeft
<1>2. \A k \in DOMAIN userinfo, q \in muted : \A y \in q :
         userinfo[k].sockid \in q /\ y \in Socks /\ y \notin blockList[k] => y = userinfo[k].sockid
    BY <1>1 DEF BlockHonoured, Reach
<1>3. muted \subseteq SUBSET Socks
    BY <1>1 DEF Unmoved
<1>4. CASE Block
  <2>1. PICK m, n \in DOMAIN userinfo :
            /\ blockList' = BlockBothWays(m, n)
            /\ muted' = muted \cup {{userinfo[m].sockid, userinfo[n].sockid}}
            /\ userinfo' = userinfo
      BY <1>4, BlockFacts
  <2>2. /\ blockList[i] \subseteq blockList'[i]
        /\ i = m => userinfo[n].sockid \in blockList'[i]
        /\ i = n => userinfo[m].sockid \in blockList'[i]
      BY <1>0, <2>1 DEF BlockBothWays
  <2>3. CASE p \in muted
      BY <1>2, <2>1, <2>2, <2>3 DEF Socks
  <2>4. CASE p = {userinfo[m].sockid, userinfo[n].sockid}
    <3>1. i = m \/ i = n
        BY <2>1, <2>4 DEF SocksDistinct
    <3> QED BY <2>1, <2>2, <2>4, <3>1
  <2> QED BY <2>1, <2>3, <2>4
<1>5. CASE BlockNobody
  <2>1. muted' = muted /\ userinfo' = userinfo
      BY <1>5 DEF BlockNobody, ghosts
  <2>2. blockList[i] \subseteq blockList'[i]
      BY <1>0, <1>5, <2>1 DEF BlockNobody
  <2> QED BY <1>2, <2>1, <2>2 DEF Socks
<1>6. CASE UNCHANGED <<muted, left, blockList>>
  <2>1. x \in Socks
      BY <1>3, <1>6
  <2>2. CASE userinfo' = userinfo
      BY <1>2, <1>6, <2>1, <2>2
  <2>3. CASE Accept /\ userinfo' # userinfo
    <3>1. PICK e \in UserRecord :
              /\ e.sockid \in Fd \ Socks
              /\ DOMAIN userinfo' = DOMAIN userinfo \cup {Len(userinfo) + 1}
              /\ userinfo'[Len(userinfo) + 1] = e
              /\ \A k \in DOMAIN userinfo : userinfo'[k] = userinfo[k]
        BY <1>1, <2>3, GrowsAtEnd
    <3>2. i \in DOMAIN userinfo
        BY <1>3, <1>6, <3>1
    <3> QED BY <1>2, <1>6, <2>1, <3>1, <3>2
  <2>4. CASE Name
      BY <1>2, <1>6, <2>1, <2>4, NameFacts
  <2> QED BY <1>1, <2>2, <2>3, <2>4, Frame
<1> QED BY <1>1, <1>4, <1>5, <1>6, BlockFrame

\* Until somebody leaves, no line of a user reaches one with whom there is a
\* block, whoever comes and however many blocks there are.
THEOREM BlocksHold == Spec => []BlockHonoured
<1>1. Init => Base /\ SocksDistinct /\ Unmoved /\ BlockHonoured
    BY InitBase DEF Init, SocksDistinct, Unmoved, BlockHonoured
<1>2. Base /\ SocksDistinct /\ Unmoved /\ BlockHonoured /\ [Next]_vars
        => (Base /\ SocksDistinct /\ Unmoved /\ BlockHonoured)'
    BY NextBase, SocksDistinctStep, UnmovedStep, BlockStep
<1> QED BY <1>1, <1>2, PTL DEF Spec

-----------------------------------------------------------------------------
(* The ends of the pipes in a list *)

\* No two ends in the list are the same descriptor.
Apart(ps) ==
    \A i, j \in DOMAIN ps :
        /\ ps[i].rd # ps[j].wr
        /\ ps[i].rd = ps[j].rd \/ ps[i].wr = ps[j].wr => i = j

\* A list whose only pipe in S is taken out loses the ends of that pipe.
LEMMA WithoutEnds ==
    ASSUME NEW T, NEW ps \in Seq(T), Apart(ps), NEW S \in SUBSET DOMAIN ps,
           \A i, j \in S : i = j
    PROVE  /\ EndsOf(Without(ps, S)) = EndsOf(ps) \ UNION {Ends(ps[i]) : i \in S}
           /\ Apart(Without(ps, S))
<1> DEFINE t == Without(ps, S)
<1>1. Apart(t)
  <2>1. PICK f \in [DOMAIN Without(ps, S) -> DOMAIN ps] :
            /\ \A i \in DOMAIN Without(ps, S) : Without(ps, S)[i] = ps[f[i]]
            /\ \A i, j \in DOMAIN Without(ps, S) : f[i] = f[j] => i = j
      BY WithoutKeeps
  <2>2. /\ f \in [DOMAIN t -> DOMAIN ps]
        /\ \A i \in DOMAIN t : t[i] = ps[f[i]]
        /\ \A i, j \in DOMAIN t : f[i] = f[j] => i = j
      BY <2>1
  <2> HIDE DEF t
  <2> SUFFICES ASSUME NEW i \in DOMAIN t, NEW j \in DOMAIN t
               PROVE  /\ t[i].rd # t[j].wr
                      /\ t[i].rd = t[j].rd \/ t[i].wr = t[j].wr => i = j
      BY DEF Apart
  <2>3. f[i] \in DOMAIN ps /\ f[j] \in DOMAIN ps /\ t[i] = ps[f[i]] /\ t[j] = ps[f[j]]
      BY <2>2
  <2>4. t[i].rd # t[j].wr /\ (t[i].rd = t[j].rd \/ t[i].wr = t[j].wr => f[i] = f[j])
      BY <2>3 DEF Apart
  <2> QED BY <2>2, <2>4
<1>2. CASE S = {}
  <2>1. t = ps
      BY <1>2 DEF Without
  <2>2. UNION {Ends(ps[i]) : i \in S} = {}
      BY <1>2
  <2> QED BY <1>1, <2>1, <2>2
<1>3. CASE S # {}
  <2>1. PICK k \in S : S = {k}
      BY <1>3
  <2>2. k \in 1..Len(ps) /\ t = RemoveAt(ps, k)
    <3>1. DOMAIN ps = 1..Len(ps)
        BY LenProperties
    <3> QED BY <2>1, <3>1, WithoutTypes
  <2>3. /\ \A i \in DOMAIN RemoveAt(ps, k) : \E j \in DOMAIN ps \ {k} : RemoveAt(ps, k)[i] = ps[j]
        /\ \A j \in DOMAIN ps \ {k} : \E i \in DOMAIN RemoveAt(ps, k) : RemoveAt(ps, k)[i] = ps[j]
      BY <2>2, RemoveElements
  <2>4. /\ \A i \in DOMAIN t : \E j \in DOMAIN ps \ {k} : t[i] = ps[j]
        /\ \A j \in DOMAIN ps \ {k} : \E i \in DOMAIN t : t[i] = ps[j]
      BY <2>2, <2>3
  <2>5. UNION {Ends(ps[i]) : i \in S} = Ends(ps[k])
      BY <2>1
  <2> HIDE DEF t
  <2>6. \A j \in DOMAIN ps \ {k} : Ends(ps[j]) \cap Ends(ps[k]) = {}
      BY <2>1 DEF Apart, Ends
  <2>7. EndsOf(t) = UNION {Ends(ps[j]) : j \in DOMAIN ps \ {k}}
      BY <2>4 DEF EndsOf
  <2>8. EndsOf(ps) \ Ends(ps[k]) = UNION {Ends(ps[j]) : j \in DOMAIN ps \ {k}}
      BY <2>1, <2>6 DEF EndsOf
  <2> QED BY <1>1, <2>5, <2>7, <2>8 DEF t
<1> QED BY <1>2, <1>3

\* Every element of qs but the one at k is that of ps at a position of its own.
Extends(qs, k, ps, f) ==
    /\ k \in DOMAIN qs
    /\ \A i \in DOMAIN qs : i # k => f[i] \in DOMAIN ps /\ qs[i] = ps[f[i]]
    /\ \A i, j \in DOMAIN qs : i # k /\ j # k /\ f[i] = f[j] => i = j
    /\ \A j \in DOMAIN ps : \E i \in DOMAIN qs : i # k /\ qs[i] = ps[j]

\* A pipe whose ends are new to the list.
LEMMA WithEnds ==
    ASSUME NEW ps, NEW qs, NEW k, NEW f, Apart(ps), Extends(qs, k, ps, f),
           qs[k].rd # qs[k].wr, Ends(qs[k]) \cap EndsOf(ps) = {}
    PROVE  Apart(qs) /\ EndsOf(qs) = EndsOf(ps) \cup Ends(qs[k])
<1>1. EndsOf(qs) = EndsOf(ps) \cup Ends(qs[k])
    BY DEF Extends, EndsOf
<1>2. \A i \in DOMAIN qs : i # k =>
         /\ qs[i].rd \notin {qs[k].rd, qs[k].wr} /\ qs[i].wr \notin {qs[k].rd, qs[k].wr}
    BY DEF Extends, EndsOf, Ends
<1>3. \A i, j \in DOMAIN qs : i # k /\ j # k =>
         /\ qs[i].rd # qs[j].wr
         /\ qs[i].rd = qs[j].rd \/ qs[i].wr = qs[j].wr => i = j
    BY DEF Extends, Apart
<1>4. Apart(qs)
    BY <1>2, <1>3 DEF Apart
<1> QED BY <1>1, <1>4

\* Counting down moves no end.
LEMMA TickEnds ==
    ASSUME NEW ps \in Seq(NumberPipe)
    PROVE  EndsOf(Tick(ps)) = EndsOf(ps) /\ (Apart(ps) => Apart(Tick(ps)))
<1>1. \A i \in DOMAIN ps : ps[i] \in NumberPipe
    BY ElementOfSeq, LenProperties
<1>2. DOMAIN Tick(ps) = DOMAIN ps /\ \A i \in DOMAIN ps : Tick(ps)[i].rd = ps[i].rd /\ Tick(ps)[i].wr = ps[i].wr
    BY <1>1 DEF Tick, NumberPipe
<1> QED BY <1>2 DEF EndsOf, Ends, Apart

-----------------------------------------------------------------------------
(* Who holds which descriptor *)

\* The pipes of the server are held by the line in execution (-1), by the list
\* of user pipes (0) or by the number pipes of a user.
Holder == -1..MaxUsers
Holdings == [h \in Holder |-> IF h = -1 THEN ToSet(cmd.pipe)
                              ELSE IF h = 0 THEN EndsOf(userPipes) ELSE EndsOf(numberPipes[h])]

\* No descriptor is held twice, and the held ones are open on pipes.
HeldByOne(B, t) ==
    /\ \A h, k \in Holder : h # k => B[h] \cap B[k] = {}
    /\ \A h \in Holder : \A f \in B[h] : t[f] = "pipe"

\* No list names a descriptor twice, and the descriptors of users are sockets.
ListsApart ==
    /\ Apart(userPipes)
    /\ \A u \in Uid : Apart(numberPipes[u])
    /\ cmd.pipe # << >> => cmd.pipe[1] # cmd.pipe[2]
    /\ \A f \in Socks : fds[f] \in Connected

\* What FdsHeldOnce needs of the state before a step.
Owned == ~stolen => ListsApart /\ HeldByOne(Holdings, fds)

\* One holder gains descriptors, and others may lose some.
Gains(A, B, k, New) == \A h \in Holder : A[h] \subseteq B[h] \cup (IF h = k THEN New ELSE {})

\* A list gains ends that were free.
LEMMA HeldByOneStep ==
    ASSUME NEW B, NEW t, HeldByOne(B, t), NEW A, NEW v, NEW k \in Holder, NEW New, Gains(A, B, k, New),
           \A f \in New : t[f] = "free",
           \A h \in Holder : \A f \in A[h] : v[f] = "pipe"
    PROVE  HeldByOne(A, v)
<1>1. \A h \in Holder : B[h] \cap New = {}
    BY DEF HeldByOne
<1> SUFFICES ASSUME NEW h \in Holder, NEW m \in Holder, h # m
             PROVE  A[h] \cap A[m] = {}
    BY DEF HeldByOne
<1>2. B[h] \cap B[m] = {}
    BY DEF HeldByOne
<1> QED BY <1>1, <1>2 DEF Gains

\* The holders one by one.
LEMMA HoldingsAre ==
    /\ -1 \in Holder /\ 0 \in Holder /\ Uid \subseteq Holder
    /\ \A h \in Holder : h = -1 \/ h = 0 \/ h \in Uid
    /\ Holdings[-1] = ToSet(cmd.pipe) /\ Holdings[0] = EndsOf(userPipes)
    /\ \A u \in Uid : Holdings[u] = EndsOf(numberPipes[u]) /\ u # 0 /\ u # -1
<1>1. -1 \in Holder /\ 0 \in Holder /\ Uid \subseteq Holder /\ \A h \in Holder : h = -1 \/ h = 0 \/ h \in Uid
    BY MaxUsersAssumption DEF Holder, Uid
<1>2. \A u \in Uid : u # 0 /\ u # -1
    BY MaxUsersAssumption DEF Uid
<1> QED BY <1>1, <1>2 DEF Holdings

LEMMA EndsAreFds ==
    ASSUME NEW T, \A p \in T : p.rd \in Fd /\ p.wr \in Fd, NEW ps \in Seq(T)
    PROVE  EndsOf(ps) \subseteq Fd
<1>1. \A i \in DOMAIN ps : ps[i] \in T
    BY ElementOfSeq, LenProperties
<1> QED BY <1>1 DEF EndsOf, Ends

LEMMA NormalPipe ==
    ASSUME NEW p \in {<< >>} \cup (Fd \X Fd)
    PROVE  /\ ToSet(p) \subseteq Fd
           /\ p = << >> => ToSet(p) = {}
           /\ p # << >> => DOMAIN p = {1, 2} /\ ToSet(p) = {p[1], p[2]}
<1>1. CASE p = << >>
    BY <1>1 DEF ToSet
<1>2. CASE p # << >>
  <2>1. p \in Fd \X Fd /\ p = <<p[1], p[2]>> /\ p[1] \in Fd /\ p[2] \in Fd
      BY <1>2
  <2>2. DOMAIN p = {1, 2}
      BY <2>1
  <2> QED BY <1>2, <2>1, <2>2 DEF ToSet
<1> QED BY <1>1, <1>2

LEMMA HoldingsAreFds ==
    ASSUME Base, NEW h \in Holder
    PROVE  Holdings[h] \subseteq Fd
<1>1. ToSet(cmd.pipe) \subseteq Fd
    BY NormalPipe DEF Base, TypeOK, Command
<1>2. EndsOf(userPipes) \subseteq Fd
  <2>1. userPipes \in Seq(UserPipe) /\ \A p \in UserPipe : p.rd \in Fd /\ p.wr \in Fd
      BY DEF Base, TypeOK, UserPipe
  <2> QED BY <2>1, EndsAreFds
<1>3. \A u \in Uid : EndsOf(numberPipes[u]) \subseteq Fd
  <2>1. \A u \in Uid : numberPipes[u] \in Seq(NumberPipe)
      BY DEF Base, TypeOK
  <2>2. \A p \in NumberPipe : p.rd \in Fd /\ p.wr \in Fd
      BY DEF NumberPipe
  <2> QED BY <2>1, <2>2, EndsAreFds
<1> QED BY <1>1, <1>2, <1>3, HoldingsAre

\* What send() leaves alone of a descriptor table.
Alike(t, v) == \A f \in Fd : v[f] = t[f] \/ (t[f] \in Connected /\ v[f] \in Connected)

LEMMA SendToAlike ==
    ASSUME NEW t, NEW S, SendTo(S, t)
    PROVE  Alike(t, fds')
BY DEF SendTo, Alike, Connected

\* The steps that neither open nor close a descriptor nor give one away.
Quiet ==
    /\ Alike(fds, fds')
    /\ Socks' = Socks /\ userPipes' = userPipes /\ stolen' = stolen
    /\ numberPipes' = numberPipes \/ \E s \in Socks : numberPipes' = TickFor(s)
    /\ cmd'.pipe = cmd.pipe

\* The steps that end the line behind its programs, and forget its pipe.
LineOver ==
    /\ Alike(fds, fds')
    /\ Socks' = Socks /\ UNCHANGED <<userPipes, numberPipes, stolen>>
    /\ cmd.todo = << >> /\ cmd'.pipe = << >>

LEMMA AnswersQuietly ==
    ASSUME Base, NEW s, NEW l, Answers(s, l),
           Alike(fds, fds'), Socks' = Socks, UNCHANGED <<userPipes, stolen>>
    PROVE  Quiet \/ LineOver
<1>1. s \in Socks /\ cmd' = NoCmd
    BY AnswersFacts
<1>2. cmd'.pipe = << >>
    BY <1>1 DEF NoCmd
<1> QED BY <1>1, <1>2 DEF Answers, Started, Quiet, LineOver

LEMMA QuietSteps ==
    ASSUME Base, [Next]_vars
    PROVE  Quiet \/ Accept \/ RunStage \/ LineOver \/ Exit \/ DropPipe \/ Leave
<1>0. Alike(fds, fds)
    BY DEF Alike
<1>1. CASE AcceptFails \/ Select \/ Spin \/ Down \/ PipeFails \/ LineCrashes \/ UNCHANGED vars
    BY <1>0, <1>1 DEF AcceptFails, PipeFails, LineCrashes, Die, Select, Spin, Down, vars, tables, ghosts, Quiet, Socks
<1>2. CASE HangUp
  <2>1. fds \in [Fd -> Descriptor]
      BY DEF Base, TypeOK
  <2>2. Alike(fds, fds')
      BY <1>2, <2>1 DEF HangUp, Alike, Connected
  <2> QED BY <1>2, <2>2 DEF HangUp, tables, ghosts, Quiet, Socks
<1>3. CASE ServeNothing \/ Blank
    BY <1>3, SendToAlike DEF ServeNothing, Blank, tables, ghosts, Quiet, Socks
<1>4. CASE Yell \/ Tell
    BY <1>4, SendToAlike, ServedIsUser DEF Yell, Tell, Reads, ghosts, Quiet, Socks
<1>5. CASE Name
  <2>1. Socks' = Socks
      BY <1>5, NameFacts DEF Socks, SocksOf
  <2> QED BY <1>5, <2>1, SendToAlike, AnswersQuietly DEF Name, ghosts
<1>6. CASE Ask \/ SetEnv
    BY <1>6, SendToAlike, AnswersQuietly DEF Ask, SetEnv, ghosts, Socks
<1>7. CASE Block \/ BlockNobody
    BY <1>0, <1>7, SendToAlike, AnswersQuietly DEF Block, BlockNobody, ghosts, Socks
<1>8. CASE Run
    BY <1>0, <1>8, ServedIsUser DEF Run, Reads, ghosts, Quiet, Socks, NoCmd
<1>9. CASE EndLine
    BY <1>9, SendToAlike DEF EndLine, Started, tables, ghosts, Socks, NoCmd, LineOver
<1> QED BY <1>1, <1>2, <1>3, <1>4, <1>5, <1>6, <1>7, <1>8, <1>9 DEF Next, Work

\* They leave every list with the ends it had.
LEMMA QuietHoldings ==
    ASSUME Base, Quiet
    PROVE  /\ Holdings' = Holdings
           /\ \A u \in Uid : Apart(numberPipes[u]) => Apart(numberPipes'[u])
<1>1. numberPipes \in [Uid -> Seq(NumberPipe)]
    BY DEF Base, TypeOK
<1>2. \A u \in Uid : /\ EndsOf(numberPipes'[u]) = EndsOf(numberPipes[u])
                     /\ Apart(numberPipes[u]) => Apart(numberPipes'[u])
  <2>1. CASE numberPipes' = numberPipes
      BY <2>1
  <2>2. ASSUME NEW s \in Socks, numberPipes' = TickFor(s), NEW u \in Uid
        PROVE  /\ EndsOf(numberPipes'[u]) = EndsOf(numberPipes[u])
               /\ Apart(numberPipes[u]) => Apart(numberPipes'[u])
    <3>1. numberPipes'[u] = numberPipes[u] \/ numberPipes'[u] = Tick(numberPipes[u])
        BY <1>1, <2>2 DEF TickFor
    <3>2. numberPipes[u] \in Seq(NumberPipe)
        BY <1>1
    <3> QED BY <3>1, <3>2, TickEnds
  <2> QED BY <2>1, <2>2 DEF Quiet
<1>3. \A h \in Holder : h = -1 \/ h = 0 \/ h \in Uid
    BY HoldingsAre
<1> QED BY <1>2, <1>3 DEF Holdings, Quiet

\* accept() opens a socket that was free, for the new user if there is room.
LEMMA AcceptFds ==
    ASSUME Base, Accept
    PROVE  /\ Holdings' = Holdings
           /\ UNCHANGED <<userPipes, numberPipes, cmd, stolen>>
           /\ \E s \in FreeFds(fds) :
                 /\ fds'[s] \in Connected
                 /\ \A f \in Fd : f # s => fds'[f] = fds[f] \/ (fds[f] \in Connected /\ fds'[f] \in Connected)
                 /\ Socks \subseteq Socks' /\ Socks' \subseteq Socks \cup {s}
                 /\ s \in Socks' \/ Len(userinfo) = MaxUsers
<1>1. UNCHANGED <<userPipes, numberPipes, cmd, stolen>> /\ Holdings' = Holdings
    BY DEF Accept, ghosts, Holdings
<1>2. PICK s \in Fd \ Socks :
          /\ fds[s] = "free"
          /\ SendTo(SocksOf(userinfo') \cup {s}, [fds EXCEPT ![s] = "live"])
          /\ \/ userinfo' = userinfo /\ Len(userinfo) = MaxUsers
             \/ \E k \in Uid, e \in UserRecord :
                   /\ k \in 1..(Len(userinfo) + 1)
                   /\ e = [sockid |-> s, uid |-> k, name |-> NoName]
                   /\ userinfo' = InsertAt(userinfo, k, e)
    BY AcceptInserts
<1>3. Alike([fds EXCEPT ![s] = "live"], fds') /\ s \in FreeFds(fds)
    BY <1>2, SendToAlike DEF FreeFds
<1>4. fds \in [Fd -> Descriptor] /\ userinfo \in Seq(UserRecord)
    BY DEF Base, TypeOK
<1>5. /\ fds'[s] \in Connected
      /\ \A f \in Fd : f # s => fds'[f] = fds[f] \/ (fds[f] \in Connected /\ fds'[f] \in Connected)
    BY <1>2, <1>3, <1>4 DEF Alike, Connected
<1>6. Socks \subseteq Socks' /\ Socks' \subseteq Socks \cup {s} /\ (s \in Socks' \/ Len(userinfo) = MaxUsers)
  <2>1. CASE userinfo' = userinfo /\ Len(userinfo) = MaxUsers
      BY <2>1 DEF Socks
  <2>2. ASSUME NEW k \in Uid, NEW e \in UserRecord, k \in 1..(Len(userinfo) + 1),
               e = [sockid |-> s, uid |-> k, name |-> NoName], userinfo' = InsertAt(userinfo, k, e)
        PROVE  Socks \subseteq Socks' /\ Socks' \subseteq Socks \cup {s} /\ s \in Socks'
    <3>1. userinfo \in Seq(UserRecord) /\ e \in UserRecord /\ k \in 1..(Len(userinfo) + 1)
        BY <1>4, <2>2
    <3> DEFINE t == InsertAt(userinfo, k, e)
    <3>2. /\ k \in DOMAIN t /\ t[k] = e
          /\ \A m \in DOMAIN t : m # k => Old(k, m) \in DOMAIN userinfo /\ t[m] = userinfo[Old(k, m)]
        BY ONLY <3>1, InsertKeeps
    <3>3. /\ DOMAIN userinfo = 1..Len(userinfo) /\ Len(userinfo) \in Nat
          /\ DOMAIN t = 1..(Len(userinfo) + 1)
          /\ \A i \in 1..(k - 1) : t[i] = userinfo[i]
          /\ \A i \in (k + 1)..(Len(userinfo) + 1) : t[i] = userinfo[i - 1]
        BY ONLY <3>1, InsertElements
    <3> HIDE DEF t
    <3>4. ASSUME NEW i \in DOMAIN userinfo PROVE \E m \in DOMAIN t : t[m] = userinfo[i]
      <4>1. CASE i < k
        <5>1. i \in 1..(k - 1) /\ i \in DOMAIN t
            BY <3>1, <3>3, <4>1
        <5> QED BY <3>3, <5>1
      <4>2. CASE ~(i < k)
        <5>1. i + 1 \in (k + 1)..(Len(userinfo) + 1) /\ i + 1 \in DOMAIN t /\ (i + 1) - 1 = i
            BY <3>1, <3>3, <4>2
        <5> QED BY <3>3, <5>1
      <4> QED BY <4>1, <4>2
    <3>5. SocksOf(t) = Socks \cup {s}
      <4>1. e.sockid = s
          BY <2>2
      <4> QED BY <3>2, <3>4, <4>1 DEF Socks, SocksOf
    <3> QED BY <2>2, <3>5 DEF Socks, t
  <2> QED BY <1>2, <2>1, <2>2
<1> QED BY <1>1, <1>3, <1>5, <1>6

LEMMA LineOverFds ==
    ASSUME Base, LineOver
    PROVE  /\ Alike(fds, fds') /\ Socks' = Socks
           /\ UNCHANGED <<userPipes, numberPipes, stolen>> /\ cmd'.pipe = << >>
           /\ cmd.todo = << >>
           /\ \A h \in Holder : Holdings'[h] = IF h = -1 THEN {} ELSE Holdings[h]
<1>1. /\ Alike(fds, fds') /\ Socks' = Socks
      /\ UNCHANGED <<userPipes, numberPipes, stolen>> /\ cmd'.pipe = << >> /\ cmd.todo = << >>
    BY DEF LineOver
<1>2. ToSet(cmd'.pipe) = {}
    BY <1>1, NormalPipe
<1> QED BY <1>1, <1>2 DEF Holdings

\* "exit" forgets the number pipes of its user and closes nothing.
LEMMA ExitFds ==
    ASSUME Base, Exit
    PROVE  /\ UNCHANGED <<fds, userinfo, userPipes, stolen>> /\ Socks' = Socks /\ cmd'.pipe = cmd.pipe
           /\ \E s \in Socks :
                 /\ cmd'.leaving /\ cmd'.sock = s
                 /\ numberPipes' = Forget(UidOf(s))
                 /\ \A h \in Holder : Holdings'[h] = IF h = UidOf(s) THEN {} ELSE Holdings[h]
<1>1. PICK s \in batch, l \in Lines : /\ Reads(s, l) /\ numberPipes' = Forget(UidOf(s))
                                      /\ cmd' = [NoCmd EXCEPT !.sock = s, !.leaving = TRUE]
                                      /\ UNCHANGED <<up, fds, userinfo, userPipes, env, blockList, ghosts>>
    BY DEF Exit
<1>2. s \in Socks /\ cmd = NoCmd
    BY <1>1, ServedIsUser DEF Reads
<1>3. UidOf(s) \in Uid
    BY <1>2, Sender
<1>4. cmd'.leaving /\ cmd'.sock = s /\ cmd'.pipe = cmd.pipe
    BY <1>1, <1>2 DEF NoCmd
<1>5. numberPipes \in [Uid -> Seq(NumberPipe)]
    BY DEF Base, TypeOK
<1>6. \A u \in Uid : numberPipes'[u] = IF u = UidOf(s) THEN << >> ELSE numberPipes[u]
    BY <1>1, <1>3, <1>5 DEF Forget
<1>7. EndsOf(<< >>) = {}
    BY DEF EndsOf
<1>8. \A h \in Holder : Holdings'[h] = IF h = UidOf(s) THEN {} ELSE Holdings[h]
  <2>1. \A h \in Holder : h = -1 \/ h = 0 \/ (h \in Uid /\ h # 0 /\ h # -1)
      BY HoldingsAre
  <2>2. UidOf(s) # 0 /\ UidOf(s) # -1
      BY <1>3, HoldingsAre
  <2>3. userPipes' = userPipes
      BY <1>1
  <2> QED BY <1>4, <1>6, <1>7, <2>1, <2>2, <2>3 DEF Holdings
<1> QED BY <1>1, <1>2, <1>4, <1>8 DEF ghosts, Socks

\* The logout closes both ends of a pipe and takes it out of the list.
LEMMA DropPipeFds ==
    ASSUME Base, DropPipe, Apart(userPipes)
    PROVE  /\ Apart(userPipes')
           /\ UNCHANGED <<userinfo, numberPipes, cmd, stolen>>
           /\ \E C \in SUBSET Holdings[0] :
                 /\ fds' = Close(fds, C)
                 /\ \A h \in Holder : Holdings'[h] = IF h = 0 THEN Holdings[0] \ C ELSE Holdings[h]
<1> DEFINE k == Lowest(Held)
           C == Ends(userPipes[k])
<1>1. userPipes \in Seq(UserPipe)
    BY DEF Base, TypeOK
<1>2. Held \in SUBSET DOMAIN userPipes /\ Held # {} /\ DOMAIN userPipes = 1..Len(userPipes)
    BY <1>1, LenProperties DEF DropPipe, Held
<1>3. k \in Held
    BY <1>1, <1>2, WithoutTypes
<1>4. UNCHANGED <<userinfo, numberPipes, cmd, stolen>> /\ fds' = Close(fds, C) /\ userPipes' = RemoveAt(userPipes, k)
    BY DEF DropPipe, ghosts
<1> HIDE DEF k
<1>5. Lowest({k}) = k
  <2>1. {k} \in SUBSET Nat /\ {k} # {}
      BY <1>1, <1>2, <1>3, LenProperties
  <2> QED BY <2>1, LowestFacts
<1>6. userPipes' = Without(userPipes, {k})
    BY <1>4, <1>5 DEF Without
<1>7. /\ EndsOf(userPipes') = EndsOf(userPipes) \ UNION {Ends(userPipes[i]) : i \in {k}}
      /\ Apart(userPipes')
  <2>1. {k} \in SUBSET DOMAIN userPipes /\ \A i, j \in {k} : i = j
      BY <1>2, <1>3
  <2> QED BY <1>1, <1>6, <2>1, WithoutEnds
<1>8. C \subseteq Holdings[0]
    BY <1>2, <1>3, HoldingsAre DEF EndsOf
<1>9. \A h \in Holder : Holdings'[h] = IF h = 0 THEN Holdings[0] \ C ELSE Holdings[h]
  <2>1. UNION {Ends(userPipes[i]) : i \in {k}} = C
      OBVIOUS
  <2> HIDE DEF C
  <2>2. EndsOf(userPipes') = Holdings[0] \ C
      BY <1>7, <2>1, HoldingsAre
  <2> QED BY <1>4, <2>2 DEF Holdings
<1> QED BY <1>4, <1>7, <1>8, <1>9

\* The socket of the user who leaves is closed and no other user has it.
LEMMA LeaveFds ==
    ASSUME Base, SocksDistinct, Leave
    PROVE  /\ UNCHANGED <<userPipes, numberPipes, stolen>> /\ cmd'.pipe = << >> /\ cmd.todo = << >>
           /\ cmd.sock \in Socks /\ Socks' = Socks \ {cmd.sock}
           /\ Alike(Close(fds, {cmd.sock}), fds')
           /\ \A h \in Holder : Holdings'[h] = IF h = -1 THEN {} ELSE Holdings[h]
<1> DEFINE k == IndexBySock(userinfo, cmd.sock)
<1>1. /\ cmd.leaving /\ userinfo' = RemoveAt(userinfo, k) /\ cmd' = NoCmd
      /\ UNCHANGED <<userPipes, numberPipes, stolen>>
      /\ SendTo(SocksOf(userinfo'), Close(fds, {cmd.sock}))
    BY DEF Leave
<1>2. cmd.sock # 0 /\ cmd.todo = << >> /\ cmd.sock \in Socks
    BY <1>1, LeavingFacts DEF Base, LineHasUser
<1>3. k \in DOMAIN userinfo /\ userinfo[k].sockid = cmd.sock
    BY <1>2, MeIsUser
<1>4. userinfo \in Seq(UserRecord) /\ DOMAIN userinfo = 1..Len(userinfo)
    BY LenProperties DEF Base, TypeOK
<1> HIDE DEF k
<1>5. /\ \A i \in DOMAIN userinfo' : \E j \in DOMAIN userinfo \ {k} : userinfo'[i] = userinfo[j]
      /\ \A j \in DOMAIN userinfo \ {k} : \E i \in DOMAIN userinfo' : userinfo'[i] = userinfo[j]
  <2>1. userinfo \in Seq(UserRecord) /\ k \in 1..Len(userinfo)
      BY <1>3, <1>4
  <2> DEFINE t == RemoveAt(userinfo, k)
  <2>2. /\ \A i \in DOMAIN t : \E j \in DOMAIN userinfo \ {k} : t[i] = userinfo[j]
        /\ \A j \in DOMAIN userinfo \ {k} : \E i \in DOMAIN t : t[i] = userinfo[j]
      BY ONLY <2>1, RemoveElements
  <2> HIDE DEF t
  <2>3. userinfo' = t
      BY <1>1 DEF t
  <2> QED BY <2>2, <2>3
<1>6. Socks' = Socks \ {cmd.sock}
    BY <1>3, <1>5 DEF SocksDistinct, Socks, SocksOf
<1>7. cmd'.pipe = << >> /\ ToSet(cmd'.pipe) = {}
    BY <1>1, NormalPipe DEF NoCmd
<1>8. \A h \in Holder : Holdings'[h] = IF h = -1 THEN {} ELSE Holdings[h]
    BY <1>1, <1>7 DEF Holdings
<1>9. Alike(Close(fds, {cmd.sock}), fds')
    BY <1>1, SendToAlike
<1> QED BY <1>1, <1>2, <1>6, <1>7, <1>8, <1>9

-----------------------------------------------------------------------------
(* The descriptors of a program of a line *)

\* The ends of the pipe a stage opens for its output, if that is of kind k, and
\* the ends that are closed when it reads from one of kind k.
NewEnds(st)     == IF NeedsPipe(st) THEN {ReadEnd(fds), WriteEnd(fds)} ELSE {}
NewFor(k, st)   == IF st.write = k THEN NewEnds(st) ELSE {}
ReadFrom(k, st) == IF Source(st) = k THEN Consumed(st) ELSE {}

LEMMA NewEndsFacts ==
    ASSUME Base, NEW st \in Stage, NeedsPipe(st) => CanPipe(fds)
    PROVE  /\ NewEnds(st) \subseteq FreeFds(fds) /\ NewEnds(st) \subseteq Fd
           /\ \A f \in NewEnds(st) : fds[f] = "free"
           /\ \A f \in Fd : FdsOpened(st)[f] = IF f \in NewEnds(st) THEN "pipe" ELSE fds[f]
<1>1. fds \in [Fd -> Descriptor]
    BY DEF Base, TypeOK
<1>2. CASE ~NeedsPipe(st)
    BY <1>2 DEF NewEnds, FdsOpened
<1>3. CASE NeedsPipe(st)
  <2>1. /\ ReadEnd(fds) \in Fd /\ WriteEnd(fds) \in Fd /\ ReadEnd(fds) # WriteEnd(fds)
        /\ fds[ReadEnd(fds)] = "free" /\ fds[WriteEnd(fds)] = "free"
      BY <1>1, <1>3, PipeEnds
  <2>2. NewEnds(st) = {ReadEnd(fds), WriteEnd(fds)}
      BY <1>3 DEF NewEnds
  <2>3. \A f \in Fd : OpenPipe(fds)[f] = IF f \in {ReadEnd(fds), WriteEnd(fds)} THEN "pipe" ELSE fds[f]
      BY <1>1, <2>1 DEF OpenPipe
  <2> QED BY <1>3, <2>1, <2>2, <2>3 DEF FreeFds, FdsOpened
<1> QED BY <1>2, <1>3

\* The number pipes of the user once the output of the stage is open.
LEMMA NumberOpenedEnds ==
    ASSUME Base, HeldByOne(Holdings, fds), ListsApart, Me \in Uid, NEW st \in Stage, NeedsPipe(st) => CanPipe(fds)
    PROVE  /\ Apart(NumberOpened(st))
           /\ EndsOf(NumberOpened(st)) = EndsOf(numberPipes[Me]) \cup NewFor("number", st)
<1> DEFINE ps == numberPipes[Me]
<1>1. ps \in Seq(NumberPipe) /\ Apart(ps) /\ fds \in [Fd -> Descriptor]
    BY DEF Base, TypeOK, ListsApart
<1>2. CASE ~(Made(st) /\ st.write = "number")
  <2>1. NumberOpened(st) = ps /\ NewFor("number", st) = {}
      BY <1>2 DEF NumberOpened, NewFor, NewEnds, Made
  <2> QED BY <1>1, <2>1
<1>3. CASE Made(st) /\ st.write = "number"
  <2> DEFINE p == [counter |-> st.arg, rd |-> ReadEnd(fds), wr |-> WriteEnd(fds)]
             qs == <<p>> \o ps
  <2>1. CanPipe(fds) /\ NeedsPipe(st)
      BY <1>3 DEF Made
  <2>2. p \in NumberPipe
      BY <1>1, <2>1, PipeEnds DEF NumberPipe, Stage
  <2>3. NumberOpened(st) = qs
      BY <1>3 DEF NumberOpened
  <2>4. Ends(p) = NewFor("number", st) /\ p.rd # p.wr /\ Ends(p) = NewEnds(st)
      BY <1>1, <1>3, <2>1, PipeEnds DEF Ends, NewFor, NewEnds
  <2>5. Ends(p) \cap EndsOf(ps) = {}
    <3>1. \A f \in EndsOf(ps) : fds[f] = "pipe"
        BY HoldingsAre DEF HeldByOne
    <3>2. \A f \in Ends(p) : fds[f] = "free"
        BY <2>4, NewEndsFacts
    <3> QED BY <3>1, <3>2
  <2> HIDE DEF p
  <2>6. /\ DOMAIN qs = 1..(Len(ps) + 1) /\ DOMAIN ps = 1..Len(ps) /\ Len(ps) \in Nat
        /\ qs[1] = p /\ \A i \in 2..(Len(ps) + 1) : qs[i] = ps[i - 1]
      BY <1>1, <2>2, PrependElements
  <2> HIDE DEF qs, ps
  <2> DEFINE f == [i \in DOMAIN qs |-> i - 1]
  <2>7. \A i \in DOMAIN qs : i # 1 => f[i] \in DOMAIN ps /\ qs[i] = ps[f[i]]
      BY <2>6
  <2>8. \A i, j \in DOMAIN qs : i # 1 /\ j # 1 /\ f[i] = f[j] => i = j
      BY <2>6
  <2>9. \A j \in DOMAIN ps : \E i \in DOMAIN qs : i # 1 /\ qs[i] = ps[j]
    <3> SUFFICES ASSUME NEW j \in DOMAIN ps PROVE \E i \in DOMAIN qs : i # 1 /\ qs[i] = ps[j]
        OBVIOUS
    <3>1. j + 1 \in DOMAIN qs /\ j + 1 # 1 /\ j + 1 \in 2..(Len(ps) + 1) /\ (j + 1) - 1 = j
        BY <2>6
    <3> QED BY <2>6, <3>1
  <2> HIDE DEF f
  <2>10. Extends(qs, 1, ps, f)
      BY <2>6, <2>7, <2>8, <2>9 DEF Extends
  <2>11. Apart(qs) /\ EndsOf(qs) = EndsOf(ps) \cup Ends(p)
      BY <1>1, <2>4, <2>5, <2>6, <2>10, WithEnds
  <2> QED BY <2>3, <2>4, <2>11 DEF qs, ps
<1> QED BY <1>2, <1>3

\* And once it has read, and the counters went down again.
LEMMA NumberAfterEnds ==
    ASSUME Base, HeldByOne(Holdings, fds), ListsApart, CountersDistinct, Me \in Uid,
           NEW st \in Stage, NeedsPipe(st) => CanPipe(fds)
    PROVE  /\ Apart(NumberAfter(st))
           /\ ReadFrom("number", st) \subseteq EndsOf(numberPipes[Me]) \cup NewFor("number", st)
           /\ EndsOf(NumberAfter(st)) = (EndsOf(numberPipes[Me]) \cup NewFor("number", st)) \ ReadFrom("number", st)
<1> DEFINE qs == NumberOpened(st)
           ends == EndsOf(numberPipes[Me]) \cup NewFor("number", st)
<1>1. qs \in Seq(NumberPipe) /\ Apart(qs) /\ EndsOf(qs) = ends
    BY NumberOpenedFacts, NumberOpenedEnds
<1>2. Differ(qs)
    BY OpenedDiffers DEF CountersDistinct, Differ
<1>3. Due(qs) \in SUBSET DOMAIN qs /\ \A i, j \in Due(qs) : i = j
    BY <1>2 DEF Due, Differ
<1>4. DuePipes(st) \subseteq EndsOf(qs)
    BY <1>3 DEF DuePipes, EndsOf
<1>5. DuePipes(st) = UNION {Ends(qs[i]) : i \in Due(qs)}
    BY DEF DuePipes
<1>6. ReadFrom("number", st) = IF Source(st) = "number" THEN DuePipes(st) ELSE {}
    BY DEF ReadFrom, Consumed
<1> HIDE DEF qs, ends
<1>7. Apart(NumberLeft(st)) /\ EndsOf(NumberLeft(st)) = ends \ ReadFrom("number", st)
  <2>1. CASE Source(st) = "number"
    <3>1. NumberLeft(st) = Without(qs, Due(qs))
        BY <2>1 DEF NumberLeft, qs
    <3>2. EndsOf(Without(qs, Due(qs))) = EndsOf(qs) \ DuePipes(st) /\ Apart(Without(qs, Due(qs)))
        BY <1>1, <1>3, <1>5, WithoutEnds
    <3> QED BY <1>1, <1>6, <2>1, <3>1, <3>2
  <2>2. CASE Source(st) # "number"
    <3>1. NumberLeft(st) = qs
        BY <2>2 DEF NumberLeft, qs
    <3> QED BY <1>1, <1>6, <2>2, <3>1
  <2> QED BY <2>1, <2>2
<1>8. NumberLeft(st) \in Seq(NumberPipe)
    BY NumberAfterType
<1>9. Apart(NumberAfter(st)) /\ EndsOf(NumberAfter(st)) = EndsOf(NumberLeft(st))
    BY <1>7, <1>8, TickEnds DEF NumberAfter
<1> QED BY <1>1, <1>4, <1>6, <1>7, <1>9 DEF ends

\* The user pipes once the output of the stage is open.
LEMMA UserOpenedEnds ==
    ASSUME Base, HeldByOne(Holdings, fds), ListsApart, Me \in Uid, NEW st \in Stage, NeedsPipe(st) => CanPipe(fds)
    PROVE  /\ Apart(UserOpened(st))
           /\ EndsOf(UserOpened(st)) = EndsOf(userPipes) \cup NewFor("user", st)
<1>1. userPipes \in Seq(UserPipe) /\ Apart(userPipes) /\ fds \in [Fd -> Descriptor]
    BY DEF Base, TypeOK, ListsApart
<1>2. CASE ~(Made(st) /\ st.write = "user")
  <2>1. UserOpened(st) = userPipes /\ NewFor("user", st) = {}
      BY <1>2 DEF UserOpened, NewFor, NewEnds, Made
  <2> QED BY <1>1, <2>1
<1>3. CASE Made(st) /\ st.write = "user"
  <2> DEFINE p == [from |-> Me, to |-> st.arg, rd |-> ReadEnd(fds), wr |-> WriteEnd(fds)]
             qs == Append(userPipes, p)
  <2>1. CanPipe(fds) /\ NeedsPipe(st) /\ ~WriteFails(st.arg)
      BY <1>3 DEF Made, NeedsPipe
  <2>2. p \in UserPipe
    <3>1. st.arg \in Uid
        BY <2>1, SocksAreFds DEF WriteFails, UidsOf
    <3> QED BY <1>1, <2>1, <3>1, PipeEnds DEF UserPipe
  <2>3. UserOpened(st) = qs
      BY <1>3 DEF UserOpened
  <2>4. Ends(p) = NewFor("user", st) /\ p.rd # p.wr /\ Ends(p) = NewEnds(st)
      BY <1>1, <1>3, <2>1, PipeEnds DEF Ends, NewFor, NewEnds
  <2>5. Ends(p) \cap EndsOf(userPipes) = {}
    <3>1. \A f \in EndsOf(userPipes) : fds[f] = "pipe"
        BY HoldingsAre DEF HeldByOne
    <3>2. \A f \in Ends(p) : fds[f] = "free"
        BY <2>4, NewEndsFacts
    <3> QED BY <3>1, <3>2
  <2> HIDE DEF p
  <2> DEFINE k == Len(userPipes) + 1
  <2>6. /\ DOMAIN qs = DOMAIN userPipes \cup {k} /\ k \notin DOMAIN userPipes
        /\ \A i \in DOMAIN userPipes : qs[i] = userPipes[i]
        /\ qs[k] = p
    <3>1. DOMAIN userPipes = 1..Len(userPipes) /\ Len(userPipes) \in Nat
        BY <1>1, LenProperties
    <3>2. Len(userPipes) + 1 \notin DOMAIN userPipes
        BY <3>1
    <3> QED BY <1>1, <2>2, <3>2, AppendElements
  <2> HIDE DEF qs, k
  <2> DEFINE f == [i \in DOMAIN qs |-> i]
  <2>7. \A i \in DOMAIN qs : i # k => f[i] \in DOMAIN userPipes /\ qs[i] = userPipes[f[i]]
      BY <2>6
  <2>8. \A i, j \in DOMAIN qs : i # k /\ j # k /\ f[i] = f[j] => i = j
      BY <2>6
  <2>9. \A j \in DOMAIN userPipes : \E i \in DOMAIN qs : i # k /\ qs[i] = userPipes[j]
      BY <2>6
  <2> HIDE DEF f
  <2>10. Extends(qs, k, userPipes, f)
      BY <2>6, <2>7, <2>8, <2>9 DEF Extends
  <2>11. Apart(qs) /\ EndsOf(qs) = EndsOf(userPipes) \cup Ends(p)
      BY <1>1, <2>4, <2>5, <2>6, <2>10, WithEnds
  <2> QED BY <2>3, <2>4, <2>11 DEF qs
<1> QED BY <1>2, <1>3

\* The entries from x to the user of the line, once the output of the stage is
\* open, are the one that a rightful "<x" finds.
LEMMA ReadPipe ==
    ASSUME Base, PipePairsDistinct, Me \in Uid, NEW st \in Stage, NeedsPipe(st) => CanPipe(fds),
           Source(st) = "user", userPipes[Lowest(From(st.read))].to = Me
    PROVE  /\ Lowest(From(st.read)) \in DOMAIN userPipes
           /\ userPipes[Lowest(From(st.read))].from = st.read
           /\ PipeTo(UserOpened(st), st.read, Me) = {Lowest(From(st.read))}
           /\ UserOpened(st)[Lowest(From(st.read))] = userPipes[Lowest(From(st.read))]
<1> DEFINE k == Lowest(From(st.read))
<1>1. userPipes \in Seq(UserPipe) /\ DOMAIN userPipes = 1..Len(userPipes) /\ Len(userPipes) \in Nat
    BY LenProperties DEF Base, TypeOK
<1>2. k \in DOMAIN userPipes /\ userPipes[k].from = st.read
  <2>1. From(st.read) # {}
    <3>1. ~ReadFails(st.read) \/ cmd.read = "user"
        BY DEF Source
    <3>2. cmd.read # "user"
        BY DEF Base, TypeOK, Command, ReadKind
    <3> QED BY <3>1, <3>2 DEF ReadFails
  <2>2. From(st.read) \in SUBSET Nat
      BY <1>1 DEF From
  <2>3. k \in From(st.read)
      BY <2>1, <2>2, LowestFacts
  <2> QED BY <2>3 DEF From
<1> HIDE DEF k
<1>3. PipeTo(userPipes, st.read, Me) = {k}
    BY <1>2 DEF PipeTo, PipePairsDistinct, k
<1>4. CASE UserOpened(st) = userPipes
    BY <1>2, <1>3, <1>4 DEF k
<1>5. ASSUME NEW p \in UserPipe, UserOpened(st) = Append(userPipes, p),
             p.from = Me, p.to = st.arg, ~WriteFails(st.arg)
      PROVE  PipeTo(UserOpened(st), st.read, Me) = {k} /\ UserOpened(st)[k] = userPipes[k]
  <2> DEFINE qs == Append(userPipes, p)
  <2>1. /\ DOMAIN qs = DOMAIN userPipes \cup {Len(userPipes) + 1}
        /\ \A i \in DOMAIN userPipes : qs[i] = userPipes[i]
        /\ qs[Len(userPipes) + 1] = p
      BY <1>1, AppendElements
  <2>2. ~(p.from = st.read /\ p.to = Me)
    <3>1. PipeTo(userPipes, Me, st.arg) = {}
        BY <1>5 DEF WriteFails
    <3> QED BY <1>3, <1>5, <3>1
  <2> HIDE DEF qs
  <2>3. PipeTo(qs, st.read, Me) = PipeTo(userPipes, st.read, Me)
      BY <2>1, <2>2 DEF PipeTo
  <2> QED BY <1>2, <1>3, <1>5, <2>1, <2>3 DEF qs
<1> QED BY <1>2, <1>4, <1>5, UserOpenedFacts DEF k

\* And once it has read.
LEMMA UserAfterEnds ==
    ASSUME Base, HeldByOne(Holdings, fds), ListsApart, PipePairsDistinct, Me \in Uid,
           NEW st \in Stage, NeedsPipe(st) => CanPipe(fds),
           Source(st) = "user" => userPipes[Lowest(From(st.read))].to = Me
    PROVE  /\ Apart(UserAfter(st))
           /\ ReadFrom("user", st) \subseteq EndsOf(userPipes)
           /\ EndsOf(UserAfter(st)) = (EndsOf(userPipes) \cup NewFor("user", st)) \ ReadFrom("user", st)
<1> DEFINE L == UserOpened(st)
           S == PipeTo(L, st.read, Me)
<1>1. L \in Seq(UserPipe) /\ Apart(L) /\ EndsOf(L) = EndsOf(userPipes) \cup NewFor("user", st)
    BY UserOpenedFacts, UserOpenedEnds
<1>2. CASE Source(st) # "user"
  <2>1. UserAfter(st) = L /\ ReadFrom("user", st) = {}
      BY <1>2 DEF UserAfter, ReadFrom
  <2> QED BY <1>1, <2>1
<1>3. CASE Source(st) = "user"
  <2> DEFINE k == Lowest(From(st.read))
  <2>1. k \in DOMAIN userPipes /\ S = {k} /\ L[k] = userPipes[k]
      BY <1>3, ReadPipe
  <2>2. UserAfter(st) = Without(L, S) /\ ReadFrom("user", st) = Ends(userPipes[k])
      BY <1>3 DEF UserAfter, ReadFrom, Consumed
  <2>3. S \in SUBSET DOMAIN L
      BY DEF PipeTo
  <2> HIDE DEF k, L, S
  <2>4. UNION {Ends(L[i]) : i \in S} = Ends(userPipes[k])
      BY <2>1
  <2>5. EndsOf(Without(L, S)) = EndsOf(L) \ UNION {Ends(L[i]) : i \in S} /\ Apart(Without(L, S))
      BY <1>1, <2>1, <2>3, WithoutEnds
  <2>6. Ends(userPipes[k]) \subseteq EndsOf(userPipes)
      BY <2>1 DEF EndsOf
  <2> QED BY <1>1, <2>2, <2>4, <2>5, <2>6
<1> QED BY <1>2, <1>3

\* What a stage opens, closes and hands over, as long as no pipe of another is read.
LEMMA StageFds ==
    ASSUME Base, HeldByOne(Holdings, fds), ListsApart, CountersDistinct, PipePairsDistinct,
           RunStage, ~stolen', NEW st, st = Head(cmd.todo)
    PROVE  /\ NewEnds(st) \subseteq Fd /\ \A f \in NewEnds(st) : fds[f] = "free"
           /\ \A f \in Fd : \/ f \in Consumed(st) /\ fds'[f] = "free"
                            \/ f \in NewEnds(st) \ Consumed(st) /\ fds'[f] = "pipe"
                            \/ /\ f \notin Consumed(st) \cup NewEnds(st)
                               /\ fds'[f] = fds[f] \/ (fds[f] \in Connected /\ fds'[f] \in Connected)
           /\ ReadFrom("normal", st) \subseteq Holdings[-1]
           /\ ReadFrom("number", st) \subseteq Holdings[Me] \cup NewFor("number", st)
           /\ ReadFrom("user", st) \subseteq Holdings[0]
           /\ Consumed(st) \subseteq ReadFrom("normal", st) \cup ReadFrom("number", st) \cup ReadFrom("user", st)
           /\ Holdings'[-1] = NewFor("normal", st)
           /\ Holdings'[0] = (Holdings[0] \cup NewFor("user", st)) \ ReadFrom("user", st)
           /\ \A u \in Uid : Holdings'[u] = IF u # Me THEN Holdings[u]
                                            ELSE (Holdings[Me] \cup NewFor("number", st)) \ ReadFrom("number", st)
           /\ Apart(userPipes') /\ \A u \in Uid : Apart(numberPipes'[u])
           /\ cmd'.pipe # << >> => cmd'.pipe[1] # cmd'.pipe[2]
           /\ Me \in Uid /\ Socks' = Socks
<1>1. /\ st \in Stage /\ (NeedsPipe(st) => CanPipe(fds)) /\ Me \in Uid
    BY StageFacts
<1>2. /\ numberPipes' = [numberPipes EXCEPT ![Me] = NumberAfter(st)]
      /\ userPipes' = UserAfter(st)
      /\ SendTo(Audience(st), Close(FdsOpened(st), Consumed(st)))
      /\ cmd' = [cmd EXCEPT !.todo = Tail(@), !.read = NextRead(st),
                   !.pipe = IF st.write = "normal" THEN <<ReadEnd(fds), WriteEnd(fds)>> ELSE << >>]
      /\ stolen' = (stolen \/ (Source(st) = "user" /\ userPipes[Lowest(From(st.read))].to # Me))
      /\ userinfo' = userinfo
    BY DEF RunStage
<1>3. Source(st) = "user" => userPipes[Lowest(From(st.read))].to = Me
    BY <1>2
<1>5. /\ NewEnds(st) \subseteq Fd /\ \A f \in NewEnds(st) : fds[f] = "free"
      /\ \A f \in Fd : FdsOpened(st)[f] = IF f \in NewEnds(st) THEN "pipe" ELSE fds[f]
    BY <1>1, NewEndsFacts
<1>6. \A f \in Fd : \/ f \in Consumed(st) /\ fds'[f] = "free"
                    \/ f \in NewEnds(st) \ Consumed(st) /\ fds'[f] = "pipe"
                    \/ /\ f \notin Consumed(st) \cup NewEnds(st)
                       /\ fds'[f] = fds[f] \/ (fds[f] \in Connected /\ fds'[f] \in Connected)
  <2>1. Alike(Close(FdsOpened(st), Consumed(st)), fds')
      BY <1>2, SendToAlike
  <2>2. \A f \in Fd : Close(FdsOpened(st), Consumed(st))[f] =
                          IF f \in Consumed(st) THEN "free" ELSE FdsOpened(st)[f]
      BY DEF Close
  <2> QED BY <1>5, <2>1, <2>2 DEF Alike, Connected
<1>7. /\ Apart(NumberAfter(st))
      /\ ReadFrom("number", st) \subseteq EndsOf(numberPipes[Me]) \cup NewFor("number", st)
      /\ EndsOf(NumberAfter(st)) = (EndsOf(numberPipes[Me]) \cup NewFor("number", st)) \ ReadFrom("number", st)
    BY <1>1, NumberAfterEnds
<1>8. /\ Apart(UserAfter(st))
      /\ ReadFrom("user", st) \subseteq EndsOf(userPipes)
      /\ EndsOf(UserAfter(st)) = (EndsOf(userPipes) \cup NewFor("user", st)) \ ReadFrom("user", st)
    BY <1>1, <1>3, UserAfterEnds
<1>9. ReadFrom("normal", st) \subseteq ToSet(cmd.pipe)
    BY DEF ReadFrom, Consumed
<1>10. Consumed(st) \subseteq ReadFrom("normal", st) \cup ReadFrom("number", st) \cup ReadFrom("user", st)
    BY DEF ReadFrom, Consumed
<1>11. \A u \in Uid : numberPipes'[u] = IF u = Me THEN NumberAfter(st) ELSE numberPipes[u]
    BY <1>1, <1>2 DEF Base, TypeOK
<1>12. cmd'.pipe = IF st.write = "normal" THEN <<ReadEnd(fds), WriteEnd(fds)>> ELSE << >>
    BY <1>2 DEF Base, TypeOK, Command
<1>13. /\ ToSet(cmd'.pipe) = NewFor("normal", st)
       /\ cmd'.pipe # << >> => cmd'.pipe[1] # cmd'.pipe[2]
  <2>1. CASE st.write # "normal"
      BY <1>12, <2>1, NormalPipe DEF NewFor
  <2>2. CASE st.write = "normal"
    <3>1. NeedsPipe(st) /\ CanPipe(fds) /\ NewFor("normal", st) = {ReadEnd(fds), WriteEnd(fds)}
        BY <1>1, <2>2 DEF NeedsPipe, NewFor, NewEnds
    <3>2. ReadEnd(fds) \in Fd /\ WriteEnd(fds) \in Fd /\ ReadEnd(fds) # WriteEnd(fds)
        BY <3>1, PipeEnds DEF Base, TypeOK
    <3>3. cmd'.pipe \in Fd \X Fd /\ cmd'.pipe # << >>
        BY <1>12, <2>2, <3>2
    <3>4. ToSet(cmd'.pipe) = {cmd'.pipe[1], cmd'.pipe[2]}
        BY <3>3, NormalPipe
    <3> QED BY <1>12, <2>2, <3>1, <3>2, <3>4
  <2> QED BY <2>1, <2>2
<1>14. Holdings'[-1] = ToSet(cmd'.pipe) /\ Holdings'[0] = EndsOf(userPipes')
    BY HoldingsAre DEF Holdings
<1>15. \A u \in Uid : Holdings'[u] = EndsOf(numberPipes'[u])
    BY HoldingsAre DEF Holdings
<1>16. Holdings'[0] = (Holdings[0] \cup NewFor("user", st)) \ ReadFrom("user", st)
    BY <1>2, <1>8, <1>14, HoldingsAre
<1>17. \A u \in Uid : Holdings'[u] = IF u # Me THEN Holdings[u]
                                     ELSE (Holdings[Me] \cup NewFor("number", st)) \ ReadFrom("number", st)
    BY <1>1, <1>7, <1>11, <1>15, HoldingsAre
<1>18. Apart(userPipes') /\ \A u \in Uid : Apart(numberPipes'[u])
    BY <1>2, <1>7, <1>8, <1>11 DEF ListsApart
<1>19. /\ ReadFrom("normal", st) \subseteq Holdings[-1]
       /\ ReadFrom("number", st) \subseteq Holdings[Me] \cup NewFor("number", st)
       /\ ReadFrom("user", st) \subseteq Holdings[0]
    BY <1>1, <1>7, <1>8, <1>9, HoldingsAre
<1>20. Socks' = Socks
    BY <1>2 DEF Socks
<1> HIDE DEF Holdings
<1> QED BY <1>1, <1>5, <1>6, <1>10, <1>13, <1>14, <1>16, <1>17, <1>18, <1>19, <1>20

-----------------------------------------------------------------------------
(* Descriptors are held once *)

LEMMA StageOwned ==
    ASSUME Base, HeldByOne(Holdings, fds), ListsApart, CountersDistinct, PipePairsDistinct,
           RunStage, ~stolen'
    PROVE  HeldByOne(Holdings', fds') /\ ListsApart'
<1> DEFINE st == Head(cmd.todo)
           New == NewEnds(st)
           C == Consumed(st)
<1>1. /\ New \subseteq Fd /\ \A f \in New : fds[f] = "free"
      /\ \A f \in Fd : \/ f \in C /\ fds'[f] = "free"
                       \/ f \in New \ C /\ fds'[f] = "pipe"
                       \/ /\ f \notin C \cup New
                          /\ fds'[f] = fds[f] \/ (fds[f] \in Connected /\ fds'[f] \in Connected)
      /\ Holdings'[-1] = NewFor("normal", st)
      /\ Holdings'[0] = (Holdings[0] \cup NewFor("user", st)) \ ReadFrom("user", st)
      /\ \A u \in Uid : Holdings'[u] = IF u # Me THEN Holdings[u]
                                       ELSE (Holdings[Me] \cup NewFor("number", st)) \ ReadFrom("number", st)
    BY StageFds
<1>2. /\ ReadFrom("normal", st) \subseteq Holdings[-1]
      /\ ReadFrom("number", st) \subseteq Holdings[Me] \cup NewFor("number", st)
      /\ ReadFrom("user", st) \subseteq Holdings[0]
      /\ C \subseteq ReadFrom("normal", st) \cup ReadFrom("number", st) \cup ReadFrom("user", st)
      /\ Apart(userPipes') /\ \A u \in Uid : Apart(numberPipes'[u])
      /\ cmd'.pipe # << >> => cmd'.pipe[1] # cmd'.pipe[2]
      /\ Me \in Uid /\ Socks' = Socks
    BY StageFds
<1>3. NewFor("normal", st) \subseteq New /\ NewFor("number", st) \subseteq New /\ NewFor("user", st) \subseteq New
    BY DEF NewFor
<1>4. /\ st.write # "normal" => NewFor("normal", st) = {}
      /\ st.write # "number" => NewFor("number", st) = {}
      /\ st.write # "user" => NewFor("user", st) = {}
    BY DEF NewFor
<1>5. /\ -1 \in Holder /\ 0 \in Holder /\ Uid \subseteq Holder
      /\ \A h \in Holder : h = -1 \/ h = 0 \/ (h \in Uid /\ h # 0 /\ h # -1)
    BY HoldingsAre
<1>6. /\ ReadFrom("normal", st) = {} \/ (ReadFrom("number", st) = {} /\ ReadFrom("user", st) = {})
      /\ ReadFrom("number", st) = {} \/ ReadFrom("user", st) = {}
    BY DEF ReadFrom
<1> HIDE DEF st, New, C
<1> DEFINE h0 == IF st.write = "normal" THEN -1 ELSE IF st.write = "number" THEN Me ELSE 0
<1>7. h0 \in Holder
    BY <1>2, <1>5
<1>8. \A h \in Holder : Holdings'[h] \subseteq Holdings[h] \cup (IF h = h0 THEN New ELSE {})
    BY <1>1, <1>2, <1>3, <1>4, <1>5
<1>9. \A h \in Holder : \A f \in Holdings'[h] : f \notin C
  <2> SUFFICES ASSUME NEW h \in Holder, NEW f \in Holdings'[h], f \in C PROVE FALSE
      OBVIOUS
  <2>1. f \in Holdings[h] \/ f \in New
      BY <1>8
  <2>2. \A k, m \in Holder : k # m => Holdings[k] \cap Holdings[m] = {}
      BY DEF HeldByOne
  <2>3. \A k \in Holder : Holdings[k] \cap New = {}
      BY <1>1 DEF HeldByOne
  <2>4. CASE f \in ReadFrom("normal", st)
    <3>1. f \in Holdings[-1]
        BY <1>2, <2>4
    <3>2. h # -1 => f \notin Holdings[h]
        BY <1>5, <2>2, <3>1
    <3> QED BY <1>1, <1>3, <1>5, <2>1, <2>3, <3>1, <3>2
  <2>5. CASE f \in ReadFrom("user", st)
    <3>1. f \in Holdings[0]
        BY <1>2, <2>5
    <3>2. h # 0 => f \notin Holdings[h]
        BY <1>5, <2>2, <3>1
    <3>3. f \notin New
        BY <1>5, <2>3, <3>1
    <3> QED BY <1>1, <2>1, <2>5, <3>2, <3>3
  <2>6. CASE f \in ReadFrom("number", st)
    <3>1. Me \in Holder /\ Me # 0 /\ Me # -1
        BY <1>2, <1>5, HoldingsAre
    <3>2. CASE f \in Holdings[Me]
      <4>1. h # Me => f \notin Holdings[h]
          BY <2>2, <3>1, <3>2
      <4>2. f \notin New
          BY <2>3, <3>1, <3>2
      <4> QED BY <1>1, <1>2, <2>1, <2>6, <4>1, <4>2
    <3>3. CASE f \in NewFor("number", st)
      <4>1. h0 = Me
          BY <1>4, <3>3
      <4>2. f \notin Holdings[h]
          BY <1>3, <2>3, <3>3
      <4>3. h = Me
          BY <1>8, <4>1, <4>2
      <4> QED BY <1>1, <1>2, <2>6, <4>3
    <3> QED BY <1>2, <2>6, <3>2, <3>3
  <2> QED BY <1>2, <2>4, <2>5, <2>6
<1>10. \A h \in Holder : \A f \in Holdings'[h] : fds'[f] = "pipe"
  <2> SUFFICES ASSUME NEW h \in Holder, NEW f \in Holdings'[h] PROVE fds'[f] = "pipe"
      OBVIOUS
  <2>1. f \in Holdings[h] \/ f \in New
      BY <1>8
  <2>2. f \in Holdings[h] => f \in Fd /\ fds[f] = "pipe"
      BY HoldingsAreFds DEF HeldByOne
  <2> QED BY <1>1, <1>9, <2>1, <2>2 DEF Connected
<1>11. HeldByOne(Holdings', fds')
  <2>1. HeldByOne(Holdings, fds) /\ \A f \in New : fds[f] = "free"
      BY <1>1
  <2> HIDE DEF h0
  <2>2. Gains(Holdings', Holdings, h0, New)
      BY <1>8 DEF Gains
  <2> QED BY ONLY <1>7, <1>10, <2>1, <2>2, HeldByOneStep
<1>12. \A f \in Socks : fds'[f] \in Connected
  <2> SUFFICES ASSUME NEW f \in Socks PROVE fds'[f] \in Connected
      OBVIOUS
  <2>1. f \in Fd /\ fds[f] \in Connected
      BY SocksAreFds DEF ListsApart
  <2>2. fds[f] # "free" /\ fds[f] # "pipe"
      BY <2>1 DEF Connected
  <2>3. f \notin New
      BY <1>1, <2>2
  <2>4. \A h \in Holder : f \notin Holdings[h]
      BY <2>2 DEF HeldByOne
  <2>5. f \notin C
      BY <1>2, <1>3, <1>5, <2>3, <2>4
  <2> QED BY <1>1, <2>1, <2>3, <2>5
<1> QED BY <1>2, <1>11, <1>12 DEF ListsApart

\* The steps that only take descriptors from lists, or leave them.
LEMMA FewerOwned ==
    ASSUME Base, HeldByOne(Holdings, fds), ListsApart,
           \A h \in Holder : Holdings'[h] \subseteq Holdings[h],
           \A h \in Holder : \A f \in Holdings'[h] : fds[f] = "pipe" => fds'[f] = "pipe",
           Apart(userPipes'), \A u \in Uid : Apart(numberPipes'[u]),
           cmd'.pipe = cmd.pipe \/ cmd'.pipe = << >>,
           \A f \in Socks' : fds'[f] \in Connected
    PROVE  HeldByOne(Holdings', fds') /\ ListsApart'
<1>1. HeldByOne(Holdings', fds')
    BY DEF HeldByOne
<1>2. cmd'.pipe # << >> => cmd'.pipe[1] # cmd'.pipe[2]
    BY DEF ListsApart
<1> QED BY <1>1, <1>2 DEF ListsApart

LEMMA OwnedStep ==
    ASSUME Base, SocksDistinct, CountersDistinct, PipePairsDistinct, Owned, [Next]_vars
    PROVE  Owned'
<1> SUFFICES ASSUME ~stolen' PROVE HeldByOne(Holdings', fds') /\ ListsApart'
    BY DEF Owned, HeldByOne
<1>1. HeldByOne(Holdings, fds) /\ ListsApart
  <2>1. ~stolen
      BY QuietSteps, AcceptFds, LineOverFds, ExitFds DEF Quiet, DropPipe, Leave, RunStage, ghosts
  <2> QED BY <2>1 DEF Owned
<1>2. \A h \in Holder : \A f \in Holdings[h] : f \in Fd /\ fds[f] = "pipe"
    BY <1>1, HoldingsAreFds DEF HeldByOne
<1>3. Socks \subseteq Fd /\ \A f \in Socks : fds[f] \in Connected
    BY <1>1, SocksAreFds DEF ListsApart
<1>4. "pipe" \notin Connected /\ "free" \notin Connected
    BY DEF Connected
<1>5. Apart(userPipes) /\ \A u \in Uid : Apart(numberPipes[u])
    BY <1>1 DEF ListsApart
<1>6. CASE Quiet
    BY <1>1, <1>2, <1>3, <1>4, <1>5, <1>6, QuietHoldings, FewerOwned DEF Quiet, Alike
<1>7. CASE Accept
  <2>1. PICK s \in FreeFds(fds) :
            /\ fds'[s] \in Connected
            /\ \A f \in Fd : f # s => fds'[f] = fds[f] \/ (fds[f] \in Connected /\ fds'[f] \in Connected)
            /\ Socks' \subseteq Socks \cup {s}
      BY <1>7, AcceptFds
  <2>2. fds[s] = "free"
      BY DEF FreeFds
  <2>3. Holdings' = Holdings /\ UNCHANGED <<userPipes, numberPipes, cmd>>
      BY <1>7, AcceptFds
  <2>4. \A h \in Holder : \A f \in Holdings'[h] : fds'[f] = "pipe"
      BY <1>2, <1>4, <2>1, <2>2, <2>3
  <2>5. \A f \in Socks' : fds'[f] \in Connected
      BY <1>3, <2>1
  <2> QED BY <1>1, <1>5, <2>3, <2>4, <2>5, FewerOwned
<1>8. CASE RunStage
    BY <1>1, <1>8, StageOwned
<1>9. CASE LineOver
  <2>1. /\ Alike(fds, fds') /\ Socks' = Socks
        /\ UNCHANGED <<userPipes, numberPipes>> /\ cmd'.pipe = << >>
        /\ \A h \in Holder : Holdings'[h] \subseteq Holdings[h]
      BY <1>9, LineOverFds
  <2>2. \A h \in Holder : \A f \in Holdings'[h] : fds'[f] = "pipe"
      BY <1>2, <1>4, <2>1 DEF Alike
  <2>3. \A f \in Socks' : fds'[f] \in Connected
      BY <1>3, <2>1 DEF Alike
  <2> QED BY <1>1, <1>5, <2>1, <2>2, <2>3, FewerOwned
<1>10. CASE Exit
  <2>1. /\ UNCHANGED <<fds, userPipes>> /\ Socks' = Socks /\ cmd'.pipe = cmd.pipe
        /\ \A h \in Holder : Holdings'[h] \subseteq Holdings[h]
      BY <1>10, ExitFds
  <2>2. \A u \in Uid : Apart(numberPipes'[u])
    <3>1. PICK s \in Socks : numberPipes' = Forget(UidOf(s))
        BY <1>10, ExitFds
    <3>2. Apart(<< >>)
        BY DEF Apart
    <3> QED BY <1>5, <3>1, <3>2 DEF Forget, Base, TypeOK
  <2> QED BY <1>1, <1>3, <1>5, <2>1, <2>2, FewerOwned
<1>11. CASE DropPipe
  <2>1. Apart(userPipes') /\ UNCHANGED <<userinfo, numberPipes, cmd>>
      BY <1>5, <1>11, DropPipeFds
  <2>2. PICK C \in SUBSET Holdings[0] :
            /\ fds' = Close(fds, C)
            /\ \A h \in Holder : Holdings'[h] = IF h = 0 THEN Holdings[0] \ C ELSE Holdings[h]
      BY <1>5, <1>11, DropPipeFds
  <2>3. \A h \in Holder : \A f \in Holdings'[h] : f \notin C
      BY <1>1, <2>2, HoldingsAre DEF HeldByOne
  <2>4. \A h \in Holder : \A f \in Holdings'[h] : fds'[f] = "pipe"
      BY <1>2, <2>2, <2>3 DEF Close
  <2>5. \A f \in Socks' : fds'[f] \in Connected
    <3>1. \A f \in Socks : f \notin C
        BY <1>2, <1>3, <1>4, <2>2, HoldingsAre
    <3> QED BY <1>3, <2>1, <2>2, <3>1 DEF Close, Socks
  <2>6. \A h \in Holder : Holdings'[h] \subseteq Holdings[h]
      BY <2>2
  <2> QED BY <1>1, <1>5, <2>1, <2>4, <2>5, <2>6, FewerOwned
<1>12. CASE Leave
  <2>1. /\ UNCHANGED <<userPipes, numberPipes>> /\ cmd'.pipe = << >>
        /\ cmd.sock \in Socks /\ Socks' = Socks \ {cmd.sock}
        /\ Alike(Close(fds, {cmd.sock}), fds')
        /\ \A h \in Holder : Holdings'[h] \subseteq Holdings[h]
      BY <1>12, LeaveFds
  <2>2. \A f \in Fd : f # cmd.sock => fds'[f] = fds[f] \/ (fds[f] \in Connected /\ fds'[f] \in Connected)
      BY <2>1 DEF Alike, Close
  <2>3. \A h \in Holder : \A f \in Holdings'[h] : fds'[f] = "pipe"
      BY <1>2, <1>3, <1>4, <2>1, <2>2
  <2>4. \A f \in Socks' : fds'[f] \in Connected
      BY <1>3, <2>1, <2>2
  <2> QED BY <1>1, <1>5, <2>1, <2>3, <2>4, FewerOwned
<1> QED BY <1>6, <1>7, <1>8, <1>9, <1>10, <1>11, <1>12, QuietSteps

\* The claims of each holder of pipes.
OwnClaims(h) == IF h = -1 THEN NormalClaims ELSE IF h = 0 THEN UserPipeClaims ELSE NumberClaims(h)

LEMMA ClaimsAre ==
    ASSUME NEW c \in Claims
    PROVE  c \in UserClaims \/ \E h \in Holder : c \in OwnClaims(h)
<1>1. Claims = UserClaims \cup NormalClaims \cup UserPipeClaims \cup UNION {NumberClaims(u) : u \in Uid}
    BY DEF Claims
<1>2. /\ -1 \in Holder /\ 0 \in Holder /\ \A u \in Uid : u \in Holder /\ u # 0 /\ u # -1
    BY HoldingsAre
<1>3. OwnClaims(-1) = NormalClaims /\ OwnClaims(0) = UserPipeClaims /\ \A u \in Uid : OwnClaims(u) = NumberClaims(u)
    BY <1>2 DEF OwnClaims
<1> QED BY <1>1, <1>2, <1>3

LEMMA UserClaimsFacts ==
    ASSUME SocksDistinct
    PROVE  /\ \A c \in UserClaims : c.fd \in Socks /\ c.for[1] = "user"
           /\ \A c, d \in UserClaims : c.fd = d.fd => c = d
<1>1. \A c \in UserClaims : c.fd \in Socks /\ c.for[1] = "user"
    BY DEF UserClaims, Socks, SocksOf
<1>2. ASSUME NEW c \in UserClaims, NEW d \in UserClaims, c.fd = d.fd
      PROVE  c = d
  <2>1. PICK i \in DOMAIN userinfo : c = [for |-> <<"user", i>>, fd |-> userinfo[i].sockid]
      BY DEF UserClaims
  <2>2. PICK j \in DOMAIN userinfo : d = [for |-> <<"user", j>>, fd |-> userinfo[j].sockid]
      BY DEF UserClaims
  <2>3. i = j
    <3>1. userinfo[i].sockid = userinfo[j].sockid
        BY <1>2, <2>1, <2>2
    <3> QED BY <3>1 DEF SocksDistinct
  <2> QED BY <2>1, <2>2, <2>3
<1> QED BY <1>1, <1>2

LEMMA NormalClaimsFacts ==
    ASSUME Base, ListsApart
    PROVE  /\ \A c \in NormalClaims : c.fd \in Holdings[-1] /\ c.for[1] # "user"
           /\ \A c, d \in NormalClaims : c.fd = d.fd => c = d
<1>1. cmd.pipe \in {<< >>} \cup (Fd \X Fd)
    BY DEF Base, TypeOK, Command
<1>2. /\ cmd.pipe = << >> => DOMAIN cmd.pipe = {}
      /\ cmd.pipe # << >> => DOMAIN cmd.pipe = {1, 2} /\ cmd.pipe[1] # cmd.pipe[2]
    BY <1>1, NormalPipe DEF ListsApart
<1>3. \A i \in DOMAIN cmd.pipe : cmd.pipe[i] \in Holdings[-1]
    BY HoldingsAre DEF ToSet
<1>4. \A i, j \in DOMAIN cmd.pipe : cmd.pipe[i] = cmd.pipe[j] => i = j
    BY <1>2
<1>5. ASSUME NEW c \in NormalClaims, NEW d \in NormalClaims, c.fd = d.fd
      PROVE  c = d
  <2>1. PICK i \in DOMAIN cmd.pipe : c = [for |-> <<"normalPipe", i>>, fd |-> cmd.pipe[i]]
      BY DEF NormalClaims
  <2>2. PICK j \in DOMAIN cmd.pipe : d = [for |-> <<"normalPipe", j>>, fd |-> cmd.pipe[j]]
      BY DEF NormalClaims
  <2>3. cmd.pipe[i] = cmd.pipe[j]
      BY <1>5, <2>1, <2>2
  <2> QED BY <1>4, <2>1, <2>2, <2>3
<1>6. \A c \in NormalClaims : c.fd \in Holdings[-1] /\ c.for[1] # "user"
    BY <1>3 DEF NormalClaims
<1> QED BY <1>5, <1>6

LEMMA UserPipeClaimsFacts ==
    ASSUME ListsApart
    PROVE  /\ \A c \in UserPipeClaims : c.fd \in Holdings[0] /\ c.for[1] # "user"
           /\ \A c, d \in UserPipeClaims : c.fd = d.fd => c = d
<1> DEFINE Rd(i) == [for |-> <<"userPipe", i, "rd">>, fd |-> userPipes[i].rd]
           Wr(i) == [for |-> <<"userPipe", i, "wr">>, fd |-> userPipes[i].wr]
<1>1. \A c \in UserPipeClaims : \E i \in DOMAIN userPipes : c = Rd(i) \/ c = Wr(i)
    BY DEF UserPipeClaims
<1>2. \A i \in DOMAIN userPipes : {userPipes[i].rd, userPipes[i].wr} \subseteq Holdings[0]
    BY HoldingsAre DEF EndsOf, Ends
<1>3. \A i : Rd(i).fd = userPipes[i].rd /\ Rd(i).for[1] # "user" /\ Wr(i).fd = userPipes[i].wr /\ Wr(i).for[1] # "user"
    OBVIOUS
<1> HIDE DEF Rd, Wr
<1>4. ASSUME NEW c \in UserPipeClaims, NEW d \in UserPipeClaims, c.fd = d.fd
      PROVE  c = d
  <2>1. PICK i \in DOMAIN userPipes : c = Rd(i) \/ c = Wr(i)
      BY <1>1
  <2>2. PICK j \in DOMAIN userPipes : d = Rd(j) \/ d = Wr(j)
      BY <1>1
  <2>3. /\ userPipes[i].rd # userPipes[j].wr /\ userPipes[j].rd # userPipes[i].wr
        /\ userPipes[i].rd = userPipes[j].rd => i = j
        /\ userPipes[i].wr = userPipes[j].wr => i = j
      BY DEF ListsApart, Apart
  <2> QED BY <1>3, <1>4, <2>1, <2>2, <2>3
<1> QED BY <1>1, <1>2, <1>3, <1>4

LEMMA NumberClaimsFacts ==
    ASSUME ListsApart, NEW u \in Uid
    PROVE  /\ \A c \in NumberClaims(u) : c.fd \in Holdings[u] /\ c.for[1] # "user"
           /\ \A c, d \in NumberClaims(u) : c.fd = d.fd => c = d
<1> DEFINE ps == numberPipes[u]
           Rd(i) == [for |-> <<"numberPipe", u, i, "rd">>, fd |-> ps[i].rd]
           Wr(i) == [for |-> <<"numberPipe", u, i, "wr">>, fd |-> ps[i].wr]
<1>1. \A c \in NumberClaims(u) : \E i \in DOMAIN ps : c = Rd(i) \/ c = Wr(i)
    BY DEF NumberClaims
<1>2. \A i \in DOMAIN ps : {ps[i].rd, ps[i].wr} \subseteq Holdings[u]
    BY HoldingsAre DEF EndsOf, Ends
<1>3. \A i : Rd(i).fd = ps[i].rd /\ Rd(i).for[1] # "user" /\ Wr(i).fd = ps[i].wr /\ Wr(i).for[1] # "user"
    OBVIOUS
<1> HIDE DEF Rd, Wr
<1>4. ASSUME NEW c \in NumberClaims(u), NEW d \in NumberClaims(u), c.fd = d.fd
      PROVE  c = d
  <2>1. PICK i \in DOMAIN ps : c = Rd(i) \/ c = Wr(i)
      BY <1>1
  <2>2. PICK j \in DOMAIN ps : d = Rd(j) \/ d = Wr(j)
      BY <1>1
  <2>3. /\ ps[i].rd # ps[j].wr /\ ps[j].rd # ps[i].wr
        /\ ps[i].rd = ps[j].rd => i = j
        /\ ps[i].wr = ps[j].wr => i = j
      BY DEF ListsApart, Apart
  <2> QED BY <1>3, <1>4, <2>1, <2>2, <2>3
<1> QED BY <1>1, <1>2, <1>3, <1>4

LEMMA OwnClaimsFacts ==
    ASSUME Base, ListsApart, NEW h \in Holder
    PROVE  /\ \A c \in OwnClaims(h) : c.fd \in Holdings[h] /\ c.for[1] # "user"
           /\ \A c, d \in OwnClaims(h) : c.fd = d.fd => c = d
<1>1. h = -1 \/ h = 0 \/ (h \in Uid /\ h # 0 /\ h # -1)
    BY HoldingsAre
<1>2. CASE h = -1
    BY <1>2, NormalClaimsFacts DEF OwnClaims
<1>3. CASE h = 0
    BY <1>3, UserPipeClaimsFacts DEF OwnClaims
<1>4. CASE h \in Uid /\ h # 0 /\ h # -1
    BY <1>4, NumberClaimsFacts DEF OwnClaims
<1> QED BY <1>1, <1>2, <1>3, <1>4

LEMMA OwnedOnce == Base /\ SocksDistinct /\ Owned => FdsHeldOnce
<1> SUFFICES ASSUME Base, SocksDistinct, ListsApart, HeldByOne(Holdings, fds)
             PROVE  /\ \A c \in Claims : fds[c.fd] \in (IF c.for[1] = "user" THEN Connected ELSE {"pipe"})
                    /\ \A c, d \in Claims : c.fd = d.fd => c = d
    BY DEF Owned, FdsHeldOnce
<1>1. \A c \in UserClaims : fds[c.fd] \in Connected /\ c.for[1] = "user"
    BY UserClaimsFacts DEF ListsApart
<1>2. \A h \in Holder : \A c \in OwnClaims(h) : c.fd \in Holdings[h] /\ fds[c.fd] = "pipe" /\ c.for[1] # "user"
    BY OwnClaimsFacts DEF HeldByOne
<1>3. \A c \in Claims : c \in UserClaims \/ \E h \in Holder : c \in OwnClaims(h)
    BY ClaimsAre
<1>4. \A c \in Claims : fds[c.fd] \in (IF c.for[1] = "user" THEN Connected ELSE {"pipe"})
    BY <1>1, <1>2, <1>3
<1>5. ASSUME NEW c \in Claims, NEW d \in Claims, c.fd = d.fd
      PROVE  c = d
  <2>1. CASE c \in UserClaims /\ d \in UserClaims
      BY <1>5, <2>1, UserClaimsFacts
  <2>2. ASSUME NEW h \in Holder, NEW k \in Holder, c \in OwnClaims(h), d \in OwnClaims(k)
        PROVE  c = d
    <3>1. h = k
        BY <1>2, <1>5, <2>2 DEF HeldByOne
    <3> QED BY <1>5, <2>2, <3>1, OwnClaimsFacts
  <2>3. "pipe" \notin Connected
      BY DEF Connected
  <2> QED BY <1>1, <1>2, <1>3, <1>5, <2>1, <2>2, <2>3
<1> QED BY <1>4, <1>5

LEMMA InitOwned == Init => SocksDistinct /\ CountersDistinct /\ PipePairsDistinct /\ Owned
<1> SUFFICES ASSUME Init PROVE SocksDistinct /\ CountersDistinct /\ PipePairsDistinct /\ ListsApart /\ HeldByOne(Holdings, fds)
    BY DEF Owned
<1>1. SocksDistinct /\ CountersDistinct /\ PipePairsDistinct /\ Socks = {}
    BY DEF Init, SocksDistinct, CountersDistinct, PipePairsDistinct, Socks, SocksOf
<1>2. cmd.pipe = << >> /\ userPipes = << >> /\ \A u \in Uid : numberPipes[u] = << >>
    BY DEF Init, NoCmd
<1>3. ListsApart
    BY <1>1, <1>2 DEF ListsApart, Apart
<1>4. EndsOf(<< >>) = {} /\ ToSet(<< >>) = {}
    BY NormalPipe DEF EndsOf
<1>5. \A h \in Holder : Holdings[h] = {}
    BY <1>2, <1>4, HoldingsAre
<1> QED BY <1>1, <1>3, <1>5 DEF HeldByOne

\* What is inductive about the descriptors.
Descriptors == Base /\ SocksDistinct /\ CountersDistinct /\ PipePairsDistinct /\ Owned

LEMMA DescriptorsStep == Descriptors /\ [Next]_vars => Descriptors'
BY NextBase, SocksDistinctStep, CountersStep, PipePairsStep, OwnedStep DEF Descriptors

\* Until a user reads a pipe addressed to another, no table of the server and no
\* line in execution names a descriptor that is closed or in other hands, however
\* pipes are opened, missed, merged, read and dropped at a logout.
THEOREM DescriptorsHeldOnce == Spec => []FdsHeldOnce
<1>1. Init => Descriptors
    BY InitBase, InitOwned DEF Descriptors
<1>2. Descriptors => FdsHeldOnce
    BY OwnedOnce DEF Descriptors
<1> QED BY <1>1, <1>2, DescriptorsStep, PTL DEF Spec

-----------------------------------------------------------------------------
(* Descriptors are not lost *)

\* A normal pipe leads to the next program of the line.
PipeRead == cmd.pipe # << >> => cmd.read = "normal"

LEMMA PipeReadStep == Base /\ PipeRead /\ [Next]_vars => PipeRead'
<1> SUFFICES ASSUME Base, PipeRead, [Next]_vars PROVE PipeRead'
    OBVIOUS
<1>1. CASE cmd' = cmd
    BY <1>1 DEF PipeRead
<1>2. CASE cmd'.pipe = << >>
    BY <1>2 DEF PipeRead
<1>3. CASE RunStage
  <2> DEFINE st == Head(cmd.todo)
  <2>1. /\ cmd'.read = NextRead(st)
        /\ cmd'.pipe = IF st.write = "normal" THEN <<ReadEnd(fds), WriteEnd(fds)>> ELSE << >>
      BY <1>3 DEF RunStage, Base, TypeOK, Command
  <2>2. st.write = "normal" => NextRead(st) = "normal"
      BY DEF NextRead, TicksAgain
  <2> QED BY <2>1, <2>2 DEF PipeRead
<1>4. CASE Accept \/ AcceptFails \/ HangUp \/ Select \/ Spin \/ Down \/ UNCHANGED vars
    BY <1>1, <1>4 DEF Accept, AcceptFails, Die, HangUp, Select, Spin, Down, vars
<1>5. CASE ServeNothing \/ Blank \/ Yell \/ Tell
    BY <1>1, <1>5 DEF ServeNothing, Blank, Yell, Tell
<1>6. CASE PipeFails \/ LineCrashes \/ DropPipe
    BY <1>1, <1>6 DEF PipeFails, LineCrashes, Die, DropPipe
<1>7. CASE EndLine \/ Leave \/ Ask \/ Name \/ SetEnv \/ Block \/ BlockNobody
  <2>1. cmd' = NoCmd
      BY <1>7, AnswersFacts DEF EndLine, Leave, Ask, Name, SetEnv, Block, BlockNobody
  <2> QED BY <1>2, <2>1 DEF NoCmd
<1>8. CASE Run
    BY <1>2, <1>8 DEF Run, NoCmd
<1>9. CASE Exit
    BY <1>2, <1>9 DEF Exit, NoCmd
<1> QED BY <1>3, <1>4, <1>5, <1>6, <1>7, <1>8, <1>9 DEF Next, Work

\* What is held is exactly what is claimed.
LEMMA HoldingsClaimed ==
    ASSUME NEW h \in Holder, NEW f \in Holdings[h]
    PROVE  \E c \in Claims : c.fd = f
<1>1. h = -1 \/ h = 0 \/ (h \in Uid /\ h # 0 /\ h # -1)
    BY HoldingsAre
<1>2. CASE h = -1
  <2>1. PICK i \in DOMAIN cmd.pipe : f = cmd.pipe[i]
      BY <1>2, HoldingsAre DEF ToSet
  <2>2. [for |-> <<"normalPipe", i>>, fd |-> cmd.pipe[i]] \in NormalClaims
      BY DEF NormalClaims
  <2> QED BY <2>1, <2>2 DEF Claims
<1>3. CASE h = 0
  <2>1. PICK i \in DOMAIN userPipes : f = userPipes[i].rd \/ f = userPipes[i].wr
      BY <1>3, HoldingsAre DEF EndsOf, Ends
  <2>2. /\ [for |-> <<"userPipe", i, "rd">>, fd |-> userPipes[i].rd] \in UserPipeClaims
        /\ [for |-> <<"userPipe", i, "wr">>, fd |-> userPipes[i].wr] \in UserPipeClaims
      BY DEF UserPipeClaims
  <2> QED BY <2>1, <2>2 DEF Claims
<1>4. CASE h \in Uid
  <2>1. PICK i \in DOMAIN numberPipes[h] : f = numberPipes[h][i].rd \/ f = numberPipes[h][i].wr
      BY <1>4, HoldingsAre DEF EndsOf, Ends
  <2>2. /\ [for |-> <<"numberPipe", h, i, "rd">>, fd |-> numberPipes[h][i].rd] \in NumberClaims(h)
        /\ [for |-> <<"numberPipe", h, i, "wr">>, fd |-> numberPipes[h][i].wr] \in NumberClaims(h)
      BY DEF NumberClaims
  <2>3. NumberClaims(h) \subseteq Claims
      BY <1>4 DEF Claims
  <2> QED BY <2>1, <2>2, <2>3
<1> QED BY <1>1, <1>2, <1>3, <1>4

Holds(f) == f \in Socks \/ \E h \in Holder : f \in Holdings[h]

UnheldBy == Unheld = {f \in Fd : fds[f] # "free" /\ ~Holds(f)}

LEMMA UnheldIs == Base /\ SocksDistinct /\ ListsApart => UnheldBy
<1> SUFFICES ASSUME Base, SocksDistinct, ListsApart PROVE UnheldBy
    OBVIOUS
<1>1. \A c \in Claims : Holds(c.fd)
    BY ClaimsAre, UserClaimsFacts, OwnClaimsFacts DEF Holds
<1>2. \A f \in Socks : \E c \in Claims : c.fd = f
  <2> SUFFICES ASSUME NEW i \in DOMAIN userinfo PROVE \E c \in Claims : c.fd = userinfo[i].sockid
      BY DEF Socks, SocksOf
  <2>1. [for |-> <<"user", i>>, fd |-> userinfo[i].sockid] \in UserClaims
      BY DEF UserClaims
  <2> QED BY <2>1 DEF Claims
<1>3. \A h \in Holder : \A f \in Holdings[h] : \E c \in Claims : c.fd = f
    BY HoldingsClaimed
<1> QED BY <1>1, <1>2, <1>3 DEF Unheld, UnheldBy, Holds

\* The part of Forgotten that is about the line in execution.
LEMMA PipeForgotten ==
    ASSUME cmd.todo = << >> \/ Head(cmd.todo).read # 0, NEW f \in Holdings[-1]
    PROVE  f \in Forgotten
BY HoldingsAre DEF Forgotten

LEMMA StageLoses ==
    ASSUME Descriptors, ListsApart, HeldByOne(Holdings, fds), PipeRead, RunStage, ~stolen',
           NEW f \in Fd, fds'[f] # "free", ~Holds(f)', fds[f] = "free" \/ Holds(f)
    PROVE  f \in Forgotten
<1> DEFINE st == Head(cmd.todo)
<1>1. /\ \/ f \in Consumed(st) /\ fds'[f] = "free"
         \/ f \in NewEnds(st) \ Consumed(st) /\ fds'[f] = "pipe"
         \/ /\ f \notin Consumed(st) \cup NewEnds(st)
            /\ fds'[f] = fds[f] \/ (fds[f] \in Connected /\ fds'[f] \in Connected)
      /\ Holdings'[-1] = NewFor("normal", st)
      /\ Holdings'[0] = (Holdings[0] \cup NewFor("user", st)) \ ReadFrom("user", st)
      /\ \A u \in Uid : Holdings'[u] = IF u # Me THEN Holdings[u]
                                       ELSE (Holdings[Me] \cup NewFor("number", st)) \ ReadFrom("number", st)
      /\ Me \in Uid /\ Socks' = Socks
    BY StageFds DEF Descriptors
<1>2. f \notin Consumed(st)
    BY <1>1
<1>3. f \notin ReadFrom("number", st) /\ f \notin ReadFrom("user", st) /\ f \notin ReadFrom("normal", st)
    BY <1>2 DEF ReadFrom
<1>4. f \notin Holdings'[-1] /\ f \notin Holdings'[0] /\ f \notin Holdings'[Me] /\ f \notin Socks'
    BY <1>1, HoldingsAre DEF Holds
<1>5. f \notin NewEnds(st)
  <2>1. f \notin NewFor("normal", st) /\ f \notin NewFor("number", st) /\ f \notin NewFor("user", st)
      BY <1>1, <1>3, <1>4
  <2>2. NeedsPipe(st) => st.write \in {"normal", "number", "user"}
      BY DEF NeedsPipe
  <2> QED BY <2>1, <2>2 DEF NewFor, NewEnds
<1>6. fds[f] # "free"
    BY <1>1, <1>2, <1>5 DEF Connected
<1>7. PICK h \in Holder : f \in Holdings[h]
    BY <1>1, <1>4, <1>6 DEF Holds
<1>8. h = -1
  <2>1. h # 0
      BY <1>1, <1>3, <1>4, <1>7
  <2>2. h \notin Uid
      BY <1>1, <1>3, <1>7 DEF Holds
  <2> QED BY <2>1, <2>2, HoldingsAre
<1>9. st.read # 0
  <2> SUFFICES ASSUME st.read = 0 PROVE FALSE
      OBVIOUS
  <2>1. f \in ToSet(cmd.pipe)
      BY <1>7, <1>8, HoldingsAre
  <2>2. cmd.pipe # << >>
      BY <2>1, NormalPipe
  <2>3. Source(st) = "normal"
      BY <2>2 DEF Source, PipeRead
  <2> QED BY <1>2, <2>1, <2>3 DEF Consumed
<1> QED BY <1>7, <1>8, <1>9, PipeForgotten

LEMMA LosesStep ==
    ASSUME Descriptors, PipeRead, [Next]_vars, ~stolen'
    PROVE  Unheld' \ Unheld \subseteq Forgotten
<1>0. /\ Base /\ SocksDistinct /\ Owned /\ Base' /\ SocksDistinct' /\ Owned'
    BY DescriptorsStep DEF Descriptors
<1>1. HeldByOne(Holdings, fds) /\ ListsApart
  <2>1. ~stolen
      BY <1>0, QuietSteps, AcceptFds, LineOverFds, ExitFds DEF Quiet, DropPipe, Leave, RunStage, ghosts
  <2> QED BY <1>0, <2>1 DEF Owned
<1>2. ListsApart'
    BY <1>0 DEF Owned
<1> SUFFICES ASSUME NEW f \in Fd, fds'[f] # "free", ~Holds(f)', fds[f] = "free" \/ Holds(f)
             PROVE  f \in Forgotten
  <2>1. Unheld = {f \in Fd : fds[f] # "free" /\ ~Holds(f)}
      BY <1>0, <1>1, UnheldIs DEF UnheldBy
  <2>2. Unheld' = {f \in Fd : fds'[f] # "free" /\ ~Holds(f)'}
    <3>1. UnheldBy'
        BY <1>0, <1>2, UnheldIs, PTL
    <3> QED BY <3>1 DEF UnheldBy
  <2> QED BY <2>1, <2>2
<1>3. f \notin Socks' /\ \A h \in Holder : f \notin Holdings'[h]
    BY DEF Holds
<1>4. "pipe" \notin Connected /\ "free" \notin Connected
    BY DEF Connected
<1>5. CASE Quiet
    BY <1>0, <1>3, <1>4, <1>5, QuietHoldings DEF Quiet, Alike, Holds
<1>6. CASE Accept
  <2>1. PICK s \in FreeFds(fds) :
            /\ \A g \in Fd : g # s => fds'[g] = fds[g] \/ (fds[g] \in Connected /\ fds'[g] \in Connected)
            /\ Socks \subseteq Socks'
            /\ s \in Socks' \/ Len(userinfo) = MaxUsers
      BY <1>0, <1>6, AcceptFds
  <2>2. Holdings' = Holdings
      BY <1>0, <1>6, AcceptFds
  <2>3. fds[f] = "free"
      BY <1>3, <2>1, <2>2 DEF Holds
  <2>4. f = s
      BY <1>4, <2>1, <2>3
  <2> QED BY <1>3, <1>6, <2>1, <2>4 DEF Accept, Waiting, Forgotten
<1>7. CASE RunStage
    BY <1>1, <1>7, StageLoses
<1>8. CASE LineOver
  <2>1. /\ Alike(fds, fds') /\ Socks' = Socks /\ cmd.todo = << >>
        /\ \A h \in Holder : Holdings'[h] = IF h = -1 THEN {} ELSE Holdings[h]
      BY <1>0, <1>8, LineOverFds
  <2>2. f \in Holdings[-1]
      BY <1>3, <1>4, <2>1 DEF Alike, Holds
  <2> QED BY <2>1, <2>2, PipeForgotten
<1>9. CASE Exit
  <2>1. PICK s \in Socks :
            /\ cmd'.leaving /\ cmd'.sock = s
            /\ \A h \in Holder : Holdings'[h] = IF h = UidOf(s) THEN {} ELSE Holdings[h]
      BY <1>0, <1>9, ExitFds
  <2>2. fds' = fds /\ Socks' = Socks
      BY <1>0, <1>9, ExitFds
  <2>3. f \in Holdings[UidOf(s)]
      BY <1>3, <2>1, <2>2 DEF Holds
  <2>4. PosOf(s) \in DOMAIN userinfo /\ userinfo[PosOf(s)].sockid = s /\ UidOf(s) \in Uid
      BY <1>0, Sender
  <2>5. f \in EndsOf(numberPipes[userinfo[PosOf(s)].uid])
      BY <2>3, <2>4, HoldingsAre DEF UidOf
  <2> QED BY <2>1, <2>4, <2>5 DEF Forgotten
<1>10. CASE DropPipe
  <2>1. PICK C \in SUBSET Holdings[0] :
            /\ fds' = Close(fds, C)
            /\ \A h \in Holder : Holdings'[h] = IF h = 0 THEN Holdings[0] \ C ELSE Holdings[h]
      BY <1>0, <1>1, <1>10, DropPipeFds DEF ListsApart
  <2>2. f \notin C /\ fds[f] # "free"
      BY <2>1 DEF Close
  <2>3. Socks' = Socks
      BY <1>10 DEF DropPipe, Socks
  <2> QED BY <1>3, <2>1, <2>2, <2>3 DEF Holds
<1>11. CASE Leave
  <2>1. /\ cmd.todo = << >> /\ Socks' = Socks \ {cmd.sock}
        /\ Alike(Close(fds, {cmd.sock}), fds')
        /\ \A h \in Holder : Holdings'[h] = IF h = -1 THEN {} ELSE Holdings[h]
      BY <1>0, <1>11, LeaveFds
  <2>2. f # cmd.sock /\ fds[f] # "free"
      BY <1>4, <2>1 DEF Alike, Close
  <2>3. f \in Holdings[-1]
      BY <1>3, <2>1, <2>2 DEF Holds
  <2> QED BY <2>1, <2>3, PipeForgotten
<1> QED BY <1>0, <1>5, <1>6, <1>7, <1>8, <1>9, <1>10, <1>11, QuietSteps

\* Every descriptor the server is done with is closed, but for those it forgets
\* in one of the ways of Forgotten: no line, no merged or missed number pipe and
\* no logout loses another, in any order.
THEOREM OnlyForgottenLost == Spec => LosesOnlyForgotten
<1>1. Init => Descriptors /\ PipeRead
  <2>1. Init => PipeRead
      BY DEF Init, NoCmd, PipeRead
  <2> QED BY <2>1, InitBase, InitOwned DEF Descriptors
<1>2. Descriptors /\ PipeRead /\ [Next]_vars => (Descriptors /\ PipeRead)'
  <2>1. Descriptors => Base
      BY DEF Descriptors
  <2> QED BY <2>1, DescriptorsStep, PipeReadStep
<1>3. Descriptors /\ PipeRead /\ [Next]_vars => [~stolen' => Unheld' \ Unheld \subseteq Forgotten]_vars
    BY LosesStep
<1> QED BY <1>1, <1>2, <1>3, PTL DEF Spec, LosesOnlyForgotten
-----------------------------------------------------------------------------
(* The server implements the chat room *)

\* The room that table t and pipes ps make, without the users G who are leaving.
NickOf(t, u) == t[IndexById(t, u)].name
Members(t, G) == [u \in UidsOf(t) \ G |-> NickOf(t, u)]
Pairs(ps) == {<<ps[i].from, ps[i].to>> : i \in DOMAIN ps}
PairsBut(ps, G) == {p \in Pairs(ps) : p[1] \notin G /\ p[2] \notin G}
Gone == IF cmd.leaving THEN {Me} ELSE {}

RoomBy == RoomMembers = Members(userinfo, Gone) /\ RoomPipes = PairsBut(userPipes, Gone)

LEMMA RoomIs == RoomBy
<1>1. \A u : Leaving(u) <=> u \in Gone
    BY DEF Leaving, Gone
<1>2. {userinfo[i].uid : i \in Staying} = UidsOf(userinfo) \ Gone
    BY <1>1 DEF Staying, UidsOf
<1>3. RoomMembers = Members(userinfo, Gone)
    BY <1>2 DEF RoomMembers, Members, NickOf
<1>4. RoomPipes = PairsBut(userPipes, Gone)
    BY <1>1 DEF RoomPipes, PairsBut, Pairs
<1> QED BY <1>3, <1>4 DEF RoomBy

\* A uid leads to the one user who has it.
LEMMA NickOfUser ==
    ASSUME NEW t \in Seq(UserRecord), Increasing(t), NEW i \in DOMAIN t
    PROVE  NickOf(t, t[i].uid) = t[i].name
<1>1. \A j \in DOMAIN t : t[j] \in UserRecord
    BY ElementOfSeq, LenProperties
<1>2. \A j \in DOMAIN t : t[j].uid \in Uid
    BY <1>1 DEF UserRecord
<1> QED BY <1>2, IndexOfUser DEF NickOf

LEMMA RoomFrame ==
    ASSUME Base, [Next]_vars
    PROVE  \/ Accept \/ Name \/ RunStage \/ Exit \/ DropPipe \/ Leave
           \/ UNCHANGED <<userinfo, userPipes>> /\ Gone' = Gone
<1>1. CASE AcceptFails \/ HangUp \/ Select \/ Spin \/ Down \/ PipeFails \/ LineCrashes \/ UNCHANGED vars
    BY <1>1 DEF AcceptFails, PipeFails, LineCrashes, Die, HangUp, Select, Spin, Down, vars, tables, Gone, Me
<1>2. CASE ServeNothing \/ Blank \/ Yell \/ Tell
    BY <1>2 DEF ServeNothing, Blank, Yell, Tell, tables, Gone, Me
<1>3. CASE Run
  <2>1. ~cmd.leaving /\ ~cmd'.leaving /\ UNCHANGED <<userinfo, userPipes>>
      BY <1>3, ServedIsUser DEF Run, Reads, NoCmd
  <2> QED BY <2>1 DEF Gone
<1>4. CASE EndLine
  <2>1. ~cmd.leaving /\ ~cmd'.leaving /\ UNCHANGED <<userinfo, userPipes>>
      BY <1>4 DEF EndLine, Started, tables, NoCmd
  <2> QED BY <2>1 DEF Gone
<1>5. CASE Ask \/ SetEnv \/ Block \/ BlockNobody
  <2>1. ~cmd.leaving /\ cmd' = NoCmd /\ UNCHANGED <<userinfo, userPipes>>
      BY <1>5, AnswersFacts DEF Ask, SetEnv, Block, BlockNobody
  <2> QED BY <2>1 DEF Gone, NoCmd
<1> QED BY <1>1, <1>2, <1>3, <1>4, <1>5 DEF Next, Work

\* The members after a step, when the new table has the users of the old one.
LEMMA SameMembers ==
    ASSUME NEW t \in Seq(UserRecord), Increasing(t), NEW v \in Seq(UserRecord), Increasing(v), NEW G,
           \A i \in DOMAIN t : t[i].uid \notin G =>
               \E j \in DOMAIN v : v[j].uid = t[i].uid /\ v[j].name = t[i].name,
           \A j \in DOMAIN v : v[j].uid \notin G =>
               \E i \in DOMAIN t : v[j].uid = t[i].uid
    PROVE  Members(v, G) = Members(t, G)
<1>1. UidsOf(v) \ G = UidsOf(t) \ G
    BY DEF UidsOf
<1>2. ASSUME NEW u \in UidsOf(t) \ G PROVE NickOf(v, u) = NickOf(t, u)
  <2>1. PICK i \in DOMAIN t : t[i].uid = u
      BY DEF UidsOf
  <2>2. PICK j \in DOMAIN v : v[j].uid = u /\ v[j].name = t[i].name
      BY <2>1
  <2> QED BY <2>1, <2>2, NickOfUser
<1> QED BY <1>1, <1>2 DEF Members

Serves == Room!Next \/ UNCHANGED <<RoomMembers, RoomPipes>>

\* A client that is let in is a member that arrives.
LEMMA AcceptArrives == Base /\ Accept /\ Base' => Serves
<1> SUFFICES ASSUME Base, Accept, Base' PROVE Serves
    OBVIOUS
<1>1. /\ RoomMembers = Members(userinfo, Gone) /\ RoomPipes = PairsBut(userPipes, Gone)
      /\ RoomMembers' = Members(userinfo', Gone') /\ RoomPipes' = PairsBut(userPipes', Gone')
  <2>1. RoomBy'
      BY RoomIs, PTL
  <2> QED BY <2>1, RoomIs DEF RoomBy
<1>2. Gone = {} /\ Gone' = {} /\ userPipes' = userPipes
    BY DEF Accept, Waiting, Idle, NoCmd, Gone
<1>3. RoomPipes' = RoomPipes
    BY <1>1, <1>2
<1>4. CASE userinfo' = userinfo
    BY <1>1, <1>2, <1>4 DEF Serves
<1>5. CASE userinfo' # userinfo
  <2>0. PICK s \in Fd \ Socks :
            \E k \in Uid \ UidsOf(userinfo), e \in UserRecord :
                /\ k \in 1..(Len(userinfo) + 1)
                /\ e = [sockid |-> s, uid |-> k, name |-> NoName]
                /\ userinfo' = InsertAt(userinfo, k, e)
                /\ 1..(k - 1) \subseteq UidsOf(userinfo)
      BY <1>5, AcceptInserts
  <2>1. PICK k \in Uid \ UidsOf(userinfo), e \in UserRecord :
            /\ k \in 1..(Len(userinfo) + 1)
            /\ e = [sockid |-> s, uid |-> k, name |-> NoName]
            /\ userinfo' = InsertAt(userinfo, k, e)
            /\ 1..(k - 1) \subseteq UidsOf(userinfo)
      BY <2>0
  <2>2. /\ userinfo \in Seq(UserRecord) /\ Increasing(userinfo)
        /\ userinfo' \in Seq(UserRecord) /\ Increasing(userinfo')
      BY DEF Base, TypeOK, UidsIncreasing
  <2>3. userinfo \in Seq(UserRecord) /\ e \in UserRecord /\ k \in 1..(Len(userinfo) + 1)
      BY <2>1, <2>2
  <2> DEFINE t == InsertAt(userinfo, k, e)
  <2>4. /\ k \in DOMAIN t /\ t[k] = e
        /\ \A i \in DOMAIN userinfo : \E j \in DOMAIN t : t[j] = userinfo[i]
        /\ \A j \in DOMAIN t : j = k \/ \E i \in DOMAIN userinfo : t[j] = userinfo[i]
      BY ONLY <2>3, InsertKeepsAll
  <2>5. userinfo' = t
      BY <2>1
  <2> HIDE DEF t
  <2>6. e.uid = k /\ e.name = NoName /\ k \in DOMAIN userinfo' /\ userinfo'[k] = e
      BY <2>1, <2>4, <2>5
  <2>7. UidsOf(userinfo') = UidsOf(userinfo) \cup {k}
      BY <2>4, <2>5, <2>6 DEF UidsOf
  <2>8. NickOf(userinfo', k) = NoName
      BY <2>2, <2>6, NickOfUser
  <2>9. \A v \in UidsOf(userinfo) : NickOf(userinfo', v) = NickOf(userinfo, v)
    <3> SUFFICES ASSUME NEW i \in DOMAIN userinfo
                 PROVE  NickOf(userinfo', userinfo[i].uid) = NickOf(userinfo, userinfo[i].uid)
        BY DEF UidsOf
    <3>1. PICK j \in DOMAIN userinfo' : userinfo'[j] = userinfo[i]
        BY <2>4, <2>5
    <3> QED BY <2>2, <3>1, NickOfUser
  <2>10. /\ DOMAIN RoomMembers = UidsOf(userinfo)
         /\ RoomMembers' = [v \in UidsOf(userinfo) \cup {k} |-> IF v = k THEN NoName ELSE RoomMembers[v]]
      BY <1>1, <1>2, <2>7, <2>8, <2>9 DEF Members
  <2>11. Room!Arrive
      BY <1>3, <2>1, <2>10 DEF Room!Arrive, Room!Present, Uid
  <2> QED BY <2>11 DEF Serves, Room!Next
<1> QED BY <1>4, <1>5

\* A nickname that is given is one that no member has.
LEMMA NameRenames == Base /\ Name /\ Base' => Serves
<1> SUFFICES ASSUME Base, Name, Base' PROVE Serves
    OBVIOUS
<1>1. /\ RoomMembers = Members(userinfo, Gone) /\ RoomPipes = PairsBut(userPipes, Gone)
      /\ RoomMembers' = Members(userinfo', Gone') /\ RoomPipes' = PairsBut(userPipes', Gone')
  <2>1. RoomBy'
      BY RoomIs, PTL
  <2> QED BY <2>1, RoomIs DEF RoomBy
<1>2. Gone = {} /\ Gone' = {} /\ userPipes' = userPipes
    BY AnswersFacts DEF Name, NoCmd, Gone
<1>3. RoomPipes' = RoomPipes
    BY <1>1, <1>2
<1>4. /\ userinfo \in Seq(UserRecord) /\ Increasing(userinfo)
      /\ userinfo' \in Seq(UserRecord) /\ Increasing(userinfo')
    BY DEF Base, TypeOK, UidsIncreasing
<1>5. UidsOf(userinfo') = UidsOf(userinfo)
    BY NameKeeps
<1>6. /\ \A i \in DOMAIN userinfo : NickOf(userinfo, userinfo[i].uid) = userinfo[i].name
      /\ \A i \in DOMAIN userinfo : NickOf(userinfo', userinfo[i].uid) = userinfo'[i].name
    BY <1>4, NameFacts, NickOfUser
<1>7. DOMAIN RoomMembers = UidsOf(userinfo) /\ \A u \in UidsOf(userinfo) : RoomMembers[u] = NickOf(userinfo, u)
    BY <1>1, <1>2 DEF Members
<1>8. RoomMembers' = [u \in UidsOf(userinfo) |-> NickOf(userinfo', u)]
    BY <1>1, <1>2, <1>5 DEF Members
<1>9. CASE \A i \in DOMAIN userinfo : userinfo'[i].name = userinfo[i].name
  <2>1. \A u \in UidsOf(userinfo) : NickOf(userinfo', u) = NickOf(userinfo, u)
      BY <1>6, <1>9 DEF UidsOf
  <2>2. RoomMembers' = RoomMembers
      BY <1>1, <1>2, <1>8, <2>1 DEF Members
  <2> QED BY <1>3, <2>2 DEF Serves
<1>10. ASSUME NEW k \in DOMAIN userinfo, NEW n \in NickNames, ~NameTaken(n),
              \A i \in DOMAIN userinfo : userinfo'[i].name = IF i = k THEN n ELSE userinfo[i].name
       PROVE  Room!Rename
  <2> DEFINE u == userinfo[k].uid
  <2>1. u \in UidsOf(userinfo)
      BY DEF UidsOf
  <2>2. \A v \in UidsOf(userinfo) : NickOf(userinfo, v) # n
      BY <1>6, <1>10 DEF UidsOf, NameTaken
  <2>3. \A i \in DOMAIN userinfo : i # k => userinfo[i].uid # u
    <3>1. DOMAIN userinfo \subseteq Nat /\ \A i \in DOMAIN userinfo : userinfo[i].uid \in Nat
        BY <1>4, RecordsHaveUids
    <3>2. \A i \in DOMAIN userinfo : i # k => i < k \/ k < i
        BY <3>1
    <3> QED BY <1>4, <3>1, <3>2 DEF Increasing
  <2>4. \A v \in UidsOf(userinfo) : NickOf(userinfo', v) = IF v = u THEN n ELSE NickOf(userinfo, v)
    <3> SUFFICES ASSUME NEW i \in DOMAIN userinfo
                 PROVE  NickOf(userinfo', userinfo[i].uid) =
                            IF userinfo[i].uid = u THEN n ELSE NickOf(userinfo, userinfo[i].uid)
        BY DEF UidsOf
    <3>1. NickOf(userinfo', userinfo[i].uid) = IF i = k THEN n ELSE userinfo[i].name
        BY <1>6, <1>10
    <3>2. NickOf(userinfo, userinfo[i].uid) = userinfo[i].name
        BY <1>6
    <3>3. userinfo[i].uid = u <=> i = k
        BY <2>3
    <3> QED BY <3>1, <3>2, <3>3
  <2> HIDE DEF u
  <2>5. RoomMembers' = [RoomMembers EXCEPT ![u] = n]
    <3>1. RoomMembers = [v \in UidsOf(userinfo) |-> NickOf(userinfo, v)]
        BY <1>1, <1>2 DEF Members
    <3> QED BY <1>8, <2>4, <3>1
  <2>6. \A v \in DOMAIN RoomMembers : RoomMembers[v] # n
      BY <1>7, <2>2
  <2>7. u \in DOMAIN RoomMembers
      BY <1>7, <2>1
  <2> QED BY <1>3, <2>5, <2>6, <2>7 DEF Room!Rename, Room!Present
<1> QED BY <1>9, <1>10, NameFacts DEF Serves, Room!Next

\* The table without the user that left has lost that user's uid.
LEMMA MeIsGone ==
    ASSUME Base, cmd.sock # 0
    PROVE  Me \notin UidsOf(RemoveAt(userinfo, IndexBySock(userinfo, cmd.sock)))
<1> DEFINE k == IndexBySock(userinfo, cmd.sock)
<1>1. userinfo \in Seq(UserRecord) /\ Increasing(userinfo) /\ DOMAIN userinfo = 1..Len(userinfo)
    BY LenProperties DEF Base, TypeOK, UidsIncreasing
<1>2. k \in 1..Len(userinfo) /\ userinfo[k].uid = Me
    BY <1>1, MeIsUser DEF Me
<1> HIDE DEF k
<1>3. \A i \in DOMAIN RemoveAt(userinfo, k) : \E j \in DOMAIN userinfo \ {k} : RemoveAt(userinfo, k)[i] = userinfo[j]
    BY <1>1, <1>2, RemoveElements
<1>4. \A j \in DOMAIN userinfo \ {k} : userinfo[j].uid # Me
  <2>1. DOMAIN userinfo \subseteq Nat /\ \A j \in DOMAIN userinfo : userinfo[j].uid \in Nat
      BY <1>1, RecordsHaveUids
  <2>2. \A j \in DOMAIN userinfo \ {k} : j < k \/ k < j
      BY <1>1, <1>2, <2>1
  <2> QED BY <1>1, <1>2, <2>1, <2>2 DEF Increasing
<1> QED BY <1>3, <1>4 DEF UidsOf, k

\* A list that loses an entry loses its pair, and no other.
LEMMA RemovePairs ==
    ASSUME NEW T, NEW ps \in Seq(T), NEW k \in 1..Len(ps)
    PROVE  Pairs(RemoveAt(ps, k)) = {<<ps[i].from, ps[i].to>> : i \in DOMAIN ps \ {k}}
<1> DEFINE t == RemoveAt(ps, k)
<1>1. /\ \A i \in DOMAIN t : \E j \in DOMAIN ps \ {k} : t[i] = ps[j]
      /\ \A j \in DOMAIN ps \ {k} : \E i \in DOMAIN t : t[i] = ps[j]
    BY RemoveElements
<1> HIDE DEF t
<1>2. Pairs(t) = {<<ps[i].from, ps[i].to>> : i \in DOMAIN ps \ {k}}
    BY <1>1 DEF Pairs
<1> QED BY <1>2 DEF t

\* A pair that is found once is lost when its entry is taken out.
LEMMA WithoutPair ==
    ASSUME NEW ps \in Seq(UserPipe), NEW x, NEW y,
           \A i, j \in PipeTo(ps, x, y) : i = j
    PROVE  Pairs(Without(ps, PipeTo(ps, x, y))) = Pairs(ps) \ {<<x, y>>}
<1> DEFINE S == PipeTo(ps, x, y)
<1>1. S \in SUBSET DOMAIN ps /\ \A i \in DOMAIN ps : i \in S <=> ps[i].from = x /\ ps[i].to = y
    BY DEF PipeTo
<1>2. CASE S = {}
  <2>1. <<x, y>> \notin Pairs(ps)
      BY <1>1, <1>2 DEF Pairs
  <2> QED BY <1>2, <2>1 DEF Without
<1>3. CASE S # {}
  <2>1. DOMAIN ps = 1..Len(ps)
      BY LenProperties
  <2>2. S \in SUBSET Nat
      BY <1>1, <2>1
  <2>3. Lowest(S) \in S
      BY <1>3, <2>2, LowestFacts
  <2>4. Lowest(S) \in 1..Len(ps)
      BY <1>1, <2>1, <2>3
  <2>5. Without(ps, S) = RemoveAt(ps, Lowest(S))
      BY <1>3 DEF Without
  <2>6. Pairs(Without(ps, S)) = {<<ps[i].from, ps[i].to>> : i \in DOMAIN ps \ {Lowest(S)}}
      BY <2>4, <2>5, RemovePairs
  <2>7. \A i \in DOMAIN ps : i = Lowest(S) <=> <<ps[i].from, ps[i].to>> = <<x, y>>
      BY <1>1, <2>3
  <2> HIDE DEF S
  <2>8. Pairs(Without(ps, S)) = Pairs(ps) \ {<<x, y>>}
      BY <2>6, <2>7 DEF Pairs
  <2> QED BY <2>8 DEF S
<1> QED BY <1>2, <1>3

\* What a program of a line does to the pairs: it may open one to a user it
\* has none to, and then take one away that leads to its own user.
LEMMA StagePairs ==
    ASSUME Base, PipePairsDistinct, RunStage
    PROVE  \E L :
              /\ \/ L = Pairs(userPipes)
                 \/ \E y \in UidsOf(userinfo) : <<Me, y>> \notin Pairs(userPipes) /\ L = Pairs(userPipes) \cup {<<Me, y>>}
              /\ \/ Pairs(userPipes') = L
                 \/ \E x \in UidsOf(userinfo) : Pairs(userPipes') = L \ {<<x, Me>>}
<1> DEFINE st == Head(cmd.todo)
           L == UserOpened(st)
<1>1. st \in Stage /\ (NeedsPipe(st) => CanPipe(fds)) /\ Me \in Uid
    BY StageFacts
<1>2. userPipes' = UserAfter(st)
    BY DEF RunStage
<1> HIDE DEF st
<1>3. /\ L \in Seq(UserPipe)
      /\ \/ L = userPipes
         \/ \E p \in UserPipe :
               L = Append(userPipes, p) /\ p.from = Me /\ p.to = st.arg /\ ~WriteFails(st.arg)
    BY <1>1, UserOpenedFacts
<1>4. ASSUME NEW p \in UserPipe, L = Append(userPipes, p), p.from = Me, p.to = st.arg, ~WriteFails(st.arg)
      PROVE  /\ Pairs(L) = Pairs(userPipes) \cup {<<Me, st.arg>>}
             /\ <<Me, st.arg>> \notin Pairs(userPipes)
             /\ st.arg \in UidsOf(userinfo)
             /\ \A i, j \in DOMAIN L : L[i].from = L[j].from /\ L[i].to = L[j].to => i = j
  <2>1. userPipes \in Seq(UserPipe)
      BY DEF Base, TypeOK
  <2>2. /\ DOMAIN L = DOMAIN userPipes \cup {Len(userPipes) + 1}
        /\ \A i \in DOMAIN userPipes : L[i] = userPipes[i]
        /\ L[Len(userPipes) + 1] = p
      BY <1>4, <2>1, AppendElements
  <2> HIDE DEF L
  <2>3. Pairs(L) = Pairs(userPipes) \cup {<<Me, st.arg>>}
      BY <1>4, <2>2 DEF Pairs
  <2>4. \A i \in DOMAIN userPipes : ~(userPipes[i].from = Me /\ userPipes[i].to = st.arg)
      BY <1>4 DEF WriteFails, PipeTo
  <2>5. <<Me, st.arg>> \notin Pairs(userPipes)
      BY <2>4 DEF Pairs
  <2>6. \A i, j \in DOMAIN L : L[i].from = L[j].from /\ L[i].to = L[j].to => i = j
      BY <1>4, <2>2, <2>4 DEF PipePairsDistinct
  <2> QED BY <1>4, <2>3, <2>5, <2>6 DEF WriteFails
<1>5. /\ \/ Pairs(L) = Pairs(userPipes)
         \/ \E y \in UidsOf(userinfo) : <<Me, y>> \notin Pairs(userPipes) /\ Pairs(L) = Pairs(userPipes) \cup {<<Me, y>>}
      /\ \A i, j \in DOMAIN L : L[i].from = L[j].from /\ L[i].to = L[j].to => i = j
    BY <1>3, <1>4 DEF PipePairsDistinct
<1>6. CASE Source(st) # "user"
    BY <1>2, <1>5, <1>6 DEF UserAfter
<1>7. CASE Source(st) = "user"
  <2>1. st.read \in UidsOf(userinfo)
    <3>1. cmd.read # "user"
        BY DEF Base, TypeOK, Command, ReadKind
    <3> QED BY <1>7, <3>1 DEF Source, ReadFails
  <2>2. \A i, j \in PipeTo(L, st.read, Me) : i = j
      BY <1>5 DEF PipeTo
  <2>3. userPipes' = Without(L, PipeTo(L, st.read, Me))
      BY <1>2, <1>7 DEF UserAfter
  <2> HIDE DEF L
  <2>4. Pairs(userPipes') = Pairs(L) \ {<<st.read, Me>>}
      BY <1>3, <2>2, <2>3, WithoutPair
  <2> QED BY <1>5, <2>1, <2>4
<1> QED BY <1>6, <1>7

\* A program that opens a user pipe, takes one, or both is an exchange.
LEMMA StageExchanges == Base /\ PipePairsDistinct /\ RunStage => Serves
<1> SUFFICES ASSUME Base, PipePairsDistinct, RunStage PROVE Serves
    OBVIOUS
<1>1. /\ RoomMembers = Members(userinfo, Gone) /\ RoomPipes = PairsBut(userPipes, Gone)
      /\ RoomMembers' = Members(userinfo', Gone') /\ RoomPipes' = PairsBut(userPipes', Gone')
  <2>1. RoomBy'
      BY RoomIs, PTL
  <2> QED BY <2>1, RoomIs DEF RoomBy
<1>2. Gone = {} /\ Gone' = {} /\ userinfo' = userinfo
  <2>1. cmd \in Command /\ ~cmd.leaving
      BY StageFacts DEF Base, TypeOK
  <2>2. cmd'.leaving = cmd.leaving
      BY <2>1 DEF RunStage, Command
  <2> QED BY <2>1, <2>2 DEF RunStage, Gone
<1>3. /\ RoomMembers' = RoomMembers /\ DOMAIN RoomMembers = UidsOf(userinfo)
      /\ RoomPipes = Pairs(userPipes) /\ RoomPipes' = Pairs(userPipes')
    BY <1>1, <1>2 DEF Members, PairsBut
<1>4. Me \in UidsOf(userinfo)
    BY StageFacts
<1>5. PICK L :
        /\ \/ L = Pairs(userPipes)
           \/ \E y \in UidsOf(userinfo) : <<Me, y>> \notin Pairs(userPipes) /\ L = Pairs(userPipes) \cup {<<Me, y>>}
        /\ \/ Pairs(userPipes') = L
           \/ \E x \in UidsOf(userinfo) : Pairs(userPipes') = L \ {<<x, Me>>}
    BY StagePairs
<1>6. PICK opened \in SUBSET UidsOf(userinfo) :
        /\ \A v, w \in opened : v = w
        /\ \A v \in opened : <<Me, v>> \notin Pairs(userPipes)
        /\ L = Pairs(userPipes) \cup {<<Me, v>> : v \in opened}
  <2>1. CASE L = Pairs(userPipes)
    <3>1. L = Pairs(userPipes) \cup {<<Me, v>> : v \in {}}
        BY <2>1
    <3> QED BY <3>1
  <2>2. ASSUME NEW y \in UidsOf(userinfo), <<Me, y>> \notin Pairs(userPipes), L = Pairs(userPipes) \cup {<<Me, y>>}
        PROVE  \E opened \in SUBSET UidsOf(userinfo) :
                  /\ \A v, w \in opened : v = w
                  /\ \A v \in opened : <<Me, v>> \notin Pairs(userPipes)
                  /\ L = Pairs(userPipes) \cup {<<Me, v>> : v \in opened}
    <3>1. /\ {y} \in SUBSET UidsOf(userinfo) /\ \A v, w \in {y} : v = w
          /\ \A v \in {y} : <<Me, v>> \notin Pairs(userPipes)
          /\ L = Pairs(userPipes) \cup {<<Me, v>> : v \in {y}}
        BY <2>2
    <3> QED BY <3>1
  <2> QED BY <1>5, <2>1, <2>2
<1>7. ASSUME NEW taken \in SUBSET UidsOf(userinfo), \A v, w \in taken : v = w,
             \A v \in taken : <<v, Me>> \in RoomPipes,
             RoomPipes' = (RoomPipes \ {<<v, Me>> : v \in taken}) \cup {<<Me, v>> : v \in opened}
      PROVE  Serves
  <2>1. /\ Me \in Room!Present /\ taken \in SUBSET Room!Present /\ opened \in SUBSET Room!Present
        /\ \A v \in opened : <<Me, v>> \notin RoomPipes
      BY <1>3, <1>4, <1>6 DEF Room!Present
  <2>2. Room!Exchange
      BY <1>3, <1>6, <1>7, <2>1, Zenon DEF Room!Exchange
  <2> QED BY <2>2 DEF Serves, Room!Next
<1>8. CASE Pairs(userPipes') = L
  <2>1. RoomPipes' = (RoomPipes \ {<<v, Me>> : v \in {}}) \cup {<<Me, v>> : v \in opened}
      BY <1>3, <1>6, <1>8
  <2>2. {} \in SUBSET UidsOf(userinfo)
      OBVIOUS
  <2> QED BY <1>7, <2>1, <2>2, Zenon
<1>9. ASSUME NEW x \in UidsOf(userinfo), Pairs(userPipes') = L \ {<<x, Me>>}
      PROVE  Serves
  <2>1. CASE <<x, Me>> \in Pairs(userPipes)
    <3>1. /\ {x} \in SUBSET UidsOf(userinfo) /\ \A v, w \in {x} : v = w
          /\ \A v \in {x} : <<v, Me>> \in RoomPipes
        BY <1>3, <2>1
    <3>2. \A v \in opened : <<Me, v>> # <<x, Me>>
        BY <1>6, <2>1
    <3>3. RoomPipes' = (RoomPipes \ {<<v, Me>> : v \in {x}}) \cup {<<Me, v>> : v \in opened}
        BY <1>3, <1>6, <1>9, <3>2
    <3> QED BY <1>7, <3>1, <3>3, Zenon
  \* A pipe to oneself that is opened and taken by the same program.
  <2>2. CASE <<x, Me>> \notin Pairs(userPipes) /\ <<x, Me>> \in {<<Me, v>> : v \in opened}
    <3>1. \A v \in opened : <<Me, v>> = <<x, Me>>
        BY <1>6, <2>2
    <3>2. RoomPipes' = RoomPipes
        BY <1>3, <1>6, <1>9, <2>2, <3>1
    <3> QED BY <1>3, <3>2 DEF Serves
  <2>3. CASE <<x, Me>> \notin Pairs(userPipes) /\ <<x, Me>> \notin {<<Me, v>> : v \in opened}
    <3>1. RoomPipes' = (RoomPipes \ {<<v, Me>> : v \in {}}) \cup {<<Me, v>> : v \in opened}
        BY <1>3, <1>6, <1>9, <2>3
    <3>2. {} \in SUBSET UidsOf(userinfo)
        OBVIOUS
    <3> QED BY <1>7, <3>1, <3>2, Zenon
  <2> QED BY <2>1, <2>2, <2>3
<1> QED BY <1>5, <1>8, <1>9

\* "exit" is the step a member departs: its name and its pipes are not seen any more.
LEMMA ExitDeparts == Base /\ Exit => Serves
<1> SUFFICES ASSUME Base, Exit PROVE Serves
    OBVIOUS
<1>1. /\ RoomMembers = Members(userinfo, Gone) /\ RoomPipes = PairsBut(userPipes, Gone)
      /\ RoomMembers' = Members(userinfo', Gone') /\ RoomPipes' = PairsBut(userPipes', Gone')
  <2>1. RoomBy'
      BY RoomIs, PTL
  <2> QED BY <2>1, RoomIs DEF RoomBy
<1>2. PICK s \in Socks : cmd'.leaving /\ cmd'.sock = s
    BY ExitFds
<1>3. userinfo' = userinfo /\ userPipes' = userPipes
    BY ExitFds
<1>4. Gone = {} /\ Gone' = {UidOf(s)} /\ UidOf(s) \in UidsOf(userinfo)
  <2>1. ~cmd.leaving
      BY ServedIsUser DEF Exit, Reads, NoCmd
  <2>2. Me' = UidOf(s)
      BY <1>2, <1>3 DEF Me, UidOf, PosOf
  <2> QED BY <1>2, <2>1, <2>2, Sender DEF Gone
<1>5. /\ DOMAIN RoomMembers = UidsOf(userinfo)
      /\ RoomMembers' = [v \in DOMAIN RoomMembers \ {UidOf(s)} |-> RoomMembers[v]]
    BY <1>1, <1>3, <1>4 DEF Members
<1>6. RoomPipes' = {p \in RoomPipes : UidOf(s) \notin {p[1], p[2]}}
    BY <1>1, <1>3, <1>4 DEF PairsBut
<1>7. Room!Depart
    BY <1>4, <1>5, <1>6 DEF Room!Depart, Room!Present
<1> QED BY <1>7 DEF Serves, Room!Next

\* The rest of the logout is not seen: the pipes it closes, and the user it
\* takes out of the table, have left the room already.
LEMMA LogoutUnseen == Base /\ (DropPipe \/ Leave) /\ Base' => Serves
<1> SUFFICES ASSUME Base, DropPipe \/ Leave, Base' PROVE UNCHANGED <<RoomMembers, RoomPipes>>
    BY DEF Serves
<1>1. /\ RoomMembers = Members(userinfo, Gone) /\ RoomPipes = PairsBut(userPipes, Gone)
      /\ RoomMembers' = Members(userinfo', Gone') /\ RoomPipes' = PairsBut(userPipes', Gone')
  <2>1. RoomBy'
      BY RoomIs, PTL
  <2> QED BY <2>1, RoomIs DEF RoomBy
<1>2. cmd.leaving /\ Gone = {Me}
    BY DEF DropPipe, Leave, Gone
<1>3. CASE DropPipe
  <2>1. userinfo' = userinfo /\ Gone' = Gone
      BY <1>3 DEF DropPipe, Gone, Me
  <2>2. userPipes \in Seq(UserPipe) /\ DOMAIN userPipes = 1..Len(userPipes)
      BY LenProperties DEF Base, TypeOK
  <2>3. Held \in SUBSET Nat /\ Held # {}
      BY <1>3, <2>2 DEF DropPipe, Held
  <2>4. Lowest(Held) \in Held
      BY <2>3, LowestFacts
  <2>5. Lowest(Held) \in 1..Len(userPipes) /\ Me \in {userPipes[Lowest(Held)].from, userPipes[Lowest(Held)].to}
      BY <2>2, <2>4 DEF Held
  <2>6. Pairs(userPipes') = {<<userPipes[i].from, userPipes[i].to>> : i \in DOMAIN userPipes \ {Lowest(Held)}}
      BY <1>3, <2>2, <2>5, RemovePairs DEF DropPipe
  <2>7. PairsBut(userPipes', {Me}) = PairsBut(userPipes, {Me})
      BY <2>5, <2>6 DEF PairsBut, Pairs
  <2> QED BY <1>1, <1>2, <2>1, <2>7
<1>4. CASE Leave
  <2>1. Gone' = {} /\ userPipes' = userPipes
      BY <1>4 DEF Leave, Gone, NoCmd
  <2>2. /\ userinfo \in Seq(UserRecord) /\ Increasing(userinfo)
        /\ userinfo' \in Seq(UserRecord) /\ Increasing(userinfo')
      BY DEF Base, TypeOK, UidsIncreasing
  <2>3. PairsBut(userPipes, {}) = PairsBut(userPipes, {Me})
      BY <1>4 DEF Leave, Held, PairsBut, Pairs
  <2>4. UidsOf(userinfo) \ {Me} = UidsOf(userinfo')
    <3>1. Me \notin UidsOf(userinfo')
        BY <1>2, <1>4, LeavingFacts, MeIsGone DEF Leave
    <3>2. UidsOf(userinfo) \ {Me} \subseteq UidsOf(userinfo') /\ UidsOf(userinfo') \subseteq UidsOf(userinfo)
        BY <1>4, LeaveKeeps DEF UidsOf
    <3> QED BY <3>1, <3>2
  <2>5. \A u \in UidsOf(userinfo') : NickOf(userinfo', u) = NickOf(userinfo, u)
    <3> SUFFICES ASSUME NEW i \in DOMAIN userinfo'
                 PROVE  NickOf(userinfo', userinfo'[i].uid) = NickOf(userinfo, userinfo'[i].uid)
        BY DEF UidsOf
    <3>1. PICK j \in DOMAIN userinfo : userinfo'[i] = userinfo[j]
        BY <1>4, LeaveKeeps
    <3> QED BY <2>2, <3>1, NickOfUser
  <2>6. Members(userinfo', {}) = Members(userinfo, {Me})
      BY <2>4, <2>5 DEF Members
  <2> QED BY <1>1, <1>2, <2>1, <2>3, <2>6
<1> QED BY <1>3, <1>4

LEMMA RoomStep == Base /\ PipePairsDistinct /\ [Next]_vars => [Room!Next]_<<RoomMembers, RoomPipes>>
<1> SUFFICES ASSUME Base, PipePairsDistinct, [Next]_vars PROVE Serves
    BY DEF Serves
<1>1. Base'
    BY NextBase
<1>2. CASE UNCHANGED <<userinfo, userPipes>> /\ Gone' = Gone
  <2>1. RoomBy'
      BY RoomIs, PTL
  <2> QED BY <1>2, <2>1, RoomIs DEF RoomBy, Serves
<1> QED BY <1>1, <1>2, AcceptArrives, NameRenames, StageExchanges, ExitDeparts, LogoutUnseen, RoomFrame

LEMMA RoomInit == Init => Room!Init
<1> SUFFICES ASSUME Init PROVE Room!Init
    OBVIOUS
<1>1. /\ RoomMembers = Members(userinfo, Gone) /\ RoomPipes = PairsBut(userPipes, Gone)
    BY RoomIs DEF RoomBy
<1>2. userinfo = << >> /\ userPipes = << >> /\ Gone = {}
    BY DEF Init, NoCmd, Gone
<1>3. UidsOf(userinfo) = {} /\ Pairs(userPipes) = {}
    BY <1>2 DEF UidsOf, Pairs
<1>4. RoomMembers = << >>
    BY <1>1, <1>2, <1>3 DEF Members
<1> QED BY <1>1, <1>2, <1>3, <1>4 DEF Room!Init, PairsBut

\* Users of the server see the room that ChatRoom promises: numbers handed
\* out in order, nicknames and pipes that are unique, and a logout that takes
\* all of them away in one step.
THEOREM ServesChatRoom == Spec => ImplementsChatRoom
<1>1. Init => Base /\ PipePairsDistinct /\ Room!Init
    BY InitBase, RoomInit DEF Init, PipePairsDistinct
<1>2. Base /\ PipePairsDistinct /\ [Next]_vars => (Base /\ PipePairsDistinct)'
    BY NextBase, PipePairsStep
<1>3. Base /\ PipePairsDistinct /\ [Next]_vars => [Room!Next]_<<RoomMembers, RoomPipes>>
    BY RoomStep
<1> QED BY <1>1, <1>2, <1>3, PTL DEF Spec, ImplementsChatRoom, Room!Spec, Room!cvars
=============================================================================
