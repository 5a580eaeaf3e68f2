---------------------------- MODULE ShellProofs ----------------------------
(***************************************************************************)
(* Theorems about Shell: its types, that the output of a program goes to   *)
(* the line it was meant for, and which pipes the shell keeps open.        *)
(***************************************************************************)
EXTENDS Shell, TLAPS, SequenceTheorems

InLine == pc \in {"stage", "fork", "full"}

\* The pipe of the last program is known until the prompt.
Joined == pc \in {"stage", "fork", "full", "wait"}

\* What the types of a step need: there is a next program, and pipes to read and write.
Ready == /\ InLine => stages # <<>>
         /\ \A l \in DOMAIN stages : stages[l].pipe => stages[l].after = 0
         /\ \A q \in Procs : /\ proc[q].reads => proc[q].in \in Pipes
                             /\ proc[q].left > 0 => proc[q].out \in Pipes

Typed == TypeOK /\ Ready

\* The counters of the line to come have been decremented by the last one.
Ahead == IF wrote /\ ~InLine THEN 1 ELSE 0

CountersRight == \A i \in DOMAIN numberPipes :
                    numberPipes[i].count = numberPipes[i].to - line - Ahead

LinesDistinct == \A i, j \in DOMAIN numberPipes :
                    numberPipes[i].to = numberPipes[j].to => i = j

\* Of the records n, a number that pipe() has given out again belongs to the last.
Current(n, i) == /\ i \in DOMAIN n
                 /\ \A j \in DOMAIN n : n[j].pipe = n[i].pipe => j <= i

Meant(n, p, l) == \E i \in DOMAIN n : Current(n, i) /\ n[i].pipe = p /\ n[i].to = l

PendingOpen == pc # "gone" => \A i \in DOMAIN numberPipes :
                  numberPipes[i].to > line => Current(numberPipes, i) /\ numberPipes[i].pipe \in open

\* The pipe the next program reads, and the one it writes.
DueRight == InLine /\ due # NoPipe => joint = NoPipe /\ due \in open /\ Meant(numberPipes, due, line)

JointRight == Joined /\ joint # NoPipe =>
                /\ joint \in open
                /\ \A i \in DOMAIN numberPipes : numberPipes[i].to > line => numberPipes[i].pipe # joint

TargetRight == pc \in {"fork", "full"} =>
    /\ wrote = (Head(stages).after > 0)
    /\ Head(stages).after > 0 => target \in open /\ Meant(numberPipes, target, line + Head(stages).after)
    /\ Head(stages).pipe => /\ target \in open /\ target # joint /\ target # due
                            /\ \A i \in DOMAIN numberPipes : numberPipes[i].to > line => numberPipes[i].pipe # target
    /\ ~Head(stages).pipe /\ Head(stages).after = 0 => target = NoPipe

\* Programs hold what they read and write.
WritersRight == \A w \in Procs : proc[w].to # 0 =>
                    proc[w].out \in proc[w].wr /\ Meant(numberPipes, proc[w].out, proc[w].to)
ReadersRight == \A r \in Procs : proc[r].from # 0 =>
                    proc[r].in \in proc[r].rd /\ Meant(numberPipes, proc[r].in, proc[r].from)

OpenKnown == \A p \in open :
    \/ p \in missed
    \/ \E i \in DOMAIN numberPipes : numberPipes[i].to > line /\ numberPipes[i].pipe = p
    \/ Joined /\ p = joint
    \/ InLine /\ p = due
    \/ pc \in {"fork", "full"} /\ p = target

MissedOpen == missed \subseteq open
MissedOver == \A p \in missed : /\ InLine => p # due /\ p # joint
                                /\ pc \in {"fork", "full"} => p # target
                                /\ \A i \in DOMAIN numberPipes : numberPipes[i].to > line => numberPipes[i].pipe # p

\* What the shell knows of its pipes, and what its programs hold.
PipesRight == /\ CountersRight /\ LinesDistinct /\ PendingOpen /\ DueRight /\ JointRight
              /\ TargetRight /\ OpenKnown /\ MissedOpen /\ MissedOver
ProgramsRight == WritersRight /\ ReadersRight

Inv == Typed /\ PipesRight /\ ProgramsRight

-----------------------------------------------------------------------------
(* Counting down, and the pipe that is due.                                *)

\* Counting changes the counters only.
LEMMA TickCounts ==
    ASSUME NEW n \in Seq(NumberPipe)
    PROVE  /\ Tick(n) \in Seq(NumberPipe)
           /\ DOMAIN Tick(n) = DOMAIN n
           /\ \A i \in DOMAIN n : /\ Tick(n)[i].count = n[i].count - 1
                                  /\ Tick(n)[i].pipe = n[i].pipe
                                  /\ Tick(n)[i].to = n[i].to
<1>1. Len(n) \in Nat /\ DOMAIN n = 1 .. Len(n) /\ \A i \in DOMAIN n : n[i] \in NumberPipe
  BY ElementOfSeq, LenProperties
<1>2. DOMAIN Tick(n) = DOMAIN n
  BY DEF Tick
<1>3. \A i \in DOMAIN n :
         Tick(n)[i] = [count |-> n[i].count - 1, pipe |-> n[i].pipe, to |-> n[i].to]
  BY DEF Tick
<1>4. \A i \in DOMAIN n : n[i].count - 1 \in Int /\ n[i].pipe \in Pipes /\ n[i].to \in Nat
  BY <1>1 DEF NumberPipe
<1>5. \A i \in DOMAIN n : Tick(n)[i] \in NumberPipe
  <2>1. \A c \in Int, p \in Pipes, t \in Nat : [count |-> c, pipe |-> p, to |-> t] \in NumberPipe
    BY DEF NumberPipe
  <2> QED BY <1>3, <1>4, <2>1
<1>6. Tick(n) \in [1 .. Len(n) -> NumberPipe]
  <2>1. Tick(n) = [i \in 1 .. Len(n) |-> Tick(n)[i]]
    BY <1>1 DEF Tick
  <2>2. \A i \in 1 .. Len(n) : Tick(n)[i] \in NumberPipe
    BY <1>1, <1>5
  <2> QED BY ONLY <2>1, <2>2
<1>7. Tick(n) \in Seq(NumberPipe)
  BY <1>1, <1>6, IsASeq
<1> QED BY <1>2, <1>3, <1>7

\* When at most one counter is 0, Due is the pipe of that one.
LEMMA DueIsThatOne ==
    ASSUME NEW n \in Seq(NumberPipe),
           \A i, j \in DOMAIN n : n[i].count = 0 /\ n[j].count = 0 => i = j
    PROVE  /\ Due(n) = NoPipe => \A i \in DOMAIN n : n[i].count # 0
           /\ Due(n) # NoPipe => \E i \in DOMAIN n : n[i].count = 0 /\ Due(n) = n[i].pipe
           /\ Due(n) \in Pipes \cup {NoPipe}
<1> DEFINE zero == {i \in DOMAIN n : n[i].count = 0}
<1>1. CASE zero = {}
  BY <1>1 DEF Due
<1>2. CASE zero # {}
  <2>1. PICK k \in zero : TRUE
    BY <1>2
  <2>2. \A j \in zero : j = k
    BY <2>1
  <2>3. k \in Nat
    BY <2>1
  <2>4. k = CHOOSE i \in zero : \A j \in zero : j <= i
    BY <2>1, <2>2, <2>3
  <2>5. Due(n) = n[k].pipe
    BY <1>2, <2>4 DEF Due
  <2>6. n[k].pipe \in Pipes /\ n[k].count = 0 /\ k \in DOMAIN n
    <3>1. k \in DOMAIN n /\ n[k].count = 0 /\ k \in 1 .. Len(n)
      BY <2>1
    <3>2. n[k] \in NumberPipe
      BY <3>1
    <3> QED BY <3>1, <3>2 DEF NumberPipe
  <2> QED BY <2>5, <2>6, ShellAssumption
<1> QED BY <1>1, <1>2

\* Counting changes nobody's pipe.
LEMMA TickMeans ==
    ASSUME NEW n \in Seq(NumberPipe)
    PROVE  /\ \A i : Current(Tick(n), i) <=> Current(n, i)
           /\ \A p, l : Meant(Tick(n), p, l) <=> Meant(n, p, l)
<1>1. /\ DOMAIN Tick(n) = DOMAIN n
      /\ \A i \in DOMAIN n : Tick(n)[i].pipe = n[i].pipe /\ Tick(n)[i].to = n[i].to
  BY TickCounts
<1>2. \A i : Current(Tick(n), i) <=> Current(n, i)
  BY <1>1 DEF Current
<1> QED BY <1>1, <1>2 DEF Meant

\* A new record takes nothing from those of other pipes.
LEMMA AppendMeans ==
    ASSUME NEW n \in Seq(NumberPipe), NEW r \in NumberPipe
    PROVE  /\ Append(n, r) \in Seq(NumberPipe)
           /\ DOMAIN Append(n, r) = DOMAIN n \cup {Len(n) + 1}
           /\ Len(n) + 1 \notin DOMAIN n
           /\ \A i \in DOMAIN n : Append(n, r)[i] = n[i]
           /\ Append(n, r)[Len(n) + 1] = r
           /\ \A i : Current(n, i) /\ n[i].pipe # r.pipe => Current(Append(n, r), i)
           /\ \A p, l : Meant(n, p, l) /\ p # r.pipe => Meant(Append(n, r), p, l)
           /\ Current(Append(n, r), Len(n) + 1)
           /\ Meant(Append(n, r), r.pipe, r.to)
<1> DEFINE m == Append(n, r)
<1>1. /\ Len(n) \in Nat /\ DOMAIN n = 1 .. Len(n)
      /\ m \in Seq(NumberPipe) /\ Len(m) = Len(n) + 1 /\ DOMAIN m = 1 .. (Len(n) + 1)
      /\ \A i \in 1 .. Len(n) : m[i] = n[i]
      /\ m[Len(n) + 1] = r
  BY LenProperties
<1> HIDE DEF m
<1>2. DOMAIN m = DOMAIN n \cup {Len(n) + 1} /\ Len(n) + 1 \notin DOMAIN n
  BY <1>1
<1>3. \A i \in DOMAIN n : m[i] = n[i]
  BY <1>1
<1>4. \A i : Current(n, i) /\ n[i].pipe # r.pipe => Current(m, i)
  BY <1>1, <1>2, <1>3 DEF Current
<1>5. \A p, l : Meant(n, p, l) /\ p # r.pipe => Meant(m, p, l)
  BY <1>2, <1>3, <1>4 DEF Meant, Current
<1>6. Current(m, Len(n) + 1)
  BY <1>1 DEF Current
<1>7. Meant(m, r.pipe, r.to)
  BY <1>1, <1>6 DEF Meant, Current
<1> QED BY <1>1, <1>2, <1>3, <1>4, <1>5, <1>6, <1>7 DEF m

\* The records of one pipe have one current one.
LEMMA MeantOnce ==
    ASSUME NEW n \in Seq(NumberPipe), NEW i, NEW j,
           Current(n, i), Current(n, j), n[i].pipe = n[j].pipe
    PROVE  i = j
<1>1. i \in Nat /\ j \in Nat
  BY LenProperties DEF Current
<1> QED BY <1>1 DEF Current

\* The fields of a record.
LEMMA RecordTypes ==
    ASSUME NEW n \in Seq(NumberPipe), NEW i \in DOMAIN n
    PROVE  n[i].count \in Int /\ n[i].pipe \in Pipes /\ n[i].to \in Nat
<1>1. n[i] \in NumberPipe
  BY ElementOfSeq, LenProperties
<1> QED BY <1>1 DEF NumberPipe

-----------------------------------------------------------------------------
(* What the shell knows of its pipes.                                      *)

\* The pipe of the line that runs is not pending.
LEMMA NotDue ==
    ASSUME Typed, PipesRight, InLine, due # NoPipe,
           NEW i \in DOMAIN numberPipes, numberPipes[i].to > line
    PROVE  numberPipes[i].pipe # due
<1> SUFFICES ASSUME numberPipes[i].pipe = due
             PROVE  FALSE
  OBVIOUS
<1>1. numberPipes \in Seq(NumberPipe) /\ line \in Nat
  BY DEF Typed, TypeOK
<1>2. PICK k \in DOMAIN numberPipes : /\ Current(numberPipes, k)
                                      /\ numberPipes[k].pipe = due /\ numberPipes[k].to = line
  BY DEF PipesRight, DueRight, Meant
<1>3. Current(numberPipes, i)
  BY DEF PipesRight, PendingOpen, InLine
<1>4. i = k
  BY <1>1, <1>2, <1>3, MeantOnce
<1> QED BY <1>1, <1>2, <1>4

\* The program about to be started, and what follows it.
LEMMA NextProgram ==
    ASSUME Typed, InLine
    PROVE  /\ Head(stages) \in Stage /\ Head(stages).after \in Nat
           /\ Tail(stages) \in Seq(Stage) /\ DOMAIN Tail(stages) = 1 .. (Len(stages) - 1)
           /\ Len(stages) \in Nat /\ DOMAIN stages = 1 .. Len(stages) /\ 1 \in DOMAIN stages
           /\ Head(stages) = stages[1]
           /\ \A j \in DOMAIN Tail(stages) : Tail(stages)[j] = stages[j + 1] /\ j + 1 \in DOMAIN stages
           /\ Head(stages).pipe => Head(stages).after = 0
<1>1. stages \in Seq(Stage) /\ stages # <<>>
  BY DEF Typed, TypeOK, Ready
<1>2. /\ Head(stages) \in Stage /\ Tail(stages) \in Seq(Stage)
      /\ Len(stages) \in Nat /\ DOMAIN stages = 1 .. Len(stages) /\ Len(stages) # 0
      /\ Len(Tail(stages)) = Len(stages) - 1 /\ DOMAIN Tail(stages) = 1 .. (Len(stages) - 1)
      /\ Head(stages) = stages[1]
      /\ \A j \in 1 .. (Len(stages) - 1) : Tail(stages)[j] = stages[j + 1]
  BY <1>1, LenProperties
<1>3. Head(stages).after \in Nat
  BY <1>2 DEF Stage
<1>4. Head(stages).pipe => Head(stages).after = 0
  BY <1>2 DEF Typed, Ready
<1> QED BY <1>2, <1>3, <1>4

\* What stays in place, the pipes do not notice.
LEMMA PipesUnchanged ==
    ASSUME PipesRight,
           UNCHANGED <<stages, numberPipes, wrote, due, joint, target, open, line, missed>>,
           InLine' <=> InLine, pc' \in {"fork", "full"} <=> pc \in {"fork", "full"},
           pc' = "gone" <=> pc = "gone", Joined' <=> Joined
    PROVE  PipesRight'
<1>1. CountersRight' /\ LinesDistinct'
  BY DEF PipesRight, CountersRight, LinesDistinct, Ahead
<1>2. PendingOpen' /\ DueRight' /\ JointRight'
  BY DEF PipesRight, PendingOpen, DueRight, JointRight, Meant, Current
<1>3. TargetRight'
  BY DEF PipesRight, TargetRight, Meant, Current
<1>4. OpenKnown' /\ MissedOpen' /\ MissedOver'
  BY DEF PipesRight, OpenKnown, MissedOpen, MissedOver
<1> QED BY <1>1, <1>2, <1>3, <1>4 DEF PipesRight

\* A program about to be started may read the pipe of the one before it.
LEMMA InLineJoined == /\ InLine => Joined
                      /\ InLine' => Joined'
<1> QED BY DEF InLine, Joined

\* A line begins: what is due is the one record of that line.
LEMMA TypePipes ==
    ASSUME Typed, PipesRight, NEW l \in Lines, Type(l)
    PROVE  PipesRight'
<1>1. /\ numberPipes \in Seq(NumberPipe) /\ line \in Nat /\ open \subseteq Pipes
      /\ pc = "prompt" /\ ~InLine /\ ~Joined
  BY DEF Typed, TypeOK, Type, InLine, Joined
<1>2. /\ pc' = "stage" /\ InLine' /\ line' = line + 1 /\ wrote' = wrote
      /\ numberPipes' = Counted /\ due' = Due(Counted) /\ joint' = NoPipe
      /\ UNCHANGED <<open, missed>>
  BY DEF Type, InLine
<1>3. /\ Counted \in Seq(NumberPipe)
      /\ DOMAIN numberPipes' = DOMAIN numberPipes
      /\ \A i \in DOMAIN numberPipes : /\ numberPipes'[i].pipe = numberPipes[i].pipe
                                       /\ numberPipes'[i].to = numberPipes[i].to
      /\ \A i : Current(numberPipes', i) <=> Current(numberPipes, i)
      /\ \A p, k : Meant(numberPipes', p, k) <=> Meant(numberPipes, p, k)
  BY <1>1, <1>2, TickCounts, TickMeans DEF Counted
<1>4. \A i \in DOMAIN numberPipes : numberPipes[i].to \in Nat /\ numberPipes[i].count \in Int
  BY <1>1, RecordTypes
<1>5. CountersRight'
  <2> SUFFICES ASSUME NEW i \in DOMAIN numberPipes
               PROVE  numberPipes'[i].count = numberPipes'[i].to - line' - Ahead'
    BY <1>3 DEF CountersRight
  <2>1. /\ Ahead' = 0 /\ numberPipes'[i].to = numberPipes[i].to
        /\ numberPipes[i].count = numberPipes[i].to - line - Ahead
    BY <1>2, <1>3 DEF Ahead, PipesRight, CountersRight
  <2>2. CASE wrote
    <3>1. Ahead = 1 /\ numberPipes'[i].count = numberPipes[i].count
      BY <1>1, <1>2, <2>2 DEF Ahead, Counted
    <3> QED BY <1>1, <1>2, <1>4, <2>1, <3>1
  <2>3. CASE ~wrote
    <3>1. Ahead = 0 /\ numberPipes'[i].count = numberPipes[i].count - 1
      BY <1>1, <1>2, <2>3, TickCounts DEF Ahead, Counted
    <3> QED BY <1>1, <1>2, <1>4, <2>1, <3>1
  <2> QED BY <2>2, <2>3
<1>6. LinesDistinct'
  BY <1>3 DEF PipesRight, LinesDistinct
<1>7. PendingOpen'
  BY <1>1, <1>2, <1>3, <1>4 DEF PipesRight, PendingOpen
<1>8. \A i \in DOMAIN numberPipes : numberPipes'[i].count = 0 <=> numberPipes'[i].to = line'
  <2>1. Ahead' = 0
    BY <1>2 DEF Ahead
  <2> QED BY <1>1, <1>2, <1>3, <1>4, <1>5, <2>1 DEF CountersRight
<1>9. /\ due' = NoPipe => \A i \in DOMAIN numberPipes : numberPipes'[i].count # 0
      /\ due' # NoPipe => \E i \in DOMAIN numberPipes : numberPipes'[i].count = 0 /\ due' = numberPipes'[i].pipe
  <2>1. \A i, j \in DOMAIN Counted : Counted[i].count = 0 /\ Counted[j].count = 0 => i = j
    BY <1>2, <1>3, <1>6, <1>8 DEF LinesDistinct
  <2> QED BY <1>2, <1>3, <2>1, DueIsThatOne
<1>10. DueRight'
  <2> SUFFICES ASSUME due' # NoPipe
               PROVE  due' \in open /\ Meant(numberPipes', due', line')
    BY <1>2 DEF DueRight
  <2>1. PICK i \in DOMAIN numberPipes : numberPipes'[i].to = line' /\ due' = numberPipes'[i].pipe
    BY <1>8, <1>9
  <2>2. Current(numberPipes, i) /\ numberPipes[i].pipe \in open
    BY <1>1, <1>2, <1>3, <2>1 DEF PipesRight, PendingOpen
  <2> QED BY <1>3, <2>1, <2>2 DEF Meant
<1>11. JointRight' /\ TargetRight'
  BY <1>2 DEF JointRight, TargetRight
<1>12. OpenKnown'
  <2> SUFFICES ASSUME NEW p \in open, p \notin missed
               PROVE  \/ \E i \in DOMAIN numberPipes : numberPipes'[i].to > line' /\ numberPipes'[i].pipe = p
                      \/ p = due'
    BY <1>2, <1>3 DEF OpenKnown
  <2>1. PICK i \in DOMAIN numberPipes : numberPipes[i].to > line /\ numberPipes[i].pipe = p
    BY <1>1 DEF PipesRight, OpenKnown
  <2>2. CASE numberPipes[i].to > line + 1
    BY <1>2, <1>3, <2>1, <2>2
  <2>3. CASE numberPipes[i].to = line + 1
    <3>1. due' # NoPipe
      BY <1>2, <1>3, <1>8, <1>9, <2>3
    <3>2. PICK j \in DOMAIN numberPipes : numberPipes'[j].to = line' /\ due' = numberPipes'[j].pipe
      BY <1>8, <1>9, <3>1
    <3>3. i = j
      BY <1>2, <1>3, <1>6, <2>3, <3>2 DEF LinesDistinct
    <3> QED BY <1>3, <2>1, <3>2, <3>3
  <2> QED BY <1>1, <1>4, <2>1, <2>2, <2>3
<1>13. MissedOpen'
  BY <1>2 DEF PipesRight, MissedOpen
<1>14. MissedOver'
  <2> SUFFICES ASSUME NEW p \in missed
               PROVE  /\ p # due' /\ p # joint'
                      /\ \A i \in DOMAIN numberPipes : numberPipes'[i].to > line' => numberPipes'[i].pipe # p
    BY <1>2, <1>3 DEF MissedOver
  <2>1. p \in Pipes /\ p # NoPipe
    BY <1>1, ShellAssumption DEF PipesRight, MissedOpen
  <2>2. \A i \in DOMAIN numberPipes : numberPipes'[i].to > line => numberPipes'[i].pipe # p
    BY <1>3 DEF PipesRight, MissedOver
  <2>3. p # due'
    BY <1>1, <1>2, <1>8, <1>9, <2>1, <2>2
  <2> QED BY <1>1, <1>2, <1>3, <1>4, <2>1, <2>2, <2>3
<1> QED BY <1>5, <1>6, <1>7, <1>10, <1>11, <1>12, <1>13, <1>14 DEF PipesRight

\* What a builtin should have read is neither pending nor to be written.
LEMMA BuiltinPipes ==
    ASSUME Typed, PipesRight, Builtin
    PROVE  PipesRight'
<1>1. /\ numberPipes \in Seq(NumberPipe) /\ open \subseteq Pipes
      /\ pc = "stage" /\ InLine /\ Joined /\ pc' = "wait" /\ ~InLine' /\ wrote' = FALSE
      /\ joint' = NoPipe /\ missed' = missed \cup ({due, joint} \ {NoPipe})
      /\ UNCHANGED <<numberPipes, open, line>>
  BY DEF Typed, TypeOK, Builtin, InLine, Joined
<1>2. CountersRight' /\ LinesDistinct' /\ PendingOpen'
  BY <1>1 DEF PipesRight, CountersRight, LinesDistinct, Ahead, PendingOpen, Current
<1>3. DueRight' /\ JointRight' /\ TargetRight'
  BY <1>1 DEF DueRight, JointRight, TargetRight
<1>4. OpenKnown' /\ MissedOpen'
  BY <1>1, ShellAssumption DEF PipesRight, OpenKnown, MissedOpen, DueRight, JointRight
<1>5. MissedOver'
  <2> SUFFICES ASSUME NEW p \in missed', NEW i \in DOMAIN numberPipes, numberPipes[i].to > line
               PROVE  numberPipes[i].pipe # p
    BY <1>1 DEF MissedOver
  <2>1. CASE p \in missed
    BY <2>1 DEF PipesRight, MissedOver
  <2>2. CASE p = joint /\ joint # NoPipe
    BY <1>1, <2>2 DEF PipesRight, JointRight
  <2>3. CASE p = due /\ due # NoPipe
    BY <1>1, <2>3, NotDue
  <2> QED BY <1>1, <2>1, <2>2, <2>3
<1> QED BY <1>2, <1>3, <1>4, <1>5 DEF PipesRight

LEMMA ExitPipes ==
    ASSUME Typed, PipesRight, Exit
    PROVE  PipesRight'
<1>1. /\ pc = "prompt" /\ ~InLine /\ pc' = "gone" /\ ~InLine' /\ ~Joined'
      /\ open' = {} /\ missed' = {}
      /\ UNCHANGED <<numberPipes, line, wrote>>
  BY DEF Exit, InLine, Joined
<1>2. CountersRight' /\ LinesDistinct'
  BY <1>1 DEF PipesRight, CountersRight, LinesDistinct, Ahead
<1>3. PendingOpen' /\ DueRight' /\ JointRight' /\ TargetRight'
  BY <1>1 DEF PendingOpen, DueRight, JointRight, TargetRight
<1>4. OpenKnown' /\ MissedOpen' /\ MissedOver'
  BY <1>1 DEF OpenKnown, MissedOpen, MissedOver
<1> QED BY <1>2, <1>3, <1>4 DEF PipesRight

LEMMA PromptPipes ==
    ASSUME Typed, PipesRight, Prompt
    PROVE  PipesRight'
<1>1. /\ pc = "wait" /\ ~InLine /\ Joined /\ pc' = "prompt" /\ ~InLine' /\ ~Joined'
      /\ missed' = missed \cup ({joint} \ {NoPipe})
      /\ UNCHANGED <<numberPipes, wrote, open, line>>
  BY DEF Prompt, InLine, Joined
<1>2. CountersRight' /\ LinesDistinct' /\ PendingOpen'
  BY <1>1 DEF PipesRight, CountersRight, LinesDistinct, Ahead, PendingOpen, Current
<1>3. DueRight' /\ JointRight' /\ TargetRight'
  BY <1>1 DEF DueRight, JointRight, TargetRight
<1>4. joint # NoPipe => /\ joint \in open
                        /\ \A i \in DOMAIN numberPipes : numberPipes[i].to > line => numberPipes[i].pipe # joint
  BY <1>1 DEF PipesRight, JointRight
<1>5. OpenKnown'
  <2> SUFFICES ASSUME NEW p \in open
               PROVE  \/ p \in missed'
                      \/ \E i \in DOMAIN numberPipes : numberPipes[i].to > line /\ numberPipes[i].pipe = p
    BY <1>1 DEF OpenKnown
  <2>1. p \in Pipes /\ p # NoPipe
    BY ShellAssumption DEF Typed, TypeOK
  <2> QED BY <1>1, <2>1 DEF PipesRight, OpenKnown
<1>6. MissedOpen' /\ MissedOver'
  BY <1>1, <1>4 DEF PipesRight, MissedOpen, MissedOver
<1> QED BY <1>2, <1>3, <1>5, <1>6 DEF PipesRight

\* pipe() gives a pipe of which no process holds an end.
LEMMA FreshPipe ==
    ASSUME Unused # {}
    PROVE  /\ NewPipe \in Pipes /\ NewPipe # NoPipe /\ NewPipe \notin open
           /\ \A q \in Procs : NewPipe \notin proc[q].rd /\ NewPipe \notin proc[q].wr
<1>1. NewPipe \in Unused
  BY DEF NewPipe
<1> QED BY <1>1, ShellAssumption DEF Unused, CanRead, CanWrite

\* A pipe found is one with the right line; a new one is nobody else's.
LEMMA OpenPipePipes ==
    ASSUME Typed, PipesRight, OpenPipe
    PROVE  PipesRight'
<1> DEFINE s == Head(stages)
<1>1. /\ numberPipes \in Seq(NumberPipe) /\ open \subseteq Pipes /\ line \in Nat
      /\ pc = "stage" /\ InLine /\ pc' = "fork" /\ InLine' /\ wrote' = (s.after > 0)
      /\ Joined /\ Joined'
      /\ UNCHANGED <<stages, due, joint, line, missed>>
  BY DEF Typed, TypeOK, OpenPipe, InLine, Joined
<1>2. s.after \in Nat /\ (s.pipe => s.after = 0)
  BY <1>1, NextProgram
<1>3. Ahead = 0 /\ Ahead' = 0
  BY <1>1 DEF Ahead
<1>4. \A i \in DOMAIN numberPipes : numberPipes[i].to \in Nat /\ numberPipes[i].pipe \in Pipes
  BY <1>1, RecordTypes
<1>5. /\ due # NoPipe => due \in open /\ joint = NoPipe /\ Meant(numberPipes, due, line)
      /\ joint # NoPipe => joint \in open
      /\ \A i \in DOMAIN numberPipes : numberPipes[i].to > line =>
            Current(numberPipes, i) /\ numberPipes[i].pipe \in open
      /\ missed \subseteq open
  BY <1>1 DEF PipesRight, DueRight, JointRight, PendingOpen, MissedOpen
<1> HIDE DEF s
<1>6. CASE s.pipe /\ Pipe /\ UNCHANGED numberPipes
  <2>1. /\ target' = NewPipe /\ open' = open \cup {NewPipe}
        /\ NewPipe \in Pipes /\ NewPipe # NoPipe /\ NewPipe \notin open
    BY <1>6, FreshPipe DEF Pipe
  <2>2. CountersRight' /\ LinesDistinct'
    BY <1>1, <1>3, <1>6 DEF PipesRight, CountersRight, LinesDistinct
  <2>3. PendingOpen' /\ DueRight' /\ JointRight'
    BY <1>1, <1>5, <1>6, <2>1 DEF PipesRight, PendingOpen, DueRight, JointRight, Current, Meant
  <2>4. TargetRight'
    BY <1>1, <1>2, <1>5, <1>6, <2>1 DEF TargetRight, s
  <2>5. OpenKnown' /\ MissedOpen' /\ MissedOver'
    BY <1>1, <1>5, <1>6, <2>1 DEF PipesRight, OpenKnown, MissedOpen, MissedOver
  <2> QED BY <2>2, <2>3, <2>4, <2>5 DEF PipesRight
<1>7. CASE /\ ~s.pipe /\ s.after = 0 /\ target' = NoPipe
           /\ UNCHANGED <<open, numberPipes>>
  <2>1. CountersRight' /\ LinesDistinct'
    BY <1>1, <1>3, <1>7 DEF PipesRight, CountersRight, LinesDistinct
  <2>2. PendingOpen' /\ DueRight' /\ JointRight'
    BY <1>1, <1>5, <1>7 DEF PipesRight, PendingOpen, DueRight, JointRight, Current, Meant
  <2>3. TargetRight'
    BY <1>1, <1>2, <1>7 DEF TargetRight, s
  <2>4. OpenKnown' /\ MissedOpen' /\ MissedOver'
    BY <1>1, <1>5, <1>7, ShellAssumption DEF PipesRight, OpenKnown, MissedOpen, MissedOver
  <2> QED BY <2>1, <2>2, <2>3, <2>4 DEF PipesRight
<1>8. ASSUME ~s.pipe, s.after > 0, NEW i \in SameCount(numberPipes, s.after),
             target' = numberPipes[i].pipe, UNCHANGED <<open, numberPipes>>
      PROVE  PipesRight'
  <2>1. i \in DOMAIN numberPipes /\ numberPipes[i].count = s.after
    BY <1>8 DEF SameCount
  <2>2. numberPipes[i].to = line + s.after /\ numberPipes[i].to > line
    <3>1. numberPipes[i].count = numberPipes[i].to - line
      BY <1>1, <1>3, <1>4, <2>1 DEF PipesRight, CountersRight
    <3> QED BY <1>1, <1>2, <1>4, <1>8, <2>1, <3>1
  <2>3. target' \in open /\ Meant(numberPipes, target', line + s.after)
    BY <1>5, <1>8, <2>1, <2>2 DEF Meant
  <2>4. CountersRight' /\ LinesDistinct'
    BY <1>1, <1>3, <1>8 DEF PipesRight, CountersRight, LinesDistinct
  <2>5. PendingOpen' /\ DueRight' /\ JointRight'
    BY <1>1, <1>5, <1>8 DEF PipesRight, PendingOpen, DueRight, JointRight, Current, Meant
  <2>6. TargetRight'
    <3>1. s.after # 0 /\ target' \in open' /\ Meant(numberPipes', target', line' + s.after)
      BY <1>1, <1>2, <1>8, <2>3
    <3> QED BY <1>1, <1>8, <3>1 DEF TargetRight, s
  <2>7. OpenKnown' /\ MissedOpen' /\ MissedOver'
    BY <1>1, <1>5, <1>8, <2>1, <2>2 DEF PipesRight, OpenKnown, MissedOpen, MissedOver
  <2> QED BY <2>4, <2>5, <2>6, <2>7 DEF PipesRight
<1>9. CASE /\ ~s.pipe /\ s.after > 0 /\ SameCount(numberPipes, s.after) = {} /\ Pipe
           /\ numberPipes' = Append(numberPipes, [count |-> s.after, pipe |-> NewPipe, to |-> line + s.after])
  <2> DEFINE r == [count |-> s.after, pipe |-> NewPipe, to |-> line + s.after]
             k == Len(numberPipes) + 1
  <2>1. /\ target' = NewPipe /\ open' = open \cup {NewPipe}
        /\ NewPipe \in Pipes /\ NewPipe # NoPipe /\ NewPipe \notin open
    BY <1>9, FreshPipe DEF Pipe
  <2>2. r \in NumberPipe
    BY <1>1, <1>2, <2>1 DEF NumberPipe
  <2>3. r.count = s.after /\ r.pipe = NewPipe /\ r.to = line + s.after /\ r.to > line
    BY <1>1, <1>2, <1>9
  <2> HIDE DEF r, k
  <2>4. /\ DOMAIN numberPipes' = DOMAIN numberPipes \cup {k} /\ k \notin DOMAIN numberPipes
        /\ \A i \in DOMAIN numberPipes : numberPipes'[i] = numberPipes[i]
        /\ numberPipes'[k] = r
        /\ \A i : Current(numberPipes, i) /\ numberPipes[i].pipe # NewPipe => Current(numberPipes', i)
        /\ \A p, l : Meant(numberPipes, p, l) /\ p # NewPipe => Meant(numberPipes', p, l)
        /\ Current(numberPipes', k) /\ Meant(numberPipes', NewPipe, line + s.after)
    <3>1. numberPipes' = Append(numberPipes, r)
      BY <1>9 DEF r
    <3> QED BY <1>1, <2>2, <2>3, <3>1, AppendMeans DEF k
  <2>5. CountersRight'
    BY <1>1, <1>2, <1>3, <2>3, <2>4 DEF PipesRight, CountersRight
  <2>6. \A i \in DOMAIN numberPipes : numberPipes[i].to # line + s.after
    <3> SUFFICES ASSUME NEW i \in DOMAIN numberPipes, numberPipes[i].to = line + s.after
                 PROVE  FALSE
      OBVIOUS
    <3>1. numberPipes[i].count = s.after
      BY <1>1, <1>2, <1>3 DEF PipesRight, CountersRight
    <3> QED BY <1>9, <3>1 DEF SameCount
  <2>7. LinesDistinct'
    BY <2>3, <2>4, <2>6 DEF PipesRight, LinesDistinct
  <2>8. PendingOpen'
    BY <1>1, <1>5, <2>1, <2>3, <2>4 DEF PendingOpen
  <2>9. DueRight' /\ JointRight'
    BY <1>1, <1>5, <2>1, <2>3, <2>4 DEF PipesRight, DueRight, JointRight
  <2>10. TargetRight'
    BY <1>1, <1>2, <1>9, <2>1, <2>4 DEF TargetRight, s
  <2>11. OpenKnown' /\ MissedOpen' /\ MissedOver'
    BY <1>1, <1>5, <2>1, <2>3, <2>4 DEF PipesRight, OpenKnown, MissedOpen, MissedOver
  <2> QED BY <2>5, <2>7, <2>8, <2>9, <2>10, <2>11 DEF PipesRight
<1> QED BY <1>6, <1>7, <1>8, <1>9 DEF OpenPipe, s

\* After a fork the shell keeps what later programs read or write.
LEMMA ForkPipes ==
    ASSUME Typed, PipesRight, Fork
    PROVE  PipesRight'
<1> DEFINE s == Head(stages)
           number == s.after > 0
           rest == Tail(stages)
           counted == IF number THEN Tick(numberPipes) ELSE numberPipes
<1>1. /\ numberPipes \in Seq(NumberPipe) /\ open \subseteq Pipes /\ line \in Nat
      /\ pc = "fork" /\ InLine /\ Joined /\ missed \subseteq open
  BY DEF Typed, TypeOK, Fork, InLine, Joined, PipesRight, MissedOpen
<1>2. /\ s.after \in Nat
      /\ s.pipe => ~number
  BY <1>1, NextProgram
<1>3. /\ open' = open \ {Input} /\ target' = NoPipe /\ numberPipes' = counted
      /\ joint' = IF s.pipe THEN target ELSE NoPipe
      /\ due' = IF number THEN Due(counted) ELSE NoPipe
      /\ line' = IF number /\ rest # <<>> THEN line + 1 ELSE line
      /\ UNCHANGED <<wrote, missed>>
      /\ pc' = IF rest = <<>> THEN "wait" ELSE "stage"
  BY DEF Fork, LeftOpen
<1>4. /\ wrote = number
      /\ number => target \in open /\ Meant(numberPipes, target, line + s.after)
      /\ s.pipe => /\ target \in open /\ target # joint /\ target # due
                   /\ \A i \in DOMAIN numberPipes : numberPipes[i].to > line => numberPipes[i].pipe # target
      /\ ~s.pipe /\ ~number => target = NoPipe
  <2>1. s.after = 0 <=> ~number
    BY <1>2
  <2>2. TargetRight
    BY DEF PipesRight
  <2> QED BY ONLY <1>1, <2>1, <2>2 DEF TargetRight
<1>5. (InLine' <=> rest # <<>>) /\ Joined'
  BY <1>3 DEF InLine, Joined
<1> HIDE DEF s, number, rest, counted
<1>6. /\ counted \in Seq(NumberPipe)
      /\ DOMAIN counted = DOMAIN numberPipes
      /\ \A i \in DOMAIN numberPipes :
            /\ counted[i].pipe = numberPipes[i].pipe /\ counted[i].to = numberPipes[i].to
            /\ counted[i].count = IF number THEN numberPipes[i].count - 1 ELSE numberPipes[i].count
      /\ \A i : Current(counted, i) <=> Current(numberPipes, i)
      /\ \A p, l : Meant(counted, p, l) <=> Meant(numberPipes, p, l)
  BY <1>1, TickCounts, TickMeans DEF counted
<1>7. \A i \in DOMAIN numberPipes : /\ numberPipes[i].to \in Nat /\ numberPipes[i].pipe \in Pipes
                                    /\ numberPipes[i].count \in Int
  BY <1>1, RecordTypes
<1>8. \A i \in DOMAIN numberPipes : numberPipes[i].to > line =>
         /\ Current(numberPipes, i) /\ numberPipes[i].pipe \in open
         /\ numberPipes[i].pipe # Input
  <2> SUFFICES ASSUME NEW i \in DOMAIN numberPipes, numberPipes[i].to > line
               PROVE  /\ Current(numberPipes, i) /\ numberPipes[i].pipe \in open
                      /\ numberPipes[i].pipe # Input
    OBVIOUS
  <2>1. Current(numberPipes, i) /\ numberPipes[i].pipe \in open
    BY <1>1 DEF PipesRight, PendingOpen
  <2>2. joint # NoPipe => numberPipes[i].pipe # joint
    BY <1>1 DEF PipesRight, JointRight
  <2>3. numberPipes[i].pipe # due
    BY <1>1, <1>7, NotDue, ShellAssumption
  <2> QED BY <2>1, <2>2, <2>3 DEF Input
<1>9. line' \in Nat /\ line' >= line
  BY <1>1, <1>3
<1>10. CountersRight'
  <2> SUFFICES ASSUME NEW i \in DOMAIN numberPipes
               PROVE  counted[i].count = counted[i].to - line' - Ahead'
    BY <1>3, <1>6 DEF CountersRight
  <2>1. numberPipes[i].count = numberPipes[i].to - line
    <3>1. Ahead = 0
      BY <1>1 DEF Ahead
    <3> QED BY <1>1, <1>7, <3>1 DEF PipesRight, CountersRight
  <2>2. CASE number /\ rest # <<>>
    <3>1. Ahead' = 0 /\ line' = line + 1
      BY <1>3, <1>5, <2>2 DEF Ahead
    <3> QED BY <1>1, <1>6, <1>7, <2>1, <2>2, <3>1
  <2>3. CASE number /\ rest = <<>>
    <3>1. Ahead' = 1 /\ line' = line
      BY <1>3, <1>4, <1>5, <2>3 DEF Ahead
    <3> QED BY <1>1, <1>6, <1>7, <2>1, <2>3, <3>1
  <2>4. CASE ~number
    <3>1. Ahead' = 0 /\ line' = line
      BY <1>3, <1>4, <2>4 DEF Ahead
    <3> QED BY <1>1, <1>6, <1>7, <2>1, <2>4, <3>1
  <2> QED BY <2>2, <2>3, <2>4
<1>11. LinesDistinct'
  BY <1>3, <1>6 DEF PipesRight, LinesDistinct
<1>12. PendingOpen'
  <2> SUFFICES ASSUME NEW i \in DOMAIN numberPipes, numberPipes[i].to > line'
               PROVE  Current(numberPipes, i) /\ numberPipes[i].pipe \in open'
    BY <1>3, <1>6 DEF PendingOpen
  <2>1. numberPipes[i].to > line
    BY <1>1, <1>7, <1>9
  <2> QED BY <1>3, <1>8, <2>1
<1>13. ASSUME InLine', number
       PROVE  /\ \A i \in DOMAIN numberPipes : numberPipes[i].to = line + 1 => due' = numberPipes[i].pipe
              /\ due' # NoPipe => \E i \in DOMAIN numberPipes : /\ numberPipes[i].to = line + 1
                                                                /\ due' = numberPipes[i].pipe
              /\ line' = line + 1
  <2>1. line' = line + 1 /\ Ahead' = 0 /\ due' = Due(counted)
    BY <1>3, <1>5, <1>13 DEF Ahead
  <2>2. \A i \in DOMAIN counted : counted[i].count = 0 <=> numberPipes[i].to = line + 1
    <3> SUFFICES ASSUME NEW i \in DOMAIN counted
                 PROVE  counted[i].count = 0 <=> numberPipes[i].to = line + 1
      OBVIOUS
    <3>1. counted[i].count = counted[i].to - line' - Ahead'
      BY <1>3, <1>10 DEF CountersRight
    <3>2. counted[i].to = numberPipes[i].to /\ numberPipes[i].to \in Nat
      BY <1>6, <1>7
    <3> QED BY <1>1, <2>1, <3>1, <3>2
  <2>3. \A i, j \in DOMAIN counted : counted[i].count = 0 /\ counted[j].count = 0 => i = j
    BY <1>6, <2>2 DEF PipesRight, LinesDistinct
  <2>4. /\ Due(counted) = NoPipe => \A i \in DOMAIN counted : counted[i].count # 0
        /\ Due(counted) # NoPipe => \E i \in DOMAIN counted : counted[i].count = 0 /\ Due(counted) = counted[i].pipe
    BY <1>6, <2>3, DueIsThatOne
  <2> QED BY <1>6, <2>1, <2>2, <2>3, <2>4
<1>14. DueRight'
  <2> SUFFICES ASSUME InLine', due' # NoPipe
               PROVE  joint' = NoPipe /\ due' \in open' /\ Meant(counted, due', line')
    BY <1>3 DEF DueRight
  <2>1. number /\ joint' = NoPipe
    BY <1>2, <1>3
  <2>2. PICK i \in DOMAIN numberPipes : numberPipes[i].to = line + 1 /\ due' = numberPipes[i].pipe
    BY <1>13, <2>1
  <2>3. Current(numberPipes, i) /\ numberPipes[i].pipe \in open' /\ line' = line + 1
    BY <1>1, <1>3, <1>8, <1>13, <2>1, <2>2
  <2> QED BY <1>6, <2>1, <2>2, <2>3 DEF Meant
<1>15. JointRight'
  <2> SUFFICES ASSUME joint' # NoPipe
               PROVE  /\ joint' \in open'
                      /\ \A i \in DOMAIN counted : counted[i].to > line' => counted[i].pipe # joint'
    BY <1>3 DEF JointRight
  <2>1. s.pipe /\ joint' = target /\ line' = line /\ target # Input
    BY <1>2, <1>3, <1>4 DEF Input
  <2> QED BY <1>3, <1>4, <1>6, <2>1
<1>16. TargetRight'
  BY <1>3 DEF TargetRight
<1>17. OpenKnown'
  <2> SUFFICES ASSUME NEW p \in open', p \notin missed
               PROVE  \/ \E i \in DOMAIN numberPipes : numberPipes[i].to > line' /\ numberPipes[i].pipe = p
                      \/ p = joint'
                      \/ InLine' /\ p = due'
    BY <1>3, <1>5, <1>6 DEF OpenKnown
  <2>1. p \in open /\ p # Input /\ p # NoPipe
    BY <1>1, <1>3, ShellAssumption
  <2>2. ASSUME NEW i \in DOMAIN numberPipes, numberPipes[i].to > line, numberPipes[i].pipe = p
        PROVE  \/ numberPipes[i].to > line'
               \/ InLine' /\ p = due'
    <3>1. CASE number /\ rest # <<>>
      <4>1. numberPipes[i].to = line + 1 \/ numberPipes[i].to > line'
        BY <1>1, <1>5, <1>7, <1>13, <2>2, <3>1
      <4> QED BY <1>5, <1>13, <2>2, <3>1, <4>1
    <3>2. CASE ~(number /\ rest # <<>>)
      BY <1>3, <2>2, <3>2
    <3> QED BY <3>1, <3>2
  <2>3. p # joint /\ p # due
    BY <1>1, <2>1 DEF Input, PipesRight, DueRight
  <2>4. CASE p = target
    <3>1. CASE s.pipe
      BY <1>2, <1>3, <1>5, <2>4, <3>1
    <3>2. CASE number
      <4>1. PICK i \in DOMAIN numberPipes : numberPipes[i].pipe = p /\ numberPipes[i].to = line + s.after
        BY <1>4, <2>4, <3>2 DEF Meant
      <4>2. numberPipes[i].to > line
        BY <1>1, <1>2, <3>2, <4>1 DEF number
      <4> QED BY <2>2, <4>1, <4>2
    <3> QED BY <1>4, <2>1, <2>4, <3>1, <3>2
  <2> QED BY <2>1, <2>2, <2>3, <2>4 DEF PipesRight, OpenKnown
<1>18. MissedOpen'
  BY <1>1, <1>3 DEF PipesRight, MissedOpen, MissedOver, Input
<1>19. MissedOver'
  <2> SUFFICES ASSUME NEW p \in missed
               PROVE  /\ InLine' => p # due' /\ p # joint'
                      /\ \A i \in DOMAIN numberPipes : numberPipes[i].to > line' => numberPipes[i].pipe # p
    BY <1>3, <1>6 DEF MissedOver
  <2>1. /\ p \in Pipes /\ p # NoPipe /\ p # target
        /\ \A i \in DOMAIN numberPipes : numberPipes[i].to > line => numberPipes[i].pipe # p
    BY <1>1, ShellAssumption DEF PipesRight, MissedOver
  <2>2. p # joint'
    BY <1>3, <2>1
  <2>3. InLine' => p # due'
    BY <1>1, <1>3, <1>7, <1>13, <2>1
  <2>4. \A i \in DOMAIN numberPipes : numberPipes[i].to > line' => numberPipes[i].to > line
    BY <1>1, <1>7, <1>9
  <2> QED BY <2>1, <2>2, <2>3, <2>4
<1> QED BY <1>10, <1>11, <1>12, <1>14, <1>15, <1>16, <1>17, <1>18, <1>19 DEF PipesRight

-----------------------------------------------------------------------------
(* What the programs hold.                                                 *)

\* Programs go on reading and writing what they did; what their pipes mean stays.
LEMMA ProgramsKept ==
    ASSUME ProgramsRight,
           \A q \in Procs : \/ proc'[q].from = 0 /\ proc'[q].to = 0
                            \/ /\ proc'[q].from = proc[q].from /\ proc'[q].to = proc[q].to
                               /\ proc'[q].in = proc[q].in /\ proc'[q].out = proc[q].out
                               /\ proc'[q].rd = proc[q].rd /\ proc'[q].wr = proc[q].wr,
           \A q \in Procs : \A p \in proc[q].rd \cup proc[q].wr : \A l :
               Meant(numberPipes, p, l) => Meant(numberPipes', p, l)
    PROVE  ProgramsRight'
<1>1. WritersRight'
  BY DEF ProgramsRight, WritersRight
<1>2. ReadersRight'
  BY DEF ProgramsRight, ReadersRight
<1> QED BY <1>1, <1>2 DEF ProgramsRight

\* A program is given the pipe that is due, and the one of the line it writes to.
LEMMA ForkPrograms ==
    ASSUME Typed, PipesRight, ProgramsRight, Fork
    PROVE  ProgramsRight'
<1> DEFINE s == Head(stages)
           f == CHOOSE q \in Free : TRUE
           counted == IF s.after > 0 THEN Tick(numberPipes) ELSE numberPipes
<1>1. /\ numberPipes \in Seq(NumberPipe) /\ open \subseteq Pipes /\ line \in Nat
      /\ pc = "fork" /\ InLine /\ Joined /\ proc \in [Procs -> Child]
      /\ target \in Pipes \cup {NoPipe}
  BY DEF Typed, TypeOK, Fork, InLine, Joined
<1>2. /\ numberPipes' = counted /\ f \in Procs
      /\ proc' = [proc EXCEPT ![f] = Started(s)]
  <2>1. Free # {} /\ Free \subseteq Procs
    BY DEF Fork, Free
  <2> QED BY <2>1 DEF Fork
<1>3. \A p, l : Meant(counted, p, l) <=> Meant(numberPipes, p, l)
  BY <1>1, TickMeans
<1>4. s.after \in Nat
  BY <1>1, NextProgram
<1>5. s.after > 0 => target \in open /\ Meant(numberPipes, target, line + s.after)
  BY <1>1 DEF PipesRight, TargetRight
<1> HIDE DEF s, f, counted
<1>6. Started(s).to # 0 => /\ Started(s).out \in Started(s).wr
                           /\ Meant(numberPipes, Started(s).out, Started(s).to)
  <2> SUFFICES ASSUME Started(s).to # 0
               PROVE  /\ Started(s).out \in Started(s).wr
                      /\ Meant(numberPipes, Started(s).out, Started(s).to)
    OBVIOUS
  <2>1. /\ s.after > 0 /\ Output(s) = target /\ Output(s) # NoPipe
        /\ Started(s).to = line + s.after /\ Started(s).out = target
        /\ Started(s).wr = open \ {Input}
    BY DEF Started, Output, WriteEnds
  <2>2. PICK i \in DOMAIN numberPipes : /\ Current(numberPipes, i)
                                        /\ numberPipes[i].pipe = target /\ numberPipes[i].to = line + s.after
    BY <1>5, <2>1 DEF Meant
  <2>3. numberPipes[i].to > line
    BY <1>1, <1>4, <2>1, <2>2
  <2>4. target # due
    BY <1>1, <2>1, <2>2, <2>3, NotDue
  <2>5. target # joint
    BY <1>1, <2>1, <2>2, <2>3 DEF PipesRight, JointRight
  <2> QED BY <1>5, <2>1, <2>4, <2>5 DEF Input
<1>7. Started(s).from # 0 => /\ Started(s).in \in Started(s).rd
                             /\ Meant(numberPipes, Started(s).in, Started(s).from)
  <2> SUFFICES ASSUME Started(s).from # 0
               PROVE  /\ Started(s).in \in Started(s).rd
                      /\ Meant(numberPipes, Started(s).in, Started(s).from)
    OBVIOUS
  <2>1. /\ joint = NoPipe /\ due # NoPipe /\ Started(s).from = line
        /\ Started(s).in = due /\ Started(s).rd = open \ {Output(s)}
    BY DEF Started, Input, ReadEnds
  <2>2. due \in open /\ Meant(numberPipes, due, line)
    BY <1>1, <2>1 DEF PipesRight, DueRight
  <2>3. Output(s) # due
    <3>1. CASE s.after > 0
      <4>1. PICK i \in DOMAIN numberPipes : numberPipes[i].pipe = target /\ numberPipes[i].to = line + s.after
        BY <1>5, <3>1 DEF Meant
      <4>2. target # due
        BY <1>1, <1>4, <2>1, <3>1, <4>1, NotDue
      <4> QED BY <2>1, <4>2 DEF Output
    <3>2. CASE s.pipe
      BY <1>1, <2>1, <3>2 DEF PipesRight, TargetRight, Output, s
    <3>3. CASE s.after = 0 /\ ~s.pipe
      BY <1>1, <2>1, <3>3 DEF PipesRight, TargetRight, Output, s
    <3> QED BY <1>4, <3>1, <3>2, <3>3
  <2> QED BY <2>1, <2>2, <2>3
<1>8. /\ proc'[f] = Started(s)
      /\ \A q \in Procs : q # f => proc'[q] = proc[q]
  BY <1>1, <1>2
<1>9. WritersRight'
  BY <1>2, <1>3, <1>6, <1>8 DEF ProgramsRight, WritersRight
<1>10. ReadersRight'
  BY <1>2, <1>3, <1>7, <1>8 DEF ProgramsRight, ReadersRight
<1> QED BY <1>9, <1>10 DEF ProgramsRight

\* A new pipe is not one that a program reads or writes.
LEMMA OpenPipePrograms ==
    ASSUME Typed, PipesRight, ProgramsRight, OpenPipe
    PROVE  ProgramsRight'
<1>1. /\ numberPipes \in Seq(NumberPipe) /\ line \in Nat /\ InLine /\ UNCHANGED proc
  BY DEF Typed, TypeOK, OpenPipe, InLine
<1>2. CASE UNCHANGED numberPipes
  BY <1>1, <1>2, ProgramsKept DEF Meant, Current
<1>3. CASE /\ Pipe /\ Head(stages).after > 0
           /\ numberPipes' = Append(numberPipes, [count |-> Head(stages).after, pipe |-> NewPipe,
                                                  to |-> line + Head(stages).after])
  <2> DEFINE r == [count |-> Head(stages).after, pipe |-> NewPipe, to |-> line + Head(stages).after]
  <2>1. /\ NewPipe \in Pipes
        /\ \A q \in Procs : NewPipe \notin proc[q].rd /\ NewPipe \notin proc[q].wr
    BY <1>3, FreshPipe DEF Pipe
  <2>2. r \in NumberPipe /\ r.pipe = NewPipe
    BY <1>1, <2>1, NextProgram DEF NumberPipe
  <2> HIDE DEF r
  <2>3. \A p, l : Meant(numberPipes, p, l) /\ p # NewPipe => Meant(numberPipes', p, l)
    BY <1>1, <1>3, <2>2, AppendMeans DEF r
  <2>4. \A q \in Procs : \A p \in proc[q].rd \cup proc[q].wr : \A l :
           Meant(numberPipes, p, l) => Meant(numberPipes', p, l)
    BY <2>1, <2>3
  <2> QED BY <1>1, <2>4, ProgramsKept
<1> QED BY <1>2, <1>3 DEF OpenPipe

\* Counting at a new line changes nobody's pipe.
LEMMA TypePrograms ==
    ASSUME Typed, ProgramsRight, NEW l \in Lines, Type(l)
    PROVE  ProgramsRight'
<1>1. /\ numberPipes \in Seq(NumberPipe) /\ numberPipes' = Counted /\ UNCHANGED proc
  BY DEF Typed, TypeOK, Type
<1>2. \A p, k : Meant(numberPipes, p, k) => Meant(numberPipes', p, k)
  BY <1>1, TickMeans DEF Counted
<1> QED BY <1>1, <1>2, ProgramsKept

-----------------------------------------------------------------------------
(* The steps of children, and the types.                                   *)

\* A child that has ended, and one that has read or written.
LEMMA Children ==
    /\ Nobody \in Child /\ Nobody.from = 0 /\ Nobody.to = 0 /\ ~Nobody.reads /\ Nobody.left = 0
    /\ \A t \in {"none", "zombie"} : LET c == [Nobody EXCEPT !.state = t]
                                     IN  c \in Child /\ c.from = 0 /\ c.to = 0 /\ ~c.reads /\ c.left = 0
    /\ \A c \in Child, n \in Nat : LET d == [c EXCEPT !.left = n]
                                   IN  /\ d \in Child /\ d.left = n /\ d.reads = c.reads
                                       /\ d.from = c.from /\ d.to = c.to /\ d.in = c.in
                                       /\ d.out = c.out /\ d.rd = c.rd /\ d.wr = c.wr
<1>1. /\ Nobody \in Child /\ Nobody.from = 0 /\ Nobody.to = 0 /\ ~Nobody.reads /\ Nobody.left = 0
  BY DEF Nobody, Child
<1>2. ASSUME NEW t \in {"none", "zombie"}
      PROVE  LET c == [Nobody EXCEPT !.state = t]
             IN  c \in Child /\ c.from = 0 /\ c.to = 0 /\ ~c.reads /\ c.left = 0
  BY DEF Nobody, Child
<1>3. ASSUME NEW c \in Child, NEW n \in Nat
      PROVE  LET d == [c EXCEPT !.left = n]
             IN  /\ d \in Child /\ d.left = n /\ d.reads = c.reads
                 /\ d.from = c.from /\ d.to = c.to /\ d.in = c.in
                 /\ d.out = c.out /\ d.rd = c.rd /\ d.wr = c.wr
  BY DEF Child
<1> QED BY <1>1, <1>2, <1>3

\* Steps that replace one child by an ended one, or change what it has to write,
\* keep the types of the children and what they hold.
LEMMA ChildStep ==
    ASSUME Typed, ProgramsRight, UNCHANGED numberPipes, NEW q \in Procs,
           \/ proc' = [proc EXCEPT ![q] = Nobody]
           \/ \E t \in {"none", "zombie"} : proc' = [proc EXCEPT ![q] = [Nobody EXCEPT !.state = t]]
           \/ \E n \in Nat : /\ proc' = [proc EXCEPT ![q].left = n]
                             /\ n > 0 => proc[q].out \in Pipes
    PROVE  /\ proc' \in [Procs -> Child]
           /\ \A r \in Procs : /\ proc'[r].reads => proc'[r].in \in Pipes
                               /\ proc'[r].left > 0 => proc'[r].out \in Pipes
           /\ ProgramsRight'
<1>1. proc \in [Procs -> Child] /\ proc[q] \in Child
  BY DEF Typed, TypeOK
<1>2. /\ \A r \in Procs : /\ proc[r].reads => proc[r].in \in Pipes
                          /\ proc[r].left > 0 => proc[r].out \in Pipes
  BY DEF Typed, Ready
<1>3. \A p, l : Meant(numberPipes, p, l) => Meant(numberPipes', p, l)
  BY DEF Meant, Current
<1>4. ASSUME NEW c \in Child, proc' = [proc EXCEPT ![q] = c],
             c.reads => c.in \in Pipes, c.left > 0 => c.out \in Pipes,
             \/ c.from = 0 /\ c.to = 0
             \/ /\ c.from = proc[q].from /\ c.to = proc[q].to /\ c.in = proc[q].in
                /\ c.out = proc[q].out /\ c.rd = proc[q].rd /\ c.wr = proc[q].wr
      PROVE  /\ proc' \in [Procs -> Child]
             /\ \A r \in Procs : /\ proc'[r].reads => proc'[r].in \in Pipes
                                 /\ proc'[r].left > 0 => proc'[r].out \in Pipes
             /\ ProgramsRight'
  <2>1. proc'[q] = c /\ \A r \in Procs : r # q => proc'[r] = proc[r]
    BY <1>1, <1>4
  <2>2. proc' \in [Procs -> Child]
    BY <1>1, <1>4
  <2>3. \A r \in Procs : /\ proc'[r].reads => proc'[r].in \in Pipes
                         /\ proc'[r].left > 0 => proc'[r].out \in Pipes
    BY <1>2, <1>4, <2>1
  <2>4. \A r \in Procs : \/ proc'[r].from = 0 /\ proc'[r].to = 0
                         \/ /\ proc'[r].from = proc[r].from /\ proc'[r].to = proc[r].to
                            /\ proc'[r].in = proc[r].in /\ proc'[r].out = proc[r].out
                            /\ proc'[r].rd = proc[r].rd /\ proc'[r].wr = proc[r].wr
    BY <1>4, <2>1
  <2> QED BY <1>3, <2>2, <2>3, <2>4, ProgramsKept
<1>5. CASE proc' = [proc EXCEPT ![q] = Nobody]
  <2>1. /\ Nobody \in Child /\ Nobody.from = 0 /\ Nobody.to = 0 /\ ~Nobody.reads
        /\ ~(Nobody.left > 0)
    BY Children
  <2> QED BY ONLY <1>4, <1>5, <2>1
<1>6. ASSUME NEW t \in {"none", "zombie"}, proc' = [proc EXCEPT ![q] = [Nobody EXCEPT !.state = t]]
      PROVE  /\ proc' \in [Procs -> Child]
             /\ \A r \in Procs : /\ proc'[r].reads => proc'[r].in \in Pipes
                                 /\ proc'[r].left > 0 => proc'[r].out \in Pipes
             /\ ProgramsRight'
  <2> DEFINE c == [Nobody EXCEPT !.state = t]
  <2>1. c \in Child /\ c.from = 0 /\ c.to = 0 /\ ~c.reads /\ ~(c.left > 0)
    BY <1>6, Children
  <2>2. proc' = [proc EXCEPT ![q] = c]
    BY <1>6
  <2> HIDE DEF c
  <2> QED BY ONLY <1>4, <2>1, <2>2
<1>7. ASSUME NEW n \in Nat, proc' = [proc EXCEPT ![q].left = n], n > 0 => proc[q].out \in Pipes
      PROVE  /\ proc' \in [Procs -> Child]
             /\ \A r \in Procs : /\ proc'[r].reads => proc'[r].in \in Pipes
                                 /\ proc'[r].left > 0 => proc'[r].out \in Pipes
             /\ ProgramsRight'
  <2> DEFINE d == [proc[q] EXCEPT !.left = n]
  <2>1. /\ d \in Child /\ d.left = n /\ d.reads = proc[q].reads
        /\ d.from = proc[q].from /\ d.to = proc[q].to /\ d.in = proc[q].in
        /\ d.out = proc[q].out /\ d.rd = proc[q].rd /\ d.wr = proc[q].wr
    BY <1>1, Children
  <2>2. proc' = [proc EXCEPT ![q] = d]
    BY <1>7
  <2> HIDE DEF d
  <2> QED BY <1>2, <1>4, <1>7, <2>1, <2>2
<1> QED BY <1>5, <1>6, <1>7

\* Counters that are right give a pipe, or none.
LEMMA DueIsPipe ==
    ASSUME NEW n \in Seq(NumberPipe), NEW d \in Int,
           \A i \in DOMAIN n : n[i].count = n[i].to - d,
           \A i, j \in DOMAIN n : n[i].to = n[j].to => i = j
    PROVE  Due(n) \in Pipes \cup {NoPipe}
<1>1. ASSUME NEW i \in DOMAIN n, NEW j \in DOMAIN n, n[i].count = 0, n[j].count = 0
      PROVE  i = j
  <2>1. n[i].to \in Nat /\ n[j].to \in Nat
    BY RecordTypes
  <2> QED BY <1>1, <2>1
<1> QED BY <1>1, DueIsThatOne

\* The pipe that is due after counting is a pipe.
LEMMA DueTyped ==
    ASSUME numberPipes' \in Seq(NumberPipe), line' \in Nat, PipesRight'
    PROVE  Due(numberPipes') \in Pipes \cup {NoPipe}
<1>1. line' + Ahead' \in Int /\ Ahead' \in Int
  BY DEF Ahead
<1>2. \A i \in DOMAIN numberPipes' : numberPipes'[i].count = numberPipes'[i].to - (line' + Ahead')
  <2> SUFFICES ASSUME NEW i \in DOMAIN numberPipes'
               PROVE  numberPipes'[i].count = numberPipes'[i].to - (line' + Ahead')
    OBVIOUS
  <2>1. numberPipes'[i].count = numberPipes'[i].to - line' - Ahead'
    BY DEF PipesRight, CountersRight
  <2>2. numberPipes'[i].to \in Nat
    BY RecordTypes
  <2> QED BY <1>1, <2>1, <2>2
<1>3. \A i, j \in DOMAIN numberPipes' : numberPipes'[i].to = numberPipes'[j].to => i = j
  BY DEF PipesRight, LinesDistinct
<1> QED BY <1>1, <1>2, <1>3, DueIsPipe

LEMMA TypeTyped ==
    ASSUME Typed, PipesRight', NEW l \in Lines, Type(l)
    PROVE  Typed'
<1>1. l \in Seq(Stage) /\ l # <<>> /\ Len(l) \in Nat /\ DOMAIN l = 1 .. Len(l)
  BY LinesAssumption, LenProperties
<1>2. \A i \in DOMAIN l : l[i].pipe => l[i].after = 0
  BY LinesAssumption
<1>3. numberPipes' \in Seq(NumberPipe) /\ line' \in Nat
  BY TickCounts DEF Typed, TypeOK, Type, Counted
<1>4. due' \in Pipes \cup {NoPipe}
  BY <1>3, DueTyped DEF Type
<1>5. /\ pc' = "stage" /\ stages' = l /\ wrote' \in BOOLEAN /\ joint' = NoPipe
      /\ typed' \in 0 .. MaxLines /\ fg' = NoProc
      /\ UNCHANGED <<target, open, missed, proc, held, handler, sigchld>>
  BY ShellAssumption DEF Type, Typed, TypeOK, signals
<1>6. TypeOK'
  BY <1>1, <1>3, <1>4, <1>5 DEF Typed, TypeOK
<1>7. Ready'
  BY <1>1, <1>2, <1>5 DEF Typed, Ready
<1> QED BY <1>6, <1>7 DEF Typed

LEMMA BuiltinTyped ==
    ASSUME Typed, PipesRight', Builtin
    PROVE  Typed'
<1>1. TypeOK'
  <2>1. /\ pc' = "wait" /\ wrote' = FALSE /\ due' = NoPipe /\ joint' = NoPipe /\ stages' = <<>>
        /\ missed' = missed \cup ({due, joint} \ {NoPipe})
        /\ UNCHANGED <<typed, numberPipes, target, open, fg, line, proc, held, handler, sigchld>>
    BY DEF Builtin, signals
  <2>2. missed' \subseteq Pipes
    BY <2>1 DEF Typed, TypeOK
  <2>3. stages' \in Seq(Stage)
    BY <2>1
  <2> QED BY <2>1, <2>2, <2>3 DEF Typed, TypeOK
<1>2. Ready'
  BY DEF Typed, Ready, Builtin, InLine
<1> QED BY <1>1, <1>2 DEF Typed

LEMMA OpenPipeTyped ==
    ASSUME Typed, PipesRight, OpenPipe
    PROVE  Typed'
<1>1. InLine /\ pc = "stage"
  BY DEF OpenPipe, InLine
<1>2. Head(stages).after \in Nat /\ stages # <<>>
  BY <1>1, NextProgram DEF Typed, Ready
<1>3. /\ numberPipes \in Seq(NumberPipe) /\ open \subseteq Pipes /\ line \in Nat
      /\ held \in [Pipes -> 0 .. Capacity] /\ 0 \in 0 .. Capacity
  BY ShellAssumption DEF Typed, TypeOK
<1>4. Pipe => /\ target' \in Pipes /\ open' \subseteq Pipes /\ held' \in [Pipes -> 0 .. Capacity]
              /\ NewPipe \in Pipes
  BY <1>3, FreshPipe DEF Pipe
<1>5. /\ target' \in Pipes \cup {NoPipe} /\ open' \subseteq Pipes /\ held' \in [Pipes -> 0 .. Capacity]
      /\ numberPipes' \in Seq(NumberPipe)
  <2>1. ASSUME NEW i \in SameCount(numberPipes, Head(stages).after)
        PROVE  numberPipes[i].pipe \in Pipes
    BY <1>3, RecordTypes DEF SameCount
  <2>2. ASSUME Pipe
        PROVE  Append(numberPipes, [count |-> Head(stages).after, pipe |-> NewPipe,
                                    to |-> line + Head(stages).after]) \in Seq(NumberPipe)
    <3>1. [count |-> Head(stages).after, pipe |-> NewPipe, to |-> line + Head(stages).after] \in NumberPipe
      BY <1>2, <1>3, <1>4, <2>2 DEF NumberPipe
    <3> QED BY <1>3, <3>1, AppendMeans
  <2>3. CASE Head(stages).pipe /\ Pipe /\ UNCHANGED numberPipes
    BY <1>3, <1>4, <2>3
  <2>4. CASE target' = NoPipe /\ UNCHANGED <<open, held, numberPipes>>
    BY <1>3, <2>4
  <2>5. CASE \E i \in SameCount(numberPipes, Head(stages).after) :
                /\ target' = numberPipes[i].pipe /\ UNCHANGED <<open, held, numberPipes>>
    BY <1>3, <2>1, <2>5
  <2>6. CASE /\ Pipe
             /\ numberPipes' = Append(numberPipes, [count |-> Head(stages).after, pipe |-> NewPipe,
                                                    to |-> line + Head(stages).after])
    BY <1>4, <2>2, <2>6
  <2> QED BY <2>3, <2>4, <2>5, <2>6 DEF OpenPipe
<1>6. /\ pc' = "fork" /\ wrote' \in BOOLEAN
      /\ UNCHANGED <<typed, stages, due, joint, fg, line, missed, proc, handler, sigchld>>
  BY DEF OpenPipe, signals
<1>7. TypeOK'
  BY <1>5, <1>6 DEF Typed, TypeOK
<1>8. Ready'
  BY <1>2, <1>6 DEF Typed, Ready
<1> QED BY <1>7, <1>8 DEF Typed

LEMMA ForkTyped ==
    ASSUME Typed, PipesRight', Fork
    PROVE  Typed'
<1> DEFINE s == Head(stages)
           f == CHOOSE q \in Free : TRUE
           c == Started(s)
<1>1. /\ pc = "fork" /\ InLine /\ numberPipes \in Seq(NumberPipe) /\ line \in Nat
      /\ open \subseteq Pipes /\ joint \in Pipes \cup {NoPipe} /\ due \in Pipes \cup {NoPipe}
      /\ target \in Pipes \cup {NoPipe} /\ fg \in Procs \cup {NoProc} /\ proc \in [Procs -> Child]
  BY DEF Typed, TypeOK, Fork, InLine
<1>2. /\ s.kind \in {"builtin", "unknown", "reads", "writes"} /\ s.size \in Nat /\ s.after \in Nat
      /\ Tail(stages) \in Seq(Stage) /\ DOMAIN Tail(stages) = 1 .. (Len(stages) - 1)
      /\ Len(Tail(stages)) = Len(stages) - 1
      /\ \A j \in DOMAIN Tail(stages) : Tail(stages)[j] = stages[j + 1] /\ j + 1 \in DOMAIN stages
  BY <1>1, NextProgram, LenProperties DEF Stage
<1>3. f \in Procs
  <2>1. Free # {} /\ Free \subseteq Procs
    BY DEF Fork, Free
  <2> QED BY <2>1
<1>4. /\ proc' = [proc EXCEPT ![f] = c]
      /\ fg' = IF s.after > 0 THEN fg ELSE f
      /\ open' = open \ {Input} /\ target' = NoPipe
      /\ joint' = IF s.pipe THEN target ELSE NoPipe
      /\ numberPipes' = IF s.after > 0 THEN Tick(numberPipes) ELSE numberPipes
      /\ due' = IF s.after > 0 THEN Due(numberPipes') ELSE NoPipe
      /\ stages' = Tail(stages) /\ pc' = IF Tail(stages) = <<>> THEN "wait" ELSE "stage"
      /\ line' = IF s.after > 0 /\ Tail(stages) # <<>> THEN line + 1 ELSE line
      /\ UNCHANGED <<typed, wrote, missed, held, handler, sigchld>>
  BY DEF Fork, LeftOpen, signals
<1>5. c \in Child /\ (c.reads => c.in \in Pipes) /\ (c.left > 0 => c.out \in Pipes)
  <2>1. Input \in Pipes \cup {NoPipe} /\ Output(s) \in Pipes \cup {NoPipe}
    BY <1>1 DEF Input, Output
  <2>2. /\ c.state = "run" /\ c.reads \in BOOLEAN /\ c.left \in Nat
        /\ c.in = Input /\ c.out = Output(s) /\ c.rd \subseteq Pipes /\ c.wr \subseteq Pipes
        /\ c.from \in Nat /\ c.to \in Nat
        /\ c.reads => Input # NoPipe
        /\ c.left > 0 => Output(s) # NoPipe
    <3>1. /\ c.state = "run" /\ c.in = Input /\ c.out = Output(s)
          /\ c.rd = ReadEnds(s) /\ c.wr = WriteEnds(s)
          /\ c.reads = (s.kind = "reads" /\ Input # NoPipe)
          /\ c.left = IF Output(s) = NoPipe THEN 0
                      ELSE IF s.kind = "unknown" THEN (IF s.err THEN 1 ELSE 0) ELSE s.size
          /\ c.from = IF joint = NoPipe /\ due # NoPipe THEN line ELSE 0
          /\ c.to = IF s.after > 0 /\ Output(s) # NoPipe THEN line + s.after ELSE 0
      BY DEF Started
    <3>2. c.rd \subseteq Pipes /\ c.wr \subseteq Pipes
      BY <1>1, <3>1 DEF ReadEnds, WriteEnds
    <3> HIDE DEF c, s
    <3>3. c.left \in Nat /\ (c.left > 0 => Output(s) # NoPipe)
      BY <1>2, <3>1
    <3>4. c.from \in Nat /\ c.to \in Nat
      BY <1>1, <1>2, <3>1
    <3> QED BY <3>1, <3>2, <3>3, <3>4
  <2>3. c = [state |-> c.state, reads |-> c.reads, left |-> c.left, in |-> c.in, out |-> c.out,
             rd |-> c.rd, wr |-> c.wr, from |-> c.from, to |-> c.to]
    BY DEF Started
  <2> HIDE DEF c, s
  <2> QED BY <2>1, <2>2, <2>3 DEF Child
<1> HIDE DEF s, f, c
<1>6. /\ proc' \in [Procs -> Child] /\ proc'[f] = c
      /\ \A q \in Procs : q # f => proc'[q] = proc[q]
  BY <1>1, <1>3, <1>4, <1>5
<1>7. numberPipes' \in Seq(NumberPipe) /\ line' \in Nat
  BY <1>1, <1>4, TickCounts
<1>8. due' \in Pipes \cup {NoPipe}
  BY <1>4, <1>7, DueTyped
<1>9. TypeOK'
  BY <1>1, <1>2, <1>3, <1>4, <1>6, <1>7, <1>8 DEF Typed, TypeOK
<1>10. Ready'
  <2>1. InLine' => stages' # <<>>
    BY <1>4 DEF InLine
  <2>2. \A l \in DOMAIN stages' : stages'[l].pipe => stages'[l].after = 0
    BY <1>2, <1>4 DEF Typed, Ready
  <2>3. \A q \in Procs : /\ proc'[q].reads => proc'[q].in \in Pipes
                         /\ proc'[q].left > 0 => proc'[q].out \in Pipes
    BY <1>5, <1>6 DEF Typed, Ready
  <2> QED BY <2>1, <2>2, <2>3 DEF Ready
<1> QED BY <1>9, <1>10 DEF Typed

-----------------------------------------------------------------------------
(* The invariant, and the theorems.                                        *)

LEMMA InitInv == Init => Inv
<1> SUFFICES ASSUME Init PROVE Inv
  OBVIOUS
<1>1. /\ pc = "prompt" /\ numberPipes = <<>> /\ open = {} /\ missed = {} /\ stages = <<>>
      /\ ~InLine
  BY DEF Init, InLine
<1>2. Len(numberPipes) = 0 /\ DOMAIN numberPipes = {} /\ DOMAIN stages = {}
  BY <1>1
<1>3. Typed
  <2>1. TypeOK
    <3>1. typed = 0 /\ typed \in 0 .. MaxLines
      BY ShellAssumption DEF Init
    <3>2. proc \in [Procs -> Child]
      BY Children DEF Init
    <3>3. held \in [Pipes -> 0 .. Capacity]
      BY ShellAssumption DEF Init
    <3>4. stages \in Seq(Stage) /\ numberPipes \in Seq(NumberPipe)
      BY <1>1
    <3> QED BY <3>1, <3>2, <3>3, <3>4 DEF Init, TypeOK
  <2>2. \A q \in Procs : ~proc[q].reads /\ ~(proc[q].left > 0)
    BY Children DEF Init
  <2> QED BY <1>1, <1>2, <2>1, <2>2 DEF Typed, Ready
<1>4. PipesRight
  <2>1. CountersRight /\ LinesDistinct /\ PendingOpen
    BY <1>2 DEF CountersRight, LinesDistinct, PendingOpen
  <2>2. DueRight /\ JointRight /\ TargetRight
    BY <1>1, <1>2 DEF DueRight, JointRight, TargetRight, Joined
  <2>3. OpenKnown /\ MissedOpen /\ MissedOver
    BY <1>1 DEF OpenKnown, MissedOpen, MissedOver
  <2> QED BY <2>1, <2>2, <2>3 DEF PipesRight
<1>5. ProgramsRight
  <2>1. \A q \in Procs : proc[q].from = 0 /\ proc[q].to = 0
    BY Children DEF Init
  <2> QED BY <2>1 DEF ProgramsRight, WritersRight, ReadersRight
<1> QED BY <1>3, <1>4, <1>5 DEF Inv

\* A child is reaped: nothing else is touched.
LEMMA ReapedInv ==
    ASSUME Typed, ProgramsRight, NEW q \in Procs, Reaped(q), UNCHANGED <<numberPipes, stages>>,
           InLine' <=> InLine
    PROVE  /\ proc' \in [Procs -> Child] /\ fg' \in Procs \cup {NoProc}
           /\ Ready' /\ ProgramsRight'
<1>1. proc' = [proc EXCEPT ![q] = Nobody] /\ fg' \in Procs \cup {NoProc}
  BY DEF Reaped, Typed, TypeOK
<1>2. /\ proc' \in [Procs -> Child]
      /\ \A r \in Procs : /\ proc'[r].reads => proc'[r].in \in Pipes
                          /\ proc'[r].left > 0 => proc'[r].out \in Pipes
      /\ ProgramsRight'
  BY <1>1, ChildStep
<1>3. Ready'
  BY <1>2 DEF Typed, Ready
<1> QED BY <1>1, <1>2, <1>3

\* Steps that change neither the pipes nor what the programs hold.
LEMMA Quiet ==
    ASSUME Inv,
           UNCHANGED <<stages, numberPipes, wrote, due, joint, target, open, line, missed>>,
           InLine' <=> InLine, pc' \in {"fork", "full"} <=> pc \in {"fork", "full"},
           pc' = "gone" <=> pc = "gone", Joined' <=> Joined,
           TypeOK', Ready', ProgramsRight'
    PROVE  Inv'
<1>1. PipesRight'
  BY PipesUnchanged DEF Inv
<1> QED BY <1>1 DEF Inv, Typed

LEMMA WaitInv ==
    ASSUME Inv, WaitForAny \/ WaitForLast \/ HandlerReaps
    PROVE  Inv'
<1> USE DEF Inv
<1>1. /\ UNCHANGED <<stages, numberPipes, wrote, due, joint, target, open, line, missed, typed, held>>
      /\ (InLine' <=> InLine) /\ (Joined' <=> Joined)
      /\ pc' \in {"fork", "full"} <=> pc \in {"fork", "full"}
      /\ pc' = "gone" <=> pc = "gone"
      /\ pc' \in {"prompt", "stage", "fork", "full", "wait", "gone"}
      /\ handler' \in {"none", "set", "waits"} /\ sigchld' \in BOOLEAN
  BY DEF WaitForAny, WaitForLast, HandlerReaps, InLine, Joined, Typed, TypeOK, signals
<1>2. (\E q \in Procs : Reaped(q)) \/ UNCHANGED <<proc, fg>>
  BY DEF WaitForAny, WaitForLast, HandlerReaps, Zombies
<1>3. /\ proc' \in [Procs -> Child] /\ fg' \in Procs \cup {NoProc}
      /\ Ready' /\ ProgramsRight'
  <2>1. CASE \E q \in Procs : Reaped(q)
    BY <1>1, <2>1, ReapedInv
  <2>2. CASE UNCHANGED <<proc, fg>>
    <3>1. Ready' /\ proc' \in [Procs -> Child] /\ fg' \in Procs \cup {NoProc}
      BY <1>1, <2>2 DEF Typed, TypeOK, Ready
    <3>2. ProgramsRight'
      BY <1>1, <2>2 DEF ProgramsRight, WritersRight, ReadersRight, Meant, Current
    <3> QED BY <3>1, <3>2
  <2> QED BY <1>2, <2>1, <2>2
<1>4. TypeOK'
  BY <1>1, <1>3 DEF Typed, TypeOK
<1> QED BY <1>1, <1>3, <1>4, Quiet

LEMMA ForkFailsInv ==
    ASSUME Inv, ForkFails \/ HandlerCalled \/ UNCHANGED vars
    PROVE  Inv'
<1>1. /\ UNCHANGED <<stages, numberPipes, wrote, due, joint, target, open, line, missed, typed,
                     fg, proc, held>>
      /\ (InLine' <=> InLine) /\ (Joined' <=> Joined)
      /\ pc' \in {"fork", "full"} <=> pc \in {"fork", "full"}
      /\ pc' = "gone" <=> pc = "gone"
      /\ pc' \in {"prompt", "stage", "fork", "full", "wait", "gone"}
      /\ handler' \in {"none", "set", "waits"} /\ sigchld' \in BOOLEAN
  BY DEF ForkFails, HandlerCalled, InLine, Joined, Inv, Typed, TypeOK, vars, shell, signals
<1>2. TypeOK' /\ Ready'
  BY <1>1 DEF Inv, Typed, TypeOK, Ready
<1>3. ProgramsRight'
  BY <1>1 DEF Inv, ProgramsRight, WritersRight, ReadersRight, Meant, Current
<1> QED BY <1>1, <1>2, <1>3, Quiet

LEMMA ProgramInv ==
    ASSUME Inv, NEW q \in Procs, Program(q)
    PROVE  Inv'
<1>1. /\ proc \in [Procs -> Child] /\ proc[q] \in Child /\ held \in [Pipes -> 0 .. Capacity]
      /\ proc[q].reads => proc[q].in \in Pipes
      /\ proc[q].left > 0 => proc[q].out \in Pipes
      /\ Capacity \in Nat
  BY ShellAssumption DEF Inv, Typed, TypeOK, Ready
<1>2. proc[q].left \in Nat /\ proc[q].out \in Pipes \cup {NoPipe}
  BY <1>1 DEF Child
<1>3. /\ UNCHANGED shell
      /\ held' \in [Pipes -> 0 .. Capacity]
      /\ handler' \in {"none", "set", "waits"} /\ sigchld' \in BOOLEAN
      /\ \/ \E t \in {"none", "zombie"} : proc' = [proc EXCEPT ![q] = [Nobody EXCEPT !.state = t]]
         \/ \E n \in Nat : /\ proc' = [proc EXCEPT ![q].left = n]
                           /\ n > 0 => proc[q].out \in Pipes
  <2>1. CASE Read(q)
    <3> DEFINE n == IF proc[q].out = NoPipe THEN 0 ELSE proc[q].left + 1
    <3>1. n \in Nat /\ (n > 0 => proc[q].out \in Pipes)
      BY <1>2
    <3>2. proc' = [proc EXCEPT ![q].left = n]
      BY <2>1 DEF Read
    <3>3. held' \in [Pipes -> 0 .. Capacity]
      <4>1. held[proc[q].in] \in 0 .. Capacity /\ held[proc[q].in] > 0
        BY <1>1, <2>1 DEF Read
      <4>2. held[proc[q].in] - 1 \in 0 .. Capacity
        BY <1>1, <4>1
      <4>3. held' = [held EXCEPT ![proc[q].in] = held[proc[q].in] - 1]
        BY <2>1 DEF Read
      <4> QED BY <1>1, <4>2, <4>3
    <3>4. UNCHANGED <<shell, signals>>
      BY <2>1 DEF Read
    <3> HIDE DEF n
    <3> QED BY <3>1, <3>2, <3>3, <3>4 DEF signals, Inv, Typed, TypeOK
  <2>2. CASE Write(q)
    <3> DEFINE n == proc[q].left - 1
    <3>1. n \in Nat /\ (n > 0 => proc[q].out \in Pipes)
      BY <1>1, <1>2, <2>2 DEF Write
    <3>2. proc' = [proc EXCEPT ![q].left = n]
      BY <2>2 DEF Write
    <3>3. held' \in [Pipes -> 0 .. Capacity]
      <4>1. /\ proc[q].out \in Pipes /\ held[proc[q].out] \in 0 .. Capacity
            /\ held[proc[q].out] < Capacity
        BY <1>1, <2>2 DEF Write
      <4>2. held[proc[q].out] + 1 \in 0 .. Capacity
        BY <1>1, <4>1
      <4>3. held' = [held EXCEPT ![proc[q].out] = held[proc[q].out] + 1]
        BY <2>2 DEF Write
      <4> QED BY <1>1, <4>2, <4>3
    <3>4. UNCHANGED <<shell, signals>>
      BY <2>2 DEF Write
    <3> HIDE DEF n
    <3> QED BY <3>1, <3>2, <3>3, <3>4 DEF signals, Inv, Typed, TypeOK
  <2>3. CASE Ended(q)
    BY <2>3 DEF Ended, Inv, Typed, TypeOK
  <2> QED BY <2>1, <2>2, <2>3 DEF Program, BreaksOff, Finish
<1>4. /\ UNCHANGED <<stages, numberPipes, wrote, due, joint, target, open, line, missed, typed, fg, pc>>
      /\ (InLine' <=> InLine) /\ (Joined' <=> Joined)
  BY <1>3 DEF shell, InLine, Joined
<1>5. /\ proc' \in [Procs -> Child]
      /\ \A r \in Procs : /\ proc'[r].reads => proc'[r].in \in Pipes
                          /\ proc'[r].left > 0 => proc'[r].out \in Pipes
      /\ ProgramsRight'
  BY <1>3, <1>4, ChildStep DEF Inv
<1>6. TypeOK' /\ Ready'
  BY <1>3, <1>4, <1>5 DEF Inv, Typed, TypeOK, Ready
<1> QED BY <1>4, <1>5, <1>6, Quiet

LEMMA PromptInv ==
    ASSUME Inv, Prompt \/ Builtin
    PROVE  Inv'
<1>1. PipesRight'
  BY PromptPipes, BuiltinPipes DEF Inv
<1>2. Typed'
  <2>1. CASE Builtin
    BY <1>1, <2>1, BuiltinTyped DEF Inv
  <2>2. CASE Prompt
    BY <2>2 DEF Inv, Typed, TypeOK, Ready, Prompt, InLine
  <2> QED BY <2>1, <2>2
<1>3. ProgramsRight'
  BY DEF Inv, ProgramsRight, WritersRight, ReadersRight, Meant, Current, Prompt, Builtin
<1> QED BY <1>1, <1>2, <1>3 DEF Inv

LEMMA ExitInv ==
    ASSUME Inv, Exit
    PROVE  Inv'
<1>1. /\ pc' = "gone" /\ open' = {} /\ missed' = {}
      /\ UNCHANGED <<typed, stages, numberPipes, wrote, due, joint, target, fg, line, held, handler, sigchld>>
      /\ proc' = [q \in Procs |-> IF q \in Zombies THEN Nobody ELSE proc[q]]
  BY DEF Exit, signals
<1>2. proc \in [Procs -> Child]
  BY DEF Inv, Typed, TypeOK
<1>3. \A q \in Procs : proc'[q] = Nobody \/ proc'[q] = proc[q]
  BY <1>1
<1>4. proc' \in [Procs -> Child]
  BY <1>1, <1>2, Children
<1>5. TypeOK'
  BY <1>1, <1>4 DEF Inv, Typed, TypeOK
<1>6. Ready'
  <2>1. \A q \in Procs : /\ proc'[q].reads => proc'[q].in \in Pipes
                         /\ proc'[q].left > 0 => proc'[q].out \in Pipes
    <3>1. ~Nobody.reads /\ ~(Nobody.left > 0)
      BY Children
    <3> QED BY <1>3, <3>1 DEF Inv, Typed, Ready
  <2> QED BY <1>1, <2>1 DEF Inv, Typed, Ready, InLine
<1>7. ProgramsRight'
  <2>1. \A q \in Procs : \/ proc'[q].from = 0 /\ proc'[q].to = 0
                         \/ proc'[q] = proc[q]
    BY <1>3, Children
  <2>2. \A p, l : Meant(numberPipes, p, l) => Meant(numberPipes', p, l)
    BY <1>1 DEF Meant, Current
  <2> QED BY <2>1, <2>2, ProgramsKept DEF Inv
<1>8. PipesRight'
  BY ExitPipes DEF Inv
<1> QED BY <1>5, <1>6, <1>7, <1>8 DEF Inv, Typed

LEMMA StepInv == Inv /\ [Next]_vars => Inv'
<1> SUFFICES ASSUME Inv, [Next]_vars
             PROVE  Inv'
  OBVIOUS
<1>1. ASSUME NEW l \in Lines, Type(l)
      PROVE  Inv'
  <2>1. PipesRight' /\ ProgramsRight'
    BY <1>1, TypePipes, TypePrograms DEF Inv
  <2>2. Typed'
    BY <1>1, <2>1, TypeTyped DEF Inv
  <2> QED BY <2>1, <2>2 DEF Inv
<1>2. CASE OpenPipe
  <2>1. PipesRight' /\ ProgramsRight'
    BY <1>2, OpenPipePipes, OpenPipePrograms DEF Inv
  <2>2. Typed'
    BY <1>2, <2>1, OpenPipeTyped DEF Inv
  <2> QED BY <2>1, <2>2 DEF Inv
<1>3. CASE Fork
  <2>1. PipesRight' /\ ProgramsRight'
    BY <1>3, ForkPipes, ForkPrograms DEF Inv
  <2>2. Typed'
    BY <1>3, <2>1, ForkTyped DEF Inv
  <2> QED BY <2>1, <2>2 DEF Inv
<1>4. CASE Exit
  BY <1>4, ExitInv
<1>5. CASE Builtin \/ Prompt
  BY <1>5, PromptInv
<1>6. CASE WaitForAny \/ WaitForLast \/ HandlerReaps
  BY <1>6, WaitInv
<1>7. CASE ForkFails \/ HandlerCalled \/ UNCHANGED vars
  BY <1>7, ForkFailsInv
<1>8. ASSUME NEW q \in Procs, Program(q)
      PROVE  Inv'
  BY <1>8, ProgramInv
<1> QED BY <1>1, <1>2, <1>3, <1>4, <1>5, <1>6, <1>7, <1>8 DEF Next, Loop

LEMMA InvAlways == Spec => []Inv
<1> QED BY InitInv, StepInv, PTL DEF Spec

\* The types of the shell's state, and of its children and their pipes.
THEOREM TypeCorrect == Spec => []TypeOK
<1>1. Inv => TypeOK
  BY DEF Inv, Typed
<1> QED BY <1>1, InvAlways, PTL

\* However lines with normal and number pipes follow one another, and however many
\* number pipes are merged or in the middle of a line: a program reads what was
\* meant for its line, and nothing else.
THEOREM OutputArrives == Spec => []RightReader
<1>1. Inv => RightReader
  <2> SUFFICES ASSUME Inv, NEW r \in Running, NEW w \in Running, proc[r].from # 0, proc[w].to # 0
               PROVE  proc[w].out = proc[r].in <=> proc[w].to = proc[r].from
    BY DEF RightReader
  <2>1. r \in Procs /\ w \in Procs /\ numberPipes \in Seq(NumberPipe)
    BY DEF Running, Inv, Typed, TypeOK
  <2>2. PICK i \in DOMAIN numberPipes : /\ Current(numberPipes, i)
                                        /\ numberPipes[i].pipe = proc[w].out /\ numberPipes[i].to = proc[w].to
    BY <2>1 DEF Inv, ProgramsRight, WritersRight, Meant
  <2>3. PICK j \in DOMAIN numberPipes : /\ Current(numberPipes, j)
                                        /\ numberPipes[j].pipe = proc[r].in /\ numberPipes[j].to = proc[r].from
    BY <2>1 DEF Inv, ProgramsRight, ReadersRight, Meant
  <2>4. proc[w].out = proc[r].in => i = j
    BY <2>1, <2>2, <2>3, MeantOnce
  <2>5. proc[w].to = proc[r].from => i = j
    BY <2>2, <2>3 DEF Inv, PipesRight, LinesDistinct
  <2> QED BY <2>2, <2>3, <2>4, <2>5
<1> QED BY <1>1, InvAlways, PTL

\* At the prompt exactly the pipes of lines to come are open in the shell, and those
\* that a builtin should have read or that a line ended with.
THEOREM PendingKept == Spec => []OnlyPendingOpen
<1>1. Inv => OnlyPendingOpen
  <2> SUFFICES ASSUME Inv, pc = "prompt"
               PROVE  open = {numberPipes[i].pipe : i \in {j \in DOMAIN numberPipes :
                                                              numberPipes[j].to > line}} \cup missed
    BY DEF OnlyPendingOpen
  <2>1. \A p \in open : p \in missed \/ \E i \in DOMAIN numberPipes :
                                           numberPipes[i].to > line /\ numberPipes[i].pipe = p
    BY DEF Inv, PipesRight, OpenKnown, InLine, Joined
  <2>2. \A i \in DOMAIN numberPipes : numberPipes[i].to > line => numberPipes[i].pipe \in open
    BY DEF Inv, PipesRight, PendingOpen
  <2>3. missed \subseteq open
    BY DEF Inv, PipesRight, MissedOpen
  <2> QED BY <2>1, <2>2, <2>3
<1> QED BY <1>1, InvAlways, PTL
=============================================================================
