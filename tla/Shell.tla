------------------------------- MODULE Shell -------------------------------
(***************************************************************************)
(* One shell (npshell.cpp): it reads a line, starts the programs of the    *)
(* line joined by normal and number pipes, waits for the last one and      *)
(* reaps children in the handler of SIGCHLD.  The programs run at the same *)
(* time; a pipe holds at most Capacity chunks, a reader meets the end of   *)
(* its input when no process has the write end open, and a writer dies     *)
(* when no process has the read end open.                                  *)
(***************************************************************************)
EXTENDS Integers, Sequences

CONSTANTS
    Lines,          \* the lines the user may type: sequences of stages
    MaxLines,       \* lines typed in one behaviour (bound)
    Procs,          \* children that can exist at once: the limit fork() meets
    Pipes,          \* pipes that can be open at once (bound)
    Capacity,       \* chunks a pipe holds
    NoProc, NoPipe

ASSUME ShellAssumption == /\ Capacity \in Nat \ {0}
                          /\ MaxLines \in Nat
                          /\ NoProc \notin Procs
                          /\ NoPipe \notin Pipes

\* A stage: one program of a line with what follows it.  "reads": it copies its
\* input, then writes "size" chunks of its own; "unknown": execvp() fails.
Stage == [kind : {"builtin", "unknown", "reads", "writes"}, size : Nat,
          pipe : BOOLEAN, after : Nat, err : BOOLEAN, file : BOOLEAN]

\* A builtin is given no number pipe: the code pushes a counter for "setenv ... |n"
\* and no pipe, and its vectors no longer agree.
ASSUME LinesAssumption ==
    /\ Lines \subseteq Seq(Stage) \ {<<>>}
    /\ \A l \in Lines : \A i \in DOMAIN l :
          /\ l[i].pipe => l[i].after = 0
          /\ l[i].kind = "builtin" => l[i].after = 0

VARIABLES
    pc,             \* what the shell does: "prompt", "stage", "fork", "full", "wait", "gone"
    typed,          \* number of lines typed
    stages,         \* rest of the line
    numberPipes,    \* numberPipeCounter, numberPipeRead and numberPipeWrite; "to" is
                    \* the line the pipe was asked for, which the code does not keep
    wrote,          \* numberPipeWriteFlag
    due,            \* number pipe the next program reads (numberPipeReadFlag, -Index)
    joint,          \* normal pipe the next program reads (readPipeFlag)
    target,         \* pipe made or found for the program about to be forked
    open,           \* pipes of which the shell holds both ends
    fg,             \* last of pidList, unless it has been reaped
    proc,           \* the children
    held,           \* chunks in each pipe
    handler,        \* handler of SIGCHLD: not installed, installed, in its wait()
    sigchld,        \* SIGCHLD is pending
    line,           \* lines so far; a number pipe ends a line, also in the middle of one
    missed          \* open pipes whose reader never comes: the line stopped at a builtin,
                    \* or ended with "|"

shell == <<pc, typed, stages, numberPipes, wrote, due, joint, target, open, fg, line, missed>>
signals == <<handler, sigchld>>
vars == <<shell, proc, held, signals>>

Nobody == [state |-> "none", reads |-> FALSE, left |-> 0, in |-> NoPipe, out |-> NoPipe,
           rd |-> {}, wr |-> {}, from |-> 0, to |-> 0]

Child == [state : {"none", "run", "zombie"}, reads : BOOLEAN, left : Nat,
          in : Pipes \cup {NoPipe}, out : Pipes \cup {NoPipe},
          rd : SUBSET Pipes, wr : SUBSET Pipes, from : Nat, to : Nat]

NumberPipe == [count : Int, pipe : Pipes, to : Nat]

Running == {q \in Procs : proc[q].state = "run"}
Zombies == {q \in Procs : proc[q].state = "zombie"}
Free    == {q \in Procs : proc[q].state = "none"}

CanRead(p)  == p \in open \/ \E q \in Procs : p \in proc[q].rd
CanWrite(p) == p \in open \/ \E q \in Procs : p \in proc[q].wr

TypeOK ==
    /\ pc \in {"prompt", "stage", "fork", "full", "wait", "gone"}
    /\ typed \in 0 .. MaxLines
    /\ stages \in Seq(Stage)
    /\ numberPipes \in Seq(NumberPipe)
    /\ wrote \in BOOLEAN
    /\ due \in Pipes \cup {NoPipe} /\ joint \in Pipes \cup {NoPipe}
    /\ target \in Pipes \cup {NoPipe}
    /\ open \in SUBSET Pipes /\ missed \in SUBSET Pipes
    /\ fg \in Procs \cup {NoProc}
    /\ proc \in [Procs -> Child]
    /\ held \in [Pipes -> 0 .. Capacity]
    /\ handler \in {"none", "set", "waits"} /\ sigchld \in BOOLEAN
    /\ line \in Nat

\* npshell sets the handler after its first line, np_simple before it forks.
Init ==
    /\ pc = "prompt" /\ typed = 0 /\ stages = <<>> /\ numberPipes = <<>> /\ wrote = FALSE
    /\ due = NoPipe /\ joint = NoPipe /\ target = NoPipe /\ open = {} /\ fg = NoProc
    /\ proc = [q \in Procs |-> Nobody]
    /\ held = [p \in Pipes |-> 0]
    /\ handler \in {"none", "set"} /\ sigchld = FALSE
    /\ line = 0 /\ missed = {}

-----------------------------------------------------------------------------
(* The shell reads a line.                                                 *)

Tick(n) == [i \in DOMAIN n |-> [count |-> n[i].count - 1, pipe |-> n[i].pipe, to |-> n[i].to]]

Due(n) ==
    LET zero == {i \in DOMAIN n : n[i].count = 0}
    IN  IF zero = {} THEN NoPipe ELSE n[CHOOSE i \in zero : \A j \in zero : j <= i].pipe

\* The bug of counting at every line.
CountedAlways == Tick(numberPipes)

\* A number pipe at the end of the line before has counted already.
Counted == IF wrote THEN numberPipes ELSE Tick(numberPipes)

\* The shell takes its next step only when no signal waits for the handler.
Undisturbed == handler # "waits" /\ ~sigchld

Type(l) ==
    /\ pc = "prompt" /\ Undisturbed /\ typed < MaxLines
    /\ typed' = typed + 1 /\ line' = line + 1
    /\ stages' = l
    /\ numberPipes' = Counted /\ due' = Due(Counted)
    /\ joint' = NoPipe /\ fg' = NoProc
    /\ pc' = "stage"
    /\ UNCHANGED <<wrote, target, open, missed, proc, held, signals>>

\* setenv and printenv leave the loop over the line: what they should read stays open.
Builtin ==
    /\ pc = "stage" /\ Undisturbed /\ Head(stages).kind = "builtin"
    /\ wrote' = FALSE
    /\ missed' = missed \cup ({due, joint} \ {NoPipe})
    /\ due' = NoPipe /\ joint' = NoPipe
    /\ stages' = <<>> /\ pc' = "wait"
    /\ UNCHANGED <<typed, numberPipes, target, open, fg, line, proc, held, signals>>

\* "exit", or the end of what the user types.
Exit ==
    /\ pc = "prompt" /\ Undisturbed
    /\ pc' = "gone" /\ open' = {} /\ missed' = {}
    /\ proc' = [q \in Procs |-> IF q \in Zombies THEN Nobody ELSE proc[q]]
    /\ UNCHANGED <<typed, stages, numberPipes, wrote, due, joint, target, fg, line, held, signals>>

-----------------------------------------------------------------------------
(* One program of the line: its pipe, the fork, the next program.          *)

SameCount(n, c) == {i \in DOMAIN n : n[i].count = c}

Unused == {p \in Pipes : ~CanRead(p) /\ ~CanWrite(p)}

\* pipe(): which of the unused ones it is makes no difference.
NewPipe == CHOOSE p \in Unused : TRUE

Pipe == /\ Unused # {}
        /\ target' = NewPipe
        /\ open' = open \cup {NewPipe}
        /\ held' = [held EXCEPT ![NewPipe] = 0]

OpenPipe ==
    /\ pc = "stage" /\ Undisturbed /\ Head(stages).kind # "builtin"
    /\ wrote' = (Head(stages).after > 0)
    /\ pc' = "fork"
    /\ \/ /\ Head(stages).pipe
          /\ Pipe
          /\ UNCHANGED numberPipes
       \/ /\ ~Head(stages).pipe /\ Head(stages).after = 0
          /\ target' = NoPipe
          /\ UNCHANGED <<open, held, numberPipes>>
       \/ /\ ~Head(stages).pipe /\ Head(stages).after > 0
          /\ \/ \E i \in SameCount(numberPipes, Head(stages).after) :
                    /\ target' = numberPipes[i].pipe
                    /\ UNCHANGED <<open, held, numberPipes>>
             \/ /\ SameCount(numberPipes, Head(stages).after) = {}
                /\ Pipe
                /\ numberPipes' = Append(numberPipes, [count |-> Head(stages).after, pipe |-> NewPipe,
                                                       to |-> line + Head(stages).after])
    /\ UNCHANGED <<typed, stages, due, joint, fg, line, missed, proc, signals>>

Input == IF joint # NoPipe THEN joint ELSE due

\* With "> file" the program is not given the pipe, and keeps both its ends.
Output(s) == IF s.file THEN NoPipe ELSE target

\* The bugs of a child that keeps the other end of its own pipe.
AllReadEnds(s) == open
AllWriteEnds(s) == open

\* A child inherits both ends of every open pipe, and closes the other ends of its own two.
ReadEnds(s) == open \ {Output(s)}
WriteEnds(s) == open \ {Input}

\* The bug of closing normal pipes only.
LeftNormal == open \ {joint}

\* The shell closes both ends of the pipe the program reads.
LeftOpen == open \ {Input}

Started(s) ==
    [state |-> "run",
     reads |-> s.kind = "reads" /\ Input # NoPipe,
     left  |-> IF Output(s) = NoPipe THEN 0
               ELSE IF s.kind = "unknown" THEN (IF s.err THEN 1 ELSE 0) ELSE s.size,
     in    |-> Input,
     out   |-> Output(s),
     rd    |-> ReadEnds(s),
     wr    |-> WriteEnds(s),
     from  |-> IF joint = NoPipe /\ due # NoPipe THEN line ELSE 0,
     to    |-> IF s.after > 0 /\ Output(s) # NoPipe THEN line + s.after ELSE 0]

Fork ==
    LET q == CHOOSE f \in Free : TRUE
        s == Head(stages)
        number == s.after > 0
        rest == Tail(stages)
        counted == IF number THEN Tick(numberPipes) ELSE numberPipes
    IN  /\ pc = "fork" /\ Undisturbed /\ Free # {}
        /\ proc' = [proc EXCEPT ![q] = Started(s)]
        /\ fg' = IF number THEN fg ELSE q
        /\ open' = LeftOpen
        /\ joint' = IF s.pipe THEN target ELSE NoPipe
        /\ numberPipes' = counted
        /\ due' = IF number THEN Due(counted) ELSE NoPipe
        /\ stages' = rest /\ pc' = IF rest = <<>> THEN "wait" ELSE "stage"
        /\ line' = IF number /\ rest # <<>> THEN line + 1 ELSE line
        /\ target' = NoPipe
        /\ UNCHANGED <<typed, wrote, missed, held, signals>>

ForkFails ==
    /\ pc = "fork" /\ Undisturbed /\ Free = {}
    /\ pc' = "full"
    /\ UNCHANGED <<typed, stages, numberPipes, wrote, due, joint, target, open, fg, line, missed,
                   proc, held, signals>>

-----------------------------------------------------------------------------
(* Waiting for children, in the loop and in the handler of SIGCHLD.        *)

Reaped(q) == /\ proc' = [proc EXCEPT ![q] = Nobody]
             /\ fg' = IF fg = q THEN NoProc ELSE fg

\* wait(NULL) after a failed fork().  A child that has ended is found before the
\* handler is called, or the handler is called first and finds it.
WaitForAny ==
    /\ pc = "full" /\ handler # "waits"
    /\ \/ \E q \in Zombies : Reaped(q)
       \/ Free = Procs /\ UNCHANGED <<proc, fg>>
    /\ pc' = "fork"
    /\ UNCHANGED <<typed, stages, numberPipes, wrote, due, joint, target, open, line, missed, held, signals>>

\* waitpid() for the last program that does not write a number pipe.
WaitForLast ==
    /\ pc = "wait" /\ handler # "waits"
    /\ fg \in Zombies /\ Reaped(fg)
    /\ UNCHANGED <<pc, typed, stages, numberPipes, wrote, due, joint, target, open, line, missed, held, signals>>

\* ... or there is none, or the handler has reaped it.  A normal pipe the line ends
\* with is no longer known, and open.
Prompt ==
    /\ pc = "wait" /\ Undisturbed /\ fg = NoProc
    /\ pc' = "prompt" /\ handler' = "set"
    /\ missed' = missed \cup ({joint} \ {NoPipe})
    /\ due' = NoPipe /\ joint' = NoPipe
    /\ UNCHANGED <<typed, stages, numberPipes, wrote, target, open, fg, line, proc, held, sigchld>>

\* The handler is entered, with SIGCHLD blocked until it returns ...
HandlerCalled ==
    /\ sigchld /\ handler = "set" /\ pc # "gone"
    /\ handler' = "waits" /\ sigchld' = FALSE
    /\ UNCHANGED <<shell, proc, held>>

\* ... and wait(NULL) takes any child that has ended, or fails when there is none.
HandlerReaps ==
    /\ handler = "waits"
    /\ \/ \E q \in Zombies : Reaped(q)
       \/ Free = Procs /\ UNCHANGED <<proc, fg>>
    /\ handler' = "set"
    /\ UNCHANGED <<pc, typed, stages, numberPipes, wrote, due, joint, target, open, line, missed,
                   held, sigchld>>

-----------------------------------------------------------------------------
(* The programs.                                                           *)

\* A child has ended: its descriptors are closed, the shell is told.
Ended(q) ==
    /\ proc' = [proc EXCEPT ![q] = [Nobody EXCEPT !.state = IF pc = "gone" THEN "none" ELSE "zombie"]]
    /\ sigchld' = (handler # "none" /\ pc # "gone")
    /\ UNCHANGED <<shell, held, handler>>

Read(q) ==
    /\ q \in Running /\ proc[q].reads /\ held[proc[q].in] > 0
    /\ proc[q].out = NoPipe \/ proc[q].left = 0
    /\ held' = [held EXCEPT ![proc[q].in] = @ - 1]
    /\ proc' = [proc EXCEPT ![q].left = IF proc[q].out = NoPipe THEN 0 ELSE @ + 1]
    /\ UNCHANGED <<shell, signals>>

Write(q) ==
    /\ q \in Running /\ proc[q].left > 0
    /\ CanRead(proc[q].out) /\ held[proc[q].out] < Capacity
    /\ held' = [held EXCEPT ![proc[q].out] = @ + 1]
    /\ proc' = [proc EXCEPT ![q].left = @ - 1]
    /\ UNCHANGED <<shell, signals>>

\* SIGPIPE: nobody can read any more.
BreaksOff(q) ==
    /\ q \in Running /\ proc[q].left > 0 /\ ~CanRead(proc[q].out)
    /\ Ended(q)

AtEnd(q) == held[proc[q].in] = 0 /\ ~CanWrite(proc[q].in)

Finish(q) ==
    /\ q \in Running /\ proc[q].left = 0
    /\ proc[q].reads => AtEnd(q)
    /\ Ended(q)

-----------------------------------------------------------------------------
Loop == \/ Builtin \/ OpenPipe \/ Fork \/ ForkFails
        \/ WaitForAny \/ WaitForLast \/ Prompt \/ HandlerCalled \/ HandlerReaps

Program(q) == Read(q) \/ Write(q) \/ BreaksOff(q) \/ Finish(q)

Next == \/ \E l \in Lines : Type(l)
        \/ Exit
        \/ Loop
        \/ \E q \in Procs : Program(q)

Spec == Init /\ [][Next]_vars

\* The shell and the programs are scheduled; the user need not type anything.
FairSpec == Spec /\ WF_vars(Loop) /\ \A q \in Procs : WF_vars(Program(q))

-----------------------------------------------------------------------------
(* Properties.                                                             *)

\* The counters, decremented at the start of some lines and after some programs,
\* bring the output of a program to the first program of the line it was meant
\* for, and to nobody else, through merged pipes and pipes in the middle of a line.
RightReader ==
    \A r, w \in Running :
        proc[r].from # 0 /\ proc[w].to # 0 => (proc[w].out = proc[r].in <=> proc[w].to = proc[r].from)

\* At the prompt the shell keeps the pipes that are still to be read, and no others
\* but those a builtin, or a line that ends with "|", has left behind: no end of a
\* pipe that would keep a reader from the end of its input, or a writer from
\* noticing that nobody reads.
OnlyPendingOpen ==
    pc = "prompt" => open = {numberPipes[i].pipe : i \in {j \in DOMAIN numberPipes :
                                                             numberPipes[j].to > line}} \cup missed

\* A program blocked on a full pipe whose reader has not been started.
Jammed ==
    \E w \in Running :
        /\ proc[w].left > 0 /\ held[proc[w].out] = Capacity
        /\ \A r \in Running : proc[r].in # proc[w].out

\* The prompt comes back, although the shell waits for one program, the handler for
\* any, and readers for every process that has inherited a write end; unless some
\* program has written more than it holds into a pipe that nobody reads yet.
PromptComesBack == [](pc # "prompt" => <>(pc \in {"prompt", "gone"} \/ []Jammed))

\* When the shell has gone, no program that it leaves behind stays for ever (of a
\* shell of np_simple each holds the client's connection).
OrphansEnd == pc = "gone" ~> Running = {}
=============================================================================
