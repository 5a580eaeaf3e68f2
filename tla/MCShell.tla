------------------------------ MODULE MCShell ------------------------------
(* Lines for model-checking Shell.                                         *)
EXTENDS Shell

Prog(kind, size) == [kind |-> kind, size |-> size, pipe |-> FALSE, after |-> 0,
                     err |-> FALSE, file |-> FALSE]
Piped(s)    == [s EXCEPT !.pipe = TRUE]
To(s, n)    == [s EXCEPT !.after = n]
Both(s, n)  == [s EXCEPT !.after = n, !.err = TRUE]
File(s)     == [s EXCEPT !.file = TRUE]

ls == Prog("writes", 1)
long == Prog("writes", 2)       \* more than a pipe of capacity 1 holds
noop == Prog("writes", 0)
cat == Prog("reads", 0)

ShellLines == { <<To(ls, 2)>>,
                <<To(long, 1)>>,
                <<Both(Prog("unknown", 0), 1)>>,
                <<cat>>,
                <<Piped(long), noop>>,
                <<Piped(cat), To(cat, 1)>>,
                <<To(ls, 1), cat>>,
                <<Prog("builtin", 0)>>,
                <<Piped(File(ls)), cat>>,
                <<Piped(ls)>> }
=============================================================================
