SPECIFICATION FairSpec
CONSTANTS
    Lines <- ShellLines
    MaxLines = 3
    Procs = {q1, q2, q3}
    Pipes = {p1, p2, p3, p4}
    Capacity = 1
    NoProc = NoProc
    NoPipe = NoPipe
INVARIANTS RightReader OnlyPendingOpen
PROPERTIES PromptComesBack OrphansEnd
CHECK_DEADLOCK FALSE
