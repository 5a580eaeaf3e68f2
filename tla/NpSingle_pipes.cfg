SPECIFICATION Spec
CONSTANTS
    MaxUsers = 2
    MaxFd = 6
    Lines <- PipeLines
    NickNames = {a}
    a = a
    NoName = NoName
    EnvVars = {"v"}
    MaxMissed = 1
    MaxReady = 1
    MaxGone = 0
INVARIANTS PipePairsDistinct CountersDistinct FreeUidIsClean FdsHeldOnce
PROPERTIES ImplementsChatRoom LosesOnlyForgotten
