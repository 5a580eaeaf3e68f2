SPECIFICATION FairHSpec
CONSTANTS
    MaxUsers = 2
    Proc = {p1, p2, p3}
    NickNames = {a}
    NoName = NoName
    CommaNames = {}
    Half = Half
    Nobody = Nobody
    Lines = {"exit", "name", "tell"}
    MaxBusy = 2
    MayVanish = FALSE
    MaxInterrupted = 1
    Fatal = {"overlap", "death", "drop", "overwrite", "comma", "full", "interrupt"}
INVARIANTS Complete ShownUnlessOverwritten
PROPERTIES  SemaphoresReturn
CHECK_DEADLOCK FALSE
