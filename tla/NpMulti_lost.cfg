SPECIFICATION Spec
CONSTANTS
    MaxUsers = 2
    Proc = {p1, p2}
    NickNames = {a}
    NoName = NoName
    CommaNames = {}
    Half = Half
    Nobody = Nobody
    Lines = {"yell", "tell"}
    MaxBusy = 2
    MayVanish = FALSE
    MaxInterrupted = 0
INVARIANT EveryBroadcastShown
CHECK_DEADLOCK FALSE
