SPECIFICATION Spec
CONSTANTS
    MaxUsers = 2
    Proc = {p1, p2, p3}
    NickNames = {ab}
    NoName = NoName
    CommaNames = {ab}
    Half = Half
    Nobody = Nobody
    Lines = {"exit", "name", "yell", "tell", "run"}
    MaxBusy = 2
    MayVanish = TRUE
    MaxInterrupted = 0
VIEW TableView
SYMMETRY Symmetry
INVARIANTS TableOrdered EntriesTruthful
CHECK_DEADLOCK FALSE
