SPECIFICATION FairSpec
CONSTANTS
    Sessions <- MCSessions
    Commands = {0, 2}
    Conns = {c1, c2}
    Nobody = Nobody
    MaxProcesses = 1
INVARIANTS OneTurn AnswersBelowCommands ExitInTime EnvironmentNotOlder
PROPERTIES  EveryResponseEnds
CHECK_DEADLOCK FALSE
