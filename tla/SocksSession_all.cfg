SPECIFICATION FairSpec
CONSTANTS
    Resolve <- KnownNames
    Requests <- AllRequests
    ClientIps <- TwoIps
    Confs <- AllConfs
    MaxLength = 2
    MaxUnits = 2
INVARIANTS Conserved EofAfterData OnlyPermitted
PROPERTIES RepliesFirst ImplementsByteRelay RequestAnswered BothGoneEnds
