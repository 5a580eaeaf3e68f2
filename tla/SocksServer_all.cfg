SPECIFICATION FairSpec
CONSTANT Client = {c1, c2, c3}
INVARIANTS ClosedWithSession ZombiesAreMissedSignals
PROPERTY EveryClientDealtWith
