SPECIFICATION Spec
CONSTANTS
    MaxUsers = 3
    MaxFd = 5
    Lines <- TheftLines
    NickNames = {a}
    a = a
    NoName = NoName
    EnvVars = {"v"}
    MaxMissed = 1
    MaxReady = 1
    MaxGone = 0
INVARIANT OnlyAddresseeReads
