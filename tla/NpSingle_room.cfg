SPECIFICATION FairSpec
CONSTANTS
    MaxUsers = 2
    MaxFd = 3
    Lines <- RoomLines
    NickNames = {a}
    a = a
    NoName = NoName
    EnvVars = {"v"}
    MaxMissed = 1
    MaxReady = 2
    MaxGone = 1
INVARIANTS UidsIncreasing NamesDistinct BlockHonoured
PROPERTIES ImplementsChatRoom BatchServed VanishedClientIsFatal
