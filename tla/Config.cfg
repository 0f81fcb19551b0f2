\* Commands and clicks at any time, also while the device boots.
SPECIFICATION FairSpec
CONSTANTS
    Filters <- SomeFilters
    NoFilter = NoFilter
    OwnMac = OwnMac
    Broken = Broken
    Torn = Torn
    NoArg = NoArg
    F1 = F1
    F2 = F2
    SavedRssis <- SomeRssis
    Commands <- SomeCommands
    EarlyCommands = TRUE
    Button = TRUE
    MaxCommands = 2
    MaxRestarts = 1
INVARIANTS Addr2Agrees RssiFilterOn AckedKept RssiAgrees JudgedWhole
PROPERTIES SemGivenBack BootFinishesAfterWifi
CHECK_DEADLOCK FALSE
