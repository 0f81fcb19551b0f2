\* Users, a client and news of the network at any time, also during the boot.
SPECIFICATION FairSpec
CONSTANTS
    Filters = {NoFilter, F1}
    NoFilter = NoFilter
    Rssis <- TwoRssis
    RssiDefault <- Lowest
    Users = {"console"}
    QueueSize = 2
    MaxChanges = 1
    MaxClients = 1
    MaxNews = 1
INVARIANT DisplayFresh
PROPERTY DisplayCatchesUp
CHECK_DEADLOCK FALSE
