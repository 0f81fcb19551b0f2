\* Commands at any time, also during the boot, and stations that come and go.
SPECIFICATION Spec
CONSTANTS
    Strings <- Words
    Channels = {1, 2}
    Addresses <- IpNumbers
    NewAddress = 4
    MinPassword = 2
    MaxName = 2
    PrevSize = 2
    Default <- Menuconfig
    NotGiven = NotGiven
    Commands <- AnyCommands
    EarlyCommands = TRUE
    MaxCommands = 2
    MaxNews = 1
    MaxRestarts = 0
    MaxPosted = 1
INVARIANT DanglesBriefly
CHECK_DEADLOCK FALSE
