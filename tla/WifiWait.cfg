\* Two switches to AP mode.
SPECIFICATION Spec
CONSTANTS
    Strings <- Words
    Channels = {1, 2}
    Addresses <- IpNumbers
    NewAddress = 4
    MinPassword = 2
    MaxName = 2
    PrevSize = 2
    Default <- Menuconfig
    NotGiven = NotGiven
    Commands <- PlainCommands
    EarlyCommands = FALSE
    MaxCommands = 1
    MaxNews = 0
    MaxRestarts = 0
    MaxPosted = 2
INVARIANT WaitsForStart
CHECK_DEADLOCK FALSE
