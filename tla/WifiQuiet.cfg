\* Commands after the boot, with events under way, and power lost at any step.
SPECIFICATION FairSpec
CONSTANTS
    Strings <- Words
    Channels = {1, 2}
    Addresses <- IpNumbers
    NewAddress = 4
    MinPassword = 2
    MaxName = 2
    PrevSize = 2
    Default <- Menuconfig
    NotGiven = NotGiven
    Commands <- AllCommands
    EarlyCommands = FALSE
    MaxCommands = 2
    MaxNews = 1
    MaxRestarts = 1
    MaxPosted = 1
INVARIANTS OneNetif InForceIsSaved TasksUseLive
PROPERTY SwitchReturns
CHECK_DEADLOCK FALSE
