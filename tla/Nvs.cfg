\* Settings saved by the console and the button at any time, power lost once.
SPECIFICATION Spec
CONSTANTS
    Values <- SomeValues
    Default <- Menuconfig
    OwnMac <- TheMac
    Stored <- SomeStored
    Missing = Missing
    NoAnswer = NoAnswer
    Users = {"console", "button"}
    UserCalls <- SomeCalls
    MaxCalls = 2
    MaxRestarts = 1
INVARIANTS Committed HandlesClosed FailuresExplained
PROPERTY KeyValueSpec
CHECK_DEADLOCK FALSE
