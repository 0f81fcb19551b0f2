\* A host that sends three commands at any time.
SPECIFICATION FairSpec
CONSTANTS
    Hex <- SomeHex
    Number <- SomeNumbers
    Commands <- SomeCommands
    Packets <- SomePackets
    Default2 <- TheDefault
    Torn = Torn
    Room = 128
    MaxSends = 3
INVARIANTS CaptureWhole Obeyed Filtered
PROPERTIES CommandsTaken HopsForever
