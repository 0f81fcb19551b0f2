\* What a client receives when write() sends less than it was given.
SPECIFICATION Spec
CONSTANTS
    MaxConns = 1
    MaxRecs = 2
    QueueSize = 2
    Fds <- TwoFds
    OneClient = TRUE
    ShortWrites = TRUE
INVARIANT WholeItems
CHECK_DEADLOCK FALSE
