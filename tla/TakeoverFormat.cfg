\* What a client that connects during a session receives.
SPECIFICATION Spec
CONSTANTS
    MaxConns = 2
    MaxRecs = 2
    QueueSize = 2
    Fds <- TwoFds
    OneClient = FALSE
    ShortWrites = FALSE
INVARIANT PcapFormat
CHECK_DEADLOCK FALSE
