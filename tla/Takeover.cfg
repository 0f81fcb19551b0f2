\* A client may connect while the last one is still being served.
SPECIFICATION Spec
CONSTANTS
    MaxConns = 2
    MaxRecs = 3
    QueueSize = 2
    Fds <- TwoFds
    OneClient = FALSE
    ShortWrites = TRUE
INVARIANTS AtMostOnce QueueInOrder OwnOrLater IdleRadioOff
CHECK_DEADLOCK FALSE
