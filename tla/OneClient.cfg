\* One client at a time: the next connects when the last session is over.
\* Every task is scheduled fairly.
SPECIFICATION FairSpec
CONSTANTS
    MaxConns = 2
    MaxRecs = 4
    QueueSize = 2
    Fds <- TwoFds
    OneClient = TRUE
    ShortWrites = FALSE
INVARIANTS OneSession NoFdLeak StaleBounded
PROPERTIES FeedSpec HeaderSent FailureEndsSession QueueDrained
CHECK_DEADLOCK FALSE
