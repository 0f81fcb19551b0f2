\* Every frame against every filter.
SPECIFICATION Spec
CONSTANTS
    MacLen = 2
    Bytes = {0, 1}
    Addresses <- TwoModes
    RssiFilters <- Strengths
    Rssis <- Signals
    SnapLen = 1000
    Receptions <- Samples
INVARIANTS DataBySource OwnStreamLeftOut ShorterCapturesMore RecordHoldsFrame TimesInOrder
CHECK_DEADLOCK FALSE
