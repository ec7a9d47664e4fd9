SPECIFICATION Spec
CONSTANTS
    Channels <- TwoChannels
    Listed = 2
    MaxLate = 1
    MaxRefusals = 0
    MaxWriteErrors = 0
    MayFail = FALSE
CHECK_DEADLOCK FALSE
INVARIANTS DataIsPercent
