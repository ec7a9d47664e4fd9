SPECIFICATION FairSpec
CONSTANTS
    Channels <- TwoChannels
    Listed = 2
    MaxLate = 2
    MaxRefusals = 1
    MaxWriteErrors = 1
    MayFail = TRUE
CHECK_DEADLOCK FALSE
INVARIANTS HidTypeOK OwnAnswer
PROPERTIES StatsMeanWritten CommandsEnd
