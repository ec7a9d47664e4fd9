SPECIFICATION FairSpec
CONSTANTS
    here = here
    spare = spare
    failed = failed
    Channels <- TwoChannels
    Listed = 2
    MaxLate = 0
    MaxRefusals = 0
    MaxWriteErrors = 0
    MayFail = FALSE
    SensorCfgs <- MCSensors
    LmSources <- MCSources
    Gpus = 1
    DeadGpus <- NoGpus
    GpuKey <- MCGpuKey
    Here = here
    Configs <- MCConfigs
    AtStart <- MCAtStart
    ConfigOf <- MCConfigOf
    Temps <- MCTemps
    Failed = failed
    MaxCommits = 1
    MaxChanges = 1
INVARIANTS TypeOK HotterIsFaster
PROPERTIES SpeedsFollowReadings BatchIsComplete FansFollow HidSpec
