SPECIFICATION FairSpec
CONSTANTS
    left = left
    right = right
    main = main
    monitoring = monitoring
    colors = colors
    leds = leds
    NoId = NoId
    Devices <- JustLeft
    Model <- LeftOnly
    HidSerial <- LeftSerial
    UdevSerials <- LeftMayHide
    Configured <- JustLeft
    ConfigId <- LeftIsMain
    FallbackId <- LeftFallback
    Clients <- AllClients
    SpeedClients <- OneClient
    Batches <- MainBatches
    Fragile <- MainIsFragile
    RemoveSeen <- SometimesMissed
    EarlyPlugs = TRUE
    QueueCapacity = 2
    MaxPlugs = 1
CHECK_DEADLOCK FALSE
INVARIANTS MappedIsLive SameIdOnReturn
PROPERTIES StopDropsNothing BatchesEnd
