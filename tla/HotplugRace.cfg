SPECIFICATION Spec
CONSTANTS
    left = left
    right = right
    main = main
    monitoring = monitoring
    colors = colors
    leds = leds
    NoId = NoId
    Devices <- Pair
    Model <- OwnModel
    HidSerial <- Serial
    UdevSerials <- Alike
    Configured <- JustLeft
    ConfigId <- LeftIsMain
    FallbackId <- FallbackIds
    Clients <- OneClient
    SpeedClients <- NoClients
    Batches <- MainOnly
    Fragile <- NoIds
    RemoveSeen <- Recognised
    EarlyPlugs = FALSE
    QueueCapacity = 2
    MaxPlugs = 1
CHECK_DEADLOCK FALSE
INVARIANTS HotplugNeverFatal
