SPECIFICATION FairSpec
CONSTANTS
    left = left
    right = right
    main = main
    monitoring = monitoring
    colors = colors
    leds = leds
    NoId = NoId
    Devices <- Pair
    Model <- OwnModel
    HidSerial <- Serial
    UdevSerials <- RightDiffers
    Configured <- JustLeft
    ConfigId <- LeftIsMain
    FallbackId <- FallbackIds
    Clients <- OneClient
    SpeedClients <- NoClients
    Batches <- MainOnly
    Fragile <- NoIds
    RemoveSeen <- Recognised
    EarlyPlugs = FALSE
    QueueCapacity = 2
    MaxPlugs = 2
CHECK_DEADLOCK FALSE
INVARIANTS TypeOK OneDriver
PROPERTIES ArrivalsAreDriven
