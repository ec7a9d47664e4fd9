SPECIFICATION Spec
CONSTANTS
    Monitoring = Monitoring
    FanColor = FanColor
    dbus = dbus
    unchanged = unchanged
    rewired = rewired
    Watcher = ConfigWatcher
    Coordinator = Coordinator
    Services <- BothServices
    Clients <- OneClient
    Hardware <- SameHardware
    BootHardware = unchanged
    Loadable <- AlwaysLoads
    Fragile <- NoService
    EarlyChanges = FALSE
    Capacity = 8
    MaxEdits = 2
    MaxCalls = 1
    MaxOther = 0
CHECK_DEADLOCK FALSE
INVARIANTS AdoptsOnlyCommitted
