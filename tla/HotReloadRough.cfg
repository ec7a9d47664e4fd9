SPECIFICATION FairSpec
CONSTANTS
    Monitoring = Monitoring
    FanColor = FanColor
    dbus = dbus
    unchanged = unchanged
    rewired = rewired
    Watcher = ConfigWatcher
    Coordinator = Coordinator
    Services <- BothServices
    Clients <- NoClient
    Hardware <- AnyHardware
    BootHardware = unchanged
    Loadable <- MayBeBroken
    Fragile <- MonitoringOnly
    EarlyChanges = TRUE
    Capacity = 2
    MaxEdits = 2
    MaxCalls = 0
    MaxOther = 1
CHECK_DEADLOCK FALSE
INVARIANTS DrainedRunsShared EmptyOnlyUnasked
PROPERTIES NeverOlder CoordinatorReturns
