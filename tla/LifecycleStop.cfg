SPECIFICATION FairSpec
CONSTANTS
    monitoring = monitoring
    dbus = dbus
    udev = udev
    transmit = transmit
    None = None
    Services <- MCServices
    Drivers <- MCDrivers
    Blocking <- MCBlocking
    DBusTask <- dbus
    UdevTask <- udev
    Workers = {w1}
    Capacity = 1
CHECK_DEADLOCK FALSE
PROPERTIES StaysStopped
