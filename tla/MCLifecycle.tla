---------------------------- MODULE MCLifecycle ----------------------------
(* Instances of Lifecycle for TLC. *)
EXTENDS Lifecycle

CONSTANTS monitoring, dbus, udev, transmit

\* MonitoringService 10, DBusService and UdevWatcher 8, FanColorService 4.
MCServices == <<monitoring, dbus, udev, transmit>>
MCDrivers == {monitoring, transmit}
MCBlocking == {monitoring}
=============================================================================
