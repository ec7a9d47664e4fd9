---------------------------- MODULE MCHotReload ----------------------------
(* Instances of HotReload for TLC. *)
EXTENDS HotReload

CONSTANTS Monitoring, FanColor, dbus, unchanged, rewired

BothServices == {Monitoring, FanColor}
MonitoringOnly == {Monitoring}
OneClient == {dbus}
NoClient == {}
SameHardware == {unchanged}
AnyHardware == {unchanged, rewired}
AlwaysLoads == {TRUE}
MayBeBroken == {TRUE, FALSE}
NoService == {}
=============================================================================
