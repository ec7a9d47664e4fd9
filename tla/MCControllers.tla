--------------------------- MODULE MCControllers ---------------------------
(* Instances of Controllers for TLC. *)
EXTENDS Controllers, TLC

CONSTANTS left, right,       \* controllers
          main,              \* controller id of the configuration file
          monitoring, colors, leds \* clients: speeds, colours, led_count

Pair == {left, right}
JustLeft == {left}

\* Each device has a model of its own, named after it; the file names one.
OwnModel == [d \in Pair |-> d]
\* hidapi and udev read the serial number of left alike, that of right not.
Serial == (left :> "serial left") @@ (right :> "serial right")
RightDiffers == (left :> {"serial left"}) @@ (right :> {"none"})
Alike == [d \in Pair |-> {Serial[d]}]
LeftIsMain == left :> main
FallbackIds == (left :> "fallback left") @@ (right :> "fallback right")

\* One device, configured.
LeftOnly == left :> left
LeftFallback == left :> "fallback left"
LeftSerial == left :> "serial left"
LeftMayHide == left :> {"serial left", "none"}

NoClients == {}
OneClient == {monitoring}
AllClients == {monitoring, colors, leds}
MainOnly == monitoring :> {{main}}
MainBatches == [c \in AllClients |-> {{main}}]
NoIds == {}
MainIsFragile == {main}
Recognised == {TRUE}
SometimesMissed == {TRUE, FALSE}
=============================================================================
