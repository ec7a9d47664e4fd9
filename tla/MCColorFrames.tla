--------------------------- MODULE MCColorFrames ---------------------------
(* Instances of ColorFrames for TLC. *)
EXTENDS ColorFrames

CONSTANTS fan1, fan2

BothFans == {fan1, fan2}
OneFlaky == {fan2}
NoFan == {}
=============================================================================
