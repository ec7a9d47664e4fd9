-------------------------- MODULE MCSpeedControl --------------------------
(* Instances of SpeedControl for TLC. *)
EXTENDS SpeedControl, TLC

CONSTANTS here, spare, failed

TwoChannels == 1 .. 2

\* A chip that is there, one that is not, and the GPU that no entry names.
MCSensors == <<[kind |-> "lm", id |-> "cpu", source |-> "k10temp"],
               [kind |-> "lm", id |-> "nvme", source |-> "missing"]>>
MCSources == {"k10temp"}
MCGpuKey == 0 :> "nvidia_gpu_0"
NoGpus == {}

Fan(n) == [controller |-> here, channel |-> n]
Elsewhere == [controller |-> spare, channel |-> 1]
Ramp == Step(<<30, 60>>, <<20, 80>>)
Smooth == Bezier(<<[x |-> 30, y |-> 100], [x |-> 40, y |-> 105],
                   [x |-> 45, y |-> 110], [x |-> 50, y |-> 130]>>)

Config(mappings, active_, curves) ==
    [controllers |-> <<[id |-> here, fans |-> Listed]>>, generated |-> {},
     mappings |-> mappings, active |-> active_, curves |-> curves]

\* quiet: a fan for each sensor, on one curve.
\* shared: both sensors name fan 1, and fan 2's curve is overwritten.
\* sloppy: a fan of no controller, a channel that is not listed.
\* broken: a fan whose curve does not exist.
MCConfigs == {"quiet", "shared", "sloppy", "broken"}
MCAtStart == {"quiet"}
MCConfigOf ==
    [quiet |-> Config(
        <<[sensor |-> "cpu", targets |-> {Fan(1)}],
          [sensor |-> "nvidia_gpu_0", targets |-> {Fan(2)}]>>,
        <<[curve |-> "ramp", targets |-> {Fan(1), Fan(2)}]>>,
        <<[id |-> "ramp", curve |-> Ramp]>>),
     shared |-> Config(
        <<[sensor |-> "cpu", targets |-> {Fan(1), Fan(2)}],
          [sensor |-> "nvidia_gpu_0", targets |-> {Fan(1)}],
          [sensor |-> "nvme", targets |-> {Fan(2)}]>>,
        <<[curve |-> "ramp", targets |-> {Fan(1), Fan(2)}],
          [curve |-> "smooth", targets |-> {Fan(2)}]>>,
        <<[id |-> "ramp", curve |-> Ramp], [id |-> "smooth", curve |-> Smooth]>>),
     sloppy |-> Config(
        <<[sensor |-> "cpu", targets |-> {Elsewhere, Fan(2), Fan(3)}]>>,
        <<[curve |-> "dummy_curve", targets |-> {Elsewhere, Fan(2), Fan(3)}]>>,
        <<>>),
     broken |-> Config(
        <<[sensor |-> "cpu", targets |-> {Fan(1)}],
          [sensor |-> "nvidia_gpu_0", targets |-> {Fan(2)}]>>,
        <<[curve |-> "ramp", targets |-> {Fan(1)}],
          [curve |-> "gone", targets |-> {Fan(2)}]>>,
        <<[id |-> "ramp", curve |-> Ramp]>>)]
MCTemps == {40, 50}
=============================================================================
