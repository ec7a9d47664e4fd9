------------------------------ MODULE Sensors ------------------------------
(***************************************************************************)
(* The sensors that SensorManager finds at start-up, in the order in which *)
(* a tick reads them.  A configured sensor [kind, id, source] that the     *)
(* machine does not have is left out, with a warning at most.              *)
(***************************************************************************)
EXTENDS Naturals, Sequences

CONSTANTS
    SensorCfgs,  \* the sensors section of the file
    LmSources,   \* chip features that lm-sensors reports
    Gpus,        \* number of GPUs that NVML reports, 0 without NVML
    DeadGpus,    \* those of 0 .. Gpus - 1 whose handle or name is refused
    GpuKey       \* [0 .. Gpus - 1 -> key of a GPU no entry names]

ASSUME SensorsAssumption ==
    Gpus \in Nat /\ DeadGpus \subseteq Nat /\ DOMAIN GpuKey = 0 .. Gpus - 1

Keys(cfgs) == [i \in DOMAIN cfgs |-> cfgs[i].id]

\* LmSensorSource::discover
LmSensors ==
    LET Found(c) == c.kind = "lm" /\ c.source \in LmSources
    IN Keys(SelectSeq(SensorCfgs, Found))

\* NvidiaSensor::discover: the GPUs of the file, or all when it names none.
NvidiaSensors ==
    LET Wanted(c) == c.kind = "nvidia"
        Usable(c) == c.source < Gpus /\ c.source \notin DeadGpus
        named == SelectSeq(SensorCfgs, Wanted)
        all == [i \in 1 .. Gpus |-> [source |-> i - 1, id |-> GpuKey[i - 1]]]
    IN Keys(SelectSeq(IF named = <<>> THEN all ELSE named, Usable))

\* DummySensorSource::discover
DummyKey == "dummy_sensor"
DummyTemperature == 45

\* SensorManager::init_from_cfg
SensorKeys == LmSensors \o NvidiaSensors \o <<DummyKey>>
=============================================================================
