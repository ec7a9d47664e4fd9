---------------------------- MODULE SpeedControl ----------------------------
(***************************************************************************)
(* From the temperatures to the fans: the monitoring service's tick, on    *)
(* top of the worker and the device of HidProtocol.                        *)
(*                                                                         *)
(* A tick reads the sensors in order, looks up the fans of each and the    *)
(* speed of each fan, and sends one batch to each controller.  A reading   *)
(* that fails is passed over; a fan whose speed cannot be told ends the    *)
(* tick with nothing sent.  A new configuration is adopted by the same     *)
(* task, so only between two ticks (which of those it adopts is the matter *)
(* of HotReload).  The colour service sends batches to the same worker.    *)
(*                                                                         *)
(* One controller, Here, is present; the batch for an id that names no     *)
(* controller fails and is logged.                                         *)
(***************************************************************************)
EXTENDS HidProtocol, Mappings, Sensors

CONSTANTS
    Here,        \* id of the controller
    Configs,     \* names of the configurations that may be adopted
    AtStart,     \* those that the service may start with
    ConfigOf,    \* [Configs -> their content in the file]
    Temps,       \* temperatures a sensor may have
    Failed,      \* what a sensor that cannot be read returns
    MaxCommits,  \* bound: configurations adopted
    MaxChanges   \* bound: changes of temperature

ASSUME SpeedAssumption ==
    /\ DOMAIN ConfigOf = Configs /\ AtStart \subseteq Configs
    /\ Temps \subseteq Int /\ Failed \notin Temps
    /\ MaxCommits \in Nat /\ MaxChanges \in Nat

\* What a file deserializes to: CurveCfg, and fans with a channel in targets.
Curve == [kind : {"constant"}, speed : Byte] \union
         [kind : {"step"}, tmps : Seq(Int), spds : Seq(Byte)] \union
         [kind : {"bezier"}, points : Seq([x : Int, y : Int])]
IsList(s) == s \in Seq({s[i] : i \in DOMAIN s})
ASSUME ConfigAssumption ==
    \A c \in Configs : LET cfg == ConfigOf[c] IN
        /\ cfg \in [controllers : {cfg.controllers}, generated : {cfg.generated},
                    mappings : {cfg.mappings}, active : {cfg.active},
                    curves : {cfg.curves}]
        /\ IsList(cfg.mappings) /\ IsList(cfg.active) /\ IsList(cfg.curves)
        /\ \A i \in DOMAIN cfg.controllers : cfg.controllers[i].fans \in Nat
        /\ \A i \in DOMAIN cfg.mappings : \A fan \in cfg.mappings[i].targets :
              fan \in [controller : {fan.controller}, channel : Nat]
        /\ \A i \in DOMAIN cfg.curves : cfg.curves[i].curve \in Curve

\* The keys of the sensors are a list too (what SelectSeq returns is one).
ASSUME KeysAssumption == IsList(SensorKeys)

VARIABLES
    active,      \* MappingCache: the configuration in use
    commits,     \* adoptions so far
    climate,     \* what each sensor would return now
    changes,     \* changes of the climate so far
    tick,        \* where the monitoring service is
    next,        \* sensors read in this tick, plus one
    readings,    \* what this tick has read
    pending,     \* fans of the last sensor read that have no speed yet
    batch        \* MonitoringBuffer::batch_data for Here

monitor == <<tick, next, readings, pending, batch>>
cache == <<active, commits>>
weather == <<climate, changes>>
vars == <<hidVars, monitor, cache, weather>>

SensorSet == {SensorKeys[i] : i \in DOMAIN SensorKeys}
Unread == [s \in SensorSet |-> Failed]
Loaded(c) == EnsureMappings(ConfigOf[c])
Adoptable == {Loaded(c) : c \in Configs} \union {NoMappings}

Init ==
    /\ HidInit
    /\ active \in {Loaded(c) : c \in AtStart} /\ commits = 0
    /\ climate \in {c \in [SensorSet -> Temps \union {DummyTemperature}] :
                       \A s \in SensorSet : c[s] = DummyTemperature <=> s = DummyKey}
    /\ changes = 0
    /\ tick = "starting" /\ next = 1 /\ readings = Unread
    /\ pending = {} /\ batch = <<>>

-----------------------------------------------------------------------------
\* Start-up sends Init to the worker; that it failed is only logged.
Initialize ==
    /\ tick = "starting" /\ Begin([kind |-> "Init", batch |-> <<>>])
    /\ tick' = "initializing"
    /\ UNCHANGED <<next, readings, pending, batch, cache, weather>>

Initialized ==
    /\ tick = "initializing" /\ command = Idle
    /\ tick' = "waiting"
    /\ UNCHANGED <<hidVars, next, readings, pending, batch, cache, weather>>

\* Mutant: the cache is replaced behind the back of a tick.
MayAdoptAnytime == TRUE

\* The monitoring task is at its select only between two ticks.
MayAdopt == tick = "waiting"

Adopt(cfg) ==
    /\ MayAdopt /\ commits < MaxCommits
    /\ active' = cfg
    /\ commits' = commits + 1
    /\ UNCHANGED <<hidVars, monitor, weather>>

Tick ==
    /\ tick = "waiting"
    /\ tick' = "reading" /\ next' = 1 /\ readings' = Unread
    /\ pending' = {} /\ batch' = <<>>
    /\ UNCHANGED <<hidVars, cache, weather>>

Weather(s, T) ==
    /\ s # DummyKey /\ changes < MaxChanges /\ T # climate[s]
    /\ climate' = [climate EXCEPT ![s] = T]
    /\ changes' = changes + 1
    /\ UNCHANGED <<hidVars, monitor, cache>>

LastRead == SensorKeys[next - 1]

\* Mutant: a reading that fails ends the walk over the sensors.
ReadSensorStopping ==
    /\ tick = "reading" /\ pending = {} /\ next <= Len(SensorKeys)
    /\ LET s == SensorKeys[next]
       IN /\ readings' = [readings EXCEPT ![s] = climate[s]]
          /\ pending' = IF climate[s] = Failed THEN {} ELSE FansForSensor(active, s)
          /\ next' = IF climate[s] = Failed THEN Len(SensorKeys) + 1 ELSE next + 1
    /\ UNCHANGED <<hidVars, tick, batch, cache, weather>>

ReadSensor ==
    /\ tick = "reading" /\ pending = {} /\ next <= Len(SensorKeys)
    /\ LET s == SensorKeys[next]
       IN /\ readings' = [readings EXCEPT ![s] = climate[s]]
          /\ pending' = IF climate[s] = Failed THEN {} ELSE FansForSensor(active, s)
    /\ next' = next + 1
    /\ UNCHANGED <<hidVars, tick, batch, cache, weather>>

\* The set of fans of a sensor is walked in no particular order.
PushFan(fan, s) ==
    /\ tick = "reading" /\ fan \in pending
    /\ s \in SpeedsOf(active, fan, readings[LastRead])
    /\ pending' = pending \ {fan}
    /\ batch' = IF fan.controller = Here
                THEN Append(batch, [fan |-> fan.channel, speed |-> s]) ELSE batch
    /\ UNCHANGED <<hidVars, tick, next, readings, cache, weather>>

\* Mutant: a fan without a speed is passed over.
NoSpeedSkips(fan) ==
    /\ tick = "reading" /\ fan \in pending
    /\ SpeedsOf(active, fan, readings[LastRead]) = {}
    /\ pending' = pending \ {fan}
    /\ UNCHANGED <<hidVars, tick, next, readings, batch, cache, weather>>

\* The first fan without a speed returns from the tick.
NoSpeed(fan) ==
    /\ tick = "reading" /\ fan \in pending
    /\ SpeedsOf(active, fan, readings[LastRead]) = {}
    /\ tick' = "waiting" /\ next' = 1 /\ readings' = Unread
    /\ pending' = {} /\ batch' = <<>>
    /\ UNCHANGED <<hidVars, cache, weather>>

Collected == tick = "reading" /\ pending = {} /\ next > Len(SensorKeys)

\* The worker takes the batch from its channel.
Send ==
    /\ Collected /\ batch # <<>>
    /\ Begin([kind |-> "Speeds", batch |-> batch])
    /\ tick' = "awaiting"
    /\ UNCHANGED <<next, readings, pending, batch, cache, weather>>

\* The batch is answered, with success or an error that is only logged; so is
\* one that no worker can take.
Answered ==
    /\ \/ tick = "awaiting" /\ command.kind # "Speeds"
       \/ Collected /\ (batch = <<>> \/ worker = "panicked")
    /\ tick' = "waiting" /\ next' = 1 /\ readings' = Unread
    /\ batch' = <<>>
    /\ UNCHANGED <<hidVars, pending, cache, weather>>

\* Mutant: the colours go to the device without passing through the worker.
SendColorsDirect ==
    /\ tick \notin {"starting", "initializing"} /\ Listed > 0
    /\ command = Idle /\ device = "present"
    /\ wire' = wire \o [f \in 1 .. Listed |-> SetRgb([fan |-> f, speed |-> 0])]
    /\ UNCHANGED <<host, buffer, speed, device, faults, monitor, cache, weather>>

\* The colour service, for the listed fans.
SendColors ==
    /\ tick \notin {"starting", "initializing"} /\ Listed > 0
    /\ Begin([kind |-> "Colors",
              batch |-> [f \in 1 .. Listed |-> [fan |-> f, speed |-> 0]]])
    /\ UNCHANGED <<monitor, cache, weather>>

Hid == HidStep /\ UNCHANGED <<monitor, cache, weather>>

Next ==
    \/ Initialize \/ Initialized \/ Tick \/ ReadSensor \/ Send \/ Answered
    \/ \E cfg \in Adoptable : Adopt(cfg)
    \/ \E s \in SensorSet, T \in Temps \union {Failed} : Weather(s, T)
    \/ \E fan \in pending :
          \/ NoSpeed(fan)
          \/ \E s \in SpeedsOf(active, fan, readings[LastRead]) : PushFan(fan, s)
    \/ SendColors
    \/ Hid

Spec == Init /\ [][Next]_vars

\* The interval keeps ticking and reads return.  A worker's channel is first
\* in, first out: a batch waits for the colours before it, never for those
\* that come after it.
FairSpec ==
    /\ Spec /\ HidFairness
    /\ WF_vars(Initialize) /\ WF_vars(Initialized) /\ WF_vars(Tick)
    /\ WF_vars(ReadSensor) /\ WF_vars(Answered) /\ SF_vars(Send)
    /\ WF_vars(\E fan \in pending :
          \/ NoSpeed(fan)
          \/ \E s \in SpeedsOf(active, fan, readings[LastRead]) : PushFan(fan, s))

-----------------------------------------------------------------------------
\* The type invariant of the tick and what it drives.
TypeOK ==
    /\ HidTypeOK
    /\ active \in Adoptable
    /\ commits \in 0 .. MaxCommits /\ changes \in 0 .. MaxChanges
    /\ climate \in [SensorSet -> Temps \union {Failed, DummyTemperature}]
    /\ readings \in [SensorSet -> Temps \union {Failed, DummyTemperature}]
    /\ tick \in {"starting", "initializing", "waiting", "reading", "awaiting"}
    /\ next \in 1 .. Len(SensorKeys) + 1
    /\ \A fan \in pending : fan.channel \in Nat
    /\ batch \in Seq(Entry)

ReadIn(readout) == {i \in DOMAIN SensorKeys : readout[SensorKeys[i]] # Failed}

\* The sensors that a fan was given a speed for, and the last of them, whose
\* speed is the one that stays.
SensorsOf(cfg, fan, readout) ==
    {i \in ReadIn(readout) : fan \in FansForSensor(cfg, SensorKeys[i])}
WantedSpeeds(cfg, fan, readout) ==
    SpeedsOf(cfg, fan, readout[SensorKeys[Greatest(SensorsOf(cfg, fan, readout))]])

OwnFans(cfg) ==
    {fan \in UNION {FansForSensor(cfg, s) : s \in SensorSet} :
        fan.controller = Here /\ fan.channel \in Channels}

\* The fans of cfg that some sensor speaks for have the duty it asks for.
Follows(cfg, fan, readout) == Target(fan.channel) \in WantedSpeeds(cfg, fan, readout)
Following(cfg, readout) ==
    \A fan \in OwnFans(cfg) :
        SensorsOf(cfg, fan, readout) # {} => Follows(cfg, fan, readout)

\* No request has failed so far, and worker and device are there.
Punctual ==
    /\ device = "present" /\ worker = "running"
    /\ timeouts = 0 /\ refusals = 0 /\ writeErrors = 0

\* When a batch is answered, each fan has the speed that the configuration in
\* use asks for at what this tick has read: of two sensors that name it, the
\* later one has its way (collect_and_process_temperatures, monitoring.rs:316).
SpeedsFollowReadings ==
    [][tick = "awaiting" /\ tick' = "waiting" /\ Punctual =>
          Following(active, readings)]_vars

\* A batch is all or nothing: it gives a speed to every fan of every sensor
\* that was read, and to no other; a single fan without a curve keeps all of
\* them, on all controllers, as they are (monitoring.rs:344).
BatchIsComplete ==
    [][command'.kind = "Speeds" /\ command.kind # "Speeds" =>
          /\ \A i \in ReadIn(readings) : \A fan \in FansForSensor(active, SensorKeys[i]) :
                /\ SpeedsOf(active, fan, readings[SensorKeys[i]]) # {}
                /\ fan.controller = Here =>
                      \E e \in DOMAIN command'.batch :
                          /\ command'.batch[e].fan = fan.channel
                          /\ command'.batch[e].speed
                                \in SpeedsOf(active, fan, readings[SensorKeys[i]])
          /\ \A e \in DOMAIN command'.batch :
                SensorsOf(active, [controller |-> Here, channel |-> command'.batch[e].fan],
                          readings) # {}]_vars

\* Of two fans on one rising curve the hotter one never runs slower: by one
\* percent at most, where truncation cuts (calculate_speed, cfg.rs:273).
HotterIsFaster ==
    \A d, e \in DOMAIN batch :
        LET fan(i) == [controller |-> Here, channel |-> batch[i].fan]
            heat(i) == readings[SensorKeys[CHOOSE s \in SensorsOf(active, fan(i), readings) : TRUE]]
            single(i) == \E s \in DOMAIN SensorKeys : SensorsOf(active, fan(i), readings) = {s}
        IN /\ single(d) /\ single(e) /\ heat(d) <= heat(e)
           /\ CurvesOf(active, fan(d)) = CurvesOf(active, fan(e))
           /\ \A c \in CurvesOf(active, fan(d)) : Rising(c)
           => batch[d].speed <= batch[e].speed + 1

\* Every fan that a sensor speaks for can be given a speed now.
Computable ==
    \A i \in ReadIn(climate) : \A fan \in FansForSensor(active, SensorKeys[i]) :
        SpeedsOf(active, fan, climate[SensorKeys[i]]) # {}

Undisputed(cfg, readout) ==
    {fan \in OwnFans(cfg) : \E s \in DOMAIN SensorKeys : SensorsOf(cfg, fan, readout) = {s}}

\* With a punctual device, fans that can be computed end up following the
\* temperatures once these and the configuration stay as they are: for good
\* those that one sensor speaks for, and again and again those that several
\* do, which are set to the speed of each in turn (monitoring.rs:316).
FansFollow ==
    <>[](Punctual /\ Computable) =>
        /\ <>[](\A fan \in Undisputed(active, climate) : Follows(active, fan, climate))
        /\ []<>Following(active, climate)
=============================================================================
