# A TLA+ model of tt_riingd

tt_riingd drives Thermaltake Riing Quad fan controllers: it reads temperature
sensors, sets fan speeds along curves, animates the fans' LEDs, reloads its
configuration while it runs and follows controllers that are plugged in and out.
It is one process of tokio tasks that share state behind locks and talk over a
broadcast bus, request channels and one bounded channel per controller.

This directory holds the specification of its concurrent core, the TLC runs that
check it and the proofs that TLAPS checks. Paths below are relative to `src/src/`.

## 1. Inventory

| Component | State it keeps | Operations | Talks to | Hard behaviour | What makes it correct |
|---|---|---|---|---|---|
| Event bus (`core/event.rs`) | broadcast channel of 1000 events, one cursor per subscriber, table of request handlers | notify, subscribe, register_handler, execute | everyone | a slow subscriber lags and loses events; a target without a handler is skipped | nobody waits for ever for an answer; what a subscriber reads is in order |
| Coordinator (`core/coordinator.rs`, `core/application.rs`) | shared state, providers, transaction counter | initialize, start_all_services, run_main_loop with hot reload and hotplug, shutdown | bus, ConfigManager, ControllerManager | one event at a time, with waits inside; an error of a handler ends the daemon | it returns to its loop; a reload that ends well has reached every service |
| ConfigManager (`config/cfg.rs`) | `RwLock<Config>`, path | load, reload, analyze_config_changes | watcher, D-Bus, coordinator | the file is read once for the analysis and again for the reload | the shared configuration never goes back, never changes hardware |
| Config watcher (`providers/config_watcher.rs`) | has_pending_event | receive, debounce, analyse, publish | bus | writes during the analysis | no write of the file is lost |
| D-Bus (`providers/dbus.rs`, `interface/`) | the connection | ReloadConfig, Stop | ConfigManager, bus | concurrent callers, next to the watcher | a change detected twice does no harm |
| Monitoring (`providers/monitoring.rs`) | mapping_cache, new_mapping, the buffer of a tick | tick, Prepare, Commit | sensors, ControllerManager, bus | requests and events in either order; one fan without a curve ends a tick | it runs the committed configuration, no older one, no empty one; the fans follow the temperatures |
| Fan colours (`providers/fan_color.rs`) | runners, new_runners, DoubleBuffer | calculate, transmit, Prepare, Commit | ControllerManager, bus | two tasks, a stale index, three locks | frames are whole, in order, and shown |
| Udev watcher (`providers/udev_watcher.rs`) | monitor socket | receive, filter, publish | bus | a removal whose ids are unreadable; events before anyone listens | each arrival that is seen is driven |
| ControllerManager (`drivers/controller_manager.rs`) | id to worker, fingerprint to id | init_from_cfg, batch_update, device_connected, device_disconnected | registry, workers | batches against hotplug | one driver per device; no entry for a stopped worker |
| Workers (`drivers/worker_manager.rs`) | channel of 32 commands, the open device | serve, Stop | device | full channels, panics, devices that go | every command is answered or its sender told |
| Registry (`drivers/registry.rs`) | configuration cache by fingerprint | build from file or fingerprint, merge | hidapi | absent devices, twins of one model, serial numbers from hidapi at start-up and from udev later | a fingerprint keeps its id |
| HID protocol (`drivers/tt_riing_quad/`) | speed and rpm per fan | init, speeds, colours, data | device | late answers, refusals, failing writes, batches that fail half way, a device that is pulled out | an answer belongs to its request; statistics tell what was written; no command hangs |
| Curves and mappings (`config/`) | none | calculate_speed, load_mappings, ensure_mappings | monitoring | boundaries, truncation, entries that overwrite each other | a hotter fan is not slower; of several entries the right one wins |
| Broadcast (`providers/broadcast.rs`) | none | tick | bus | none | (publishes an event nobody uses) |
| Task manager (`core/task_manager.rs`) | tasks, cancellation token | spawn, shutdown_all | coordinator | a 10 s timeout that detaches a task | all tasks that are waited for end before the workers do; no command is dropped; a shutdown ends |
| Sensors (`temperature_sensors/`) | handles, found once | discover, read | monitoring | sensors that are missing, or fail later | one that fails does not hold up the others |
| Bootstrap (`bootstrap/`, `bin/main.rs`), unit file | runtime | set-up, exit | everything | blocking calls at the end; the exit status decides on a restart | success only after an orderly shutdown |
| Effect runners (`effects/`) | streams | next_rgb | fan colours | floating point | |

The hazards in `PROJECT.json` list, line by line, where each of these can go wrong,
and which property would notice.

## 2. Modules

    EventBus  <--- HotReload ----- refines ----> ConfigRollout
        ^                                             ^
        |          ColorFrames --- refines -----------+
        +--------- Lifecycle

    HidProtocol         <---+
    Sensors             <---+-- SpeedControl -- refines --> HidProtocol
    Curves <- Mappings  <---+

    Controllers

(`<---` is EXTENDS, or INSTANCE for Lifecycle.)

| Module | Models |
|---|---|
| `EventBus` | the broadcast half of MessageBroker, as operators on an inbox per subscriber: delivery, overrun, Lagged |
| `HotReload` | writers of the file, watcher, D-Bus callers, coordinator and both services, from start-up on; extends EventBus |
| `ConfigRollout` | the abstract promise: one published version that only grows, and everyone moving forward to it in their own time |
| `Controllers` | devices coming and going, udev watcher, coordinator, ControllerManager and its lock, workers and their channels, clients that send batches |
| `ColorFrames` | both tasks of the colour path, the DoubleBuffer with its index and two locks, and the controllers' lock |
| `HidProtocol` | one worker and one Riing Quad: requests, answers that may be late, the three commands, devices that fail |
| `Curves`, `Mappings`, `Sensors` | pure: the speeds a curve may return, which fans follow which sensor along which curve, which sensors exist |
| `SpeedControl` | the monitoring tick from sensors to fans, composed with `HidProtocol`, and the colour service as a rival for the worker |
| `Lifecycle` | the process: start-up, main loop with its receiver of the bus, tasks, shutdown, exit status, restart by systemd |
| `MC*` | constants for TLC, and the commands of `HidProtocol` |
| `*_proofs`, `Extrema` | theorems and proofs, and lemmas they share |

The modules cut the daemon by subject, and each abstracts the others: a batch is a
command per worker in `Controllers`, a program of reports in `HidProtocol`, a colour
per fan in `ColorFrames`, an entry in a channel in `Lifecycle`.

### HotReload and the code

`shared` is `ConfigManager.config`; `file` is the YAML file. A configuration is its
version (which write produced it), its hardware sections and whether it loads: that
is all `analyze_changes`, `reload` and the services distinguish. `staged` and
`active` are `new_mapping`/`mapping_cache` and `new_runners`/`runners`. `boxes` are
the subscriptions, `handlers` the table in the broker, `request` the unanswered
Prepare in a service's channel and `reply` its oneshot.

`handle_hot_reload` is three actions, cut where it waits for others: `ReadConfig`
(the file has been read), `Prepare` (stored, and a request sent to every registered
service) and `Decide` (all answers in; Commit or Rollback). Its errors end the main
loop (`phase = "exited"`). `analyze_config_changes` holds the read lock across its
file access, so it is one step; publishing its verdict is another. `HandlePrepare`
and `HandleNotify` are the two branches of the services' `select!`, and may be taken
in either order. `Panic` is the tick that meets a NaN control point.
`committed`, `joined` and the transaction id in `staged` and `active` are history:
the code stores none of them, and no guard reads them.

### Controllers and the code

`mapping`, `idOf` and `cache` are `controller_id2worker_id`,
`fingerprint2controller_id` and the registry's static cache. A worker is never
removed from `workers`, as in the code; its sequence number is its id. The write
lock is `writer`, the read lock `readers`; `TakeEvent` is the coordinator queueing
for it. Stopping a worker is two actions, sending Stop and having the answer,
because batches and workers act in between. `BuildControllers` and `Connect` open
any device of the right model, as `open(vid, pid)` does. A batch sends to its ids in
any order (`join_all`), then waits for each answer. Ids with no worker or with a
closed channel are errors of the batch and not of its task.

A fingerprint is a model and a serial number. Start-up takes the serial number from
hidapi (`HidKey`), the udev watcher from the properties and attributes of the device
(`UdevKeys`, and what one announcement finds another may not): nothing in the code
makes the two agree, and neither does the model. An event carries the fingerprint
only, as in the code; whose it is, and the fingerprint a worker was started for, are
history.

### ColorFrames and the code

A colour is the number of its frame. `CalcStart` and `SendStart` read the index;
`CalcLock` and `SendLock` get the lock of that half, however late. The guards live
as long as in the code: the writer's past the swap, the reader's until its batch is
answered. Entries are added and overwritten, never removed. `content` and
`completed` are history.

### HidProtocol and the code

`Program` turns a `ControllerCommand` into the requests of `send_init`,
`update_speed_batch` (SetSpeed, then GetData, for each fan) and
`update_color_batch`. `Controller::request` is `Write` and then one of `ReadNext`,
`Finish`, `ReadRefused` and `Timeout`; every error leaves the command by `GiveUp`, as
`?` does. `wire` and `buffer` are the two directions of the HID interface: nothing in
a report names its request, so `Accepts` is all that `Response::parse` can check, and
what a request leaves unread stays in `buffer`. `stats` is `Fan::current_speed`;
`Finish` writes it for all fans of a batch after the last exchange, and panics at a
channel beyond `fans`. A device takes requests in order and as slowly as it likes,
may refuse one (`DeviceRefuses`: any status but 0xFC, which ends the command), may
hang and may be pulled out; a write (`WriteFails`) or a read (`Timeout`) may also fail
though the device is there. The `to` of an answer is history.

### SpeedControl and the code

A tick is `Tick`, a `ReadSensor` for each sensor, a `PushFan` (or `NoSpeed`) for each
fan of that sensor, `Send` and `Answered`: `collect_and_process_temperatures` and
`send_speed_updates`, cut at their awaits. `NoSpeed` is the `?` that leaves the tick.
`Adopt` is what a Commit does to `mapping_cache`; it is a branch of the same
`select!`, so it only happens while the service waits. `Mappings` operates on the
lists of the file with the precedence that the code's maps give them: a later entry
for a fan overwrites an earlier one, the first curve of a name is found first. A
curve at a temperature has a *set* of speeds: f32 arithmetic may come out a hair
below a whole number, and be cut to the number before; for the Bezier bisection the
set is the span of the control points. `SendColors` is the transmitting task, whose
commands the worker serves between those of the tick.

### Lifecycle and the code

A service is its task: `TaskRuns` reaches the loop, `BeginTick` to `EndTick` are the
drivers (`monitoring`, `transmit`) with their blocking read, the read lock, and one
command per worker. `thread` is the thread that the udev watcher builds with
`std::thread::Builder`. The coordinator is `phase`: `CtrlC` and `HandleStop` begin a
shutdown; `Join`, `Joined` and `JoinTimesOut` are the loop of `shutdown_all`;
`TakeLock`, `WorkerStops` and `Closed` are `ControllerManager::shutdown`; `Leave` is
the end of `main`, where the runtime waits for blocking reads. `inbox` is the
coordinator's receiver, with the operators of `EventBus`: a publisher is never held
up, the oldest event goes when the receiver is full, and `recv` then reports the loss,
which `NoticeLag` only logs. `stopLost`, that a Stop was among the events lost, is
history. A time-out may strike at any moment, as a join may begin long after its task
was slow. `detached` are tasks whose handle was dropped: they run on. `Restart` is the
unit file's `Restart=on-failure`.

## 3. Runs

Passing runs:

| Run | Instance | Shows |
|---|---|---|
| HotReloadSteady | 2 services, watcher, 1 D-Bus call, 2 writes, after start-up, roomy bus | refinement of ConfigRollout; both writes arrive; drained services run the shared configuration |
| HotReloadRough | 2 services (one may panic), 2 writes at any time, broken files, hardware changes, 1 unrelated event, a bus of 2 events | no service goes back; the coordinator is never stuck in phase 1; drained services are current though others lag or die; only a service that a Prepare left out runs on its empty cache |
| HotplugOrderly | 2 devices of 2 models, 1 configured, 1 whose serial number udev does not find; 1 client; 2 arrivals after start-up; removals recognised | one driver per device; every arrival that reaches the coordinator is driven |
| HotplugRough | 1 device, 3 clients on one channel with room for 2 commands, panics, missed removals, a serial number that udev may miss, 1 arrival at any time | batches end; Stop drops no command; no stopped worker in the table; a fingerprint keeps its id |
| ColorFrames | 2 fans, one on a controller that may be missing; 4 frames; 1 change of effects; hotplug at any time | frames whole, in order, and shown |
| HidFaults | 2 channels, batches of one and two fans and beyond the list, 2 late answers, 1 refusal, 1 failing write, a device that may hang or go | answers are paired until one is late; statistics change only when every fan of the batch has been written; every command ends |
| SpeedControl | 3 sensors, 2 fans, 4 configurations (2 of them faulty) and the empty one, 1 adoption, 1 change of temperature or failing sensor, colours in between | batches are complete; each fan gets the speed of the right curve at this tick's reading; fans end up following the temperatures, for good or, when several sensors name them, again and again; the composition implements HidProtocol |
| Lifecycle | 4 services (2 drivers, one of them blocking), 1 worker, a bus of 2 events, Ctrl+C, Stop and SIGTERM at any time, with or without a session bus | a shutdown ends, in order, with no command dropped; success means orderly; a Stop that was received is obeyed, unless later events overran it |

Runs that TLC refutes, each a statement of the repository that the code does not
keep (the exact lines are in `PROJECT.json`):

| Run | Statement | What happens |
|---|---|---|
| HotReloadOvertaken | 2PC: services act on a committed transaction | the Commit of transaction n activates what Prepare of n+1 has just staged |
| HotplugRace | hardware failures are handled gracefully | plug and unplug quickly: opening fails and the daemon exits |
| HidLateAnswer | current_speed is a percentage | after one late answer (that of Init) the status byte of SetSpeed, 252, is taken for a speed, and every answer after it belongs to the request before |
| LifecycleStop | riingctl stop stops the daemon gracefully | main returns an error after the shutdown, and systemd starts it again |

**Bounds.** Two services and two writes are the least with which one service can be a
transaction ahead of the other, and a Commit overtaken by a Prepare. A third write
repeats the pattern: the state between reloads is a version and which of two orders
each service took. The bus of two events makes every subscriber lag; MessageBroker's
1000 would not in a run of this size. An arrival gives a device a second life and a
second worker, and two of them (HotplugOrderly) a third. Monitoring, the transmitting
task and the calculating task (`led_count`) are three clients: on a channel with room
for two commands one of them waits, and a Stop that did not wait for the batches would
find room behind or ahead of a command. Four frames let each half be drawn twice, so
that a reader with a stale index meets a half drawn again under it. Two late answers
(`MaxLate`) put the exchange one and two answers out of step; a third would need a
batch of more than two exchanges to look different. One refusal (`MaxRefusals`) and
one failing write (`MaxWriteErrors`) each fall on any request of a command, in any
company of late answers; both end the command. One adoption (`MaxCommits`) and one
change (`MaxChanges`) each fall anywhere in a tick; the temperatures 40 and 50 lie
inside a segment and inside the band of the Bezier curve, and the dummy sensor's 45
between them. Two drivers are the least with which one holds the read lock while the
other queues for it; a bus of two events puts a Stop behind another event, and lets
two more overwrite it. `QueueCapacity`, `Capacity` and `Listed` are parameters of the
code itself.

**Deadlock** is checked for ColorFrames. HotReload and Controllers stop when the
bounds are used up or after the daemon exits, HidFaults when its worker has panicked
and its device has gone, Lifecycle after a signal has ended the process for good:
their runs say `CHECK_DEADLOCK FALSE`, and their liveness properties show that nobody
hangs.

**Preconditions of the runs.** `OneDriver` needs removals that are recognised and no
plugging during start-up: otherwise the code does start a second worker for a
device. It also needs udev to find the same serial number each time, though not
hidapi's. `ImplementsRollout` needs changes to come after start-up; section 6 says what
happens otherwise. `StatsMeanWritten` speaks of devices that answer late or refuse,
not of those that do both: a refusal that is read late is taken for the answer to
another request. `SpeedControl` runs without late answers, refusals and failing
writes, since after one of them nothing can be said about the speeds, and its states
are many already; `HidFaults` is about them, and the proofs of `SpeedControl` take them
all in. `FramesMoveForward` needs effects that keep their
fans (`MayDrop = FALSE`).
`FansFollow` says nothing while some fan has no speed: then the code sends none.

## 4. Fairness

Weak fairness says that a task that can go on does: the tokio scheduler runs every
ready task, timers tick, and `select!` starts polling at a random branch, so that a
branch that stays ready is taken. Strong fairness is used for queues: a sender
into a bounded channel (`SendCommand`, SpeedControl's `Send`) and those who wait for a
lock (`CalcLock`, `SendLock`, `SendBatch`, `Draw`) are served in order of arrival, so
they cannot be overtaken for ever. `SendStop` needs none: no command is sent while
the coordinator holds the write lock. In Lifecycle `TaskEnds` and `WorkerStops` are
strongly fair because a `select!` that finds the cancellation ready again and again
picks that branch at some time: it starts at a random one. The timer of a join
(`JoinTimesOut`) is weakly fair, which is why a task that hangs does not hold up a
shutdown; reads of sensors are assumed to return, since the runtime waits for them
at the end of `main`. A present device answers in the end; nothing is assumed of one
that failed. Nothing is assumed of the outside: writers, D-Bus callers, devices,
panics, signals, Stop, the start of a batch.

## 5. Proofs

`HotReload_proofs`, for any services, clients, hardware, capacity and bounds, with
the assumptions the module states (names differ, the boot hardware is possible, the
capacity is positive):

- `TypeCorrect`: `Spec => []TypeOK`.
- `Drained`: `Spec => []DrainedRunsShared`. The property says nothing about a
  service that still has a Commit to read, so it is not inductive. `IInv` adds
  `JoinedIsCurrent` (such a service has staged the shared configuration, and has it
  active or has a Commit left that will do it, whichever Commit that is),
  `Outstanding` (a Prepare not yet answered belongs to the phase 1 under way, so
  `staged` cannot change between reloads), `Receiving` (a live task has a receiver)
  and `VersionsFlow` (versions only grow from active to staged, shared, loaded and
  file).
- `Forward`: `Spec => NeverOlder`, from `VersionsFlow`.
- `Unasked`: `Spec => []EmptyOnlyUnasked`, with changes during start-up and panics
  included. `missed` (history) is who was not registered at a Prepare. `Heard` adds
  `AllAsked` (a Prepare goes to everyone that none has left out, and whoever answers
  it has staged something), `CommitIsStaged` (whoever has a Commit to read has
  something staged, unless a Prepare left it out) and `PanickedIsClosed`.
- `PreparedFirst` and `Implements`, with the hypothesis that nothing changes before
  start-up is complete (`~EarlyChanges`; section 6 says what happens otherwise): no
  Prepare leaves anyone out, and the refinement of ConfigRollout, `Spec =>
  ImplementsRollout`. What they need beyond `IInv` is that until start-up is complete
  nothing is under way, and that whoever has come up has its handler, so that phase 1
  asks them all. The steps of the refinement are then `Prepare`, which publishes what
  was read from the file, and a Commit that is read, whose versions `VersionsFlow`
  puts in order; every other step maps to a stutter.

`ColorFrames_proofs`, for any fans and any number of frames:

- `TypeCorrect`, and `Whole`: `Spec => []WholeFrames`. The strengthening is the
  exclusion of the two locks of one half, and that a half has the colours of the
  frame last completed there, or, while it is drawn, of the next one.
- `Implements`: when the effects drop no fan, `Spec => FramesMoveForward`, the
  refinement of ConfigRollout. `Forward` says that the index points away from the
  newest frame and that nothing shown is newer than the half asked for: that half
  was the newest then, and only a newer frame can have replaced it.

`HidProtocol_proofs`, for any channels, listed fans, late answers, refusals and
failures, and for commands of any length (`HidNext` begins any command):

- `TypeCorrect`: `HidSpec => []HidTypeOK`, which includes that `at` stays within the
  program of the command.
- `Paired`: `HidSpec => []OwnAnswer`. Until an answer has been late, what is on the
  wire and in the buffer is together one request at most, the current one, and none
  before it is written (of a device that has gone: until the next request fails).
  Refusals do not disturb it: they are answers.
- `Truthful`: `HidSpec => StatsMeanWritten`. The strengthening follows a Speeds
  command through its program: the targets of the channels (the last SetSpeed on the
  wire, or else the duty of the device) are those of the entries already sent. That
  holds however late the answers are, since the device takes requests in order, as
  long as it refuses none; and with refusals as long as none is late, for then a
  refusal ends the command whose request was refused.

`SpeedControl_proofs`, for any sensors, temperatures, fans, controllers, mappings,
curves and adoptions. `ConfigAssumption` says what a file deserializes to (lists of
entries, curves of the three kinds with u8 speeds), `KeysAssumption` that the keys of
the sensors form a list; the latter is plain from `SelectSeq`, whose definition no
installed prover can look into.

- `RisingSpeeds`: of two temperatures on any rising step curve the hotter one has no
  lower speed, but for the one percent of truncation. Within a segment that is the
  slope of the line (`SegmentRises`), across segments that the ends are ordered.
- `Drives`: `Spec => HidSpec`, so that all that is proved of HidProtocol holds of the
  composition (`Inherited` states it). `Walk` says that between two ticks nothing is
  in hand, and that the fans still to be served are those of the last sensor read,
  which did not fail: without it a batch could have an entry that is no speed.
- `WellTyped`: `Spec => []TypeOK`, from `Walk` and from the lemmas that whatever a
  curve gives is a byte (the edges and the band of Bezier curves included).
- `Faster`, `Complete` and `Obeyed`: the properties `HotterIsFaster`,
  `BatchIsComplete` and `SpeedsFollowReadings`. The strengthening describes the batch
  while the tick walks over the sensors, through `Given(fan)`, the sensors read that
  the fan has had a speed from: each has an entry with its speed (`Spoken`), each
  entry comes from one (`Heard`), and the last entry for a fan is from the last of
  them (`Newest`). `Obeyed` adds `Delivered` (the worker has the batch that is
  awaited, or is through with it and then the fans' targets are the batch's), where
  the lemmas behind `Truthful` come in, and `NotRefused`: a device that refuses nothing
  and is never late has no request refused. These three have one
  hypothesis, `UniqueKeys`: no two sensors share a key. The file's ids are documented
  as unique and nothing checks it; with two alike, a failing second reading would
  hide the first one, by which a fan had been given its speed.

`Lifecycle_proofs`, for any services (with different names, the roles being among
them), drivers, workers and bounds:

- `TypeCorrect`: `Spec => []TypeOK`.
- `TasksFirst`, `NothingDropped`, `OrderlySuccess`: the properties
  `WorkersOutliveTasks`, `ShutdownDropsNothing` and `SuccessIsOrderly`. `IInv` adds
  `Accounted` (a task that runs has a handle, is being joined or was let go), `Fresh`
  (no task before start-up has come to its service), `ThreadOwned` (the udev thread
  runs only under its task), `Ordered` (lock, handles and stopped workers follow the
  coordinator's phase), `Exclusive` (who waits for answers has the read lock, and
  nobody has while the coordinator holds the write lock) and `Waited` (a command is
  in a channel once, and its sender waits for it). A command is not dropped because
  the write lock waits for its sender, not because its sender has ended: the
  argument does not need the ten seconds to be enough. The receiver of the bus keeps
  its bound by the lemmas of its deliveries (in `TypeCorrect`).

`Controllers_proofs`, for any finite set of devices, any models, serial numbers,
configured ids, clients (none of which is called "Stop"), batches and bounds:

- `TypeCorrect`: `Spec => []TypeOK`.
- `LiveWhenMapped` and `StopDropsNoCommand`: the properties `MappedIsLive` and
  `StopDropsNothing`. `LockInv` says what the lock of the controllers is worth:
  `Locked` (who has no read lock has no batch, and no batch overlaps with a Stop),
  `MappedUnderId` (the table leads to a worker started under that id),
  `QueuedIsMapped` and `QueuedIsAwaited` (only a running, mapped worker has
  anything in its channel, and each command in it is awaited, once), `StopIsAlone`
  and `StoppedIsAddressed` (a Stop, and a stopped worker still in the table, belong
  to the handler that waits for it). From it follows `Drained`: whoever gets the
  write lock finds every channel empty. The argument needs neither that devices
  stay nor that removals are recognised.
- `SameId`: the property `SameIdOnReturn`, when no two entries of the file are for one
  VID and PID (`OneEntryEach`). It is about fingerprints: nothing is assumed of the
  serial numbers that hidapi and udev give, of how many devices share a model, or of
  which announcements are seen. `Remembered` says that the registry has each worker's
  fingerprint under the id of that worker.
- `OneDriverEach`: the property `OneDriver`, when devices also differ in the ids they
  may be given (`DistinctIds`: fallback ids are made of VID and PID, those of the file
  are documented as unique), removals are recognised, udev finds one serial number for
  each device (`SteadySerials`; hidapi's may be another) and nothing is plugged during
  start-up. `RunningIsMapped` alone is not inductive. `Fit` follows what has been
  announced and not dealt with, from the event in hand through the coordinator's inbox
  to udev: for each device arrivals and removals alternate, the last one tells whether
  it is there, and no worker drives a device whose arrival comes next. So an arrival
  that is handled always finds the worker of the life before stopped.

`Extrema` has the two lemmas on least and greatest elements that `HidProtocol_proofs`
and `Controllers_proofs` cite.

Every safety property of the runs is thus proved, under the hypotheses named above.
Only model-checked are the liveness properties (fairness is out of the prover's
reach): `EditReachesServices`, `CoordinatorReturns`, `ArrivalsAreDriven`, `BatchesEnd`,
`FramesAreShown`, `CommandsEnd`, `FansFollow`, `ShutdownEnds` and `StopIsObeyed`. That
`SensorKeys` lists the sensors that are there, in order, is not proved either: it is
made of `SelectSeq`.

## 6. What the models show beside the properties

Behaviour of the code that the models contain, that no run of its own is spent on,
and that a maintainer should know:

- A reload during start-up can commit to a service that has subscribed but has not
  registered its handler; it then activates its empty initial mapping, and no fan has
  a curve until the next reload; `EmptyOnlyUnasked` says that nothing else does
  (`NoMappings` of SpeedControl is that state).
- A second write between analysis and reload can bring a hardware change into the
  shared configuration, which the watcher promises not to reload.
- The serial number comes from hidapi at start-up and from udev afterwards. Where
  the two differ, or one finds none, the removal of a device that was there at
  start-up names an unknown fingerprint, which is an error that ends the daemon
  (`DisconnectNoWorker`); and if the removal is missed, the device comes back under
  another fingerprint, and with the id, fans and curves of the fallback configuration,
  where `drivers/mod.rs` has its settings restored.
- A removal that is missed, or an arrival under another serial number, leaves the old
  worker in place beside the new one.
- A Stop is lost when so many events follow it while a handler waits that the bus
  overwrites it: the coordinator logs the lag and goes on.
- A request that the device refuses ends its batch, and later fans are not written.
  When a refusal is also read late, the statistics may show a speed that was refused.
- A device that arrives after start-up never gets Init. With two devices of one
  model an id may drive either, since the serial number is not used to open them.
- A fan that a reload takes out of the effects stays in both halves of the buffer
  and is sent two old colours in turn.
- After a late answer the exchange stays one answer behind. A batch of speeds then
  ends in an error at the first status it finds a speed in the place of, so that its
  later fans are not written; a batch of colours, all statuses, does not notice.
- A fan that two sensors name is sent both speeds in every batch: it swings between
  them for ever, and has the later sensor's from one tick to the next.
- `ensure_mappings` looks for ids that begin with "autogenerated", while a fallback
  configuration is named "fallback_...": the dummy curve never applies to one.
- All services are cancelled at once, where `providers/mod.rs` speaks of the reverse
  order of priority; a critical service that fails after its spawn is not noticed
  (`coordinator.rs:150`).
- Ctrl+C during a handler is lost. SIGTERM is not handled and ends the process at
  once, with whatever the fans were last told. A sensor read that hangs delays the
  exit beyond any timeout.

## 7. Not modelled, and what could come next

Not modelled: effect runners and the Bezier bisection (floating point), lm-sensors,
NVML, udev and hidapi themselves (I/O: they appear as what they return), validation
messages and the supported-hardware list (data), the properties and signals of the
D-Bus interface (they change nothing), queries and commands of the broker that
nothing sends, the firmware query and the fire-and-forget batches, which nothing
calls.

Next: what the liveness properties rest on and can be proved as safety (whom the
coordinator, a batch and a shutdown can be waiting for); weaker hypotheses for
`OneDriverEach`.
