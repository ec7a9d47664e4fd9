---------------------------- MODULE Controllers ----------------------------
(***************************************************************************)
(* Hotplug of fan controllers, and the workers that drive them.            *)
(*                                                                         *)
(*   - the kernel announces hidraw devices to the udev watcher, which      *)
(*     publishes DeviceConnected and DeviceDisconnected;                   *)
(*   - the coordinator handles them one at a time, holding the write lock  *)
(*     of ControllerManager: a removal stops the worker of the device, an  *)
(*     arrival opens the device and starts a new worker;                   *)
(*   - the periodic tasks hold the read lock for as long as a batch lasts: *)
(*     one command into the bounded channel of each worker concerned, then *)
(*     an answer from each.                                                *)
(*                                                                         *)
(* A model stands for a VID and PID; a fingerprint adds a serial number,   *)
(* which start-up reads through hidapi and the udev watcher from udev, and *)
(* the two need not agree.  What a command writes to the device is left    *)
(* out: what matters is which worker takes it and that it is answered.     *)
(***************************************************************************)
EXTENDS Naturals, Sequences, FiniteSets

CONSTANTS
    Devices,        \* physical controllers
    Model,          \* [Devices -> their vendor and product id]
    HidSerial,      \* [Devices -> the serial number hidapi gives, if any]
    UdevSerials,    \* [Devices -> those that usb_ids may find, and none]
    Configured,     \* devices that the configuration file names
    ConfigId,       \* [Configured -> controller id given there]
    FallbackId,     \* [models -> id of the fallback configuration]
    NoId,           \* no controller id
    Clients,        \* tasks that send batches: monitoring, colours
    SpeedClients,   \* those of them that send SetSpeeds
    Batches,        \* [Clients -> sets of controller ids a batch may name]
    Fragile,        \* ids whose configuration lists too few fans
    RemoveSeen,     \* FALSE in it: a removal may come without usable ids
    EarlyPlugs,     \* may devices come and go before start-up is complete?
    QueueCapacity,  \* of a worker's channel (32 in start_worker)
    MaxPlugs        \* bound: arrivals of devices

Models == {Model[d] : d \in Devices}
Serials == {HidSerial[d] : d \in Devices} \union UNION {UdevSerials[d] : d \in Devices}
Ids == {ConfigId[d] : d \in Configured} \union {FallbackId[m] : m \in Models}

ASSUME DevicesAssumption ==
    /\ IsFiniteSet(Devices) /\ Devices # {} /\ Configured \subseteq Devices
    /\ DOMAIN Model = Devices /\ DOMAIN ConfigId = Configured
    /\ DOMAIN HidSerial = Devices /\ DOMAIN UdevSerials = Devices
    /\ \A d \in Devices : UdevSerials[d] # {}
    /\ DOMAIN FallbackId = Models
    /\ NoId \notin Ids
ASSUME ClientsAssumption ==
    /\ SpeedClients \subseteq Clients /\ "Stop" \notin Clients
    /\ Batches \in [Clients -> SUBSET SUBSET Ids]
    /\ Fragile \subseteq Ids
ASSUME BoundsAssumption ==
    /\ RemoveSeen \subseteq BOOLEAN /\ EarlyPlugs \in BOOLEAN
    /\ QueueCapacity \in Nat \ {0} /\ MaxPlugs \in Nat

VARIABLES
    plugged,   \* devices present
    plugs,     \* arrivals so far
    watching,  \* the udev monitor listens
    udev,      \* announcements not yet received by the watcher
    inbox,     \* hotplug events in the coordinator's receiver
    phase,     \* how far the coordinator is
    writer,    \* the coordinator and the write lock of ControllerManager
    event,     \* the hotplug event being handled
    workers,   \* worker id -> worker; workers are never forgotten
    mapping,   \* controller_id2worker_id, 0 for None or no entry
    idOf,      \* fingerprint2controller_id
    cache,     \* the registry's static configuration cache: fingerprint -> id
    readers,   \* clients holding the read lock
    todo,      \* [Clients -> ids its batch has yet to send to]
    awaited    \* [Clients -> ids whose answer it waits for]

hardware == <<plugged, plugs>>
watch    == <<watching, udev>>
tables   == <<mapping, idOf, cache>>
batches  == <<readers, todo, awaited>>
vars == <<hardware, watch, inbox, phase, writer, event, workers, tables, batches>>

Phases == {"building", "initializing", "starting", "looping", "exited"}
Stop == "Stop"

\* HardwareFingerprint, as get_fingerprint and as usb_ids fill it in.
Fingerprint == [model : Models, serial : Serials]
HidKey(d) == [model |-> Model[d], serial |-> HidSerial[d]]
UdevKeys(d) == {[model |-> Model[d], serial |-> s] : s \in UdevSerials[d]}

\* An event carries a fingerprint only: `dev', whose it is, is history.
HotplugEvent ==
    {e \in [type : {"Add", "Remove"}, dev : Devices, key : Fingerprint] :
        e.key \in UdevKeys(e.dev)}

\* `key', the fingerprint the worker was started for, is history.
Worker == [id : Ids, dev : Devices, key : Fingerprint, attached : BOOLEAN,
           state : {"running", "stopped", "panicked"},
           queue : Seq(Clients \union {Stop})]

NewWorker(id, d, key) == [id |-> id, dev |-> d, key |-> key, attached |-> TRUE,
                          state |-> "running", queue |-> <<>>]

Init ==
    /\ plugged \in SUBSET Devices /\ plugs = 0
    /\ watching = FALSE /\ udev = <<>> /\ inbox = <<>>
    /\ phase = "building" /\ writer = "none"
    /\ event = CHOOSE e \in HotplugEvent : TRUE
    /\ workers = <<>>
    /\ mapping = [id \in Ids |-> 0]
    /\ idOf = [k \in Fingerprint |-> NoId] /\ cache = [k \in Fingerprint |-> NoId]
    /\ readers = {}
    /\ todo = [c \in Clients |-> {}] /\ awaited = [c \in Clients |-> {}]

Up == phase # "exited"
Started == phase \in {"starting", "looping"}
MayPlug == Up /\ (EarlyPlugs \/ (watching /\ phase = "looping"))

-----------------------------------------------------------------------------
\* The hardware.  An open handle is dead for good once its device has gone.

\* An announcement comes with the properties in which usb_ids finds the serial
\* number, or does not.
Announce(type, d) ==
    \E key \in UdevKeys(d) :
        udev' = IF watching
                THEN Append(udev, [type |-> type, dev |-> d, key |-> key]) ELSE udev

Plug(d) ==
    /\ MayPlug /\ d \notin plugged /\ plugs < MaxPlugs
    /\ plugged' = plugged \union {d}
    /\ plugs' = plugs + 1
    /\ Announce("Add", d)
    /\ UNCHANGED <<watching, inbox, phase, writer, event, workers, tables, batches>>

Unplug(d) ==
    /\ MayPlug /\ d \in plugged
    /\ plugged' = plugged \ {d}
    /\ workers' = [w \in DOMAIN workers |->
                      [workers[w] EXCEPT !.attached = @ /\ workers[w].dev # d]]
    /\ Announce("Remove", d)
    /\ UNCHANGED <<plugs, watching, inbox, phase, writer, event, tables, batches>>

\* create_one opens by VID and PID: any device of the model answers to it.
Openable(m) == {d \in plugged : Model[d] = m}

-----------------------------------------------------------------------------
\* Start-up: init_from_cfg, then BatchCommand::Init.

\* scan_hardware and controller_exists_in_config: models, not devices.
Detected == {Model[d] : d \in plugged}
InConfig(m) == \E d \in Configured : Model[d] = m

\* create_fallback_config_internal
Fallback(m) == [id |-> FallbackId[m], model |-> m]

\* merge_with_config adds one fallback entry for each model that is detected
\* and that no entry of the file has.
Entries ==
    {[id |-> ConfigId[d], model |-> Model[d]] : d \in Configured} \union
    {Fallback(m) : m \in {n \in Detected : ~InConfig(n)}}

\* An entry whose device cannot be opened is left out.  Of two entries that
\* opened devices of one fingerprint, it keeps the later one.
BuildControllers ==
    /\ phase = "building"
    /\ phase' = "initializing"
    /\ LET opened == {e \in Entries : Openable(e.model) # {}}
           n == Cardinality(opened)
       IN \E entry \in [1 .. n -> opened], dev \in [1 .. n -> plugged] :
            /\ \A e \in opened : \E i \in 1 .. n : entry[i] = e
            /\ \A i \in 1 .. n : Model[dev[i]] = entry[i].model
            /\ workers' = [i \in 1 .. n |-> NewWorker(entry[i].id, dev[i], HidKey(dev[i]))]
            /\ mapping' = [id \in Ids |->
                  IF \E i \in 1 .. n : entry[i].id = id
                  THEN CHOOSE i \in 1 .. n : entry[i].id = id ELSE 0]
            /\ idOf' = [k \in Fingerprint |->
                  IF \E i \in 1 .. n : HidKey(dev[i]) = k
                  THEN entry[CHOOSE i \in 1 .. n :
                                /\ HidKey(dev[i]) = k
                                /\ \A j \in (i + 1) .. n : HidKey(dev[j]) # k].id
                  ELSE NoId]
            /\ cache' = idOf'
    /\ UNCHANGED <<hardware, watch, inbox, writer, event, batches>>

\* handle_init sends Init to every worker and waits for the answers; a failure
\* is only counted.
InitControllers ==
    /\ phase = "initializing"
    /\ phase' = "starting"
    /\ UNCHANGED <<hardware, watch, inbox, writer, event, workers, tables, batches>>

EnterMainLoop ==
    /\ phase = "starting"
    /\ phase' = "looping"
    /\ UNCHANGED <<hardware, watch, inbox, writer, event, workers, tables, batches>>

-----------------------------------------------------------------------------
\* The udev watcher.

StartWatching ==
    /\ Started /\ ~watching
    /\ watching' = TRUE
    /\ UNCHANGED <<hardware, udev, inbox, phase, writer, event, workers, tables,
                   batches>>

\* usb_ids may find no VID and PID at a device that has gone; it then counts
\* as unsupported and nothing is published.  What is published before the
\* main loop has subscribed does not reach the coordinator.
ReceiveUdev ==
    /\ Started /\ udev # <<>>
    /\ udev' = Tail(udev)
    /\ \E seen \in IF Head(udev).type = "Add" THEN {TRUE} ELSE RemoveSeen :
          inbox' = IF seen /\ phase = "looping"
                   THEN Append(inbox, Head(udev)) ELSE inbox
    /\ UNCHANGED <<hardware, watching, phase, writer, event, workers, tables,
                   batches>>

-----------------------------------------------------------------------------
\* The coordinator: handle_device_connected and handle_device_disconnected.

\* The main loop takes the next event and queues for the write lock.  A
\* waiting writer keeps new readers out: tokio's RwLock is fair.
TakeEvent ==
    /\ phase = "looping" /\ writer = "none"
    /\ inbox # <<>>
    /\ event' = Head(inbox)
    /\ inbox' = Tail(inbox)
    /\ writer' = "waiting"
    /\ UNCHANGED <<hardware, watch, phase, workers, tables, batches>>

Handling(type) == Up /\ writer = "waiting" /\ readers = {} /\ event.type = type

\* The worker the event's fingerprint is mapped to, 0 if there is none.
Addressed == IF idOf[event.key] = NoId THEN 0 ELSE mapping[idOf[event.key]]

Running(w) == w # 0 /\ workers[w].state = "running"

\* No worker to stop: that is fine if it was stopped before, and an error if
\* the fingerprint is unknown or the channel of the worker is closed.
DisconnectNoWorker ==
    /\ Handling("Remove")
    /\ ~Running(Addressed)
    /\ IF idOf[event.key] # NoId /\ Addressed = 0
       THEN writer' = "none" /\ UNCHANGED phase
       ELSE phase' = "exited" /\ UNCHANGED writer
    /\ UNCHANGED <<hardware, watch, inbox, event, workers, tables, batches>>

\* SendStop under a read lock: it does not wait for the batches to end.
SendStopShared ==
    /\ Up /\ writer = "waiting" /\ event.type = "Remove"
    /\ Running(Addressed)
    /\ Len(workers[Addressed].queue) < QueueCapacity
    /\ workers' = [workers EXCEPT ![Addressed].queue = Append(@, Stop)]
    /\ writer' = "stopping"
    /\ UNCHANGED <<hardware, watch, inbox, phase, event, tables, batches>>

\* SendStop that only forgets the worker.
SendStopForgetting ==
    /\ Handling("Remove")
    /\ Running(Addressed)
    /\ mapping' = [mapping EXCEPT ![idOf[event.key]] = 0]
    /\ writer' = "none"
    /\ UNCHANGED <<hardware, watch, inbox, phase, event, workers, idOf, cache,
                   batches>>

SendStop ==
    /\ Handling("Remove")
    /\ Running(Addressed)
    /\ Len(workers[Addressed].queue) < QueueCapacity
    /\ workers' = [workers EXCEPT ![Addressed].queue = Append(@, Stop)]
    /\ writer' = "stopping"
    /\ UNCHANGED <<hardware, watch, inbox, phase, event, tables, batches>>

\* StopAnswered that leaves the mapping as it is.
StopAnsweredKeeping ==
    /\ Up /\ writer = "stopping"
    /\ ~Running(Addressed)
    /\ writer' = "none"
    /\ UNCHANGED <<hardware, watch, inbox, phase, event, workers, tables, batches>>

\* stop_worker has its answer, the worker is on its way out; or the worker died
\* before it came to the Stop, which is an error.
StopAnswered ==
    /\ Up /\ writer = "stopping"
    /\ ~Running(Addressed)
    /\ IF workers[Addressed].state = "stopped"
       THEN /\ mapping' = [mapping EXCEPT ![idOf[event.key]] = 0]
            /\ writer' = "none"
            /\ UNCHANGED phase
       ELSE /\ phase' = "exited"
            /\ UNCHANGED <<mapping, writer>>
    /\ UNCHANGED <<hardware, watch, inbox, event, workers, idOf, cache, batches>>

\* An error of a handler ends run_main_loop and the process.
ConnectFails ==
    /\ Handling("Add")
    /\ Openable(event.key.model) = {}
    /\ phase' = "exited"
    /\ UNCHANGED <<hardware, watch, inbox, writer, event, workers, tables, batches>>

\* BuildId without the fallback.
BuildIdCachedOnly(key) == cache[key]

\* build_controller_from_fingerprint: the cached configuration, else fallback.
BuildId(key) == IF cache[key] # NoId THEN cache[key] ELSE FallbackId[key.model]

\* Connect that takes the fallback configuration whatever the cache holds.
ConnectUncached ==
    /\ Handling("Add")
    /\ \E d \in Openable(event.key.model) :
         LET id == FallbackId[event.key.model]
         IN /\ workers' = Append(workers, NewWorker(id, d, event.key))
            /\ mapping' = [mapping EXCEPT ![id] = Len(workers) + 1]
            /\ idOf' = [idOf EXCEPT ![event.key] = id]
            /\ cache' = [cache EXCEPT ![event.key] = id]
    /\ writer' = "none"
    /\ UNCHANGED <<hardware, watch, inbox, phase, event, batches>>

\* Connect that starts the worker and does not map the id to it.
ConnectUnmapped ==
    /\ Handling("Add")
    /\ \E d \in Openable(event.key.model) :
         LET id == BuildId(event.key)
         IN /\ workers' = Append(workers, NewWorker(id, d, event.key))
            /\ idOf' = [idOf EXCEPT ![event.key] = id]
            /\ cache' = [cache EXCEPT ![event.key] = id]
    /\ writer' = "none"
    /\ UNCHANGED <<hardware, watch, inbox, phase, event, mapping, batches>>

Connect ==
    /\ Handling("Add")
    /\ \E d \in Openable(event.key.model) :
         LET id == BuildId(event.key)
         IN /\ workers' = Append(workers, NewWorker(id, d, event.key))
            /\ mapping' = [mapping EXCEPT ![id] = Len(workers) + 1]
            /\ idOf' = [idOf EXCEPT ![event.key] = id]
            /\ cache' = [cache EXCEPT ![event.key] = id]
    /\ writer' = "none"
    /\ UNCHANGED <<hardware, watch, inbox, phase, event, batches>>

-----------------------------------------------------------------------------
\* A client: batch_update in blocking mode, under the read lock.

BeginBatch(c) ==
    /\ Started /\ c \notin readers /\ writer = "none"
    /\ readers' = readers \union {c}
    /\ \E ids \in Batches[c] : todo' = [todo EXCEPT ![c] = ids]
    /\ UNCHANGED <<hardware, watch, inbox, phase, writer, event, workers, tables,
                   awaited>>

\* No worker, or one whose channel is closed: an error for this id.
SkipId(c, id) ==
    /\ Up /\ id \in todo[c]
    /\ ~Running(mapping[id])
    /\ todo' = [todo EXCEPT ![c] = @ \ {id}]
    /\ UNCHANGED <<hardware, watch, inbox, phase, writer, event, workers, tables,
                   readers, awaited>>

\* The channel is bounded: with no room the sender waits.
SendCommand(c, id) ==
    /\ Up /\ id \in todo[c]
    /\ Running(mapping[id])
    /\ Len(workers[mapping[id]].queue) < QueueCapacity
    /\ workers' = [workers EXCEPT ![mapping[id]].queue = Append(@, c)]
    /\ todo' = [todo EXCEPT ![c] = @ \ {id}]
    /\ awaited' = [awaited EXCEPT ![c] = @ \union {id}]
    /\ UNCHANGED <<hardware, watch, inbox, phase, writer, event, tables, readers>>

EndBatch(c) ==
    /\ Up /\ c \in readers
    /\ todo[c] = {} /\ awaited[c] = {}
    /\ readers' = readers \ {c}
    /\ UNCHANGED <<hardware, watch, inbox, phase, writer, event, workers, tables,
                   todo, awaited>>

-----------------------------------------------------------------------------
\* A worker: ControllerWorker::run.

HasWork(w) == workers[w].queue # <<>> /\ workers[w].state = "running"

\* The clients in cs have their answer, or learn that it will not come.
Answer(cs, id) ==
    awaited' = [c \in Clients |-> IF c \in cs THEN awaited[c] \ {id} ELSE awaited[c]]

Waiting(w) == {workers[w].queue[i] : i \in DOMAIN workers[w].queue}

\* On a device that has gone the command fails; that too is an answer.
Serve(w) ==
    /\ Up /\ HasWork(w) /\ Head(workers[w].queue) # Stop
    /\ workers' = [workers EXCEPT ![w].queue = Tail(@)]
    /\ Answer({Head(workers[w].queue)}, workers[w].id)
    /\ UNCHANGED <<hardware, watch, inbox, phase, writer, event, tables, readers,
                   todo>>

\* Terminate that leaves unanswered what is still in the channel.
TerminateSilently(w, state) ==
    /\ workers' = [workers EXCEPT ![w].state = state, ![w].queue = <<>>]
    /\ UNCHANGED <<hardware, watch, inbox, phase, writer, event, tables, readers,
                   todo, awaited>>

\* The receiver goes away with every command in it, and with their senders.
Terminate(w, state) ==
    /\ workers' = [workers EXCEPT ![w].state = state, ![w].queue = <<>>]
    /\ Answer(Waiting(w), workers[w].id)
    /\ UNCHANGED <<hardware, watch, inbox, phase, writer, event, tables, readers,
                   todo>>

ServeStop(w) ==
    /\ Up /\ HasWork(w) /\ Head(workers[w].queue) = Stop
    /\ Terminate(w, "stopped")

\* update_speed_batch has set the speed and indexes a fan that the
\* configuration does not list.
PanicOnSpeed(w) ==
    /\ Up /\ HasWork(w) /\ Head(workers[w].queue) \in SpeedClients
    /\ workers[w].attached /\ workers[w].id \in Fragile
    /\ Terminate(w, "panicked")

-----------------------------------------------------------------------------
Next ==
    \/ \E d \in Devices : Plug(d) \/ Unplug(d)
    \/ BuildControllers \/ InitControllers \/ EnterMainLoop
    \/ StartWatching \/ ReceiveUdev
    \/ TakeEvent
    \/ DisconnectNoWorker \/ SendStop \/ StopAnswered
    \/ ConnectFails \/ Connect
    \/ \E c \in Clients :
          \/ BeginBatch(c) \/ EndBatch(c)
          \/ \E id \in Ids : SkipId(c, id) \/ SendCommand(c, id)
    \/ \E w \in DOMAIN workers : Serve(w) \/ ServeStop(w) \/ PanicOnSpeed(w)

Spec == Init /\ [][Next]_vars

\* Every task that can run does run.  Only SendCommand can be overtaken again
\* and again: the senders of a bounded channel queue first in, first out, so
\* strong fairness is what the channel gives.  Devices come and go, batches
\* begin and panics happen as they like.
Fairness ==
    /\ WF_vars(BuildControllers) /\ WF_vars(InitControllers)
    /\ WF_vars(EnterMainLoop) /\ WF_vars(StartWatching) /\ WF_vars(ReceiveUdev)
    /\ WF_vars(TakeEvent)
    /\ WF_vars(DisconnectNoWorker) /\ WF_vars(SendStop) /\ WF_vars(StopAnswered)
    /\ WF_vars(ConnectFails) /\ WF_vars(Connect)
    /\ \A c \in Clients :
          /\ WF_vars(EndBatch(c))
          /\ \A id \in Ids : WF_vars(SkipId(c, id)) /\ SF_vars(SendCommand(c, id))
    /\ \A w \in 1 .. (Cardinality(Ids) + MaxPlugs) :
          /\ WF_vars(w \in DOMAIN workers /\ Serve(w))
          /\ WF_vars(w \in DOMAIN workers /\ ServeStop(w))

FairSpec == Spec /\ Fairness

-----------------------------------------------------------------------------
\* Every variable keeps to its type.
TypeOK ==
    /\ plugged \subseteq Devices /\ plugs \in Nat
    /\ watching \in BOOLEAN
    /\ udev \in Seq(HotplugEvent) /\ inbox \in Seq(HotplugEvent)
    /\ event \in HotplugEvent
    /\ phase \in Phases
    /\ writer \in {"none", "waiting", "stopping"}
    /\ workers \in Seq(Worker)
    /\ mapping \in [Ids -> 0 .. Len(workers)]
    /\ idOf \in [Fingerprint -> Ids \union {NoId}]
    /\ cache \in [Fingerprint -> Ids \union {NoId}]
    /\ readers \subseteq Clients
    /\ todo \in [Clients -> SUBSET Ids] /\ awaited \in [Clients -> SUBSET Ids]

\* While removals are recognised and nothing is plugged during start-up, no
\* device is ever open in two running workers, in whatever order it goes,
\* comes back and has its events handled.
OneDriver ==
    \A v, w \in DOMAIN workers :
        /\ Running(v) /\ workers[v].attached
        /\ Running(w) /\ workers[w].attached
        /\ workers[v].dev = workers[w].dev
        => v = w

\* A client never finds a stopped worker in the table: the coordinator stops
\* it and clears the entry under one write lock.
MappedIsLive ==
    \A id \in Ids : mapping[id] # 0 /\ writer # "stopping"
                        => workers[mapping[id]].state # "stopped"

\* A device that comes back with a fingerprint it was driven under before is
\* driven under the same id: the cache survives the worker, even when the removal
\* was never seen.  A device whose serial number hidapi and udev read differently
\* comes back with another fingerprint, and gets the id of the fallback.
SameIdOnReturn ==
    \A v, w \in DOMAIN workers :
        workers[v].key = workers[w].key => workers[v].id = workers[w].id

\* A worker that is told to stop drops no command: its channel holds nothing
\* but the Stop, because batches hold the read lock until they are answered.
StopDropsNothing ==
    [][\A w \in DOMAIN workers :
          Running(w) /\ workers'[w].state = "stopped"
             => workers[w].queue = <<Stop>>]_workers

\* Every batch ends, and gives the lock back, whatever happens to the devices
\* and workers it addresses; else the coordinator would wait for ever.
BatchesEnd ==
    \A c \in Clients : (c \in readers) ~> (c \notin readers \/ ~Up)

Driven(d) == \E id \in Ids : /\ Running(mapping[id])
                             /\ workers[mapping[id]].attached
                             /\ workers[mapping[id]].dev = d

\* An arrival that reaches the coordinator leads to a worker that drives the
\* device, unless the device goes again or the daemon gives up.
ArrivalsAreDriven ==
    \A d \in Devices :
        (\E i \in DOMAIN inbox : inbox[i].type = "Add" /\ inbox[i].dev = d)
            ~> (Driven(d) \/ d \notin plugged \/ ~Up)

\* drivers/mod.rs:96-98 as stated: failures of the hardware are handled, they
\* do not end the daemon.
HotplugNeverFatal == Up
=============================================================================
