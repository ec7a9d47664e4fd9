----------------------------- MODULE HotReload -----------------------------
(***************************************************************************)
(* Hot reload of the configuration: the "2PC through MessageBroker" of     *)
(* core/coordinator.rs with everyone who takes part in it.                 *)
(*                                                                         *)
(*   - somebody writes the configuration file;                             *)
(*   - the config watcher (debounced) and D-Bus callers compare the file   *)
(*     with the shared configuration and publish ConfigChangeDetected;     *)
(*   - the coordinator reloads the shared configuration from the file,     *)
(*     sends Prepare to every registered service and, when all answers     *)
(*     are in, publishes Commit or Rollback on the event bus;              *)
(*   - Monitoring and FanColor stage what Prepare finds in the shared      *)
(*     configuration and make the staged value active when they read a     *)
(*     Commit.  Requests and events reach them over two channels, and      *)
(*     tokio::select! takes whichever is ready, in either order.           *)
(*                                                                         *)
(* The content of a configuration is its version (the number of the write  *)
(* that produced it), its hardware section (controllers and sensors) and   *)
(* whether it loads.  Start-up is part of the model: services, watcher     *)
(* and main loop come up in any order, as the spawned tasks do.            *)
(***************************************************************************)
EXTENDS Integers, Sequences, FiniteSets, EventBus

CONSTANTS
    Services,      \* the tasks that register a handler: Monitoring, FanColor
    Clients,       \* concurrent D-Bus callers of ReloadConfig
    Watcher,       \* the config watcher
    Coordinator,   \* the main loop, as a subscriber of the bus
    Hardware,      \* possible contents of the hardware sections
    BootHardware,  \* the one the daemon started with
    Loadable,      \* what a write may leave: TRUE a file that loads, FALSE not
    Fragile,       \* services whose task a loadable configuration can panic
    EarlyChanges,  \* may files and callers act before start-up is complete?
    MaxEdits, MaxCalls, MaxOther   \* bounds: writes, D-Bus calls, other events

Detectors == Clients \union {Watcher}
Subscribers == Services \union {Coordinator}

ASSUME NamesAssumption ==
    /\ Coordinator \notin Services
    /\ Watcher \notin Clients
ASSUME ConfigAssumption ==
    /\ BootHardware \in Hardware
    /\ Loadable \subseteq BOOLEAN
    /\ Fragile \subseteq Services
    /\ EarlyChanges \in BOOLEAN
ASSUME BoundsAssumption == MaxEdits \in Nat /\ MaxCalls \in Nat /\ MaxOther \in Nat

VARIABLES
    file,      \* the configuration file: [ver, hw, ok]
    shared,    \* ConfigManager.config: [ver, hw]
    fsEvents,  \* file system events the watcher has not received
    pending,   \* has_pending_event
    watching,  \* the watcher has established its file system watch
    verdict,   \* [Detectors -> the change type found and not yet published]
    calls,     \* D-Bus calls so far
    others,    \* unrelated events so far
    boxes,     \* [Subscribers -> Inbox]
    phase,     \* where the coordinator is in its main loop
    loaded,    \* what reload() has read and not yet stored: [ver, hw]
    tid,       \* the last transaction id handed out
    handlers,  \* services with a handler in the broker
    status,    \* [Services -> life cycle of the task]
    request,   \* services with an unanswered Prepare in their channel
    asked,     \* services the current Prepare was sent to
    reply,     \* [Services -> outcome of the oneshot channel of that Prepare]
    staged,    \* [Services -> new_mapping / new_runners]
    active,    \* [Services -> mapping_cache / runners]
    committed, \* history: transactions for which Commit was published
    missed,    \* history: services that some Prepare was not sent to
    joined     \* history: services that answered the last Prepare and have
               \* lost no event since

environment == <<file, fsEvents, calls, others>>
detection   == <<pending, watching, verdict>>
coordinator == <<shared, phase, loaded, tid, asked, committed, missed>>
services    == <<handlers, status, request, reply, staged, active, joined>>
vars == <<environment, detection, coordinator, services, boxes>>

Phases == {"starting", "idle", "loaded", "preparing", "exited"}
Statuses == {"spawned", "subscribed", "running", "panicked"}
Verdicts == {"none", "HotReload", "ColdRestart"}
Replies == {"none", "Success", "Error", "dropped"}

Config == [ver : Nat, hw : Hardware]

\* What a service keeps: the version it was built from and the transaction
\* that staged it.  The code stores no transaction id: `tid' is history.
Empty == -1
Stamp == [tid : Nat, ver : Nat \union {Empty}]

BootConfig == [ver |-> 0, hw |-> BootHardware]

-----------------------------------------------------------------------------
\* MonitoringServiceProvider::new and FanColorControlServiceProvider::new:
\* active is built from the configuration, staged is the default, empty one.
Init ==
    /\ file = [ver |-> 0, hw |-> BootHardware, ok |-> TRUE]
    /\ shared = BootConfig
    /\ fsEvents = 0 /\ calls = 0 /\ others = 0
    /\ pending = FALSE /\ watching = FALSE
    /\ verdict = [d \in Detectors |-> "none"]
    /\ boxes = [b \in Subscribers |-> Closed]
    /\ phase = "starting"
    /\ loaded = BootConfig
    /\ tid = 0
    /\ handlers = {}
    /\ status = [s \in Services |-> "spawned"]
    /\ request = {} /\ asked = {}
    /\ reply = [s \in Services |-> "none"]
    /\ staged = [s \in Services |-> [tid |-> 0, ver |-> Empty]]
    /\ active = [s \in Services |-> [tid |-> 0, ver |-> 0]]
    /\ committed = {} /\ missed = {} /\ joined = {}

Up == phase # "exited"

StartedUp ==
    /\ watching
    /\ phase # "starting"
    /\ \A s \in Services : status[s] \in {"running", "panicked"}

MayChange == Up /\ (EarlyChanges \/ StartedUp)

\* Publishing reaches every inbox; who loses an event for it is no longer
\* covered by `joined'.
Publish(e) ==
    /\ boxes' = Notify(boxes, e)
    /\ joined' = joined \ Overrun(boxes)

-----------------------------------------------------------------------------
\* Outside the daemon.

\* An editor replaces the file.  A file that is missing, unreadable, not YAML,
\* of another version or rejected by validate is not ok.
EditFile ==
    /\ MayChange /\ file.ver < MaxEdits
    /\ \E hw \in Hardware, ok \in Loadable :
          file' = [ver |-> file.ver + 1, hw |-> hw, ok |-> ok]
    /\ fsEvents' = IF watching THEN fsEvents + 1 ELSE fsEvents
    /\ UNCHANGED <<calls, others, detection, coordinator, services, boxes>>

\* Any event of the bus that is not about the configuration.
OtherEvent ==
    /\ MayChange /\ others < MaxOther
    /\ others' = others + 1
    /\ Publish(Notice("Other"))
    /\ UNCHANGED <<file, fsEvents, calls, detection, coordinator, handlers,
                   status, request, reply, staged, active>>

-----------------------------------------------------------------------------
\* Detection: run_config_watcher_service and DBusInterface::reload_config.

StartWatching ==
    /\ Up /\ ~watching
    /\ watching' = TRUE
    /\ UNCHANGED <<environment, pending, verdict, coordinator, services, boxes>>

\* ReceiveFsEvent without its guard: an empty channel is taken for an event.
ReceiveFsEventUnguarded ==
    /\ Up /\ verdict[Watcher] = "none"
    /\ fsEvents' = fsEvents - 1
    /\ pending' = TRUE
    /\ UNCHANGED <<file, calls, others, watching, verdict, coordinator,
                   services, boxes>>

ReceiveFsEvent ==
    /\ Up /\ verdict[Watcher] = "none"
    /\ fsEvents > 0
    /\ fsEvents' = fsEvents - 1
    /\ pending' = TRUE
    /\ UNCHANGED <<file, calls, others, watching, verdict, coordinator,
                   services, boxes>>

\* analyze_config_changes: the read lock on the shared configuration is held
\* while the file is read, so the comparison is one step.
ChangeType ==
    CASE ~file.ok             -> "none"
      [] file.hw = shared.hw  -> "HotReload"
      [] OTHER                -> "ColdRestart"

\* DebounceTick that drops the change when a reload is already under way.
DebounceTickDropping ==
    /\ Up /\ verdict[Watcher] = "none"
    /\ pending
    /\ pending' = FALSE
    /\ verdict' = [verdict EXCEPT ![Watcher] =
                      IF phase = "idle" THEN ChangeType ELSE "none"]
    /\ UNCHANGED <<environment, watching, coordinator, services, boxes>>

\* The debounce interval has elapsed.
DebounceTick ==
    /\ Up /\ verdict[Watcher] = "none"
    /\ pending
    /\ pending' = FALSE
    /\ verdict' = [verdict EXCEPT ![Watcher] = ChangeType]
    /\ UNCHANGED <<environment, watching, coordinator, services, boxes>>

CallReload(c) ==
    /\ MayChange /\ calls < MaxCalls
    /\ verdict[c] = "none"
    /\ calls' = calls + 1
    /\ verdict' = [verdict EXCEPT ![c] = ChangeType]
    /\ UNCHANGED <<file, fsEvents, others, pending, watching, coordinator,
                   services, boxes>>

PublishChange(d) ==
    /\ Up /\ verdict[d] # "none"
    /\ verdict' = [verdict EXCEPT ![d] = "none"]
    /\ Publish(Notice(verdict[d]))
    /\ UNCHANGED <<environment, pending, watching, coordinator, handlers,
                   status, request, reply, staged, active>>

-----------------------------------------------------------------------------
\* The coordinator: run_main_loop, handle_event, handle_hot_reload.

\* run_main_loop subscribes after start_all_services has spawned every task.
EnterMainLoop ==
    /\ phase = "starting"
    /\ phase' = "idle"
    /\ boxes' = [boxes EXCEPT ![Coordinator] = Subscribed]
    /\ UNCHANGED <<environment, detection, shared, loaded, tid, asked,
                   committed, missed, services>>

Received(b, type) == Readable(boxes[b]) /\ NextEvent(boxes[b]).type = type

TakeEvent(b) == boxes' = [boxes EXCEPT ![b] = AfterRecv(boxes[b])]

\* Events the coordinator only logs, its own Commit among them.
IgnoreEvent ==
    /\ phase = "idle"
    /\ Readable(boxes[Coordinator])
    /\ NextEvent(boxes[Coordinator]).type # "HotReload"
    /\ TakeEvent(Coordinator)
    /\ UNCHANGED <<environment, detection, coordinator, services>>

\* ConfigManager::reload, first half: the file is read and parsed.  Failing
\* here makes handle_event, run_main_loop and the process return the error.
ReadConfig ==
    /\ phase = "idle"
    /\ Received(Coordinator, "HotReload")
    /\ TakeEvent(Coordinator)
    /\ IF file.ok
       THEN /\ phase' = "loaded"
            /\ loaded' = [ver |-> file.ver, hw |-> file.hw]
       ELSE /\ phase' = "exited"
            /\ UNCHANGED loaded
    /\ UNCHANGED <<environment, detection, shared, tid, asked, committed,
                   missed, services>>

\* Prepare that takes every registered handler for a live task.
PrepareTrusting ==
    /\ phase = "loaded"
    /\ phase' = "preparing"
    /\ shared' = loaded
    /\ tid' = tid + 1
    /\ asked' = handlers
    /\ request' = {s \in handlers : status[s] = "running"}
    /\ reply' = [s \in Services |-> "none"]
    /\ missed' = missed \union (Services \ handlers)
    /\ joined' = {}
    /\ UNCHANGED <<environment, detection, loaded, committed, handlers, status,
                   staged, active, boxes>>

\* Second half of reload, then phase 1: a transaction id, and a Prepare for
\* every target that has a handler at this moment.  A request to a task that
\* is gone cannot be delivered.
Prepare ==
    /\ phase = "loaded"
    /\ phase' = "preparing"
    /\ shared' = loaded
    /\ tid' = tid + 1
    /\ asked' = handlers
    /\ request' = {s \in handlers : status[s] = "running"}
    /\ reply' = [s \in Services |->
                    IF s \in handlers /\ status[s] = "panicked"
                    THEN "dropped" ELSE "none"]
    /\ missed' = missed \union (Services \ handlers)
    /\ joined' = {}
    /\ UNCHANGED <<environment, detection, loaded, committed, handlers, status,
                   staged, active, boxes>>

\* execute_multiple waits for every oneshot and keeps the answers it got:
\* a dropped one is left out of the responses.
Responses == {s \in asked : reply[s] \in {"Success", "Error"}}
Failures  == {s \in Responses : reply[s] # "Success"}

\* Decide that counts the answers it has without waiting for the others.
DecideEarly ==
    /\ phase = "preparing"
    /\ Publish(Commit(tid))
    /\ committed' = committed \union {tid}
    /\ phase' = "idle"
    /\ UNCHANGED <<environment, detection, shared, loaded, tid, asked, missed,
                   handlers, status, request, reply, staged, active>>

\* Phase 2.  The bus always has a subscriber, the coordinator itself.  After a
\* rollback the handler returns an error, which ends the main loop.
Decide ==
    /\ phase = "preparing"
    /\ \A s \in asked : reply[s] # "none"
    /\ IF Failures = {}
       THEN /\ Publish(Commit(tid))
            /\ committed' = committed \union {tid}
            /\ phase' = "idle"
       ELSE /\ Publish(Rollback(tid))
            /\ phase' = "exited"
            /\ UNCHANGED committed
    /\ UNCHANGED <<environment, detection, shared, loaded, tid, asked, missed,
                   handlers, status, request, reply, staged, active>>

-----------------------------------------------------------------------------
\* A service task: run_monitoring_service, run_calculate_colors_service.

Subscribe(s) ==
    /\ Up /\ status[s] = "spawned"
    /\ status' = [status EXCEPT ![s] = "subscribed"]
    /\ boxes' = [boxes EXCEPT ![s] = Subscribed]
    /\ UNCHANGED <<environment, detection, coordinator, handlers, request,
                   reply, staged, active, joined>>

RegisterHandler(s) ==
    /\ Up /\ status[s] = "subscribed"
    /\ status' = [status EXCEPT ![s] = "running"]
    /\ handlers' = handlers \union {s}
    /\ UNCHANGED <<environment, detection, coordinator, request, reply, staged,
                   active, joined, boxes>>

\* handle_event: stage what the shared configuration says now.  Both services
\* answer Success on every path.
HandlePrepare(s) ==
    /\ Up /\ s \in request
    /\ staged' = [staged EXCEPT ![s] = [tid |-> tid, ver |-> shared.ver]]
    /\ request' = request \ {s}
    /\ reply' = [reply EXCEPT ![s] = "Success"]
    /\ joined' = joined \union {s}
    /\ UNCHANGED <<environment, detection, coordinator, handlers, status,
                   active, boxes>>

\* HandleNotify that swaps the two caches instead of copying the staged one.
HandleNotifySwapping(s) ==
    /\ Up /\ status[s] = "running"
    /\ Readable(boxes[s])
    /\ IF Received(s, "Commit")
       THEN /\ active' = [active EXCEPT ![s] = staged[s]]
            /\ staged' = [staged EXCEPT ![s] = active[s]]
       ELSE UNCHANGED <<active, staged>>
    /\ TakeEvent(s)
    /\ UNCHANGED <<environment, detection, coordinator, handlers, status,
                   request, reply, joined>>

\* handle_notify: Commit makes the staged value active, whatever transaction
\* the event names; Rollback and all others change nothing.
HandleNotify(s) ==
    /\ Up /\ status[s] = "running"
    /\ Readable(boxes[s])
    /\ active' = IF Received(s, "Commit")
                 THEN [active EXCEPT ![s] = staged[s]] ELSE active
    /\ TakeEvent(s)
    /\ UNCHANGED <<environment, detection, coordinator, handlers, status,
                   request, reply, staged, joined>>

\* A tick panics the task (a NaN control point, cfg.rs:296).  Its receivers and
\* the request it has not answered are dropped; the broker keeps its handler.
Panic(s) ==
    /\ Up /\ s \in Fragile /\ status[s] = "running"
    /\ status' = [status EXCEPT ![s] = "panicked"]
    /\ boxes' = [boxes EXCEPT ![s] = Closed]
    /\ request' = request \ {s}
    /\ reply' = IF s \in request THEN [reply EXCEPT ![s] = "dropped"] ELSE reply
    /\ joined' = joined \ {s}
    /\ UNCHANGED <<environment, detection, coordinator, handlers, staged, active>>

-----------------------------------------------------------------------------
Next ==
    \/ EditFile \/ OtherEvent
    \/ StartWatching \/ ReceiveFsEvent \/ DebounceTick
    \/ \E c \in Clients : CallReload(c)
    \/ \E d \in Detectors : PublishChange(d)
    \/ EnterMainLoop \/ IgnoreEvent \/ ReadConfig \/ Prepare \/ Decide
    \/ \E s \in Services :
          \/ Subscribe(s) \/ RegisterHandler(s)
          \/ HandlePrepare(s) \/ HandleNotify(s) \/ Panic(s)

Spec == Init /\ [][Next]_vars

\* Every task that can run does run (the tokio scheduler), and a branch of a
\* select! that stays ready is taken in the end, because select! starts its
\* polling at a random branch.  Writers, callers and panics owe nothing.
Fairness ==
    /\ WF_vars(StartWatching) /\ WF_vars(ReceiveFsEvent) /\ WF_vars(DebounceTick)
    /\ \A d \in Detectors : WF_vars(PublishChange(d))
    /\ WF_vars(EnterMainLoop) /\ WF_vars(IgnoreEvent) /\ WF_vars(ReadConfig)
    /\ WF_vars(Prepare) /\ WF_vars(Decide)
    /\ \A s \in Services :
          /\ WF_vars(Subscribe(s)) /\ WF_vars(RegisterHandler(s))
          /\ WF_vars(HandlePrepare(s)) /\ WF_vars(HandleNotify(s))

FairSpec == Spec /\ Fairness

-----------------------------------------------------------------------------
\* Every variable keeps to its type (and the ghost ids to theirs).
TypeOK ==
    /\ file \in [ver : Nat, hw : Hardware, ok : BOOLEAN]
    /\ shared \in Config /\ loaded \in Config
    /\ fsEvents \in Nat /\ calls \in Nat /\ others \in Nat
    /\ pending \in BOOLEAN /\ watching \in BOOLEAN
    /\ verdict \in [Detectors -> Verdicts]
    /\ boxes \in [Subscribers -> Inbox]
    /\ phase \in Phases
    /\ tid \in Nat
    /\ committed \subseteq Nat
    /\ handlers \subseteq Services /\ request \subseteq Services
    /\ asked \subseteq Services /\ joined \subseteq Services
    /\ missed \subseteq Services
    /\ status \in [Services -> Statuses]
    /\ reply \in [Services -> Replies]
    /\ staged \in [Services -> Stamp]
    /\ active \in [Services -> Stamp]

\* Between reloads, a service that answered the last Prepare and has lost no
\* event since runs the shared configuration as soon as it has read every
\* Commit sent to it, in whatever order it took requests and events.
DrainedRunsShared ==
    phase \in {"idle", "loaded"} =>
        \A s \in joined : ~HasCommit(boxes[s]) => active[s].ver = shared.ver

\* No service goes back to an older configuration: Commits of different
\* transactions, delayed, overtaken or lost, never restore one.
NeverOlder ==
    [][\A s \in Services :
          Empty \notin {active[s].ver, active'[s].ver}
             => active'[s].ver >= active[s].ver]_active

\* A service runs on the default, empty cache that it holds before its first
\* Prepare, with no curve and no effect in it, only if a Prepare left it out
\* because it had not registered yet; coordinator.rs:361-362 means to send
\* Prepare "to all services" before any of them sees a Commit.  No other order of
\* start-up, changes, panics, requests and events leads there.
EmptyOnlyUnasked == \A s \in Services : active[s].ver = Empty => s \in missed

\* The coordinator is never stuck in phase 1: a task that panics drops its
\* oneshot sender, and that ends the wait for it.
CoordinatorReturns == (phase = "preparing") ~> (phase # "preparing")

\* Every write of the file that stays hot-reloadable reaches every service,
\* unless a later write overtakes it.
EditReachesServices ==
    \A v \in 1 .. MaxEdits :
        (file.ver = v) ~> (\A s \in Services : active[s].ver >= v)

\* While nothing changes before start-up is complete, hot reload implements
\* ConfigRollout: what a service runs is published, and only moves forward.
Rollout == INSTANCE ConfigRollout WITH
              published <- shared.ver, running <- [s \in Services |-> active[s].ver]
ImplementsRollout == Rollout!Spec

\* coordinator.rs:361-362 as stated: a service acts on a transaction only when
\* the coordinator has decided to commit it.
AdoptsOnlyCommitted == \A s \in Services : active[s].tid \in committed \union {0}
=============================================================================
