------------------------------ MODULE Lifecycle ------------------------------
(***************************************************************************)
(* The daemon's life: start-up, the coordinator's main loop, shutdown, and *)
(* the unit file that restarts it.                                         *)
(*                                                                         *)
(* The coordinator spawns its services, then waits for Ctrl+C and for      *)
(* events.  A shutdown cancels all tasks, waits ten seconds at most for    *)
(* each and lets go of those that take longer; then it takes the write     *)
(* lock of the controllers and stops their workers.  A shutdown that       *)
(* Ctrl+C asked for ends the process with success, one that the D-Bus      *)
(* method Stop asked for with an error.                                    *)
(*                                                                         *)
(* Of a service only its task is kept: drivers read sensors (or buffers),  *)
(* take the read lock, queue a command for each worker and wait for the    *)
(* answers; the udev task waits for a thread of its own.                   *)
(***************************************************************************)
EXTENDS Naturals, Sequences, FiniteSets

CONSTANTS
    Services,    \* sequence of the tasks, in the order of priority
    Drivers,     \* tasks that send batches: monitoring, transmit
    Blocking,    \* drivers whose sensors are read in a blocking thread
    DBusTask,    \* the task of the D-Bus service
    UdevTask,    \* the task that owns the udev thread
    None,        \* no task
    Workers,     \* controller workers
    Capacity     \* events the bus keeps (1000 in MessageBroker::new)

Tasks == {Services[i] : i \in DOMAIN Services}

ASSUME LifecycleAssumption ==
    /\ Services \in Seq(Tasks)
    /\ Drivers \subseteq Tasks /\ Blocking \subseteq Drivers
    /\ {DBusTask, UdevTask} \subseteq Tasks \ Drivers /\ DBusTask # UdevTask
    /\ \A i, j \in DOMAIN Services : Services[i] = Services[j] => i = j
    /\ None \notin Tasks
    /\ Capacity \in Nat \ {0}

Bus == INSTANCE EventBus

VARIABLES
    phase,      \* how far the coordinator is
    bus,        \* was there a session bus?
    spawned,    \* services looked at by start_all_services
    task,       \* state of each task
    thread,     \* the udev thread
    inbox,      \* the coordinator's receiver of the bus
    stopLost,   \* history: of the events it lost since its last recv, one was Stop
    cause,      \* what asked for the shutdown, or ended the process
    cancelled,  \* the global cancellation token
    handles,    \* join handles not yet drained
    joining,    \* the one being waited for
    detached,   \* tasks whose handle was dropped after ten seconds
    lock,       \* the coordinator and the write lock of the controllers
    awaited,    \* [Drivers -> workers whose answer it waits for]
    worker,     \* state of each worker
    queue       \* commands in its channel, by the task that sent them

tasks == <<task, thread, awaited>>
joins == <<cancelled, handles, joining, detached>>
workers == <<worker, queue>>
events == <<inbox, stopLost>>
vars == <<phase, bus, spawned, events, cause, lock, tasks, joins, workers>>

Phases == {"loading", "initializing", "starting", "looping", "handling",
           "draining", "closing", "leaving", "exited"}
Up == phase # "exited"

\* A new process.
Blank ==
    /\ bus = TRUE /\ spawned = 0 /\ cause = "none"
    /\ inbox = Bus!Closed /\ stopLost = FALSE
    /\ task = [t \in Tasks |-> "absent"] /\ thread = "absent"
    /\ awaited = [t \in Drivers |-> {}]
    /\ cancelled = FALSE /\ handles = {} /\ joining = None /\ detached = {}
    /\ lock = "free"
    /\ worker = [w \in Workers |-> "absent"] /\ queue = [w \in Workers |-> <<>>]

Init == phase = "loading" /\ Blank

\* The process ends, and with it its tasks, threads and workers.
End(why) ==
    /\ phase' = "exited" /\ cause' = why
    /\ task' = [t \in Tasks |-> "absent"] /\ thread' = "absent"
    /\ awaited' = [t \in Drivers |-> {}]
    /\ worker' = [w \in Workers |-> "absent"] /\ queue' = [w \in Workers |-> <<>>]
    /\ inbox' = Bus!Closed /\ stopLost' = FALSE
    /\ lock' = "free" /\ bus' = TRUE /\ spawned' = 0
    /\ cancelled' = FALSE /\ handles' = {} /\ joining' = None /\ detached' = {}

-----------------------------------------------------------------------------
\* Start-up.

LoadConfig ==
    /\ phase = "loading"
    /\ phase' = "initializing"
    /\ UNCHANGED <<bus, spawned, events, cause, lock, tasks, joins, workers>>

\* The controllers are opened, their workers started and sent Init; without a
\* session bus there will be no D-Bus service.
Initialize ==
    /\ phase = "initializing"
    /\ phase' = "starting"
    /\ worker' = [w \in Workers |-> "running"]
    /\ bus' \in BOOLEAN
    /\ UNCHANGED <<spawned, events, cause, lock, tasks, joins, queue>>

\* A file that cannot be read, or controllers that cannot be set up.
StartFails == phase \in {"loading", "initializing"} /\ End("error")

\* start() only spawns: whether the task gets anywhere is not waited for.
StartService ==
    /\ phase = "starting" /\ spawned < Len(Services)
    /\ spawned' = spawned + 1
    /\ LET t == Services[spawned + 1]
       IN IF t = DBusTask /\ ~bus
          THEN UNCHANGED <<task, handles>>
          ELSE /\ task' = [task EXCEPT ![t] = "new"]
               /\ handles' = handles \union {t}
    /\ UNCHANGED <<phase, bus, events, cause, lock, thread, awaited,
                   cancelled, joining, detached, workers>>

\* The receiver of the main loop sees what is published from now on.
Subscribe ==
    /\ phase = "starting" /\ spawned = Len(Services)
    /\ phase' = "looping" /\ inbox' = Bus!Subscribed
    /\ UNCHANGED <<bus, spawned, stopLost, cause, lock, tasks, joins, workers>>

-----------------------------------------------------------------------------
\* The tasks.

MoveTo(t, state) == task' = [task EXCEPT ![t] = state]
TaskOnly ==
    UNCHANGED <<phase, bus, spawned, events, cause, lock, joins>>

\* The task reaches its loop.  The D-Bus task may be refused the bus name,
\* and then ends; nobody looks at it before a shutdown.
TaskRuns(t) ==
    /\ Up /\ task[t] = "new"
    /\ \/ MoveTo(t, "idle")
       \/ t = DBusTask /\ MoveTo(t, "done")
    /\ thread' = IF t = UdevTask THEN "running" ELSE thread
    /\ TaskOnly /\ UNCHANGED <<awaited, workers>>

\* Between two steps the select of the loop takes any branch that is ready:
\* an interval that has elapsed may win over the cancellation.  Once main has
\* returned, the runtime begins no more of them.
BeginTick(t) ==
    /\ Up /\ phase # "leaving" /\ t \in Drivers /\ task[t] = "idle"
    /\ MoveTo(t, IF t \in Blocking THEN "reading" ELSE "locking")
    /\ TaskOnly /\ UNCHANGED <<thread, awaited, workers>>

EndReading(t) ==
    /\ Up /\ task[t] = "reading"
    /\ MoveTo(t, "locking")
    /\ TaskOnly /\ UNCHANGED <<thread, awaited, workers>>

\* Holding the read lock, one command to each worker.  The lock is fair: no
\* reader passes a writer that waits.
Send(t) ==
    /\ Up /\ task[t] = "locking" /\ lock = "free"
    /\ MoveTo(t, "sending")
    /\ LET running == {w \in Workers : worker[w] = "running"}
       IN /\ awaited' = [awaited EXCEPT ![t] = running]
          /\ queue' = [w \in Workers |->
                          IF w \in running THEN Append(queue[w], t) ELSE queue[w]]
    /\ TaskOnly /\ UNCHANGED <<thread, worker>>

\* All workers have answered: the read lock is released.
EndTick(t) ==
    /\ Up /\ task[t] = "sending" /\ awaited[t] = {}
    /\ MoveTo(t, "idle")
    /\ TaskOnly /\ UNCHANGED <<thread, awaited, workers>>

\* The loop sees the cancellation; the udev task first joins its thread.
TaskEnds(t) ==
    /\ Up /\ cancelled /\ task[t] = "idle"
    /\ MoveTo(t, IF t = UdevTask THEN "joining" ELSE "done")
    /\ TaskOnly /\ UNCHANGED <<thread, awaited, workers>>

\* The udev thread sees the cancellation, or fails to set up its monitor.
ThreadEnds ==
    /\ Up /\ thread = "running"
    /\ thread' = "ended"
    /\ TaskOnly /\ UNCHANGED <<task, awaited, workers>>

\* With its channel closed, the udev task gives up too.
UdevJoins ==
    /\ Up /\ thread = "ended" /\ task[UdevTask] \in {"idle", "joining"}
    /\ MoveTo(UdevTask, "done")
    /\ TaskOnly /\ UNCHANGED <<thread, awaited, workers>>

\* A worker carries out a command and answers it.
Serve(w) ==
    /\ Up /\ worker[w] = "running" /\ queue[w] # <<>>
    /\ queue' = [queue EXCEPT ![w] = Tail(@)]
    /\ awaited' = [awaited EXCEPT ![Head(queue[w])] = @ \ {w}]
    /\ TaskOnly /\ UNCHANGED <<task, thread, worker>>

-----------------------------------------------------------------------------
\* The main loop.

Stop == Bus!Notice("SystemShutdown")
Other == Bus!Notice("Other")

\* Who publishes is never held up: when the receiver is full, its oldest event
\* goes.  The D-Bus method Stop is served as soon as the object is there, even
\* if the name was refused.  Nobody keeps what is published before the
\* coordinator subscribes; what comes during a shutdown is never received.
Publish(event) ==
    /\ inbox.open
    /\ event = Stop => task[DBusTask] \in {"idle", "done"}
    /\ inbox' = Bus!Deliver(inbox, event)
    /\ stopLost' = (stopLost \/ (Bus!Full(inbox) /\ Head(inbox.queue) = Stop))
    /\ UNCHANGED <<phase, bus, spawned, cause, lock, tasks, joins, workers>>

\* The receiver is of no use any more.
Deaf == inbox' = Bus!Closed /\ stopLost' = FALSE

\* cancel() and drain(): the handles leave the map in no particular order.
StartDraining(why) ==
    /\ phase' = "draining" /\ cause' = why
    /\ Deaf /\ cancelled' = TRUE
    /\ UNCHANGED <<bus, spawned, lock, handles, joining, detached,
                   tasks, workers>>

\* recv() reports a loss before it returns the events that are left.
Receives == phase = "looping" /\ Bus!Readable(inbox)

\* Lagged is only logged.
NoticeLag ==
    /\ Receives /\ inbox.lagged
    /\ inbox' = Bus!AfterRecv(inbox) /\ stopLost' = FALSE
    /\ UNCHANGED <<phase, bus, spawned, cause, lock, tasks, joins, workers>>

HandleStop ==
    /\ Receives /\ Bus!NextEvent(inbox) = Stop
    /\ StartDraining("stop")

\* Mutant: what else is in the receiver is thrown away.
HandleEventDraining ==
    /\ Receives /\ ~inbox.lagged /\ Bus!NextEvent(inbox) # Stop
    /\ inbox' = Bus!Subscribed
    /\ phase' = "handling"
    /\ UNCHANGED <<bus, spawned, stopLost, cause, lock, tasks, joins, workers>>

\* Any other event, until its handler returns.
HandleEvent ==
    /\ Receives /\ ~inbox.lagged /\ Bus!NextEvent(inbox) # Stop
    /\ inbox' = Bus!AfterRecv(inbox)
    /\ phase' = "handling"
    /\ UNCHANGED <<bus, spawned, stopLost, cause, lock, tasks, joins, workers>>

Handled ==
    /\ phase = "handling"
    /\ phase' = "looping"
    /\ UNCHANGED <<bus, spawned, events, cause, lock, tasks, joins, workers>>

\* The error of a handler leaves the main loop, without any shutdown.
HandlerFails ==
    /\ phase = "handling"
    /\ phase' = "leaving" /\ cause' = "error"
    /\ Deaf
    /\ UNCHANGED <<bus, spawned, lock, tasks, joins, workers>>

\* Mutant: Ctrl+C leaves the main loop without a shutdown.
CtrlCLeaving ==
    \/ phase \in {"loading", "initializing", "starting"} /\ End("signal")
    \/ /\ phase = "looping" /\ phase' = "leaving" /\ cause' = "ctrl_c" /\ Deaf
       /\ UNCHANGED <<bus, spawned, lock, tasks, joins, workers>>

\* SIGINT.  Before the loop first waits it has its default action; later it
\* is noticed by the future that the loop is waiting on, and lost when the
\* loop is in a handler or in a shutdown, where there is no such future.
CtrlC ==
    \/ phase \in {"loading", "initializing", "starting"} /\ End("signal")
    \/ phase = "looping" /\ StartDraining("ctrl_c")

-----------------------------------------------------------------------------
\* Shutdown.

Join(t) ==
    /\ phase = "draining" /\ joining = None /\ t \in handles
    /\ joining' = t /\ handles' = handles \ {t}
    /\ UNCHANGED <<phase, bus, spawned, events, cause, lock, tasks,
                   cancelled, detached, workers>>

Joined ==
    /\ phase = "draining" /\ joining # None /\ task[joining] = "done"
    /\ joining' = None
    /\ UNCHANGED <<phase, bus, spawned, events, cause, lock, tasks,
                   cancelled, handles, detached, workers>>

\* Mutant: the timer of one join goes off after it.
JoinTimesOutLate ==
    /\ phase = "draining" /\ handles # {}
    /\ joining' = None /\ detached' = detached \union {joining}
    /\ UNCHANGED <<phase, bus, spawned, events, cause, lock, tasks,
                   cancelled, handles, workers>>

\* Ten seconds.  The handle is dropped and the task runs on.
JoinTimesOut ==
    /\ phase = "draining" /\ joining # None /\ task[joining] # "done"
    /\ joining' = None /\ detached' = detached \union {joining}
    /\ UNCHANGED <<phase, bus, spawned, events, cause, lock, tasks,
                   cancelled, handles, workers>>

\* Mutant: the tasks are cancelled and not waited for.
DrainedAtOnce ==
    /\ phase = "draining"
    /\ phase' = "closing" /\ lock' = "waiting"
    /\ UNCHANGED <<bus, spawned, events, cause, tasks, joins, workers>>

Drained ==
    /\ phase = "draining" /\ joining = None /\ handles = {}
    /\ phase' = "closing" /\ lock' = "waiting"
    /\ UNCHANGED <<bus, spawned, events, cause, tasks, joins, workers>>

Readers == {t \in Drivers : task[t] = "sending"}

\* Mutant: the workers are told to stop without the lock.
TakeLockAtOnce ==
    /\ phase = "closing" /\ lock = "waiting"
    /\ lock' = "held"
    /\ UNCHANGED <<phase, bus, spawned, events, cause, tasks, joins, workers>>

\* With the write lock, the workers are told to stop.
TakeLock ==
    /\ phase = "closing" /\ lock = "waiting" /\ Readers = {}
    /\ lock' = "held"
    /\ UNCHANGED <<phase, bus, spawned, events, cause, tasks, joins, workers>>

\* Mutant: the signal is only looked at when a command has arrived.
WorkerStopsOnCommand(w) ==
    /\ Up /\ lock = "held" /\ worker[w] = "running" /\ queue[w] # <<>>
    /\ worker' = [worker EXCEPT ![w] = "stopped"]
    /\ queue' = [queue EXCEPT ![w] = <<>>]
    /\ awaited' = [t \in Drivers |-> awaited[t] \ {w}]
    /\ TaskOnly /\ UNCHANGED <<task, thread>>

\* A worker notices between two commands.  What is in its channel is dropped,
\* and whoever waits for an answer gets an error.
WorkerStops(w) ==
    /\ Up /\ lock = "held" /\ worker[w] = "running"
    /\ worker' = [worker EXCEPT ![w] = "stopped"]
    /\ queue' = [queue EXCEPT ![w] = <<>>]
    /\ awaited' = [t \in Drivers |-> awaited[t] \ {w}]
    /\ TaskOnly /\ UNCHANGED <<task, thread>>

Closed ==
    /\ phase = "closing" /\ lock = "held"
    /\ \A w \in Workers : worker[w] = "stopped"
    /\ phase' = "leaving" /\ lock' = "free"
    /\ UNCHANGED <<bus, spawned, events, cause, tasks, joins, workers>>

\* run_main_loop returns Ok after Ctrl+C, an error otherwise.  The runtime then
\* waits for the blocking calls under way, however long they take.
Leave ==
    /\ phase = "leaving" /\ \A t \in Blocking : task[t] # "reading"
    /\ End(cause)

-----------------------------------------------------------------------------
\* SIGTERM, which the daemon does not handle, and systemd, which restarts it
\* on failure: an error that main returns is one, a signal to end is none.
\* RestartSec keeps the restarts below systemd's limit on their rate.

Kill == Up /\ End("signal")

Failures == {"error", "stop"}

Restart ==
    /\ phase = "exited" /\ cause \in Failures
    /\ phase' = "loading" /\ cause' = "none"
    /\ UNCHANGED <<bus, spawned, events, lock, tasks, joins, workers>>

Startup == LoadConfig \/ Initialize \/ StartService \/ Subscribe
Loop == NoticeLag \/ HandleStop \/ HandleEvent \/ Handled \/ HandlerFails
Shutdown == (\E t \in Tasks : Join(t)) \/ Joined \/ Drained \/ TakeLock \/ Closed \/ Leave

Next ==
    \/ Startup \/ StartFails
    \/ \E t \in Tasks : TaskRuns(t) \/ TaskEnds(t)
    \/ \E t \in Drivers : BeginTick(t) \/ EndReading(t) \/ Send(t) \/ EndTick(t)
    \/ ThreadEnds \/ UdevJoins
    \/ \E w \in Workers : Serve(w) \/ WorkerStops(w)
    \/ \E event \in {Stop, Other} : Publish(event)
    \/ Loop \/ CtrlC \/ Shutdown \/ JoinTimesOut
    \/ Kill \/ Restart

Spec == Init /\ [][Next]_vars

\* Every thread of the runtime is scheduled, reads and commands return, and
\* systemd restarts.  A select that finds the cancellation or the stop signal
\* ready again and again takes that branch at some time.
FairSpec ==
    /\ Spec
    /\ WF_vars(Startup) /\ WF_vars(Loop) /\ WF_vars(Shutdown) /\ WF_vars(JoinTimesOut)
    /\ \A t \in Tasks : WF_vars(TaskRuns(t)) /\ SF_vars(TaskEnds(t))
    /\ \A t \in Drivers : WF_vars(EndReading(t) \/ Send(t) \/ EndTick(t))
    /\ WF_vars(cancelled /\ ThreadEnds) /\ WF_vars(UdevJoins)
    /\ \A w \in Workers : WF_vars(Serve(w)) /\ SF_vars(WorkerStops(w))
    /\ WF_vars(Restart)

-----------------------------------------------------------------------------
\* The type invariant of the process.
TypeOK ==
    /\ phase \in Phases /\ bus \in BOOLEAN
    /\ spawned \in 0 .. Len(Services)
    /\ task \in [Tasks -> {"absent", "new", "idle", "reading", "locking",
                           "sending", "joining", "done"}]
    /\ thread \in {"absent", "running", "ended"}
    /\ inbox \in Bus!Inbox /\ Len(inbox.queue) <= Capacity /\ stopLost \in BOOLEAN
    /\ cause \in {"none", "ctrl_c", "stop", "error", "signal"}
    /\ cancelled \in BOOLEAN /\ handles \subseteq Tasks /\ detached \subseteq Tasks
    /\ joining \in Tasks \union {None}
    /\ lock \in {"free", "waiting", "held"}
    /\ awaited \in [Drivers -> SUBSET Workers]
    /\ worker \in [Workers -> {"absent", "running", "stopped"}]
    /\ queue \in [Workers -> Seq(Drivers)]

\* Workers outlive the tasks that drive them: once one has been stopped, each
\* task has ended, or was let go after its ten seconds (shutdown,
\* coordinator.rs:458, with shutdown_all, task_manager.rs:71).
WorkersOutliveTasks ==
    (\E w \in Workers : worker[w] = "stopped") =>
        \A t \in Tasks \ detached : task[t] \in {"absent", "done"}

\* No shutdown throws away a command: even with tasks that were let go and
\* run on, a worker that is told to stop has nothing left to carry out
\* (ControllerWorkerManager::shutdown, worker_manager.rs:251).
ShutdownDropsNothing ==
    [][\A w \in Workers : worker[w] = "running" /\ worker'[w] = "stopped" =>
          queue[w] = <<>> /\ \A t \in Drivers : w \notin awaited[t]]_vars

\* A shutdown comes to its end whatever the tasks, the udev thread and the
\* workers are doing when it begins.
ShutdownEnds == phase = "draining" ~> phase = "exited"

\* A Stop that the coordinator's receiver has got ends the process, whatever
\* events are before it and however its handlers end, unless so many follow it
\* while a handler waits that the bus overwrites it (event.rs:280).
StopIsObeyed ==
    (\E i \in DOMAIN inbox.queue : inbox.queue[i] = Stop) ~> phase = "exited" \/ stopLost

\* The process only ends with success after an orderly shutdown: nothing that
\* it started and still waits for is left running.
SuccessIsOrderly ==
    [][phase' = "exited" /\ cause' = "ctrl_c" /\ Up =>
          /\ \A w \in Workers : worker[w] = "stopped"
          /\ \A t \in Tasks \ detached : task[t] \in {"absent", "done"}
          /\ thread = "running" => UdevTask \in detached]_vars

\* README.md:305 says "# Stop daemon gracefully" of riingctl stop, and
\* dbus_interface.rs:45 "Initiates a graceful shutdown of the daemon."
StaysStopped == [][phase = "exited" /\ cause = "stop" => phase' = "exited"]_vars
=============================================================================
