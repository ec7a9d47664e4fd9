-------------------------- MODULE Lifecycle_proofs --------------------------
(***************************************************************************)
(* Proofs about Lifecycle, for any services, drivers and workers: no       *)
(* worker stops before the tasks have ended or been let go, no command is  *)
(* dropped, and success means an orderly end.                              *)
(***************************************************************************)
EXTENDS Lifecycle, TLAPS

\* Every task that has not ended is waited for, will be, or was let go.
Accounted ==
    \A t \in Tasks : \/ task[t] \in {"absent", "done"}
                     \/ t \in handles \/ t \in detached \/ t = joining

\* A service that start-up has not come to has no task.
Fresh == \A i \in DOMAIN Services : i > spawned => task[Services[i]] = "absent"

\* The udev thread is that of a task which has not ended.
ThreadOwned == thread = "running" => task[UdevTask] \in {"idle", "joining"}

\* The coordinator asks for the lock when no join is left, and no task is
\* spawned after that; who stops a worker has the lock or has had it.
Ordered ==
    /\ lock # "free" => phase = "closing"
    /\ phase = "closing" => lock # "free"
    /\ phase \in {"closing", "leaving"} /\ cause # "error" => handles = {} /\ joining = None
    /\ \A w \in Workers : worker[w] = "stopped" =>
          /\ phase \in {"closing", "leaving"} /\ cause # "error"
    /\ phase = "leaving" /\ cause # "error" => \A w \in Workers : worker[w] = "stopped"
    /\ phase = "closing" => cause # "error"
    /\ phase = "draining" => cause # "error"

\* A driver that waits for answers holds the read lock, and the coordinator
\* does not have the write lock.
Exclusive ==
    /\ \A t \in Drivers : awaited[t] # {} => task[t] = "sending"
    /\ lock = "held" => Readers = {}

\* What is in a channel is waited for, and there once.
Waited ==
    \A w \in Workers :
        /\ \A i \in DOMAIN queue[w] : w \in awaited[queue[w][i]]
        /\ \A i, j \in DOMAIN queue[w] : queue[w][i] = queue[w][j] => i = j

IInv == TypeOK /\ Accounted /\ Fresh /\ ThreadOwned /\ Ordered /\ Exclusive /\ Waited

-----------------------------------------------------------------------------
\* Types.

States == {"absent", "new", "idle", "reading", "locking", "sending", "joining", "done"}

\* What the coordinator's receiver can be: of its type, and never too full.
InboxTyped(box) == box \in Bus!Inbox /\ Len(box.queue) <= Capacity

\* A receiver keeps its type whatever it gets and whatever is read from it.
LEMMA InboxSteps ==
  /\ InboxTyped(Bus!Closed) /\ InboxTyped(Bus!Subscribed)
  /\ \A box : InboxTyped(box) /\ Bus!Readable(box) => InboxTyped(Bus!AfterRecv(box))
  /\ \A box : InboxTyped(box) /\ box.open =>
        InboxTyped(Bus!Deliver(box, Stop)) /\ InboxTyped(Bus!Deliver(box, Other))
<1> USE LifecycleAssumption DEF InboxTyped, Bus!Inbox
<1>1. InboxTyped(Bus!Closed) /\ InboxTyped(Bus!Subscribed)
  BY DEF Bus!Closed, Bus!Subscribed
<1>2. ASSUME NEW box, InboxTyped(box), Bus!Readable(box) PROVE InboxTyped(Bus!AfterRecv(box))
  <2>1. CASE box.lagged
    BY <1>2, <2>1 DEF Bus!AfterRecv
  <2>2. CASE ~box.lagged
    <3>1. box.queue \in Seq(Bus!Event) /\ box.queue # <<>>
      BY <1>2, <2>2 DEF Bus!Readable
    <3>2. Tail(box.queue) \in Seq(Bus!Event) /\ Len(Tail(box.queue)) = Len(box.queue) - 1
      BY <3>1
    <3> QED
      BY <1>2, <2>2, <3>2 DEF Bus!AfterRecv
  <2> QED
    BY <2>1, <2>2
<1>3. ASSUME NEW box, InboxTyped(box), box.open, NEW e \in Bus!Event
      PROVE  InboxTyped(Bus!Deliver(box, e))
  <2>1. box.queue \in Seq(Bus!Event) /\ Len(box.queue) \in Nat
    BY <1>3
  <2>2. CASE Bus!Full(box)
    <3>1. box.queue # <<>>
      BY <2>1, <2>2 DEF Bus!Full
    <3>2. Tail(box.queue) \in Seq(Bus!Event) /\ Len(Tail(box.queue)) = Len(box.queue) - 1
      BY <2>1, <3>1
    <3>3. /\ Append(Tail(box.queue), e) \in Seq(Bus!Event)
          /\ Len(Append(Tail(box.queue), e)) = Len(box.queue)
      BY <2>1, <3>2
    <3> QED
      BY <1>3, <2>2, <3>3 DEF Bus!Deliver
  <2>3. CASE ~Bus!Full(box)
    <3>1. /\ Append(box.queue, e) \in Seq(Bus!Event)
          /\ Len(Append(box.queue, e)) = Len(box.queue) + 1
      BY <2>1
    <3> QED
      BY <1>3, <2>1, <2>3, <3>1 DEF Bus!Deliver, Bus!Full
  <2> QED
    BY <2>2, <2>3
<1>4. Stop \in Bus!Event /\ Other \in Bus!Event
  BY DEF Stop, Other, Bus!Notice, Bus!Event, Bus!EventType
<1> QED
  BY <1>1, <1>2, <1>3, <1>4

\* A process that has ended, or has not begun, keeps the types.
LEMMA EndTyped ==
  ASSUME NEW why \in {"none", "ctrl_c", "stop", "error", "signal"}, End(why)
  PROVE  TypeOK'
<1>1. bus' \in BOOLEAN /\ cancelled' \in BOOLEAN /\ stopLost' \in BOOLEAN
  BY Zenon DEF End
<1>2. InboxTyped(inbox')
  BY InboxSteps DEF End
<1>3. worker' \in [Workers -> {"absent", "running", "stopped"}] /\ queue' \in [Workers -> Seq(Drivers)]
  BY DEF End
<1>4. awaited' \in [Drivers -> SUBSET Workers] /\ task' \in [Tasks -> States]
  BY DEF End, States
<1>5. spawned' \in 0 .. Len(Services)
  BY LifecycleAssumption DEF End
<1> QED
  BY <1>1, <1>2, <1>3, <1>4, <1>5 DEF End, TypeOK, Phases, States, InboxTyped

\* The process starts with every variable in its type.
LEMMA TypedInit == Init => TypeOK
<1> SUFFICES ASSUME Init PROVE TypeOK
  OBVIOUS
<1>1. bus \in BOOLEAN /\ cancelled \in BOOLEAN /\ stopLost \in BOOLEAN
  BY Zenon DEF Init, Blank
<1>2. InboxTyped(inbox)
  BY InboxSteps DEF Init, Blank
<1>3. worker \in [Workers -> {"absent", "running", "stopped"}] /\ queue \in [Workers -> Seq(Drivers)]
  BY DEF Init, Blank
<1>4. awaited \in [Drivers -> SUBSET Workers] /\ task \in [Tasks -> States]
  BY DEF Init, Blank, States
<1>5. spawned \in 0 .. Len(Services)
  BY LifecycleAssumption DEF Init, Blank
<1> QED
  BY <1>1, <1>2, <1>3, <1>4, <1>5 DEF Init, Blank, TypeOK, Phases, States, InboxTyped

\* A task moves from one state to another.
LEMMA MoveTyped ==
  ASSUME TypeOK, NEW t \in Tasks, NEW state \in States, MoveTo(t, state), TaskOnly,
         thread' \in {"absent", "running", "ended"},
         awaited' \in [Drivers -> SUBSET Workers],
         queue' \in [Workers -> Seq(Drivers)], worker' = worker
  PROVE  TypeOK'
  BY DEF TypeOK, MoveTo, TaskOnly, events, joins, States

\* Every step of start-up keeps the types.
LEMMA StartupTyped == TypeOK /\ (Startup \/ StartFails \/ Kill \/ Restart) => TypeOK'
<1> SUFFICES ASSUME TypeOK, Startup \/ StartFails \/ Kill \/ Restart PROVE TypeOK'
  OBVIOUS
<1>1. CASE LoadConfig
  BY <1>1 DEF LoadConfig, TypeOK, Phases, tasks, events, joins, workers
<1>2. CASE Initialize
  BY <1>2 DEF Initialize, TypeOK, Phases, tasks, events, joins
<1>3. CASE StartService
  <2>1. Services[spawned + 1] \in Tasks /\ spawned + 1 \in 0 .. Len(Services)
    BY <1>3, LifecycleAssumption DEF StartService, TypeOK
  <2> QED
    BY <1>3, <2>1 DEF StartService, TypeOK, events, workers
<1>4. CASE Subscribe
  BY <1>4, InboxSteps DEF Subscribe, TypeOK, InboxTyped, Phases, tasks, events, joins, workers
<1>5. CASE StartFails \/ Kill
  BY <1>5, EndTyped DEF StartFails, Kill
<1>6. CASE Restart
  BY <1>6 DEF Restart, TypeOK, Phases, tasks, events, joins, workers
<1> QED
  BY <1>1, <1>2, <1>3, <1>4, <1>5, <1>6 DEF Startup

\* Every step of a task, of the udev thread and of a worker keeps them.
LEMMA TasksTyped ==
  ASSUME TypeOK,
         \/ \E t \in Tasks : TaskRuns(t) \/ TaskEnds(t)
         \/ \E t \in Drivers : BeginTick(t) \/ EndReading(t) \/ Send(t) \/ EndTick(t)
         \/ ThreadEnds \/ UdevJoins
         \/ \E w \in Workers : Serve(w) \/ WorkerStops(w)
  PROVE  TypeOK'
<1>1. ASSUME NEW t \in Tasks, TaskRuns(t) PROVE TypeOK'
  BY <1>1, MoveTyped DEF TaskRuns, States, TypeOK, workers
<1>2. ASSUME NEW t \in Tasks, TaskEnds(t) PROVE TypeOK'
  BY <1>2, MoveTyped DEF TaskEnds, States, TypeOK, workers
<1>3. ASSUME NEW t \in Drivers, BeginTick(t) \/ EndReading(t) \/ EndTick(t) PROVE TypeOK'
  BY <1>3, MoveTyped, LifecycleAssumption
     DEF BeginTick, EndReading, EndTick, States, TypeOK, workers
<1>4. ASSUME NEW t \in Drivers, Send(t) PROVE TypeOK'
  <2>1. t \in Tasks /\ MoveTo(t, "sending") /\ TaskOnly /\ thread' = thread /\ worker' = worker
    BY <1>4, LifecycleAssumption DEF Send
  <2>2. awaited' \in [Drivers -> SUBSET Workers]
    BY <1>4 DEF Send, TypeOK
  <2>3. \A w \in Workers : queue[w] \in Seq(Drivers) /\ Append(queue[w], t) \in Seq(Drivers)
    BY DEF TypeOK
  <2>4. queue' \in [Workers -> Seq(Drivers)]
    BY <1>4, <2>3 DEF Send
  <2> QED
    BY <2>1, <2>2, <2>4, MoveTyped DEF States, TypeOK
<1>5. CASE ThreadEnds
  BY <1>5 DEF ThreadEnds, TaskOnly, TypeOK, events, joins, workers
<1>6. CASE UdevJoins
  BY <1>6, MoveTyped, LifecycleAssumption DEF UdevJoins, States, TypeOK, workers
<1>7. ASSUME NEW w \in Workers, Serve(w) PROVE TypeOK'
  <2>1. Head(queue[w]) \in Drivers /\ Tail(queue[w]) \in Seq(Drivers)
    BY <1>7 DEF Serve, TypeOK
  <2> QED
    BY <1>7, <2>1 DEF Serve, TaskOnly, TypeOK, events, joins
<1>8. ASSUME NEW w \in Workers, WorkerStops(w) PROVE TypeOK'
  BY <1>8 DEF WorkerStops, TaskOnly, TypeOK, events, joins
<1> QED
  BY <1>1, <1>2, <1>3, <1>4, <1>5, <1>6, <1>7, <1>8

\* Every step of the main loop and of a shutdown keeps them.
LEMMA CoordinatorTyped ==
  ASSUME TypeOK,
         (\E event \in {Stop, Other} : Publish(event))
            \/ Loop \/ CtrlC \/ Shutdown \/ JoinTimesOut
  PROVE  TypeOK'
<1> USE DEF events, tasks, events, joins, workers
<1>1. ASSUME NEW event \in {Stop, Other}, Publish(event) PROVE TypeOK'
  <2>1. InboxTyped(inbox')
    BY <1>1, InboxSteps DEF Publish, TypeOK, InboxTyped
  <2>2. stopLost' \in BOOLEAN
    BY <1>1, Zenon DEF Publish
  <2> QED
    BY <1>1, <2>1, <2>2 DEF Publish, TypeOK, InboxTyped
<1>2. ASSUME NEW why \in {"stop", "ctrl_c"}, StartDraining(why) PROVE TypeOK'
  <2>1. cancelled' \in BOOLEAN /\ stopLost' \in BOOLEAN
    BY <1>2, Zenon DEF StartDraining, Deaf
  <2>2. InboxTyped(inbox')
    BY <1>2, InboxSteps DEF StartDraining, Deaf
  <2> QED
    BY <1>2, <2>1, <2>2 DEF StartDraining, TypeOK, InboxTyped, Phases
<1>3. CASE NoticeLag \/ HandleEvent
  <2>1. InboxTyped(inbox')
    BY <1>3, InboxSteps DEF NoticeLag, HandleEvent, Receives, TypeOK, InboxTyped
  <2>2. stopLost' \in BOOLEAN
    BY <1>3, Zenon DEF NoticeLag, HandleEvent, TypeOK
  <2> QED
    BY <1>3, <2>1, <2>2 DEF NoticeLag, HandleEvent, TypeOK, InboxTyped, Phases
<1>4. CASE Handled \/ HandlerFails
  <2>1. CASE Handled
    BY <2>1 DEF Handled, TypeOK, Phases
  <2>2. CASE HandlerFails
    <3>1. InboxTyped(inbox') /\ stopLost' \in BOOLEAN
      BY <2>2, InboxSteps, Zenon DEF HandlerFails, Deaf
    <3> QED
      BY <2>2, <3>1 DEF HandlerFails, TypeOK, InboxTyped, Phases
  <2> QED
    BY <1>4, <2>1, <2>2
<1>5. CASE CtrlC
  <2>1. End("signal") => TypeOK'
    BY EndTyped
  <2>2. StartDraining("ctrl_c") => TypeOK'
    BY <1>2
  <2> QED
    BY <1>5, <2>1, <2>2, Zenon DEF CtrlC
<1>6. ASSUME NEW t \in Tasks, Join(t) PROVE TypeOK'
  BY <1>6 DEF Join, TypeOK
<1>7. CASE Joined
  BY <1>7 DEF Joined, TypeOK
<1>8. CASE JoinTimesOut
  BY <1>8 DEF JoinTimesOut, TypeOK
<1>9. CASE Drained \/ TakeLock \/ Closed
  BY <1>9 DEF Drained, TakeLock, Closed, TypeOK, Phases
<1>10. CASE Leave
  BY <1>10, EndTyped DEF Leave, TypeOK
<1> QED
  BY <1>1, <1>2, <1>3, <1>4, <1>5, <1>6, <1>7, <1>8, <1>9, <1>10
     DEF Loop, Shutdown, HandleStop

\* Every step keeps the types.
LEMMA TypedStep == TypeOK /\ [Next]_vars => TypeOK'
<1>1. ASSUME TypeOK, UNCHANGED vars PROVE TypeOK'
  BY <1>1 DEF vars, tasks, events, joins, workers, TypeOK
<1> QED
  BY <1>1, StartupTyped, TasksTyped, CoordinatorTyped DEF Next

\* The process keeps its types.
THEOREM TypeCorrect == Spec => []TypeOK
  BY TypedInit, TypedStep, PTL DEF Spec

-----------------------------------------------------------------------------
\* Tasks, handles and the udev thread.

\* A step of the coordinator alone, as the tasks and their handles see it.
Quiet == UNCHANGED <<task, thread, awaited, queue, spawned, handles, joining, detached>>

\* A step of a task: it is neither absent nor done before.
TaskStep(t) ==
    /\ task[t] \notin {"absent", "done"}
    /\ \E state \in States \ {"absent"} : MoveTo(t, state)
    /\ UNCHANGED <<phase, spawned, handles, joining, detached>>

\* What a step can be.
LEMMA Cases ==
  ASSUME TypeOK, Next
  PROVE  \/ Quiet \/ (\E why \in {"none", "ctrl_c", "stop", "error", "signal"} : End(why))
         \/ StartService \/ (\E t \in Tasks : TaskRuns(t) \/ TaskEnds(t))
         \/ (\E t \in Drivers : BeginTick(t) \/ EndReading(t) \/ Send(t) \/ EndTick(t))
         \/ ThreadEnds \/ UdevJoins \/ (\E w \in Workers : Serve(w) \/ WorkerStops(w))
         \/ (\E t \in Tasks : Join(t)) \/ Joined \/ JoinTimesOut
<1> USE DEF Quiet, events, tasks, events, joins, workers
<1>1. CASE Startup \/ Restart
  BY <1>1 DEF Startup, LoadConfig, Initialize, Subscribe, Restart
<1>2. CASE StartFails \/ Kill
  BY <1>2 DEF StartFails, Kill
<1>3. CASE \E event \in {Stop, Other} : Publish(event)
  BY <1>3 DEF Publish
<1>4. CASE Loop
  BY <1>4 DEF Loop, NoticeLag, HandleStop, StartDraining, HandleEvent, Handled, HandlerFails
<1>5. CASE CtrlC
  BY <1>5 DEF CtrlC, StartDraining
<1>6. CASE Drained \/ TakeLock \/ Closed
  BY <1>6 DEF Drained, TakeLock, Closed
<1>7. CASE Leave
  BY <1>7 DEF Leave, TypeOK
<1> QED
  BY <1>1, <1>2, <1>3, <1>4, <1>5, <1>6, <1>7 DEF Next, Shutdown

\* Each step of a task is a TaskStep.
LEMMA TaskSteps ==
  /\ \A t \in Tasks : TaskRuns(t) \/ TaskEnds(t) => TaskStep(t)
  /\ \A t \in Drivers : BeginTick(t) \/ EndReading(t) \/ Send(t) \/ EndTick(t) => TaskStep(t)
  /\ TypeOK /\ UdevJoins => TaskStep(UdevTask)
<1> USE DEF TaskStep, TaskOnly, events, joins, States
<1>1. ASSUME NEW t \in Tasks, TaskRuns(t) \/ TaskEnds(t) PROVE TaskStep(t)
  BY <1>1 DEF TaskRuns, TaskEnds
<1>2. ASSUME NEW t \in Drivers, BeginTick(t) \/ EndReading(t) \/ Send(t) \/ EndTick(t) PROVE TaskStep(t)
  BY <1>2 DEF BeginTick, EndReading, Send, EndTick
<1>3. ASSUME UdevJoins PROVE TaskStep(UdevTask)
  BY <1>3 DEF UdevJoins
<1> QED
  BY <1>1, <1>2, <1>3

\* Tasks that run stay accounted for.
LEMMA AccountedStep == TypeOK /\ Accounted /\ Next => Accounted'
<1> SUFFICES ASSUME TypeOK, Accounted, Next PROVE Accounted'
  OBVIOUS
<1>1. CASE Quiet
  BY <1>1 DEF Quiet, Accounted
<1>2. ASSUME NEW why, End(why) PROVE Accounted'
  BY <1>2 DEF End, Accounted
<1>3. CASE StartService
  BY <1>3 DEF StartService, Accounted, TypeOK
<1>4. ASSUME NEW t \in Tasks, TaskStep(t) PROVE Accounted'
  BY <1>4 DEF TaskStep, MoveTo, Accounted, TypeOK
<1>5. CASE ThreadEnds \/ \E w \in Workers : Serve(w) \/ WorkerStops(w)
  BY <1>5 DEF ThreadEnds, Serve, WorkerStops, TaskOnly, events, joins, Accounted
<1>6. ASSUME NEW t \in Tasks, Join(t) PROVE Accounted'
  BY <1>6, LifecycleAssumption DEF Join, Accounted, tasks
<1>7. CASE Joined \/ JoinTimesOut
  BY <1>7, LifecycleAssumption DEF Joined, JoinTimesOut, Accounted, tasks
<1> QED
  BY <1>1, <1>2, <1>3, <1>4, <1>5, <1>6, <1>7, Cases, TaskSteps, LifecycleAssumption

\* A task appears when start-up comes to its service, and not before.
LEMMA FreshStep == TypeOK /\ Fresh /\ Next => Fresh'
<1> SUFFICES ASSUME TypeOK, Fresh, Next PROVE Fresh'
  OBVIOUS
<1> USE DEF Fresh, Tasks
<1>1. CASE Quiet
  BY <1>1 DEF Quiet
<1>2. ASSUME NEW why, End(why) PROVE Fresh'
  BY <1>2 DEF End
<1>3. CASE StartService
  <2>1. \A i, j \in DOMAIN Services : Services[i] = Services[j] => i = j
    BY LifecycleAssumption
  <2>2. spawned \in Nat /\ Len(Services) \in Nat /\ DOMAIN Services = 1 .. Len(Services)
    BY LifecycleAssumption DEF TypeOK
  <2>3. ASSUME NEW i \in DOMAIN Services, i > spawned' PROVE task'[Services[i]] = "absent"
    <3>1. spawned' = spawned + 1 /\ spawned + 1 \in DOMAIN Services /\ i # spawned + 1 /\ i > spawned
      BY <1>3, <2>2, <2>3 DEF StartService
    <3>2. Services[i] # Services[spawned + 1]
      BY <3>1, <2>1
    <3>3. task'[Services[i]] = task[Services[i]]
      BY <1>3, <3>2 DEF StartService, TypeOK
    <3> QED
      BY <3>1, <3>3
  <2> QED
    BY <2>3
<1>4. ASSUME NEW t \in Tasks, TaskStep(t) PROVE Fresh'
  BY <1>4 DEF TaskStep, MoveTo, TypeOK
<1>5. CASE ThreadEnds \/ \E w \in Workers : Serve(w) \/ WorkerStops(w)
  BY <1>5 DEF ThreadEnds, Serve, WorkerStops, TaskOnly
<1>6. CASE Joined \/ JoinTimesOut \/ \E t \in Tasks : Join(t)
  BY <1>6 DEF Joined, JoinTimesOut, Join, tasks
<1> QED
  BY <1>1, <1>2, <1>3, <1>4, <1>5, <1>6, Cases, TaskSteps, LifecycleAssumption

\* The udev thread stays that of its task.
LEMMA ThreadStep == TypeOK /\ Fresh /\ ThreadOwned /\ Next => ThreadOwned'
<1> SUFFICES ASSUME TypeOK, Fresh, ThreadOwned, Next PROVE ThreadOwned'
  OBVIOUS
<1> USE LifecycleAssumption DEF ThreadOwned
<1>1. CASE Quiet
  BY <1>1 DEF Quiet
<1>2. ASSUME NEW why, End(why) PROVE ThreadOwned'
  BY <1>2 DEF End
<1>3. CASE StartService
  <2>1. spawned + 1 \in DOMAIN Services /\ spawned + 1 > spawned
    BY <1>3 DEF StartService, TypeOK
  <2>2. task[Services[spawned + 1]] = "absent"
    BY <2>1 DEF Fresh
  <2> QED
    BY <1>3, <2>2 DEF StartService, TypeOK
<1>4. ASSUME NEW t \in Tasks, TaskRuns(t) \/ TaskEnds(t) PROVE ThreadOwned'
  BY <1>4 DEF TaskRuns, TaskEnds, MoveTo, TypeOK
<1>5. ASSUME NEW t \in Drivers, BeginTick(t) \/ EndReading(t) \/ Send(t) \/ EndTick(t) PROVE ThreadOwned'
  BY <1>5 DEF BeginTick, EndReading, Send, EndTick, MoveTo, TypeOK
<1>6. CASE ThreadEnds \/ UdevJoins
  BY <1>6 DEF ThreadEnds, UdevJoins
<1>7. CASE \E w \in Workers : Serve(w) \/ WorkerStops(w)
  BY <1>7 DEF Serve, WorkerStops
<1>8. CASE Joined \/ JoinTimesOut \/ \E t \in Tasks : Join(t)
  BY <1>8 DEF Joined, JoinTimesOut, Join, tasks
<1> QED
  BY <1>1, <1>2, <1>3, <1>4, <1>5, <1>6, <1>7, <1>8, Cases

-----------------------------------------------------------------------------
\* The order of a shutdown.

\* The coordinator takes the lock when it has no handle left, stops the
\* workers under it and leaves when they have stopped.
LEMMA OrderedStep == TypeOK /\ Ordered /\ Next => Ordered'
<1> SUFFICES ASSUME TypeOK, Ordered, Next PROVE Ordered'
  OBVIOUS
<1> USE DEF Ordered
<1>1. ASSUME NEW why, End(why) PROVE Ordered'
  BY <1>1 DEF End
<1>2. CASE LoadConfig \/ StartService \/ Subscribe \/ Restart
  BY <1>2 DEF LoadConfig, StartService, Subscribe, Restart, events, joins, workers
<1>3. CASE Initialize
  BY <1>3 DEF Initialize, events, joins
<1>4. CASE \/ \E t \in Tasks : TaskRuns(t) \/ TaskEnds(t)
           \/ \E t \in Drivers : BeginTick(t) \/ EndReading(t) \/ Send(t) \/ EndTick(t)
           \/ ThreadEnds \/ UdevJoins \/ \E w \in Workers : Serve(w)
  BY <1>4 DEF TaskRuns, TaskEnds, BeginTick, EndReading, Send, EndTick, ThreadEnds,
              UdevJoins, Serve, TaskOnly, joins, workers
<1>5. ASSUME NEW w \in Workers, WorkerStops(w) PROVE Ordered'
  BY <1>5 DEF WorkerStops, TaskOnly, events, joins, TypeOK
<1>6. CASE (\E event \in {Stop, Other} : Publish(event)) \/ NoticeLag \/ HandleEvent \/ Handled \/ HandlerFails
  BY <1>6 DEF Publish, NoticeLag, HandleEvent, Receives, Handled, HandlerFails, events, joins, workers
<1>7. ASSUME NEW why \in {"stop", "ctrl_c"}, phase = "looping", StartDraining(why) PROVE Ordered'
  BY <1>7 DEF StartDraining, Deaf, workers
<1>8. CASE Joined \/ JoinTimesOut \/ \E t \in Tasks : Join(t)
  BY <1>8 DEF Joined, JoinTimesOut, Join, workers
<1>9. CASE Drained \/ TakeLock \/ Closed
  BY <1>9 DEF Drained, TakeLock, Closed, events, joins, workers
<1> QED
  <2>1. CASE StartFails \/ Kill \/ Leave
    BY <1>1, <2>1 DEF StartFails, Kill, Leave
  <2>2. CASE HandleStop
    BY <1>7, <2>2 DEF HandleStop, Receives
  <2>3. CASE CtrlC
    <3>1. End("signal") => Ordered'
      BY <1>1
    <3>2. phase = "looping" /\ StartDraining("ctrl_c") => Ordered'
      BY <1>7
    <3> QED
      BY <2>3, <3>1, <3>2, Zenon DEF CtrlC
  <2> QED
    BY <1>2, <1>3, <1>4, <1>5, <1>6, <1>8, <1>9, <2>1, <2>2, <2>3
       DEF Next, Startup, Loop, Shutdown

-----------------------------------------------------------------------------
\* The read lock, the write lock, and the channels.

\* Who waits for answers has the read lock, and the write lock excludes it.
LEMMA ExclusiveStep == TypeOK /\ Fresh /\ Ordered /\ Exclusive /\ Next => Exclusive'
<1> SUFFICES ASSUME TypeOK, Fresh, Ordered, Exclusive, Next PROVE Exclusive'
  OBVIOUS
<1> USE LifecycleAssumption DEF Exclusive, Readers
<1>1. CASE Quiet
  <2>1. lock' = "held" => lock = "held" \/ Readers = {}
    <3>1. CASE TakeLock
      BY <3>1 DEF TakeLock
    <3>2. CASE ~TakeLock
      BY <1>1, <3>2
         DEF Quiet, Next, Startup, LoadConfig, Initialize, StartService, Subscribe, Restart,
             StartFails, Kill, End, TaskRuns, TaskEnds, BeginTick, EndReading, Send, EndTick,
             ThreadEnds, UdevJoins, Serve, WorkerStops, TaskOnly, Publish, Loop, NoticeLag, HandleStop,
             StartDraining, HandleEvent, Handled, HandlerFails, CtrlC, Shutdown, Join, Joined,
             JoinTimesOut, Drained, Closed, Leave
    <3> QED
      BY <3>1, <3>2
  <2> QED
    BY <1>1, <2>1 DEF Quiet
<1>2. ASSUME NEW why, End(why) PROVE Exclusive'
  BY <1>2 DEF End
<1>3. CASE StartService
  <2>1. spawned + 1 \in DOMAIN Services /\ spawned + 1 > spawned
    BY <1>3 DEF StartService, TypeOK
  <2>2. task[Services[spawned + 1]] = "absent"
    BY <2>1 DEF Fresh
  <2>3. \A t \in Drivers : task[t] = "sending" <=> task'[t] = "sending"
    BY <1>3, <2>2 DEF StartService, TypeOK
  <2> QED
    BY <1>3, <2>3 DEF StartService
<1>4. ASSUME NEW t \in Tasks, TaskRuns(t) \/ TaskEnds(t) PROVE Exclusive'
  <2>1. awaited' = awaited /\ lock' = lock /\ \A d \in Drivers \ {t} : task'[d] = task[d]
    BY <1>4 DEF TaskRuns, TaskEnds, MoveTo, TaskOnly, TypeOK
  <2>2. t \in Drivers => awaited[t] = {} /\ task'[t] # "sending"
    BY <1>4 DEF TaskRuns, TaskEnds, MoveTo, TypeOK
  <2> QED
    BY <2>1, <2>2
<1>5. ASSUME NEW t \in Drivers, BeginTick(t) \/ EndReading(t) \/ EndTick(t) PROVE Exclusive'
  BY <1>5 DEF BeginTick, EndReading, EndTick, MoveTo, TaskOnly, TypeOK
<1>6. ASSUME NEW t \in Drivers, Send(t) PROVE Exclusive'
  BY <1>6 DEF Send, MoveTo, TaskOnly, TypeOK
<1>7. CASE ThreadEnds \/ UdevJoins
  BY <1>7 DEF ThreadEnds, UdevJoins, MoveTo, TaskOnly, TypeOK
<1>8. ASSUME NEW w \in Workers, Serve(w) \/ WorkerStops(w) PROVE Exclusive'
  <2>1. CASE Serve(w)
    <3>1. \A t \in Drivers : awaited'[t] \subseteq awaited[t]
      BY <2>1 DEF Serve, TypeOK
    <3> QED
      BY <2>1, <3>1 DEF Serve, TaskOnly
  <2>2. CASE WorkerStops(w)
    BY <2>2 DEF WorkerStops, TaskOnly
  <2> QED
    BY <1>8, <2>1, <2>2
<1>9. CASE Joined \/ JoinTimesOut \/ \E t \in Tasks : Join(t)
  BY <1>9 DEF Joined, JoinTimesOut, Join, tasks
<1> QED
  BY <1>1, <1>2, <1>3, <1>4, <1>5, <1>6, <1>7, <1>8, <1>9, Cases

\* A command is in a channel exactly once, and its sender waits for it.
LEMMA WaitedStep == TypeOK /\ Exclusive /\ Waited /\ Next => Waited'
<1> SUFFICES ASSUME TypeOK, Exclusive, Waited, Next PROVE Waited'
  OBVIOUS
<1> USE DEF Waited
<1>1. CASE Quiet \/ StartService \/ ThreadEnds \/ UdevJoins
  BY <1>1 DEF Quiet, StartService, ThreadEnds, UdevJoins, workers
<1>2. ASSUME NEW why, End(why) PROVE Waited'
  BY <1>2 DEF End
<1>3. ASSUME NEW t \in Tasks, TaskRuns(t) \/ TaskEnds(t) PROVE Waited'
  BY <1>3 DEF TaskRuns, TaskEnds, workers
<1>4. ASSUME NEW t \in Drivers, BeginTick(t) \/ EndReading(t) \/ EndTick(t) PROVE Waited'
  BY <1>4 DEF BeginTick, EndReading, EndTick, workers
<1>5. ASSUME NEW t \in Drivers, Send(t) PROVE Waited'
  <2>1. awaited[t] = {}
    BY <1>5 DEF Send, Exclusive
  <2>2. \A w \in Workers : \A i \in DOMAIN queue[w] : queue[w][i] \in Drivers \ {t}
    BY <2>1 DEF TypeOK
  <2>3. \A d \in Drivers \ {t} : awaited'[d] = awaited[d]
    BY <1>5 DEF Send, TypeOK
  <2>4. ASSUME NEW w \in Workers, worker[w] # "running" PROVE queue'[w] = queue[w]
    BY <1>5, <2>4 DEF Send
  <2>5. ASSUME NEW w \in Workers, worker[w] = "running"
        PROVE  queue'[w] = Append(queue[w], t) /\ w \in awaited'[t]
    BY <1>5, <2>5 DEF Send, TypeOK
  <2>6. ASSUME NEW w \in Workers
        PROVE  /\ \A i \in DOMAIN queue'[w] : w \in awaited'[queue'[w][i]]
               /\ \A i, j \in DOMAIN queue'[w] : queue'[w][i] = queue'[w][j] => i = j
    <3>1. CASE worker[w] # "running"
      BY <2>2, <2>3, <2>4, <3>1
    <3>2. CASE worker[w] = "running"
      <4>1. queue[w] \in Seq(Drivers)
        BY DEF TypeOK
      <4> DEFINE q == queue[w]
      <4>2. queue'[w] = Append(q, t) /\ w \in awaited'[t]
        BY <2>5, <3>2
      <4>3. \A i \in DOMAIN q : q[i] # t /\ w \in awaited'[q[i]]
        BY <2>2, <2>3
      <4>4. \A i, j \in DOMAIN q : q[i] = q[j] => i = j
        OBVIOUS
      <4>5. DOMAIN Append(q, t) = DOMAIN q \union {Len(q) + 1}
        BY <4>1
      <4>6. Append(q, t)[Len(q) + 1] = t /\ \A i \in DOMAIN q : Append(q, t)[i] = q[i]
        BY <4>1
      <4> HIDE DEF q
      <4> QED
        BY <4>2, <4>3, <4>4, <4>5, <4>6
    <3> QED
      BY <3>1, <3>2
  <2> QED
    BY <2>6
<1>6. ASSUME NEW w \in Workers, Serve(w) PROVE Waited'
  <2> DEFINE d == Head(queue[w])
  <2>1. queue[w] \in Seq(Drivers) /\ queue[w] # <<>>
    BY <1>6 DEF Serve, TypeOK
  <2>2. d = queue[w][1] /\ d \in Drivers
    BY <2>1
  <2>3. queue'[w] = Tail(queue[w]) /\ \A v \in Workers \ {w} : queue'[v] = queue[v]
    BY <1>6 DEF Serve, TypeOK
  <2>4. \A e \in Drivers : awaited'[e] = IF e = d THEN awaited[e] \ {w} ELSE awaited[e]
    BY <1>6, <2>2 DEF Serve, TypeOK
  <2>5. \A i \in DOMAIN Tail(queue[w]) :
          Tail(queue[w])[i] = queue[w][i + 1] /\ i + 1 \in DOMAIN queue[w] /\ i + 1 # 1
    BY <2>1
  <2>6. \A v \in Workers : \A i \in DOMAIN queue[v] : queue[v][i] \in Drivers
    BY DEF TypeOK
  <2>7. ASSUME NEW v \in Workers \ {w}
        PROVE  /\ \A i \in DOMAIN queue'[v] : v \in awaited'[queue'[v][i]]
               /\ \A i, j \in DOMAIN queue'[v] : queue'[v][i] = queue'[v][j] => i = j
    BY <2>3, <2>4, <2>6
  <2>8. \A i \in DOMAIN queue'[w] : w \in awaited'[queue'[w][i]]
    <3>1. \A i \in DOMAIN queue[w] : i # 1 => queue[w][i] # d
      BY <2>1, <2>2
    <3>2. \A i \in DOMAIN queue[w] : i # 1 => w \in awaited'[queue[w][i]]
      BY <3>1, <2>4, <2>6
    <3> HIDE DEF d
    <3> QED
      BY <3>2, <2>3, <2>5
  <2>9. \A i, j \in DOMAIN queue'[w] : queue'[w][i] = queue'[w][j] => i = j
    BY <2>1, <2>3, <2>5
  <2> QED
    BY <2>7, <2>8, <2>9
<1>7. ASSUME NEW w \in Workers, WorkerStops(w) PROVE Waited'
  <2>1. queue'[w] = <<>> /\ \A v \in Workers \ {w} : queue'[v] = queue[v]
    BY <1>7 DEF WorkerStops, TypeOK
  <2>2. \A e \in Drivers : awaited'[e] = awaited[e] \ {w}
    BY <1>7 DEF WorkerStops
  <2>3. \A v \in Workers : \A i \in DOMAIN queue[v] : queue[v][i] \in Drivers
    BY DEF TypeOK
  <2> QED
    BY <2>1, <2>2, <2>3
<1>8. CASE Joined \/ JoinTimesOut \/ \E t \in Tasks : Join(t)
  BY <1>8 DEF Joined, JoinTimesOut, Join, tasks, workers
<1> QED
  BY <1>1, <1>2, <1>3, <1>4, <1>5, <1>6, <1>7, <1>8, Cases

-----------------------------------------------------------------------------
\* The invariant and what follows from it.

\* A new process fulfils the invariant.
LEMMA InvInit == Init => IInv
<1> SUFFICES ASSUME Init PROVE IInv
  OBVIOUS
<1>1. Accounted /\ Fresh /\ ThreadOwned
  BY DEF Init, Blank, Accounted, Fresh, ThreadOwned, Tasks
<1>2. Ordered /\ Exclusive /\ Waited
  BY DEF Init, Blank, Ordered, Exclusive, Waited
<1> QED
  BY <1>1, <1>2, TypedInit DEF IInv

\* Every step keeps the invariant.
LEMMA InvStep == IInv /\ [Next]_vars => IInv'
<1> SUFFICES ASSUME IInv, [Next]_vars PROVE IInv'
  OBVIOUS
<1>1. CASE Next
  BY <1>1, TypedStep, AccountedStep, FreshStep, ThreadStep, OrderedStep, ExclusiveStep,
     WaitedStep DEF IInv
<1>2. CASE UNCHANGED vars
  <2>1. TypeOK'
    BY <1>2, TypedStep DEF IInv
  <2>2. Accounted' /\ Fresh' /\ ThreadOwned'
    BY <1>2 DEF IInv, vars, tasks, events, joins, workers, Accounted, Fresh, ThreadOwned
  <2>3. Ordered' /\ Exclusive' /\ Waited'
    BY <1>2 DEF IInv, vars, tasks, events, joins, workers, Ordered, Exclusive, Readers, Waited
  <2> QED
    BY <2>1, <2>2, <2>3 DEF IInv
<1> QED
  BY <1>1, <1>2

\* The invariant holds in every state.
LEMMA Invariant == Spec => []IInv
  BY InvInit, InvStep, PTL DEF Spec

\* No worker has been stopped while a task runs that was not let go.
THEOREM TasksFirst == Spec => []WorkersOutliveTasks
<1>1. IInv => WorkersOutliveTasks
  BY LifecycleAssumption DEF IInv, Accounted, Ordered, WorkersOutliveTasks
<1> QED
  BY <1>1, Invariant, PTL

\* A worker that is told to stop has nothing left to carry out.
THEOREM NothingDropped == Spec => ShutdownDropsNothing
<1> DEFINE Act == \A w \in Workers : worker[w] = "running" /\ worker'[w] = "stopped" =>
                     queue[w] = <<>> /\ \A t \in Drivers : w \notin awaited[t]
<1>1. IInv /\ Next => Act
  <2> SUFFICES ASSUME IInv, Next, NEW w \in Workers, worker[w] = "running", worker'[w] = "stopped"
               PROVE  queue[w] = <<>> /\ \A t \in Drivers : w \notin awaited[t]
    OBVIOUS
  <2>1. PICK v \in Workers : WorkerStops(v)
    BY DEF Next, Startup, LoadConfig, Initialize, StartService, Subscribe, Restart,
           StartFails, Kill, End, TaskRuns, TaskEnds, BeginTick, EndReading, Send, EndTick,
           ThreadEnds, UdevJoins, Serve, TaskOnly, Publish, Loop, NoticeLag, HandleStop,
           StartDraining, HandleEvent, Handled, HandlerFails, CtrlC, Shutdown, Join, Joined,
           JoinTimesOut, Drained, TakeLock, Closed, Leave, workers
  <2>2. \A t \in Drivers : awaited[t] = {}
    BY <2>1 DEF IInv, Exclusive, Readers, WorkerStops
  <2>3. queue[w] \in Seq(Drivers) /\ \A i \in DOMAIN queue[w] : w \in awaited[queue[w][i]]
    BY DEF IInv, TypeOK, Waited
  <2>4. queue[w] = <<>>
    BY <2>2, <2>3
  <2> QED
    BY <2>2, <2>4
<1>2. IInv /\ [Next]_vars => [Act]_vars
  BY <1>1
<1> QED
  BY <1>2, Invariant, PTL DEF Spec, ShutdownDropsNothing

\* A process that ends with success has ended all that it waited for.
THEOREM OrderlySuccess == Spec => SuccessIsOrderly
<1> DEFINE Act == phase' = "exited" /\ cause' = "ctrl_c" /\ Up =>
                    /\ \A w \in Workers : worker[w] = "stopped"
                    /\ \A t \in Tasks \ detached : task[t] \in {"absent", "done"}
                    /\ thread = "running" => UdevTask \in detached
<1>1. IInv /\ Next => Act
  <2> SUFFICES ASSUME IInv, Next, phase' = "exited", cause' = "ctrl_c", Up
               PROVE  /\ \A w \in Workers : worker[w] = "stopped"
                      /\ \A t \in Tasks \ detached : task[t] \in {"absent", "done"}
                      /\ thread = "running" => UdevTask \in detached
    OBVIOUS
  <2>1. phase = "leaving" /\ cause = "ctrl_c"
    BY DEF Up, Next, Startup, LoadConfig, Initialize, StartService, Subscribe, Restart,
           StartFails, Kill, End, TaskRuns, TaskEnds, BeginTick, EndReading, Send, EndTick,
           ThreadEnds, UdevJoins, Serve, WorkerStops, TaskOnly, Publish, Loop, NoticeLag, HandleStop,
           StartDraining, HandleEvent, Handled, HandlerFails, CtrlC, Shutdown, Join, Joined,
           JoinTimesOut, Drained, TakeLock, Closed, Leave
  <2>2. (\A w \in Workers : worker[w] = "stopped") /\ handles = {} /\ joining = None
    BY <2>1 DEF IInv, Ordered
  <2>3. \A t \in Tasks \ detached : task[t] \in {"absent", "done"}
    BY <2>2, LifecycleAssumption DEF IInv, Accounted
  <2>4. thread = "running" => UdevTask \in detached
    BY <2>3, LifecycleAssumption DEF IInv, ThreadOwned
  <2> QED
    BY <2>2, <2>3, <2>4
<1>2. IInv /\ [Next]_vars => [Act]_vars
  BY <1>1
<1> QED
  BY <1>2, Invariant, PTL DEF Spec, SuccessIsOrderly
=============================================================================
