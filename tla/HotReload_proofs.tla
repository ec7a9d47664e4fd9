-------------------------- MODULE HotReload_proofs --------------------------
(***************************************************************************)
(* Proofs about HotReload for any number of services, callers, writes and  *)
(* events, any bus capacity, with writes during start-up and with panics.  *)
(***************************************************************************)
EXTENDS HotReload, TLAPS

-----------------------------------------------------------------------------
(* The event bus. *)

\* An inbox stays an inbox when an event is delivered to it.
LEMMA DeliverType ==
  ASSUME NEW box \in Inbox, NEW e \in Event
  PROVE  Deliver(box, e) \in Inbox
  <1>1. CASE ~box.open
    BY <1>1 DEF Deliver
  <1>2. CASE box.open /\ Full(box)
    <2>1. box.queue # <<>>
      BY <1>2, CapacityAssumption DEF Full, Inbox
    <2>2. Append(Tail(box.queue), e) \in Seq(Event)
      BY <2>1 DEF Inbox
    <2> QED
      BY <1>2, <2>2 DEF Deliver, Inbox
  <1>3. CASE box.open /\ ~Full(box)
    BY <1>3 DEF Deliver, Inbox
  <1> QED
    BY <1>1, <1>2, <1>3 DEF Inbox

\* Publishing keeps every inbox an inbox.
LEMMA NotifyType ==
  ASSUME boxes \in [Subscribers -> Inbox], NEW e \in Event
  PROVE  Notify(boxes, e) \in [Subscribers -> Inbox]
  BY DeliverType DEF Notify

\* Receiving keeps an inbox an inbox.
LEMMA AfterRecvType ==
  ASSUME NEW box \in Inbox, Readable(box)
  PROVE  AfterRecv(box) \in Inbox
  <1>1. CASE box.lagged
    BY <1>1 DEF AfterRecv, Inbox
  <1>2. CASE ~box.lagged
    <2>1. box.queue \in Seq(Event) /\ box.queue # <<>>
      BY <1>2 DEF Readable, Inbox
    <2>2. Tail(box.queue) \in Seq(Event)
      BY <2>1
    <2> QED
      BY <1>2, <2>2 DEF AfterRecv, Inbox
  <1> QED
    BY <1>1, <1>2

\* Every notice, Commit and Rollback the tasks publish is an event.
LEMMA EventTypes ==
  /\ \A type \in {"HotReload", "ColdRestart", "Other"} : Notice(type) \in Event
  /\ \A t \in Nat : Commit(t) \in Event /\ Rollback(t) \in Event
  BY DEF Notice, Commit, Rollback, Event, EventType

\* Neither delivering to an inbox nor receiving from it opens or closes it.
LEMMA OpenKept ==
  ASSUME NEW box \in Inbox, NEW e \in Event
  PROVE  Deliver(box, e).open = box.open /\ AfterRecv(box).open = box.open
  BY DEF Deliver, AfterRecv, Inbox

\* An inbox with room keeps the Commit it has when an event is delivered.
LEMMA DeliverKeepsCommit ==
  ASSUME NEW box \in Inbox, NEW e \in Event, ~(box.open /\ Full(box)),
         HasCommit(box)
  PROVE  HasCommit(Deliver(box, e))
  <1>1. CASE ~box.open
    BY <1>1 DEF Deliver
  <1>2. CASE box.open
    <2>1. PICK i \in 1 .. Len(box.queue) : box.queue[i].type = "Commit"
      BY DEF HasCommit
    <2>2. Deliver(box, e).queue = Append(box.queue, e)
      BY <1>2 DEF Deliver, Inbox
    <2>3. i \in 1 .. Len(Append(box.queue, e)) /\ Append(box.queue, e)[i] = box.queue[i]
      BY <2>1 DEF Inbox
    <2> QED
      BY <2>1, <2>2, <2>3 DEF HasCommit
  <1> QED
    BY <1>1, <1>2 DEF Inbox

\* An open inbox has a Commit once one is delivered, full or not.
LEMMA DeliverCommit ==
  ASSUME NEW box \in Inbox, NEW t \in Nat, box.open
  PROVE  HasCommit(Deliver(box, Commit(t)))
  <1> DEFINE e == Commit(t)
             rest == IF Full(box) THEN Tail(box.queue) ELSE box.queue
  <1>1. Deliver(box, e).queue = Append(rest, e)
    BY DEF Deliver, Inbox
  <1>2. Full(box) => box.queue # <<>>
    BY CapacityAssumption DEF Full, Inbox
  <1>3. rest \in Seq(Event)
    BY <1>2 DEF Inbox
  <1>4. /\ Len(Append(rest, e)) \in 1 .. Len(Append(rest, e))
        /\ Append(rest, e)[Len(Append(rest, e))] = e
    BY <1>3, EventTypes
  <1>5. e.type = "Commit"
    BY DEF Commit
  <1> QED
    BY <1>1, <1>4, <1>5 DEF HasCommit

\* Receiving anything but a Commit leaves the Commit where it is.
LEMMA RecvKeepsCommit ==
  ASSUME NEW box \in Inbox, Readable(box), HasCommit(box),
         NextEvent(box).type # "Commit"
  PROVE  HasCommit(AfterRecv(box))
  <1>1. PICK i \in 1 .. Len(box.queue) : box.queue[i].type = "Commit"
    BY DEF HasCommit
  <1>2. CASE box.lagged
    BY <1>2 DEF AfterRecv, HasCommit, Inbox
  <1>3. CASE ~box.lagged
    <2>1. box.queue \in Seq(Event) /\ box.queue # <<>>
      BY <1>3 DEF Readable, Inbox
    <2>2. i # 1
      BY <1>1, <1>3, <2>1 DEF NextEvent
    <2>3. /\ i - 1 \in 1 .. Len(Tail(box.queue))
          /\ Tail(box.queue)[i - 1] = box.queue[i]
      BY <1>1, <2>1, <2>2
    <2>4. AfterRecv(box).queue = Tail(box.queue)
      BY <1>3 DEF AfterRecv, Inbox
    <2> QED
      BY <1>1, <2>3, <2>4 DEF HasCommit
  <1> QED
    BY <1>2, <1>3

-----------------------------------------------------------------------------
(* Type correctness. *)

\* The daemon starts in a well-typed state.
LEMMA InitTyped == Init => TypeOK
  <1> SUFFICES ASSUME Init PROVE TypeOK
    OBVIOUS
  <1>1. boxes \in [Subscribers -> Inbox]
    BY DEF Init, Closed, Inbox
  <1> QED
    BY <1>1, ConfigAssumption DEF Init, TypeOK, Config, Stamp, Empty, BootConfig,
       Phases, Statuses, Verdicts, Replies

\* Every reachable state of every instance has the types TypeOK gives: no
\* counter goes below zero, no inbox holds anything but events, and every
\* service, detector and subscriber keeps its entry.
THEOREM TypeCorrect == Spec => []TypeOK
  <1> USE DEF Config, Stamp, Empty, BootConfig, Phases, Statuses, Verdicts,
              Replies, Subscribers, Detectors
  <1>1. Init => TypeOK
    BY InitTyped
  <1>2. TypeOK /\ [Next]_vars => TypeOK'
    <2> SUFFICES ASSUME TypeOK, [Next]_vars PROVE TypeOK'
      OBVIOUS
    <2> USE DEF TypeOK, environment, detection, coordinator, services
    <2>1. CASE EditFile
      BY <2>1, ConfigAssumption DEF EditFile
    <2>2. CASE OtherEvent
      BY <2>2, NotifyType, EventTypes DEF OtherEvent, Publish
    <2>3. CASE StartWatching
      BY <2>3 DEF StartWatching
    <2>4. CASE ReceiveFsEvent
      BY <2>4 DEF ReceiveFsEvent
    <2>5. CASE DebounceTick
      BY <2>5 DEF DebounceTick, ChangeType
    <2>6. ASSUME NEW c \in Clients, CallReload(c) PROVE TypeOK'
      BY <2>6 DEF CallReload, ChangeType
    <2>7. ASSUME NEW d \in Detectors, PublishChange(d) PROVE TypeOK'
      <3>1. Notice(verdict[d]) \in Event
        BY <2>7, EventTypes DEF PublishChange
      <3> QED
        BY <2>7, <3>1, NotifyType DEF PublishChange, Publish
    <2>8. CASE EnterMainLoop
      <3>1. Subscribed \in Inbox
        BY DEF Subscribed, Inbox
      <3> QED
        BY <2>8, <3>1 DEF EnterMainLoop
    <2>9. CASE IgnoreEvent
      BY <2>9, AfterRecvType DEF IgnoreEvent, TakeEvent
    <2>10. CASE ReadConfig
      BY <2>10, AfterRecvType DEF ReadConfig, TakeEvent, Received
    <2>11. CASE Prepare
      BY <2>11 DEF Prepare
    <2>12. CASE Decide
      <3>1. Commit(tid) \in Event /\ Rollback(tid) \in Event
        BY EventTypes
      <3>2. \A e \in Event : Notify(boxes, e) \in [Subscribers -> Inbox]
        BY NotifyType
      <3>3. boxes' \in [Subscribers -> Inbox] /\ joined' \subseteq Services
        BY <2>12, <3>1, <3>2 DEF Decide, Publish
      <3> QED
        BY <2>12, <3>3 DEF Decide
    <2>13. ASSUME NEW s \in Services, Subscribe(s) PROVE TypeOK'
      BY <2>13 DEF Subscribe, Subscribed, Inbox
    <2>14. ASSUME NEW s \in Services, RegisterHandler(s) PROVE TypeOK'
      BY <2>14 DEF RegisterHandler
    <2>15. ASSUME NEW s \in Services, HandlePrepare(s) PROVE TypeOK'
      BY <2>15 DEF HandlePrepare
    <2>16. ASSUME NEW s \in Services, HandleNotify(s) PROVE TypeOK'
      BY <2>16, AfterRecvType DEF HandleNotify, TakeEvent
    <2>17. ASSUME NEW s \in Services, Panic(s) PROVE TypeOK'
      BY <2>17 DEF Panic, Closed, Inbox
    <2>18. CASE UNCHANGED vars
      BY <2>18 DEF vars
    <2> QED
      BY <2>1, <2>2, <2>3, <2>4, <2>5, <2>6, <2>7, <2>8, <2>9, <2>10, <2>11,
         <2>12, <2>13, <2>14, <2>15, <2>16, <2>17, <2>18 DEF Next
  <1> QED
    BY <1>1, <1>2, PTL DEF Spec

-----------------------------------------------------------------------------
(* What survives every interleaving of requests and events.

   DrainedRunsShared is not inductive: it says nothing of a service that still
   has a Commit to read.  IInv says what that Commit will do, whom the
   coordinator still waits for, and that versions only flow one way: from the
   file to loaded, shared, staged and active. *)

\* A Prepare that is not answered belongs to the phase 1 that is under way, and
\* there was none before the main loop.
Outstanding ==
    /\ phase = "starting" => joined = {}
    /\ \A s \in request :
          /\ phase = "preparing" /\ status[s] = "running"
          /\ s \in asked /\ reply[s] = "none"

\* A live task has a receiver, and only live tasks are in joined.
Receiving ==
    /\ \A s \in Services : status[s] \in {"subscribed", "running"} => boxes[s].open
    /\ \A s \in joined : status[s] = "running"

\* Versions grow from active towards the file.
VersionsFlow ==
    /\ shared.ver =< loaded.ver /\ loaded.ver =< file.ver
    /\ \A s \in Services :
          /\ staged[s].ver =< shared.ver /\ active[s].ver =< shared.ver
          /\ staged[s].ver # Empty => active[s].ver =< staged[s].ver

\* Whoever is in joined has staged the shared configuration, and once phase 1
\* is over it has made it active or has the Commit that will.
JoinedIsCurrent ==
    \A s \in joined :
        /\ staged[s] = [tid |-> tid, ver |-> shared.ver]
        /\ phase \in {"idle", "loaded"} =>
              active[s] = staged[s] \/ HasCommit(boxes[s])

IInv == TypeOK /\ Outstanding /\ Receiving /\ VersionsFlow /\ JoinedIsCurrent

\* Publishing any event keeps receivers open and, for those who lose nothing,
\* the Commit they have not read.
LEMMA PublishKeeps ==
  ASSUME TypeOK, NEW e \in Event, Publish(e)
  PROVE  /\ \A s \in Services : boxes'[s].open = boxes[s].open
         /\ joined' \subseteq joined
         /\ \A s \in joined' : HasCommit(boxes[s]) => HasCommit(boxes'[s])
  <1> USE DEF TypeOK, Subscribers
  <1>1. \A s \in Services : boxes[s] \in Inbox /\ boxes'[s] = Deliver(boxes[s], e)
    BY DEF Publish, Notify
  <1>2. \A s \in joined' : s \in Services /\ ~(boxes[s].open /\ Full(boxes[s]))
    BY DEF Publish, Overrun
  <1>3. joined' \subseteq joined
    BY DEF Publish
  <1> QED
    BY <1>1, <1>2, <1>3, OpenKept, DeliverKeepsCommit

\* Taking an event from one inbox leaves the others alone and closes none.
LEMMA TakeKeeps ==
  ASSUME TypeOK, NEW b \in Subscribers, Readable(boxes[b]), TakeEvent(b)
  PROVE  /\ \A s \in Services : boxes'[s].open = boxes[s].open
         /\ \A s \in Services \ {b} : boxes'[s] = boxes[s]
         /\ HasCommit(boxes[b]) /\ NextEvent(boxes[b]).type # "Commit"
              => HasCommit(boxes'[b])
  <1> USE DEF TypeOK, Subscribers, TakeEvent
  <1>1. boxes'[b] = AfterRecv(boxes[b]) /\ boxes[b] \in Inbox
    OBVIOUS
  <1>2. \A s \in Services \ {b} : boxes'[s] = boxes[s]
    OBVIOUS
  <1>3. boxes'[b].open = boxes[b].open
    BY <1>1 DEF AfterRecv, Inbox
  <1>4. HasCommit(boxes[b]) /\ NextEvent(boxes[b]).type # "Commit"
              => HasCommit(boxes'[b])
    BY <1>1, RecvKeepsCommit
  <1> QED
    BY <1>1, <1>2, <1>3, <1>4

\* The inductive step for everything but the types.
LEMMA Step ==
  ASSUME IInv, TypeOK', [Next]_vars
  PROVE  Outstanding' /\ Receiving' /\ VersionsFlow' /\ JoinedIsCurrent'
  <1> USE DEF IInv, Outstanding, Receiving, VersionsFlow, JoinedIsCurrent,
              environment, detection, coordinator, services
  <1>1. CASE EditFile
    BY <1>1 DEF EditFile, TypeOK, Config
  <1>2. ASSUME NEW e \in Event, Publish(e), UNCHANGED <<file, coordinator,
               handlers, status, request, reply, staged, active>>
        PROVE  Outstanding' /\ Receiving' /\ VersionsFlow' /\ JoinedIsCurrent'
    BY <1>2, PublishKeeps DEF TypeOK
  <1>3. CASE OtherEvent
    BY <1>2, <1>3, EventTypes DEF OtherEvent
  <1>4. ASSUME NEW d \in Detectors, PublishChange(d)
        PROVE  Outstanding' /\ Receiving' /\ VersionsFlow' /\ JoinedIsCurrent'
    <2>1. Notice(verdict[d]) \in Event
      BY <1>4, EventTypes DEF PublishChange, TypeOK, Verdicts
    <2> QED
      BY <1>2, <1>4, <2>1 DEF PublishChange
  <1>5. CASE StartWatching \/ ReceiveFsEvent \/ DebounceTick
    BY <1>5 DEF StartWatching, ReceiveFsEvent, DebounceTick
  <1>6. ASSUME NEW c \in Clients, CallReload(c)
        PROVE  Outstanding' /\ Receiving' /\ VersionsFlow' /\ JoinedIsCurrent'
    BY <1>6 DEF CallReload
  <1>7. CASE EnterMainLoop
    BY <1>7, NamesAssumption DEF EnterMainLoop, TypeOK, Subscribers
  <1>8. CASE IgnoreEvent
    <2>1. TypeOK /\ TakeEvent(Coordinator) /\ Readable(boxes[Coordinator])
      BY <1>8 DEF IgnoreEvent
    <2>2. \A s \in Services : boxes'[s] = boxes[s]
      BY <2>1, TakeKeeps, NamesAssumption DEF Subscribers
    <2>3. joined \subseteq Services /\ joined' = joined
      BY <1>8 DEF IgnoreEvent, TypeOK
    <2> QED
      BY <1>8, <2>2, <2>3 DEF IgnoreEvent
  <1>9. CASE ReadConfig
    <2>1. TypeOK /\ TakeEvent(Coordinator) /\ Readable(boxes[Coordinator])
      BY <1>9 DEF ReadConfig, Received
    <2>2. \A s \in Services : boxes'[s] = boxes[s]
      BY <2>1, TakeKeeps, NamesAssumption DEF Subscribers
    <2>3. /\ joined \subseteq Services /\ UNCHANGED services
          /\ UNCHANGED <<file, shared, tid, asked, committed>>
      BY <1>9 DEF ReadConfig, TypeOK
    <2>4. request = {} /\ phase = "idle" /\ phase' \in {"loaded", "exited"}
      BY <1>9 DEF ReadConfig
    <2>5. shared.ver =< loaded'.ver /\ loaded'.ver =< file.ver
      BY <1>9 DEF ReadConfig, TypeOK, Config
    <2>6. Outstanding' /\ Receiving'
      BY <2>2, <2>3, <2>4
    <2>7. VersionsFlow'
      BY <2>3, <2>5
    <2>8. JoinedIsCurrent'
      BY <2>2, <2>3, <2>4
    <2> QED
      BY <2>6, <2>7, <2>8
  <1>10. CASE Prepare
    BY <1>10 DEF Prepare, TypeOK, Config, Stamp, Empty
  <1>11. CASE Decide
    <2>1. request = {}
      BY <1>11 DEF Decide
    <2>2. Commit(tid) \in Event /\ Rollback(tid) \in Event
      BY EventTypes DEF TypeOK
    <2>3. Outstanding' /\ VersionsFlow'
      BY <1>11, <2>1 DEF Decide
    <2>4. Receiving'
      BY <1>11, <2>2, PublishKeeps DEF Decide, TypeOK
    <2>5. ASSUME NEW s \in joined', phase' \in {"idle", "loaded"}
          PROVE  HasCommit(boxes'[s])
      <3>1. Publish(Commit(tid)) /\ s \in Services /\ s \in joined
        BY <1>11, <2>5 DEF Decide, Publish, TypeOK
      <3>2. boxes[s] \in Inbox /\ boxes[s].open
        BY <3>1 DEF TypeOK, Subscribers
      <3>3. boxes'[s] = Deliver(boxes[s], Commit(tid))
        BY <3>1 DEF Publish, Notify, TypeOK, Subscribers
      <3> QED
        BY <3>2, <3>3, DeliverCommit DEF TypeOK
    <2>6. joined' \subseteq joined /\ UNCHANGED <<staged, shared, tid>>
      BY <1>11 DEF Decide, Publish
    <2> QED
      BY <2>3, <2>4, <2>5, <2>6
  <1>12. ASSUME NEW s \in Services, Subscribe(s)
         PROVE  Outstanding' /\ Receiving' /\ VersionsFlow' /\ JoinedIsCurrent'
    BY <1>12 DEF Subscribe, Subscribed, TypeOK, Subscribers
  <1>13. ASSUME NEW s \in Services, RegisterHandler(s)
         PROVE  Outstanding' /\ Receiving' /\ VersionsFlow' /\ JoinedIsCurrent'
    BY <1>13 DEF RegisterHandler, TypeOK
  <1>14. ASSUME NEW s \in Services, HandlePrepare(s)
         PROVE  Outstanding' /\ Receiving' /\ VersionsFlow' /\ JoinedIsCurrent'
    BY <1>14 DEF HandlePrepare, TypeOK, Stamp, Empty, Config
  <1>15. ASSUME NEW s \in Services, HandleNotify(s)
         PROVE  Outstanding' /\ Receiving' /\ VersionsFlow' /\ JoinedIsCurrent'
    <2> USE <1>15 DEF HandleNotify
    <2>1. Readable(boxes[s]) /\ TakeEvent(s) /\ s \in Subscribers
      BY DEF Subscribers
    <2>2. Outstanding' /\ Receiving'
      BY <2>1, TakeKeeps
    <2>3. VersionsFlow'
      BY DEF TypeOK, Stamp, Empty, Config
    <2>4. ASSUME NEW r \in joined
          PROVE  (active'[r] = active[r] /\ boxes'[r] = boxes[r]) \/ r = s
      BY <2>1, TakeKeeps DEF TypeOK
    <2>5. ASSUME Received(s, "Commit") PROVE JoinedIsCurrent'
      <3>1. active'[s] = staged[s]
        BY <2>5 DEF TypeOK
      <3> QED
        BY <2>4, <3>1
    <2>6. ASSUME ~Received(s, "Commit") PROVE JoinedIsCurrent'
      <3>1. UNCHANGED active /\ NextEvent(boxes[s]).type # "Commit"
        BY <2>1, <2>6 DEF Received
      <3>2. HasCommit(boxes[s]) => HasCommit(boxes'[s])
        BY <2>1, <3>1, TakeKeeps
      <3> QED
        BY <2>4, <3>1, <3>2
    <2>7. JoinedIsCurrent'
      BY <2>5, <2>6
    <2> QED
      BY <2>2, <2>3, <2>7
  <1>16. ASSUME NEW s \in Services, Panic(s)
         PROVE  Outstanding' /\ Receiving' /\ VersionsFlow' /\ JoinedIsCurrent'
    BY <1>16 DEF Panic, Closed, TypeOK, Subscribers
  <1>17. CASE UNCHANGED vars
    BY <1>17 DEF vars
  <1> QED
    BY <1>1, <1>3, <1>4, <1>5, <1>6, <1>7, <1>8, <1>9, <1>10, <1>11, <1>12,
       <1>13, <1>14, <1>15, <1>16, <1>17 DEF Next

\* The strengthening holds in every reachable state.
THEOREM Inductive == Spec => []IInv
  <1>1. Init => IInv
    <2> SUFFICES ASSUME Init PROVE Outstanding /\ Receiving /\ VersionsFlow
                                   /\ JoinedIsCurrent /\ TypeOK
      BY DEF IInv
    <2>1. TypeOK
      BY InitTyped
    <2> QED
      BY <2>1 DEF Init, Outstanding, Receiving, VersionsFlow, JoinedIsCurrent,
                  BootConfig, Empty
  <1>2. IInv /\ TypeOK' /\ [Next]_vars => IInv'
    BY Step DEF IInv
  <1> QED
    BY <1>1, <1>2, TypeCorrect, PTL DEF Spec

\* A service that answered the last Prepare and has lost no event runs the
\* shared configuration once it has no Commit left to read: for any number of
\* services and callers and any interleaving of their requests and events.
THEOREM Drained == Spec => []DrainedRunsShared
  <1>1. IInv => DrainedRunsShared
    BY DEF IInv, TypeOK, JoinedIsCurrent, DrainedRunsShared
  <1> QED
    BY <1>1, Inductive, PTL

\* No service ever goes back to an older configuration.
THEOREM Forward == Spec => NeverOlder
  <1> DEFINE Ahead == \A s \in Services :
                 Empty \notin {active[s].ver, active'[s].ver}
                    => active'[s].ver >= active[s].ver
  <1>1. IInv /\ IInv' /\ [Next]_vars => [Ahead]_active
    <2> SUFFICES ASSUME IInv, Next, active' # active PROVE Ahead
      BY DEF vars, services
    <2>1. PICK s \in Services : HandleNotify(s)
      BY DEF Next, EditFile, OtherEvent, StartWatching, ReceiveFsEvent,
             DebounceTick, CallReload, PublishChange, EnterMainLoop,
             IgnoreEvent, ReadConfig, Prepare, Decide, Subscribe,
             RegisterHandler, HandlePrepare, Panic, services
    <2>2. active' = [active EXCEPT ![s] = staged[s]]
      BY <2>1 DEF HandleNotify
    <2> QED
      BY <2>2 DEF IInv, TypeOK, VersionsFlow, Stamp, Empty
  <1> QED
    BY <1>1, Inductive, PTL DEF Spec, NeverOlder

-----------------------------------------------------------------------------
(* Who runs on nothing.

   A Commit makes the empty cache active only for a service that has nothing
   staged.  Decide waits for everyone who was asked, so that whoever no Prepare
   left out has staged something, or has panicked, when the Commit is sent. *)

\* Whoever no Prepare has left out is asked by the one under way; who answered
\* it has staged something, and only who is gone drops it.
AllAsked ==
    phase = "preparing" =>
        /\ Services \ missed \subseteq asked
        /\ \A s \in Services : /\ reply[s] # "Error"
                               /\ reply[s] = "Success" => staged[s].ver # Empty
                               /\ reply[s] = "dropped" => status[s] = "panicked"

\* The receiver of a task that is gone is gone with it.
PanickedIsClosed == \A s \in Services : status[s] = "panicked" => boxes[s] = Closed

\* Whoever is about to read a Commit has something staged.
CommitIsStaged ==
    \A s \in Services \ missed : HasCommit(boxes[s]) => staged[s].ver # Empty

Heard == AllAsked /\ PanickedIsClosed /\ CommitIsStaged /\ EmptyOnlyUnasked

\* Delivering another event adds no Commit.
LEMMA DeliverAddsNone ==
  ASSUME NEW box \in Inbox, NEW e \in Event, e.type # "Commit",
         HasCommit(Deliver(box, e))
  PROVE  HasCommit(box)
  <1> DEFINE q == Deliver(box, e).queue
             rest == IF Full(box) THEN Tail(box.queue) ELSE box.queue
  <1>1. CASE ~box.open
    BY <1>1 DEF Deliver
  <1>2. CASE box.open
    <2>1. q = Append(rest, e) /\ box.queue \in Seq(Event)
      BY <1>2 DEF Deliver, Inbox
    <2>2. Full(box) => box.queue # <<>>
      BY CapacityAssumption DEF Full, Inbox
    <2>3. rest \in Seq(Event)
      BY <2>1, <2>2
    <2>4. PICK i \in 1 .. Len(q) : q[i].type = "Commit"
      BY DEF HasCommit
    <2>5. i \in 1 .. Len(rest) /\ q[i] = rest[i]
      BY <2>1, <2>3, <2>4
    <2>6. \E j \in 1 .. Len(box.queue) : box.queue[j] = rest[i]
      <3>1. CASE Full(box)
        <4>1. i + 1 \in 1 .. Len(box.queue) /\ box.queue[i + 1] = rest[i]
          BY <2>1, <2>2, <2>5, <3>1
        <4> QED
          BY <4>1
      <3>2. CASE ~Full(box)
        BY <2>5, <3>2
      <3> QED
        BY <3>1, <3>2
    <2> QED
      BY <2>4, <2>5, <2>6 DEF HasCommit
  <1> QED
    BY <1>1, <1>2 DEF Inbox

\* Nor does receiving.
LEMMA RecvAddsNone ==
  ASSUME NEW box \in Inbox, Readable(box), HasCommit(AfterRecv(box))
  PROVE  HasCommit(box)
  <1>1. CASE box.lagged
    BY <1>1 DEF AfterRecv, HasCommit, Inbox
  <1>2. CASE ~box.lagged
    <2>1. box.queue \in Seq(Event) /\ box.queue # <<>>
      BY <1>2 DEF Readable, Inbox
    <2>2. AfterRecv(box).queue = Tail(box.queue)
      BY <1>2 DEF AfterRecv, Inbox
    <2>3. PICK i \in 1 .. Len(Tail(box.queue)) : Tail(box.queue)[i].type = "Commit"
      BY <2>2 DEF HasCommit
    <2>4. i + 1 \in 1 .. Len(box.queue) /\ box.queue[i + 1] = Tail(box.queue)[i]
      BY <2>1
    <2> QED
      BY <2>3, <2>4 DEF HasCommit
  <1> QED
    BY <1>1, <1>2

\* A Commit that is received was in the inbox.
LEMMA ReadCommit ==
  ASSUME NEW box \in Inbox, Readable(box), NextEvent(box).type = "Commit"
  PROVE  HasCommit(box)
  <1>1. ~box.lagged
    BY DEF NextEvent, Notice
  <1>2. box.queue \in Seq(Event) /\ box.queue # <<>>
    BY <1>1 DEF Readable, Inbox
  <1>3. 1 \in 1 .. Len(box.queue) /\ box.queue[1].type = "Commit"
    BY <1>1, <1>2 DEF NextEvent
  <1> QED
    BY <1>3 DEF HasCommit

\* A receiver that is closed or new has nothing to read.
LEMMA FreshIsEmpty ==
  \A box \in {Closed, Subscribed} : ~Readable(box) /\ ~HasCommit(box)
  BY DEF Closed, Subscribed, Readable, HasCommit

\* Answers are those of everyone who was asked, what is staged stays so, and only
\* a Prepare leaves somebody out.
LEMMA AskedStep ==
  ASSUME IInv, Heard, [Next]_vars
  PROVE  /\ AllAsked' /\ missed \subseteq missed'
         /\ \A s \in Services : staged[s].ver # Empty => staged'[s].ver # Empty
  <1> USE DEF environment, detection, coordinator, services
  <1>1. CASE UNCHANGED <<status, phase, asked, reply, staged, missed>>
    BY <1>1 DEF Heard, AllAsked
  <1>2. CASE UNCHANGED <<staged, missed>> /\ phase' # "preparing"
    BY <1>2 DEF AllAsked
  <1>3. CASE Prepare
    <2>1. /\ UNCHANGED <<status, staged>> /\ asked' = handlers
          /\ missed' = missed \union (Services \ handlers)
          /\ \A s \in Services :
                reply'[s] = IF s \in handlers /\ status[s] = "panicked"
                            THEN "dropped" ELSE "none"
      BY <1>3 DEF Prepare
    <2> QED
      BY <2>1 DEF AllAsked
  <1>4. ASSUME NEW s \in Services, Subscribe(s) \/ RegisterHandler(s)
        PROVE  /\ AllAsked' /\ UNCHANGED <<staged, missed>>
    BY <1>4 DEF Subscribe, RegisterHandler, Heard, AllAsked, IInv, TypeOK
  <1>5. ASSUME NEW s \in Services, HandlePrepare(s)
        PROVE  /\ AllAsked' /\ missed' = missed
               /\ \A r \in Services : staged[r].ver # Empty => staged'[r].ver # Empty
    <2>1. shared.ver # Empty
      BY DEF IInv, TypeOK, Config, Empty
    <2>2. /\ UNCHANGED <<phase, asked, status, missed>>
          /\ \A r \in Services \ {s} : staged'[r] = staged[r] /\ reply'[r] = reply[r]
          /\ staged'[s].ver # Empty /\ reply'[s] = "Success"
      BY <1>5, <2>1 DEF HandlePrepare, IInv, TypeOK
    <2> QED
      BY <2>2 DEF Heard, AllAsked
  <1>6. ASSUME NEW s \in Services, Panic(s)
        PROVE  /\ AllAsked' /\ UNCHANGED <<staged, missed>>
    <2>1. /\ UNCHANGED <<phase, asked, staged, missed>>
          /\ \A r \in Services : status[r] = "panicked" => status'[r] = "panicked"
          /\ status'[s] = "panicked"
          /\ \A r \in Services : reply'[r] = reply[r] \/ (r = s /\ reply'[r] = "dropped")
      BY <1>6 DEF Panic, IInv, TypeOK
    <2> QED
      BY <2>1 DEF Heard, AllAsked
  <1>7. ASSUME NEW s \in Services, HandleNotify(s)
        PROVE  UNCHANGED <<status, phase, asked, reply, staged, missed>>
    BY <1>7 DEF HandleNotify
  <1>8. CASE EnterMainLoop \/ ReadConfig \/ Decide
    <2>1. UNCHANGED <<staged, missed>> /\ phase' # "preparing"
      BY <1>8 DEF EnterMainLoop, ReadConfig, Decide
    <2> QED
      BY <1>2, <2>1
  <1>9. CASE \/ EditFile \/ OtherEvent \/ StartWatching \/ ReceiveFsEvent
             \/ DebounceTick \/ IgnoreEvent
             \/ \E c \in Clients : CallReload(c)
             \/ \E d \in Detectors : PublishChange(d)
    <2>1. UNCHANGED <<status, phase, asked, reply, staged, missed>>
      BY <1>9 DEF EditFile, OtherEvent, StartWatching, ReceiveFsEvent, DebounceTick,
                  IgnoreEvent, CallReload, PublishChange
    <2> QED
      BY <1>1, <2>1
  <1>10. CASE UNCHANGED vars
    BY <1>1, <1>10 DEF vars
  <1> QED
    BY <1>1, <1>3, <1>4, <1>5, <1>6, <1>7, <1>8, <1>9, <1>10 DEF Next

\* A Commit is only ever delivered to who has staged something.
LEMMA CommitStep ==
  ASSUME IInv, Heard, TypeOK', [Next]_vars
  PROVE  CommitIsStaged' /\ PanickedIsClosed'
  <1> USE DEF environment, detection, coordinator, services
  <1> DEFINE Kept == \A s \in Services :
                 /\ HasCommit(boxes'[s]) => \/ HasCommit(boxes[s])
                                             \/ staged'[s].ver # Empty
                                             \/ s \in missed
                 /\ status'[s] = "panicked" => boxes'[s] = Closed
  <1> SUFFICES Kept
    BY AskedStep DEF Heard, CommitIsStaged, PanickedIsClosed
  <1>2. \A s \in Services : boxes[s] \in Inbox
    BY DEF IInv, TypeOK, Subscribers
  <1>3. Closed \in Inbox /\ ~Closed.open
    BY DEF Closed, Inbox
  <1>4. \A e \in Event : Deliver(Closed, e) = Closed
    BY <1>3 DEF Deliver
  <1>5. ASSUME UNCHANGED <<boxes, status>> PROVE Kept
    BY <1>5 DEF Heard, PanickedIsClosed
  <1>6. ASSUME NEW e \in Event, Publish(e), UNCHANGED <<status, staged>>,
               e.type # "Commit" \/ \A s \in Services \ missed : \/ staged[s].ver # Empty
                                                                  \/ status[s] = "panicked"
        PROVE  Kept
    <2>1. \A s \in Services : boxes'[s] = Deliver(boxes[s], e)
      BY <1>6 DEF Publish, Notify, IInv, TypeOK, Subscribers
    <2>2. \A s \in Services : status[s] = "panicked" => boxes'[s] = Closed
      BY <1>4, <2>1 DEF Heard, PanickedIsClosed
    <2>3. ASSUME NEW s \in Services, HasCommit(boxes'[s])
          PROVE  HasCommit(boxes[s]) \/ staged[s].ver # Empty \/ s \in missed
      <3>1. CASE e.type # "Commit"
        BY <1>2, <2>1, <2>3, <3>1, DeliverAddsNone
      <3>2. CASE status[s] = "panicked"
        BY <2>2, <2>3, <3>2, FreshIsEmpty
      <3> QED
        BY <1>6, <3>1, <3>2
    <2> QED
      BY <1>6, <2>2, <2>3
  <1>7. CASE OtherEvent
    <2>1. Notice("Other") \in Event /\ Notice("Other").type = "Other"
      BY EventTypes DEF Notice
    <2> QED
      BY <1>6, <1>7, <2>1 DEF OtherEvent
  <1>8. ASSUME NEW d \in Detectors, PublishChange(d) PROVE Kept
    <2>1. verdict[d] \in {"HotReload", "ColdRestart"}
      BY <1>8 DEF PublishChange, IInv, TypeOK, Verdicts
    <2>2. Notice(verdict[d]) \in Event /\ Notice(verdict[d]).type # "Commit"
      BY <2>1, EventTypes DEF Notice
    <2> QED
      BY <1>6, <1>8, <2>2 DEF PublishChange
  <1>9. CASE Decide
    <2>1. /\ Commit(tid) \in Event /\ Rollback(tid) \in Event
          /\ Rollback(tid).type # "Commit"
      BY EventTypes DEF IInv, TypeOK, Rollback
    <2>2. \A s \in Services \ missed : reply[s] \in {"Success", "dropped"}
      BY <1>9 DEF Decide, Heard, AllAsked, IInv, TypeOK, Replies
    <2>3. \A s \in Services \ missed : staged[s].ver # Empty \/ status[s] = "panicked"
      BY <1>9, <2>2 DEF Decide, Heard, AllAsked
    <2>4. UNCHANGED <<status, staged>> /\ (Publish(Commit(tid)) \/ Publish(Rollback(tid)))
      BY <1>9 DEF Decide
    <2> QED
      BY <1>6, <2>1, <2>3, <2>4
  <1>10. ASSUME NEW b \in Subscribers, Readable(boxes[b]), TakeEvent(b), UNCHANGED status
         PROVE  Kept
    <2>1. \A s \in Services : boxes'[s] = IF s = b THEN AfterRecv(boxes[s]) ELSE boxes[s]
      BY <1>10 DEF TakeEvent, IInv, TypeOK, Subscribers
    <2>2. \A s \in Services : HasCommit(boxes'[s]) => HasCommit(boxes[s])
      BY <1>2, <1>10, <2>1, RecvAddsNone
    <2>3. \A s \in Services : status[s] = "panicked" => ~Readable(boxes[s])
      BY FreshIsEmpty DEF Heard, PanickedIsClosed
    <2>4. \A s \in Services : status'[s] = "panicked" => boxes'[s] = Closed
      BY <1>10, <2>1, <2>3 DEF Heard, PanickedIsClosed
    <2> QED
      BY <2>2, <2>4
  <1>11. CASE IgnoreEvent \/ ReadConfig
    BY <1>10, <1>11 DEF IgnoreEvent, ReadConfig, Received, Subscribers
  <1>12. ASSUME NEW s \in Services, HandleNotify(s) PROVE Kept
    BY <1>10, <1>12 DEF HandleNotify, Subscribers
  <1>13. CASE EnterMainLoop
    <2>1. \A s \in Services : boxes'[s] = boxes[s]
      BY <1>13, NamesAssumption DEF EnterMainLoop, IInv, TypeOK, Subscribers
    <2>2. status' = status
      BY <1>13 DEF EnterMainLoop
    <2> QED
      BY <2>1, <2>2 DEF Heard, PanickedIsClosed
  <1>14. ASSUME NEW s \in Services, Subscribe(s) \/ Panic(s) PROVE Kept
    <2>1. \A r \in Services : \/ boxes'[r] = boxes[r] /\ status'[r] = status[r]
                              \/ boxes'[r] = Closed
                              \/ boxes'[r] = Subscribed /\ status'[r] = "subscribed"
      BY <1>14 DEF Subscribe, Panic, IInv, TypeOK, Subscribers
    <2> QED
      BY <2>1, FreshIsEmpty DEF Heard, PanickedIsClosed
  <1>15. ASSUME NEW s \in Services, RegisterHandler(s) PROVE Kept
    <2>1. boxes' = boxes /\ \A r \in Services : status'[r] \in {status[r], "running"}
      BY <1>15 DEF RegisterHandler, IInv, TypeOK
    <2> QED
      BY <2>1 DEF Heard, PanickedIsClosed
  <1>16. CASE \/ EditFile \/ StartWatching \/ ReceiveFsEvent \/ DebounceTick \/ Prepare
              \/ \E c \in Clients : CallReload(c)
              \/ \E s \in Services : HandlePrepare(s)
    <2>1. UNCHANGED <<boxes, status>>
      BY <1>16 DEF EditFile, StartWatching, ReceiveFsEvent, DebounceTick, Prepare,
                   CallReload, HandlePrepare
    <2> QED
      BY <1>5, <2>1
  <1>17. CASE UNCHANGED vars
    BY <1>5, <1>17 DEF vars
  <1> QED
    BY <1>7, <1>8, <1>9, <1>11, <1>12, <1>13, <1>14, <1>15, <1>16, <1>17 DEF Next

\* What a service makes active is what it had staged.
LEMMA ActiveStep ==
  ASSUME IInv, [Next]_vars
  PROVE  \/ active' = active
         \/ \E s \in Services : /\ active' = [active EXCEPT ![s] = staged[s]]
                                /\ HasCommit(boxes[s]) /\ UNCHANGED shared
  <1> USE DEF environment, detection, coordinator, services
  <1>1. ASSUME NEW s \in Services, HandleNotify(s)
        PROVE  \/ active' = active
               \/ /\ active' = [active EXCEPT ![s] = staged[s]]
                  /\ HasCommit(boxes[s]) /\ UNCHANGED shared
    <2>1. boxes[s] \in Inbox
      BY DEF IInv, TypeOK, Subscribers
    <2> QED
      BY <1>1, <2>1, ReadCommit DEF HandleNotify, Received
  <1>2. CASE ~ \E s \in Services : HandleNotify(s)
    BY <1>2 DEF Next, vars, EditFile, OtherEvent, StartWatching, ReceiveFsEvent,
           DebounceTick, CallReload, PublishChange, EnterMainLoop, IgnoreEvent,
           ReadConfig, Prepare, Decide, Subscribe, RegisterHandler, HandlePrepare, Panic
  <1> QED
    BY <1>1, <1>2

\* Whatever happens during start-up, only a service that a Prepare left out ever
\* runs on the empty cache: everyone else has staged something before it reads a
\* Commit, in whatever order requests and events reach it.
THEOREM Unasked == Spec => []EmptyOnlyUnasked
  <1>1. Init => Heard
    <2>1. Init => CommitIsStaged
      BY FreshIsEmpty DEF Init, CommitIsStaged, Subscribers
    <2> QED
      BY <2>1 DEF Init, Heard, AllAsked, PanickedIsClosed, EmptyOnlyUnasked, Empty
  <1>2. IInv /\ Heard /\ TypeOK' /\ [Next]_vars => Heard'
    <2> SUFFICES ASSUME IInv, Heard, TypeOK', [Next]_vars PROVE Heard'
      OBVIOUS
    <2>1. EmptyOnlyUnasked'
      BY ActiveStep, AskedStep DEF Heard, EmptyOnlyUnasked, CommitIsStaged, IInv, TypeOK
    <2> QED
      BY <2>1, AskedStep, CommitStep DEF Heard
  <1>3. Heard => EmptyOnlyUnasked
    BY DEF Heard
  <1> QED
    BY <1>1, <1>2, <1>3, Inductive, TypeCorrect, PTL DEF Spec

-----------------------------------------------------------------------------
(* Nothing changes before start-up is complete.

   Then no Prepare leaves a service out: the main loop cannot read a change
   before every service has its handler. *)

\* Until start-up is complete nothing is detected, published or under way.
Dormant ==
    ~StartedUp =>
        /\ fsEvents = 0 /\ ~pending
        /\ \A d \in Detectors : verdict[d] = "none"
        /\ phase \in {"starting", "idle"}
        /\ \A b \in Subscribers : boxes[b] \in {Closed, Subscribed}

\* Whoever has come up has its handler in the broker.
Registered == \A s \in Services : status[s] \in {"running", "panicked"} => s \in handlers

NobodyMissed == missed = {}

Prepared == Dormant /\ Registered /\ NobodyMissed

\* Start-up is complete for good.
LEMMA StartedStays ==
  ASSUME TypeOK, [Next]_vars, StartedUp
  PROVE  StartedUp'
  <1> USE DEF environment, detection, coordinator, services
  <1>1. watching' /\ phase' # "starting"
    BY DEF StartedUp, Next, vars, EditFile, OtherEvent, StartWatching, ReceiveFsEvent,
           DebounceTick, CallReload, PublishChange, EnterMainLoop, IgnoreEvent,
           ReadConfig, Prepare, Decide, Subscribe, RegisterHandler, HandlePrepare,
           HandleNotify, Panic
  <1>2. \A s \in Services : status'[s] \in {"running", "panicked"}
    <2>1. \/ status' = status
          \/ \E s \in Services :
                status' \in {[status EXCEPT ![s] = "running"],
                             [status EXCEPT ![s] = "panicked"]}
      BY DEF StartedUp, Next, vars, EditFile, OtherEvent, StartWatching, ReceiveFsEvent,
             DebounceTick, CallReload, PublishChange, EnterMainLoop, IgnoreEvent,
             ReadConfig, Prepare, Decide, Subscribe, RegisterHandler, HandlePrepare,
             HandleNotify, Panic
    <2> QED
      BY <2>1 DEF StartedUp, TypeOK
  <1> QED
    BY <1>1, <1>2 DEF StartedUp

\* Start-up stays dormant: each of its steps is somebody coming up or a panic.
LEMMA DormantStep ==
  ASSUME ~EarlyChanges, IInv, Prepared, [Next]_vars
  PROVE  Dormant'
  <1> USE DEF environment, detection, coordinator, services
  <1> SUFFICES ASSUME ~StartedUp'
               PROVE  /\ fsEvents' = 0 /\ ~pending'
                      /\ \A d \in Detectors : verdict'[d] = "none"
                      /\ phase' \in {"starting", "idle"}
                      /\ \A b \in Subscribers : boxes'[b] \in {Closed, Subscribed}
    BY DEF Dormant
  <1>1. ~StartedUp
    BY StartedStays DEF IInv
  <1>2. /\ fsEvents = 0 /\ ~pending
        /\ \A d \in Detectors : verdict[d] = "none"
        /\ phase \in {"starting", "idle"}
        /\ \A b \in Subscribers : boxes[b] \in {Closed, Subscribed}
    BY <1>1 DEF Prepared, Dormant
  <1>3. ~MayChange
    BY <1>1 DEF MayChange
  <1>4. \A b \in Subscribers : ~Readable(boxes[b])
    BY <1>2, FreshIsEmpty
  <1>5. request = {}
    BY <1>2 DEF IInv, Outstanding
  <1>6. CASE StartWatching
    BY <1>2, <1>6 DEF StartWatching
  <1>7. CASE EnterMainLoop
    BY <1>2, <1>7 DEF EnterMainLoop, IInv, TypeOK
  <1>8. ASSUME NEW s \in Services, Subscribe(s) \/ RegisterHandler(s) \/ Panic(s)
        PROVE  /\ UNCHANGED <<fsEvents, pending, verdict, phase>>
               /\ \A b \in Subscribers : boxes'[b] \in {boxes[b], Closed, Subscribed}
    BY <1>8 DEF Subscribe, RegisterHandler, Panic, IInv, TypeOK, Subscribers
  <1>9. CASE UNCHANGED vars
    BY <1>2, <1>9 DEF vars
  <1>10. ~EditFile /\ ~OtherEvent /\ ~ReceiveFsEvent /\ ~DebounceTick
    BY <1>2, <1>3 DEF EditFile, OtherEvent, ReceiveFsEvent, DebounceTick
  <1>11. /\ \A c \in Clients : ~CallReload(c)
         /\ \A d \in Detectors : ~PublishChange(d)
    BY <1>2, <1>3 DEF CallReload, PublishChange
  <1>12. ~IgnoreEvent /\ ~ReadConfig /\ ~Prepare /\ ~Decide
    BY <1>2, <1>4 DEF IgnoreEvent, ReadConfig, Received, Prepare, Decide, Subscribers
  <1>13. \A s \in Services : ~HandlePrepare(s) /\ ~HandleNotify(s)
    BY <1>4, <1>5 DEF HandlePrepare, HandleNotify, Subscribers
  <1>14. CASE \E s \in Services : Subscribe(s) \/ RegisterHandler(s) \/ Panic(s)
    BY <1>2, <1>8, <1>14
  <1> QED
    BY <1>6, <1>7, <1>9, <1>10, <1>11, <1>12, <1>13, <1>14 DEF Next

\* Handlers stay, and every Prepare is sent when all are there.
LEMMA RegisteredStep ==
  ASSUME IInv, Prepared, [Next]_vars
  PROVE  Registered' /\ NobodyMissed'
  <1> USE DEF NobodyMissed, environment, detection, coordinator, services
  <1>1. CASE Prepare
    <2>1. StartedUp /\ UNCHANGED <<handlers, status>>
      BY <1>1 DEF Prepare, Prepared, Dormant
    <2>2. \A s \in Services : s \in handlers
      BY <2>1 DEF StartedUp, Prepared, Registered
    <2> QED
      BY <1>1, <2>1, <2>2 DEF Prepare, Prepared, Registered
  <1>2. ASSUME NEW s \in Services, Subscribe(s) \/ RegisterHandler(s) \/ Panic(s)
        PROVE  Registered' /\ missed' = missed
    BY <1>2 DEF Subscribe, RegisterHandler, Panic, Prepared, Registered, IInv, TypeOK
  <1>3. CASE UNCHANGED <<handlers, status, missed>>
    BY <1>3 DEF Prepared, Registered
  <1>4. \/ Prepare \/ UNCHANGED <<handlers, status, missed>>
        \/ \E s \in Services : Subscribe(s) \/ RegisterHandler(s) \/ Panic(s)
    BY DEF Next, vars, EditFile, OtherEvent, StartWatching, ReceiveFsEvent, DebounceTick,
           CallReload, PublishChange, EnterMainLoop, IgnoreEvent, ReadConfig, Decide,
           HandlePrepare, HandleNotify
  <1> QED
    BY <1>1, <1>2, <1>3, <1>4 DEF Prepared

\* When nothing changes before start-up is complete, every service has registered
\* before the first Prepare is sent, so that none is ever left out.
THEOREM PreparedFirst == ASSUME ~EarlyChanges PROVE Spec => []NobodyMissed
  <1>1. Init => Prepared
    BY DEF Init, Prepared, Dormant, Registered, NobodyMissed
  <1>2. IInv /\ Prepared /\ [Next]_vars => Prepared'
    BY DormantStep, RegisteredStep DEF Prepared
  <1>3. Prepared => NobodyMissed
    BY DEF Prepared
  <1> QED
    BY <1>1, <1>2, <1>3, Inductive, PTL DEF Spec

\* A step of the protocol publishes a newer configuration, or moves one service
\* forward to a published one, or concerns nobody.
LEMMA StepIsRolloutStep ==
  ASSUME IInv, IInv', NobodyMissed, NobodyMissed', EmptyOnlyUnasked,
         EmptyOnlyUnasked', [Next]_vars
  PROVE  [Rollout!Next]_<<shared.ver, [s \in Services |-> active[s].ver]>>
  <1> DEFINE running == [s \in Services |-> active[s].ver]
  <1>1. CASE active' = active
    <2>1. shared' = shared \/ shared' = loaded
      BY DEF Next, vars, EditFile, OtherEvent, StartWatching, ReceiveFsEvent,
             DebounceTick, CallReload, PublishChange, EnterMainLoop, IgnoreEvent,
             ReadConfig, Prepare, Decide, Subscribe, RegisterHandler, HandlePrepare,
             HandleNotify, Panic, coordinator
    <2>2. shared'.ver \in Nat /\ shared'.ver >= shared.ver
      BY <2>1 DEF IInv, TypeOK, VersionsFlow, Config
    <2> QED
      BY <1>1, <2>2 DEF Rollout!Next, Rollout!Publish
  <1>2. ASSUME NEW s \in Services, active' = [active EXCEPT ![s] = staged[s]],
               HasCommit(boxes[s]), UNCHANGED shared
        PROVE  Rollout!Next
    <2>1. staged[s].ver # Empty /\ active[s].ver # Empty
      <3>1. active'[s] = staged[s]
        BY <1>2 DEF IInv, TypeOK
      <3> QED
        BY <3>1 DEF EmptyOnlyUnasked, NobodyMissed
    <2>2. staged[s].ver \in running[s] .. shared.ver
      BY <2>1 DEF IInv, TypeOK, VersionsFlow, Stamp, Config, Empty
    <2>3. running' = [running EXCEPT ![s] = staged[s].ver]
      BY <1>2 DEF IInv, TypeOK
    <2>4. Rollout!Adopt(s)
      BY <1>2, <2>2, <2>3 DEF Rollout!Adopt
    <2> QED
      BY <2>4 DEF Rollout!Next
  <1> QED
    BY <1>1, <1>2, ActiveStep

\* As long as nothing changes before start-up is complete, hot reload
\* implements ConfigRollout: services only move forward, to what is published.
THEOREM Implements == ASSUME ~EarlyChanges PROVE Spec => ImplementsRollout
  <1>1. Init => Rollout!Init
    BY DEF Init, Rollout!Init, BootConfig
  <1> QED
    BY <1>1, StepIsRolloutStep, Inductive, Unasked, PreparedFirst, PTL
       DEF Spec, ImplementsRollout, Rollout!Spec
=============================================================================
