------------------------- MODULE Controllers_proofs -------------------------
(***************************************************************************)
(* Proofs about Controllers, for any devices, models, configurations and   *)
(* clients: its types, and that stopping a worker under the write lock     *)
(* leaves no stopped worker in the table and no command without an answer. *)
(* With one entry for a model also: a fingerprint keeps its id.  For       *)
(* devices of different models, while the announcements of each are dealt  *)
(* with in turn, a device has one driver.                                  *)
(***************************************************************************)
EXTENDS Controllers, Extrema, FiniteSetTheorems, SequenceTheorems, TLAPS

States == {"running", "stopped", "panicked"}

-----------------------------------------------------------------------------
\* Types.

\* What a worker is started with.
LEMMA NewWorkerTyped ==
  ASSUME NEW id \in Ids, NEW d \in Devices, NEW key \in Fingerprint
  PROVE  NewWorker(id, d, key) \in Worker
<1>1. TRUE \in BOOLEAN /\ <<>> \in Seq(Clients \union {Stop})
  OBVIOUS
<1> QED
  BY <1>1, Zenon DEF NewWorker, Worker

\* A worker is a record of its fields.
LEMMA WorkerFields ==
  \A r \in Worker :
     /\ r.id \in Ids /\ r.dev \in Devices /\ r.key \in Fingerprint
     /\ r.attached \in BOOLEAN
     /\ r.state \in States /\ r.queue \in Seq(Clients \union {Stop})
  BY Zenon DEF Worker, States

\* A worker whose channel holds something else is still a worker, ...
LEMMA Requeued ==
  ASSUME NEW r \in Worker, NEW q \in Seq(Clients \union {Stop})
  PROVE  [r EXCEPT !.queue = q] \in Worker
  BY Zenon DEF Worker

\* ... so is one whose device has gone, ...
LEMMA Detached ==
  ASSUME NEW r \in Worker, NEW b \in BOOLEAN
  PROVE  [r EXCEPT !.attached = b] \in Worker
  BY Zenon DEF Worker

\* ... and so is one that has come to its end.
LEMMA Ended ==
  ASSUME NEW r \in Worker, NEW s \in States
  PROVE  [r EXCEPT !.state = s, !.queue = <<>>] \in Worker
<1>1. <<>> \in Seq(Clients \union {Stop})
  OBVIOUS
<1> QED
  BY <1>1, Zenon DEF Worker, States

\* Replacing one worker keeps the type of the sequence.
LEMMA WorkerReplaced ==
  ASSUME workers \in Seq(Worker), NEW w \in DOMAIN workers, NEW r \in Worker
  PROVE  /\ [workers EXCEPT ![w] = r] \in Seq(Worker)
         /\ Len([workers EXCEPT ![w] = r]) = Len(workers)
  OBVIOUS

\* Ids of the file and of fallback configurations.
LEMMA IdsTyped ==
  /\ \A d \in Configured : ConfigId[d] \in Ids
  /\ \A d \in Devices : Model[d] \in Models /\ FallbackId[Model[d]] \in Ids
  BY DevicesAssumption DEF Ids, Models

\* What hidapi and udev say of a device are fingerprints of its model.
LEMMA KeysTyped ==
  /\ \A d \in Devices : /\ HidKey(d) \in Fingerprint /\ HidKey(d).model = Model[d]
                        /\ UdevKeys(d) # {}
                        /\ \A k \in UdevKeys(d) : k \in Fingerprint /\ k.model = Model[d]
  /\ \A k \in Fingerprint : k.model \in Models /\ FallbackId[k.model] \in Ids
<1>1. \A d \in Devices : Model[d] \in Models /\ HidSerial[d] \in Serials
                        /\ UdevSerials[d] \subseteq Serials /\ UdevSerials[d] # {}
  BY DevicesAssumption DEF Models, Serials
<1>2. \A m \in Models, x \in Serials :
         /\ [model |-> m, serial |-> x] \in Fingerprint
         /\ [model |-> m, serial |-> x].model = m
  BY DEF Fingerprint
<1>3. \A d \in Devices : HidKey(d) \in Fingerprint /\ HidKey(d).model = Model[d]
  BY <1>1, <1>2 DEF HidKey
<1>4. \A d \in Devices : \A k \in UdevKeys(d) : k \in Fingerprint /\ k.model = Model[d]
  BY <1>1, <1>2 DEF UdevKeys
<1>5. \A d \in Devices : UdevKeys(d) # {}
  BY <1>1 DEF UdevKeys
<1>6. \A k \in Fingerprint : k.model \in Models
  BY DEF Fingerprint
<1>7. \A m \in Models : FallbackId[m] \in Ids
  BY DEF Ids
<1> QED
  BY <1>3, <1>4, <1>5, <1>6, <1>7

\* The events of the kernel are hotplug events, ...
LEMMA EventTyped ==
  ASSUME NEW d \in Devices, NEW key \in UdevKeys(d), NEW type \in {"Add", "Remove"}
  PROVE  [type |-> type, dev |-> d, key |-> key] \in HotplugEvent
  BY KeysTyped DEF HotplugEvent

\* ... and say what udev knows of their device.
LEMMA EventFields ==
  \A e \in HotplugEvent :
     /\ e.type \in {"Add", "Remove"} /\ e.dev \in Devices
     /\ e.key \in Fingerprint /\ e.key \in UdevKeys(e.dev) /\ e.key.model = Model[e.dev]
  BY KeysTyped DEF HotplugEvent

\* The program starts with every variable in its type.
LEMMA TypedInit == Init => TypeOK
<1> SUFFICES ASSUME Init PROVE TypeOK
  OBVIOUS
<1>1. watching \in BOOLEAN
  BY Zenon DEF Init
<1>2. event \in HotplugEvent
  <2>1. PICK d \in Devices : TRUE
    BY DevicesAssumption
  <2>2. PICK key \in UdevKeys(d) : TRUE
    BY <2>1, KeysTyped
  <2>3. [type |-> "Add", dev |-> d, key |-> key] \in HotplugEvent
    BY <2>1, <2>2, EventTyped
  <2> QED
    BY <2>3 DEF Init
<1>3. workers \in Seq(Worker) /\ mapping \in [Ids -> 0 .. Len(workers)]
  BY DEF Init
<1>4. udev \in Seq(HotplugEvent) /\ inbox \in Seq(HotplugEvent)
  BY DEF Init
<1> QED
  BY <1>1, <1>2, <1>3, <1>4 DEF Init, TypeOK, Phases

\* Devices come and go, and their announcements are received.
LEMMA HardwareTyped ==
  ASSUME TypeOK,
         \/ \E d \in Devices : Plug(d) \/ Unplug(d)
         \/ StartWatching \/ ReceiveUdev
  PROVE  TypeOK'
<1> USE DEF tables, batches
<1>1. ASSUME NEW d \in Devices, Plug(d) PROVE TypeOK'
  <2>1. udev' \in Seq(HotplugEvent)
    <3>1. PICK key \in UdevKeys(d) :
             udev' \in {udev, Append(udev, [type |-> "Add", dev |-> d, key |-> key])}
      BY <1>1 DEF Plug, Announce
    <3>2. [type |-> "Add", dev |-> d, key |-> key] \in HotplugEvent
      BY <3>1, EventTyped
    <3>3. udev \in Seq(HotplugEvent)
      BY DEF TypeOK
    <3> QED
      BY <3>1, <3>2, <3>3
  <2> QED
    BY <1>1, <2>1 DEF Plug, TypeOK
<1>2. ASSUME NEW d \in Devices, Unplug(d) PROVE TypeOK'
  <2>1. udev' \in Seq(HotplugEvent)
    <3>1. PICK key \in UdevKeys(d) :
             udev' \in {udev, Append(udev, [type |-> "Remove", dev |-> d, key |-> key])}
      BY <1>2 DEF Unplug, Announce
    <3>2. [type |-> "Remove", dev |-> d, key |-> key] \in HotplugEvent
      BY <3>1, EventTyped
    <3>3. udev \in Seq(HotplugEvent)
      BY DEF TypeOK
    <3> QED
      BY <3>1, <3>2, <3>3
  <2>2. ASSUME NEW w \in DOMAIN workers
        PROVE  [workers[w] EXCEPT !.attached = @ /\ workers[w].dev # d] \in Worker
    <3>1. workers[w] \in Worker
      BY DEF TypeOK
    <3>2. (workers[w].attached /\ workers[w].dev # d) \in BOOLEAN
      BY Zenon
    <3> QED
      BY <3>1, <3>2, Detached, Zenon
  <2>3. workers' \in Seq(Worker) /\ Len(workers') = Len(workers)
    BY <1>2, <2>2 DEF Unplug, TypeOK
  <2> QED
    BY <1>2, <2>1, <2>3 DEF Unplug, TypeOK
<1>3. CASE StartWatching
  <2>1. watching' \in BOOLEAN
    BY <1>3, Zenon DEF StartWatching
  <2> QED
    BY <1>3, <2>1 DEF StartWatching, TypeOK, hardware
<1>4. CASE ReceiveUdev
  <2>1. Head(udev) \in HotplugEvent /\ Tail(udev) \in Seq(HotplugEvent)
    BY <1>4 DEF ReceiveUdev, TypeOK
  <2>2. inbox' \in Seq(HotplugEvent)
    BY <1>4, <2>1 DEF ReceiveUdev, TypeOK
  <2> QED
    BY <1>4, <2>1, <2>2 DEF ReceiveUdev, TypeOK, hardware
<1> QED
  BY <1>1, <1>2, <1>3, <1>4

\* There are finitely many entries, each with an id.
LEMMA EntriesTyped ==
  ASSUME TypeOK
  PROVE  IsFiniteSet(Entries) /\ \A e \in Entries : e.id \in Ids
<1> DEFINE named == {[id |-> ConfigId[d], model |-> Model[d]] : d \in Configured}
           missing == {n \in Detected : ~InConfig(n)}
           found == {Fallback(m) : m \in missing}
<1>1. IsFiniteSet(Configured) /\ IsFiniteSet(plugged)
  BY DevicesAssumption, FS_Subset DEF TypeOK
<1>2. IsFiniteSet(named)
  <2> DEFINE f == [d \in Configured |-> [id |-> ConfigId[d], model |-> Model[d]]]
  <2>1. f \in Surjection(Configured, named)
    BY DEF Surjection
  <2> QED
    BY <1>1, <2>1, FS_Surjection
<1>3. IsFiniteSet(Detected)
  <2> DEFINE f == [d \in plugged |-> Model[d]]
  <2>1. f \in Surjection(plugged, Detected)
    BY DEF Surjection, Detected
  <2> QED
    BY <1>1, <2>1, FS_Surjection
<1>4. IsFiniteSet(missing)
  BY <1>3, FS_Subset
<1>5. IsFiniteSet(found)
  <2> DEFINE f == [m \in missing |-> Fallback(m)]
  <2>1. f \in Surjection(missing, found)
    BY DEF Surjection
  <2> QED
    BY <1>4, <2>1, FS_Surjection
<1>6. IsFiniteSet(Entries)
  BY <1>2, <1>5, FS_Union DEF Entries
<1>7. \A e \in Entries : e.id \in Ids
  BY IdsTyped DEF Entries, Detected, Fallback, TypeOK
<1> QED
  BY <1>6, <1>7

\* Start-up builds workers for the entries that could be opened.
LEMMA BuildTyped == TypeOK /\ BuildControllers => TypeOK'
<1> SUFFICES ASSUME TypeOK, BuildControllers PROVE TypeOK'
  OBVIOUS
<1> DEFINE opened == {e \in Entries : Openable(e.model) # {}}
           n == Cardinality(opened)
<1>1. n \in Nat
  BY EntriesTyped, FS_Subset, FS_CardinalityType
<1> HIDE DEF n
<1>2. PICK entry \in [1 .. n -> opened], dev \in [1 .. n -> plugged] :
        /\ workers' = [i \in 1 .. n |-> NewWorker(entry[i].id, dev[i], HidKey(dev[i]))]
        /\ mapping' = [id \in Ids |->
              IF \E i \in 1 .. n : entry[i].id = id
              THEN CHOOSE i \in 1 .. n : entry[i].id = id ELSE 0]
        /\ idOf' = [k \in Fingerprint |->
              IF \E i \in 1 .. n : HidKey(dev[i]) = k
              THEN entry[CHOOSE i \in 1 .. n :
                            /\ HidKey(dev[i]) = k
                            /\ \A j \in (i + 1) .. n : HidKey(dev[j]) # k].id
              ELSE NoId]
        /\ cache' = idOf'
  BY Zenon DEF BuildControllers, n
<1>3. \A i \in 1 .. n : entry[i].id \in Ids /\ dev[i] \in Devices
  BY <1>2, EntriesTyped DEF TypeOK
<1>4. workers' \in Seq(Worker) /\ Len(workers') = n
  <2>1. \A i \in 1 .. n : NewWorker(entry[i].id, dev[i], HidKey(dev[i])) \in Worker
    BY <1>3, NewWorkerTyped, KeysTyped
  <2> QED
    BY <1>1, <1>2, <2>1
<1>5. mapping' \in [Ids -> 0 .. n]
  <2>1. ASSUME NEW id \in Ids, \E i \in 1 .. n : entry[i].id = id
        PROVE  (CHOOSE i \in 1 .. n : entry[i].id = id) \in 0 .. n
    <3>1. (CHOOSE i \in 1 .. n : entry[i].id = id) \in 1 .. n
      BY <2>1
    <3> QED
      BY <1>1, <3>1
  <2>2. 0 \in 0 .. n
    BY <1>1
  <2> QED
    BY <1>2, <2>1, <2>2
<1>6. idOf' \in [Fingerprint -> Ids \union {NoId}]
  <2>1. ASSUME NEW k \in Fingerprint, \E i \in 1 .. n : HidKey(dev[i]) = k
        PROVE  entry[CHOOSE i \in 1 .. n :
                        /\ HidKey(dev[i]) = k
                        /\ \A j \in (i + 1) .. n : HidKey(dev[j]) # k].id \in Ids
    <3> DEFINE T == {i \in 1 .. n : HidKey(dev[i]) = k}
    <3>1. T \subseteq 0 .. n /\ T # {}
      BY <1>1, <2>1
    <3>2. PICK i \in T : \A j \in T : j <= i
      BY <1>1, <3>1, Maximum
    <3>3. /\ i \in 1 .. n /\ HidKey(dev[i]) = k
          /\ \A j \in (i + 1) .. n : HidKey(dev[j]) # k
      BY <1>1, <3>2
    <3> QED
      BY <1>3, <3>3
  <2> QED
    BY <1>2, <2>1
<1>7. cache' \in [Fingerprint -> Ids \union {NoId}]
  BY <1>2, <1>6
<1>8. UNCHANGED <<hardware, watch, inbox, writer, event, batches>> /\ phase' = "initializing"
  BY DEF BuildControllers
<1> QED
  BY <1>1, <1>4, <1>5, <1>6, <1>7, <1>8 DEF TypeOK, hardware, watch, batches, Phases

\* The coordinator's steps.
LEMMA CoordinatorTyped ==
  ASSUME TypeOK,
         \/ InitControllers \/ EnterMainLoop \/ TakeEvent
         \/ DisconnectNoWorker \/ SendStop \/ StopAnswered \/ ConnectFails \/ Connect
  PROVE  TypeOK'
<1> USE DEF hardware, watch, batches
<1>1. CASE InitControllers \/ EnterMainLoop \/ ConnectFails
  BY <1>1 DEF InitControllers, EnterMainLoop, ConnectFails, TypeOK, Phases, tables
<1>2. CASE TakeEvent
  <2>1. Head(inbox) \in HotplugEvent /\ Tail(inbox) \in Seq(HotplugEvent)
    BY <1>2 DEF TakeEvent, TypeOK
  <2> QED
    BY <1>2, <2>1 DEF TakeEvent, TypeOK, tables
<1>3. CASE DisconnectNoWorker
  BY <1>3 DEF DisconnectNoWorker, TypeOK, Phases, tables
<1>4. CASE SendStop
  <2>1. Addressed \in DOMAIN workers
    BY <1>4, EventFields DEF SendStop, Running, Addressed, TypeOK
  <2>2. workers[Addressed] \in Worker
    BY <2>1 DEF TypeOK
  <2>3. Append(workers[Addressed].queue, Stop) \in Seq(Clients \union {Stop})
    <3>1. workers[Addressed].queue \in Seq(Clients \union {Stop})
      BY <2>2, WorkerFields, Zenon
    <3> QED
      BY <3>1
  <2> DEFINE r == [workers[Addressed] EXCEPT !.queue = Append(@, Stop)]
  <2>4. r \in Worker
    BY <2>2, <2>3, Requeued, Zenon
  <2>5. workers' = [workers EXCEPT ![Addressed] = r]
    BY <1>4 DEF SendStop
  <2> HIDE DEF r
  <2>6. workers' \in Seq(Worker) /\ Len(workers') = Len(workers)
    BY <2>1, <2>4, <2>5, WorkerReplaced DEF TypeOK
  <2> QED
    BY <1>4, <2>6 DEF SendStop, TypeOK, tables
<1>5. CASE StopAnswered
  <2>1. Len(workers) \in Nat /\ 0 \in 0 .. Len(workers)
    BY DEF TypeOK
  <2>2. mapping' \in {mapping, [mapping EXCEPT ![idOf[event.key]] = 0]}
    BY <1>5, Zenon DEF StopAnswered
  <2>3. mapping' \in [Ids -> 0 .. Len(workers)]
    BY <2>1, <2>2 DEF TypeOK
  <2>4. phase' \in Phases /\ writer' \in {"none", "waiting", "stopping"}
    BY <1>5 DEF StopAnswered, TypeOK, Phases
  <2> QED
    BY <1>5, <2>3, <2>4 DEF StopAnswered, TypeOK
<1>6. CASE Connect
  <2>1. PICK d \in Openable(event.key.model) :
          /\ workers' = Append(workers, NewWorker(BuildId(event.key), d, event.key))
          /\ mapping' = [mapping EXCEPT ![BuildId(event.key)] = Len(workers) + 1]
          /\ idOf' = [idOf EXCEPT ![event.key] = BuildId(event.key)]
          /\ cache' = [cache EXCEPT ![event.key] = BuildId(event.key)]
    BY <1>6 DEF Connect
  <2>2. d \in Devices /\ event.key \in Fingerprint
    BY <2>1, EventFields DEF Openable, TypeOK
  <2>3. BuildId(event.key) \in Ids
    BY <2>2, KeysTyped DEF BuildId, TypeOK
  <2>4. NewWorker(BuildId(event.key), d, event.key) \in Worker
    BY <2>2, <2>3, NewWorkerTyped
  <2>5. workers' \in Seq(Worker) /\ Len(workers') = Len(workers) + 1
    BY <2>1, <2>4 DEF TypeOK
  <2>6. mapping' \in [Ids -> 0 .. Len(workers')]
    BY <2>1, <2>3, <2>5 DEF TypeOK
  <2>7. /\ idOf' \in [Fingerprint -> Ids \union {NoId}]
        /\ cache' \in [Fingerprint -> Ids \union {NoId}]
    BY <2>1, <2>2, <2>3 DEF TypeOK
  <2> QED
    BY <1>6, <2>5, <2>6, <2>7 DEF Connect, TypeOK
<1> QED
  BY <1>1, <1>2, <1>3, <1>4, <1>5, <1>6

\* The steps of clients.
LEMMA ClientTyped ==
  ASSUME TypeOK, NEW c \in Clients, NEW id \in Ids,
         BeginBatch(c) \/ EndBatch(c) \/ SkipId(c, id) \/ SendCommand(c, id)
  PROVE  TypeOK'
<1> USE DEF hardware, watch, tables
<1>1. CASE BeginBatch(c)
  <2>1. \A ids \in Batches[c] : ids \subseteq Ids
    BY ClientsAssumption
  <2> QED
    BY <1>1, <2>1 DEF BeginBatch, TypeOK
<1>2. CASE EndBatch(c)
  BY <1>2 DEF EndBatch, TypeOK
<1>3. CASE SkipId(c, id)
  BY <1>3 DEF SkipId, TypeOK
<1>4. CASE SendCommand(c, id)
  <2> DEFINE w == mapping[id]
             r == [workers[w] EXCEPT !.queue = Append(@, c)]
  <2>1. w \in DOMAIN workers
    BY <1>4 DEF SendCommand, Running, TypeOK
  <2>2. workers[w] \in Worker
    BY <2>1 DEF TypeOK
  <2>3. Append(workers[w].queue, c) \in Seq(Clients \union {Stop})
    <3>1. workers[w].queue \in Seq(Clients \union {Stop})
      BY <2>2, WorkerFields, Zenon
    <3> QED
      BY <3>1
  <2>4. r \in Worker
    BY <2>2, <2>3, Requeued, Zenon
  <2>5. workers' = [workers EXCEPT ![w] = r]
    BY <1>4 DEF SendCommand
  <2> HIDE DEF r, w
  <2>6. workers' \in Seq(Worker) /\ Len(workers') = Len(workers)
    BY <2>1, <2>4, <2>5, WorkerReplaced DEF TypeOK
  <2>7. todo' \in [Clients -> SUBSET Ids] /\ awaited' \in [Clients -> SUBSET Ids]
    BY <1>4 DEF SendCommand, TypeOK
  <2> QED
    BY <1>4, <2>6, <2>7 DEF SendCommand, TypeOK
<1> QED
  BY <1>1, <1>2, <1>3, <1>4

\* The steps of workers.
LEMMA WorkerTyped ==
  ASSUME TypeOK, NEW w \in DOMAIN workers,
         Serve(w) \/ \E state \in States : Terminate(w, state)
  PROVE  TypeOK'
<1> USE DEF hardware, watch, tables
<1>1. workers[w] \in Worker
  BY DEF TypeOK
<1>2. workers' \in Seq(Worker) /\ Len(workers') = Len(workers)
  <2>1. CASE Serve(w)
    <3> DEFINE r == [workers[w] EXCEPT !.queue = Tail(@)]
    <3>1. Tail(workers[w].queue) \in Seq(Clients \union {Stop})
      <4>1. workers[w].queue \in Seq(Clients \union {Stop}) /\ workers[w].queue # <<>>
        BY <1>1, <2>1, WorkerFields, Zenon DEF Serve, HasWork
      <4> QED
        BY <4>1
    <3>2. r \in Worker
      BY <1>1, <3>1, Requeued, Zenon
    <3>3. workers' = [workers EXCEPT ![w] = r]
      BY <2>1 DEF Serve
    <3> HIDE DEF r
    <3> QED
      BY <3>2, <3>3, WorkerReplaced DEF TypeOK
  <2>2. ASSUME NEW state \in States, Terminate(w, state)
        PROVE  workers' \in Seq(Worker) /\ Len(workers') = Len(workers)
    <3> DEFINE r == [workers[w] EXCEPT !.state = state, !.queue = <<>>]
    <3>1. r \in Worker
      BY <1>1, Ended, Zenon
    <3>2. workers' = [workers EXCEPT ![w] = r]
      BY <2>2 DEF Terminate
    <3> HIDE DEF r
    <3> QED
      BY <3>1, <3>2, WorkerReplaced DEF TypeOK
  <2> QED
    BY <2>1, <2>2
<1>3. awaited' \in [Clients -> SUBSET Ids]
  <2>1. PICK cs, i : Answer(cs, i)
    BY Zenon DEF Serve, Terminate
  <2> QED
    BY <2>1 DEF Answer, TypeOK
<1> QED
  BY <1>2, <1>3 DEF Serve, Terminate, TypeOK

\* Every step keeps the types.
LEMMA TypedStep == TypeOK /\ [Next]_vars => TypeOK'
<1>1. ASSUME TypeOK, UNCHANGED vars PROVE TypeOK'
  BY <1>1 DEF vars, hardware, watch, tables, batches, TypeOK
<1>2. ASSUME TypeOK, NEW w \in DOMAIN workers, Serve(w) \/ ServeStop(w) \/ PanicOnSpeed(w)
      PROVE  TypeOK'
  BY <1>2, WorkerTyped DEF ServeStop, PanicOnSpeed, States
<1>3. ASSUME TypeOK, NEW c \in Clients, BeginBatch(c) \/ EndBatch(c) PROVE TypeOK'
  <2>1. PICK id : id \in Ids
    BY DevicesAssumption, IdsTyped
  <2> QED
    BY <1>3, <2>1, ClientTyped
<1> QED
  BY <1>1, <1>2, <1>3, HardwareTyped, BuildTyped, CoordinatorTyped, ClientTyped DEF Next

\* The controllers and their workers keep their types.
THEOREM TypeCorrect == Spec => []TypeOK
  BY TypedInit, TypedStep, PTL DEF Spec
-----------------------------------------------------------------------------
\* What the write lock of the controllers is worth.

\* Until the controllers are built nobody has the lock and no worker runs.
Unbuilt == phase = "building" => readers = {} /\ writer = "none" /\ DOMAIN workers = {}

\* Whoever has no read lock has no batch; no batch overlaps with a Stop.
Locked ==
    /\ \A c \in Clients : /\ c \notin readers => todo[c] = {} /\ awaited[c] = {}
                          /\ todo[c] \cap awaited[c] = {}
    /\ readers # {} => writer # "stopping"

\* An id is mapped to a worker that was started under it.
MappedUnderId == \A id \in Ids : mapping[id] # 0 => workers[mapping[id]].id = id

\* Only a running worker that is mapped has anything in its channel, ...
QueuedIsMapped ==
    \A w \in DOMAIN workers :
        workers[w].queue # <<>> => Running(w) /\ mapping[workers[w].id] = w

\* ... every command in it is awaited, and sent once.
QueuedIsAwaited ==
    \A w \in DOMAIN workers : \A i \in DOMAIN workers[w].queue :
        /\ workers[w].queue[i] # Stop => workers[w].id \in awaited[workers[w].queue[i]]
        /\ \A j \in DOMAIN workers[w].queue :
              workers[w].queue[i] = workers[w].queue[j] => i = j

\* A Stop is alone in its channel, and the coordinator waits for it.
StopIsAlone ==
    \A w \in DOMAIN workers : \A i \in DOMAIN workers[w].queue :
        workers[w].queue[i] = Stop => /\ workers[w].queue = <<Stop>>
                                      /\ writer = "stopping" /\ w = Addressed

\* The coordinator waits for a worker that is mapped; a stopped worker that is
\* still mapped is the one it waits for.
StoppedIsAddressed ==
    /\ writer = "stopping" => Addressed # 0
    /\ \A id \in Ids : mapping[id] # 0 /\ workers[mapping[id]].state = "stopped"
                          => writer = "stopping" /\ mapping[id] = Addressed

LockInv ==
    /\ Unbuilt /\ Locked /\ MappedUnderId
    /\ QueuedIsMapped /\ QueuedIsAwaited /\ StopIsAlone /\ StoppedIsAddressed

\* What the types say of the table, the addressed worker and every worker.
LEMMA Facts ==
  ASSUME TypeOK
  PROVE  /\ \A id \in Ids : mapping[id] = 0 \/ mapping[id] \in DOMAIN workers
         /\ 0 \notin DOMAIN workers
         /\ Addressed = 0 \/ Addressed \in DOMAIN workers
         /\ idOf[event.key] \in Ids \union {NoId}
         /\ \A w \in DOMAIN workers : /\ workers[w].id \in Ids
                                      /\ workers[w].queue \in Seq(Clients \union {Stop})
<1>1. \A id \in Ids : mapping[id] = 0 \/ mapping[id] \in DOMAIN workers
  BY DEF TypeOK
<1>2. 0 \notin DOMAIN workers
  BY DEF TypeOK
<1>3. idOf[event.key] \in Ids \union {NoId}
  BY EventFields DEF TypeOK
<1>4. Addressed = 0 \/ Addressed \in DOMAIN workers
  BY <1>1, <1>3 DEF Addressed
<1>5. \A w \in DOMAIN workers : workers[w] \in Worker
  BY DEF TypeOK
<1>6. \A w \in DOMAIN workers : /\ workers[w].id \in Ids
                                /\ workers[w].queue \in Seq(Clients \union {Stop})
  BY <1>5, WorkerFields, Zenon
<1> QED
  BY <1>1, <1>2, <1>3, <1>4, <1>6

\* The invariant holds at the start.
LEMMA LockInit == Init => LockInv
  BY DEF Init, LockInv, Unbuilt, Locked, MappedUnderId, QueuedIsMapped,
         QueuedIsAwaited, StopIsAlone, StoppedIsAddressed

\* With no reader and no Stop under way, every channel is empty: this is what
\* the coordinator finds when it has the lock.
LEMMA Drained ==
  ASSUME TypeOK, LockInv, readers = {}, writer # "stopping"
  PROVE  \A w \in DOMAIN workers : workers[w].queue = <<>>
<1> SUFFICES ASSUME NEW w \in DOMAIN workers, workers[w].queue # <<>> PROVE FALSE
  OBVIOUS
<1>1. workers[w].queue \in Seq(Clients \union {Stop})
  BY Facts
<1>2. 1 \in DOMAIN workers[w].queue /\ workers[w].queue[1] \in Clients \union {Stop}
  BY <1>1
<1>3. workers[w].queue[1] # Stop
  BY <1>2 DEF LockInv, StopIsAlone
<1>4. workers[w].queue[1] \in Clients /\ workers[w].id \in awaited[workers[w].queue[1]]
  BY <1>2, <1>3 DEF LockInv, QueuedIsAwaited
<1> QED
  BY <1>4 DEF LockInv, Locked

\* A step that leaves the table, the lock, the batches and the channels alone.
LEMMA Quiet ==
  ASSUME TypeOK, LockInv,
         UNCHANGED <<mapping, idOf, readers, todo, awaited, writer, event>>,
         phase' = "building" => phase = "building",
         DOMAIN workers' = DOMAIN workers,
         \A w \in DOMAIN workers : /\ workers'[w].id = workers[w].id
                                   /\ workers'[w].state = workers[w].state
                                   /\ workers'[w].queue = workers[w].queue
  PROVE  LockInv'
<1>1. Addressed' = Addressed
  BY DEF Addressed
<1>2. Unbuilt' /\ Locked'
  BY DEF LockInv, Unbuilt, Locked
<1>3. MappedUnderId'
  BY Facts DEF LockInv, MappedUnderId
<1>4. QueuedIsMapped'
  BY Facts DEF LockInv, QueuedIsMapped, Running
<1>5. QueuedIsAwaited'
  BY DEF LockInv, QueuedIsAwaited
<1>6. StopIsAlone'
  BY <1>1 DEF LockInv, StopIsAlone
<1>7. StoppedIsAddressed'
  BY <1>1, Facts DEF LockInv, StoppedIsAddressed
<1> QED
  BY <1>2, <1>3, <1>4, <1>5, <1>6, <1>7 DEF LockInv

\* Devices come and go, start-up goes on, and an arrival cannot be handled.
LEMMA QuietSteps ==
  ASSUME TypeOK, LockInv,
         \/ \E d \in Devices : Plug(d) \/ Unplug(d)
         \/ InitControllers \/ EnterMainLoop \/ StartWatching \/ ReceiveUdev
         \/ ConnectFails
  PROVE  LockInv'
<1>1. UNCHANGED <<mapping, idOf, readers, todo, awaited, writer, event>>
  BY DEF Plug, Unplug, InitControllers, EnterMainLoop, StartWatching, ReceiveUdev,
         ConnectFails, tables, batches
<1>2. phase' = "building" => phase = "building"
  BY DEF Plug, Unplug, InitControllers, EnterMainLoop, StartWatching, ReceiveUdev,
         ConnectFails
<1>3. \/ workers' = workers
      \/ \E d \in Devices :
            workers' = [w \in DOMAIN workers |->
                          [workers[w] EXCEPT !.attached = @ /\ workers[w].dev # d]]
  BY DEF Plug, Unplug, InitControllers, EnterMainLoop, StartWatching, ReceiveUdev,
         ConnectFails
<1>4. DOMAIN workers' = DOMAIN workers
  BY <1>3
<1>5. ASSUME NEW w \in DOMAIN workers
      PROVE  /\ workers'[w].id = workers[w].id
             /\ workers'[w].state = workers[w].state
             /\ workers'[w].queue = workers[w].queue
  <2>1. workers[w] \in Worker
    BY DEF TypeOK
  <2>2. \A b \in BOOLEAN : LET r == [workers[w] EXCEPT !.attached = b]
                           IN  /\ r.id = workers[w].id
                               /\ r.state = workers[w].state
                               /\ r.queue = workers[w].queue
    BY <2>1 DEF Worker
  <2>3. \A d : (workers[w].attached /\ workers[w].dev # d) \in BOOLEAN
    BY Zenon
  <2> QED
    BY <1>3, <2>2, <2>3
<1> QED
  BY <1>1, <1>2, <1>4, <1>5, Quiet

\* The builder leaves every channel empty and every worker running.
LEMMA BuildLocks ==
  ASSUME TypeOK, LockInv, BuildControllers
  PROVE  LockInv'
<1> DEFINE opened == {e \in Entries : Openable(e.model) # {}}
           n == Cardinality(opened)
<1>1. n \in Nat
  BY EntriesTyped, FS_Subset, FS_CardinalityType
<1> HIDE DEF n
<1>2. PICK entry \in [1 .. n -> opened], dev \in [1 .. n -> plugged] :
        /\ workers' = [i \in 1 .. n |-> NewWorker(entry[i].id, dev[i], HidKey(dev[i]))]
        /\ mapping' = [id \in Ids |->
              IF \E i \in 1 .. n : entry[i].id = id
              THEN CHOOSE i \in 1 .. n : entry[i].id = id ELSE 0]
  BY Zenon DEF BuildControllers, n
<1>3. \A i \in DOMAIN workers' : /\ workers'[i].id = entry[i].id
                                 /\ workers'[i].state = "running"
                                 /\ workers'[i].queue = <<>>
  BY <1>2 DEF NewWorker
<1>4. \A id \in Ids : mapping'[id] # 0 => /\ mapping'[id] \in DOMAIN workers'
                                          /\ entry[mapping'[id]].id = id
  <2> SUFFICES ASSUME NEW id \in Ids, mapping'[id] # 0
               PROVE  mapping'[id] \in 1 .. n /\ entry[mapping'[id]].id = id
    BY <1>2
  <2>1. \E i \in 1 .. n : entry[i].id = id
    BY <1>2
  <2> QED
    BY <1>2, <2>1
<1>5. readers = {} /\ writer = "none"
  BY DEF LockInv, Unbuilt, BuildControllers
<1>6. UNCHANGED <<readers, todo, awaited, writer>> /\ phase' = "initializing"
  BY DEF BuildControllers, batches
<1>7. Unbuilt' /\ Locked'
  BY <1>6 DEF LockInv, Unbuilt, Locked
<1>8. MappedUnderId' /\ QueuedIsMapped' /\ QueuedIsAwaited' /\ StopIsAlone'
  BY <1>3, <1>4 DEF MappedUnderId, QueuedIsMapped, QueuedIsAwaited, StopIsAlone
<1>9. StoppedIsAddressed'
  BY <1>3, <1>4, <1>5, <1>6 DEF StoppedIsAddressed
<1> QED
  BY <1>7, <1>8, <1>9 DEF LockInv

\* The coordinator takes its next event while no Stop is under way.
LEMMA TakeLocks ==
  ASSUME TypeOK, LockInv, TakeEvent
  PROVE  LockInv'
<1>1. /\ writer = "none" /\ writer' = "waiting" /\ phase' = "looping"
      /\ UNCHANGED <<workers, mapping, idOf, readers, todo, awaited>>
  BY DEF TakeEvent, tables, batches
<1>2. Unbuilt' /\ Locked' /\ MappedUnderId' /\ QueuedIsMapped' /\ QueuedIsAwaited'
  BY <1>1 DEF LockInv, Unbuilt, Locked, MappedUnderId, QueuedIsMapped,
              QueuedIsAwaited, Running
<1>3. StopIsAlone' /\ StoppedIsAddressed'
  BY <1>1 DEF LockInv, StopIsAlone, StoppedIsAddressed
<1> QED
  BY <1>2, <1>3 DEF LockInv

\* A removal without a worker to stop.
LEMMA NoWorkerLocks ==
  ASSUME TypeOK, LockInv, DisconnectNoWorker
  PROVE  LockInv'
<1>1. /\ writer = "waiting" /\ writer' \in {"none", "waiting"}
      /\ phase' \in {phase, "exited"}
      /\ UNCHANGED <<workers, mapping, idOf, readers, todo, awaited, event>>
  BY DEF DisconnectNoWorker, Handling, tables, batches
<1>2. Unbuilt' /\ Locked' /\ MappedUnderId' /\ QueuedIsMapped' /\ QueuedIsAwaited'
  BY <1>1 DEF LockInv, Unbuilt, Locked, MappedUnderId, QueuedIsMapped,
              QueuedIsAwaited, Running
<1>3. StopIsAlone' /\ StoppedIsAddressed'
  BY <1>1 DEF LockInv, StopIsAlone, StoppedIsAddressed
<1> QED
  BY <1>2, <1>3 DEF LockInv

\* Another channel content is all that changes at one worker.
LEMMA QueueReplaced ==
  ASSUME TypeOK, NEW a \in DOMAIN workers, NEW q,
         workers' = [workers EXCEPT ![a].queue = q]
  PROVE  /\ DOMAIN workers' = DOMAIN workers
         /\ \A w \in DOMAIN workers :
               /\ workers'[w].id = workers[w].id /\ workers'[w].state = workers[w].state
               /\ workers'[w].queue = IF w = a THEN q ELSE workers[w].queue
<1>1. \A w \in DOMAIN workers : workers[w] \in Worker
  BY DEF TypeOK
<1> QED
  BY <1>1 DEF Worker

\* The Stop goes into an empty channel.
LEMMA SendStopLocks ==
  ASSUME TypeOK, LockInv, SendStop
  PROVE  LockInv'
<1>1. /\ writer = "waiting" /\ writer' = "stopping" /\ readers = {} /\ phase' = phase
      /\ UNCHANGED <<mapping, idOf, readers, todo, awaited, event>>
      /\ Addressed # 0 /\ workers[Addressed].state = "running"
  BY DEF SendStop, Handling, Running, tables, batches
<1>2. Addressed' = Addressed /\ Addressed \in DOMAIN workers
  BY <1>1, Facts DEF Addressed
<1>3. \A w \in DOMAIN workers : workers[w].queue = <<>>
  BY <1>1, Drained
<1>4. workers' = [workers EXCEPT ![Addressed].queue = <<Stop>>]
  <2>1. workers' = [workers EXCEPT ![Addressed].queue =
                       Append(workers[Addressed].queue, Stop)]
    BY DEF SendStop
  <2>2. Append(workers[Addressed].queue, Stop) = <<Stop>>
    <3>1. workers[Addressed].queue = <<>>
      BY <1>2, <1>3, Zenon
    <3>2. \A x : Append(<<>>, x) = <<x>>
      OBVIOUS
    <3> QED
      BY <3>1, <3>2, Zenon
  <2> QED
    BY <2>1, <2>2, Zenon
<1>5. /\ DOMAIN workers' = DOMAIN workers
      /\ \A w \in DOMAIN workers :
            /\ workers'[w].id = workers[w].id /\ workers'[w].state = workers[w].state
            /\ workers'[w].queue = IF w = Addressed THEN <<Stop>> ELSE <<>>
  BY <1>2, <1>3, <1>4, QueueReplaced
<1>6. idOf[event.key] \in Ids /\ mapping[idOf[event.key]] = Addressed
  BY <1>1, Facts DEF Addressed
<1>7. Unbuilt' /\ Locked'
  BY <1>1 DEF LockInv, Unbuilt, Locked
<1>8. MappedUnderId'
  BY <1>1, <1>5, Facts DEF LockInv, MappedUnderId
<1>9. QueuedIsMapped'
  BY <1>1, <1>5, <1>6 DEF LockInv, MappedUnderId, QueuedIsMapped, Running
<1>10. QueuedIsAwaited' /\ StopIsAlone'
  BY <1>1, <1>2, <1>5 DEF QueuedIsAwaited, StopIsAlone
<1>11. StoppedIsAddressed'
  BY <1>1, <1>2, <1>5, Facts DEF LockInv, StoppedIsAddressed
<1> QED
  BY <1>7, <1>8, <1>9, <1>10, <1>11 DEF LockInv

\* The answer to a Stop: the stopped worker leaves the table.
LEMMA StopAnsweredLocks ==
  ASSUME TypeOK, LockInv, StopAnswered
  PROVE  LockInv'
<1> DEFINE a == Addressed
           id == idOf[event.key]
<1>1. /\ writer = "stopping" /\ readers = {} /\ ~Running(a)
      /\ UNCHANGED <<workers, idOf, readers, todo, awaited, event>>
  BY DEF StopAnswered, LockInv, Locked, batches
<1>2. a \in DOMAIN workers /\ id \in Ids /\ mapping[id] = a
  BY <1>1, Facts DEF LockInv, StoppedIsAddressed, Addressed
<1>3. workers[a].id = id
  BY <1>2, Facts DEF LockInv, MappedUnderId
<1>4. \A w \in DOMAIN workers : workers[w].queue # <<>> => workers[w].id # id
  BY <1>1, <1>2 DEF LockInv, QueuedIsMapped
<1>5. CASE workers[a].state = "stopped"
  <2>1. /\ mapping' = [mapping EXCEPT ![id] = 0] /\ writer' = "none" /\ phase' = phase
        /\ mapping \in [Ids -> 0 .. Len(workers)]
    BY <1>5 DEF StopAnswered, TypeOK
  <2>2. \A i \in Ids : mapping'[i] = IF i = id THEN 0 ELSE mapping[i]
    BY <2>1
  <2>3. Unbuilt' /\ Locked'
    BY <1>1, <2>1 DEF LockInv, Unbuilt, Locked
  <2>4. MappedUnderId'
    BY <1>1, <2>2 DEF LockInv, MappedUnderId
  <2>5. QueuedIsMapped' /\ QueuedIsAwaited'
    BY <1>1, <1>4, <2>2, Facts DEF LockInv, QueuedIsMapped, QueuedIsAwaited, Running
  <2>6. StopIsAlone'
    BY <1>1, <1>3, <1>4 DEF LockInv, StopIsAlone
  <2>7. StoppedIsAddressed'
    BY <1>1, <1>3, <2>1, <2>2 DEF LockInv, MappedUnderId, StoppedIsAddressed
  <2> QED
    BY <2>3, <2>4, <2>5, <2>6, <2>7 DEF LockInv
<1>6. CASE workers[a].state # "stopped"
  <2>1. UNCHANGED <<mapping, writer>> /\ phase' = "exited"
    BY <1>6 DEF StopAnswered
  <2> QED
    BY <1>1, <2>1, Quiet
<1> QED
  BY <1>5, <1>6

\* An arrival maps an id to a worker with an empty channel; the worker it was
\* mapped to before, if any, has nothing left to do.
LEMMA ConnectLocks ==
  ASSUME TypeOK, LockInv, Connect
  PROVE  LockInv'
<1> DEFINE id == BuildId(event.key)
           new == Len(workers) + 1
<1>1. PICK d \in Openable(event.key.model) :
        /\ workers' = Append(workers, NewWorker(id, d, event.key))
        /\ mapping' = [mapping EXCEPT ![id] = new]
  BY DEF Connect
<1>2. /\ writer = "waiting" /\ writer' = "none" /\ readers = {} /\ phase' = phase
      /\ UNCHANGED <<readers, todo, awaited>>
  BY DEF Connect, Handling, batches
<1>3. id \in Ids
  BY KeysTyped, EventFields DEF BuildId, TypeOK
<1>4. /\ DOMAIN workers' = DOMAIN workers \union {new} /\ new \notin DOMAIN workers
      /\ new # 0
      /\ workers'[new] = NewWorker(id, d, event.key)
      /\ \A w \in DOMAIN workers : workers'[w] = workers[w]
  BY <1>1 DEF TypeOK
<1>5. /\ workers'[new].id = id /\ workers'[new].state = "running"
      /\ workers'[new].queue = <<>>
  BY <1>4 DEF NewWorker
<1> HIDE DEF id, new
<1>6. \A i \in Ids : mapping'[i] = IF i = id THEN new ELSE mapping[i]
  BY <1>1, <1>3 DEF TypeOK
<1>7. \A w \in DOMAIN workers' : workers'[w].queue = <<>>
  BY <1>2, <1>4, <1>5, Drained
<1>8. Unbuilt'
  BY <1>2 DEF LockInv, Unbuilt
<1>9. Locked'
  BY <1>2 DEF LockInv, Locked
<1>10. MappedUnderId'
  BY <1>4, <1>5, <1>6, Facts DEF LockInv, MappedUnderId
<1>11. QueuedIsMapped' /\ QueuedIsAwaited' /\ StopIsAlone'
  BY <1>7 DEF QueuedIsMapped, QueuedIsAwaited, StopIsAlone
<1>12. StoppedIsAddressed'
  BY <1>2, <1>4, <1>5, <1>6, Facts DEF LockInv, StoppedIsAddressed
<1> QED
  BY <1>8, <1>9, <1>10, <1>11, <1>12 DEF LockInv

\* A client begins a batch, or ends one.
LEMMA BatchLocks ==
  ASSUME TypeOK, LockInv, NEW c \in Clients, BeginBatch(c) \/ EndBatch(c)
  PROVE  LockInv'
<1>1. UNCHANGED <<workers, mapping, idOf, event, writer, phase, awaited>>
  BY DEF BeginBatch, EndBatch, tables
<1>2. Unbuilt'
  BY <1>1 DEF LockInv, Unbuilt, BeginBatch, EndBatch, Started
<1>3. Locked'
  <2>1. CASE BeginBatch(c)
    <3>1. PICK ids \in Batches[c] : todo' = [todo EXCEPT ![c] = ids]
      BY <2>1 DEF BeginBatch
    <3>2. \A e \in Clients : todo'[e] = IF e = c THEN ids ELSE todo[e]
      BY <3>1 DEF TypeOK
    <3>3. /\ writer = "none" /\ c \notin readers /\ readers' = readers \union {c}
      BY <2>1 DEF BeginBatch
    <3> QED
      BY <1>1, <3>2, <3>3 DEF LockInv, Locked
  <2>2. CASE EndBatch(c)
    BY <1>1, <2>2 DEF EndBatch, LockInv, Locked
  <2> QED
    BY <2>1, <2>2
<1>4. MappedUnderId' /\ QueuedIsMapped' /\ QueuedIsAwaited'
  BY <1>1 DEF LockInv, MappedUnderId, QueuedIsMapped, QueuedIsAwaited, Running
<1>5. StopIsAlone' /\ StoppedIsAddressed'
  BY <1>1 DEF LockInv, StopIsAlone, StoppedIsAddressed, Addressed
<1> QED
  BY <1>2, <1>3, <1>4, <1>5 DEF LockInv

\* A client without a worker to send to.
LEMMA SkipLocks ==
  ASSUME TypeOK, LockInv, NEW c \in Clients, NEW id \in Ids, SkipId(c, id)
  PROVE  LockInv'
<1>1. UNCHANGED <<workers, mapping, idOf, event, writer, phase, readers, awaited>>
  BY DEF SkipId, tables
<1>2. \A e \in Clients : todo'[e] \subseteq todo[e]
  BY DEF SkipId, TypeOK
<1>3. Unbuilt' /\ Locked'
  BY <1>1, <1>2 DEF LockInv, Unbuilt, Locked
<1>4. MappedUnderId' /\ QueuedIsMapped' /\ QueuedIsAwaited'
  BY <1>1 DEF LockInv, MappedUnderId, QueuedIsMapped, QueuedIsAwaited, Running
<1>5. StopIsAlone' /\ StoppedIsAddressed'
  BY <1>1 DEF LockInv, StopIsAlone, StoppedIsAddressed, Addressed
<1> QED
  BY <1>3, <1>4, <1>5 DEF LockInv

\* A command goes to the worker that is mapped, which has no Stop: the sender
\* has the read lock.
LEMMA SendLocks ==
  ASSUME TypeOK, LockInv, NEW c \in Clients, NEW id \in Ids, SendCommand(c, id)
  PROVE  LockInv'
<1> DEFINE a == mapping[id]
           q == Append(workers[a].queue, c)
<1>1. /\ id \in todo[c] /\ a # 0 /\ workers[a].state = "running"
      /\ UNCHANGED <<mapping, idOf, event, writer, phase, readers>>
  BY DEF SendCommand, Running, tables
<1>2. a \in DOMAIN workers /\ workers[a].id = id
  BY <1>1, Facts DEF LockInv, MappedUnderId
<1>3. c \in readers /\ writer # "stopping" /\ id \notin awaited[c] /\ c # Stop
  BY <1>1, ClientsAssumption DEF LockInv, Locked, Stop
<1>4. workers' = [workers EXCEPT ![a].queue = q]
  BY DEF SendCommand
<1> HIDE DEF a
<1>5. /\ workers[a].queue \in Seq(Clients \union {Stop})
      /\ DOMAIN q = DOMAIN workers[a].queue \union {Len(workers[a].queue) + 1}
      /\ q[Len(workers[a].queue) + 1] = c
      /\ \A i \in DOMAIN workers[a].queue : q[i] = workers[a].queue[i]
  <2>1. workers[a].queue \in Seq(Clients \union {Stop})
    BY <1>2, Facts
  <2> QED
    BY <2>1
<1>6. \A i \in DOMAIN workers[a].queue : workers[a].queue[i] \notin {c, Stop}
  BY <1>2, <1>3 DEF LockInv, QueuedIsAwaited, StopIsAlone
<1> HIDE DEF q
<1>7. /\ DOMAIN workers' = DOMAIN workers
      /\ \A w \in DOMAIN workers :
            /\ workers'[w].id = workers[w].id /\ workers'[w].state = workers[w].state
            /\ workers'[w].queue = IF w = a THEN q ELSE workers[w].queue
  BY <1>2, <1>4, QueueReplaced
<1>8. \A e \in Clients : /\ awaited'[e] = IF e = c THEN awaited[e] \union {id} ELSE awaited[e]
                         /\ todo'[e] = IF e = c THEN todo[e] \ {id} ELSE todo[e]
  BY DEF SendCommand, TypeOK
<1>9. Unbuilt' /\ Locked'
  BY <1>1, <1>3, <1>7, <1>8 DEF LockInv, Unbuilt, Locked
<1>10. MappedUnderId'
  BY <1>1, <1>7, Facts DEF LockInv, MappedUnderId
<1>11. QueuedIsMapped'
  BY <1>1, <1>2, <1>7 DEF LockInv, QueuedIsMapped, Running, a
<1>12. QueuedIsAwaited'
  <2> SUFFICES ASSUME NEW w \in DOMAIN workers, NEW i \in DOMAIN workers'[w].queue
               PROVE  /\ workers'[w].queue[i] # Stop
                            => workers[w].id \in awaited'[workers'[w].queue[i]]
                      /\ \A j \in DOMAIN workers'[w].queue :
                            workers'[w].queue[i] = workers'[w].queue[j] => i = j
    BY <1>7 DEF QueuedIsAwaited
  <2>1. CASE w = a
    <3> DEFINE last == Len(workers[a].queue) + 1
    <3>1. i \in DOMAIN q /\ workers'[w].queue = q
      BY <1>7, <2>1
    <3>2. last \notin DOMAIN workers[a].queue
      BY <1>5
    <3>3. \A j \in DOMAIN workers[a].queue :
             /\ workers[a].queue[j] \in Clients
             /\ id \in awaited[workers[a].queue[j]]
             /\ \A k \in DOMAIN workers[a].queue :
                   workers[a].queue[j] = workers[a].queue[k] => j = k
      <4> SUFFICES ASSUME NEW j \in DOMAIN workers[a].queue
                   PROVE  /\ workers[a].queue[j] \in Clients
                          /\ id \in awaited[workers[a].queue[j]]
                          /\ \A k \in DOMAIN workers[a].queue :
                                workers[a].queue[j] = workers[a].queue[k] => j = k
        OBVIOUS
      <4>1. workers[a].queue[j] \in Clients
        BY <1>5, <1>6
      <4> QED
        BY <1>2, <1>6, <4>1 DEF LockInv, QueuedIsAwaited
    <3> HIDE DEF last
    <3>4. DOMAIN q = DOMAIN workers[a].queue \union {last} /\ q[last] = c
      BY <1>5 DEF last
    <3>5. CASE i = last
      BY <1>2, <1>5, <1>6, <1>8, <2>1, <3>1, <3>4, <3>5
    <3>6. CASE i \in DOMAIN workers[a].queue
      <4>1. /\ q[i] \in Clients /\ id \in awaited[q[i]] /\ q[i] # c
            /\ q[i] = workers[a].queue[i]
        BY <1>5, <1>6, <3>3, <3>6
      <4>2. workers[w].id \in awaited'[q[i]]
        BY <1>2, <1>8, <2>1, <4>1
      <4>3. ASSUME NEW j \in DOMAIN q, q[i] = q[j] PROVE i = j
        <5>1. j # last
          BY <3>4, <4>1, <4>3
        <5>2. j \in DOMAIN workers[a].queue /\ q[j] = workers[a].queue[j]
          BY <1>5, <3>4, <5>1
        <5> QED
          BY <3>3, <3>6, <4>1, <4>3, <5>2
      <4> QED
        BY <3>1, <4>2, <4>3
    <3> QED
      BY <3>1, <3>4, <3>5, <3>6
  <2>2. CASE w # a
    <3>1. workers[w].queue \in Seq(Clients \union {Stop}) /\ i \in DOMAIN workers[w].queue
      BY <1>7, <2>2, Facts
    <3>2. workers[w].queue[i] \in Clients \union {Stop}
      BY <3>1
    <3>3. /\ workers[w].queue[i] # Stop => workers[w].id \in awaited[workers[w].queue[i]]
          /\ \A j \in DOMAIN workers[w].queue :
                workers[w].queue[i] = workers[w].queue[j] => i = j
      BY <3>1 DEF LockInv, QueuedIsAwaited
    <3>4. workers[w].queue[i] # Stop => workers[w].id \in awaited'[workers[w].queue[i]]
      BY <1>8, <3>2, <3>3
    <3>5. workers'[w].queue = workers[w].queue
      BY <1>7, <2>2
    <3> QED
      BY <3>3, <3>4, <3>5, Zenon
  <2> QED
    BY <2>1, <2>2
<1>13. StopIsAlone'
  BY <1>3, <1>5, <1>6, <1>7 DEF LockInv, StopIsAlone
<1>14. StoppedIsAddressed'
  BY <1>1, <1>7, Facts DEF LockInv, StoppedIsAddressed, Addressed
<1> QED
  BY <1>9, <1>10, <1>11, <1>12, <1>13, <1>14 DEF LockInv

\* A worker answers the command at the head of its channel.
LEMMA ServeLocks ==
  ASSUME TypeOK, LockInv, NEW w \in DOMAIN workers, Serve(w)
  PROVE  LockInv'
<1> DEFINE c == Head(workers[w].queue)
           q == Tail(workers[w].queue)
           id == workers[w].id
<1>1. /\ workers[w].queue # <<>> /\ workers[w].state = "running" /\ c # Stop
      /\ workers' = [workers EXCEPT ![w].queue = q]
      /\ UNCHANGED <<mapping, idOf, event, writer, phase, readers, todo>>
  BY DEF Serve, HasWork, tables
<1>2. id \in Ids /\ workers[w].queue \in Seq(Clients \union {Stop})
  BY Facts
<1>3. /\ c \in Clients /\ c = workers[w].queue[1] /\ 1 \in DOMAIN workers[w].queue
      /\ q = <<>> \/ DOMAIN q # {}
      /\ \A i \in DOMAIN q : /\ i + 1 \in DOMAIN workers[w].queue
                             /\ i + 1 # 1
                             /\ q[i] = workers[w].queue[i + 1]
      /\ \A i, j \in DOMAIN q : i + 1 = j + 1 => i = j
  BY <1>1, <1>2
<1>4. \A e \in Clients : awaited'[e] = IF e = c THEN awaited[e] \ {id} ELSE awaited[e]
  BY DEF Serve, Answer
<1> HIDE DEF c, q, id
<1>5. /\ DOMAIN workers' = DOMAIN workers
      /\ \A v \in DOMAIN workers :
            /\ workers'[v].id = workers[v].id /\ workers'[v].state = workers[v].state
            /\ workers'[v].queue = IF v = w THEN q ELSE workers[v].queue
  BY <1>1, QueueReplaced
<1>6. Unbuilt' /\ Locked'
  BY <1>1, <1>4, <1>5 DEF LockInv, Unbuilt, Locked
<1>7. MappedUnderId'
  BY <1>1, <1>5, Facts DEF LockInv, MappedUnderId
<1>8. QueuedIsMapped'
  BY <1>1, <1>5, Facts DEF LockInv, QueuedIsMapped, Running
<1>9. \A v \in DOMAIN workers : workers[v].queue # <<>> /\ workers[v].id = id => v = w
  BY <1>1 DEF LockInv, QueuedIsMapped, id
<1>10. \A i \in DOMAIN q : q[i] # c /\ q[i] \in Clients \union {Stop}
  BY <1>2, <1>3 DEF LockInv, QueuedIsAwaited
<1>11. QueuedIsAwaited'
  <2> SUFFICES ASSUME NEW v \in DOMAIN workers, NEW i \in DOMAIN workers'[v].queue
               PROVE  /\ workers'[v].queue[i] # Stop
                            => workers[v].id \in awaited'[workers'[v].queue[i]]
                      /\ \A j \in DOMAIN workers'[v].queue :
                            workers'[v].queue[i] = workers'[v].queue[j] => i = j
    BY <1>5 DEF QueuedIsAwaited
  <2>1. CASE v = w
    <3>1. workers'[v].queue = q /\ i \in DOMAIN q
      BY <1>5, <2>1
    <3>2. q[i] # Stop => workers[v].id \in awaited'[q[i]]
      <4>1. q[i] # Stop => /\ q[i] \in Clients /\ q[i] # c
                           /\ id \in awaited[q[i]]
        BY <1>3, <1>10, <3>1 DEF LockInv, QueuedIsAwaited, id
      <4> QED
        BY <1>4, <2>1, <4>1 DEF id
    <3>3. \A j \in DOMAIN q : q[i] = q[j] => i = j
      BY <1>3, <3>1 DEF LockInv, QueuedIsAwaited
    <3> QED
      BY <3>1, <3>2, <3>3
  <2>2. CASE v # w
    <3>1. workers'[v].queue = workers[v].queue /\ i \in DOMAIN workers[v].queue
      BY <1>5, <2>2
    <3>2. workers[v].queue \in Seq(Clients \union {Stop})
      BY Facts
    <3>3. workers[v].queue # <<>> /\ workers[v].queue[i] \in Clients \union {Stop}
      BY <3>1, <3>2
    <3>4. workers[v].id # id
      BY <1>9, <2>2, <3>3
    <3> QED
      BY <1>4, <3>1, <3>3, <3>4 DEF LockInv, QueuedIsAwaited
  <2> QED
    BY <2>1, <2>2
<1>12. StopIsAlone'
  <2>1. \A i \in DOMAIN workers[w].queue : workers[w].queue[i] # Stop
    <3> SUFFICES ASSUME NEW i \in DOMAIN workers[w].queue, workers[w].queue[i] = Stop
                 PROVE  FALSE
      OBVIOUS
    <3>1. workers[w].queue = <<Stop>>
      BY DEF LockInv, StopIsAlone
    <3> QED
      BY <1>1, <1>3, <3>1
  <2>2. \A i \in DOMAIN q : q[i] # Stop
    BY <1>3, <2>1
  <2>3. Addressed' = Addressed
    BY <1>1 DEF Addressed
  <2> QED
    BY <1>1, <1>5, <2>2, <2>3 DEF LockInv, StopIsAlone
<1>13. StoppedIsAddressed'
  BY <1>1, <1>5, Facts DEF LockInv, StoppedIsAddressed, Addressed
<1> QED
  BY <1>6, <1>7, <1>8, <1>11, <1>12, <1>13 DEF LockInv

\* A worker comes to its end: it was told to stop, or it panics.
LEMMA TerminateLocks ==
  ASSUME TypeOK, LockInv, NEW w \in DOMAIN workers, NEW state \in States,
         HasWork(w), Terminate(w, state),
         state = "stopped" => Head(workers[w].queue) = Stop
  PROVE  LockInv'
<1> DEFINE id == workers[w].id
<1>1. /\ workers[w].queue # <<>> /\ workers[w].state = "running"
      /\ UNCHANGED <<mapping, idOf, event, writer, phase, readers, todo>>
  BY DEF Terminate, HasWork, tables
<1>2. /\ DOMAIN workers' = DOMAIN workers
      /\ \A v \in DOMAIN workers :
            /\ workers'[v].id = workers[v].id
            /\ workers'[v].state = IF v = w THEN state ELSE workers[v].state
            /\ workers'[v].queue = IF v = w THEN <<>> ELSE workers[v].queue
  <2>1. \A v \in DOMAIN workers : workers[v] \in Worker
    BY DEF TypeOK
  <2>2. workers' = [workers EXCEPT ![w].state = state, ![w].queue = <<>>]
    BY DEF Terminate
  <2> QED
    BY <2>1, <2>2 DEF Worker
<1>3. \A e \in Clients : /\ awaited'[e] \subseteq awaited[e]
                         /\ \A i \in Ids : i # id /\ i \in awaited[e] => i \in awaited'[e]
  BY DEF Terminate, Answer
<1>4. Unbuilt' /\ Locked'
  BY <1>1, <1>2, <1>3 DEF LockInv, Unbuilt, Locked
<1>5. MappedUnderId'
  BY <1>1, <1>2, Facts DEF LockInv, MappedUnderId
<1>6. QueuedIsMapped'
  BY <1>1, <1>2, Facts DEF LockInv, QueuedIsMapped, Running
<1>7. \A v \in DOMAIN workers : workers[v].queue # <<>> /\ workers[v].id = id => v = w
  BY <1>1 DEF LockInv, QueuedIsMapped
<1>8. QueuedIsAwaited'
  <2> SUFFICES ASSUME NEW v \in DOMAIN workers, v # w, NEW i \in DOMAIN workers[v].queue
               PROVE  /\ workers[v].queue[i] # Stop
                            => workers[v].id \in awaited'[workers[v].queue[i]]
                      /\ \A j \in DOMAIN workers[v].queue :
                            workers[v].queue[i] = workers[v].queue[j] => i = j
    BY <1>2 DEF QueuedIsAwaited
  <2>1. workers[v].id \in Ids /\ workers[v].queue \in Seq(Clients \union {Stop})
    BY Facts
  <2>2. workers[v].queue # <<>> /\ workers[v].queue[i] \in Clients \union {Stop}
    BY <2>1
  <2>3. workers[v].id # id
    BY <1>7, <2>2
  <2> QED
    BY <1>3, <2>1, <2>2, <2>3 DEF LockInv, QueuedIsAwaited
<1>9. Addressed' = Addressed
  BY <1>1 DEF Addressed
<1>10. StopIsAlone'
  BY <1>1, <1>2, <1>9 DEF LockInv, StopIsAlone
<1>11. state = "stopped" => writer = "stopping" /\ w = Addressed
  <2>1. workers[w].queue \in Seq(Clients \union {Stop})
    BY Facts
  <2>2. 1 \in DOMAIN workers[w].queue /\ Head(workers[w].queue) = workers[w].queue[1]
    BY <1>1, <2>1
  <2> QED
    BY <2>2 DEF LockInv, StopIsAlone
<1>12. StoppedIsAddressed'
  BY <1>1, <1>2, <1>9, <1>11, Facts DEF LockInv, StoppedIsAddressed
<1> QED
  BY <1>4, <1>5, <1>6, <1>8, <1>10, <1>12 DEF LockInv

\* Every step keeps the invariant.
LEMMA LockStep == TypeOK /\ LockInv /\ [Next]_vars => LockInv'
<1> SUFFICES ASSUME TypeOK, LockInv, [Next]_vars PROVE LockInv'
  OBVIOUS
<1>1. CASE UNCHANGED vars
  BY <1>1, Quiet DEF vars, hardware, watch, tables, batches
<1>2. ASSUME NEW w \in DOMAIN workers, ServeStop(w) PROVE LockInv'
  BY <1>2, TerminateLocks DEF ServeStop, States
<1>3. ASSUME NEW w \in DOMAIN workers, PanicOnSpeed(w) PROVE LockInv'
  BY <1>3, TerminateLocks DEF PanicOnSpeed, States
<1> QED
  BY <1>1, <1>2, <1>3, QuietSteps, BuildLocks, TakeLocks, NoWorkerLocks, SendStopLocks,
     StopAnsweredLocks, ConnectLocks, BatchLocks, SkipLocks, SendLocks, ServeLocks
     DEF Next

\* The write lock keeps stopped workers away from the clients: whenever it is
\* not held for a Stop, what the table names has not been stopped.
THEOREM LiveWhenMapped == Spec => []MappedIsLive
<1>1. Init => LockInv
  BY LockInit
<1>2. TypeOK /\ TypeOK' /\ LockInv /\ [Next]_vars => LockInv'
  BY LockStep
<1>3. LockInv => MappedIsLive
  BY DEF LockInv, StoppedIsAddressed, MappedIsLive
<1> QED
  BY <1>1, <1>2, <1>3, TypeCorrect, PTL DEF Spec

\* A step that stops a worker takes a Stop from a channel that holds nothing
\* else.
LEMMA StopStep ==
  ASSUME TypeOK, LockInv, [Next]_vars,
         NEW w \in DOMAIN workers, Running(w), workers'[w].state = "stopped"
  PROVE  workers[w].queue = <<Stop>>
<1>1. workers[w].state = "running"
  BY DEF Running
<1>2. workers' # workers
  BY <1>1
<1>3. CASE BuildControllers
  BY <1>3 DEF BuildControllers, LockInv, Unbuilt
<1>4. ASSUME NEW d \in Devices, Unplug(d) PROVE FALSE
  <2>1. workers[w] \in Worker
    BY DEF TypeOK
  <2>2. workers'[w] = [workers[w] EXCEPT !.attached = @ /\ workers[w].dev # d]
    BY <1>4 DEF Unplug
  <2>3. workers'[w].state = workers[w].state
    BY <2>1, <2>2, Zenon DEF Worker
  <2> QED
    BY <1>1, <2>3
<1>5. CASE Connect
  <2>1. \E r : workers' = Append(workers, r)
    BY <1>5 DEF Connect
  <2>2. workers'[w] = workers[w]
    BY <2>1 DEF TypeOK
  <2> QED
    BY <1>1, <2>2
<1>6. ASSUME NEW a \in DOMAIN workers, NEW q, workers' = [workers EXCEPT ![a].queue = q]
      PROVE  FALSE
  BY <1>1, <1>6, QueueReplaced
<1>7. ~SendStop
  <2> SUFFICES ASSUME SendStop PROVE FALSE
    OBVIOUS
  <2>1. Addressed \in DOMAIN workers
    BY Facts DEF SendStop, Running
  <2> QED
    BY <1>6, <2>1 DEF SendStop
<1>8. ASSUME NEW c \in Clients, NEW id \in Ids, SendCommand(c, id) PROVE FALSE
  <2>1. mapping[id] \in DOMAIN workers
    BY <1>8, Facts DEF SendCommand, Running
  <2> QED
    BY <1>6, <1>8, <2>1 DEF SendCommand
<1>9. ASSUME NEW v \in DOMAIN workers, Serve(v) PROVE FALSE
  BY <1>6, <1>9 DEF Serve
<1>10. ASSUME NEW v \in DOMAIN workers, NEW state, HasWork(v), Terminate(v, state),
              v # w \/ state # "stopped"
       PROVE  FALSE
  <2>1. workers[w] \in Worker /\ workers[v] \in Worker
    BY DEF TypeOK
  <2>2. workers' = [workers EXCEPT ![v].state = state, ![v].queue = <<>>]
    BY <1>10 DEF Terminate
  <2>3. workers'[w].state = IF v = w THEN state ELSE workers[w].state
    BY <2>1, <2>2 DEF Worker
  <2> QED
    BY <1>1, <1>10, <2>3
<1>11. ASSUME NEW v \in DOMAIN workers, PanicOnSpeed(v) PROVE FALSE
  BY <1>10, <1>11 DEF PanicOnSpeed
<1>12. ASSUME NEW v \in DOMAIN workers, ServeStop(v) PROVE workers[w].queue = <<Stop>>
  <2>1. v = w /\ workers[w].queue # <<>> /\ Head(workers[w].queue) = Stop
    BY <1>10, <1>12 DEF ServeStop, HasWork
  <2>2. workers[w].queue \in Seq(Clients \union {Stop})
    BY Facts
  <2>3. 1 \in DOMAIN workers[w].queue /\ workers[w].queue[1] = Stop
    BY <2>1, <2>2
  <2> QED
    BY <2>3 DEF LockInv, StopIsAlone
<1>13. ASSUME UNCHANGED workers PROVE FALSE
  BY <1>2, <1>13
<1> QED
  BY <1>3, <1>4, <1>5, <1>7, <1>8, <1>9, <1>11, <1>12, <1>13
     DEF Next, vars, Plug, InitControllers, EnterMainLoop, StartWatching, ReceiveUdev,
         TakeEvent, DisconnectNoWorker, StopAnswered, ConnectFails, BeginBatch,
         EndBatch, SkipId

\* A worker that is told to stop drops no command of a batch.
THEOREM StopDropsNoCommand == Spec => StopDropsNothing
<1>1. Init => LockInv
  BY LockInit
<1>2. TypeOK /\ LockInv /\ [Next]_vars => LockInv'
  BY LockStep
<1>3. TypeOK /\ LockInv /\ [Next]_vars
        => [\A w \in DOMAIN workers : Running(w) /\ workers'[w].state = "stopped"
               => workers[w].queue = <<Stop>>]_workers
  BY StopStep
<1> QED
  BY <1>1, <1>2, <1>3, TypeCorrect, PTL DEF Spec, StopDropsNothing

-----------------------------------------------------------------------------
\* What is remembered of a fingerprint.

\* The file has one entry for a VID and PID.
OneEntryEach == \A d, e \in Configured : Model[d] = Model[e] => d = e

\* The ids that a device of a model may be given.
IdsOf(m) == {FallbackId[m]} \union {ConfigId[d] : d \in {e \in Configured : Model[e] = m}}

\* The registry remembers under which id a fingerprint was last driven.
Remembered ==
    /\ idOf = cache
    /\ \A k \in Fingerprint : cache[k] \in IdsOf(k.model) \union {NoId}
    /\ \A w \in DOMAIN workers :
          /\ cache[workers[w].key] = workers[w].id
          /\ workers[w].key.model = Model[workers[w].dev]

\* What start-up builds when a VID and PID has one entry: a worker for each model
\* that was opened, under an id the model may be given and that the registry
\* remembers for the fingerprint hidapi gives.
LEMMA BuildFacts ==
  ASSUME TypeOK, OneEntryEach, BuildControllers
  PROVE  /\ \A v, w \in DOMAIN workers' :
               Model[workers'[v].dev] = Model[workers'[w].dev] => v = w
         /\ \A w \in DOMAIN workers' :
               /\ workers'[w].dev \in plugged /\ workers'[w].dev \in Devices
               /\ workers'[w].key = HidKey(workers'[w].dev)
               /\ workers'[w].id \in IdsOf(Model[workers'[w].dev])
               /\ idOf'[workers'[w].key] = workers'[w].id
               /\ mapping'[workers'[w].id] \in DOMAIN workers'
               /\ workers'[mapping'[workers'[w].id]].id = workers'[w].id
         /\ \A k \in Fingerprint :
               \/ idOf'[k] = NoId
               \/ idOf'[k] \in IdsOf(k.model) /\ \E w \in DOMAIN workers' : workers'[w].key = k
         /\ cache' = idOf'
<1> DEFINE opened == {e \in Entries : Openable(e.model) # {}}
           n == Cardinality(opened)
<1>1. n \in Nat /\ IsFiniteSet(opened)
  BY EntriesTyped, FS_Subset, FS_CardinalityType
<1>2. IsFiniteSet(1 .. n) /\ Cardinality(1 .. n) = Cardinality(opened)
  <2>1. IsFiniteSet(1 .. n) /\ Cardinality(1 .. n) = IF 1 > n THEN 0 ELSE n - 1 + 1
    BY <1>1, FS_Interval
  <2> QED
    BY <1>1, <2>1
<1> HIDE DEF n
<1>3. PICK entry \in [1 .. n -> opened], dev \in [1 .. n -> plugged] :
        /\ \A e \in opened : \E i \in 1 .. n : entry[i] = e
        /\ \A i \in 1 .. n : Model[dev[i]] = entry[i].model
        /\ workers' = [i \in 1 .. n |-> NewWorker(entry[i].id, dev[i], HidKey(dev[i]))]
        /\ mapping' = [id \in Ids |->
              IF \E i \in 1 .. n : entry[i].id = id
              THEN CHOOSE i \in 1 .. n : entry[i].id = id ELSE 0]
        /\ idOf' = [k \in Fingerprint |->
              IF \E i \in 1 .. n : HidKey(dev[i]) = k
              THEN entry[CHOOSE i \in 1 .. n :
                            /\ HidKey(dev[i]) = k
                            /\ \A j \in (i + 1) .. n : HidKey(dev[j]) # k].id
              ELSE NoId]
        /\ cache' = idOf'
  BY Zenon DEF BuildControllers, n
<1>4. \A i, j \in 1 .. n : entry[i] = entry[j] => i = j
  <2>1. entry \in Surjection(1 .. n, opened)
    BY <1>3 DEF Surjection
  <2>2. entry \in Injection(1 .. n, opened)
    BY <1>2, <2>1, FS_SurjSameCardinalityImpliesInj
  <2> QED
    BY <2>2 DEF Injection, IsInjective
<1>5. \A i \in 1 .. n : /\ entry[i] \in Entries /\ entry[i].id \in Ids
                        /\ dev[i] \in plugged /\ dev[i] \in Devices
                        /\ entry[i].model = Model[dev[i]]
                        /\ HidKey(dev[i]) \in Fingerprint
                        /\ HidKey(dev[i]).model = Model[dev[i]]
  BY <1>3, EntriesTyped, KeysTyped DEF TypeOK
<1> HIDE DEF opened
<1>6. \A e, f \in Entries : e.model = f.model => e = f
  <2>1. \A e \in Entries :
           \/ \E d \in Configured : e = [id |-> ConfigId[d], model |-> Model[d]]
           \/ ~InConfig(e.model) /\ e = Fallback(e.model)
    BY DEF Entries, Fallback
  <2>2. \A e \in Entries : (\E d \in Configured : e = [id |-> ConfigId[d], model |-> Model[d]])
                              => InConfig(e.model)
    BY DEF InConfig
  <2> QED
    BY <2>1, <2>2 DEF OneEntryEach
<1>7. \A i, j \in 1 .. n : Model[dev[i]] = Model[dev[j]] => i = j
  BY <1>4, <1>5, <1>6
<1>8. \A i \in 1 .. n : entry[i].id \in IdsOf(Model[dev[i]])
  <2> SUFFICES ASSUME NEW i \in 1 .. n PROVE entry[i].id \in IdsOf(Model[dev[i]])
    OBVIOUS
  <2>1. CASE \E d \in Configured : entry[i] = [id |-> ConfigId[d], model |-> Model[d]]
    <3>1. PICK d \in Configured : entry[i] = [id |-> ConfigId[d], model |-> Model[d]]
      BY <2>1
    <3>2. Model[d] = Model[dev[i]]
      BY <1>5, <3>1
    <3> QED
      BY <3>1, <3>2 DEF IdsOf
  <2>2. CASE \E m : entry[i] = Fallback(m)
    BY <1>5, <2>2 DEF Fallback, IdsOf
  <2> QED
    BY <1>5, <2>1, <2>2 DEF Entries
<1>9. \A i \in 1 .. n : idOf'[HidKey(dev[i])] = entry[i].id
  <2> SUFFICES ASSUME NEW i \in 1 .. n PROVE idOf'[HidKey(dev[i])] = entry[i].id
    OBVIOUS
  <2> DEFINE key == HidKey(dev[i])
             last(k) == /\ HidKey(dev[k]) = key
                        /\ \A j \in (k + 1) .. n : HidKey(dev[j]) # key
             k == CHOOSE k \in 1 .. n : last(k)
  <2>1. \A j \in 1 .. n : HidKey(dev[j]) = key => j = i
    BY <1>5, <1>7
  <2>2. last(i)
    BY <1>1, <2>1
  <2>3. k \in 1 .. n /\ last(k)
    BY <2>2
  <2>4. k = i
    BY <2>1, <2>3
  <2>5. idOf'[key] = entry[k].id
    BY <1>3, <1>5
  <2> QED
    BY <2>4, <2>5
<1>10. \A k \in Fingerprint :
         idOf'[k] = NoId \/ \E i \in 1 .. n : HidKey(dev[i]) = k
  BY <1>3
<1>11. \A i \in 1 .. n : /\ mapping'[entry[i].id] \in 1 .. n
                         /\ entry[mapping'[entry[i].id]].id = entry[i].id
  <2> SUFFICES ASSUME NEW i \in 1 .. n
               PROVE  /\ mapping'[entry[i].id] \in 1 .. n
                      /\ entry[mapping'[entry[i].id]].id = entry[i].id
    OBVIOUS
  <2>1. mapping'[entry[i].id] = CHOOSE j \in 1 .. n : entry[j].id = entry[i].id
    BY <1>3, <1>5
  <2> QED
    BY <2>1
<1>12. /\ DOMAIN workers' = 1 .. n
       /\ \A i \in 1 .. n : /\ workers'[i].id = entry[i].id /\ workers'[i].dev = dev[i]
                             /\ workers'[i].key = HidKey(dev[i])
  BY <1>3 DEF NewWorker
<1>13. \A v, w \in DOMAIN workers' :
          Model[workers'[v].dev] = Model[workers'[w].dev] => v = w
  BY <1>7, <1>12
<1>14. \A w \in DOMAIN workers' :
          /\ workers'[w].dev \in plugged /\ workers'[w].dev \in Devices
          /\ workers'[w].key = HidKey(workers'[w].dev)
          /\ workers'[w].id \in IdsOf(Model[workers'[w].dev])
          /\ idOf'[workers'[w].key] = workers'[w].id
  BY <1>5, <1>8, <1>9, <1>12
<1>15. \A w \in DOMAIN workers' :
          /\ mapping'[workers'[w].id] \in DOMAIN workers'
          /\ workers'[mapping'[workers'[w].id]].id = workers'[w].id
  BY <1>11, <1>12
<1>16. \A k \in Fingerprint :
          \/ idOf'[k] = NoId
          \/ idOf'[k] \in IdsOf(k.model) /\ \E w \in DOMAIN workers' : workers'[w].key = k
  <2> SUFFICES ASSUME NEW i \in 1 .. n
               PROVE  /\ idOf'[HidKey(dev[i])] \in IdsOf(HidKey(dev[i]).model)
                      /\ \E w \in DOMAIN workers' : workers'[w].key = HidKey(dev[i])
    BY <1>10
  <2> QED
    BY <1>5, <1>8, <1>9, <1>12
<1> QED
  BY <1>3, <1>13, <1>14, <1>15, <1>16

\* An arrival adds one worker, for a device of the model that has arrived, under
\* an id it may be given and that the registry remembers from now on.
LEMMA ConnectFacts ==
  ASSUME TypeOK, Remembered, Connect
  PROVE  LET k == event.key
             new == Len(workers) + 1
         IN  /\ DOMAIN workers' = DOMAIN workers \union {new} /\ new \notin DOMAIN workers
             /\ \A w \in DOMAIN workers : workers'[w] = workers[w]
             /\ workers'[new].dev \in plugged /\ workers'[new].dev \in Devices
             /\ Model[workers'[new].dev] = k.model
             /\ workers'[new].key = k /\ workers'[new].id = BuildId(k)
             /\ BuildId(k) \in IdsOf(k.model) \intersect Ids
             /\ cache[k] # NoId => cache[k] = BuildId(k)
             /\ \A x \in Fingerprint : cache'[x] = IF x = k THEN BuildId(k) ELSE cache[x]
             /\ \A id \in Ids : mapping'[id] = IF id = BuildId(k) THEN new ELSE mapping[id]
             /\ idOf' = cache'
<1> DEFINE k == event.key
           new == Len(workers) + 1
<1>1. PICK x \in Openable(k.model) :
        /\ workers' = Append(workers, NewWorker(BuildId(k), x, k))
        /\ mapping' = [mapping EXCEPT ![BuildId(k)] = new]
        /\ idOf' = [idOf EXCEPT ![k] = BuildId(k)]
        /\ cache' = [cache EXCEPT ![k] = BuildId(k)]
  BY DEF Connect
<1>2. k \in Fingerprint
  BY EventFields DEF TypeOK
<1>3. x \in plugged /\ x \in Devices /\ Model[x] = k.model
  BY <1>1 DEF Openable, TypeOK
<1>4. cache[k] # NoId => cache[k] = BuildId(k)
  BY DEF BuildId
<1>5. BuildId(k) \in IdsOf(k.model) /\ BuildId(k) \in Ids
  BY <1>2, KeysTyped DEF BuildId, Remembered, IdsOf, TypeOK
<1>6. /\ DOMAIN workers' = DOMAIN workers \union {new} /\ new \notin DOMAIN workers
      /\ \A w \in DOMAIN workers : workers'[w] = workers[w]
      /\ workers'[new] = NewWorker(BuildId(k), x, k)
  BY <1>1 DEF TypeOK
<1>7. workers'[new].dev = x /\ workers'[new].id = BuildId(k) /\ workers'[new].key = k
  BY <1>6 DEF NewWorker
<1>8. \A y \in Fingerprint : cache'[y] = IF y = k THEN BuildId(k) ELSE cache[y]
  BY <1>1 DEF TypeOK
<1>9. \A id \in Ids : mapping'[id] = IF id = BuildId(k) THEN new ELSE mapping[id]
  BY <1>1 DEF TypeOK
<1>10. idOf' = cache'
  BY <1>1, Zenon DEF Remembered
<1> HIDE DEF k, new
<1>11. /\ workers'[new].dev \in plugged /\ workers'[new].dev \in Devices
       /\ Model[workers'[new].dev] = k.model
  BY <1>3, <1>7
<1> QED
  BY <1>4, <1>5, <1>6, <1>7, <1>8, <1>9, <1>10, <1>11 DEF k, new

\* Every other step leaves the workers there are, their devices, fingerprints
\* and ids, and
\* what is remembered; it starts no worker.
LEMMA Kept ==
  ASSUME TypeOK, [Next]_vars, ~BuildControllers, ~Connect
  PROVE  /\ idOf' = idOf /\ cache' = cache
         /\ DOMAIN workers' = DOMAIN workers
         /\ \A w \in DOMAIN workers :
               /\ workers'[w].id = workers[w].id /\ workers'[w].dev = workers[w].dev
               /\ workers'[w].key = workers[w].key
               /\ workers'[w].state = "running" => workers[w].state = "running"
<1>1. idOf' = idOf /\ cache' = cache
  BY DEF Next, vars, Plug, Unplug, InitControllers, EnterMainLoop, StartWatching,
         ReceiveUdev, TakeEvent, DisconnectNoWorker, SendStop, StopAnswered,
         ConnectFails, BeginBatch, EndBatch, SkipId, SendCommand, Serve, ServeStop,
         PanicOnSpeed, Terminate, tables
<1> DEFINE kept == /\ DOMAIN workers' = DOMAIN workers
                   /\ \A w \in DOMAIN workers :
                        /\ workers'[w].id = workers[w].id
                        /\ workers'[w].dev = workers[w].dev
                        /\ workers'[w].key = workers[w].key
                        /\ workers'[w].state = "running" => workers[w].state = "running"
<1>2. \A w \in DOMAIN workers : workers[w] \in Worker
  BY DEF TypeOK
<1>3. ASSUME NEW d \in Devices, Unplug(d) PROVE kept
  <2>1. \A b : \A w \in DOMAIN workers :
           LET r == [workers[w] EXCEPT !.attached = b]
           IN /\ r.id = workers[w].id /\ r.dev = workers[w].dev
              /\ r.key = workers[w].key /\ r.state = workers[w].state
    BY <1>2 DEF Worker
  <2> QED
    BY <1>3, <2>1 DEF Unplug
<1>4. ASSUME NEW a \in DOMAIN workers, NEW q, workers' = [workers EXCEPT ![a].queue = q]
      PROVE  kept
  BY <1>2, <1>4 DEF Worker
<1>5. ASSUME SendStop PROVE kept
  <2>1. Addressed \in DOMAIN workers
    BY <1>5, Facts DEF SendStop, Running
  <2>2. workers' = [workers EXCEPT ![Addressed].queue =
                       Append(workers[Addressed].queue, Stop)]
    BY <1>5 DEF SendStop
  <2> HIDE DEF kept
  <2> QED
    BY <1>4, <2>1, <2>2
<1>6. ASSUME NEW c \in Clients, NEW id \in Ids, SendCommand(c, id) PROVE kept
  <2>1. mapping[id] \in DOMAIN workers
    BY <1>6, Facts DEF SendCommand, Running
  <2> QED
    BY <1>4, <1>6, <2>1 DEF SendCommand
<1>7. ASSUME NEW v \in DOMAIN workers, Serve(v) PROVE kept
  BY <1>4, <1>7 DEF Serve
<1>8. ASSUME NEW v \in DOMAIN workers, ServeStop(v) \/ PanicOnSpeed(v) PROVE kept
  <2>1. PICK state \in {"stopped", "panicked"} :
           workers' = [workers EXCEPT ![v].state = state, ![v].queue = <<>>]
    BY <1>8 DEF ServeStop, PanicOnSpeed, Terminate
  <2> QED
    BY <1>2, <2>1 DEF Worker
<1>9. ASSUME UNCHANGED workers PROVE kept
  BY <1>9
<1>10. kept
  BY <1>3, <1>5, <1>6, <1>7, <1>8, <1>9
     DEF Next, vars, Plug, InitControllers, EnterMainLoop, StartWatching, ReceiveUdev,
         TakeEvent, DisconnectNoWorker, StopAnswered, ConnectFails, BeginBatch,
         EndBatch, SkipId
<1> QED
  BY <1>1, <1>10

\* What is remembered agrees with the workers, from step to step.
LEMMA RememberedStep ==
  ASSUME TypeOK, OneEntryEach, Remembered, [Next]_vars
  PROVE  Remembered'
<1>1. CASE BuildControllers
  <2>1. \A w \in DOMAIN workers' : workers'[w].key.model = Model[workers'[w].dev]
    BY <1>1, BuildFacts, KeysTyped
  <2> QED
    BY <1>1, <2>1, BuildFacts DEF Remembered
<1>2. CASE Connect
  <2> DEFINE k == event.key
             new == Len(workers) + 1
  <2>1. \A x \in Fingerprint : cache'[x] \in IdsOf(x.model) \union {NoId}
    BY <1>2, ConnectFacts DEF Remembered
  <2>2. ASSUME NEW w \in DOMAIN workers
        PROVE  /\ cache'[workers'[w].key] = workers'[w].id
               /\ workers'[w].key.model = Model[workers'[w].dev]
    <3>1. workers[w] \in Worker
      BY DEF TypeOK
    <3>2. workers[w].key \in Fingerprint /\ workers[w].id \in Ids
      BY <3>1, WorkerFields, Zenon
    <3>3. workers[w].id # NoId
      BY <3>2, DevicesAssumption
    <3> QED
      BY <1>2, <3>2, <3>3, ConnectFacts DEF Remembered
  <2>3. k \in Fingerprint
    BY EventFields DEF TypeOK
  <2>4. /\ cache'[workers'[new].key] = workers'[new].id
        /\ workers'[new].key.model = Model[workers'[new].dev]
    BY <1>2, <2>3, ConnectFacts
  <2> QED
    BY <1>2, <2>1, <2>2, <2>4, ConnectFacts DEF Remembered
<1>3. CASE ~BuildControllers /\ ~Connect
  BY <1>3, Kept DEF Remembered
<1> QED
  BY <1>1, <1>2, <1>3

\* When the file has one entry for a VID and PID, a device that comes back with a
\* fingerprint it was driven under is driven under the same id, whatever was lost
\* or overtaken in between, and whatever serial numbers hidapi and udev read.
THEOREM SameId ==
  ASSUME OneEntryEach
  PROVE  Spec => []SameIdOnReturn
<1>1. Init => Remembered
  BY DEF Init, Remembered
<1>2. TypeOK /\ Remembered /\ [Next]_vars => Remembered'
  BY RememberedStep
<1>3. Remembered => SameIdOnReturn
  BY Zenon DEF Remembered, SameIdOnReturn
<1> QED
  BY <1>1, <1>2, <1>3, TypeCorrect, PTL DEF Spec

-----------------------------------------------------------------------------
\* One driver for each device.

\* Devices of different models: a VID and PID opens one device.
DistinctModels == \A d, e \in Devices : Model[d] = Model[e] => d = e

\* No id is given to devices of two models.
DistinctIds == \A m, n \in Models : m # n => IdsOf(m) \intersect IdsOf(n) = {}

\* udev always finds the same serial number of a device, be it hidapi's or not.
SteadySerials == \A d \in Devices : \A k, l \in UdevKeys(d) : k = l

\* Before the main loop nothing is announced; only a removal stops a worker.
Early ==
    /\ phase \in {"building", "initializing", "starting"} =>
          udev = <<>> /\ inbox = <<>> /\ writer = "none"
    /\ writer = "stopping" => event.type = "Remove"

\* A running worker is in the table.
RunningIsMapped ==
    \A w \in DOMAIN workers : workers[w].state = "running" => mapping[workers[w].id] = w

\* The fingerprint by which udev knows a running worker's device is the one it was
\* started for, or one under which nothing was ever driven.
KnownOrNew ==
    \A w \in DOMAIN workers : workers[w].state = "running" =>
        /\ workers[w].key \in {HidKey(workers[w].dev)} \union UdevKeys(workers[w].dev)
        /\ \A k \in UdevKeys(workers[w].dev) : k = workers[w].key \/ cache[k] = NoId

\* What has been announced and not been dealt with, oldest first.
Pending == (IF writer = "none" THEN <<>> ELSE <<event>>) \o inbox \o udev

\* Devices that no running worker drives.
Undriven == {d \in Devices : \A w \in DOMAIN workers :
                workers[w].dev = d => workers[w].state # "running"}

\* Announcements P, devices present and devices without a worker fit together:
\* the announcements of one device alternate, the last one tells whether it is
\* present, and nobody drives a device whose arrival is the next thing to be
\* dealt with, or that has gone with nothing left to be dealt with.
First(P, i) == \A k \in DOMAIN P : k < i => P[k].dev # P[i].dev
Last(P, i) == \A k \in DOMAIN P : i < k => P[k].dev # P[i].dev

Fit(P, present, free) ==
    /\ \A i, j \in DOMAIN P :
          i < j /\ P[i].dev = P[j].dev /\ P[i].type = P[j].type =>
             \E k \in DOMAIN P : i < k /\ k < j /\ P[k].dev = P[i].dev
    /\ \A i \in DOMAIN P : Last(P, i) => (P[i].type = "Add" <=> P[i].dev \in present)
    /\ \A i \in DOMAIN P : P[i].type = "Add" /\ First(P, i) => P[i].dev \in free
    /\ \A d \in Devices : d \notin present /\ (\A k \in DOMAIN P : P[k].dev # d)
                             => d \in free

InTurn == Early /\ RunningIsMapped /\ KnownOrNew /\ Fit(Pending, plugged, Undriven)

\* An arrival or a removal is announced.
LEMMA FitAppend ==
  ASSUME NEW P \in Seq(HotplugEvent), NEW present, NEW free, Fit(P, present, free),
         NEW e \in HotplugEvent, e.type = "Add" <=> e.dev \notin present, NEW now,
         \A d : d \in now <=> (IF d = e.dev THEN e.type = "Add" ELSE d \in present)
  PROVE  Fit(Append(P, e), now, free)
<1> DEFINE Q == Append(P, e)
           n == Len(P) + 1
<1>1. /\ DOMAIN Q = DOMAIN P \union {n} /\ Q[n] = e
      /\ \A i \in DOMAIN P : Q[i] = P[i] /\ i < n /\ ~(n < i) /\ i # n
      /\ ~(n < n) /\ n \notin DOMAIN P
      /\ \A i \in DOMAIN P : P[i] \in HotplugEvent
  OBVIOUS
<1>2. \A f \in HotplugEvent : f.type \in {"Add", "Remove"} /\ f.dev \in Devices
  BY DEF HotplugEvent
<1> HIDE DEF Q, n
<1>3. ASSUME NEW i \in DOMAIN Q, NEW j \in DOMAIN Q, i < j,
             Q[i].dev = Q[j].dev, Q[i].type = Q[j].type
      PROVE  \E k \in DOMAIN Q : i < k /\ k < j /\ Q[k].dev = Q[i].dev
  <2>1. CASE j \in DOMAIN P
    BY <1>1, <1>3, <2>1 DEF Fit
  <2>2. CASE j = n
    <3>1. i \in DOMAIN P /\ P[i] = Q[i] /\ P[i].dev = e.dev /\ P[i].type = e.type
      BY <1>1, <1>3, <2>2
    <3>2. ~Last(P, i)
      BY <1>2, <3>1 DEF Fit
    <3>3. PICK k \in DOMAIN P : i < k /\ P[k].dev = P[i].dev
      BY <3>2 DEF Last
    <3> QED
      BY <1>1, <2>2, <3>1, <3>3
  <2> QED
    BY <1>1, <2>1, <2>2
<1>4. ASSUME NEW i \in DOMAIN Q, Last(Q, i)
      PROVE  Q[i].type = "Add" <=> Q[i].dev \in now
  <2>1. CASE i = n
    BY <1>1, <2>1
  <2>2. CASE i \in DOMAIN P
    <3>1. Last(P, i) /\ P[i].dev # e.dev /\ Q[i] = P[i]
      BY <1>1, <1>4, <2>2 DEF Last
    <3> QED
      BY <2>2, <3>1 DEF Fit
  <2> QED
    BY <1>1, <2>1, <2>2
<1>5. ASSUME NEW i \in DOMAIN Q, Q[i].type = "Add", First(Q, i)
      PROVE  Q[i].dev \in free
  <2>1. CASE i = n
    <3>1. e.dev \notin present /\ \A k \in DOMAIN P : P[k].dev # e.dev
      BY <1>1, <1>5, <2>1 DEF First
    <3> QED
      BY <1>1, <1>2, <2>1, <3>1 DEF Fit
  <2>2. CASE i \in DOMAIN P
    <3>1. First(P, i) /\ Q[i] = P[i]
      BY <1>1, <1>5, <2>2 DEF First
    <3> QED
      BY <1>5, <2>2, <3>1 DEF Fit
  <2> QED
    BY <1>1, <2>1, <2>2
<1>6. ASSUME NEW d \in Devices, d \notin now, \A k \in DOMAIN Q : Q[k].dev # d
      PROVE  d \in free
  <2>1. d # e.dev /\ d \notin present /\ \A k \in DOMAIN P : P[k].dev # d
    BY <1>1, <1>6
  <2> QED
    BY <2>1 DEF Fit
<1> QED
  BY <1>3, <1>4, <1>5, <1>6 DEF Fit, Q

\* The oldest announcement is dealt with: after a removal nobody drives the
\* device, after an arrival somebody may, if it is present.
LEMMA FitTail ==
  ASSUME NEW P \in Seq(HotplugEvent), NEW present, NEW free, NEW left,
         P # <<>>, Fit(P, present, free),
         free \ {P[1].dev} \subseteq left,
         P[1].dev \in IF P[1].type = "Remove" THEN left ELSE present
  PROVE  Fit(Tail(P), present, left)
<1> DEFINE Q == Tail(P)
           d == P[1].dev
<1>1. /\ 1 \in DOMAIN P
      /\ \A i \in DOMAIN Q : i \in Nat /\ i + 1 \in DOMAIN P /\ Q[i] = P[i + 1] /\ 1 < i + 1
      /\ \A i \in DOMAIN P : i # 1 => 1 < i /\ i - 1 \in DOMAIN Q /\ (i - 1) + 1 = i /\ i \in Nat
      /\ \A i \in DOMAIN P : P[i] \in HotplugEvent
  OBVIOUS
<1>2. \A f \in HotplugEvent : f.type \in {"Add", "Remove"} /\ f.dev \in Devices
  BY DEF HotplugEvent
<1> HIDE DEF Q
<1>3. \A i, j \in Nat : i < j <=> i + 1 < j + 1
  OBVIOUS
<1>4. ASSUME NEW i \in DOMAIN Q, NEW j \in DOMAIN Q, i < j,
             Q[i].dev = Q[j].dev, Q[i].type = Q[j].type
      PROVE  \E k \in DOMAIN Q : i < k /\ k < j /\ Q[k].dev = Q[i].dev
  <2>1. PICK k \in DOMAIN P : i + 1 < k /\ k < j + 1 /\ P[k].dev = P[i + 1].dev
    BY <1>1, <1>3, <1>4 DEF Fit
  <2>2. k # 1 /\ i < k - 1 /\ k - 1 < j /\ k - 1 \in DOMAIN Q /\ Q[k - 1] = P[k]
    BY <1>1, <2>1
  <2> QED
    BY <1>1, <2>1, <2>2
<1>5. ASSUME NEW i \in DOMAIN Q, Last(Q, i)
      PROVE  Q[i].type = "Add" <=> Q[i].dev \in present
  <2>1. Last(P, i + 1)
    <3> SUFFICES ASSUME NEW k \in DOMAIN P, i + 1 < k PROVE P[k].dev # P[i + 1].dev
      BY DEF Last
    <3>1. k - 1 \in DOMAIN Q /\ i < k - 1 /\ Q[k - 1] = P[k]
      BY <1>1
    <3> QED
      BY <1>1, <1>5, <3>1 DEF Last
  <2> QED
    BY <1>1, <2>1 DEF Fit
<1>6. ASSUME NEW i \in DOMAIN Q, Q[i].type = "Add", First(Q, i)
      PROVE  Q[i].dev \in left
  <2>1. CASE Q[i].dev # d
    <3>1. First(P, i + 1)
      <4> SUFFICES ASSUME NEW k \in DOMAIN P, k < i + 1 PROVE P[k].dev # P[i + 1].dev
        BY DEF First
      <4>1. CASE k = 1
        BY <1>1, <2>1, <4>1
      <4>2. CASE k # 1
        <5>1. k - 1 \in DOMAIN Q /\ k - 1 < i /\ Q[k - 1] = P[k]
          BY <1>1, <4>2
        <5> QED
          BY <1>1, <1>6, <5>1 DEF First
      <4> QED
        BY <4>1, <4>2
    <3>2. P[i + 1].dev \in free
      BY <1>1, <1>6, <3>1 DEF Fit
    <3> QED
      BY <1>1, <2>1, <3>2
  <2>2. CASE Q[i].dev = d
    <3>1. P[1].type = "Remove"
      <4> SUFFICES ASSUME P[1].type # "Remove" PROVE FALSE
        OBVIOUS
      <4>1. P[1].type = P[i + 1].type /\ P[1].dev = P[i + 1].dev /\ 1 < i + 1
        BY <1>1, <1>2, <1>6, <2>2
      <4>2. PICK k \in DOMAIN P : 1 < k /\ k < i + 1 /\ P[k].dev = d
        BY <1>1, <4>1 DEF Fit
      <4>3. k - 1 \in DOMAIN Q /\ k - 1 < i /\ Q[k - 1] = P[k]
        BY <1>1, <4>2
      <4> QED
        BY <1>6, <2>2, <4>2, <4>3 DEF First
    <3> QED
      BY <2>2, <3>1
  <2> QED
    BY <2>1, <2>2
<1>7. ASSUME NEW x \in Devices, x \notin present, \A k \in DOMAIN Q : Q[k].dev # x
      PROVE  x \in left
  <2>1. CASE x = d
    BY <1>1, <1>2, <1>7, <2>1
  <2>2. CASE x # d
    <3>1. \A k \in DOMAIN P : P[k].dev # x
      BY <1>1, <1>7, <2>2
    <3>2. x \in free
      BY <1>7, <3>1 DEF Fit
    <3> QED
      BY <2>2, <3>2
  <2> QED
    BY <2>1, <2>2
<1> QED
  BY <1>4, <1>5, <1>6, <1>7 DEF Fit, Q

\* More devices without a worker still fit.
LEMMA FitMore ==
  ASSUME NEW P, NEW present, NEW free, NEW more, Fit(P, present, free), free \subseteq more
  PROVE  Fit(P, present, more)
  BY DEF Fit

\* How the pending announcements go from step to step.
LEMMA PendingTyped ==
  ASSUME TypeOK
  PROVE  /\ Pending \in Seq(HotplugEvent)
         /\ \A e \in HotplugEvent :
               (IF writer = "none" THEN <<>> ELSE <<event>>) \o inbox \o Append(udev, e)
                  = Append(Pending, e)
         /\ writer # "none" => Pending # <<>> /\ Pending[1] = event
                                /\ Tail(Pending) = <<>> \o inbox \o udev
         /\ udev # <<>> =>
               (IF writer = "none" THEN <<>> ELSE <<event>>)
                  \o Append(inbox, Head(udev)) \o Tail(udev) = Pending
         /\ inbox # <<>> /\ writer = "none" =>
               <<Head(inbox)>> \o Tail(inbox) \o udev = Pending
<1> DEFINE now == IF writer = "none" THEN <<>> ELSE <<event>>
<1>1. now \in Seq(HotplugEvent) /\ inbox \in Seq(HotplugEvent) /\ udev \in Seq(HotplugEvent)
  BY DEF TypeOK
<1>2. Pending = now \o inbox \o udev
  BY DEF Pending
<1>3. writer # "none" => now = <<event>> /\ event \in HotplugEvent
  BY DEF TypeOK
<1>4. writer = "none" => now = <<>>
  OBVIOUS
<1> HIDE DEF now
<1>5. Pending \in Seq(HotplugEvent)
  BY <1>1, <1>2
<1>6. \A e \in HotplugEvent : now \o inbox \o Append(udev, e) = Append(Pending, e)
  BY <1>1, <1>2
<1>7. writer # "none" => Pending # <<>> /\ Pending[1] = event
                          /\ Tail(Pending) = <<>> \o inbox \o udev
  <2> DEFINE rest == inbox \o udev
  <2> SUFFICES ASSUME writer # "none"
               PROVE  Pending # <<>> /\ Pending[1] = event /\ Tail(Pending) = rest
    BY <1>1, ConcatEmptySeq
  <2>1. rest \in Seq(HotplugEvent)
    BY <1>1
  <2>2. Pending = <<event>> \o rest
    <3>1. <<event>> \in Seq(HotplugEvent) /\ Pending = (<<event>> \o inbox) \o udev
      BY <1>1, <1>2, <1>3
    <3> QED
      BY <1>1, <3>1, ConcatAssociative
  <2> HIDE DEF rest
  <2>3. /\ Len(Pending) = Len(rest) + 1 /\ Pending[1] = event
        /\ \A i \in 1 .. Len(rest) : Pending[i + 1] = rest[i]
    BY <1>3, <2>1, <2>2
  <2> QED
    BY <1>5, <2>1, <2>3
<1>8. udev # <<>> => now \o Append(inbox, Head(udev)) \o Tail(udev) = Pending
  <2> DEFINE e == Head(udev)
             t == Tail(udev)
  <2> SUFFICES ASSUME udev # <<>> PROVE now \o Append(inbox, e) \o t = Pending
    OBVIOUS
  <2>1. e \in HotplugEvent /\ t \in Seq(HotplugEvent) /\ <<e>> \in Seq(HotplugEvent)
    BY <1>1
  <2>2. udev = <<e>> \o t
    BY <1>1, <2>1
  <2> HIDE DEF e, t
  <2>3. now \o Append(inbox, e) = (now \o inbox) \o <<e>>
    <3>1. Append(inbox, e) = inbox \o <<e>>
      BY <1>1, <2>1, AppendIsConcat
    <3> QED
      BY <1>1, <2>1, <3>1, ConcatAssociative
  <2>4. ((now \o inbox) \o <<e>>) \o t = (now \o inbox) \o (<<e>> \o t)
    <3>1. now \o inbox \in Seq(HotplugEvent)
      BY <1>1
    <3> QED
      BY <2>1, <3>1, ConcatAssociative
  <2> QED
    BY <1>2, <2>2, <2>3, <2>4
<1>9. inbox # <<>> /\ writer = "none" => <<Head(inbox)>> \o Tail(inbox) \o udev = Pending
  BY <1>1, <1>2, <1>4
<1> QED
  BY <1>5, <1>6, <1>7, <1>8, <1>9 DEF now

\* Before the main loop no device comes or goes, so nothing is announced.
LEMMA EarlyStep ==
  ASSUME ~EarlyPlugs, Early, [Next]_vars
  PROVE  Early'
<1>1. ASSUME NEW d \in Devices, Plug(d) \/ Unplug(d) PROVE Early'
  BY <1>1 DEF Plug, Unplug, MayPlug, Early
<1>2. CASE \/ BuildControllers \/ InitControllers \/ EnterMainLoop \/ StartWatching
           \/ ConnectFails
  BY <1>2 DEF BuildControllers, InitControllers, EnterMainLoop, StartWatching,
              ConnectFails, Handling, watch, Early
<1>3. CASE ReceiveUdev \/ TakeEvent
  BY <1>3 DEF ReceiveUdev, TakeEvent, watch, Started, Early
<1>4. CASE DisconnectNoWorker \/ SendStop \/ StopAnswered \/ Connect
  BY <1>4 DEF DisconnectNoWorker, SendStop, StopAnswered, Connect, Handling, watch, Early
<1>5. ASSUME UNCHANGED <<watch, inbox, phase, writer, event>> PROVE Early'
  BY <1>5 DEF watch, Early
<1> QED
  BY <1>1, <1>2, <1>3, <1>4, <1>5
     DEF Next, vars, BeginBatch, EndBatch, SkipId, SendCommand, Serve, ServeStop,
         PanicOnSpeed, Terminate

\* A running worker is in the table under the id that is remembered for its
\* fingerprint, an id of its model.
LEMMA RunningIsRemembered ==
  ASSUME TypeOK, Remembered, RunningIsMapped,
         NEW w \in DOMAIN workers, workers[w].state = "running"
  PROVE  /\ workers[w].dev \in Devices /\ workers[w].id \in Ids
         /\ workers[w].key \in Fingerprint
         /\ workers[w].key.model = Model[workers[w].dev]
         /\ workers[w].id \in IdsOf(Model[workers[w].dev])
         /\ idOf[workers[w].key] = workers[w].id
         /\ mapping[workers[w].id] = w
<1>1. workers[w] \in Worker
  BY DEF TypeOK
<1>2. /\ workers[w].dev \in Devices /\ workers[w].id \in Ids
      /\ workers[w].key \in Fingerprint
  BY <1>1, WorkerFields, Zenon
<1>3. /\ cache[workers[w].key] = workers[w].id
      /\ workers[w].key.model = Model[workers[w].dev]
  BY DEF Remembered
<1>4. workers[w].id # NoId
  BY <1>2, DevicesAssumption
<1>5. workers[w].id \in IdsOf(Model[workers[w].dev])
  BY <1>2, <1>3, <1>4 DEF Remembered
<1> QED
  BY <1>2, <1>3, <1>5 DEF Remembered, RunningIsMapped

\* What udev knows of the devices of running workers, in a step that starts none.
LEMMA KnownStays ==
  ASSUME TypeOK, KnownOrNew, [Next]_vars, ~BuildControllers, ~Connect
  PROVE  KnownOrNew'
  BY Kept DEF KnownOrNew

\* A device that is undriven stays so unless a controller is built or arrives.
LEMMA UndrivenStays ==
  ASSUME TypeOK, [Next]_vars, ~BuildControllers, ~Connect
  PROVE  Undriven \subseteq Undriven'
  BY Kept DEF Undriven

\* A step that leaves the announcements, the devices and the table alone.
LEMMA SamePending ==
  ASSUME TypeOK, InTurn, [Next]_vars, ~BuildControllers, ~Connect,
         Pending' = Pending, plugged' = plugged, mapping' = mapping
  PROVE  RunningIsMapped' /\ KnownOrNew' /\ Fit(Pending, plugged, Undriven)'
<1>1. RunningIsMapped' /\ KnownOrNew'
  BY Kept, KnownStays DEF InTurn, RunningIsMapped
<1>2. Fit(Pending, plugged, Undriven')
  BY UndrivenStays, FitMore DEF InTurn
<1>3. Fit(Pending', plugged', Undriven')
  BY <1>2
<1> QED
  BY <1>1, <1>3

\* Start-up leaves no device that has gone with a worker.
LEMMA BuildInTurn ==
  ASSUME TypeOK, OneEntryEach, DistinctIds, InTurn, BuildControllers
  PROVE  RunningIsMapped' /\ KnownOrNew' /\ Fit(Pending, plugged, Undriven)'
<1>1. /\ udev' = <<>> /\ inbox' = <<>> /\ writer' = "none" /\ plugged' = plugged
  BY DEF BuildControllers, InTurn, Early, watch, hardware
<1>2. RunningIsMapped'
  <2> SUFFICES ASSUME NEW w \in DOMAIN workers' PROVE mapping'[workers'[w].id] = w
    BY DEF RunningIsMapped
  <2> DEFINE v == mapping'[workers'[w].id]
  <2>1. v \in DOMAIN workers' /\ workers'[v].id = workers'[w].id
    BY BuildFacts
  <2> HIDE DEF v
  <2>2. /\ workers'[w].id \in IdsOf(Model[workers'[w].dev])
        /\ workers'[v].id \in IdsOf(Model[workers'[v].dev])
        /\ Model[workers'[w].dev] \in Models /\ Model[workers'[v].dev] \in Models
    BY <2>1, BuildFacts, IdsTyped
  <2>3. Model[workers'[v].dev] = Model[workers'[w].dev]
    BY <2>1, <2>2 DEF DistinctIds
  <2>4. v = w
    BY <2>1, <2>3, BuildFacts
  <2> QED
    BY <2>4 DEF v
<1>3. Pending' = <<>>
  BY <1>1 DEF Pending
<1>6. KnownOrNew'
  <2> SUFFICES ASSUME NEW w \in DOMAIN workers', NEW k \in UdevKeys(workers'[w].dev)
               PROVE  k = workers'[w].key \/ cache'[k] = NoId
    BY BuildFacts DEF KnownOrNew
  <2>1. /\ workers'[w].dev \in Devices /\ workers'[w].key = HidKey(workers'[w].dev)
        /\ k \in Fingerprint /\ k.model = Model[workers'[w].dev]
    BY BuildFacts, KeysTyped
  <2>2. ASSUME NEW v \in DOMAIN workers', workers'[v].key = k PROVE k = workers'[w].key
    <3>1. Model[workers'[v].dev] = Model[workers'[w].dev]
      BY <2>1, <2>2, BuildFacts, KeysTyped
    <3>2. v = w
      BY <3>1, BuildFacts
    <3> QED
      BY <2>2, <3>2
  <2> QED
    BY <2>1, <2>2, BuildFacts
<1>4. \A d \in Devices : d \notin plugged => d \in Undriven'
  BY BuildFacts DEF Undriven
<1>5. Fit(Pending', plugged', Undriven')
  BY <1>1, <1>3, <1>4 DEF Fit
<1> QED
  BY <1>2, <1>5, <1>6

\* A device arrives or goes.
LEMMA AnnounceInTurn ==
  ASSUME TypeOK, InTurn, ~EarlyPlugs, NEW d \in Devices, Plug(d) \/ Unplug(d)
  PROVE  RunningIsMapped' /\ KnownOrNew' /\ Fit(Pending, plugged, Undriven)'
<1>1. [Next]_vars /\ ~BuildControllers /\ ~Connect
  <2>1. phase = "looping" /\ plugged' # plugged
    BY DEF Plug, Unplug, MayPlug
  <2> QED
    BY <2>1 DEF Next, BuildControllers, Connect, hardware
<1>2. PICK type \in {"Add", "Remove"}, key \in UdevKeys(d) :
         /\ udev' = Append(udev, [type |-> type, dev |-> d, key |-> key])
         /\ plugged' = IF type = "Add" THEN plugged \union {d} ELSE plugged \ {d}
         /\ type = "Add" <=> d \notin plugged
  BY DEF Plug, Unplug, MayPlug, Announce
<1>3. UNCHANGED <<inbox, writer, event, mapping>>
  BY DEF Plug, Unplug, tables
<1> DEFINE e == [type |-> type, dev |-> d, key |-> key]
<1>4. e \in HotplugEvent /\ e.type = type /\ e.dev = d
  BY <1>2, EventTyped
<1> HIDE DEF e
<1>5. Pending' = Append(Pending, e) /\ Pending \in Seq(HotplugEvent)
  BY <1>2, <1>3, <1>4, PendingTyped DEF Pending, e
<1>6. Fit(Append(Pending, e), plugged', Undriven)
  <2>1. Fit(Pending, plugged, Undriven)
    BY DEF InTurn
  <2>2. \A x : x \in plugged' <=> (IF x = e.dev THEN e.type = "Add" ELSE x \in plugged)
    BY <1>2, <1>4
  <2>3. e.type = "Add" <=> e.dev \notin plugged
    BY <1>2, <1>4
  <2> QED
    BY <1>4, <1>5, <2>1, <2>2, <2>3, FitAppend
<1>7. Fit(Pending', plugged', Undriven')
  BY <1>1, <1>5, <1>6, UndrivenStays, FitMore
<1>8. RunningIsMapped' /\ KnownOrNew'
  BY <1>1, <1>3, Kept, KnownStays DEF InTurn, RunningIsMapped
<1> QED
  BY <1>7, <1>8

\* The coordinator has dealt with a removal: no worker is left for the device.
LEMMA RemovedInTurn ==
  ASSUME TypeOK, LockInv, Remembered, InTurn, [Next]_vars,
         DisconnectNoWorker \/ StopAnswered, writer' = "none"
  PROVE  RunningIsMapped' /\ KnownOrNew' /\ Fit(Pending, plugged, Undriven)'
<1> DEFINE d == event.dev
           id == idOf[event.key]
<1>1. /\ writer # "none" /\ event.type = "Remove" /\ d \in Devices
      /\ event.key \in UdevKeys(d)
      /\ UNCHANGED <<plugged, udev, inbox, workers>>
  BY EventFields DEF DisconnectNoWorker, StopAnswered, Handling, InTurn, Early,
         hardware, watch, TypeOK
<1>2. ~BuildControllers /\ ~Connect
  BY <1>1 DEF BuildControllers, Connect, Handling, LockInv, Unbuilt
<1>3. /\ id \in Ids /\ mapping[id] = Addressed
      /\ Addressed = 0 \/ workers[Addressed].state = "stopped"
      /\ \A i \in Ids : mapping'[i] = IF i = id THEN 0 ELSE mapping[i]
  <2>1. CASE DisconnectNoWorker
    <3>1. id # NoId /\ Addressed = 0 /\ mapping' = mapping
      BY <1>1, <2>1 DEF DisconnectNoWorker, Handling, tables
    <3>2. id \in Ids /\ mapping[id] = 0
      BY <3>1, Facts DEF Addressed
    <3> QED
      BY <3>1, <3>2
  <2>2. CASE StopAnswered
    <3>1. writer = "stopping" /\ Addressed # 0
      BY <2>2 DEF StopAnswered, LockInv, StoppedIsAddressed
    <3>2. id \in Ids /\ mapping[id] = Addressed
      BY <3>1, Facts DEF Addressed
    <3>3. workers[Addressed].state = "stopped" /\ mapping' = [mapping EXCEPT ![id] = 0]
      BY <1>1, <2>2 DEF StopAnswered
    <3> QED
      BY <3>2, <3>3 DEF TypeOK
  <2> QED
    BY <2>1, <2>2
<1> HIDE DEF id
<1>4. \A w \in DOMAIN workers : workers[w].state = "running" => workers[w].id # id
  <2> SUFFICES ASSUME NEW w \in DOMAIN workers, workers[w].state = "running",
                      workers[w].id = id
               PROVE  FALSE
    OBVIOUS
  <2>1. mapping[id] = w /\ w # 0
    BY Facts DEF InTurn, RunningIsMapped
  <2> QED
    BY <1>3, <2>1
<1>5. d \in Undriven
  <2> SUFFICES ASSUME NEW w \in DOMAIN workers, workers[w].dev = d,
                      workers[w].state = "running"
               PROVE  FALSE
    BY <1>1 DEF Undriven
  <2>1. event.key = workers[w].key \/ idOf[event.key] = NoId
    BY <1>1 DEF InTurn, KnownOrNew, Remembered
  <2>2. id # NoId
    BY <1>3, DevicesAssumption
  <2>3. workers[w].id = id
    BY <2>1, <2>2, RunningIsRemembered DEF InTurn, id
  <2> QED
    BY <1>4, <2>3
<1>11. KnownOrNew'
  BY <1>2, KnownStays DEF InTurn
<1>6. RunningIsMapped'
  <2> SUFFICES ASSUME NEW w \in DOMAIN workers, workers[w].state = "running"
               PROVE  mapping'[workers[w].id] = w
    BY <1>1 DEF RunningIsMapped
  <2> QED
    BY <1>3, <1>4, Facts DEF InTurn, RunningIsMapped
<1>7. Pending' = Tail(Pending) /\ Pending # <<>> /\ Pending[1] = event
  <2>1. Pending' = <<>> \o inbox \o udev
    BY <1>1 DEF Pending
  <2> QED
    BY <1>1, <2>1, PendingTyped
<1>8. Fit(Tail(Pending), plugged, Undriven)
  BY <1>1, <1>5, <1>7, PendingTyped, FitTail DEF InTurn
<1>9. Undriven' = Undriven
  BY <1>1 DEF Undriven
<1>10. Fit(Pending', plugged', Undriven')
  BY <1>1, <1>7, <1>8, <1>9
<1> QED
  BY <1>6, <1>10, <1>11

\* The coordinator has dealt with an arrival: the device has its one worker.
LEMMA ArrivedInTurn ==
  ASSUME TypeOK, DistinctModels, DistinctIds, SteadySerials, Remembered, InTurn, Connect
  PROVE  RunningIsMapped' /\ KnownOrNew' /\ Fit(Pending, plugged, Undriven)'
<1> DEFINE d == event.dev
           key == event.key
           id == BuildId(key)
           new == Len(workers) + 1
<1>1. /\ writer = "waiting" /\ writer' = "none" /\ event.type = "Add"
      /\ UNCHANGED <<plugged, udev, inbox>>
  BY DEF Connect, Handling, hardware, watch
<1>2. Pending' = Tail(Pending) /\ Pending # <<>> /\ Pending[1] = event
  <2>1. Pending' = <<>> \o inbox \o udev
    BY <1>1 DEF Pending
  <2> QED
    BY <1>1, <2>1, PendingTyped
<1>3. d \in Undriven
  <2>1. 1 \in DOMAIN Pending /\ \A k \in DOMAIN Pending : ~(k < 1)
    BY <1>2, PendingTyped
  <2>2. First(Pending, 1)
    BY <2>1 DEF First
  <2> QED
    BY <1>1, <1>2, <2>1, <2>2 DEF InTurn, Fit
<1>9. d \in Devices /\ key \in UdevKeys(d) /\ key \in Fingerprint /\ key.model = Model[d]
  BY EventFields DEF TypeOK
<1>4. /\ d \in plugged /\ d \in Devices /\ id \in IdsOf(Model[d]) /\ id \in Ids
      /\ DOMAIN workers' = DOMAIN workers \union {new} /\ new \notin DOMAIN workers
      /\ \A w \in DOMAIN workers : workers'[w] = workers[w]
      /\ workers'[new].dev = d /\ workers'[new].id = id /\ workers'[new].key = key
      /\ \A x \in Fingerprint : cache'[x] = IF x = key THEN id ELSE cache[x]
      /\ \A i \in Ids : mapping'[i] = IF i = id THEN new ELSE mapping[i]
  <2>1. workers'[new].dev = d /\ d \in plugged
    BY <1>9, ConnectFacts DEF DistinctModels
  <2> QED
    BY <1>9, <2>1, ConnectFacts
<1> HIDE DEF id, new, key
<1>5. RunningIsMapped'
  <2> SUFFICES ASSUME NEW w \in DOMAIN workers', workers'[w].state = "running"
               PROVE  mapping'[workers'[w].id] = w
    BY DEF RunningIsMapped
  <2>1. CASE w = new
    BY <1>4, <2>1
  <2>2. CASE w \in DOMAIN workers
    <3>1. workers[w].state = "running" /\ workers'[w].id = workers[w].id
      BY <1>4, <2>2
    <3>2. /\ workers[w].dev \in Devices /\ workers[w].id \in Ids
          /\ workers[w].id \in IdsOf(Model[workers[w].dev]) /\ mapping[workers[w].id] = w
      BY <2>2, <3>1, RunningIsRemembered DEF InTurn
    <3>3. workers[w].dev # d
      BY <1>3, <2>2, <3>1 DEF Undriven
    <3>4. /\ Model[workers[w].dev] # Model[d]
          /\ Model[workers[w].dev] \in Models /\ Model[d] \in Models
      BY <1>4, <3>2, <3>3, IdsTyped DEF DistinctModels
    <3>5. workers[w].id # id
      BY <1>4, <3>2, <3>4 DEF DistinctIds
    <3> QED
      BY <1>4, <3>1, <3>2, <3>5
  <2> QED
    BY <1>4, <2>1, <2>2
<1>10. KnownOrNew'
  <2> DEFINE known(w) ==
        /\ workers'[w].key \in {HidKey(workers'[w].dev)} \union UdevKeys(workers'[w].dev)
        /\ \A k \in UdevKeys(workers'[w].dev) : k = workers'[w].key \/ cache'[k] = NoId
  <2>1. known(new)
    BY <1>4, <1>9 DEF SteadySerials
  <2>2. ASSUME NEW w \in DOMAIN workers, workers[w].state = "running" PROVE known(w)
    <3>1. workers[w].dev \in Devices /\ workers[w].dev # d
      BY <1>3, <2>2, RunningIsRemembered DEF InTurn, Undriven
    <3>2. Model[workers[w].dev] # Model[d]
      BY <1>4, <3>1 DEF DistinctModels
    <3>3. \A k \in UdevKeys(workers[w].dev) : cache'[k] = cache[k]
      BY <1>4, <1>9, <3>1, <3>2, KeysTyped
    <3> QED
      BY <1>4, <2>2, <3>3 DEF InTurn, KnownOrNew
  <2> HIDE DEF known
  <2>3. \A w \in DOMAIN workers' : workers'[w].state = "running" => known(w)
    BY <1>4, <2>1, <2>2
  <2> QED
    BY <2>3 DEF KnownOrNew, known
<1>6. Undriven \ {d} \subseteq Undriven'
  BY <1>4 DEF Undriven
<1>7. Fit(Tail(Pending), plugged, Undriven')
  <2>1. Pending[1].dev \in IF Pending[1].type = "Remove" THEN Undriven' ELSE plugged
    BY <1>1, <1>2, <1>4
  <2>2. Undriven \ {Pending[1].dev} \subseteq Undriven'
    BY <1>2, <1>6
  <2> QED
    BY <1>2, <2>1, <2>2, PendingTyped, FitTail DEF InTurn
<1>8. Fit(Pending', plugged', Undriven')
  BY <1>1, <1>2, <1>7
<1> QED
  BY <1>5, <1>8, <1>10

\* While removals are recognised, announcements move on and none is lost.
LEMMA PendingMoves ==
  ASSUME TypeOK, Early, RemoveSeen = {TRUE}, ReceiveUdev \/ TakeEvent
  PROVE  Pending' = Pending /\ plugged' = plugged /\ mapping' = mapping
<1>1. CASE ReceiveUdev
  <2>1. udev # <<>> /\ udev' = Tail(udev) /\ phase = "looping"
    BY <1>1 DEF ReceiveUdev, Started, Early
  <2>2. inbox' = Append(inbox, Head(udev))
    BY <1>1, <2>1 DEF ReceiveUdev
  <2>3. UNCHANGED <<writer, event, plugged, mapping>>
    BY <1>1 DEF ReceiveUdev, hardware, tables
  <2>4. Pending' = (IF writer = "none" THEN <<>> ELSE <<event>>)
                      \o Append(inbox, Head(udev)) \o Tail(udev)
    BY <2>1, <2>2, <2>3 DEF Pending
  <2> QED
    BY <2>1, <2>3, <2>4, PendingTyped
<1>2. CASE TakeEvent
  <2>1. /\ inbox # <<>> /\ writer = "none" /\ writer' = "waiting"
        /\ event' = Head(inbox) /\ inbox' = Tail(inbox)
        /\ UNCHANGED <<udev, plugged, mapping>>
    BY <1>2 DEF TakeEvent, hardware, watch, tables
  <2>2. Pending' = <<Head(inbox)>> \o Tail(inbox) \o udev
    BY <2>1 DEF Pending
  <2> QED
    BY <2>1, <2>2, PendingTyped
<1> QED
  BY <1>1, <1>2

\* Whatever step is taken, the announcements stay in turn.
LEMMA InTurnStep ==
  ASSUME DistinctModels, OneEntryEach, DistinctIds, SteadySerials,
         RemoveSeen = {TRUE}, ~EarlyPlugs,
         TypeOK, LockInv, Remembered, InTurn, [Next]_vars
  PROVE  InTurn'
<1>1. Early'
  BY EarlyStep DEF InTurn
<1> DEFINE goal == RunningIsMapped' /\ KnownOrNew' /\ Fit(Pending, plugged, Undriven)'
<1>2. ASSUME NEW d \in Devices, Plug(d) \/ Unplug(d) PROVE goal
  BY <1>2, AnnounceInTurn
<1>3. ASSUME BuildControllers PROVE goal
  BY <1>3, BuildInTurn
<1>4. ASSUME Connect PROVE goal
  BY <1>4, ArrivedInTurn
<1>5. ASSUME DisconnectNoWorker \/ StopAnswered, writer' = "none" PROVE goal
  BY <1>5, RemovedInTurn
<1>6. ASSUME ~BuildControllers, ~Connect,
             Pending' = Pending, plugged' = plugged, mapping' = mapping
      PROVE  goal
  BY <1>6, SamePending
<1>7. ASSUME ReceiveUdev \/ TakeEvent, ~BuildControllers, ~Connect PROVE goal
  BY <1>6, <1>7, PendingMoves DEF InTurn
<1>8. ASSUME ~BuildControllers, ~Connect,
             UNCHANGED <<udev, inbox, event, plugged, mapping>>,
             writer' = writer \/ (writer # "none" /\ writer' # "none")
      PROVE  goal
  <2>1. Pending' = Pending
    BY <1>8 DEF Pending
  <2> QED
    BY <1>6, <1>8, <2>1
<1>9. ASSUME DisconnectNoWorker \/ StopAnswered, writer' # "none",
             ~BuildControllers, ~Connect
      PROVE  goal
  <2>1. UNCHANGED <<udev, inbox, event, plugged, mapping, writer>>
    BY <1>9 DEF DisconnectNoWorker, StopAnswered, hardware, watch, tables
  <2> QED
    BY <1>8, <1>9, <2>1
<1>10. ASSUME SendStop, ~BuildControllers, ~Connect PROVE goal
  <2>1. /\ UNCHANGED <<udev, inbox, event, plugged, mapping>>
        /\ writer # "none" /\ writer' # "none"
    BY <1>10 DEF SendStop, Handling, hardware, watch, tables
  <2> QED
    BY <1>8, <1>10, <2>1
<1>11. ASSUME UNCHANGED <<udev, inbox, event, plugged, mapping, writer>>,
              ~BuildControllers, ~Connect
       PROVE  goal
  BY <1>8, <1>11
<1> HIDE DEF goal
<1>12. goal
  <2>1. CASE \/ InitControllers \/ EnterMainLoop \/ StartWatching \/ ConnectFails
             \/ UNCHANGED vars
             \/ \E c \in Clients :
                   \/ BeginBatch(c) \/ EndBatch(c)
                   \/ \E id \in Ids : SkipId(c, id) \/ SendCommand(c, id)
             \/ \E w \in DOMAIN workers : Serve(w) \/ ServeStop(w) \/ PanicOnSpeed(w)
    <3>1. UNCHANGED <<udev, inbox, event, plugged, mapping, writer>>
      BY <2>1 DEF InitControllers, EnterMainLoop, StartWatching, ConnectFails, vars,
                  BeginBatch, EndBatch, SkipId, SendCommand, Serve, ServeStop,
                  PanicOnSpeed, Terminate, hardware, watch, tables
    <3> QED
      BY <1>3, <1>4, <1>11, <3>1
  <2> QED
    BY <1>2, <1>3, <1>4, <1>5, <1>7, <1>9, <1>10, <2>1 DEF Next
<1> QED
  BY <1>1, <1>12 DEF InTurn, goal

\* Nothing has been announced at the start.
LEMMA InTurnInit == Init => InTurn
<1> SUFFICES ASSUME Init PROVE InTurn
  OBVIOUS
<1>1. Early /\ RunningIsMapped /\ KnownOrNew
  BY DEF Init, Early, RunningIsMapped, KnownOrNew
<1>2. Pending = <<>>
  BY DEF Init, Pending
<1>3. \A d \in Devices : d \in Undriven
  BY DEF Init, Undriven
<1> QED
  BY <1>1, <1>2, <1>3 DEF InTurn, Fit

\* No device is ever driven by two workers, in whatever order it goes and comes
\* back, provided that devices differ in model and in the ids they may be given,
\* that udev recognises removals and always finds the same serial number, which
\* need not be hidapi's, and that nothing is plugged during start-up.
THEOREM OneDriverEach ==
  ASSUME DistinctModels, DistinctIds, SteadySerials, RemoveSeen = {TRUE}, ~EarlyPlugs
  PROVE  Spec => []OneDriver
<1> OneEntryEach
  BY DevicesAssumption DEF DistinctModels, OneEntryEach
<1>1. Init => LockInv /\ Remembered /\ InTurn
  BY LockInit, InTurnInit DEF Init, Remembered
<1>2. TypeOK /\ LockInv /\ Remembered /\ InTurn /\ [Next]_vars
        => LockInv' /\ Remembered' /\ InTurn'
  BY LockStep, RememberedStep, InTurnStep
<1>3. TypeOK /\ Remembered /\ InTurn => OneDriver
  <2> SUFFICES ASSUME TypeOK, Remembered, InTurn,
                      NEW v \in DOMAIN workers, NEW w \in DOMAIN workers,
                      Running(v), Running(w), workers[v].dev = workers[w].dev
               PROVE  v = w
    BY DEF OneDriver
  <2>1. /\ workers[v].id # NoId /\ cache[workers[v].key] = workers[v].id
        /\ workers[w].id # NoId /\ cache[workers[w].key] = workers[w].id
    BY RunningIsRemembered, DevicesAssumption DEF Remembered, InTurn, Running
  <2>2. workers[v].key = workers[w].key
    BY <2>1 DEF InTurn, KnownOrNew, Running
  <2>3. workers[v].id = workers[w].id
    BY <2>1, <2>2
  <2> QED
    BY <2>3, RunningIsRemembered DEF InTurn, Running
<1> QED
  BY <1>1, <1>2, <1>3, TypeCorrect, PTL DEF Spec

=============================================================================
