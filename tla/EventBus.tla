------------------------------ MODULE EventBus ------------------------------
(***************************************************************************)
(* The notification half of the MessageBroker (core/event.rs): one         *)
(* tokio::sync::broadcast channel to which every task publishes and from   *)
(* which every subscriber reads at its own pace.                           *)
(*                                                                         *)
(* The channel keeps the last Capacity events.  A subscriber that falls    *)
(* further behind loses the oldest ones and its next recv() returns        *)
(* Err(Lagged).  Seen from one subscriber this is an inbox of its own      *)
(* that drops its head when it is full: `queue' holds what the subscriber  *)
(* can still read, `lagged' says that recv() reports a loss first.         *)
(*                                                                         *)
(* The module has no state: a component keeps its inboxes in a variable.   *)
(***************************************************************************)
EXTENDS Naturals, Sequences

CONSTANT Capacity   \* events the channel keeps (1000 in MessageBroker::new)

ASSUME CapacityAssumption == Capacity \in Nat \ {0}

\* ConfigChangeDetected carries HotReload or ColdRestart; Other stands for the
\* events that a component does not tell apart (TemperatureChanged and such).
EventType == {"HotReload", "ColdRestart", "Commit", "Rollback", "SystemShutdown", "Other"}

\* `tid' is the transaction id of a Commit or a Rollback, 0 in the others.
Event == [type : EventType, tid : Nat]

Notice(type) == [type |-> type, tid |-> 0]
Commit(t)    == [type |-> "Commit", tid |-> t]
Rollback(t)  == [type |-> "Rollback", tid |-> t]

\* A receiver that does not exist (yet, or any more) keeps nothing.
Inbox == [open : BOOLEAN, lagged : BOOLEAN, queue : Seq(Event)]

Closed     == [open |-> FALSE, lagged |-> FALSE, queue |-> <<>>]
Subscribed == [open |-> TRUE, lagged |-> FALSE, queue |-> <<>>]

Full(box) == Len(box.queue) >= Capacity

Deliver(box, e) ==
    IF ~box.open THEN box
    ELSE IF Full(box)
         THEN [box EXCEPT !.queue = Append(Tail(box.queue), e), !.lagged = TRUE]
         ELSE [box EXCEPT !.queue = Append(box.queue, e)]

\* MessageBroker::notify: every subscriber gets the event.  With no subscriber
\* at all the send fails; the callers only log that.
Notify(boxes, e) == [b \in DOMAIN boxes |-> Deliver(boxes[b], e)]

\* The subscribers for whom publishing drops the oldest unread event.
Overrun(boxes) == {b \in DOMAIN boxes : boxes[b].open /\ Full(boxes[b])}

\* recv() has something to return: Err(Lagged) first, then the events in order.
Readable(box) == box.open /\ (box.lagged \/ box.queue # <<>>)
NextEvent(box) == IF box.lagged THEN Notice("Other") ELSE Head(box.queue)
AfterRecv(box) == IF box.lagged THEN [box EXCEPT !.lagged = FALSE]
                                ELSE [box EXCEPT !.queue = Tail(box.queue)]

\* A Commit the subscriber has not read yet.
HasCommit(box) == \E i \in 1 .. Len(box.queue) : box.queue[i].type = "Commit"
=============================================================================
