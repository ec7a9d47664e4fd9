---------------------------- MODULE ColorFrames ----------------------------
(***************************************************************************)
(* The colour path of providers/fan_color.rs: the calculating task draws   *)
(* every 50 ms one frame of colours into one half of a DoubleBuffer, the   *)
(* transmitting task sends the other half to the controllers every 16 ms.  *)
(*                                                                         *)
(* Each half has a RwLock of its own.  The index that says which half is   *)
(* which is an atomic read BEFORE the lock is asked for, so it may be old  *)
(* when the lock is granted.  Both tasks also need the read lock of        *)
(* ControllerManager, which the coordinator takes for writing on hotplug.  *)
(*                                                                         *)
(* A colour stands for the number of the frame it was drawn in, 0 for no   *)
(* entry.  Entries are never removed from a half.                          *)
(***************************************************************************)
EXTENDS Naturals, FiniteSets

CONSTANTS
    Fans,                   \* fan channels of all controllers
    Flaky,                  \* fans whose controller may be missing
    MayDrop,                \* may a change of the effects drop a fan?
    MaxFrames, MaxSwitches  \* bounds: frames drawn, changes of the effects

ASSUME FansAssumption == Flaky \subseteq Fans /\ MayDrop \in BOOLEAN
ASSUME BoundsAssumption == MaxFrames \in Nat /\ MaxSwitches \in Nat

VARIABLES
    lit,        \* fans that the active effects light (runners)
    switches,   \* changes of the effects so far
    half,       \* [{0, 1} -> [Fans -> frame number or 0]]
    writeIndex, \* DoubleBuffer.write_index
    calc,       \* where the calculating task is
    drawTo,     \* the half it asked for
    toDraw,     \* fans still to be drawn in this frame
    sender,     \* where the transmitting task is
    sendFrom,   \* the half it asked for
    toSend,     \* fans still to be sent from this half
    manager,    \* the coordinator and the write lock of ControllerManager
    shown,      \* [Fans -> frame the fan shows]
    completed,  \* history: frames swapped in
    content     \* history: [{0, 1} -> what the last complete frame there drew]

effects  == <<lit, switches>>
calcVars == <<writeIndex, calc, drawTo, toDraw, half, completed, content>>
sendVars == <<sender, sendFrom, toSend, shown>>
vars == <<effects, calcVars, sendVars, manager>>

Halves == {0, 1}

Init ==
    /\ lit \in SUBSET Fans /\ switches = 0
    /\ half = [h \in Halves |-> [f \in Fans |-> 0]]
    /\ writeIndex = 0
    /\ calc = "idle" /\ drawTo = 0 /\ toDraw = {}
    /\ sender = "idle" /\ sendFrom = 1 /\ toSend = {}
    /\ manager = "free"
    /\ shown = [f \in Fans |-> 0]
    /\ completed = 0
    /\ content = [h \in Halves |-> [frame |-> 0, fans |-> {}]]

\* HoldsWrite of a guard that is dropped when the drawing is done.
HoldsWriteBriefly(h) == calc = "drawing" /\ toDraw # {} /\ drawTo = h

\* The write guard lives to the end of calculate_fan_colors, past the swap.
HoldsWrite(h) == calc \in {"drawing", "swapped"} /\ drawTo = h

\* HoldsRead of a guard that is dropped before the batch is sent.
HoldsReadBriefly(h) == sender = "ready" /\ sendFrom = h

\* The read guard lives until the batch has been answered.
HoldsRead(h) == sender \in {"ready", "sending"} /\ sendFrom = h

-----------------------------------------------------------------------------
\* The calculating task.

\* handle_notify of a Commit runs in the same loop, between two frames.
SwitchEffects ==
    /\ calc = "idle" /\ switches < MaxSwitches
    /\ lit' \in {fans \in SUBSET Fans : MayDrop \/ lit \subseteq fans}
    /\ switches' = switches + 1
    /\ UNCHANGED <<calcVars, sendVars, manager>>

CalcStart ==
    /\ calc = "idle" /\ completed < MaxFrames
    /\ calc' = "waiting"
    /\ drawTo' = writeIndex
    /\ UNCHANGED <<effects, writeIndex, toDraw, half, completed, content, sendVars,
                   manager>>

CalcLock ==
    /\ calc = "waiting" /\ ~HoldsRead(drawTo)
    /\ calc' = "drawing"
    /\ toDraw' = lit
    /\ content' = [content EXCEPT ![drawTo].fans = {}]
    /\ UNCHANGED <<effects, writeIndex, drawTo, half, completed, sendVars, manager>>

\* A fan with no entry yet needs led_count, hence the controllers.
Draw(f) ==
    /\ calc = "drawing" /\ f \in toDraw
    /\ half[drawTo][f] = 0 => manager = "free"
    /\ half' = [half EXCEPT ![drawTo][f] = completed + 1]
    /\ toDraw' = toDraw \ {f}
    /\ content' = [content EXCEPT ![drawTo].fans = @ \union {f}]
    /\ UNCHANGED <<effects, writeIndex, calc, drawTo, completed, sendVars, manager>>

\* led_count fails: no entry, and the other fans go on.
SkipFan(f) ==
    /\ calc = "drawing" /\ f \in toDraw /\ f \in Flaky
    /\ half[drawTo][f] = 0 /\ manager = "free"
    /\ toDraw' = toDraw \ {f}
    /\ UNCHANGED <<effects, writeIndex, calc, drawTo, half, completed, content,
                   sendVars, manager>>

\* SwapBuffers that never swaps.
SwapBuffersNot ==
    /\ calc = "drawing" /\ toDraw = {}
    /\ calc' = "swapped"
    /\ completed' = completed + 1
    /\ content' = [content EXCEPT ![drawTo].frame = completed + 1]
    /\ UNCHANGED <<effects, writeIndex, drawTo, toDraw, half, sendVars, manager>>

\* SwapBuffers that counts on instead of flipping.
SwapBuffersCounting ==
    /\ calc = "drawing" /\ toDraw = {}
    /\ calc' = "swapped"
    /\ writeIndex' = writeIndex + 1
    /\ completed' = completed + 1
    /\ content' = [content EXCEPT ![drawTo].frame = completed + 1]
    /\ UNCHANGED <<effects, drawTo, toDraw, half, sendVars, manager>>

SwapBuffers ==
    /\ calc = "drawing" /\ toDraw = {}
    /\ calc' = "swapped"
    /\ writeIndex' = 1 - writeIndex
    /\ completed' = completed + 1
    /\ content' = [content EXCEPT ![drawTo].frame = completed + 1]
    /\ UNCHANGED <<effects, drawTo, toDraw, half, sendVars, manager>>

CalcUnlock ==
    /\ calc = "swapped"
    /\ calc' = "idle"
    /\ UNCHANGED <<effects, writeIndex, drawTo, toDraw, half, completed, content,
                   sendVars, manager>>

-----------------------------------------------------------------------------
\* The transmitting task.

SendStart ==
    /\ sender = "idle"
    /\ sender' = "waiting"
    /\ sendFrom' = 1 - writeIndex
    /\ UNCHANGED <<effects, calcVars, toSend, shown, manager>>

SendLock ==
    /\ sender = "waiting" /\ ~HoldsWrite(sendFrom)
    /\ sender' = "ready"
    /\ UNCHANGED <<effects, calcVars, sendFrom, toSend, shown, manager>>

\* batch_update under the read lock of the controllers.
SendBatch ==
    /\ sender = "ready" /\ manager = "free"
    /\ sender' = "sending"
    /\ toSend' = {f \in Fans : half[sendFrom][f] # 0}
    /\ UNCHANGED <<effects, calcVars, sendFrom, shown, manager>>

Show(f) ==
    /\ sender = "sending" /\ f \in toSend
    /\ shown' = [shown EXCEPT ![f] = half[sendFrom][f]]
    /\ toSend' = toSend \ {f}
    /\ UNCHANGED <<effects, calcVars, sender, sendFrom, manager>>

\* The controller has no worker, or its write fails: an error in the statistics
\* of the batch, and the fan keeps what it shows.
MissFan(f) ==
    /\ sender = "sending" /\ f \in toSend /\ f \in Flaky
    /\ toSend' = toSend \ {f}
    /\ UNCHANGED <<effects, calcVars, sender, sendFrom, shown, manager>>

SendEnd ==
    /\ sender = "sending" /\ toSend = {}
    /\ sender' = "idle"
    /\ UNCHANGED <<effects, calcVars, sendFrom, toSend, shown, manager>>

-----------------------------------------------------------------------------
\* The coordinator at a hotplug event; while it waits it keeps readers out.

ManagerWait ==
    /\ manager = "free"
    /\ manager' = "waiting"
    /\ UNCHANGED <<effects, calcVars, sendVars>>

ManagerWrite ==
    /\ manager = "waiting" /\ sender # "sending"
    /\ manager' = "writing"
    /\ UNCHANGED <<effects, calcVars, sendVars>>

ManagerDone ==
    /\ manager = "writing"
    /\ manager' = "free"
    /\ UNCHANGED <<effects, calcVars, sendVars>>

-----------------------------------------------------------------------------
Next ==
    \/ SwitchEffects
    \/ CalcStart \/ CalcLock \/ SwapBuffers \/ CalcUnlock
    \/ SendStart \/ SendLock \/ SendBatch \/ SendEnd
    \/ ManagerWait \/ ManagerWrite \/ ManagerDone
    \/ \E f \in Fans : Draw(f) \/ SkipFan(f) \/ Show(f) \/ MissFan(f)

Spec == Init /\ [][Next]_vars

\* Both tasks run (tokio), the timers tick, and RwLock is a fair queue: whoever
\* asks for a lock that is free again and again gets it.
Fairness ==
    /\ WF_vars(CalcStart) /\ SF_vars(CalcLock)
    /\ WF_vars(SwapBuffers) /\ WF_vars(CalcUnlock)
    /\ WF_vars(SendStart) /\ SF_vars(SendLock) /\ SF_vars(SendBatch)
    /\ WF_vars(SendEnd)
    /\ WF_vars(ManagerWrite) /\ WF_vars(ManagerDone)
    /\ \A f \in Fans :
          SF_vars(Draw(f) \/ SkipFan(f)) /\ WF_vars(Show(f) \/ MissFan(f))

FairSpec == Spec /\ Fairness

-----------------------------------------------------------------------------
\* Every variable keeps to its type.
TypeOK ==
    /\ lit \subseteq Fans /\ toDraw \subseteq Fans /\ toSend \subseteq Fans
    /\ switches \in Nat /\ completed \in Nat
    /\ half \in [Halves -> [Fans -> Nat]]
    /\ writeIndex \in Halves /\ drawTo \in Halves /\ sendFrom \in Halves
    /\ calc \in {"idle", "waiting", "drawing", "swapped"}
    /\ sender \in {"idle", "waiting", "ready", "sending"}
    /\ manager \in {"free", "waiting", "writing"}
    /\ shown \in [Fans -> Nat]
    /\ content \in [Halves -> [frame : Nat, fans : SUBSET Fans]]

\* What is being sent is one complete frame: every fan that frame drew has its
\* colour of that frame, although the index may have been read long before.
WholeFrames ==
    sender = "sending" =>
        \A f \in content[sendFrom].fans :
            half[sendFrom][f] = content[sendFrom].frame

\* While the effects drop no fan, none shows a colour of an unfinished frame or
\* goes back to an earlier one: the stale index may cost a frame, never reorder
\* two.  This is ConfigRollout with frames for versions and fans for services.
Feed == INSTANCE ConfigRollout WITH
           Services <- Fans, published <- completed, running <- shown
FramesMoveForward == Feed!Spec

\* Every colour drawn for a fan that stays present, or a later one, is shown:
\* no task is locked out by the other or by hotplug, and no two of the three
\* locks are taken crosswise.
FramesAreShown ==
    \A n \in 1 .. MaxFrames, f \in Fans \ Flaky :
        (completed = n /\ calc = "swapped" /\ f \in content[drawTo].fans)
            ~> (shown[f] >= n)
=============================================================================
