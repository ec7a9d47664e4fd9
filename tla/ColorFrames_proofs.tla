------------------------ MODULE ColorFrames_proofs ------------------------
(***************************************************************************)
(* Proofs about ColorFrames: its types, and that a frame is sent whole,    *)
(* for any number of fans and frames and any change of the effects.        *)
(*                                                                         *)
(* WholeFrames is not inductive: it speaks of the half being sent only.    *)
(* What carries it is that the locks exclude each other and what is in the *)
(* half being drawn and in the one that is not.                            *)
(***************************************************************************)
EXTENDS ColorFrames, TLAPS

\* The two locks of one half: a writer and a reader never hold it together.
Exclusion == \A h \in Halves : ~(HoldsWrite(h) /\ HoldsRead(h))

Drawing(h) == calc = "drawing" /\ drawTo = h

\* The number of the frame whose colours content[h].fans have.
FrameIn(h) == IF Drawing(h) THEN completed + 1 ELSE content[h].frame

Uniform == \A h \in Halves : \A f \in content[h].fans : half[h][f] = FrameIn(h)

IInv == TypeOK /\ Exclusion /\ Uniform

-----------------------------------------------------------------------------
\* The state the two tasks start in satisfies the invariant.
LEMMA InitHolds == Init => IInv
  BY DEF Init, IInv, TypeOK, Exclusion, Uniform, Halves, HoldsWrite, HoldsRead,
         Drawing, FrameIn

\* Every step of the two tasks, of the effects and of the coordinator keeps it.
LEMMA Step == IInv /\ [Next]_vars => IInv'
<1> SUFFICES ASSUME IInv, [Next]_vars PROVE IInv'
  OBVIOUS
<1> USE DEF IInv, TypeOK, Exclusion, Uniform, Halves, HoldsWrite, HoldsRead,
            Drawing, FrameIn
<1>1. CASE UNCHANGED vars
  BY <1>1 DEF vars, effects, calcVars, sendVars
<1>2. CASE SwitchEffects
  BY <1>2 DEF SwitchEffects, calcVars, sendVars
<1>3. CASE CalcStart
  BY <1>3 DEF CalcStart, effects, sendVars
<1>4. CASE CalcLock
  BY <1>4 DEF CalcLock, effects, sendVars
<1>5. CASE SwapBuffers
  BY <1>5 DEF SwapBuffers, effects, sendVars
<1>6. CASE CalcUnlock
  BY <1>6 DEF CalcUnlock, effects, sendVars
<1>7. CASE SendStart
  BY <1>7 DEF SendStart, effects, calcVars
<1>8. CASE SendLock
  BY <1>8 DEF SendLock, effects, calcVars
<1>9. CASE SendBatch
  BY <1>9 DEF SendBatch, effects, calcVars
<1>10. CASE SendEnd
  BY <1>10 DEF SendEnd, effects, calcVars
<1>11. CASE ManagerWait \/ ManagerWrite \/ ManagerDone
  BY <1>11 DEF ManagerWait, ManagerWrite, ManagerDone, effects, calcVars, sendVars
<1>12. ASSUME NEW f \in Fans, Draw(f) PROVE IInv'
  BY <1>12 DEF Draw, effects, sendVars
<1>13. ASSUME NEW f \in Fans, SkipFan(f) PROVE IInv'
  BY <1>13 DEF SkipFan, effects, sendVars
<1>14. ASSUME NEW f \in Fans, Show(f) PROVE IInv'
  BY <1>14 DEF Show, effects, calcVars
<1>15. ASSUME NEW f \in Fans, MissFan(f) PROVE IInv'
  BY <1>15 DEF MissFan, effects, calcVars
<1> QED
  BY <1>1, <1>2, <1>3, <1>4, <1>5, <1>6, <1>7, <1>8, <1>9, <1>10, <1>11, <1>12,
     <1>13, <1>14, <1>15 DEF Next

\* So it holds of every state that fan_color.rs can reach.
LEMMA Inductive == Spec => []IInv
  BY InitHolds, Step, PTL DEF Spec

\* Types are kept: the two tasks, the effects and the coordinator together
\* never leave the values the variables are meant to have.
THEOREM TypeCorrect == Spec => []TypeOK
  BY Inductive, PTL DEF IInv

\* get_read_buffer, swap_buffers and the guards of both tasks: whatever the age
\* of the index, what transmit_color_changes sends is one complete frame.
THEOREM Whole == Spec => []WholeFrames
<1>1. IInv => WholeFrames
  BY DEF IInv, TypeOK, Exclusion, Uniform, Halves, HoldsWrite, HoldsRead,
         Drawing, FrameIn, WholeFrames
<1> QED
  BY <1>1, Inductive, PTL

-----------------------------------------------------------------------------
(* Frames move forward, as long as a change of the effects drops no fan. *)

\* Every entry belongs to a fan that is lit, and has the colour of the last
\* frame of its half once the drawing there has come past it.
Lasting ==
    /\ toDraw \subseteq lit
    /\ \A h \in Halves : \A f \in Fans : half[h][f] # 0 =>
          /\ f \in lit
          /\ ~(Drawing(h) /\ f \in toDraw) => half[h][f] = FrameIn(h)

\* write_index points away from the newest frame.
Newest ==
    /\ content[1 - writeIndex].frame = completed
    /\ content[writeIndex].frame <= completed
    /\ calc \in {"waiting", "drawing"} => drawTo = writeIndex

\* Nothing shown is newer than the half the transmitting task asked for: that
\* half was the newest then, and only a newer frame can have replaced it.
NotAhead ==
    IF sender = "idle" THEN \A f \in Fans : shown[f] <= completed
    ELSE \A f \in Fans : shown[f] <= content[sendFrom].frame

\* What is still to be sent is there, and being sent.
Waiting ==
    toSend # {} => /\ sender = "sending"
                   /\ \A f \in toSend : half[sendFrom][f] # 0

Forward == IInv /\ Lasting /\ Newest /\ NotAhead /\ Waiting

\* Nothing is drawn and nothing shown at the start.
LEMMA ForwardInit == Init => Forward
  BY InitHolds DEF Init, Forward, IInv, TypeOK, Lasting, Newest, NotAhead, Waiting,
                   Halves, Drawing, FrameIn

\* Drawing, swapping, sending and new effects keep what a stale index relies on.
LEMMA ForwardStep ==
  ASSUME ~MayDrop PROVE Forward /\ [Next]_vars => Forward'
<1> SUFFICES ASSUME Forward, [Next]_vars PROVE Forward'
  OBVIOUS
<1>0. IInv'
  BY Step DEF Forward
<1> SUFFICES Lasting' /\ Newest' /\ NotAhead' /\ Waiting'
  BY <1>0 DEF Forward
<1> USE DEF Forward, IInv, TypeOK, Exclusion, Halves, HoldsWrite, HoldsRead,
            Drawing, FrameIn, Lasting, Newest, NotAhead, Waiting
<1>1. CASE UNCHANGED vars
  BY <1>1 DEF vars, effects, calcVars, sendVars
<1>2. CASE SwitchEffects
  BY <1>2 DEF SwitchEffects, calcVars, sendVars
<1>3. CASE CalcStart
  BY <1>3 DEF CalcStart, effects, sendVars
<1>4. CASE CalcLock
  BY <1>4 DEF CalcLock, effects, sendVars
<1>5. CASE SwapBuffers
  BY <1>5 DEF SwapBuffers, effects, sendVars
<1>6. CASE CalcUnlock
  BY <1>6 DEF CalcUnlock, effects, sendVars
<1>7. CASE SendStart
  BY <1>7 DEF SendStart, effects, calcVars
<1>8. CASE SendLock
  BY <1>8 DEF SendLock, effects, calcVars
<1>9. CASE SendBatch
  BY <1>9 DEF SendBatch, effects, calcVars
<1>10. CASE SendEnd
  BY <1>10 DEF SendEnd, effects, calcVars
<1>11. CASE ManagerWait \/ ManagerWrite \/ ManagerDone
  BY <1>11 DEF ManagerWait, ManagerWrite, ManagerDone, effects, calcVars, sendVars
<1>12. ASSUME NEW f \in Fans, Draw(f)
       PROVE  Lasting' /\ Newest' /\ NotAhead' /\ Waiting'
  BY <1>12 DEF Draw, effects, sendVars
<1>13. ASSUME NEW f \in Fans, SkipFan(f)
       PROVE  Lasting' /\ Newest' /\ NotAhead' /\ Waiting'
  BY <1>13 DEF SkipFan, effects, sendVars
<1>14. ASSUME NEW f \in Fans, Show(f)
       PROVE  Lasting' /\ Newest' /\ NotAhead' /\ Waiting'
  BY <1>14 DEF Show, effects, calcVars
<1>15. ASSUME NEW f \in Fans, MissFan(f)
       PROVE  Lasting' /\ Newest' /\ NotAhead' /\ Waiting'
  BY <1>15 DEF MissFan, effects, calcVars
<1> QED
  BY <1>1, <1>2, <1>3, <1>4, <1>5, <1>6, <1>7, <1>8, <1>9, <1>10, <1>11, <1>12,
     <1>13, <1>14, <1>15 DEF Next

\* Only a swap or a fan that takes its colour is a step of ConfigRollout.
LEMMA StepIsFeedStep == Forward /\ [Next]_vars => [Feed!Next]_<<completed, shown>>
<1> SUFFICES ASSUME Forward, [Next]_vars, ~UNCHANGED <<completed, shown>>
             PROVE  Feed!Next
  OBVIOUS
<1>1. SwapBuffers \/ \E f \in Fans : Show(f)
  BY DEF Next, vars, effects, calcVars, sendVars, SwitchEffects, CalcStart, CalcLock,
         CalcUnlock, SendStart, SendLock, SendBatch, SendEnd, ManagerWait,
         ManagerWrite, ManagerDone, Draw, SkipFan, MissFan
<1>2. CASE SwapBuffers
  BY <1>2 DEF SwapBuffers, sendVars, Feed!Next, Feed!Publish, Forward, IInv, TypeOK
<1>3. ASSUME NEW f \in Fans, Show(f) PROVE Feed!Next
  <2>1. half[sendFrom][f] = content[sendFrom].frame
    BY <1>3 DEF Show, Forward, IInv, TypeOK, Exclusion, Halves, HoldsWrite,
                HoldsRead, Drawing, FrameIn, Lasting, Waiting
  <2>2. half[sendFrom][f] \in shown[f] .. completed
    BY <1>3, <2>1 DEF Show, Forward, IInv, TypeOK, Halves, Newest, NotAhead
  <2>3. Feed!Adopt(f)
    BY <1>3, <2>2 DEF Show, calcVars, Feed!Adopt
  <2> QED
    BY <2>3 DEF Feed!Next
<1> QED
  BY <1>1, <1>2, <1>3

\* The colour path implements ConfigRollout while the effects keep every fan:
\* no fan shows an unfinished frame or goes back to an earlier one.
THEOREM Implements == ASSUME ~MayDrop PROVE Spec => FramesMoveForward
<1>1. Init => Feed!Init
  BY DEF Init, Feed!Init
<1>2. Forward /\ [Next]_vars => Forward'
  BY ForwardStep
<1> QED
  BY <1>1, <1>2, ForwardInit, StepIsFeedStep, PTL
     DEF Spec, FramesMoveForward, Feed!Spec
=============================================================================
