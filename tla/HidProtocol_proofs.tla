------------------------- MODULE HidProtocol_proofs -------------------------
(***************************************************************************)
(* Proofs about HidProtocol, for any channels, listed fans and commands:   *)
(* its types, that answers and requests stay in step until an answer is    *)
(* late, and that the statistics tell what was written, even then.         *)
(* Refused requests and failed writes are part of all of it.               *)
(***************************************************************************)
EXTENDS HidProtocol, Extrema, TLAPS

-----------------------------------------------------------------------------
\* Programs and batches.

\* The length of a command's program.
LEMMA ProgramLength ==
  ASSUME NEW c \in Command
  PROVE  Len(Program(c)) = IF c.kind = "Init" THEN 1
                           ELSE IF c.kind = "Speeds" THEN 2 * Len(c.batch)
                           ELSE Len(c.batch)
<1>1. Len(c.batch) \in Nat /\ c.kind \in {"Init", "Speeds", "Colors"}
  BY DEF Command
<1>2. CASE c.kind = "Init"
  BY <1>2 DEF Program
<1>3. CASE c.kind = "Speeds"
  BY <1>1, <1>3 DEF Program
<1>4. CASE c.kind = "Colors"
  BY <1>1, <1>4 DEF Program
<1> QED
  BY <1>1, <1>2, <1>3, <1>4

\* Of a Speeds program the odd requests set a speed and the even ones ask for
\* the data of the same fan.
LEMMA SpeedsProgram ==
  ASSUME NEW c \in Command, c.kind = "Speeds", NEW i \in 1 .. 2 * Len(c.batch)
  PROVE  IF i % 2 = 1 THEN /\ (i + 1) \div 2 \in DOMAIN c.batch
                           /\ Program(c)[i] = SetSpeed(c.batch[(i + 1) \div 2])
                      ELSE /\ i \div 2 \in DOMAIN c.batch
                           /\ Program(c)[i] = GetData(c.batch[i \div 2])
<1>1. Len(c.batch) \in Nat /\ c.batch \in Seq(Entry)
  BY DEF Command
<1>2. i \in Nat /\ i >= 1 /\ i <= 2 * Len(c.batch)
  BY <1>1
<1>3. CASE i % 2 = 1
  <2>1. (i + 1) \div 2 \in 1 .. Len(c.batch)
    BY <1>1, <1>2, <1>3
  <2> QED
    BY <1>1, <1>3, <2>1 DEF Program
<1>4. CASE i % 2 # 1
  <2>1. i \div 2 \in 1 .. Len(c.batch)
    BY <1>1, <1>2, <1>4
  <2> QED
    BY <1>1, <1>4, <2>1 DEF Program
<1> QED
  BY <1>3, <1>4

\* Every request of a program is one.
LEMMA ProgramTyped ==
  ASSUME NEW c \in Command, NEW i \in 1 .. Len(Program(c))
  PROVE  Program(c)[i] \in Request
<1>1. c.kind \in {"Init", "Speeds", "Colors"} /\ c.batch \in Seq(Entry)
  BY DEF Command
<1>2. 0 \in Byte
  BY DEF Byte
<1>3. CASE c.kind = "Init"
  BY <1>2, <1>3, ProgramLength DEF Program, InitRequest, Request
<1>4. CASE c.kind = "Colors"
  <2>1. i \in DOMAIN c.batch /\ c.batch[i] \in Entry
    BY <1>1, <1>4, ProgramLength
  <2> QED
    BY <1>1, <1>2, <1>4, <2>1 DEF Program, SetRgb, Request, Entry
<1>5. CASE c.kind = "Speeds"
  <2>1. i \in 1 .. 2 * Len(c.batch)
    BY <1>5, ProgramLength
  <2>2. CASE i % 2 = 1
    <3>1. Program(c)[i] = SetSpeed(c.batch[(i + 1) \div 2])
      BY <1>5, <2>1, <2>2, SpeedsProgram
    <3>2. c.batch[(i + 1) \div 2] \in Entry
      BY <1>1, <1>5, <2>1, <2>2, SpeedsProgram
    <3> QED
      BY <3>1, <3>2 DEF SetSpeed, Request, Entry
  <2>3. CASE i % 2 # 1
    <3>1. Program(c)[i] = GetData(c.batch[i \div 2])
      BY <1>5, <2>1, <2>3, SpeedsProgram
    <3>2. c.batch[i \div 2] \in Entry
      BY <1>1, <1>5, <2>1, <2>3, SpeedsProgram
    <3> QED
      BY <1>2, <3>1, <3>2 DEF GetData, Request, Entry
  <2> QED
    BY <2>2, <2>3
<1> QED
  BY <1>1, <1>3, <1>4, <1>5

\* LastFor finds the last entry of a fan, where there is one.
LEMMA LastForFinds ==
  ASSUME NEW b \in Seq(Entry), NEW f, NEW some \in SUBSET DOMAIN b,
         \E i \in some : b[i].fan = f
  PROVE  /\ LastFor(f, b, some) \in some
         /\ b[LastFor(f, b, some)].fan = f
         /\ \A j \in some : b[j].fan = f => j <= LastFor(f, b, some)
<1> DEFINE T == {i \in some : b[i].fan = f}
<1>1. T \subseteq 0 .. Len(b) /\ T # {} /\ Len(b) \in Nat
  OBVIOUS
<1>2. PICK x \in T : \A y \in T : y <= x
  BY <1>1, Maximum
<1>3. \E i \in some : b[i].fan = f /\ \A j \in some : b[j].fan = f => j <= i
  BY <1>2
<1> QED
  BY <1>3 DEF LastFor

-----------------------------------------------------------------------------
\* The type invariant is not inductive: Finish needs as many collected values
\* as the batch has fans.

\* What a worker between two commands has forgotten.
Idling == command = Idle => ~written /\ at = 1 /\ data = <<>>

\* A Speeds command collects one value with every second request.
Counted == command.kind = "Speeds" => Len(data) = (at - 1) \div 2

Typed == HidTypeOK /\ Idling /\ Counted

\* What has failed so far is within its bounds.
Bounded ==
    /\ timeouts \in 0 .. MaxLate
    /\ refusals \in 0 .. MaxRefusals /\ writeErrors \in 0 .. MaxWriteErrors

\* The request under way is one, and of the command's program.
LEMMA CurrentTyped ==
  ASSUME HidTypeOK, command # Idle
  PROVE  /\ command \in Command
         /\ at \in 1 .. Len(Program(command))
         /\ Current \in Request
<1>1. command \in Command /\ at \in 1 .. Len(Program(command))
  BY ProgramLength DEF HidTypeOK, Command
<1> QED
  BY <1>1, ProgramTyped DEF Current

\* The statistics that Finish leaves are speeds of the listed fans.
LEMMA UpdatedTyped ==
  ASSUME NEW b \in Seq(Entry), NEW values \in Seq(Byte), Len(values) = Len(b),
         HidTypeOK
  PROVE  Updated(b, values) \in [1 .. Listed -> Byte]
<1>1. ASSUME NEW f \in 1 .. Listed, \E i \in InBounds(b) : b[i].fan = f
      PROVE  values[LastFor(f, b, InBounds(b))] \in Byte
  <2>1. InBounds(b) \in SUBSET DOMAIN b
    BY DEF InBounds
  <2>2. LastFor(f, b, InBounds(b)) \in DOMAIN b
    BY <1>1, <2>1, LastForFinds
  <2> QED
    BY <2>2
<1>2. \A f \in 1 .. Listed : stats[f] \in Byte
  BY DEF HidTypeOK
<1> QED
  BY <1>1, <1>2 DEF Updated

\* What a GetData request adds to the data.
LEMMA CollectTyped ==
  ASSUME HidTypeOK, buffer # <<>>
  PROVE  /\ Collect \in Seq(Byte)
         /\ Tail(buffer) \in Seq(Answers)
         /\ Head(buffer).value \in Byte
         /\ Len(Collect) = IF Current.type = "GetData" THEN Len(data) + 1 ELSE Len(data)
<1>1. Head(buffer) \in Answers /\ Tail(buffer) \in Seq(Answers)
  BY DEF HidTypeOK
<1>2. Head(buffer).value \in Byte
  BY <1>1 DEF Answers
<1> QED
  BY <1>1, <1>2 DEF Collect, HidTypeOK

\* The worker starts without a command, its device with empty queues.
LEMMA TypedInit == HidInit => Typed
<1> SUFFICES ASSUME HidInit PROVE Typed
  OBVIOUS
<1>1. 0 \in Byte /\ Idle.kind = "none"
  BY DEF Byte, Idle
<1>2. HidTypeOK
  <2>1. stats \in [1 .. Listed -> Byte] /\ speed \in [Channels -> Byte]
    BY <1>1 DEF HidInit
  <2>2. worker \in {"running", "panicked"} /\ command \in Command \union {Idle}
    BY DEF HidInit
  <2>3. at \in Nat \ {0}
    BY DEF HidInit
  <2>4. written \in BOOLEAN
    BY DEF HidInit
  <2>5. data \in Seq(Byte) /\ wire \in Seq(Request) /\ buffer \in Seq(Answers)
    BY DEF HidInit
  <2>6. device \in {"present", "hung", "gone"} /\ Bounded
    BY HidAssumption DEF HidInit, Bounded
  <2>7. command = Idle
    BY DEF HidInit
  <2> QED
    BY <2>1, <2>2, <2>3, <2>4, <2>5, <2>6, <2>7 DEF HidTypeOK, Bounded
<1>3. Idling /\ Counted
  BY <1>1 DEF HidInit, Idling, Counted
<1> QED
  BY <1>2, <1>3 DEF Typed

\* Every step of the worker and of the device keeps the types.
LEMMA TypedStep == Typed /\ [HidNext]_hidVars => Typed'
<1> SUFFICES ASSUME Typed, [HidNext]_hidVars PROVE Typed'
  OBVIOUS
<1> USE DEF Typed
<1>0. written' \in BOOLEAN
  <2>1. written \in BOOLEAN
    BY DEF HidTypeOK
  <2> QED
    BY <2>1, Zenon
       DEF HidNext, HidStep, Begin, Write, WriteFails, GiveUp, ReadRefused, ReadNext,
           Finish, Timeout, DeviceTakes, DeviceRefuses, DeviceFails, hidVars, host
<1>1. CASE command' \in Command /\ Begin(command')
  <2>1. command'.kind \in {"Init", "Speeds", "Colors"} /\ command'.batch \in Seq(Entry)
    BY <1>1 DEF Command
  <2>2. Len(command'.batch) \in Nat /\ (command'.batch # <<>> => Len(command'.batch) >= 1)
    BY <2>1
  <2>3. command'.kind = "Init" \/ command'.batch # <<>>
    BY <1>1 DEF Begin
  <2>4. 1 <= Len(Program(command'))
    <3> HIDE DEF Typed
    <3>1. Len(Program(command')) = IF command'.kind = "Init" THEN 1
                           ELSE IF command'.kind = "Speeds" THEN 2 * Len(command'.batch)
                           ELSE Len(command'.batch)
      BY <1>1, ProgramLength
    <3> QED
      BY <2>2, <2>3, <3>1
  <2>5. command' # Idle
    BY <2>1 DEF Idle
  <2> QED
    BY <1>0, <1>1, <2>3, <2>4, <2>5 DEF Begin, HidTypeOK, Idling, Counted, adapter, faults
<1>2. CASE Write
  <2>1. Current \in Request
    BY <1>2, CurrentTyped DEF Write, Busy
  <2> QED
    BY <1>0, <1>2, <2>1 DEF Write, Busy, HidTypeOK, Idling, Counted, faults
<1>3. ASSUME GiveUp, UNCHANGED <<wire, speed, device>>, Bounded',
             buffer' \in Seq(Answers)
      PROVE  Typed'
  <2>1. command'.kind # "Speeds"
    BY <1>3 DEF GiveUp, Idle
  <2> QED
    BY <1>0, <1>3, <2>1 DEF GiveUp, HidTypeOK, Idling, Counted, Bounded
<1>4. CASE WriteFails
  <2>1. Bounded'
    BY <1>4, HidAssumption DEF WriteFails, HidTypeOK, Bounded
  <2> QED
    BY <1>3, <1>4, <2>1 DEF WriteFails, HidTypeOK
<1>5. CASE ReadRefused
  <2>1. Bounded'
    BY <1>5 DEF ReadRefused, TakeAnswer, HidTypeOK, Bounded, faults
  <2> QED
    BY <1>3, <1>5, <2>1, CollectTyped DEF ReadRefused, Reads, TakeAnswer, HidTypeOK
<1>6. CASE Timeout
  <2>1. Bounded'
    BY <1>6, HidAssumption DEF Timeout, HidTypeOK, Bounded
  <2> QED
    BY <1>3, <1>6, <2>1 DEF Timeout, HidTypeOK
<1>7. ASSUME Reads, command.kind = "Speeds"
      PROVE  /\ at \in 1 .. 2 * Len(command.batch) /\ Len(command.batch) \in Nat
             /\ Len(Program(command)) = 2 * Len(command.batch)
             /\ Len(Collect) = at \div 2
  <2>1. command \in Command /\ at \in 1 .. Len(Program(command))
    BY <1>7, CurrentTyped DEF Reads, Busy
  <2>2. Len(command.batch) \in Nat /\ Len(Program(command)) = 2 * Len(command.batch)
    BY <1>7, <2>1, ProgramLength DEF Command
  <2>3. Len(data) = (at - 1) \div 2
    BY <1>7 DEF Counted
  <2>4. Len(Collect) = IF Current.type = "GetData" THEN Len(data) + 1 ELSE Len(data)
    BY <1>7, CollectTyped DEF Reads
  <2>5. Current.type = IF at % 2 = 1 THEN "SetSpeed" ELSE "GetData"
    <3> HIDE DEF Typed
    <3>1. at \in 1 .. 2 * Len(command.batch)
      BY <2>1, <2>2
    <3>2. IF at % 2 = 1
          THEN Current = SetSpeed(command.batch[(at + 1) \div 2])
          ELSE Current = GetData(command.batch[at \div 2])
      BY <1>7, <2>1, <3>1, SpeedsProgram DEF Current
    <3> QED
      BY <3>2 DEF SetSpeed, GetData
  <2> QED
    BY <2>1, <2>2, <2>3, <2>4, <2>5
<1>8. CASE ReadNext
  <2>1. data' \in Seq(Byte) /\ buffer' \in Seq(Answers)
    BY <1>8, CollectTyped DEF ReadNext, Reads, TakeAnswer
  <2>2. command # Idle /\ at + 1 <= Len(Program(command))
    BY <1>8, CurrentTyped DEF ReadNext, Reads, Busy
  <2>3. HidTypeOK' /\ Idling'
    BY <1>0, <1>8, <2>1, <2>2 DEF ReadNext, TakeAnswer, HidTypeOK, Idling, faults
  <2>4. Counted'
    <3>1. ASSUME command.kind = "Speeds" PROVE Len(data') = (at' - 1) \div 2
      BY <1>7, <1>8, <3>1 DEF ReadNext
    <3> QED
      BY <1>8, <3>1 DEF ReadNext, Counted
  <2> QED
    BY <2>3, <2>4
<1>9. CASE Finish
  <2>1. buffer' \in Seq(Answers) /\ Collect \in Seq(Byte)
    BY <1>9, CollectTyped DEF Finish, Reads, TakeAnswer
  <2>2. command \in Command
    BY <1>9, CurrentTyped DEF Finish, Reads, Busy
  <2>3. stats' \in [1 .. Listed -> Byte]
    <3>1. CASE command.kind = "Speeds"
      <4>1. Len(Collect) = Len(command.batch)
        BY <1>7, <1>9, <3>1 DEF Finish
      <4> QED
        BY <1>9, <2>1, <2>2, <3>1, <4>1, UpdatedTyped DEF Finish, Command
    <3>2. CASE command.kind # "Speeds"
      BY <1>9, <3>2 DEF Finish, HidTypeOK
    <3> QED
      BY <3>1, <3>2
  <2>4. worker' \in {"running", "panicked"} /\ command'.kind # "Speeds"
    BY <1>9 DEF Finish, HidTypeOK, Idle
  <2> QED
    BY <1>0, <1>9, <2>1, <2>3, <2>4
       DEF Finish, TakeAnswer, HidTypeOK, Idling, Counted, faults
<1>10. CASE DeviceTakes
  <2>1. Head(wire) \in Request /\ Tail(wire) \in Seq(Request)
    BY <1>10 DEF DeviceTakes, HidTypeOK
  <2>2. Head(wire).value \in Byte
    BY <2>1 DEF Request
  <2>3. Answer(Head(wire)) \in Answers
    BY <2>1 DEF Answer, Answers, HidTypeOK, Done, Byte
  <2>4. speed' \in [Channels -> Byte]
    BY <1>10, <2>2 DEF DeviceTakes, HidTypeOK
  <2> QED
    BY <1>0, <1>10, <2>1, <2>3, <2>4 DEF DeviceTakes, host, HidTypeOK, Idling, Counted, faults
<1>11. CASE DeviceFails
  BY <1>0, <1>11 DEF DeviceFails, host, HidTypeOK, Idling, Counted, faults
<1>12. CASE DeviceRefuses
  <2>1. Head(wire) \in Request /\ Tail(wire) \in Seq(Request)
    BY <1>12 DEF DeviceRefuses, HidTypeOK
  <2>2. [to |-> Head(wire), value |-> Refused] \in Answers
    BY <2>1 DEF Answers, Refused, Byte
  <2>3. Bounded'
    BY <1>12, HidAssumption DEF DeviceRefuses, HidTypeOK, Bounded
  <2> QED
    BY <1>0, <1>12, <2>1, <2>2, <2>3 DEF DeviceRefuses, host, HidTypeOK, Idling, Counted, Bounded
<1>13. CASE UNCHANGED hidVars
  BY <1>0, <1>13 DEF hidVars, host, adapter, faults, HidTypeOK, Idling, Counted
<1> QED
  BY <1>1, <1>2, <1>4, <1>5, <1>6, <1>8, <1>9, <1>10, <1>11, <1>12, <1>13
     DEF HidNext, HidStep

\* Worker and device keep their types for any commands whatever.
THEOREM TypeCorrect == HidSpec => []HidTypeOK
<1>1. HidSpec => []Typed
  BY TypedInit, TypedStep, PTL DEF HidSpec
<1> QED
  BY <1>1, PTL DEF Typed

-----------------------------------------------------------------------------
\* Answers and requests in step.

\* A device that is not present has nothing left to answer.
Mute == device # "present" => wire = <<>>

\* Until an answer is late there is one request at most on its way, the one
\* under way, or its answer; what is left of a device that is gone is not read.
InStep ==
    timeouts = 0 =>
        IF written
        THEN \/ wire = <<>> /\ buffer = <<>>
             \/ wire = <<Current>> /\ buffer = <<>>
             \/ wire = <<>> /\ Tail(buffer) = <<>> /\ Head(buffer).to = Current
        ELSE wire = <<>> /\ (device # "gone" => buffer = <<>>)

\* Nothing is on its way when the worker starts.
LEMMA InStepInit == HidInit => Mute /\ InStep
  BY DEF HidInit, Mute, InStep

\* Every step keeps requests and answers in step.
LEMMA InStepStep == Typed /\ Mute /\ InStep /\ [HidNext]_hidVars => (Mute /\ InStep)'
<1> SUFFICES ASSUME Typed, Mute, InStep, [HidNext]_hidVars PROVE (Mute /\ InStep)'
  OBVIOUS
<1>1. timeouts \in Nat /\ wire \in Seq(Request) /\ buffer \in Seq(Answers)
  BY HidAssumption DEF Typed, HidTypeOK
<1>2. CASE command' \in Command /\ Begin(command')
  BY <1>2 DEF Begin, Typed, Idling, Mute, InStep, adapter, faults
<1>3. CASE Write
  <2>1. Current' = Current
    BY <1>3 DEF Write, Current
  <2>2. Append(<<>>, Current) = <<Current>>
    OBVIOUS
  <2>3. timeouts = 0 => wire = <<>> /\ buffer = <<>>
    BY <1>3 DEF Write, InStep
  <2>4. Mute'
    BY <1>3 DEF Write, Mute
  <2>5. ASSUME timeouts = 0 PROVE wire' \in {<<>>, <<Current>>} /\ buffer' = <<>>
    BY <1>3, <2>2, <2>3, <2>5 DEF Write
  <2> QED
    BY <1>3, <2>1, <2>4, <2>5 DEF Write, InStep, faults
<1>4. CASE WriteFails
  BY <1>4 DEF WriteFails, GiveUp, Mute, InStep
<1>5. ASSUME Reads, TakeAnswer, written' = FALSE PROVE (Mute /\ InStep)'
  BY <1>5 DEF Reads, TakeAnswer, Mute, InStep, faults
<1>6. CASE ReadRefused \/ ReadNext \/ Finish
  BY <1>5, <1>6 DEF ReadRefused, GiveUp, ReadNext, Finish
<1>7. CASE Timeout
  <2>1. CASE device = "present"
    BY <1>1, <1>7, <2>1 DEF Timeout, GiveUp, Mute, InStep
  <2>2. CASE device # "present"
    BY <1>1, <1>7, <2>2 DEF Timeout, GiveUp, Mute, InStep
  <2> QED
    BY <2>1, <2>2
<1>8. ASSUME device = "present", wire # <<>>, UNCHANGED <<host, device, timeouts>>,
             wire' = Tail(wire), NEW a, a.to = Head(wire), buffer' = Append(buffer, a)
      PROVE  (Mute /\ InStep)'
  <2>1. Current' = Current /\ written' = written
    BY <1>8 DEF host, Current
  <2>2. CASE timeouts = 0
    <3>1. written /\ wire = <<Current>> /\ buffer = <<>>
      BY <1>8, <2>2 DEF InStep
    <3>2. wire' = <<>> /\ Tail(buffer') = <<>> /\ Head(buffer').to = Current
      BY <1>8, <3>1
    <3> QED
      BY <1>8, <2>1, <2>2, <3>1, <3>2 DEF Mute, InStep
  <2>3. CASE timeouts # 0
    BY <1>8, <2>3 DEF Mute, InStep
  <2> QED
    BY <2>2, <2>3
<1>9. CASE DeviceTakes
  <2>1. Answer(Head(wire)).to = Head(wire)
    BY DEF Answer
  <2>2. /\ device = "present" /\ wire # <<>> /\ UNCHANGED <<host, device, timeouts>>
        /\ wire' = Tail(wire) /\ buffer' = Append(buffer, Answer(Head(wire)))
    BY <1>9 DEF DeviceTakes, faults
  <2> QED
    BY <1>8, <2>1, <2>2
<1>10. CASE DeviceRefuses
  <2> DEFINE a == [to |-> Head(wire), value |-> Refused]
  <2>1. /\ device = "present" /\ wire # <<>> /\ UNCHANGED <<host, device, timeouts>>
        /\ wire' = Tail(wire) /\ buffer' = Append(buffer, a) /\ a.to = Head(wire)
    BY <1>10 DEF DeviceRefuses
  <2> QED
    BY <1>8, <2>1
<1>11. CASE DeviceFails
  <2>1. Current' = Current
    BY <1>11 DEF DeviceFails, host, Current
  <2> QED
    BY <1>11, <2>1 DEF DeviceFails, host, faults, Mute, InStep
<1>12. CASE UNCHANGED hidVars
  BY <1>12 DEF hidVars, host, adapter, faults, Mute, InStep, Current
<1> QED
  BY <1>2, <1>3, <1>4, <1>6, <1>7, <1>9, <1>10, <1>11, <1>12 DEF HidNext, HidStep

\* While no answer has ever been late a request reads its own answer.
THEOREM Paired == HidSpec => []OwnAnswer
<1>1. Typed /\ Mute /\ InStep => OwnAnswer
  BY DEF InStep, OwnAnswer
<1>2. HidSpec => [](Typed /\ Mute /\ InStep)
  BY TypedInit, TypedStep, InStepInit, InStepStep, PTL DEF HidSpec
<1> QED
  BY <1>1, <1>2, PTL

-----------------------------------------------------------------------------
\* What the device will have once it has taken what is written to it.

\* Target, for any requests w on their way and any duties s.
Sets(w, f, i) == w[i].type = "SetSpeed" /\ w[i].fan = f
TargetOf(w, s, f) ==
    LET sets == {i \in DOMAIN w : Sets(w, f, i)}
    IN IF sets = {} THEN s[f] ELSE w[CHOOSE i \in sets : \A j \in sets : j <= i].value

\* Target is an instance of it.
LEMMA TargetIsOne == \A f : Target(f) = TargetOf(wire, speed, f)
  BY DEF Target, TargetOf, Sets

\* The last request that sets a fan's speed is its target.
LEMMA TargetIsLast ==
  ASSUME NEW w \in Seq(Request), NEW s, NEW f, NEW i \in DOMAIN w, Sets(w, f, i),
         \A j \in DOMAIN w : Sets(w, f, j) => j <= i
  PROVE  TargetOf(w, s, f) = w[i].value
<1> DEFINE sets == {k \in DOMAIN w : Sets(w, f, k)}
<1>1. i \in sets /\ \A j \in sets : j <= i
  OBVIOUS
<1>2. \A k \in sets : k \in Nat
  OBVIOUS
<1> HIDE DEF sets
<1>3. \A k \in sets : (\A j \in sets : j <= k) => k = i
  BY <1>1, <1>2
<1>4. (CHOOSE k \in sets : \A j \in sets : j <= k) = i
  BY <1>1, <1>3
<1> QED
  BY <1>1, <1>4 DEF TargetOf, sets

\* There is a last one if there is any.
LEMMA LastSets ==
  ASSUME NEW w \in Seq(Request), NEW f, NEW k \in DOMAIN w, Sets(w, f, k)
  PROVE  \E i \in DOMAIN w : Sets(w, f, i) /\ \A j \in DOMAIN w : Sets(w, f, j) => j <= i
<1> DEFINE T == {i \in DOMAIN w : Sets(w, f, i)}
<1>1. T \subseteq 0 .. Len(w) /\ T # {} /\ Len(w) \in Nat
  OBVIOUS
<1> QED
  BY <1>1, Maximum

\* A request that is written changes the target of the fan whose speed it sets.
LEMMA TargetAppend ==
  ASSUME NEW w \in Seq(Request), NEW s, NEW f, NEW r \in Request
  PROVE  TargetOf(Append(w, r), s, f) =
            IF r.type = "SetSpeed" /\ r.fan = f THEN r.value ELSE TargetOf(w, s, f)
<1> DEFINE v == Append(w, r)
<1>1. /\ v \in Seq(Request) /\ Len(v) = Len(w) + 1 /\ Len(w) \in Nat
      /\ v[Len(w) + 1] = r /\ \A i \in DOMAIN w : v[i] = w[i]
      /\ DOMAIN v = 1 .. Len(w) + 1 /\ DOMAIN w = 1 .. Len(w)
  OBVIOUS
<1> HIDE DEF v
<1>2. \A i \in DOMAIN w : Sets(v, f, i) <=> Sets(w, f, i)
  BY <1>1 DEF Sets
<1>3. CASE Sets(v, f, Len(w) + 1)
  <2>1. TargetOf(v, s, f) = v[Len(w) + 1].value
    BY <1>1, <1>3, TargetIsLast
  <2> QED
    BY <1>1, <1>3, <2>1 DEF Sets, v
<1>4. CASE ~Sets(v, f, Len(w) + 1)
  <2>1. CASE \E k \in DOMAIN w : Sets(w, f, k)
    <3>1. PICK i \in DOMAIN w : Sets(w, f, i) /\ \A j \in DOMAIN w : Sets(w, f, j) => j <= i
      BY <2>1, LastSets
    <3>2. TargetOf(w, s, f) = w[i].value
      BY <3>1, TargetIsLast
    <3>3. i \in DOMAIN v /\ Sets(v, f, i) /\ \A j \in DOMAIN v : Sets(v, f, j) => j <= i
      BY <1>1, <1>2, <1>4, <3>1
    <3>4. TargetOf(v, s, f) = v[i].value
      BY <1>1, <3>3, TargetIsLast
    <3> QED
      BY <1>1, <1>4, <3>2, <3>4 DEF Sets, v
  <2>2. CASE ~ \E k \in DOMAIN w : Sets(w, f, k)
    <3>1. \A k \in DOMAIN v : ~Sets(v, f, k)
      BY <1>1, <1>2, <1>4, <2>2
    <3>2. TargetOf(v, s, f) = s[f] /\ TargetOf(w, s, f) = s[f]
      BY <2>2, <3>1 DEF TargetOf
    <3> QED
      BY <1>1, <1>4, <3>2 DEF Sets, v
  <2> QED
    BY <2>1, <2>2
<1> QED
  BY <1>3, <1>4

\* A device that takes a request changes no target.
LEMMA TargetTail ==
  ASSUME NEW w \in Seq(Request), w # <<>>, NEW s \in [Channels -> Byte],
         NEW f \in Channels
  PROVE  TargetOf(Tail(w),
                  IF Head(w).type = "SetSpeed" /\ Head(w).fan \in Channels
                  THEN [s EXCEPT ![Head(w).fan] = Head(w).value] ELSE s, f)
            = TargetOf(w, s, f)
<1> DEFINE t == Tail(w)
           u == IF Head(w).type = "SetSpeed" /\ Head(w).fan \in Channels
                THEN [s EXCEPT ![Head(w).fan] = Head(w).value] ELSE s
<1>1. /\ t \in Seq(Request) /\ Len(w) \in Nat /\ Len(w) >= 1 /\ Len(t) = Len(w) - 1
      /\ DOMAIN w = 1 .. Len(w) /\ DOMAIN t = 1 .. Len(w) - 1 /\ Head(w) = w[1]
      /\ \A i \in 1 .. Len(w) - 1 : t[i] = w[i + 1]
  OBVIOUS
<1>2. u[f] = IF Sets(w, f, 1) THEN w[1].value ELSE s[f]
  BY <1>1 DEF Sets
<1> HIDE DEF t, u
<1>3. \A i \in 1 .. Len(w) - 1 : Sets(t, f, i) <=> Sets(w, f, i + 1)
  BY <1>1 DEF Sets
<1>4. CASE \E k \in DOMAIN t : Sets(t, f, k)
  <2>1. PICK i \in DOMAIN t : Sets(t, f, i) /\ \A j \in DOMAIN t : Sets(t, f, j) => j <= i
    BY <1>1, <1>4, LastSets
  <2>2. TargetOf(t, u, f) = t[i].value
    <3>1. t \in Seq(Request)
      BY <1>1
    <3> QED
      BY <2>1, <3>1, TargetIsLast, Zenon
  <2>3. i + 1 \in DOMAIN w /\ Sets(w, f, i + 1)
    BY <1>1, <1>3, <2>1
  <2>4. ASSUME NEW j \in DOMAIN w, Sets(w, f, j) PROVE j <= i + 1
    <3>1. CASE j = 1
      BY <1>1, <3>1
    <3>2. CASE j # 1
      <4>1. j - 1 \in DOMAIN t /\ Sets(t, f, j - 1)
        BY <1>1, <1>3, <2>4, <3>2
      <4> QED
        BY <1>1, <2>1, <4>1
    <3> QED
      BY <3>1, <3>2
  <2>5. TargetOf(w, s, f) = w[i + 1].value
    BY <2>3, <2>4, TargetIsLast
  <2> QED
    BY <1>1, <2>2, <2>5 DEF t, u
<1>5. CASE ~ \E k \in DOMAIN t : Sets(t, f, k)
  <2>1. TargetOf(t, u, f) = u[f]
    BY <1>5 DEF TargetOf
  <2>2. \A j \in DOMAIN w : Sets(w, f, j) => j = 1
    <3>1. ASSUME NEW j \in DOMAIN w, j # 1 PROVE ~Sets(w, f, j)
      <4>1. j - 1 \in DOMAIN t
        BY <1>1, <3>1
      <4> QED
        BY <1>1, <1>3, <1>5, <4>1
    <3> QED
      BY <3>1
  <2>3. CASE Sets(w, f, 1)
    <3>1. TargetOf(w, s, f) = w[1].value
      <4>1. 1 \in DOMAIN w /\ \A j \in DOMAIN w : Sets(w, f, j) => j <= 1
        BY <1>1, <2>2
      <4> QED
        BY <2>3, <4>1, TargetIsLast, Zenon
    <3> QED
      BY <1>2, <2>1, <2>3, <3>1 DEF t, u
  <2>4. CASE ~Sets(w, f, 1)
    <3>1. TargetOf(w, s, f) = s[f]
      BY <2>2, <2>4 DEF TargetOf
    <3> QED
      BY <1>2, <2>1, <2>4, <3>1 DEF t, u
  <2> QED
    BY <2>3, <2>4
<1> QED
  BY <1>4, <1>5

-----------------------------------------------------------------------------
\* The statistics mean written speeds.

\* How many requests of the command, and how many entries of a batch of
\* speeds, have been written.
Requests == IF written THEN at ELSE at - 1
Entries == (Requests + 1) \div 2

\* A fan's target is what its last entry of those already written says.
LastOf(f, i) ==
    command.batch[i].fan = f
    /\ \A j \in 1 .. Entries : command.batch[j].fan = f => j <= i

\* The status about to be read is a refusal.
Refusing == buffer # <<>> /\ Head(buffer).to.type # "GetData" /\ Head(buffer).value # Done

\* A refused duty is not the fan's target: the command is about to end.
Exact == timeouts = 0 \/ refusals = 0
Sent ==
    device = "present" /\ command.kind = "Speeds" /\ Exact =>
        \/ timeouts = 0 /\ Refusing
        \/ \A f \in Channels : \A i \in 1 .. Entries :
               LastOf(f, i) => Target(f) = command.batch[i].speed

\* A refusal that is read in time ends the command.
LEMMA RefusedEnds ==
  ASSUME Typed, Mute, InStep, timeouts = 0, Refusing, device = "present"
  PROVE  ~Write /\ ~ReadNext /\ ~Finish /\ ~DeviceTakes /\ ~DeviceRefuses
<1>1. written /\ wire = <<>> /\ Head(buffer).to = Current
  BY DEF InStep, Refusing
<1>2. ~Accepts(Current, Head(buffer))
  BY <1>1 DEF Refusing, Accepts
<1> QED
  BY <1>1, <1>2 DEF Write, ReadNext, Finish, DeviceTakes, DeviceRefuses

\* A worker without a command has written nothing of it.
LEMMA SentInit == HidInit => Sent
  BY DEF HidInit, Sent, Idle

\* Neither the device, nor what the worker does with its answers, can undo a
\* target that was written.
LEMMA SentStep == Typed /\ Mute /\ InStep /\ Sent /\ [HidNext]_hidVars => Sent'
<1> SUFFICES ASSUME Typed, Mute, InStep, Sent, [HidNext]_hidVars,
                    device' = "present", command'.kind = "Speeds", Exact',
                    ~(timeouts' = 0 /\ Refusing'),
                    NEW f \in Channels, NEW i \in 1 .. Entries', LastOf(f, i)'
             PROVE  Target(f)' = command'.batch[i].speed
  BY DEF Sent
<1> USE DEF Typed
<1>1. /\ wire \in Seq(Request) /\ speed \in [Channels -> Byte]
      /\ at \in Nat \ {0}
  BY DEF HidTypeOK
<1>2. /\ Target(f) = TargetOf(wire, speed, f)
      /\ Target(f)' = TargetOf(wire', speed', f)
  BY TargetIsOne DEF Target, TargetOf, Sets
<1>3. ASSUME command' = command, device = device', Entries' = Entries,
             Target(f)' = Target(f), Exact, ~(timeouts = 0 /\ Refusing)
      PROVE  Target(f)' = command'.batch[i].speed
  <2>1. LastOf(f, i)
    BY <1>3 DEF LastOf
  <2> QED
    BY <1>3, <2>1 DEF Sent
<1>11. ASSUME Write \/ ReadNext \/ DeviceTakes
       PROVE  Exact /\ ~(timeouts = 0 /\ Refusing) /\ device = "present"
  <2>1. device = "present" /\ UNCHANGED <<timeouts, refusals>>
    BY <1>11 DEF Write, ReadNext, TakeAnswer, DeviceTakes, faults
  <2> QED
    BY <1>11, <2>1, RefusedEnds DEF Exact
<1>4. CASE command' \in Command /\ Begin(command')
  <2>1. Entries' = 0
    BY <1>4 DEF Begin, Entries, Requests
  <2> QED
    BY <2>1
<1>5. CASE Write
  <2>1. /\ command \in Command /\ Current \in Request /\ command' = command
        /\ at \in 1 .. Len(Program(command)) /\ command.kind = "Speeds"
    BY <1>5, CurrentTyped DEF Write, Busy
  <2>2. /\ at \in 1 .. 2 * Len(command.batch) /\ Len(command.batch) \in Nat
        /\ command.batch \in Seq(Entry)
    BY <2>1, ProgramLength DEF Command
  <2>3. wire' = Append(wire, Current) /\ speed' = speed /\ device' = device
    BY <1>5 DEF Write
  <2>4. Requests' = at /\ Requests = at - 1
    BY <1>5 DEF Write, Requests
  <2>5. Target(f)' = IF Current.type = "SetSpeed" /\ Current.fan = f
                     THEN Current.value ELSE Target(f)
    BY <1>1, <1>2, <2>1, <2>3, TargetAppend
  <2>6. CASE at % 2 = 1
    <3> DEFINE e == (at + 1) \div 2
    <3>1. Current = SetSpeed(command.batch[e])
      BY <2>1, <2>2, <2>6, SpeedsProgram DEF Current
    <3>2. Entries' = e /\ Entries = e - 1 /\ e \in Nat \ {0} /\ e \in DOMAIN command.batch
      <4>1. at \in Nat /\ at >= 1 /\ at <= 2 * Len(command.batch)
        BY <2>2
      <4>2. at \div 2 = e - 1 /\ e \in Nat \ {0} /\ e <= Len(command.batch)
        BY <2>2, <2>6, <4>1
      <4>3. Entries' = e
        BY <2>4 DEF Entries
      <4>4. Entries = at \div 2
        <5>1. Requests + 1 = at
          BY <2>4, <4>1
        <5> QED
          BY <5>1 DEF Entries
      <4>5. DOMAIN command.batch = 1 .. Len(command.batch)
        BY <2>2
      <4> QED
        BY <2>2, <4>2, <4>3, <4>4, <4>5
    <3> HIDE DEF e
    <3>3. Current.type = "SetSpeed" /\ Current.fan = command.batch[e].fan
          /\ Current.value = command.batch[e].speed
      BY <3>1 DEF SetSpeed
    <3>4. CASE command.batch[e].fan = f
      <4>1. e <= i
        BY <2>1, <3>2, <3>4 DEF LastOf
      <4>2. i = e
        BY <3>2, <4>1
      <4> QED
        BY <2>1, <2>5, <3>3, <3>4, <4>2
    <3>5. CASE command.batch[e].fan # f
      <4>1. i # e /\ i \in 1 .. Entries
        BY <2>1, <3>2, <3>5 DEF LastOf
      <4>2. LastOf(f, i)
        BY <2>1, <3>2 DEF LastOf
      <4>3. Target(f) = command.batch[i].speed
        BY <1>5, <1>11, <2>1, <4>1, <4>2 DEF Sent
      <4> QED
        BY <2>1, <2>5, <3>3, <3>5, <4>3
    <3> QED
      BY <3>4, <3>5
  <2>7. CASE at % 2 # 1
    <3>1. Current = GetData(command.batch[at \div 2])
      BY <2>1, <2>2, <2>7, SpeedsProgram DEF Current
    <3>2. Target(f)' = Target(f)
      BY <2>5, <3>1 DEF GetData
    <3>3. Entries' = Entries
      BY <2>2, <2>4, <2>7 DEF Entries
    <3> QED
      BY <1>3, <1>5, <1>11, <2>1, <2>3, <3>2, <3>3
  <2> QED
    BY <2>6, <2>7
<1>6. CASE ReadNext
  <2>1. Entries' = Entries
    BY <1>1, <1>6 DEF ReadNext, Reads, Entries, Requests
  <2> QED
    BY <1>2, <1>3, <1>6, <1>11, <2>1 DEF ReadNext, TakeAnswer
<1>7. CASE WriteFails \/ ReadRefused \/ Timeout \/ Finish
  BY <1>7 DEF WriteFails, ReadRefused, Timeout, GiveUp, Finish, Idle
<1>8. CASE DeviceTakes
  <2>1. TargetOf(wire', speed', f) = TargetOf(wire, speed, f)
    BY <1>1, <1>8, TargetTail DEF DeviceTakes
  <2>2. Entries' = Entries /\ command' = command /\ device' = device
    BY <1>8 DEF DeviceTakes, host, Entries, Requests
  <2> QED
    BY <1>2, <1>3, <1>8, <1>11, <2>1, <2>2
<1>9. CASE DeviceFails
  BY <1>9 DEF DeviceFails
<1>10. CASE UNCHANGED hidVars
  <2>1. Entries' = Entries /\ command' = command /\ device' = device
        /\ wire' = wire /\ speed' = speed /\ Exact /\ ~(timeouts = 0 /\ Refusing)
    BY <1>10 DEF hidVars, host, adapter, faults, Entries, Requests, Exact, Refusing
  <2> QED
    BY <1>2, <1>3, <2>1
<1>12. CASE DeviceRefuses
  <2>1. refusals' # 0 /\ timeouts' = timeouts /\ wire # <<>>
    BY <1>12, HidAssumption DEF DeviceRefuses, HidTypeOK
  <2>2. timeouts = 0 /\ buffer = <<>>
    BY <2>1 DEF Exact, InStep
  <2>3. buffer' = <<[to |-> Head(wire), value |-> Refused]>> /\ Head(wire).type # "GetData"
    BY <1>12, <2>2 DEF DeviceRefuses
  <2>4. Refusing'
    BY <2>3 DEF Refusing, Refused, Done
  <2> QED
    BY <2>1, <2>2, <2>4
<1> QED
  BY <1>4, <1>5, <1>6, <1>7, <1>8, <1>9, <1>10, <1>12 DEF HidNext, HidStep

\* When a batch of speeds is finished every fan of it has been written its last
\* duty.
LEMMA WholeBatch ==
  ASSUME Typed, Mute, InStep, Sent, Finish, command.kind = "Speeds", device = "present",
         Exact,
         NEW i \in DOMAIN command.batch, command.batch[i].fan \in Channels
  PROVE  Target(command.batch[i].fan) = LastSpeed(command.batch[i].fan, command.batch)
<1> DEFINE f == command.batch[i].fan
           last == LastFor(f, command.batch, DOMAIN command.batch)
<1>1. command \in Command /\ at = Len(Program(command)) /\ written
  BY CurrentTyped DEF Typed, Finish, Reads, Busy
<1>2. /\ at = 2 * Len(command.batch) /\ Len(command.batch) \in Nat
      /\ command.batch \in Seq(Entry)
  BY <1>1, ProgramLength DEF Command
<1>3. Entries = Len(command.batch)
  <2>1. \A n \in Nat : (2 * n + 1) \div 2 = n
    OBVIOUS
  <2>2. Requests = 2 * Len(command.batch)
    BY <1>1, <1>2 DEF Requests
  <2> QED
    BY <1>2, <2>1, <2>2 DEF Entries
<1>4. /\ last \in DOMAIN command.batch /\ command.batch[last].fan = f
      /\ \A j \in DOMAIN command.batch : command.batch[j].fan = f => j <= last
  BY <1>2, LastForFinds
<1> HIDE DEF last
<1>5. last \in 1 .. Entries /\ LastOf(f, last)
  BY <1>2, <1>3, <1>4 DEF LastOf
<1> QED
  BY <1>5, RefusedEnds DEF Sent, LastSpeed, last

\* Statistics change only when the whole batch is written to the device, for
\* any batch, with a fan in it twice, and whatever answers came late or whatever
\* was refused.
THEOREM Truthful == HidSpec => StatsMeanWritten
<1> DEFINE Whole == stats' # stats /\ device = "present" /\ (timeouts = 0 \/ refusals = 0) =>
                      \A i \in DOMAIN command.batch :
                          LET f == command.batch[i].fan
                          IN f \in Channels => Target(f) = LastSpeed(f, command.batch)
<1>1. Typed /\ Mute /\ InStep /\ Sent /\ [HidNext]_hidVars => [Whole]_hidVars
  <2> SUFFICES ASSUME Typed, Mute, InStep, Sent, HidNext, stats' # stats, device = "present",
                      Exact, NEW i \in DOMAIN command.batch,
                      command.batch[i].fan \in Channels
               PROVE  Target(command.batch[i].fan)
                        = LastSpeed(command.batch[i].fan, command.batch)
    BY DEF Exact
  <2>1. Finish /\ command.kind = "Speeds"
    BY DEF HidNext, HidStep, Begin, Write, WriteFails, GiveUp, ReadRefused, ReadNext,
           Timeout, DeviceTakes, DeviceRefuses, DeviceFails, Finish, host
  <2> QED
    BY <2>1, WholeBatch
<1>2. HidSpec => [](Typed /\ Mute /\ InStep /\ Sent)
  BY TypedInit, TypedStep, InStepInit, InStepStep, SentInit, SentStep, PTL DEF HidSpec
<1> QED
  BY <1>1, <1>2, PTL DEF HidSpec, StatsMeanWritten

-----------------------------------------------------------------------------
\* What else may happen to a target, and to a command.

\* Only a batch of speeds has requests that set one.
LEMMA OthersSetNothing ==
  ASSUME NEW c \in Command, c.kind # "Speeds", NEW i \in 1 .. Len(Program(c))
  PROVE  Program(c)[i].type # "SetSpeed"
<1>1. c.kind \in {"Init", "Colors"} /\ c.batch \in Seq(Entry)
  BY DEF Command
<1>2. CASE c.kind = "Init"
  BY <1>2, ProgramLength DEF Program, InitRequest
<1>3. CASE c.kind = "Colors"
  <2>1. i \in DOMAIN c.batch
    BY <1>1, <1>3, ProgramLength
  <2> QED
    BY <1>3, <2>1 DEF Program, SetRgb
<1> QED
  BY <1>1, <1>2, <1>3

\* Commands other than a batch of speeds leave the targets as they are, and so
\* does a device that stays and refuses nothing.
LEMMA TargetKept ==
  ASSUME Typed, [HidNext]_hidVars, command.kind # "Speeds", device' = "present",
         refusals' = refusals, NEW f \in Channels
  PROVE  Target(f)' = Target(f)
<1>1. /\ wire \in Seq(Request) /\ speed \in [Channels -> Byte]
  BY DEF Typed, HidTypeOK
<1>2. /\ Target(f) = TargetOf(wire, speed, f)
      /\ Target(f)' = TargetOf(wire', speed', f)
  BY TargetIsOne DEF Target, TargetOf, Sets
<1>3. CASE wire' = wire /\ speed' = speed
  BY <1>2, <1>3
<1>4. CASE Write
  <2>1. /\ command \in Command /\ Current \in Request
        /\ at \in 1 .. Len(Program(command))
    BY <1>4, CurrentTyped DEF Write, Busy, Typed
  <2>2. Current.type # "SetSpeed"
    BY <2>1, OthersSetNothing DEF Current
  <2>3. speed' = speed /\ wire' \in {wire, Append(wire, Current)}
    BY <1>4 DEF Write
  <2>4. TargetOf(Append(wire, Current), speed, f) = TargetOf(wire, speed, f)
    BY <1>1, <2>1, <2>2, TargetAppend
  <2> QED
    BY <1>2, <2>3, <2>4
<1>5. CASE DeviceTakes
  BY <1>1, <1>2, <1>5, TargetTail DEF DeviceTakes
<1>6. CASE \/ command' \in Command /\ Begin(command')
           \/ WriteFails \/ ReadRefused \/ ReadNext \/ Finish \/ Timeout
           \/ UNCHANGED hidVars
  <2>1. wire' = wire /\ speed' = speed
    BY <1>6 DEF Begin, WriteFails, ReadRefused, ReadNext, Finish, Timeout, TakeAnswer,
                hidVars, adapter
  <2> QED
    BY <1>3, <2>1
<1>7. CASE DeviceFails
  BY <1>7 DEF DeviceFails
<1>8. CASE DeviceRefuses
  BY <1>8, HidAssumption DEF DeviceRefuses, Typed, HidTypeOK
<1> QED
  BY <1>4, <1>5, <1>6, <1>7, <1>8 DEF HidNext, HidStep

\* Before the first refusal a status that waits to be read says that the
\* request was done.
Honest ==
    refusals = 0 =>
        \A i \in DOMAIN buffer : buffer[i].to.type = "GetData" \/ buffer[i].value = Done

LEMMA HonestInit == HidInit => Honest
  BY DEF HidInit, Honest

LEMMA HonestStep == Typed /\ Honest /\ [HidNext]_hidVars => Honest'
<1> SUFFICES ASSUME Typed, Honest, [HidNext]_hidVars, refusals = 0, refusals' = 0
             PROVE  Honest'
  <2>1. CASE DeviceRefuses
    BY <2>1, HidAssumption DEF DeviceRefuses, Typed, HidTypeOK, Honest
  <2>2. CASE ~DeviceRefuses
    <3>1. CASE (command' \in Command /\ Begin(command')) \/ UNCHANGED hidVars
      BY <3>1 DEF Begin, hidVars, adapter, faults, Honest
    <3>2. CASE Write \/ WriteFails \/ Timeout \/ DeviceTakes \/ DeviceFails
      BY <3>2 DEF Write, WriteFails, Timeout, DeviceTakes, DeviceFails, faults, Honest
    <3>3. CASE ReadRefused \/ ReadNext \/ Finish
      BY <3>3 DEF ReadRefused, ReadNext, Finish, TakeAnswer, faults, Honest
    <3> QED
      BY <2>2, <3>1, <3>2, <3>3 DEF HidNext, HidStep
  <2> QED
    BY <2>1, <2>2
<1>1. buffer \in Seq(Answers)
  BY DEF Typed, HidTypeOK
<1>2. CASE buffer' = buffer
  BY <1>2 DEF Honest
<1>3. ASSUME buffer # <<>>, buffer' = Tail(buffer) PROVE Honest'
  <2>1. \A i \in DOMAIN buffer' : i + 1 \in DOMAIN buffer /\ buffer'[i] = buffer[i + 1]
    BY <1>1, <1>3
  <2> QED
    BY <2>1 DEF Honest
<1>4. CASE ReadRefused \/ ReadNext \/ Finish
  BY <1>3, <1>4 DEF ReadRefused, ReadNext, Finish, Reads, TakeAnswer
<1>5. CASE DeviceTakes
  <2> DEFINE r == Head(wire)
             a == Answer(r)
  <2>1. r \in Request /\ buffer' = Append(buffer, a)
    BY <1>5 DEF DeviceTakes, Typed, HidTypeOK
  <2>2. a.to.type = "GetData" \/ a.value = Done
    BY DEF Answer
  <2> HIDE DEF r, a
  <2>3. \A i \in DOMAIN buffer' : \/ i \in DOMAIN buffer /\ buffer'[i] = buffer[i]
                                  \/ buffer'[i] = a
    BY <1>1, <2>1
  <2> QED
    BY <2>2, <2>3 DEF Honest
<1>6. CASE \/ command' \in Command /\ Begin(command')
           \/ Write \/ WriteFails \/ Timeout \/ DeviceFails \/ UNCHANGED hidVars
  <2>1. buffer' = buffer
    BY <1>6 DEF Begin, Write, WriteFails, Timeout, DeviceFails, hidVars, adapter
  <2> QED
    BY <1>2, <2>1
<1>7. CASE DeviceRefuses
  BY <1>7 DEF DeviceRefuses
<1> QED
  BY <1>4, <1>5, <1>6, <1>7 DEF HidNext, HidStep

\* While no answer has been late and the device refuses nothing, no answer is
\* taken for a refusal.
LEMMA NotRefused ==
  ASSUME Typed, InStep, Honest, timeouts = 0, refusals = 0
  PROVE  ~ReadRefused
<1> SUFFICES ASSUME ReadRefused PROVE FALSE
  OBVIOUS
<1>1. written /\ buffer # <<>> /\ ~Accepts(Current, Head(buffer))
  BY DEF ReadRefused, Reads
<1>2. Head(buffer).to = Current
  BY <1>1 DEF InStep
<1>3. 1 \in DOMAIN buffer /\ Head(buffer) = buffer[1]
  BY <1>1 DEF Typed, HidTypeOK
<1> QED
  BY <1>1, <1>2, <1>3 DEF Accepts, Honest
=============================================================================
