---------------------------- MODULE HidProtocol ----------------------------
(***************************************************************************)
(* One worker, one Riing Quad, and the HID reports between them.           *)
(*                                                                         *)
(* A command of the worker is a program of requests.  A request is one     *)
(* report written to the device and one report read back, with a timeout   *)
(* of 250 ms: nothing in a report says which request it answers, and a     *)
(* request that gives up leaves its answer to be read by the next one.     *)
(*                                                                         *)
(* The device answers the requests one by one, in order, as slowly as it   *)
(* likes, and may refuse to do what it is asked; a write may fail though   *)
(* the device is there.  Of a report only the byte at offset 2 is kept:    *)
(* the status of Init, SetSpeed and SetRgb, the speed of GetData.  The rpm *)
(* is left out.                                                            *)
(***************************************************************************)
EXTENDS Naturals, Sequences

CONSTANTS
    Channels,        \* channels the adapter has
    Listed,          \* fans that its configuration lists: Controller::fans
    MaxLate,         \* bound: reads of a present device that fail or give up
    MaxRefusals,     \* bound: requests that the device refuses
    MaxWriteErrors,  \* bound: writes to a present device that fail
    MayFail          \* may the adapter hang or be unplugged?

ASSUME HidAssumption ==
    /\ Channels \subseteq Nat /\ Listed \in Nat
    /\ MaxLate \in Nat /\ MaxRefusals \in Nat /\ MaxWriteErrors \in Nat
    /\ MayFail \in BOOLEAN

Byte == 0 .. 255
Done == 252     \* 0xFC
Refused == 254  \* stands for any other status

VARIABLES
    worker,     \* "running" or "panicked"
    command,    \* the command that it carries out
    at,         \* which request of the command's program is under way
    written,    \* has that request been written?
    data,       \* what the command's GetData requests have returned
    stats,      \* Fan::current_speed of the listed fans
    wire,       \* requests that the device has yet to answer
    buffer,     \* answers that the host has yet to read
    speed,      \* the duty of each channel, as the device has it
    device,     \* "present", "hung" or "gone"
    timeouts,   \* reads of a present device that failed or gave up, so far
    refusals,   \* requests that the device has refused, so far
    writeErrors \* writes to a present device that failed, so far

host == <<worker, command, at, written, data, stats>>
faults == <<timeouts, refusals, writeErrors>>
adapter == <<wire, buffer, speed, device, faults>>
hidVars == <<host, adapter>>

Entry == [fan : Nat, speed : Byte]
Command == [kind : {"Init", "Speeds", "Colors"}, batch : Seq(Entry)]
Idle == [kind |-> "none", batch |-> <<>>]

Request == [type : {"Init", "SetSpeed", "GetData", "SetRgb"}, fan : Nat, value : Byte]
InitRequest == [type |-> "Init", fan |-> 0, value |-> 0]
SetSpeed(e) == [type |-> "SetSpeed", fan |-> e.fan, value |-> e.speed]
GetData(e)  == [type |-> "GetData", fan |-> e.fan, value |-> 0]
SetRgb(e)   == [type |-> "SetRgb", fan |-> e.fan, value |-> 0]

\* send_init, update_speed_batch, update_color_batch
Program(c) ==
    CASE c.kind = "Init"   -> <<InitRequest>>
      [] c.kind = "Speeds" ->
            [i \in 1 .. 2 * Len(c.batch) |->
                IF i % 2 = 1 THEN SetSpeed(c.batch[(i + 1) \div 2])
                             ELSE GetData(c.batch[i \div 2])]
      [] c.kind = "Colors" -> [i \in 1 .. Len(c.batch) |-> SetRgb(c.batch[i])]

Current == Program(command)[at]

HidInit ==
    /\ worker = "running" /\ command = Idle /\ at = 1 /\ written = FALSE
    /\ data = <<>> /\ stats = [f \in 1 .. Listed |-> 0]
    /\ wire = <<>> /\ buffer = <<>>
    /\ speed \in [Channels -> {0}]
    /\ device = "present"
    /\ timeouts = 0 /\ refusals = 0 /\ writeErrors = 0

-----------------------------------------------------------------------------
\* The worker.

Begin(c) ==
    /\ worker = "running" /\ command = Idle
    /\ c.kind = "Init" \/ c.batch # <<>>
    /\ command' = c
    /\ at' = 1 /\ written' = FALSE /\ data' = <<>>
    /\ UNCHANGED <<worker, stats, adapter>>

Busy == worker = "running" /\ command # Idle

\* A request that fails ends the command.
GiveUp ==
    /\ command' = Idle /\ at' = 1 /\ written' = FALSE /\ data' = <<>>
    /\ UNCHANGED <<worker, stats>>

\* Mutant: the status that answers SetSpeed is not read.
WriteUnanswered ==
    /\ Busy /\ ~written /\ device # "gone"
    /\ written' = (Current.type # "SetSpeed")
    /\ at' = IF Current.type = "SetSpeed" THEN at + 1 ELSE at
    /\ wire' = IF device = "present" THEN Append(wire, Current) ELSE wire
    /\ UNCHANGED <<worker, command, data, stats, buffer, speed, device, faults>>

Write ==
    /\ Busy /\ ~written /\ device # "gone"
    /\ written' = TRUE
    /\ wire' = IF device = "present" THEN Append(wire, Current) ELSE wire
    /\ UNCHANGED <<worker, command, at, data, stats, buffer, speed, device, faults>>

\* A write to a device that has failed, or that fails by itself.
WriteFails ==
    /\ Busy /\ ~written
    /\ \/ device # "present" /\ UNCHANGED writeErrors
       \/ /\ device = "present" /\ writeErrors < MaxWriteErrors
          /\ writeErrors' = writeErrors + 1
    /\ GiveUp
    /\ UNCHANGED <<wire, buffer, speed, device, timeouts, refusals>>

\* Response::parse takes whatever report was read for the answer to the
\* request just made: any byte is a speed, and only 0xFC is a status.
Accepts(request, answer) == request.type = "GetData" \/ answer.value = Done

\* read_timeout returns the oldest report not yet read.
Reads == Busy /\ written /\ buffer # <<>>
TakeAnswer ==
    /\ buffer' = Tail(buffer)
    /\ UNCHANGED <<wire, speed, device, faults>>

ReadRefused ==
    /\ Reads /\ ~Accepts(Current, Head(buffer))
    /\ TakeAnswer
    /\ GiveUp

Collect == IF Current.type = "GetData" THEN Append(data, Head(buffer).value) ELSE data

\* Mutants: the program runs one request past its end; each fan's statistics
\* are brought up to date as its answer comes in.
ReadNextPastEnd ==
    /\ Reads /\ Accepts(Current, Head(buffer)) /\ at <= Len(Program(command))
    /\ TakeAnswer
    /\ data' = Collect
    /\ at' = at + 1 /\ written' = FALSE
    /\ UNCHANGED <<worker, command, stats>>
ReadNextUpdating ==
    /\ Reads /\ Accepts(Current, Head(buffer)) /\ at < Len(Program(command))
    /\ TakeAnswer
    /\ data' = Collect
    /\ stats' = [f \in 1 .. Listed |->
                   IF Current.type = "GetData" /\ Current.fan = f
                   THEN Head(buffer).value ELSE stats[f]]
    /\ at' = at + 1 /\ written' = FALSE
    /\ UNCHANGED <<worker, command>>

ReadNext ==
    /\ Reads /\ Accepts(Current, Head(buffer)) /\ at < Len(Program(command))
    /\ TakeAnswer
    /\ data' = Collect
    /\ at' = at + 1 /\ written' = FALSE
    /\ UNCHANGED <<worker, command, stats>>

\* Entries of the batch before the first channel that fans[channel - 1] lacks.
InBounds(batch) ==
    {i \in DOMAIN batch : \A j \in 1 .. i : batch[j].fan \in 1 .. Listed}
LastFor(f, batch, some) ==
    CHOOSE i \in some : batch[i].fan = f /\ \A j \in some : batch[j].fan = f => j <= i
Updated(batch, values) ==
    [f \in 1 .. Listed |->
        IF \E i \in InBounds(batch) : batch[i].fan = f
        THEN values[LastFor(f, batch, InBounds(batch))] ELSE stats[f]]

\* The last request has its answer.  Only now are the statistics of the batch
\* brought up to date; a channel beyond the listed fans panics the worker.
Finish ==
    /\ Reads /\ Accepts(Current, Head(buffer)) /\ at = Len(Program(command))
    /\ TakeAnswer
    /\ IF command.kind = "Speeds"
       THEN /\ stats' = Updated(command.batch, Collect)
            /\ worker' = IF InBounds(command.batch) = DOMAIN command.batch
                         THEN "running" ELSE "panicked"
       ELSE UNCHANGED <<stats, worker>>
    /\ command' = Idle /\ at' = 1 /\ written' = FALSE /\ data' = <<>>

\* Mutant: read() in place of read_timeout(), which a mute device blocks.
TimeoutBlocking ==
    /\ Busy /\ written /\ buffer = <<>> /\ device = "gone"
    /\ GiveUp
    /\ UNCHANGED adapter

\* READ_TIMEOUT has passed, or the read has failed: once the device is gone,
\* what is buffered may be lost.
Timeout ==
    /\ Busy /\ written
    /\ \/ /\ device = "present" /\ timeouts < MaxLate
          /\ timeouts' = timeouts + 1
       \/ /\ device # "present" /\ (device = "gone" \/ buffer = <<>>)
          /\ UNCHANGED timeouts
    /\ GiveUp
    /\ UNCHANGED <<wire, buffer, speed, device, refusals, writeErrors>>

-----------------------------------------------------------------------------
\* The device.

Answer(request) ==
    [to |-> request,
     value |-> IF request.type = "GetData"
               THEN IF request.fan \in Channels THEN speed[request.fan] ELSE 0
               ELSE Done]

DeviceTakes ==
    /\ device = "present" /\ wire # <<>>
    /\ LET r == Head(wire)
       IN /\ speed' = IF r.type = "SetSpeed" /\ r.fan \in Channels
                      THEN [speed EXCEPT ![r.fan] = r.value] ELSE speed
          /\ buffer' = Append(buffer, Answer(r))
    /\ wire' = Tail(wire)
    /\ UNCHANGED <<host, device, faults>>

\* It does not do what it is asked, and says so.
DeviceRefuses ==
    /\ device = "present" /\ wire # <<>> /\ Head(wire).type # "GetData"
    /\ refusals < MaxRefusals /\ refusals' = refusals + 1
    /\ buffer' = Append(buffer, [to |-> Head(wire), value |-> Refused])
    /\ wire' = Tail(wire)
    /\ UNCHANGED <<host, speed, device, timeouts, writeErrors>>

\* What a device has not answered when it fails, it never will.
DeviceFails ==
    /\ MayFail
    /\ \/ device = "present" /\ device' = "hung"
       \/ device # "gone" /\ device' = "gone"
    /\ wire' = <<>>
    /\ UNCHANGED <<host, buffer, speed, faults>>

-----------------------------------------------------------------------------
HidStep ==
    \/ Write \/ WriteFails \/ ReadRefused \/ ReadNext \/ Finish \/ Timeout
    \/ DeviceTakes \/ DeviceRefuses \/ DeviceFails
HidNext == (command' \in Command /\ Begin(command')) \/ HidStep
HidSpec == HidInit /\ [][HidNext]_hidVars

\* A device that is present takes what is written to it, and a worker that is
\* scheduled runs on: its writes do not block and its reads have a timeout.
HidFairness ==
    /\ WF_hidVars(DeviceTakes)
    /\ WF_hidVars(Write \/ WriteFails)
    /\ WF_hidVars(ReadRefused \/ ReadNext \/ Finish)
    /\ WF_hidVars(Timeout)

-----------------------------------------------------------------------------
Answers == [to : Request, value : Byte]

\* The type invariant of the worker and its device.
HidTypeOK ==
    /\ worker \in {"running", "panicked"}
    /\ command \in Command \union {Idle}
    /\ command # Idle => command.kind = "Init" \/ command.batch # <<>>
    /\ at \in Nat \ {0} /\ written \in BOOLEAN
    /\ command # Idle => at <= Len(Program(command))
    /\ data \in Seq(Byte) /\ stats \in [1 .. Listed -> Byte]
    /\ wire \in Seq(Request) /\ buffer \in Seq(Answers)
    /\ speed \in [Channels -> Byte]
    /\ device \in {"present", "hung", "gone"} /\ timeouts \in 0 .. MaxLate
    /\ refusals \in 0 .. MaxRefusals /\ writeErrors \in 0 .. MaxWriteErrors

\* While no answer has ever been late, the answer about to be read is the
\* answer to the request that was made, whatever commands failed before and
\* whichever tasks they came from (request, controller.rs:49).
OwnAnswer ==
    timeouts = 0 /\ written /\ buffer # <<>> => Head(buffer).to = Current

\* The duty that the device has, or will have once it has taken what is
\* already written.
Target(f) ==
    LET sets == {i \in DOMAIN wire : wire[i].type = "SetSpeed" /\ wire[i].fan = f}
    IN IF sets = {} THEN speed[f]
       ELSE wire[CHOOSE i \in sets : \A j \in sets : j <= i].value

LastSpeed(f, batch) == batch[LastFor(f, batch, DOMAIN batch)].speed

\* The statistics only change when every fan of the batch has, or will have,
\* its new duty, and not some of them before an error: late answers included,
\* and refusals too, but not both, for a refusal that is read late is taken for
\* the answer to another request (update_speed_batch, ttriing_quad.rs:61).
StatsMeanWritten ==
    [][stats' # stats /\ device = "present" /\ (timeouts = 0 \/ refusals = 0) =>
          \A i \in DOMAIN command.batch :
              LET f == command.batch[i].fan
              IN f \in Channels => Target(f) = LastSpeed(f, command.batch)]_hidVars

\* A command never keeps its worker for ever, even when the device answers
\* late, stops answering or is pulled out in the middle of it.
CommandsEnd == []<>(command = Idle)

\* controller.rs:20 says of current_speed: "Current fan speed percentage
\* (0-100)."
DataIsPercent ==
    (\A f \in Channels : speed[f] <= 100) => \A f \in 1 .. Listed : stats[f] <= 100
=============================================================================
