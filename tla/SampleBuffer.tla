---------------------------- MODULE SampleBuffer -----------------------------
(***************************************************************************)
(* From the sensors to SharedTask: three sensor threads put samples on a   *)
(* bounded channel with a blocking send; SharedTask drains it into a       *)
(* buffer sorted by priority, evicting when the buffer is full, and takes  *)
(* samples off the front in windows.  src/sensor.rs and lines 26-204 and   *)
(* 319-331 of src/task.rs; the downlink part of the window is Downlink.    *)
(***************************************************************************)
EXTENDS Integers, SequencesExt

CONSTANTS
    Sensors,        \* sensor threads started by main
    MaxCycles,      \* bound: samples each sensor makes in a behaviour
    SensorCap,      \* SENSOR_BUFFER_SIZE, main.rs:109, 64
    buffer_limit,   \* task.rs:36, 512
    BacklogSteps,   \* <<32, 96, 256>>: backlogs above which the window grows
    WindowSteps     \* <<32, 64, 128, 256>>: samples per window

\* The priorities main gives the sensors; the larger number goes first.
Priority == [TempSensor |-> 1, AccelSensor |-> 2, GyroSensor |-> 3]

ASSUME SensorsAssumption == Sensors \subseteq DOMAIN Priority
ASSUME LimitsAssumption ==
    /\ MaxCycles \in Nat
    /\ SensorCap \in Nat \ {0}
    /\ buffer_limit \in Nat \ {0}
ASSUME WindowAssumption ==
    /\ BacklogSteps \in Seq(Nat)
    /\ WindowSteps \in Seq(Nat \ {0})
    /\ Len(WindowSteps) = Len(BacklogSteps) + 1

VARIABLES
    sensor_pc,          \* per sensor: where its thread is
    cycle,              \* per sensor: samples made, the number of the last one
    sensor_chan,        \* the bounded channel, samples in arrival order
    task_pc,
    buffer,             \* the task's priority buffer, front first
    handled, max_per_loop,   \* slots used and granted in the window under way
    done,               \* history, per sensor: number of the last sample processed
    made, handed,       \* history: samples made and processed in all
    dropped_samples,    \* the buffer's share of the counter
    critical_sensor_flag,
    shutdown_flag

sensorVars == <<sensor_pc, cycle, made>>
windowVars == <<handled, max_per_loop>>
doneVars == <<done, handed, critical_sensor_flag>>
vars == <<sensorVars, sensor_chan, task_pc, buffer, windowVars, doneVars,
          dropped_samples, shutdown_flag>>

\* n is the sensor's cycle: later samples of a sensor have later timestamps.
Sample == [sensor : Sensors, n : Nat]
Prio(d) == Priority[d.sensor]

TypeOK ==
    /\ sensor_pc \in [Sensors -> {"loop", "send", "ended"}]
    /\ cycle \in [Sensors -> 0 .. MaxCycles]
    /\ sensor_chan \in Seq(Sample)
    /\ Len(sensor_chan) <= SensorCap
    /\ task_pc \in {"top", "ingest", "window", "ended"}
    /\ buffer \in Seq(Sample)
    /\ Len(buffer) <= buffer_limit
    /\ handled \in Nat /\ max_per_loop \in Nat
    /\ done \in [Sensors -> Nat]
    /\ made \in Nat /\ handed \in Nat
    /\ dropped_samples \in Nat
    /\ critical_sensor_flag \in BOOLEAN
    /\ shutdown_flag \in BOOLEAN

Init ==
    /\ sensor_pc = [s \in Sensors |-> "loop"]
    /\ cycle = [s \in Sensors |-> 0]
    /\ sensor_chan = << >>
    /\ task_pc = "top"
    /\ buffer = << >>
    /\ handled = 0 /\ max_per_loop = 0
    /\ done = [s \in Sensors |-> 0]
    /\ made = 0 /\ handed = 0
    /\ dropped_samples = 0
    /\ critical_sensor_flag = FALSE
    /\ shutdown_flag = FALSE

-----------------------------------------------------------------------------
(* The sensor threads.  A sensor that runs late makes its next sample at    *)
(* once, so its pace is left open.                                          *)

SensorMake(s) ==
    /\ sensor_pc[s] = "loop"
    /\ ~shutdown_flag
    /\ cycle[s] < MaxCycles
    /\ cycle' = [cycle EXCEPT ![s] = @ + 1]
    /\ made' = made + 1
    /\ sensor_pc' = [sensor_pc EXCEPT ![s] = "send"]
    /\ UNCHANGED <<sensor_chan, task_pc, buffer, windowVars, doneVars, dropped_samples,
                   shutdown_flag>>

\* The blocking send: it waits for room while the receiver lives.
SensorSend(s) ==
    /\ sensor_pc[s] = "send"
    /\ task_pc # "ended"
    /\ Len(sensor_chan) < SensorCap
    /\ sensor_chan' = Append(sensor_chan, [sensor |-> s, n |-> cycle[s]])
    /\ sensor_pc' = [sensor_pc EXCEPT ![s] = "loop"]
    /\ UNCHANGED <<cycle, made, task_pc, buffer, windowVars, doneVars, dropped_samples,
                   shutdown_flag>>

\* Mutant: a failed send is retried for ever.
ReceiverGone_Ignored == FALSE

ReceiverGone == task_pc = "ended"

SensorSendError(s) ==
    /\ sensor_pc[s] = "send"
    /\ ReceiverGone
    /\ sensor_pc' = [sensor_pc EXCEPT ![s] = "ended"]
    /\ UNCHANGED <<cycle, made, sensor_chan, task_pc, buffer, windowVars, doneVars,
                   dropped_samples, shutdown_flag>>

SensorEnd(s) ==
    /\ sensor_pc[s] = "loop"
    /\ shutdown_flag
    /\ sensor_pc' = [sensor_pc EXCEPT ![s] = "ended"]
    /\ UNCHANGED <<cycle, made, sensor_chan, task_pc, buffer, windowVars, doneVars,
                   dropped_samples, shutdown_flag>>

-----------------------------------------------------------------------------
(* The priority buffer.                                                     *)

\* Mutant: a sample goes before those of its own priority.
InsertPos_BeforeEqual(b, d) ==
    CHOOSE k \in 0 .. Len(b) :
        /\ \A i \in 1 .. k : Prio(b[i]) > Prio(d)
        /\ k < Len(b) => Prio(d) >= Prio(b[k + 1])

\* How many residents stay in front of d: those before the first one whose
\* priority is smaller, or all.
InsertPos(b, d) ==
    CHOOSE k \in 0 .. Len(b) :
        /\ \A i \in 1 .. k : Prio(b[i]) >= Prio(d)
        /\ k < Len(b) => Prio(d) > Prio(b[k + 1])

Insert(b, d) == InsertAt(b, InsertPos(b, d) + 1, d)

\* Mutant: the sample at the front goes.
FirstLowest_First(b) == 1

\* Position of the first resident of the lowest priority in a nonempty buffer.
FirstLowest(b) ==
    CHOOSE i \in 1 .. Len(b) :
        /\ \A j \in 1 .. Len(b) : Prio(b[i]) <= Prio(b[j])
        /\ \A j \in 1 .. i - 1 : Prio(b[i]) < Prio(b[j])

\* Mutant: the buffer takes one sample too many.
Full_OffByOne == Len(buffer) > buffer_limit

Full == Len(buffer) >= buffer_limit

\* Mutant: a sample of the lowest priority present is refused as well.
TooLow_OrEqual(d) == Prio(d) <= Prio(buffer[FirstLowest(buffer)])

TooLow(d) == Prio(d) < Prio(buffer[FirstLowest(buffer)])

-----------------------------------------------------------------------------
(* SharedTask.                                                              *)

TaskTop ==
    /\ task_pc = "top"
    /\ ~shutdown_flag
    /\ task_pc' = "ingest"
    /\ UNCHANGED <<sensorVars, sensor_chan, buffer, windowVars, doneVars, dropped_samples,
                   shutdown_flag>>

\* The thread ends: its receiver and its buffer go with it, and so do the
\* samples still in the channel.
TaskEnd ==
    /\ task_pc = "top"
    /\ shutdown_flag
    /\ task_pc' = "ended"
    /\ sensor_chan' = << >>
    /\ buffer' = << >>
    /\ UNCHANGED <<sensorVars, windowVars, doneVars, dropped_samples, shutdown_flag>>

\* Mutant: an eviction is not counted.
record_buffer_drop_Forgotten == UNCHANGED dropped_samples

record_buffer_drop == dropped_samples' = dropped_samples + 1

TaskIngest ==
    /\ task_pc = "ingest"
    /\ sensor_chan # << >>
    /\ sensor_chan' = Tail(sensor_chan)
    /\ LET d == Head(sensor_chan)
       IN  \/ /\ ~Full
              /\ buffer' = Insert(buffer, d)
              /\ UNCHANGED dropped_samples
           \/ /\ Full /\ TooLow(d)
              /\ record_buffer_drop
              /\ UNCHANGED buffer
           \/ /\ Full /\ ~TooLow(d)
              /\ record_buffer_drop
              /\ buffer' = Insert(RemoveAt(buffer, FirstLowest(buffer)), d)
    /\ UNCHANGED <<sensorVars, task_pc, windowVars, doneVars, shutdown_flag>>

\* The window a backlog is granted: one step larger for each threshold passed.
Window(backlog) ==
    WindowSteps[1 + Cardinality({i \in 1 .. Len(BacklogSteps) : backlog > BacklogSteps[i]})]

\* The channel is empty; the window is sized by what is in the buffer now.
TaskOpenWindow ==
    /\ task_pc = "ingest"
    /\ sensor_chan = << >>
    /\ max_per_loop' = Window(Len(buffer))
    /\ handled' = 0
    /\ task_pc' = "window"
    /\ UNCHANGED <<sensorVars, sensor_chan, buffer, doneVars, dropped_samples,
                   shutdown_flag>>

\* Mutant: the window takes the newest sample.
PopPos_Back == Len(buffer)

PopPos == 1

\* A slot of the window takes the front sample and works on it; the critical
\* flag and shutdown only cut the simulated work short.
TaskProcess ==
    /\ task_pc = "window"
    /\ handled < max_per_loop
    /\ buffer # << >>
    /\ buffer' = RemoveAt(buffer, PopPos)
    /\ done' = [done EXCEPT ![buffer[PopPos].sensor] = buffer[PopPos].n]
    /\ handed' = handed + 1
    /\ critical_sensor_flag' = (critical_sensor_flag \/ buffer[PopPos].sensor = "TempSensor")
    /\ handled' = handled + 1
    /\ UNCHANGED <<sensorVars, sensor_chan, task_pc, max_per_loop, dropped_samples,
                   shutdown_flag>>

\* A slot with nothing to process.
TaskIdleSlot ==
    /\ task_pc = "window"
    /\ handled < max_per_loop
    /\ buffer = << >>
    /\ handled' = handled + 1
    /\ UNCHANGED <<sensorVars, sensor_chan, task_pc, buffer, max_per_loop, doneVars,
                   dropped_samples, shutdown_flag>>

\* The window ends when its slots are used up, or earlier when the task has
\* caught up with its 1 ms cadence.
TaskCloseWindow ==
    /\ task_pc = "window"
    /\ task_pc' = "top"
    /\ handled' = 0 /\ max_per_loop' = 0    \* not read again
    /\ UNCHANGED <<sensorVars, sensor_chan, buffer, doneVars, dropped_samples,
                   shutdown_flag>>

-----------------------------------------------------------------------------
(* The system scheduler reacts to the critical flag and clears it.          *)
SchedulerClears ==
    /\ critical_sensor_flag
    /\ critical_sensor_flag' = FALSE
    /\ UNCHANGED <<sensorVars, sensor_chan, task_pc, buffer, windowVars, done, handed,
                   dropped_samples, shutdown_flag>>

RaiseShutdown ==
    /\ ~shutdown_flag
    /\ shutdown_flag' = TRUE
    /\ UNCHANGED <<sensorVars, sensor_chan, task_pc, buffer, windowVars, doneVars,
                   dropped_samples>>

SensorStep(s) == SensorMake(s) \/ SensorSend(s) \/ SensorSendError(s) \/ SensorEnd(s)
TaskStep == \/ TaskTop \/ TaskEnd \/ TaskIngest \/ TaskOpenWindow
            \/ TaskProcess \/ TaskIdleSlot \/ TaskCloseWindow

Next ==
    \/ \E s \in Sensors : SensorStep(s)
    \/ TaskStep
    \/ SchedulerClears
    \/ RaiseShutdown

Spec == Init /\ [][Next]_vars

\* The threads keep being scheduled; nothing makes the mission end.
Fairness ==
    /\ \A s \in Sensors : WF_vars(SensorStep(s))
    /\ WF_vars(TaskStep)

FairSpec == Spec /\ Fairness

-----------------------------------------------------------------------------
(* Properties.                                                              *)

\* The buffer is ordered by priority, and the samples of one sensor by age.
Sorted(b) ==
    \A i, j \in 1 .. Len(b) :
        i < j => /\ Prio(b[i]) >= Prio(b[j])
                 /\ b[i].sensor = b[j].sensor => b[i].n < b[j].n

BufferSorted == Sorted(buffer)

\* Samples of one sensor never overtake each other on their way from the
\* sensor through the channel and the buffer to processing, evictions or not.
SensorOrder ==
    /\ \A i \in 1 .. Len(buffer) : buffer[i].n > done[buffer[i].sensor]
    /\ \A i \in 1 .. Len(buffer), j \in 1 .. Len(sensor_chan) :
           buffer[i].sensor = sensor_chan[j].sensor => buffer[i].n < sensor_chan[j].n
    /\ \A i, j \in 1 .. Len(sensor_chan) :
           (i < j /\ sensor_chan[i].sensor = sensor_chan[j].sensor)
               => sensor_chan[i].n < sensor_chan[j].n
    /\ \A j \in 1 .. Len(sensor_chan) :
           /\ sensor_chan[j].n > done[sensor_chan[j].sensor]
           /\ sensor_chan[j].n <= cycle[sensor_chan[j].sensor]

\* A sample is lost to the limit only when the buffer is full, only if no
\* sample kept has a lower priority, and, among those of its sensor, only the
\* oldest (a refused newcomer has none of its sensor beside it).
DropsLowestOldest ==
    [][dropped_samples' # dropped_samples =>
         /\ Len(buffer) = buffer_limit
         /\ \E x \in (ToSet(buffer) \cup {Head(sensor_chan)}) \ ToSet(buffer') :
              \A y \in ToSet(buffer') :
                  /\ Prio(x) <= Prio(y)
                  /\ x.sensor = y.sensor => x.n < y.n]_vars

InHands == Cardinality({s \in Sensors : sensor_pc[s] = "send"})

\* The samples made that are neither in a sensor's hands, in the channel or in
\* the buffer, nor processed, nor counted as dropped.
Unaccounted ==
    made - (InHands + Len(sensor_chan) + Len(buffer) + handed + dropped_samples)

\* No sample is lost without a count until the task ends, and its end loses no
\* more than the channel and the buffer hold and one sample of each sensor: a
\* sensor whose send has failed, or that sees the flag, makes no other.
LostOnlyAtTheEnd ==
    /\ task_pc # "ended" => Unaccounted = 0
    /\ Unaccounted \in 0 .. SensorCap + buffer_limit + Cardinality(Sensors)

\* Shutdown reaches every thread of the chain: a sensor parked on a full
\* channel is woken by the end of the only receiver.
ShutdownEndsAll ==
    shutdown_flag ~> (task_pc = "ended" /\ \A s \in Sensors : sensor_pc[s] = "ended")

\* No sensor stays stuck in its send: a full channel is drained whatever the
\* backlog and the window granted, and a channel without receiver errs.
StuckInSend(s) ==
    sensor_pc[s] = "send" /\ (Len(sensor_chan) = SensorCap \/ task_pc = "ended")

NobodyStuckInSend == \A s \in Sensors : StuckInSend(s) ~> ~StuckInSend(s)
=============================================================================
