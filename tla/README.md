# A verification development for the satellite / ground simulation

The program (`src/`, one Rust binary) simulates for 30 seconds a satellite whose
sensors feed a shared task, a downlink to a ground station, a telemetry monitor,
a rate-monotonic scheduler, and fault injection with a safety interlock. Every
part is a thread; they meet in crossbeam channels, atomics and mutexes. This
directory holds TLA+ models of the parts, TLC configurations that check them on
small instances, and TLAPS proofs of what holds for every size.

## 1. Inventory

| Part | Source | State it keeps | Operations | Meets |
|---|---|---|---|---|
| Sensors (3 threads) | `sensor.rs` | cycle number, violation counters | make a sample every 10/12/15 ms, blocking `send` | SharedTask (channel of 64), `shutdown_flag` |
| SharedTask | `task.rs:26-333` | priority buffer (512), `expected_time`, `last_received` | ingest, evict, insert, windows, packetize, ring, `try_send`, poll the answer | sensors, manager, scheduler (`critical_sensor_flag`), ring `DOWNLINK_BUFFER` |
| Rate-monotonic scheduler | `task.rs:346-573` | task list, ready heap, active time | release, run, preempt, account | `critical_sensor_flag`, ground log |
| Downlink manager | `downlink.rs:219-293` | packet in hand | receive, visibility, interlock, transmit, wait 200 ms for an ACK | SharedTask and injector (channel of 10), forwarder, ground (uplink of 50), interlock |
| Ground station | `downlink.rs:297-390` | - | receive, count, acknowledge, stop | forwarder, manager, main |
| Forwarder | `main.rs:75-89` | frame in hand | receive a frame, send it to the ground, then to telemetry | manager, ground, telemetry |
| Telemetry | `telemetry.rs` | failure count, last packet time | decode, health, command dispatch | interlock, command scheduler, monitor |
| Command scheduler | `downlink.rs:22-152` | `COMMAND_QUEUE`, `STATS`, `CPU_ACTIVE_MICROS` | queue a command, simulate it, statistics | telemetry, monitor |
| Fault registry, interlock | `fault.rs:20-244` | active faults, timestamps, severities (3 mutexes) | raise/expire, block by packet id, simulated recovery | manager, telemetry, main, injector |
| Fault injector | `fault.rs:246-284` | - | raise faults, send a dummy packet with id 0 | registry, downlink channel |
| Sensor fault thread | `main.rs:159-222` | three fault flags | raise for 300 ms, abort the mission | sensors, `shutdown_flag` |
| Monitor | `monitor.rs` | counters, statistics, contact health | record, periodic check, reports | everyone, one mutex |
| Main | `main.rs` | mission clock | start everything, loop, shut down, report | everyone |
| Codec, jitter tracker | `types.rs`, `downlink.rs:33-59` | - | XOR/hex, bounded window of jitters | manager, ground, telemetry |
| Logging, clock, leftovers, build | `logger.rs`, `timing.rs`, `mod.rs`, `tempCodeRunnerFile*`, `Cargo.*` | - | output only | - |

What is hard here is concurrency: nothing is persisted and no thread is
restarted, but every bounded channel has a policy of its own (`try_send`, blocking
`send`, `recv_timeout`), ACKs can be late, counters are updated by the two ends of
a hand-over in either order, and shutdown is a flag that each thread reads at its
own time. `PROJECT.json` lists each hazard at its line, with the properties that
cover it, or the reason why none does.

What makes the parts correct: frames and ACKs are neither lost, duplicated nor
reordered between the ends; the manager never waits for ever; every packet and
every sample is accounted for; the buffer keeps its order and sheds the right
samples; shutdown reaches every thread; the interlock stops what it should; contact
loss is seen; no cycle of mutexes.

## 2. Modules

| Module | Models | State and actions against the code |
|---|---|---|
| `Downlink` | SharedTask's downlink part, injector, manager, forwarder, ground station, main's loop and shutdown | One `pc` per thread; a step is what a thread does up to its next use of a channel, flag or counter that another thread's guard reads. Channels are sequences; their capacities are constants. |
| `AckLedger` | what the acknowledgement protocol promises | The answers still owed, the open exchange, whether the ground is up: the abstract specification that `Downlink` implements. |
| `SampleBuffer` | sensors, sensor channel, the task's priority buffer and windows | `SensorMake/Send/SendError/End` are `sensor.rs:33-156`; `TaskIngest` is one turn of the ingest loop with its eviction and insertion; `TaskProcess` one slot of the window. |
| `Scheduler` | the rate-monotonic scheduler of the system tasks | `sched_pc` is the place in the nested loops of `task.rs:382-559`; `ready_queue` is the heap, as a set; `task`, `start_time` the job in hand; `now` the clock. |
| `FaultRegistry` | the fault registry and interlock, with main, the injector, the manager and telemetry as its users | One `pc` per thread. `Raise`, `Stamp`, `Expire` are the three parts of `handle_faults`; `is_command_safe` is one step under the mutex; `Survey`, `Look`, `Recovered`, `LookedAtAll` are `handle_fault`. |
| `Interlock` | what the interlock promises its callers | The active faults and the callers' questions, no maps, no mutexes: the abstract specification that `FaultRegistry` implements. |
| `Mutexes` | the order in which the threads take the mutexes they nest | `LockOrder` is each call's list of `lock()`s; `owner`, `call`, `got` say who is where. |
| `Mission` | main's loop and end, the sensor-fault thread, telemetry's decoding, the periodic check | `elapsed` is main's clock, each thread's sleep a countdown; `contact_lost` and the two counters are `MONITOR_DATA`. |
| `Codec` | XOR/hex and its two decoders | pure operators |
| `CodecInputs` | - | the texts and plain texts the codec may be given, of any length, and what it promises of them |
| `Summaries` | the figures computed in passing: `Stat`, backlog, drift, uplink jitter, `JitterTracker` | one action per `record` function |
| `AckLedgerProofs`, `DownlinkProofs`, `SampleBufferProofs`, `FaultRegistryProofs`, `MutexesProofs`, `MissionProofs`, `SchedulerProofs` | - | the theorems, each about the module it is named for |
| `OperatorsProofs` | - | the theorems about `CodecInputs` and `Summaries`, and the lemmas on sums and induction |
| `DownlinkClaims`, `MissionClaims`, `RegistryClaims` | - | what comments and log messages say, and the code does not do |
| `MCDownlink`, `MCSampleBuffer`, `MCScheduler`, `MCFaultRegistry`, `MCMission`, `MCOperators` | - | small instances; `MCOperators` composes `CodecInputs` and `Summaries` |

### How the code becomes steps

*Downlink.* `TaskPacketize` takes the next id (`fetch_add`), `TaskRing` is the block
that holds the ring's mutex, `TaskQueued`/`TaskRefused` are the two results of
`try_send`, `TaskPoll` the single `try_recv` of the answer, after which the receiver
of the response channel is dropped; `reply` is that channel. The manager's
`MgrRecv` includes the visibility check, `MgrCheck` the interlock, `MgrSend` and
`MgrCount` are two steps because the ground may act in between, `MgrTransmitted` is
the end of the simulated delay, `MgrAck`/`MgrTimeout` the two results of
`recv_timeout`. A packet's `age` is `queued_at.elapsed()`, counted only as far as
the check can tell; a tick may fall between any two steps. `GroundRecv` joins the
look at the shutdown channel with the receive: a message that arrives between
the two has the same effect as one that arrives just after the receive. The
forwarder takes three steps, as it uses three channels: `ForwardRecv` takes a frame,
`ForwardGround` gives it to the ground, `ForwardTelemetry` to telemetry. Between the last two the
ground may take and acknowledge a frame telemetry does not have, and the manager read that ACK.
The increments of `downlink_sent`, `downlink_dropped` and `dropped_samples` are joined to the
`try_send`, the ring or the answer they go with, since no guard reads them: in the program the books of
`BooksBalance` are off by one between such an operation and its count, and balance after it. The manager's packet is cleared when it
comes back to `recv`, and fields that are not read again are reset; this is to
keep the state space small and changes nothing a thread reads.

A branch no state of this program can take is left out, namely: serialization of `WirePacket`
cannot fail, the channels' other ends stay alive in `main`, and every frame the
ground gets was encoded by the manager, so its branches for other text are dead.
`handle_fault`, called on a blocked packet, changes nothing the downlink path
reads; it is in `FaultRegistry`.

The ids are the data the properties need: the interlock's `id % 5`, `% 4`, `% 2`
are kept, values, timestamps and texts are not. An ACK is the id its text names.

*SampleBuffer.* A sample is its sensor and its number in that sensor's sequence
(later number, later timestamp); the priority comes from the sensor, as in
`main.rs:124-126`. The window may end after any slot because the cadence test
compares clocks, and its size depends on the backlog. `dropped_samples` is the
buffer's share of the program's counter of that name; the ring's share is in
`Downlink`. `made`, `handed` and `done` are history: no guard reads them.

*Scheduler.* `CycleTop` is the start of a cycle with its releases, `PopJob` the
pop and the look at the deadline, `RunCheck` one turn of the slice loop up to
its look at the flag, `Poll` the mid-cycle releases and the two questions whether to
preempt; `Alarm` and `Yield` are the two preemptions with the requeue, `RunEnd`
the accounting of a job that ran to its end, `EndCycle` and `WakeUp` the sleep. The
clock can advance between any two steps, by any number of ticks: the thread is
an ordinary one, and each `Instant::now()` of the code is read in the step that uses it.
So a job may start late, a period pass during a sleep, and the time of a job run out
between the check and the requeue. A job in the heap is its task, deadline and
remaining time; the release time is the deadline minus the period, as in
`task.rs:424`. The order of equal priorities in a `BinaryHeap` is unspecified, so
`NextJob` allows any. `got` and `finished` are history.

*FaultRegistry.* The three maps have a mutex each, but every function takes
`ACTIVE_FAULTS` first and holds it to its end, so `holder` is that mutex alone. Raising
is a step of its own, apart from stamping and from expiry, so that a thread that did
not need the mutex would see the maps half changed; the mutant of `MayLook` is that
thread. `is_command_safe` and the end of `handle_faults` need no intermediate state: no
other thread can look. The answer and its use are two steps (`MgrSend`, `TelDispatch`,
`TelCommand`), as the code holds no mutex in between. Timestamps are kept as ages:
fresh, past the 2 s of `handle_fault`, past the 15 s of `handle_faults`. `since` is
history. Every packet of telemetry and the manager is an id from a small set; what
happens to it before the interlock is in `Downlink` and `Mission`.

*Mutexes.* A call takes the mutexes of its list one after the other and lets them all go
when it returns; `log_fault_recovery`, which `handle_fault` calls under its three, and
`record_buffer_drop`, which the task calls under the ring's, take the monitor's and let it
go. Left out are the mutexes under which nothing else is taken (the command queue,
`STATS`, `TOTAL_ACTIVE_TIME`, the jitter tracker, the `fault_start`s, the logger's): a
thread that holds one always goes on. The order of a thread's calls is free, which
only adds behaviours.

*Mission.* The sleeps are lower bounds: time may pass between any two steps. Each use of
the monitor's mutex is one step, so `MainTurn` and `MainBump` are two. The frames telemetry gets
are good, damaged or odd: this program's senders make good ones only, and the other
two stand for a link that damages text, which telemetry has code for. `damaged` joins
decryption and JSON errors, whose state changes are the same; `odd` is a text on which
the decoder panics, and ends the thread, which holds no mutex then. Of the good frame's handling
only the monitor's part is here; the interlock part is in `FaultRegistry`, the
jitter in `Summaries`. `strikes`, `silent`, `arrived` and `injections` are history.
`SHUTDOWN_FLAG` of `monitor.rs` is stored and never read, so it has no variable.

*Codec, Summaries.* A text is a sequence of characters with one that takes two bytes as
`lead`, `trail`, because both decoders slice by bytes; `from_str_radix` accepts a plus sign and both
cases, and UTF-8 decides whether the bytes are a text. `Summaries` keeps in `given` all records
ever made, one sequence for each thing recorded, and compares each of these figures, as printed, with the one
computed from its sequence; a record of one stream reads and changes nothing of another. The
`Stat`s of the insert latency and of the scheduling drift are the same code as the
sensors' jitter and not repeated.

## 3. Runs

| Run | Bounds | Why they are enough |
|---|---|---|
| `downlink` | 3 sensor packets, 1 fault event, ring 2, channel 2, uplink 1, visibility 0 ticks, transmission 0, wait 1, SIGNAL_LOSS | The ring and the channel fill up with a third packet; one late ACK fills the uplink, so the ground blocks; packets 0 and 2 can be blocked and 1 cannot; there are packets before, during and after a timeout. A tick is coarse: one is past the visibility window and the wait, and a transmission may end before it or after it, so every order of the timers' ends occurs; finer ticks only add states between them. |
| `downlink_live` | 3 sensor packets, no event, visibility 1 tick, transmission 1, wait 2, TEMP_HIGH | As above without the injector: it adds no wait of its own. The ticks are finer, so that transmission and wait take time. |
| `buffer` | 3 sensors with 2 samples each, channel 2, buffer 3, windows of 1, 2, 3 | Each priority meets a full buffer of every mix, and each sensor meets a full channel. The end of the task takes samples from the channel, the buffer and the sensors' hands; their sum, at most 8 here, is more than the 6 samples made, so that this bound is tight only in the theorem's instances with more samples. |
| `scheduler` | the three tasks, periods 2, 4, 6, execution times 1, 1, 3, first releases 1, 0, 0, cycle 4, thermal handling 1, up to time 6 | Periods in the order of the code's 100, 200, 300 ms; the longest job outlasts the shortest period as there, so it is preempted, more than once; a cycle that sleeps misses releases of every task; the flag can be raised at every place of the loops. |
| `registry` | TEMP_HIGH and SIGNAL_LOSS, packet 2 | One fault blocks the packet and one does not; both severities; each of the four threads can hold the mutex, and a fault can be raised, expire and be raised again during one question. |
| `mutexes` | none: the threads, calls and mutexes of the program | - |
| `mission` | mission of 3 ticks, injection after 1, fault 1, limit 0, main's turn 1, check every 2, 2 frames, at most 4 missing | The injector wakes before the end, as with the 10 s of `main.rs:158`; checks see main's counter moved and (when main is late) unmoved; three strikes can come from frames and checks mixed, and the next check or frame follows them. |
| `operators` | texts of 4 characters out of 8, plain texts of 4 bytes out of 5, keys of 0, 1, 2 bytes; 5 records in all, window of 2 | Two pairs, so the second may be the bad one; blanks on either side of a pair; the key repeats; the window overflows. |
| `claim_*` | as the run of the module; `claim_SilentLinkIsReported` 8 ticks and no injection | One statement each of a comment or message, refuted by TLC. |

`downlink` shows that the path implements `AckLedger` (no frame or ACK is lost,
duplicated or reordered while the ground runs), that an ACK belongs to the packet
it is credited to exactly while no timeout has left one behind (`AckTellsDebt`),
that the ground can be blocked on a full uplink only after as many drops
(`DebtIsCounted`), that the counters balance (`BooksBalance`: `downlink_sent` counts
a packet at the task *and* at the manager, so it is not a number of packets; the
invariant says what it is), and that the ground and telemetry see the same
order, the ground at most one frame ahead (`GroundOneAhead`). `buffer` shows the eviction and insertion order and that each sample is
accounted for until the task ends; the samples then left in the channel, the buffer and
the sensors' hands are lost without a count, and no others (`LostOnlyAtTheEnd`: at most
64 + 512 + 3 in the program). `scheduler` shows that each period of each task has
exactly one job, that the job is in one place whatever the order of lateness,
preemption and thermal handling (`ReleasesAccounted`), that it gets its whole
execution time (`FullService`), and that no job runs while a shorter period waits. The
releases missed during the sleep of a cycle are caught up in a burst, one job of each
late task per poll, so several jobs of one task wait at once. `registry` shows that the maps
never disagree when they can be locked, that an answer of the interlock is the right one
for an instant of the call and is outdated only by faults raised later
(`StaleOnlyByRaise`): the code does send a frame under a fault raised after the check, and
that is the whole of it. `mission` shows that verdict and count of the contact agree
although two threads write them, and that a mission ends early only after a sensor
fault that has been put right. `operators` shows where the two decoders differ.

A few more facts the models make plain, without a run of their own: a fault reported as
recovered stays active until its 15 s are over; the averages of fault recoveries add
microseconds (`monitor.rs:249`) to milliseconds (`main.rs:211`); each uplink jitter is recorded
twice (`telemetry.rs:94-95`), which leaves the average as it is (`UplinkMatches`); the first
sensor packet has id 0, which the injector reserves for fault events (`fault.rs:266`); a packet
reported as dropped by the full ring is queued all the same (`task.rs:254, 271`); a late job
counts as a missed deadline at each of its starts, and the slices before a preemption are not in
the active time (`task.rs:428, 508`).

A bound that is not one of the code's constants is named in the module's
CONSTANTS with the word *bound*: `MaxPackets`, `MaxEvents`, `MaxCycles`, `MaxTime`,
`MaxFrames`, `MaxMissing`, `MaxGiven`, `MaxText`, `MaxPlain`.

The injector can wake in `Downlink` although the shipped period (60 s) is longer than
the mission (30 s): the model has no absolute times, and the comment at
`main.rs:158` says that the period is meant to be changed.

### Fairness

`Downlink` assumes that the manager, the forwarder, the ground and time go on
until `main` returns, which ends the process (`Alive`); the operating system
schedules these threads and none of them waits for another one outside the
channels modelled. Nothing is assumed of the task, the injector or main. So a
liveness property says "... or the process has ended". `SampleBuffer` assumes that
each sensor and the task go on, and nothing of the scheduler or of the end of
the mission. `Scheduler` assumes that its thread goes on and that time does. Weak
fairness is enough in all three. `Mission` assumes, weakly, that telemetry, the
sensor-fault thread and time go on until main returns, not that any frame arrives, and
nothing of main: if the mission had to end, "... or it has ended" would always come true.

`FaultRegistry` needs strong fairness: a thread that waits for the mutex is enabled
again and again, not for ever, since others take it in between. `std::sync::Mutex`
promises no order, but main sleeps 500 ms between two calls, the injector longer, and
the two checkers wait for packets; the mutex is free almost always, so a thread
that wants it again and again finds it free in the end. Only main is assumed to
go on calling `handle_faults` (it is what expires faults), until it returns. `Mutexes` states no
fairness: `NoDeadlock` is an invariant.

### Findings

1. An ACK later than 200 ms is credited to the next packet, and so on for the rest of
   the run (`AckIsForThePacket`; `DebtIsForever` is proved).
2. A frame the ground takes before the manager has counted it is never recorded as
   processed (`EveryFrameIsRecorded`).
3. The periodic check of the contact compares a counter that main moves every 500 ms, so
   it does not see a silent link, and it erases a loss that telemetry has found
   (`SilentLinkIsReported`).
4. A command that telemetry logs as dispatched may never have been queued: the command
   scheduler asks the interlock again and returns (`DispatchedIsQueued`).

## 4. Proofs

The proofs are for all values of the constants under the named assumptions of the
modules, which TLC evaluates in every run. The bounds (`BoundsAssumption`,
`CapacityAssumption`, `TimingAssumption`, `LimitsAssumption`, `TimesAssumption`) say that sizes
and times are natural numbers, and positive where the code's are; the others say what
the tables of the code provide: `FaultAssumption` and `KindsAssumption` that each fault has a
period, `IdsAssumption` that packet ids are natural numbers, `SensorsAssumption` that each sensor has
a priority, `WindowAssumption` that there is one window more than there are steps of the backlog,
`TasksAssumption` that there are finitely many tasks, no two with the same period, `KeysAssumption` and
`BytesAssumption` that keys and plain texts are made of bytes, and `Mission`'s
`TimesAssumption` that a fault lasts longer than the recovery limit (300 ms and 200 ms in `main.rs`).

Except for liveness, every property the passing runs check is the statement of a theorem.

**The acknowledgement protocol.** `OwnAnswerIsLast` says that the ACK of the
packet the manager waits for is the *last* one owed. On `Downlink` it would need an
invariant over the uplink, the ground's hand, two queues and the program counters.
It is proved on `AckLedger` instead, where it is inductive with the type invariant
(a transmission appends its answer, an ACK takes the first, a timeout takes none),
and carried over. The bridge is `Refinement`: the answers owed (`Owed`) are the
concatenation uplink, ground's hand, ground's queue, forwarder's hand until it has sent to the
ground, forwarder's queue; the
forwarder and the ground move an id along it without changing it
(`ForwardKeepsOwed`, `GroundRecvKeepsOwed`, `GroundAckKeepsOwed`), so those steps
stutter; the manager's steps and the ground's stop are the four steps of the
protocol (`StepRefines`). `OwnAnswer` and `DebtStays` follow from their namesakes
in `AckLedgerProofs`.

**The rest of the downlink path.** `TypeCorrect` is inductive as it stands; its contents are
the capacities of ring, channel and uplink. `BooksAlwaysBalance` needs no strengthening but
the types: each step moves one unit between a counter, a channel and a thread's hands. The
others each need an invariant of their own:

- `ProcessedNeverAhead` and `DebtIsCounted` are about lengths of channels and counters.
  `CountInv` restates them on numbers (`Underway`, `Uncounted`, `Late`) and adds that what
  the ground has not seen yet is counted as generated, but for the one frame the manager
  handed over and is about to count.
- `GroundOneAhead` speaks of a suffix of what telemetry was given, with the frame the forwarder
  has sent to the ground alone (`Ahead`); the invariant `FollowsInv` says what was cut off: the two
  (`Given`) are what was read, then unread ACKs, the ground's hand and its queue.
- `StaleFirst` is kept by `OrderInv`: the task's packet in hand is younger than all in the
  channel and its id larger, because the counter is taken before the packet is queued
  and one thread does both; injected packets, which go in at any place, have id 0.
- `AckTellsDebt` combines the ledger with the ids. `OwnAnswerIsLast` tells which answer is
  the manager's own; that no *other* answer owed carries the same id is `PairingInv`: what
  was handed on has smaller ids than what is still in the channel, in the task's hands or to be
  numbered. It holds for ids that are their own, hence not for 0, which injected
  packets and the first sensor packet share (section 3).
- `FramesArriveInOrder` says of the frames themselves that telemetry gets each packet at most
  once and in the order made (`FramesOnceInOrder`, but for id 0). `PassedInv` is `PairingInv`
  for all the manager ever handed on, read or not (`HandedOn`), which only `MgrSend` adds to (`HandsOn`).

**The sample path.** The first lemmas of `SampleBufferProofs` say what a first position is and
what `insert` and `remove` do to the indices; from these come what the two searches of
the code return (`InsertPosIs`, `FirstLowestIs`) and what the buffer keeps
(`InsertSorted`, `RemoveSorted`). `BufferSorted` is not inductive alone: an inserted
sample must be younger than the residents of its sensor, which is the part of
`SensorOrder` between channel and buffer; and `SensorOrder` is not inductive either:
a sample appended to the channel must be younger than all before it. `OrderInv` adds
the bound (`Bounded`): no sample around or processed is later than the last one its
sensor has *sent*, which is one less than the last one it has made while it is in
`send` (`LastSent`). `OrderInvariant` proves it step by step, and
`BufferAlwaysSorted`, `SensorsInOrder` and the action property
`DropsAreTheLowestOldest` follow: the resident evicted is the first of the lowest
priority, hence, the buffer being sorted by age within a sensor, the oldest of its
sensor. The proof uses that no two sensors have the same priority (`PrioOfSensor`),
which `main.rs:124-126` provides. From the same invariant, `ServedAreTheHighestOldest`: the sample
a slot takes has the highest priority, is the oldest of its sensor and newer than the last one
processed. `SamplesAccountedFor` (`LostOnlyAtTheEnd`) needs a part for each side of the task's end: before it the
samples made are those in a place or a count (`Accounted`); after it channel and buffer stay empty, no sample
is made, and what is unaccounted for and what is still in a sensor's hands are together within
the room there was (`EndInv`), since a failed send turns one of the latter into one of the former.

**The fault registry.** `SameKeys` speaks of the moments when the mutex is free. Its
invariant says what holds at all others: exactly the thread between lock and unlock is
`holder` (`HolderInside`, which is mutual exclusion, `Exclusion`), and the keys of the three maps
differ by `pending`, the faults inserted and not yet stamped, which is empty unless the
holder is about to stamp them (`KeysButPending`). `StaleOnlyByRaise` joins the induction: an
answer is given under the mutex and `since` collects what is raised after it, so a fault that
blocks at the use and did not at the answer is in `since`. From the same invariant comes
`ImplementsInterlock`: the active faults are at every step those stamped, that is the keys of the first
map but for `pending` (`faults \ pending`), so that inserting, looking and waiting stutter, stamping is what
raises a fault, and only raising, expiring, answering and using are steps of `Interlock`.
`FaultsLastFromTheFirstRoll` is an action property of the same invariant: a roll that hits an
active fault is ignored (`fault.rs:37`), what is stamped at `fault.rs:39` was inserted in the same
call, and only a stamp whose 15 s are over is removed.

**The mutexes.** `Ranked` checks that each call takes its mutexes upwards in one `Rank` (the
registry's three, the ring's, the monitor's, the backlog's). The invariant ties the owner of each mutex
to the place of a thread in its call: it owns what its list names up to that place and, inside
the nested call, perhaps the monitor's (`Owns`, `Progress`). So a thread waits for a mutex above all it
owns (`WaitsUpwards`), and in a set of threads that wait for each other the one that waits for the highest
(`Greatest`) would wait for a thread that waits higher still.

**The mission.** `LostIsThree` is inductive. `LostMeansSilence` is not: a count of missed checks
must have as many failures behind it as it says (`MissedAreStrikes`), though main's progress resets
the one and not the other. `AbortAfterRecovery` needs the history of the sensor-fault
thread, one clause per place (`InjectorHistory`): what it has injected, what time has passed
or will have by the end of its sleep (`Waited`), and that its recovery time is past the limit by
the time it judges; and that nobody but that thread or the clock shuts the mission
down (`ShutdownOrigin`). The same invariant gives `ShortMissionsLast`: with the constants the program
ships with (30 s of mission, 60 s of first sleep) the abort cannot happen.

**The scheduler.** `RunsHighest` is inductive as it stands. `FullService` is proved from `ServiceInv`: what a
job has had and what it still needs are its execution time, in the heap and in hand, also
across the two preemptions. `ActiveWithinElapsed` needs that the time counted so far ends before the
slice under way (or the thermal handling) begins (`ActiveInv`). `ReleasesAccounted` compares
three sets of jobs with all the deadlines there should be; `AccountInv` says that the
deadlines up to the next release are divided between heap, hands and finished jobs, with no
deadline twice in the heap (`Divided`), and each action has a lemma about such a division:
a release adds the deadline that `DeadlinesGrow` (arithmetic of `%`) shows to be the
next one, and taking, putting back and ending a job move one.

**The codec.** `RoundTrip` and `DecodersAgree` hold for every text and every plain text, of any length, and
every key; `CodecInputs` makes each of them reachable. `XorTwice` is the reason for the first: a byte is the sum of
its bits (`ByteOfBits`), any eight bits are those of a byte (`BitsOfByte`), and on one bit adding the key's
twice modulo 2 is no change. `HexIsByte` says that `{:02X}` and `from_str_radix` are inverse, `CipherPairs` that the
decoder's k-th slice is what byte k became, and `NothingToTrim` that the ground's `trim` leaves a cipher text
alone. For the second, a text that telemetry decodes consists of pairs of digits, so it has even length and
no blank at either end (`DecodedIsTrimmed`), and a text of one-byte characters and even length has a
boundary at every slice (`EvenAsciiDecodes`). The exclusive-or is defined by the bits because
`Bitwise` is out of the prover's reach; the assumption `XorIsBitwise` of `MCOperators` has TLC compare
the two on all pairs of bytes. What UTF-8 accepts (`IsUtf8`) plays no part in either proof.

**The reports.** `FiguresAreTheRecords` proves `SummariesMatch` for any number of records, sensors
and durations, and any window. It is not inductive: the average that is printed says too little of the sum
and the count it was made of. `SummariesInv` says what each thread keeps, exactly: a `Stat` has the
length, the sum and the extremes of its stream (`StatMatches`); the statistics of the sensors, taken
together, are those of one stream of all their jitters (`JitterMatches`); the tracker has the last
time, the latest jitters and the violations of all (`TrackerInv`); telemetry has pushed two jitters for each
gap, which add up to twice the changes (`UplinkInv`). Each has a lemma that says what one more record does to both
sides (`StatGrows`, `SensorsGrow`, `DriftGrows`, `TrackerGrows`, `UplinkGrows`), from lemmas on sequences one
element longer (`GapsGrow`, `ChangesGrow`, `AboveGrows`, `WindowMoves`).
The sums are the library's `SumFunction`, a recursion over a set that takes the elements in an order
`CHOOSE` fixes. The library's induction theorems cannot be instantiated here, so the induction is made by hand:
`Least` (any natural numbers have a least one) gives a smallest counterexample, `AddsExists` that the
recursion comes to an end, and `TotalAny` that the order makes no difference; `SumWith` is then what one changed or new term does
to a sum. The assumption used is that every duration is below `u128::MAX`, the
sentinel that is printed as 0: in the program the durations are microseconds of one mission.
What the theorem does not say: sums and counters are unbounded in the model, and are `u128` and `u64` or
`usize` in the program.

**Only model-checked.** Liveness is out of the prover's reach: `ManagerReturns`, `QueueDrains`,
`ShutdownEndsAll`, `NobodyStuckInSend`, `ShutdownEndsScheduler`, `CheckAnswered`, `FaultsClear`,
`GoodFrameClears`. Every safety property and action property has its theorem. Three theorems above
state properties of no run: `FramesArriveInOrder`, `ServedAreTheHighestOldest` and `FaultsLastFromTheFirstRoll`;
`Exclusion`, `ShortMissionsLast` and the type theorem of `Mutexes` are likewise only proved.

## 5. Not modelled, and the plan

Output (reports, log lines, formatted times), the build files and the editor's
leftovers stay out, and so do

- `CPU_ACTIVE_MICROS`, `STATS`, the simulated load and backlog of the periodic check, the
  latency list and the recovery times: written for the reports, read by no guard;
- the value and violation counters of the sensors and the missed-data check of the
  task (`task.rs:107`), which only log;
- `send_command` and `print_health_summary`, which nothing calls, and
  `trigger_fault_command`, which only logs;
- JSON, which is a library's, and the ground's latency branch, which looks for fields a
  `WirePacket` does not have.

Next, in this order:

1. `SampleBuffer` composed with `Scheduler` over the critical flag.
2. `System`: sensors to ground, `SampleBuffer` and `Downlink` in one.
