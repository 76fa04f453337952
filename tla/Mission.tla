------------------------------- MODULE Mission -------------------------------
(***************************************************************************)
(* The life of a mission and the health of the contact: main's loop and    *)
(* end (main.rs), the thread that injects sensor faults and aborts         *)
(* (main.rs:171), the telemetry thread's decoding (telemetry.rs) and the   *)
(* periodic check (monitor.rs:135).  The two last ones write the contact   *)
(* state in MONITOR_DATA, main the counter the check looks at; each use of *)
(* the monitor is one step, under its mutex.                               *)
(*                                                                         *)
(* Frames reach telemetry good, damaged (undecodable, or not JSON: the two *)
(* error paths differ in what they log) or of odd length; Codec says which *)
(* text is which.                                                          *)
(***************************************************************************)
EXTENDS Integers, Sequences

CONSTANTS
    total_duration,     \* main.rs:37, 30 s
    FaultPeriod,        \* FAULT_INJECT_PERIOD_SECS, 60 s, "10 makes local testing quicker"
    FaultDuration,      \* main.rs:192, 300 ms
    RecoveryLimit,      \* main.rs:213, 200 ms
    MainPeriod,         \* main.rs:244, 500 ms
    expected_interval,  \* main.rs:64, 1 s
    MaxFrames,          \* bound: frames that arrive
    MaxMissing          \* bound: idle checks stop at this count

ASSUME TimesAssumption ==
    /\ total_duration \in Nat
    /\ MainPeriod \in Nat \ {0} /\ expected_interval \in Nat \ {0}
    /\ FaultPeriod \in Nat \ {0} /\ FaultDuration \in Nat /\ RecoveryLimit \in Nat
    /\ FaultDuration > RecoveryLimit
ASSUME BoundsAssumption == MaxFrames \in Nat /\ MaxMissing \in Nat

FrameKind == {"good", "damaged", "odd"}
SensorNames == {"temp", "accel", "gyro"}

VARIABLES
    elapsed,                    \* start_time.elapsed(), as far as main looks
    main_pc, main_sleep,        \* ..._sleep: what is left of a thread's sleep
    shutdown_flag,
    injector_pc, injector_sleep, recovery_time,     \* the sensor-fault thread
    sensor_faults,              \* the fault flags that are raised
    periodic_sleep, last_packets_processed,
    telemetry_pc, telemetry_q, frame,   \* the thread, its queue, the frame it decodes
    consecutive_failures,       \* telemetry's own count
    packets_processed, consecutive_missing_packets, contact_lost,   \* MONITOR_DATA
    arrived, injections,        \* history: frames sent, faults injected
    strikes, silent             \* history: failures and idle checks, and checks, since a good frame

mainVars == <<main_pc, main_sleep>>
injectorVars == <<injector_pc, injector_sleep, recovery_time, sensor_faults, injections>>
periodicVars == <<periodic_sleep, last_packets_processed>>
telemetryVars == <<telemetry_pc, telemetry_q, frame, consecutive_failures, arrived>>
contact == <<consecutive_missing_packets, contact_lost>>
history == <<strikes, silent>>
vars == <<elapsed, mainVars, shutdown_flag, injectorVars, periodicVars, telemetryVars,
          packets_processed, contact, history>>

TypeOK ==
    /\ elapsed \in 0 .. total_duration
    /\ main_pc \in {"top", "bump", "sleep", "report", "over"}
    /\ injector_pc \in {"top", "sleep", "hold", "judge", "ended"}
    /\ {main_sleep, injector_sleep, periodic_sleep, recovery_time} \subseteq Nat
    /\ shutdown_flag \in BOOLEAN
    /\ sensor_faults \subseteq SensorNames
    /\ last_packets_processed \in 0 .. packets_processed
    /\ telemetry_pc \in {"recv", "decode", "ended"}
    /\ telemetry_q \in Seq(FrameKind) /\ Len(telemetry_q) <= arrived
    /\ frame \in FrameKind
    /\ packets_processed \in Nat
    /\ consecutive_failures \in 0 .. arrived
    /\ consecutive_missing_packets \in Nat /\ contact_lost \in BOOLEAN
    /\ arrived \in 0 .. MaxFrames /\ injections \in Nat
    /\ strikes \in 0 .. 3 /\ silent \in 0 .. 3

Init ==
    /\ elapsed = 0
    /\ main_pc = "top" /\ main_sleep = 0
    /\ shutdown_flag = FALSE
    /\ injector_pc = "top" /\ injector_sleep = 0 /\ recovery_time = 0
    /\ sensor_faults = {}
    /\ periodic_sleep = expected_interval /\ last_packets_processed = 0
    /\ telemetry_pc = "recv" /\ telemetry_q = << >> /\ frame = "good"
    /\ consecutive_failures = 0
    /\ packets_processed = 0
    /\ consecutive_missing_packets = 0 /\ contact_lost = FALSE
    /\ arrived = 0 /\ injections = 0 /\ strikes = 0 /\ silent = 0

-----------------------------------------------------------------------------
(* Main.                                                                    *)

\* Mutant: the loop goes on while either condition holds.
MissionGoesOn_Or == elapsed < total_duration \/ ~shutdown_flag

MissionGoesOn == elapsed < total_duration /\ ~shutdown_flag

\* The turn's backlog entry is pushed, then the counter is bumped under
\* another mutex: the periodic check may come in between.
MainTurn ==
    /\ main_pc = "top"
    /\ MissionGoesOn
    /\ main_pc' = "bump"
    /\ UNCHANGED <<elapsed, main_sleep, shutdown_flag, injectorVars, periodicVars, telemetryVars,
                   packets_processed, contact, history>>

MainBump ==
    /\ main_pc = "bump"
    /\ packets_processed' = packets_processed + 1
    /\ main_pc' = "sleep"
    /\ main_sleep' = MainPeriod
    /\ UNCHANGED <<elapsed, shutdown_flag, injectorVars, periodicVars, telemetryVars, contact,
                   history>>

MainWake ==
    /\ main_pc = "sleep"
    /\ main_sleep = 0
    /\ main_pc' = "top"
    /\ UNCHANGED <<elapsed, main_sleep, shutdown_flag, injectorVars, periodicVars, telemetryVars,
                   packets_processed, contact, history>>

MainLeaves ==
    /\ main_pc = "top"
    /\ ~MissionGoesOn
    /\ shutdown_flag' = TRUE
    /\ main_pc' = "report"
    /\ UNCHANGED <<elapsed, main_sleep, injectorVars, periodicVars, telemetryVars,
                   packets_processed, contact, history>>

\* The reports are printed and main returns, which ends the process.
MainReturns ==
    /\ main_pc = "report"
    /\ main_pc' = "over"
    /\ UNCHANGED <<elapsed, main_sleep, shutdown_flag, injectorVars, periodicVars, telemetryVars,
                   packets_processed, contact, history>>

-----------------------------------------------------------------------------
(* The thread that injects sensor faults.                                   *)
InjectorTop ==
    /\ injector_pc = "top"
    /\ IF shutdown_flag
       THEN injector_pc' = "ended" /\ UNCHANGED injector_sleep
       ELSE injector_pc' = "sleep" /\ injector_sleep' = FaultPeriod
    /\ UNCHANGED <<elapsed, mainVars, shutdown_flag, recovery_time, sensor_faults, injections,
                   periodicVars, telemetryVars, packets_processed, contact, history>>

InjectFaults ==
    /\ injector_pc = "sleep"
    /\ injector_sleep = 0
    /\ recovery_time' = 0
    /\ sensor_faults' = SensorNames
    /\ injections' = injections + 1
    /\ injector_sleep' = FaultDuration
    /\ injector_pc' = "hold"
    /\ UNCHANGED <<elapsed, mainVars, shutdown_flag, periodicVars, telemetryVars,
                   packets_processed, contact, history>>

\* Mutant: one flag is not put back.
Cleared_OneLeft == {"gyro"}

Cleared == {}

ClearFaults ==
    /\ injector_pc = "hold"
    /\ injector_sleep = 0
    /\ sensor_faults' = Cleared
    /\ injector_pc' = "judge"
    /\ UNCHANGED <<elapsed, mainVars, shutdown_flag, injector_sleep, recovery_time, injections,
                   periodicVars, telemetryVars, packets_processed, contact, history>>

\* Mutant: the comparison is the wrong way round.
TooSlow_Reversed(time) == time < RecoveryLimit

TooSlow(time) == time > RecoveryLimit

JudgeRecovery ==
    /\ injector_pc = "judge"
    /\ IF TooSlow(recovery_time)
       THEN injector_pc' = "ended" /\ shutdown_flag' = TRUE
       ELSE injector_pc' = "top" /\ UNCHANGED shutdown_flag
    /\ UNCHANGED <<elapsed, mainVars, injector_sleep, recovery_time, sensor_faults, injections,
                   periodicVars, telemetryVars, packets_processed, contact, history>>

-----------------------------------------------------------------------------
\* The histories need not count past three.
Again(n) == IF n < 3 THEN n + 1 ELSE n

(* Telemetry.                                                               *)
Arrive(kind) ==
    /\ arrived < MaxFrames
    /\ arrived' = arrived + 1
    /\ telemetry_q' = Append(telemetry_q, kind)
    /\ UNCHANGED <<elapsed, mainVars, shutdown_flag, injectorVars, periodicVars, telemetry_pc,
                   frame, consecutive_failures, packets_processed, contact, history>>

\* The decoder slices the text two characters at a time: on an odd number of
\* them it panics, which ends the thread.
TelReceive ==
    /\ telemetry_pc = "recv"
    /\ telemetry_q # << >>
    /\ telemetry_q' = Tail(telemetry_q)
    /\ frame' = Head(telemetry_q)
    /\ telemetry_pc' = IF frame' = "odd" THEN "ended" ELSE "decode"
    /\ UNCHANGED <<elapsed, mainVars, shutdown_flag, injectorVars, periodicVars,
                   consecutive_failures, arrived, packets_processed, contact, history>>

\* Mutant: the counter starts again, the verdict stays.
Recovered_CounterOnly == consecutive_missing_packets' = 0 /\ UNCHANGED contact_lost

Recovered == consecutive_missing_packets' = 0 /\ contact_lost' = FALSE

\* Mutant: a frame that cannot be decrypted goes on to the parser and is
\* counted there again.
Missed_Twice ==
    /\ consecutive_missing_packets' =
           consecutive_missing_packets + (IF frame = "damaged" THEN 2 ELSE 1)
    /\ contact_lost' = (contact_lost \/ consecutive_missing_packets' >= 3)

\* One more packet or check without contact; three in a row are a loss.
Missed ==
    /\ consecutive_missing_packets' = consecutive_missing_packets + 1
    /\ contact_lost' = (contact_lost \/ consecutive_missing_packets' >= 3)

record_telemetry_latency_and_jitter ==
    /\ telemetry_pc = "decode"
    /\ frame = "good"
    /\ consecutive_failures' = 0
    /\ Recovered
    /\ strikes' = 0 /\ silent' = 0
    /\ telemetry_pc' = "recv"
    /\ frame' = "good"      \* not read again
    /\ UNCHANGED <<elapsed, mainVars, shutdown_flag, injectorVars, periodicVars, telemetry_q,
                   arrived, packets_processed>>

record_missing_telemetry ==
    /\ telemetry_pc = "decode"
    /\ frame # "good"
    /\ consecutive_failures' = consecutive_failures + 1
    /\ Missed
    /\ strikes' = Again(strikes)
    /\ telemetry_pc' = "recv"
    /\ frame' = "good"      \* not read again
    /\ UNCHANGED <<elapsed, mainVars, shutdown_flag, injectorVars, periodicVars, telemetry_q,
                   arrived, packets_processed, silent>>

-----------------------------------------------------------------------------
(* The periodic check.  Progress of main's counter resets the contact state *)
(* whatever telemetry has found.                                            *)
CheckIdle ==
    /\ periodic_sleep = 0
    /\ periodic_sleep' = expected_interval
    /\ packets_processed = last_packets_processed
    /\ consecutive_missing_packets < MaxMissing
    /\ Missed
    /\ strikes' = Again(strikes) /\ silent' = Again(silent)
    /\ UNCHANGED <<elapsed, mainVars, shutdown_flag, injectorVars, last_packets_processed,
                   telemetryVars, packets_processed>>

CheckProgress ==
    /\ periodic_sleep = 0
    /\ periodic_sleep' = expected_interval
    /\ packets_processed # last_packets_processed
    /\ Recovered
    /\ last_packets_processed' = packets_processed
    /\ silent' = Again(silent)
    /\ UNCHANGED <<elapsed, mainVars, shutdown_flag, injectorVars, telemetryVars,
                   packets_processed, strikes>>

\* Mutant: a sleep goes on counting past its end.
Left_Past(sleep) == sleep - 1

\* Sleeps give lower bounds only: time may pass between any two steps.
Left(sleep) == IF sleep = 0 THEN 0 ELSE sleep - 1
UpTo(limit, time) == IF time < limit THEN time + 1 ELSE time

Tick ==
    /\ elapsed' = UpTo(total_duration, elapsed)
    /\ main_sleep' = Left(main_sleep)
    /\ injector_sleep' = Left(injector_sleep)
    /\ periodic_sleep' = Left(periodic_sleep)
    /\ recovery_time' = IF injector_pc = "hold" THEN UpTo(RecoveryLimit + 1, recovery_time)
                        ELSE recovery_time
    /\ UNCHANGED <<main_pc, shutdown_flag, injector_pc, sensor_faults, injections,
                   last_packets_processed, telemetryVars, packets_processed, contact, history>>

-----------------------------------------------------------------------------
Alive == main_pc # "over"

Main == MainTurn \/ MainBump \/ MainWake \/ MainLeaves \/ MainReturns
Injector == InjectorTop \/ InjectFaults \/ ClearFaults \/ JudgeRecovery
Telemetry == TelReceive \/ record_telemetry_latency_and_jitter \/ record_missing_telemetry
Periodic == CheckIdle \/ CheckProgress

Next ==
    /\ Alive
    /\ \/ Main \/ Injector \/ Telemetry \/ Periodic \/ Tick
       \/ \E kind \in FrameKind : Arrive(kind)

Spec == Init /\ [][Next]_vars

\* Until main returns the other threads go on, and so does time; no frame need
\* ever arrive, and the mission may last.
Fairness ==
    /\ WF_vars(Alive /\ Injector)
    /\ WF_vars(Alive /\ Telemetry)
    /\ WF_vars(Alive /\ Tick)

FairSpec == Spec /\ Fairness

-----------------------------------------------------------------------------
\* Telemetry and the periodic check, each on its own clock, keep the verdict
\* and the count it is drawn from together.
LostIsThree == contact_lost <=> consecutive_missing_packets >= 3

\* Contact is lost only after three failed frames or idle checks since the
\* last good frame, though two threads count and either resets the count.
LostMeansSilence == contact_lost => strikes >= 3

\* Before its time is over the mission is shut down only by the sensor-fault
\* thread: after one injection, its full sleep and fault, and with every sensor
\* recovered.  The faults outlast the recovery limit, so there is no second
\* injection; and in a mission shorter than FaultPeriod (60 s against 30 s as
\* shipped, fault.rs:253, main.rs:158) nothing is aborted at all.
AbortAfterRecovery ==
    /\ injections <= 1
    /\ (shutdown_flag /\ elapsed < total_duration) =>
           /\ injections = 1 /\ sensor_faults = {}
           /\ elapsed >= FaultPeriod + FaultDuration

\* A good frame in telemetry's queue clears a loss of contact, unless the
\* thread dies of a frame before it or the mission ends.
Waiting == \E i \in 1 .. Len(telemetry_q) : telemetry_q[i] = "good"
GoodFrameClears ==
    (contact_lost /\ Waiting) ~> (~contact_lost \/ telemetry_pc = "ended" \/ ~Alive)
=============================================================================
