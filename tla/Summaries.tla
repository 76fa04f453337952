------------------------------ MODULE Summaries ------------------------------
(***************************************************************************)
(* The figures the final reports print, which the threads compute as they  *)
(* go: the statistics and the backlog of SatelliteSummary (monitor.rs),    *)
(* the extremes of the periodic check's drift, the jitter telemetry        *)
(* derives from the arrival of packets, and the JitterTracker of the       *)
(* TempSensor's samples (types.rs).  `given' is a history: all that was    *)
(* ever recorded, in one sequence for each thing recorded.                 *)
(***************************************************************************)
EXTENDS Integers, FiniteSetsExt, SequencesExt

CONSTANTS
    Sensors,            \* names a jitter is recorded for (today the TempSensor only)
    Durations,          \* durations and lengths that are recorded
    u128_MAX,           \* more than any of them
    JitterWindow,       \* 100 jitters
    JitterTolerance,    \* 1 ms
    TrackerInterval,    \* main.rs:121, 1 s
    DriftLimit,         \* monitor.rs:166, 2000 us
    MaxGiven            \* bound: records made

ASSUME DurationsAssumption ==
    Durations \subseteq Nat /\ u128_MAX \in Nat /\ \A d \in Durations : d < u128_MAX
ASSUME WindowAssumption == JitterWindow \in Nat \ {0}
ASSUME LimitsAssumption ==
    JitterTolerance \in Nat /\ TrackerInterval \in Nat /\ DriftLimit \in Nat

VARIABLES
    sensor_jitter, backlog,     \* SatelliteSummary
    drift,                      \* max_drift, min_drift, missed_deadlines
    tracker,                    \* JitterTracker
    uplink,                     \* telemetry's last packet and interval, jitter_values
    given

vars == <<sensor_jitter, backlog, drift, tracker, uplink, given>>

Streams == {"jitter", "backlog", "drift", "tracked", "packet"}

None == -1      \* of an Option; every Some is a natural number
Difference(a, b) == IF a > b THEN a - b ELSE b - a
Larger(a, b) == IF b > a THEN b ELSE a
Smaller(a, b) == IF b < a THEN b ELSE a

-----------------------------------------------------------------------------
\* Mutant: the minimum starts at 0, like the other fields.
NewStat_MinZero == [count |-> 0, sum |-> 0, max |-> 0, min |-> 0]

NewStat == [count |-> 0, sum |-> 0, max |-> 0, min |-> u128_MAX]

Recorded(stat, d) ==
    [count |-> stat.count + 1, sum |-> stat.sum + d,
     max |-> Larger(stat.max, d), min |-> Smaller(stat.min, d)]

avg_micros(stat) == IF stat.count = 0 THEN 0 ELSE stat.sum \div stat.count

Init ==
    /\ sensor_jitter = << >>
    /\ backlog = NewStat
    /\ drift = [max |-> None, min |-> None, missed |-> 0]
    /\ tracker = [last_time |-> None, jitters |-> << >>, violations |-> 0]
    /\ uplink = [last_time |-> None, last_interval |-> None, jitter_values |-> << >>]
    /\ given = [what \in Streams |-> << >>]

Given(what, d) ==
    /\ SumFunction([w \in Streams |-> Len(given[w])]) < MaxGiven
    /\ given' = [given EXCEPT ![what] = Append(@, d)]

record_sensor_jitter(name, d) ==
    /\ Given("jitter", d)
    /\ LET entry == IF name \in DOMAIN sensor_jitter THEN sensor_jitter[name] ELSE NewStat
       IN  sensor_jitter' = [n \in DOMAIN sensor_jitter \cup {name} |->
                                IF n = name THEN Recorded(entry, d) ELSE sensor_jitter[n]]
    /\ UNCHANGED <<backlog, drift, tracker, uplink>>

record_backlog(len) ==
    /\ Given("backlog", len)
    /\ backlog' = Recorded(backlog, len)
    /\ UNCHANGED <<sensor_jitter, drift, tracker, uplink>>

\* The periodic check; a drift is never negative.
record_drift(d) ==
    /\ Given("drift", d)
    /\ drift' = [max |-> IF drift.max = None THEN d ELSE Larger(drift.max, d),
                 min |-> IF drift.min = None THEN d ELSE Smaller(drift.min, d),
                 missed |-> drift.missed + (IF d > DriftLimit THEN 1 ELSE 0)]
    /\ UNCHANGED <<sensor_jitter, backlog, tracker, uplink>>

\* JitterTracker::record, d after the last call.
record(d) ==
    LET jitter == Difference(d, TrackerInterval)
        kept == IF Len(tracker.jitters) = JitterWindow THEN Tail(tracker.jitters)
                ELSE tracker.jitters
        now == IF tracker.last_time = None THEN 0 ELSE tracker.last_time + d
    IN  /\ Given("tracked", now)
        /\ tracker' =
               IF tracker.last_time = None THEN [tracker EXCEPT !.last_time = now]
               ELSE [last_time |-> now,
                     jitters |-> Append(kept, jitter),
                     violations |-> tracker.violations
                                        + (IF jitter > JitterTolerance THEN 1 ELSE 0)]
        /\ UNCHANGED <<sensor_jitter, backlog, drift, uplink>>

\* A packet telemetry can read, d after the last one.  The change of the
\* interval is pushed by log_jitter and once more with the latency.
TelemetryPacket(d) ==
    LET change == IF uplink.last_interval = None THEN 0 ELSE Difference(d, uplink.last_interval)
        now == IF uplink.last_time = None THEN 0 ELSE uplink.last_time + d
    IN  /\ Given("packet", now)
        /\ uplink' =
               IF uplink.last_time = None THEN [uplink EXCEPT !.last_time = now]
               ELSE [last_time |-> now, last_interval |-> d,
                     jitter_values |-> uplink.jitter_values \o <<change, change>>]
        /\ UNCHANGED <<sensor_jitter, backlog, drift, tracker>>

Next ==
    \E d \in Durations :
        \/ \E name \in Sensors : record_sensor_jitter(name, d)
        \/ record_backlog(d) \/ record_drift(d) \/ record(d) \/ TelemetryPacket(d)

Spec == Init /\ [][Next]_vars

-----------------------------------------------------------------------------
(* What is printed.                                                         *)
PrintedMin(min) == IF min = u128_MAX THEN 0 ELSE min

\* print_satellite_report adds the sensors' statistics up.
SensorJitterReport ==
    LET names == DOMAIN sensor_jitter
        all == [count |-> SumFunction([n \in names |-> sensor_jitter[n].count]),
                sum |-> SumFunction([n \in names |-> sensor_jitter[n].sum])]
    IN  [avg |-> avg_micros(all),
         max |-> Max({0} \cup {sensor_jitter[n].max : n \in names}),
         min |-> PrintedMin(Min({u128_MAX} \cup {sensor_jitter[n].min : n \in names}))]

\* The average, printed with one decimal, is cut to an integer here.
BacklogReport ==
    [avg |-> avg_micros(backlog), max |-> backlog.max, min |-> PrintedMin(backlog.min)]

\* None is printed as "N/A".
calculate_average_jitter ==
    IF uplink.jitter_values = << >> THEN None
    ELSE SumFunction(uplink.jitter_values) \div Len(uplink.jitter_values)

-----------------------------------------------------------------------------
(* The same from the full record.                                           *)
Gaps(seq) == [i \in 1 .. Len(seq) - 1 |-> seq[i + 1] - seq[i]]
Jitters(gaps) == [i \in 1 .. Len(gaps) |-> Difference(gaps[i], TrackerInterval)]
Changes(gaps) == [i \in 1 .. Len(gaps) - 1 |-> Difference(gaps[i], gaps[i + 1])]
Above(seq, limit) == Cardinality({i \in DOMAIN seq : seq[i] > limit})
Average(seq) == IF seq = << >> THEN 0 ELSE SumFunction(seq) \div Len(seq)
ReportOf(seq) ==
    [avg |-> Average(seq), max |-> Max({0} \cup ToSet(seq)),
     min |-> IF seq = << >> THEN 0 ELSE Min(ToSet(seq))]

\* The tracker has the latest jitters and counts the violations of all.
TrackerMatches ==
    LET jitters == Jitters(Gaps(given["tracked"]))
        first == Larger(1, Len(jitters) - JitterWindow + 1)
    IN  /\ tracker.jitters = SubSeq(jitters, first, Len(jitters))
        /\ tracker.violations = Above(jitters, JitterTolerance)

\* Each change pushed twice, and a 0 for the first interval, gives the average
\* over the intervals.
UplinkMatches ==
    LET gaps == Gaps(given["packet"])
    IN  calculate_average_jitter =
            IF gaps = << >> THEN None ELSE SumFunction(Changes(gaps)) \div Len(gaps)

DriftMatches ==
    LET drifts == given["drift"]
    IN  /\ drifts # << >> =>
              drift.max = Max(ToSet(drifts)) /\ drift.min = Min(ToSet(drifts))
        /\ drift.missed = Above(drifts, DriftLimit)

\* Every figure kept here is, as printed, the one the full record gives: a report over
\* several sensors is the one over all their jitters, an untouched minimum is
\* printed as 0, and no sample is lost to a window or counted with a wrong
\* weight (monitor.rs:364, types.rs:50, telemetry.rs:94).
SummariesMatch ==
    /\ SensorJitterReport = ReportOf(given["jitter"])
    /\ BacklogReport = ReportOf(given["backlog"])
    /\ DriftMatches /\ TrackerMatches /\ UplinkMatches
=============================================================================
