------------------------------ MODULE Scheduler ------------------------------
(***************************************************************************)
(* The rate-monotonic scheduler of the satellite's system tasks:           *)
(* run_system_scheduler, lines 346-554 of src/task.rs.  One thread releases *)
(* jobs, takes the highest priority from a heap and runs it in small       *)
(* slices; between slices it releases what has become due and preempts the *)
(* job for a higher one or for a TempSensor sample SharedTask has flagged. *)
(* Time passes between any two steps, so the thread may be late anywhere.  *)
(***************************************************************************)
EXTENDS Integers, FiniteSets

CONSTANTS
    SystemTasks,    \* the three entries of task_list
    period, execution_time, first_release,   \* their fields, by task
    cycle_duration, \* 1 s
    thermal,        \* 5 ms of thermal handling
    MaxTime         \* bound: the time up to which a behaviour is followed

ASSUME TasksAssumption ==
    /\ IsFiniteSet(SystemTasks)
    /\ period \in [SystemTasks -> Nat \ {0}]
    /\ execution_time \in [SystemTasks -> Nat \ {0}]
    /\ first_release \in [SystemTasks -> Nat]
    /\ \A t, u \in SystemTasks : period[t] = period[u] => t = u
ASSUME TimesAssumption ==
    /\ cycle_duration \in Nat
    /\ thermal \in Nat
    /\ MaxTime \in Nat

VARIABLES
    now,
    sched_pc,
    next_release,   \* per task
    ready_queue,    \* the heap, as a set: its order among equals is unspecified
    task, start_time,       \* the job taken and when it was started
    cycle_start, wake,      \* start of the cycle, end of the sleep under way
    critical_sensor_flag, shutdown_flag,
    total_active,           \* TOTAL_ACTIVE_TIME
    missed_deadlines,
    finished        \* history: the jobs over, reported as completed or not

jobVars == <<task, start_time>>
flagVars == <<critical_sensor_flag, shutdown_flag>>
countVars == <<total_active, missed_deadlines>>
sleepVars == <<cycle_start, wake>>
vars == <<now, sched_pc, next_release, ready_queue, jobVars, sleepVars, flagVars,
          countVars, finished>>

\* left is execution_time of a copy in the heap; got, the time it has run, is
\* history.  The job's release is its deadline minus its period.
Job == [task : SystemTasks, deadline : Nat, left : Nat \ {0}, got : Nat]
ReleaseOf(j) == j.deadline - period[j.task]
JobId(j) == [task |-> j.task, deadline |-> j.deadline]

\* The thread has a job in its hands, neither queued nor over.
Holding == sched_pc \in {"run", "poll", "alarm", "yield"}

\* Rate monotonic: the shorter the period, the smaller the number.
Priority(t) == 1 + Cardinality({u \in SystemTasks : period[u] < period[t]})

TypeOK ==
    /\ now \in Nat
    /\ sched_pc \in {"top", "pop", "run", "poll", "alarm", "yield", "thermal", "sleep", "ended"}
    /\ next_release \in [SystemTasks -> Nat]
    /\ ready_queue \subseteq Job
    /\ Holding => task \in Job
    /\ start_time \in Nat /\ cycle_start \in Nat /\ wake \in Nat
    /\ critical_sensor_flag \in BOOLEAN /\ shutdown_flag \in BOOLEAN
    /\ total_active \in Nat /\ missed_deadlines \in Nat
    /\ finished \subseteq [task : SystemTasks, deadline : Nat]

Init ==
    /\ now = 0
    /\ sched_pc = "top"
    /\ next_release = first_release
    /\ ready_queue = {}
    /\ task = << >> /\ start_time = 0
    /\ cycle_start = 0 /\ wake = 0
    /\ critical_sensor_flag = FALSE /\ shutdown_flag = FALSE
    /\ total_active = 0 /\ missed_deadlines = 0
    /\ finished = {}

-----------------------------------------------------------------------------
(* Releases.                                                                *)

Due(t) == now >= next_release[t]
NewJob(t) == [task |-> t, deadline |-> next_release[t] + period[t],
              left |-> execution_time[t], got |-> 0]

\* Mutant: the next release is counted from now.
NextRelease_Drifts(t) == IF Due(t) THEN now + period[t] ELSE next_release[t]

NextRelease(t) == IF Due(t) THEN next_release[t] + period[t] ELSE next_release[t]

\* One job for each task that is due, however late it is.
Release ==
    /\ ready_queue' = ready_queue \cup {NewJob(t) : t \in {u \in SystemTasks : Due(u)}}
    /\ next_release' = [t \in SystemTasks |-> NextRelease(t)]

\* Mutant: the flag is never looked at.
Stopped_Never == FALSE

Stopped == shutdown_flag

StopAt(pc) ==
    /\ sched_pc = pc
    /\ Stopped
    /\ sched_pc' = "ended"
    /\ UNCHANGED <<now, next_release, ready_queue, jobVars, sleepVars, flagVars, countVars,
                   finished>>

CycleTop ==
    /\ sched_pc = "top"
    /\ ~Stopped
    /\ cycle_start' = now
    /\ Release
    /\ sched_pc' = "pop"
    /\ UNCHANGED <<now, jobVars, wake, flagVars, countVars, finished>>

-----------------------------------------------------------------------------
(* Running a job.                                                           *)

\* Mutant: the jobs are taken in the order of their deadlines.
Next_EarliestDeadline(j) == \A k \in ready_queue : j.deadline <= k.deadline

\* What the heap may give: any job no other one outranks.
NextJob(j) == \A k \in ready_queue : Priority(j.task) <= Priority(k.task)

PopJob ==
    /\ sched_pc = "pop"
    /\ ~Stopped
    /\ \E j \in ready_queue :
         /\ NextJob(j)
         /\ ready_queue' = ready_queue \ {j}
         /\ task' = j
         /\ start_time' = now
         /\ missed_deadlines' = missed_deadlines + (IF now > j.deadline THEN 1 ELSE 0)
    /\ sched_pc' = "run"
    /\ UNCHANGED <<now, next_release, sleepVars, flagVars, total_active, finished>>

\* Mutant: the end of the job is counted from its release.
end_time_FromRelease == ReleaseOf(task) + task.left

end_time == start_time + task.left

RunCheck ==
    /\ sched_pc = "run"
    /\ now < end_time
    /\ ~Stopped
    /\ sched_pc' = "poll"
    /\ UNCHANGED <<now, next_release, ready_queue, jobVars, sleepVars, flagVars, countVars,
                   finished>>

\* Mutant: the time since the release is added.
exec_duration_FromRelease == now - ReleaseOf(task)

exec_duration == now - start_time

\* A variable that is not read again.
Forget == task' = << >> /\ start_time' = 0

RunEnd ==
    /\ sched_pc = "run"
    /\ now >= end_time
    /\ total_active' = total_active + exec_duration
    /\ finished' = finished \cup {JobId(task)}
    /\ sched_pc' = "pop"
    /\ Forget
    /\ UNCHANGED <<now, next_release, ready_queue, sleepVars, flagVars, missed_deadlines>>

\* Mutant: a job of the same priority preempts, and no higher one.
Outranks_Equal(j) == Priority(j.task) = Priority(task.task)

Outranks(j) == Priority(j.task) < Priority(task.task)

\* Between two slices: releases, then the flag, then the heap.
Poll ==
    /\ sched_pc = "poll"
    /\ Release
    /\ sched_pc' = IF critical_sensor_flag THEN "alarm"
                   ELSE IF \E j \in ready_queue' : Outranks(j) THEN "yield"
                   ELSE "run"
    /\ UNCHANGED <<now, jobVars, sleepVars, flagVars, countVars, finished>>

\* Mutant: the job goes back whether or not time is left.
Requeue_Always ==
    /\ ready_queue' = ready_queue \cup {[task EXCEPT !.left = end_time - now,
                                                     !.got = @ + now - start_time]}
    /\ UNCHANGED finished

\* The job preempted goes back with the time it still needs.  When its time
\* has run out since the check it is dropped, without being reported completed.
Requeue ==
    \/ /\ now < end_time
       /\ ready_queue' = ready_queue \cup {[task EXCEPT !.left = end_time - now,
                                                        !.got = @ + now - start_time]}
       /\ UNCHANGED finished
    \/ /\ now >= end_time
       /\ finished' = finished \cup {JobId(task)}
       /\ UNCHANGED ready_queue

Yield ==
    /\ sched_pc = "yield"
    /\ Requeue
    /\ sched_pc' = "pop"
    /\ Forget
    /\ UNCHANGED <<now, next_release, sleepVars, flagVars, countVars>>

Alarm ==
    /\ sched_pc = "alarm"
    /\ Requeue
    /\ wake' = now + thermal
    /\ sched_pc' = "thermal"
    /\ Forget
    /\ UNCHANGED <<now, next_release, cycle_start, flagVars, countVars>>

\* The flag is cleared, also when it was set again during the handling.
AlarmHandled ==
    /\ sched_pc = "thermal"
    /\ now >= wake
    /\ total_active' = total_active + thermal
    /\ critical_sensor_flag' = FALSE
    /\ sched_pc' = "pop"
    /\ UNCHANGED <<now, next_release, ready_queue, jobVars, sleepVars, shutdown_flag,
                   missed_deadlines, finished>>

-----------------------------------------------------------------------------
(* The rest of the cycle.                                                   *)

Elapsed == now - cycle_start

EndCycle ==
    /\ sched_pc = "pop"
    /\ ready_queue = {}
    /\ wake' = now + (IF Elapsed < cycle_duration THEN cycle_duration - Elapsed ELSE 0)
    /\ sched_pc' = "sleep"
    /\ UNCHANGED <<now, next_release, ready_queue, jobVars, cycle_start, flagVars, countVars,
                   finished>>

WakeUp ==
    /\ sched_pc = "sleep"
    /\ now >= wake
    /\ sched_pc' = "top"
    /\ UNCHANGED <<now, next_release, ready_queue, jobVars, sleepVars, flagVars, countVars,
                   finished>>

StopStep ==
    \/ StopAt("top")
    \/ ready_queue # {} /\ StopAt("pop")
    \/ StopAt("run") /\ now < end_time
    \/ now < wake /\ StopAt("sleep")

SchedStep ==
    \/ CycleTop \/ PopJob \/ RunCheck \/ RunEnd \/ Poll \/ Yield \/ Alarm \/ AlarmHandled
    \/ EndCycle \/ WakeUp \/ StopStep

-----------------------------------------------------------------------------
(* The others: SharedTask flags a TempSensor sample, main raises shutdown.  *)

\* Bound: no sample is flagged at the end of a behaviour.
FlagCritical ==
    /\ now < MaxTime
    /\ ~critical_sensor_flag
    /\ critical_sensor_flag' = TRUE
    /\ UNCHANGED <<now, sched_pc, next_release, ready_queue, jobVars, sleepVars, shutdown_flag,
                   countVars, finished>>

RaiseShutdown ==
    /\ ~shutdown_flag
    /\ shutdown_flag' = TRUE
    /\ UNCHANGED <<now, sched_pc, next_release, ready_queue, jobVars, sleepVars,
                   critical_sensor_flag, countVars, finished>>

\* A thermal handling begun in time may end after the bound.
Tick ==
    /\ \/ now < MaxTime
       \/ sched_pc = "thermal" /\ now < wake
    /\ now' = now + 1
    /\ UNCHANGED <<sched_pc, next_release, ready_queue, jobVars, sleepVars, flagVars, countVars,
                   finished>>

Next == SchedStep \/ FlagCritical \/ RaiseShutdown \/ Tick

Spec == Init /\ [][Next]_vars

\* The thread keeps being scheduled and time goes on.
Fairness == WF_vars(SchedStep) /\ WF_vars(Tick)
FairSpec == Spec /\ Fairness

-----------------------------------------------------------------------------
(* Properties.                                                              *)

\* The deadlines of the jobs of t released so far: one per period, no gaps.
Deadlines(t) ==
    {d \in 0 .. next_release[t] :
        d > first_release[t] /\ (d - first_release[t]) % period[t] = 0}

Queued(t) == {j \in ready_queue : j.task = t}
InHand(t) == IF Holding /\ task.task = t THEN {task} ELSE {}
Over(t) == {f \in finished : f.task = t}

\* Every period of every task has exactly one job, and that job is in exactly
\* one place: the heap, the thread's hands or over.  No preemption loses a job,
\* doubles it or moves its deadline, and no lateness skips a period.
ReleasesAccounted ==
    sched_pc # "ended" =>
        \A t \in SystemTasks :
            /\ {j.deadline : j \in Queued(t) \cup InHand(t) \cup Over(t)} = Deadlines(t)
            /\ Cardinality(Queued(t)) + Cardinality(InHand(t)) + Cardinality(Over(t))
                 = Cardinality(Deadlines(t))

\* While a job runs no job of a shorter period waits: what a poll releases
\* above it preempts it before the next slice.
RunsHighest ==
    sched_pc \in {"run", "poll"} =>
        \A j \in ready_queue : Priority(task.task) <= Priority(j.task)

\* A job ends only after all its execution time in the thread's hands, however
\* often it was preempted; the thermal handling does not count as its own.
FullService ==
    [][\A f \in finished' \ finished :
         task.got + (now - start_time) >= execution_time[f.task]]_vars

\* The active time is never more than the time that has passed: no slice is
\* counted twice, preempted or not.
ActiveWithinElapsed == total_active <= now

\* A raised flag ends the thread from wherever it is.
ShutdownEndsScheduler == shutdown_flag ~> sched_pc = "ended"
=============================================================================
