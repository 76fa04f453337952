--------------------------- MODULE SchedulerProofs ---------------------------
(* What the rate-monotonic scheduler guarantees for every set of tasks, and  *)
(* every period, execution time and lateness of its thread.                  *)
EXTENDS Scheduler, FiniteSetTheorems, TLAPS

\* The clock readings a thread has taken are not ahead of the clock.
ClockForward == Holding => start_time <= now

TypeInv == TypeOK /\ ClockForward

\* A job preempted with time left is a job, with the time it still needs.
Preempted == [task EXCEPT !.left = end_time - now, !.got = @ + now - start_time]

\* A preempted job keeps its deadline and needs what is left of its time.
LEMMA PreemptedIs ==
  ASSUME TypeInv, Holding, now < end_time
  PROVE  /\ Preempted \in Job
         /\ Preempted.task = task.task /\ Preempted.deadline = task.deadline
         /\ Preempted.got + Preempted.left = task.got + task.left
<1>1. task \in Job /\ now \in Nat /\ start_time \in Nat /\ start_time <= now
  BY DEF TypeInv, TypeOK, ClockForward
<1> DEFINE l == end_time - now
           g == task.got + now - start_time
<1>2. /\ task.task \in SystemTasks /\ task.deadline \in Nat
      /\ task.left \in Nat \ {0} /\ task.got \in Nat
  BY <1>1 DEF Job
<1>3. l \in Nat \ {0} /\ g \in Nat /\ g + l = task.got + task.left
  BY <1>1, <1>2 DEF end_time
<1>4. Preempted = [task EXCEPT !.left = l, !.got = g]
  BY DEF Preempted
<1> HIDE DEF l, g
<1>5. Preempted \in Job
  BY <1>1, <1>3, <1>4 DEF Job
<1>6. /\ Preempted.task = task.task /\ Preempted.deadline = task.deadline
      /\ Preempted.left = l /\ Preempted.got = g
  BY <1>1, <1>4 DEF Job
<1> QED
  BY <1>3, <1>5, <1>6

\* A finished job is known by task and deadline.
LEMMA JobIdIs ==
  ASSUME NEW j \in Job
  PROVE  /\ JobId(j) \in [task : SystemTasks, deadline : Nat]
         /\ JobId(j).task = j.task /\ JobId(j).deadline = j.deadline
         /\ j.task \in SystemTasks /\ j.deadline \in Nat /\ j.left \in Nat \ {0} /\ j.got \in Nat
  BY DEF JobId, Job

\* A released job needs all its time.
LEMMA NewJobIs ==
  ASSUME TypeOK, NEW t \in SystemTasks
  PROVE  /\ NewJob(t) \in Job
         /\ NewJob(t).task = t /\ NewJob(t).deadline = next_release[t] + period[t]
         /\ NewJob(t).got + NewJob(t).left = execution_time[t]
         /\ next_release[t] \in Nat /\ period[t] \in Nat \ {0}
  BY TasksAssumption DEF NewJob, Job, TypeOK

\* The heap's jobs stay jobs when some are released
LEMMA ReleaseType ==
  ASSUME TypeOK, Release
  PROVE  ready_queue' \subseteq Job /\ next_release' \in [SystemTasks -> Nat]
<1>1. next_release' = [t \in SystemTasks |-> NextRelease(t)]
  BY DEF Release
<1>2. \A t \in SystemTasks : NextRelease(t) \in Nat
  BY NewJobIs DEF NextRelease
<1> QED
  BY <1>1, <1>2, NewJobIs DEF Release, TypeOK

\* or put back.
LEMMA RequeueType ==
  ASSUME TypeInv, Holding, Requeue
  PROVE  ready_queue' \subseteq Job /\ finished' \subseteq [task : SystemTasks, deadline : Nat]
<1>1. task \in Job /\ ready_queue \subseteq Job
      /\ finished \subseteq [task : SystemTasks, deadline : Nat]
  BY DEF TypeInv, TypeOK
<1> QED
  BY <1>1, PreemptedIs, JobIdIs DEF Requeue, Preempted

\* The types hold at the start,
LEMMA InitType == Init => TypeInv
<1> SUFFICES ASSUME Init PROVE TypeInv
  OBVIOUS
<1>1. ~Holding
  BY DEF Init, Holding
<1>2. critical_sensor_flag \in BOOLEAN /\ shutdown_flag \in BOOLEAN
  BY DEF Init
<1>3. next_release \in [SystemTasks -> Nat]
  BY TasksAssumption DEF Init
<1> QED
  BY <1>1, <1>2, <1>3 DEF Init, TypeInv, TypeOK, ClockForward

\* are kept by every step,
LEMMA NextType == TypeInv /\ [Next]_vars => TypeInv'
<1> SUFFICES ASSUME TypeInv, [Next]_vars PROVE TypeInv'
  OBVIOUS
<1> USE TimesAssumption
        DEF TypeInv, TypeOK, ClockForward, Holding, jobVars, sleepVars, flagVars, countVars
<1>1. CASE CycleTop
  BY <1>1, ReleaseType DEF CycleTop
<1>2. CASE PopJob
  <2>1. PICK j \in ready_queue : ready_queue' = ready_queue \ {j} /\ task' = j
    BY <1>2 DEF PopJob
  <2>2. /\ start_time' = now /\ sched_pc' = "run"
        /\ missed_deadlines' = missed_deadlines + (IF now > j.deadline THEN 1 ELSE 0)
        /\ UNCHANGED <<now, next_release, sleepVars, flagVars, total_active, finished>>
    BY <1>2, <2>1 DEF PopJob
  <2>3. missed_deadlines' \in Nat
    BY <2>2
  <2> QED
    BY <2>1, <2>2, <2>3
<1>3. CASE RunCheck
  BY <1>3 DEF RunCheck
<1>4. CASE RunEnd
  <2>1. task \in Job /\ start_time <= now
    BY <1>4 DEF RunEnd
  <2>2. total_active' \in Nat
    BY <1>4, <2>1 DEF RunEnd, exec_duration
  <2>3. finished' \subseteq [task : SystemTasks, deadline : Nat]
    BY <1>4, <2>1, JobIdIs DEF RunEnd
  <2>4. start_time' = 0 /\ sched_pc' = "pop"
        /\ UNCHANGED <<now, next_release, ready_queue, sleepVars, flagVars, missed_deadlines>>
    BY <1>4 DEF RunEnd, Forget
  <2> QED
    BY <2>2, <2>3, <2>4
<1>5. CASE Poll
  <2>1. ready_queue' \subseteq Job /\ next_release' \in [SystemTasks -> Nat]
    BY <1>5, ReleaseType DEF Poll
  <2>2. sched_pc' \in {"alarm", "yield", "run"}
    BY <1>5 DEF Poll
  <2>3. sched_pc = "poll" /\ UNCHANGED <<now, jobVars, sleepVars, flagVars, countVars, finished>>
    BY <1>5 DEF Poll
  <2> QED
    BY <2>1, <2>2, <2>3
<1>6. CASE Yield
  <2>1. ready_queue' \subseteq Job /\ finished' \subseteq [task : SystemTasks, deadline : Nat]
    BY <1>6, RequeueType DEF Yield
  <2> QED
    BY <1>6, <2>1 DEF Yield, Forget
<1>7. CASE Alarm
  <2>1. ready_queue' \subseteq Job /\ finished' \subseteq [task : SystemTasks, deadline : Nat]
    BY <1>7, RequeueType DEF Alarm
  <2> QED
    BY <1>7, <2>1 DEF Alarm, Forget
<1>8. CASE AlarmHandled
  <2>1. critical_sensor_flag' \in BOOLEAN
    BY <1>8 DEF AlarmHandled
  <2>2. /\ total_active' = total_active + thermal /\ sched_pc' = "pop"
        /\ UNCHANGED <<now, next_release, ready_queue, jobVars, sleepVars, shutdown_flag,
                       missed_deadlines, finished>>
    BY <1>8 DEF AlarmHandled
  <2> QED
    BY <2>1, <2>2
<1>9. CASE EndCycle
  <2>1. wake' \in Nat
    BY <1>9 DEF EndCycle, Elapsed
  <2> QED
    BY <1>9, <2>1 DEF EndCycle
<1>10. CASE WakeUp
  BY <1>10 DEF WakeUp
<1>11. CASE StopStep
  BY <1>11 DEF StopStep, StopAt
<1>12. CASE FlagCritical
  BY <1>12 DEF FlagCritical
<1>13. CASE RaiseShutdown
  BY <1>13 DEF RaiseShutdown
<1>14. CASE Tick
  BY <1>14 DEF Tick
<1>15. CASE UNCHANGED vars
  BY <1>15 DEF vars
<1> QED
  BY <1>1, <1>2, <1>3, <1>4, <1>5, <1>6, <1>7, <1>8, <1>9, <1>10, <1>11, <1>12, <1>13, <1>14,
     <1>15
     DEF Next, SchedStep

\* and hold throughout.
LEMMA AlwaysType == Spec => []TypeInv
  BY InitType, NextType, PTL DEF Spec

(* Every variable of the scheduler keeps its type; in particular a job that  *)
(* is queued always needs a positive time, preempted or not.                 *)
THEOREM TypeCorrect == Spec => []TypeOK
  BY AlwaysType, PTL DEF TypeInv

-----------------------------------------------------------------------------
(* Service.                                                                  *)

\* What a job has had and what it still needs make its execution time, queued
\* or in hand.
Served(j) == j.got + j.left = execution_time[j.task]
ServiceInv == (\A j \in ready_queue : Served(j)) /\ (Holding => Served(task))

\* Releases and requeueing keep the account.
LEMMA ServiceRelease ==
  ASSUME TypeOK, ServiceInv, Release
  PROVE  \A j \in ready_queue' : Served(j)
  BY NewJobIs DEF Release, ServiceInv, Served

\* A preempted job's account is brought forward.
LEMMA ServiceRequeue ==
  ASSUME TypeInv, ServiceInv, Holding, Requeue
  PROVE  \A j \in ready_queue' : Served(j)
  BY PreemptedIs DEF Requeue, ServiceInv, Served, Preempted

\* So every step keeps the account.
LEMMA ServiceStep ==
  ASSUME TypeInv, ServiceInv, [Next]_vars
  PROVE  ServiceInv'
<1> USE DEF Holding, jobVars, sleepVars, flagVars, countVars
<1>1. CASE CycleTop
  <2>1. \A j \in ready_queue' : Served(j)
    BY <1>1, ServiceRelease DEF CycleTop, TypeInv
  <2> QED
    BY <1>1, <2>1 DEF CycleTop, ServiceInv, Served
<1>2. CASE PopJob
  BY <1>2 DEF PopJob, ServiceInv, Served
<1>3. CASE RunCheck \/ RunEnd \/ AlarmHandled \/ EndCycle \/ WakeUp \/ StopStep
  BY <1>3 DEF RunCheck, RunEnd, AlarmHandled, EndCycle, WakeUp, StopStep, StopAt, ServiceInv,
              Served
<1>4. CASE Poll
  <2>1. \A j \in ready_queue' : Served(j)
    BY <1>4, ServiceRelease DEF Poll, TypeInv
  <2>2. sched_pc = "poll" /\ task' = task
    BY <1>4 DEF Poll
  <2> QED
    BY <2>1, <2>2 DEF ServiceInv, Served
<1>5. CASE Yield \/ Alarm
  <2>1. \A j \in ready_queue' : Served(j)
    BY <1>5, ServiceRequeue DEF Yield, Alarm
  <2> QED
    BY <1>5, <2>1 DEF Yield, Alarm, ServiceInv, Served
<1>6. CASE FlagCritical \/ RaiseShutdown \/ Tick \/ UNCHANGED vars
  BY <1>6 DEF FlagCritical, RaiseShutdown, Tick, vars, ServiceInv, Served
<1> QED
  BY <1>1, <1>2, <1>3, <1>4, <1>5, <1>6 DEF Next, SchedStep

\* ServiceInv holds throughout.
LEMMA AlwaysServed == Spec => []ServiceInv
<1>1. Init => ServiceInv
  BY DEF Init, ServiceInv, Holding
<1>2. TypeInv /\ ServiceInv /\ [Next]_vars => ServiceInv'
  BY ServiceStep
<1> QED
  BY <1>1, <1>2, AlwaysType, PTL DEF Spec

\* Only a job in hand whose time has run out is put among the finished.
LEMMA FinishesInHand ==
  ASSUME [Next]_vars
  PROVE  \/ finished' = finished
         \/ Holding /\ now >= end_time /\ finished' = finished \cup {JobId(task)}
<1> USE DEF Holding, jobVars, sleepVars, flagVars, countVars
<1>1. CASE CycleTop \/ PopJob \/ RunCheck \/ Poll \/ AlarmHandled \/ EndCycle \/ WakeUp
  BY <1>1 DEF CycleTop, PopJob, RunCheck, Poll, AlarmHandled, EndCycle, WakeUp
<1>2. CASE RunEnd \/ Yield \/ Alarm
  BY <1>2 DEF RunEnd, Yield, Alarm, Requeue
<1>3. CASE StopStep \/ FlagCritical \/ RaiseShutdown \/ Tick \/ UNCHANGED vars
  BY <1>3 DEF StopStep, StopAt, FlagCritical, RaiseShutdown, Tick, vars
<1> QED
  BY <1>1, <1>2, <1>3 DEF Next, SchedStep

(* A job ends only after all its execution time in the thread's hands,       *)
(* however often it was preempted, by a job or by the thermal handling.      *)
THEOREM ServiceIsFull == Spec => FullService
<1>1. TypeInv /\ ServiceInv /\ [Next]_vars
        => [\A f \in finished' \ finished :
               task.got + (now - start_time) >= execution_time[f.task]]_vars
  <2> SUFFICES ASSUME TypeInv, ServiceInv, [Next]_vars, NEW f \in finished' \ finished
               PROVE  task.got + (now - start_time) >= execution_time[f.task]
    OBVIOUS
  <2>1. Holding /\ now >= end_time /\ f = JobId(task)
    BY FinishesInHand
  <2>2. task \in Job /\ Served(task) /\ now \in Nat /\ start_time \in Nat
    BY <2>1 DEF TypeInv, TypeOK, ServiceInv
  <2>3. f.task = task.task /\ task.left \in Nat \ {0} /\ task.got \in Nat
    BY <2>1, <2>2, JobIdIs
  <2> QED
    BY <2>1, <2>2, <2>3 DEF Served, end_time
<1> QED
  BY <1>1, AlwaysServed, AlwaysType, PTL DEF Spec, FullService

-----------------------------------------------------------------------------
(* The active time.                                                          *)

\* The time counted ends before the slice or the thermal handling under way
\* begins.
ActiveInv ==
    /\ total_active <= now
    /\ Holding => total_active <= start_time
    /\ sched_pc = "thermal" => total_active + thermal <= wake

\* A slice, or a thermal handling, is counted when it ends, after all that was
\* counted before.
LEMMA ActiveStep ==
  ASSUME TypeInv, ActiveInv, [Next]_vars
  PROVE  ActiveInv'
<1> USE TimesAssumption
        DEF ActiveInv, TypeInv, TypeOK, Holding, jobVars, sleepVars, flagVars, countVars
<1>1. CASE CycleTop \/ RunCheck \/ EndCycle \/ WakeUp
  BY <1>1 DEF CycleTop, RunCheck, EndCycle, WakeUp
<1>2. CASE PopJob
  BY <1>2 DEF PopJob
<1>3. CASE RunEnd
  BY <1>3 DEF RunEnd, exec_duration, Forget
<1>4. CASE Poll
  <2>1. sched_pc' \in {"alarm", "yield", "run"}
    BY <1>4 DEF Poll
  <2>2. sched_pc = "poll" /\ UNCHANGED <<now, jobVars, sleepVars, flagVars, countVars>>
    BY <1>4 DEF Poll
  <2> QED
    BY <2>1, <2>2
<1>5. CASE Yield \/ Alarm
  BY <1>5 DEF Yield, Alarm
<1>6. CASE AlarmHandled
  BY <1>6 DEF AlarmHandled
<1>7. CASE StopStep
  BY <1>7 DEF StopStep, StopAt
<1>8. CASE FlagCritical \/ RaiseShutdown \/ Tick \/ UNCHANGED vars
  BY <1>8 DEF FlagCritical, RaiseShutdown, Tick, vars
<1> QED
  BY <1>1, <1>2, <1>3, <1>4, <1>5, <1>6, <1>7, <1>8 DEF Next, SchedStep

(* TOTAL_ACTIVE_TIME never exceeds the time that has passed: no slice and no *)
(* thermal handling is counted twice or before it is over.                   *)
THEOREM ActiveIsElapsed == Spec => []ActiveWithinElapsed
<1>1. Init => ActiveInv
  BY DEF Init, ActiveInv, Holding
<1>2. TypeInv /\ ActiveInv /\ [Next]_vars => ActiveInv'
  BY ActiveStep
<1>3. ActiveInv => ActiveWithinElapsed
  BY DEF ActiveInv, ActiveWithinElapsed
<1> QED
  BY <1>1, <1>2, <1>3, AlwaysType, PTL DEF Spec

-----------------------------------------------------------------------------
(* Priorities.                                                               *)

\* A priority is a natural number.
LEMMA PriorityType == \A t : Priority(t) \in Nat
<1> SUFFICES ASSUME NEW t PROVE Priority(t) \in Nat
  OBVIOUS
<1>1. IsFiniteSet({u \in SystemTasks : period[u] < period[t]})
  BY TasksAssumption, FS_Subset
<1> QED
  BY <1>1, FS_CardinalityType DEF Priority

\* The job popped is one of the highest, and a poll that releases a higher one
\* yields.
LEMMA HighestStep ==
  ASSUME RunsHighest, [Next]_vars
  PROVE  RunsHighest'
<1> USE DEF RunsHighest, Priority, jobVars, sleepVars, flagVars, countVars
<1>1. CASE PopJob
  BY <1>1 DEF PopJob, NextJob
<1>2. CASE RunCheck
  BY <1>2 DEF RunCheck
<1>3. CASE Poll
  <2>1. sched_pc' = "run" => ~\E j \in ready_queue' : Outranks(j)
    BY <1>3 DEF Poll
  <2>2. task' = task /\ sched_pc' # "poll"
    BY <1>3 DEF Poll
  <2> HIDE DEF Priority
  <2>3. sched_pc' = "run" =>
            \A j \in ready_queue' : Priority(task.task) <= Priority(j.task)
    BY <2>1, PriorityType DEF Outranks
  <2> QED
    BY <2>2, <2>3 DEF Priority
<1>4. CASE \/ CycleTop \/ RunEnd \/ Yield \/ Alarm \/ AlarmHandled \/ EndCycle \/ WakeUp
           \/ StopStep
  BY <1>4 DEF CycleTop, RunEnd, Yield, Alarm, AlarmHandled, EndCycle, WakeUp, StopStep, StopAt
<1>5. CASE FlagCritical \/ RaiseShutdown \/ Tick \/ UNCHANGED vars
  BY <1>5 DEF FlagCritical, RaiseShutdown, Tick, vars
<1> QED
  BY <1>1, <1>2, <1>3, <1>4, <1>5 DEF Next, SchedStep

(* While a job runs no job of a shorter period waits.                        *)
THEOREM HighestRuns == Spec => []RunsHighest
<1>1. Init => RunsHighest
  BY DEF Init, RunsHighest
<1>2. RunsHighest /\ [Next]_vars => RunsHighest'
  BY HighestStep
<1> QED
  BY <1>1, <1>2, PTL DEF Spec

-----------------------------------------------------------------------------
(* The account of the releases.                                              *)

\* No multiple of p lies strictly between 0 and p.
LEMMA NoMultipleBetween ==
  ASSUME NEW p \in Nat \ {0}, NEW k \in Int, 1 <= p * k, p * k < p
  PROVE  FALSE
<1>1. CASE k <= 0
  BY <1>1
<1>2. CASE k >= 1
  BY <1>2
<1> QED
  BY <1>1, <1>2

\* Division with remainder.
LEMMA Division ==
  ASSUME NEW p \in Nat \ {0}, NEW a \in Nat
  PROVE  a = p * (a \div p) + (a % p) /\ a % p \in 0 .. p - 1 /\ a \div p \in Nat
  OBVIOUS

\* After a multiple of p the next one is p further.
LEMMA NextMultiple ==
  ASSUME NEW p \in Nat \ {0}, NEW a \in Nat, a % p = 0, NEW e \in 1 .. p
  PROVE  (a + e) % p = 0 <=> e = p
<1> DEFINE q == a \div p
           r == (a + e) \div p
           m == (a + e) % p
<1>1. a = p * q /\ a + e = p * r + m /\ q \in Nat /\ r \in Nat /\ m \in 0 .. p - 1
  <2>1. a + e \in Nat
    OBVIOUS
  <2>2. a + e = p * r + m /\ r \in Nat /\ m \in 0 .. p - 1
    BY <2>1, Division
  <2>3. a = p * q + (a % p) /\ q \in Nat
    BY Division
  <2> HIDE DEF q
  <2>4. a = p * q
    BY <2>3
  <2> QED
    BY <2>2, <2>3, <2>4
<1> HIDE DEF q, r, m
<1>2. ASSUME m = 0, e # p PROVE FALSE
  <2>1. e = p * r - p * q
    BY <1>1, <1>2
  <2>2. p * r - p * q = p * (r - q)
    BY <1>1
  <2>3. r - q \in Int /\ 1 <= p * (r - q) /\ p * (r - q) < p
    BY <1>1, <1>2, <2>1, <2>2
  <2> QED
    BY <2>3, NoMultipleBetween
<1>3. ASSUME e = p, m # 0 PROVE FALSE
  <2>1. m = p * q + p - p * r
    BY <1>1, <1>3
  <2>2. p * q + p - p * r = p * (q + 1 - r)
    BY <1>1
  <2>3. q + 1 - r \in Int /\ 1 <= p * (q + 1 - r) /\ p * (q + 1 - r) < p
    BY <1>1, <1>3, <2>1, <2>2
  <2> QED
    BY <2>3, NoMultipleBetween
<1> QED
  BY <1>2, <1>3 DEF m

\* The deadlines of t up to n.
DeadlinesTo(t, n) ==
    {d \in 0 .. n : d > first_release[t] /\ (d - first_release[t]) % period[t] = 0}

\* n is the first release of t or some periods later.
OnGrid(t, n) ==
    /\ n \in Nat /\ n >= first_release[t]
    /\ (n - first_release[t]) % period[t] = 0

\* A release a period after the last adds one deadline, a new one.
LEMMA DeadlinesGrow ==
  ASSUME NEW t \in SystemTasks, NEW n, OnGrid(t, n)
  PROVE  /\ OnGrid(t, n + period[t])
         /\ DeadlinesTo(t, n + period[t]) = DeadlinesTo(t, n) \cup {n + period[t]}
         /\ n + period[t] \notin DeadlinesTo(t, n)
<1> DEFINE p == period[t]
           f == first_release[t]
           next == n + p
<1>1. /\ p \in Nat \ {0} /\ f \in Nat /\ n \in Nat /\ n - f \in Nat /\ (n - f) % p = 0
      /\ next \in Nat /\ next = n + p
  BY TasksAssumption DEF OnGrid
<1> HIDE DEF p, f, next
<1>2. ASSUME NEW d \in Nat, n < d, d <= next
      PROVE  (d - f) % p = 0 <=> d = next
  <2> DEFINE a == n - f
             e == d - n
  <2>1. /\ a \in Nat /\ e \in 1 .. p /\ a + e = d - f /\ a % p = 0
        /\ e = p <=> d = next
    BY <1>1, <1>2
  <2> HIDE DEF a, e
  <2>2. (a + e) % p = 0 <=> e = p
    BY <1>1, <2>1, NextMultiple
  <2> QED
    BY <2>1, <2>2
<1>3. (next - f) % p = 0 /\ next > n /\ next > f
  <2>1. next > n /\ next <= next /\ next > f
    BY <1>1
  <2> QED
    BY <1>1, <1>2, <2>1
<1>4. DeadlinesTo(t, next) = DeadlinesTo(t, n) \cup {next}
  <2>1. DeadlinesTo(t, next) = {d \in 0 .. next : d > f /\ (d - f) % p = 0}
    BY DEF DeadlinesTo, p, f
  <2>2. DeadlinesTo(t, n) = {d \in 0 .. n : d > f /\ (d - f) % p = 0}
    BY DEF DeadlinesTo, p, f
  <2>3. ASSUME NEW d \in 0 .. next
        PROVE  d > f /\ (d - f) % p = 0
                 <=> (d \in 0 .. n /\ d > f /\ (d - f) % p = 0) \/ d = next
    BY <1>1, <1>2, <1>3
  <2>4. 0 .. n \subseteq 0 .. next /\ next \in 0 .. next
    BY <1>1, <1>3
  <2>5. ASSUME NEW d PROVE d \in DeadlinesTo(t, next) <=> d \in DeadlinesTo(t, n) \cup {next}
    BY <2>1, <2>2, <2>3, <2>4
  <2> QED
    BY <2>5
<1>5. OnGrid(t, next)
  BY <1>1, <1>3 DEF OnGrid, p, f
<1>6. next \notin DeadlinesTo(t, n)
  BY <1>1, <1>3 DEF DeadlinesTo
<1> QED
  BY <1>4, <1>5, <1>6 DEF next, p

-----------------------------------------------------------------------------
\* The deadlines released so far are divided between the heap, which has one job
\* for each of its own, the thread's hands and the jobs that are over.
Divided(t, n, queue, hand, over) ==
    /\ OnGrid(t, n)
    /\ LET q == {j.deadline : j \in queue}
           h == {j.deadline : j \in hand}
           o == {f.deadline : f \in over}
       IN  /\ q \cup h \cup o = DeadlinesTo(t, n)
           /\ q \cap h = {} /\ q \cap o = {} /\ h \cap o = {}
    /\ \A j, k \in queue : j.deadline = k.deadline => j = k

Account(t) == Divided(t, next_release[t], Queued(t), InHand(t), Over(t))
AccountInv == sched_pc # "ended" => \A t \in SystemTasks : Account(t)

\* A period later there is one more job to account for.
LEMMA JobReleased ==
  ASSUME NEW t \in SystemTasks, NEW n, NEW queue, NEW hand, NEW over,
         Divided(t, n, queue, hand, over), NEW j, j.deadline = n + period[t]
  PROVE  Divided(t, n + period[t], queue \cup {j}, hand, over)
<1> DEFINE q == {i.deadline : i \in queue}
           h == {i.deadline : i \in hand}
           o == {f.deadline : f \in over}
           d == n + period[t]
<1>1. /\ OnGrid(t, n) /\ q \cup h \cup o = DeadlinesTo(t, n)
      /\ q \cap h = {} /\ q \cap o = {} /\ h \cap o = {}
      /\ \A i, k \in queue : i.deadline = k.deadline => i = k
  BY DEF Divided
<1>2. {i.deadline : i \in queue \cup {j}} = q \cup {d}
  OBVIOUS
<1>3. \A i \in queue : i.deadline \in q
  OBVIOUS
<1> HIDE DEF q, h, o, d
<1>4. OnGrid(t, d) /\ DeadlinesTo(t, d) = DeadlinesTo(t, n) \cup {d} /\ d \notin DeadlinesTo(t, n)
  BY <1>1, DeadlinesGrow DEF d
<1>5. /\ (q \cup {d}) \cup h \cup o = DeadlinesTo(t, d)
      /\ (q \cup {d}) \cap h = {} /\ (q \cup {d}) \cap o = {}
  BY <1>1, <1>4
<1>6. \A i, k \in queue \cup {j} : i.deadline = k.deadline => i = k
  BY <1>1, <1>3, <1>4 DEF d
<1> QED
  BY <1>1, <1>2, <1>4, <1>5, <1>6 DEF Divided, h, o, d

\* The thread takes a job from the heap,
LEMMA JobTaken ==
  ASSUME NEW t \in SystemTasks, NEW n, NEW queue, NEW hand, NEW over,
         Divided(t, n, queue, hand, over), NEW j \in queue, hand = {}
  PROVE  Divided(t, n, queue \ {j}, {j}, over)
  BY DEF Divided

\* puts it back with the same deadline,
LEMMA JobPutBack ==
  ASSUME NEW t \in SystemTasks, NEW n, NEW queue, NEW hand, NEW over,
         Divided(t, n, queue, hand, over), NEW j, NEW k, hand = {j}, k.deadline = j.deadline
  PROVE  Divided(t, n, queue \cup {k}, {}, over)
  BY DEF Divided

\* or is done with it.
LEMMA JobOver ==
  ASSUME NEW t \in SystemTasks, NEW n, NEW queue, NEW hand, NEW over,
         Divided(t, n, queue, hand, over), NEW j, NEW k, hand = {j}, k.deadline = j.deadline
  PROVE  Divided(t, n, queue, {}, over \cup {k})
  BY DEF Divided

\* A step that moves no job.
LEMMA AccountSame ==
  ASSUME AccountInv, sched_pc # "ended", UNCHANGED <<next_release, ready_queue, finished>>,
         (~Holding /\ ~Holding') \/ (Holding /\ Holding' /\ task' = task)
  PROVE  AccountInv'
<1>1. ASSUME NEW t \in SystemTasks
      PROVE  Queued(t)' = Queued(t) /\ InHand(t)' = InHand(t) /\ Over(t)' = Over(t)
  BY DEF Queued, InHand, Over
<1> QED
  BY <1>1 DEF AccountInv, Account

\* A release accounts for one deadline more of each task that was due,
LEMMA AccountRelease ==
  ASSUME TypeInv, AccountInv, sched_pc # "ended", Release, finished' = finished,
         (~Holding /\ ~Holding') \/ (Holding /\ Holding' /\ task' = task)
  PROVE  AccountInv'
<1> SUFFICES ASSUME NEW t \in SystemTasks PROVE Account(t)'
  BY DEF AccountInv
<1>1. InHand(t)' = InHand(t) /\ Over(t)' = Over(t)
  BY DEF InHand, Over
<1>2. Divided(t, next_release[t], Queued(t), InHand(t), Over(t))
  BY DEF AccountInv, Account
<1>3. /\ ready_queue' = ready_queue \cup {NewJob(u) : u \in {v \in SystemTasks : Due(v)}}
      /\ next_release'[t] = NextRelease(t)
  BY DEF Release
<1>4. \A u \in SystemTasks : NewJob(u).task = u
  BY NewJobIs DEF TypeInv
<1>5. CASE Due(t)
  <2>1. Queued(t)' = Queued(t) \cup {NewJob(t)}
    BY <1>3, <1>4, <1>5 DEF Queued
  <2>2. NewJob(t).deadline = next_release[t] + period[t]
    BY NewJobIs DEF TypeInv
  <2>3. next_release'[t] = next_release[t] + period[t]
    BY <1>3, <1>5 DEF NextRelease
  <2>4. Divided(t, next_release[t] + period[t], Queued(t) \cup {NewJob(t)}, InHand(t), Over(t))
    BY <1>2, <2>2, JobReleased
  <2> QED
    BY <1>1, <2>1, <2>3, <2>4 DEF Account
<1>6. CASE ~Due(t)
  <2>1. Queued(t)' = Queued(t)
    BY <1>3, <1>4, <1>6 DEF Queued
  <2>2. next_release'[t] = next_release[t]
    BY <1>3, <1>6 DEF NextRelease
  <2> QED
    BY <1>1, <1>2, <2>1, <2>2 DEF Account
<1> QED
  BY <1>5, <1>6

\* the pop takes a job in hand,
LEMMA AccountPop ==
  ASSUME AccountInv, PopJob
  PROVE  AccountInv'
<1> SUFFICES ASSUME NEW t \in SystemTasks PROVE Account(t)'
  BY DEF AccountInv
<1>1. PICK j \in ready_queue : ready_queue' = ready_queue \ {j} /\ task' = j
  BY DEF PopJob
<1>2. /\ ~Holding /\ Holding' /\ sched_pc # "ended"
      /\ UNCHANGED <<next_release, finished>>
  BY DEF PopJob, Holding
<1>3. Divided(t, next_release[t], Queued(t), InHand(t), Over(t))
  BY <1>2 DEF AccountInv, Account
<1>4. InHand(t) = {} /\ Over(t)' = Over(t)
  BY <1>2 DEF InHand, Over
<1>5. CASE j.task = t
  <2>1. Queued(t)' = Queued(t) \ {j} /\ j \in Queued(t) /\ InHand(t)' = {j}
    BY <1>1, <1>2, <1>5 DEF Queued, InHand
  <2>2. Divided(t, next_release[t], Queued(t) \ {j}, {j}, Over(t))
    BY <1>3, <1>4, <2>1, JobTaken
  <2> QED
    BY <1>2, <1>4, <2>1, <2>2 DEF Account
<1>6. CASE j.task # t
  <2>1. Queued(t)' = Queued(t) /\ InHand(t)' = {}
    BY <1>1, <1>2, <1>6 DEF Queued, InHand
  <2> QED
    BY <1>2, <1>3, <1>4, <2>1 DEF Account
<1> QED
  BY <1>5, <1>6

\* The job in hand is put back, or is over.
LEMMA AccountRequeue ==
  ASSUME TypeInv, AccountInv, Holding, ~Holding', next_release' = next_release,
         \/ now < end_time /\ ready_queue' = ready_queue \cup {Preempted} /\ finished' = finished
         \/ finished' = finished \cup {JobId(task)} /\ ready_queue' = ready_queue
  PROVE  AccountInv'
<1> SUFFICES ASSUME NEW t \in SystemTasks PROVE Account(t)'
  BY DEF AccountInv
<1>1. Divided(t, next_release[t], Queued(t), InHand(t), Over(t)) /\ task \in Job
  BY DEF AccountInv, Account, Holding, TypeInv, TypeOK
<1>2. InHand(t)' = {}
  BY DEF InHand
<1>3. CASE now < end_time /\ ready_queue' = ready_queue \cup {Preempted} /\ finished' = finished
  <2>1. Preempted.task = task.task /\ Preempted.deadline = task.deadline
    BY <1>3, PreemptedIs
  <2>2. Over(t)' = Over(t)
    BY <1>3 DEF Over
  <2>3. CASE task.task = t
    <3>1. Queued(t)' = Queued(t) \cup {Preempted} /\ InHand(t) = {task}
      BY <1>3, <2>1, <2>3 DEF Queued, InHand
    <3>2. Divided(t, next_release[t], Queued(t) \cup {Preempted}, {}, Over(t))
      BY <1>1, <2>1, <3>1, JobPutBack
    <3> QED
      BY <1>2, <2>2, <3>1, <3>2 DEF Account
  <2>4. CASE task.task # t
    <3>1. Queued(t)' = Queued(t) /\ InHand(t) = {}
      BY <1>3, <2>1, <2>4 DEF Queued, InHand
    <3> QED
      BY <1>1, <1>2, <2>2, <3>1 DEF Account
  <2> QED
    BY <2>3, <2>4
<1>4. CASE finished' = finished \cup {JobId(task)} /\ ready_queue' = ready_queue
  <2>1. JobId(task).task = task.task /\ JobId(task).deadline = task.deadline
    BY <1>1, JobIdIs
  <2>2. Queued(t)' = Queued(t)
    BY <1>4 DEF Queued
  <2>3. CASE task.task = t
    <3>1. Over(t)' = Over(t) \cup {JobId(task)} /\ InHand(t) = {task}
      BY <1>4, <2>1, <2>3 DEF Over, InHand
    <3>2. Divided(t, next_release[t], Queued(t), {}, Over(t) \cup {JobId(task)})
      BY <1>1, <2>1, <3>1, JobOver
    <3> QED
      BY <1>2, <2>2, <3>1, <3>2 DEF Account
  <2>4. CASE task.task # t
    <3>1. Over(t)' = Over(t) /\ InHand(t) = {}
      BY <1>4, <2>1, <2>4 DEF Over, InHand
    <3> QED
      BY <1>1, <1>2, <2>2, <3>1 DEF Account
  <2> QED
    BY <2>3, <2>4
<1> QED
  BY <1>3, <1>4

\* and every step moves a job or leaves all where they are.
LEMMA AccountStep ==
  ASSUME TypeInv, AccountInv, [Next]_vars
  PROVE  AccountInv'
<1> USE DEF jobVars, sleepVars, flagVars, countVars
<1>1. CASE CycleTop
  <2>1. Release /\ finished' = finished /\ ~Holding /\ ~Holding' /\ sched_pc # "ended"
    BY <1>1 DEF CycleTop, Holding
  <2> QED
    BY <2>1, AccountRelease
<1>2. CASE PopJob
  BY <1>2, AccountPop
<1>3. CASE RunCheck
  BY <1>3, AccountSame DEF RunCheck, Holding
<1>4. CASE Poll
  <2>1. Release /\ finished' = finished /\ sched_pc = "poll" /\ task' = task
    BY <1>4 DEF Poll
  <2>2. sched_pc' \in {"alarm", "yield", "run"}
    BY <1>4 DEF Poll
  <2>3. Holding /\ Holding' /\ sched_pc # "ended"
    BY <2>1, <2>2 DEF Holding
  <2> QED
    BY <2>1, <2>3, AccountRelease
<1>5. CASE RunEnd \/ Yield \/ Alarm
  <2>1. Holding /\ ~Holding' /\ next_release' = next_release
    BY <1>5 DEF RunEnd, Yield, Alarm, Holding
  <2>2. \/ now < end_time /\ ready_queue' = ready_queue \cup {Preempted} /\ finished' = finished
        \/ finished' = finished \cup {JobId(task)} /\ ready_queue' = ready_queue
    BY <1>5 DEF RunEnd, Yield, Alarm, Requeue, Preempted
  <2> QED
    BY <2>1, <2>2, AccountRequeue
<1>6. CASE AlarmHandled \/ EndCycle \/ WakeUp
  BY <1>6, AccountSame DEF AlarmHandled, EndCycle, WakeUp, Holding
<1>7. CASE StopStep
  BY <1>7 DEF StopStep, StopAt, AccountInv
<1>8. CASE FlagCritical \/ RaiseShutdown \/ Tick \/ UNCHANGED vars
  <2>1. UNCHANGED <<sched_pc, task, next_release, ready_queue, finished>>
    BY <1>8 DEF FlagCritical, RaiseShutdown, Tick, vars
  <2>2. CASE sched_pc = "ended"
    BY <2>1, <2>2 DEF AccountInv
  <2>3. CASE sched_pc # "ended"
    BY <2>1, <2>3, AccountSame DEF Holding
  <2> QED
    BY <2>2, <2>3
<1> QED
  BY <1>1, <1>2, <1>3, <1>4, <1>5, <1>6, <1>7, <1>8 DEF Next, SchedStep

\* AccountInv holds throughout.
LEMMA AlwaysAccounted == Spec => []AccountInv
<1>1. Init => AccountInv
  <2> SUFFICES ASSUME Init, NEW t \in SystemTasks PROVE Account(t)
    BY DEF AccountInv
  <2>1. Queued(t) = {} /\ InHand(t) = {} /\ Over(t) = {}
    BY DEF Init, Queued, InHand, Over, Holding
  <2>2. next_release[t] = first_release[t] /\ first_release[t] \in Nat /\ period[t] \in Nat \ {0}
    BY TasksAssumption DEF Init
  <2>3. OnGrid(t, next_release[t])
    BY <2>2 DEF OnGrid
  <2>4. DeadlinesTo(t, next_release[t]) = {}
    BY <2>2 DEF DeadlinesTo
  <2> QED
    BY <2>1, <2>3, <2>4 DEF Account, Divided
<1>2. TypeInv /\ AccountInv /\ [Next]_vars => AccountInv'
  BY AccountStep
<1> QED
  BY <1>1, <1>2, AlwaysType, PTL DEF Spec

\* Things told apart by their deadlines are as many as their deadlines.
LEMMA CountByDeadline ==
  ASSUME NEW S, IsFiniteSet({j.deadline : j \in S}),
         \A j, k \in S : j.deadline = k.deadline => j = k
  PROVE  IsFiniteSet(S) /\ Cardinality(S) = Cardinality({j.deadline : j \in S})
<1> DEFINE T == {j.deadline : j \in S}
           f == [j \in S |-> j.deadline]
<1>1. f \in Injection(S, T) /\ f \in Surjection(S, T)
  BY DEF Injection, Surjection, IsInjective
<1> HIDE DEF f
<1>2. IsFiniteSet(T)
  OBVIOUS
<1> HIDE DEF T
<1>3. IsFiniteSet(S) /\ Cardinality(S) = Cardinality(T)
  BY <1>1, <1>2, FS_Injection
<1> QED
  BY <1>3 DEF T

\* Three disjoint finite sets.
LEMMA CountParts ==
  ASSUME NEW q, NEW h, NEW o, IsFiniteSet(q), IsFiniteSet(h), IsFiniteSet(o),
         q \cap h = {}, q \cap o = {}, h \cap o = {}
  PROVE  Cardinality(q \cup h \cup o) = Cardinality(q) + Cardinality(h) + Cardinality(o)
<1>1. /\ IsFiniteSet(q \cup h)
      /\ Cardinality(q \cup h) = Cardinality(q) + Cardinality(h) - Cardinality({})
  BY FS_Union
<1>2. (q \cup h) \cap o = {}
  OBVIOUS
<1>3. Cardinality((q \cup h) \cup o) = Cardinality(q \cup h) + Cardinality(o) - Cardinality({})
  BY <1>1, <1>2, FS_Union
<1>4. /\ Cardinality({}) = 0 /\ Cardinality(q) \in Nat /\ Cardinality(h) \in Nat
      /\ Cardinality(o) \in Nat
  BY FS_EmptySet, FS_CardinalityType
<1> QED
  BY <1>1, <1>3, <1>4

(* Every period of every task has exactly one job, in exactly one place: the *)
(* heap, the thread's hands or over.  However late the thread is and however *)
(* often it preempts, no job is lost, doubled or moved to another deadline,  *)
(* and no period is skipped.                                                 *)
THEOREM EveryReleaseAccounted == Spec => []ReleasesAccounted
<1>1. TypeInv /\ AccountInv => ReleasesAccounted
  <2> SUFFICES ASSUME TypeInv, AccountInv, sched_pc # "ended", NEW t \in SystemTasks
               PROVE  /\ {j.deadline : j \in Queued(t) \cup InHand(t) \cup Over(t)} = Deadlines(t)
                      /\ Cardinality(Queued(t)) + Cardinality(InHand(t)) + Cardinality(Over(t))
                           = Cardinality(Deadlines(t))
    BY DEF ReleasesAccounted
  <2> DEFINE q == {j.deadline : j \in Queued(t)}
             h == {j.deadline : j \in InHand(t)}
             o == {f.deadline : f \in Over(t)}
  <2>1. Divided(t, next_release[t], Queued(t), InHand(t), Over(t))
    BY DEF AccountInv, Account
  <2>2. /\ q \cup h \cup o = DeadlinesTo(t, next_release[t])
        /\ q \cap h = {} /\ q \cap o = {} /\ h \cap o = {}
        /\ \A j, k \in Queued(t) : j.deadline = k.deadline => j = k
        /\ next_release[t] \in Nat
    BY <2>1 DEF Divided, OnGrid
  <2>3. Deadlines(t) = DeadlinesTo(t, next_release[t])
    BY DEF Deadlines, DeadlinesTo
  <2>4. {j.deadline : j \in Queued(t) \cup InHand(t) \cup Over(t)} = q \cup h \cup o
    OBVIOUS
  <2>5. \A j, k \in InHand(t) : j.deadline = k.deadline => j = k
    BY DEF InHand
  <2>6. \A j, k \in Over(t) : j.deadline = k.deadline => j = k
    BY DEF Over, TypeInv, TypeOK
  <2>7. IsFiniteSet(q) /\ IsFiniteSet(h) /\ IsFiniteSet(o)
    <3> HIDE DEF q, h, o
    <3>1. IsFiniteSet(0 .. next_release[t])
      BY <2>2, FS_Interval
    <3>2. DeadlinesTo(t, next_release[t]) \subseteq 0 .. next_release[t]
      BY DEF DeadlinesTo
    <3>3. q \subseteq 0 .. next_release[t] /\ h \subseteq 0 .. next_release[t]
          /\ o \subseteq 0 .. next_release[t]
      BY <2>2, <3>2
    <3> QED
      BY <3>1, <3>3, FS_Subset
  <2>8. /\ Cardinality(Queued(t)) = Cardinality(q)
        /\ Cardinality(InHand(t)) = Cardinality(h)
        /\ Cardinality(Over(t)) = Cardinality(o)
    BY <2>2, <2>5, <2>6, <2>7, CountByDeadline
  <2> HIDE DEF q, h, o
  <2>9. Cardinality(q \cup h \cup o) = Cardinality(q) + Cardinality(h) + Cardinality(o)
    BY <2>2, <2>7, CountParts
  <2> QED
    BY <2>2, <2>3, <2>4, <2>8, <2>9
<1> QED
  BY <1>1, AlwaysAccounted, AlwaysType, PTL
=============================================================================
