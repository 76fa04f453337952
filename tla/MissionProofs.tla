---------------------------- MODULE MissionProofs ----------------------------
(* What holds of a mission for every duration, period and limit the          *)
(* assumptions of Mission allow, however long the threads take.              *)
EXTENDS Mission, TLAPS

\* Every frame that arrived is in one place at most: counted as a failure in a
\* row, being decoded or queued.
FailuresCounted ==
    consecutive_failures + Len(telemetry_q) + (IF telemetry_pc = "decode" THEN 1 ELSE 0)
        <= arrived

TypeInv == TypeOK /\ FailuresCounted

\* What receiving a frame leaves.
LEMMA QueueTail ==
  ASSUME NEW q \in Seq(FrameKind), q # << >>
  PROVE  Head(q) \in FrameKind /\ Tail(q) \in Seq(FrameKind) /\ Len(Tail(q)) = Len(q) - 1
         /\ Len(q) \in Nat
  OBVIOUS

\* The types hold at the start,
LEMMA InitType == Init => TypeInv
<1> SUFFICES ASSUME Init PROVE TypeInv
  OBVIOUS
<1> USE TimesAssumption, BoundsAssumption DEF Init
<1>1. telemetry_q = << >> /\ Len(telemetry_q) = 0 /\ telemetry_q \in Seq(FrameKind)
  OBVIOUS
<1>2. FailuresCounted
  BY <1>1 DEF FailuresCounted
<1>3. {main_sleep, injector_sleep, periodic_sleep, recovery_time} \subseteq Nat
  OBVIOUS
<1>4. sensor_faults \subseteq SensorNames /\ frame \in FrameKind
  BY DEF FrameKind
<1>5. shutdown_flag \in BOOLEAN /\ contact_lost \in BOOLEAN
  OBVIOUS
<1>6. /\ elapsed \in 0 .. total_duration /\ last_packets_processed \in 0 .. packets_processed
      /\ packets_processed \in Nat /\ consecutive_failures \in 0 .. arrived
      /\ consecutive_missing_packets \in Nat /\ arrived \in 0 .. MaxFrames
      /\ injections \in Nat /\ strikes \in 0 .. 3 /\ silent \in 0 .. 3
      /\ Len(telemetry_q) <= arrived
  BY <1>1
<1>7. main_pc = "top" /\ injector_pc = "top" /\ telemetry_pc = "recv"
  OBVIOUS
<1>8. TypeOK
  <2> HIDE DEF Init
  <2> QED
    BY <1>1, <1>3, <1>4, <1>5, <1>6, <1>7 DEF TypeOK
<1> QED
  BY <1>2, <1>8 DEF TypeInv

\* are kept by every step,
LEMMA NextType == TypeInv /\ [Next]_vars => TypeInv'
<1> SUFFICES ASSUME TypeInv, [Next]_vars PROVE TypeInv'
  OBVIOUS
<1> USE TimesAssumption, BoundsAssumption
        DEF TypeInv, TypeOK, FailuresCounted, mainVars, injectorVars, periodicVars,
            telemetryVars, contact, history
<1>1. CASE MainTurn \/ MainWake \/ MainLeaves \/ MainReturns
  BY <1>1 DEF MainTurn, MainWake, MainLeaves, MainReturns
<1>2. CASE MainBump
  <2>1. packets_processed' \in Nat /\ last_packets_processed' \in 0 .. packets_processed'
    BY <1>2 DEF MainBump
  <2>2. {main_sleep, injector_sleep, periodic_sleep, recovery_time}' \subseteq Nat
    BY <1>2 DEF MainBump
  <2> QED
    BY <1>2, <2>1, <2>2 DEF MainBump
<1>3. CASE InjectorTop
  BY <1>3 DEF InjectorTop
<1>4. CASE InjectFaults
  BY <1>4 DEF InjectFaults
<1>5. CASE ClearFaults
  BY <1>5 DEF ClearFaults, Cleared
<1>6. CASE JudgeRecovery
  BY <1>6 DEF JudgeRecovery
<1>7. CASE TelReceive
  BY <1>7, QueueTail DEF TelReceive
<1>8. CASE record_telemetry_latency_and_jitter
  <2>0. contact_lost' \in BOOLEAN
    BY <1>8 DEF record_telemetry_latency_and_jitter, Recovered
  <2>1. /\ consecutive_failures' = 0 /\ consecutive_missing_packets' = 0
        /\ strikes' = 0 /\ silent' = 0
        /\ telemetry_pc = "decode" /\ telemetry_pc' = "recv" /\ frame' = "good"
        /\ UNCHANGED <<elapsed, mainVars, shutdown_flag, injectorVars, periodicVars, telemetry_q,
                       arrived, packets_processed>>
    BY <1>8 DEF record_telemetry_latency_and_jitter, Recovered
  <2>2. FailuresCounted'
    BY <2>1
  <2>3. TypeOK'
    BY <2>0, <2>1 DEF FrameKind
  <2> QED
    BY <2>2, <2>3
<1>9. CASE record_missing_telemetry
  BY <1>9 DEF record_missing_telemetry, Missed, Again, FrameKind
<1>10. CASE CheckIdle
  BY <1>10 DEF CheckIdle, Missed, Again
<1>11. CASE CheckProgress
  <2>0. contact_lost' \in BOOLEAN
    BY <1>11 DEF CheckProgress, Recovered
  <2>1. /\ consecutive_missing_packets' = 0
        /\ silent' \in 0 .. 3 /\ periodic_sleep' = expected_interval
        /\ last_packets_processed' = packets_processed
        /\ UNCHANGED <<elapsed, mainVars, shutdown_flag, injectorVars, telemetryVars,
                       packets_processed, strikes>>
    BY <1>11 DEF CheckProgress, Recovered, Again
  <2>2. {main_sleep, injector_sleep, periodic_sleep, recovery_time}' \subseteq Nat
    BY <2>1
  <2> QED
    BY <2>0, <2>1, <2>2
<1>12. CASE Tick
  BY <1>12 DEF Tick, UpTo, Left
<1>13. ASSUME NEW kind \in FrameKind, Arrive(kind) PROVE TypeInv'
  <2>1. /\ Append(telemetry_q, kind) \in Seq(FrameKind)
        /\ Len(Append(telemetry_q, kind)) = Len(telemetry_q) + 1
    OBVIOUS
  <2> QED
    BY <1>13, <2>1 DEF Arrive
<1>14. CASE UNCHANGED vars
  BY <1>14 DEF vars
<1> QED
  BY <1>1, <1>2, <1>3, <1>4, <1>5, <1>6, <1>7, <1>8, <1>9, <1>10, <1>11, <1>12, <1>13, <1>14
     DEF Next, Main, Injector, Telemetry, Periodic

\* and hold throughout.
LEMMA AlwaysType == Spec => []TypeInv
  BY InitType, NextType, PTL DEF Spec

(* Every variable keeps its type; in particular the periodic check's last    *)
(* count never passes main's counter, and telemetry never counts more        *)
(* failures in a row than frames arrived.                                    *)
THEOREM TypeCorrect == Spec => []TypeOK
  BY AlwaysType, PTL DEF TypeInv

-----------------------------------------------------------------------------
(* The contact.                                                              *)

\* The packets and checks missed in a row have all been failures since the last
\* good frame: what progress of main's counter resets, the history keeps.
MissedAreStrikes == strikes = 3 \/ consecutive_missing_packets <= strikes

ContactInv == LostIsThree /\ MissedAreStrikes

\* A failure adds to both counts, a good frame clears both, progress of main's
\* counter clears the missed ones only.
LEMMA ContactStep ==
  ASSUME TypeOK, ContactInv, [Next]_vars
  PROVE  ContactInv'
<1> USE DEF ContactInv, LostIsThree, MissedAreStrikes, contact, history
<1>0. consecutive_missing_packets \in Nat /\ strikes \in 0 .. 3 /\ contact_lost \in BOOLEAN
  BY DEF TypeOK
<1>1. CASE UNCHANGED <<contact, strikes>>
  BY <1>1
<1>2. CASE MainTurn \/ MainBump \/ MainWake \/ MainLeaves \/ MainReturns
  BY <1>2, <1>1 DEF MainTurn, MainBump, MainWake, MainLeaves, MainReturns
<1>3. CASE InjectorTop \/ InjectFaults \/ ClearFaults \/ JudgeRecovery
  BY <1>3, <1>1 DEF InjectorTop, InjectFaults, ClearFaults, JudgeRecovery
<1>4. CASE TelReceive \/ Tick \/ UNCHANGED vars \/ \E kind \in FrameKind : Arrive(kind)
  BY <1>4, <1>1 DEF TelReceive, Tick, vars, Arrive
<1>5. CASE record_telemetry_latency_and_jitter
  BY <1>0, <1>5 DEF record_telemetry_latency_and_jitter, Recovered
<1>6. CASE record_missing_telemetry
  <2>1. /\ consecutive_missing_packets' = consecutive_missing_packets + 1
        /\ contact_lost' = (contact_lost \/ consecutive_missing_packets' >= 3)
        /\ strikes' = IF strikes < 3 THEN strikes + 1 ELSE strikes
    BY <1>6 DEF record_missing_telemetry, Missed, Again
  <2>2. contact_lost' <=> consecutive_missing_packets' >= 3
    <3>1. CASE contact_lost
      <4>1. contact_lost'
        BY <2>1, <3>1
      <4>2. consecutive_missing_packets' >= 3
        BY <1>0, <2>1, <3>1
      <4> QED
        BY <4>1, <4>2
    <3>2. CASE ~contact_lost
      BY <1>0, <2>1, <3>2
    <3> QED
      BY <3>1, <3>2
  <2>3. MissedAreStrikes'
    BY <1>0, <2>1
  <2> QED
    BY <2>2, <2>3
<1>7. CASE CheckIdle
  <2>1. /\ consecutive_missing_packets' = consecutive_missing_packets + 1
        /\ contact_lost' = (contact_lost \/ consecutive_missing_packets' >= 3)
        /\ strikes' = IF strikes < 3 THEN strikes + 1 ELSE strikes
    BY <1>7 DEF CheckIdle, Missed, Again
  <2>2. contact_lost' <=> consecutive_missing_packets' >= 3
    <3>1. CASE contact_lost
      <4>1. contact_lost'
        BY <2>1, <3>1
      <4>2. consecutive_missing_packets' >= 3
        BY <1>0, <2>1, <3>1
      <4> QED
        BY <4>1, <4>2
    <3>2. CASE ~contact_lost
      BY <1>0, <2>1, <3>2
    <3> QED
      BY <3>1, <3>2
  <2>3. MissedAreStrikes'
    BY <1>0, <2>1
  <2> QED
    BY <2>2, <2>3
<1>8. CASE CheckProgress
  BY <1>0, <1>8 DEF CheckProgress, Recovered
<1> QED
  BY <1>2, <1>3, <1>4, <1>5, <1>6, <1>7, <1>8
     DEF Next, Main, Injector, Telemetry, Periodic

\* ContactInv holds throughout.
LEMMA AlwaysContact == Spec => []ContactInv
<1>1. Init => ContactInv
  BY DEF Init, ContactInv, LostIsThree, MissedAreStrikes
<1>2. TypeOK /\ ContactInv /\ [Next]_vars => ContactInv'
  BY ContactStep
<1> QED
  BY <1>1, <1>2, TypeCorrect, PTL DEF Spec

(* Two threads write the verdict and the count, each on its own clock, and   *)
(* the verdict is the count's at all times.                                  *)
THEOREM VerdictIsCount == Spec => []LostIsThree
  BY AlwaysContact, PTL DEF ContactInv

(* No loss of contact is ever declared on fewer than three failed frames or  *)
(* idle checks since the last good frame.                                    *)
THEOREM LossIsSilence == Spec => []LostMeansSilence
<1>1. TypeOK /\ ContactInv => LostMeansSilence
  BY DEF TypeOK, ContactInv, LostIsThree, MissedAreStrikes, LostMeansSilence
<1> QED
  BY <1>1, AlwaysContact, TypeCorrect, PTL

-----------------------------------------------------------------------------
(* The abort.                                                                *)

\* Time d has passed by the end of the sleep the injector is in, if the mission's
\* time is not over: elapsed is followed no further.
Waited(d) == elapsed + injector_sleep >= d \/ elapsed = total_duration

\* Where the sensor-fault thread is tells what it has done and what time that has
\* taken.  It never comes back to its top: the faults outlast the recovery limit.
InjectorHistory ==
    /\ injector_pc \in {"top", "sleep"} => injections = 0 /\ sensor_faults = {}
    /\ injector_pc = "sleep" => Waited(FaultPeriod)
    /\ injector_pc = "hold" =>
          /\ injections = 1
          /\ Waited(FaultPeriod + FaultDuration)
          /\ recovery_time > RecoveryLimit \/ recovery_time + injector_sleep >= FaultDuration
    /\ injector_pc = "judge" =>
          injections = 1 /\ sensor_faults = {} /\ recovery_time > RecoveryLimit
    /\ injector_pc \in {"judge", "ended"} =>
          elapsed >= FaultPeriod + FaultDuration \/ elapsed = total_duration
    /\ injector_pc = "ended" =>
          /\ sensor_faults = {}
          /\ injections = 1 \/ (injections = 0 /\ elapsed = total_duration)

\* Nobody but that thread, at its end, shuts a mission down before its time.
ShutdownOrigin == shutdown_flag => injector_pc = "ended" \/ elapsed = total_duration

AbortInv == InjectorHistory /\ ShutdownOrigin

\* Every step of the sensor-fault thread takes it from one clause to the next.
LEMMA AbortStep ==
  ASSUME TypeOK, AbortInv, [Next]_vars
  PROVE  AbortInv'
<1> USE TimesAssumption DEF AbortInv, InjectorHistory, ShutdownOrigin, Waited
<1>0. /\ elapsed \in Nat /\ elapsed <= total_duration
      /\ injector_sleep \in Nat /\ recovery_time \in Nat
  BY DEF TypeOK
<1>1. ASSUME UNCHANGED <<elapsed, injectorVars>>, shutdown_flag' = shutdown_flag
      PROVE  AbortInv'
  BY <1>1 DEF injectorVars
<1>2. CASE MainTurn \/ MainBump \/ MainWake \/ MainReturns
  BY <1>2, <1>1 DEF MainTurn, MainBump, MainWake, MainReturns
<1>3. CASE MainLeaves
  BY <1>0, <1>3 DEF MainLeaves, MissionGoesOn, injectorVars
<1>4. CASE InjectorTop
  BY <1>0, <1>4 DEF InjectorTop
<1>5. CASE InjectFaults
  BY <1>0, <1>5 DEF InjectFaults
<1>6. CASE ClearFaults
  BY <1>0, <1>6 DEF ClearFaults, Cleared
<1>7. CASE JudgeRecovery
  BY <1>0, <1>7 DEF JudgeRecovery, TooSlow
<1>8. CASE Telemetry \/ Periodic \/ \E kind \in FrameKind : Arrive(kind)
  BY <1>8, <1>1
     DEF Telemetry, TelReceive, record_telemetry_latency_and_jitter, record_missing_telemetry,
         Periodic, CheckIdle, CheckProgress, Arrive
<1>9. CASE Tick
  BY <1>0, <1>9 DEF Tick, UpTo, Left
<1>10. CASE UNCHANGED vars
  BY <1>10, <1>1 DEF vars
<1> QED
  BY <1>2, <1>3, <1>4, <1>5, <1>6, <1>7, <1>8, <1>9, <1>10 DEF Next, Main, Injector

\* AbortInv holds throughout.
LEMMA AlwaysAbort == Spec => []AbortInv
<1>1. Init => AbortInv
  BY DEF Init, AbortInv, InjectorHistory, ShutdownOrigin
<1>2. TypeOK /\ AbortInv /\ [Next]_vars => AbortInv'
  BY AbortStep
<1> QED
  BY <1>1, <1>2, TypeCorrect, PTL DEF Spec

(* A mission that ends before its time was ended by the sensor-fault thread, *)
(* after its one injection, its full sleep and fault, and with every sensor  *)
(* recovered; there is never a second injection.                             *)
THEOREM AbortOnlyAfterRecovery == Spec => []AbortAfterRecovery
<1>1. TypeOK /\ AbortInv => AbortAfterRecovery
  BY TimesAssumption
     DEF TypeOK, AbortInv, InjectorHistory, ShutdownOrigin, AbortAfterRecovery
<1> QED
  BY <1>1, AlwaysAbort, TypeCorrect, PTL

(* In a mission no longer than the first sleep and fault, such as the 30 s   *)
(* against 60 s of the program as shipped, nothing is ever shut down before  *)
(* the mission's time is over.                                               *)
THEOREM ShortMissionsLast ==
  ASSUME total_duration <= FaultPeriod + FaultDuration
  PROVE  Spec => [](shutdown_flag => elapsed = total_duration)
<1>1. TypeOK /\ AbortInv => (shutdown_flag => elapsed = total_duration)
  BY TimesAssumption DEF TypeOK, AbortInv, InjectorHistory, ShutdownOrigin
<1> QED
  BY <1>1, AlwaysAbort, TypeCorrect, PTL
=============================================================================
