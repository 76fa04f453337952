--------------------------- MODULE DownlinkProofs ----------------------------
(* Theorems about Downlink, for every value of its constants.               *)
EXTENDS Downlink, TLAPS

-----------------------------------------------------------------------------
(* Sequences as channels: what sending and receiving return, and that a      *)
(* message handed from one channel to the next leaves their concatenation,   *)
(* what is on the way, as it was.                                            *)
LEMMA AppendType ==
  ASSUME NEW S, NEW s \in Seq(S), NEW e \in S
  PROVE  /\ Append(s, e) \in Seq(S)
         /\ Len(Append(s, e)) = Len(s) + 1
         /\ Append(s, e)[Len(s) + 1] = e
  OBVIOUS

\* recv takes its first message.
LEMMA TailType ==
  ASSUME NEW S, NEW s \in Seq(S), s # << >>
  PROVE  /\ Head(s) \in S
         /\ Tail(s) \in Seq(S)
         /\ Len(Tail(s)) = Len(s) - 1
         /\ Len(s) > 0
  OBVIOUS

\* Two channels in a row are one.
LEMMA ConcatType ==
  ASSUME NEW S, NEW s \in Seq(S), NEW t \in Seq(S)
  PROVE  s \o t \in Seq(S) /\ Len(s \o t) = Len(s) + Len(t)
  OBVIOUS

\* The last channel gains a message: so does the whole.
LEMMA AppendConcat ==
  ASSUME NEW S, NEW s \in Seq(S), NEW t \in Seq(S), NEW e \in S
  PROVE  s \o Append(t, e) = Append(s \o t, e)
  OBVIOUS

\* The first channel loses a message: so does the whole.
LEMMA TailConcat ==
  ASSUME NEW S, NEW s \in Seq(S), NEW t \in Seq(S), s # << >>
  PROVE  /\ Tail(s) \o t = Tail(s \o t)
         /\ s \o t # << >>
         /\ Head(s \o t) = Head(s)
  OBVIOUS

\* A forwarder moves the head of t to the end of s.
LEMMA MoveHead ==
  ASSUME NEW S, NEW s \in Seq(S), NEW t \in Seq(S), t # << >>
  PROVE  Append(s, Head(t)) \o Tail(t) = s \o t
  OBVIOUS

\* A receiver takes the head of s in its hand.
LEMMA TakeHead ==
  ASSUME NEW S, NEW s \in Seq(S), NEW t \in Seq(S), s # << >>
  PROVE  <<Head(s)>> \o (Tail(s) \o t) = << >> \o (s \o t)
  OBVIOUS

\* It answers what it has in its hand.
LEMMA PassHand ==
  ASSUME NEW S, NEW s \in Seq(S), NEW t \in Seq(S), NEW e \in S
  PROVE  Append(s, e) \o (<< >> \o t) = s \o (<<e>> \o t)
  OBVIOUS

\* The ground's stop keeps what was in the uplink.
LEMMA PrefixOfConcat ==
  ASSUME NEW S, NEW s \in Seq(S), NEW t \in Seq(S)
  PROVE  s \o << >> = SubSeq(s \o t, 1, Len(s)) /\ Len(s) \in 0 .. Len(s \o t)
  OBVIOUS

\* Three channels in a row hold as many messages as they do one by one.
LEMMA JoinedLen ==
  ASSUME NEW S, NEW s \in Seq(S), NEW t \in Seq(S), NEW u \in Seq(S)
  PROVE  Len(s \o (t \o u)) = Len(s) + Len(t) + Len(u)
<1>1. t \o u \in Seq(S) /\ Len(t \o u) = Len(t) + Len(u)
  BY ConcatType
<1> QED
  BY <1>1, ConcatType

\* The elements of two sequences in a row.
LEMMA ConcatAt ==
  ASSUME NEW S, NEW a \in Seq(S), NEW b \in Seq(S)
  PROVE  /\ a \o b \in Seq(S)
         /\ Len(a \o b) = Len(a) + Len(b)
         /\ \A i \in 1 .. Len(a) : (a \o b)[i] = a[i]
         /\ \A i \in 1 .. Len(b) : (a \o b)[Len(a) + i] = b[i]
  OBVIOUS

\* What remains after a prefix was read is a suffix.
LEMMA SuffixOfConcat ==
  ASSUME NEW S, NEW p \in Seq(S), NEW s \in Seq(S)
  PROVE  IsSuffix(s, p \o s)
<1> DEFINE t == p \o s
           m == Len(p)
           n == Len(s)
           rs == Reverse(s)
           rt == Reverse(t)
<1>1. /\ t \in Seq(S) /\ Len(t) = m + n /\ m \in Nat /\ n \in Nat
      /\ \A i \in 1 .. n : t[m + i] = s[i]
  BY ConcatAt
<1> HIDE DEF t, m
<1>2. rs \in Seq(S) /\ Len(rs) = n /\ \A i \in 1 .. n : rs[i] = s[n - i + 1]
  BY <1>1 DEF Reverse
<1>3. rt \in Seq(S) /\ Len(rt) = m + n /\ \A i \in 1 .. m + n : rt[i] = t[m + n - i + 1]
  BY <1>1 DEF Reverse
<1>4. ASSUME NEW i \in 1 .. n PROVE rs[i] = rt[i]
  <2> DEFINE j == n - i + 1
  <2>1. j \in 1 .. n /\ m + n - i + 1 = m + j /\ i \in 1 .. m + n
    BY <1>1
  <2> HIDE DEF j
  <2>2. t[m + j] = s[j]
    BY <2>1, <1>1
  <2>3. rs[i] = s[j]
    BY <1>2 DEF j
  <2>4. rt[i] = t[m + j]
    BY <1>3, <2>1
  <2> QED
    BY <2>2, <2>3, <2>4
<1> HIDE DEF rs, rt, n
<1>5. SubSeq(rs, 1, n) = SubSeq(rt, 1, n)
  <2>1. \A i \in 1 .. n : SubSeq(rs, 1, n)[i] = rs[i] /\ SubSeq(rt, 1, n)[i] = rt[i]
    BY <1>1, <1>2, <1>3
  <2>2. /\ SubSeq(rs, 1, n) \in Seq(S) /\ Len(SubSeq(rs, 1, n)) = n
        /\ SubSeq(rt, 1, n) \in Seq(S) /\ Len(SubSeq(rt, 1, n)) = n
    BY <1>1, <1>2, <1>3
  <2> QED
    BY <1>1, <2>1, <2>2, <1>4
<1>6. n <= m + n
  BY <1>1
<1> QED
  BY <1>2, <1>3, <1>5, <1>6 DEF IsSuffix, IsPrefix, rs, rt, t

-----------------------------------------------------------------------------

(* One fact per operator that makes a packet or a sequence of packets.      *)
LEMMA BlankType == Blank \in Packet /\ 0 \in PacketIds
  BY BoundsAssumption DEF Blank, Packet, PacketIds

\* A tick leaves a packet a packet.
LEMMA OlderType ==
  ASSUME NEW p \in Packet
  PROVE  /\ Older(p) \in Packet
         /\ Older(p).id = p.id
         /\ Older(p).src = p.src
  BY TimingAssumption DEF Older, Packet

\* A packet keeps its id and source when its age is set back.
LEMMA FreshType ==
  ASSUME NEW p \in Packet
  PROVE  /\ [p EXCEPT !.age = 0] \in Packet
         /\ [p EXCEPT !.age = 0].id = p.id
         /\ [p EXCEPT !.age = 0].src = p.src
         /\ p.id \in PacketIds
  BY DEF Packet

\* A tick leaves the channel's packets in their places.
LEMMA AgedChannel ==
  ASSUME NEW s \in Seq(Packet)
  PROVE  /\ [i \in DOMAIN s |-> Older(s[i])] \in Seq(Packet)
         /\ Len([i \in DOMAIN s |-> Older(s[i])]) = Len(s)
  <1>1. \A i \in 1 .. Len(s) : Older(s[i]) \in Packet
    BY OlderType
  <1> QED
    BY <1>1

(* No step leaves the declared ranges.                                      *)
LEMMA TypeStep ==
  ASSUME TypeOK, [Next]_vars PROVE TypeOK'
<1> USE DEF TypeOK, taskVars, injectorVars, mgrVars, groundVars, mainVars, linkVars, fwdVars,
            processed, outcomes
<1>1. CASE TaskPacketize
  <2>1. task_pkt' \in Packet /\ packet_id_counter' \in PacketIds
    BY <1>1, BoundsAssumption DEF TaskPacketize, Packet, PacketIds
  <2> QED
    BY <1>1, <2>1 DEF TaskPacketize
<1>2. CASE TaskRing
  <2>1. task_pkt.id \in PacketIds
    BY FreshType
  <2>2. downlink_buffer' \in Seq(PacketIds) /\ Len(downlink_buffer') <= MAX_DOWNLINK_BUFFER
    <3>1. CASE RingFull
      BY <1>2, <3>1 DEF TaskRing
    <3>2. CASE ~RingFull
      <4>1. downlink_buffer' = Append(downlink_buffer, task_pkt.id)
        BY <1>2, <3>2 DEF TaskRing
      <4>2. /\ Append(downlink_buffer, task_pkt.id) \in Seq(PacketIds)
            /\ Len(Append(downlink_buffer, task_pkt.id)) = Len(downlink_buffer) + 1
        BY <2>1, AppendType
      <4>3. Len(downlink_buffer) < MAX_DOWNLINK_BUFFER /\ Len(downlink_buffer) \in Nat
        BY <3>2, CapacityAssumption DEF RingFull
      <4> QED
        BY <4>1, <4>2, <4>3, CapacityAssumption
    <3> QED
      BY <3>1, <3>2
  <2>3. dropped_samples' \in Nat
    BY <1>2 DEF TaskRing
  <2> QED
    BY <1>2, <2>2, <2>3 DEF TaskRing
<1>3. CASE TaskQueued
  <2>1. task_pkt' \in Packet
    BY <1>3, FreshType DEF TaskQueued
  <2>2. downlink' \in Seq(Packet) /\ Len(downlink') <= DownlinkCap
    BY <1>3, CapacityAssumption DEF TaskQueued, Queue
  <2> QED
    BY <1>3, <2>1, <2>2 DEF TaskQueued
<1>4. CASE TaskRefused
  BY <1>4, BlankType DEF TaskRefused, record_downlink_dropped
<1>5. CASE TaskPoll
  BY <1>5, BlankType DEF TaskPoll
<1>6. CASE TaskExit
  BY <1>6 DEF TaskExit
<1>7. CASE InjectorWake
  <2>1. injector_pkt' \in Packet
    BY <1>7, BlankType DEF InjectorWake, Blank
  <2>2. fault_events' \in 0 .. MaxEvents
    BY <1>7, BoundsAssumption DEF InjectorWake
  <2>3. faults' \subseteq FaultKinds
    BY <1>7 DEF InjectorWake, handle_faults
  <2> QED
    BY <1>7, <2>1, <2>2, <2>3 DEF InjectorWake
<1>8. CASE InjectorSend
  <2>1. downlink' \in Seq(Packet) /\ Len(downlink') <= DownlinkCap
    BY <1>8, CapacityAssumption DEF InjectorSend, Queue
  <2> QED
    BY <1>8, <2>1, BlankType DEF InjectorSend
<1>9. CASE InjectorExit
  BY <1>9 DEF InjectorExit
<1>10. CASE MgrRecv
  <2>1. /\ downlink' \in Seq(Packet) /\ Len(downlink') <= DownlinkCap
        /\ Head(downlink) \in Packet
    BY <1>10, CapacityAssumption DEF MgrRecv
  <2>2. mgr_pkt' \in Packet
    BY <1>10, <2>1, FreshType, BlankType DEF MgrRecv, GiveUp
  <2>3. downlink_dropped' \in Nat /\ downlink_sent' \in Nat /\ dropped_samples' \in Nat
    BY <1>10 DEF MgrRecv, GiveUp, record_downlink_dropped
  <2>4. mgr_pc' \in {"recv", "check"} /\ timer' \in Nat
    BY <1>10 DEF MgrRecv, GiveUp
  <2> QED
    BY <1>10, <2>1, <2>2, <2>3, <2>4 DEF MgrRecv
<1>11. CASE MgrCheck
  BY <1>11, BlankType DEF MgrCheck, GiveUp, record_downlink_dropped
<1>12. CASE MgrSend
  <2>1. internal' \in Seq(PacketIds)
    BY <1>12, FreshType, AppendType DEF MgrSend, Transmitted
  <2> QED
    BY <1>12, <2>1 DEF MgrSend
<1>13. CASE MgrCount
  BY <1>13 DEF MgrCount
<1>14. CASE MgrTransmitted
  BY <1>14 DEF MgrTransmitted
<1>15. CASE MgrAck
  <2>1. /\ uplink' \in Seq(PacketIds) /\ Len(uplink') <= UplinkCap
        /\ Head(uplink) \in PacketIds
    BY <1>15, CapacityAssumption DEF MgrAck, AckArrived
  <2>2. reply' \in Seq(PacketIds) /\ Len(reply') <= 1
    BY <1>15, <2>1 DEF MgrAck
  <2> QED
    BY <1>15, <2>1, <2>2, BlankType DEF MgrAck
<1>16. CASE MgrTimeout
  BY <1>16, BlankType DEF MgrTimeout, GiveUp, record_downlink_dropped
<1>17. CASE Forwarder
  <2>1. CASE ForwardRecv
    <3>1. Head(internal) \in PacketIds /\ Tail(internal) \in Seq(PacketIds)
      BY <2>1, TailType DEF ForwardRecv
    <3> QED
      BY <2>1, <3>1 DEF ForwardRecv
  <2>2. CASE ForwardGround
    <3>1. ground_q' \in Seq(PacketIds)
      BY <2>2, AppendType DEF ForwardGround, ToGround
    <3> QED
      BY <2>2, <3>1 DEF ForwardGround
  <2>3. CASE ForwardTelemetry
    <3>1. monitor_q' \in Seq(PacketIds)
      BY <2>3, AppendType DEF ForwardTelemetry
    <3> QED
      BY <2>3, <3>1, BlankType DEF ForwardTelemetry
  <2> QED
    BY <1>17, <2>1, <2>2, <2>3 DEF Forwarder
<1>18. CASE GroundRecv
  BY <1>18, BlankType DEF GroundRecv, record_packet_processed
<1>19. CASE GroundAck
  <2>1. uplink' \in Seq(PacketIds) /\ Len(uplink') <= UplinkCap
    BY <1>19, CapacityAssumption DEF GroundAck, SendAck
  <2> QED
    BY <1>19, <2>1, BlankType DEF GroundAck
<1>20. CASE GroundStop
  BY <1>20 DEF GroundStop
<1>21. CASE HandleFaults
  BY <1>21, BlankType DEF HandleFaults, handle_faults
<1>22. CASE AbortMission
  BY <1>22 DEF AbortMission
<1>23. CASE MissionOver
  BY <1>23 DEF MissionOver
<1>24. CASE SendShutdown
  BY <1>24 DEF SendShutdown
<1>25. CASE Tick
  <2>1. downlink' \in Seq(Packet) /\ Len(downlink') = Len(downlink)
    BY <1>25, AgedChannel DEF Tick
  <2>2. task_pkt' \in Packet /\ injector_pkt' \in Packet
    BY <1>25, OlderType DEF Tick
  <2>3. timer' \in Nat
    BY <1>25 DEF Tick
  <2> QED
    BY <1>25, <2>1, <2>2, <2>3 DEF Tick
<1>26. CASE UNCHANGED vars
  BY <1>26 DEF vars
<1> QED
  BY <1>1, <1>2, <1>3, <1>4, <1>5, <1>6, <1>7, <1>8, <1>9, <1>10, <1>11, <1>12, <1>13, <1>14, <1>15, <1>16, <1>17, <1>18, <1>19, <1>20, <1>21, <1>22, <1>23, <1>24, <1>25, <1>26
     DEF Next, Task, Injector, Manager, Ground, Main

(* Type correctness: no step leaves the declared ranges; in particular the  *)
(* ring and the two bounded channels keep their capacity.                   *)
THEOREM TypeCorrect == Spec => []TypeOK
<1>1. Init => TypeOK
  <2> SUFFICES ASSUME Init PROVE TypeOK
    OBVIOUS
  <2>1. /\ task_pkt \in Packet /\ injector_pkt \in Packet /\ mgr_pkt \in Packet
        /\ ground_pkt \in PacketIds /\ fwd_pkt \in PacketIds /\ fwd_pc = "recv"
        /\ packet_id_counter \in PacketIds
    BY BlankType DEF Init
  <2>2. /\ downlink_buffer \in Seq(PacketIds) /\ reply \in Seq(PacketIds)
        /\ internal \in Seq(PacketIds) /\ ground_q \in Seq(PacketIds)
        /\ monitor_q \in Seq(PacketIds) /\ uplink \in Seq(PacketIds)
        /\ downlink \in Seq(Packet)
    BY DEF Init
  <2>3. /\ Len(downlink_buffer) <= MAX_DOWNLINK_BUFFER /\ Len(reply) <= 1
        /\ Len(downlink) <= DownlinkCap /\ Len(uplink) <= UplinkCap
        /\ fault_events \in 0 .. MaxEvents
    BY CapacityAssumption, BoundsAssumption DEF Init
  <2>4. /\ task_pc = "window" /\ injector_pc = "sleep" /\ mgr_pc = "recv"
        /\ ground_pc = "loop" /\ main_pc = "loop"
        /\ timer \in Nat /\ faults \subseteq FaultKinds
        /\ shutdown_flag \in BOOLEAN /\ shutdown_msg \in BOOLEAN
        /\ packets_generated \in Nat /\ packets_processed \in Nat
        /\ downlink_sent \in Nat /\ downlink_dropped \in Nat /\ dropped_samples \in Nat
    BY DEF Init
  <2> QED
    BY <2>1, <2>2, <2>3, <2>4 DEF TypeOK
<1> QED
  BY <1>1, TypeStep, PTL DEF Spec
-----------------------------------------------------------------------------
(* Owed is a sequence of packet ids.                                        *)
LEMMA OwedType ==
  ASSUME TypeOK
  PROVE  /\ GroundHand \in Seq(PacketIds)
         /\ Coming \in Seq(PacketIds)
         /\ ground_q \o Coming \in Seq(PacketIds)
         /\ InFlight \in Seq(PacketIds)
         /\ Owed \in Seq(PacketIds)
<1>1. GroundHand \in Seq(PacketIds)
  BY DEF GroundHand, TypeOK
<1>c. Coming \in Seq(PacketIds)
  <2>1. ForwarderHand \in Seq(PacketIds)
    BY DEF ForwarderHand, TypeOK
  <2> QED
    BY <2>1, ConcatType DEF Coming, TypeOK
<1>2. ground_q \o Coming \in Seq(PacketIds)
  BY <1>c, ConcatType DEF TypeOK
<1>3. InFlight \in Seq(PacketIds)
  BY <1>1, <1>2, ConcatType DEF InFlight
<1> QED
  BY <1>1, <1>c, <1>2, <1>3, ConcatType DEF Owed, TypeOK

(* The steps that neither move a message between the two ends nor open or   *)
(* close an exchange are stuttering steps of the protocol.                  *)
LEMMA SilentStep ==
  ASSUME UNCHANGED linkVars, UNCHANGED groundVars,
         InExchange' = InExchange, InExchange => mgr_pkt' = mgr_pkt
  PROVE  UNCHANGED Ledger!vars
<1>1. Owed' = Owed
  BY DEF Owed, InFlight, Coming, ForwarderHand, GroundHand, linkVars, fwdVars, groundVars
<1> QED
  BY <1>1 DEF Ledger!vars, groundVars

\* Taking a frame in hand, and the second send, leave what is coming alone.
LEMMA ForwardKeepsComing ==
  ASSUME TypeOK, ForwardRecv \/ ForwardTelemetry
  PROVE  Coming' = Coming /\ ground_q' = ground_q
<1>1. CASE ForwardRecv
  <2>1. ForwarderHand = << >> /\ ForwarderHand' = <<Head(internal)>>
    BY <1>1 DEF ForwardRecv, ForwarderHand
  <2>2. internal # << >> /\ internal' = Tail(internal) /\ ground_q' = ground_q
    BY <1>1 DEF ForwardRecv
  <2>3. <<Head(internal)>> \o Tail(internal) = << >> \o internal
    BY <2>2 DEF TypeOK
  <2> QED
    BY <2>1, <2>2, <2>3 DEF Coming
<1>2. CASE ForwardTelemetry
  BY <1>2 DEF ForwardTelemetry, Coming, ForwarderHand
<1> QED
  BY <1>1, <1>2

\* The first send moves the frame in hand to the ground.
LEMMA ForwardMovesOne ==
  ASSUME TypeOK, ForwardGround, ground_pc # "stopped"
  PROVE  /\ ground_q' \o Coming' = ground_q \o Coming
         /\ Len(ground_q') = Len(ground_q) + 1
         /\ Len(Coming') = Len(Coming) - 1
<1>1. ForwarderHand = <<fwd_pkt>> /\ ForwarderHand' = << >>
  BY DEF ForwardGround, ForwarderHand
<1>2. ground_q' = Append(ground_q, fwd_pkt) /\ internal' = internal
  BY DEF ForwardGround, ToGround
<1>3. /\ ground_q \in Seq(PacketIds) /\ internal \in Seq(PacketIds)
      /\ fwd_pkt \in PacketIds
  BY DEF TypeOK
<1>4. Append(ground_q, fwd_pkt) \o (<< >> \o internal) = ground_q \o (<<fwd_pkt>> \o internal)
  BY <1>3, PassHand
<1>5. Len(<< >> \o internal) = Len(<<fwd_pkt>> \o internal) - 1
  BY <1>3
<1>6. Len(Append(ground_q, fwd_pkt)) = Len(ground_q) + 1
  BY <1>3, AppendType
<1> QED
  BY <1>1, <1>2, <1>4, <1>5, <1>6 DEF Coming

(* The forwarder and the ground hand messages on in order: what is owed does *)
(* not change.                                                              *)
LEMMA ForwardKeepsOwed ==
  ASSUME TypeOK, Forwarder PROVE Owed' = Owed
<1>1. ground_pc' = ground_pc /\ GroundHand' = GroundHand /\ uplink' = uplink
  BY DEF Forwarder, ForwardRecv, ForwardGround, ForwardTelemetry, GroundHand, groundVars
<1>2. CASE ground_pc = "stopped"
  BY <1>1, <1>2 DEF Owed, InFlight
<1>3. CASE ForwardRecv \/ ForwardTelemetry
  BY <1>1, <1>3, ForwardKeepsComing DEF Owed, InFlight
<1>4. CASE ForwardGround /\ ground_pc # "stopped"
  BY <1>1, <1>4, ForwardMovesOne DEF Owed, InFlight
<1> QED
  BY <1>2, <1>3, <1>4 DEF Forwarder

\* The ground takes a frame in its hand,
LEMMA GroundRecvKeepsOwed ==
  ASSUME TypeOK, GroundRecv PROVE Owed' = Owed
<1>1. GroundHand = << >> /\ GroundHand' = <<Head(ground_q)>>
  BY DEF GroundRecv, GroundHand
<1>2. ground_q' = Tail(ground_q) /\ Coming' = Coming /\ uplink' = uplink
  BY DEF GroundRecv, Coming, ForwarderHand, fwdVars
<1>3. GroundHand' \o (ground_q' \o Coming') = GroundHand \o (ground_q \o Coming)
  BY <1>1, <1>2, TakeHead, OwedType DEF GroundRecv, TypeOK
<1> QED
  BY <1>2, <1>3 DEF GroundRecv, Owed, InFlight

\* and answers it: the answers owed are the same.
LEMMA GroundAckKeepsOwed ==
  ASSUME TypeOK, GroundAck PROVE Owed' = Owed
<1>1. GroundHand = <<ground_pkt>> /\ GroundHand' = << >>
  BY DEF GroundAck, GroundHand
<1>2. /\ uplink' = Append(uplink, ground_pkt)
      /\ ground_q' = ground_q /\ Coming' = Coming
  BY DEF GroundAck, SendAck, Coming, ForwarderHand, fwdVars
<1>3. /\ uplink \in Seq(PacketIds) /\ ground_pkt \in PacketIds
      /\ ground_q \o Coming \in Seq(PacketIds)
  BY OwedType DEF TypeOK
<1>4. Append(uplink, ground_pkt) \o (<< >> \o (ground_q \o Coming))
        = uplink \o (<<ground_pkt>> \o (ground_q \o Coming))
  BY <1>3, PassHand
<1> QED
  BY <1>1, <1>2, <1>4 DEF GroundAck, Owed, InFlight

\* What the manager hands over is on its way to the ground, after all else.
LEMMA SendIsComing ==
  ASSUME TypeOK, MgrSend
  PROVE  /\ Coming' = Append(Coming, mgr_pkt.id)
         /\ Len(Coming') = Len(Coming) + 1
<1>1. ForwarderHand' = ForwarderHand /\ internal' = Append(internal, mgr_pkt.id)
  BY DEF MgrSend, Transmitted, ForwarderHand, fwdVars
<1>2. ForwarderHand \in Seq(PacketIds) /\ internal \in Seq(PacketIds)
  BY DEF ForwarderHand, TypeOK
<1>3. mgr_pkt.id \in PacketIds
  BY FreshType DEF TypeOK
<1>4. Coming' = Append(Coming, mgr_pkt.id)
  BY <1>1, <1>2, <1>3, AppendConcat DEF Coming
<1>5. Coming \in Seq(PacketIds)
  BY OwedType
<1> QED
  BY <1>3, <1>4, <1>5, AppendType

(* A transmitted frame is owed an answer, after all the others, while the   *)
(* ground runs.                                                             *)
LEMMA SendOwesAnswer ==
  ASSUME TypeOK, MgrSend
  PROVE  Owed' = IF ground_pc # "stopped" THEN Append(Owed, mgr_pkt.id) ELSE Owed
<1>1. mgr_pkt.id \in PacketIds
  BY FreshType DEF TypeOK
<1>2. GroundHand' = GroundHand /\ ground_pc' = ground_pc /\ uplink' = uplink
      /\ ground_q' = ground_q /\ Coming' = Append(Coming, mgr_pkt.id)
  BY SendIsComing DEF MgrSend, GroundHand, groundVars
<1>3. CASE ground_pc = "stopped"
  BY <1>2, <1>3 DEF Owed, InFlight
<1>4. CASE ground_pc # "stopped"
  <2>1. ground_q' \o Coming' = Append(ground_q \o Coming, mgr_pkt.id)
    <3>1. ground_q \in Seq(PacketIds) /\ Coming \in Seq(PacketIds)
      BY OwedType DEF TypeOK
    <3> QED
      BY <1>1, <1>2, <3>1, AppendConcat
  <2>2. InFlight' = Append(InFlight, mgr_pkt.id)
    <3>1. GroundHand \in Seq(PacketIds) /\ ground_q \o Coming \in Seq(PacketIds)
      BY OwedType
    <3>2. GroundHand \o Append(ground_q \o Coming, mgr_pkt.id)
            = Append(GroundHand \o (ground_q \o Coming), mgr_pkt.id)
      BY <1>1, <3>1, AppendConcat
    <3> QED
      BY <1>2, <1>4, <2>1, <3>2 DEF InFlight
  <2>3. uplink \in Seq(PacketIds) /\ InFlight \in Seq(PacketIds)
    BY OwedType DEF TypeOK
  <2>4. uplink \o Append(InFlight, mgr_pkt.id) = Append(uplink \o InFlight, mgr_pkt.id)
    BY <1>1, <2>3, AppendConcat
  <2> QED
    BY <1>2, <1>4, <2>2, <2>4 DEF Owed
<1> QED
  BY <1>3, <1>4

(* The answer that ends an exchange is the oldest one owed.                 *)
LEMMA AckPaysOldest ==
  ASSUME TypeOK, MgrAck
  PROVE  Owed # << >> /\ Owed' = Tail(Owed) /\ Head(uplink) = Head(Owed)
<1>1. InFlight' = InFlight
  BY DEF MgrAck, InFlight, Coming, ForwarderHand, GroundHand, groundVars, fwdVars
<1>2. uplink # << >> /\ uplink' = Tail(uplink)
  BY DEF MgrAck, AckArrived
<1> QED
  BY <1>1, <1>2, OwedType, TailConcat DEF Owed, TypeOK

(* When the ground stops, only what it had put on the uplink stays owed.    *)
LEMMA StopKeepsUplink ==
  ASSUME TypeOK, GroundStop
  PROVE  \E n \in 0 .. Len(Owed) : Owed' = SubSeq(Owed, 1, n)
<1>1. Owed' = uplink \o << >>
  BY DEF GroundStop, Owed, InFlight
<1>2. Owed' = SubSeq(Owed, 1, Len(uplink)) /\ Len(uplink) \in 0 .. Len(Owed)
  BY <1>1, OwedType, PrefixOfConcat DEF Owed, TypeOK
<1> QED
  BY <1>2

(* Every step of the downlink path is a step of the protocol or leaves its   *)
(* state alone.                                                             *)
LEMMA StepRefines ==
  ASSUME TypeOK, [Next]_vars PROVE [Ledger!Next]_(Ledger!vars)
<1> USE DEF taskVars, injectorVars, mgrVars, mainVars, processed, outcomes
<1>1. CASE Task
  BY <1>1, SilentStep DEF Task, TaskPacketize, TaskRing, TaskQueued, TaskRefused, TaskPoll,
                          TaskExit, InExchange
<1>2. CASE Injector
  BY <1>2, SilentStep DEF Injector, InjectorWake, InjectorSend, InjectorExit, InExchange
<1>3. CASE MgrRecv
  BY <1>3, SilentStep DEF MgrRecv, GiveUp, InExchange
<1>4. CASE MgrCheck
  BY <1>4, SilentStep DEF MgrCheck, GiveUp, InExchange
<1>5. CASE MgrSend
  <2>1. mgr_pkt.id \in PacketIds
    BY FreshType DEF TypeOK
  <2>2. ~InExchange /\ InExchange' /\ mgr_pkt' = mgr_pkt /\ ground_pc' = ground_pc
    BY <1>5 DEF MgrSend, InExchange, groundVars
  <2> QED
    BY <1>5, <2>1, <2>2, SendOwesAnswer DEF Ledger!Next, Ledger!Transmit
<1>6. CASE MgrCount
  BY <1>6, SilentStep DEF MgrCount, InExchange
<1>7. CASE MgrTransmitted
  BY <1>7, SilentStep DEF MgrTransmitted, InExchange
<1>8. CASE MgrAck
  <2>1. InExchange /\ ~InExchange' /\ ground_pc' = ground_pc
    BY <1>8 DEF MgrAck, InExchange, groundVars
  <2> QED
    BY <1>8, <2>1, AckPaysOldest DEF Ledger!Next, Ledger!Ack
<1>9. CASE MgrTimeout
  <2>1. InExchange /\ ~InExchange'
    BY <1>9 DEF MgrTimeout, GiveUp, InExchange
  <2>2. Owed' = Owed /\ ground_pc' = ground_pc
    BY <1>9 DEF MgrTimeout, Owed, InFlight, Coming, ForwarderHand, GroundHand, linkVars,
                fwdVars, groundVars
  <2> QED
    BY <2>1, <2>2 DEF Ledger!Next, Ledger!Timeout
<1>10. CASE Forwarder
  BY <1>10, ForwardKeepsOwed
     DEF Forwarder, ForwardRecv, ForwardGround, ForwardTelemetry, groundVars, InExchange,
         Ledger!vars
<1>11. CASE GroundRecv
  BY <1>11, GroundRecvKeepsOwed DEF GroundRecv, InExchange, Ledger!vars
<1>12. CASE GroundAck
  BY <1>12, GroundAckKeepsOwed DEF GroundAck, InExchange, Ledger!vars
<1>13. CASE GroundStop
  <2>1. ground_pc # "stopped" /\ ground_pc' = "stopped"
    BY <1>13 DEF GroundStop
  <2>2. InExchange' = InExchange /\ mgr_pkt' = mgr_pkt
    BY <1>13 DEF GroundStop, InExchange
  <2> QED
    BY <1>13, <2>1, <2>2, StopKeepsUplink DEF Ledger!Next, Ledger!PeerStop
<1>14. CASE Main
  BY <1>14, SilentStep DEF Main, HandleFaults, AbortMission, MissionOver, SendShutdown,
                           InExchange
<1>15. CASE Tick
  BY <1>15, SilentStep DEF Tick, InExchange
<1>16. CASE UNCHANGED vars
  BY <1>16, SilentStep DEF vars, InExchange
<1> QED
  BY <1>1, <1>2, <1>3, <1>4, <1>5, <1>6, <1>7, <1>8, <1>9, <1>10, <1>11, <1>12, <1>13,
     <1>14, <1>15, <1>16 DEF Next, Manager, Ground

(* The downlink path implements the anonymous-acknowledgement protocol.     *)
THEOREM Refinement == Spec => ImplementsAckLedger
<1>1. Init => Ledger!Init
  BY DEF Init, Ledger!Init, Owed, InFlight, Coming, ForwarderHand, GroundHand, InExchange
<1>2. TypeOK /\ [Next]_vars => [Ledger!Next]_(Ledger!vars)
  BY StepRefines
<1> QED
  BY <1>1, <1>2, TypeCorrect, PTL DEF Spec, ImplementsAckLedger, Ledger!Spec
(* What holds of the protocol holds of the downlink path under the mapping. *)
Proved == INSTANCE AckLedgerProofs WITH
    Ids <- PacketIds,
    outstanding <- Owed,
    exchange <- IF InExchange THEN <<mgr_pkt.id>> ELSE << >>,
    peer_up <- ground_pc # "stopped"

\* The protocol implemented is the one the theorems are about.
LEMMA SameProtocol == Ledger!Spec => Proved!Spec
<1>1. Ledger!Init => Proved!Init
  BY DEF Ledger!Init, Proved!Init
<1>2. [Ledger!Next]_(Ledger!vars) => [Proved!Next]_(Proved!vars)
  BY DEF Ledger!Next, Ledger!vars, Ledger!Transmit, Ledger!Ack, Ledger!Timeout,
         Ledger!PeerStop, Proved!Next, Proved!vars, Proved!Transmit, Proved!Ack,
         Proved!Timeout, Proved!PeerStop
<1> QED
  BY <1>1, <1>2, PTL DEF Ledger!Spec, Proved!Spec

(* The ACK of the frame being waited for is the last one the manager will   *)
(* read: whatever comes first belongs to a frame it gave up.                *)
THEOREM OwnAnswer == Spec => []OwnAnswerIsLast
<1>1. Proved!OwnAnswerIsLast => Ledger!OwnAnswerIsLast
  BY DEF Proved!OwnAnswerIsLast, Ledger!OwnAnswerIsLast
<1> QED
  BY <1>1, Refinement, SameProtocol, Proved!OwnAnswer, PTL
     DEF OwnAnswerIsLast, ImplementsAckLedger

(* No step repays a late ACK: from the first timeout on, as long as the     *)
(* ground runs, the manager credits packets with the ACKs of earlier ones.  *)
THEOREM DebtStays == Spec => DebtIsForever
<1>1. [(ground_pc # "stopped")' => Proved!Debt' >= Proved!Debt]_(Proved!vars)
        => [(ground_pc # "stopped")' => Ledger!Debt' >= Ledger!Debt]_(Ledger!vars)
  BY DEF Proved!Debt, Ledger!Debt, Proved!vars, Ledger!vars
<1> QED
  BY <1>1, Refinement, SameProtocol, Proved!DebtStays, PTL
     DEF DebtIsForever, ImplementsAckLedger, Proved!DebtIsForever, Ledger!DebtIsForever
-----------------------------------------------------------------------------
(* The counters.  BooksBalance is inductive: every step that moves a packet *)
(* moves one unit between a counter, a channel and a thread's hands.        *)
LEMMA CountTypes ==
  ASSUME TypeOK
  PROVE  /\ packet_id_counter \in Nat /\ fault_events \in Nat
         /\ downlink_sent \in Nat /\ downlink_dropped \in Nat
         /\ Len(downlink) \in Nat
         /\ packets_generated \in Nat /\ packets_processed \in Nat
         /\ MgrHolds \in Nat /\ EventsQueued \in Int
         /\ Offered \in Int /\ Accepted \in Int
<1>1. /\ packet_id_counter \in Nat /\ fault_events \in Nat
      /\ downlink_sent \in Nat /\ downlink_dropped \in Nat
      /\ Len(downlink) \in Nat
      /\ packets_generated \in Nat /\ packets_processed \in Nat
  BY BoundsAssumption DEF TypeOK, PacketIds
<1>2. Offered \in Int /\ MgrHolds \in Nat /\ EventsQueued \in Int
  BY <1>1 DEF Offered, TaskHolds, MgrHolds, EventsQueued
<1> QED
  BY <1>1, <1>2 DEF Accepted

(* A step that leaves the offered packets alone, and what is counted and in *)
(* the manager's care as a whole, leaves the books balanced.                *)
LEMMA SameBooks ==
  ASSUME TypeOK, BooksBalance, Offered' = Offered,
         Accepted' = Accepted, downlink_sent' \in Nat, downlink_dropped' \in Nat,
         downlink_sent' >= downlink_sent, downlink_dropped' >= downlink_dropped
  PROVE  BooksBalance'
  BY CountTypes DEF BooksBalance

\* At all times sent and dropped, at the task and at the manager, account for
\* every packet there was, once each.
THEOREM BooksAlwaysBalance == Spec => []BooksBalance
<1>1. Init => BooksBalance
  BY DEF Init, BooksBalance, TaskHolds, MgrHolds, EventsQueued, Offered, Accepted
<1>2. TypeOK /\ BooksBalance /\ [Next]_vars => BooksBalance'
  <2> SUFFICES ASSUME TypeOK, BooksBalance, [Next]_vars PROVE BooksBalance'
    OBVIOUS
  <2>t. /\ packet_id_counter \in Nat /\ fault_events \in Nat
        /\ downlink_sent \in Nat /\ downlink_dropped \in Nat
        /\ Len(downlink) \in Nat
        /\ MgrHolds \in Nat /\ EventsQueued \in Int
        /\ Offered \in Int /\ Accepted \in Int
    BY CountTypes
  <2> USE <2>t
  <2> USE DEF taskVars, injectorVars, mgrVars, outcomes
  <2>0. ASSUME UNCHANGED <<packet_id_counter, TaskHolds, downlink_sent, downlink_dropped,
                           MgrHolds, EventsQueued>>,
               Len(downlink') = Len(downlink)
        PROVE  BooksBalance'
    BY <2>0, SameBooks DEF Offered, Accepted
  <2>1. CASE TaskPacketize
    <3>1. UNCHANGED <<Offered, downlink, MgrHolds, EventsQueued, downlink_sent,
                      downlink_dropped>>
      BY <2>1 DEF TaskPacketize, Offered, TaskHolds, MgrHolds, EventsQueued
    <3>2. Accepted' = Accepted
      BY <3>1 DEF Accepted
    <3> QED
      BY <3>1, <3>2, SameBooks
  <2>2. CASE TaskRing
    BY <2>2, <2>0 DEF TaskRing, TaskHolds, MgrHolds, EventsQueued
  <2>3. CASE TaskQueued
    <3>1. Len(downlink') = Len(downlink) + 1
      BY <2>3, AppendType DEF TaskQueued, Queue, TypeOK
    <3>2. Offered' = Offered + 1 /\ UNCHANGED <<MgrHolds, EventsQueued, downlink_dropped>>
      BY <2>3 DEF TaskQueued, Offered, TaskHolds, MgrHolds, EventsQueued
    <3>3. downlink_sent' = downlink_sent + 1
      BY <2>3 DEF TaskQueued
    <3>4. Accepted' = Accepted + 1
      BY <3>1, <3>2, <3>3 DEF Accepted
    <3> QED
      BY <3>2, <3>3, <3>4 DEF BooksBalance
  <2>4. CASE TaskRefused
    <3>1. /\ Offered' = Offered + 1
          /\ UNCHANGED <<MgrHolds, EventsQueued, downlink, downlink_sent>>
      BY <2>4 DEF TaskRefused, Offered, TaskHolds, MgrHolds, EventsQueued
    <3>2. downlink_dropped' = downlink_dropped + 1
      BY <2>4 DEF TaskRefused, record_downlink_dropped
    <3>3. Accepted' = Accepted
      BY <3>1, <3>2 DEF Accepted
    <3> QED
      BY <3>1, <3>2, <3>3 DEF BooksBalance
  <2>5. CASE TaskPoll
    BY <2>5, <2>0 DEF TaskPoll, TaskHolds, MgrHolds, EventsQueued
  <2>6. CASE TaskExit
    BY <2>6, <2>0 DEF TaskExit, TaskHolds, MgrHolds, EventsQueued
  <2>7. CASE InjectorWake
    BY <2>7, <2>0 DEF InjectorWake, TaskHolds, MgrHolds, EventsQueued
  <2>8. CASE InjectorSend
    <3>1. Len(downlink') = Len(downlink) + 1
      BY <2>8, AppendType DEF InjectorSend, Queue, TypeOK
    <3>2. /\ EventsQueued' = EventsQueued + 1 /\ EventsQueued \in Int
          /\ UNCHANGED <<Offered, MgrHolds, downlink_sent, downlink_dropped>>
      BY <2>8 DEF InjectorSend, Offered, TaskHolds, MgrHolds, EventsQueued
    <3>3. Accepted' = Accepted
      BY <3>1, <3>2 DEF Accepted, MgrHolds
    <3> QED
      BY <3>2, <3>3, SameBooks
  <2>9. CASE InjectorExit
    BY <2>9, <2>0 DEF InjectorExit, TaskHolds, MgrHolds, EventsQueued
  <2>10. CASE MgrRecv
    <3>1. Len(downlink') = Len(downlink) - 1
      BY <2>10, TailType DEF MgrRecv, TypeOK
    <3>2. UNCHANGED <<Offered, EventsQueued, downlink_sent>>
      BY <2>10 DEF MgrRecv, GiveUp, Offered, TaskHolds, EventsQueued
    <3>3. CASE Head(downlink).age > VisibilityTicks
      <4>1. downlink_dropped' = downlink_dropped + 1 /\ mgr_pc' = "recv"
        BY <2>10, <3>3 DEF MgrRecv, GiveUp, record_downlink_dropped
      <4>2. Accepted' = Accepted
        BY <2>10, <3>1, <3>2, <4>1 DEF MgrRecv, Accepted, MgrHolds, EventsQueued
      <4> QED
        BY <3>2, <4>1, <4>2, SameBooks
    <3>4. CASE ~(Head(downlink).age > VisibilityTicks)
      <4>1. downlink_dropped' = downlink_dropped /\ mgr_pc' = "check"
        BY <2>10, <3>4 DEF MgrRecv
      <4>2. Accepted' = Accepted
        BY <2>10, <3>1, <3>2, <4>1 DEF MgrRecv, Accepted, MgrHolds, EventsQueued
      <4> QED
        BY <3>2, <4>1, <4>2, SameBooks
    <3> QED
      BY <3>3, <3>4
  <2>11. CASE MgrCheck
    <3>1. Len(downlink') = Len(downlink)
      BY <2>11 DEF MgrCheck
    <3>2. UNCHANGED <<Offered, EventsQueued, downlink_sent>>
      BY <2>11 DEF MgrCheck, GiveUp, Offered, TaskHolds, EventsQueued
    <3>3. CASE ~is_command_safe(ToU32(mgr_pkt.id))
      <4>1. downlink_dropped' = downlink_dropped + 1 /\ mgr_pc' = "recv"
        BY <2>11, <3>3 DEF MgrCheck, GiveUp, record_downlink_dropped
      <4>2. Accepted' = Accepted
        BY <2>11, <3>1, <3>2, <4>1 DEF MgrCheck, Accepted, MgrHolds, EventsQueued
      <4> QED
        BY <3>2, <4>1, <4>2, SameBooks
    <3>4. CASE ~(~is_command_safe(ToU32(mgr_pkt.id)))
      <4>1. downlink_dropped' = downlink_dropped /\ mgr_pc' = "send"
        BY <2>11, <3>4 DEF MgrCheck
      <4>2. Accepted' = Accepted
        BY <2>11, <3>1, <3>2, <4>1 DEF MgrCheck, Accepted, MgrHolds, EventsQueued
      <4> QED
        BY <3>2, <4>1, <4>2, SameBooks
    <3> QED
      BY <3>3, <3>4
  <2>12. CASE MgrSend
    BY <2>12, <2>0 DEF MgrSend, TaskHolds, MgrHolds, EventsQueued
  <2>13. CASE MgrCount
    BY <2>13, <2>0 DEF MgrCount, TaskHolds, MgrHolds, EventsQueued
  <2>14. CASE MgrTransmitted
    BY <2>14, <2>0 DEF MgrTransmitted, TaskHolds, MgrHolds, EventsQueued
  <2>15. CASE MgrAck
    <3>1. /\ MgrHolds = 1 /\ MgrHolds' = 0 /\ downlink_sent' = downlink_sent + 1
          /\ UNCHANGED <<Offered, EventsQueued, downlink, downlink_dropped>>
      BY <2>15 DEF MgrAck, Offered, TaskHolds, MgrHolds, EventsQueued
    <3>2. Accepted' = Accepted
      BY <3>1 DEF Accepted
    <3> QED
      BY <3>1, <3>2, SameBooks
  <2>16. CASE MgrTimeout
    <3>1. /\ MgrHolds = 1 /\ MgrHolds' = 0 /\ downlink_dropped' = downlink_dropped + 1
          /\ UNCHANGED <<Offered, EventsQueued, downlink, downlink_sent>>
      BY <2>16
         DEF MgrTimeout, GiveUp, record_downlink_dropped, Offered, TaskHolds, MgrHolds,
             EventsQueued
    <3>2. Accepted' = Accepted
      BY <3>1 DEF Accepted
    <3> QED
      BY <3>1, <3>2, SameBooks
  <2>17. CASE Forwarder
    BY <2>17, <2>0 DEF Forwarder, ForwardRecv, ForwardGround, ForwardTelemetry, TaskHolds,
                       MgrHolds, EventsQueued
  <2>18. CASE GroundRecv
    BY <2>18, <2>0 DEF GroundRecv, TaskHolds, MgrHolds, EventsQueued
  <2>19. CASE GroundAck
    BY <2>19, <2>0 DEF GroundAck, TaskHolds, MgrHolds, EventsQueued
  <2>20. CASE GroundStop
    BY <2>20, <2>0 DEF GroundStop, TaskHolds, MgrHolds, EventsQueued
  <2>21. CASE HandleFaults
    BY <2>21, <2>0 DEF HandleFaults, TaskHolds, MgrHolds, EventsQueued
  <2>22. CASE AbortMission
    BY <2>22, <2>0 DEF AbortMission, TaskHolds, MgrHolds, EventsQueued
  <2>23. CASE MissionOver
    BY <2>23, <2>0 DEF MissionOver, TaskHolds, MgrHolds, EventsQueued
  <2>24. CASE SendShutdown
    BY <2>24, <2>0 DEF SendShutdown, TaskHolds, MgrHolds, EventsQueued
  <2>25. CASE Tick
    <3>1. Len(downlink') = Len(downlink)
      BY <2>25, AgedChannel DEF Tick, TypeOK
    <3> QED
      BY <2>25, <2>0, <3>1 DEF Tick, TaskHolds, MgrHolds, EventsQueued
  <2>26. CASE UNCHANGED vars
    BY <2>26, <2>0 DEF vars, TaskHolds, MgrHolds, EventsQueued
  <2> QED
    BY <2>1, <2>2, <2>3, <2>4, <2>5, <2>6, <2>7, <2>8, <2>9, <2>10, <2>11, <2>12, <2>13, <2>14, <2>15, <2>16, <2>17, <2>18, <2>19, <2>20, <2>21, <2>22, <2>23, <2>24, <2>25, <2>26
       DEF Next, Task, Injector, Manager, Ground, Main
<1> QED
  BY <1>1, <1>2, TypeCorrect, PTL DEF Spec
-----------------------------------------------------------------------------
(* The frames under way, as numbers.                                        *)
InHand == IF ground_pc = "ack" THEN 1 ELSE 0
Underway == IF ground_pc = "stopped" THEN 0 ELSE InHand + Len(ground_q) + Len(Coming)
Uncounted == IF mgr_pc = "count" THEN 1 ELSE 0
Late == Len(uplink) + Underway - (IF InExchange THEN 1 ELSE 0)

(* What the properties say of the channels is said of these numbers.        *)
LEMMA Counted ==
  ASSUME TypeOK
  PROVE  /\ Len(GroundHand) = InHand
         /\ Len(InFlight) = Underway
         /\ Len(Owed) = Len(uplink) + Underway
         /\ Ledger!Debt = Late
<1>1. Len(GroundHand) = InHand
  BY DEF GroundHand, InHand
<1>2. Len(GroundHand \o (ground_q \o Coming))
        = Len(GroundHand) + Len(ground_q) + Len(Coming)
  BY OwedType, JoinedLen DEF TypeOK
<1>3. Len(InFlight) = Underway
  BY <1>1, <1>2 DEF InFlight, Underway
<1>4. Len(Owed) = Len(uplink) + Underway
  BY <1>3, OwedType, ConcatType DEF Owed, TypeOK
<1> QED
  BY <1>1, <1>3, <1>4 DEF Ledger!Debt, Late

(* The frames under way that the ground has not seen are counted as          *)
(* generated, but for the one the manager is about to count; the answers to  *)
(* frames it gave up are counted as dropped packets.                         *)
CountInv ==
    /\ packets_processed <= packets_generated
    /\ packets_processed + Underway - InHand <= packets_generated + Uncounted
    /\ Late <= downlink_dropped

(* A step that leaves the way to the ground and the exchange alone.         *)
LEMMA QuietCounts ==
  ASSUME CountInv, UNCHANGED <<linkVars, groundVars, processed>>,
         TypeOK, downlink_dropped' \in Nat, downlink_dropped' >= downlink_dropped,
         \/ mgr_pc' = mgr_pc
         \/ {mgr_pc, mgr_pc'} \cap {"count", "transmit", "wait"} = {}
  PROVE  CountInv'
<1>1. UNCHANGED <<uplink, ground_q, Coming, ground_pc, packets_processed, packets_generated>>
  BY DEF linkVars, fwdVars, Coming, ForwarderHand, groundVars, processed
<1>2. (InExchange' <=> InExchange) /\ Uncounted' = Uncounted
  BY DEF InExchange, Uncounted
<1>3. Underway' = Underway /\ InHand' = InHand /\ Late' = Late
  BY <1>1, <1>2 DEF Underway, InHand, Late
<1>4. Late \in Int
  BY OwedType DEF Late, Underway, InHand, TypeOK
<1> QED
  BY <1>1, <1>2, <1>3, <1>4 DEF CountInv, TypeOK

(* Each step moves one unit between two neighbouring numbers, or counts.    *)
LEMMA CountStep ==
  ASSUME TypeOK, CountInv, [Next]_vars
  PROVE  CountInv'
<1> USE DEF taskVars, injectorVars, mgrVars, mainVars, outcomes
<1>n. downlink_dropped \in Nat /\ packets_processed \in Nat /\ packets_generated \in Nat
  BY DEF TypeOK
<1>l. Len(uplink) \in Nat /\ Len(ground_q) \in Nat /\ Len(Coming) \in Nat
  BY OwedType DEF TypeOK
<1>1. CASE Task
  BY <1>1, <1>n, QuietCounts
     DEF Task, TaskPacketize, TaskRing, TaskQueued, TaskRefused, TaskPoll, TaskExit,
         record_downlink_dropped
<1>2. CASE Injector
  BY <1>2, <1>n, QuietCounts DEF Injector, InjectorWake, InjectorSend, InjectorExit
<1>3. CASE MgrRecv
  BY <1>3, <1>n, QuietCounts DEF MgrRecv, GiveUp, record_downlink_dropped
<1>4. CASE MgrCheck
  BY <1>4, <1>n, QuietCounts DEF MgrCheck, GiveUp, record_downlink_dropped
<1>5. CASE MgrSend
  <2>1. Len(Coming') = Len(Coming) + 1
    BY <1>5, SendIsComing
  <2>2. /\ mgr_pc = "send" /\ mgr_pc' = "count"
        /\ UNCHANGED <<uplink, ground_q, ground_pc, packets_processed,
                       packets_generated, downlink_dropped>>
    BY <1>5 DEF MgrSend, groundVars, processed
  <2>3. ~InExchange /\ InExchange'
    BY <2>2 DEF InExchange
  <2>4. InHand' = InHand /\ InHand \in Nat /\ Uncounted = 0 /\ Uncounted' = 1
    BY <2>2 DEF InHand, Uncounted
  <2>5. (Underway' = Underway \/ Underway' = Underway + 1) /\ Underway \in Nat
    BY <1>l, <2>1, <2>2, <2>4 DEF Underway
  <2>6. Late' \in Int /\ Late \in Int /\ Late' <= Late
    BY <1>l, <2>2, <2>3, <2>5 DEF Late
  <2>7. packets_processed' <= packets_generated'
    BY <2>2 DEF CountInv
  <2>8. packets_processed' + Underway' - InHand' <= packets_generated' + Uncounted'
    <3>1. packets_processed + Underway - InHand <= packets_generated
      BY <1>n, <2>4, <2>5 DEF CountInv
    <3>2. packets_processed + Underway' - InHand <= packets_generated + 1
      BY <1>n, <2>4, <2>5, <3>1
    <3> QED
      BY <2>2, <2>4, <3>2
  <2>9. Late' <= downlink_dropped'
    BY <1>n, <2>2, <2>6 DEF CountInv
  <2> QED
    BY <2>7, <2>8, <2>9 DEF CountInv
<1>6. CASE MgrCount
  <2>1. /\ mgr_pc = "count" /\ mgr_pc' = "transmit"
        /\ UNCHANGED <<uplink, ground_q, Coming, ground_pc, packets_processed,
                       downlink_dropped>>
        /\ packets_generated' = packets_generated + 1
    BY <1>6 DEF MgrCount, linkVars, fwdVars, Coming, ForwarderHand, groundVars
  <2>2. InExchange /\ InExchange'
    BY <2>1 DEF InExchange
  <2> QED
    BY <1>n, <1>l, <2>1, <2>2 DEF CountInv, Underway, InHand, Uncounted, Late
<1>7. CASE MgrTransmitted
  <2>1. /\ mgr_pc = "transmit" /\ mgr_pc' = "wait"
        /\ UNCHANGED <<uplink, ground_q, Coming, ground_pc, packets_processed,
                       packets_generated, downlink_dropped>>
    BY <1>7 DEF MgrTransmitted, linkVars, fwdVars, Coming, ForwarderHand, groundVars,
                processed
  <2>2. InExchange /\ InExchange'
    BY <2>1 DEF InExchange
  <2> QED
    BY <1>n, <1>l, <2>1, <2>2 DEF CountInv, Underway, InHand, Uncounted, Late
<1>8. CASE MgrAck
  <2>1. Len(uplink') = Len(uplink) - 1
    BY <1>8, TailType DEF MgrAck, AckArrived, TypeOK
  <2>2. /\ mgr_pc = "wait" /\ mgr_pc' = "recv"
        /\ UNCHANGED <<ground_q, Coming, ground_pc, packets_processed,
                       packets_generated, downlink_dropped>>
    BY <1>8 DEF MgrAck, fwdVars, Coming, ForwarderHand, groundVars, processed
  <2>3. InExchange /\ ~InExchange'
    BY <2>2 DEF InExchange
  <2> QED
    BY <1>n, <1>l, <2>1, <2>2, <2>3 DEF CountInv, Underway, InHand, Uncounted, Late
<1>9. CASE MgrTimeout
  <2>1. /\ mgr_pc = "wait" /\ mgr_pc' = "recv"
        /\ UNCHANGED <<uplink, ground_q, Coming, ground_pc, packets_processed,
                       packets_generated>>
        /\ downlink_dropped' = downlink_dropped + 1
    BY <1>9 DEF MgrTimeout, GiveUp, record_downlink_dropped, linkVars, fwdVars, Coming,
                ForwarderHand, groundVars, processed
  <2>2. InExchange /\ ~InExchange'
    BY <2>1 DEF InExchange
  <2> QED
    BY <1>n, <1>l, <2>1, <2>2 DEF CountInv, Underway, InHand, Uncounted, Late
<1>10. CASE Forwarder
  <2>1. /\ UNCHANGED <<uplink, ground_pc, mgr_pc, packets_processed, packets_generated,
                       downlink_dropped>>
        /\ InExchange' <=> InExchange
    BY <1>10 DEF Forwarder, ForwardRecv, ForwardGround, ForwardTelemetry, groundVars,
                 processed, InExchange
  <2>2. InHand' = InHand /\ Uncounted' = Uncounted
    BY <2>1 DEF InHand, Uncounted
  <2>3. Underway' = Underway
    <3>1. CASE ForwardRecv \/ ForwardTelemetry
      BY <2>1, <2>2, <3>1, ForwardKeepsComing DEF Underway
    <3>2. CASE ForwardGround /\ ground_pc # "stopped"
      <4>1. InHand \in Nat
        BY DEF InHand
      <4>2. Len(ground_q') = Len(ground_q) + 1 /\ Len(Coming') = Len(Coming) - 1
        BY <3>2, ForwardMovesOne
      <4> QED
        BY <1>l, <2>1, <2>2, <3>2, <4>1, <4>2 DEF Underway
    <3>3. CASE ground_pc = "stopped"
      BY <2>1, <3>3 DEF Underway
    <3> QED
      BY <1>10, <3>1, <3>2, <3>3 DEF Forwarder
  <2> QED
    BY <2>1, <2>2, <2>3 DEF CountInv, Late
<1>11. CASE GroundRecv
  <2>1. Len(ground_q') = Len(ground_q) - 1
    BY <1>11, TailType DEF GroundRecv, TypeOK
  <2>2. /\ ground_pc = "loop" /\ ground_pc' = "ack"
        /\ UNCHANGED <<uplink, Coming, mgr_pc, InExchange, packets_generated,
                       downlink_dropped>>
    BY <1>11 DEF GroundRecv, InExchange, Coming, ForwarderHand, fwdVars
  <2>3. packets_processed' = IF packets_processed < packets_generated
                             THEN packets_processed + 1 ELSE packets_processed
    BY <1>11 DEF GroundRecv, record_packet_processed
  <2> QED
    BY <1>n, <1>l, <2>1, <2>2, <2>3 DEF CountInv, Underway, InHand, Uncounted, Late
<1>12. CASE GroundAck
  <2>1. Len(uplink') = Len(uplink) + 1
    BY <1>12, AppendType DEF GroundAck, SendAck, TypeOK
  <2>2. /\ ground_pc = "ack" /\ ground_pc' = "loop"
        /\ UNCHANGED <<ground_q, Coming, mgr_pc, InExchange, packets_processed,
                       packets_generated, downlink_dropped>>
    BY <1>12 DEF GroundAck, processed, InExchange, Coming, ForwarderHand, fwdVars
  <2> QED
    BY <1>n, <1>l, <2>1, <2>2 DEF CountInv, Underway, InHand, Uncounted, Late
<1>13. CASE GroundStop
  <2>1. /\ ground_pc = "loop" /\ ground_pc' = "stopped"
        /\ UNCHANGED <<uplink, mgr_pc, InExchange, packets_processed,
                       packets_generated, downlink_dropped>>
    BY <1>13 DEF GroundStop, processed, InExchange
  <2> QED
    BY <1>n, <1>l, <2>1 DEF CountInv, Underway, InHand, Uncounted, Late
<1>14. CASE Main
  BY <1>14, <1>n, QuietCounts DEF Main, HandleFaults, AbortMission, MissionOver, SendShutdown
<1>15. CASE Tick
  BY <1>15, <1>n, QuietCounts DEF Tick
<1>16. CASE UNCHANGED vars
  BY <1>16, <1>n, QuietCounts DEF vars
<1> QED
  BY <1>1, <1>2, <1>3, <1>4, <1>5, <1>6, <1>7, <1>8, <1>9, <1>10, <1>11, <1>12, <1>13,
     <1>14, <1>15, <1>16 DEF Next, Manager, Ground

\* CountInv holds from the start.
LEMMA CountsHold == Spec => []CountInv
<1>1. Init => CountInv
  BY DEF Init, CountInv, Underway, Coming, ForwarderHand, InHand, Uncounted, Late, InExchange
<1> QED
  BY <1>1, CountStep, TypeCorrect, PTL DEF Spec

(* The ground's count of processed packets never overtakes the manager's    *)
(* count of generated ones, although the manager hands a frame over before  *)
(* it counts it.                                                            *)
THEOREM ProcessedIsBehind == Spec => []ProcessedNeverAhead
<1>1. TypeOK /\ CountInv => ProcessedNeverAhead
  BY Counted DEF CountInv, ProcessedNeverAhead, Uncounted
<1> QED
  BY <1>1, TypeCorrect, CountsHold, PTL

(* Every late ACK stands for a packet counted as dropped; so before the     *)
(* ground can block on a full uplink, as many packets were dropped as the   *)
(* uplink holds.                                                            *)
THEOREM LateAnswersWereDropped == Spec => []DebtIsCounted
<1>1. ASSUME TypeOK, CountInv PROVE DebtIsCounted
  <2>1. ASSUME ground_pc = "ack", Len(uplink) = UplinkCap
        PROVE  downlink_dropped >= UplinkCap
    <3>1. Len(ground_q) \in Nat /\ Len(Coming) \in Nat /\ downlink_dropped \in Nat
      BY <1>1, OwedType DEF TypeOK
    <3> QED
      BY <1>1, <2>1, <3>1, CapacityAssumption DEF CountInv, Late, Underway, InHand
  <2> QED
    BY <1>1, <2>1, Counted DEF DebtIsCounted, CountInv
<1> QED
  BY <1>1, TypeCorrect, CountsHold, PTL
-----------------------------------------------------------------------------
(* The order of the frames.  Unread is what the ground has been given and    *)
(* the manager has not read an ACK for; Given is what the forwarder has sent  *)
(* to the ground, and to telemetry but for the last.                        *)
Unread == uplink \o (GroundHand \o ground_q)

Given == monitor_q \o Ahead

FollowsInv ==
    ground_pc # "stopped" => \E read \in Seq(PacketIds) : Given = read \o Unread

\* What is unread are packet ids.
LEMMA UnreadType ==
  ASSUME TypeOK
  PROVE  Unread \in Seq(PacketIds) /\ GroundHand \o ground_q \in Seq(PacketIds)
  BY OwedType, ConcatType DEF Unread, TypeOK

(* The first send adds the frame to both; the ground hands on what it has in *)
(* order, and an ACK read leaves Unread at its old end.                     *)
LEMMA FollowsStep ==
  ASSUME TypeOK, FollowsInv, [Next]_vars PROVE FollowsInv'
<1> USE DEF linkVars, fwdVars, groundVars
<1>t. /\ uplink \in Seq(PacketIds) /\ ground_q \in Seq(PacketIds)
      /\ GroundHand \in Seq(PacketIds) /\ GroundHand \o ground_q \in Seq(PacketIds)
      /\ Unread \in Seq(PacketIds) /\ ground_pkt \in PacketIds
  BY OwedType, UnreadType DEF TypeOK
<1>0. ASSUME UNCHANGED <<linkVars, groundVars>> PROVE FollowsInv'
  BY <1>0 DEF FollowsInv, Unread, Given, Ahead, GroundHand
<1>1. CASE Task
  BY <1>0, <1>1
     DEF Task, TaskPacketize, TaskRing, TaskQueued, TaskRefused, TaskPoll, TaskExit
<1>2. CASE Injector
  BY <1>0, <1>2 DEF Injector, InjectorWake, InjectorSend, InjectorExit
<1>3. CASE MgrRecv \/ MgrCheck \/ MgrCount \/ MgrTransmitted \/ MgrTimeout
  BY <1>0, <1>3 DEF MgrRecv, MgrCheck, MgrCount, MgrTransmitted, MgrTimeout
<1>4. CASE MgrSend
  BY <1>4 DEF MgrSend, FollowsInv, Unread, Given, Ahead, GroundHand
<1>5. CASE MgrAck
  <2> SUFFICES ASSUME ground_pc' # "stopped"
               PROVE  \E read \in Seq(PacketIds) : Given' = read \o Unread'
    BY DEF FollowsInv
  <2>1. PICK read \in Seq(PacketIds) : Given = read \o Unread
    BY <1>5 DEF MgrAck, FollowsInv
  <2>2. uplink # << >> /\ uplink' = Tail(uplink) /\ Given' = Given
        /\ GroundHand' = GroundHand /\ ground_q' = ground_q
    BY <1>5 DEF MgrAck, AckArrived, GroundHand, Given, Ahead
  <2>3. Unread # << >> /\ Unread' = Tail(Unread)
    BY <2>2, UnreadType, TailConcat DEF Unread, TypeOK
  <2>4. /\ Append(read, Head(Unread)) \in Seq(PacketIds)
        /\ Append(read, Head(Unread)) \o Tail(Unread) = read \o Unread
    BY <2>3, UnreadType, TailType, AppendType, MoveHead
  <2> QED
    BY <2>1, <2>2, <2>3, <2>4
<1>f. ASSUME ForwardRecv \/ ForwardTelemetry PROVE FollowsInv'
  <2>1. Given' = Given
    <3>1. CASE ForwardRecv
      BY <3>1 DEF ForwardRecv, Given, Ahead
    <3>2. CASE ForwardTelemetry
      BY <3>2 DEF ForwardTelemetry, Given, Ahead, TypeOK
    <3> QED
      BY <1>f, <3>1, <3>2
  <2>2. ground_pc' = ground_pc /\ Unread' = Unread
    BY <1>f DEF ForwardRecv, ForwardTelemetry, Unread, GroundHand
  <2> QED
    BY <2>1, <2>2 DEF FollowsInv
<1>6. CASE ForwardGround
  <2> SUFFICES ASSUME ground_pc' # "stopped"
               PROVE  \E read \in Seq(PacketIds) : Given' = read \o Unread'
    BY DEF FollowsInv
  <2>1. fwd_pkt \in PacketIds /\ monitor_q \in Seq(PacketIds)
    BY DEF TypeOK
  <2>2. PICK read \in Seq(PacketIds) : Given = read \o Unread
    BY <1>6 DEF ForwardGround, FollowsInv
  <2>3. /\ Ahead = << >> /\ Ahead' = <<fwd_pkt>> /\ monitor_q' = monitor_q
        /\ ground_q' = Append(ground_q, fwd_pkt)
        /\ uplink' = uplink /\ GroundHand' = GroundHand
    BY <1>6 DEF ForwardGround, ToGround, GroundHand, Ahead
  <2>4. Given' = Append(Given, fwd_pkt)
    BY <2>1, <2>3 DEF Given
  <2>5. GroundHand \o Append(ground_q, fwd_pkt) = Append(GroundHand \o ground_q, fwd_pkt)
    BY <2>1, <1>t, AppendConcat
  <2>6. Unread' = Append(Unread, fwd_pkt)
    <3>1. uplink \o Append(GroundHand \o ground_q, fwd_pkt)
            = Append(uplink \o (GroundHand \o ground_q), fwd_pkt)
      BY <2>1, <1>t, AppendConcat
    <3> QED
      BY <2>3, <2>5, <3>1 DEF Unread
  <2>7. read \o Append(Unread, fwd_pkt) = Append(read \o Unread, fwd_pkt)
    BY <2>1, UnreadType, AppendConcat
  <2> QED
    BY <2>2, <2>4, <2>6, <2>7
<1>7. CASE GroundRecv
  <2>1. GroundHand = << >> /\ GroundHand' = <<Head(ground_q)>>
        /\ ground_q # << >> /\ ground_q' = Tail(ground_q)
        /\ uplink' = uplink /\ Given' = Given
        /\ ground_pc # "stopped"
    BY <1>7 DEF GroundRecv, GroundHand, Given, Ahead
  <2>2. <<Head(ground_q)>> \o (Tail(ground_q) \o << >>) = << >> \o (ground_q \o << >>)
    BY <2>1, TakeHead DEF TypeOK
  <2>3. Tail(ground_q) \in Seq(PacketIds) /\ ground_q \in Seq(PacketIds)
    BY <2>1, TailType DEF TypeOK
  <2>4. Tail(ground_q) \o << >> = Tail(ground_q) /\ ground_q \o << >> = ground_q
    BY <2>3
  <2>5. Unread' = Unread
    BY <2>1, <2>2, <2>4 DEF Unread
  <2> QED
    BY <2>1, <2>5 DEF FollowsInv
<1>8. CASE GroundAck
  <2>1. GroundHand = <<ground_pkt>> /\ GroundHand' = << >>
        /\ uplink' = Append(uplink, ground_pkt)
        /\ ground_q' = ground_q /\ Given' = Given /\ ground_pc # "stopped"
    BY <1>8 DEF GroundAck, SendAck, GroundHand, Given, Ahead
  <2>2. Append(uplink, ground_pkt) \o (<< >> \o ground_q)
          = uplink \o (<<ground_pkt>> \o ground_q)
    BY <1>t, PassHand
  <2>3. Unread' = Unread
    BY <2>1, <2>2 DEF Unread
  <2> QED
    BY <2>1, <2>3 DEF FollowsInv
<1>9. CASE GroundStop
  BY <1>9 DEF GroundStop, FollowsInv
<1>10. CASE Main
  BY <1>0, <1>10 DEF Main, HandleFaults, AbortMission, MissionOver, SendShutdown
<1>11. CASE Tick
  BY <1>0, <1>11 DEF Tick
<1>12. CASE UNCHANGED vars
  BY <1>0, <1>12 DEF vars
<1> QED
  BY <1>1, <1>2, <1>3, <1>4, <1>5, <1>f, <1>6, <1>7, <1>8, <1>9, <1>10, <1>11, <1>12
     DEF Next, Manager, Forwarder, Ground

(* The ACKs not yet read and the frames the ground still has are the latest *)
(* that telemetry was given, in the same order, but for the one frame that  *)
(* is between the forwarder's two sends: the ground may have it, and have   *)
(* answered it, before telemetry gets it.                                   *)
THEOREM GroundAhead == Spec => []GroundOneAhead
<1>1. Init => FollowsInv
  <2>1. << >> \in Seq(PacketIds) /\ << >> \o << >> = << >> \o (<< >> \o (<< >> \o << >>))
    OBVIOUS
  <2> QED
    BY <2>1 DEF Init, FollowsInv, Given, Ahead, Unread, GroundHand
<1>2. TypeOK /\ FollowsInv => GroundOneAhead
  BY UnreadType, SuffixOfConcat DEF FollowsInv, GroundOneAhead, Given, Unread
<1> QED
  BY <1>1, <1>2, FollowsStep, TypeCorrect, PTL DEF Spec
-----------------------------------------------------------------------------
(* The order of the packets.                                                *)
(* What p, about to be queued, leaves in front of it.                       *)
Behind(p) ==
    \A i \in 1 .. Len(downlink) :
        downlink[i].src = "SENSOR" => downlink[i].age >= p.age /\ downlink[i].id < p.id

(* StaleFirst is kept because the only thread that makes sensor packets has *)
(* at most one in its hands, and queues it before it makes the next.         *)
OrderInv ==
    /\ StaleFirst
    /\ \A i \in 1 .. Len(downlink) :
          /\ downlink[i].src = "SENSOR" => downlink[i].id < packet_id_counter
          /\ downlink[i].src = "FAULT" => downlink[i].id = 0
    /\ task_pc \in {"ring", "send"} =>
          task_pkt.src = "SENSOR" /\ task_pkt.id < packet_id_counter /\ Behind(task_pkt)
    /\ injector_pc = "send" => injector_pkt.src = "FAULT" /\ injector_pkt.id = 0

(* Time passes for all packets alike.                                       *)
LEMMA OlderOrder ==
  ASSUME NEW p \in Packet, NEW q \in Packet, p.age >= q.age
  PROVE  Older(p).age >= Older(q).age
<1>1. /\ Older(p).age = IF p.age > VisibilityTicks THEN p.age ELSE p.age + 1
      /\ Older(q).age = IF q.age > VisibilityTicks THEN q.age ELSE q.age + 1
      /\ p.age \in Nat /\ q.age \in Nat
  BY DEF Older, Packet
<1> QED
  BY <1>1, TimingAssumption

\* Every packet in the channel grows older by itself.
LEMMA AgedAt ==
  ASSUME NEW s \in Seq(Packet)
  PROVE  \A i \in 1 .. Len(s) : [j \in DOMAIN s |-> Older(s[j])][i] = Older(s[i])
  OBVIOUS

(* Queueing a packet that belongs behind all the others keeps the order.    *)
LEMMA QueueInOrder ==
  ASSUME TypeOK, OrderInv, NEW p \in Packet, downlink' = Append(downlink, p),
         packet_id_counter' = packet_id_counter,
         p.src = "SENSOR" => p.id < packet_id_counter /\ Behind(p),
         p.src = "FAULT" => p.id = 0
  PROVE  /\ StaleFirst'
         /\ \A i \in 1 .. Len(downlink') :
              /\ downlink'[i].src = "SENSOR" => downlink'[i].id < packet_id_counter
              /\ downlink'[i].src = "FAULT" => downlink'[i].id = 0
<1>1. /\ Len(downlink') = Len(downlink) + 1 /\ Len(downlink) \in Nat
      /\ \A i \in 1 .. Len(downlink) : downlink'[i] = downlink[i]
      /\ downlink'[Len(downlink) + 1] = p
  BY DEF TypeOK
<1>2. \A i \in 1 .. Len(downlink') : i \in 1 .. Len(downlink) \/ i = Len(downlink) + 1
  BY <1>1
<1>3. StaleFirst'
  <2> SUFFICES ASSUME NEW i \in 1 .. Len(downlink'), NEW j \in 1 .. Len(downlink'), i < j,
                      downlink'[i].src = "SENSOR", downlink'[j].src = "SENSOR"
               PROVE  /\ downlink'[i].age >= downlink'[j].age
                      /\ downlink'[i].id < downlink'[j].id
    BY DEF StaleFirst
  <2>1. i \in 1 .. Len(downlink) /\ downlink'[i] = downlink[i]
    BY <1>1, <1>2
  <2>2. CASE j \in 1 .. Len(downlink)
    BY <1>1, <2>1, <2>2 DEF OrderInv, StaleFirst
  <2>3. CASE j = Len(downlink) + 1
    BY <1>1, <2>1, <2>3 DEF Behind
  <2> QED
    BY <1>2, <2>2, <2>3
<1> QED
  BY <1>1, <1>2, <1>3 DEF OrderInv

\* Only queueing adds to the order, and it adds at its end.
LEMMA OrderStep ==
  ASSUME TypeOK, OrderInv, [Next]_vars PROVE OrderInv'
<1> USE DEF taskVars, injectorVars
<1>0. ASSUME UNCHANGED <<downlink, packet_id_counter, task_pc, task_pkt, injectorVars>>
      PROVE  OrderInv'
  BY <1>0 DEF OrderInv, StaleFirst, Behind
<1>c. packet_id_counter \in Nat /\ task_pkt \in Packet /\ injector_pkt \in Packet
  BY BoundsAssumption DEF TypeOK, PacketIds
<1>d. downlink \in Seq(Packet) /\ Len(downlink) \in Nat
      /\ \A i \in 1 .. Len(downlink) : downlink[i] \in Packet
  <2>1. downlink \in Seq(Packet)
    BY DEF TypeOK
  <2> QED
    BY <2>1
<1>p. \A p \in Packet : p.id \in Nat /\ p.age \in Nat
  BY BoundsAssumption DEF Packet, PacketIds
<1>1. CASE TaskPacketize
  <2>1. /\ task_pkt' = [id |-> packet_id_counter, src |-> "SENSOR", age |-> 0]
        /\ packet_id_counter' = packet_id_counter + 1
        /\ UNCHANGED <<downlink, injector_pc, injector_pkt>>
    BY <1>1 DEF TaskPacketize
  <2>2. task_pkt'.src = "SENSOR" /\ task_pkt'.id = packet_id_counter /\ task_pkt'.age = 0
    BY <2>1
  <2>3. Behind(task_pkt)'
    BY <1>d, <1>p, <2>1, <2>2 DEF OrderInv, Behind
  <2>4. StaleFirst'
    BY <2>1 DEF OrderInv, StaleFirst
  <2>5. \A i \in 1 .. Len(downlink) :
          downlink[i].src = "SENSOR" => downlink[i].id < packet_id_counter + 1
    BY <1>c, <1>d, <1>p DEF OrderInv
  <2> QED
    BY <1>c, <2>1, <2>2, <2>3, <2>4, <2>5 DEF OrderInv
<1>2. CASE TaskRing
  <2>1. /\ task_pc = "ring" /\ task_pc' = "send"
        /\ UNCHANGED <<downlink, packet_id_counter, task_pkt, injector_pc, injector_pkt>>
    BY <1>2 DEF TaskRing
  <2> QED
    BY <2>1 DEF OrderInv, StaleFirst, Behind
<1>3. CASE TaskQueued
  <2>1. /\ task_pc = "send" /\ task_pc' = "poll" /\ downlink' = Append(downlink, task_pkt)
        /\ UNCHANGED <<packet_id_counter, injector_pc, injector_pkt>>
    BY <1>3 DEF TaskQueued, Queue
  <2>2. task_pkt.src = "SENSOR" /\ task_pkt.id < packet_id_counter /\ Behind(task_pkt)
    BY <2>1 DEF OrderInv
  <2> QED
    BY <1>c, <2>1, <2>2, QueueInOrder DEF OrderInv
<1>4. CASE TaskRefused \/ TaskPoll \/ TaskExit
  <2>1. /\ task_pc' \notin {"ring", "send"}
        /\ UNCHANGED <<downlink, packet_id_counter, injector_pc, injector_pkt>>
    BY <1>4 DEF TaskRefused, TaskPoll, TaskExit
  <2> QED
    BY <2>1 DEF OrderInv, StaleFirst
<1>5. CASE InjectorWake
  <2>1. /\ injector_pkt' = [id |-> 0, src |-> "FAULT", age |-> 0]
        /\ UNCHANGED <<downlink, packet_id_counter, task_pc, task_pkt>>
    BY <1>5 DEF InjectorWake
  <2>2. injector_pkt'.src = "FAULT" /\ injector_pkt'.id = 0
    BY <2>1
  <2> QED
    BY <2>1, <2>2 DEF OrderInv, StaleFirst, Behind
<1>6. CASE InjectorSend
  <2>1. /\ injector_pc = "send" /\ injector_pc' = "sleep"
        /\ downlink' = Append(downlink, injector_pkt)
        /\ UNCHANGED <<packet_id_counter, task_pc, task_pkt>>
    BY <1>6 DEF InjectorSend, Queue
  <2>2. injector_pkt.src = "FAULT" /\ injector_pkt.id = 0
    BY <2>1 DEF OrderInv
  <2>3. /\ StaleFirst'
        /\ \A i \in 1 .. Len(downlink') :
              /\ downlink'[i].src = "SENSOR" => downlink'[i].id < packet_id_counter
              /\ downlink'[i].src = "FAULT" => downlink'[i].id = 0
    BY <1>c, <2>1, <2>2, QueueInOrder
  <2>4. \A i \in 1 .. Len(downlink') :
          downlink'[i].src = "SENSOR" =>
            i \in 1 .. Len(downlink) /\ downlink'[i] = downlink[i]
    <3>1. /\ Len(downlink') = Len(downlink) + 1
          /\ \A i \in 1 .. Len(downlink) : downlink'[i] = downlink[i]
          /\ downlink'[Len(downlink) + 1] = injector_pkt
      BY <1>c, <1>d, <2>1
    <3>2. \A i \in 1 .. Len(downlink') : i \in 1 .. Len(downlink) \/ i = Len(downlink) + 1
      BY <1>d, <3>1
    <3> QED
      BY <2>2, <3>1, <3>2
  <2>5. task_pc \in {"ring", "send"} => Behind(task_pkt)'
    BY <2>1, <2>4 DEF OrderInv, Behind
  <2> QED
    BY <2>1, <2>3, <2>5 DEF OrderInv
<1>7. CASE InjectorExit
  <2>1. injector_pc' = "exited" /\ UNCHANGED <<downlink, packet_id_counter, task_pc, task_pkt>>
    BY <1>7 DEF InjectorExit
  <2> QED
    BY <2>1 DEF OrderInv, StaleFirst, Behind
<1>8. CASE MgrRecv
  <2>1. /\ downlink # << >> /\ downlink' = Tail(downlink)
        /\ UNCHANGED <<packet_id_counter, task_pc, task_pkt, injector_pc, injector_pkt>>
    BY <1>8 DEF MgrRecv
  <2>2. \A i \in 1 .. Len(downlink') :
          i + 1 \in 1 .. Len(downlink) /\ downlink'[i] = downlink[i + 1]
    BY <1>d, <2>1
  <2>3. StaleFirst'
    <3> SUFFICES ASSUME NEW i \in 1 .. Len(downlink'), NEW j \in 1 .. Len(downlink'), i < j,
                        downlink'[i].src = "SENSOR", downlink'[j].src = "SENSOR"
                 PROVE  /\ downlink'[i].age >= downlink'[j].age
                        /\ downlink'[i].id < downlink'[j].id
      BY DEF StaleFirst
    <3>1. i + 1 < j + 1
      OBVIOUS
    <3> QED
      BY <2>2, <3>1 DEF OrderInv, StaleFirst
  <2>4. \A i \in 1 .. Len(downlink') :
          /\ downlink'[i].src = "SENSOR" => downlink'[i].id < packet_id_counter
          /\ downlink'[i].src = "FAULT" => downlink'[i].id = 0
    BY <2>2 DEF OrderInv
  <2>5. task_pc \in {"ring", "send"} => Behind(task_pkt)'
    BY <2>1, <2>2 DEF OrderInv, Behind
  <2> QED
    BY <2>1, <2>3, <2>4, <2>5 DEF OrderInv
<1>9. CASE MgrCheck \/ MgrSend \/ MgrCount \/ MgrTransmitted \/ MgrAck \/ MgrTimeout
  BY <1>0, <1>9 DEF MgrCheck, MgrSend, MgrCount, MgrTransmitted, MgrAck, MgrTimeout
<1>10. CASE Forwarder \/ Ground
  BY <1>0, <1>10 DEF Forwarder, ForwardRecv, ForwardGround, ForwardTelemetry, Ground, GroundRecv, GroundAck, GroundStop
<1>11. CASE Main
  BY <1>0, <1>11 DEF Main, HandleFaults, AbortMission, MissionOver, SendShutdown
<1>12. CASE Tick
  <2>1. /\ downlink' = [i \in DOMAIN downlink |-> Older(downlink[i])]
        /\ task_pkt' = (IF task_pc \in {"ring", "send"} THEN Older(task_pkt) ELSE task_pkt)
        /\ injector_pkt' = IF injector_pc = "send" THEN Older(injector_pkt) ELSE injector_pkt
        /\ UNCHANGED <<packet_id_counter, task_pc, injector_pc>>
    BY <1>12 DEF Tick
  <2>2. /\ Len(downlink') = Len(downlink)
        /\ \A i \in 1 .. Len(downlink) : downlink'[i] = Older(downlink[i])
    BY <1>d, <2>1, AgedChannel, AgedAt
  <2>3. \A i \in 1 .. Len(downlink) :
          downlink'[i].id = downlink[i].id /\ downlink'[i].src = downlink[i].src
    BY <1>d, <2>2, OlderType
  <2>4. StaleFirst'
    <3> SUFFICES ASSUME NEW i \in 1 .. Len(downlink), NEW j \in 1 .. Len(downlink), i < j,
                        downlink'[i].src = "SENSOR", downlink'[j].src = "SENSOR"
                 PROVE  /\ downlink'[i].age >= downlink'[j].age
                        /\ downlink'[i].id < downlink'[j].id
      BY <2>2 DEF StaleFirst
    <3>1. downlink[i].age >= downlink[j].age /\ downlink[i].id < downlink[j].id
      BY <2>3 DEF OrderInv, StaleFirst
    <3> QED
      BY <1>d, <2>2, <2>3, <3>1, OlderOrder
  <2>5. ASSUME task_pc \in {"ring", "send"}
        PROVE  task_pkt'.src = "SENSOR" /\ task_pkt'.id < packet_id_counter /\ Behind(task_pkt)'
    <3>1. task_pkt.src = "SENSOR" /\ task_pkt.id < packet_id_counter /\ Behind(task_pkt)
      BY <2>5 DEF OrderInv
    <3>2. task_pkt' = Older(task_pkt)
      BY <2>1, <2>5
    <3>3. task_pkt'.src = task_pkt.src /\ task_pkt'.id = task_pkt.id
      BY <1>c, <3>2, OlderType
    <3>4. ASSUME NEW i \in 1 .. Len(downlink), downlink'[i].src = "SENSOR"
          PROVE  downlink'[i].age >= task_pkt'.age /\ downlink'[i].id < task_pkt'.id
      <4>1. downlink[i].age >= task_pkt.age /\ downlink[i].id < task_pkt.id
        BY <2>3, <3>1, <3>4 DEF Behind
      <4> QED
        BY <1>c, <1>d, <2>2, <2>3, <3>2, <3>3, <4>1, OlderOrder
    <3> QED
      BY <2>2, <3>1, <3>3, <3>4 DEF Behind
  <2>6. injector_pc = "send" => injector_pkt'.src = "FAULT" /\ injector_pkt'.id = 0
    BY <1>c, <2>1, OlderType DEF OrderInv
  <2> QED
    BY <2>1, <2>2, <2>3, <2>4, <2>5, <2>6 DEF OrderInv
<1>13. CASE UNCHANGED vars
  BY <1>0, <1>13 DEF vars
<1> QED
  BY <1>1, <1>2, <1>3, <1>4, <1>5, <1>6, <1>7, <1>8, <1>9, <1>10, <1>11, <1>12, <1>13
     DEF Next, Task, Injector, Manager

\* OrderInv holds from the start.
LEMMA OrderHolds == Spec => []OrderInv
<1>1. Init => OrderInv
  BY DEF Init, OrderInv, StaleFirst
<1> QED
  BY <1>1, OrderStep, TypeCorrect, PTL DEF Spec

(* Sensor packets in the downlink channel are ordered by age and by id, so  *)
(* those that missed the visibility window are in front of the others and   *)
(* the manager drops them before it transmits one.                          *)
THEOREM StaleAreFirst == Spec => []StaleFirst
<1>1. OrderInv => StaleFirst
  BY DEF OrderInv
<1> QED
  BY <1>1, OrderHolds, PTL
-----------------------------------------------------------------------------
(* The pairing of ACKs with packets.                                        *)
(* Every answer owed is for an earlier packet than n; so is what the manager *)
(* has in its hands.                                                        *)
OwedBelow(n) == \A i \in 1 .. Len(Owed) : Owed[i] < n
HandedOnBelow(n) == OwedBelow(n) /\ (mgr_pc # "recv" => mgr_pkt.id < n)

(* Whatever is still to be transmitted under an id of its own (injected      *)
(* packets and the first sensor packet share 0) has a larger id than all     *)
(* that was handed on before it; so once it is transmitted, its own answer   *)
(* is the only one owed that carries its id.                                *)
PairingInv ==
    /\ \A n \in Nat : (n > 0 /\ n >= packet_id_counter) => HandedOnBelow(n)
    /\ (task_pc \in {"ring", "send"} /\ task_pkt.id # 0) => HandedOnBelow(task_pkt.id)
    /\ \A i \in 1 .. Len(downlink) : downlink[i].id # 0 => HandedOnBelow(downlink[i].id)
    /\ (mgr_pc \in {"check", "send"} /\ mgr_pkt.id # 0) => OwedBelow(mgr_pkt.id)
    /\ (InExchange /\ mgr_pkt.id # 0 /\ ground_pc # "stopped") =>
          \A i \in 1 .. Len(Owed) - 1 : Owed[i] < mgr_pkt.id

(* Some of what was owed is owed no more, and nothing was handed on.        *)
LEMMA FewerBelow ==
  ASSUME \A i \in 1 .. Len(Owed') : \E j \in 1 .. Len(Owed) : Owed'[i] = Owed[j],
         mgr_pc' = "recv" \/ (mgr_pc # "recv" /\ mgr_pkt'.id = mgr_pkt.id)
  PROVE  \A n : (OwedBelow(n) => OwedBelow(n)') /\ (HandedOnBelow(n) => HandedOnBelow(n)')
  BY DEF OwedBelow, HandedOnBelow

(* The manager lets go of its packet.                                       *)
LEMMA LetGo ==
  ASSUME PairingInv, mgr_pc' = "recv",
         \A i \in 1 .. Len(Owed') : \E j \in 1 .. Len(Owed) : Owed'[i] = Owed[j],
         UNCHANGED <<downlink, packet_id_counter, task_pc, task_pkt>>
  PROVE  PairingInv'
<1>1. \A n : HandedOnBelow(n) => HandedOnBelow(n)'
  BY FewerBelow
<1>2. ~InExchange'
  BY DEF InExchange
<1> QED
  BY <1>1, <1>2 DEF PairingInv

\* A packet's id is below all that are still to come once it is handed on.
LEMMA PairingStep ==
  ASSUME TypeOK, OrderInv, PairingInv, [Next]_vars PROVE PairingInv'
<1> USE DEF taskVars, injectorVars
<1>t. /\ packet_id_counter \in Nat /\ task_pkt \in Packet /\ injector_pkt \in Packet
      /\ mgr_pkt \in Packet /\ mgr_pkt.id \in PacketIds
      /\ Owed \in Seq(PacketIds) /\ Len(Owed) \in Nat
  <2>1. /\ packet_id_counter \in Nat /\ task_pkt \in Packet /\ injector_pkt \in Packet
        /\ mgr_pkt \in Packet
    BY BoundsAssumption DEF TypeOK, PacketIds
  <2>2. Owed \in Seq(PacketIds)
    BY OwedType
  <2>3. mgr_pkt.id \in PacketIds
    BY <2>1, FreshType
  <2>4. Len(Owed) \in Nat
    BY <2>2
  <2> QED
    BY <2>1, <2>2, <2>3, <2>4
<1>d. downlink \in Seq(Packet) /\ Len(downlink) \in Nat
      /\ \A i \in 1 .. Len(downlink) : downlink[i] \in Packet
  <2>1. downlink \in Seq(Packet)
    BY DEF TypeOK
  <2> QED
    BY <2>1
<1>p. \A p \in Packet : p.id \in Nat /\ (p.src = "SENSOR" \/ p.src = "FAULT")
  BY BoundsAssumption DEF Packet, PacketIds
<1>o. ASSUME UNCHANGED <<linkVars, groundVars>> PROVE Owed' = Owed
  BY <1>o DEF Owed, InFlight, Coming, ForwarderHand, GroundHand, linkVars, fwdVars,
              groundVars
<1>h. ASSUME UNCHANGED <<Owed, mgr_pc, mgr_pkt, ground_pc>>
      PROVE  /\ \A n : (OwedBelow(n) <=> OwedBelow(n)') /\ (HandedOnBelow(n) <=> HandedOnBelow(n)')
             /\ (mgr_pc' \in {"check", "send"} /\ mgr_pkt'.id # 0) => OwedBelow(mgr_pkt.id)'
             /\ (InExchange' /\ mgr_pkt'.id # 0 /\ ground_pc' # "stopped") =>
                  \A i \in 1 .. Len(Owed') - 1 : Owed'[i] < mgr_pkt'.id
  <2>1. /\ \A n : OwedBelow(n) <=> OwedBelow(n)'
        /\ \A n : HandedOnBelow(n) <=> HandedOnBelow(n)'
        /\ InExchange' <=> InExchange
    BY <1>h DEF OwedBelow, HandedOnBelow, InExchange
  <2> QED
    BY <1>h, <2>1 DEF PairingInv
<1>0. ASSUME UNCHANGED <<Owed, mgr_pc, mgr_pkt, ground_pc, downlink, packet_id_counter,
                         task_pc, task_pkt>>
      PROVE  PairingInv'
  BY <1>0, <1>h DEF PairingInv
<1>1. CASE TaskPacketize
  <2>1. /\ task_pkt' = [id |-> packet_id_counter, src |-> "SENSOR", age |-> 0]
        /\ packet_id_counter' = packet_id_counter + 1
        /\ UNCHANGED <<downlink, mgr_pc, mgr_pkt, ground_pc, Owed>>
    BY <1>1, <1>o DEF TaskPacketize, mgrVars, groundVars
  <2>2. task_pkt'.id = packet_id_counter
    BY <2>1
  <2>3. packet_id_counter # 0 => HandedOnBelow(packet_id_counter)
    BY <1>t DEF PairingInv
  <2>4. \A n \in Nat : (n > 0 /\ n >= packet_id_counter + 1) => HandedOnBelow(n)
    BY <1>t DEF PairingInv
  <2> QED
    BY <1>h, <2>1, <2>2, <2>3, <2>4 DEF PairingInv
<1>2. CASE TaskRing
  <2>1. /\ task_pc = "ring"
        /\ UNCHANGED <<downlink, mgr_pc, mgr_pkt, ground_pc, Owed, packet_id_counter, task_pkt>>
    BY <1>2, <1>o DEF TaskRing, mgrVars, groundVars
  <2> QED
    BY <1>h, <2>1 DEF PairingInv
<1>3. CASE TaskQueued
  <2>1. /\ task_pc = "send" /\ task_pc' = "poll" /\ downlink' = Append(downlink, task_pkt)
        /\ UNCHANGED <<mgr_pc, mgr_pkt, ground_pc, Owed, packet_id_counter>>
    BY <1>3, <1>o DEF TaskQueued, Queue, mgrVars, groundVars
  <2>2. \A i \in 1 .. Len(downlink') :
          downlink'[i] = task_pkt \/ (i \in 1 .. Len(downlink) /\ downlink'[i] = downlink[i])
    BY <1>t, <1>d, <2>1
  <2> QED
    BY <1>h, <2>1, <2>2 DEF PairingInv
<1>4. CASE TaskRefused \/ TaskPoll \/ TaskExit
  <2>1. /\ task_pc' \notin {"ring", "send"}
        /\ UNCHANGED <<downlink, mgr_pc, mgr_pkt, ground_pc, Owed, packet_id_counter>>
    BY <1>4, <1>o DEF TaskRefused, TaskPoll, TaskExit, mgrVars, groundVars
  <2> QED
    BY <1>h, <2>1 DEF PairingInv
<1>5. CASE InjectorWake \/ InjectorExit
  BY <1>5, <1>o, <1>0 DEF InjectorWake, InjectorExit, mgrVars, groundVars
<1>6. CASE InjectorSend
  <2>1. /\ injector_pkt.id = 0 /\ downlink' = Append(downlink, injector_pkt)
        /\ UNCHANGED <<mgr_pc, mgr_pkt, ground_pc, Owed, packet_id_counter, task_pc, task_pkt>>
    BY <1>6, <1>o DEF InjectorSend, Queue, OrderInv, mgrVars, groundVars
  <2>2. \A i \in 1 .. Len(downlink') :
          downlink'[i] = injector_pkt \/ (i \in 1 .. Len(downlink) /\ downlink'[i] = downlink[i])
    BY <1>t, <1>d, <2>1
  <2> QED
    BY <1>h, <2>1, <2>2 DEF PairingInv
<1>7. CASE MgrRecv
  <2>1. /\ downlink # << >> /\ downlink' = Tail(downlink)
        /\ UNCHANGED <<ground_pc, Owed, packet_id_counter, task_pc, task_pkt>>
        /\ \/ mgr_pc' = "recv"
           \/ mgr_pc' = "check" /\ mgr_pkt' = [Head(downlink) EXCEPT !.age = 0]
    BY <1>7, <1>o DEF MgrRecv, GiveUp, groundVars
  <2>2. /\ 1 \in 1 .. Len(downlink) /\ Head(downlink) = downlink[1]
        /\ \A i \in 1 .. Len(downlink') :
              i + 1 \in 1 .. Len(downlink) /\ downlink'[i] = downlink[i + 1] /\ 1 < i + 1
    BY <1>d, <2>1
  <2> DEFINE h == downlink[1]
  <2>3. mgr_pc' = "recv" \/ (mgr_pc' = "check" /\ mgr_pkt'.id = h.id)
    BY <1>d, <2>1, <2>2, FreshType
  <2>4. \A n : (OwedBelow(n) /\ h.id < n) => HandedOnBelow(n)'
    BY <2>1, <2>3 DEF OwedBelow, HandedOnBelow
  <2>5. ~InExchange' /\ \A n : OwedBelow(n) <=> OwedBelow(n)'
    BY <2>1, <2>3 DEF InExchange, OwedBelow
  <2>6. h.src = "FAULT" => h.id = 0
    BY <2>2 DEF OrderInv
  <2>7. \A n \in Nat : (n > 0 /\ n >= packet_id_counter) => HandedOnBelow(n)'
    <3>1. h.src = "SENSOR" => h.id < packet_id_counter
      BY <2>2 DEF OrderInv
    <3>2. \A n \in Nat : (n > 0 /\ n >= packet_id_counter) => h.id < n
      BY <1>t, <1>d, <1>p, <2>2, <2>6, <3>1
    <3> QED
      BY <2>4, <3>2 DEF PairingInv, HandedOnBelow
  <2>8. (task_pc \in {"ring", "send"} /\ task_pkt.id # 0) => HandedOnBelow(task_pkt.id)'
    <3> SUFFICES ASSUME task_pc \in {"ring", "send"}, task_pkt.id # 0
                 PROVE  HandedOnBelow(task_pkt.id)'
      OBVIOUS
    <3>1. h.id < task_pkt.id
      BY <1>t, <1>d, <1>p, <2>2, <2>6 DEF OrderInv, Behind
    <3>2. OwedBelow(task_pkt.id)
      BY DEF PairingInv, HandedOnBelow
    <3> QED
      BY <2>1, <2>4, <3>1, <3>2
  <2>9. ASSUME NEW i \in 1 .. Len(downlink'), downlink'[i].id # 0
        PROVE  HandedOnBelow(downlink[i].id)'
    <3>1. i + 1 \in 1 .. Len(downlink) /\ downlink'[i] = downlink[i + 1] /\ 1 < i + 1
      BY <2>2
    <3>2. downlink[i + 1].src = "SENSOR"
      BY <1>d, <1>p, <2>9, <3>1 DEF OrderInv
    <3>3. h.id < downlink[i + 1].id
      BY <1>d, <1>p, <2>2, <2>6, <2>9, <3>1, <3>2 DEF OrderInv, StaleFirst
    <3>4. OwedBelow(downlink[i + 1].id)
      BY <2>9, <3>1 DEF PairingInv, HandedOnBelow
    <3> QED
      BY <2>4, <3>1, <3>3, <3>4
  <2>10. h.id # 0 => OwedBelow(h.id)
    <3>1. downlink[1].id # 0 => HandedOnBelow(downlink[1].id)
      BY <2>2 DEF PairingInv
    <3> QED
      BY <3>1 DEF HandedOnBelow
  <2>11. (mgr_pc' \in {"check", "send"} /\ mgr_pkt'.id # 0) => OwedBelow(mgr_pkt.id)'
    <3>1. CASE mgr_pc' = "check" /\ mgr_pkt'.id = h.id
      BY <2>1, <2>10, <3>1 DEF OwedBelow
    <3>2. CASE mgr_pc' = "recv"
      BY <3>2
    <3> QED
      BY <2>3, <3>1, <3>2
  <2> HIDE DEF h
  <2>12. \A i \in 1 .. Len(downlink') : downlink'[i].id # 0 => HandedOnBelow(downlink[i].id)'
    BY <2>9
  <2> QED
    BY <2>1, <2>5, <2>7, <2>8, <2>11, <2>12 DEF PairingInv
<1>8. CASE MgrCheck
  <2>1. UNCHANGED <<ground_pc, Owed, packet_id_counter, task_pc, task_pkt, downlink>>
    BY <1>8, <1>o DEF MgrCheck, groundVars
  <2>2. CASE mgr_pc' = "recv"
    BY <2>1, <2>2, LetGo
  <2>3. CASE mgr_pc' # "recv"
    <3>1. mgr_pc = "check" /\ mgr_pc' = "send" /\ mgr_pkt' = mgr_pkt
      BY <1>8, <2>3 DEF MgrCheck, GiveUp
    <3>2. \A n : (OwedBelow(n) => OwedBelow(n)') /\ (HandedOnBelow(n) => HandedOnBelow(n)')
      BY <2>1, <3>1, FewerBelow
    <3>3. ~InExchange'
      BY <3>1 DEF InExchange
    <3> QED
      BY <2>1, <3>1, <3>2, <3>3 DEF PairingInv
  <2> QED
    BY <2>2, <2>3
<1>9. CASE MgrSend
  <2>1. /\ mgr_pc = "send" /\ mgr_pc' = "count"
        /\ UNCHANGED <<ground_pc, mgr_pkt, packet_id_counter, task_pc, task_pkt, downlink>>
    BY <1>9 DEF MgrSend, groundVars
  <2>2. Owed' = IF ground_pc # "stopped" THEN Append(Owed, mgr_pkt.id) ELSE Owed
    BY <1>9, SendOwesAnswer
  <2>3. /\ \A i \in 1 .. Len(Owed') :
              Owed'[i] = mgr_pkt.id \/ (i \in 1 .. Len(Owed) /\ Owed'[i] = Owed[i])
        /\ ground_pc # "stopped" =>
              \A i \in 1 .. Len(Owed') - 1 : i \in 1 .. Len(Owed) /\ Owed'[i] = Owed[i]
    BY <1>t, <2>2
  <2>4. \A n : HandedOnBelow(n) => HandedOnBelow(n)'
    BY <2>1, <2>3 DEF HandedOnBelow, OwedBelow
  <2>5. mgr_pkt.id # 0 => OwedBelow(mgr_pkt.id)
    BY <2>1 DEF PairingInv
  <2>6. (mgr_pkt.id # 0 /\ ground_pc # "stopped") =>
          \A i \in 1 .. Len(Owed') - 1 : Owed'[i] < mgr_pkt.id
    BY <2>3, <2>5 DEF OwedBelow
  <2> QED
    BY <2>1, <2>4, <2>6 DEF PairingInv
<1>10. CASE MgrCount \/ MgrTransmitted
  <2>1. /\ UNCHANGED <<Owed, ground_pc, mgr_pkt, packet_id_counter, task_pc, task_pkt, downlink>>
        /\ InExchange /\ mgr_pc # "recv" /\ mgr_pc' \notin {"recv", "check", "send"}
    BY <1>10, <1>o DEF MgrCount, MgrTransmitted, groundVars, InExchange
  <2>2. \A n : HandedOnBelow(n) => HandedOnBelow(n)'
    BY <2>1, FewerBelow
  <2> QED
    BY <2>1, <2>2 DEF PairingInv
<1>11. CASE MgrAck
  <2>1. /\ UNCHANGED <<packet_id_counter, task_pc, task_pkt, downlink>>
        /\ mgr_pc' = "recv"
    BY <1>11 DEF MgrAck
  <2>2. \A i \in 1 .. Len(Owed') : \E j \in 1 .. Len(Owed) : Owed'[i] = Owed[j]
    <3>1. Owed # << >> /\ Owed' = Tail(Owed)
      BY <1>11, AckPaysOldest
    <3>2. \A i \in 1 .. Len(Owed') : i + 1 \in 1 .. Len(Owed) /\ Owed'[i] = Owed[i + 1]
      BY <1>t, <3>1
    <3> QED
      BY <3>2
  <2> QED
    BY <2>1, <2>2, LetGo
<1>12. CASE MgrTimeout
  <2>1. /\ UNCHANGED <<Owed, packet_id_counter, task_pc, task_pkt, downlink>>
        /\ mgr_pc' = "recv"
    BY <1>12, <1>o DEF MgrTimeout, GiveUp
  <2> QED
    BY <2>1, LetGo
<1>13. CASE Forwarder
  BY <1>0, <1>13, ForwardKeepsOwed
     DEF Forwarder, ForwardRecv, ForwardGround, ForwardTelemetry, mgrVars, groundVars
<1>14. CASE GroundRecv \/ GroundAck
  <2>1. /\ UNCHANGED <<Owed, mgr_pc, mgr_pkt, downlink, packet_id_counter, task_pc, task_pkt>>
        /\ ground_pc # "stopped" /\ ground_pc' # "stopped"
    BY <1>14, GroundRecvKeepsOwed, GroundAckKeepsOwed DEF GroundRecv, GroundAck, mgrVars
  <2>2. (InExchange' <=> InExchange)
        /\ \A n : (OwedBelow(n) => OwedBelow(n)') /\ (HandedOnBelow(n) => HandedOnBelow(n)')
    BY <2>1 DEF InExchange, OwedBelow, HandedOnBelow
  <2> QED
    BY <2>1, <2>2 DEF PairingInv
<1>15. CASE GroundStop
  <2>1. /\ UNCHANGED <<mgr_pc, mgr_pkt, downlink, packet_id_counter, task_pc, task_pkt>>
        /\ ground_pc' = "stopped"
    BY <1>15 DEF GroundStop, mgrVars
  <2>2. PICK k \in 0 .. Len(Owed) : Owed' = SubSeq(Owed, 1, k)
    BY <1>15, StopKeepsUplink
  <2>3. \A i \in 1 .. Len(Owed') : i \in 1 .. Len(Owed) /\ Owed'[i] = Owed[i]
    BY <1>t, <2>2
  <2>4. \A n : (OwedBelow(n) => OwedBelow(n)') /\ (HandedOnBelow(n) => HandedOnBelow(n)')
    BY <2>1, <2>3 DEF OwedBelow, HandedOnBelow
  <2> QED
    BY <2>1, <2>4 DEF PairingInv
<1>16. CASE Main
  BY <1>0, <1>o, <1>16
     DEF Main, HandleFaults, AbortMission, MissionOver, SendShutdown, mgrVars, groundVars
<1>17. CASE Tick
  <2>1. /\ UNCHANGED <<Owed, mgr_pc, mgr_pkt, ground_pc, packet_id_counter, task_pc>>
        /\ downlink' = [i \in DOMAIN downlink |-> Older(downlink[i])]
        /\ task_pkt' \in {task_pkt, Older(task_pkt)}
    BY <1>17, <1>o DEF Tick, groundVars
  <2>2. /\ Len(downlink') = Len(downlink)
        /\ \A i \in 1 .. Len(downlink) : downlink'[i] = Older(downlink[i])
    BY <1>d, <2>1, AgedChannel, AgedAt
  <2>3. /\ task_pkt'.id = task_pkt.id
        /\ \A i \in 1 .. Len(downlink) : downlink'[i].id = downlink[i].id
    BY <1>t, <1>d, <2>1, <2>2, OlderType
  <2> QED
    BY <1>h, <2>1, <2>2, <2>3 DEF PairingInv
<1>18. CASE UNCHANGED vars
  BY <1>0, <1>o, <1>18 DEF vars, mgrVars, groundVars
<1> QED
  BY <1>1, <1>2, <1>3, <1>4, <1>5, <1>6, <1>7, <1>8, <1>9, <1>10, <1>11, <1>12, <1>13, <1>14,
     <1>15, <1>16, <1>17, <1>18 DEF Next, Task, Injector, Manager, Ground

\* PairingInv holds from the start.
LEMMA PairingHolds == Spec => []PairingInv
<1>1. Init => PairingInv
  BY DEF Init, PairingInv, HandedOnBelow, OwedBelow, Owed, InFlight, Coming,
         ForwarderHand, GroundHand, InExchange
<1> QED
  BY <1>1, PairingStep, TypeCorrect, OrderHolds, PTL DEF Spec

(* The ACK that the manager credits to a packet is that packet's own exactly *)
(* when no ACK is late: the id it carries, which the code never looks at,    *)
(* would have told.                                                         *)
THEOREM AckIsOwnUnlessLate == Spec => AckTellsDebt
<1>1. ASSUME TypeOK, OwnAnswerIsLast, PairingInv, [Next]_vars,
             mgr_pc = "wait", mgr_pc' = "recv", uplink' # uplink, mgr_pkt.id # 0,
             ground_pc # "stopped"
      PROVE  Head(uplink) = mgr_pkt.id <=> Ledger!Debt = 0
  <2>1. MgrAck
    BY <1>1 DEF Next, Task, TaskPacketize, TaskRing, TaskQueued, TaskRefused, TaskPoll, TaskExit,
                Injector, InjectorWake, InjectorSend, InjectorExit, Manager, MgrRecv, MgrCheck,
                MgrSend, MgrCount, MgrTransmitted, MgrTimeout, Forwarder, ForwardRecv,
                ForwardGround, ForwardTelemetry, Ground, GroundRecv,
                GroundAck, GroundStop, Main, HandleFaults, AbortMission, MissionOver,
                SendShutdown, Tick, linkVars, fwdVars, mgrVars, vars
  <2>2. Owed # << >> /\ Head(uplink) = Head(Owed)
    BY <1>1, <2>1, AckPaysOldest
  <2>3. Owed \in Seq(PacketIds) /\ mgr_pkt.id \in PacketIds
    BY <1>1, OwedType, FreshType DEF TypeOK
  <2>4. InExchange
    BY <1>1 DEF InExchange
  <2>5. Owed[Len(Owed)] = mgr_pkt.id
    BY <1>1, <2>4 DEF OwnAnswerIsLast, Ledger!OwnAnswerIsLast
  <2>6. \A i \in 1 .. Len(Owed) - 1 : Owed[i] < mgr_pkt.id
    BY <1>1, <2>4 DEF PairingInv
  <2>7. Len(Owed) \in Nat /\ Len(Owed) > 0 /\ Head(Owed) = Owed[1]
    BY <2>2, <2>3
  <2>8. Ledger!Debt = 0 <=> Len(Owed) = 1
    BY <2>4, <2>7 DEF Ledger!Debt
  <2>9. Len(Owed) # 1 => Owed[1] # mgr_pkt.id
    <3> SUFFICES ASSUME Len(Owed) # 1 PROVE Owed[1] # mgr_pkt.id
      OBVIOUS
    <3>0. 1 \in 1 .. Len(Owed) - 1
      <4> DEFINE n == Len(Owed)
      <4>1. n \in Nat /\ n > 0 /\ n # 1
        BY <2>7
      <4> HIDE DEF n
      <4>2. 1 \in 1 .. n - 1
        BY <4>1
      <4> QED
        BY <4>2 DEF n
    <3>1. Owed[1] < mgr_pkt.id
      BY <2>6, <3>0
    <3>2. mgr_pkt.id \in Nat
      BY <2>3, BoundsAssumption DEF PacketIds
    <3> QED
      BY <3>1, <3>2
  <2> QED
    BY <2>2, <2>5, <2>7, <2>8, <2>9
<1> QED
  BY <1>1, TypeCorrect, OwnAnswer, PairingHolds, PTL DEF Spec, AckTellsDebt

-----------------------------------------------------------------------------
(* What telemetry is given.                                                 *)
(* Every packet reaches telemetry at most once and in the order the packets  *)
(* were made, whatever was dropped, timed out or injected between them; the  *)
(* ids say so but for 0, which the injected ones share with the first.       *)
FramesOnceInOrder ==
    \A i, j \in 1 .. Len(monitor_q) :
        (i < j /\ monitor_q[j] # 0) => monitor_q[i] < monitor_q[j]

\* All the manager ever handed on.
InForwarder == IF fwd_pc = "recv" THEN << >> ELSE <<fwd_pkt>>
Unsent == InForwarder \o internal
HandedOn == monitor_q \o Unsent

(* All that was handed on was made before packet n; so was what the manager *)
(* is about to hand on.                                                     *)
HandedBelow(n) == \A i \in 1 .. Len(HandedOn) : HandedOn[i] < n
PassedBelow(n) == HandedBelow(n) /\ (mgr_pc \in {"check", "send"} => mgr_pkt.id < n)

(* Like PairingInv, without the end of an answer: what was handed on stays   *)
(* handed on.                                                               *)
PassedInv ==
    /\ \A n \in Nat : (n > 0 /\ n >= packet_id_counter) => PassedBelow(n)
    /\ (task_pc \in {"ring", "send"} /\ task_pkt.id # 0) => PassedBelow(task_pkt.id)
    /\ \A i \in 1 .. Len(downlink) : downlink[i].id # 0 => PassedBelow(downlink[i].id)
    /\ (mgr_pc \in {"check", "send"} /\ mgr_pkt.id # 0) => HandedBelow(mgr_pkt.id)
    /\ \A i, j \in 1 .. Len(HandedOn) :
          (i < j /\ HandedOn[j] # 0) => HandedOn[i] < HandedOn[j]

\* Only MgrSend hands anything on.
LEMMA HandsOn ==
  ASSUME TypeOK, [Next]_vars
  PROVE  /\ HandedOn \in Seq(PacketIds)
         /\ MgrSend => HandedOn' = Append(HandedOn, mgr_pkt.id)
         /\ ~MgrSend => HandedOn' = HandedOn
<1>1. /\ monitor_q \in Seq(PacketIds) /\ internal \in Seq(PacketIds)
      /\ InForwarder \in Seq(PacketIds) /\ Unsent \in Seq(PacketIds)
  <2>1. InForwarder \in Seq(PacketIds)
    BY DEF InForwarder, TypeOK
  <2> QED
    BY <2>1, ConcatType DEF Unsent, TypeOK
<1>2. HandedOn \in Seq(PacketIds)
  BY <1>1, ConcatType DEF HandedOn
<1>3. MgrSend => HandedOn' = Append(HandedOn, mgr_pkt.id)
  <2> SUFFICES ASSUME MgrSend PROVE HandedOn' = Append(HandedOn, mgr_pkt.id)
    OBVIOUS
  <2>1. /\ monitor_q' = monitor_q /\ internal' = Append(internal, mgr_pkt.id)
        /\ InForwarder' = InForwarder
    BY DEF MgrSend, Transmitted, InForwarder, fwdVars
  <2>2. mgr_pkt.id \in PacketIds
    BY FreshType DEF TypeOK
  <2>3. Unsent' = Append(Unsent, mgr_pkt.id)
    BY <1>1, <2>1, <2>2, AppendConcat DEF Unsent
  <2> QED
    BY <1>1, <2>1, <2>2, <2>3, AppendConcat DEF HandedOn
<1>4. ForwardRecv => HandedOn' = HandedOn
  <2> SUFFICES ASSUME ForwardRecv PROVE HandedOn' = HandedOn
    OBVIOUS
  <2>1. /\ InForwarder = << >> /\ InForwarder' = <<Head(internal)>>
        /\ internal # << >> /\ internal' = Tail(internal) /\ monitor_q' = monitor_q
    BY DEF ForwardRecv, InForwarder
  <2>2. <<Head(internal)>> \o Tail(internal) = << >> \o internal
    BY <1>1, <2>1, MoveHead
  <2> QED
    BY <2>1, <2>2 DEF HandedOn, Unsent
<1>5. ForwardGround => HandedOn' = HandedOn
  BY DEF ForwardGround, HandedOn, Unsent, InForwarder
<1>6. ForwardTelemetry => HandedOn' = HandedOn
  <2> SUFFICES ASSUME ForwardTelemetry PROVE HandedOn' = HandedOn
    OBVIOUS
  <2>1. /\ InForwarder = <<fwd_pkt>> /\ InForwarder' = << >> /\ fwd_pkt \in PacketIds
        /\ monitor_q' = Append(monitor_q, fwd_pkt) /\ internal' = internal
    BY DEF ForwardTelemetry, InForwarder, TypeOK
  <2>2. Append(monitor_q, fwd_pkt) \o (<< >> \o internal)
          = monitor_q \o (<<fwd_pkt>> \o internal)
    BY <1>1, <2>1, PassHand
  <2> QED
    BY <2>1, <2>2 DEF HandedOn, Unsent
<1>7. ~MgrSend /\ ~Forwarder => UNCHANGED <<monitor_q, internal, fwdVars>>
  BY DEF Next, Task, TaskPacketize, TaskRing, TaskQueued, TaskRefused, TaskPoll, TaskExit,
         Injector, InjectorWake, InjectorSend, InjectorExit, Manager, MgrRecv, MgrCheck,
         MgrCount, MgrTransmitted, MgrAck, MgrTimeout, Ground, GroundRecv, GroundAck, GroundStop,
         Main, HandleFaults, AbortMission, MissionOver, SendShutdown, Tick, vars, linkVars
<1>8. ~MgrSend /\ ~Forwarder => HandedOn' = HandedOn
  BY <1>7 DEF HandedOn, Unsent, InForwarder, fwdVars
<1> QED
  BY <1>2, <1>3, <1>4, <1>5, <1>6, <1>8 DEF Forwarder

\* Nothing is handed on, and the manager takes nothing up.
LEMMA PassedSame ==
  ASSUME PassedInv, HandedOn' = HandedOn,
         mgr_pc' \in {"check", "send"} => mgr_pc \in {"check", "send"} /\ mgr_pkt' = mgr_pkt
  PROVE  /\ \A n : PassedBelow(n) => PassedBelow(n)'
         /\ (mgr_pc' \in {"check", "send"} /\ mgr_pkt'.id # 0) => HandedBelow(mgr_pkt.id)'
         /\ \A i, j \in 1 .. Len(HandedOn') :
               (i < j /\ HandedOn'[j] # 0) => HandedOn'[i] < HandedOn'[j]
<1>1. \A n : HandedBelow(n) <=> HandedBelow(n)'
  BY DEF HandedBelow
<1>2. \A n : PassedBelow(n) => PassedBelow(n)'
  BY <1>1 DEF PassedBelow
<1>3. (mgr_pc' \in {"check", "send"} /\ mgr_pkt'.id # 0) => HandedBelow(mgr_pkt.id)'
  BY <1>1 DEF PassedInv
<1>4. \A i, j \in 1 .. Len(HandedOn') :
         (i < j /\ HandedOn'[j] # 0) => HandedOn'[i] < HandedOn'[j]
  BY DEF PassedInv
<1> QED
  BY <1>2, <1>3, <1>4

\* A packet that is handed on was made before all that are still to come.
LEMMA PassedStep ==
  ASSUME TypeOK, OrderInv, PassedInv, [Next]_vars PROVE PassedInv'
<1> USE DEF taskVars, injectorVars
<1>t. /\ packet_id_counter \in Nat /\ task_pkt \in Packet /\ injector_pkt \in Packet
      /\ mgr_pkt \in Packet /\ mgr_pkt.id \in Nat
      /\ HandedOn \in Seq(PacketIds) /\ Len(HandedOn) \in Nat
  <2>1. /\ packet_id_counter \in Nat /\ task_pkt \in Packet /\ injector_pkt \in Packet
        /\ mgr_pkt \in Packet
    BY BoundsAssumption DEF TypeOK, PacketIds
  <2>2. HandedOn \in Seq(PacketIds)
    BY HandsOn
  <2>3. mgr_pkt.id \in Nat
    BY <2>1, BoundsAssumption DEF Packet, PacketIds
  <2>4. Len(HandedOn) \in Nat
    BY <2>2
  <2> QED
    BY <2>1, <2>2, <2>3, <2>4
<1>d. downlink \in Seq(Packet) /\ Len(downlink) \in Nat
      /\ \A i \in 1 .. Len(downlink) : downlink[i] \in Packet
  <2>1. downlink \in Seq(Packet)
    BY DEF TypeOK
  <2> QED
    BY <2>1
<1>p. \A p \in Packet : p.id \in Nat /\ (p.src = "SENSOR" \/ p.src = "FAULT")
  BY BoundsAssumption DEF Packet, PacketIds
<1>0. ASSUME HandedOn' = HandedOn, UNCHANGED <<downlink, packet_id_counter>>,
             mgr_pc' \in {"check", "send"} => mgr_pc \in {"check", "send"} /\ mgr_pkt' = mgr_pkt,
             task_pc' \in {"ring", "send"} =>
                 task_pc \in {"ring", "send"} /\ task_pkt' = task_pkt
      PROVE  PassedInv'
  <2>1. /\ \A n : PassedBelow(n) => PassedBelow(n)'
        /\ (mgr_pc' \in {"check", "send"} /\ mgr_pkt'.id # 0) => HandedBelow(mgr_pkt.id)'
        /\ \A i, j \in 1 .. Len(HandedOn') :
              (i < j /\ HandedOn'[j] # 0) => HandedOn'[i] < HandedOn'[j]
    BY <1>0, PassedSame
  <2> QED
    BY <1>0, <2>1 DEF PassedInv
<1>1. CASE TaskPacketize
  <2>1. /\ task_pkt' = [id |-> packet_id_counter, src |-> "SENSOR", age |-> 0]
        /\ packet_id_counter' = packet_id_counter + 1
        /\ UNCHANGED <<downlink, mgr_pc, mgr_pkt>> /\ HandedOn' = HandedOn
    BY <1>1 DEF TaskPacketize, mgrVars, linkVars, fwdVars, HandedOn, Unsent, InForwarder
  <2>2. task_pkt'.id = packet_id_counter
    BY <2>1
  <2>3. packet_id_counter # 0 => PassedBelow(packet_id_counter)
    BY <1>t DEF PassedInv
  <2>4. \A n \in Nat : (n > 0 /\ n >= packet_id_counter + 1) => PassedBelow(n)
    BY <1>t DEF PassedInv
  <2> QED
    BY <2>1, <2>2, <2>3, <2>4, PassedSame DEF PassedInv
<1>2. CASE TaskQueued
  <2>1. /\ task_pc = "send" /\ task_pc' = "poll" /\ downlink' = Append(downlink, task_pkt)
        /\ UNCHANGED <<mgr_pc, mgr_pkt, packet_id_counter>> /\ HandedOn' = HandedOn
    BY <1>2 DEF TaskQueued, Queue, mgrVars, linkVars, fwdVars, HandedOn, Unsent, InForwarder
  <2>2. \A i \in 1 .. Len(downlink') :
          downlink'[i] = task_pkt \/ (i \in 1 .. Len(downlink) /\ downlink'[i] = downlink[i])
    BY <1>t, <1>d, <2>1
  <2> QED
    BY <2>1, <2>2, PassedSame DEF PassedInv
<1>3. CASE InjectorSend
  <2>1. /\ injector_pkt.id = 0 /\ downlink' = Append(downlink, injector_pkt)
        /\ UNCHANGED <<mgr_pc, mgr_pkt, packet_id_counter, task_pc, task_pkt>>
        /\ HandedOn' = HandedOn
    BY <1>3 DEF InjectorSend, Queue, OrderInv, mgrVars, linkVars, fwdVars, HandedOn, Unsent,
                InForwarder
  <2>2. \A i \in 1 .. Len(downlink') :
          downlink'[i] = injector_pkt \/ (i \in 1 .. Len(downlink) /\ downlink'[i] = downlink[i])
    BY <1>t, <1>d, <2>1
  <2> QED
    BY <2>1, <2>2, PassedSame DEF PassedInv
<1>4. CASE MgrRecv
  <2>1. /\ downlink # << >> /\ downlink' = Tail(downlink) /\ HandedOn' = HandedOn
        /\ UNCHANGED <<packet_id_counter, task_pc, task_pkt>>
        /\ \/ mgr_pc' = "recv"
           \/ mgr_pc' = "check" /\ mgr_pkt' = [Head(downlink) EXCEPT !.age = 0]
    BY <1>4 DEF MgrRecv, GiveUp, linkVars, fwdVars, HandedOn, Unsent, InForwarder
  <2>2. /\ 1 \in 1 .. Len(downlink) /\ Head(downlink) = downlink[1]
        /\ \A i \in 1 .. Len(downlink') :
              i + 1 \in 1 .. Len(downlink) /\ downlink'[i] = downlink[i + 1] /\ 1 < i + 1
    BY <1>d, <2>1
  <2> DEFINE h == downlink[1]
  <2>3. mgr_pc' = "recv" \/ (mgr_pc' = "check" /\ mgr_pkt'.id = h.id)
    BY <1>d, <2>1, <2>2, FreshType
  <2>4. \A n : (HandedBelow(n) /\ h.id < n) => PassedBelow(n)'
    BY <2>1, <2>3 DEF HandedBelow, PassedBelow
  <2>5. h.src = "FAULT" => h.id = 0
    BY <2>2 DEF OrderInv
  <2>6. \A n \in Nat : (n > 0 /\ n >= packet_id_counter) => PassedBelow(n)'
    <3>1. h.src = "SENSOR" => h.id < packet_id_counter
      BY <2>2 DEF OrderInv
    <3>2. \A n \in Nat : (n > 0 /\ n >= packet_id_counter) => h.id < n
      BY <1>t, <1>d, <1>p, <2>2, <2>5, <3>1
    <3> QED
      BY <2>4, <3>2 DEF PassedInv, PassedBelow
  <2>7. (task_pc \in {"ring", "send"} /\ task_pkt.id # 0) => PassedBelow(task_pkt.id)'
    <3> SUFFICES ASSUME task_pc \in {"ring", "send"}, task_pkt.id # 0
                 PROVE  PassedBelow(task_pkt.id)'
      OBVIOUS
    <3>1. h.id < task_pkt.id
      BY <1>t, <1>d, <1>p, <2>2, <2>5 DEF OrderInv, Behind
    <3>2. HandedBelow(task_pkt.id)
      BY DEF PassedInv, PassedBelow
    <3> QED
      BY <2>1, <2>4, <3>1, <3>2
  <2>8. ASSUME NEW i \in 1 .. Len(downlink'), downlink'[i].id # 0
        PROVE  PassedBelow(downlink[i].id)'
    <3>1. i + 1 \in 1 .. Len(downlink) /\ downlink'[i] = downlink[i + 1] /\ 1 < i + 1
      BY <2>2
    <3>2. downlink[i + 1].src = "SENSOR"
      BY <1>d, <1>p, <2>8, <3>1 DEF OrderInv
    <3>3. h.id < downlink[i + 1].id
      BY <1>d, <1>p, <2>2, <2>5, <2>8, <3>1, <3>2 DEF OrderInv, StaleFirst
    <3>4. HandedBelow(downlink[i + 1].id)
      BY <2>8, <3>1 DEF PassedInv, PassedBelow
    <3> QED
      BY <2>4, <3>1, <3>3, <3>4
  <2>9. h.id # 0 => HandedBelow(h.id)
    BY <2>2 DEF PassedInv, PassedBelow
  <2>10. (mgr_pc' \in {"check", "send"} /\ mgr_pkt'.id # 0) => HandedBelow(mgr_pkt.id)'
    <3>1. CASE mgr_pc' = "check" /\ mgr_pkt'.id = h.id
      BY <2>1, <2>9, <3>1 DEF HandedBelow
    <3>2. CASE mgr_pc' = "recv"
      BY <3>2
    <3> QED
      BY <2>3, <3>1, <3>2
  <2> HIDE DEF h
  <2>11. \A i \in 1 .. Len(downlink') : downlink'[i].id # 0 => PassedBelow(downlink[i].id)'
    BY <2>8
  <2>12. \A i, j \in 1 .. Len(HandedOn') :
            (i < j /\ HandedOn'[j] # 0) => HandedOn'[i] < HandedOn'[j]
    BY <2>1 DEF PassedInv
  <2> QED
    BY <2>1, <2>6, <2>7, <2>10, <2>11, <2>12 DEF PassedInv
<1>5. CASE MgrSend
  <2>1. /\ mgr_pc = "send" /\ mgr_pc' = "count"
        /\ UNCHANGED <<mgr_pkt, packet_id_counter, task_pc, task_pkt, downlink>>
    BY <1>5 DEF MgrSend
  <2>2. HandedOn' = Append(HandedOn, mgr_pkt.id)
    BY <1>5, HandsOn
  <2>3. /\ Len(HandedOn') = Len(HandedOn) + 1 /\ HandedOn'[Len(HandedOn) + 1] = mgr_pkt.id
        /\ \A i \in 1 .. Len(HandedOn) : HandedOn'[i] = HandedOn[i]
        /\ \A i \in 1 .. Len(HandedOn') : i \in 1 .. Len(HandedOn) \/ i = Len(HandedOn) + 1
    BY <1>t, <2>2
  <2>4. \A n : PassedBelow(n) => PassedBelow(n)'
    BY <2>1, <2>3 DEF PassedBelow, HandedBelow
  <2>5. mgr_pkt.id # 0 => HandedBelow(mgr_pkt.id)
    BY <2>1 DEF PassedInv
  <2>6. ASSUME NEW i \in 1 .. Len(HandedOn'), NEW j \in 1 .. Len(HandedOn'), i < j,
               HandedOn'[j] # 0
        PROVE  HandedOn'[i] < HandedOn'[j]
    <3>1. i \in 1 .. Len(HandedOn) /\ HandedOn'[i] = HandedOn[i]
      BY <1>t, <2>3, <2>6
    <3>2. CASE j \in 1 .. Len(HandedOn)
      BY <2>3, <2>6, <3>1, <3>2 DEF PassedInv
    <3>3. CASE j = Len(HandedOn) + 1
      BY <2>3, <2>5, <2>6, <3>1, <3>3 DEF HandedBelow
    <3> QED
      BY <2>3, <3>2, <3>3
  <2> QED
    BY <2>1, <2>4, <2>6 DEF PassedInv
<1>6. CASE Tick
  <2>1. /\ UNCHANGED <<mgr_pc, mgr_pkt, packet_id_counter, task_pc>> /\ HandedOn' = HandedOn
        /\ downlink' = [i \in DOMAIN downlink |-> Older(downlink[i])]
        /\ task_pkt' \in {task_pkt, Older(task_pkt)}
    BY <1>6 DEF Tick, linkVars, fwdVars, HandedOn, Unsent, InForwarder
  <2>2. /\ Len(downlink') = Len(downlink)
        /\ \A i \in 1 .. Len(downlink) : downlink'[i] = Older(downlink[i])
    BY <1>d, <2>1, AgedChannel, AgedAt
  <2>3. /\ task_pkt'.id = task_pkt.id
        /\ \A i \in 1 .. Len(downlink) : downlink'[i].id = downlink[i].id
    BY <1>t, <1>d, <2>1, <2>2, OlderType
  <2> QED
    BY <2>1, <2>2, <2>3, PassedSame DEF PassedInv
<1>7. CASE \/ TaskRing \/ TaskRefused \/ TaskPoll \/ TaskExit \/ InjectorWake \/ InjectorExit
           \/ MgrCheck \/ MgrCount \/ MgrTransmitted \/ MgrAck \/ MgrTimeout
           \/ Forwarder \/ Ground \/ Main \/ UNCHANGED vars
  <2>1. HandedOn' = HandedOn
    <3>1. ~MgrSend
      BY <1>7 DEF MgrSend, TaskRing, TaskRefused, TaskPoll, TaskExit, InjectorWake, InjectorExit,
                  MgrCheck, MgrCount, MgrTransmitted, MgrAck, MgrTimeout, GiveUp, Forwarder, Ground,
                  ForwardRecv, ForwardGround, ForwardTelemetry,
                  GroundRecv, GroundAck, GroundStop, Main, HandleFaults, AbortMission,
                  MissionOver, SendShutdown, vars, mgrVars, linkVars, fwdVars
    <3> QED
      BY <3>1, HandsOn
  <2>2. /\ UNCHANGED <<downlink, packet_id_counter>>
        /\ mgr_pc' \in {"check", "send"} => mgr_pc \in {"check", "send"} /\ mgr_pkt' = mgr_pkt
        /\ task_pc' \in {"ring", "send"} =>
               task_pc \in {"ring", "send"} /\ task_pkt' = task_pkt
    BY <1>7 DEF TaskRing, TaskRefused, TaskPoll, TaskExit, InjectorWake, InjectorExit,
                MgrCheck, MgrCount, MgrTransmitted, MgrAck, MgrTimeout, GiveUp, Forwarder, Ground,
                  ForwardRecv, ForwardGround, ForwardTelemetry,
                GroundRecv, GroundAck, GroundStop, Main, HandleFaults, AbortMission,
                MissionOver, SendShutdown, vars, mgrVars
  <2> QED
    BY <1>0, <2>1, <2>2
<1> QED
  BY <1>1, <1>2, <1>3, <1>4, <1>5, <1>6, <1>7 DEF Next, Task, Injector, Manager

(* Telemetry is given every packet at most once, in the order in which the   *)
(* packets were made; by GroundAhead, so is the ground while it runs.        *)
THEOREM FramesArriveInOrder == Spec => []FramesOnceInOrder
<1>1. Init => PassedInv
  BY DEF Init, PassedInv, PassedBelow, HandedBelow, HandedOn, Unsent, InForwarder
<1>2. TypeOK /\ PassedInv => FramesOnceInOrder
  <2> SUFFICES ASSUME TypeOK, PassedInv PROVE FramesOnceInOrder
    OBVIOUS
  <2>0. monitor_q \in Seq(PacketIds) /\ Unsent \in Seq(PacketIds)
    <3>1. InForwarder \in Seq(PacketIds)
      BY DEF InForwarder, TypeOK
    <3> QED
      BY <3>1, ConcatType DEF Unsent, TypeOK
  <2>1. /\ Len(HandedOn) = Len(monitor_q) + Len(Unsent)
        /\ Len(monitor_q) \in Nat /\ Len(Unsent) \in Nat
        /\ \A i \in 1 .. Len(monitor_q) : HandedOn[i] = monitor_q[i]
    BY <2>0, ConcatAt DEF HandedOn
  <2>2. \A i \in 1 .. Len(monitor_q) : i \in 1 .. Len(HandedOn)
    BY <2>1
  <2> QED
    BY <2>1, <2>2 DEF PassedInv, FramesOnceInOrder
<1> QED
  BY <1>1, <1>2, PassedStep, TypeCorrect, OrderHolds, PTL DEF Spec
=============================================================================
