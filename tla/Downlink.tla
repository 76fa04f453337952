------------------------------ MODULE Downlink -------------------------------
(***************************************************************************)
(* The downlink path: SharedTask and the fault injector put packets on the *)
(* downlink channel, the downlink manager takes them one at a time,        *)
(* transmits each and waits for an acknowledgement; the forwarder copies   *)
(* every frame to the ground station and to the telemetry monitor; the     *)
(* ground station acknowledges on the uplink.  src/downlink.rs with the    *)
(* parts of src/task.rs, src/fault.rs, src/main.rs and src/monitor.rs it   *)
(* meets.  One pc per thread; a step is everything a thread does up to its *)
(* next use of a channel, a flag or a counter that another thread's guard  *)
(* reads.                                                                  *)
(***************************************************************************)
EXTENDS Integers, SequencesExt

CONSTANTS
    MaxPackets,          \* bound: sensor packets made in a behaviour
    MaxEvents,           \* bound: fault events injected in a behaviour
    MAX_DOWNLINK_BUFFER, \* task.rs:23, 128
    DownlinkCap,         \* capacity of the downlink channel, main.rs:99, 10
    UplinkCap,           \* capacity of the uplink channel, main.rs:43, 50
    VisibilityTicks,     \* 30 ms of queue latency, downlink.rs:230
    TransmitTicks,       \* 15 ms of simulated RF delay, downlink.rs:271
    AckTimeoutTicks,     \* 200 ms of waiting for an ACK, downlink.rs:276
    U32Max,              \* u32::MAX, the widest id the interlock can be asked about
    FaultKinds           \* the faults handle_faults may raise

FaultPeriod == [TEMP_HIGH |-> 5, BATTERY_LOW |-> 4, SIGNAL_LOSS |-> 2]

ASSUME BoundsAssumption ==
    /\ MaxPackets \in Nat
    /\ MaxEvents \in Nat
    /\ U32Max \in Nat
ASSUME CapacityAssumption ==
    /\ MAX_DOWNLINK_BUFFER \in Nat
    /\ DownlinkCap \in Nat \ {0}
    /\ UplinkCap \in Nat \ {0}
ASSUME TimingAssumption ==
    /\ VisibilityTicks \in Nat
    /\ TransmitTicks \in Nat
    /\ AckTimeoutTicks \in Nat
ASSUME FaultAssumption == FaultKinds \subseteq DOMAIN FaultPeriod

VARIABLES
    packet_id_counter,   \* PACKET_ID_COUNTER: the id of the next sensor packet
    task_pc, task_pkt,   \* SharedTask and the packet in its hands
    downlink_buffer,     \* DOWNLINK_BUFFER, as ids
    reply,               \* the bounded(1) response channel of task_pkt
    injector_pc, injector_pkt, fault_events,  \* the injector, its packet, events made
    downlink,            \* the downlink channel
    mgr_pc, mgr_pkt, timer,  \* the manager, its packet, ticks since it began to wait
    internal,            \* manager -> forwarder, as ids
    fwd_pc, fwd_pkt,     \* the forwarder and the frame in its hands
    ground_q, monitor_q, \* forwarder -> ground, forwarder -> telemetry (all ever sent)
    ground_pc, ground_pkt,   \* the ground station and the frame it is handling
    uplink,              \* ACKs, each the id its text names
    faults,              \* ACTIVE_FAULTS
    main_pc, shutdown_flag, shutdown_msg,
    packets_generated, packets_processed,     \* MONITOR_DATA.sat_metrics ...
    downlink_sent, downlink_dropped, dropped_samples

taskVars == <<packet_id_counter, task_pc, task_pkt, downlink_buffer>>
injectorVars == <<injector_pc, injector_pkt, fault_events>>
mgrVars == <<mgr_pc, mgr_pkt, timer>>
groundVars == <<ground_pc, ground_pkt>>
mainVars == <<main_pc, shutdown_flag, shutdown_msg>>
fwdVars == <<fwd_pc, fwd_pkt>>
linkVars == <<internal, fwdVars, ground_q, monitor_q, uplink>>
processed == <<packets_generated, packets_processed>>
outcomes == <<downlink_sent, downlink_dropped, dropped_samples>>

vars == <<taskVars, reply, injectorVars, downlink, mgrVars, linkVars,
          groundVars, faults, mainVars, processed, outcomes>>

-----------------------------------------------------------------------------
PacketIds == 0 .. MaxPackets
Packet == [id : PacketIds, src : {"SENSOR", "FAULT"}, age : Nat]

\* The value of a thread's packet variable while it holds no packet.
Blank == [id |-> 0, src |-> "FAULT", age |-> 0]

\* try_into().unwrap_or(0)
ToU32(id) == IF id <= U32Max THEN id ELSE 0

fault_blocks_packet(fault, id) == id % FaultPeriod[fault] = 0

is_command_safe(id) == \A f \in faults : ~fault_blocks_packet(f, id)

\* queued_at.elapsed(), counted only as far as the visibility check looks.
Older(p) == [p EXCEPT !.age = IF p.age > VisibilityTicks THEN p.age ELSE p.age + 1]

TypeOK ==
    /\ packet_id_counter \in PacketIds
    /\ task_pc \in {"window", "ring", "send", "poll", "exited"}
    /\ task_pkt \in Packet
    /\ downlink_buffer \in Seq(PacketIds)
    /\ Len(downlink_buffer) <= MAX_DOWNLINK_BUFFER
    /\ reply \in Seq(PacketIds)
    /\ Len(reply) <= 1
    /\ injector_pc \in {"sleep", "send", "exited"}
    /\ injector_pkt \in Packet
    /\ fault_events \in 0 .. MaxEvents
    /\ downlink \in Seq(Packet)
    /\ Len(downlink) <= DownlinkCap
    /\ mgr_pc \in {"recv", "check", "send", "count", "transmit", "wait"}
    /\ mgr_pkt \in Packet
    /\ timer \in Nat
    /\ internal \in Seq(PacketIds)
    /\ fwd_pc \in {"recv", "ground", "telemetry"}
    /\ fwd_pkt \in PacketIds
    /\ ground_q \in Seq(PacketIds) /\ monitor_q \in Seq(PacketIds)
    /\ ground_pc \in {"loop", "ack", "stopped"}
    /\ ground_pkt \in PacketIds
    /\ uplink \in Seq(PacketIds)
    /\ Len(uplink) <= UplinkCap
    /\ faults \subseteq FaultKinds
    /\ main_pc \in {"loop", "closing", "reporting"}
    /\ shutdown_flag \in BOOLEAN /\ shutdown_msg \in BOOLEAN
    /\ packets_generated \in Nat /\ packets_processed \in Nat
    /\ downlink_sent \in Nat /\ downlink_dropped \in Nat /\ dropped_samples \in Nat

Init ==
    /\ packet_id_counter = 0
    /\ task_pc = "window" /\ task_pkt = Blank
    /\ downlink_buffer = << >>
    /\ reply = << >>
    /\ injector_pc = "sleep" /\ injector_pkt = Blank /\ fault_events = 0
    /\ downlink = << >>
    /\ mgr_pc = "recv" /\ mgr_pkt = Blank /\ timer = 0
    /\ internal = << >> /\ ground_q = << >> /\ monitor_q = << >>
    /\ fwd_pc = "recv" /\ fwd_pkt = 0
    /\ ground_pc = "loop" /\ ground_pkt = 0
    /\ uplink = << >>
    /\ faults = {}
    /\ main_pc = "loop" /\ shutdown_flag = FALSE /\ shutdown_msg = FALSE
    /\ packets_generated = 0 /\ packets_processed = 0
    /\ downlink_sent = 0 /\ downlink_dropped = 0 /\ dropped_samples = 0

-----------------------------------------------------------------------------
(* SharedTask, the downlink part of its processing window.  The flag is     *)
(* looked at only at the top of the outer loop, so a window under way goes  *)
(* on making packets after shutdown.                                        *)

TaskPacketize ==
    /\ task_pc = "window"
    /\ packet_id_counter < MaxPackets
    /\ task_pkt' = [id |-> packet_id_counter, src |-> "SENSOR", age |-> 0]
    /\ packet_id_counter' = packet_id_counter + 1
    /\ task_pc' = "ring"
    /\ UNCHANGED <<downlink_buffer, reply, injectorVars, downlink, mgrVars, linkVars,
                   groundVars, faults, mainVars, processed, outcomes>>

\* Mutant: the ring takes one packet too many.
RingFull_OffByOne == Len(downlink_buffer) > MAX_DOWNLINK_BUFFER

RingFull == Len(downlink_buffer) >= MAX_DOWNLINK_BUFFER

\* The ring is never drained; when it is full only a counter says so.
TaskRing ==
    /\ task_pc = "ring"
    /\ IF RingFull
       THEN /\ dropped_samples' = dropped_samples + 1
            /\ UNCHANGED downlink_buffer
       ELSE /\ downlink_buffer' = Append(downlink_buffer, task_pkt.id)
            /\ UNCHANGED dropped_samples
    /\ task_pc' = "send"
    /\ UNCHANGED <<packet_id_counter, task_pkt, reply, injectorVars, downlink, mgrVars,
                   linkVars, groundVars, faults, mainVars, processed,
                   downlink_sent, downlink_dropped>>

\* Mutant: the newest packet overtakes the queue.
Queue_Front(p) == <<p>> \o downlink

\* The downlink channel with p queued.
Queue(p) == Append(downlink, p)

\* Mutant: a dropped packet is not counted.
record_downlink_dropped_Forgotten == UNCHANGED downlink_dropped

record_downlink_dropped == downlink_dropped' = downlink_dropped + 1

TaskQueued ==
    /\ task_pc = "send"
    /\ Len(downlink) < DownlinkCap
    /\ downlink' = Queue(task_pkt)
    /\ downlink_sent' = downlink_sent + 1
    /\ task_pc' = "poll"
    /\ task_pkt' = [task_pkt EXCEPT !.age = 0]    \* not read again
    /\ UNCHANGED <<packet_id_counter, downlink_buffer, reply, injectorVars, mgrVars,
                   linkVars, groundVars, faults, mainVars, processed,
                   downlink_dropped, dropped_samples>>

TaskRefused ==
    /\ task_pc = "send"
    /\ Len(downlink) >= DownlinkCap
    /\ record_downlink_dropped
    /\ task_pc' = "window"
    /\ task_pkt' = Blank
    /\ UNCHANGED <<packet_id_counter, downlink_buffer, reply, injectorVars, downlink,
                   mgrVars, linkVars, groundVars, faults, mainVars, processed,
                   downlink_sent, dropped_samples>>

\* One try_recv, then the receiver of the response channel is dropped.
TaskPoll ==
    /\ task_pc = "poll"
    /\ reply' = << >>
    /\ task_pc' = "window"
    /\ task_pkt' = Blank
    /\ UNCHANGED <<packet_id_counter, downlink_buffer, injectorVars, downlink, mgrVars,
                   linkVars, groundVars, faults, mainVars, processed, outcomes>>

TaskExit ==
    /\ task_pc = "window"
    /\ shutdown_flag
    /\ task_pc' = "exited"
    /\ UNCHANGED <<packet_id_counter, task_pkt, downlink_buffer, reply, injectorVars,
                   downlink, mgrVars, linkVars, groundVars, faults, mainVars,
                   processed, outcomes>>

-----------------------------------------------------------------------------
(* handle_faults: each kind may be raised; what was active for more than    *)
(* 15 s is cleared.  A fault raised now cannot be old, one raised again     *)
(* keeps its first timestamp.                                               *)
handle_faults ==
    \E raised \in SUBSET FaultKinds, expired \in SUBSET faults :
        faults' = (faults \cup raised) \ expired

(* The fault injector: after each sleep it rolls the faults and sends a     *)
(* dummy packet with the blocking send.                                     *)
InjectorWake ==
    /\ injector_pc = "sleep"
    /\ ~shutdown_flag
    /\ fault_events < MaxEvents
    /\ handle_faults
    /\ injector_pkt' = [id |-> 0, src |-> "FAULT", age |-> 0]
    /\ fault_events' = fault_events + 1
    /\ injector_pc' = "send"
    /\ UNCHANGED <<taskVars, reply, downlink, mgrVars, linkVars, groundVars, mainVars,
                   processed, outcomes>>

InjectorSend ==
    /\ injector_pc = "send"
    /\ Len(downlink) < DownlinkCap
    /\ downlink' = Queue(injector_pkt)
    /\ injector_pkt' = Blank
    /\ injector_pc' = "sleep"
    /\ UNCHANGED <<taskVars, reply, fault_events, mgrVars, linkVars, groundVars, faults,
                   mainVars, processed, outcomes>>

InjectorExit ==
    /\ injector_pc = "sleep"
    /\ shutdown_flag
    /\ injector_pc' = "exited"
    /\ UNCHANGED <<taskVars, reply, injector_pkt, fault_events, downlink, mgrVars,
                   linkVars, groundVars, faults, mainVars, processed, outcomes>>

-----------------------------------------------------------------------------
(* The downlink manager.                                                    *)

GiveUp ==
    /\ record_downlink_dropped
    /\ mgr_pc' = "recv"
    /\ mgr_pkt' = Blank
    /\ timer' = 0
    /\ UNCHANGED <<downlink_sent, dropped_samples>>

MgrRecv ==
    /\ mgr_pc = "recv"
    /\ downlink # << >>
    /\ downlink' = Tail(downlink)
    /\ IF Head(downlink).age > VisibilityTicks
       THEN GiveUp
       ELSE /\ mgr_pkt' = [Head(downlink) EXCEPT !.age = 0]    \* not read again
            /\ mgr_pc' = "check"
            /\ UNCHANGED <<timer, outcomes>>
    /\ UNCHANGED <<taskVars, reply, injectorVars, linkVars, groundVars, faults, mainVars,
                   processed>>

\* handle_fault on a blocked packet writes only the recovery metrics.
MgrCheck ==
    /\ mgr_pc = "check"
    /\ IF is_command_safe(ToU32(mgr_pkt.id))
       THEN /\ mgr_pc' = "send"
            /\ UNCHANGED <<mgr_pkt, timer, outcomes>>
       ELSE GiveUp
    /\ UNCHANGED <<taskVars, reply, injectorVars, downlink, linkVars, groundVars, faults,
                   mainVars, processed>>

\* Mutant: the frame is sent again.
Transmitted_Twice(id) == internal \o <<id, id>>

\* The frames on their way to the forwarder with the manager's next one.
Transmitted(id) == Append(internal, id)

MgrSend ==
    /\ mgr_pc = "send"
    /\ internal' = Transmitted(mgr_pkt.id)
    /\ mgr_pc' = "count"
    /\ UNCHANGED <<taskVars, reply, injectorVars, downlink, mgr_pkt, timer, fwdVars,
                   ground_q, monitor_q, uplink, groundVars, faults, mainVars, processed, outcomes>>

MgrCount ==
    /\ mgr_pc = "count"
    /\ packets_generated' = packets_generated + 1
    /\ mgr_pc' = "transmit"
    /\ UNCHANGED <<taskVars, reply, injectorVars, downlink, mgr_pkt, timer, linkVars,
                   groundVars, faults, mainVars, packets_processed, outcomes>>

MgrTransmitted ==
    /\ mgr_pc = "transmit"
    /\ timer >= TransmitTicks
    /\ timer' = 0
    /\ mgr_pc' = "wait"
    /\ UNCHANGED <<taskVars, reply, injectorVars, downlink, mgr_pkt, linkVars, groundVars,
                   faults, mainVars, processed, outcomes>>

\* Mutant: the manager waits for its own ACK but leaves a late one in its way.
AckArrived_OwnOnly == uplink # << >> /\ Head(uplink) = mgr_pkt.id

AckArrived == uplink # << >>

\* Whatever is first on the uplink ends the wait.  It reaches the task only
\* if the task still holds the receiver made with this packet; an injected
\* packet has no response channel.
MgrAck ==
    /\ mgr_pc = "wait"
    /\ AckArrived
    /\ uplink' = Tail(uplink)
    /\ reply' = IF mgr_pkt.src = "SENSOR" /\ task_pc = "poll" /\ task_pkt.id = mgr_pkt.id
                THEN <<Head(uplink)>> ELSE reply
    /\ downlink_sent' = downlink_sent + 1
    /\ mgr_pc' = "recv"
    /\ mgr_pkt' = Blank
    /\ timer' = 0
    /\ UNCHANGED <<taskVars, injectorVars, downlink, internal, fwdVars, ground_q, monitor_q,
                   groundVars, faults, mainVars, processed, downlink_dropped,
                   dropped_samples>>

MgrTimeout ==
    /\ mgr_pc = "wait"
    /\ uplink = << >>
    /\ timer >= AckTimeoutTicks
    /\ GiveUp
    /\ UNCHANGED <<taskVars, reply, injectorVars, downlink, linkVars, groundVars, faults,
                   mainVars, processed>>

-----------------------------------------------------------------------------
(* The forwarder and the ground station.                                    *)

\* Mutant: the newest frame reaches the ground first.
ToGround_Front(id) == IF ground_pc = "stopped" THEN << >> ELSE <<id>> \o ground_q

\* A stopped ground station has dropped its receiver: its copy is lost.
ToGround(id) == IF ground_pc = "stopped" THEN << >> ELSE Append(ground_q, id)

ForwardRecv ==
    /\ fwd_pc = "recv"
    /\ internal # << >>
    /\ internal' = Tail(internal)
    /\ fwd_pkt' = Head(internal)
    /\ fwd_pc' = "ground"
    /\ UNCHANGED <<taskVars, reply, injectorVars, downlink, mgrVars, ground_q, monitor_q,
                   uplink, groundVars, faults, mainVars, processed, outcomes>>

ForwardGround ==
    /\ fwd_pc = "ground"
    /\ ground_q' = ToGround(fwd_pkt)
    /\ fwd_pc' = "telemetry"
    /\ UNCHANGED <<taskVars, reply, injectorVars, downlink, mgrVars, internal, fwd_pkt,
                   monitor_q, uplink, groundVars, faults, mainVars, processed, outcomes>>

\* By now the ground may have taken the frame and the manager read its ACK.
ForwardTelemetry ==
    /\ fwd_pc = "telemetry"
    /\ monitor_q' = Append(monitor_q, fwd_pkt)
    /\ fwd_pkt' = 0
    /\ fwd_pc' = "recv"
    /\ UNCHANGED <<taskVars, reply, injectorVars, downlink, mgrVars, internal, ground_q,
                   uplink, groundVars, faults, mainVars, processed, outcomes>>

\* Mutant: the count is not held back by packets_generated.
record_packet_processed_Unguarded == packets_processed' = packets_processed + 1

record_packet_processed ==
    packets_processed' = IF packets_processed < packets_generated
                         THEN packets_processed + 1 ELSE packets_processed

GroundRecv ==
    /\ ground_pc = "loop"
    /\ ~shutdown_msg
    /\ ground_q # << >>
    /\ ground_pkt' = Head(ground_q)
    /\ ground_q' = Tail(ground_q)
    /\ record_packet_processed
    /\ ground_pc' = "ack"
    /\ UNCHANGED <<taskVars, reply, injectorVars, downlink, mgrVars, internal, fwdVars,
                   monitor_q, uplink, faults, mainVars, packets_generated, outcomes>>

\* Mutant: an ACK that finds the uplink full is dropped.
SendAck_Try == uplink' = IF Len(uplink) < UplinkCap THEN Append(uplink, ground_pkt)
                         ELSE uplink

\* A blocking send on the bounded uplink.
SendAck == Len(uplink) < UplinkCap /\ uplink' = Append(uplink, ground_pkt)

GroundAck ==
    /\ ground_pc = "ack"
    /\ SendAck
    /\ ground_pc' = "loop"
    /\ ground_pkt' = 0
    /\ UNCHANGED <<taskVars, reply, injectorVars, downlink, mgrVars, internal, fwdVars,
                   ground_q, monitor_q, faults, mainVars, processed, outcomes>>

GroundStop ==
    /\ ground_pc = "loop"
    /\ shutdown_msg
    /\ ground_pc' = "stopped"
    /\ ground_q' = << >>
    /\ UNCHANGED <<taskVars, reply, injectorVars, downlink, mgrVars, internal, fwdVars,
                   monitor_q, uplink, ground_pkt, faults, mainVars, processed, outcomes>>

-----------------------------------------------------------------------------
(* The main thread and the mission abort.                                   *)

HandleFaults ==
    /\ main_pc = "loop"
    /\ handle_faults
    /\ UNCHANGED <<taskVars, reply, injectorVars, downlink, mgrVars, linkVars, groundVars,
                   mainVars, processed, outcomes>>

\* The sensor-fault thread gives up the mission after a slow recovery.
AbortMission ==
    /\ ~shutdown_flag
    /\ shutdown_flag' = TRUE
    /\ UNCHANGED <<taskVars, reply, injectorVars, downlink, mgrVars, linkVars, groundVars,
                   faults, main_pc, shutdown_msg, processed, outcomes>>

\* The mission time is over, or main has seen the flag.
MissionOver ==
    /\ main_pc = "loop"
    /\ shutdown_flag' = TRUE
    /\ main_pc' = "closing"
    /\ UNCHANGED <<taskVars, reply, injectorVars, downlink, mgrVars, linkVars, groundVars,
                   faults, shutdown_msg, processed, outcomes>>

\* After this main prints its reports and returns, which ends the process.
SendShutdown ==
    /\ main_pc = "closing"
    /\ shutdown_msg' = TRUE
    /\ main_pc' = "reporting"
    /\ UNCHANGED <<taskVars, reply, injectorVars, downlink, mgrVars, linkVars, groundVars,
                   faults, shutdown_flag, processed, outcomes>>

-----------------------------------------------------------------------------
(* Time.  Nothing bounds how long a thread takes, so a tick may come        *)
(* between any two steps; the manager's sleep and its deadline only give    *)
(* lower bounds.                                                            *)
TimerBound == IF mgr_pc = "transmit" THEN TransmitTicks ELSE AckTimeoutTicks

Tick ==
    /\ downlink' = [i \in DOMAIN downlink |-> Older(downlink[i])]
    /\ task_pkt' = IF task_pc \in {"ring", "send"} THEN Older(task_pkt) ELSE task_pkt
    /\ injector_pkt' = IF injector_pc = "send" THEN Older(injector_pkt) ELSE injector_pkt
    /\ timer' = IF mgr_pc \in {"transmit", "wait"} /\ timer < TimerBound
                THEN timer + 1 ELSE timer
    /\ UNCHANGED <<packet_id_counter, task_pc, downlink_buffer, reply, injector_pc,
                   fault_events, mgr_pc, mgr_pkt, linkVars, groundVars, faults, mainVars,
                   processed, outcomes>>

Task == TaskPacketize \/ TaskRing \/ TaskQueued \/ TaskRefused \/ TaskPoll \/ TaskExit
Injector == InjectorWake \/ InjectorSend \/ InjectorExit
Manager == \/ MgrRecv \/ MgrCheck \/ MgrSend \/ MgrCount
           \/ MgrTransmitted \/ MgrAck \/ MgrTimeout
Forwarder == ForwardRecv \/ ForwardGround \/ ForwardTelemetry
Ground == GroundRecv \/ GroundAck \/ GroundStop
Main == HandleFaults \/ AbortMission \/ MissionOver \/ SendShutdown

Next == Task \/ Injector \/ Manager \/ Forwarder \/ Ground \/ Main \/ Tick

Spec == Init /\ [][Next]_vars
-----------------------------------------------------------------------------
(* Fairness.  Every thread but main keeps being scheduled until main        *)
(* returns and the process ends; nothing is assumed of the task and of the  *)
(* injector, which may have nothing to send, nor of main.                   *)
Alive == main_pc # "reporting"

Fairness ==
    /\ WF_vars(Alive /\ Manager)
    /\ WF_vars(Alive /\ Forwarder)
    /\ WF_vars(Alive /\ Ground)
    /\ WF_vars(Alive /\ Tick)

FairSpec == Spec /\ Fairness

-----------------------------------------------------------------------------
(* The exchange as the abstract protocol sees it.                           *)
GroundHand == IF ground_pc = "ack" THEN <<ground_pkt>> ELSE << >>

ForwarderHand == IF fwd_pc = "ground" THEN <<fwd_pkt>> ELSE << >>

\* Frames the ground is still to be sent.
Coming == ForwarderHand \o internal

\* Frames on their way to the ground, oldest first; lost once it has stopped.
InFlight == IF ground_pc = "stopped" THEN << >> ELSE GroundHand \o (ground_q \o Coming)

InExchange == mgr_pc \in {"count", "transmit", "wait"}

Owed == uplink \o InFlight

Ledger == INSTANCE AckLedger WITH
    Ids <- PacketIds,
    outstanding <- Owed,
    exchange <- IF InExchange THEN <<mgr_pkt.id>> ELSE << >>,
    peer_up <- ground_pc # "stopped"

\* The downlink path implements the anonymous-acknowledgement protocol: the
\* forwarder and the ground neither lose, duplicate nor reorder an answer
\* while the ground runs.
ImplementsAckLedger == Ledger!Spec

\* While a frame waits for its ACK, that ACK is the last one owed, so every
\* ACK the manager can read before it belongs to a frame it gave up.
OwnAnswerIsLast == Ledger!OwnAnswerIsLast

\* A 200 ms timeout leaves its ACK to come: no later step repays it, and the
\* pairing of ACKs with packets stays shifted for the rest of the run.
DebtIsForever == Ledger!DebtIsForever

\* The ACK the manager credits to a packet is that packet's own exactly when
\* no timeout has left an ACK behind (injected packets share id 0).
AckTellsDebt ==
    [][(mgr_pc = "wait" /\ mgr_pc' = "recv" /\ uplink' # uplink /\ mgr_pkt.id # 0
          /\ ground_pc # "stopped")
       => (Head(uplink) = mgr_pkt.id <=> Ledger!Debt = 0)]_vars

\* Every late ACK was counted as a dropped packet, so the ground can block on
\* a full uplink only after that many drops.
DebtIsCounted ==
    /\ Ledger!Debt <= downlink_dropped
    /\ (ground_pc = "ack" /\ Len(uplink) = UplinkCap) => downlink_dropped >= UplinkCap

-----------------------------------------------------------------------------
(* Counters.                                                                *)
TaskHolds == IF task_pc \in {"ring", "send"} THEN 1 ELSE 0
MgrHolds == IF mgr_pc = "recv" THEN 0 ELSE 1
EventsQueued == fault_events - (IF injector_pc = "send" THEN 1 ELSE 0)
Offered == packet_id_counter - TaskHolds

\* Packets try_send accepted, as the counters and the channel tell it.
Accepted ==
    downlink_sent + downlink_dropped + Len(downlink) + MgrHolds - EventsQueued - Offered

\* Each packet offered is counted sent or dropped by the task, and each packet
\* accepted is counted once more, sent or dropped, by the manager: nothing is
\* lost or counted a third time whatever the interleaving.  (A count is taken
\* in the step of the try_send or the answer it counts; the program is one
\* behind in between, where no guard looks.)
BooksBalance ==
    /\ Accepted \in 0 .. Offered
    /\ Accepted <= downlink_sent
    /\ Offered - Accepted <= downlink_dropped

\* The ground never reports more packets than were generated, though the
\* manager counts a packet only after it has handed it over.
ProcessedNeverAhead ==
    /\ packets_processed <= packets_generated
    /\ packets_processed + Len(InFlight) - Len(GroundHand)
         <= packets_generated + (IF mgr_pc = "count" THEN 1 ELSE 0)

-----------------------------------------------------------------------------
(* Order.                                                                   *)
\* What the forwarder has sent to the ground and not yet to telemetry.
Ahead == IF fwd_pc = "telemetry" THEN <<fwd_pkt>> ELSE << >>

\* The ACKs not yet read and the frames the ground still has are the latest
\* frames telemetry was given, in the same order, but for the one between the
\* two sends: the ground is one frame ahead of telemetry, never more.
GroundOneAhead ==
    ground_pc # "stopped" => IsSuffix(uplink \o (GroundHand \o ground_q), monitor_q \o Ahead)

\* Sensor packets in the channel are ordered by age and by id, so those that
\* missed the visibility window are always in front of those that did not.
StaleFirst ==
    \A i, j \in 1 .. Len(downlink) :
        (i < j /\ downlink[i].src = "SENSOR" /\ downlink[j].src = "SENSOR")
            => /\ downlink[i].age >= downlink[j].age
               /\ downlink[i].id < downlink[j].id

-----------------------------------------------------------------------------
(* Liveness.                                                                *)

\* No answer, late answer or missing answer keeps the manager in an exchange.
ManagerReturns == (mgr_pc # "recv") ~> (mgr_pc = "recv" \/ ~Alive)

Queued(id) == \E i \in 1 .. Len(downlink) :
                  downlink[i].src = "SENSOR" /\ downlink[i].id = id

\* Every sensor packet accepted by the channel is eventually taken off it.
QueueDrains == \A id \in PacketIds : Queued(id) ~> (~Queued(id) \/ ~Alive)
=============================================================================
