--------------------------- MODULE DownlinkClaims ----------------------------
(* What comments and messages of the source say of the downlink path, and   *)
(* what it does not do.                                                     *)
EXTENDS Downlink

\* "Received ACK for pkt id={} from ground: {}": the ACK credited to a packet
\* is the ACK of that packet.
AckIsForThePacket ==
    [][(mgr_pc = "wait" /\ mgr_pc' = "recv" /\ uplink' # uplink)
       => Head(uplink) = mgr_pkt.id]_vars

\* "record that the ground station successfully processed this packet": each
\* frame the ground takes is recorded.
EveryFrameIsRecorded ==
    [][(ground_pc = "loop" /\ ground_pc' = "ack")
       => packets_processed' = packets_processed + 1]_vars
=============================================================================
