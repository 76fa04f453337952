----------------------------- MODULE MCDownlink ------------------------------
(* Small instances of Downlink.  The capacities are small enough to be      *)
(* reached, and the transmission (15 ms) is no longer than the visibility   *)
(* window (30 ms) and shorter than the wait for an ACK (200 ms); a tick     *)
(* exceeds the first two in the safety run and is shorter in the other.     *)
EXTENDS Downlink
=============================================================================
