------------------------------ MODULE MCMission ------------------------------
(* A small instance of Mission, in ticks of 500 ms.  The injector wakes     *)
(* before the end of the mission, as with the 10 s that main.rs:158 names   *)
(* for testing.                                                             *)
EXTENDS Mission
=============================================================================
