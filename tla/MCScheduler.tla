----------------------------- MODULE MCScheduler -----------------------------
(* Small instances of Scheduler.  The periods keep the order and, nearly,   *)
(* the ratios of the code's 100, 200 and 300 ms; the longest job is longer  *)
(* than the shortest period, as there.                                      *)
EXTENDS Scheduler

MCTasks == {"compression", "health", "antenna"}
MCperiod == [compression |-> 2, health |-> 4, antenna |-> 6]
MCexecution_time == [compression |-> 1, health |-> 1, antenna |-> 3]
MCfirst_release == [compression |-> 1, health |-> 0, antenna |-> 0]
=============================================================================
