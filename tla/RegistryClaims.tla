---------------------------- MODULE RegistryClaims ----------------------------
(* What a log line of telemetry says of a command, and what it does not do. *)
EXTENDS FaultRegistry

\* "Command dispatched within deadline": the log of telemetry.rs, written when
\* trigger_command_scheduler has returned, means the command is queued.
DispatchedIsQueued ==
    (pc["telemetry"] = "handle_fault" /\ rechecking) => commanded
=============================================================================
