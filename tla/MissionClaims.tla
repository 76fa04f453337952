---------------------------- MODULE MissionClaims ----------------------------
(* What a comment of the monitor says of the contact, and what it does not  *)
(* do.                                                                      *)
EXTENDS Mission

\* "Detect contact loss by comparing processed packets count": three checks in
\* a row without a good frame of telemetry report the loss.
SilentLinkIsReported == silent >= 3 => contact_lost
=============================================================================
