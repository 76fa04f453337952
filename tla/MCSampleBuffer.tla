--------------------------- MODULE MCSampleBuffer ----------------------------
(* A small instance of SampleBuffer: a buffer of three samples, so that the *)
(* sensors compete for it, and the window thresholds scaled to it.          *)
EXTENDS SampleBuffer

MCBacklogSteps == <<0, 1>>
MCWindowSteps == <<1, 2, 3>>
=============================================================================
