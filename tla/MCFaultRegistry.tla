--------------------------- MODULE MCFaultRegistry ---------------------------
(* A small instance of FaultRegistry: two kinds of fault and one id, which  *)
(* one of the kinds blocks and the other does not.                          *)
EXTENDS FaultRegistry
=============================================================================
