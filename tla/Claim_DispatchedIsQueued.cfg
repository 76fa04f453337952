CONSTANTS
    FaultKinds = {"TEMP_HIGH", "SIGNAL_LOSS"}
    PacketIds = {2}
SPECIFICATION Spec
INVARIANTS
    DispatchedIsQueued
CHECK_DEADLOCK FALSE
