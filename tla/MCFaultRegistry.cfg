CONSTANTS
    FaultKinds = {"TEMP_HIGH", "SIGNAL_LOSS"}
    PacketIds = {2}
SPECIFICATION FairSpec
INVARIANTS
    TypeOK
    SameKeys
    StaleOnlyByRaise
PROPERTIES
    ImplementsInterlock
    CheckAnswered
    FaultsClear
CHECK_DEADLOCK FALSE
