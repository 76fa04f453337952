CONSTANTS
    MaxPackets = 3
    MaxEvents = 1
    MAX_DOWNLINK_BUFFER = 2
    DownlinkCap = 2
    UplinkCap = 1
    VisibilityTicks = 0
    TransmitTicks = 0
    AckTimeoutTicks = 1
    U32Max = 1000
    FaultKinds = {"SIGNAL_LOSS"}
SPECIFICATION Spec
INVARIANTS
    TypeOK
    OwnAnswerIsLast
    DebtIsCounted
    BooksBalance
    ProcessedNeverAhead
    GroundOneAhead
    StaleFirst
PROPERTIES
    ImplementsAckLedger
    DebtIsForever
    AckTellsDebt
