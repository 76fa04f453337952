CONSTANTS
    total_duration = 3
    FaultPeriod = 1
    FaultDuration = 1
    RecoveryLimit = 0
    MainPeriod = 1
    expected_interval = 2
    MaxFrames = 2
    MaxMissing = 4
SPECIFICATION FairSpec
INVARIANTS
    TypeOK
    LostIsThree
    LostMeansSilence
    AbortAfterRecovery
PROPERTIES
    GoodFrameClears
CHECK_DEADLOCK FALSE
