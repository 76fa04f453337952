CONSTANTS
    total_duration = 8
    FaultPeriod = 9
    FaultDuration = 1
    RecoveryLimit = 0
    MainPeriod = 1
    expected_interval = 2
    MaxFrames = 1
    MaxMissing = 4
SPECIFICATION Spec
INVARIANT SilentLinkIsReported
