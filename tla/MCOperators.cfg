CONSTANTS
    Sensors = {"TempSensor", "GyroSensor"}
    Durations = {1, 2, 5}
    u128_MAX = 1000
    JitterWindow = 2
    JitterTolerance = 1
    TrackerInterval = 2
    DriftLimit = 2
    MaxGiven = 5
    Characters <- MCCharacters
    Bytes <- MCBytes
    Keys <- MCKeys
    MaxText = 4
    MaxPlain = 4
SPECIFICATION MCSpec
INVARIANTS
    RoundTrip
    DecodersAgree
    SummariesMatch
CHECK_DEADLOCK FALSE
