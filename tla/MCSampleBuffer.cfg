CONSTANTS
    Sensors = {"TempSensor", "AccelSensor", "GyroSensor"}
    MaxCycles = 2
    SensorCap = 2
    buffer_limit = 3
    BacklogSteps <- MCBacklogSteps
    WindowSteps <- MCWindowSteps
SPECIFICATION FairSpec
INVARIANTS
    TypeOK
    BufferSorted
    SensorOrder
    LostOnlyAtTheEnd
PROPERTIES
    DropsLowestOldest
    ShutdownEndsAll
    NobodyStuckInSend
CHECK_DEADLOCK FALSE
