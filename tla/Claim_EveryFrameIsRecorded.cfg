CONSTANTS
    MaxPackets = 3
    MaxEvents = 1
    MAX_DOWNLINK_BUFFER = 2
    DownlinkCap = 2
    UplinkCap = 1
    VisibilityTicks = 1
    TransmitTicks = 1
    AckTimeoutTicks = 2
    U32Max = 1000
    FaultKinds = {"SIGNAL_LOSS"}
SPECIFICATION Spec
PROPERTY EveryFrameIsRecorded
