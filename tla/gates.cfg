CONSTANTS
    Timeout = 4
    Heartbeat = 2
    MaxQueue = 3
    MaxNoise = 3
SPECIFICATION GateSpec
INVARIANT GateTypeOK
PROPERTIES
    OutcomeIsTrue
    GateEnds
CHECK_DEADLOCK FALSE
