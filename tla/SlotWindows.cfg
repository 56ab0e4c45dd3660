SPECIFICATION Spec
CONSTANTS
    Slots = 2
    Slot = 3
    Opening = 1
    Listen = 2
    Process = 1
    PipeSize = 1
    MinSample = 1
    MaxSample = 4
    BufferSize = 5
    MaxLag = 1
    MaxMissed = 3
    FollowLost = FALSE
INVARIANTS TypeOK SamplesFit HeaderTruthful OneHeaderPerSlot
CHECK_DEADLOCK FALSE
PROPERTY WindowCloses
