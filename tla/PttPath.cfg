SPECIFICATION PathSpec
CONSTANTS
    MaxPosts = 4
    Relaxed = FALSE
    Transmit = {1, 2, 4}
    BlockLen = 2
    Burst = 3
    PipeSize = 6
INVARIANTS
    PathTypeOK
    NewestObeyed
    ModeFollowsKey
    EachInItsMode
    NoCommandOnAir
    PinFollowsKey
PROPERTIES
    Drained
    ImplementsRegister
    RequestServed
CHECK_DEADLOCK FALSE
