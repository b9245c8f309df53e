SPECIFICATION Spec
CONSTANTS
    Workers = {w1, w2}
    MaxXcts = 2
    MaxGroupSize = 2
    MaxLogSize = 2
    AllowStop = TRUE
INVARIANT TypeOK
INVARIANT LoopNotifiesDurable
INVARIANT NotifiedOnce
INVARIANT WakesOnlyWhenNotified
PROPERTY WorkersReturn
