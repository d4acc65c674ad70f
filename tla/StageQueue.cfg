SPECIFICATION Spec
CHECK_DEADLOCK FALSE
CONSTANTS
    worker = worker
    submit = submit
    stage = stage
    popper = popper
    drainer = drainer
    NoThread = NoThread
    Threads <- Callers
    Op <- CallerOp
    Capacity = 2
    Quota = 3
    MaxSpurious = 1
    MaxStops = 2
    MaxTries = 1
INVARIANT QueueInv
PROPERTY EveryFrameServed
PROPERTY RoomWakesPusher
PROPERTY StopReleases
