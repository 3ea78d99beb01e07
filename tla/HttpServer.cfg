SPECIFICATION ServerSpec
CONSTANTS
    Socks = {1, 2, 3}
    WorkerIds = {1, 2}
    Streams = {1, 2}
    QSize = 2
    MaxConnect = 1
CHECK_DEADLOCK FALSE
INVARIANTS QueueInOrder OneOwner ContextInUse
PROPERTIES IsServed StopEnds
