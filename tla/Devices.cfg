SPECIFICATION Spec
CONSTANTS
    Cameras = {1, 2}
    Threads = {1, 2}
    TimeoutLimit = 1
INVARIANTS OneReceiver WaitingIsStopped RunningIsListed NoCameraLost
CHECK_DEADLOCK FALSE
