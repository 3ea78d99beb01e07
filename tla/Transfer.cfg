CONSTANTS
    Dests = {c1, c2}
    Objects = {o1, o2}
    Threads = {t1, t2}
SPECIFICATION Spec
CONSTRAINTS Defined OneForgotten
INVARIANTS SubInUse SenderIsListed
PROPERTY StopEnds
CHECK_DEADLOCK FALSE
