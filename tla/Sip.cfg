CONSTANTS
    Calls = {k1, k2, k3}
    Dests = {d1, d2}
    Servers = {s1}
    Cameras = {g1}
    MaxReal = 1
    None = None
SPECIFICATION Spec
CONSTRAINT FewUnended
INVARIANTS StreamHasDialog ChannelHasOwner
CHECK_DEADLOCK FALSE
PROPERTY CheckEnds
