SPECIFICATION Spec
CONSTANTS
    SipIds = {"a", "b"}
    Workers = {1, 2}
    Life = 2
    MaxNow = 5
    MaxAdds = 3
INVARIANTS SipIdFindsCamera
PROPERTIES SessionsKept ActsOnItsOwn
CHECK_DEADLOCK FALSE
