SPECIFICATION Spec
CONSTANTS
    Users = {u1, u2, u3}
    Kinds = {"tcp", "quic"}
    MaxPooled = 2
    MaxDials = 4
INVARIANTS OneUser NothingLost
PROPERTIES GetReturns
CHECK_DEADLOCK FALSE
