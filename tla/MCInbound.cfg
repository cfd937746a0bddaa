SPECIFICATION FairSpec
CONSTANTS
    Conns = {c1, c2}
    Stoppers = {s1, s2}
    QuicStoppers = {s1}
    Kinds = {"tcp", "ws", "forward", "quic"}
INVARIANTS TypeOK StoppedIsQuiet BlockedIsTracked
PROPERTIES SuccessMeansEnded StopEndsStart StopEndsHandlers
CHECK_DEADLOCK FALSE
