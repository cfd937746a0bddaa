SPECIFICATION Spec
CONSTANTS
    a1 = a1
    a2 = a2
    Addrs = {a1, a2}
    Port <- TwoPorts
    Versions = {1, 2}
    QuicInbounds <- MCQuic
    FirstConfig <- MCFirst
    Configs <- MCConfigs
    MaxReloads = 2
    FromWatchLoop = TRUE
    Envs <- MCEnvs
INVARIANTS TypeOK ConfigIsRunning NoStrayListener StoppedIsClosed FailedReloadChangesNothing CleanReloadsSucceed
PROPERTIES UnchangedKeepsServing
CHECK_DEADLOCK FALSE
