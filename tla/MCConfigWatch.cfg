SPECIFICATION WatchSpec
CONSTANTS
    a1 = a1
    a2 = a2
    Addrs = {a1, a2}
    Port <- TwoPorts
    Versions = {1, 2}
    QuicInbounds <- MCQuic
    FirstConfig <- MCFirst
    Configs <- MCConfigs
    MaxReloads = 2
    FromWatchLoop = TRUE
    Envs <- MCEnvs
    MaxEdits = 2
INVARIANTS NothingForgotten
PROPERTIES ReloadReturns StopReturns FileIsFollowed
CHECK_DEADLOCK FALSE
