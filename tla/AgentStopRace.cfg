SPECIFICATION FairSpec
CONSTANTS
    a1 = a1
    a2 = a2
    Addrs = {a1, a2}
    Port <- TwoPorts
    Versions = {1, 2}
    QuicInbounds <- MCQuic
    FirstConfig <- MCFirst
    Configs <- MCConfigs
    MaxReloads = 1
    FromWatchLoop = TRUE
    Envs <- RaceEnvs
PROPERTIES AnyStopReturns
CHECK_DEADLOCK FALSE
