SPECIFICATION FairSpec
CONSTANTS
    relay = relay
    egress = egress
    target = target
    Egress = 2
    Chains <- MCChains
    CountMod = 3
    PortMod = 4
    MaxAddr = 30
    Transports = {"tcp", "wrapped"}
    MaxSent = 2
    Capacity = 1
INVARIANTS EndMeansAll EveryNodeSeesTheChain
PROPERTIES EndsArrive NothingLingers
CHECK_DEADLOCK FALSE
