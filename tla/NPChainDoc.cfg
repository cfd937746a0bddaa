SPECIFICATION Spec
CONSTANTS
    relay = relay
    egress = egress
    target = target
    Egress = 3
    Chains <- DocChains
    CountMod = 4
    PortMod = 4
    MaxAddr = 30
    Transports = {"tcp"}
    MaxSent = 1
    Capacity = 1
INVARIANTS EgressDialsTarget
CHECK_DEADLOCK FALSE
