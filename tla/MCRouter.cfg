SPECIFICATION Spec
CONSTANTS
    Sessions = {"pinned", "other"}
    Callers = {"c1", "c2"}
    FirstConfig <- PinnedFirst
    Configs <- PinnedConfigs
    MaxRoutes = 4
    MaxReloads = 3
    MaxStarts = 1
INVARIANTS GroupsMatch RouterIsConfig RoundRobinFair
CHECK_DEADLOCK FALSE
