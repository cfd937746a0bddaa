SPECIFICATION Spec
CONSTANTS
    Sessions = {"pinned", "other"}
    Callers = {"c1"}
    FirstConfig <- PinnedFirst
    Configs <- PinnedConfigs
    MaxRoutes = 2
    MaxReloads = 1
    MaxStarts = 1
PROPERTIES RouteIsOldOrNew
CHECK_DEADLOCK FALSE
