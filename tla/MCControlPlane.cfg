SPECIFICATION Spec
CONSTANTS
    Nodes = {n1}
    MaxCalls = 5
    MaxRegisters = 2
    MaxSets = 3
    MaxStarts = 2
    MaxRestarts = 1
INVARIANTS RegisteredIsAccepted UpToDate
PROPERTIES VersionNeverFalls
CHECK_DEADLOCK FALSE
