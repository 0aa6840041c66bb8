SPECIFICATION Spec
CONSTANTS
    Methods = {"f", "g"}
    MaxDepth = 2
    MaxWork = 2
    MaxRecords = 4
INVARIANT
    TimeForward
