SPECIFICATION Spec
CONSTANTS
    Methods = {"f", "g"}
    MaxDepth = 3
    MaxWork = 1
    MaxRecords = 3
INVARIANT
    WholeTraceForward
