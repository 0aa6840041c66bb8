CONSTANTS
    Threshold = 2
    MaxStack = 4
    Overlaps = FALSE
    MaxSamples = 1
    MaxWork = 0
SPECIFICATION Spec
CHECK_DEADLOCK FALSE
INVARIANT RetCtxtAssertHolds
