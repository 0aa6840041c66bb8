CONSTANTS
    Threshold = 3
    MaxStack = 4
    Overlaps = FALSE
    MaxSamples = 3
    MaxWork = 4
SPECIFICATION Spec
CHECK_DEADLOCK FALSE
INVARIANTS
    NoStackUnderflow
    DepthWithinThreshold
    RecordedFrameMatches
    NoOverattribution
    TypeOK
