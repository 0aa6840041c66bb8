SPECIFICATION Spec
CONSTANTS
    Size = 64
    MaxOverflows = 6
    Attach = FALSE
INVARIANT
    SamplingStaysOn
