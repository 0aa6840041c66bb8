SPECIFICATION FairSpec
CONSTANTS
    MaxAddr = 2
    Counts = {0, 1, 2}
    MaxPatches = 1
INVARIANTS
    TypeOK
    OnTrack
PROPERTIES
    DecoderReturns
