SPECIFICATION FairSpec
CONSTANTS
    Size = 64
    MaxOverflows = 6
    Attach = TRUE
INVARIANTS
    TypeOK
    FaultsExplained
    OneSamplePerRun
    GuardMatchesActivity
PROPERTIES
    SamplingStopsOnlyByDrop
    ImplementsSampleQueue
    HandlerReturns
