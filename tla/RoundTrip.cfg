SPECIFICATION FairSpec
CONSTANTS
    Frames = {f1, f2}
    NoFrame = NoFrame
    MaxContexts = 3
    MaxThreads = 1
    NumConsumers = 2
    MaxWorkers = 3
INVARIANTS
    TypeOK
    SiblingsDistinct
    FileIsSubtree
    NodesParsedOnce
    TreeRebuilt
    RootListsMatch
PROPERTIES
    ReadTerminates
