SPECIFICATION Spec
CONSTANTS
    Frames = {f1, f2}
    NoFrame = NoFrame
    MaxContexts = 2
    MaxThreads = 2
    NumConsumers = 1
    MaxWorkers = 0
INVARIANTS
    ContextsPerThread
