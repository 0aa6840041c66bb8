CONSTANTS
    t1 = t1
    t2 = t2
    m1 = m1
    m2 = m2
    NoThread = NoThread
    NoMethod = NoMethod
    Threads <- MCThreads
    Methods <- MCMethods
    MaxAddr = 1
    PreAttach <- MCOldCode
    MaxLoads = 2
    MaxSamples = 2
SPECIFICATION Spec
INVARIANT RemoveAssertHolds
