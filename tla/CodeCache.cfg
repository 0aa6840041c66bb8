CONSTANTS
    t1 = t1
    t2 = t2
    m1 = m1
    m2 = m2
    NoThread = NoThread
    NoMethod = NoMethod
    Threads <- MCThreads
    Methods <- MCMethods
    MaxAddr = 1
    PreAttach <- MCNoCode
    MaxLoads = 2
    MaxSamples = 2
SPECIFICATION FairSpec
INVARIANTS
    TypeOK
    LoadedCodeResolves
    HandlerPointerValid
    DumpedMethodsFiledOnce
    MethodFileUnambiguous
    RemoveAssertHolds
PROPERTIES
    ImplementsCodeIndex
    EveryCallReturns
