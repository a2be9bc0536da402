SPECIFICATION Spec
CONSTANTS
    t1 = t1
    t2 = t2
    nobody = nobody
    Threads <- MCThreads
    Nobody <- nobody
    Table <- MCTable
    Observed = {0, 1}
    BitPars = {0}
    WordBits = 1
    Rejected <- MCRejected
    Inputs <- MCInputs
    UnknownId = 77
    BufSizes = {2}
    MutexOf <- MCMutexOf
    MaxCalls = 2
INVARIANTS MirrorHoldsDefaults
CHECK_DEADLOCK FALSE
