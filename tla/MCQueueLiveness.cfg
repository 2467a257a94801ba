SPECIFICATION FairSpec
CONSTANTS
    Ids = {i1, i2}
    Loops = {l1, l2}
    MaxSends = 2
    MaxWorkers = 1
    MaxAttempts = 2
    Delays = {FALSE}
    Ties = {FALSE}
    DrainedListener = TRUE
PROPERTIES
    LifecycleSpec
    WaitingServed
    FinishedRemoved
    CloseReturns
