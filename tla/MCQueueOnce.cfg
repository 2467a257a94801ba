SPECIFICATION Spec
CONSTANTS
    Ids = {i1, i2}
    Loops = {l1, l2}
    MaxSends = 3
    MaxWorkers = 2
    MaxAttempts = 2
    Delays = {FALSE}
    Ties = {FALSE}
    DrainedListener = TRUE
PROPERTIES
    ActiveFromWaiting
