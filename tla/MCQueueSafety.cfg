SPECIFICATION Spec
SYMMETRY Symmetry
CONSTANTS
    Ids = {i1, i2}
    Loops = {l1, l2}
    MaxSends = 3
    MaxWorkers = 2
    MaxAttempts = 2
    Delays = {TRUE, FALSE}
    Ties = {TRUE, FALSE}
    DrainedListener = FALSE
INVARIANTS
    TypeOK
    SingleLoop
    AcceptedJobHeld
    ActiveJobIsRunning
    ClosedStartsNoLoop
PROPERTIES
    LifecycleSpec
    OldestFirst
