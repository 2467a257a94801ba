SPECIFICATION Spec
CONSTANTS
    Calls = {t1, t2}
    Models = {m1, m2}
    Files = {f1}
    Retries = 1
    MaxWrites = 2
    LeavesRunning = FALSE
SYMMETRY Symmetry
INVARIANTS
    TypeOK
    EventsOfCommits
    StaleIsBeingInvalidated
    ResolvedIsEffective
    RowHasObject
    NoOrphan
CHECK_DEADLOCK FALSE
