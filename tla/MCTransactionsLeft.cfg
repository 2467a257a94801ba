SPECIFICATION Spec
CONSTANTS
    Calls = {t1}
    Models = {m1}
    Files = {f1}
    Retries = 0
    MaxWrites = 1
    LeavesRunning = TRUE
INVARIANTS
    RolledBackFileRemoved
CHECK_DEADLOCK FALSE
