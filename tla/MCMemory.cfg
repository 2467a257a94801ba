CONSTANTS
    Keys = {k1, k2}
    Callers = {c1, c2}
    Nobody = Nobody
    Sizes = {1, 2}
    MaxSize = 2
    Ttl = 1
    ExpireMs = 1
    RetryCount = 2
SPECIFICATION Spec
INVARIANTS TypeOK WithinMaxSize HolderIsLocked OneUsePerWrite
PROPERTIES LeaseSpec LockReturns
