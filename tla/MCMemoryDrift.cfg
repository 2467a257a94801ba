CONSTANTS
    Keys = {k1, k2}
    Callers = {c1}
    Nobody = Nobody
    Sizes = {1}
    MaxSize = 2
    Ttl = 1
    ExpireMs = 1
    RetryCount = 1
SPECIFICATION Spec
PROPERTY SetIsKept
