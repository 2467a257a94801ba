CONSTANTS
    u1 = u1
    u2 = u2
    u3 = u3
    Uploads = {u1, u2, u3}
    Single = {u1, u3}
    Batches <- MCBatches
    Deletions = {d1, d2}
    Names = {n1, n2, n3}
    None = None
SPECIFICATION Spec
INVARIANTS TypeOK SavedIsKept NoOrphan RejectedLeavesNothing SavedIsReferenced
CHECK_DEADLOCK FALSE
