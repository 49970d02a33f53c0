SPECIFICATION Spec
CONSTANTS
    i1 = i1
    i2 = i2
    Intent <- MCIntent
    MaxRetries <- MCMaxRetries
    RetryEnabled <- MCRetryEnabled
    Store = "prisma"
    Key = {k1, k2}
    Worker = {w1}
    Planner = {p1}
    RecoverLimit = 1
    MaxReconciles = 2
    MaxClaims = 2
SYMMETRY Symmetry
INVARIANTS OwnerConverged
PROPERTIES LossesOnlyByStaleCommit
CHECK_DEADLOCK FALSE
