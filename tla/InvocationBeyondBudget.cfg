SPECIFICATION Spec
CONSTANTS
    i1 = i1
    i2 = i2
    Intent <- MCIntent
    MaxRetries <- MCMaxRetries
    RetryEnabled <- MCRetryEnabled
    Store = "prisma"
    Key = {k1}
    Worker = {w1}
    Planner = {p1}
    RecoverLimit = 1
    MaxReconciles = 1
    MaxClaims = 3
PROPERTY RetriesWithinBudget
CHECK_DEADLOCK FALSE
