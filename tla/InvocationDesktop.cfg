SPECIFICATION Spec
CONSTANTS
    i1 = i1
    i2 = i2
    Intent <- MCIntent
    MaxRetries <- MCMaxRetries
    RetryEnabled <- MCRetryEnabled
    Store = "powersync"
    Key = {k1, k2}
    Worker = {w1, w2}
    Planner = {p1}
    RecoverLimit = 1
    MaxReconciles = 3
    MaxClaims = 6
SYMMETRY Symmetry
INVARIANTS TypeOK AttemptsAccountForRow RowAgreesWithLastAttempt OneAcceptableReport OwnerConverged
PROPERTIES AttemptHistoryPreserved AttemptFactsStand LiveClaimEndsByHolder RetriesWithinBudget ImplementsContract
CHECK_DEADLOCK FALSE
