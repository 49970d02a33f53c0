SPECIFICATION QueueSpec
CONSTANTS
    i1 = i1
    i2 = i2
    Intent <- MCIntent
    MaxRetries <- MCMaxRetries
    RetryEnabled <- MCRetryEnabled
    Store = "powersync"
    Key = {k1}
    Worker = {w1}
    Planner = {p1}
    RecoverLimit = 1
    MaxReconciles = 2
    MaxClaims = 8
    MaxFaults = 2
INVARIANTS QueueTypeOK OneHandlerPerQueue NoLostWakeUp OneEntryPerKey StoppedIsQuiet
PROPERTIES WorkSettles
CHECK_DEADLOCK FALSE
