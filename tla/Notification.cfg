SPECIFICATION Spec
CONSTANTS
    Worker = {w1, w2}
    NoWorker = NoWorker
    Request = {r1}
    Channel = {desktop}
    DesktopChannel = {desktop}
    DeadLetterThreshold = 2
    MaxReplays = 2
    MaxFaults = 2
INVARIANTS TypeOK SuccessWasShown AnnouncedOnce ShownAgainOnlyAfterFault
PROPERTIES EveryRequestSettles ImplementsContract
CHECK_DEADLOCK FALSE
