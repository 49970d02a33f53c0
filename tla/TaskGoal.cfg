SPECIFICATION Spec
CONSTANTS
    Occurrence = {k1}
    Dispatcher = {d1, d2}
    MaxAttempts = 2
    MaxToggles = 3
    MaxManual = 1
    HandValues = {0}
    MaxEdits = 2
    MaxReplays = 1
    MaxFaults = 1
INVARIANTS TypeOK ProgressIsSum AgreesInOrder
PROPERTIES EveryEventSettles ImplementsContract
CHECK_DEADLOCK FALSE
