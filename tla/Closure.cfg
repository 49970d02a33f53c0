SPECIFICATION Spec
CONSTANTS
    Operation = {o1}
    Call = {c1, c2}
    Worker = {w1, w2}
    Nobody = Nobody
    Consumers = 2
    MaxReplays = 1
    MaxEdits = 1
    MaxFaults = 2
INVARIANTS TypeOK ClosureInOrder
PROPERTIES ClosureIsHeard ImplementsContract
CHECK_DEADLOCK FALSE
