SPECIFICATION Spec
CONSTANTS
    Host = {h1, h2}
    MaxGrants = 6
    MaxFaults = 3
INVARIANTS TypeOK ServesUnderLease HeartbeatServes StandbyKeepsTrying
PROPERTIES LiveLeaseEndsByOwner SomeHostServes
CHECK_DEADLOCK FALSE
