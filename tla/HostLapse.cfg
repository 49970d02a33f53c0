SPECIFICATION Spec
CONSTANTS
    Host = {h1, h2}
    MaxGrants = 2
    MaxFaults = 1
PROPERTIES OneHostServes
CHECK_DEADLOCK FALSE
