SPECIFICATION Spec
CONSTANTS
    Ports = {80, 81}
    MaxStored = 3
INVARIANTS
    NoDuplicates
CHECK_DEADLOCK FALSE
