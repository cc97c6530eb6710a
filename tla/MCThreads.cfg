SPECIFICATION MCSpec
CONSTANTS
    Guards = {1, 2, 3, 4, 5}
    Threads = {1, 2}
    Locks = {1, 2}
    RWLocks = {2}
    ThreadOf <- MCThreadOf
    LockOf <- MCLockOf
    Readers = {2, 4}
    Objects = {x, y}
CHECK_DEADLOCK FALSE
INVARIANTS
    Exclusion
    HeldExactly
    DeadlockNeedsNesting
    IdKnown
    JoinedIsOver
    ReleasedOnce
PROPERTIES
    RefusedOnlyNested
    ConstructorEnds
