SPECIFICATION Spec
CONSTANT Threads = {x, y}
CHECK_DEADLOCK FALSE
INVARIANTS
    NoUseAfterDestroy
