SPECIFICATION Spec
CONSTANTS MaxLen = 3
INVARIANTS FinishedWhenDone
CHECK_DEADLOCK FALSE
