SPECIFICATION Spec
CONSTANTS MaxLen = 3
INVARIANTS CallbacksExact StopsOnlyWhenMisused HeadComplete
PROPERTIES PartsInOrder
CHECK_DEADLOCK FALSE
