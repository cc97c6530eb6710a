SPECIFICATION Spec
CONSTANTS MaxLen = 5
INVARIANTS CallbacksExact RefusesOnlyEmpty HeadComplete
CHECK_DEADLOCK FALSE
