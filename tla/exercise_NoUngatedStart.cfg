SPECIFICATION Spec
INVARIANT NoUngatedStart
CHECK_DEADLOCK FALSE
