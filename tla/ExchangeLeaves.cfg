CONSTANT MaxParts = 2
SPECIFICATION Spec
INVARIANT UnaffectedTextKept
CHECK_DEADLOCK FALSE
