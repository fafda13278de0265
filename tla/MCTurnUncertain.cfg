CONSTANTS
    c1 = c1  c2 = c2  c3 = c3
    Calls = {c1}
    Limit = 2
SPECIFICATION Spec
CHECK_DEADLOCK FALSE
INVARIANT
    UncertainIsNotRepeated
