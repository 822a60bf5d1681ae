SPECIFICATION Spec
CONSTANTS
    Callers = {c1, c2}
    Documents = {id, details}
    None = None
INVARIANT CodePaidOnce
CHECK_DEADLOCK FALSE
