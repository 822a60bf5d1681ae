CONSTANTS
    Goals = {g1}
    Checks = {k1, k2}
    Pays = {}
    Proposals = {}
    None = None
    Period = 2
    MaxTime = 5
SPECIFICATION Spec
CHECK_DEADLOCK FALSE
PROPERTIES
    DueWhenMarked
