CONSTANTS
    Goals = {g1}
    Checks = {k1, k2}
    Pays = {r1, r2}
    Proposals = {r1, r2}
    None = None
    Period = 1
    MaxTime = 2
SPECIFICATION Spec
CHECK_DEADLOCK FALSE
INVARIANTS
    TypeOK
PROPERTIES
    ContributionsAreObligations
    SerialChecksSpace
    DueGoalIsMarked
