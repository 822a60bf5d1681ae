CONSTANTS
    Applications = {l1}
    Pays = {r1, r2}
    Proposals = {l1, r1, r2}
    None = None
    MaxAttempts = 2
    Applicants <- MCApplicants
SPECIFICATION Spec
CHECK_DEADLOCK FALSE
INVARIANTS
    MoneySentIsRecorded
