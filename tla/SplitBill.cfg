CONSTANTS
    Users = {u1, u2}
    Pays = {r1, r2}
    Proposals = {r1, r2}
    None = None
SPECIFICATION Spec
CHECK_DEADLOCK FALSE
INVARIANTS
    TypeOK
    CompletedLeavesNonePending
    ProposedNamesItsProposal
PROPERTIES
    SerialPaymentsComplete
    SharesAreObligations
