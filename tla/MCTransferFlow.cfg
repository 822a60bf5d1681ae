CONSTANTS
    Flows = {f1}
    Others = {o1}
    None = None
    MaxTries = 2
    MaxPrompts = 2
    MaxAttempts = 2
    Proposals <- MCProposals
    Submits <- MCSubmits
SPECIFICATION FlowSpec
CHECK_DEADLOCK FALSE
INVARIANTS
    FlowTypeOK
    MirrorNeverAhead
    OnePaymentPerTap
    CancelledMovesNothing
    PaidIsOnRecord
PROPERTIES
    SerialRequestsMirror
    BusyEnds
