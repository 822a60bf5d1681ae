SPECIFICATION ScriptSpec
CONSTANTS
    Callers = {c1, me}
    Me = me
    Documents = {id, details}
    None = None
    MaxPolls = 2
INVARIANTS
    ScriptTypeOK
    RowsNeverAhead
    VerifiedMeansProvisioned
    ScriptNeverRefused
    OverlapsKeepRows
PROPERTIES
    ExistingRowWins
    SerialRequestsMirror
    ExpiredCodePaysNothing
    ScriptEnds
CHECK_DEADLOCK FALSE
