SPECIFICATION WorkflowSpec
CONSTANTS
    Tenants = {t1}
    Fields = {"budget"}
    Values = {"unset", "set"}
    Default <- MCDefault
    AlwaysStored = {}
    NoPolicy = NoPolicy
    NoCall = NoCall
    NoChange = NoChange
    NoRequest = NoRequest
    NewConfigs <- MCNewConfigs
    StateInputs = {"EMERGENCY_BLOCK"}
    ChangeInputs <- MCChangeInputs
    MaxEpoch = 3
    Tasks = {k1, k2}
    ChangeIds = {c1}
    Operations = {"create", "apply_change", "propose", "approve", "reject"}
    EventualReads = FALSE
    HistoryTable = TRUE
INVARIANTS
    RejectedIsNotApplied
CHECK_DEADLOCK FALSE
