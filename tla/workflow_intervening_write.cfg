SPECIFICATION WorkflowSpec
CONSTANTS
    Tenants = {t1}
    Fields = {"budget"}
    Values = {"unset", "set"}
    Default <- MCDefault
    AlwaysStored = {}
    NoPolicy = NoPolicy
    NoCall = NoCall
    NoChange = NoChange
    NoRequest = NoRequest
    NewConfigs <- MCNewConfigs
    StateInputs = {"READ_ONLY", "EMERGENCY_BLOCK"}
    ChangeInputs <- MCChangeInputs
    MaxEpoch = 3
    Tasks = {k1, k2}
    ChangeIds = {c1}
    Operations = {"create", "set_state", "apply_change", "propose", "approve"}
    EventualReads = FALSE
    HistoryTable = TRUE
PROPERTIES
    AppliedOnItsBasis
CHECK_DEADLOCK FALSE
