SPECIFICATION WorkflowSpec
CONSTANTS
    Tenants = {t1}
    Fields = {"budget"}
    Values = {"unset", "set"}
    Default <- MCDefault
    AlwaysStored = {}
    NoPolicy = NoPolicy
    NoCall = NoCall
    NoChange = NoChange
    NoRequest = NoRequest
    NewConfigs <- MCNewConfigs
    StateInputs = {"EMERGENCY_BLOCK"}
    ChangeInputs <- MCChangeInputs
    MaxEpoch = 3
    Tasks = {k1, k2}
    ChangeIds = {c1}
    Operations = {"create", "set_state", "rollback", "apply_change", "propose", "approve", "reject"}
    EventualReads = FALSE
    HistoryTable = TRUE
SYMMETRY TaskSymmetry
VIEW WithoutCaches
INVARIANTS
    WorkflowTypeOK
    AppliedIsTrue
    AppliedIsReported
    RollbacksAreTrue
    AppliedAtMostOnce
PROPERTIES
    ImplementsReviewedStore
    AppliedOnItsEpoch
    OnlyRacesMissTheBasis
CHECK_DEADLOCK FALSE
