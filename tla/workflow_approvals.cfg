SPECIFICATION WorkflowSpec
CONSTANTS
    Tenants = {t1, t2}
    Fields = {"budget", "rpm"}
    Values = {"unset", "set"}
    Default <- MCDefault
    AlwaysStored = {"rpm"}
    NoPolicy = NoPolicy
    NoCall = NoCall
    NoChange = NoChange
    NoRequest = NoRequest
    NewConfigs <- MCNewConfigs
    StateInputs = {"EMERGENCY_BLOCK"}
    ChangeInputs <- MCEitherChange
    MaxEpoch = 4
    Tasks = {k1, k2}
    ChangeIds = {c1, c2}
    Operations = {"create", "apply_change", "propose", "approve", "reject", "read"}
    EventualReads = TRUE
    HistoryTable = TRUE
SYMMETRY Symmetry
VIEW WithoutReports
INVARIANTS
    OneEditPerVersion
PROPERTIES
    AppliedOnItsBasis
    ImplementsAtomicStore
CHECK_DEADLOCK FALSE
