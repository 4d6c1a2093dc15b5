SPECIFICATION Spec
CONSTANTS
    Tenants = {t1}
    Fields = {"budget", "rpm"}
    Values = {"unset", "set"}
    Default <- MCDefault
    AlwaysStored = {"rpm"}
    NoPolicy = NoPolicy
    NoCall = NoCall
    NewConfigs <- MCNewConfigs
    StateInputs = {"ACTIVE", "EMERGENCY_BLOCK"}
    ChangeInputs <- OneChange
    MaxEpoch = 3
    Tasks = {k1, k2}
    Operations = {"create", "set_state", "apply_change", "rollback"}
    EventualReads = TRUE
    HistoryTable = TRUE
SYMMETRY TaskSymmetry
INVARIANTS
    TypeOK
    ArchivedWasLive
    HistoryHasNoGap
    RollbackRestoresAVersion
    EpochNamesOneVersion
    HistoryKeepsEveryVersion
PROPERTIES
    HistoryRowsStay
CHECK_DEADLOCK FALSE
