SPECIFICATION Spec
CONSTANTS
    Tenants = {t1, t2}
    Fields = {"budget", "rpm"}
    Values = {"unset", "set"}
    Default <- MCDefault
    AlwaysStored = {"rpm"}
    NoPolicy = NoPolicy
    NewConfigs <- MCNewConfigs
    StateInputs = {"ACTIVE", "EMERGENCY_BLOCK"}
    ChangeInputs <- MCChangeInputs
    MaxEpoch = 3
INVARIANTS
    TypeOK
    HistoryComplete
PROPERTIES
    HistoryAppendOnly
    EveryWriteIsANewEpoch
CHECK_DEADLOCK FALSE
