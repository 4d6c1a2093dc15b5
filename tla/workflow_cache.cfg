SPECIFICATION CacheSpec
CONSTANTS
    Tenants = {t1}
    Fields = {"budget"}
    Values = {"unset", "set"}
    Default <- MCDefault
    AlwaysStored = {}
    NoPolicy = NoPolicy
    NoCall = NoCall
    NoChange = NoChange
    NoRequest = NoRequest
    NewConfigs <- MCNewConfigs
    StateInputs = {"EMERGENCY_BLOCK"}
    ChangeInputs <- MCChangeInputs
    MaxEpoch = 2
    Tasks = {k1, k2}
    ChangeIds = {c1}
    Operations = {"create", "set_state", "apply_change", "propose", "approve", "read"}
    EventualReads = TRUE
    HistoryTable = FALSE
    Ttl = 3
    LoadTime = 2
    MaxClock = 1000
SYMMETRY Symmetry
VIEW ByAge
INVARIANTS
    CacheTypeOK
    RefetchedAfterOwnWrites
    MaxStaleness
CHECK_DEADLOCK FALSE
