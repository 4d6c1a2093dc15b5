SPECIFICATION CacheSpec
CONSTANTS
    Tenants = {t1}
    Fields = {"budget"}
    Values = {"unset", "set"}
    Default <- MCDefault
    AlwaysStored = {}
    NoPolicy = NoPolicy
    NoCall = NoCall
    NoChange = NoChange
    NoRequest = NoRequest
    NewConfigs <- MCNewConfigs
    StateInputs = {"EMERGENCY_BLOCK"}
    ChangeInputs <- MCChangeInputs
    MaxEpoch = 2
    Tasks = {k1}
    ChangeIds = {c1}
    Operations = {"create", "set_state", "read"}
    EventualReads = TRUE
    HistoryTable = FALSE
    Ttl = 10
    LoadTime = 0
    MaxClock = 12
INVARIANTS
    StaleAtMostTtl
CHECK_DEADLOCK FALSE
