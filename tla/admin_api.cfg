SPECIFICATION AdminSpec
CONSTANTS
    Kids = {i1, i2}
    UnusableKids = {i2}
    CacheTtl = 3
    FetchTime = 2
    MaxClock = 1000
    Nothing = Nothing
    Tenants = {"t1", "t2", "t3"}
    Applications = {"a1", "a2"}
    Roles = {"platform_admin", "manager", "developer"}
    AdminRole = "platform_admin"
    ManagerRole = "manager"
    DeveloperRole = "developer"
    Subjects = {"user"}
    Groups = {"managers1", "developers1", "developers2", "portal1", "admins1", "nobodys"}
    Principals = {"p1", "p2", "p3", "p4"}
    Absent = Absent
    Malformed = Malformed
    Nobody = Nobody
    One = 4
    SmallestStored = 2
    FloatLimit = 16
    ContextLimit = 32
    DigitsLimit = 48
    StoredLimit = 64
    NearestFloat <- MCNearestFloat
    GroupGrants <- MCGroupGrants
    ProvisionedGrants <- MCProvisionedGrants
    ExactGrants <- MCExactGrants
    PrefixGrants <- MCPrefixGrants
    ServiceGrants <- MCServiceGrants
    KindOf <- MCKindOf
    ProvisionedTenants = {"t1", "t2"}
    FileTenants = {"t3"}
    ChangeIds = {c1}
    ClaimInputs <- MCClaimInputs
    BodyInputs <- MCBodyInputs
VIEW ByAge
INVARIANTS
    AdminTypeOK
    RetiredKeysExpire
    UnknownKeysAreUnpublished
    PendingChangesApply
PROPERTIES
    TenantIsolation
    EditsApplyAsProposed
CHECK_DEADLOCK FALSE
