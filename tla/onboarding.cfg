SPECIFICATION Spec
CONSTANTS
    t1 = t1
    t2 = t2
    a1 = a1
    a2 = a2
    c0 = c0
    Tasks = {k1, k2}
    RequestIds = {r1, r2}
    Tenants = {t1, t2}
    Arns = {a1, a2}
    Applications <- MCApplications
    FileTenants <- MCFileTenants
    FileGrants <- MCFileGrants
    EventualReads = FALSE
    Crashes = TRUE
    None = None
SYMMETRY Symmetry
INVARIANTS
    TypeOK
    ActiveIsProvisioned
    GrantsNameTenants
    OneLayerPerTenant
    ProvisionedIsApproved
    OutcomeIsAudited
PROPERTIES
    OnlyCreates
    KeepsContract
CHECK_DEADLOCK FALSE
