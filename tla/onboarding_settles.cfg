SPECIFICATION Spec
CONSTANTS
    t1 = t1
    t2 = t2
    a1 = a1
    a2 = a2
    c0 = c0
    Tasks = {k1, k2}
    RequestIds = {r1}
    Tenants = {t1, t2}
    Arns = {a1, a2}
    Applications <- MCApplications
    FileTenants <- MCFileTenants
    FileGrants <- MCFileGrants
    EventualReads = TRUE
    Crashes = FALSE
    None = None
PROPERTIES
    ApprovalSettles
CHECK_DEADLOCK FALSE
