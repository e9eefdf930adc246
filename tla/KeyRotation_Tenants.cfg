SPECIFICATION KeySpec
CONSTANTS
    Threads = {h1}
    Tenants = {u1}
    NoTenant = NoTenant
    MaxVersions = 2
    MaxKeys = 3
INVARIANTS
    TenantsAreIsolated
CHECK_DEADLOCK FALSE
