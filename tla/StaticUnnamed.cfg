SPECIFICATION MigSpec
CONSTANTS
    h1 = h1
    v1 = v1
    MigVms = {v1, v2}
    MigHosts = {h1, h2}
    MigHome <- MCMigHome
    MigDisked = {v1}
    MigTotal <- MCMigTotal
    MigWorkers = {w1}
    MigFailing = {"save_host", "undefine"}
    RefreshMeets = FALSE
INVARIANT NothingUnnamed
CHECK_DEADLOCK FALSE
