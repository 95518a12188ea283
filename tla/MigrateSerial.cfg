CONSTANTS
    Hosts = {h1, h2}
    Vms = {v1, v2}
    Requests = {r1, r2}
    h1 = h1
    v1 = v1
    NoVm = NoVm
    NoHost = NoHost
    VcpuTotal <- MCVcpuTotal
    MemTotal <- MCMemTotal
    VmLimit <- MCVmLimit
    Vcpu <- MCVcpu
    Mem <- MCMem
    MaxTasks = 3
    MayOverlap = FALSE
    Failing = {"migrate", "submit", "insert", "vm_save"}
    CrashPoints = {"check_old", "load_old", "fail_old", "fix_src", "fix_dst", "fix_host", "fix_free", "fix_done", "check", "claim", "submit", "undo_submit", "queued", "migrate", "fail", "free", "finish"}
    MaxCrash = 1
SPECIFICATION FairSpec
INVARIANTS
    MigrateTypeOK
    MigrateLedger
    StaleRowIsReported
    EndedTaskIsTrue
PROPERTY TaskEnds
CHECK_DEADLOCK FALSE
