CONSTANTS
    Hosts = {h1, h2, h3}
    Vms = {v1}
    Requests = {r1}
    h1 = h1
    v1 = v1
    NoVm = NoVm
    NoHost = NoHost
    VcpuTotal <- MCVcpuTotal
    MemTotal <- MCMemTotal
    VmLimit <- MCVmLimit
    Vcpu <- MCVcpu
    Mem <- MCMem
    MaxTasks = 2
    MayOverlap = TRUE
    Failing = {}
    CrashPoints = {}
    MaxCrash = 0
SPECIFICATION Spec
INVARIANTS
    OneRecentTask
CHECK_DEADLOCK FALSE
