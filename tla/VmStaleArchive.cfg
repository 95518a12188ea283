CONSTANTS
    Workers = {w1}
    Vms = {v1}
    Hosts = {h1, h2}
    Ips = {i1}
    Groups = {g1}
    h1 = h1
    h2 = h2
    i1 = i1
    i2 = i2
    g1 = g1
    g2 = g2
    NoVm = NoVm
    NoHost = NoHost
    NoIp = NoIp
    Enabled = {i1}
    VcpuTotal <- MCVcpuTotal
    MemTotal <- MCMemTotal
    VmLimit <- MCVmLimit
    HostGroup <- OneGroupHosts
    IpGroup <- OneGroupIps
    Denied = {}
    VcpuSizes = {1}
    MemSizes = {1}
    Ops = {"create", "delete", "force_delete", "shelve", "unshelve", "purge"}
    Overlaps <- NoOverlaps
    Failing = {"undefine", "ahv_remove", "host"}
    CrashOps = {}
    MaxCrash = 0
    MaxDrift = 0
SPECIFICATION Spec
SYMMETRY Symmetric
INVARIANTS
    ReleasedIsGone
