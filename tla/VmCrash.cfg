CONSTANTS
    Workers = {w1, w2}
    Vms = {v1, v2}
    Hosts = {h1}
    Ips = {i1, i2}
    Groups = {g1}
    h1 = h1
    h2 = h2
    i1 = i1
    i2 = i2
    g1 = g1
    g2 = g2
    NoVm = NoVm
    NoHost = NoHost
    NoIp = NoIp
    Enabled = {i1, i2}
    VcpuTotal <- MCVcpuTotal
    MemTotal <- MCMemTotal
    VmLimit <- MCVmLimit
    HostGroup <- OneGroupHosts
    IpGroup <- OneGroupIps
    Denied = {}
    VcpuSizes = {1}
    MemSizes = {1}
    Ops = {"create", "delete", "force_delete", "shelve", "unshelve", "delshelve", "purge"}
    Overlaps <- SameKindOverlaps
    Failing = {"undefine"}
    CrashOps = {"create", "delete", "force_delete", "unshelve", "delshelve", "purge"}
    MaxCrash = 1
    MaxDrift = 1
SPECIFICATION Spec
SYMMETRY Symmetric
INVARIANTS
    QuotaCovered
    IpCovered
