CONSTANTS
    Workers = {w1, w2}
    Vms = {v1, v2}
    Hosts = {h1, h2}
    Ips = {i1, i2}
    Groups = {g1, g2}
    h1 = h1
    h2 = h2
    i1 = i1
    i2 = i2
    g1 = g1
    g2 = g2
    NoVm = NoVm
    NoHost = NoHost
    NoIp = NoIp
    Enabled = {i1, i2}
    VcpuTotal <- MCVcpuTotal
    MemTotal <- MCMemTotal
    VmLimit <- MCVmLimit
    HostGroup <- TwoGroupHosts
    IpGroup <- TwoGroupIps
    Denied = {}
    VcpuSizes = {1, 2}
    MemSizes = {1}
    Ops = {"create", "delete", "force_delete", "shelve", "unshelve", "delshelve", "edit", "purge"}
    Overlaps <- SameKindOverlaps
    Failing = {"clone", "define", "remove", "undefine", "host", "rename", "grow"}
    CrashOps = {}
    MaxCrash = 0
    MaxDrift = 0
SPECIFICATION Spec
SYMMETRY Symmetric
INVARIANTS
    TypeOK
    HostLedger
    IpLedger
    DomainMatchesRow
    ArchiveNamesDisk
PROPERTY Reserves
