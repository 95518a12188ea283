SPECIFICATION ServicesSpec
CONSTANTS
    Workers = {w1, w2}
    Vms = {v1, v2}
    Disks = {d1, d2, d3}
    d3 = d3
    Devices = {p1}
    Nics = {i1}
    Ips = {i1}
    Enabled = {i1}
    MaxDev = 2
    Quotas = {q1, q2}
    q1 = q1
    DiskSize = 2
    QuotaTotal <- MCQuotaTotal
    MaxVdisk <- MCMaxVdisk
    QuotaEnabled = {q1}
    Failing = {"attach_live", "attach_config", "detach_config", "create_image", "remove_image", "rename_image", "define", "undefine", "lost"}
    Workloads <- PassWorkloads
    NoVm = NoVm
    NoThing = NoThing
    NoQuota = NoQuota
    Hosts = {h1}
    VcpuTotal <- MCOne
    MemTotal <- MCOne
    VmLimit <- MCVmLimit
    RbdNames <- MCRbdNames
    MaxTick = 3
    MaxSize = 2
    Threads = {w1, w2}
    Images = {g1, g2}
    Machines = {m1, m2}
    MaxUuid = 2
    NoOne = NoOne
    Settings <- PassSettings
    Scripts = {s1, s2}
    Nodes = {n1, n2}
    RemoteSizes = {3, 4}
    ReadChunk = 2
    MirrorWorks <- PassMirrorWorks
    NoNode = NoNode
    Callers = {c1, c2}
    root = root
    admin = admin
    user = user
    other = other
    Users = {root, admin, user, other}
    Supers = {root}
    ResourceAdmins = {admin}
    GroupUsers = {user}
    Owners = {user, other}
    DiskOwner = user
    SharedLists <- MCSharedLists
    AccessApart <- MCAccessApart
    VpnCallers = {c1, c2}
    Passwords = {k1, k2}
    MaxVpnId = 2
    h1 = h1
    v1 = v1
    MigVms = {v1, v2}
    MigHosts = {h1, h2}
    MigHome <- MCMigHome
    MigDisked = {v1}
    MigTotal <- MCMigTotal
    MigWorkers = {w1, w2}
    MigFailing = {"define", "save_host", "undefine", "attach", "poweroff", "host_down"}
    RefreshMeets = FALSE
    Clients = {root, user}
    SuperClients = {root}
    z1 = z1
    z2 = z2
    grp1 = grp1
    Centers = {z1, z2}
    HostGroups = {grp1, grp2}
    CenterOf <- MCCenterOf
    ShieldRows = {1, 2}
    NoParam = NoParam
    MaxEdits = 3
SYMMETRY MCThreads
INVARIANTS
    ServicesTypeOK
    DiskOnOneVm
    RecordedHolder
    ImageOfRow
    VdiskLedger
    OvercommitBounded
    AttachedIsUsed
    SnapOfImage
    ImageVmLedger
    DomainOfImage
    DiskOfMachine
    SnapshotsOfDisk
    ImageIsWhole
    PushedWhole
    IdleIsSaid
    WhoChangesSees
    AnsweredIsLogged
    StaticLedger
    MovedWhole
    OfferedIsAllowed
PROPERTIES
    OnlyItsUmount
    NoStaleRow
    ReplacedWhole
    AskedFor
CHECK_DEADLOCK FALSE
