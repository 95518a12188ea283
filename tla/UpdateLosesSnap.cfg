SPECIFICATION ImagesSpec
CONSTANTS
    Hosts = {h1}
    VcpuTotal <- MCOne
    MemTotal <- MCOne
    VmLimit <- MCVmLimit
    RbdNames <- MCRbdNames
    MaxTick = 3
    MaxSize = 2
    Threads = {w1, w2}
    Images = {g1, g2}
    Machines = {m1, m2}
    MaxUuid = 2
    NoOne = NoOne
    Settings <- UpdatesOnly
INVARIANT SnapInForce
CHECK_DEADLOCK FALSE
