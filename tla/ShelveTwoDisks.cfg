SPECIFICATION Spec
CONSTANTS
    Workers = {w1, w2}
    Vms = {v1, v2}
    Disks = {d1, d2, d3}
    d3 = d3
    Devices = {p1}
    Nics = {i1}
    Ips = {i1}
    Enabled = {i1}
    MaxDev = 2
    Quotas = {q1, q2}
    q1 = q1
    DiskSize = 2
    QuotaTotal <- MCQuotaTotal
    MaxVdisk <- MCMaxVdisk
    QuotaEnabled = {q1}
    Failing = {"attach_live", "attach_config", "detach_config", "create_image", "remove_image", "rename_image", "define", "undefine", "lost"}
    Workloads <- ShelveTwoDisks
    NoVm = NoVm
    NoThing = NoThing
    NoQuota = NoQuota
INVARIANTS
    DevIsRecorded
CHECK_DEADLOCK FALSE
