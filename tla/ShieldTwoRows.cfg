SPECIFICATION ListsSpec
CONSTANTS
    z1 = z1
    z2 = z2
    grp1 = grp1
    Clients = {root, user}
    SuperClients = {root}
    Centers = {z1, z2}
    HostGroups = {grp1, grp2}
    CenterOf <- MCCenterOf
    ShieldRows = {1, 2}
    NoParam = NoParam
    MaxEdits = 3
INVARIANT OneRowOfUser
CHECK_DEADLOCK FALSE
