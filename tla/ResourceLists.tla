---------------------------- MODULE ResourceLists ----------------------------
(***************************************************************************)
(* What a user is offered to make a vm or a disk of, and what the requests *)
(* that are given it ask of it.  A list and the check that a create makes  *)
(* later are written apart: the lists by queries of the managers           *)
(* (src/compute/managers.py, src/network/managers.py, src/image/managers.py,*)
(* src/vdisk/manager.py, src/device/manager.py), the checks where the thing *)
(* is used (src/vms/vm_builder.py, src/vdisk/manager.py).  Administrators  *)
(* change the rows in the admin pages at any time.                         *)
(*                                                                         *)
(* Every group has one host, one vlan with one address, one quota of disks *)
(* and, at its host, one device; each goes by the name of the group.       *)
(***************************************************************************)
EXTENDS Naturals, FiniteSets

CONSTANTS
    Clients,        \* users
    SuperClients,   \* those with is_superuser
    Centers,
    HostGroups,
    CenterOf,       \* the center of a group
    ShieldRows,     \* the ids of ShieldVlan rows
    NoParam,        \* a parameter that is not given, a row that is not there
    MaxEdits        \* how many changes the administrators make

ASSUME ListAssumption ==
    /\ SuperClients \subseteq Clients
    /\ CenterOf \in [HostGroups -> Centers]
    /\ ShieldRows \subseteq Nat /\ IsFiniteSet(ShieldRows)
    /\ NoParam \notin Clients \cup Centers \cup HostGroups
    /\ MaxEdits \in Nat

VARIABLES
    group_users,    \* the users of a group
    enabled,        \* what is enabled, and of which group
    used_macips,    \* the groups whose address is in use
    shield,         \* the ShieldVlan rows
    os_listed,      \* the image: whether it is enabled, and in the market
    edits

listVars == <<group_users, enabled, used_macips, shield, os_listed, edits>>

Enableable == {"group", "host", "vlan", "macip", "quota"}

ShieldRow == [user : Clients \cup {NoParam}, vlans : SUBSET HostGroups]

NoShield == [user |-> NoParam, vlans |-> {}]

OsListed == [enable : BOOLEAN, mirror_image_market : BOOLEAN]

ListsTypeOK ==
    /\ group_users \in [HostGroups -> SUBSET Clients]
    /\ enabled \in [Enableable -> SUBSET HostGroups]
    /\ used_macips \subseteq HostGroups
    /\ shield \in [ShieldRows -> ShieldRow]
    /\ os_listed \in OsListed
    /\ edits \in 0 .. MaxEdits

ListsInit ==
    /\ group_users = [g \in HostGroups |-> Clients \ SuperClients]
    /\ enabled = [k \in Enableable |-> HostGroups]
    /\ used_macips = {}
    /\ shield = [r \in ShieldRows |-> NoShield]
    /\ os_listed = [enable |-> TRUE, mirror_image_market |-> FALSE]
    /\ edits = 0

-----------------------------------------------------------------------------
(* The admin pages.                                                        *)

Edited == edits < MaxEdits /\ edits' = edits + 1

Toggled(S, x) == (S \cup {x}) \ (S \cap {x})

GroupAdmin(g, u) ==
    /\ Edited
    /\ group_users' = [group_users EXCEPT ![g] = Toggled(@, u)]
    /\ UNCHANGED <<enabled, used_macips, shield, os_listed>>

EnableAdmin(k, g) ==
    /\ Edited
    /\ enabled' = [enabled EXCEPT ![k] = Toggled(@, g)]
    /\ UNCHANGED <<group_users, used_macips, shield, os_listed>>

\* The address is taken for a vm, or given back.
MacIPTaken(g) ==
    /\ Edited
    /\ used_macips' = Toggled(used_macips, g)
    /\ UNCHANGED <<group_users, enabled, shield, os_listed>>

ImageAdmin(row) ==
    /\ Edited
    /\ os_listed' = row
    /\ UNCHANGED <<group_users, enabled, used_macips, shield>>

RowsOf(u) == {r \in ShieldRows : shield[r].user = u}

\* The form refuses a second row for a user when it adds one.
AddShieldVlan(r, u, vlans) ==
    /\ Edited
    /\ shield[r] = NoShield /\ RowsOf(u) = {}
    /\ shield' = [shield EXCEPT ![r] = [user |-> u, vlans |-> vlans]]
    /\ UNCHANGED <<group_users, enabled, used_macips, os_listed>>

\* When it changes a row, it looks for more than one row of the user it is to
\* have, so that a row may be given to a user who has another.
ChangeShieldVlan(r, u, vlans) ==
    /\ Edited
    /\ shield[r] # NoShield /\ Cardinality(RowsOf(u)) <= 1
    /\ shield' = [shield EXCEPT ![r] = [user |-> u, vlans |-> vlans]]
    /\ UNCHANGED <<group_users, enabled, used_macips, os_listed>>

DeleteShieldVlan(r) ==
    /\ Edited
    /\ shield[r] # NoShield
    /\ shield' = [shield EXCEPT ![r] = NoShield]
    /\ UNCHANGED <<group_users, enabled, used_macips, os_listed>>

ListsNext ==
    \/ \E g \in HostGroups, u \in Clients : GroupAdmin(g, u)
    \/ \E k \in Enableable, g \in HostGroups : EnableAdmin(k, g)
    \/ \E g \in HostGroups : MacIPTaken(g)
    \/ \E row \in OsListed : ImageAdmin(row)
    \/ \E r \in ShieldRows, u \in Clients, vlans \in SUBSET HostGroups :
          AddShieldVlan(r, u, vlans) \/ ChangeShieldVlan(r, u, vlans)
    \/ \E r \in ShieldRows : DeleteShieldVlan(r)

ListsSpec == ListsInit /\ [][ListsNext]_listVars

-----------------------------------------------------------------------------
(* The lists.  A set of groups stands for their hosts, vlans and so on.    *)

IsSuper(u) == u \in SuperClients

\* user.group_set
group_set(u) == {g \in HostGroups : u \in group_users[g]}

InCenter(center) == {g \in HostGroups : CenterOf[g] = center}

get_group_queryset_by_center(center) == InCenter(center) \cap enabled["group"]

get_user_group_queryset(u) ==
    IF IsSuper(u) THEN enabled["group"] ELSE group_set(u) \cap enabled["group"]

get_user_group_queryset_by_center(center, u) == get_user_group_queryset(u) \cap InCenter(center)

GroupViewSet_list(u, center) ==
    IF center = NoParam THEN get_user_group_queryset(u)
    ELSE IF IsSuper(u) THEN get_group_queryset_by_center(center)
    ELSE get_user_group_queryset_by_center(center, u)

\* Those of a group, or all.
OfGroup(group) == IF group = NoParam THEN HostGroups ELSE {group}

filter_hosts_queryset(group) == OfGroup(group) \cap enabled["host"]

HostViewSet_list(group) == filter_hosts_queryset(group)

\* `available` asks for those of the user's groups, of a superuser's too.
filter_vlan_queryset(center, group, u, available) ==
    LET groups == IF available THEN group_set(u)
                  ELSE IF group = NoParam /\ center = NoParam THEN HostGroups
                  ELSE enabled["group"]
    IN  enabled["vlan"] \cap
        (IF group # NoParam THEN groups \cap {group}
         ELSE IF center # NoParam THEN groups \cap InCenter(center)
         ELSE groups)

\* The first row of the user.
shield_vlan_obj(u) == {r \in RowsOf(u) : \A s \in RowsOf(u) : r <= s}

\* A fault of shield_vlan that a run has to find: the vlans of the row are left.
shield_vlan_keeps(vlans, u) == vlans

shield_vlan(vlans, u) ==
    IF IsSuper(u) THEN vlans
    ELSE vlans \ UNION {shield[r].vlans : r \in shield_vlan_obj(u)}

VlanViewSet_list(u, center, group, available) ==
    shield_vlan(filter_vlan_queryset(center, group, u, available), u)

\* Whether the image is in the list.
ImageViewSet_list(market) == os_listed = [enable |-> TRUE, mirror_image_market |-> market]

\* The free addresses of a vlan.
filter_macip_queryset(vlan, used) ==
    {vlan} \cap enabled["macip"] \cap (IF used THEN used_macips ELSE HostGroups \ used_macips)

MacIPViewSet_list(vlan, used) == filter_macip_queryset(vlan, used)

QuotaViewSet_list(group, enable) ==
    IF enable THEN OfGroup(group) \cap enabled["quota"] ELSE OfGroup(group)

-----------------------------------------------------------------------------
(* The checks.                                                             *)

Group_user_has_perms(g, u) == IsSuper(u) \/ u \in group_users[g]

Host_user_has_perms(g, u) == Group_user_has_perms(g, u)

Quota_user_has_perm(g, u) == Group_user_has_perms(g, u)

PCIDevice_user_has_perms(g, u) == Host_user_has_perms(g, u)

\* The devices of the hosts a user may use, of a center, a group, a host, or of
\* all; a group or a host that is not the user's is refused.
get_user_pci_queryset(u) == get_user_group_queryset(u)

get_user_pci_queryset_by_center(center, u) == get_user_group_queryset_by_center(center, u)

get_user_pci_queryset_by_group(group, u) == {g \in {group} : Group_user_has_perms(g, u)}

get_user_pci_queryset_by_host(host, u) == {g \in {host} : Host_user_has_perms(g, u)}

filter_pci_queryset(center, group, host, u) ==
    IF host # NoParam THEN get_user_pci_queryset_by_host(host, u)
    ELSE IF group # NoParam THEN get_user_pci_queryset_by_group(group, u)
    ELSE IF center # NoParam THEN get_user_pci_queryset_by_center(center, u)
    ELSE get_user_pci_queryset(u)

PCIDeviceViewSet_list(u, center, group, host) == filter_pci_queryset(center, group, host, u)

\* Any row of the user.
check_shield_vlan(vlan, u) == \E r \in RowsOf(u) : vlan \in shield[r].vlans

get_vlan_by_id(vlan, u) == IsSuper(u) \/ ~check_shield_vlan(vlan, u)

VlanViewSet_retrieve(vlan, u) == get_vlan_by_id(vlan, u)

get_image == os_listed.enable

MacIP_can_used(macip) == macip \in enabled["macip"] \ used_macips

available_macip(macip, u) == MacIP_can_used(macip) /\ Group_user_has_perms(macip, u)

\* The host comes before the group, the group before the center.
get_groups_host_check_perms(center, group, host, u, vlan) ==
    IF host # NoParam
    THEN Host_user_has_perms(host, u) /\ vlan \in {NoParam, host} /\ group \in {NoParam, host}
    ELSE IF group # NoParam
    THEN vlan \in {NoParam, group} /\ Group_user_has_perms(group, u)
    ELSE center # NoParam /\ (vlan # NoParam => CenterOf[vlan] = center)

\* create_vm up to the schedule: by an address, by a vlan or by neither.
create_vm_by_ip(u, center, group, host, macip) ==
    get_image /\ available_macip(macip, u) /\ get_groups_host_check_perms(center, group, host, u, macip)

create_vm_by_vlan(u, center, group, host, vlan) ==
    /\ get_image
    /\ get_vlan_by_id(vlan, u) /\ Group_user_has_perms(vlan, u)
    /\ get_groups_host_check_perms(center, group, host, u, vlan)

create_vm_by_none(u, center, group, host) ==
    get_image /\ get_groups_host_check_perms(center, group, host, u, NoParam)

\* The quotas a disk may be put in: of a group that the user has, or of the
\* groups of the user, enabled or not, in a center.
schedule_quota_of_group(group, u) == {g \in {group} : Group_user_has_perms(g, u)}

schedule_quota_of_center(center, u) == group_set(u) \cap InCenter(center)

-----------------------------------------------------------------------------
\* A user has one row of vlans that are kept from them, or none.
OneShield(u) == Cardinality(RowsOf(u)) <= 1

\* Whoever makes a vm of what the lists offer, a group of the list of groups, a
\* host of that group, a vlan of it or of the center, a free address of that vlan,
\* an image of either list, is not refused it, however the rows were changed
\* before; nor is a device or a quota of an offered group refused (VmBuilder.create_vm,
\* schedule_quota, get_user_pci_device).  The quotas of a center are those of the
\* user's own groups, of which a superuser may have none; the vlans are those of a
\* user whom no change of a ShieldVlan row has given a second one: the list looks
\* at the first and the check at all of them, see OneRowOfUser.
OfferedIsAllowed ==
    \A u \in Clients, center \in Centers \cup {NoParam} :
      /\ \A g \in GroupViewSet_list(u, center) :
           /\ schedule_quota_of_group(g, u) # {}
           /\ ~IsSuper(u) /\ center # NoParam => g \in schedule_quota_of_center(center, u)
           /\ \A q \in QuotaViewSet_list(g, TRUE) : Quota_user_has_perm(q, u)
           /\ \A market \in BOOLEAN : ImageViewSet_list(market) =>
                \A h \in HostViewSet_list(g) \cup {NoParam} :
                  /\ create_vm_by_none(u, center, g, h)
                  /\ \A v \in VlanViewSet_list(u, center, g, TRUE) :
                       /\ OneShield(u) => create_vm_by_vlan(u, center, g, h, v)
                       /\ \A a \in MacIPViewSet_list(v, FALSE) : create_vm_by_ip(u, center, g, h, a)
      /\ OneShield(u) =>
           \A available \in BOOLEAN : \A v \in VlanViewSet_list(u, center, NoParam, available) :
             /\ VlanViewSet_retrieve(v, u)
             /\ available /\ center # NoParam /\ os_listed.enable
                => create_vm_by_vlan(u, center, NoParam, NoParam, v)
      /\ \A g \in HostGroups \cup {NoParam}, h \in HostGroups \cup {NoParam} :
           \A d \in PCIDeviceViewSet_list(u, center, g, h) : PCIDevice_user_has_perms(d, u)

-----------------------------------------------------------------------------
(* What the form says, and the code does not keep.                         *)

\* "不能重复添加数据，只能修改", no user is given a second row
\* (ShieldVlanForm.clean, network/admin.py).
OneRowOfUser == \A u \in Clients : OneShield(u)
=============================================================================
