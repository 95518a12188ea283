------------------------------ MODULE VmAccess ------------------------------
(***************************************************************************)
(* Who may do what with a vm, a disk and a device, and what a request of   *)
(* the interface does to the row of the vm: src/api/views/views.py,        *)
(* src/vms/api.py, src/vms/api_views/shared_view.py.                       *)
(*                                                                         *)
(* A handler refuses what it cannot read and calls a method of VmAPI.  The *)
(* method loads the row, asks who the user is and what the status of the   *)
(* vm is, writes the record of operations before or after, and works on    *)
(* the row it has loaded, which others may have changed meanwhile.  What   *)
(* the work does to hosts, domains and disks is in the other modules.      *)
(***************************************************************************)
EXTENDS Integers

CONSTANTS
    Callers,         \* requests at a time
    Users,
    Supers,          \* is_superuser
    ResourceAdmins,  \* named by the global setting resourceAdmin
    GroupUsers,      \* may use the devices of the host
    Owners,          \* who may come to own the vm
    DiskOwner,
    SharedLists,     \* the lists of users a vm is shared with
    AccessApart      \* pairs of effects no two requests have at a time

VARIABLES
    vm,      \* the row
    shared,  \* the permissions of VmSharedUser, by user
    caller   \* the requests

accessVars == <<vm, shared, caller>>

Effects == {"read", "change", "remark", "edit", "remove", "shelve", "unshelve",
            "delshelve", "hand_over", "replace"}

Shared == [Users -> {"none", "readonly", "readwrite"}]

\* The rows of the vm that are there.
VmRow == [owner : Owners, status : {"normal", "shelve"}]

CallerState ==
    [pc : {"idle", "act", "write", "log", "done"}, does : Effects, logs : {"never", "after", "done"},
     row : VmRow \cup {[owner |-> DiskOwner, status |-> "gone"]}, list : SharedLists, seen : Shared]

NotShared == [u \in Users |-> "none"]

ASSUME AccessAssumption ==
    /\ Supers \cup ResourceAdmins \cup GroupUsers \cup Owners \subseteq Users
    /\ DiskOwner \in Owners
    /\ SharedLists \subseteq Shared
    /\ NotShared \in SharedLists
    /\ AccessApart \subseteq Effects \X Effects

NoCaller ==
    [pc |-> "idle", does |-> "read", logs |-> "never",
     row |-> [owner |-> DiskOwner, status |-> "gone"], list |-> NotShared, seen |-> NotShared]

AccessTypeOK ==
    /\ vm \in [owner : Owners, status : {"normal", "shelve", "gone"}]
    /\ shared \in Shared
    /\ caller \in [Callers -> CallerState]

AccessInit ==
    /\ vm = [owner |-> DiskOwner, status |-> "normal"]
    /\ shared = NotShared
    /\ caller = [c \in Callers |-> NoCaller]

-----------------------------------------------------------------------------
(* Who is asked for.                                                       *)

\* A fault of has_shared_perm_read that a run has to find: who may write may not
\* read.
has_shared_perm_read_only(u) == shared[u] = "readonly"

has_shared_perm_read(u) ==
     shared[u] \in {"readonly", "readwrite"}

has_shared_perm_of_vm(u, perm) ==
    IF perm = "read" THEN has_shared_perm_read(u) ELSE shared[u] = "readwrite"

check_resource_permissions(u) == u \in ResourceAdmins

check_superuser_and_resource(u) == u \in Supers \/ check_resource_permissions(u)

\* `allowed` names who is let in; "any" is query_user=False.
check_user_permissions_of_vm(u, allowed) ==
    \/ "any" \in allowed
    \/ "super" \in allowed /\ u \in Supers
    \/ "owner" \in allowed /\ vm.owner = u
    \/ "resource" \in allowed /\ check_resource_permissions(u)
    \/ \E perm \in {"read", "write"} \cap allowed : has_shared_perm_of_vm(u, perm)

check_user_permissions_of_disk(u, allowed) ==
    \/ "any" \in allowed
    \/ "super" \in allowed /\ u \in Supers
    \/ "owner" \in allowed /\ DiskOwner = u
    \/ "resource" \in allowed /\ check_resource_permissions(u)

\* The request names no device, or one of a host whose group lets the user in.
get_user_pci_device(u, device) == device => u \in Supers \cup GroupUsers

vm_normal_status(flag) == flag \/ vm.status = "normal"

\* What a method asks of the user and the vm, when it writes the record of
\* operations, and what it does.
Method(allowed, flag, logs, does) ==
    [allowed |-> allowed, flag |-> flag, logs |-> logs, does |-> does,
     disk |-> {"any"}, device |-> FALSE]

OfDisk(method, allowed) == [method EXCEPT !.disk = allowed]

OfDevice(method) == [method EXCEPT !.device = TRUE]

get_user_perms_vm(u, method) ==
    /\ vm.status # "gone"
    /\ check_user_permissions_of_vm(u, method.allowed)
    /\ vm_normal_status(method.flag)

Granted(u, method) ==
    /\ check_user_permissions_of_disk(u, method.disk)
    /\ get_user_pci_device(u, method.device)
    /\ get_user_perms_vm(u, method)

Admins == {"super", "resource"}
Theirs == {"super", "owner"}
AllOfThem == {"super", "resource", "owner"}

-----------------------------------------------------------------------------
(* The methods of VmAPI.                                                   *)

delete_vm == Method(Admins, FALSE, "before", "remove")

edit_vm_vcpu_mem == Method(Admins, FALSE, "before", "edit")

\* The owner and who the vm is shared with may switch it, not delete it.
vm_operations(op) ==
    IF op = "delete" THEN Method(Admins, FALSE, "before", "remove")
    ELSE Method(AllOfThem \cup {"write"}, FALSE, "before", "change")

get_vm_status == Method({"any"}, FALSE, "never", "read")

modify_vm_remark == Method(Theirs, FALSE, "before", "remark")

api_mount_disk == OfDisk(Method(Admins, FALSE, "before", "change"), Admins)

api_umount_disk == OfDisk(Method(Admins, FALSE, "before", "change"), Admins)

create_vm_sys_snap == Method(Admins, FALSE, "after", "change")

delete_sys_disk_snap == Method(Admins, FALSE, "after", "change")

modify_sys_snap_remarks == Method(Theirs, FALSE, "after", "change")

vm_rollback_to_snap == Method(AllOfThem, FALSE, "before", "change")

api_umount_pci == OfDevice(Method(Theirs, FALSE, "never", "change"))

api_mount_pci == OfDevice(Method(Theirs, FALSE, "never", "change"))

api_change_sys_disk == Method(Admins, FALSE, "before", "change")

migrate_vm == Method(Theirs, FALSE, "after", "change")

api_change_password == Method(Theirs, FALSE, "never", "change")

api_miss_fix == Method(AllOfThem \cup {"write"}, FALSE, "before", "change")

live_migrate_vm == Method(Theirs, FALSE, "after", "change")

get_vm_stats == Method(Theirs, FALSE, "never", "read")

api_sys_disk_expand == Method(Admins, FALSE, "before", "change")

api_unshelve == Method(Theirs, TRUE, "before", "unshelve")

api_shelve == Method(Theirs, FALSE, "before", "shelve")

api_delshelve == Method(Theirs, TRUE, "before", "delshelve")

api_attach_ip == Method(Theirs, FALSE, "after", "change")

api_detach_ip == Method(Theirs, FALSE, "before", "change")

attach_ip_list == Method(Theirs, FALSE, "never", "read")

vm_hand_over_user == Method({"any"}, FALSE, "never", "hand_over")

-----------------------------------------------------------------------------
(* The handlers.  A handler that writes the record itself does so before   *)
(* the call, LogsFirst, or when the call has ended well, LogsLast.         *)

LogsFirst(method) == [method EXCEPT !.logs = "before"]

\* A fault of LogsLast that a run has to find: the record is forgotten.
LogsLast_never(method) == [method EXCEPT !.logs = "never"]

LogsLast(method) ==
    [method EXCEPT !.logs = "after"]

VmsViewSet_retrieve == Method(AllOfThem \cup {"read"}, TRUE, "never", "read")
VmsViewSet_destroy == delete_vm
VmsViewSet_partial_update == edit_vm_vcpu_mem
VmsViewSet_operations == {vm_operations(op) : op \in {"start", "reboot", "shutdown", "poweroff", "delete"}}
VmsViewSet_status == get_vm_status

\* The record is written before the status is looked at.
VmsViewSet_vnc == LogsFirst(Method(AllOfThem \cup {"read"}, FALSE, "never", "read"))

VmsViewSet_remark == modify_vm_remark
VmsViewSet_sys_snap == create_vm_sys_snap
VmsViewSet_delete_snap == delete_sys_disk_snap
VmsViewSet_snap_remark == modify_sys_snap_remarks
VmsViewSet_rollback_snap == vm_rollback_to_snap
VmsViewSet_reset == api_change_sys_disk
VmsViewSet_migrate == migrate_vm
VmsViewSet_migrate_live == live_migrate_vm
VmsViewSet_change_password == LogsFirst(api_change_password)
VmsViewSet_miss_fix == api_miss_fix
VmsViewSet_stats == get_vm_stats
VmsViewSet_sys_disk_expand == api_sys_disk_expand
VmsViewSet_shelve == api_shelve
VmsViewSet_unshelve == api_unshelve
VmsViewSet_shelve_destroy == api_delshelve
VmsViewSet_attach_ip == api_attach_ip
VmsViewSet_detach_ip == api_detach_ip
VmsViewSet_attach_ip_list == attach_ip_list

\* The method asks nobody, the handler asks for an administrator.
VmsViewSet_hand_over == LogsLast([vm_hand_over_user EXCEPT !.allowed = Admins])

list_shared_users == Method(Admins, FALSE, "never", "read")
view_replace_shared_users == Method(Admins, FALSE, "never", "replace")

VDiskViewSet_mount == api_mount_disk
VDiskViewSet_umount == api_umount_disk
PCIDeviceViewSet_mount == LogsLast(api_mount_pci)
PCIDeviceViewSet_umount == LogsLast(api_umount_pci)

\* The requests about a vm.
VmRoutes ==
    VmsViewSet_operations \cup
    {VmsViewSet_retrieve, VmsViewSet_destroy, VmsViewSet_partial_update, VmsViewSet_status,
     VmsViewSet_vnc, VmsViewSet_remark, VmsViewSet_sys_snap, VmsViewSet_delete_snap,
     VmsViewSet_snap_remark, VmsViewSet_rollback_snap, VmsViewSet_reset, VmsViewSet_migrate,
     VmsViewSet_migrate_live, VmsViewSet_change_password, VmsViewSet_miss_fix, VmsViewSet_stats,
     VmsViewSet_sys_disk_expand, VmsViewSet_shelve, VmsViewSet_unshelve,
     VmsViewSet_shelve_destroy, VmsViewSet_attach_ip, VmsViewSet_detach_ip,
     VmsViewSet_attach_ip_list, VmsViewSet_hand_over, list_shared_users,
     view_replace_shared_users, VDiskViewSet_mount, VDiskViewSet_umount,
     PCIDeviceViewSet_mount, PCIDeviceViewSet_umount}

\* Who is let in to a request about a disk that no vm has.
VDiskViewSet_retrieve == AllOfThem
VDiskViewSet_destroy == Admins
modify_vdisk_remarks == Theirs
VDiskViewSet_remark == modify_vdisk_remarks

\* Whether the vm is in what a user is shown: the vms, those that are shelved,
\* and those a disk or a device may be attached to.
filter_vms_queryset(u, all) == vm.status \notin {"shelve", "gone"} /\ (all \/ vm.owner = u)
filter_shelve_vm_queryset(u, all) == vm.status \notin {"normal", "gone"} /\ (all \/ vm.owner = u)

VmsViewSet_list(u) == filter_vms_queryset(u, u \in Supers \/ check_resource_permissions(u))
VmsViewSet_shelve_list(u) == filter_shelve_vm_queryset(u, u \in Supers)
VmsViewSet_can_mount_vdisk(u) == filter_vms_queryset(u, u \in Supers)
VmsViewSet_can_mount_pci(u) == vm.status = "normal" /\ (u \in Supers \/ vm.owner = u)

\* The same for the disk.
filter_vdisk_queryset(u, all) == all \/ DiskOwner = u
VDiskViewSet_list(u) == filter_vdisk_queryset(u, check_superuser_and_resource(u))
VDiskViewSet_vm_can_mount(u) == vm.status = "normal" /\ filter_vdisk_queryset(u, u \in Supers)

\* A task whose vm is gone may be seen by anybody.
get_migrate_task(u) == u \in Supers \/ vm.status = "gone" \/ vm.owner = u

-----------------------------------------------------------------------------
(* A request.                                                              *)

CallerTo(c, pc) == caller' = [caller EXCEPT ![c].pc = pc]

Meets(does) ==
    \E c \in Callers : caller[c].pc # "idle"
                       /\ {<<does, caller[c].does>>, <<caller[c].does, does>>} \cap AccessApart # {}

\* The row is loaded and the user let in.  A request that reads is answered, and
\* one that is refused leaves nothing.
Enter(c, u, route) ==
    /\ caller[c].pc = "idle"
    /\ Granted(u, route)
    /\ route.does # "read"
    /\ ~Meets(route.does)
    /\ \E list \in IF route.does = "replace" THEN SharedLists ELSE {NotShared} :
         caller' = [caller EXCEPT ![c] =
            [pc |-> "act", does |-> route.does,
             logs |-> IF route.logs = "before" THEN "done" ELSE route.logs,
             row |-> vm, list |-> list, seen |-> NotShared]]
    /\ UNCHANGED <<vm, shared>>

\* The row of the vm of a request is there to be updated.
HasRow == vm.status # "gone"

Answered(c) == IF caller[c].logs = "after" THEN "log" ELSE "done"

\* A fault of modify_remark that a run has to find: the row is saved whole.
modify_remark_whole(c) == caller[c].row

\* vm.save(update_fields=['remarks']): nothing of the row that is kept here.
modify_remark(c) == vm

\* The other methods that save name what they save.  shelve_vm and unshelve_vm
\* look at the status of the row that was loaded.
SaveStatus(c, status) == [vm EXCEPT !.status = status]

Act(c) ==
    /\ caller[c].pc = "act"
    /\ CallerTo(c, Answered(c))
    /\ UNCHANGED shared
    /\ \/ caller[c].does = "change" /\ UNCHANGED vm
       \/ caller[c].does = "remark" /\ HasRow /\ vm' = modify_remark(c)
       \/ caller[c].does = "shelve" /\ HasRow /\ vm' = SaveStatus(c, "shelve")
       \/ /\ caller[c].does = "unshelve" /\ HasRow
          /\ caller[c].row.status = "shelve"
          /\ vm' = SaveStatus(c, "normal")

\* vm.save() writes every column of the row as it was loaded and, when the row
\* is gone, inserts it.
edit_vcpu_mem_save(c) ==
    /\ caller[c].pc = "act" /\ caller[c].does = "edit"
    /\ vm' = caller[c].row
    /\ CallerTo(c, Answered(c))
    /\ UNCHANGED shared

\* The rows of the users it was shared with go with it.
Remove(c) ==
    /\ caller[c].pc = "act"
    /\ \/ caller[c].does = "remove"
       \/ caller[c].does = "delshelve" /\ caller[c].row.status = "shelve"
    /\ vm' = [vm EXCEPT !.status = "gone"]
    /\ shared' = NotShared
    /\ CallerTo(c, Answered(c))

hand_over(c, owner) ==
    /\ caller[c].pc = "act" /\ caller[c].does = "hand_over"
    /\ HasRow
    /\ vm' = [vm EXCEPT !.owner = owner]
    /\ CallerTo(c, Answered(c))
    /\ UNCHANGED shared

\* An empty list is at once, another is compared with the rows there are.
replace_read(c) ==
    /\ caller[c].pc = "act" /\ caller[c].does = "replace"
    /\ IF caller[c].list = NotShared
       THEN shared' = NotShared /\ CallerTo(c, "done")
       ELSE /\ caller' = [caller EXCEPT ![c].pc = "write", ![c].seen = shared]
            /\ UNCHANGED shared
    /\ UNCHANGED vm

\* A fault of no_change_users that a run has to find: whoever is in both lists
\* keeps the row, whatever the permission.
no_change_users_either(c) == {u \in Users : caller[c].list[u] # "none" /\ caller[c].seen[u] # "none"}

\* The users whose permission is the same keep their row.
no_change_users(c) ==
    {u \in Users : caller[c].list[u] # "none" /\ caller[c].list[u] = caller[c].seen[u]}

\* The other rows seen are deleted and the other users of the list inserted.
replace_write(c) ==
    LET kept == no_change_users(c)
        deleted == {u \in Users : caller[c].seen[u] # "none"} \ kept
        added == {u \in Users : caller[c].list[u] # "none"} \ kept
    IN  /\ caller[c].pc = "write"
        /\ HasRow
        /\ \A u \in added \ deleted : shared[u] = "none"
        /\ shared' = [u \in Users |-> IF u \in added THEN caller[c].list[u]
                                      ELSE IF u \in deleted THEN "none" ELSE shared[u]]
        /\ CallerTo(c, "done")
        /\ UNCHANGED vm

vm_operation_log(c) ==
    /\ caller[c].pc = "log"
    /\ caller' = [caller EXCEPT ![c].pc = "done", ![c].logs = "done"]
    /\ UNCHANGED <<vm, shared>>

\* The answer, or a failure before anything of the row was written.
Leave(c) ==
    /\ caller[c].pc \in {"act", "write", "done"}
    /\ caller' = [caller EXCEPT ![c] = NoCaller]
    /\ UNCHANGED <<vm, shared>>

AccessNext ==
    \E c \in Callers :
        \/ \E u \in Users, route \in VmRoutes : Enter(c, u, route)
        \/ Act(c)
        \/ edit_vcpu_mem_save(c)
        \/ Remove(c)
        \/ \E owner \in Owners : hand_over(c, owner)
        \/ replace_read(c)
        \/ replace_write(c)
        \/ vm_operation_log(c)
        \/ Leave(c)

AccessSpec == AccessInit /\ [][AccessNext]_accessVars
=============================================================================
