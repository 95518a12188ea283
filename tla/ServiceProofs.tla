---------------------------- MODULE ServiceProofs ----------------------------
(***************************************************************************)
(* Proofs about the small services that share no state with each other:    *)
(* the requests of the interface about the row of a vm, the accounts of    *)
(* the vpn, the migration of a vm that is switched off, what the lists     *)
(* offer, and the tasks of the public mirror.  The hypotheses name the     *)
(* requests the code does not keep apart and which, when they meet, break  *)
(* what is proved.                                                         *)
(***************************************************************************)
EXTENDS AccessProperties, VpnAccounts, StaticMigrate, ResourceLists, MirrorProperties,
        FiniteSetTheorems, TLAPS

-----------------------------------------------------------------------------
(* The requests about a vm.                                                *)

\* What every route of the interface has in common.
LEMMA RouteShapes ==
    \A route \in VmRoutes :
        /\ route.does \in Effects
        /\ route.logs \in {"never", "before", "after"}
        /\ route.does # "read" => route.allowed \subseteq AllOfThem \cup {"write"}
        /\ route.does \notin {"read", "replace"} => route.logs \in {"before", "after"}
        /\ route.does = "replace" => route.logs = "never"
<1> DEFINE Fits(route) ==
        /\ route.does \in Effects
        /\ route.logs \in {"never", "before", "after"}
        /\ route.does # "read" => route.allowed \subseteq AllOfThem \cup {"write"}
        /\ route.does \notin {"read", "replace"} => route.logs \in {"before", "after"}
        /\ route.does = "replace" => route.logs = "never"
<1>1. /\ Admins \subseteq AllOfThem \cup {"write"} /\ Theirs \subseteq AllOfThem \cup {"write"}
      /\ AllOfThem \subseteq AllOfThem \cup {"write"}
  BY DEF Admins, Theirs, AllOfThem
<1>2. \A route \in VmsViewSet_operations : Fits(route)
  BY <1>1 DEF VmsViewSet_operations, vm_operations, Method, Effects
<1>3. /\ Fits(VmsViewSet_retrieve) /\ Fits(VmsViewSet_destroy) /\ Fits(VmsViewSet_partial_update)
      /\ Fits(VmsViewSet_status) /\ Fits(VmsViewSet_vnc) /\ Fits(VmsViewSet_remark)
  BY <1>1 DEF VmsViewSet_retrieve, VmsViewSet_destroy, VmsViewSet_partial_update,
     VmsViewSet_status, VmsViewSet_vnc, VmsViewSet_remark, delete_vm, edit_vm_vcpu_mem,
     get_vm_status, modify_vm_remark, LogsFirst, Method, Effects
<1>4. /\ Fits(VmsViewSet_sys_snap) /\ Fits(VmsViewSet_delete_snap) /\ Fits(VmsViewSet_snap_remark)
      /\ Fits(VmsViewSet_rollback_snap) /\ Fits(VmsViewSet_reset) /\ Fits(VmsViewSet_migrate)
      /\ Fits(VmsViewSet_migrate_live) /\ Fits(VmsViewSet_change_password)
  BY <1>1 DEF VmsViewSet_sys_snap, VmsViewSet_delete_snap, VmsViewSet_snap_remark,
     VmsViewSet_rollback_snap, VmsViewSet_reset, VmsViewSet_migrate, VmsViewSet_migrate_live,
     VmsViewSet_change_password, create_vm_sys_snap, delete_sys_disk_snap,
     modify_sys_snap_remarks, vm_rollback_to_snap, api_change_sys_disk, migrate_vm,
     live_migrate_vm, api_change_password, LogsFirst, Method, Effects
<1>5. /\ Fits(VmsViewSet_miss_fix) /\ Fits(VmsViewSet_stats) /\ Fits(VmsViewSet_sys_disk_expand)
      /\ Fits(VmsViewSet_shelve) /\ Fits(VmsViewSet_unshelve) /\ Fits(VmsViewSet_shelve_destroy)
      /\ Fits(VmsViewSet_attach_ip) /\ Fits(VmsViewSet_detach_ip)
      /\ Fits(VmsViewSet_attach_ip_list)
  BY <1>1 DEF VmsViewSet_miss_fix, VmsViewSet_stats, VmsViewSet_sys_disk_expand,
     VmsViewSet_shelve, VmsViewSet_unshelve, VmsViewSet_shelve_destroy, VmsViewSet_attach_ip,
     VmsViewSet_detach_ip, VmsViewSet_attach_ip_list, api_miss_fix, get_vm_stats,
     api_sys_disk_expand, api_shelve, api_unshelve, api_delshelve, api_attach_ip, api_detach_ip,
     attach_ip_list, Method, Effects
<1>6. /\ Fits(VmsViewSet_hand_over) /\ Fits(list_shared_users) /\ Fits(view_replace_shared_users)
      /\ Fits(VDiskViewSet_mount) /\ Fits(VDiskViewSet_umount)
      /\ Fits(PCIDeviceViewSet_mount) /\ Fits(PCIDeviceViewSet_umount)
  BY <1>1 DEF VmsViewSet_hand_over, list_shared_users, view_replace_shared_users,
     VDiskViewSet_mount, VDiskViewSet_umount, PCIDeviceViewSet_mount, PCIDeviceViewSet_umount,
     vm_hand_over_user, api_mount_disk, api_umount_disk, api_mount_pci, api_umount_pci, LogsLast,
     OfDisk, OfDevice, Method, Effects
<1> HIDE DEF Fits
<1>7. \A route \in VmRoutes : Fits(route)
  BY <1>2, <1>3, <1>4, <1>5, <1>6 DEF VmRoutes
<1>8. QED
  BY <1>7 DEF Fits

\* Two requests at work are not of a pair that is kept apart.
KeptApart ==
    \A c, d \in Callers :
        c # d /\ caller[c].pc # "idle" /\ caller[d].pc # "idle"
        => <<caller[c].does, caller[d].does>> \notin AccessApart

\* A request that has been let in, by its step: whether it has written the record.
CallerSound(c) ==
    LET r == caller[c] IN
    /\ r.pc = "write" => r.does = "replace"
    /\ r.pc = "log" => r.logs = "after"
    /\ r.pc # "idle" /\ r.does # "replace" => r.logs \in {"after", "done"}
    /\ r.pc # "idle" /\ r.does = "replace" => r.logs = "never"
    /\ r.pc = "done" /\ r.does # "replace" => r.logs = "done"

AccessInv ==
    /\ AccessTypeOK
    /\ KeptApart
    /\ \A c \in Callers : CallerSound(c)

\* A request that goes on keeps what it holds.
LEMMA CallerGoesOn ==
    ASSUME AccessTypeOK, NEW c \in Callers,
           NEW pc \in {"idle", "act", "write", "log", "done"}, CallerTo(c, pc)
    PROVE  /\ caller' \in [Callers -> CallerState]
           /\ \A x \in Callers \ {c} : caller'[x] = caller[x]
           /\ caller'[c].pc = pc /\ caller'[c].does = caller[c].does
           /\ caller'[c].logs = caller[c].logs /\ caller'[c].row = caller[c].row
           /\ caller'[c].list = caller[c].list /\ caller'[c].seen = caller[c].seen
<1>1. caller \in [Callers -> CallerState] /\ caller[c] \in CallerState
  BY DEF AccessTypeOK
<1>2. caller' = [caller EXCEPT ![c] = [caller[c] EXCEPT !.pc = pc]]
  BY DEF CallerTo
<1>3. [caller[c] EXCEPT !.pc = pc] \in CallerState
  BY <1>1 DEF CallerState
<1>4. QED
  BY <1>1, <1>2, <1>3 DEF CallerState

\* A request goes on to be answered when its record is written.
LEMMA AnsweredFits ==
    ASSUME AccessInv, NEW c \in Callers, caller[c].pc = "act", CallerTo(c, Answered(c)),
           caller[c].does # "replace"
    PROVE  /\ caller' \in [Callers -> CallerState]
           /\ KeptApart' /\ \A x \in Callers : CallerSound(x)'
<1>1. Answered(c) \in {"idle", "act", "write", "log", "done"}
  BY DEF Answered
<1>2. /\ caller' \in [Callers -> CallerState]
      /\ \A x \in Callers \ {c} : caller'[x] = caller[x]
      /\ caller'[c].pc = Answered(c) /\ caller'[c].does = caller[c].does
      /\ caller'[c].logs = caller[c].logs
  BY <1>1, CallerGoesOn DEF AccessInv
<1>3. KeptApart'
  BY <1>2 DEF AccessInv, KeptApart
<1>4. \A x \in Callers : CallerSound(x)'
  BY <1>2 DEF AccessInv, CallerSound, Answered
<1>5. QED
  BY <1>2, <1>3, <1>4

\* A step of a request keeps the invariant.
LEMMA AccessKept == AccessInv /\ [AccessNext]_accessVars => AccessInv'
<1> SUFFICES ASSUME AccessInv, [AccessNext]_accessVars
             PROVE  AccessInv'
  OBVIOUS
<1>1. /\ AccessTypeOK /\ KeptApart /\ \A c \in Callers : CallerSound(c)
      /\ vm \in [owner : Owners, status : {"normal", "shelve", "gone"}]
      /\ shared \in Shared /\ caller \in [Callers -> CallerState]
  BY DEF AccessInv, AccessTypeOK
<1>2. CASE UNCHANGED accessVars
  BY <1>1, <1>2 DEF accessVars, AccessInv, AccessTypeOK, KeptApart, CallerSound
<1>3. ASSUME NEW c \in Callers, NEW u \in Users, NEW route \in VmRoutes, Enter(c, u, route)
      PROVE  AccessInv'
  <2>1. PICK list \in SharedLists :
           caller' = [caller EXCEPT ![c] =
             [pc |-> "act", does |-> route.does,
              logs |-> IF route.logs = "before" THEN "done" ELSE route.logs,
              row |-> vm, list |-> list, seen |-> NotShared]]
    BY <1>3, AccessAssumption DEF Enter
  <2>2. /\ route.does \in Effects /\ route.does # "read"
        /\ route.logs \in {"never", "before", "after"}
        /\ route.does # "replace" => route.logs \in {"before", "after"}
        /\ route.does = "replace" => route.logs = "never"
    BY <1>3, RouteShapes DEF Enter
  <2>3. vm \in VmRow /\ NotShared \in Shared
    BY <1>1, <1>3, AccessAssumption DEF Enter, Granted, get_user_perms_vm, VmRow
  <2>4. /\ caller'[c] \in CallerState
        /\ caller'[c].pc = "act" /\ caller'[c].does = route.does
        /\ caller'[c].logs = IF route.logs = "before" THEN "done" ELSE route.logs
        /\ \A x \in Callers \ {c} : caller'[x] = caller[x]
        /\ caller' \in [Callers -> CallerState]
    BY <1>1, <2>1, <2>2, <2>3 DEF CallerState
  <2>5. ASSUME NEW x \in Callers \ {c}, caller[x].pc # "idle"
        PROVE  /\ <<route.does, caller[x].does>> \notin AccessApart
               /\ <<caller[x].does, route.does>> \notin AccessApart
    BY <1>3, <2>5 DEF Enter, Meets
  <2>6. KeptApart'
    BY <1>1, <2>4, <2>5 DEF KeptApart
  <2>7. \A x \in Callers : CallerSound(x)'
    BY <1>1, <2>2, <2>4 DEF CallerSound
  <2>8. AccessTypeOK'
    BY <1>1, <1>3, <2>4 DEF AccessTypeOK, Enter
  <2>9. QED
    BY <2>6, <2>7, <2>8 DEF AccessInv
<1>4. ASSUME NEW c \in Callers, Act(c) \/ edit_vcpu_mem_save(c) \/ Remove(c)
      PROVE  AccessInv'
  <2>1. /\ caller[c].pc = "act" /\ CallerTo(c, Answered(c)) /\ caller[c].does # "replace"
    BY <1>4 DEF Act, edit_vcpu_mem_save, Remove
  <2>2. vm' \in [owner : Owners, status : {"normal", "shelve", "gone"}]
    <3>1. \A st \in {"normal", "shelve", "gone"} :
             [vm EXCEPT !.status = st] \in [owner : Owners, status : {"normal", "shelve", "gone"}]
      BY <1>1
    <3>2. caller[c].row \in [owner : Owners, status : {"normal", "shelve", "gone"}]
      BY <1>1, AccessAssumption DEF CallerState, VmRow
    <3>3. QED
      BY <1>1, <1>4, <3>1, <3>2 DEF Act, edit_vcpu_mem_save, Remove, SaveStatus, modify_remark
  <2>3. shared' \in Shared
    BY <1>1, <1>4, AccessAssumption DEF Act, edit_vcpu_mem_save, Remove
  <2>4. QED
    BY <2>1, <2>2, <2>3, AnsweredFits DEF AccessInv, AccessTypeOK
<1>5. ASSUME NEW c \in Callers, NEW owner \in Owners, hand_over(c, owner)
      PROVE  AccessInv'
  BY <1>1, <1>5, AnsweredFits DEF hand_over, AccessInv, AccessTypeOK
<1>6. ASSUME NEW c \in Callers, replace_read(c)
      PROVE  AccessInv'
  <2>1. caller[c].pc = "act" /\ caller[c].does = "replace" /\ vm' = vm
    BY <1>6 DEF replace_read
  <2>2. /\ caller' \in [Callers -> CallerState] /\ shared' \in Shared
        /\ caller'[c].pc \in {"done", "write"} /\ caller'[c].does = "replace"
        /\ caller'[c].logs = caller[c].logs
        /\ \A x \in Callers \ {c} : caller'[x] = caller[x]
    <3>1. CASE caller[c].list = NotShared
      BY <1>1, <1>6, <2>1, <3>1, CallerGoesOn, AccessAssumption DEF replace_read
    <3>2. CASE caller[c].list # NotShared
      BY <1>1, <1>6, <2>1, <3>2 DEF replace_read, CallerState
    <3>3. QED
      BY <3>1, <3>2
  <2>3. KeptApart'
    BY <1>1, <2>1, <2>2 DEF KeptApart
  <2>4. \A x \in Callers : CallerSound(x)'
    BY <1>1, <2>1, <2>2 DEF CallerSound
  <2>5. QED
    BY <1>1, <2>1, <2>2, <2>3, <2>4 DEF AccessInv, AccessTypeOK
<1>7. ASSUME NEW c \in Callers, replace_write(c)
      PROVE  AccessInv'
  <2>1. caller[c].pc = "write" /\ caller[c].does = "replace" /\ vm' = vm /\ CallerTo(c, "done")
    BY <1>1, <1>7 DEF replace_write, CallerSound
  <2>2. /\ caller' \in [Callers -> CallerState]
        /\ caller'[c].pc = "done" /\ caller'[c].does = "replace"
        /\ caller'[c].logs = caller[c].logs
        /\ \A x \in Callers \ {c} : caller'[x] = caller[x]
    BY <1>1, <2>1, CallerGoesOn
  <2>3. shared' \in Shared
    BY <1>1, <1>7, AccessAssumption DEF CallerState, Shared, replace_write
  <2>4. KeptApart'
    BY <1>1, <2>1, <2>2 DEF KeptApart
  <2>5. \A x \in Callers : CallerSound(x)'
    BY <1>1, <2>1, <2>2 DEF CallerSound
  <2>6. QED
    BY <1>1, <2>1, <2>2, <2>3, <2>4, <2>5 DEF AccessInv, AccessTypeOK
<1>8. ASSUME NEW c \in Callers, vm_operation_log(c)
      PROVE  AccessInv'
  BY <1>1, <1>8 DEF vm_operation_log, CallerSound, CallerState, KeptApart, AccessInv, AccessTypeOK
<1>9. ASSUME NEW c \in Callers, Leave(c)
      PROVE  AccessInv'
  <2>1. NoCaller \in CallerState
    BY AccessAssumption DEF NoCaller, CallerState, Effects
  <2>2. /\ caller' \in [Callers -> CallerState] /\ caller'[c].pc = "idle"
        /\ \A x \in Callers \ {c} : caller'[x] = caller[x]
    BY <1>1, <1>9, <2>1 DEF Leave, NoCaller
  <2>3. KeptApart' /\ \A x \in Callers : CallerSound(x)'
    BY <1>1, <2>2 DEF KeptApart, CallerSound
  <2>4. QED
    BY <1>1, <1>9, <2>2, <2>3 DEF AccessInv, AccessTypeOK, Leave
<1>10. QED
  BY <1>2, <1>3, <1>4, <1>5, <1>6, <1>7, <1>8, <1>9 DEF AccessNext

\* At first nobody asks for anything.
LEMMA AccessStarts == AccessInit => AccessInv
<1> SUFFICES ASSUME AccessInit
             PROVE  AccessInv
  OBVIOUS
<1>1. NoCaller \in CallerState /\ NoCaller.pc = "idle"
  BY AccessAssumption DEF NoCaller, CallerState, Effects
<1>2. AccessTypeOK
  BY <1>1, AccessAssumption DEF AccessInit, AccessTypeOK
<1>3. \A c \in Callers : caller[c].pc = "idle"
  BY <1>1 DEF AccessInit
<1>4. QED
  BY <1>2, <1>3 DEF AccessInv, KeptApart, CallerSound

\* Rows and requests keep their types.
THEOREM AccessTypeCorrect == AccessSpec => []AccessTypeOK
<1>1. AccessInv => AccessTypeOK
  BY DEF AccessInv
<1>2. QED
  BY <1>1, AccessStarts, AccessKept, PTL DEF AccessSpec

\* Whatever was done to a vm and answered is on the record of operations.
THEOREM DoneIsLogged == AccessSpec => []AnsweredIsLogged
<1>1. AccessInv => AnsweredIsLogged
  BY DEF AccessInv, CallerSound, AnsweredIsLogged
<1>2. QED
  BY <1>1, AccessStarts, AccessKept, PTL DEF AccessSpec

\* Who is let in to anything that changes a vm, or finds it in a list, may look
\* at it, whoever owns it and whoever it is shared with; its owner finds it in
\* exactly one of the two lists of vms.
THEOREM ChangesIsSeen == AccessSpec => []WhoChangesSees
<1>1. ASSUME AccessTypeOK
      PROVE  WhoChangesSees
  <2> DEFINE seers == AllOfThem \cup {"read"}
  <2>1. ASSUME NEW u \in Users, vm.status # "gone", check_user_permissions_of_vm(u, seers)
        PROVE  Granted(u, VmsViewSet_retrieve)
    BY <2>1 DEF Granted, VmsViewSet_retrieve, Method, get_user_perms_vm, vm_normal_status,
       check_user_permissions_of_disk, get_user_pci_device
  <2>2. ASSUME NEW u \in Users, NEW route \in VmRoutes, route.does # "read", Granted(u, route)
        PROVE  vm.status # "gone" /\ check_user_permissions_of_vm(u, seers)
    <3>1. /\ route.allowed \subseteq AllOfThem \cup {"write"} /\ vm.status # "gone"
          /\ check_user_permissions_of_vm(u, route.allowed)
      BY <2>2, RouteShapes DEF Granted, get_user_perms_vm
    <3>2. QED
      BY <3>1 DEF check_user_permissions_of_vm, AllOfThem, has_shared_perm_of_vm,
         has_shared_perm_read
  <2>3. ASSUME NEW u \in Users,
               \/ VmsViewSet_list(u) \/ VmsViewSet_shelve_list(u)
               \/ VmsViewSet_can_mount_vdisk(u) \/ VmsViewSet_can_mount_pci(u)
               \/ vm.status # "gone" /\ get_migrate_task(u)
        PROVE  vm.status # "gone" /\ check_user_permissions_of_vm(u, seers)
    BY <2>3 DEF VmsViewSet_list, VmsViewSet_shelve_list, VmsViewSet_can_mount_vdisk,
       VmsViewSet_can_mount_pci, get_migrate_task, filter_vms_queryset,
       filter_shelve_vm_queryset, check_user_permissions_of_vm, AllOfThem
  <2>4. ASSUME NEW u \in Users,
               \/ \E allowed \in {VDiskViewSet_destroy, VDiskViewSet_remark, api_mount_disk.disk,
                                  api_umount_disk.disk} :
                     check_user_permissions_of_disk(u, allowed)
               \/ VDiskViewSet_list(u) \/ VDiskViewSet_vm_can_mount(u)
        PROVE  check_user_permissions_of_disk(u, VDiskViewSet_retrieve)
    <3>1. api_mount_disk.disk = Admins /\ api_umount_disk.disk = Admins
      BY DEF api_mount_disk, api_umount_disk, OfDisk, Method
    <3>2. QED
      BY <2>4, <3>1 DEF VDiskViewSet_destroy, VDiskViewSet_remark, modify_vdisk_remarks,
         VDiskViewSet_list, VDiskViewSet_vm_can_mount, VDiskViewSet_retrieve,
         check_user_permissions_of_disk, filter_vdisk_queryset, check_superuser_and_resource,
         Admins, Theirs, AllOfThem
  <2>5. ASSUME NEW u \in Users, vm.status # "gone", vm.owner = u
        PROVE  VmsViewSet_list(u) # VmsViewSet_shelve_list(u)
    <3>1. vm.status \in {"normal", "shelve"}
      BY <1>1, <2>5 DEF AccessTypeOK
    <3>2. CASE vm.status = "normal"
      BY <2>5, <3>2 DEF VmsViewSet_list, VmsViewSet_shelve_list, filter_vms_queryset, filter_shelve_vm_queryset
    <3>3. CASE vm.status = "shelve"
      BY <2>5, <3>3 DEF VmsViewSet_list, VmsViewSet_shelve_list, filter_vms_queryset, filter_shelve_vm_queryset
    <3>4. QED
      BY <3>1, <3>2, <3>3
  <2>6. QED
    BY <2>1, <2>2, <2>3, <2>4, <2>5 DEF WhoChangesSees
<1>2. AccessTypeOK => WhoChangesSees
  BY <1>1
<1>3. QED
  BY <1>2, AccessTypeCorrect, PTL

\* An edit of vcpu and memory, which saves the whole row, is kept apart from what
\* writes the owner or the status.
EditsApart ==
    \A does \in {"hand_over", "remove", "delshelve", "shelve", "unshelve"} :
        <<"edit", does>> \in AccessApart

\* The row that an edit has loaded is still what it was; and a replace has read
\* the rows there are.
RowsSound ==
    \A c \in Callers :
        caller[c].pc = "act" /\ caller[c].does = "edit"
        => vm.status # "gone" /\ caller[c].row = vm

StaleInv == AccessInv /\ RowsSound

\* Only what is kept apart from an edit changes the owner or the status of a row.
LEMMA RowsKept ==
    ASSUME EditsApart
    PROVE  StaleInv /\ [AccessNext]_accessVars => StaleInv'
<1> SUFFICES ASSUME StaleInv, [AccessNext]_accessVars
             PROVE  StaleInv'
  OBVIOUS
<1>1. /\ AccessInv /\ AccessInv' /\ RowsSound /\ KeptApart
      /\ caller \in [Callers -> CallerState]
      /\ vm \in [owner : Owners, status : {"normal", "shelve", "gone"}]
  BY AccessKept DEF StaleInv, AccessInv, AccessTypeOK
<1> DEFINE Loaded(c) == caller[c].pc = "act" /\ caller[c].does = "edit"
           Stays(c) == \A x \in Callers \ {c} : caller'[x] = caller[x]
<1>2. ASSUME vm' = vm, \A c \in Callers : Loaded(c)' => Loaded(c) /\ caller'[c].row = caller[c].row
      PROVE  StaleInv'
  BY <1>1, <1>2 DEF StaleInv, RowsSound
<1>3. CASE UNCHANGED accessVars
  BY <1>2, <1>3 DEF accessVars
<1>4. ASSUME NEW c \in Callers, NEW u \in Users, NEW route \in VmRoutes, Enter(c, u, route)
      PROVE  StaleInv'
  BY <1>1, <1>4 DEF Enter, Granted, get_user_perms_vm, StaleInv, RowsSound
<1>5. ASSUME NEW c \in Callers, caller[c].pc = "act",
             caller[c].does \in {"shelve", "unshelve", "remove", "delshelve", "hand_over"},
             Stays(c), caller'[c].pc # "act"
      PROVE  StaleInv'
  <2>1. ASSUME NEW x \in Callers, Loaded(x)
        PROVE  FALSE
    BY <1>1, <1>5, <2>1 DEF KeptApart, EditsApart
  <2>2. \A x \in Callers : ~Loaded(x)'
    BY <1>5, <2>1
  <2>3. QED
    BY <1>1, <2>2 DEF StaleInv, RowsSound
<1>6. ASSUME NEW c \in Callers, NEW pc \in {"idle", "write", "log", "done"}, CallerTo(c, pc)
      PROVE  /\ Stays(c) /\ caller'[c].pc = pc
             /\ caller'[c].does = caller[c].does /\ caller'[c].row = caller[c].row
  BY <1>1, <1>6, CallerGoesOn DEF AccessInv
<1>7. ASSUME NEW c \in Callers, Act(c) \/ edit_vcpu_mem_save(c) \/ Remove(c)
      PROVE  StaleInv'
  <2>1. caller[c].pc = "act" /\ CallerTo(c, Answered(c)) /\ Answered(c) \in {"idle", "write", "log", "done"}
    BY <1>7 DEF Act, edit_vcpu_mem_save, Remove, Answered
  <2>2. Stays(c) /\ caller'[c].pc = Answered(c) /\ caller'[c].pc # "act"
    BY <1>6, <2>1 DEF Answered
  <2>3. CASE caller[c].does \in {"shelve", "unshelve", "remove", "delshelve"}
    BY <1>5, <2>1, <2>2, <2>3
  <2>4. CASE caller[c].does \notin {"shelve", "unshelve", "remove", "delshelve"}
    BY <1>1, <1>2, <1>7, <2>2, <2>4 DEF Act, edit_vcpu_mem_save, Remove, modify_remark, RowsSound
  <2>5. QED
    BY <2>3, <2>4
<1>8. ASSUME NEW c \in Callers, NEW owner \in Owners, hand_over(c, owner)
      PROVE  StaleInv'
  BY <1>5, <1>6, <1>8 DEF hand_over, Answered
<1>9. ASSUME NEW c \in Callers, replace_read(c) \/ replace_write(c) \/ vm_operation_log(c) \/ Leave(c)
      PROVE  StaleInv'
  <2>1. vm' = vm
    BY <1>9 DEF replace_read, replace_write, vm_operation_log, Leave
  <2>2. \/ CallerTo(c, "done")
        \/ caller' = [caller EXCEPT ![c].pc = "write", ![c].seen = shared]
        \/ caller' = [caller EXCEPT ![c].pc = "done", ![c].logs = "done"]
        \/ caller' = [caller EXCEPT ![c] = NoCaller]
    BY <1>9 DEF replace_read, replace_write, vm_operation_log, Leave
  <2>3. Stays(c) /\ caller'[c].pc # "act"
    BY <1>1, <1>6, <2>2 DEF CallerState, NoCaller
  <2>4. QED
    BY <1>2, <2>1, <2>3
<1>10. QED
  BY <1>3, <1>4, <1>7, <1>8, <1>9 DEF AccessNext

\* A vm comes to have another owner by a hand-over only, and one that is gone
\* does not come back, while an edit meets nothing that writes its row.
THEOREM NoStaleRowIsSaved ==
    ASSUME EditsApart
    PROVE  AccessSpec => NoStaleRow
<1> DEFINE Step ==
        /\ vm'.owner # vm.owner => \E c \in Callers : caller[c].does = "hand_over"
                                                 /\ caller[c].pc = "act" /\ caller'[c] # caller[c]
        /\ vm.status = "gone" => vm'.status = "gone"
<1>1. StaleInv /\ [AccessNext]_accessVars => [Step]_accessVars
  <2> SUFFICES ASSUME StaleInv, AccessNext
               PROVE  Step
    BY DEF accessVars
  <2>1. /\ caller \in [Callers -> CallerState] /\ RowsSound
        /\ vm \in [owner : Owners, status : {"normal", "shelve", "gone"}]
    BY DEF StaleInv, AccessInv, AccessTypeOK
  <2>2. ASSUME NEW c \in Callers, Act(c) \/ edit_vcpu_mem_save(c) \/ Remove(c)
        PROVE  Step
    BY <2>1, <2>2 DEF edit_vcpu_mem_save, RowsSound, Act, SaveStatus, modify_remark, HasRow, Remove
  <2>3. ASSUME NEW c \in Callers, NEW owner \in Owners, hand_over(c, owner)
        PROVE  Step
    BY <2>3, CallerGoesOn DEF hand_over, HasRow, Answered, StaleInv, AccessInv
  <2>4. ASSUME vm' = vm
        PROVE  Step
    BY <2>4
  <2>5. QED
    BY <2>2, <2>3, <2>4 DEF AccessNext, Enter, replace_read, replace_write, vm_operation_log, Leave
<1>2. AccessInit => StaleInv
  <2> SUFFICES ASSUME AccessInit
               PROVE  StaleInv
    OBVIOUS
  <2>1. \A c \in Callers : caller[c].pc = "idle"
    BY DEF AccessInit, NoCaller
  <2>2. QED
    BY <2>1, AccessStarts DEF StaleInv, RowsSound
<1>3. StaleInv /\ [AccessNext]_accessVars => StaleInv'
  BY RowsKept
<1>4. QED
  BY <1>1, <1>2, <1>3, PTL DEF AccessSpec, NoStaleRow

\* No two replaces at a time.
ReplacesApart == <<"replace", "replace">> \in AccessApart

\* The rows that a replace has read are still those that there are, or the vm is
\* gone and the rows with it.
SeenSound ==
    \A c \in Callers : caller[c].pc = "write" => vm.status = "gone" \/ caller[c].seen = shared

\* Only a replace changes the users a vm is shared with, while there is a vm.
LEMMA SeenKept ==
    ASSUME EditsApart, ReplacesApart
    PROVE  StaleInv /\ SeenSound /\ [AccessNext]_accessVars => SeenSound'
<1> SUFFICES ASSUME StaleInv, SeenSound, [AccessNext]_accessVars
             PROVE  SeenSound'
  OBVIOUS
<1>1. /\ AccessTypeOK /\ KeptApart /\ RowsSound /\ (\A c \in Callers : CallerSound(c))
      /\ caller \in [Callers -> CallerState] /\ shared \in Shared
      /\ vm \in [owner : Owners, status : {"normal", "shelve", "gone"}]
  BY DEF StaleInv, AccessInv, AccessTypeOK
<1>2. ASSUME NEW c \in Callers, \A x \in Callers \ {c} : caller'[x] = caller[x],
             caller'[c].pc # "write", shared' = shared, vm.status = "gone" => vm'.status = "gone"
      PROVE  SeenSound'
  BY <1>2 DEF SeenSound
<1>3. ASSUME NEW c \in Callers, caller[c].pc = "act", Answered(c) \in {"done", "log"},
             CallerTo(c, Answered(c))
      PROVE  (\A x \in Callers \ {c} : caller'[x] = caller[x]) /\ caller'[c].pc # "write"
  BY <1>1, <1>3, CallerGoesOn
<1>4. \A c \in Callers : Answered(c) \in {"done", "log"}
  BY DEF Answered
<1>5. CASE UNCHANGED accessVars
  BY <1>5 DEF accessVars, SeenSound
<1>6. ASSUME NEW c \in Callers, NEW u \in Users, NEW route \in VmRoutes, Enter(c, u, route)
      PROVE  SeenSound'
  BY <1>1, <1>2, <1>6 DEF Enter
<1>7. ASSUME NEW c \in Callers, Act(c) \/ edit_vcpu_mem_save(c)
      PROVE  SeenSound'
  BY <1>1, <1>2, <1>3, <1>4, <1>7 DEF Act, edit_vcpu_mem_save, RowsSound, SaveStatus, modify_remark, HasRow
<1>8. ASSUME NEW c \in Callers, Remove(c)
      PROVE  SeenSound'
  BY <1>1, <1>8 DEF Remove, SeenSound
<1>9. ASSUME NEW c \in Callers, NEW owner \in Owners, hand_over(c, owner)
      PROVE  SeenSound'
  BY <1>2, <1>3, <1>4, <1>9 DEF hand_over, HasRow
<1>10. ASSUME NEW c \in Callers, caller[c].pc \in {"act", "write"}, caller[c].does = "replace",
              NEW x \in Callers \ {c}, caller[x].pc = "write"
       PROVE  FALSE
  BY <1>1, <1>10 DEF CallerSound, KeptApart, ReplacesApart
<1>11. ASSUME NEW c \in Callers, replace_read(c)
       PROVE  SeenSound'
  <2>1. caller[c].pc = "act" /\ caller[c].does = "replace"
    BY <1>11 DEF replace_read
  <2>2. /\ \A x \in Callers \ {c} : caller'[x] = caller[x]
        /\ caller'[c].pc = "write" => caller'[c].seen = shared /\ shared' = shared
    BY <1>1, <1>11, CallerGoesOn DEF replace_read, CallerState
  <2>3. \A x \in Callers \ {c} : caller'[x].pc # "write"
    BY <1>10, <2>1, <2>2
  <2>4. QED
    BY <2>2, <2>3 DEF SeenSound
<1>12. ASSUME NEW c \in Callers, replace_write(c)
       PROVE  SeenSound'
  BY <1>1, <1>10, <1>12, CallerGoesOn DEF replace_write, CallerSound, SeenSound
<1>13. ASSUME NEW c \in Callers, vm_operation_log(c) \/ Leave(c)
       PROVE  SeenSound'
  <2>1. (\A x \in Callers \ {c} : caller'[x] = caller[x]) /\ caller'[c].pc # "write"
    BY <1>1, <1>13 DEF vm_operation_log, CallerState, Leave, NoCaller
  <2>2. vm' = vm /\ shared' = shared
    BY <1>13 DEF vm_operation_log, Leave
  <2>3. QED
    BY <1>2, <2>1, <2>2
<1>14. QED
  BY <1>5, <1>6, <1>7, <1>8, <1>9, <1>11, <1>12, <1>13 DEF AccessNext

\* What a replace writes by the difference to the rows it has read is what was
\* asked for.
LEMMA DifferenceIsList ==
    ASSUME AccessTypeOK, NEW c \in Callers, replace_write(c), caller[c].seen = shared
    PROVE  shared' = caller[c].list
<1> DEFINE list == caller[c].list
           kept == no_change_users(c)
           deleted == {u \in Users : caller[c].seen[u] # "none"} \ kept
           added == {u \in Users : list[u] # "none"} \ kept
<1>1. list \in Shared /\ shared \in Shared
  BY AccessAssumption DEF AccessTypeOK, CallerState
<1>2. shared' = [u \in Users |-> IF u \in added THEN list[u]
                                 ELSE IF u \in deleted THEN "none" ELSE shared[u]]
  BY DEF replace_write
<1>3. kept = {u \in Users : list[u] # "none" /\ list[u] = shared[u]}
  BY DEF no_change_users
<1> HIDE DEF list, kept
<1>4. \A u \in Users : shared'[u] = list[u]
  BY <1>2, <1>3
<1>5. list \in [Users -> {"none", "readonly", "readwrite"}]
  BY <1>1 DEF Shared
<1>6. shared' = [u \in Users |-> list[u]]
  BY <1>2, <1>4
<1>7. QED
  BY <1>5, <1>6 DEF list

\* A replace of the users a vm is shared with leaves what was asked for.
THEOREM ReplaceIsWhole ==
    ASSUME EditsApart, ReplacesApart
    PROVE  AccessSpec => ReplacedWhole
<1> DEFINE Inv == StaleInv /\ SeenSound
           Step == \A c \in Callers :
                      caller[c].does = "replace" /\ caller[c].pc # "done" /\ caller'[c].pc = "done"
                      => shared' = caller[c].list
<1>1. Inv /\ [AccessNext]_accessVars => [Step]_accessVars
  <2> SUFFICES ASSUME Inv, AccessNext,
                      NEW c \in Callers, caller[c].does = "replace", caller[c].pc # "done",
                      caller'[c].pc = "done"
               PROVE  shared' = caller[c].list
    BY DEF accessVars
  <2>1. /\ AccessTypeOK /\ caller \in [Callers -> CallerState] /\ CallerSound(c) /\ SeenSound
        /\ caller'[c] # caller[c]
    BY DEF StaleInv, AccessInv, AccessTypeOK
  <2>2. ASSUME NEW d \in Callers, NEW pc \in {"idle", "act", "write", "log", "done"},
               CallerTo(d, pc), caller[d].does # "replace"
        PROVE  FALSE
    BY <2>1, <2>2, CallerGoesOn
  <2>3. ASSUME NEW d \in Callers, \/ Act(d) \/ edit_vcpu_mem_save(d) \/ Remove(d)
                                  \/ \E owner \in Owners : hand_over(d, owner)
        PROVE  FALSE
    BY <2>2, <2>3 DEF Act, edit_vcpu_mem_save, Remove, hand_over, Answered
  <2>4. ASSUME NEW d \in Callers, NEW u \in Users, NEW route \in VmRoutes, Enter(d, u, route)
        PROVE  FALSE
    BY <2>1, <2>4 DEF Enter
  <2>5. ASSUME NEW d \in Callers, vm_operation_log(d) \/ Leave(d)
        PROVE  FALSE
    BY <2>1, <2>5 DEF vm_operation_log, Leave, NoCaller, CallerSound
  <2>6. ASSUME NEW d \in Callers, replace_read(d)
        PROVE  shared' = caller[c].list
    <3>1. CASE caller[d].list = NotShared
      BY <2>1, <2>6, <3>1, CallerGoesOn DEF replace_read
    <3>2. CASE caller[d].list # NotShared
      BY <2>1, <2>6, <3>2 DEF replace_read, CallerState
    <3>3. QED
      BY <3>1, <3>2
  <2>7. ASSUME NEW d \in Callers, replace_write(d)
        PROVE  shared' = caller[c].list
    BY <2>1, <2>7, CallerGoesOn, DifferenceIsList DEF replace_write, HasRow, SeenSound
  <2>8. QED
    BY <2>3, <2>4, <2>5, <2>6, <2>7 DEF AccessNext
<1>2. AccessInit => Inv
  <2> SUFFICES ASSUME AccessInit
               PROVE  Inv
    OBVIOUS
  <2>1. \A c \in Callers : caller[c].pc = "idle"
    BY DEF AccessInit, NoCaller
  <2>2. QED
    BY <2>1, AccessStarts DEF StaleInv, RowsSound, SeenSound
<1>3. Inv /\ [AccessNext]_accessVars => Inv'
  BY RowsKept, SeenKept
<1> HIDE DEF Inv
<1>4. QED
  BY <1>1, <1>2, <1>3, PTL DEF AccessSpec, ReplacedWhole

-----------------------------------------------------------------------------
(* The accounts of the vpn.                                                *)

\* What is to be saved is what the user wants changed, but by a page.
CallSound(c) ==
    LET call == vpn_call[c] IN
    /\ call.pc = "save" /\ call.op = "change" => call.update_fields \subseteq call.columns
    /\ call.pc = "save" => call.op \in {"create", "change", "post", "delete"}

VpnInv == VpnTypeOK /\ \A c \in VpnCallers : CallSound(c)

\* A row is one of the table if its columns are.
LEMMA VpnRows ==
    ASSUME VpnTypeOK, NEW p \in Passwords, NEW active \in BOOLEAN
    PROVE  /\ [vpn EXCEPT !.password = p] \in VpnRow /\ [vpn EXCEPT !.active = active] \in VpnRow
           /\ [vpn EXCEPT !.password = p, !.active = active] \in VpnRow
           /\ [there |-> TRUE, id |-> vpn.id + 1, password |-> p, active |-> active] \in VpnRow
           /\ [vpn EXCEPT !.password = p, !.active = active].there = vpn.there
<1>1. vpn \in VpnRow
  BY DEF VpnTypeOK
<1>2. vpn.id + 1 \in Nat
  BY <1>1 DEF VpnRow
<1>3. [there |-> TRUE, id |-> vpn.id + 1, password |-> p, active |-> active] \in VpnRow
  BY <1>2 DEF VpnRow
<1>4. [vpn EXCEPT !.password = p] \in VpnRow
  BY <1>1 DEF VpnRow
<1>5. [vpn EXCEPT !.active = active] \in VpnRow
  BY <1>1 DEF VpnRow
<1>6. /\ [vpn EXCEPT !.password = p, !.active = active] \in VpnRow
      /\ [vpn EXCEPT !.password = p, !.active = active].there = vpn.there
  BY <1>1 DEF VpnRow
<1>7. QED
  BY <1>3, <1>4, <1>5, <1>6

\* A request that is to save is sound if what it saves is what was wanted.
LEMMA ToSaveSound ==
    ASSUME VpnInv, NEW c \in VpnCallers, NEW op \in {"create", "change", "post", "delete"},
           NEW row \in VpnRow, NEW columns \in SUBSET Columns, NEW update_fields \in SUBSET Columns,
           op = "change" => update_fields \subseteq columns,
           ToSave(c, op, row, columns, update_fields), UNCHANGED vpn
    PROVE  VpnInv'
<1> DEFINE call == [pc |-> "save", op |-> op, row |-> row, columns |-> columns,
                    update_fields |-> update_fields]
<1>1. vpn_call \in [VpnCallers -> VpnCall] /\ VpnTypeOK /\ \A d \in VpnCallers : CallSound(d)
  BY DEF VpnInv, VpnTypeOK
<1>2. vpn_call' = [vpn_call EXCEPT ![c] = call] /\ call \in VpnCall
  BY DEF ToSave, VpnCall
<1>3. VpnTypeOK'
  BY <1>1, <1>2 DEF VpnTypeOK
<1>4. CallSound(c)'
  BY <1>1, <1>2 DEF CallSound
<1>5. \A d \in VpnCallers \ {c} : CallSound(d)'
  BY <1>1, <1>2 DEF CallSound
<1>6. QED
  BY <1>3, <1>4, <1>5 DEF VpnInv

\* A request that ends, or is not yet there, has nothing to save.
LEMMA NoCallIs == NoVpn \in VpnRow /\ NoVpnCall \in VpnCall /\ NoVpnCall.pc = "idle"
<1>1. NoVpn \in VpnRow
  BY VpnAssumption DEF NoVpn, VpnRow
<1>2. QED
  BY <1>1 DEF NoVpnCall, VpnCall, Columns

\* What VPNAuth.save makes of the row.
LEMMA SavedRow ==
    ASSUME VpnTypeOK, NEW c \in VpnCallers, VPNAuth_save(c)
    PROVE  /\ vpn' \in VpnRow
           /\ vpn.there /\ vpn'.there =>
                Differing(vpn, vpn') \subseteq
                   IF vpn_call[c].op = "create" THEN {} ELSE vpn_call[c].update_fields
           /\ ~vpn.there /\ vpn'.there => vpn_call[c].op = "create"
<1> DEFINE call == vpn_call[c]
           written(col) == IF col \in call.update_fields THEN call.row[col] ELSE vpn[col]
<1>1. vpn \in VpnRow /\ call \in VpnCall /\ call.row \in VpnRow
  BY DEF VpnTypeOK, VpnCall
<1>2. CASE call.op = "create"
  BY <1>1, <1>2 DEF VPNAuth_save, VpnRow, Differing, Columns
<1>3. CASE call.op # "create" /\ vpn.there /\ vpn.id = call.row.id
  <2>1. vpn' = [vpn EXCEPT !.password = written("password"), !.active = written("active")]
    BY <1>3 DEF VPNAuth_save
  <2>2. written("password") \in Passwords /\ written("active") \in BOOLEAN
    BY <1>1 DEF VpnRow
  <2>3. vpn' \in VpnRow /\ vpn'.there
    BY <1>3, <2>1, <2>2, VpnRows
  <2>4. vpn'.password = written("password") /\ vpn'.active = written("active")
    BY <1>1, <2>1 DEF VpnRow
  <2>5. Differing(vpn, vpn') \subseteq call.update_fields
    BY <2>4 DEF Differing, Columns
  <2>6. QED
    BY <1>3, <2>3, <2>5
<1>4. CASE call.op # "create" /\ ~(vpn.there /\ vpn.id = call.row.id)
  BY <1>1, <1>4 DEF VPNAuth_save, Differing
<1>5. QED
  BY <1>2, <1>3, <1>4

\* Every request of the interface saves the columns it is meant to change.
LEMMA VpnKept == VpnInv /\ [VpnNext]_vpnVars => VpnInv'
<1> SUFFICES ASSUME VpnInv, [VpnNext]_vpnVars
             PROVE  VpnInv'
  OBVIOUS
<1>1. /\ VpnTypeOK /\ vpn \in VpnRow /\ vpn_call \in [VpnCallers -> VpnCall]
      /\ \A c \in VpnCallers : CallSound(c)
      /\ VpnTypeOK <=> vpn \in VpnRow /\ vpn_call \in [VpnCallers -> VpnCall]
  BY DEF VpnInv, VpnTypeOK
<1>2. CASE UNCHANGED vpnVars
  BY <1>1, <1>2 DEF vpnVars, VpnInv, VpnTypeOK, CallSound
<1>3. ASSUME NEW c \in VpnCallers, NEW p \in Passwords, NEW active \in BOOLEAN,
             create_vpn(c, p, active)
      PROVE  VpnInv'
  BY <1>1, <1>3, VpnRows, ToSaveSound DEF create_vpn, Columns
<1>4. ASSUME NEW c \in VpnCallers, VPNViewSet_partial_update(c) \/ active_vpn(c) \/ deactive_vpn(c)
      PROVE  VpnInv'
  <2>1. PICK row \in VpnRow, columns \in SUBSET Columns :
           ToSave(c, "change", row, columns, columns) /\ UNCHANGED vpn
    <3>1. {"password"} \in SUBSET Columns /\ {"active"} \in SUBSET Columns
      BY DEF Columns
    <3>2. CASE VPNViewSet_partial_update(c)
      BY <1>1, <3>1, <3>2, VpnRows DEF VPNViewSet_partial_update, set_password
    <3>3. CASE active_vpn(c) \/ deactive_vpn(c)
      BY <1>1, <3>1, <3>3 DEF VpnRow, active_vpn, deactive_vpn
    <3>4. QED
      BY <1>4, <3>2, <3>3
  <2>2. QED
    BY <2>1, ToSaveSound
<1>5. ASSUME NEW c \in VpnCallers, change_vpn_view(c)
      PROVE  VpnInv'
  <2> DEFINE call == [NoVpnCall EXCEPT !.pc = "page", !.op = "change", !.row = vpn]
  <2>1. vpn_call' = [vpn_call EXCEPT ![c] = call] /\ vpn' = vpn
    BY <1>5 DEF change_vpn_view
  <2>2. call \in VpnCall /\ call.pc = "page"
    BY <1>1, NoCallIs DEF VpnCall
  <2> HIDE DEF call
  <2>3. CallSound(c)' /\ VpnTypeOK'
    BY <1>1, <2>1, <2>2 DEF CallSound, VpnTypeOK
  <2>4. \A d \in VpnCallers \ {c} : CallSound(d)'
    BY <1>1, <2>1 DEF CallSound
  <2>5. QED
    BY <2>3, <2>4 DEF VpnInv
<1>6. ASSUME NEW c \in VpnCallers, VPNChangeView_post(c)
      PROVE  VpnInv'
  <2>1. PICK p \in Passwords, active \in BOOLEAN :
           save_change(c, [vpn EXCEPT !.password = p, !.active = active])
    BY <1>6 DEF VPNChangeView_post
  <2> DEFINE posted == [vpn EXCEPT !.password = p, !.active = active]
  <2>2. posted \in VpnRow
    BY <1>1, VpnRows
  <2>3. Differing(posted, vpn) \in SUBSET Columns /\ Differing(posted, vpn_call[c].row) \in SUBSET Columns
    BY DEF Differing
  <2>4. ToSave(c, "post", posted, Differing(posted, vpn_call[c].row), Differing(posted, vpn))
        /\ UNCHANGED vpn
    BY <1>6, <2>1 DEF VPNChangeView_post, save_change
  <2> HIDE DEF posted
  <2>5. QED
    BY <2>2, <2>3, <2>4, ToSaveSound
<1>7. ASSUME NEW c \in VpnCallers, VPNDeleteView_post(c)
      PROVE  VpnInv'
  BY <1>1, <1>7, ToSaveSound DEF VPNDeleteView_post
<1>8. ASSUME NEW c \in VpnCallers, VPNDeleteUnactiveView_post(c)
      PROVE  VpnInv'
  BY <1>1, <1>8 DEF VPNDeleteUnactiveView_post, VpnRow, CallSound, VpnInv, VpnTypeOK
<1>9. ASSUME NEW c \in VpnCallers, vpn' \in VpnRow,
             vpn_call' = [vpn_call EXCEPT ![c] = NoVpnCall]
      PROVE  VpnInv'
  <2>1. vpn_call' \in [VpnCallers -> VpnCall] /\ vpn_call'[c].pc = "idle"
        /\ \A d \in VpnCallers \ {c} : vpn_call'[d] = vpn_call[d]
    BY <1>1, <1>9, NoCallIs
  <2>2. CallSound(c)' /\ \A d \in VpnCallers \ {c} : CallSound(d)'
    BY <1>1, <2>1 DEF CallSound
  <2>3. QED
    BY <1>9, <2>1, <2>2 DEF VpnInv, VpnTypeOK
<1>10. ASSUME NEW c \in VpnCallers, SaveVpn(c)
       PROVE  VpnInv'
  <2>1. vpn_call' = [vpn_call EXCEPT ![c] = NoVpnCall]
    BY <1>10 DEF SaveVpn
  <2>2. vpn' \in VpnRow
    <3>1. CASE vpn_call[c].op = "delete"
      BY <1>1, <1>10, <3>1 DEF VpnRow, SaveVpn
    <3>2. CASE vpn_call[c].op # "delete"
      BY <1>1, <1>10, <3>2, SavedRow DEF SaveVpn
    <3>3. QED
      BY <3>1, <3>2
  <2>3. QED
    BY <1>9, <2>1, <2>2
<1>11. ASSUME NEW c \in VpnCallers, LeavePage(c)
       PROVE  VpnInv'
  BY <1>1, <1>9, <1>11 DEF LeavePage
<1>12. QED
  BY <1>2, <1>3, <1>4, <1>5, <1>6, <1>7, <1>8, <1>10, <1>11
     DEF VpnNext, VPNViewSet_create, VPNAddView_post

\* A column of an account changes only by a request that is meant to change it or
\* by a page, and an account that was deleted comes back only when it is made
\* again.
THEOREM OnlyWhatIsAskedFor == VpnSpec => AskedFor
<1> DEFINE Step ==
       /\ vpn.there /\ vpn'.there
          => \A col \in Differing(vpn, vpn') :
               \E c \in VpnCallers : /\ vpn_call[c].pc = "save" /\ vpn_call'[c].pc = "idle"
                                     /\ col \in vpn_call[c].columns \/ vpn_call[c].op = "post"
       /\ ~vpn.there /\ vpn'.there
          => \E c \in VpnCallers : vpn_call[c].op = "create" /\ vpn_call'[c].pc = "idle"
<1>1. VpnInv /\ [VpnNext]_vpnVars => [Step]_vpnVars
  <2> SUFFICES ASSUME VpnInv, VpnNext
               PROVE  Step
    BY DEF vpnVars
  <2>1. /\ VpnTypeOK /\ vpn \in VpnRow /\ vpn_call \in [VpnCallers -> VpnCall]
        /\ \A c \in VpnCallers : CallSound(c)
    BY DEF VpnInv, VpnTypeOK
  <2>2. ASSUME vpn' = vpn
        PROVE  Step
    BY <2>2 DEF Differing
  <2>3. ASSUME NEW c \in VpnCallers, VPNDeleteUnactiveView_post(c)
        PROVE  Step
    BY <2>1, <2>3 DEF VPNDeleteUnactiveView_post, VpnRow
  <2>4. ASSUME NEW c \in VpnCallers, SaveVpn(c)
        PROVE  Step
    <3>1. vpn_call[c].pc = "save" /\ vpn_call'[c].pc = "idle"
      BY <2>1, <2>4, NoCallIs DEF SaveVpn
    <3>2. CASE vpn_call[c].op = "delete"
      BY <2>1, <2>4, <3>2 DEF SaveVpn, VpnRow, Differing, Columns
    <3>3. CASE vpn_call[c].op # "delete"
      BY <2>1, <2>4, <3>1, <3>3, SavedRow DEF SaveVpn, CallSound
    <3>4. QED
      BY <3>2, <3>3
  <2>5. QED
    BY <2>2, <2>3, <2>4 DEF VpnNext, VPNViewSet_create, VPNAddView_post, create_vpn,
       VPNViewSet_partial_update, active_vpn, deactive_vpn, change_vpn_view, VPNChangeView_post,
       VPNDeleteView_post, LeavePage
<1>2. VpnInit => VpnInv
  <2> SUFFICES ASSUME VpnInit
               PROVE  VpnInv
    OBVIOUS
  <2>1. VpnTypeOK /\ \A c \in VpnCallers : vpn_call[c].pc = "idle"
    BY NoCallIs DEF VpnInit, VpnTypeOK
  <2>2. QED
    BY <2>1 DEF VpnInv, CallSound
<1>3. VpnInv /\ [VpnNext]_vpnVars => VpnInv'
  BY VpnKept
<1>4. QED
  BY <1>1, <1>2, <1>3, PTL DEF VpnSpec, AskedFor

-----------------------------------------------------------------------------
(* The lists of what is offered.                                           *)

\* Whatever the admin pages write, the rows are rows.
LEMMA ListsTypesKept == ListsTypeOK /\ [ListsNext]_listVars => ListsTypeOK'
<1> SUFFICES ASSUME ListsTypeOK, [ListsNext]_listVars
             PROVE  ListsTypeOK'
  OBVIOUS
<1>1. /\ group_users \in [HostGroups -> SUBSET Clients]
      /\ enabled \in [Enableable -> SUBSET HostGroups] /\ used_macips \subseteq HostGroups
      /\ shield \in [ShieldRows -> ShieldRow] /\ os_listed \in OsListed /\ edits \in 0 .. MaxEdits
      /\ MaxEdits \in Nat
  BY ListAssumption DEF ListsTypeOK
<1>2. Edited => edits' \in 0 .. MaxEdits
  BY <1>1 DEF Edited
<1>3. CASE UNCHANGED listVars
  BY <1>3 DEF listVars, ListsTypeOK
<1>4. ASSUME NEW g \in HostGroups, NEW u \in Clients, GroupAdmin(g, u)
      PROVE  ListsTypeOK'
  BY <1>1, <1>2, <1>4 DEF Toggled, GroupAdmin, ListsTypeOK
<1>5. ASSUME NEW k \in Enableable, NEW g \in HostGroups, EnableAdmin(k, g)
      PROVE  ListsTypeOK'
  BY <1>1, <1>2, <1>5 DEF Toggled, EnableAdmin, ListsTypeOK
<1>6. ASSUME NEW g \in HostGroups, MacIPTaken(g)
      PROVE  ListsTypeOK'
  BY <1>1, <1>2, <1>6 DEF MacIPTaken, ListsTypeOK, Toggled
<1>7. ASSUME NEW row \in OsListed, ImageAdmin(row)
      PROVE  ListsTypeOK'
  BY <1>1, <1>2, <1>7 DEF ImageAdmin, ListsTypeOK
<1>8. ASSUME NEW r \in ShieldRows, NEW row \in ShieldRow, shield' = [shield EXCEPT ![r] = row]
      PROVE  shield' \in [ShieldRows -> ShieldRow]
  BY <1>1, <1>8
<1>9. ASSUME NEW r \in ShieldRows, NEW u \in Clients, NEW vlans \in SUBSET HostGroups,
             AddShieldVlan(r, u, vlans) \/ ChangeShieldVlan(r, u, vlans)
      PROVE  ListsTypeOK'
  <2>1. [user |-> u, vlans |-> vlans] \in ShieldRow
    BY DEF ShieldRow
  <2>2. /\ shield' = [shield EXCEPT ![r] = [user |-> u, vlans |-> vlans]] /\ Edited
        /\ UNCHANGED <<group_users, enabled, used_macips, os_listed>>
    BY <1>9 DEF AddShieldVlan, ChangeShieldVlan
  <2>3. QED
    BY <1>1, <1>2, <1>8, <2>1, <2>2 DEF ListsTypeOK
<1>10. ASSUME NEW r \in ShieldRows, DeleteShieldVlan(r)
       PROVE  ListsTypeOK'
  <2>1. NoShield \in ShieldRow
    BY DEF NoShield, ShieldRow
  <2>2. QED
    BY <1>1, <1>2, <1>8, <1>10, <2>1 DEF DeleteShieldVlan, ListsTypeOK
<1>11. QED
  BY <1>3, <1>4, <1>5, <1>6, <1>7, <1>9, <1>10 DEF ListsNext

\* A user with at most one row has one that is the first and any.
LEMMA TheRowOf ==
    ASSUME NEW u \in Clients, OneShield(u), NEW r \in RowsOf(u), NEW s \in RowsOf(u)
    PROVE  r = s
<1>1. RowsOf(u) \subseteq ShieldRows /\ IsFiniteSet(ShieldRows)
  BY ListAssumption DEF RowsOf
<1>2. IsFiniteSet(RowsOf(u)) /\ IsFiniteSet({r, s})
  BY <1>1, FS_Subset
<1>3. Cardinality({r, s}) <= Cardinality(RowsOf(u))
  BY <1>2, FS_Subset
<1>4. r # s => Cardinality({r, s}) = 2
  <2> SUFFICES ASSUME r # s
               PROVE  Cardinality({r, s}) = 2
    OBVIOUS
  <2>1. IsFiniteSet({r}) /\ Cardinality({r}) = 1 /\ s \notin {r}
    BY FS_Singleton
  <2>2. Cardinality({r} \cup {s}) = Cardinality({r}) + 1
    BY <2>1, FS_AddElement
  <2>3. {r} \cup {s} = {r, s}
    OBVIOUS
  <2>4. QED
    BY <2>1, <2>2, <2>3
<1>5. Cardinality(RowsOf(u)) <= 1 /\ Cardinality(RowsOf(u)) \in Nat
  BY <1>2, FS_CardinalityType DEF OneShield
<1>6. QED
  BY <1>3, <1>4, <1>5

\* A vlan that is listed is one the user is let in to.
LEMMA ListedVlans ==
    ASSUME NEW u \in Clients, OneShield(u), NEW vlans,
           NEW v \in shield_vlan(vlans, u)
    PROVE  v \in vlans /\ get_vlan_by_id(v, u)
<1>1. CASE IsSuper(u)
  BY <1>1 DEF shield_vlan, get_vlan_by_id
<1>2. CASE ~IsSuper(u)
  <2>1. v \in vlans /\ \A r \in shield_vlan_obj(u) : v \notin shield[r].vlans
    BY <1>2 DEF shield_vlan
  <2>2. ASSUME NEW r \in RowsOf(u)
        PROVE  r \in shield_vlan_obj(u)
    <3>1. r \in Nat
      BY ListAssumption DEF RowsOf
    <3>2. \A s \in RowsOf(u) : s = r
      BY TheRowOf
    <3>3. QED
      BY <3>1, <3>2 DEF shield_vlan_obj
  <2>3. QED
    BY <2>1, <2>2 DEF check_shield_vlan, get_vlan_by_id
<1>3. QED
  BY <1>1, <1>2

\* What the lists offer is not refused by the requests that are given it, however
\* the rows were changed before; of the vlans this is so for a user with one
\* ShieldVlan row or none.
THEOREM OfferedIsNotRefused == ListsSpec => []OfferedIsAllowed
<1>1. ASSUME ListsTypeOK
      PROVE  OfferedIsAllowed
  <2> SUFFICES ASSUME NEW u \in Clients, NEW center \in Centers \cup {NoParam}
               PROVE
      /\ \A g \in GroupViewSet_list(u, center) :
           /\ schedule_quota_of_group(g, u) # {}
           /\ ~IsSuper(u) /\ center # NoParam => g \in schedule_quota_of_center(center, u)
           /\ \A q \in QuotaViewSet_list(g, TRUE) : Quota_user_has_perm(q, u)
           /\ \A market \in BOOLEAN : ImageViewSet_list(market) =>
                \A h \in HostViewSet_list(g) \cup {NoParam} :
                  /\ create_vm_by_none(u, center, g, h)
                  /\ \A v \in VlanViewSet_list(u, center, g, TRUE) :
                       /\ OneShield(u) => create_vm_by_vlan(u, center, g, h, v)
                       /\ \A a \in MacIPViewSet_list(v, FALSE) : create_vm_by_ip(u, center, g, h, a)
      /\ OneShield(u) =>
           \A available \in BOOLEAN : \A v \in VlanViewSet_list(u, center, NoParam, available) :
             /\ VlanViewSet_retrieve(v, u)
             /\ available /\ center # NoParam /\ os_listed.enable
                => create_vm_by_vlan(u, center, NoParam, NoParam, v)
      /\ \A g \in HostGroups \cup {NoParam}, h \in HostGroups \cup {NoParam} :
           \A d \in PCIDeviceViewSet_list(u, center, g, h) : PCIDevice_user_has_perms(d, u)
    BY DEF OfferedIsAllowed
  <2>1. NoParam \notin HostGroups /\ enabled \in [Enableable -> SUBSET HostGroups]
        /\ group_users \in [HostGroups -> SUBSET Clients]
    BY <1>1, ListAssumption DEF ListsTypeOK
  <2>2. ASSUME NEW g \in GroupViewSet_list(u, center)
        PROVE  /\ g \in HostGroups /\ Group_user_has_perms(g, u)
               /\ center # NoParam => CenterOf[g] = center
               /\ ~IsSuper(u) => g \in group_set(u)
    <3>1. enabled["group"] \subseteq HostGroups
      BY <2>1 DEF Enableable
    <3>2. QED
      BY <2>2, <3>1 DEF GroupViewSet_list, get_user_group_queryset, get_group_queryset_by_center,
         get_user_group_queryset_by_center, InCenter, group_set, Group_user_has_perms
  <2>3. ASSUME NEW g \in HostGroups \cup {NoParam}, NEW available \in BOOLEAN,
               NEW v \in VlanViewSet_list(u, center, g, available)
        PROVE  /\ OneShield(u) => get_vlan_by_id(v, u)
               /\ available => v \in group_set(u)
               /\ available /\ g # NoParam => v = g
               /\ available /\ g = NoParam /\ center # NoParam => CenterOf[v] = center
    <3>1. v \in filter_vlan_queryset(center, g, u, available)
      BY <2>3 DEF VlanViewSet_list, shield_vlan
    <3>2. OneShield(u) => get_vlan_by_id(v, u)
      BY <2>3, ListedVlans DEF VlanViewSet_list
    <3>3. QED
      BY <3>1, <3>2 DEF filter_vlan_queryset, InCenter
  <2>4. ASSUME NEW g \in GroupViewSet_list(u, center)
        PROVE  /\ schedule_quota_of_group(g, u) # {}
               /\ ~IsSuper(u) /\ center # NoParam => g \in schedule_quota_of_center(center, u)
               /\ \A q \in QuotaViewSet_list(g, TRUE) : Quota_user_has_perm(q, u)
    BY <2>1, <2>2, <2>4 DEF schedule_quota_of_group, schedule_quota_of_center, InCenter,
       QuotaViewSet_list, OfGroup, Quota_user_has_perm
  <2>5. ASSUME NEW g \in GroupViewSet_list(u, center), NEW h \in HostViewSet_list(g) \cup {NoParam},
               NEW vlan \in {NoParam, g}
        PROVE  get_groups_host_check_perms(center, g, h, u, vlan)
    <3>1. h \in {NoParam, g} /\ g # NoParam
      BY <2>1, <2>2, <2>5 DEF HostViewSet_list, filter_hosts_queryset, OfGroup
    <3>2. QED
      BY <2>2, <2>5, <3>1 DEF get_groups_host_check_perms, Host_user_has_perms
  <2>6. ASSUME NEW g \in GroupViewSet_list(u, center), NEW market \in BOOLEAN,
               ImageViewSet_list(market), NEW h \in HostViewSet_list(g) \cup {NoParam}
        PROVE  /\ create_vm_by_none(u, center, g, h)
               /\ \A v \in VlanViewSet_list(u, center, g, TRUE) :
                    /\ OneShield(u) => create_vm_by_vlan(u, center, g, h, v)
                    /\ \A a \in MacIPViewSet_list(v, FALSE) : create_vm_by_ip(u, center, g, h, a)
    <3>1. get_image
      BY <2>6 DEF ImageViewSet_list, get_image
    <3>2. create_vm_by_none(u, center, g, h)
      BY <2>5, <2>6, <3>1 DEF create_vm_by_none
    <3>3. ASSUME NEW v \in VlanViewSet_list(u, center, g, TRUE)
          PROVE  v = g /\ (OneShield(u) => get_vlan_by_id(v, u))
      BY <2>1, <2>2, <2>3, <2>6, <3>3
    <3>4. ASSUME NEW v \in VlanViewSet_list(u, center, g, TRUE)
          PROVE  OneShield(u) => create_vm_by_vlan(u, center, g, h, v)
      BY <2>2, <2>5, <2>6, <3>1, <3>3, <3>4 DEF create_vm_by_vlan
    <3>5. ASSUME NEW v \in VlanViewSet_list(u, center, g, TRUE), NEW a \in MacIPViewSet_list(v, FALSE)
          PROVE  create_vm_by_ip(u, center, g, h, a)
      <4>1. a = g /\ a \in enabled["macip"] \ used_macips
        BY <3>3, <3>5 DEF MacIPViewSet_list, filter_macip_queryset
      <4>2. available_macip(a, u)
        BY <2>2, <2>6, <4>1 DEF available_macip, MacIP_can_used
      <4>3. QED
        BY <2>5, <2>6, <3>1, <4>1, <4>2 DEF create_vm_by_ip
    <3>6. QED
      BY <3>2, <3>4, <3>5
  <2>7. ASSUME NEW available \in BOOLEAN, NEW v \in VlanViewSet_list(u, center, NoParam, available)
        PROVE  OneShield(u) =>
               /\ VlanViewSet_retrieve(v, u)
               /\ available /\ center # NoParam /\ os_listed.enable
                  => create_vm_by_vlan(u, center, NoParam, NoParam, v)
    <3>1. /\ (OneShield(u) => get_vlan_by_id(v, u)) /\ (available => v \in group_set(u))
          /\ available /\ center # NoParam => CenterOf[v] = center
      BY <2>3, <2>7
    <3>2. QED
      BY <3>1 DEF VlanViewSet_retrieve, create_vm_by_vlan, get_image, group_set,
         Group_user_has_perms, get_groups_host_check_perms
  <2>8. ASSUME NEW g \in HostGroups \cup {NoParam}, NEW h \in HostGroups \cup {NoParam},
               NEW d \in PCIDeviceViewSet_list(u, center, g, h)
        PROVE  PCIDevice_user_has_perms(d, u)
    BY <2>8 DEF PCIDeviceViewSet_list, filter_pci_queryset, get_user_pci_queryset_by_host,
       get_user_pci_queryset_by_group, get_user_pci_queryset_by_center, get_user_pci_queryset,
       get_user_group_queryset_by_center, get_user_group_queryset, group_set,
       PCIDevice_user_has_perms, Host_user_has_perms, Group_user_has_perms
  <2>9. QED
    BY <2>4, <2>6, <2>7, <2>8
<1>2. ListsInit => ListsTypeOK
  <2>1. NoParam \notin Clients /\ MaxEdits \in Nat
    BY ListAssumption
  <2>2. QED
    BY <2>1 DEF ListsInit, ListsTypeOK, NoShield, ShieldRow, OsListed
<1>3. ListsTypeOK => OfferedIsAllowed
  BY <1>1
<1>4. ListsTypeOK /\ [ListsNext]_listVars => ListsTypeOK'
  BY ListsTypesKept
<1>5. QED
  BY <1>2, <1>3, <1>4, PTL DEF ListsSpec

-----------------------------------------------------------------------------
(* The migration of a vm that is switched off.                             *)

\* A worker at rest is one, and so is any it can be made of.
LEMMA MigRests == NoMigWorker \in MigWorker /\ NoMigWorker.pc = "idle" /\ NoMigDomain \in MigDomain
<1>1. (CHOOSE v \in MigVms : TRUE) \in MigVms
  BY MigAssumption
<1>2. (CHOOSE h \in MigHosts : TRUE) \in MigHosts
  BY MigAssumption
<1>3. QED
  BY <1>1, <1>2 DEF NoMigWorker, MigWorker, MigPcs, NoMigDomain, MigDomain

\* What the types say of the places a step of w reads.
MigFacts(w) ==
    /\ mig_worker \in [MigWorkers -> MigWorker] /\ Mig(w) \in MigWorker
    /\ Mig(w).vm \in MigVms /\ Mig(w).old \in MigHosts /\ Mig(w).new \in MigHosts
    /\ mig_vm \in [MigVms -> [host : MigHosts, vdisk : BOOLEAN]]
    /\ mig_domain \in [MigVms -> [MigHosts -> MigDomain]]
    /\ mig_todo \in [MigVms -> SUBSET MigHosts]

\* Which every reachable one has.
LEMMA MigPlaces ==
    ASSUME MigTypeOK, NEW w \in MigWorkers
    PROVE  MigFacts(w)
BY DEF MigFacts, MigTypeOK, MigWorker, Mig

\* A worker that goes on keeps what it holds.
LEMMA WorkerGoes ==
    ASSUME MigTypeOK, NEW w \in MigWorkers, NEW pc \in MigPcs, MigGoto(w, pc)
    PROVE  /\ mig_worker' \in [MigWorkers -> MigWorker]
           /\ \A x \in MigWorkers \ {w} : mig_worker'[x] = mig_worker[x]
           /\ mig_worker'[w] = [Mig(w) EXCEPT !.pc = pc]
           /\ mig_worker'[w].pc = pc /\ mig_worker'[w].vm = Mig(w).vm
           /\ mig_worker'[w].old = Mig(w).old /\ mig_worker'[w].new = Mig(w).new
           /\ mig_worker'[w].rebuilt = Mig(w).rebuilt /\ mig_worker'[w].todo = Mig(w).todo
           /\ mig_worker'[w].left = Mig(w).left
<1>1. mig_worker \in [MigWorkers -> MigWorker] /\ mig_worker[w] \in MigWorker /\ Mig(w) = mig_worker[w]
  BY DEF MigTypeOK, Mig
<1>2. mig_worker' = [mig_worker EXCEPT ![w] = [mig_worker[w] EXCEPT !.pc = pc]]
  BY DEF MigGoto
<1>3. [mig_worker[w] EXCEPT !.pc = pc] \in MigWorker
  BY <1>1 DEF MigWorker
<1>4. QED
  BY <1>1, <1>2, <1>3 DEF MigWorker

\* One domain changes.
LEMMA DomainTyped ==
    ASSUME NEW D \in [MigVms -> [MigHosts -> MigDomain]], NEW v \in MigVms, NEW h \in MigHosts
    PROVE  /\ \A d \in MigDomain : [D EXCEPT ![v][h] = d] \in [MigVms -> [MigHosts -> MigDomain]]
           /\ \A st \in {"none", "off", "on"} :
                 [D EXCEPT ![v][h].is = st] \in [MigVms -> [MigHosts -> MigDomain]]
           /\ \A b \in BOOLEAN :
                 [D EXCEPT ![v][h].disk = b] \in [MigVms -> [MigHosts -> MigDomain]]
<1>1. \A d \in MigDomain : [D EXCEPT ![v][h] = d] \in [MigVms -> [MigHosts -> MigDomain]]
  OBVIOUS
<1>2. D[v][h] \in MigDomain
  OBVIOUS
<1>3. ASSUME NEW st \in {"none", "off", "on"}
      PROVE  [D EXCEPT ![v][h].is = st] \in [MigVms -> [MigHosts -> MigDomain]]
  BY <1>1, <1>2 DEF MigDomain
<1>4. ASSUME NEW b \in BOOLEAN
      PROVE  [D EXCEPT ![v][h].disk = b] \in [MigVms -> [MigHosts -> MigDomain]]
  BY <1>1, <1>2 DEF MigDomain
<1>5. QED
  BY <1>1, <1>3, <1>4

\* The statements of the ledger keep its types.
LEMMA LedgerTyped ==
    ASSUME Ledger!HostTypeOK, NEW h \in MigHosts,
           \/ Ledger!claim_from_host(h, 1, 1) \/ Ledger!free(h, 1, 1)
           \/ Ledger!vm_created_num_add_1(h) \/ Ledger!vm_created_num_sub_1(h)
    PROVE  Ledger!HostTypeOK'
<1>1. mig_host \in [MigHosts -> [vcpu_allocated : Int, mem_allocated : Int, vm_created : Int]]
  BY DEF Ledger!HostTypeOK, Ledger!HostRow
<1>2. ASSUME NEW d \in {1, -1}, Ledger!deduct_delta(h, d, d)
      PROVE  Ledger!HostTypeOK'
  BY <1>1, <1>2 DEF Ledger!deduct_delta, Ledger!HostTypeOK, Ledger!HostRow
<1>3. CASE Ledger!claim_from_host(h, 1, 1)
  BY <1>2, <1>3 DEF Ledger!claim_from_host
<1>4. CASE Ledger!free(h, 1, 1)
  BY <1>1, <1>2, <1>4 DEF Ledger!free, Ledger!HostTypeOK, Ledger!HostRow
<1>5. CASE Ledger!vm_created_num_add_1(h) \/ Ledger!vm_created_num_sub_1(h)
  BY <1>1, <1>5 DEF Ledger!vm_created_num_add_1, Ledger!vm_created_num_sub_1,
     Ledger!HostTypeOK, Ledger!HostRow
<1>6. QED
  BY <1>3, <1>4, <1>5

\* The count of the vms of a host is a number.
LEMMA VmsOnCount ==
    ASSUME NEW h
    PROVE  IsFiniteSet(VmsOn(h)) /\ Cardinality(VmsOn(h)) \in Nat
<1>1. VmsOn(h) \subseteq MigVms
  BY DEF VmsOn
<1>2. QED
  BY <1>1, MigAssumption, FS_Subset, FS_CardinalityType

\* A domain that is switched off, or that an undo leaves, is one.
LEMMA SwitchedTyped ==
    ASSUME NEW d \in MigDomain
    PROVE  /\ SwitchedOff(d) \in MigDomain /\ SwitchedOff(d).disk = d.disk
           /\ SwitchedOff(d).is = "none" <=> d.is = "none"
           /\ d.is # "none" => SwitchedOff(d).is = "off"
           /\ Kept(d) \subseteq MigDomain
<1>1. /\ SwitchedOff(d) \in MigDomain /\ SwitchedOff(d).disk = d.disk
      /\ SwitchedOff(d).is = IF d.is = "on" THEN "off" ELSE d.is
  BY DEF SwitchedOff, MigDomain
<1>2. QED
  BY <1>1 DEF Kept, MigDomain

\* What is put at a host of a vm.
LEMMA PutTyped ==
    ASSUME mig_domain \in [MigVms -> [MigHosts -> MigDomain]], NEW v \in MigVms, NEW h \in MigHosts,
           NEW d \in MigDomain
    PROVE  [mig_domain EXCEPT ![v][h] = d] \in [MigVms -> [MigHosts -> MigDomain]]
OBVIOUS

\* Rows, domains and requests keep their types.
LEMMA MigTypesKept == MigTypeOK /\ [MigNext]_migVars => MigTypeOK'
<1> SUFFICES ASSUME MigTypeOK, [MigNext]_migVars
             PROVE  MigTypeOK'
  OBVIOUS
<1>1. CASE UNCHANGED migVars
  BY <1>1 DEF migVars, MigTypeOK, Ledger!HostTypeOK
<1>2. ASSUME Ledger!HostTypeOK', mig_worker' \in [MigWorkers -> MigWorker],
             UNCHANGED <<mig_vm, mig_domain, mig_todo>>
      PROVE  MigTypeOK'
  BY <1>2 DEF MigTypeOK
<1>3. ASSUME mig_worker' \in [MigWorkers -> MigWorker], UNCHANGED mig_host,
             mig_vm' \in [MigVms -> [host : MigHosts, vdisk : BOOLEAN]],
             mig_domain' \in [MigVms -> [MigHosts -> MigDomain]],
             mig_todo' \in [MigVms -> SUBSET MigHosts]
      PROVE  MigTypeOK'
  BY <1>3 DEF MigTypeOK, Ledger!HostTypeOK
<1>4. ASSUME NEW w \in MigWorkers, NEW v \in MigVms, NEW new \in MigHosts, NEW force \in BOOLEAN,
             pre_static_migrate(w, v, new, force)
      PROVE  MigTypeOK'
  <2> DEFINE old == mig_vm[v].host
             m == [NoMigWorker EXCEPT !.pc = "claim", !.vm = v, !.old = old, !.new = new,
                                      !.force = force]
  <2>1. MigFacts(w) /\ old \in MigHosts
    BY MigPlaces DEF MigFacts
  <2>2. m \in MigWorker
    BY <2>1, MigRests DEF MigWorker, MigPcs
  <2>3. mig_domain' \in [MigVms -> [MigHosts -> MigDomain]]
    <3>1. mig_domain' \in {mig_domain, [mig_domain EXCEPT ![v][old] = SwitchedOff(mig_domain[v][old])]}
      BY <1>4, <2>1 DEF pre_static_migrate, MigFacts
    <3>2. mig_domain[v][old] \in MigDomain
      BY <2>1 DEF MigFacts
    <3>3. SwitchedOff(mig_domain[v][old]) \in MigDomain
      BY <3>2, SwitchedTyped
    <3>4. mig_domain \in [MigVms -> [MigHosts -> MigDomain]]
      BY <2>1 DEF MigFacts
    <3>5. [mig_domain EXCEPT ![v][old] = SwitchedOff(mig_domain[v][old])]
             \in [MigVms -> [MigHosts -> MigDomain]]
      BY <2>1, <3>3, <3>4, PutTyped
    <3>6. QED
      BY <3>1, <3>4, <3>5
  <2>4. mig_worker' = [mig_worker EXCEPT ![w] = m] /\ UNCHANGED <<mig_host, mig_vm, mig_todo>>
    BY <1>4 DEF pre_static_migrate
  <2> HIDE DEF m
  <2>5. QED
    BY <1>3, <2>1, <2>2, <2>3, <2>4 DEF MigFacts
<1>5. ASSUME NEW w \in MigWorkers, ClaimTarget(w)
      PROVE  MigTypeOK'
  <2>1. MigFacts(w) /\ Ledger!HostTypeOK
    BY MigPlaces DEF MigTypeOK
  <2>2. CASE Ledger!can_claim(Mig(w).new, 1, 1)
    BY <1>2, <1>5, <2>1, <2>2, WorkerGoes, LedgerTyped DEF ClaimTarget, MigPcs, MigFacts
  <2>3. CASE ~Ledger!can_claim(Mig(w).new, 1, 1)
    BY <1>3, <1>5, <2>1, <2>3, MigRests DEF ClaimTarget, MigFacts
  <2>4. QED
    BY <2>2, <2>3
<1>6. ASSUME NEW w \in MigWorkers, migrate_create_vm(w)
      PROVE  MigTypeOK'
  <2> DEFINE v == Mig(w).vm
             new == Mig(w).new
  <2>1. MigFacts(w)
    BY MigPlaces
  <2>2. CASE MigGoto(w, "undo") /\ UNCHANGED mig_domain
    BY <1>3, <1>6, <2>1, <2>2, WorkerGoes DEF migrate_create_vm, MigFacts, MigPcs
  <2>3. ASSUME NEW rebuilt \in BOOLEAN,
               mig_domain' = [mig_domain EXCEPT ![v][new] =
                                [is |-> IF @.is = "on" THEN "on" ELSE "off",
                                 disk |-> ~rebuilt /\ mig_domain[v][Mig(w).old].disk]],
               mig_worker' = [mig_worker EXCEPT ![w].pc = "save_host", ![w].force = FALSE,
                                                ![w].rebuilt = rebuilt]
        PROVE  MigTypeOK'
    <3>1. mig_worker' = [mig_worker EXCEPT ![w] = [Mig(w) EXCEPT !.pc = "save_host", !.force = FALSE,
                                                                 !.rebuilt = rebuilt]]
      BY <2>1, <2>3 DEF Mig
    <3>2. [Mig(w) EXCEPT !.pc = "save_host", !.force = FALSE, !.rebuilt = rebuilt] \in MigWorker
      BY <2>1 DEF MigFacts, MigWorker, MigPcs
    <3>3. mig_worker' \in [MigWorkers -> MigWorker]
      BY <2>1, <3>1, <3>2 DEF MigFacts
    <3>4. mig_domain' \in [MigVms -> [MigHosts -> MigDomain]]
      BY <2>1, <2>3 DEF MigFacts, MigDomain
    <3>5. QED
      BY <1>3, <1>6, <2>1, <3>3, <3>4 DEF migrate_create_vm, MigFacts
  <2>4. QED
    BY <1>6, <2>2, <2>3 DEF migrate_create_vm
<1>7. ASSUME NEW w \in MigWorkers, SaveHost(w)
      PROVE  MigTypeOK'
  <2>1. MigFacts(w)
    BY MigPlaces
  <2>2. mig_worker' \in [MigWorkers -> MigWorker]
    BY <1>7, WorkerGoes DEF SaveHost, MigPcs
  <2>3. [mig_vm EXCEPT ![Mig(w).vm].host = Mig(w).new] \in [MigVms -> [host : MigHosts, vdisk : BOOLEAN]]
    BY <2>1 DEF MigFacts
  <2>4. mig_domain' \in [MigVms -> [MigHosts -> MigDomain]]
    <3> DEFINE made == mig_domain[Mig(w).vm][Mig(w).new]
    <3>1. made \in MigDomain
      BY <2>1 DEF MigFacts
    <3>2. \/ mig_domain' = mig_domain
          \/ \E d \in {NoMigDomain} \cup Kept(made) :
                mig_domain' = [mig_domain EXCEPT ![Mig(w).vm][Mig(w).new] = d]
      BY <1>7 DEF SaveHost
    <3> HIDE DEF made
    <3>3. NoMigDomain \in MigDomain /\ Kept(made) \subseteq MigDomain
      BY <3>1, MigRests, SwitchedTyped
    <3>4. /\ mig_domain \in [MigVms -> [MigHosts -> MigDomain]]
          /\ Mig(w).vm \in MigVms /\ Mig(w).new \in MigHosts
      BY <2>1 DEF MigFacts
    <3>5. ASSUME NEW d \in {NoMigDomain} \cup Kept(made),
                 mig_domain' = [mig_domain EXCEPT ![Mig(w).vm][Mig(w).new] = d]
          PROVE  mig_domain' \in [MigVms -> [MigHosts -> MigDomain]]
      <4>1. d \in MigDomain
        BY <3>3
      <4>2. QED
        BY <3>4, <3>5, <4>1, PutTyped
    <3>6. QED
      BY <3>2, <3>4, <3>5
  <2>5. mig_vm' \in [MigVms -> [host : MigHosts, vdisk : BOOLEAN]] /\ UNCHANGED <<mig_host, mig_todo>>
    BY <1>7, <2>1, <2>3 DEF SaveHost, MigFacts
  <2>6. QED
    BY <1>3, <2>1, <2>2, <2>4, <2>5 DEF MigFacts
<1>8. ASSUME NEW w \in MigWorkers, UndoMigrate(w)
      PROVE  MigTypeOK'
  BY <1>2, <1>8, MigPlaces, LedgerTyped, MigRests DEF UndoMigrate, FreeTarget, MigFacts, MigTypeOK
<1>9. ASSUME NEW w \in MigWorkers, CountTarget(w) \/ FreeSource(w)
      PROVE  MigTypeOK'
  BY <1>2, <1>9, WorkerGoes, MigPlaces, LedgerTyped DEF CountTarget, FreeSource, MigPcs, MigFacts, MigTypeOK
<1>10. ASSUME NEW w \in MigWorkers, AttachVdisks(w)
       PROVE  MigTypeOK'
  <2> DEFINE v == Mig(w).vm
             wanted == Mig(w).rebuilt /\ mig_vm[v].vdisk
  <2>1. MigFacts(w) /\ wanted \in BOOLEAN
    BY MigPlaces DEF MigFacts, MigWorker
  <2>2. /\ [Mig(w) EXCEPT !.pc = "undefine", !.rebuilt = FALSE] \in MigWorker
        /\ [Mig(w) EXCEPT !.pc = "undefine", !.rebuilt = FALSE, !.todo = TRUE] \in MigWorker
    BY <2>1 DEF MigFacts, MigWorker, MigPcs
  <2>3. \/ mig_worker' = [mig_worker EXCEPT ![w] = [Mig(w) EXCEPT !.pc = "undefine", !.rebuilt = FALSE]]
        \/ mig_worker' = [mig_worker EXCEPT ![w] =
                            [Mig(w) EXCEPT !.pc = "undefine", !.rebuilt = FALSE, !.todo = TRUE]]
    BY <1>10, <2>1 DEF AttachVdisks, MigFacts, Mig
  <2>4. mig_worker' \in [MigWorkers -> MigWorker]
    BY <2>1, <2>2, <2>3 DEF MigFacts
  <2>5. [mig_vm EXCEPT ![v].vdisk = FALSE] \in [MigVms -> [host : MigHosts, vdisk : BOOLEAN]]
    BY <2>1 DEF MigFacts
  <2>6. [mig_domain EXCEPT ![v][Mig(w).new].disk = @ \/ wanted] \in [MigVms -> [MigHosts -> MigDomain]]
    BY <2>1, DomainTyped DEF MigFacts, MigDomain
  <2>7. QED
    BY <1>3, <1>10, <2>1, <2>4, <2>5, <2>6 DEF AttachVdisks, MigFacts
<1>11. ASSUME NEW w \in MigWorkers, UndefineSource(w)
       PROVE  MigTypeOK'
  <2>1. MigFacts(w) /\ Ledger!HostTypeOK
    BY MigPlaces DEF MigTypeOK
  <2>2. CASE Ledger!vm_created_num_sub_1(Mig(w).old) /\ MigGoto(w, "free")
             /\ mig_domain' = [mig_domain EXCEPT ![Mig(w).vm][Mig(w).old] = NoMigDomain]
    BY <1>11, <2>1, <2>2, MigRests, WorkerGoes, LedgerTyped DEF MigFacts, MigPcs, UndefineSource, MigTypeOK
  <2>3. ASSUME mig_worker' = [mig_worker EXCEPT ![w] = LeaveSource(w)], UNCHANGED mig_host,
               NEW d \in Kept(mig_domain[Mig(w).vm][Mig(w).old]),
               mig_domain' = [mig_domain EXCEPT ![Mig(w).vm][Mig(w).old] = d]
        PROVE  MigTypeOK'
    <3>1. d \in MigDomain
      BY <2>1, SwitchedTyped DEF MigFacts
    <3>2. mig_domain' \in [MigVms -> [MigHosts -> MigDomain]]
      BY <2>1, <2>3, <3>1, PutTyped DEF MigFacts
    <3>3. mig_worker' \in [MigWorkers -> MigWorker]
      BY <2>1, <2>3 DEF LeaveSource, MigFacts, MigWorker, MigPcs
    <3>4. QED
      BY <1>3, <1>11, <2>1, <2>3, <3>2, <3>3 DEF MigFacts, UndefineSource
  <2>4. QED
    BY <1>11, <2>2, <2>3 DEF UndefineSource
<1>12. ASSUME NEW w \in MigWorkers, EndMigrate(w)
       PROVE  MigTypeOK'
  <2>1. MigFacts(w)
    BY MigPlaces
  <2>2. [Mig(w) EXCEPT !.pc = "refresh", !.old = Mig(w).new, !.todo = FALSE, !.left = FALSE] \in MigWorker
    BY <2>1 DEF MigFacts, MigWorker, MigPcs
  <2>3. mig_worker' = [mig_worker EXCEPT ![w] =
           [Mig(w) EXCEPT !.pc = "refresh", !.old = Mig(w).new, !.todo = FALSE, !.left = FALSE]]
    BY <1>12, <2>1 DEF EndMigrate, MigFacts, Mig
  <2>4. mig_worker' \in [MigWorkers -> MigWorker]
    BY <2>1, <2>2, <2>3 DEF MigFacts
  <2>5. mig_todo' \in [MigVms -> SUBSET MigHosts]
    BY <1>12, <2>1 DEF MigFacts, EndMigrate
  <2>6. QED
    BY <1>3, <1>12, <2>1, <2>4, <2>5 DEF EndMigrate, MigFacts
<1>13. ASSUME NEW w \in MigWorkers, stats_vcpu_mem_vms_now(w)
       PROVE  MigTypeOK'
  <2>1. MigFacts(w)
    BY MigPlaces
  <2> DEFINE n == Cardinality(VmsOn(Mig(w).new))
  <2>2. n \in Nat
    BY VmsOnCount
  <2>3. mig_worker' = [mig_worker EXCEPT ![w] = [Mig(w) EXCEPT !.pc = "refresh_save", !.seen = n]]
    BY <1>13, <2>1 DEF stats_vcpu_mem_vms_now, MigFacts, Mig
  <2> HIDE DEF n
  <2>4. [Mig(w) EXCEPT !.pc = "refresh_save", !.seen = n] \in MigWorker
    BY <2>1, <2>2 DEF MigFacts, MigWorker, MigPcs
  <2>5. QED
    BY <1>3, <1>13, <2>1, <2>3, <2>4 DEF stats_vcpu_mem_vms_now, MigFacts
<1>14. ASSUME NEW w \in MigWorkers, update_host_quota_save(w)
       PROVE  MigTypeOK'
  <2>1. MigFacts(w) /\ Mig(w).seen \in Int
    BY MigPlaces DEF MigFacts, MigWorker
  <2>2. Ledger!HostTypeOK'
    BY <1>14, <2>1 DEF update_host_quota_save, MigTypeOK, Ledger!HostTypeOK, Ledger!HostRow
  <2>3. [Mig(w) EXCEPT !.pc = "refresh", !.again = TRUE] \in MigWorker
    BY <2>1 DEF MigFacts, MigWorker, MigPcs
  <2>4. mig_worker' = [mig_worker EXCEPT ![w] = IF Mig(w).again THEN NoMigWorker
                                               ELSE [Mig(w) EXCEPT !.pc = "refresh", !.again = TRUE]]
    BY <1>14, <2>1 DEF update_host_quota_save, MigFacts, Mig
  <2>5. mig_worker' \in [MigWorkers -> MigWorker]
    BY <2>1, <2>3, <2>4, MigRests DEF MigFacts
  <2>6. QED
    BY <1>2, <1>14, <2>2, <2>5 DEF update_host_quota_save
<1>15. ASSUME NEW v \in MigVms, StartMigVm(v)
       PROVE  MigTypeOK'
  <2>1. [mig_domain EXCEPT ![v][mig_vm[v].host].is = "on"] \in [MigVms -> [MigHosts -> MigDomain]]
    BY DEF MigTypeOK, MigDomain
  <2>2. QED
    BY <1>3, <1>15, <2>1 DEF StartMigVm, MigTypeOK
<1>16. ASSUME NEW w \in MigWorkers, NEW v \in MigVms, RefuseMigrate(w, v)
       PROVE  MigTypeOK'
  <2>1. MigFacts(w) /\ mig_vm[v].host \in MigHosts
    BY MigPlaces DEF MigFacts
  <2>2. [mig_domain EXCEPT ![v][mig_vm[v].host] = SwitchedOff(mig_domain[v][mig_vm[v].host])]
        \in [MigVms -> [MigHosts -> MigDomain]]
    BY <2>1, SwitchedTyped, PutTyped DEF MigFacts
  <2>3. QED
    BY <1>3, <1>16, <2>1, <2>2 DEF RefuseMigrate, MigFacts
<1>17. QED
  BY <1>1, <1>4, <1>5, <1>6, <1>7, <1>8, <1>9, <1>10, <1>11, <1>12, <1>13, <1>14, <1>15, <1>16 DEF MigNext

\* What undoes a save of the row that failed may fail.
UndoMayFail == MigFails("save_host") /\ MigFails("undefine")

\* A vm has nothing, or what a task names, at a host, or what such an undo left.
Clear(v, h) ==
    \/ mig_domain[v][h].is = "none" \/ h \in mig_todo[v]
    \/ UndoMayFail /\ mig_domain[v][h].is = "off"

ClearBut(v, S) == \A h \in MigHosts \ S : Clear(v, h)

\* A vm is whole where its row says that it is.
WholeAt(v, h) == mig_domain[v][h].is # "none" /\ (mig_vm[v].vdisk => mig_domain[v][h].disk)

Resting(v) == WholeAt(v, mig_vm[v].host) /\ ClearBut(v, {mig_vm[v].host})

\* Of a vm with the domain that was made for it, and may want its vdisk yet.
Made(w) ==
    LET d == mig_domain[Mig(w).vm][Mig(w).new]
    IN  d.is # "none" /\ (mig_vm[Mig(w).vm].vdisk /\ ~Mig(w).rebuilt => d.disk)

\* What a migration knows at each of its steps.
MoveSound(w) ==
    LET m == Mig(w)
        v == m.vm
    IN  /\ m.pc \in {"claim", "define", "save_host", "undo", "created", "attach", "undefine",
                     "free", "end"} => m.new # m.old
        /\ m.pc \in {"claim", "define", "undo"}
              => mig_vm[v].host = m.old /\ WholeAt(v, m.old) /\ ClearBut(v, {m.old})
        /\ m.pc = "save_host"
              => /\ mig_vm[v].host = m.old /\ WholeAt(v, m.old) /\ ClearBut(v, {m.old, m.new})
                 /\ Made(w) /\ (mig_domain[v][m.new].is = "off" \/ m.new \in mig_todo[v])
        /\ m.pc \in {"created", "attach"}
              => mig_vm[v].host = m.new /\ Made(w) /\ ClearBut(v, {m.old, m.new})
        /\ m.pc \in {"undefine", "free", "end"}
              => mig_vm[v].host = m.new /\ WholeAt(v, m.new) /\ ClearBut(v, {m.old, m.new})
        /\ m.pc \in {"free", "end"} => Clear(v, m.old) \/ (m.todo /\ m.left)

\* A vm is moved by one request at a time.
OneMover ==
    \A w, x \in MigWorkers :
        Mig(w).pc # "idle" /\ Mig(x).pc # "idle" /\ Mig(w).vm = Mig(x).vm => w = x

MoveInv ==
    /\ MigTypeOK
    /\ OneMover
    /\ \A w \in MigWorkers : MoveSound(w)
    /\ \A v \in MigVms :
          (\A w \in MigWorkers : Mig(w).pc \in {"idle", "refresh", "refresh_save"} \/ Mig(w).vm # v)
          => Resting(v)

\* A step of one request, w, that moves v, and of nothing else.
LEMMA MoveOfOne ==
    ASSUME MoveInv, MigTypeOK', NEW w \in MigWorkers, NEW v \in MigVms,
           \A x \in MigWorkers \ {w} : mig_worker'[x] = mig_worker[x]
                                       /\ (Mig(x).pc = "idle" \/ Mig(x).vm # v),
           Mig(w).pc = "idle" \/ Mig(w).vm = v,
           mig_worker'[w].pc = "idle" \/ mig_worker'[w].vm = v,
           \A u \in MigVms \ {v} : mig_vm'[u] = mig_vm[u] /\ mig_domain'[u] = mig_domain[u]
                                   /\ mig_todo'[u] = mig_todo[u],
           MoveSound(w)',
           mig_worker'[w].pc \in {"idle", "refresh", "refresh_save"} => Resting(v)'
    PROVE  MoveInv'
<1>1. OneMover /\ (\A x \in MigWorkers : MoveSound(x) /\ MigFacts(x))
  BY MigPlaces DEF MoveInv
<1>2. \A x \in MigWorkers : Mig(x)' = mig_worker'[x] /\ Mig(x) = mig_worker[x]
  BY DEF Mig
<1>3. OneMover'
  BY <1>1, <1>2 DEF OneMover
<1>4. ASSUME NEW x \in MigWorkers
      PROVE  MoveSound(x)'
  <2>1. CASE x = w
    BY <2>1
  <2>2. CASE x # w
    <3>1. Mig(x)' = Mig(x)
      BY <1>2, <2>2
    <3>2. CASE Mig(x).pc = "idle"
      BY <3>1, <3>2 DEF MoveSound
    <3>3. CASE Mig(x).pc # "idle"
      <4>1. Mig(x).vm \in MigVms \ {v}
        BY <1>1, <2>2, <3>3 DEF MigFacts
      <4>2. PICK u \in MigVms \ {v} : u = Mig(x).vm
        BY <4>1
      <4>3. mig_vm'[u] = mig_vm[u] /\ mig_domain'[u] = mig_domain[u] /\ mig_todo'[u] = mig_todo[u]
        OBVIOUS
      <4>4. MoveSound(x)
        BY <1>1
      <4>5. /\ \A h : Clear(u, h)' = Clear(u, h) /\ WholeAt(u, h)' = WholeAt(u, h)
            /\ \A T : ClearBut(u, T)' = ClearBut(u, T)
        BY <4>3 DEF WholeAt, ClearBut, Clear
      <4>6. Made(x)' = Made(x)
        BY <3>1, <4>2, <4>3 DEF Made
      <4>7. QED
        BY <3>1, <4>2, <4>3, <4>4, <4>5, <4>6 DEF MoveSound
    <3>4. QED
      BY <3>2, <3>3
  <2>3. QED
    BY <2>1, <2>2
<1>5. ASSUME NEW u \in MigVms,
             \A x \in MigWorkers : Mig(x)'.pc \in {"idle", "refresh", "refresh_save"} \/ Mig(x)'.vm # u
      PROVE  Resting(u)'
  <2>1. CASE u = v
    BY <1>2, <1>5, <2>1
  <2>2. CASE u # v
    BY <1>2, <1>5, <2>2 DEF MoveInv, Resting, WholeAt, ClearBut, Clear
  <2>3. QED
    BY <2>1, <2>2
<1>6. QED
  BY <1>3, <1>4, <1>5 DEF MoveInv

\* The request that is at work alone moves its vm.
LEMMA OthersElsewhere ==
    ASSUME OneMover, NEW w \in MigWorkers, Mig(w).pc # "idle"
    PROVE  \A x \in MigWorkers \ {w} : Mig(x).pc = "idle" \/ Mig(x).vm # Mig(w).vm
BY DEF OneMover

\* A step that moves no vm, and changes the worker's place only.
LEMMA StepInPlace ==
    ASSUME MoveInv, MigTypeOK', NEW w \in MigWorkers, Mig(w).pc # "idle",
           UNCHANGED <<mig_vm, mig_domain, mig_todo>>,
           \A x \in MigWorkers \ {w} : mig_worker'[x] = mig_worker[x],
           mig_worker'[w].pc = "idle" \/ mig_worker'[w].vm = Mig(w).vm,
           MoveSound(w)',
           mig_worker'[w].pc \in {"idle", "refresh", "refresh_save"} => Resting(Mig(w).vm)
    PROVE  MoveInv'
<1>1. PICK v \in MigVms : v = Mig(w).vm
  BY MigPlaces DEF MoveInv, MigFacts
<1>2. \A x \in MigWorkers \ {w} : Mig(x).pc = "idle" \/ Mig(x).vm # v
  BY <1>1, OthersElsewhere DEF MoveInv
<1>3. Resting(v) => Resting(v)'
  BY DEF Resting, WholeAt, ClearBut, Clear
<1>4. QED
  BY <1>1, <1>2, <1>3, MoveOfOne

\* A domain that is put at a host of a vm is the only one that changes.
LEMMA DomainPut ==
    ASSUME mig_domain \in [MigVms -> [MigHosts -> MigDomain]], NEW v \in MigVms, NEW h \in MigHosts,
           NEW d, mig_domain' = [mig_domain EXCEPT ![v][h] = d]
    PROVE  /\ \A u \in MigVms \ {v} : mig_domain'[u] = mig_domain[u]
           /\ \A g \in MigHosts \ {h} : mig_domain'[v][g] = mig_domain[v][g]
           /\ mig_domain'[v][h] = d
OBVIOUS

\* What a step that leaves the vm where it is needs: to start, and to claim.
LEMMA MoveBegins ==
    ASSUME MoveInv, MigTypeOK', NEW w \in MigWorkers,
           \/ \E v \in MigVms, new \in MigHosts, force \in BOOLEAN : pre_static_migrate(w, v, new, force)
           \/ ClaimTarget(w) \/ CountTarget(w) \/ FreeSource(w)
           \/ UndoMigrate(w) \/ stats_vcpu_mem_vms_now(w) \/ update_host_quota_save(w)
    PROVE  MoveInv'
<1>1. /\ MigTypeOK /\ MigFacts(w) /\ OneMover /\ MoveSound(w)
      /\ Mig(w) = mig_worker[w] /\ Mig(w)' = mig_worker'[w]
  BY MigPlaces DEF MoveInv, Mig
<1>2. Mig(w).pc \in {"refresh", "refresh_save"} => Resting(Mig(w).vm)
  <2>1. SUFFICES ASSUME Mig(w).pc \in {"refresh", "refresh_save"}
                 PROVE  Resting(Mig(w).vm)
    OBVIOUS
  <2>2. \A x \in MigWorkers :
           Mig(x).pc \in {"idle", "refresh", "refresh_save"} \/ Mig(x).vm # Mig(w).vm
    BY <1>1, <2>1 DEF OneMover
  <2>3. QED
    BY <1>1, <2>2 DEF MoveInv, MigFacts
<1>3. ASSUME NEW v \in MigVms, NEW new \in MigHosts, NEW force \in BOOLEAN,
             pre_static_migrate(w, v, new, force)
      PROVE  MoveInv'
  <2>1. PICK old \in MigHosts : old = mig_vm[v].host
    BY <1>1 DEF MigFacts
  <2> DEFINE m == [NoMigWorker EXCEPT !.pc = "claim", !.vm = v, !.old = old, !.new = new,
                                      !.force = force]
  <2>2. /\ Mig(w).pc = "idle" /\ new # old /\ mig_worker' = [mig_worker EXCEPT ![w] = m]
        /\ \A x \in MigWorkers : Mig(x).pc = "idle" \/ Mig(x).vm # v
        /\ UNCHANGED <<mig_vm, mig_todo>>
    BY <2>1, <1>3 DEF pre_static_migrate, NothingMoves, MigAt, Mig
  <2>3. m.pc = "claim" /\ m.vm = v /\ m.old = old /\ m.new = new
    BY MigRests DEF MigWorker
  <2>4. mig_worker'[w] = m /\ \A x \in MigWorkers \ {w} : mig_worker'[x] = mig_worker[x]
    BY <1>1, <2>2 DEF MigFacts
  <2> HIDE DEF m
  <2>5. Resting(v)
    BY <2>2 DEF MoveInv
  <2>6. /\ \A u \in MigVms \ {v} : mig_domain'[u] = mig_domain[u]
        /\ \A h \in MigHosts : /\ mig_domain'[v][h].disk = mig_domain[v][h].disk
                               /\ mig_domain'[v][h].is = "none" <=> mig_domain[v][h].is = "none"
                               /\ h = old \/ mig_domain'[v][h] = mig_domain[v][h]
    <3> DEFINE d == SwitchedOff(mig_domain[v][old])
    <3>1. mig_domain' = mig_domain \/ mig_domain' = [mig_domain EXCEPT ![v][old] = d]
      BY <1>3, <2>1 DEF pre_static_migrate
    <3>2. d.disk = mig_domain[v][old].disk /\ (d.is = "none" <=> mig_domain[v][old].is = "none")
      BY <1>1, SwitchedTyped DEF MigFacts
    <3> HIDE DEF d
    <3>3. CASE mig_domain' = mig_domain
      BY <3>3
    <3>4. CASE mig_domain' = [mig_domain EXCEPT ![v][old] = d]
      BY <1>1, <3>2, <3>4, DomainPut DEF MigFacts
    <3>5. QED
      BY <3>1, <3>3, <3>4
  <2>7. Resting(v)'
    BY <1>1, <2>1, <2>2, <2>5, <2>6 DEF Resting, WholeAt, ClearBut, Clear, MigFacts
  <2>8. MoveSound(w)'
    BY <1>1, <2>1, <2>2, <2>3, <2>4, <2>7 DEF Resting, MoveSound
  <2>9. QED
    BY <2>2, <2>3, <2>4, <2>6, <2>8, MoveOfOne
<1>4. CASE ClaimTarget(w) \/ CountTarget(w) \/ FreeSource(w)
  <2>1. /\ Mig(w).pc \in {"claim", "created", "free"} /\ UNCHANGED <<mig_vm, mig_domain, mig_todo>>
        /\ \/ MigGoto(w, "define") /\ Mig(w).pc = "claim"
           \/ MigGoto(w, "attach") /\ Mig(w).pc = "created"
           \/ MigGoto(w, "end") /\ Mig(w).pc = "free"
           \/ mig_worker' = [mig_worker EXCEPT ![w] = NoMigWorker] /\ Mig(w).pc = "claim"
    BY <1>4 DEF ClaimTarget, CountTarget, FreeSource, MigAt, Mig
  <2>2. CASE mig_worker' = [mig_worker EXCEPT ![w] = NoMigWorker] /\ Mig(w).pc = "claim"
    BY <1>1, <2>1, <2>2, MigRests, StepInPlace DEF MigFacts, MoveSound, Resting
  <2>3. ASSUME NEW pc \in {"define", "attach", "end"}, MigGoto(w, pc),
               pc = "define" => Mig(w).pc = "claim", pc = "attach" => Mig(w).pc = "created",
               pc = "end" => Mig(w).pc = "free"
        PROVE  MoveInv'
    <3>1. /\ \A x \in MigWorkers \ {w} : mig_worker'[x] = mig_worker[x]
          /\ Mig(w)'.pc = pc /\ Mig(w)'.vm = Mig(w).vm
          /\ Mig(w)'.old = Mig(w).old /\ Mig(w)'.new = Mig(w).new
          /\ Mig(w)'.rebuilt = Mig(w).rebuilt /\ Mig(w)'.todo = Mig(w).todo
          /\ Mig(w)'.left = Mig(w).left
      BY <1>1, <2>3, WorkerGoes DEF MigPcs
    <3>2. MoveSound(w)'
      <4> DEFINE v == Mig(w).vm
      <4>1. MoveSound(w) /\ UNCHANGED <<mig_vm, mig_domain, mig_todo>>
        BY <1>1, <2>1
      <4>2. /\ \A h : Clear(v, h)' = Clear(v, h) /\ WholeAt(v, h)' = WholeAt(v, h)
            /\ \A T : ClearBut(v, T)' = ClearBut(v, T)
        BY <3>1, <4>1 DEF WholeAt, ClearBut, Clear
      <4>3. Made(w)' = Made(w) /\ (mig_vm[v].host)' = mig_vm[v].host
        BY <3>1, <4>1 DEF Made
      <4> HIDE DEF v
      <4>4. QED
        BY <2>3, <3>1, <4>1, <4>2, <4>3 DEF MoveSound, v
    <3>3. QED
      BY <1>1, <2>1, <2>3, <3>1, <3>2, StepInPlace
  <2>4. QED
    BY <2>1, <2>2, <2>3
<1>5. CASE UndoMigrate(w)
  BY <1>1, <1>5, MigRests, StepInPlace DEF UndoMigrate, MigAt, Mig, MigFacts, MoveSound, Resting
<1>6. CASE stats_vcpu_mem_vms_now(w) \/ update_host_quota_save(w)
  <2>1. Mig(w).pc \in {"refresh", "refresh_save"} /\ UNCHANGED <<mig_vm, mig_domain, mig_todo>>
    BY <1>6 DEF stats_vcpu_mem_vms_now, update_host_quota_save, MigAt, Mig
  <2>2. /\ \A x \in MigWorkers \ {w} : mig_worker'[x] = mig_worker[x]
        /\ mig_worker'[w].pc \in {"idle", "refresh", "refresh_save"}
        /\ mig_worker'[w].pc = "idle" \/ mig_worker'[w].vm = Mig(w).vm
    <3>1. CASE stats_vcpu_mem_vms_now(w)
      BY <1>1, <3>1 DEF stats_vcpu_mem_vms_now, MigFacts, MigWorker
    <3>2. CASE update_host_quota_save(w)
      BY <1>1, <3>2, MigRests DEF update_host_quota_save, MigFacts, MigWorker
    <3>3. QED
      BY <1>6, <3>1, <3>2
  <2>3. MoveSound(w)'
    BY <1>1, <2>2 DEF MoveSound
  <2>4. QED
    BY <1>2, <2>1, <2>2, <2>3, StepInPlace
<1>7. QED
  BY <1>3, <1>4, <1>5, <1>6

\* What another request than w holds is another vm, as MoveOfOne asks.
LEMMA MoveOfWorker ==
    ASSUME MoveInv, MigTypeOK', NEW w \in MigWorkers, NEW m \in MigWorker, NEW v \in MigVms,
           v = Mig(w).vm, Mig(w).pc # "idle", m.vm = v,
           mig_worker' = [mig_worker EXCEPT ![w] = m],
           \A u \in MigVms \ {v} : mig_vm'[u] = mig_vm[u] /\ mig_domain'[u] = mig_domain[u]
                                   /\ mig_todo'[u] = mig_todo[u],
           Mig(w)' = m => MoveSound(w)',
           m.pc \in {"idle", "refresh", "refresh_save"} => Resting(v)'
    PROVE  MoveInv'
<1>1. MigFacts(w) /\ OneMover
  BY MigPlaces DEF MoveInv
<1>2. mig_worker'[w] = m /\ \A x \in MigWorkers \ {w} : mig_worker'[x] = mig_worker[x]
  BY <1>1 DEF MigFacts
<1>3. Mig(w)' = m
  BY <1>2 DEF Mig
<1>4. \A x \in MigWorkers \ {w} : Mig(x).pc = "idle" \/ Mig(x).vm # v
  BY <1>1, OthersElsewhere
<1>5. QED
  BY <1>2, <1>3, <1>4, MoveOfOne

\* The domain is made of the one that is whole, or wants its vdisk yet.
LEMMA MoveMakes ==
    ASSUME MoveInv, MigTypeOK', NEW w \in MigWorkers, migrate_create_vm(w)
    PROVE  MoveInv'
<1>1. /\ MigTypeOK /\ MigFacts(w) /\ MoveSound(w) /\ Mig(w) \in MigWorker /\ Mig(w) = mig_worker[w]
      /\ Mig(w).pc = "define" /\ UNCHANGED <<mig_host, mig_vm, mig_todo>>
  BY MigPlaces DEF MoveInv, migrate_create_vm, MigAt, Mig, MigFacts
<1>2. PICK v \in MigVms, old \in MigHosts, new \in MigHosts :
         v = Mig(w).vm /\ old = Mig(w).old /\ new = Mig(w).new
  BY <1>1 DEF MigFacts
<1>3. /\ new # old /\ mig_vm[v].host = old
      /\ mig_domain[v][old].is # "none" /\ (mig_vm[v].vdisk => mig_domain[v][old].disk)
      /\ \A h \in MigHosts \ {old} : Clear(v, h)
  BY <1>1, <1>2 DEF MoveSound, WholeAt, ClearBut, Clear
<1>4. CASE MigGoto(w, "undo") /\ UNCHANGED mig_domain
  <2> DEFINE m == [Mig(w) EXCEPT !.pc = "undo"]
  <2>1. m \in MigWorker /\ m.pc = "undo" /\ m.vm = v /\ m.old = old /\ m.new = new
    BY <1>1, <1>2 DEF MigWorker, MigPcs
  <2>2. mig_worker' = [mig_worker EXCEPT ![w] = m]
    BY <1>1, <1>4 DEF MigGoto, MigFacts
  <2> HIDE DEF m
  <2>3. Mig(w)' = m => MoveSound(w)'
    BY <1>1, <1>3, <1>4, <2>1 DEF MoveSound, WholeAt, ClearBut, Clear
  <2>4. QED
    BY <1>1, <1>2, <1>4, <2>1, <2>2, <2>3, MoveOfWorker
<1>5. ASSUME NEW rebuilt \in BOOLEAN,
             mig_domain' = [mig_domain EXCEPT ![v][new] =
                              [is |-> IF @.is = "on" THEN "on" ELSE "off",
                               disk |-> ~rebuilt /\ mig_domain[v][old].disk]],
             mig_worker' = [mig_worker EXCEPT ![w].pc = "save_host", ![w].force = FALSE,
                                              ![w].rebuilt = rebuilt]
      PROVE  MoveInv'
  <2> DEFINE m == [Mig(w) EXCEPT !.pc = "save_host", !.force = FALSE, !.rebuilt = rebuilt]
             d == [is |-> IF mig_domain[v][new].is = "on" THEN "on" ELSE "off",
                   disk |-> ~rebuilt /\ mig_domain[v][old].disk]
  <2>1. /\ m \in MigWorker /\ m.pc = "save_host" /\ m.vm = v /\ m.old = old /\ m.new = new
        /\ m.rebuilt = rebuilt
    BY <1>1, <1>2 DEF MigWorker, MigPcs
  <2>2. mig_worker' = [mig_worker EXCEPT ![w] = m]
    BY <1>1, <1>5 DEF MigFacts
  <2>3. mig_domain' = [mig_domain EXCEPT ![v][new] = d]
    BY <1>1, <1>5 DEF MigFacts
  <2>4. d.is # "none" /\ (~rebuilt /\ mig_domain[v][old].disk => d.disk)
    OBVIOUS
  <2>8. d.is = "off" \/ new \in mig_todo[v]
    BY <1>3 DEF Clear
  <2> HIDE DEF m, d
  <2>5. /\ \A u \in MigVms \ {v} : mig_domain'[u] = mig_domain[u]
        /\ \A g \in MigHosts \ {new} : mig_domain'[v][g] = mig_domain[v][g]
        /\ mig_domain'[v][new] = d
    BY <1>1, <2>3, DomainPut DEF MigFacts
  <2>6. ASSUME Mig(w)' = m
        PROVE  MoveSound(w)'
    BY <1>1, <1>3, <2>1, <2>4, <2>5, <2>6, <2>8 DEF WholeAt, ClearBut, Clear, Made, MoveSound
  <2>7. QED
    BY <1>1, <1>2, <2>1, <2>2, <2>5, <2>6, MoveOfWorker
<1>6. QED
  BY <1>1, <1>2, <1>4, <1>5 DEF migrate_create_vm

\* The row names the new host only of a domain that is there.
LEMMA MoveSaves ==
    ASSUME MoveInv, MigTypeOK', NEW w \in MigWorkers, SaveHost(w)
    PROVE  MoveInv'
<1>1. /\ MigTypeOK /\ MigFacts(w) /\ MoveSound(w) /\ Mig(w) \in MigWorker /\ Mig(w) = mig_worker[w]
      /\ Mig(w).pc = "save_host" /\ UNCHANGED <<mig_host, mig_todo>>
  BY MigPlaces DEF MoveInv, SaveHost, MigAt, Mig, MigFacts
<1>2. PICK v \in MigVms, old \in MigHosts, new \in MigHosts :
         v = Mig(w).vm /\ old = Mig(w).old /\ new = Mig(w).new
  BY <1>1 DEF MigFacts
<1>3. /\ new # old /\ mig_vm[v].host = old
      /\ mig_domain[v][old].is # "none" /\ (mig_vm[v].vdisk => mig_domain[v][old].disk)
      /\ \A h \in MigHosts \ {old, new} : Clear(v, h)
      /\ mig_domain[v][new].is # "none"
      /\ mig_vm[v].vdisk /\ ~Mig(w).rebuilt => mig_domain[v][new].disk
      /\ mig_domain[v][new].is = "off" \/ new \in mig_todo[v]
  BY <1>1, <1>2 DEF MoveSound, WholeAt, ClearBut, Clear, Made
<1>4. CASE mig_vm' = [mig_vm EXCEPT ![v].host = new] /\ MigGoto(w, "created") /\ UNCHANGED mig_domain
  <2> DEFINE m == [Mig(w) EXCEPT !.pc = "created"]
  <2>1. /\ m \in MigWorker /\ m.pc = "created" /\ m.vm = v /\ m.old = old /\ m.new = new
        /\ m.rebuilt = Mig(w).rebuilt
    BY <1>1, <1>2 DEF MigWorker, MigPcs
  <2>2. mig_worker' = [mig_worker EXCEPT ![w] = m]
    BY <1>1, <1>4 DEF MigGoto, MigFacts
  <2>3. /\ \A u \in MigVms \ {v} : mig_vm'[u] = mig_vm[u]
        /\ mig_vm'[v].host = new /\ mig_vm'[v].vdisk = mig_vm[v].vdisk
    BY <1>1, <1>4 DEF MigFacts
  <2> HIDE DEF m
  <2>4. Mig(w)' = m => MoveSound(w)'
    BY <1>1, <1>3, <1>4, <2>1, <2>3 DEF MoveSound, Made, WholeAt, ClearBut, Clear
  <2>5. QED
    BY <1>1, <1>2, <1>4, <2>1, <2>2, <2>3, <2>4, MoveOfWorker
<1>5. ASSUME MigFails("save_host"), MigGoto(w, "undo"), UNCHANGED mig_vm,
             NEW d, d = NoMigDomain \/ (MigFails("undefine") /\ d \in Kept(mig_domain[v][new])),
             mig_domain' = [mig_domain EXCEPT ![v][new] = d]
      PROVE  MoveInv'
  <2> DEFINE m == [Mig(w) EXCEPT !.pc = "undo"]
  <2>1. m \in MigWorker /\ m.pc = "undo" /\ m.vm = v /\ m.old = old /\ m.new = new
    BY <1>1, <1>2 DEF MigWorker, MigPcs
  <2>2. mig_worker' = [mig_worker EXCEPT ![w] = m]
    BY <1>1, <1>5 DEF MigGoto, MigFacts
  <2>3. /\ \A u \in MigVms \ {v} : mig_domain'[u] = mig_domain[u]
        /\ \A g \in MigHosts \ {new} : mig_domain'[v][g] = mig_domain[v][g]
        /\ mig_domain'[v][new] = d
    BY <1>1, <1>5, DomainPut DEF MigFacts
  <2>4. d.is = "none" \/ (UndoMayFail /\ d.is = "off") \/ new \in mig_todo[v]
    <3>1. CASE d = NoMigDomain
      BY <3>1 DEF NoMigDomain
    <3>2. CASE MigFails("undefine") /\ d \in Kept(mig_domain[v][new])
      <4>1. d.is = mig_domain[v][new].is \/ d.is = "off"
        BY <1>1, <1>3, <3>2, SwitchedTyped DEF Kept, MigFacts
      <4>2. QED
        BY <1>3, <1>5, <3>2, <4>1 DEF UndoMayFail
    <3>3. QED
      BY <1>5, <3>1, <3>2
  <2> HIDE DEF m
  <2>5. mig_vm' = mig_vm /\ mig_todo' = mig_todo
    BY <1>1, <1>5
  <2>6. mig_vm'[v].host = old /\ WholeAt(v, old)' /\ ClearBut(v, {old})'
    BY <1>1, <1>2, <1>3, <2>3, <2>4, <2>5 DEF WholeAt, ClearBut, Clear
  <2>7. Mig(w)' = m => MoveSound(w)'
    BY <1>2, <1>3, <2>1, <2>6 DEF MoveSound
  <2>8. QED
    BY <1>1, <1>2, <1>5, <2>1, <2>2, <2>3, <2>7, MoveOfWorker
<1>6. CASE /\ MigFails("save_host") /\ MigGoto(w, "undo") /\ UNCHANGED mig_vm
           /\ \E d \in {NoMigDomain} \cup
                         IF MigFails("undefine") THEN Kept(mig_domain[v][new]) ELSE {} :
                 mig_domain' = [mig_domain EXCEPT ![v][new] = d]
  <2>1. PICK d \in {NoMigDomain} \cup
                     IF MigFails("undefine") THEN Kept(mig_domain[v][new]) ELSE {} :
                 mig_domain' = [mig_domain EXCEPT ![v][new] = d]
    BY <1>6
  <2>2. d = NoMigDomain \/ (MigFails("undefine") /\ d \in Kept(mig_domain[v][new]))
    BY <2>1
  <2>3. QED
    BY <1>5, <1>6, <2>1, <2>2
<1>7. QED
  BY <1>1, <1>2, <1>4, <1>6 DEF SaveHost

\* The domain gets the vdisk, or the row loses it.
LEMMA MoveAttaches ==
    ASSUME MoveInv, MigTypeOK', NEW w \in MigWorkers, AttachVdisks(w)
    PROVE  MoveInv'
<1>1. /\ MigTypeOK /\ MigFacts(w) /\ MoveSound(w) /\ Mig(w) \in MigWorker /\ Mig(w) = mig_worker[w]
      /\ Mig(w).pc = "attach" /\ UNCHANGED <<mig_host, mig_todo>>
  BY MigPlaces DEF MoveInv, AttachVdisks, MigAt, Mig, MigFacts
<1>2. PICK v \in MigVms, old \in MigHosts, new \in MigHosts :
         v = Mig(w).vm /\ old = Mig(w).old /\ new = Mig(w).new
  BY <1>1 DEF MigFacts
<1>3. /\ new # old /\ mig_vm[v].host = new
      /\ \A h \in MigHosts \ {old, new} : Clear(v, h)
      /\ mig_domain[v][new].is # "none"
      /\ mig_vm[v].vdisk /\ ~Mig(w).rebuilt => mig_domain[v][new].disk
  BY <1>1, <1>2 DEF MoveSound, WholeAt, ClearBut, Clear, Made
<1> DEFINE wanted == Mig(w).rebuilt /\ mig_vm[v].vdisk
<1>4. CASE /\ mig_domain' = [mig_domain EXCEPT ![v][new].disk = @ \/ wanted]
           /\ mig_worker' = [mig_worker EXCEPT ![w].pc = "undefine", ![w].rebuilt = FALSE]
           /\ UNCHANGED mig_vm
  <2> DEFINE m == [Mig(w) EXCEPT !.pc = "undefine", !.rebuilt = FALSE]
             b == mig_domain[v][new].disk \/ wanted
             d == [mig_domain[v][new] EXCEPT !.disk = b]
  <2>1. m \in MigWorker /\ m.pc = "undefine" /\ m.vm = v /\ m.old = old /\ m.new = new
    BY <1>1, <1>2 DEF MigWorker, MigPcs
  <2>2. mig_worker' = [mig_worker EXCEPT ![w] = m]
    BY <1>1, <1>4 DEF MigFacts
  <2>3. mig_domain' = [mig_domain EXCEPT ![v][new] = d]
    <3> HIDE DEF wanted
    <3>1. QED
      BY <1>1, <1>4 DEF MigFacts
  <2>4. b <=> mig_domain[v][new].disk \/ wanted
    OBVIOUS
  <2> HIDE DEF b
  <2>5. d.is = mig_domain[v][new].is /\ d.disk = b
    BY <1>1 DEF MigFacts, MigDomain
  <2> HIDE DEF m, d
  <2>6. /\ \A u \in MigVms \ {v} : mig_domain'[u] = mig_domain[u]
        /\ \A g \in MigHosts \ {new} : mig_domain'[v][g] = mig_domain[v][g]
        /\ mig_domain'[v][new] = d
    BY <1>1, <2>3, DomainPut DEF MigFacts
  <2>7. d.is # "none"
    BY <1>3, <2>5
  <2>8. mig_vm[v].vdisk => d.disk
    BY <1>1, <1>3, <2>4, <2>5 DEF MigFacts, MigWorker
  <2>9. UNCHANGED <<mig_vm, mig_todo>>
    BY <1>1, <1>4
  <2>10. Mig(w)' = m => MoveSound(w)'
    BY <1>3, <2>1, <2>6, <2>7, <2>8, <2>9 DEF MoveSound, WholeAt, ClearBut, Clear
  <2>11. QED
    BY <1>1, <1>2, <2>1, <2>2, <2>6, <2>9, <2>10, MoveOfWorker
<1>5. CASE /\ mig_vm' = [mig_vm EXCEPT ![v].vdisk = FALSE]
           /\ mig_worker' = [mig_worker EXCEPT ![w].pc = "undefine", ![w].rebuilt = FALSE, ![w].todo = TRUE]
           /\ UNCHANGED mig_domain
  <2> DEFINE m == [Mig(w) EXCEPT !.pc = "undefine", !.rebuilt = FALSE, !.todo = TRUE]
  <2>1. m \in MigWorker /\ m.pc = "undefine" /\ m.vm = v /\ m.old = old /\ m.new = new
    BY <1>1, <1>2 DEF MigWorker, MigPcs
  <2>2. mig_worker' = [mig_worker EXCEPT ![w] = m]
    BY <1>1, <1>5 DEF MigFacts
  <2>3. /\ \A u \in MigVms \ {v} : mig_vm'[u] = mig_vm[u]
        /\ mig_vm'[v].host = new /\ ~mig_vm'[v].vdisk
    BY <1>1, <1>3, <1>5 DEF MigFacts
  <2> HIDE DEF m
  <2>4. UNCHANGED <<mig_domain, mig_todo>>
    BY <1>1, <1>5
  <2>5. Mig(w)' = m => MoveSound(w)'
    BY <1>3, <2>1, <2>3, <2>4 DEF MoveSound, WholeAt, ClearBut, Clear
  <2>6. QED
    BY <1>1, <1>2, <2>1, <2>2, <2>3, <2>4, <2>5, MoveOfWorker
<1>6. QED
  BY <1>1, <1>2, <1>4, <1>5 DEF AttachVdisks

\* The old domain goes, or the task has what to say.
LEMMA MoveLeaves ==
    ASSUME MoveInv, MigTypeOK', NEW w \in MigWorkers, UndefineSource(w)
    PROVE  MoveInv'
<1>1. /\ MigTypeOK /\ MigFacts(w) /\ MoveSound(w) /\ Mig(w) \in MigWorker /\ Mig(w) = mig_worker[w]
      /\ Mig(w).pc = "undefine" /\ UNCHANGED <<mig_vm, mig_todo>>
  BY MigPlaces DEF MoveInv, UndefineSource, MigAt, Mig, MigFacts
<1>2. PICK v \in MigVms, old \in MigHosts, new \in MigHosts :
         v = Mig(w).vm /\ old = Mig(w).old /\ new = Mig(w).new
  BY <1>1 DEF MigFacts
<1>3. /\ new # old /\ mig_vm[v].host = new
      /\ \A h \in MigHosts \ {old, new} : Clear(v, h)
      /\ mig_domain[v][new].is # "none"
      /\ mig_vm[v].vdisk => mig_domain[v][new].disk
  BY <1>1, <1>2 DEF MoveSound, WholeAt, ClearBut, Clear
<1>4. CASE mig_domain' = [mig_domain EXCEPT ![v][old] = NoMigDomain] /\ MigGoto(w, "free")
  <2> DEFINE m == [Mig(w) EXCEPT !.pc = "free"]
  <2>1. m \in MigWorker /\ m.pc = "free" /\ m.vm = v /\ m.old = old /\ m.new = new
    BY <1>1, <1>2 DEF MigWorker, MigPcs
  <2>2. mig_worker' = [mig_worker EXCEPT ![w] = m]
    BY <1>1, <1>4 DEF MigGoto, MigFacts
  <2>3. /\ \A u \in MigVms \ {v} : mig_domain'[u] = mig_domain[u]
        /\ \A g \in MigHosts \ {old} : mig_domain'[v][g] = mig_domain[v][g]
        /\ mig_domain'[v][old] = NoMigDomain
    BY <1>1, <1>4, DomainPut DEF MigFacts
  <2>4. mig_domain'[v][old].is = "none"
    BY <2>3 DEF NoMigDomain
  <2> HIDE DEF m
  <2>5. Mig(w)' = m => MoveSound(w)'
    BY <1>1, <1>3, <2>1, <2>3, <2>4 DEF MoveSound, WholeAt, ClearBut, Clear
  <2>6. QED
    BY <1>1, <1>2, <2>1, <2>2, <2>3, <2>5, MoveOfWorker
<1>5. ASSUME mig_worker' = [mig_worker EXCEPT ![w] = LeaveSource(w)],
             NEW d, mig_domain' = [mig_domain EXCEPT ![v][old] = d]
      PROVE  MoveInv'
  <2> DEFINE m == LeaveSource(w)
  <2>1. /\ m \in MigWorker /\ m.pc = "free" /\ m.vm = v /\ m.old = old /\ m.new = new
        /\ m.todo /\ m.left
    BY <1>1, <1>2 DEF LeaveSource, MigWorker, MigPcs
  <2>2. mig_worker' = [mig_worker EXCEPT ![w] = m]
    BY <1>5
  <2>3. /\ \A u \in MigVms \ {v} : mig_domain'[u] = mig_domain[u]
        /\ \A g \in MigHosts \ {old} : mig_domain'[v][g] = mig_domain[v][g]
    BY <1>1, <1>5, DomainPut DEF MigFacts
  <2> HIDE DEF m
  <2>4. Mig(w)' = m => MoveSound(w)'
    BY <1>1, <1>3, <2>1, <2>3 DEF MoveSound, WholeAt, ClearBut, Clear
  <2>5. QED
    BY <1>1, <1>2, <2>1, <2>2, <2>3, <2>4, MoveOfWorker
<1>6. QED
  BY <1>1, <1>2, <1>4, <1>5 DEF UndefineSource

\* The task names the host that is not cleared.
LEMMA MoveEnds ==
    ASSUME MoveInv, MigTypeOK', NEW w \in MigWorkers, EndMigrate(w)
    PROVE  MoveInv'
<1>1. /\ MigTypeOK /\ MigFacts(w) /\ MoveSound(w) /\ Mig(w) \in MigWorker /\ Mig(w) = mig_worker[w]
      /\ Mig(w).pc = "end" /\ UNCHANGED <<mig_host, mig_vm, mig_domain>>
  BY MigPlaces DEF MoveInv, EndMigrate, MigAt, Mig, MigFacts
<1>2. PICK v \in MigVms, old \in MigHosts, new \in MigHosts :
         v = Mig(w).vm /\ old = Mig(w).old /\ new = Mig(w).new
  BY <1>1 DEF MigFacts
<1>3. /\ mig_vm[v].host = new
      /\ \A h \in MigHosts \ {old, new} : Clear(v, h)
      /\ mig_domain[v][new].is # "none"
      /\ mig_vm[v].vdisk => mig_domain[v][new].disk
      /\ Clear(v, old) \/ (Mig(w).todo /\ Mig(w).left)
  BY <1>1, <1>2 DEF MoveSound, WholeAt, ClearBut, Clear
<1> DEFINE m == [Mig(w) EXCEPT !.pc = "refresh", !.old = new, !.todo = FALSE, !.left = FALSE]
<1>4. m \in MigWorker /\ m.pc = "refresh" /\ m.vm = v
  BY <1>1, <1>2 DEF MigWorker, MigPcs
<1>5. mig_worker' = [mig_worker EXCEPT ![w] = m]
  BY <1>1, <1>2 DEF EndMigrate, MigFacts
<1>6. /\ mig_todo' = IF Mig(w).todo /\ Mig(w).left
                     THEN [mig_todo EXCEPT ![v] = @ \cup {old}] ELSE mig_todo
  BY <1>2 DEF EndMigrate
<1> HIDE DEF m
<1>7. /\ \A u \in MigVms \ {v} : mig_todo'[u] = mig_todo[u]
      /\ mig_todo[v] \subseteq mig_todo'[v]
      /\ Mig(w).todo /\ Mig(w).left => old \in mig_todo'[v]
  BY <1>1, <1>6 DEF MigFacts
<1>8. Resting(v)'
  BY <1>1, <1>3, <1>7 DEF Resting, WholeAt, ClearBut, Clear
<1>9. Mig(w)' = m => MoveSound(w)'
  BY <1>4 DEF MoveSound
<1>10. QED
  BY <1>1, <1>2, <1>4, <1>5, <1>7, <1>8, <1>9, MoveOfWorker

\* A vm is started, or switched off for nothing, where it is.
LEMMA MoveStarts ==
    ASSUME MoveInv, MigTypeOK', NEW v \in MigVms,
           StartMigVm(v) \/ \E w \in MigWorkers : RefuseMigrate(w, v)
    PROVE  MoveInv'
<1>1. MigTypeOK /\ OneMover /\ mig_domain \in [MigVms -> [MigHosts -> MigDomain]]
  BY DEF MoveInv, MigTypeOK
<1>2. PICK h \in MigHosts : h = mig_vm[v].host
  BY <1>1 DEF MigTypeOK
<1>3. /\ \A w \in MigWorkers : Mig(w).pc = "idle" \/ Mig(w).vm # v
      /\ UNCHANGED <<mig_vm, mig_todo, mig_worker>>
  BY <1>2 DEF StartMigVm, RefuseMigrate, NothingMoves, MigAt, Mig
<1>12. mig_domain[v][h] \in MigDomain
  BY <1>1
<1>13. PICK d : /\ mig_domain' = [mig_domain EXCEPT ![v][h] = d]
                /\ d.is = "none" <=> mig_domain[v][h].is = "none"
                /\ d.disk = mig_domain[v][h].disk
  <2>1. CASE StartMigVm(v)
    <3> DEFINE d == [mig_domain[v][h] EXCEPT !.is = "on"]
    <3>1. mig_domain' = [mig_domain EXCEPT ![v][h] = d] /\ mig_domain[v][h].is = "off"
      BY <1>1, <1>2, <2>1 DEF StartMigVm
    <3>2. d.is = "on" /\ d.disk = mig_domain[v][h].disk
      BY <1>12 DEF MigDomain
    <3> HIDE DEF d
    <3>3. QED
      BY <3>1, <3>2
  <2>2. CASE \E w \in MigWorkers : RefuseMigrate(w, v)
    <3> DEFINE d == SwitchedOff(mig_domain[v][h])
    <3>1. mig_domain' = [mig_domain EXCEPT ![v][h] = d]
      BY <1>1, <1>2, <2>2 DEF RefuseMigrate
    <3>2. d.disk = mig_domain[v][h].disk /\ (d.is = "none" <=> mig_domain[v][h].is = "none")
      BY <1>12, SwitchedTyped
    <3> HIDE DEF d
    <3>3. QED
      BY <3>1, <3>2
  <2>3. QED
    BY <2>1, <2>2
<1>4. /\ \A u \in MigVms \ {v} : mig_domain'[u] = mig_domain[u]
      /\ \A g \in MigHosts \ {h} : mig_domain'[v][g] = mig_domain[v][g]
      /\ mig_domain'[v][h] = d
  BY <1>1, <1>13, DomainPut
<1>5. Resting(v)
  BY <1>3 DEF MoveInv
<1>6. Resting(v)'
  BY <1>2, <1>3, <1>4, <1>5, <1>13 DEF Resting, WholeAt, ClearBut, Clear
<1>7. \A w \in MigWorkers : Mig(w)' = Mig(w)
  BY <1>3 DEF Mig
<1>8. ASSUME NEW w \in MigWorkers
      PROVE  MoveSound(w)'
  <2>1. CASE Mig(w).pc = "idle"
    BY <1>7, <2>1 DEF MoveSound
  <2>2. CASE Mig(w).pc # "idle"
    <3>1. MigFacts(w) /\ MoveSound(w)
      BY MigPlaces DEF MoveInv
    <3>2. PICK u \in MigVms \ {v} : u = Mig(w).vm
      BY <1>3, <2>2, <3>1 DEF MigFacts
    <3>3. mig_domain'[u] = mig_domain[u]
      BY <1>4
    <3>4. QED
      BY <1>3, <1>7, <3>1, <3>2, <3>3 DEF MoveSound, Made, WholeAt, ClearBut, Clear
  <2>3. QED
    BY <2>1, <2>2
<1>9. ASSUME NEW u \in MigVms,
             \A w \in MigWorkers : Mig(w)'.pc \in {"idle", "refresh", "refresh_save"} \/ Mig(w)'.vm # u
      PROVE  Resting(u)'
  <2>1. CASE u = v
    BY <1>6, <2>1
  <2>2. CASE u # v
    BY <1>3, <1>4, <1>7, <1>9, <2>2 DEF MoveInv, Resting, WholeAt, ClearBut, Clear
  <2>3. QED
    BY <2>1, <2>2
<1>10. OneMover'
  BY <1>1, <1>7 DEF OneMover
<1>11. QED
  BY <1>8, <1>9, <1>10 DEF MoveInv

\* Every step of a migration keeps what the migrations know.
LEMMA MoveKept == MoveInv /\ [MigNext]_migVars => MoveInv'
<1> SUFFICES ASSUME MoveInv, [MigNext]_migVars
             PROVE  MoveInv'
  OBVIOUS
<1>1. MigTypeOK'
  BY MigTypesKept DEF MoveInv
<1>2. CASE UNCHANGED migVars
  <2>1. UNCHANGED <<mig_vm, mig_domain, mig_todo, mig_worker>>
    BY <1>2 DEF migVars
  <2>2. \A w \in MigWorkers : Mig(w)' = Mig(w) /\ MoveSound(w)'
    <3>1. SUFFICES ASSUME NEW w \in MigWorkers
                   PROVE  Mig(w)' = Mig(w) /\ MoveSound(w)'
      OBVIOUS
    <3>2. Mig(w)' = Mig(w)
      BY <2>1 DEF Mig
    <3>3. \A v, S : ClearBut(v, S)' <=> ClearBut(v, S)
      BY <2>1 DEF ClearBut, Clear
    <3>4. Made(w)' <=> Made(w)
      BY <2>1, <3>2 DEF Made
    <3>5. MoveSound(w)' <=> MoveSound(w)
      BY <2>1, <3>2, <3>3, <3>4 DEF MoveSound, WholeAt, Clear
    <3>6. QED
      BY <3>2, <3>5 DEF MoveInv
  <2>3. \A v \in MigVms : Resting(v) => Resting(v)'
    BY <2>1 DEF Resting, WholeAt, ClearBut, Clear
  <2>4. OneMover'
    BY <2>2 DEF OneMover, MoveInv
  <2>5. QED
    BY <1>1, <2>2, <2>3, <2>4 DEF MoveInv
<1>3. CASE \E w \in MigWorkers :
              \/ \E v \in MigVms, new \in MigHosts, force \in BOOLEAN : pre_static_migrate(w, v, new, force)
              \/ ClaimTarget(w) \/ CountTarget(w) \/ FreeSource(w)
              \/ UndoMigrate(w) \/ stats_vcpu_mem_vms_now(w) \/ update_host_quota_save(w)
  BY <1>1, <1>3, MoveBegins
<1>4. CASE \E w \in MigWorkers : migrate_create_vm(w)
  BY <1>1, <1>4, MoveMakes
<1>5. CASE \E w \in MigWorkers : SaveHost(w)
  BY <1>1, <1>5, MoveSaves
<1>6. CASE \E w \in MigWorkers : AttachVdisks(w)
  BY <1>1, <1>6, MoveAttaches
<1>7. CASE \E w \in MigWorkers : UndefineSource(w)
  BY <1>1, <1>7, MoveLeaves
<1>8. CASE \E w \in MigWorkers : EndMigrate(w)
  BY <1>1, <1>8, MoveEnds
<1>9. CASE \E v \in MigVms : StartMigVm(v) \/ \E w \in MigWorkers : RefuseMigrate(w, v)
  BY <1>1, <1>9, MoveStarts
<1>10. QED
  BY <1>2, <1>3, <1>4, <1>5, <1>6, <1>7, <1>8, <1>9 DEF MigNext

\* Where each vm starts nothing is moved, and all are whole.
LEMMA MoveFromStart == MigInit => MoveInv
<1> SUFFICES ASSUME MigInit
             PROVE  MoveInv
  OBVIOUS
<1>1. \A w \in MigWorkers : Mig(w).pc = "idle"
  BY MigRests DEF MigInit, Mig
<1>2. MigTypeOK
  <2>1. mig_worker \in [MigWorkers -> MigWorker] /\ mig_todo \in [MigVms -> SUBSET MigHosts]
    BY MigRests DEF MigInit
  <2>2. mig_vm \in [MigVms -> [host : MigHosts, vdisk : BOOLEAN]]
    BY MigAssumption DEF MigInit
  <2>3. mig_domain \in [MigVms -> [MigHosts -> MigDomain]]
    <3>1. \A b \in BOOLEAN : [is |-> "off", disk |-> b] \in MigDomain
      BY DEF MigDomain
    <3>2. \A v \in MigVms : [is |-> "off", disk |-> v \in MigDisked] \in MigDomain
      <4> SUFFICES ASSUME NEW v \in MigVms
                   PROVE  [is |-> "off", disk |-> v \in MigDisked] \in MigDomain
        OBVIOUS
      <4>1. (v \in MigDisked) \in BOOLEAN
        OBVIOUS
      <4> DEFINE b == v \in MigDisked
      <4>2. b \in BOOLEAN
        BY <4>1
      <4> HIDE DEF b
      <4>3. [is |-> "off", disk |-> b] \in MigDomain
        BY <3>1, <4>2
      <4>4. QED
        BY <4>3 DEF b
    <3>3. QED
      BY <3>2, MigRests DEF MigInit
  <2>4. Ledger!HostTypeOK
    <3>1. ASSUME NEW h \in MigHosts
          PROVE  Cardinality({v \in MigVms : MigHome[v] = h}) \in Int
      BY MigAssumption, FS_Subset, FS_CardinalityType
    <3>2. QED
      BY <3>1 DEF MigInit, Ledger!HostTypeOK, Ledger!HostRow
  <2>5. QED
    BY <2>1, <2>2, <2>3, <2>4 DEF MigTypeOK
<1>3. ASSUME NEW v \in MigVms
      PROVE  Resting(v)
  <2>1. MigHome[v] \in MigHosts /\ mig_vm[v].host = MigHome[v] /\ (mig_vm[v].vdisk <=> v \in MigDisked)
    BY MigAssumption DEF MigInit
  <2>2. \A h \in MigHosts : mig_domain[v][h] = IF h = MigHome[v] THEN [is |-> "off", disk |-> v \in MigDisked]
                                               ELSE NoMigDomain
    BY DEF MigInit
  <2> DEFINE b == v \in MigDisked
  <2>3. b <=> v \in MigDisked
    OBVIOUS
  <2>4. \A h \in MigHosts : mig_domain[v][h] = IF h = MigHome[v] THEN [is |-> "off", disk |-> b]
                                               ELSE NoMigDomain
    BY <2>2
  <2> HIDE DEF b
  <2>5. QED
    BY <2>1, <2>3, <2>4 DEF Resting, WholeAt, ClearBut, Clear, NoMigDomain
<1>4. QED
  BY <1>1, <1>2, <1>3 DEF MoveInv, MoveSound, OneMover

\* A vm that nothing moves is whole on the host of its row, and what is left of it
\* elsewhere is named by a task, or is switched off where the save of the row and
\* what undoes it may both fail, whatever else fails and whoever else migrates.
THEOREM MovedVmIsWhole == MigSpec => []MovedWhole
<1>1. MigSpec => []MoveInv
  BY MoveFromStart, MoveKept, PTL DEF MigSpec
<1>2. MoveInv => MovedWhole
  <2> SUFFICES ASSUME MoveInv, NEW v \in MigVms, AtRest(v), NEW h \in MigHosts
               PROVE  IF h = mig_vm[v].host THEN WholeAt(v, h) ELSE Clear(v, h)
    BY DEF MovedWhole, WholeAt, Clear, UndoMayFail
  <2>1. Resting(v)
    BY DEF MoveInv, AtRest
  <2>2. QED
    BY <2>1 DEF Resting, ClearBut
<1>3. QED
  BY <1>1, <1>2, PTL

\* The rows, the domains and the requests of migrations keep their types.
THEOREM MigTypeCorrect == MigSpec => []MigTypeOK
<1>1. MoveInv => MigTypeOK
  BY DEF MoveInv
<1>2. QED
  BY MoveFromStart, MoveKept, <1>1, PTL DEF MigSpec

-----------------------------------------------------------------------------
(* The ledger of the hosts between which switched-off vms move.            *)

\* The sets that the ledger is held against, at a host: requests that have
\* claimed for a vm that is not there yet, that have not given back what a vm
\* that went has left, whose vm is not counted yet, or is counted yet.
Claimed(h) == {w \in MigWorkers : Mig(w).new = h /\ Mig(w).pc \in {"define", "save_host", "undo"}}

Unfreed(h) == {w \in MigWorkers : /\ Mig(w).old = h
                                  /\ Mig(w).pc \in {"created", "attach", "undefine", "free"}}

Uncounted(h) == {w \in MigWorkers : Mig(w).new = h /\ MigAt(w, "created")}

Leaving(h) == {w \in MigWorkers : Mig(w).old = h /\ Mig(w).pc \in {"created", "attach", "undefine"}}

LedgerAt(h) ==
    LET row == mig_host[h] IN
    /\ row.vcpu_allocated = Cardinality(VmsOn(h)) + Cardinality(Claimed(h)) + Cardinality(Unfreed(h))
    /\ row.mem_allocated = row.vcpu_allocated
    /\ row.vcpu_allocated <= MigTotal[h]
    /\ row.vm_created + Cardinality(Uncounted(h)) >= Cardinality(VmsOn(h)) + Cardinality(Leaving(h))

\* What a refresh has counted is so until it saves it.
RefreshKnows(w) ==
    Mig(w).pc = "refresh_save"
    => /\ Mig(w).seen = Cardinality(VmsOn(Mig(w).new))
       /\ \A x \in MigWorkers \ {w} : ~Moving(x, Mig(w).new)

LedgerInv ==
    /\ MoveInv
    /\ \A h \in MigHosts : LedgerAt(h)
    /\ \A w \in MigWorkers : RefreshKnows(w)

\* The size of a set of which one member comes or goes.
LEMMA OneMember ==
    ASSUME NEW S, NEW T, NEW x, IsFiniteSet(S), S \ {x} = T \ {x}
    PROVE  /\ Cardinality(S) \in Nat /\ Cardinality(T) \in Nat
           /\ Cardinality(T) = Cardinality(S) + (IF x \in T THEN 1 ELSE 0) - (IF x \in S THEN 1 ELSE 0)
<1>1. PICK A : A = S \ {x} /\ A = T \ {x}
  OBVIOUS
<1>2. IsFiniteSet(A) /\ Cardinality(A) = IF x \in S THEN Cardinality(S) - 1 ELSE Cardinality(S)
  BY <1>1, FS_RemoveElement
<1>3. IsFiniteSet(A \cup {x}) /\ Cardinality(A \cup {x}) = Cardinality(A) + 1
  BY <1>1, <1>2, FS_AddElement
<1>4. Cardinality(S) \in Nat /\ Cardinality(A) \in Nat
  BY <1>2, FS_CardinalityType
<1>5. CASE x \in T
  <2>1. T = A \cup {x}
    BY <1>1, <1>5
  <2>2. Cardinality(T) = Cardinality(A) + 1
    BY <1>3, <2>1
  <2>3. QED
    BY <1>2, <1>4, <1>5, <2>2
<1>6. CASE x \notin T
  BY <1>1, <1>2, <1>4, <1>6
<1>7. QED
  BY <1>5, <1>6

\* The sets of requests are finite, and so are their sizes numbers.
LEMMA CountsAreNumbers ==
    ASSUME NEW h
    PROVE  /\ IsFiniteSet(Claimed(h)) /\ IsFiniteSet(Unfreed(h))
           /\ IsFiniteSet(Uncounted(h)) /\ IsFiniteSet(Leaving(h))
           /\ Cardinality(Claimed(h)) \in Nat /\ Cardinality(Unfreed(h)) \in Nat
           /\ Cardinality(Uncounted(h)) \in Nat /\ Cardinality(Leaving(h)) \in Nat
<1>1. /\ Claimed(h) \subseteq MigWorkers /\ Unfreed(h) \subseteq MigWorkers
      /\ Uncounted(h) \subseteq MigWorkers /\ Leaving(h) \subseteq MigWorkers
  BY DEF Claimed, Unfreed, Uncounted, Leaving
<1>2. \A S \in SUBSET MigWorkers : IsFiniteSet(S) /\ Cardinality(S) \in Nat
  BY MigAssumption, FS_Subset, FS_CardinalityType
<1>3. QED
  BY <1>1, <1>2

\* What the step of one request changes of the sizes.
LEMMA StepCounts ==
    ASSUME NEW w \in MigWorkers, NEW h,
           \A x \in MigWorkers \ {w} : mig_worker'[x] = mig_worker[x]
    PROVE  /\ Cardinality(Claimed(h)') = Cardinality(Claimed(h))
              + (IF w \in Claimed(h)' THEN 1 ELSE 0) - (IF w \in Claimed(h) THEN 1 ELSE 0)
           /\ Cardinality(Unfreed(h)') = Cardinality(Unfreed(h))
              + (IF w \in Unfreed(h)' THEN 1 ELSE 0) - (IF w \in Unfreed(h) THEN 1 ELSE 0)
           /\ Cardinality(Uncounted(h)') = Cardinality(Uncounted(h))
              + (IF w \in Uncounted(h)' THEN 1 ELSE 0) - (IF w \in Uncounted(h) THEN 1 ELSE 0)
           /\ Cardinality(Leaving(h)') = Cardinality(Leaving(h))
              + (IF w \in Leaving(h)' THEN 1 ELSE 0) - (IF w \in Leaving(h) THEN 1 ELSE 0)
<1>1. \A x \in MigWorkers \ {w} : Mig(x)' = Mig(x) /\ \A pc : MigAt(x, pc)' <=> MigAt(x, pc)
  BY DEF Mig, MigAt
<1>2. Claimed(h) \ {w} = Claimed(h)' \ {w}
  BY <1>1 DEF Claimed
<1>3. Unfreed(h) \ {w} = Unfreed(h)' \ {w}
  BY <1>1 DEF Unfreed
<1>4. Uncounted(h) \ {w} = Uncounted(h)' \ {w}
  BY <1>1 DEF Uncounted
<1>5. Leaving(h) \ {w} = Leaving(h)' \ {w}
  BY <1>1 DEF Leaving
<1>6. QED
  BY <1>2, <1>3, <1>4, <1>5, CountsAreNumbers, OneMember

\* The same, by where the request was and where it is.
LEMMA StepSizes ==
    ASSUME NEW w \in MigWorkers, NEW h,
           \A x \in MigWorkers \ {w} : mig_worker'[x] = mig_worker[x]
    PROVE  /\ Cardinality(Claimed(h)') = Cardinality(Claimed(h))
              + (IF Mig(w)'.new = h /\ Mig(w)'.pc \in {"define", "save_host", "undo"} THEN 1 ELSE 0)
              - (IF Mig(w).new = h /\ Mig(w).pc \in {"define", "save_host", "undo"} THEN 1 ELSE 0)
           /\ Cardinality(Unfreed(h)') = Cardinality(Unfreed(h))
              + (IF Mig(w)'.old = h /\ Mig(w)'.pc \in {"created", "attach", "undefine", "free"} THEN 1 ELSE 0)
              - (IF Mig(w).old = h /\ Mig(w).pc \in {"created", "attach", "undefine", "free"} THEN 1 ELSE 0)
           /\ Cardinality(Uncounted(h)') = Cardinality(Uncounted(h))
              + (IF Mig(w)'.new = h /\ Mig(w)'.pc = "created" THEN 1 ELSE 0)
              - (IF Mig(w).new = h /\ Mig(w).pc = "created" THEN 1 ELSE 0)
           /\ Cardinality(Leaving(h)') = Cardinality(Leaving(h))
              + (IF Mig(w)'.old = h /\ Mig(w)'.pc \in {"created", "attach", "undefine"} THEN 1 ELSE 0)
              - (IF Mig(w).old = h /\ Mig(w).pc \in {"created", "attach", "undefine"} THEN 1 ELSE 0)
<1>1. /\ w \in Claimed(h) <=> Mig(w).new = h /\ Mig(w).pc \in {"define", "save_host", "undo"}
      /\ w \in Claimed(h)' <=> Mig(w)'.new = h /\ Mig(w)'.pc \in {"define", "save_host", "undo"}
  BY DEF Claimed
<1>2. /\ w \in Unfreed(h) <=> Mig(w).old = h /\ Mig(w).pc \in {"created", "attach", "undefine", "free"}
      /\ w \in Unfreed(h)' <=> Mig(w)'.old = h /\ Mig(w)'.pc \in {"created", "attach", "undefine", "free"}
  BY DEF Unfreed
<1>3. /\ w \in Uncounted(h) <=> Mig(w).new = h /\ Mig(w).pc = "created"
      /\ w \in Uncounted(h)' <=> Mig(w)'.new = h /\ Mig(w)'.pc = "created"
  BY DEF Uncounted, MigAt, Mig
<1>4. /\ w \in Leaving(h) <=> Mig(w).old = h /\ Mig(w).pc \in {"created", "attach", "undefine"}
      /\ w \in Leaving(h)' <=> Mig(w)'.old = h /\ Mig(w)'.pc \in {"created", "attach", "undefine"}
  BY DEF Leaving
<1>5. /\ Cardinality(Claimed(h)') = Cardinality(Claimed(h))
         + (IF w \in Claimed(h)' THEN 1 ELSE 0) - (IF w \in Claimed(h) THEN 1 ELSE 0)
      /\ Cardinality(Unfreed(h)') = Cardinality(Unfreed(h))
         + (IF w \in Unfreed(h)' THEN 1 ELSE 0) - (IF w \in Unfreed(h) THEN 1 ELSE 0)
      /\ Cardinality(Uncounted(h)') = Cardinality(Uncounted(h))
         + (IF w \in Uncounted(h)' THEN 1 ELSE 0) - (IF w \in Uncounted(h) THEN 1 ELSE 0)
      /\ Cardinality(Leaving(h)') = Cardinality(Leaving(h))
         + (IF w \in Leaving(h)' THEN 1 ELSE 0) - (IF w \in Leaving(h) THEN 1 ELSE 0)
  BY StepCounts
<1>6. QED
  BY <1>1, <1>2, <1>3, <1>4, <1>5

\* Rows that keep their hosts leave the counts of the hosts.
LEMMA VmsStay ==
    ASSUME \A v \in MigVms : mig_vm'[v].host = mig_vm[v].host
    PROVE  \A h : VmsOn(h)' = VmsOn(h)
BY DEF VmsOn

\* A row that changes its host changes the count of the two.
LEMMA VmGoes ==
    ASSUME NEW v \in MigVms, NEW new, NEW h,
           \A u \in MigVms \ {v} : mig_vm'[u].host = mig_vm[u].host,
           mig_vm'[v].host = new
    PROVE  Cardinality(VmsOn(h)') = Cardinality(VmsOn(h))
              + (IF new = h THEN 1 ELSE 0) - (IF mig_vm[v].host = h THEN 1 ELSE 0)
<1>1. VmsOn(h) \ {v} = VmsOn(h)' \ {v}
  BY DEF VmsOn
<1>2. /\ v \in VmsOn(h) <=> mig_vm[v].host = h
      /\ v \in VmsOn(h)' <=> new = h
  BY DEF VmsOn
<1>3. Cardinality(VmsOn(h)') = Cardinality(VmsOn(h))
         + (IF v \in VmsOn(h)' THEN 1 ELSE 0) - (IF v \in VmsOn(h) THEN 1 ELSE 0)
  BY <1>1, VmsOnCount, OneMember
<1>4. QED
  BY <1>2, <1>3

\* A refresh counts on no other request's beginning or moving anything at its
\* host before it has saved.
LEMMA RefreshHolds ==
    ASSUME MigTypeOK, \A x \in MigWorkers : RefreshKnows(x), NEW w \in MigWorkers,
           \A x \in MigWorkers \ {w} : mig_worker'[x] = mig_worker[x],
           Mig(w)'.pc # "refresh_save",
           \A h \in MigHosts : \/ VmsOn(h)' = VmsOn(h)
                               \/ Moving(w, h),
           \A h \in MigHosts : Moving(w, h)' => \/ Moving(w, h)
                                                \/ \A x \in MigWorkers : ~Refreshing(x, h)
    PROVE  \A x \in MigWorkers : RefreshKnows(x)'
<1> SUFFICES ASSUME NEW x \in MigWorkers, Mig(x)'.pc = "refresh_save"
             PROVE  /\ Mig(x)'.seen = Cardinality(VmsOn(Mig(x).new)')
                    /\ \A y \in MigWorkers \ {x} : ~Moving(y, Mig(x).new)'
  <2>1. \A x \in MigWorkers : Mig(x)'.pc = "refresh_save" => Mig(x)' = Mig(x)
    BY DEF Mig
  <2>2. ASSUME NEW x \in MigWorkers, Mig(x)'.pc = "refresh_save" =>
                 /\ Mig(x)'.seen = Cardinality(VmsOn(Mig(x).new)')
                 /\ \A y \in MigWorkers \ {x} : ~Moving(y, Mig(x).new)'
        PROVE  RefreshKnows(x)'
    BY <2>1, <2>2 DEF RefreshKnows, VmsOn, Moving
  <2>3. QED
    BY <2>2
<1>1. x # w /\ Mig(x)' = Mig(x)
  BY DEF Mig
<1>2. PICK h \in MigHosts : h = Mig(x).new
  BY MigPlaces DEF MigFacts
<1>3. Mig(x).seen = Cardinality(VmsOn(h)) /\ \A y \in MigWorkers \ {x} : ~Moving(y, h)
  BY <1>1, <1>2 DEF RefreshKnows
<1>4. Refreshing(x, h)
  BY <1>1, <1>2 DEF Refreshing
<1>5. VmsOn(h)' = VmsOn(h) /\ ~Moving(w, h)'
  BY <1>1, <1>3, <1>4
<1>6. \A y \in MigWorkers \ {w} : Moving(y, h)' <=> Moving(y, h)
  BY DEF Moving, Mig
<1>7. QED
  BY <1>1, <1>2, <1>3, <1>5, <1>6

\* A worker that is set alone is what it is set to.
LEMMA WorkerSet ==
    ASSUME MigTypeOK, NEW w \in MigWorkers, NEW m, mig_worker' = [mig_worker EXCEPT ![w] = m]
    PROVE  Mig(w)' = m /\ \A x \in MigWorkers \ {w} : mig_worker'[x] = mig_worker[x]
BY DEF MigTypeOK, Mig

\* The rows of the ledger are of numbers.
LEMMA LedgerNumbers ==
    ASSUME Ledger!HostTypeOK, NEW h \in MigHosts
    PROVE  /\ mig_host \in [MigHosts -> [vcpu_allocated : Int, mem_allocated : Int, vm_created : Int]]
           /\ mig_host[h].vcpu_allocated \in Int /\ mig_host[h].mem_allocated \in Int
           /\ mig_host[h].vm_created \in Int /\ MigTotal[h] \in Nat
BY MigAssumption DEF Ledger!HostTypeOK, Ledger!HostRow

\* What a claim that is made changes: one vcpu at the host it is of.
LEMMA LedgerClaims ==
    ASSUME Ledger!HostTypeOK, NEW n \in MigHosts, Ledger!claim_from_host(n, 1, 1)
    PROVE  /\ mig_host[n].vcpu_allocated + 1 <= MigTotal[n]
           /\ \A h \in MigHosts :
                /\ mig_host'[h].vcpu_allocated = mig_host[h].vcpu_allocated + (IF h = n THEN 1 ELSE 0)
                /\ mig_host'[h].mem_allocated = mig_host[h].mem_allocated + (IF h = n THEN 1 ELSE 0)
                /\ mig_host'[h].vm_created = mig_host[h].vm_created
BY LedgerNumbers DEF Ledger!claim_from_host, Ledger!can_claim, Ledger!deduct_matches, Ledger!deduct_delta

\* What is given back is, of a host that is within its total.
LEMMA LedgerFrees ==
    ASSUME Ledger!HostTypeOK, NEW n \in MigHosts, Ledger!free(n, 1, 1),
           mig_host[n].vcpu_allocated <= MigTotal[n], mig_host[n].mem_allocated <= MigTotal[n]
    PROVE  \A h \in MigHosts :
             /\ mig_host'[h].vcpu_allocated = mig_host[h].vcpu_allocated - (IF h = n THEN 1 ELSE 0)
             /\ mig_host'[h].mem_allocated = mig_host[h].mem_allocated - (IF h = n THEN 1 ELSE 0)
             /\ mig_host'[h].vm_created = mig_host[h].vm_created
<1>1. Ledger!deduct_matches(n, -1, -1)
  BY LedgerNumbers DEF Ledger!deduct_matches
<1>2. Ledger!deduct_delta(n, -1, -1)
  BY <1>1 DEF Ledger!free
<1>3. QED
  BY <1>2, LedgerNumbers DEF Ledger!deduct_delta

\* The count of the vms goes up, or down, at one host.
LEMMA LedgerCountsOne ==
    ASSUME Ledger!HostTypeOK, NEW n \in MigHosts, NEW d \in {1, -1},
           mig_host' = [mig_host EXCEPT ![n].vm_created = @ + d]
    PROVE  \A h \in MigHosts :
             /\ mig_host'[h].vcpu_allocated = mig_host[h].vcpu_allocated
             /\ mig_host'[h].mem_allocated = mig_host[h].mem_allocated
             /\ mig_host'[h].vm_created = mig_host[h].vm_created + (IF h = n THEN d ELSE 0)
BY LedgerNumbers

\* A step that goes between places the ledger does not tell apart.
LEMMA LedgerQuiet ==
    ASSUME LedgerInv, NEW w \in MigWorkers, NEW h \in MigHosts,
           \A x \in MigWorkers \ {w} : mig_worker'[x] = mig_worker[x],
           UNCHANGED mig_host, VmsOn(h)' = VmsOn(h),
           \/ /\ Mig(w)'.old = Mig(w).old /\ Mig(w)'.new = Mig(w).new
              /\ \/ {Mig(w).pc, Mig(w)'.pc} \subseteq {"define", "save_host", "undo"}
                 \/ {Mig(w).pc, Mig(w)'.pc} \subseteq {"attach", "undefine"}
           \/ /\ Mig(w).pc \in {"idle", "claim", "end", "refresh", "refresh_save"}
              /\ Mig(w)'.pc \in {"idle", "claim", "end", "refresh", "refresh_save"}
    PROVE  LedgerAt(h)'
<1>1. /\ Cardinality(Claimed(h)) \in Nat /\ Cardinality(Unfreed(h)) \in Nat
      /\ Cardinality(Uncounted(h)) \in Nat /\ Cardinality(Leaving(h)) \in Nat
  BY CountsAreNumbers
<1>2. /\ Cardinality(Claimed(h)') = Cardinality(Claimed(h))
      /\ Cardinality(Unfreed(h)') = Cardinality(Unfreed(h))
      /\ Cardinality(Uncounted(h)') = Cardinality(Uncounted(h))
      /\ Cardinality(Leaving(h)') = Cardinality(Leaving(h))
  BY <1>1, StepSizes
<1>3. Cardinality(VmsOn(h)') = Cardinality(VmsOn(h))
  OBVIOUS
<1>4. LedgerAt(h)
  BY DEF LedgerInv
<1>5. QED
  BY <1>2, <1>3, <1>4 DEF LedgerAt

\* Such a step of a request that is no refresh, and begins nothing at a host that
\* is refreshed.
LEMMA LedgerQuietly ==
    ASSUME LedgerInv, MoveInv', NEW w \in MigWorkers, NEW m,
           mig_worker' = [mig_worker EXCEPT ![w] = m], UNCHANGED mig_host,
           \A v \in MigVms : mig_vm'[v].host = mig_vm[v].host,
           \/ /\ m.old = Mig(w).old /\ m.new = Mig(w).new
              /\ \/ {Mig(w).pc, m.pc} \subseteq {"define", "save_host", "undo"}
                 \/ {Mig(w).pc, m.pc} \subseteq {"attach", "undefine"}
           \/ /\ Mig(w).pc \in {"idle", "claim", "end", "refresh", "refresh_save"}
              /\ m.pc \in {"idle", "end", "refresh"}
           \/ /\ m.pc = "claim" /\ Mig(w).pc \in {"idle", "claim", "end", "refresh", "refresh_save"}
              /\ \A x \in MigWorkers : ~Refreshing(x, m.old) /\ ~Refreshing(x, m.new)
    PROVE  LedgerInv'
<1>1. MigTypeOK /\ \A x \in MigWorkers : RefreshKnows(x)
  BY DEF LedgerInv, MoveInv
<1>2. Mig(w)' = m /\ \A x \in MigWorkers \ {w} : mig_worker'[x] = mig_worker[x]
  BY <1>1, WorkerSet
<1>3. \A h : VmsOn(h)' = VmsOn(h)
  BY VmsStay
<1>4. \A h \in MigHosts : LedgerAt(h)'
  BY <1>2, <1>3, LedgerQuiet
<1>5. \A h \in MigHosts : Moving(w, h)' => Moving(w, h) \/ \A x \in MigWorkers : ~Refreshing(x, h)
  BY <1>2 DEF Moving
<1>6. Mig(w)'.pc # "refresh_save"
  BY <1>2
<1>7. \A x \in MigWorkers : RefreshKnows(x)'
  BY <1>1, <1>2, <1>3, <1>5, <1>6, RefreshHolds
<1>8. QED
  BY <1>4, <1>7 DEF LedgerInv

\* A step of a request that moves its vm, at the hosts between which it does.
LEMMA LedgerAloud ==
    ASSUME LedgerInv, MoveInv', NEW w \in MigWorkers, NEW m,
           mig_worker' = [mig_worker EXCEPT ![w] = m],
           Mig(w).pc \in {"claim", "define", "save_host", "undo", "created", "attach", "undefine", "free"},
           m.pc # "refresh_save",
           m.pc = "idle" \/ (m.old = Mig(w).old /\ m.new = Mig(w).new),
           \A h \in MigHosts : VmsOn(h)' = VmsOn(h) \/ Moving(w, h),
           \A h \in MigHosts : LedgerAt(h)'
    PROVE  LedgerInv'
<1>1. MigTypeOK /\ \A x \in MigWorkers : RefreshKnows(x)
  BY DEF LedgerInv, MoveInv
<1>2. Mig(w)' = m /\ \A x \in MigWorkers \ {w} : mig_worker'[x] = mig_worker[x]
  BY <1>1, WorkerSet
<1>3. \A h \in MigHosts : Moving(w, h)' => Moving(w, h)
  BY <1>2 DEF Moving
<1>4. Mig(w)'.pc # "refresh_save"
  BY <1>2
<1>5. \A x \in MigWorkers : RefreshKnows(x)'
  BY <1>1, <1>2, <1>3, <1>4, RefreshHolds
<1>6. QED
  BY <1>5 DEF LedgerInv

\* What every step of a request may use of the ledger.
LedgerFacts(w) ==
    /\ MigTypeOK /\ MigFacts(w) /\ Mig(w) \in MigWorker /\ Mig(w) = mig_worker[w]
    /\ Ledger!HostTypeOK /\ MoveSound(w)
    /\ \A h \in MigHosts :
         /\ LedgerAt(h)
         /\ mig_host[h].vcpu_allocated \in Int /\ mig_host[h].mem_allocated \in Int
         /\ mig_host[h].vm_created \in Int /\ MigTotal[h] \in Nat
         /\ Cardinality(VmsOn(h)) \in Nat
         /\ Cardinality(Claimed(h)) \in Nat /\ Cardinality(Unfreed(h)) \in Nat
         /\ Cardinality(Uncounted(h)) \in Nat /\ Cardinality(Leaving(h)) \in Nat

\* Which the invariant gives.
LEMMA LedgerPlaces ==
    ASSUME LedgerInv, NEW w \in MigWorkers
    PROVE  LedgerFacts(w)
<1>1. MigTypeOK /\ MoveSound(w) /\ Ledger!HostTypeOK
  BY DEF LedgerInv, MoveInv, MigTypeOK
<1>2. MigFacts(w) /\ Mig(w) \in MigWorker /\ Mig(w) = mig_worker[w]
  BY <1>1, MigPlaces DEF MigFacts, Mig
<1>3. QED
  BY <1>1, <1>2, LedgerNumbers, CountsAreNumbers, VmsOnCount DEF LedgerInv, LedgerFacts

\* A worker that goes on is set to what it was but for its place.
LEMMA WorkerGoesTo ==
    ASSUME MigTypeOK, NEW w \in MigWorkers, NEW pc \in MigPcs, MigGoto(w, pc)
    PROVE  \E m \in MigWorker :
              /\ mig_worker' = [mig_worker EXCEPT ![w] = m]
              /\ m = [Mig(w) EXCEPT !.pc = pc]
              /\ m.pc = pc /\ m.vm = Mig(w).vm /\ m.old = Mig(w).old /\ m.new = Mig(w).new
<1>1. MigFacts(w) /\ mig_worker[w] = Mig(w)
  BY MigPlaces DEF Mig
<1> DEFINE m == [Mig(w) EXCEPT !.pc = pc]
<1>2. m \in MigWorker /\ m.pc = pc /\ m.vm = Mig(w).vm /\ m.old = Mig(w).old /\ m.new = Mig(w).new
  BY <1>1 DEF MigFacts, MigWorker
<1>3. mig_worker' = [mig_worker EXCEPT ![w] = m]
  BY <1>1 DEF MigGoto, MigFacts
<1> HIDE DEF m
<1>4. QED
  BY <1>2, <1>3 DEF m

\* The claim of the target is what the ledger is then held against.
LEMMA LedgerOfClaim ==
    ASSUME LedgerInv, MoveInv', NEW w \in MigWorkers, ClaimTarget(w)
    PROVE  LedgerInv'
<1>1. LedgerFacts(w) /\ Mig(w).pc = "claim" /\ UNCHANGED mig_vm
  BY LedgerPlaces DEF ClaimTarget, MigAt, Mig
<1>2. \A h : VmsOn(h)' = VmsOn(h)
  BY <1>1, VmsStay
<1>3. CASE mig_worker' = [mig_worker EXCEPT ![w] = NoMigWorker] /\ UNCHANGED mig_host
  BY <1>1, <1>3, MigRests, LedgerQuietly
<1>4. CASE Ledger!claim_from_host(Mig(w).new, 1, 1) /\ MigGoto(w, "define")
  <2>1. PICK m \in MigWorker : /\ mig_worker' = [mig_worker EXCEPT ![w] = m] /\ m.pc = "define"
                               /\ m.old = Mig(w).old /\ m.new = Mig(w).new
    BY <1>1, <1>4, WorkerGoesTo DEF LedgerFacts, MigPcs
  <2>2. Mig(w)' = m /\ \A x \in MigWorkers \ {w} : mig_worker'[x] = mig_worker[x]
    BY <1>1, <2>1, WorkerSet DEF LedgerFacts
  <2>3. PICK n \in MigHosts : n = Mig(w).new
    BY <1>1 DEF LedgerFacts, MigFacts
  <2>4. Ledger!claim_from_host(n, 1, 1) /\ Ledger!HostTypeOK
    BY <1>1, <1>4, <2>3 DEF LedgerFacts
  <2>5. /\ mig_host[n].vcpu_allocated + 1 <= MigTotal[n]
        /\ \A h \in MigHosts :
             /\ mig_host'[h].vcpu_allocated = mig_host[h].vcpu_allocated + (IF h = n THEN 1 ELSE 0)
             /\ mig_host'[h].mem_allocated = mig_host[h].mem_allocated + (IF h = n THEN 1 ELSE 0)
             /\ mig_host'[h].vm_created = mig_host[h].vm_created
    BY <2>4, LedgerClaims
  <2>6. ASSUME NEW h \in MigHosts
        PROVE  LedgerAt(h)'
    BY <1>1, <1>2, <2>1, <2>2, <2>3, <2>5, StepSizes DEF LedgerFacts, LedgerAt
  <2>7. QED
    BY <1>1, <1>2, <2>1, <2>6, LedgerAloud
<1>5. QED
  BY <1>3, <1>4 DEF ClaimTarget

\* What was claimed and comes to nothing is given back.
LEMMA LedgerOfUndo ==
    ASSUME LedgerInv, MoveInv', NEW w \in MigWorkers, UndoMigrate(w)
    PROVE  LedgerInv'
<1>1. /\ LedgerFacts(w) /\ Mig(w).pc = "undo" /\ UNCHANGED mig_vm
      /\ mig_worker' = [mig_worker EXCEPT ![w] = NoMigWorker] /\ Ledger!free(Mig(w).new, 1, 1)
  BY LedgerPlaces DEF UndoMigrate, FreeTarget, MigAt, Mig
<1>2. \A h : VmsOn(h)' = VmsOn(h)
  BY <1>1, VmsStay
<1>3. Mig(w)'.pc = "idle" /\ \A x \in MigWorkers \ {w} : mig_worker'[x] = mig_worker[x]
  BY <1>1, MigRests, WorkerSet DEF LedgerFacts
<1>4. PICK n \in MigHosts : n = Mig(w).new
  BY <1>1 DEF LedgerFacts, MigFacts
<1>5. /\ Ledger!free(n, 1, 1) /\ Ledger!HostTypeOK
      /\ mig_host[n].vcpu_allocated <= MigTotal[n] /\ mig_host[n].mem_allocated <= MigTotal[n]
  BY <1>1, <1>4 DEF LedgerFacts, LedgerAt
<1>6. \A h \in MigHosts :
        /\ mig_host'[h].vcpu_allocated = mig_host[h].vcpu_allocated - (IF h = n THEN 1 ELSE 0)
        /\ mig_host'[h].mem_allocated = mig_host[h].mem_allocated - (IF h = n THEN 1 ELSE 0)
        /\ mig_host'[h].vm_created = mig_host[h].vm_created
  BY <1>5, LedgerFrees
<1>7. ASSUME NEW h \in MigHosts
      PROVE  LedgerAt(h)'
  BY <1>1, <1>2, <1>3, <1>4, <1>6, StepSizes DEF LedgerFacts, LedgerAt
<1>8. QED
  BY <1>1, <1>2, <1>7, MigRests, LedgerAloud

\* The row takes the vcpu from one host to the other.
LEMMA LedgerOfSave ==
    ASSUME LedgerInv, MoveInv', NEW w \in MigWorkers, SaveHost(w)
    PROVE  LedgerInv'
<1>1. LedgerFacts(w) /\ Mig(w).pc = "save_host" /\ UNCHANGED mig_host
  BY LedgerPlaces DEF SaveHost, MigAt, Mig
<1>2. PICK v \in MigVms, old \in MigHosts, new \in MigHosts :
         v = Mig(w).vm /\ old = Mig(w).old /\ new = Mig(w).new
  BY <1>1 DEF LedgerFacts, MigFacts
<1>3. mig_vm[v].host = old /\ new # old
  BY <1>1, <1>2 DEF LedgerFacts, MoveSound
<1>4. CASE MigGoto(w, "undo") /\ UNCHANGED mig_vm
  <2>1. PICK m \in MigWorker : /\ mig_worker' = [mig_worker EXCEPT ![w] = m] /\ m.pc = "undo"
                               /\ m.old = Mig(w).old /\ m.new = Mig(w).new
    BY <1>1, <1>4, WorkerGoesTo DEF LedgerFacts, MigPcs
  <2>2. QED
    BY <1>1, <1>4, <2>1, LedgerQuietly
<1>5. CASE MigGoto(w, "created") /\ mig_vm' = [mig_vm EXCEPT ![v].host = new]
  <2>1. PICK m \in MigWorker : /\ mig_worker' = [mig_worker EXCEPT ![w] = m] /\ m.pc = "created"
                               /\ m.old = Mig(w).old /\ m.new = Mig(w).new
    BY <1>1, <1>5, WorkerGoesTo DEF LedgerFacts, MigPcs
  <2>2. Mig(w)' = m /\ \A x \in MigWorkers \ {w} : mig_worker'[x] = mig_worker[x]
    BY <1>1, <2>1, WorkerSet DEF LedgerFacts
  <2>3. mig_vm'[v].host = new /\ \A u \in MigVms \ {v} : mig_vm'[u].host = mig_vm[u].host
    BY <1>1, <1>5 DEF LedgerFacts, MigFacts
  <2>4. ASSUME NEW h \in MigHosts
        PROVE  LedgerAt(h)'
    <3>1. /\ Cardinality(Claimed(h)') = Cardinality(Claimed(h)) - (IF h = new THEN 1 ELSE 0)
          /\ Cardinality(Unfreed(h)') = Cardinality(Unfreed(h)) + (IF h = old THEN 1 ELSE 0)
          /\ Cardinality(Uncounted(h)') = Cardinality(Uncounted(h)) + (IF h = new THEN 1 ELSE 0)
          /\ Cardinality(Leaving(h)') = Cardinality(Leaving(h)) + (IF h = old THEN 1 ELSE 0)
      BY <1>1, <1>2, <2>1, <2>2, StepSizes DEF LedgerFacts
    <3>2. Cardinality(VmsOn(h)') = Cardinality(VmsOn(h)) + (IF new = h THEN 1 ELSE 0)
                                                         - (IF old = h THEN 1 ELSE 0)
      BY <1>3, <2>3, VmGoes
    <3>3. mig_host'[h] = mig_host[h]
      BY <1>1
    <3>4. LedgerAt(h)
      BY <1>1 DEF LedgerFacts
    <3>5. CASE h = new
      BY <1>1, <1>3, <3>1, <3>2, <3>3, <3>4, <3>5 DEF LedgerAt, LedgerFacts
    <3>6. CASE h = old
      BY <1>1, <1>3, <3>1, <3>2, <3>3, <3>4, <3>6 DEF LedgerAt, LedgerFacts
    <3>7. CASE h \notin {old, new}
      BY <1>1, <3>1, <3>2, <3>3, <3>4, <3>7 DEF LedgerAt, LedgerFacts
    <3>8. QED
      BY <3>5, <3>6, <3>7
  <2>5. ASSUME NEW h \in MigHosts
        PROVE  VmsOn(h)' = VmsOn(h) \/ Moving(w, h)
    BY <1>1, <1>2, <1>3, <2>3 DEF Moving, VmsOn
  <2>6. QED
    BY <1>1, <2>1, <2>4, <2>5, LedgerAloud
<1>6. QED
  BY <1>2, <1>4, <1>5 DEF SaveHost

\* The target counts the vm, and the host it is gone from gives its vcpu back.
LEMMA LedgerOfCount ==
    ASSUME LedgerInv, MoveInv', NEW w \in MigWorkers, CountTarget(w) \/ FreeSource(w)
    PROVE  LedgerInv'
<1>1. LedgerFacts(w) /\ UNCHANGED mig_vm
  BY LedgerPlaces DEF CountTarget, FreeSource
<1>2. \A h : VmsOn(h)' = VmsOn(h)
  BY <1>1, VmsStay
<1>3. PICK old \in MigHosts, new \in MigHosts : old = Mig(w).old /\ new = Mig(w).new
  BY <1>1 DEF LedgerFacts, MigFacts
<1>4. CASE CountTarget(w)
  <2>1. Mig(w).pc = "created" /\ MigGoto(w, "attach") /\ Ledger!vm_created_num_add_1(new)
    BY <1>3, <1>4 DEF CountTarget, MigAt, Mig
  <2>2. PICK m \in MigWorker : /\ mig_worker' = [mig_worker EXCEPT ![w] = m] /\ m.pc = "attach"
                               /\ m.old = Mig(w).old /\ m.new = Mig(w).new
    BY <1>1, <2>1, WorkerGoesTo DEF LedgerFacts, MigPcs
  <2>3. Mig(w)' = m /\ \A x \in MigWorkers \ {w} : mig_worker'[x] = mig_worker[x]
    BY <1>1, <2>2, WorkerSet DEF LedgerFacts
  <2>4. mig_host' = [mig_host EXCEPT ![new].vm_created = @ + 1]
    BY <2>1 DEF Ledger!vm_created_num_add_1
  <2>5. \A h \in MigHosts :
          /\ mig_host'[h].vcpu_allocated = mig_host[h].vcpu_allocated
          /\ mig_host'[h].mem_allocated = mig_host[h].mem_allocated
          /\ mig_host'[h].vm_created = mig_host[h].vm_created + (IF h = new THEN 1 ELSE 0)
    BY <1>1, <2>4, LedgerCountsOne DEF LedgerFacts
  <2>6. ASSUME NEW h \in MigHosts
        PROVE  LedgerAt(h)'
    <3>1. /\ Cardinality(Claimed(h)') = Cardinality(Claimed(h))
          /\ Cardinality(Unfreed(h)') = Cardinality(Unfreed(h))
          /\ Cardinality(Uncounted(h)') = Cardinality(Uncounted(h)) - (IF h = new THEN 1 ELSE 0)
          /\ Cardinality(Leaving(h)') = Cardinality(Leaving(h))
      BY <1>3, <2>1, <2>2, <2>3, StepSizes, CountsAreNumbers
    <3>2. Cardinality(VmsOn(h)') = Cardinality(VmsOn(h))
      BY <1>2
    <3>3. QED
      BY <1>1, <2>5, <3>1, <3>2 DEF LedgerAt, LedgerFacts
  <2>7. QED
    BY <1>2, <2>1, <2>2, <2>6, LedgerAloud
<1>5. CASE FreeSource(w)
  <2>1. Mig(w).pc = "free" /\ MigGoto(w, "end") /\ Ledger!free(old, 1, 1)
    BY <1>3, <1>5 DEF FreeSource, MigAt, Mig
  <2>2. PICK m \in MigWorker : /\ mig_worker' = [mig_worker EXCEPT ![w] = m] /\ m.pc = "end"
                               /\ m.old = Mig(w).old /\ m.new = Mig(w).new
    BY <1>1, <2>1, WorkerGoesTo DEF LedgerFacts, MigPcs
  <2>3. Mig(w)' = m /\ \A x \in MigWorkers \ {w} : mig_worker'[x] = mig_worker[x]
    BY <1>1, <2>2, WorkerSet DEF LedgerFacts
  <2>4. /\ Ledger!HostTypeOK
        /\ mig_host[old].vcpu_allocated <= MigTotal[old] /\ mig_host[old].mem_allocated <= MigTotal[old]
    BY <1>1 DEF LedgerFacts, LedgerAt
  <2>5. \A h \in MigHosts :
          /\ mig_host'[h].vcpu_allocated = mig_host[h].vcpu_allocated - (IF h = old THEN 1 ELSE 0)
          /\ mig_host'[h].mem_allocated = mig_host[h].mem_allocated - (IF h = old THEN 1 ELSE 0)
          /\ mig_host'[h].vm_created = mig_host[h].vm_created
    BY <2>1, <2>4, LedgerFrees
  <2>6. ASSUME NEW h \in MigHosts
        PROVE  LedgerAt(h)'
    <3>1. /\ Cardinality(Claimed(h)') = Cardinality(Claimed(h))
          /\ Cardinality(Unfreed(h)') = Cardinality(Unfreed(h)) - (IF h = old THEN 1 ELSE 0)
          /\ Cardinality(Uncounted(h)') = Cardinality(Uncounted(h))
          /\ Cardinality(Leaving(h)') = Cardinality(Leaving(h))
      BY <1>1, <1>3, <2>1, <2>2, <2>3, StepSizes DEF LedgerFacts
    <3>2. Cardinality(VmsOn(h)') = Cardinality(VmsOn(h))
      BY <1>2
    <3>3. QED
      BY <1>1, <2>5, <3>1, <3>2 DEF LedgerAt, LedgerFacts
  <2>7. QED
    BY <1>2, <2>1, <2>2, <2>6, LedgerAloud
<1>6. QED
  BY <1>4, <1>5

\* The source counts the vm no more, or for ever.
LEMMA LedgerOfUndefine ==
    ASSUME LedgerInv, MoveInv', NEW w \in MigWorkers, UndefineSource(w)
    PROVE  LedgerInv'
<1>1. LedgerFacts(w) /\ Mig(w).pc = "undefine" /\ UNCHANGED mig_vm
  BY LedgerPlaces DEF UndefineSource, MigAt, Mig
<1>2. \A h : VmsOn(h)' = VmsOn(h)
  BY <1>1, VmsStay
<1>3. PICK old \in MigHosts : old = Mig(w).old
  BY <1>1 DEF LedgerFacts, MigFacts
<1>4. ASSUME NEW m \in MigWorker, mig_worker' = [mig_worker EXCEPT ![w] = m], m.pc = "free",
             m.old = Mig(w).old, m.new = Mig(w).new,
             \A h \in MigHosts :
               /\ mig_host'[h].vcpu_allocated = mig_host[h].vcpu_allocated
               /\ mig_host'[h].mem_allocated = mig_host[h].mem_allocated
               /\ mig_host'[h].vm_created \in Int
               /\ mig_host'[h].vm_created >= mig_host[h].vm_created - (IF h = old THEN 1 ELSE 0)
      PROVE  LedgerInv'
  <2>1. Mig(w)' = m /\ \A x \in MigWorkers \ {w} : mig_worker'[x] = mig_worker[x]
    BY <1>1, <1>4, WorkerSet DEF LedgerFacts
  <2>2. ASSUME NEW h \in MigHosts
        PROVE  LedgerAt(h)'
    BY <1>1, <1>2, <1>3, <1>4, <2>1, StepSizes DEF LedgerFacts, LedgerAt
  <2>3. QED
    BY <1>1, <1>2, <1>4, <2>2, LedgerAloud
<1>5. CASE Ledger!vm_created_num_sub_1(Mig(w).old) /\ MigGoto(w, "free")
  <2>1. PICK m \in MigWorker : /\ mig_worker' = [mig_worker EXCEPT ![w] = m] /\ m.pc = "free"
                               /\ m.old = Mig(w).old /\ m.new = Mig(w).new
    BY <1>1, <1>5, WorkerGoesTo DEF LedgerFacts, MigPcs
  <2>2. mig_host' = [mig_host EXCEPT ![old].vm_created = @ + (-1)]
    BY <1>1, <1>3, <1>5, LedgerNumbers DEF Ledger!vm_created_num_sub_1, LedgerFacts
  <2>3. \A h \in MigHosts :
          /\ mig_host'[h].vcpu_allocated = mig_host[h].vcpu_allocated
          /\ mig_host'[h].mem_allocated = mig_host[h].mem_allocated
          /\ mig_host'[h].vm_created = mig_host[h].vm_created + (IF h = old THEN -1 ELSE 0)
    BY <1>1, <2>2, LedgerCountsOne DEF LedgerFacts
  <2>4. \A h \in MigHosts :
          /\ mig_host'[h].vcpu_allocated = mig_host[h].vcpu_allocated
          /\ mig_host'[h].mem_allocated = mig_host[h].mem_allocated
          /\ mig_host'[h].vm_created \in Int
          /\ mig_host'[h].vm_created >= mig_host[h].vm_created - (IF h = old THEN 1 ELSE 0)
    BY <1>1, <2>3 DEF LedgerFacts
  <2>5. QED
    BY <1>4, <2>1, <2>4
<1>6. CASE mig_worker' = [mig_worker EXCEPT ![w] = LeaveSource(w)] /\ UNCHANGED mig_host
  <2>1. /\ LeaveSource(w) \in MigWorker /\ LeaveSource(w).pc = "free"
        /\ LeaveSource(w).old = Mig(w).old /\ LeaveSource(w).new = Mig(w).new
    BY <1>1 DEF LeaveSource, LedgerFacts, MigFacts, MigWorker, MigPcs
  <2>2. \A h \in MigHosts :
          /\ mig_host'[h].vcpu_allocated = mig_host[h].vcpu_allocated
          /\ mig_host'[h].mem_allocated = mig_host[h].mem_allocated
          /\ mig_host'[h].vm_created \in Int
          /\ mig_host'[h].vm_created >= mig_host[h].vm_created - (IF h = old THEN 1 ELSE 0)
    BY <1>1, <1>6 DEF LedgerFacts
  <2>3. QED
    BY <1>4, <1>6, <2>1, <2>2
<1>7. QED
  BY <1>5, <1>6 DEF UndefineSource

\* A refresh saves what it has counted, at a host where nothing moves.
LEMMA LedgerOfRefresh ==
    ASSUME LedgerInv, MoveInv', ~RefreshMeets, NEW w \in MigWorkers,
           stats_vcpu_mem_vms_now(w) \/ update_host_quota_save(w)
    PROVE  LedgerInv'
<1>1. LedgerFacts(w) /\ UNCHANGED mig_vm
  BY LedgerPlaces DEF stats_vcpu_mem_vms_now, update_host_quota_save
<1>2. \A h : VmsOn(h)' = VmsOn(h)
  BY <1>1, VmsStay
<1>3. PICK new \in MigHosts : new = Mig(w).new
  BY <1>1 DEF LedgerFacts, MigFacts
<1>4. CASE stats_vcpu_mem_vms_now(w)
  <2> DEFINE n == Cardinality(VmsOn(Mig(w).new))
             m == [Mig(w) EXCEPT !.pc = "refresh_save", !.seen = n]
  <2>1. /\ Mig(w).pc = "refresh" /\ UNCHANGED mig_host
        /\ \A x \in MigWorkers \ {w} : ~Moving(x, new)
    BY <1>3, <1>4 DEF stats_vcpu_mem_vms_now, MigAt, Mig
  <2>2. mig_worker' = [mig_worker EXCEPT ![w] = m]
    BY <1>1, <1>4 DEF stats_vcpu_mem_vms_now, LedgerFacts, MigFacts
  <2>3. n = Cardinality(VmsOn(new)) /\ n \in Nat
    BY <1>1, <1>3 DEF LedgerFacts
  <2> HIDE DEF n
  <2>4. m.pc = "refresh_save" /\ m.seen = n /\ m.old = Mig(w).old /\ m.new = new
    BY <1>1, <1>3 DEF LedgerFacts, MigFacts, MigWorker
  <2> HIDE DEF m
  <2>5. Mig(w)' = m /\ \A x \in MigWorkers \ {w} : mig_worker'[x] = mig_worker[x]
    BY <1>1, <2>2, WorkerSet DEF LedgerFacts
  <2>6. \A h \in MigHosts : LedgerAt(h)'
    BY <1>2, <2>1, <2>4, <2>5, LedgerQuiet
  <2>7. \A x \in MigWorkers \ {w} : Mig(x)' = Mig(x) /\ \A h : Moving(x, h)' <=> Moving(x, h)
    BY <2>5 DEF Mig, Moving
  <2>8. \A h : ~Moving(w, h)'
    BY <2>4, <2>5 DEF Moving
  <2>9. ASSUME NEW x \in MigWorkers
        PROVE  RefreshKnows(x)'
    <3>1. CASE x = w
      BY <1>1, <2>1, <2>3, <2>4, <2>5, <2>7, <3>1 DEF VmsOn, Moving, RefreshKnows
    <3>2. CASE x # w
      BY <1>1, <2>4, <2>5, <2>7, <3>2 DEF LedgerInv, VmsOn, Moving, RefreshKnows
    <3>3. QED
      BY <3>1, <3>2
  <2>10. QED
    BY <2>6, <2>9 DEF LedgerInv
<1>5. CASE update_host_quota_save(w)
  <2> DEFINE n == Mig(w).seen
             row == [vcpu_allocated |-> n, mem_allocated |-> n, vm_created |-> n]
             m == IF Mig(w).again THEN NoMigWorker ELSE [Mig(w) EXCEPT !.pc = "refresh", !.again = TRUE]
  <2>1. /\ Mig(w).pc = "refresh_save" /\ mig_host' = [mig_host EXCEPT ![new] = row]
    BY <1>3, <1>5 DEF update_host_quota_save, MigAt, Mig
  <2>2. mig_worker' = [mig_worker EXCEPT ![w] = m]
    BY <1>1, <1>5 DEF update_host_quota_save, LedgerFacts, MigFacts
  <2>3. m.pc \in {"idle", "refresh"}
    BY <1>1, MigRests DEF LedgerFacts, MigFacts, MigWorker
  <2> HIDE DEF m
  <2>4. Mig(w)' = m /\ \A x \in MigWorkers \ {w} : mig_worker'[x] = mig_worker[x]
    BY <1>1, <2>2, WorkerSet DEF LedgerFacts
  <2>5. n = Cardinality(VmsOn(new)) /\ \A x \in MigWorkers : ~Moving(x, new)
    BY <1>3, <2>1 DEF LedgerInv, Moving, RefreshKnows
  <2>6. Claimed(new) = {} /\ Unfreed(new) = {} /\ Uncounted(new) = {} /\ Leaving(new) = {}
    BY <2>5 DEF Moving, Claimed, Unfreed, Uncounted, Leaving, MigAt, Mig
  <2>7. n \in Nat /\ n <= MigTotal[new]
    BY <1>1, <2>5 DEF LedgerFacts, LedgerAt
  <2>8. row.vcpu_allocated = n /\ row.mem_allocated = n /\ row.vm_created = n
    OBVIOUS
  <2> HIDE DEF n, row
  <2>9. mig_host'[new] = row /\ \A h \in MigHosts \ {new} : mig_host'[h] = mig_host[h]
    BY <1>1, <2>1, LedgerNumbers DEF LedgerFacts
  <2>10. ASSUME NEW h \in MigHosts
         PROVE  LedgerAt(h)'
    <3>1. /\ Cardinality(Claimed(h)') = Cardinality(Claimed(h))
          /\ Cardinality(Unfreed(h)') = Cardinality(Unfreed(h))
          /\ Cardinality(Uncounted(h)') = Cardinality(Uncounted(h))
          /\ Cardinality(Leaving(h)') = Cardinality(Leaving(h))
      BY <2>1, <2>3, <2>4, StepSizes, CountsAreNumbers
    <3>2. Cardinality(VmsOn(h)') = Cardinality(VmsOn(h))
      BY <1>2
    <3>3. CASE h = new
      <4>1. /\ Cardinality(Claimed(h)) = 0 /\ Cardinality(Unfreed(h)) = 0
            /\ Cardinality(Uncounted(h)) = 0 /\ Cardinality(Leaving(h)) = 0
        BY <2>6, <3>3, FS_EmptySet
      <4>2. mig_host'[h] = row /\ n = Cardinality(VmsOn(h)) /\ n <= MigTotal[h]
        BY <2>5, <2>7, <2>9, <3>3
      <4>3. QED
        BY <2>7, <2>8, <3>1, <3>2, <4>1, <4>2 DEF LedgerAt
    <3>4. CASE h # new
      BY <1>1, <2>9, <3>1, <3>2, <3>4 DEF LedgerFacts, LedgerAt
    <3>5. QED
      BY <3>3, <3>4
  <2>11. \A x \in MigWorkers : RefreshKnows(x)'
    BY <1>1, <1>2, <2>3, <2>4, RefreshHolds DEF Moving, LedgerInv, LedgerFacts
  <2>12. QED
    BY <2>10, <2>11 DEF LedgerInv
<1>6. QED
  BY <1>4, <1>5

\* A migration begins, makes its domain, gives it its vdisks and ends with
\* nothing of the ledger.
LEMMA LedgerOfOthers ==
    ASSUME LedgerInv, MoveInv', ~RefreshMeets, NEW w \in MigWorkers,
           \/ \E v \in MigVms, new \in MigHosts, force \in BOOLEAN : pre_static_migrate(w, v, new, force)
           \/ migrate_create_vm(w) \/ AttachVdisks(w) \/ EndMigrate(w)
    PROVE  LedgerInv'
<1>1. LedgerFacts(w) /\ UNCHANGED mig_host
  BY LedgerPlaces DEF pre_static_migrate, migrate_create_vm, AttachVdisks, EndMigrate
<1>2. ASSUME NEW v \in MigVms, NEW new \in MigHosts, NEW force \in BOOLEAN,
             pre_static_migrate(w, v, new, force)
      PROVE  LedgerInv'
  <2> DEFINE old == mig_vm[v].host
             m == [NoMigWorker EXCEPT !.pc = "claim", !.vm = v, !.old = old, !.new = new,
                                      !.force = force]
  <2>1. /\ Mig(w).pc = "idle" /\ mig_worker' = [mig_worker EXCEPT ![w] = m] /\ UNCHANGED mig_vm
        /\ \A x \in MigWorkers : ~Refreshing(x, old) /\ ~Refreshing(x, new)
    BY <1>2 DEF pre_static_migrate, MigAt, Mig
  <2>2. m.pc = "claim" /\ m.old = old /\ m.new = new
    BY MigRests DEF MigWorker
  <2> HIDE DEF m
  <2>3. QED
    BY <1>1, <2>1, <2>2, LedgerQuietly
<1>3. CASE migrate_create_vm(w)
  <2>1. Mig(w).pc = "define" /\ UNCHANGED mig_vm
    BY <1>3 DEF migrate_create_vm, MigAt, Mig
  <2>2. CASE MigGoto(w, "undo")
    <3>1. PICK m \in MigWorker : /\ mig_worker' = [mig_worker EXCEPT ![w] = m] /\ m.pc = "undo"
                                 /\ m.old = Mig(w).old /\ m.new = Mig(w).new
      BY <1>1, <2>2, WorkerGoesTo DEF LedgerFacts, MigPcs
    <3>2. QED
      BY <1>1, <2>1, <3>1, LedgerQuietly
  <2>3. ASSUME NEW rebuilt \in BOOLEAN,
               mig_worker' = [mig_worker EXCEPT ![w].pc = "save_host", ![w].force = FALSE,
                                                ![w].rebuilt = rebuilt]
        PROVE  LedgerInv'
    <3> DEFINE m == [Mig(w) EXCEPT !.pc = "save_host", !.force = FALSE, !.rebuilt = rebuilt]
    <3>1. m.pc = "save_host" /\ m.old = Mig(w).old /\ m.new = Mig(w).new
      BY <1>1 DEF LedgerFacts, MigFacts, MigWorker
    <3>2. mig_worker' = [mig_worker EXCEPT ![w] = m]
      BY <1>1, <2>3 DEF LedgerFacts, MigFacts
    <3> HIDE DEF m
    <3>3. QED
      BY <1>1, <2>1, <3>1, <3>2, LedgerQuietly
  <2>4. QED
    BY <1>3, <2>2, <2>3 DEF migrate_create_vm
<1>4. CASE AttachVdisks(w)
  <2>1. Mig(w).pc = "attach"
    BY <1>4 DEF AttachVdisks, MigAt, Mig
  <2>2. \A v \in MigVms : mig_vm'[v].host = mig_vm[v].host
    BY <1>1, <1>4 DEF AttachVdisks, LedgerFacts, MigFacts
  <2> DEFINE m == [Mig(w) EXCEPT !.pc = "undefine", !.rebuilt = FALSE]
             k == [Mig(w) EXCEPT !.pc = "undefine", !.rebuilt = FALSE, !.todo = TRUE]
  <2>3. /\ m.pc = "undefine" /\ m.old = Mig(w).old /\ m.new = Mig(w).new
        /\ k.pc = "undefine" /\ k.old = Mig(w).old /\ k.new = Mig(w).new
    BY <1>1 DEF LedgerFacts, MigFacts, MigWorker
  <2>4. mig_worker' = [mig_worker EXCEPT ![w] = m] \/ mig_worker' = [mig_worker EXCEPT ![w] = k]
    BY <1>1, <1>4 DEF AttachVdisks, LedgerFacts, MigFacts
  <2> HIDE DEF m, k
  <2>5. CASE mig_worker' = [mig_worker EXCEPT ![w] = m]
    BY <1>1, <2>1, <2>2, <2>3, <2>5, LedgerQuietly
  <2>6. CASE mig_worker' = [mig_worker EXCEPT ![w] = k]
    BY <1>1, <2>1, <2>2, <2>3, <2>6, LedgerQuietly
  <2>7. QED
    BY <2>4, <2>5, <2>6
<1>5. CASE EndMigrate(w)
  <2> DEFINE m == [Mig(w) EXCEPT !.pc = "refresh", !.old = Mig(w).new, !.todo = FALSE, !.left = FALSE]
  <2>1. Mig(w).pc = "end" /\ UNCHANGED mig_vm
    BY <1>5 DEF EndMigrate, MigAt, Mig
  <2>2. m.pc = "refresh"
    BY <1>1 DEF LedgerFacts, MigFacts, MigWorker
  <2>3. mig_worker' = [mig_worker EXCEPT ![w] = m]
    BY <1>1, <1>5 DEF EndMigrate, LedgerFacts, MigFacts
  <2> HIDE DEF m
  <2>4. QED
    BY <1>1, <2>1, <2>2, <2>3, LedgerQuietly
<1>6. QED
  BY <1>2, <1>3, <1>4, <1>5

\* Every step of the migrations keeps the ledger.
LEMMA LedgerKept ==
    ASSUME ~RefreshMeets
    PROVE  LedgerInv /\ [MigNext]_migVars => LedgerInv'
<1> SUFFICES ASSUME LedgerInv, [MigNext]_migVars
             PROVE  LedgerInv'
  OBVIOUS
<1>1. MoveInv'
  BY MoveKept DEF LedgerInv
<1>2. CASE UNCHANGED <<mig_host, mig_vm, mig_worker>>
  <2>1. \A h : VmsOn(h)' = VmsOn(h)
    BY <1>2 DEF VmsOn
  <2>2. \A h : /\ Claimed(h)' = Claimed(h) /\ Unfreed(h)' = Unfreed(h)
               /\ Uncounted(h)' = Uncounted(h) /\ Leaving(h)' = Leaving(h)
    BY <1>2 DEF Claimed, Unfreed, Uncounted, Leaving, Mig, MigAt
  <2>3. ASSUME NEW h \in MigHosts
        PROVE  LedgerAt(h)'
    BY <1>2, <2>1, <2>2 DEF LedgerInv, LedgerAt
  <2>4. ASSUME NEW w \in MigWorkers
        PROVE  RefreshKnows(w)'
    BY <1>2 DEF LedgerInv, RefreshKnows, VmsOn, Moving, Mig
  <2>5. QED
    BY <1>1, <2>3, <2>4 DEF LedgerInv
<1>3. CASE UNCHANGED migVars
  BY <1>2, <1>3 DEF migVars
<1>4. CASE \E v \in MigVms : StartMigVm(v) \/ \E w \in MigWorkers : RefuseMigrate(w, v)
  BY <1>2, <1>4 DEF StartMigVm, RefuseMigrate
<1>5. CASE \E w \in MigWorkers : ClaimTarget(w)
  BY <1>1, <1>5, LedgerOfClaim
<1>6. CASE \E w \in MigWorkers : UndoMigrate(w)
  BY <1>1, <1>6, LedgerOfUndo
<1>7. CASE \E w \in MigWorkers : SaveHost(w)
  BY <1>1, <1>7, LedgerOfSave
<1>8. CASE \E w \in MigWorkers : CountTarget(w) \/ FreeSource(w)
  BY <1>1, <1>8, LedgerOfCount
<1>9. CASE \E w \in MigWorkers : UndefineSource(w)
  BY <1>1, <1>9, LedgerOfUndefine
<1>10. CASE \E w \in MigWorkers : stats_vcpu_mem_vms_now(w) \/ update_host_quota_save(w)
  BY <1>1, <1>10, LedgerOfRefresh
<1>11. CASE \E w \in MigWorkers :
               \/ \E v \in MigVms, new \in MigHosts, force \in BOOLEAN : pre_static_migrate(w, v, new, force)
               \/ migrate_create_vm(w) \/ AttachVdisks(w) \/ EndMigrate(w)
  BY <1>1, <1>11, LedgerOfOthers
<1>12. QED
  BY <1>3, <1>4, <1>5, <1>6, <1>7, <1>8, <1>9, <1>10, <1>11 DEF MigNext

\* The ledger starts with the vms that are there.
LEMMA LedgerFromStart == MigInit => LedgerInv
<1> SUFFICES ASSUME MigInit
             PROVE  LedgerInv
  OBVIOUS
<1>1. \A w \in MigWorkers : Mig(w).pc = "idle"
  BY MigRests DEF MigInit, Mig
<1>2. ASSUME NEW h \in MigHosts
      PROVE  LedgerAt(h)
  <2>1. Claimed(h) = {} /\ Unfreed(h) = {} /\ Uncounted(h) = {} /\ Leaving(h) = {}
    BY <1>1 DEF Claimed, Unfreed, Uncounted, Leaving, MigAt, Mig
  <2>2. /\ Cardinality(Claimed(h)) = 0 /\ Cardinality(Unfreed(h)) = 0
        /\ Cardinality(Uncounted(h)) = 0 /\ Cardinality(Leaving(h)) = 0
    BY <2>1, FS_EmptySet
  <2>3. PICK n : n = Cardinality({v \in MigVms : MigHome[v] = h})
    OBVIOUS
  <2>4. VmsOn(h) = {v \in MigVms : MigHome[v] = h}
    BY DEF MigInit, VmsOn
  <2>5. n = Cardinality(VmsOn(h)) /\ n \in Nat /\ n <= MigTotal[h]
    BY <2>3, <2>4, VmsOnCount, MigAssumption
  <2>6. mig_host[h] = [vcpu_allocated |-> n, mem_allocated |-> n, vm_created |-> n]
    BY <2>3 DEF MigInit
  <2>7. QED
    BY <2>2, <2>5, <2>6 DEF LedgerAt
<1>3. QED
  BY <1>1, <1>2, MoveFromStart DEF LedgerInv, RefreshKnows

\* Where no refresh meets another migration at its host, the ledger is what the
\* rows and the claims of migrations come to, within the totals, and no host counts
\* fewer vms than it has.
THEOREM StaticLedgerIsExact ==
    ASSUME ~RefreshMeets
    PROVE  MigSpec => []StaticLedger
<1>1. MigInit => LedgerInv
  BY LedgerFromStart
<1>2. LedgerInv /\ [MigNext]_migVars => LedgerInv'
  BY LedgerKept
<1>3. MigSpec => []LedgerInv
  BY <1>1, <1>2, PTL DEF MigSpec
<1>4. ASSUME LedgerInv
      PROVE  StaticLedger
  <2>1. ASSUME NEW h \in MigHosts
        PROVE  /\ mig_host[h].vcpu_allocated
                  = Cardinality(VmsOn(h)) + Cardinality(Claimed(h)) + Cardinality(Unfreed(h))
               /\ mig_host[h].vcpu_allocated <= MigTotal[h]
               /\ mig_host[h].vm_created + Cardinality(Uncounted(h)) >= Cardinality(VmsOn(h))
    BY <1>4, VmsOnCount, CountsAreNumbers, LedgerNumbers DEF LedgerInv, MoveInv, MigTypeOK, LedgerAt
  <2>2. QED
    BY <2>1 DEF StaticLedger, Claimed, Unfreed, Uncounted
<1>5. QED
  BY <1>3, <1>4, PTL

-----------------------------------------------------------------------------
(* The tasks of the public mirror, while no script is started before the   *)
(* one at work has ended: an image that is offered has all been imported,  *)
(* whatever fails and wherever a script is killed; the mirror has all of   *)
(* what is said to be uploaded, where files can be read; and a task at     *)
(* which nobody works does not say that somebody does, unless a script was *)
(* killed or there was nothing left to do.                                 *)

\* No script is started while another is at work.
Alone == \A m \in MirrorWorks : ~m.meet

-----------------------------------------------------------------------------
(* Types. *)

\* A script at work has a node.
NodesKnown == \A s \in Scripts : script[s].pc # "idle" => script[s].node \in Nodes

TInv == MirrorTypeOK /\ NodesKnown

\* The records at rest are of their types.
LEMMA RestTypes == NoScript \in ScriptState /\ NoTask \in TaskRow /\ NoFile \in LocalFile
<1>1. NoTask \in TaskRow
  BY DEF NoTask, TaskRow, OPERATE_PULL, NONESTATUS
<1>2. NoFile \in LocalFile
  BY DEF NoFile, LocalFile
<1>3. QED
  BY <1>1, <1>2 DEF NoScript, ScriptState, ScriptPcs

\* A script that goes on, or ends, is one.
LEMMA ScriptGoesOn ==
    ASSUME TInv, NEW s \in Scripts, NEW pc \in ScriptPcs, ScriptTo(s, pc)
    PROVE  /\ script' \in [Scripts -> ScriptState]
           /\ \A x \in Scripts \ {s} : script'[x] = script[x]
           /\ script'[s].pc = pc
           /\ pc # "idle" =>
                /\ script'[s].op = script[s].op /\ script'[s].node = script[s].node
                /\ script'[s].row = script[s].row /\ script'[s].offset = script[s].offset
                /\ script'[s].chunk = script[s].chunk /\ script'[s].opened = script[s].opened
<1>1. script \in [Scripts -> ScriptState] /\ script[s] \in ScriptState
  BY DEF TInv, MirrorTypeOK
<1>2. CASE pc = "idle"
  BY <1>1, <1>2, RestTypes DEF ScriptTo, NoScript
<1>3. CASE pc # "idle"
  BY <1>1, <1>3 DEF ScriptTo, ScriptState
<1>4. QED
  BY <1>2, <1>3

\* What is saved is a row; when it is gone the script ends.
LEMMA Saved ==
    ASSUME TInv, NEW s \in Scripts, NEW row \in TaskRow, NEW pc \in ScriptPcs, Save(s, row, pc)
    PROVE  /\ task' \in TaskRow
           /\ \/ task.live /\ task' = row /\ ScriptTo(s, pc)
              \/ ~task.live /\ task' = task /\ ScriptTo(s, "idle")
BY DEF Save, TInv, MirrorTypeOK

\* Of a step of s, it alone moves.
Moves(s) ==
    /\ script' \in [Scripts -> ScriptState]
    /\ \A x \in Scripts \ {s} : script'[x] = script[x]
    /\ script'[s].pc = "idle" \/ script'[s].node \in Nodes

\* The status with which a script can fail is one.
LEMMA Failed ==
    ASSUME TInv, NEW s \in Scripts, NEW st \in 1 .. 7, Fail(s, st)
    PROVE  /\ task' \in TaskRow
           /\ Moves(s) /\ script'[s].pc = "idle"
           /\ IF task.live THEN task' = [task EXCEPT !.status = st] ELSE task' = task
<1>1. [task EXCEPT !.status = st] \in TaskRow
  BY DEF TInv, MirrorTypeOK, TaskRow
<1>2. "idle" \in ScriptPcs
  BY DEF ScriptPcs
<1>3. Save(s, [task EXCEPT !.status = st], "idle")
  BY DEF Fail
<1>4. /\ task' \in TaskRow
      /\ ScriptTo(s, "idle")
      /\ IF task.live THEN task' = [task EXCEPT !.status = st] ELSE task' = task
  BY <1>1, <1>2, <1>3, Saved
<1>5. QED
  BY <1>2, <1>4, ScriptGoesOn DEF Moves

\* A file that is sent may not be readable to its end.
Unread == Fails("read_local")

\* What a script at work knows of the file of its node, of the rbd image and of
\* the mirror, at each of its steps.
ScriptSound(s) ==
    LET c == script[s]
        f == local_file[c.node]
    IN  /\ c.pc \notin {"idle", "load"} /\ c.row.import_date_complate => base_image = "whole"
        /\ c.pc = "download" => /\ f = [n |-> c.offset, is |-> "good"]
                                /\ c.offset <= remote_size /\ c.chunk > 0
        /\ c.pc \in {"mark_downloaded", "import"} => Whole(f)
        /\ c.pc = "importing" => Whole(c.opened) /\ base_image = "partial"
        /\ c.pc \in {"mark_imported", "create_os", "recreate_os", "mark_created"}
              => base_image = "whole"
        /\ c.pc = "upload" => f.n = remote_size /\ c.offset <= remote
        /\ c.pc = "mark_uploaded" => remote = remote_size \/ Unread

\* The types are kept if each part is.
LEMMA TypesKept ==
    ASSUME TInv, NEW s \in Scripts, Moves(s), UNCHANGED <<mirrorwork, remote_size>>,
           task' = task \/ task' \in TaskRow,
           local_file' = local_file \/ local_file' \in [Nodes -> LocalFile],
           remote' = remote \/ remote' \in 0 .. remote_size,
           base_image' = base_image \/ base_image' \in {"none", "partial", "whole", "broken"},
           os_image' = os_image \/ os_image' \in BOOLEAN,
           died' = died \/ died' \in BOOLEAN
    PROVE  TInv'
<1>1. MirrorTypeOK'
  BY DEF TInv, MirrorTypeOK, Moves
<1>2. NodesKnown'
  BY DEF TInv, NodesKnown, Moves
<1>3. QED
  BY <1>1, <1>2 DEF TInv

\* A script that goes on, or ends, moves.
LEMMA GoingOnMoves ==
    ASSUME TInv, NEW s \in Scripts, script[s].pc # "idle", NEW pc \in ScriptPcs, ScriptTo(s, pc)
    PROVE  Moves(s)
BY ScriptGoesOn DEF Moves, TInv, NodesKnown

\* A step of a script.
Facts(s) ==
    /\ script \in [Scripts -> ScriptState] /\ script[s] \in ScriptState
    /\ task \in TaskRow /\ local_file \in [Nodes -> LocalFile]
    /\ remote_size \in Nat \ {0} /\ remote \in 0 .. remote_size /\ ReadChunk \in Nat \ {0}

\* What the types say of the places a step of s reads.
LEMMA TypedPlaces ==
    ASSUME TInv, NEW s \in Scripts
    PROVE  Facts(s) /\ (script[s].pc # "idle" => script[s].node \in Nodes)
BY MirrorAssumption DEF Facts, TInv, MirrorTypeOK, NodesKnown

\* The steps that save the row and go on, and what they save.
Saves(s) ==
    \E row \in TaskRow, pc \in ScriptPcs : Save(s, row, pc)

\* A step that saves the row and goes on keeps the types.
LEMMA SavesTypes ==
    ASSUME TInv, NEW s \in Scripts, script[s].pc # "idle", Saves(s), UNCHANGED mirrorwork, OnlyScript
    PROVE  TInv'
<1>1. PICK row \in TaskRow, pc \in ScriptPcs : Save(s, row, pc)
  BY DEF Saves
<1>2. task' \in TaskRow /\ (ScriptTo(s, pc) \/ ScriptTo(s, "idle"))
  BY <1>1, Saved
<1>3. Moves(s)
  BY <1>2, GoingOnMoves DEF ScriptPcs
<1>4. QED
  BY <1>2, <1>3, TypesKept DEF OnlyScript

\* A step that fails keeps the types.
LEMMA FailTypes ==
    ASSUME TInv, NEW s \in Scripts, NEW st \in 1 .. 7, Fail(s, st),
           UNCHANGED <<mirrorwork, remote_size, local_file, remote, base_image, os_image, died>>
    PROVE  TInv'
BY Failed, TypesKept

\* The steps of a script up to the first of its work.
LEMMA BeginTypes ==
    ASSUME TInv, NEW s \in Scripts, UNCHANGED mirrorwork,
           Killed(s) \/ LoadTask(s) \/ RefuseTask(s) \/ RetryPull(s) \/ RetryPush(s) \/ BeginTask(s)
    PROVE  TInv'
<1> DEFINE c == script[s]
<1>1. Facts(s) /\ (c.pc # "idle" => c.node \in Nodes)
  BY TypedPlaces
<1>2. CASE Killed(s)
  BY <1>2, GoingOnMoves, TypesKept DEF Killed, ScriptPcs
<1>3. CASE LoadTask(s)
  <2>1. c.pc = "load" /\ c.node \in Nodes
    BY <1>1, <1>3 DEF LoadTask, ScriptAt
  <2>2. Moves(s)
    <3>1. CASE task.live
      BY <1>1, <1>3, <2>1, <3>1 DEF LoadTask, Facts, ScriptState, ScriptPcs, Moves
    <3>2. CASE ~task.live
      BY <1>1, <1>3, <3>2, RestTypes DEF LoadTask, Facts, Moves, NoScript
    <3>3. QED
      BY <3>1, <3>2
  <2>3. QED
    BY <1>3, <2>2, TypesKept DEF LoadTask, OnlyScript
<1>4. CASE RefuseTask(s)
  BY <1>4, FailTypes DEF RefuseTask, DOWNLOADFAILURE, UPLOADFAILURE, OnlyScript
<1>5. CASE RetryPull(s) \/ RetryPush(s) \/ BeginTask(s)
  <2>1. c.pc = "begin" /\ c.node \in Nodes
    BY <1>1, <1>5 DEF RetryPull, RetryPush, BeginTask, Accepted, ScriptAt
  <2>2. /\ \A st \in 1 .. 7 : [task EXCEPT !.status = st] \in TaskRow
        /\ [task EXCEPT !.local_hostname = c.node] \in TaskRow
    BY <1>1, <2>1 DEF Facts, TaskRow
  <2>9. OnlyScript
    BY <1>5 DEF RetryPull, RetryPush, BeginTask
  <2>3. CASE Saves(s)
    BY <2>1, <2>3, <2>9, SavesTypes
  <2>4. CASE ScriptTo(s, "idle") /\ UNCHANGED task
    BY <2>1, <2>4, <2>9, GoingOnMoves, TypesKept DEF ScriptPcs, OnlyScript
  <2>5. CASE RetryPull(s)
    BY <2>2, <2>3, <2>5 DEF RetryPull, Saves, DOWNLOADING, UPLOADING, ScriptPcs
  <2>6. CASE RetryPush(s)
    BY <2>2, <2>3, <2>6 DEF RetryPush, Saves, DOWNLOADCOMPLATE, ScriptPcs
  <2>7. CASE BeginTask(s)
    BY <2>2, <2>3, <2>4, <2>7 DEF BeginTask, Saves, DOWNLOADING, UPLOADING, ScriptPcs
  <2>8. QED
    BY <1>5, <2>5, <2>6, <2>7
<1>6. QED
  BY <1>2, <1>3, <1>4, <1>5

\* The steps of a download and of the import after it.
LEMMA PullTypes ==
    ASSUME TInv, NEW s \in Scripts, ScriptSound(s), UNCHANGED mirrorwork,
           \/ PullExists(s) \/ DeleteLocalFile(s) \/ DownloadChunk(s) \/ MarkDownloaded(s)
           \/ StartImport(s) \/ EndImport(s) \/ MarkImported(s)
    PROVE  TInv'
<1> DEFINE c == script[s]
           f == local_file[c.node]
<1>1. Facts(s) /\ (c.pc # "idle" => c.node \in Nodes)
  BY TypedPlaces
<1>2. /\ \A st \in 1 .. 7 : [task EXCEPT !.status = st] \in TaskRow
      /\ [task EXCEPT !.download_or_upload_status = TRUE] \in TaskRow
      /\ [task EXCEPT !.import_date_complate = TRUE, !.status = DOWNLOADCOMPLATE] \in TaskRow
  <2>1. task \in TaskRow
    BY <1>1 DEF Facts
  <2>2. \A st \in 1 .. 7 : [task EXCEPT !.status = st] \in TaskRow
    BY <2>1 DEF TaskRow
  <2>3. [task EXCEPT !.download_or_upload_status = TRUE] \in TaskRow
    BY <2>1 DEF TaskRow
  <2>4. [task EXCEPT !.import_date_complate = TRUE, !.status = DOWNLOADCOMPLATE] \in TaskRow
    <3>1. \A st \in 1 .. 7 :
             [task EXCEPT !.import_date_complate = TRUE, !.status = st] \in TaskRow
      BY <2>1 DEF TaskRow
    <3>2. QED
      BY <3>1 DEF DOWNLOADCOMPLATE
  <2>5. QED
    BY <2>2, <2>3, <2>4
<1>3. DOWNLOADFAILURE \in 1 .. 7
  BY DEF DOWNLOADFAILURE
<1>4. ASSUME Fail(s, DOWNLOADFAILURE),
             UNCHANGED <<remote_size, local_file, remote, base_image, os_image, died>>
      PROVE  TInv'
  BY <1>3, <1>4, FailTypes
<1>5. CASE PullExists(s)
  <2>1. CASE Fail(s, DOWNLOADFAILURE)
    BY <1>4, <1>5, <2>1 DEF PullExists, OnlyScript
  <2>2. CASE ~Fail(s, DOWNLOADFAILURE)
    BY <1>5, <2>2, GoingOnMoves, TypesKept DEF PullExists, ScriptAt, ScriptPcs, OnlyScript
  <2>3. QED
    BY <2>1, <2>2
<1>6. CASE DeleteLocalFile(s)
  <2>1. CASE Fail(s, DOWNLOADFAILURE) /\ UNCHANGED local_file
    BY <1>4, <1>6, <2>1 DEF DeleteLocalFile
  <2>2. CASE ~(Fail(s, DOWNLOADFAILURE) /\ UNCHANGED local_file)
    <3>1. /\ c.pc = "del_local" /\ c.node \in Nodes
          /\ local_file' = [local_file EXCEPT ![c.node] = NoFile]
          /\ script' = [script EXCEPT ![s] = [c EXCEPT !.pc = "download", !.offset = 0,
                                                       !.chunk = ReadChunk]]
          /\ UNCHANGED <<task, remote_size, remote, base_image, os_image, died>>
      BY <1>1, <1>6, <2>2 DEF DeleteLocalFile, ScriptAt
    <3>2. [c EXCEPT !.pc = "download", !.offset = 0, !.chunk = ReadChunk] \in ScriptState
      BY <1>1 DEF Facts, ScriptState, ScriptPcs
    <3>3. [c EXCEPT !.pc = "download", !.offset = 0, !.chunk = ReadChunk].node = c.node
      BY <1>1 DEF Facts, ScriptState
    <3>4. Moves(s)
      BY <1>1, <3>1, <3>2, <3>3 DEF Facts, Moves
    <3>5. local_file' \in [Nodes -> LocalFile]
      BY <1>1, <3>1, RestTypes DEF Facts
    <3>6. QED
      BY <3>1, <3>4, <3>5, TypesKept
  <2>3. QED
    BY <2>1, <2>2
<1>7. CASE DownloadChunk(s)
  <2>1. CASE Fail(s, DOWNLOADFAILURE) /\ UNCHANGED local_file
    BY <1>4, <1>7, <2>1 DEF DownloadChunk
  <2>2. CASE ~(Fail(s, DOWNLOADFAILURE) /\ UNCHANGED local_file)
    <3> DEFINE chunk == Least(c.chunk, remote_size)
               left == remote_size - c.offset
               next == IF left < chunk THEN left ELSE chunk
               size == Least(chunk, left)
               g == Appended(f, c.offset, size)
               e == [c EXCEPT !.chunk = next, !.offset = c.offset + next]
               m == [c EXCEPT !.pc = "mark_downloaded"]
    <3>1. /\ c.pc = "download" /\ c.node \in Nodes
          /\ local_file' = [local_file EXCEPT ![c.node] = g]
          /\ script' = [script EXCEPT ![s] = IF left < chunk THEN m ELSE e]
          /\ UNCHANGED <<task, remote_size, remote, base_image, os_image, died>>
      BY <1>1, <1>7, <2>2 DEF DownloadChunk, ScriptAt
    <3>2. c.chunk \in Nat /\ c.offset \in Nat /\ f \in LocalFile
      BY <1>1, <3>1 DEF Facts, ScriptState
    <3>3. chunk \in Nat /\ left \in Int
      BY <1>1, <3>2 DEF Facts, Least
    <3>4. left < chunk \/ (next \in Nat /\ c.offset + next \in Nat)
      BY <3>2, <3>3
    <3>5. m \in ScriptState /\ m.node = c.node
      BY <1>1 DEF Facts, ScriptState, ScriptPcs
    <3>6. left < chunk \/ (e \in ScriptState /\ e.node = c.node)
      BY <1>1, <3>4 DEF Facts, ScriptState
    <3> HIDE DEF m, e
    <3>7. Moves(s)
      BY <1>1, <3>1, <3>5, <3>6 DEF Facts, Moves
    <3>8. c.offset <= remote_size
      BY <3>1 DEF ScriptSound
    <3>9. size \in Nat
      BY <1>1, <3>2, <3>3, <3>8 DEF Least, Facts
    <3> HIDE DEF size
    <3>10. Least(f.n + size, 2 * remote_size) \in Nat
      BY <1>1, <3>2, <3>9 DEF Least, Facts, LocalFile
    <3>11. g \in LocalFile
      BY <3>2, <3>10 DEF Appended, LocalFile
    <3> HIDE DEF g
    <3>12. local_file' \in [Nodes -> LocalFile]
      BY <1>1, <3>1, <3>11 DEF Facts
    <3>13. QED
      BY <3>1, <3>7, <3>12, TypesKept
  <2>3. QED
    BY <2>1, <2>2
<1>8. CASE MarkDownloaded(s)
  BY <1>2, <1>8, SavesTypes DEF MarkDownloaded, Saves, ScriptPcs, ScriptAt
<1>9. CASE StartImport(s)
  <2>1. CASE Fail(s, DOWNLOADFAILURE) /\ UNCHANGED base_image
    BY <1>4, <1>9, <2>1 DEF StartImport
  <2>2. CASE ~(Fail(s, DOWNLOADFAILURE) /\ UNCHANGED base_image)
    <3>1. /\ c.pc = "import" /\ c.node \in Nodes /\ base_image' = "partial"
          /\ script' = [script EXCEPT ![s] = [c EXCEPT !.pc = "importing", !.opened = f]]
          /\ UNCHANGED <<task, remote_size, remote, local_file, os_image, died>>
      BY <1>1, <1>9, <2>2 DEF StartImport, ScriptAt
    <3>2. f \in LocalFile
      BY <1>1, <3>1 DEF Facts
    <3>3. [c EXCEPT !.pc = "importing", !.opened = f] \in ScriptState
      BY <1>1, <3>2 DEF Facts, ScriptState, ScriptPcs
    <3>4. [c EXCEPT !.pc = "importing", !.opened = f].node = c.node
      BY <1>1 DEF Facts, ScriptState
    <3>5. Moves(s)
      BY <1>1, <3>1, <3>3, <3>4 DEF Facts, Moves
    <3>6. QED
      BY <3>1, <3>5, TypesKept
  <2>3. QED
    BY <2>1, <2>2
<1>10. CASE EndImport(s)
  <2>1. CASE Fail(s, DOWNLOADFAILURE) /\ UNCHANGED base_image
    BY <1>4, <1>10, <2>1 DEF EndImport
  <2>2. CASE ~(Fail(s, DOWNLOADFAILURE) /\ UNCHANGED base_image)
    BY <1>10, <2>2, GoingOnMoves, TypesKept DEF EndImport, ScriptAt, ScriptPcs
  <2>3. QED
    BY <2>1, <2>2
<1>11. CASE MarkImported(s)
  BY <1>2, <1>11, SavesTypes DEF MarkImported, Saves, ScriptPcs, ScriptAt
<1>12. QED
  BY <1>5, <1>6, <1>7, <1>8, <1>9, <1>10, <1>11

\* The other steps of a script.
LEMMA PushTypes ==
    ASSUME TInv, NEW s \in Scripts, ScriptSound(s), UNCHANGED mirrorwork,
           \/ CreateOsImage(s) \/ MarkCreated(s) \/ CleanLocalFile(s)
           \/ DeletePushFile(s) \/ ExportImage(s) \/ UploadChunk(s) \/ MarkUploaded(s)
    PROVE  TInv'
<1> DEFINE c == script[s]
           f == local_file[c.node]
<1>1. Facts(s) /\ (c.pc # "idle" => c.node \in Nodes)
  BY TypedPlaces
<1>2. /\ \A st \in 1 .. 7 : [task EXCEPT !.create_os_image = TRUE, !.status = st] \in TaskRow
      /\ [task EXCEPT !.status = UPLOADCOMPLATE, !.download_or_upload_status = TRUE] \in TaskRow
      /\ task.status \in 1 .. 7
  <2>1. task \in TaskRow
    BY <1>1 DEF Facts
  <2>2. \A st \in 1 .. 7 : [task EXCEPT !.create_os_image = TRUE, !.status = st] \in TaskRow
    BY <2>1 DEF TaskRow
  <2>3. [task EXCEPT !.status = UPLOADCOMPLATE, !.download_or_upload_status = TRUE] \in TaskRow
    <3>1. \A st \in 1 .. 7 :
             [task EXCEPT !.status = st, !.download_or_upload_status = TRUE] \in TaskRow
      BY <2>1 DEF TaskRow
    <3>2. QED
      BY <3>1 DEF UPLOADCOMPLATE
  <2>4. task.status \in 1 .. 7
    BY <2>1 DEF TaskRow
  <2>5. QED
    BY <2>2, <2>3, <2>4
<1>3. DOWNLOADFAILURE \in 1 .. 7 /\ UPLOADFAILURE \in 1 .. 7 /\ DOWNLOADCOMPLATE \in 1 .. 7
  BY DEF DOWNLOADFAILURE, UPLOADFAILURE, DOWNLOADCOMPLATE
<1>4. ASSUME NEW st \in 1 .. 7, Fail(s, st),
             UNCHANGED <<remote_size, local_file, remote, base_image, os_image, died>>
      PROVE  TInv'
  BY <1>4, FailTypes
<1>5. ASSUME NEW pc \in ScriptPcs, ScriptTo(s, pc), c.pc # "idle",
             UNCHANGED <<task, remote_size, base_image, died>>,
             local_file' = local_file \/ local_file' \in [Nodes -> LocalFile],
             remote' = remote \/ remote' \in 0 .. remote_size,
             os_image' = os_image \/ os_image' \in BOOLEAN
      PROVE  TInv'
  BY <1>5, GoingOnMoves, TypesKept
<1>6. CASE CreateOsImage(s)
  BY <1>3, <1>4, <1>5, <1>6 DEF CreateOsImage, ScriptPcs
<1>7. CASE MarkCreated(s) \/ MarkUploaded(s)
  <2>1. OnlyScript /\ c.pc # "idle"
    BY <1>7 DEF MarkCreated, MarkUploaded, ScriptAt
  <2>2. CASE MarkCreated(s)
    <3>1. \E st \in 1 .. 7 : Save(s, [task EXCEPT !.create_os_image = TRUE, !.status = st], "clean")
      <4>1. PICK st \in 1 .. 7 : st = IF c.row.status = DOWNLOADFAILURE
                                      THEN DOWNLOADCOMPLATE ELSE task.status
        BY <1>2, <1>3
      <4>2. Save(s, [task EXCEPT !.create_os_image = TRUE, !.status = st], "clean")
        BY <2>2, <4>1 DEF MarkCreated
      <4>3. QED
        BY <4>2
    <3>2. Saves(s)
      BY <1>2, <3>1 DEF Saves, ScriptPcs
    <3>3. QED
      BY <2>1, <3>2, SavesTypes
  <2>3. CASE MarkUploaded(s)
    BY <1>2, <2>1, <2>3, SavesTypes DEF MarkUploaded, Saves, ScriptPcs
  <2>4. QED
    BY <1>7, <2>2, <2>3
<1>8. CASE CleanLocalFile(s)
  BY <1>1, <1>5, <1>8, RestTypes DEF CleanLocalFile, Facts, ScriptAt, ScriptPcs
<1>9. CASE DeletePushFile(s)
  <2>1. CASE Fail(s, UPLOADFAILURE) /\ UNCHANGED local_file
    BY <1>3, <1>4, <1>9, <2>1 DEF DeletePushFile
  <2>2. CASE ~(Fail(s, UPLOADFAILURE) /\ UNCHANGED local_file)
    BY <1>1, <1>5, <1>9, <2>2, RestTypes DEF DeletePushFile, ScriptAt, Facts, ScriptPcs
  <2>3. QED
    BY <2>1, <2>2
<1>10. CASE ExportImage(s)
  <2>1. CASE Fail(s, UPLOADFAILURE) /\ UNCHANGED local_file
    BY <1>3, <1>4, <1>10, <2>1 DEF ExportImage
  <2>2. CASE ~(Fail(s, UPLOADFAILURE) /\ UNCHANGED local_file)
    <3>1. /\ c.pc = "export" /\ c.node \in Nodes
          /\ local_file' = [local_file EXCEPT ![c.node] = [n |-> remote_size, is |-> "good"]]
          /\ script' = [script EXCEPT ![s] = [c EXCEPT !.pc = "upload", !.offset = 0]]
          /\ UNCHANGED <<task, remote_size, remote, base_image, os_image, died>>
      BY <1>1, <1>10, <2>2 DEF ExportImage, ScriptAt
    <3>2. [c EXCEPT !.pc = "upload", !.offset = 0] \in ScriptState
      BY <1>1 DEF Facts, ScriptState, ScriptPcs
    <3>3. [c EXCEPT !.pc = "upload", !.offset = 0].node = c.node
      BY <1>1 DEF Facts, ScriptState
    <3>4. Moves(s)
      BY <1>1, <3>1, <3>2, <3>3 DEF Facts, Moves
    <3>5. [n |-> remote_size, is |-> "good"] \in LocalFile
      BY <1>1 DEF Facts, LocalFile
    <3>6. local_file' \in [Nodes -> LocalFile]
      BY <1>1, <3>1, <3>5 DEF Facts
    <3>7. QED
      BY <3>1, <3>4, <3>6, TypesKept
  <2>3. QED
    BY <2>1, <2>2
<1>11. CASE UploadChunk(s)
  <2> DEFINE size == Least(ReadChunk, f.n - c.offset)
             e == [c EXCEPT !.offset = c.offset + size]
  <2>1. /\ c.pc = "upload" /\ c.node \in Nodes
        /\ UNCHANGED <<remote_size, local_file, base_image, os_image, died>>
    BY <1>1, <1>11 DEF UploadChunk, ScriptAt
  <2>2. f.n = remote_size /\ c.offset \in Nat
    BY <1>1, <2>1 DEF ScriptSound, Facts, ScriptState
  <2>3. size \in Int /\ c.offset + size <= remote_size
    BY <1>1, <2>2 DEF Least, Facts
  <2> HIDE DEF size
  <2>4. CASE Fail(s, UPLOADFAILURE) /\ UNCHANGED remote
    BY <1>3, <1>4, <2>1, <2>4
  <2>5. CASE ScriptTo(s, "mark_uploaded") /\ UNCHANGED <<task, remote>>
    BY <1>5, <2>1, <2>5 DEF ScriptPcs
  <2>6. CASE /\ size > 0 /\ UNCHANGED task
             /\ remote' = IF c.offset + size > remote THEN c.offset + size ELSE remote
             /\ script' = [script EXCEPT ![s] = e]
    <3>1. remote' \in 0 .. remote_size
      BY <1>1, <2>2, <2>3, <2>6 DEF Facts
    <3>2. c.offset + size \in Nat
      BY <2>2, <2>3, <2>6
    <3>3. e \in ScriptState /\ e.node = c.node
      BY <1>1, <3>2 DEF Facts, ScriptState
    <3> HIDE DEF e
    <3>4. Moves(s)
      BY <1>1, <2>1, <2>6, <3>3 DEF Facts, Moves
    <3>5. QED
      BY <2>1, <2>6, <3>1, <3>4, TypesKept
  <2>7. QED
    BY <1>11, <2>4, <2>5, <2>6 DEF UploadChunk, size
<1>12. QED
  BY <1>6, <1>7, <1>8, <1>9, <1>10, <1>11

-----------------------------------------------------------------------------
(* What is imported, offered and uploaded. *)

OneScript ==
    \A s, x \in Scripts : script[s].pc # "idle" /\ script[x].pc # "idle" => s = x

\* What the rows say of the rbd image and of the mirror.
TaskSound ==
    /\ task.live /\ task.import_date_complate => base_image = "whole"
    /\ os_image => base_image = "whole"
    /\ task.live /\ task.status = UPLOADCOMPLATE => remote = remote_size \/ Unread

MirrorInv ==
    /\ TInv
    /\ OneScript
    /\ \A s \in Scripts : ScriptSound(s)
    /\ TaskSound

\* What a script that saves the row does.
LEMMA SavesFacts ==
    ASSUME TInv, NEW s \in Scripts, NEW row \in TaskRow, NEW pc \in ScriptPcs, Save(s, row, pc)
    PROVE  \/ /\ task.live /\ task' = row /\ script'[s].pc = pc
              /\ pc # "idle" =>
                    /\ script'[s].op = script[s].op /\ script'[s].node = script[s].node
                    /\ script'[s].row = script[s].row /\ script'[s].offset = script[s].offset
                    /\ script'[s].chunk = script[s].chunk
                    /\ script'[s].opened = script[s].opened
           \/ ~task.live /\ task' = task /\ script'[s].pc = "idle"
<1>1. "idle" \in ScriptPcs
  BY DEF ScriptPcs
<1>2. CASE task.live /\ task' = row /\ ScriptTo(s, pc)
  BY <1>2, ScriptGoesOn
<1>3. CASE ~task.live /\ task' = task /\ ScriptTo(s, "idle")
  BY <1>1, <1>3, ScriptGoesOn
<1>4. QED
  BY <1>2, <1>3, Saved

\* A script that is not at work says nothing.
LEMMA IdleSound ==
    ASSUME NEW s \in Scripts, script'[s].pc = "idle"
    PROVE  ScriptSound(s)'
BY DEF ScriptSound

\* A script that fails says so, and ends.
LEMMA FailSound ==
    ASSUME MirrorInv, NEW s \in Scripts, NEW st \in {DOWNLOADFAILURE, UPLOADFAILURE}, Fail(s, st),
           UNCHANGED <<remote_size, local_file, remote, base_image, os_image, died>>, Unread' = Unread
    PROVE  ScriptSound(s)' /\ TaskSound'
<1>1. st \in 1 .. 7 /\ st # UPLOADCOMPLATE
  BY DEF DOWNLOADFAILURE, UPLOADFAILURE, UPLOADCOMPLATE
<1>2. /\ script'[s].pc = "idle"
      /\ IF task.live THEN task' = [task EXCEPT !.status = st] ELSE task' = task
  BY <1>1, Failed DEF MirrorInv
<1>3. task' = task \/ (/\ task'.import_date_complate = task.import_date_complate
                       /\ task'.live = task.live /\ task'.status = st)
  BY <1>2 DEF MirrorInv, TInv, MirrorTypeOK, TaskRow
<1>4. TaskSound'
  BY <1>1, <1>3 DEF MirrorInv, TaskSound
<1>5. QED
  BY <1>2, <1>4, IdleSound

\* main, what loacl_node_run_server makes of the row, and a kill.
LEMMA BeginSound ==
    ASSUME MirrorInv, NEW s \in Scripts, Unread' = Unread,
           Killed(s) \/ LoadTask(s) \/ RefuseTask(s) \/ RetryPull(s) \/ RetryPush(s) \/ BeginTask(s)
    PROVE  ScriptSound(s)' /\ TaskSound'
<1> DEFINE c == script[s]
           e == script'[s]
<1>1. /\ TInv /\ Facts(s) /\ (c.pc # "idle" => c.node \in Nodes)
      /\ ScriptSound(s) /\ TaskSound
  BY TypedPlaces DEF MirrorInv
<1>2. CASE Killed(s)
  BY <1>1, <1>2, ScriptGoesOn, IdleSound DEF Killed, ScriptPcs, TaskSound
<1>3. CASE LoadTask(s)
  <2>1. TaskSound'
    BY <1>1, <1>3 DEF LoadTask, OnlyScript, TaskSound
  <2>2. CASE task.live
    <3>1. e = [c EXCEPT !.row = task, !.pc = "begin"]
      BY <1>1, <1>3, <2>2 DEF LoadTask, Facts
    <3>2. e.pc = "begin" /\ e.row = task
      BY <1>1, <3>1 DEF Facts, ScriptState
    <3>3. task.import_date_complate => base_image = "whole"
      BY <1>1, <2>2 DEF TaskSound
    <3>4. base_image' = base_image
      BY <1>3 DEF LoadTask, OnlyScript
    <3>5. ScriptSound(s)'
      BY <3>2, <3>3, <3>4 DEF ScriptSound
    <3>6. QED
      BY <2>1, <3>5
  <2>3. CASE ~task.live
    BY <1>1, <1>3, <2>1, <2>3, IdleSound DEF LoadTask, Facts, NoScript
  <2>4. QED
    BY <2>2, <2>3
<1>4. CASE RefuseTask(s)
  BY <1>4, FailSound DEF RefuseTask, OnlyScript
<1>5. CASE RetryPull(s) \/ RetryPush(s) \/ BeginTask(s)
  <2>1. c.pc = "begin" /\ c.node \in Nodes /\ OnlyScript
    BY <1>1, <1>5 DEF RetryPull, RetryPush, BeginTask, Accepted, ScriptAt
  <2>2. ASSUME NEW row \in TaskRow,
               row.import_date_complate = task.import_date_complate,
               row.status # UPLOADCOMPLATE \/ row.status = task.status,
               NEW pc \in {"exists", "recreate_os", "idle", "del_push"}, Save(s, row, pc),
               pc = "recreate_os" => c.row.import_date_complate
        PROVE  ScriptSound(s)' /\ TaskSound'
    <3>1. pc \in ScriptPcs
      BY DEF ScriptPcs
    <3>2. \/ task.live /\ task' = row /\ e.pc = pc /\ (pc # "idle" => e.row = c.row)
          \/ ~task.live /\ task' = task /\ e.pc = "idle"
      BY <1>1, <2>2, <3>1, SavesFacts
    <3>3. TaskSound'
      BY <1>1, <2>1, <2>2, <3>2 DEF TaskSound, OnlyScript
    <3>4. CASE e.pc = "idle"
      BY <3>3, <3>4, IdleSound
    <3>5. CASE e.pc # "idle"
      BY <1>1, <2>1, <2>2, <3>2, <3>3, <3>5 DEF ScriptSound, OnlyScript
    <3>6. QED
      BY <3>4, <3>5
  <2>3. task \in TaskRow
    BY <1>1 DEF Facts
  <2>4. ASSUME NEW st \in {DOWNLOADING, UPLOADING, DOWNLOADCOMPLATE}
        PROVE  /\ [task EXCEPT !.status = st] \in TaskRow
               /\ [task EXCEPT !.status = st].import_date_complate = task.import_date_complate
               /\ [task EXCEPT !.status = st].status # UPLOADCOMPLATE
    BY <2>3 DEF TaskRow, DOWNLOADING, UPLOADING, DOWNLOADCOMPLATE, UPLOADCOMPLATE
  <2>5. /\ [task EXCEPT !.local_hostname = c.node] \in TaskRow
        /\ [task EXCEPT !.local_hostname = c.node].import_date_complate = task.import_date_complate
        /\ [task EXCEPT !.local_hostname = c.node].status = task.status
    BY <2>1, <2>3 DEF TaskRow
  <2>6. CASE RetryPull(s)
    BY <2>2, <2>4, <2>5, <2>6 DEF RetryPull
  <2>7. CASE RetryPush(s)
    BY <2>2, <2>4, <2>5, <2>7 DEF RetryPush
  <2>8. CASE BeginTask(s)
    <3>1. \/ ScriptTo(s, "idle") /\ UNCHANGED task
          \/ \E pc \in {"exists", "del_push"} : \E st \in {DOWNLOADING, UPLOADING} :
                Save(s, [task EXCEPT !.status = st], pc)
      BY <2>8 DEF BeginTask
    <3>2. CASE ScriptTo(s, "idle") /\ UNCHANGED task
      BY <1>1, <2>1, <3>2, ScriptGoesOn, IdleSound DEF ScriptPcs, TaskSound, OnlyScript
    <3>3. QED
      BY <2>2, <2>4, <3>1, <3>2
  <2>9. QED
    BY <1>5, <2>6, <2>7, <2>8
<1>6. QED
  BY <1>2, <1>3, <1>4, <1>5

\* The steps of a pull, up to the mark that the image was imported.
LEMMA PullSound ==
    ASSUME MirrorInv, NEW s \in Scripts, UNCHANGED remote_size, Unread' = Unread,
           \/ PullExists(s) \/ DeleteLocalFile(s) \/ DownloadChunk(s) \/ MarkDownloaded(s)
           \/ StartImport(s) \/ EndImport(s) \/ MarkImported(s)
    PROVE  ScriptSound(s)' /\ TaskSound'
<1> DEFINE c == script[s]
           e == script'[s]
           f == local_file[c.node]
           Failing == /\ Fail(s, DOWNLOADFAILURE)
                      /\ UNCHANGED <<local_file, remote, base_image, os_image, died>>
<1>1. /\ TInv /\ Facts(s) /\ (c.pc # "idle" => c.node \in Nodes)
      /\ ScriptSound(s) /\ TaskSound /\ task \in TaskRow
  BY TypedPlaces DEF MirrorInv, Facts
<1>2. ASSUME Failing
      PROVE  ScriptSound(s)' /\ TaskSound'
  BY <1>2, FailSound
<1>3. CASE PullExists(s)
  <2>1. c.pc = "exists" /\ OnlyScript
    BY <1>3 DEF PullExists, ScriptAt
  <2>2. CASE ~Failing
    BY <1>1, <1>3, <2>1, <2>2, ScriptGoesOn DEF PullExists, OnlyScript, ScriptPcs, ScriptSound, TaskSound
  <2>3. QED
    BY <1>2, <2>2
<1>4. CASE DeleteLocalFile(s)
  <2>1. CASE ~Failing
    <3>1. /\ c.pc = "del_local" /\ c.node \in Nodes
          /\ local_file' = [local_file EXCEPT ![c.node] = NoFile]
          /\ script' = [script EXCEPT ![s] = [c EXCEPT !.pc = "download", !.offset = 0,
                                                       !.chunk = ReadChunk]]
          /\ UNCHANGED <<task, remote_size, remote, base_image, os_image, died>>
      BY <1>1, <1>4, <2>1 DEF DeleteLocalFile, ScriptAt
    <3>2. /\ e.pc = "download" /\ e.offset = 0 /\ e.chunk = ReadChunk
          /\ e.row = c.row /\ e.node = c.node
      BY <1>1, <3>1 DEF Facts, ScriptState
    <3>3. local_file'[e.node] = [n |-> 0, is |-> "good"]
      BY <1>1, <3>1, <3>2 DEF Facts, NoFile
    <3>4. c.row.import_date_complate => base_image' = "whole"
      BY <1>1, <3>1 DEF ScriptSound
    <3>5. 0 <= remote_size /\ ReadChunk > 0
      BY <1>1 DEF Facts
    <3>6. ScriptSound(s)'
      BY <3>1, <3>2, <3>3, <3>4, <3>5 DEF ScriptSound
    <3>7. TaskSound'
      BY <1>1, <3>1 DEF TaskSound
    <3>8. QED
      BY <3>6, <3>7
  <2>2. QED
    BY <1>2, <1>4, <2>1 DEF DeleteLocalFile
<1>5. CASE DownloadChunk(s)
  <2>1. CASE ~Failing
    <3> DEFINE chunk == Least(c.chunk, remote_size)
               left == remote_size - c.offset
               next == IF left < chunk THEN left ELSE chunk
               size == Least(chunk, left)
               g == Appended(f, c.offset, size)
    <3>1. /\ c.pc = "download" /\ c.node \in Nodes
          /\ local_file' = [local_file EXCEPT ![c.node] = g]
          /\ script' = [script EXCEPT ![s] = IF left < chunk THEN [c EXCEPT !.pc = "mark_downloaded"]
                             ELSE [c EXCEPT !.chunk = next, !.offset = c.offset + next]]
          /\ UNCHANGED <<task, remote_size, remote, base_image, os_image, died>>
      BY <1>1, <1>5, <2>1 DEF DownloadChunk, ScriptAt
    <3>2. /\ f = [n |-> c.offset, is |-> "good"] /\ c.offset <= remote_size /\ c.chunk > 0
          /\ c.offset \in Nat /\ c.chunk \in Nat /\ remote_size \in Nat \ {0}
          /\ c.row.import_date_complate => base_image' = "whole"
      BY <1>1, <3>1 DEF ScriptSound, Facts, ScriptState
    <3>3. chunk \in Nat \ {0} /\ left \in Nat
      BY <3>2 DEF Least
    <3>4. size \in Nat /\ size <= left /\ (left < chunk => size = left)
          /\ (~(left < chunk) => size = chunk)
      BY <3>3 DEF Least
    <3> HIDE DEF chunk, size
    <3>5. g = [n |-> c.offset + size, is |-> "good"]
      <4>1. f.n = c.offset /\ f.is = "good"
        BY <3>2
      <4>2. CASE size = 0
        BY <3>2, <4>2 DEF Appended
      <4>3. CASE size # 0
        BY <3>2, <3>4, <4>1, <4>3 DEF Least, Appended
      <4>4. QED
        BY <4>2, <4>3
    <3> HIDE DEF g
    <3>6. local_file'[c.node] = [n |-> c.offset + size, is |-> "good"]
      BY <1>1, <3>1, <3>5 DEF Facts
    <3>7. TaskSound'
      BY <1>1, <3>1 DEF TaskSound
    <3>8. CASE left < chunk
      BY <1>1, <3>1, <3>2, <3>4, <3>6, <3>7, <3>8 DEF Facts, ScriptState, Whole, ScriptSound
    <3>9. CASE ~(left < chunk)
      BY <1>1, <3>1, <3>2, <3>3, <3>4, <3>6, <3>7, <3>9 DEF Facts, ScriptState, ScriptSound
    <3>10. QED
      BY <3>8, <3>9
  <2>2. QED
    BY <1>2, <1>5, <2>1 DEF DownloadChunk
<1>6. CASE MarkDownloaded(s)
  <2> DEFINE row == [task EXCEPT !.download_or_upload_status = TRUE]
  <2>1. c.pc = "mark_downloaded" /\ OnlyScript /\ Save(s, row, "import")
    BY <1>6 DEF MarkDownloaded, ScriptAt
  <2>2. /\ row \in TaskRow /\ row.import_date_complate = task.import_date_complate
        /\ row.status = task.status /\ row.live = task.live
    BY <1>1 DEF TaskRow
  <2> HIDE DEF row
  <2>3. \/ task' = row /\ e.pc = "import" /\ e.row = c.row /\ e.node = c.node
        \/ task' = task /\ e.pc = "idle"
    BY <1>1, <2>1, <2>2, SavesFacts DEF ScriptPcs
  <2>4. TaskSound'
    BY <1>1, <2>1, <2>2, <2>3 DEF TaskSound, OnlyScript
  <2>5. e.pc = "import" => ScriptSound(s)'
    BY <1>1, <2>1, <2>3 DEF ScriptSound, Whole, OnlyScript
  <2>6. QED
    BY <2>3, <2>4, <2>5, IdleSound
<1>7. CASE StartImport(s)
  <2>1. CASE ~Failing
    <3>1. /\ c.pc = "import" /\ c.node \in Nodes /\ base_image = "none" /\ base_image' = "partial"
          /\ script' = [script EXCEPT ![s] = [c EXCEPT !.pc = "importing", !.opened = f]]
          /\ UNCHANGED <<task, remote_size, remote, local_file, os_image, died>>
      BY <1>1, <1>7, <2>1 DEF StartImport, ScriptAt
    <3>2. e.pc = "importing" /\ e.opened = f /\ e.row = c.row
      BY <1>1, <3>1 DEF Facts, ScriptState
    <3>3. Whole(f) /\ ~c.row.import_date_complate
      BY <1>1, <3>1 DEF ScriptSound
    <3>4. Whole(script[s].opened)'
      BY <3>1, <3>2, <3>3 DEF Whole
    <3>5. ScriptSound(s)'
      BY <3>1, <3>2, <3>3, <3>4 DEF ScriptSound
    <3>6. TaskSound'
      BY <1>1, <3>1 DEF TaskSound
    <3>7. QED
      BY <3>5, <3>6
  <2>2. QED
    BY <1>2, <1>7, <2>1 DEF StartImport
<1>8. CASE EndImport(s)
  <2>1. CASE ~Failing
    <3>1. c.pc = "importing" /\ Whole(c.opened)
      BY <1>1, <1>8 DEF EndImport, ScriptAt, ScriptSound
    <3>2. /\ ScriptTo(s, "mark_imported") /\ base_image' = "whole"
          /\ UNCHANGED <<task, remote_size, remote, local_file, os_image, died>>
      BY <1>8, <2>1, <3>1 DEF EndImport
    <3>3. e.pc = "mark_imported"
      BY <1>1, <3>2, ScriptGoesOn DEF ScriptPcs
    <3>4. ScriptSound(s)'
      BY <3>2, <3>3 DEF ScriptSound
    <3>5. TaskSound'
      BY <1>1, <3>2 DEF TaskSound
    <3>6. QED
      BY <3>4, <3>5
  <2>2. QED
    BY <1>2, <1>8, <2>1 DEF EndImport
<1>9. CASE MarkImported(s)
  <2> DEFINE row == [task EXCEPT !.import_date_complate = TRUE, !.status = DOWNLOADCOMPLATE]
  <2>1. c.pc = "mark_imported" /\ OnlyScript /\ Save(s, row, "create_os") /\ base_image = "whole"
    BY <1>1, <1>9 DEF MarkImported, ScriptAt, ScriptSound
  <2>2. row \in TaskRow /\ row.status = DOWNLOADCOMPLATE
    <3>1. \A st \in 1 .. 7 :
             /\ [task EXCEPT !.import_date_complate = TRUE, !.status = st] \in TaskRow
             /\ [task EXCEPT !.import_date_complate = TRUE, !.status = st].status = st
      BY <1>1 DEF TaskRow
    <3>2. QED
      BY <3>1 DEF DOWNLOADCOMPLATE
  <2> HIDE DEF row
  <2>3. \/ task' = row /\ e.pc = "create_os"
        \/ task' = task /\ e.pc = "idle"
    BY <1>1, <2>1, <2>2, SavesFacts DEF ScriptPcs
  <2>4. DOWNLOADCOMPLATE # UPLOADCOMPLATE
    BY DEF DOWNLOADCOMPLATE, UPLOADCOMPLATE
  <2>5. TaskSound'
    BY <1>1, <2>1, <2>2, <2>3, <2>4 DEF TaskSound, OnlyScript
  <2>6. e.pc = "create_os" => ScriptSound(s)'
    BY <2>1 DEF ScriptSound, OnlyScript
  <2>7. QED
    BY <2>3, <2>5, <2>6, IdleSound
<1>10. QED
  BY <1>3, <1>4, <1>5, <1>6, <1>7, <1>8, <1>9

\* The Image row, the end of the work, and the steps of a push.
LEMMA PushSound ==
    ASSUME MirrorInv, NEW s \in Scripts, UNCHANGED remote_size, Unread' = Unread,
           \/ CreateOsImage(s) \/ MarkCreated(s) \/ CleanLocalFile(s)
           \/ DeletePushFile(s) \/ ExportImage(s) \/ UploadChunk(s) \/ MarkUploaded(s)
    PROVE  ScriptSound(s)' /\ TaskSound'
<1> DEFINE c == script[s]
           e == script'[s]
           f == local_file[c.node]
           Failing == /\ \E st \in {DOWNLOADFAILURE, UPLOADFAILURE} : Fail(s, st)
                      /\ UNCHANGED <<local_file, remote, base_image, os_image, died>>
<1>1. /\ TInv /\ Facts(s) /\ (c.pc # "idle" => c.node \in Nodes)
      /\ ScriptSound(s) /\ TaskSound /\ task \in TaskRow
  BY TypedPlaces DEF MirrorInv, Facts
<1>2. ASSUME Failing
      PROVE  ScriptSound(s)' /\ TaskSound'
  BY <1>2, FailSound
<1>3. CASE CreateOsImage(s)
  <2>1. CASE ~Failing
    <3>1. /\ c.pc \in {"create_os", "recreate_os"} /\ ScriptTo(s, "mark_created")
          /\ UNCHANGED <<task, remote_size, local_file, remote, base_image, died>>
      BY <1>3, <2>1 DEF CreateOsImage
    <3>2. base_image = "whole" /\ base_image' = "whole"
      BY <1>1, <3>1 DEF ScriptSound
    <3>3. e.pc = "mark_created"
      BY <1>1, <3>1, ScriptGoesOn DEF ScriptPcs
    <3>4. ScriptSound(s)'
      BY <3>2, <3>3 DEF ScriptSound
    <3>5. TaskSound'
      BY <1>1, <3>1, <3>2 DEF TaskSound
    <3>6. QED
      BY <3>4, <3>5
  <2>2. QED
    BY <1>2, <1>3, <2>1 DEF CreateOsImage
<1>4. CASE MarkCreated(s)
  <2>1. PICK st : st = IF c.row.status = DOWNLOADFAILURE THEN DOWNLOADCOMPLATE ELSE task.status
    OBVIOUS
  <2> DEFINE row == [task EXCEPT !.create_os_image = TRUE, !.status = st]
  <2>2. c.pc = "mark_created" /\ OnlyScript /\ Save(s, row, "clean") /\ base_image = "whole"
    BY <1>1, <1>4, <2>1 DEF MarkCreated, ScriptAt, ScriptSound
  <2>3. st \in 1 .. 7
    BY <1>1, <2>1 DEF TaskRow, DOWNLOADCOMPLATE
  <2>4. row \in TaskRow /\ row.status = st /\ row.live = task.live
    BY <1>1, <2>3 DEF TaskRow
  <2>5. st = UPLOADCOMPLATE => task.status = UPLOADCOMPLATE
    BY <2>1 DEF DOWNLOADCOMPLATE, UPLOADCOMPLATE
  <2> HIDE DEF row
  <2>6. \/ task' = row /\ e.pc = "clean"
        \/ task' = task /\ e.pc = "idle"
    BY <1>1, <2>2, <2>4, SavesFacts DEF ScriptPcs
  <2>7. TaskSound'
    BY <1>1, <2>2, <2>4, <2>5, <2>6 DEF TaskSound, OnlyScript
  <2>8. e.pc = "clean" => ScriptSound(s)'
    BY <2>2 DEF ScriptSound, OnlyScript
  <2>9. QED
    BY <2>6, <2>7, <2>8, IdleSound
<1>5. CASE CleanLocalFile(s)
  BY <1>1, <1>5, ScriptGoesOn, IdleSound DEF CleanLocalFile, ScriptPcs, TaskSound
<1>6. CASE DeletePushFile(s)
  <2>1. CASE ~Failing
    BY <1>1, <1>6, <2>1, ScriptGoesOn DEF DeletePushFile, ScriptAt, ScriptPcs, ScriptSound, TaskSound
  <2>2. QED
    BY <1>2, <1>6, <2>1 DEF DeletePushFile
<1>7. CASE ExportImage(s)
  <2>1. CASE ~Failing
    <3>1. /\ c.pc = "export" /\ c.node \in Nodes
          /\ local_file' = [local_file EXCEPT ![c.node] = [n |-> remote_size, is |-> "good"]]
          /\ script' = [script EXCEPT ![s] = [c EXCEPT !.pc = "upload", !.offset = 0]]
          /\ UNCHANGED <<task, remote_size, remote, base_image, os_image, died>>
      BY <1>1, <1>7, <2>1 DEF ExportImage, ScriptAt
    <3>2. e.pc = "upload" /\ e.offset = 0 /\ e.row = c.row /\ e.node = c.node
      BY <1>1, <3>1 DEF Facts, ScriptState
    <3>3. local_file'[e.node].n = remote_size /\ 0 <= remote
      BY <1>1, <3>1, <3>2 DEF Facts
    <3>4. c.row.import_date_complate => base_image' = "whole"
      BY <1>1, <3>1 DEF ScriptSound
    <3>5. ScriptSound(s)'
      BY <3>1, <3>2, <3>3, <3>4 DEF ScriptSound
    <3>6. TaskSound'
      BY <1>1, <3>1 DEF TaskSound
    <3>7. QED
      BY <3>5, <3>6
  <2>2. QED
    BY <1>2, <1>7, <2>1 DEF ExportImage
<1>8. CASE UploadChunk(s)
  <2> DEFINE size == Least(ReadChunk, f.n - c.offset)
  <2>1. /\ c.pc = "upload" /\ c.node \in Nodes
        /\ UNCHANGED <<remote_size, local_file, base_image, os_image, died>>
    BY <1>1, <1>8 DEF UploadChunk, ScriptAt
  <2>2. /\ f.n = remote_size /\ c.offset \in Nat /\ c.offset <= remote
        /\ c.row.import_date_complate => base_image' = "whole"
        /\ remote \in 0 .. remote_size /\ remote_size \in Nat /\ ReadChunk \in Nat \ {0}
    BY <1>1, <2>1 DEF ScriptSound, Facts, ScriptState
  <2>3. size \in Int /\ c.offset + size <= remote_size
        /\ (size <= 0 => c.offset >= remote_size)
    BY <2>2 DEF Least
  <2> HIDE DEF size
  <2>4. CASE Failing
    BY <1>2, <2>4
  <2>5. CASE (size <= 0 \/ Unread) /\ ScriptTo(s, "mark_uploaded") /\ UNCHANGED <<task, remote>>
    BY <1>1, <2>1, <2>2, <2>3, <2>5, ScriptGoesOn DEF ScriptPcs, ScriptSound, TaskSound
  <2>6. CASE /\ size > 0 /\ UNCHANGED task
             /\ remote' = IF c.offset + size > remote THEN c.offset + size ELSE remote
             /\ script' = [script EXCEPT ![s] = [c EXCEPT !.offset = c.offset + size]]
    BY <1>1, <2>1, <2>2, <2>3, <2>6 DEF Facts, ScriptState, ScriptSound, TaskSound
  <2>7. QED
    BY <1>8, <2>1, <2>4, <2>5, <2>6 DEF UploadChunk, Unread, size
<1>9. CASE MarkUploaded(s)
  <2> DEFINE row == [task EXCEPT !.status = UPLOADCOMPLATE, !.download_or_upload_status = TRUE]
  <2>1. /\ c.pc = "mark_uploaded" /\ OnlyScript /\ Save(s, row, "clean")
        /\ remote = remote_size \/ Unread
    BY <1>1, <1>9 DEF MarkUploaded, ScriptAt, ScriptSound
  <2>2. /\ row \in TaskRow /\ row.import_date_complate = task.import_date_complate
        /\ row.live = task.live
    <3>1. \A st \in 1 .. 7 :
             [task EXCEPT !.status = st, !.download_or_upload_status = TRUE] \in TaskRow
      BY <1>1 DEF TaskRow
    <3>2. QED
      BY <1>1, <3>1 DEF TaskRow, UPLOADCOMPLATE
  <2> HIDE DEF row
  <2>3. \/ task' = row /\ e.pc = "clean" /\ e.row = c.row
        \/ task' = task /\ e.pc = "idle"
    BY <1>1, <2>1, <2>2, SavesFacts DEF ScriptPcs
  <2>4. TaskSound'
    BY <1>1, <2>1, <2>2, <2>3 DEF TaskSound, OnlyScript
  <2>5. e.pc = "clean" => ScriptSound(s)'
    BY <1>1, <2>1, <2>3 DEF ScriptSound, OnlyScript
  <2>6. QED
    BY <2>3, <2>4, <2>5, IdleSound
<1>10. QED
  BY <1>3, <1>4, <1>5, <1>6, <1>7, <1>8, <1>9

\* A script is started when none is at work.
LEMMA ExecuteFacts ==
    ASSUME Alone, TInv, NEW n \in Nodes, NEW op \in {"pull", "push"}, execute_task(n, op)
    PROVE  /\ \A x \in Scripts : script[x].pc = "idle"
           /\ \E s \in Scripts :
                 /\ script'[s].pc = "load" /\ Moves(s)
                 /\ UNCHANGED <<remote_size, task, local_file, remote, base_image, os_image, died>>
<1>1. ~mirrorwork.meet
  BY DEF Alone, TInv, MirrorTypeOK
<1>2. \A x \in Scripts : script[x].pc = "idle"
  BY <1>1 DEF execute_task
<1> DEFINE new == [NoScript EXCEPT !.pc = "load", !.op = op, !.node = n]
<1>3. PICK s \in Scripts : script' = [script EXCEPT ![s] = new]
  BY DEF execute_task
<1>4. new \in ScriptState /\ new.pc = "load" /\ new.node = n
  BY RestTypes DEF NoScript, ScriptState, ScriptPcs
<1> HIDE DEF new
<1>5. script'[s].pc = "load" /\ Moves(s)
  BY <1>3, <1>4 DEF Moves, TInv, MirrorTypeOK
<1>6. QED
  BY <1>2, <1>5 DEF execute_task

\* `start` takes a task for a pull or a push.
LEMMA StartedAsOps == \A op \in StartedAs : op \in {"pull", "push"}
BY DEF StartedAs

\* A step of the interface, of the task alone or to start a script.
LEMMA InterfaceSound ==
    ASSUME Alone, MirrorInv, UNCHANGED mirrorwork,
           \/ StopTask \/ DeleteTask
           \/ \E n \in Nodes : StartTask(n) \/ ForceStart(n)
           \/ \E n \in Nodes : AddPull(n) \/ AddPush(n)
    PROVE  MirrorInv'
<1>1. /\ TInv /\ OneScript /\ (\A s \in Scripts : ScriptSound(s)) /\ TaskSound /\ task \in TaskRow
      /\ Unread' = Unread
  BY DEF MirrorInv, TInv, MirrorTypeOK, Unread, Fails
<1>2. CASE StopTask \/ DeleteTask
  <2>1. /\ task' \in TaskRow
        /\ \/ ~task'.live
           \/ /\ task'.live = task.live /\ task'.status = NONESTATUS
              /\ task'.import_date_complate = task.import_date_complate
    <3>1. CASE StopTask
      <4>1. \A st \in 1 .. 7 : [task EXCEPT !.status = st] \in TaskRow
        BY <1>1 DEF TaskRow
      <4>2. task' = [task EXCEPT !.status = NONESTATUS] /\ NONESTATUS \in 1 .. 7
        BY <3>1 DEF StopTask, NONESTATUS
      <4>3. task' \in TaskRow
        BY <4>1, <4>2
      <4>4. /\ task'.status = NONESTATUS /\ task'.live = task.live
            /\ task'.import_date_complate = task.import_date_complate
        BY <1>1, <4>2 DEF TaskRow
      <4>5. QED
        BY <4>3, <4>4
    <3>2. CASE DeleteTask
      BY <3>2, RestTypes DEF DeleteTask, NoTask
    <3>3. QED
      BY <1>2, <3>1, <3>2
  <2>2. OnlyTask
    BY <1>2 DEF StopTask, DeleteTask
  <2>3. TInv'
    BY <1>1, <2>1, <2>2 DEF TInv, MirrorTypeOK, NodesKnown, OnlyTask
  <2>4. OneScript' /\ \A s \in Scripts : ScriptSound(s)'
    BY <1>1, <2>2 DEF OneScript, ScriptSound, Whole, OnlyTask
  <2>5. NONESTATUS # UPLOADCOMPLATE
    BY DEF NONESTATUS, UPLOADCOMPLATE
  <2>6. TaskSound'
    BY <1>1, <2>1, <2>2, <2>5 DEF TaskSound, OnlyTask
  <2>7. QED
    BY <2>3, <2>4, <2>6 DEF MirrorInv
<1>3. ASSUME NEW n \in Nodes, StartTask(n) \/ ForceStart(n)
      PROVE  MirrorInv'
  <2>1. \E op \in {"pull", "push"} : execute_task(n, op)
    BY <1>3, StartedAsOps DEF StartTask, ForceStart
  <2>2. \A x \in Scripts : script[x].pc = "idle"
    BY <1>1, <2>1, ExecuteFacts
  <2>3. PICK s \in Scripts :
           /\ script'[s].pc = "load" /\ Moves(s)
           /\ UNCHANGED <<remote_size, task, local_file, remote, base_image, os_image, died>>
    BY <1>1, <2>1, ExecuteFacts
  <2>4. TInv'
    BY <1>1, <2>3, TypesKept
  <2>5. OneScript'
    BY <2>2, <2>3 DEF OneScript, Moves
  <2>6. ASSUME NEW x \in Scripts
        PROVE  ScriptSound(x)'
    BY <2>2, <2>3 DEF Moves, ScriptSound
  <2>7. TaskSound'
    BY <1>1, <2>3 DEF TaskSound
  <2>8. QED
    BY <2>4, <2>5, <2>6, <2>7 DEF MirrorInv
<1>4. ASSUME NEW n \in Nodes, AddPull(n) \/ AddPush(n)
      PROVE  MirrorInv'
  <2>1. /\ \A s \in Scripts : script[s].pc = "idle"
        /\ UNCHANGED <<remote_size, script, local_file, os_image, died>>
    BY <1>4 DEF AddPull, AddPush, NewTask
  <2>2. /\ task' \in TaskRow /\ task'.status = NONESTATUS /\ ~task'.import_date_complate
    <3>1. PICK op \in {OPERATE_PULL, OPERATE_PUSH} :
             task' = [NoTask EXCEPT !.live = TRUE, !.operate = op, !.local_hostname = n]
      BY <1>4 DEF AddPull, AddPush, NewTask
    <3>2. NoTask \in TaskRow /\ NoTask.status = NONESTATUS /\ ~NoTask.import_date_complate
      BY RestTypes DEF NoTask
    <3>3. QED
      BY <3>1, <3>2 DEF TaskRow
  <2>3. /\ base_image' = base_image \/ base_image' = "whole"
        /\ remote' \in 0 .. remote_size
    BY <1>1, <1>4, MirrorAssumption DEF TInv, MirrorTypeOK, AddPull, AddPush
  <2>4. TInv'
    BY <1>1, <2>1, <2>2, <2>3 DEF TInv, MirrorTypeOK, NodesKnown
  <2>5. OneScript' /\ \A s \in Scripts : ScriptSound(s)'
    BY <2>1 DEF OneScript, ScriptSound
  <2>6. NONESTATUS # UPLOADCOMPLATE
    BY DEF NONESTATUS, UPLOADCOMPLATE
  <2>7. TaskSound'
    BY <1>1, <2>1, <2>2, <2>3, <2>6 DEF TaskSound
  <2>8. QED
    BY <2>4, <2>5, <2>7 DEF MirrorInv
<1>5. QED
  BY <1>2, <1>3, <1>4

\* A script moves alone, since it is the only one at work.
LEMMA ScriptMoves ==
    ASSUME MirrorInv, NEW s \in Scripts, UNCHANGED mirrorwork, ScriptStep(s)
    PROVE  /\ script[s].pc # "idle" /\ TInv'
           /\ \A x \in Scripts \ {s} : script[x].pc = "idle" /\ script'[x] = script[x]
           /\ UNCHANGED remote_size
<1>1. TInv /\ ScriptSound(s)
  BY DEF MirrorInv
<1>2. script[s].pc # "idle"
  BY DEF ScriptStep, Killed, LoadTask, RefuseTask, RetryPull, RetryPush, BeginTask, Accepted,
     PullExists, DeleteLocalFile, DownloadChunk, MarkDownloaded, StartImport, EndImport,
     MarkImported, CreateOsImage, MarkCreated, CleanLocalFile, DeletePushFile, ExportImage,
     UploadChunk, MarkUploaded, ScriptAt
<1>3. TInv'
  BY <1>1, BeginTypes, PullTypes, PushTypes DEF ScriptStep
<1>4. \A x \in Scripts \ {s} : script[x].pc = "idle"
  BY <1>2 DEF MirrorInv, OneScript
<1>5. \A x \in Scripts \ {s} : script'[x] = script[x]
  <2>1. script \in [Scripts -> ScriptState]
    BY <1>1 DEF TInv, MirrorTypeOK
  <2>2. \/ UNCHANGED script
        \/ \E e : script' = [script EXCEPT ![s] = e]
    BY DEF ScriptStep, Killed, LoadTask, RefuseTask, RetryPull, RetryPush, BeginTask,
       PullExists, DeleteLocalFile, DownloadChunk, MarkDownloaded, StartImport, EndImport,
       MarkImported, CreateOsImage, MarkCreated, CleanLocalFile, DeletePushFile, ExportImage,
       UploadChunk, MarkUploaded, ScriptTo, Save, Fail
  <2>3. QED
    BY <2>1, <2>2
<1>6. UNCHANGED remote_size
  BY DEF ScriptStep, Killed, LoadTask, RefuseTask, RetryPull, RetryPush, BeginTask,
     PullExists, DeleteLocalFile, DownloadChunk, MarkDownloaded, StartImport, EndImport,
     MarkImported, CreateOsImage, MarkCreated, CleanLocalFile, DeletePushFile, ExportImage,
     UploadChunk, MarkUploaded, OnlyScript
<1>7. QED
  BY <1>2, <1>3, <1>4, <1>5, <1>6

\* A step of the script at work keeps the invariant.
LEMMA ScriptStepSound ==
    ASSUME MirrorInv, NEW s \in Scripts, UNCHANGED mirrorwork, ScriptStep(s)
    PROVE  MirrorInv'
<1>1. /\ TInv' /\ UNCHANGED remote_size /\ Unread' = Unread
      /\ \A x \in Scripts \ {s} : script'[x].pc = "idle"
  BY ScriptMoves DEF Unread, Fails
<1>2. ScriptSound(s)' /\ TaskSound'
  BY <1>1, BeginSound, PullSound, PushSound DEF ScriptStep
<1>3. \A x \in Scripts : ScriptSound(x)'
  BY <1>1, <1>2, IdleSound
<1>4. OneScript'
  BY <1>1 DEF OneScript
<1>5. QED
  BY <1>1, <1>2, <1>3, <1>4 DEF MirrorInv

\* Before the first task there is no image and no script.
LEMMA MirrorStarts == MirrorInit => MirrorInv
<1> SUFFICES ASSUME MirrorInit
             PROVE  MirrorInv
  OBVIOUS
<1>1. remote_size \in Nat
  BY MirrorAssumption DEF MirrorInit
<1>2. NoScript.pc = "idle" /\ ~NoTask.live
  BY DEF NoScript, NoTask
<1>3. TInv
  <2>1. 0 \in 0 .. remote_size
    BY <1>1
  <2>2. MirrorTypeOK
    BY <2>1, RestTypes DEF MirrorInit, MirrorTypeOK
  <2>3. NodesKnown
    BY <1>2 DEF MirrorInit, NodesKnown
  <2>4. QED
    BY <2>2, <2>3 DEF TInv
<1>4. QED
  BY <1>2, <1>3 DEF MirrorInit, MirrorInv, OneScript, ScriptSound, TaskSound

\* So does every step, and one that changes nothing.
LEMMA MirrorKept ==
    ASSUME Alone
    PROVE  MirrorInv /\ [MirrorNext]_mirrorVars => MirrorInv'
<1> SUFFICES ASSUME MirrorInv, [MirrorNext]_mirrorVars
             PROVE  MirrorInv'
  OBVIOUS
<1>1. CASE UNCHANGED mirrorVars
  BY <1>1 DEF mirrorVars, MirrorInv, TInv, MirrorTypeOK, NodesKnown, OneScript, ScriptSound,
     TaskSound, Whole, Unread, Fails
<1>2. CASE MirrorNext
  BY <1>2, ScriptStepSound, InterfaceSound DEF MirrorNext
<1>3. QED
  BY <1>1, <1>2

\* The invariant holds throughout.
LEMMA MirrorInvAlways ==
    ASSUME Alone
    PROVE  MirrorSpec => []MirrorInv
BY MirrorStarts, MirrorKept, PTL DEF MirrorSpec

\* Rows, files and scripts keep their types; the mirror never has more of an
\* object than there is of it.
THEOREM MirrorTypeCorrect ==
    ASSUME Alone
    PROVE  MirrorSpec => []MirrorTypeOK
<1>1. MirrorInv => MirrorTypeOK
  BY DEF MirrorInv, TInv
<1>2. MirrorSpec => []MirrorInv
  BY MirrorInvAlways
<1>3. QED
  BY <1>1, <1>2, PTL

\* An image that is offered has been imported whole, whatever fails, wherever a
\* script is killed and however often the task is started again.
THEOREM OfferedIsWhole ==
    ASSUME Alone
    PROVE  MirrorSpec => []ImageIsWhole
<1>1. MirrorInv => ImageIsWhole
  BY DEF MirrorInv, TaskSound, ImageIsWhole
<1>2. MirrorSpec => []MirrorInv
  BY MirrorInvAlways
<1>3. QED
  BY <1>1, <1>2, PTL

\* What a task says is uploaded is on the mirror, all of it, where the file can be
\* read to its end.
THEOREM UploadedIsWhole ==
    ASSUME Alone
    PROVE  MirrorSpec => []PushedWhole
<1>1. MirrorInv => PushedWhole
  BY DEF MirrorInv, TaskSound, PushedWhole, Unread
<1>2. MirrorSpec => []MirrorInv
  BY MirrorInvAlways
<1>3. QED
  BY <1>1, <1>2, PTL

-----------------------------------------------------------------------------
(* Who is said to be at work.                                              *)

Busy == {DOWNLOADING, UPLOADING}

\* A row of which all is done.
AllDone(row) == row.download_or_upload_status /\ row.import_date_complate /\ row.create_os_image

\* A row that may be left: one that does not say that somebody is at work, or one
\* of which all is done.
Fits(row) == row.status \in Busy => row.status = DOWNLOADING /\ AllDone(row)

\* What a script at work, and nobody was killed, knows of the row of its task.
Said(s) ==
    LET c == script[s] IN
    ~died /\ task.live =>
        /\ c.pc \in {"load", "begin", "clean"} => Fits(task)
        /\ c.pc = "begin" /\ AllDone(c.row) => AllDone(task)
        /\ c.pc = "recreate_os" => c.row.status = DOWNLOADFAILURE
        /\ c.pc \in {"create_os", "mark_created"}
              => c.row.status = DOWNLOADFAILURE \/ task.status = DOWNLOADCOMPLATE

SaidInv ==
    /\ MirrorInv
    /\ \A s \in Scripts : Said(s)
    /\ IdleIsSaid

\* After a step of s, which is the only script at work.
Spoken(s) ==
    /\ Said(s)
    /\ ~died /\ task.live /\ script[s].pc = "idle" => Fits(task)

\* The statuses are of 1 .. 7, and which of them are of a task at work.
LEMMA StatusNames ==
    /\ DOWNLOADING \in 1 .. 7 /\ DOWNLOADCOMPLATE \in 1 .. 7 /\ UPLOADING \in 1 .. 7
    /\ UPLOADCOMPLATE \in 1 .. 7 /\ UPLOADFAILURE \in 1 .. 7 /\ DOWNLOADFAILURE \in 1 .. 7
    /\ NONESTATUS \in 1 .. 7
    /\ \A st \in {DOWNLOADCOMPLATE, UPLOADCOMPLATE, UPLOADFAILURE, DOWNLOADFAILURE, NONESTATUS} :
          st \notin Busy
    /\ UPLOADCOMPLATE # DOWNLOADCOMPLATE
BY DEF Busy, DOWNLOADING, DOWNLOADCOMPLATE, UPLOADING, UPLOADCOMPLATE, UPLOADFAILURE,
   DOWNLOADFAILURE, NONESTATUS

\* A script that saves the row, at a step that neither begins nor ends the work.
LEMMA SaveSaid ==
    ASSUME TInv, NEW s \in Scripts, UNCHANGED died,
           NEW row \in TaskRow,
           NEW pc \in ScriptPcs \ {"load", "begin", "mark_created"},
           Save(s, row, pc),
           ~died /\ task.live =>
               /\ pc \in {"idle", "clean"} => Fits(row)
               /\ pc = "recreate_os" => script[s].row.status = DOWNLOADFAILURE
               /\ pc = "create_os" => row.status = DOWNLOADCOMPLATE
    PROVE  Spoken(s)'
<1> DEFINE c == script[s]
           e == script'[s]
<1>1. \/ task.live /\ task' = row /\ e.pc = pc /\ (pc # "idle" => e.row = c.row)
      \/ ~task.live /\ task' = task /\ e.pc = "idle"
  BY SavesFacts
<1>2. CASE died \/ ~task'.live
  BY <1>2 DEF Spoken, Said
<1>3. CASE ~died /\ task'.live
  <2>1. task' = row /\ e.pc = pc /\ (pc # "idle" => e.row = c.row)
    BY <1>1, <1>3
  <2>2. Fits(task)' <=> Fits(row)
    BY <2>1 DEF Fits, AllDone
  <2>3. ~died /\ task.live
    BY <1>1, <1>3
  <2>4. e.pc \in {"idle", "clean"} => Fits(task)'
    BY <2>1, <2>2, <2>3
  <2>5. e.pc \notin {"load", "begin", "mark_created"}
    BY <2>1
  <2>6. e.pc = "recreate_os" => e.row.status = DOWNLOADFAILURE
    BY <2>1, <2>3
  <2>7. e.pc = "create_os" => task'.status = DOWNLOADCOMPLATE
    BY <2>1, <2>3
  <2>8. QED
    BY <2>4, <2>5, <2>6, <2>7 DEF Said, Spoken
<1>4. QED
  BY <1>2, <1>3

\* A script that fails says so.
LEMMA FailSaid ==
    ASSUME TInv, NEW s \in Scripts, UNCHANGED died,
           NEW st \in {DOWNLOADFAILURE, UPLOADFAILURE}, Fail(s, st)
    PROVE  Spoken(s)'
<1> DEFINE row == [task EXCEPT !.status = st]
<1>1. st \in 1 .. 7 /\ st \notin Busy
  BY StatusNames
<1>2. task \in TaskRow
  BY DEF TInv, MirrorTypeOK
<1>3. row \in TaskRow /\ row.status = st
  BY <1>1, <1>2 DEF TaskRow
<1>4. Save(s, row, "idle") /\ "idle" \in ScriptPcs \ {"load", "begin", "mark_created"}
  BY DEF Fail, ScriptPcs
<1> HIDE DEF row
<1>5. QED
  BY <1>1, <1>3, <1>4, SaveSaid DEF Fits

\* A script in the middle of its work leaves the row alone.
LEMMA GoSaid ==
    ASSUME NEW s \in Scripts, UNCHANGED <<task, died>>, Said(s),
           script'[s].row = script[s].row,
           script'[s].pc \notin {"idle", "load", "begin", "clean", "create_os", "recreate_os"},
           script'[s].pc = "mark_created" => script[s].pc \in {"create_os", "recreate_os"}
    PROVE  Spoken(s)'
BY DEF Spoken, Said

\* main, and what loacl_node_run_server makes of the row.
LEMMA BeginSaid ==
    ASSUME MirrorInv, NEW s \in Scripts, Said(s),
           Killed(s) \/ LoadTask(s) \/ RefuseTask(s) \/ RetryPull(s) \/ RetryPush(s) \/ BeginTask(s)
    PROVE  Spoken(s)'
<1> DEFINE c == script[s]
           e == script'[s]
<1>1. TInv /\ Facts(s) /\ task \in TaskRow
  BY TypedPlaces DEF MirrorInv, Facts
<1>2. CASE Killed(s)
  BY <1>2 DEF Killed, Spoken, Said
<1>3. CASE LoadTask(s)
  <2>1. c.pc = "load" /\ UNCHANGED <<task, died>>
    BY <1>3 DEF LoadTask, ScriptAt, OnlyScript
  <2>2. CASE task.live
    <3>1. e = [c EXCEPT !.row = task, !.pc = "begin"]
      BY <1>1, <1>3, <2>2 DEF LoadTask, Facts
    <3>2. e.pc = "begin" /\ e.row = task
      BY <1>1, <3>1 DEF Facts, ScriptState
    <3>3. (Fits(task)' <=> Fits(task)) /\ (AllDone(e.row) <=> AllDone(task)')
      BY <2>1, <3>2 DEF Fits, AllDone
    <3>4. QED
      BY <2>1, <3>2, <3>3 DEF Spoken, Said
  <2>3. CASE ~task.live
    BY <2>1, <2>3 DEF Spoken, Said
  <2>4. QED
    BY <2>2, <2>3
<1>4. CASE RefuseTask(s)
  BY <1>1, <1>4, FailSaid DEF RefuseTask, ScriptAt, OnlyScript
<1>5. CASE RetryPull(s) \/ RetryPush(s) \/ BeginTask(s)
  <2>1. c.pc = "begin" /\ UNCHANGED died
    BY <1>5 DEF RetryPull, RetryPush, BeginTask, Accepted, ScriptAt, OnlyScript
  <2>2. CASE died \/ ~task.live
    BY <1>5, <2>1, <2>2 DEF RetryPull, RetryPush, BeginTask, Save, Spoken, Said
  <2>3. CASE ~died /\ task.live
    <3>1. Fits(task) /\ (AllDone(c.row) => AllDone(task))
      BY <2>1, <2>3 DEF Said
    <3>2. \A st \in 1 .. 7 : /\ [task EXCEPT !.status = st] \in TaskRow
                             /\ [task EXCEPT !.status = st].status = st
                             /\ AllDone([task EXCEPT !.status = st]) <=> AllDone(task)
      BY <1>1 DEF TaskRow, AllDone
    <3>3. [task EXCEPT !.local_hostname = c.node] \in TaskRow
      BY <1>1, <2>1 DEF TInv, NodesKnown, TaskRow
    <3>4. \/ \E row \in TaskRow, pc \in {"exists", "recreate_os", "del_push", "idle"} :
               /\ Save(s, row, pc) /\ (pc = "recreate_os" => c.row.status = DOWNLOADFAILURE)
               /\ pc = "idle" => Fits(row)
          \/ ScriptTo(s, "idle") /\ UNCHANGED task
      <4>1. CASE RetryPull(s)
        <5>1. Fits([task EXCEPT !.status = DOWNLOADING]) \/ ~AllDone(task)
          BY <3>2, StatusNames DEF Fits
        <5>2. c.row.download_or_upload_status /\ c.row.import_date_complate /\ c.row.create_os_image
              => AllDone(task)
          BY <3>1 DEF AllDone
        <5>3. QED
          BY <3>2, <3>3, <4>1, <5>1, <5>2, StatusNames DEF RetryPull
      <4>2. CASE RetryPush(s)
        BY <3>2, <3>3, <4>2, StatusNames DEF RetryPush
      <4>3. CASE BeginTask(s)
        BY <3>2, <4>3, StatusNames DEF BeginTask
      <4>4. QED
        BY <1>5, <4>1, <4>2, <4>3
    <3>5. CASE ScriptTo(s, "idle") /\ UNCHANGED task
      <4>1. e.pc = "idle"
        BY <1>1, <3>5, ScriptGoesOn DEF ScriptPcs
      <4>2. Fits(task)'
        BY <3>1, <3>5 DEF Fits, AllDone
      <4>3. QED
        BY <4>1, <4>2 DEF Spoken, Said
    <3>6. QED
      BY <1>1, <2>1, <3>4, <3>5, SaveSaid DEF ScriptPcs
  <2>4. QED
    BY <2>2, <2>3
<1>6. QED
  BY <1>2, <1>3, <1>4, <1>5

\* The steps of a pull that leave the row alone, or fail.
LEMMA PullSaid ==
    ASSUME MirrorInv, NEW s \in Scripts, Said(s),
           \/ PullExists(s) \/ DeleteLocalFile(s) \/ DownloadChunk(s)
           \/ StartImport(s) \/ EndImport(s) \/ CreateOsImage(s)
    PROVE  Spoken(s)'
<1> DEFINE c == script[s]
           e == script'[s]
<1>1. TInv /\ Facts(s)
  BY TypedPlaces DEF MirrorInv
<1>2. c.pc \notin {"idle", "clean"} /\ UNCHANGED died
  BY DEF PullExists, DeleteLocalFile, DownloadChunk, StartImport, EndImport, CreateOsImage,
     ScriptAt, OnlyScript
<1>3. CASE Fail(s, DOWNLOADFAILURE)
  BY <1>1, <1>2, <1>3, FailSaid
<1>4. ASSUME UNCHANGED task, NEW pc \in {"del_local", "mark_imported", "mark_created"},
             ScriptTo(s, pc), pc = "mark_created" => c.pc \in {"create_os", "recreate_os"}
      PROVE  Spoken(s)'
  BY <1>1, <1>2, <1>4, ScriptGoesOn, GoSaid DEF ScriptPcs
<1>5. CASE ~Fail(s, DOWNLOADFAILURE) /\ (PullExists(s) \/ EndImport(s) \/ CreateOsImage(s))
  BY <1>4, <1>5 DEF PullExists, EndImport, CreateOsImage
<1>6. CASE ~Fail(s, DOWNLOADFAILURE) /\ DeleteLocalFile(s)
  BY <1>1, <1>2, <1>6, GoSaid DEF DeleteLocalFile, Facts, ScriptState
<1>7. CASE ~Fail(s, DOWNLOADFAILURE) /\ DownloadChunk(s)
  <2>1. UNCHANGED task /\ c.pc = "download"
    BY <1>7 DEF DownloadChunk, ScriptAt
  <2>2. \/ script' = [script EXCEPT ![s] = [c EXCEPT !.pc = "mark_downloaded"]]
        \/ \E chunk, offset : script' = [script EXCEPT ![s] = [c EXCEPT !.chunk = chunk, !.offset = offset]]
    BY <1>1, <1>7 DEF DownloadChunk, Facts
  <2>3. e.pc \in {"download", "mark_downloaded"} /\ e.row = c.row
    BY <1>1, <2>1, <2>2 DEF Facts, ScriptState
  <2>4. QED
    BY <1>2, <2>1, <2>3, GoSaid
<1>8. CASE ~Fail(s, DOWNLOADFAILURE) /\ StartImport(s)
  BY <1>1, <1>2, <1>8, GoSaid DEF StartImport, Facts, ScriptState
<1>9. QED
  BY <1>3, <1>5, <1>6, <1>7, <1>8

\* The steps of a push that leave the row alone, or fail.
LEMMA PushSaid ==
    ASSUME MirrorInv, NEW s \in Scripts, Said(s),
           DeletePushFile(s) \/ ExportImage(s) \/ UploadChunk(s)
    PROVE  Spoken(s)'
<1> DEFINE c == script[s]
           e == script'[s]
<1>1. TInv /\ Facts(s)
  BY TypedPlaces DEF MirrorInv
<1>2. c.pc \in {"del_push", "export", "upload"} /\ UNCHANGED died
  BY DEF DeletePushFile, ExportImage, UploadChunk, ScriptAt
<1>3. CASE Fail(s, UPLOADFAILURE)
  BY <1>1, <1>2, <1>3, FailSaid
<1>4. CASE ~Fail(s, UPLOADFAILURE)
  <2>1. /\ UNCHANGED task
        /\ \/ \E pc \in {"export", "mark_uploaded"} : ScriptTo(s, pc)
           \/ \E offset : script' = [script EXCEPT ![s] = [c EXCEPT !.pc = "upload", !.offset = offset]]
           \/ \E offset : script' = [script EXCEPT ![s] = [c EXCEPT !.offset = offset]]
    BY <1>1, <1>4 DEF DeletePushFile, ExportImage, Facts, UploadChunk
  <2>2. e.pc \in {"export", "mark_uploaded", "upload", c.pc} /\ e.row = c.row
    <3>1. CASE \E pc \in {"export", "mark_uploaded"} : ScriptTo(s, pc)
      BY <1>1, <3>1, ScriptGoesOn DEF ScriptPcs
    <3>2. CASE \E offset : script' = [script EXCEPT ![s] = [c EXCEPT !.pc = "upload", !.offset = offset]]
      BY <1>1, <3>2 DEF Facts, ScriptState
    <3>3. CASE \E offset : script' = [script EXCEPT ![s] = [c EXCEPT !.offset = offset]]
      BY <1>1, <3>3 DEF Facts, ScriptState
    <3>4. QED
      BY <2>1, <3>1, <3>2, <3>3
  <2>3. QED
    BY <1>2, <2>1, <2>2, GoSaid
<1>5. QED
  BY <1>3, <1>4

\* The steps that mark the row, and the last.
LEMMA MarksSaid ==
    ASSUME MirrorInv, NEW s \in Scripts, Said(s),
           \/ MarkDownloaded(s) \/ MarkImported(s) \/ MarkCreated(s) \/ MarkUploaded(s)
           \/ CleanLocalFile(s)
    PROVE  Spoken(s)'
<1> DEFINE c == script[s]
           e == script'[s]
<1>1. TInv /\ Facts(s) /\ task \in TaskRow
  BY TypedPlaces DEF MirrorInv, Facts
<1>2. CASE MarkDownloaded(s)
  <2> DEFINE row == [task EXCEPT !.download_or_upload_status = TRUE]
  <2>1. c.pc = "mark_downloaded" /\ UNCHANGED died /\ Save(s, row, "import")
    BY <1>2 DEF MarkDownloaded, ScriptAt, OnlyScript
  <2>2. row \in TaskRow
    BY <1>1 DEF TaskRow
  <2> HIDE DEF row
  <2>3. QED
    BY <1>1, <2>1, <2>2, SaveSaid DEF ScriptPcs
<1>3. CASE MarkImported(s)
  <2> DEFINE row == [task EXCEPT !.import_date_complate = TRUE, !.status = DOWNLOADCOMPLATE]
  <2>1. c.pc = "mark_imported" /\ UNCHANGED died /\ Save(s, row, "create_os")
    BY <1>3 DEF MarkImported, ScriptAt, OnlyScript
  <2>2. row \in TaskRow /\ row.status = DOWNLOADCOMPLATE
    BY <1>1, StatusNames DEF TaskRow
  <2> HIDE DEF row
  <2>3. QED
    BY <1>1, <2>1, <2>2, SaveSaid DEF ScriptPcs
<1>4. CASE MarkCreated(s)
  <2>1. PICK st : st = IF c.row.status = DOWNLOADFAILURE THEN DOWNLOADCOMPLATE ELSE task.status
    OBVIOUS
  <2> DEFINE row == [task EXCEPT !.create_os_image = TRUE, !.status = st]
  <2>2. c.pc = "mark_created" /\ UNCHANGED died /\ Save(s, row, "clean")
    BY <1>4, <2>1 DEF MarkCreated, ScriptAt, OnlyScript
  <2>3. st \in 1 .. 7 /\ (~died /\ task.live => st = DOWNLOADCOMPLATE)
    BY <1>1, <2>1, <2>2, StatusNames DEF TaskRow, Said
  <2>4. row \in TaskRow /\ row.status = st
    BY <1>1, <2>3 DEF TaskRow
  <2> HIDE DEF row
  <2>5. DOWNLOADCOMPLATE \notin Busy
    BY StatusNames
  <2>6. QED
    BY <1>1, <2>2, <2>3, <2>4, <2>5, SaveSaid DEF ScriptPcs, Fits
<1>5. CASE MarkUploaded(s)
  <2> DEFINE row == [task EXCEPT !.status = UPLOADCOMPLATE, !.download_or_upload_status = TRUE]
  <2>1. c.pc = "mark_uploaded" /\ UNCHANGED died /\ Save(s, row, "clean")
    BY <1>5 DEF MarkUploaded, ScriptAt, OnlyScript
  <2>2. row \in TaskRow /\ row.status \notin Busy
    BY <1>1, StatusNames DEF TaskRow
  <2> HIDE DEF row
  <2>3. QED
    BY <1>1, <2>1, <2>2, SaveSaid DEF ScriptPcs, Fits
<1>6. CASE CleanLocalFile(s)
  <2>1. c.pc = "clean" /\ e.pc = "idle" /\ UNCHANGED <<task, died>>
    BY <1>1, <1>6, ScriptGoesOn DEF CleanLocalFile, ScriptAt, ScriptPcs
  <2>2. QED
    BY <2>1 DEF Spoken, Said
<1>7. QED
  BY <1>2, <1>3, <1>4, <1>5, <1>6

\* After a step of a script nobody else is at work.
LEMMA ScriptSaid ==
    ASSUME SaidInv, NEW s \in Scripts, UNCHANGED mirrorwork, ScriptStep(s)
    PROVE  SaidInv'
<1>1. MirrorInv /\ Said(s)
  BY DEF SaidInv
<1>2. /\ MirrorInv'
      /\ \A x \in Scripts \ {s} : script[x].pc = "idle" /\ script'[x] = script[x]
  BY <1>1, ScriptMoves, ScriptStepSound
<1>3. Spoken(s)'
  BY <1>1, BeginSaid, PullSaid, PushSaid, MarksSaid DEF ScriptStep
<1>4. \A x \in Scripts : Said(x)'
  BY <1>2, <1>3 DEF Spoken, Said
<1>5. IdleIsSaid'
  BY <1>3 DEF Spoken, IdleIsSaid, AllIdle, Fits, AllDone, Busy
<1>6. QED
  BY <1>2, <1>3, <1>4, <1>5 DEF SaidInv, Spoken

\* Of a task that says nothing of anybody at work, or of which all is done, a
\* script is started.
LEMMA InterfaceSaid ==
    ASSUME Alone, SaidInv, UNCHANGED mirrorwork,
           \/ StopTask \/ DeleteTask
           \/ \E n \in Nodes : StartTask(n) \/ ForceStart(n)
           \/ \E n \in Nodes : AddPull(n) \/ AddPush(n)
    PROVE  SaidInv'
<1>1. /\ MirrorInv /\ TInv /\ mirrorwork \in MirrorWorks /\ task \in TaskRow
      /\ (\A s \in Scripts : Said(s)) /\ IdleIsSaid
  BY DEF SaidInv, MirrorInv, TInv, MirrorTypeOK
<1>2. MirrorInv'
  BY <1>1, InterfaceSound
<1>3. CASE StopTask \/ DeleteTask
  <2>1. UNCHANGED <<script, died>>
    BY <1>3 DEF StopTask, DeleteTask, OnlyTask
  <2>2. CASE DeleteTask
    BY <1>2, <2>2 DEF DeleteTask, NoTask, SaidInv, Said, IdleIsSaid
  <2>3. CASE StopTask
    <3>1. task.live /\ task.status \in Busy /\ task' = [task EXCEPT !.status = NONESTATUS]
      BY <2>3 DEF StopTask, Busy
    <3>2. /\ task'.live = task.live /\ task'.status = NONESTATUS
          /\ AllDone(task)' <=> AllDone(task)
      BY <1>1, <3>1 DEF TaskRow, AllDone
    <3>3. NONESTATUS \notin Busy /\ DOWNLOADCOMPLATE \notin Busy
      BY StatusNames
    <3>4. Fits(task)' /\ IdleIsSaid'
      BY <3>2, <3>3 DEF Fits, IdleIsSaid, Busy
    <3>5. ASSUME NEW s \in Scripts
          PROVE  Said(s)'
      <4>1. AllDone(script[s].row)' <=> AllDone(script[s].row)
        BY <2>1 DEF AllDone
      <4>2. QED
        BY <1>1, <2>1, <3>1, <3>2, <3>3, <3>4, <4>1 DEF Said
    <3>6. QED
      BY <1>2, <3>4, <3>5 DEF SaidInv
  <2>4. QED
    BY <1>3, <2>2, <2>3
<1>4. ASSUME NEW n \in Nodes, StartTask(n) \/ ForceStart(n)
      PROVE  SaidInv'
  <2>1. task.live /\ \E op \in {"pull", "push"} : execute_task(n, op)
    BY <1>4, StartedAsOps DEF StartTask, ForceStart
  <2>2. \A x \in Scripts : script[x].pc = "idle"
    BY <1>1, <2>1, ExecuteFacts
  <2>3. PICK s \in Scripts :
           script'[s].pc = "load" /\ Moves(s) /\ UNCHANGED <<task, died>>
    BY <1>1, <2>1, ExecuteFacts
  <2>4. ~died => Fits(task)
    BY <1>1, <2>1, <2>2 DEF IdleIsSaid, AllIdle, Fits, AllDone, Busy
  <2>5. Fits(task)' <=> Fits(task)
    BY <2>3 DEF Fits, AllDone
  <2>6. ASSUME NEW x \in Scripts
        PROVE  Said(x)'
    BY <2>2, <2>3, <2>4, <2>5 DEF Moves, Said
  <2>7. IdleIsSaid'
    BY <2>3 DEF IdleIsSaid, AllIdle
  <2>8. QED
    BY <1>2, <2>6, <2>7 DEF SaidInv
<1>5. ASSUME NEW n \in Nodes, AddPull(n) \/ AddPush(n)
      PROVE  SaidInv'
  <2>1. (\A s \in Scripts : script[s].pc = "idle") /\ UNCHANGED <<script, died>>
    BY <1>5 DEF AddPull, AddPush, NewTask
  <2>2. task'.status = NONESTATUS
    BY <1>5, RestTypes DEF AddPull, AddPush, NewTask, NoTask, TaskRow
  <2>3. NONESTATUS \notin Busy
    BY StatusNames
  <2>4. QED
    BY <1>2, <2>1, <2>2, <2>3 DEF SaidInv, Said, IdleIsSaid, Busy
<1>6. QED
  BY <1>3, <1>4, <1>5

\* While no script is at work the row does not say that one is, unless one was
\* killed or all of the task was done when it was started again: so `start` takes
\* any task of which something is left to do.
THEOREM IdleTaskIsSaid ==
    ASSUME Alone
    PROVE  MirrorSpec => []IdleIsSaid
<1>1. MirrorInit => SaidInv
  <2> SUFFICES ASSUME MirrorInit
               PROVE  SaidInv
    OBVIOUS
  <2>1. ~task.live
    BY DEF MirrorInit, NoTask
  <2>2. QED
    BY <2>1, MirrorStarts DEF SaidInv, Said, IdleIsSaid
<1>2. SaidInv /\ [MirrorNext]_mirrorVars => SaidInv'
  <2> SUFFICES ASSUME SaidInv, [MirrorNext]_mirrorVars
               PROVE  SaidInv'
    OBVIOUS
  <2>1. CASE UNCHANGED mirrorVars
    BY <2>1, MirrorKept DEF SaidInv, mirrorVars, Said, Fits, AllDone, IdleIsSaid, AllIdle
  <2>2. CASE MirrorNext
    BY <2>2, ScriptSaid, InterfaceSaid DEF MirrorNext
  <2>3. QED
    BY <2>1, <2>2
<1>3. SaidInv => IdleIsSaid
  BY DEF SaidInv
<1>4. QED
  BY <1>1, <1>2, <1>3, PTL DEF MirrorSpec
=============================================================================
