-------------------------- MODULE AccessProperties --------------------------
(***************************************************************************)
(* What has to hold of the requests about a vm.                            *)
(***************************************************************************)
EXTENDS VmAccess

\* The rules of the requests agree with each other, whoever owns the vm and
\* whoever it is shared with: a user who may change it, or finds it in a list or
\* by a task of it, may look at it, and the same for a disk
\* (check_user_permissions_of_vm and the handlers that state their own rule).
WhoChangesSees ==
    /\ \A u \in Users :
         /\ \/ \E route \in VmRoutes : route.does # "read" /\ Granted(u, route)
            \/ VmsViewSet_list(u) \/ VmsViewSet_shelve_list(u)
            \/ VmsViewSet_can_mount_vdisk(u) \/ VmsViewSet_can_mount_pci(u)
            \/ vm.status # "gone" /\ get_migrate_task(u)
            => Granted(u, VmsViewSet_retrieve)
         /\ \/ \E allowed \in {VDiskViewSet_destroy, VDiskViewSet_remark, api_mount_disk.disk,
                               api_umount_disk.disk} :
                 check_user_permissions_of_disk(u, allowed)
            \/ VDiskViewSet_list(u) \/ VDiskViewSet_vm_can_mount(u)
            => check_user_permissions_of_disk(u, VDiskViewSet_retrieve)
    /\ \A u \in Users : vm.status # "gone" /\ vm.owner = u
                        => VmsViewSet_list(u) # VmsViewSet_shelve_list(u)

\* A vm comes to have another owner by a hand-over only, and one that is gone
\* does not come back: a request that saves the row it has loaded must not undo
\* what was written since (vm_hand_over_user, modify_remark, shelve_vm).
NoStaleRow ==
    [][/\ vm'.owner # vm.owner => \E c \in Callers : caller[c].does = "hand_over"
                                                   /\ caller[c].pc = "act" /\ caller'[c] # caller[c]
       /\ vm.status = "gone" => vm'.status = "gone"]_accessVars

\* A replace of the users a vm is shared with leaves what was asked for, which it
\* reaches by the difference to the rows it has read (replace_shared_users).
ReplacedWhole ==
    [][\A c \in Callers :
         caller[c].does = "replace" /\ caller[c].pc # "done" /\ caller'[c].pc = "done"
         => shared' = caller[c].list]_accessVars

\* What was done to a vm and answered is on the record of operations, the list of
\* users it is shared with excepted (vm_operation_log, user_operation_record).
AnsweredIsLogged ==
    \A c \in Callers : caller[c].pc = "done" /\ caller[c].does # "replace" => caller[c].logs = "done"
=============================================================================
