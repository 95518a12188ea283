---------------------------- MODULE VmLifecycle ----------------------------
(***************************************************************************)
(* The life of a virtual machine: create, delete, shelve, unshelve, delete *)
(* of a shelved one, change of vcpu and mem, and the removal of an archive *)
(* record (src/vms/vm_builder.py, vminstance.py, scheduler.py, manager.py, *)
(* models.py and api.py over src/compute and src/network).                 *)
(*                                                                         *)
(* Each request runs in a thread of the web server, a worker here.  It     *)
(* goes through database rows, libvirt on the host and rbd images in ceph, *)
(* with no transaction around the whole: every statement or transaction of *)
(* the database and every call of libvirt or ceph is one step, named by    *)
(* the worker's pc, and the steps of different workers interleave.         *)
(*                                                                         *)
(* Abstractions.  A check that only makes the request fail early, repeated *)
(* under a lock by a later step that fails the same way, is that step.     *)
(* The power state of a domain, attached addresses, snapshots and the      *)
(* permission checks made before anything is acquired only refuse a        *)
(* request: action Refuse.  Statements of the database fail only for the   *)
(* constraint the schema declares (unique mac_ip, unique archive uuid) or  *)
(* because the row is gone.  A vm stands for one uuid, and for another once *)
(* the database knows nothing of the first.                                *)
(***************************************************************************)
EXTENDS HostQuota, MacIpPool, FiniteSets

CONSTANTS
    Workers,      \* request threads
    Vms,          \* virtual machines, by uuid
    Groups,       \* host groups
    HostGroup,    \* Host.group
    IpGroup,      \* MacIP.vlan.group
    Denied,       \* groups the user of an unshelve has no permission on
    VcpuSizes,    \* values of vcpu a request may ask for
    MemSizes,     \* values of mem a request may ask for
    Ops,          \* kinds of request that arrive
    Overlaps,     \* pairs of kinds that may run on the same vm at a time
    Failing,      \* external calls that may fail, of Calls
    CrashOps,     \* kinds of request whose process may die half way
    MaxCrash,     \* how many times that happens
    MaxDrift,     \* how far below zero the columns of a host may be for a
                  \* request to be admitted: a bound of the model, as requests
                  \* that meet on a vm free what they have freed before
    NoVm, NoHost, NoIp

OpKinds ==
    {"create", "delete", "force_delete", "shelve", "unshelve", "delshelve",
     "edit", "purge"}

Deletes == {"delete", "force_delete"}

\* Calls out of the process: clone and resize of an image; its removal by the
\* clean-up of a create and by that of an archive record; its renaming; define
\* and undefine; a host that cannot be reached; and the define of a change of
\* vcpu and mem, according to whether it takes anything away from the vm.
Calls == {"clone", "remove", "ahv_remove", "rename", "define", "undefine",
          "host", "grow", "shrink"}

ASSUME VmAssumption ==
    /\ Failing \subseteq Calls
    /\ Overlaps \subseteq OpKinds \X OpKinds
    /\ HostGroup \in [Hosts -> Groups]
    /\ IpGroup \in [Ips -> Groups]
    /\ Denied \subseteq Groups
    /\ VcpuSizes \subseteq Nat \ {0}
    /\ MemSizes \subseteq Nat \ {0}
    /\ Ops \subseteq OpKinds
    /\ CrashOps \subseteq OpKinds
    /\ MaxCrash \in Nat
    /\ MaxDrift \in Nat
    /\ NoVm \notin Vms
    /\ NoHost \notin Hosts
    /\ NoIp \notin Ips

VARIABLES
    vmrow,        \* the Vm rows; a row that is not there has vm_status "none"
    archive,      \* the VmArchive rows, by vm: host_released and disk
    domain,       \* the domains libvirt knows, by host
    disk,         \* the rbd image of the system disk, by vm, as it is named
    worker,       \* the requests being served
    crashes       \* processes that died so far

vars == <<host, used, vmrow, archive, domain, disk, worker, crashes>>

-----------------------------------------------------------------------------
(* Rows and records. *)

VmRow == [vm_status : {"none", "normal", "shelve"},
          host : Hosts \cup {NoHost}, mac_ip : Ips \cup {NoIp},
          vcpu : Nat, mem : Nat, last_ip : Ips \cup {NoIp}]

NoRow == [vm_status |-> "none", host |-> NoHost, mac_ip |-> NoIp,
          vcpu |-> 0, mem |-> 0, last_ip |-> NoIp]

\* The system disk is an rbd image named after the vm, or renamed x_<time>_.
DiskName == {"none", "live", "arch"}

\* host_released is "released" or "pending" (the domain was left on a host
\* that could not be reached); disk is the image name the record holds.
ArchiveRow == [state : {"none", "released", "pending"}, disk : DiskName,
               host : Hosts \cup {NoHost}]

NoArchive == [state |-> "none", disk |-> "none", host |-> NoHost]

Pcs == {"idle", "ip", "pick", "pick_ip", "claim", "claim_undo", "clone",
        "save", "define", "unsave", "undo_ip", "undo_host", "undo_disk",
        "count", "archive", "undefine", "ahv_release", "ahv_disk", "ahv_row",
        "rowdel", "uncount", "free_ip", "free_host", "rename", "rename_save",
        "shelve_save", "deduct", "redefine", "edit_save", "edit_undo",
        "save_undo", "edit_redefine"}

WorkerState ==
    [pc : Pcs, op : OpKinds \cup {"none"}, vm : Vms \cup {NoVm},
     host : Hosts \cup {NoHost}, ip : Ips \cup {NoIp},
     vcpu : Nat, mem : Nat,
     groups : SUBSET Groups,    \* host groups still to be tried
     need : BOOLEAN,            \* need_mac_ip: the scheduler finds the ip
     row : VmRow,               \* the Vm as this request loaded it
     ip_used : BOOLEAN,         \* mac_ip.used as this request loaded it
     ahv : ArchiveRow]          \* vm_ahv, as this request knows it

Idle == [pc |-> "idle", op |-> "none", vm |-> NoVm, host |-> NoHost,
         ip |-> NoIp, vcpu |-> 0, mem |-> 0, groups |-> {}, need |-> FALSE,
         row |-> NoRow, ip_used |-> FALSE, ahv |-> NoArchive]

TypeOK ==
    /\ HostTypeOK
    /\ IpTypeOK
    /\ vmrow \in [Vms -> VmRow]
    /\ archive \in [Vms -> ArchiveRow]
    /\ domain \in [Hosts -> SUBSET Vms]
    /\ disk \in [Vms -> DiskName]
    /\ worker \in [Workers -> WorkerState]
    /\ crashes \in Nat

Init ==
    /\ HostInit
    /\ IpInit
    /\ vmrow = [v \in Vms |-> NoRow]
    /\ archive = [v \in Vms |-> NoArchive]
    /\ domain = [h \in Hosts |-> {}]
    /\ disk = [v \in Vms |-> "none"]
    /\ worker = [w \in Workers |-> Idle]
    /\ crashes = 0

-----------------------------------------------------------------------------
(* Control of a worker. *)

At(w, pc) == worker[w].pc = pc

Goto(w, pc) == worker' = [worker EXCEPT ![w].pc = pc]

\* The request ends, whether it succeeded or raised.
End(w) == worker' = [worker EXCEPT ![w] = Idle]

Busy(v) == {w \in Workers : worker[w].vm = v}

MayStart(w, op, v) ==
    /\ At(w, "idle")
    /\ op \in Ops
    /\ \A h \in Hosts : \A column \in DOMAIN host[h] : host[h][column] >= -MaxDrift
    /\ \A x \in Busy(v) : <<worker[x].op, op>> \in Overlaps

MayFail(call) == call \in Failing

\* A vm of the model that can stand for a new uuid: no row, no record and no
\* request has it.
Fresh(v) == vmrow[v] = NoRow /\ archive[v] = NoArchive /\ Busy(v) = {}

\* A fault of Loaded that a run has to find: two columns swapped.
Loaded_swapped(op, v) ==
    [Idle EXCEPT !.op = op, !.vm = v, !.row = vmrow[v],
                 !.host = vmrow[v].mac_ip, !.ip = vmrow[v].host,
                 !.vcpu = vmrow[v].vcpu, !.mem = vmrow[v].mem]

\* The request record of a vm that exists: what _get_user_perms_vm loads.
Loaded(op, v) ==
    [Idle EXCEPT !.op = op, !.vm = v, !.row = vmrow[v],
                 !.host = vmrow[v].host, !.ip = vmrow[v].mac_ip,
                 !.vcpu = vmrow[v].vcpu, !.mem = vmrow[v].mem]

Begin(w, request, pc) == worker' = [worker EXCEPT ![w] = [request EXCEPT !.pc = pc]]

ResourcesUnchanged == UNCHANGED <<host, used>>

-----------------------------------------------------------------------------
(* Requests arriving. *)

\* VmBuilder.create_vm: either an address is asked for by name, and the
\* groups are that of its vlan, or the scheduler finds one in the groups.  The
\* uuid is new: no image and no domain has its name.
CreateStart(w, v, vcpu, mem) ==
    /\ MayStart(w, "create", v)
    /\ Fresh(v)
    /\ LET request == [Idle EXCEPT !.op = "create", !.vm = v, !.vcpu = vcpu,
                                   !.mem = mem]
       IN  \/ \E i \in Ips : Begin(w, [request EXCEPT !.ip = i,
                                             !.groups = {IpGroup[i]}], "ip")
           \/ \E gs \in SUBSET Groups \ {{}} :
                  Begin(w, [request EXCEPT !.groups = gs, !.need = TRUE], "pick")
    /\ disk' = [disk EXCEPT ![v] = "none"]
    /\ domain' = [h \in Hosts |-> domain[h] \ {v}]
    /\ ResourcesUnchanged
    /\ UNCHANGED <<vmrow, archive, crashes>>

\* VmAPI.delete_vm, up to the archiving in VmInstance.delete.  The MacIP is
\* loaded here, by the operation log.
DeleteStart(w, v, op) ==
    /\ op \in Deletes
    /\ MayStart(w, op, v)
    /\ vmrow[v].vm_status = "normal"
    /\ Begin(w, [Loaded(op, v) EXCEPT !.ip_used = used[vmrow[v].mac_ip]], "archive")
    /\ ResourcesUnchanged
    /\ UNCHANGED <<vmrow, archive, domain, disk, crashes>>

\* VmAPI.vm_shelve, up to the undefine in VmInstance.shelve_vm.
ShelveStart(w, v) ==
    /\ MayStart(w, "shelve", v)
    /\ vmrow[v].vm_status = "normal"
    /\ Begin(w, [Loaded("shelve", v) EXCEPT !.ip_used = used[vmrow[v].mac_ip]],
             "undefine")
    /\ ResourcesUnchanged
    /\ UNCHANGED <<vmrow, archive, domain, disk, crashes>>

\* VmAPI.vm_unshelve and VmBuilder.get_group_host_macip: an address by id,
\* with or without its group; a group; or neither, when the address the vm
\* had last is taken again if it is free.
UnshelveStart(w, v) ==
    /\ MayStart(w, "unshelve", v)
    /\ vmrow[v].vm_status = "shelve"
    /\ LET request == [Loaded("unshelve", v) EXCEPT !.host = NoHost, !.ip = NoIp]
           last == vmrow[v].last_ip
       IN  \/ \E i \in {j \in Ips : IpGroup[j] \notin Denied} :
                 \E gs \in {{}, {IpGroup[i]}} :
                    Begin(w, [request EXCEPT !.ip = i, !.groups = gs], "ip")
           \/ \E g \in Groups \ Denied :
                 Begin(w, [request EXCEPT !.groups = {g}, !.need = TRUE], "pick")
           \/ /\ last # NoIp
              /\ can_used(last)
              /\ Begin(w, [request EXCEPT !.ip = last,
                                          !.groups = {IpGroup[last]}], "ip")
    /\ ResourcesUnchanged
    /\ UNCHANGED <<vmrow, archive, domain, disk, crashes>>

\* VmAPI.vm_delshelve, up to the archiving in VmInstance.delshelve_vm.
DelshelveStart(w, v) ==
    /\ MayStart(w, "delshelve", v)
    /\ vmrow[v].vm_status = "shelve"
    /\ Begin(w, Loaded("delshelve", v), "archive")
    /\ ResourcesUnchanged
    /\ UNCHANGED <<vmrow, archive, domain, disk, crashes>>

\* VmAPI.edit_vm_vcpu_mem, up to the deduction in VmInstance.edit_vcpu_mem;
\* zero leaves a resource as it is.
EditStart(w, v, vcpu, mem) ==
    /\ MayStart(w, "edit", v)
    /\ vmrow[v].vm_status = "normal"
    /\ <<vcpu, mem>> \notin {<<0, 0>>, <<vmrow[v].vcpu, vmrow[v].mem>>}
    /\ Begin(w, [Loaded("edit", v) EXCEPT
                   !.vcpu = IF vcpu > 0 THEN vcpu ELSE @,
                   !.mem  = IF mem > 0 THEN mem ELSE @], "deduct")
    /\ ResourcesUnchanged
    /\ UNCHANGED <<vmrow, archive, domain, disk, crashes>>

\* VmArchive.delete from the administration pages.
PurgeStart(w, v) ==
    /\ MayStart(w, "purge", v)
    /\ archive[v] # NoArchive
    /\ Begin(w, [Idle EXCEPT !.op = "purge", !.vm = v, !.ahv = archive[v]],
             "ahv_release")
    /\ ResourcesUnchanged
    /\ UNCHANGED <<vmrow, archive, domain, disk, crashes>>

\* A check made before the first effect raises: the domain runs or cannot be
\* asked, addresses are attached, a snapshot cannot be removed.
Refuse(w) ==
    /\ worker[w].pc \in {"archive", "undefine", "deduct"}
    /\ worker[w].ahv = NoArchive
    /\ End(w)
    /\ ResourcesUnchanged
    /\ UNCHANGED <<vmrow, archive, domain, disk, crashes>>

-----------------------------------------------------------------------------
(* Create and unshelve: an address, a host, the row, the domain. *)

\* apply_for_free_ip(ipv4): an address asked for by name, or the last one.
\* For the last one the permission on its group is checked only now; the
\* request ends there, and what it applied for stays applied for.
ApplyIp(w) ==
    /\ At(w, "ip")
    /\ LET i == worker[w].ip
       IN  \/ /\ apply_for_free_ip(i)
              /\ IF IpGroup[i] \in Denied /\ worker[w].op = "unshelve"
                 THEN End(w)
                 ELSE Goto(w, "pick")
           \/ /\ ~can_used(i)
              /\ End(w)
              /\ UNCHANGED used
    /\ UNCHANGED <<host, vmrow, archive, domain, disk, crashes>>

\* HostMacIPScheduler: a host of one of the groups that met the needs when
\* the hosts were listed; nothing is locked yet.
PickHost(w) ==
    /\ At(w, "pick")
    /\ \E g \in worker[w].groups : \E h \in Hosts :
          /\ HostGroup[h] = g
          /\ meet_needs(h, worker[w].vcpu, worker[w].mem, TRUE)
          /\ worker' = [worker EXCEPT
                ![w].host = h, ![w].groups = @ \ {g},
                ![w].pc = IF worker[w].need THEN "pick_ip" ELSE "claim"]
    /\ ResourcesUnchanged
    /\ UNCHANGED <<vmrow, archive, domain, disk, crashes>>

\* No host of a group meets the needs: schedule_by_group_list_vlan goes on.
SkipGroup(w) ==
    /\ At(w, "pick")
    /\ \E g \in worker[w].groups :
          /\ \A h \in Hosts : HostGroup[h] = g =>
                ~meet_needs(h, worker[w].vcpu, worker[w].mem, TRUE)
          /\ worker' = [worker EXCEPT ![w].groups = @ \ {g}]
    /\ ResourcesUnchanged
    /\ UNCHANGED <<vmrow, archive, domain, disk, crashes>>

\* No group is left: ScheduleError, and the address given by name goes back.
NoGroupLeft(w) ==
    /\ At(w, "pick")
    /\ worker[w].groups = {}
    /\ IF worker[w].ip = NoIp THEN End(w) ELSE Goto(w, "undo_ip")
    /\ ResourcesUnchanged
    /\ UNCHANGED <<vmrow, archive, domain, disk, crashes>>

\* get_mac_ip: any free address in the group of the host.
PickIp(w) ==
    /\ At(w, "pick_ip")
    /\ \E i \in Ips :
          /\ IpGroup[i] = HostGroup[worker[w].host]
          /\ apply_for_free_ip(i)
          /\ worker' = [worker EXCEPT ![w].ip = i, ![w].pc = "claim"]
    /\ UNCHANGED <<host, vmrow, archive, domain, disk, crashes>>

\* A fault of NoFreeIp that a run has to find: the scheduler takes the host
\* without an address.
NoFreeIp_goesOn(w) ==
    /\ At(w, "pick_ip")
    /\ \A i \in Ips : IpGroup[i] = HostGroup[worker[w].host] => ~can_used(i)
    /\ Goto(w, "claim")
    /\ ResourcesUnchanged
    /\ UNCHANGED <<vmrow, archive, domain, disk, crashes>>

\* No address is free where the host is: the next group, if there is one.
NoFreeIp(w) ==
    /\ At(w, "pick_ip")
    /\ \A i \in Ips : IpGroup[i] = HostGroup[worker[w].host] => ~can_used(i)
    /\ worker' = [worker EXCEPT ![w].host = NoHost, ![w].pc = "pick"]
    /\ ResourcesUnchanged
    /\ UNCHANGED <<vmrow, archive, domain, disk, crashes>>

\* claim_from_host under the lock of the row.
ClaimHost(w) ==
    /\ At(w, "claim")
    /\ claim_from_host(worker[w].host, worker[w].vcpu, worker[w].mem)
    /\ Goto(w, IF worker[w].op = "create" THEN "clone" ELSE "save")
    /\ UNCHANGED <<used, vmrow, archive, domain, disk, crashes>>

\* A fault of ClaimFails that a run has to find: the refused claim is taken
\* for granted.
ClaimFails_ignored(w) ==
    /\ At(w, "claim")
    /\ Goto(w, IF worker[w].op = "create" THEN "clone" ELSE "save")
    /\ ResourcesUnchanged
    /\ UNCHANGED <<vmrow, archive, domain, disk, crashes>>

\* The host filled up since it was picked: no other host of the group is
\* tried; the scheduler gives back the address it found, and only that one.
ClaimFails(w) ==
    /\ At(w, "claim")
    /\ ~can_claim(worker[w].host, worker[w].vcpu, worker[w].mem)
    /\ worker' = [worker EXCEPT ![w].host = NoHost,
          ![w].pc = IF worker[w].need THEN "claim_undo" ELSE "pick"]
    /\ ResourcesUnchanged
    /\ UNCHANGED <<vmrow, archive, domain, disk, crashes>>

\* A fault of ClaimUndo that a run has to find: the address is still passed
\* on to the clean-up of the request.
ClaimUndo_keepsIp(w) ==
    /\ At(w, "claim_undo")
    /\ free_used_ip(worker[w].ip)
    /\ Goto(w, "pick")
    /\ UNCHANGED <<host, vmrow, archive, domain, disk, crashes>>

\* free_used_ip after a claim that was refused.
ClaimUndo(w) ==
    /\ At(w, "claim_undo")
    /\ free_used_ip(worker[w].ip)
    /\ worker' = [worker EXCEPT ![w].ip = NoIp, ![w].pc = "pick"]
    /\ UNCHANGED <<host, vmrow, archive, domain, disk, crashes>>

\* clone_image and resize_rbd_image: a clone that cannot be resized exists.
Clone(w) ==
    /\ At(w, "clone")
    /\ \/ /\ disk' = [disk EXCEPT ![worker[w].vm] = "live"]
          /\ \/ Goto(w, "save")
             \/ MayFail("clone") /\ Goto(w, "undo_ip")
       \/ /\ MayFail("clone")
          /\ Goto(w, "undo_ip")
          /\ UNCHANGED disk
    /\ ResourcesUnchanged
    /\ UNCHANGED <<vmrow, archive, domain, crashes>>

\* Vm.save in _create_vm2 and _create_vm3.  mac_ip is unique among the rows;
\* an unshelve updates three columns of a row that has to be there, whatever
\* its status has become.
SaveRow(w) ==
    /\ At(w, "save")
    /\ LET v == worker[w].vm
           i == worker[w].ip
           taken == \E x \in Vms \ {v} : vmrow[x].mac_ip = i
           gone == worker[w].op = "unshelve" /\ vmrow[v] = NoRow
           old == IF worker[w].op = "create"
                  THEN [NoRow EXCEPT !.vcpu = worker[w].vcpu, !.mem = worker[w].mem]
                  ELSE vmrow[v]
       IN  \/ /\ ~taken /\ ~gone
              /\ vmrow' = [vmrow EXCEPT ![v] =
                    [old EXCEPT !.vm_status = "normal", !.mac_ip = i,
                                !.host = worker[w].host]]
              /\ Goto(w, "define")
           \/ /\ taken \/ gone
              /\ Goto(w, "undo_ip")
              /\ UNCHANGED vmrow
    /\ ResourcesUnchanged
    /\ UNCHANGED <<archive, domain, disk, crashes>>

\* VirtHost.define.
Define(w) ==
    /\ At(w, "define")
    /\ \/ /\ domain' = [domain EXCEPT ![worker[w].host] = @ \cup {worker[w].vm}]
          /\ Goto(w, "count")
       \/ /\ MayFail("define")
          /\ Goto(w, "unsave")
          /\ UNCHANGED domain
    /\ ResourcesUnchanged
    /\ UNCHANGED <<vmrow, archive, disk, crashes>>

\* The row goes back to what it was before: away, or shelved.
Unsave(w) ==
    /\ At(w, "unsave")
    /\ LET v == worker[w].vm
       IN  vmrow' = [vmrow EXCEPT ![v] =
              IF worker[w].op = "create" \/ @ = NoRow
              THEN NoRow
              ELSE [@ EXCEPT !.vm_status = "shelve", !.host = NoHost,
                             !.mac_ip = NoIp]]
    /\ Goto(w, "undo_ip")
    /\ ResourcesUnchanged
    /\ UNCHANGED <<archive, domain, disk, crashes>>

\* The clean-up of create_vm and unshelve_create_vm: the address, the host
\* if one was claimed, the disk if one was cloned.
UndoIp(w) ==
    /\ At(w, "undo_ip")
    /\ free_used_ip(worker[w].ip)
    /\ IF worker[w].host = NoHost THEN End(w) ELSE Goto(w, "undo_host")
    /\ UNCHANGED <<host, vmrow, archive, domain, disk, crashes>>

UndoHost(w) ==
    /\ At(w, "undo_host")
    /\ free(worker[w].host, worker[w].vcpu, worker[w].mem)
    /\ IF worker[w].op = "create" /\ disk[worker[w].vm] = "live"
       THEN Goto(w, "undo_disk")
       ELSE End(w)
    /\ UNCHANGED <<used, vmrow, archive, domain, disk, crashes>>

UndoDisk(w) ==
    /\ At(w, "undo_disk")
    /\ \/ disk' = [disk EXCEPT ![worker[w].vm] = "none"]
       \/ MayFail("remove") /\ UNCHANGED disk
    /\ End(w)
    /\ ResourcesUnchanged
    /\ UNCHANGED <<vmrow, archive, domain, crashes>>

\* vm_created_num_add_1, after the request can no longer fail.
Count(w) ==
    /\ At(w, "count")
    /\ vm_created_num_add_1(worker[w].host)
    /\ End(w)
    /\ UNCHANGED <<used, vmrow, archive, domain, disk, crashes>>

-----------------------------------------------------------------------------
(* Delete, shelve, delete of a shelved vm, removal of an archive record. *)

\* add_vm_archive and add_vm_delshelve_archive.  The uuid of an archive is
\* unique: a delete that is not forced ends here if there is one, the others
\* go on with the one there is.
Archive(w) ==
    /\ At(w, "archive")
    /\ LET v == worker[w].vm
           next == IF worker[w].op \in Deletes THEN "undefine" ELSE "rowdel"
           made == [state |-> "released", disk |-> "live", host |-> worker[w].host]
       IN  \/ /\ archive[v] = NoArchive
              /\ archive' = [archive EXCEPT ![v] = made]
              /\ worker' = [worker EXCEPT ![w].ahv = made, ![w].pc = next]
           \/ /\ archive[v] # NoArchive
              /\ IF worker[w].op \in {"delshelve", "force_delete"}
                 THEN worker' = [worker EXCEPT ![w].ahv = archive[v], ![w].pc = next]
                 ELSE End(w)
              /\ UNCHANGED archive
    /\ ResourcesUnchanged
    /\ UNCHANGED <<vmrow, domain, disk, crashes>>

\* VmDomain.undefine: a domain the host does not know counts as removed.
Undefine(w) ==
    /\ At(w, "undefine")
    /\ domain' = [domain EXCEPT ![worker[w].host] = @ \ {worker[w].vm}]
    /\ Goto(w, IF worker[w].op \in Deletes THEN "rowdel" ELSE "free_ip")
    /\ ResourcesUnchanged
    /\ UNCHANGED <<vmrow, archive, disk, crashes>>

\* A fault of UndefineHostDown that a run has to find:
\* set_host_released(False) is forgotten.
UndefineHostDown_unrecorded(w) ==
    /\ At(w, "undefine")
    /\ MayFail("host")
    /\ IF worker[w].op \in Deletes THEN Goto(w, "rowdel") ELSE End(w)
    /\ ResourcesUnchanged
    /\ UNCHANGED <<vmrow, archive, domain, disk, crashes>>

\* VirHostDown: a delete notes it in the archive record (a record that has
\* gone is not noted in) and goes on; a shelve fails.
UndefineHostDown(w) ==
    /\ At(w, "undefine")
    /\ MayFail("host")
    /\ LET v == worker[w].vm
       IN  IF worker[w].op \in Deletes
           THEN /\ archive' = [archive EXCEPT ![v] =
                      IF @ = NoArchive THEN @ ELSE [@ EXCEPT !.state = "pending"]]
                /\ worker' = [worker EXCEPT ![w].ahv.state = "pending",
                                            ![w].pc = "rowdel"]
           ELSE End(w) /\ UNCHANGED archive
    /\ ResourcesUnchanged
    /\ UNCHANGED <<vmrow, domain, disk, crashes>>

\* Any other failure: a delete removes its archive record.
UndefineFails(w) ==
    /\ At(w, "undefine")
    /\ MayFail("undefine")
    /\ IF worker[w].op \in Deletes THEN Goto(w, "ahv_release") ELSE End(w)
    /\ ResourcesUnchanged
    /\ UNCHANGED <<vmrow, archive, domain, disk, crashes>>

\* VmArchive.check_and_release_host: the undefine a host that was down still
\* owes.  If it fails the exception leaves the request.
ReleaseHost(w) ==
    /\ At(w, "ahv_release")
    /\ LET v == worker[w].vm
           h == worker[w].ahv.host
           pending == worker[w].ahv.state = "pending"
       IN  \/ /\ domain' = IF pending
                           THEN [domain EXCEPT ![h] = @ \ {v}]
                           ELSE domain
              /\ archive' = [archive EXCEPT ![v] =
                    IF @ = NoArchive THEN @ ELSE [@ EXCEPT !.state = "released"]]
              /\ worker' = [worker EXCEPT ![w].ahv.state = "released",
                                          ![w].pc = "ahv_disk"]
           \/ /\ pending
              /\ MayFail("undefine") \/ MayFail("host")
              /\ End(w)
              /\ UNCHANGED <<archive, domain>>
    /\ ResourcesUnchanged
    /\ UNCHANGED <<vmrow, disk, crashes>>

\* VmArchive.rm_sys_disk: removes the image of the name the record holds; an
\* image that is not there counts as removed.
RemoveDisk(w) ==
    /\ At(w, "ahv_disk")
    /\ LET v == worker[w].vm
       IN  \/ /\ disk' = [disk EXCEPT ![v] =
                    IF @ = worker[w].ahv.disk THEN "none" ELSE @]
              /\ archive' = [archive EXCEPT ![v].disk = "none"]
              /\ worker' = [worker EXCEPT ![w].ahv.disk = "none",
                                          ![w].pc = "ahv_row"]
           \/ /\ MayFail("ahv_remove")
              /\ worker[w].ahv.disk # "none"
              /\ End(w)
              /\ UNCHANGED <<disk, archive>>
    /\ ResourcesUnchanged
    /\ UNCHANGED <<vmrow, domain, crashes>>

\* The archive record goes; a forced delete goes on without it.
DeleteArchive(w) ==
    /\ At(w, "ahv_row")
    /\ archive' = [archive EXCEPT ![worker[w].vm] = NoArchive]
    /\ IF worker[w].op = "force_delete"
       THEN worker' = [worker EXCEPT ![w].ahv = NoArchive, ![w].pc = "rowdel"]
       ELSE End(w)
    /\ ResourcesUnchanged
    /\ UNCHANGED <<vmrow, domain, disk, crashes>>

\* Vm.delete: deleting a row that has gone is no error.
DeleteRow(w) ==
    /\ At(w, "rowdel")
    /\ vmrow' = [vmrow EXCEPT ![worker[w].vm] = NoRow]
    /\ Goto(w, IF worker[w].op \in Deletes THEN "uncount" ELSE "rename")
    /\ ResourcesUnchanged
    /\ UNCHANGED <<archive, domain, disk, crashes>>

\* A delete counts the vm out, then gives back its address and its claim; a
\* shelve does the same in another order.
Uncount(w) ==
    /\ At(w, "uncount")
    /\ vm_created_num_sub_1(worker[w].host)
    /\ Goto(w, IF worker[w].op \in Deletes THEN "free_ip" ELSE "shelve_save")
    /\ UNCHANGED <<used, vmrow, archive, domain, disk, crashes>>

FreeIp(w) ==
    /\ At(w, "free_ip")
    /\ set_free(worker[w].ip, worker[w].ip_used)
    /\ Goto(w, "free_host")
    /\ UNCHANGED <<host, vmrow, archive, domain, disk, crashes>>

FreeHost(w) ==
    /\ At(w, "free_host")
    /\ free(worker[w].host, worker[w].vcpu, worker[w].mem)
    /\ Goto(w, IF worker[w].op \in Deletes THEN "rename" ELSE "uncount")
    /\ UNCHANGED <<used, vmrow, archive, domain, disk, crashes>>

\* rename_sys_disk_archive: the image gets its archive name, then the record
\* does; if the record is not there to be updated the image is renamed back.
RenameDisk(w) ==
    /\ At(w, "rename")
    /\ LET v == worker[w].vm
       IN  \/ /\ worker[w].ahv.disk = "live"
              /\ disk[v] = "live"
              /\ disk' = [disk EXCEPT ![v] = "arch"]
              /\ Goto(w, "rename_save")
           \/ /\ \/ worker[w].ahv.disk # "live"
                 \/ disk[v] # "live"
                 \/ MayFail("rename")
              /\ End(w)
              /\ UNCHANGED disk
    /\ ResourcesUnchanged
    /\ UNCHANGED <<vmrow, archive, domain, crashes>>

\* A fault of RenameSave that a run has to find: the record is not saved.
RenameSave_unsaved(w) ==
    /\ At(w, "rename_save")
    /\ End(w)
    /\ ResourcesUnchanged
    /\ UNCHANGED <<vmrow, archive, domain, disk, crashes>>

\* The new name goes into the record.
RenameSave(w) ==
    /\ At(w, "rename_save")
    /\ LET v == worker[w].vm
       IN  \/ /\ archive[v] # NoArchive
              /\ archive' = [archive EXCEPT ![v].disk = "arch"]
              /\ UNCHANGED disk
           \/ /\ archive[v] = NoArchive
              /\ disk' = [disk EXCEPT ![v] = IF @ = "arch" THEN "live" ELSE @]
              /\ UNCHANGED archive
    /\ End(w)
    /\ ResourcesUnchanged
    /\ UNCHANGED <<vmrow, domain, crashes>>

\* A fault of ShelveSave that a run has to find: the row keeps its address.
ShelveSave_keepsIp(w) ==
    /\ At(w, "shelve_save")
    /\ vmrow' = [vmrow EXCEPT ![worker[w].vm].vm_status = "shelve",
                              ![worker[w].vm].host = NoHost,
                              ![worker[w].vm].last_ip = worker[w].ip]
    /\ End(w)
    /\ ResourcesUnchanged
    /\ UNCHANGED <<archive, domain, disk, crashes>>

\* The last statement of a shelve, after everything was given back.
ShelveSave(w) ==
    /\ At(w, "shelve_save")
    /\ vmrow' = [vmrow EXCEPT ![worker[w].vm] =
          IF @ = NoRow
          THEN @
          ELSE [@ EXCEPT !.vm_status = "shelve", !.host = NoHost,
                         !.mac_ip = NoIp, !.last_ip = worker[w].ip]]
    /\ End(w)
    /\ ResourcesUnchanged
    /\ UNCHANGED <<archive, domain, disk, crashes>>

-----------------------------------------------------------------------------
(* Change of vcpu and mem. *)

\* The amounts are computed from the row as it was loaded.
CpuDelta(w) == worker[w].vcpu - worker[w].row.vcpu
MemDelta(w) == worker[w].mem - worker[w].row.mem

\* Host.meet_needs and Host.deduct_delta.
Deduct(w) ==
    /\ At(w, "deduct")
    /\ LET h == worker[w].host
       IN  \/ /\ deduct_matches(h, CpuDelta(w), MemDelta(w))
              /\ deduct_delta(h, CpuDelta(w), MemDelta(w))
              /\ Goto(w, "redefine")
           \/ /\ ~deduct_matches(h, CpuDelta(w), MemDelta(w))
              /\ End(w)
              /\ UNCHANGED host
    /\ UNCHANGED <<used, vmrow, archive, domain, disk, crashes>>

\* VmDomain.define with the new xml makes a domain that is not there.
Redefine(w) ==
    /\ At(w, "redefine")
    /\ domain' = [domain EXCEPT ![worker[w].host] = @ \cup {worker[w].vm}]
    /\ Goto(w, "edit_save")
    /\ ResourcesUnchanged
    /\ UNCHANGED <<vmrow, archive, disk, crashes>>

Shrinks(w) == CpuDelta(w) < 0 \/ MemDelta(w) < 0

RedefineFails(w) ==
    /\ At(w, "redefine")
    /\ IF Shrinks(w) THEN MayFail("shrink") ELSE MayFail("grow")
    /\ Goto(w, "edit_undo")
    /\ ResourcesUnchanged
    /\ UNCHANGED <<vmrow, archive, domain, disk, crashes>>

\* Vm.save without update_fields writes every column as it was loaded, and
\* inserts the row if it has gone.
EditSave(w) ==
    /\ At(w, "edit_save")
    /\ LET v == worker[w].vm
           taken == \E x \in Vms \ {v} : vmrow[x].mac_ip = worker[w].ip
       IN  \/ /\ ~taken
              /\ vmrow' = [vmrow EXCEPT ![v] =
                    [worker[w].row EXCEPT !.vcpu = worker[w].vcpu,
                                          !.mem = worker[w].mem]]
              /\ End(w)
           \/ /\ taken
              /\ Goto(w, "save_undo")
              /\ UNCHANGED vmrow
    /\ ResourcesUnchanged
    /\ UNCHANGED <<archive, domain, disk, crashes>>

\* deduct_delta with the amounts negated; its answer is not looked at.  After
\* a save that failed the old xml is defined again.
EditUndo(w) ==
    /\ At(w, "edit_undo") \/ At(w, "save_undo")
    /\ LET h == worker[w].host
       IN  IF deduct_matches(h, -CpuDelta(w), -MemDelta(w))
           THEN deduct_delta(h, -CpuDelta(w), -MemDelta(w))
           ELSE UNCHANGED host
    /\ IF At(w, "save_undo") THEN Goto(w, "edit_redefine") ELSE End(w)
    /\ UNCHANGED <<used, vmrow, archive, domain, disk, crashes>>

EditRedefine(w) ==
    /\ At(w, "edit_redefine")
    /\ \/ domain' = [domain EXCEPT ![worker[w].host] = @ \cup {worker[w].vm}]
       \/ MayFail("grow") /\ UNCHANGED domain
    /\ End(w)
    /\ ResourcesUnchanged
    /\ UNCHANGED <<vmrow, archive, disk, crashes>>

-----------------------------------------------------------------------------
\* The process that serves a request dies: what it knew is lost, what it did
\* stays done.
Crash(w) ==
    /\ ~At(w, "idle")
    /\ worker[w].op \in CrashOps
    /\ crashes < MaxCrash
    /\ crashes' = crashes + 1
    /\ End(w)
    /\ ResourcesUnchanged
    /\ UNCHANGED <<vmrow, archive, domain, disk>>

Arrive(w) ==
    \E v \in Vms :
       \/ \E c \in VcpuSizes, m \in MemSizes : CreateStart(w, v, c, m)
       \/ \E op \in Deletes : DeleteStart(w, v, op)
       \/ ShelveStart(w, v)
       \/ UnshelveStart(w, v)
       \/ DelshelveStart(w, v)
       \/ \E c \in VcpuSizes \cup {0}, m \in MemSizes \cup {0} : EditStart(w, v, c, m)
       \/ PurgeStart(w, v)

Step(w) ==
    \/ Refuse(w)
    \/ ApplyIp(w) \/ PickHost(w) \/ SkipGroup(w) \/ NoGroupLeft(w)
    \/ PickIp(w) \/ NoFreeIp(w) \/ ClaimHost(w) \/ ClaimFails(w)
    \/ ClaimUndo(w) \/ Clone(w) \/ SaveRow(w) \/ Define(w) \/ Unsave(w)
    \/ UndoIp(w) \/ UndoHost(w) \/ UndoDisk(w) \/ Count(w)
    \/ Archive(w) \/ Undefine(w) \/ UndefineHostDown(w) \/ UndefineFails(w)
    \/ ReleaseHost(w) \/ RemoveDisk(w) \/ DeleteArchive(w) \/ DeleteRow(w)
    \/ Uncount(w) \/ FreeIp(w) \/ FreeHost(w) \/ RenameDisk(w)
    \/ RenameSave(w) \/ ShelveSave(w)
    \/ Deduct(w) \/ Redefine(w) \/ RedefineFails(w) \/ EditSave(w)
    \/ EditUndo(w) \/ EditRedefine(w)

Next == \E w \in Workers : Arrive(w) \/ Step(w) \/ Crash(w)

Spec == Init /\ [][Next]_vars
=============================================================================
