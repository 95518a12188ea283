---------------------------- MODULE Attachments ----------------------------
(***************************************************************************)
(* What is attached to virtual machines: virtual disks (src/vdisk), pci    *)
(* devices of a host (src/device) and further addresses (src/vms, class    *)
(* AttachmentsIPManager), from the request that attaches to the domain.    *)
(*                                                                         *)
(* An attachment is recorded twice, as a row of the database that names    *)
(* the vm and as a device of the domain libvirt knows.  A request writes   *)
(* one after the other and takes the first back when the second fails.     *)
(* Requests run in threads, workers here; the steps of different workers   *)
(* interleave, one statement or transaction of the database or one call of *)
(* libvirt or ceph at a time.                                              *)
(*                                                                         *)
(* The vm itself is reduced to its status: its quota and its own address   *)
(* are those of VmLifecycle.  Permissions only refuse a request.           *)
(***************************************************************************)
EXTENDS VdiskQuota, MacIpPool, DomainDevices, FiniteSets

CONSTANTS
    Workers,      \* request threads
    Vms,          \* virtual machines, by uuid
    DiskSize,     \* the size of every disk
    Workloads,    \* what a behaviour is made of, see Workload
    NoVm, NoThing, NoQuota

OpKinds == {"create_vdisk", "destroy_vdisk", "admin_delete",
            "mount_disk", "umount_disk", "mount_pci", "umount_pci",
            "attach_ip", "detach_ip", "delete_vm", "shelve", "unshelve",
            "delshelve", "miss_fix", "power", "lose"}

\* The kinds of request that arrive, the pairs of kinds that may run at a time
\* on the same vm or thing, those that may come again while the very same
\* request is served, the things they are about, and whether one may name, to
\* detach an address, a vm that does not hold it.
Workload == [ops : SUBSET OpKinds, overlaps : SUBSET (OpKinds \X OpKinds),
             repeats : SUBSET OpKinds, things : SUBSET Things, strangers : BOOLEAN]

ASSUME AttachmentAssumption ==
    /\ Workers # {} /\ IsFiniteSet(Workers) /\ IsFiniteSet(Disks)
    /\ Nics = Ips
    /\ DiskSize \in Nat \ {0}
    /\ Workloads \subseteq Workload
    /\ {NoVm, "none"} \cap Vms = {} /\ NoThing \notin Things /\ NoQuota \notin Quotas

VARIABLES
    workload,     \* of Workloads, the one this behaviour is made of
    vm_status,    \* Vm.vm_status, "none" once the row is gone
    domain,       \* the domain of each vm
    vdisk,        \* the Vdisk rows
    image,        \* rbd images of the disks, by the name they have
    pci,          \* PCIDevice.vm
    attached,     \* the AttachmentsIP rows: "none", or the vm
    worker        \* the requests being served

vars == <<size_used, used, workload, vm_status, domain, vdisk, image, pci,
          attached, worker>>

-----------------------------------------------------------------------------
(* Rows and records. *)

VdiskRow == [state : {"none", "live", "deleted"}, vm : Vms \cup {NoVm},
             dev : 0 .. MaxDev, quota : Quotas \cup {NoQuota}]

NoRow == [state |-> "none", vm |-> NoVm, dev |-> 0, quota |-> NoQuota]

\* A disk's image is named by its uuid, or x_vd_<time>_<uuid> once deleted.
ImageName == {"none", "uuid", "deleted"}

Pcs == {"idle", "claim", "save", "create_image", "unsave", "undo_claim",
        "soft_delete", "rename", "remove_image", "free", "rowdel",
        "mount_row", "attach", "undo_mount", "detach", "umount_row",
        "ip_apply", "ip_row", "free_ip", "ip_rowdel",
        "att_check", "undefine", "vm_rowdel", "shelve_save",
        "unshelve_save", "define", "mount_vdisks", "fix_attach", "fix_umount"}

WorkerState ==
    [pc : Pcs, op : OpKinds \cup {"none"},
     vm : Vms \cup {NoVm}, thing : Things \cup {NoThing},
     dev : 0 .. MaxDev,            \* the device name chosen for a disk
     quota : Quotas \cup {NoQuota},
     loaded : [Quotas -> Int],     \* size_used as the request read it
     name : ImageName,             \* rbd_name as the request read it
     todo : SUBSET Slots]          \* disks of a loop not yet tried

Idle == [pc |-> "idle", op |-> "none", vm |-> NoVm, thing |-> NoThing, dev |-> 0,
         quota |-> NoQuota, loaded |-> [q \in Quotas |-> 0], name |-> "none",
         todo |-> {}]

TypeOK ==
    /\ QuotaTypeOK
    /\ IpTypeOK
    /\ workload \in Workloads
    /\ vm_status \in [Vms -> {"none", "normal", "shelve"}]
    /\ domain \in [Vms -> DomainState]
    /\ vdisk \in [Disks -> VdiskRow]
    /\ image \in [Disks -> ImageName]
    /\ pci \in [Devices -> Vms \cup {NoVm}]
    /\ attached \in [Ips -> Vms \cup {NoVm, "none"}]
    /\ worker \in [Workers -> WorkerState]

\* Vms as VmBuilder leaves them, shut off, and nothing attached.
Init ==
    /\ QuotaInit
    /\ IpInit
    /\ workload \in Workloads
    /\ vm_status = [v \in Vms |-> "normal"]
    /\ domain = [v \in Vms |-> Defined]
    /\ vdisk = [d \in Disks |-> NoRow]
    /\ image = [d \in Disks |-> "none"]
    /\ pci = [p \in Devices |-> NoVm]
    /\ attached = [i \in Ips |-> "none"]
    /\ worker = [w \in Workers |-> Idle]

-----------------------------------------------------------------------------
(* Control of a worker. *)

At(w, pc) == worker[w].pc = pc

Goto(w, pc) == worker' = [worker EXCEPT ![w].pc = pc]

End(w) == worker' = [worker EXCEPT ![w] = Idle]

Begin(w, op, v, t, pc) ==
    worker' = [worker EXCEPT ![w] = [Idle EXCEPT !.op = op, !.vm = v, !.thing = t,
                                                 !.pc = pc]]

BusyOn(v, t) ==
    {w \in Workers : \/ v # NoVm /\ worker[w].vm = v
                     \/ t # NoThing /\ worker[w].thing = t}

MayStart(w, op, v, t) ==
    /\ At(w, "idle")
    /\ op \in workload.ops /\ t \in workload.things \cup {NoThing}
    /\ \A x \in BusyOn(v, t) :
          /\ {<<worker[x].op, op>>, <<op, worker[x].op>>} \cap workload.overlaps # {}
          /\ op \in workload.repeats \/ <<worker[x].op, worker[x].vm, worker[x].thing>> # <<op, v, t>>

Normal(v) == vm_status[v] = "normal"

MountedOn(v) == {d \in Disks : vdisk[d].vm = v}

\* The rows that name a vm and the domains; the disks and their pools.
RowsUnchanged == UNCHANGED <<vdisk, pci, attached, used>>
PoolUnchanged == UNCHANGED <<size_used, image>>
VmsUnchanged == UNCHANGED <<vm_status, domain>>

-----------------------------------------------------------------------------
(* Virtual disks: create_vdisk, the destroy of the API and the delete of   *)
(* the administration pages.                                               *)

\* The uuid is new: no row, no image and no request has it.
CreateVdisk(w, d) ==
    /\ MayStart(w, "create_vdisk", NoVm, d)
    /\ vdisk[d] = NoRow /\ image[d] = "none" /\ BusyOn(NoVm, d) = {}
    /\ worker' = [worker EXCEPT ![w] = [Idle EXCEPT !.op = "create_vdisk",
                     !.thing = d, !.loaded = size_used, !.pc = "claim"]]
    /\ RowsUnchanged /\ PoolUnchanged /\ VmsUnchanged

\* A pool named by the request, or any of the group that can take the disk:
\* the loop goes through them in no declared order.
schedule_by_quota(loaded, q) == {x \in {q} : Quota_can_claim(loaded, x, DiskSize)}
schedule_quota(loaded) == {x \in Quotas : Quota_can_claim(loaded, x, DiskSize)}

ClaimQuota(w) ==
    /\ At(w, "claim")
    /\ \E asked \in Quotas \cup {NoQuota} :
          LET found == IF asked = NoQuota THEN schedule_quota(worker[w].loaded)
                       ELSE schedule_by_quota(worker[w].loaded, asked)
          IN  \/ found = {} /\ End(w) /\ UNCHANGED size_used
              \/ \E q \in found :
                    /\ Quota_claim(q, DiskSize)
                    /\ worker' = [worker EXCEPT ![w].pc = "save", ![w].quota = q,
                                                ![w].loaded = Idle.loaded]
    /\ UNCHANGED image /\ RowsUnchanged /\ VmsUnchanged

SaveVdisk(w) ==
    /\ At(w, "save")
    /\ vdisk' = [vdisk EXCEPT ![worker[w].thing] =
                    [NoRow EXCEPT !.state = "live", !.quota = worker[w].quota]]
    /\ Goto(w, "create_image")
    /\ UNCHANGED <<pci, attached, used>> /\ PoolUnchanged /\ VmsUnchanged

CreateCephDisk(w) ==
    /\ At(w, "create_image")
    /\ \/ image' = [image EXCEPT ![worker[w].thing] = "uuid"] /\ End(w)
       \/ MayFail("create_image") /\ UNCHANGED image /\ Goto(w, "unsave")
    /\ UNCHANGED size_used /\ RowsUnchanged /\ VmsUnchanged

UnsaveVdisk(w) ==
    /\ At(w, "unsave")
    /\ vdisk' = [vdisk EXCEPT ![worker[w].thing] = NoRow]
    /\ Goto(w, "undo_claim")
    /\ UNCHANGED <<pci, attached, used>> /\ PoolUnchanged /\ VmsUnchanged

\* A fault of UndoClaim that a run has to find: the claim is not given back.
UndoClaim_keeps(w) ==
    /\ At(w, "undo_claim")
    /\ End(w)
    /\ PoolUnchanged /\ RowsUnchanged /\ VmsUnchanged

UndoClaim(w) ==
    /\ At(w, "undo_claim")
    /\ Quota_free(worker[w].quota, DiskSize)
    /\ End(w)
    /\ UNCHANGED image /\ RowsUnchanged /\ VmsUnchanged

\* A fault of DestroyVdisk that a run has to find: a mounted disk is not refused.
DestroyVdisk_mounted(w, d) ==
    /\ MayStart(w, "destroy_vdisk", NoVm, d)
    /\ vdisk[d].state = "live"
    /\ Begin(w, "destroy_vdisk", NoVm, d, "soft_delete")
    /\ RowsUnchanged /\ PoolUnchanged /\ VmsUnchanged

\* VDiskViewSet.destroy refuses a disk that is mounted, on the row it read.
DestroyVdisk(w, d) ==
    /\ MayStart(w, "destroy_vdisk", NoVm, d)
    /\ vdisk[d].state = "live"
    /\ vdisk[d].vm = NoVm
    /\ Begin(w, "destroy_vdisk", NoVm, d, "soft_delete")
    /\ RowsUnchanged /\ PoolUnchanged /\ VmsUnchanged

\* Writes the column `deleted` alone; without a row nothing is updated, which
\* is an error.  The quota stays with the disk until its row is removed.
SoftDelete(w) ==
    /\ At(w, "soft_delete")
    /\ IF vdisk[worker[w].thing].state = "none"
       THEN End(w) /\ UNCHANGED vdisk
       ELSE /\ vdisk' = [vdisk EXCEPT ![worker[w].thing].state = "deleted"]
            /\ Goto(w, "rename")
    /\ UNCHANGED <<pci, attached, used>> /\ PoolUnchanged /\ VmsUnchanged

\* An image that cannot be renamed, or whose row cannot be saved, keeps its
\* name; the request succeeds all the same.
RenameDiskRbdName(w) ==
    LET d == worker[w].thing IN
    /\ At(w, "rename")
    /\ \/ /\ image[d] = "uuid" /\ vdisk[d].state # "none"
          /\ image' = [image EXCEPT ![d] = "deleted"]
       \/ (image[d] # "uuid" \/ MayFail("rename_image")) /\ UNCHANGED image
    /\ End(w)
    /\ UNCHANGED size_used /\ RowsUnchanged /\ VmsUnchanged

\* VdiskAdmin.delete_queryset: any disk, deleted or not, that is not mounted.
AdminDelete(w, d) ==
    /\ MayStart(w, "admin_delete", NoVm, d)
    /\ vdisk[d].state # "none"
    /\ vdisk[d].vm = NoVm
    /\ worker' = [worker EXCEPT ![w] = [Idle EXCEPT !.op = "admin_delete",
                     !.thing = d, !.quota = vdisk[d].quota, !.name = image[d],
                     !.pc = "remove_image"]]
    /\ RowsUnchanged /\ PoolUnchanged /\ VmsUnchanged

\* ceph refuses to remove an image that a machine has open, and an image that
\* does not exist counts as removed.
InUse(d) == \E v \in Vms : \E s \in domain[v].live : s.thing = d

RemoveCephDisk(w) ==
    LET d == worker[w].thing IN
    /\ At(w, "remove_image")
    /\ \/ /\ ~(image[d] = worker[w].name /\ InUse(d))
          /\ image' = [image EXCEPT ![d] = IF @ = worker[w].name THEN "none" ELSE @]
          /\ Goto(w, "free")
       \/ /\ InUse(d) \/ MayFail("remove_image")
          /\ UNCHANGED image
          /\ End(w)
    /\ UNCHANGED size_used /\ RowsUnchanged /\ VmsUnchanged

FreeVdisk(w) ==
    /\ At(w, "free")
    /\ Quota_free(worker[w].quota, DiskSize)
    /\ Goto(w, "rowdel")
    /\ UNCHANGED image /\ RowsUnchanged /\ VmsUnchanged

DeleteVdiskRow(w) ==
    /\ At(w, "rowdel")
    /\ vdisk' = [vdisk EXCEPT ![worker[w].thing] = NoRow]
    /\ End(w)
    /\ UNCHANGED <<pci, attached, used>> /\ PoolUnchanged /\ VmsUnchanged

-----------------------------------------------------------------------------
(* Calls of libvirt on the domain of the request.  A domain that is not on *)
(* the host makes any of them fail.                                        *)

SlotOf(w) == [thing |-> worker[w].thing, dev |-> worker[w].dev]

AttachResults(v, slot) ==
    IF domain[v].defined THEN attach_device(domain[v], slot)
                         ELSE {Result(FALSE, domain[v])}

DetachResults(v, slot) ==
    IF domain[v].defined THEN detach_device(domain[v], slot)
                         ELSE {Result(FALSE, domain[v])}

UndoOf(w) == IF worker[w].op = "attach_ip" THEN "free_ip" ELSE "undo_mount"

Attach(w) ==
    LET v == worker[w].vm IN
    /\ At(w, "attach")
    /\ \E r \in AttachResults(v, SlotOf(w)) :
          /\ domain' = [domain EXCEPT ![v] = r.domain]
          /\ IF r.ok THEN End(w) ELSE Goto(w, UndoOf(w))
    /\ UNCHANGED vm_status /\ RowsUnchanged /\ PoolUnchanged

\* The address of a detach that failed is taken again; a device or a disk
\* stays as recorded.
Detach(w) ==
    LET v == worker[w].vm IN
    /\ At(w, "detach")
    /\ \E r \in DetachResults(v, SlotOf(w)) :
          /\ domain' = [domain EXCEPT ![v] = r.domain]
          /\ CASE worker[w].op = "detach_ip" -> IF r.ok THEN End(w) ELSE Goto(w, "ip_apply")
               [] OTHER -> IF r.ok THEN Goto(w, "umount_row") ELSE End(w)
    /\ UNCHANGED vm_status /\ RowsUnchanged /\ PoolUnchanged

\* The row is cleared whichever vm it names.
UnmountRow(t) ==
    IF t \in Disks
    THEN /\ vdisk' = [vdisk EXCEPT ![t].vm = NoVm, ![t].dev = 0]
         /\ UNCHANGED pci
    ELSE pci' = [pci EXCEPT ![t] = NoVm] /\ UNCHANGED vdisk

\* umount_from_vm after an attach that failed; an error of it is only logged.
UndoMount(w) ==
    /\ At(w, "undo_mount")
    /\ UnmountRow(worker[w].thing)
    /\ End(w)
    /\ UNCHANGED <<attached, used>> /\ PoolUnchanged /\ VmsUnchanged

\* A disk whose row is gone cannot be unmounted: it is attached again.
UmountRow(w) ==
    LET t == worker[w].thing
        v == worker[w].vm
    IN
    /\ At(w, "umount_row")
    /\ IF t \in Disks /\ vdisk[t].state = "none"
       THEN /\ \E r \in AttachResults(v, SlotOf(w)) : domain' = [domain EXCEPT ![v] = r.domain]
            /\ UNCHANGED <<vdisk, pci>>
       ELSE UnmountRow(t) /\ UNCHANGED domain
    /\ End(w)
    /\ UNCHANGED <<vm_status, attached, used>> /\ PoolUnchanged

-----------------------------------------------------------------------------
(* Disks: VmInstance.mount_disk and umount_disk.                           *)

\* A fault of NewDev that a run has to find: vda, of the system disk, is taken
\* for free.
NewDev_fromVda(d) ==
    LET free_dev == {n \in 0 .. MaxDev : \A s \in xml_desc(d) : s.dev # n}
    IN  {n \in free_dev : \A m \in free_dev : n <= m}

\* new_vdisk_dev: the first name no disk of the description has.
NewDev(d) ==
    LET free_dev == {n \in 1 .. MaxDev : \A s \in xml_desc(d) : s.dev # n}
    IN  {n \in free_dev : \A m \in free_dev : n <= m}

MountDisk(w, d, v) ==
    /\ MayStart(w, "mount_disk", v, d)
    /\ vdisk[d].state = "live"
    /\ Normal(v) /\ domain[v].defined
    /\ \A s \in xml_desc(domain[v]) : s.thing # d
    /\ \E n \in NewDev(domain[v]) :
          worker' = [worker EXCEPT ![w] = [Idle EXCEPT !.op = "mount_disk", !.vm = v,
                        !.thing = d, !.dev = n, !.pc = "mount_row"]]
    /\ RowsUnchanged /\ PoolUnchanged /\ VmsUnchanged

\* A fault of MountRow that a run has to find: the row is not looked at again.
MountRow_blind(w) ==
    LET d == worker[w].thing
        v == worker[w].vm
    IN
    /\ At(w, "mount_row")
    /\ vdisk' = [vdisk EXCEPT ![d].vm = v, ![d].dev = worker[w].dev]
    /\ Goto(w, "attach")
    /\ UNCHANGED <<pci, attached, used>> /\ PoolUnchanged /\ VmsUnchanged

\* mount_to_vm and BasePCIDevice.mount, under the lock of the row: nothing is
\* written, and the request goes on, if the row names this vm already.  That
\* the disk was deleted meanwhile is not looked at.
MountRow(w) ==
    LET t == worker[w].thing
        v == worker[w].vm
        holder == IF t \in Disks THEN vdisk[t].vm ELSE pci[t]
        gone == vm_status[v] = "none" \/ (t \in Disks /\ vdisk[t].state = "none")
    IN
    /\ At(w, "mount_row")
    /\ IF gone \/ holder \notin {v, NoVm}
       THEN End(w) /\ UNCHANGED <<vdisk, pci>>
       ELSE /\ Goto(w, "attach")
            /\ IF holder = v THEN UNCHANGED <<vdisk, pci>>
               ELSE IF t \in Disks
                    THEN /\ vdisk' = [vdisk EXCEPT ![t].vm = v, ![t].dev = worker[w].dev]
                         /\ UNCHANGED pci
                    ELSE pci' = [pci EXCEPT ![t] = v] /\ UNCHANGED vdisk
    /\ UNCHANGED <<attached, used>> /\ PoolUnchanged /\ VmsUnchanged

\* A fault of UmountDisk that a run has to find: the first disk is detached,
\* whatever name the row has.
UmountDisk_first(w, d) ==
    LET v == vdisk[d].vm IN
    /\ MayStart(w, "umount_disk", v, d)
    /\ vdisk[d].state = "live" /\ v # NoVm
    /\ Normal(v)
    /\ worker' = [worker EXCEPT ![w] = [Idle EXCEPT !.op = "umount_disk", !.vm = v,
                     !.thing = d, !.dev = 1, !.pc = "detach"]]
    /\ RowsUnchanged /\ PoolUnchanged /\ VmsUnchanged

\* Under the name the row has, which is the one it was mounted with.
UmountDisk(w, d) ==
    LET v == vdisk[d].vm IN
    /\ MayStart(w, "umount_disk", v, d)
    /\ vdisk[d].state = "live" /\ v # NoVm
    /\ Normal(v)
    /\ worker' = [worker EXCEPT ![w] = [Idle EXCEPT !.op = "umount_disk", !.vm = v,
                     !.thing = d, !.dev = vdisk[d].dev, !.pc = "detach"]]
    /\ RowsUnchanged /\ PoolUnchanged /\ VmsUnchanged

-----------------------------------------------------------------------------
(* Pci devices of a host, on a vm that is shut off.                        *)

MountPci(w, p, v) ==
    /\ MayStart(w, "mount_pci", v, p)
    /\ pci[p] = NoVm
    /\ Normal(v) /\ domain[v].defined /\ ~domain[v].running
    /\ Begin(w, "mount_pci", v, p, "mount_row")
    /\ RowsUnchanged /\ PoolUnchanged /\ VmsUnchanged

UmountPci(w, p) ==
    LET v == pci[p] IN
    /\ MayStart(w, "umount_pci", v, p)
    /\ v # NoVm
    /\ Normal(v) /\ domain[v].defined /\ ~domain[v].running
    /\ Begin(w, "umount_pci", v, p, "detach")
    /\ RowsUnchanged /\ PoolUnchanged /\ VmsUnchanged

-----------------------------------------------------------------------------
(* Further addresses: VmInstance.attach_ip_vm and detach_ip_vm.            *)

AttachIp(w, i, v) ==
    /\ MayStart(w, "attach_ip", v, i)
    /\ can_used(i)
    /\ Normal(v)
    /\ attached[i] = "none"
    /\ Begin(w, "attach_ip", v, i, "ip_apply")
    /\ RowsUnchanged /\ PoolUnchanged /\ VmsUnchanged

ApplyIp(w) ==
    LET i == worker[w].thing IN
    /\ At(w, "ip_apply")
    /\ \/ apply_for_free_ip(i) /\ Goto(w, "ip_row")
       \/ ~can_used(i) /\ End(w) /\ UNCHANGED used
    /\ UNCHANGED <<vdisk, pci, attached>> /\ PoolUnchanged /\ VmsUnchanged

\* The row, unique per address, is saved whether or not the vm still exists.
\* If there is one already the address is given back on the object the
\* request loaded: a no-op for an attach, which loaded a free one.
AttachRow(w) ==
    LET i == worker[w].thing IN
    /\ At(w, "ip_row")
    /\ IF attached[i] = "none"
       THEN /\ attached' = [attached EXCEPT ![i] = worker[w].vm]
            /\ IF worker[w].op = "attach_ip" THEN Goto(w, "attach") ELSE End(w)
            /\ UNCHANGED used
       ELSE /\ set_free(i, worker[w].op = "detach_ip")
            /\ End(w)
            /\ UNCHANGED attached
    /\ UNCHANGED <<vdisk, pci>> /\ PoolUnchanged /\ VmsUnchanged

\* The vm of the request need not be the one that holds the address.
DetachIp(w, i, v) ==
    /\ MayStart(w, "detach_ip", v, i)
    /\ i \in Enabled
    /\ Normal(v)
    /\ attached[i] # "none"
    /\ workload.strangers \/ attached[i] = v
    /\ Begin(w, "detach_ip", v, i, "free_ip")
    /\ RowsUnchanged /\ PoolUnchanged /\ VmsUnchanged

\* detach_ip_to_vm: the address is free again before the row of the attachment
\* is gone.  That there is a row a detach has seen when it began, the undoing of
\* an attach sees now.
FreeAttachedIp(w) ==
    /\ At(w, "free_ip")
    /\ IF worker[w].op = "attach_ip" /\ attached[worker[w].thing] = "none"
       THEN End(w) /\ UNCHANGED used
       ELSE free_used_ip(worker[w].thing) /\ Goto(w, "ip_rowdel")
    /\ UNCHANGED <<vdisk, pci, attached>> /\ PoolUnchanged /\ VmsUnchanged

\* The row deleted is that of the address, whoever wrote it.
DeleteAttachedIp(w) ==
    /\ At(w, "ip_rowdel")
    /\ attached' = [attached EXCEPT ![worker[w].thing] = "none"]
    /\ IF worker[w].op = "detach_ip" THEN Goto(w, "detach") ELSE End(w)
    /\ UNCHANGED <<vdisk, pci, used>> /\ PoolUnchanged /\ VmsUnchanged

-----------------------------------------------------------------------------
(* What the operations on a vm do with its attachments.                    *)

PowerOn(w, v) ==
    /\ MayStart(w, "power", v, NoThing)
    /\ Normal(v) /\ domain[v].defined
    /\ \A s \in domain[v].config : s.thing \in Disks => image[s.thing] = "uuid"
    /\ domain' = [domain EXCEPT ![v] = start(@)]
    /\ UNCHANGED <<vm_status, worker>> /\ RowsUnchanged /\ PoolUnchanged

PowerOff(w, v) ==
    /\ MayStart(w, "power", v, NoThing)
    /\ Normal(v) /\ domain[v].running
    /\ domain' = [domain EXCEPT ![v] = power_off_domain(@)]
    /\ UNCHANGED <<vm_status, worker>> /\ RowsUnchanged /\ PoolUnchanged

\* The machine is powered off before anything that may refuse the delete.
DeleteVm(w, v) ==
    /\ MayStart(w, "delete_vm", v, NoThing)
    /\ Normal(v)
    /\ domain' = [domain EXCEPT ![v] = power_off_domain(@)]
    /\ Begin(w, "delete_vm", v, NoThing, "att_check")
    /\ UNCHANGED vm_status /\ RowsUnchanged /\ PoolUnchanged

HasAttachedIp(v) == \E i \in Ips : attached[i] = v

\* A fault of CheckAttachedIp that a run has to find: the check is not made.
CheckAttachedIp_skipped(w) ==
    /\ At(w, "att_check")
    /\ Goto(w, "undefine")
    /\ RowsUnchanged /\ PoolUnchanged /\ VmsUnchanged

CheckAttachedIp(w) ==
    /\ At(w, "att_check")
    /\ IF HasAttachedIp(worker[w].vm) THEN End(w) ELSE Goto(w, "undefine")
    /\ RowsUnchanged /\ PoolUnchanged /\ VmsUnchanged

\* A vm with any pci device is refused: of a GPU or a network card the
\* shelve calls device.umount(), which a PCIDevice does not have.
Shelve(w, v) ==
    /\ MayStart(w, "shelve", v, NoThing)
    /\ Normal(v) /\ domain[v].defined /\ ~domain[v].running
    /\ \A p \in Devices : pci[p] # v
    /\ Begin(w, "shelve", v, NoThing, "att_check")
    /\ RowsUnchanged /\ PoolUnchanged /\ VmsUnchanged

\* A domain that is gone already counts as undefined; one that runs is
\* destroyed first, also when undefining it then fails.
Undefine(w) ==
    LET v == worker[w].vm IN
    /\ At(w, "undefine")
    /\ \/ /\ domain' = [domain EXCEPT ![v] = NoDomain]
          /\ Goto(w, IF worker[w].op = "shelve" THEN "shelve_save" ELSE "vm_rowdel")
       \/ /\ MayFail("undefine")
          /\ domain' = [domain EXCEPT ![v] = power_off_domain(@)]
          /\ End(w)
    /\ UNCHANGED vm_status /\ RowsUnchanged /\ PoolUnchanged

\* SET_NULL in whatever names the vm; umount_all_from_vm, called next, finds
\* no disk any more.
DeleteVmRow(w) ==
    LET v == worker[w].vm IN
    /\ At(w, "vm_rowdel")
    /\ vm_status' = [vm_status EXCEPT ![v] = "none"]
    /\ vdisk' = [d \in Disks |-> IF vdisk[d].vm = v THEN [vdisk[d] EXCEPT !.vm = NoVm]
                                  ELSE vdisk[d]]
    /\ pci' = [p \in Devices |-> IF pci[p] = v THEN NoVm ELSE pci[p]]
    /\ attached' = [i \in Ips |-> IF attached[i] = v THEN NoVm ELSE attached[i]]
    /\ End(w)
    /\ UNCHANGED <<domain, used>> /\ PoolUnchanged

ShelveSave(w) ==
    LET v == worker[w].vm IN
    /\ At(w, "shelve_save")
    /\ vm_status' = [vm_status EXCEPT ![v] = IF @ = "none" THEN @ ELSE "shelve"]
    /\ End(w)
    /\ UNCHANGED domain /\ RowsUnchanged /\ PoolUnchanged

Delshelve(w, v) ==
    /\ MayStart(w, "delshelve", v, NoThing)
    /\ vm_status[v] = "shelve"
    /\ Begin(w, "delshelve", v, NoThing, "vm_rowdel")
    /\ RowsUnchanged /\ PoolUnchanged /\ VmsUnchanged

Unshelve(w, v) ==
    /\ MayStart(w, "unshelve", v, NoThing)
    /\ vm_status[v] = "shelve"
    /\ Begin(w, "unshelve", v, NoThing, "unshelve_save")
    /\ RowsUnchanged /\ PoolUnchanged /\ VmsUnchanged

UnshelveSave(w) ==
    LET v == worker[w].vm IN
    /\ At(w, "unshelve_save")
    /\ vm_status' = [vm_status EXCEPT ![v] = IF @ = "none" THEN @ ELSE "normal"]
    /\ IF vm_status[v] = "none" THEN End(w) ELSE Goto(w, "define")
    /\ UNCHANGED domain /\ RowsUnchanged /\ PoolUnchanged

\* miss_fix: of a vm that libvirt does not have any more.
MissFix(w, v) ==
    /\ MayStart(w, "miss_fix", v, NoThing)
    /\ Normal(v) /\ ~domain[v].defined
    /\ Begin(w, "miss_fix", v, NoThing, "define")
    /\ RowsUnchanged /\ PoolUnchanged /\ VmsUnchanged

\* The description is built anew: a system disk, without what was attached.
\* miss_fix then reads the disks it has to attach.
Define(w) ==
    LET v == worker[w].vm
        rows == {[thing |-> d, dev |-> vdisk[d].dev] : d \in MountedOn(v)}
    IN
    /\ At(w, "define")
    /\ \/ /\ domain' = [domain EXCEPT ![v] = Defined]
          /\ IF worker[w].op = "unshelve" THEN Goto(w, "mount_vdisks")
             ELSE worker' = [worker EXCEPT ![w].pc = "fix_attach", ![w].todo = rows]
          /\ UNCHANGED vm_status
       \/ /\ MayFail("define")
          /\ UNCHANGED domain
          /\ vm_status' = IF worker[w].op = "unshelve"
                           THEN [vm_status EXCEPT ![v] = "shelve"] ELSE vm_status
          /\ End(w)
    /\ RowsUnchanged /\ PoolUnchanged

\* mount_vdisks returns inside its loop: of the disks one is attached.
MountVdisks(w) ==
    LET v == worker[w].vm IN
    /\ At(w, "mount_vdisks")
    /\ IF MountedOn(v) = {} THEN UNCHANGED domain
       ELSE \E d \in MountedOn(v) :
               \E r \in AttachResults(v, [thing |-> d, dev |-> vdisk[d].dev]) :
                  domain' = [domain EXCEPT ![v] = r.domain]
    /\ End(w)
    /\ UNCHANGED vm_status /\ RowsUnchanged /\ PoolUnchanged

\* One turn of the loop of miss_fix: a disk that cannot be attached is
\* unmounted, any other stays.  Devices and addresses are not attached again.
FixAttach(w) ==
    LET v == worker[w].vm IN
    /\ At(w, "fix_attach")
    /\ \/ worker[w].todo = {} /\ End(w) /\ UNCHANGED domain
       \/ \E s \in worker[w].todo : \E r \in AttachResults(v, s) :
             /\ domain' = [domain EXCEPT ![v] = r.domain]
             /\ worker' = [worker EXCEPT ![w].todo = @ \ {s},
                                         ![w].thing = s.thing,
                                         ![w].pc = IF r.ok THEN @ ELSE "fix_umount"]
    /\ UNCHANGED vm_status /\ RowsUnchanged /\ PoolUnchanged

FixUmount(w) ==
    /\ At(w, "fix_umount")
    /\ UnmountRow(worker[w].thing)
    /\ Goto(w, "fix_attach")
    /\ UNCHANGED <<attached, used>> /\ PoolUnchanged /\ VmsUnchanged

\* Outside the program: the host loses the domain of a vm.
Lose(w, v) ==
    /\ MayStart(w, "lose", v, NoThing)
    /\ MayFail("lost")
    /\ domain[v].defined
    /\ domain' = [domain EXCEPT ![v] = NoDomain]
    /\ UNCHANGED <<vm_status, worker>> /\ RowsUnchanged /\ PoolUnchanged

-----------------------------------------------------------------------------

DiskRequest(w) ==
    \E d \in Disks :
        \/ CreateVdisk(w, d)
        \/ DestroyVdisk(w, d)
        \/ AdminDelete(w, d)
        \/ UmountDisk(w, d)
        \/ \E v \in Vms : MountDisk(w, d, v)

DeviceRequest(w) ==
    \/ \E p \in Devices : UmountPci(w, p) \/ \E v \in Vms : MountPci(w, p, v)
    \/ \E i \in Ips, v \in Vms : AttachIp(w, i, v) \/ DetachIp(w, i, v)

VmRequest(w) ==
    \E v \in Vms :
        \/ PowerOn(w, v)
        \/ PowerOff(w, v)
        \/ DeleteVm(w, v)
        \/ Shelve(w, v)
        \/ Unshelve(w, v)
        \/ Delshelve(w, v)
        \/ MissFix(w, v)
        \/ Lose(w, v)

\* What a worker does next with the request it serves.
Serve(w) ==
    \/ ClaimQuota(w) \/ SaveVdisk(w) \/ CreateCephDisk(w) \/ UnsaveVdisk(w) \/ UndoClaim(w)
    \/ SoftDelete(w) \/ RenameDiskRbdName(w)
    \/ RemoveCephDisk(w) \/ FreeVdisk(w) \/ DeleteVdiskRow(w)
    \/ MountRow(w) \/ Attach(w) \/ UndoMount(w) \/ Detach(w) \/ UmountRow(w)
    \/ ApplyIp(w) \/ AttachRow(w) \/ FreeAttachedIp(w) \/ DeleteAttachedIp(w)
    \/ CheckAttachedIp(w) \/ Undefine(w) \/ DeleteVmRow(w) \/ ShelveSave(w)
    \/ UnshelveSave(w) \/ Define(w) \/ MountVdisks(w) \/ FixAttach(w) \/ FixUmount(w)

Next ==
    /\ UNCHANGED workload
    /\ \E w \in Workers : DiskRequest(w) \/ DeviceRequest(w) \/ VmRequest(w) \/ Serve(w)

Spec == Init /\ [][Next]_vars
=============================================================================
