--------------------------- MODULE AttachmentProofs -------------------------
(***************************************************************************)
(* Proofs about Attachments, for any number of requests, vms, disks,       *)
(* devices, addresses and pools: that every record and row stays of its    *)
(* type and every request at a step of its kind; that the pools of the     *)
(* disks are never overcommitted by more than a disk for each request but  *)
(* one; that, if a disk is removed for good alone, a pool counts as used   *)
(* exactly what its disks take; and that, if requests that would undo each *)
(* other do not meet, what a machine has is recorded for it, a disk is in  *)
(* one machine, its image is there as long as its row, and an address that *)
(* is attached is not given to another.                                    *)
(***************************************************************************)
EXTENDS AttachmentProperties, FiniteSetTheorems, TLAPS

-----------------------------------------------------------------------------
(* What libvirt makes of a domain.                                         *)

Plugged(d, a) ==
    [d EXCEPT !.config = @ \cup {a}, !.live = IF d.running THEN @ \cup {a} ELSE @]

Unplugged(d, a) ==
    [d EXCEPT !.config = @ \ Target(d.config, a),
              !.live = IF d.running THEN @ \ Target(d.live, a) ELSE @]

\* A device that fits goes into both descriptions; one that is refused goes
\* into none, unless it cannot be taken out of the live one again.
LEMMA AttachCases ==
    ASSUME NEW d \in DomainState, NEW a \in Slots, NEW r \in attach_device(d, a)
    PROVE  \/ /\ r.ok /\ r.domain = Plugged(d, a)
              /\ Fits(d.config, a) /\ (d.running => Fits(d.live, a))
           \/ ~r.ok /\ r.domain = d
           \/ /\ ~r.ok /\ d.running /\ MayFail("detach_live")
              /\ r.domain = [d EXCEPT !.live = @ \cup {a}]
<1>1. ASSUME NEW e \in DomainState, NEW c \in attach_device_persisted(e, a)
      PROVE  \/ c.ok /\ Fits(e.config, a) /\ c.domain = [e EXCEPT !.config = @ \cup {a}]
             \/ ~c.ok /\ c.domain = e
  BY <1>1 DEF attach_device_persisted, Result
<1>2. CASE ~d.running
  <2>1. r \in attach_device_persisted(d, a)
    BY <1>2 DEF attach_device
  <2>2. [d EXCEPT !.config = @ \cup {a}] = Plugged(d, a)
    BY <1>2 DEF Plugged, DomainState
  <2>3. QED
    BY <1>1, <1>2, <2>1, <2>2
<1>3. CASE d.running
  <2> DEFINE e == [d EXCEPT !.live = @ \cup {a}]
  <2>1. PICK hot \in attach_device_hotplug(d, a) :
           r \in IF ~hot.ok THEN {hot}
                 ELSE UNION {IF cold.ok THEN {cold}
                             ELSE {Result(FALSE, undo.domain) :
                                     undo \in detach_device_hotplug(cold.domain, a)}
                             : cold \in attach_device_persisted(hot.domain, a)}
    BY <1>3 DEF attach_device
  <2>2. \/ hot.ok /\ Fits(d.live, a) /\ hot.domain = e
        \/ ~hot.ok /\ hot.domain = d
    BY DEF attach_device_hotplug, Result
  <2>3. CASE ~hot.ok
    BY <2>1, <2>2, <2>3
  <2>4. CASE hot.ok
    <3>1. e \in DomainState
      BY DEF DomainState
    <3>2. PICK cold \in attach_device_persisted(e, a) :
             r \in IF cold.ok THEN {cold}
                   ELSE {Result(FALSE, undo.domain) :
                           undo \in detach_device_hotplug(cold.domain, a)}
      BY <2>1, <2>2, <2>4
    <3>3. \/ cold.ok /\ Fits(e.config, a) /\ cold.domain = [e EXCEPT !.config = @ \cup {a}]
          \/ ~cold.ok /\ cold.domain = e
      BY <1>1, <3>1
    <3>4. CASE cold.ok
      BY <1>3, <2>2, <2>4, <3>2, <3>3, <3>4 DEF Plugged, DomainState
    <3>5. CASE ~cold.ok
      <4>1. PICK undo \in detach_device_hotplug(e, a) : r = Result(FALSE, undo.domain)
        BY <3>2, <3>3, <3>5
      <4>2. ~r.ok /\ r.domain = undo.domain
        BY <4>1 DEF Result
      <4>3. e.live = d.live \cup {a}
        BY DEF DomainState
      <4>4. a \in Target(e.live, a) /\ Target(e.live, a) \subseteq {a} /\ a \notin d.live
        BY <2>2, <2>4, <4>3 DEF Target, Fits, Clashes
      <4>5. \/ undo.domain = [e EXCEPT !.live = @ \ Target(e.live, a)]
            \/ undo.domain = e /\ MayFail("detach_live")
        BY <4>4 DEF detach_device_hotplug, Result
      <4>6. [e EXCEPT !.live = @ \ Target(e.live, a)] = d
        BY <4>3, <4>4 DEF DomainState
      <4>7. QED
        BY <1>3, <4>2, <4>5, <4>6
    <3>6. QED
      BY <3>4, <3>5
  <2>5. QED
    BY <2>3, <2>4
<1>4. QED
  BY <1>2, <1>3

\* The device is in the persistent description again, or no longer in it.
HalfDetached(d, a, e) ==
    \E S \in SUBSET {a} : e = [d EXCEPT !.config = (@ \ Target(d.config, a)) \cup S]

\* A device that is detached is in neither description.  If that fails, it is
\* in the persistent one again, or in none of them, or nothing has changed.
LEMMA DetachCases ==
    ASSUME NEW d \in DomainState, NEW a \in Slots, NEW r \in detach_device(d, a)
    PROVE  \/ r.ok /\ r.domain = Unplugged(d, a)
           \/ ~r.ok /\ r.domain = d
           \/ /\ ~r.ok /\ d.running
              /\ Target(d.live, a) = {} \/ MayFail("detach_live")
              /\ HalfDetached(d, a, r.domain)
<1> DEFINE e == [d EXCEPT !.config = @ \ Target(d.config, a)]
<1>1. e \in DomainState /\ e.live = d.live
  BY DEF DomainState
<1>2. PICK cold \in detach_device_persisted(d, a) :
         r \in IF ~cold.ok \/ ~d.running THEN {cold}
               ELSE UNION {IF hot.ok THEN {hot}
                           ELSE {Result(FALSE, undo.domain) :
                                   undo \in attach_device_persisted(hot.domain, a)}
                           : hot \in detach_device_hotplug(cold.domain, a)}
  BY DEF detach_device
<1>3. \/ cold.ok /\ cold.domain = e
      \/ ~cold.ok /\ cold.domain = d
  BY DEF detach_device_persisted, Result
<1>4. CASE ~cold.ok
  BY <1>2, <1>3, <1>4
<1>5. CASE cold.ok /\ ~d.running
  BY <1>2, <1>3, <1>5 DEF Unplugged, DomainState
<1>6. CASE cold.ok /\ d.running
  <2>1. PICK hot \in detach_device_hotplug(e, a) :
           r \in IF hot.ok THEN {hot}
                 ELSE {Result(FALSE, undo.domain) :
                         undo \in attach_device_persisted(hot.domain, a)}
    BY <1>2, <1>3, <1>6
  <2>2. \/ hot.ok /\ hot.domain = [e EXCEPT !.live = @ \ Target(e.live, a)]
        \/ /\ ~hot.ok /\ hot.domain = e
           /\ Target(d.live, a) = {} \/ MayFail("detach_live")
    BY <1>1 DEF detach_device_hotplug, Result
  <2>3. CASE hot.ok
    BY <1>1, <1>6, <2>1, <2>2, <2>3 DEF Unplugged, DomainState
  <2>4. CASE ~hot.ok
    <3>1. PICK undo \in attach_device_persisted(e, a) : r = Result(FALSE, undo.domain)
      BY <2>1, <2>2, <2>4
    <3>2. ~r.ok /\ r.domain = undo.domain
      BY <3>1 DEF Result
    <3>3. undo.domain = e \/ undo.domain = [e EXCEPT !.config = @ \cup {a}]
      BY DEF attach_device_persisted, Result
    <3>4. /\ e = [d EXCEPT !.config = (@ \ Target(d.config, a)) \cup {}]
          /\ [e EXCEPT !.config = @ \cup {a}]
                = [d EXCEPT !.config = (@ \ Target(d.config, a)) \cup {a}]
      BY DEF DomainState
    <3>5. PICK S \in SUBSET {a} :
             r.domain = [d EXCEPT !.config = (@ \ Target(d.config, a)) \cup S]
      BY <3>2, <3>3, <3>4
    <3>6. HalfDetached(d, a, r.domain)
      BY <3>5 DEF HalfDetached
    <3>7. QED
      BY <1>6, <2>2, <2>4, <3>2, <3>6
  <2>5. QED
    BY <2>3, <2>4
<1>7. QED
  BY <1>4, <1>5, <1>6

\* Either way it is a domain.
LEMMA ResultsTyped ==
    ASSUME NEW d \in DomainState, NEW a \in Slots
    PROVE  /\ \A r \in attach_device(d, a) : r.domain \in DomainState
           /\ \A r \in detach_device(d, a) : r.domain \in DomainState
<1>1. /\ Plugged(d, a) \in DomainState /\ Unplugged(d, a) \in DomainState
      /\ [d EXCEPT !.live = @ \cup {a}] \in DomainState
      /\ \A S \in SUBSET {a} :
            [d EXCEPT !.config = (@ \ Target(d.config, a)) \cup S] \in DomainState
  BY DEF DomainState, Plugged, Unplugged
<1>2. ASSUME NEW r \in attach_device(d, a)
      PROVE  r.domain \in DomainState
  BY <1>1, AttachCases
<1>3. ASSUME NEW r \in detach_device(d, a)
      PROVE  r.domain \in DomainState
  <2>1. r.domain = Unplugged(d, a) \/ r.domain = d \/ HalfDetached(d, a, r.domain)
    BY DetachCases
  <2>2. QED
    BY <1>1, <2>1 DEF HalfDetached
<1>4. QED
  BY <1>2, <1>3

-----------------------------------------------------------------------------
(* What a request is, by its kind, and the rows as the code writes them.   *)

\* A request: what it is about, and which steps it has.
Request(r) ==
    \/ r = Idle
    \/ /\ r.op = "create_vdisk"
       /\ r.vm = NoVm /\ r.thing \in Disks
       /\ \/ r.pc = "claim"
          \/ r.pc \in {"save", "create_image", "unsave", "undo_claim"} /\ r.quota \in Quotas
    \/ /\ r.op = "destroy_vdisk"
       /\ r.vm = NoVm /\ r.thing \in Disks
       /\ r.pc \in {"soft_delete", "rename"}
    \/ /\ r.op = "admin_delete"
       /\ r.vm = NoVm /\ r.thing \in Disks /\ r.quota \in Quotas
       /\ r.pc \in {"remove_image", "free", "rowdel"}
    \/ /\ r.op = "mount_disk"
       /\ r.vm \in Vms /\ r.thing \in Disks /\ r.dev \in 1 .. MaxDev
       /\ r.pc \in {"mount_row", "attach", "undo_mount"}
    \/ /\ r.op = "umount_disk"
       /\ r.vm \in Vms /\ r.thing \in Disks /\ r.dev \in 1 .. MaxDev
       /\ r.pc \in {"detach", "umount_row"}
    \/ /\ r.op = "mount_pci"
       /\ r.vm \in Vms /\ r.thing \in Devices /\ r.dev = 0
       /\ r.pc \in {"mount_row", "attach", "undo_mount"}
    \/ /\ r.op = "umount_pci"
       /\ r.vm \in Vms /\ r.thing \in Devices /\ r.dev = 0
       /\ r.pc \in {"detach", "umount_row"}
    \/ /\ r.op = "attach_ip"
       /\ r.vm \in Vms /\ r.thing \in Ips /\ r.dev = 0
       /\ r.pc \in {"ip_apply", "ip_row", "attach", "free_ip", "ip_rowdel"}
    \/ /\ r.op = "detach_ip"
       /\ r.vm \in Vms /\ r.thing \in Ips /\ r.dev = 0
       /\ r.pc \in {"free_ip", "ip_rowdel", "detach", "ip_apply", "ip_row"}
    \/ /\ r.op = "delete_vm"
       /\ r.vm \in Vms /\ r.thing = NoThing
       /\ r.pc \in {"att_check", "undefine", "vm_rowdel"}
    \/ /\ r.op = "shelve"
       /\ r.vm \in Vms /\ r.thing = NoThing
       /\ r.pc \in {"att_check", "undefine", "shelve_save"}
    \/ /\ r.op = "delshelve"
       /\ r.vm \in Vms /\ r.thing = NoThing
       /\ r.pc = "vm_rowdel"
    \/ /\ r.op = "unshelve"
       /\ r.vm \in Vms /\ r.thing = NoThing
       /\ r.pc \in {"unshelve_save", "define", "mount_vdisks"}
    \/ /\ r.op = "miss_fix"
       /\ r.vm \in Vms /\ r.thing \in Disks \cup {NoThing}
       /\ r.todo \subseteq [thing : Disks, dev : 1 .. MaxDev]
       /\ \/ r.pc \in {"define", "fix_attach"}
          \/ r.pc = "fix_umount" /\ r.thing \in Disks

\* The row of a disk that is not there is empty, any other has a pool, and one
\* that names a vm has a device name.
DiskRowSound(row) ==
    /\ row.state = "none" => row = NoRow
    /\ row.state # "none" => row.quota \in Quotas
    /\ row.vm # NoVm => row.dev \in 1 .. MaxDev

RequestsInv == \A w \in Workers : Request(worker[w])
RowsInv == \A d \in Disks : DiskRowSound(vdisk[d])

TInv == TypeOK /\ RequestsInv /\ RowsInv

\* Of a step of w, worker[w] becomes s.
Becomes(w, s) == worker' = [worker EXCEPT ![w] = s]

\* The types are kept if each part is.
LEMMA TypesKept ==
    ASSUME TInv, NEW w \in Workers, NEW s \in WorkerState, Becomes(w, s), Request(s),
           UNCHANGED workload,
           size_used' = size_used \/ size_used' \in [Quotas -> Int],
           used' = used \/ used' \in [Ips -> BOOLEAN],
           vm_status' = vm_status \/ vm_status' \in [Vms -> {"none", "normal", "shelve"}],
           domain' = domain \/ domain' \in [Vms -> DomainState],
           \/ vdisk' = vdisk
           \/ vdisk' \in [Disks -> VdiskRow] /\ \A d \in Disks : DiskRowSound(vdisk'[d]),
           image' = image \/ image' \in [Disks -> ImageName],
           pci' = pci \/ pci' \in [Devices -> Vms \cup {NoVm}],
           attached' = attached \/ attached' \in [Ips -> Vms \cup {NoVm, "none"}]
    PROVE  TInv'
<1>1. TypeOK'
  BY DEF TInv, TypeOK, Becomes, QuotaTypeOK, IpTypeOK
<1>2. RequestsInv'
  BY DEF TInv, TypeOK, RequestsInv, Becomes
<1>3. RowsInv'
  BY DEF TInv, RowsInv
<1>4. QED
  BY <1>1, <1>2, <1>3 DEF TInv

\* What every step of a request has in common.
LEMMA TypedPlaces ==
    ASSUME TInv, NEW w \in Workers
    PROVE  /\ worker[w] \in WorkerState /\ Request(worker[w])
           /\ worker \in [Workers -> WorkerState]
           /\ Idle \in WorkerState /\ Request(Idle)
           /\ domain \in [Vms -> DomainState]
           /\ vdisk \in [Disks -> VdiskRow]
           /\ NoRow \in VdiskRow /\ DiskRowSound(NoRow)
<1>1. Idle \in WorkerState
  BY DomainAssumption DEF Idle, WorkerState, Pcs, ImageName
<1>2. NoRow \in VdiskRow
  BY DomainAssumption DEF NoRow, VdiskRow
<1>3. QED
  BY <1>1, <1>2 DEF TInv, TypeOK, RequestsInv, Request, NoRow, DiskRowSound

\* A row that is cleared is a row.
LEMMA ClearedRow ==
    ASSUME NEW row \in VdiskRow, DiskRowSound(row)
    PROVE  /\ [row EXCEPT !.vm = NoVm, !.dev = 0] \in VdiskRow
           /\ DiskRowSound([row EXCEPT !.vm = NoVm, !.dev = 0])
<1> DEFINE c == [row EXCEPT !.vm = NoVm, !.dev = 0]
<1>1. 0 \in 0 .. MaxDev
  BY DomainAssumption
<1>2. c \in VdiskRow
  BY <1>1 DEF VdiskRow
<1>3. c.state = row.state /\ c.vm = NoVm /\ c.dev = 0 /\ c.quota = row.quota
  BY DEF VdiskRow
<1> HIDE DEF c
<1>4. c = [state |-> c.state, vm |-> c.vm, dev |-> c.dev, quota |-> c.quota]
  BY <1>2 DEF VdiskRow
<1>5. row.state = "none" => c = NoRow
  BY <1>3, <1>4 DEF DiskRowSound, NoRow
<1>6. DiskRowSound(c)
  BY <1>3, <1>5 DEF DiskRowSound
<1>7. QED
  BY <1>2, <1>6 DEF c

\* So is one that names a vm.
LEMMA MountedRow ==
    ASSUME NEW row \in VdiskRow, DiskRowSound(row), row.state # "none",
           NEW v \in Vms, NEW n \in 1 .. MaxDev
    PROVE  /\ [row EXCEPT !.vm = v, !.dev = n] \in VdiskRow
           /\ DiskRowSound([row EXCEPT !.vm = v, !.dev = n])
<1> DEFINE c == [row EXCEPT !.vm = v, !.dev = n]
<1>1. n \in 0 .. MaxDev
  BY DomainAssumption
<1>2. c \in VdiskRow
  BY <1>1 DEF VdiskRow
<1>3. c.state = row.state /\ c.dev = n /\ c.quota = row.quota
  BY DEF VdiskRow
<1> HIDE DEF c
<1>4. DiskRowSound(c)
  BY <1>3 DEF DiskRowSound
<1>5. QED
  BY <1>2, <1>4 DEF c

\* The requests for a disk.
LEMMA DiskRequestTypes ==
    ASSUME TInv, UNCHANGED workload, NEW w \in Workers, DiskRequest(w)
    PROVE  TInv'
<1>1. Idle \in WorkerState
  BY TypedPlaces
<1>2. PICK d \in Disks :
         \/ CreateVdisk(w, d) \/ DestroyVdisk(w, d) \/ AdminDelete(w, d) \/ UmountDisk(w, d)
         \/ \E v \in Vms : MountDisk(w, d, v)
  BY DEF DiskRequest
<1>3. d \in Things /\ vdisk[d] \in VdiskRow /\ DiskRowSound(vdisk[d]) /\ image[d] \in ImageName
  BY DEF Things, TInv, TypeOK, RowsInv
<1>4. PICK s \in WorkerState : Becomes(w, s) /\ Request(s)
  <2>1. CASE CreateVdisk(w, d)
    <3> DEFINE s == [Idle EXCEPT !.op = "create_vdisk", !.thing = d, !.loaded = size_used, !.pc = "claim"]
    <3>1. size_used \in [Quotas -> Int]
      BY DEF TInv, TypeOK, QuotaTypeOK
    <3>2. s \in WorkerState /\ Request(s)
      BY <1>1, <1>3, <3>1 DEF WorkerState, Idle, OpKinds, Pcs, Request
    <3>3. Becomes(w, s)
      BY <2>1 DEF CreateVdisk, Becomes
    <3>4. QED
      BY <3>2, <3>3
  <2>2. CASE DestroyVdisk(w, d)
    <3> DEFINE s == [Idle EXCEPT !.op = "destroy_vdisk", !.vm = NoVm, !.thing = d, !.pc = "soft_delete"]
    <3>1. s \in WorkerState /\ Request(s)
      BY <1>1, <1>3 DEF WorkerState, Idle, OpKinds, Pcs, Request
    <3>2. Becomes(w, s)
      BY <2>2 DEF DestroyVdisk, Begin, Becomes
    <3>3. QED
      BY <3>1, <3>2
  <2>3. CASE AdminDelete(w, d)
    <3> DEFINE s == [Idle EXCEPT !.op = "admin_delete", !.thing = d, !.quota = vdisk[d].quota,
                                 !.name = image[d], !.pc = "remove_image"]
    <3>1. vdisk[d].quota \in Quotas
      BY <1>3, <2>3 DEF AdminDelete, DiskRowSound
    <3>2. s \in WorkerState /\ Request(s)
      BY <1>1, <1>3, <3>1 DEF WorkerState, Idle, OpKinds, Pcs, Request
    <3>3. Becomes(w, s)
      BY <2>3 DEF AdminDelete, Becomes
    <3>4. QED
      BY <3>2, <3>3
  <2>4. CASE UmountDisk(w, d)
    <3> DEFINE s == [Idle EXCEPT !.op = "umount_disk", !.vm = vdisk[d].vm, !.thing = d,
                                 !.dev = vdisk[d].dev, !.pc = "detach"]
    <3>1. vdisk[d].vm \in Vms /\ vdisk[d].dev \in 1 .. MaxDev /\ vdisk[d].dev \in 0 .. MaxDev
      BY <1>3, <2>4 DEF UmountDisk, DiskRowSound, VdiskRow
    <3>2. s \in WorkerState /\ Request(s)
      BY <1>1, <1>3, <3>1 DEF WorkerState, Idle, OpKinds, Pcs, Request
    <3>3. Becomes(w, s)
      BY <2>4 DEF UmountDisk, Becomes
    <3>4. QED
      BY <3>2, <3>3
  <2>5. ASSUME NEW v \in Vms, MountDisk(w, d, v)
        PROVE  \E s \in WorkerState : Becomes(w, s) /\ Request(s)
    <3>1. PICK n \in NewDev(domain[v]) :
             Becomes(w, [Idle EXCEPT !.op = "mount_disk", !.vm = v, !.thing = d, !.dev = n,
                                     !.pc = "mount_row"])
      BY <2>5 DEF MountDisk, Becomes
    <3> DEFINE s == [Idle EXCEPT !.op = "mount_disk", !.vm = v, !.thing = d, !.dev = n,
                                 !.pc = "mount_row"]
    <3>2. n \in 1 .. MaxDev /\ n \in 0 .. MaxDev
      BY DomainAssumption DEF NewDev
    <3>3. s \in WorkerState /\ Request(s)
      BY <1>1, <1>3, <3>2 DEF WorkerState, Idle, OpKinds, Pcs, Request
    <3>4. QED
      BY <3>1, <3>3
  <2>6. QED
    BY <1>2, <2>1, <2>2, <2>3, <2>4, <2>5
<1>5. UNCHANGED <<size_used, used, vm_status, domain, vdisk, image, pci, attached>>
  BY <1>2 DEF CreateVdisk, DestroyVdisk, AdminDelete, UmountDisk, MountDisk,
              RowsUnchanged, PoolUnchanged, VmsUnchanged
<1>6. QED
  BY <1>4, <1>5, TypesKept

\* The requests for a device or an address.
LEMMA DeviceRequestTypes ==
    ASSUME TInv, UNCHANGED workload, NEW w \in Workers, DeviceRequest(w)
    PROVE  TInv'
<1>1. Idle \in WorkerState
  BY TypedPlaces
<1>2. UNCHANGED <<size_used, used, vm_status, domain, vdisk, image, pci, attached>>
  BY DEF DeviceRequest, MountPci, UmountPci, AttachIp, DetachIp, RowsUnchanged,
         PoolUnchanged, VmsUnchanged
<1>3. ASSUME NEW v \in Vms, NEW t \in Devices \cup Ips, NEW op \in OpKinds, NEW pc \in Pcs,
             Begin(w, op, v, t, pc),
             \/ op = "mount_pci" /\ pc = "mount_row" /\ t \in Devices
             \/ op = "umount_pci" /\ pc = "detach" /\ t \in Devices
             \/ op = "attach_ip" /\ pc = "ip_apply" /\ t \in Ips
             \/ op = "detach_ip" /\ pc = "free_ip" /\ t \in Ips
      PROVE  TInv'
  <2> DEFINE s == [Idle EXCEPT !.op = op, !.vm = v, !.thing = t, !.pc = pc]
  <2>1. t \in Things
    BY AttachmentAssumption DEF Things
  <2>2. s \in WorkerState /\ Request(s)
    BY <1>1, <1>3, <2>1 DEF WorkerState, Idle, Request
  <2>3. Becomes(w, s)
    BY <1>3 DEF Begin, Becomes
  <2>4. QED
    BY <1>2, <2>2, <2>3, TypesKept
<1>4. /\ {"mount_pci", "umount_pci", "attach_ip", "detach_ip"} \subseteq OpKinds
      /\ {"mount_row", "detach", "ip_apply", "free_ip"} \subseteq Pcs
  BY DEF OpKinds, Pcs
<1>5. ASSUME NEW p \in Devices, UmountPci(w, p)
      PROVE  TInv'
  BY <1>3, <1>4, <1>5 DEF UmountPci, TInv, TypeOK
<1>6. ASSUME NEW p \in Devices, NEW v \in Vms, MountPci(w, p, v)
      PROVE  TInv'
  BY <1>3, <1>4, <1>6 DEF MountPci
<1>7. ASSUME NEW i \in Ips, NEW v \in Vms, AttachIp(w, i, v) \/ DetachIp(w, i, v)
      PROVE  TInv'
  BY <1>3, <1>4, <1>7 DEF AttachIp, DetachIp
<1>8. QED
  BY <1>5, <1>6, <1>7 DEF DeviceRequest

\* The requests for a vm.
LEMMA VmRequestTypes ==
    ASSUME TInv, UNCHANGED workload, NEW w \in Workers, VmRequest(w)
    PROVE  TInv'
<1>1. PICK v \in Vms :
         \/ PowerOn(w, v) \/ PowerOff(w, v) \/ DeleteVm(w, v) \/ Shelve(w, v)
         \/ Unshelve(w, v) \/ Delshelve(w, v) \/ MissFix(w, v) \/ Lose(w, v)
  BY DEF VmRequest
<1>2. domain \in [Vms -> DomainState] /\ worker[w] \in WorkerState /\ Request(worker[w])
      /\ worker \in [Workers -> WorkerState] /\ Idle \in WorkerState
  BY TypedPlaces
<1>3. UNCHANGED <<size_used, used, vm_status, vdisk, image, pci, attached>>
  BY <1>1 DEF PowerOn, PowerOff, DeleteVm, Shelve, Unshelve, Delshelve, MissFix, Lose,
              RowsUnchanged, PoolUnchanged, VmsUnchanged
<1>4. domain' = domain \/ domain' \in [Vms -> DomainState]
  <2>1. /\ start(domain[v]) \in DomainState /\ power_off_domain(domain[v]) \in DomainState
        /\ NoDomain \in DomainState
    BY <1>2 DEF start, power_off_domain, DomainState, NoDomain
  <2>2. \/ domain' = domain
        \/ \E e \in DomainState : domain' = [domain EXCEPT ![v] = e]
    BY <1>1, <2>1 DEF PowerOn, PowerOff, DeleteVm, Shelve, Unshelve, Delshelve, MissFix, Lose,
              VmsUnchanged
  <2>3. QED
    BY <1>2, <2>2
<1>5. CASE worker' = worker
  BY <1>2, <1>3, <1>4, <1>5, TypesKept DEF Becomes
<1>6. ASSUME NEW op \in OpKinds, NEW pc \in Pcs, Begin(w, op, v, NoThing, pc),
             \/ op = "delete_vm" /\ pc = "att_check"
             \/ op = "shelve" /\ pc = "att_check"
             \/ op = "unshelve" /\ pc = "unshelve_save"
             \/ op = "delshelve" /\ pc = "vm_rowdel"
             \/ op = "miss_fix" /\ pc = "define"
      PROVE  TInv'
  <2> DEFINE s == [Idle EXCEPT !.op = op, !.vm = v, !.thing = NoThing, !.pc = pc]
  <2>1. s \in WorkerState /\ Request(s)
    BY <1>2, <1>6 DEF WorkerState, Idle, Request
  <2>2. Becomes(w, s)
    BY <1>6 DEF Begin, Becomes
  <2>3. QED
    BY <1>3, <1>4, <2>1, <2>2, TypesKept
<1>7. /\ {"delete_vm", "shelve", "unshelve", "delshelve", "miss_fix"} \subseteq OpKinds
      /\ {"att_check", "unshelve_save", "vm_rowdel", "define"} \subseteq Pcs
  BY DEF OpKinds, Pcs
<1>8. \/ worker' = worker
      \/ Begin(w, "delete_vm", v, NoThing, "att_check")
      \/ Begin(w, "shelve", v, NoThing, "att_check")
      \/ Begin(w, "unshelve", v, NoThing, "unshelve_save")
      \/ Begin(w, "delshelve", v, NoThing, "vm_rowdel")
      \/ Begin(w, "miss_fix", v, NoThing, "define")
  BY <1>1 DEF PowerOn, PowerOff, DeleteVm, Shelve, Unshelve, Delshelve, MissFix, Lose
<1>9. QED
  BY <1>5, <1>6, <1>7, <1>8

\* The steps on the rows of a disk.
LEMMA DiskStepTypes ==
    ASSUME TInv, UNCHANGED workload, NEW w \in Workers,
           \/ ClaimQuota(w) \/ SaveVdisk(w) \/ CreateCephDisk(w) \/ UnsaveVdisk(w)
           \/ UndoClaim(w) \/ SoftDelete(w) \/ RenameDiskRbdName(w) \/ RemoveCephDisk(w)
           \/ FreeVdisk(w) \/ DeleteVdiskRow(w)
    PROVE  TInv'
<1> DEFINE r == worker[w]
           d == worker[w].thing
<1>1. /\ r \in WorkerState /\ Request(r) /\ Idle \in WorkerState /\ Request(Idle)
      /\ vdisk \in [Disks -> VdiskRow]
      /\ NoRow \in VdiskRow /\ DiskRowSound(NoRow)
      /\ \A x \in Disks : DiskRowSound(vdisk[x])
      /\ image \in [Disks -> ImageName]
      /\ size_used \in [Quotas -> Int]
      /\ DiskSize \in Nat
  BY TypedPlaces, AttachmentAssumption DEF TInv, TypeOK, RowsInv, QuotaTypeOK
<1>2. UNCHANGED <<used, vm_status, domain, pci, attached>>
  BY DEF ClaimQuota, SaveVdisk, CreateCephDisk, UnsaveVdisk, UndoClaim, SoftDelete,
         RenameDiskRbdName, RemoveCephDisk, FreeVdisk, DeleteVdiskRow, RowsUnchanged,
         PoolUnchanged, VmsUnchanged
<1>3. r.op \in {"create_vdisk", "destroy_vdisk", "admin_delete"} /\ d \in Disks
  <2>1. r.pc \in {"claim", "save", "create_image", "unsave", "undo_claim", "soft_delete",
                  "rename", "remove_image", "free", "rowdel"}
    BY DEF ClaimQuota, SaveVdisk, CreateCephDisk, UnsaveVdisk, UndoClaim, SoftDelete,
           RenameDiskRbdName, RemoveCephDisk, FreeVdisk, DeleteVdiskRow, At
  <2>2. QED
    BY <1>1, <2>1 DEF Request, Idle
<1>4. size_used' = size_used \/ size_used' \in [Quotas -> Int]
  <2>1. CASE ClaimQuota(w)
    <3>1. PICK asked \in Quotas \cup {NoQuota} :
             LET found == IF asked = NoQuota THEN schedule_quota(r.loaded)
                          ELSE schedule_by_quota(r.loaded, asked)
             IN  \/ found = {} /\ End(w) /\ UNCHANGED size_used
                 \/ \E q \in found : Quota_claim(q, DiskSize)
      BY <2>1 DEF ClaimQuota
    <3>2. /\ schedule_quota(r.loaded) \subseteq Quotas
          /\ asked # NoQuota => schedule_by_quota(r.loaded, asked) \subseteq Quotas
      BY DEF schedule_quota, schedule_by_quota
    <3>3. UNCHANGED size_used \/ \E q \in Quotas : Quota_claim(q, DiskSize)
      BY <3>1, <3>2
    <3>4. QED
      BY <1>1, <3>3 DEF Quota_claim
  <2>2. CASE UndoClaim(w) \/ FreeVdisk(w)
    BY <1>1, <2>2 DEF UndoClaim, FreeVdisk, Quota_free
  <2>3. QED
    BY <2>1, <2>2 DEF SaveVdisk, CreateCephDisk, UnsaveVdisk, SoftDelete, RenameDiskRbdName,
       RemoveCephDisk, DeleteVdiskRow, PoolUnchanged
<1>5. image' = image \/ image' \in [Disks -> ImageName]
  <2>1. CASE RemoveCephDisk(w)
    BY <1>1, <1>3, <2>1 DEF RemoveCephDisk, ImageName
  <2>2. CASE CreateCephDisk(w) \/ RenameDiskRbdName(w)
    BY <1>1, <2>2 DEF CreateCephDisk, RenameDiskRbdName, ImageName
  <2>3. QED
    BY <2>1, <2>2 DEF ClaimQuota, SaveVdisk, UnsaveVdisk, UndoClaim, SoftDelete, FreeVdisk,
       DeleteVdiskRow, PoolUnchanged
<1>6. \/ vdisk' = vdisk
      \/ vdisk' \in [Disks -> VdiskRow] /\ \A x \in Disks : DiskRowSound(vdisk'[x])
  <2>1. CASE SaveVdisk(w)
    <3> DEFINE row == [NoRow EXCEPT !.state = "live", !.quota = r.quota]
    <3>1. r.quota \in Quotas
      BY <1>1, <2>1 DEF SaveVdisk, At, Request, Idle
    <3>2. row \in VdiskRow /\ DiskRowSound(row)
      BY <1>1, <3>1 DEF VdiskRow, NoRow, DiskRowSound
    <3>3. vdisk' = [vdisk EXCEPT ![d] = row]
      BY <2>1 DEF SaveVdisk
    <3>4. QED
      BY <1>1, <3>2, <3>3
  <2>2. CASE UnsaveVdisk(w) \/ DeleteVdiskRow(w)
    BY <1>1, <2>2 DEF UnsaveVdisk, DeleteVdiskRow
  <2>3. CASE SoftDelete(w)
    <3>1. \/ vdisk' = vdisk
          \/ vdisk[d].state # "none" /\ vdisk' = [vdisk EXCEPT ![d].state = "deleted"]
      BY <2>3 DEF SoftDelete
    <3> DEFINE row == [vdisk[d] EXCEPT !.state = "deleted"]
    <3>2. vdisk[d].state # "none" => row \in VdiskRow /\ DiskRowSound(row)
      BY <1>1, <1>3 DEF VdiskRow, DiskRowSound
    <3>3. QED
      BY <1>1, <3>1, <3>2
  <2>4. QED
    BY <2>1, <2>2, <2>3 DEF ClaimQuota, CreateCephDisk, UndoClaim, RenameDiskRbdName,
       RemoveCephDisk, FreeVdisk, RowsUnchanged
<1>7. PICK s \in WorkerState : Becomes(w, s) /\ Request(s)
  <2>1. CASE ClaimQuota(w)
    <3>1. CASE End(w)
      BY <1>1, <3>1 DEF End, Becomes
    <3>2. CASE ~End(w)
      <4>1. PICK q \in Quotas : worker' = [worker EXCEPT ![w].pc = "save", ![w].quota = q,
                                                         ![w].loaded = Idle.loaded]
        BY <2>1, <3>2 DEF ClaimQuota, schedule_quota, schedule_by_quota, Quota_can_claim,
           QuotaAssumption
      <4> DEFINE s == [r EXCEPT !.pc = "save", !.quota = q, !.loaded = Idle.loaded]
      <4>2. r.pc = "claim"
        BY <2>1 DEF ClaimQuota, At
      <4>3. r.op = "create_vdisk" /\ r.vm = NoVm /\ r.thing \in Disks
        BY <1>1, <4>2 DEF Request, Idle
      <4>4. s \in WorkerState
        BY <1>1, <1>3 DEF WorkerState, Pcs
      <4>5. /\ s.op = "create_vdisk" /\ s.vm = NoVm /\ s.thing \in Disks
            /\ s.pc = "save" /\ s.quota \in Quotas
        BY <1>1, <4>3 DEF WorkerState
      <4>6. Request(s)
        BY <4>5 DEF Request
      <4>7. Becomes(w, s)
        BY <1>1, <4>1, TypedPlaces DEF Becomes
      <4>8. QED
        BY <4>4, <4>6, <4>7
    <3>3. QED
      BY <3>1, <3>2
  <2>2. CASE End(w)
    BY <1>1, <2>2 DEF End, Becomes
  <2>3. ASSUME NEW pc \in Pcs, Goto(w, pc),
               \/ SaveVdisk(w) /\ pc = "create_image"
               \/ CreateCephDisk(w) /\ pc = "unsave"
               \/ UnsaveVdisk(w) /\ pc = "undo_claim"
               \/ SoftDelete(w) /\ pc = "rename"
               \/ RemoveCephDisk(w) /\ pc = "free"
               \/ FreeVdisk(w) /\ pc = "rowdel"
        PROVE  \E s \in WorkerState : Becomes(w, s) /\ Request(s)
    <3> DEFINE s == [r EXCEPT !.pc = pc]
    <3>1. s \in WorkerState
      BY <1>1 DEF WorkerState
    <3>2. Request(s)
      <4>1. /\ s.op = r.op /\ s.vm = r.vm /\ s.thing = r.thing /\ s.quota = r.quota /\ s.pc = pc
            /\ s.dev = r.dev /\ s.todo = r.todo
        BY <1>1 DEF WorkerState
      <4>2. CASE SaveVdisk(w) \/ CreateCephDisk(w) \/ UnsaveVdisk(w)
        <5>1. r.pc \in {"save", "create_image", "unsave"}
              /\ pc \in {"create_image", "unsave", "undo_claim"}
          BY <2>3, <4>2 DEF SaveVdisk, CreateCephDisk, UnsaveVdisk, SoftDelete, RemoveCephDisk,
             FreeVdisk, At
        <5>2. r.op = "create_vdisk" /\ r.vm = NoVm /\ r.thing \in Disks /\ r.quota \in Quotas
          BY <1>1, <5>1 DEF Request, Idle
        <5>3. QED
          BY <4>1, <5>1, <5>2 DEF Request
      <4>3. CASE SoftDelete(w)
        <5>1. r.pc = "soft_delete" /\ pc = "rename"
          BY <2>3, <4>3 DEF SaveVdisk, CreateCephDisk, UnsaveVdisk, SoftDelete, RemoveCephDisk,
             FreeVdisk, At
        <5>2. r.op = "destroy_vdisk" /\ r.vm = NoVm /\ r.thing \in Disks
          BY <1>1, <5>1 DEF Request, Idle
        <5>3. QED
          BY <4>1, <5>1, <5>2 DEF Request
      <4>4. CASE RemoveCephDisk(w) \/ FreeVdisk(w)
        <5>1. r.pc \in {"remove_image", "free"} /\ pc \in {"free", "rowdel"}
          BY <2>3, <4>4 DEF SaveVdisk, CreateCephDisk, UnsaveVdisk, SoftDelete, RemoveCephDisk,
             FreeVdisk, At
        <5>2. r.op = "admin_delete" /\ r.vm = NoVm /\ r.thing \in Disks /\ r.quota \in Quotas
          BY <1>1, <5>1 DEF Request, Idle
        <5>3. QED
          BY <4>1, <5>1, <5>2 DEF Request
      <4>5. QED
        BY <2>3, <4>2, <4>3, <4>4
    <3>3. Becomes(w, s)
      BY <2>3 DEF Goto, Becomes
    <3>4. QED
      BY <3>1, <3>2, <3>3
  <2>4. {"create_image", "unsave", "undo_claim", "rename", "free", "rowdel"} \subseteq Pcs
    BY DEF Pcs
  <2>5. QED
    BY <2>1, <2>2, <2>3, <2>4 DEF SaveVdisk, CreateCephDisk, UnsaveVdisk, UndoClaim, SoftDelete,
         RenameDiskRbdName, RemoveCephDisk, FreeVdisk, DeleteVdiskRow
<1>8. QED
  BY <1>2, <1>4, <1>5, <1>6, <1>7, TypesKept

\* The steps that attach, detach and record a device.
LEMMA DeviceStepTypes ==
    ASSUME TInv, UNCHANGED workload, NEW w \in Workers,
           MountRow(w) \/ Attach(w) \/ UndoMount(w) \/ Detach(w) \/ UmountRow(w)
    PROVE  TInv'
<1> DEFINE r == worker[w]
           v == worker[w].vm
           t == worker[w].thing
<1>1. /\ r \in WorkerState /\ Request(r) /\ Idle \in WorkerState /\ Request(Idle)
      /\ vdisk \in [Disks -> VdiskRow]
      /\ \A x \in Disks : DiskRowSound(vdisk[x])
      /\ domain \in [Vms -> DomainState]
      /\ pci \in [Devices -> Vms \cup {NoVm}]
  BY TypedPlaces DEF TInv, TypeOK, RowsInv
<1>2. UNCHANGED <<size_used, used, vm_status, image, attached>>
  BY DEF MountRow, Attach, UndoMount, Detach, UmountRow, RowsUnchanged, PoolUnchanged,
         VmsUnchanged
<1>3. /\ r.pc \in {"mount_row", "attach", "undo_mount", "detach", "umount_row"}
      /\ MountRow(w) => r.pc = "mount_row"
      /\ Attach(w) => r.pc = "attach"
      /\ UndoMount(w) => r.pc = "undo_mount"
      /\ Detach(w) => r.pc = "detach"
      /\ UmountRow(w) => r.pc = "umount_row"
  BY DEF MountRow, Attach, UndoMount, Detach, UmountRow, At
<1>4. /\ v \in Vms /\ t \in Things
      /\ \/ t \in Disks /\ r.dev \in 1 .. MaxDev /\ t \notin Devices
         \/ t \notin Disks /\ r.dev = 0
      /\ r.op \in {"attach_ip", "detach_ip"} <=> t \in Ips
      /\ r.pc \in {"mount_row", "undo_mount", "umount_row"} => t \in Disks \cup Devices
  BY <1>1, <1>3, DomainAssumption, AttachmentAssumption DEF Request, Idle, Things
<1>5. SlotOf(w) \in Slots
  BY <1>4, AttachmentAssumption DEF SlotOf, Slots, Things
<1>6. domain' = domain \/ domain' \in [Vms -> DomainState]
  <2>1. ASSUME NEW c \in AttachResults(v, SlotOf(w))
        PROVE  c.domain \in DomainState
    BY <1>1, <1>4, <1>5, <2>1, ResultsTyped DEF AttachResults, Result
  <2>2. ASSUME NEW c \in DetachResults(v, SlotOf(w))
        PROVE  c.domain \in DomainState
    BY <1>1, <1>4, <1>5, <2>2, ResultsTyped DEF DetachResults, Result
  <2>3. \/ domain' = domain
        \/ \E c \in AttachResults(v, SlotOf(w)) \cup DetachResults(v, SlotOf(w)) :
              domain' = [domain EXCEPT ![v] = c.domain]
    BY DEF MountRow, Attach, UndoMount, Detach, UmountRow, VmsUnchanged
  <2>4. QED
    BY <1>1, <2>1, <2>2, <2>3
<1>7. ASSUME UnmountRow(t), t \in Disks \cup Devices
      PROVE  /\ \/ vdisk' = vdisk
                \/ vdisk' \in [Disks -> VdiskRow] /\ \A x \in Disks : DiskRowSound(vdisk'[x])
             /\ pci' = pci \/ pci' \in [Devices -> Vms \cup {NoVm}]
  <2>1. CASE t \in Disks
    <3> DEFINE row == [vdisk[t] EXCEPT !.vm = NoVm, !.dev = 0]
    <3>a. vdisk[t] \in VdiskRow /\ DiskRowSound(vdisk[t])
      BY <1>1, <2>1
    <3>1. row \in VdiskRow /\ DiskRowSound(row)
      BY <3>a, ClearedRow
    <3>2. vdisk' = [vdisk EXCEPT ![t] = row] /\ pci' = pci
      BY <1>1, <1>7, <2>1 DEF UnmountRow, VdiskRow
    <3>3. QED
      BY <1>1, <3>1, <3>2
  <2>2. CASE t \notin Disks
    BY <1>1, <1>7, <2>2 DEF UnmountRow
  <2>3. QED
    BY <2>1, <2>2
<1>8. /\ \/ vdisk' = vdisk
         \/ vdisk' \in [Disks -> VdiskRow] /\ \A x \in Disks : DiskRowSound(vdisk'[x])
      /\ pci' = pci \/ pci' \in [Devices -> Vms \cup {NoVm}]
  <2>1. CASE MountRow(w)
    <3>1. CASE t \in Disks /\ vdisk' # vdisk
      <4>1. /\ vdisk[t].state # "none" /\ pci' = pci
            /\ vdisk' = [vdisk EXCEPT ![t].vm = v, ![t].dev = r.dev]
        BY <2>1, <3>1 DEF MountRow
      <4> DEFINE row == [vdisk[t] EXCEPT !.vm = v, !.dev = r.dev]
      <4>a. vdisk[t] \in VdiskRow /\ DiskRowSound(vdisk[t])
        BY <1>1, <3>1
      <4>2. row \in VdiskRow /\ DiskRowSound(row)
        BY <1>4, <3>1, <4>1, <4>a, MountedRow
      <4>3. vdisk' = [vdisk EXCEPT ![t] = row]
        BY <1>1, <3>1, <4>1 DEF VdiskRow
      <4>4. QED
        BY <1>1, <4>1, <4>2, <4>3
    <3>2. CASE t \notin Disks
      BY <1>1, <1>4, <2>1, <3>2 DEF MountRow
    <3>3. CASE vdisk' = vdisk /\ t \in Disks
      BY <2>1, <3>3 DEF MountRow
    <3>4. QED
      BY <3>1, <3>2, <3>3
  <2>2. CASE UndoMount(w) \/ UmountRow(w)
    BY <1>3, <1>4, <1>7, <2>2 DEF UndoMount, UmountRow
  <2>3. QED
    BY <2>1, <2>2 DEF Attach, Detach, RowsUnchanged
<1>9. PICK s \in WorkerState : Becomes(w, s) /\ Request(s)
  <2>1. CASE End(w)
    BY <1>1, <2>1 DEF End, Becomes
  <2>2. ASSUME NEW pc \in Pcs, Goto(w, pc),
               \/ MountRow(w) /\ pc = "attach"
               \/ Attach(w) /\ pc = UndoOf(w)
               \/ Detach(w) /\ r.op = "detach_ip" /\ pc = "ip_apply"
               \/ Detach(w) /\ r.op # "detach_ip" /\ pc = "umount_row"
        PROVE  \E s \in WorkerState : Becomes(w, s) /\ Request(s)
    <3> DEFINE s == [r EXCEPT !.pc = pc]
    <3>1. s \in WorkerState
      BY <1>1 DEF WorkerState
    <3>2. Request(s)
      BY <1>1, <1>3, <2>2 DEF UndoOf, Request, Idle, WorkerState
    <3>3. Becomes(w, s)
      BY <2>2 DEF Goto, Becomes
    <3>4. QED
      BY <3>1, <3>2, <3>3
  <2>3. {"attach", "ip_apply", "umount_row"} \subseteq Pcs /\ UndoOf(w) \in Pcs
    BY DEF Pcs, UndoOf
  <2>4. QED
    BY <2>1, <2>2, <2>3 DEF MountRow, Attach, UndoMount, Detach, UmountRow
<1>10. QED
  BY <1>2, <1>6, <1>8, <1>9, TypesKept

\* The steps on an address.
LEMMA IpStepTypes ==
    ASSUME TInv, UNCHANGED workload, NEW w \in Workers,
           ApplyIp(w) \/ AttachRow(w) \/ FreeAttachedIp(w) \/ DeleteAttachedIp(w)
    PROVE  TInv'
<1> DEFINE r == worker[w]
           i == worker[w].thing
<1>1. /\ r \in WorkerState /\ Request(r) /\ Idle \in WorkerState /\ Request(Idle)
      /\ used \in [Ips -> BOOLEAN]
      /\ attached \in [Ips -> Vms \cup {NoVm, "none"}]
  BY TypedPlaces DEF TInv, TypeOK, IpTypeOK
<1>2. UNCHANGED <<size_used, vm_status, domain, vdisk, image, pci>>
  BY DEF ApplyIp, AttachRow, FreeAttachedIp, DeleteAttachedIp, PoolUnchanged, VmsUnchanged
<1>3. r.pc \in {"ip_apply", "ip_row", "free_ip", "ip_rowdel"}
  BY DEF ApplyIp, AttachRow, FreeAttachedIp, DeleteAttachedIp, At
<1>4. i \in Ips /\ r.vm \in Vms /\ r.dev = 0 /\ r.op \in {"attach_ip", "detach_ip"}
  BY <1>1, <1>3 DEF Request, Idle
<1>5. used' = used \/ used' \in [Ips -> BOOLEAN]
  BY <1>1 DEF ApplyIp, AttachRow, FreeAttachedIp, DeleteAttachedIp, apply_for_free_ip,
              set_free, free_used_ip
<1>6. attached' = attached \/ attached' \in [Ips -> Vms \cup {NoVm, "none"}]
  BY <1>1, <1>4 DEF ApplyIp, AttachRow, FreeAttachedIp, DeleteAttachedIp
<1>7. PICK s \in WorkerState : Becomes(w, s) /\ Request(s)
  <2>1. CASE End(w)
    BY <1>1, <2>1 DEF End, Becomes
  <2>2. ASSUME NEW pc \in Pcs, Goto(w, pc),
               \/ pc \in {"ip_row", "ip_rowdel"}
               \/ r.op = "attach_ip" /\ pc = "attach"
               \/ r.op = "detach_ip" /\ pc = "detach"
        PROVE  \E s \in WorkerState : Becomes(w, s) /\ Request(s)
    <3> DEFINE s == [r EXCEPT !.pc = pc]
    <3>1. s \in WorkerState
      BY <1>1 DEF WorkerState
    <3>2. Request(s)
      BY <1>1, <1>4, <2>2 DEF Request, Idle, WorkerState
    <3>3. Becomes(w, s)
      BY <2>2 DEF Goto, Becomes
    <3>4. QED
      BY <3>1, <3>2, <3>3
  <2>3. {"ip_row", "ip_rowdel", "attach", "detach"} \subseteq Pcs
    BY DEF Pcs
  <2>4. QED
    BY <1>4, <2>1, <2>2, <2>3 DEF ApplyIp, AttachRow, FreeAttachedIp, DeleteAttachedIp
<1>8. QED
  BY <1>2, <1>5, <1>6, <1>7, TypesKept

\* The steps on a vm and on what is mounted on it.
LEMMA VmStepTypes ==
    ASSUME TInv, UNCHANGED workload, NEW w \in Workers,
           \/ CheckAttachedIp(w) \/ Undefine(w) \/ DeleteVmRow(w) \/ ShelveSave(w)
           \/ UnshelveSave(w) \/ Define(w) \/ MountVdisks(w) \/ FixAttach(w) \/ FixUmount(w)
    PROVE  TInv'
<1> DEFINE r == worker[w]
           v == worker[w].vm
           t == worker[w].thing
<1>1. /\ r \in WorkerState /\ Request(r) /\ Idle \in WorkerState /\ Request(Idle)
      /\ vdisk \in [Disks -> VdiskRow]
      /\ \A x \in Disks : DiskRowSound(vdisk[x])
      /\ domain \in [Vms -> DomainState]
      /\ pci \in [Devices -> Vms \cup {NoVm}]
      /\ attached \in [Ips -> Vms \cup {NoVm, "none"}]
      /\ vm_status \in [Vms -> {"none", "normal", "shelve"}]
  BY TypedPlaces DEF TInv, TypeOK, RowsInv
<1>2. UNCHANGED <<size_used, used, image>>
  BY DEF CheckAttachedIp, Undefine, DeleteVmRow, ShelveSave, UnshelveSave, Define, MountVdisks,
         FixAttach, FixUmount, RowsUnchanged, PoolUnchanged, VmsUnchanged
<1>3. /\ r.pc \in {"att_check", "undefine", "vm_rowdel", "shelve_save", "unshelve_save",
                   "define", "mount_vdisks", "fix_attach", "fix_umount"}
      /\ FixUmount(w) => r.pc = "fix_umount"
      /\ FixAttach(w) => r.pc = "fix_attach"
      /\ Define(w) => r.pc = "define"
  BY DEF CheckAttachedIp, Undefine, DeleteVmRow, ShelveSave, UnshelveSave, Define, MountVdisks,
         FixAttach, FixUmount, At
<1>4. /\ v \in Vms /\ r.op \in {"delete_vm", "shelve", "delshelve", "unshelve", "miss_fix"}
      /\ r.pc = "fix_umount" => t \in Disks
      /\ r.pc \in {"fix_attach", "fix_umount"} => r.op = "miss_fix"
      /\ r.pc = "define" => r.op \in {"unshelve", "miss_fix"}
      /\ r.op = "miss_fix" => r.todo \subseteq [thing : Disks, dev : 1 .. MaxDev]
  BY <1>1, <1>3 DEF Request, Idle
<1>5. vm_status' = vm_status \/ vm_status' \in [Vms -> {"none", "normal", "shelve"}]
  BY <1>1 DEF CheckAttachedIp, Undefine, DeleteVmRow, ShelveSave, UnshelveSave, Define,
              MountVdisks, FixAttach, FixUmount, VmsUnchanged
<1>6. ASSUME NEW a \in [thing : Disks, dev : 1 .. MaxDev], NEW c \in AttachResults(v, a)
      PROVE  c.domain \in DomainState
  BY <1>1, <1>4, <1>6, ResultsTyped DEF Slots, AttachResults, Result
<1>7. \A x \in Disks : x \in MountedOn(v) =>
         [thing |-> x, dev |-> vdisk[x].dev] \in [thing : Disks, dev : 1 .. MaxDev]
  BY <1>1, <1>4, AttachmentAssumption DEF MountedOn, DiskRowSound
<1>8. domain' = domain \/ domain' \in [Vms -> DomainState]
  <2>1. /\ power_off_domain(domain[v]) \in DomainState
        /\ NoDomain \in DomainState /\ Defined \in DomainState
    BY <1>1, <1>4 DEF power_off_domain, DomainState, NoDomain, Defined
  <2>2. CASE MountVdisks(w)
    <3>1. \/ domain' = domain
          \/ \E x \in MountedOn(v) :
                \E c \in AttachResults(v, [thing |-> x, dev |-> vdisk[x].dev]) :
                   domain' = [domain EXCEPT ![v] = c.domain]
      BY <2>2 DEF MountVdisks
    <3>2. MountedOn(v) \subseteq Disks
      BY DEF MountedOn
    <3>3. \A x \in MountedOn(v) :
             \A c \in AttachResults(v, [thing |-> x, dev |-> vdisk[x].dev]) :
                c.domain \in DomainState
      BY <1>6, <1>7, <3>2
    <3>4. domain' = domain \/ \E e \in DomainState : domain' = [domain EXCEPT ![v] = e]
      BY <3>1, <3>3
    <3>5. QED
      BY <1>1, <3>4
  <2>3. CASE FixAttach(w)
    <3>1. \/ domain' = domain
          \/ \E s \in r.todo : \E c \in AttachResults(v, s) :
                domain' = [domain EXCEPT ![v] = c.domain]
      BY <2>3 DEF FixAttach
    <3>2. QED
      BY <1>1, <1>3, <1>4, <1>6, <2>3, <3>1
  <2>4. CASE Undefine(w) \/ Define(w)
    BY <1>1, <2>1, <2>4 DEF Undefine, Define
  <2>5. QED
    BY <2>2, <2>3, <2>4 DEF CheckAttachedIp, DeleteVmRow, ShelveSave, UnshelveSave, FixUmount,
                            VmsUnchanged
<1>9. /\ \/ vdisk' = vdisk
         \/ vdisk' \in [Disks -> VdiskRow] /\ \A x \in Disks : DiskRowSound(vdisk'[x])
      /\ pci' = pci \/ pci' \in [Devices -> Vms \cup {NoVm}]
      /\ attached' = attached \/ attached' \in [Ips -> Vms \cup {NoVm, "none"}]
  <2>1. CASE DeleteVmRow(w)
    <3>1. ASSUME NEW x \in Disks
          PROVE  vdisk'[x] \in VdiskRow /\ DiskRowSound(vdisk'[x])
      <4>1. vdisk'[x] = IF vdisk[x].vm = v THEN [vdisk[x] EXCEPT !.vm = NoVm] ELSE vdisk[x]
        BY <2>1 DEF DeleteVmRow
      <4>2. vdisk[x] \in VdiskRow /\ DiskRowSound(vdisk[x])
        BY <1>1
      <4>3. vdisk[x].vm = v => vdisk[x].state # "none"
        BY <1>4, <4>2, AttachmentAssumption DEF DiskRowSound, NoRow
      <4> DEFINE c == [vdisk[x] EXCEPT !.vm = NoVm]
      <4>4. c \in VdiskRow
        BY <4>2 DEF VdiskRow
      <4>5. c.state = vdisk[x].state /\ c.vm = NoVm /\ c.quota = vdisk[x].quota
        BY <4>2 DEF VdiskRow
      <4> HIDE DEF c
      <4>6. vdisk[x].vm = v => DiskRowSound(c)
        BY <4>2, <4>3, <4>5 DEF DiskRowSound
      <4>7. QED
        BY <4>1, <4>2, <4>4, <4>6 DEF c
    <3>2. vdisk' \in [Disks -> VdiskRow]
      BY <2>1, <3>1 DEF DeleteVmRow
    <3>3. pci' \in [Devices -> Vms \cup {NoVm}]
      BY <1>1, <2>1 DEF DeleteVmRow
    <3>4. attached' \in [Ips -> Vms \cup {NoVm, "none"}]
      BY <1>1, <2>1 DEF DeleteVmRow
    <3>5. QED
      BY <3>1, <3>2, <3>3, <3>4
  <2>2. CASE FixUmount(w)
    <3>1. t \in Disks
      BY <1>3, <1>4, <2>2
    <3> DEFINE row == [vdisk[t] EXCEPT !.vm = NoVm, !.dev = 0]
    <3>2. vdisk' = [vdisk EXCEPT ![t] = row] /\ pci' = pci /\ attached' = attached
      BY <1>1, <2>2, <3>1 DEF FixUmount, UnmountRow, VdiskRow
    <3>3. vdisk[t] \in VdiskRow /\ DiskRowSound(vdisk[t])
      BY <1>1, <3>1
    <3>4. row \in VdiskRow /\ DiskRowSound(row)
      BY <3>3, ClearedRow
    <3>5. QED
      BY <1>1, <3>2, <3>4
  <2>3. QED
    BY <2>1, <2>2 DEF CheckAttachedIp, Undefine, ShelveSave, UnshelveSave, Define, MountVdisks,
       FixAttach, RowsUnchanged
<1>10. PICK s \in WorkerState : Becomes(w, s) /\ Request(s)
  <2>1. CASE End(w)
    BY <1>1, <2>1 DEF End, Becomes
  <2>2. ASSUME NEW pc \in Pcs, Goto(w, pc),
               \/ r.pc = "att_check" /\ pc = "undefine"
               \/ r.pc = "undefine" /\ r.op = "shelve" /\ pc = "shelve_save"
               \/ r.pc = "undefine" /\ r.op # "shelve" /\ pc = "vm_rowdel"
               \/ r.pc = "unshelve_save" /\ pc = "define"
               \/ r.pc = "define" /\ r.op = "unshelve" /\ pc = "mount_vdisks"
               \/ r.pc = "fix_umount" /\ pc = "fix_attach"
        PROVE  \E s \in WorkerState : Becomes(w, s) /\ Request(s)
    <3> DEFINE s == [r EXCEPT !.pc = pc]
    <3>1. s \in WorkerState
      BY <1>1 DEF WorkerState
    <3>2. Request(s)
      BY <1>1, <1>3, <2>2 DEF Request, Idle, WorkerState
    <3>3. Becomes(w, s)
      BY <2>2 DEF Goto, Becomes
    <3>4. QED
      BY <3>1, <3>2, <3>3
  <2>3. CASE FixAttach(w) /\ ~End(w)
    <3>1. PICK a \in r.todo : \E c \in AttachResults(v, a) :
             worker' = [worker EXCEPT ![w].todo = @ \ {a}, ![w].thing = a.thing,
                                      ![w].pc = IF c.ok THEN @ ELSE "fix_umount"]
      BY <2>3 DEF FixAttach
    <3>2. PICK pc \in {"fix_attach", "fix_umount"} :
             worker' = [worker EXCEPT ![w].todo = @ \ {a}, ![w].thing = a.thing, ![w].pc = pc]
      BY <1>1, <1>3, <2>3, <3>1, TypedPlaces
    <3> DEFINE s == [r EXCEPT !.todo = @ \ {a}, !.thing = a.thing, !.pc = pc]
    <3>3. a.thing \in Disks /\ r.op = "miss_fix"
      BY <1>3, <1>4, <2>3
    <3>4. s \in WorkerState
      BY <1>1, <3>3 DEF WorkerState, Things, Pcs
    <3>5. Request(s)
      BY <1>1, <1>4, <3>3 DEF Request, Idle, WorkerState
    <3>6. Becomes(w, s)
      BY <1>1, <3>2, TypedPlaces DEF Becomes
    <3>7. QED
      BY <3>4, <3>5, <3>6
  <2>4. CASE Define(w) /\ r.op = "miss_fix" /\ ~End(w)
    <3> DEFINE rows == {[thing |-> d, dev |-> vdisk[d].dev] : d \in MountedOn(v)}
               s == [r EXCEPT !.pc = "fix_attach", !.todo = rows]
    <3>1. worker' = [worker EXCEPT ![w].pc = "fix_attach", ![w].todo = rows]
      BY <2>4 DEF Define
    <3>2. rows \subseteq [thing : Disks, dev : 1 .. MaxDev]
      BY <1>7 DEF MountedOn
    <3> HIDE DEF rows
    <3>3. s \in WorkerState
      BY <1>1, <3>2 DEF WorkerState, Pcs, Slots
    <3>4. Request(s)
      BY <1>1, <1>3, <2>4, <3>2 DEF Request, Idle, WorkerState
    <3>5. Becomes(w, s)
      BY <3>1, TypedPlaces DEF Becomes
    <3>6. QED
      BY <3>3, <3>4, <3>5
  <2>5. {"undefine", "shelve_save", "vm_rowdel", "define", "mount_vdisks", "fix_attach"}
           \subseteq Pcs
    BY DEF Pcs
  <2>6. QED
    BY <1>4, <2>1, <2>2, <2>3, <2>4, <2>5
       DEF CheckAttachedIp, Undefine, DeleteVmRow, ShelveSave, UnshelveSave, Define, MountVdisks,
           FixAttach, FixUmount, At
<1>11. QED
  BY <1>2, <1>5, <1>8, <1>9, <1>10, TypesKept

\* Nothing is attached at first, and no request is served.
LEMMA InitTypes == Init => TInv
<1> SUFFICES ASSUME Init
             PROVE  TInv
  OBVIOUS
<1>1. Idle \in WorkerState
  BY DomainAssumption DEF Idle, WorkerState, Pcs, ImageName
<1>2. NoRow \in VdiskRow /\ DiskRowSound(NoRow)
  BY DomainAssumption DEF NoRow, VdiskRow, DiskRowSound
<1>3. Defined \in DomainState
  BY DEF Defined, NoDomain, DomainState
<1>4. TypeOK
  BY <1>1, <1>2, <1>3 DEF Init, TypeOK, QuotaInit, QuotaTypeOK, IpInit, IpTypeOK, ImageName
<1>5. QED
  BY <1>2, <1>4 DEF TInv, RequestsInv, RowsInv, Request, Init

\* Every step, of whichever request, keeps the types.
LEMMA NextTypes == TInv /\ [Next]_vars => TInv'
<1> SUFFICES ASSUME TInv, [Next]_vars
             PROVE  TInv'
  OBVIOUS
<1>1. CASE UNCHANGED vars
  BY <1>1 DEF vars, TInv, TypeOK, RequestsInv, RowsInv, QuotaTypeOK, IpTypeOK
<1>2. ASSUME UNCHANGED workload, NEW w \in Workers,
             DiskRequest(w) \/ DeviceRequest(w) \/ VmRequest(w) \/ Serve(w)
      PROVE  TInv'
  BY <1>2, DiskRequestTypes, DeviceRequestTypes, VmRequestTypes, DiskStepTypes,
     DeviceStepTypes, IpStepTypes, VmStepTypes DEF Serve
<1>3. QED
  BY <1>1, <1>2 DEF Next

\* Types are kept, and with them that a request is at a step of its kind.
LEMMA TypedAlways == Spec => []TInv
  BY InitTypes, NextTypes, PTL DEF Spec

\* Every row, domain, pool and request stays what its type says.
THEOREM AttachmentsTypeCorrect == Spec => []TypeOK
<1>1. TInv => TypeOK
  BY DEF TInv
<1>2. QED
  BY <1>1, TypedAlways, PTL

-----------------------------------------------------------------------------
(* The quota of the pools. *)

\* A set that gains or loses one element changes its size by one.
LEMMA CountChange ==
    ASSUME NEW U, IsFiniteSet(U), NEW S \in SUBSET U, NEW T \in SUBSET U, NEW u \in U,
           \A x \in U \ {u} : x \in T <=> x \in S
    PROVE  /\ Cardinality(S) \in Nat /\ Cardinality(T) \in Nat
           /\ (u \in S <=> u \in T) => T = S
           /\ u \notin S /\ u \in T => Cardinality(T) = Cardinality(S) + 1
           /\ u \in S /\ u \notin T => Cardinality(T) = Cardinality(S) - 1
<1>1. IsFiniteSet(S) /\ IsFiniteSet(T)
  BY FS_Subset
<1>2. Cardinality(S) \in Nat /\ Cardinality(T) \in Nat
  BY <1>1, FS_CardinalityType
<1>3. (u \in S <=> u \in T) => T = S
  OBVIOUS
<1>4. ASSUME u \notin S, u \in T
      PROVE  Cardinality(T) = Cardinality(S) + 1
  BY <1>1, <1>4, FS_AddElement
<1>5. ASSUME u \in S, u \notin T
      PROVE  Cardinality(T) = Cardinality(S) - 1
  BY <1>1, <1>2, <1>5, FS_AddElement
<1>6. QED
  BY <1>2, <1>3, <1>4, <1>5

\* The steps that have to do with quota.
QuotaStep(w) ==
    \/ \E d \in Disks : CreateVdisk(w, d) \/ AdminDelete(w, d)
    \/ ClaimQuota(w) \/ SaveVdisk(w) \/ CreateCephDisk(w) \/ UnsaveVdisk(w) \/ UndoClaim(w)
    \/ RemoveCephDisk(w) \/ FreeVdisk(w) \/ DeleteVdiskRow(w)

Step(w) == DiskRequest(w) \/ DeviceRequest(w) \/ VmRequest(w) \/ Serve(w)

Makers == {"create_vdisk", "admin_delete"}

\* A row is there, or is not, as before, and so is its pool.
SamePool(d) ==
    /\ vdisk'[d].quota = vdisk[d].quota
    /\ vdisk'[d].state = "none" <=> vdisk[d].state = "none"

\* The others leave the pools and the pool of every row alone, and are of
\* other requests.
QuotaQuiet(w) ==
    /\ UNCHANGED size_used
    /\ \A d \in Disks : SamePool(d)
    /\ \A x \in Workers \ {w} : worker'[x] = worker[x]
    /\ \/ worker'[w] = worker[w]
       \/ worker[w].op \notin Makers /\ worker'[w].op \notin Makers

\* A step of w leaves the other requests alone, and w itself ends, or begins,
\* or goes on with what it is about.
LEMMA OneWorker ==
    ASSUME TInv, NEW w \in Workers, Step(w)
    PROVE  /\ \A x \in Workers \ {w} : worker'[x] = worker[x]
           /\ \/ worker'[w] = worker[w]
              \/ worker[w] = Idle
              \/ worker'[w] = Idle
              \/ /\ worker'[w].op = worker[w].op /\ worker'[w].vm = worker[w].vm
                 /\ worker'[w].dev = worker[w].dev /\ worker'[w].name = worker[w].name
                 /\ worker'[w].thing = worker[w].thing \/ worker[w].op = "miss_fix"
                 /\ worker'[w].quota = worker[w].quota \/ worker[w].pc = "claim"
<1> DEFINE r == worker[w]
<1>1. r \in WorkerState /\ Request(r) /\ worker \in [Workers -> WorkerState]
  BY TypedPlaces
<1>2. CASE Serve(w)
  <2>1. CASE ClaimQuota(w)
    <3>1. r.pc = "claim"
      BY <2>1 DEF ClaimQuota, At
    <3>2. CASE End(w)
      BY <1>1, <3>2 DEF End
    <3>3. CASE ~End(w)
      <4>1. PICK q : worker' = [worker EXCEPT ![w].pc = "save", ![w].quota = q,
                                              ![w].loaded = Idle.loaded]
        BY <2>1, <3>3 DEF ClaimQuota
      <4>2. QED
        BY <1>1, <3>1, <4>1 DEF WorkerState
    <3>4. QED
      BY <3>2, <3>3
  <2>2. CASE Define(w)
    <3>a. CASE End(w)
      BY <1>1, <3>a DEF End
    <3>1. CASE Goto(w, "mount_vdisks")
      BY <1>1, <3>1 DEF Goto, WorkerState
    <3>2. CASE ~End(w) /\ ~Goto(w, "mount_vdisks")
      <4>1. PICK S : worker' = [worker EXCEPT ![w].pc = "fix_attach", ![w].todo = S]
        BY <2>2, <3>2 DEF Define
      <4>2. QED
        BY <1>1, <4>1 DEF WorkerState
    <3>3. QED
      BY <3>a, <3>1, <3>2
  <2>3. CASE FixAttach(w)
    <3>b. r.pc = "fix_attach"
      BY <2>3 DEF FixAttach, At
    <3>1. r.op = "miss_fix"
      BY <1>1, <3>b DEF Request, Idle
    <3>2. CASE End(w)
      BY <1>1, <3>2 DEF End
    <3>3. CASE ~End(w)
      <4>1. PICK s \in r.todo : \E c \in AttachResults(r.vm, s) :
               worker' = [worker EXCEPT ![w].todo = @ \ {s}, ![w].thing = s.thing,
                                        ![w].pc = IF c.ok THEN @ ELSE "fix_umount"]
        BY <2>3, <3>3 DEF FixAttach
      <4>2. QED
        BY <1>1, <3>1, <4>1 DEF WorkerState
    <3>4. QED
      BY <3>2, <3>3
  <2>4. End(w) \/ (\E pc : Goto(w, pc)) \/ ClaimQuota(w) \/ Define(w) \/ FixAttach(w)
    BY <1>2 DEF Serve, SaveVdisk, CreateCephDisk, UnsaveVdisk, UndoClaim, SoftDelete,
       RenameDiskRbdName, RemoveCephDisk, FreeVdisk, DeleteVdiskRow, MountRow, Attach, UndoMount,
       Detach, UmountRow, ApplyIp, AttachRow, FreeAttachedIp, DeleteAttachedIp, CheckAttachedIp,
       Undefine, DeleteVmRow, ShelveSave, UnshelveSave, MountVdisks, FixUmount
  <2>5. QED
    BY <1>1, <2>1, <2>2, <2>3, <2>4 DEF End, Goto, WorkerState
<1>3. CASE DiskRequest(w) \/ DeviceRequest(w) \/ VmRequest(w)
  <2>1. ASSUME NEW d \in Disks,
               \/ CreateVdisk(w, d) \/ DestroyVdisk(w, d) \/ AdminDelete(w, d) \/ UmountDisk(w, d)
               \/ \E v \in Vms : MountDisk(w, d, v)
        PROVE  r.pc = "idle" /\ \A x \in Workers \ {w} : worker'[x] = worker[x]
    BY <1>1, <2>1 DEF CreateVdisk, DestroyVdisk, AdminDelete, UmountDisk, MountDisk, MayStart, At,
                      Begin
  <2>2. ASSUME NEW t, NEW v,
               MountPci(w, t, v) \/ UmountPci(w, t) \/ AttachIp(w, t, v) \/ DetachIp(w, t, v)
        PROVE  r.pc = "idle" /\ \A x \in Workers \ {w} : worker'[x] = worker[x]
    BY <1>1, <2>2 DEF MountPci, UmountPci, AttachIp, DetachIp, MayStart, At, Begin
  <2>3. ASSUME NEW v \in Vms,
               \/ PowerOn(w, v) \/ PowerOff(w, v) \/ DeleteVm(w, v) \/ Shelve(w, v)
               \/ Unshelve(w, v) \/ Delshelve(w, v) \/ MissFix(w, v) \/ Lose(w, v)
        PROVE  r.pc = "idle" /\ \A x \in Workers \ {w} : worker'[x] = worker[x]
    BY <1>1, <2>3 DEF PowerOn, PowerOff, DeleteVm, Shelve, Unshelve, Delshelve, MissFix, Lose,
                      MayStart, At, Begin
  <2>4. r.pc = "idle" /\ \A x \in Workers \ {w} : worker'[x] = worker[x]
    BY <1>3, <2>1, <2>2, <2>3 DEF DiskRequest, DeviceRequest, VmRequest
  <2>5. worker[w] = Idle
    BY <1>1, <2>4 DEF Request, Idle
  <2>6. QED
    BY <2>4, <2>5
<1>4. QED
  BY <1>2, <1>3 DEF Step


\* A row that no step writes keeps its pool.
LEMMA RowKeepsPool ==
    ASSUME TInv, vdisk' = vdisk
    PROVE  \A d \in Disks : SamePool(d)
BY DEF SamePool

\* So does one that a step writes as it was but for the vm and the device name.
LEMMA WrittenRowKeepsPool ==
    ASSUME TInv, NEW e, NEW row, vdisk' = [vdisk EXCEPT ![e] = row],
           e \in Disks => /\ row.quota = vdisk[e].quota
                          /\ row.state = "none" <=> vdisk[e].state = "none"
    PROVE  \A d \in Disks : SamePool(d)
<1> SUFFICES ASSUME NEW d \in Disks
             PROVE  SamePool(d)
  OBVIOUS
<1>1. vdisk'[d] = IF d = e THEN row ELSE vdisk[d]
  BY DEF TInv, TypeOK
<1>2. QED
  BY <1>1 DEF SamePool
\* Every step is one of the two.
LEMMA QuotaStepOrQuiet ==
    ASSUME TInv, NEW w \in Workers, Step(w)
    PROVE  QuotaStep(w) \/ QuotaQuiet(w)
<1> DEFINE r == worker[w]
           s == worker'[w]
           Same == \A d \in Disks : SamePool(d)
<1>1. /\ r \in WorkerState /\ Request(r) /\ worker \in [Workers -> WorkerState]
      /\ vdisk \in [Disks -> VdiskRow] /\ Idle.op \notin Makers
  BY TypedPlaces DEF Idle, Makers
<1>2. SUFFICES ASSUME ~QuotaStep(w)
               PROVE  QuotaQuiet(w)
  OBVIOUS
<1>3. CASE Serve(w)
  <2>1. \/ SoftDelete(w) \/ RenameDiskRbdName(w)
        \/ MountRow(w) \/ Attach(w) \/ UndoMount(w) \/ Detach(w) \/ UmountRow(w)
        \/ ApplyIp(w) \/ AttachRow(w) \/ FreeAttachedIp(w) \/ DeleteAttachedIp(w)
        \/ CheckAttachedIp(w) \/ Undefine(w) \/ DeleteVmRow(w) \/ ShelveSave(w)
        \/ UnshelveSave(w) \/ Define(w) \/ MountVdisks(w) \/ FixAttach(w) \/ FixUmount(w)
    BY <1>2, <1>3 DEF Serve, QuotaStep
  <2>2. UNCHANGED size_used
    BY <2>1 DEF SoftDelete, RenameDiskRbdName, MountRow, Attach, UndoMount, Detach, UmountRow,
       ApplyIp, AttachRow, FreeAttachedIp, DeleteAttachedIp, CheckAttachedIp, Undefine,
       DeleteVmRow, ShelveSave, UnshelveSave, Define, MountVdisks, FixAttach, FixUmount,
       PoolUnchanged
  <2>3. r.pc \notin {"idle", "claim", "save", "create_image", "unsave", "undo_claim",
                     "remove_image", "free", "rowdel"}
    BY <2>1 DEF SoftDelete, RenameDiskRbdName, MountRow, Attach, UndoMount, Detach, UmountRow,
       ApplyIp, AttachRow, FreeAttachedIp, DeleteAttachedIp, CheckAttachedIp, Undefine,
       DeleteVmRow, ShelveSave, UnshelveSave, Define, MountVdisks, FixAttach, FixUmount, At
  <2>4. r.op \notin Makers /\ r # Idle
    BY <1>1, <2>3 DEF Request, Makers, Idle
  <2>5. s.op \notin Makers
    BY <1>1, <2>4, OneWorker
  <2>6. ASSUME UnmountRow(r.thing)
        PROVE  Same
    <3>1. CASE vdisk' = vdisk
      BY <3>1, RowKeepsPool
    <3>2. CASE r.thing \in Disks
      <4> DEFINE row == [vdisk[r.thing] EXCEPT !.vm = NoVm, !.dev = 0]
      <4>1. vdisk' = [vdisk EXCEPT ![r.thing] = row]
        BY <2>6, <3>2 DEF UnmountRow
      <4>2. vdisk[r.thing] \in VdiskRow
        BY <1>1, <3>2
      <4>3. row.quota = vdisk[r.thing].quota
                             /\ row.state = vdisk[r.thing].state
        BY <4>2 DEF VdiskRow
      <4> HIDE DEF row
      <4>4. QED
        BY <4>1, <4>3, WrittenRowKeepsPool
    <3>3. QED
      BY <2>6, <3>1, <3>2 DEF UnmountRow
  <2>7. ASSUME SoftDelete(w) \/ MountRow(w)
        PROVE  Same
    <3>1. CASE vdisk' = vdisk
      BY <3>1, RowKeepsPool
    <3>2. CASE SoftDelete(w) /\ vdisk' # vdisk
      <4> DEFINE row == [vdisk[r.thing] EXCEPT !.state = "deleted"]
      <4>1. vdisk[r.thing].state # "none" /\ r.thing \in Disks
            /\ vdisk' = [vdisk EXCEPT ![r.thing] = row]
        BY <1>1, <3>2 DEF SoftDelete, At, Request, Idle
      <4>2. vdisk[r.thing] \in VdiskRow
        BY <1>1, <4>1
      <4>3. row.quota = vdisk[r.thing].quota /\ row.state = "deleted"
        BY <4>2 DEF VdiskRow
      <4> HIDE DEF row
      <4>4. QED
        BY <4>1, <4>3, WrittenRowKeepsPool
    <3>3. CASE MountRow(w) /\ vdisk' # vdisk
      <4> DEFINE row == [vdisk[r.thing] EXCEPT !.vm = r.vm, !.dev = r.dev]
      <4>1. /\ r.thing \in Disks /\ r.pc = "mount_row"
            /\ vdisk' = [vdisk EXCEPT ![r.thing] = row]
        BY <3>3 DEF MountRow, At
      <4>2. vdisk[r.thing] \in VdiskRow /\ r.vm \in Vms
        BY <1>1, <4>1 DEF Request, Idle
      <4>3. row.quota = vdisk[r.thing].quota
                             /\ row.state = vdisk[r.thing].state
        BY <1>1, <4>2 DEF VdiskRow, WorkerState
      <4> HIDE DEF row
      <4>4. QED
        BY <4>1, <4>3, WrittenRowKeepsPool
    <3>4. QED
      BY <2>7, <3>1, <3>2, <3>3
  <2>8. ASSUME UndoMount(w) \/ UmountRow(w) \/ FixUmount(w)
        PROVE  Same
    BY <2>6, <2>8, RowKeepsPool DEF UndoMount, UmountRow, FixUmount
  <2>9. ASSUME DeleteVmRow(w)
        PROVE  Same
    <3>1. SUFFICES ASSUME NEW d \in Disks
                   PROVE  SamePool(d)
      OBVIOUS
    <3>2. vdisk'[d] = IF vdisk[d].vm = r.vm THEN [vdisk[d] EXCEPT !.vm = NoVm] ELSE vdisk[d]
      BY <2>9 DEF DeleteVmRow
    <3>3. vdisk[d] \in VdiskRow
      BY <1>1
    <3>4. QED
      BY <3>2, <3>3 DEF SamePool, VdiskRow
  <2>c. ASSUME \/ RenameDiskRbdName(w) \/ Attach(w) \/ Detach(w) \/ ApplyIp(w) \/ AttachRow(w)
               \/ FreeAttachedIp(w) \/ DeleteAttachedIp(w) \/ CheckAttachedIp(w) \/ Undefine(w)
               \/ ShelveSave(w) \/ UnshelveSave(w) \/ Define(w) \/ MountVdisks(w) \/ FixAttach(w)
        PROVE  Same
    <3>1. vdisk' = vdisk
      BY <2>c DEF RenameDiskRbdName, Attach, Detach, ApplyIp, AttachRow,
         FreeAttachedIp, DeleteAttachedIp, CheckAttachedIp, Undefine, ShelveSave, UnshelveSave,
         Define, MountVdisks, FixAttach, RowsUnchanged
    <3>2. QED
      BY <3>1, RowKeepsPool
  <2>10. Same
    BY <2>1, <2>7, <2>8, <2>9, <2>c
  <2>11. QED
    BY <1>3, <2>2, <2>4, <2>5, <2>10, OneWorker DEF QuotaQuiet, Step
<1>4. ASSUME NEW d \in Disks,
             DestroyVdisk(w, d) \/ UmountDisk(w, d) \/ \E v \in Vms : MountDisk(w, d, v)
      PROVE  QuotaQuiet(w)
  <2>1. /\ UNCHANGED <<size_used, vdisk>> /\ r.pc = "idle"
        /\ \A x \in Workers \ {w} : worker'[x] = worker[x]
        /\ s.op \in {"destroy_vdisk", "umount_disk", "mount_disk"}
    <3>1. CASE DestroyVdisk(w, d)
      BY <1>1, <3>1 DEF DestroyVdisk, Begin, RowsUnchanged, PoolUnchanged, MayStart, At, Idle
    <3>2. CASE UmountDisk(w, d)
      BY <1>1, <3>2 DEF UmountDisk, RowsUnchanged, PoolUnchanged, MayStart, At, Idle
    <3>3. ASSUME NEW v \in Vms, MountDisk(w, d, v)
          PROVE  <2>1!:
      BY <1>1, <3>3 DEF MountDisk, RowsUnchanged, PoolUnchanged, MayStart, At, Idle
    <3>4. QED
      BY <1>4, <3>1, <3>2, <3>3
  <2>2. r = Idle
    BY <1>1, <2>1 DEF Request
  <2>3. QED
    BY <1>1, <2>1, <2>2, RowKeepsPool DEF QuotaQuiet, Makers
<1>5. ASSUME NEW t, NEW v,
             MountPci(w, t, v) \/ UmountPci(w, t) \/ AttachIp(w, t, v) \/ DetachIp(w, t, v)
      PROVE  QuotaQuiet(w)
  <2>1. /\ UNCHANGED <<size_used, vdisk>> /\ r.pc = "idle"
        /\ \A x \in Workers \ {w} : worker'[x] = worker[x]
        /\ s.op \in {"mount_pci", "umount_pci", "attach_ip", "detach_ip"}
    <3>1. CASE MountPci(w, t, v)
      BY <1>1, <3>1 DEF MountPci, Begin, RowsUnchanged, PoolUnchanged, MayStart, At, Idle
    <3>2. CASE UmountPci(w, t)
      BY <1>1, <3>2 DEF UmountPci, Begin, RowsUnchanged, PoolUnchanged, MayStart, At, Idle
    <3>3. CASE AttachIp(w, t, v)
      BY <1>1, <3>3 DEF AttachIp, Begin, RowsUnchanged, PoolUnchanged, MayStart, At, Idle
    <3>4. CASE DetachIp(w, t, v)
      BY <1>1, <3>4 DEF DetachIp, Begin, RowsUnchanged, PoolUnchanged, MayStart, At, Idle
    <3>5. QED
      BY <1>5, <3>1, <3>2, <3>3, <3>4
  <2>2. r = Idle
    BY <1>1, <2>1 DEF Request
  <2>3. QED
    BY <1>1, <2>1, <2>2, RowKeepsPool DEF QuotaQuiet, Makers
<1>6. ASSUME NEW v \in Vms,
             \/ PowerOn(w, v) \/ PowerOff(w, v) \/ DeleteVm(w, v) \/ Shelve(w, v)
             \/ Unshelve(w, v) \/ Delshelve(w, v) \/ MissFix(w, v) \/ Lose(w, v)
      PROVE  QuotaQuiet(w)
  <2>1. /\ UNCHANGED <<size_used, vdisk>> /\ r.pc = "idle"
        /\ \A x \in Workers \ {w} : worker'[x] = worker[x]
        /\ \/ s = r
           \/ s.op \in {"delete_vm", "shelve", "unshelve", "delshelve", "miss_fix"}
    <3>1. CASE PowerOn(w, v) \/ PowerOff(w, v) \/ Lose(w, v)
      BY <1>1, <3>1 DEF PowerOn, PowerOff, Lose, RowsUnchanged, PoolUnchanged, MayStart, At
    <3>2. CASE DeleteVm(w, v)
      BY <1>1, <3>2 DEF DeleteVm, Begin, RowsUnchanged, PoolUnchanged, MayStart, At, Idle
    <3>3. CASE Shelve(w, v)
      BY <1>1, <3>3 DEF Shelve, Begin, RowsUnchanged, PoolUnchanged, MayStart, At, Idle
    <3>4. CASE Unshelve(w, v)
      BY <1>1, <3>4 DEF Unshelve, Begin, RowsUnchanged, PoolUnchanged, MayStart, At, Idle
    <3>5. CASE Delshelve(w, v)
      BY <1>1, <3>5 DEF Delshelve, Begin, RowsUnchanged, PoolUnchanged, MayStart, At, Idle
    <3>6. CASE MissFix(w, v)
      BY <1>1, <3>6 DEF MissFix, Begin, RowsUnchanged, PoolUnchanged, MayStart, At, Idle
    <3>7. QED
      BY <1>6, <3>1, <3>2, <3>3, <3>4, <3>5, <3>6
  <2>2. r = Idle
    BY <1>1, <2>1 DEF Request
  <2>3. QED
    BY <1>1, <2>1, <2>2, RowKeepsPool DEF QuotaQuiet, Makers
<1>7. QED
  BY <1>2, <1>3, <1>4, <1>5, <1>6 DEF Step, DiskRequest, DeviceRequest, VmRequest, QuotaStep

-----------------------------------------------------------------------------
(* Overcommitment. *)

\* The requests that will find q good enough, on what they read of it.
Claimants(q) ==
    {w \in Workers : worker[w].pc = "claim" /\ worker[w].loaded[q] + DiskSize <= QuotaTotal[q]}

\* Each of them may still claim: what is used leaves room for that.
ClaimsToCome ==
    \A q \in Quotas :
        size_used[q] + Cardinality(Claimants(q)) * DiskSize
           <= QuotaTotal[q] + (Cardinality(Workers) - 1) * DiskSize

\* A request that reads the pool is one more claimant; what it claims takes it
\* out of the claimants again.
LEMMA NextClaimsToCome ==
    ASSUME TInv, TInv', ClaimsToCome, NEW w \in Workers, Step(w)
    PROVE  ClaimsToCome'
<1> SUFFICES ASSUME NEW q \in Quotas
             PROVE  size_used'[q] + Cardinality(Claimants(q)') * DiskSize
                       <= QuotaTotal[q] + (Cardinality(Workers) - 1) * DiskSize
  BY DEF ClaimsToCome
<1> DEFINE S == Claimants(q)
           T == Claimants(q)'
           n == Cardinality(S)
           m == Cardinality(T)
           k == Cardinality(Workers)
<1>1. /\ size_used \in [Quotas -> Int] /\ DiskSize \in Nat /\ QuotaTotal[q] \in Nat
      /\ IsFiniteSet(Workers) /\ k \in Nat
      /\ worker[w] \in WorkerState /\ Request(worker[w])
      /\ worker \in [Workers -> WorkerState]
  BY TypedPlaces, AttachmentAssumption, QuotaAssumption, FS_CardinalityType
     DEF TInv, TypeOK, QuotaTypeOK
<1>2. \A x \in Workers \ {w} : worker'[x] = worker[x]
  BY OneWorker
<1>3. /\ S \in SUBSET Workers /\ T \in SUBSET Workers
      /\ \A x \in Workers \ {w} : x \in T <=> x \in S
  BY <1>2 DEF Claimants
<1>4. /\ n \in Nat /\ m \in Nat
      /\ (w \in S <=> w \in T) => m = n
      /\ w \notin S /\ w \in T => m = n + 1
      /\ w \in S /\ w \notin T => m = n - 1
  BY <1>1, <1>3, CountChange
<1>b. k \in Nat
  BY <1>1
<1>5. m <= k
  BY <1>1, <1>3, FS_Subset
<1>6. size_used[q] + n * DiskSize <= QuotaTotal[q] + (k - 1) * DiskSize
  BY DEF ClaimsToCome
<1>7. w \in S <=> /\ worker[w].pc = "claim"
                  /\ worker[w].loaded[q] + DiskSize <= QuotaTotal[q]
  BY DEF Claimants
<1>8. w \in T <=> /\ worker'[w].pc = "claim"
                  /\ worker'[w].loaded[q] + DiskSize <= QuotaTotal[q]
  BY DEF Claimants
<1>a. SUFFICES size_used'[q] + m * DiskSize <= QuotaTotal[q] + (k - 1) * DiskSize
  OBVIOUS
<1> HIDE DEF S, T, n, m, k
<1>9. ASSUME size_used'[q] <= size_used[q], size_used'[q] \in Int, w \in T => w \in S
      PROVE  size_used'[q] + m * DiskSize <= QuotaTotal[q] + (k - 1) * DiskSize
  BY <1>b, <1>1, <1>4, <1>6, <1>9
<1>10. CASE QuotaQuiet(w)
  <2>1. worker'[w].pc # "claim" \/ worker'[w] = worker[w]
    BY <1>10 DEF TInv, RequestsInv, Request, Makers, Idle, QuotaQuiet
  <2>2. size_used' = size_used
    BY <1>10 DEF QuotaQuiet
  <2>3. w \in T => w \in S
    BY <1>7, <1>8, <2>1
  <2>4. size_used'[q] <= size_used[q] /\ size_used'[q] \in Int
    BY <1>1, <2>2
  <2>5. QED
    BY <1>9, <2>3, <2>4
<1>11. ASSUME NEW d \in Disks, CreateVdisk(w, d)
       PROVE  size_used'[q] + m * DiskSize <= QuotaTotal[q] + (k - 1) * DiskSize
  <2>1. /\ worker'[w].loaded = size_used /\ size_used' = size_used
        /\ worker[w].pc = "idle"
    BY <1>1, <1>11 DEF CreateVdisk, PoolUnchanged, MayStart, At, Idle
  <2>2. CASE w \notin T
    BY <1>1, <1>9, <2>1, <2>2
  <2>3. CASE w \in T
    BY <1>b, <1>1, <1>4, <1>5, <1>8, <2>1, <2>3
  <2>4. QED
    BY <2>2, <2>3
<1>12. CASE ClaimQuota(w)
  <2>1. worker[w].pc = "claim" /\ worker'[w].pc # "claim"
    <3>1. CASE End(w)
      BY <1>1, <1>12, <3>1 DEF ClaimQuota, At, End, Idle
    <3>2. CASE ~End(w)
      <4>1. PICK p : worker' = [worker EXCEPT ![w].pc = "save", ![w].quota = p,
                                              ![w].loaded = Idle.loaded]
        BY <1>12, <3>2 DEF ClaimQuota
      <4>2. worker'[w].pc = "save"
        BY <1>1, <4>1 DEF WorkerState
      <4>3. QED
        BY <1>12, <4>2 DEF ClaimQuota, At
    <3>3. QED
      BY <3>1, <3>2
  <2>2. w \notin T
    BY <1>8, <2>1
  <2>3. CASE size_used'[q] = size_used[q]
    BY <1>1, <1>9, <2>2, <2>3
  <2>4. CASE size_used'[q] # size_used[q]
    <3>1. PICK asked \in Quotas \cup {NoQuota} :
             LET found == IF asked = NoQuota THEN schedule_quota(worker[w].loaded)
                          ELSE schedule_by_quota(worker[w].loaded, asked)
             IN  \/ found = {} /\ End(w) /\ UNCHANGED size_used
                 \/ \E p \in found : Quota_claim(p, DiskSize)
      BY <1>12 DEF ClaimQuota
    <3>2. PICK p : Quota_claim(p, DiskSize) /\ Quota_can_claim(worker[w].loaded, p, DiskSize)
      BY <2>4, <3>1 DEF schedule_quota, schedule_by_quota
    <3>3. p = q /\ size_used'[q] = size_used[q] + DiskSize
      BY <1>1, <2>4, <3>2 DEF Quota_claim
    <3>4. worker[w].loaded[q] \in Int
      BY <1>1 DEF WorkerState
    <3>5. w \in S
      BY <1>1, <1>7, <2>1, <3>2, <3>3, <3>4 DEF Quota_can_claim, Quota_meet_needs
    <3>6. m = n - 1
      BY <1>4, <2>2, <3>5
    <3>7. n * DiskSize = m * DiskSize + DiskSize
      BY <1>1, <1>4, <3>6
    <3>8. n * DiskSize \in Int /\ m * DiskSize \in Int /\ (k - 1) * DiskSize \in Int
      BY <1>1, <1>4, <1>b
    <3>9. QED
      BY <1>1, <1>6, <3>3, <3>7, <3>8
  <2>5. QED
    BY <2>3, <2>4
<1>13. CASE UndoClaim(w) \/ FreeVdisk(w)
  <2>1. /\ worker'[w].pc # "claim"
        /\ size_used' = [size_used EXCEPT ![worker[w].quota] = @ - DiskSize]
    BY <1>1, <1>13 DEF UndoClaim, End, Idle, Quota_free, FreeVdisk, Goto, WorkerState
  <2>2. size_used'[q] <= size_used[q] /\ size_used'[q] \in Int
    BY <1>1, <2>1
  <2>3. QED
    BY <1>8, <1>9, <2>1, <2>2
<1>14. CASE \/ \E d \in Disks : AdminDelete(w, d)
            \/ SaveVdisk(w) \/ CreateCephDisk(w) \/ UnsaveVdisk(w) \/ RemoveCephDisk(w)
            \/ DeleteVdiskRow(w)
  <2>1. worker'[w].pc # "claim"
    <3>1. CASE \E d \in Disks : AdminDelete(w, d)
      BY <1>1, <3>1 DEF AdminDelete, Idle
    <3>2. CASE SaveVdisk(w) \/ UnsaveVdisk(w)
      BY <1>1, <3>2 DEF SaveVdisk, UnsaveVdisk, Goto, WorkerState
    <3>3. CASE CreateCephDisk(w) \/ RemoveCephDisk(w)
      BY <1>1, <3>3 DEF CreateCephDisk, RemoveCephDisk, End, Goto, Idle, WorkerState
    <3>4. CASE DeleteVdiskRow(w)
      BY <1>1, <3>4 DEF DeleteVdiskRow, End, Idle
    <3>5. QED
      BY <1>14, <3>1, <3>2, <3>3, <3>4
  <2>2. size_used' = size_used
    BY <1>14 DEF AdminDelete, SaveVdisk, CreateCephDisk, UnsaveVdisk, RemoveCephDisk,
       DeleteVdiskRow, PoolUnchanged
  <2>3. QED
    BY <1>1, <1>8, <1>9, <2>1, <2>2
<1>15. QED
  BY <1>10, <1>11, <1>12, <1>13, <1>14, QuotaStepOrQuiet DEF QuotaStep


\* At first nothing is used, and nobody is about to claim.
LEMMA InitClaimsToCome == Init => ClaimsToCome
<1> SUFFICES ASSUME Init, NEW q \in Quotas
             PROVE  size_used[q] + Cardinality(Claimants(q)) * DiskSize
                       <= QuotaTotal[q] + (Cardinality(Workers) - 1) * DiskSize
  BY DEF ClaimsToCome
<1> DEFINE k == Cardinality(Workers)
<1>1. size_used[q] = 0
  BY DEF Init, QuotaInit
<1>2. Claimants(q) = {}
  BY DEF Init, Claimants, Idle
<1>3. Cardinality(Claimants(q)) = 0
  BY <1>2, FS_EmptySet
<1>4. k \in Nat \ {0}
  BY AttachmentAssumption, FS_CardinalityType, FS_EmptySet
<1>5. QuotaTotal[q] \in Nat /\ DiskSize \in Nat
  BY QuotaAssumption, AttachmentAssumption
<1> HIDE DEF k
<1>6. (k - 1) * DiskSize >= 0 /\ (k - 1) * DiskSize \in Int
  BY <1>4, <1>5
<1>7. 0 + 0 * DiskSize <= QuotaTotal[q] + (k - 1) * DiskSize
  BY <1>5, <1>6
<1>8. QED
  BY <1>1, <1>3, <1>7 DEF k

\* A pool is overcommitted by less than what its claimants may still claim.
LEMMA ClaimsBound ==
    ASSUME TInv, ClaimsToCome
    PROVE  OvercommitBounded
<1> SUFFICES ASSUME NEW q \in Quotas
             PROVE  size_used[q] <= QuotaTotal[q] + (Cardinality(Workers) - 1) * DiskSize
  BY DEF OvercommitBounded
<1> DEFINE k == Cardinality(Workers)
           n == Cardinality(Claimants(q))
<1>1. k \in Nat /\ n \in Nat
  BY AttachmentAssumption, FS_CardinalityType, FS_Subset DEF Claimants
<1>2. QuotaTotal[q] \in Nat /\ DiskSize \in Nat /\ size_used[q] \in Int
  BY QuotaAssumption, AttachmentAssumption DEF TInv, TypeOK, QuotaTypeOK
<1>3. size_used[q] + n * DiskSize <= QuotaTotal[q] + (k - 1) * DiskSize
  BY DEF ClaimsToCome
<1> HIDE DEF k, n
<1>4. n * DiskSize >= 0 /\ n * DiskSize \in Int /\ (k - 1) * DiskSize \in Int
  BY <1>1, <1>2
<1>5. size_used[q] <= QuotaTotal[q] + (k - 1) * DiskSize
  BY <1>2, <1>3, <1>4
<1>6. QED
  BY <1>5 DEF k

\* However many requests read a pool before each other's claim, it is
\* overcommitted by no more than one disk for each of them but the first.
THEOREM DiskOvercommit == Spec => []OvercommitBounded
<1>1. Init => TInv /\ ClaimsToCome
  BY InitTypes, InitClaimsToCome
<1>2. TInv /\ ClaimsToCome /\ [Next]_vars => (TInv /\ ClaimsToCome)'
  <2> SUFFICES ASSUME TInv, ClaimsToCome, [Next]_vars
               PROVE  (TInv /\ ClaimsToCome)'
    OBVIOUS
  <2>1. TInv'
    BY NextTypes
  <2>2. CASE UNCHANGED vars
    BY <2>1, <2>2 DEF vars, ClaimsToCome, Claimants
  <2>3. ASSUME NEW w \in Workers, Step(w)
        PROVE  ClaimsToCome'
    BY <2>1, <2>3, NextClaimsToCome
  <2>4. QED
    BY <2>1, <2>2, <2>3 DEF Next, Step
<1>3. TInv /\ ClaimsToCome => OvercommitBounded
  BY ClaimsBound
<1>4. QED
  BY <1>1, <1>2, <1>3, PTL DEF Spec

-----------------------------------------------------------------------------
(* The ledger of the pools. *)

\* A disk is removed for good while no other request creates it or removes it.
RemovedAlone ==
    \A l \in Workloads :
        /\ "admin_delete" \notin l.repeats
        /\ {<<"create_vdisk", "admin_delete">>, <<"admin_delete", "create_vdisk">>}
              \cap l.overlaps = {}

\* Then no two requests make or remove one disk, ...
OneMaker ==
    \A x, y \in Workers :
        x # y /\ worker[x].op \in Makers /\ worker[y].op \in Makers
            => worker[x].thing # worker[y].thing

\* ... and the row is there, with the pool the request knows, exactly while
\* it should be.
MakerSound(w) ==
    LET r == worker[w]
        row == vdisk[r.thing]
    IN  /\ r.pc \in {"claim", "save", "undo_claim"} => row.state = "none"
        /\ r.pc \in {"create_image", "unsave"} \/ r.op = "admin_delete"
              => row.state # "none" /\ row.quota = r.quota

MakersInv == OneMaker /\ \A w \in Workers : MakerSound(w)

\* w is about the disk t, before the step or after it.
MakerOf(w, t) ==
    \/ worker[w] = Idle
    \/ worker[w].op \in Makers /\ worker[w].thing = t

\* A step that has to do with quota is about one disk.
LEMMA QuotaStepDisk ==
    ASSUME TInv, NEW w \in Workers, Step(w), QuotaStep(w)
    PROVE  \E t \in Disks :
              /\ MakerOf(w, t) /\ MakerOf(w, t)'
              /\ worker[w] # Idle \/ worker'[w] # Idle
              /\ \A d \in Disks \ {t} : SamePool(d)
<1> DEFINE r == worker[w]
           s == worker'[w]
<1>1. /\ r \in WorkerState /\ Request(r) /\ worker \in [Workers -> WorkerState]
      /\ vdisk \in [Disks -> VdiskRow]
  BY TypedPlaces
<1>2. ASSUME NEW d \in Disks, CreateVdisk(w, d) \/ AdminDelete(w, d)
      PROVE  r = Idle /\ s.op \in Makers /\ s.thing = d /\ vdisk' = vdisk
  <2>1. r.pc = "idle"
    BY <1>2 DEF CreateVdisk, AdminDelete, MayStart, At
  <2>2. r = Idle
    BY <1>1, <2>1 DEF Request
  <2>3. CASE CreateVdisk(w, d)
    BY <1>1, <2>2, <2>3 DEF CreateVdisk, Idle, Makers, RowsUnchanged
  <2>4. CASE AdminDelete(w, d)
    BY <1>1, <2>2, <2>4 DEF AdminDelete, Idle, Makers, RowsUnchanged
  <2>5. QED
    BY <1>2, <2>3, <2>4
<1>3. ASSUME NEW d \in Disks, CreateVdisk(w, d) \/ AdminDelete(w, d)
      PROVE  \E t \in Disks :
              /\ MakerOf(w, t) /\ MakerOf(w, t)'
              /\ worker[w] # Idle \/ worker'[w] # Idle
              /\ \A e \in Disks \ {t} : SamePool(e)
  BY <1>2, <1>3, RowKeepsPool DEF Makers, Idle, MakerOf
<1>4. CASE \/ ClaimQuota(w) \/ SaveVdisk(w) \/ CreateCephDisk(w) \/ UnsaveVdisk(w) \/ UndoClaim(w)
           \/ RemoveCephDisk(w) \/ FreeVdisk(w) \/ DeleteVdiskRow(w)
  <2>1. r.pc \in {"claim", "save", "create_image", "unsave", "undo_claim", "remove_image",
                  "free", "rowdel"}
    BY <1>4 DEF ClaimQuota, SaveVdisk, CreateCephDisk, UnsaveVdisk, UndoClaim, RemoveCephDisk,
       FreeVdisk, DeleteVdiskRow, At
  <2>2. r.op \in Makers /\ r.thing \in Disks /\ r # Idle
    BY <1>1, <2>1 DEF Request, Makers, Idle
  <2>3. s = r \/ s = Idle \/ (s.op = r.op /\ s.thing = r.thing)
    BY <2>2, OneWorker DEF Makers
  <2>9. PICK t \in Disks : t = r.thing
    BY <2>2
  <2>4. MakerOf(w, t) /\ MakerOf(w, t)'
    BY <2>2, <2>3, <2>9 DEF MakerOf
  <2>5. \/ vdisk' = vdisk
        \/ \E row : vdisk' = [vdisk EXCEPT ![r.thing] = row]
    BY <1>4 DEF ClaimQuota, SaveVdisk, CreateCephDisk, UnsaveVdisk, UndoClaim, RemoveCephDisk,
       FreeVdisk, DeleteVdiskRow, RowsUnchanged
  <2>6. \A e \in Disks \ {r.thing} : vdisk'[e] = vdisk[e]
    BY <1>1, <2>5
  <2>7. \A e \in Disks \ {r.thing} : SamePool(e)
    BY <2>6 DEF SamePool
  <2>8. QED
    BY <2>2, <2>4, <2>7, <2>9
<1>5. QED
  BY <1>3, <1>4 DEF QuotaStep

\* Of two requests that begin, one is refused or is about another disk.
LEMMA OneMakerBegins ==
    ASSUME TInv, RemovedAlone, OneMaker, NEW w \in Workers, NEW d \in Disks,
           CreateVdisk(w, d) \/ AdminDelete(w, d),
           NEW x \in Workers \ {w}, worker[x].op \in Makers
    PROVE  worker[x].thing # d
<1> DEFINE r == worker[x]
<1>1. Request(r) /\ workload \in Workloads
  BY TypedPlaces DEF TInv, TypeOK
<1>2. d # NoThing
  BY AttachmentAssumption DEF Things
<1>3. SUFFICES ASSUME r.thing = d
               PROVE  FALSE
  OBVIOUS
<1>4. x \in BusyOn(NoVm, d)
  BY <1>2, <1>3 DEF BusyOn
<1>5. CASE CreateVdisk(w, d)
  BY <1>4, <1>5 DEF CreateVdisk
<1>6. CASE AdminDelete(w, d)
  <2>1. /\ {<<r.op, "admin_delete">>, <<"admin_delete", r.op>>} \cap workload.overlaps # {}
        /\ \/ "admin_delete" \in workload.repeats
           \/ <<r.op, r.vm, r.thing>> # <<"admin_delete", NoVm, d>>
    BY <1>4, <1>6 DEF AdminDelete, MayStart
  <2>2. CASE r.op = "create_vdisk"
    BY <1>1, <2>1, <2>2 DEF RemovedAlone
  <2>3. CASE r.op = "admin_delete"
    BY <1>1, <1>3, <2>1, <2>3 DEF Request, Idle, RemovedAlone
  <2>4. QED
    BY <2>2, <2>3 DEF Makers
<1>7. QED
  BY <1>5, <1>6

\* What a step leaves of the request that makes or removes a disk.
LEMMA MakerGoesOn ==
    ASSUME TInv, TInv', NEW w \in Workers, Step(w), QuotaStep(w), MakerSound(w)
    PROVE  MakerSound(w)'
<1> DEFINE r == worker[w]
           s == worker'[w]
<1>1. /\ r \in WorkerState /\ Request(r) /\ worker \in [Workers -> WorkerState]
      /\ vdisk \in [Disks -> VdiskRow]
  BY TypedPlaces
<1>2. CASE s = Idle
  BY <1>2 DEF MakerSound, Idle
<1>3. CASE s # Idle
  <2>1. ASSUME NEW d \in Disks, CreateVdisk(w, d)
        PROVE  MakerSound(w)'
    BY <1>1, <2>1 DEF CreateVdisk, Idle, RowsUnchanged, NoRow, MakerSound
  <2>2. ASSUME NEW d \in Disks, AdminDelete(w, d)
        PROVE  MakerSound(w)'
    BY <1>1, <2>2 DEF AdminDelete, Idle, RowsUnchanged, MakerSound
  <2>3. CASE ClaimQuota(w)
    <3>1. r.pc = "claim" /\ vdisk' = vdisk
      BY <2>3 DEF ClaimQuota, At, RowsUnchanged
    <3>2. r.op = "create_vdisk" /\ r.thing \in Disks
      BY <1>1, <3>1 DEF Request, Idle
    <3>3. ~End(w)
      BY <1>1, <1>3 DEF End
    <3>4. PICK q : worker' = [worker EXCEPT ![w].pc = "save", ![w].quota = q,
                                            ![w].loaded = Idle.loaded]
      BY <2>3, <3>3 DEF ClaimQuota
    <3>5. s.pc = "save" /\ s.op = r.op /\ s.thing = r.thing
      BY <1>1, <3>4 DEF WorkerState
    <3>6. QED
      BY <3>1, <3>2, <3>5 DEF MakerSound
  <2>4. CASE SaveVdisk(w)
    BY <1>1, <2>4 DEF SaveVdisk, At, Request, Idle, Goto, WorkerState, NoRow, MakerSound
  <2>5. CASE CreateCephDisk(w)
    BY <1>1, <1>3, <2>5 DEF CreateCephDisk, At, RowsUnchanged, Request, Idle, End, Goto, WorkerState, MakerSound
  <2>6. CASE UnsaveVdisk(w)
    BY <1>1, <2>6 DEF UnsaveVdisk, At, Request, Idle, Goto, WorkerState, NoRow, MakerSound
  <2>7. CASE UndoClaim(w) \/ DeleteVdiskRow(w)
    BY <1>1, <1>3, <2>7 DEF UndoClaim, DeleteVdiskRow, End
  <2>8. CASE RemoveCephDisk(w) \/ FreeVdisk(w)
    <3>1. r.pc \in {"remove_image", "free"} /\ vdisk' = vdisk
      BY <2>8 DEF RemoveCephDisk, FreeVdisk, At, RowsUnchanged
    <3>2. r.op = "admin_delete" /\ r.thing \in Disks
      BY <1>1, <3>1 DEF Request, Idle
    <3>3. ~End(w)
      BY <1>1, <1>3 DEF End
    <3>4. /\ s.pc \in {"free", "rowdel"} /\ s.op = r.op /\ s.thing = r.thing
          /\ s.quota = r.quota
      BY <1>1, <2>8, <3>3 DEF RemoveCephDisk, FreeVdisk, Goto, WorkerState
    <3>5. QED
      BY <3>1, <3>2, <3>4 DEF MakerSound
  <2>9. QED
    BY <2>1, <2>2, <2>3, <2>4, <2>5, <2>6, <2>7, <2>8 DEF QuotaStep
<1>4. QED
  BY <1>2, <1>3

\* A request of another kind has none of the steps of these.
LEMMA MakerPcs ==
    ASSUME TInv, NEW w \in Workers
    PROVE  /\ worker[w].pc \in {"claim", "save", "create_image", "unsave", "undo_claim"}
                 => worker[w].op = "create_vdisk"
           /\ worker[w].pc \in {"remove_image", "free", "rowdel"}
                 => worker[w].op = "admin_delete"
           /\ worker[w].op \in Makers => worker[w].thing \in Disks
           /\ worker[w].op \notin Makers => MakerSound(w)
<1>1. Request(worker[w])
  BY TypedPlaces
<1>2. QED
  BY <1>1 DEF Request, Makers, MakerSound, Idle

\* Every step keeps requests for one disk apart, and what they know of its row.
LEMMA NextMakers ==
    ASSUME TInv, TInv', RemovedAlone, MakersInv, NEW w \in Workers, Step(w)
    PROVE  MakersInv'
<1>1. /\ \A x \in Workers \ {w} : worker'[x] = worker[x]
  BY OneWorker
<1>2. ASSUME NEW x \in Workers \ {w}, worker[x].op \in Makers, SamePool(worker[x].thing)
      PROVE  MakerSound(x)'
  BY <1>1, <1>2 DEF MakersInv, SamePool, MakerSound
<1>3. ASSUME NEW x \in Workers, worker'[x].op \notin Makers
      PROVE  MakerSound(x)'
  BY <1>3 DEF TInv, RequestsInv, Request, Makers, MakerSound, Idle
<1>4. CASE QuotaQuiet(w)
  <2>1. OneMaker'
    BY <1>1, <1>4 DEF QuotaQuiet, OneMaker, MakersInv
  <2>2. ASSUME NEW x \in Workers, worker'[x].op \in Makers
        PROVE  MakerSound(x)'
    BY <1>1, <1>4, <2>2, MakerPcs DEF QuotaQuiet, MakersInv, SamePool, MakerSound
  <2>3. QED
    BY <1>3, <2>1, <2>2 DEF MakersInv
<1>5. CASE QuotaStep(w)
  <2>1. PICK t \in Disks : /\ MakerOf(w, t) /\ MakerOf(w, t)'
                           /\ worker[w] # Idle \/ worker'[w] # Idle
                           /\ \A d \in Disks \ {t} : SamePool(d)
    BY <1>5, QuotaStepDisk
  <2>2. MakerSound(w)'
    BY <1>5, MakerGoesOn DEF MakersInv
  <2>3. ASSUME NEW x \in Workers \ {w}, worker[x].op \in Makers
        PROVE  worker[x].thing # t
    <3>1. CASE worker[w] # Idle
      BY <2>1, <2>3, <3>1 DEF MakerOf, MakersInv, OneMaker
    <3>2. CASE worker[w] = Idle
      <4>1. worker[w].pc = "idle"
        BY <3>2 DEF Idle
      <4>2. PICK d \in Disks : CreateVdisk(w, d) \/ AdminDelete(w, d)
        BY <1>5, <4>1 DEF QuotaStep, ClaimQuota, SaveVdisk, CreateCephDisk, UnsaveVdisk,
           UndoClaim, RemoveCephDisk, FreeVdisk, DeleteVdiskRow, At
      <4>3. worker'[w].thing = d /\ worker'[w] # Idle
        <5>1. worker \in [Workers -> WorkerState] /\ d # NoThing
          BY TypedPlaces, AttachmentAssumption DEF Things
        <5>2. worker'[w].thing = d
          BY <4>2, <5>1 DEF CreateVdisk, AdminDelete, Idle
        <5>3. QED
          BY <5>1, <5>2 DEF Idle
      <4>4. t = d
        BY <2>1, <4>3 DEF MakerOf
      <4>5. QED
        BY <2>3, <4>2, <4>4, OneMakerBegins DEF MakersInv
    <3>3. QED
      BY <3>1, <3>2
  <2>4. OneMaker'
    <3>1. SUFFICES ASSUME NEW x \in Workers, NEW y \in Workers, x # y,
                          worker'[x].op \in Makers, worker'[y].op \in Makers
                   PROVE  worker'[x].thing # worker'[y].thing
      BY DEF OneMaker
    <3>2. Idle.op \notin Makers
      BY DEF Idle, Makers
    <3>3. CASE x = w
      BY <1>1, <2>1, <2>3, <3>1, <3>2, <3>3 DEF MakerOf
    <3>4. CASE y = w
      BY <1>1, <2>1, <2>3, <3>1, <3>2, <3>4 DEF MakerOf
    <3>5. CASE x # w /\ y # w
      BY <1>1, <3>1, <3>5 DEF MakersInv, OneMaker
    <3>6. QED
      BY <3>3, <3>4, <3>5
  <2>5. ASSUME NEW x \in Workers \ {w}
        PROVE  MakerSound(x)'
    BY <1>1, <1>2, <1>3, <2>1, <2>3, MakerPcs
  <2>6. QED
    BY <2>2, <2>4, <2>5 DEF MakersInv
<1>6. QED
  BY <1>4, <1>5, QuotaStepOrQuiet

\* What the ledger counts for q: the disks, and the requests.
Counted(q) == {d \in Disks : vdisk[d].quota = q /\ ~FreedBy(d)}
Claimed(q) == {w \in Workers : ClaimOf(w) = q}

\* How often the disk t and the request w are counted.
Counts(q, t, w) ==
    (IF t \in Counted(q) THEN 1 ELSE 0) + (IF w \in Claimed(q) THEN 1 ELSE 0)

\* If a step changes what is counted for t and for w only, and the pool by as
\* much, the ledger is kept.
LEMMA LedgerStep ==
    ASSUME TInv, NEW q \in Quotas, NEW w \in Workers, NEW t \in Disks,
           \A d \in Disks \ {t} : d \in Counted(q)' <=> d \in Counted(q),
           \A x \in Workers \ {w} : x \in Claimed(q)' <=> x \in Claimed(q),
           NEW old \in Int, old = Counts(q, t, w),
           NEW new \in Int,
           new = (IF t \in Counted(q)' THEN 1 ELSE 0) + (IF w \in Claimed(q)' THEN 1 ELSE 0),
           \/ size_used'[q] = size_used[q] /\ new = old
           \/ size_used'[q] = size_used[q] + DiskSize /\ new = old + 1
           \/ size_used'[q] = size_used[q] - DiskSize /\ new = old - 1,
           size_used[q] = DiskSize * (Cardinality(Counted(q)) + Cardinality(Claimed(q)))
    PROVE  size_used'[q] = DiskSize * (Cardinality(Counted(q)') + Cardinality(Claimed(q)'))
<1> DEFINE S == Counted(q)
           T == Counted(q)'
           K == Claimed(q)
           L == Claimed(q)'
           a == Cardinality(S)
           b == Cardinality(T)
           c == Cardinality(K)
           e == Cardinality(L)
<1>1. IsFiniteSet(Disks) /\ IsFiniteSet(Workers) /\ DiskSize \in Nat /\ size_used[q] \in Int
  BY AttachmentAssumption DEF TInv, TypeOK, QuotaTypeOK
<1>2. /\ S \in SUBSET Disks /\ T \in SUBSET Disks
      /\ K \in SUBSET Workers /\ L \in SUBSET Workers
  BY DEF Counted, Claimed
<1>3. /\ a \in Nat /\ b \in Nat
      /\ (t \in S <=> t \in T) => T = S
      /\ t \notin S /\ t \in T => b = a + 1
      /\ t \in S /\ t \notin T => b = a - 1
  BY <1>1, <1>2, CountChange
<1>4. /\ c \in Nat /\ e \in Nat
      /\ (w \in K <=> w \in L) => L = K
      /\ w \notin K /\ w \in L => e = c + 1
      /\ w \in K /\ w \notin L => e = c - 1
  BY <1>1, <1>2, CountChange
<1>5. b - a = (IF t \in T THEN 1 ELSE 0) - (IF t \in S THEN 1 ELSE 0)
  BY <1>3
<1>6. e - c = (IF w \in L THEN 1 ELSE 0) - (IF w \in K THEN 1 ELSE 0)
  BY <1>4
<1>7. old = (IF t \in S THEN 1 ELSE 0) + (IF w \in K THEN 1 ELSE 0)
  BY DEF Counts
<1>8. size_used[q] = DiskSize * (a + c)
  OBVIOUS
<1> HIDE DEF S, T, K, L, a, b, c, e
<1>9. new = (IF t \in T THEN 1 ELSE 0) + (IF w \in L THEN 1 ELSE 0)
  BY DEF T, L
<1>10. (b + e) - (a + c) = new - old
  BY <1>3, <1>4, <1>5, <1>6, <1>7, <1>9
<1>11. /\ DiskSize * ((a + c) + 1) = DiskSize * (a + c) + DiskSize
       /\ DiskSize * ((a + c) - 1) = DiskSize * (a + c) - DiskSize
  BY <1>1, <1>3, <1>4
<1>12. CASE size_used'[q] = size_used[q] /\ new = old
  <2>1. b + e = a + c
    BY <1>3, <1>4, <1>10, <1>12
  <2>2. QED
    BY <1>8, <1>12, <2>1 DEF b, e, T, L
<1>13. CASE size_used'[q] = size_used[q] + DiskSize /\ new = old + 1
  BY <1>3, <1>4, <1>8, <1>10, <1>11, <1>13 DEF b, e, T, L
<1>14. CASE size_used'[q] = size_used[q] - DiskSize /\ new = old - 1
  BY <1>3, <1>4, <1>8, <1>10, <1>11, <1>14 DEF b, e, T, L
<1>15. QED
  BY <1>12, <1>13, <1>14

\* The ledger, in these words.
LEMMA LedgerSets ==
    VdiskLedger <=> \A q \in Quotas :
       size_used[q] = DiskSize * (Cardinality(Counted(q)) + Cardinality(Claimed(q)))
BY DEF VdiskLedger, Counted, Claimed

\* A step that has nothing to do with quota leaves what is counted.
LEMMA QuietCounts ==
    ASSUME TInv, TInv', NEW w \in Workers, QuotaQuiet(w), NEW q \in Quotas
    PROVE  Counted(q)' = Counted(q) /\ Claimed(q)' = Claimed(q)
<1>1. ASSUME NEW x \in Workers
      PROVE  /\ worker'[x].pc \in {"rowdel", "save", "undo_claim"} => worker'[x] = worker[x]
             /\ worker[x].pc \in {"rowdel", "save", "undo_claim"} => worker'[x] = worker[x]
  BY DEF TInv, RequestsInv, Request, Makers, Idle, QuotaQuiet
<1>2. \A d \in Disks : FreedBy(d)' <=> FreedBy(d)
  BY <1>1 DEF FreedBy
<1>3. \A x \in Workers : ClaimOf(x)' = ClaimOf(x)
  BY <1>1 DEF ClaimOf
<1>4. Counted(q)' = Counted(q)
  BY <1>2 DEF Counted, QuotaQuiet, SamePool
<1>5. QED
  BY <1>3, <1>4 DEF Claimed

\* The disk of a request that makes or removes it is freed by that one alone.
LEMMA StepCounts ==
    ASSUME TInv, TInv', MakersInv, MakersInv', NEW w \in Workers, Step(w),
           NEW t \in Disks, MakerOf(w, t), MakerOf(w, t)',
           worker[w] # Idle \/ worker'[w] # Idle,
           \A d \in Disks \ {t} : SamePool(d),
           NEW q \in Quotas
    PROVE  /\ \A d \in Disks \ {t} : d \in Counted(q)' <=> d \in Counted(q)
           /\ \A x \in Workers \ {w} : x \in Claimed(q)' <=> x \in Claimed(q)
           /\ FreedBy(t) <=> worker[w].pc = "rowdel"
           /\ FreedBy(t)' <=> worker'[w].pc = "rowdel"
<1>1. \A x \in Workers \ {w} : worker'[x] = worker[x]
  BY OneWorker
<1>2. Idle.pc = "idle"
  BY DEF Idle
<1>3. \A d \in Disks \ {t} : FreedBy(d)' <=> FreedBy(d)
  BY <1>1, <1>2 DEF FreedBy, MakerOf
<1>4. \A d \in Disks \ {t} : d \in Counted(q)' <=> d \in Counted(q)
  BY <1>3 DEF Counted, SamePool
<1>5. \A x \in Workers \ {w} : x \in Claimed(q)' <=> x \in Claimed(q)
  BY <1>1 DEF Claimed, ClaimOf
<1>6. ASSUME NEW x \in Workers \ {w}, worker[x].pc = "rowdel"
      PROVE  worker[x].thing # t
  <2>1. worker[x].op \in Makers
    BY <1>6, MakerPcs DEF Makers
  <2>2. CASE worker[w] # Idle
    BY <2>1, <2>2 DEF MakerOf, MakersInv, OneMaker
  <2>3. CASE worker'[w] # Idle
    BY <1>1, <2>1, <2>3 DEF MakerOf, MakersInv, OneMaker
  <2>4. QED
    BY <2>2, <2>3
<1>7. FreedBy(t) <=> worker[w].pc = "rowdel"
  BY <1>2, <1>6 DEF FreedBy, MakerOf
<1>8. FreedBy(t)' <=> worker'[w].pc = "rowdel"
  BY <1>1, <1>2, <1>6 DEF FreedBy, MakerOf
<1>9. QED
  BY <1>4, <1>5, <1>7, <1>8

\* The ledger of one pool is kept by a step that has to do with quota.
LEMMA StepLedger ==
    ASSUME TInv, TInv', MakersInv, MakersInv', NEW w \in Workers, Step(w), QuotaStep(w),
           NEW q \in Quotas,
           size_used[q] = DiskSize * (Cardinality(Counted(q)) + Cardinality(Claimed(q)))
    PROVE  size_used'[q] = DiskSize * (Cardinality(Counted(q)') + Cardinality(Claimed(q)'))
<1> DEFINE r == worker[w]
           s == worker'[w]
<1>1. /\ r \in WorkerState /\ Request(r) /\ worker \in [Workers -> WorkerState]
      /\ vdisk \in [Disks -> VdiskRow] /\ vdisk' \in [Disks -> VdiskRow]
      /\ size_used \in [Quotas -> Int] /\ DiskSize \in Nat
      /\ q # NoQuota
  BY TypedPlaces, AttachmentAssumption DEF TInv, TypeOK, QuotaTypeOK
<1>2. PICK t \in Disks : /\ MakerOf(w, t) /\ MakerOf(w, t)'
                         /\ worker[w] # Idle \/ worker'[w] # Idle
                         /\ \A d \in Disks \ {t} : SamePool(d)
  BY QuotaStepDisk
<1>3. /\ \A d \in Disks \ {t} : d \in Counted(q)' <=> d \in Counted(q)
      /\ \A x \in Workers \ {w} : x \in Claimed(q)' <=> x \in Claimed(q)
      /\ FreedBy(t) <=> r.pc = "rowdel"
      /\ FreedBy(t)' <=> s.pc = "rowdel"
  BY <1>2, StepCounts
<1> DEFINE in == IF vdisk[t].quota = q /\ r.pc # "rowdel" THEN 1 ELSE 0
           inNext == IF vdisk'[t].quota = q /\ s.pc # "rowdel" THEN 1 ELSE 0
           cl == IF r.pc \in {"save", "undo_claim"} /\ r.quota = q THEN 1 ELSE 0
           clNext == IF s.pc \in {"save", "undo_claim"} /\ s.quota = q THEN 1 ELSE 0
           Enough == \/ size_used'[q] = size_used[q] /\ inNext + clNext = in + cl
                     \/ size_used'[q] = size_used[q] + DiskSize
                           /\ inNext + clNext = in + cl + 1
                     \/ size_used'[q] = size_used[q] - DiskSize
                           /\ inNext + clNext = in + cl - 1
<1>4. SUFFICES Enough
  <2>1. in = IF t \in Counted(q) THEN 1 ELSE 0
    BY <1>3 DEF Counted
  <2>2. inNext = IF t \in Counted(q)' THEN 1 ELSE 0
    BY <1>3 DEF Counted
  <2>3. cl = IF w \in Claimed(q) THEN 1 ELSE 0
    BY <1>1 DEF Claimed, ClaimOf
  <2>4. clNext = IF w \in Claimed(q)' THEN 1 ELSE 0
    BY <1>1 DEF Claimed, ClaimOf
  <2>5. PICK old \in Int : old = in + cl
    OBVIOUS
  <2>6. PICK new \in Int : new = inNext + clNext
    OBVIOUS
  <2>11. in \in Int /\ inNext \in Int /\ cl \in Int /\ clNext \in Int
    OBVIOUS
  <2> HIDE DEF in, inNext, cl, clNext
  <2>7. old = Counts(q, t, w)
    BY <2>1, <2>3, <2>5 DEF Counts
  <2>8. new = (IF t \in Counted(q)' THEN 1 ELSE 0) + (IF w \in Claimed(q)' THEN 1 ELSE 0)
    BY <2>2, <2>4, <2>6
  <2>9. ASSUME Enough
        PROVE  \/ size_used'[q] = size_used[q] /\ new = old
               \/ size_used'[q] = size_used[q] + DiskSize /\ new = old + 1
               \/ size_used'[q] = size_used[q] - DiskSize /\ new = old - 1
    BY <2>5, <2>6, <2>9, <2>11
  <2> HIDE DEF Enough
  <2>10. QED
    BY <1>3, <2>7, <2>8, <2>9, LedgerStep
<1>5. ASSUME NEW d \in Disks, CreateVdisk(w, d) \/ AdminDelete(w, d)
      PROVE  Enough
  <2>1. r.pc = "idle" /\ vdisk' = vdisk /\ size_used' = size_used
    BY <1>5 DEF CreateVdisk, MayStart, At, RowsUnchanged, PoolUnchanged, AdminDelete
  <2>2. s.pc \in {"claim", "remove_image"}
    BY <1>1, <1>5 DEF CreateVdisk, Idle, AdminDelete
  <2>3. QED
    BY <2>1, <2>2
<1>6. ASSUME ClaimQuota(w)
      PROVE  Enough
  <2>1. r.pc = "claim" /\ vdisk' = vdisk
    BY <1>6 DEF ClaimQuota, At, RowsUnchanged
  <2>2. CASE End(w)
    <3>1. size_used' = size_used
      <4>1. s.pc # "save"
        BY <1>1, <2>2 DEF End, Idle
      <4>2. ASSUME NEW p, worker' = [worker EXCEPT ![w].pc = "save", ![w].quota = p,
                                                   ![w].loaded = Idle.loaded]
            PROVE  FALSE
        BY <1>1, <4>1, <4>2 DEF WorkerState
      <4>3. QED
        BY <1>6, <4>2 DEF ClaimQuota
    <3>2. s.pc = "idle"
      BY <1>1, <2>2 DEF End, Idle
    <3>3. QED
      BY <2>1, <3>1, <3>2
  <2>3. CASE ~End(w)
    <3>1. PICK p \in Quotas : /\ Quota_claim(p, DiskSize)
                              /\ worker' = [worker EXCEPT ![w].pc = "save", ![w].quota = p,
                                                          ![w].loaded = Idle.loaded]
      BY <1>6, <2>3 DEF ClaimQuota, schedule_quota, schedule_by_quota
    <3>2. s.pc = "save" /\ s.quota = p
      BY <1>1, <3>1 DEF WorkerState
    <3>3. size_used'[q] = IF q = p THEN size_used[q] + DiskSize ELSE size_used[q]
      BY <1>1, <3>1 DEF Quota_claim
    <3>4. QED
      BY <1>1, <2>1, <3>2, <3>3
  <2>4. QED
    BY <2>2, <2>3
<1>7. ASSUME r # Idle
      PROVE  t = r.thing /\ MakerSound(w)
  BY <1>2, <1>7 DEF MakerOf, MakersInv
<1>8. ASSUME SaveVdisk(w)
      PROVE  Enough
  <2>1. r.pc = "save" /\ size_used' = size_used
    BY <1>8 DEF SaveVdisk, At, PoolUnchanged
  <2>2. t = r.thing /\ vdisk[t].state = "none"
    BY <1>7, <2>1 DEF MakerSound, Idle
  <2>3. vdisk[t].quota = NoQuota
    BY <2>2 DEF TInv, RowsInv, DiskRowSound, NoRow
  <2>4. vdisk'[t].quota = r.quota
    BY <1>1, <1>8, <2>2 DEF SaveVdisk, NoRow
  <2>5. s.pc = "create_image"
    BY <1>1, <1>8 DEF SaveVdisk, Goto, WorkerState
  <2>6. QED
    BY <1>1, <2>1, <2>3, <2>4, <2>5
<1>9. ASSUME CreateCephDisk(w) \/ RemoveCephDisk(w)
      PROVE  Enough
  <2>1. r.pc \in {"create_image", "remove_image"} /\ vdisk' = vdisk /\ size_used' = size_used
    BY <1>9 DEF CreateCephDisk, RemoveCephDisk, At, RowsUnchanged
  <2>2. s.pc \in {"unsave", "free", "idle"}
    BY <1>1, <1>9 DEF End, Idle, CreateCephDisk, RemoveCephDisk, Goto, WorkerState
  <2>3. QED
    BY <2>1, <2>2
<1>10. ASSUME UnsaveVdisk(w)
       PROVE  Enough
  BY <1>1, <1>7, <1>10 DEF UnsaveVdisk, At, PoolUnchanged, MakerSound, Idle, NoRow, Goto, WorkerState
<1>11. ASSUME UndoClaim(w)
       PROVE  Enough
  BY <1>1, <1>11 DEF UndoClaim, At, RowsUnchanged, End, Idle, Quota_free
<1>12. ASSUME FreeVdisk(w)
       PROVE  Enough
  <2>1. r.pc = "free" /\ vdisk' = vdisk
    BY <1>12 DEF FreeVdisk, At, RowsUnchanged
  <2>2. r.op = "admin_delete"
    BY <2>1, MakerPcs
  <2>3. t = r.thing /\ vdisk[t].quota = r.quota
    BY <1>7, <2>1, <2>2 DEF MakerSound, Idle
  <2>4. s.pc = "rowdel"
    BY <1>1, <1>12 DEF FreeVdisk, Goto, WorkerState
  <2>5. size_used'[q] = IF q = r.quota THEN size_used[q] - DiskSize ELSE size_used[q]
    BY <1>1, <1>12 DEF FreeVdisk, Quota_free
  <2>6. QED
    BY <2>1, <2>3, <2>4, <2>5
<1>13. ASSUME DeleteVdiskRow(w)
       PROVE  Enough
  BY <1>1, <1>7, <1>13 DEF DeleteVdiskRow, At, PoolUnchanged, Idle, NoRow, End
<1>14. QED
  BY <1>5, <1>6, <1>8, <1>9, <1>10, <1>11, <1>12, <1>13 DEF QuotaStep

\* Before the first request nothing is counted and nothing is used.
LEMMA InitLedger == Init => MakersInv /\ VdiskLedger
<1> SUFFICES ASSUME Init
             PROVE  MakersInv /\ VdiskLedger
  OBVIOUS
<1>1. MakersInv
  BY DEF Init, MakersInv, OneMaker, MakerSound, Idle, Makers
<1>2. ASSUME NEW q \in Quotas
      PROVE  size_used[q] = DiskSize * (Cardinality(Counted(q)) + Cardinality(Claimed(q)))
  <2>1. q # NoQuota
    BY AttachmentAssumption
  <2>2. Counted(q) = {} /\ Claimed(q) = {}
    BY <2>1 DEF Init, Counted, Claimed, ClaimOf, Idle, NoRow
  <2>3. Cardinality(Counted(q)) = 0 /\ Cardinality(Claimed(q)) = 0
    BY <2>2, FS_EmptySet
  <2>4. size_used[q] = 0
    BY DEF Init, QuotaInit
  <2>5. QED
    BY <2>3, <2>4, AttachmentAssumption
<1>3. QED
  BY <1>1, <1>2, LedgerSets

\* A pool counts as used exactly what its disks take, deleted ones included,
\* and what requests have claimed, unless a disk is removed for good while
\* another request creates or removes it.
THEOREM DiskLedger ==
    ASSUME RemovedAlone
    PROVE  Spec => []VdiskLedger
<1>1. Init => TInv /\ MakersInv /\ VdiskLedger
  BY InitTypes, InitLedger
<1>2. TInv /\ MakersInv /\ VdiskLedger /\ [Next]_vars => (TInv /\ MakersInv /\ VdiskLedger)'
  <2> SUFFICES ASSUME TInv, MakersInv, VdiskLedger, [Next]_vars
               PROVE  (TInv /\ MakersInv /\ VdiskLedger)'
    OBVIOUS
  <2>1. TInv'
    BY NextTypes
  <2>2. CASE UNCHANGED vars
    BY <2>1, <2>2 DEF vars, MakersInv, OneMaker, MakerSound, VdiskLedger, ClaimOf, FreedBy
  <2>3. ASSUME NEW w \in Workers, Step(w)
        PROVE  MakersInv' /\ VdiskLedger'
    <3>1. MakersInv'
      BY <2>1, <2>3, NextMakers
    <3>2. ASSUME NEW q \in Quotas
          PROVE  size_used'[q] = DiskSize * (Cardinality(Counted(q)')
                                              + Cardinality(Claimed(q)'))
      <4>1. size_used[q] = DiskSize * (Cardinality(Counted(q)) + Cardinality(Claimed(q)))
        BY LedgerSets
      <4>2. CASE QuotaStep(w)
        BY <2>1, <2>3, <3>1, <4>1, <4>2, StepLedger
      <4>3. CASE QuotaQuiet(w)
        BY <2>1, <4>1, <4>3, QuietCounts DEF QuotaQuiet
      <4>4. QED
        BY <2>3, <4>2, <4>3, QuotaStepOrQuiet
    <3>3. VdiskLedger'
      BY <3>2 DEF VdiskLedger, Counted, Claimed
    <3>4. QED
      BY <3>1, <3>3
  <2>4. QED
    BY <2>1, <2>2, <2>3 DEF Next, Step
<1>3. QED
  BY <1>1, <1>2, PTL DEF Spec

-----------------------------------------------------------------------------
(* Who holds a disk or a device.                                           *)

\* Kinds of request that are kept apart where the holder of a disk is to be
\* told from the rows: those that would take back what a mount has just done,
\* or bring a domain back while its vm goes.
HolderPairs ==
    ({"mount_disk"} \X {"create_vdisk", "destroy_vdisk", "admin_delete", "umount_disk",
                        "delete_vm", "shelve", "unshelve", "miss_fix"})
    \cup ({"mount_pci"} \X {"umount_pci", "delete_vm", "delshelve"})
    \cup ({"delete_vm", "delshelve", "miss_fix"} \X {"unshelve", "miss_fix"})
    \cup {<<"miss_fix", "umount_disk">>}

\* The same, of vms that are deleted while they are shelved.
ShelvedPairs == {"shelve", "unshelve"} \X {"unshelve", "miss_fix"}

NeverAgain == {"mount_disk", "umount_disk", "mount_pci", "umount_pci"}

\* Requests that would undo each other do not meet, and no request to mount or
\* unmount comes twice.  A disk of a vm that was shelved is not unmounted by
\* a request: its row may name a machine that does not have it.  What was
\* plugged into a machine that runs can be taken out again.
HoldersApart ==
    /\ ~MayFail("detach_live")
    /\ \A k \in Workloads :
          /\ k.repeats \cap NeverAgain = {}
          /\ ~({"unshelve", "umount_disk"} \subseteq k.ops)
          /\ \A p \in HolderPairs : p \notin k.overlaps /\ <<p[2], p[1]>> \notin k.overlaps
          /\ "delshelve" \in k.ops =>
                \A p \in ShelvedPairs : p \notin k.overlaps /\ <<p[2], p[1]>> \notin k.overlaps

\* Requests that share a vm or a thing are of kinds that may meet.  The disk
\* that a miss_fix is at is not what it was asked for.
Share(r, s) ==
    \/ r.vm # NoVm /\ r.vm = s.vm
    \/ r.thing # NoThing /\ r.thing = s.thing /\ r.op # "miss_fix" /\ s.op # "miss_fix"

MayMeet(k, r, s) ==
    /\ <<r.op, s.op>> \in k.overlaps \/ <<s.op, r.op>> \in k.overlaps
    /\ r.op = s.op /\ r.vm = s.vm /\ r.thing = s.thing => r.op \in k.repeats \/ r.op = "miss_fix"

MeetInv ==
    /\ \A w \in Workers : worker[w].op \in workload.ops \cup {"none"}
    /\ \A w, x \in Workers :
          w # x /\ Share(worker[w], worker[x]) => MayMeet(workload, worker[w], worker[x])

\* Where the row of a disk says that it is: on no vm, or on one under a name.
Place(row) == [vm |-> row.vm, dev |-> IF row.vm = NoVm THEN 0 ELSE row.dev]

place == [d \in Disks |-> Place(vdisk[d])]

Nowhere == [vm |-> NoVm, dev |-> 0]

Att(e) == {s.thing : s \in e.live \cup e.config}

DiskSlots(S) == {s \in S : s.thing \in Disks}

\* A domain has the same disks in both descriptions, each once and under a name
\* of its own; there is none of a vm that is deleted, and, where shelved vms
\* are deleted, none of a shelved one.
DomainSound(ops, e, status) ==
    /\ ~e.defined => e = NoDomain
    /\ ~e.running => e.live = {}
    /\ e.running => DiskSlots(e.live) = DiskSlots(e.config)
    /\ \A a, b \in DiskSlots(e.config) : a.dev = b.dev \/ a.thing = b.thing => a = b
    /\ status = "none" => e = NoDomain
    /\ status = "shelve" /\ "delshelve" \in ops => e = NoDomain

\* What a domain has is recorded for its vm.
Holds(v, e, pl, pc) ==
    /\ \A d \in Att(e) \cap Disks : pl[d].vm = v
    /\ \A p \in Att(e) \cap Devices : pc[p] = v

Slot(d, pl) == [thing |-> d, dev |-> pl[d].dev]

\* A request that has yet to attach the disk, or to clear its row.
InHand(r, d, pl) ==
    \/ r.thing = d /\ r.pc \in {"attach", "undo_mount", "umount_row", "fix_umount"}
    \/ r.pc \in {"fix_attach", "fix_umount"} /\ Slot(d, pl) \in r.todo

\* A disk that is recorded for a machine is in its description, or in hand.
Recorded(ops, d, dom, pl, wk) ==
    "unshelve" \notin ops /\ pl[d].vm # NoVm /\ dom[pl[d].vm].defined =>
       \/ Slot(d, pl) \in dom[pl[d].vm].config
       \/ \E w \in Workers : InHand(wk[w], d, pl)

\* What a request knows of its vm and of the things it is about.
KnowsDisk(ops, r, status, e, pl) ==
    LET t == r.thing
        v == r.vm
    IN
    /\ r.op \in {"create_vdisk", "destroy_vdisk", "admin_delete"} => pl[t].vm = NoVm
    /\ r.op = "mount_disk" =>
          /\ t \notin Att(e) /\ status = "normal"
          /\ r.pc # "mount_row" => pl[t].vm = v
          /\ "unshelve" \notin ops =>
                IF r.pc = "mount_row" THEN pl[t].vm # v ELSE pl[t].dev = r.dev
    /\ r.op = "umount_disk" =>
          /\ pl[t] = [vm |-> v, dev |-> r.dev] \/ (pl[t].vm = NoVm /\ status = "none")
          /\ r.pc = "umount_row" => t \notin Att(e)

KnowsDevice(r, status, e, pc) ==
    LET t == r.thing
        v == r.vm
    IN
    /\ r.op = "mount_pci" => t \notin Att(e) /\ (r.pc # "mount_row" => pc[t] = v)
    /\ r.op = "umount_pci" =>
          /\ pc[t] = v \/ (pc[t] = NoVm /\ status = "none")
          /\ r.pc = "umount_row" => t \notin Att(e)

KnowsVm(ops, r, status, e) ==
    /\ r.pc = "vm_rowdel" => e = NoDomain
    /\ r.op = "delshelve" => status # "normal"
    /\ r.op \in {"unshelve", "miss_fix"} => status # "none"
    /\ "delshelve" \in ops =>
          /\ r.pc \in {"shelve_save", "unshelve_save"} => e = NoDomain
          /\ r.pc = "define" => e = NoDomain /\ status = "normal"

KnowsFix(r, e, pl) ==
    r.op = "miss_fix" =>
       /\ r.pc = "define" => e = NoDomain
       /\ r.pc # "define" =>
             \A s \in r.todo : s = Slot(s.thing, pl) /\ pl[s.thing].vm = r.vm /\ s.thing \notin Att(e)
       /\ r.pc = "fix_umount" =>
             /\ r.thing \notin Att(e) /\ pl[r.thing].vm = r.vm
             /\ \A s \in r.todo : s.thing # r.thing

Knows(ops, r, status, e, pl, pc) ==
    /\ KnowsDisk(ops, r, status, e, pl)
    /\ KnowsDevice(r, status, e, pc)
    /\ KnowsVm(ops, r, status, e)
    /\ KnowsFix(r, e, pl)

DomainsInv == \A v \in Vms : DomainSound(workload.ops, domain[v], vm_status[v])
HoldsInv == \A v \in Vms : Holds(v, domain[v], place, pci)
RecordedInv == \A d \in Disks : Recorded(workload.ops, d, domain, place, worker)

KnowsInv ==
    \A w \in Workers :
        LET v == worker[w].vm
        IN  Knows(workload.ops, worker[w], vm_status[v], domain[v], place, pci)

HInv == TInv /\ MeetInv /\ DomainsInv /\ HoldsInv /\ RecordedInv /\ KnowsInv

\* What that means for two requests that share a vm or a thing.
Excludes(ops, q, r) ==
    /\ q.op = "mount_disk" =>
          r.op \notin {"create_vdisk", "destroy_vdisk", "admin_delete", "umount_disk",
                      "delete_vm", "shelve", "unshelve", "miss_fix"}
    /\ q.op = "mount_pci" => r.op \notin {"umount_pci", "delete_vm", "delshelve"}
    /\ q.op \in {"delete_vm", "delshelve", "miss_fix"} => r.op \notin {"unshelve", "miss_fix"}
    /\ q.op = "miss_fix" => r.op # "umount_disk"
    /\ q.op \in {"shelve", "unshelve"} /\ r.op \in {"unshelve", "miss_fix"}
          => "delshelve" \notin ops

Apart(ops, q, r) ==
    /\ Excludes(ops, q, r) /\ Excludes(ops, r, q)
    /\ q.op = r.op /\ q.vm = r.vm /\ q.thing = r.thing => q.op \notin NeverAgain
    /\ ~(q.op = "unshelve" /\ r.op = "umount_disk")
    /\ ~(q.op = "umount_disk" /\ r.op = "unshelve")

\* Requests that meet are apart.
LEMMA KeptApart ==
    ASSUME HoldersApart, NEW k \in Workloads, NEW q, NEW r, MayMeet(k, q, r),
           q.op \in k.ops \cup {"none"}, r.op \in k.ops \cup {"none"}
    PROVE  Apart(k.ops, q, r)
<1>1. <<q.op, r.op>> \in k.overlaps \/ <<r.op, q.op>> \in k.overlaps
  BY DEF MayMeet
<1>2. ASSUME NEW S, \A p \in S : p \notin k.overlaps /\ <<p[2], p[1]>> \notin k.overlaps
      PROVE  <<q.op, r.op>> \notin S /\ <<r.op, q.op>> \notin S
  BY <1>1, <1>2
<1>3. <<q.op, r.op>> \notin HolderPairs /\ <<r.op, q.op>> \notin HolderPairs
  BY <1>2 DEF HoldersApart
<1>4. "delshelve" \in k.ops =>
         <<q.op, r.op>> \notin ShelvedPairs /\ <<r.op, q.op>> \notin ShelvedPairs
  BY <1>2 DEF HoldersApart
<1>5. k.repeats \cap NeverAgain = {} /\ ~({"unshelve", "umount_disk"} \subseteq k.ops)
  BY DEF HoldersApart
<1>6. ASSUME NEW a, NEW b, <<a.op, b.op>> \notin HolderPairs,
             "delshelve" \in k.ops => <<a.op, b.op>> \notin ShelvedPairs
      PROVE  Excludes(k.ops, a, b)
  BY <1>6 DEF Excludes, HolderPairs, ShelvedPairs
<1>7. Excludes(k.ops, q, r) /\ Excludes(k.ops, r, q)
  BY <1>3, <1>4, <1>6
<1>8. q.op = r.op /\ q.vm = r.vm /\ q.thing = r.thing => q.op \notin NeverAgain
  BY <1>5 DEF MayMeet, NeverAgain
<1>9. /\ ~(q.op = "unshelve" /\ r.op = "umount_disk")
      /\ ~(q.op = "umount_disk" /\ r.op = "unshelve")
  BY <1>5
<1>10. QED
  BY <1>7, <1>8, <1>9 DEF Apart

\* A request begins only if it may, next to those that are served.
LEMMA Starts ==
    ASSUME TInv, NEW w \in Workers, DiskRequest(w) \/ DeviceRequest(w) \/ VmRequest(w)
    PROVE  \/ worker'[w] = worker[w]
           \/ MayStart(w, worker'[w].op, worker'[w].vm, worker'[w].thing)
<1>1. worker \in [Workers -> WorkerState]
  BY TypedPlaces
<1>2. ASSUME NEW op, NEW v, NEW t, NEW pc, Begin(w, op, v, t, pc)
      PROVE  worker'[w].op = op /\ worker'[w].vm = v /\ worker'[w].thing = t
  BY <1>1, <1>2 DEF Begin, Idle
<1>3. ASSUME NEW d \in Disks, DiskRequest(w),
             \/ CreateVdisk(w, d) \/ DestroyVdisk(w, d) \/ AdminDelete(w, d) \/ UmountDisk(w, d)
             \/ \E v \in Vms : MountDisk(w, d, v)
      PROVE  MayStart(w, worker'[w].op, worker'[w].vm, worker'[w].thing)
  <2>1. CASE CreateVdisk(w, d)
    BY <1>1, <2>1 DEF CreateVdisk, Idle
  <2>2. CASE DestroyVdisk(w, d)
    BY <1>2, <2>2 DEF DestroyVdisk
  <2>3. CASE AdminDelete(w, d)
    BY <1>1, <2>3 DEF AdminDelete, Idle
  <2>4. CASE UmountDisk(w, d)
    BY <1>1, <2>4 DEF UmountDisk, Idle
  <2>5. ASSUME NEW v \in Vms, MountDisk(w, d, v)
        PROVE  MayStart(w, worker'[w].op, worker'[w].vm, worker'[w].thing)
    <3>1. PICK n : worker' = [worker EXCEPT ![w] = [Idle EXCEPT !.op = "mount_disk", !.vm = v,
                                 !.thing = d, !.dev = n, !.pc = "mount_row"]]
      BY <2>5 DEF MountDisk
    <3>2. worker'[w].op = "mount_disk" /\ worker'[w].vm = v /\ worker'[w].thing = d
      BY <1>1, <3>1 DEF Idle
    <3>3. QED
      BY <2>5, <3>2 DEF MountDisk
  <2>6. QED
    BY <1>3, <2>1, <2>2, <2>3, <2>4, <2>5
<1>4. ASSUME NEW t, NEW v,
             MountPci(w, t, v) \/ UmountPci(w, t) \/ AttachIp(w, t, v) \/ DetachIp(w, t, v)
      PROVE  MayStart(w, worker'[w].op, worker'[w].vm, worker'[w].thing)
  BY <1>2, <1>4 DEF MountPci, UmountPci, AttachIp, DetachIp
<1>5. ASSUME NEW v \in Vms,
             \/ PowerOn(w, v) \/ PowerOff(w, v) \/ DeleteVm(w, v) \/ Shelve(w, v)
             \/ Unshelve(w, v) \/ Delshelve(w, v) \/ MissFix(w, v) \/ Lose(w, v)
      PROVE  \/ worker'[w] = worker[w]
             \/ MayStart(w, worker'[w].op, worker'[w].vm, worker'[w].thing)
  BY <1>2, <1>5 DEF PowerOn, PowerOff, DeleteVm, Shelve, Unshelve, Delshelve, MissFix, Lose
<1>6. QED
  BY <1>3, <1>4, <1>5 DEF DiskRequest, DeviceRequest, VmRequest

\* So the requests that share a vm or a thing are always of kinds that may meet.
LEMMA MeetKept ==
    ASSUME TInv, MeetInv, UNCHANGED workload, NEW w \in Workers, Step(w)
    PROVE  MeetInv'
<1> DEFINE r == worker[w]
           s == worker'[w]
<1>1. /\ \A x \in Workers \ {w} : worker'[x] = worker[x]
      /\ \/ s = r \/ r = Idle \/ s = Idle
         \/ s.op = r.op /\ s.vm = r.vm /\ (s.thing = r.thing \/ r.op = "miss_fix")
  BY OneWorker
<1>2. Idle.op = "none" /\ Idle.vm = NoVm /\ Idle.thing = NoThing /\ r \in WorkerState
  BY TypedPlaces DEF Idle
<1>3. \/ s = r \/ s = Idle
      \/ s.op = r.op /\ s.vm = r.vm /\ (s.thing = r.thing \/ r.op = "miss_fix")
      \/ MayStart(w, s.op, s.vm, s.thing)
  <2>1. CASE DiskRequest(w) \/ DeviceRequest(w) \/ VmRequest(w)
    BY <2>1, Starts
  <2>2. CASE Serve(w)
    <3>1. r.pc # "idle"
      BY <2>2 DEF Serve, ClaimQuota, SaveVdisk, CreateCephDisk, UnsaveVdisk, UndoClaim, SoftDelete,
         RenameDiskRbdName, RemoveCephDisk, FreeVdisk, DeleteVdiskRow, MountRow, Attach, UndoMount,
         Detach, UmountRow, ApplyIp, AttachRow, FreeAttachedIp, DeleteAttachedIp, CheckAttachedIp,
         Undefine, DeleteVmRow, ShelveSave, UnshelveSave, Define, MountVdisks, FixAttach,
         FixUmount, At
    <3>2. r # Idle
      BY <3>1 DEF Idle
    <3>3. QED
      BY <1>1, <3>2
  <2>3. QED
    BY <2>1, <2>2 DEF Step
<1>4. s.op \in workload.ops \cup {"none"}
  BY <1>2, <1>3 DEF MeetInv, MayStart
<1>5. ASSUME NEW x \in Workers \ {w}, Share(s, worker[x])
      PROVE  MayMeet(workload, s, worker[x])
  <2>1. CASE s = r
    BY <1>5, <2>1 DEF MeetInv
  <2>2. s # Idle
    BY <1>2, <1>5 DEF Share
  <2>3. CASE s.op = r.op /\ s.vm = r.vm /\ (s.thing = r.thing \/ r.op = "miss_fix")
    BY <1>5, <2>3 DEF Share, MeetInv, MayMeet
  <2>4. CASE MayStart(w, s.op, s.vm, s.thing)
    BY <1>5, <2>4 DEF Share, BusyOn, MayStart, MayMeet
  <2>5. QED
    BY <1>3, <2>1, <2>2, <2>3, <2>4
<1>6. ASSUME NEW x \in Workers \ {w}, Share(worker[x], s)
      PROVE  MayMeet(workload, worker[x], s)
  BY <1>5, <1>6 DEF Share, MayMeet
<1>7. ASSUME NEW x \in Workers
      PROVE  worker'[x].op \in workload'.ops \cup {"none"}
  BY <1>1, <1>4 DEF MeetInv
<1>8. ASSUME NEW x \in Workers, NEW y \in Workers, x # y, Share(worker'[x], worker'[y])
      PROVE  MayMeet(workload', worker'[x], worker'[y])
  BY <1>1, <1>5, <1>6, <1>8 DEF MeetInv
<1>9. QED
  BY <1>7, <1>8 DEF MeetInv

-----------------------------------------------------------------------------
(* Domains that stay sound.                                                *)

\* Switching on and off changes neither what there is nor the description.
LEMMA PowerSound ==
    ASSUME NEW d \in DomainState, NEW ops, NEW status, DomainSound(ops, d, status),
           NEW e, e = power_off_domain(d) \/ (d.defined /\ e = start(d))
    PROVE  /\ DomainSound(ops, e, status) /\ Att(e) \subseteq Att(d)
           /\ e.config = d.config /\ e.defined = d.defined
           /\ d = NoDomain => e = NoDomain
<1>1. CASE e = power_off_domain(d)
  <2>1. CASE d.running
    BY <1>1, <2>1 DEF power_off_domain, DomainState, DomainSound, NoDomain, Att
  <2>2. CASE ~d.running
    BY <1>1, <2>2 DEF power_off_domain
  <2>3. QED
    BY <2>1, <2>2
<1>2. CASE d.defined /\ e = start(d)
  <2>1. CASE ~d.running
    <3>1. e.defined = d.defined /\ e.running /\ e.live = d.config /\ e.config = d.config
      BY <1>2, <2>1 DEF start, DomainState
    <3>2. d # NoDomain
      BY <1>2 DEF NoDomain
    <3>3. Att(e) \subseteq Att(d)
      BY <3>1 DEF Att
    <3>4. DomainSound(ops, e, status)
      BY <1>2, <3>1, <3>2 DEF DomainSound
    <3>5. QED
      BY <3>1, <3>2, <3>3, <3>4
  <2>2. CASE d.running
    BY <1>2, <2>2 DEF start
  <2>3. QED
    BY <2>1, <2>2
<1>3. QED
  BY <1>1, <1>2

\* A domain that is not there, and one that is just defined.
LEMMA NewDomainSound ==
    ASSUME NEW ops, NEW status
    PROVE  /\ DomainSound(ops, NoDomain, status) /\ Att(NoDomain) = {} /\ ~NoDomain.defined
           /\ status # "none" /\ ("delshelve" \in ops => status # "shelve")
                 => DomainSound(ops, Defined, status)
           /\ Att(Defined) = {} /\ Defined.defined /\ Defined.config = {}
<1>1. /\ ~NoDomain.defined /\ ~NoDomain.running /\ NoDomain.live = {} /\ NoDomain.config = {}
      /\ Defined.defined /\ ~Defined.running /\ Defined.live = {} /\ Defined.config = {}
  BY DEF NoDomain, Defined
<1>2. Att(NoDomain) = {} /\ Att(Defined) = {}
  BY <1>1 DEF Att
<1>3. QED
  BY <1>1, <1>2 DEF DomainSound, DiskSlots

\* A device that fits goes into both descriptions.
LEMMA PluggedSound ==
    ASSUME NEW d \in DomainState, NEW ops, NEW status, DomainSound(ops, d, status),
           d.defined, NEW a \in Slots, Fits(d.config, a), d.running => Fits(d.live, a)
    PROVE  /\ DomainSound(ops, Plugged(d, a), status)
           /\ Att(Plugged(d, a)) = Att(d) \cup {a.thing}
           /\ Plugged(d, a).config = d.config \cup {a} /\ Plugged(d, a).defined
<1> DEFINE e == Plugged(d, a)
<1>1. /\ e.defined /\ e.running = d.running /\ e.config = d.config \cup {a}
      /\ e.live = IF d.running THEN d.live \cup {a} ELSE d.live
  BY DEF Plugged, DomainState
<1> HIDE DEF e
<1>2. Att(e) = Att(d) \cup {a.thing}
  BY <1>1 DEF Att
<1>3. d # NoDomain
  BY DEF NoDomain
<1>4. ~e.running => e.live = {}
  BY <1>1 DEF DomainSound
<1>5. e.running => DiskSlots(e.live) = DiskSlots(e.config)
  BY <1>1 DEF DomainSound, DiskSlots
<1>6. ASSUME NEW b \in DiskSlots(e.config), NEW c \in DiskSlots(e.config),
             b.dev = c.dev \/ b.thing = c.thing
      PROVE  b = c
  BY <1>1, <1>6 DEF DomainSound, DiskSlots, Fits, Clashes
<1>7. DomainSound(ops, e, status)
  BY <1>1, <1>3, <1>4, <1>5, <1>6 DEF DomainSound
<1>8. QED
  BY <1>1, <1>2, <1>7 DEF e

\* A domain that has lost, in both descriptions, what is at one place, or one
\* of whose device nothing is left but the description, stays sound.
LEMMA UnpluggedSound ==
    ASSUME NEW d \in DomainState, NEW ops, NEW status, DomainSound(ops, d, status),
           d.defined, NEW a \in Slots, NEW e,
           \/ e = Unplugged(d, a)
           \/ a.thing \notin Disks /\ HalfDetached(d, a, e)
    PROVE  /\ DomainSound(ops, e, status)
           /\ e = Unplugged(d, a) => Att(e) \subseteq Att(d)
           /\ Att(e) \subseteq Att(d) \cup ({a.thing} \ Disks)
           /\ d.config \ Target(d.config, a) \subseteq e.config
           /\ e.defined /\ e.running = d.running
<1>1. d # NoDomain
  BY DEF NoDomain
<1>2. CASE e = Unplugged(d, a)
  <2>1. /\ e.defined /\ e.running = d.running /\ e.config = d.config \ Target(d.config, a)
        /\ e.live = IF d.running THEN d.live \ Target(d.live, a) ELSE d.live
    BY <1>2 DEF Unplugged, DomainState
  <2>2. Att(e) \subseteq Att(d)
    BY <2>1 DEF Att
  <2>3. e.running => DiskSlots(e.live) = DiskSlots(e.config)
    <3>1. SUFFICES ASSUME e.running
                   PROVE  DiskSlots(e.live) = DiskSlots(e.config)
      OBVIOUS
    <3>2. \A b : b \in d.live /\ b.thing \in Disks <=> b \in d.config /\ b.thing \in Disks
      BY <2>1, <3>1 DEF DomainSound, DiskSlots
    <3>3. \A b : b \in Target(d.live, a) /\ b.thing \in Disks
                 <=> b \in Target(d.config, a) /\ b.thing \in Disks
      BY <3>2 DEF Target
    <3>4. QED
      BY <2>1, <3>1, <3>2, <3>3 DEF DiskSlots
  <2>4. ~e.running => e.live = {}
    BY <2>1 DEF DomainSound
  <2>5. \A b, c \in DiskSlots(e.config) : b.dev = c.dev \/ b.thing = c.thing => b = c
    BY <2>1 DEF DomainSound, DiskSlots
  <2>6. DomainSound(ops, e, status)
    BY <1>1, <2>1, <2>3, <2>4, <2>5 DEF DomainSound
  <2>7. QED
    BY <2>1, <2>2, <2>6
<1>3. CASE a.thing \notin Disks /\ HalfDetached(d, a, e) /\ e # Unplugged(d, a)
  <2>1. PICK S \in SUBSET {a} : e = [d EXCEPT !.config = (@ \ Target(d.config, a)) \cup S]
    BY <1>3 DEF HalfDetached
  <2>2. /\ e.defined /\ e.running = d.running /\ e.live = d.live
        /\ e.config = (d.config \ Target(d.config, a)) \cup S
    BY <2>1 DEF DomainState
  <2>3. Att(e) \subseteq Att(d) \cup {a.thing}
    BY <2>2 DEF Att
  <2>4. DiskSlots(e.config) = DiskSlots(d.config)
    BY <1>3, <2>2 DEF DiskSlots, Target
  <2>5. DomainSound(ops, e, status)
    BY <1>1, <2>2, <2>4 DEF DomainSound
  <2>6. QED
    BY <1>3, <2>2, <2>3, <2>5
<1>4. QED
  BY <1>2, <1>3
-----------------------------------------------------------------------------
(* What a request knows stays true when another one, q, takes a step.      *)

\* When domains lose devices.
LEMMA OtherShrinks ==
    ASSUME NEW ops, NEW r, NEW status, NEW e, NEW e2, NEW pl, NEW pc,
           Knows(ops, r, status, e, pl, pc), Att(e2) \subseteq Att(e),
           e = NoDomain => e2 = NoDomain
    PROVE  Knows(ops, r, status, e2, pl, pc)
<1>1. KnowsDisk(ops, r, status, e2, pl)
  BY DEF Knows, KnowsDisk
<1>2. KnowsDevice(r, status, e2, pc)
  BY DEF Knows, KnowsDevice
<1>3. KnowsVm(ops, r, status, e2)
  BY DEF Knows, KnowsVm
<1>4. KnowsFix(r, e2, pl)
  BY DEF Knows, KnowsFix
<1>5. QED
  BY <1>1, <1>2, <1>3, <1>4 DEF Knows

\* When a disk is recorded for a vm, or is not any more.
LEMMA OtherPlace ==
    ASSUME NEW ops, NEW r, Request(r), NEW status, NEW e, NEW pl, DOMAIN pl = Disks, NEW pc,
           Knows(ops, r, status, e, pl, pc),
           NEW q, Share(q, r) => Apart(ops, q, r), q.vm \in Vms,
           NEW d \in Disks, NEW p, NEW pl2, pl2 = [x \in Disks |-> IF x = d THEN p ELSE pl[x]],
           (q.op \in {"mount_disk", "umount_disk"} /\ q.thing = d) \/ q.op = "miss_fix",
           \/ q.op = "mount_disk" /\ pl[d].vm = NoVm /\ p.vm = q.vm
           \/ pl[d].vm = q.vm /\ p = Nowhere
    PROVE  Knows(ops, r, status, e, pl2, pc)
<1>0. NoVm \notin Vms /\ NoThing \notin Disks
  BY AttachmentAssumption DEF Things
<1>1. KnowsDisk(ops, r, status, e, pl2)
  <2>1. CASE r.thing # d
    BY <2>1 DEF Request, Idle, Knows, KnowsDisk
  <2>2. CASE r.thing = d
    <3>1. pl2[d] = p
      OBVIOUS
    <3>2. q.op \in {"mount_disk", "umount_disk"} /\ r.op # "miss_fix" => Apart(ops, q, r)
      BY <1>0, <2>2 DEF Share
    <3>3. r.vm = q.vm => Apart(ops, q, r)
      BY <1>0 DEF Share
    <3>4. CASE r.op \in {"create_vdisk", "destroy_vdisk", "admin_delete"}
      BY <1>0, <2>2, <3>2, <3>4 DEF Knows, KnowsDisk, Apart, Excludes
    <3>5. CASE r.op = "mount_disk"
      BY <1>0, <2>2, <3>1, <3>3, <3>5 DEF Knows, KnowsDisk, Request, Idle, Apart, Excludes, NeverAgain, Nowhere
    <3>6. CASE r.op = "umount_disk"
      BY <1>0, <2>2, <3>2, <3>3, <3>6 DEF Knows, KnowsDisk, Request, Idle, Apart, Excludes, NeverAgain
    <3>7. QED
      BY <3>4, <3>5, <3>6 DEF KnowsDisk
  <2>3. QED
    BY <2>1, <2>2
<1>2. KnowsFix(r, e, pl2)
  <2>1. SUFFICES ASSUME r.op = "miss_fix"
                 PROVE  KnowsFix(r, e, pl2)
    BY DEF KnowsFix
  <2>2. r.vm \in Vms /\ r.todo \subseteq [thing : Disks, dev : 1 .. MaxDev]
    BY <2>1 DEF Request, Idle
  <2>3. pl[d].vm # r.vm
    <3>1. SUFFICES ASSUME pl[d].vm = r.vm
                   PROVE  FALSE
      OBVIOUS
    <3>2. q.vm = r.vm
      BY <1>0, <2>2, <3>1
    <3>3. Apart(ops, q, r)
      BY <1>0, <2>2, <3>2 DEF Share
    <3>4. QED
      BY <2>1, <3>3 DEF Apart, Excludes
  <2>4. r.pc # "define" => \A s \in r.todo : s.thing # d /\ pl2[s.thing] = pl[s.thing]
    BY <2>1, <2>2, <2>3 DEF Knows, KnowsFix
  <2>5. r.pc = "fix_umount" => r.thing \in Disks /\ r.thing # d
    BY <2>1, <2>3 DEF Knows, KnowsFix, Request, Idle
  <2>6. QED
    BY <2>1, <2>2, <2>4, <2>5 DEF Knows, KnowsFix, Slot
<1>3. QED
  BY <1>1, <1>2 DEF Knows

\* When a device is.
LEMMA OtherDevice ==
    ASSUME NEW ops, NEW r, Request(r), NEW status, NEW e, NEW pl, NEW pc,
           Knows(ops, r, status, e, pl, pc),
           NEW q, Share(q, r) => Apart(ops, q, r), q.vm \in Vms,
           NEW d \in Devices, q.thing = d, q.op \in {"mount_pci", "umount_pci"},
           NEW p, NEW pc2, pc2[d] = p, \A x \in Devices \ {d} : pc2[x] = pc[x],
           \/ q.op = "mount_pci" /\ pc[d] = NoVm /\ p = q.vm
           \/ pc[d] = q.vm /\ p = NoVm
    PROVE  Knows(ops, r, status, e, pl, pc2)
<1>0. NoVm \notin Vms /\ NoThing \notin Devices
  BY AttachmentAssumption DEF Things
<1>1. KnowsDevice(r, status, e, pc2)
  <2>1. CASE r.thing # d
    BY <2>1 DEF Request, Idle, Knows, KnowsDevice
  <2>2. CASE r.thing = d
    <3>2. r.op # "miss_fix" => Apart(ops, q, r)
      BY <1>0, <2>2 DEF Share
    <3>3. CASE r.op = "mount_pci" /\ r.pc = "mount_row"
      BY <3>3 DEF Knows, KnowsDevice
    <3>4. CASE r.op = "mount_pci" /\ r.pc # "mount_row"
      BY <1>0, <2>2, <3>2, <3>4 DEF Knows, KnowsDevice, Request, Idle, Apart, Excludes, NeverAgain
    <3>5. CASE r.op = "umount_pci"
      BY <1>0, <2>2, <3>2, <3>5 DEF Knows, KnowsDevice, Request, Idle, Apart, Excludes, NeverAgain
    <3>6. QED
      BY <3>3, <3>4, <3>5 DEF KnowsDevice
  <2>3. QED
    BY <2>1, <2>2
<1>2. QED
  BY <1>1 DEF Knows

\* When the machine they share gets a device.
LEMMA OtherPlug ==
    ASSUME NEW ops, NEW r, Request(r), NEW status, NEW e, NEW e2, NEW pl, NEW pc,
           Knows(ops, r, status, e, pl, pc),
           NEW q, Share(q, r) => Apart(ops, q, r), q.vm \in Vms, r.vm = q.vm,
           NEW t \in Things, Att(e2) \subseteq Att(e) \cup {t}, e # NoDomain,
           t \in Disks => q.op \in {"unshelve", "miss_fix"} \/ (q.op = "mount_disk" /\ q.thing = t),
           t \in Devices => q.op \in {"mount_pci", "umount_pci"} /\ q.thing = t
    PROVE  Knows(ops, r, status, e2, pl, pc)
<1>0. /\ NoVm \notin Vms
      /\ Disks \cap Devices = {} /\ Disks \cap Nics = {} /\ Devices \cap Nics = {}
  BY AttachmentAssumption, DomainAssumption
<1>1. Apart(ops, q, r)
  BY <1>0 DEF Share
<1>2. ASSUME NEW x, x \notin Att(e), x # t
      PROVE  x \notin Att(e2)
  BY <1>2
<1>3. KnowsDisk(ops, r, status, e2, pl)
  <2>1. CASE r.op \in {"mount_disk", "umount_disk"} /\ t = r.thing
    BY <1>1, <2>1 DEF Request, Idle, Apart, Excludes, NeverAgain
  <2>2. CASE ~(r.op \in {"mount_disk", "umount_disk"} /\ t = r.thing)
    BY <1>2, <2>2 DEF Knows, KnowsDisk
  <2>3. QED
    BY <2>1, <2>2
<1>4. KnowsDevice(r, status, e2, pc)
  <2>1. CASE r.op \in {"mount_pci", "umount_pci"} /\ t = r.thing
    BY <1>1, <2>1 DEF Request, Idle, Apart, Excludes, NeverAgain
  <2>2. CASE ~(r.op \in {"mount_pci", "umount_pci"} /\ t = r.thing)
    BY <1>2, <2>2 DEF Knows, KnowsDevice
  <2>3. QED
    BY <2>1, <2>2
<1>5. KnowsVm(ops, r, status, e2)
  BY DEF Knows, KnowsVm
<1>6. KnowsFix(r, e2, pl)
  <2>1. SUFFICES ASSUME r.op = "miss_fix"
                 PROVE  KnowsFix(r, e2, pl)
    BY DEF KnowsFix
  <2>2. q.op \notin {"unshelve", "miss_fix", "mount_disk"}
    BY <1>1, <2>1 DEF Apart, Excludes
  <2>3. t \notin Disks
    BY <2>2
  <2>4. /\ r.todo \subseteq [thing : Disks, dev : 1 .. MaxDev]
        /\ r.pc = "fix_umount" => r.thing \in Disks
    BY <2>1 DEF Request, Idle
  <2>5. \A s \in r.todo : s.thing \in Disks
    BY <2>4
  <2>6. QED
    BY <1>2, <2>1, <2>3, <2>4, <2>5 DEF Knows, KnowsFix
<1>7. QED
  BY <1>3, <1>4, <1>5, <1>6 DEF Knows

\* When it is defined anew.
LEMMA OtherDefines ==
    ASSUME NEW ops, NEW r, Request(r), NEW status, NEW e, NEW e2, NEW pl, NEW pc,
           Knows(ops, r, status, e, pl, pc),
           NEW q, Share(q, r) => Apart(ops, q, r), q.vm \in Vms, r.vm = q.vm,
           q.op \in {"unshelve", "miss_fix"}, Att(e2) = {}
    PROVE  Knows(ops, r, status, e2, pl, pc)
<1>1. Apart(ops, q, r) /\ NoVm \notin Vms
  BY AttachmentAssumption DEF Share
<1>2. r.op \notin {"delete_vm", "delshelve", "miss_fix"}
      /\ ("delshelve" \in ops => r.op \notin {"shelve", "unshelve"})
  BY <1>1 DEF Apart, Excludes
<1>3. r.pc # "vm_rowdel"
      /\ ("delshelve" \in ops => r.pc \notin {"shelve_save", "unshelve_save", "define"})
  BY <1>2 DEF Request, Idle
<1>4. KnowsDisk(ops, r, status, e2, pl)
  BY DEF Knows, KnowsDisk
<1>5. KnowsDevice(r, status, e2, pc)
  BY DEF Knows, KnowsDevice
<1>6. KnowsVm(ops, r, status, e2)
  BY <1>3 DEF Knows, KnowsVm
<1>7. KnowsFix(r, e2, pl)
  BY <1>2 DEF KnowsFix
<1>8. QED
  BY <1>4, <1>5, <1>6, <1>7 DEF Knows

\* When it is shelved, or comes back.
LEMMA OtherSaves ==
    ASSUME NEW ops, NEW r, Request(r), NEW status, NEW status2, NEW e, NEW pl, NEW pc,
           Knows(ops, r, status, e, pl, pc),
           NEW q, Share(q, r) => Apart(ops, q, r), q.vm \in Vms, r.vm = q.vm, status # "none",
           \/ q.op \in {"shelve", "unshelve"} /\ status2 = "shelve"
           \/ q.op = "unshelve" /\ status2 = "normal"
    PROVE  Knows(ops, r, status2, e, pl, pc)
<1>1. Apart(ops, q, r) /\ NoVm \notin Vms
  BY AttachmentAssumption DEF Share
<1>2. r.op # "mount_disk" /\ (r.op = "delshelve" => q.op # "unshelve")
      /\ ("delshelve" \in ops => r.op \notin {"unshelve", "miss_fix"})
  BY <1>1 DEF Apart, Excludes
<1>3. "delshelve" \in ops => r.pc # "define"
  BY <1>2 DEF Request, Idle
<1>4. KnowsDisk(ops, r, status2, e, pl)
  BY <1>2 DEF Knows, KnowsDisk
<1>5. KnowsDevice(r, status2, e, pc)
  BY DEF Knows, KnowsDevice
<1>6. KnowsVm(ops, r, status2, e)
  BY <1>2, <1>3 DEF Knows, KnowsVm
<1>7. KnowsFix(r, e, pl)
  BY DEF Knows
<1>8. QED
  BY <1>4, <1>5, <1>6, <1>7 DEF Knows

\* When a vm is deleted: nothing names it any more.
LEMMA OtherDeletes ==
    ASSUME NEW ops, NEW r, Request(r), NEW status, NEW status2, NEW e, NEW pl, NEW pc,
           DOMAIN pl = Disks, DOMAIN pc = Devices, Knows(ops, r, status, e, pl, pc),
           NEW q, Share(q, r) => Apart(ops, q, r), q.vm \in Vms, q.op \in {"delete_vm", "delshelve"},
           r.vm = q.vm /\ q.op = "delshelve" => status # "normal",
           status2 = IF r.vm = q.vm THEN "none" ELSE status,
           NEW pl2, pl2 = [d \in Disks |-> IF pl[d].vm = q.vm THEN Nowhere ELSE pl[d]],
           NEW pc2, pc2 = [p \in Devices |-> IF pc[p] = q.vm THEN NoVm ELSE pc[p]]
    PROVE  Knows(ops, r, status2, e, pl2, pc2)
<1>0. NoVm \notin Vms /\ Nowhere.vm = NoVm
  BY AttachmentAssumption DEF Nowhere
<1>1. r.vm = q.vm => Apart(ops, q, r)
  BY <1>0 DEF Share
<1>2. r.vm = q.vm => r.op \notin {"mount_disk", "mount_pci", "unshelve", "miss_fix"}
  BY <1>1 DEF Apart, Excludes, Knows, KnowsDisk
<1>3. KnowsDisk(ops, r, status2, e, pl2)
  <2>1. CASE r.op \in {"create_vdisk", "destroy_vdisk", "admin_delete"}
    BY <1>0, <2>1 DEF Request, Idle, Knows, KnowsDisk
  <2>2. CASE r.op = "mount_disk"
    BY <1>0, <1>2, <2>2 DEF Request, Idle, Knows, KnowsDisk
  <2>3. CASE r.op = "umount_disk"
    BY <1>0, <2>3 DEF Request, Idle, Knows, KnowsDisk
  <2>4. QED
    BY <2>1, <2>2, <2>3 DEF KnowsDisk
<1>4. KnowsDevice(r, status2, e, pc2)
  <2>1. CASE r.op = "mount_pci"
    BY <1>2, <2>1 DEF Request, Idle, Knows, KnowsDevice
  <2>2. CASE r.op = "umount_pci"
    BY <1>0, <2>2 DEF Request, Idle, Knows, KnowsDevice
  <2>3. QED
    BY <2>1, <2>2 DEF KnowsDevice
<1>5. KnowsVm(ops, r, status2, e)
  BY <1>2 DEF Request, Idle, Knows, KnowsVm
<1>6. KnowsFix(r, e, pl2)
  <2>1. SUFFICES ASSUME r.op = "miss_fix"
                 PROVE  KnowsFix(r, e, pl2)
    BY DEF KnowsFix
  <2>2. r.vm # q.vm /\ r.todo \subseteq [thing : Disks, dev : 1 .. MaxDev]
        /\ (r.pc = "fix_umount" => r.thing \in Disks)
    BY <1>2, <2>1 DEF Request, Idle
  <2>3. \A d \in Disks : pl[d].vm = r.vm => pl2[d] = pl[d]
    BY <2>2
  <2>4. r.pc # "define" => \A s \in r.todo : s.thing \in Disks /\ pl2[s.thing] = pl[s.thing]
    BY <2>1, <2>2, <2>3 DEF Knows, KnowsFix
  <2>5. QED
    BY <2>1, <2>2, <2>3, <2>4 DEF Knows, KnowsFix, Slot
<1>7. QED
  BY <1>3, <1>4, <1>5, <1>6 DEF Knows

-----------------------------------------------------------------------------
(* What every step has in common.                                          *)

\* The place of a disk, from its row.
LEMMA PlaceFacts ==
    ASSUME TInv
    PROVE  /\ DOMAIN place = Disks /\ NoVm \notin Vms
           /\ \A d \in Disks :
                 /\ place[d] = Place(vdisk[d]) /\ place[d].vm = vdisk[d].vm
                 /\ place[d].vm \in Vms \cup {NoVm}
                 /\ place[d].vm = NoVm => place[d] = Nowhere
                 /\ place[d].vm # NoVm => place[d].dev = vdisk[d].dev /\ vdisk[d].dev \in 1 .. MaxDev
<1>1. vdisk \in [Disks -> VdiskRow] /\ NoVm \notin Vms
  BY AttachmentAssumption DEF TInv, TypeOK
<1>2. ASSUME NEW d \in Disks
      PROVE  vdisk[d].vm \in Vms \cup {NoVm} /\ (vdisk[d].vm # NoVm => vdisk[d].dev \in 1 .. MaxDev)
  BY <1>1, <1>2 DEF TInv, RowsInv, DiskRowSound, VdiskRow
<1>3. QED
  BY <1>1, <1>2 DEF place, Place, Nowhere

\* Requests that share something are apart.
LEMMA OthersApart ==
    ASSUME TInv, MeetInv, HoldersApart, NEW w \in Workers, NEW x \in Workers \ {w}
    PROVE  Share(worker[w], worker[x]) => Apart(workload.ops, worker[w], worker[x])
<1>1. workload \in Workloads
  BY DEF TInv, TypeOK
<1>2. SUFFICES ASSUME Share(worker[w], worker[x])
               PROVE  Apart(workload.ops, worker[w], worker[x])
  OBVIOUS
<1>3. /\ MayMeet(workload, worker[w], worker[x])
      /\ worker[w].op \in workload.ops \cup {"none"} /\ worker[x].op \in workload.ops \cup {"none"}
  BY <1>2 DEF MeetInv
<1>4. QED
  BY <1>1, <1>3, KeptApart

\* The requests that know nothing of machines.
LEMMA KnowsNoVm ==
    ASSUME NEW ops, NEW r, Request(r), r.vm \notin Vms, NEW status, NEW e, NEW status2, NEW e2,
           NEW pl, NEW pc, NEW pc2, Knows(ops, r, status, e, pl, pc)
    PROVE  Knows(ops, r, status2, e2, pl, pc2)
<1>1. /\ r.op \in {"none", "create_vdisk", "destroy_vdisk", "admin_delete"}
      /\ r.pc \notin {"vm_rowdel", "shelve_save", "unshelve_save", "define"}
  BY DEF Request, Idle
<1>2. QED
  BY <1>1 DEF Knows, KnowsDisk, KnowsDevice, KnowsVm, KnowsFix

\* Those that know nothing at all.
LEMMA KnowsNothing ==
    ASSUME NEW ops, NEW r, Request(r),
           \/ r.op \in {"none", "attach_ip", "detach_ip"}
           \/ r.op \in {"delete_vm", "shelve"} /\ r.pc \notin {"vm_rowdel", "shelve_save"},
           NEW status, NEW e, NEW pl, NEW pc
    PROVE  Knows(ops, r, status, e, pl, pc)
<1>1. r.pc \notin {"vm_rowdel", "shelve_save", "unshelve_save", "define"}
  BY DEF Request, Idle
<1>2. QED
  BY <1>1 DEF Knows, KnowsDisk, KnowsDevice, KnowsVm, KnowsFix

\* What the other requests know after a step of w, and what w knows.
OthersKnow(w) ==
    \A x \in Workers \ {w} :
        LET v == worker[x].vm
        IN  Knows(workload.ops, worker[x], vm_status'[v], domain'[v], place', pci')

OwnKnows(w) ==
    LET v == worker'[w].vm
    IN  Knows(workload.ops, worker'[w], vm_status'[v], domain'[v], place', pci')

\* A step that changes one domain, or none.
LEMMA DomainChanged ==
    ASSUME HInv, NEW w \in Workers, UNCHANGED <<workload, vm_status, pci>>, place' = place,
           NEW v \in Vms, NEW e, domain' = [domain EXCEPT ![v] = e],
           DomainSound(workload.ops, e, vm_status[v]), Holds(v, e, place, pci),
           \A x \in Workers \ {w} :
              worker[x].vm = v => Knows(workload.ops, worker[x], vm_status[v], e, place, pci)
    PROVE  DomainsInv' /\ HoldsInv' /\ OthersKnow(w)
<1>1. \A u \in Vms : domain'[u] = IF u = v THEN e ELSE domain[u]
  BY DEF HInv, TInv, TypeOK
<1>2. DomainsInv'
  BY <1>1 DEF HInv, DomainsInv
<1>3. HoldsInv'
  BY <1>1 DEF HInv, HoldsInv
<1>4. ASSUME NEW x \in Workers \ {w}
      PROVE  LET u == worker[x].vm
             IN  Knows(workload.ops, worker[x], vm_status'[u], domain'[u], place', pci')
  <2> DEFINE r == worker[x]
  <2>1. Knows(workload.ops, r, vm_status[r.vm], domain[r.vm], place, pci) /\ Request(r)
    BY DEF HInv, KnowsInv, TInv, RequestsInv
  <2> HIDE DEF r
  <2>2. CASE r.vm \notin Vms
    BY <2>1, <2>2, KnowsNoVm DEF r
  <2>3. CASE r.vm \in Vms /\ r.vm # v
    BY <1>1, <2>1, <2>3 DEF r
  <2>4. CASE r.vm = v
    BY <1>1, <2>4 DEF r
  <2>5. QED
    BY <2>2, <2>3, <2>4
<1>5. QED
  BY <1>2, <1>3, <1>4 DEF OthersKnow

\* A disk stays recorded if its machine still has it, or if w has it in hand.
LEMMA RecordedKept ==
    ASSUME HInv, NEW w \in Workers, UNCHANGED workload, \A x \in Workers \ {w} : worker'[x] = worker[x],
           \A d \in Disks :
              LET v == place'[d].vm IN
              "unshelve" \notin workload.ops /\ v # NoVm /\ domain'[v].defined =>
                 \/ Slot(d, place') \in domain'[v].config
                 \/ InHand(worker'[w], d, place')
                 \/ /\ place'[d] = place[d] /\ domain[v].defined /\ ~InHand(worker[w], d, place)
                    /\ Slot(d, place) \in domain[v].config => Slot(d, place) \in domain'[v].config
    PROVE  RecordedInv'
<1> SUFFICES ASSUME NEW d \in Disks, "unshelve" \notin workload.ops, place'[d].vm # NoVm,
                    domain'[place'[d].vm].defined,
                    Slot(d, place') \notin domain'[place'[d].vm].config
             PROVE  \E x \in Workers : InHand(worker'[x], d, place')
  BY DEF RecordedInv, Recorded
<1>1. CASE InHand(worker'[w], d, place')
  BY <1>1
<1>2. CASE ~InHand(worker'[w], d, place')
  <2>1. /\ place'[d] = place[d] /\ domain[place[d].vm].defined /\ ~InHand(worker[w], d, place)
        /\ Slot(d, place) \in domain[place[d].vm].config
              => Slot(d, place) \in domain'[place[d].vm].config
    BY <1>2
  <2>2. Slot(d, place') = Slot(d, place)
    BY <2>1 DEF Slot
  <2>3. Recorded(workload.ops, d, domain, place, worker)
    BY DEF HInv, RecordedInv
  <2>4. PICK x \in Workers : InHand(worker[x], d, place)
    BY <2>1, <2>2, <2>3 DEF Recorded
  <2>5. x # w /\ worker'[x] = worker[x]
    BY <2>1, <2>4
  <2>6. InHand(worker'[x], d, place')
    BY <2>2, <2>4, <2>5 DEF InHand
  <2>7. QED
    BY <2>6
<1>3. QED
  BY <1>1, <1>2

\* Together.
LEMMA HoldersKept ==
    ASSUME HInv, NEW w \in Workers, UNCHANGED workload, Step(w),
           DomainsInv', HoldsInv', RecordedInv', OthersKnow(w), OwnKnows(w)
    PROVE  HInv'
<1>1. TInv'
  BY NextTypes DEF Step, Next, HInv
<1>2. MeetInv'
  BY MeetKept DEF HInv
<1>3. \A x \in Workers \ {w} : worker'[x] = worker[x]
  BY OneWorker DEF HInv
<1>4. ASSUME NEW x \in Workers
      PROVE  LET v == worker'[x].vm
             IN  Knows(workload'.ops, worker'[x], vm_status'[v], domain'[v], place', pci')
  BY <1>3 DEF OwnKnows, OthersKnow
<1>5. KnowsInv'
  BY <1>4 DEF KnowsInv
<1>6. QED
  BY <1>1, <1>2, <1>5 DEF HInv

\* A step that leaves the machines, and what is recorded for them, alone.
LEMMA QuietHolders ==
    ASSUME HInv, NEW w \in Workers, UNCHANGED workload, Step(w),
           UNCHANGED <<vm_status, domain, pci>>, place' = place, OwnKnows(w),
           \A d \in Disks : InHand(worker[w], d, place) => InHand(worker'[w], d, place)
    PROVE  HInv'
<1>1. \A x \in Workers \ {w} : worker'[x] = worker[x]
  BY OneWorker DEF HInv
<1>2. DomainsInv' /\ HoldsInv'
  BY DEF HInv, DomainsInv, HoldsInv
<1>3. OthersKnow(w)
  BY DEF HInv, KnowsInv, OthersKnow
<1>4. RecordedInv'
  BY <1>1, RecordedKept
<1>5. QED
  BY <1>2, <1>3, <1>4, HoldersKept

-----------------------------------------------------------------------------
(* Requests that arrive.                                                   *)

\* A request that is accepted knows what it was accepted on.
LEMMA AcceptedHolders ==
    ASSUME HInv, NEW w \in Workers, UNCHANGED workload, Step(w), At(w, "idle"),
           UNCHANGED <<vm_status, domain, vdisk, pci>>,
           LET r == worker'[w]
           IN  Knows(workload.ops, r, vm_status[r.vm], domain[r.vm], place, pci)
    PROVE  HInv'
<1>1. place' = place
  BY DEF place
<1>2. OwnKnows(w)
  BY <1>1 DEF OwnKnows
<1>3. \A d \in Disks : ~InHand(worker[w], d, place)
  BY DEF At, InHand
<1>4. QED
  BY <1>1, <1>2, <1>3, QuietHolders

\* The fields of a request that begins.
LEMMA Begun ==
    ASSUME TInv, NEW w \in Workers, NEW op, NEW v, NEW t, NEW pc, Begin(w, op, v, t, pc)
    PROVE  /\ worker'[w].op = op /\ worker'[w].vm = v /\ worker'[w].thing = t
           /\ worker'[w].pc = pc /\ worker'[w].todo = {}
BY TypedPlaces DEF Begin, Idle

\* Of a disk on no vm.
LEMMA UnmountedStarts ==
    ASSUME HInv, NEW w \in Workers, UNCHANGED workload, Step(w), NEW d \in Disks,
           CreateVdisk(w, d) \/ DestroyVdisk(w, d) \/ AdminDelete(w, d)
    PROVE  HInv'
<1> DEFINE r == worker'[w]
<1>1. TInv /\ worker \in [Workers -> WorkerState]
  BY TypedPlaces DEF HInv
<1>2. /\ At(w, "idle") /\ UNCHANGED <<vm_status, domain, vdisk, pci>> /\ vdisk[d].vm = NoVm
      /\ r.op \in {"create_vdisk", "destroy_vdisk", "admin_delete"} /\ r.thing = d
      /\ r.pc \in {"claim", "soft_delete", "remove_image"}
  <2>1. CASE CreateVdisk(w, d)
    BY <1>1, <2>1 DEF CreateVdisk, NoRow, MayStart, RowsUnchanged, VmsUnchanged, Idle
  <2>2. CASE DestroyVdisk(w, d)
    BY <1>1, <2>2, Begun DEF DestroyVdisk, MayStart, RowsUnchanged, VmsUnchanged
  <2>3. CASE AdminDelete(w, d)
    BY <1>1, <2>3 DEF AdminDelete, MayStart, RowsUnchanged, VmsUnchanged, Idle
  <2>4. QED
    BY <2>1, <2>2, <2>3
<1>3. place[d].vm = NoVm
  BY <1>1, <1>2, PlaceFacts
<1> HIDE DEF r
<1>4. Knows(workload.ops, r, vm_status[r.vm], domain[r.vm], place, pci)
  BY <1>2, <1>3 DEF Knows, KnowsDisk, KnowsDevice, KnowsVm, KnowsFix
<1>5. QED
  BY <1>2, <1>4, AcceptedHolders DEF r

\* Of a disk or a device of a vm.
LEMMA UmountStarts ==
    ASSUME HInv, NEW w \in Workers, UNCHANGED workload, Step(w), NEW t,
           \/ t \in Disks /\ UmountDisk(w, t)
           \/ t \in Devices /\ UmountPci(w, t)
    PROVE  HInv'
<1> DEFINE r == worker'[w]
<1>1. TInv /\ worker \in [Workers -> WorkerState]
  BY TypedPlaces DEF HInv
<1>2. CASE t \in Disks /\ UmountDisk(w, t)
  <2>1. /\ At(w, "idle") /\ UNCHANGED <<vm_status, domain, vdisk, pci>> /\ vdisk[t].vm # NoVm
        /\ r.op = "umount_disk" /\ r.thing = t /\ r.vm = vdisk[t].vm /\ r.dev = vdisk[t].dev
        /\ r.pc = "detach"
    BY <1>1, <1>2 DEF UmountDisk, MayStart, RowsUnchanged, VmsUnchanged, Idle
  <2>2. place[t] = [vm |-> r.vm, dev |-> r.dev]
    BY <1>1, <1>2, <2>1, PlaceFacts DEF Place
  <2> HIDE DEF r
  <2>3. Knows(workload.ops, r, vm_status[r.vm], domain[r.vm], place, pci)
    BY <2>1, <2>2 DEF Knows, KnowsDisk, KnowsDevice, KnowsVm, KnowsFix
  <2>4. QED
    BY <2>1, <2>3, AcceptedHolders DEF r
<1>3. CASE t \in Devices /\ UmountPci(w, t)
  <2>1. /\ At(w, "idle") /\ UNCHANGED <<vm_status, domain, vdisk, pci>>
        /\ r.op = "umount_pci" /\ r.thing = t /\ r.vm = pci[t] /\ r.pc = "detach"
    BY <1>1, <1>3, Begun DEF UmountPci, MayStart, RowsUnchanged, VmsUnchanged
  <2> HIDE DEF r
  <2>3. Knows(workload.ops, r, vm_status[r.vm], domain[r.vm], place, pci)
    BY <2>1 DEF Knows, KnowsDisk, KnowsDevice, KnowsVm, KnowsFix
  <2>4. QED
    BY <2>1, <2>3, AcceptedHolders DEF r
<1>4. QED
  BY <1>2, <1>3

\* What is recorded for no vm is in no domain.
LEMMA MountPciStarts ==
    ASSUME HInv, NEW w \in Workers, UNCHANGED workload, Step(w), NEW t \in Devices, NEW v \in Vms,
           MountPci(w, t, v)
    PROVE  HInv'
<1> DEFINE r == worker'[w]
<1>1. TInv /\ NoVm \notin Vms
  BY AttachmentAssumption DEF HInv
<1>2. /\ At(w, "idle") /\ UNCHANGED <<vm_status, domain, vdisk, pci>> /\ pci[t] = NoVm
      /\ r.op = "mount_pci" /\ r.thing = t /\ r.vm = v /\ r.pc = "mount_row"
  BY <1>1, Begun DEF MountPci, MayStart, RowsUnchanged, VmsUnchanged
<1>3. t \notin Att(domain[v])
  BY <1>1, <1>2 DEF HInv, HoldsInv, Holds
<1> HIDE DEF r
<1>4. Knows(workload.ops, r, vm_status[r.vm], domain[r.vm], place, pci)
  BY <1>2, <1>3 DEF Knows, KnowsDisk, KnowsDevice, KnowsVm, KnowsFix
<1>5. QED
  BY <1>2, <1>4, AcceptedHolders DEF r

\* Of addresses, and of vms that stay as they are for now.
LEMMA OtherStarts ==
    ASSUME HInv, NEW w \in Workers, UNCHANGED workload, Step(w), NEW v \in Vms,
           \/ \E i \in Ips : AttachIp(w, i, v) \/ DetachIp(w, i, v)
           \/ Shelve(w, v) \/ Unshelve(w, v) \/ Delshelve(w, v) \/ MissFix(w, v)
    PROVE  HInv'
<1> DEFINE r == worker'[w]
<1>1. TInv /\ TInv'
  BY NextTypes DEF Step, Next, HInv
<1>2. Request(r)
  BY <1>1 DEF TInv, RequestsInv
<1>3. DomainSound(workload.ops, domain[v], vm_status[v])
  BY DEF HInv, DomainsInv
<1>4. CASE (\E i \in Ips : AttachIp(w, i, v) \/ DetachIp(w, i, v)) \/ Shelve(w, v)
  <2>1. /\ At(w, "idle") /\ UNCHANGED <<vm_status, domain, vdisk, pci>>
        /\ \/ r.op \in {"attach_ip", "detach_ip"}
           \/ r.op = "shelve" /\ r.pc = "att_check"
    BY <1>1, <1>4, Begun DEF AttachIp, DetachIp, Shelve, MayStart, RowsUnchanged, VmsUnchanged
  <2> HIDE DEF r
  <2>2. Knows(workload.ops, r, vm_status[r.vm], domain[r.vm], place, pci)
    BY <1>2, <2>1, KnowsNothing
  <2>3. QED
    BY <2>1, <2>2, AcceptedHolders DEF r
<1>5. CASE Unshelve(w, v)
  <2>1. /\ At(w, "idle") /\ UNCHANGED <<vm_status, domain, vdisk, pci>> /\ vm_status[v] = "shelve"
        /\ r.op = "unshelve" /\ r.vm = v /\ r.pc = "unshelve_save"
    BY <1>1, <1>5, Begun DEF Unshelve, MayStart, RowsUnchanged, VmsUnchanged
  <2>2. "delshelve" \in workload.ops => domain[v] = NoDomain
    BY <1>3, <2>1 DEF DomainSound
  <2> HIDE DEF r
  <2>3. Knows(workload.ops, r, vm_status[r.vm], domain[r.vm], place, pci)
    BY <2>1, <2>2 DEF Knows, KnowsDisk, KnowsDevice, KnowsVm, KnowsFix
  <2>4. QED
    BY <2>1, <2>3, AcceptedHolders DEF r
<1>6. CASE Delshelve(w, v)
  <2>1. /\ At(w, "idle") /\ UNCHANGED <<vm_status, domain, vdisk, pci>> /\ vm_status[v] = "shelve"
        /\ r.op = "delshelve" /\ r.vm = v /\ r.pc = "vm_rowdel" /\ "delshelve" \in workload.ops
    BY <1>1, <1>6, Begun DEF Delshelve, MayStart, RowsUnchanged, VmsUnchanged
  <2>2. domain[v] = NoDomain
    BY <1>3, <2>1 DEF DomainSound
  <2> HIDE DEF r
  <2>3. Knows(workload.ops, r, vm_status[r.vm], domain[r.vm], place, pci)
    BY <2>1, <2>2 DEF Knows, KnowsDisk, KnowsDevice, KnowsVm, KnowsFix
  <2>4. QED
    BY <2>1, <2>3, AcceptedHolders DEF r
<1>7. CASE MissFix(w, v)
  <2>1. /\ At(w, "idle") /\ UNCHANGED <<vm_status, domain, vdisk, pci>> /\ vm_status[v] = "normal"
        /\ ~domain[v].defined /\ r.op = "miss_fix" /\ r.vm = v /\ r.pc = "define"
    BY <1>1, <1>7, Begun DEF MissFix, MayStart, RowsUnchanged, VmsUnchanged, Normal
  <2>2. domain[v] = NoDomain
    BY <1>3, <2>1 DEF DomainSound
  <2> HIDE DEF r
  <2>3. Knows(workload.ops, r, vm_status[r.vm], domain[r.vm], place, pci)
    BY <2>1, <2>2 DEF Knows, KnowsDisk, KnowsDevice, KnowsVm, KnowsFix
  <2>4. QED
    BY <2>1, <2>3, AcceptedHolders DEF r
<1>8. QED
  BY <1>4, <1>5, <1>6, <1>7

\* Who has a disk in hand is at work on the vm it is recorded for.
LEMMA InHandOf ==
    ASSUME HInv, NEW x \in Workers, NEW d \in Disks, InHand(worker[x], d, place), place[d].vm \in Vms
    PROVE  /\ worker[x].vm = place[d].vm
           /\ \/ worker[x].op \in {"mount_disk", "umount_disk"} /\ worker[x].thing = d
              \/ worker[x].op = "miss_fix"
<1> DEFINE r == worker[x]
<1>1. Request(r) /\ Knows(workload.ops, r, vm_status[r.vm], domain[r.vm], place, pci)
  BY DEF HInv, KnowsInv, TInv, RequestsInv
<1>2. NoVm \notin Vms /\ Disks \cap Devices = {} /\ Disks \cap Ips = {}
  BY AttachmentAssumption, DomainAssumption
<1>h. InHand(r, d, place)
  OBVIOUS
<1> HIDE DEF r
<1>3. CASE r.thing = d /\ r.pc \in {"attach", "undo_mount"}
  BY <1>1, <1>2, <1>3 DEF Request, Idle, Knows, KnowsDisk, r
<1>4. CASE r.thing = d /\ r.pc = "umount_row"
  BY <1>1, <1>2, <1>4 DEF Request, Idle, Knows, KnowsDisk, r
<1>5. CASE r.thing = d /\ r.pc = "fix_umount"
  BY <1>1, <1>5 DEF Request, Idle, Knows, KnowsFix, r
<1>6. CASE r.pc \in {"fix_attach", "fix_umount"} /\ Slot(d, place) \in r.todo
  BY <1>1, <1>6 DEF Request, Idle, Slot, Knows, KnowsFix, r
<1>7. QED
  BY <1>3, <1>4, <1>5, <1>6, <1>h DEF InHand

\* A request to mount a disk finds it in no description, so that it is not
\* recorded for the vm either.
LEMMA MountDiskStarts ==
    ASSUME HInv, HoldersApart, NEW w \in Workers, UNCHANGED workload, Step(w), NEW d \in Disks, NEW v \in Vms,
           MountDisk(w, d, v)
    PROVE  HInv'
<1> DEFINE r == worker'[w]
<1>1. TInv /\ worker \in [Workers -> WorkerState] /\ NoVm \notin Vms /\ NoThing \notin Disks
  BY TypedPlaces, AttachmentAssumption DEF HInv, Things
<1>2. /\ At(w, "idle") /\ UNCHANGED <<vm_status, domain, vdisk, pci>>
      /\ r.op = "mount_disk" /\ r.thing = d /\ r.vm = v /\ r.pc = "mount_row"
      /\ vm_status[v] = "normal" /\ domain[v].defined
      /\ \A s \in xml_desc(domain[v]) : s.thing # d
  <2>1. PICK n : worker' = [worker EXCEPT ![w] = [Idle EXCEPT !.op = "mount_disk", !.vm = v,
                               !.thing = d, !.dev = n, !.pc = "mount_row"]]
    BY DEF MountDisk
  <2>2. QED
    BY <1>1, <2>1 DEF MountDisk, MayStart, RowsUnchanged, VmsUnchanged, Idle, Normal
<1>3. DomainSound(workload.ops, domain[v], vm_status[v])
  BY DEF HInv, DomainsInv
<1>4. d \notin Att(domain[v])
  <2>1. CASE domain[v].running
    BY <1>2, <1>3, <2>1 DEF DomainSound, DiskSlots, xml_desc, Att
  <2>2. CASE ~domain[v].running
    BY <1>2, <1>3, <2>2 DEF DomainSound, xml_desc, Att
  <2>3. QED
    BY <2>1, <2>2
<1>5. "unshelve" \notin workload.ops => place[d].vm # v
  <2>1. SUFFICES ASSUME "unshelve" \notin workload.ops, place[d].vm = v
                 PROVE  FALSE
    OBVIOUS
  <2>2. Slot(d, place) \notin domain[v].config
    BY <1>4 DEF Slot, Att
  <2>3. PICK x \in Workers : InHand(worker[x], d, place)
    BY <1>1, <1>2, <2>1, <2>2 DEF HInv, RecordedInv, Recorded
  <2>4. /\ worker[x].vm = v
        /\ \/ worker[x].op \in {"mount_disk", "umount_disk"} /\ worker[x].thing = d
           \/ worker[x].op = "miss_fix"
    BY <2>1, <2>3, InHandOf
  <2>5. x # w
    BY <1>2, <2>3 DEF At, InHand
  <2>6. worker'[x] = worker[x]
    BY <1>1, <2>5, OneWorker
  <2>7. Share(r, worker[x])
    BY <1>1, <1>2, <2>4 DEF Share
  <2>8. MeetInv'
    BY MeetKept DEF HInv
  <2>9. /\ MayMeet(workload, r, worker[x])
        /\ r.op \in workload.ops \cup {"none"} /\ worker[x].op \in workload.ops \cup {"none"}
    BY <2>5, <2>6, <2>7, <2>8 DEF MeetInv
  <2>10. workload \in Workloads
    BY <1>1 DEF TInv, TypeOK
  <2>11. Apart(workload.ops, r, worker[x])
    BY <2>9, <2>10, KeptApart
  <2>12. QED
    BY <1>2, <2>4, <2>11 DEF Apart, Excludes, NeverAgain
<1> HIDE DEF r
<1>6. Knows(workload.ops, r, vm_status[r.vm], domain[r.vm], place, pci)
  BY <1>2, <1>4, <1>5 DEF Knows, KnowsDisk, KnowsDevice, KnowsVm, KnowsFix
<1>7. QED
  BY <1>2, <1>6, AcceptedHolders DEF r

-----------------------------------------------------------------------------
(* Steps of a disk's own requests, and of addresses.                       *)

\* Writing a row that names the vm it named, under the same name, changes no
\* place.
LEMMA PlaceSame ==
    ASSUME TInv, NEW d \in Disks, NEW row, vdisk' = [vdisk EXCEPT ![d] = row],
           Place(row) = Place(vdisk[d])
    PROVE  place' = place
<1>1. \A x \in Disks : vdisk'[x] = IF x = d THEN row ELSE vdisk[x]
  BY DEF TInv, TypeOK
<1>2. QED
  BY <1>1 DEF place

\* A request that ends knows nothing more.
LEMMA EndKnows ==
    ASSUME TInv, NEW w \in Workers, End(w)
    PROVE  OwnKnows(w) /\ worker'[w] = Idle
<1>1. worker'[w] = Idle /\ Request(Idle) /\ Idle.op = "none"
  BY TypedPlaces DEF End, Idle
<1>2. QED
  BY <1>1, KnowsNothing DEF OwnKnows

\* The fields of a request that goes on.
LEMMA Gone ==
    ASSUME TInv, NEW w \in Workers, NEW pc, Goto(w, pc)
    PROVE  /\ worker'[w].op = worker[w].op /\ worker'[w].vm = worker[w].vm
           /\ worker'[w].thing = worker[w].thing /\ worker'[w].dev = worker[w].dev
           /\ worker'[w].todo = worker[w].todo /\ worker'[w].pc = pc
BY TypedPlaces DEF Goto, WorkerState

\* Creating a disk and removing it.
LEMMA MakerHolders ==
    ASSUME HInv, NEW w \in Workers, UNCHANGED workload, Step(w),
           \/ ClaimQuota(w) \/ SaveVdisk(w) \/ CreateCephDisk(w) \/ UnsaveVdisk(w) \/ UndoClaim(w)
           \/ SoftDelete(w) \/ RenameDiskRbdName(w)
           \/ RemoveCephDisk(w) \/ FreeVdisk(w) \/ DeleteVdiskRow(w)
    PROVE  HInv'
<1> DEFINE r == worker[w]
           s == worker'[w]
           t == r.thing
<1>1. TInv /\ worker \in [Workers -> WorkerState] /\ r \in WorkerState /\ Request(r)
      /\ vdisk \in [Disks -> VdiskRow]
  BY TypedPlaces DEF HInv
<1>2. r.pc \in {"claim", "save", "create_image", "unsave", "undo_claim", "soft_delete", "rename",
                "remove_image", "free", "rowdel"}
  BY DEF At, ClaimQuota, SaveVdisk, CreateCephDisk, UnsaveVdisk, UndoClaim, SoftDelete,
         RenameDiskRbdName, RemoveCephDisk, FreeVdisk, DeleteVdiskRow
<1>3. /\ r.op \in {"create_vdisk", "destroy_vdisk", "admin_delete"} /\ t \in Disks
  BY <1>1, <1>2 DEF Request, Idle
<1>4. Knows(workload.ops, r, vm_status[r.vm], domain[r.vm], place, pci)
  BY DEF HInv, KnowsInv
<1>5. place[t].vm = NoVm
  BY <1>3, <1>4 DEF Knows, KnowsDisk
<1>6. Place(vdisk[t]) = Nowhere
  BY <1>1, <1>3, <1>5, PlaceFacts
<1>7. \A d \in Disks : ~InHand(r, d, place)
  BY <1>2 DEF InHand
<1>8. UNCHANGED <<vm_status, domain, pci>>
  BY DEF ClaimQuota, SaveVdisk, CreateCephDisk, UnsaveVdisk, UndoClaim, SoftDelete,
         RenameDiskRbdName, RemoveCephDisk, FreeVdisk, DeleteVdiskRow, RowsUnchanged, VmsUnchanged
<1>9. place' = place
  <2>1. CASE SaveVdisk(w)
    BY <1>1, <1>3, <1>6, <2>1, PlaceSame DEF Place, Nowhere, NoRow, SaveVdisk
  <2>2. CASE UnsaveVdisk(w) \/ DeleteVdiskRow(w)
    BY <1>1, <1>3, <1>6, <2>2, PlaceSame DEF Place, Nowhere, NoRow, UnsaveVdisk, DeleteVdiskRow
  <2>3. CASE SoftDelete(w)
    <3>1. CASE vdisk' = vdisk
      BY <3>1 DEF place
    <3>2. CASE vdisk' # vdisk
      <4> DEFINE row == [vdisk[t] EXCEPT !.state = "deleted"]
      <4>1. vdisk' = [vdisk EXCEPT ![t] = row]
        BY <1>1, <1>3, <2>3, <3>2 DEF SoftDelete
      <4>2. row.vm = vdisk[t].vm /\ row.dev = vdisk[t].dev
        BY <1>1, <1>3 DEF VdiskRow
      <4>3. Place(row) = Place(vdisk[t])
        BY <4>2 DEF Place
      <4> HIDE DEF row
      <4>4. QED
        BY <1>1, <1>3, <4>1, <4>3, PlaceSame
    <3>3. QED
      BY <3>1, <3>2
  <2>4. CASE vdisk' = vdisk
    BY <2>4 DEF place
  <2>5. QED
    BY <2>1, <2>2, <2>3, <2>4 DEF ClaimQuota, CreateCephDisk, UndoClaim,
       RenameDiskRbdName, RemoveCephDisk, FreeVdisk, RowsUnchanged
<1>10. OwnKnows(w)
  <2>1. CASE End(w)
    BY <1>1, <2>1, EndKnows
  <2>2. CASE ~End(w)
    <3>1. s.op = r.op /\ s.thing = t
          /\ s.pc \notin {"vm_rowdel", "shelve_save", "unshelve_save", "define"}
      <4>1. CASE \E pc \in {"create_image", "unsave", "undo_claim", "rename", "free", "rowdel"} : Goto(w, pc)
        BY <1>1, <4>1, Gone
      <4>2. CASE ClaimQuota(w)
        <5>1. PICK q : worker' = [worker EXCEPT ![w].pc = "save", ![w].quota = q,
                                                ![w].loaded = Idle.loaded]
          BY <2>2, <4>2 DEF ClaimQuota
        <5>2. QED
          BY <1>1, <5>1 DEF WorkerState
      <4>3. QED
        BY <2>2, <4>1, <4>2 DEF SaveVdisk, CreateCephDisk, UnsaveVdisk, UndoClaim, SoftDelete,
           RenameDiskRbdName, RemoveCephDisk, FreeVdisk, DeleteVdiskRow
    <3> HIDE DEF r, s, t
    <3>2. Knows(workload.ops, s, vm_status'[s.vm], domain'[s.vm], place, pci')
      BY <1>3, <1>5, <3>1 DEF Knows, KnowsDisk, KnowsDevice, KnowsVm, KnowsFix
    <3>3. QED
      BY <1>9, <3>2 DEF OwnKnows, s
  <2>3. QED
    BY <2>1, <2>2
<1>11. QED
  BY <1>7, <1>8, <1>9, <1>10, QuietHolders

\* Addresses: what is recorded of them is of no concern here.
LEMMA AddressHolders ==
    ASSUME HInv, NEW w \in Workers, UNCHANGED workload, Step(w),
           ApplyIp(w) \/ AttachRow(w) \/ FreeAttachedIp(w) \/ DeleteAttachedIp(w) \/ CheckAttachedIp(w)
    PROVE  HInv'
<1> DEFINE r == worker[w]
           s == worker'[w]
<1>1. TInv /\ TInv' /\ Request(r)
  BY NextTypes, TypedPlaces DEF Step, Next, HInv
<1>2. r.pc \in {"ip_apply", "ip_row", "free_ip", "ip_rowdel", "att_check"}
  BY DEF At, ApplyIp, AttachRow, FreeAttachedIp, DeleteAttachedIp, CheckAttachedIp
<1>3. r.op \in {"attach_ip", "detach_ip", "delete_vm", "shelve"}
  BY <1>1, <1>2 DEF Request, Idle
<1>4. \A d \in Disks : ~InHand(r, d, place)
  BY <1>2 DEF InHand
<1>5. UNCHANGED <<vm_status, domain, pci, vdisk>>
  BY DEF ApplyIp, AttachRow, FreeAttachedIp, DeleteAttachedIp, CheckAttachedIp, RowsUnchanged,
         VmsUnchanged
<1>6. place' = place
  BY <1>5 DEF place
<1>7. OwnKnows(w)
  <2>1. CASE End(w)
    BY <1>1, <2>1, EndKnows
  <2>2. CASE ~End(w)
    <3>1. \E pc \in {"ip_row", "attach", "ip_rowdel", "detach", "undefine"} : Goto(w, pc)
      BY <2>2 DEF ApplyIp, AttachRow, FreeAttachedIp, DeleteAttachedIp, CheckAttachedIp
    <3>2. s.op = r.op /\ s.pc \notin {"vm_rowdel", "shelve_save"}
      BY <1>1, <3>1, Gone
    <3>3. Request(s)
      BY <1>1 DEF TInv, RequestsInv
    <3> HIDE DEF s
    <3>4. Knows(workload.ops, s, vm_status'[s.vm], domain'[s.vm], place', pci')
      BY <1>3, <3>2, <3>3, KnowsNothing
    <3>5. QED
      BY <3>4 DEF OwnKnows, s
  <2>3. QED
    BY <2>1, <2>2
<1>8. QED
  BY <1>4, <1>5, <1>6, <1>7, QuietHolders

-----------------------------------------------------------------------------
(* Steps that record a disk or a device for a vm, or take that back.       *)

\* Of a disk: what is recorded is in hand, what is not any more is in no
\* domain.
LEMMA PlaceChanged ==
    ASSUME HInv, HoldersApart, NEW w \in Workers, UNCHANGED <<workload, vm_status, domain, pci>>, Step(w),
           NEW d \in Disks, NEW p,
           place' = [x \in Disks |-> IF x = d THEN p ELSE place[x]],
           worker[w].vm \in Vms,
           \/ worker[w].op \in {"mount_disk", "umount_disk"} /\ worker[w].thing = d
           \/ worker[w].op = "miss_fix",
           \/ /\ worker[w].op = "mount_disk" /\ place[d].vm = NoVm /\ p.vm = worker[w].vm
              /\ InHand(worker'[w], d, place')
           \/ /\ place[d].vm = worker[w].vm /\ p = Nowhere /\ d \notin Att(domain[worker[w].vm]),
           \A x \in Disks \ {d} : InHand(worker[w], x, place) => InHand(worker'[w], x, place'),
           OwnKnows(w)
    PROVE  HInv'
<1> DEFINE q == worker[w]
<1>1. TInv /\ MeetInv /\ NoVm \notin Vms /\ DOMAIN place = Disks /\ Nowhere.vm = NoVm
  BY AttachmentAssumption, PlaceFacts DEF HInv, Nowhere
<1>2. \A x \in Workers \ {w} : worker'[x] = worker[x]
  BY <1>1, OneWorker
<1>3. DomainsInv'
  BY DEF HInv, DomainsInv
<1>4. HoldsInv'
  <2>1. ASSUME NEW v \in Vms, NEW x \in Att(domain[v]) \cap Disks
        PROVE  place'[x].vm = v
    BY <1>1, <2>1 DEF HInv, HoldsInv, Holds
  <2>2. \A v \in Vms : \A x \in Att(domain[v]) \cap Devices : pci[x] = v
    BY DEF HInv, HoldsInv, Holds
  <2>3. QED
    BY <2>1, <2>2 DEF HoldsInv, Holds
<1>5. OthersKnow(w)
  <2>1. ASSUME NEW x \in Workers \ {w}
        PROVE  LET v == worker[x].vm
               IN  Knows(workload.ops, worker[x], vm_status[v], domain[v], place', pci)
    <3> DEFINE r == worker[x]
    <3>1. Knows(workload.ops, r, vm_status[r.vm], domain[r.vm], place, pci) /\ Request(r)
      BY DEF HInv, KnowsInv, TInv, RequestsInv
    <3>2. Share(q, r) => Apart(workload.ops, q, r)
      BY <1>1, OthersApart
    <3>3. \/ q.op \in {"mount_disk", "umount_disk"} /\ q.thing = d
          \/ q.op = "miss_fix"
      OBVIOUS
    <3>4. \/ q.op = "mount_disk" /\ place[d].vm = NoVm /\ p.vm = q.vm
          \/ place[d].vm = q.vm /\ p = Nowhere
      OBVIOUS
    <3>5. q.vm \in Vms
      OBVIOUS
    <3> HIDE DEF q, r
    <3>6. Knows(workload.ops, r, vm_status[r.vm], domain[r.vm], place', pci)
      BY <1>1, <3>1, <3>2, <3>3, <3>4, <3>5, OtherPlace
    <3>7. QED
      BY <3>6 DEF r
  <2>2. QED
    BY <2>1 DEF OthersKnow
<1>6. RecordedInv'
  <2>1. ASSUME NEW x \in Disks, place'[x].vm # NoVm
        PROVE  \/ InHand(worker'[w], x, place')
               \/ place'[x] = place[x] /\ ~InHand(worker[w], x, place)
    <3>1. CASE x = d
      BY <1>1, <2>1, <3>1
    <3>2. CASE x # d
      BY <3>2
    <3>3. QED
      BY <3>1, <3>2
  <2>2. UNCHANGED workload /\ UNCHANGED domain
    OBVIOUS
  <2>3. QED
    BY <1>2, <2>1, <2>2, RecordedKept
<1>7. UNCHANGED workload
  OBVIOUS
<1>8. QED
  BY <1>3, <1>4, <1>5, <1>6, <1>7, HoldersKept

\* Of a device.
LEMMA DeviceChanged ==
    ASSUME HInv, HoldersApart, NEW w \in Workers, UNCHANGED <<workload, vm_status, domain, vdisk>>, Step(w),
           NEW d \in Devices, NEW p, pci' = [pci EXCEPT ![d] = p],
           worker[w].vm \in Vms, worker[w].thing = d, worker[w].op \in {"mount_pci", "umount_pci"},
           \/ worker[w].op = "mount_pci" /\ pci[d] = NoVm /\ p = worker[w].vm
           \/ pci[d] = worker[w].vm /\ p = NoVm /\ d \notin Att(domain[worker[w].vm]),
           OwnKnows(w)
    PROVE  HInv'
<1> DEFINE q == worker[w]
<1>1. TInv /\ MeetInv /\ NoVm \notin Vms /\ DOMAIN pci = Devices /\ Request(q)
  BY AttachmentAssumption, TypedPlaces DEF HInv, TInv, TypeOK
<1>2. \A x \in Workers \ {w} : worker'[x] = worker[x]
  BY <1>1, OneWorker
<1>3. DomainsInv' /\ place' = place
  BY DEF HInv, DomainsInv, place
<1>a. pci'[d] = p /\ \A x \in Devices \ {d} : pci'[x] = pci[x]
  BY <1>1
<1>4. HoldsInv'
  <2>1. ASSUME NEW v \in Vms, NEW x \in Att(domain[v]) \cap Devices
        PROVE  pci'[x] = v
    BY <1>a, <1>1, <2>1 DEF HInv, HoldsInv, Holds
  <2>2. \A v \in Vms : \A x \in Att(domain[v]) \cap Disks : place[x].vm = v
    BY DEF HInv, HoldsInv, Holds
  <2>3. QED
    BY <1>3, <2>1, <2>2 DEF HoldsInv, Holds
<1>5. OthersKnow(w)
  <2>1. ASSUME NEW x \in Workers \ {w}
        PROVE  LET v == worker[x].vm
               IN  Knows(workload.ops, worker[x], vm_status[v], domain[v], place, pci')
    <3> DEFINE r == worker[x]
    <3>1. Knows(workload.ops, r, vm_status[r.vm], domain[r.vm], place, pci) /\ Request(r)
      BY DEF HInv, KnowsInv, TInv, RequestsInv
    <3>2. Share(q, r) => Apart(workload.ops, q, r)
      BY <1>1, OthersApart
    <3>3. q.op \in {"mount_pci", "umount_pci"} /\ q.thing = d /\ q.vm \in Vms
      OBVIOUS
    <3>4. \/ q.op = "mount_pci" /\ pci[d] = NoVm /\ p = q.vm
          \/ pci[d] = q.vm /\ p = NoVm
      OBVIOUS
    <3> DEFINE status == vm_status[r.vm]
               e == domain[r.vm]
               pc2 == pci'
    <3>a. pc2[d] = p /\ \A y \in Devices \ {d} : pc2[y] = pci[y]
      BY <1>a
    <3>b. Knows(workload.ops, r, status, e, place, pci)
      BY <3>1
    <3> HIDE DEF q, r, status, e, pc2
    <3>5. Knows(workload.ops, r, status, e, place, pc2)
      BY <1>1, <3>1, <3>2, <3>3, <3>4, <3>a, <3>b, OtherDevice
    <3>6. QED
      BY <3>5 DEF r, status, e, pc2
  <2>2. QED
    BY <1>3, <2>1 DEF OthersKnow
<1>6. \A x \in Disks : ~InHand(q, x, place)
  BY <1>1, DomainAssumption DEF Request, Idle, InHand
<1>7. RecordedInv'
  BY <1>2, <1>3, <1>6, RecordedKept
<1>8. QED
  BY <1>3, <1>4, <1>5, <1>7, HoldersKept

\* The place of a disk whose row is written.
LEMMA PlaceWritten ==
    ASSUME TInv, NEW d \in Disks, NEW row, vdisk' = [vdisk EXCEPT ![d] = row]
    PROVE  place' = [x \in Disks |-> IF x = d THEN Place(row) ELSE place[x]]
<1>1. \A x \in Disks : vdisk'[x] = IF x = d THEN row ELSE vdisk[x]
  BY DEF TInv, TypeOK
<1>2. QED
  BY <1>1 DEF place

\* Of a request to unmount: the row is cleared.
LEMMA RowCleared ==
    ASSUME TInv, NEW t \in Disks \cup Devices, UnmountRow(t)
    PROVE  \/ /\ t \in Disks /\ UNCHANGED pci
              /\ place' = [x \in Disks |-> IF x = t THEN Nowhere ELSE place[x]]
           \/ t \in Devices /\ UNCHANGED vdisk /\ pci' = [pci EXCEPT ![t] = NoVm]
<1>1. CASE t \in Disks
  <2> DEFINE row == [vdisk[t] EXCEPT !.vm = NoVm, !.dev = 0]
  <2>1. vdisk' = [vdisk EXCEPT ![t] = row] /\ UNCHANGED pci
    BY <1>1, TypedPlaces DEF UnmountRow, TInv, TypeOK
  <2>2. row.vm = NoVm
    BY <1>1 DEF TInv, TypeOK, VdiskRow
  <2>3. Place(row) = Nowhere
    BY <2>2 DEF Place, Nowhere
  <2> HIDE DEF row
  <2>4. QED
    BY <1>1, <2>1, <2>3, PlaceWritten
<1>2. CASE t \notin Disks
  BY <1>2 DEF UnmountRow
<1>3. QED
  BY <1>1, <1>2

\* What a request to mount or unmount is, by its step.
LEMMA MountPcs ==
    ASSUME NEW r, Request(r)
    PROVE  /\ r.pc \in {"mount_row", "undo_mount"} =>
                 \/ r.op = "mount_disk" /\ r.thing \in Disks /\ r.vm \in Vms
                 \/ r.op = "mount_pci" /\ r.thing \in Devices /\ r.vm \in Vms
           /\ r.pc = "umount_row" =>
                 \/ r.op = "umount_disk" /\ r.thing \in Disks /\ r.vm \in Vms
                 \/ r.op = "umount_pci" /\ r.thing \in Devices /\ r.vm \in Vms
           /\ r.pc \in {"fix_attach", "fix_umount"} =>
                 /\ r.op = "miss_fix" /\ r.vm \in Vms
                 /\ r.todo \subseteq [thing : Disks, dev : 1 .. MaxDev]
           /\ r.pc = "fix_umount" => r.thing \in Disks
           /\ r.pc = "attach" =>
                 \/ r.op = "mount_disk" /\ r.thing \in Disks /\ r.vm \in Vms /\ r.dev \in 1 .. MaxDev
                 \/ r.op = "mount_pci" /\ r.thing \in Devices /\ r.vm \in Vms /\ r.dev = 0
                 \/ r.op = "attach_ip" /\ r.thing \in Ips /\ r.vm \in Vms /\ r.dev = 0
           /\ r.pc = "detach" =>
                 \/ r.op = "umount_disk" /\ r.thing \in Disks /\ r.vm \in Vms /\ r.dev \in 1 .. MaxDev
                 \/ r.op = "umount_pci" /\ r.thing \in Devices /\ r.vm \in Vms /\ r.dev = 0
                 \/ r.op = "detach_ip" /\ r.thing \in Ips /\ r.vm \in Vms /\ r.dev = 0
BY DEF Request, Idle

\* The row of what is mounted.
LEMMA MountRowHolders ==
    ASSUME HInv, HoldersApart, NEW w \in Workers, UNCHANGED workload, Step(w), MountRow(w)
    PROVE  HInv'
<1> DEFINE r == worker[w]
           s == worker'[w]
           t == r.thing
           v == r.vm
<1>1. TInv /\ Request(r) /\ NoVm \notin Vms /\ Disks \cap Devices = {}
  BY TypedPlaces, AttachmentAssumption, DomainAssumption DEF HInv
<1>2. r.pc = "mount_row"
  BY DEF MountRow, At
<1>3. /\ v \in Vms
      /\ \/ r.op = "mount_disk" /\ t \in Disks
         \/ r.op = "mount_pci" /\ t \in Devices /\ t \notin Disks
  <2> HIDE DEF r
  <2>1. \/ r.op = "mount_disk" /\ t \in Disks /\ v \in Vms
        \/ r.op = "mount_pci" /\ t \in Devices /\ v \in Vms
    BY <1>1, <1>2, MountPcs
  <2>2. t \in Devices => t \notin Disks
    BY <1>1
  <2>3. QED
    BY <2>1, <2>2
<1>4. Knows(workload.ops, r, vm_status[v], domain[v], place, pci)
  BY DEF HInv, KnowsInv
<1>5. UNCHANGED <<vm_status, domain>>
  BY DEF MountRow, VmsUnchanged
<1>6. \A d \in Disks : ~InHand(r, d, place)
  BY <1>2 DEF InHand
<1>7. CASE End(w) /\ UNCHANGED <<vdisk, pci>>
  BY <1>1, <1>5, <1>6, <1>7, EndKnows, QuietHolders DEF place
<1>8. CASE Goto(w, "attach")
  <2>1. s.op = r.op /\ s.vm = v /\ s.thing = t /\ s.dev = r.dev /\ s.pc = "attach"
    BY <1>1, <1>8, Gone
  <2>2. CASE t \in Disks
    <3>1. r.op = "mount_disk" /\ vdisk[t].vm = place[t].vm /\ UNCHANGED pci
      BY <1>1, <1>3, <2>2, PlaceFacts DEF MountRow
    <3>2. /\ t \notin Att(domain[v]) /\ vm_status[v] = "normal"
          /\ "unshelve" \notin workload.ops => place[t].vm # v
      BY <1>2, <1>4, <3>1 DEF Knows, KnowsDisk
    <3>3. ASSUME place'[t].vm = v, "unshelve" \notin workload.ops => place'[t].dev = r.dev
          PROVE  OwnKnows(w)
      <4>1. KnowsDisk(workload.ops, s, vm_status[v], domain[v], place')
        BY <2>1, <3>1, <3>2, <3>3 DEF KnowsDisk
      <4> HIDE DEF s
      <4>2. Knows(workload.ops, s, vm_status[v], domain[v], place', pci')
        BY <2>1, <3>1, <4>1 DEF Knows, KnowsDevice, KnowsVm, KnowsFix
      <4>3. QED
        BY <1>5, <2>1, <4>2 DEF OwnKnows, s
    <3>4. CASE vdisk[t].vm = v /\ UNCHANGED vdisk
      BY <1>5, <1>6, <3>1, <3>2, <3>3, <3>4, QuietHolders DEF place
    <3>5. CASE vdisk[t].vm # v
      <4>1. vdisk[t].vm = NoVm /\ vdisk' = [vdisk EXCEPT ![t].vm = v, ![t].dev = r.dev]
        <5>1. ~End(w)
          BY <1>1, <2>1, EndKnows DEF Idle
        <5>2. QED
          BY <2>2, <3>5, <5>1 DEF MountRow
      <4> DEFINE row == [vdisk[t] EXCEPT !.vm = v, !.dev = r.dev]
      <4>2. vdisk' = [vdisk EXCEPT ![t] = row]
        BY <1>1, <2>2, <4>1 DEF TInv, TypeOK
      <4>3. row.vm = v /\ row.dev = r.dev
        BY <1>1, <2>2 DEF TInv, TypeOK, VdiskRow
      <4>4. Place(row).vm = v /\ Place(row).dev = r.dev
        BY <1>1, <1>3, <4>3 DEF Place
      <4> HIDE DEF row
      <4>5. place' = [x \in Disks |-> IF x = t THEN Place(row) ELSE place[x]]
        BY <1>1, <2>2, <4>2, PlaceWritten
      <4>6. place'[t] = Place(row)
        BY <2>2, <4>5
      <4>7. OwnKnows(w)
        BY <3>3, <4>4, <4>6
      <4>8. InHand(s, t, place')
        BY <2>1 DEF InHand
      <4>9. place[t].vm = NoVm
        BY <3>1, <4>1
      <4>10. QED
        BY <1>3, <1>5, <1>6, <2>2, <3>1, <4>4, <4>5, <4>7, <4>8, <4>9, PlaceChanged
    <3>6. QED
      BY <2>2, <3>4, <3>5 DEF MountRow
  <2>3. CASE t \notin Disks
    <3>1. r.op = "mount_pci" /\ t \in Devices
      BY <1>3, <2>3
    <3>2. t \notin Att(domain[v])
      BY <1>4, <3>1 DEF Knows, KnowsDevice
    <3>3. UNCHANGED vdisk /\ place' = place
      BY <2>3 DEF MountRow, place
    <3>4. ASSUME pci'[t] = v
          PROVE  OwnKnows(w)
      <4>1. KnowsDevice(s, vm_status[v], domain[v], pci')
        BY <2>1, <3>1, <3>2, <3>4 DEF KnowsDevice
      <4> HIDE DEF s
      <4>2. Knows(workload.ops, s, vm_status[v], domain[v], place', pci')
        BY <2>1, <3>1, <4>1 DEF Knows, KnowsDisk, KnowsVm, KnowsFix
      <4>3. QED
        BY <1>5, <2>1, <4>2 DEF OwnKnows, s
    <3>5. CASE pci[t] = v /\ UNCHANGED pci
      BY <1>5, <1>6, <3>3, <3>4, <3>5, QuietHolders
    <3>6. CASE pci[t] # v
      <4>1. pci[t] = NoVm /\ pci' = [pci EXCEPT ![t] = v]
        <5>1. ~End(w)
          BY <1>1, <2>1, EndKnows DEF Idle
        <5>2. QED
          BY <2>3, <3>6, <5>1 DEF MountRow
      <4>2. pci'[t] = v
        BY <1>1, <3>1, <4>1 DEF TInv, TypeOK
      <4>3. OwnKnows(w)
        BY <3>4, <4>2
      <4>4. QED
        BY <1>3, <1>5, <3>1, <3>3, <4>1, <4>3, DeviceChanged
    <3>7. QED
      BY <2>3, <3>5, <3>6 DEF MountRow
  <2>4. QED
    BY <2>2, <2>3
<1>9. QED
  BY <1>7, <1>8 DEF MountRow

\* The undoing of a mount, and the end of an unmount.
LEMMA UndoHolders ==
    ASSUME HInv, HoldersApart, NEW w \in Workers, UNCHANGED workload, Step(w), UndoMount(w) \/ UmountRow(w)
    PROVE  HInv'
<1> DEFINE r == worker[w]
           t == r.thing
           v == r.vm
<1>1. TInv /\ Request(r) /\ NoVm \notin Vms /\ Disks \cap Devices = {} /\ r \in WorkerState
  BY TypedPlaces, AttachmentAssumption, DomainAssumption DEF HInv
<1>2. r.pc \in {"undo_mount", "umount_row"}
  BY DEF UndoMount, UmountRow, At
<1>3. /\ v \in Vms
      /\ \/ r.op \in {"mount_disk", "umount_disk"} /\ t \in Disks
         \/ r.op \in {"mount_pci", "umount_pci"} /\ t \in Devices /\ t \notin Disks
  BY <1>1, <1>2, MountPcs
<1>4. Knows(workload.ops, r, vm_status[v], domain[v], place, pci)
  BY DEF HInv, KnowsInv
<1>5. UNCHANGED vm_status /\ End(w)
  BY DEF UndoMount, UmountRow, VmsUnchanged
<1>6. worker'[w] = Idle /\ OwnKnows(w)
  BY <1>1, <1>5, EndKnows
<1>7. t \notin Att(domain[v])
  BY <1>1, <1>2, <1>4, MountPcs DEF Knows, KnowsDisk, KnowsDevice
<1>8. \A x \in Disks \ {t} : ~InHand(r, x, place)
  BY <1>2 DEF InHand
<1>9. \/ UnmountRow(t) /\ UNCHANGED domain
      \/ /\ r.op = "umount_disk" /\ t \in Disks /\ vdisk[t].state = "none" /\ UNCHANGED <<vdisk, pci>>
         /\ \E c \in AttachResults(v, SlotOf(w)) : domain' = [domain EXCEPT ![v] = c.domain]
  BY <1>1, MountPcs DEF UndoMount, VmsUnchanged, UmountRow, At
<1>10. CASE t \in Disks /\ place[t].vm = NoVm
  <2>1. r.op = "umount_disk" /\ vm_status[v] = "none"
    BY <1>1, <1>2, <1>3, <1>4, <1>10 DEF Knows, KnowsDisk, Request, Idle
  <2>2. domain[v] = NoDomain
    BY <1>3, <2>1 DEF HInv, DomainsInv, DomainSound
  <2>3. UNCHANGED domain
    <3>1. ASSUME NEW c \in AttachResults(v, SlotOf(w)), domain' = [domain EXCEPT ![v] = c.domain]
          PROVE  UNCHANGED domain
      <4>1. c.domain = domain[v]
        BY <2>2 DEF AttachResults, NoDomain, Result
      <4>2. QED
        BY <1>1, <3>1, <4>1 DEF TInv, TypeOK
    <3>2. QED
      BY <1>9, <3>1
  <2>4. place' = place /\ UNCHANGED pci
    <3>1. CASE UnmountRow(t)
      BY <1>1, <1>10, <3>1, RowCleared, PlaceFacts DEF place
    <3>2. CASE UNCHANGED <<vdisk, pci>>
      BY <3>2 DEF place
    <3>3. QED
      BY <1>9, <3>1, <3>2
  <2>5. ASSUME NEW d \in Disks
        PROVE  Recorded(workload.ops, d, domain', place', worker')
    <3>1. CASE d = t
      BY <1>10, <2>4, <3>1 DEF Recorded
    <3>2. CASE d # t
      BY <1>1, <1>8, <2>3, <2>4, <3>2, OneWorker DEF HInv, RecordedInv, Recorded
    <3>3. QED
      BY <3>1, <3>2
  <2>6. RecordedInv'
    BY <2>5 DEF RecordedInv
  <2>7. DomainsInv' /\ HoldsInv' /\ OthersKnow(w)
    BY <1>5, <2>3, <2>4 DEF HInv, DomainsInv, HoldsInv, KnowsInv, OthersKnow
  <2>8. QED
    BY <1>6, <2>6, <2>7, HoldersKept
<1>11. CASE t \in Disks /\ place[t].vm # NoVm
  <2>1. place[t].vm = v
    BY <1>1, <1>2, <1>3, <1>4, <1>11, MountPcs DEF Knows, KnowsDisk
  <2>2. vdisk[t].state # "none"
    BY <1>1, <1>11, PlaceFacts DEF TInv, RowsInv, DiskRowSound, NoRow
  <2>3. /\ place' = [x \in Disks |-> IF x = t THEN Nowhere ELSE place[x]]
        /\ UNCHANGED <<pci, domain>>
    BY <1>1, <1>9, <1>11, <2>2, RowCleared
  <2>4. QED
    BY <1>3, <1>5, <1>6, <1>7, <1>8, <1>11, <2>1, <2>3, PlaceChanged
<1>12. CASE t \notin Disks
  <2>1. r.op \in {"mount_pci", "umount_pci"} /\ t \in Devices
    BY <1>3, <1>12
  <2>2. UnmountRow(t) /\ UNCHANGED domain
    BY <1>9, <1>12
  <2>3. UNCHANGED vdisk /\ pci' = [pci EXCEPT ![t] = NoVm]
    BY <1>12, <2>2 DEF UnmountRow
  <2>4. CASE pci[t] = v
    BY <1>3, <1>5, <1>6, <1>7, <2>1, <2>2, <2>3, <2>4, DeviceChanged
  <2>5. CASE pci[t] # v
    <3>1. pci[t] = NoVm
      BY <1>1, <1>2, <1>4, <2>1, <2>5, MountPcs DEF Knows, KnowsDevice
    <3>2. UNCHANGED pci /\ place' = place
      BY <1>1, <2>1, <2>3, <3>1 DEF TInv, TypeOK, place
    <3>3. \A d \in Disks : ~InHand(r, d, place)
      BY <1>8, <1>12
    <3>4. QED
      BY <1>5, <1>6, <2>2, <3>2, <3>3, QuietHolders
  <2>6. QED
    BY <2>4, <2>5
<1>13. QED
  BY <1>10, <1>11, <1>12

\* A disk that miss_fix could not attach is unmounted.
LEMMA FixUmountHolders ==
    ASSUME HInv, HoldersApart, NEW w \in Workers, UNCHANGED workload, Step(w), FixUmount(w)
    PROVE  HInv'
<1> DEFINE r == worker[w]
           s == worker'[w]
           t == r.thing
           v == r.vm
<1>1. TInv /\ Request(r) /\ NoVm \notin Vms /\ Disks \cap Devices = {}
  BY TypedPlaces, AttachmentAssumption, DomainAssumption DEF HInv
<1>2. r.pc = "fix_umount"
  BY DEF FixUmount, At
<1>3. /\ v \in Vms /\ r.op = "miss_fix" /\ t \in Disks
      /\ r.todo \subseteq [thing : Disks, dev : 1 .. MaxDev]
  BY <1>1, <1>2, MountPcs
<1>4. KnowsFix(r, domain[v], place) /\ KnowsVm(workload.ops, r, vm_status[v], domain[v])
  BY DEF HInv, KnowsInv, Knows
<1>5. /\ \A c \in r.todo : c = Slot(c.thing, place) /\ place[c.thing].vm = v
                           /\ c.thing \notin Att(domain[v]) /\ c.thing # t /\ c.thing \in Disks
      /\ t \notin Att(domain[v]) /\ place[t].vm = v
  BY <1>2, <1>3, <1>4 DEF KnowsFix
<1>6. /\ UNCHANGED <<vm_status, domain>>
      /\ s.op = r.op /\ s.vm = v /\ s.todo = r.todo /\ s.pc = "fix_attach"
  BY <1>1, Gone DEF FixUmount, VmsUnchanged
<1>7. UNCHANGED pci /\ place' = [x \in Disks |-> IF x = t THEN Nowhere ELSE place[x]]
  BY <1>1, <1>3, RowCleared DEF FixUmount
<1>8. KnowsFix(s, domain[v], place')
  BY <1>5, <1>6, <1>7 DEF KnowsFix, Slot
<1>9. KnowsVm(workload.ops, s, vm_status[v], domain[v])
  BY <1>3, <1>4, <1>6 DEF KnowsVm
<1>10. OwnKnows(w)
  BY <1>3, <1>6, <1>8, <1>9 DEF KnowsDisk, KnowsDevice, OwnKnows, Knows
<1>11. ASSUME NEW x \in Disks \ {t}, InHand(r, x, place)
       PROVE  InHand(s, x, place')
  BY <1>6, <1>7, <1>11 DEF InHand, Slot
<1>12. QED
  BY <1>3, <1>5, <1>6, <1>7, <1>10, <1>11, PlaceChanged

-----------------------------------------------------------------------------
(* Steps that make a machine lose what it has.                             *)

\* A machine that is switched, lost or undefined.
LEMMA MachineShrinks ==
    ASSUME HInv, HoldersApart, NEW w \in Workers, UNCHANGED <<workload, vm_status, pci, vdisk>>, Step(w),
           NEW v \in Vms, NEW e, domain' = [domain EXCEPT ![v] = e],
           \/ e = NoDomain
           \/ e = power_off_domain(domain[v])
           \/ e = start(domain[v]) /\ domain[v].defined,
           \A d \in Disks : ~InHand(worker[w], d, place), OwnKnows(w)
    PROVE  HInv'
<1>1. TInv /\ place' = place /\ \A x \in Workers \ {w} : worker'[x] = worker[x]
  BY OneWorker DEF HInv, place
<1>2. /\ domain[v] \in DomainState /\ DomainSound(workload.ops, domain[v], vm_status[v])
      /\ Holds(v, domain[v], place, pci)
  BY <1>1 DEF HInv, DomainsInv, HoldsInv, TInv, TypeOK
<1>3. /\ DomainSound(workload.ops, e, vm_status[v]) /\ Att(e) \subseteq Att(domain[v])
      /\ domain[v] = NoDomain => e = NoDomain
      /\ e.defined => e.config = domain[v].config /\ domain[v].defined
  BY <1>2, NewDomainSound, PowerSound
<1>4. Holds(v, e, place, pci)
  BY <1>2, <1>3 DEF Holds
<1>5. ASSUME NEW x \in Workers \ {w}, worker[x].vm = v
      PROVE  Knows(workload.ops, worker[x], vm_status[v], e, place, pci)
  BY <1>3, <1>5, OtherShrinks DEF HInv, KnowsInv
<1>6. UNCHANGED <<workload, vm_status, pci>>
  OBVIOUS
<1>7. DomainsInv' /\ HoldsInv' /\ OthersKnow(w)
  BY <1>1, <1>3, <1>4, <1>5, <1>6, DomainChanged
<1>8. \A u \in Vms : domain'[u] = IF u = v THEN e ELSE domain[u]
  BY <1>1 DEF TInv, TypeOK
<1>9. ASSUME NEW d \in Disks, place'[d].vm # NoVm, domain'[place'[d].vm].defined
      PROVE  /\ place'[d] = place[d] /\ domain[place[d].vm].defined /\ ~InHand(worker[w], d, place)
             /\ Slot(d, place) \in domain[place[d].vm].config
                   => Slot(d, place) \in domain'[place[d].vm].config
  BY <1>1, <1>3, <1>8, <1>9, PlaceFacts
<1>10. RecordedInv'
  BY <1>1, <1>9, RecordedKept
<1>11. QED
  BY <1>7, <1>10, HoldersKept

\* The power of a machine, and its loss.
LEMMA PowerHolders ==
    ASSUME HInv, HoldersApart, NEW w \in Workers, UNCHANGED workload, Step(w), NEW v \in Vms,
           PowerOn(w, v) \/ PowerOff(w, v) \/ Lose(w, v) \/ DeleteVm(w, v)
    PROVE  HInv'
<1>1. TInv /\ Request(worker[w])
  BY TypedPlaces DEF HInv
<1>2. /\ At(w, "idle") /\ UNCHANGED <<vm_status, pci, vdisk>>
      /\ \E e : /\ domain' = [domain EXCEPT ![v] = e]
                /\ \/ e = NoDomain
                   \/ e = power_off_domain(domain[v])
                   \/ e = start(domain[v]) /\ domain[v].defined
  <2>1. domain[v] = domain[v]
    OBVIOUS
  <2>2. CASE PowerOn(w, v)
    BY <2>2 DEF PowerOn, MayStart, RowsUnchanged
  <2>3. CASE PowerOff(w, v)
    BY <2>3 DEF PowerOff, MayStart, RowsUnchanged
  <2>4. CASE Lose(w, v)
    BY <2>4 DEF Lose, MayStart, RowsUnchanged
  <2>5. CASE DeleteVm(w, v)
    BY <2>5 DEF DeleteVm, MayStart, RowsUnchanged
  <2>6. QED
    BY <2>2, <2>3, <2>4, <2>5
<1>3. worker[w].pc = "idle" /\ worker[w] = Idle
  BY <1>1, <1>2 DEF At, Request, Idle
<1>4. worker'[w] = worker[w]
      \/ (worker'[w].op = "delete_vm" /\ worker'[w].pc = "att_check")
  BY <1>1, Begun DEF PowerOn, PowerOff, Lose, DeleteVm
<1>5. Request(worker'[w])
  BY <1>1, NextTypes DEF Step, Next, TInv, RequestsInv
<1>6. OwnKnows(w)
  <2> DEFINE s == worker'[w]
  <2>1. s.op = "none" \/ (s.op = "delete_vm" /\ s.pc = "att_check")
    BY <1>3, <1>4 DEF Idle
  <2>2. Request(s)
    BY <1>5
  <2> HIDE DEF s
  <2>3. Knows(workload.ops, s, vm_status'[s.vm], domain'[s.vm], place', pci')
    BY <2>1, <2>2, KnowsNothing
  <2>4. QED
    BY <2>3 DEF s, OwnKnows
<1>7. \A d \in Disks : ~InHand(worker[w], d, place)
  BY <1>3 DEF InHand
<1>8. PICK e : /\ domain' = [domain EXCEPT ![v] = e]
               /\ \/ e = NoDomain
                  \/ e = power_off_domain(domain[v])
                  \/ e = start(domain[v]) /\ domain[v].defined
  BY <1>2
<1>9. QED
  BY <1>2, <1>6, <1>7, <1>8, MachineShrinks

\* The vm is undefined before it is deleted or shelved.
LEMMA UndefineHolders ==
    ASSUME HInv, HoldersApart, NEW w \in Workers, UNCHANGED workload, Step(w), Undefine(w)
    PROVE  HInv'
<1> DEFINE r == worker[w]
           s == worker'[w]
           v == r.vm
<1>1. TInv /\ Request(r) /\ domain \in [Vms -> DomainState]
  BY TypedPlaces DEF HInv
<1>2. r.pc = "undefine" /\ UNCHANGED <<vm_status, pci, vdisk>>
  BY DEF Undefine, At, RowsUnchanged
<1>3. v \in Vms /\ r.op \in {"delete_vm", "shelve"}
  BY <1>1, <1>2 DEF Request, Idle
<1>4. \A d \in Disks : ~InHand(r, d, place)
  BY <1>2 DEF InHand
<1>5. CASE End(w) /\ domain' = [domain EXCEPT ![v] = power_off_domain(@)]
  BY <1>1, <1>2, <1>3, <1>4, <1>5, EndKnows, MachineShrinks
<1>6. CASE /\ domain' = [domain EXCEPT ![v] = NoDomain]
           /\ Goto(w, IF r.op = "shelve" THEN "shelve_save" ELSE "vm_rowdel")
  <2>1. /\ s.op = r.op /\ s.vm = v /\ domain'[s.vm] = NoDomain
        /\ s.pc \in {"shelve_save", "vm_rowdel"}
    BY <1>1, <1>3, <1>6, Gone
  <2> HIDE DEF s, r, v
  <2>2. Knows(workload.ops, s, vm_status'[s.vm], domain'[s.vm], place', pci')
    BY <1>3, <2>1 DEF Knows, KnowsDisk, KnowsDevice, KnowsVm, KnowsFix
  <2>3. OwnKnows(w)
    BY <2>2 DEF OwnKnows, s
  <2>4. QED
    BY <1>2, <1>3, <1>4, <1>6, <2>3, MachineShrinks DEF r, v
<1>7. QED
  BY <1>5, <1>6 DEF Undefine

-----------------------------------------------------------------------------
(* Steps that attach.                                                      *)

\* With what is plugged a device of the description, or nothing, is changed.
LEMMA AttachResult ==
    ASSUME TInv, HoldersApart, NEW v \in Vms, NEW a \in Slots, NEW c \in AttachResults(v, a)
    PROVE  \/ /\ c.ok /\ c.domain = Plugged(domain[v], a) /\ domain[v].defined
              /\ Fits(domain[v].config, a) /\ (domain[v].running => Fits(domain[v].live, a))
           \/ ~c.ok /\ c.domain = domain[v]
<1>1. domain[v] \in DomainState /\ ~MayFail("detach_live")
  BY DEF TInv, TypeOK, HoldersApart
<1>2. CASE domain[v].defined
  BY <1>1, <1>2, AttachCases DEF AttachResults
<1>3. CASE ~domain[v].defined
  BY <1>3 DEF AttachResults, Result
<1>4. QED
  BY <1>2, <1>3

\* A machine gets what is recorded for it.
LEMMA MachinePlugs ==
    ASSUME HInv, HoldersApart, NEW w \in Workers, UNCHANGED <<workload, vm_status, pci, vdisk>>, Step(w),
           NEW v \in Vms, worker[w].vm = v, NEW a \in Slots,
           domain' = [domain EXCEPT ![v] = Plugged(domain[v], a)],
           domain[v].defined, Fits(domain[v].config, a), domain[v].running => Fits(domain[v].live, a),
           a.thing \in Disks =>
              /\ \/ worker[w].op \in {"unshelve", "miss_fix"}
                 \/ worker[w].op = "mount_disk" /\ worker[w].thing = a.thing
              /\ place[a.thing].vm = v,
           a.thing \in Devices =>
              worker[w].op = "mount_pci" /\ worker[w].thing = a.thing /\ pci[a.thing] = v,
           \A d \in Disks : "unshelve" \notin workload.ops /\ InHand(worker[w], d, place) =>
              Slot(d, place) = a \/ InHand(worker'[w], d, place),
           OwnKnows(w)
    PROVE  HInv'
<1> DEFINE e == Plugged(domain[v], a)
           q == worker[w]
           t == a.thing
<1>1. TInv /\ MeetInv /\ place' = place /\ \A x \in Workers \ {w} : worker'[x] = worker[x]
  BY OneWorker DEF HInv, place
<1>2. /\ domain[v] \in DomainState /\ DomainSound(workload.ops, domain[v], vm_status[v])
      /\ Holds(v, domain[v], place, pci)
  BY <1>1 DEF HInv, DomainsInv, HoldsInv, TInv, TypeOK
<1>3. /\ DomainSound(workload.ops, e, vm_status[v]) /\ Att(e) = Att(domain[v]) \cup {t}
      /\ e.config = domain[v].config \cup {a} /\ e.defined
  BY <1>2, PluggedSound
<1>4. domain' = [domain EXCEPT ![v] = e] /\ t \in Things /\ domain[v] # NoDomain
  BY DEF Slots, Things, NoDomain
<1> HIDE DEF e
<1>5. Holds(v, e, place, pci)
  BY <1>2, <1>3 DEF Holds
<1>6. ASSUME NEW x \in Workers \ {w}, worker[x].vm = v
      PROVE  Knows(workload.ops, worker[x], vm_status[v], e, place, pci)
  <2> DEFINE r == worker[x]
             d == domain[v]
  <2>1. Knows(workload.ops, r, vm_status[v], d, place, pci) /\ Request(r)
    BY <1>1, <1>6 DEF HInv, KnowsInv, TInv, RequestsInv
  <2>2. Share(q, r) => Apart(workload.ops, q, r)
    BY <1>1, OthersApart
  <2>3. q.vm \in Vms /\ r.vm = q.vm
    BY <1>6
  <2>4. Att(e) \subseteq Att(d) \cup {t} /\ d # NoDomain
    BY <1>3, <1>4
  <2>5. /\ t \in Disks => q.op \in {"unshelve", "miss_fix"} \/ (q.op = "mount_disk" /\ q.thing = t)
        /\ t \in Devices => q.op \in {"mount_pci", "umount_pci"} /\ q.thing = t
    OBVIOUS
  <2> HIDE DEF q, t, r, d
  <2>6. Knows(workload.ops, r, vm_status[v], e, place, pci)
    BY <1>4, <2>1, <2>2, <2>3, <2>4, <2>5, OtherPlug
  <2>7. QED
    BY <2>6 DEF r
<1>7. UNCHANGED <<workload, vm_status, pci>>
  OBVIOUS
<1>8. DomainsInv' /\ HoldsInv' /\ OthersKnow(w)
  BY <1>1, <1>3, <1>4, <1>5, <1>6, <1>7, DomainChanged
<1>9. \A u \in Vms : domain'[u] = IF u = v THEN e ELSE domain[u]
  BY <1>1, <1>4 DEF TInv, TypeOK
<1>10. ASSUME NEW d \in Disks, "unshelve" \notin workload.ops, place'[d].vm # NoVm,
              domain'[place'[d].vm].defined
       PROVE  \/ Slot(d, place') \in domain'[place'[d].vm].config
              \/ InHand(worker'[w], d, place')
              \/ /\ place'[d] = place[d] /\ domain[place[d].vm].defined /\ ~InHand(worker[w], d, place)
                 /\ Slot(d, place) \in domain[place[d].vm].config
                       => Slot(d, place) \in domain'[place[d].vm].config
  <2>1. place[d].vm \in Vms
    BY <1>1, <1>10, PlaceFacts
  <2>2. CASE InHand(worker[w], d, place) /\ Slot(d, place) = a
    BY <1>1, <1>3, <1>9, <2>2 DEF Slot
  <2>3. CASE InHand(worker[w], d, place) /\ Slot(d, place) # a
    BY <1>1, <1>10, <2>3
  <2>4. CASE ~InHand(worker[w], d, place)
    BY <1>1, <1>3, <1>9, <1>10, <2>1, <2>4
  <2>5. QED
    BY <2>2, <2>3, <2>4
<1>11. RecordedInv'
  BY <1>1, <1>10, RecordedKept
<1>12. QED
  BY <1>8, <1>11, HoldersKept

\* A disk, a device or an address is attached.
LEMMA AttachHolders ==
    ASSUME HInv, HoldersApart, NEW w \in Workers, UNCHANGED workload, Step(w), Attach(w)
    PROVE  HInv'
<1> DEFINE r == worker[w]
           s == worker'[w]
           t == r.thing
           v == r.vm
           a == SlotOf(w)
<1>1. /\ TInv /\ TInv' /\ Request(r) /\ Request(s) /\ place' = place
      /\ Disks \cap Devices = {} /\ Disks \cap Ips = {} /\ Devices \cap Ips = {} /\ Nics = Ips
  <2>1. TInv /\ Next
    BY DEF Step, Next, HInv
  <2>2. TInv'
    BY <2>1, NextTypes
  <2>3. place' = place
    BY DEF Attach, RowsUnchanged, place
  <2>4. Request(r) /\ Request(s)
    BY <2>1, <2>2 DEF TInv, RequestsInv
  <2>5. QED
    BY <2>1, <2>2, <2>3, <2>4, AttachmentAssumption, DomainAssumption
<1>2. r.pc = "attach" /\ UNCHANGED <<vm_status, pci, vdisk>>
  BY DEF Attach, At, RowsUnchanged
<1>3. /\ v \in Vms
      /\ \/ r.op = "mount_disk" /\ t \in Disks /\ r.dev \in 1 .. MaxDev
         \/ r.op = "mount_pci" /\ t \in Devices /\ r.dev = 0
         \/ r.op = "attach_ip" /\ t \in Ips /\ r.dev = 0
  BY <1>1, <1>2, MountPcs
<1>4. Knows(workload.ops, r, vm_status[v], domain[v], place, pci)
  BY DEF HInv, KnowsInv
<1>5. a.thing = t /\ a.dev = r.dev /\ a = [thing |-> t, dev |-> r.dev] /\ a \in Slots
  BY <1>1, <1>3 DEF SlotOf, Slots
<1>6. PICK c \in AttachResults(v, a) :
         /\ domain' = [domain EXCEPT ![v] = c.domain]
         /\ IF c.ok THEN End(w) ELSE Goto(w, UndoOf(w))
  BY DEF Attach
<1>7. CASE ~c.ok
  <2>1. c.domain = domain[v]
    BY <1>1, <1>3, <1>5, <1>7, AttachResult
  <2>2. UNCHANGED domain
    BY <1>1, <1>6, <2>1 DEF TInv, TypeOK
  <2>3. /\ s.op = r.op /\ s.vm = v /\ s.thing = t /\ s.dev = r.dev
        /\ s.pc = IF r.op = "attach_ip" THEN "free_ip" ELSE "undo_mount"
    BY <1>1, <1>6, <1>7, Gone DEF UndoOf
  <2>4. OwnKnows(w)
    <3>1. CASE r.op = "attach_ip"
      <4> HIDE DEF s, r
      <4>1. Knows(workload.ops, s, vm_status'[s.vm], domain'[s.vm], place', pci')
        BY <1>1, <2>3, <3>1, KnowsNothing
      <4>2. QED
        BY <4>1 DEF OwnKnows, s
    <3>2. CASE r.op \in {"mount_disk", "mount_pci"}
      BY <1>1, <1>2, <1>4, <2>2, <2>3, <3>2 DEF Knows, KnowsDisk, KnowsDevice, KnowsVm, KnowsFix, OwnKnows
    <3>3. QED
      BY <1>3, <3>1, <3>2
  <2>5. \A d \in Disks : InHand(r, d, place) => InHand(s, d, place)
    BY <1>1, <1>2, <1>3, <2>3 DEF InHand
  <2>6. QED
    BY <1>1, <1>2, <2>2, <2>4, <2>5, QuietHolders
<1>8. CASE c.ok
  <2>1. /\ c.domain = Plugged(domain[v], a) /\ domain[v].defined
        /\ Fits(domain[v].config, a) /\ (domain[v].running => Fits(domain[v].live, a))
    BY <1>1, <1>3, <1>5, <1>8, AttachResult
  <2>2. OwnKnows(w)
    BY <1>1, <1>6, <1>8, EndKnows
  <2>3. domain' = [domain EXCEPT ![v] = Plugged(domain[v], a)]
    BY <1>6, <2>1
  <2>4. a.thing \in Disks =>
           /\ r.op = "mount_disk" /\ r.thing = a.thing /\ place[a.thing].vm = v
           /\ "unshelve" \notin workload.ops => place[a.thing].dev = r.dev
    BY <1>1, <1>2, <1>3, <1>4, <1>5 DEF Knows, KnowsDisk
  <2>5. a.thing \in Devices => r.op = "mount_pci" /\ r.thing = a.thing /\ pci[a.thing] = v
    BY <1>1, <1>2, <1>3, <1>4, <1>5 DEF Knows, KnowsDevice
  <2>6. ASSUME NEW d \in Disks, "unshelve" \notin workload.ops, InHand(r, d, place)
        PROVE  Slot(d, place) = a
    BY <1>2, <1>5, <2>4, <2>6 DEF InHand, Slot
  <2> HIDE DEF a
  <2>7. QED
    BY <1>2, <1>3, <1>5, <2>1, <2>2, <2>3, <2>4, <2>5, <2>6, MachinePlugs
<1>9. QED
  BY <1>7, <1>8

\* A machine that was shelved gets one of its disks back.
LEMMA MountVdisksHolders ==
    ASSUME HInv, HoldersApart, NEW w \in Workers, UNCHANGED workload, Step(w), MountVdisks(w)
    PROVE  HInv'
<1> DEFINE r == worker[w]
           v == r.vm
<1>1. TInv /\ MeetInv /\ Request(r) /\ place' = place /\ NoVm \notin Vms
      /\ Disks \cap Devices = {}
  BY TypedPlaces, AttachmentAssumption, DomainAssumption
     DEF HInv, place, MountVdisks, RowsUnchanged
<1>2. r.pc = "mount_vdisks" /\ UNCHANGED <<vm_status, pci, vdisk>> /\ End(w)
  BY DEF MountVdisks, At, RowsUnchanged
<1>3. v \in Vms /\ r.op = "unshelve"
  BY <1>1, <1>2 DEF Request, Idle
<1>4. OwnKnows(w) /\ \A d \in Disks : ~InHand(r, d, place)
  BY <1>1, <1>2, EndKnows DEF InHand
<1>5. CASE UNCHANGED domain
  BY <1>1, <1>2, <1>4, <1>5, QuietHolders
<1>6. ASSUME NEW d \in MountedOn(v),
             NEW c \in AttachResults(v, [thing |-> d, dev |-> vdisk[d].dev]),
             domain' = [domain EXCEPT ![v] = c.domain]
      PROVE  HInv'
  <2> DEFINE a == [thing |-> d, dev |-> vdisk[d].dev]
  <2>1. d \in Disks /\ vdisk[d].vm = v
    BY DEF MountedOn
  <2>2. place[d].vm = v /\ vdisk[d].dev \in 1 .. MaxDev
    BY <1>1, <1>3, <2>1, PlaceFacts
  <2>3. a \in Slots /\ a.thing = d
    BY <2>1, <2>2 DEF Slots
  <2> HIDE DEF a
  <2>4. CASE ~c.ok
    BY <1>1, <1>3, <1>5, <1>6, <2>3, <2>4, AttachResult DEF a, TInv, TypeOK
  <2>5. CASE c.ok
    <3>1. /\ c.domain = Plugged(domain[v], a) /\ domain[v].defined
          /\ Fits(domain[v].config, a) /\ (domain[v].running => Fits(domain[v].live, a))
      BY <1>1, <1>3, <1>6, <2>3, <2>5, AttachResult DEF a
    <3>2. domain' = [domain EXCEPT ![v] = Plugged(domain[v], a)]
      BY <1>6, <3>1
    <3>3. a.thing \notin Devices /\ place[a.thing].vm = v
      BY <1>1, <2>1, <2>2, <2>3
    <3>4. QED
      BY <1>2, <1>3, <1>4, <2>3, <3>1, <3>2, <3>3, MachinePlugs
  <2>6. QED
    BY <2>4, <2>5
<1>7. QED
  BY <1>5, <1>6 DEF MountVdisks

\* A turn of the loop of miss_fix: the disk is attached, or next unmounted.
LEMMA FixAttachHolders ==
    ASSUME HInv, HoldersApart, NEW w \in Workers, UNCHANGED workload, Step(w), FixAttach(w)
    PROVE  HInv'
<1> DEFINE r == worker[w]
           s == worker'[w]
           v == r.vm
<1>1. TInv /\ Request(r) /\ place' = place /\ r \in WorkerState /\ worker \in [Workers -> WorkerState]
      /\ Disks \cap Devices = {}
  BY TypedPlaces, DomainAssumption DEF HInv, place, FixAttach, RowsUnchanged
<1>2. r.pc = "fix_attach" /\ UNCHANGED <<vm_status, pci, vdisk>>
  BY DEF FixAttach, At, RowsUnchanged
<1>3. v \in Vms /\ r.op = "miss_fix" /\ r.todo \subseteq [thing : Disks, dev : 1 .. MaxDev]
  BY <1>1, <1>2, MountPcs
<1>4. KnowsFix(r, domain[v], place) /\ KnowsVm(workload.ops, r, vm_status[v], domain[v])
  BY DEF HInv, KnowsInv, Knows
<1>5. \A b \in r.todo : /\ b = Slot(b.thing, place) /\ place[b.thing].vm = v
                        /\ b.thing \notin Att(domain[v]) /\ b.thing \in Disks
  BY <1>2, <1>3, <1>4 DEF KnowsFix
<1>6. CASE r.todo = {} /\ End(w) /\ UNCHANGED domain
  BY <1>1, <1>2, <1>6, EndKnows, QuietHolders DEF InHand
<1>7. ASSUME NEW a \in r.todo, NEW c \in AttachResults(v, a),
             domain' = [domain EXCEPT ![v] = c.domain],
             worker' = [worker EXCEPT ![w].todo = @ \ {a}, ![w].thing = a.thing,
                                      ![w].pc = IF c.ok THEN @ ELSE "fix_umount"]
      PROVE  HInv'
  <2>1. /\ s.op = r.op /\ s.vm = v /\ s.thing = a.thing /\ s.todo = r.todo \ {a}
        /\ s.pc = IF c.ok THEN "fix_attach" ELSE "fix_umount"
    BY <1>1, <1>2, <1>7 DEF WorkerState
  <2>2. a \in Slots /\ a = Slot(a.thing, place) /\ place[a.thing].vm = v /\ a.thing \in Disks
    BY <1>3, <1>5 DEF Slots
  <2>3. \A b \in r.todo \ {a} : b.thing # a.thing
    BY <1>5, <2>2
  <2>4. KnowsVm(workload.ops, s, vm_status[v], domain'[v])
    BY <1>3, <1>4, <2>1 DEF KnowsVm
  <2>5. ASSUME KnowsFix(s, domain'[v], place)
        PROVE  OwnKnows(w)
    BY <1>1, <1>2, <1>3, <2>1, <2>4, <2>5 DEF KnowsDisk, KnowsDevice, OwnKnows, Knows
  <2>6. CASE ~c.ok
    <3>1. c.domain = domain[v]
      BY <1>1, <1>3, <2>2, <2>6, AttachResult
    <3>2. UNCHANGED domain
      BY <1>1, <1>7, <3>1 DEF TInv, TypeOK
    <3>3. KnowsFix(s, domain[v], place)
      BY <1>5, <2>1, <2>2, <2>3, <2>6 DEF KnowsFix
    <3>4. ASSUME NEW d \in Disks, InHand(r, d, place)
          PROVE  InHand(s, d, place)
      BY <1>2, <2>1, <2>6, <3>4 DEF InHand, Slot
    <3>5. QED
      BY <1>1, <1>2, <2>5, <3>2, <3>3, <3>4, QuietHolders
  <2>7. CASE c.ok
    <3>1. /\ c.domain = Plugged(domain[v], a) /\ domain[v].defined
          /\ Fits(domain[v].config, a) /\ (domain[v].running => Fits(domain[v].live, a))
      BY <1>1, <1>3, <2>2, <2>7, AttachResult
    <3>2. domain' = [domain EXCEPT ![v] = Plugged(domain[v], a)]
      BY <1>7, <3>1
    <3>3. domain'[v] = Plugged(domain[v], a) /\ domain[v] \in DomainState
      BY <1>1, <1>3, <3>2 DEF TInv, TypeOK
    <3>4. Att(domain'[v]) = Att(domain[v]) \cup {a.thing}
      BY <1>3, <2>2, <3>1, <3>3, PluggedSound DEF HInv, DomainsInv
    <3>5. KnowsFix(s, domain'[v], place)
      BY <1>5, <2>1, <2>2, <2>3, <2>7, <3>4 DEF KnowsFix
    <3>6. OwnKnows(w)
      BY <2>5, <3>5
    <3>7. ASSUME NEW d \in Disks, InHand(r, d, place)
          PROVE  Slot(d, place) = a \/ InHand(s, d, place)
      BY <1>2, <2>1, <2>7, <3>7 DEF InHand
    <3>8. a.thing \notin Devices
      BY <1>1, <2>2
    <3>9. QED
      BY <1>2, <1>3, <2>2, <3>1, <3>2, <3>6, <3>7, <3>8, MachinePlugs
  <2>8. QED
    BY <2>6, <2>7
<1>8. QED
  BY <1>6, <1>7 DEF FixAttach

-----------------------------------------------------------------------------
(* Steps that detach.                                                      *)

\* A disk that is to be detached is in the description, under the name of its
\* row: nobody else has it in hand.
LEMMA DetachedDisk ==
    ASSUME HInv, HoldersApart, NEW w \in Workers, worker[w].op = "umount_disk", worker[w].pc = "detach",
           domain[worker[w].vm].defined
    PROVE  /\ SlotOf(w) = Slot(worker[w].thing, place)
           /\ SlotOf(w) \in domain[worker[w].vm].config
           /\ place[worker[w].thing].vm = worker[w].vm
<1> DEFINE r == worker[w]
           t == r.thing
           v == r.vm
<1>1. TInv /\ MeetInv /\ Request(r) /\ NoVm \notin Vms /\ NoThing \notin Disks
  BY TypedPlaces, AttachmentAssumption DEF HInv, Things
<1>2. v \in Vms /\ t \in Disks
  BY <1>1, MountPcs
<1>3. Knows(workload.ops, r, vm_status[v], domain[v], place, pci)
  BY DEF HInv, KnowsInv
<1>4. place[t] = [vm |-> v, dev |-> r.dev]
  BY <1>2, <1>3 DEF HInv, DomainsInv, DomainSound, NoDomain, Knows, KnowsDisk
<1>5. SlotOf(w) = Slot(t, place)
  BY <1>4 DEF SlotOf, Slot
<1>6. "unshelve" \notin workload.ops
  BY <1>1 DEF MeetInv, TInv, TypeOK, HoldersApart
<1>7. ASSUME NEW x \in Workers, InHand(worker[x], t, place)
      PROVE  FALSE
  BY <1>1, <1>2, <1>4, <1>7, InHandOf, OthersApart DEF InHand, Share, Apart, Excludes, NeverAgain
<1>8. Recorded(workload.ops, t, domain, place, worker)
  BY <1>2 DEF HInv, RecordedInv
<1>9. Slot(t, place) \in domain[v].config
  BY <1>1, <1>2, <1>4, <1>6, <1>7, <1>8 DEF Recorded
<1>10. QED
  BY <1>4, <1>5, <1>9

\* A disk, a device or an address is detached.
LEMMA DetachHolders ==
    ASSUME HInv, HoldersApart, NEW w \in Workers, UNCHANGED workload, Step(w), Detach(w)
    PROVE  HInv'
<1> DEFINE r == worker[w]
           s == worker'[w]
           t == r.thing
           v == r.vm
           a == SlotOf(w)
<1>1. /\ TInv /\ MeetInv /\ Request(r) /\ Request(s) /\ place' = place
      /\ Disks \cap Devices = {} /\ Disks \cap Ips = {} /\ Devices \cap Ips = {} /\ Nics = Ips
      /\ NoVm \notin Vms
  <2>1. TInv /\ MeetInv /\ Next
    BY DEF Step, Next, HInv
  <2>2. TInv'
    BY <2>1, NextTypes
  <2>3. place' = place
    BY DEF Detach, RowsUnchanged, place
  <2>4. Request(r) /\ Request(s)
    BY <2>1, <2>2 DEF TInv, RequestsInv
  <2>5. QED
    BY <2>1, <2>3, <2>4, AttachmentAssumption, DomainAssumption
<1>2. r.pc = "detach" /\ UNCHANGED <<vm_status, pci, vdisk>>
  BY DEF Detach, At, RowsUnchanged
<1>3. /\ v \in Vms
      /\ \/ r.op = "umount_disk" /\ t \in Disks /\ r.dev \in 1 .. MaxDev
         \/ r.op = "umount_pci" /\ t \in Devices /\ r.dev = 0
         \/ r.op = "detach_ip" /\ t \in Ips /\ r.dev = 0
  BY <1>1, <1>2, MountPcs
<1>4. Knows(workload.ops, r, vm_status[v], domain[v], place, pci)
  BY DEF HInv, KnowsInv
<1>5. a.thing = t /\ a.dev = r.dev /\ a \in Slots
  BY <1>1, <1>3 DEF SlotOf, Slots
<1>6. /\ domain[v] \in DomainState /\ DomainSound(workload.ops, domain[v], vm_status[v])
      /\ Holds(v, domain[v], place, pci)
  BY <1>1, <1>3 DEF HInv, DomainsInv, HoldsInv, TInv, TypeOK
<1>7. \A d \in Disks : ~InHand(r, d, place)
  BY <1>2 DEF InHand
<1>8. PICK c \in DetachResults(v, a) :
         /\ domain' = [domain EXCEPT ![v] = c.domain]
         /\ CASE r.op = "detach_ip" -> IF c.ok THEN End(w) ELSE Goto(w, "ip_apply")
              [] OTHER -> IF c.ok THEN Goto(w, "umount_row") ELSE End(w)
  BY DEF Detach
<1>9. \/ End(w)
      \/ /\ r.op = "detach_ip" /\ s.op = r.op
      \/ /\ c.ok /\ r.op # "detach_ip" /\ s.op = r.op /\ s.vm = v /\ s.thing = t
         /\ s.dev = r.dev /\ s.pc = "umount_row"
  BY <1>1, <1>8, Gone
<1>10. End(w) \/ r.op = "detach_ip" => OwnKnows(w)
  <2>1. CASE End(w)
    BY <1>1, <2>1, EndKnows
  <2>2. CASE s.op = "detach_ip"
    <3> HIDE DEF s
    <3>1. Knows(workload.ops, s, vm_status'[s.vm], domain'[s.vm], place', pci')
      BY <1>1, <2>2, KnowsNothing
    <3>2. QED
      BY <3>1 DEF OwnKnows, s
  <2>3. QED
    BY <1>9, <2>1, <2>2
<1>11. CASE c.domain = domain[v] /\ ~c.ok
  BY <1>1, <1>2, <1>7, <1>8, <1>9, <1>10, <1>11, QuietHolders DEF TInv, TypeOK
<1>12. CASE domain[v].defined /\ ~(c.domain = domain[v] /\ ~c.ok)
  <2> DEFINE d == domain[v]
             e == c.domain
  <2>1. t \in Disks =>
           /\ r.op = "umount_disk" /\ a = Slot(t, place) /\ a \in d.config /\ place[t].vm = v
    BY <1>1, <1>2, <1>3, <1>12, DetachedDisk
  <2>2. \/ c.ok /\ e = Unplugged(d, a)
        \/ ~c.ok /\ a.thing \notin Disks /\ HalfDetached(d, a, e)
    <3>1. c \in detach_device(d, a)
      BY <1>8, <1>12 DEF DetachResults
    <3>2. \/ c.ok /\ e = Unplugged(d, a)
          \/ /\ ~c.ok /\ d.running
             /\ Target(d.live, a) = {} \/ MayFail("detach_live")
             /\ HalfDetached(d, a, e)
      BY <1>5, <1>6, <1>12, <3>1, DetachCases
    <3>3. t \in Disks /\ d.running => a \in d.live
      BY <1>5, <1>6, <2>1 DEF DiskSlots, DomainSound
    <3>4. t \in Disks /\ d.running => a \in Target(d.live, a)
      BY <1>5, <3>3 DEF Target
    <3>5. QED
      BY <1>5, <3>2, <3>4 DEF HoldersApart
  <2>3. /\ DomainSound(workload.ops, e, vm_status[v])
        /\ e = Unplugged(d, a) => Att(e) \subseteq Att(d)
        /\ Att(e) \subseteq Att(d) \cup ({a.thing} \ Disks)
        /\ d.config \ Target(d.config, a) \subseteq e.config
        /\ e.defined
    BY <1>5, <1>6, <1>12, <2>2, UnpluggedSound
  <2>4. d # NoDomain
    BY <1>12 DEF NoDomain
  <2>5. t \in Devices => pci[t] = v /\ r.op = "umount_pci"
    BY <1>1, <1>3, <1>4, <1>6, <2>4 DEF DomainSound, Knows, KnowsDevice
  <2>6. Holds(v, e, place, pci)
    BY <1>5, <1>6, <2>3, <2>5 DEF Holds
  <2>7. ASSUME NEW x \in Workers \ {w}, worker[x].vm = v
        PROVE  Knows(workload.ops, worker[x], vm_status[v], e, place, pci)
    <3> DEFINE y == worker[x]
    <3>1. Knows(workload.ops, y, vm_status[v], d, place, pci) /\ Request(y)
      BY <1>1, <2>7 DEF HInv, KnowsInv, TInv, RequestsInv
    <3>2. CASE Att(e) \subseteq Att(d)
      BY <2>4, <3>1, <3>2, OtherShrinks
    <3>3. CASE t \notin Disks
      <4>1. Share(r, y) => Apart(workload.ops, r, y)
        BY <1>1, OthersApart
      <4>2. r.vm \in Vms /\ y.vm = r.vm
        BY <1>3, <2>7
      <4>3. t \in Things /\ Att(e) \subseteq Att(d) \cup {t}
        BY <1>1, <1>3, <1>5, <2>3 DEF Things
      <4>4. t \in Devices => r.op \in {"mount_pci", "umount_pci"} /\ r.thing = t
        BY <2>5
      <4> HIDE DEF r, y, e, d, t
      <4>5. Knows(workload.ops, y, vm_status[v], e, place, pci)
        BY <2>4, <3>1, <3>3, <4>1, <4>2, <4>3, <4>4, OtherPlug
      <4>6. QED
        BY <4>5 DEF y
    <3>4. QED
      BY <1>5, <2>3, <3>2, <3>3
  <2>8. UNCHANGED <<workload, vm_status, pci>> /\ domain' = [domain EXCEPT ![v] = e]
    BY <1>2, <1>8
  <2> HIDE DEF e
  <2>9. DomainsInv' /\ HoldsInv' /\ OthersKnow(w)
    BY <1>1, <1>3, <2>3, <2>6, <2>7, <2>8, DomainChanged
  <2>10. domain'[v] = e /\ \A u \in Vms \ {v} : domain'[u] = domain[u]
    BY <1>1, <1>3, <2>8 DEF TInv, TypeOK
  <2>11. t \in Disks => OwnKnows(w) /\ InHand(s, t, place)
    <3>1. SUFFICES ASSUME t \in Disks
                   PROVE  OwnKnows(w) /\ InHand(s, t, place)
      OBVIOUS
    <3>2. c.ok /\ e = Unplugged(d, a) /\ r.op = "umount_disk"
      BY <1>5, <2>1, <2>2, <3>1 DEF e
    <3>3. ~End(w)
      BY <1>1, <1>8, <3>2, Gone, EndKnows DEF Idle
    <3>4. s.op = r.op /\ s.vm = v /\ s.thing = t /\ s.dev = r.dev /\ s.pc = "umount_row"
      BY <1>9, <3>2, <3>3
    <3>5. t \notin Att(e)
      <4>1. e.config = d.config \ Target(d.config, a)
            /\ e.live = IF d.running THEN d.live \ Target(d.live, a) ELSE d.live
        BY <1>6, <3>2 DEF Unplugged, DomainState
      <4>2. \A b \in d.config : b.thing = t => b = a
        BY <1>5, <1>6, <2>1, <3>1 DEF DomainSound, DiskSlots
      <4>3. \A b \in d.live : b.thing = t => d.running /\ b \in d.config
        BY <1>6, <3>1 DEF DomainSound, DiskSlots
      <4>4. \A b \in d.config : b = a => b \in Target(d.config, a)
        BY <1>5, <3>1 DEF Target
      <4>5. \A b \in d.live : b = a => b \in Target(d.live, a)
        BY <1>5, <3>1 DEF Target
      <4>6. QED
        BY <4>1, <4>2, <4>3, <4>4, <4>5 DEF Att
    <3>6. KnowsDisk(workload.ops, s, vm_status[v], e, place)
      BY <1>4, <3>2, <3>4, <3>5 DEF Knows, KnowsDisk
    <3>7. /\ KnowsDevice(s, vm_status[v], e, pci) /\ KnowsVm(workload.ops, s, vm_status[v], e)
          /\ KnowsFix(s, e, place)
      BY <3>2, <3>4 DEF KnowsDevice, KnowsVm, KnowsFix
    <3>8. OwnKnows(w)
      BY <1>1, <1>2, <2>10, <3>4, <3>6, <3>7 DEF OwnKnows, Knows
    <3>9. QED
      BY <3>4, <3>8 DEF InHand
  <2>12. OwnKnows(w)
    <3>1. CASE t \in Disks
      BY <2>11, <3>1
    <3>2. CASE r.op = "umount_pci" /\ ~End(w)
      <4>1. s.op = r.op /\ s.vm = v /\ s.thing = t /\ s.dev = r.dev /\ s.pc = "umount_row" /\ c.ok
        BY <1>9, <3>2
      <4>2. e = Unplugged(d, a) /\ t \notin Disks
        BY <1>1, <1>3, <2>2, <3>2, <4>1 DEF e
      <4>3. t \notin Att(e)
        BY <1>5, <1>6, <4>2 DEF Unplugged, DomainState, DomainSound, Target, Att
      <4>4. KnowsDevice(s, vm_status[v], e, pci)
        BY <1>4, <3>2, <4>1, <4>3 DEF Knows, KnowsDevice
      <4>5. /\ KnowsDisk(workload.ops, s, vm_status[v], e, place)
            /\ KnowsVm(workload.ops, s, vm_status[v], e) /\ KnowsFix(s, e, place)
        BY <3>2, <4>1 DEF KnowsDisk, KnowsVm, KnowsFix
      <4>6. QED
        BY <1>1, <1>2, <2>10, <4>1, <4>4, <4>5 DEF OwnKnows, Knows
    <3>3. QED
      BY <1>3, <1>10, <3>1, <3>2
  <2>13. ASSUME NEW x \in Disks, place'[x].vm # NoVm
         PROVE  \/ InHand(worker'[w], x, place')
                \/ /\ Slot(x, place) \in domain[place[x].vm].config
                         => Slot(x, place) \in domain'[place[x].vm].config
                   /\ domain'[place'[x].vm].defined => domain[place[x].vm].defined
    <3>1. place[x].vm \in Vms
      BY <1>1, <2>13, PlaceFacts
    <3>2. CASE x = t
      BY <1>1, <2>11, <3>2
    <3>3. CASE x # t
      BY <1>1, <1>5, <1>6, <1>12, <2>1, <2>3, <2>10, <3>1, <3>3 DEF Slot, Target, DomainSound, DiskSlots
    <3>4. QED
      BY <3>2, <3>3
  <2>14. RecordedInv'
    BY <1>1, <1>7, <2>13, OneWorker, RecordedKept
  <2>15. QED
    BY <2>9, <2>12, <2>14, HoldersKept
<1>13. QED
  BY <1>8, <1>11, <1>12 DEF DetachResults, Result

-----------------------------------------------------------------------------
(* Steps that define a machine, write its status or delete it.             *)

\* The status of a vm is written.
LEMMA StatusHolders ==
    ASSUME HInv, HoldersApart, NEW w \in Workers, UNCHANGED <<workload, domain, pci, vdisk>>, Step(w),
           NEW v \in Vms, worker[w].vm = v, NEW status, vm_status' = [vm_status EXCEPT ![v] = status],
           vm_status[v] # "none",
           \/ /\ worker[w].op \in {"shelve", "unshelve"} /\ status = "shelve"
              /\ "delshelve" \in workload.ops => domain[v] = NoDomain
           \/ worker[w].op = "unshelve" /\ status = "normal",
           \A d \in Disks : ~InHand(worker[w], d, place), OwnKnows(w)
    PROVE  HInv'
<1> DEFINE q == worker[w]
<1>1. TInv /\ MeetInv /\ place' = place /\ \A x \in Workers \ {w} : worker'[x] = worker[x]
  BY OneWorker DEF HInv, place
<1>2. \A u \in Vms : vm_status'[u] = IF u = v THEN status ELSE vm_status[u]
  BY <1>1 DEF TInv, TypeOK
<1>3. DomainsInv'
  BY <1>2 DEF HInv, DomainsInv, DomainSound
<1>4. HoldsInv'
  BY <1>1 DEF HInv, HoldsInv
<1>5. OthersKnow(w)
  <2>1. ASSUME NEW x \in Workers \ {w}
        PROVE  LET u == worker[x].vm
               IN  Knows(workload.ops, worker[x], vm_status'[u], domain[u], place, pci)
    <3> DEFINE r == worker[x]
    <3>1. Knows(workload.ops, r, vm_status[r.vm], domain[r.vm], place, pci) /\ Request(r)
      BY DEF HInv, KnowsInv, TInv, RequestsInv
    <3>2. CASE r.vm \notin Vms
      <4> HIDE DEF r
      <4>1. Knows(workload.ops, r, vm_status'[r.vm], domain[r.vm], place, pci)
        BY <3>1, <3>2, KnowsNoVm
      <4>2. QED
        BY <4>1 DEF r
    <3>3. CASE r.vm \in Vms /\ r.vm # v
      BY <1>2, <3>1, <3>3
    <3>4. CASE r.vm = v
      <4>1. Share(q, r) => Apart(workload.ops, q, r)
        BY <1>1, OthersApart
      <4>2. q.vm \in Vms /\ r.vm = q.vm /\ vm_status[r.vm] # "none"
        BY <3>4
      <4>3. \/ q.op \in {"shelve", "unshelve"} /\ status = "shelve"
            \/ q.op = "unshelve" /\ status = "normal"
        OBVIOUS
      <4> HIDE DEF q, r
      <4>4. Knows(workload.ops, r, status, domain[r.vm], place, pci)
        BY <3>1, <4>1, <4>2, <4>3, OtherSaves
      <4>5. vm_status'[r.vm] = status
        BY <1>2, <3>4
      <4>6. QED
        BY <4>4, <4>5 DEF r
    <3>5. QED
      BY <3>2, <3>3, <3>4
  <2>2. QED
    BY <1>1, <2>1 DEF OthersKnow
<1>6. RecordedInv'
  BY <1>1, RecordedKept
<1>7. QED
  BY <1>3, <1>4, <1>5, <1>6, HoldersKept

\* A vm is shelved, or is normal again.
LEMMA SaveHolders ==
    ASSUME HInv, HoldersApart, NEW w \in Workers, UNCHANGED workload, Step(w),
           ShelveSave(w) \/ UnshelveSave(w)
    PROVE  HInv'
<1> DEFINE r == worker[w]
           s == worker'[w]
           v == r.vm
<1>1. TInv /\ Request(r) /\ place' = place
  BY TypedPlaces DEF HInv, ShelveSave, UnshelveSave, RowsUnchanged, place
<1>2. r.pc \in {"shelve_save", "unshelve_save"} /\ UNCHANGED <<domain, pci, vdisk>>
  BY DEF ShelveSave, UnshelveSave, At, RowsUnchanged
<1>3. /\ v \in Vms /\ r.op \in {"shelve", "unshelve"}
      /\ r.pc = "unshelve_save" => r.op = "unshelve"
  BY <1>1, <1>2 DEF Request, Idle
<1>4. Knows(workload.ops, r, vm_status[v], domain[v], place, pci)
  BY DEF HInv, KnowsInv
<1>5. "delshelve" \in workload.ops => domain[v] = NoDomain
  BY <1>2, <1>4 DEF Knows, KnowsVm
<1>6. \A d \in Disks : ~InHand(r, d, place)
  BY <1>2 DEF InHand
<1>7. CASE ShelveSave(w)
  <2>1. OwnKnows(w)
    BY <1>1, <1>7, EndKnows DEF ShelveSave
  <2>2. vm_status' = [vm_status EXCEPT ![v] = IF vm_status[v] = "none" THEN "none" ELSE "shelve"]
    BY <1>7 DEF ShelveSave
  <2>3. CASE vm_status[v] = "none"
    BY <1>1, <1>2, <1>6, <2>1, <2>2, <2>3, QuietHolders DEF TInv, TypeOK
  <2>4. CASE vm_status[v] # "none"
    BY <1>2, <1>3, <1>5, <1>6, <2>1, <2>2, <2>4, StatusHolders
  <2>5. QED
    BY <2>3, <2>4
<1>8. CASE UnshelveSave(w)
  <2>1. r.pc = "unshelve_save" /\ r.op = "unshelve"
    BY <1>3, <1>8 DEF UnshelveSave, At
  <2>2. vm_status[v] # "none"
    BY <1>4, <2>1 DEF Knows, KnowsVm
  <2>3. vm_status' = [vm_status EXCEPT ![v] = "normal"] /\ Goto(w, "define")
    BY <1>8, <2>2 DEF UnshelveSave
  <2>4. s.op = "unshelve" /\ s.vm = v /\ s.pc = "define" /\ vm_status'[v] = "normal"
    BY <1>1, <1>3, <2>1, <2>3, Gone DEF TInv, TypeOK
  <2> HIDE DEF s, r, v
  <2>5. Knows(workload.ops, s, vm_status'[s.vm], domain'[s.vm], place', pci')
    BY <1>2, <1>5, <2>4 DEF Knows, KnowsDisk, KnowsDevice, KnowsVm, KnowsFix
  <2>6. OwnKnows(w)
    BY <2>5 DEF OwnKnows, s
  <2>7. QED
    BY <1>2, <1>3, <1>6, <2>1, <2>2, <2>3, <2>6, StatusHolders DEF r, v
<1>9. QED
  BY <1>7, <1>8

\* A machine is defined anew, without what it had.
LEMMA DefineHolders ==
    ASSUME HInv, HoldersApart, NEW w \in Workers, UNCHANGED workload, Step(w), Define(w)
    PROVE  HInv'
<1> DEFINE r == worker[w]
           s == worker'[w]
           v == r.vm
           rows == {[thing |-> d, dev |-> vdisk[d].dev] : d \in MountedOn(v)}
<1>1. TInv /\ MeetInv /\ Request(r) /\ place' = place /\ NoVm \notin Vms
      /\ r \in WorkerState /\ worker \in [Workers -> WorkerState]
  BY TypedPlaces, AttachmentAssumption DEF HInv, Define, RowsUnchanged, place
<1>2. r.pc = "define" /\ UNCHANGED <<pci, vdisk>>
  BY DEF Define, At, RowsUnchanged
<1>3. v \in Vms /\ r.op \in {"unshelve", "miss_fix"}
  BY <1>1, <1>2 DEF Request, Idle
<1>4. Knows(workload.ops, r, vm_status[v], domain[v], place, pci)
  BY DEF HInv, KnowsInv
<1>5. /\ vm_status[v] # "none"
      /\ "delshelve" \in workload.ops => domain[v] = NoDomain /\ vm_status[v] = "normal"
  BY <1>2, <1>3, <1>4 DEF Knows, KnowsVm
<1>6. \A d \in Disks : ~InHand(r, d, place)
  BY <1>2 DEF InHand
<1>7. CASE /\ UNCHANGED domain /\ End(w)
           /\ vm_status' = IF r.op = "unshelve" THEN [vm_status EXCEPT ![v] = "shelve"] ELSE vm_status
  <2>1. OwnKnows(w)
    BY <1>1, <1>7, EndKnows
  <2>2. CASE r.op = "unshelve"
    BY <1>2, <1>3, <1>5, <1>6, <1>7, <2>1, <2>2, StatusHolders
  <2>3. CASE r.op # "unshelve"
    BY <1>1, <1>2, <1>6, <1>7, <2>1, <2>3, QuietHolders
  <2>4. QED
    BY <2>2, <2>3
<1>8. CASE /\ domain' = [domain EXCEPT ![v] = Defined] /\ UNCHANGED vm_status
           /\ IF r.op = "unshelve" THEN Goto(w, "mount_vdisks")
              ELSE worker' = [worker EXCEPT ![w].pc = "fix_attach", ![w].todo = rows]
  <2>1. domain'[v] = Defined /\ \A u \in Vms \ {v} : domain'[u] = domain[u]
    BY <1>1, <1>3, <1>8 DEF TInv, TypeOK
  <2>2. /\ Att(Defined) = {} /\ DomainSound(workload.ops, Defined, vm_status[v])
    BY <1>5, NewDomainSound
  <2>3. Holds(v, Defined, place, pci)
    BY <2>2 DEF Holds
  <2>4. ASSUME NEW x \in Workers \ {w}, worker[x].vm = v
        PROVE  Knows(workload.ops, worker[x], vm_status[v], Defined, place, pci)
    <3> DEFINE y == worker[x]
    <3>1. Knows(workload.ops, y, vm_status[v], domain[v], place, pci) /\ Request(y)
      BY <1>1, <2>4 DEF HInv, KnowsInv, TInv, RequestsInv
    <3>2. Share(r, y) => Apart(workload.ops, r, y)
      BY <1>1, OthersApart
    <3>3. r.vm \in Vms /\ y.vm = r.vm
      BY <1>3, <2>4
    <3> HIDE DEF r, y, v
    <3>4. Knows(workload.ops, y, vm_status[v], Defined, place, pci)
      BY <1>3, <2>2, <3>1, <3>2, <3>3, OtherDefines
    <3>5. QED
      BY <3>4 DEF y
  <2>5. UNCHANGED <<workload, vm_status, pci>>
    BY <1>2, <1>8
  <2>6. DomainsInv' /\ HoldsInv' /\ OthersKnow(w)
    BY <1>1, <1>3, <1>8, <2>2, <2>3, <2>4, <2>5, DomainChanged
  <2>7. CASE r.op = "unshelve"
    <3>1. s.op = r.op /\ s.vm = v /\ s.pc = "mount_vdisks"
      BY <1>1, <1>8, <2>7, Gone
    <3> HIDE DEF s, v
    <3>2. Knows(workload.ops, s, vm_status[v], domain'[v], place', pci')
      BY <1>5, <2>7, <3>1 DEF Knows, KnowsDisk, KnowsDevice, KnowsVm, KnowsFix
    <3>3. OwnKnows(w)
      BY <2>5, <3>1, <3>2 DEF OwnKnows, s
    <3>4. "unshelve" \in workload.ops
      BY <1>1, <2>7 DEF MeetInv
    <3>5. RecordedInv'
      BY <2>5, <3>4 DEF RecordedInv, Recorded
    <3>6. QED
      BY <2>6, <3>3, <3>5, HoldersKept
  <2>8. CASE r.op # "unshelve"
    <3>1. worker' = [worker EXCEPT ![w].pc = "fix_attach", ![w].todo = rows]
      BY <1>8, <2>8
    <3> HIDE DEF rows
    <3>2. s.op = "miss_fix" /\ s.vm = v /\ s.pc = "fix_attach" /\ s.todo = rows
      BY <1>1, <1>3, <2>8, <3>1 DEF WorkerState
    <3>3. ASSUME NEW d \in Disks, place[d].vm = v
          PROVE  Slot(d, place) \in rows
      BY <1>1, <1>3, <3>3, PlaceFacts DEF Slot, rows, MountedOn
    <3>4. ASSUME NEW b \in rows
          PROVE  b = Slot(b.thing, place) /\ place[b.thing].vm = v
      <4>1. PICK d \in MountedOn(v) : b = [thing |-> d, dev |-> vdisk[d].dev]
        BY DEF rows
      <4>2. d \in Disks /\ vdisk[d].vm = v /\ b.thing = d
        BY <4>1 DEF MountedOn
      <4>3. QED
        BY <1>1, <1>3, <4>1, <4>2, PlaceFacts DEF Slot
    <3>5. KnowsFix(s, Defined, place)
      BY <2>2, <3>2, <3>4 DEF KnowsFix
    <3> HIDE DEF s, v
    <3>6. Knows(workload.ops, s, vm_status[v], domain'[v], place', pci')
      BY <1>1, <1>5, <2>1, <3>2, <3>5 DEF Knows, KnowsDisk, KnowsDevice, KnowsVm
    <3>7. OwnKnows(w)
      BY <2>5, <3>2, <3>6 DEF OwnKnows, s
    <3>8. ASSUME NEW d \in Disks, place'[d].vm # NoVm, domain'[place'[d].vm].defined
          PROVE  \/ InHand(worker'[w], d, place')
                 \/ /\ place'[d] = place[d] /\ domain[place[d].vm].defined
                    /\ Slot(d, place) \in domain[place[d].vm].config
                          => Slot(d, place) \in domain'[place[d].vm].config
      <4>1. CASE place[d].vm = v
        BY <1>1, <3>2, <3>3, <4>1 DEF InHand, s
      <4>2. CASE place[d].vm # v
        BY <1>1, <2>1, <3>8, <4>2, PlaceFacts
      <4>3. QED
        BY <4>1, <4>2
    <3>9. \A x \in Workers \ {w} : worker'[x] = worker[x]
      BY <1>1, OneWorker
    <3>10. RecordedInv'
      BY <1>1, <1>6, <3>8, <3>9, RecordedKept
    <3>11. QED
      BY <2>6, <3>7, <3>10, HoldersKept
  <2>9. QED
    BY <2>7, <2>8
<1>9. QED
  BY <1>7, <1>8 DEF Define

\* The row of a vm goes, and with it what names the vm.
LEMMA DeleteRowHolders ==
    ASSUME HInv, HoldersApart, NEW w \in Workers, UNCHANGED workload, Step(w), DeleteVmRow(w)
    PROVE  HInv'
<1> DEFINE q == worker[w]
           v == q.vm
<1>1. TInv /\ MeetInv /\ Request(q) /\ NoVm \notin Vms /\ DOMAIN place = Disks /\ DOMAIN pci = Devices
      /\ \A x \in Workers \ {w} : worker'[x] = worker[x]
  BY TypedPlaces, AttachmentAssumption, PlaceFacts, OneWorker DEF HInv, TInv, TypeOK
<1>2. q.pc = "vm_rowdel" /\ End(w) /\ UNCHANGED domain
  BY DEF DeleteVmRow, At
<1>3. v \in Vms /\ q.op \in {"delete_vm", "delshelve"}
  BY <1>1, <1>2 DEF Request, Idle
<1>4. Knows(workload.ops, q, vm_status[v], domain[v], place, pci)
  BY DEF HInv, KnowsInv
<1>5. domain[v] = NoDomain /\ (q.op = "delshelve" => vm_status[v] # "normal")
  BY <1>2, <1>4 DEF Knows, KnowsVm
<1>6. vm_status'[v] = "none" /\ \A u \in Vms \ {v} : vm_status'[u] = vm_status[u]
  BY <1>1, <1>3 DEF DeleteVmRow, TInv, TypeOK
<1>7. pci' = [p \in Devices |-> IF pci[p] = v THEN NoVm ELSE pci[p]]
  BY DEF DeleteVmRow
<1>8. place' = [d \in Disks |-> IF place[d].vm = v THEN Nowhere ELSE place[d]]
  <2>1. ASSUME NEW d \in Disks
        PROVE  Place(vdisk'[d]) = IF place[d].vm = v THEN Nowhere ELSE place[d]
    BY <1>1, PlaceFacts DEF DeleteVmRow, TInv, TypeOK, VdiskRow, Place, Nowhere
  <2>2. place' = [d \in Disks |-> Place(vdisk'[d])]
    BY DEF place
  <2>3. QED
    BY <2>1, <2>2
<1>9. OwnKnows(w)
  BY <1>1, <1>2, EndKnows
<1>10. DomainsInv'
  BY <1>2, <1>5, <1>6, NewDomainSound DEF HInv, DomainsInv
<1>11. HoldsInv'
  <2>1. ASSUME NEW u \in Vms
        PROVE  Holds(u, domain[u], place', pci')
    BY <1>5, <1>7, <1>8, NewDomainSound DEF Holds, HInv, HoldsInv
  <2>2. QED
    BY <1>2, <2>1 DEF HoldsInv
<1>12. OthersKnow(w)
  <2>1. ASSUME NEW x \in Workers \ {w}
        PROVE  LET u == worker[x].vm
               IN  Knows(workload.ops, worker[x], vm_status'[u], domain[u], place', pci')
    <3> DEFINE r == worker[x]
               e == domain[r.vm]
               status == vm_status[r.vm]
               status2 == IF r.vm = v THEN "none" ELSE status
               pl2 == place'
               pc2 == pci'
    <3>1. Knows(workload.ops, r, status, e, place, pci) /\ Request(r)
      BY DEF HInv, KnowsInv, TInv, RequestsInv
    <3>2. Share(q, r) => Apart(workload.ops, q, r)
      BY <1>1, OthersApart
    <3>3. r.vm = v /\ q.op = "delshelve" => status # "normal"
      BY <1>5
    <3>4. /\ pl2 = [d \in Disks |-> IF place[d].vm = v THEN Nowhere ELSE place[d]]
          /\ pc2 = [p \in Devices |-> IF pci[p] = v THEN NoVm ELSE pci[p]]
      BY <1>7, <1>8
    <3>5. status2 = IF r.vm = v THEN "none" ELSE status
      OBVIOUS
    <3> HIDE DEF q, r, e, status, status2, pl2, pc2
    <3>6. Knows(workload.ops, r, status2, e, pl2, pc2)
      BY <1>1, <1>3, <3>1, <3>2, <3>3, <3>4, <3>5, OtherDeletes
    <3>7. CASE r.vm \in Vms
      BY <1>6, <3>6, <3>7 DEF status2, status, r, e, pl2, pc2
    <3>8. CASE r.vm \notin Vms
      BY <3>1, <3>6, <3>8, KnowsNoVm DEF r, e, pl2, pc2
    <3>9. QED
      BY <3>7, <3>8
  <2>2. QED
    BY <1>2, <2>1 DEF OthersKnow
<1>13. RecordedInv'
  BY <1>1, <1>2, <1>8, RecordedKept DEF InHand, Nowhere
<1>14. QED
  BY <1>9, <1>10, <1>11, <1>12, <1>13, HoldersKept

-----------------------------------------------------------------------------
(* The holders of disks and devices.                                       *)

\* Every step keeps the recorded holder the one that has the disk.
LEMMA NextHolders ==
    ASSUME HoldersApart
    PROVE  HInv /\ [Next]_vars => HInv'
<1> SUFFICES ASSUME HInv, [Next]_vars
             PROVE  HInv'
  OBVIOUS
<1>1. CASE UNCHANGED vars
  BY <1>1, NextTypes DEF HInv, vars, place, MeetInv, DomainsInv, HoldsInv, RecordedInv, KnowsInv
<1>2. ASSUME UNCHANGED workload, NEW w \in Workers, Step(w)
      PROVE  HInv'
  <2>1. CASE DiskRequest(w)
    BY <1>2, <2>1, UnmountedStarts, UmountStarts, MountDiskStarts DEF DiskRequest
  <2>2. CASE DeviceRequest(w)
    BY <1>2, <2>2, UmountStarts, MountPciStarts, OtherStarts DEF DeviceRequest
  <2>3. CASE VmRequest(w)
    BY <1>2, <2>3, PowerHolders, OtherStarts DEF VmRequest
  <2>4. CASE Serve(w)
    <3>1. CASE \/ ClaimQuota(w) \/ SaveVdisk(w) \/ CreateCephDisk(w) \/ UnsaveVdisk(w) \/ UndoClaim(w)
               \/ SoftDelete(w) \/ RenameDiskRbdName(w)
               \/ RemoveCephDisk(w) \/ FreeVdisk(w) \/ DeleteVdiskRow(w)
      BY <1>2, <3>1, MakerHolders
    <3>2. CASE \/ ApplyIp(w) \/ AttachRow(w) \/ FreeAttachedIp(w) \/ DeleteAttachedIp(w)
               \/ CheckAttachedIp(w)
      BY <1>2, <3>2, AddressHolders
    <3>3. CASE MountRow(w) \/ UndoMount(w) \/ UmountRow(w) \/ FixUmount(w)
      BY <1>2, <3>3, MountRowHolders, UndoHolders, FixUmountHolders
    <3>4. CASE Attach(w) \/ MountVdisks(w) \/ FixAttach(w) \/ Detach(w)
      BY <1>2, <3>4, AttachHolders, MountVdisksHolders, FixAttachHolders, DetachHolders
    <3>5. CASE Undefine(w) \/ DeleteVmRow(w) \/ ShelveSave(w) \/ UnshelveSave(w) \/ Define(w)
      BY <1>2, <3>5, UndefineHolders, DeleteRowHolders, SaveHolders, DefineHolders
    <3>6. QED
      BY <2>4, <3>1, <3>2, <3>3, <3>4, <3>5 DEF Serve
  <2>5. QED
    BY <1>2, <2>1, <2>2, <2>3, <2>4 DEF Step
<1>3. QED
  BY <1>1, <1>2 DEF Next, Step

\* At first no request is served, and machines have nothing.
LEMMA InitHolders == Init => HInv
<1> SUFFICES ASSUME Init
             PROVE  HInv
  OBVIOUS
<1>1. TInv /\ NoVm \notin Vms
  BY InitTypes, AttachmentAssumption
<1>2. \A w \in Workers : worker[w] = Idle
  BY DEF Init
<1>3. MeetInv
  BY <1>2 DEF MeetInv, Share, Idle
<1>4. \A v \in Vms : domain[v] = Defined /\ vm_status[v] = "normal"
  BY DEF Init
<1>5. DomainsInv
  BY <1>4, NewDomainSound DEF DomainsInv
<1>6. HoldsInv
  BY <1>4, NewDomainSound DEF HoldsInv, Holds
<1>7. RecordedInv
  BY <1>1, PlaceFacts DEF Init, NoRow, RecordedInv, Recorded
<1>8. KnowsInv
  BY <1>2, KnowsNothing DEF Request, Idle, KnowsInv
<1>9. QED
  BY <1>1, <1>3, <1>5, <1>6, <1>7, <1>8 DEF HInv

\* So it is in every state.
LEMMA HoldersAlways ==
    ASSUME HoldersApart
    PROVE  Spec => []HInv
BY InitHolders, NextHolders, PTL DEF Spec

\* A disk is in the descriptions of one vm at most, if requests that would undo
\* each other are kept apart: of mount_disk, whose row lock comes before the
\* attach of libvirt, and umount_disk, whose detach comes before the row is
\* cleared.
THEOREM DisksOnOneVm ==
    ASSUME HoldersApart
    PROVE  Spec => []DiskOnOneVm
<1>1. HInv => DiskOnOneVm
  <2> SUFFICES ASSUME HInv, NEW a \in Vms, NEW b \in Vms, a # b
               PROVE  Attached(a) \cap Attached(b) \cap Disks = {}
    BY DEF DiskOnOneVm
  <2>1. Attached(a) = Att(domain[a]) /\ Attached(b) = Att(domain[b])
    BY DEF Attached, Att
  <2>2. \A d \in Att(domain[a]) \cap Disks : place[d].vm = a
    BY DEF HInv, HoldsInv, Holds
  <2>3. \A d \in Att(domain[b]) \cap Disks : place[d].vm = b
    BY DEF HInv, HoldsInv, Holds
  <2>4. QED
    BY <2>1, <2>2, <2>3
<1>2. QED
  BY <1>1, HoldersAlways, PTL

\* What a domain has is recorded for its vm, even while a request is at work on
\* it: the attach that fails half way and the detach that is taken back leave
\* the row of what is still there.
THEOREM HoldersRecorded ==
    ASSUME HoldersApart
    PROVE  Spec => []RecordedHolder
<1>1. HInv => RecordedHolder
  <2> SUFFICES ASSUME HInv, NEW v \in Vms
               PROVE  /\ \A d \in Attached(v) \cap Disks : vdisk[d].vm = v
                      /\ \A p \in Attached(v) \cap Devices : pci[p] = v
    BY DEF RecordedHolder
  <2>1. Attached(v) = Att(domain[v])
    BY DEF Attached, Att
  <2>2. Holds(v, domain[v], place, pci)
    BY DEF HInv, HoldsInv
  <2>3. \A d \in Disks : place[d].vm = vdisk[d].vm
    BY PlaceFacts DEF HInv
  <2>4. QED
    BY <2>1, <2>2, <2>3 DEF Holds
<1>2. QED
  BY <1>1, HoldersAlways, PTL

-----------------------------------------------------------------------------
(* What a machine that runs loses.                                         *)

\* Nothing that runs loses a device but by a detach.
KeepsLive(v, e) == e.running => domain[v].live \subseteq e.live

\* A step that does not detach leaves every machine what it has, or stops it.
LEMMA LiveKept ==
    ASSUME HInv, HoldersApart, UNCHANGED workload, NEW w \in Workers, Step(w), ~Detach(w)
    PROVE  \A v \in Vms : domain'[v].running => domain[v].live \subseteq domain'[v].live
<1> DEFINE u == worker[w].vm
<1>1. TInv /\ domain \in [Vms -> DomainState]
  BY TypedPlaces DEF HInv
<1>2. SUFFICES \/ UNCHANGED domain
               \/ \E v \in Vms : \E e : domain' = [domain EXCEPT ![v] = e] /\ KeepsLive(v, e)
  BY <1>1 DEF KeepsLive
<1>3. ASSUME NEW v \in Vms
      PROVE  /\ KeepsLive(v, NoDomain) /\ KeepsLive(v, Defined) /\ KeepsLive(v, domain[v])
             /\ KeepsLive(v, power_off_domain(domain[v])) /\ KeepsLive(v, start(domain[v]))
             /\ \A a : KeepsLive(v, Plugged(domain[v], a))
  <2>1. domain[v] \in DomainState /\ (~domain[v].running => domain[v].live = {})
    BY <1>1 DEF HInv, DomainsInv, DomainSound
  <2>2. KeepsLive(v, NoDomain) /\ KeepsLive(v, Defined) /\ KeepsLive(v, domain[v])
    BY DEF KeepsLive, NoDomain, Defined
  <2>3. KeepsLive(v, power_off_domain(domain[v])) /\ KeepsLive(v, start(domain[v]))
    BY <2>1 DEF KeepsLive, power_off_domain, start, DomainState
  <2>4. ASSUME NEW a
        PROVE  KeepsLive(v, Plugged(domain[v], a))
    BY <2>1 DEF KeepsLive, Plugged, DomainState
  <2>5. QED
    BY <2>2, <2>3, <2>4
<1>4. ASSUME NEW v \in Vms, NEW a \in Slots, NEW c \in AttachResults(v, a),
             domain' = [domain EXCEPT ![v] = c.domain]
      PROVE  \E e : domain' = [domain EXCEPT ![v] = e] /\ KeepsLive(v, e)
  BY <1>1, <1>3, <1>4, AttachResult
<1>5. CASE \E v \in Vms : PowerOn(w, v) \/ PowerOff(w, v) \/ DeleteVm(w, v) \/ Lose(w, v)
  <2>1. PICK v \in Vms : PowerOn(w, v) \/ PowerOff(w, v) \/ DeleteVm(w, v) \/ Lose(w, v)
    BY <1>5
  <2>2. \E e \in {NoDomain, power_off_domain(domain[v]), start(domain[v])} :
           domain' = [domain EXCEPT ![v] = e]
    BY <2>1 DEF PowerOn, PowerOff, DeleteVm, Lose
  <2>3. QED
    BY <1>3, <2>2
<1>6. CASE Undefine(w) \/ Define(w)
  BY <1>1, <1>3, <1>6, TypedPlaces DEF Undefine, Define, At, Request, Idle
<1>7. CASE Attach(w) \/ UmountRow(w) \/ MountVdisks(w) \/ FixAttach(w)
  <2> DEFINE r == worker[w]
  <2>1. Request(r) /\ Nics = Ips /\ NoVm \notin Vms
    BY <1>1, TypedPlaces, AttachmentAssumption
  <2>2. CASE Attach(w) \/ UmountRow(w)
    <3>1. r.pc \in {"attach", "umount_row"} /\ (r.pc = "umount_row" => UmountRow(w))
      BY <2>2 DEF Attach, UmountRow, At
    <3>2. CASE UNCHANGED domain
      BY <3>2
    <3>3. CASE ~UNCHANGED domain
      <4>1. PICK c \in AttachResults(u, SlotOf(w)) : domain' = [domain EXCEPT ![u] = c.domain]
        BY <2>2, <3>3 DEF Attach, UmountRow
      <4>2. r.pc = "umount_row" => r.thing \in Disks
        BY <3>1, <3>3 DEF UmountRow
      <4>3. u \in Vms /\ r.thing \in Things /\ (r.thing \in Disks => r.dev \in 1 .. MaxDev)
            /\ (r.thing \notin Disks => r.dev = 0)
        BY <2>1, <3>1, <4>2, DomainAssumption DEF Request, Idle, Things
      <4>4. SlotOf(w) \in Slots
        BY <4>3 DEF SlotOf, Slots, Things
      <4>5. QED
        BY <1>4, <4>1, <4>3, <4>4
    <3>4. QED
      BY <3>2, <3>3
  <2>3. CASE MountVdisks(w)
    <3>1. u \in Vms
      BY <2>1, <2>3 DEF MountVdisks, At, Request, Idle
    <3>2. ASSUME NEW d \in MountedOn(u)
          PROVE  [thing |-> d, dev |-> vdisk[d].dev] \in Slots
      BY <1>1, <2>1, <3>1, <3>2 DEF MountedOn, TInv, RowsInv, DiskRowSound, Slots
    <3>3. QED
      BY <1>4, <2>3, <3>1, <3>2 DEF MountVdisks
  <2>4. CASE FixAttach(w)
    <3>1. r.pc = "fix_attach"
      BY <2>4 DEF FixAttach, At
    <3>2. u \in Vms /\ r.todo \subseteq [thing : Disks, dev : 1 .. MaxDev]
      BY <2>1, <3>1 DEF Request, Idle
    <3>3. r.todo \subseteq Slots
      BY <3>2 DEF Slots
    <3>4. QED
      BY <1>4, <2>4, <3>2, <3>3 DEF FixAttach
  <2>5. QED
    BY <1>7, <2>2, <2>3, <2>4
<1>8. CASE ~UNCHANGED domain
  <2>1. \/ \E v \in Vms : PowerOn(w, v) \/ PowerOff(w, v) \/ DeleteVm(w, v) \/ Lose(w, v)
        \/ Undefine(w) \/ Define(w)
        \/ Attach(w) \/ UmountRow(w) \/ MountVdisks(w) \/ FixAttach(w)
    <3>1. CASE DiskRequest(w) \/ DeviceRequest(w) \/ VmRequest(w)
      BY <1>8, <3>1 DEF DiskRequest, DeviceRequest, VmRequest, CreateVdisk, DestroyVdisk, AdminDelete,
         UmountDisk, MountDisk, MountPci, UmountPci, AttachIp, DetachIp, Shelve, Unshelve, Delshelve,
         MissFix, VmsUnchanged
    <3>2. CASE Serve(w)
      BY <1>8, <3>2 DEF Serve, ClaimQuota, SaveVdisk, CreateCephDisk, UnsaveVdisk, UndoClaim,
         SoftDelete, RenameDiskRbdName, RemoveCephDisk, FreeVdisk, DeleteVdiskRow, MountRow, UndoMount,
         ApplyIp, AttachRow, FreeAttachedIp, DeleteAttachedIp, CheckAttachedIp, DeleteVmRow, ShelveSave,
         UnshelveSave, FixUmount, VmsUnchanged
    <3>3. QED
      BY <3>1, <3>2 DEF Step
  <2>2. QED
    BY <1>5, <1>6, <1>7, <2>1
<1>9. QED
  BY <1>8

\* A detach takes no other disk than its own out of a machine that runs.
LEMMA DetachTakesOwn ==
    ASSUME HInv, HoldersApart, NEW w \in Workers, Detach(w), NEW v \in Vms, NEW d \in Disks,
           LeavesRunning(v, d)
    PROVE  worker[w].thing = d
<1> DEFINE r == worker[w]
           u == r.vm
           a == SlotOf(w)
<1>1. /\ TInv /\ Request(r) /\ domain \in [Vms -> DomainState]
      /\ Disks \cap Devices = {} /\ Disks \cap Ips = {} /\ Nics = Ips
  BY TypedPlaces, AttachmentAssumption, DomainAssumption DEF HInv
<1>2. r.pc = "detach"
  BY DEF Detach, At
<1>3. /\ u \in Vms
      /\ \/ r.op = "umount_disk" /\ r.thing \in Disks /\ r.dev \in 1 .. MaxDev
         \/ r.op = "umount_pci" /\ r.thing \in Devices /\ r.dev = 0
         \/ r.op = "detach_ip" /\ r.thing \in Ips /\ r.dev = 0
  BY <1>1, <1>2, MountPcs
<1>4. a.thing = r.thing /\ a \in Slots
  BY <1>1, <1>3 DEF SlotOf, Slots
<1>5. PICK c \in DetachResults(u, a) : domain' = [domain EXCEPT ![u] = c.domain]
  BY DEF Detach
<1>6. domain'[v] = IF v = u THEN c.domain ELSE domain[v]
  BY <1>1, <1>5
<1>7. PICK b \in domain[v].live : b.thing = d /\ \A x \in domain'[v].live : x.thing # d
  BY DEF LeavesRunning
<1>8. v = u /\ c.domain # domain[u]
  BY <1>6, <1>7
<1>9. domain[u].defined
  BY <1>5, <1>8 DEF DetachResults, Result
<1>10. c \in detach_device(domain[u], a)
  BY <1>5, <1>9 DEF DetachResults
<1>11. c.domain = Unplugged(domain[u], a) \/ HalfDetached(domain[u], a, c.domain)
  BY <1>1, <1>3, <1>4, <1>8, <1>10, DetachCases
<1>12. b \in Target(domain[u].live, a)
  <2>1. domain[u] \in DomainState
    BY <1>1, <1>3
  <2>2. CASE c.domain = Unplugged(domain[u], a)
    BY <1>6, <1>7, <1>8, <2>1, <2>2 DEF Unplugged, DomainState
  <2>3. CASE HalfDetached(domain[u], a, c.domain)
    BY <1>6, <1>7, <1>8, <2>1, <2>3 DEF HalfDetached, DomainState
  <2>4. QED
    BY <1>11, <2>2, <2>3
<1>13. CASE a.thing \notin Disks
  BY <1>7, <1>12, <1>13 DEF Target
<1>14. CASE a.thing \in Disks
  <2>1. r.op = "umount_disk"
    BY <1>1, <1>3, <1>4, <1>14
  <2>2. a \in domain[u].config
    BY <1>2, <1>9, <2>1, DetachedDisk
  <2>3. DomainSound(workload.ops, domain[u], vm_status[u])
    BY <1>3 DEF HInv, DomainsInv
  <2>4. domain[u].running
    BY <1>7, <1>8, <2>3 DEF DomainSound
  <2>5. b \in DiskSlots(domain[u].config) /\ a \in DiskSlots(domain[u].config) /\ b.dev = a.dev
    BY <1>7, <1>8, <1>12, <1>14, <2>2, <2>3, <2>4 DEF Target, DomainSound, DiskSlots
  <2>6. QED
    BY <1>4, <1>7, <2>3, <2>5 DEF DomainSound
<1>15. QED
  BY <1>13, <1>14

\* A disk is taken out of a machine that runs only by a request to unmount that
\* very disk, or because the machine stops.
THEOREM TakenOutByItsUmount ==
    ASSUME HoldersApart
    PROVE  Spec => OnlyItsUmount
<1> DEFINE Only == \A v \in Vms, d \in Disks : LeavesRunning(v, d) =>
                      \E w \in Workers : worker[w].pc \in {"detach", "attach"} /\ worker[w].thing = d
<1>1. HInv /\ [Next]_vars => [Only]_vars
  <2> SUFFICES ASSUME HInv, UNCHANGED workload, NEW w \in Workers, Step(w),
                      NEW v \in Vms, NEW d \in Disks, LeavesRunning(v, d)
               PROVE  \E x \in Workers :
                         worker[x].pc \in {"detach", "attach"} /\ worker[x].thing = d
    BY DEF Next, Step
  <2>1. CASE Detach(w)
    BY <2>1, DetachTakesOwn DEF Detach, At
  <2>2. CASE ~Detach(w)
    BY <2>2, LiveKept DEF LeavesRunning
  <2>3. QED
    BY <2>1, <2>2
<1>2. QED
  BY <1>1, HoldersAlways, PTL DEF Spec, OnlyItsUmount

-----------------------------------------------------------------------------
(* The images of the disks.                                                *)

\* A removal for good does not meet another one of the disk, nor the request
\* that creates it or soft-deletes it.
RemovedApart ==
    /\ RemovedAlone
    /\ \A l \in Workloads :
          {<<"destroy_vdisk", "admin_delete">>, <<"admin_delete", "destroy_vdisk">>}
             \cap l.overlaps = {}

\* A request that has made the row and not yet the image, or has removed the
\* image and not yet the row.
HalfPcs == {"create_image", "unsave", "free", "rowdel"}

HalfWay(d) == \E w \in Workers : worker[w].thing = d /\ worker[w].pc \in HalfPcs

ImageSound(row, name, half) ==
    /\ row.state = "none" => name = "none"
    /\ row.state = "live" /\ ~half => name = "uuid"
    /\ row.state = "deleted" => row.vm = NoVm /\ (half \/ name # "none")

\* What a request knows of the disk that it is about.
KnowsImage(r, row, name) ==
    /\ r.pc \in HalfPcs => name = "none"
    /\ r.pc = "remove_image" => name = r.name
    /\ r.pc = "rename" => row.state # "live"
    /\ r.op = "mount_disk" => row.state = "live"

\* What is not there yet nobody soft-deletes.
NoDestroy(r, s) == r.pc \in {"claim", "save"} => s.op # "destroy_vdisk"

DiskImage(d) ==
    /\ ImageSound(vdisk[d], image[d], HalfWay(d))
    /\ \A w \in Workers :
          worker[w].thing = d =>
             /\ KnowsImage(worker[w], vdisk[d], image[d])
             /\ \A x \in Workers : worker[x].thing = d => NoDestroy(worker[w], worker[x])

ImagesInv == \A d \in Disks : DiskImage(d)

\* Which requests for a disk are never at work together.
LEMMA ImageApart ==
    ASSUME TInv, MeetInv, MakersInv, HoldersApart, RemovedApart,
           NEW w \in Workers, NEW x \in Workers \ {w},
           worker[w].thing \in Disks, worker[x].thing = worker[w].thing
    PROVE  /\ worker[w].op \in Makers => worker[x].op \notin Makers
           /\ worker[w].op \in Makers \cup {"destroy_vdisk"} => worker[x].op # "mount_disk"
           /\ worker[w].op = "admin_delete" => worker[x].op # "destroy_vdisk"
           /\ worker[w].op = "destroy_vdisk" => worker[x].op # "admin_delete"
<1> DEFINE r == worker[w]
           q == worker[x]
<1>1. workload \in Workloads /\ r.thing # NoThing
  BY AttachmentAssumption DEF TInv, TypeOK, Things
<1>2. r.op \in Makers => q.op \notin Makers
  BY DEF MakersInv, OneMaker
<1>3. ASSUME r.op # "miss_fix", q.op # "miss_fix"
      PROVE  MayMeet(workload, r, q) /\ Apart(workload.ops, r, q)
  BY <1>1, <1>3, OthersApart DEF Share, MeetInv
<1>4. ASSUME r.op \in Makers \cup {"destroy_vdisk"}
      PROVE  q.op # "mount_disk"
  BY <1>3, <1>4 DEF Apart, Excludes, Makers
<1>5. ASSUME {r.op, q.op} = {"destroy_vdisk", "admin_delete"}
      PROVE  FALSE
  BY <1>1, <1>3, <1>5 DEF MayMeet, RemovedApart
<1>6. QED
  BY <1>2, <1>4, <1>5

\* A step that makes and removes nothing of a disk.
LEMMA ImageKept ==
    ASSUME NEW d \in Disks, DiskImage(d), NEW w \in Workers,
           \A x \in Workers \ {w} : worker'[x] = worker[x],
           image'[d] = image[d], vdisk'[d].state = vdisk[d].state,
           vdisk'[d].vm \in {vdisk[d].vm, NoVm} \/ vdisk[d].state = "live",
           worker[w].thing = d => worker[w].pc \notin HalfPcs,
           worker'[w].thing = d =>
              /\ worker'[w].pc \notin HalfPcs \cup {"claim", "save", "remove_image", "rename"}
              /\ worker'[w].op = "mount_disk" => vdisk[d].state = "live"
              /\ worker'[w].op = "destroy_vdisk" =>
                    \A x \in Workers \ {w} :
                       worker[x].thing = d => worker[x].pc \notin {"claim", "save"}
    PROVE  DiskImage(d)'
<1>1. HalfWay(d)' <=> HalfWay(d)
  BY DEF HalfWay
<1>2. ImageSound(vdisk[d], image[d], HalfWay(d))
  BY DEF DiskImage
<1>3. ImageSound(vdisk[d], image[d], HalfWay(d))'
  BY <1>1, <1>2 DEF ImageSound
<1>4. ASSUME NEW x \in Workers, worker'[x].thing = d
      PROVE  KnowsImage(worker'[x], vdisk'[d], image'[d])
  <2>1. CASE x = w
    BY <1>4, <2>1 DEF KnowsImage
  <2>2. CASE x # w
    BY <1>4, <2>2 DEF DiskImage, KnowsImage
  <2>3. QED
    BY <2>1, <2>2
<1>5. ASSUME NEW x \in Workers, NEW y \in Workers, worker'[x].thing = d, worker'[y].thing = d
      PROVE  NoDestroy(worker'[x], worker'[y])
  BY <1>5 DEF NoDestroy, DiskImage
<1>6. QED
  BY <1>3, <1>4, <1>5 DEF DiskImage

\* A step that does, of a request for the disk.
LEMMA ImageWritten ==
    ASSUME NEW d \in Disks, DiskImage(d), NEW w \in Workers, worker[w].thing = d,
           \A x \in Workers \ {w} : worker'[x] = worker[x],
           ImageSound(vdisk'[d], image'[d], HalfWay(d)'),
           worker'[w].thing = d => KnowsImage(worker'[w], vdisk'[d], image'[d]),
           \A x \in Workers \ {w} :
              worker[x].thing = d => KnowsImage(worker[x], vdisk'[d], image'[d]),
           \/ worker'[w].thing # d
           \/ /\ worker'[w].op = worker[w].op
              /\ worker'[w].pc \in {"claim", "save"} => worker[w].pc \in {"claim", "save"}
              /\ worker'[w].pc \in {"claim", "save"} => worker'[w].op # "destroy_vdisk"
    PROVE  DiskImage(d)'
<1>1. ASSUME NEW x \in Workers, worker'[x].thing = d
      PROVE  KnowsImage(worker'[x], vdisk'[d], image'[d])
  BY <1>1
<1>2. ASSUME NEW x \in Workers, NEW y \in Workers, worker'[x].thing = d, worker'[y].thing = d
      PROVE  NoDestroy(worker'[x], worker'[y])
  <2>1. CASE x = w /\ y = w
    BY <1>2, <2>1 DEF NoDestroy
  <2>2. CASE x = w /\ y # w
    BY <1>2, <2>2 DEF DiskImage, NoDestroy
  <2>3. CASE x # w /\ y = w
    BY <1>2, <2>3 DEF DiskImage, NoDestroy
  <2>4. CASE x # w /\ y # w
    BY <1>2, <2>4 DEF DiskImage
  <2>5. QED
    BY <2>1, <2>2, <2>3, <2>4
<1>3. QED
  BY <1>1, <1>2 DEF DiskImage

\* The steps that make or remove rows and images of disks.
MakerStep(w) ==
    \/ ClaimQuota(w) \/ SaveVdisk(w) \/ CreateCephDisk(w) \/ UnsaveVdisk(w) \/ UndoClaim(w)
    \/ SoftDelete(w) \/ RenameDiskRbdName(w)
    \/ RemoveCephDisk(w) \/ FreeVdisk(w) \/ DeleteVdiskRow(w)

\* Which request such a step is of, what becomes of it and what is left alone.
LEMMA MakerFacts ==
    ASSUME TInv, NEW w \in Workers, Step(w), MakerStep(w)
    PROVE  /\ worker[w].thing \in Disks
           /\ \/ /\ worker[w].pc \in {"claim", "save", "create_image", "unsave", "undo_claim"}
                 /\ worker[w].op = "create_vdisk"
              \/ worker[w].pc \in {"soft_delete", "rename"} /\ worker[w].op = "destroy_vdisk"
              \/ worker[w].pc \in {"remove_image", "free", "rowdel"} /\ worker[w].op = "admin_delete"
           /\ \/ worker'[w] = Idle
              \/ /\ worker'[w].op = worker[w].op /\ worker'[w].thing = worker[w].thing
                 /\ worker'[w].name = worker[w].name
           /\ \A e \in Disks \ {worker[w].thing} : vdisk'[e] = vdisk[e] /\ image'[e] = image[e]
           /\ \A x \in Workers \ {w} : worker'[x] = worker[x]
<1> DEFINE r == worker[w]
<1>1. /\ r \in WorkerState /\ Request(r) /\ worker \in [Workers -> WorkerState]
      /\ vdisk \in [Disks -> VdiskRow] /\ image \in [Disks -> ImageName]
  BY TypedPlaces DEF TInv, TypeOK
<1>2. r.pc \in {"claim", "save", "create_image", "unsave", "undo_claim", "soft_delete", "rename",
                "remove_image", "free", "rowdel"}
  BY DEF MakerStep, ClaimQuota, SaveVdisk, CreateCephDisk, UnsaveVdisk, UndoClaim, SoftDelete,
     RenameDiskRbdName, RemoveCephDisk, FreeVdisk, DeleteVdiskRow, At
<1>3. /\ r.thing \in Disks
      /\ \/ /\ r.pc \in {"claim", "save", "create_image", "unsave", "undo_claim"}
            /\ r.op = "create_vdisk"
         \/ r.pc \in {"soft_delete", "rename"} /\ r.op = "destroy_vdisk"
         \/ r.pc \in {"remove_image", "free", "rowdel"} /\ r.op = "admin_delete"
  BY <1>1, <1>2 DEF Request, Idle
<1>4. r # Idle
  BY <1>2 DEF Idle
<1>5. \/ worker'[w] = Idle
      \/ worker'[w].op = r.op /\ worker'[w].thing = r.thing /\ worker'[w].name = r.name
  BY <1>3, <1>4, OneWorker
<1>6. \A x \in Workers \ {w} : worker'[x] = worker[x]
  BY OneWorker
<1>7. (vdisk' = vdisk \/ \E row : vdisk' = [vdisk EXCEPT ![r.thing] = row])
      /\ (image' = image \/ \E name : image' = [image EXCEPT ![r.thing] = name])
  BY DEF MakerStep, ClaimQuota, SaveVdisk, CreateCephDisk, UnsaveVdisk, UndoClaim, SoftDelete,
     RenameDiskRbdName, RemoveCephDisk, FreeVdisk, DeleteVdiskRow, RowsUnchanged, PoolUnchanged
<1>8. \A e \in Disks \ {r.thing} : vdisk'[e] = vdisk[e] /\ image'[e] = image[e]
  BY <1>1, <1>7
<1>9. QED
  BY <1>3, <1>5, <1>6, <1>8

\* The steps that make a disk.
LEMMA CreateImages ==
    ASSUME TInv, MeetInv, MakersInv, HoldersApart, RemovedApart, NEW w \in Workers, Step(w),
           ClaimQuota(w) \/ SaveVdisk(w) \/ CreateCephDisk(w) \/ UnsaveVdisk(w) \/ UndoClaim(w),
           NEW d \in Disks, d = worker[w].thing, DiskImage(d)
    PROVE  DiskImage(d)'
<1> DEFINE r == worker[w]
           s == worker'[w]
<1>1. /\ r \in WorkerState /\ worker \in [Workers -> WorkerState]
      /\ vdisk \in [Disks -> VdiskRow] /\ image \in [Disks -> ImageName] /\ d # NoThing
  BY TypedPlaces, AttachmentAssumption DEF TInv, TypeOK, Things
<1>2. /\ r.pc \in {"claim", "save", "create_image", "unsave", "undo_claim"} /\ r.op = "create_vdisk"
      /\ s = Idle \/ (s.op = r.op /\ s.thing = d)
      /\ \A x \in Workers \ {w} : worker'[x] = worker[x]
  BY MakerFacts DEF MakerStep, ClaimQuota, SaveVdisk, CreateCephDisk, UnsaveVdisk, UndoClaim, At
<1>3. /\ ImageSound(vdisk[d], image[d], HalfWay(d))
      /\ KnowsImage(r, vdisk[d], image[d])
      /\ \A x \in Workers : worker[x].thing = d =>
            /\ KnowsImage(worker[x], vdisk[d], image[d]) /\ NoDestroy(r, worker[x])
  BY DEF DiskImage
<1>4. MakerSound(w)
  BY DEF MakersInv
<1>5. ASSUME NEW x \in Workers \ {w}, worker[x].thing = d
      PROVE  /\ worker[x].op \notin {"create_vdisk", "admin_delete", "mount_disk"}
             /\ worker[x].pc \notin HalfPcs \cup {"remove_image"}
             /\ worker[x].pc = "rename" => worker[x].op = "destroy_vdisk"
  BY <1>2, <1>5, ImageApart, TypedPlaces DEF Makers, Request, Idle, HalfPcs
<1>6. (s = Idle => s.thing # d) /\ (s.thing = d => s.op = r.op)
  BY <1>1, <1>2 DEF Idle
<1>7. ASSUME HalfWay(d)
      PROVE  r.pc \in HalfPcs
  BY <1>5, <1>7 DEF HalfWay
<1>8. CASE ClaimQuota(w)
  <2>1. r.pc = "claim" /\ vdisk' = vdisk /\ image' = image
    BY <1>8 DEF ClaimQuota, At, RowsUnchanged
  <2>2. s = Idle \/ s.pc = "save"
    <3>1. \/ worker' = [worker EXCEPT ![w] = Idle]
          \/ \E q : worker' = [worker EXCEPT ![w].pc = "save", ![w].quota = q,
                                             ![w].loaded = Idle.loaded]
      BY <1>8 DEF ClaimQuota, End
    <3>2. ASSUME NEW q, worker' = [worker EXCEPT ![w].pc = "save", ![w].quota = q,
                                                ![w].loaded = Idle.loaded]
          PROVE  s.pc = "save"
      BY <1>1, <3>2 DEF WorkerState
    <3>3. QED
      BY <1>1, <3>1, <3>2
  <2>3. ~HalfWay(d)
    BY <1>7, <2>1 DEF HalfPcs
  <2>4. ImageSound(vdisk'[d], image'[d], HalfWay(d)')
    BY <1>3, <2>1, <2>3 DEF ImageSound
  <2>5. s.thing = d => KnowsImage(s, vdisk'[d], image'[d])
    BY <1>2, <1>6, <2>2 DEF KnowsImage, HalfPcs
  <2>6. QED
    BY <1>2, <1>3, <1>6, <2>1, <2>2, <2>4, <2>5, ImageWritten
<1>9. CASE SaveVdisk(w)
  <2>1. r.pc = "save" /\ image' = image /\ s.pc = "create_image" /\ s.thing = d
    BY <1>1, <1>9 DEF SaveVdisk, At, Goto, PoolUnchanged, WorkerState
  <2>2. vdisk'[d].state = "live"
    BY <1>1, <1>9 DEF SaveVdisk, NoRow
  <2>3. image[d] = "none"
    BY <1>3, <1>4, <2>1 DEF MakerSound, ImageSound
  <2>4. HalfWay(d)'
    BY <2>1 DEF HalfWay, HalfPcs
  <2>5. ImageSound(vdisk'[d], image'[d], HalfWay(d)')
    BY <2>2, <2>4 DEF ImageSound
  <2>6. KnowsImage(s, vdisk'[d], image'[d])
    BY <1>2, <2>1, <2>3 DEF KnowsImage, Idle
  <2>7. ASSUME NEW x \in Workers \ {w}, worker[x].thing = d
        PROVE  KnowsImage(worker[x], vdisk'[d], image'[d])
    BY <1>3, <1>5, <2>1, <2>7 DEF NoDestroy, KnowsImage
  <2>8. QED
    BY <1>2, <1>6, <2>1, <2>5, <2>6, <2>7, ImageWritten
<1>10. CASE CreateCephDisk(w)
  <2>1. r.pc = "create_image" /\ vdisk' = vdisk
    BY <1>10 DEF CreateCephDisk, At, RowsUnchanged
  <2>2. vdisk[d].state # "none"
    BY <1>4, <2>1 DEF MakerSound
  <2>3. \/ s = Idle /\ image'[d] = "uuid"
        \/ s.pc = "unsave" /\ s.thing = d /\ image' = image
    BY <1>1, <1>10 DEF CreateCephDisk, End, Goto, WorkerState
  <2>4. ImageSound(vdisk'[d], image'[d], HalfWay(d)')
    <3>1. CASE image'[d] = "uuid"
      BY <1>3, <2>1, <2>2, <3>1 DEF ImageSound
    <3>2. CASE s.pc = "unsave" /\ s.thing = d /\ image' = image
      BY <1>3, <2>1, <3>2 DEF HalfWay, HalfPcs, ImageSound
    <3>3. QED
      BY <2>3, <3>1, <3>2
  <2>5. s.thing = d => KnowsImage(s, vdisk'[d], image'[d])
    BY <1>2, <1>3, <1>6, <2>1, <2>3 DEF KnowsImage, HalfPcs
  <2>6. ASSUME NEW x \in Workers \ {w}, worker[x].thing = d
        PROVE  KnowsImage(worker[x], vdisk'[d], image'[d])
    BY <1>3, <1>5, <2>1, <2>6 DEF KnowsImage
  <2>7. QED
    BY <1>2, <1>6, <2>3, <2>4, <2>5, <2>6, ImageWritten
<1>11. CASE UnsaveVdisk(w)
  <2>1. r.pc = "unsave" /\ image' = image /\ s.pc = "undo_claim" /\ s.thing = d
    BY <1>1, <1>11 DEF UnsaveVdisk, At, Goto, PoolUnchanged, WorkerState
  <2>2. vdisk'[d].state = "none"
    BY <1>1, <1>11 DEF UnsaveVdisk, NoRow
  <2>3. image[d] = "none"
    BY <1>3, <2>1 DEF KnowsImage, HalfPcs
  <2>4. ImageSound(vdisk'[d], image'[d], HalfWay(d)')
    BY <2>1, <2>2, <2>3 DEF ImageSound
  <2>5. KnowsImage(s, vdisk'[d], image'[d])
    BY <1>2, <2>1, <2>2 DEF KnowsImage, HalfPcs, Idle
  <2>6. ASSUME NEW x \in Workers \ {w}, worker[x].thing = d
        PROVE  KnowsImage(worker[x], vdisk'[d], image'[d])
    BY <1>5, <2>2, <2>6 DEF KnowsImage
  <2>7. QED
    BY <1>2, <1>6, <2>1, <2>4, <2>5, <2>6, ImageWritten
<1>12. CASE UndoClaim(w)
  <2>1. r.pc = "undo_claim" /\ vdisk' = vdisk /\ image' = image /\ s = Idle
    BY <1>1, <1>12 DEF UndoClaim, At, End, RowsUnchanged
  <2>2. ~HalfWay(d)
    BY <1>7, <2>1 DEF HalfPcs
  <2>3. ImageSound(vdisk'[d], image'[d], HalfWay(d)')
    BY <1>3, <2>1, <2>2 DEF ImageSound
  <2>4. QED
    BY <1>2, <1>3, <1>6, <2>1, <2>3, ImageWritten
<1>13. QED
  BY <1>8, <1>9, <1>10, <1>11, <1>12

\* The steps that soft-delete a disk.
LEMMA DestroyImages ==
    ASSUME TInv, MeetInv, KnowsInv, MakersInv, HoldersApart, RemovedApart,
           NEW w \in Workers, Step(w), SoftDelete(w) \/ RenameDiskRbdName(w),
           NEW d \in Disks, d = worker[w].thing, DiskImage(d)
    PROVE  DiskImage(d)'
<1> DEFINE r == worker[w]
           s == worker'[w]
<1>1. /\ r \in WorkerState /\ worker \in [Workers -> WorkerState]
      /\ vdisk \in [Disks -> VdiskRow] /\ image \in [Disks -> ImageName] /\ d # NoThing
  BY TypedPlaces, AttachmentAssumption DEF TInv, TypeOK, Things
<1>2. /\ r.pc \in {"soft_delete", "rename"} /\ r.op = "destroy_vdisk"
      /\ s = Idle \/ (s.op = r.op /\ s.thing = d)
      /\ \A x \in Workers \ {w} : worker'[x] = worker[x]
  BY MakerFacts DEF MakerStep, SoftDelete, RenameDiskRbdName, At
<1>3. /\ ImageSound(vdisk[d], image[d], HalfWay(d))
      /\ KnowsImage(r, vdisk[d], image[d])
      /\ \A x \in Workers : worker[x].thing = d => KnowsImage(worker[x], vdisk[d], image[d])
  BY DEF DiskImage
<1>4. ASSUME NEW x \in Workers \ {w}, worker[x].thing = d
      PROVE  worker[x].op \notin {"admin_delete", "mount_disk"} /\ worker[x].pc # "remove_image"
  BY <1>2, <1>4, ImageApart, TypedPlaces DEF Request, Idle
<1>5. (s = Idle => s.thing # d) /\ (s.thing = d => s.op = r.op)
  BY <1>1, <1>2 DEF Idle
<1>6. CASE SoftDelete(w)
  <2>1. r.pc = "soft_delete" /\ image' = image
    BY <1>6 DEF SoftDelete, At, PoolUnchanged
  <2>2. \/ s = Idle /\ vdisk' = vdisk
        \/ /\ s.pc = "rename" /\ vdisk'[d].state = "deleted" /\ vdisk'[d].vm = vdisk[d].vm
           /\ vdisk[d].state # "none"
    BY <1>1, <1>6 DEF SoftDelete, End, Goto, WorkerState, VdiskRow
  <2>3. s.pc \notin HalfPcs /\ r.pc \notin HalfPcs
    BY <2>1, <2>2 DEF HalfPcs, Idle
  <2>4. HalfWay(d)' <=> HalfWay(d)
    BY <1>2, <2>3 DEF HalfWay
  <2>5. CASE vdisk' = vdisk /\ s = Idle
    BY <1>2, <1>3, <1>5, <2>1, <2>4, <2>5, ImageWritten DEF ImageSound
  <2>6. CASE /\ s.pc = "rename" /\ vdisk'[d].state = "deleted" /\ vdisk'[d].vm = vdisk[d].vm
             /\ vdisk[d].state # "none"
    <3>1. vdisk[d].vm = NoVm
      BY <1>2, PlaceFacts DEF KnowsInv, Knows, KnowsDisk
    <3>2. vdisk[d].state \in {"live", "deleted"}
      BY <1>1, <2>6 DEF VdiskRow
    <3>3. HalfWay(d) \/ image[d] # "none"
      BY <1>3, <3>2 DEF ImageSound
    <3>4. ImageSound(vdisk'[d], image'[d], HalfWay(d)')
      BY <2>1, <2>4, <2>6, <3>1, <3>3 DEF ImageSound
    <3>5. s.thing = d => KnowsImage(s, vdisk'[d], image'[d])
      BY <1>2, <1>5, <2>6 DEF KnowsImage, HalfPcs
    <3>6. ASSUME NEW x \in Workers \ {w}, worker[x].thing = d
          PROVE  KnowsImage(worker[x], vdisk'[d], image'[d])
      BY <1>3, <1>4, <2>1, <2>6, <3>6 DEF KnowsImage
    <3>7. QED
      BY <1>2, <1>5, <2>6, <3>4, <3>5, <3>6, ImageWritten
  <2>7. QED
    BY <2>2, <2>5, <2>6
<1>7. CASE RenameDiskRbdName(w)
  <2>1. r.pc = "rename" /\ s = Idle /\ vdisk' = vdisk
    BY <1>1, <1>7 DEF RenameDiskRbdName, At, End, RowsUnchanged
  <2>2. \/ image[d] = "uuid" /\ vdisk[d].state # "none" /\ image'[d] = "deleted"
        \/ image' = image
    BY <1>1, <1>7 DEF RenameDiskRbdName
  <2>3. s.pc \notin HalfPcs /\ r.pc \notin HalfPcs
    BY <2>1 DEF HalfPcs, Idle
  <2>4. HalfWay(d)' <=> HalfWay(d)
    BY <1>2, <2>3 DEF HalfWay
  <2>5. CASE image' = image
    BY <1>2, <1>3, <1>5, <2>1, <2>4, <2>5, ImageWritten DEF ImageSound
  <2>6. CASE image[d] = "uuid" /\ vdisk[d].state # "none" /\ image'[d] = "deleted"
    <3>1. vdisk[d].state = "deleted"
      BY <1>1, <1>3, <2>1, <2>6 DEF VdiskRow, KnowsImage
    <3>2. ImageSound(vdisk'[d], image'[d], HalfWay(d)')
      BY <1>3, <2>1, <2>6, <3>1 DEF ImageSound
    <3>3. ASSUME NEW x \in Workers \ {w}, worker[x].thing = d
          PROVE  KnowsImage(worker[x], vdisk'[d], image'[d])
      BY <1>3, <1>4, <2>1, <2>6, <3>1, <3>3 DEF KnowsImage
    <3>4. QED
      BY <1>2, <1>5, <2>1, <3>2, <3>3, ImageWritten
  <2>7. QED
    BY <2>2, <2>5, <2>6
<1>8. QED
  BY <1>6, <1>7

\* The steps that remove a disk for good.
LEMMA RemoveImages ==
    ASSUME TInv, MeetInv, MakersInv, HoldersApart, RemovedApart,
           NEW w \in Workers, Step(w), RemoveCephDisk(w) \/ FreeVdisk(w) \/ DeleteVdiskRow(w),
           NEW d \in Disks, d = worker[w].thing, DiskImage(d)
    PROVE  DiskImage(d)'
<1> DEFINE r == worker[w]
           s == worker'[w]
<1>1. /\ r \in WorkerState /\ worker \in [Workers -> WorkerState]
      /\ vdisk \in [Disks -> VdiskRow] /\ image \in [Disks -> ImageName] /\ d # NoThing
  BY TypedPlaces, AttachmentAssumption DEF TInv, TypeOK, Things
<1>2. /\ r.pc \in {"remove_image", "free", "rowdel"} /\ r.op = "admin_delete"
      /\ s = Idle \/ (s.op = r.op /\ s.thing = d /\ s.name = r.name)
      /\ \A x \in Workers \ {w} : worker'[x] = worker[x]
  BY MakerFacts DEF MakerStep, RemoveCephDisk, FreeVdisk, DeleteVdiskRow, At
<1>3. ImageSound(vdisk[d], image[d], HalfWay(d)) /\ KnowsImage(r, vdisk[d], image[d])
  BY DEF DiskImage
<1>4. ASSUME NEW x \in Workers \ {w}, worker[x].thing = d
      PROVE  /\ worker[x].pc \notin HalfPcs
             /\ \A row, name : KnowsImage(worker[x], row, name)
  BY <1>2, <1>4, ImageApart, TypedPlaces DEF Makers, Request, Idle, HalfPcs, KnowsImage
<1>5. (s = Idle => s.thing # d) /\ (s.thing = d => s.op = r.op)
  BY <1>1, <1>2 DEF Idle
<1>6. r.pc \in {"free", "rowdel"} => image[d] = "none"
  BY <1>3 DEF KnowsImage, HalfPcs
<1>7. CASE /\ s.pc \in {"free", "rowdel"} /\ s.thing = d /\ vdisk' = vdisk
           /\ image'[d] = "none"
  <2>1. HalfWay(d)'
    BY <1>7 DEF HalfWay, HalfPcs
  <2>2. ImageSound(vdisk'[d], image'[d], HalfWay(d)')
    BY <1>3, <1>7, <2>1 DEF ImageSound
  <2>3. KnowsImage(s, vdisk'[d], image'[d])
    BY <1>2, <1>5, <1>7 DEF KnowsImage
  <2>4. QED
    BY <1>2, <1>4, <1>5, <1>7, <2>2, <2>3, ImageWritten
<1>8. CASE RemoveCephDisk(w)
  <2>1. r.pc = "remove_image" /\ vdisk' = vdisk
    BY <1>8 DEF RemoveCephDisk, At, RowsUnchanged
  <2>2. image[d] = r.name
    BY <1>3, <2>1 DEF KnowsImage
  <2>3. \/ s.pc = "free" /\ image'[d] = "none"
        \/ s = Idle /\ image' = image
    BY <1>1, <1>8, <2>2 DEF RemoveCephDisk, Goto, End, WorkerState
  <2>4. CASE s.pc = "free" /\ image'[d] = "none"
    BY <1>2, <1>7, <2>1, <2>4 DEF Idle
  <2>5. CASE s = Idle /\ image' = image
    BY <1>2, <1>3, <1>4, <1>5, <2>1, <2>5, ImageWritten DEF HalfWay, HalfPcs, ImageSound
  <2>6. QED
    BY <2>3, <2>4, <2>5
<1>9. CASE FreeVdisk(w)
  BY <1>1, <1>6, <1>7, <1>9 DEF FreeVdisk, At, RowsUnchanged, Goto, WorkerState
<1>10. CASE DeleteVdiskRow(w)
  <2>1. r.pc = "rowdel" /\ image' = image /\ s = Idle /\ vdisk'[d].state = "none"
    BY <1>1, <1>10 DEF DeleteVdiskRow, At, End, PoolUnchanged, NoRow
  <2>2. ImageSound(vdisk'[d], image'[d], HalfWay(d)')
    BY <1>6, <2>1 DEF ImageSound
  <2>3. QED
    BY <1>2, <1>4, <1>5, <2>1, <2>2, ImageWritten
<1>11. QED
  BY <1>8, <1>9, <1>10

\* A request that begins knows what it has to.
LEMMA ImageBegun ==
    ASSUME NEW d \in Disks, DiskImage(d), NEW w \in Workers, worker[w] = Idle,
           \A x \in Workers \ {w} : worker'[x] = worker[x],
           vdisk' = vdisk, image' = image,
           worker'[w].thing = d =>
              /\ worker'[w].pc \notin HalfPcs
              /\ KnowsImage(worker'[w], vdisk[d], image[d])
              /\ NoDestroy(worker'[w], worker'[w])
              /\ \A x \in Workers \ {w} : worker[x].thing = d =>
                    NoDestroy(worker'[w], worker[x]) /\ NoDestroy(worker[x], worker'[w])
    PROVE  DiskImage(d)'
<1>1. worker[w].pc \notin HalfPcs
  BY DEF Idle, HalfPcs
<1>2. HalfWay(d)' <=> HalfWay(d)
  BY <1>1 DEF HalfWay
<1>3. ImageSound(vdisk'[d], image'[d], HalfWay(d)')
  BY <1>2 DEF DiskImage, ImageSound
<1>4. ASSUME NEW x \in Workers, worker'[x].thing = d
      PROVE  KnowsImage(worker'[x], vdisk'[d], image'[d])
  BY <1>4 DEF DiskImage
<1>5. ASSUME NEW x \in Workers, NEW y \in Workers, worker'[x].thing = d, worker'[y].thing = d
      PROVE  NoDestroy(worker'[x], worker'[y])
  BY <1>5 DEF DiskImage
<1>6. QED
  BY <1>3, <1>4, <1>5 DEF DiskImage

\* So every request does.
LEMMA StartImages ==
    ASSUME TInv, TInv', MakersInv, NEW w \in Workers, Step(w),
           DiskRequest(w) \/ DeviceRequest(w) \/ VmRequest(w),
           NEW d \in Disks, DiskImage(d)
    PROVE  DiskImage(d)'
<1> DEFINE r == worker[w]
           s == worker'[w]
<1>1. /\ r \in WorkerState /\ worker \in [Workers -> WorkerState] /\ Request(r) /\ Request(s)
      /\ vdisk \in [Disks -> VdiskRow] /\ d # NoThing
  BY TypedPlaces, AttachmentAssumption DEF TInv, TypeOK, Things, RequestsInv
<1>2. vdisk' = vdisk /\ image' = image /\ r.pc = "idle"
  BY DEF DiskRequest, DeviceRequest, VmRequest, CreateVdisk, DestroyVdisk, AdminDelete,
     UmountDisk, MountDisk, MountPci, UmountPci, AttachIp, DetachIp, PowerOn, PowerOff, DeleteVm,
     Shelve, Unshelve, Delshelve, MissFix, Lose, RowsUnchanged, PoolUnchanged, MayStart, At
<1>3. r = Idle /\ \A x \in Workers \ {w} : worker'[x] = worker[x]
  BY <1>1, <1>2, OneWorker DEF Request
<1>4. CASE CreateVdisk(w, d)
  BY <1>1, <1>2, <1>3, <1>4, ImageBegun DEF CreateVdisk, Idle, BusyOn, KnowsImage, NoDestroy, HalfPcs
<1>5. CASE AdminDelete(w, d)
  BY <1>1, <1>2, <1>3, <1>5, ImageBegun DEF AdminDelete, Idle, KnowsImage, NoDestroy, HalfPcs
<1>6. CASE DestroyVdisk(w, d)
  <2>1. s.op = "destroy_vdisk" /\ s.thing = d /\ s.pc = "soft_delete"
    BY <1>1, <1>6 DEF DestroyVdisk, Begin, Idle
  <2>2. /\ KnowsImage(s, vdisk[d], image[d]) /\ s.pc \notin HalfPcs
        /\ \A q : NoDestroy(s, q)
    BY <2>1 DEF KnowsImage, NoDestroy, HalfPcs
  <2>3. ASSUME NEW x \in Workers \ {w}, worker[x].thing = d
        PROVE  NoDestroy(worker[x], s)
    BY <1>6, <2>3 DEF MakersInv, DestroyVdisk, MakerSound, NoDestroy
  <2>4. QED
    BY <1>2, <1>3, <2>2, <2>3, ImageBegun
<1>7. CASE \E v \in Vms : MountDisk(w, d, v)
  <2>1. PICK v \in Vms : MountDisk(w, d, v)
    BY <1>7
  <2>2. s.op = "mount_disk" /\ s.pc = "mount_row" /\ vdisk[d].state = "live"
    BY <1>1, <2>1 DEF MountDisk, Idle
  <2>3. /\ KnowsImage(s, vdisk[d], image[d]) /\ s.pc \notin HalfPcs
        /\ \A q : NoDestroy(s, q) /\ NoDestroy(q, s)
    BY <2>2 DEF KnowsImage, NoDestroy, HalfPcs
  <2>4. QED
    BY <1>2, <1>3, <2>3, ImageBegun
<1>8. CASE /\ ~CreateVdisk(w, d) /\ ~AdminDelete(w, d) /\ ~DestroyVdisk(w, d)
           /\ ~\E v \in Vms : MountDisk(w, d, v)
  <2>0. ASSUME NEW op, NEW v, NEW t, NEW pc, Begin(w, op, v, t, pc)
        PROVE  s.op = op /\ s.thing = t
    BY <1>1, <2>0 DEF Begin, Idle
  <2>1. \/ s.thing # d
        \/ s.op \notin {"create_vdisk", "admin_delete", "destroy_vdisk", "mount_disk"}
    <3>1. CASE DiskRequest(w)
      <4>1. PICK e \in Disks : \/ CreateVdisk(w, e) \/ DestroyVdisk(w, e) \/ AdminDelete(w, e)
                               \/ UmountDisk(w, e) \/ \E v \in Vms : MountDisk(w, e, v)
        BY <3>1 DEF DiskRequest
      <4>2. s.thing = e
        <5>1. CASE CreateVdisk(w, e)
          BY <1>1, <5>1 DEF CreateVdisk, Idle
        <5>2. CASE DestroyVdisk(w, e)
          BY <2>0, <5>2 DEF DestroyVdisk
        <5>3. CASE AdminDelete(w, e)
          BY <1>1, <5>3 DEF AdminDelete, Idle
        <5>4. CASE UmountDisk(w, e)
          BY <1>1, <5>4 DEF UmountDisk, Idle
        <5>5. ASSUME NEW v \in Vms, MountDisk(w, e, v)
              PROVE  s.thing = e
          BY <1>1, <5>5 DEF MountDisk, Idle
        <5>6. QED
          BY <4>1, <5>1, <5>2, <5>3, <5>4, <5>5
      <4>3. CASE e = d
        <5>1. UmountDisk(w, e)
          BY <1>8, <4>1, <4>3
        <5>2. s.op = "umount_disk"
          BY <1>1, <5>1 DEF UmountDisk, Idle
        <5>3. QED
          BY <5>2
      <4>4. QED
        BY <4>2, <4>3
    <3>2. CASE DeviceRequest(w) \/ VmRequest(w)
      <4>1. s.op \in {"mount_pci", "umount_pci", "attach_ip", "detach_ip", "delete_vm", "shelve",
                      "unshelve", "delshelve", "miss_fix"} \/ s = Idle
        <5>1. CASE DeviceRequest(w)
          BY <2>0, <5>1 DEF DeviceRequest, MountPci, UmountPci, AttachIp, DetachIp
        <5>2. CASE VmRequest(w)
          BY <1>3, <2>0, <5>2 DEF VmRequest, PowerOn, PowerOff, DeleteVm, Shelve, Unshelve,
             Delshelve, MissFix, Lose
        <5>3. QED
          BY <3>2, <5>1, <5>2
      <4>2. QED
        BY <4>1 DEF Idle
    <3>3. QED
      BY <3>1, <3>2
  <2>2. CASE s.op \notin {"create_vdisk", "admin_delete", "destroy_vdisk", "mount_disk"}
    BY <1>1, <1>2, <1>3, <2>2, ImageBegun DEF Request, Idle, HalfPcs, KnowsImage, NoDestroy
  <2>3. CASE s.thing # d
    BY <1>2, <1>3, <2>3, ImageBegun
  <2>4. QED
    BY <2>1, <2>2, <2>3
<1>9. QED
  BY <1>4, <1>5, <1>6, <1>7, <1>8

\* The steps that are about machines, devices and addresses.
LEMMA OtherImages ==
    ASSUME TInv, TInv', NEW w \in Workers, Step(w), Serve(w), ~MakerStep(w),
           NEW d \in Disks, DiskImage(d)
    PROVE  DiskImage(d)'
<1> DEFINE r == worker[w]
           s == worker'[w]
           Kept == /\ vdisk'[d].state = vdisk[d].state
                   /\ vdisk'[d].vm \in {vdisk[d].vm, NoVm} \/ vdisk[d].state = "live"
<1>1. /\ r \in WorkerState /\ worker \in [Workers -> WorkerState] /\ Request(r) /\ Request(s)
      /\ vdisk \in [Disks -> VdiskRow] /\ d # NoThing
  BY TypedPlaces, AttachmentAssumption DEF TInv, TypeOK, Things, RequestsInv
<1>2. \/ Attach(w) \/ Detach(w) \/ ApplyIp(w) \/ AttachRow(w) \/ FreeAttachedIp(w)
      \/ DeleteAttachedIp(w) \/ CheckAttachedIp(w) \/ Undefine(w) \/ ShelveSave(w)
      \/ UnshelveSave(w) \/ Define(w) \/ MountVdisks(w) \/ FixAttach(w)
      \/ MountRow(w) \/ UndoMount(w) \/ UmountRow(w) \/ DeleteVmRow(w) \/ FixUmount(w)
  BY DEF Serve, MakerStep
<1>3. image' = image
  BY <1>2 DEF Attach, Detach, ApplyIp, AttachRow, FreeAttachedIp, DeleteAttachedIp, CheckAttachedIp,
     Undefine, ShelveSave, UnshelveSave, Define, MountVdisks, FixAttach, MountRow, UndoMount,
     UmountRow, DeleteVmRow, FixUmount, PoolUnchanged
<1>4. r.pc \notin HalfPcs \cup {"idle", "claim", "save", "undo_claim", "remove_image",
                                "soft_delete", "rename"}
  BY <1>2 DEF Attach, Detach, ApplyIp, AttachRow, FreeAttachedIp, DeleteAttachedIp, CheckAttachedIp,
     Undefine, ShelveSave, UnshelveSave, Define, MountVdisks, FixAttach, MountRow, UndoMount,
     UmountRow, DeleteVmRow, FixUmount, At, HalfPcs
<1>5. r.op \notin {"create_vdisk", "admin_delete", "destroy_vdisk"} /\ r # Idle
  BY <1>1, <1>4 DEF Request, Idle, HalfPcs
<1>6. /\ \A x \in Workers \ {w} : worker'[x] = worker[x]
      /\ s = Idle \/ (s.op = r.op /\ (s.thing = r.thing \/ r.op = "miss_fix"))
  BY <1>5, OneWorker
<1>7. s.op \notin {"create_vdisk", "admin_delete", "destroy_vdisk"}
  BY <1>5, <1>6 DEF Idle
<1>8. s.pc \notin HalfPcs \cup {"claim", "save", "remove_image", "rename"}
  BY <1>1, <1>7 DEF Request, Idle, HalfPcs
<1>9. s.thing = d => (s.op = "mount_disk" => vdisk[d].state = "live")
  <2>1. SUFFICES ASSUME s.thing = d, s.op = "mount_disk"
                 PROVE  vdisk[d].state = "live"
    OBVIOUS
  <2>2. r.op = "mount_disk" /\ r.thing = d
    BY <1>1, <1>6, <2>1 DEF Idle
  <2>3. QED
    BY <2>2 DEF DiskImage, KnowsImage
<1>10. ASSUME UnmountRow(r.thing)
       PROVE  Kept
  BY <1>1, <1>10 DEF UnmountRow, VdiskRow
<1>11. Kept
  <2>1. CASE vdisk' = vdisk
    BY <2>1
  <2>2. CASE UndoMount(w) \/ FixUmount(w) \/ UmountRow(w)
    BY <1>10, <2>1, <2>2 DEF UndoMount, FixUmount, UmountRow
  <2>3. CASE DeleteVmRow(w)
    BY <1>1, <2>3 DEF DeleteVmRow, VdiskRow
  <2>4. CASE MountRow(w) /\ vdisk' # vdisk
    <3>1. /\ r.pc = "mount_row" /\ r.thing \in Disks
          /\ vdisk' = [vdisk EXCEPT ![r.thing].vm = r.vm, ![r.thing].dev = r.dev]
      BY <2>4 DEF MountRow, At
    <3>2. r.op = "mount_disk"
      BY <1>1, <3>1, MountPcs, DomainAssumption
    <3>3. CASE r.thing = d
      BY <1>1, <3>1, <3>2, <3>3 DEF DiskImage, KnowsImage, VdiskRow
    <3>4. CASE r.thing # d
      BY <1>1, <3>1, <3>4
    <3>5. QED
      BY <3>3, <3>4
  <2>5. CASE ~(MountRow(w) \/ UndoMount(w) \/ UmountRow(w) \/ DeleteVmRow(w) \/ FixUmount(w))
    <3>1. vdisk' = vdisk
      BY <1>2, <2>5 DEF Attach, Detach, ApplyIp, AttachRow, FreeAttachedIp, DeleteAttachedIp,
         CheckAttachedIp, Undefine, ShelveSave, UnshelveSave, Define, MountVdisks, FixAttach,
         RowsUnchanged
    <3>2. QED
      BY <2>1, <3>1
  <2>6. QED
    BY <2>1, <2>2, <2>3, <2>4, <2>5
<1>12. QED
  BY <1>3, <1>4, <1>6, <1>7, <1>8, <1>9, <1>11, ImageKept

\* Every step keeps images and rows together.
LEMMA NextImages ==
    ASSUME HoldersApart, RemovedApart
    PROVE  HInv /\ MakersInv /\ ImagesInv /\ [Next]_vars => MakersInv' /\ ImagesInv'
<1> SUFFICES ASSUME HInv, MakersInv, ImagesInv, [Next]_vars
             PROVE  MakersInv' /\ ImagesInv'
  OBVIOUS
<1>1. TInv /\ TInv' /\ MeetInv /\ KnowsInv
  BY NextTypes DEF HInv
<1>2. CASE UNCHANGED vars
  BY <1>2 DEF vars, MakersInv, OneMaker, MakerSound, ImagesInv, DiskImage, HalfWay
<1>3. ASSUME NEW w \in Workers, Step(w)
      PROVE  MakersInv' /\ ImagesInv'
  <2>1. MakersInv'
    BY <1>1, <1>3, NextMakers DEF RemovedApart
  <2>2. ASSUME NEW d \in Disks
        PROVE  DiskImage(d)'
    <3>1. DiskImage(d)
      BY DEF ImagesInv
    <3>2. CASE DiskRequest(w) \/ DeviceRequest(w) \/ VmRequest(w)
      BY <1>1, <1>3, <3>1, <3>2, StartImages
    <3>3. CASE Serve(w) /\ ~MakerStep(w)
      BY <1>1, <1>3, <3>1, <3>3, OtherImages
    <3>4. CASE MakerStep(w) /\ d = worker[w].thing
      BY <1>1, <1>3, <3>1, <3>4, CreateImages, DestroyImages, RemoveImages DEF MakerStep
    <3>5. CASE MakerStep(w) /\ d # worker[w].thing
      <4>1. /\ vdisk'[d] = vdisk[d] /\ image'[d] = image[d]
            /\ \A x \in Workers \ {w} : worker'[x] = worker[x]
            /\ worker'[w].thing # d
        BY <1>1, <1>3, <3>5, AttachmentAssumption, MakerFacts DEF Things, Idle
      <4>2. QED
        BY <3>1, <3>5, <4>1, ImageKept
    <3>6. QED
      BY <1>3, <3>2, <3>3, <3>4, <3>5 DEF Step
  <2>3. QED
    BY <2>1, <2>2 DEF ImagesInv
<1>4. QED
  BY <1>2, <1>3 DEF Next, Step

\* At first there are neither.
LEMMA InitImages == Init => MakersInv /\ ImagesInv
<1> SUFFICES ASSUME Init
             PROVE  MakersInv /\ ImagesInv
  OBVIOUS
<1>1. MakersInv
  BY InitLedger
<1>2. ASSUME NEW d \in Disks
      PROVE  DiskImage(d)
  BY AttachmentAssumption DEF Init, Things, Idle, ImageSound, NoRow, DiskImage
<1>3. QED
  BY <1>1, <1>2 DEF ImagesInv

\* The image of a disk that is listed is there under its uuid, that of a disk
\* that was removed for good is gone, and no domain has a disk without a row: of
\* the create that fails half way, the renaming that fails and the removal of
\* which only the row is left.
THEOREM ImagesFollowRows ==
    ASSUME HoldersApart, RemovedApart
    PROVE  Spec => []ImageOfRow
<1>1. HInv /\ ImagesInv => ImageOfRow
  <2> SUFFICES ASSUME HInv, ImagesInv, NEW d \in Disks, Quiet(NoVm, d)
               PROVE  CASE vdisk[d].state = "live" -> image[d] = "uuid"
                        [] vdisk[d].state = "deleted" -> image[d] # "none" /\ vdisk[d].vm = NoVm
                        [] OTHER -> image[d] = "none" /\ \A v \in Vms : d \notin Attached(v)
    BY DEF ImageOfRow
  <2>1. d # NoThing /\ NoVm \notin Vms /\ TInv /\ vdisk[d] \in VdiskRow
    BY AttachmentAssumption DEF HInv, TInv, TypeOK, Things
  <2>2. ~HalfWay(d)
    BY <2>1 DEF Quiet, BusyOn, HalfWay
  <2>3. ImageSound(vdisk[d], image[d], FALSE)
    BY <2>2 DEF ImagesInv, DiskImage, ImageSound
  <2>4. ASSUME vdisk[d].state = "none", NEW v \in Vms
        PROVE  d \notin Attached(v)
    BY <2>1, <2>4, PlaceFacts DEF TInv, RowsInv, DiskRowSound, NoRow, HInv, HoldsInv, Attached, Att, Holds
  <2>5. vdisk[d].state \in {"none", "live", "deleted"}
    BY <2>1 DEF VdiskRow
  <2>6. QED
    BY <2>3, <2>4, <2>5 DEF ImageSound
<1>2. Init => HInv /\ MakersInv /\ ImagesInv
  BY InitHolders, InitImages
<1>3. HInv /\ MakersInv /\ ImagesInv /\ [Next]_vars => (HInv /\ MakersInv /\ ImagesInv)'
  BY NextHolders, NextImages
<1>4. QED
  BY <1>1, <1>2, <1>3, PTL DEF Spec

-----------------------------------------------------------------------------
(* Addresses.                                                              *)

\* Of the requests for an address one that detaches it is alone; and the vm of
\* a request for an address is not deleted, shelved or unshelved meanwhile.
AddressPairs ==
    ({"attach_ip", "detach_ip"} \X {"delete_vm", "shelve", "unshelve"})
    \cup {<<"attach_ip", "detach_ip">>, <<"detach_ip", "detach_ip">>, <<"delshelve", "unshelve">>}

AddressesApart ==
    \A k \in Workloads, p \in AddressPairs : p \notin k.overlaps /\ <<p[2], p[1]>> \notin k.overlaps

\* What an attached address is, but for one that a request has freed and whose
\* row it has yet to delete.
IpSound(i) ==
    attached[i] # "none" =>
       /\ attached[i] \in Vms /\ vm_status[attached[i]] = "normal"
       /\ used[i] \/ \E w \in Workers : worker[w].thing = i /\ worker[w].pc = "ip_rowdel"

\* What a request for the address knows of it.
KnowsIp(r, vm, flag) ==
    /\ r.pc = "ip_row" => flag
    /\ r.op = "attach_ip" =>
          /\ r.pc \in {"attach", "free_ip"} => flag
          /\ r.pc \in {"attach", "free_ip", "ip_rowdel"} => vm = r.vm
    /\ r.op = "detach_ip" => (r.pc \in {"detach", "ip_apply", "ip_row"} => vm = "none")

\* Two requests never both hold the flag of the address, or its row.
OneHolds(q, r) ==
    /\ ~({q.pc, r.pc} \subseteq {"ip_row", "attach", "free_ip"})
    /\ ~({q.pc, r.pc} \subseteq {"attach", "free_ip", "ip_rowdel"})

Address(i) ==
    /\ IpSound(i)
    /\ \A w \in Workers :
          worker[w].thing = i =>
             /\ KnowsIp(worker[w], attached[i], used[i])
             /\ \A x \in Workers \ {w} : worker[x].thing = i => OneHolds(worker[w], worker[x])

\* A request before which the vm had no attached address, and that is still
\* there.
Leaving(r) ==
    \/ r.op \in {"unshelve", "delshelve"}
    \/ r.op \in {"delete_vm", "shelve"} /\ r.pc \in {"undefine", "vm_rowdel", "shelve_save"}

KnowsAddresses(r) ==
    /\ r.op \in {"attach_ip", "detach_ip"} => vm_status[r.vm] = "normal"
    /\ r.op = "delshelve" => vm_status[r.vm] # "normal"
    /\ Leaving(r) => \A i \in Ips : attached[i] # r.vm

AddressesInv ==
    /\ \A i \in Ips : Address(i)
    /\ \A w \in Workers : KnowsAddresses(worker[w])

\* A request for an address is to attach or to detach it.
LEMMA AddressOps ==
    ASSUME NEW r, Request(r)
    PROVE  /\ r.thing \in Ips => r.op \in {"attach_ip", "detach_ip"} /\ r.vm \in Vms
           /\ r.op \in {"attach_ip", "detach_ip"} => r.thing \in Ips
           /\ Leaving(r) \/ r.op \in {"attach_ip", "detach_ip"} => r.vm \in Vms
<1>1. \A i \in Ips : i # NoThing /\ i \notin Disks /\ i \notin Devices
  BY AttachmentAssumption, DomainAssumption DEF Things
<1>2. r.thing \in Ips => r.op \in {"attach_ip", "detach_ip"} /\ r.vm \in Vms
  BY <1>1 DEF Request, Idle
<1>3. r.op \in {"attach_ip", "detach_ip"} => r.thing \in Ips /\ r.vm \in Vms
  BY DEF Request, Idle
<1>4. Leaving(r) => r.vm \in Vms
  BY DEF Request, Idle, Leaving
<1>5. QED
  BY <1>2, <1>3, <1>4

\* Which requests for a vm or an address are never at work together.
LEMMA AddressApart ==
    ASSUME AddressesApart, NEW k \in Workloads, NEW r, NEW q, Request(r), Request(q),
           Share(r, q) => MayMeet(k, r, q),
           \/ r.vm \in Vms /\ q.vm = r.vm
           \/ r.thing \in Ips /\ q.thing = r.thing
    PROVE  <<r.op, q.op>> \notin AddressPairs /\ <<q.op, r.op>> \notin AddressPairs
<1>1. NoVm \notin Vms /\ \A i \in Ips : i # NoThing
  BY AttachmentAssumption DEF Things
<1>2. r.thing \in Ips /\ q.thing = r.thing => r.op # "miss_fix" /\ q.op # "miss_fix"
  BY AddressOps
<1>3. Share(r, q)
  BY <1>1, <1>2 DEF Share
<1>4. <<r.op, q.op>> \in k.overlaps \/ <<q.op, r.op>> \in k.overlaps
  BY <1>3 DEF MayMeet
<1>5. ASSUME NEW p \in AddressPairs
      PROVE  p \notin k.overlaps /\ <<p[2], p[1]>> \notin k.overlaps
  BY DEF AddressesApart
<1>6. /\ <<r.op, q.op>>[1] = r.op /\ <<r.op, q.op>>[2] = q.op
      /\ <<q.op, r.op>>[1] = q.op /\ <<q.op, r.op>>[2] = r.op
  OBVIOUS
<1>7. QED
  BY <1>4, <1>5, <1>6

\* Of two requests for an address neither detaches it.
LEMMA BothAttach ==
    ASSUME AddressesApart, NEW k \in Workloads, NEW r, NEW q, Request(r), Request(q),
           Share(r, q) => MayMeet(k, r, q), r.thing \in Ips, q.thing = r.thing
    PROVE  r.op = "attach_ip" /\ q.op = "attach_ip" /\ q.vm \in Vms
<1>1. <<r.op, q.op>> \notin AddressPairs /\ <<q.op, r.op>> \notin AddressPairs
  BY AddressApart
<1>2. /\ r.op \in {"attach_ip", "detach_ip"}
      /\ q.op \in {"attach_ip", "detach_ip"} /\ q.vm \in Vms
  BY AddressOps
<1>3. QED
  BY <1>1, <1>2 DEF AddressPairs

\* A vm that is about to go, or that was shelved, is not the vm of a request
\* for an address.
LEMMA LeavesNoRequest ==
    ASSUME AddressesApart, NEW k \in Workloads, NEW r, NEW q, Request(r), Request(q),
           Share(r, q) => MayMeet(k, r, q), KnowsAddresses(r), KnowsAddresses(q),
           r.op \in {"attach_ip", "detach_ip"},
           q.op \in {"delete_vm", "shelve"} \/ Leaving(q)
    PROVE  q.vm # r.vm
<1> SUFFICES ASSUME q.vm = r.vm
             PROVE  FALSE
  OBVIOUS
<1>1. r.vm \in Vms
  BY AddressOps
<1>2. <<r.op, q.op>> \notin AddressPairs
  BY <1>1, AddressApart
<1>3. q.op = "delshelve"
  BY <1>2 DEF AddressPairs, Leaving
<1>4. QED
  BY <1>3 DEF KnowsAddresses

\* A step that changes nothing of an address, of a request for something else.
LEMMA AddressKept ==
    ASSUME NEW i \in Ips, Address(i), NEW w \in Workers,
           \A x \in Workers \ {w} : worker'[x] = worker[x],
           used'[i] = used[i], attached'[i] = attached[i],
           attached[i] # "none" => vm_status'[attached[i]] = vm_status[attached[i]],
           worker[w].thing # i, worker'[w].thing # i
    PROVE  Address(i)'
<1>1. \A x \in Workers : worker'[x].thing = i <=> worker[x].thing = i
  OBVIOUS
<1>2. \A x \in Workers : worker[x].thing = i => worker'[x] = worker[x]
  OBVIOUS
<1>3. IpSound(i)'
  BY <1>1, <1>2 DEF Address, IpSound
<1>4. QED
  BY <1>1, <1>2, <1>3 DEF Address

\* A step of a request for the address.
LEMMA AddressStep ==
    ASSUME NEW i \in Ips, Address(i), NEW w \in Workers,
           \A x \in Workers \ {w} : worker'[x] = worker[x],
           IpSound(i)',
           worker'[w].thing = i =>
              /\ KnowsIp(worker'[w], attached'[i], used'[i])
              /\ \A x \in Workers \ {w} : worker[x].thing = i => OneHolds(worker'[w], worker[x]),
           \A x \in Workers \ {w} :
              worker[x].thing = i => KnowsIp(worker[x], attached'[i], used'[i])
    PROVE  Address(i)'
<1>1. \A q, r : OneHolds(q, r) <=> OneHolds(r, q)
  BY DEF OneHolds
<1>2. ASSUME NEW y \in Workers, worker'[y].thing = i
      PROVE  /\ KnowsIp(worker'[y], attached'[i], used'[i])
             /\ \A x \in Workers \ {y} : worker'[x].thing = i => OneHolds(worker'[y], worker'[x])
  <2>1. CASE y = w
    BY <1>2, <2>1
  <2>2. CASE y # w
    <3>1. KnowsIp(worker'[y], attached'[i], used'[i])
      BY <1>2, <2>2
    <3>2. ASSUME NEW x \in Workers \ {y}, worker'[x].thing = i
          PROVE  OneHolds(worker'[y], worker'[x])
      BY <1>1, <1>2, <2>2, <3>2 DEF Address
    <3>3. QED
      BY <3>1, <3>2
  <2>3. QED
    BY <2>1, <2>2
<1>3. QED
  BY <1>2 DEF Address

\* How a request begins that is about an address, or about the vm of one.
LEMMA AddressBegins ==
    ASSUME TInv, NEW w \in Workers, DiskRequest(w) \/ DeviceRequest(w) \/ VmRequest(w)
    PROVE  /\ UNCHANGED <<attached, used, vm_status>> /\ worker[w] = Idle
           /\ \/ worker'[w].op \notin {"attach_ip", "detach_ip", "delete_vm", "shelve",
                                       "unshelve", "delshelve"}
              \/ /\ worker'[w].op = "attach_ip" /\ worker'[w].pc = "ip_apply"
                 /\ vm_status[worker'[w].vm] = "normal"
              \/ /\ worker'[w].op = "detach_ip" /\ worker'[w].pc = "free_ip"
                 /\ vm_status[worker'[w].vm] = "normal"
              \/ worker'[w].op \in {"delete_vm", "shelve"} /\ worker'[w].pc = "att_check"
              \/ worker'[w].op \in {"unshelve", "delshelve"} /\ vm_status[worker'[w].vm] = "shelve"
<1> DEFINE s == worker'[w]
<1>1. worker \in [Workers -> WorkerState] /\ Request(worker[w])
  BY DEF TInv, TypeOK, RequestsInv
<1>2. UNCHANGED <<attached, used, vm_status>> /\ worker[w].pc = "idle"
  BY DEF DiskRequest, DeviceRequest, VmRequest, CreateVdisk, DestroyVdisk, AdminDelete,
     UmountDisk, MountDisk, MountPci, UmountPci, AttachIp, DetachIp, PowerOn, PowerOff, DeleteVm,
     Shelve, Unshelve, Delshelve, MissFix, Lose, RowsUnchanged, VmsUnchanged, MayStart, At
<1>3. worker[w] = Idle
  BY <1>1, <1>2 DEF Request
<1>4. ASSUME NEW op, NEW v, NEW t, NEW pc, Begin(w, op, v, t, pc)
      PROVE  s.op = op /\ s.vm = v /\ s.pc = pc
  BY <1>1, <1>4 DEF Begin, Idle
<1>5. CASE DiskRequest(w)
  <2>1. ASSUME NEW d \in Disks, NEW v \in Vms, MountDisk(w, d, v)
        PROVE  s.op = "mount_disk"
    BY <1>1, <2>1 DEF MountDisk, Idle
  <2>2. ASSUME NEW d \in Disks, CreateVdisk(w, d) \/ AdminDelete(w, d) \/ UmountDisk(w, d)
        PROVE  s.op \in {"create_vdisk", "admin_delete", "umount_disk"}
    <3>1. CASE CreateVdisk(w, d)
      BY <1>1, <3>1 DEF CreateVdisk, Idle
    <3>2. CASE AdminDelete(w, d)
      BY <1>1, <3>2 DEF AdminDelete, Idle
    <3>3. CASE UmountDisk(w, d)
      BY <1>1, <3>3 DEF UmountDisk, Idle
    <3>4. QED
      BY <2>2, <3>1, <3>2, <3>3
  <2>3. ASSUME NEW d \in Disks, DestroyVdisk(w, d)
        PROVE  s.op = "destroy_vdisk"
    BY <1>4, <2>3 DEF DestroyVdisk
  <2>4. s.op \in {"create_vdisk", "admin_delete", "umount_disk", "destroy_vdisk", "mount_disk"}
    BY <1>5, <2>1, <2>2, <2>3 DEF DiskRequest
  <2>5. QED
    BY <1>2, <1>3, <2>4
<1>6. CASE DeviceRequest(w)
  <2>1. ASSUME NEW i \in Ips, NEW v \in Vms, AttachIp(w, i, v)
        PROVE  s.op = "attach_ip" /\ s.pc = "ip_apply" /\ vm_status[s.vm] = "normal"
    BY <1>4, <2>1 DEF AttachIp, Normal
  <2>2. ASSUME NEW i \in Ips, NEW v \in Vms, DetachIp(w, i, v)
        PROVE  s.op = "detach_ip" /\ s.pc = "free_ip" /\ vm_status[s.vm] = "normal"
    BY <1>4, <2>2 DEF DetachIp, Normal
  <2>3. ASSUME NEW p \in Devices, NEW v \in Vms, UmountPci(w, p) \/ MountPci(w, p, v)
        PROVE  s.op \in {"mount_pci", "umount_pci"}
    BY <1>4, <2>3 DEF UmountPci, MountPci
  <2>4. ASSUME NEW p \in Devices, UmountPci(w, p)
        PROVE  s.op = "umount_pci"
    BY <1>4, <2>4 DEF UmountPci
  <2>5. QED
    BY <1>2, <1>3, <1>6, <2>1, <2>2, <2>3, <2>4 DEF DeviceRequest
<1>7. CASE VmRequest(w)
  <2>1. PICK v \in Vms : \/ PowerOn(w, v) \/ PowerOff(w, v) \/ DeleteVm(w, v) \/ Shelve(w, v)
                         \/ Unshelve(w, v) \/ Delshelve(w, v) \/ MissFix(w, v) \/ Lose(w, v)
    BY <1>7 DEF VmRequest
  <2>2. CASE PowerOn(w, v) \/ PowerOff(w, v) \/ Lose(w, v)
    BY <1>2, <1>3, <2>2 DEF PowerOn, PowerOff, Lose, Idle
  <2>3. CASE DeleteVm(w, v) \/ Shelve(w, v)
    BY <1>2, <1>3, <1>4, <2>3 DEF DeleteVm, Shelve
  <2>4. CASE Unshelve(w, v) \/ Delshelve(w, v)
    BY <1>2, <1>3, <1>4, <2>4 DEF Unshelve, Delshelve
  <2>5. CASE MissFix(w, v)
    BY <1>2, <1>3, <1>4, <2>5 DEF MissFix
  <2>6. QED
    BY <2>1, <2>2, <2>3, <2>4, <2>5
<1>8. QED
  BY <1>5, <1>6, <1>7

\* A request that begins keeps the addresses.
LEMMA StartAddresses ==
    ASSUME AddressesApart, TInv, TInv', MeetInv', AddressesInv, NEW w \in Workers, Step(w),
           DiskRequest(w) \/ DeviceRequest(w) \/ VmRequest(w)
    PROVE  AddressesInv'
<1> DEFINE r == worker[w]
           s == worker'[w]
<1>0. Request(s) /\ workload' \in Workloads /\ \A x \in Workers : Request(worker'[x])
  BY DEF TInv, TypeOK, RequestsInv
<1>1. /\ UNCHANGED <<attached, used, vm_status>> /\ r = Idle
      /\ \A x \in Workers \ {w} : worker'[x] = worker[x]
  BY AddressBegins, OneWorker
<1>2. \/ s.op \notin {"attach_ip", "detach_ip", "delete_vm", "shelve", "unshelve", "delshelve"}
      \/ s.op = "attach_ip" /\ s.pc = "ip_apply" /\ vm_status[s.vm] = "normal"
      \/ s.op = "detach_ip" /\ s.pc = "free_ip" /\ vm_status[s.vm] = "normal"
      \/ s.op \in {"delete_vm", "shelve"} /\ s.pc = "att_check"
      \/ s.op \in {"unshelve", "delshelve"} /\ vm_status[s.vm] = "shelve"
  BY AddressBegins
<1>3. ASSUME NEW i \in Ips
      PROVE  Address(i)'
  <2>1. Address(i) /\ r.thing # i /\ r.pc # "ip_rowdel"
    BY <1>1, AttachmentAssumption DEF AddressesInv, Idle, Things
  <2>2. CASE s.thing # i
    BY <1>1, <2>1, <2>2, AddressKept
  <2>3. CASE s.thing = i
    <3>1. s.op \in {"attach_ip", "detach_ip"}
      BY <1>0, <2>3, AddressOps
    <3>2. \/ s.op = "attach_ip" /\ s.pc = "ip_apply"
          \/ s.op = "detach_ip" /\ s.pc = "free_ip"
      BY <1>2, <3>1
    <3>3. KnowsIp(s, attached'[i], used'[i])
      BY <3>2 DEF KnowsIp
    <3>4. ASSUME NEW x \in Workers \ {w}, worker[x].thing = i
          PROVE  OneHolds(s, worker[x])
      BY <1>0, <1>1, <2>3, <3>2, <3>4, BothAttach DEF MeetInv, OneHolds
    <3>5. IpSound(i)'
      <4>1. IpSound(i)
        BY <2>1 DEF Address
      <4>2. ASSUME NEW x \in Workers, worker[x].thing = i, worker[x].pc = "ip_rowdel"
            PROVE  worker'[x].thing = i /\ worker'[x].pc = "ip_rowdel"
        BY <1>1, <2>1, <4>2
      <4>3. QED
        BY <1>1, <4>1, <4>2 DEF IpSound
    <3>6. \A x \in Workers \ {w} :
             worker[x].thing = i => KnowsIp(worker[x], attached'[i], used'[i])
      BY <1>1, <2>1 DEF Address
    <3>7. QED
      BY <1>1, <2>1, <3>3, <3>4, <3>5, <3>6, AddressStep
  <2>4. QED
    BY <2>2, <2>3
<1>4. ASSUME NEW x \in Workers
      PROVE  KnowsAddresses(worker[x])'
  <2>1. CASE x # w
    BY <1>1, <2>1 DEF AddressesInv, KnowsAddresses
  <2>2. CASE x = w
    <3>1. \A i \in Ips : attached[i] # "none" => vm_status[attached[i]] = "normal"
      BY DEF AddressesInv, Address, IpSound
    <3>2. ASSUME Leaving(s), NEW i \in Ips
          PROVE  attached[i] # s.vm
      <4>1. vm_status[s.vm] = "shelve" /\ s.vm \in Vms
        BY <1>0, <1>2, <3>2, AddressOps DEF Leaving
      <4>2. QED
        BY <3>1, <4>1, AttachmentAssumption
    <3>3. KnowsAddresses(worker[w])'
      BY <1>1, <1>2, <3>2 DEF KnowsAddresses, Leaving
    <3>4. QED
      BY <2>2, <3>3
  <2>3. QED
    BY <2>1, <2>2
<1>5. QED
  BY <1>3, <1>4 DEF AddressesInv

\* What the steps about disks and devices do to an address, and those of a vm
\* before its row changes: nothing, but that its request goes on to undo.
PlainStep(w) ==
    /\ UNCHANGED <<attached, used, vm_status>>
    /\ worker[w].pc # "ip_rowdel"
    /\ \/ worker'[w] = Idle \/ worker[w].thing \notin Ips
       \/ /\ worker[w].op = "attach_ip" /\ worker[w].pc = "attach" /\ worker'[w].pc = "free_ip"
       \/ /\ worker[w].op = "detach_ip" /\ worker[w].pc = "detach" /\ worker'[w].pc = "ip_apply"
    /\ worker[w].pc = "att_check" =>
          worker'[w] = Idle \/ \A i \in Ips : attached[i] # worker[w].vm

\* The steps about disks and devices, and those of a vm before its row changes.
LEMMA PlainSteps ==
    ASSUME TInv, NEW w \in Workers,
           \/ ClaimQuota(w) \/ SaveVdisk(w) \/ CreateCephDisk(w) \/ UnsaveVdisk(w) \/ UndoClaim(w)
           \/ SoftDelete(w) \/ RenameDiskRbdName(w)
           \/ RemoveCephDisk(w) \/ FreeVdisk(w) \/ DeleteVdiskRow(w)
           \/ MountRow(w) \/ Attach(w) \/ UndoMount(w) \/ Detach(w) \/ UmountRow(w)
           \/ CheckAttachedIp(w) \/ Undefine(w) \/ MountVdisks(w) \/ FixAttach(w) \/ FixUmount(w)
    PROVE  PlainStep(w)
<1> DEFINE r == worker[w]
           s == worker'[w]
<1>1. /\ worker \in [Workers -> WorkerState] /\ Request(r) /\ r \in WorkerState
      /\ \A i \in Ips : i # NoThing /\ i \notin Disks /\ i \notin Devices
  BY TypedPlaces, AttachmentAssumption, DomainAssumption DEF TInv, TypeOK, RequestsInv, Things
<1>2. UNCHANGED <<attached, used, vm_status>>
  BY DEF ClaimQuota, SaveVdisk, CreateCephDisk, UnsaveVdisk, UndoClaim, SoftDelete,
     RenameDiskRbdName, RemoveCephDisk, FreeVdisk, DeleteVdiskRow, MountRow, Attach, UndoMount,
     Detach, UmountRow, CheckAttachedIp, Undefine, MountVdisks, FixAttach, FixUmount,
     RowsUnchanged, VmsUnchanged
<1>3. r.pc \in {"claim", "save", "create_image", "unsave", "undo_claim", "soft_delete", "rename",
                "remove_image", "free", "rowdel", "mount_row", "attach", "undo_mount", "detach",
                "umount_row", "att_check", "undefine", "mount_vdisks", "fix_attach", "fix_umount"}
  BY DEF ClaimQuota, SaveVdisk, CreateCephDisk, UnsaveVdisk, UndoClaim, SoftDelete,
     RenameDiskRbdName, RemoveCephDisk, FreeVdisk, DeleteVdiskRow, MountRow, Attach, UndoMount,
     Detach, UmountRow, CheckAttachedIp, Undefine, MountVdisks, FixAttach, FixUmount, At
<1>4. CASE r.thing \notin Ips
  <2>1. ASSUME r.pc = "att_check"
        PROVE  s = Idle \/ \A i \in Ips : attached[i] # r.vm
    <3>1. CheckAttachedIp(w)
      BY <2>1 DEF ClaimQuota, SaveVdisk, CreateCephDisk, UnsaveVdisk, UndoClaim, SoftDelete,
         RenameDiskRbdName, RemoveCephDisk, FreeVdisk, DeleteVdiskRow, MountRow, Attach, UndoMount,
         Detach, UmountRow, Undefine, MountVdisks, FixAttach, FixUmount, At
    <3>2. QED
      BY <1>1, <3>1 DEF CheckAttachedIp, HasAttachedIp, End
  <2>2. QED
    BY <1>2, <1>3, <1>4, <2>1 DEF PlainStep
<1>5. CASE r.thing \in Ips
  <2>1. \/ r.op = "attach_ip" /\ r.pc = "attach"
        \/ r.op = "detach_ip" /\ r.pc = "detach"
    BY <1>1, <1>3, <1>5 DEF Request, Idle
  <2>2. CASE r.op = "attach_ip" /\ r.pc = "attach"
    <3>1. Attach(w)
      BY <2>2 DEF ClaimQuota, SaveVdisk, CreateCephDisk, UnsaveVdisk, UndoClaim, SoftDelete,
         RenameDiskRbdName, RemoveCephDisk, FreeVdisk, DeleteVdiskRow, MountRow, CheckAttachedIp,
         UndoMount, Detach, UmountRow, Undefine, MountVdisks, FixAttach, FixUmount, At
    <3>2. End(w) \/ Goto(w, "free_ip")
      BY <2>2, <3>1 DEF Attach, UndoOf
    <3>3. s = Idle \/ s.pc = "free_ip"
      BY <1>1, <3>2 DEF End, Goto, WorkerState
    <3>4. QED
      BY <1>2, <2>2, <3>3 DEF PlainStep
  <2>3. CASE r.op = "detach_ip" /\ r.pc = "detach"
    <3>1. Detach(w)
      BY <2>3 DEF ClaimQuota, SaveVdisk, CreateCephDisk, UnsaveVdisk, UndoClaim, SoftDelete,
         RenameDiskRbdName, RemoveCephDisk, FreeVdisk, DeleteVdiskRow, MountRow, CheckAttachedIp,
         UndoMount, Attach, UmountRow, Undefine, MountVdisks, FixAttach, FixUmount, At
    <3>2. End(w) \/ Goto(w, "ip_apply")
      BY <2>3, <3>1 DEF Detach
    <3>3. s = Idle \/ s.pc = "ip_apply"
      BY <1>1, <3>2 DEF End, Goto, WorkerState
    <3>4. QED
      BY <1>2, <2>3, <3>3 DEF PlainStep
  <2>4. QED
    BY <2>1, <2>2, <2>3
<1>6. QED
  BY <1>4, <1>5

\* They keep the addresses.
LEMMA PlainAddresses ==
    ASSUME TInv, TInv', AddressesInv, NEW w \in Workers, Step(w), Serve(w), PlainStep(w)
    PROVE  AddressesInv'
<1> DEFINE r == worker[w]
           s == worker'[w]
<1>1. /\ r.pc # "idle" /\ Request(r) /\ Request(s)
      /\ \A i \in Ips : i # NoThing /\ i \notin Disks
  <2>1. r.pc # "idle"
    BY DEF Serve, ClaimQuota, SaveVdisk, CreateCephDisk, UnsaveVdisk, UndoClaim, SoftDelete,
       RenameDiskRbdName, RemoveCephDisk, FreeVdisk, DeleteVdiskRow, MountRow, Attach, UndoMount,
       Detach, UmountRow, ApplyIp, AttachRow, FreeAttachedIp, DeleteAttachedIp, CheckAttachedIp,
       Undefine, DeleteVmRow, ShelveSave, UnshelveSave, Define, MountVdisks, FixAttach, FixUmount, At
  <2>2. QED
    BY <2>1, AttachmentAssumption, DomainAssumption DEF TInv, RequestsInv, Things
<1>2. /\ \A x \in Workers \ {w} : worker'[x] = worker[x]
      /\ \/ s = Idle
         \/ s.op = r.op /\ s.vm = r.vm /\ (s.thing = r.thing \/ r.op = "miss_fix")
  BY <1>1, OneWorker DEF Idle
<1>3. UNCHANGED <<attached, used, vm_status>> /\ r.pc # "ip_rowdel"
  BY DEF PlainStep
<1>4. ASSUME NEW i \in Ips
      PROVE  Address(i)'
  <2>1. Address(i)
    BY DEF AddressesInv
  <2>2. CASE r.thing # i
    <3>1. s.thing # i
      BY <1>1, <1>2, <2>2, AddressOps DEF Idle
    <3>2. QED
      BY <1>2, <1>3, <2>1, <2>2, <3>1, AddressKept
  <2>3. CASE r.thing = i
    <3>1. KnowsIp(r, attached[i], used[i])
      BY <2>1, <2>3 DEF Address
    <3>2. CASE s = Idle
      BY <1>1, <1>2, <1>3, <2>1, <2>3, <3>2, AddressStep DEF Idle, Address, IpSound
    <3>3. CASE r.op = "attach_ip" /\ r.pc = "attach" /\ s.pc = "free_ip" /\ s # Idle
      <4>1. KnowsIp(s, attached'[i], used'[i])
        BY <1>2, <1>3, <3>1, <3>3 DEF KnowsIp
      <4>2. ASSUME NEW x \in Workers \ {w}, worker[x].thing = i
            PROVE  OneHolds(s, worker[x])
        BY <2>1, <2>3, <3>3, <4>2 DEF Address, OneHolds
      <4>3. QED
        BY <1>2, <1>3, <2>1, <4>1, <4>2, AddressStep DEF Address, IpSound
    <3>4. CASE r.op = "detach_ip" /\ r.pc = "detach" /\ s.pc = "ip_apply" /\ s # Idle
      BY <1>2, <1>3, <2>1, <3>1, <3>4, AddressStep DEF KnowsIp, OneHolds, Address, IpSound
    <3>5. QED
      BY <2>3, <3>2, <3>3, <3>4 DEF PlainStep
  <2>4. QED
    BY <2>2, <2>3
<1>5. ASSUME NEW x \in Workers
      PROVE  KnowsAddresses(worker[x])'
  <2>1. KnowsAddresses(worker[x])
    BY DEF AddressesInv
  <2>2. CASE x # w \/ s = Idle
    BY <1>2, <1>3, <2>1, <2>2 DEF KnowsAddresses, Leaving, Idle
  <2>3. CASE x = w /\ s # Idle
    <3>1. s.op = r.op /\ s.vm = r.vm
      BY <1>2, <2>3
    <3>2. ASSUME Leaving(s), NEW i \in Ips
          PROVE  attached[i] # s.vm
      BY <1>1, <2>1, <2>3, <3>1, <3>2 DEF Leaving, Request, Idle, PlainStep, KnowsAddresses
    <3>3. KnowsAddresses(worker[w])'
      BY <1>3, <2>1, <2>3, <3>1, <3>2 DEF KnowsAddresses, Leaving
    <3>4. QED
      BY <2>3, <3>3
  <2>4. QED
    BY <2>2, <2>3
<1>6. QED
  BY <1>4, <1>5 DEF AddressesInv

\* The steps that write the flag or the row of an address.
AddressSteps(w) == ApplyIp(w) \/ AttachRow(w) \/ FreeAttachedIp(w) \/ DeleteAttachedIp(w)

\* What those steps know: of two requests for an address both attach it.
LEMMA AddressFacts ==
    ASSUME AddressesApart, TInv, MeetInv, AddressesInv, NEW w \in Workers, Step(w), AddressSteps(w)
    PROVE  LET r == worker[w]
               i == r.thing
           IN  /\ i \in Ips /\ r.vm \in Vms /\ r.op \in {"attach_ip", "detach_ip"} /\ r # Idle
               /\ r.pc \in {"ip_apply", "ip_row", "free_ip", "ip_rowdel"}
               /\ vm_status[r.vm] = "normal" /\ IpSound(i) /\ KnowsIp(r, attached[i], used[i])
               /\ \A x \in Workers \ {w} :
                     /\ worker'[x] = worker[x]
                     /\ worker[x].thing = i =>
                           /\ r.op = "attach_ip" /\ worker[x].op = "attach_ip"
                           /\ worker[x].vm \in Vms
                           /\ KnowsIp(worker[x], attached[i], used[i])
                           /\ OneHolds(r, worker[x])
<1> DEFINE r == worker[w]
           i == r.thing
<1>1. Request(r) /\ workload \in Workloads
  BY DEF TInv, TypeOK, RequestsInv
<1>2. r.pc \in {"ip_apply", "ip_row", "free_ip", "ip_rowdel"}
  BY DEF AddressSteps, ApplyIp, AttachRow, FreeAttachedIp, DeleteAttachedIp, At
<1>3. i \in Ips /\ r.vm \in Vms /\ r.op \in {"attach_ip", "detach_ip"} /\ r # Idle
  BY <1>1, <1>2 DEF Request, Idle
<1>4. vm_status[r.vm] = "normal" /\ IpSound(i) /\ KnowsIp(r, attached[i], used[i])
  BY <1>3 DEF AddressesInv, KnowsAddresses, Address
<1>5. ASSUME NEW x \in Workers \ {w}
      PROVE  /\ worker'[x] = worker[x]
             /\ worker[x].thing = i =>
                   /\ r.op = "attach_ip" /\ worker[x].op = "attach_ip"
                   /\ worker[x].vm \in Vms
                   /\ KnowsIp(worker[x], attached[i], used[i])
                   /\ OneHolds(r, worker[x])
  <2>1. worker'[x] = worker[x]
    BY OneWorker
  <2>2. ASSUME worker[x].thing = i
        PROVE  r.op = "attach_ip" /\ worker[x].op = "attach_ip" /\ worker[x].vm \in Vms
    BY <1>1, <1>3, <2>2, BothAttach DEF TInv, RequestsInv, MeetInv
  <2>3. worker[x].thing = i => KnowsIp(worker[x], attached[i], used[i]) /\ OneHolds(r, worker[x])
    BY <1>3 DEF AddressesInv, Address
  <2>4. QED
    BY <2>1, <2>2, <2>3
<1>6. QED
  BY <1>2, <1>3, <1>4, <1>5

\* They change the flag and the row of the address as what their request knows
\* of it allows.
LEMMA AddressOfStep ==
    ASSUME AddressesApart, TInv, MeetInv, AddressesInv, NEW w \in Workers, Step(w), AddressSteps(w),
           NEW i \in Ips, worker[w].thing = i
    PROVE  Address(i)'
<1> DEFINE r == worker[w]
           s == worker'[w]
<1>1. /\ i \in Ips /\ r.vm \in Vms /\ r.op \in {"attach_ip", "detach_ip"} /\ r # Idle
      /\ vm_status[r.vm] = "normal" /\ IpSound(i) /\ KnowsIp(r, attached[i], used[i])
      /\ \A x \in Workers \ {w} : worker'[x] = worker[x]
  BY AddressFacts
<1>2. \A x \in Workers \ {w} : worker[x].thing = i =>
         /\ r.op = "attach_ip" /\ worker[x].op = "attach_ip" /\ worker[x].vm \in Vms
         /\ KnowsIp(worker[x], attached[i], used[i]) /\ OneHolds(r, worker[x])
  BY AddressFacts
<1>3. /\ Address(i) /\ worker \in [Workers -> WorkerState] /\ r \in WorkerState
      /\ used \in [Ips -> BOOLEAN] /\ DOMAIN attached = Ips
      /\ Idle.thing # i /\ "none" \notin Vms
  BY <1>1, TypedPlaces, AttachmentAssumption DEF TInv, TypeOK, IpTypeOK, AddressesInv, Idle, Things
<1>4. ASSUME NEW pc, Goto(w, pc)
      PROVE  s.pc = pc /\ s.op = r.op /\ s.vm = r.vm /\ s.thing = i
  BY <1>3, <1>4 DEF Goto, WorkerState
<1>5. ASSUME End(w)
      PROVE  s.thing # i
  BY <1>3, <1>5 DEF End
<1>6. ASSUME NEW x \in Workers, worker[x].pc = "ip_rowdel", worker[x].thing = i, r.pc # "ip_rowdel"
      PROVE  worker'[x].pc = "ip_rowdel" /\ worker'[x].thing = i
  BY <1>1, <1>6
<1>7. CASE ApplyIp(w)
  <2>1. r.pc = "ip_apply" /\ UNCHANGED <<attached, vm_status>>
    BY <1>7 DEF ApplyIp, At, VmsUnchanged
  <2>2. CASE apply_for_free_ip(i) /\ Goto(w, "ip_row")
    <3>1. ~used[i] /\ used'[i]
      BY <1>1, <1>3, <2>2 DEF apply_for_free_ip, can_used
    <3>2. s.pc = "ip_row" /\ s.op = r.op /\ s.vm = r.vm
      BY <1>4, <2>2
    <3>3. KnowsIp(s, attached'[i], used'[i])
      BY <1>1, <2>1, <3>1, <3>2 DEF KnowsIp
    <3>4. ASSUME NEW x \in Workers \ {w}, worker[x].thing = i
          PROVE  OneHolds(s, worker[x]) /\ KnowsIp(worker[x], attached'[i], used'[i])
      BY <1>2, <2>1, <3>1, <3>2, <3>4 DEF KnowsIp, OneHolds
    <3>5. IpSound(i)'
      BY <1>1, <2>1, <3>1 DEF IpSound
    <3>6. QED
      BY <1>1, <1>3, <3>3, <3>4, <3>5, AddressStep
  <2>3. CASE End(w) /\ UNCHANGED used
    BY <1>1, <1>2, <1>3, <1>5, <1>6, <2>1, <2>3, AddressStep DEF IpSound
  <2>4. QED
    BY <1>7, <2>2, <2>3 DEF ApplyIp
<1>8. CASE AttachRow(w)
  <2>1. r.pc = "ip_row" /\ vm_status' = vm_status /\ used[i]
    BY <1>1, <1>8 DEF AttachRow, At, VmsUnchanged, KnowsIp
  <2>2. CASE attached[i] = "none"
    <3>1. attached'[i] = r.vm /\ used' = used
      BY <1>1, <1>3, <1>8, <2>2 DEF AttachRow
    <3>2. IF r.op = "attach_ip" THEN Goto(w, "attach") ELSE End(w)
      BY <1>8, <2>2 DEF AttachRow
    <3>3. IpSound(i)'
      BY <1>1, <2>1, <3>1 DEF IpSound
    <3>4. ASSUME NEW x \in Workers \ {w}, worker[x].thing = i
          PROVE  /\ KnowsIp(worker[x], attached'[i], used'[i])
                 /\ worker[x].pc \notin {"ip_row", "attach", "free_ip", "ip_rowdel"}
      BY <1>2, <1>3, <2>1, <2>2, <3>4 DEF KnowsIp, OneHolds
    <3>5. CASE r.op = "attach_ip"
      BY <1>1, <1>3, <1>4, <2>1, <3>1, <3>2, <3>3, <3>4, <3>5, AddressStep DEF KnowsIp, OneHolds
    <3>6. CASE r.op # "attach_ip"
      BY <1>1, <1>3, <1>5, <3>2, <3>3, <3>4, <3>6, AddressStep
    <3>7. QED
      BY <3>5, <3>6
  <2>3. CASE attached[i] # "none"
    BY <1>1, <1>2, <1>3, <1>5, <1>6, <1>8, <2>1, <2>3, AddressStep DEF KnowsIp, AttachRow, set_free, IpSound
  <2>4. QED
    BY <2>2, <2>3
<1>9. CASE FreeAttachedIp(w)
  <2>1. r.pc = "free_ip" /\ UNCHANGED <<attached, vm_status>>
    BY <1>9 DEF FreeAttachedIp, At, VmsUnchanged
  <2>2. ~(r.op = "attach_ip" /\ attached[i] = "none")
    BY <1>1, <1>3, <2>1 DEF KnowsIp
  <2>3. used'[i] = FALSE /\ Goto(w, "ip_rowdel")
    BY <1>1, <1>3, <1>9, <2>2 DEF FreeAttachedIp, free_used_ip
  <2>4. s.pc = "ip_rowdel" /\ s.op = r.op /\ s.vm = r.vm /\ s.thing = i
    BY <1>4, <2>3
  <2>5. KnowsIp(s, attached'[i], used'[i])
    BY <1>1, <2>1, <2>4 DEF KnowsIp
  <2>6. IpSound(i)'
    BY <1>1, <2>1, <2>4 DEF IpSound
  <2>7. ASSUME NEW x \in Workers \ {w}, worker[x].thing = i
        PROVE  OneHolds(s, worker[x]) /\ KnowsIp(worker[x], attached'[i], used'[i])
    BY <1>2, <2>1, <2>7 DEF OneHolds, KnowsIp
  <2>8. QED
    BY <1>1, <1>3, <2>5, <2>6, <2>7, AddressStep
<1>10. CASE DeleteAttachedIp(w)
  <2>1. r.pc = "ip_rowdel" /\ UNCHANGED <<used, vm_status>> /\ attached'[i] = "none"
    BY <1>1, <1>3, <1>10 DEF DeleteAttachedIp, At, VmsUnchanged
  <2>2. IF r.op = "detach_ip" THEN Goto(w, "detach") ELSE End(w)
    BY <1>10 DEF DeleteAttachedIp
  <2>3. IpSound(i)'
    BY <2>1 DEF IpSound
  <2>4. ASSUME NEW x \in Workers \ {w}, worker[x].thing = i
        PROVE  r.op = "attach_ip" /\ KnowsIp(worker[x], attached'[i], used'[i])
    BY <1>2, <2>1, <2>4 DEF OneHolds, KnowsIp
  <2>5. CASE r.op = "detach_ip"
    BY <1>1, <1>3, <1>4, <2>1, <2>2, <2>3, <2>4, <2>5, AddressStep DEF KnowsIp
  <2>6. CASE r.op # "detach_ip"
    BY <1>1, <1>3, <1>5, <2>2, <2>3, <2>4, <2>6, AddressStep
  <2>7. QED
    BY <2>5, <2>6
<1>11. QED
  BY <1>7, <1>8, <1>9, <1>10 DEF AddressSteps

\* They keep all addresses, and what is known of the vms.
LEMMA AddressStepsKeep ==
    ASSUME AddressesApart, TInv, TInv', MeetInv, AddressesInv, NEW w \in Workers, Step(w),
           AddressSteps(w)
    PROVE  AddressesInv'
<1> DEFINE r == worker[w]
           s == worker'[w]
           i == r.thing
<1>1. /\ i \in Ips /\ r.vm \in Vms /\ r.op \in {"attach_ip", "detach_ip"} /\ r # Idle
      /\ vm_status[r.vm] = "normal"
      /\ \A x \in Workers \ {w} : worker'[x] = worker[x]
  BY AddressFacts
<1>2. /\ vm_status' = vm_status /\ r.pc # "idle"
      /\ \A j \in Ips \ {i} : used'[j] = used[j] /\ attached'[j] = attached[j]
      /\ attached'[i] \in {attached[i], r.vm, "none"}
  <2>1. used \in [Ips -> BOOLEAN] /\ attached \in [Ips -> Vms \cup {NoVm, "none"}]
    BY DEF TInv, TypeOK, IpTypeOK
  <2>2. vm_status' = vm_status /\ r.pc # "idle"
    BY DEF AddressSteps, ApplyIp, AttachRow, FreeAttachedIp, DeleteAttachedIp, VmsUnchanged, At
  <2>3. used' = used \/ used' = [used EXCEPT ![i] = TRUE] \/ used' = [used EXCEPT ![i] = FALSE]
    BY DEF AddressSteps, ApplyIp, AttachRow, FreeAttachedIp, DeleteAttachedIp, apply_for_free_ip,
       free_used_ip, set_free
  <2>4. \/ attached' = attached \/ attached' = [attached EXCEPT ![i] = r.vm]
        \/ attached' = [attached EXCEPT ![i] = "none"]
    BY DEF AddressSteps, ApplyIp, AttachRow, FreeAttachedIp, DeleteAttachedIp
  <2>5. QED
    BY <2>1, <2>2, <2>3, <2>4
<1>3. s = Idle \/ (s.op = r.op /\ s.vm = r.vm /\ s.thing = i)
  BY <1>1, <1>2, OneWorker DEF Idle
<1>4. ASSUME NEW j \in Ips
      PROVE  Address(j)'
  <2>1. CASE j = i
    BY <2>1, AddressOfStep
  <2>2. CASE j # i
    BY <1>1, <1>2, <1>3, <2>2, AttachmentAssumption, AddressKept DEF AddressesInv, Idle, Things
  <2>3. QED
    BY <2>1, <2>2
<1>5. ASSUME NEW x \in Workers \ {w}
      PROVE  KnowsAddresses(worker[x])'
  <2>1. worker'[x] = worker[x] /\ KnowsAddresses(worker[x]) /\ KnowsAddresses(r)
    BY <1>1 DEF AddressesInv
  <2>2. ASSUME Leaving(worker[x]), NEW j \in Ips
        PROVE  attached'[j] # worker[x].vm
    <3>1. /\ Request(r) /\ Request(worker[x]) /\ workload \in Workloads
          /\ Share(r, worker[x]) => MayMeet(workload, r, worker[x])
      BY DEF TInv, TypeOK, RequestsInv, MeetInv
    <3>2. worker[x].vm # r.vm
      BY <1>1, <2>1, <2>2, <3>1, LeavesNoRequest
    <3>3. worker[x].vm \in Vms /\ worker[x].vm # "none"
      BY <2>2, <3>1, AddressOps, AttachmentAssumption
    <3>4. attached[j] # worker[x].vm
      BY <2>1, <2>2 DEF KnowsAddresses
    <3>5. QED
      BY <1>2, <3>2, <3>3, <3>4
  <2>3. QED
    BY <1>2, <2>1, <2>2 DEF KnowsAddresses, Leaving
<1>6. KnowsAddresses(worker[w])'
  BY <1>1, <1>2, <1>3 DEF KnowsAddresses, Leaving, Idle
<1>7. QED
  BY <1>4, <1>5, <1>6 DEF AddressesInv

\* The steps that write the row of a vm.
StatusSteps(w) == DeleteVmRow(w) \/ ShelveSave(w) \/ UnshelveSave(w) \/ Define(w)

\* What they write, and of which vms: none that has an address.
LEMMA StatusFacts ==
    ASSUME TInv, AddressesInv, NEW w \in Workers, Step(w), StatusSteps(w)
    PROVE  LET r == worker[w]
               s == worker'[w]
           IN  /\ used' = used /\ \A i \in Ips : attached'[i] = attached[i]
               /\ r.thing \notin Ips /\ r # Idle /\ r.vm \in Vms
               /\ \/ vm_status' = vm_status /\ (s = Idle \/ s.pc # "undefine")
                  \/ /\ Leaving(r) /\ (s = Idle \/ r.op = "unshelve")
                     /\ \A v \in Vms \ {r.vm} : vm_status'[v] = vm_status[v]
                     /\ r.op = "unshelve" \/ vm_status'[r.vm] # "normal"
<1> DEFINE r == worker[w]
           s == worker'[w]
<1>1. /\ worker \in [Workers -> WorkerState] /\ r \in WorkerState /\ Request(r)
      /\ vm_status \in [Vms -> {"none", "normal", "shelve"}] /\ KnowsAddresses(r)
      /\ \A i \in Ips : i # NoThing /\ i \notin Disks
  BY TypedPlaces, AttachmentAssumption, DomainAssumption
     DEF TInv, TypeOK, RequestsInv, Things, AddressesInv
<1>2. r.pc \in {"vm_rowdel", "shelve_save", "unshelve_save", "define"}
  BY DEF StatusSteps, DeleteVmRow, ShelveSave, UnshelveSave, Define, At
<1>3. /\ r.thing \notin Ips /\ r # Idle /\ r.vm \in Vms
      /\ Leaving(r) \/ (r.op = "miss_fix" /\ r.pc = "define")
      /\ r.op = "unshelve" <=> Leaving(r) /\ r.pc \in {"unshelve_save", "define"}
  BY <1>1, <1>2 DEF Request, Idle, Leaving
<1>4. used' = used /\ \A i \in Ips : attached'[i] = attached[i]
  <2>1. CASE DeleteVmRow(w)
    BY <1>1, <1>3, <2>1 DEF DeleteVmRow, At, KnowsAddresses
  <2>2. CASE ~DeleteVmRow(w)
    BY <2>2 DEF StatusSteps, ShelveSave, UnshelveSave, Define, RowsUnchanged
  <2>3. QED
    BY <2>1, <2>2
<1>5. CASE r.op = "miss_fix"
  <2>1. Define(w)
    BY <1>1, <1>5 DEF Request, Idle, StatusSteps, DeleteVmRow, ShelveSave, UnshelveSave, At
  <2>2. vm_status' = vm_status
    BY <1>5, <2>1 DEF Define
  <2>3. s = Idle \/ s.pc = "fix_attach"
    BY <1>1, <1>5, <2>1 DEF Define, End, WorkerState
  <2>4. QED
    BY <1>3, <1>4, <2>2, <2>3
<1>6. CASE r.op # "miss_fix"
  <2>1. Leaving(r)
    BY <1>3, <1>6
  <2>2. CASE DeleteVmRow(w) \/ ShelveSave(w)
    BY <1>1, <1>3, <1>4, <2>1, <2>2 DEF DeleteVmRow, ShelveSave, At, End
  <2>3. CASE UnshelveSave(w) \/ Define(w)
    <3>1. r.op = "unshelve"
      BY <1>3, <2>1, <2>3 DEF UnshelveSave, Define, At
    <3>2. \A v \in Vms \ {r.vm} : vm_status'[v] = vm_status[v]
      BY <1>1, <1>3, <2>3 DEF UnshelveSave, Define
    <3>3. QED
      BY <1>3, <1>4, <2>1, <3>1, <3>2
  <2>4. QED
    BY <2>2, <2>3 DEF StatusSteps
<1>7. QED
  BY <1>5, <1>6

\* They keep the addresses.
LEMMA StatusAddresses ==
    ASSUME AddressesApart, TInv, TInv', MeetInv, AddressesInv, NEW w \in Workers, Step(w),
           StatusSteps(w)
    PROVE  AddressesInv'
<1> DEFINE r == worker[w]
           s == worker'[w]
<1>1. /\ used' = used /\ \A i \in Ips : attached'[i] = attached[i]
      /\ r.thing \notin Ips /\ r # Idle /\ r.vm \in Vms
  BY StatusFacts
<1>2. \/ vm_status' = vm_status /\ (s = Idle \/ s.pc # "undefine")
      \/ /\ Leaving(r) /\ (s = Idle \/ r.op = "unshelve")
         /\ \A v \in Vms \ {r.vm} : vm_status'[v] = vm_status[v]
         /\ r.op = "unshelve" \/ vm_status'[r.vm] # "normal"
  BY StatusFacts
<1>3. /\ Request(r) /\ Request(s) /\ workload \in Workloads /\ KnowsAddresses(r)
      /\ r.pc \in {"vm_rowdel", "shelve_save", "unshelve_save", "define"}
      /\ \A i \in Ips : i # NoThing
  BY AttachmentAssumption DEF TInv, TypeOK, RequestsInv, AddressesInv, Things, StatusSteps,
     DeleteVmRow, ShelveSave, UnshelveSave, Define, At
<1>4. /\ \A x \in Workers \ {w} : worker'[x] = worker[x]
      /\ \/ s = Idle \/ s = r
         \/ s.op = r.op /\ s.vm = r.vm /\ (s.thing = r.thing \/ r.op = "miss_fix")
  BY <1>1, OneWorker
<1>5. ASSUME NEW i \in Ips
      PROVE  Address(i)'
  <2>1. Address(i) /\ r.thing # i
    BY <1>1 DEF AddressesInv
  <2>2. s.thing # i
    BY <1>1, <1>3, <1>4, AddressOps DEF Idle
  <2>3. attached[i] # "none" => vm_status'[attached[i]] = vm_status[attached[i]]
    BY <1>2, <1>3, <2>1 DEF Address, IpSound, KnowsAddresses
  <2>4. QED
    BY <1>1, <1>4, <2>1, <2>2, <2>3, AddressKept
<1>6. ASSUME NEW x \in Workers \ {w}
      PROVE  KnowsAddresses(worker[x])'
  <2> DEFINE q == worker[x]
  <2>1. /\ worker'[x] = q /\ KnowsAddresses(q) /\ Request(q)
        /\ Share(q, r) => MayMeet(workload, q, r)
        /\ Share(r, q) => MayMeet(workload, r, q)
    BY <1>4 DEF AddressesInv, TInv, RequestsInv, MeetInv
  <2>2. Leaving(q) => \A i \in Ips : attached'[i] # q.vm
    BY <1>1, <2>1 DEF KnowsAddresses
  <2>3. q.op \in {"attach_ip", "detach_ip"} => vm_status'[q.vm] = "normal"
    <3>1. SUFFICES ASSUME q.op \in {"attach_ip", "detach_ip"}
                   PROVE  vm_status'[q.vm] = "normal"
      OBVIOUS
    <3>2. vm_status[q.vm] = "normal" /\ q.vm \in Vms
      BY <2>1, <3>1, AddressOps DEF KnowsAddresses
    <3>3. Leaving(r) => r.vm # q.vm
      BY <1>3, <2>1, <3>1, LeavesNoRequest
    <3>4. QED
      BY <1>2, <3>2, <3>3
  <2>4. q.op = "delshelve" => vm_status'[q.vm] # "normal"
    <3>1. SUFFICES ASSUME q.op = "delshelve"
                   PROVE  vm_status'[q.vm] # "normal"
      OBVIOUS
    <3>2. vm_status[q.vm] # "normal" /\ q.vm \in Vms
      BY <2>1, <3>1, AddressOps DEF Leaving, KnowsAddresses
    <3>3. r.op = "unshelve" => r.vm # q.vm
      BY <1>1, <1>3, <2>1, <3>1, AddressApart DEF AddressPairs
    <3>4. QED
      BY <1>2, <3>2, <3>3
  <2>5. QED
    BY <2>1, <2>2, <2>3, <2>4 DEF KnowsAddresses
<1>7. KnowsAddresses(worker[w])'
  <2>1. CASE s = Idle
    BY <2>1 DEF KnowsAddresses, Leaving, Idle
  <2>2. CASE s # Idle /\ r.op = "unshelve"
    BY <1>1, <1>3, <1>4, <2>2 DEF KnowsAddresses, Leaving
  <2>3. CASE s # Idle /\ r.op # "unshelve"
    BY <1>1, <1>2, <1>3, <1>4, <2>3 DEF Leaving, Request, Idle, KnowsAddresses
  <2>4. QED
    BY <2>1, <2>2, <2>3
<1>8. QED
  BY <1>5, <1>6, <1>7 DEF AddressesInv

\* Every step keeps the addresses.
LEMMA NextAddresses ==
    ASSUME AddressesApart
    PROVE  TInv /\ MeetInv /\ AddressesInv /\ [Next]_vars => (TInv /\ MeetInv /\ AddressesInv)'
<1> SUFFICES ASSUME TInv, MeetInv, AddressesInv, [Next]_vars
             PROVE  TInv' /\ MeetInv' /\ AddressesInv'
  OBVIOUS
<1>1. TInv'
  BY NextTypes
<1>2. CASE UNCHANGED vars
  BY <1>1, <1>2 DEF vars, MeetInv, AddressesInv, Address, IpSound, KnowsAddresses
<1>3. ASSUME NEW w \in Workers, Step(w), UNCHANGED workload
      PROVE  MeetInv' /\ AddressesInv'
  <2>1. MeetInv'
    BY <1>3, MeetKept
  <2>2. CASE DiskRequest(w) \/ DeviceRequest(w) \/ VmRequest(w)
    BY <1>1, <1>3, <2>1, <2>2, StartAddresses
  <2>3. CASE AddressSteps(w)
    BY <1>1, <1>3, <2>1, <2>3, AddressStepsKeep
  <2>4. CASE StatusSteps(w)
    BY <1>1, <1>3, <2>1, <2>4, StatusAddresses
  <2>5. CASE Serve(w) /\ ~AddressSteps(w) /\ ~StatusSteps(w)
    BY <1>1, <1>3, <2>1, <2>5, PlainSteps, PlainAddresses DEF Serve, AddressSteps, StatusSteps
  <2>6. QED
    BY <1>3, <2>2, <2>3, <2>4, <2>5 DEF Step
<1>4. QED
  BY <1>1, <1>2, <1>3 DEF Next, Step

\* An address that is attached is marked used and its vm is there: of the detach
\* that frees before it deletes the row, of attaches that meet and are undone,
\* and of vms that are deleted or shelved.
THEOREM AttachedAddressIsUsed ==
    ASSUME AddressesApart
    PROVE  Spec => []AttachedIsUsed
<1>1. AddressesInv => AttachedIsUsed
  <2> SUFFICES ASSUME AddressesInv, NEW i \in Ips, Quiet(NoVm, i), attached[i] # "none"
               PROVE  used[i] /\ attached[i] \in Vms /\ vm_status[attached[i]] # "none"
    BY DEF AttachedIsUsed
  <2>1. IpSound(i)
    BY DEF AddressesInv, Address
  <2>2. \A w \in Workers : worker[w].thing # i
    BY AttachmentAssumption DEF Quiet, BusyOn, Things
  <2>3. QED
    BY <2>1, <2>2 DEF IpSound
<1>2. Init => TInv /\ MeetInv /\ AddressesInv
  <2> SUFFICES ASSUME Init
               PROVE  TInv /\ MeetInv /\ AddressesInv
    OBVIOUS
  <2>1. TInv /\ MeetInv
    BY InitHolders DEF HInv
  <2>2. ASSUME NEW w \in Workers
        PROVE  worker[w] = Idle /\ KnowsAddresses(worker[w]) /\ \A i \in Ips : worker[w].thing # i
    BY AttachmentAssumption DEF Init, KnowsAddresses, Leaving, Idle, Things
  <2>3. \A i \in Ips : attached[i] = "none"
    BY DEF Init
  <2>4. QED
    BY <2>1, <2>2, <2>3 DEF AddressesInv, Address, IpSound
<1>3. TInv /\ MeetInv /\ AddressesInv /\ [Next]_vars => (TInv /\ MeetInv /\ AddressesInv)'
  BY NextAddresses
<1>4. QED
  BY <1>1, <1>2, <1>3, PTL DEF Spec
=============================================================================
