---------------------------- MODULE SystemImages ----------------------------
(***************************************************************************)
(* Operating system images, the system disks cloned from them and their    *)
(* snapshots, and the vm an image is maintained with (src/image, and the   *)
(* parts of src/vms that clone, change, snapshot and publish disks).       *)
(*                                                                         *)
(* An Image row names an rbd image and the protected snapshot of it that   *)
(* new disks are cloned from.  A machine's disk has the name of its uuid;  *)
(* the Vm row has a copy of what the image said when it was cloned.  The   *)
(* database, ceph, libvirt and the quota of the host are written one after *)
(* the other by requests that run in threads.                              *)
(*                                                                         *)
(* Address and quota of the machines are those of VmLifecycle, their       *)
(* disks, devices and further addresses those of Attachments.              *)
(***************************************************************************)
EXTENDS HostQuota, RbdPool, FiniteSets

CONSTANTS
    Threads,      \* request threads
    Images,       \* Image rows; an image's base_image has its name
    Machines,     \* Vm rows; a machine's disk has its name
    MaxUuid,      \* vms of images that are ever defined
    Settings,     \* what a behaviour is made of, see Setting
    NoOne

ImageOps == {"add_image", "snap_update", "enable_update", "delete_image",
             "create_image_vm", "unshelve_image_vm", "shelve_image_vm",
             "delshelve_image_vm", "delete_image_vm", "image_vm_power",
             "create_machine", "change_sys_disk", "create_sys_snap", "delete_sys_snap",
             "rollback", "sys_disk_expand", "release", "power"}

\* remount: the disks and devices of a machine whose system was changed.
ImageCalls == RbdCalls \cup {"define", "undefine", "host_down", "no_address", "remount",
                             "get_size"}

\* The kinds of request that arrive, the pairs of kinds that may run at a time
\* on the same image or machine, and the calls that may fail.
Setting == [ops : SUBSET ImageOps, overlaps : SUBSET (ImageOps \X ImageOps),
            failing : SUBSET ImageCalls]

ASSUME ImageAssumption ==
    /\ RbdNames = Images \cup Machines
    /\ Images \cap Machines = {} /\ NoOne \notin RbdNames \cup Hosts
    /\ Images # {} /\ Machines # {} /\ IsFiniteSet(Images) /\ IsFiniteSet(Threads)
    /\ MaxUuid \in Nat
    /\ Settings \subseteq Setting

VARIABLES
    setting,      \* of Settings, the one this behaviour is made of
    imagerow,     \* the Image rows
    machine,      \* the Vm rows
    machdom,      \* the domains of the machines
    snaprow,      \* the VmDiskSnap rows, by the time in their name
    pool,         \* the rbd images
    tick,         \* the time
    imgdom,       \* the domains of the vms of images, by uuid
    last_uuid,    \* the uuids given to them so far
    json_status_code,  \* JsonResponse.status_code, of the class
    request       \* the requests being served

imageVars == <<setting, imagerow, machine, machdom, snaprow, pool, tick, imgdom,
               last_uuid, json_status_code, request, host>>

-----------------------------------------------------------------------------
(* Rows and records. *)

\* snap: the snapshot in force; vm_uuid: the vm of the image, 0 for none;
\* vm_host: its host, as set as vm_vcpu, vm_mem (1 of each here) and vm_mac_ip.
ImageRow == [live : BOOLEAN, enable : BOOLEAN, snap : 0 .. MaxTick,
             vm_uuid : 0 .. MaxUuid, vm_host : Hosts \cup {NoOne}]

NoImageRow == [live |-> FALSE, enable |-> FALSE, snap |-> 0, vm_uuid |-> 0, vm_host |-> NoOne]

\* image: the foreign key; image_parent, image_snap: the copy; size: sys_disk_size.
MachineRow == [live : BOOLEAN, image : Images \cup {NoOne},
               image_parent : Images \cup {NoOne}, image_snap : 0 .. MaxTick,
               sys_disk_size : 0 .. MaxSize]

NoMachine == [live |-> FALSE, image |-> NoOne, image_parent |-> NoOne, image_snap |-> 0,
              sys_disk_size |-> 0]

Power == {"none", "off", "on"}

ImagePcs ==
    {"idle", "create_image", "create_snap", "insert", "snap_remove", "snap_create", "save_all",
     "rename_base", "image_rowdel", "undefine", "vm_created_sub", "free", "clear",
     "claim", "get_image", "save_vm", "define_vm", "reset_vm", "unclaim", "vm_created_add",
     "clone_disk", "resize_new", "save_machine", "define_machine", "remove_disk",
     "rename_disk", "clone_new", "define_new", "save_new", "remove_new", "rename_back",
     "remount", "size_read", "size_save", "sys_snap", "sys_snap_save", "remove_sys_snap", "snap_rowdel",
     "rollback", "resize",
     "rel_exists", "rel_snap", "rel_clone", "rel_flatten", "rel_unsnap", "rel_remove",
     "rel_unsnap_failed"}

RequestState ==
    [pc : ImagePcs, op : ImageOps \cup {"none"},
     image : Images \cup {NoOne}, machine : Machines \cup {NoOne},
     row : ImageRow,               \* the Image as the request loaded it
     host : Hosts \cup {NoOne},    \* the host of the vm of the image
     snap : 0 .. MaxTick,          \* a snapshot it made or is about
     size : 0 .. MaxSize]          \* a size it read or is about

NoRequest == [pc |-> "idle", op |-> "none", image |-> NoOne, machine |-> NoOne,
              row |-> NoImageRow, host |-> NoOne, snap |-> 0, size |-> 0]

ImagesTypeOK ==
    /\ HostTypeOK
    /\ setting \in Settings
    /\ imagerow \in [Images -> ImageRow]
    /\ machine \in [Machines -> MachineRow]
    /\ machdom \in [Machines -> Power]
    /\ snaprow \in [1 .. MaxTick -> Machines \cup {NoOne}]
    /\ pool \in RbdPools
    /\ tick \in 0 .. MaxTick
    /\ imgdom \in [1 .. MaxUuid -> Power]
    /\ last_uuid \in 0 .. MaxUuid
    /\ json_status_code \in {200, 400}
    /\ request \in [Threads -> RequestState]

\* One image, as ImageAdmin adds it, and what VmBuilder makes of it.
ImagesInit ==
    /\ HostInit
    /\ setting \in Settings
    /\ tick = 1
    /\ snaprow = [s \in 1 .. MaxTick |-> NoOne]
    /\ imgdom = [u \in 1 .. MaxUuid |-> "none"]
    /\ last_uuid = 0
    /\ json_status_code = 200
    /\ request = [w \in Threads |-> NoRequest]
    /\ LET i == CHOOSE i \in Images : TRUE
           v == CHOOSE v \in Machines : TRUE
       IN
        /\ imagerow = [j \in Images |->
                          IF j = i THEN [NoImageRow EXCEPT !.live = TRUE, !.enable = TRUE, !.snap = 1]
                          ELSE NoImageRow]
        /\ machine = [u \in Machines |->
                          IF u = v THEN [live |-> TRUE, image |-> i, image_parent |-> i,
                                         image_snap |-> 1, sys_disk_size |-> 1]
                          ELSE NoMachine]
        /\ machdom = [u \in Machines |-> IF u = v THEN "off" ELSE "none"]
        /\ pool = [EmptyPool EXCEPT
                     ![i] = [NoImage EXCEPT !.size = 1, !.snaps[1] = 1, !.protected = {1}],
                     ![v] = [NoImage EXCEPT !.size = 1, !.parent = <<i, 1>>]]

-----------------------------------------------------------------------------
(* Control of a request. *)

InStep(w, pc) == request[w].pc = pc

To(w, pc) ==
    request' = [request EXCEPT ![w] = IF pc = "idle" THEN NoRequest ELSE [@ EXCEPT !.pc = pc]]

Engaged(i, v) ==
    {x \in Threads : \/ i # NoOne /\ request[x].image = i
                     \/ v # NoOne /\ request[x].machine = v}

Arrives(w, op, i, v) ==
    /\ InStep(w, "idle")
    /\ op \in setting.ops
    /\ \A x \in Engaged(i, v) :
          {<<request[x].op, op>>, <<op, request[x].op>>} \cap setting.overlaps # {}

\* A request that loads the image, or none, and goes on at pc.
Receive(w, op, i, v, pc) ==
    request' = [request EXCEPT ![w] =
                  [NoRequest EXCEPT !.op = op, !.image = i, !.machine = v, !.pc = pc,
                                    !.row = IF i = NoOne THEN NoImageRow ELSE imagerow[i]]]

Breaks(call) == call \in setting.failing

\* A call of ceph, one of its outcomes, and where the request goes then.
Ceph(w, outcomes, ok_pc, error_pc) ==
    \E r \in outcomes :
        /\ r.own = "" \/ Breaks(r.own)
        /\ pool' = r.pool
        /\ To(w, IF r.ok THEN ok_pc ELSE error_pc)

ImageRowsSame == UNCHANGED imagerow
MachineRowsSame == UNCHANGED <<machine, snaprow>>
DomainsSame == UNCHANGED <<machdom, imgdom, last_uuid>>
CephSame == UNCHANGED <<pool, tick>>
AnswersSame == UNCHANGED json_status_code

\* What steps that only call ceph leave alone.
OnlyCeph ==
    /\ ImageRowsSame /\ MachineRowsSame /\ DomainsSame /\ AnswersSame /\ UNCHANGED host

OnlyImageRow ==
    /\ MachineRowsSame /\ DomainsSame /\ CephSame /\ AnswersSame /\ UNCHANGED host

OnlyMachineRow ==
    /\ ImageRowsSame /\ DomainsSame /\ CephSame /\ AnswersSame /\ UNCHANGED host

OnlyRequest == OnlyCeph /\ CephSame

-----------------------------------------------------------------------------
(* Images: Image.save of a new row, the update of its snapshot, the switch *)
(* that enables it, and delete.                                            *)

\* An Image object without a key yet.
AddImage(w, i) ==
    /\ Arrives(w, "add_image", i, NoOne)
    /\ ~imagerow[i].live
    /\ Receive(w, "add_image", i, NoOne, "create_image")
    /\ OnlyRequest

\* Where a request ends that could not add the image.
Refused(w) ==
    json_status_code' = IF request[w].op = "release" THEN 400 ELSE json_status_code

CreateBaseImage(w) ==
    /\ InStep(w, "create_image")
    /\ Ceph(w, create_image(pool, request[w].image, 1), "create_snap", "idle")
    /\ IF request'[w].pc = "idle" THEN Refused(w) ELSE AnswersSame
    /\ UNCHANGED tick
    /\ ImageRowsSame /\ MachineRowsSame /\ DomainsSame /\ UNCHANGED host

\* A fault of CreateSnap that a run has to find: the snapshot is not protected.
CreateSnap_unprotected(w) ==
    LET i == request[w].image IN
    /\ request[w].pc \in {"create_snap", "snap_create"}
    /\ tick < MaxTick
    /\ tick' = tick + 1
    /\ \E r \in create_snap(pool, i, tick + 1, FALSE) :
          /\ r.ok
          /\ pool' = r.pool
          /\ request' = [request EXCEPT ![w] =
                           [@ EXCEPT !.row.snap = tick + 1,
                                     !.pc = IF @ = "create_snap" THEN "insert" ELSE "save_all"]]
    /\ AnswersSame
    /\ ImageRowsSame /\ MachineRowsSame /\ DomainsSame /\ UNCHANGED host

\* create_snap: a snapshot named by the time, protected.  The name is kept in
\* the object alone; one in force already is removed first, see RemoveOldSnap.
CreateSnap(w) ==
    LET i == request[w].image
        next == IF request[w].pc = "create_snap" THEN "insert" ELSE "save_all"
    IN
    /\ request[w].pc \in {"create_snap", "snap_create"}
    /\ tick < MaxTick
    /\ tick' = tick + 1
    /\ \E r \in create_snap(pool, i, tick + 1, TRUE) :
          /\ r.own = "" \/ Breaks(r.own)
          /\ pool' = r.pool
          /\ request' = [request EXCEPT ![w] =
                           IF r.ok THEN [@ EXCEPT !.row.snap = tick + 1, !.pc = next]
                           ELSE NoRequest]
          /\ IF r.ok THEN AnswersSame ELSE Refused(w)
    /\ ImageRowsSame /\ MachineRowsSame /\ DomainsSame /\ UNCHANGED host

\* The insert, which the key (name, version) refuses when there is one.  The
\* answer of a release does not state its status.
InsertImage(w) ==
    LET i == request[w].image IN
    /\ InStep(w, "insert")
    /\ IF imagerow[i].live
       THEN UNCHANGED imagerow /\ Refused(w)
       ELSE /\ imagerow' = [imagerow EXCEPT ![i] = [request[w].row EXCEPT !.live = TRUE, !.enable = TRUE]]
            /\ AnswersSame
    /\ To(w, "idle")
    /\ MachineRowsSame /\ DomainsSame /\ CephSame /\ UNCHANGED host

SnapUpdate(w, i) ==
    /\ Arrives(w, "snap_update", i, NoOne)
    /\ imagerow[i].live
    /\ Receive(w, "snap_update", i, NoOne, "snap_remove")
    /\ OnlyRequest

\* The snapshot in force is removed before there is another; that it has
\* clones, or any other failure, is ignored.
RemoveOldSnap(w) ==
    /\ InStep(w, "snap_remove")
    /\ Ceph(w, remove_snap(pool, request[w].image, request[w].row.snap), "snap_create", "snap_create")
    /\ OnlyCeph /\ UNCHANGED tick

EnableUpdate(w, i) ==
    /\ Arrives(w, "enable_update", i, NoOne)
    /\ imagerow[i].live
    /\ request' = [request EXCEPT ![w] =
                     [NoRequest EXCEPT !.op = "enable_update", !.image = i, !.pc = "save_all",
                                       !.row = [imagerow[i] EXCEPT !.enable = ~@]]]
    /\ OnlyRequest

\* save() without update_fields: every column, of a row that is inserted anew
\* if it is gone.
SaveImage(w) ==
    /\ InStep(w, "save_all")
    /\ imagerow' = [imagerow EXCEPT ![request[w].image] = request[w].row]
    /\ To(w, "idle")
    /\ OnlyImageRow

DeleteImage(w, i) ==
    /\ Arrives(w, "delete_image", i, NoOne)
    /\ imagerow[i].live
    /\ Receive(w, "delete_image", i, NoOne, "rename_base")
    /\ OnlyRequest

\* Where remove_image_vm begins, and what follows it.
RemoveVm(row, after) == IF row.vm_uuid = 0 THEN after ELSE "undefine"

AfterRemoval(op) == IF op = "delete_image" THEN "image_rowdel" ELSE "clear"

\* The base image is put aside, with the snapshots disks were cloned from.
RenameBase(w) ==
    LET i == request[w].image
        next == RemoveVm(request[w].row, "image_rowdel")
    IN
    /\ InStep(w, "rename_base")
    /\ IF image_exists(pool, i)
       THEN Ceph(w, rename_image(pool, i, Aside(i)), next, "idle") /\ UNCHANGED tick
       ELSE To(w, next) /\ CephSame
    /\ OnlyCeph

\* SET_NULL in the machines.
DeleteImageRow(w) ==
    LET i == request[w].image IN
    /\ InStep(w, "image_rowdel")
    /\ imagerow' = [imagerow EXCEPT ![i] = NoImageRow]
    /\ machine' = [v \in Machines |-> IF machine[v].image = i
                                       THEN [machine[v] EXCEPT !.image = NoOne] ELSE machine[v]]
    /\ To(w, "idle")
    /\ UNCHANGED snaprow /\ DomainsSame /\ CephSame /\ AnswersSame /\ UNCHANGED host

-----------------------------------------------------------------------------
(* The vm an image is maintained with.  It runs on the base image itself;  *)
(* its uuid and place are columns of the image, and the page offers what   *)
(* fits the columns: the handlers do not look at them.                     *)

Offered(op, row) ==
    CASE op \in {"shelve_image_vm", "delete_image_vm", "image_vm_power"} -> row.vm_uuid # 0
      [] op = "create_image_vm" -> row.vm_uuid = 0
      [] OTHER -> row.vm_uuid = 0 /\ row.vm_host # NoOne

\* shelve, delete and delshelve.
EndImageVm(w, op, i) ==
    /\ op \in {"shelve_image_vm", "delete_image_vm", "delshelve_image_vm"}
    /\ Arrives(w, op, i, NoOne)
    /\ imagerow[i].live /\ Offered(op, imagerow[i])
    /\ Receive(w, op, i, NoOne, IF op = "delshelve_image_vm" THEN "clear" ELSE "undefine")
    /\ OnlyRequest

\* start, shutdown and poweroff.
ImageVmPower(w, i) ==
    LET uuid == imagerow[i].vm_uuid IN
    /\ Arrives(w, "image_vm_power", i, NoOne)
    /\ imagerow[i].live /\ Offered("image_vm_power", imagerow[i])
    /\ imgdom[uuid] # "none"
    /\ imgdom' = [imgdom EXCEPT ![uuid] = IF @ = "on" THEN "off" ELSE "on"]
    /\ UNCHANGED <<machdom, last_uuid, request, host>>
    /\ ImageRowsSame /\ MachineRowsSame /\ CephSame /\ AnswersSame

\* delete_for_image: the domain is powered off and undefined; a host that does
\* not answer the second of the two calls is taken to have no domain any more.
\* A row with a vm but no host, whose delshelve came late, is an error.
UndefineImageVm(w) ==
    LET row == request[w].row
        next == IF row.vm_host = NoOne THEN {"idle"}
                ELSE {"vm_created_sub"} \cup (IF Breaks("undefine") THEN {"idle"} ELSE {})
    IN
    /\ InStep(w, "undefine")
    /\ \E pc \in next, dom \in Power :
          /\ dom \in CASE row.vm_host = NoOne -> {imgdom[row.vm_uuid]}
                       [] pc = "idle" -> {imgdom[row.vm_uuid]} \cup {"off"}
                       [] OTHER -> {"none"} \cup (IF Breaks("host_down") THEN {imgdom[row.vm_uuid], "off"}
                                                ELSE {})
          /\ imgdom' = [imgdom EXCEPT ![row.vm_uuid] = IF @ = "none" THEN "none" ELSE dom]
          /\ request' = [request EXCEPT ![w] = IF pc = "idle" THEN NoRequest
                                              ELSE [@ EXCEPT !.pc = pc, !.host = row.vm_host]]
    /\ UNCHANGED <<machdom, last_uuid, host>>
    /\ ImageRowsSame /\ MachineRowsSame /\ CephSame /\ AnswersSame

RemovedImageVm(w) ==
    /\ InStep(w, "vm_created_sub")
    /\ vm_created_num_sub_1(request[w].host)
    /\ To(w, "free")
    /\ ImageRowsSame /\ MachineRowsSame /\ DomainsSame /\ CephSame /\ AnswersSame

\* A fault of FreeImageVm that a run has to find: only the memory is given back.
FreeImageVm_memOnly(w) ==
    /\ InStep(w, "free")
    /\ free(request[w].host, 0, 1)
    /\ To(w, AfterRemoval(request[w].op))
    /\ ImageRowsSame /\ MachineRowsSame /\ DomainsSame /\ CephSame /\ AnswersSame

FreeImageVm(w) ==
    /\ InStep(w, "free")
    /\ free(request[w].host, 1, 1)
    /\ To(w, AfterRemoval(request[w].op))
    /\ ImageRowsSame /\ MachineRowsSame /\ DomainsSame /\ CephSame /\ AnswersSame

\* save(update_fields=[...]): of shelve the uuid, of delshelve the place, of
\* delete both; an error when the row is gone.
ClearImageVm(w) ==
    LET op == request[w].op
        row == imagerow[request[w].image]
    IN
    /\ InStep(w, "clear")
    /\ imagerow' = [imagerow EXCEPT ![request[w].image] =
           IF ~row.live THEN row
           ELSE [row EXCEPT !.vm_uuid = IF op = "delshelve_image_vm" THEN row.vm_uuid ELSE 0,
                            !.vm_host = IF op = "shelve_image_vm" THEN row.vm_host ELSE NoOne]]
    /\ To(w, "idle")
    /\ OnlyImageRow

\* create_vm_for_image, of the form that asks for a host, and of an image
\* vm that was shelved, which has one.
StartImageVm(w, op, i, h) ==
    /\ op \in {"create_image_vm", "unshelve_image_vm"}
    /\ Arrives(w, op, i, NoOne)
    /\ imagerow[i].live /\ Offered(op, imagerow[i])
    /\ op = "unshelve_image_vm" => h = imagerow[i].vm_host
    /\ request' = [request EXCEPT ![w] =
                     [NoRequest EXCEPT !.op = op, !.image = i, !.host = h, !.pc = "claim"]]
    /\ OnlyRequest

\* The address is looked up after the claim and outside of what undoes it.
ClaimForImage(w) ==
    LET h == request[w].host IN
    /\ InStep(w, "claim")
    /\ IF can_claim(h, 1, 1)
       THEN deduct_delta(h, 1, 1) /\ (To(w, "get_image") \/ (Breaks("no_address") /\ To(w, "idle")))
       ELSE UNCHANGED host /\ To(w, "idle")
    /\ ImageRowsSame /\ MachineRowsSame /\ DomainsSame /\ CephSame /\ AnswersSame

GetImage(w) ==
    LET row == imagerow[request[w].image] IN
    /\ InStep(w, "get_image")
    /\ request' = [request EXCEPT ![w].row = row, ![w].pc = IF row.live THEN "save_vm" ELSE "unclaim"]
    /\ OnlyRequest

\* save(update_fields=[...]) of the five columns, with a new uuid.
SaveImageVm(w) ==
    LET i == request[w].image IN
    /\ InStep(w, "save_vm")
    /\ last_uuid < MaxUuid
    /\ IF imagerow[i].live
       THEN /\ imagerow' = [imagerow EXCEPT ![i].vm_uuid = last_uuid + 1,
                                            ![i].vm_host = request[w].host]
            /\ request' = [request EXCEPT ![w].row.vm_uuid = last_uuid + 1, ![w].pc = "define_vm"]
            /\ last_uuid' = last_uuid + 1
       ELSE UNCHANGED <<imagerow, last_uuid>> /\ To(w, "unclaim")
    /\ UNCHANGED <<machdom, imgdom, host>> /\ MachineRowsSame /\ CephSame /\ AnswersSame

DefineImageVm(w) ==
    LET uuid == request[w].row.vm_uuid IN
    /\ InStep(w, "define_vm")
    /\ \/ imgdom' = [imgdom EXCEPT ![uuid] = "off"] /\ To(w, "vm_created_add")
       \/ Breaks("define") /\ UNCHANGED imgdom /\ To(w, "reset_vm")
    /\ UNCHANGED <<machdom, last_uuid, host>>
    /\ ImageRowsSame /\ MachineRowsSame /\ CephSame /\ AnswersSame

\* A fault of ResetImageVm that a run has to find: the row keeps the vm that
\* could not be defined.
ResetImageVm_keeps(w) ==
    /\ InStep(w, "reset_vm")
    /\ To(w, "unclaim")
    /\ OnlyRequest

\* save() of every column of the row as it was loaded, with no vm.
ResetImageVm(w) ==
    /\ InStep(w, "reset_vm")
    /\ imagerow' = [imagerow EXCEPT ![request[w].image] =
                       [request[w].row EXCEPT !.vm_uuid = 0, !.vm_host = NoOne]]
    /\ To(w, "unclaim")
    /\ OnlyImageRow

UnclaimForImage(w) ==
    /\ InStep(w, "unclaim")
    /\ free(request[w].host, 1, 1)
    /\ To(w, "idle")
    /\ ImageRowsSame /\ MachineRowsSame /\ DomainsSame /\ CephSame /\ AnswersSame

CreatedImageVm(w) ==
    /\ InStep(w, "vm_created_add")
    /\ vm_created_num_add_1(request[w].host)
    /\ To(w, "idle")
    /\ ImageRowsSame /\ MachineRowsSame /\ DomainsSame /\ CephSame /\ AnswersSame

-----------------------------------------------------------------------------
(* Machines: the part of create_vm that is about the disk, and the change  *)
(* of a machine's system.                                                  *)

\* A new uuid; the size asked for is that of the image or larger.
CreateMachine(w, v, i, size) ==
    /\ Arrives(w, "create_machine", i, v)
    /\ ~machine[v].live /\ ~image_exists(pool, v) /\ Engaged(NoOne, v) = {}
    /\ imagerow[i].live /\ imagerow[i].enable
    /\ image_exists(pool, i) => size >= pool[i].size
    /\ request' = [request EXCEPT ![w] =
                     [NoRequest EXCEPT !.op = "create_machine", !.image = i, !.machine = v,
                                       !.row = imagerow[i], !.size = size, !.pc = "clone_disk"]]
    /\ OnlyRequest

\* clone_image; the new disk is enlarged where the size asked for is larger.
CloneDisk(w) ==
    LET v == request[w].machine
        made == clone_image(pool, request[w].image, request[w].row.snap, v)
    IN
    /\ InStep(w, "clone_disk")
    /\ Ceph(w, made, "resize_new", "idle")
    /\ OnlyCeph /\ UNCHANGED tick

ResizeNewDisk(w) ==
    LET v == request[w].machine IN
    /\ InStep(w, "resize_new")
    /\ Ceph(w, resize_rbd_image(pool, v, request[w].size), "save_machine", "remove_disk")
    /\ OnlyCeph /\ UNCHANGED tick

\* The key of the image is not a constraint of the database.
SaveMachine(w) ==
    LET i == request[w].image IN
    /\ InStep(w, "save_machine")
    /\ machine' = [machine EXCEPT ![request[w].machine] =
                     [live |-> TRUE, image |-> i, image_parent |-> i,
                      image_snap |-> request[w].row.snap, sys_disk_size |-> request[w].size]]
    /\ To(w, "define_machine")
    /\ UNCHANGED snaprow
    /\ OnlyMachineRow

\* The row is deleted again when the domain cannot be defined.
DefineMachine(w) ==
    LET v == request[w].machine IN
    /\ InStep(w, "define_machine")
    /\ \/ machdom' = [machdom EXCEPT ![v] = "off"] /\ To(w, "size_read") /\ UNCHANGED machine
       \/ /\ Breaks("define") /\ UNCHANGED machdom
          /\ machine' = [machine EXCEPT ![v] = NoMachine]
          /\ To(w, "remove_disk")
    /\ UNCHANGED <<snaprow, imgdom, last_uuid, host>>
    /\ ImageRowsSame /\ CephSame /\ AnswersSame

RemoveNewDisk(w) ==
    /\ InStep(w, "remove_disk")
    /\ Ceph(w, remove_image(pool, request[w].machine), "idle", "idle")
    /\ OnlyCeph /\ UNCHANGED tick

\* What is_running says; start and poweroff.
MachinePower(w, v) ==
    /\ Arrives(w, "power", NoOne, v)
    /\ machine[v].live /\ machdom[v] # "none"
    /\ machdom' = [machdom EXCEPT ![v] = IF @ = "on" THEN "off" ELSE "on"]
    /\ UNCHANGED <<imgdom, last_uuid, request, host>>
    /\ ImageRowsSame /\ MachineRowsSame /\ CephSame /\ AnswersSame

\* A request about one machine; those that _require_shutdown end here when it
\* is running.
AboutMachine(w, op, v) ==
    /\ Arrives(w, op, NoOne, v)
    /\ machine[v].live
    /\ op \in {"change_sys_disk", "rollback", "sys_disk_expand"} => machdom[v] = "off"

\* The rows of the snapshots are deleted in one statement, which removes no
\* snapshot from the disk: they go aside with it.
ChangeSysDisk(w, v, i) ==
    /\ AboutMachine(w, "change_sys_disk", v)
    /\ imagerow[i].live /\ imagerow[i].enable
    /\ snaprow' = [s \in DOMAIN snaprow |-> IF snaprow[s] = v THEN NoOne ELSE snaprow[s]]
    /\ Receive(w, "change_sys_disk", i, v, "rename_disk")
    /\ UNCHANGED machine
    /\ OnlyMachineRow

RenameSysDisk(w) ==
    LET v == request[w].machine IN
    /\ InStep(w, "rename_disk")
    /\ Ceph(w, rename_image(pool, v, Aside(v)), "clone_new", "idle")
    /\ OnlyCeph /\ UNCHANGED tick

\* reset_image_create_vm: a disk of that name that is there already will do.
CloneNewDisk(w) ==
    LET v == request[w].machine IN
    /\ InStep(w, "clone_new")
    /\ IF image_exists(pool, v)
       THEN To(w, "define_new") /\ UNCHANGED pool
       ELSE Ceph(w, clone_image(pool, request[w].image, request[w].row.snap, v),
                 "define_new", "rename_back")
    /\ OnlyCeph /\ UNCHANGED tick

DefineNew(w) ==
    /\ InStep(w, "define_new")
    /\ To(w, "save_new") \/ (Breaks("define") /\ To(w, "remove_new"))
    /\ OnlyRequest

\* update_image_fields and the save of what it set.
SaveNew(w) ==
    LET i == request[w].image IN
    /\ InStep(w, "save_new")
    /\ machine' = [machine EXCEPT ![request[w].machine] =
                     [@ EXCEPT !.image = i, !.image_parent = i, !.image_snap = request[w].row.snap]]
    /\ To(w, "remount")
    /\ UNCHANGED snaprow
    /\ OnlyMachineRow

\* The new domain is given the vdisks and the devices of the machine.  A device
\* that it cannot be given, or an attached address, ends the request here: the
\* new system stays, and its size is not read.
RemountDevices(w) ==
    /\ InStep(w, "remount")
    /\ To(w, "size_read") \/ (Breaks("remount") /\ To(w, "idle"))
    /\ OnlyRequest

RemoveNew(w) ==
    /\ InStep(w, "remove_new")
    /\ Ceph(w, remove_image(pool, request[w].machine), "rename_back", "rename_back")
    /\ OnlyCeph /\ UNCHANGED tick

\* A fault of RenameBack that a run has to find: the machine is left without
\* the disk that was put aside.
RenameBack_skipped(w) ==
    /\ InStep(w, "rename_back")
    /\ To(w, "idle")
    /\ OnlyRequest

RenameBack(w) ==
    LET v == request[w].machine IN
    /\ InStep(w, "rename_back")
    /\ Ceph(w, rename_image(pool, Aside(v), v), "idle", "idle")
    /\ OnlyCeph /\ UNCHANGED tick

\* update_sys_disk_size: the size ceph gives, saved in a statement of its own.
\* That it cannot be had is ignored.
ReadSize(w) ==
    LET v == request[w].machine IN
    /\ InStep(w, "size_read")
    /\ \/ /\ image_exists(pool, v)
          /\ request' = [request EXCEPT ![w].size = pool[v].size, ![w].pc = "size_save"]
       \/ (~image_exists(pool, v) \/ Breaks("get_size")) /\ To(w, "idle")
    /\ OnlyRequest

SaveSize(w) ==
    /\ InStep(w, "size_save")
    /\ machine' = [machine EXCEPT ![request[w].machine] =
                     IF @.live THEN [@ EXCEPT !.sys_disk_size = request[w].size] ELSE @]
    /\ To(w, "idle")
    /\ UNCHANGED snaprow
    /\ OnlyMachineRow

\* The cap of 5 TB is MaxSize.
ExpandSysDisk(w, v, expand_size) ==
    LET size == machine[v].sys_disk_size + expand_size IN
    /\ AboutMachine(w, "sys_disk_expand", v)
    /\ size <= MaxSize
    /\ request' = [request EXCEPT ![w] = [NoRequest EXCEPT !.op = "sys_disk_expand", !.machine = v,
                                                           !.size = size, !.pc = "resize"]]
    /\ OnlyRequest

ResizeSysDisk(w) ==
    /\ InStep(w, "resize")
    /\ Ceph(w, resize_rbd_image(pool, request[w].machine, request[w].size), "size_read", "idle")
    /\ OnlyCeph /\ UNCHANGED tick

-----------------------------------------------------------------------------
(* Snapshots of a system disk: VmDiskSnap.save, delete, and rollback.      *)

CreateSysSnap(w, v) ==
    /\ AboutMachine(w, "create_sys_snap", v)
    /\ Receive(w, "create_sys_snap", NoOne, v, "sys_snap")
    /\ OnlyRequest

TakeSysSnap(w) ==
    /\ InStep(w, "sys_snap")
    /\ tick < MaxTick /\ tick' = tick + 1
    /\ \E r \in create_snap(pool, request[w].machine, tick + 1, FALSE) :
          /\ r.own = "" \/ Breaks(r.own)
          /\ pool' = r.pool
          /\ request' = [request EXCEPT ![w] = IF r.ok THEN [@ EXCEPT !.snap = tick + 1,
                                                                      !.pc = "sys_snap_save"]
                                               ELSE NoRequest]
    /\ OnlyCeph

SaveSysSnap(w) ==
    /\ InStep(w, "sys_snap_save")
    /\ snaprow' = [snaprow EXCEPT ![request[w].snap] = request[w].machine]
    /\ To(w, "idle")
    /\ UNCHANGED machine
    /\ OnlyMachineRow

AboutSysSnap(w, op, v, s) ==
    /\ op \in {"delete_sys_snap", "rollback"}
    /\ AboutMachine(w, op, v)
    /\ snaprow[s] = v
    /\ request' = [request EXCEPT ![w] =
                     [NoRequest EXCEPT !.op = op, !.machine = v, !.snap = s,
                                       !.pc = IF op = "rollback" THEN "rollback" ELSE "remove_sys_snap"]]
    /\ OnlyRequest

RemoveSysSnap(w) ==
    /\ InStep(w, "remove_sys_snap")
    /\ Ceph(w, remove_snap(pool, request[w].machine, request[w].snap), "snap_rowdel", "idle")
    /\ OnlyCeph /\ UNCHANGED tick

DeleteSysSnapRow(w) ==
    /\ InStep(w, "snap_rowdel")
    /\ snaprow' = [snaprow EXCEPT ![request[w].snap] = NoOne]
    /\ To(w, "idle")
    /\ UNCHANGED machine
    /\ OnlyMachineRow

RollbackDisk(w) ==
    /\ InStep(w, "rollback")
    /\ Ceph(w, image_rollback_to_snap(pool, request[w].machine, request[w].snap), "size_read", "idle")
    /\ OnlyCeph /\ UNCHANGED tick

-----------------------------------------------------------------------------
(* A user publishes the disk of a machine as an image: VmImageRelease,     *)
(* vm_user_release_image and user_flatten_image.  A refusal sets the       *)
(* status of the class of the answers, JsonResponse.                       *)

MayRelease(v) ==
    /\ machdom[v] # "on"
    /\ machine[v].image # NoOne
    /\ imagerow[machine[v].image].live /\ imagerow[machine[v].image].enable

ReleaseImage(w, v, i) ==
    /\ Arrives(w, "release", i, v)
    /\ machine[v].live
    /\ IF MayRelease(v)
       THEN /\ request' = [request EXCEPT ![w] =
                  [NoRequest EXCEPT !.op = "release", !.image = i, !.machine = v, !.pc = "rel_exists"]]
            /\ AnswersSame
       ELSE json_status_code' = 400 /\ UNCHANGED request
    /\ ImageRowsSame /\ MachineRowsSame /\ DomainsSame /\ CephSame /\ UNCHANGED host

\* A call of ceph of a release; one that fails answers with a refusal unless
\* there is more to do.
ReleaseCall(w, pc, outcomes, ok_pc, error_pc) ==
    /\ InStep(w, pc)
    /\ Ceph(w, outcomes, ok_pc, error_pc)
    /\ json_status_code' = IF request'[w].pc = "idle" THEN 400 ELSE json_status_code
    /\ ImageRowsSame /\ MachineRowsSame /\ DomainsSame /\ UNCHANGED <<tick, host>>

ReleaseExists(w) ==
    ReleaseCall(w, "rel_exists", {Outcome(~image_exists(pool, request[w].image), "", pool)},
                "rel_snap", "idle")

ReleaseSnap(w) ==
    LET v == request[w].machine IN
    /\ InStep(w, "rel_snap")
    /\ tick < MaxTick /\ tick' = tick + 1
    /\ \E r \in create_snap(pool, v, tick + 1, TRUE) :
          /\ r.own = "" \/ Breaks(r.own)
          /\ pool' = r.pool
          /\ request' = [request EXCEPT ![w] = IF r.ok THEN [@ EXCEPT !.snap = tick + 1, !.pc = "rel_clone"]
                                               ELSE NoRequest]
          /\ json_status_code' = IF r.ok THEN json_status_code ELSE 400
    /\ ImageRowsSame /\ MachineRowsSame /\ DomainsSame /\ UNCHANGED host

\* When the clone fails the snapshot stays, protected.
ReleaseClone(w) ==
    LET r == request[w] IN
    ReleaseCall(w, "rel_clone", clone_image(pool, r.machine, r.snap, r.image), "rel_flatten", "idle")

ReleaseFlatten(w) ==
    ReleaseCall(w, "rel_flatten", flatten_image(pool, request[w].image), "rel_unsnap", "rel_remove")

ReleaseRemove(w) ==
    ReleaseCall(w, "rel_remove", remove_image(pool, request[w].image), "rel_unsnap_failed", "idle")

\* A fault of ReleaseUndoSnap that a run has to find: the snapshot is left.
ReleaseUndoSnap_skipped(w) ==
    ReleaseCall(w, "rel_unsnap_failed", {Outcome(TRUE, "", pool)}, "idle", "idle")

ReleaseUndoSnap(w) ==
    LET r == request[w] IN
    ReleaseCall(w, "rel_unsnap_failed", remove_snap(pool, r.machine, r.snap), "idle", "idle")

\* Image.objects.create follows, which finds its base image made.
ReleaseUnsnap(w) ==
    LET r == request[w] IN
    ReleaseCall(w, "rel_unsnap", remove_snap(pool, r.machine, r.snap), "create_image", "create_image")

-----------------------------------------------------------------------------

ImageStep(w) ==
    \/ CreateBaseImage(w) \/ CreateSnap(w) \/ InsertImage(w)
    \/ RemoveOldSnap(w) \/ SaveImage(w)
    \/ RenameBase(w) \/ DeleteImageRow(w)
    \/ UndefineImageVm(w) \/ RemovedImageVm(w) \/ FreeImageVm(w) \/ ClearImageVm(w)
    \/ ClaimForImage(w) \/ GetImage(w) \/ SaveImageVm(w) \/ DefineImageVm(w)
    \/ ResetImageVm(w) \/ UnclaimForImage(w) \/ CreatedImageVm(w)
    \/ \E i \in Images :
        \/ AddImage(w, i) \/ SnapUpdate(w, i) \/ EnableUpdate(w, i) \/ DeleteImage(w, i)
        \/ ImageVmPower(w, i)
        \/ \E op \in ImageOps : EndImageVm(w, op, i)
        \/ \E op \in ImageOps, h \in Hosts : StartImageVm(w, op, i, h)

MachineStep(w) ==
    \/ CloneDisk(w) \/ ResizeNewDisk(w) \/ SaveMachine(w) \/ DefineMachine(w) \/ RemoveNewDisk(w)
    \/ RenameSysDisk(w) \/ CloneNewDisk(w) \/ DefineNew(w) \/ SaveNew(w) \/ RemountDevices(w)
    \/ RemoveNew(w) \/ RenameBack(w)
    \/ ReadSize(w) \/ SaveSize(w) \/ ResizeSysDisk(w)
    \/ TakeSysSnap(w) \/ SaveSysSnap(w) \/ RemoveSysSnap(w) \/ DeleteSysSnapRow(w) \/ RollbackDisk(w)
    \/ ReleaseExists(w) \/ ReleaseSnap(w) \/ ReleaseClone(w) \/ ReleaseFlatten(w)
    \/ ReleaseRemove(w) \/ ReleaseUndoSnap(w) \/ ReleaseUnsnap(w)
    \/ \E v \in Machines :
        \/ MachinePower(w, v) \/ CreateSysSnap(w, v)
        \/ \E size \in 1 .. MaxSize :
             \/ ExpandSysDisk(w, v, size)
             \/ \E i \in Images : CreateMachine(w, v, i, size)
        \/ \E i \in Images : ChangeSysDisk(w, v, i) \/ ReleaseImage(w, v, i)
        \/ \E op \in ImageOps, s \in 1 .. MaxTick : AboutSysSnap(w, op, v, s)

ImagesNext ==
    /\ UNCHANGED setting
    /\ \E w \in Threads : ImageStep(w) \/ MachineStep(w)

ImagesSpec == ImagesInit /\ [][ImagesNext]_imageVars
=============================================================================
