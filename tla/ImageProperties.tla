--------------------------- MODULE ImageProperties ---------------------------
(***************************************************************************)
(* What has to hold of images, of the disks made from them and of the vms  *)
(* they are maintained with.                                               *)
(***************************************************************************)
EXTENDS SystemImages

RequestsOn(ops) == {w \in Threads : request[w].op \in ops}

\* A request in one of these steps is about image i.
ImageBusy(ops, i) == \E w \in RequestsOn(ops) : request[w].image = i

MachineBusy(ops, v) == \E w \in RequestsOn(ops) : request[w].machine = v

\* The snapshot a row of an image names is there, on the image of that name,
\* and protected, so that a disk can be cloned from it.
SnapInPlace(i) ==
    HasSnap(pool, i, imagerow[i].snap) /\ imagerow[i].snap \in pool[i].protected

\* An update removes the snapshot in force before it makes another: these calls
\* fail in between.
UpdateMayFail ==
    "snap_update" \in setting.ops /\ {"create_snap", "protect_snap"} \cap setting.failing # {}

\* An image that is not just updated or deleted has its snapshot, whatever other
\* calls fail, and however those requests meet that the setting lets meet: two
\* updates, two additions under one name, two deletions, and clones, releases
\* and changes of a system beside them.  Where an update may fail between the two
\* snapshots it is not so, see SnapInForce (Image.create_snap, Image.delete and
\* user_flatten_image).
SnapOfImage ==
    \A i \in Images :
        imagerow[i].live /\ ~ImageBusy({"snap_update", "delete_image"}, i)
        => SnapInPlace(i) \/ UpdateMayFail

-----------------------------------------------------------------------------

RowsOnHost(h) == {i \in Images : imagerow[i].vm_uuid # 0 /\ imagerow[i].vm_host = h}

RequestsAt(pcs, h) == {w \in Threads : request[w].pc \in pcs /\ request[w].host = h}

\* The columns of a host count the vms of images that the rows name there, but
\* for what requests on their way have claimed and not yet entered, or given
\* back and not yet cleared (create_vm_for_image, delete_for_image and the
\* views of image/views.py).
ImageVmLedger ==
    \A h \in Hosts :
       LET rows == Cardinality(RowsOnHost(h))
           claimed == Cardinality(RequestsAt({"get_image", "save_vm", "unclaim"}, h))
           freed == Cardinality(RequestsAt({"clear", "image_rowdel"}, h))
           uncounted == Cardinality(RequestsAt({"define_vm", "reset_vm", "vm_created_add", "free",
                                                "clear", "image_rowdel"}, h))
       IN /\ host[h].vcpu_allocated = rows + claimed - freed
          /\ host[h].mem_allocated = rows + claimed - freed
          /\ host[h].vm_created = rows - uncounted

\* A domain made for an image is the one its row names: none is left on a host
\* that no row knows of, and no row names one that is not there.
DomainOfImage ==
    \A u \in 1 .. MaxUuid :
       LET holders == {i \in Images : imagerow[i].live /\ imagerow[i].vm_uuid = u} IN
       /\ imgdom[u] # "none" => holders # {}
       /\ \A i \in holders : imgdom[u] = "none" => \E w \in Threads : request[w].image = i

-----------------------------------------------------------------------------

\* The end of change_sys_disk, or the reading of the size, may fail: the row then
\* keeps the size it had.
SizeMayBeOld == {"remount", "get_size"} \cap setting.failing # {}

\* A machine that no request is at work on has its disk, cloned from the image
\* and the snapshot its row says, wherever that image is by now, and of the size
\* its row says, unless the setting lets the reading of it fail, see SizeOfDisk
\* (create_vm, change_sys_disk and what undoes a change that failed,
\* update_sys_disk_size).
DiskOfMachine ==
    \A v \in Machines :
       machine[v].live /\ (\A w \in Threads : request[w].machine # v)
       => /\ image_exists(pool, v)
          /\ pool[v].size = machine[v].sys_disk_size \/ SizeMayBeOld
          /\ pool[v].parent \in
                {NoParent, <<machine[v].image_parent, machine[v].image_snap>>,
                 <<Aside(machine[v].image_parent), machine[v].image_snap>>}

\* The snapshots of a machine's disk: each VmDiskSnap row names one that is
\* there; and the one that a release takes, the only one that is protected,
\* does not outlast it (VmDiskSnap.save and delete, change_sys_disk,
\* user_flatten_image).
SnapshotsOfDisk ==
    \A v \in Machines :
       /\ \A s \in DOMAIN snaprow :
             snaprow[s] = v => HasSnap(pool, v, s) \/ MachineBusy({"delete_sys_snap"}, v)
       /\ pool[v].protected # {} => MachineBusy({"release"}, v)

-----------------------------------------------------------------------------
(* What the documentation says, and the code does not keep.                *)

\* A release that ends with the image in the list answers that it did: the
\* status of the answer at the end of VmImageRelease.post is that of a success.
ReleaseAnswered ==
    [][\A w \in Threads, i \in Images :
          /\ InStep(w, "insert") /\ request[w].op = "release" /\ request[w].image = i
          /\ ~imagerow[i].live /\ imagerow'[i].live
          => json_status_code' = 200]_imageVars

\* "当前生效镜像快照", the snapshot in force (Image.snap, image/models.py): an
\* image that nobody is at work on has one to clone from.
SnapInForce == \A i \in Images : imagerow[i].live /\ ~ImageBusy(ImageOps, i) => SnapInPlace(i)

\* "系统盘有变化，更新系统盘大小", the disk has changed, update its size
\* (change_sys_disk): the row of a machine that nobody is at work on has it.
SizeOfDisk ==
    \A v \in Machines :
       machine[v].live /\ ~MachineBusy(ImageOps, v) => pool[v].size = machine[v].sys_disk_size
=============================================================================
