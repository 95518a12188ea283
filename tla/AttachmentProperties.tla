------------------------ MODULE AttachmentProperties ------------------------
(***************************************************************************)
(* What Attachments has to keep, whatever the requests that meet and the   *)
(* calls of libvirt and ceph that fail.                                    *)
(***************************************************************************)
EXTENDS Attachments

\* No request is at work on the vm or the thing.
Quiet(v, t) == BusyOn(v, t) = {}

Attached(v) == {s.thing : s \in domain[v].live \cup domain[v].config}

-----------------------------------------------------------------------------
(* Disks and devices.                                                      *)

\* A virtual disk is in the description, live or persistent, of one vm at
\* most: two machines that write the same image destroy its file system.  Of
\* mount_disk, whose row lock comes before the attach of libvirt, and of
\* umount_disk, whose detach comes before the row is cleared.
DiskOnOneVm ==
    \A a, b \in Vms : a # b => Attached(a) \cap Attached(b) \cap Disks = {}

\* A disk or device that is in a domain is recorded as mounted on that vm, at
\* every step of the requests at work on it.  Of the attach that fails half way
\* and of the detach that is taken back.
RecordedHolder ==
    \A v \in Vms :
        /\ \A d \in Attached(v) \cap Disks : vdisk[d].vm = v
        /\ \A p \in Attached(v) \cap Devices : pci[p] = v

\* The image of a disk that is listed is there under its uuid, that of one
\* that was removed for good is gone, and a domain never has a disk that was
\* removed.  Of the create that fails half way and of the renaming.
ImageOfRow ==
    \A d \in Disks : Quiet(NoVm, d) =>
        CASE vdisk[d].state = "live" -> image[d] = "uuid"
          [] vdisk[d].state = "deleted" -> image[d] # "none" /\ vdisk[d].vm = NoVm
          [] OTHER -> image[d] = "none" /\ \A v \in Vms : d \notin Attached(v)

-----------------------------------------------------------------------------
(* The quota of the pools.                                                 *)

ClaimOf(w) ==
    IF worker[w].pc \in {"save", "undo_claim"} THEN worker[w].quota ELSE NoQuota

FreedBy(d) ==
    \E w \in Workers : worker[w].pc = "rowdel" /\ worker[w].thing = d

\* What a pool counts as used is what its disks take, deleted ones included
\* until they are removed for good, and what requests have claimed.
VdiskLedger ==
    \A q \in Quotas :
        size_used[q] = DiskSize *
            (  Cardinality({d \in Disks : vdisk[d].quota = q /\ ~FreedBy(d)})
             + Cardinality({w \in Workers : ClaimOf(w) = q}))

\* Requests that read the pool before each other's claim overcommit it, but by
\* no more than one disk for each of them but the first.
OvercommitBounded ==
    \A q \in Quotas :
        size_used[q] <= QuotaTotal[q] + (Cardinality(Workers) - 1) * DiskSize

-----------------------------------------------------------------------------
(* Addresses.                                                              *)

\* An address that is recorded as attached, and that no request is at work on,
\* is marked used, so that the pool does not give it to another, and the vm it
\* is recorded for exists.  Of two requests for the address that meet, one of
\* which takes back what it did.
AttachedIsUsed ==
    \A i \in Ips : Quiet(NoVm, i) /\ attached[i] # "none" =>
        used[i] /\ attached[i] \in Vms /\ vm_status[attached[i]] # "none"

-----------------------------------------------------------------------------
(* What a step may do.                                                     *)

\* A disk is taken out of a machine that runs only by a request to unmount
\* it, by a mount of it that failed, or because the machine stops.
LeavesRunning(v, d) ==
    /\ d \in {s.thing : s \in domain[v].live}
    /\ domain'[v].running
    /\ d \notin {s.thing : s \in domain'[v].live}

OnlyItsUmount ==
    [][\A v \in Vms, d \in Disks : LeavesRunning(v, d) =>
          \E w \in Workers : worker[w].pc \in {"detach", "attach"} /\ worker[w].thing = d]_vars

-----------------------------------------------------------------------------
(* What the documentation says, and the code does not keep.                *)

\* A disk that is mounted is recorded under the device name it has.
DevIsRecorded ==
    \A v \in Vms : \A s \in domain[v].config :
        s.thing \in Disks /\ Quiet(v, s.thing) => vdisk[s.thing].dev = s.dev
=============================================================================
