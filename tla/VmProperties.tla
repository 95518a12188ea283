--------------------------- MODULE VmProperties ----------------------------
(***************************************************************************)
(* What VmLifecycle is meant to keep true.  Each vm is accounted for by    *)
(* the request that works on it, as far as that request has got, or, when  *)
(* none does, by its row.                                                  *)
(***************************************************************************)
EXTENDS VmLifecycle

\* The ledgers count what the virtual machines hold: there are finitely many
\* uuids.
ASSUME VmsAssumption == IsFiniteSet(Vms)

NoClaim == [host |-> NoHost, vcpu |-> 0, mem |-> 0]

\* The requests on v past the point where a second delete turns back; the
\* removal of an archive record answers for nothing of the vm itself.
Engaged(v) == {w \in Busy(v) : ~At(w, "archive") /\ worker[w].op # "purge"}

\* The request still answers for a claim on worker[w].host.
HoldsHost(w) ==
    LET r == worker[w]
    IN  \/ /\ r.op \in {"create", "unshelve"}
           /\ r.host # NoHost
           /\ r.pc \notin {"pick_ip", "claim", "undo_disk"}
        \/ r.op \in Deletes /\ r.pc \notin {"rename", "rename_save"}
        \/ r.op = "shelve" /\ r.pc \in {"undefine", "free_ip", "free_host"}
        \/ r.op = "edit"

\* ... for the address worker[w].ip.
HoldsIp(w) ==
    LET r == worker[w]
    IN  \/ /\ r.op \in {"create", "unshelve"}
           /\ r.pc \notin {"ip", "undo_host", "undo_disk"}
        \/ r.op \in Deletes /\ r.pc \notin {"free_host", "rename", "rename_save"}
        \/ r.op = "shelve" /\ r.pc \in {"undefine", "free_ip"}
        \/ r.op = "edit"

\* ... for one unit of vm_created.
HoldsCount(w) ==
    LET r == worker[w]
    IN  \/ /\ r.op \in Deletes
           /\ r.pc \notin {"free_ip", "free_host", "rename", "rename_save"}
        \/ r.op = "shelve" /\ r.pc # "shelve_save"
        \/ r.op = "edit"

\* What a change of size has claimed by now.
ClaimOfWorker(w) ==
    LET r == worker[w]
        now == IF r.op = "edit" /\ r.pc \in {"deduct", "edit_redefine"} THEN r.row ELSE r
    IN  IF HoldsHost(w)
        THEN [host |-> r.host, vcpu |-> now.vcpu, mem |-> now.mem]
        ELSE NoClaim

\* A vm that no request is engaged with is accounted for by its row.
ClaimOf(v) ==
    LET engaged == Engaged(v)
    IN  IF engaged # {}
        THEN ClaimOfWorker(CHOOSE w \in engaged : TRUE)
        ELSE IF vmrow[v].vm_status = "normal"
             THEN [host |-> vmrow[v].host, vcpu |-> vmrow[v].vcpu, mem |-> vmrow[v].mem]
             ELSE NoClaim

IpOf(v) ==
    LET engaged == Engaged(v)
        w == CHOOSE x \in engaged : TRUE
    IN  IF engaged # {}
        THEN IF HoldsIp(w) THEN worker[w].ip ELSE NoIp
        ELSE vmrow[v].mac_ip

CountedOn(v, h) ==
    LET engaged == Engaged(v)
        w == CHOOSE x \in engaged : TRUE
    IN  IF engaged # {}
        THEN HoldsCount(w) /\ worker[w].host = h
        ELSE vmrow[v].vm_status = "normal" /\ vmrow[v].host = h

claims == [v \in Vms |-> ClaimOf(v)]
addresses == [v \in Vms |-> IpOf(v)]

\* Claims are added up by counting units: the k-th vcpu of v is <<v, k>>.
VcpuUnits(h) ==
    UNION {{v} \X (1 .. claims[v].vcpu) : v \in {x \in Vms : claims[x].host = h}}
MemUnits(h) ==
    UNION {{v} \X (1 .. claims[v].mem) : v \in {x \in Vms : claims[x].host = h}}

-----------------------------------------------------------------------------
\* The quota columns are exact: at every moment vcpu_allocated and
\* mem_allocated of a host are what its virtual machines and the requests
\* under way have claimed, and vm_created is how many are counted there.
\* (claim_from_host, free, deduct_delta and the +1/-1 of every request.)
HostLedger ==
    \A h \in Hosts :
       /\ host[h].vcpu_allocated = Cardinality(VcpuUnits(h))
       /\ host[h].mem_allocated = Cardinality(MemUnits(h))
       /\ host[h].vm_created = Cardinality({v \in Vms : CountedOn(v, h)})

\* MacIP.used is exact: an address is marked if and only if a virtual machine
\* or a request under way holds it, and no two of them hold the same one.
\* (apply_for_free_ip, free_used_ip and set_free of every request.)
IpLedger ==
    /\ \A i \in Ips : used[i] <=> \E v \in Vms : IpOf(v) = i
    /\ \A v1, v2 \in Vms : IpOf(v1) = IpOf(v2) => v1 = v2 \/ IpOf(v1) = NoIp

\* Rows and libvirt agree between requests: a normal vm is defined on the
\* host of its row and nowhere else, a shelved one nowhere, and of a deleted
\* one whose archive says host_released no domain is left.
DomainMatchesRow ==
    \A v \in Vms : Busy(v) = {} =>
       /\ vmrow[v].vm_status = "normal" =>
             \A h \in Hosts : v \in domain[h] <=> h = vmrow[v].host
       /\ vmrow[v].vm_status = "shelve" \/ archive[v].state = "released" =>
             \A h \in Hosts : v \in domain[h] => h = vmrow[v].host

\* An archive record never loses the image it stands for: between requests
\* the image, if there is one, has the name the record holds
\* (rename_sys_disk_archive, rm_sys_disk), so that removing the record later
\* removes the image.
ArchiveNamesDisk ==
    \A v \in Vms : Busy(v) = {} /\ archive[v] # NoArchive =>
       disk[v] \in {"none", archive[v].disk}

\* A row has a host and an address while it is normal and neither while it is
\* shelved, though an edit writes all columns of a row it loaded earlier and
\* the others write some of them (the code goes through vm.host and vm.mac_ip
\* of a normal vm without looking).
RowPlaced(row) ==
    /\ row.vm_status = "normal" <=> row.host # NoHost
    /\ row.vm_status = "normal" <=> row.mac_ip # NoIp

StatusMatchesPlacement == \A v \in Vms : RowPlaced(vmrow[v])

\* A request has what it is going to use: it does not claim, clone or save
\* before the scheduler found it a host and an address, by whichever of the
\* ways through ApplyIp, PickHost, PickIp and back, and the row it loaded was
\* placed.  This is why StatusMatchesPlacement holds.
PlacedAt(r, pc) ==
    /\ pc # "idle" => r.vm # NoVm
    /\ pc \in {"pick_ip", "claim", "clone", "save"} => r.host # NoHost
    /\ pc \in {"ip", "claim", "clone", "save"} => r.ip # NoIp
    /\ pc = "pick" => r.need \/ r.ip # NoIp
    /\ pc \in {"pick_ip", "claim_undo"} => r.need
    /\ RowPlaced(r.row)

RequestsPlaced == \A w \in Workers : PlacedAt(worker[w], worker[w].pc)

\* The claims of virtual machines and requests are covered by the columns...
QuotaCovered ==
    \A h \in Hosts :
       /\ Cardinality(VcpuUnits(h)) <= host[h].vcpu_allocated
       /\ Cardinality(MemUnits(h)) <= host[h].mem_allocated

\* ... and so are their addresses, which no two of them share.  Where the
\* columns are not exact because a process died, this is what is left of
\* HostLedger and IpLedger: quota and addresses may go unused, but nothing is
\* handed out twice.
IpCovered ==
    /\ \A v \in Vms : IpOf(v) # NoIp => used[IpOf(v)]
    /\ \A v1, v2 \in Vms : IpOf(v1) = IpOf(v2) => v1 = v2 \/ IpOf(v1) = NoIp

\* An address that was applied for is given back when it is no longer needed:
\* one that is marked used has a holder.
UsedHasHolder == \A i \in Ips : used[i] => \E v \in Vms : IpOf(v) = i

\* A virtual machine that is there has its system disk.
RowHasDisk ==
    \A v \in Vms : Busy(v) = {} /\ vmrow[v] # NoRow => disk[v] = "live"

\* host_released of the archive of a deleted vm says no host has its domain.
ReleasedIsGone ==
    \A v \in Vms :
       Busy(v) = {} /\ vmrow[v] = NoRow /\ archive[v].state = "released" =>
          \A h \in Hosts : v \notin domain[h]

\* The life cycle implements the promise of VmReservation.
Reservation == INSTANCE VmReservation WITH claim <- claims, address <- addresses

Reserves == Reservation!Spec
=============================================================================
