------------------------- MODULE VmLifecycleProofs -------------------------
(***************************************************************************)
(* What holds of VmLifecycle for every number of workers, vms, hosts and   *)
(* addresses, whatever requests meet on a vm (Overlaps), whatever fails    *)
(* (Failing) and whatever processes die (CrashOps, MaxCrash): the types,   *)
(* that the quota of a host is never exceeded, and that a row has a host   *)
(* and an address exactly while it is normal.                              *)
(*                                                                         *)
(* None of the three is inductive by itself.  The types need the placement *)
(* (a delete reads `used` at the mac_ip of its row), the placement of rows *)
(* needs that of the requests that write them, and this goes through all   *)
(* steps of a create; IInv joins them.  It has one part per group of       *)
(* variables, so that a step is looked at only in the parts it disturbs.   *)
(*                                                                         *)
(* The second half is about requests that are Serial: what each of them    *)
(* knows of its vm, whatever else fails.                                   *)
(***************************************************************************)
EXTENDS VmProperties, HostQuotaProofs

RowsInv == vmrow \in [Vms -> VmRow] /\ StatusMatchesPlacement

WorkersInv == worker \in [Workers -> WorkerState] /\ RequestsPlaced

StoresInv ==
    /\ IpTypeOK
    /\ archive \in [Vms -> ArchiveRow]
    /\ domain \in [Hosts -> SUBSET Vms]
    /\ disk \in [Vms -> DiskName]
    /\ crashes \in Nat

IInv == HostsInv /\ RowsInv /\ WorkersInv /\ StoresInv

-----------------------------------------------------------------------------
(* The parts that a step leaves alone. *)

\* A step that changes no Vm row keeps the part of the rows.
LEMMA RowsKept ==
    ASSUME RowsInv, UNCHANGED vmrow
    PROVE  RowsInv'
  BY DEF RowsInv, StatusMatchesPlacement

\* A step that changes neither addresses, archives, domains nor disks keeps
\* the part of the stores.
LEMMA StoresKept ==
    ASSUME StoresInv, UNCHANGED <<used, archive, domain, disk, crashes>>
    PROVE  StoresInv'
  BY DEF StoresInv, IpTypeOK

-----------------------------------------------------------------------------
(* The operators of the address pool. *)

\* The operations of the address pool keep it a pool.
LEMMA PoolTyped ==
    ASSUME IpTypeOK, NEW i, NEW u,
           \/ apply_for_free_ip(i)
           \/ free_used_ip(i)
           \/ set_free(i, u)
           \/ UNCHANGED used
    PROVE  IpTypeOK'
  BY DEF IpTypeOK, apply_for_free_ip, free_used_ip, set_free

-----------------------------------------------------------------------------
(* The control of a worker. *)

\* A worker that takes a well-formed, placed state keeps its part.
LEMMA WorkerUpdated ==
    ASSUME WorkersInv, NEW w \in Workers,
           NEW r \in WorkerState, PlacedAt(r, r.pc),
           worker' = [worker EXCEPT ![w] = r]
    PROVE  WorkersInv'
  BY DEF WorkersInv, RequestsPlaced

\* A worker without a request is well-formed.
LEMMA IdlePlaced ==
    Idle \in WorkerState /\ Idle.pc = "idle" /\ PlacedAt(Idle, "idle")
  BY DEF Idle, WorkerState, Pcs, OpKinds, VmRow, NoRow, NoArchive, ArchiveRow,
         DiskName, PlacedAt, RowPlaced

\* A worker whose request ends keeps its part.
LEMMA EndPlaced ==
    ASSUME WorkersInv, NEW w \in Workers, End(w)
    PROVE  WorkersInv'
  BY IdlePlaced, WorkerUpdated DEF End

\* A worker may go on to a step whose needs its request meets.
LEMMA GotoPlaced ==
    ASSUME WorkersInv, NEW w \in Workers,
           NEW pc \in Pcs, PlacedAt(worker[w], pc), Goto(w, pc)
    PROVE  WorkersInv'
<1> DEFINE r == [worker[w] EXCEPT !.pc = pc]
<1>1. worker[w] \in WorkerState
  BY DEF WorkersInv
<1>2. r \in WorkerState
  BY <1>1 DEF WorkerState
<1>3. r.pc = pc /\ PlacedAt(r, pc)
  BY <1>1 DEF PlacedAt, WorkerState
<1>4. worker' = [worker EXCEPT ![w] = r]
  BY DEF Goto
<1> HIDE DEF r
<1>5. QED
  BY <1>2, <1>3, <1>4, WorkerUpdated

\* The steps that need nothing but the request can always be gone to.
LEMMA GotoPlain ==
    ASSUME WorkersInv, NEW w \in Workers, worker[w].pc # "idle",
           NEW pc \in Pcs \ {"ip", "pick", "pick_ip", "claim", "claim_undo",
                             "clone", "save"},
           Goto(w, pc)
    PROVE  WorkersInv'
<1>1. PlacedAt(worker[w], pc)
  BY DEF WorkersInv, RequestsPlaced, PlacedAt
<1>2. QED
  BY <1>1, GotoPlaced

\* A request that is served: its vm is one, and it is placed as its pc says.
LEMMA RequestPlaced ==
    ASSUME WorkersInv, NEW w \in Workers
    PROVE  /\ worker[w] \in WorkerState
           /\ PlacedAt(worker[w], worker[w].pc)
           /\ worker[w].pc # "idle" => worker[w].vm \in Vms
  BY DEF WorkersInv, RequestsPlaced, PlacedAt, WorkerState

\* A request begins in a state that meets the needs of its first step.
LEMMA BeginPlaced ==
    ASSUME WorkersInv, NEW w \in Workers, NEW q \in WorkerState,
           NEW pc \in Pcs, PlacedAt(q, pc), Begin(w, q, pc)
    PROVE  WorkersInv'
<1> DEFINE r == [q EXCEPT !.pc = pc]
<1>1. r \in WorkerState
  BY DEF WorkerState
<1>2. r.pc = pc /\ PlacedAt(r, pc)
  BY DEF PlacedAt, WorkerState
<1>3. worker' = [worker EXCEPT ![w] = r]
  BY DEF Begin
<1> HIDE DEF r
<1>4. QED
  BY <1>1, <1>2, <1>3, WorkerUpdated

\* The request record made of a row that is placed is placed.
LEMMA LoadedPlaced ==
    ASSUME RowsInv, NEW v \in Vms, NEW op \in OpKinds
    PROVE  /\ Loaded(op, v) \in WorkerState
           /\ Loaded(op, v).vm = v
           /\ Loaded(op, v).need = FALSE
           /\ RowPlaced(Loaded(op, v).row)
<1>1. vmrow[v] \in VmRow /\ RowPlaced(vmrow[v])
  BY DEF RowsInv, StatusMatchesPlacement
<1>2. Idle \in WorkerState
  BY IdlePlaced
<1>3. QED
  BY <1>1, <1>2 DEF Loaded, WorkerState, Idle, VmRow

-----------------------------------------------------------------------------
(* The steps.  Each is looked at in the parts it disturbs. *)

\* A request that arrives finds its row placed, or a vm that is fresh.
LEMMA ArriveKeeps ==
    ASSUME IInv, NEW w \in Workers, Arrive(w)
    PROVE  IInv'
<1> USE DEF IInv
<1>1. ASSUME NEW v \in Vms, NEW c \in VcpuSizes, NEW m \in MemSizes,
             CreateStart(w, v, c, m)
      PROVE  IInv'
  <2> DEFINE q == [Idle EXCEPT !.op = "create", !.vm = v, !.vcpu = c, !.mem = m]
  <2>1. q \in WorkerState /\ q.vm # NoVm /\ RowPlaced(q.row)
    <3>1. NoRow \in VmRow /\ RowPlaced(NoRow) /\ NoArchive \in ArchiveRow
      BY IdlePlaced DEF PlacedAt, Idle, WorkerState
    <3>2. c \in Nat /\ m \in Nat /\ v # NoVm
      BY VmAssumption
    <3>3. QED
      BY <3>1, <3>2 DEF Idle, WorkerState, OpKinds, Pcs
  <2> HIDE DEF q
  <2>2. WorkersInv'
    <3>1. ASSUME NEW i \in Ips,
                 Begin(w, [q EXCEPT !.ip = i, !.groups = {IpGroup[i]}], "ip")
          PROVE  WorkersInv'
      <4> DEFINE r == [q EXCEPT !.ip = i, !.groups = {IpGroup[i]}]
      <4>1. {IpGroup[i]} \in SUBSET Groups /\ i # NoIp
        BY VmAssumption
      <4>2. r \in WorkerState
        BY <2>1, <4>1 DEF WorkerState
      <4>3. PlacedAt(r, "ip")
        BY <2>1, <4>1 DEF WorkerState, PlacedAt
      <4> HIDE DEF r
      <4>4. QED
        BY <3>1, <4>2, <4>3, BeginPlaced DEF Pcs, r
    <3>2. ASSUME NEW gs \in SUBSET Groups,
                 Begin(w, [q EXCEPT !.groups = gs, !.need = TRUE], "pick")
          PROVE  WorkersInv'
      <4> DEFINE r == [q EXCEPT !.groups = gs, !.need = TRUE]
      <4>1. r \in WorkerState /\ PlacedAt(r, "pick")
        BY <2>1 DEF WorkerState, PlacedAt
      <4> HIDE DEF r
      <4>2. QED
        BY <3>2, <4>1, BeginPlaced DEF Pcs, r
    <3>3. QED
      BY <1>1, <3>1, <3>2 DEF CreateStart, q
  <2>3. StoresInv'
    BY <1>1 DEF CreateStart, ResourcesUnchanged, StoresInv, IpTypeOK, DiskName
  <2>4. QED
    BY <1>1, <2>2, <2>3, HostsKept, RowsKept DEF CreateStart, ResourcesUnchanged
<1>2. ASSUME NEW v \in Vms, NEW op \in Deletes, DeleteStart(w, v, op)
      PROVE  IInv'
  <2> DEFINE q == [Loaded(op, v) EXCEPT !.ip_used = used[vmrow[v].mac_ip]]
  <2>1. Loaded(op, v) \in WorkerState /\ Loaded(op, v).vm = v
        /\ RowPlaced(Loaded(op, v).row)
    BY LoadedPlaced DEF Deletes, OpKinds
  <2>2. used[vmrow[v].mac_ip] \in BOOLEAN
    BY <1>2 DEF DeleteStart, RowsInv, StatusMatchesPlacement, RowPlaced, VmRow,
                StoresInv, IpTypeOK
  <2>3. q \in WorkerState /\ PlacedAt(q, "archive")
    BY <2>1, <2>2, VmAssumption DEF WorkerState, PlacedAt
  <2>4. WorkersInv'
    <3> HIDE DEF q
    <3>1. Begin(w, q, "archive")
      BY <1>2 DEF DeleteStart, q
    <3>2. QED
      BY <2>3, <3>1, BeginPlaced DEF Pcs
  <2>5. QED
    BY <1>2, <2>4, HostsKept, RowsKept, StoresKept
       DEF DeleteStart, ResourcesUnchanged
<1>3. ASSUME NEW v \in Vms, ShelveStart(w, v)
      PROVE  IInv'
  <2> DEFINE q == [Loaded("shelve", v) EXCEPT !.ip_used = used[vmrow[v].mac_ip]]
  <2>1. Loaded("shelve", v) \in WorkerState /\ Loaded("shelve", v).vm = v
        /\ RowPlaced(Loaded("shelve", v).row)
    BY LoadedPlaced DEF OpKinds
  <2>2. used[vmrow[v].mac_ip] \in BOOLEAN
    BY <1>3 DEF ShelveStart, RowsInv, StatusMatchesPlacement, RowPlaced, VmRow,
                StoresInv, IpTypeOK
  <2>3. q \in WorkerState /\ PlacedAt(q, "undefine")
    BY <2>1, <2>2, VmAssumption DEF WorkerState, PlacedAt
  <2>4. WorkersInv'
    <3> HIDE DEF q
    <3>1. Begin(w, q, "undefine")
      BY <1>3 DEF ShelveStart, q
    <3>2. QED
      BY <2>3, <3>1, BeginPlaced DEF Pcs
  <2>5. QED
    BY <1>3, <2>4, HostsKept, RowsKept, StoresKept
       DEF ShelveStart, ResourcesUnchanged
<1>4. ASSUME NEW v \in Vms, UnshelveStart(w, v)
      PROVE  IInv'
  <2> DEFINE q == [Loaded("unshelve", v) EXCEPT !.host = NoHost, !.ip = NoIp]
             last == vmrow[v].last_ip
  <2>1. q \in WorkerState /\ q.vm # NoVm /\ RowPlaced(q.row)
    <3>1. Loaded("unshelve", v) \in WorkerState /\ Loaded("unshelve", v).vm = v
          /\ RowPlaced(Loaded("unshelve", v).row)
      BY LoadedPlaced DEF OpKinds
    <3>2. QED
      BY <3>1, VmAssumption DEF WorkerState
  <2>2. last \in Ips \cup {NoIp}
    BY DEF RowsInv, VmRow
  <2> HIDE DEF q
  <2>3. ASSUME NEW i \in Ips, NEW gs \in SUBSET Groups,
               Begin(w, [q EXCEPT !.ip = i, !.groups = gs], "ip")
        PROVE  WorkersInv'
    <3> DEFINE r == [q EXCEPT !.ip = i, !.groups = gs]
    <3>1. i # NoIp
      BY VmAssumption
    <3>2. r \in WorkerState
      BY <2>1 DEF WorkerState
    <3>3. PlacedAt(r, "ip")
      BY <2>1, <3>1 DEF WorkerState, PlacedAt
    <3> HIDE DEF r
    <3>4. QED
      BY <2>3, <3>2, <3>3, BeginPlaced DEF Pcs, r
  <2>4. ASSUME NEW gs \in SUBSET Groups,
               Begin(w, [q EXCEPT !.groups = gs, !.need = TRUE], "pick")
        PROVE  WorkersInv'
    <3> DEFINE r == [q EXCEPT !.groups = gs, !.need = TRUE]
    <3>1. r \in WorkerState /\ PlacedAt(r, "pick")
      BY <2>1 DEF WorkerState, PlacedAt
    <3> HIDE DEF r
    <3>2. QED
      BY <2>4, <3>1, BeginPlaced DEF Pcs, r
  <2>5. \A i \in Ips : {IpGroup[i]} \in SUBSET Groups
    BY VmAssumption
  <2>6. WorkersInv'
    <3>1. CASE \E i \in {j \in Ips : IpGroup[j] \notin Denied} :
                  \E gs \in {{}, {IpGroup[i]}} :
                     Begin(w, [q EXCEPT !.ip = i, !.groups = gs], "ip")
      BY <2>3, <2>5, <3>1
    <3>2. CASE \E g \in Groups \ Denied :
                  Begin(w, [q EXCEPT !.groups = {g}, !.need = TRUE], "pick")
      BY <2>4, <3>2
    <3>3. CASE /\ last # NoIp
               /\ Begin(w, [q EXCEPT !.ip = last, !.groups = {IpGroup[last]}], "ip")
      BY <2>2, <2>3, <2>5, <3>3
    <3>4. QED
      BY <1>4, <3>1, <3>2, <3>3 DEF UnshelveStart, q
  <2>7. QED
    BY <1>4, <2>6, HostsKept, RowsKept, StoresKept
       DEF UnshelveStart, ResourcesUnchanged
<1>5. ASSUME NEW v \in Vms, DelshelveStart(w, v)
      PROVE  IInv'
  <2>1. PlacedAt(Loaded("delshelve", v), "archive")
    BY LoadedPlaced, VmAssumption DEF OpKinds, PlacedAt
  <2>2. WorkersInv'
    BY <1>5, <2>1, LoadedPlaced, BeginPlaced DEF DelshelveStart, OpKinds, Pcs
  <2>3. QED
    BY <1>5, <2>2, HostsKept, RowsKept, StoresKept
       DEF DelshelveStart, ResourcesUnchanged
<1>6. ASSUME NEW v \in Vms, NEW c \in VcpuSizes \cup {0}, NEW m \in MemSizes \cup {0},
             EditStart(w, v, c, m)
      PROVE  IInv'
  <2> DEFINE q == [Loaded("edit", v) EXCEPT
                     !.vcpu = IF c > 0 THEN c ELSE @,
                     !.mem  = IF m > 0 THEN m ELSE @]
  <2>1. Loaded("edit", v) \in WorkerState /\ Loaded("edit", v).vm = v
        /\ RowPlaced(Loaded("edit", v).row)
    BY LoadedPlaced DEF OpKinds
  <2>2. c \in Nat /\ m \in Nat
    BY VmAssumption
  <2>3. q \in WorkerState
    BY <2>1, <2>2 DEF WorkerState
  <2>4. PlacedAt(q, "deduct")
    BY <2>1, VmAssumption DEF WorkerState, PlacedAt
  <2>5. WorkersInv'
    <3> HIDE DEF q
    <3>1. Begin(w, q, "deduct")
      BY <1>6 DEF EditStart, q
    <3>2. QED
      BY <2>3, <2>4, <3>1, BeginPlaced DEF Pcs
  <2>6. QED
    BY <1>6, <2>5, HostsKept, RowsKept, StoresKept
       DEF EditStart, ResourcesUnchanged
<1>7. ASSUME NEW v \in Vms, PurgeStart(w, v)
      PROVE  IInv'
  <2> DEFINE q == [Idle EXCEPT !.op = "purge", !.vm = v, !.ahv = archive[v]]
  <2>1. Idle \in WorkerState /\ RowPlaced(Idle.row)
    BY IdlePlaced DEF PlacedAt
  <2>2. archive[v] \in ArchiveRow
    BY DEF StoresInv
  <2>3. q \in WorkerState
    BY <2>1, <2>2 DEF WorkerState, OpKinds
  <2>4. PlacedAt(q, "ahv_release")
    BY <2>1, VmAssumption DEF WorkerState, PlacedAt
  <2>5. WorkersInv'
    <3> HIDE DEF q
    <3>1. Begin(w, q, "ahv_release")
      BY <1>7 DEF PurgeStart, q
    <3>2. QED
      BY <2>3, <2>4, <3>1, BeginPlaced DEF Pcs
  <2>6. QED
    BY <1>7, <2>5, HostsKept, RowsKept, StoresKept
       DEF PurgeStart, ResourcesUnchanged
<1>8. QED
  BY <1>1, <1>2, <1>3, <1>4, <1>5, <1>6, <1>7 DEF Arrive

\* The steps of a create or an unshelve.
LEMMA CreateKeeps ==
    ASSUME IInv, NEW w \in Workers,
           \/ ApplyIp(w) \/ PickHost(w) \/ SkipGroup(w) \/ NoGroupLeft(w)
           \/ PickIp(w) \/ NoFreeIp(w) \/ ClaimHost(w) \/ ClaimFails(w)
           \/ ClaimUndo(w) \/ Clone(w) \/ SaveRow(w) \/ Define(w) \/ Unsave(w)
           \/ UndoIp(w) \/ UndoHost(w) \/ UndoDisk(w) \/ Count(w)
    PROVE  IInv'
<1> DEFINE r == worker[w]
<1> USE DEF IInv
<1>a. r \in WorkerState /\ PlacedAt(r, r.pc) /\ (r.pc # "idle" => r.vm \in Vms)
  BY RequestPlaced
<1>b. /\ r.host \in Hosts \cup {NoHost} /\ r.ip \in Ips \cup {NoIp}
      /\ r.vcpu \in Nat /\ r.mem \in Nat /\ r.groups \in SUBSET Groups
  BY <1>a DEF WorkerState
<1>1. CASE ApplyIp(w)
  BY <1>a, <1>1, EndPlaced, GotoPlaced, PoolTyped, HostsKept, RowsKept DEF ApplyIp, At, PlacedAt, Pcs, StoresInv
<1>2. CASE PickHost(w)
  <2>1. PICK g \in r.groups, h \in Hosts :
           worker' = [worker EXCEPT
              ![w].host = h, ![w].groups = @ \ {g},
              ![w].pc = IF worker[w].need THEN "pick_ip" ELSE "claim"]
    BY <1>2 DEF PickHost
  <2> DEFINE pc == IF r.need THEN "pick_ip" ELSE "claim"
             s  == [r EXCEPT !.host = h, !.groups = r.groups \ {g}, !.pc = pc]
  <2>2. s \in WorkerState
    <3>1. pc \in Pcs
      BY DEF Pcs
    <3> HIDE DEF pc
    <3>2. QED
      BY <1>a, <3>1 DEF WorkerState
  <2>3. s.pc = pc /\ PlacedAt(s, pc)
    <3>1. /\ s.pc = pc /\ s.vm = r.vm /\ s.row = r.row /\ s.need = r.need
          /\ s.ip = r.ip /\ s.host = h
      BY <1>a DEF WorkerState
    <3>2. r.vm # NoVm /\ RowPlaced(r.row) /\ (r.need \/ r.ip # NoIp) /\ h # NoHost
      BY <1>2, <1>a, VmAssumption DEF PickHost, At, PlacedAt
    <3> HIDE DEF s
    <3>3. QED
      BY <3>1, <3>2 DEF PlacedAt
  <2>4. worker' = [worker EXCEPT ![w] = s]
    BY <2>1
  <2>5. WorkersInv'
    <3> HIDE DEF s
    <3>1. QED
      BY <2>2, <2>3, <2>4, WorkerUpdated
  <2>6. QED
    BY <1>2, <2>5, HostsKept, RowsKept, StoresKept
       DEF PickHost, ResourcesUnchanged
<1>3. CASE SkipGroup(w)
  <2>1. PICK g \in r.groups : worker' = [worker EXCEPT ![w].groups = @ \ {g}]
    BY <1>3 DEF SkipGroup
  <2> DEFINE s == [r EXCEPT !.groups = @ \ {g}]
  <2>2. s \in WorkerState /\ PlacedAt(s, s.pc)
    BY <1>a DEF WorkerState, PlacedAt
  <2>3. worker' = [worker EXCEPT ![w] = s]
    BY <2>1
  <2>4. WorkersInv'
    <3> HIDE DEF s
    <3>1. QED
      BY <2>2, <2>3, WorkerUpdated
  <2>5. QED
    BY <1>3, <2>4, HostsKept, RowsKept, StoresKept
       DEF SkipGroup, ResourcesUnchanged
<1>4. CASE NoGroupLeft(w)
  BY <1>4, EndPlaced, GotoPlain, HostsKept, RowsKept, StoresKept DEF NoGroupLeft, At, Pcs, ResourcesUnchanged
<1>5. CASE PickIp(w)
  <2>1. PICK i \in Ips : /\ apply_for_free_ip(i)
                         /\ worker' = [worker EXCEPT ![w].ip = i, ![w].pc = "claim"]
    BY <1>5 DEF PickIp
  <2> DEFINE s == [r EXCEPT !.ip = i, !.pc = "claim"]
  <2>2. s \in WorkerState
    BY <1>a DEF WorkerState, Pcs
  <2>3. s.pc = "claim" /\ PlacedAt(s, "claim")
    BY <1>5, <1>a, VmAssumption DEF PickIp, At, PlacedAt, WorkerState
  <2>4. worker' = [worker EXCEPT ![w] = s]
    BY <2>1
  <2>5. WorkersInv'
    <3> HIDE DEF s
    <3>1. QED
      BY <2>2, <2>3, <2>4, WorkerUpdated
  <2>6. StoresInv'
    BY <1>5, <2>1, PoolTyped DEF PickIp, StoresInv
  <2>7. QED
    BY <1>5, <2>5, <2>6, HostsKept, RowsKept DEF PickIp
<1>6. CASE NoFreeIp(w)
  <2> DEFINE s == [r EXCEPT !.host = NoHost, !.pc = "pick"]
  <2>1. s \in WorkerState
    BY <1>a DEF WorkerState, Pcs
  <2>2. s.pc = "pick" /\ PlacedAt(s, "pick")
    BY <1>6, <1>a DEF NoFreeIp, At, PlacedAt, WorkerState
  <2>3. worker' = [worker EXCEPT ![w] = s]
    BY <1>6 DEF NoFreeIp
  <2>4. WorkersInv'
    <3> HIDE DEF s
    <3>1. QED
      BY <2>1, <2>2, <2>3, WorkerUpdated
  <2>5. QED
    BY <1>6, <2>4, HostsKept, RowsKept, StoresKept
       DEF NoFreeIp, ResourcesUnchanged
<1>7. CASE ClaimHost(w)
  <2>1. HostsInv'
    BY <1>7, <1>b, DeductKeepsTotals DEF ClaimHost, claim_from_host, can_claim
  <2>2. PlacedAt(r, IF r.op = "create" THEN "clone" ELSE "save")
    BY <1>7, <1>a DEF ClaimHost, At, PlacedAt
  <2>3. WorkersInv'
    BY <1>7, <2>2, GotoPlaced DEF ClaimHost, Pcs
  <2>4. QED
    BY <1>7, <2>1, <2>3, RowsKept, StoresKept DEF ClaimHost
<1>8. CASE ClaimFails(w)
  <2> DEFINE pc == IF r.need THEN "claim_undo" ELSE "pick"
             s  == [r EXCEPT !.host = NoHost, !.pc = pc]
  <2>1. s \in WorkerState
    <3>1. pc \in Pcs
      BY DEF Pcs
    <3> HIDE DEF pc
    <3>2. QED
      BY <1>a, <3>1 DEF WorkerState
  <2>2. s.pc = pc /\ PlacedAt(s, pc)
    <3>1. s.pc = pc /\ s.vm = r.vm /\ s.row = r.row /\ s.need = r.need /\ s.ip = r.ip
      BY <1>a DEF WorkerState
    <3>2. r.vm # NoVm /\ RowPlaced(r.row) /\ r.ip # NoIp
      BY <1>8, <1>a DEF ClaimFails, At, PlacedAt
    <3> HIDE DEF s
    <3>3. QED
      BY <3>1, <3>2 DEF PlacedAt
  <2>3. worker' = [worker EXCEPT ![w] = s]
    BY <1>8 DEF ClaimFails
  <2>4. WorkersInv'
    <3> HIDE DEF s
    <3>1. QED
      BY <2>1, <2>2, <2>3, WorkerUpdated
  <2>5. QED
    BY <1>8, <2>4, HostsKept, RowsKept, StoresKept
       DEF ClaimFails, ResourcesUnchanged
<1>9. CASE ClaimUndo(w)
  <2> DEFINE s == [r EXCEPT !.ip = NoIp, !.pc = "pick"]
  <2>1. s \in WorkerState
    BY <1>a DEF WorkerState, Pcs
  <2>2. s.pc = "pick" /\ PlacedAt(s, "pick")
    BY <1>9, <1>a DEF ClaimUndo, At, PlacedAt, WorkerState
  <2>3. worker' = [worker EXCEPT ![w] = s]
    BY <1>9 DEF ClaimUndo
  <2>4. WorkersInv'
    <3> HIDE DEF s
    <3>1. QED
      BY <2>1, <2>2, <2>3, WorkerUpdated
  <2>5. StoresInv'
    BY <1>9, PoolTyped DEF ClaimUndo, StoresInv
  <2>6. QED
    BY <1>9, <2>4, <2>5, HostsKept, RowsKept DEF ClaimUndo
<1>10. CASE Clone(w)
  <2>1. PlacedAt(r, "save")
    BY <1>10, <1>a DEF Clone, At, PlacedAt
  <2>2. WorkersInv'
    BY <1>10, <2>1, GotoPlaced, GotoPlain DEF Clone, At, Pcs
  <2>3. StoresInv'
    BY <1>10 DEF Clone, ResourcesUnchanged, StoresInv, IpTypeOK, DiskName
  <2>4. QED
    BY <1>10, <2>2, <2>3, HostsKept, RowsKept DEF Clone, ResourcesUnchanged
<1>11. CASE SaveRow(w)
  <2> DEFINE old == IF r.op = "create"
                    THEN [NoRow EXCEPT !.vcpu = r.vcpu, !.mem = r.mem]
                    ELSE vmrow[r.vm]
             new == [old EXCEPT !.vm_status = "normal", !.mac_ip = r.ip,
                                !.host = r.host]
  <2>1. r.host # NoHost /\ r.ip # NoIp /\ r.vm \in Vms
    BY <1>11, <1>a DEF SaveRow, At, PlacedAt
  <2>2. old \in VmRow
    BY <1>b, <2>1 DEF RowsInv, NoRow, VmRow
  <2>3. new \in VmRow /\ RowPlaced(new)
    BY <1>b, <2>1, <2>2 DEF RowPlaced, VmRow
  <2>4. UNCHANGED vmrow \/ vmrow' = [vmrow EXCEPT ![r.vm] = new]
    BY <1>11 DEF SaveRow
  <2>5. RowsInv'
    <3> HIDE DEF new
    <3>1. QED
      BY <2>3, <2>4 DEF RowsInv, StatusMatchesPlacement
  <2>6. WorkersInv'
    BY <1>11, GotoPlain DEF SaveRow, At, Pcs
  <2>7. QED
    BY <1>11, <2>5, <2>6, HostsKept, StoresKept DEF SaveRow, ResourcesUnchanged
<1>12. CASE Define(w)
  BY <1>a, <1>12, GotoPlain, HostsKept, RowsKept DEF Define, At, Pcs, ResourcesUnchanged, StoresInv, IpTypeOK
<1>13. CASE Unsave(w)
  <2> DEFINE new == IF r.op = "create" \/ vmrow[r.vm] = NoRow
                    THEN NoRow
                    ELSE [vmrow[r.vm] EXCEPT !.vm_status = "shelve",
                                             !.host = NoHost, !.mac_ip = NoIp]
  <2>1. vmrow[r.vm] \in VmRow
    BY <1>13, <1>a DEF Unsave, At, RowsInv
  <2>2. NoRow \in VmRow /\ RowPlaced(NoRow)
    BY DEF NoRow, VmRow, RowPlaced
  <2>3. new \in VmRow /\ RowPlaced(new)
    BY <2>1, <2>2 DEF VmRow, RowPlaced
  <2>4. vmrow' = [vmrow EXCEPT ![r.vm] = new]
    BY <1>13 DEF Unsave
  <2>5. RowsInv'
    <3> HIDE DEF new
    <3>1. QED
      BY <2>3, <2>4 DEF RowsInv, StatusMatchesPlacement
  <2>6. WorkersInv'
    BY <1>13, GotoPlain DEF Unsave, At, Pcs
  <2>7. QED
    BY <1>13, <2>5, <2>6, HostsKept, StoresKept DEF Unsave, ResourcesUnchanged
<1>14. CASE UndoIp(w)
  BY <1>14, EndPlaced, GotoPlain, PoolTyped, HostsKept, RowsKept DEF UndoIp, At, Pcs, StoresInv
<1>15. CASE UndoHost(w)
  BY <1>b, <1>15, FreeKeepsTotals, EndPlaced, GotoPlain, RowsKept, StoresKept DEF UndoHost, At, Pcs
<1>16. CASE UndoDisk(w)
  BY <1>16, EndPlaced, HostsKept, RowsKept DEF UndoDisk, ResourcesUnchanged, StoresInv, IpTypeOK, DiskName
<1>17. CASE Count(w)
  BY <1>17, CountKeepsTotals, EndPlaced, RowsKept, StoresKept DEF Count
<1>18. QED
  BY <1>1, <1>2, <1>3, <1>4, <1>5, <1>6, <1>7, <1>8, <1>9, <1>10, <1>11,
     <1>12, <1>13, <1>14, <1>15, <1>16, <1>17

\* The steps of a delete, a shelve, a delete of a shelved vm and the removal
\* of an archive record.
LEMMA DeleteKeeps ==
    ASSUME IInv, NEW w \in Workers,
           \/ Archive(w) \/ Undefine(w) \/ UndefineHostDown(w) \/ UndefineFails(w)
           \/ ReleaseHost(w) \/ RemoveDisk(w) \/ DeleteArchive(w) \/ DeleteRow(w)
           \/ Uncount(w) \/ FreeIp(w) \/ FreeHost(w) \/ RenameDisk(w)
           \/ RenameSave(w) \/ ShelveSave(w)
    PROVE  IInv'
<1> DEFINE r == worker[w]
           v == worker[w].vm
<1> USE DEF IInv
<1>a. r \in WorkerState /\ PlacedAt(r, r.pc) /\ (r.pc # "idle" => v \in Vms)
  BY RequestPlaced
<1>b. /\ r.host \in Hosts \cup {NoHost} /\ r.ip \in Ips \cup {NoIp}
      /\ r.vcpu \in Nat /\ r.mem \in Nat /\ r.ahv \in ArchiveRow
  BY <1>a DEF WorkerState
<1>1. CASE Archive(w)
  <2> DEFINE next == IF r.op \in Deletes THEN "undefine" ELSE "rowdel"
             made == [state |-> "released", disk |-> "live", host |-> r.host]
  <2>1. made \in ArchiveRow /\ archive[v] \in ArchiveRow
    BY <1>1, <1>a, <1>b DEF Archive, At, StoresInv, ArchiveRow, DiskName
  <2>2. ASSUME NEW a \in ArchiveRow,
               worker' = [worker EXCEPT ![w].ahv = a, ![w].pc = next]
        PROVE  WorkersInv'
    <3> DEFINE s == [r EXCEPT !.ahv = a, !.pc = next]
    <3>1. s \in WorkerState
      <4>1. next \in Pcs
        BY DEF Pcs
      <4> HIDE DEF next
      <4>2. QED
        BY <1>a, <4>1 DEF WorkerState
    <3>2. s.pc = next /\ PlacedAt(s, next)
      <4>1. s.pc = next /\ s.vm = r.vm /\ s.row = r.row
        BY <1>a DEF WorkerState
      <4>2. next \in {"undefine", "rowdel"} /\ r.vm # NoVm /\ RowPlaced(r.row)
        BY <1>1, <1>a DEF Archive, At, PlacedAt
      <4> HIDE DEF s, next
      <4>3. QED
        BY <4>1, <4>2 DEF PlacedAt
    <3>3. worker' = [worker EXCEPT ![w] = s]
      BY <2>2
    <3> HIDE DEF s, next
    <3>4. QED
      BY <3>1, <3>2, <3>3, WorkerUpdated
  <2>3. \/ worker' = [worker EXCEPT ![w].ahv = made, ![w].pc = next]
        \/ worker' = [worker EXCEPT ![w].ahv = archive[v], ![w].pc = next]
        \/ End(w)
    BY <1>1 DEF Archive
  <2>4. archive' = [archive EXCEPT ![v] = made] \/ UNCHANGED archive
    BY <1>1 DEF Archive
  <2> HIDE DEF made, next
  <2>5. WorkersInv'
    BY <2>1, <2>2, <2>3, EndPlaced
  <2>6. StoresInv'
    BY <1>1, <2>1, <2>4 DEF Archive, ResourcesUnchanged, StoresInv, IpTypeOK
  <2>7. QED
    BY <1>1, <2>5, <2>6, HostsKept, RowsKept DEF Archive, ResourcesUnchanged
<1>2. CASE Undefine(w)
  BY <1>2, GotoPlain, HostsKept, RowsKept DEF Undefine, At, Pcs, ResourcesUnchanged, StoresInv, IpTypeOK
<1>3. CASE UndefineHostDown(w)
  <2> DEFINE s == [r EXCEPT !.ahv.state = "pending", !.pc = "rowdel"]
             a == IF archive[v] = NoArchive
                  THEN archive[v] ELSE [archive[v] EXCEPT !.state = "pending"]
  <2>1. r.ahv \in ArchiveRow /\ archive[v] \in ArchiveRow
    BY <1>3, <1>a, <1>b DEF UndefineHostDown, At, StoresInv
  <2>2. [r.ahv EXCEPT !.state = "pending"] \in ArchiveRow /\ a \in ArchiveRow
    BY <2>1 DEF ArchiveRow
  <2>3. s \in WorkerState
    BY <1>a, <2>2 DEF WorkerState, Pcs
  <2>4. s.pc = "rowdel" /\ PlacedAt(s, "rowdel")
    BY <1>3, <1>a DEF UndefineHostDown, At, PlacedAt, WorkerState
  <2>5. End(w) \/ worker' = [worker EXCEPT ![w] = s]
    BY <1>3 DEF UndefineHostDown
  <2>6. archive' = [archive EXCEPT ![v] = a] \/ UNCHANGED archive
    BY <1>3 DEF UndefineHostDown
  <2> HIDE DEF s, a
  <2>7. WorkersInv'
    BY <2>3, <2>4, <2>5, EndPlaced, WorkerUpdated
  <2>8. StoresInv'
    BY <1>3, <2>2, <2>6
       DEF UndefineHostDown, ResourcesUnchanged, StoresInv, IpTypeOK
  <2>9. QED
    BY <1>3, <2>7, <2>8, HostsKept, RowsKept
       DEF UndefineHostDown, ResourcesUnchanged
<1>4. CASE UndefineFails(w)
  BY <1>4, EndPlaced, GotoPlain, HostsKept, RowsKept, StoresKept DEF UndefineFails, At, Pcs, ResourcesUnchanged
<1>5. CASE ReleaseHost(w)
  <2> DEFINE s == [r EXCEPT !.ahv.state = "released", !.pc = "ahv_disk"]
             a == IF archive[v] = NoArchive
                  THEN archive[v] ELSE [archive[v] EXCEPT !.state = "released"]
  <2>1. r.ahv \in ArchiveRow /\ archive[v] \in ArchiveRow
    BY <1>5, <1>a, <1>b DEF ReleaseHost, At, StoresInv
  <2>2. [r.ahv EXCEPT !.state = "released"] \in ArchiveRow /\ a \in ArchiveRow
    BY <2>1 DEF ArchiveRow
  <2>3. s \in WorkerState
    BY <1>a, <2>2 DEF WorkerState, Pcs
  <2>4. s.pc = "ahv_disk" /\ PlacedAt(s, "ahv_disk")
    BY <1>5, <1>a DEF ReleaseHost, At, PlacedAt, WorkerState
  <2>5. End(w) \/ worker' = [worker EXCEPT ![w] = s]
    BY <1>5 DEF ReleaseHost
  <2>6. archive' = [archive EXCEPT ![v] = a] \/ UNCHANGED archive
    BY <1>5 DEF ReleaseHost
  <2>7. domain' = [domain EXCEPT ![r.ahv.host] = @ \ {v}] \/ UNCHANGED domain
    BY <1>5 DEF ReleaseHost
  <2> HIDE DEF s, a
  <2>8. WorkersInv'
    BY <2>3, <2>4, <2>5, EndPlaced, WorkerUpdated
  <2>9. StoresInv'
    BY <1>5, <2>2, <2>6, <2>7
       DEF ReleaseHost, ResourcesUnchanged, StoresInv, IpTypeOK
  <2>10. QED
    BY <1>5, <2>8, <2>9, HostsKept, RowsKept DEF ReleaseHost, ResourcesUnchanged
<1>6. CASE RemoveDisk(w)
  <2> DEFINE s == [r EXCEPT !.ahv.disk = "none", !.pc = "ahv_row"]
             d == IF disk[v] = r.ahv.disk THEN "none" ELSE disk[v]
  <2>1. r.ahv \in ArchiveRow /\ archive[v] \in ArchiveRow /\ disk[v] \in DiskName
    BY <1>6, <1>a, <1>b DEF RemoveDisk, At, StoresInv
  <2>2. /\ [r.ahv EXCEPT !.disk = "none"] \in ArchiveRow
        /\ [archive[v] EXCEPT !.disk = "none"] \in ArchiveRow
        /\ d \in DiskName
    BY <2>1 DEF ArchiveRow, DiskName
  <2>3. s \in WorkerState
    BY <1>a, <2>2 DEF WorkerState, Pcs
  <2>4. s.pc = "ahv_row" /\ PlacedAt(s, "ahv_row")
    BY <1>6, <1>a DEF RemoveDisk, At, PlacedAt, WorkerState
  <2>5. \/ /\ worker' = [worker EXCEPT ![w] = s]
           /\ disk' = [disk EXCEPT ![v] = d]
           /\ archive' = [archive EXCEPT ![v] = [@ EXCEPT !.disk = "none"]]
        \/ End(w) /\ UNCHANGED <<disk, archive>>
    BY <1>6 DEF RemoveDisk
  <2> HIDE DEF s, d
  <2>6. WorkersInv'
    BY <2>3, <2>4, <2>5, EndPlaced, WorkerUpdated
  <2>7. StoresInv'
    BY <1>6, <2>2, <2>5 DEF RemoveDisk, ResourcesUnchanged, StoresInv, IpTypeOK
  <2>8. QED
    BY <1>6, <2>6, <2>7, HostsKept, RowsKept DEF RemoveDisk, ResourcesUnchanged
<1>7. CASE DeleteArchive(w)
  <2> DEFINE s == [r EXCEPT !.ahv = NoArchive, !.pc = "rowdel"]
  <2>1. NoArchive \in ArchiveRow
    BY DEF NoArchive, ArchiveRow, DiskName
  <2>2. s \in WorkerState
    BY <1>a, <2>1 DEF WorkerState, Pcs
  <2>3. s.pc = "rowdel" /\ PlacedAt(s, "rowdel")
    BY <1>7, <1>a DEF DeleteArchive, At, PlacedAt, WorkerState
  <2>4. End(w) \/ worker' = [worker EXCEPT ![w] = s]
    BY <1>7 DEF DeleteArchive
  <2> HIDE DEF s
  <2>5. WorkersInv'
    BY <2>2, <2>3, <2>4, EndPlaced, WorkerUpdated
  <2>6. StoresInv'
    BY <1>7, <2>1 DEF DeleteArchive, ResourcesUnchanged, StoresInv, IpTypeOK
  <2>7. QED
    BY <1>7, <2>5, <2>6, HostsKept, RowsKept DEF DeleteArchive, ResourcesUnchanged
<1>8. CASE DeleteRow(w)
  <2>1. NoRow \in VmRow /\ RowPlaced(NoRow)
    BY DEF NoRow, VmRow, RowPlaced
  <2>2. RowsInv'
    BY <1>8, <2>1 DEF DeleteRow, RowsInv, StatusMatchesPlacement
  <2>3. WorkersInv'
    BY <1>8, GotoPlain DEF DeleteRow, At, Pcs
  <2>4. QED
    BY <1>8, <2>2, <2>3, HostsKept, StoresKept DEF DeleteRow, ResourcesUnchanged
<1>9. CASE Uncount(w)
  BY <1>9, CountKeepsTotals, GotoPlain, RowsKept, StoresKept DEF Uncount, At, Pcs
<1>10. CASE FreeIp(w)
  BY <1>10, GotoPlain, PoolTyped, HostsKept, RowsKept DEF FreeIp, At, Pcs, StoresInv
<1>11. CASE FreeHost(w)
  BY <1>b, <1>11, FreeKeepsTotals, GotoPlain, RowsKept, StoresKept DEF FreeHost, At, Pcs
<1>12. CASE RenameDisk(w)
  <2>1. WorkersInv'
    BY <1>12, EndPlaced, GotoPlain DEF RenameDisk, At, Pcs
  <2>2. StoresInv'
    BY <1>12 DEF RenameDisk, ResourcesUnchanged, StoresInv, IpTypeOK, DiskName
  <2>3. QED
    BY <1>12, <2>1, <2>2, HostsKept, RowsKept DEF RenameDisk, ResourcesUnchanged
<1>13. CASE RenameSave(w)
  <2> DEFINE a == [archive[v] EXCEPT !.disk = "arch"]
             d == IF disk[v] = "arch" THEN "live" ELSE disk[v]
  <2>1. archive[v] \in ArchiveRow /\ disk[v] \in DiskName
    BY <1>13, <1>a DEF RenameSave, At, StoresInv
  <2>2. a \in ArchiveRow /\ d \in DiskName
    BY <2>1 DEF ArchiveRow, DiskName
  <2>3. \/ archive' = [archive EXCEPT ![v] = a] /\ UNCHANGED disk
        \/ disk' = [disk EXCEPT ![v] = d] /\ UNCHANGED archive
    BY <1>13 DEF RenameSave
  <2> HIDE DEF a, d
  <2>4. StoresInv'
    BY <1>13, <2>2, <2>3 DEF RenameSave, ResourcesUnchanged, StoresInv, IpTypeOK
  <2>5. WorkersInv'
    BY <1>13, EndPlaced DEF RenameSave
  <2>6. QED
    BY <1>13, <2>4, <2>5, HostsKept, RowsKept DEF RenameSave, ResourcesUnchanged
<1>14. CASE ShelveSave(w)
  <2> DEFINE new == IF vmrow[v] = NoRow
                    THEN vmrow[v]
                    ELSE [vmrow[v] EXCEPT !.vm_status = "shelve", !.host = NoHost,
                                          !.mac_ip = NoIp, !.last_ip = r.ip]
  <2>1. vmrow[v] \in VmRow /\ RowPlaced(vmrow[v])
    BY <1>14, <1>a DEF ShelveSave, At, RowsInv, StatusMatchesPlacement
  <2>2. new \in VmRow /\ RowPlaced(new)
    BY <1>b, <2>1 DEF VmRow, RowPlaced
  <2>3. vmrow' = [vmrow EXCEPT ![v] = new]
    BY <1>14 DEF ShelveSave
  <2> HIDE DEF new
  <2>4. RowsInv'
    BY <2>2, <2>3 DEF RowsInv, StatusMatchesPlacement
  <2>5. WorkersInv'
    BY <1>14, EndPlaced DEF ShelveSave
  <2>6. QED
    BY <1>14, <2>4, <2>5, HostsKept, StoresKept DEF ShelveSave, ResourcesUnchanged
<1>15. QED
  BY <1>1, <1>2, <1>3, <1>4, <1>5, <1>6, <1>7, <1>8, <1>9, <1>10, <1>11,
     <1>12, <1>13, <1>14

\* The steps of a change of vcpu and mem.
LEMMA EditKeeps ==
    ASSUME IInv, NEW w \in Workers,
           \/ Deduct(w) \/ Redefine(w) \/ RedefineFails(w) \/ EditSave(w)
           \/ EditUndo(w) \/ EditRedefine(w)
    PROVE  IInv'
<1> DEFINE r == worker[w]
           v == worker[w].vm
<1> USE DEF IInv
<1>a. r \in WorkerState /\ PlacedAt(r, r.pc) /\ (r.pc # "idle" => v \in Vms)
  BY RequestPlaced
<1>b. r.vcpu \in Nat /\ r.mem \in Nat /\ r.row \in VmRow /\ RowPlaced(r.row)
  BY <1>a DEF WorkerState, PlacedAt
<1>c. CpuDelta(w) \in Int /\ MemDelta(w) \in Int
      /\ -CpuDelta(w) \in Int /\ -MemDelta(w) \in Int
  BY <1>b DEF CpuDelta, MemDelta, VmRow
<1>1. CASE Deduct(w)
  BY <1>c, <1>1, DeductKeepsTotals, HostsKept, EndPlaced, GotoPlain, RowsKept, StoresKept DEF Deduct, At, Pcs
<1>2. CASE Redefine(w)
  BY <1>a, <1>2, GotoPlain, HostsKept, RowsKept DEF Redefine, At, Pcs, ResourcesUnchanged, StoresInv, IpTypeOK
<1>3. CASE RedefineFails(w)
  BY <1>3, GotoPlain, HostsKept, RowsKept, StoresKept DEF RedefineFails, At, Pcs, ResourcesUnchanged
<1>4. CASE EditSave(w)
  <2> DEFINE new == [r.row EXCEPT !.vcpu = r.vcpu, !.mem = r.mem]
  <2>1. new \in VmRow /\ RowPlaced(new)
    BY <1>b DEF VmRow, RowPlaced
  <2>2. vmrow' = [vmrow EXCEPT ![v] = new] \/ UNCHANGED vmrow
    BY <1>4 DEF EditSave
  <2> HIDE DEF new
  <2>3. RowsInv'
    BY <2>1, <2>2 DEF RowsInv, StatusMatchesPlacement
  <2>4. WorkersInv'
    BY <1>4, EndPlaced, GotoPlain DEF EditSave, At, Pcs
  <2>5. QED
    BY <1>4, <2>3, <2>4, HostsKept, StoresKept DEF EditSave, ResourcesUnchanged
<1>5. CASE EditUndo(w)
  BY <1>c, <1>5, DeductKeepsTotals, HostsKept, EndPlaced, GotoPlain, RowsKept, StoresKept DEF EditUndo, At, Pcs
<1>6. CASE EditRedefine(w)
  BY <1>a, <1>6, EndPlaced, HostsKept, RowsKept DEF EditRedefine, At, ResourcesUnchanged, StoresInv, IpTypeOK
<1>7. QED
  BY <1>1, <1>2, <1>3, <1>4, <1>5, <1>6

\* A request that is refused, or whose process dies, only ends.
LEMMA EndKeeps ==
    ASSUME IInv, NEW w \in Workers, Refuse(w) \/ Crash(w)
    PROVE  IInv'
<1> USE DEF IInv
<1>1. WorkersInv'
  BY EndPlaced DEF Refuse, Crash
<1>2. StoresInv'
  BY DEF Refuse, Crash, ResourcesUnchanged, StoresInv, IpTypeOK
<1>3. QED
  BY <1>1, <1>2, HostsKept, RowsKept DEF Refuse, Crash, ResourcesUnchanged

-----------------------------------------------------------------------------
(* The invariant and what follows from it. *)

\* The initial state: nothing handed out, no rows, no requests.
LEMMA InitIInv == Init => IInv
<1> SUFFICES ASSUME Init
             PROVE  IInv
  OBVIOUS
<1> USE DEF Init
<1>1. HostsInv
  BY HostAssumption DEF HostInit, HostsInv, HostTypeOK, HostRow, NoOvercommit
<1>2. RowsInv
  BY DEF NoRow, VmRow, RowPlaced, RowsInv, StatusMatchesPlacement
<1>3. WorkersInv
  BY IdlePlaced DEF WorkersInv, RequestsPlaced
<1>4. StoresInv
  BY DEF StoresInv, IpInit, IpTypeOK, NoArchive, ArchiveRow, DiskName
<1>5. QED
  BY <1>1, <1>2, <1>3, <1>4 DEF IInv

\* Every step of every request, and a stutter, keeps the invariant.
LEMMA NextIInv == IInv /\ [Next]_vars => IInv'
<1> SUFFICES ASSUME IInv, [Next]_vars
             PROVE  IInv'
  OBVIOUS
<1>1. CASE UNCHANGED vars
  BY <1>1, HostsKept, RowsKept, StoresKept
     DEF IInv, vars, WorkersInv, RequestsPlaced
<1>2. ASSUME NEW w \in Workers, Arrive(w) \/ Step(w) \/ Crash(w)
      PROVE  IInv'
  BY <1>2, ArriveKeeps, CreateKeeps, DeleteKeeps, EditKeeps, EndKeeps DEF Step
<1>3. QED
  BY <1>1, <1>2 DEF Next

\* IInv is an invariant: the quota, the rows, the requests and the stores
\* are what their parts say after every step of the life cycle.
THEOREM Invariance == Spec => []IInv
<1>1. QED
  BY InitIInv, NextIInv, PTL DEF Spec

\* Every variable keeps its type: no step of any request stores a value of
\* the wrong kind, with the rows and records it loaded earlier and stale.
THEOREM TypeCorrect == Spec => []TypeOK
<1>1. IInv => TypeOK
  BY DEF IInv, HostsInv, RowsInv, WorkersInv, StoresInv, TypeOK
<1>2. QED
  BY <1>1, Invariance, PTL

\* vcpu_allocated and mem_allocated never pass the totals of the host
\* (claim_from_host, free and deduct_delta of every request, also where two
\* requests meet on a vm, calls fail and processes die).
THEOREM NeverOvercommitted == Spec => []NoOvercommit
<1>1. IInv => NoOvercommit
  BY DEF IInv, HostsInv
<1>2. QED
  BY <1>1, Invariance, PTL

\* A row has a host and an address exactly while its status is normal, whoever
\* writes which of its columns when.
THEOREM PlacementCorrect == Spec => []StatusMatchesPlacement
<1>1. IInv => StatusMatchesPlacement
  BY DEF IInv, RowsInv
<1>2. QED
  BY <1>1, Invariance, PTL

\* No request claims, clones or saves before it has a host and an address.
THEOREM RequestsArePlaced == Spec => []RequestsPlaced
<1>1. IInv => RequestsPlaced
  BY DEF IInv, WorkersInv
<1>2. QED
  BY <1>1, Invariance, PTL

-----------------------------------------------------------------------------
(* What a request knows of its vm, as long as the requests are Serial: at  *)
(* each of its steps, which status and which placement the row has, what   *)
(* of it the request loaded, whether the archive record is there           *)
(* (KnowsInv), and which other requests can be on the same vm (AloneInv).  *)
(* SInv joins this with IInv and is inductive.  StoredInv, of requests     *)
(* that are also Complete, adds what there is of a vm in libvirt and ceph. *)
(*                                                                         *)
(* Knows has one part per kind of request.  A step of one request is       *)
(* looked at in that part alone; the requests it may meet, two deletes or  *)
(* two deletes of a shelved vm, are looked at in OthersKnow.               *)

\* The condition: requests that meet on a vm are two deletes or two deletes of
\* a shelved vm, nobody lacks the permission on the group of an address he had
\* before, and the define of a smaller vm does not fail.  Processes may die.
Serial ==
    /\ Overlaps \subseteq {<<"delete", "delete">>, <<"delshelve", "delshelve">>}
    /\ Denied = {}
    /\ "shrink" \notin Failing

-----------------------------------------------------------------------------
(* What a request knows of its vm: row and a are the Vm row and the        *)
(* archive record as they are now.                                         *)

Makes == {"create", "unshelve"}

SavedPcs == {"define", "unsave", "count"}

MakePcs == {"ip", "pick", "pick_ip", "claim", "claim_undo", "clone", "save",
            "undo_ip", "undo_host", "undo_disk"} \cup SavedPcs

\* A create or unshelve: a host exactly from its choice to its return, the
\* same for the address, and the row is its own work.
MakeKnows(r, row) ==
    /\ r.pc \in MakePcs
    /\ r.vcpu > 0 /\ r.mem > 0
    /\ r.pc = "ip" => ~r.need
    /\ r.pc \in {"ip", "pick", "claim_undo"} => r.host = NoHost
    /\ r.pc \in {"pick_ip", "claim", "clone", "save", "undo_host"} \cup SavedPcs
          => r.host # NoHost
    /\ r.pc = "pick_ip" \/ (r.pc = "pick" /\ r.need) => r.ip = NoIp
    /\ r.pc \in {"ip", "claim", "claim_undo", "clone", "save", "undo_ip"} \cup SavedPcs
          => r.ip # NoIp
    /\ r.pc \in SavedPcs => row.vm_status = "normal" /\ row.host = r.host
                            /\ row.mac_ip = r.ip
    /\ r.pc \notin SavedPcs =>
          row.vm_status = IF r.op = "create" THEN "none" ELSE "shelve"
    /\ r.pc \in SavedPcs \/ r.op = "unshelve" => row.vcpu = r.vcpu /\ row.mem = r.mem

\* A request on a normal vm: the row it loaded, from which it has the host and
\* the address it will give back.
Own(r) ==
    /\ r.row.vm_status = "normal"
    /\ r.row.host = r.host
    /\ r.row.mac_ip = r.ip

OwnSize(r) ==
    /\ r.row.vcpu = r.vcpu /\ r.row.mem = r.mem
    /\ r.vcpu > 0 /\ r.mem > 0

BeforeRowdel == {"undefine", "ahv_release", "ahv_disk", "ahv_row", "rowdel"}

\* A delete: until it deletes the row, the row is the one it loaded, and one
\* that waits to archive finds, if not that row, the archive record.
DeleteKnows(r, row, a) ==
    /\ r.pc \in {"archive", "uncount", "free_ip", "free_host", "rename",
                 "rename_save"} \cup BeforeRowdel
    /\ Own(r) /\ OwnSize(r)
    /\ r.pc \in BeforeRowdel => row = r.row
    /\ r.pc \notin BeforeRowdel \cup {"archive"} => row = NoRow
    /\ r.pc = "archive" =>
          row = r.row \/ (r.op = "delete" /\ row = NoRow /\ a # NoArchive)
    /\ r.op = "delete" /\ r.pc # "archive" => a # NoArchive

ShelveKnows(r, row) ==
    /\ r.pc \in {"undefine", "free_ip", "free_host", "uncount", "shelve_save"}
    /\ Own(r) /\ OwnSize(r)
    /\ row = r.row

EditKnows(r, row) ==
    /\ r.pc \in {"deduct", "redefine", "edit_save", "edit_undo"}
    /\ Own(r)
    /\ row = r.row
    /\ r.vcpu > 0 /\ r.mem > 0
    /\ r.pc = "edit_undo" => r.vcpu >= r.row.vcpu /\ r.mem >= r.row.mem

DelshelveKnows(r, row) ==
    /\ r.pc \in {"archive", "rowdel", "rename", "rename_save"}
    /\ row.vm_status # "normal"

Knows(r, row, a) ==
    /\ r.op \in OpKinds
    /\ r.op \in Makes => MakeKnows(r, row)
    /\ r.op \in Deletes => DeleteKnows(r, row, a)
    /\ r.op = "shelve" => ShelveKnows(r, row)
    /\ r.op = "edit" => EditKnows(r, row)
    /\ r.op = "delshelve" => DelshelveKnows(r, row)
    /\ r.op = "purge" => r.pc \in {"ahv_release", "ahv_disk", "ahv_row"}

KnowsInv ==
    \A w \in Workers :
       IF At(w, "idle")
       THEN worker[w] = Idle
       ELSE Knows(worker[w], vmrow[worker[w].vm], archive[worker[w].vm])

\* Two requests that may be on one vm at a time: of two deletes one has not
\* archived yet.
Together(r, s) ==
    \/ r.op = "delete" /\ s.op = "delete" /\ "archive" \in {r.pc, s.pc}
    \/ r.op = "delshelve" /\ s.op = "delshelve"

AloneInv ==
    \A w, x \in Workers :
       w # x /\ worker[w].vm \in Vms /\ worker[x].vm = worker[w].vm =>
          Together(worker[w], worker[x])

RowSized(row) ==
    /\ row.vm_status = "none" => row = NoRow
    /\ row.vm_status # "none" => row.vcpu > 0 /\ row.mem > 0

RecordsInv ==
    /\ \A v \in Vms : RowSized(vmrow[v])
    /\ \A v, x \in Vms : vmrow[v].mac_ip = vmrow[x].mac_ip =>
          v = x \/ vmrow[v].mac_ip = NoIp
    /\ \A v \in Vms : archive[v] # NoArchive => archive[v].state # "none"

SInv == IInv /\ KnowsInv /\ AloneInv /\ RecordsInv

-----------------------------------------------------------------------------
(* How a step keeps SInv. *)

\* A request is at a vm and knows what its kind and pc say.
LEMMA RequestKnows ==
    ASSUME SInv, NEW w \in Workers, worker[w].pc # "idle"
    PROVE  /\ worker[w] \in WorkerState
           /\ worker[w].vm \in Vms
           /\ PlacedAt(worker[w], worker[w].pc)
           /\ Knows(worker[w], vmrow[worker[w].vm], archive[worker[w].vm])
           /\ vmrow[worker[w].vm] \in VmRow
           /\ RowPlaced(vmrow[worker[w].vm])
           /\ archive[worker[w].vm] \in ArchiveRow
<1>1. /\ worker[w] \in WorkerState /\ worker[w].vm \in Vms
      /\ PlacedAt(worker[w], worker[w].pc)
  BY RequestPlaced DEF SInv, IInv
<1>2. QED
  BY <1>1 DEF SInv, IInv, RowsInv, StoresInv, StatusMatchesPlacement, KnowsInv, At

\* A worker that has a vm serves a request.
LEMMA IdleHasNoVm ==
    ASSUME SInv, NEW w \in Workers, worker[w].vm \in Vms
    PROVE  worker[w].pc # "idle"
  BY VmAssumption DEF SInv, KnowsInv, At, Idle

\* The step is one of w on v: other workers, rows and records stay.
OnlyAt(w, v) ==
    /\ \A x \in Workers \ {w} : worker'[x] = worker[x]
    /\ \A x \in Vms \ {v} : vmrow'[x] = vmrow[x] /\ archive'[x] = archive[x]

\* A step of w on v keeps SInv if w, and the other requests on v, know what
\* they need of the new row and record, and these are sound.
LEMMA Settled ==
    ASSUME SInv, IInv', NEW w \in Workers, NEW v \in Vms,
           OnlyAt(w, v),
           \/ worker'[w] = Idle
           \/ /\ worker'[w].pc # "idle" /\ worker'[w].vm = v
              /\ Knows(worker'[w], vmrow'[v], archive'[v]),
           \A x \in Workers \ {w} : worker[x].vm = v =>
              /\ Knows(worker[x], vmrow'[v], archive'[v])
              /\ worker'[w] = Idle \/ Together(worker[x], worker'[w]),
           RowSized(vmrow'[v]),
           \A x \in Vms \ {v} : vmrow'[v].mac_ip = NoIp
                                \/ vmrow[x].mac_ip # vmrow'[v].mac_ip,
           archive'[v] # NoArchive => archive'[v].state # "none"
    PROVE  SInv'
<1>2. /\ \A x \in Workers \ {w} : worker'[x] = worker[x]
      /\ \A x \in Vms \ {v} : vmrow'[x] = vmrow[x]
      /\ \A x \in Vms \ {v} : archive'[x] = archive[x]
  BY DEF OnlyAt
<1>3. KnowsInv'
  <2> SUFFICES ASSUME NEW x \in Workers
               PROVE  IF worker'[x].pc = "idle"
                      THEN worker'[x] = Idle
                      ELSE Knows(worker'[x], vmrow'[worker'[x].vm], archive'[worker'[x].vm])
    BY DEF KnowsInv, At
  <2>1. CASE x = w
    BY <2>1 DEF Idle
  <2>2. CASE x # w /\ worker[x].pc = "idle"
    BY <1>2, <2>2 DEF SInv, KnowsInv, At
  <2>3. CASE x # w /\ worker[x].pc # "idle"
    BY <1>2, <2>3, RequestKnows
  <2>4. QED
    BY <2>1, <2>2, <2>3
<1>4. AloneInv'
  <2> SUFFICES ASSUME NEW x \in Workers, NEW y \in Workers, x # y,
                      worker'[x].vm \in Vms, worker'[y].vm = worker'[x].vm
               PROVE  Together(worker'[x], worker'[y])
    BY DEF AloneInv
  <2>1. Idle.vm \notin Vms
    BY VmAssumption DEF Idle
  <2>2. CASE x = w
    BY <1>2, <2>1, <2>2 DEF Together
  <2>3. CASE y = w
    BY <1>2, <2>1, <2>3 DEF Together
  <2>4. CASE x # w /\ y # w
    BY <1>2, <2>4 DEF SInv, AloneInv
  <2>5. QED
    BY <2>2, <2>3, <2>4
<1>5. RecordsInv'
  BY <1>2 DEF SInv, RecordsInv
<1>6. QED
  BY <1>3, <1>4, <1>5 DEF SInv

\* Whether a record is there is all a request knows of it.
LEMMA KnowsRecord ==
    ASSUME NEW r, NEW row, NEW a, NEW b, Knows(r, row, a),
           a = NoArchive <=> b = NoArchive
    PROVE  Knows(r, row, b)
  BY DEF Knows, DeleteKnows

\* A step that changes no row, and no record beyond what requests know of it,
\* keeps SInv if the request ends or knows what it needs at its next step.
LEMMA SettledStep ==
    ASSUME SInv, IInv', NEW w \in Workers,
           worker[w].pc \notin {"idle", "archive"},
           OnlyAt(w, worker[w].vm),
           vmrow'[worker[w].vm] = vmrow[worker[w].vm],
           archive'[worker[w].vm] = NoArchive <=> archive[worker[w].vm] = NoArchive,
           archive'[worker[w].vm] # NoArchive => archive'[worker[w].vm].state # "none",
           \/ worker'[w] = Idle
           \/ /\ worker'[w].pc # "idle" /\ worker'[w].vm = worker[w].vm
              /\ worker'[w].op = worker[w].op
              /\ Knows(worker'[w], vmrow[worker[w].vm], archive[worker[w].vm])
    PROVE  SInv'
<1> DEFINE v == worker[w].vm
<1>1. v \in Vms
  BY RequestKnows
<1>2. \A x \in Workers \ {w} : worker[x].vm = v =>
         /\ Knows(worker[x], vmrow'[v], archive'[v])
         /\ worker'[w] = Idle \/ Together(worker[x], worker'[w])
  <2> SUFFICES ASSUME NEW x \in Workers \ {w}, worker[x].vm = v
               PROVE  /\ Knows(worker[x], vmrow'[v], archive'[v])
                      /\ worker'[w] = Idle \/ Together(worker[x], worker'[w])
    OBVIOUS
  <2>1. worker[x].pc # "idle"
    BY <1>1, IdleHasNoVm
  <2>2. Knows(worker[x], vmrow'[v], archive'[v])
    BY <2>1, RequestKnows, KnowsRecord
  <2>3. Together(worker[x], worker[w])
    BY <1>1 DEF SInv, AloneInv
  <2>4. QED
    BY <2>2, <2>3 DEF Together
<1>3. worker'[w] = Idle \/ Knows(worker'[w], vmrow'[v], archive'[v])
  BY KnowsRecord
<1>4. /\ RowSized(vmrow'[v])
      /\ \A x \in Vms \ {v} : vmrow'[v].mac_ip = NoIp \/ vmrow[x].mac_ip # vmrow'[v].mac_ip
  BY <1>1 DEF SInv, RecordsInv
<1>5. QED
  BY <1>1, <1>2, <1>3, <1>4, Settled

\* A step that changes neither rows nor records is one of w alone.
LEMMA QuietIsOnlyAt ==
    ASSUME SInv, NEW w \in Workers, NEW v \in Vms, NEW s,
           worker' = [worker EXCEPT ![w] = s], UNCHANGED <<vmrow, archive>>
    PROVE  OnlyAt(w, v) /\ worker'[w] = s
  BY DEF SInv, IInv, WorkersInv, OnlyAt

\* A request that ends and changes no row and no record keeps SInv.
LEMMA SettledEnd ==
    ASSUME SInv, IInv', NEW w \in Workers, worker[w].pc # "idle", End(w),
           UNCHANGED <<vmrow, archive>>
    PROVE  SInv'
<1> DEFINE v == worker[w].vm
<1>1. v \in Vms
  BY RequestKnows
<1>2. \A x \in Workers \ {w} : worker[x].vm = v => Knows(worker[x], vmrow[v], archive[v])
  BY <1>1, IdleHasNoVm, RequestKnows
<1>3. /\ RowSized(vmrow[v])
      /\ \A x \in Vms \ {v} : vmrow[v].mac_ip = NoIp \/ vmrow[x].mac_ip # vmrow[v].mac_ip
      /\ archive[v] # NoArchive => archive[v].state # "none"
  BY <1>1 DEF SInv, RecordsInv
<1>4. OnlyAt(w, v) /\ worker'[w] = Idle
  BY <1>1, QuietIsOnlyAt DEF End
<1>5. QED
  BY <1>1, <1>2, <1>3, <1>4, Settled

\* The step changes the state of the request and neither rows nor records.
LEMMA SettledQuiet ==
    ASSUME SInv, IInv', NEW w \in Workers, NEW s,
           worker[w].pc \notin {"idle", "archive"},
           worker' = [worker EXCEPT ![w] = s],
           UNCHANGED <<vmrow, archive>>,
           s.pc # "idle", s.vm = worker[w].vm, s.op = worker[w].op,
           Knows(s, vmrow[worker[w].vm], archive[worker[w].vm])
    PROVE  SInv'
<1>1. worker[w].vm \in Vms
  BY RequestKnows
<1>2. OnlyAt(w, worker[w].vm) /\ worker'[w] = s
  BY <1>1, QuietIsOnlyAt
<1>3. archive[worker[w].vm] # NoArchive => archive[worker[w].vm].state # "none"
  BY <1>1 DEF SInv, RecordsInv
<1>4. QED
  BY <1>2, <1>3, SettledStep

\* The same, for a step that changes the pc only.
LEMMA SettledGoto ==
    ASSUME SInv, IInv', NEW w \in Workers, NEW pc,
           worker[w].pc \notin {"idle", "archive"}, pc # "idle",
           Goto(w, pc),
           UNCHANGED <<vmrow, archive>>,
           Knows([worker[w] EXCEPT !.pc = pc], vmrow[worker[w].vm],
                 archive[worker[w].vm])
    PROVE  SInv'
<1> DEFINE s == [worker[w] EXCEPT !.pc = pc]
<1>1. worker[w] \in WorkerState
  BY RequestKnows
<1>2. s.pc = pc /\ s.vm = worker[w].vm /\ s.op = worker[w].op
  BY <1>1 DEF WorkerState
<1>3. worker' = [worker EXCEPT ![w] = s]
  BY DEF Goto
<1>4. Knows(s, vmrow[worker[w].vm], archive[worker[w].vm])
  OBVIOUS
<1> HIDE DEF s
<1>5. QED
  BY <1>2, <1>3, <1>4, SettledQuiet
-----------------------------------------------------------------------------
(* The steps of a create or an unshelve keep SInv. *)

\* A request that is not a delete or delete of a shelved vm is alone on its vm.
LEMMA NoOther ==
    ASSUME SInv, NEW w \in Workers, worker[w].pc # "idle",
           worker[w].op \notin {"delete", "delshelve"}
    PROVE  \A x \in Workers \ {w} : worker[x].vm # worker[w].vm
<1>1. worker[w].vm \in Vms
  BY RequestKnows
<1>2. QED
  BY <1>1 DEF SInv, AloneInv, Together

\* The pcs of a create or an unshelve are theirs alone.
LEMMA MakeAt ==
    ASSUME SInv, NEW w \in Workers, worker[w].pc \in MakePcs
    PROVE  /\ worker[w].op \in Makes
           /\ MakeKnows(worker[w], vmrow[worker[w].vm])
           /\ worker[w].pc \notin {"idle", "archive"}
<1>1. worker[w].pc \notin {"idle", "archive"}
  BY DEF MakePcs, SavedPcs
<1>2. Knows(worker[w], vmrow[worker[w].vm], archive[worker[w].vm])
  BY <1>1, RequestKnows
<1>3. QED
  BY <1>1, <1>2 DEF Knows, OpKinds, Makes, Deletes, DeleteKnows, ShelveKnows,
                    EditKnows, DelshelveKnows, MakePcs, SavedPcs, BeforeRowdel

\* What a create or an unshelve knows is all that Knows asks of it.
LEMMA KnowsMake ==
    ASSUME NEW r, NEW row, NEW a, r.op \in Makes, MakeKnows(r, row)
    PROVE  Knows(r, row, a)
  BY DEF Knows, Makes, Deletes, OpKinds

\* A step of a create or an unshelve that changes neither rows nor records.
LEMMA MakeQuiet ==
    ASSUME SInv, IInv', NEW w \in Workers, NEW s,
           worker[w].pc \in MakePcs,
           worker' = [worker EXCEPT ![w] = s],
           UNCHANGED <<vmrow, archive>>,
           s.vm = worker[w].vm, s.op = worker[w].op,
           MakeKnows(s, vmrow[worker[w].vm])
    PROVE  SInv'
<1>1. Knows(s, vmrow[worker[w].vm], archive[worker[w].vm])
  BY MakeAt, KnowsMake
<1>2. s.pc # "idle"
  BY DEF MakeKnows, MakePcs, SavedPcs
<1>3. QED
  BY <1>1, <1>2, MakeAt, SettledQuiet

\* The same for one that only goes to another step.
LEMMA MakeGoto ==
    ASSUME SInv, IInv', NEW w \in Workers, NEW pc \in MakePcs,
           worker[w].pc \in MakePcs, Goto(w, pc),
           UNCHANGED <<vmrow, archive>>,
           MakeKnows([worker[w] EXCEPT !.pc = pc], vmrow[worker[w].vm])
    PROVE  SInv'
<1> DEFINE s == [worker[w] EXCEPT !.pc = pc]
<1>1. worker[w] \in WorkerState
  BY MakeAt, RequestKnows
<1>2. s.vm = worker[w].vm /\ s.op = worker[w].op /\ MakeKnows(s, vmrow[worker[w].vm])
  BY <1>1 DEF WorkerState
<1>3. worker' = [worker EXCEPT ![w] = s]
  BY DEF Goto
<1> HIDE DEF s
<1>4. QED
  BY <1>2, <1>3, MakeQuiet

\* The steps before and after the row is saved.
LEMMA MakeKeepsS ==
    ASSUME SInv, IInv', Serial, NEW w \in Workers,
           \/ ApplyIp(w) \/ PickHost(w) \/ SkipGroup(w) \/ NoGroupLeft(w)
           \/ PickIp(w) \/ NoFreeIp(w) \/ ClaimHost(w) \/ ClaimFails(w)
           \/ ClaimUndo(w) \/ Clone(w) \/ Define(w) \/ UndoIp(w)
           \/ UndoHost(w) \/ UndoDisk(w) \/ Count(w)
    PROVE  SInv'
<1> DEFINE r == worker[w]
           row == vmrow[worker[w].vm]
<1>a. /\ r.pc \in MakePcs
      /\ UNCHANGED <<vmrow, archive>>
  BY DEF ApplyIp, PickHost, SkipGroup, NoGroupLeft, PickIp, NoFreeIp, ClaimHost,
         ClaimFails, ClaimUndo, Clone, Define, UndoIp, UndoHost, UndoDisk, Count,
         At, MakePcs, SavedPcs, ResourcesUnchanged
<1>b. /\ r.op \in Makes /\ MakeKnows(r, row) /\ r.pc # "idle"
      /\ r \in WorkerState /\ PlacedAt(r, r.pc)
  BY <1>a, MakeAt, RequestKnows
<1>c. End(w) => SInv'
  BY <1>a, <1>b, SettledEnd
<1> HIDE DEF row
<1>1. CASE ApplyIp(w)
  BY <1>b, <1>a, <1>c, <1>1, MakeGoto DEF ApplyIp, At, WorkerState, MakeKnows, MakePcs, SavedPcs, PlacedAt, row
<1>2. CASE PickHost(w)
  <2>1. PICK g \in r.groups, h \in Hosts :
           worker' = [worker EXCEPT
              ![w].host = h, ![w].groups = @ \ {g},
              ![w].pc = IF worker[w].need THEN "pick_ip" ELSE "claim"]
    BY <1>2 DEF PickHost
  <2> DEFINE s == [r EXCEPT !.host = h, !.groups = r.groups \ {g},
                            !.pc = IF r.need THEN "pick_ip" ELSE "claim"]
  <2>2. s.vm = r.vm /\ s.op = r.op /\ MakeKnows(s, row)
    BY <1>2, <1>b, VmAssumption
       DEF PickHost, At, WorkerState, MakeKnows, MakePcs, SavedPcs, PlacedAt
  <2>3. worker' = [worker EXCEPT ![w] = s]
    BY <2>1
  <2> HIDE DEF s
  <2>4. QED
    BY <1>a, <2>2, <2>3, MakeQuiet DEF row
<1>3. CASE SkipGroup(w)
  <2>1. PICK g \in r.groups : worker' = [worker EXCEPT ![w].groups = @ \ {g}]
    BY <1>3 DEF SkipGroup
  <2> DEFINE s == [r EXCEPT !.groups = @ \ {g}]
  <2>2. s.vm = r.vm /\ s.op = r.op /\ MakeKnows(s, row)
    BY <1>3, <1>b DEF SkipGroup, At, WorkerState, MakeKnows, MakePcs, SavedPcs
  <2>3. worker' = [worker EXCEPT ![w] = s]
    BY <2>1
  <2> HIDE DEF s
  <2>4. QED
    BY <1>a, <2>2, <2>3, MakeQuiet DEF row
<1>4. CASE NoGroupLeft(w)
  BY <1>b, <1>a, <1>c, <1>4, MakeGoto DEF NoGroupLeft, At, WorkerState, MakeKnows, MakePcs, SavedPcs, row
<1>5. CASE PickIp(w)
  <2>1. PICK i \in Ips : worker' = [worker EXCEPT ![w].ip = i, ![w].pc = "claim"]
    BY <1>5 DEF PickIp
  <2> DEFINE s == [r EXCEPT !.ip = i, !.pc = "claim"]
  <2>2. s.vm = r.vm /\ s.op = r.op /\ MakeKnows(s, row)
    BY <1>5, <1>b, VmAssumption
       DEF PickIp, At, WorkerState, MakeKnows, MakePcs, SavedPcs
  <2>3. worker' = [worker EXCEPT ![w] = s]
    BY <2>1
  <2> HIDE DEF s
  <2>4. QED
    BY <1>a, <2>2, <2>3, MakeQuiet DEF row
<1>6. CASE NoFreeIp(w)
  <2> DEFINE s == [r EXCEPT !.host = NoHost, !.pc = "pick"]
  <2>1. s.vm = r.vm /\ s.op = r.op /\ MakeKnows(s, row)
    BY <1>6, <1>b DEF NoFreeIp, At, WorkerState, MakeKnows, MakePcs, SavedPcs
  <2>2. worker' = [worker EXCEPT ![w] = s]
    BY <1>6 DEF NoFreeIp
  <2> HIDE DEF s
  <2>3. QED
    BY <1>a, <2>1, <2>2, MakeQuiet DEF row
<1>7. CASE ClaimHost(w)
  BY <1>b, <1>a, <1>7, MakeGoto DEF ClaimHost, At, WorkerState, MakeKnows, MakePcs, SavedPcs, row
<1>8. CASE ClaimFails(w)
  <2> DEFINE s == [r EXCEPT !.host = NoHost,
                            !.pc = IF r.need THEN "claim_undo" ELSE "pick"]
  <2>1. s.vm = r.vm /\ s.op = r.op /\ MakeKnows(s, row)
    BY <1>8, <1>b DEF ClaimFails, At, WorkerState, MakeKnows, MakePcs, SavedPcs
  <2>2. worker' = [worker EXCEPT ![w] = s]
    BY <1>8 DEF ClaimFails
  <2> HIDE DEF s
  <2>3. QED
    BY <1>a, <2>1, <2>2, MakeQuiet DEF row
<1>9. CASE ClaimUndo(w)
  <2> DEFINE s == [r EXCEPT !.ip = NoIp, !.pc = "pick"]
  <2>1. s.vm = r.vm /\ s.op = r.op /\ MakeKnows(s, row)
    BY <1>9, <1>b DEF ClaimUndo, At, WorkerState, MakeKnows, MakePcs, SavedPcs
  <2>2. worker' = [worker EXCEPT ![w] = s]
    BY <1>9 DEF ClaimUndo
  <2> HIDE DEF s
  <2>3. QED
    BY <1>a, <2>1, <2>2, MakeQuiet DEF row
<1>10. CASE Clone(w)
  BY <1>b, <1>a, <1>10, MakeGoto DEF Clone, At, WorkerState, MakeKnows, MakePcs, SavedPcs, row
<1>11. CASE Define(w)
  BY <1>b, <1>a, <1>11, MakeGoto DEF Define, At, WorkerState, MakeKnows, MakePcs, SavedPcs, row
<1>12. CASE UndoIp(w)
  BY <1>b, <1>a, <1>c, <1>12, MakeGoto DEF UndoIp, At, WorkerState, MakeKnows, MakePcs, SavedPcs, row
<1>13. CASE UndoHost(w)
  BY <1>b, <1>a, <1>c, <1>13, MakeGoto DEF UndoHost, At, WorkerState, MakeKnows, MakePcs, SavedPcs, row
<1>14. CASE UndoDisk(w) \/ Count(w)
  BY <1>14, <1>c DEF UndoDisk, Count
<1>15. QED
  BY <1>1, <1>2, <1>3, <1>4, <1>5, <1>6, <1>7, <1>8, <1>9, <1>10, <1>11,
     <1>12, <1>13, <1>14

\* A request alone on its vm writes the row: what SInv needs of the new one.
LEMMA SettledRow ==
    ASSUME SInv, IInv', NEW w \in Workers, NEW s, NEW row,
           worker[w].pc # "idle",
           worker[w].op \notin {"delete", "delshelve"},
           worker' = [worker EXCEPT ![w] = s],
           vmrow' = [vmrow EXCEPT ![worker[w].vm] = row],
           UNCHANGED archive,
           \/ s = Idle
           \/ /\ s.pc # "idle" /\ s.vm = worker[w].vm
              /\ Knows(s, row, archive[worker[w].vm]),
           RowSized(row),
           \A x \in Vms \ {worker[w].vm} : row.mac_ip = NoIp
                                           \/ vmrow[x].mac_ip # row.mac_ip
    PROVE  SInv'
<1> DEFINE v == worker[w].vm
<1>1. v \in Vms /\ \A x \in Workers \ {w} : worker[x].vm # v
  BY RequestKnows, NoOther
<1>2. OnlyAt(w, v) /\ worker'[w] = s /\ vmrow'[v] = row
  BY <1>1 DEF SInv, IInv, WorkersInv, RowsInv, OnlyAt
<1>3. archive'[v] # NoArchive => archive'[v].state # "none"
  BY <1>1 DEF SInv, RecordsInv
<1>4. QED
  BY <1>1, <1>2, <1>3, Settled

\* Vm.save of a create or an unshelve, and its undoing.
LEMMA SaveKeepsS ==
    ASSUME SInv, IInv', Serial, NEW w \in Workers, SaveRow(w) \/ Unsave(w)
    PROVE  SInv'
<1> DEFINE r == worker[w]
           v == worker[w].vm
<1>a. r.pc \in MakePcs
  BY DEF SaveRow, Unsave, At, MakePcs, SavedPcs
<1>b. /\ r.op \in Makes /\ MakeKnows(r, vmrow[v]) /\ r.pc # "idle"
      /\ r \in WorkerState /\ PlacedAt(r, r.pc)
      /\ v \in Vms /\ vmrow[v] \in VmRow /\ RowSized(vmrow[v])
  BY <1>a, MakeAt, RequestKnows DEF SInv, RecordsInv
<1>c. r.op \notin {"delete", "delshelve"}
  BY <1>b DEF Makes
<1>d. vmrow[v] = NoRow <=> vmrow[v].vm_status = "none"
  BY <1>b DEF RowSized, NoRow
<1>1. CASE SaveRow(w)
  <2>1. r.pc = "save"
    BY <1>1 DEF SaveRow, At
  <2>2. CASE Goto(w, "undo_ip") /\ UNCHANGED vmrow
    BY <1>b, <1>a, <1>1, <2>1, <2>2, MakeGoto DEF WorkerState, MakeKnows, MakePcs, SavedPcs, SaveRow
  <2>3. CASE ~(Goto(w, "undo_ip") /\ UNCHANGED vmrow)
    <3> DEFINE old == IF r.op = "create"
                      THEN [NoRow EXCEPT !.vcpu = r.vcpu, !.mem = r.mem]
                      ELSE vmrow[v]
               row == [old EXCEPT !.vm_status = "normal", !.mac_ip = r.ip,
                                  !.host = r.host]
               s   == [r EXCEPT !.pc = "define"]
    <3>1. /\ vmrow' = [vmrow EXCEPT ![v] = row]
          /\ Goto(w, "define")
          /\ UNCHANGED archive
          /\ \A x \in Vms \ {v} : vmrow[x].mac_ip # r.ip
      BY <1>1, <2>3 DEF SaveRow
    <3>2. worker' = [worker EXCEPT ![w] = s]
      BY <3>1 DEF Goto
    <3>3. old \in VmRow /\ old.vcpu = r.vcpu /\ old.mem = r.mem
      BY <1>b, <2>1 DEF WorkerState, MakeKnows, SavedPcs, NoRow, VmRow, Makes
    <3> HIDE DEF old
    <3>4. /\ row.vm_status = "normal" /\ row.host = r.host /\ row.mac_ip = r.ip
          /\ row.vcpu = r.vcpu /\ row.mem = r.mem
      BY <3>3 DEF VmRow
    <3> HIDE DEF row
    <3>5. s.pc = "define" /\ s.vm = v /\ s.op = r.op /\ MakeKnows(s, row)
      BY <1>b, <2>1, <3>4 DEF WorkerState, MakeKnows, MakePcs, SavedPcs
    <3>6. RowSized(row)
      BY <1>b, <3>4 DEF RowSized, MakeKnows
    <3> HIDE DEF s
    <3>7. Knows(s, row, archive[v])
      BY <1>b, <3>5, KnowsMake
    <3>8. QED
      BY <1>b, <1>c, <3>1, <3>2, <3>4, <3>5, <3>6, <3>7, SettledRow
  <2>4. QED
    BY <2>2, <2>3
<1>2. CASE Unsave(w)
  <2> DEFINE row == IF r.op = "create" \/ vmrow[v] = NoRow
                    THEN NoRow
                    ELSE [vmrow[v] EXCEPT !.vm_status = "shelve",
                                          !.host = NoHost, !.mac_ip = NoIp]
             s   == [r EXCEPT !.pc = "undo_ip"]
  <2>1. /\ r.pc = "unsave" /\ Goto(w, "undo_ip") /\ UNCHANGED archive
        /\ vmrow' = [vmrow EXCEPT ![v] = row]
    BY <1>2 DEF Unsave, At
  <2>2. worker' = [worker EXCEPT ![w] = s]
    BY <2>1 DEF Goto
  <2>3. /\ r.op = "create" => row = NoRow
        /\ r.op = "unshelve" =>
              row.vm_status = "shelve" /\ row.vcpu = r.vcpu /\ row.mem = r.mem
        /\ row.mac_ip = NoIp
    BY <1>b, <1>d, <2>1 DEF VmRow, MakeKnows, Makes, SavedPcs, NoRow
  <2>4. NoRow.vm_status = "none"
    BY DEF NoRow
  <2> HIDE DEF row
  <2>5. s.pc = "undo_ip" /\ s.vm = v /\ s.op = r.op /\ MakeKnows(s, row)
    BY <1>b, <2>1, <2>3, <2>4 DEF WorkerState, MakeKnows, MakePcs, SavedPcs, Makes
  <2>6. RowSized(row)
    BY <1>b, <2>3, <2>4 DEF RowSized, MakeKnows, Makes
  <2> HIDE DEF s
  <2>7. Knows(s, row, archive[v])
    BY <1>b, <2>5, KnowsMake
  <2>8. QED
    BY <1>b, <1>c, <2>1, <2>2, <2>3, <2>5, <2>6, <2>7, SettledRow
<1>3. QED
  BY <1>1, <1>2

-----------------------------------------------------------------------------
(* The steps of the other requests keep SInv. *)

\* What a request on a vm that exists, or its archive record, is.
LEMMA TakeAt ==
    ASSUME SInv, NEW w \in Workers, worker[w].pc # "idle",
           worker[w].pc \notin MakePcs
    PROVE  LET r == worker[w]
               row == vmrow[worker[w].vm]
           IN  \/ /\ r.op \in Deletes
                  /\ DeleteKnows(r, row, archive[worker[w].vm])
               \/ r.op = "shelve" /\ ShelveKnows(r, row)
               \/ r.op = "edit" /\ EditKnows(r, row)
               \/ r.op = "delshelve" /\ DelshelveKnows(r, row)
               \/ r.op = "purge" /\ r.pc \in {"ahv_release", "ahv_disk", "ahv_row"}
<1>1. Knows(worker[w], vmrow[worker[w].vm], archive[worker[w].vm])
  BY RequestKnows
<1>2. worker[w].op \notin Makes
  BY <1>1 DEF Knows, MakeKnows
<1>3. QED
  BY <1>1, <1>2 DEF Knows, OpKinds, Makes, Deletes

\* What one of the other requests knows is all that Knows asks of it.
LEMMA KnowsTake ==
    ASSUME NEW r, NEW row, NEW a,
           \/ r.op \in Deletes /\ DeleteKnows(r, row, a)
           \/ r.op = "shelve" /\ ShelveKnows(r, row)
           \/ r.op = "edit" /\ EditKnows(r, row)
           \/ r.op = "delshelve" /\ DelshelveKnows(r, row)
           \/ r.op = "purge" /\ r.pc \in {"ahv_release", "ahv_disk", "ahv_row"}
    PROVE  Knows(r, row, a)
  BY DEF Knows, Makes, Deletes, OpKinds

\* A step that changes what is written in a record that is there, or nothing,
\* and neither rows nor which records are there.
LEMMA SettledRecord ==
    ASSUME SInv, IInv', NEW w \in Workers, NEW s, NEW a,
           worker[w].pc \notin {"idle", "archive"},
           worker' = [worker EXCEPT ![w] = s],
           archive' = [archive EXCEPT ![worker[w].vm] = a],
           UNCHANGED vmrow,
           IF archive[worker[w].vm] = NoArchive
           THEN a = NoArchive
           ELSE a # NoArchive /\ a.state # "none",
           \/ s = Idle
           \/ /\ s.pc # "idle" /\ s.vm = worker[w].vm /\ s.op = worker[w].op
              /\ Knows(s, vmrow[worker[w].vm], archive[worker[w].vm])
    PROVE  SInv'
<1>1. worker[w].vm \in Vms
  BY RequestKnows
<1>2. OnlyAt(w, worker[w].vm) /\ worker'[w] = s /\ archive'[worker[w].vm] = a
  BY <1>1 DEF SInv, IInv, WorkersInv, StoresInv, OnlyAt
<1>3. QED
  BY <1>1, <1>2, SettledStep

\* The record as the steps of a delete rewrite it.
LEMMA RecordRewritten ==
    ASSUME SInv, NEW v \in Vms
    PROVE  LET a == archive[v]
           IN  /\ a # NoArchive =>
                     /\ [a EXCEPT !.state = "pending"] # NoArchive
                     /\ [a EXCEPT !.state = "pending"].state # "none"
                     /\ [a EXCEPT !.state = "released"] # NoArchive
                     /\ [a EXCEPT !.state = "released"].state # "none"
                     /\ [a EXCEPT !.disk = "none"] # NoArchive
                     /\ [a EXCEPT !.disk = "none"].state # "none"
                     /\ [a EXCEPT !.disk = "arch"] # NoArchive
                     /\ [a EXCEPT !.disk = "arch"].state # "none"
               /\ a = NoArchive => [a EXCEPT !.disk = "none"] = NoArchive
<1> DEFINE a == archive[v]
<1>1. a \in ArchiveRow /\ (a # NoArchive => a.state # "none")
  BY DEF SInv, IInv, StoresInv, RecordsInv
<1>2. NoArchive.state = "none" /\ NoArchive.disk = "none"
      /\ NoArchive = [state |-> NoArchive.state, disk |-> NoArchive.disk, host |-> NoArchive.host]
  BY DEF NoArchive
<1> HIDE DEF a
<1>3. a # NoArchive =>
         /\ [a EXCEPT !.state = "pending"].state = "pending"
         /\ [a EXCEPT !.state = "released"].state = "released"
         /\ [a EXCEPT !.disk = "none"].state = a.state
         /\ [a EXCEPT !.disk = "arch"].state = a.state
  BY <1>1 DEF ArchiveRow
<1>4. a = NoArchive => [a EXCEPT !.disk = "none"] = NoArchive
  BY DEF NoArchive
<1>5. QED
  BY <1>1, <1>2, <1>3, <1>4 DEF a

\* The steps that leave rows and records alone.
LEMMA TakeKeepsS ==
    ASSUME SInv, IInv', Serial, NEW w \in Workers,
           \/ Refuse(w) \/ Undefine(w) \/ UndefineFails(w)
           \/ Uncount(w) \/ FreeIp(w) \/ FreeHost(w) \/ RenameDisk(w)
           \/ Deduct(w) \/ Redefine(w) \/ RedefineFails(w)
           \/ EditUndo(w) \/ EditRedefine(w)
    PROVE  SInv'
<1> DEFINE r == worker[w]
           row == vmrow[worker[w].vm]
           a == archive[worker[w].vm]
<1>a. /\ r.pc \notin MakePcs \cup {"idle"}
      /\ UNCHANGED <<vmrow, archive>>
  BY DEF Refuse, Undefine, UndefineFails, Uncount, FreeIp, FreeHost, RenameDisk,
         Deduct, Redefine, RedefineFails, EditUndo, EditRedefine,
         At, MakePcs, SavedPcs, ResourcesUnchanged
<1>b. /\ \/ r.op \in Deletes /\ DeleteKnows(r, row, a)
         \/ r.op = "shelve" /\ ShelveKnows(r, row)
         \/ r.op = "edit" /\ EditKnows(r, row)
         \/ r.op = "delshelve" /\ DelshelveKnows(r, row)
         \/ r.op = "purge" /\ r.pc \in {"ahv_release", "ahv_disk", "ahv_row"}
      /\ r \in WorkerState
  BY <1>a, TakeAt, RequestKnows
<1>c. End(w) => SInv'
  BY <1>a, SettledEnd
<1>d. ASSUME NEW pc, pc # "idle", Goto(w, pc), r.pc # "archive",
             \/ r.op \in Deletes /\ DeleteKnows([r EXCEPT !.pc = pc], row, a)
             \/ r.op = "shelve" /\ ShelveKnows([r EXCEPT !.pc = pc], row)
             \/ r.op = "edit" /\ EditKnows([r EXCEPT !.pc = pc], row)
             \/ r.op = "delshelve" /\ DelshelveKnows([r EXCEPT !.pc = pc], row)
      PROVE  SInv'
  <2> DEFINE s == [r EXCEPT !.pc = pc]
  <2>1. s.op = r.op
    BY <1>b DEF WorkerState
  <2>2. Knows(s, row, a)
    <3> HIDE DEF s, row, a
    <3>1. QED
      BY <1>d, <2>1, KnowsTake DEF s
  <2>3. QED
    BY <1>a, <1>d, <2>2, SettledGoto
<1> HIDE DEF row, a
<1>1. CASE Refuse(w)
  BY <1>1, <1>c DEF Refuse
<1>2. CASE Undefine(w)
  <2>1. CASE r.op \in Deletes
    BY <1>b, <1>d, <1>2, <2>1 DEF Undefine, At, WorkerState, DeleteKnows, Deletes, BeforeRowdel, Own, OwnSize
  <2>2. CASE r.op \notin Deletes
    <3>1. r.op = "shelve" /\ ShelveKnows([r EXCEPT !.pc = "free_ip"], row)
      BY <1>2, <1>b, <2>2
         DEF Undefine, At, WorkerState, ShelveKnows, EditKnows, DelshelveKnows, Own, OwnSize
    <3>2. QED
      BY <1>2, <1>d, <2>2, <3>1 DEF Undefine, At
  <2>3. QED
    BY <2>1, <2>2
<1>3. CASE UndefineFails(w)
  BY <1>b, <1>c, <1>d, <1>3 DEF UndefineFails, At, WorkerState, DeleteKnows, Deletes, BeforeRowdel, Own, OwnSize
<1>4. CASE Uncount(w)
  <2>1. CASE r.op \in Deletes
    BY <1>b, <1>d, <1>4, <2>1 DEF Uncount, At, WorkerState, DeleteKnows, Deletes, BeforeRowdel, Own, OwnSize
  <2>2. CASE r.op \notin Deletes
    BY <1>b, <1>d, <1>4, <2>2 DEF Uncount, At, WorkerState, ShelveKnows, EditKnows, DelshelveKnows, Own, OwnSize
  <2>3. QED
    BY <2>1, <2>2
<1>5. CASE FreeIp(w)
  <2>1. \/ r.op \in Deletes /\ DeleteKnows([r EXCEPT !.pc = "free_host"], row, a)
        \/ r.op = "shelve" /\ ShelveKnows([r EXCEPT !.pc = "free_host"], row)
    BY <1>5, <1>b
       DEF FreeIp, At, WorkerState, DeleteKnows, ShelveKnows, EditKnows,
           DelshelveKnows, Deletes, BeforeRowdel, Own, OwnSize
  <2>2. QED
    BY <1>5, <1>d, <2>1 DEF FreeIp, At
<1>6. CASE FreeHost(w)
  <2>1. CASE r.op \in Deletes
    BY <1>b, <1>d, <1>6, <2>1 DEF FreeHost, At, WorkerState, DeleteKnows, Deletes, BeforeRowdel, Own, OwnSize
  <2>2. CASE r.op \notin Deletes
    <3>1. r.op = "shelve" /\ ShelveKnows([r EXCEPT !.pc = "uncount"], row)
      BY <1>6, <1>b, <2>2
         DEF FreeHost, At, WorkerState, ShelveKnows, EditKnows, DelshelveKnows, Own, OwnSize
    <3>2. QED
      BY <1>6, <1>d, <2>2, <3>1 DEF FreeHost, At
  <2>3. QED
    BY <2>1, <2>2
<1>7. CASE RenameDisk(w)
  <2>1. \/ r.op \in Deletes /\ DeleteKnows([r EXCEPT !.pc = "rename_save"], row, a)
        \/ r.op = "delshelve" /\ DelshelveKnows([r EXCEPT !.pc = "rename_save"], row)
    BY <1>7, <1>b
       DEF RenameDisk, At, WorkerState, DeleteKnows, ShelveKnows, EditKnows,
           DelshelveKnows, Deletes, BeforeRowdel, Own, OwnSize
  <2>2. QED
    BY <1>7, <1>c, <1>d, <2>1 DEF RenameDisk, At
<1>8. CASE Deduct(w)
  <2>1. r.op = "edit" /\ EditKnows([r EXCEPT !.pc = "redefine"], row)
    BY <1>8, <1>b
       DEF Deduct, At, WorkerState, DeleteKnows, ShelveKnows, EditKnows,
           DelshelveKnows, BeforeRowdel, Own
  <2>2. QED
    BY <1>8, <1>c, <1>d, <2>1 DEF Deduct, At
<1>9. CASE Redefine(w)
  <2>1. r.op = "edit" /\ EditKnows([r EXCEPT !.pc = "edit_save"], row)
    BY <1>9, <1>b
       DEF Redefine, At, WorkerState, DeleteKnows, ShelveKnows, EditKnows,
           DelshelveKnows, BeforeRowdel, Own
  <2>2. QED
    BY <1>9, <1>d, <2>1 DEF Redefine, At
<1>10. CASE RedefineFails(w)
  <2>1. r.op = "edit" /\ EditKnows(r, row)
    BY <1>10, <1>b
       DEF RedefineFails, At, DeleteKnows, ShelveKnows, DelshelveKnows, BeforeRowdel
  <2>2. r.vcpu \in Nat /\ r.mem \in Nat /\ r.row.vcpu \in Nat /\ r.row.mem \in Nat
    BY <1>b DEF WorkerState, VmRow
  <2>3. r.vcpu >= r.row.vcpu /\ r.mem >= r.row.mem
    BY <1>10, <2>2 DEF RedefineFails, Shrinks, CpuDelta, MemDelta, MayFail, Serial
  <2>4. EditKnows([r EXCEPT !.pc = "edit_undo"], row)
    BY <1>b, <2>1, <2>3 DEF WorkerState, EditKnows, Own
  <2>5. QED
    BY <1>10, <1>d, <2>1, <2>4 DEF RedefineFails, At
<1>11. CASE EditUndo(w)
  BY <1>b, <1>c, <1>11 DEF EditUndo, At, DeleteKnows, ShelveKnows, EditKnows, DelshelveKnows, BeforeRowdel
<1>12. CASE EditRedefine(w)
  BY <1>12, <1>c DEF EditRedefine
<1>13. QED
  BY <1>1, <1>2, <1>3, <1>4, <1>5, <1>6, <1>7, <1>8, <1>9, <1>10, <1>11, <1>12

\* The steps that write in the archive record.
LEMMA RecordKeepsS ==
    ASSUME SInv, IInv', Serial, NEW w \in Workers,
           \/ UndefineHostDown(w) \/ ReleaseHost(w) \/ RemoveDisk(w) \/ RenameSave(w)
    PROVE  SInv'
<1> DEFINE r == worker[w]
           v == worker[w].vm
           row == vmrow[worker[w].vm]
           a == archive[worker[w].vm]
<1>a. /\ r.pc \in {"undefine", "ahv_release", "ahv_disk", "rename_save"}
      /\ UNCHANGED vmrow
  BY DEF UndefineHostDown, ReleaseHost, RemoveDisk, RenameSave, At
<1>b. r.pc \notin MakePcs \cup {"idle", "archive"}
  BY <1>a DEF MakePcs, SavedPcs
<1>c. /\ \/ r.op \in Deletes /\ DeleteKnows(r, row, a)
         \/ r.op = "shelve" /\ ShelveKnows(r, row)
         \/ r.op = "edit" /\ EditKnows(r, row)
         \/ r.op = "delshelve" /\ DelshelveKnows(r, row)
         \/ r.op = "purge" /\ r.pc \in {"ahv_release", "ahv_disk", "ahv_row"}
      /\ r \in WorkerState /\ v \in Vms
  BY <1>b, TakeAt, RequestKnows
<1>d. End(w) /\ UNCHANGED archive => SInv'
  BY <1>a, <1>b, SettledEnd
<1>e. /\ a # NoArchive =>
            /\ [a EXCEPT !.state = "pending"] # NoArchive
            /\ [a EXCEPT !.state = "pending"].state # "none"
            /\ [a EXCEPT !.state = "released"] # NoArchive
            /\ [a EXCEPT !.state = "released"].state # "none"
            /\ [a EXCEPT !.disk = "none"] # NoArchive
            /\ [a EXCEPT !.disk = "none"].state # "none"
            /\ [a EXCEPT !.disk = "arch"] # NoArchive
            /\ [a EXCEPT !.disk = "arch"].state # "none"
      /\ a = NoArchive => [a EXCEPT !.disk = "none"] = NoArchive
  BY <1>c, RecordRewritten
<1>1. CASE UndefineHostDown(w)
  <2> DEFINE s == [r EXCEPT !.ahv.state = "pending", !.pc = "rowdel"]
             b == IF a = NoArchive THEN a ELSE [a EXCEPT !.state = "pending"]
  <2>1. CASE r.op \in Deletes
    <3>1. /\ worker' = [worker EXCEPT ![w] = s]
          /\ archive' = [archive EXCEPT ![v] = b]
          /\ r.pc = "undefine"
      BY <1>1, <2>1 DEF UndefineHostDown, At
    <3>2. s.vm = v /\ s.op = r.op /\ s.pc = "rowdel"
      BY <1>c DEF WorkerState
    <3>3. DeleteKnows(s, row, a)
      BY <1>c, <2>1, <3>1
         DEF WorkerState, DeleteKnows, Deletes, BeforeRowdel, Own, OwnSize
    <3>4. Knows(s, row, a)
      <4> HIDE DEF s, row, a
      <4>1. QED
        BY <2>1, <3>2, <3>3, KnowsTake
    <3>5. IF a = NoArchive THEN b = NoArchive ELSE b # NoArchive /\ b.state # "none"
      BY <1>e
    <3> HIDE DEF s, b
    <3>6. QED
      BY <1>a, <1>b, <3>1, <3>2, <3>4, <3>5, SettledRecord
  <2>2. QED
    BY <1>1, <1>d, <2>1 DEF UndefineHostDown
<1>2. CASE ReleaseHost(w)
  <2> DEFINE s == [r EXCEPT !.ahv.state = "released", !.pc = "ahv_disk"]
             b == IF a = NoArchive THEN a ELSE [a EXCEPT !.state = "released"]
  <2>1. CASE /\ worker' = [worker EXCEPT ![w] = s]
             /\ archive' = [archive EXCEPT ![v] = b]
    <3>1. r.pc = "ahv_release"
      BY <1>2 DEF ReleaseHost, At
    <3>2. s.vm = v /\ s.op = r.op /\ s.pc = "ahv_disk"
      BY <1>c DEF WorkerState
    <3>3. r.op \in Deletes \/ r.op = "purge"
      BY <1>c, <3>1 DEF ShelveKnows, EditKnows, DelshelveKnows
    <3>4. r.op \in Deletes => DeleteKnows(s, row, a)
      BY <1>c, <3>1
         DEF WorkerState, DeleteKnows, Deletes, BeforeRowdel, Own, OwnSize
    <3>5. Knows(s, row, a)
      <4> HIDE DEF s, row, a
      <4>1. QED
        BY <3>2, <3>3, <3>4, KnowsTake
    <3>6. IF a = NoArchive THEN b = NoArchive ELSE b # NoArchive /\ b.state # "none"
      BY <1>e
    <3> HIDE DEF s, b
    <3>7. QED
      BY <1>a, <1>b, <2>1, <3>2, <3>5, <3>6, SettledRecord
  <2>2. QED
    BY <1>2, <1>d, <2>1 DEF ReleaseHost
<1>3. CASE RemoveDisk(w)
  <2> DEFINE s == [r EXCEPT !.ahv.disk = "none", !.pc = "ahv_row"]
             b == [a EXCEPT !.disk = "none"]
  <2>1. CASE /\ worker' = [worker EXCEPT ![w] = s]
             /\ archive' = [archive EXCEPT ![v] = b]
    <3>1. r.pc = "ahv_disk"
      BY <1>3 DEF RemoveDisk, At
    <3>2. s.vm = v /\ s.op = r.op /\ s.pc = "ahv_row"
      BY <1>c DEF WorkerState
    <3>3. r.op \in Deletes \/ r.op = "purge"
      BY <1>c, <3>1 DEF ShelveKnows, EditKnows, DelshelveKnows
    <3>4. r.op \in Deletes => DeleteKnows(s, row, a)
      BY <1>c, <3>1
         DEF WorkerState, DeleteKnows, Deletes, BeforeRowdel, Own, OwnSize
    <3>5. Knows(s, row, a)
      <4> HIDE DEF s, row, a
      <4>1. QED
        BY <3>2, <3>3, <3>4, KnowsTake
    <3>6. IF a = NoArchive THEN b = NoArchive ELSE b # NoArchive /\ b.state # "none"
      BY <1>e
    <3> HIDE DEF s, b
    <3>7. QED
      BY <1>a, <1>b, <2>1, <3>2, <3>5, <3>6, SettledRecord
  <2>2. QED
    BY <1>3, <1>d, <2>1 DEF RemoveDisk
<1>4. CASE RenameSave(w)
  <2> DEFINE b == [a EXCEPT !.disk = "arch"]
  <2>1. CASE archive' = [archive EXCEPT ![v] = b] /\ a # NoArchive
    <3>1. b # NoArchive /\ b.state # "none"
      BY <1>e, <2>1
    <3>2. worker' = [worker EXCEPT ![w] = Idle]
      BY <1>4 DEF RenameSave, End
    <3> HIDE DEF b
    <3>3. QED
      BY <1>a, <1>b, <2>1, <3>1, <3>2, SettledRecord
  <2>2. QED
    BY <1>4, <1>d, <2>1 DEF RenameSave
<1>5. QED
  BY <1>1, <1>2, <1>3, <1>4

\* The steps that write the row of a request alone on its vm: the last of a
\* shelve and of a change of size.
LEMMA WriteKeepsS ==
    ASSUME SInv, IInv', Serial, NEW w \in Workers, ShelveSave(w) \/ EditSave(w)
    PROVE  SInv'
<1> DEFINE r == worker[w]
           v == worker[w].vm
           row == vmrow[worker[w].vm]
           a == archive[worker[w].vm]
<1>a. r.pc \in {"shelve_save", "edit_save"} /\ UNCHANGED archive
  BY DEF ShelveSave, EditSave, At
<1>b. r.pc \notin MakePcs \cup {"idle", "archive"}
  BY <1>a DEF MakePcs, SavedPcs
<1>c. /\ \/ r.op \in Deletes /\ DeleteKnows(r, row, a)
         \/ r.op = "shelve" /\ ShelveKnows(r, row)
         \/ r.op = "edit" /\ EditKnows(r, row)
         \/ r.op = "delshelve" /\ DelshelveKnows(r, row)
         \/ r.op = "purge" /\ r.pc \in {"ahv_release", "ahv_disk", "ahv_row"}
      /\ r \in WorkerState /\ v \in Vms /\ row \in VmRow /\ RowPlaced(row)
      /\ RowSized(row)
  BY <1>b, TakeAt, RequestKnows DEF SInv, RecordsInv
<1>1. CASE ShelveSave(w)
  <2> DEFINE new == IF row = NoRow
                    THEN row
                    ELSE [row EXCEPT !.vm_status = "shelve", !.host = NoHost,
                                     !.mac_ip = NoIp, !.last_ip = r.ip]
  <2>1. r.op = "shelve" /\ ShelveKnows(r, row)
    BY <1>1, <1>c
       DEF ShelveSave, At, DeleteKnows, EditKnows, DelshelveKnows, BeforeRowdel
  <2>2. /\ vmrow' = [vmrow EXCEPT ![v] = new]
        /\ worker' = [worker EXCEPT ![w] = Idle]
    BY <1>1 DEF ShelveSave, End
  <2>3. row.vm_status = "normal" /\ row # NoRow
    BY <2>1 DEF ShelveKnows, Own, NoRow
  <2>4. /\ new.vm_status = "shelve" /\ new.mac_ip = NoIp
        /\ new.vcpu = row.vcpu /\ new.mem = row.mem
    BY <1>c, <2>3 DEF VmRow
  <2>5. RowSized(new)
    BY <1>c, <2>3, <2>4 DEF RowSized
  <2> HIDE DEF new
  <2>6. QED
    BY <1>a, <1>b, <2>1, <2>2, <2>4, <2>5, SettledRow
<1>2. CASE EditSave(w)
  <2> DEFINE new == [r.row EXCEPT !.vcpu = r.vcpu, !.mem = r.mem]
  <2>1. r.op = "edit" /\ EditKnows(r, row)
    BY <1>2, <1>c
       DEF EditSave, At, DeleteKnows, ShelveKnows, DelshelveKnows, BeforeRowdel
  <2>2. row.mac_ip = r.ip /\ row.vm_status = "normal" /\ r.row = row /\ r.ip # NoIp
    BY <1>c, <2>1 DEF EditKnows, Own, RowPlaced
  <2>3. \A x \in Vms \ {v} : vmrow[x].mac_ip # r.ip
    BY <1>c, <2>2 DEF SInv, RecordsInv
  <2>4. /\ vmrow' = [vmrow EXCEPT ![v] = new]
        /\ worker' = [worker EXCEPT ![w] = Idle]
    BY <1>2, <2>3 DEF EditSave, End
  <2>5. /\ new.vm_status = "normal" /\ new.mac_ip = r.ip
        /\ new.vcpu = r.vcpu /\ new.mem = r.mem
    BY <1>c, <2>2 DEF VmRow
  <2>6. RowSized(new)
    BY <2>1, <2>5 DEF RowSized, EditKnows
  <2> HIDE DEF new
  <2>7. QED
    BY <1>a, <1>b, <2>1, <2>3, <2>4, <2>5, <2>6, SettledRow
<1>3. QED
  BY <1>1, <1>2

\* The requests that wait to archive, or delete the same shelved vm, go on
\* knowing what they know when the record is made, or removed while the row is
\* there, or when the row is deleted.
LEMMA OthersKnow ==
    ASSUME SInv, NEW w \in Workers, worker[w].pc # "idle",
           NEW x \in Workers \ {w}, worker[x].vm = worker[w].vm,
           NEW row, NEW a,
           \/ /\ row = vmrow[worker[w].vm]
              /\ a # NoArchive
           \/ /\ row = vmrow[worker[w].vm]
              /\ row.vm_status = "normal"
              /\ worker[w].pc # "archive"
           \/ /\ row = NoRow
              /\ worker[w].op = "delete" => a # NoArchive
              /\ worker[w].pc # "archive"
    PROVE  Knows(worker[x], row, a)
<1> DEFINE v == worker[w].vm
<1>1. v \in Vms /\ worker[x].pc # "idle"
  BY RequestKnows, IdleHasNoVm
<1>2. Together(worker[w], worker[x])
  BY <1>1 DEF SInv, AloneInv
<1>3. Knows(worker[x], vmrow[v], archive[v])
  BY <1>1, RequestKnows
<1>4. CASE worker[x].op = "delete" /\ worker[w].op = "delete"
  BY <1>2, <1>3, <1>4, KnowsTake DEF Knows, Deletes, Together, NoRow, DeleteKnows, BeforeRowdel
<1>5. CASE worker[x].op = "delshelve" /\ worker[w].op = "delshelve"
  BY <1>3, <1>5, KnowsTake DEF Knows, NoRow, DelshelveKnows
<1>6. QED
  BY <1>2, <1>4, <1>5 DEF Together

\* The steps at which a record or a row comes or goes while others wait.
LEMMA MeetingKeepsS ==
    ASSUME SInv, IInv', Serial, NEW w \in Workers,
           Archive(w) \/ DeleteArchive(w) \/ DeleteRow(w)
    PROVE  SInv'
<1> DEFINE r == worker[w]
           v == worker[w].vm
           row == vmrow[worker[w].vm]
           a == archive[worker[w].vm]
<1>a. r.pc \in {"archive", "ahv_row", "rowdel"}
  BY DEF Archive, DeleteArchive, DeleteRow, At
<1>b. r.pc \notin MakePcs \cup {"idle"}
  BY <1>a DEF MakePcs, SavedPcs
<1>c. /\ \/ r.op \in Deletes /\ DeleteKnows(r, row, a)
         \/ r.op = "shelve" /\ ShelveKnows(r, row)
         \/ r.op = "edit" /\ EditKnows(r, row)
         \/ r.op = "delshelve" /\ DelshelveKnows(r, row)
         \/ r.op = "purge" /\ r.pc \in {"ahv_release", "ahv_disk", "ahv_row"}
      /\ r \in WorkerState /\ v \in Vms /\ row \in VmRow
      /\ RowSized(row)
      /\ \A x \in Vms \ {v} : row.mac_ip = NoIp \/ vmrow[x].mac_ip # row.mac_ip
      /\ a # NoArchive => a.state # "none"
  BY <1>b, TakeAt, RequestKnows DEF SInv, RecordsInv
<1>d. /\ worker \in [Workers -> WorkerState]
      /\ vmrow \in [Vms -> VmRow]
      /\ archive \in [Vms -> ArchiveRow]
  BY DEF SInv, IInv, RowsInv, WorkersInv, StoresInv
<1>e. \A x \in Workers \ {w} : worker[x].vm = v =>
         /\ worker[x].pc # "idle"
         /\ Together(worker[x], r)
         /\ Knows(worker[x], row, a)
  BY <1>c, IdleHasNoVm, RequestKnows DEF SInv, AloneInv
<1>f. NoRow.vm_status = "none" /\ NoRow.mac_ip = NoIp /\ RowSized(NoRow)
  BY DEF NoRow, RowSized
<1>1. CASE Archive(w)
  <2> DEFINE next == IF r.op \in Deletes THEN "undefine" ELSE "rowdel"
             made == [state |-> "released", disk |-> "live", host |-> r.host]
  <2>1. r.pc = "archive" /\ UNCHANGED vmrow
    BY <1>1 DEF Archive, At
  <2>2. r.op \in Deletes \cup {"delshelve"}
    BY <1>c, <2>1 DEF ShelveKnows, EditKnows
  <2>3. NoArchive.state = "none" /\ made.state = "released" /\ made # NoArchive
    BY DEF NoArchive
  <2>4. ASSUME NEW b, b # NoArchive, b.state # "none", archive'[v] = b,
               \A x \in Vms \ {v} : archive'[x] = archive[x],
               worker' = [worker EXCEPT ![w].ahv = b, ![w].pc = next],
               a = NoArchive \/ r.op # "delete"
        PROVE  SInv'
    <3> DEFINE s == [r EXCEPT !.ahv = b, !.pc = next]
    <3>1. worker'[w] = s /\ OnlyAt(w, v)
      BY <1>c, <1>d, <2>1, <2>4 DEF OnlyAt
    <3>2. s.op = r.op /\ s.vm = v /\ s.pc = next /\ next \notin {"idle", "archive"}
      BY <1>c DEF WorkerState
    <3>3. r.op \in Deletes => DeleteKnows(s, row, b)
      BY <1>c, <2>1, <2>4 DEF WorkerState, DeleteKnows, Deletes, BeforeRowdel, Own, OwnSize
    <3>4. r.op = "delshelve" => DelshelveKnows(s, row)
      BY <1>c, <2>1 DEF WorkerState, DelshelveKnows, Deletes
    <3> HIDE DEF s, next
    <3>5. Knows(s, row, b)
      BY <2>2, <3>2, <3>3, <3>4, KnowsTake
    <3>6. \A x \in Workers \ {w} : worker[x].vm = v =>
             Knows(worker[x], row, b) /\ Together(worker[x], s)
      <4> SUFFICES ASSUME NEW x \in Workers \ {w}, worker[x].vm = v
                   PROVE  Knows(worker[x], row, b) /\ Together(worker[x], s)
        OBVIOUS
      <4>1. Knows(worker[x], row, b)
        BY <1>b, <2>4, OthersKnow
      <4>2. worker[x].op = "delete" /\ a = NoArchive => worker[x].pc = "archive"
        BY <1>e DEF Knows, DeleteKnows, Deletes
      <4>3. QED
        BY <1>e, <2>1, <2>4, <3>2, <4>1, <4>2 DEF Together
    <3>7. QED
      BY <1>c, <2>1, <2>4, <3>1, <3>2, <3>5, <3>6, Settled
  <2>5. CASE a = NoArchive
    <3>1. /\ archive' = [archive EXCEPT ![v] = made]
          /\ worker' = [worker EXCEPT ![w].ahv = made, ![w].pc = next]
      BY <1>1, <2>5 DEF Archive
    <3> HIDE DEF made, next
    <3>2. archive'[v] = made /\ \A x \in Vms \ {v} : archive'[x] = archive[x]
      BY <1>c, <1>d, <3>1
    <3>3. QED
      BY <2>3, <2>4, <2>5, <3>1, <3>2
  <2>6. CASE a # NoArchive /\ r.op \in {"delshelve", "force_delete"}
    <3>1. /\ UNCHANGED archive
          /\ worker' = [worker EXCEPT ![w].ahv = a, ![w].pc = next]
      BY <1>1, <2>6 DEF Archive
    <3> HIDE DEF made, next
    <3>2. archive'[v] = a /\ \A x \in Vms \ {v} : archive'[x] = archive[x]
      BY <3>1
    <3>3. QED
      BY <1>c, <2>4, <2>6, <3>1, <3>2
  <2>7. CASE a # NoArchive /\ r.op \notin {"delshelve", "force_delete"}
    BY <1>b, <1>1, <2>1, <2>7, SettledEnd DEF Archive
  <2>8. QED
    BY <2>5, <2>6, <2>7
<1>2. CASE DeleteArchive(w)
  <2>1. /\ r.pc = "ahv_row" /\ UNCHANGED vmrow
        /\ archive' = [archive EXCEPT ![v] = NoArchive]
    BY <1>2 DEF DeleteArchive, At
  <2>2. r.op \in Deletes \/ r.op = "purge"
    BY <1>c, <2>1 DEF ShelveKnows, EditKnows, DelshelveKnows
  <2>3. archive'[v] = NoArchive /\ \A x \in Vms \ {v} : archive'[x] = archive[x]
    BY <1>c, <1>d, <2>1
  <2>4. CASE r.op = "force_delete"
    <3> DEFINE s == [r EXCEPT !.ahv = NoArchive, !.pc = "rowdel"]
    <3>1. worker'[w] = s /\ OnlyAt(w, v)
      BY <1>2, <1>d, <2>1, <2>3, <2>4 DEF DeleteArchive, OnlyAt
    <3>2. s.op = r.op /\ s.vm = v /\ s.pc = "rowdel"
      BY <1>c DEF WorkerState
    <3>3. DeleteKnows(s, row, NoArchive)
      BY <1>c, <2>1, <2>4 DEF WorkerState, DeleteKnows, Deletes, BeforeRowdel, Own, OwnSize
    <3> HIDE DEF s
    <3>4. Knows(s, row, NoArchive)
      BY <2>2, <2>4, <3>2, <3>3, KnowsTake
    <3>5. \A x \in Workers \ {w} : worker[x].vm # v
      BY <1>b, <2>4, NoOther
    <3>6. QED
      BY <1>c, <2>1, <2>3, <3>1, <3>2, <3>4, <3>5, Settled
  <2>5. CASE r.op # "force_delete"
    <3>1. worker'[w] = Idle /\ OnlyAt(w, v)
      BY <1>2, <1>d, <2>1, <2>3, <2>5 DEF DeleteArchive, End, OnlyAt
    <3>2. r.op = "delete" => row.vm_status = "normal"
      BY <1>c, <2>1 DEF DeleteKnows, Deletes, BeforeRowdel, Own
    <3>3. \A x \in Workers \ {w} : worker[x].vm = v => Knows(worker[x], row, NoArchive)
      BY <1>b, <2>1, <2>2, <2>5, <3>2, NoOther, OthersKnow DEF Deletes
    <3>4. QED
      BY <1>c, <2>1, <2>3, <3>1, <3>3, Settled
  <2>6. QED
    BY <2>4, <2>5
<1>3. CASE DeleteRow(w)
  <2> DEFINE pc == IF r.op \in Deletes THEN "uncount" ELSE "rename"
             s  == [r EXCEPT !.pc = pc]
  <2>1. /\ r.pc = "rowdel" /\ UNCHANGED archive
        /\ vmrow' = [vmrow EXCEPT ![v] = NoRow]
    BY <1>3 DEF DeleteRow, At
  <2>2. r.op \in Deletes \/ r.op = "delshelve"
    BY <1>c, <2>1 DEF ShelveKnows, EditKnows
  <2>3. worker'[w] = s /\ OnlyAt(w, v) /\ vmrow'[v] = NoRow
    BY <1>3, <1>c, <1>d, <2>1 DEF DeleteRow, Goto, OnlyAt
  <2>4. s.op = r.op /\ s.vm = v /\ s.pc = pc /\ pc \notin {"idle", "archive"}
    BY <1>c DEF WorkerState
  <2>5. r.op \in Deletes => DeleteKnows(s, NoRow, a)
    BY <1>c, <2>1 DEF WorkerState, DeleteKnows, Deletes, BeforeRowdel, Own, OwnSize
  <2>6. r.op = "delshelve" => DelshelveKnows(s, NoRow)
    BY <1>c, <1>f, <2>1 DEF WorkerState, DelshelveKnows, Deletes
  <2>7. r.op = "delete" => a # NoArchive
    BY <1>c, <2>1 DEF DeleteKnows, Deletes
  <2> HIDE DEF s, pc
  <2>8. Knows(s, NoRow, a)
    BY <2>2, <2>4, <2>5, <2>6, KnowsTake
  <2>9. \A x \in Workers \ {w} : worker[x].vm = v =>
           Knows(worker[x], NoRow, a) /\ Together(worker[x], s)
    <3> SUFFICES ASSUME NEW x \in Workers \ {w}, worker[x].vm = v
                 PROVE  Knows(worker[x], NoRow, a) /\ Together(worker[x], s)
      OBVIOUS
    <3>1. Knows(worker[x], NoRow, a)
      BY <1>b, <2>1, <2>7, OthersKnow
    <3>2. QED
      BY <1>e, <2>1, <2>4, <3>1 DEF Together
  <2>10. QED
    BY <1>c, <1>f, <2>1, <2>3, <2>4, <2>8, <2>9, Settled
<1>4. QED
  BY <1>1, <1>2, <1>3

-----------------------------------------------------------------------------
(* The requests that arrive keep SInv. *)

\* A request arrives at a vm no other works on, or as the second of two deletes
\* or of two deletes of a shelved vm.
LEMMA SettledArrival ==
    ASSUME SInv, IInv', Serial, NEW w \in Workers, NEW v \in Vms, NEW op,
           NEW q \in WorkerState, NEW pc,
           MayStart(w, op, v), Begin(w, q, pc), UNCHANGED <<vmrow, archive>>,
           q.vm = v, q.op = op, pc # "idle", op = "delete" => pc = "archive",
           Knows([q EXCEPT !.pc = pc], vmrow[v], archive[v])
    PROVE  SInv'
<1> DEFINE s == [q EXCEPT !.pc = pc]
<1>1. s.pc = pc /\ s.vm = v /\ s.op = op
  BY DEF WorkerState
<1>2. worker' = [worker EXCEPT ![w] = s]
  BY DEF Begin
<1>3. Knows(s, vmrow[v], archive[v])
  OBVIOUS
<1> HIDE DEF s
<1>4. \A x \in Workers : worker[x].vm = v =>
         worker[x].op = op /\ op \in {"delete", "delshelve"}
  <2> SUFFICES ASSUME NEW x \in Workers, worker[x].vm = v
               PROVE  worker[x].op = op /\ op \in {"delete", "delshelve"}
    OBVIOUS
  <2>1. <<worker[x].op, op>> \in Overlaps
    BY DEF MayStart, Busy
  <2>2. \/ <<worker[x].op, op>> = <<"delete", "delete">>
        \/ <<worker[x].op, op>> = <<"delshelve", "delshelve">>
    BY <2>1 DEF Serial
  <2>3. QED
    BY <2>2
<1>5. \A x \in Workers \ {w} : worker[x].vm = v =>
         Knows(worker[x], vmrow[v], archive[v]) /\ Together(worker[x], s)
  BY <1>1, <1>4, IdleHasNoVm, RequestKnows DEF Together
<1>6. /\ RowSized(vmrow[v])
      /\ \A x \in Vms \ {v} : vmrow[v].mac_ip = NoIp \/ vmrow[x].mac_ip # vmrow[v].mac_ip
      /\ archive[v] # NoArchive => archive[v].state # "none"
  BY DEF SInv, RecordsInv
<1>7. OnlyAt(w, v) /\ worker'[w] = s
  BY <1>2, QuietIsOnlyAt
<1>8. QED
  BY <1>1, <1>3, <1>5, <1>6, <1>7, Settled

\* What a request loads of its row.
LEMMA LoadedFields ==
    ASSUME SInv, NEW v \in Vms, NEW op \in OpKinds
    PROVE  LET q == Loaded(op, v)
           IN  /\ q \in WorkerState
               /\ q.op = op /\ q.vm = v /\ q.row = vmrow[v] /\ q.need = FALSE
               /\ q.host = vmrow[v].host /\ q.ip = vmrow[v].mac_ip
               /\ q.vcpu = vmrow[v].vcpu /\ q.mem = vmrow[v].mem
               /\ vmrow[v] \in VmRow /\ RowSized(vmrow[v])
<1>1. Loaded(op, v) \in WorkerState /\ vmrow[v] \in VmRow /\ RowSized(vmrow[v])
  BY LoadedPlaced DEF SInv, IInv, RowsInv, RecordsInv
<1>2. QED
  BY <1>1 DEF Loaded, Idle

\* A request that arrives knows its row as it is.
LEMMA ArriveKeepsS ==
    ASSUME SInv, IInv', Serial, NEW w \in Workers, Arrive(w)
    PROVE  SInv'
<1>0. Idle \in WorkerState
  BY IdlePlaced
<1>1. ASSUME NEW v \in Vms, NEW c \in VcpuSizes, NEW m \in MemSizes,
             CreateStart(w, v, c, m)
      PROVE  SInv'
  <2> DEFINE q == [Idle EXCEPT !.op = "create", !.vm = v, !.vcpu = c, !.mem = m]
  <2>1. c \in Nat \ {0} /\ m \in Nat \ {0}
    BY VmAssumption
  <2>2. /\ q \in WorkerState /\ q.vm = v /\ q.op = "create"
        /\ q.vcpu = c /\ q.mem = m /\ q.host = NoHost /\ q.ip = NoIp /\ q.need = FALSE
    BY <1>0, <2>1 DEF Idle, WorkerState, OpKinds
  <2>3. MayStart(w, "create", v) /\ UNCHANGED <<vmrow, archive>> /\ vmrow[v] = NoRow
    BY <1>1 DEF CreateStart, Fresh
  <2>4. NoRow.vm_status = "none"
    BY DEF NoRow
  <2> HIDE DEF q
  <2>5. ASSUME NEW i \in Ips,
               Begin(w, [q EXCEPT !.ip = i, !.groups = {IpGroup[i]}], "ip")
        PROVE  SInv'
    <3> DEFINE t == [q EXCEPT !.ip = i, !.groups = {IpGroup[i]}]
               s == [t EXCEPT !.pc = "ip"]
    <3>0. {IpGroup[i]} \in SUBSET Groups
      BY VmAssumption
    <3>1. t \in WorkerState /\ t.vm = v /\ t.op = "create"
      BY <2>2, <3>0 DEF WorkerState
    <3>2. s.op = "create" /\ MakeKnows(s, vmrow[v])
      BY <2>1, <2>2, <2>3, <2>4, VmAssumption
         DEF WorkerState, MakeKnows, MakePcs, SavedPcs
    <3>3. Knows(s, vmrow[v], archive[v])
      <4> HIDE DEF s
      <4>1. QED
        BY <3>2, KnowsMake DEF Makes
    <3> HIDE DEF t
    <3>4. QED
      BY <2>3, <2>5, <3>1, <3>3, SettledArrival DEF t
  <2>6. ASSUME NEW gs \in SUBSET Groups,
               Begin(w, [q EXCEPT !.groups = gs, !.need = TRUE], "pick")
        PROVE  SInv'
    <3> DEFINE t == [q EXCEPT !.groups = gs, !.need = TRUE]
               s == [t EXCEPT !.pc = "pick"]
    <3>1. t \in WorkerState /\ t.vm = v /\ t.op = "create"
      BY <2>2 DEF WorkerState
    <3>2. s.op = "create" /\ MakeKnows(s, vmrow[v])
      BY <2>1, <2>2, <2>3, <2>4 DEF WorkerState, MakeKnows, MakePcs, SavedPcs
    <3>3. Knows(s, vmrow[v], archive[v])
      <4> HIDE DEF s
      <4>1. QED
        BY <3>2, KnowsMake DEF Makes
    <3> HIDE DEF t
    <3>4. QED
      BY <2>3, <2>6, <3>1, <3>3, SettledArrival DEF t
  <2>7. QED
    BY <1>1, <2>5, <2>6 DEF CreateStart, q
<1>2. ASSUME NEW v \in Vms, NEW op \in Deletes, DeleteStart(w, v, op)
      PROVE  SInv'
  <2> DEFINE q0 == Loaded(op, v)
             q == [q0 EXCEPT !.ip_used = used[vmrow[v].mac_ip]]
             s == [q EXCEPT !.pc = "archive"]
  <2>0. op \in OpKinds
    BY DEF OpKinds, Deletes
  <2>a. /\ q0 \in WorkerState /\ q0.op = op /\ q0.vm = v
        /\ q0.row = vmrow[v] /\ q0.need = FALSE
        /\ q0.host = vmrow[v].host /\ q0.ip = vmrow[v].mac_ip
        /\ q0.vcpu = vmrow[v].vcpu /\ q0.mem = vmrow[v].mem
        /\ vmrow[v] \in VmRow /\ RowSized(vmrow[v])
    BY <2>0, LoadedFields
  <2>1. /\ MayStart(w, op, v) /\ UNCHANGED <<vmrow, archive>>
        /\ vmrow[v].vm_status = "normal" /\ Begin(w, q, "archive")
    BY <1>2 DEF DeleteStart
  <2> HIDE DEF q0
  <2>2. vmrow[v].mac_ip \in Ips /\ used[vmrow[v].mac_ip] \in BOOLEAN
    BY <2>1 DEF SInv, IInv, RowsInv, StatusMatchesPlacement, RowPlaced, VmRow,
                StoresInv, IpTypeOK
  <2>3. /\ q \in WorkerState /\ q.vm = v /\ q.op = op
        /\ DeleteKnows(s, vmrow[v], archive[v]) /\ s.op = op
    BY <2>a, <2>1, <2>2
       DEF WorkerState, DeleteKnows, Own, OwnSize, BeforeRowdel, RowSized
  <2>4. Knows(s, vmrow[v], archive[v])
    <3> HIDE DEF s
    <3>1. QED
      BY <2>3, KnowsTake
  <2> HIDE DEF q
  <2>5. QED
    BY <2>1, <2>3, <2>4, SettledArrival
<1>3. ASSUME NEW v \in Vms, ShelveStart(w, v)
      PROVE  SInv'
  <2> DEFINE q0 == Loaded("shelve", v)
             q == [q0 EXCEPT !.ip_used = used[vmrow[v].mac_ip]]
             s == [q EXCEPT !.pc = "undefine"]
  <2>a. /\ q0 \in WorkerState /\ q0.op = "shelve" /\ q0.vm = v
        /\ q0.row = vmrow[v] /\ q0.need = FALSE
        /\ q0.host = vmrow[v].host /\ q0.ip = vmrow[v].mac_ip
        /\ q0.vcpu = vmrow[v].vcpu /\ q0.mem = vmrow[v].mem
        /\ vmrow[v] \in VmRow /\ RowSized(vmrow[v])
    BY LoadedFields DEF OpKinds
  <2>1. /\ MayStart(w, "shelve", v) /\ UNCHANGED <<vmrow, archive>>
        /\ vmrow[v].vm_status = "normal" /\ Begin(w, q, "undefine")
    BY <1>3 DEF ShelveStart
  <2> HIDE DEF q0
  <2>2. vmrow[v].mac_ip \in Ips /\ used[vmrow[v].mac_ip] \in BOOLEAN
    BY <2>1 DEF SInv, IInv, RowsInv, StatusMatchesPlacement, RowPlaced, VmRow,
                StoresInv, IpTypeOK
  <2>3. /\ q \in WorkerState /\ q.vm = v /\ q.op = "shelve"
        /\ ShelveKnows(s, vmrow[v]) /\ s.op = "shelve"
    BY <2>a, <2>1, <2>2 DEF WorkerState, ShelveKnows, Own, OwnSize, RowSized
  <2>4. Knows(s, vmrow[v], archive[v])
    <3> HIDE DEF s
    <3>1. QED
      BY <2>3, KnowsTake
  <2> HIDE DEF q
  <2>5. QED
    BY <2>1, <2>3, <2>4, SettledArrival
<1>4. ASSUME NEW v \in Vms, UnshelveStart(w, v)
      PROVE  SInv'
  <2> DEFINE q0 == Loaded("unshelve", v)
             q == [q0 EXCEPT !.host = NoHost, !.ip = NoIp]
             last == vmrow[v].last_ip
  <2>a. /\ q0 \in WorkerState /\ q0.op = "unshelve" /\ q0.vm = v
        /\ q0.row = vmrow[v] /\ q0.need = FALSE
        /\ q0.host = vmrow[v].host /\ q0.ip = vmrow[v].mac_ip
        /\ q0.vcpu = vmrow[v].vcpu /\ q0.mem = vmrow[v].mem
        /\ vmrow[v] \in VmRow /\ RowSized(vmrow[v])
    BY LoadedFields DEF OpKinds
  <2>1. /\ MayStart(w, "unshelve", v) /\ UNCHANGED <<vmrow, archive>>
        /\ vmrow[v].vm_status = "shelve"
    BY <1>4 DEF UnshelveStart
  <2> HIDE DEF q0
  <2>2. /\ q \in WorkerState /\ q.vm = v /\ q.op = "unshelve" /\ q.need = FALSE
        /\ q.host = NoHost /\ q.ip = NoIp
        /\ q.vcpu = vmrow[v].vcpu /\ q.mem = vmrow[v].mem
        /\ q.vcpu > 0 /\ q.mem > 0 /\ last \in Ips \cup {NoIp}
    BY <2>a, <2>1 DEF WorkerState, RowSized, VmRow
  <2> HIDE DEF q
  <2>3. ASSUME NEW i \in Ips, NEW gs \in SUBSET Groups,
               Begin(w, [q EXCEPT !.ip = i, !.groups = gs], "ip")
        PROVE  SInv'
    <3> DEFINE t == [q EXCEPT !.ip = i, !.groups = gs]
               s == [t EXCEPT !.pc = "ip"]
    <3>1. t \in WorkerState /\ t.vm = v /\ t.op = "unshelve"
      BY <2>2 DEF WorkerState
    <3>2. s.op = "unshelve" /\ MakeKnows(s, vmrow[v])
      BY <2>1, <2>2, VmAssumption DEF WorkerState, MakeKnows, MakePcs, SavedPcs
    <3>3. Knows(s, vmrow[v], archive[v])
      <4> HIDE DEF s
      <4>1. QED
        BY <3>2, KnowsMake DEF Makes
    <3> HIDE DEF t
    <3>4. QED
      BY <2>1, <2>3, <3>1, <3>3, SettledArrival DEF t
  <2>4. ASSUME NEW gs \in SUBSET Groups,
               Begin(w, [q EXCEPT !.groups = gs, !.need = TRUE], "pick")
        PROVE  SInv'
    <3> DEFINE t == [q EXCEPT !.groups = gs, !.need = TRUE]
               s == [t EXCEPT !.pc = "pick"]
    <3>1. t \in WorkerState /\ t.vm = v /\ t.op = "unshelve"
      BY <2>2 DEF WorkerState
    <3>2. s.op = "unshelve" /\ MakeKnows(s, vmrow[v])
      BY <2>1, <2>2 DEF WorkerState, MakeKnows, MakePcs, SavedPcs
    <3>3. Knows(s, vmrow[v], archive[v])
      <4> HIDE DEF s
      <4>1. QED
        BY <3>2, KnowsMake DEF Makes
    <3> HIDE DEF t
    <3>4. QED
      BY <2>1, <2>4, <3>1, <3>3, SettledArrival DEF t
  <2>5. \A i \in Ips : {IpGroup[i]} \in SUBSET Groups
    BY VmAssumption
  <2>6. CASE \E i \in {j \in Ips : IpGroup[j] \notin Denied} :
                \E gs \in {{}, {IpGroup[i]}} :
                   Begin(w, [q EXCEPT !.ip = i, !.groups = gs], "ip")
    BY <2>3, <2>5, <2>6
  <2>7. CASE \E g \in Groups \ Denied :
                Begin(w, [q EXCEPT !.groups = {g}, !.need = TRUE], "pick")
    BY <2>4, <2>7
  <2>8. CASE /\ last # NoIp
             /\ Begin(w, [q EXCEPT !.ip = last, !.groups = {IpGroup[last]}], "ip")
    BY <2>2, <2>3, <2>5, <2>8
  <2>9. QED
    BY <1>4, <2>6, <2>7, <2>8 DEF UnshelveStart, q, q0
<1>5. ASSUME NEW v \in Vms, DelshelveStart(w, v)
      PROVE  SInv'
  <2> DEFINE q == Loaded("delshelve", v)
             s == [q EXCEPT !.pc = "archive"]
  <2>a. /\ q \in WorkerState /\ q.op = "delshelve" /\ q.vm = v
        /\ q.row = vmrow[v] /\ q.need = FALSE
        /\ q.host = vmrow[v].host /\ q.ip = vmrow[v].mac_ip
        /\ q.vcpu = vmrow[v].vcpu /\ q.mem = vmrow[v].mem
        /\ vmrow[v] \in VmRow /\ RowSized(vmrow[v])
    BY LoadedFields DEF OpKinds
  <2>1. /\ MayStart(w, "delshelve", v) /\ UNCHANGED <<vmrow, archive>>
        /\ vmrow[v].vm_status = "shelve" /\ Begin(w, q, "archive")
    BY <1>5 DEF DelshelveStart
  <2>2. /\ q \in WorkerState /\ q.vm = v /\ q.op = "delshelve"
        /\ DelshelveKnows(s, vmrow[v]) /\ s.op = "delshelve"
    BY <2>a, <2>1 DEF WorkerState, DelshelveKnows
  <2>3. Knows(s, vmrow[v], archive[v])
    <3> HIDE DEF s
    <3>1. QED
      BY <2>2, KnowsTake
  <2> HIDE DEF q
  <2>4. QED
    BY <2>1, <2>2, <2>3, SettledArrival
<1>6. ASSUME NEW v \in Vms, NEW c \in VcpuSizes \cup {0}, NEW m \in MemSizes \cup {0},
             EditStart(w, v, c, m)
      PROVE  SInv'
  <2> DEFINE q0 == Loaded("edit", v)
             q == [q0 EXCEPT
                     !.vcpu = IF c > 0 THEN c ELSE @,
                     !.mem  = IF m > 0 THEN m ELSE @]
             s == [q EXCEPT !.pc = "deduct"]
  <2>a. /\ q0 \in WorkerState /\ q0.op = "edit" /\ q0.vm = v
        /\ q0.row = vmrow[v] /\ q0.need = FALSE
        /\ q0.host = vmrow[v].host /\ q0.ip = vmrow[v].mac_ip
        /\ q0.vcpu = vmrow[v].vcpu /\ q0.mem = vmrow[v].mem
        /\ vmrow[v] \in VmRow /\ RowSized(vmrow[v])
    BY LoadedFields DEF OpKinds
  <2>1. /\ MayStart(w, "edit", v) /\ UNCHANGED <<vmrow, archive>>
        /\ vmrow[v].vm_status = "normal" /\ Begin(w, q, "deduct")
    BY <1>6 DEF EditStart
  <2> HIDE DEF q0
  <2>2. c \in Nat /\ m \in Nat
    BY VmAssumption
  <2>3. vmrow[v].vcpu > 0 /\ vmrow[v].mem > 0
    BY <2>a, <2>1 DEF RowSized
  <2>4. /\ q \in WorkerState /\ q.vm = v /\ q.op = "edit"
        /\ EditKnows(s, vmrow[v]) /\ s.op = "edit"
    BY <2>a, <2>1, <2>2, <2>3 DEF WorkerState, EditKnows, Own
  <2>5. Knows(s, vmrow[v], archive[v])
    <3> HIDE DEF s
    <3>1. QED
      BY <2>4, KnowsTake
  <2> HIDE DEF q
  <2>6. QED
    BY <2>1, <2>4, <2>5, SettledArrival
<1>7. ASSUME NEW v \in Vms, PurgeStart(w, v)
      PROVE  SInv'
  <2> DEFINE q == [Idle EXCEPT !.op = "purge", !.vm = v, !.ahv = archive[v]]
             s == [q EXCEPT !.pc = "ahv_release"]
  <2>1. /\ MayStart(w, "purge", v) /\ UNCHANGED <<vmrow, archive>>
        /\ Begin(w, q, "ahv_release")
    BY <1>7 DEF PurgeStart
  <2>2. archive[v] \in ArchiveRow
    BY DEF SInv, IInv, StoresInv
  <2>3. q \in WorkerState /\ q.vm = v /\ q.op = "purge"
    BY <1>0, <2>2 DEF Idle, WorkerState, OpKinds
  <2>4. s.op = "purge" /\ s.pc = "ahv_release"
    BY <2>3 DEF WorkerState
  <2>5. Knows(s, vmrow[v], archive[v])
    <3> HIDE DEF s
    <3>1. QED
      BY <2>4, KnowsTake
  <2> HIDE DEF q
  <2>6. QED
    BY <2>1, <2>3, <2>5, SettledArrival
<1>8. QED
  BY <1>1, <1>2, <1>3, <1>4, <1>5, <1>6, <1>7 DEF Arrive

\* Initially nothing is known of anything.
LEMMA InitSInv == Init => SInv
<1> SUFFICES ASSUME Init
             PROVE  SInv
  OBVIOUS
<1>1. IInv
  BY InitIInv
<1>2. KnowsInv
  BY DEF Init, KnowsInv, At, Idle
<1>3. AloneInv
  BY VmAssumption DEF Init, AloneInv, Idle
<1>4. RecordsInv
  BY DEF Init, RecordsInv, RowSized, NoRow, NoArchive
<1>5. QED
  BY <1>1, <1>2, <1>3, <1>4 DEF SInv

\* Every step keeps SInv.
LEMMA NextSInv ==
    ASSUME Serial
    PROVE  SInv /\ [Next]_vars => SInv'
<1> SUFFICES ASSUME SInv, [Next]_vars
             PROVE  SInv'
  OBVIOUS
<1>0. IInv'
  BY NextIInv DEF SInv
<1>1. CASE UNCHANGED vars
  BY <1>0, <1>1 DEF SInv, KnowsInv, AloneInv, RecordsInv, At, vars
<1>2. ASSUME NEW w \in Workers, Arrive(w) \/ Step(w) \/ Crash(w)
      PROVE  SInv'
  <2>1. CASE Crash(w)
    BY <1>0, <2>1, SettledEnd DEF Crash, At
  <2>2. CASE Arrive(w) \/ Step(w)
    BY <1>0, <2>2, ArriveKeepsS, MakeKeepsS, SaveKeepsS, TakeKeepsS,
       RecordKeepsS, WriteKeepsS, MeetingKeepsS DEF Step
  <2>3. QED
    BY <1>2, <2>1, <2>2
<1>3. QED
  BY <1>1, <1>2 DEF Next

-----------------------------------------------------------------------------
(* What there is of a vm outside the database: its domains and its disk.   *)

\* The condition: besides, no process dies and an archive record that a failed
\* delete takes back can be removed.
Complete == CrashOps = {} /\ "ahv_remove" \notin Failing

\* The hosts that have a domain of v.
DomainOf(v, dom) == {h \in Hosts : v \in dom[h]}

\* What an archive record says of the domain is so: gone, or left where the
\* vm was.
OwedBy(a, D) ==
    /\ a.state = "released" => D = {}
    /\ a.state = "pending" => D \subseteq {a.host}

RecordPcs == {"undefine", "ahv_release", "ahv_disk", "ahv_row"}

\* What a request can rely on: row, a, D and d are the row, the archive
\* record, the domains and the disk of its vm.
Stored(r, row, a, D, d) ==
    /\ r.op \in Makes =>
          /\ a = NoArchive
          /\ D = IF r.pc = "count" THEN {r.host} ELSE {}
          /\ r.op = "create" => d \in {"none", "live"}
    /\ r.op \in Deletes /\ r.pc # "archive" =>
          /\ a = r.ahv
          /\ r.pc \in RecordPcs => D = {r.host} /\ a.state = "released" /\ a.host = r.host
          /\ r.pc \notin RecordPcs => OwedBy(a, D)
    /\ r.op = "shelve" => a = NoArchive /\ D = IF r.pc = "undefine" THEN {r.host} ELSE {}
    /\ r.op = "edit" => a = NoArchive /\ D = {r.host}
    /\ r.op = "delshelve" =>
          /\ D = {}
          /\ r.pc # "archive" \/ row = NoRow => a # NoArchive
          /\ r.pc \in {"rename", "rename_save"} => row = NoRow
    /\ r.op = "purge" =>
          /\ row = NoRow
          /\ a = r.ahv /\ a # NoArchive
          /\ IF r.pc = "ahv_release" THEN OwedBy(a, D) ELSE D = {}
    /\ r.pc = "rename_save" => d = "arch" /\ a # NoArchive /\ a.disk = "live"

\* The request has begun to change what there is of its vm.
Touches(r) == r.pc \notin {"idle", "archive"}

Untouched(v) == \A w \in Workers : Touches(worker[w]) => worker[w].vm # v

\* A vm that no request changes.
AtRest(row, a, D) ==
    /\ row.vm_status = "normal" => D = {row.host}
    /\ row.vm_status = "shelve" => D = {}
    /\ IF row = NoRow THEN OwedBy(a, D) ELSE a = NoArchive

\* The disk has the name that the row or the record stands for, but for the
\* moment in which a request renames it.
DiskNamed(v) ==
    /\ vmrow[v] # NoRow => disk[v] \in {"none", "live"}
    /\ archive[v] # NoArchive =>
          \/ disk[v] \in {"none", archive[v].disk}
          \/ \E w \in Workers : worker[w].pc = "rename_save" /\ worker[w].vm = v

StoredInv ==
    /\ \A w \in Workers :
          worker[w].pc # "idle" =>
             Stored(worker[w], vmrow[worker[w].vm], archive[worker[w].vm],
                    DomainOf(worker[w].vm, domain), disk[worker[w].vm])
    /\ \A v \in Vms : Untouched(v) => AtRest(vmrow[v], archive[v], DomainOf(v, domain))
    /\ \A v \in Vms : DiskNamed(v)
    /\ \A w, x \in Workers :
          worker[w].pc = "rename_save" /\ worker[x].pc = "rename_save" =>
             w = x \/ worker[w].vm # worker[x].vm

-----------------------------------------------------------------------------
(* How a step keeps StoredInv. *)

\* The step is one of w on v: other requests and what there is of other vms
\* stay.
OnlyOf(w, v) ==
    /\ \A x \in Workers \ {w} : worker'[x] = worker[x]
    /\ \A x \in Vms \ {v} : /\ vmrow'[x] = vmrow[x] /\ archive'[x] = archive[x]
                            /\ DomainOf(x, domain') = DomainOf(x, domain)
                            /\ disk'[x] = disk[x]

\* What r can rely on after a step.
StoredNext(r, v) == Stored(r, vmrow'[v], archive'[v], DomainOf(v, domain'), disk'[v])

\* A step of w on v keeps StoredInv if w and the others on v can rely on what
\* there is then, v is as it should be if nobody is left at work on it, and
\* its disk is named.
LEMMA Kept ==
    ASSUME SInv, StoredInv, NEW w \in Workers, NEW v \in Vms,
           worker[w].pc # "idle" => worker[w].vm = v,
           OnlyOf(w, v),
           \/ worker'[w] = Idle
           \/ worker'[w].pc # "idle" /\ worker'[w].vm = v /\ StoredNext(worker'[w], v),
           \A x \in Workers \ {w} : worker[x].vm = v =>
              /\ StoredNext(worker[x], v)
              /\ worker'[w].pc = "rename_save" => worker[x].pc # "rename_save",
           \/ \E x \in Workers \ {w} : Touches(worker[x]) /\ worker[x].vm = v
           \/ Touches(worker'[w])
           \/ AtRest(vmrow'[v], archive'[v], DomainOf(v, domain')),
           vmrow'[v] # NoRow => disk'[v] \in {"none", "live"},
           \/ archive'[v] = NoArchive
           \/ disk'[v] \in {"none", archive'[v].disk}
           \/ worker'[w].pc = "rename_save"
           \/ \E x \in Workers \ {w} : worker[x].pc = "rename_save" /\ worker[x].vm = v
    PROVE  StoredInv'
<1>1. /\ Idle.pc = "idle" /\ Idle.vm = NoVm
      /\ worker'[w].pc # "idle" => worker'[w].vm = v /\ StoredNext(worker'[w], v)
      /\ \A x \in Workers \ {w} : worker'[x] = worker[x]
  BY DEF Idle, OnlyOf
<1>2. /\ \A x \in Vms \ {v} : /\ vmrow'[x] = vmrow[x] /\ archive'[x] = archive[x]
                              /\ DomainOf(x, domain') = DomainOf(x, domain)
                              /\ disk'[x] = disk[x]
  BY DEF OnlyOf
<1>3. ASSUME NEW x \in Workers, worker'[x].pc # "idle"
      PROVE  Stored(worker'[x], vmrow'[worker'[x].vm], archive'[worker'[x].vm],
                    DomainOf(worker'[x].vm, domain'), disk'[worker'[x].vm])
  <2>1. CASE x = w
    BY <1>1, <1>3, <2>1 DEF StoredNext
  <2>2. CASE x # w /\ worker[x].vm = v
    BY <1>1, <2>2 DEF StoredNext
  <2>3. CASE x # w /\ worker[x].vm # v
    BY <1>1, <1>2, <1>3, <2>3, RequestKnows DEF StoredInv
  <2>4. QED
    BY <2>1, <2>2, <2>3
<1>4. ASSUME NEW u \in Vms,
             \A x \in Workers : Touches(worker'[x]) => worker'[x].vm # u
      PROVE  AtRest(vmrow'[u], archive'[u], DomainOf(u, domain'))
  <2>1. CASE u = v
    BY <1>1, <1>4, <2>1 DEF Touches
  <2>2. CASE u # v
    BY <1>1, <1>2, <1>4, <2>2 DEF Touches, StoredInv, Untouched
  <2>3. QED
    BY <2>1, <2>2
<1>5. ASSUME NEW u \in Vms
      PROVE  /\ vmrow'[u] # NoRow => disk'[u] \in {"none", "live"}
             /\ archive'[u] # NoArchive =>
                   \/ disk'[u] \in {"none", archive'[u].disk}
                   \/ \E x \in Workers : worker'[x].pc = "rename_save" /\ worker'[x].vm = u
  <2>1. CASE u = v
    BY <1>1, <2>1
  <2>2. CASE u # v
    <3>1. DiskNamed(u)
      BY DEF StoredInv
    <3>2. ASSUME NEW x \in Workers, worker[x].pc = "rename_save", worker[x].vm = u
          PROVE  worker'[x].pc = "rename_save" /\ worker'[x].vm = u
      BY <1>1, <2>2, <3>2
    <3>3. QED
      BY <1>2, <2>2, <3>1, <3>2 DEF DiskNamed
  <2>3. QED
    BY <2>1, <2>2
<1>6. ASSUME NEW x \in Workers, NEW y \in Workers,
             worker'[x].pc = "rename_save", worker'[y].pc = "rename_save",
             worker'[x].vm = worker'[y].vm
      PROVE  x = y
  BY <1>1, <1>6 DEF StoredInv
<1>7. QED
  BY <1>3, <1>4, <1>5, <1>6 DEF StoredInv, Untouched, DiskNamed

\* What holds of the vm of a request.
LEMMA StoredAt ==
    ASSUME SInv, StoredInv, NEW w \in Workers, worker[w].pc # "idle"
    PROVE  LET r == worker[w]
               v == worker[w].vm
           IN  /\ r \in WorkerState /\ v \in Vms
               /\ Knows(r, vmrow[v], archive[v])
               /\ Stored(r, vmrow[v], archive[v], DomainOf(v, domain), disk[v])
               /\ DiskNamed(v)
               /\ RowSized(vmrow[v])
               /\ archive[v] \in ArchiveRow
               /\ archive[v] # NoArchive => archive[v].state # "none"
<1>1. worker[w].vm \in Vms
  BY RequestKnows
<1>2. QED
  BY <1>1, RequestKnows DEF StoredInv, SInv, RecordsInv

\* A step that only changes the state of the request.
LEMMA KeptQuiet ==
    ASSUME SInv, StoredInv, NEW w \in Workers, NEW s,
           worker[w].pc \notin {"idle", "rename_save"},
           worker' = [worker EXCEPT ![w] = s],
           UNCHANGED <<vmrow, archive, domain, disk>>,
           LET v == worker[w].vm
           IN  IF s = Idle
               THEN Touches(worker[w]) =>
                       AtRest(vmrow[v], archive[v], DomainOf(v, domain))
               ELSE /\ s.vm = v /\ s.pc # "rename_save" /\ Touches(s)
                    /\ Stored(s, vmrow[v], archive[v], DomainOf(v, domain), disk[v])
    PROVE  StoredInv'
<1> DEFINE v == worker[w].vm
<1>1. v \in Vms /\ DiskNamed(v)
  BY StoredAt
<1>2. worker'[w] = s /\ OnlyOf(w, v)
  BY DEF SInv, IInv, WorkersInv, OnlyOf
<1>3. \A x \in Workers \ {w} : worker[x].vm = v => StoredNext(worker[x], v)
  BY <1>1, IdleHasNoVm DEF StoredInv, StoredNext
<1>4. \/ \E x \in Workers \ {w} : Touches(worker[x]) /\ worker[x].vm = v
      \/ Touches(s)
      \/ AtRest(vmrow[v], archive[v], DomainOf(v, domain))
  <2> SUFFICES ASSUME \A x \in Workers \ {w} : Touches(worker[x]) => worker[x].vm # v,
                      s = Idle, ~Touches(worker[w])
               PROVE  AtRest(vmrow[v], archive[v], DomainOf(v, domain))
    OBVIOUS
  <2>1. Untouched(v)
    BY DEF Untouched
  <2>2. QED
    BY <1>1, <2>1 DEF StoredInv
<1>5. /\ vmrow[v] # NoRow => disk[v] \in {"none", "live"}
      /\ \/ archive[v] = NoArchive
         \/ disk[v] \in {"none", archive[v].disk}
         \/ \E x \in Workers \ {w} : worker[x].pc = "rename_save" /\ worker[x].vm = v
  BY <1>1 DEF DiskNamed
<1>6. s = Idle \/ (s.pc # "idle" /\ s.vm = v /\ StoredNext(s, v))
  BY DEF Touches, StoredNext
<1>7. s.pc # "rename_save"
  BY DEF Idle
<1> HIDE DEF v
<1>8. QED
  BY <1>1, <1>2, <1>3, <1>4, <1>5, <1>6, <1>7, Kept DEF v

\* The others on the vm of a request that is at work on it, and does not delete
\* a shelved vm, wait to archive.
LEMMA OthersWait ==
    ASSUME SInv, NEW w \in Workers, Touches(worker[w]), worker[w].op # "delshelve"
    PROVE  \A x \in Workers \ {w} : worker[x].vm = worker[w].vm =>
              worker[x].op = "delete" /\ worker[x].pc = "archive"
<1>1. worker[w].vm \in Vms
  BY RequestKnows DEF Touches
<1>2. QED
  BY <1>1 DEF SInv, AloneInv, Together, Touches

\* A step of a request that is alone at work on its vm.
LEMMA KeptOwn ==
    ASSUME SInv, StoredInv, NEW w \in Workers, NEW v \in Vms,
           worker[w].pc # "idle" => worker[w].vm = v,
           \A x \in Workers \ {w} : worker[x].vm = v =>
              worker[x].op = "delete" /\ worker[x].pc = "archive",
           OnlyOf(w, v),
           IF worker'[w] = Idle
           THEN AtRest(vmrow'[v], archive'[v], DomainOf(v, domain'))
           ELSE worker'[w].vm = v /\ Touches(worker'[w]) /\ StoredNext(worker'[w], v),
           vmrow'[v] # NoRow => disk'[v] \in {"none", "live"},
           \/ archive'[v] = NoArchive
           \/ disk'[v] \in {"none", archive'[v].disk}
           \/ worker'[w].pc = "rename_save"
    PROVE  StoredInv'
<1>1. \A x \in Workers \ {w} : worker[x].vm = v =>
         StoredNext(worker[x], v) /\ worker[x].pc # "rename_save"
  BY DEF StoredNext, Stored, Makes, Deletes
<1>2. \/ worker'[w] = Idle
      \/ worker'[w].pc # "idle" /\ worker'[w].vm = v /\ StoredNext(worker'[w], v)
  BY DEF Touches
<1>3. QED
  BY <1>1, <1>2, Kept

\* A domain is added or removed.
LEMMA DomainsAre ==
    ASSUME SInv, NEW v \in Vms, NEW h
    PROVE  /\ h \in Hosts /\ domain' = [domain EXCEPT ![h] = @ \cup {v}] =>
                 /\ DomainOf(v, domain') = DomainOf(v, domain) \cup {h}
                 /\ \A x \in Vms \ {v} : DomainOf(x, domain') = DomainOf(x, domain)
           /\ domain' = [domain EXCEPT ![h] = @ \ {v}] =>
                 /\ DomainOf(v, domain') = DomainOf(v, domain) \ {h}
                 /\ \A x \in Vms \ {v} : DomainOf(x, domain') = DomainOf(x, domain)
  BY DEF SInv, IInv, StoresInv, DomainOf

\* The types that a step of one request is looked at with.
LEMMA StoresTyped ==
    ASSUME SInv
    PROVE  /\ worker \in [Workers -> WorkerState]
           /\ vmrow \in [Vms -> VmRow]
           /\ archive \in [Vms -> ArchiveRow]
           /\ domain \in [Hosts -> SUBSET Vms]
           /\ disk \in [Vms -> DiskName]
  BY DEF SInv, IInv, RowsInv, WorkersInv, StoresInv

-----------------------------------------------------------------------------
(* The steps of a create or an unshelve keep StoredInv. *)

\* What there is of the vm of a create or an unshelve.
LEMMA MakeStored ==
    ASSUME SInv, StoredInv, NEW w \in Workers, worker[w].pc \in MakePcs
    PROVE  LET r == worker[w]
               v == worker[w].vm
           IN  /\ r.op \in Makes /\ r \in WorkerState /\ v \in Vms
               /\ MakeKnows(r, vmrow[v]) /\ Touches(r)
               /\ archive[v] = NoArchive
               /\ DomainOf(v, domain) = IF r.pc = "count" THEN {r.host} ELSE {}
               /\ r.op = "create" \/ vmrow[v] # NoRow => disk[v] \in {"none", "live"}
               /\ RowSized(vmrow[v])
               /\ \A x \in Workers \ {w} : worker[x].vm # v
<1>1. /\ worker[w].op \in Makes /\ worker[w].pc \notin {"idle", "archive"}
      /\ MakeKnows(worker[w], vmrow[worker[w].vm])
  BY MakeAt
<1>2. worker[w].op \notin {"delete", "delshelve"}
  BY <1>1 DEF Makes
<1>3. \A x \in Workers \ {w} : worker[x].vm # worker[w].vm
  BY <1>1, <1>2, NoOther
<1>4. QED
  BY <1>1, <1>3, StoredAt DEF Stored, DiskNamed, Touches

\* A vm that a create or an unshelve leaves without a domain is at rest.
LEMMA MadeNothing ==
    ASSUME SInv, StoredInv, NEW w \in Workers,
           worker[w].pc \in MakePcs \ SavedPcs
    PROVE  LET v == worker[w].vm
           IN  AtRest(vmrow[v], archive[v], DomainOf(v, domain))
<1>1. worker[w].pc # "count"
  BY DEF SavedPcs
<1>2. QED
  BY <1>1, MakeStored DEF MakeKnows, AtRest, OwedBy, NoArchive, Makes

\* A step that only changes the state of a create or an unshelve.
LEMMA MakeKeptQuiet ==
    ASSUME SInv, StoredInv, NEW w \in Workers, NEW s,
           worker[w].pc \in MakePcs \ {"count"},
           worker' = [worker EXCEPT ![w] = s],
           UNCHANGED <<vmrow, archive, domain, disk>>,
           \/ s = Idle /\ worker[w].pc \notin SavedPcs
           \/ /\ s.vm = worker[w].vm /\ s.op = worker[w].op
              /\ s.pc \in MakePcs \ {"count"}
    PROVE  StoredInv'
<1> DEFINE v == worker[w].vm
<1>1. worker[w].pc \notin {"idle", "rename_save"}
  BY DEF MakePcs, SavedPcs
<1>2. CASE s = Idle /\ worker[w].pc \notin SavedPcs
  BY <1>1, <1>2, MadeNothing, KeptQuiet
<1>3. CASE /\ s.vm = worker[w].vm /\ s.op = worker[w].op
           /\ s.pc \in MakePcs \ {"count"}
  <2>1. s.pc # "rename_save" /\ Touches(s) /\ s # Idle
    BY <1>3 DEF MakePcs, SavedPcs, Touches, Idle
  <2>2. Stored(s, vmrow[v], archive[v], DomainOf(v, domain), disk[v])
    BY <1>3, <2>1, MakeStored DEF Stored, Makes, Deletes
  <2>3. QED
    BY <1>1, <1>3, <2>1, <2>2, KeptQuiet
<1>4. QED
  BY <1>2, <1>3

\* The same for one that only goes to another step, and for one that ends.
LEMMA MakeKeptGoto ==
    ASSUME SInv, StoredInv, NEW w \in Workers, NEW pc \in MakePcs \ {"count"},
           worker[w].pc \in MakePcs \ {"count"}, Goto(w, pc),
           UNCHANGED <<vmrow, archive, domain, disk>>
    PROVE  StoredInv'
<1> DEFINE s == [worker[w] EXCEPT !.pc = pc]
<1>1. worker[w] \in WorkerState
  BY MakeStored
<1>2. s.vm = worker[w].vm /\ s.op = worker[w].op /\ s.pc = pc
  BY <1>1 DEF WorkerState
<1>3. worker' = [worker EXCEPT ![w] = s]
  BY DEF Goto
<1> HIDE DEF s
<1>4. QED
  BY <1>2, <1>3, MakeKeptQuiet

\* The steps that look for a host and an address, and those that give them
\* back.
LEMMA SearchKeepsStored ==
    ASSUME SInv, StoredInv, Serial, NEW w \in Workers,
           \/ ApplyIp(w) \/ PickHost(w) \/ SkipGroup(w) \/ NoGroupLeft(w)
           \/ PickIp(w) \/ NoFreeIp(w) \/ ClaimHost(w) \/ ClaimFails(w)
           \/ ClaimUndo(w) \/ UndoIp(w) \/ UndoHost(w)
    PROVE  StoredInv'
<1> DEFINE r == worker[w]
<1>a. /\ r.pc \in MakePcs \ SavedPcs
      /\ UNCHANGED <<vmrow, archive, domain, disk>>
  BY DEF ApplyIp, PickHost, SkipGroup, NoGroupLeft, PickIp, NoFreeIp, ClaimHost,
         ClaimFails, ClaimUndo, UndoIp, UndoHost, At, MakePcs, SavedPcs
<1>b. r.pc \in MakePcs \ {"count"} /\ r \in WorkerState
  BY <1>a, MakeStored DEF SavedPcs
<1>c. End(w) => StoredInv'
  BY <1>a, <1>b, MakeKeptQuiet DEF End
<1>d. ASSUME NEW pc \in {"pick", "clone", "save", "undo_ip", "undo_host", "undo_disk"},
             Goto(w, pc)
      PROVE  StoredInv'
  BY <1>a, <1>b, <1>d, MakeKeptGoto DEF MakePcs
<1>e. ASSUME NEW s, worker' = [worker EXCEPT ![w] = s],
             s.vm = r.vm, s.op = r.op,
             s.pc \in {"pick", "pick_ip", "claim", "claim_undo"}
      PROVE  StoredInv'
  BY <1>e, <1>a, <1>b, MakeKeptQuiet DEF MakePcs
<1>1. CASE ApplyIp(w) \/ NoGroupLeft(w) \/ ClaimHost(w) \/ UndoIp(w) \/ UndoHost(w)
  BY <1>1, <1>c, <1>d DEF ApplyIp, NoGroupLeft, ClaimHost, UndoIp, UndoHost
<1>2. CASE PickHost(w)
  <2>1. PICK g \in r.groups, h \in Hosts :
           worker' = [worker EXCEPT
              ![w].host = h, ![w].groups = @ \ {g},
              ![w].pc = IF worker[w].need THEN "pick_ip" ELSE "claim"]
    BY <1>2 DEF PickHost
  <2> DEFINE s == [r EXCEPT !.host = h, !.groups = r.groups \ {g},
                            !.pc = IF r.need THEN "pick_ip" ELSE "claim"]
  <2>2. s.vm = r.vm /\ s.op = r.op /\ s.pc \in {"pick_ip", "claim"}
    BY <1>b DEF WorkerState
  <2>3. worker' = [worker EXCEPT ![w] = s]
    BY <2>1
  <2> HIDE DEF s
  <2>4. QED
    BY <1>e, <2>2, <2>3
<1>3. CASE SkipGroup(w)
  <2>1. PICK g \in r.groups : worker' = [worker EXCEPT ![w].groups = @ \ {g}]
    BY <1>3 DEF SkipGroup
  <2> DEFINE s == [r EXCEPT !.groups = @ \ {g}]
  <2>2. s.vm = r.vm /\ s.op = r.op /\ s.pc = "pick"
    BY <1>3, <1>b DEF SkipGroup, At, WorkerState
  <2>3. worker' = [worker EXCEPT ![w] = s]
    BY <2>1
  <2> HIDE DEF s
  <2>4. QED
    BY <1>e, <2>2, <2>3
<1>4. CASE PickIp(w)
  <2>1. PICK i \in Ips : worker' = [worker EXCEPT ![w].ip = i, ![w].pc = "claim"]
    BY <1>4 DEF PickIp
  <2> DEFINE s == [r EXCEPT !.ip = i, !.pc = "claim"]
  <2>2. s.vm = r.vm /\ s.op = r.op /\ s.pc = "claim"
    BY <1>b DEF WorkerState
  <2>3. worker' = [worker EXCEPT ![w] = s]
    BY <2>1
  <2> HIDE DEF s
  <2>4. QED
    BY <1>e, <2>2, <2>3
<1>5. CASE NoFreeIp(w)
  <2> DEFINE s == [r EXCEPT !.host = NoHost, !.pc = "pick"]
  <2>1. s.vm = r.vm /\ s.op = r.op /\ s.pc = "pick"
    BY <1>b DEF WorkerState
  <2>2. worker' = [worker EXCEPT ![w] = s]
    BY <1>5 DEF NoFreeIp
  <2> HIDE DEF s
  <2>3. QED
    BY <1>e, <2>1, <2>2
<1>6. CASE ClaimFails(w)
  <2> DEFINE s == [r EXCEPT !.host = NoHost,
                            !.pc = IF r.need THEN "claim_undo" ELSE "pick"]
  <2>1. s.vm = r.vm /\ s.op = r.op /\ s.pc \in {"claim_undo", "pick"}
    BY <1>b DEF WorkerState
  <2>2. worker' = [worker EXCEPT ![w] = s]
    BY <1>6 DEF ClaimFails
  <2> HIDE DEF s
  <2>3. QED
    BY <1>e, <2>1, <2>2
<1>7. CASE ClaimUndo(w)
  <2> DEFINE s == [r EXCEPT !.ip = NoIp, !.pc = "pick"]
  <2>1. s.vm = r.vm /\ s.op = r.op /\ s.pc = "pick"
    BY <1>b DEF WorkerState
  <2>2. worker' = [worker EXCEPT ![w] = s]
    BY <1>7 DEF ClaimUndo
  <2> HIDE DEF s
  <2>3. QED
    BY <1>e, <2>1, <2>2
<1>8. QED
  BY <1>1, <1>2, <1>3, <1>4, <1>5, <1>6, <1>7

\* The steps that make the row, the disk and the domain, and take them back.
LEMMA MakingKeepsStored ==
    ASSUME SInv, StoredInv, NEW w \in Workers,
           \/ Clone(w) \/ SaveRow(w) \/ Define(w) \/ Unsave(w)
           \/ UndoDisk(w) \/ Count(w)
    PROVE  StoredInv'
<1> DEFINE r == worker[w]
           v == worker[w].vm
<1>a. r.pc \in {"clone", "save", "define", "unsave", "undo_disk", "count"}
  BY DEF Clone, SaveRow, Define, Unsave, UndoDisk, Count, At
<1>b. /\ r.op \in Makes /\ r \in WorkerState /\ v \in Vms
      /\ MakeKnows(r, vmrow[v])
      /\ archive[v] = NoArchive
      /\ DomainOf(v, domain) = IF r.pc = "count" THEN {r.host} ELSE {}
      /\ r.op = "create" \/ vmrow[v] # NoRow => disk[v] \in {"none", "live"}
      /\ RowSized(vmrow[v])
      /\ \A x \in Workers \ {w} : worker[x].vm # v
      /\ r.pc \in MakePcs
  BY <1>a, MakeStored DEF MakePcs, SavedPcs
<1>c. ASSUME NEW pc, pc \in {"save", "define", "unsave", "undo_ip", "count"}, Goto(w, pc),
             /\ UNCHANGED archive
             /\ \A x \in Vms \ {v} : /\ vmrow'[x] = vmrow[x] /\ disk'[x] = disk[x]
                                     /\ DomainOf(x, domain') = DomainOf(x, domain),
             DomainOf(v, domain') = IF pc = "count" THEN {r.host} ELSE {},
             r.op = "create" \/ vmrow'[v] # NoRow => disk'[v] \in {"none", "live"}
      PROVE  StoredInv'
  <2> DEFINE s == [r EXCEPT !.pc = pc]
  <2>1. s.vm = v /\ s.op = r.op /\ s.pc = pc /\ s.host = r.host
    BY <1>b DEF WorkerState
  <2>2. worker' = [worker EXCEPT ![w] = s]
    BY <1>c DEF Goto
  <2> HIDE DEF s
  <2>3. worker'[w] = s /\ OnlyOf(w, v) /\ archive'[v] = NoArchive
    BY <1>b, <1>c, <2>2, StoresTyped DEF OnlyOf
  <2>4. s # Idle /\ Touches(s)
    BY <1>c, <2>1 DEF Idle, Touches
  <2>5. StoredNext(s, v)
    BY <1>b, <1>c, <2>1, <2>3 DEF StoredNext, Stored, Makes, Deletes
  <2>6. QED
    BY <1>b, <1>c, <2>1, <2>3, <2>4, <2>5, KeptOwn
<1>1. CASE Clone(w)
  BY <1>b, <1>c, <1>1, StoresTyped DEF Clone, At
<1>2. CASE SaveRow(w)
  BY <1>b, <1>c, <1>2, StoresTyped DEF SaveRow, At, MakeKnows, Makes, SavedPcs, NoRow
<1>3. CASE Define(w)
  <2>1. r.pc = "define" /\ UNCHANGED <<vmrow, archive, disk>> /\ r.host \in Hosts
    BY <1>3, <1>b DEF Define, At, MakeKnows, SavedPcs, WorkerState
  <2>2. CASE Goto(w, "count") /\ domain' = [domain EXCEPT ![r.host] = @ \cup {v}]
    BY <1>b, <1>c, <2>1, <2>2, DomainsAre
  <2>3. CASE Goto(w, "unsave") /\ UNCHANGED domain
    BY <1>b, <1>c, <2>1, <2>3
  <2>4. QED
    BY <1>3, <2>2, <2>3 DEF Define
<1>4. CASE Unsave(w)
  BY <1>b, <1>c, <1>4, StoresTyped DEF Unsave, At, MakeKnows, SavedPcs, NoRow
<1>5. CASE UndoDisk(w)
  <2>1. /\ r.pc = "undo_disk" /\ UNCHANGED <<vmrow, archive, domain>>
        /\ worker' = [worker EXCEPT ![w] = Idle]
    BY <1>5 DEF UndoDisk, At, End
  <2>2. /\ \A x \in Vms \ {v} : disk'[x] = disk[x]
        /\ vmrow'[v] # NoRow => disk'[v] \in {"none", "live"}
    BY <1>5, <1>b, <2>1, StoresTyped DEF UndoDisk
  <2>3. worker'[w] = Idle /\ OnlyOf(w, v)
    BY <2>1, <2>2, StoresTyped DEF OnlyOf
  <2>4. AtRest(vmrow[v], archive[v], DomainOf(v, domain))
    BY <2>1, MadeNothing DEF MakePcs, SavedPcs
  <2>5. QED
    BY <1>b, <2>1, <2>2, <2>3, <2>4, KeptOwn
<1>6. CASE Count(w)
  <2>1. /\ r.pc = "count" /\ UNCHANGED <<vmrow, archive, domain, disk>>
        /\ worker' = [worker EXCEPT ![w] = Idle]
    BY <1>6 DEF Count, At, End
  <2>2. AtRest(vmrow[v], archive[v], DomainOf(v, domain))
    BY <1>b, <2>1 DEF AtRest, MakeKnows, SavedPcs, NoRow
  <2>3. QED
    BY <2>1, <2>2, KeptQuiet
<1>7. QED
  BY <1>1, <1>2, <1>3, <1>4, <1>5, <1>6

-----------------------------------------------------------------------------
(* The steps of the other requests keep StoredInv. *)

\* What there is of the vm of a request on a vm that exists or existed.
LEMMA TakeStored ==
    ASSUME SInv, StoredInv, NEW w \in Workers, Touches(worker[w]),
           worker[w].pc \notin MakePcs
    PROVE  LET r == worker[w]
               v == worker[w].vm
               row == vmrow[v]
               a == archive[v]
           IN  /\ r \in WorkerState /\ v \in Vms /\ r.pc # "idle"
               /\ \/ r.op \in Deletes /\ DeleteKnows(r, row, a)
                  \/ r.op = "shelve" /\ ShelveKnows(r, row)
                  \/ r.op = "edit" /\ EditKnows(r, row)
                  \/ r.op = "delshelve" /\ DelshelveKnows(r, row)
                  \/ r.op = "purge" /\ r.pc \in {"ahv_release", "ahv_disk", "ahv_row"}
               /\ Stored(r, row, a, DomainOf(v, domain), disk[v])
               /\ RowSized(row) /\ row \in VmRow
               /\ a \in ArchiveRow
               /\ a # NoArchive => a.state # "none"
               /\ row # NoRow => disk[v] \in {"none", "live"}
               /\ DiskNamed(v)
               /\ r.op # "delshelve" =>
                     /\ \A x \in Workers \ {w} : worker[x].vm = v =>
                           worker[x].op = "delete" /\ worker[x].pc = "archive"
                     /\ \/ a = NoArchive
                        \/ r.pc = "rename_save"
                        \/ disk[v] \in {"none", a.disk}
<1>1. worker[w].pc # "idle"
  BY DEF Touches
<1>2. DiskNamed(worker[w].vm)
  BY <1>1, StoredAt
<1>3. worker[w].op # "delshelve" =>
         \A x \in Workers \ {w} : worker[x].vm = worker[w].vm =>
            worker[x].op = "delete" /\ worker[x].pc = "archive"
  BY OthersWait
<1>4. QED
  BY <1>1, <1>2, <1>3, StoredAt, TakeAt, RequestKnows DEF DiskNamed

\* A step that only moves such a request on.
LEMMA TakeKeptGoto ==
    ASSUME SInv, StoredInv, NEW w \in Workers, NEW pc,
           worker[w].pc \notin {"idle", "rename_save"},
           pc \notin {"idle", "archive", "rename_save"},
           Goto(w, pc), UNCHANGED <<vmrow, archive, domain, disk>>,
           LET v == worker[w].vm
           IN  Stored([worker[w] EXCEPT !.pc = pc], vmrow[v], archive[v],
                      DomainOf(v, domain), disk[v])
    PROVE  StoredInv'
<1> DEFINE s == [worker[w] EXCEPT !.pc = pc]
           v == worker[w].vm
<1>1. worker[w] \in WorkerState
  BY StoredAt
<1>2. s.vm = v /\ s.pc = pc
  BY <1>1 DEF WorkerState
<1>3. worker' = [worker EXCEPT ![w] = s]
  BY DEF Goto
<1>4. Stored(s, vmrow[v], archive[v], DomainOf(v, domain), disk[v])
  OBVIOUS
<1> HIDE DEF s
<1>5. s # Idle /\ Touches(s)
  BY <1>2 DEF Idle, Touches
<1>6. QED
  BY <1>2, <1>3, <1>4, <1>5, KeptQuiet

\* The undefine, however it ends, and a request that is refused.
LEMMA UndefineKeepsStored ==
    ASSUME SInv, StoredInv, NEW w \in Workers,
           Refuse(w) \/ Undefine(w) \/ UndefineHostDown(w) \/ UndefineFails(w)
    PROVE  StoredInv'
<1> DEFINE r == worker[w]
           v == worker[w].vm
           row == vmrow[v]
           a == archive[v]
           D == DomainOf(v, domain)
<1>1. CASE r.pc = "archive"
  BY <1>1, KeptQuiet DEF Undefine, UndefineHostDown, UndefineFails, At, Refuse, End, Touches
<1>2. CASE r.pc # "archive"
  <2>a. r.pc \in {"undefine", "deduct"} /\ UNCHANGED <<vmrow, disk>>
    BY <1>2 DEF Refuse, Undefine, UndefineHostDown, UndefineFails, At
  <2>b. Touches(r) /\ r.pc \notin MakePcs
    BY <2>a DEF Touches, MakePcs, SavedPcs
  <2>c. /\ r \in WorkerState /\ v \in Vms
        /\ \/ r.op \in Deletes /\ DeleteKnows(r, row, a)
           \/ r.op = "shelve" /\ ShelveKnows(r, row)
           \/ r.op = "edit" /\ EditKnows(r, row)
        /\ Stored(r, row, a, D, disk[v])
        /\ a \in ArchiveRow /\ row # NoRow
        /\ row # NoRow => disk[v] \in {"none", "live"}
        /\ \A x \in Workers \ {w} : worker[x].vm = v =>
              worker[x].op = "delete" /\ worker[x].pc = "archive"
        /\ a = NoArchive \/ disk[v] \in {"none", a.disk}
    <3>1. r.op \notin {"delshelve", "purge"}
      BY <2>a, <2>b, TakeStored DEF DelshelveKnows, Deletes
    <3>2. row # NoRow
      BY <2>a, <2>b, <3>1, TakeStored
         DEF DeleteKnows, ShelveKnows, EditKnows, Own, BeforeRowdel, NoRow
    <3>3. QED
      BY <2>a, <2>b, <3>1, <3>2, TakeStored
  <2>d. /\ r.op \in Deletes => /\ r.pc = "undefine" /\ D = {r.host} /\ a = r.ahv
                               /\ a.state = "released" /\ a.host = r.host
                               /\ a # NoArchive
        /\ r.op \notin Deletes =>
              /\ D = {r.host} /\ a = NoArchive
              /\ row.vm_status = "normal" /\ row.host = r.host
    <3>1. r.op \in Deletes => r.pc = "undefine"
      BY <2>a, <2>c DEF DeleteKnows, BeforeRowdel, ShelveKnows, EditKnows, Deletes
    <3>2. r.op = "shelve" => r.pc = "undefine"
      BY <2>a, <2>c DEF DeleteKnows, BeforeRowdel, ShelveKnows, EditKnows, Deletes
    <3>3. QED
      BY <2>a, <2>c, <3>1, <3>2
         DEF Stored, RecordPcs, ShelveKnows, EditKnows, Own, NoArchive, Deletes
  <2>e. r.op \notin Deletes => AtRest(row, a, D)
    BY <2>c, <2>d DEF AtRest
  <2>f. End(w) /\ UNCHANGED <<archive, domain>> /\ r.op \notin Deletes => StoredInv'
    BY <2>a, <2>e, KeptQuiet DEF End
  <2>1. CASE Refuse(w)
    BY <2>1, <2>d, <2>f DEF Refuse
  <2>2. CASE Undefine(w)
    <3> DEFINE pc == IF r.op \in Deletes THEN "rowdel" ELSE "free_ip"
               s == [r EXCEPT !.pc = pc]
    <3>1. /\ r.pc = "undefine" /\ UNCHANGED archive
          /\ worker' = [worker EXCEPT ![w] = s]
          /\ domain' = [domain EXCEPT ![r.host] = @ \ {v}]
      BY <2>2 DEF Undefine, At, Goto
    <3>2. /\ s.vm = v /\ s.pc = pc /\ s.op = r.op /\ s.ahv = r.ahv
          /\ pc \in {"rowdel", "free_ip"} /\ (r.op \in Deletes => pc = "rowdel")
      BY <2>c DEF WorkerState
    <3> HIDE DEF s, pc
    <3>3. /\ DomainOf(v, domain') = {}
          /\ \A x \in Vms \ {v} : DomainOf(x, domain') = DomainOf(x, domain)
      BY <2>c, <2>d, <3>1, DomainsAre
    <3>4. worker'[w] = s /\ OnlyOf(w, v)
      BY <2>a, <3>1, <3>3, StoresTyped DEF OnlyOf
    <3>5. s # Idle /\ Touches(s)
      BY <3>2 DEF Idle, Touches
    <3>6. r.op \in Deletes \/ r.op = "shelve"
      BY <2>c, <3>1 DEF EditKnows
    <3>7. StoredNext(s, v)
      BY <2>a, <2>d, <3>1, <3>2, <3>3, <3>6
         DEF StoredNext, Stored, RecordPcs, OwedBy, Makes, Deletes
    <3>8. QED
      BY <2>a, <2>c, <3>1, <3>2, <3>4, <3>5, <3>7, KeptOwn
  <2>3. CASE UndefineHostDown(w)
    <3>1. CASE r.op \notin Deletes
      BY <2>3, <3>1, <2>f DEF UndefineHostDown
    <3>2. CASE r.op \in Deletes
      <4> DEFINE s == [r EXCEPT !.ahv.state = "pending", !.pc = "rowdel"]
                 b == IF a = NoArchive THEN a ELSE [a EXCEPT !.state = "pending"]
      <4>1. /\ UNCHANGED domain
            /\ worker' = [worker EXCEPT ![w] = s]
            /\ archive' = [archive EXCEPT ![v] = b]
        BY <2>3, <3>2 DEF UndefineHostDown
      <4>2. s.vm = v /\ s.pc = "rowdel" /\ s.op = r.op /\ s.ahv = b
        BY <2>c, <2>d, <3>2 DEF WorkerState
      <4>3. b.state = "pending" /\ b.host = a.host /\ b.disk = a.disk
        BY <2>c, <2>d, <3>2 DEF ArchiveRow
      <4> HIDE DEF s, b
      <4>4. worker'[w] = s /\ OnlyOf(w, v) /\ archive'[v] = b
        BY <2>a, <2>c, <4>1, StoresTyped DEF OnlyOf
      <4>5. s # Idle /\ Touches(s)
        BY <4>2 DEF Idle, Touches
      <4>6. StoredNext(s, v)
        BY <2>a, <2>d, <3>2, <4>1, <4>2, <4>3, <4>4
           DEF StoredNext, Stored, RecordPcs, OwedBy, Makes, Deletes
      <4>7. QED
        BY <2>a, <2>c, <2>d, <3>2, <4>2, <4>3, <4>4, <4>5, <4>6, KeptOwn
    <3>3. QED
      BY <3>1, <3>2
  <2>4. CASE UndefineFails(w)
    <3>1. CASE r.op \notin Deletes
      BY <2>4, <3>1, <2>f DEF UndefineFails
    <3>2. CASE r.op \in Deletes
      <4>1. Goto(w, "ahv_release") /\ UNCHANGED <<vmrow, archive, domain, disk>>
        BY <2>4, <3>2 DEF UndefineFails
      <4>2. Stored([r EXCEPT !.pc = "ahv_release"], row, a, D, disk[v])
        BY <2>c, <2>d, <3>2 DEF WorkerState, Stored, RecordPcs, Makes, Deletes
      <4>3. QED
        BY <2>a, <4>1, <4>2, TakeKeptGoto
    <3>3. QED
      BY <3>1, <3>2
  <2>5. QED
    BY <2>1, <2>2, <2>3, <2>4
<1>3. QED
  BY <1>1, <1>2

\* The removal of an archive record, by a delete that failed or from the
\* administration pages.
LEMMA RemovalKeepsStored ==
    ASSUME SInv, StoredInv, Complete, NEW w \in Workers,
           ReleaseHost(w) \/ RemoveDisk(w) \/ DeleteArchive(w)
    PROVE  StoredInv'
<1> DEFINE r == worker[w]
           v == worker[w].vm
           row == vmrow[v]
           a == archive[v]
           D == DomainOf(v, domain)
<1>a. r.pc \in {"ahv_release", "ahv_disk", "ahv_row"} /\ UNCHANGED vmrow
  BY DEF ReleaseHost, RemoveDisk, DeleteArchive, At
<1>b. Touches(r) /\ r.pc \notin MakePcs
  BY <1>a DEF Touches, MakePcs, SavedPcs
<1>c. /\ r \in WorkerState /\ v \in Vms
      /\ (r.op \in Deletes /\ DeleteKnows(r, row, a)) \/ r.op = "purge"
      /\ Stored(r, row, a, D, disk[v])
      /\ a \in ArchiveRow /\ a # NoArchive /\ a.state # "none" /\ a = r.ahv
      /\ row # NoRow => disk[v] \in {"none", "live"}
      /\ \A x \in Workers \ {w} : worker[x].vm = v =>
            worker[x].op = "delete" /\ worker[x].pc = "archive"
      /\ disk[v] \in {"none", a.disk}
  <2>1. (r.op \in Deletes /\ DeleteKnows(r, row, a)) \/ r.op = "purge"
    BY <1>a, <1>b, TakeStored DEF ShelveKnows, EditKnows, DelshelveKnows
  <2>2. a # NoArchive /\ a = r.ahv
    <3>1. Stored(r, row, a, D, disk[v])
      BY <1>b, TakeStored
    <3>2. QED
      BY <1>a, <2>1, <3>1 DEF Stored, RecordPcs, NoArchive
  <2>3. r.op # "delshelve" /\ r.pc # "rename_save"
    BY <1>a, <2>1 DEF Deletes
  <2>4. QED
    BY <1>b, <2>1, <2>2, <2>3, TakeStored
<1>d. /\ r.op \in Deletes => /\ D = {r.host} /\ a.state = "released" /\ a.host = r.host
                             /\ row.vm_status = "normal" /\ row.host = r.host
      /\ r.op = "purge" => /\ row = NoRow
                           /\ IF r.pc = "ahv_release" THEN OwedBy(a, D) ELSE D = {}
  BY <1>a, <1>c DEF Stored, RecordPcs, DeleteKnows, BeforeRowdel, Own, Deletes
<1>1. CASE ReleaseHost(w)
  <2>1. CASE r.ahv.state = "pending" /\ End(w) /\ UNCHANGED <<archive, domain>>
    <3>1. r.pc = "ahv_release" /\ r.ahv.state = "pending" /\ UNCHANGED disk
      BY <1>1, <2>1 DEF ReleaseHost, At
    <3>2. AtRest(row, a, D)
      BY <1>c, <1>d, <3>1 DEF AtRest, NoRow
    <3>3. QED
      BY <1>a, <2>1, <3>1, <3>2, KeptQuiet DEF End
  <2>2. CASE ~(r.ahv.state = "pending" /\ End(w) /\ UNCHANGED <<archive, domain>>)
    <3> DEFINE s == [r EXCEPT !.ahv.state = "released", !.pc = "ahv_disk"]
               b == IF a = NoArchive THEN a ELSE [a EXCEPT !.state = "released"]
    <3>0. /\ r.pc = "ahv_release" /\ UNCHANGED disk
          /\ domain' = IF r.ahv.state = "pending"
                       THEN [domain EXCEPT ![r.ahv.host] = @ \ {v}]
                       ELSE domain
          /\ worker' = [worker EXCEPT ![w] = s]
          /\ archive' = [archive EXCEPT ![v] = b]
      BY <1>1, <2>2 DEF ReleaseHost, At
    <3>1. domain' = IF a.state = "pending"
                    THEN [domain EXCEPT ![a.host] = @ \ {v}]
                    ELSE domain
      BY <1>c, <3>0
    <3>2. s.vm = v /\ s.pc = "ahv_disk" /\ s.op = r.op /\ s.ahv = b /\ s.host = r.host
      BY <1>c DEF WorkerState
    <3>3. b.state = "released" /\ b.host = a.host /\ b.disk = a.disk
      BY <1>c DEF ArchiveRow
    <3> HIDE DEF s, b
    <3>4. /\ DomainOf(v, domain') = IF r.op \in Deletes THEN {r.host} ELSE {}
          /\ \A x \in Vms \ {v} : DomainOf(x, domain') = DomainOf(x, domain)
      <4>1. CASE a.state = "pending"
        <5>1. r.op = "purge" /\ D \subseteq {a.host} /\ r.op \notin Deletes
          BY <1>c, <1>d, <3>0, <3>1, <4>1 DEF OwedBy, Deletes
        <5>2. domain' = [domain EXCEPT ![a.host] = @ \ {v}]
          BY <3>1, <4>1
        <5>3. /\ DomainOf(v, domain') = D \ {a.host}
              /\ \A x \in Vms \ {v} : DomainOf(x, domain') = DomainOf(x, domain)
          BY <1>c, <5>2, DomainsAre
        <5>4. QED
          BY <5>1, <5>3
      <4>2. CASE a.state # "pending"
        BY <1>c, <1>d, <3>0, <3>1, <4>2 DEF ArchiveRow, OwedBy
      <4>3. QED
        BY <4>1, <4>2
    <3>5. worker'[w] = s /\ OnlyOf(w, v) /\ archive'[v] = b
      BY <1>a, <1>c, <3>0, <3>1, <3>4, StoresTyped DEF OnlyOf
    <3>6. s # Idle /\ Touches(s) /\ b # NoArchive
      BY <3>2, <3>3 DEF Idle, Touches, NoArchive
    <3>7. StoredNext(s, v)
      <4>1. vmrow'[v] = row /\ archive'[v] = b
        BY <1>a, <3>5
      <4>2. CASE r.op \in Deletes
        BY <1>d, <3>2, <3>3, <3>4, <4>1, <4>2 DEF StoredNext, Stored, RecordPcs, Makes, Deletes
      <4>3. CASE r.op = "purge"
        BY <1>d, <3>2, <3>4, <3>6, <4>1, <4>3 DEF Deletes, StoredNext, Stored, Makes
      <4>4. QED
        BY <1>c, <4>2, <4>3
    <3>8. QED
      BY <1>a, <1>c, <3>0, <3>1, <3>2, <3>3, <3>5, <3>6, <3>7, KeptOwn
  <2>3. QED
    BY <2>1, <2>2
<1>2. CASE RemoveDisk(w)
  <2> DEFINE s == [r EXCEPT !.ahv.disk = "none", !.pc = "ahv_row"]
             b == [a EXCEPT !.disk = "none"]
  <2>1. /\ r.pc = "ahv_disk" /\ UNCHANGED domain
        /\ disk' = [disk EXCEPT ![v] = IF @ = a.disk THEN "none" ELSE @]
        /\ worker' = [worker EXCEPT ![w] = s]
        /\ archive' = [archive EXCEPT ![v] = b]
    BY <1>2, <1>c DEF RemoveDisk, At, Complete, MayFail
  <2>2. s.vm = v /\ s.pc = "ahv_row" /\ s.op = r.op /\ s.ahv = b /\ s.host = r.host
    BY <1>c DEF WorkerState
  <2>3. b.state = a.state /\ b.host = a.host
    BY <1>c DEF ArchiveRow
  <2> HIDE DEF s, b
  <2>4. disk'[v] = "none" /\ \A x \in Vms \ {v} : disk'[x] = disk[x]
    BY <1>c, <2>1, StoresTyped
  <2>5. worker'[w] = s /\ OnlyOf(w, v) /\ archive'[v] = b
    BY <1>a, <1>c, <2>1, <2>4, StoresTyped DEF OnlyOf
  <2>6. s # Idle /\ Touches(s) /\ b # NoArchive
    BY <1>c, <2>2, <2>3 DEF Idle, Touches, NoArchive
  <2>7. StoredNext(s, v)
    BY <1>a, <1>c, <1>d, <2>1, <2>2, <2>3, <2>5, <2>6
       DEF StoredNext, Stored, RecordPcs, Makes, Deletes
  <2>8. QED
    BY <1>a, <1>c, <2>2, <2>4, <2>5, <2>6, <2>7, KeptOwn
<1>3. CASE DeleteArchive(w)
  <2>1. /\ r.pc = "ahv_row" /\ UNCHANGED <<domain, disk>>
        /\ archive' = [archive EXCEPT ![v] = NoArchive]
    BY <1>3 DEF DeleteArchive, At
  <2>2. CASE r.op = "force_delete"
    <3> DEFINE s == [r EXCEPT !.ahv = NoArchive, !.pc = "rowdel"]
    <3>1. worker' = [worker EXCEPT ![w] = s]
      BY <1>3, <2>2 DEF DeleteArchive
    <3>2. s.vm = v /\ s.pc = "rowdel" /\ s.op = r.op /\ s.ahv = NoArchive
      BY <1>c DEF WorkerState
    <3> HIDE DEF s
    <3>3. worker'[w] = s /\ OnlyOf(w, v) /\ archive'[v] = NoArchive
      BY <1>a, <1>c, <2>1, <3>1, StoresTyped DEF OnlyOf
    <3>4. s # Idle /\ Touches(s)
      BY <3>2 DEF Idle, Touches
    <3>5. StoredNext(s, v)
      BY <2>2, <3>2, <3>3
         DEF StoredNext, Stored, RecordPcs, OwedBy, NoArchive, Makes, Deletes
    <3>6. QED
      BY <1>a, <1>c, <2>1, <3>2, <3>3, <3>4, <3>5, KeptOwn
  <2>3. CASE r.op # "force_delete"
    <3>1. worker' = [worker EXCEPT ![w] = Idle]
      BY <1>3, <2>3 DEF DeleteArchive, End
    <3>2. worker'[w] = Idle /\ OnlyOf(w, v) /\ archive'[v] = NoArchive
      BY <1>a, <1>c, <2>1, <3>1, StoresTyped DEF OnlyOf
    <3>3. AtRest(row, NoArchive, D)
      BY <1>c, <1>d, <2>1 DEF AtRest, OwedBy, NoArchive, NoRow
    <3>4. QED
      BY <1>a, <1>c, <2>1, <3>2, <3>3, KeptOwn
  <2>4. QED
    BY <2>2, <2>3
<1>4. QED
  BY <1>1, <1>2, <1>3

\* The steps that give back what the vm had.
LEMMA ReturnKeepsStored ==
    ASSUME SInv, StoredInv, NEW w \in Workers,
           Uncount(w) \/ FreeIp(w) \/ FreeHost(w) \/ ShelveSave(w)
    PROVE  StoredInv'
<1> DEFINE r == worker[w]
           v == worker[w].vm
           row == vmrow[v]
           a == archive[v]
           D == DomainOf(v, domain)
<1>a. r.pc \in {"uncount", "free_ip", "free_host", "shelve_save"}
      /\ UNCHANGED <<archive, domain, disk>>
  BY DEF Uncount, FreeIp, FreeHost, ShelveSave, At
<1>b. Touches(r) /\ r.pc \notin MakePcs
  BY <1>a DEF Touches, MakePcs, SavedPcs
<1>c. /\ r \in WorkerState /\ v \in Vms
      /\ \/ r.op \in Deletes
         \/ r.op = "shelve" /\ ShelveKnows(r, row)
      /\ Stored(r, row, a, D, disk[v])
      /\ row \in VmRow
      /\ r.pc = "shelve_save" => r.op = "shelve"
  BY <1>a, <1>b, TakeStored DEF DeleteKnows, EditKnows, DelshelveKnows, BeforeRowdel
<1>1. CASE ShelveSave(w)
  <2>1. r.op = "shelve" /\ r.pc = "shelve_save" /\ UNCHANGED <<archive, domain, disk>>
    BY <1>1, <1>a, <1>c DEF ShelveSave, At
  <2>2. r.op \notin Deletes /\ r.op # "delshelve"
    BY <2>1 DEF Deletes
  <2>3. row.vm_status = "normal" /\ row # NoRow
    BY <1>c, <2>2 DEF ShelveKnows, Own, NoRow
  <2>4. a = NoArchive /\ D = {}
    BY <1>c, <2>1 DEF Stored
  <2> DEFINE new == IF row = NoRow
                    THEN row
                    ELSE [row EXCEPT !.vm_status = "shelve", !.host = NoHost,
                                     !.mac_ip = NoIp, !.last_ip = r.ip]
  <2>5. /\ vmrow' = [vmrow EXCEPT ![v] = new]
        /\ worker' = [worker EXCEPT ![w] = Idle]
    BY <1>1 DEF ShelveSave, End
  <2>6. new.vm_status = "shelve"
    <3>1. ASSUME NEW x \in VmRow, x # NoRow
          PROVE  [x EXCEPT !.vm_status = "shelve", !.host = NoHost,
                           !.mac_ip = NoIp, !.last_ip = r.ip].vm_status = "shelve"
      BY <3>1 DEF VmRow
    <3>2. new = [row EXCEPT !.vm_status = "shelve", !.host = NoHost,
                            !.mac_ip = NoIp, !.last_ip = r.ip]
      BY <2>3
    <3>3. row \in VmRow
      BY <1>c
    <3> HIDE DEF new
    <3>4. QED
      BY <2>3, <3>1, <3>2, <3>3
  <2> HIDE DEF new
  <2>7. new # NoRow
    BY <2>6 DEF NoRow
  <2>8. worker'[w] = Idle /\ OnlyOf(w, v) /\ vmrow'[v] = new
    BY <1>c, <2>1, <2>5, StoresTyped DEF OnlyOf
  <2>9. AtRest(new, a, D)
    BY <2>4, <2>6, <2>7 DEF AtRest
  <2>10. /\ \A x \in Workers \ {w} : worker[x].vm = v =>
               worker[x].op = "delete" /\ worker[x].pc = "archive"
         /\ disk[v] \in {"none", "live"}
    BY <1>b, <2>2, <2>3, TakeStored
  <2>11. QED
    BY <1>c, <2>1, <2>4, <2>8, <2>9, <2>10, KeptOwn
<1>2. CASE Uncount(w) \/ FreeIp(w) \/ FreeHost(w)
  <2>1. /\ r.pc # "shelve_save"
        /\ UNCHANGED <<vmrow, archive, domain, disk>>
    BY <1>2, <1>a DEF Uncount, FreeIp, FreeHost, At
  <2>2. PICK pc \in {"free_ip", "shelve_save", "free_host", "rename", "uncount"} :
           Goto(w, pc)
    BY <1>2 DEF Uncount, FreeIp, FreeHost
  <2>3. Stored([r EXCEPT !.pc = pc], row, a, D, disk[v])
    BY <1>a, <1>c, <2>1, <2>2 DEF WorkerState, Stored, RecordPcs, Makes, Deletes
  <2>4. pc \notin {"idle", "archive", "rename_save"}
    BY <2>2
  <2>5. QED
    BY <1>a, <2>1, <2>2, <2>3, <2>4, TakeKeptGoto
<1>3. QED
  BY <1>1, <1>2

\* The steps of a change of size: the domain stays where it is.
LEMMA EditKeepsStored ==
    ASSUME SInv, StoredInv, NEW w \in Workers,
           \/ Deduct(w) \/ Redefine(w) \/ RedefineFails(w) \/ EditSave(w)
           \/ EditUndo(w) \/ EditRedefine(w)
    PROVE  StoredInv'
<1> DEFINE r == worker[w]
           v == worker[w].vm
           row == vmrow[v]
           a == archive[v]
           D == DomainOf(v, domain)
<1>a. r.pc \in {"deduct", "redefine", "edit_save", "edit_undo", "save_undo", "edit_redefine"}
      /\ UNCHANGED <<archive, disk>>
  BY DEF Deduct, Redefine, RedefineFails, EditSave, EditUndo, EditRedefine, At
<1>b. Touches(r) /\ r.pc \notin MakePcs
  BY <1>a DEF Touches, MakePcs, SavedPcs
<1>c. /\ r \in WorkerState /\ v \in Vms
      /\ r.op = "edit" /\ EditKnows(r, row)
      /\ Stored(r, row, a, D, disk[v])
      /\ row \in VmRow /\ RowSized(row)
      /\ row # NoRow => disk[v] \in {"none", "live"}
  BY <1>a, <1>b, TakeStored DEF DeleteKnows, ShelveKnows, DelshelveKnows, BeforeRowdel
<1>d. /\ row = r.row /\ row.vm_status = "normal" /\ row.host = r.host /\ row # NoRow
      /\ row.mac_ip = r.ip
      /\ a = NoArchive /\ D = {r.host}
      /\ r.pc \in {"deduct", "redefine", "edit_save", "edit_undo"}
  BY <1>c DEF EditKnows, Own, NoRow, Stored
<1>e. AtRest(row, a, D)
  BY <1>d DEF AtRest
<1>f. End(w) /\ UNCHANGED <<vmrow, domain>> => StoredInv'
  BY <1>a, <1>e, KeptQuiet DEF End
<1>g. ASSUME NEW pc \in {"redefine", "edit_save", "edit_undo"}, Goto(w, pc),
             UNCHANGED <<vmrow, domain>>
      PROVE  StoredInv'
  BY <1>c, <1>d, <1>a, <1>g, TakeKeptGoto DEF WorkerState, Stored, Makes, Deletes
<1>1. CASE Deduct(w)
  BY <1>1, <1>f, <1>g DEF Deduct
<1>2. CASE Redefine(w)
  <2> DEFINE s == [r EXCEPT !.pc = "edit_save"]
  <2>1. /\ domain' = [domain EXCEPT ![r.host] = @ \cup {v}]
        /\ worker' = [worker EXCEPT ![w] = s]
        /\ UNCHANGED <<vmrow, archive, disk>>
    BY <1>2 DEF Redefine, Goto
  <2>2. s.vm = v /\ s.pc = "edit_save" /\ s.op = r.op /\ s.host = r.host
    BY <1>c DEF WorkerState
  <2> HIDE DEF s
  <2>3. r.host \in Hosts
    BY <1>d DEF DomainOf
  <2>4. /\ DomainOf(v, domain') = D
        /\ \A x \in Vms \ {v} : DomainOf(x, domain') = DomainOf(x, domain)
    BY <1>c, <1>d, <2>1, <2>3, DomainsAre
  <2>5. worker'[w] = s /\ OnlyOf(w, v)
    BY <1>c, <2>1, <2>4, StoresTyped DEF OnlyOf
  <2>6. s # Idle /\ Touches(s)
    BY <2>2 DEF Idle, Touches
  <2>7. StoredNext(s, v)
    BY <1>c, <1>d, <2>1, <2>2, <2>4 DEF StoredNext, Stored, Makes, Deletes
  <2>8. \A x \in Workers \ {w} : worker[x].vm = v =>
           worker[x].op = "delete" /\ worker[x].pc = "archive"
    BY <1>b, <1>c, TakeStored
  <2>9. QED
    BY <1>c, <1>d, <2>1, <2>2, <2>5, <2>6, <2>7, <2>8, KeptOwn
<1>3. CASE RedefineFails(w)
  BY <1>3, <1>g DEF RedefineFails
<1>4. CASE EditSave(w)
  <2> DEFINE new == [r.row EXCEPT !.vcpu = r.vcpu, !.mem = r.mem]
  <2>1. \A x \in Vms \ {v} : vmrow[x].mac_ip # r.ip
    BY <1>c, <1>d DEF SInv, IInv, RowsInv, StatusMatchesPlacement, RowPlaced, RecordsInv
  <2>2. /\ vmrow' = [vmrow EXCEPT ![v] = new]
        /\ worker' = [worker EXCEPT ![w] = Idle]
        /\ UNCHANGED <<archive, domain, disk>>
    BY <1>4, <2>1 DEF EditSave, End
  <2>3. new.vm_status = "normal" /\ new.host = r.host
    BY <1>c, <1>d DEF VmRow
  <2>4. new # NoRow
    BY <2>3 DEF NoRow
  <2> HIDE DEF new
  <2>5. worker'[w] = Idle /\ OnlyOf(w, v) /\ vmrow'[v] = new
    BY <1>c, <2>2, StoresTyped DEF OnlyOf
  <2>6. AtRest(new, a, D)
    BY <1>d, <2>3, <2>4 DEF AtRest
  <2>7. \A x \in Workers \ {w} : worker[x].vm = v =>
           worker[x].op = "delete" /\ worker[x].pc = "archive"
    BY <1>b, <1>c, TakeStored
  <2>8. QED
    BY <1>c, <1>d, <2>2, <2>5, <2>6, <2>7, KeptOwn
<1>5. CASE EditUndo(w)
  BY <1>d, <1>f, <1>5 DEF EditUndo, At
<1>6. CASE EditRedefine(w)
  BY <1>6, <1>d DEF EditRedefine, At
<1>7. QED
  BY <1>1, <1>2, <1>3, <1>4, <1>5, <1>6

\* Who is on the vm of a delete of a shelved vm is another one.
LEMMA ShelvedOthers ==
    ASSUME SInv, StoredInv, NEW w \in Workers, worker[w].pc # "idle",
           worker[w].op = "delshelve",
           NEW x \in Workers \ {w}, worker[x].vm = worker[w].vm
    PROVE  LET v == worker[w].vm
           IN  /\ worker[x].op = "delshelve" /\ worker[x].pc # "idle"
               /\ Stored(worker[x], vmrow[v], archive[v], DomainOf(v, domain), disk[v])
<1>1. worker[w].vm \in Vms /\ worker[x].pc # "idle"
  BY RequestKnows, IdleHasNoVm
<1>2. QED
  BY <1>1 DEF SInv, AloneInv, Together, StoredInv

\* The deletion of the row.
LEMMA RowdelKeepsStored ==
    ASSUME SInv, StoredInv, NEW w \in Workers, DeleteRow(w)
    PROVE  StoredInv'
<1> DEFINE r == worker[w]
           v == worker[w].vm
           row == vmrow[v]
           a == archive[v]
           D == DomainOf(v, domain)
           pc == IF r.op \in Deletes THEN "uncount" ELSE "rename"
           s == [r EXCEPT !.pc = pc]
<1>1. /\ r.pc = "rowdel" /\ UNCHANGED <<archive, domain, disk>>
      /\ vmrow' = [vmrow EXCEPT ![v] = NoRow]
      /\ worker' = [worker EXCEPT ![w] = s]
  BY DEF DeleteRow, At, Goto
<1>2. Touches(r) /\ r.pc \notin MakePcs /\ r.pc # "idle"
  BY <1>1 DEF Touches, MakePcs, SavedPcs
<1>3. /\ r \in WorkerState /\ v \in Vms
      /\ r.op \in Deletes \/ r.op = "delshelve"
      /\ Stored(r, row, a, D, disk[v])
  BY <1>1, <1>2, TakeStored DEF ShelveKnows, EditKnows
<1>4. /\ s.vm = v /\ s.pc = pc /\ s.op = r.op /\ s.ahv = r.ahv
      /\ pc \in {"uncount", "rename"}
  BY <1>3 DEF WorkerState
<1> HIDE DEF s, pc
<1>5. worker'[w] = s /\ OnlyOf(w, v) /\ vmrow'[v] = NoRow
  BY <1>1, <1>3, StoresTyped DEF OnlyOf
<1>6. s # Idle /\ Touches(s) /\ s.pc \notin {"idle", "rename_save"}
  BY <1>4 DEF Idle, Touches
<1>7. StoredNext(s, v)
  BY <1>1, <1>3, <1>4, <1>5 DEF StoredNext, Stored, RecordPcs, Makes, Deletes
<1>8. CASE r.op # "delshelve"
  BY <1>1, <1>2, <1>3, <1>4, <1>5, <1>6, <1>7, <1>8, TakeStored, KeptOwn
<1>9. CASE r.op = "delshelve"
  <2>1. D = {} /\ a # NoArchive
    BY <1>1, <1>3, <1>9 DEF Stored
  <2>2. \A x \in Workers \ {w} : worker[x].vm = v => StoredNext(worker[x], v)
    <3> SUFFICES ASSUME NEW x \in Workers \ {w}, worker[x].vm = v
                 PROVE  StoredNext(worker[x], v)
      OBVIOUS
    <3>1. /\ worker[x].op = "delshelve"
          /\ Stored(worker[x], row, a, D, disk[v])
      BY <1>2, <1>9, ShelvedOthers
    <3>2. QED
      BY <1>1, <1>5, <2>1, <3>1 DEF StoredNext, Stored, Makes, Deletes
  <2>3. \/ disk[v] \in {"none", a.disk}
        \/ \E x \in Workers \ {w} : worker[x].pc = "rename_save" /\ worker[x].vm = v
    BY <1>1, <1>2, <2>1, TakeStored DEF DiskNamed
  <2>4. QED
    BY <1>1, <1>3, <1>4, <1>5, <1>6, <1>7, <2>2, <2>3, Kept
<1>10. QED
  BY <1>8, <1>9

\* The image gets its archive name.
LEMMA RenameKeepsStored ==
    ASSUME SInv, StoredInv, NEW w \in Workers, RenameDisk(w)
    PROVE  StoredInv'
<1> DEFINE r == worker[w]
           v == worker[w].vm
           row == vmrow[v]
           a == archive[v]
           D == DomainOf(v, domain)
<1>1. r.pc = "rename" /\ UNCHANGED <<vmrow, archive, domain>>
  BY DEF RenameDisk, At
<1>2. Touches(r) /\ r.pc \notin MakePcs /\ r.pc \notin {"idle", "rename_save"}
  BY <1>1 DEF Touches, MakePcs, SavedPcs
<1>3. /\ r \in WorkerState /\ v \in Vms
      /\ (r.op \in Deletes /\ DeleteKnows(r, row, a)) \/ r.op = "delshelve"
      /\ Stored(r, row, a, D, disk[v])
      /\ a # NoArchive => a.state # "none"
  BY <1>1, <1>2, TakeStored DEF ShelveKnows, EditKnows
<1>4. row = NoRow /\ OwedBy(a, D)
  BY <1>1, <1>3 DEF Stored, RecordPcs, DeleteKnows, BeforeRowdel, OwedBy
<1>5. CASE End(w) /\ UNCHANGED disk
  <2>1. AtRest(row, a, D)
    BY <1>4 DEF AtRest, NoRow
  <2>2. QED
    BY <1>1, <1>2, <1>5, <2>1, KeptQuiet DEF End
<1>6. CASE ~(End(w) /\ UNCHANGED disk)
  <2> DEFINE s == [r EXCEPT !.pc = "rename_save"]
  <2>1. /\ r.ahv.disk = "live" /\ disk[v] = "live"
        /\ disk' = [disk EXCEPT ![v] = "arch"]
        /\ worker' = [worker EXCEPT ![w] = s]
    BY <1>6 DEF RenameDisk, Goto
  <2>2. /\ s.vm = v /\ s.pc = "rename_save" /\ s.op = r.op /\ s.ahv = r.ahv
    BY <1>3 DEF WorkerState
  <2> HIDE DEF s
  <2>3. worker'[w] = s /\ OnlyOf(w, v) /\ disk'[v] = "arch"
    BY <1>1, <1>3, <2>1, StoresTyped DEF OnlyOf
  <2>4. s # Idle /\ Touches(s) /\ s.pc # "idle"
    BY <2>2 DEF Idle, Touches
  <2>5. \A x \in Workers \ {w} : worker[x].vm = v => worker[x].pc # "rename_save"
    <3> SUFFICES ASSUME NEW x \in Workers \ {w}, worker[x].vm = v,
                        worker[x].pc = "rename_save"
                 PROVE  FALSE
      OBVIOUS
    <3>1. Stored(worker[x], row, a, D, disk[v])
      BY DEF StoredInv
    <3>2. QED
      BY <2>1, <3>1 DEF Stored
  <2>6. a # NoArchive /\ a.disk = "live"
    <3>1. CASE r.op \in Deletes
      BY <1>1, <1>3, <2>1, <3>1 DEF Stored, NoArchive
    <3>2. CASE r.op = "delshelve"
      <4>1. a # NoArchive
        BY <1>1, <1>3, <3>2 DEF Stored
      <4>2. DiskNamed(v)
        BY <1>2, TakeStored
      <4>3. disk[v] \in {"none", a.disk}
        BY <1>2, <2>5, <4>1, <4>2 DEF DiskNamed
      <4>4. QED
        BY <2>1, <4>1, <4>3
    <3>3. QED
      BY <1>3, <3>1, <3>2
  <2>7. StoredNext(s, v)
    BY <1>1, <1>3, <1>4, <2>2, <2>3, <2>6
       DEF StoredNext, Stored, RecordPcs, Makes, Deletes
  <2>8. CASE r.op # "delshelve"
    BY <1>1, <1>2, <1>3, <1>4, <2>2, <2>3, <2>4, <2>7, <2>8, TakeStored, KeptOwn
  <2>9. CASE r.op = "delshelve"
    <3>1. \A x \in Workers \ {w} : worker[x].vm = v => StoredNext(worker[x], v)
      <4> SUFFICES ASSUME NEW x \in Workers \ {w}, worker[x].vm = v
                   PROVE  StoredNext(worker[x], v)
        OBVIOUS
      <4>1. /\ worker[x].op = "delshelve"
            /\ Stored(worker[x], row, a, D, disk[v])
        BY <1>2, <2>9, ShelvedOthers
      <4>2. QED
        BY <1>1, <2>3, <2>5, <4>1 DEF StoredNext, Stored, Makes, Deletes
    <3>2. QED
      BY <1>1, <1>3, <1>4, <2>2, <2>3, <2>4, <2>5, <2>7, <3>1, Kept
  <2>10. QED
    BY <2>8, <2>9
<1>7. QED
  BY <1>5, <1>6

\* The name goes into the record, which is there.
LEMMA RenamedKeepsStored ==
    ASSUME SInv, StoredInv, NEW w \in Workers, RenameSave(w)
    PROVE  StoredInv'
<1> DEFINE r == worker[w]
           v == worker[w].vm
           row == vmrow[v]
           a == archive[v]
           D == DomainOf(v, domain)
           b == [a EXCEPT !.disk = "arch"]
<1>1. r.pc = "rename_save" /\ UNCHANGED <<vmrow, domain>>
  BY DEF RenameSave, At
<1>2. Touches(r) /\ r.pc \notin MakePcs /\ r.pc # "idle"
  BY <1>1 DEF Touches, MakePcs, SavedPcs
<1>3. /\ r \in WorkerState /\ v \in Vms
      /\ (r.op \in Deletes /\ DeleteKnows(r, row, a)) \/ r.op = "delshelve"
      /\ Stored(r, row, a, D, disk[v])
      /\ a \in ArchiveRow /\ (a # NoArchive => a.state # "none")
  BY <1>1, <1>2, TakeStored DEF ShelveKnows, EditKnows
<1>4. row = NoRow /\ OwedBy(a, D)
  BY <1>1, <1>3 DEF Stored, RecordPcs, DeleteKnows, BeforeRowdel, OwedBy
<1>5. disk[v] = "arch" /\ a # NoArchive
  BY <1>1, <1>3 DEF Stored
<1>6. /\ archive' = [archive EXCEPT ![v] = b] /\ UNCHANGED disk
      /\ worker' = [worker EXCEPT ![w] = Idle]
  BY <1>5 DEF RenameSave, End
<1>7. b.disk = "arch" /\ b.state = a.state /\ b.host = a.host
  BY <1>3 DEF ArchiveRow
<1> HIDE DEF b
<1>8. b # NoArchive
  BY <1>3, <1>5, <1>7 DEF NoArchive
<1>9. worker'[w] = Idle /\ OnlyOf(w, v) /\ archive'[v] = b
  BY <1>1, <1>3, <1>6, StoresTyped DEF OnlyOf
<1>10. AtRest(row, b, D)
  BY <1>4, <1>7 DEF AtRest, OwedBy, NoRow
<1>11. \A x \in Workers \ {w} : worker[x].vm = v => StoredNext(worker[x], v)
  <2> SUFFICES ASSUME NEW x \in Workers \ {w}, worker[x].vm = v
               PROVE  StoredNext(worker[x], v)
    OBVIOUS
  <2>1. worker[x].pc # "rename_save"
    BY <1>1 DEF StoredInv
  <2>2. CASE r.op \in Deletes
    BY <1>2, <2>2, OthersWait DEF Deletes, StoredNext, Stored, Makes
  <2>3. CASE r.op = "delshelve"
    BY <1>1, <1>2, <1>6, <1>8, <1>9, <2>1, <2>3, ShelvedOthers DEF StoredNext, Stored, Makes, Deletes
  <2>4. QED
    BY <1>3, <2>2, <2>3
<1>12. Idle.pc # "rename_save"
  BY DEF Idle
<1>13. QED
  BY <1>1, <1>3, <1>4, <1>5, <1>6, <1>7, <1>9, <1>10, <1>11, <1>12, Kept

\* The archive record is made, or found.
LEMMA ArchiveKeepsStored ==
    ASSUME SInv, StoredInv, NEW w \in Workers, Archive(w)
    PROVE  StoredInv'
<1> DEFINE r == worker[w]
           v == worker[w].vm
           row == vmrow[v]
           a == archive[v]
           D == DomainOf(v, domain)
<1>1. r.pc = "archive" /\ UNCHANGED <<vmrow, domain, disk>>
  BY DEF Archive, At
<1>2. r.pc \notin MakePcs /\ r.pc \notin {"idle", "rename_save"} /\ ~Touches(r)
  BY <1>1 DEF Touches, MakePcs, SavedPcs
<1>3. /\ r \in WorkerState /\ v \in Vms
      /\ \/ r.op \in Deletes /\ DeleteKnows(r, row, a)
         \/ r.op = "delshelve" /\ DelshelveKnows(r, row)
      /\ Stored(r, row, a, D, disk[v])
      /\ row # NoRow => disk[v] \in {"none", "live"}
      /\ a \in ArchiveRow
  BY <1>1, <1>2, TakeAt, StoredAt DEF ShelveKnows, EditKnows, DiskNamed
<1>4. Untouched(v) => AtRest(row, a, D)
  BY <1>3 DEF StoredInv
<1>5. /\ r.op = "force_delete" => Untouched(v)
      /\ a = NoArchive => Untouched(v)
  <2> SUFFICES ASSUME r.op = "force_delete" \/ a = NoArchive,
                      NEW x \in Workers, Touches(worker[x]), worker[x].vm = v
               PROVE  FALSE
    BY DEF Untouched
  <2>1. x # w /\ worker[x].pc \notin {"idle", "archive"}
    BY <1>2 DEF Touches
  <2>2. Together(r, worker[x])
    BY <1>3, <2>1 DEF SInv, AloneInv
  <2>3. r.op # "force_delete" /\ a = NoArchive
    BY <2>2 DEF Together
  <2>4. CASE worker[x].op = "delete"
    BY <2>1, <2>3, <2>4, RequestKnows DEF Knows, DeleteKnows, Deletes
  <2>5. CASE worker[x].op = "delshelve"
    BY <2>1, <2>3, <2>5 DEF StoredInv, Stored
  <2>6. QED
    BY <2>2, <2>4, <2>5 DEF Together
<1>6. CASE a = NoArchive
  <2> DEFINE next == IF r.op \in Deletes THEN "undefine" ELSE "rowdel"
             made == [state |-> "released", disk |-> "live", host |-> r.host]
             s == [r EXCEPT !.ahv = made, !.pc = next]
  <2>1. /\ archive' = [archive EXCEPT ![v] = made]
        /\ worker' = [worker EXCEPT ![w] = s]
    BY <1>6 DEF Archive
  <2>2. /\ s.vm = v /\ s.pc = next /\ s.op = r.op /\ s.ahv = made /\ s.host = r.host
        /\ next \in {"undefine", "rowdel"}
        /\ r.op \in Deletes => next = "undefine"
        /\ r.op = "delshelve" => next = "rowdel"
    BY <1>3 DEF WorkerState, Deletes
  <2>3. /\ made.state = "released" /\ made.disk = "live" /\ made.host = r.host
        /\ made # NoArchive
    BY DEF NoArchive
  <2> HIDE DEF s, next, made
  <2>4. worker'[w] = s /\ OnlyOf(w, v) /\ archive'[v] = made
    BY <1>1, <1>3, <2>1, StoresTyped DEF OnlyOf
  <2>5. s # Idle /\ Touches(s) /\ s.pc \notin {"idle", "rename_save"}
    BY <2>2 DEF Idle, Touches
  <2>6. AtRest(row, a, D)
    BY <1>4, <1>5, <1>6
  <2>7. /\ row # NoRow
        /\ r.op \in Deletes => D = {r.host}
        /\ r.op = "delshelve" => D = {}
    <3>1. CASE r.op \in Deletes
      BY <1>1, <1>3, <1>6, <2>6, <3>1 DEF DeleteKnows, Deletes, Own, AtRest, NoRow
    <3>2. CASE r.op = "delshelve"
      BY <1>3, <1>6, <3>2 DEF Stored, Deletes
    <3>3. QED
      BY <1>3, <3>1, <3>2
  <2>8. StoredNext(s, v)
    BY <1>1, <1>3, <2>2, <2>3, <2>4, <2>7
       DEF StoredNext, Stored, RecordPcs, Makes, Deletes
  <2>9. \A x \in Workers \ {w} : worker[x].vm = v => StoredNext(worker[x], v)
    <3> SUFFICES ASSUME NEW x \in Workers \ {w}, worker[x].vm = v
                 PROVE  StoredNext(worker[x], v)
      OBVIOUS
    <3>1. worker[x].pc = "archive"
      BY <1>3, <1>5, <1>6, IdleHasNoVm DEF Untouched, Touches
    <3>2. Together(r, worker[x])
      BY <1>3 DEF SInv, AloneInv
    <3>3. Stored(worker[x], row, a, D, disk[v])
      BY <3>1 DEF StoredInv
    <3>4. QED
      BY <1>1, <2>3, <2>4, <3>1, <3>2, <3>3
         DEF StoredNext, Stored, Together, Makes, Deletes
  <2>10. QED
    BY <1>1, <1>3, <2>2, <2>3, <2>4, <2>5, <2>7, <2>8, <2>9, Kept
<1>7. CASE a # NoArchive /\ r.op = "delshelve"
  <2> DEFINE s == [r EXCEPT !.ahv = a, !.pc = "rowdel"]
  <2>1. UNCHANGED archive /\ worker' = [worker EXCEPT ![w] = s]
    BY <1>7 DEF Archive, Deletes
  <2>2. s.vm = v /\ s.pc = "rowdel" /\ s.op = r.op
    BY <1>3 DEF WorkerState
  <2> HIDE DEF s
  <2>3. s # Idle /\ Touches(s) /\ s.pc # "rename_save"
    BY <2>2 DEF Idle, Touches
  <2>4. Stored(s, row, a, D, disk[v])
    BY <1>3, <1>7, <2>2 DEF Stored, Makes, Deletes
  <2>5. QED
    BY <1>1, <1>2, <2>1, <2>2, <2>3, <2>4, KeptQuiet
<1>8. CASE a # NoArchive /\ r.op = "force_delete"
  BY <1>1, <1>3, <1>4, <1>5, <1>8 DEF DeleteKnows, Own, Deletes, AtRest, NoRow
<1>9. CASE a # NoArchive /\ r.op \notin {"delshelve", "force_delete"}
  BY <1>1, <1>2, <1>9, KeptQuiet DEF Archive, End
<1>10. QED
  BY <1>6, <1>7, <1>8, <1>9

-----------------------------------------------------------------------------
(* The requests that arrive keep StoredInv. *)

\* A request that arrives and changes nothing yet, at a vm no other works on
\* or where what it needs is so whoever does.
LEMMA KeptArrival ==
    ASSUME SInv, StoredInv, NEW w \in Workers, NEW v \in Vms, NEW op,
           NEW q \in WorkerState, NEW pc,
           MayStart(w, op, v), Begin(w, q, pc),
           UNCHANGED <<vmrow, archive, domain, disk>>,
           q.vm = v, pc \notin {"idle", "rename_save"},
           Stored([q EXCEPT !.pc = pc], vmrow[v], archive[v],
                  DomainOf(v, domain), disk[v])
    PROVE  StoredInv'
<1> DEFINE s == [q EXCEPT !.pc = pc]
<1>1. s.vm = v /\ s.pc = pc
  BY DEF WorkerState
<1>2. worker' = [worker EXCEPT ![w] = s] /\ worker[w].pc = "idle"
  BY DEF Begin, MayStart, At
<1>3. Stored(s, vmrow[v], archive[v], DomainOf(v, domain), disk[v])
  OBVIOUS
<1> HIDE DEF s
<1>4. worker'[w] = s /\ OnlyOf(w, v)
  BY <1>2, StoresTyped DEF OnlyOf
<1>5. StoredNext(s, v)
  BY <1>3 DEF StoredNext
<1>6. \A x \in Workers \ {w} : worker[x].vm = v => StoredNext(worker[x], v)
  BY IdleHasNoVm DEF StoredInv, StoredNext
<1>7. \/ \E x \in Workers \ {w} : Touches(worker[x]) /\ worker[x].vm = v
      \/ AtRest(vmrow[v], archive[v], DomainOf(v, domain))
  BY <1>2 DEF StoredInv, Untouched, Touches
<1>8. /\ vmrow[v] # NoRow => disk[v] \in {"none", "live"}
      /\ \/ archive[v] = NoArchive
         \/ disk[v] \in {"none", archive[v].disk}
         \/ \E x \in Workers \ {w} : worker[x].pc = "rename_save" /\ worker[x].vm = v
  BY <1>2 DEF StoredInv, DiskNamed
<1>9. QED
  BY <1>1, <1>2, <1>4, <1>5, <1>6, <1>7, <1>8, Kept

\* A vm at which such a request may start is at rest.
LEMMA StartsAtRest ==
    ASSUME StoredInv, Serial, NEW w \in Workers, NEW v \in Vms, NEW op,
           MayStart(w, op, v), op \notin {"delete", "delshelve"}
    PROVE  /\ AtRest(vmrow[v], archive[v], DomainOf(v, domain))
           /\ \A x \in Workers : worker[x].vm # v
<1>1. ASSUME NEW x \in Workers, worker[x].vm = v
      PROVE  FALSE
  <2>1. <<worker[x].op, op>> \in Overlaps
    BY <1>1 DEF MayStart, Busy
  <2>2. QED
    BY <2>1 DEF Serial
<1>2. Untouched(v)
  BY <1>1 DEF Untouched
<1>3. QED
  BY <1>1, <1>2 DEF StoredInv

\* A request that arrives finds what it relies on.
LEMMA ArriveKeepsStored ==
    ASSUME SInv, StoredInv, Serial, NEW w \in Workers, Arrive(w)
    PROVE  StoredInv'
<1>0. Idle \in WorkerState
  BY IdlePlaced
<1>1. ASSUME NEW v \in Vms, NEW c \in VcpuSizes, NEW m \in MemSizes,
             CreateStart(w, v, c, m)
      PROVE  StoredInv'
  <2> DEFINE q == [Idle EXCEPT !.op = "create", !.vm = v, !.vcpu = c, !.mem = m]
  <2>1. /\ MayStart(w, "create", v) /\ vmrow[v] = NoRow /\ archive[v] = NoArchive
        /\ UNCHANGED <<vmrow, archive>>
        /\ disk' = [disk EXCEPT ![v] = "none"]
        /\ domain' = [h \in Hosts |-> domain[h] \ {v}]
    BY <1>1 DEF CreateStart, Fresh
  <2>2. q \in WorkerState /\ q.vm = v /\ q.op = "create"
    BY <1>0, VmAssumption DEF Idle, WorkerState, OpKinds
  <2>3. PICK s : /\ worker' = [worker EXCEPT ![w] = s]
                 /\ s.vm = v /\ s.op = "create" /\ s.pc \in {"ip", "pick"}
    <3> HIDE DEF q
    <3>1. ASSUME NEW i \in Ips,
                 Begin(w, [q EXCEPT !.ip = i, !.groups = {IpGroup[i]}], "ip")
          PROVE  \E s : /\ worker' = [worker EXCEPT ![w] = s]
                        /\ s.vm = v /\ s.op = "create" /\ s.pc \in {"ip", "pick"}
      <4> DEFINE s == [[q EXCEPT !.ip = i, !.groups = {IpGroup[i]}] EXCEPT !.pc = "ip"]
      <4>1. s.vm = v /\ s.op = "create" /\ s.pc = "ip"
        BY <2>2 DEF WorkerState
      <4>2. worker' = [worker EXCEPT ![w] = s]
        BY <3>1 DEF Begin
      <4> HIDE DEF s
      <4>3. QED
        BY <4>1, <4>2
    <3>2. ASSUME NEW gs,
                 Begin(w, [q EXCEPT !.groups = gs, !.need = TRUE], "pick")
          PROVE  \E s : /\ worker' = [worker EXCEPT ![w] = s]
                        /\ s.vm = v /\ s.op = "create" /\ s.pc \in {"ip", "pick"}
      <4> DEFINE s == [[q EXCEPT !.groups = gs, !.need = TRUE] EXCEPT !.pc = "pick"]
      <4>1. s.vm = v /\ s.op = "create" /\ s.pc = "pick"
        BY <2>2 DEF WorkerState
      <4>2. worker' = [worker EXCEPT ![w] = s]
        BY <3>2 DEF Begin
      <4> HIDE DEF s
      <4>3. QED
        BY <4>1, <4>2
    <3>3. QED
      BY <1>1, <3>1, <3>2 DEF CreateStart, q
  <2> HIDE DEF q
  <2>4. /\ DomainOf(v, domain') = {} /\ disk'[v] = "none"
        /\ \A x \in Vms \ {v} : /\ DomainOf(x, domain') = DomainOf(x, domain)
                                /\ disk'[x] = disk[x]
    BY <2>1, StoresTyped DEF DomainOf
  <2>5. worker'[w] = s /\ OnlyOf(w, v)
    BY <2>1, <2>3, <2>4, StoresTyped DEF OnlyOf
  <2>6. s # Idle /\ Touches(s)
    BY <2>3 DEF Idle, Touches
  <2>7. StoredNext(s, v)
    BY <2>1, <2>3, <2>4 DEF StoredNext, Stored, Makes, Deletes
  <2>8. \A x \in Workers : worker[x].vm # v
    BY <2>1, StartsAtRest
  <2>9. worker[w].pc = "idle"
    BY <2>1 DEF MayStart, At
  <2>10. QED
    BY <2>1, <2>3, <2>4, <2>5, <2>6, <2>7, <2>8, <2>9, KeptOwn
<1>2. ASSUME NEW v \in Vms, NEW op \in Deletes, DeleteStart(w, v, op)
      PROVE  StoredInv'
  <2> DEFINE q0 == Loaded(op, v)
             q == [q0 EXCEPT !.ip_used = used[vmrow[v].mac_ip]]
             s == [q EXCEPT !.pc = "archive"]
  <2>0. op \in OpKinds
    BY DEF OpKinds, Deletes
  <2>1. q0 \in WorkerState /\ q0.op = op /\ q0.vm = v
    BY <2>0, LoadedFields
  <2>2. /\ MayStart(w, op, v) /\ UNCHANGED <<vmrow, archive, domain, disk>>
        /\ vmrow[v].vm_status = "normal" /\ Begin(w, q, "archive")
    BY <1>2 DEF DeleteStart
  <2> HIDE DEF q0
  <2>3. used[vmrow[v].mac_ip] \in BOOLEAN
    BY <2>2 DEF SInv, IInv, RowsInv, StatusMatchesPlacement, RowPlaced, VmRow,
                StoresInv, IpTypeOK
  <2>4. q \in WorkerState /\ q.vm = v /\ s.op = op /\ s.pc = "archive"
    BY <2>1, <2>3 DEF WorkerState
  <2>5. Stored(s, vmrow[v], archive[v], DomainOf(v, domain), disk[v])
    BY <2>4 DEF Stored, Makes, Deletes
  <2> HIDE DEF q
  <2>6. QED
    BY <2>2, <2>4, <2>5, KeptArrival
<1>3. ASSUME NEW v \in Vms, ShelveStart(w, v)
      PROVE  StoredInv'
  <2> DEFINE q0 == Loaded("shelve", v)
             q == [q0 EXCEPT !.ip_used = used[vmrow[v].mac_ip]]
             s == [q EXCEPT !.pc = "undefine"]
  <2>1. /\ q0 \in WorkerState /\ q0.op = "shelve" /\ q0.vm = v
        /\ q0.host = vmrow[v].host
    BY LoadedFields DEF OpKinds
  <2>2. /\ MayStart(w, "shelve", v) /\ UNCHANGED <<vmrow, archive, domain, disk>>
        /\ vmrow[v].vm_status = "normal" /\ Begin(w, q, "undefine")
    BY <1>3 DEF ShelveStart
  <2> HIDE DEF q0
  <2>3. used[vmrow[v].mac_ip] \in BOOLEAN
    BY <2>2 DEF SInv, IInv, RowsInv, StatusMatchesPlacement, RowPlaced, VmRow,
                StoresInv, IpTypeOK
  <2>4. /\ q \in WorkerState /\ q.vm = v /\ s.op = "shelve" /\ s.pc = "undefine"
        /\ s.host = vmrow[v].host
    BY <2>1, <2>3 DEF WorkerState
  <2>5. archive[v] = NoArchive /\ DomainOf(v, domain) = {vmrow[v].host}
    BY <2>2, StartsAtRest DEF AtRest, NoRow
  <2>6. Stored(s, vmrow[v], archive[v], DomainOf(v, domain), disk[v])
    <3> HIDE DEF s
    <3>1. QED
      BY <2>4, <2>5 DEF Stored, Makes, Deletes
  <2> HIDE DEF q
  <2>7. QED
    BY <2>2, <2>4, <2>6, KeptArrival
<1>4. ASSUME NEW v \in Vms, UnshelveStart(w, v)
      PROVE  StoredInv'
  <2> DEFINE q0 == Loaded("unshelve", v)
             q == [q0 EXCEPT !.host = NoHost, !.ip = NoIp]
             last == vmrow[v].last_ip
  <2>1. q0 \in WorkerState /\ q0.op = "unshelve" /\ q0.vm = v /\ vmrow[v] \in VmRow
    BY LoadedFields DEF OpKinds
  <2>2. /\ MayStart(w, "unshelve", v) /\ UNCHANGED <<vmrow, archive, domain, disk>>
        /\ vmrow[v].vm_status = "shelve"
    BY <1>4 DEF UnshelveStart
  <2> HIDE DEF q0
  <2>3. q \in WorkerState /\ q.op = "unshelve" /\ q.vm = v /\ last \in Ips \cup {NoIp}
    BY <2>1 DEF WorkerState, VmRow
  <2>4. archive[v] = NoArchive /\ DomainOf(v, domain) = {}
    BY <2>2, StartsAtRest DEF AtRest, NoRow
  <2> HIDE DEF q
  <2>5. ASSUME NEW i \in Ips, NEW gs \in SUBSET Groups,
               Begin(w, [q EXCEPT !.ip = i, !.groups = gs], "ip")
        PROVE  StoredInv'
    <3> DEFINE t == [q EXCEPT !.ip = i, !.groups = gs]
               s == [t EXCEPT !.pc = "ip"]
    <3>1. t \in WorkerState /\ t.vm = v /\ s.op = "unshelve" /\ s.pc = "ip"
      BY <2>3 DEF WorkerState
    <3>2. Stored(s, vmrow[v], archive[v], DomainOf(v, domain), disk[v])
      <4> HIDE DEF s
      <4>1. QED
        BY <2>4, <3>1 DEF Stored, Makes, Deletes
    <3> HIDE DEF t
    <3>3. QED
      BY <2>2, <2>5, <3>1, <3>2, KeptArrival DEF t
  <2>6. ASSUME NEW gs \in SUBSET Groups,
               Begin(w, [q EXCEPT !.groups = gs, !.need = TRUE], "pick")
        PROVE  StoredInv'
    <3> DEFINE t == [q EXCEPT !.groups = gs, !.need = TRUE]
               s == [t EXCEPT !.pc = "pick"]
    <3>1. t \in WorkerState /\ t.vm = v /\ s.op = "unshelve" /\ s.pc = "pick"
      BY <2>3 DEF WorkerState
    <3>2. Stored(s, vmrow[v], archive[v], DomainOf(v, domain), disk[v])
      <4> HIDE DEF s
      <4>1. QED
        BY <2>4, <3>1 DEF Stored, Makes, Deletes
    <3> HIDE DEF t
    <3>3. QED
      BY <2>2, <2>6, <3>1, <3>2, KeptArrival DEF t
  <2>7. \A i \in Ips : {IpGroup[i]} \in SUBSET Groups
    BY VmAssumption
  <2>8. CASE \E i \in {j \in Ips : IpGroup[j] \notin Denied} :
                \E gs \in {{}, {IpGroup[i]}} :
                   Begin(w, [q EXCEPT !.ip = i, !.groups = gs], "ip")
    BY <2>5, <2>7, <2>8
  <2>9. CASE \E g \in Groups \ Denied :
                Begin(w, [q EXCEPT !.groups = {g}, !.need = TRUE], "pick")
    BY <2>6, <2>9
  <2>10. CASE /\ last # NoIp
              /\ Begin(w, [q EXCEPT !.ip = last, !.groups = {IpGroup[last]}], "ip")
    BY <2>3, <2>5, <2>7, <2>10
  <2>11. QED
    BY <1>4, <2>8, <2>9, <2>10 DEF UnshelveStart, q, q0
<1>5. ASSUME NEW v \in Vms, DelshelveStart(w, v)
      PROVE  StoredInv'
  <2> DEFINE q == Loaded("delshelve", v)
             s == [q EXCEPT !.pc = "archive"]
  <2>1. q \in WorkerState /\ q.op = "delshelve" /\ q.vm = v
    BY LoadedFields DEF OpKinds
  <2>2. /\ MayStart(w, "delshelve", v) /\ UNCHANGED <<vmrow, archive, domain, disk>>
        /\ vmrow[v].vm_status = "shelve" /\ Begin(w, q, "archive")
    BY <1>5 DEF DelshelveStart
  <2>3. s.op = "delshelve" /\ s.pc = "archive"
    BY <2>1 DEF WorkerState
  <2>4. DomainOf(v, domain) = {}
    <3>1. CASE Untouched(v)
      BY <2>2, <3>1 DEF StoredInv, AtRest
    <3>2. CASE ~Untouched(v)
      <4>1. PICK x \in Workers : Touches(worker[x]) /\ worker[x].vm = v
        BY <3>2 DEF Untouched
      <4>2. <<worker[x].op, "delshelve">> \in Overlaps
        BY <2>2, <4>1 DEF MayStart, Busy
      <4>3. worker[x].op = "delshelve"
        BY <4>2 DEF Serial
      <4>4. QED
        BY <4>1, <4>3 DEF StoredInv, Stored, Touches
    <3>3. QED
      BY <3>1, <3>2
  <2>5. Stored(s, vmrow[v], archive[v], DomainOf(v, domain), disk[v])
    <3> HIDE DEF s
    <3>1. QED
      BY <2>2, <2>3, <2>4 DEF Stored, Makes, Deletes, NoRow
  <2> HIDE DEF q
  <2>6. QED
    BY <2>1, <2>2, <2>5, KeptArrival
<1>6. ASSUME NEW v \in Vms, NEW c \in VcpuSizes \cup {0}, NEW m \in MemSizes \cup {0},
             EditStart(w, v, c, m)
      PROVE  StoredInv'
  <2> DEFINE q0 == Loaded("edit", v)
             q == [q0 EXCEPT
                     !.vcpu = IF c > 0 THEN c ELSE @,
                     !.mem  = IF m > 0 THEN m ELSE @]
             s == [q EXCEPT !.pc = "deduct"]
  <2>1. /\ q0 \in WorkerState /\ q0.op = "edit" /\ q0.vm = v
        /\ q0.host = vmrow[v].host
    BY LoadedFields DEF OpKinds
  <2>2. /\ MayStart(w, "edit", v) /\ UNCHANGED <<vmrow, archive, domain, disk>>
        /\ vmrow[v].vm_status = "normal" /\ Begin(w, q, "deduct")
    BY <1>6 DEF EditStart
  <2> HIDE DEF q0
  <2>3. c \in Nat /\ m \in Nat
    BY VmAssumption
  <2>4. /\ q \in WorkerState /\ q.vm = v /\ s.op = "edit" /\ s.pc = "deduct"
        /\ s.host = vmrow[v].host
    BY <2>1, <2>3 DEF WorkerState
  <2>5. archive[v] = NoArchive /\ DomainOf(v, domain) = {vmrow[v].host}
    BY <2>2, StartsAtRest DEF AtRest, NoRow
  <2>6. Stored(s, vmrow[v], archive[v], DomainOf(v, domain), disk[v])
    <3> HIDE DEF s
    <3>1. QED
      BY <2>4, <2>5 DEF Stored, Makes, Deletes
  <2> HIDE DEF q
  <2>7. QED
    BY <2>2, <2>4, <2>6, KeptArrival
<1>7. ASSUME NEW v \in Vms, PurgeStart(w, v)
      PROVE  StoredInv'
  <2> DEFINE q == [Idle EXCEPT !.op = "purge", !.vm = v, !.ahv = archive[v]]
             s == [q EXCEPT !.pc = "ahv_release"]
  <2>1. /\ MayStart(w, "purge", v) /\ UNCHANGED <<vmrow, archive, domain, disk>>
        /\ Begin(w, q, "ahv_release") /\ archive[v] # NoArchive
    BY <1>7 DEF PurgeStart
  <2>2. archive[v] \in ArchiveRow
    BY StoresTyped
  <2>3. q \in WorkerState /\ q.vm = v /\ q.op = "purge" /\ q.ahv = archive[v]
    BY <1>0, <2>2 DEF Idle, WorkerState, OpKinds
  <2>4. s.op = "purge" /\ s.pc = "ahv_release" /\ s.ahv = archive[v]
    BY <2>3 DEF WorkerState
  <2>5. vmrow[v] = NoRow /\ OwedBy(archive[v], DomainOf(v, domain))
    BY <2>1, StartsAtRest DEF AtRest
  <2>6. Stored(s, vmrow[v], archive[v], DomainOf(v, domain), disk[v])
    <3> HIDE DEF s
    <3>1. QED
      BY <2>1, <2>4, <2>5 DEF Stored, Makes, Deletes
  <2> HIDE DEF q
  <2>7. QED
    BY <2>1, <2>3, <2>6, KeptArrival
<1>8. QED
  BY <1>1, <1>2, <1>3, <1>4, <1>5, <1>6, <1>7 DEF Arrive

-----------------------------------------------------------------------------
\* Nothing is there at first.
LEMMA InitStored == Init => StoredInv
<1> SUFFICES ASSUME Init
             PROVE  StoredInv
  OBVIOUS
<1>1. \A w \in Workers : worker[w].pc = "idle"
  BY DEF Init, Idle
<1>2. \A v \in Vms : /\ vmrow[v] = NoRow /\ archive[v] = NoArchive
                     /\ DomainOf(v, domain) = {}
  BY DEF Init, DomainOf
<1>3. AtRest(NoRow, NoArchive, {})
  BY DEF AtRest, NoRow, OwedBy, NoArchive
<1>4. QED
  BY <1>1, <1>2, <1>3 DEF StoredInv, DiskNamed

\* Every step keeps StoredInv.
LEMMA NextStored ==
    ASSUME Serial, Complete
    PROVE  SInv /\ StoredInv /\ [Next]_vars => StoredInv'
<1> SUFFICES ASSUME SInv, StoredInv, [Next]_vars
             PROVE  StoredInv'
  OBVIOUS
<1>1. CASE UNCHANGED vars
  <2>1. UNCHANGED <<vmrow, archive, domain, disk, worker>>
    BY <1>1 DEF vars
  <2>2. \A v \in Vms : DomainOf(v, domain') = DomainOf(v, domain)
    BY <2>1
  <2>3. ASSUME NEW v \in Vms
        PROVE  DiskNamed(v)' /\ (Untouched(v)' => Untouched(v))
    BY <2>1 DEF StoredInv, DiskNamed, Untouched
  <2>4. ASSUME NEW x \in Workers, worker'[x].pc # "idle"
        PROVE  Stored(worker'[x], vmrow'[worker'[x].vm], archive'[worker'[x].vm],
                      DomainOf(worker'[x].vm, domain'), disk'[worker'[x].vm])
    BY <2>1, <2>4 DEF StoredInv
  <2>5. ASSUME NEW v \in Vms, Untouched(v)'
        PROVE  AtRest(vmrow'[v], archive'[v], DomainOf(v, domain'))
    BY <2>1, <2>3, <2>5 DEF StoredInv
  <2>6. \A x, y \in Workers :
           worker'[x].pc = "rename_save" /\ worker'[y].pc = "rename_save" =>
              x = y \/ worker'[x].vm # worker'[y].vm
    BY <2>1 DEF StoredInv
  <2>7. QED
    BY <2>3, <2>4, <2>5, <2>6 DEF StoredInv
<1>2. ASSUME NEW w \in Workers, Arrive(w) \/ Step(w) \/ Crash(w)
      PROVE  StoredInv'
  <2>1. ~Crash(w)
    BY DEF Crash, Complete
  <2>2. QED
    BY <1>2, <2>1, ArriveKeepsStored, SearchKeepsStored, MakingKeepsStored,
       UndefineKeepsStored, RemovalKeepsStored, ReturnKeepsStored,
       EditKeepsStored, RowdelKeepsStored, RenameKeepsStored,
       RenamedKeepsStored, ArchiveKeepsStored DEF Step
<1>3. QED
  BY <1>1, <1>2 DEF Next

\* As long as requests are Serial and run to their end, and the record a
\* failed delete takes back can be removed, what there is of each vm in
\* libvirt and ceph is what its row, its record and its requests say.
THEOREM StoredInvariance ==
    ASSUME Serial, Complete
    PROVE  Spec => [](SInv /\ StoredInv)
<1>1. Init => SInv /\ StoredInv
  BY InitSInv, InitStored
<1>2. SInv /\ StoredInv /\ [Next]_vars => (SInv /\ StoredInv)'
  BY NextSInv, NextStored
<1>3. QED
  BY <1>1, <1>2, PTL DEF Spec

\* Rows and libvirt agree between requests: a normal vm has its domain on the
\* host of its row and nowhere else, a shelved or removed one has none.
THEOREM DomainsMatchRows ==
    ASSUME Serial, Complete
    PROVE  Spec => []DomainMatchesRow
<1>1. SInv /\ StoredInv => DomainMatchesRow
  <2> SUFFICES ASSUME SInv, StoredInv, NEW v \in Vms, Busy(v) = {}
               PROVE  /\ vmrow[v].vm_status = "normal" =>
                            \A h \in Hosts : v \in domain[h] <=> h = vmrow[v].host
                      /\ vmrow[v].vm_status = "shelve" \/ archive[v].state = "released" =>
                            \A h \in Hosts : v \in domain[h] => h = vmrow[v].host
    BY DEF DomainMatchesRow
  <2>1. AtRest(vmrow[v], archive[v], DomainOf(v, domain))
    BY DEF StoredInv, Untouched, Busy
  <2>2. \A h \in Hosts : v \in domain[h] <=> h \in DomainOf(v, domain)
    BY DEF DomainOf
  <2>3. archive[v].state = "released" => archive[v] # NoArchive
    BY DEF NoArchive
  <2>4. QED
    BY <2>1, <2>2, <2>3 DEF AtRest, OwedBy
<1>2. QED
  BY <1>1, StoredInvariance, PTL

\* Between requests the image of a removed vm has the name its archive record
\* holds, so that removing the record removes the image.
THEOREM ArchivesNameDisks ==
    ASSUME Serial, Complete
    PROVE  Spec => []ArchiveNamesDisk
<1>1. SInv /\ StoredInv => ArchiveNamesDisk
  BY DEF StoredInv, DiskNamed, ArchiveNamesDisk, Busy
<1>2. QED
  BY <1>1, StoredInvariance, PTL
=============================================================================
