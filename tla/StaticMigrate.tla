--------------------------- MODULE StaticMigrate ---------------------------
(***************************************************************************)
(* The migration of a vm that is switched off, or is forced to be:         *)
(* VmMigrateManager.static_migrate (src/vms/migrate.py), the domain it     *)
(* makes on the other host (VmBuilder.migrate_create_vm) and the refresh   *)
(* of the ledger that follows (VmAPI.migrate_vm, update_host_quota).       *)
(*                                                                         *)
(* Every vm takes one vcpu.  A request is refused, or goes on, step by     *)
(* step, whatever of it fails; what is left undone is for the task to say. *)
(***************************************************************************)
EXTENDS Integers, FiniteSets

CONSTANTS
    MigVms, MigHosts,
    MigHome,      \* the host of each vm at first
    MigDisked,    \* the vms that have a vdisk
    MigTotal,     \* the vcpus of each host
    MigWorkers,   \* requests at a time
    MigFailing,   \* of MigCalls
    RefreshMeets  \* whether a refresh may meet another migration at a host

MigCalls == {"define", "save_host", "undefine", "attach", "poweroff", "host_down"}

\* The vms that are there fit on their hosts.
ASSUME MigAssumption ==
    /\ IsFiniteSet(MigVms) /\ MigVms # {} /\ IsFiniteSet(MigWorkers)
    /\ MigHome \in [MigVms -> MigHosts]
    /\ MigDisked \subseteq MigVms
    /\ MigTotal \in [MigHosts -> Nat]
    /\ \A h \in MigHosts : Cardinality({v \in MigVms : MigHome[v] = h}) <= MigTotal[h]
    /\ MigFailing \subseteq MigCalls
    /\ RefreshMeets \in BOOLEAN

VARIABLES
    mig_host,    \* the ledger, a host of HostQuota
    mig_vm,      \* the rows: where the vm is, whether it has a vdisk
    mig_domain,  \* what libvirt has, by vm and host
    mig_todo,    \* the hosts that tasks in SOME_TODO name as not cleared, by vm
    mig_worker

migVars == <<mig_host, mig_vm, mig_domain, mig_todo, mig_worker>>

Ledger == INSTANCE HostQuota WITH
    Hosts <- MigHosts, host <- mig_host, VcpuTotal <- MigTotal, MemTotal <- MigTotal,
    VmLimit <- [h \in MigHosts |-> Cardinality(MigVms)]

\* Whether there is a domain, runs, has the vdisk.
MigDomain == [is : {"none", "off", "on"}, disk : BOOLEAN]

NoMigDomain == [is |-> "none", disk |-> FALSE]

MigPcs == {"idle", "claim", "define", "save_host", "undo", "created", "attach", "undefine",
           "free", "end", "refresh", "refresh_save"}

\* rebuilt: begin_create.  todo: log_msg.  seen: the vms the refresh has counted.
MigWorker == [pc : MigPcs, vm : MigVms, old : MigHosts, new : MigHosts, force : BOOLEAN,
              rebuilt : BOOLEAN, todo : BOOLEAN, left : BOOLEAN, again : BOOLEAN, seen : Nat]

NoMigWorker == [pc |-> "idle", vm |-> CHOOSE v \in MigVms : TRUE, old |-> CHOOSE h \in MigHosts : TRUE,
                new |-> CHOOSE h \in MigHosts : TRUE, force |-> FALSE, rebuilt |-> FALSE,
                todo |-> FALSE, left |-> FALSE, again |-> FALSE, seen |-> 0]

MigTypeOK ==
    /\ Ledger!HostTypeOK
    /\ mig_vm \in [MigVms -> [host : MigHosts, vdisk : BOOLEAN]]
    /\ mig_domain \in [MigVms -> [MigHosts -> MigDomain]]
    /\ mig_todo \in [MigVms -> SUBSET MigHosts]
    /\ mig_worker \in [MigWorkers -> MigWorker]

VmsOn(h) == {v \in MigVms : mig_vm[v].host = h}

\* Each vm is switched off on its host.
MigInit ==
    /\ mig_vm = [v \in MigVms |-> [host |-> MigHome[v], vdisk |-> v \in MigDisked]]
    /\ mig_host = [h \in MigHosts |->
                     LET n == Cardinality({v \in MigVms : MigHome[v] = h})
                     IN  [vcpu_allocated |-> n, mem_allocated |-> n, vm_created |-> n]]
    /\ mig_domain = [v \in MigVms |-> [h \in MigHosts |->
                       IF h = MigHome[v] THEN [is |-> "off", disk |-> v \in MigDisked] ELSE NoMigDomain]]
    /\ mig_todo = [v \in MigVms |-> {}]
    /\ mig_worker = [w \in MigWorkers |-> NoMigWorker]

-----------------------------------------------------------------------------
MigGoto(w, pc) == mig_worker' = [mig_worker EXCEPT ![w].pc = pc]

MigAt(w, pc) == mig_worker[w].pc = pc

Mig(w) == mig_worker[w]

MigFails(call) == call \in MigFailing

\* Between its claim and the release of what it leaves, and where.
Moving(w, h) ==
    /\ Mig(w).pc \in {"claim", "define", "save_host", "undo", "created", "attach", "undefine", "free"}
    /\ h \in {Mig(w).old, Mig(w).new}

Refreshing(w, h) == Mig(w).pc \in {"end", "refresh", "refresh_save"} /\ Mig(w).new = h

NothingMoves(v) == \A x \in MigWorkers : MigAt(x, "idle") \/ Mig(x).vm # v

SwitchedOff(d) == [d EXCEPT !.is = IF @ = "on" THEN "off" ELSE @]

\* VmDomain.undefine switches a domain off first; what it leaves when it fails.
Kept(d) == {d, SwitchedOff(d)}

\* A vm that is on is not moved; forced, it is switched off, which may fail, and
\* a host that does not answer is no hindrance.  That destroy() raises is not
\* caught: such a request ends here.  The devices a forced migration takes from
\* the vm are not of this module.
pre_static_migrate(w, v, new, force) ==
    LET old == mig_vm[v].host IN
    /\ MigAt(w, "idle")
    /\ NothingMoves(v)
    /\ RefreshMeets \/ \A x \in MigWorkers : ~Refreshing(x, old) /\ ~Refreshing(x, new)
    /\ new # old
    /\ mig_domain[v][old].is = "on" => force
    /\ \/ mig_domain' = [mig_domain EXCEPT ![v][old] = SwitchedOff(@)]
       \/ (MigFails("poweroff") \/ MigFails("host_down")) /\ UNCHANGED mig_domain
    /\ mig_worker' = [mig_worker EXCEPT ![w] =
         [NoMigWorker EXCEPT !.pc = "claim", !.vm = v, !.old = old, !.new = new, !.force = force]]
    /\ UNCHANGED <<mig_host, mig_vm, mig_todo>>

\* A forced request has switched the vm off before it is refused: the host it
\* names is the vm's own, of another group or not alive, a device cannot be taken
\* from the vm, or it has a further address.
RefuseMigrate(w, v) ==
    /\ MigAt(w, "idle")
    /\ NothingMoves(v)
    /\ mig_domain' = [mig_domain EXCEPT ![v][mig_vm[v].host] = SwitchedOff(@)]
    /\ UNCHANGED <<mig_host, mig_vm, mig_todo, mig_worker>>

ClaimTarget(w) ==
    /\ MigAt(w, "claim")
    /\ IF Ledger!can_claim(Mig(w).new, 1, 1)
       THEN Ledger!claim_from_host(Mig(w).new, 1, 1) /\ MigGoto(w, "define")
       ELSE mig_worker' = [mig_worker EXCEPT ![w] = NoMigWorker] /\ UNCHANGED mig_host
    /\ UNCHANGED <<mig_vm, mig_domain, mig_todo>>

\* The xml of the domain at the old host, or, when that cannot be had, one that
\* is built anew and has no vdisk.
migrate_create_vm(w) ==
    LET v == Mig(w).vm
        old == mig_domain[v][Mig(w).old]
    IN  /\ MigAt(w, "define")
        /\ \/ \E rebuilt \in {old.is = "none"} \cup {MigFails("host_down") /\ Mig(w).force} :
                /\ mig_domain' = [mig_domain EXCEPT ![v][Mig(w).new] =
                                    [is |-> IF @.is = "on" THEN "on" ELSE "off",
                                     disk |-> ~rebuilt /\ old.disk]]
                /\ mig_worker' = [mig_worker EXCEPT ![w].pc = "save_host", ![w].force = FALSE,
                                                   ![w].rebuilt = rebuilt]
           \/ MigFails("define") /\ MigGoto(w, "undo") /\ UNCHANGED mig_domain
        /\ UNCHANGED <<mig_host, mig_vm, mig_todo>>

\* When the row cannot be saved the new domain is removed; that this fails is
\* ignored, and no task is there yet to say so.
SaveHost(w) ==
    LET v == Mig(w).vm IN
    /\ MigAt(w, "save_host")
    /\ \/ /\ mig_vm' = [mig_vm EXCEPT ![v].host = Mig(w).new]
          /\ MigGoto(w, "created")
          /\ UNCHANGED mig_domain
       \/ /\ MigFails("save_host")
          /\ \E d \in {NoMigDomain} \cup
                        IF MigFails("undefine") THEN Kept(mig_domain[v][Mig(w).new]) ELSE {} :
                mig_domain' = [mig_domain EXCEPT ![v][Mig(w).new] = d]
          /\ MigGoto(w, "undo")
          /\ UNCHANGED mig_vm
    /\ UNCHANGED <<mig_host, mig_todo>>

\* A fault of FreeTarget that a run has to find: the target keeps the claim.
FreeTarget_keeps(w) == UNCHANGED mig_host

FreeTarget(w) == Ledger!free(Mig(w).new, 1, 1)

UndoMigrate(w) ==
    /\ MigAt(w, "undo")
    /\ FreeTarget(w)
    /\ mig_worker' = [mig_worker EXCEPT ![w] = NoMigWorker]
    /\ UNCHANGED <<mig_vm, mig_domain, mig_todo>>

CountTarget(w) ==
    /\ MigAt(w, "created")
    /\ Ledger!vm_created_num_add_1(Mig(w).new)
    /\ MigGoto(w, "attach")
    /\ UNCHANGED <<mig_vm, mig_domain, mig_todo>>

\* A domain that was built anew gets the vdisks; one that it cannot be given is
\* taken from the vm in the rows too, and the task says so.
AttachVdisks(w) ==
    LET v == Mig(w).vm
        wanted == Mig(w).rebuilt /\ mig_vm[v].vdisk
    IN  /\ MigAt(w, "attach")
        /\ \/ /\ mig_domain' = [mig_domain EXCEPT ![v][Mig(w).new].disk = @ \/ wanted]
              /\ mig_worker' = [mig_worker EXCEPT ![w].pc = "undefine", ![w].rebuilt = FALSE]
              /\ UNCHANGED mig_vm
           \/ /\ wanted /\ MigFails("attach")
              /\ mig_vm' = [mig_vm EXCEPT ![v].vdisk = FALSE]
              /\ mig_worker' = [mig_worker EXCEPT ![w].pc = "undefine", ![w].rebuilt = FALSE, ![w].todo = TRUE]
              /\ UNCHANGED mig_domain
        /\ UNCHANGED <<mig_host, mig_todo>>

\* A fault of LeaveSource that a run has to find: the task does not say so.
LeaveSource_silent(w) == [Mig(w) EXCEPT !.pc = "free"]

\* The error is for the content of the task.
LeaveSource(w) == [Mig(w) EXCEPT !.pc = "free", !.todo = TRUE, !.left = TRUE]

UndefineSource(w) ==
    LET v == Mig(w).vm IN
    /\ MigAt(w, "undefine")
    /\ \/ /\ mig_domain' = [mig_domain EXCEPT ![v][Mig(w).old] = NoMigDomain]
          /\ Ledger!vm_created_num_sub_1(Mig(w).old)
          /\ MigGoto(w, "free")
       \/ /\ MigFails("undefine")
          /\ \E d \in Kept(mig_domain[v][Mig(w).old]) :
                mig_domain' = [mig_domain EXCEPT ![v][Mig(w).old] = d]
          /\ mig_worker' = [mig_worker EXCEPT ![w] = LeaveSource(w)]
          /\ UNCHANGED mig_host
    /\ UNCHANGED <<mig_vm, mig_todo>>

\* Whether or not the domain is gone from there.
FreeSource(w) ==
    /\ MigAt(w, "free")
    /\ Ledger!free(Mig(w).old, 1, 1)
    /\ MigGoto(w, "end")
    /\ UNCHANGED <<mig_vm, mig_domain, mig_todo>>

\* SOME_TODO with what is left, or COMPLETE.
EndMigrate(w) ==
    LET v == Mig(w).vm IN
    /\ MigAt(w, "end")
    /\ mig_todo' = IF Mig(w).todo /\ Mig(w).left
                   THEN [mig_todo EXCEPT ![v] = @ \cup {Mig(w).old}] ELSE mig_todo
    /\ mig_worker' = [mig_worker EXCEPT ![w].pc = "refresh", ![w].old = Mig(w).new,
                                            ![w].todo = FALSE, ![w].left = FALSE]
    /\ UNCHANGED <<mig_host, mig_vm, mig_domain>>

-----------------------------------------------------------------------------
(* update_host_quota, twice of the target: the row that migrate_vm takes   *)
(* for the old one has the new host by now.  The rows are counted under    *)
(* the lock, the columns saved after it.                                   *)

stats_vcpu_mem_vms_now(w) ==
    /\ MigAt(w, "refresh")
    /\ RefreshMeets \/ \A x \in MigWorkers : x # w => ~Moving(x, Mig(w).new)
    /\ mig_worker' = [mig_worker EXCEPT ![w].pc = "refresh_save",
                                        ![w].seen = Cardinality(VmsOn(Mig(w).new))]
    /\ UNCHANGED <<mig_host, mig_vm, mig_domain, mig_todo>>

update_host_quota_save(w) ==
    /\ MigAt(w, "refresh_save")
    /\ mig_host' = [mig_host EXCEPT ![Mig(w).new] =
                      [vcpu_allocated |-> Mig(w).seen, mem_allocated |-> Mig(w).seen,
                       vm_created |-> Mig(w).seen]]
    /\ mig_worker' = [mig_worker EXCEPT ![w] =
                        IF @.again THEN NoMigWorker ELSE [@ EXCEPT !.pc = "refresh", !.again = TRUE]]
    /\ UNCHANGED <<mig_vm, mig_domain, mig_todo>>

\* The user of a vm starts it, where its row says that it is.
StartMigVm(v) ==
    LET h == mig_vm[v].host IN
    /\ NothingMoves(v)
    /\ mig_domain[v][h].is = "off"
    /\ mig_domain' = [mig_domain EXCEPT ![v][h].is = "on"]
    /\ UNCHANGED <<mig_host, mig_vm, mig_todo, mig_worker>>

MigNext ==
    \/ \E w \in MigWorkers :
         \/ \E v \in MigVms, new \in MigHosts, force \in BOOLEAN : pre_static_migrate(w, v, new, force)
         \/ ClaimTarget(w)
         \/ migrate_create_vm(w)
         \/ SaveHost(w)
         \/ UndoMigrate(w)
         \/ CountTarget(w)
         \/ AttachVdisks(w)
         \/ UndefineSource(w)
         \/ FreeSource(w)
         \/ EndMigrate(w)
         \/ stats_vcpu_mem_vms_now(w)
         \/ update_host_quota_save(w)
    \/ \E v \in MigVms : StartMigVm(v) \/ \E w \in MigWorkers : RefuseMigrate(w, v)

MigSpec == MigInit /\ [][MigNext]_migVars

-----------------------------------------------------------------------------
\* The ledger has what the rows have and what migrations have claimed and not yet
\* used or not yet given back, and no host has more than its total; the count of
\* vms is never below the rows, for it is what vm_limit is held against
\* (static_migrate, migrate_create_vm, update_host_quota).
StaticLedger ==
    \A h \in MigHosts :
        /\ mig_host[h].vcpu_allocated
           = Cardinality(VmsOn(h))
             + Cardinality({w \in MigWorkers : Mig(w).new = h /\ Mig(w).pc \in {"define", "save_host", "undo"}})
             + Cardinality({w \in MigWorkers : /\ Mig(w).old = h
                                               /\ Mig(w).pc \in {"created", "attach", "undefine", "free"}})
        /\ mig_host[h].vcpu_allocated <= MigTotal[h]
        /\ mig_host[h].vm_created + Cardinality({w \in MigWorkers : Mig(w).new = h /\ MigAt(w, "created")})
           >= Cardinality(VmsOn(h))

\* No migration of vm v is on its way: what follows one is the refresh alone.
AtRest(v) == \A w \in MigWorkers : Mig(w).pc \in {"idle", "refresh", "refresh_save"} \/ Mig(w).vm # v

\* When nothing moves a vm its domain is where its row says, with the vdisk the
\* row says it has.  Another domain of it is one that a task names as left, and
\* may be running; where the save of the row and then the removal of the new
\* domain can both fail there may be one that no task names, see NothingUnnamed,
\* but none that runs (static_migrate, migrate_create_vm, SOME_TODO).
MovedWhole ==
    \A v \in MigVms : AtRest(v)
        => \A h \in MigHosts :
             IF h = mig_vm[v].host
             THEN mig_domain[v][h].is # "none" /\ (mig_vm[v].vdisk => mig_domain[v][h].disk)
             ELSE \/ mig_domain[v][h].is = "none" \/ h \in mig_todo[v]
                  \/ /\ MigFails("save_host") /\ MigFails("undefine")
                     /\ mig_domain[v][h].is = "off"

-----------------------------------------------------------------------------
(* What a comment says, and the code does not keep.                        *)

\* "目标宿主机删除虚拟机", delete the vm at the target (migrate_create_vm): after
\* a migration that came to nothing, and any other, each domain is where the row
\* of its vm says or named by a task.
NothingUnnamed ==
    \A v \in MigVms : AtRest(v)
        => \A h \in MigHosts \ {mig_vm[v].host} :
             mig_domain[v][h].is = "none" \/ h \in mig_todo[v]
=============================================================================
