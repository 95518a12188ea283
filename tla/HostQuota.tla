----------------------------- MODULE HostQuota -----------------------------
(***************************************************************************)
(* The resource ledger of the hosts (src/compute/models.py, Host, and      *)
(* src/compute/managers.py, HostManager).                                  *)
(*                                                                         *)
(* A Host row counts what has been handed out: vcpu_allocated and          *)
(* mem_allocated against the totals, vm_created against vm_limit.  The     *)
(* three columns are plain integers of the database; nothing keeps them    *)
(* from going below zero.  Each operator below stands for ONE statement or *)
(* transaction of the database, which is what makes it atomic.             *)
(***************************************************************************)
EXTENDS Integers

CONSTANTS
    Hosts,        \* the enabled hosts
    VcpuTotal,    \* Host.vcpu_total, by host
    MemTotal,     \* Host.mem_total, by host
    VmLimit       \* Host.vm_limit, by host

ASSUME HostAssumption ==
    /\ VcpuTotal \in [Hosts -> Nat]
    /\ MemTotal  \in [Hosts -> Nat]
    /\ VmLimit   \in [Hosts -> Nat]

VARIABLE
    host          \* the Host rows

HostRow == [vcpu_allocated : Int, mem_allocated : Int, vm_created : Int]

HostTypeOK == host \in [Hosts -> HostRow]

\* A host as it is registered: nothing handed out yet.
HostInit ==
    host = [h \in Hosts |->
              [vcpu_allocated |-> 0, mem_allocated |-> 0, vm_created |-> 0]]

-----------------------------------------------------------------------------
(* The checks of the Host model. *)

exceed_vm_limit(h) == host[h].vm_created >= VmLimit[h]

exceed_mem_limit(h, mem) == mem > MemTotal[h] - host[h].mem_allocated

exceed_vcpu_limit(h, vcpu) == vcpu > VcpuTotal[h] - host[h].vcpu_allocated

meet_needs(h, vcpu, mem, check_vm_limit) ==
    /\ check_vm_limit => ~exceed_vm_limit(h)
    /\ ~exceed_vcpu_limit(h, vcpu)
    /\ ~exceed_mem_limit(h, mem)

-----------------------------------------------------------------------------
(* The conditional UPDATE of Host.deduct_delta: the WHERE clause compares  *)
(* a total only when that resource changes, and compares it from above     *)
(* only, for a release as much as for a claim.                             *)

\* A fault for a run to find: the WHERE clause forgets the vcpus.
deduct_matches_memOnly(h, cpu_delta, mem_delta) ==
    mem_delta # 0 => MemTotal[h] >= host[h].mem_allocated + mem_delta

deduct_matches(h, cpu_delta, mem_delta) ==
    /\ cpu_delta # 0 => VcpuTotal[h] >= host[h].vcpu_allocated + cpu_delta
    /\ mem_delta # 0 => MemTotal[h] >= host[h].mem_allocated + mem_delta

deduct_delta(h, cpu_delta, mem_delta) ==
    host' = [host EXCEPT ![h] = [vcpu_allocated |-> @.vcpu_allocated + cpu_delta,
                                 mem_allocated  |-> @.mem_allocated + mem_delta,
                                 vm_created     |-> @.vm_created]]

\* HostManager.claim_from_host: the row is locked, so the check of
\* meet_needs and the UPDATE see the same values.
can_claim(h, vcpu, mem) ==
    /\ meet_needs(h, vcpu, mem, TRUE)
    /\ deduct_matches(h, vcpu, mem)

claim_from_host(h, vcpu, mem) ==
    /\ can_claim(h, vcpu, mem)
    /\ deduct_delta(h, vcpu, mem)

\* A fault of free that a run has to find: the check of a claim made for a
\* release.
free_checksClaim(h, vcpu, mem) ==
    IF deduct_matches(h, vcpu, mem)
    THEN deduct_delta(h, -vcpu, -mem)
    ELSE UNCHANGED host

\* Host.free and HostManager.free_to_host: the same UPDATE with the amounts
\* negated; no caller does more than log a refusal.
free(h, vcpu, mem) ==
    IF deduct_matches(h, -vcpu, -mem)
    THEN deduct_delta(h, -vcpu, -mem)
    ELSE UNCHANGED host

vm_created_num_add_1(h) == host' = [host EXCEPT ![h].vm_created = @ + 1]

vm_created_num_sub_1(h) == host' = [host EXCEPT ![h].vm_created = @ - 1]

-----------------------------------------------------------------------------
\* The quota is never handed out beyond what a host has, whatever requests
\* meet on it, whatever fails and whatever processes die.
NoOvercommit ==
    \A h \in Hosts :
       /\ host[h].vcpu_allocated <= VcpuTotal[h]
       /\ host[h].mem_allocated <= MemTotal[h]
=============================================================================
