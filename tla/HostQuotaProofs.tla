-------------------------- MODULE HostQuotaProofs --------------------------
(***************************************************************************)
(* What the statements of HostQuota keep, whoever makes them: the columns  *)
(* stay integers, and what is handed out stays within the totals.  The     *)
(* proofs of VmLifecycle and LiveMigrate rest on these lemmas.             *)
(***************************************************************************)
EXTENDS HostQuota, TLAPS

HostsInv == HostTypeOK /\ NoOvercommit

\* A step that changes no host row keeps the part of the hosts.
LEMMA HostsKept ==
    ASSUME HostsInv, UNCHANGED host
    PROVE  HostsInv'
  BY DEF HostsInv, HostTypeOK, NoOvercommit

\* The conditional UPDATE of deduct_delta keeps a host within its totals,
\* whatever the signs of the amounts.
LEMMA DeductKeepsTotals ==
    ASSUME HostsInv, NEW h, NEW c \in Int, NEW m \in Int,
           deduct_matches(h, c, m), deduct_delta(h, c, m)
    PROVE  HostsInv'
<1> DEFINE row == [vcpu_allocated |-> host[h].vcpu_allocated + c,
                   mem_allocated  |-> host[h].mem_allocated + m,
                   vm_created     |-> host[h].vm_created]
<1>1. CASE h \in Hosts
  <2>1. host[h] \in HostRow /\ VcpuTotal[h] \in Nat /\ MemTotal[h] \in Nat
    BY <1>1, HostAssumption DEF HostsInv, HostTypeOK
  <2>2. row \in HostRow
    BY <2>1 DEF HostRow
  <2>3. /\ host[h].vcpu_allocated <= VcpuTotal[h]
        /\ host[h].mem_allocated <= MemTotal[h]
    BY <1>1 DEF HostsInv, NoOvercommit
  <2>4. /\ row.vcpu_allocated <= VcpuTotal[h]
        /\ row.mem_allocated <= MemTotal[h]
    BY <2>1, <2>3 DEF deduct_matches, HostRow
  <2>5. host' = [host EXCEPT ![h] = row]
    BY DEF deduct_delta
  <2> HIDE DEF row
  <2>6. QED
    BY <2>2, <2>4, <2>5 DEF HostsInv, HostTypeOK, NoOvercommit
<1>2. CASE h \notin Hosts
  <2>1. host' = host
    BY <1>2 DEF deduct_delta, HostsInv, HostTypeOK
  <2>2. QED
    BY <2>1, HostsKept
<1>3. QED
  BY <1>1, <1>2

\* So does a release, refused or not.
LEMMA FreeKeepsTotals ==
    ASSUME HostsInv, NEW h, NEW c \in Nat, NEW m \in Nat, free(h, c, m)
    PROVE  HostsInv'
<1>1. CASE deduct_matches(h, -c, -m) /\ deduct_delta(h, -c, -m)
  <2>1. -c \in Int /\ -m \in Int
    OBVIOUS
  <2>2. QED
    BY <1>1, <2>1, DeductKeepsTotals
<1>2. CASE UNCHANGED host
  BY <1>2, HostsKept
<1>3. QED
  BY <1>1, <1>2 DEF free

\* A release of what is not negative is never refused: the UPDATE compares the
\* totals from above, and the host is within them.
LEMMA FreeMatches ==
    ASSUME HostsInv, NEW h \in Hosts, NEW c \in Nat, NEW m \in Nat
    PROVE  /\ deduct_matches(h, -c, -m)
           /\ free(h, c, m) => deduct_delta(h, -c, -m)
<1>1. /\ host[h] \in HostRow /\ VcpuTotal[h] \in Nat /\ MemTotal[h] \in Nat
      /\ host[h].vcpu_allocated <= VcpuTotal[h]
      /\ host[h].mem_allocated <= MemTotal[h]
  BY HostAssumption DEF HostsInv, HostTypeOK, NoOvercommit
<1>2. deduct_matches(h, -c, -m)
  BY <1>1 DEF deduct_matches, HostRow
<1>3. QED
  BY <1>2 DEF free

\* The counter of virtual machines is not part of the totals.
LEMMA CountKeepsTotals ==
    ASSUME HostsInv, NEW h,
           vm_created_num_add_1(h) \/ vm_created_num_sub_1(h)
    PROVE  HostsInv'
  BY DEF HostsInv, HostTypeOK, HostRow, NoOvercommit,
         vm_created_num_add_1, vm_created_num_sub_1
=============================================================================
