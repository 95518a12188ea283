----------------------------- MODULE VdiskQuota -----------------------------
(***************************************************************************)
(* The quota of virtual disks (src/vdisk/models.py, Quota).  Each pool of  *)
(* a host group counts in size_used what its disks were promised.  Unlike  *)
(* the quota of a host, it is checked on an object loaded earlier and      *)
(* written with an UPDATE that has no condition.                           *)
(***************************************************************************)
EXTENDS Integers

CONSTANTS
    Quotas,       \* Quota rows of the group
    QuotaTotal,   \* Quota.total
    MaxVdisk,     \* Quota.max_vdisk
    QuotaEnabled  \* those with `enable` set

ASSUME QuotaAssumption ==
    /\ QuotaTotal \in [Quotas -> Nat]
    /\ MaxVdisk \in [Quotas -> Nat]
    /\ QuotaEnabled \subseteq Quotas

VARIABLE
    size_used     \* Quota.size_used

QuotaTypeOK == size_used \in [Quotas -> Int]

QuotaInit == size_used = [q \in Quotas |-> 0]

check_disk_size_limit(q, size) == size <= MaxVdisk[q]

\* A fault of Quota_meet_needs that a run has to find: what is used is not counted.
Quota_meet_needs_totalOnly(loaded, q, size) == QuotaTotal[q] >= size

\* On the row as it was loaded.
Quota_meet_needs(loaded, q, size) == QuotaTotal[q] - loaded[q] >= size

Quota_can_claim(loaded, q, size) ==
    /\ check_disk_size_limit(q, size)
    /\ Quota_meet_needs(loaded, q, size)
    /\ q \in QuotaEnabled

\* The UPDATE of Quota.claim: relative, and without a WHERE.
Quota_claim(q, size) == size_used' = [size_used EXCEPT ![q] = @ + size]

Quota_free(q, size) == size_used' = [size_used EXCEPT ![q] = @ - size]
=============================================================================
