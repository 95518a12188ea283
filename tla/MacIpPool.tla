----------------------------- MODULE MacIpPool -----------------------------
(***************************************************************************)
(* The pool of MAC/IP addresses (src/network/models.py, MacIP, and         *)
(* src/network/managers.py, MacIPManager).                                 *)
(*                                                                         *)
(* The flag `used` is all the pool keeps: a MacIP row does not say who     *)
(* holds the address.  The flag is set only by apply_for_free_ip, under a  *)
(* row lock; it is cleared by free_used_ip, which reads the row again, and *)
(* by set_free on an object loaded earlier, which does not.                *)
(***************************************************************************)
CONSTANTS
    Ips,          \* the MacIP rows
    Enabled       \* those with `enable` set

ASSUME IpAssumption == Enabled \subseteq Ips

VARIABLE
    used          \* MacIP.used, by address

IpTypeOK == used \in [Ips -> BOOLEAN]

IpInit == used = [i \in Ips |-> FALSE]

\* A fault of can_used that a run has to find: the column `used` is not
\* looked at.
can_used_enabledOnly(i) == i \in Enabled

\* MacIP.can_used; apply_for_free_ip selects by the same two columns.
can_used(i) == ~used[i] /\ i \in Enabled

apply_for_free_ip(i) ==
    /\ can_used(i)
    /\ used' = [used EXCEPT ![i] = TRUE]

\* MacIPManager.free_used_ip: reads the row under a lock and clears it,
\* whoever holds the address now.
free_used_ip(i) == used' = [used EXCEPT ![i] = FALSE]

\* A fault of set_free that a run has to find: the early return inverted.
set_free_inverted(i, loaded_used) ==
    IF loaded_used THEN UNCHANGED used ELSE used' = [used EXCEPT ![i] = FALSE]

\* MacIP.set_free on an object whose `used` was read earlier: an object that
\* was loaded as free writes nothing, any other writes FALSE without looking.
set_free(i, loaded_used) ==
    IF loaded_used THEN used' = [used EXCEPT ![i] = FALSE] ELSE UNCHANGED used
=============================================================================
