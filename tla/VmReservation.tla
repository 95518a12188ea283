--------------------------- MODULE VmReservation ---------------------------
(***************************************************************************)
(* What the life cycle of virtual machines promises about the resources it *)
(* hands out, without requests, rows or failures: each vm holds at most    *)
(* one claim on a host and at most one address; what the claims on a host  *)
(* add up to never passes its totals, and no address has two holders.      *)
(***************************************************************************)
EXTENDS Integers, FiniteSets

CONSTANTS Vms, Hosts, Ips, VcpuTotal, MemTotal, NoHost, NoIp

VARIABLES
    claim,        \* the claim of each vm; its host is NoHost if there is none
    address       \* the address of each vm, or NoIp

NoClaim == [host |-> NoHost, vcpu |-> 0, mem |-> 0]

\* Claims are added up by counting units: the k-th vcpu of v is <<v, k>>.
VcpuUnits(c, h) ==
    UNION {{v} \X (1 .. c[v].vcpu) : v \in {x \in Vms : c[x].host = h}}
MemUnits(c, h) ==
    UNION {{v} \X (1 .. c[v].mem) : v \in {x \in Vms : c[x].host = h}}

WithinTotals(c) ==
    \A h \in Hosts :
       /\ Cardinality(VcpuUnits(c, h)) <= VcpuTotal[h]
       /\ Cardinality(MemUnits(c, h)) <= MemTotal[h]

Init ==
    /\ claim = [v \in Vms |-> NoClaim]
    /\ address = [v \in Vms |-> NoIp]

\* A vm claims a part of a host, changes what it claims there, or gives it up.
Claim(v) ==
    /\ claim[v] = NoClaim
    /\ claim'[v] \in [host : Hosts, vcpu : Nat \ {0}, mem : Nat \ {0}]
    /\ WithinTotals(claim')

Resize(v) ==
    /\ claim[v] # NoClaim
    /\ claim'[v] \in [host : {claim[v].host}, vcpu : Nat \ {0}, mem : Nat \ {0}]
    /\ WithinTotals(claim')

Release(v) == claim'[v] = NoClaim

\* An address goes to a vm that has none, if no vm holds it, and comes back.
Take(v, i) ==
    /\ address[v] = NoIp
    /\ \A x \in Vms : address[x] # i
    /\ address'[v] = i

GiveBack(v) == address'[v] = NoIp

\* Of all claims and addresses one changes at a time.
OnlyClaimOf(v) ==
    /\ claim'[v] # claim[v]
    /\ claim' = [claim EXCEPT ![v] = claim'[v]]
    /\ UNCHANGED address

OnlyAddressOf(v) ==
    /\ address'[v] # address[v]
    /\ address' = [address EXCEPT ![v] = address'[v]]
    /\ UNCHANGED claim

Next ==
    \E v \in Vms :
       \/ OnlyClaimOf(v) /\ (Claim(v) \/ Resize(v) \/ Release(v))
       \/ OnlyAddressOf(v) /\ (GiveBack(v) \/ \E i \in Ips : Take(v, i))

Spec == Init /\ [][Next]_<<claim, address>>
=============================================================================
