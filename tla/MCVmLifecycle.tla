--------------------------- MODULE MCVmLifecycle ---------------------------
(* VmProperties on small instances: two hosts, two addresses, two vms.     *)
EXTENDS VmProperties, TLC

CONSTANTS h1, h2, i1, i2, g1, g2

\* One group: every host and address is a candidate of every request.
OneGroupHosts == [h \in Hosts |-> g1]
OneGroupIps == [i \in Ips |-> g1]

\* Two groups: a request for both goes on with the other.
TwoGroupHosts == [h \in Hosts |-> IF h = h1 THEN g1 ELSE g2]
TwoGroupIps == [i \in Ips |-> IF i = i1 THEN g1 ELSE g2]

\* h1 has room for two small vms or a large one, h2 for one small one.
MCVcpuTotal == [h \in Hosts |-> IF h = h1 THEN 2 ELSE 1]
MCMemTotal == [h \in Hosts |-> IF h = h1 THEN 2 ELSE 1]
MCVmLimit == [h \in Hosts |-> IF h = h1 THEN 2 ELSE 1]

NoOverlaps == {}
SameKindOverlaps == {<<"delete", "delete">>, <<"delshelve", "delshelve">>}
AllOverlaps == OpKinds \X OpKinds

Symmetric == Permutations(Workers) \cup Permutations(Vms)
=============================================================================
