--------------------------- MODULE MCLiveMigrate ---------------------------
(* LiveMigrateProperties on small instances: v1 takes two vcpus, v2 one.   *)
EXTENDS LiveMigrateProperties

CONSTANTS v1, h1

MCVcpu == [v \in Vms |-> IF v = v1 THEN 2 ELSE 1]
MCMem == [v \in Vms |-> 1]
MCVcpuTotal == [h \in Hosts |-> IF h = h1 THEN 2 ELSE 3]
MCMemTotal == [h \in Hosts |-> 2]
MCVmLimit == [h \in Hosts |-> 2]
=============================================================================
