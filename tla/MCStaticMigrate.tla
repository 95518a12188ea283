--------------------------- MODULE MCStaticMigrate ---------------------------
(* StaticMigrate on a small instance: a vm on each of two hosts, of which  *)
(* the first has room for both.                                            *)
EXTENDS StaticMigrate, TLC

CONSTANTS h1, v1

MCMigHome == [v \in MigVms |-> CHOOSE h \in MigHosts : (h = h1) <=> (v = v1)]
MCMigTotal == [h \in MigHosts |-> IF h = h1 THEN 2 ELSE 1]
=============================================================================
