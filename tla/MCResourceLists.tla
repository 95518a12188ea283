--------------------------- MODULE MCResourceLists ---------------------------
(* ResourceLists on a small instance: a group in each of two centers.      *)
EXTENDS ResourceLists, TLC

CONSTANTS grp1, z1, z2

MCCenterOf == [g \in HostGroups |-> IF g = grp1 THEN z1 ELSE z2]
=============================================================================
