-------------------------- MODULE MCHAEtcdTopology --------------------------
(* Three VMs.  Servers a, b and c of one cluster run in them, while d votes  *)
(* elsewhere, replaced c or is to replace another one; or z, a server of     *)
(* another cluster with x and y, runs in the third VM, as a restore that was *)
(* cut leaves it.                                                            *)
EXTENDS HAEtcdTopology

CONSTANTS a, b, c, d, x, y, z

MCServers == {a, b, c, d, x, y, z}
MCCluster == [s \in MCServers |-> IF s \in {x, y, z} THEN 2 ELSE 1]
MCHomes   == [m \in Members |-> CASE m = 1 -> {a} [] m = 2 -> {b} [] m = 3 -> {c, z}]
=============================================================================
