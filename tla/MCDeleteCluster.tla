--------------------------- MODULE MCDeleteCluster ---------------------------
(* DeleteCluster on a cluster of two instances and two EIPs.               *)
EXTENDS DeleteCluster, TLC

CONSTANTS i1, i2, a1, a2

MCInstanceIds == {i1, i2}
MCAddressIds == {a1, a2}

=============================================================================
