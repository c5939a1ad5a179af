--------------------------- MODULE MCNetworkSetup ---------------------------
EXTENDS NetworkSetup, TLC

CONSTANTS v1, v2, s1, s2, g1, g2, z1, z2

MCVpcIds == {v1, v2}
MCSubnetIds == {s1, s2}
MCSgIds == {g1, g2}
MCZones == {z1, z2}
\* A pre-existing group may have an SSH rule from a range, a universal etcd
\* client rule, and an etcd peer rule from some other block.
MCInitRules == {[port |-> 0, cidr |-> "any"], [port |-> 2379, cidr |-> "any"],
                [port |-> 2380, cidr |-> "user"]}
\* The ids of each pool are interchangeable: no property names one.
MCSymmetry == Permutations(MCVpcIds) \cup Permutations(MCSubnetIds) \cup Permutations(MCSgIds)
=============================================================================
