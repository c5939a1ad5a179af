\* deleteCluster -f: a failed tag query skips terminateInstances, and the
\* .state entry is deleted all the same.
CONSTANTS
    i1 = i1  i2 = i2  a1 = a1  a2 = a2
    NoInst = NoInst
    InstanceIds <- MCInstanceIds
    AddressIds <- MCAddressIds
    ClusterInsts <- MCInstanceIds
    ClusterAddrs <- MCAddressIds
    Forced = TRUE
    TagLimit = 3
    DelBackoff = 2
SPECIFICATION Spec
INVARIANT NoOrphanedInstances
