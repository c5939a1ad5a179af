\* deleteCluster without -f: the .state entry outlives no live instance,
\* and the command returns.
CONSTANTS
    i1 = i1  i2 = i2  a1 = a1  a2 = a2
    NoInst = NoInst
    InstanceIds <- MCInstanceIds
    AddressIds <- MCAddressIds
    ClusterInsts <- MCInstanceIds
    ClusterAddrs <- MCAddressIds
    Forced = FALSE
    TagLimit = 3
    DelBackoff = 2
SPECIFICATION Spec
INVARIANT TypeOK NoOrphanedInstances
PROPERTY Termination
