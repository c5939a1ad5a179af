\* deleteCluster without -f reports success with an EIP of the cluster
\* still allocated and no release of it on its way.
CONSTANTS
    i1 = i1  i2 = i2  a1 = a1  a2 = a2
    NoInst = NoInst
    InstanceIds <- MCInstanceIds
    AddressIds <- MCAddressIds
    ClusterInsts <- MCInstanceIds
    ClusterAddrs <- MCAddressIds
    Forced = FALSE
    TagLimit = 3
    DelBackoff = 2
SPECIFICATION Spec
INVARIANT DeleteLeavesNoAddress
