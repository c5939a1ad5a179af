\* JoinK3sNode of two workers with EIPs to a cluster of one master whose
\* .state file also lists a worker deleted at the provider; then Rollback.
CONSTANTS
    i1 = i1
    i2 = i2
    i3 = i3
    i4 = i4
    a1 = a1
    a2 = a2
    a3 = a3
    NoInst = NoInst
    NoNode = NoNode
    InstanceIds <- MCInstanceIds
    AddressIds <- MCAddressIds
    Command = "join"
    MasterNum = 0
    WorkerNum = 2
    PreMasters <- MCPreMastersJoin
    PreWorkers = {}
    StaleWorkers <- MCStaleWorkersJoin
    UseEIP = TRUE
    NeedUpload = FALSE
    BackoffSteps = 2
    RollbackSteps = 2
    StatusLimit = 20
SPECIFICATION Spec
INVARIANT RollbackOnlyOwnInstances
INVARIANT AddressPairing
INVARIANT BootstrapOnlyRunning
PROPERTY Termination
