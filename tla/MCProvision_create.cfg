\* CreateK3sCluster of one master and two workers with EIPs and an
\* uploaded key pair, then Rollback on any error.
CONSTANTS
    i1 = i1
    i2 = i2
    i3 = i3
    i4 = i4
    a1 = a1
    a2 = a2
    a3 = a3
    NoInst = NoInst
    NoNode = NoNode
    InstanceIds <- MCInstanceIds
    AddressIds <- MCAddressIds
    Command = "create"
    MasterNum = 1
    WorkerNum = 2
    PreMasters = {}
    PreWorkers = {}
    StaleWorkers = {}
    UseEIP = TRUE
    NeedUpload = TRUE
    BackoffSteps = 2
    RollbackSteps = 2
    StatusLimit = 20
SPECIFICATION Spec
INVARIANT TypeOK
INVARIANT AddressPairing
INVARIANT BootstrapOnlyRunning
PROPERTY Termination
