\* CreateK3sCluster whose DescribeInstancesStatus answers list one entry
\* (StatusLimit stands for the default Limit of 20, with more instances).
CONSTANTS
    i1 = i1
    i2 = i2
    i3 = i3
    i4 = i4
    a1 = a1
    a2 = a2
    a3 = a3
    NoInst = NoInst
    NoNode = NoNode
    InstanceIds <- MCInstanceIds
    AddressIds <- MCAddressIds
    Command = "create"
    MasterNum = 1
    WorkerNum = 2
    PreMasters = {}
    PreWorkers = {}
    StaleWorkers = {}
    UseEIP = TRUE
    NeedUpload = TRUE
    BackoffSteps = 2
    RollbackSteps = 2
    StatusLimit = 1
SPECIFICATION Spec
INVARIANT BootstrapOnlyRunning
