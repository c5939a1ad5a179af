\* CreateK3sCluster with EIPs that fails, then Rollback: is every address
\* allocated by the call released when Rollback reports success?
CONSTANTS
    i1 = i1
    i2 = i2
    i3 = i3
    i4 = i4
    a1 = a1
    a2 = a2
    a3 = a3
    NoInst = NoInst
    NoNode = NoNode
    InstanceIds <- MCInstanceIds
    AddressIds <- MCAddressIds
    Command = "create"
    MasterNum = 1
    WorkerNum = 2
    PreMasters = {}
    PreWorkers = {}
    StaleWorkers = {}
    UseEIP = TRUE
    NeedUpload = TRUE
    BackoffSteps = 2
    RollbackSteps = 2
    StatusLimit = 20
SPECIFICATION Spec
INVARIANT RollbackLeavesNoAddress
