------------------------------ MODULE Provision ------------------------------
(***************************************************************************)
(* One invocation of CreateK3sCluster or JoinK3sNode of the Tencent       *)
(* provider (src/pkg/providers/tencent/tencent.go), followed, when it     *)
(* returns an error, by the Rollback its caller runs.  The process is     *)
(* generateInstance: launch the master and worker batches, wait for them  *)
(* to be Running, allocate and associate EIPs, wait for the associations, *)
(* assemble the node status; then the bootstrap of k3s.  The node         *)
(* registry p.m (a sync.Map keyed by instance id) is the variable reg.    *)
(* Network and security-group configuration are one step here; their     *)
(* resources are modelled in modules of their own.                        *)
(***************************************************************************)
EXTENDS TencentCloud

CONSTANTS
    Command,       \* "create" (CreateK3sCluster) or "join" (JoinK3sNode)
    MasterNum,     \* strconv.Atoi(p.Master)
    WorkerNum,     \* strconv.Atoi(p.Worker)
    PreMasters,    \* master instances of the cluster before the call
    PreWorkers,    \* worker instances of the cluster before the call
    StaleWorkers,  \* workers of the .state file whose instance is gone
    UseEIP,        \* p.PublicIPAssignedEIP
    NeedUpload,    \* ssh.Password == "" && p.KeyIds == "": uploadKeyPair runs
    BackoffSteps,  \* common.Backoff.Steps: polls of one wait
    RollbackSteps, \* Steps of the terminate backoff in Rollback (5)
    StatusLimit,   \* entries per DescribeInstancesStatus answer (default Limit 20)
    NoNode         \* p.m.Load(id) finds nothing

PreExisting == PreMasters \cup PreWorkers

ASSUME ProvisionAssumption ==
    /\ Command \in {"create", "join"}
    /\ MasterNum \in Nat /\ WorkerNum \in Nat
    /\ MasterNum + WorkerNum >= 1
    /\ PreMasters \subseteq InstanceIds /\ PreWorkers \subseteq InstanceIds
    /\ StaleWorkers \subseteq InstanceIds
    /\ PreMasters \cap PreWorkers = {}
    /\ StaleWorkers \cap PreExisting = {}
    \* CreateCheck, run before CreateK3sCluster, refuses an existing cluster
    \* and a master count below 1.
    /\ Command = "create" => PreExisting \cup StaleWorkers = {} /\ MasterNum >= 1
    /\ UseEIP \in BOOLEAN /\ NeedUpload \in BOOLEAN
    /\ BackoffSteps \in Nat \ {0}
    /\ RollbackSteps \in Nat \ {0}
    /\ StatusLimit \in Nat \ {0}

VARIABLES
    pc,          \* where the process is
    role,        \* the batch being launched or given EIPs: TRUE = masters
    reg,         \* reg[i]: the node p.m holds for instance id i, or NoNode
    attempts,    \* polls (or terminate calls) made by the current backoff
    cur,         \* the TaskId awaited alone (allocation, release)
    waitQ,       \* TaskIds awaited in turn: eipTaskIds, taskIds in Rollback
    pool,        \* eipAddresses not yet paired in allocateEIPForInstance
    todoInst,    \* instances of instanceList not yet visited by assemble
    todoAddr,    \* eips not yet disassociated by Rollback
    masterNodes, \* ids in p.Status.MasterNodes
    workerNodes, \* ids in p.Status.WorkerNodes
    rbIds,       \* ids collected by Rollback (RollBack flag set)
    rbEips,      \* eipIds collected by Rollback
    confirmed,   \* history: addresses whose disassociate task was seen Done
    relAsked,    \* history: addresses passed to a releaseAddresses call
    launched,    \* history: instances RunInstances created in this run
    allocated    \* history: addresses AllocateAddresses created in this run

procVars == <<pc, role, reg, attempts, cur, waitQ, pool, todoInst, todoAddr,
              masterNodes, workerNodes, rbIds, rbEips, confirmed, relAsked,
              launched, allocated>>

vars == <<cloudVars, procVars>>

\* types.Node reduced to what the control flow reads.
Node == [master : BOOLEAN, rollback : BOOLEAN, current : BOOLEAN,
         status : {"pending", "running"}, eips : SUBSET AddressIds,
         public : BOOLEAN]

ASSUME NoNodeAssumption == NoNode \notin Node

Pcs == {"prepare", "run", "waitRunning", "alloc", "allocWait", "describeAlloc",
        "assoc", "assocWait", "assemble", "assembleNode", "bootstrap", "done",
        "failed", "rbDescribe", "rbDisassoc", "rbDisWait", "rbRelease",
        "rbRelWait", "rbTerminate", "rbCleanup", "rbDone", "rbError"}

Terminal == {"done", "rbDone", "rbError"}

TypeOK ==
    /\ CloudTypeOK
    /\ pc \in Pcs
    /\ role \in BOOLEAN
    /\ reg \in [InstanceIds -> Node \cup {NoNode}]
    /\ attempts \in Nat
    /\ cur \in Nat
    /\ waitQ \in Seq(Nat)
    /\ pool \subseteq AddressIds
    /\ todoInst \subseteq InstanceIds
    /\ todoAddr \subseteq AddressIds
    /\ masterNodes \subseteq InstanceIds /\ workerNodes \subseteq InstanceIds
    /\ rbIds \subseteq InstanceIds /\ rbEips \subseteq AddressIds
    /\ confirmed \subseteq AddressIds /\ relAsked \subseteq AddressIds
    /\ launched \subseteq InstanceIds /\ allocated \subseteq AddressIds

RegIds == {i \in InstanceIds : reg[i] # NoNode}

Count(m) == IF m THEN MasterNum ELSE WorkerNum

Init ==
    /\ vm = [i \in InstanceIds |->
               IF i \in PreExisting THEN "running"
               ELSE IF i \in StaleWorkers THEN "terminated" ELSE "absent"]
    /\ vmMaster = [i \in InstanceIds |-> i \in PreMasters]
    /\ addrSt = [e \in AddressIds |-> "absent"]
    /\ addrInst = [e \in AddressIds |-> NoInst]
    /\ tasks = <<>>
    /\ bindings = {}
    /\ pc = "prepare"
    /\ role = TRUE
    /\ reg = [i \in InstanceIds |-> NoNode]
    /\ attempts = 0 /\ cur = 0 /\ waitQ = <<>>
    /\ pool = {} /\ todoInst = {} /\ todoAddr = {}
    /\ masterNodes = PreMasters
    /\ workerNodes = PreWorkers \cup StaleWorkers
    /\ rbIds = {} /\ rbEips = {} /\ confirmed = {} /\ relAsked = {}
    /\ launched = {} /\ allocated = {}

-----------------------------------------------------------------------------
(* Polling with wait.ExponentialBackoff (describeVpcTaskResult).  A poll   *)
(* that answers "not yet" (task Running, or the describe call failed) is   *)
(* retried while attempts remain; on the last attempt it is the timeout.  *)

CanRetry == attempts + 1 < BackoffSteps

\* A variant that forgets to count the attempt.
RetryUncounted == attempts' = attempts

\* One more attempt of the backoff.
Retry == attempts' = attempts + 1

\* The ends a poll of task t can give: "ok" (Success, or the describe call
\* answered), "err" (Failed, or ErrWaitTimeout on the last attempt).
PollEnds(t) ==
       (IF TaskResult(t) = "success" THEN {"ok"} ELSE {})
  \cup (IF TaskResult(t) = "failed" THEN {"err"} ELSE {})
  \cup (IF attempts + 1 = BackoffSteps THEN {"err"} ELSE {})

-----------------------------------------------------------------------------
(* generateInstance                                                        *)

\* generateInstance launches the master batch, then the worker batch, each
\* only when its count is positive, then waits for Running.
LaunchWorkers ==
    IF WorkerNum > 0 THEN pc' = "run" /\ role' = FALSE
    ELSE pc' = "waitRunning" /\ role' = TRUE

LaunchMasters ==
    IF MasterNum > 0 THEN pc' = "run" /\ role' = TRUE ELSE LaunchWorkers

\* Then the allocateEIPForInstance calls, which also need UseEIP, then the
\* wait for eipTaskIds, then assembleInstanceStatus.
WaitEips ==
    /\ pc' = IF waitQ = <<>> THEN "assemble" ELSE "assocWait"
    /\ role' = role

AllocWorkers ==
    IF WorkerNum > 0 /\ UseEIP THEN pc' = "alloc" /\ role' = FALSE ELSE WaitEips

AllocMasters ==
    IF MasterNum > 0 /\ UseEIP THEN pc' = "alloc" /\ role' = TRUE ELSE AllocWorkers

\* joinCheck: the workers of the .state file whose instance describeInstances
\* still lists.
ValidWorkers == {w \in workerNodes : Alive(w)}

\* generateClientSDK, the check fn (nil for create, joinCheck for join),
\* CreateKeyPair, configNetwork and configSecurityGroup: each can fail.
\* joinCheck fails when describeInstances finds no instance of the cluster
\* and drops the .state workers whose instance is not found.
Prepare ==
    /\ pc = "prepare"
    /\ \/ /\ pc' = "failed"
          /\ UNCHANGED <<role, workerNodes>>
       \/ /\ Command = "join" => \E i \in InstanceIds : Alive(i)
          /\ workerNodes' = IF Command = "join" THEN ValidWorkers ELSE workerNodes
          /\ LaunchMasters
    /\ UNCHANGED cloudVars
    /\ UNCHANGED <<reg, attempts, cur, waitQ, pool, todoInst, todoAddr,
                   masterNodes, rbIds, rbEips, confirmed, relAsked,
                   launched, allocated>>

\* The node runInstances stores for each returned id.
LaunchedNode(m) ==
    [master |-> m, rollback |-> TRUE, current |-> FALSE, status |-> "pending",
     eips |-> {}, public |-> FALSE]

\* runInstances(num, role, password): RunInstances creates k <= num
\* instances; the call counts as failed unless it returns num ids
\* (err != nil || len(InstanceIdSet) != num), and only then are the ids
\* stored in p.m, as Pending with RollBack set.
LaunchBatch ==
    /\ pc = "run"
    /\ \E k \in 0..Count(role) :
         LET S == FreshInstances(k) IN
         /\ S \subseteq AbsentInstances /\ Cardinality(S) = k
         /\ RunInstancesCall(S, role)
         /\ launched' = launched \cup S
         /\ \/ /\ k = Count(role)
               /\ reg' = [i \in InstanceIds |->
                           IF i \in S THEN LaunchedNode(role) ELSE reg[i]]
               /\ IF role THEN LaunchWorkers ELSE pc' = "waitRunning" /\ role' = TRUE
            \/ /\ pc' = "failed"
               /\ UNCHANGED <<reg, role>>
    /\ UNCHANGED <<attempts, cur, waitQ, pool, todoInst, todoAddr,
                   masterNodes, workerNodes, rbIds, rbEips, confirmed,
                   relAsked, allocated>>

\* The ids a DescribeInstancesStatus answer for RegIds can list: at most
\* StatusLimit of them, in an order the code does not control.
StatusPages ==
    LET n == IF Cardinality(RegIds) < StatusLimit
             THEN Cardinality(RegIds) ELSE StatusLimit
    IN  {R \in SUBSET RegIds : Cardinality(R) = n}

\* A variant that stores the task result constant (tencent.Success) in
\* place of tencent.StatusRunning.
MarkRunningAsSuccess(U) ==
    [i \in InstanceIds |-> IF i \in U THEN [reg[i] EXCEPT !.status = "success"]
                           ELSE reg[i]]

\* Node n once getInstanceStatus has seen it Running.
MarkedRunning(n) == [n EXCEPT !.status = "running"]

MarkRunning(U) ==
    [i \in InstanceIds |-> IF i \in U THEN MarkedRunning(reg[i]) ELSE reg[i]]

\* A variant that accepts an answer as soon as one entry is Running.
AnyRunning(R) == \E i \in R : vm[i] = "running"

\* The poll's verdict on an answer: true only if no entry is in another
\* state (the loop returns false at the first one).
AllRunning(R) == \A i \in R : vm[i] = "running"

\* The entries a poll that does not end has marked Running: the loop over
\* the answer stores each Running entry and returns at the first other one
\* (any prefix of an unordered answer); a failed call marks none.
NotDoneMarks(R) ==
    IF AllRunning(R) THEN {{}}
    ELSE SUBSET {i \in R : vm[i] = "running"}

\* getInstanceStatus(Running): one poll of its backoff.
WaitRunning ==
    /\ pc = "waitRunning"
    /\ \E R \in StatusPages :
         \/ /\ AllRunning(R)
            /\ reg' = MarkRunning(R)
            /\ attempts' = 0
            /\ AllocMasters
         \/ \E U \in NotDoneMarks(R) :
            /\ reg' = MarkRunning(U)
            /\ \/ CanRetry /\ Retry /\ UNCHANGED <<pc, role>>
               \/ ~CanRetry /\ attempts' = 0 /\ pc' = "failed" /\ UNCHANGED role
    /\ UNCHANGED cloudVars
    /\ UNCHANGED <<cur, waitQ, pool, todoInst, todoAddr, masterNodes,
                   workerNodes, rbIds, rbEips, confirmed, relAsked,
                   launched, allocated>>

\* allocateEIPForInstance: allocateAddresses(num).  The call can fail, or
\* succeed with a TaskId that ParseUint refuses: the addresses are then
\* allocated and the error is returned.
AllocateEIP ==
    /\ pc = "alloc"
    /\ \/ /\ pc' = "failed"
          /\ UNCHANGED <<cloudVars, cur, pool, allocated>>
       \/ LET A == FreshAddresses(Count(role)) IN
          /\ A \subseteq AbsentAddresses /\ Cardinality(A) = Count(role)
          /\ AllocateCall(A)
          /\ allocated' = allocated \cup A
          /\ \/ pool' = A /\ cur' = Len(tasks) + 1 /\ pc' = "allocWait"
             \/ pc' = "failed" /\ UNCHANGED <<cur, pool>>
    /\ attempts' = 0
    /\ UNCHANGED <<role, reg, waitQ, todoInst, todoAddr, masterNodes,
                   workerNodes, rbIds, rbEips, confirmed, relAsked, launched>>

\* allocateEIPForInstance: describeVpcTaskResult(taskID) of the allocation.
AllocWait ==
    /\ pc = "allocWait"
    /\ \/ CanRetry /\ Retry /\ UNCHANGED pc
       \/ \E r \in PollEnds(cur) :
            /\ pc' = IF r = "ok" THEN "describeAlloc" ELSE "failed"
            /\ attempts' = 0
    /\ UNCHANGED cloudVars
    /\ UNCHANGED <<role, reg, cur, waitQ, pool, todoInst, todoAddr,
                   masterNodes, workerNodes, rbIds, rbEips, confirmed,
                   relAsked, launched, allocated>>

\* allocateEIPForInstance: describeAddresses(eips).
DescribeAllocated ==
    /\ pc = "describeAlloc"
    /\ pc' \in {"failed", "assoc"}
    /\ UNCHANGED cloudVars
    /\ UNCHANGED <<role, reg, attempts, cur, waitQ, pool, todoInst, todoAddr,
                   masterNodes, workerNodes, rbIds, rbEips, confirmed,
                   relAsked, launched, allocated>>

\* Nodes of p.m the Range of allocateEIPForInstance still pairs.
Candidates == {i \in RegIds : reg[i].master = role /\ ~reg[i].public}

\* The end of allocateEIPForInstance: it returns eipIds and a nil error
\* both when every candidate is paired and when associateAddress failed.
EndAssoc ==
    /\ pool' = {}
    /\ IF role THEN AllocWorkers ELSE WaitEips

\* Node n once address e is associated with it.
Paired(n, e) == [n EXCEPT !.eips = @ \cup {e}, !.public = TRUE]

\* A variant that does not advance eipAddresses after a pairing.
AssociateNoAdvance ==
    /\ pc = "assoc"
    /\ Candidates # {}
    /\ pool # {}
    /\ \E i \in Candidates :
         LET e == CHOOSE a \in pool : TRUE IN
         \/ /\ AssociateCall(e, i)
            /\ reg' = [reg EXCEPT ![i] = Paired(@, e)]
            /\ pool' = pool
            /\ waitQ' = Append(waitQ, Len(tasks) + 1)
            /\ UNCHANGED <<pc, role>>
         \/ /\ EndAssoc
            /\ UNCHANGED <<cloudVars, reg, waitQ>>
    /\ UNCHANGED <<attempts, cur, todoInst, todoAddr, masterNodes, workerNodes,
                   rbIds, rbEips, confirmed, relAsked, launched, allocated>>

\* allocateEIPForInstance: one iteration of the p.m.Range that pairs
\* eipAddresses[0] with the visited node.  A failed associateAddress
\* stops the Range; the node is not stored.
Associate ==
    /\ pc = "assoc"
    /\ Candidates # {}
    /\ pool # {}
    /\ \E i \in Candidates :
         LET e == CHOOSE a \in pool : TRUE IN
         \/ /\ AssociateCall(e, i)
            /\ reg' = [reg EXCEPT ![i] = Paired(@, e)]
            /\ pool' = pool \ {e}
            /\ waitQ' = Append(waitQ, Len(tasks) + 1)
            /\ UNCHANGED <<pc, role>>
         \/ /\ EndAssoc
            /\ UNCHANGED <<cloudVars, reg, waitQ>>
    /\ UNCHANGED <<attempts, cur, todoInst, todoAddr, masterNodes, workerNodes,
                   rbIds, rbEips, confirmed, relAsked, launched, allocated>>

\* The Range has visited every node.
AssocDone ==
    /\ pc = "assoc"
    /\ Candidates = {}
    /\ EndAssoc
    /\ UNCHANGED cloudVars
    /\ UNCHANGED <<reg, attempts, cur, waitQ, todoInst, todoAddr, masterNodes,
                   workerNodes, rbIds, rbEips, confirmed, relAsked, launched,
                   allocated>>

\* generateInstance: describeVpcTaskResult for each of eipTaskIds.
AssocWait ==
    /\ pc = "assocWait"
    /\ \/ CanRetry /\ Retry /\ UNCHANGED <<pc, waitQ>>
       \/ \E r \in PollEnds(Head(waitQ)) :
            /\ attempts' = 0
            /\ \/ /\ r = "ok"
                  /\ waitQ' = Tail(waitQ)
                  /\ pc' = IF Tail(waitQ) = <<>> THEN "assemble" ELSE "assocWait"
               \/ /\ r = "err"
                  /\ pc' = "failed"
                  /\ UNCHANGED waitQ
    /\ UNCHANGED cloudVars
    /\ UNCHANGED <<role, reg, cur, pool, todoInst, todoAddr, masterNodes,
                   workerNodes, rbIds, rbEips, confirmed, relAsked, launched,
                   allocated>>

\* assembleInstanceStatus: describeInstances (tag filter of the cluster).
ListInstances ==
    /\ pc = "assemble"
    /\ \/ pc' = "failed" /\ UNCHANGED todoInst
       \/ pc' = "assembleNode" /\ todoInst' = {i \in InstanceIds : Alive(i)}
    /\ UNCHANGED cloudVars
    /\ UNCHANGED <<role, reg, attempts, cur, waitQ, pool, todoAddr,
                   masterNodes, workerNodes, rbIds, rbEips, confirmed,
                   relAsked, launched, allocated>>

\* PublicIpAddresses of instance i: launched with a public IP unless
\* EIPs are used (PublicIpAssigned = !PublicIPAssignedEIP).
HasPublicIp(i) == IF UseEIP THEN BoundTo(i) # {} ELSE TRUE

\* A variant that marks discovered nodes for rollback like launched ones.
DiscoveredNodeRollback(i) ==
    [master |-> vmMaster[i], rollback |-> TRUE, current |-> FALSE,
     status |-> "running", eips |-> BoundTo(i), public |-> HasPublicIp(i)]

\* The node assembleInstanceStatus stores for an instance of the cluster
\* that p.m does not hold: Running, without RollBack, role from its tag.
DiscoveredNode(i) ==
    [master |-> vmMaster[i], rollback |-> FALSE, current |-> FALSE,
     status |-> "running", eips |-> BoundTo(i), public |-> HasPublicIp(i)]

\* Node n of instance i made Current with what the provider reports.
Assembled(n, i) ==
    [n EXCEPT !.current = TRUE, !.eips = BoundTo(i), !.public = HasPublicIp(i)]

\* assembleInstanceStatus: one instance of instanceList.  A node of p.m
\* becomes Current with the addresses the provider reports (after the key
\* upload, which can fail); an instance unknown to p.m is stored as a
\* Running node without RollBack, its role read from its tag.
AssembleNode ==
    /\ pc = "assembleNode"
    /\ \E i \in todoInst :
         \/ /\ UseEIP \/ (reg[i] # NoNode /\ NeedUpload)
            /\ pc' = "failed"
            /\ UNCHANGED <<reg, todoInst>>
         \/ /\ reg' = [reg EXCEPT ![i] =
                 IF reg[i] # NoNode THEN Assembled(reg[i], i) ELSE DiscoveredNode(i)]
            /\ todoInst' = todoInst \ {i}
            /\ UNCHANGED pc
    /\ UNCHANGED cloudVars
    /\ UNCHANGED <<role, attempts, cur, waitQ, pool, todoAddr, masterNodes,
                   workerNodes, rbIds, rbEips, confirmed, relAsked, launched,
                   allocated>>

\* assembleInstanceStatus ends with syncNodeStatusWithInstance: every node
\* of p.m not yet in p.Status is appended to the list of its role.
SyncNodeStatus ==
    /\ pc = "assembleNode"
    /\ todoInst = {}
    /\ masterNodes' = masterNodes \cup {i \in RegIds : reg[i].master}
    /\ workerNodes' = workerNodes \cup {i \in RegIds : ~reg[i].master}
    /\ pc' = "bootstrap"
    /\ UNCHANGED cloudVars
    /\ UNCHANGED <<role, reg, attempts, cur, waitQ, pool, todoInst, todoAddr,
                   rbIds, rbEips, confirmed, relAsked, launched, allocated>>

\* CreateK3sCluster: InitK3sCluster and DeployExtraManifest; JoinK3sNode:
\* cluster.JoinK3sNode with the Current nodes.  Either can fail.
Bootstrap ==
    /\ pc = "bootstrap"
    /\ pc' \in {"done", "failed"}
    /\ UNCHANGED cloudVars
    /\ UNCHANGED <<role, reg, attempts, cur, waitQ, pool, todoInst, todoAddr,
                   masterNodes, workerNodes, rbIds, rbEips, confirmed,
                   relAsked, launched, allocated>>

-----------------------------------------------------------------------------
(* Rollback, run by the caller when the call returned an error.            *)

RollbackStart ==
    /\ pc = "failed"
    /\ LET ids == {i \in RegIds : reg[i].rollback} IN
       /\ rbIds' = ids
       /\ pc' = IF ids = {} THEN "rbCleanup"
                ELSE IF UseEIP THEN "rbDescribe" ELSE "rbTerminate"
    /\ attempts' = 0
    /\ waitQ' = <<>>
    /\ UNCHANGED cloudVars
    /\ UNCHANGED <<role, reg, cur, pool, todoInst, todoAddr, masterNodes,
                   workerNodes, rbEips, confirmed, relAsked, launched,
                   allocated>>

\* describeAddresses(nil, ids): on an error Rollback logs and goes on
\* with no eips.
RbDescribe ==
    /\ pc = "rbDescribe"
    /\ \E E \in {{}, BoundToAny(rbIds)} :
         rbEips' = E /\ todoAddr' = E
    /\ pc' = "rbDisassoc"
    /\ UNCHANGED cloudVars
    /\ UNCHANGED <<role, reg, attempts, cur, waitQ, pool, todoInst,
                   masterNodes, workerNodes, rbIds, confirmed, relAsked,
                   launched, allocated>>

\* disassociateAddress for one eip; an error is only logged.
RbDisassociate ==
    /\ pc = "rbDisassoc"
    /\ \E e \in todoAddr :
         /\ todoAddr' = todoAddr \ {e}
         /\ \/ DisassociateCall(e) /\ waitQ' = Append(waitQ, Len(tasks) + 1)
            \/ UNCHANGED <<cloudVars, waitQ>>
    /\ UNCHANGED <<pc, role, reg, attempts, cur, pool, todoInst, masterNodes,
                   workerNodes, rbIds, rbEips, confirmed, relAsked, launched,
                   allocated>>

RbDisassocDone ==
    /\ pc = "rbDisassoc"
    /\ todoAddr = {}
    /\ pc' = IF waitQ = <<>> THEN "rbRelease" ELSE "rbDisWait"
    /\ UNCHANGED cloudVars
    /\ UNCHANGED <<role, reg, attempts, cur, waitQ, pool, todoInst, todoAddr,
                   masterNodes, workerNodes, rbIds, rbEips, confirmed,
                   relAsked, launched, allocated>>

\* describeVpcTaskResult for each disassociation task; an error is logged.
RbDisWait ==
    /\ pc = "rbDisWait"
    /\ \/ /\ CanRetry /\ Retry
          /\ UNCHANGED <<pc, waitQ, confirmed>>
       \/ \E r \in PollEnds(Head(waitQ)) :
            /\ confirmed' = IF r = "ok" THEN confirmed \cup tasks[Head(waitQ)].addrs
                            ELSE confirmed
            /\ waitQ' = Tail(waitQ)
            /\ attempts' = 0
            /\ pc' = IF Tail(waitQ) = <<>> THEN "rbRelease" ELSE "rbDisWait"
    /\ UNCHANGED cloudVars
    /\ UNCHANGED <<role, reg, cur, pool, todoInst, todoAddr, masterNodes,
                   workerNodes, rbIds, rbEips, relAsked, launched, allocated>>

\* releaseAddresses(eipIds) for every eip found, whatever became of its
\* disassociation; on an error the TaskId is 0 and is waited for anyway.
RbRelease ==
    /\ pc = "rbRelease"
    /\ relAsked' = relAsked \cup rbEips
    /\ \/ ReleaseCall(rbEips) /\ cur' = Len(tasks) + 1
       \/ UNCHANGED cloudVars /\ cur' = 0
    /\ pc' = "rbRelWait"
    /\ attempts' = 0
    /\ UNCHANGED <<role, reg, waitQ, pool, todoInst, todoAddr, masterNodes,
                   workerNodes, rbIds, rbEips, confirmed, launched, allocated>>

\* describeVpcTaskResult of the release; its result is only logged.
RbRelWait ==
    /\ pc = "rbRelWait"
    /\ \/ CanRetry /\ Retry /\ UNCHANGED pc
       \/ PollEnds(cur) # {} /\ attempts' = 0 /\ pc' = "rbTerminate"
    /\ UNCHANGED cloudVars
    /\ UNCHANGED <<role, reg, cur, waitQ, pool, todoInst, todoAddr,
                   masterNodes, workerNodes, rbIds, rbEips, confirmed,
                   relAsked, launched, allocated>>

\* terminateInstances(ids) under a backoff of RollbackSteps attempts; its
\* exhaustion is the error Rollback returns.
RbTerminate ==
    /\ pc = "rbTerminate"
    /\ \/ /\ TerminateCall(rbIds)
          /\ pc' = "rbCleanup"
          /\ UNCHANGED attempts
       \/ /\ attempts + 1 < RollbackSteps
          /\ attempts' = attempts + 1
          /\ UNCHANGED <<cloudVars, pc>>
       \/ /\ attempts + 1 = RollbackSteps
          /\ pc' = "rbError"
          /\ UNCHANGED <<cloudVars, attempts>>
    /\ UNCHANGED <<role, reg, cur, waitQ, pool, todoInst, todoAddr,
                   masterNodes, workerNodes, rbIds, rbEips, confirmed,
                   relAsked, launched, allocated>>

\* os.RemoveAll of the cluster folder; its error is returned.
RbCleanup ==
    /\ pc = "rbCleanup"
    /\ pc' \in {"rbDone", "rbError"}
    /\ UNCHANGED cloudVars
    /\ UNCHANGED <<role, reg, attempts, cur, waitQ, pool, todoInst, todoAddr,
                   masterNodes, workerNodes, rbIds, rbEips, confirmed,
                   relAsked, launched, allocated>>

\* The command has returned.
Finished ==
    /\ pc \in Terminal
    /\ UNCHANGED vars

Process ==
    \/ Prepare \/ LaunchBatch \/ WaitRunning
    \/ AllocateEIP \/ AllocWait \/ DescribeAllocated \/ Associate \/ AssocDone
    \/ AssocWait \/ ListInstances \/ AssembleNode \/ SyncNodeStatus
    \/ Bootstrap
    \/ RollbackStart \/ RbDescribe \/ RbDisassociate \/ RbDisassocDone
    \/ RbDisWait \/ RbRelease \/ RbRelWait \/ RbTerminate \/ RbCleanup

Next ==
    \/ Process
    \/ \E i \in InstanceIds : Boot(i) /\ UNCHANGED procVars
    \/ \E t \in 1..Len(tasks) : TaskSucceeds(t) /\ UNCHANGED procVars
    \/ \E t \in 1..Len(tasks) : TaskFails(t) /\ UNCHANGED procVars
    \/ Finished

\* The process's steps are synchronous calls that return (the SDK's own
\* timeout bounds each); the provider is given no fairness.
Spec == Init /\ [][Next]_vars /\ WF_vars(Process)

-----------------------------------------------------------------------------
(* Properties                                                              *)

\* Rollback terminates only instances this invocation launched: an
\* instance of the cluster that existed before CreateK3sCluster/JoinK3sNode
\* (found again by assembleInstanceStatus) is never terminated, however
\* runInstances, assembleInstanceStatus and Rollback interleave.
RollbackOnlyOwnInstances ==
    \A i \in InstanceIds : vm[i] = "terminated" => i \in launched \cup StaleWorkers

\* allocateEIPForInstance pairs addresses and nodes one to one: no address
\* is recorded for two nodes of p.m and no node holds two addresses.
AddressPairing ==
    \A i, j \in RegIds :
        /\ i # j => reg[i].eips \cap reg[j].eips = {}
        /\ Cardinality(reg[i].eips) <= 1

\* getInstanceStatus has made every node of this call Running before the
\* k3s bootstrap is handed the nodes: a Current node is Running both in
\* p.m and at the provider.
BootstrapOnlyRunning ==
    pc = "bootstrap" =>
        \A i \in RegIds : reg[i].current =>
            reg[i].status = "running" /\ vm[i] = "running"

\* Every wait is bounded by its backoff, so each invocation returns
\* (Create/Join, then Rollback) whatever the provider does.
Termination == <>(pc \in Terminal)

\* Rollback that reports success has left no address allocated by this
\* invocation behind (spec: an orphaned floating IP with an unreported
\* error is worse than an incomplete cleanup).
RollbackLeavesNoAddress ==
    pc = "rbDone" => \A e \in allocated : addrSt[e] = "released"

\* Release is never attempted for an address before its disassociation
\* task has been seen Done (spec, Release ordering).
ReleaseAfterDisassociation == relAsked \subseteq confirmed

=============================================================================
