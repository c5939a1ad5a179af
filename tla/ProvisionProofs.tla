--------------------------- MODULE ProvisionProofs ---------------------------
(***************************************************************************)
(* Proofs about one invocation of CreateK3sCluster/JoinK3sNode and its    *)
(* Rollback (module Provision), for every value of the constants that     *)
(* satisfies CloudAssumption and ProvisionAssumption.                     *)
(***************************************************************************)
EXTENDS Provision, TencentCloudProofs, TLAPS

\* The two waits over a queue of TaskIds (AssocWait over eipTaskIds,
\* RbDisWait over the disassociation taskIds) are entered only with a
\* nonempty queue, so Head and Tail are applied to a nonempty sequence.
WaitQueued == pc \in {"assocWait", "rbDisWait"} => waitQ # <<>>

\* The inductive strengthening of TypeOK.
TInv == TypeOK /\ WaitQueued

USE CloudAssumption, ProvisionAssumption, NoNodeAssumption

-----------------------------------------------------------------------------
(* Lemmas on the helpers the actions are built from.                       *)

\* The phase helpers of generateInstance: LaunchMasters and LaunchWorkers
\* go to a launch or to the Running wait, the others to an allocation,
\* to assembleInstanceStatus or, with a nonempty eipTaskIds, to its wait.
LEMMA PhaseTypes ==
    /\ (LaunchMasters \/ LaunchWorkers) =>
           pc' \in {"run", "waitRunning"} /\ role' \in BOOLEAN
    /\ role \in BOOLEAN /\ (AllocMasters \/ AllocWorkers \/ WaitEips) =>
           /\ pc' \in {"alloc", "assemble", "assocWait"} /\ role' \in BOOLEAN
           /\ pc' = "assocWait" => waitQ # <<>>
BY DEF LaunchMasters, LaunchWorkers, AllocMasters, AllocWorkers, WaitEips

\* The record updates of p.m keep a node a node.
LEMMA MarkedRunningType ==
    ASSUME NEW n \in Node
    PROVE  MarkedRunning(n) \in Node
BY Zenon DEF MarkedRunning, Node

LEMMA PairedType ==
    ASSUME NEW n \in Node, NEW e \in AddressIds
    PROVE  Paired(n, e) \in Node
BY Zenon DEF Paired, Node

LEMMA AssembledType ==
    ASSUME NEW n \in Node, NEW i \in InstanceIds
    PROVE  Assembled(n, i) \in Node
<1>1. BoundTo(i) \subseteq AddressIds /\ HasPublicIp(i) \in BOOLEAN
  BY DEF BoundTo, HasPublicIp
<1>2. QED
  BY <1>1, Zenon DEF Assembled, Node

\* What remains of a nonempty queue of TaskIds is a queue of TaskIds.
LEMMA TailType ==
    ASSUME waitQ \in Seq(Nat), waitQ # <<>>
    PROVE  Tail(waitQ) \in Seq(Nat) /\ Head(waitQ) \in Nat
OBVIOUS

\* A node updated by MarkRunning stays a node.
LEMMA MarkRunningType ==
    ASSUME reg \in [InstanceIds -> Node \cup {NoNode}],
           NEW U \in SUBSET RegIds
    PROVE  MarkRunning(U) \in [InstanceIds -> Node \cup {NoNode}]
<1>1. \A i \in U : MarkedRunning(reg[i]) \in Node
  BY MarkedRunningType DEF RegIds
<1>2. QED
  BY <1>1 DEF MarkRunning, RegIds

\* Every answer of DescribeInstancesStatus lists registered ids only.
LEMMA StatusPagesSub ==
    \A R \in StatusPages : R \subseteq RegIds
BY DEF StatusPages

\* The ends of a poll are "ok" and "err"; an "ok" names an issued task.
LEMMA PollEndsRange ==
    ASSUME NEW t
    PROVE  /\ PollEnds(t) \subseteq {"ok", "err"}
           /\ "ok" \in PollEnds(t) => t \in 1..Len(tasks)
BY DEF PollEnds, TaskResult

-----------------------------------------------------------------------------
(* Type correctness, one lemma per step of the process and of the         *)
(* provider.                                                               *)

\* A step that leaves the provider alone keeps its state well typed.
LEMMA TypePrepare ==
    ASSUME TInv, Prepare PROVE TInv'
BY CloudStutter, PhaseTypes DEF TInv, TypeOK, WaitQueued, Prepare, Pcs, ValidWorkers

LEMMA TypeLaunchBatch ==
    ASSUME TInv, LaunchBatch PROVE TInv'
<1>1. PICK k \in 0..Count(role) :
         LET S == FreshInstances(k) IN
         /\ S \subseteq AbsentInstances /\ Cardinality(S) = k
         /\ RunInstancesCall(S, role)
         /\ launched' = launched \cup S
         /\ \/ /\ k = Count(role)
               /\ reg' = [i \in InstanceIds |->
                           IF i \in S THEN LaunchedNode(role) ELSE reg[i]]
               /\ IF role THEN LaunchWorkers ELSE pc' = "waitRunning" /\ role' = TRUE
            \/ /\ pc' = "failed"
               /\ UNCHANGED <<reg, role>>
  BY DEF LaunchBatch
<1>. DEFINE S == FreshInstances(k)
<1>2. S \subseteq InstanceIds
  BY <1>1 DEF AbsentInstances
<1>3. CloudTypeOK'
  BY <1>1, <1>2 DEF TInv, TypeOK, CloudTypeOK, RunInstancesCall, VmStates
<1>4. LaunchedNode(role) \in Node
  BY DEF TInv, TypeOK, LaunchedNode, Node
<1>5. QED
  BY <1>1, <1>2, <1>3, <1>4, PhaseTypes DEF TInv, TypeOK, WaitQueued, LaunchBatch,
     Pcs

LEMMA TypeWaitRunning ==
    ASSUME TInv, WaitRunning PROVE TInv'
<1>1. PICK R \in StatusPages :
         \/ /\ AllRunning(R)
            /\ reg' = MarkRunning(R)
            /\ attempts' = 0
            /\ AllocMasters
         \/ \E U \in NotDoneMarks(R) :
            /\ reg' = MarkRunning(U)
            /\ \/ CanRetry /\ Retry /\ UNCHANGED <<pc, role>>
               \/ ~CanRetry /\ attempts' = 0 /\ pc' = "failed" /\ UNCHANGED role
  BY DEF WaitRunning
<1>2. R \subseteq RegIds
  BY StatusPagesSub
<1>3. reg' \in [InstanceIds -> Node \cup {NoNode}]
  BY <1>1, <1>2, MarkRunningType DEF TInv, TypeOK, NotDoneMarks
<1>4. QED
  BY <1>1, <1>3, CloudStutter, PhaseTypes DEF TInv, TypeOK, WaitQueued,
     WaitRunning, Retry, Pcs

LEMMA TypeAllocateEIP ==
    ASSUME TInv, AllocateEIP PROVE TInv'
<1>1. CASE pc' = "failed" /\ UNCHANGED <<cloudVars, cur, pool, allocated>>
  BY <1>1, CloudStutter DEF TInv, TypeOK, WaitQueued, AllocateEIP, Pcs
<1>2. CASE LET A == FreshAddresses(Count(role)) IN
           /\ A \subseteq AbsentAddresses /\ Cardinality(A) = Count(role)
           /\ AllocateCall(A)
           /\ allocated' = allocated \cup A
           /\ \/ pool' = A /\ cur' = Len(tasks) + 1 /\ pc' = "allocWait"
              \/ pc' = "failed" /\ UNCHANGED <<cur, pool>>
  <2>. DEFINE A == FreshAddresses(Count(role))
  <2>1. A \subseteq AddressIds
    BY <1>2 DEF AbsentAddresses
  <2>2. CloudTypeOK'
    BY <1>2, <2>1, IssueType DEF TInv, TypeOK, CloudTypeOK, AllocateCall,
       AddrStates
  <2>3. QED
    BY <1>2, <2>1, <2>2 DEF TInv, TypeOK, WaitQueued, AllocateEIP, Pcs
<1>3. QED
  BY <1>1, <1>2 DEF AllocateEIP

LEMMA TypeAllocWait ==
    ASSUME TInv, AllocWait PROVE TInv'
BY CloudStutter, PollEndsRange DEF TInv, TypeOK, WaitQueued, AllocWait, Retry, Pcs

LEMMA TypeDescribeAllocated ==
    ASSUME TInv, DescribeAllocated PROVE TInv'
BY CloudStutter DEF TInv, TypeOK, WaitQueued, DescribeAllocated, Pcs

\* The end of the Range, when it is cut short or has visited every node.
LEMMA TypeEndAssoc ==
    ASSUME TInv, pc = "assoc", EndAssoc, UNCHANGED <<cloudVars, reg, waitQ>>,
           UNCHANGED <<attempts, cur, todoInst, todoAddr, masterNodes,
                       workerNodes, rbIds, rbEips, confirmed, relAsked,
                       launched, allocated>>
    PROVE  TInv'
BY CloudStutter, PhaseTypes DEF TInv, TypeOK, WaitQueued, EndAssoc, Pcs

LEMMA TypeAssociate ==
    ASSUME TInv, Associate PROVE TInv'
<1>. DEFINE e == CHOOSE a \in pool : TRUE
<1>1. e \in AddressIds
  BY DEF Associate, TInv, TypeOK
<1>2. PICK i \in Candidates :
         \/ /\ AssociateCall(e, i)
            /\ reg' = [reg EXCEPT ![i] = Paired(@, e)]
            /\ pool' = pool \ {e}
            /\ waitQ' = Append(waitQ, Len(tasks) + 1)
            /\ UNCHANGED <<pc, role>>
         \/ /\ EndAssoc
            /\ UNCHANGED <<cloudVars, reg, waitQ>>
  BY DEF Associate
<1>3. i \in RegIds
  BY DEF Candidates
<1>4. CASE /\ AssociateCall(e, i)
           /\ reg' = [reg EXCEPT ![i] = Paired(@, e)]
           /\ pool' = pool \ {e}
           /\ waitQ' = Append(waitQ, Len(tasks) + 1)
           /\ UNCHANGED <<pc, role>>
  <2>1. Paired(reg[i], e) \in Node
    BY <1>1, <1>3, PairedType DEF RegIds, TInv, TypeOK
  <2>2. CloudTypeOK'
    BY <1>1, <1>3, <1>4, IssueType DEF TInv, TypeOK, CloudTypeOK, AssociateCall,
       RegIds
  <2>3. reg' \in [InstanceIds -> Node \cup {NoNode}]
    BY <1>4, <2>1 DEF TInv, TypeOK
  <2>4. waitQ' \in Seq(Nat) /\ waitQ' # <<>>
    BY <1>4 DEF TInv, TypeOK, CloudTypeOK
  <2>5. QED
    BY <1>4, <2>2, <2>3, <2>4 DEF TInv, TypeOK, WaitQueued, Associate
<1>5. CASE EndAssoc /\ UNCHANGED <<cloudVars, reg, waitQ>>
  BY <1>5, TypeEndAssoc DEF Associate
<1>6. QED
  BY <1>2, <1>4, <1>5

LEMMA TypeAssocDone ==
    ASSUME TInv, AssocDone PROVE TInv'
BY TypeEndAssoc DEF AssocDone

LEMMA TypeAssocWait ==
    ASSUME TInv, AssocWait PROVE TInv'
<1>1. waitQ # <<>>
  BY DEF TInv, WaitQueued, AssocWait
<1>2. Tail(waitQ) \in Seq(Nat)
  BY <1>1, TailType DEF TInv, TypeOK
<1>3. CASE CanRetry /\ Retry /\ UNCHANGED <<pc, waitQ>>
  BY <1>3, CloudStutter DEF TInv, TypeOK, WaitQueued, AssocWait, Retry
<1>4. CASE \E r \in PollEnds(Head(waitQ)) :
             /\ attempts' = 0
             /\ \/ /\ r = "ok"
                   /\ waitQ' = Tail(waitQ)
                   /\ pc' = IF Tail(waitQ) = <<>> THEN "assemble" ELSE "assocWait"
                \/ /\ r = "err"
                   /\ pc' = "failed"
                   /\ UNCHANGED waitQ
  <2>1. PICK r \in PollEnds(Head(waitQ)) :
             /\ attempts' = 0
             /\ \/ /\ r = "ok"
                   /\ waitQ' = Tail(waitQ)
                   /\ pc' = IF Tail(waitQ) = <<>> THEN "assemble" ELSE "assocWait"
                \/ /\ r = "err"
                   /\ pc' = "failed"
                   /\ UNCHANGED waitQ
    BY <1>4
  <2>2. /\ waitQ' \in Seq(Nat) /\ pc' \in Pcs /\ attempts' \in Nat
        /\ (pc' = "assocWait" => waitQ' # <<>>)
    BY <1>2, <2>1 DEF TInv, TypeOK, Pcs
  <2>3. QED
    BY <2>2, CloudStutter DEF TInv, TypeOK, WaitQueued, AssocWait
<1>5. QED
  BY <1>3, <1>4 DEF AssocWait

LEMMA TypeListInstances ==
    ASSUME TInv, ListInstances PROVE TInv'
BY CloudStutter DEF TInv, TypeOK, WaitQueued, ListInstances, Pcs

LEMMA TypeAssembleNode ==
    ASSUME TInv, AssembleNode PROVE TInv'
<1>1. PICK i \in todoInst :
         \/ /\ UseEIP \/ (reg[i] # NoNode /\ NeedUpload)
            /\ pc' = "failed"
            /\ UNCHANGED <<reg, todoInst>>
         \/ /\ reg' = [reg EXCEPT ![i] =
                 IF reg[i] # NoNode THEN Assembled(reg[i], i) ELSE DiscoveredNode(i)]
            /\ todoInst' = todoInst \ {i}
            /\ UNCHANGED pc
  BY DEF AssembleNode
<1>2. i \in InstanceIds
  BY DEF TInv, TypeOK
<1>3. reg[i] # NoNode => Assembled(reg[i], i) \in Node
  BY <1>2, AssembledType DEF TInv, TypeOK
<1>4. DiscoveredNode(i) \in Node
  BY <1>2 DEF DiscoveredNode, HasPublicIp, BoundTo, Node, TInv, TypeOK,
     CloudTypeOK
<1>5. QED
  BY <1>1, <1>2, <1>3, <1>4, CloudStutter DEF TInv, TypeOK, WaitQueued,
     AssembleNode, Pcs

LEMMA TypeSyncNodeStatus ==
    ASSUME TInv, SyncNodeStatus PROVE TInv'
BY CloudStutter DEF TInv, TypeOK, WaitQueued, SyncNodeStatus, RegIds, Pcs

LEMMA TypeBootstrap ==
    ASSUME TInv, Bootstrap PROVE TInv'
BY CloudStutter DEF TInv, TypeOK, WaitQueued, Bootstrap, Pcs

LEMMA TypeRollbackStart ==
    ASSUME TInv, RollbackStart PROVE TInv'
BY CloudStutter DEF TInv, TypeOK, WaitQueued, RollbackStart, RegIds, Pcs

LEMMA TypeRbDescribe ==
    ASSUME TInv, RbDescribe PROVE TInv'
BY CloudStutter DEF TInv, TypeOK, WaitQueued, RbDescribe, BoundToAny, Pcs

LEMMA TypeRbDisassociate ==
    ASSUME TInv, RbDisassociate PROVE TInv'
<1>1. PICK e \in todoAddr :
         /\ todoAddr' = todoAddr \ {e}
         /\ \/ DisassociateCall(e) /\ waitQ' = Append(waitQ, Len(tasks) + 1)
            \/ UNCHANGED <<cloudVars, waitQ>>
  BY DEF RbDisassociate
<1>2. CloudTypeOK'
  <2>1. CASE DisassociateCall(e)
    <3>1. Append(tasks, NewTask("disassoc", {e}, NoInst)) \in Seq(TaskRec)
      BY IssueType DEF TInv, TypeOK, CloudTypeOK
    <3>2. QED
      BY <2>1, <3>1 DEF TInv, TypeOK, CloudTypeOK, DisassociateCall
  <2>2. CASE UNCHANGED <<cloudVars, waitQ>>
    BY <2>2, CloudStutter DEF TInv, TypeOK
  <2>3. QED
    BY <1>1, <2>1, <2>2
<1>3. waitQ' \in Seq(Nat)
  <2>1. CASE DisassociateCall(e) /\ waitQ' = Append(waitQ, Len(tasks) + 1)
    <3>1. Len(tasks) + 1 \in Nat
      BY DEF TInv, TypeOK, CloudTypeOK
    <3>2. QED
      BY <2>1, <3>1 DEF TInv, TypeOK
  <2>2. CASE UNCHANGED <<cloudVars, waitQ>>
    BY <2>2 DEF TInv, TypeOK
  <2>3. QED
    BY <1>1, <2>1, <2>2
<1>4. todoAddr' \subseteq AddressIds
  BY <1>1 DEF TInv, TypeOK
<1>5. UNCHANGED <<pc, role, reg, attempts, cur, pool, todoInst, masterNodes,
                 workerNodes, rbIds, rbEips, confirmed, relAsked, launched,
                 allocated>>
  BY DEF RbDisassociate
<1>6. pc = "rbDisassoc"
  BY DEF RbDisassociate
<1>7. TypeOK'
  BY <1>2, <1>3, <1>4, <1>5 DEF TInv, TypeOK
<1>8. WaitQueued'
  BY <1>5, <1>6 DEF WaitQueued
<1>9. QED
  BY <1>7, <1>8 DEF TInv

LEMMA TypeRbDisassocDone ==
    ASSUME TInv, RbDisassocDone PROVE TInv'
BY CloudStutter DEF TInv, TypeOK, WaitQueued, RbDisassocDone, Pcs

LEMMA TypeRbDisWait ==
    ASSUME TInv, RbDisWait PROVE TInv'
<1>1. \A j \in 1..Len(tasks) : tasks[j] \in TaskRec
  BY DEF TInv, TypeOK, CloudTypeOK
<1>2. \A j \in 1..Len(tasks) : tasks[j].addrs \subseteq AddressIds
  BY <1>1 DEF TaskRec
<1>3. waitQ # <<>>
  BY DEF TInv, WaitQueued, RbDisWait
<1>4. Tail(waitQ) \in Seq(Nat)
  BY <1>3, TailType DEF TInv, TypeOK
<1>5. \A r \in PollEnds(Head(waitQ)) :
         r = "ok" => tasks[Head(waitQ)].addrs \subseteq AddressIds
  BY <1>2, PollEndsRange
<1>6. CASE CanRetry /\ Retry /\ UNCHANGED <<pc, waitQ, confirmed>>
  BY <1>6, CloudStutter DEF TInv, TypeOK, WaitQueued, RbDisWait, Retry
<1>7. CASE \E r \in PollEnds(Head(waitQ)) :
             /\ confirmed' = IF r = "ok" THEN confirmed \cup tasks[Head(waitQ)].addrs
                             ELSE confirmed
             /\ waitQ' = Tail(waitQ)
             /\ attempts' = 0
             /\ pc' = IF Tail(waitQ) = <<>> THEN "rbRelease" ELSE "rbDisWait"
  <2>1. confirmed' \subseteq AddressIds
    BY <1>5, <1>7 DEF TInv, TypeOK
  <2>2. QED
    BY <1>4, <1>7, <2>1, CloudStutter DEF TInv, TypeOK, WaitQueued, RbDisWait, Pcs
<1>8. QED
  BY <1>6, <1>7 DEF RbDisWait

LEMMA TypeRbRelease ==
    ASSUME TInv, RbRelease PROVE TInv'
<1>1. CloudTypeOK'
  <2>1. CASE ReleaseCall(rbEips)
    <3>1. Append(tasks, NewTask("release", rbEips, NoInst)) \in Seq(TaskRec)
      BY IssueType DEF TInv, TypeOK, CloudTypeOK
    <3>2. QED
      BY <2>1, <3>1 DEF TInv, TypeOK, CloudTypeOK, ReleaseCall
  <2>2. CASE UNCHANGED cloudVars
    BY <2>2, CloudStutter DEF TInv, TypeOK
  <2>3. QED
    BY <2>1, <2>2 DEF RbRelease
<1>2. QED
  BY <1>1 DEF TInv, TypeOK, WaitQueued, RbRelease, ReleaseCall, Pcs

LEMMA TypeRbRelWait ==
    ASSUME TInv, RbRelWait PROVE TInv'
BY CloudStutter DEF TInv, TypeOK, WaitQueued, RbRelWait, Retry, Pcs

LEMMA TypeRbTerminate ==
    ASSUME TInv, RbTerminate PROVE TInv'
<1>1. CloudTypeOK'
  BY CloudStutter DEF TInv, TypeOK, CloudTypeOK, RbTerminate, TerminateCall,
     VmStates
<1>2. QED
  BY <1>1 DEF TInv, TypeOK, WaitQueued, RbTerminate, TerminateCall, Pcs

LEMMA TypeRbCleanup ==
    ASSUME TInv, RbCleanup PROVE TInv'
BY CloudStutter DEF TInv, TypeOK, WaitQueued, RbCleanup, Pcs

\* The provider's steps leave the process alone.
LEMMA ProcStutter ==
    ASSUME TInv, CloudTypeOK', UNCHANGED procVars
    PROVE  TInv'
BY DEF TInv, TypeOK, WaitQueued, procVars

LEMMA TypeBoot ==
    ASSUME TInv, NEW i \in InstanceIds, Boot(i), UNCHANGED procVars
    PROVE  TInv'
BY BootType, ProcStutter DEF TInv, TypeOK

LEMMA TypeTaskSucceeds ==
    ASSUME TInv, NEW t \in 1..Len(tasks), TaskSucceeds(t), UNCHANGED procVars
    PROVE  TInv'
BY TaskSucceedsType, ProcStutter DEF TInv, TypeOK

LEMMA TypeTaskFails ==
    ASSUME TInv, NEW t \in 1..Len(tasks), TaskFails(t), UNCHANGED procVars
    PROVE  TInv'
BY TaskFailsType, ProcStutter DEF TInv, TypeOK

\* Every step of the process and of the provider keeps TInv.
LEMMA TInvStep == TInv /\ [Next]_vars => TInv'
<1> SUFFICES ASSUME TInv, [Next]_vars PROVE TInv'
  OBVIOUS
<1>1. CASE Process
  BY <1>1, TypePrepare, TypeLaunchBatch, TypeWaitRunning, TypeAllocateEIP,
     TypeAllocWait, TypeDescribeAllocated, TypeAssociate, TypeAssocDone,
     TypeAssocWait, TypeListInstances, TypeAssembleNode, TypeSyncNodeStatus,
     TypeBootstrap, TypeRollbackStart, TypeRbDescribe, TypeRbDisassociate,
     TypeRbDisassocDone, TypeRbDisWait, TypeRbRelease, TypeRbRelWait,
     TypeRbTerminate, TypeRbCleanup DEF Process
<1>2. CASE \E i \in InstanceIds : Boot(i) /\ UNCHANGED procVars
  BY <1>2, TypeBoot
<1>3. CASE \E t \in 1..Len(tasks) : TaskSucceeds(t) /\ UNCHANGED procVars
  BY <1>3, TypeTaskSucceeds
<1>4. CASE \E t \in 1..Len(tasks) : TaskFails(t) /\ UNCHANGED procVars
  BY <1>4, TypeTaskFails
<1>5. CASE Finished \/ UNCHANGED vars
  BY <1>5 DEF Finished, vars, cloudVars, procVars, TInv, TypeOK, CloudTypeOK,
     WaitQueued
<1>6. QED
  BY <1>1, <1>2, <1>3, <1>4, <1>5 DEF Next

\* TInv holds in every reachable state.
LEMMA TInvInvariant == Spec => []TInv
<1>1. Init => TInv
  BY DEF Init, TInv, TypeOK, CloudTypeOK, WaitQueued, Pcs, PreExisting, VmStates,
     AddrStates
<1>2. TInv /\ [Next]_vars => TInv'
  BY TInvStep
<1>3. QED
  BY <1>1, <1>2, PTL DEF Spec

\* Every state reachable by Create/Join and Rollback, interleaved with the
\* provider's steps, is well typed; in particular p.m maps every id to a
\* node or to nothing and every awaited TaskId is a natural number.
THEOREM TypeCorrect == Spec => []TypeOK
BY TInvInvariant, PTL DEF TInv

-----------------------------------------------------------------------------
(* Rollback terminates only what this invocation launched.                 *)

\* The strengthening of RollbackOnlyOwnInstances: the RollBack flag of p.m
\* is set only on instances runInstances created in this invocation, so the
\* ids Rollback collects from it are such instances too.
OwnInv ==
    /\ RollbackOnlyOwnInstances
    /\ \A i \in RegIds : reg[i].rollback => i \in launched
    /\ rbIds \subseteq launched

\* A node is something p.m.Load finds.
LEMMA NodeFound ==
    ASSUME NEW n \in Node
    PROVE  n # NoNode
BY NoNodeAssumption

\* The updates of a node in p.m leave its RollBack flag as it was.
LEMMA RollbackKept ==
    ASSUME NEW n \in Node
    PROVE  /\ MarkedRunning(n).rollback = n.rollback
           /\ \A e : Paired(n, e).rollback = n.rollback
           /\ \A i : Assembled(n, i).rollback = n.rollback
BY Zenon DEF MarkedRunning, Paired, Assembled, Node

\* A step that changes neither the instances, p.m, the collected ids nor
\* the launch history keeps OwnInv.
LEMMA OwnFrame ==
    ASSUME OwnInv, UNCHANGED <<vm, reg, rbIds, launched>>
    PROVE  OwnInv'
BY DEF OwnInv, RollbackOnlyOwnInstances, RegIds

LEMMA OwnLaunchBatch ==
    ASSUME TInv, OwnInv, LaunchBatch PROVE OwnInv'
<1>1. PICK k \in 0..Count(role) :
         LET S == FreshInstances(k) IN
         /\ S \subseteq AbsentInstances /\ Cardinality(S) = k
         /\ RunInstancesCall(S, role)
         /\ launched' = launched \cup S
         /\ \/ /\ k = Count(role)
               /\ reg' = [i \in InstanceIds |->
                           IF i \in S THEN LaunchedNode(role) ELSE reg[i]]
               /\ IF role THEN LaunchWorkers ELSE pc' = "waitRunning" /\ role' = TRUE
            \/ /\ pc' = "failed"
               /\ UNCHANGED <<reg, role>>
  BY DEF LaunchBatch
<1>. DEFINE S == FreshInstances(k)
<1>2. RollbackOnlyOwnInstances'
  BY <1>1 DEF OwnInv, RollbackOnlyOwnInstances, RunInstancesCall, AbsentInstances
<1>3. LaunchedNode(role) \in Node /\ LaunchedNode(role).rollback
  BY DEF LaunchedNode, Node, TInv, TypeOK
<1>6. LaunchedNode(role) # NoNode
  BY <1>3, NodeFound
<1>4. (\A i \in RegIds : reg[i].rollback => i \in launched)'
  BY <1>1, <1>3, <1>6 DEF OwnInv, RegIds, TInv, TypeOK
<1>5. QED
  BY <1>1, <1>2, <1>4 DEF OwnInv, LaunchBatch

LEMMA OwnWaitRunning ==
    ASSUME TInv, OwnInv, WaitRunning PROVE OwnInv'
<1>1. PICK U \in SUBSET RegIds : reg' = MarkRunning(U)
  <2>1. PICK R \in StatusPages :
           \/ reg' = MarkRunning(R)
           \/ \E U \in NotDoneMarks(R) : reg' = MarkRunning(U)
    BY DEF WaitRunning
  <2>2. R \subseteq RegIds
    BY StatusPagesSub
  <2>3. QED
    BY <2>1, <2>2 DEF NotDoneMarks
<1>2. \A i \in U : reg[i] \in Node
  BY DEF RegIds, TInv, TypeOK
<1>3. \A i \in U : /\ MarkedRunning(reg[i]) # NoNode
                   /\ MarkedRunning(reg[i]).rollback = reg[i].rollback
  <2>1. \A i \in U : MarkedRunning(reg[i]) \in Node
    BY <1>2, MarkedRunningType
  <2>2. \A i \in U : MarkedRunning(reg[i]) # NoNode
    BY <2>1, NodeFound
  <2>3. \A i \in U : MarkedRunning(reg[i]).rollback = reg[i].rollback
    BY <1>2, RollbackKept
  <2>4. QED
    BY <2>2, <2>3
<1>4. UNCHANGED <<vm, rbIds, launched>>
  BY DEF WaitRunning, cloudVars
<1>5. \A i \in InstanceIds : /\ reg'[i] # NoNode <=> reg[i] # NoNode
                             /\ reg[i] # NoNode => reg'[i].rollback = reg[i].rollback
  BY <1>1, <1>3 DEF MarkRunning, RegIds
<1>6. QED
  BY <1>4, <1>5 DEF OwnInv, RollbackOnlyOwnInstances, RegIds

LEMMA OwnAssociate ==
    ASSUME TInv, OwnInv, Associate PROVE OwnInv'
<1>. DEFINE e == CHOOSE a \in pool : TRUE
<1>1. e \in AddressIds
  BY DEF Associate, TInv, TypeOK
<1>2. PICK i \in Candidates :
         \/ /\ AssociateCall(e, i)
            /\ reg' = [reg EXCEPT ![i] = Paired(@, e)]
         \/ UNCHANGED <<cloudVars, reg>>
  BY DEF Associate
<1>3. reg[i] \in Node
  BY DEF Candidates, RegIds, TInv, TypeOK
<1>4. Paired(reg[i], e) # NoNode /\ Paired(reg[i], e).rollback = reg[i].rollback
  <2>1. Paired(reg[i], e) \in Node
    BY <1>1, <1>3, PairedType
  <2>2. QED
    BY <1>3, <2>1, NodeFound, RollbackKept
<1>5. CASE AssociateCall(e, i) /\ reg' = [reg EXCEPT ![i] = Paired(@, e)]
  BY <1>3, <1>4, <1>5 DEF OwnInv, RollbackOnlyOwnInstances, RegIds, AssociateCall,
     Associate, TInv, TypeOK
<1>6. CASE UNCHANGED <<cloudVars, reg>>
  BY <1>6, OwnFrame DEF Associate, cloudVars
<1>7. QED
  BY <1>2, <1>5, <1>6

\* ----------------------------------------------------------------------

LEMMA OwnAssembleNode ==
    ASSUME TInv, OwnInv, AssembleNode PROVE OwnInv'
<1>1. PICK i \in todoInst :
         \/ UNCHANGED reg
         \/ reg' = [reg EXCEPT ![i] =
                 IF reg[i] # NoNode THEN Assembled(reg[i], i) ELSE DiscoveredNode(i)]
  BY DEF AssembleNode
<1>2. i \in InstanceIds
  BY DEF TInv, TypeOK
<1>3. UNCHANGED <<vm, rbIds, launched>>
  BY DEF AssembleNode, cloudVars
<1>4. CASE UNCHANGED reg
  BY <1>3, <1>4, OwnFrame
<1>5. CASE reg' = [reg EXCEPT ![i] =
              IF reg[i] # NoNode THEN Assembled(reg[i], i) ELSE DiscoveredNode(i)]
  <2>1. reg[i] # NoNode => /\ Assembled(reg[i], i) # NoNode
                           /\ Assembled(reg[i], i).rollback = reg[i].rollback
    <3>1. ASSUME reg[i] # NoNode PROVE reg[i] \in Node
      BY <1>2, <3>1 DEF TInv, TypeOK
    <3>2. QED
      BY <1>2, <3>1, AssembledType, NodeFound, RollbackKept
  <2>2. DiscoveredNode(i) # NoNode /\ ~DiscoveredNode(i).rollback
    <3>1. DiscoveredNode(i) \in Node
      BY <1>2 DEF DiscoveredNode, HasPublicIp, BoundTo, Node, TInv, TypeOK,
         CloudTypeOK
    <3>2. QED
      BY <3>1, NodeFound DEF DiscoveredNode
  <2>3. QED
    BY <1>2, <1>3, <1>5, <2>1, <2>2 DEF OwnInv, RollbackOnlyOwnInstances, RegIds,
       TInv, TypeOK
<1>6. QED
  BY <1>1, <1>4, <1>5

LEMMA OwnRollbackStart ==
    ASSUME OwnInv, RollbackStart PROVE OwnInv'
BY DEF OwnInv, RollbackOnlyOwnInstances, RollbackStart, RegIds, cloudVars

LEMMA OwnRbTerminate ==
    ASSUME OwnInv, RbTerminate PROVE OwnInv'
BY DEF OwnInv, RollbackOnlyOwnInstances, RbTerminate, TerminateCall, RegIds,
   cloudVars

LEMMA OwnBoot ==
    ASSUME OwnInv, NEW i \in InstanceIds, Boot(i), UNCHANGED procVars
    PROVE  OwnInv'
BY DEF OwnInv, RollbackOnlyOwnInstances, Boot, RegIds, procVars

\* Rollback terminates only instances this invocation launched (or workers
\* whose instance was already gone): whatever runInstances, the Running
\* wait, assembleInstanceStatus, Rollback and the provider do, an instance
\* of the cluster that existed before the call is never terminated.
THEOREM RollbackOwnOnly == Spec => []RollbackOnlyOwnInstances
<1>1. Init => OwnInv
  BY DEF Init, OwnInv, RollbackOnlyOwnInstances, RegIds, PreExisting
<1>2. TInv /\ OwnInv /\ [Next]_vars => OwnInv'
  <2> SUFFICES ASSUME TInv, OwnInv, [Next]_vars PROVE OwnInv'
    OBVIOUS
  <2>1. CASE LaunchBatch
    BY <2>1, OwnLaunchBatch
  <2>2. CASE WaitRunning
    BY <2>2, OwnWaitRunning
  <2>3. CASE Associate
    BY <2>3, OwnAssociate
  <2>4. CASE AssembleNode
    BY <2>4, OwnAssembleNode
  <2>5. CASE RollbackStart
    BY <2>5, OwnRollbackStart
  <2>6. CASE RbTerminate
    BY <2>6, OwnRbTerminate
  <2>7. CASE \/ Prepare \/ AllocWait \/ DescribeAllocated \/ AssocDone
             \/ AssocWait \/ ListInstances \/ SyncNodeStatus \/ Bootstrap
             \/ RbDescribe \/ RbDisassocDone \/ RbDisWait \/ RbRelWait
             \/ RbCleanup
    BY <2>7, OwnFrame DEF Prepare, AllocWait, DescribeAllocated, AssocDone,
       AssocWait, ListInstances, SyncNodeStatus, Bootstrap, RbDescribe,
       RbDisassocDone, RbDisWait, RbRelWait, RbCleanup, cloudVars
  <2>8. CASE AllocateEIP \/ RbDisassociate \/ RbRelease
    BY <2>8, OwnFrame DEF AllocateEIP, AllocateCall, RbDisassociate,
       DisassociateCall, RbRelease, ReleaseCall, cloudVars
  <2>9. CASE \E i \in InstanceIds : Boot(i) /\ UNCHANGED procVars
    BY <2>9, OwnBoot
  <2>10. CASE \/ \E t \in 1..Len(tasks) : TaskSucceeds(t) /\ UNCHANGED procVars
              \/ \E t \in 1..Len(tasks) : TaskFails(t) /\ UNCHANGED procVars
    BY <2>10, OwnFrame DEF TaskSucceeds, TaskFails, procVars
  <2>11. CASE Finished \/ UNCHANGED vars
    BY <2>11, OwnFrame DEF Finished, vars, cloudVars, procVars
  <2>12. QED
    BY <2>1, <2>2, <2>3, <2>4, <2>5, <2>6, <2>7, <2>8, <2>9, <2>10, <2>11
       DEF Next, Process
<1>3. QED
  BY <1>1, <1>2, TInvInvariant, PTL DEF Spec, OwnInv

=====
