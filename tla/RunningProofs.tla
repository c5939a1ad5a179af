---------------------------- MODULE RunningProofs ----------------------------
(***************************************************************************)
(* The k3s bootstrap is handed Running nodes only (BootstrapOnlyRunning), *)
(* for every cluster size whose nodes fit in one DescribeInstancesStatus  *)
(* answer.  The argument: every node made Current was launched by this    *)
(* call; getInstanceStatus returns nil only when an answer listing every  *)
(* launched node showed them all Running; and an instance the provider    *)
(* reports Running stays so until Rollback terminates it.                 *)
(***************************************************************************)
EXTENDS ProvisionProofs, FiniteSetTheorems

\* The program points before Rollback, and those past getInstanceStatus.
ForwardPcs == {"prepare", "run", "waitRunning", "alloc", "allocWait", "describeAlloc",
               "assoc", "assocWait", "assemble", "assembleNode", "bootstrap", "done"}
AfterRunning == ForwardPcs \ {"prepare", "run", "waitRunning"}
RbPcs == Pcs \ ForwardPcs
\* Where nodes assembleInstanceStatus discovered can be in p.m.
LatePcs == {"assembleNode", "bootstrap", "done"}

\* Every node this call launches fits in one DescribeInstancesStatus answer
\* (Limit 20 by default): the hypothesis of the theorem.  Run
\* statuspage shows BootstrapOnlyRunning fails without it.
OnePage == MasterNum + WorkerNum <= StatusLimit

\* The strengthening of BootstrapOnlyRunning.
RunInv ==
    \* A launched node p.m holds as Running is Running at the provider.
    /\ \A i \in RegIds : reg[i].rollback /\ reg[i].status = "running" /\ pc \in ForwardPcs
                           => vm[i] = "running"
    \* Past the wait, every launched node is Running in p.m.
    /\ pc \in AfterRunning => \A i \in RegIds : reg[i].rollback => reg[i].status = "running"
    \* A node without RollBack was discovered by assembleInstanceStatus: it is
    \* not Current and is not visited again.
    /\ \A i \in RegIds : ~reg[i].rollback =>
          /\ ~reg[i].current /\ i \notin todoInst
          /\ pc \in LatePcs \cup RbPcs
    \* p.m holds at most the batches launched so far.
    /\ pc = "prepare" => RegIds = {}
    /\ pc = "run" => (role => RegIds = {}) /\ (~role => Cardinality(RegIds) <= MasterNum)
    /\ pc = "waitRunning" => Cardinality(RegIds) <= MasterNum + WorkerNum

-----------------------------------------------------------------------------
(* Lemmas on the node updates and on p.m.                                  *)

\* The updates of a node keep its RollBack flag; getInstanceStatus makes
\* it Running, allocateEIPForInstance keeps its status and Current flag,
\* assembleInstanceStatus keeps its status and makes it Current.
LEMMA NodeFields ==
    ASSUME NEW n \in Node
    PROVE  /\ MarkedRunning(n).rollback = n.rollback
           /\ MarkedRunning(n).current = n.current
           /\ MarkedRunning(n).status = "running"
           /\ \A e : /\ Paired(n, e).rollback = n.rollback
                     /\ Paired(n, e).current = n.current
                     /\ Paired(n, e).status = n.status
           /\ \A i : /\ Assembled(n, i).rollback = n.rollback
                     /\ Assembled(n, i).status = n.status
                     /\ Assembled(n, i).current = TRUE
BY Zenon DEF MarkedRunning, Paired, Assembled, Node

\* The instances p.m holds are finitely many.
LEMMA RegIdsFinite ==
    IsFiniteSet(RegIds)
<1>1. RegIds \subseteq InstanceIds /\ IsFiniteSet(InstanceIds)
  BY CloudAssumption DEF RegIds
<1>2. QED
  BY <1>1, FS_Subset

\* A step that leaves p.m and assembleInstanceStatus's list alone, moves
\* only forward among the points past the wait and changes the instances
\* only in Rollback keeps RunInv.
LEMMA RunFrame ==
    ASSUME RunInv, UNCHANGED <<reg, todoInst>>,
           pc \in AfterRunning \cup RbPcs, pc' \in AfterRunning \cup RbPcs,
           pc \in LatePcs \cup RbPcs => pc' \in LatePcs \cup RbPcs,
           pc \in RbPcs => pc' \in RbPcs,
           pc' \in ForwardPcs => UNCHANGED vm
    PROVE  RunInv'
BY DEF RunInv, RegIds, AfterRunning, RbPcs, LatePcs, ForwardPcs, Pcs

LEMMA RunInit ==
    Init => RunInv
BY DEF Init, RunInv, RegIds

\* The provider's own steps: an instance boots, a task resolves.
LEMMA RunBoot ==
    ASSUME RunInv, NEW i \in InstanceIds, Boot(i), UNCHANGED procVars
    PROVE  RunInv'
BY DEF RunInv, Boot, procVars, RegIds

LEMMA RunTask ==
    ASSUME RunInv, UNCHANGED vm, UNCHANGED procVars
    PROVE  RunInv'
BY DEF RunInv, procVars, RegIds

\* getInstanceStatus's update of p.m keeps its ids and flags, and makes
\* the nodes of U Running.
LEMMA MarkRunningFields ==
    ASSUME reg \in [InstanceIds -> Node \cup {NoNode}], NEW U \in SUBSET RegIds
    PROVE  \A i \in InstanceIds :
             /\ MarkRunning(U)[i] # NoNode <=> reg[i] # NoNode
             /\ i \notin U => MarkRunning(U)[i] = reg[i]
             /\ i \in U => /\ MarkRunning(U)[i].rollback = reg[i].rollback
                           /\ MarkRunning(U)[i].current = reg[i].current
                           /\ MarkRunning(U)[i].status = "running"
<1> SUFFICES ASSUME NEW i \in InstanceIds, i \in U
             PROVE  /\ MarkRunning(U)[i] # NoNode
                    /\ MarkRunning(U)[i].rollback = reg[i].rollback
                    /\ MarkRunning(U)[i].current = reg[i].current
                    /\ MarkRunning(U)[i].status = "running"
  BY DEF MarkRunning, RegIds
<1>1. reg[i] \in Node /\ MarkRunning(U)[i] = MarkedRunning(reg[i])
  BY DEF RegIds, MarkRunning
<1>2. MarkedRunning(reg[i]) \in Node
  BY <1>1, MarkedRunningType
<1>3. QED
  BY <1>1, <1>2, NodeFound, NodeFields

LEMMA RunPrepare ==
    ASSUME TInv, RunInv, Prepare PROVE RunInv'
<1>1. RegIds = {} /\ UNCHANGED <<reg, todoInst>>
  BY DEF Prepare, RunInv
<1>2. RegIds' = {}
  BY <1>1 DEF RegIds
<1>3. Cardinality(RegIds') = 0
  BY <1>2, FS_EmptySet
<1>4. QED
  BY <1>2, <1>3, ProvisionAssumption DEF RunInv

\* runInstances adds a batch of Count(role) Pending nodes with RollBack;
\* the two batches together hold at most MasterNum + WorkerNum nodes.
LEMMA RunLaunchBatch ==
    ASSUME TInv, RunInv, LaunchBatch PROVE RunInv'
<1>1. PICK k \in 0..Count(role) :
         LET S == FreshInstances(k) IN
         /\ S \subseteq AbsentInstances /\ Cardinality(S) = k
         /\ RunInstancesCall(S, role)
         /\ \/ /\ k = Count(role)
               /\ reg' = [i \in InstanceIds |->
                           IF i \in S THEN LaunchedNode(role) ELSE reg[i]]
               /\ IF role THEN LaunchWorkers ELSE pc' = "waitRunning" /\ role' = TRUE
            \/ /\ pc' = "failed"
               /\ UNCHANGED <<reg, role>>
  BY DEF LaunchBatch
<1>. DEFINE S == FreshInstances(k)
<1>2. /\ S \subseteq InstanceIds /\ IsFiniteSet(S)
      /\ \A i \in S : vm[i] = "absent"
      /\ \A i \in InstanceIds \ S : vm'[i] = vm[i]
      /\ UNCHANGED todoInst
  <2>1. S \subseteq InstanceIds
    BY <1>1 DEF AbsentInstances
  <2>2. QED
    BY <1>1, <2>1, CloudAssumption, FS_Subset DEF AbsentInstances, RunInstancesCall,
       LaunchBatch
<1>3. \A i \in RegIds : reg[i].rollback
  BY DEF RunInv, LatePcs, RbPcs, ForwardPcs, Pcs, LaunchBatch
<1>4. \A i \in RegIds : reg[i].rollback /\ reg[i].status = "running" => i \notin S
  BY <1>2 DEF RunInv, ForwardPcs, LaunchBatch
<1>5. CASE pc' = "failed" /\ UNCHANGED <<reg, role>>
  BY <1>2, <1>3, <1>5 DEF RunInv, RegIds, RbPcs, Pcs, ForwardPcs, AfterRunning,
     LatePcs
<1>6. CASE /\ k = Count(role)
           /\ reg' = [i \in InstanceIds |-> IF i \in S THEN LaunchedNode(role) ELSE reg[i]]
           /\ IF role THEN LaunchWorkers ELSE pc' = "waitRunning" /\ role' = TRUE
  <2>1. LaunchedNode(role) \in Node /\ LaunchedNode(role).rollback
        /\ LaunchedNode(role).status = "pending"
    BY DEF LaunchedNode, Node, TInv, TypeOK
  <2>2. RegIds' = RegIds \cup S
    BY <1>2, <1>6, <2>1, NodeFound DEF RegIds
  <2>3. \A i \in RegIds' : reg'[i].rollback
    BY <1>2, <1>3, <1>6, <2>1, <2>2 DEF RegIds
  <2>4. \A i \in RegIds' : reg'[i].rollback /\ reg'[i].status = "running"
                            => vm'[i] = "running"
    <3> SUFFICES ASSUME NEW i \in RegIds', reg'[i].status = "running"
                 PROVE  vm'[i] = "running"
      OBVIOUS
    <3>1. i \notin S
      BY <1>2, <1>6, <2>1, <2>2
    <3>2. i \in RegIds /\ reg'[i] = reg[i] /\ vm'[i] = vm[i]
      BY <1>2, <1>6, <2>2, <3>1 DEF RegIds
    <3>3. QED
      BY <1>3, <3>2 DEF RunInv, LaunchBatch, ForwardPcs
  <2>5. Cardinality(S) = Count(role) /\ IsFiniteSet(RegIds)
    BY <1>1, <1>6, RegIdsFinite
  <2>6. CASE role
    <3>1. RegIds = {} /\ RegIds' = S
      BY <2>2, <2>6 DEF RunInv, LaunchBatch
    <3>2. Cardinality(RegIds') = MasterNum
      BY <2>5, <2>6, <3>1 DEF Count
    <3>3. pc' \in {"run", "waitRunning"} /\ (pc' = "run" => ~role')
      BY <1>6, <2>6 DEF LaunchWorkers
    <3>4. QED
      BY <2>3, <2>4, <3>2, <3>3, ProvisionAssumption DEF RunInv, AfterRunning,
         ForwardPcs
  <2>7. CASE ~role
    <3>1. Cardinality(RegIds) <= MasterNum /\ Cardinality(S) = WorkerNum
      BY <2>5, <2>7 DEF RunInv, LaunchBatch, Count
    <3>2. Cardinality(RegIds \cup S) <= MasterNum + WorkerNum
      <4>1. Cardinality(RegIds \cup S) =
              Cardinality(RegIds) + Cardinality(S) - Cardinality(RegIds \cap S)
            /\ Cardinality(RegIds \cap S) \in Nat
        BY <1>2, <2>5, FS_Union, FS_Intersection, FS_CardinalityType
      <4>2. Cardinality(RegIds) \in Nat
        BY <2>5, FS_CardinalityType
      <4>3. QED
        BY <3>1, <4>1, <4>2, ProvisionAssumption
    <3>3. pc' = "waitRunning"
      BY <1>6, <2>7
    <3>4. QED
      BY <2>2, <2>3, <2>4, <3>2, <3>3 DEF RunInv, AfterRunning, ForwardPcs
  <2>8. QED
    BY <2>6, <2>7, <1>6 DEF TInv, TypeOK
<1>7. QED
  BY <1>1, <1>5, <1>6

\* When p.m fits in one answer, the answer lists every node of p.m.
LEMMA WholePage ==
    ASSUME OnePage, Cardinality(RegIds) <= MasterNum + WorkerNum,
           NEW R \in StatusPages
    PROVE  R = RegIds
<1>1. IsFiniteSet(RegIds) /\ Cardinality(RegIds) \in Nat
  BY RegIdsFinite, FS_CardinalityType
<1>2. R \subseteq RegIds /\ Cardinality(R) = Cardinality(RegIds)
  BY <1>1, ProvisionAssumption DEF StatusPages, OnePage
<1>3. QED
  BY <1>1, <1>2, FS_Subset

\* getInstanceStatus returns nil only once an answer listing every node
\* showed them all Running; a poll that does not end marks Running only
\* entries that are.
LEMMA RunWaitRunning ==
    ASSUME OnePage, TInv, RunInv, WaitRunning PROVE RunInv'
<1>1. PICK R \in StatusPages :
         \/ /\ AllRunning(R)
            /\ reg' = MarkRunning(R)
            /\ AllocMasters
         \/ \E U \in NotDoneMarks(R) :
            /\ reg' = MarkRunning(U)
            /\ pc' \in {"waitRunning", "failed"}
  BY DEF WaitRunning
<1>2. R = RegIds
  BY WholePage DEF RunInv, WaitRunning
<1>3. /\ reg \in [InstanceIds -> Node \cup {NoNode}] /\ role \in BOOLEAN
      /\ UNCHANGED <<vm, todoInst>>
      /\ \A i \in RegIds : reg[i].rollback
  BY DEF TInv, TypeOK, WaitRunning, cloudVars, RunInv, LatePcs, RbPcs, Pcs,
     ForwardPcs
<1>4. ASSUME NEW U \in SUBSET RegIds, reg' = MarkRunning(U)
      PROVE  /\ RegIds' = RegIds
             /\ \A i \in RegIds : reg'[i].rollback
             /\ \A i \in RegIds : reg'[i].current = reg[i].current
  BY <1>3, <1>4, MarkRunningFields DEF RegIds
<1>5. CASE AllRunning(R) /\ reg' = MarkRunning(R) /\ AllocMasters
  <2>1. /\ RegIds' = RegIds
        /\ \A i \in RegIds : reg'[i].rollback /\ reg'[i].status = "running"
                             /\ vm'[i] = "running"
    BY <1>2, <1>3, <1>4, <1>5, MarkRunningFields DEF AllRunning, RegIds
  <2>2. pc' \in AfterRunning
    BY <1>3, <1>5, PhaseTypes DEF AfterRunning, ForwardPcs
  <2>3. QED
    BY <1>3, <2>1, <2>2 DEF RunInv, AfterRunning, ForwardPcs
<1>6. CASE \E U \in NotDoneMarks(R) : reg' = MarkRunning(U) /\ pc' \in {"waitRunning", "failed"}
  <2>1. PICK U \in NotDoneMarks(R) : reg' = MarkRunning(U) /\ pc' \in {"waitRunning", "failed"}
    BY <1>6
  <2>2. U \subseteq RegIds /\ \A i \in U : vm[i] = "running"
    BY <1>2 DEF NotDoneMarks
  <2>3. /\ RegIds' = RegIds
        /\ \A i \in RegIds : reg'[i].rollback
        /\ \A i \in RegIds : reg'[i].status = "running" => vm'[i] = "running"
    <3>1. \A i \in RegIds : i \notin U => reg'[i] = reg[i]
      BY <2>1, <2>2, <1>3, MarkRunningFields DEF RegIds
    <3>2. \A i \in RegIds : reg[i].status = "running" => vm[i] = "running"
      BY <1>3 DEF RunInv, WaitRunning, ForwardPcs
    <3>3. QED
      BY <1>3, <1>4, <2>1, <2>2, <3>1, <3>2
  <2>4. QED
    BY <1>3, <2>1, <2>3 DEF RunInv, AfterRunning, ForwardPcs, RbPcs, Pcs, WaitRunning
<1>7. QED
  BY <1>1, <1>5, <1>6

\* One iteration of allocateEIPForInstance's Range keeps each node's
\* RollBack, Current and status; its end only moves on to the next phase.
LEMMA RunAssociate ==
    ASSUME TInv, RunInv, Associate PROVE RunInv'
<1>. DEFINE e == CHOOSE a \in pool : TRUE
<1>1. e \in AddressIds
  BY DEF Associate, TInv, TypeOK
<1>2. PICK i \in Candidates :
         \/ /\ AssociateCall(e, i)
            /\ reg' = [reg EXCEPT ![i] = Paired(@, e)]
            /\ UNCHANGED pc
         \/ EndAssoc /\ UNCHANGED <<cloudVars, reg>>
  BY DEF Associate
<1>3. reg[i] \in Node /\ i \in InstanceIds
  BY DEF Candidates, RegIds, TInv, TypeOK
<1>4. UNCHANGED todoInst /\ pc = "assoc" /\ role \in BOOLEAN
  BY DEF Associate, TInv, TypeOK
<1>5. CASE AssociateCall(e, i) /\ reg' = [reg EXCEPT ![i] = Paired(@, e)] /\ UNCHANGED pc
  <2>1. /\ Paired(reg[i], e) # NoNode
        /\ Paired(reg[i], e).rollback = reg[i].rollback
        /\ Paired(reg[i], e).current = reg[i].current
        /\ Paired(reg[i], e).status = reg[i].status
    BY <1>1, <1>3, PairedType, NodeFound, NodeFields
  <2>2. UNCHANGED vm
    BY <1>5 DEF AssociateCall
  <2>3. /\ reg'[i] = Paired(reg[i], e)
        /\ \A j \in InstanceIds \ {i} : reg'[j] = reg[j]
    BY <1>3, <1>5 DEF TInv, TypeOK
  <2>4. RegIds' = RegIds
    <3>1. \A j \in InstanceIds : reg'[j] # NoNode <=> reg[j] # NoNode
      BY <1>3, <2>1, <2>3, NodeFound
    <3>2. QED
      BY <3>1 DEF RegIds
  <2>5. \A j \in RegIds : /\ reg'[j].rollback = reg[j].rollback
                          /\ reg'[j].current = reg[j].current
                          /\ reg'[j].status = reg[j].status
    BY <2>1, <2>3 DEF RegIds
  <2>6. QED
    BY <1>4, <1>5, <2>2, <2>4, <2>5 DEF RunInv, AfterRunning, ForwardPcs,
       LatePcs, RbPcs
<1>6. CASE EndAssoc /\ UNCHANGED <<cloudVars, reg>>
  <2>1. pc' \in {"alloc", "assemble", "assocWait"}
    BY <1>4, <1>6, PhaseTypes DEF EndAssoc
  <2>2. QED
    BY <1>4, <1>6, <2>1, RunFrame DEF cloudVars, AfterRunning, RbPcs, LatePcs,
       ForwardPcs, Pcs
<1>7. QED
  BY <1>2, <1>5, <1>6

LEMMA RunAssocDone ==
    ASSUME TInv, RunInv, AssocDone PROVE RunInv'
<1>1. pc' \in {"alloc", "assemble", "assocWait"}
  BY PhaseTypes DEF AssocDone, EndAssoc, TInv, TypeOK
<1>2. QED
  BY <1>1, RunFrame DEF AssocDone, cloudVars, AfterRunning, RbPcs, LatePcs,
     ForwardPcs, Pcs

\* assembleInstanceStatus lists the cluster's instances only when every
\* node of p.m is one this call launched.
LEMMA RunListInstances ==
    ASSUME RunInv, ListInstances PROVE RunInv'
BY DEF RunInv, ListInstances, RegIds, cloudVars, AfterRunning, RbPcs, LatePcs,
   ForwardPcs, Pcs

\* A node of p.m that assembleInstanceStatus makes Current has RollBack
\* (the instances it visits are Running and launched by this call, or
\* unknown to p.m and stored without RollBack, never Current).
LEMMA RunAssembleNode ==
    ASSUME TInv, RunInv, AssembleNode PROVE RunInv'
<1>1. PICK i \in todoInst :
         \/ pc' = "failed" /\ UNCHANGED <<reg, todoInst>>
         \/ /\ reg' = [reg EXCEPT ![i] =
                 IF reg[i] # NoNode THEN Assembled(reg[i], i) ELSE DiscoveredNode(i)]
            /\ todoInst' = todoInst \ {i}
            /\ UNCHANGED pc
  BY DEF AssembleNode
<1>2. i \in InstanceIds /\ reg \in [InstanceIds -> Node \cup {NoNode}]
      /\ pc = "assembleNode" /\ UNCHANGED vm
  BY DEF TInv, TypeOK, AssembleNode, cloudVars
<1>3. CASE pc' = "failed" /\ UNCHANGED <<reg, todoInst>>
  BY <1>2, <1>3, RunFrame DEF AfterRunning, RbPcs, LatePcs, ForwardPcs, Pcs
<1>4. CASE /\ reg' = [reg EXCEPT ![i] =
                 IF reg[i] # NoNode THEN Assembled(reg[i], i) ELSE DiscoveredNode(i)]
           /\ todoInst' = todoInst \ {i}
           /\ UNCHANGED pc
  <2>1. CASE reg[i] # NoNode
    <3>1. reg[i] \in Node /\ reg[i].rollback
      BY <1>2, <2>1 DEF RunInv, RegIds
    <3>2. /\ Assembled(reg[i], i) # NoNode
          /\ Assembled(reg[i], i).rollback
          /\ Assembled(reg[i], i).status = reg[i].status
      BY <1>2, <3>1, AssembledType, NodeFound, NodeFields
    <3>3. RegIds' = RegIds
      BY <1>2, <1>4, <2>1, <3>2 DEF RegIds
    <3>4. QED
      BY <1>2, <1>4, <2>1, <3>2, <3>3 DEF RunInv, AfterRunning, ForwardPcs,
         LatePcs, RbPcs
  <2>2. CASE reg[i] = NoNode
    <3>1. DiscoveredNode(i) \in Node
      BY <1>2 DEF DiscoveredNode, HasPublicIp, BoundTo, Node, TInv, TypeOK,
         CloudTypeOK
    <3>2. /\ DiscoveredNode(i) # NoNode
          /\ ~DiscoveredNode(i).rollback /\ ~DiscoveredNode(i).current
      BY <3>1, NodeFound DEF DiscoveredNode
    <3>3. RegIds' = RegIds \cup {i}
      BY <1>2, <1>4, <2>2, <3>2 DEF RegIds
    <3>4. QED
      BY <1>2, <1>4, <2>2, <3>2, <3>3 DEF RunInv, AfterRunning, ForwardPcs,
         LatePcs, RbPcs
  <2>3. QED
    BY <2>1, <2>2
<1>5. QED
  BY <1>1, <1>3, <1>4

\* The other steps of the process keep p.m and todoInst and move pc
\* forward through the allocation and assembly phases, or into Rollback;
\* only Rollback's terminateInstances touches the instances.
LEMMA RunAllocateEIP ==
    ASSUME TInv, RunInv, AllocateEIP PROVE RunInv'
BY RunFrame DEF AllocateEIP, AllocateCall, cloudVars, AfterRunning, RbPcs, LatePcs, ForwardPcs, Pcs

LEMMA RunAllocWait ==
    ASSUME TInv, RunInv, AllocWait PROVE RunInv'
BY RunFrame DEF AllocWait, cloudVars, AfterRunning, RbPcs, LatePcs, ForwardPcs, Pcs

LEMMA RunDescribeAllocated ==
    ASSUME TInv, RunInv, DescribeAllocated PROVE RunInv'
BY RunFrame DEF DescribeAllocated, cloudVars, AfterRunning, RbPcs, LatePcs, ForwardPcs, Pcs

LEMMA RunAssocWait ==
    ASSUME TInv, RunInv, AssocWait PROVE RunInv'
BY RunFrame DEF AssocWait, cloudVars, AfterRunning, RbPcs, LatePcs, ForwardPcs, Pcs

LEMMA RunSyncNodeStatus ==
    ASSUME TInv, RunInv, SyncNodeStatus PROVE RunInv'
BY RunFrame DEF SyncNodeStatus, cloudVars, AfterRunning, RbPcs, LatePcs, ForwardPcs, Pcs

LEMMA RunBootstrap ==
    ASSUME TInv, RunInv, Bootstrap PROVE RunInv'
BY RunFrame DEF Bootstrap, cloudVars, AfterRunning, RbPcs, LatePcs, ForwardPcs, Pcs

LEMMA RunRollbackStart ==
    ASSUME TInv, RunInv, RollbackStart PROVE RunInv'
BY RunFrame DEF RollbackStart, cloudVars, AfterRunning, RbPcs, LatePcs, ForwardPcs, Pcs

LEMMA RunRbDescribe ==
    ASSUME TInv, RunInv, RbDescribe PROVE RunInv'
BY RunFrame DEF RbDescribe, cloudVars, AfterRunning, RbPcs, LatePcs, ForwardPcs, Pcs

LEMMA RunRbDisassociate ==
    ASSUME TInv, RunInv, RbDisassociate PROVE RunInv'
BY RunFrame DEF RbDisassociate, DisassociateCall, cloudVars, AfterRunning, RbPcs, LatePcs, ForwardPcs, Pcs

LEMMA RunRbDisassocDone ==
    ASSUME TInv, RunInv, RbDisassocDone PROVE RunInv'
BY RunFrame DEF RbDisassocDone, cloudVars, AfterRunning, RbPcs, LatePcs, ForwardPcs, Pcs

LEMMA RunRbDisWait ==
    ASSUME TInv, RunInv, RbDisWait PROVE RunInv'
BY RunFrame DEF RbDisWait, cloudVars, AfterRunning, RbPcs, LatePcs, ForwardPcs, Pcs

LEMMA RunRbRelease ==
    ASSUME TInv, RunInv, RbRelease PROVE RunInv'
BY RunFrame DEF RbRelease, ReleaseCall, cloudVars, AfterRunning, RbPcs, LatePcs, ForwardPcs, Pcs

LEMMA RunRbRelWait ==
    ASSUME TInv, RunInv, RbRelWait PROVE RunInv'
BY RunFrame DEF RbRelWait, cloudVars, AfterRunning, RbPcs, LatePcs, ForwardPcs, Pcs

LEMMA RunRbTerminate ==
    ASSUME TInv, RunInv, RbTerminate PROVE RunInv'
BY RunFrame DEF RbTerminate, TerminateCall, cloudVars, AfterRunning, RbPcs, LatePcs, ForwardPcs, Pcs

LEMMA RunRbCleanup ==
    ASSUME TInv, RunInv, RbCleanup PROVE RunInv'
BY RunFrame DEF RbCleanup, cloudVars, AfterRunning, RbPcs, LatePcs, ForwardPcs, Pcs

LEMMA RunFinished ==
    ASSUME RunInv, Finished PROVE RunInv'
BY DEF RunInv, Finished, vars, procVars, cloudVars, RegIds

LEMMA RunStep ==
    ASSUME OnePage, TInv, RunInv, [Next]_vars PROVE RunInv'
<1>1. CASE Prepare
  BY <1>1, RunPrepare
<1>2. CASE LaunchBatch
  BY <1>2, RunLaunchBatch
<1>3. CASE WaitRunning
  BY <1>3, RunWaitRunning
<1>4. CASE Associate
  BY <1>4, RunAssociate
<1>5. CASE AssocDone
  BY <1>5, RunAssocDone
<1>6. CASE ListInstances
  BY <1>6, RunListInstances
<1>7. CASE AssembleNode
  BY <1>7, RunAssembleNode
<1>8. CASE \/ AllocateEIP \/ AllocWait \/ DescribeAllocated \/ AssocWait
           \/ SyncNodeStatus \/ Bootstrap
  BY <1>8, RunAllocateEIP, RunAllocWait, RunDescribeAllocated, RunAssocWait,
     RunSyncNodeStatus, RunBootstrap
<1>9. CASE \/ RollbackStart \/ RbDescribe \/ RbDisassociate \/ RbDisassocDone
           \/ RbDisWait \/ RbRelease \/ RbRelWait \/ RbTerminate \/ RbCleanup
  BY <1>9, RunRollbackStart, RunRbDescribe, RunRbDisassociate,
     RunRbDisassocDone, RunRbDisWait, RunRbRelease, RunRbRelWait,
     RunRbTerminate, RunRbCleanup
<1>10. CASE \E i \in InstanceIds : Boot(i) /\ UNCHANGED procVars
  BY <1>10, RunBoot
<1>11. CASE \/ \E t \in 1..Len(tasks) : TaskSucceeds(t) /\ UNCHANGED procVars
            \/ \E t \in 1..Len(tasks) : TaskFails(t) /\ UNCHANGED procVars
  BY <1>11, RunTask DEF TaskSucceeds, TaskFails
<1>12. CASE Finished
  BY <1>12, RunFinished
<1>13. CASE UNCHANGED vars
  BY <1>13 DEF RunInv, vars, cloudVars, procVars, RegIds
<1>14. QED
  BY <1>1, <1>2, <1>3, <1>4, <1>5, <1>6, <1>7, <1>8, <1>9, <1>10, <1>11,
     <1>12, <1>13 DEF Next, Process

LEMMA RunInvariant ==
    ASSUME OnePage PROVE Spec => []RunInv
<1>1. TInv /\ RunInv /\ [Next]_vars => RunInv'
  BY RunStep
<1>2. QED
  BY <1>1, RunInit, TInvInvariant, PTL DEF Spec

\* getInstanceStatus returns nil only when an answer of
\* DescribeInstancesStatus lists every node of p.m as Running, and nothing
\* but Rollback's terminateInstances stops an instance of this call; so
\* when the k3s bootstrap (InitK3sCluster or JoinK3sNode) is handed the
\* Current nodes, each is Running in p.m and in the provider.  This holds
\* for every size of the cluster as long as the nodes this call launches
\* fit in one answer (Limit, StatusLimit): run statuspage shows the
\* property fails when they do not.
THEOREM BootstrapRunning ==
    ASSUME OnePage PROVE Spec => []BootstrapOnlyRunning
<1>1. RunInv => BootstrapOnlyRunning
  BY DEF RunInv, BootstrapOnlyRunning, AfterRunning, ForwardPcs, LatePcs, RbPcs
<1>2. QED
  BY <1>1, RunInvariant, PTL
=============================================================================
