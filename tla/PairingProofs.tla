--------------------------- MODULE PairingProofs ---------------------------
(***************************************************************************)
(* The proof that allocateEIPForInstance and assembleInstanceStatus pair  *)
(* addresses and nodes one to one (AddressPairing), for every value of    *)
(* the constants.  What p.m records of a node's addresses is tied to the  *)
(* associateAddress tasks the provider was sent: each names one address,  *)
(* no address is named twice, and what the provider binds and what p.m    *)
(* records come from such a task for that node.                           *)
(***************************************************************************)
EXTENDS ProvisionProofs, FiniteSetTheorems

\* The associateAddress tasks issued so far.
AssocTasks == {t \in 1..Len(tasks) : tasks[t].kind = "assoc"}

\* associateAddress is sent one address (eipAddresses[0]).
AssocSingle == \A t \in AssocTasks : \E e \in AddressIds : tasks[t].addrs = {e}

\* No address is sent in two associateAddress calls.
AssocUnique ==
    \A t1, t2 \in AssocTasks : tasks[t1].addrs \cap tasks[t2].addrs # {} => t1 = t2

\* An address is bound only to the instance of an association task for it.
BoundByTask ==
    \A e \in AddressIds : addrInst[e] # NoInst =>
        \E t \in AssocTasks : e \in tasks[t].addrs /\ tasks[t].inst = addrInst[e]

\* p.m records for a node only an address some association task sent for
\* that node.
EipsByTask ==
    \A i \in RegIds : \A e \in reg[i].eips :
        \E t \in AssocTasks : e \in tasks[t].addrs /\ tasks[t].inst = i

\* The addresses left to pair were sent in no association.
PoolFresh == \A e \in pool : \A t \in AssocTasks : e \notin tasks[t].addrs

\* An address never allocated is named by no task.
AbsentUntouched ==
    \A e \in AddressIds : addrSt[e] = "absent" =>
        \A t \in 1..Len(tasks) : e \notin tasks[t].addrs

\* The provider binds at most one address to an instance.
OneBinding ==
    \A e1, e2 \in AddressIds :
        addrInst[e1] = addrInst[e2] /\ addrInst[e1] # NoInst => e1 = e2

\* A node not yet paired records no address.
UnpairedBare == \A i \in RegIds : ~reg[i].public => reg[i].eips = {}

\* A node records at most one address.
OneEip == \A i \in RegIds : \A e1, e2 \in reg[i].eips : e1 = e2

\* The addresses left to pair were allocated.
PoolIssued == \A e \in pool : addrSt[e] # "absent"

PairInv ==
    /\ AssocSingle /\ AssocUnique /\ BoundByTask /\ EipsByTask /\ PoolFresh
    /\ AbsentUntouched /\ OneBinding /\ UnpairedBare /\ OneEip /\ PoolIssued

-----------------------------------------------------------------------------
(* Lemmas on the task list.                                                *)

\* A call appends its task after the ones already issued.
LEMMA AppendTask ==
    ASSUME tasks \in Seq(TaskRec), NEW r \in TaskRec, tasks' = Append(tasks, r)
    PROVE  /\ Len(tasks') = Len(tasks) + 1
           /\ \A t \in 1..Len(tasks) : tasks'[t] = tasks[t]
           /\ tasks'[Len(tasks) + 1] = r
           /\ 1..Len(tasks') = 1..Len(tasks) \cup {Len(tasks) + 1}
OBVIOUS

\* A step that leaves p.m and the provider's addresses and tasks alone,
\* and only shrinks the pool, keeps PairInv.
LEMMA PairFrame ==
    ASSUME PairInv, UNCHANGED <<reg, tasks, addrSt, addrInst>>, pool' \subseteq pool
    PROVE  PairInv'
BY DEF PairInv, AssocTasks, AssocSingle, AssocUnique, BoundByTask, EipsByTask,
   PoolFresh, AbsentUntouched, OneBinding, UnpairedBare, OneEip, PoolIssued,
   RegIds

LEMMA PairInit ==
    Init => PairInv
BY DEF Init, PairInv, AssocTasks, AssocSingle, AssocUnique, BoundByTask,
   EipsByTask, PoolFresh, AbsentUntouched, OneBinding, UnpairedBare, OneEip,
   PoolIssued, RegIds

\* A call that issues a task other than an association, binds nothing and
\* moves no address back to absent keeps PairInv, when the new pool holds
\* only allocated addresses that were in the old one or never allocated.
LEMMA PairIssue ==
    ASSUME TypeOK, PairInv, NEW r \in TaskRec, r.kind # "assoc",
           tasks' = Append(tasks, r), UNCHANGED <<reg, addrInst>>,
           \A e \in AddressIds : addrSt'[e] = "absent" =>
               addrSt[e] = "absent" /\ e \notin r.addrs,
           pool' \subseteq AddressIds,
           \A e \in pool' : addrSt'[e] # "absent" /\ (e \in pool \/ addrSt[e] = "absent")
    PROVE  PairInv'
<1>1. /\ tasks \in Seq(TaskRec)
      /\ Len(tasks') = Len(tasks) + 1
      /\ \A t \in 1..Len(tasks) : tasks'[t] = tasks[t]
      /\ tasks'[Len(tasks) + 1] = r
      /\ 1..Len(tasks') = 1..Len(tasks) \cup {Len(tasks) + 1}
  BY AppendTask DEF TypeOK, CloudTypeOK
<1>2. AssocTasks' = AssocTasks
  BY <1>1 DEF AssocTasks
<1>3. \A t \in AssocTasks : tasks'[t] = tasks[t]
  BY <1>1 DEF AssocTasks
<1>4. AssocSingle' /\ AssocUnique'
  <2>1. \A t \in AssocTasks : \E e \in AddressIds : tasks'[t].addrs = {e}
    BY <1>3 DEF PairInv, AssocSingle
  <2>2. \A t1, t2 \in AssocTasks :
           tasks'[t1].addrs \cap tasks'[t2].addrs # {} => t1 = t2
    BY <1>3 DEF PairInv, AssocUnique
  <2>3. QED
    BY <1>2, <2>1, <2>2 DEF AssocSingle, AssocUnique
<1>4a. BoundByTask' /\ EipsByTask'
  <2>1. \A e \in AddressIds : addrInst'[e] # NoInst =>
          \E t \in AssocTasks : e \in tasks'[t].addrs /\ tasks'[t].inst = addrInst'[e]
    BY <1>3 DEF PairInv, BoundByTask
  <2>2. \A i \in RegIds : \A e \in reg'[i].eips :
          \E t \in AssocTasks : e \in tasks'[t].addrs /\ tasks'[t].inst = i
    <3> SUFFICES ASSUME NEW i \in RegIds, NEW e \in reg[i].eips
                 PROVE  \E t \in AssocTasks : e \in tasks'[t].addrs /\ tasks'[t].inst = i
      OBVIOUS
    <3>1. PICK t \in AssocTasks : e \in tasks[t].addrs /\ tasks[t].inst = i
      BY DEF PairInv, EipsByTask
    <3>2. QED
      BY <1>3, <3>1
  <2>3. RegIds' = RegIds
    BY DEF RegIds
  <2>4. QED
    BY <1>2, <2>1, <2>2, <2>3 DEF BoundByTask, EipsByTask
<1>4b. OneBinding' /\ UnpairedBare' /\ OneEip'
  BY DEF PairInv, OneBinding, UnpairedBare, OneEip, RegIds
<1>5. PoolFresh'
  <2> SUFFICES ASSUME NEW e \in pool', NEW t \in AssocTasks
               PROVE  e \notin tasks'[t].addrs
    BY <1>2 DEF PoolFresh
  <2>1. CASE e \in pool
    BY <2>1, <1>3 DEF PairInv, PoolFresh
  <2>2. CASE addrSt[e] = "absent"
    BY <2>2, <1>3 DEF PairInv, AbsentUntouched, AssocTasks
  <2>3. QED
    BY <2>1, <2>2
<1>6. AbsentUntouched'
  <2> SUFFICES ASSUME NEW e \in AddressIds, addrSt'[e] = "absent",
                      NEW t \in 1..Len(tasks')
               PROVE  e \notin tasks'[t].addrs
    BY DEF AbsentUntouched
  <2>1. addrSt[e] = "absent" /\ e \notin r.addrs
    OBVIOUS
  <2>2. CASE t \in 1..Len(tasks)
    BY <1>1, <2>1, <2>2 DEF PairInv, AbsentUntouched
  <2>3. CASE t = Len(tasks) + 1
    BY <1>1, <2>1, <2>3
  <2>4. QED
    BY <1>1, <2>2, <2>3
<1>7. PoolIssued'
  BY DEF PoolIssued
<1>8. QED
  BY <1>4, <1>4a, <1>4b, <1>5, <1>6, <1>7 DEF PairInv

\* The steps that touch neither p.m's addresses nor the provider's.
LEMMA PairPrepare ==
    ASSUME PairInv, Prepare PROVE PairInv'
BY PairFrame DEF Prepare, cloudVars

LEMMA PairAllocWait ==
    ASSUME PairInv, AllocWait PROVE PairInv'
BY PairFrame DEF AllocWait, cloudVars

LEMMA PairDescribeAllocated ==
    ASSUME PairInv, DescribeAllocated PROVE PairInv'
BY PairFrame DEF DescribeAllocated, cloudVars

LEMMA PairAssocDone ==
    ASSUME PairInv, AssocDone PROVE PairInv'
BY PairFrame DEF AssocDone, EndAssoc, cloudVars

LEMMA PairAssocWait ==
    ASSUME PairInv, AssocWait PROVE PairInv'
BY PairFrame DEF AssocWait, cloudVars

LEMMA PairListInstances ==
    ASSUME PairInv, ListInstances PROVE PairInv'
BY PairFrame DEF ListInstances, cloudVars

LEMMA PairSyncNodeStatus ==
    ASSUME PairInv, SyncNodeStatus PROVE PairInv'
BY PairFrame DEF SyncNodeStatus, cloudVars

LEMMA PairBootstrap ==
    ASSUME PairInv, Bootstrap PROVE PairInv'
BY PairFrame DEF Bootstrap, cloudVars

LEMMA PairRollbackStart ==
    ASSUME PairInv, RollbackStart PROVE PairInv'
BY PairFrame DEF RollbackStart, cloudVars

LEMMA PairRbDescribe ==
    ASSUME PairInv, RbDescribe PROVE PairInv'
BY PairFrame DEF RbDescribe, cloudVars

LEMMA PairRbDisassocDone ==
    ASSUME PairInv, RbDisassocDone PROVE PairInv'
BY PairFrame DEF RbDisassocDone, cloudVars

LEMMA PairRbDisWait ==
    ASSUME PairInv, RbDisWait PROVE PairInv'
BY PairFrame DEF RbDisWait, cloudVars

LEMMA PairRbRelWait ==
    ASSUME PairInv, RbRelWait PROVE PairInv'
BY PairFrame DEF RbRelWait, cloudVars

LEMMA PairRbCleanup ==
    ASSUME PairInv, RbCleanup PROVE PairInv'
BY PairFrame DEF RbCleanup, cloudVars

LEMMA PairFinished ==
    ASSUME PairInv, Finished PROVE PairInv'
BY PairFrame DEF Finished, vars, cloudVars, procVars

LEMMA PairBoot ==
    ASSUME PairInv, NEW i \in InstanceIds, Boot(i), UNCHANGED procVars
    PROVE  PairInv'
BY PairFrame DEF Boot, procVars

\* A resolved task keeps its kind, addresses and instance.
LEMMA ResolvedFields ==
    ASSUME NEW t \in TaskRec, NEW r
    PROVE  /\ Resolved(t, r).kind = t.kind
           /\ Resolved(t, r).addrs = t.addrs
           /\ Resolved(t, r).inst = t.inst
BY DEF Resolved, TaskRec

\* Resolving task t keeps the list's length and every task's kind,
\* addresses and instance.
LEMMA ResolveTask ==
    ASSUME tasks \in Seq(TaskRec), NEW t \in 1..Len(tasks), NEW r,
           tasks' = [tasks EXCEPT ![t] = Resolved(@, r)]
    PROVE  /\ Len(tasks') = Len(tasks)
           /\ \A u \in 1..Len(tasks) : /\ tasks'[u].kind = tasks[u].kind
                                       /\ tasks'[u].addrs = tasks[u].addrs
                                       /\ tasks'[u].inst = tasks[u].inst
<1>1. tasks[t] \in TaskRec
  OBVIOUS
<1>2. QED
  BY <1>1, ResolvedFields

\* A task resolving, with no binding changed and no address moved back to
\* absent, keeps PairInv.
LEMMA PairResolve ==
    ASSUME TypeOK, PairInv, NEW t \in 1..Len(tasks), NEW r,
           tasks' = [tasks EXCEPT ![t] = Resolved(@, r)],
           UNCHANGED <<reg, pool>>,
           \A e \in AddressIds : addrSt'[e] = "absent" => addrSt[e] = "absent"
    PROVE  (AssocSingle /\ AssocUnique /\ EipsByTask /\ PoolFresh
            /\ AbsentUntouched /\ UnpairedBare /\ OneEip /\ PoolIssued)'
<1>1. /\ Len(tasks') = Len(tasks)
      /\ \A u \in 1..Len(tasks) : /\ tasks'[u].kind = tasks[u].kind
                                  /\ tasks'[u].addrs = tasks[u].addrs
                                  /\ tasks'[u].inst = tasks[u].inst
  BY ResolveTask DEF TypeOK, CloudTypeOK
<1>2. AssocTasks' = AssocTasks
  BY <1>1 DEF AssocTasks
<1>3. RegIds' = RegIds
  BY DEF RegIds
<1>4. AssocSingle' /\ AssocUnique'
  <2>1. \A u \in AssocTasks : \E e \in AddressIds : tasks'[u].addrs = {e}
    BY <1>1 DEF PairInv, AssocSingle, AssocTasks
  <2>2. \A t1, t2 \in AssocTasks :
           tasks'[t1].addrs \cap tasks'[t2].addrs # {} => t1 = t2
    BY <1>1 DEF PairInv, AssocUnique, AssocTasks
  <2>3. QED
    BY <1>2, <2>1, <2>2 DEF AssocSingle, AssocUnique
<1>6. EipsByTask'
  <2> SUFFICES ASSUME NEW i \in RegIds, NEW e \in reg[i].eips
               PROVE  \E u \in AssocTasks : e \in tasks'[u].addrs /\ tasks'[u].inst = i
    BY <1>2, <1>3 DEF EipsByTask
  <2>1. PICK u \in AssocTasks : e \in tasks[u].addrs /\ tasks[u].inst = i
    BY DEF PairInv, EipsByTask
  <2>2. QED
    BY <1>1, <2>1 DEF AssocTasks
<1>7. PoolFresh'
  BY <1>1, <1>2 DEF PairInv, PoolFresh, AssocTasks
<1>8. AbsentUntouched'
  BY <1>1 DEF PairInv, AbsentUntouched
<1>9. (UnpairedBare /\ OneEip)'
  BY <1>3 DEF PairInv, UnpairedBare, OneEip
<1>10. PoolIssued'
  BY DEF PairInv, PoolIssued, TypeOK
<1>11. QED
  BY <1>4, <1>6, <1>7, <1>8, <1>9, <1>10

\* A resolution that only unbinds addresses keeps the bindings paired.
LEMMA PairResolveUnbind ==
    ASSUME TypeOK, PairInv, NEW t \in 1..Len(tasks), NEW r,
           tasks' = [tasks EXCEPT ![t] = Resolved(@, r)],
           UNCHANGED <<reg, pool>>,
           \A e \in AddressIds : addrSt'[e] = "absent" => addrSt[e] = "absent",
           \A e \in AddressIds : addrInst'[e] # NoInst => addrInst'[e] = addrInst[e]
    PROVE  PairInv'
<1>1. /\ \A u \in 1..Len(tasks) : /\ tasks'[u].kind = tasks[u].kind
                                  /\ tasks'[u].addrs = tasks[u].addrs
                                  /\ tasks'[u].inst = tasks[u].inst
  BY ResolveTask DEF TypeOK, CloudTypeOK
<1>2. AssocTasks' = AssocTasks
  BY ResolveTask, <1>1 DEF AssocTasks, TypeOK, CloudTypeOK
<1>3. BoundByTask'
  <2> SUFFICES ASSUME NEW e \in AddressIds, addrInst'[e] # NoInst
               PROVE  \E u \in AssocTasks : e \in tasks'[u].addrs /\ tasks'[u].inst = addrInst'[e]
    BY <1>2 DEF BoundByTask
  <2>1. PICK u \in AssocTasks : e \in tasks[u].addrs /\ tasks[u].inst = addrInst[e]
    BY DEF PairInv, BoundByTask
  <2>2. QED
    BY <1>1, <2>1 DEF AssocTasks
<1>4. OneBinding'
  BY DEF PairInv, OneBinding
<1>5. QED
  BY <1>3, <1>4, PairResolve DEF PairInv

LEMMA PairTaskFails ==
    ASSUME TypeOK, PairInv, NEW t \in 1..Len(tasks), TaskFails(t), UNCHANGED procVars
    PROVE  PairInv'
BY PairResolveUnbind DEF TaskFails, procVars

\* A step that changes only nodes of p.m, each one kept, stored without
\* addresses, left with its addresses and public flag, or given the
\* addresses the provider reports bound to it, keeps PairInv.
LEMMA PairRegFrame ==
    ASSUME PairInv, UNCHANGED <<tasks, addrSt, addrInst>>, pool' \subseteq pool,
           \A i \in InstanceIds :
              \/ reg'[i] = reg[i]
              \/ reg'[i].eips = {}
              \/ i \in RegIds /\ reg'[i].eips = reg[i].eips
                              /\ reg'[i].public = reg[i].public
              \/ reg'[i].eips = BoundTo(i) /\ (reg'[i].public \/ BoundTo(i) = {})
    PROVE  PairInv'
<1>1. (AssocSingle /\ AssocUnique /\ BoundByTask /\ PoolFresh /\ AbsentUntouched
       /\ OneBinding /\ PoolIssued)'
  BY DEF PairInv, AssocTasks, AssocSingle, AssocUnique, BoundByTask, PoolFresh,
         AbsentUntouched, OneBinding, PoolIssued
<1>2. EipsByTask'
  <2> SUFFICES ASSUME NEW i \in InstanceIds, reg'[i] # NoNode, NEW e \in reg'[i].eips
               PROVE  \E u \in AssocTasks : e \in tasks[u].addrs /\ tasks[u].inst = i
    BY DEF EipsByTask, RegIds, AssocTasks
  <2>1. CASE reg'[i] = reg[i] \/ (i \in RegIds /\ reg'[i].eips = reg[i].eips)
    BY <2>1 DEF PairInv, EipsByTask, RegIds
  <2>2. CASE reg'[i].eips = BoundTo(i)
    <3>1. addrInst[e] = i /\ e \in AddressIds
      BY <2>2 DEF BoundTo
    <3>2. addrInst[e] # NoInst
      BY <3>1, CloudAssumption
    <3>3. QED
      BY <3>1, <3>2 DEF PairInv, BoundByTask
  <2>3. QED
    BY <2>1, <2>2
<1>3. UnpairedBare'
  BY DEF PairInv, UnpairedBare, RegIds
<1>4. OneEip'
  <2> SUFFICES ASSUME NEW i \in InstanceIds, reg'[i] # NoNode,
                      NEW e1 \in reg'[i].eips, NEW e2 \in reg'[i].eips
               PROVE  e1 = e2
    BY DEF OneEip, RegIds
  <2>1. CASE reg'[i] = reg[i] \/ (i \in RegIds /\ reg'[i].eips = reg[i].eips)
    BY <2>1 DEF PairInv, OneEip, RegIds
  <2>2. CASE reg'[i].eips = BoundTo(i)
    <3>1. addrInst[e1] = i /\ addrInst[e2] = i /\ e1 \in AddressIds /\ e2 \in AddressIds
      BY <2>2 DEF BoundTo
    <3>2. addrInst[e1] # NoInst
      BY <3>1, CloudAssumption
    <3>3. QED
      BY <3>1, <3>2 DEF PairInv, OneBinding
  <2>3. QED
    BY <2>1, <2>2
<1>5. QED
  BY <1>1, <1>2, <1>3, <1>4 DEF PairInv

LEMMA PairLaunchBatch ==
    ASSUME PairInv, LaunchBatch PROVE PairInv'
<1>1. PICK k \in 0..Count(role) :
         /\ RunInstancesCall(FreshInstances(k), role)
         /\ \/ reg' = [i \in InstanceIds |->
                         IF i \in FreshInstances(k) THEN LaunchedNode(role) ELSE reg[i]]
            \/ UNCHANGED reg
  BY DEF LaunchBatch
<1>2. \A i \in InstanceIds : reg'[i] = reg[i] \/ reg'[i].eips = {}
  BY <1>1 DEF LaunchedNode
<1>3. QED
  BY <1>1, <1>2, PairRegFrame DEF LaunchBatch, RunInstancesCall

LEMMA PairWaitRunning ==
    ASSUME TypeOK, PairInv, WaitRunning PROVE PairInv'
<1>1. PICK U \in SUBSET RegIds : reg' = MarkRunning(U)
  <2>1. PICK R \in StatusPages :
           \/ reg' = MarkRunning(R)
           \/ \E U \in NotDoneMarks(R) : reg' = MarkRunning(U)
    BY DEF WaitRunning
  <2>2. R \subseteq RegIds
    BY DEF StatusPages
  <2>3. \A U \in NotDoneMarks(R) : U \subseteq RegIds
    BY <2>2 DEF NotDoneMarks
  <2>4. QED
    BY <2>1, <2>2, <2>3
<1>2. ASSUME NEW i \in U
      PROVE  reg[i] \in Node
  BY NoNodeAssumption DEF TypeOK, RegIds
<1>3. \A i \in InstanceIds :
         \/ reg'[i] = reg[i]
         \/ i \in RegIds /\ reg'[i].eips = reg[i].eips /\ reg'[i].public = reg[i].public
  BY <1>1, <1>2 DEF MarkRunning, MarkedRunning, Node
<1>4. QED
  BY <1>3, PairRegFrame DEF WaitRunning, cloudVars

LEMMA PairAssembleNode ==
    ASSUME TypeOK, PairInv, AssembleNode PROVE PairInv'
<1>1. PICK i \in todoInst :
         \/ UNCHANGED reg
         \/ reg' = [reg EXCEPT ![i] =
                 IF reg[i] # NoNode THEN Assembled(reg[i], i) ELSE DiscoveredNode(i)]
  BY DEF AssembleNode
<1>2. reg[i] # NoNode => reg[i] \in Node
  BY DEF TypeOK
<1>3. LET n == IF reg[i] # NoNode THEN Assembled(reg[i], i) ELSE DiscoveredNode(i)
      IN  n.eips = BoundTo(i) /\ (n.public \/ BoundTo(i) = {})
  BY <1>2 DEF Assembled, DiscoveredNode, HasPublicIp, Node
<1>4. i \in InstanceIds
  BY DEF TypeOK
<1>5. \A j \in InstanceIds :
         \/ reg'[j] = reg[j]
         \/ reg'[j].eips = BoundTo(j) /\ (reg'[j].public \/ BoundTo(j) = {})
  BY <1>1, <1>3, <1>4 DEF TypeOK
<1>6. QED
  BY <1>5, PairRegFrame DEF AssembleNode, cloudVars

LEMMA PairRbTerminate ==
    ASSUME PairInv, RbTerminate PROVE PairInv'
<1>1. CASE TerminateCall(rbIds)
  <2>1. UNCHANGED <<reg, tasks, addrSt, pool>>
    BY <1>1 DEF RbTerminate, TerminateCall
  <2>2. \A e \in AddressIds : addrInst'[e] # NoInst => addrInst'[e] = addrInst[e]
    BY <1>1 DEF TerminateCall
  <2>3. (BoundByTask /\ OneBinding)'
    BY <2>1, <2>2 DEF PairInv, BoundByTask, OneBinding, AssocTasks
  <2>4. QED
    BY <2>1, <2>3 DEF PairInv, AssocTasks, AssocSingle, AssocUnique, EipsByTask,
       PoolFresh, AbsentUntouched, UnpairedBare, OneEip, PoolIssued, RegIds
<1>2. CASE UNCHANGED cloudVars
  BY <1>2, PairFrame DEF RbTerminate, cloudVars
<1>3. QED
  BY <1>1, <1>2 DEF RbTerminate

\* A task the process issues is a task record.
LEMMA NewTaskRec ==
    ASSUME NEW k \in {"alloc", "assoc", "disassoc", "release"},
           NEW A \in SUBSET AddressIds, NEW i \in InstanceIds \cup {NoInst}
    PROVE  NewTask(k, A, i) \in TaskRec /\ NewTask(k, A, i).kind = k
           /\ NewTask(k, A, i).addrs = A /\ NewTask(k, A, i).inst = i
BY DEF NewTask, TaskRec, TaskStates

\* An address bound to an instance was allocated by a task, so it is not
\* absent.
LEMMA BoundNotAbsent ==
    ASSUME PairInv, NEW e \in AddressIds, addrInst[e] # NoInst
    PROVE  addrSt[e] # "absent"
<1>1. PICK t \in AssocTasks : e \in tasks[t].addrs
  BY DEF PairInv, BoundByTask
<1>2. QED
  BY <1>1 DEF PairInv, AbsentUntouched, AssocTasks

LEMMA PairAllocateEIP ==
    ASSUME TypeOK, PairInv, AllocateEIP PROVE PairInv'
<1>1. CASE UNCHANGED <<cloudVars, pool>>
  BY <1>1, PairFrame DEF AllocateEIP, cloudVars
<1>2. CASE LET A == FreshAddresses(Count(role)) IN
           /\ A \subseteq AbsentAddresses
           /\ AllocateCall(A)
           /\ pool' \in {A, pool}
  <2> DEFINE A == FreshAddresses(Count(role))
  <2>1. A \subseteq AddressIds /\ \A e \in A : addrSt[e] = "absent"
    BY <1>2 DEF AbsentAddresses
  <2>2. NewTask("alloc", A, NoInst) \in TaskRec /\ NewTask("alloc", A, NoInst).kind = "alloc"
        /\ NewTask("alloc", A, NoInst).addrs = A
    BY <2>1, NewTaskRec
  <2>3. tasks' = Append(tasks, NewTask("alloc", A, NoInst)) /\ UNCHANGED addrInst
    BY <1>2 DEF AllocateCall
  <2>4. \A e \in AddressIds : addrSt'[e] = "absent" =>
           addrSt[e] = "absent" /\ e \notin A
    BY <1>2 DEF AllocateCall
  <2>4a. \A e \in A : addrSt'[e] # "absent"
    BY <1>2, <2>1 DEF AllocateCall
  <2>4b. \A e \in pool : addrSt'[e] # "absent"
    <3>1. \A e \in pool : e \in AddressIds /\ e \notin A /\ addrSt[e] # "absent"
      BY <2>1 DEF PairInv, PoolIssued, TypeOK
    <3>2. QED
      BY <1>2, <3>1 DEF AllocateCall
  <2>5. UNCHANGED reg
    BY DEF AllocateEIP
  <2>6. pool' \subseteq AddressIds
        /\ \A e \in pool' : addrSt'[e] # "absent" /\ (e \in pool \/ addrSt[e] = "absent")
    <3>1. CASE pool' = A
      BY <3>1, <2>1, <2>4a
    <3>2. CASE pool' = pool
      BY <3>2, <2>4b DEF TypeOK
    <3>3. QED
      BY <1>2, <3>1, <3>2
  <2>7. QED
    BY <1>2, <2>2, <2>3, <2>4, <2>5, <2>6, PairIssue
<1>3. QED
  BY <1>1, <1>2 DEF AllocateEIP

LEMMA PairRbDisassociate ==
    ASSUME TypeOK, PairInv, RbDisassociate PROVE PairInv'
<1>1. PICK e \in todoAddr :
         \/ DisassociateCall(e)
         \/ UNCHANGED cloudVars
  BY DEF RbDisassociate
<1>2. UNCHANGED <<reg, pool>>
  BY DEF RbDisassociate
<1>3. CASE DisassociateCall(e)
  <2>1. e \in AddressIds
    BY DEF TypeOK
  <2>2. addrSt[e] # "absent"
    BY <1>3, <2>1, BoundNotAbsent DEF DisassociateCall
  <2>3. NewTask("disassoc", {e}, NoInst) \in TaskRec
        /\ NewTask("disassoc", {e}, NoInst).kind = "disassoc"
        /\ NewTask("disassoc", {e}, NoInst).addrs = {e}
    BY <2>1, NewTaskRec
  <2>4. \A a \in AddressIds : addrSt'[a] = "absent" =>
           addrSt[a] = "absent" /\ a \notin {e}
    BY <1>3, <2>2 DEF DisassociateCall
  <2>5. \A a \in pool' : addrSt'[a] # "absent"
    BY <1>2, <1>3 DEF PairInv, PoolIssued, DisassociateCall
  <2>6. QED
    BY <1>2, <1>3, <2>3, <2>4, <2>5, PairIssue DEF DisassociateCall, TypeOK
<1>4. CASE UNCHANGED cloudVars
  BY <1>2, <1>4, PairFrame DEF cloudVars
<1>5. QED
  BY <1>1, <1>3, <1>4

LEMMA PairRbRelease ==
    ASSUME TypeOK, PairInv, RbRelease PROVE PairInv'
<1>1. UNCHANGED <<reg, pool>>
  BY DEF RbRelease
<1>2. CASE ReleaseCall(rbEips)
  <2>1. rbEips \subseteq AddressIds
    BY DEF TypeOK
  <2>2. NewTask("release", rbEips, NoInst) \in TaskRec
        /\ NewTask("release", rbEips, NoInst).kind = "release"
        /\ NewTask("release", rbEips, NoInst).addrs = rbEips
    BY <2>1, NewTaskRec
  <2>3. \A a \in AddressIds : addrSt'[a] = "absent" =>
           addrSt[a] = "absent" /\ a \notin rbEips
    BY <1>2 DEF ReleaseCall
  <2>4. \A a \in pool' : addrSt'[a] # "absent"
    BY <1>1, <1>2 DEF PairInv, PoolIssued, ReleaseCall
  <2>5. QED
    BY <1>1, <1>2, <2>2, <2>3, <2>4, PairIssue DEF ReleaseCall, TypeOK
<1>3. CASE UNCHANGED cloudVars
  BY <1>1, <1>3, PairFrame DEF cloudVars
<1>4. QED
  BY <1>2, <1>3 DEF RbRelease

\* associateAddress of eipAddresses[0] with a node that has no address yet:
\* the address was sent in no earlier association, so the new task and
\* the node's record name it alone.
\* Node n once paired with address e.
LEMMA PairedNode ==
    ASSUME NEW n \in Node, NEW e \in AddressIds
    PROVE  /\ Paired(n, e) \in Node
           /\ Paired(n, e).eips = n.eips \cup {e}
           /\ Paired(n, e).public = TRUE
<1> DEFINE m == [n EXCEPT !.eips = n.eips \cup {e}]
<1>1. Paired(n, e) = [m EXCEPT !.public = TRUE]
  BY DEF Paired
<1>2. m \in Node /\ m.eips = n.eips \cup {e}
  BY DEF Node
<1>3. QED
  BY <1>1, <1>2 DEF Node

LEMMA PairAssociated ==
    ASSUME TypeOK, PairInv, NEW i \in Candidates, NEW e \in pool,
           AssociateCall(e, i), reg' = [reg EXCEPT ![i] = Paired(@, e)],
           pool' = pool \ {e}
    PROVE  PairInv'
<1> DEFINE n == Len(tasks) + 1
           r == NewTask("assoc", {e}, i)
<1>1. e \in AddressIds /\ i \in InstanceIds /\ i \in RegIds /\ reg[i] \in Node
      /\ ~reg[i].public
  BY NoNodeAssumption DEF TypeOK, Candidates, RegIds
<1>2. reg[i].eips = {}
  BY <1>1 DEF PairInv, UnpairedBare
<1>3. reg'[i] \in Node /\ reg'[i].eips = {e} /\ reg'[i].public = TRUE
  <2>1. reg'[i] = Paired(reg[i], e)
    BY <1>1 DEF TypeOK
  <2>2. QED
    BY <1>1, <1>2, <2>1, PairedNode
<1>4. \A j \in InstanceIds \ {i} : reg'[j] = reg[j]
  BY DEF TypeOK
<1>5. RegIds' = RegIds
  BY <1>1, <1>3, <1>4, NoNodeAssumption DEF RegIds
<1>6. r \in TaskRec /\ r.kind = "assoc" /\ r.addrs = {e} /\ r.inst = i
  BY <1>1, NewTaskRec
<1>7. /\ Len(tasks') = n
      /\ \A t \in 1..Len(tasks) : tasks'[t] = tasks[t]
      /\ tasks'[n] = r
      /\ 1..Len(tasks') = 1..Len(tasks) \cup {n}
  BY <1>6, AppendTask DEF TypeOK, CloudTypeOK, AssociateCall
<1>8. AssocTasks' = AssocTasks \cup {n} /\ n \notin AssocTasks
  BY <1>6, <1>7 DEF AssocTasks
<1>9. UNCHANGED <<addrSt, addrInst>>
  BY DEF AssociateCall
<1>10. \A t \in AssocTasks : e \notin tasks[t].addrs
  BY DEF PairInv, PoolFresh
<1>11. AssocSingle'
  <2> SUFFICES ASSUME NEW t \in AssocTasks \cup {n}
               PROVE  \E a \in AddressIds : tasks'[t].addrs = {a}
    BY <1>8 DEF AssocSingle
  <2>1. CASE t \in AssocTasks
    BY <2>1, <1>7 DEF PairInv, AssocSingle, AssocTasks
  <2>2. QED
    BY <2>1, <1>1, <1>6, <1>7
<1>12. AssocUnique'
  <2> SUFFICES ASSUME NEW t1 \in AssocTasks \cup {n}, NEW t2 \in AssocTasks \cup {n},
                      tasks'[t1].addrs \cap tasks'[t2].addrs # {}
               PROVE  t1 = t2
    BY <1>8 DEF AssocUnique
  <2>1. CASE t1 \in AssocTasks /\ t2 \in AssocTasks
    BY <2>1, <1>7 DEF PairInv, AssocUnique, AssocTasks
  <2>2. CASE t1 \in AssocTasks /\ t2 = n
    BY <2>2, <1>6, <1>7, <1>10 DEF AssocTasks
  <2>3. CASE t1 = n /\ t2 \in AssocTasks
    BY <2>3, <1>6, <1>7, <1>10 DEF AssocTasks
  <2>4. QED
    BY <2>1, <2>2, <2>3
<1>13. BoundByTask'
  <2> SUFFICES ASSUME NEW a \in AddressIds, addrInst[a] # NoInst
               PROVE  \E t \in AssocTasks : a \in tasks'[t].addrs /\ tasks'[t].inst = addrInst[a]
    BY <1>8, <1>9 DEF BoundByTask
  <2>1. PICK t \in AssocTasks : a \in tasks[t].addrs /\ tasks[t].inst = addrInst[a]
    BY DEF PairInv, BoundByTask
  <2>2. QED
    BY <2>1, <1>7 DEF AssocTasks
<1>14. EipsByTask'
  <2> SUFFICES ASSUME NEW j \in RegIds, NEW a \in reg'[j].eips
               PROVE  \E t \in AssocTasks \cup {n} : a \in tasks'[t].addrs /\ tasks'[t].inst = j
    BY <1>5, <1>8 DEF EipsByTask
  <2>1. CASE j = i
    BY <2>1, <1>3, <1>6, <1>7
  <2>2. CASE j # i
    <3>1. PICK t \in AssocTasks : a \in tasks[t].addrs /\ tasks[t].inst = j
      BY <2>2, <1>4 DEF PairInv, EipsByTask, RegIds
    <3>2. QED
      BY <3>1, <1>7 DEF AssocTasks
  <2>3. QED
    BY <2>1, <2>2
<1>15. PoolFresh'
  <2> SUFFICES ASSUME NEW a \in pool \ {e}, NEW t \in AssocTasks \cup {n}
               PROVE  a \notin tasks'[t].addrs
    BY <1>8 DEF PoolFresh
  <2>1. CASE t \in AssocTasks
    BY <2>1, <1>7 DEF PairInv, PoolFresh, AssocTasks
  <2>2. QED
    BY <2>1, <1>6, <1>7
<1>16. AbsentUntouched'
  <2> SUFFICES ASSUME NEW a \in AddressIds, addrSt[a] = "absent",
                      NEW t \in 1..Len(tasks) \cup {n}
               PROVE  a \notin tasks'[t].addrs
    BY <1>7, <1>9 DEF AbsentUntouched
  <2>1. CASE t \in 1..Len(tasks)
    BY <2>1, <1>7 DEF PairInv, AbsentUntouched
  <2>2. a # e
    BY DEF PairInv, PoolIssued
  <2>3. QED
    BY <2>1, <2>2, <1>6, <1>7
<1>17. OneBinding' /\ PoolIssued'
  BY <1>9 DEF PairInv, OneBinding, PoolIssued
<1>18. UnpairedBare' /\ OneEip'
  <2>1. \A j \in RegIds : ~reg'[j].public => reg'[j].eips = {}
    BY <1>3, <1>4 DEF PairInv, UnpairedBare, RegIds
  <2>2. \A j \in RegIds : \A a1, a2 \in reg'[j].eips : a1 = a2
    BY <1>3, <1>4 DEF PairInv, OneEip, RegIds
  <2>3. QED
    BY <1>5, <2>1, <2>2 DEF UnpairedBare, OneEip
<1>19. QED
  BY <1>11, <1>12, <1>13, <1>14, <1>15, <1>16, <1>17, <1>18 DEF PairInv

LEMMA PairAssociate ==
    ASSUME TypeOK, PairInv, Associate PROVE PairInv'
<1> DEFINE e == CHOOSE a \in pool : TRUE
<1>1. e \in pool
  BY DEF Associate
<1>2. PICK i \in Candidates :
         \/ AssociateCall(e, i) /\ reg' = [reg EXCEPT ![i] = Paired(@, e)]
            /\ pool' = pool \ {e}
         \/ EndAssoc /\ UNCHANGED <<cloudVars, reg>>
  BY DEF Associate
<1>3. CASE EndAssoc /\ UNCHANGED <<cloudVars, reg>>
  BY <1>3, PairFrame DEF EndAssoc, cloudVars
<1>4. QED
  BY <1>1, <1>2, <1>3, PairAssociated

\* The provider carrying out an association binds its one address to an
\* instance with no address bound yet (Applicable).
LEMMA PairAssocSucceeds ==
    ASSUME TypeOK, PairInv, NEW t \in 1..Len(tasks), TaskSucceeds(t),
           UNCHANGED procVars, tasks[t].kind = "assoc"
    PROVE  PairInv'
<1> DEFINE i == tasks[t].inst
<1>1. t \in AssocTasks
  BY DEF AssocTasks
<1>2. PICK a \in AddressIds : tasks[t].addrs = {a}
  BY <1>1 DEF PairInv, AssocSingle
<1>3. i \in InstanceIds /\ BoundTo(i) = {} /\ addrInst[a] = NoInst
  BY <1>2 DEF TaskSucceeds, Applicable
<1>4. \A x \in AddressIds : addrInst'[x] = IF x = a THEN i ELSE addrInst[x]
  BY <1>2 DEF TaskSucceeds
<1>5. \A x \in AddressIds : addrInst[x] # i
  BY <1>3 DEF BoundTo
<1>6. \A u \in 1..Len(tasks) : /\ tasks'[u].kind = tasks[u].kind
                               /\ tasks'[u].addrs = tasks[u].addrs
                               /\ tasks'[u].inst = tasks[u].inst
  BY ResolveTask DEF TypeOK, CloudTypeOK, TaskSucceeds
<1>7. AssocTasks' = AssocTasks
  BY ResolveTask, <1>6 DEF AssocTasks, TypeOK, CloudTypeOK, TaskSucceeds
<1>8. (AssocSingle /\ AssocUnique /\ EipsByTask /\ PoolFresh
       /\ AbsentUntouched /\ UnpairedBare /\ OneEip /\ PoolIssued)'
  <2>1. \A x \in AddressIds : addrSt'[x] = "absent" => addrSt[x] = "absent"
    BY DEF TaskSucceeds
  <2>2. QED
    BY <2>1, PairResolve DEF TaskSucceeds, procVars
<1>9. BoundByTask'
  <2> SUFFICES ASSUME NEW x \in AddressIds, addrInst'[x] # NoInst
               PROVE  \E u \in AssocTasks : x \in tasks'[u].addrs /\ tasks'[u].inst = addrInst'[x]
    BY <1>7 DEF BoundByTask
  <2>1. CASE x = a
    BY <2>1, <1>1, <1>2, <1>4, <1>6
  <2>2. CASE x # a
    <3>1. PICK u \in AssocTasks : x \in tasks[u].addrs /\ tasks[u].inst = addrInst[x]
      BY <2>2, <1>4 DEF PairInv, BoundByTask
    <3>2. QED
      BY <2>2, <3>1, <1>4, <1>6 DEF AssocTasks
  <2>3. QED
    BY <2>1, <2>2
<1>10. OneBinding'
  <2> SUFFICES ASSUME NEW e1 \in AddressIds, NEW e2 \in AddressIds,
                      addrInst'[e1] = addrInst'[e2], addrInst'[e1] # NoInst
               PROVE  e1 = e2
    BY DEF OneBinding
  <2>1. CASE e1 # a /\ e2 # a
    BY <2>1, <1>4 DEF PairInv, OneBinding
  <2>2. CASE e1 = a /\ e2 # a
    BY <2>2, <1>4, <1>5
  <2>3. CASE e1 # a /\ e2 = a
    BY <2>3, <1>4, <1>5
  <2>4. QED
    BY <2>1, <2>2, <2>3
<1>11. QED
  BY <1>8, <1>9, <1>10 DEF PairInv

LEMMA PairTaskSucceeds ==
    ASSUME TypeOK, PairInv, NEW t \in 1..Len(tasks), TaskSucceeds(t),
           UNCHANGED procVars
    PROVE  PairInv'
<1>1. CASE tasks[t].kind = "assoc"
  BY <1>1, PairAssocSucceeds
<1>2. CASE tasks[t].kind # "assoc"
  <2>1. \A e \in AddressIds : addrSt'[e] = "absent" => addrSt[e] = "absent"
    BY DEF TaskSucceeds
  <2>2. \A e \in AddressIds : addrInst'[e] # NoInst => addrInst'[e] = addrInst[e]
    BY <1>2 DEF TaskSucceeds
  <2>3. QED
    BY <2>1, <2>2, PairResolveUnbind DEF TaskSucceeds, procVars
<1>3. QED
  BY <1>1, <1>2

LEMMA PairStep ==
    ASSUME TInv, PairInv, [Next]_vars PROVE PairInv'
<1> USE DEF TInv
<1>1. CASE Prepare
  BY <1>1, PairPrepare
<1>2. CASE LaunchBatch
  BY <1>2, PairLaunchBatch
<1>3. CASE WaitRunning
  BY <1>3, PairWaitRunning
<1>4. CASE AllocateEIP
  BY <1>4, PairAllocateEIP
<1>5. CASE Associate
  BY <1>5, PairAssociate
<1>6. CASE AssembleNode
  BY <1>6, PairAssembleNode
<1>7. CASE \/ AllocWait \/ DescribeAllocated \/ AssocDone \/ AssocWait
           \/ ListInstances \/ SyncNodeStatus \/ Bootstrap
  BY <1>7, PairAllocWait, PairDescribeAllocated, PairAssocDone, PairAssocWait,
     PairListInstances, PairSyncNodeStatus, PairBootstrap
<1>8. CASE \/ RollbackStart \/ RbDescribe \/ RbDisassocDone \/ RbDisWait
           \/ RbRelWait \/ RbCleanup
  BY <1>8, PairRollbackStart, PairRbDescribe, PairRbDisassocDone, PairRbDisWait,
     PairRbRelWait, PairRbCleanup
<1>9. CASE RbDisassociate
  BY <1>9, PairRbDisassociate
<1>10. CASE RbRelease
  BY <1>10, PairRbRelease
<1>11. CASE RbTerminate
  BY <1>11, PairRbTerminate
<1>12. CASE \E i \in InstanceIds : Boot(i) /\ UNCHANGED procVars
  BY <1>12, PairBoot
<1>13. CASE \E t \in 1..Len(tasks) : TaskSucceeds(t) /\ UNCHANGED procVars
  BY <1>13, PairTaskSucceeds
<1>14. CASE \E t \in 1..Len(tasks) : TaskFails(t) /\ UNCHANGED procVars
  BY <1>14, PairTaskFails
<1>15. CASE Finished
  BY <1>15, PairFinished
<1>16. CASE UNCHANGED vars
  BY <1>16, PairFrame DEF vars, cloudVars, procVars
<1>17. QED
  BY <1>1, <1>2, <1>3, <1>4, <1>5, <1>6, <1>7, <1>8, <1>9, <1>10, <1>11,
     <1>12, <1>13, <1>14, <1>15, <1>16 DEF Next, Process

LEMMA PairInvariant == Spec => []PairInv
<1>1. TInv /\ PairInv /\ [Next]_vars => PairInv'
  BY PairStep
<1>2. QED
  BY <1>1, PairInit, TInvInvariant, PTL DEF Spec

\* A node records at most one address, as a set of at most one element.
LEMMA OneEipCard ==
    ASSUME NEW S, \A e1, e2 \in S : e1 = e2
    PROVE  Cardinality(S) <= 1
<1>1. CASE S = {}
  BY <1>1, FS_EmptySet
<1>2. CASE S # {}
  <2>1. PICK x \in S : TRUE
    BY <1>2
  <2>2. S = {x}
    BY <2>1
  <2>3. QED
    BY <2>2, FS_Singleton
<1>3. QED
  BY <1>1, <1>2

\* allocateEIPForInstance pairs each node with eipAddresses[0] and drops
\* it from the list, and assembleInstanceStatus stores for a node what
\* DescribeAddresses reports bound to it; since each association names one
\* address never sent before and the provider binds one address to an
\* instance, no address is recorded for two nodes of p.m and no node for
\* two addresses, for every number of nodes and addresses and every
\* interleaving of the provider's task resolutions and Rollback.
THEOREM AddressesPaired == Spec => []AddressPairing
<1>1. PairInv => AddressPairing
  <2> SUFFICES ASSUME PairInv, NEW i \in RegIds, NEW j \in RegIds
               PROVE  /\ i # j => reg[i].eips \cap reg[j].eips = {}
                      /\ Cardinality(reg[i].eips) <= 1
    BY DEF AddressPairing
  <2>1. ASSUME NEW e \in reg[i].eips \cap reg[j].eips PROVE i = j
    <3>1. PICK t1 \in AssocTasks : e \in tasks[t1].addrs /\ tasks[t1].inst = i
      BY DEF PairInv, EipsByTask
    <3>2. PICK t2 \in AssocTasks : e \in tasks[t2].addrs /\ tasks[t2].inst = j
      BY DEF PairInv, EipsByTask
    <3>3. t1 = t2
      BY <3>1, <3>2 DEF PairInv, AssocUnique
    <3>4. QED
      BY <3>1, <3>2, <3>3
  <2>2. Cardinality(reg[i].eips) <= 1
    BY OneEipCard DEF PairInv, OneEip
  <2>3. QED
    BY <2>1, <2>2
<1>2. QED
  BY <1>1, PairInvariant, PTL
=============================================================================
