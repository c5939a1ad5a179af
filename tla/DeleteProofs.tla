---------------------------- MODULE DeleteProofs ----------------------------
(***************************************************************************)
(* Proofs about DeleteK3sCluster/deleteCluster (module DeleteCluster),    *)
(* for every value of the constants that satisfies CloudAssumption and    *)
(* DeleteAssumption: the types, and that without -f the cluster leaves    *)
(* the .state file only after all its instances are terminated.           *)
(***************************************************************************)
EXTENDS DeleteCluster, TencentCloudProofs, TLAPS

\* The wait over the disassociation taskIds is entered only with a
\* nonempty queue, so Head and Tail are applied to a nonempty sequence.
WaitQueued == pc = "disWait" => taskQ # <<>>

\* The inductive strengthening of TypeOK.
TInv == TypeOK /\ WaitQueued

USE CloudAssumption, DeleteAssumption

-----------------------------------------------------------------------------
(* Lemmas on the helpers.                                                  *)

\* A queue of TaskIds stays one when a task is issued, also with the new
\* TaskId appended.
LEMMA QueueGrows ==
    ASSUME NEW n \in Nat, NEW q \in Seq(1..n)
    PROVE  /\ q \in Seq(1..n + 1)
           /\ Append(q, n + 1) \in Seq(1..n + 1)
<1>1. q \in Seq(1..n + 1)
  BY SMT
<1>2. QED
  BY <1>1

\* The tail of a nonempty queue of TaskIds is a queue of TaskIds.
LEMMA QueueTail ==
    ASSUME NEW n \in Nat, NEW q \in Seq(1..n), q # <<>>
    PROVE  Tail(q) \in Seq(1..n)
OBVIOUS

\* The EIPs of a page of tagged resources are addresses.
LEMMA EipRowsType ==
    ASSUME NEW R \in TagPages
    PROVE  EipRows(R) \subseteq AddressIds
BY DEF TagPages, EipRows

\* A step that leaves the process variables alone keeps TInv when the
\* provider keeps its types and its count of tasks.
LEMMA DelStutter ==
    ASSUME TInv, CloudTypeOK', Len(tasks') = Len(tasks), UNCHANGED delVars
    PROVE  TInv'
BY DEF TInv, TypeOK, WaitQueued, delVars

-----------------------------------------------------------------------------
(* TInv is kept by every step.                                             *)

LEMMA TypeStart ==
    ASSUME TInv, Start PROVE TInv'
BY CloudStutter DEF TInv, TypeOK, WaitQueued, Start, Return, Pcs, cloudVars

LEMMA TypeDescribeCluster ==
    ASSUME TInv, DescribeCluster PROVE TInv'
BY CloudStutter DEF TInv, TypeOK, WaitQueued, DescribeCluster, Return, Pcs,
   cloudVars, ClusterInstances

LEMMA TypeQueryTags ==
    ASSUME TInv, QueryTags PROVE TInv'
<1>1. CASE tagErr' = TRUE /\ eipIds' = {} /\ todoEip' = {} /\ pc' = "terminate"
  BY <1>1, CloudStutter DEF TInv, TypeOK, WaitQueued, QueryTags, Pcs, cloudVars
<1>2. CASE \E R \in TagPages :
             /\ tagErr' = FALSE
             /\ eipIds' = EipRows(R) /\ todoEip' = EipRows(R)
             /\ pc' = IF EipRows(R) = {} THEN "terminate" ELSE "disassoc"
  BY <1>2, EipRowsType, CloudStutter DEF TInv, TypeOK, WaitQueued, QueryTags,
     Pcs, cloudVars
<1>3. QED
  BY <1>1, <1>2 DEF QueryTags

LEMMA TypeDisassociate ==
    ASSUME TInv, Disassociate PROVE TInv'
<1>1. PICK e \in todoEip :
         /\ todoEip' = todoEip \ {e}
         /\ \/ DisassociateCall(e) /\ taskQ' = Enqueue(taskQ, Len(tasks) + 1)
            \/ UNCHANGED cloudVars /\ taskQ' = Enqueue(taskQ, 0)
  BY DEF Disassociate
<1>2. e \in AddressIds /\ Len(tasks) \in Nat
  BY DEF TInv, TypeOK, CloudTypeOK
<1>3. CASE DisassociateCall(e) /\ taskQ' = Enqueue(taskQ, Len(tasks) + 1)
  <2>1. CloudTypeOK' /\ Len(tasks') = Len(tasks) + 1
    BY <1>2, <1>3, DisassociateCallType DEF TInv, TypeOK
  <2>2. taskQ' \in Seq(1..Len(tasks'))
    BY <1>2, <1>3, <2>1, QueueGrows DEF TInv, TypeOK, Enqueue
  <2>3. QED
    BY <1>1, <2>1, <2>2 DEF TInv, TypeOK, WaitQueued, Disassociate
<1>4. CASE UNCHANGED cloudVars /\ taskQ' = Enqueue(taskQ, 0)
  BY <1>1, <1>4, CloudStutter DEF TInv, TypeOK, WaitQueued, Disassociate,
     Enqueue, cloudVars
<1>5. QED
  BY <1>1, <1>3, <1>4

LEMMA TypeDisassocDone ==
    ASSUME TInv, DisassocDone PROVE TInv'
BY CloudStutter DEF TInv, TypeOK, WaitQueued, DisassocDone, Pcs, cloudVars

LEMMA TypeDisWait ==
    ASSUME TInv, DisWait PROVE TInv'
<1>1. taskQ # <<>> /\ Len(tasks) \in Nat /\ taskQ \in Seq(1..Len(tasks))
  BY DEF TInv, WaitQueued, DisWait, TypeOK, CloudTypeOK
<1>2. Tail(taskQ) \in Seq(1..Len(tasks))
  BY <1>1, QueueTail
<1>3. CloudTypeOK' /\ Len(tasks') = Len(tasks)
  BY CloudStutter DEF TInv, TypeOK, DisWait, cloudVars
<1>4. CASE CanRetry /\ Retry /\ UNCHANGED <<pc, taskQ>>
  BY <1>1, <1>3, <1>4 DEF TInv, TypeOK, WaitQueued, DisWait, CanRetry, Retry
<1>5. CASE /\ taskQ' = Tail(taskQ)
           /\ attempts' = 0
           /\ pc' = IF Tail(taskQ) = <<>> THEN "release" ELSE "disWait"
  BY <1>2, <1>3, <1>5 DEF TInv, TypeOK, WaitQueued, DisWait, Pcs
<1>6. QED
  BY <1>4, <1>5 DEF DisWait

LEMMA TypeRelease ==
    ASSUME TInv, Release PROVE TInv'
<1>1. Len(tasks) \in Nat
  BY DEF TInv, TypeOK, CloudTypeOK
<1>2. CASE ReleaseCall(eipIds) /\ cur' = Len(tasks) + 1
  <2>1. CloudTypeOK' /\ Len(tasks') = Len(tasks) + 1
    BY <1>2, ReleaseCallType DEF TInv, TypeOK
  <2>2. taskQ \in Seq(1..Len(tasks'))
    BY <1>1, <2>1, QueueGrows DEF TInv, TypeOK
  <2>3. QED
    BY <1>1, <1>2, <2>1, <2>2 DEF TInv, TypeOK, WaitQueued, Release, Pcs
<1>3. CASE UNCHANGED cloudVars /\ cur' = 0
  BY <1>3, CloudStutter DEF TInv, TypeOK, WaitQueued, Release, Pcs, cloudVars
<1>4. QED
  BY <1>2, <1>3 DEF Release

LEMMA TypeRelWait ==
    ASSUME TInv, RelWait PROVE TInv'
BY CloudStutter DEF TInv, TypeOK, WaitQueued, RelWait, CanRetry, Retry, Pcs,
   cloudVars

LEMMA TypeTerminate ==
    ASSUME TInv, Terminate PROVE TInv'
<1>1. CASE ~tagErr /\ TerminateCall(ids) /\ ContinueUnlessErr
  <2>1. CloudTypeOK' /\ Len(tasks') = Len(tasks)
    BY <1>1, TerminateCallType DEF TInv, TypeOK
  <2>2. QED
    BY <1>1, <2>1 DEF TInv, TypeOK, WaitQueued, Terminate, ContinueUnlessErr,
       Return, Pcs
<1>2. CASE UNCHANGED cloudVars /\ (Return("err") \/ ContinueUnlessErr)
  BY <1>2, CloudStutter DEF TInv, TypeOK, WaitQueued, Terminate,
     ContinueUnlessErr, Return, Pcs, cloudVars
<1>3. QED
  BY <1>1, <1>2 DEF Terminate

LEMMA TypeOverwriteCfg ==
    ASSUME TInv, OverwriteCfg PROVE TInv'
BY CloudStutter DEF TInv, TypeOK, WaitQueued, OverwriteCfg, LocalStep, Return,
   Pcs, cloudVars

LEMMA TypeDeleteState ==
    ASSUME TInv, DeleteState PROVE TInv'
BY CloudStutter DEF TInv, TypeOK, WaitQueued, DeleteState, LocalStep, Return,
   Pcs, cloudVars

LEMMA TypeRemoveFolder ==
    ASSUME TInv, RemoveFolder PROVE TInv'
BY CloudStutter DEF TInv, TypeOK, WaitQueued, RemoveFolder, Return, Pcs,
   cloudVars

\* TInv holds in every reachable state.
\* Every step of deleteCluster and of the provider keeps TInv.
LEMMA TInvStep == TInv /\ [Next]_vars => TInv'
<1> SUFFICES ASSUME TInv, [Next]_vars PROVE TInv'
  OBVIOUS
<1>1. CASE Process
  BY <1>1, TypeStart, TypeDescribeCluster, TypeQueryTags, TypeDisassociate,
     TypeDisassocDone, TypeDisWait, TypeRelease, TypeRelWait, TypeTerminate,
     TypeOverwriteCfg, TypeDeleteState, TypeRemoveFolder DEF Process
<1>2. CASE \E i \in InstanceIds : Boot(i) /\ UNCHANGED delVars
  BY <1>2, BootType, DelStutter DEF TInv, TypeOK
<1>3. CASE \E t \in 1..Len(tasks) : TaskSucceeds(t) /\ UNCHANGED delVars
  BY <1>3, TaskSucceedsType, DelStutter DEF TInv, TypeOK
<1>4. CASE \E t \in 1..Len(tasks) : TaskFails(t) /\ UNCHANGED delVars
  BY <1>4, TaskFailsType, DelStutter DEF TInv, TypeOK
<1>5. CASE Finished \/ UNCHANGED vars
  BY <1>5 DEF Finished, vars, cloudVars, delVars, TInv, TypeOK, CloudTypeOK,
     WaitQueued
<1>6. QED
  BY <1>1, <1>2, <1>3, <1>4, <1>5 DEF Next

LEMMA TInvInvariant == Spec => []TInv
<1>1. Init => TInv
  <2> SUFFICES ASSUME Init PROVE TInv
    OBVIOUS
  <2>1. CloudTypeOK
    BY DEF Init, CloudTypeOK, Bindings0, AddrStates
  <2>2. taskQ \in Seq(1..Len(tasks))
    BY DEF Init
  <2>3. attempts \in 0..DelBackoff /\ cur \in Nat /\ pc \in Pcs
    BY DEF Init, Pcs
  <2>4. ids \subseteq ClusterInsts /\ eipIds \subseteq AddressIds
        /\ todoEip \subseteq eipIds
    BY DEF Init
  <2>5. QED
    BY <2>1, <2>2, <2>3, <2>4 DEF Init, TInv, TypeOK, WaitQueued
<1>2. TInv /\ [Next]_vars => TInv'
  BY TInvStep
<1>3. QED
  BY <1>1, <1>2, PTL DEF Spec

\* deleteCluster keeps the types of its state and of the provider's, and
\* awaits only TaskIds the provider issued, whatever the calls return.
THEOREM TypeCorrect == Spec => []TypeOK
BY TInvInvariant, PTL DEF TInv


-----------------------------------------------------------------------------
(* Without -f, the .state entry outlives no live instance.                 *)

\* The program points between IsClusterExist and the terminate block, and
\* those of the local clean-up after it.
ListedPcs == {"tags", "disassoc", "disWait", "release", "relWait", "terminate"}
CleanupPcs == {"cfg", "state", "folder"}

\* No instance of the cluster is Pending or Running.
AllDead == \A i \in ClusterInsts : ~Alive(i)

\* Between IsClusterExist and the terminate block every instance of the
\* cluster the provider knows of is among the ids it returned (nothing in
\* deleteCluster creates an instance).
Listed == pc \in ListedPcs => \A i \in ClusterInsts : vm[i] # "absent" => i \in ids

\* Once past the terminate block, or once the .state entry is gone, every
\* instance of the cluster is terminated or was never created.
Cleared == pc \in CleanupPcs \/ ~stateKept => AllDead

DInv == Listed /\ Cleared

\* A step that neither moves the instances nor enters the clean-up or the
\* listed phase from outside keeps DInv.
LEMMA DFrame ==
    ASSUME TInv, DInv, vm' = vm, ids' = ids,
           pc' \in ListedPcs => pc \in ListedPcs,
           pc' \in CleanupPcs => pc \in CleanupPcs,
           ~stateKept' => ~stateKept \/ pc \in CleanupPcs
    PROVE  DInv'
BY DEF DInv, Listed, Cleared, AllDead, Alive

LEMMA DDescribeCluster ==
    ASSUME TInv, DInv, DescribeCluster PROVE DInv'
<1>1. CASE Return("err") /\ UNCHANGED ids
  BY <1>1, DFrame DEF DescribeCluster, Return, ListedPcs, CleanupPcs, cloudVars
<1>2. CASE ids' = ClusterInstances /\ (pc' = "tags" \/ pc' = "done")
  BY <1>2 DEF DescribeCluster, DInv, Listed, Cleared, AllDead, Alive, ListedPcs,
     CleanupPcs, cloudVars, ClusterInstances
<1>3. QED
  BY <1>1, <1>2 DEF DescribeCluster, Return

LEMMA DTerminate ==
    ASSUME TInv, DInv, ~Forced, Terminate PROVE DInv'
<1>1. CASE ~tagErr /\ TerminateCall(ids) /\ ContinueUnlessErr
  <2>1. pc' = "cfg" /\ stateKept' = stateKept
    BY <1>1 DEF ContinueUnlessErr, Terminate
  <2>2. \A i \in ClusterInsts : vm[i] # "absent" => i \in ids
    BY DEF Terminate, DInv, Listed, ListedPcs
  <2>3. AllDead'
    BY <1>1, <2>2 DEF TerminateCall, AllDead, Alive, TInv, TypeOK
  <2>4. QED
    BY <2>1, <2>3 DEF DInv, Listed, Cleared, ListedPcs
<1>2. CASE ~tagErr /\ Return("err") /\ UNCHANGED cloudVars
  BY <1>2, DFrame DEF Terminate, Return, ListedPcs, CleanupPcs, cloudVars
<1>3. CASE tagErr /\ ContinueUnlessErr /\ UNCHANGED cloudVars
  <2>1. Return("err")
    BY <1>3 DEF ContinueUnlessErr
  <2>2. QED
    BY <1>3, <2>1, DFrame DEF Terminate, Return, ListedPcs, CleanupPcs, cloudVars
<1>4. QED
  BY <1>1, <1>2, <1>3 DEF Terminate

LEMMA DBoot ==
    ASSUME TInv, DInv, NEW i \in InstanceIds, Boot(i), UNCHANGED delVars
    PROVE  DInv'
<1>1. vm[i] = "pending" /\ vm' = [vm EXCEPT ![i] = "running"]
  BY DEF Boot
<1>2. \A j \in InstanceIds : vm'[j] # "absent" <=> vm[j] # "absent"
  BY <1>1 DEF TInv, TypeOK, CloudTypeOK
<1>3. AllDead => AllDead'
  BY <1>1 DEF AllDead, Alive, TInv, TypeOK, CloudTypeOK
<1>4. QED
  BY <1>2, <1>3 DEF DInv, Listed, Cleared, delVars, DeleteAssumption

\* Without -f, every step of deleteCluster and of the provider keeps DInv.
LEMMA DInvStep ==
    ASSUME ~Forced PROVE TInv /\ DInv /\ [Next]_vars => DInv'
<1> SUFFICES ASSUME TInv, DInv, [Next]_vars PROVE DInv'
  OBVIOUS
<1>1. CASE Start
  BY <1>1, DFrame DEF Start, Return, ListedPcs, CleanupPcs, cloudVars
<1>2. CASE DescribeCluster
  BY <1>2, DDescribeCluster
<1>3. CASE QueryTags \/ Disassociate \/ DisassocDone \/ DisWait \/ Release
           \/ RelWait
  <3>1. vm' = vm /\ ids' = ids /\ stateKept' = stateKept
    BY <1>3 DEF QueryTags, Disassociate, DisassocDone, DisWait, Release, RelWait,
       DisassociateCall, ReleaseCall, cloudVars
  <3>2. pc' \in ListedPcs
    BY <1>3 DEF QueryTags, Disassociate, DisassocDone, DisWait, Release, RelWait,
       ListedPcs
  <3>3. pc \in ListedPcs
    BY <1>3 DEF QueryTags, Disassociate, DisassocDone, DisWait, Release, RelWait,
       ListedPcs
  <3>4. QED
    BY <3>1, <3>2, <3>3, DFrame DEF ListedPcs, CleanupPcs
<1>4. CASE Terminate
  BY <1>4, DTerminate
<1>5. CASE OverwriteCfg \/ DeleteState \/ RemoveFolder
  <3>1. vm' = vm /\ ids' = ids /\ pc \in CleanupPcs
    BY <1>5 DEF OverwriteCfg, DeleteState, RemoveFolder, LocalStep, CleanupPcs,
       cloudVars
  <3>2. pc' \notin ListedPcs
    BY <1>5 DEF OverwriteCfg, DeleteState, RemoveFolder, LocalStep, Return,
       ListedPcs
  <3>3. QED
    BY <3>1, <3>2, DFrame
<1>6. CASE \E i \in InstanceIds : Boot(i) /\ UNCHANGED delVars
  BY <1>6, DBoot
<1>7. CASE \/ \E t \in 1..Len(tasks) : TaskSucceeds(t) /\ UNCHANGED delVars
           \/ \E t \in 1..Len(tasks) : TaskFails(t) /\ UNCHANGED delVars
  BY <1>7, DFrame DEF TaskSucceeds, TaskFails, delVars
<1>8. CASE Finished \/ UNCHANGED vars
  BY <1>8, DFrame DEF Finished, vars, delVars, cloudVars
<1>9. QED
  BY <1>1, <1>2, <1>3, <1>4, <1>5, <1>6, <1>7, <1>8 DEF Next, Process

\* DInv holds in every reachable state of a delete without -f.
LEMMA DInvInvariant ==
    ASSUME ~Forced PROVE Spec => []DInv
<1>1. Init => DInv
  BY DEF Init, DInv, Listed, Cleared, ListedPcs, CleanupPcs
<1>2. TInv /\ DInv /\ [Next]_vars => DInv'
  BY DInvStep
<1>3. QED
  BY <1>1, <1>2, TInvInvariant, PTL DEF Spec

\* Without -f, deleteCluster removes the cluster from the .state file only
\* after terminateInstances has taken every instance IsClusterExist found:
\* a failed tag query, terminate call or local step returns an error with
\* the record kept, for every cluster size and every way the provider
\* answers.
THEOREM NoOrphansWithoutForce ==
    ASSUME ~Forced PROVE Spec => []NoOrphanedInstances
<1>1. DInv => NoOrphanedInstances
  BY DEF DInv, Cleared, AllDead, NoOrphanedInstances
<1>2. QED
  BY <1>1, DInvInvariant, PTL

=============================================================================
