---------------------------- MODULE DeleteCluster ----------------------------
(***************************************************************************)
(* DeleteK3sCluster and deleteCluster of the Tencent provider              *)
(* (src/pkg/providers/tencent/tencent.go).  The cluster's resources are   *)
(* found at the provider by tag, not from the local .state file:          *)
(* IsClusterExist lists the instances (describeInstances), then           *)
(* describeResourcesByTags lists the tagged resources, of which the EIPs  *)
(* are disassociated, waited for and released in one batch; then the     *)
(* instances are terminated and the local .cfg entry, .state entry and    *)
(* cluster folder are removed.  Forced (the -f flag) skips the prompt and  *)
(* turns most errors into log lines.  The provider interleaves its own   *)
(* steps (instances booting, VPC tasks resolving) with the process.       *)
(***************************************************************************)
EXTENDS TencentCloud

CONSTANTS
    Forced,         \* the f argument of DeleteK3sCluster / deleteCluster
    ClusterInsts,  \* instances tagged cluster=<name> that may exist
    ClusterAddrs,  \* EIPs allocated for the cluster (tagged likewise)
    TagLimit,      \* rows in one DescribeResourcesByTags answer (no Offset is sent)
    DelBackoff     \* common.Backoff.Steps: polls of one describeVpcTaskResult

ASSUME DeleteAssumption ==
    /\ Forced \in BOOLEAN
    /\ ClusterInsts \subseteq InstanceIds
    /\ ClusterAddrs \subseteq AddressIds
    /\ TagLimit \in Nat \ {0}
    /\ DelBackoff \in Nat \ {0}

VARIABLES
    pc,         \* where the process is
    result,     \* what DeleteK3sCluster returned: "none" until it returns
    ids,        \* the instance ids IsClusterExist returned
    tagErr,     \* the err of describeResourcesByTags, still in err at line 913
    eipIds,     \* the EIP ids taken from the tagged resources
    todoEip,    \* eipIds not yet disassociated by the loop
    taskQ,      \* taskIds of the disassociations, awaited in turn
    cur,        \* the TaskId of the release (0 when the call failed)
    attempts,   \* polls made by the current describeVpcTaskResult
    cfgKept,    \* the cluster is still in the .cfg file
    stateKept   \* the cluster is still in the .state file

delVars == <<pc, result, ids, tagErr, eipIds, todoEip, taskQ, cur, attempts,
             cfgKept, stateKept>>

vars == <<cloudVars, delVars>>

Pcs == {"start", "exist", "tags", "disassoc", "disWait", "release", "relWait",
        "terminate", "cfg", "state", "folder", "done"}

TypeOK ==
    /\ CloudTypeOK
    /\ pc \in Pcs
    /\ result \in {"none", "ok", "err"}
    /\ ids \subseteq ClusterInsts
    /\ tagErr \in BOOLEAN
    /\ eipIds \subseteq AddressIds /\ todoEip \subseteq eipIds
    \* every TaskId awaited is one the provider issued
    /\ taskQ \in Seq(1..Len(tasks))
    /\ cur \in Nat
    /\ attempts \in 0..DelBackoff
    /\ cfgKept \in BOOLEAN /\ stateKept \in BOOLEAN

\* The cluster as a Create (or a failed one) leaves it: each instance
\* Pending, Running or never created, each EIP allocated and bound to at
\* most one live instance, and no instance holding two EIPs.
Bindings0 ==
    {f \in [AddressIds -> ClusterInsts \cup {NoInst}] :
        /\ \A e \in AddressIds \ ClusterAddrs : f[e] = NoInst
        /\ \A e, d \in AddressIds : e # d /\ f[e] = f[d] => f[e] = NoInst
        /\ \A e \in AddressIds : f[e] # NoInst => Alive(f[e])}

Init ==
    /\ vm \in {v \in [InstanceIds -> VmStates] :
                 \A i \in InstanceIds :
                   v[i] \in IF i \in ClusterInsts
                            THEN {"absent", "pending", "running"} ELSE {"absent"}}
    /\ vmMaster = [i \in InstanceIds |-> FALSE]
    /\ addrSt = [e \in AddressIds |-> IF e \in ClusterAddrs THEN "allocated" ELSE "absent"]
    /\ addrInst \in Bindings0
    /\ tasks = <<>>
    /\ bindings = {b \in AddressIds \X InstanceIds : addrInst[b[1]] = b[2]}
    /\ pc = "start" /\ result = "none"
    /\ ids = {} /\ tagErr = FALSE /\ eipIds = {} /\ todoEip = {}
    /\ taskQ = <<>> /\ cur = 0 /\ attempts = 0
    /\ cfgKept = TRUE /\ stateKept = TRUE

\* The process returns r.
Return(r) == pc' = "done" /\ result' = r

\* describeResourcesByTags: the resources carrying autok3s=true and
\* cluster=<name>; a single request, so at most TagLimit of them.
Tagged == {i \in ClusterInsts : vm[i] # "absent"}
          \cup {e \in ClusterAddrs : addrSt[e] \in {"allocating", "allocated"}}

TagPages ==
    LET n == IF Cardinality(Tagged) < TagLimit THEN Cardinality(Tagged) ELSE TagLimit
    IN  {R \in SUBSET Tagged : Cardinality(R) = n}

\* The rows whose ServiceType and ResourcePrefix are those of an EIP.
EipRows(R) == R \cap AddressIds

-----------------------------------------------------------------------------
(* Polling with wait.ExponentialBackoff (describeVpcTaskResult).           *)

CanRetry == attempts + 1 < DelBackoff

\* A variant that forgets to count the attempt.
RetryUncounted == attempts' = attempts

\* One more attempt of the backoff.
Retry == attempts' = attempts + 1

\* The ends a poll of task t can give: "ok" (Success), "err" (Failed, or
\* ErrWaitTimeout on the last attempt; a describe error is retried).
PollEnds(t) ==
       (IF TaskResult(t) = "success" THEN {"ok"} ELSE {})
  \cup (IF TaskResult(t) = "failed" THEN {"err"} ELSE {})
  \cup (IF attempts + 1 = DelBackoff THEN {"err"} ELSE {})

-----------------------------------------------------------------------------
(* DeleteK3sCluster                                                        *)

\* Without -f the user is asked to confirm; GetLogFile and
\* generateClientSDK can fail.
Start ==
    /\ pc = "start"
    /\ \/ ~Forced /\ Return("ok")
       \/ Return("err")
       \/ pc' = "exist" /\ UNCHANGED result
    /\ UNCHANGED cloudVars
    /\ UNCHANGED <<ids, tagErr, eipIds, todoEip, taskQ, cur, attempts, cfgKept,
                   stateKept>>

\* A variant that lists only the instances already Running.
RunningInstances == {i \in ClusterInsts : vm[i] = "running"}

\* What describeInstances lists, page after page: every instance with the
\* cluster's tags that the provider knows of, whatever its state.
ClusterInstances == {i \in ClusterInsts : vm[i] # "absent"}

\* IsClusterExist (describeInstances, every page): an error is returned;
\* no instance is an error without -f and a silent success with it.
DescribeCluster ==
    /\ pc = "exist"
    /\ \/ Return("err") /\ UNCHANGED ids
       \/ /\ ids' = ClusterInstances
          /\ IF ClusterInstances # {} THEN pc' = "tags" /\ UNCHANGED result
             ELSE Return(IF Forced THEN "ok" ELSE "err")
    /\ UNCHANGED cloudVars
    /\ UNCHANGED <<tagErr, eipIds, todoEip, taskQ, cur, attempts, cfgKept,
                   stateKept>>

\* describeResourcesByTags: an error is only logged, and stays in err.
QueryTags ==
    /\ pc = "tags"
    /\ \/ /\ tagErr' = TRUE /\ eipIds' = {} /\ todoEip' = {}
          /\ pc' = "terminate"
       \/ \E R \in TagPages :
            /\ tagErr' = FALSE
            /\ eipIds' = EipRows(R) /\ todoEip' = EipRows(R)
            /\ pc' = IF EipRows(R) = {} THEN "terminate" ELSE "disassoc"
    /\ UNCHANGED cloudVars
    /\ UNCHANGED <<result, ids, taskQ, cur, attempts, cfgKept, stateKept>>

\* A variant that also queues the TaskId 0 of a failed call.
EnqueueZero(q, t) == Append(q, t)

\* taskIds collects only the TaskIds that are not 0.
Enqueue(q, t) == IF t # 0 THEN Append(q, t) ELSE q

\* disassociateAddress for one EIP; an error (also the provider's refusal
\* of an address that is not bound) is only logged.
Disassociate ==
    /\ pc = "disassoc"
    /\ \E e \in todoEip :
         /\ todoEip' = todoEip \ {e}
         /\ \/ DisassociateCall(e) /\ taskQ' = Enqueue(taskQ, Len(tasks) + 1)
            \/ UNCHANGED cloudVars /\ taskQ' = Enqueue(taskQ, 0)
    /\ UNCHANGED <<pc, result, ids, tagErr, eipIds, cur, attempts, cfgKept,
                   stateKept>>

DisassocDone ==
    /\ pc = "disassoc"
    /\ todoEip = {}
    /\ pc' = IF taskQ = <<>> THEN "release" ELSE "disWait"
    /\ attempts' = 0
    /\ UNCHANGED cloudVars
    /\ UNCHANGED <<result, ids, tagErr, eipIds, todoEip, taskQ, cur, cfgKept,
                   stateKept>>

\* describeVpcTaskResult for each disassociation task; its error is logged.
DisWait ==
    /\ pc = "disWait"
    /\ \/ CanRetry /\ Retry /\ UNCHANGED <<pc, taskQ>>
       \/ /\ PollEnds(Head(taskQ)) # {}
          /\ taskQ' = Tail(taskQ)
          /\ attempts' = 0
          /\ pc' = IF Tail(taskQ) = <<>> THEN "release" ELSE "disWait"
    /\ UNCHANGED cloudVars
    /\ UNCHANGED <<result, ids, tagErr, eipIds, todoEip, cur, cfgKept, stateKept>>

\* releaseAddresses(eipIds), whatever became of the disassociations; on an
\* error the TaskId is 0 and is waited for anyway.
Release ==
    /\ pc = "release"
    /\ \/ ReleaseCall(eipIds) /\ cur' = Len(tasks) + 1
       \/ UNCHANGED cloudVars /\ cur' = 0
    /\ pc' = "relWait"
    /\ attempts' = 0
    /\ UNCHANGED <<result, ids, tagErr, eipIds, todoEip, taskQ, cfgKept, stateKept>>

\* describeVpcTaskResult of the release; its error is logged.
RelWait ==
    /\ pc = "relWait"
    /\ \/ CanRetry /\ Retry /\ UNCHANGED pc
       \/ PollEnds(cur) # {} /\ attempts' = 0 /\ pc' = "terminate"
    /\ UNCHANGED cloudVars
    /\ UNCHANGED <<result, ids, tagErr, eipIds, todoEip, taskQ, cur, cfgKept,
                   stateKept>>

\* A variant that goes on to the local files whatever err holds.
ContinueIgnoringErr == pc' = "cfg" /\ UNCHANGED result

\* After the terminate block: err (the tag query's) is returned without -f.
ContinueUnlessErr ==
    IF tagErr /\ ~Forced THEN Return("err") ELSE pc' = "cfg" /\ UNCHANGED result

\* terminateInstances(ids) only when err is nil; its error is returned
\* even with -f.
Terminate ==
    /\ pc = "terminate"
    /\ \/ /\ ~tagErr
          /\ TerminateCall(ids)
          /\ ContinueUnlessErr
       \/ ~tagErr /\ Return("err") /\ UNCHANGED cloudVars
       \/ tagErr /\ ContinueUnlessErr /\ UNCHANGED cloudVars
    /\ UNCHANGED <<ids, tagErr, eipIds, todoEip, taskQ, cur, attempts, cfgKept,
                   stateKept>>

\* One of the local clean-up steps: on success set the file's flag to
\* FALSE and go to next; an error is returned without -f.
LocalStep(from, next, kept) ==
    /\ pc = from
    /\ \/ kept' = FALSE /\ pc' = next /\ UNCHANGED result
       \/ UNCHANGED kept /\ IF Forced THEN pc' = next /\ UNCHANGED result
                           ELSE Return("err")

\* cluster.OverwriteCfg
OverwriteCfg ==
    /\ LocalStep("cfg", "state", cfgKept)
    /\ UNCHANGED cloudVars
    /\ UNCHANGED <<ids, tagErr, eipIds, todoEip, taskQ, cur, attempts, stateKept>>

\* cluster.DeleteState
DeleteState ==
    /\ LocalStep("state", "folder", stateKept)
    /\ UNCHANGED cloudVars
    /\ UNCHANGED <<ids, tagErr, eipIds, todoEip, taskQ, cur, attempts, cfgKept>>

\* os.RemoveAll of the cluster folder (its error is returned without -f);
\* then success.
RemoveFolder ==
    /\ pc = "folder"
    /\ \/ Return("ok")
       \/ ~Forced /\ Return("err")
    /\ UNCHANGED cloudVars
    /\ UNCHANGED <<ids, tagErr, eipIds, todoEip, taskQ, cur, attempts, cfgKept,
                   stateKept>>

\* The command has returned.
Finished ==
    /\ pc = "done"
    /\ UNCHANGED vars

Process ==
    \/ Start \/ DescribeCluster \/ QueryTags \/ Disassociate \/ DisassocDone
    \/ DisWait \/ Release \/ RelWait \/ Terminate
    \/ OverwriteCfg \/ DeleteState \/ RemoveFolder

Next ==
    \/ Process
    \/ \E i \in InstanceIds : Boot(i) /\ UNCHANGED delVars
    \/ \E t \in 1..Len(tasks) : TaskSucceeds(t) /\ UNCHANGED delVars
    \/ \E t \in 1..Len(tasks) : TaskFails(t) /\ UNCHANGED delVars
    \/ Finished

\* Each step is a synchronous call that returns; the provider gets no
\* fairness.
Spec == Init /\ [][Next]_vars /\ WF_vars(Process)

-----------------------------------------------------------------------------
(* Properties                                                              *)

\* The cluster leaves the local .state file only once none of its
\* instances is alive at the provider: deleteCluster may not drop the
\* record of instances that keep running (and billing) untracked, however
\* its calls fail.
NoOrphanedInstances ==
    ~stateKept => \A i \in ClusterInsts : ~Alive(i)

\* A delete that reports success and has removed the cluster from the
\* .state file has left no EIP of the cluster allocated, unless a release task for it is still on its way (spec: an
\* orphaned floating IP with an unreported error is worse than an
\* incomplete cleanup).
DeleteLeavesNoAddress ==
    pc = "done" /\ result = "ok" /\ ~stateKept =>
        \A e \in ClusterAddrs :
            addrSt[e] = "allocated" =>
                \E t \in 1..Len(tasks) :
                    tasks[t].kind = "release" /\ e \in tasks[t].addrs
                    /\ tasks[t].st = "running"

\* Every wait is bounded by its backoff, so DeleteK3sCluster returns
\* whatever the provider does.
Termination == <>(pc = "done")

=============================================================================
