---------------------------- MODULE TencentCloud ----------------------------
(***************************************************************************)
(* The provider side of the API boundary that pkg/providers/tencent       *)
(* drives: CVM instances, elastic IP addresses (EIPs) and the VPC         *)
(* service's asynchronous tasks.  The provider is the environment: its    *)
(* own steps (an instance booting, a task resolving) interleave with the  *)
(* calls of the orchestrating process, and nothing obliges them to happen *)
(* (no fairness).  The calls are action fragments used by the process     *)
(* modules; a call that the provider rejects is modelled by the caller as *)
(* the error branch of its step.                                           *)
(***************************************************************************)
EXTENDS Naturals, Sequences, FiniteSets

CONSTANTS
    InstanceIds,   \* instance ids the provider may hand out
    AddressIds,    \* address ids (eip-...) the provider may hand out
    NoInst         \* AddressSet[..].InstanceId of an unbound address

ASSUME CloudAssumption ==
    /\ IsFiniteSet(InstanceIds) /\ IsFiniteSet(AddressIds)
    /\ NoInst \notin InstanceIds

VARIABLES
    vm,        \* vm[i]: InstanceState of instance i ("absent" = never created)
    vmMaster,  \* vmMaster[i]: instance i carries the tag master=true
    addrSt,    \* addrSt[e]: lifecycle of address e
    addrInst,  \* addrInst[e]: the instance address e is bound to, or NoInst
    tasks,     \* tasks[t]: the VPC task with TaskId t (ids start at 1)
    bindings   \* history: every <<e, i>> such that e has been bound to i

cloudVars == <<vm, vmMaster, addrSt, addrInst, tasks, bindings>>

VmStates   == {"absent", "pending", "running", "terminated"}
AddrStates == {"absent", "allocating", "allocated", "released"}
TaskStates == {"running", "success", "failed"}
TaskRec    == [kind : {"alloc", "assoc", "disassoc", "release"},
               addrs : SUBSET AddressIds,
               inst : InstanceIds \cup {NoInst},
               st : TaskStates]

CloudTypeOK ==
    /\ vm \in [InstanceIds -> VmStates]
    /\ vmMaster \in [InstanceIds -> BOOLEAN]
    /\ addrSt \in [AddressIds -> AddrStates]
    /\ addrInst \in [AddressIds -> InstanceIds \cup {NoInst}]
    /\ tasks \in Seq(TaskRec)
    /\ bindings \subseteq AddressIds \X InstanceIds

Alive(i) == vm[i] \in {"pending", "running"}

\* DescribeAddresses with the filter instance-id = i
BoundTo(i) == {e \in AddressIds : addrInst[e] = i}

\* DescribeAddresses with the filter instance-id in S
BoundToAny(S) == {e \in AddressIds : addrInst[e] \in S}

AbsentInstances == {i \in InstanceIds : vm[i] = "absent"}
AbsentAddresses == {e \in AddressIds : addrSt[e] = "absent"}

\* The ids the provider assigns to k new instances (or addresses); which
\* ones does not matter, so the choice is fixed.
FreshInstances(k) == CHOOSE S \in SUBSET AbsentInstances : Cardinality(S) = k
FreshAddresses(k) == CHOOSE S \in SUBSET AbsentAddresses : Cardinality(S) = k

\* Result of DescribeTaskResult(t); a TaskId the provider never issued
\* (the 0 of a failed call) is answered with an error.
TaskResult(t) == IF t \in 1..Len(tasks) THEN tasks[t].st ELSE "error"

\* Task record t once the provider has resolved it with result r.
Resolved(t, r) == [t EXCEPT !.st = r]

NewTask(kind, A, i) == [kind |-> kind, addrs |-> A, inst |-> i, st |-> "running"]

-----------------------------------------------------------------------------
(* Calls of the orchestrating process that the provider accepts.          *)

\* RunInstances: the instances S are created PENDING with the role tag.
RunInstancesCall(S, master) ==
    /\ vm' = [i \in InstanceIds |-> IF i \in S THEN "pending" ELSE vm[i]]
    /\ vmMaster' = [i \in InstanceIds |-> IF i \in S THEN master ELSE vmMaster[i]]
    /\ UNCHANGED <<addrSt, addrInst, tasks, bindings>>

\* TerminateInstances: an address bound to a terminated instance stays
\* allocated and becomes unbound.
TerminateCall(S) ==
    /\ vm' = [i \in InstanceIds |-> IF i \in S THEN "terminated" ELSE vm[i]]
    /\ addrInst' = [e \in AddressIds |-> IF addrInst[e] \in S THEN NoInst ELSE addrInst[e]]
    /\ UNCHANGED <<vmMaster, addrSt, tasks, bindings>>

\* AllocateAddresses: the ids are returned at once, with a task.
AllocateCall(A) ==
    /\ addrSt' = [e \in AddressIds |-> IF e \in A THEN "allocating" ELSE addrSt[e]]
    /\ tasks' = Append(tasks, NewTask("alloc", A, NoInst))
    /\ UNCHANGED <<vm, vmMaster, addrInst, bindings>>

AssociateCall(e, i) ==
    /\ tasks' = Append(tasks, NewTask("assoc", {e}, i))
    /\ UNCHANGED <<vm, vmMaster, addrSt, addrInst, bindings>>

\* DisassociateAddress is refused for an address that is not bound.
DisassociateCall(e) ==
    /\ addrInst[e] # NoInst
    /\ tasks' = Append(tasks, NewTask("disassoc", {e}, NoInst))
    /\ UNCHANGED <<vm, vmMaster, addrSt, addrInst, bindings>>

\* ReleaseAddresses is refused for an empty list and for a bound address.
ReleaseCall(A) ==
    /\ A # {}
    /\ \A e \in A : addrSt[e] = "allocated" /\ addrInst[e] = NoInst
    /\ tasks' = Append(tasks, NewTask("release", A, NoInst))
    /\ UNCHANGED <<vm, vmMaster, addrSt, addrInst, bindings>>

-----------------------------------------------------------------------------
(* Steps of the provider itself.                                           *)

Boot(i) ==
    /\ vm[i] = "pending"
    /\ vm' = [vm EXCEPT ![i] = "running"]
    /\ UNCHANGED <<vmMaster, addrSt, addrInst, tasks, bindings>>

\* Whether task t can take effect in the current state.
Applicable(t) ==
    LET k == tasks[t].kind
        A == tasks[t].addrs
        i == tasks[t].inst
    IN  \/ k = "alloc"
        \/ /\ k = "assoc"
           /\ i \in InstanceIds /\ Alive(i) /\ BoundTo(i) = {}
           /\ \A e \in A : addrSt[e] = "allocated" /\ addrInst[e] = NoInst
        \/ k = "disassoc"
        \/ k = "release" /\ \A e \in A : addrSt[e] = "allocated" /\ addrInst[e] = NoInst

TaskSucceeds(t) ==
    /\ tasks[t].st = "running"
    /\ Applicable(t)
    /\ LET k == tasks[t].kind
           A == tasks[t].addrs
           i == tasks[t].inst
       IN
       /\ tasks' = [tasks EXCEPT ![t] = Resolved(@, "success")]
       /\ addrSt' = [e \in AddressIds |->
                       IF e \in A /\ k = "alloc" THEN "allocated"
                       ELSE IF e \in A /\ k = "release" THEN "released"
                       ELSE addrSt[e]]
       /\ addrInst' = [e \in AddressIds |->
                       IF e \in A /\ k = "assoc" THEN i
                       ELSE IF e \in A /\ k = "disassoc" THEN NoInst
                       ELSE addrInst[e]]
       /\ bindings' = IF k = "assoc" THEN bindings \cup (A \X {i}) ELSE bindings
       /\ UNCHANGED <<vm, vmMaster>>

\* A failed allocation leaves no address behind.
TaskFails(t) ==
    /\ tasks[t].st = "running"
    /\ tasks' = [tasks EXCEPT ![t] = Resolved(@, "failed")]
    /\ addrSt' = [e \in AddressIds |->
                    IF e \in tasks[t].addrs /\ tasks[t].kind = "alloc"
                    THEN "released" ELSE addrSt[e]]
    /\ UNCHANGED <<vm, vmMaster, addrInst, bindings>>

=============================================================================
