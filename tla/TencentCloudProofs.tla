------------------------- MODULE TencentCloudProofs -------------------------
(***************************************************************************)
(* Lemmas on the provider (module TencentCloud), shared by the proofs of  *)
(* the processes that drive it: each call the process makes and each     *)
(* step of the provider keeps CloudTypeOK, and how it moves the count of  *)
(* tasks issued, which the processes use as TaskIds.                      *)
(***************************************************************************)
EXTENDS TencentCloud, TLAPS

\* A task record resolved by the provider stays a task record.
LEMMA ResolvedType ==
    ASSUME NEW t \in TaskRec, NEW r \in TaskStates
    PROVE  Resolved(t, r) \in TaskRec
BY Zenon DEF Resolved, TaskRec

\* A task the process issues is a task of the provider.
LEMMA IssueType ==
    ASSUME tasks \in Seq(TaskRec),
           NEW k \in {"alloc", "assoc", "disassoc", "release"},
           NEW A \in SUBSET AddressIds, NEW i \in InstanceIds \cup {NoInst}
    PROVE  Append(tasks, NewTask(k, A, i)) \in Seq(TaskRec)
<1>1. NewTask(k, A, i) \in TaskRec
  BY DEF NewTask, TaskRec, TaskStates
<1>2. QED
  BY <1>1

LEMMA CloudStutter ==
    ASSUME CloudTypeOK, UNCHANGED cloudVars
    PROVE  CloudTypeOK'
BY DEF CloudTypeOK, cloudVars

\* TerminateInstances keeps the types and issues no task.
LEMMA TerminateCallType ==
    ASSUME CloudTypeOK, NEW S \in SUBSET InstanceIds, TerminateCall(S)
    PROVE  CloudTypeOK' /\ Len(tasks') = Len(tasks)
BY DEF CloudTypeOK, TerminateCall, VmStates

\* DisassociateAddress issues the task Len(tasks) + 1.
LEMMA DisassociateCallType ==
    ASSUME CloudTypeOK, NEW e \in AddressIds, DisassociateCall(e)
    PROVE  CloudTypeOK' /\ Len(tasks') = Len(tasks) + 1
<1>1. tasks' \in Seq(TaskRec)
  BY IssueType DEF CloudTypeOK, DisassociateCall
<1>2. QED
  BY <1>1 DEF CloudTypeOK, DisassociateCall

\* ReleaseAddresses issues the task Len(tasks) + 1.
LEMMA ReleaseCallType ==
    ASSUME CloudTypeOK, NEW A \in SUBSET AddressIds, ReleaseCall(A)
    PROVE  CloudTypeOK' /\ Len(tasks') = Len(tasks) + 1
<1>1. tasks' \in Seq(TaskRec)
  BY IssueType DEF CloudTypeOK, ReleaseCall
<1>2. QED
  BY <1>1 DEF CloudTypeOK, ReleaseCall

\* A booting instance issues no task.
LEMMA BootType ==
    ASSUME CloudTypeOK, NEW i \in InstanceIds, Boot(i)
    PROVE  CloudTypeOK' /\ Len(tasks') = Len(tasks)
BY DEF CloudTypeOK, Boot, VmStates

\* A task resolving keeps the number of tasks.
LEMMA TaskSucceedsType ==
    ASSUME CloudTypeOK, NEW t \in 1..Len(tasks), TaskSucceeds(t)
    PROVE  CloudTypeOK' /\ Len(tasks') = Len(tasks)
<1>1. tasks[t] \in TaskRec
  BY DEF CloudTypeOK
<1>2. Resolved(tasks[t], "success") \in TaskRec
  BY <1>1, ResolvedType DEF TaskStates
<1>3. tasks' \in Seq(TaskRec) /\ Len(tasks') = Len(tasks)
  BY <1>2 DEF TaskSucceeds, CloudTypeOK
<1>4. tasks[t].kind = "assoc" => tasks[t].inst \in InstanceIds
  BY DEF TaskSucceeds, Applicable
<1>5. bindings' \subseteq AddressIds \X InstanceIds
  BY <1>1, <1>4 DEF CloudTypeOK, TaskSucceeds, TaskRec
<1>6. addrSt' \in [AddressIds -> AddrStates]
  BY DEF CloudTypeOK, TaskSucceeds, AddrStates
<1>7. addrInst' \in [AddressIds -> InstanceIds \cup {NoInst}]
  BY <1>1 DEF CloudTypeOK, TaskSucceeds, TaskRec
<1>8. QED
  BY <1>3, <1>5, <1>6, <1>7 DEF CloudTypeOK, TaskSucceeds

LEMMA TaskFailsType ==
    ASSUME CloudTypeOK, NEW t \in 1..Len(tasks), TaskFails(t)
    PROVE  CloudTypeOK' /\ Len(tasks') = Len(tasks)
<1>1. tasks[t] \in TaskRec
  BY DEF CloudTypeOK
<1>2. Resolved(tasks[t], "failed") \in TaskRec
  BY <1>1, ResolvedType DEF TaskStates
<1>3. tasks' \in Seq(TaskRec) /\ Len(tasks') = Len(tasks)
  BY <1>2 DEF TaskFails, CloudTypeOK
<1>4. QED
  BY <1>1, <1>3 DEF CloudTypeOK, TaskFails, TaskRec, AddrStates

=============================================================================
