# TLA+ models of the Tencent Cloud provider of autok3s

The program is `src/pkg/providers/tencent/tencent.go`, the Tencent Cloud
provider of autok3s. It creates, joins, rolls back and deletes k3s clusters
on CVM instances, with optional elastic IPs (EIPs). This directory holds:

- TLA+ models of the provider;
- the TLC configurations that model-check them;
- TLAPS proofs of their main safety properties.

## The system

| Part | Code | State it changes |
|---|---|---|
| Orchestrator | `CreateK3sCluster` 134, `JoinK3sNode` 232, `Rollback` 300, `DeleteK3sCluster`/`deleteCluster` 382/858 | sequences the other parts; runs Rollback when Create or Join fails |
| Preflight | `CreateCheck` 950, `joinCheck` 992, `IsClusterExist` 483 | drops the .state workers whose instance is gone |
| InstanceProvisioner | `generateInstance` 743, `runInstances` 1093, `getInstanceStatus` 1342, `describeInstances` 1161, `terminateInstances` 1198 | CVM instances; the RollBack flag in p.m |
| EIPManager | `allocateEIPForInstance` 1744, `allocateAddresses` 1212, `associateAddress` 1275, `disassociateAddress` 1293, `releaseAddresses` 1234, `describeAddresses` 1251, `describeVpcTaskResult` 1313 | EIPs and the VPC service's asynchronous tasks |
| NodeRegistry | `p.m` (a `sync.Map`), `assembleInstanceStatus` 1027, `syncNodeStatusWithInstance` 1812 | the per-invocation node map and `p.Status` |
| Network and security groups | `configNetwork` 1402, `configSecurityGroup` 1511, `configDefaultSecurityPermission` 1572 | VPC, subnet and security-group rules |
| SSH and cluster info | `SSHK3sNode`, `GetCluster`, `DescribeCluster`, `uploadKeyPair` | remote I/O only |

How the parts interact in one invocation:

1. `generateInstance` prepares the client, the check, the key pair, the network and the security group.
2. It launches the master batch, then the worker batch.
3. It polls until every instance is Running.
4. For each role it allocates EIPs, waits for the allocation task, and pairs the addresses with the nodes of p.m in Range order.
5. It waits for every association task.
6. It lists the cluster's instances to build the node status.
7. The k3s bootstrap runs.
8. If any step returns an error, the caller runs `Rollback`. Rollback:
   - collects the ids flagged RollBack;
   - disassociates their EIPs and waits for those tasks;
   - releases the EIPs and waits for that task;
   - terminates the instances under a backoff of 5 attempts.

Every provider call can fail. Every VPC task can stay Running, succeed or fail. Every wait is a `wait.ExponentialBackoff` with a bounded number of steps.

## Modules

- **`TencentCloud`**: the provider, as the environment of the process.
  - State: `vm` (instance states), `vmMaster` (role tag), `addrSt`, `addrInst` (address state and binding), `tasks` (the VPC tasks), `bindings` (history).
  - Each API call the code makes is an action fragment: `RunInstancesCall`, `TerminateCall`, `AllocateCall`, `AssociateCall`, `DisassociateCall` and `ReleaseCall`. The last two carry the provider's refusals: it refuses to disassociate an unbound address, and to release an empty list or a bound address.
  - The provider's own steps are `Boot(i)`, `TaskSucceeds(t)` and `TaskFails(t)`.
  - A failed call is the error branch of the caller's action.
- **`Provision`**: one invocation of `CreateK3sCluster` or `JoinK3sNode` (`Command`), then its `Rollback`.
  - `pc` is the program point; `reg` is p.m.
  - Each action is one step of the code:
    - `Prepare`
    - `LaunchBatch` is `runInstances`.
    - `WaitRunning` is one poll of `getInstanceStatus`.
    - `AllocateEIP`, `AllocWait`, `DescribeAllocated`, `Associate` and `AssocDone` are `allocateEIPForInstance`. `AllocateEIP` includes a TaskId that `ParseUint` refuses after the addresses were allocated (line 1227): the call returns an error with the addresses left allocated.
    - `AssocWait` is the wait for eipTaskIds.
    - `ListInstances`, `AssembleNode` and `SyncNodeStatus` are `assembleInstanceStatus`.
    - `Bootstrap`
    - `RollbackStart` … `RbCleanup` are `Rollback`.
  - Where the code's outcome is not fixed, the model quantifies over all of them:
    - the Range order of the sync.Map;
    - the entries and order of a `DescribeInstancesStatus` answer: at most `StatusLimit` of them, and any prefix of its Running entries is stored before the loop returns;
    - every error branch.
  - The history variables `launched`, `allocated`, `confirmed` and `relAsked` only record what happened, for the properties.
  - Five operators placed just before the definitions they vary (`MarkRunningAsSuccess`, `AnyRunning`, `RetryUncounted`, `AssociateNoAdvance`, `DiscoveredNodeRollback`) are plausible faulty versions of those definitions. They are used only for mutation runs.
- **`MCProvision`**: model values for 4 instance ids and 3 address ids, plus the join fixture. Instance `i1` is an existing master; `i2` is a .state worker whose instance is already terminated.
- **`ProvisionProofs`**: the TLAPS proofs about Provision.
- **`RunningProofs`**: the proof that the bootstrap is handed only Running nodes.
- **`PairingProofs`**: the proof that addresses and nodes are paired one to one.
- **`TencentCloudProofs`**: lemmas on the provider's calls and steps, shared by the proofs of the processes that drive it.
- **`DeleteCluster`**: `DeleteK3sCluster` and `deleteCluster` over `TencentCloud`. Its actions follow the code line by line:
  - `Start`: the confirmation prompt, the log file and the SDK clients;
  - `DescribeCluster`: `IsClusterExist`, which pages through `describeInstances`;
  - `QueryTags`: `describeResourcesByTags`. It sends no Limit, so it reads one page of at most `TagLimit` tagged resources (`TagPages`), and its error is kept in `tagErr`;
  - `Disassociate`, `DisassocDone`, `DisWait`, `Release`, `RelWait`: the EIP loop, where every error is only logged;
  - `Terminate`: the block at 913, guarded by the err of line 872;
  - `OverwriteCfg`, `DeleteState`, `RemoveFolder`: the local files, as the flags `cfgKept` and `stateKept`.

  `Forced` is the `-f` flag. `Init` is any state a Create leaves behind: instances absent, Pending or Running, and EIPs allocated and bound to at most one live instance each.
- **`MCDeleteCluster`**: 2 instances and 2 addresses.
- **`DeleteProofs`**: the TLAPS proofs about DeleteCluster.
- **`SecurityRules`**: rules as `configDefaultSecurityPermission` reads them (one port token, one source block), and the required rule set of spec 4.5 (`Required`, `Covered`, `Missing`). This is the reference the code's batch is checked against.
- **`NetworkSetup`**: `configNetwork`, `generateDefaultVPC`, `generateDefaultSubnet`, `configSecurityGroup`, `generateDefaultSecurityGroup`, `configDefaultSecurityPermission` and `getSubnetCidr`, with one action per call:
  - `NetDescribeVpcs`, `NetDescribeSubnets`, `CreateVpc` and `CreateSubnet` for the network;
  - `SgDescribe`, `CreateSg`, `Policies`, `AddIngress` and `AddEgress` for the group.

  Invocations run one after the other (`Begin`, at most `MaxRuns`), each with its own zone, network mode, UI flag and user-supplied ids. VPCs, subnets and groups persist between invocations. `Perms` is the code's batch, built from the flags `HasPort` and `HasEtcd`.
- **`NetworkContract`**: the abstract specification of the two components (spec 4.4 and 4.5). Each phase takes a few atomic steps:
  - a VPC is created only when none exists;
  - the network phase ends with a subnet of that VPC, created only when the VPC has none;
  - a group is created only when none exists;
  - rules are only added, and only required ones;
  - instances are launched only with a group that covers every required rule and has an egress rule.

  `NetworkSetup` maps onto it through `APhase`, `ANetVpc`, `ANetSubnet` and `AGroup`. The abstract phase is the program point grouped by function. The network and the group become visible only once their function has returned nil.
- **`NetworkProofs`**: the TLAPS proofs about NetworkSetup.
- **`MCNetworkSetup`**: 2 VPC ids, 2 subnet ids, 2 group ids and 2 zones. A pre-existing group may hold an SSH rule for a port range, a universal 2379 rule and a 2380 rule for another block. Symmetry over each id pool.

## Runs

Every run uses `BackoffSteps = 2` and `RollbackSteps = 2`. Two polls per wait are enough to reach both "retry" and "timeout". The passing runs use `StatusLimit = 20`, the code's page size.

| Run | Checks | Result |
|---|---|---|
| `create` (1 master, 2 workers, EIPs, key upload) | TypeOK, AddressPairing, BootstrapOnlyRunning, Termination | passes, 236,799 states |
| `join` (2 workers into a cluster with an existing master and a stale worker) | RollbackOnlyOwnInstances, AddressPairing, BootstrapOnlyRunning, Termination | passes, 21,421 states |
| `statuspage` (`StatusLimit = 1`) | BootstrapOnlyRunning | violated |
| `rbleak` | RollbackLeavesNoAddress | violated |
| `relorder` | ReleaseAfterDisassociation | violated |
| `delete_safe` (no `-f`) | TypeOK, NoOrphanedInstances, Termination | passes, 7,042 states |
| `delete_force` (`-f`) | NoOrphanedInstances | violated |
| `delete_eipleak` (no `-f`) | DeleteLeavesNoAddress | violated |
| `net_safe` (3 invocations, 2 zones) | TypeOK, DefaultNetworkUnique, RulesCoverRequired, RulesStable, ContractSpec | passes, 564,922 states (with symmetry) |
| `net_zone` | SubnetInZone | violated |
| `net_etcd` | OnlyMissingAdded | violated |

What the properties say:

- **AddressPairing**: no address is recorded on two nodes, and no node holds two addresses, whatever the Range order and wherever an associate fails.
- **BootstrapOnlyRunning**: every Current node handed to the bootstrap is Running, both in p.m and at the provider.
- **RollbackOnlyOwnInstances**: no instance is terminated unless this call launched it. The stale worker is the exception; it was already terminated.
- **Termination**: each invocation, with its Rollback, returns.
- **NoOrphanedInstances**: the .state entry is deleted only when no instance of the cluster is alive. The delete starts from any live, tagged instances, whatever left them: among them are the instances of a partial `runInstances` answer (line 1150), which Rollback does not know of, and those of a Create killed before its Rollback (line 1155).
- **DeleteLeavesNoAddress**: a delete that reports success leaves no tagged EIP allocated, except ones in a running release task.
- **DefaultNetworkUnique**: sequential invocations create one default VPC and at most one default subnet in it.
- **RulesCoverRequired**: at launch, the group holds every rule the invocation's options require, plus an egress rule. This holds whatever the group held before and whatever earlier invocations added. Among those earlier additions are etcd rules for another subnet's block, which do not count.
- **RulesStable**: a group reconciled to the end for some options gets no create call from a later invocation with the same options. This holds even after an ingress batch succeeded and the egress call failed.
- **ContractSpec**: `NetworkSetup` implements `NetworkContract`.

The violations are findings (see PROJECT.json):

- `getInstanceStatus` judges only the page of statuses it gets back (line 1363).
- `Rollback` leaves allocated EIPs behind and still reports success. Three paths lead there:
  - the associate error swallowed at 1769;
  - an allocation task that timed out;
  - the release error logged at 343.
- `Rollback` releases addresses whose disassociation was never confirmed (line 342). The spec's release-ordering invariant forbids this.
- `deleteCluster -f` whose tag query fails skips `terminateInstances`, then deletes the .state entry. The `err` tested at line 913 is the one from line 872, because the inner `taskID, err :=` statements shadow it. The instances keep running, and nothing local records them.
- `deleteCluster` reports success with EIPs still allocated. Disassociate and release errors are only logged, and the tag query reads a single page (lines 885-909, 1387-1400).
- `configNetwork` looks the default subnet up by name and tag only (line 1427). A cluster in a second zone is given the first zone's subnet.
- `configDefaultSecurityPermission` adds the etcd pair whole when only one of its ports is missing (line 1690). The batch then holds a rule already present.

**Fairness.** Each process has weak fairness: `WF_vars(Process)`. Each of its steps is a synchronous SDK call that returns, and no other process competes with it. The provider has no fairness. An instance may stay Pending and a task may stay Running for ever; only the backoffs end the waits, which is what Termination checks.

**Bounds.** In the delete runs, `TagLimit = 3` is below the 4 tagged resources, so a page can miss one; `DelBackoff = 2`. The network runs use 3 invocations: one to create, one to reuse, and one more with other options or after a failure. With 2 of each id, a second VPC or subnet could be created, so the uniqueness properties can fail. Four instance ids are enough for 1+2 launched instances plus one spare, or for an existing master, a stale worker and 2 launched workers. Three addresses cover one per launched node. Larger batches repeat the same interleavings.

## Proofs (all obligations checked by tlapm)

### `ProvisionProofs`

The proofs assume `CloudAssumption`, `ProvisionAssumption` and `NoNodeAssumption`. They hold for any finite sets of ids and any counts, backoff steps and page size.

- **`TypeCorrect`: `Spec => []TypeOK`.**
  - TypeOK alone is not inductive. `AssocWait` and `RbDisWait` apply `Head` and `Tail` to the wait queue, so the invariant is strengthened to `TInv == TypeOK /\ WaitQueued`. `WaitQueued` says a queue wait is entered only with a nonempty queue.
  - There is one lemma per action, and lemmas about the helpers: the record updates of a node (`MarkedRunning`, `Paired`, `Assembled`), issued and resolved tasks, and `PollEnds`.
  - The record updates are named operators because the SMT backend cannot type a record `EXCEPT`; their lemmas are proved with Zenon.
- **`RollbackOwnOnly`: `Spec => []RollbackOnlyOwnInstances`.**
  - The inductive invariant `OwnInv` adds two facts:
    - every node of p.m with RollBack set was launched by this call;
    - Rollback's `rbIds` are a subset of `launched`.
  - It rests on three facts:
    - `runInstances` sets the flag only on fresh ids;
    - the node updates keep the flag (lemma `RollbackKept`);
    - `assembleInstanceStatus` stores discovered instances with the flag clear.
  - `OwnInv` was checked with TLC on both passing configurations before it was proved.

### `DeleteProofs`

The proofs assume `CloudAssumption` and `DeleteAssumption`. They hold for any finite sets of ids, any tag page size and any backoff. The provider's calls and steps are lemmas of `TencentCloudProofs`, shared with `ProvisionProofs`.

- **`TypeCorrect`: `Spec => []TypeOK`.** The invariant is strengthened as above: `WaitQueued` says `disWait` is entered only with a nonempty queue. There is one lemma per action.
- **`NoOrphansWithoutForce`: without `-f`, `Spec => []NoOrphanedInstances`.** The inductive invariant `DInv` relates the program point to the provider:
  - Once the cluster is listed, `ids` holds every live instance of the cluster (`Listed`). The provider can only move an instance towards terminated, and `Boot` keeps it alive.
  - Past a successful `Terminate`, no instance of the cluster is alive (`Cleared`).
  - A tag error leads to `Return("err")` before the local files.
  - So `stateKept` becomes FALSE only in `DeleteState`, past `Terminate`, with the cluster cleared.

  The theorem is false with `-f`: that is the `delete_force` finding.

### `NetworkProofs`

The proofs assume `NetAssumption`: `NoId` is none of the ids, the user's VPC and subnet are not ids the provider hands out, and the initial rules are rules. They hold for any id sets, zones, network modes and number of invocations.

The inductive invariant `IInv` has these conjuncts, besides `TypeOK`:
- `OneVpc`, `SubnetsInVpcs` and `OneSubnetPerVpc`: there is at most one default VPC; every default subnet lies in it; and there is one subnet per VPC. `DefaultNetworkUnique` alone is not inductive. A subnet found by the unscoped `DescribeSubnets` must lie in the VPC just found.
- `PcFacts`: what each program point's lookup found. At `createVpc` no VPC exists. At `createSubnet` no default subnet exists. In the group phase no group was supplied, and the group id is a tagged group.
- `BatchFacts`: the batch lies between what the group lacks (`MissingInPerms`) and what is required (`PermsRequired`). Once it is added, nothing is missing (`MissingFilled`), and at `launch` the group has an egress rule.

The proofs have one lemma per action for `IInv`, and one per action for the refinement step.

- **`NetworkUnique`: `Spec => []DefaultNetworkUnique`.** The cardinality follows from `OneVpc` (`FS_Singleton`).
- **`RulesCovered`: `Spec => []RulesCoverRequired`.** This is a conjunct of `BatchFacts`.
- **`Refinement`: `Spec => ContractSpec`.** `Init` maps to the contract's `Init`. Each step maps as follows:
  - `Begin` maps to `Begin`, and every failing call maps to `Fail`.
  - `CreateVpc` and `CreateSg` map to `CreateVpc` and `CreateGroup`.
  - Reusing a subnet, and `CreateSubnet`, map to `UseNetwork`.
  - `AddIngress` maps to `AddRules`, with the batch as the rules added.
  - A successful `AddEgress` maps to `Launch`.
  - The lookups, `Policies` and `Finished` are stutters.

  `SameRules` equates the instance's rule operators with those of `SecurityRules`.

  The literal `""` of `p.Network` stays inside `OverlayModes`, which the proofs never expand: the SMT backend does not accept the empty string.

- **`NetworkTypeCorrect`: `Spec => []TypeOK`.** This is a conjunct of `IInv`.
- **`ReconcileIdempotent`: `Spec => []RulesStable`.** A second invariant, `Stable`, is proved on top of `IInv`. It has two conjuncts:
  - `ReconciledCovered`: each recorded reconciliation left its group with nothing missing and an egress rule. This holds because rules are only added (`MissingMono`: more rules, fewer missing).
  - `BatchCurrent`: at `addIngress` the batch is `Perms` of the group's current rules.

  Lemma `NoneMissingNoPerms` shows a group that lacks nothing yields an empty batch. It takes one step per part of `Perms`: SSH, the API port, the UI port, 8999, the overlay ports and etcd. Both conjuncts were checked with TLC on `net_safe` before they were proved.

### `RunningProofs`

**`BootstrapRunning`: if `OnePage` holds, then `Spec => []BootstrapOnlyRunning`.**

- `OnePage` is `MasterNum + WorkerNum <= StatusLimit`: every node the call launches fits in one `DescribeInstancesStatus` answer.
- The hypothesis is necessary. Run `statuspage` shows the property violated when the nodes do not fit: `getInstanceStatus` then succeeds on an answer that omits some of them.
- Apart from `OnePage`, the theorem holds for every cluster size, backoff and page size.

The inductive invariant `RunInv` has six clauses, and each is needed:
1. While `pc` is on the forward path, a RollBack node that p.m records as Running is Running in the provider. Only Rollback's `terminateInstances` stops an instance, and `Boot` only starts one.
2. Past the wait, every RollBack node is Running in p.m.
3. A node without RollBack exists only once `assembleInstanceStatus` has stored one, or in Rollback. Such a node is never Current and never in `todoInst`. Hence every Current node carries RollBack.
4. At `prepare`, p.m is empty.
5. At `run`, p.m holds at most the masters: none while masters are launched, at most `MasterNum` while workers are.
6. At `waitRunning`, p.m holds at most `MasterNum + WorkerNum` nodes.

With 4–6 and `OnePage`, every answer of the wait that lists as many entries as p.m has nodes lists all of them (`WholePage`, by `FS_Subset`). So a successful wait marks every node Running. Lemma `MarkRunningFields` says what `MarkRunning` keeps; `NodeFields` does the same for the record updates.

`RunInv` was checked with TLC on both passing Provision configurations before it was proved.

### `PairingProofs`

**`AddressesPaired`: `Spec => []AddressPairing`.** This holds for every value of the constants: any number of instances, addresses and nodes, and every interleaving of the provider's task resolutions, the Range order of `allocateEIPForInstance`, and Rollback.

AddressPairing alone is not inductive: it says nothing of the association tasks still in flight, which bind addresses later. The inductive invariant `PairInv` ties what p.m records and what the provider binds to the `associateAddress` tasks:
1. `AssocSingle`: each association task names one address.
2. `AssocUnique`: no address is named by two association tasks.
3. `BoundByTask`: an address bound to an instance is named by an association task for that instance.
4. `EipsByTask`: an address p.m records for a node is named by an association task for that node.
5. `PoolFresh`: the addresses left to pair are named by no association task.
6. `AbsentUntouched`: an address never allocated is named by no task.
7. `PoolIssued`: the addresses left to pair were allocated.
8. `OneBinding`: the provider binds at most one address to an instance. The provider applies an association only when the instance has none (`Applicable`).
9. `UnpairedBare`: a node not yet paired records no address.
10. `OneEip`: a node records at most one address.

Clauses 2, 5, 6 and 7 carry the argument for a new association. Its address comes from the pool, so it is allocated (7) and was sent in no earlier association (5). The node is a candidate, so it is not public and records nothing (9). Clause 6 covers a fresh allocation: the new pool holds only addresses that were absent, so no task names them. Clauses 3 and 8 carry `assembleInstanceStatus`: it stores `BoundTo(i)`, which has at most one address, and that address was sent for `i`.

AddressPairing then follows. Two nodes recording one address would need two association tasks naming it, one per node (4), and these are one task (2). One address per node is clause 10, with `FS_EmptySet` and `FS_Singleton`.

TLC checked `PairInv` on both passing Provision configurations, `create` and `join`, before the proof was written. A first version without clause 7 was not inductive: the pairing step could not show that its address was not absent.

**Only model-checked:**

- Termination: liveness under the weak fairness of the process steps. Proving them would need reasoning about ENABLED and `WF`, which the installed provers do not do, so they stay with TLC.

## Not modelled yet, and the plan

1. An abstract "task" specification that `describeVpcTaskResult` refines.
2. A lossy `describeAddresses`, for the `eipAddresses[0]` index at line 1765.
3. Concurrent invocations of `configNetwork`/`configSecurityGroup`. The spec declares them unsupported, and `NetworkSetup` runs invocations one after the other.
4. `getSubnetCidr` on an empty answer (`SubnetSet[0]`, line 1893). Nothing in the model deletes a subnet.

Out of reach or out of scope:

- SSH, kubeconfig and `uploadKeyPair`: remote I/O.
- Option parsing (`SetConfig`, `generateClientSDK`): no changing state.
- The CLI crashing between steps: p.m is in memory only, and what a crash leaves at the provider (tagged instances and addresses) is among the states the delete starts from.
- `Dockerfile.dapper`: the build.
