---------------------------- MODULE NetworkSetup ----------------------------
(***************************************************************************)
(* The default network and security group of generateInstance (lines      *)
(* 765-779): configNetwork, generateDefaultVPC, generateDefaultSubnet,     *)
(* configSecurityGroup, generateDefaultSecurityGroup,                      *)
(* configDefaultSecurityPermission and getSubnetCidr.                      *)
(*                                                                         *)
(* Invocations of the CLI (create or join of some cluster) run one after  *)
(* the other, at most MaxRuns of them, each with its own zone, network    *)
(* mode, UI flag and user-supplied ids; the VPCs, subnets and groups of   *)
(* the provider persist between them.  Every provider call may fail.      *)
(*                                                                         *)
(* Rules are those of module SecurityRules.                              *)
(***************************************************************************)
EXTENDS Naturals, FiniteSets, SecurityRules

CONSTANTS
    Zones,        \* the zones the invocations are run in (p.Zone)
    NetModes,     \* values of p.Network
    VpcIds,       \* ids the provider gives to created VPCs
    SubnetIds,    \* ids the provider gives to created subnets
    SgIds,        \* ids of security groups
    UserVpc,      \* the VPC a user supplies with --vpc
    UserSubnet,   \* the subnet a user supplies with --subnet
    InitRules,    \* rules a pre-existing autok3s group may hold
    MaxRuns,      \* number of invocations explored
    NoId          \* the empty string of an id field

ASSUME NetAssumption ==
    /\ InitRules \subseteq Rule
    /\ MaxRuns \in Nat \ {0}
    /\ NoId \notin VpcIds \cup SubnetIds \cup SgIds \cup {UserVpc, UserSubnet}
    /\ UserVpc \notin VpcIds /\ UserSubnet \notin SubnetIds

VARIABLES
    vpcs, snVpc, snZone,          \* default VPCs; each subnet id's VPC and zone
    sgs, ingress, egress,         \* tagged groups; their ingress rules; some egress rule
    npc, runs,                    \* program point; invocations started
    zone, net, ui, userNet, userSg,   \* the invocation's options
    vpcID, subnetID, sgID,        \* p.VpcID, p.SubnetID, p.SecurityGroupIds
    cidr, perms, hasEgress,       \* locals of configDefaultSecurityPermission
    reconciled                    \* history: (group, options) reconciled to the end

cloudVars == <<vpcs, snVpc, snZone, sgs, ingress, egress>>
procVars == <<npc, runs, zone, net, ui, userNet, userSg, vpcID, subnetID, sgID,
              cidr, perms, hasEgress, reconciled>>
vars == <<cloudVars, procVars>>

Pcs == {"idle", "vpcs", "subnets", "createVpc", "createSubnet", "sgs", "createSg",
        "policies", "addIngress", "addEgress", "launch", "failed"}
Ends == {"idle", "launch", "failed"}
Reconciliation == [g : SgIds, net : NetModes, ui : BOOLEAN, cidr : Cidrs]

TypeOK ==
    /\ vpcs \subseteq VpcIds
    /\ snVpc \in [SubnetIds -> VpcIds \cup {NoId}]
    /\ snZone \in [SubnetIds -> Zones \cup {NoId}]
    /\ sgs \subseteq SgIds
    /\ ingress \in [SgIds -> SUBSET Rule]
    /\ egress \in [SgIds -> BOOLEAN]
    /\ npc \in Pcs /\ runs \in 0..MaxRuns
    /\ zone \in Zones /\ net \in NetModes /\ ui \in BOOLEAN
    /\ userNet \in BOOLEAN /\ userSg \in BOOLEAN
    /\ vpcID \in VpcIds \cup {UserVpc, NoId}
    /\ subnetID \in SubnetIds \cup {UserSubnet, NoId}
    /\ sgID \in SgIds \cup {NoId}
    /\ cidr \in Cidrs \cup {NoId}
    /\ perms \subseteq Rule /\ hasEgress \in BOOLEAN
    /\ reconciled \subseteq Reconciliation

\* A tagged group named autok3s may already exist, with any of InitRules.
Init ==
    /\ vpcs = {}
    /\ snVpc = [s \in SubnetIds |-> NoId]
    /\ snZone = [s \in SubnetIds |-> NoId]
    /\ sgs \in {{}} \cup {{g} : g \in SgIds}
    /\ ingress \in [SgIds -> SUBSET InitRules]
    /\ egress \in [SgIds -> BOOLEAN]
    /\ \A g \in SgIds \ sgs : ingress[g] = {} /\ ~egress[g]
    /\ npc = "idle" /\ runs = 0
    /\ zone \in Zones /\ net \in NetModes /\ ui = FALSE
    /\ userNet = FALSE /\ userSg = FALSE
    /\ vpcID = NoId /\ subnetID = NoId /\ sgID = NoId
    /\ cidr = NoId /\ perms = {} /\ hasEgress = FALSE /\ reconciled = {}

(***************************************************************************)
(* generateInstance 765-779: a new invocation (a fresh p) with its options.*)
(* configNetwork runs only when no VPC is supplied, configSecurityGroup    *)
(* only when no group is supplied; a user's VPC comes with its subnet.     *)
(***************************************************************************)
Begin ==
    /\ npc \in Ends /\ runs < MaxRuns
    /\ runs' = runs + 1
    /\ \E z \in Zones, n \in NetModes, u, un, us \in BOOLEAN :
        /\ zone' = z /\ net' = n /\ ui' = u /\ userNet' = un /\ userSg' = us
        /\ vpcID' = IF un THEN UserVpc ELSE NoId
        /\ subnetID' = IF un THEN UserSubnet ELSE NoId
        /\ npc' = IF ~un THEN "vpcs" ELSE IF ~us THEN "sgs" ELSE "launch"
    /\ sgID' = NoId /\ cidr' = NoId /\ perms' = {} /\ hasEgress' = FALSE
    /\ UNCHANGED <<cloudVars, reconciled>>

\* An error returned up to generateInstance ends the invocation.
Fail ==
    /\ npc' = "failed"
    /\ UNCHANGED <<cloudVars, runs, zone, net, ui, userNet, userSg, vpcID,
                   subnetID, sgID, cidr, perms, hasEgress, reconciled>>

\* Where configNetwork goes once p.SubnetID is set.
AfterNetwork == IF userSg THEN "launch" ELSE "sgs"

\* configNetwork 1402-1424, 1449-1451: DescribeVpcs by name and tag; the
\* first VPC of the answer (the answer's order is the provider's) is reused.
NetDescribeVpcs ==
    /\ npc = "vpcs"
    /\ \/ Fail
       \/ /\ vpcs # {}
          /\ \E v \in vpcs : vpcID' = v
          /\ npc' = "subnets"
          /\ UNCHANGED <<cloudVars, runs, zone, net, ui, userNet, userSg,
                         subnetID, sgID, cidr, perms, hasEgress, reconciled>>
       \/ /\ vpcs = {}
          /\ npc' = "createVpc"
          /\ UNCHANGED <<cloudVars, runs, zone, net, ui, userNet, userSg,
                         vpcID, subnetID, sgID, cidr, perms, hasEgress, reconciled>>

DefaultSubnetsNone == {}
\* The DescribeSubnets of 1425-1438 filters by subnet name and the autok3s
\* tag only: it returns every default subnet, of any VPC and any zone.
DefaultSubnets == {s \in SubnetIds : snVpc[s] # NoId}

\* configNetwork 1425-1448: reuse the first subnet found, or create one.
NetDescribeSubnets ==
    /\ npc = "subnets"
    /\ \/ Fail
       \/ /\ DefaultSubnets # {}
          /\ \E s \in DefaultSubnets : subnetID' = s
          /\ npc' = AfterNetwork
          /\ UNCHANGED <<cloudVars, runs, zone, net, ui, userNet, userSg,
                         vpcID, sgID, cidr, perms, hasEgress, reconciled>>
       \/ /\ DefaultSubnets = {}
          /\ npc' = "createSubnet"
          /\ UNCHANGED <<cloudVars, runs, zone, net, ui, userNet, userSg,
                         vpcID, subnetID, sgID, cidr, perms, hasEgress, reconciled>>

\* generateDefaultVPC 1463-1484 (called at 1450): CreateVpc with the tag;
\* the provider gives a fresh id.
CreateVpc ==
    /\ npc = "createVpc"
    /\ \/ Fail
       \/ \E v \in VpcIds \ vpcs :
            /\ vpcs' = vpcs \cup {v}
            /\ vpcID' = v
            /\ npc' = "createSubnet"
            /\ UNCHANGED <<snVpc, snZone, sgs, ingress, egress, runs, zone, net,
                           ui, userNet, userSg, subnetID, sgID, cidr, perms,
                           hasEgress, reconciled>>

\* generateDefaultSubnet 1486-1509 (called at 1447 and 1454): CreateSubnet
\* in p.VpcID and p.Zone.
CreateSubnet ==
    /\ npc = "createSubnet"
    /\ \/ Fail
       \/ \E s \in SubnetIds :
            /\ snVpc[s] = NoId
            /\ snVpc' = [snVpc EXCEPT ![s] = vpcID]
            /\ snZone' = [snZone EXCEPT ![s] = zone]
            /\ subnetID' = s
            /\ npc' = AfterNetwork
            /\ UNCHANGED <<vpcs, sgs, ingress, egress, runs, zone, net, ui,
                           userNet, userSg, vpcID, sgID, cidr, perms, hasEgress,
                           reconciled>>

\* configSecurityGroup 1511-1538: DescribeSecurityGroups by tag and name;
\* the first group found is reused, none leads to its creation.
SgDescribe ==
    /\ npc = "sgs"
    /\ \/ Fail
       \/ /\ sgs # {}
          /\ \E g \in sgs : sgID' = g
          /\ npc' = "policies"
          /\ UNCHANGED <<cloudVars, runs, zone, net, ui, userNet, userSg,
                         vpcID, subnetID, cidr, perms, hasEgress, reconciled>>
       \/ /\ sgs = {}
          /\ npc' = "createSg"
          /\ UNCHANGED <<cloudVars, runs, zone, net, ui, userNet, userSg,
                         vpcID, subnetID, sgID, cidr, perms, hasEgress, reconciled>>

\* generateDefaultSecurityGroup 1550-1570 (called at 1540-1545): a new,
\* empty group with the tag.
CreateSg ==
    /\ npc = "createSg"
    /\ \/ Fail
       \/ \E g \in SgIds \ sgs :
            /\ sgs' = sgs \cup {g}
            /\ sgID' = g
            /\ npc' = "policies"
            /\ UNCHANGED <<vpcs, snVpc, snZone, ingress, egress, runs, zone, net,
                           ui, userNet, userSg, vpcID, subnetID, cidr, perms,
                           hasEgress, reconciled>>

SubnetCidrEmpty(s) == ""
\* getSubnetCidr 1884-1896: DescribeSubnets by id answers the subnet's block.
SubnetCidr(s) == IF s = UserSubnet THEN "user" ELSE "subnet"

\* The flags of 1591-1628 for ports 22, 6443, 10250, 8472 and 8999: some
\* rule has the port, whatever its block.
HasPort(R, port) == \E x \in R : x.port = port

HasEtcdAnyCidr(R, port, c) == \E x \in R : x.port = port
HasEtcdOnlyAny(R, port, c) == \E x \in R : x.port = port /\ x.cidr = "any"
\* hasEtcdServerPort and hasEtcdPeerPort, 1615-1622: the port with the
\* subnet's block or ipRange.
HasEtcd(R, port, c) == \E x \in R : x.port = port /\ x.cidr \in {c, "any"}

\* A variant that opens the etcd pair to every source.
PermsEtcdAny(R, n, u, c) ==
       {AnyRule(p) : p \in {p \in {22, 6443, 10250} : ~HasPort(R, p)}}
    \cup (IF n \in OverlayModes /\ ~HasPort(R, 8472) THEN {AnyRule(8472)} ELSE {})
    \cup (IF ~HasEtcd(R, 2379, c) \/ ~HasEtcd(R, 2380, c)
          THEN {AnyRule(p) : p \in EtcdPorts} ELSE {})
    \cup (IF u /\ ~HasPort(R, 8999) THEN {AnyRule(8999)} ELSE {})

\* The batch perms of 1636-1706, built from the flags: the etcd pair, with
\* the subnet's block, goes in when either of the two ports is missing.
Perms(R, n, u, c) ==
       {AnyRule(p) : p \in {p \in {22, 6443, 10250} : ~HasPort(R, p)}}
    \cup (IF n \in OverlayModes /\ ~HasPort(R, 8472) THEN {AnyRule(8472)} ELSE {})
    \cup (IF ~HasEtcd(R, 2379, c) \/ ~HasEtcd(R, 2380, c)
          THEN {[port |-> p, cidr |-> c] : p \in EtcdPorts} ELSE {})
    \cup (IF u /\ ~HasPort(R, 8999) THEN {AnyRule(8999)} ELSE {})

\* configDefaultSecurityPermission 1572-1634: DescribeSecurityGroupPolicies,
\* then getSubnetCidr (p.SubnetID is set on every path that gets here), then
\* the flags over the ingress rules and whether any egress rule exists.
Policies ==
    /\ npc = "policies"
    /\ \/ Fail
       \/ LET c == SubnetCidr(subnetID) IN
          /\ cidr' = c
          /\ perms' = Perms(ingress[sgID], net, ui, c)
          /\ hasEgress' = egress[sgID]
          /\ npc' = "addIngress"
          /\ UNCHANGED <<cloudVars, runs, zone, net, ui, userNet, userSg,
                         vpcID, subnetID, sgID, reconciled>>

\* 1708-1718: one CreateSecurityGroupPolicies call with the whole batch,
\* skipped when it is empty.
AddIngress ==
    /\ npc = "addIngress"
    /\ \/ perms # {} /\ Fail
       \/ /\ ingress' = [ingress EXCEPT ![sgID] = @ \cup perms]
          /\ npc' = "addEgress"
          /\ UNCHANGED <<vpcs, snVpc, snZone, sgs, egress, runs, zone, net, ui,
                         userNet, userSg, vpcID, subnetID, sgID, cidr, perms,
                         hasEgress, reconciled>>

\* Back in generateInstance with the group configured.
Configured ==
    /\ npc' = "launch"
    /\ reconciled' = reconciled \cup
            {[g |-> sgID, net |-> net, ui |-> ui, cidr |-> cidr]}

\* 1720-1740: an allow-all egress rule when the group had none.
AddEgress ==
    /\ npc = "addEgress"
    /\ \/ ~hasEgress /\ Fail
       \/ /\ egress' = [egress EXCEPT ![sgID] = TRUE]
          /\ Configured
          /\ UNCHANGED <<vpcs, snVpc, snZone, sgs, ingress, runs, zone, net, ui,
                         userNet, userSg, vpcID, subnetID, sgID, cidr, perms,
                         hasEgress>>

\* The invocations explored are over.
Finished ==
    /\ npc \in Ends /\ runs = MaxRuns
    /\ UNCHANGED vars

Next ==
    \/ Begin \/ NetDescribeVpcs \/ NetDescribeSubnets \/ CreateVpc
    \/ CreateSubnet \/ SgDescribe \/ CreateSg \/ Policies \/ AddIngress
    \/ AddEgress \/ Finished

Spec == Init /\ [][Next]_vars

-----------------------------------------------------------------------------
\* Sequential invocations create at most one default VPC, and at most one
\* default subnet in it: configNetwork reuses what DescribeVpcs and
\* DescribeSubnets find (spec: idempotence under sequential reuse).
DefaultNetworkUnique ==
    /\ Cardinality(vpcs) <= 1
    /\ \A s, t \in SubnetIds : snVpc[s] # NoId /\ snVpc[s] = snVpc[t] => s = t

\* When configSecurityGroup returns nil, the group handed to RunInstances
\* holds every required rule for this invocation's options, and an egress
\* rule, however the group looked before and whatever earlier invocations
\* with other options added.
RulesCoverRequired ==
    npc = "launch" /\ ~userSg =>
        /\ Missing(ingress[sgID], net, ui, cidr) = {}
        /\ egress[sgID]

\* Reconciling is idempotent: once a group has been reconciled to the end
\* for some options, a later invocation with the same options computes an
\* empty batch and finds an egress rule, so it makes no create call.
RulesStable ==
    npc = "addIngress" /\ [g |-> sgID, net |-> net, ui |-> ui, cidr |-> cidr] \in reconciled
        => perms = {} /\ hasEgress

\* The batch holds only missing rules (spec: ports already present are
\* skipped).
OnlyMissingAdded ==
    npc = "addIngress" => perms \subseteq Missing(ingress[sgID], net, ui, cidr)

\* The subnet configNetwork hands to RunInstances lies in the invocation's
\* zone (spec: the subnet lookup is scoped to the network; the subnet is
\* created in the target zone).
SubnetInZone ==
    npc = "launch" /\ ~userNet => snZone[subnetID] = zone

-----------------------------------------------------------------------------
(***************************************************************************)
(* Refinement of NetworkContract.  The abstract phase is the program      *)
(* point grouped by function; the network and the group of the abstract   *)
(* invocation are visible only once configNetwork, and then               *)
(* configSecurityGroup, have returned nil.  The lookups, p.VpcID while    *)
(* configNetwork runs and the locals of configDefaultSecurityPermission   *)
(* are hidden.                                                            *)
(***************************************************************************)
NetworkPcs == {"vpcs", "subnets", "createVpc", "createSubnet"}
GroupPcs == {"sgs", "createSg", "policies", "addIngress", "addEgress"}

APhase == IF npc \in NetworkPcs THEN "network"
          ELSE IF npc \in GroupPcs THEN "group" ELSE npc
ANetVpc == IF npc \in GroupPcs \cup {"launch"} THEN vpcID ELSE NoId
ANetSubnet == IF npc \in GroupPcs \cup {"launch"} THEN subnetID ELSE NoId
AGroup == IF npc = "launch" /\ ~userSg THEN sgID ELSE NoId

Contract == INSTANCE NetworkContract
              WITH phase <- APhase, netVpc <- ANetVpc, netSubnet <- ANetSubnet,
                   group <- AGroup

\* Every behaviour of configNetwork and configSecurityGroup, step by step
\* and with every call able to fail, is a behaviour of the contract: no
\* second VPC, no second subnet in a VPC, rules only added and only
\* required ones, and a launch only with a group covering every required
\* rule and an egress rule.
ContractSpec == Contract!Spec
=============================================================================
