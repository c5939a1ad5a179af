---------------------------- MODULE NetworkProofs ----------------------------
(***************************************************************************)
(* Proofs about NetworkSetup: the inductive invariant of sequential       *)
(* invocations, the two safety properties net_safe checks, and that       *)
(* NetworkSetup implements NetworkContract under the refinement mapping.  *)
(***************************************************************************)
EXTENDS NetworkSetup, FiniteSetTheorems, TLAPS

USE NetAssumption

-----------------------------------------------------------------------------
(* The rule sets.                                                          *)

\* The required rules are rules, for a block of Cidrs.
LEMMA RequiredType ==
    ASSUME NEW n, NEW u \in BOOLEAN, NEW c \in Cidrs
    PROVE  Required(n, u, c) \subseteq Rule
<1>1. \A p \in PortTokens : AnyRule(p) \in Rule
  BY DEF AnyRule, Rule, Cidrs
<1>2. \A p \in EtcdPorts : [port |-> p, cidr |-> c] \in Rule
  BY DEF Rule, EtcdPorts, PortTokens
<1>3. {22, 6443, 10250, 8472, 8999} \subseteq PortTokens
  BY DEF PortTokens
<1>4. QED
  BY <1>1, <1>2, <1>3 DEF Required

\* The code's batch holds only required rules.
LEMMA PermsRequired ==
    ASSUME NEW R, NEW n, NEW u \in BOOLEAN, NEW c
    PROVE  Perms(R, n, u, c) \subseteq Required(n, u, c)
BY DEF Perms, Required

\* ... and every required rule the group lacks.
LEMMA MissingInPerms ==
    ASSUME NEW R, NEW n, NEW u \in BOOLEAN, NEW c
    PROVE  Missing(R, n, u, c) \subseteq Perms(R, n, u, c)
<1> SUFFICES ASSUME NEW r \in Required(n, u, c), ~Covered(R, r)
             PROVE  r \in Perms(R, n, u, c)
  BY DEF Missing
<1>1. CASE r \in {AnyRule(p) : p \in {22, 6443, 10250}}
  <2>1. PICK p \in {22, 6443, 10250} : r = AnyRule(p)
    BY <1>1
  <2>2. ~HasPort(R, p)
    BY <2>1 DEF Covered, HasPort, AnyRule, EtcdPorts
  <2>3. QED
    BY <2>1, <2>2 DEF Perms
<1>2. CASE n \in OverlayModes /\ r = AnyRule(8472)
  <2>1. ~HasPort(R, 8472)
    BY <1>2 DEF Covered, HasPort, AnyRule, EtcdPorts
  <2>2. QED
    BY <1>2, <2>1 DEF Perms
<1>3. CASE r \in {[port |-> p, cidr |-> c] : p \in EtcdPorts}
  <2>1. PICK p \in EtcdPorts : r = [port |-> p, cidr |-> c]
    BY <1>3
  <2>2. ~HasEtcd(R, p, c)
    BY <2>1 DEF Covered, HasEtcd
  <2>3. ~HasEtcd(R, 2379, c) \/ ~HasEtcd(R, 2380, c)
    BY <2>2 DEF EtcdPorts
  <2>4. QED
    BY <2>1, <2>3 DEF Perms
<1>4. CASE u /\ r = AnyRule(8999)
  <2>1. ~HasPort(R, 8999)
    BY <1>4 DEF Covered, HasPort, AnyRule, EtcdPorts
  <2>2. QED
    BY <1>4, <2>1 DEF Perms
<1>5. QED
  BY <1>1, <1>2, <1>3, <1>4 DEF Required

\* Adding a set that holds every missing rule leaves none missing.
LEMMA MissingFilled ==
    ASSUME NEW R, NEW P, NEW n, NEW u, NEW c,
           Missing(R, n, u, c) \subseteq P
    PROVE  Missing(R \cup P, n, u, c) = {}
BY DEF Missing, Covered

\* getSubnetCidr answers the block the contract gives the subnet.
LEMMA SubnetBlock ==
    ASSUME NEW s
    PROVE  SubnetCidr(s) = Contract!BlockOf(s) /\ SubnetCidr(s) \in Cidrs
BY DEF SubnetCidr, Contract!BlockOf, Cidrs

-----------------------------------------------------------------------------
(***************************************************************************)
(* The inductive invariant.  Sequential invocations see one default VPC   *)
(* at most, and every default subnet is in it, one per VPC; each program  *)
(* point carries what its lookups found; and the batch sits between what  *)
(* is missing and what is required.                                       *)
(***************************************************************************)
OneVpc == \A v, w \in vpcs : v = w
SubnetsInVpcs == \A s \in SubnetIds : snVpc[s] # NoId => snVpc[s] \in vpcs
OneSubnetPerVpc ==
    \A s, t \in SubnetIds : snVpc[s] # NoId /\ snVpc[s] = snVpc[t] => s = t

PcFacts ==
    /\ npc = "createVpc" => vpcs = {}
    /\ npc \in {"subnets", "createSubnet"} => vpcID \in vpcs
    /\ npc = "createSubnet" => \A s \in SubnetIds : snVpc[s] = NoId
    /\ npc \in GroupPcs => ~userSg
    /\ npc = "createSg" => sgs = {}
    /\ npc \in {"policies", "addIngress", "addEgress"} => sgID \in sgs

BatchFacts ==
    /\ npc \in {"addIngress", "addEgress"} =>
         /\ cidr = SubnetCidr(subnetID)
         /\ perms \subseteq Required(net, ui, cidr)
    /\ npc = "addIngress" => Missing(ingress[sgID], net, ui, cidr) \subseteq perms
    /\ npc = "addEgress" => Missing(ingress[sgID], net, ui, cidr) = {}
    /\ npc = "launch" /\ ~userSg =>
         /\ sgID \in sgs /\ cidr \in Cidrs
         /\ Missing(ingress[sgID], net, ui, cidr) = {}
         /\ egress[sgID]

IInv == TypeOK /\ OneVpc /\ SubnetsInVpcs /\ OneSubnetPerVpc /\ PcFacts /\ BatchFacts

LEMMA InitIInv == Init => IInv
<1> SUFFICES ASSUME Init PROVE IInv
  OBVIOUS
<1>1. TypeOK
  <2>1. ingress \in [SgIds -> SUBSET Rule]
    BY DEF Init
  <2>2. reconciled \subseteq Reconciliation /\ perms \subseteq Rule
    BY DEF Init
  <2>3. sgs \subseteq SgIds
    BY DEF Init
  <2>4. snVpc \in [SubnetIds -> VpcIds \cup {NoId}] /\ snZone \in [SubnetIds -> Zones \cup {NoId}]
    BY DEF Init
  <2>5. npc \in Pcs /\ runs \in 0..MaxRuns
    BY DEF Init, Pcs
  <2>6. QED
    BY <2>1, <2>2, <2>3, <2>4, <2>5 DEF Init, TypeOK
<1>2. OneVpc /\ SubnetsInVpcs /\ OneSubnetPerVpc
  BY DEF Init, OneVpc, SubnetsInVpcs, OneSubnetPerVpc
<1>3. PcFacts /\ BatchFacts
  BY DEF Init, PcFacts, BatchFacts, GroupPcs
<1>4. QED
  BY <1>1, <1>2, <1>3 DEF IInv

-----------------------------------------------------------------------------
(* Each action keeps IInv.                                                 *)

\* An error ends the invocation at "failed", which no fact is about.
LEMMA FailInv ==
    ASSUME IInv, Fail
    PROVE  IInv'
BY DEF IInv, Fail, cloudVars, TypeOK, Pcs, OneVpc, SubnetsInVpcs, OneSubnetPerVpc, PcFacts,
       BatchFacts, GroupPcs

LEMMA BeginInv ==
    ASSUME IInv, Begin
    PROVE  IInv'
<1>1. TypeOK'
  <2>1. PICK z \in Zones, n \in NetModes, u, un, us \in BOOLEAN :
          /\ zone' = z /\ net' = n /\ ui' = u /\ userNet' = un /\ userSg' = us
          /\ vpcID' = IF un THEN UserVpc ELSE NoId
          /\ subnetID' = IF un THEN UserSubnet ELSE NoId
          /\ npc' = IF ~un THEN "vpcs" ELSE IF ~us THEN "sgs" ELSE "launch"
    BY DEF Begin
  <2>2. runs' \in 0..MaxRuns
    BY DEF IInv, TypeOK, Begin
  <2>3. npc' \in Pcs /\ vpcID' \in VpcIds \cup {UserVpc, NoId}
        /\ subnetID' \in SubnetIds \cup {UserSubnet, NoId}
    BY <2>1 DEF Pcs
  <2>4. QED
    BY <2>1, <2>2, <2>3 DEF IInv, Begin, cloudVars, TypeOK
<1>2. (OneVpc /\ SubnetsInVpcs /\ OneSubnetPerVpc)'
  BY DEF IInv, Begin, cloudVars, OneVpc, SubnetsInVpcs, OneSubnetPerVpc
<1>3. PcFacts' /\ BatchFacts'
  BY DEF IInv, Begin, cloudVars, PcFacts, BatchFacts, GroupPcs
<1>4. QED
  BY <1>1, <1>2, <1>3 DEF IInv

LEMMA NetDescribeVpcsInv ==
    ASSUME IInv, NetDescribeVpcs
    PROVE  IInv'
<1>1. CASE Fail
  BY <1>1, FailInv
<1>2. CASE ~Fail
  BY <1>2 DEF IInv, NetDescribeVpcs, cloudVars, TypeOK, Pcs, OneVpc, SubnetsInVpcs,
             OneSubnetPerVpc, PcFacts, BatchFacts, GroupPcs
<1>3. QED
  BY <1>1, <1>2

LEMMA NetDescribeSubnetsInv ==
    ASSUME IInv, NetDescribeSubnets
    PROVE  IInv'
<1>1. CASE Fail
  BY <1>1, FailInv
<1>2. CASE ~Fail
  BY <1>2 DEF IInv, NetDescribeSubnets, cloudVars, DefaultSubnets, AfterNetwork, TypeOK, Pcs,
             OneVpc, SubnetsInVpcs, OneSubnetPerVpc, PcFacts, BatchFacts, GroupPcs
<1>3. QED
  BY <1>1, <1>2

LEMMA CreateVpcInv ==
    ASSUME IInv, CreateVpc
    PROVE  IInv'
<1>1. CASE Fail
  BY <1>1, FailInv
<1>2. CASE ~Fail
  BY <1>2 DEF IInv, CreateVpc, TypeOK, Pcs, OneVpc, SubnetsInVpcs,
             OneSubnetPerVpc, PcFacts, BatchFacts, GroupPcs
<1>3. QED
  BY <1>1, <1>2

LEMMA CreateSubnetInv ==
    ASSUME IInv, CreateSubnet
    PROVE  IInv'
<1>1. CASE Fail
  BY <1>1, FailInv
<1>2. CASE ~Fail
  BY <1>2 DEF IInv, CreateSubnet, AfterNetwork, TypeOK, Pcs, OneVpc, SubnetsInVpcs,
             OneSubnetPerVpc, PcFacts, BatchFacts, GroupPcs
<1>3. QED
  BY <1>1, <1>2

LEMMA SgDescribeInv ==
    ASSUME IInv, SgDescribe
    PROVE  IInv'
<1>1. CASE Fail
  BY <1>1, FailInv
<1>2. CASE ~Fail
  BY <1>2 DEF IInv, SgDescribe, cloudVars, TypeOK, Pcs, OneVpc, SubnetsInVpcs,
             OneSubnetPerVpc, PcFacts, BatchFacts, GroupPcs
<1>3. QED
  BY <1>1, <1>2

LEMMA CreateSgInv ==
    ASSUME IInv, CreateSg
    PROVE  IInv'
<1>1. CASE Fail
  BY <1>1, FailInv
<1>2. CASE ~Fail
  BY <1>2 DEF IInv, CreateSg, TypeOK, Pcs, OneVpc, SubnetsInVpcs,
             OneSubnetPerVpc, PcFacts, BatchFacts, GroupPcs
<1>3. QED
  BY <1>1, <1>2

\* configDefaultSecurityPermission's batch lies between what the group
\* lacks and what is required.
LEMMA PoliciesInv ==
    ASSUME IInv, Policies
    PROVE  IInv'
<1>1. CASE Fail
  BY <1>1, FailInv
<1>2. CASE ~Fail
  <2> DEFINE c == SubnetCidr(subnetID)
             R == ingress[sgID]
  <2>1. /\ cidr' = c /\ perms' = Perms(R, net, ui, c)
        /\ hasEgress' = egress[sgID] /\ npc' = "addIngress"
        /\ UNCHANGED <<cloudVars, runs, zone, net, ui, userNet, userSg,
                       vpcID, subnetID, sgID, reconciled>>
    BY <1>2 DEF Policies
  <2>2. c \in Cidrs
    BY SubnetBlock
  <2>3. ui \in BOOLEAN /\ sgID \in SgIds /\ net \in NetModes
    BY DEF IInv, TypeOK, PcFacts, Policies
  <2>4. perms' \subseteq Required(net, ui, c) /\ Required(net, ui, c) \subseteq Rule
    BY <2>1, <2>2, <2>3, PermsRequired, RequiredType
  <2>5. Missing(R, net, ui, c) \subseteq perms'
    BY <2>1, <2>3, MissingInPerms
  <2>6. TypeOK'
    BY <2>1, <2>2, <2>3, <2>4 DEF IInv, TypeOK, cloudVars, Pcs
  <2>7. (OneVpc /\ SubnetsInVpcs /\ OneSubnetPerVpc /\ PcFacts)'
    BY <2>1 DEF IInv, cloudVars, OneVpc, SubnetsInVpcs, OneSubnetPerVpc, PcFacts,
                GroupPcs, Policies
  <2>8. BatchFacts'
    BY <2>1, <2>4, <2>5 DEF BatchFacts, cloudVars
  <2>9. QED
    BY <2>6, <2>7, <2>8 DEF IInv
<1>3. QED
  BY <1>1, <1>2

\* The batch added, nothing required is missing any more.
LEMMA AddIngressInv ==
    ASSUME IInv, AddIngress
    PROVE  IInv'
<1>1. CASE Fail
  BY <1>1, FailInv
<1>2. CASE ~Fail
  <2>1. /\ ingress' = [ingress EXCEPT ![sgID] = @ \cup perms]
        /\ npc' = "addEgress"
        /\ UNCHANGED <<vpcs, snVpc, snZone, sgs, egress, runs, zone, net, ui,
                       userNet, userSg, vpcID, subnetID, sgID, cidr, perms,
                       hasEgress, reconciled>>
    BY <1>2 DEF AddIngress
  <2>2. sgID \in SgIds /\ ingress[sgID] \subseteq Rule /\ perms \subseteq Rule
    BY DEF IInv, TypeOK, PcFacts, AddIngress
  <2>3. ingress'[sgID] = ingress[sgID] \cup perms
    BY <2>1, <2>2 DEF IInv, TypeOK
  <2>4. Missing(ingress'[sgID], net, ui, cidr) = {}
    BY <2>3, MissingFilled DEF IInv, BatchFacts, AddIngress
  <2>5. TypeOK'
    BY <2>1, <2>2 DEF IInv, TypeOK, Pcs
  <2>6. (OneVpc /\ SubnetsInVpcs /\ OneSubnetPerVpc /\ PcFacts)'
    BY <2>1 DEF IInv, OneVpc, SubnetsInVpcs, OneSubnetPerVpc, PcFacts,
                GroupPcs, AddIngress
  <2>7. BatchFacts'
    BY <2>1, <2>4 DEF IInv, BatchFacts, AddIngress
  <2>8. QED
    BY <2>5, <2>6, <2>7 DEF IInv
<1>3. QED
  BY <1>1, <1>2

\* With the egress rule in place the group is handed to RunInstances.
LEMMA AddEgressInv ==
    ASSUME IInv, AddEgress
    PROVE  IInv'
<1>1. CASE ~hasEgress /\ Fail
  BY <1>1, FailInv
<1>2. CASE /\ egress' = [egress EXCEPT ![sgID] = TRUE]
           /\ Configured
           /\ UNCHANGED <<vpcs, snVpc, snZone, sgs, ingress, runs, zone, net, ui,
                          userNet, userSg, vpcID, subnetID, sgID, cidr, perms,
                          hasEgress>>
  <2>1. sgID \in sgs /\ sgID \in SgIds /\ cidr \in Cidrs
    BY SubnetBlock DEF IInv, TypeOK, PcFacts, BatchFacts, AddEgress
  <2>2. egress'[sgID] /\ egress' \in [SgIds -> BOOLEAN]
    BY <1>2, <2>1 DEF IInv, TypeOK
  <2>3. reconciled' \subseteq Reconciliation
    BY <1>2, <2>1 DEF IInv, TypeOK, Configured, Reconciliation
  <2>4. TypeOK'
    BY <1>2, <2>2, <2>3 DEF IInv, TypeOK, Configured, Pcs
  <2>5. (OneVpc /\ SubnetsInVpcs /\ OneSubnetPerVpc /\ PcFacts)'
    BY <1>2 DEF IInv, OneVpc, SubnetsInVpcs, OneSubnetPerVpc, PcFacts,
                GroupPcs, Configured
  <2>6. BatchFacts'
    BY <1>2, <2>1, <2>2 DEF IInv, BatchFacts, AddEgress, Configured
  <2>7. QED
    BY <2>4, <2>5, <2>6 DEF IInv
<1>3. QED
  BY <1>1, <1>2 DEF AddEgress

LEMMA FinishedInv ==
    ASSUME IInv, Finished
    PROVE  IInv'
BY DEF IInv, Finished, vars, cloudVars, procVars, TypeOK, OneVpc, SubnetsInVpcs,
       OneSubnetPerVpc, PcFacts, BatchFacts

\* IInv holds in every reachable state.
LEMMA IInvInvariant == Spec => []IInv
<1>1. IInv /\ UNCHANGED vars => IInv'
  BY DEF IInv, vars, cloudVars, procVars, TypeOK, OneVpc, SubnetsInVpcs,
         OneSubnetPerVpc, PcFacts, BatchFacts
<1>2. IInv /\ [Next]_vars => IInv'
  BY <1>1, BeginInv, NetDescribeVpcsInv, NetDescribeSubnetsInv, CreateVpcInv,
     CreateSubnetInv, SgDescribeInv, CreateSgInv, PoliciesInv, AddIngressInv,
     AddEgressInv, FinishedInv DEF Next
<1>3. QED
  BY <1>2, InitIInv, PTL DEF Spec

-----------------------------------------------------------------------------
(***************************************************************************)
(* The refinement.  Each step of NetworkSetup is a step of the contract   *)
(* or leaves the mapped state unchanged.                                   *)
(***************************************************************************)
AVars == <<APhase, ANetVpc, ANetSubnet, AGroup>>

\* When the mapped variables and the provider are left alone, the step is a
\* stutter of the contract.
LEMMA Stutter ==
    ASSUME UNCHANGED <<cloudVars, runs, zone, net, ui, userNet, userSg>>,
           UNCHANGED AVars
    PROVE  UNCHANGED Contract!vars
BY DEF Contract!vars, cloudVars, AVars

\* The contract's rule operators are those of SecurityRules.
LEMMA SameRules ==
    ASSUME NEW R, NEW n, NEW u, NEW c
    PROVE  /\ Contract!Required(n, u, c) = Required(n, u, c)
           /\ Contract!Missing(R, n, u, c) = Missing(R, n, u, c)
BY DEF Contract!Required, Required, Contract!Missing, Missing, Contract!Covered,
       Covered, Contract!AnyRule, AnyRule, Contract!EtcdPorts, EtcdPorts,
       Contract!OverlayModes, OverlayModes

LEMMA InitRefines == Init => Contract!Init
BY DEF Init, Contract!Init, APhase, ANetVpc, ANetSubnet, AGroup, NetworkPcs, GroupPcs

LEMMA FailRefines ==
    ASSUME IInv, Fail, npc \in NetworkPcs \cup GroupPcs
    PROVE  Contract!Fail
BY DEF Fail, Contract!Fail, cloudVars, APhase, ANetVpc, ANetSubnet, AGroup,
       NetworkPcs, GroupPcs

\* A new invocation: the user's network is visible at once.
LEMMA BeginRefines ==
    ASSUME IInv, Begin
    PROVE  Contract!Begin
<1>1. PICK z \in Zones, n \in NetModes, u, un, us \in BOOLEAN :
        /\ zone' = z /\ net' = n /\ ui' = u /\ userNet' = un /\ userSg' = us
        /\ vpcID' = IF un THEN UserVpc ELSE NoId
        /\ subnetID' = IF un THEN UserSubnet ELSE NoId
        /\ npc' = IF ~un THEN "vpcs" ELSE IF ~us THEN "sgs" ELSE "launch"
  BY DEF Begin
<1>2. APhase \in Contract!Ends /\ runs < MaxRuns /\ runs' = runs + 1
  BY DEF Begin, Ends, Contract!Ends, APhase, NetworkPcs, GroupPcs
<1>3. /\ ANetVpc' = IF un THEN UserVpc ELSE NoId
      /\ ANetSubnet' = IF un THEN UserSubnet ELSE NoId
      /\ APhase' = IF ~un THEN "network" ELSE IF ~us THEN "group" ELSE "launch"
      /\ AGroup' = NoId
  BY <1>1 DEF ANetVpc, ANetSubnet, APhase, AGroup, NetworkPcs, GroupPcs
<1>4. QED
  BY <1>1, <1>2, <1>3 DEF Begin, Contract!Begin, cloudVars

\* The VPC lookup is hidden.
LEMMA NetDescribeVpcsRefines ==
    ASSUME IInv, NetDescribeVpcs
    PROVE  [Contract!Next]_Contract!vars
<1>1. CASE Fail
  BY <1>1, FailRefines DEF NetDescribeVpcs, NetworkPcs, Contract!Next
<1>2. CASE ~Fail
  <2>1. UNCHANGED <<cloudVars, runs, zone, net, ui, userNet, userSg>>
    BY <1>2 DEF NetDescribeVpcs
  <2>2. UNCHANGED AVars
    BY <1>2 DEF NetDescribeVpcs, AVars, APhase, ANetVpc, ANetSubnet, AGroup,
                NetworkPcs, GroupPcs
  <2>3. QED
    BY <2>1, <2>2, Stutter
<1>3. QED
  BY <1>1, <1>2

\* A subnet found is in the one default VPC: the contract's reuse.
LEMMA NetDescribeSubnetsRefines ==
    ASSUME IInv, NetDescribeSubnets
    PROVE  [Contract!Next]_Contract!vars
<1>1. CASE Fail
  BY <1>1, FailRefines DEF NetDescribeSubnets, NetworkPcs, Contract!Next
<1>2. CASE DefaultSubnets # {} /\ ~Fail
  <2>1. PICK s \in DefaultSubnets :
          /\ subnetID' = s /\ npc' = AfterNetwork
          /\ UNCHANGED <<cloudVars, runs, zone, net, ui, userNet, userSg,
                         vpcID, sgID, cidr, perms, hasEgress, reconciled>>
    BY <1>2 DEF NetDescribeSubnets
  <2>2. vpcID \in vpcs /\ snVpc[s] = vpcID /\ s \in SubnetIds
    BY DEF IInv, OneVpc, SubnetsInVpcs, PcFacts, DefaultSubnets, NetDescribeSubnets
  <2>3. /\ APhase = "network"
        /\ APhase' = IF userSg THEN "launch" ELSE "group"
        /\ ANetVpc' = vpcID /\ ANetSubnet' = s
        /\ AGroup = NoId /\ AGroup' = NoId
    BY <2>1 DEF NetDescribeSubnets, IInv, PcFacts, AfterNetwork, APhase, ANetVpc,
                ANetSubnet, AGroup, NetworkPcs, GroupPcs
  <2>4. Contract!UseNetwork
    BY <2>1, <2>2, <2>3 DEF Contract!UseNetwork, cloudVars
  <2>5. QED
    BY <2>4 DEF Contract!Next
<1>3. CASE DefaultSubnets = {} /\ ~Fail
  <2>1. UNCHANGED <<cloudVars, runs, zone, net, ui, userNet, userSg>>
        /\ npc' = "createSubnet" /\ UNCHANGED <<userSg, vpcID, subnetID, sgID>>
    BY <1>3 DEF NetDescribeSubnets
  <2>2. UNCHANGED AVars
    BY <2>1 DEF NetDescribeSubnets, AVars, APhase, ANetVpc, ANetSubnet, AGroup,
                NetworkPcs, GroupPcs
  <2>3. QED
    BY <2>1, <2>2, Stutter
<1>4. QED
  BY <1>1, <1>2, <1>3

\* generateDefaultVPC runs only when no default VPC exists.
LEMMA CreateVpcRefines ==
    ASSUME IInv, CreateVpc
    PROVE  [Contract!Next]_Contract!vars
<1>1. CASE Fail
  BY <1>1, FailRefines DEF CreateVpc, NetworkPcs, Contract!Next
<1>2. CASE ~Fail
  <2>1. PICK v \in VpcIds \ vpcs :
          /\ vpcs' = vpcs \cup {v} /\ vpcID' = v /\ npc' = "createSubnet"
          /\ UNCHANGED <<snVpc, snZone, sgs, ingress, egress, runs, zone, net,
                         ui, userNet, userSg, subnetID, sgID>>
    BY <1>2 DEF CreateVpc
  <2>2. vpcs = {}
    BY DEF IInv, PcFacts, CreateVpc
  <2>3. APhase = "network" /\ UNCHANGED AVars
    BY <2>1 DEF CreateVpc, AVars, APhase, ANetVpc, ANetSubnet, AGroup,
                NetworkPcs, GroupPcs
  <2>4. Contract!CreateVpc
    BY <2>1, <2>2, <2>3 DEF Contract!CreateVpc, AVars
  <2>5. QED
    BY <2>4 DEF Contract!Next
<1>3. QED
  BY <1>1, <1>2

\* generateDefaultSubnet runs only when the VPC has no default subnet.
LEMMA CreateSubnetRefines ==
    ASSUME IInv, CreateSubnet
    PROVE  [Contract!Next]_Contract!vars
<1>1. CASE Fail
  BY <1>1, FailRefines DEF CreateSubnet, NetworkPcs, Contract!Next
<1>2. CASE ~Fail
  <2>1. PICK s \in SubnetIds :
          /\ snVpc[s] = NoId
          /\ snVpc' = [snVpc EXCEPT ![s] = vpcID]
          /\ snZone' = [snZone EXCEPT ![s] = zone]
          /\ subnetID' = s /\ npc' = AfterNetwork
          /\ UNCHANGED <<vpcs, sgs, ingress, egress, runs, zone, net, ui,
                         userNet, userSg, vpcID, sgID>>
    BY <1>2 DEF CreateSubnet
  <2>2. vpcID \in vpcs /\ \A t \in SubnetIds : snVpc[t] # vpcID
    BY DEF IInv, TypeOK, PcFacts, CreateSubnet
  <2>3. /\ APhase = "network"
        /\ APhase' = IF userSg THEN "launch" ELSE "group"
        /\ ANetVpc' = vpcID /\ ANetSubnet' = s
        /\ AGroup = NoId /\ AGroup' = NoId
    BY <2>1 DEF CreateSubnet, AfterNetwork, APhase, ANetVpc, ANetSubnet, AGroup,
                NetworkPcs, GroupPcs
  <2>4. Contract!UseNetwork
    BY <2>1, <2>2, <2>3 DEF Contract!UseNetwork
  <2>5. QED
    BY <2>4 DEF Contract!Next
<1>3. QED
  BY <1>1, <1>2

\* The group lookup is hidden.
LEMMA SgDescribeRefines ==
    ASSUME IInv, SgDescribe
    PROVE  [Contract!Next]_Contract!vars
<1>1. CASE Fail
  BY <1>1, FailRefines DEF SgDescribe, GroupPcs, Contract!Next
<1>2. CASE ~Fail
  <2>1. UNCHANGED <<cloudVars, runs, zone, net, ui, userNet, userSg>>
    BY <1>2 DEF SgDescribe
  <2>2. UNCHANGED AVars
    BY <1>2 DEF SgDescribe, AVars, APhase, ANetVpc, ANetSubnet, AGroup,
                NetworkPcs, GroupPcs
  <2>3. QED
    BY <2>1, <2>2, Stutter
<1>3. QED
  BY <1>1, <1>2

\* generateDefaultSecurityGroup runs only when no tagged group exists.
LEMMA CreateSgRefines ==
    ASSUME IInv, CreateSg
    PROVE  [Contract!Next]_Contract!vars
<1>1. CASE Fail
  BY <1>1, FailRefines DEF CreateSg, GroupPcs, Contract!Next
<1>2. CASE ~Fail
  <2>1. PICK g \in SgIds \ sgs :
          /\ sgs' = sgs \cup {g} /\ sgID' = g /\ npc' = "policies"
          /\ UNCHANGED <<vpcs, snVpc, snZone, ingress, egress, runs, zone, net,
                         ui, userNet, userSg, vpcID, subnetID>>
    BY <1>2 DEF CreateSg
  <2>2. sgs = {}
    BY DEF IInv, PcFacts, CreateSg
  <2>3. APhase = "group" /\ UNCHANGED AVars
    BY <2>1 DEF CreateSg, AVars, APhase, ANetVpc, ANetSubnet, AGroup,
                NetworkPcs, GroupPcs
  <2>4. Contract!CreateGroup
    BY <2>1, <2>2, <2>3 DEF Contract!CreateGroup, AVars
  <2>5. QED
    BY <2>4 DEF Contract!Next
<1>3. QED
  BY <1>1, <1>2

\* Reading the policies changes only hidden locals.
LEMMA PoliciesRefines ==
    ASSUME IInv, Policies
    PROVE  [Contract!Next]_Contract!vars
<1>1. CASE Fail
  BY <1>1, FailRefines DEF Policies, GroupPcs, Contract!Next
<1>2. CASE ~Fail
  <2>1. UNCHANGED <<cloudVars, runs, zone, net, ui, userNet, userSg>>
        /\ npc' = "addIngress" /\ UNCHANGED <<vpcID, subnetID, sgID>>
    BY <1>2 DEF Policies
  <2>2. UNCHANGED AVars
    BY <2>1 DEF Policies, AVars, APhase, ANetVpc, ANetSubnet, AGroup,
                NetworkPcs, GroupPcs
  <2>3. QED
    BY <2>1, <2>2, Stutter
<1>3. QED
  BY <1>1, <1>2

\* CreateSecurityGroupPolicies adds the batch, a set of required rules for
\* the block of the network's subnet.
LEMMA AddIngressRefines ==
    ASSUME IInv, AddIngress
    PROVE  [Contract!Next]_Contract!vars
<1>1. CASE perms # {} /\ Fail
  BY <1>1, FailRefines DEF AddIngress, GroupPcs, Contract!Next
<1>2. CASE /\ ingress' = [ingress EXCEPT ![sgID] = @ \cup perms]
           /\ npc' = "addEgress"
           /\ UNCHANGED <<vpcs, snVpc, snZone, sgs, egress, runs, zone, net, ui,
                          userNet, userSg, vpcID, subnetID, sgID, cidr, perms,
                          hasEgress, reconciled>>
  <2>1. sgID \in sgs /\ cidr = SubnetCidr(subnetID)
        /\ perms \subseteq Required(net, ui, cidr)
    BY DEF IInv, PcFacts, BatchFacts, AddIngress
  <2>2. cidr = Contract!BlockOf(ANetSubnet)
    BY <2>1, SubnetBlock DEF AddIngress, ANetSubnet, GroupPcs
  <2>3. APhase = "group" /\ UNCHANGED AVars
    BY <1>2 DEF AddIngress, AVars, APhase, ANetVpc, ANetSubnet, AGroup,
                NetworkPcs, GroupPcs
  <2>4. perms \in SUBSET Required(net, ui, Contract!BlockOf(ANetSubnet))
    BY <2>1, <2>2
  <2>5. Contract!AddRules
    <3>1. \E g \in sgs, X \in SUBSET Required(net, ui, Contract!BlockOf(ANetSubnet)) :
            ingress' = [ingress EXCEPT ![g] = @ \cup X]
      BY <1>2, <2>1, <2>4
    <3>2. QED
      BY <1>2, <2>3, <3>1, SameRules DEF Contract!AddRules, AVars
  <2>6. QED
    BY <2>5 DEF Contract!Next
<1>3. QED
  BY <1>1, <1>2 DEF AddIngress

\* The group is launched with only once nothing required is missing.
LEMMA AddEgressRefines ==
    ASSUME IInv, AddEgress
    PROVE  [Contract!Next]_Contract!vars
<1>1. CASE ~hasEgress /\ Fail
  BY <1>1, FailRefines DEF AddEgress, GroupPcs, Contract!Next
<1>2. CASE /\ egress' = [egress EXCEPT ![sgID] = TRUE]
           /\ Configured
           /\ UNCHANGED <<vpcs, snVpc, snZone, sgs, ingress, runs, zone, net, ui,
                          userNet, userSg, vpcID, subnetID, sgID, cidr, perms,
                          hasEgress>>
  <2>1. sgID \in sgs /\ ~userSg /\ cidr = SubnetCidr(subnetID)
        /\ Missing(ingress[sgID], net, ui, cidr) = {}
    BY DEF IInv, PcFacts, BatchFacts, AddEgress, GroupPcs
  <2>2. cidr = Contract!BlockOf(ANetSubnet)
    BY <2>1, SubnetBlock DEF AddEgress, ANetSubnet, GroupPcs
  <2>3. /\ APhase = "group" /\ APhase' = "launch"
        /\ UNCHANGED <<ANetVpc, ANetSubnet>>
        /\ AGroup' = sgID
    BY <1>2, <2>1 DEF AddEgress, Configured, APhase, ANetVpc, ANetSubnet, AGroup,
                      NetworkPcs, GroupPcs
  <2>4. Missing(ingress[sgID], net, ui, Contract!BlockOf(ANetSubnet)) = {}
    BY <2>1, <2>2
  <2>5. Contract!Launch
    <3>1. \E g \in sgs :
            /\ Missing(ingress[g], net, ui, Contract!BlockOf(ANetSubnet)) = {}
            /\ egress' = [egress EXCEPT ![g] = TRUE]
            /\ AGroup' = g
      BY <1>2, <2>1, <2>3, <2>4
    <3>2. QED
      BY <1>2, <2>3, <3>1, SameRules DEF Contract!Launch
  <2>6. QED
    BY <2>5 DEF Contract!Next
<1>3. QED
  BY <1>1, <1>2 DEF AddEgress

LEMMA FinishedRefines ==
    ASSUME Finished
    PROVE  UNCHANGED Contract!vars
BY DEF Finished, vars, cloudVars, procVars, Contract!vars, APhase, ANetVpc,
       ANetSubnet, AGroup

-----------------------------------------------------------------------------
(* The theorems.                                                           *)

\* Sequential invocations of configNetwork never create a second default
\* VPC, nor a second default subnet in one VPC, whatever fails.
THEOREM NetworkUnique == Spec => []DefaultNetworkUnique
<1>1. IInv => DefaultNetworkUnique
  <2> SUFFICES ASSUME IInv PROVE Cardinality(vpcs) <= 1
    BY DEF IInv, OneSubnetPerVpc, DefaultNetworkUnique
  <2>1. CASE vpcs = {}
    BY <2>1, FS_EmptySet
  <2>2. CASE vpcs # {}
    <3>1. PICK v \in vpcs : TRUE
      BY <2>2
    <3>2. vpcs = {v}
      BY <3>1 DEF IInv, OneVpc
    <3>3. Cardinality({v}) = 1
      BY FS_Singleton
    <3>4. QED
      BY <3>2, <3>3
  <2>3. QED
    BY <2>1, <2>2
<1>2. QED
  BY <1>1, IInvInvariant, PTL

\* Whenever configSecurityGroup returns nil, the group handed to
\* RunInstances holds every required rule and an egress rule.
THEOREM RulesCovered == Spec => []RulesCoverRequired
<1>1. IInv => RulesCoverRequired
  BY DEF IInv, BatchFacts, RulesCoverRequired
<1>2. QED
  BY <1>1, IInvInvariant, PTL

\* configNetwork and configSecurityGroup implement NetworkContract.
THEOREM Refinement == Spec => ContractSpec
<1>1. Init => Contract!Init
  BY InitRefines
<1>2. IInv /\ [Next]_vars => [Contract!Next]_Contract!vars
  <2> SUFFICES ASSUME IInv, [Next]_vars PROVE [Contract!Next]_Contract!vars
    OBVIOUS
  <2>1. CASE Begin
    BY <2>1, BeginRefines DEF Contract!Next
  <2>2. CASE NetDescribeVpcs
    BY <2>2, NetDescribeVpcsRefines
  <2>3. CASE NetDescribeSubnets
    BY <2>3, NetDescribeSubnetsRefines
  <2>4. CASE CreateVpc
    BY <2>4, CreateVpcRefines
  <2>5. CASE CreateSubnet
    BY <2>5, CreateSubnetRefines
  <2>6. CASE SgDescribe
    BY <2>6, SgDescribeRefines
  <2>7. CASE CreateSg
    BY <2>7, CreateSgRefines
  <2>8. CASE Policies
    BY <2>8, PoliciesRefines
  <2>9. CASE AddIngress
    BY <2>9, AddIngressRefines
  <2>10. CASE AddEgress
    BY <2>10, AddEgressRefines
  <2>11. CASE Finished
    BY <2>11, FinishedRefines
  <2>12. CASE UNCHANGED vars
    BY <2>12 DEF vars, cloudVars, procVars, Contract!vars, APhase, ANetVpc,
                 ANetSubnet, AGroup
  <2>13. QED
    BY <2>1, <2>2, <2>3, <2>4, <2>5, <2>6, <2>7, <2>8, <2>9, <2>10, <2>11,
       <2>12 DEF Next
<1>3. QED
  BY <1>1, <1>2, IInvInvariant, PTL DEF Spec, ContractSpec, Contract!Spec

-----------------------------------------------------------------------------
(***************************************************************************)
(* Reconciling is idempotent.  A group reconciled for some options keeps   *)
(* every required rule for them and its egress rule, since rules are only *)
(* ever added; and the batch checked at addIngress is the one             *)
(* configDefaultSecurityPermission computed from the group's current      *)
(* rules, which nothing changes between the two calls.                     *)
(***************************************************************************)
ReconciledCovered ==
    \A x \in reconciled : Missing(ingress[x.g], x.net, x.ui, x.cidr) = {} /\ egress[x.g]

BatchCurrent ==
    npc = "addIngress" =>
        /\ perms = Perms(ingress[sgID], net, ui, cidr)
        /\ hasEgress = egress[sgID]

Stable == ReconciledCovered /\ BatchCurrent

\* Adding rules never makes a required rule missing.
LEMMA MissingMono ==
    ASSUME NEW R, NEW S, NEW n, NEW u, NEW c, R \subseteq S
    PROVE  Missing(S, n, u, c) \subseteq Missing(R, n, u, c)
BY DEF Missing, Covered

\* A group that lacks no required rule gets an empty batch.
LEMMA NoneMissingNoPerms ==
    ASSUME NEW R, NEW n, NEW u \in BOOLEAN, NEW c, Missing(R, n, u, c) = {}
    PROVE  Perms(R, n, u, c) = {}
<1> SUFFICES ASSUME NEW r \in Perms(R, n, u, c) PROVE FALSE
  OBVIOUS
<1>1. \A q \in Required(n, u, c) : Covered(R, q)
  BY DEF Missing
<1>2. \A p \in {22, 6443, 10250} : HasPort(R, p)
  <2> TAKE p \in {22, 6443, 10250}
  <2>1. AnyRule(p) \in Required(n, u, c)
    BY DEF Required
  <2>2. QED
    BY <2>1, <1>1 DEF Covered, HasPort, AnyRule, EtcdPorts
<1>3. n \in OverlayModes => HasPort(R, 8472)
  <2>1. n \in OverlayModes => AnyRule(8472) \in Required(n, u, c)
    BY DEF Required
  <2>2. QED
    BY <2>1, <1>1 DEF Covered, HasPort, AnyRule, EtcdPorts
<1>4. HasEtcd(R, 2379, c) /\ HasEtcd(R, 2380, c)
  <2>1. [port |-> 2379, cidr |-> c] \in Required(n, u, c)
        /\ [port |-> 2380, cidr |-> c] \in Required(n, u, c)
    BY DEF Required, EtcdPorts
  <2>2. QED
    BY <2>1, <1>1 DEF Covered, HasEtcd, EtcdPorts
<1>5. u => HasPort(R, 8999)
  <2>1. AnyRule(8999) \in Required(n, u, c) => Covered(R, AnyRule(8999))
    BY <1>1
  <2>2. u => AnyRule(8999) \in Required(n, u, c)
    BY DEF Required
  <2>3. QED
    BY <2>1, <2>2 DEF Covered, HasPort, AnyRule
<1>6. QED
  BY <1>2, <1>3, <1>4, <1>5 DEF Perms

\* A step that leaves the rules, the egress flags and the history alone, and
\* does not enter addIngress, keeps Stable.
LEMMA StableQuiet ==
    ASSUME Stable, UNCHANGED <<ingress, egress, reconciled>>, npc' # "addIngress"
    PROVE  Stable'
BY DEF Stable, ReconciledCovered, BatchCurrent

LEMMA StableStep ==
    ASSUME IInv, Stable, [Next]_vars
    PROVE  Stable'
<1>1. CASE Fail
  BY <1>1, StableQuiet DEF Fail, cloudVars
<1>2. CASE Begin
  BY <1>2, StableQuiet DEF Begin, cloudVars
<1>3. CASE NetDescribeVpcs \/ NetDescribeSubnets \/ CreateVpc \/ CreateSubnet
           \/ SgDescribe \/ CreateSg
  <2>1. UNCHANGED <<ingress, egress, reconciled>> /\ npc' # "addIngress"
    BY <1>3, <1>1 DEF NetDescribeVpcs, NetDescribeSubnets, CreateVpc, CreateSubnet,
                      SgDescribe, CreateSg, AfterNetwork, Fail, cloudVars
  <2>2. QED
    BY <2>1, StableQuiet
<1>4. CASE Policies /\ ~Fail
  <2>1. /\ cidr' = SubnetCidr(subnetID)
        /\ perms' = Perms(ingress[sgID], net, ui, SubnetCidr(subnetID))
        /\ hasEgress' = egress[sgID] /\ npc' = "addIngress"
        /\ UNCHANGED <<ingress, egress, reconciled, net, ui, sgID>>
    BY <1>4 DEF Policies, cloudVars
  <2>2. QED
    BY <2>1 DEF Stable, ReconciledCovered, BatchCurrent
<1>5. CASE Policies /\ Fail
  BY <1>5, <1>1
<1>6. CASE AddIngress /\ ~Fail
  <2>1. /\ ingress' = [ingress EXCEPT ![sgID] = @ \cup perms]
        /\ npc' = "addEgress"
        /\ UNCHANGED <<egress, reconciled>>
    BY <1>6 DEF AddIngress
  <2>2. ingress \in [SgIds -> SUBSET Rule] /\ reconciled \subseteq Reconciliation
    BY DEF IInv, TypeOK
  <2>3. \A x \in reconciled : ingress[x.g] \subseteq ingress'[x.g]
    BY <2>1, <2>2 DEF Reconciliation
  <2>4. ReconciledCovered'
    <3> SUFFICES ASSUME NEW x \in reconciled
                 PROVE  Missing(ingress'[x.g], x.net, x.ui, x.cidr) = {} /\ egress[x.g]
      BY <2>1 DEF ReconciledCovered
    <3>1. Missing(ingress[x.g], x.net, x.ui, x.cidr) = {} /\ egress[x.g]
      BY DEF Stable, ReconciledCovered
    <3>2. QED
      BY <3>1, <2>3, MissingMono
  <2>5. QED
    BY <2>1, <2>4 DEF Stable, BatchCurrent
<1>7. CASE AddIngress /\ Fail
  BY <1>7, <1>1
<1>8. CASE AddEgress /\ ~(~hasEgress /\ Fail)
  <2>1. /\ egress' = [egress EXCEPT ![sgID] = TRUE]
        /\ npc' = "launch"
        /\ reconciled' = reconciled \cup
                           {[g |-> sgID, net |-> net, ui |-> ui, cidr |-> cidr]}
        /\ UNCHANGED <<ingress, sgID, net, ui, cidr>>
    BY <1>8 DEF AddEgress, Configured
  <2>2. egress \in [SgIds -> BOOLEAN] /\ reconciled \subseteq Reconciliation
        /\ sgID \in SgIds
    BY <1>8 DEF IInv, TypeOK, PcFacts, AddEgress
  <2>3. Missing(ingress[sgID], net, ui, cidr) = {}
    BY <1>8 DEF IInv, BatchFacts, AddEgress
  <2>4. \A h \in SgIds : egress[h] => egress'[h]
    BY <2>1, <2>2
  <2>5. ReconciledCovered'
    <3> SUFFICES ASSUME NEW x \in reconciled'
                 PROVE  Missing(ingress[x.g], x.net, x.ui, x.cidr) = {} /\ egress'[x.g]
      BY <2>1 DEF ReconciledCovered
    <3>1. CASE x \in reconciled
      BY <3>1, <2>2, <2>4 DEF Stable, ReconciledCovered, Reconciliation
    <3>2. CASE x = [g |-> sgID, net |-> net, ui |-> ui, cidr |-> cidr]
      BY <3>2, <2>1, <2>2, <2>3
    <3>3. QED
      BY <3>1, <3>2, <2>1
  <2>6. QED
    BY <2>1, <2>5 DEF Stable, BatchCurrent
<1>9. CASE AddEgress /\ ~hasEgress /\ Fail
  BY <1>9, <1>1
<1>10. CASE Finished \/ UNCHANGED vars
  BY <1>10 DEF Finished, vars, cloudVars, procVars, Stable, ReconciledCovered,
                BatchCurrent
<1>11. QED
  BY <1>2, <1>3, <1>4, <1>5, <1>6, <1>7, <1>8, <1>9, <1>10 DEF Next, AddEgress

LEMMA StableInvariant == Spec => []Stable
<1>1. Init => Stable
  BY DEF Init, Stable, ReconciledCovered, BatchCurrent
<1>2. IInv /\ Stable /\ [Next]_vars => Stable'
  BY StableStep
<1>3. QED
  BY <1>1, <1>2, IInvInvariant, PTL DEF Spec

\* Every state of sequential invocations of configNetwork and
\* configSecurityGroup is well typed, whatever call fails.
THEOREM NetworkTypeCorrect == Spec => []TypeOK
BY IInvInvariant, PTL DEF IInv

\* A later invocation with the options a group was reconciled for computes
\* an empty batch in configDefaultSecurityPermission and finds an egress
\* rule: it calls neither CreateSecurityGroupPolicies nor the egress create.
THEOREM ReconcileIdempotent == Spec => []RulesStable
<1>1. IInv /\ Stable => RulesStable
  <2> SUFFICES ASSUME IInv, Stable, npc = "addIngress",
                      [g |-> sgID, net |-> net, ui |-> ui, cidr |-> cidr] \in reconciled
               PROVE  perms = {} /\ hasEgress
    BY DEF RulesStable
  <2>1. Missing(ingress[sgID], net, ui, cidr) = {} /\ egress[sgID]
    BY DEF Stable, ReconciledCovered
  <2>2. perms = Perms(ingress[sgID], net, ui, cidr) /\ hasEgress = egress[sgID]
    BY DEF Stable, BatchCurrent
  <2>3. ui \in BOOLEAN
    BY DEF IInv, TypeOK
  <2>4. QED
    BY <2>1, <2>2, <2>3, NoneMissingNoPerms
<1>2. QED
  BY <1>1, IInvInvariant, StableInvariant, PTL
=============================================================================
