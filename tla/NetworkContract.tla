--------------------------- MODULE NetworkContract ---------------------------
(***************************************************************************)
(* What the default network and security group promise (spec sections   *)
(* 4.4 and 4.5), for invocations run one after the other.  Each phase of  *)
(* an invocation is a few atomic steps:                                   *)
(*  - network: a default VPC is created only when there is none, and the  *)
(*    invocation ends the phase with a VPC and a default subnet of it,    *)
(*    created (in the invocation's zone) only when that VPC has none;     *)
(*  - group: a group is created only when there is none; rules are only   *)
(*    ever added, and only required ones; the phase ends, and the         *)
(*    instances are launched, only with a group that covers every        *)
(*    required rule and has an egress rule.                               *)
(* Either phase may fail at any point, keeping what it created.  This is  *)
(* the abstract specification NetworkSetup is shown to implement.         *)
(***************************************************************************)
EXTENDS Naturals, FiniteSets, SecurityRules

CONSTANTS Zones, NetModes, VpcIds, SubnetIds, SgIds, UserVpc, UserSubnet,
          InitRules, MaxRuns, NoId

VARIABLES
    vpcs, snVpc, snZone, sgs, ingress, egress,   \* the provider, as in NetworkSetup
    phase, runs, zone, net, ui, userNet, userSg,
    netVpc, netSubnet,   \* the network the invocation launches into
    group                \* the group it launches with

vars == <<vpcs, snVpc, snZone, sgs, ingress, egress, phase, runs, zone, net,
          ui, userNet, userSg, netVpc, netSubnet, group>>

\* The address block of a subnet: every default subnet has subnetCidrBlock.
BlockOf(s) == IF s = UserSubnet THEN "user" ELSE "subnet"

Ends == {"idle", "launch", "failed"}

Init ==
    /\ vpcs = {}
    /\ snVpc = [s \in SubnetIds |-> NoId]
    /\ snZone = [s \in SubnetIds |-> NoId]
    /\ sgs \in {{}} \cup {{g} : g \in SgIds}
    /\ ingress \in [SgIds -> SUBSET InitRules]
    /\ egress \in [SgIds -> BOOLEAN]
    /\ \A g \in SgIds \ sgs : ingress[g] = {} /\ ~egress[g]
    /\ phase = "idle" /\ runs = 0
    /\ zone \in Zones /\ net \in NetModes /\ ui = FALSE
    /\ userNet = FALSE /\ userSg = FALSE
    /\ netVpc = NoId /\ netSubnet = NoId /\ group = NoId

Begin ==
    /\ phase \in Ends /\ runs < MaxRuns
    /\ runs' = runs + 1
    /\ \E z \in Zones, n \in NetModes, u, un, us \in BOOLEAN :
        /\ zone' = z /\ net' = n /\ ui' = u /\ userNet' = un /\ userSg' = us
        /\ netVpc' = IF un THEN UserVpc ELSE NoId
        /\ netSubnet' = IF un THEN UserSubnet ELSE NoId
        /\ phase' = IF ~un THEN "network" ELSE IF ~us THEN "group" ELSE "launch"
    /\ group' = NoId
    /\ UNCHANGED <<vpcs, snVpc, snZone, sgs, ingress, egress>>

Fail ==
    /\ phase \in {"network", "group"}
    /\ phase' = "failed" /\ netVpc' = NoId /\ netSubnet' = NoId
    /\ UNCHANGED <<vpcs, snVpc, snZone, sgs, ingress, egress, runs, zone, net,
                   ui, userNet, userSg, group>>

CreateVpc ==
    /\ phase = "network" /\ vpcs = {}
    /\ \E v \in VpcIds : vpcs' = {v}
    /\ UNCHANGED <<snVpc, snZone, sgs, ingress, egress, phase, runs, zone, net,
                   ui, userNet, userSg, netVpc, netSubnet, group>>

UseNetwork ==
    /\ phase = "network"
    /\ \E v \in vpcs, s \in SubnetIds :
        /\ \/ snVpc[s] = v /\ UNCHANGED <<snVpc, snZone>>
           \/ /\ \A t \in SubnetIds : snVpc[t] # v
              /\ snVpc[s] = NoId
              /\ snVpc' = [snVpc EXCEPT ![s] = v]
              /\ snZone' = [snZone EXCEPT ![s] = zone]
        /\ netVpc' = v /\ netSubnet' = s
    /\ phase' = IF userSg THEN "launch" ELSE "group"
    /\ UNCHANGED <<vpcs, sgs, ingress, egress, runs, zone, net, ui, userNet,
                   userSg, group>>

CreateGroup ==
    /\ phase = "group" /\ sgs = {}
    /\ \E g \in SgIds : sgs' = {g}
    /\ UNCHANGED <<vpcs, snVpc, snZone, ingress, egress, phase, runs, zone, net,
                   ui, userNet, userSg, netVpc, netSubnet, group>>

AddRules ==
    /\ phase = "group"
    /\ \E g \in sgs, X \in SUBSET Required(net, ui, BlockOf(netSubnet)) :
         ingress' = [ingress EXCEPT ![g] = @ \cup X]
    /\ UNCHANGED <<vpcs, snVpc, snZone, sgs, egress, phase, runs, zone, net, ui,
                   userNet, userSg, netVpc, netSubnet, group>>

Launch ==
    /\ phase = "group"
    /\ \E g \in sgs :
        /\ Missing(ingress[g], net, ui, BlockOf(netSubnet)) = {}
        /\ egress' = [egress EXCEPT ![g] = TRUE]
        /\ group' = g
    /\ phase' = "launch"
    /\ UNCHANGED <<vpcs, snVpc, snZone, sgs, ingress, runs, zone, net, ui,
                   userNet, userSg, netVpc, netSubnet>>

Next ==
    \/ Begin \/ Fail \/ CreateVpc \/ UseNetwork \/ CreateGroup \/ AddRules
    \/ Launch

Spec == Init /\ [][Next]_vars
=============================================================================
