---------------------------- MODULE SecurityRules ----------------------------
(***************************************************************************)
(* The ingress rules of a security group, as configDefaultSecurityPermission *)
(* reads them, and the rule set the spec requires of the default group    *)
(* (spec section 4.5).                                                    *)
(*                                                                         *)
(* A rule is one port token with one source block.  The code splits a     *)
(* rule's port list at commas and tests each token with the rule's block, *)
(* so a rule "22,2379" is the pair of rules 22 and 2379 with that block.  *)
(* Port 0 stands for every token that matches none of the cases of its    *)
(* switch ("ALL", "1-65535", 80, ...).  A block is "any" (ipRange,         *)
(* 0.0.0.0/0), "subnet" (subnetCidrBlock, the block of every default      *)
(* subnet) or "user" (the block of a user's own subnet, or any other).    *)
(* The protocol of a rule is never read by the code and is left out.      *)
(***************************************************************************)

Cidrs == {"any", "subnet", "user"}
PortTokens == {22, 6443, 10250, 8472, 8999, 2379, 2380, 0}
Rule == [port : PortTokens, cidr : Cidrs]
EtcdPorts == {2379, 2380}

\* The values of p.Network for which the flannel vxlan port is opened: the
\* default (unset) and "vxlan".
OverlayModes == {"", "vxlan"}

\* The rules of perms opened to every source (ipRange).
AnyRule(port) == [port |-> port, cidr |-> "any"]

\* The required rules for network mode n, UI flag u and subnet block c:
\* SSH, API server and kubelet from any source, the overlay port in the
\* default overlay mode, the etcd pair scoped to the subnet's block, and the
\* dashboard port with the UI.
Required(n, u, c) ==
       {AnyRule(p) : p \in {22, 6443, 10250}}
    \cup (IF n \in OverlayModes THEN {AnyRule(8472)} ELSE {})
    \cup {[port |-> p, cidr |-> c] : p \in EtcdPorts}
    \cup (IF u THEN {AnyRule(8999)} ELSE {})

\* A required rule is present when some rule has its port; an etcd port
\* also needs a matching or universal block.
Covered(R, r) ==
    \E x \in R : x.port = r.port /\ (r.port \in EtcdPorts => x.cidr \in {r.cidr, "any"})

\* The required rules R lacks.
Missing(R, n, u, c) == {r \in Required(n, u, c) : ~Covered(R, r)}
=============================================================================
