----------------------------- MODULE MCProvision -----------------------------
(* Small instances of Provision for TLC: instance and address ids are      *)
(* model values.                                                           *)
EXTENDS Provision, TLC

CONSTANTS i1, i2, i3, i4, a1, a2, a3

MCInstanceIds == {i1, i2, i3, i4}
MCAddressIds == {a1, a2, a3}

\* Join: i1 is the cluster's master, i2 a worker of the .state file whose
\* instance has been deleted at the provider.
MCPreMastersJoin == {i1}
MCStaleWorkersJoin == {i2}
=============================================================================
