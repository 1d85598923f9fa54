----------------------------- MODULE MCNSMClient -----------------------------
(***************************************************************************)
(* Two clients with an interface each; the configuration of the first      *)
(* changes its address and its type, the second can have an unknown type  *)
(* or lack the name of its interface.                                      *)
(***************************************************************************)
EXTENDS NSMClient

TwoNames == {"web", "db"}

TwoClientValues ==
  {[name |-> "web", service |-> "fw", type |-> "KERNEL", iface |-> "nsm0", addr |-> "10.0.0.1"],
   [name |-> "web", service |-> "fw", type |-> "KERNEL", iface |-> "nsm0", addr |-> "10.0.0.2"],
   [name |-> "web", service |-> "fw", type |-> "MEM", iface |-> "nsm0", addr |-> "10.0.0.1"],
   [name |-> "db", service |-> "nat", type |-> "DEFAULT", iface |-> "nsm1", addr |-> "10.0.1.1"],
   [name |-> "db", service |-> "nat", type |-> "OTHER", iface |-> "nsm1", addr |-> "10.0.1.1"],
   [name |-> "db", service |-> "nat", type |-> "KERNEL", iface |-> "", addr |-> "10.0.1.1"]}

\* What MirrorUnlessDisturbed rests on: clients have interfaces of their own.
ASSUME InstanceAssumption ==
  \A v, w \in TwoClientValues : v.iface = w.iface => v.name = w.name
=============================================================================
