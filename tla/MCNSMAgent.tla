----------------------------- MODULE MCNSMAgent -----------------------------
(***************************************************************************)
(* Two agents.  The VPP agent serves "fw" to two clients on the Linux      *)
(* agent over memif, the Linux agent serves "gw" to one client on the VPP  *)
(* agent.                                                                  *)
(***************************************************************************)
EXTENDS NSMAgent, TLC

CONSTANTS A, B, c1, c2, c3, l1

TwoAgents == {A, B}
Programs == (A :> "vpp") @@ (B :> "linux")
SomeServices == {"fw", "gw"}
ThreeClients == {c1, c2, c3}
OneLink == {l1}
SomePrefixes == {"fw", "gw"}
NoLabels == {}

\* The strings, one after the other.
Names == [p \in Prefixes |-> [s \in Indexes \cup Labels \cup {NoLabel} |-> p \o ToString(s)]]

Home == ("fw" :> A) @@ ("gw" :> B) @@ (c1 :> B) @@ (c2 :> B) @@ (c3 :> A)
UsedService == (c1 :> "fw") @@ (c2 :> "fw") @@ (c3 :> "gw")

\* The name of c3's interface is one that "fw" gives to interfaces in VPP.
ClientInterfaces == (c1 :> <<"linux", "nsm0">>) @@ (c2 :> <<"linux", "nsm1">>) @@ (c3 :> <<"linux", "fw0">>)

FirstConfiguration == {"fw", "gw"}

config(prefix, single, type) ==
  [prefix |-> prefix, suffixFromLabel |-> FALSE, singleClient |-> single, interfaceType |-> type]

Configs == ("fw" :> config("fw", TRUE, "MEM")) @@ ("gw" :> config("gw", FALSE, "KERNEL"))

connection(c) == [id |-> c, label |-> NoLabel, link |-> l1]
AllRequests == {connection(c) : c \in {c1, c2, c3}}
Connections == [c \in {c1, c2, c3} |-> connection(c)]

\* What the refinement rests on.
ASSUME InstanceAssumption == NamesOfAgentApart /\ PluginsPresent
=============================================================================
