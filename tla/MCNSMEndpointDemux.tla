------------------------- MODULE MCNSMEndpointDemux -------------------------
(***************************************************************************)
(* Small instances of NSMEndpointDemux: two services, two clients of the   *)
(* first and one of the second, two configurations of the first service.   *)
(***************************************************************************)
EXTENDS NSMEndpointDemux, Sequences, TLC

CONSTANTS c1, c2, c3, la, lb, lc, l1

Clients == {c1, c2, c3}
ClientLabels == {la, lb, lc}
ClientLinks == {l1}
SomePrefixes == {"nsm", ""}
TwoServices == {"fw", "nat"}
ServiceOf == (c1 :> "fw") @@ (c2 :> "fw") @@ (c3 :> "nat")

LabelledRequests ==
  {[id |-> c1, label |-> la, link |-> l1], [id |-> c2, label |-> lb, link |-> l1],
   [id |-> c3, label |-> lc, link |-> l1]}

\* The strings, one after the other.
Names == [p \in Prefixes |-> [s \in Indexes \cup Labels \cup {NoLabel} |-> p \o ToString(s)]]

\* A firewall for many clients over memif, then for a single client with names
\* from a label; a NAT over kernel interfaces, also without a prefix, which
\* Validate refuses.
TwoServiceValues ==
  {[service |-> "fw", labels |-> {"app"},
    cfg |-> [prefix |-> "nsm", suffixFromLabel |-> FALSE, singleClient |-> FALSE,
             interfaceType |-> "MEM"]],
   [service |-> "fw", labels |-> {"app", "zone"},
    cfg |-> [prefix |-> "nsm", suffixFromLabel |-> TRUE, singleClient |-> TRUE,
             interfaceType |-> "KERNEL"]],
   [service |-> "nat", labels |-> {},
    cfg |-> [prefix |-> "nsm", suffixFromLabel |-> FALSE, singleClient |-> FALSE,
             interfaceType |-> "KERNEL"]],
   [service |-> "nat", labels |-> {},
    cfg |-> [prefix |-> "", suffixFromLabel |-> FALSE, singleClient |-> FALSE,
             interfaceType |-> "KERNEL"]]}

\* What InterfacesMatch rests on.  The prefixes of the two services are equal,
\* their interfaces differ in kind or in what follows the prefix.
ASSUME InstanceAssumption == NamesApart /\ KeysApart
=============================================================================
