--------------------------- MODULE MCNSMEndpoint ---------------------------
(***************************************************************************)
(* Small instances of NSMEndpoint: three clients, two links, one prefix.   *)
(***************************************************************************)
EXTENDS NSMEndpoint, Sequences, TLC

CONSTANTS c1, c2, c3, la, lb, lc, l1, l2

Clients == {c1, c2, c3}
ClientLabels == {la, lb, lc}
ClientLinks == {l1, l2}
OnePrefix == {"nsm"}

\* The strings, one after the other.
Names == [p \in Prefixes |-> [s \in Indexes \cup Labels \cup {NoLabel} |-> p \o ToString(s)]]

\* Every configuration that Validate lets through.
AllConfigs == Config

\* Anything may be requested: a client may change its label between requests,
\* share it with another client, or not have it.
AnyRequests == [id : {c1, c2, c3}, label : {la, lb, NoLabel}, link : {l1}]

\* Every client has a label of its own.
ApartRequests ==
  {[id |-> i, label |-> CASE i = c1 -> la [] i = c2 -> lb [] i = c3 -> lc, link |-> l] :
     i \in {c1, c2, c3}, l \in {l1, l2}}
=============================================================================
