----------------------- MODULE MCEndpointNotifications -----------------------
(***************************************************************************)
(* Three agents: "a" and "b" in one cluster with services of their own,    *)
(* "c" in another cluster with a service that "a" has too.                 *)
(***************************************************************************)
EXTENDS EndpointNotifications, TLC

endpoint(service, labels) == [service |-> service, labels |-> labels]

ThreeAgents == {"a", "b", "c"}
TwoClusters == ("a" :> "red") @@ ("b" :> "red") @@ ("c" :> "blue")
OwnServices ==
  ("a" :> {endpoint("fw", <<"app", "zone">>), endpoint("nat", <<"app">>)})
  @@ ("b" :> {endpoint("gw", <<"app">>)})
  @@ ("c" :> {endpoint("fw", <<"app">>), endpoint("fw", <<"zone">>)})

\* What CreatedIsAnnounced rests on.
ASSUME InstanceAssumption == KeysApart
=============================================================================
