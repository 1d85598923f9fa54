------------------------------ MODULE MCCnfCrd ------------------------------
(***************************************************************************)
(* A resource of the same name in each of two namespaces.  The first goes  *)
(* through two valid specs and an invalid one, the second has one spec.    *)
(***************************************************************************)
EXTENDS CnfCrd, TLC

TwoNamespaces == {"blue", "green"}
OneName == {"cnf"}

item(name, microservice, value) == [name |-> name, microservice |-> microservice, value |-> value]

Route == [microservice |-> "ms1", items |-> {item("route", "", "r1"), item("acl", "ms2", "a1")}]
RouteMoved == [microservice |-> "ms3", items |-> {item("route", "", "r2")}]
RouteGarbled == [microservice |-> "ms1", items |-> {item("route", "", "garbled")}]
Bridge == [microservice |-> "ms4", items |-> {item("bridge", "", "b1")}]

Specs == (<<"blue", "cnf">> :> {Route, RouteMoved, RouteGarbled})
           @@ (<<"green", "cnf">> :> {Bridge})

\* What ConfigDelivered rests on.
ASSUME InstanceAssumption == ItemsApart
=============================================================================
