------------------------- MODULE CNFConfigurations -------------------------
(***************************************************************************)
(* CNFConfiguration resources in the Kubernetes API server, as the         *)
(* generated client writes and watches them                                *)
(* (plugins/crdplugin/pkg/client/clientset/versioned).                     *)
(*                                                                         *)
(* The server (external) gives a new resource version to every change of   *)
(* an object, refuses a PUT whose version is not the latest, and reports   *)
(* changes to an open watch in order.  A resource has no status            *)
(* subresource (types.go: "+genclient:noStatus"), so a PUT writes spec and *)
(* status together.                                                        *)
(***************************************************************************)
EXTENDS Integers, Sequences, FiniteSets, GoMaps

CONSTANTS
  Namespaces,   \* namespaces of Kubernetes
  Names,        \* names of resources
  SpecsOf,      \* [namespace, name] -> the specs users give to that resource
  MaxWrites     \* bound on the number of changes users make

\* The key of a resource: CNFConfigurations(namespace) with a name.
Keys == Namespaces \X Names

ASSUME SpecsAssumption == DOMAIN SpecsOf = Keys
ASSUME WritesAssumption == MaxWrites \in Nat

VARIABLES
  server,     \* the resources: key -> object
  version,    \* the latest resource version
  watching,   \* is a watch open?
  stream,     \* changes the open watch has still to deliver
  intent,     \* what the users last asked for: key -> spec
  writes      \* changes made by users so far

resources == <<server, version, watching, stream>>
users == <<intent, writes>>

StatusSuccess == "Success"
StatusFailure == "Failure"

\* A CNFConfiguration without its name; rv is ObjectMeta.ResourceVersion.
object(rv, spec) == [rv |-> rv, spec |-> spec, status |-> "", message |-> ""]

\* A deleted resource in a notification.
Gone == [rv |-> 0]

InitServer ==
  /\ server = Empty
  /\ version = 0
  /\ watching = FALSE
  /\ stream = << >>
  /\ intent = Empty
  /\ writes = 0

-----------------------------------------------------------------------------
(* What a request does to the server. *)

Notify(changes) ==
  /\ stream' = IF watching THEN stream \o changes ELSE stream
  /\ UNCHANGED watching

Store(k, obj) ==
  LET stored == [obj EXCEPT !.rv = version + 1]
  IN  /\ version' = version + 1
      /\ server' = Put(server, k, stored)
      /\ Notify(<<[key |-> k, obj |-> stored]>>)

\* "order" lists the keys in S: a collection is deleted one by one.
Remove(S, order) ==
  /\ version' = version + Cardinality(S)
  /\ server' = RemoveKeys(server, S)
  /\ Notify([i \in DOMAIN order |-> [key |-> order[i], obj |-> Gone]])

\* PUT of "obj": refused unless its version is the latest, and no change at
\* all if it is equal to what is stored.
accepted(k, obj) == k \in DOMAIN server /\ obj.rv = server[k].rv

PutObject(k, obj) ==
  IF accepted(k, obj) /\ obj # server[k] THEN Store(k, obj) ELSE UNCHANGED resources

-----------------------------------------------------------------------------
(* The methods of cNFConfigurations that users call (kubectl sends the     *)
(* same requests).                                                         *)

UserWrites(i) ==
  /\ writes < MaxWrites
  /\ writes' = writes + 1
  /\ intent' = i

Get(k) == server[k]

Create(k, spec) ==
  /\ k \notin DOMAIN server
  /\ UserWrites(Put(intent, k, spec))
  /\ Store(k, object(0, spec))

\* The user sends the version just read and no status.
Update(k, spec) ==
  /\ k \in DOMAIN server
  /\ UserWrites(Put(intent, k, spec))
  /\ PutObject(k, object(Get(k).rv, spec))

\* A patch has no version to check and keeps what it does not name.
Patch(k, spec) ==
  /\ k \in DOMAIN server
  /\ UserWrites(Put(intent, k, spec))
  /\ IF spec = server[k].spec THEN UNCHANGED resources
                              ELSE Store(k, [server[k] EXCEPT !.spec = spec])

Delete(k) ==
  /\ k \in DOMAIN server
  /\ UserWrites(RemoveKeys(intent, {k}))
  /\ Remove({k}, <<k>>)

\* All resources of a namespace, in some order.
DeleteCollection(ns) ==
  LET S == {k \in DOMAIN server : k[1] = ns}
  IN  /\ S # {}
      /\ UserWrites(RemoveKeys(intent, S))
      /\ \E order \in {o \in [1..Cardinality(S) -> S] : \A k \in S : \E i \in DOMAIN o : o[i] = k} :
           Remove(S, order)

UserNext ==
  \/ \E k \in Keys :
       \/ \E spec \in SpecsOf[k] : Create(k, spec) \/ Update(k, spec) \/ Patch(k, spec)
       \/ Delete(k)
  \/ \E ns \in Namespaces : DeleteCollection(ns)

-----------------------------------------------------------------------------
(* List and Watch of cNFConfigurations, as the informer calls them.        *)

\* NamespaceAll, unless the factory was limited to a namespace.
List(watched) == [k \in {x \in DOMAIN server : x[1] \in watched} |-> server[k]]

\* A watch that follows a List reports the changes made since.
Watch == watching' = TRUE /\ stream' = << >>

WatchEnds == watching' = FALSE /\ stream' = << >>
=============================================================================
