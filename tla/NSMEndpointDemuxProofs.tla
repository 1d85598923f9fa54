----------------------- MODULE NSMEndpointDemuxProofs -----------------------
(***************************************************************************)
(* Proofs about NSMEndpointDemux for any services, values, clients and     *)
(* bounds; what each theorem demands of the faults is in its assumptions.  *)
(***************************************************************************)
EXTENDS NSMEndpointDemux, NSMConnectionsProofs, TLAPS

-----------------------------------------------------------------------------
(* Types. *)

\* An endpoint of the map: its table is well formed and holds connections to
\* its own network service only.
IsEndpoint(ns, ep) ==
  /\ ep = [name |-> ep.name, cfg |-> ep.cfg, conns |-> ep.conns]
  /\ ep.name \in Nat /\ ep.cfg \in Config
  /\ TableInv(ep.cfg, ep.conns)
  /\ \A id \in DOMAIN ep.conns : NetworkService[id] = ns

EndpointTypes(eps) ==
  /\ DOMAIN eps \subseteq Services /\ IsFiniteSet(DOMAIN eps)
  /\ \A ns \in DOMAIN eps : IsEndpoint(ns, eps[ns])

ServerTypes(co, so, n) ==
  co \in BOOLEAN /\ so \in {"none", "stale", "listening"} /\ n \in Nat

RegistryTypes(reg) == reg \subseteq [name : Nat, service : Services] /\ IsFiniteSet(reg)

\* A value is configured and created under its own service.
DesiredTypes(d) ==
  /\ d \in [Services -> Values \cup {None}]
  /\ \A ns \in Services : d[ns] # None => d[ns].service = ns

AppliedTypes(ap) ==
  /\ DOMAIN ap \subseteq Services
  /\ \A ns \in DOMAIN ap : ap[ns] \in Values /\ ap[ns].service = ns

TaskTypes(t) == t = Idle \/ t \in [op : {"publish", "unpublish"}, value : Values]

NotifTypes(ntf) == \A k \in DOMAIN ntf : ntf[k] \in BOOLEAN

\* The type invariant with what freshName and the tables need.
DemuxTypes ==
  /\ ServerTypes(connected, socket, nsmConns)
  /\ EndpointTypes(endpoints)
  /\ IsIfaces(ifaces)
  /\ RegistryTypes(registry)
  /\ DesiredTypes(desired)
  /\ AppliedTypes(applied)
  /\ TaskTypes(task)
  /\ NotifTypes(notifs)
  /\ faults \in 0..MaxFaults
  /\ changes \in 0..MaxChanges

\* It contains the type invariant.
LEMMA TypesImply == DemuxTypes => TypeOK
<1> SUFFICES ASSUME DemuxTypes
             PROVE  TypeOK
  OBVIOUS
<1>1. \A ns \in DOMAIN endpoints :
        /\ endpoints[ns].name \in Nat
        /\ endpoints[ns].cfg \in Config
        /\ \A id \in DOMAIN endpoints[ns].conns :
             NetworkService[id] = ns /\ endpoints[ns].conns[id] \in Entry
  BY DEF DemuxTypes, EndpointTypes, IsEndpoint, TableInv, IsTable
<1>2. \A k \in DOMAIN ifaces : ifaces[k] \in [link : Links, addressed : BOOLEAN]
  BY DEF DemuxTypes, IsIfaces
<1> QED
  BY <1>1, <1>2
     DEF DemuxTypes, TypeOK, ServerTypes, EndpointTypes, RegistryTypes, DesiredTypes,
         AppliedTypes, TaskTypes, NotifTypes

\* The image of a finite set is finite.
LEMMA FiniteImage ==
  ASSUME NEW S, IsFiniteSet(S), NEW f, DOMAIN f = S
  PROVE  IsFiniteSet({f[x] : x \in S})
<1> DEFINE T == {f[x] : x \in S}
           g == [x \in S |-> f[x]]
<1>1. g \in Surjection(S, T)
  BY DEF Surjection
<1> HIDE DEF T, g
<1>2. IsFiniteSet(T)
  BY <1>1, FS_Surjection
<1> QED
  BY <1>2 DEF T

\* The registry can always give a name that no endpoint has.
LEMMA FreshName ==
  ASSUME DemuxTypes
  PROVE  freshName \in Nat /\ freshName \notin usedNames
<1> DEFINE ofRegistry == {r.name : r \in registry}
           ofEndpoints == {endpoints[ns].name : ns \in DOMAIN endpoints}
           n == Cardinality(usedNames)
<1>1. IsFiniteSet(usedNames)
  <2>1. IsFiniteSet(ofRegistry)
    <3> DEFINE f == [r \in registry |-> r.name]
    <3>1. IsFiniteSet({f[r] : r \in registry})
      BY FiniteImage DEF DemuxTypes, RegistryTypes
    <3> QED
      BY <3>1
  <2>2. IsFiniteSet(ofEndpoints)
    <3> DEFINE f == [ns \in DOMAIN endpoints |-> endpoints[ns].name]
    <3>1. IsFiniteSet({f[ns] : ns \in DOMAIN endpoints})
      BY FiniteImage DEF DemuxTypes, EndpointTypes
    <3> QED
      BY <3>1
  <2> QED
    BY <2>1, <2>2, FS_Union DEF usedNames
<1>2. n \in Nat
  BY <1>1, FS_CardinalityType
<1>3. IsFiniteSet(0..n) /\ Cardinality(0..n) = n + 1
  BY <1>2, FS_Interval
<1>4. (0..n) \ usedNames # {}
  <2>1. 0..n \subseteq usedNames => Cardinality(0..n) <= n
    BY <1>1, FS_Subset
  <2>2. ~(0..n \subseteq usedNames)
    BY <1>2, <1>3, <2>1
  <2> QED
    BY <2>2
<1>5. (0..n) \ usedNames \in SUBSET Nat
  BY <1>2
<1>6. freshName \in (0..n) \ usedNames
  <2>1. \E x \in (0..n) \ usedNames : \A y \in (0..n) \ usedNames : x <= y
    <3> HIDE DEF n
    <3> QED
      BY <1>4, <1>5, LeastNatural
  <2> QED
    BY <2>1 DEF freshName, Min
<1> QED
  BY <1>2, <1>6

-----------------------------------------------------------------------------
(* The methods of the endpoints. *)

\* A state of the table of ns, with the interfaces of the agent.
TableOf(ns, c, t) ==
  /\ StateInv(c, t)
  /\ \A id \in DOMAIN t.conns : NetworkService[id] = ns

\* The present state is one.
LEMMA TableNow ==
  ASSUME DemuxTypes, NEW ns \in DOMAIN endpoints
  PROVE  /\ ns \in Services /\ endpoints[ns].cfg \in Config
         /\ TableOf(ns, endpoints[ns].cfg, tableOf(ns))
  BY DEF DemuxTypes, EndpointTypes, IsEndpoint, TableOf, StateInv, tableOf

\* closeConnection only takes away.
LEMMA CloseTable ==
  ASSUME NEW ns, NEW c, NEW t, TableOf(ns, c, t), NEW conn, NEW d \in closeConnection(c, t, conn)
  PROVE  TableOf(ns, c, d)
<1>1. DOMAIN d.conns \subseteq DOMAIN t.conns
  BY DEF closeConnection, connectionsAfterClose, RemoveKeys
<1>2. StateInv(c, d)
  BY CloseOutcome DEF TableOf
<1> QED
  BY <1>1, <1>2 DEF TableOf

\* Request of the service of the connection.
LEMMA RequestTable ==
  ASSUME NEW c \in Config, NEW conn \in Requests, NEW t, TableOf(nseName(conn), c, t),
         NEW d \in requestAccepted(c, t, conn) \cup requestDeclined(c, t, conn)
  PROVE  TableOf(nseName(conn), c, d)
<1>1. conn \in Conn
  BY RequestsAssumption
<1>2. \A e \in withoutDuplicate(c, t, conn) : TableOf(nseName(conn), c, e)
  BY CloseTable DEF withoutDuplicate
<1>3. CASE d \in requestDeclined(c, t, conn)
  BY <1>2, <1>3 DEF requestDeclined
<1>4. CASE d \in requestAccepted(c, t, conn)
  <2>1. PICK e \in withoutDuplicate(c, t, conn) : d.conns = connectionsAfterOpen(c, e.conns, conn)
    BY <1>4 DEF requestAccepted
  <2>2. DOMAIN d.conns = DOMAIN e.conns \cup {conn.id}
    BY <2>1 DEF connectionsAfterOpen, Put
  <2>3. StateInv(c, d)
    BY <1>1, <1>4, AcceptOutcome DEF TableOf
  <2> QED
    BY <1>2, <2>2, <2>3 DEF TableOf, nseName
<1> QED
  BY <1>3, <1>4

\* CloseConnections, wherever it stops.
LEMMA ClosingTable ==
  ASSUME NEW ns, NEW c, NEW t, TableOf(ns, c, t),
         NEW d \in allClosed(c, t) \cup someClosed(c, t)
  PROVE  TableOf(ns, c, d)
<1>1. PICK closed : d \in afterClosing(c, t, closed)
  BY DEF allClosed, someClosed
<1>2. DOMAIN d.conns \subseteq DOMAIN t.conns
  <2>1. PICK keys : d = [conns  |-> RemoveKeys(t.conns, closed),
                         ifaces |-> RemoveKeys(t.ifaces, keys)]
    BY <1>1 DEF afterClosing
  <2>2. d.conns = RemoveKeys(t.conns, closed)
    BY <2>1
  <2> QED
    BY <2>2 DEF RemoveKeys
<1>3. StateInv(c, d)
  BY <1>1, ClosingOutcome DEF TableOf
<1> QED
  BY <1>2, <1>3 DEF TableOf

\* A method of an endpoint touches its own table only.
LEMMA BecomeOne ==
  ASSUME DemuxTypes, NEW ns \in DOMAIN endpoints, NEW t, BecomeTable(ns, t)
  PROVE  /\ DOMAIN endpoints' = DOMAIN endpoints
         /\ endpoints'[ns] = [name |-> endpoints[ns].name, cfg |-> endpoints[ns].cfg,
                              conns |-> t.conns]
         /\ \A o \in DOMAIN endpoints : o # ns => endpoints'[o] = endpoints[o]
         /\ \A o \in DOMAIN endpoints : /\ endpoints'[o].name = endpoints[o].name
                                        /\ endpoints'[o].cfg = endpoints[o].cfg
         /\ ifaces' = t.ifaces
<1> DEFINE ep == endpoints[ns]
<1>1. ep = [name |-> ep.name, cfg |-> ep.cfg, conns |-> ep.conns]
  BY DEF DemuxTypes, EndpointTypes, IsEndpoint
<1>2. /\ DOMAIN endpoints' = DOMAIN endpoints
      /\ endpoints'[ns] = [ep EXCEPT !.conns = t.conns]
      /\ \A o \in DOMAIN endpoints : o # ns => endpoints'[o] = endpoints[o]
      /\ ifaces' = t.ifaces
  BY DEF BecomeTable
<1>3. [ep EXCEPT !.conns = t.conns] = [name |-> ep.name, cfg |-> ep.cfg, conns |-> t.conns]
  <2> HIDE DEF ep
  <2> QED
    BY <1>1
<1>4. endpoints'[ns].name = ep.name /\ endpoints'[ns].cfg = ep.cfg
  BY <1>2, <1>3
<1> QED
  BY <1>2, <1>3, <1>4

\* It keeps the types.
LEMMA BecomeTypes ==
  ASSUME DemuxTypes, NEW ns \in DOMAIN endpoints, NEW t,
         TableOf(ns, endpoints[ns].cfg, t), BecomeTable(ns, t)
  PROVE  EndpointTypes(endpoints') /\ IsIfaces(ifaces')
<1>1. IsEndpoint(ns, endpoints'[ns])
  <2> DEFINE ep == [name |-> endpoints[ns].name, cfg |-> endpoints[ns].cfg, conns |-> t.conns]
  <2>1. endpoints[ns].name \in Nat /\ endpoints[ns].cfg \in Config
    BY DEF DemuxTypes, EndpointTypes, IsEndpoint
  <2>2. endpoints'[ns] = ep
    BY BecomeOne
  <2> QED
    BY <2>1, <2>2 DEF IsEndpoint, TableOf, StateInv
<1>2. \A o \in DOMAIN endpoints : o # ns => IsEndpoint(o, endpoints'[o])
  BY BecomeOne DEF DemuxTypes, EndpointTypes
<1>3. EndpointTypes(endpoints')
  BY <1>1, <1>2, BecomeOne DEF DemuxTypes, EndpointTypes
<1>4. IsIfaces(ifaces')
  BY BecomeOne DEF TableOf, StateInv
<1> QED
  BY <1>3, <1>4

-----------------------------------------------------------------------------
(* The types are kept, provided Delete finds the endpoint in the map.      *)

Deletable == \A ns \in Services : toDelete(ns) => ns \in DOMAIN endpoints

\* AddEndpoint starts with an empty table under a fresh name.
LEMMA AddedEndpoint ==
  ASSUME DemuxTypes, NEW ns \in Services, toCreate(ns)
  PROVE  /\ desired[ns] \in Values /\ desired[ns].service = ns
         /\ ns \notin DOMAIN applied
         /\ IsEndpoint(ns, [name |-> freshName, cfg |-> desired[ns].cfg, conns |-> Empty])
         /\ registration(ns) \in [name : Nat, service : Services]
<1>1. desired[ns] \in Values /\ desired[ns].service = ns /\ ns \notin DOMAIN applied
  BY DEF toCreate, DemuxTypes, DesiredTypes
<1>2. desired[ns].cfg \in Config
  BY <1>1, ValuesAssumption
<1>3. TableInv(desired[ns].cfg, Empty)
  BY DEF Empty, TableInv, IsTable, IndexesDistinct, IndexesBounded, AtMostOneIfSingle
<1>4. DOMAIN Empty = {}
  BY DEF Empty
<1>5. freshName \in Nat
  BY FreshName
<1> QED
  BY <1>1, <1>2, <1>3, <1>4, <1>5 DEF IsEndpoint, registration

\* What happens to the map and the interfaces.
LEMMA TablesStep ==
  ASSUME DemuxTypes, Deletable, [Next]_vars
  PROVE  EndpointTypes(endpoints') /\ IsIfaces(ifaces')
<1>1. ASSUME NEW ns \in Services, AddEndpoint(ns)
      PROVE  EndpointTypes(endpoints') /\ IsIfaces(ifaces')
  <2> DEFINE ep == [name |-> freshName, cfg |-> desired[ns].cfg, conns |-> Empty]
  <2>1. IsEndpoint(ns, ep)
    BY <1>1, AddedEndpoint DEF AddEndpoint
  <2>2. endpoints' = Put(endpoints, ns, ep) /\ ifaces' = ifaces
    BY <1>1 DEF AddEndpoint, endpointsAfterAdd
  <2>3. IsFiniteSet(DOMAIN endpoints \cup {ns})
    BY FS_AddElement DEF DemuxTypes, EndpointTypes
  <2> HIDE DEF ep
  <2> QED
    BY <2>1, <2>2, <2>3 DEF DemuxTypes, EndpointTypes, Put
<1>2. ASSUME NEW ns \in Services, DeleteEndpoint(ns)
      PROVE  EndpointTypes(endpoints') /\ IsIfaces(ifaces')
  <2>1. ns \in DOMAIN endpoints
    BY <1>2 DEF Deletable, DeleteEndpoint
  <2>2. PICK t \in allClosed(endpoints[ns].cfg, tableOf(ns)) : ifaces' = t.ifaces
    BY <1>2 DEF DeleteEndpoint, closedForDelete
  <2>3. IsIfaces(ifaces')
    BY <2>1, <2>2, TableNow, ClosingTable DEF TableOf, StateInv
  <2>4. endpoints' = RemoveKeys(endpoints, {ns})
    BY <1>2 DEF DeleteEndpoint
  <2>5. IsFiniteSet(DOMAIN endpoints \ {ns})
    BY FS_RemoveElement DEF DemuxTypes, EndpointTypes
  <2>6. EndpointTypes(endpoints')
    BY <2>4, <2>5 DEF DemuxTypes, EndpointTypes, RemoveKeys
  <2> QED
    BY <2>3, <2>6
<1>3. ASSUME NEW ns \in Services, DeleteEndpointNotClosed(ns) \/ DeleteEndpointNotRemoved(ns)
      PROVE  EndpointTypes(endpoints') /\ IsIfaces(ifaces')
  <2>1. ns \in DOMAIN endpoints
    BY <1>3 DEF Deletable, DeleteEndpointNotClosed, DeleteEndpointNotRemoved
  <2>2. PICK t \in allClosed(endpoints[ns].cfg, tableOf(ns))
                     \cup someClosed(endpoints[ns].cfg, tableOf(ns)) : BecomeTable(ns, t)
    BY <1>3 DEF DeleteEndpointNotClosed, DeleteEndpointNotRemoved
  <2> QED
    BY <2>1, <2>2, TableNow, ClosingTable, BecomeTypes
<1>4. ASSUME NEW conn \in Requests, Request(conn) \/ Close(conn)
      PROVE  EndpointTypes(endpoints') /\ IsIfaces(ifaces')
  <2> DEFINE ns == nseName(conn)
             c == endpoints[ns].cfg
  <2>1. ns \in DOMAIN endpoints
    BY <1>4 DEF Request, Close
  <2>2. PICK t \in requestAccepted(c, tableOf(ns), conn) \cup requestDeclined(c, tableOf(ns), conn)
                     \cup closeConnection(c, tableOf(ns), conn) : BecomeTable(ns, t)
    BY <1>4 DEF Request, Close
  <2>3. TableOf(ns, c, tableOf(ns)) /\ c \in Config
    BY <2>1, TableNow
  <2>4. TableOf(ns, c, t)
    BY <2>2, <2>3, RequestTable, CloseTable
  <2> QED
    BY <2>1, <2>2, <2>4, BecomeTypes
<1>5. CASE Restart
  <2>1. endpoints' = Empty /\ ifaces' = Empty
    BY <1>5 DEF Restart
  <2> QED
    BY <2>1, FS_EmptySet DEF Empty, EndpointTypes, IsIfaces
<1>6. CASE UNCHANGED tables
  BY <1>6 DEF tables, DemuxTypes
<1>7. ASSUME NEW ns \in Services,
             AddEndpointNotStarted(ns) \/ AddEndpointNotRegistered(ns) \/ Configure(ns)
      PROVE  UNCHANGED tables
  BY <1>7 DEF AddEndpointNotStarted, AddEndpointNotRegistered, Configure
<1>8. CASE Publish \/ Unpublish \/ LeaseExpires
  BY <1>6, <1>8 DEF Publish, Unpublish, LeaseExpires
<1>9. CASE UNCHANGED vars
  BY <1>6, <1>9 DEF vars
<1>10. ASSUME NEW conn \in Requests, NotRouted(conn)
       PROVE  UNCHANGED tables
  BY <1>10 DEF NotRouted, vars
<1> QED
  BY <1>1, <1>2, <1>3, <1>4, <1>5, <1>6, <1>7, <1>8, <1>9, <1>10 DEF Next, Scheduler

\* What happens to the server and the registry.
LEMMA ServerStep ==
  ASSUME DemuxTypes, [Next]_vars
  PROVE  ServerTypes(connected', socket', nsmConns') /\ RegistryTypes(registry')
<1>1. ServerTypes(connected', socket', nsmConns')
  <2>1. CASE UNCHANGED server
    BY <2>1 DEF server, DemuxTypes
  <2>2. ASSUME NEW ns \in Services, AddEndpointNotStarted(ns)
        PROVE  ServerTypes(connected', socket', nsmConns')
    BY <2>2 DEF AddEndpointNotStarted, DemuxTypes, ServerTypes, SocketCleanup
  <2>3. CASE StartServer
    BY <2>3 DEF StartServer, DemuxTypes, ServerTypes
  <2>4. CASE Restart
    BY <2>4 DEF Restart, DemuxTypes, ServerTypes
  <2> QED
    BY <2>1, <2>2, <2>3, <2>4
       DEF Next, Scheduler, AddEndpointNotRegistered, AddEndpoint, DeleteEndpointNotClosed,
           DeleteEndpointNotRemoved, DeleteEndpoint, Publish, Unpublish, Configure, Request,
           Close, NotRouted, Unchanged, LeaseExpires, vars
<1>2. RegistryTypes(registry')
  <2>1. CASE registry' \subseteq registry
    BY <2>1, FS_Subset DEF DemuxTypes, RegistryTypes
  <2>2. ASSUME NEW ns \in Services, toCreate(ns), registry' = registry \cup {registration(ns)}
        PROVE  RegistryTypes(registry')
    <3>1. registration(ns) \in [name : Nat, service : Services]
      BY <2>2, AddedEndpoint
    <3> QED
      BY <2>2, <3>1, FS_AddElement DEF DemuxTypes, RegistryTypes
  <2>3. ASSUME NEW ns \in Services, AddEndpointNotRegistered(ns) \/ AddEndpoint(ns)
        PROVE  RegistryTypes(registry')
    BY <2>1, <2>2, <2>3 DEF AddEndpointNotRegistered, AddEndpoint
  <2>4. ASSUME NEW ns \in Services, DeleteEndpointNotRemoved(ns) \/ DeleteEndpoint(ns)
        PROVE  registry' \subseteq registry
    BY <2>4 DEF DeleteEndpointNotRemoved, DeleteEndpoint, unregistered
  <2> QED
    BY <2>1, <2>3, <2>4
       DEF Next, Scheduler, AddEndpointNotStarted, DeleteEndpointNotClosed, Publish, Unpublish,
           Configure, Request, Close, NotRouted, Unchanged, Restart, LeaseExpires, vars
<1> QED
  BY <1>1, <1>2

\* What happens to the scheduler's view and to the notifications.
LEMMA ScheduleStep ==
  ASSUME DemuxTypes, [Next]_vars
  PROVE  /\ DesiredTypes(desired') /\ AppliedTypes(applied')
         /\ TaskTypes(task') /\ NotifTypes(notifs')
         /\ faults' \in 0..MaxFaults /\ changes' \in 0..MaxChanges
<1>1. DesiredTypes(desired') /\ changes' \in 0..MaxChanges
  <2>1. ASSUME NEW ns \in Services, Configure(ns)
        PROVE  DesiredTypes(desired') /\ changes' \in 0..MaxChanges
    <3>1. PICK v \in {w \in Values : w.service = ns} \cup {None} :
            desired' = [desired EXCEPT ![ns] = v]
      BY <2>1 DEF Configure
    <3>2. DesiredTypes(desired')
      BY <3>1 DEF DemuxTypes, DesiredTypes
    <3>3. changes < MaxChanges /\ changes' = changes + 1
      BY <2>1 DEF Configure
    <3>4. changes \in 0..MaxChanges /\ MaxChanges \in Nat
      BY FaultsAssumption DEF DemuxTypes
    <3>5. changes' \in 0..MaxChanges
      BY <3>3, <3>4
    <3> QED
      BY <3>2, <3>5
  <2>2. CASE UNCHANGED <<desired, changes>>
    BY <2>2 DEF DemuxTypes
  <2> QED
    BY <2>1, <2>2
       DEF Next, Scheduler, scheduled, AddEndpointNotStarted, AddEndpointNotRegistered,
           AddEndpoint, DeleteEndpointNotClosed, DeleteEndpointNotRemoved, DeleteEndpoint,
           Publish, Unpublish, Request, Close, NotRouted, Unchanged, Restart, LeaseExpires, vars
<1>2. faults' \in 0..MaxFaults
  <2>1. ASSUME faults < MaxFaults, faults' = faults + 1
        PROVE  faults' \in 0..MaxFaults
    <3>1. faults \in 0..MaxFaults /\ MaxFaults \in Nat
      BY FaultsAssumption DEF DemuxTypes
    <3> QED
      BY <2>1, <3>1
  <2>2. CASE faults' = faults
    BY <2>2 DEF DemuxTypes
  <2> QED
    BY <2>1, <2>2
       DEF Fail, Next, Scheduler, AddEndpointNotStarted, AddEndpointNotRegistered,
           AddEndpoint, DeleteEndpointNotClosed, DeleteEndpointNotRemoved, DeleteEndpoint,
           Publish, Unpublish, Configure, Request, Close, NotRouted, Unchanged, Restart,
           LeaseExpires, vars
<1>3. AppliedTypes(applied') /\ NotifTypes(notifs')
  <2>1. CASE Publish
    <3>1. task.value \in Values /\ task.value.service \in Services
      BY <2>1, ValuesAssumption DEF Publish, DemuxTypes, TaskTypes, Idle
    <3>2. applied' = Put(applied, task.value.service, task.value)
      BY <2>1 DEF Publish
    <3>3. PICK keys : notifs' = [k \in DOMAIN notifs \cup keys |-> k \in keys \/ notifs[k]]
      BY <2>1 DEF Publish
    <3>4. AppliedTypes(applied')
      BY <3>1, <3>2 DEF DemuxTypes, AppliedTypes, Put
    <3>5. NotifTypes(notifs')
      BY <3>3 DEF NotifTypes
    <3> QED
      BY <3>4, <3>5
  <2>2. CASE Unpublish
    BY <2>2 DEF Unpublish, notifsAfterDelete, DemuxTypes, AppliedTypes, NotifTypes, RemoveKeys
  <2>3. CASE Restart
    <3>1. applied' = Empty
      BY <2>3 DEF Restart, knownAtStart, endpointDescr, NewNSMEndpointDescriptor,
                  typedEndpointDescr
    <3> QED
      BY <2>3, <3>1 DEF Restart, Empty, AppliedTypes, NotifTypes
  <2>4. CASE LeaseExpires
    BY <2>4 DEF LeaseExpires, scheduled, DemuxTypes, NotifTypes, RemoveKeys
  <2>5. CASE UNCHANGED <<applied, notifs>>
    BY <2>5 DEF DemuxTypes
  <2> QED
    BY <2>1, <2>2, <2>3, <2>4, <2>5
       DEF Next, Scheduler, scheduled, AddEndpointNotStarted, AddEndpointNotRegistered,
           AddEndpoint, DeleteEndpointNotClosed, DeleteEndpointNotRemoved, DeleteEndpoint,
           Configure, Request, Close, NotRouted, Unchanged, vars
<1>4. TaskTypes(task')
  <2>1. ASSUME NEW ns \in Services, AddEndpoint(ns)
        PROVE  TaskTypes(task')
    <3>1. desired[ns] \in Values
      BY <2>1, AddedEndpoint DEF AddEndpoint
    <3> QED
      BY <2>1, <3>1 DEF AddEndpoint, TaskTypes
  <2>2. ASSUME NEW ns \in Services, toDelete(ns), task' = [op |-> "unpublish", value |-> applied[ns]]
        PROVE  TaskTypes(task')
    <3>1. applied[ns] \in Values
      BY <2>2 DEF toDelete, DemuxTypes, AppliedTypes
    <3> QED
      BY <2>2, <3>1 DEF TaskTypes
  <2>3. CASE task' = Idle
    BY <2>3 DEF TaskTypes
  <2>4. CASE task' = task
    BY <2>4 DEF DemuxTypes
  <2> QED
    BY <2>1, <2>2, <2>3, <2>4
       DEF Next, Scheduler, AddEndpointNotStarted, AddEndpointNotRegistered,
           DeleteEndpointNotClosed, DeleteEndpointNotRemoved, DeleteEndpoint,
           Publish, Unpublish, Configure, Request, Close, NotRouted, Unchanged, Restart,
           LeaseExpires, vars
<1> QED
  BY <1>1, <1>2, <1>3, <1>4

\* Together.
LEMMA TypesStep ==
  ASSUME DemuxTypes, Deletable, [Next]_vars
  PROVE  DemuxTypes'
<1>1. EndpointTypes(endpoints') /\ IsIfaces(ifaces')
  BY TablesStep
<1>2. ServerTypes(connected', socket', nsmConns') /\ RegistryTypes(registry')
  BY ServerStep
<1>3. /\ DesiredTypes(desired') /\ AppliedTypes(applied')
      /\ TaskTypes(task') /\ NotifTypes(notifs')
      /\ faults' \in 0..MaxFaults /\ changes' \in 0..MaxChanges
  BY ScheduleStep
<1> QED
  BY <1>1, <1>2, <1>3 DEF DemuxTypes

\* Nothing exists at first.
LEMMA TypesInit == Init => DemuxTypes
<1> SUFFICES ASSUME Init
             PROVE  DemuxTypes
  OBVIOUS
<1>1. EndpointTypes(endpoints) /\ IsIfaces(ifaces)
  BY FS_EmptySet DEF Init, Empty, EndpointTypes, IsIfaces
<1>2. RegistryTypes(registry)
  BY FS_EmptySet DEF Init, RegistryTypes
<1>3. ServerTypes(connected, socket, nsmConns) /\ TaskTypes(task)
  BY DEF Init, ServerTypes, TaskTypes
<1>4. DesiredTypes(desired)
  BY DEF Init, DesiredTypes
<1>5. AppliedTypes(applied) /\ NotifTypes(notifs)
  BY DEF Init, Empty, AppliedTypes, NotifTypes
<1>6. faults \in 0..MaxFaults /\ changes \in 0..MaxChanges
  BY FaultsAssumption DEF Init
<1> QED
  BY <1>1, <1>2, <1>3, <1>4, <1>5, <1>6 DEF DemuxTypes

-----------------------------------------------------------------------------
(* What was created is served. *)

isServed(ns, v) ==
  /\ connected /\ socket = "listening"
  /\ ns \in DOMAIN endpoints /\ endpoints[ns].cfg = v.cfg
  /\ isRegistered(ns)

NamesDistinct ==
  \A a, b \in DOMAIN endpoints : endpoints[a].name = endpoints[b].name => a = b

\* Between AddEndpoint and the end of Create the endpoint is served already,
\* and between DeleteEndpoint and the end of Delete it still counts as created.
\* Names must differ, or unregistering one endpoint would unregister another.
Served ==
  /\ AppliedIsServed
  /\ task.op = "publish" =>
       /\ task.value.service \notin DOMAIN applied
       /\ isServed(task.value.service, task.value)
  /\ task.op = "unpublish" =>
       /\ task.value.service \in DOMAIN applied
       /\ applied[task.value.service] = task.value
  /\ connected => socket = "listening"
  /\ NamesDistinct

\* Delete finds the endpoint in the map.
LEMMA ServedDeletable == Served => Deletable
  BY DEF Served, AppliedIsServed, Deletable, toDelete, Idle

\* A served endpoint stays so when neither the server nor its entry nor its
\* registration goes away.
LEMMA ServedStays ==
  ASSUME NEW ns, NEW v, isServed(ns, v), connected', socket' = "listening",
         ns \in DOMAIN endpoints',
         endpoints'[ns].name = endpoints[ns].name, endpoints'[ns].cfg = endpoints[ns].cfg,
         isRegistered(ns) => [name |-> endpoints[ns].name, service |-> ns] \in registry'
  PROVE  isServed(ns, v)'
  BY DEF isServed, isRegistered

\* Steps that leave the task alone and take nothing away from anybody.
LEMMA ServedQuiet ==
  ASSUME Served, UNCHANGED <<task, applied>>,
         connected => connected', connected' => socket' = "listening",
         DOMAIN endpoints' = DOMAIN endpoints,
         \A ns \in DOMAIN endpoints : /\ endpoints'[ns].name = endpoints[ns].name
                                      /\ endpoints'[ns].cfg = endpoints[ns].cfg,
         registry \subseteq registry'
  PROVE  Served'
<1>1. ASSUME NEW ns, NEW v, isServed(ns, v)
      PROVE  isServed(ns, v)'
  BY <1>1, ServedStays DEF isServed, isRegistered
<1>2. AppliedIsServed'
  BY <1>1 DEF Served, AppliedIsServed, isServed
<1>3. (connected => socket = "listening")'
  OBVIOUS
<1>4. NamesDistinct'
  BY DEF Served, NamesDistinct
<1>5. (task.op = "publish" =>
         /\ task.value.service \notin DOMAIN applied
         /\ isServed(task.value.service, task.value))'
  BY <1>1 DEF Served
<1> QED
  BY <1>2, <1>3, <1>4, <1>5 DEF Served

\* AddEndpoint registers under a fresh name and serves at once.
LEMMA AddServed ==
  ASSUME DemuxTypes, Served, NEW ns \in Services, AddEndpoint(ns)
  PROVE  Served'
<1> PICK v : v = desired[ns]
  OBVIOUS
<1> DEFINE ep == [name |-> freshName, cfg |-> v.cfg, conns |-> Empty]
<1>1. /\ task = Idle /\ task' = [op |-> "publish", value |-> v]
      /\ connected' /\ socket' = "listening" /\ applied' = applied
      /\ endpoints' = Put(endpoints, ns, ep)
      /\ registry' = registry \cup {[name |-> freshName, service |-> ns]}
  BY DEF AddEndpoint, toCreate, StartServer, endpointsAfterAdd, registration, scheduled
<1>2. v.service = ns /\ ns \notin DOMAIN applied
  BY AddedEndpoint DEF AddEndpoint
<1>3. ep.name = freshName /\ ep.cfg = v.cfg
  OBVIOUS
<1> HIDE DEF ep
<1>4. /\ DOMAIN endpoints' = DOMAIN endpoints \cup {ns} /\ endpoints'[ns] = ep
      /\ \A o \in DOMAIN endpoints : o # ns => endpoints'[o] = endpoints[o]
  BY <1>1 DEF Put
<1>5. isServed(ns, v)'
  <2>1. /\ connected' /\ socket' = "listening" /\ ns \in DOMAIN endpoints'
        /\ endpoints'[ns].cfg = v.cfg
        /\ [name |-> endpoints'[ns].name, service |-> ns] \in registry'
    BY <1>1, <1>3, <1>4
  <2> QED
    BY <2>1 DEF isServed, isRegistered
<1>6. AppliedIsServed'
  <2> SUFFICES ASSUME NEW o \in DOMAIN applied
               PROVE  isServed(o, applied[o])'
    BY <1>1 DEF AppliedIsServed, isServed
  <2>1. isServed(o, applied[o]) /\ o # ns
    BY <1>1, <1>2 DEF Served, AppliedIsServed, isServed, Idle
  <2>2. isServed(o, applied[o])'
    <3>1. o \in DOMAIN endpoints /\ endpoints[o].cfg = applied[o].cfg /\ isRegistered(o)
      BY <2>1 DEF isServed
    <3>2. o \in DOMAIN endpoints' /\ endpoints'[o] = endpoints[o]
      BY <1>4, <2>1, <3>1
    <3>3. [name |-> endpoints'[o].name, service |-> o] \in registry'
      BY <1>1, <3>1, <3>2 DEF isRegistered
    <3> QED
      BY <1>1, <3>1, <3>2, <3>3 DEF isServed, isRegistered
  <2> QED
    BY <2>2
<1>7. NamesDistinct'
  <2>1. \A o \in DOMAIN endpoints : endpoints[o].name # freshName
    BY FreshName DEF usedNames
  <2> QED
    BY <1>3, <1>4, <2>1 DEF Served, NamesDistinct
<1>8. task'.op = "publish" /\ task'.value = v
  BY <1>1
<1> QED
  BY <1>1, <1>2, <1>5, <1>6, <1>7, <1>8 DEF Served

\* The end of Create: the endpoint counts as created.
LEMMA PublishServed ==
  ASSUME Served, Publish
  PROVE  Served'
<1>1. /\ task.op = "publish" /\ task' = Idle
      /\ applied' = Put(applied, task.value.service, task.value)
      /\ UNCHANGED <<server, tables, registry>>
  BY DEF Publish
<1>2. \A ns \in DOMAIN applied' : isServed(ns, applied'[ns])
  BY <1>1 DEF Served, AppliedIsServed, isServed, Put
<1>3. \A ns, v : isServed(ns, v) => isServed(ns, v)'
  BY <1>1 DEF isServed, isRegistered, server, tables
<1>4. AppliedIsServed'
  BY <1>2, <1>3 DEF AppliedIsServed, isServed
<1>5. NamesDistinct'
  BY <1>1 DEF Served, NamesDistinct, tables
<1>6. task'.op = "idle" /\ (connected => socket = "listening")'
  BY <1>1 DEF Idle, server, Served
<1> QED
  BY <1>4, <1>5, <1>6 DEF Served

\* The end of Delete: the endpoint does not count any more.
LEMMA UnpublishServed ==
  ASSUME Served, Unpublish
  PROVE  Served'
<1>1. /\ task.op = "unpublish" /\ task' = Idle
      /\ applied' = RemoveKeys(applied, {task.value.service})
      /\ UNCHANGED <<server, tables, registry>>
  BY DEF Unpublish
<1>2. \A ns \in DOMAIN applied' : isServed(ns, applied'[ns])
  BY <1>1 DEF Served, AppliedIsServed, isServed, RemoveKeys
<1>3. \A ns, v : isServed(ns, v) => isServed(ns, v)'
  BY <1>1 DEF isServed, isRegistered, server, tables
<1>4. AppliedIsServed'
  BY <1>2, <1>3 DEF AppliedIsServed, isServed
<1>5. NamesDistinct'
  BY <1>1 DEF Served, NamesDistinct, tables
<1>6. task'.op = "idle" /\ (connected => socket = "listening")'
  BY <1>1 DEF Idle, server, Served
<1> QED
  BY <1>4, <1>5, <1>6 DEF Served

\* DeleteEndpoint, however it ends, takes the endpoint and the registration
\* of one service at most; the service still counts as created.
LEMMA DeleteServed ==
  ASSUME DemuxTypes, Served, NEW ns \in Services,
         DeleteEndpoint(ns) \/ DeleteEndpointNotClosed(ns) \/ DeleteEndpointNotRemoved(ns)
  PROVE  Served'
<1>1. /\ ns \in DOMAIN applied /\ task = Idle
      /\ task' = [op |-> "unpublish", value |-> applied[ns]]
      /\ applied' = applied /\ UNCHANGED server
      /\ registry' = registry \/ registry' = unregistered(ns)
  BY DEF DeleteEndpoint, DeleteEndpointNotClosed, DeleteEndpointNotRemoved, toDelete, scheduled
<1>2. ns \in DOMAIN endpoints
  BY <1>1 DEF Served, AppliedIsServed, Idle
<1>3. /\ DOMAIN endpoints' \subseteq DOMAIN endpoints
      /\ \A o \in DOMAIN endpoints : o # ns => o \in DOMAIN endpoints'
      /\ \A o \in DOMAIN endpoints' : /\ endpoints'[o].name = endpoints[o].name
                                      /\ endpoints'[o].cfg = endpoints[o].cfg
  <2>1. CASE DeleteEndpoint(ns)
    BY <2>1 DEF DeleteEndpoint, RemoveKeys
  <2>2. CASE \E t : BecomeTable(ns, t)
    BY <1>2, <2>2, BecomeOne
  <2> QED
    BY <2>1, <2>2 DEF DeleteEndpointNotClosed, DeleteEndpointNotRemoved
<1>4. applied[ns].service = ns
  BY <1>1 DEF DemuxTypes, AppliedTypes
<1>5. ASSUME NEW o \in DOMAIN applied, o # ns
      PROVE  isServed(o, applied[o])'
  <2>1. isServed(o, applied[o])
    BY <1>1 DEF Served, AppliedIsServed, isServed, Idle
  <2>2. o \in DOMAIN endpoints /\ endpoints[o].name # endpoints[ns].name
    BY <1>2, <1>5, <2>1 DEF Served, NamesDistinct, isServed
  <2>3. isRegistered(o) => [name |-> endpoints[o].name, service |-> o] \in registry'
    BY <1>1, <2>2 DEF isRegistered, unregistered
  <2>4. /\ o \in DOMAIN endpoints'
        /\ endpoints'[o].name = endpoints[o].name /\ endpoints'[o].cfg = endpoints[o].cfg
        /\ connected' /\ socket' = "listening"
    BY <1>1, <1>3, <1>5, <2>1, <2>2 DEF isServed, server
  <2>5. isServed(o, applied[o]) => isServed(o, applied[o])'
    BY <1>1, <2>3, <2>4 DEF isServed, isRegistered
  <2> QED
    BY <2>1, <2>5
<1>6. task'.op = "unpublish" /\ task'.value = applied[ns]
  BY <1>1
<1>7. AppliedIsServed'
  BY <1>1, <1>4, <1>5, <1>6 DEF AppliedIsServed, isServed
<1>8. NamesDistinct' /\ (connected => socket = "listening")'
  BY <1>1, <1>3 DEF Served, NamesDistinct, server
<1> QED
  BY <1>1, <1>4, <1>6, <1>7, <1>8 DEF Served

\* Every step.
LEMMA ServedStep ==
  ASSUME DemuxTypes, Served, [Next]_vars
  PROVE  Served'
<1>1. ASSUME NEW ns \in Services, AddEndpointNotStarted(ns)
      PROVE  Served'
  <2>1. /\ task = Idle /\ ~connected
        /\ UNCHANGED <<connected, tables, registry, applied, task>>
    BY <1>1 DEF AddEndpointNotStarted, toCreate, scheduled
  <2> QED
    BY <2>1, ServedQuiet DEF tables
<1>2. ASSUME NEW ns \in Services, AddEndpointNotRegistered(ns)
      PROVE  Served'
  <2>1. connected' /\ socket' = "listening" /\ UNCHANGED <<task, applied, endpoints>>
        /\ registry \subseteq registry'
    BY <1>2 DEF AddEndpointNotRegistered, StartServer, scheduled, tables
  <2> QED
    BY <2>1, ServedQuiet
<1>3. ASSUME NEW conn \in Requests, Request(conn) \/ Close(conn)
      PROVE  Served'
  <2> DEFINE ns == nseName(conn)
  <2>1. ns \in DOMAIN endpoints /\ \E t : BecomeTable(ns, t)
    BY <1>3 DEF Request, Close
  <2>2. /\ DOMAIN endpoints' = DOMAIN endpoints
        /\ \A o \in DOMAIN endpoints : /\ endpoints'[o].name = endpoints[o].name
                                       /\ endpoints'[o].cfg = endpoints[o].cfg
    BY <2>1, BecomeOne
  <2>3. UNCHANGED <<server, registry, scheduled, task>>
    BY <1>3 DEF Request, Close, Unchanged
  <2> QED
    BY <2>2, <2>3, ServedQuiet DEF server, scheduled, Served
<1>4. CASE Restart
  <2>1. task' = Idle /\ applied' = Empty /\ endpoints' = Empty /\ connected' = FALSE
    BY <1>4 DEF Restart, knownAtStart, endpointDescr, NewNSMEndpointDescriptor,
                typedEndpointDescr
  <2> QED
    BY <2>1 DEF Served, AppliedIsServed, NamesDistinct, Empty, Idle
<1>5. CASE UNCHANGED <<server, tables, registry, applied, task>>
  BY <1>5 DEF server, tables, Served, AppliedIsServed, isServed, isRegistered, NamesDistinct
<1>6. ASSUME NEW ns \in Services, Configure(ns)
      PROVE  Served'
  BY <1>5, <1>6 DEF Configure
<1>7. CASE LeaseExpires
  BY <1>5, <1>7 DEF LeaseExpires, scheduled
<1>8. CASE UNCHANGED vars
  BY <1>5, <1>8 DEF vars, scheduled
<1>9. ASSUME NEW conn \in Requests, NotRouted(conn)
      PROVE  Served'
  BY <1>8, <1>9 DEF NotRouted
<1>10. ASSUME Scheduler
       PROVE  Served'
  BY <1>1, <1>2, <1>10, AddServed, PublishServed, UnpublishServed, DeleteServed DEF Scheduler
<1> QED
  BY <1>3, <1>4, <1>6, <1>7, <1>8, <1>9, <1>10 DEF Next

\* The invariant of the demultiplexer.
DemuxInv == DemuxTypes /\ Served

\* It holds when nothing has been created yet.
LEMMA DemuxInit == Init => DemuxInv
  BY TypesInit DEF Init, DemuxInv, Served, AppliedIsServed, NamesDistinct, Empty, Idle

\* Every step keeps it.
LEMMA DemuxStep == DemuxInv /\ [Next]_vars => DemuxInv'
<1> SUFFICES ASSUME DemuxInv, [Next]_vars
             PROVE  DemuxInv'
  OBVIOUS
<1>1. DemuxTypes'
  BY ServedDeletable, TypesStep DEF DemuxInv
<1>2. Served'
  BY ServedStep DEF DemuxInv
<1> QED
  BY <1>1, <1>2 DEF DemuxInv

\* Type correctness of the demultiplexer: its map only ever holds well-formed
\* tables, each with connections to its own network service.
THEOREM DemuxTypeOK == Spec => []TypeOK
<1>1. DemuxInv => TypeOK
  BY TypesImply DEF DemuxInv
<1> QED
  BY <1>1, DemuxInit, DemuxStep, PTL DEF Spec

\* What Create reported as done is served and registered, for any services and
\* any sequence of failures, lost answers and restarts.
THEOREM DemuxAppliedIsServed == Spec => []AppliedIsServed
<1>1. DemuxInv => AppliedIsServed
  BY DEF DemuxInv, Served
<1> QED
  BY <1>1, DemuxInit, DemuxStep, PTL DEF Spec

-----------------------------------------------------------------------------
(* Notifications.  Each theorem names the calls that must not fail.        *)

\* Withdrawals do not fail.
Withdraws == "delete" \notin Faults

\* A notification that is alive is one of an endpoint that counts as created.
NotifsApplied ==
  /\ \A k \in DOMAIN notifs :
       notifs[k] => \E ns \in DOMAIN applied : k \in notificationKeys(applied[ns])
  /\ ~Publishing => DOMAIN notifs = {}

\* The key of a notification tells the service.
LEMMA KeyService ==
  ASSUME NEW v, NEW k \in notificationKeys(v)
  PROVE  k[1] = v.service
  BY DEF notificationKeys

\* What the steps outside of Create and Delete do to the notifications.
LEMMA NotifsElsewhere ==
  ASSUME [Next]_vars, ~Publish, ~Unpublish
  PROVE  \/ UNCHANGED <<applied, notifs>>
         \/ Restart
         \/ LeaseExpires /\ applied' = applied
  BY DEF Next, Scheduler, scheduled, AddEndpointNotStarted, AddEndpointNotRegistered,
         AddEndpoint, DeleteEndpointNotClosed, DeleteEndpointNotRemoved, DeleteEndpoint,
         Configure, Request, Close, NotRouted, Unchanged, LeaseExpires, vars

\* Create announces what it created, Delete withdraws all of it.
LEMMA NotifsAppliedStep ==
  ASSUME Withdraws, DemuxInv, NotifsApplied, [Next]_vars
  PROVE  NotifsApplied'
<1>1. CASE Publish
  <2>1. PICK v : v = task.value
    OBVIOUS
  <2>2. PICK keys \in SUBSET notificationKeys(v) :
          /\ ~Publishing => keys = {}
          /\ notifs' = [k \in DOMAIN notifs \cup keys |-> k \in keys \/ notifs[k]]
    BY <1>1, <2>1 DEF Publish
  <2>3. applied' = Put(applied, v.service, v) /\ v.service \notin DOMAIN applied
    BY <1>1, <2>1 DEF Publish, DemuxInv, Served
  <2>4. /\ DOMAIN applied' = DOMAIN applied \cup {v.service} /\ applied'[v.service] = v
        /\ \A ns \in DOMAIN applied : applied'[ns] = applied[ns]
    BY <2>3 DEF Put
  <2>5. ASSUME NEW k \in DOMAIN notifs', notifs'[k]
        PROVE  \E ns \in DOMAIN applied' : k \in notificationKeys(applied'[ns])
    <3>1. CASE k \in keys
      BY <2>2, <2>4, <3>1
    <3>2. CASE k \notin keys
      <4>1. k \in DOMAIN notifs /\ notifs[k]
        BY <2>2, <2>5, <3>2
      <4>2. PICK ns \in DOMAIN applied : k \in notificationKeys(applied[ns])
        BY <4>1 DEF NotifsApplied
      <4> QED
        BY <2>4, <4>2
    <3> QED
      BY <3>1, <3>2
  <2> QED
    BY <2>2, <2>5 DEF NotifsApplied
<1>2. CASE Unpublish
  <2>1. PICK v : v = task.value
    OBVIOUS
  <2>2. PICK keys \in SUBSET notificationKeys(v) :
          /\ Publishing => keys = notificationKeys(v)
          /\ notifs' = RemoveKeys(notifs, keys)
    BY <1>2, <2>1 DEF Unpublish, Fail, Withdraws, notifsAfterDelete
  <2>3. applied' = RemoveKeys(applied, {v.service}) /\ applied[v.service] = v
    BY <1>2, <2>1 DEF Unpublish, DemuxInv, Served
  <2>4. /\ DOMAIN applied' = DOMAIN applied \ {v.service}
        /\ \A ns \in DOMAIN applied' : applied'[ns] = applied[ns]
    BY <2>3 DEF RemoveKeys
  <2>5. ASSUME NEW k \in DOMAIN notifs', notifs'[k]
        PROVE  \E ns \in DOMAIN applied' : k \in notificationKeys(applied'[ns])
    <3>1. k \in DOMAIN notifs /\ k \notin keys /\ notifs[k]
      BY <2>2, <2>5 DEF RemoveKeys
    <3>2. PICK ns \in DOMAIN applied : k \in notificationKeys(applied[ns])
      BY <3>1 DEF NotifsApplied
    <3>3. keys = notificationKeys(v)
      BY <2>2, <3>1 DEF NotifsApplied
    <3>4. ns # v.service
      BY <2>3, <3>1, <3>2, <3>3
    <3> QED
      BY <2>4, <3>2, <3>4
  <2>6. DOMAIN notifs' \subseteq DOMAIN notifs
    BY <2>2 DEF RemoveKeys
  <2> QED
    BY <2>5, <2>6 DEF NotifsApplied
<1>3. CASE UNCHANGED <<applied, notifs>>
  BY <1>3 DEF NotifsApplied, notificationKeys
<1>4. CASE Restart
  BY <1>4 DEF Restart, NotifsApplied
<1>5. CASE LeaseExpires /\ applied' = applied
  BY <1>5 DEF LeaseExpires, RemoveKeys, NotifsApplied, notificationKeys
<1> QED
  BY <1>1, <1>2, <1>3, <1>4, <1>5, NotifsElsewhere

\* An agent that can withdraw announces only what it serves, in whatever way
\* AddEndpoint and DeleteEndpoint fail and however often the agent restarts.
THEOREM DemuxNotificationIsServed ==
  ASSUME Withdraws
  PROVE  Spec => []NotificationIsServed
<1>1. DemuxInv /\ NotifsApplied => NotificationIsServed
  <2> SUFFICES ASSUME DemuxInv, NotifsApplied, NEW k \in DOMAIN notifs, notifs[k]
               PROVE  \/ k[1] \in DOMAIN endpoints
                      \/ task.op = "unpublish" /\ task.value.service = k[1]
    BY DEF NotificationIsServed
  <2>1. PICK ns \in DOMAIN applied : k \in notificationKeys(applied[ns])
    BY DEF NotifsApplied
  <2>2. k[1] = applied[ns].service
    BY <2>1, KeyService
  <2>3. applied[ns].service = ns
    BY DEF DemuxInv, DemuxTypes, AppliedTypes
  <2> QED
    BY <2>2, <2>3 DEF DemuxInv, Served, AppliedIsServed
<1>2. Init => NotifsApplied
  BY DEF Init, Empty, NotifsApplied
<1>3. DemuxInv /\ NotifsApplied /\ [Next]_vars => NotifsApplied'
  BY NotifsAppliedStep
<1> QED
  BY <1>1, <1>2, <1>3, DemuxInit, DemuxStep, PTL DEF Spec

\* The publisher does not fail and the agent does not restart.
PublisherWorks == Faults \cap {"put", "delete", "restart"} = {}

announced(ap) == UNION {notificationKeys(ap[ns]) : ns \in DOMAIN ap}

\* With a publisher, exactly what counts as created is announced, and alive.
AllAnnounced ==
  Publishing => DOMAIN notifs = announced(applied) /\ \A k \in DOMAIN notifs : notifs[k]

\* One more endpoint, and one endpoint less.
LEMMA AnnouncedPut ==
  ASSUME NEW ap, NEW ns, NEW v, ns \notin DOMAIN ap
  PROVE  announced(Put(ap, ns, v)) = announced(ap) \cup notificationKeys(v)
<1> DEFINE bp == Put(ap, ns, v)
<1>1. /\ DOMAIN bp = DOMAIN ap \cup {ns} /\ bp[ns] = v
      /\ \A o \in DOMAIN ap : bp[o] = ap[o]
  BY DEF Put
<1> HIDE DEF bp
<1>2. announced(bp) = announced(ap) \cup notificationKeys(v)
  BY <1>1 DEF announced
<1> QED
  BY <1>2 DEF bp

LEMMA AnnouncedRemove ==
  ASSUME NEW ap, AppliedTypes(ap), NEW ns \in DOMAIN ap
  PROVE  announced(RemoveKeys(ap, {ns})) = announced(ap) \ notificationKeys(ap[ns])
<1> DEFINE bp == RemoveKeys(ap, {ns})
<1>1. DOMAIN bp = DOMAIN ap \ {ns} /\ \A o \in DOMAIN bp : bp[o] = ap[o]
  BY DEF RemoveKeys
<1> HIDE DEF bp
<1>2. ASSUME NEW o \in DOMAIN ap, o # ns
      PROVE  notificationKeys(ap[o]) \cap notificationKeys(ap[ns]) = {}
  <2>1. ap[o].service = o /\ ap[ns].service = ns
    BY DEF AppliedTypes
  <2> QED
    BY <1>2, <2>1, KeyService
<1>3. announced(bp) = announced(ap) \ notificationKeys(ap[ns])
  BY <1>1, <1>2 DEF announced
<1> QED
  BY <1>3 DEF bp

\* Nothing expires while the agent lives.
LEMMA AllAnnouncedStep ==
  ASSUME PublisherWorks, DemuxInv, AllAnnounced, [Next]_vars
  PROVE  AllAnnounced'
<1> SUFFICES ASSUME Publishing
             PROVE  DOMAIN notifs' = announced(applied') /\ \A k \in DOMAIN notifs' : notifs'[k]
  BY DEF AllAnnounced
<1>1. DOMAIN notifs = announced(applied) /\ \A k \in DOMAIN notifs : notifs[k]
  BY DEF AllAnnounced
<1>2. CASE Publish
  <2>1. PICK v : v = task.value
    OBVIOUS
  <2>2. notifs' = [k \in DOMAIN notifs \cup notificationKeys(v) |->
                     k \in notificationKeys(v) \/ notifs[k]]
    BY <1>2, <2>1 DEF Publish, Fail, PublisherWorks
  <2>3. applied' = Put(applied, v.service, v) /\ v.service \notin DOMAIN applied
    BY <1>2, <2>1 DEF Publish, DemuxInv, Served
  <2> QED
    BY <1>1, <2>2, <2>3, AnnouncedPut
<1>3. CASE Unpublish
  <2>1. PICK v : v = task.value
    OBVIOUS
  <2>2. notifs' = RemoveKeys(notifs, notificationKeys(v))
    BY <1>3, <2>1 DEF Unpublish, Fail, PublisherWorks, notifsAfterDelete
  <2>3. /\ applied' = RemoveKeys(applied, {v.service})
        /\ v.service \in DOMAIN applied /\ applied[v.service] = v
    BY <1>3, <2>1 DEF Unpublish, DemuxInv, Served
  <2>4. announced(applied') = announced(applied) \ notificationKeys(v)
    BY <2>3, AnnouncedRemove DEF DemuxInv, DemuxTypes
  <2> QED
    BY <1>1, <2>2, <2>4 DEF RemoveKeys
<1>4. CASE UNCHANGED <<applied, notifs>>
  BY <1>1, <1>4
<1>5. ~Restart
  BY DEF Restart, Fail, PublisherWorks
<1>6. ~LeaseExpires
  BY <1>1 DEF LeaseExpires
<1> QED
  BY <1>2, <1>3, <1>4, <1>5, <1>6, NotifsElsewhere

\* At rest, other agents see exactly the endpoints of this one, for any
\* failures of NSM, of the socket and of the connections.
THEOREM DemuxNotificationsMatch ==
  ASSUME PublisherWorks
  PROVE  Spec => []NotificationsMatch
<1>1. AllAnnounced => NotificationsMatch
  BY DEF AllAnnounced, announced, NotificationsMatch
<1>2. Init => AllAnnounced
  BY DEF Init, Empty, AllAnnounced, announced
<1>3. DemuxInv /\ AllAnnounced /\ [Next]_vars => AllAnnounced'
  BY AllAnnouncedStep
<1> QED
  BY <1>1, <1>2, <1>3, DemuxInit, DemuxStep, PTL DEF Spec

-----------------------------------------------------------------------------
(* Registrations. *)

\* No call fails halfway and the agent does not restart.
NoHalfwayFaults == Faults \cap {"registerReply", "close", "remove", "removeReply", "restart"} = {}

registrationsOf(eps) == {[name |-> eps[ns].name, service |-> ns] : ns \in DOMAIN eps}

\* The endpoints that should be in the map, given where the scheduler is.
servedServices ==
  IF task.op = "publish" THEN DOMAIN applied \cup {task.value.service}
  ELSE IF task.op = "unpublish" THEN DOMAIN applied \ {task.value.service}
  ELSE DOMAIN applied

\* NSM knows the endpoints of the map and nothing else.
Registered ==
  /\ DOMAIN endpoints = servedServices
  /\ registry = registrationsOf(endpoints)

\* Registrations depend on the names only.
LEMMA RegistrationsSame ==
  ASSUME NEW eps, NEW fps, DOMAIN eps = DOMAIN fps,
         \A ns \in DOMAIN eps : eps[ns].name = fps[ns].name
  PROVE  registrationsOf(eps) = registrationsOf(fps)
  BY DEF registrationsOf

\* Requests, closings and failures with nothing done leave the two in step.
LEMMA RegisteredStep ==
  ASSUME NoHalfwayFaults, DemuxInv, Registered, [Next]_vars
  PROVE  Registered'
<1>1. ASSUME NEW ns \in Services, AddEndpoint(ns)
      PROVE  Registered'
  <2>1. PICK v : v = desired[ns]
    OBVIOUS
  <2>2. PICK ep : ep = [name |-> freshName, cfg |-> v.cfg, conns |-> Empty]
    OBVIOUS
  <2>3. /\ task = Idle /\ task' = [op |-> "publish", value |-> v] /\ applied' = applied
        /\ endpoints' = Put(endpoints, ns, ep)
        /\ registry' = registry \cup {[name |-> ep.name, service |-> ns]}
    BY <1>1, <2>1, <2>2
       DEF AddEndpoint, toCreate, endpointsAfterAdd, registration, scheduled
  <2>4. v.service = ns /\ ns \notin DOMAIN applied
    BY <1>1, <2>1, AddedEndpoint DEF AddEndpoint, DemuxInv
  <2>5. DOMAIN endpoints = DOMAIN applied
    BY <2>3 DEF Registered, servedServices, Idle
  <2>6. /\ DOMAIN endpoints' = DOMAIN endpoints \cup {ns} /\ endpoints'[ns] = ep
        /\ \A o \in DOMAIN endpoints : endpoints'[o] = endpoints[o]
    BY <2>3, <2>4, <2>5 DEF Put
  <2>7. registry' = registrationsOf(endpoints')
    BY <2>3, <2>6 DEF Registered, registrationsOf
  <2>8. servedServices' = DOMAIN applied \cup {ns}
    BY <2>3, <2>4 DEF servedServices
  <2> QED
    BY <2>5, <2>6, <2>7, <2>8 DEF Registered
<1>2. CASE Publish
  <2>1. /\ task.op = "publish" /\ task' = Idle
        /\ applied' = Put(applied, task.value.service, task.value)
        /\ UNCHANGED <<endpoints, registry>>
    BY <1>2 DEF Publish, tables
  <2>2. servedServices' = servedServices
    BY <2>1 DEF servedServices, Put, Idle
  <2> QED
    BY <2>1, <2>2 DEF Registered
<1>3. CASE Unpublish
  <2>1. /\ task.op = "unpublish" /\ task' = Idle
        /\ applied' = RemoveKeys(applied, {task.value.service})
        /\ UNCHANGED <<endpoints, registry>>
    BY <1>3 DEF Unpublish, tables
  <2>2. servedServices' = servedServices
    BY <2>1 DEF servedServices, RemoveKeys, Idle
  <2> QED
    BY <2>1, <2>2 DEF Registered
<1>4. ASSUME NEW ns \in Services, DeleteEndpoint(ns)
      PROVE  Registered'
  <2>1. /\ task = Idle /\ ns \in DOMAIN applied /\ applied' = applied
        /\ task' = [op |-> "unpublish", value |-> applied[ns]]
        /\ endpoints' = RemoveKeys(endpoints, {ns})
        /\ registry' = {r \in registry : r.name # endpoints[ns].name}
    BY <1>4 DEF DeleteEndpoint, toDelete, unregistered, scheduled
  <2>2. applied[ns].service = ns
    BY <2>1 DEF DemuxInv, DemuxTypes, AppliedTypes
  <2>3. DOMAIN endpoints = DOMAIN applied
    BY <2>1 DEF Registered, servedServices, Idle
  <2>4. /\ DOMAIN endpoints' = DOMAIN endpoints \ {ns}
        /\ \A o \in DOMAIN endpoints' : endpoints'[o] = endpoints[o]
    BY <2>1 DEF RemoveKeys
  <2>5. \A o \in DOMAIN endpoints : o # ns => endpoints[o].name # endpoints[ns].name
    BY <2>1, <2>3 DEF DemuxInv, Served, NamesDistinct
  <2>6. registry' = registrationsOf(endpoints')
    <3>1. registrationsOf(endpoints') =
            {[name |-> endpoints[o].name, service |-> o] : o \in DOMAIN endpoints \ {ns}}
      BY <2>4 DEF registrationsOf
    <3>2. ASSUME NEW r \in registry, r.name # endpoints[ns].name
          PROVE  r \in registrationsOf(endpoints')
      BY <3>1, <3>2 DEF Registered, registrationsOf
    <3>3. ASSUME NEW o \in DOMAIN endpoints, o # ns
          PROVE  [name |-> endpoints[o].name, service |-> o] \in registry'
      BY <2>1, <2>5, <3>3 DEF Registered, registrationsOf
    <3> QED
      BY <2>1, <3>1, <3>2, <3>3
  <2>7. servedServices' = DOMAIN applied \ {ns}
    BY <2>1, <2>2 DEF servedServices
  <2> QED
    BY <2>3, <2>4, <2>6, <2>7 DEF Registered
<1>5. ASSUME NEW conn \in Requests, Request(conn) \/ Close(conn)
      PROVE  Registered'
  <2> DEFINE ns == nseName(conn)
  <2>1. ns \in DOMAIN endpoints /\ \E t : BecomeTable(ns, t)
    BY <1>5 DEF Request, Close
  <2>2. /\ DOMAIN endpoints' = DOMAIN endpoints
        /\ \A o \in DOMAIN endpoints : endpoints'[o].name = endpoints[o].name
    BY <2>1, BecomeOne DEF DemuxInv
  <2>3. UNCHANGED <<registry, applied, task>>
    BY <1>5 DEF Request, Close, Unchanged, scheduled
  <2>4. registrationsOf(endpoints') = registrationsOf(endpoints)
    BY <2>2, RegistrationsSame
  <2> QED
    BY <2>2, <2>3, <2>4 DEF Registered, servedServices
<1>6. CASE UNCHANGED <<endpoints, registry, applied, task>>
  BY <1>6 DEF Registered, servedServices, registrationsOf
<1> QED
  BY <1>1, <1>2, <1>3, <1>4, <1>5, <1>6
     DEF Next, Scheduler, Fail, NoHalfwayFaults, scheduled, tables, AddEndpointNotStarted,
         AddEndpointNotRegistered, DeleteEndpointNotClosed, DeleteEndpointNotRemoved,
         Configure, NotRouted, Restart, LeaseExpires, vars

\* A deleted service is gone from the map and from the registry, and both hold
\* what was created, when no call fails halfway.
THEOREM DemuxDeletedIsGone ==
  ASSUME NoHalfwayFaults
  PROVE  Spec => []DeletedIsGone
<1>1. Registered => DeletedIsGone
  BY DEF Registered, servedServices, registrationsOf, DeletedIsGone, Idle
<1>2. Init => Registered
  BY DEF Init, Empty, Registered, servedServices, registrationsOf, Idle
<1>3. DemuxInv /\ Registered /\ [Next]_vars => Registered'
  BY RegisteredStep
<1> QED
  BY <1>1, <1>2, <1>3, DemuxInit, DemuxStep, PTL DEF Spec
=============================================================================
