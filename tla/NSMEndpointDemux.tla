-------------------------- MODULE NSMEndpointDemux --------------------------
(***************************************************************************)
(* The endpoint descriptor with its demultiplexer                          *)
(* (plugins/nsmplugin/descriptor/nsm_endpoint.go, types                    *)
(* NSMEndpointDescriptor and NSMEndpointDemux) between the scheduler of    *)
(* the agent, which calls Create and Delete, the Network Service Mesh,     *)
(* which calls Request and Close, and the KVDB for the notifications.      *)
(*                                                                         *)
(* The methods of the demultiplexer hold its mutex, so AddEndpoint,        *)
(* DeleteEndpoint, Request and Close are single steps.  The notifications  *)
(* are published and withdrawn outside of the mutex: "task" is where the   *)
(* thread of the scheduler is in between.  The calls that can fail do so   *)
(* when their name is in Faults, at most MaxFaults times.                  *)
(***************************************************************************)
EXTENDS NSMConnections, KVDescriptor

CONSTANTS
  Services,        \* network service names
  Values,          \* the endpoints that may be configured
  None,            \* no endpoint is configured
  NetworkService,  \* connection id -> network service of the connection
  Publishing,      \* is a notification publisher injected?
  Faults,          \* the calls that may fail
  MaxFaults,       \* bound on the number of failures
  MaxChanges       \* bound on the number of changes of the configuration

FaultNames ==
  {"connect", "init", "cleanup", "listen", "register", "registerReply",
   "close", "remove", "removeReply", "put", "delete", "restart"}

ASSUME FaultsAssumption == Faults \subseteq FaultNames /\ MaxFaults \in Nat /\ MaxChanges \in Nat
ASSUME ServicesAssumption == NetworkService \in [ConnIds -> Services]
ASSUME ValuesAssumption ==
  /\ \A v \in Values : v.service \in Services /\ v.cfg \in Config
  /\ None \notin Values
ASSUME PublishingAssumption == Publishing \in BOOLEAN

VARIABLES
  connected,   \* x.connected
  socket,      \* the file of NsmClientSocket: "none", "stale" or "listening"
  nsmConns,    \* connections to NSM this process has opened
  endpoints,   \* x.endpoints: service -> [name, cfg, conns]
  ifaces,      \* interfaces in the configuration of the agent
  registry,    \* registry of NSM: set of [name, service] (external)
  desired,     \* the configured endpoint of each service (external)
  applied,     \* the endpoints the scheduler holds as created (external)
  task,        \* the descriptor call in progress outside of the mutex
  notifs,      \* notification key -> is the session that put it alive?
  faults,      \* failures so far
  changes      \* changes of the configuration so far

server == <<connected, socket, nsmConns>>
tables == <<endpoints, ifaces>>
scheduled == <<desired, applied, changes>>
vars == <<server, tables, registry, scheduled, task, notifs, faults>>

Idle == [op |-> "idle"]

Init ==
  /\ connected = FALSE
  /\ socket = "none"
  /\ nsmConns = 0
  /\ endpoints = Empty
  /\ ifaces = Empty
  /\ registry = {}
  /\ desired = [ns \in Services |-> None]
  /\ applied = Empty
  /\ task = Idle
  /\ notifs = Empty
  /\ faults = 0
  /\ changes = 0

\* One of the calls named in F fails.
Fail(F) ==
  /\ F \cap Faults # {}
  /\ faults < MaxFaults
  /\ faults' = faults + 1

-----------------------------------------------------------------------------
(* The configuration, which the scheduler follows.                         *)

Configure(ns) ==
  /\ changes < MaxChanges
  /\ \E v \in {w \in Values : w.service = ns} \cup {None} :
       v # desired[ns] /\ desired' = [desired EXCEPT ![ns] = v]
  /\ changes' = changes + 1
  /\ UNCHANGED <<server, tables, registry, applied, task, notifs, faults>>

Validate(v) == v.service # "" /\ v.cfg.prefix # ""

toCreate(ns) ==
  /\ task = Idle
  /\ ns \notin DOMAIN applied
  /\ desired[ns] # None /\ isValid(endpointDescr, Validate(desired[ns]))

toDelete(ns) ==
  /\ task = Idle
  /\ ns \in DOMAIN applied
  /\ isRecreated(endpointDescr, applied[ns], desired[ns])

-----------------------------------------------------------------------------
(* Create, AddEndpoint. *)

\* Faulty variant: the file of a dead process is left in place.
socketNotCleaned(s) == s

\* SocketCleanup
SocketCleanup(s) == "none"

\* net.Listen needs a path that does not exist.
serverStarted == connected \/ SocketCleanup(socket) = "none"

\* NewNSMConnection, Init, SocketCleanup or Listen fails: the connection to NSM
\* that was opened on the way stays open.
AddEndpointNotStarted(ns) ==
  /\ toCreate(ns)
  /\ ~connected
  /\ \/ /\ Fail({"connect"})
        /\ UNCHANGED <<socket, nsmConns>>
     \/ /\ Fail({"init", "cleanup"})
        /\ nsmConns' = nsmConns + 1
        /\ UNCHANGED socket
     \/ /\ Fail({"listen"})
        /\ nsmConns' = nsmConns + 1
        /\ socket' = SocketCleanup(socket)
  /\ UNCHANGED <<connected, tables, registry, scheduled, task, notifs>>

StartServer ==
  /\ serverStarted
  /\ connected' = TRUE
  /\ socket' = "listening"
  /\ nsmConns' = IF connected THEN nsmConns ELSE nsmConns + 1

\* The registry gives every endpoint a name of its own.
usedNames == {r.name : r \in registry} \cup {endpoints[ns].name : ns \in DOMAIN endpoints}
freshName == Min((0..Cardinality(usedNames)) \ usedNames)

registration(ns) == [name |-> freshName, service |-> ns]

\* RegisterNSE fails, or only its answer is lost.
AddEndpointNotRegistered(ns) ==
  /\ toCreate(ns)
  /\ StartServer
  /\ \/ /\ Fail({"register"})
        /\ UNCHANGED registry
     \/ /\ Fail({"registerReply"})
        /\ registry' = registry \cup {registration(ns)}
  /\ UNCHANGED <<tables, scheduled, task, notifs>>

\* Faulty variant: an endpoint that is already there is kept.
endpointsWithoutOverwrite(eps, ns, ep) == IF ns \in DOMAIN eps THEN eps ELSE Put(eps, ns, ep)

\* An endpoint that is still there is overwritten, its connections with it.
endpointsAfterAdd(eps, ns, ep) == Put(eps, ns, ep)

AddEndpoint(ns) ==
  /\ toCreate(ns)
  /\ StartServer
  /\ registry' = registry \cup {registration(ns)}
  /\ endpoints' = endpointsAfterAdd(endpoints, ns,
       [name |-> freshName, cfg |-> desired[ns].cfg, conns |-> Empty])
  /\ task' = [op |-> "publish", value |-> desired[ns]]
  /\ UNCHANGED <<ifaces, scheduled, notifs, faults>>

\* EndpointNotificationKey for every advertised label.
notificationKeys(v) == {<<v.service, l>> : l \in v.labels}

\* The end of Create: a notification that cannot be put is only logged.
Publish ==
  /\ task.op = "publish"
  /\ LET v == task.value
     IN  /\ \E keys \in SUBSET notificationKeys(v) :
              /\ IF Publishing /\ keys # notificationKeys(v) THEN Fail({"put"})
                                                             ELSE UNCHANGED faults
              /\ ~Publishing => keys = {}
              /\ notifs' = [k \in DOMAIN notifs \cup keys |-> k \in keys \/ notifs[k]]
         /\ applied' = Put(applied, v.service, v)
  /\ task' = Idle
  /\ UNCHANGED <<server, tables, registry, desired, changes>>

-----------------------------------------------------------------------------
(* Delete, DeleteEndpoint.  An error of DeleteEndpoint is only logged.     *)
(* "No such endpoint" cannot happen: see AppliedIsServed.                  *)

tableOf(ns) == [conns |-> endpoints[ns].conns, ifaces |-> ifaces]

\* The table and the interfaces become those of t.
BecomeTable(ns, t) ==
  /\ endpoints' = [endpoints EXCEPT ![ns].conns = t.conns]
  /\ ifaces' = t.ifaces

\* CloseConnections stops midway.
DeleteEndpointNotClosed(ns) ==
  /\ toDelete(ns)
  /\ Fail({"close"})
  /\ \E t \in someClosed(endpoints[ns].cfg, tableOf(ns)) : BecomeTable(ns, t)
  /\ task' = [op |-> "unpublish", value |-> applied[ns]]
  /\ UNCHANGED <<server, registry, scheduled, notifs>>

\* Faulty variant: the endpoint is never unregistered.
stillRegistered(ns) == registry

\* RemoveNSE with the name in the map.
unregistered(ns) == {r \in registry : r.name # endpoints[ns].name}

\* All connections are closed, but RemoveNSE fails or its answer is lost.
DeleteEndpointNotRemoved(ns) ==
  /\ toDelete(ns)
  /\ \E t \in allClosed(endpoints[ns].cfg, tableOf(ns)) : BecomeTable(ns, t)
  /\ \/ /\ Fail({"remove"})
        /\ UNCHANGED registry
     \/ /\ Fail({"removeReply"})
        /\ registry' = unregistered(ns)
  /\ task' = [op |-> "unpublish", value |-> applied[ns]]
  /\ UNCHANGED <<server, scheduled, notifs>>

\* Faulty variant: the connections of a deleted endpoint are not closed.
deletedWithoutClosing(c, t) == {t}

\* Close of endpointReg, called before the endpoint is unregistered.
closedForDelete(c, t) == allClosed(c, t)

DeleteEndpoint(ns) ==
  /\ toDelete(ns)
  /\ \E t \in closedForDelete(endpoints[ns].cfg, tableOf(ns)) : ifaces' = t.ifaces
  /\ endpoints' = RemoveKeys(endpoints, {ns})
  /\ registry' = unregistered(ns)
  /\ task' = [op |-> "unpublish", value |-> applied[ns]]
  /\ UNCHANGED <<server, scheduled, notifs, faults>>

\* Faulty variant: the notifications are not withdrawn.
notifsKept(ntf, keys) == ntf

notifsAfterDelete(ntf, keys) == RemoveKeys(ntf, keys)

\* The end of Delete: a notification that cannot be deleted is only logged.
Unpublish ==
  /\ task.op = "unpublish"
  /\ LET v == task.value
     IN  /\ \E keys \in SUBSET notificationKeys(v) :
              /\ IF Publishing /\ keys # notificationKeys(v) THEN Fail({"delete"})
                                                             ELSE UNCHANGED faults
              /\ ~Publishing => keys = {}
              /\ notifs' = notifsAfterDelete(notifs, keys)
         /\ applied' = RemoveKeys(applied, {v.service})
  /\ task' = Idle
  /\ UNCHANGED <<server, tables, registry, desired, changes>>

-----------------------------------------------------------------------------
(* Request and Close of the demultiplexer: NSM calls them over the socket. *)

Unchanged == UNCHANGED <<server, registry, scheduled, task, notifs, faults>>

\* Faulty variant: the requested network service is not looked at.
anyService(conn) == CHOOSE ns \in Services : TRUE

\* conn.GetNetworkService()
nseName(conn) == NetworkService[conn.id]

Request(conn) ==
  LET ns == nseName(conn)
  IN  /\ connected
      /\ ns \in DOMAIN endpoints
      /\ \E t \in requestAccepted(endpoints[ns].cfg, tableOf(ns), conn)
                    \cup requestDeclined(endpoints[ns].cfg, tableOf(ns), conn) :
           BecomeTable(ns, t)
      /\ Unchanged

Close(conn) ==
  LET ns == nseName(conn)
  IN  /\ connected
      /\ ns \in DOMAIN endpoints
      /\ \E t \in closeConnection(endpoints[ns].cfg, tableOf(ns), conn) : BecomeTable(ns, t)
      /\ Unchanged

\* No such service, or the endpoint returns an error before anything changed.
NotRouted(conn) ==
  LET ns == nseName(conn)
  IN  /\ connected
      /\ ns \in DOMAIN endpoints => mayFailToBuildInterface(endpoints[ns].cfg, conn)
      /\ UNCHANGED vars

-----------------------------------------------------------------------------
(* The process ends and starts again.  The file of the socket, the         *)
(* registrations and, until their leases expire, the notifications remain. *)

Restart ==
  /\ Fail({"restart"})
  /\ connected' = FALSE
  /\ socket' = IF socket = "listening" THEN "stale" ELSE socket
  /\ nsmConns' = 0
  /\ endpoints' = Empty
  /\ ifaces' = Empty
  /\ applied' = knownAtStart(endpointDescr, applied)
  /\ task' = Idle
  /\ notifs' = [k \in DOMAIN notifs |-> FALSE]
  /\ UNCHANGED <<registry, desired, changes>>

\* WithClientLifetimeTTL: the KVDB drops what a dead session has put.
LeaseExpires ==
  /\ \E k \in DOMAIN notifs : ~notifs[k]
  /\ notifs' = RemoveKeys(notifs, {k \in DOMAIN notifs : ~notifs[k]})
  /\ UNCHANGED <<server, tables, registry, scheduled, task, faults>>

-----------------------------------------------------------------------------
Scheduler ==
  \/ \E ns \in Services :
       \/ AddEndpointNotStarted(ns)
       \/ AddEndpointNotRegistered(ns)
       \/ AddEndpoint(ns)
       \/ DeleteEndpointNotClosed(ns)
       \/ DeleteEndpointNotRemoved(ns)
       \/ DeleteEndpoint(ns)
  \/ Publish
  \/ Unpublish

Next ==
  \/ Scheduler
  \/ \E ns \in Services : Configure(ns)
  \/ \E conn \in Requests : Request(conn) \/ Close(conn) \/ NotRouted(conn)
  \/ Restart
  \/ LeaseExpires

\* The scheduler retries what failed, so it keeps taking steps while the
\* configuration is not applied.  Nothing else has to happen.
Spec == Init /\ [][Next]_vars /\ WF_vars(Scheduler)

-----------------------------------------------------------------------------
(* Properties. *)

\* Type invariant: fields of NSMEndpointDemux and the state around it.
TypeOK ==
  /\ connected \in BOOLEAN
  /\ socket \in {"none", "stale", "listening"}
  /\ nsmConns \in Nat
  /\ DOMAIN endpoints \subseteq Services
  /\ \A ns \in DOMAIN endpoints :
       /\ endpoints[ns].name \in Nat
       /\ endpoints[ns].cfg \in Config
       /\ \A id \in DOMAIN endpoints[ns].conns :
            NetworkService[id] = ns /\ endpoints[ns].conns[id] \in Entry
  /\ \A k \in DOMAIN ifaces : ifaces[k] \in [link : Links, addressed : BOOLEAN]
  /\ registry \subseteq [name : Nat, service : Services]
  /\ desired \in [Services -> Values \cup {None}]
  /\ DOMAIN applied \subseteq Services /\ \A ns \in DOMAIN applied : applied[ns] \in Values
  /\ task = Idle \/ task \in [op : {"publish", "unpublish"}, value : Values]
  /\ \A k \in DOMAIN notifs : notifs[k] \in BOOLEAN
  /\ faults \in 0..MaxFaults
  /\ changes \in 0..MaxChanges

isRegistered(ns) == [name |-> endpoints[ns].name, service |-> ns] \in registry

\* What Create reported as done is there: the server listens, the endpoint is
\* in the map with the configuration that was created, and NSM knows it under
\* the name in the map, whatever earlier calls of AddEndpoint and
\* DeleteEndpoint for the service left behind.
AppliedIsServed ==
  \A ns \in DOMAIN applied :
    \/ task.op = "unpublish" /\ task.value.service = ns
    \/ /\ connected /\ socket = "listening"
       /\ ns \in DOMAIN endpoints
       /\ endpoints[ns].cfg = applied[ns].cfg
       /\ isRegistered(ns)

\* A notification of a living agent announces an endpoint of the map, except
\* while Delete is between DeleteEndpoint and the withdrawal: Create publishes
\* after AddEndpoint, Delete withdraws even when DeleteEndpoint failed.
NotificationIsServed ==
  \A k \in DOMAIN notifs :
    notifs[k] => \/ k[1] \in DOMAIN endpoints
                 \/ task.op = "unpublish" /\ task.value.service = k[1]

\* When the scheduler is at rest and no call failed halfway, the map holds the
\* created endpoints and the registry exactly the endpoints of the map
\* (AddEndpoint, DeleteEndpoint): a deleted service is served to nobody.
DeletedIsGone ==
  task = Idle =>
    /\ DOMAIN endpoints = DOMAIN applied
    /\ registry = {[name |-> endpoints[ns].name, service |-> ns] : ns \in DOMAIN endpoints}

\* Endpoints of different services can never give the same name to interfaces
\* of the same kind.  Nothing in the code sees to it: the names are prefix and
\* suffix written together, and prefixes may be equal or continue one another.
KeysApart ==
  \A v, w \in Values : v.service # w.service => keysOf(v.cfg) \cap keysOf(w.cfg) = {}

\* Over all endpoints of the agent, if they cannot give the same name: every
\* connection has its own interface, and no interface outlives the connection
\* or the endpoint it was created for (Request, Close, DeleteEndpoint).
InterfacesMatch ==
  LET open == {o \in Services \X ConnIds :
                 o[1] \in DOMAIN endpoints /\ o[2] \in DOMAIN endpoints[o[1]].conns}
      key(o) == keyOf(endpoints[o[1]].cfg, endpoints[o[1]].conns, o[2])
  IN  /\ DOMAIN ifaces = {key(o) : o \in open}
      /\ \A o \in open : ifaces[key(o)] =
           interfaceValue(endpoints[o[1]].cfg, endpoints[o[1]].conns[o[2]].conn)
      /\ \A o, p \in open : key(o) = key(p) => o = p

\* At rest the notifications are those of the created endpoints (Create and
\* Delete with a publisher that does not fail).
NotificationsMatch ==
  Publishing /\ task = Idle =>
    DOMAIN notifs = UNION {notificationKeys(applied[ns]) : ns \in DOMAIN applied}

\* NSM knows at most one endpoint of this agent for a network service.
OneRegistrationPerService == \A r, s \in registry : r.service = s.service => r = s

\* Once failures, restarts and changes of the configuration have stopped, every
\* valid configured endpoint ends up served and registered, for good: retries of
\* AddEndpoint pick up where a failed attempt stopped, also after a crash that
\* left the file of the socket behind.
Converges ==
  <>[](\A ns \in Services :
         desired[ns] # None /\ Validate(desired[ns]) =>
           /\ connected
           /\ ns \in DOMAIN endpoints
           /\ endpoints[ns].cfg = desired[ns].cfg
           /\ isRegistered(ns))
=============================================================================
