# TLA+ verification of cnf-nsm

cnf-nsm adds Network Service Mesh (NSM) support to a Ligato agent: the agent can
serve network services (endpoints) and connect to them (clients), and every
connection becomes an interface in the agent's own configuration. A second
program, `cnf-crd`, reflects CNFConfiguration resources of Kubernetes into the
key-value store (KVDB) from which agents read their configuration. This directory
holds models of both, the TLC runs that check them on small instances, and proofs
that TLAPS checks for every instance.

## The system

| Part | Code | State | Operations | Interacts with | Modelled |
|---|---|---|---|---|---|
| NSM endpoint | `nsm_endpoint.go`, `NSMEndpoint` | `connections`: id -> index, connection | `Request`, `Close`, `CloseConnections` | local client (interfaces) | yes |
| Demultiplexer | `nsm_endpoint.go`, `NSMEndpointDemux` | `connected`, gRPC server, `endpoints`: service -> registration | `AddEndpoint`, `DeleteEndpoint`, `Request`, `Close`, under one mutex | NSM registry, unix socket, endpoints | yes |
| Endpoint descriptor | `nsm_endpoint.go`, `NSMEndpointDescriptor` | none of its own | `Validate`, `Create`, `Delete` | scheduler (caller), demultiplexer, KVDB (notifications) | yes |
| Client descriptor | `nsm_client.go`, `NSMClientDescriptor` | metadata: NSM client and connection | `Validate`, `Create`, `Delete`, two goroutines | scheduler (caller), NSM, local client | yes |
| Notification keys | `proto/nsm/keys.go`, `options.go` | none | `EndpointNotificationKey`, `ParseEndpointNotificationKey`, label of the group | agents sharing a KVDB | yes |
| Plugin wiring, adapters | `nsmplugin.go`, `options.go`, `adapter/` | none | `Init`, casts (generated) | scheduler | yes |
| CRD plugin | `plugins/crdplugin/plugin_impl_crd.go` | controller, clients | `Init`, `onEtcdConnect`, `initializeCRDs`, `Close` | Kubernetes, etcd | yes |
| CNFConfiguration handler | `plugins/crdplugin/cnfconfig` | none | `CrdObjectToKVData`, `PublishCrdStatus` | reflector of Contiv/VPP, API server | yes |
| Kubernetes client code | `plugins/crdplugin/pkg` | store of the informer | typed client, informer, deep copy (generated) | API server | partly |
| Agents | `cmd/` | none | lists of plugins | all | partly |
| Label strings, dummy subnets | `nsmlabelsFromProto`, `generateDummySubnet` | none | conversions | NSM configuration | no |

What is hard here, and what correctness means:

* **Connection table.** Names of interfaces come from indexes that are freed and
  reused, or from labels that clients choose; a client may request twice; the
  results of the transactions are ignored. Correct: connections have interfaces
  of their own, no interface outlives its connection, a single-client endpoint
  keeps its client.
* **Demultiplexer and descriptor.** `AddEndpoint` and `DeleteEndpoint` are
  sequences of calls of which any may fail, the errors of `Delete` are dropped,
  the scheduler retries `Create`, the process may restart with its socket and
  its registrations left over. Correct: what was created is served under the name
  NSM knows, what was deleted is gone, notifications tell the truth, and the
  configuration takes effect in the end.
* **Client descriptor.** The interface is configured by goroutines after the call
  has returned; `Create` has to undo half-done work; `Delete` is retried.
  Correct: no session leaks but those that a failed `Create` cannot or does not
  close, interfaces follow the clients unless the goroutines get out of order or a
  transaction is lost.
* **Agents.** `Request` waits for the scheduler with the mutex held, the scheduler
  waits for the mutex in `AddEndpoint`; `Connect` makes one agent's scheduler wait
  for another agent. Correct: nothing but agents that wait for one another in a
  circle waits forever, and an endpoint whose `Request` takes several steps behaves
  like one whose `Request` takes one.
* **Notifications.** Agents publish under the label of a group, key by key, with
  leases. Correct: announced is what is created, also after restarts.
* **CRD controller.** Resources change while the controller converts, writes and
  publishes a status with a full update of an object that may be out of date;
  it may be down, or its watch broken, when they change. Correct: no status
  undoes what a user did, and in the end the KVDB and the statuses agree with the
  resources.

All hazards, each at its line, are in `PROJECT.json` with the properties that
cover them.

## Modules

* `GoMaps` - Go maps as finite functions.
* `NSMConnections` - the connection table as pure operators: index allocation,
  `buildInterfaceConfig`, and for every method of `NSMEndpoint` the set of states
  it may leave behind, one per outcome of the calls it makes. Extended by
  * `NSMEndpoint` - one endpoint: `cfg`, `connections`, `ifaces`; the actions are
    the methods, split by how they end. `AttachmentService` is what it promises;
  * `NSMEndpointDemux` - the demultiplexer with the descriptor, composed of the
    tables of all endpoints, the registry, the socket, the KVDB and the scheduler;
  * `NSMAgent` - several agents with their threads: scheduler, queue, mutex and
    handlers. `Request` is split at its blocking `Send`, and every endpoint is shown
    to implement `NSMEndpoint`, and through it `AttachmentService`, under a refinement
    mapping.
* `NSMClient` - the client descriptor with its goroutines.
* `KVDescriptor` - which callbacks the generated adapters pass on, and so what
  the scheduler does for those that are missing; used by `NSMEndpointDemux` and
  `NSMClient`.
* `NotificationKeys` - the two key functions, with an agent that publishes and
  one that reads.
* `EndpointNotifications` - the notifications of several agents in one KVDB:
  groups, leases, restarts.
* `CNFConfigurations` - the resources on the API server: users, versions,
  conflicts, lists and watches, through the generated client. Extended by
  * `CnfCrd` - the controller: plugin, informer, handler and reflector.
* `NSMConnectionsProofs`, `NSMEndpointProofs`, `NSMEndpointDemuxProofs`,
  `NSMEndpointDemuxIfaceProofs`, `NSMAgentProofs`, `NSMClientProofs`, `CnfCrdProofs`,
  `EndpointNotificationsProofs` - the theorems and their lemmas.
* `MC*` - the instances for TLC.

Correspondence in short (`PROJECT.json` "map" has the lines):

| Model | Code |
|---|---|
| `connections`, `endpoints[ns].conns`, `conns[s]` | `NSMEndpoint.connections` |
| `ifaces` | what `localclient.ChangeRequest()...Send` configured; external |
| `InterfaceName`, interface key `<<kind, name>>` | prefix and suffix written one after the other; the name as a key of the Linux or the VPP configuration |
| `SendOutcomes` | with `FALSE` in it, a Send may fail or, if it does not block, never get through; the code ignores it |
| `WorkspaceDefined` | whether `nsmBaseDir` finds its environment variable |
| `mkdirOK` | outcome of `os.MkdirAll` |
| `RequestFailed`, `RequestDeclined`, `RequestAccepted` | the ways `NSMEndpoint.Request` ends: a duplicate cannot be closed; turned away (the duplicate is gone); accepted |
| `AddEndpointNotStarted`, `AddEndpointNotRegistered`, `AddEndpoint`, then `Publish` | `Create`: fails up to `Listen`; fails at `RegisterNSE`; succeeds; notifications |
| `DeleteEndpointNotClosed`, `DeleteEndpointNotRemoved`, `DeleteEndpoint`, then `Unpublish` | `Delete` in the same way; it always returns nil |
| `NotRouted` | "no such service", and requests that end before anything changed |
| `applied`, `desired`, `toCreate`, `toDelete`, `Configure` | the scheduler: one thread, retries a failed `Create`, replaces a changed value by `Delete` and `Create` (`KVDescriptor`: there is no `Update`); external |
| `CreateNoClient`, `CreateNotConnected`, `CreateNotBuilt`, `Create` | `NSMClientDescriptor.Create` and its three error returns; `Connect` may have taken effect although it returns an error |
| `abandoned` | history: sessions that such an error return left open at NSM |
| `pending`, `Execute` | goroutines of the client's `Create` and `Delete` that have not sent yet; the transaction of any one of them |
| `disturbed` | history: interfaces whose last transaction was lost or overtook an earlier one |
| `broken` | a client whose `Delete` returned an error and is to be retried |
| `PluginInit`, `PluginInitFails`, `AfterInit` (`NSMAgent`) | `NSMPlugin.Init` registers two descriptors; the startup resync of the main programs |
| `queue`, `ExecuteInterface` | transactions of an agent's scheduler, executed in order; external |
| `mutex`, `RequestStart`, `RequestEnd` | the demultiplexer's mutex, held by `Request` while its `Send` waits for the scheduler |
| `closings`, `closing` | transactions of `CloseConnections` and `closeConnection`, sent without waiting |
| `Call`, `Called`, `CallFailed`, `GiveUp` | the scheduler in `Connect` or `Close` of the client, the answer, the error, a call that is lost on its way (external; the code sets no deadline, so nobody has to give up) |
| `InterfaceOf` | kind and name of the interface of a client |
| `task`, `Publish`, `Withdraw`, `lease` (`EndpointNotifications`) | the loops over `AdvertisedLabels` in `Create` and `Delete`; `WithClientLifetimeTTL` |
| `GroupOf` | the label given to `WithCustomizedNotifications`, "global" by default |
| `server`, `version`, `intent`, `stream` | resources with their versions, what users asked for, the watch; external |
| `onEtcdConnect`, `onEtcdConnectFails` | the callback of etcd with `initializeCRDs`; its error goes to the etcd plugin |
| `cache`, `events`, `ListAndWatch`, `Deliver`, `InformerResync` | the informer of the factory, over all namespaces |
| `Reflect`, `ReflectFails`, `ReflectDeleted`, `Sweep` | the reflector of Contiv/VPP (external), calling `CrdObjectToKVData` |
| `PublishCrdStatus`, `PublishFails` | deep copy, status and message, `Update` of the whole object; an `Update` that fails for another reason than a conflict, with its effect or without |
| `unpublished` | history: resources whose latest status was lost in this way |

The descriptor methods that the mutex or the scheduler's only thread make
atomic are single actions, except in `NSMAgent`, which is about that mutex and that
thread. `Validate` has no action: a value it refuses is never passed to `Create`.
Data is kept only as far as a property can tell: labels, links and ids are model
values, addresses matter only as "latest" in the client, an item of a resource is
valid or "garbled".

## Runs

| Run | Instance | Shows |
|---|---|---|
| `endpoint_lossy` | 3 clients, any labels, all 16 configurations, lost transactions | `TypeOK`, `KeysDistinct`, `IndexBound`, `SingleClient`, `NoTakeover` hold |
| `endpoint_reliable` | 3 clients with labels of their own, 2 links, nothing lost | `ConnectionHasInterface`, `NoStrayInterface`; `AttachmentService` is implemented |
| `demux_clean` | 2 services, 3 values, failures only where `AddEndpoint` returns before it registered | `DeletedIsGone`, `InterfacesMatch`, `NotificationsMatch` hold |
| `demux_faulty` | 2 failures among all calls, lost answers and restarts included | `TypeOK`, `AppliedIsServed`, `NotificationIsServed`, `Converges` hold |
| `demux_remove` | one failed `RemoveNSE` | `OneRegistrationPerService` is violated (finding) |
| `client_faults` | 2 clients, 6 values, 3 failures of any kind (lost answers and lost transactions included), 3 changes, goroutines in any order | `TypeOK`, `OnlyFailedCreateLeaks`, `MirrorUnlessDisturbed`, `Settles` hold |
| `client_reordered` | no failure, 2 changes, goroutines in any order | `MirrorWhenQuiet` is violated (finding) |
| `agents` | 2 agents that serve each other, 2 services, 3 clients, 2 calls each, 2 changes; a call may get lost but nobody has to give it up | `TypeOK`, `InterfacesAtRest`, `EndpointsImplemented`, `ServicesImplemented`, `CircleStays`, `CreatedUnlessCircular`, `SettlesUnlessCircular` hold |
| `agent_deadlock` | the same | `InterfaceCreated` is violated (finding) |
| `notification_parse` | service names with and without a slash, undefined parts | `LabelReadBack` is violated for every key (finding) |
| `notification_groups` | 3 agents, two of them in one group with services of their own, the third in another with a service of the first; 3 changes, 2 restarts | `TypeOK`, `AnnouncedIsCreated`, `CreatedIsAnnounced`, `NotificationsSettle` hold |
| `cnf_crd` | a resource in each of 2 namespaces, 4 specs, 3 writes, one failure of any kind (a failed `Update` of a status included) | `TypeOK`, `UserDataKept`, `ConfigDelivered`, `StatusTruthful` hold |

Bounds. Three clients are enough for an index to be freed in the middle, reused
and collide with a third; a single-client endpoint needs two. `MaxChanges` lets a
service be created, modified and removed while another is in use; `MaxFaults = 2`
lets a call fail and its retry or its clean-up fail as well; the third failure of
`client_faults` lets the transaction of what was done then get lost. Two agents that are
clients of each other give the shortest cycle of waits, two clients on one agent
a queue behind a blocked call, and two calls of each a retry of a call whose
first handler is still at work. Two restarts let the same agent end again before
the lease of its first session has run out, or two agents end. Three writes
let a user create a resource, change it or garble it while an update of its
status is under way, and delete it; one failure includes the stop of the
controller, a broken watch or a write that fails half way. The theorems depend on
no bound.

Fairness. In `NSMEndpointDemux` the scheduler is weakly fair: the KVScheduler
retries failed operations. Clients, NSM, the KVDB, changes and failures owe
nothing. In `NSMClient` in addition the goroutines are weakly fair, as the Go
runtime runs them, though in any order. In `NSMAgent` the schedulers and the handlers are strongly
fair: what they wait for is the mutex, which may be free again and again without
them, and a Go mutex hands itself over to a thread that has starved; start and the
end of `Request` are weakly fair. `GiveUp` owes nothing: the code passes
`context.Background()`, so a call without an answer is waited for. In
`EndpointNotifications` the scheduler of each agent is weakly fair and a lease that
is over runs out; restarts owe nothing. In `CnfCrd` the threads of the informer,
of the reflector and of its first sweep are weakly fair, and etcd is reached some
time; users, failures, `Restart` and the periodic resync owe nothing, so the
properties speak of a controller that is running. Failures and changes are
bounded, so "once they have stopped" is always reached.

Deadlock. In all runs but those of the endpoint nothing may be left to do (nothing
configured, changes used up), so deadlock is not checked there; the endpoint runs
check it. That schedulers of `NSMAgent` block in one way
only, by waiting for one another in a circle (`Circular`), is what
`CreatedUnlessCircular` and `SettlesUnlessCircular` say; that such a circle is there
for good is `CircleStays`, and that it does come about is the finding of
`agent_deadlock`.

Every property of a passing run has a mutant in `PROJECT.json`: an operator marked
"Faulty variant" next to the definition it replaces, with which TLC finds the
property violated.

What the passing runs leave out:

* `put` failures leave notifications missing, so `NotificationsMatch` is checked
  without them; a failed withdrawal (`delete` in `FaultNames`) is in no run, as it
  leaves the notification of a removed endpoint for the life of the agent;
* `OnlyFailedCreateLeaks` makes an exception of the sessions that a failed `Create`
  abandons, and the code does abandon them: when the answer of `Connect` is lost
  although NSM opened the connection, `Create` destroys the client and never
  closes (`nsm_client.go:124-130`), and the errors of `Close` and `Destroy` on its
  error paths are dropped;
* `MirrorUnlessDisturbed` and `Settles` make an exception of an interface whose last
  transaction was lost or overtook an earlier one (`nsm_client.go:140`, `:162`): it
  may be missing, stale or left over until the client is configured again. In
  `client_reordered` there is no such exception;
* both assume clients with interfaces of different names, and `InterfacesMatch`
  assumes that no two endpoints can make the same name (`KeysApart`); `Validate`
  demands neither. Different prefixes are not enough: "nsm1" with index 0 and "nsm"
  with index 10 are one name (`nsm_endpoint.go:486-498`), as the comment on
  `NSMConnections` says;
* a transaction that does not wait (`WithoutBlocking`) is executed in its turn. The
  repository itself doubts that: its TODO at `nsm_client.go:142` and `:162-164` says
  that non-blocking transactions are broken in the agent, which is why the client
  blocks in goroutines, while `closeConnection` (`nsm_endpoint.go:466-468`) does use
  one. `NoStrayInterface`, `ConnectionHasInterface`, `AttachmentService`, `InterfacesMatch`,
  `InterfacesAtRest` and `ServicesImplemented` rest on it (`ReliableSends`). The
  invariants of `endpoint_lossy` and the theorem on `EndpointsImplemented` do not: there
  any transaction may be lost;
* the circle of waits excepted by `CreatedUnlessCircular` and `SettlesUnlessCircular` is
  the finding of `agent_deadlock`. They say that no other wait blocks in the model,
  with transactions that get through, not that the agents would settle if calls
  had a deadline;
* `ConnectionHasInterface` and `NoStrayInterface` assume that, where a label gives the
  suffix of the name, clients have labels of their own (`NamesApart`): with the same
  value two connections share one interface, which `Request` does not notice and
  which the `Close` of either removes (`nsm_endpoint.go:488`);
* two agents of a group in `notification_groups` serve different services: the key
  of a notification does not name the agent (`keys.go:53`), so agents that serve
  the same service share it, and the `Delete` or the lease of one removes the
  announcement of both. `AnnouncedIsCreated` is proved in that case too;
* `EndpointsImplemented`, `ServicesImplemented` and `InterfacesAtRest` assume that what the endpoints
  and the clients of one agent can call their interfaces differs (`NamesOfAgentApart`: a
  client's "nsm0" beside an endpoint with prefix "nsm" is ruled out) and that the agent has the plugin that
  configures the interfaces of its endpoints (`PluginsPresent`); neither is
  checked by `Validate`, so a MEM interface on a Linux agent, which has no VPP
  plugin, stays out of the configuration;
* the model of the controller has no other writer below `/vnf-agent/`, whose keys
  the sweep after a start would remove; an error of `initializeCRDs` is never
  retried, so nothing is claimed of a controller in that state;
* `StatusTruthful` makes an exception of a resource whose latest status was lost in an
  `Update` that failed without a conflict: its error is returned and nobody
  publishes again (`cnfconfig_handler.go:95-96`), so the status may be wrong until the
  resource changes. A message may stay next to a success, which it does not rule
  out either;
* `ConfigDelivered` assumes that no two resources write one key of the KVDB
  (`ItemsApart`). The key has no namespace (`cnfconfig_handler.go:65`), so resources
  of different namespaces may.

## Findings

1. *Dropped error of Delete* (`nsm_endpoint.go:222`): after a failed `RemoveNSE`
   the old registration is never removed, and the next `Create` adds a second.
2. *Unordered goroutines* (`nsm_client.go:140`, `:162`): the deletion of an
   interface may overtake its creation; the interface then stays.
3. *Parsing of notification keys* (`keys.go:102`): the whole key is split rather
   than what follows the prefix, so nothing is ever parsed.
4. *Waiting in a circle* (`nsm_endpoint.go:428`, `nsm_client.go:124`): `Request`
   holds the mutex in a blocking `Send` to its own scheduler, which may wait for
   the mutex in `AddEndpoint` or `DeleteEndpoint`, or in `Connect` for an agent
   that waits back. Nothing ends the wait.

## Proofs

All theorems are of the form `Spec => []Inv` (or an action property, or
`Spec => ServiceSpec`), for every value of the constants that satisfies the named
assumptions of the modules, which TLC evaluates on every run. An assumption that
not all theorems of a module need stands in the theorem; where it is a condition
on the configuration of the agents (`KeysApart`, `NamesOfAgentApart`,
`PluginsPresent`, for the demultiplexer `NamesApart`, for clients interfaces of their
own), the `MC` module has TLC confirm it for its instance. Of `InterfaceName` the
theorems assume no more than strings give (`InterfaceNameAssumption`): behind one
prefix different suffixes of one kind make different names.

**Connection table and endpoint** (`NSMConnectionsProofs`, `NSMEndpointProofs`).

* `EndpointTypeOK`, `EndpointNames`, `EndpointIndexBound`, `EndpointSingleClient`:
  `TypeOK`, `KeysDistinct`, `IndexBound` and `SingleClient` are invariants, also
  when transactions are lost. None is inductive on its own: `EndpointInv` says
  that the table has its type, that entries of an index-named endpoint have
  different indexes, all below the number of clients, and that a single-client
  endpoint has at most one entry. Its heart is `AllocatedIndex`: among `0..n` one
  index is unused by `n` connections (pigeonhole on cardinalities), so the loop of
  `allocateConnectionIndex` ends with an index that no connection has.
* `EndpointNoTakeover`: the action property, from the same invariant.
* `EndpointInterfaces`, `EndpointNoStray`: if no transaction is lost
  (`ReliableSends`) and labels tell clients apart (`NamesApart`),
  `ConnectionHasInterface` and `NoStrayInterface`. The two are made inductive
  (`EndpointMirror`) by the fact that every stored connection is one of `Requests`
  and, where the label gives the suffix, has that label.
* `EndpointImplementsService`: under the same assumptions, `Spec => ServiceSpec`.

**Demultiplexer** (`NSMEndpointDemuxProofs`, `NSMEndpointDemuxIfaceProofs`).

* `DemuxTypeOK`, `DemuxAppliedIsServed`: for any sequence of failures, lost
  answers and restarts. What is added to the types is that registrations of
  different endpoints have different names (`NamesDistinct`), as otherwise
  unregistering one would unregister another.
* `DemuxNotificationIsServed` if withdrawals do not fail (`Withdraws`),
  `DemuxNotificationsMatch` if the publisher works and the agent does not restart
  (`PublisherWorks`): the loops over the labels are covered by an invariant on what
  is announced half-way through them.
* `DemuxDeletedIsGone` if no call stops a deletion half-way (`NoHalfwayFaults`):
  registry and map agree at every step, not only at rest.
* `DemuxInterfacesMatch` if transactions get through, labels tell clients apart, no
  two services can make the same name (`KeysApart`) and deletions do not stop
  half-way: the interfaces are seen per service, by the keys it can make, the
  view of one service mirrors its table, and a step of one service leaves the
  views of the others alone.

**Agents** (`NSMAgentProofs`), for any number of agents, endpoints and clients.

* `AgentTypeOK`: `AgentInv` adds to the types that only an agent that is ready has
  transactions, that the mutex of a demultiplexer is held by a running handler of
  one of its services, that a scheduler in a call is still at the transaction that
  made it, and that only services in the map have connections.
* `AgentImplementsEndpoints`: `Spec => EndpointsImplemented`, the refinement of
  `NSMEndpoint` by every endpoint. The refinement mapping takes for the interfaces of an
  endpoint what the agent's queue will leave of them (`drained`). The argument: in a
  queue the last write of a key decides (`LastWrite`, `AfterConcat`), so executing its
  head changes no promise, and a step that appends transactions changes the
  promise as `Request`, `Close` or `CloseConnections` change the interfaces at
  once. The keys of a step belong to one endpoint (`NamesOfAgentApart`), so it is a
  step of that one and a stutter of the others. `AgentInv` gives the types of
  queues and tables on which every step of the argument rests.
  Nothing is assumed about `SendOutcomes`: transactions of the endpoints may be lost.
* `AgentInterfacesAtRest`, with `ReliableSends` and `NamesApart` in addition: the
  refinement carries `EndpointMirror` over from the single endpoint. What is
  inductive is that tables and promises agree (`EndpointMirrored`); when the queue is empty the
  promises are the interfaces.
* `AgentImplementsServices`, under the same assumptions: `Spec => ServicesImplemented`.
  With tables and promises in step the attachments are the links of the stored
  connections, so a step of `NSMEndpoint` is one of `AttachmentService`.
* `AgentCircleStays`, without an assumption: a set of schedulers each of which waits
  for one of the set (`waitsFor`: through a mutex held in a blocking `Send`, or
  through a call that is not answered) can make no step, and no step of anything
  else releases one of them, except a caller that gives up.

**Client** (`NSMClientProofs`).

* `ClientTypeOK`: whatever fails.
* `ClientOnlyFailedCreateLeaks`, whatever fails: owners of sessions are unique and
  apart from the abandoned ones, and a session not in use exists by pigeonhole.
* `ClientMirror`, if clients have interfaces of their own (`InterfacesDiffer`), for
  goroutines in any order and any loss. `MirrorUnlessDisturbed` speaks of interfaces
  about which nothing is pending; the invariant says what a queue leaves under each
  key that is not disturbed if it is executed in order, and that executing a
  transaction out of order, or losing it, keeps this for every key but its own if
  it is the last one about it.

**Controller** (`CnfCrdProofs`).

* `CrdTypeOK`: the types of resources, watch, informer and handler. It needs the
  invariant of `CrdUserDataKept`, since what may be written to the server depends
  on what the copies on their way through the controller look like.
* `CrdUserDataKept`: for any resources, failures and restarts. Every copy of a
  resource on its way through the controller (watch, store, notifications, task)
  is a true copy: older than the resource, or equal to it in its spec. An update
  with an older one is refused, one with an equal one changes the status only.

**Notifications** (`EndpointNotificationsProofs`).

* `NotificationsTypeOK`, `NotificationsAnnouncedIsCreated`: for any groups, shared
  keys included. While an endpoint is withdrawn it still counts as created, but of
  its keys only those left to delete may be in the KVDB; without that the last
  step of `Delete` could leave announcements behind.
* `NotificationsCreatedIsAnnounced`, for agents that share no key (`KeysApart`):
  the keys of a created endpoint are under the lease of the present session
  (`AnnounceInv`), so no lease that runs out takes them away, and while an
  endpoint is announced its keys are there up to the label that `Create` is at.

Only model-checked: all liveness properties (`Converges`, `Settles`,
`CreatedUnlessCircular`, `SettlesUnlessCircular`, `NotificationsSettle`,
`ConfigDelivered`, `StatusTruthful`), which are beyond the prover as they rest on fairness. The properties the findings
refute are left to TLC as well. Every safety property that a passing run checks
is stated by a theorem.

## Not modelled, and the plan

Not modelled:

* `nsmlabelsFromProto` and `generateDummySubnet`: pure conversions whose results go
  to NSM only; no state of the models depends on them;
* of the generated Kubernetes code the fake clientset, the listers and the generic
  informers, which nothing calls, and the registration of the types in the scheme;
* of the adapters the bodies of callbacks that no descriptor defines;
* probes, REST, telemetry, logging, build files and deployment descriptors;
* serialisation in `nsm.pb.go`; its types are where the models use their fields.

Next: an abstract specification of the notifications (announced from the end
of `Create` to the start of `Delete`, at the latest until the lease ends) and of the
controller (a resource and its items in the KVDB) with their refinements; action
properties of the client and of the demultiplexer.
