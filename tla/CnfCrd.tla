------------------------------- MODULE CnfCrd -------------------------------
(***************************************************************************)
(* The CRD controller (cmd/cnf-crd, plugins/crdplugin): it reflects        *)
(* CNFConfiguration resources into the KVDB from which the CNFs read their *)
(* configuration, and reports the outcome in the status of the resource.   *)
(*                                                                         *)
(* The threads: users change resources; the informer lists and watches     *)
(* them into its cache; the reflector of Contiv/VPP (external) takes the   *)
(* notifications one by one, converts the object with CrdObjectToKVData,   *)
(* writes the KVDB and calls PublishCrdStatus with the object it was       *)
(* notified about, which may be out of date by then.  "task" is the object *)
(* between the two steps.  The reflector remembers which keys it wrote for *)
(* an object, and after its start removes what nobody asks for any more.   *)
(***************************************************************************)
EXTENDS CNFConfigurations

CONSTANTS
  Faults,       \* the calls that may fail
  MaxFaults     \* bound on the number of failures, stops of the process included

FaultNames == {"kubeconfig", "crdClient", "apiClient", "crdInit", "put", "publish", "watch",
               "close"}

ASSUME FaultsAssumption == Faults \subseteq FaultNames /\ MaxFaults \in Nat

VARIABLES
  phase,       \* life of the plugin
  cache,       \* store of the informer: key -> object
  events,      \* notifications the reflector has not taken yet
  task,        \* the object being reflected and the result so far
  reflected,   \* keys written for an object since the start
  swept,       \* has the reflector removed what is obsolete since the start?
  unpublished, \* resources whose latest status did not reach the server (history)
  kvdb,        \* the KVDB: key -> value
  faults       \* failures so far

memory == <<cache, events, task, reflected, swept>>
vars == <<resources, users, phase, memory, unpublished, kvdb, faults>>

NoTask == [key |-> << >>]

\* main and NewPlugin: nothing has been contacted yet.
Init ==
  /\ InitServer
  /\ phase = "new"
  /\ cache = Empty
  /\ events = << >>
  /\ task = NoTask
  /\ reflected = Empty
  /\ swept = FALSE
  /\ unpublished = {}
  /\ kvdb = Empty
  /\ faults = 0

Fail(F) ==
  /\ F \cap Faults # {}
  /\ faults < MaxFaults
  /\ faults' = faults + 1

-----------------------------------------------------------------------------
(* The life of the plugin. *)

\* Init: the clients are made, nothing is sent to the server yet.
PluginInit ==
  /\ phase = "new"
  /\ phase' = "waiting"
  /\ UNCHANGED <<resources, users, memory, unpublished, kvdb, faults>>

\* A client cannot be made: the agent does not start.
PluginInitFails ==
  /\ phase = "new"
  /\ Fail({"kubeconfig", "crdClient", "apiClient"})
  /\ phase' = "closed"
  /\ UNCHANGED <<resources, users, memory, unpublished, kvdb>>

\* The connection with etcd is made; initializeCRDs, then the controller runs.
onEtcdConnect ==
  /\ phase = "waiting"
  /\ phase' = "running"
  /\ UNCHANGED <<resources, users, memory, unpublished, kvdb, faults>>

\* The error of initializeCRDs is returned to the etcd plugin; nobody retries.
onEtcdConnectFails ==
  /\ phase = "waiting"
  /\ Fail({"crdInit"})
  /\ phase' = "idle"
  /\ UNCHANGED <<resources, users, memory, unpublished, kvdb>>

\* Close cancels the context of the controller; the process ends.
Close ==
  /\ phase \in {"waiting", "idle", "running"}
  /\ Fail({"close"})
  /\ phase' = "closed"
  /\ WatchEnds
  /\ cache' = Empty
  /\ events' = << >>
  /\ task' = NoTask
  /\ reflected' = Empty
  /\ swept' = FALSE
  /\ UNCHANGED <<server, version, users, unpublished, kvdb>>

\* Kubernetes starts the container of the controller again.
Restart ==
  /\ phase = "closed"
  /\ phase' = "new"
  /\ UNCHANGED <<resources, users, memory, unpublished, kvdb, faults>>

-----------------------------------------------------------------------------
(* The informer. *)

\* Faulty variant: the factory is limited to one namespace.
oneNamespace == {CHOOSE ns \in Namespaces : TRUE}

\* NewSharedInformerFactory without options: NamespaceAll.
watchedNamespaces == Namespaces

\* The notifications about the keys in S, in some order.
inSomeOrder(S, objs) ==
  {[i \in DOMAIN o |-> [key |-> o[i], obj |-> IF o[i] \in DOMAIN objs THEN objs[o[i]] ELSE Gone]] :
     o \in {p \in [1..Cardinality(S) -> S] : \A k \in S : \E i \in DOMAIN p : p[i] = k}}

\* ListFunc, then WatchFunc.  After a broken watch the changes in between are
\* found by comparing the list with the store.
ListAndWatch ==
  /\ phase = "running" /\ ~watching
  /\ LET listed == List(watchedNamespaces)
     IN  /\ cache' = listed
         /\ \E ns \in inSomeOrder(DOMAIN listed \cup DOMAIN cache, listed) :
              events' = events \o ns
  /\ Watch
  /\ UNCHANGED <<server, version, users, phase, task, reflected, swept, unpublished, kvdb, faults>>

isWatched(change) == change.key[1] \in watchedNamespaces

\* The next change arrives over the watch.
Deliver ==
  /\ phase = "running" /\ stream # << >>
  /\ LET change == Head(stream)
     IN  IF isWatched(change)
           THEN /\ cache' = IF change.obj = Gone THEN RemoveKeys(cache, {change.key})
                                                 ELSE Put(cache, change.key, change.obj)
                /\ events' = Append(events, change)
           ELSE UNCHANGED <<cache, events>>
  /\ stream' = Tail(stream)
  /\ UNCHANGED <<server, version, watching, users, phase, task, reflected, swept, unpublished,
                 kvdb, faults>>

WatchBreaks ==
  /\ watching
  /\ Fail({"watch"})
  /\ WatchEnds
  /\ UNCHANGED <<server, version, users, phase, memory, unpublished, kvdb>>

\* Every k8sResyncInterval all objects of the store are notified again.  The
\* interval is minutes long, so the earlier notifications are dealt with.
InformerResync ==
  /\ phase = "running" /\ watching
  /\ events = << >> /\ task = NoTask /\ DOMAIN cache # {}
  /\ \E ns \in inSomeOrder(DOMAIN cache, cache) : events' = ns
  /\ UNCHANGED <<resources, users, phase, cache, task, reflected, swept, unpublished, kvdb,
                 faults>>

-----------------------------------------------------------------------------
(* The handler of the reflector. *)

CrdKeyPrefix == "vnf-agent"

\* The prefix is not shared with other CRDs.
IsCrdKeySuffix(key) == TRUE

IsExclusiveKVDB == TRUE

\* The conversion of CustomConfiguration (external): an item without a label of
\* its own goes to the microservice of the spec, and one bad item fails it all.
label(spec, item) == IF item.microservice = "" THEN spec.microservice ELSE item.microservice

kvData(spec) == {[key |-> <<CrdKeyPrefix, label(spec, i), i.name>>, value |-> i.value] : i \in spec.items}

badItems(spec) == {i \in spec.items : i.value = "garbled"}

\* The error, "" if there is none; it names what cannot be converted.
conversionError(spec) ==
  IF badItems(spec) = {} THEN "" ELSE (CHOOSE i \in badItems(spec) : TRUE).name

CrdObjectToKVData(obj) == [data |-> kvData(obj.spec), err |-> conversionError(obj.spec)]

\* Faulty variant: a copy without metadata.
copyWithoutMeta(obj) == [obj EXCEPT !.rv = 0]

DeepCopy(obj) == [rv |-> obj.rv, spec |-> obj.spec, status |-> obj.status, message |-> obj.message]

\* Faulty variant: a failure is reported without its message.
withoutMessage(k, obj, err) ==
  [DeepCopy(obj) EXCEPT !.status = IF err = "" THEN StatusSuccess ELSE StatusFailure]

\* Faulty variant: the latest version is fetched to get the update through.
withLatestVersion(k, obj, err) ==
  [DeepCopy(obj) EXCEPT !.rv = IF k \in DOMAIN server THEN server[k].rv ELSE 0,
                        !.status = IF err = "" THEN StatusSuccess ELSE StatusFailure,
                        !.message = IF err = "" THEN @ ELSE err]

\* The message of an earlier failure stays next to a success.
withStatus(k, obj, err) ==
  [DeepCopy(obj) EXCEPT !.status = IF err = "" THEN StatusSuccess ELSE StatusFailure,
                        !.message = IF err = "" THEN @ ELSE err]

\* Update with the copy reaches the server; its error goes back to the
\* reflector and a conflict is left to the notification that is still to come.
sendStatus ==
  /\ PutObject(task.key, withStatus(task.key, task.obj, task.err))
  /\ unpublished' = unpublished \ {task.key}

PublishCrdStatus ==
  /\ task # NoTask
  /\ sendStatus
  /\ task' = NoTask
  /\ UNCHANGED <<users, phase, cache, events, reflected, swept, kvdb, faults>>

\* Update fails otherwise, or only its answer is lost: the error is returned
\* and nobody publishes the status again.
PublishFails ==
  /\ task # NoTask
  /\ Fail({"publish"})
  /\ \/ sendStatus
     \/ unpublished' = unpublished \cup {task.key} /\ UNCHANGED resources
  /\ task' = NoTask
  /\ UNCHANGED <<users, phase, cache, events, reflected, swept, kvdb>>

-----------------------------------------------------------------------------
(* The reflector (external). *)

writtenFor(k) == IF k \in DOMAIN reflected THEN reflected[k] ELSE {}

put(db, data) ==
  [x \in DOMAIN db \cup {d.key : d \in data} |->
     IF \E d \in data : d.key = x THEN (CHOOSE d \in data : d.key = x).value ELSE db[x]]

ReflectDeleted ==
  /\ events # << >> /\ task = NoTask
  /\ Head(events).obj = Gone
  /\ LET k == Head(events).key
     IN  /\ kvdb' = RemoveKeys(kvdb, writtenFor(k))
         /\ reflected' = RemoveKeys(reflected, {k})
  /\ events' = Tail(events)
  /\ UNCHANGED <<resources, users, phase, cache, task, swept, unpublished, faults>>

\* The keys of the object that are no longer asked for are removed.
Reflect ==
  /\ events # << >> /\ task = NoTask
  /\ Head(events).obj # Gone
  /\ LET k == Head(events).key
         r == CrdObjectToKVData(Head(events).obj)
         keys == {d.key : d \in r.data}
     IN  /\ task' = [key |-> k, obj |-> Head(events).obj, err |-> r.err]
         /\ IF r.err = ""
              THEN /\ kvdb' = put(RemoveKeys(kvdb, writtenFor(k) \ keys), r.data)
                   /\ reflected' = Put(reflected, k, keys)
              ELSE UNCHANGED <<kvdb, reflected>>
  /\ events' = Tail(events)
  /\ UNCHANGED <<resources, users, phase, cache, swept, unpublished, faults>>

\* A write fails after some were made: the failure is published and the
\* notification is taken again.
ReflectFails ==
  /\ events # << >> /\ task = NoTask
  /\ Head(events).obj # Gone
  /\ LET k == Head(events).key
         r == CrdObjectToKVData(Head(events).obj)
     IN  /\ r.err = ""
         /\ task' = [key |-> k, obj |-> Head(events).obj, err |-> "put"]
         /\ \E done \in SUBSET r.data :
              /\ done # r.data
              /\ kvdb' = put(kvdb, done)
              /\ reflected' = Put(reflected, k, writtenFor(k) \cup {d.key : d \in done})
  /\ Fail({"put"})
  /\ UNCHANGED <<resources, users, phase, cache, events, swept, unpublished>>

\* The keys that objects of the store ask for.
wanted ==
  UNION {{d.key : d \in kvData(cache[k].spec)} :
           k \in {x \in DOMAIN cache : conversionError(cache[x].spec) = ""}}

\* Once after the start, when the store is filled: an exclusive KVDB is cleared
\* of what nobody asks for.
Sweep ==
  /\ phase = "running" /\ watching /\ ~swept
  /\ LET obsolete == {x \in DOMAIN kvdb : x[1] = CrdKeyPrefix /\ IsCrdKeySuffix(x) /\ x \notin wanted}
     IN  kvdb' = IF IsExclusiveKVDB THEN RemoveKeys(kvdb, obsolete) ELSE kvdb
  /\ swept' = TRUE
  /\ UNCHANGED <<resources, users, phase, cache, events, task, reflected, unpublished, faults>>

-----------------------------------------------------------------------------
Users == UserNext /\ UNCHANGED <<phase, memory, unpublished, kvdb, faults>>

Controller ==
  \/ PluginInit
  \/ onEtcdConnect
  \/ ListAndWatch
  \/ Deliver
  \/ ReflectDeleted
  \/ Reflect
  \/ PublishCrdStatus
  \/ Sweep

Next ==
  \/ Controller
  \/ Users
  \/ InformerResync
  \/ PluginInitFails \/ onEtcdConnectFails \/ Close \/ Restart
  \/ WatchBreaks \/ ReflectFails \/ PublishFails

\* The threads of the controller keep running; etcd is reached some time.
Fairness ==
  /\ WF_vars(PluginInit \/ onEtcdConnect)
  /\ WF_vars(ListAndWatch \/ Deliver)
  /\ WF_vars(ReflectDeleted \/ Reflect \/ PublishCrdStatus)
  /\ WF_vars(Sweep)

Spec == Init /\ [][Next]_vars /\ Fairness

-----------------------------------------------------------------------------
(* Properties. *)

\* Type invariant of the resources, the store of the informer and the reflector;
\* a failure is never reported without a message (PublishCrdStatus).
TypeOK ==
  /\ DOMAIN server \subseteq Keys /\ DOMAIN intent \subseteq Keys
  /\ \A k \in DOMAIN server :
       /\ server[k].rv \in 1..version
       /\ server[k].status \in {"", StatusSuccess, StatusFailure}
       /\ server[k].status = StatusFailure => server[k].message # ""
  /\ watching \in BOOLEAN /\ (stream # << >> => watching)
  /\ phase \in {"new", "waiting", "idle", "running", "closed"}
  /\ DOMAIN cache \subseteq Keys /\ DOMAIN reflected \subseteq Keys
  /\ task = NoTask \/ task.key \in Keys
  /\ swept \in BOOLEAN /\ unpublished \subseteq Keys
  /\ \A x \in DOMAIN kvdb : x[1] = CrdKeyPrefix
  /\ writes \in 0..MaxWrites /\ faults \in 0..MaxFaults

\* Publishing a status never undoes what a user did to the resource in the
\* meantime: no spec is overwritten with an older one, and no deleted resource
\* comes back (PublishCrdStatus sends the whole object, spec included).
UserDataKept ==
  /\ DOMAIN server = DOMAIN intent
  /\ \A k \in DOMAIN server : server[k].spec = intent[k]

\* The key in the KVDB has the microservice and the item but not the namespace:
\* no two resources ask for the same key.
ItemsApart ==
  \A k, l \in Keys :
    k # l => \A s \in SpecsOf[k], t \in SpecsOf[l] :
               {d.key : d \in kvData(s)} \cap {d.key : d \in kvData(t)} = {}

good(k) == conversionError(server[k].spec) = ""

\* Once users and failures have stopped, a running controller has the KVDB in
\* line with the resources of all namespaces: every item of a resource that can
\* be converted is there under the label of its microservice and, if all can,
\* nothing else is, whatever was changed or deleted while the controller was
\* down or its watch broken, provided no two resources share a key (ItemsApart).
ConfigDelivered ==
  <>[](phase = "running" =>
         LET data == UNION {kvData(server[k].spec) : k \in {x \in DOMAIN server : good(x)}}
         IN  /\ \A d \in data : d.key \in DOMAIN kvdb /\ kvdb[d.key] = d.value
             /\ (\A k \in DOMAIN server : good(k)) => DOMAIN kvdb = {d.key : d \in data})

\* Under the same conditions the status of every resource tells the truth about
\* its present spec, and a failure carries the message of that failure
\* (PublishCrdStatus), although statuses are computed from copies that may be
\* out of date and an update with an old version is refused.  Excepted is a
\* resource whose latest status did not reach the server: PublishCrdStatus
\* returns the error and the status stays wrong until the next notification.
\* The message left next to a success is not looked at.
StatusTruthful ==
  <>[](phase = "running" =>
         \A k \in DOMAIN server \ unpublished :
           IF good(k) THEN server[k].status = StatusSuccess
                      ELSE /\ server[k].status = StatusFailure
                           /\ server[k].message = conversionError(server[k].spec))
=============================================================================
