------------------------ MODULE EndpointNotifications ------------------------
(***************************************************************************)
(* The notifications of several agents in one KVDB                         *)
(* (plugins/nsmplugin/descriptor/nsm_endpoint.go, Create and Delete;       *)
(* plugins/nsmplugin/options.go; proto/nsm/keys.go).                       *)
(*                                                                         *)
(* An agent announces an endpoint by one key per advertised label, below   *)
(* the label of its group, which is "global" unless WithCustomized-        *)
(* Notifications is used.  The keys are put and deleted one by one; a key  *)
(* lives as long as the session that has put it last.  What happens to the *)
(* endpoint itself, and failures of Put and Delete, are in                 *)
(* NSMEndpointDemux; here endpoints are created and deleted at once.       *)
(***************************************************************************)
EXTENDS Integers, Sequences, GoMaps

CONSTANTS
  Agents,       \* the agents that use the KVDB
  GroupOf,      \* agent -> label of its group
  Offers,       \* agent -> the endpoints it may have: [service, labels]
  Labels,       \* the labels that endpoints advertise
  MaxChanges,   \* bound on the number of changes of the configuration
  MaxRestarts   \* bound on the number of restarts

Values == UNION {Offers[a] : a \in Agents}

ASSUME GroupsAssumption == DOMAIN GroupOf = Agents /\ DOMAIN Offers = Agents
ASSUME LabelsAssumption == \A v \in Values : v.labels \in Seq(Labels)
ASSUME BoundsAssumption == MaxChanges \in Nat /\ MaxRestarts \in Nat

VARIABLES
  desired,    \* the configured endpoints of each agent (external)
  created,    \* the endpoints of each agent that are created (external)
  task,       \* the Create or Delete each agent is in
  session,    \* number of the present KVDB session of each agent (external)
  store,      \* the KVDB: key -> the [agent, session] that put it (external)
  changes,    \* changes of the configuration so far
  restarts    \* restarts so far

vars == <<desired, created, task, session, store, changes, restarts>>

Idle == [op |-> "idle"]

Init ==
  /\ desired = [a \in Agents |-> {}]
  /\ created = [a \in Agents |-> {}]
  /\ task = [a \in Agents |-> Idle]
  /\ session = [a \in Agents |-> 1]
  /\ store = Empty
  /\ changes = 0
  /\ restarts = 0

\* Faulty variant: a key without the network service.
keyWithoutService(a, v, label) == <<GroupOf[a], label>>

\* Faulty variant: every agent uses the default label.
keyInDefaultGroup(a, v, label) == <<"global", v.service, label>>

\* EndpointNotificationKey, below the label that the publisher prepends.
notificationKey(a, v, label) == <<GroupOf[a], v.service, label>>

keysOf(a, v, labels) == {notificationKey(a, v, labels[i]) : i \in DOMAIN labels}

\* WithClientLifetimeTTL
lease(a) == [agent |-> a, session |-> session[a]]

-----------------------------------------------------------------------------
(* The configuration: one endpoint per service. *)

Configure(a, v) ==
  /\ changes < MaxChanges
  /\ changes' = changes + 1
  /\ \/ /\ v \in desired[a]
        /\ desired' = [desired EXCEPT ![a] = @ \ {v}]
     \/ /\ \A w \in desired[a] : w.service # v.service
        /\ desired' = [desired EXCEPT ![a] = @ \cup {v}]
  /\ UNCHANGED <<created, task, session, store, restarts>>

-----------------------------------------------------------------------------
(* Create and Delete of the endpoint descriptor. *)

begin(a, op, v) ==
  task' = [task EXCEPT ![a] = [op |-> op, value |-> v, left |-> v.labels]]

\* A service is configured anew after its old endpoint is deleted.
Create(a, v) ==
  /\ task[a] = Idle
  /\ v \in desired[a] /\ \A w \in created[a] : w.service # v.service
  /\ begin(a, "publish", v)
  /\ UNCHANGED <<desired, created, session, store, changes, restarts>>

Delete(a, v) ==
  /\ task[a] = Idle
  /\ v \in created[a] \ desired[a]
  /\ begin(a, "withdraw", v)
  /\ UNCHANGED <<desired, created, session, store, changes, restarts>>

isAt(a, op) == task[a].op = op /\ task[a].left # << >>

goOn(a) == task' = [task EXCEPT ![a].left = Tail(@)]

\* Put
Publish(a) ==
  /\ isAt(a, "publish")
  /\ store' = Put(store, notificationKey(a, task[a].value, Head(task[a].left)), lease(a))
  /\ goOn(a)
  /\ UNCHANGED <<desired, created, session, changes, restarts>>

\* Faulty variant: the key is only left to expire.
notDeleted(db, key) == db

deleted(db, key) == RemoveKeys(db, {key})

Withdraw(a) ==
  /\ isAt(a, "withdraw")
  /\ store' = deleted(store, notificationKey(a, task[a].value, Head(task[a].left)))
  /\ goOn(a)
  /\ UNCHANGED <<desired, created, session, changes, restarts>>

\* Create or Delete returns.
Return(a) ==
  /\ task[a] # Idle /\ task[a].left = << >>
  /\ created' = [created EXCEPT ![a] =
       IF task[a].op = "publish" THEN @ \cup {task[a].value} ELSE @ \ {task[a].value}]
  /\ task' = [task EXCEPT ![a] = Idle]
  /\ UNCHANGED <<desired, session, store, changes, restarts>>

-----------------------------------------------------------------------------
(* The agent ends and starts again; nothing counts as created then.  The   *)
(* KVDB drops what a session that is over has put.                         *)

\* Faulty variant: the session is taken up again.
sameSession(a) == session[a]

nextSession(a) == session[a] + 1

Restart(a) ==
  /\ restarts < MaxRestarts
  /\ restarts' = restarts + 1
  /\ session' = [session EXCEPT ![a] = nextSession(a)]
  /\ created' = [created EXCEPT ![a] = {}]
  /\ task' = [task EXCEPT ![a] = Idle]
  /\ UNCHANGED <<desired, store, changes>>

isOver(l) == l.session # session[l.agent]

LeaseExpires(a) ==
  LET dropped == {k \in DOMAIN store : store[k].agent = a /\ isOver(store[k])}
  IN  /\ dropped # {}
      /\ store' = RemoveKeys(store, dropped)
      /\ UNCHANGED <<desired, created, task, session, changes, restarts>>

-----------------------------------------------------------------------------
Agent(a) ==
  \/ \E v \in Offers[a] : Create(a, v) \/ Delete(a, v)
  \/ Publish(a)
  \/ Withdraw(a)
  \/ Return(a)

Next ==
  \E a \in Agents :
    \/ Agent(a)
    \/ \E v \in Offers[a] : Configure(a, v)
    \/ Restart(a)
    \/ LeaseExpires(a)

\* Every scheduler keeps running and every lease runs out.
Spec == Init /\ [][Next]_vars /\ \A a \in Agents : WF_vars(Agent(a)) /\ WF_vars(LeaseExpires(a))

-----------------------------------------------------------------------------
(* Properties. *)

\* Type invariant; an agent writes below the label of its group only.
TypeOK ==
  /\ desired \in [Agents -> SUBSET Values] /\ created \in [Agents -> SUBSET Values]
  /\ \A a \in Agents :
       \/ task[a] = Idle
       \/ task[a].op \in {"publish", "withdraw"} /\ task[a].value \in Offers[a]
  /\ \A k \in DOMAIN store : /\ store[k].agent \in Agents
                             /\ store[k].session \in 1..session[store[k].agent]
                             /\ k[1] = GroupOf[store[k].agent]
  /\ changes \in 0..MaxChanges /\ restarts \in 0..MaxRestarts

\* Whatever agents share keys and whenever they restart: what a living session
\* announces belongs to an endpoint of its agent that is created or about to be,
\* or that is being withdrawn (Create, Delete).
AnnouncedIsCreated ==
  \A k \in DOMAIN store :
    LET a == store[k].agent
    IN  \/ isOver(store[k])
        \/ \E v \in created[a] : k \in keysOf(a, v, v.labels)
        \/ task[a].op = "publish" /\ k \in keysOf(a, task[a].value, task[a].value.labels)

\* Agents of one group serve different services.  Nothing in the code demands
\* it, and the property below needs it.
KeysApart ==
  \A a, b \in Agents : \A v \in Offers[a], w \in Offers[b] :
    GroupOf[a] = GroupOf[b] /\ v.service = w.service => a = b

\* An endpoint that is created, and not being deleted, is announced under all
\* of its labels (Create: "publish notification about the newly registered
\* endpoint"), whatever other agents publish, withdraw or let expire.
CreatedIsAnnounced ==
  \A a \in Agents : \A v \in created[a] :
    \/ task[a].op = "withdraw" /\ task[a].value = v
    \/ keysOf(a, v, v.labels) \subseteq DOMAIN store

\* Once changes and restarts have stopped, the KVDB announces exactly the
\* configured endpoints: what was put before a crash expires, also when its
\* endpoint was deconfigured just before, and what is announced anew does not
\* expire with the old session.
NotificationsSettle ==
  <>[](DOMAIN store = UNION {UNION {keysOf(a, v, v.labels) : v \in desired[a]} : a \in Agents})
=============================================================================
