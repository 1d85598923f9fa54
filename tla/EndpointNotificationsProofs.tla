--------------------- MODULE EndpointNotificationsProofs ---------------------
(***************************************************************************)
(* Proof that what a living session announces is true, for any agents,     *)
(* any groups (shared keys included), any endpoints and any number of      *)
(* changes and restarts; and that, if no two agents share a key, what is   *)
(* created is announced.                                                   *)
(*                                                                         *)
(* AnnouncedIsCreated is not inductive: while an endpoint is withdrawn it  *)
(* counts as created, but only the keys that are left to delete may still  *)
(* be in the KVDB, or the last step of Delete would leave some behind.     *)
(* CreatedIsAnnounced is not inductive either: the keys have to be under   *)
(* the lease of the present session, or they could expire, and those of an *)
(* endpoint that is being announced are there up to the label it is at.    *)
(***************************************************************************)
EXTENDS EndpointNotifications, SequenceTheorems, TLAPS

-----------------------------------------------------------------------------
Tasks(a) ==
  {Idle} \cup {t \in [op : {"publish", "withdraw"}, value : Offers[a], left : Seq(Labels)] :
                 \A i \in DOMAIN t.left : \E j \in DOMAIN t.value.labels :
                   t.left[i] = t.value.labels[j]}

\* Types, with the sessions and the tasks; the labels left to a task are labels
\* of its endpoint.
NotifTypes ==
  /\ TypeOK
  /\ session \in [Agents -> Nat \ {0}]
  /\ DOMAIN task = Agents /\ \A a \in Agents : task[a] \in Tasks(a)
  /\ changes \in Nat /\ restarts \in Nat

\* An endpoint that justifies the announcement of "k" by "a".
Justified(a, k, cr, t) ==
  \/ \E v \in cr : k \in keysOf(a, v, v.labels) /\ ~(t.op = "withdraw" /\ t.value = v)
  \/ t.op = "withdraw" /\ t.value \in cr /\ k \in keysOf(a, t.value, t.left)
  \/ t.op = "publish" /\ k \in keysOf(a, t.value, t.value.labels)

AllJustified ==
  \A k \in DOMAIN store :
    LET a == store[k].agent IN isOver(store[k]) \/ Justified(a, k, created[a], task[a])

NotifInv == NotifTypes /\ AllJustified

-----------------------------------------------------------------------------
(* Labels and tasks. *)

LEMMA OfferLabels ==
  ASSUME NEW a \in Agents, NEW v \in Offers[a]
  PROVE  v \in Values /\ v.labels \in Seq(Labels)
  BY LabelsAssumption, GroupsAssumption DEF Values

LEMMA BegunTask ==
  ASSUME NEW a \in Agents, NEW v \in Offers[a], NEW op \in {"publish", "withdraw"}
  PROVE  [op |-> op, value |-> v, left |-> v.labels] \in Tasks(a)
  BY OfferLabels DEF Tasks

LEMMA TaskTail ==
  ASSUME NEW a \in Agents, NEW t \in Tasks(a), t # Idle, t.left # << >>
  PROVE  /\ [t EXCEPT !.left = Tail(@)] \in Tasks(a)
         /\ \E j \in DOMAIN t.value.labels : Head(t.left) = t.value.labels[j]
         /\ \A i \in DOMAIN t.left : t.left[i] = Head(t.left)
              \/ \E j \in DOMAIN Tail(t.left) : t.left[i] = Tail(t.left)[j]
<1>1. /\ t.left \in Seq(Labels) /\ Len(t.left) \in Nat /\ Len(t.left) # 0
      /\ t \in [op : {"publish", "withdraw"}, value : Offers[a], left : Seq(Labels)]
  BY EmptySeq DEF Tasks
<1>2. /\ Tail(t.left) \in Seq(Labels) /\ Len(Tail(t.left)) = Len(t.left) - 1
      /\ \A i \in 1..Len(t.left) - 1 : Tail(t.left)[i] = t.left[i + 1]
      /\ Head(t.left) = t.left[1]
  BY <1>1
<1>3. DOMAIN t.left = 1..Len(t.left) /\ DOMAIN Tail(t.left) = 1..Len(t.left) - 1
  BY <1>1, <1>2
<1>4. \A i \in DOMAIN Tail(t.left) : i + 1 \in DOMAIN t.left /\ Tail(t.left)[i] = t.left[i + 1]
  BY <1>2, <1>3, <1>1
<1>5. \A i \in DOMAIN t.left : \E j \in DOMAIN t.value.labels : t.left[i] = t.value.labels[j]
  BY DEF Tasks
<1>6. [t EXCEPT !.left = Tail(@)] \in Tasks(a)
  <2> DEFINE u == [t EXCEPT !.left = Tail(@)]
  <2>1. u \in [op : {"publish", "withdraw"}, value : Offers[a], left : Seq(Labels)]
        /\ u.left = Tail(t.left) /\ u.value = t.value
    BY <1>1, <1>2
  <2> HIDE DEF u
  <2>2. \A i \in DOMAIN u.left : \E j \in DOMAIN u.value.labels : u.left[i] = u.value.labels[j]
    BY <2>1, <1>4, <1>5
  <2>3. u \in Tasks(a)
    BY <2>1, <2>2 DEF Tasks
  <2> QED
    BY <2>3 DEF u
<1>7. \E j \in DOMAIN t.value.labels : Head(t.left) = t.value.labels[j]
  BY <1>1, <1>2, <1>3, <1>5
<1>8. \A i \in DOMAIN t.left : t.left[i] = Head(t.left)
        \/ \E j \in DOMAIN Tail(t.left) : t.left[i] = Tail(t.left)[j]
  <2> TAKE i \in DOMAIN t.left
  <2>1. i = 1 \/ (i - 1 \in DOMAIN Tail(t.left) /\ Tail(t.left)[i - 1] = t.left[i])
    BY <1>1, <1>2, <1>3
  <2> QED
    BY <2>1, <1>2
<1> QED
  BY <1>6, <1>7, <1>8

LEMMA KeyOfGroup ==
  ASSUME NEW a, NEW v, NEW label
  PROVE  notificationKey(a, v, label)[1] = GroupOf[a]
  BY DEF notificationKey

-----------------------------------------------------------------------------
LEMMA NotifInit == Init => NotifInv
  BY BoundsAssumption DEF Init, NotifInv, NotifTypes, TypeOK, AllJustified, Empty, Tasks, Idle

\* What every step that leaves the KVDB and the sessions alone has to show.
LEMMA SameStore ==
  ASSUME NotifInv, UNCHANGED <<session, store>>, NEW a \in Agents,
         \A b \in Agents \ {a} : created'[b] = created[b] /\ task'[b] = task[b],
         \A k : Justified(a, k, created[a], task[a]) => Justified(a, k, created'[a], task'[a])
  PROVE  AllJustified'
<1> SUFFICES ASSUME NEW k \in DOMAIN store, ~isOver(store[k])
             PROVE  Justified(store[k].agent, k, created'[store[k].agent], task'[store[k].agent])
  BY DEF AllJustified, isOver, Justified, keysOf, notificationKey
<1>1. store[k].agent \in Agents
  BY DEF NotifInv, NotifTypes, TypeOK
<1>2. Justified(store[k].agent, k, created[store[k].agent], task[store[k].agent])
  BY DEF NotifInv, AllJustified
<1> QED
  BY <1>1, <1>2

\* The task of one agent changes to another task of its own, and nothing else
\* changes but, perhaps, what is created.
LEMMA TaskTypes ==
  ASSUME NotifInv, UNCHANGED <<desired, session, store, changes, restarts>>,
         NEW a \in Agents, NEW t \in Tasks(a), task' = [task EXCEPT ![a] = t],
         created' \in [Agents -> SUBSET Values]
  PROVE  NotifTypes'
<1>1. DOMAIN task' = Agents /\ \A b \in Agents : task'[b] \in Tasks(b)
  BY DEF NotifInv, NotifTypes
<1>2. \A b \in Agents : task'[b] = Idle
        \/ (task'[b].op \in {"publish", "withdraw"} /\ task'[b].value \in Offers[b])
  BY <1>1 DEF Tasks
<1> QED
  BY <1>1, <1>2 DEF NotifInv, NotifTypes, TypeOK

\* The first of the labels is dealt with.
LEMMA GoneOn ==
  ASSUME NotifInv, NEW a \in Agents, NEW op, isAt(a, op), goOn(a), op \in {"publish", "withdraw"}
  PROVE  \E t \in Tasks(a) :
           /\ task' = [task EXCEPT ![a] = t]
           /\ t = [task[a] EXCEPT !.left = Tail(@)]
           /\ task[a].op = op /\ t.op = op /\ t.value = task[a].value /\ t.left = Tail(task[a].left)
<1>1. task[a] \in Tasks(a) /\ task[a] # Idle /\ task[a].left # << >>
  BY DEF NotifInv, NotifTypes, isAt, Idle
<1>2. task[a] \in [op : {"publish", "withdraw"}, value : Offers[a], left : Seq(Labels)]
  BY <1>1 DEF Tasks
<1> DEFINE t == [task[a] EXCEPT !.left = Tail(@)]
<1>3. t \in Tasks(a)
  BY <1>1, TaskTail
<1>4. t.op = op /\ task[a].op = op /\ t.value = task[a].value /\ t.left = Tail(task[a].left)
  BY <1>2 DEF isAt
<1>5. task' = [task EXCEPT ![a] = t]
  BY DEF goOn
<1> WITNESS t \in Tasks(a)
<1> QED
  BY <1>4, <1>5

-----------------------------------------------------------------------------
LEMMA ConfigureStep ==
  ASSUME NotifInv, NEW a \in Agents, NEW v \in Offers[a], Configure(a, v)
  PROVE  NotifInv'
<1>1. v \in Values
  BY OfferLabels
<1>2. NotifTypes'
  BY <1>1, BoundsAssumption DEF NotifInv, NotifTypes, TypeOK, Configure
<1>3. AllJustified'
  BY SameStore DEF Configure
<1> QED
  BY <1>2, <1>3 DEF NotifInv

LEMMA CreateStep ==
  ASSUME NotifInv, NEW a \in Agents, NEW v \in Offers[a], Create(a, v)
  PROVE  NotifInv'
<1> DEFINE t == [op |-> "publish", value |-> v, left |-> v.labels]
<1>1. t \in Tasks(a) /\ task' = [task EXCEPT ![a] = t] /\ task[a] = Idle
      /\ UNCHANGED <<desired, created, session, store, changes, restarts>>
  BY BegunTask DEF Create, begin
<1>2. NotifTypes'
  BY <1>1, TaskTypes DEF NotifInv, NotifTypes, TypeOK
<1>3. \A k : Justified(a, k, created[a], task[a]) => Justified(a, k, created'[a], task'[a])
  BY <1>1 DEF Justified, Idle, NotifInv, NotifTypes
<1>4. AllJustified'
  BY <1>1, <1>3, SameStore DEF NotifInv, NotifTypes
<1> QED
  BY <1>2, <1>4 DEF NotifInv

LEMMA DeleteStep ==
  ASSUME NotifInv, NEW a \in Agents, NEW v \in Offers[a], Delete(a, v)
  PROVE  NotifInv'
<1> DEFINE t == [op |-> "withdraw", value |-> v, left |-> v.labels]
<1>1. t \in Tasks(a) /\ task' = [task EXCEPT ![a] = t] /\ task[a] = Idle
      /\ UNCHANGED <<desired, created, session, store, changes, restarts>>
  BY BegunTask DEF Delete, begin
<1>2. NotifTypes'
  BY <1>1, TaskTypes DEF NotifInv, NotifTypes, TypeOK
<1>3. \A k : Justified(a, k, created[a], task[a]) => Justified(a, k, created'[a], task'[a])
  BY <1>1 DEF Justified, Idle, NotifInv, NotifTypes
<1>4. AllJustified'
  BY <1>1, <1>3, SameStore DEF NotifInv, NotifTypes
<1> QED
  BY <1>2, <1>4 DEF NotifInv

LEMMA PublishStep ==
  ASSUME NotifInv, NEW a \in Agents, Publish(a)
  PROVE  NotifInv'
<1> DEFINE label == Head(task[a].left)
           key == notificationKey(a, task[a].value, label)
<1>1. PICK t \in Tasks(a) :
           /\ task' = [task EXCEPT ![a] = t]
           /\ task[a].op = "publish" /\ t.op = "publish" /\ t.value = task[a].value
  BY GoneOn DEF Publish
<1>2. store' = Put(store, key, lease(a)) /\ UNCHANGED <<desired, created, session, changes, restarts>>
  BY DEF Publish
<1>3. DOMAIN store' = DOMAIN store \cup {key} /\ store'[key] = lease(a)
      /\ \A k \in DOMAIN store : k # key => store'[k] = store[k]
  BY <1>2 DEF Put
<1>4. key \in keysOf(a, task[a].value, task[a].value.labels)
  <2>1. task[a] \in Tasks(a) /\ task[a] # Idle /\ task[a].left # << >>
    BY DEF NotifInv, NotifTypes, Publish, isAt, Idle
  <2>2. \E j \in DOMAIN task[a].value.labels : label = task[a].value.labels[j]
    BY <2>1, TaskTail
  <2> QED
    BY <2>2 DEF keysOf
<1>5. task'[a] = t /\ \A b \in Agents : b # a => task'[b] = task[b]
  BY <1>1 DEF NotifInv, NotifTypes
<1>6. NotifTypes'
  <2>1. DOMAIN task' = Agents /\ \A b \in Agents : task'[b] \in Tasks(b)
    BY <1>1, <1>5 DEF NotifInv, NotifTypes
  <2>2. \A b \in Agents : task'[b] = Idle
          \/ (task'[b].op \in {"publish", "withdraw"} /\ task'[b].value \in Offers[b])
    BY <2>1 DEF Tasks
  <2>3. key[1] = GroupOf[a]
    BY KeyOfGroup
  <2>4. lease(a).agent = a /\ lease(a).session = session[a] /\ session[a] \in Nat \ {0}
    BY DEF lease, NotifInv, NotifTypes
  <2>5. \A k \in DOMAIN store' : /\ store'[k].agent \in Agents
                                 /\ store'[k].session \in 1..session'[store'[k].agent]
                                 /\ k[1] = GroupOf[store'[k].agent]
    <3> TAKE k \in DOMAIN store'
    <3>1. CASE k = key
      BY <3>1, <1>2, <1>3, <2>3, <2>4
    <3>2. CASE k # key
      BY <3>2, <1>2, <1>3 DEF NotifInv, NotifTypes, TypeOK
    <3> QED
      BY <3>1, <3>2
  <2> QED
    BY <1>2, <2>1, <2>2, <2>5 DEF NotifInv, NotifTypes, TypeOK
<1>7. AllJustified'
  <2> SUFFICES ASSUME NEW k \in DOMAIN store', store'[k].session = session'[store'[k].agent]
               PROVE  Justified(store'[k].agent, k, created'[store'[k].agent], task'[store'[k].agent])
    BY DEF AllJustified, isOver, Justified, keysOf, notificationKey
  <2>1. CASE k = key
    BY <2>1, <1>1, <1>3, <1>4, <1>5 DEF Justified, lease
  <2>2. CASE k # key
    <3> DEFINE b == store[k].agent
    <3>1. k \in DOMAIN store /\ store'[k] = store[k] /\ b \in Agents
      BY <2>2, <1>3 DEF NotifInv, NotifTypes, TypeOK
    <3>2. Justified(b, k, created[b], task[b])
      BY <3>1, <1>2 DEF NotifInv, AllJustified, isOver
    <3>3. Justified(b, k, created[b], task'[b])
      <4>1. CASE b = a
        BY <4>1, <3>2, <1>1, <1>5 DEF Justified
      <4>2. CASE b # a
        BY <4>2, <3>1, <3>2, <1>5
      <4> QED
        BY <4>1, <4>2
    <3> QED
      BY <3>1, <3>3, <1>2
  <2> QED
    BY <2>1, <2>2
<1> QED
  BY <1>6, <1>7 DEF NotifInv

LEMMA WithdrawStep ==
  ASSUME NotifInv, NEW a \in Agents, Withdraw(a)
  PROVE  NotifInv'
<1> DEFINE label == Head(task[a].left)
           key == notificationKey(a, task[a].value, label)
<1>1. PICK t \in Tasks(a) :
           /\ task' = [task EXCEPT ![a] = t]
           /\ task[a].op = "withdraw" /\ t.op = "withdraw" /\ t.value = task[a].value
           /\ t.left = Tail(task[a].left)
  BY GoneOn DEF Withdraw
<1>2. DOMAIN store' = DOMAIN store \ {key} /\ (\A k \in DOMAIN store' : store'[k] = store[k])
      /\ UNCHANGED <<desired, session, created, changes, restarts>>
  BY DEF Withdraw, deleted, RemoveKeys
<1>3. \A k \in keysOf(a, task[a].value, task[a].left) \ {key} : k \in keysOf(a, t.value, t.left)
  <2>1. task[a] \in Tasks(a) /\ task[a] # Idle /\ task[a].left # << >>
    BY DEF NotifInv, NotifTypes, Withdraw, isAt, Idle
  <2>2. \A i \in DOMAIN task[a].left : task[a].left[i] = label
          \/ \E j \in DOMAIN Tail(task[a].left) : task[a].left[i] = Tail(task[a].left)[j]
    BY <2>1, TaskTail
  <2> QED
    BY <1>1, <2>2 DEF keysOf
<1>4. task'[a] = t /\ \A b \in Agents : b # a => task'[b] = task[b]
  BY <1>1 DEF NotifInv, NotifTypes
<1>5. NotifTypes'
  <2>1. DOMAIN task' = Agents /\ \A b \in Agents : task'[b] \in Tasks(b)
    BY <1>1, <1>4 DEF NotifInv, NotifTypes
  <2>2. \A b \in Agents : task'[b] = Idle
          \/ (task'[b].op \in {"publish", "withdraw"} /\ task'[b].value \in Offers[b])
    BY <2>1 DEF Tasks
  <2> QED
    BY <1>2, <2>1, <2>2 DEF NotifInv, NotifTypes, TypeOK
<1>6. AllJustified'
  <2> SUFFICES ASSUME NEW k \in DOMAIN store', store'[k].session = session'[store'[k].agent]
               PROVE  Justified(store'[k].agent, k, created'[store'[k].agent], task'[store'[k].agent])
    BY DEF AllJustified, isOver, Justified, keysOf, notificationKey
  <2> DEFINE b == store[k].agent
  <2>1. k \in DOMAIN store /\ k # key /\ store'[k] = store[k] /\ b \in Agents
    BY <1>2 DEF NotifInv, NotifTypes, TypeOK
  <2>2. Justified(b, k, created[b], task[b])
    BY <2>1, <1>2 DEF NotifInv, AllJustified, isOver
  <2>3. Justified(b, k, created[b], task'[b])
    <3>1. CASE b = a
      BY <3>1, <2>1, <2>2, <1>1, <1>3, <1>4 DEF Justified
    <3>2. CASE b # a
      BY <3>2, <2>1, <2>2, <1>4
    <3> QED
      BY <3>1, <3>2
  <2> QED
    BY <2>1, <2>3, <1>2
<1> QED
  BY <1>5, <1>6 DEF NotifInv

LEMMA ReturnStep ==
  ASSUME NotifInv, NEW a \in Agents, Return(a)
  PROVE  NotifInv'
<1> DEFINE cr == IF task[a].op = "publish" THEN created[a] \cup {task[a].value}
                                           ELSE created[a] \ {task[a].value}
<1>1. /\ task[a] # Idle /\ task[a] \in Tasks(a) /\ task[a].left = << >>
      /\ task' = [task EXCEPT ![a] = Idle] /\ created' = [created EXCEPT ![a] = cr]
      /\ UNCHANGED <<desired, session, store, changes, restarts>>
  BY DEF Return, NotifInv, NotifTypes
<1>2. /\ task[a].value \in Values /\ task[a].op \in {"publish", "withdraw"}
      /\ task[a].left = << >> /\ Idle \in Tasks(a)
  BY <1>1, OfferLabels DEF Tasks
<1>3. created' \in [Agents -> SUBSET Values] /\ created'[a] = cr /\ task'[a] = Idle
      /\ \A b \in Agents \ {a} : created'[b] = created[b] /\ task'[b] = task[b]
  BY <1>1, <1>2 DEF NotifInv, NotifTypes, TypeOK
<1>4. NotifTypes'
  BY <1>1, <1>2, <1>3, TaskTypes
<1>5. \A k : Justified(a, k, created[a], task[a]) => Justified(a, k, created'[a], task'[a])
  <2>1. DOMAIN task[a].left = {}
    BY <1>2
  <2>2. keysOf(a, task[a].value, task[a].left) = {}
    BY <2>1 DEF keysOf
  <2> SUFFICES ASSUME NEW k, Justified(a, k, created[a], task[a])
               PROVE  \E v \in cr : k \in keysOf(a, v, v.labels)
    BY <1>3 DEF Justified, Idle
  <2>3. CASE task[a].op = "publish"
    BY <2>3 DEF Justified
  <2>4. CASE task[a].op = "withdraw"
    BY <2>4, <2>2 DEF Justified
  <2> QED
    BY <2>3, <2>4, <1>2
<1>6. AllJustified'
  BY <1>1, <1>3, <1>5, SameStore
<1> QED
  BY <1>4, <1>6 DEF NotifInv

LEMMA RestartStep ==
  ASSUME NotifInv, NEW a \in Agents, Restart(a)
  PROVE  NotifInv'
<1>1. /\ session' = [session EXCEPT ![a] = session[a] + 1]
      /\ created' = [created EXCEPT ![a] = {}] /\ task' = [task EXCEPT ![a] = Idle]
      /\ restarts < MaxRestarts /\ restarts' = restarts + 1
      /\ UNCHANGED <<desired, store, changes>>
  BY DEF Restart, nextSession
<1>2. /\ session'[a] = session[a] + 1 /\ session[a] \in Nat \ {0}
      /\ \A b \in Agents \ {a} : session'[b] = session[b] /\ created'[b] = created[b]
                                 /\ task'[b] = task[b]
      /\ task'[a] = Idle
  BY <1>1 DEF NotifInv, NotifTypes, TypeOK
<1>3. NotifTypes'
  <2>1. DOMAIN task' = Agents /\ (\A b \in Agents : task'[b] \in Tasks(b))
        /\ session' \in [Agents -> Nat \ {0}] /\ created' \in [Agents -> SUBSET Values]
    <3>1. Idle \in Tasks(a)
      BY DEF Tasks
    <3>2. DOMAIN task' = Agents /\ session' \in [Agents -> Nat \ {0}]
          /\ created' \in [Agents -> SUBSET Values]
      BY <1>1, <1>2 DEF NotifInv, NotifTypes, TypeOK
    <3>3. \A b \in Agents : task'[b] \in Tasks(b)
      BY <3>1, <1>2 DEF NotifInv, NotifTypes
    <3> QED
      BY <3>2, <3>3
  <2>2. \A b \in Agents : task'[b] = Idle
          \/ (task'[b].op \in {"publish", "withdraw"} /\ task'[b].value \in Offers[b])
    BY <2>1 DEF Tasks
  <2>3. \A b \in Agents : session[b] \in Nat \ {0} /\ (session'[b] = session[b] \/ session'[b] = session[b] + 1)
    BY <1>2 DEF NotifInv, NotifTypes
  <2>4. \A k \in DOMAIN store : store[k].session \in 1..session'[store[k].agent]
    <3> TAKE k \in DOMAIN store
    <3>1. store[k].agent \in Agents /\ store[k].session \in 1..session[store[k].agent]
      BY DEF NotifInv, NotifTypes, TypeOK
    <3> QED
      BY <3>1, <2>3
  <2>5. restarts' \in 0..MaxRestarts /\ restarts' \in Nat
    BY <1>1, BoundsAssumption DEF NotifInv, NotifTypes
  <2> QED
    BY <1>1, <2>1, <2>2, <2>4, <2>5 DEF NotifInv, NotifTypes, TypeOK
<1>4. AllJustified'
  <2> SUFFICES ASSUME NEW k \in DOMAIN store, store[k].session = session'[store[k].agent]
               PROVE  Justified(store[k].agent, k, created'[store[k].agent], task'[store[k].agent])
    BY <1>1 DEF AllJustified, isOver, Justified, keysOf, notificationKey
  <2>1. store[k].agent \in Agents /\ store[k].session \in 1..session[store[k].agent]
    BY DEF NotifInv, NotifTypes, TypeOK
  <2>2. store[k].agent # a
    BY <2>1, <1>2
  <2> QED
    BY <2>1, <2>2, <1>2 DEF NotifInv, AllJustified, isOver
<1> QED
  BY <1>3, <1>4 DEF NotifInv

LEMMA LeaseExpiresStep ==
  ASSUME NotifInv, NEW a \in Agents, LeaseExpires(a)
  PROVE  NotifInv'
<1>1. DOMAIN store' \subseteq DOMAIN store /\ (\A k \in DOMAIN store' : store'[k] = store[k])
      /\ UNCHANGED <<desired, created, task, session, changes, restarts>>
  BY DEF LeaseExpires, RemoveKeys
<1>2. NotifTypes'
  BY <1>1 DEF NotifInv, NotifTypes, TypeOK
<1>3. AllJustified'
  <2> SUFFICES ASSUME NEW k \in DOMAIN store', store'[k].session = session'[store'[k].agent]
               PROVE  Justified(store'[k].agent, k, created'[store'[k].agent], task'[store'[k].agent])
    BY DEF AllJustified, isOver, Justified, keysOf, notificationKey
  <2> QED
    BY <1>1 DEF NotifInv, AllJustified, isOver
<1> QED
  BY <1>2, <1>3 DEF NotifInv

-----------------------------------------------------------------------------
LEMMA NotifStep == NotifInv /\ [Next]_vars => NotifInv'
<1> SUFFICES ASSUME NotifInv, [Next]_vars PROVE NotifInv'
  OBVIOUS
<1>1. CASE UNCHANGED vars
  BY <1>1 DEF vars, NotifInv, NotifTypes, TypeOK, AllJustified, isOver, Justified, keysOf, notificationKey
<1>2. ASSUME NEW a \in Agents, NEW v \in Offers[a], Configure(a, v)
      PROVE  NotifInv'
  BY <1>2, ConfigureStep
<1>3. ASSUME NEW a \in Agents, NEW v \in Offers[a], Create(a, v) \/ Delete(a, v)
      PROVE  NotifInv'
  BY <1>3, CreateStep, DeleteStep
<1>4. ASSUME NEW a \in Agents, Publish(a) \/ Withdraw(a) \/ Return(a)
      PROVE  NotifInv'
  BY <1>4, PublishStep, WithdrawStep, ReturnStep
<1>5. ASSUME NEW a \in Agents, Restart(a) \/ LeaseExpires(a)
      PROVE  NotifInv'
  BY <1>5, RestartStep, LeaseExpiresStep
<1> QED
  BY <1>1, <1>2, <1>3, <1>4, <1>5 DEF Next, Agent

\* Types: agents only write below the label of their group (ServiceLabelForNSMNotifs),
\* under leases of sessions they have had.
THEOREM NotificationsTypeOK == Spec => []TypeOK
<1>1. NotifInv => TypeOK
  BY DEF NotifInv, NotifTypes
<1> QED
  BY <1>1, NotifInit, NotifStep, PTL DEF Spec

\* Whatever agents share a group and whenever they restart, a living session
\* announces only endpoints of its own agent (Create, Delete): a Delete that
\* returns has left none of its announcements behind.
THEOREM NotificationsAnnouncedIsCreated == Spec => []AnnouncedIsCreated
<1>1. NotifInv => AnnouncedIsCreated
  <2> SUFFICES ASSUME NotifInv, NEW k \in DOMAIN store, ~isOver(store[k])
               PROVE  LET a == store[k].agent
                      IN  \/ \E v \in created[a] : k \in keysOf(a, v, v.labels)
                          \/ task[a].op = "publish"
                             /\ k \in keysOf(a, task[a].value, task[a].value.labels)
    BY DEF AnnouncedIsCreated
  <2> DEFINE a == store[k].agent
  <2>1. Justified(a, k, created[a], task[a]) /\ task[a] \in Tasks(a)
    BY DEF NotifInv, NotifTypes, TypeOK, AllJustified
  <2>2. CASE task[a].op = "withdraw" /\ task[a].value \in created[a]
             /\ k \in keysOf(a, task[a].value, task[a].left)
    <3>1. \A i \in DOMAIN task[a].left :
            \E j \in DOMAIN task[a].value.labels : task[a].left[i] = task[a].value.labels[j]
      BY <2>1, <2>2 DEF Tasks, Idle
    <3>2. k \in keysOf(a, task[a].value, task[a].value.labels)
      BY <2>2, <3>1 DEF keysOf
    <3> QED
      BY <2>2, <3>2
  <2> QED
    BY <2>1, <2>2 DEF Justified
<1> QED
  BY <1>1, NotifInit, NotifStep, PTL DEF Spec

-----------------------------------------------------------------------------
(* What is created is announced. *)

\* "k" is announced under the lease that agent a has now.
announcedBy(a, k) == k \in DOMAIN store /\ store[k] = lease(a)

\* One endpoint per service, the one that is being announced included.
ServicesDistinct(a) ==
  /\ created[a] \subseteq Offers[a]
  /\ \A v, w \in created[a] : v.service = w.service => v = w
  /\ task[a].op = "publish" => \A v \in created[a] : v.service # task[a].value.service
  /\ task[a].op = "withdraw" => task[a].value \in created[a]

\* The labels that Create has dealt with are announced.
PublishedSoFar(a) ==
  task[a].op = "publish" =>
    \A k \in keysOf(a, task[a].value, task[a].value.labels) :
      announcedBy(a, k) \/ k \in keysOf(a, task[a].value, task[a].left)

CreatedAnnounced(a) ==
  \A v \in created[a] :
    \/ task[a].op = "withdraw" /\ task[a].value = v
    \/ \A k \in keysOf(a, v, v.labels) : announcedBy(a, k)

Announces(a) == ServicesDistinct(a) /\ PublishedSoFar(a) /\ CreatedAnnounced(a)

AnnounceInv == NotifInv /\ \A a \in Agents : Announces(a)

\* Keys of two agents, and those of two services of one agent, differ.
LEMMA DifferentKeys ==
  ASSUME KeysApart, NEW a \in Agents, NEW b \in Agents, NEW v \in Offers[a], NEW w \in Offers[b],
         a # b \/ v.service # w.service, NEW ls, NEW k \in keysOf(b, w, ls), NEW label
  PROVE  k # notificationKey(a, v, label)
  BY DEF KeysApart, keysOf, notificationKey

\* The value of a task is an endpoint of the agent.
LEMMA TaskValue ==
  ASSUME NotifInv, NEW a \in Agents, task[a] # Idle
  PROVE  task[a].value \in Offers[a] /\ task[a].op \in {"publish", "withdraw"}
  BY DEF NotifInv, NotifTypes, Tasks

\* An agent that does nothing keeps its announcements, if the step of another
\* one leaves its keys alone.
LEMMA OthersAnnounce ==
  ASSUME AnnounceInv, NEW b \in Agents,
         created'[b] = created[b], task'[b] = task[b], session'[b] = session[b],
         \A v \in Offers[b] : \A k \in keysOf(b, v, v.labels) :
           announcedBy(b, k) => k \in DOMAIN store' /\ store'[k] = store[k]
  PROVE  Announces(b)'
<1>1. lease(b)' = lease(b)
  BY DEF lease
<1>2. \A v \in Offers[b] : \A k \in keysOf(b, v, v.labels) : announcedBy(b, k) => announcedBy(b, k)'
  BY <1>1 DEF announcedBy
<1>3. Announces(b) /\ created[b] \subseteq Offers[b]
  BY DEF AnnounceInv, Announces, ServicesDistinct
<1>4. ServicesDistinct(b)'
  BY <1>3 DEF Announces, ServicesDistinct
<1>5. PublishedSoFar(b)'
  <2> SUFFICES ASSUME task[b].op = "publish", NEW k \in keysOf(b, task[b].value, task[b].value.labels)
               PROVE  announcedBy(b, k)' \/ k \in keysOf(b, task[b].value, task[b].left)
    BY DEF PublishedSoFar, keysOf, notificationKey
  <2>1. task[b].value \in Offers[b]
    BY TaskValue DEF AnnounceInv, Idle
  <2> QED
    BY <1>2, <1>3, <2>1 DEF Announces, PublishedSoFar
<1>6. CreatedAnnounced(b)'
  <2> SUFFICES ASSUME NEW v \in created[b], ~(task[b].op = "withdraw" /\ task[b].value = v),
                      NEW k \in keysOf(b, v, v.labels)
               PROVE  announcedBy(b, k)'
    BY DEF CreatedAnnounced, keysOf, notificationKey
  <2> QED
    BY <1>2, <1>3 DEF Announces, CreatedAnnounced
<1> QED
  BY <1>4, <1>5, <1>6 DEF Announces

LEMMA AnnounceInit == Init => AnnounceInv
  BY NotifInit DEF Init, AnnounceInv, Announces, ServicesDistinct, PublishedSoFar, CreatedAnnounced, Idle

LEMMA ConfigureAnnounces ==
  ASSUME AnnounceInv, NEW a \in Agents, NEW v \in Offers[a], Configure(a, v)
  PROVE  \A b \in Agents : Announces(b)'
  BY OthersAnnounce DEF Configure, announcedBy

LEMMA CreateAnnounces ==
  ASSUME AnnounceInv, NEW a \in Agents, NEW v \in Offers[a], Create(a, v)
  PROVE  \A b \in Agents : Announces(b)'
<1>1. task[a] = Idle /\ UNCHANGED <<created, session, store>>
      /\ (\A w \in created[a] : w.service # v.service)
      /\ task'[a] = [op |-> "publish", value |-> v, left |-> v.labels]
      /\ \A b \in Agents \ {a} : task'[b] = task[b]
  BY DEF Create, begin, AnnounceInv, NotifInv, NotifTypes
<1>2. \A b \in Agents \ {a} : Announces(b)'
  BY <1>1, OthersAnnounce DEF announcedBy
<1>3. lease(a)' = lease(a)
  BY <1>1 DEF lease
<1>4. Announces(a)
  BY DEF AnnounceInv
<1>5. ServicesDistinct(a)'
  BY <1>1, <1>4 DEF Announces, ServicesDistinct
<1>6. PublishedSoFar(a)'
  BY <1>1 DEF PublishedSoFar, keysOf, notificationKey
<1>7. CreatedAnnounced(a)'
  BY <1>1, <1>3, <1>4 DEF Announces, CreatedAnnounced, announcedBy, keysOf, notificationKey, Idle
<1> QED
  BY <1>2, <1>5, <1>6, <1>7 DEF Announces

LEMMA DeleteAnnounces ==
  ASSUME AnnounceInv, NEW a \in Agents, NEW v \in Offers[a], Delete(a, v)
  PROVE  \A b \in Agents : Announces(b)'
<1>1. task[a] = Idle /\ UNCHANGED <<created, session, store>> /\ v \in created[a]
      /\ task'[a] = [op |-> "withdraw", value |-> v, left |-> v.labels]
      /\ \A b \in Agents \ {a} : task'[b] = task[b]
  BY DEF Delete, begin, AnnounceInv, NotifInv, NotifTypes
<1>2. \A b \in Agents \ {a} : Announces(b)'
  BY <1>1, OthersAnnounce DEF announcedBy
<1>3. lease(a)' = lease(a)
  BY <1>1 DEF lease
<1>4. Announces(a)
  BY DEF AnnounceInv
<1>5. ServicesDistinct(a)' /\ PublishedSoFar(a)'
  BY <1>1, <1>4 DEF Announces, ServicesDistinct, PublishedSoFar
<1>6. CreatedAnnounced(a)'
  BY <1>1, <1>3, <1>4 DEF Announces, CreatedAnnounced, announcedBy, keysOf, notificationKey, Idle
<1> QED
  BY <1>2, <1>5, <1>6 DEF Announces

LEMMA PublishAnnounces ==
  ASSUME KeysApart, AnnounceInv, NEW a \in Agents, Publish(a)
  PROVE  \A b \in Agents : Announces(b)'
<1> DEFINE value == task[a].value
           key == notificationKey(a, value, Head(task[a].left))
<1>1. PICK t \in Tasks(a) :
           /\ task' = [task EXCEPT ![a] = t]
           /\ task[a].op = "publish" /\ t.op = "publish" /\ t.value = value
           /\ t.left = Tail(task[a].left)
  BY GoneOn DEF Publish, AnnounceInv
<1>2. /\ DOMAIN store' = DOMAIN store \cup {key} /\ store'[key] = lease(a)
      /\ \A k \in DOMAIN store : k # key => store'[k] = store[k]
      /\ UNCHANGED <<created, session>>
  BY DEF Publish, Put
<1>3. task'[a] = t /\ \A b \in Agents \ {a} : task'[b] = task[b]
  BY <1>1 DEF AnnounceInv, NotifInv, NotifTypes
<1>4. value \in Offers[a]
  BY <1>1, TaskValue DEF AnnounceInv, Idle
<1>5. \A b \in Agents \ {a} : Announces(b)'
  <2> TAKE b \in Agents \ {a}
  <2>1. \A v \in Offers[b] : \A k \in keysOf(b, v, v.labels) : k # key
    BY <1>4, DifferentKeys
  <2> QED
    BY <1>2, <1>3, <2>1, OthersAnnounce DEF announcedBy
<1>6. \A k : announcedBy(a, k) \/ k = key => announcedBy(a, k)'
  BY <1>2 DEF lease, announcedBy
<1>7. Announces(a)
  BY DEF AnnounceInv
<1>8. ServicesDistinct(a)'
  BY <1>1, <1>2, <1>3, <1>7 DEF Announces, ServicesDistinct
<1>9. PublishedSoFar(a)'
  <2> SUFFICES ASSUME NEW k \in keysOf(a, value, value.labels)
               PROVE  announcedBy(a, k)' \/ k \in keysOf(a, value, Tail(task[a].left))
    BY <1>1, <1>3 DEF PublishedSoFar
  <2>1. task[a] \in Tasks(a) /\ task[a] # Idle /\ task[a].left # << >>
    BY DEF AnnounceInv, NotifInv, NotifTypes, Publish, isAt, Idle
  <2>2. \A i \in DOMAIN task[a].left : task[a].left[i] = Head(task[a].left)
          \/ \E j \in DOMAIN Tail(task[a].left) : task[a].left[i] = Tail(task[a].left)[j]
    BY <2>1, TaskTail
  <2>3. announcedBy(a, k) \/ k \in keysOf(a, value, task[a].left)
    BY <1>1, <1>7 DEF Announces, PublishedSoFar
  <2> QED
    BY <1>6, <2>2, <2>3 DEF keysOf
<1>10. CreatedAnnounced(a)'
  BY <1>1, <1>2, <1>3, <1>6, <1>7 DEF Announces, CreatedAnnounced, keysOf, notificationKey
<1> QED
  BY <1>5, <1>8, <1>9, <1>10 DEF Announces

LEMMA WithdrawAnnounces ==
  ASSUME KeysApart, AnnounceInv, NEW a \in Agents, Withdraw(a)
  PROVE  \A b \in Agents : Announces(b)'
<1> DEFINE value == task[a].value
           key == notificationKey(a, value, Head(task[a].left))
<1>1. PICK t \in Tasks(a) :
           /\ task' = [task EXCEPT ![a] = t]
           /\ task[a].op = "withdraw" /\ t.op = "withdraw" /\ t.value = value
  BY GoneOn DEF Withdraw, AnnounceInv
<1>2. /\ DOMAIN store' = DOMAIN store \ {key} /\ (\A k \in DOMAIN store' : store'[k] = store[k])
      /\ UNCHANGED <<created, session>>
  BY DEF Withdraw, deleted, RemoveKeys
<1>3. task'[a] = t /\ \A b \in Agents \ {a} : task'[b] = task[b]
  BY <1>1 DEF AnnounceInv, NotifInv, NotifTypes
<1>4. value \in Offers[a]
  BY <1>1, TaskValue DEF AnnounceInv, Idle
<1>5. \A b \in Agents \ {a} : Announces(b)'
  <2> TAKE b \in Agents \ {a}
  <2>1. \A v \in Offers[b] : \A k \in keysOf(b, v, v.labels) : k # key
    BY <1>4, DifferentKeys
  <2> QED
    BY <1>2, <1>3, <2>1, OthersAnnounce DEF announcedBy
<1>6. lease(a)' = lease(a) /\ Announces(a)
  BY <1>2 DEF lease, AnnounceInv
<1>7. ServicesDistinct(a)' /\ PublishedSoFar(a)'
  BY <1>1, <1>2, <1>3, <1>6 DEF Announces, ServicesDistinct, PublishedSoFar
<1>8. CreatedAnnounced(a)'
  <2> SUFFICES ASSUME NEW v \in created[a], v # value, NEW k \in keysOf(a, v, v.labels)
               PROVE  announcedBy(a, k)'
    BY <1>1, <1>2, <1>3 DEF CreatedAnnounced, keysOf, notificationKey
  <2>1. announcedBy(a, k) /\ v \in Offers[a]
    BY <1>6 DEF Announces, ServicesDistinct, CreatedAnnounced
  <2>2. v.service # value.service
    BY <1>1, <1>6 DEF Announces, ServicesDistinct
  <2> QED
    BY <1>2, <1>4, <1>6, <2>1, <2>2, DifferentKeys DEF announcedBy
<1> QED
  BY <1>5, <1>7, <1>8 DEF Announces

LEMMA ReturnAnnounces ==
  ASSUME AnnounceInv, NEW a \in Agents, Return(a)
  PROVE  \A b \in Agents : Announces(b)'
<1> DEFINE value == task[a].value
           cr == IF task[a].op = "publish" THEN created[a] \cup {value} ELSE created[a] \ {value}
<1>1. task[a] # Idle /\ task[a].left = << >> /\ UNCHANGED <<session, store>>
  BY DEF Return
<1>2. /\ task'[a] = Idle /\ created'[a] = cr
      /\ \A b \in Agents \ {a} : task'[b] = task[b] /\ created'[b] = created[b]
  BY DEF Return, AnnounceInv, NotifInv, NotifTypes, TypeOK
<1>3. value \in Offers[a] /\ task[a].op \in {"publish", "withdraw"}
  BY <1>1, TaskValue DEF AnnounceInv
<1>4. \A b \in Agents \ {a} : Announces(b)'
  BY <1>1, <1>2, OthersAnnounce DEF announcedBy
<1>5. Announces(a) /\ \A k : announcedBy(a, k) => announcedBy(a, k)'
  BY <1>1 DEF AnnounceInv, announcedBy, lease
<1>6. keysOf(a, value, task[a].left) = {}
  BY <1>1 DEF keysOf
<1>7. ServicesDistinct(a)'
  <2>1. \A v, w \in cr : v.service = w.service => v = w
    BY <1>3, <1>5 DEF Announces, ServicesDistinct
  <2>2. cr \subseteq Offers[a]
    BY <1>3, <1>5 DEF Announces, ServicesDistinct
  <2> HIDE DEF cr
  <2> QED
    BY <1>2, <2>1, <2>2 DEF ServicesDistinct, Idle
<1>8. PublishedSoFar(a)'
  BY <1>2 DEF PublishedSoFar, Idle
<1>9. CreatedAnnounced(a)'
  <2> SUFFICES ASSUME NEW v \in cr, NEW k \in keysOf(a, v, v.labels)
               PROVE  announcedBy(a, k)
    BY <1>2, <1>5 DEF CreatedAnnounced, keysOf, notificationKey
  <2>1. CASE task[a].op = "publish" /\ v = value
    BY <2>1, <1>5, <1>6 DEF Announces, PublishedSoFar
  <2>2. CASE v \in created[a] /\ ~(task[a].op = "withdraw" /\ v = value)
    BY <2>2, <1>5 DEF Announces, CreatedAnnounced
  <2> QED
    BY <2>1, <2>2, <1>3
<1> QED
  BY <1>4, <1>7, <1>8, <1>9 DEF Announces

LEMMA RestartAnnounces ==
  ASSUME AnnounceInv, NEW a \in Agents, Restart(a)
  PROVE  \A b \in Agents : Announces(b)'
<1>1. /\ task'[a] = Idle /\ created'[a] = {} /\ UNCHANGED store
      /\ \A b \in Agents \ {a} : /\ task'[b] = task[b] /\ created'[b] = created[b]
                                 /\ session'[b] = session[b]
  BY DEF Restart, AnnounceInv, NotifInv, NotifTypes, TypeOK
<1>2. \A b \in Agents \ {a} : Announces(b)'
  BY <1>1, OthersAnnounce DEF announcedBy
<1>3. Announces(a)'
  BY <1>1 DEF Announces, ServicesDistinct, PublishedSoFar, CreatedAnnounced, Idle
<1> QED
  BY <1>2, <1>3

LEMMA LeaseExpiresAnnounces ==
  ASSUME AnnounceInv, NEW a \in Agents, LeaseExpires(a)
  PROVE  \A b \in Agents : Announces(b)'
<1>1. \A k \in DOMAIN store : ~isOver(store[k]) => k \in DOMAIN store' /\ store'[k] = store[k]
  BY DEF LeaseExpires, RemoveKeys
<1>2. \A b \in Agents : ~isOver(lease(b))
  BY DEF isOver, lease
<1> QED
  BY <1>1, <1>2, OthersAnnounce DEF announcedBy, LeaseExpires

LEMMA AnnounceStep ==
  ASSUME KeysApart, AnnounceInv, [Next]_vars
  PROVE  AnnounceInv'
<1>1. NotifInv'
  BY NotifStep DEF AnnounceInv
<1>2. \A b \in Agents : Announces(b)'
  <2>1. CASE UNCHANGED vars
    BY <2>1, OthersAnnounce DEF vars, announcedBy
  <2>2. ASSUME NEW a \in Agents, NEW v \in Offers[a],
               Configure(a, v) \/ Create(a, v) \/ Delete(a, v)
        PROVE  \A b \in Agents : Announces(b)'
    BY <2>2, ConfigureAnnounces, CreateAnnounces, DeleteAnnounces
  <2>3. ASSUME NEW a \in Agents, Publish(a) \/ Withdraw(a) \/ Return(a)
        PROVE  \A b \in Agents : Announces(b)'
    BY <2>3, PublishAnnounces, WithdrawAnnounces, ReturnAnnounces
  <2>4. ASSUME NEW a \in Agents, Restart(a) \/ LeaseExpires(a)
        PROVE  \A b \in Agents : Announces(b)'
    BY <2>4, RestartAnnounces, LeaseExpiresAnnounces
  <2> QED
    BY <2>1, <2>2, <2>3, <2>4 DEF Next, Agent
<1> QED
  BY <1>1, <1>2 DEF AnnounceInv

\* An endpoint that is created, and not being deleted, stays announced under
\* all of its labels (Create, Delete, WithClientLifetimeTTL), however often its
\* agent and others restart and let leases expire: as long as the agents of one
\* group serve different services.
THEOREM NotificationsCreatedIsAnnounced ==
  ASSUME KeysApart
  PROVE  Spec => []CreatedIsAnnounced
<1>1. AnnounceInv => CreatedIsAnnounced
  BY DEF AnnounceInv, Announces, CreatedAnnounced, CreatedIsAnnounced, announcedBy
<1>2. AnnounceInv /\ [Next]_vars => AnnounceInv'
  BY AnnounceStep
<1> QED
  BY <1>1, <1>2, AnnounceInit, PTL DEF Spec
=============================================================================
