--------------------------- MODULE NSMAgentProofs ---------------------------
(***************************************************************************)
(* Proofs about the threads of the agents, for any agents, services,       *)
(* clients and endpoint configurations: the type invariant with what the   *)
(* mutexes and the waiting schedulers promise; that every endpoint, with   *)
(* its transactions in the queue of a scheduler, implements NSMEndpoint,   *)
(* and through it AttachmentService; and what the interfaces are when a    *)
(* scheduler is at rest.                                                   *)
(*                                                                         *)
(* A queue is read as what it promises: the last write of a key decides.   *)
(* Executing the head of a queue keeps the promise, and every other step   *)
(* of the queue appends the writes of one method of one endpoint, or keys  *)
(* that belong to none.                                                    *)
(***************************************************************************)
EXTENDS NSMAgent, NSMConnectionsProofs, SequenceTheorems

-----------------------------------------------------------------------------
(* Types. *)

Items == Services \cup Clients

Handler == [client : Clients, n : Nat, kind : {"request", "close"}]

Changes == [op : {"create", "delete"}, item : Items]

ClientKey == {InterfaceOf[c] : c \in Clients}

InterfaceTxn ==
  [op : {"interface"}, key : InterfaceKeys \cup ClientKey,
   value : [link : Links, addressed : BOOLEAN] \cup Clients \cup {NoValue},
   call : Handler \cup {NoCall}]

Transactions == Changes \cup InterfaceTxn

IsMap(f) == f = [k \in DOMAIN f |-> f[k]]

AgentTypes ==
  /\ phase \in [Agents -> {"new", "inited", "ready", "failed"}]
  /\ desired \subseteq Items /\ joined \subseteq Clients /\ endpoints \subseteq Services
  /\ queue \in [Agents -> Seq(Transactions)]
  /\ DOMAIN conns = Services /\ \A s \in Services : IsTable(conns[s])
  /\ DOMAIN ifaces = Agents /\ \A a \in Agents : IsMap(ifaces[a])
  /\ mutex \in [Agents -> Handler \cup {NoCall}]
  /\ handlers \subseteq Handler
  /\ calling \in [Clients -> {"no", "waiting", "answered", "failed"}]
  /\ calls \in [Clients -> 0..MaxCalls]

\* An agent that is not up has no work and serves nothing.
QueuesOfReady ==
  /\ \A a \in Agents : phase[a] # "ready" => queue[a] = << >>
  /\ \A s \in endpoints : phase[AgentOf[s]] = "ready"

\* Connections are those of services in the demultiplexer.
ServedConnections == \A s \in Services : conns[s] # Empty => s \in endpoints

\* A mutex is held by a running handler of a service of the agent.
MutexHeld ==
  \A a \in Agents : ~isFree(a) => /\ mutex[a] \in handlers
                                  /\ AgentOf[ServiceOf[mutex[a].client]] = a

\* A scheduler that has called is at the transaction that made it call.
CallersWait == \A c \in Clients : calling[c] # "no" => toCall(c)

AgentInv == AgentTypes /\ QueuesOfReady /\ ServedConnections /\ MutexHeld /\ CallersWait

-----------------------------------------------------------------------------
(* Queues and tables. *)

LEMMA AgentConstants ==
  /\ \A x \in Items : AgentOf[x] \in Agents
  /\ \A s \in Services : ServiceConfig[s] \in Config
  /\ \A c \in Clients : ServiceOf[c] \in Services /\ ConnectionOf[c] \in Requests
                        /\ ConnectionOf[c] \in Conn /\ AgentOf[ServiceOf[c]] \in Agents
                        /\ ServiceConfig[ServiceOf[c]] \in Config
  BY AgentsAssumption, RequestsAssumption DEF Items

LEMMA ChangeType ==
  ASSUME NEW x \in Items, NEW add \in BOOLEAN
  PROVE  change(x, add) \in Transactions
  BY DEF change, Transactions, Changes

LEMMA ClientInterfaceType ==
  ASSUME NEW c \in Clients, NEW v \in {c, NoValue}
  PROVE  clientInterface(c, v) \in Transactions
  BY DEF clientInterface, ifaceTxn, Transactions, InterfaceTxn, ClientKey

LEMMA EndpointInterfaceType ==
  ASSUME NEW s \in Services, NEW table, IsTable(table), NEW conn \in Conn,
         NEW v \in {interfaceValue(ServiceConfig[s], conn), NoValue}, NEW h \in Handler \cup {NoCall}
  PROVE  ifaceTxn(keyIn(s, table, conn), v, h) \in Transactions
<1>1. keyIn(s, table, conn) \in InterfaceKeys
  BY KeyType, AgentConstants DEF keyIn
<1>2. interfaceValue(ServiceConfig[s], conn) \in [link : Links, addressed : BOOLEAN]
  BY AgentConstants DEF interfaceValue, Config, Conn
<1> QED
  BY <1>1, <1>2 DEF ifaceTxn, Transactions, InterfaceTxn

LEMMA EmptyTable == IsTable(Empty)
<1>1. DOMAIN Empty = {} /\ Empty \in [{} -> Entry]
  BY DEF Empty
<1> QED
  BY <1>1 DEF IsTable

LEMMA TableIsMap ==
  ASSUME NEW t, IsTable(t)
  PROVE  IsMap(t)
  BY DEF IsTable, IsMap

LEMMA AppliedIsMap ==
  ASSUME NEW a, NEW f, IsMap(f), NEW t
  PROVE  IsMap(applied(a, f, t))
  BY DEF IsMap, applied, RemoveKeys, Put

\* SetToSeqs(S) lists every element of S.
LEMMA OrderOf ==
  ASSUME NEW S, IsFiniteSet(S), NEW order \in Seqs!SetToSeqs(S)
  PROVE  /\ Cardinality(S) \in Nat /\ order \in [1..Cardinality(S) -> S]
         /\ \A x \in S : \E i \in 1..Cardinality(S) : order[i] = x
<1> DEFINE n == Cardinality(S)
<1>1. n \in Nat /\ Seqs!Cardinality(S) = n
  BY FS_CardinalityType
     DEF Seqs!Cardinality, Cardinality, Seqs!IsFiniteSet, IsFiniteSet
<1>2. order \in [1..n -> S] /\ \A i, j \in 1..n : i # j => order[i] # order[j]
  BY <1>1 DEF Seqs!SetToSeqs
<1> HIDE DEF n
<1>3. order \in Injection(1..n, S) /\ Cardinality(1..n) = n
  <2>1. Cardinality(1..n) = n
    BY <1>1, FS_Interval
  <2>2. IsInjective(order)
    BY <1>2 DEF IsInjective
  <2> QED
    BY <1>2, <2>1, <2>2 DEF Injection
<1>4. order \in Surjection(1..n, S)
  BY <1>1, <1>3, FS_Injection DEF n
<1> QED
  BY <1>1, <1>2, <1>4 DEF Surjection, n

\* What is sent, or lost.
LEMMA SendingType ==
  ASSUME NEW t \in Transactions, NEW ts \in sending(t)
  PROVE  ts \in Seq(Transactions)
<1>1. <<t>> \in Seq(Transactions) /\ << >> \in Seq(Transactions)
  BY EmptySeq
<1>2. ts = <<t>> \/ ts = << >>
  BY DEF sending
<1> QED
  BY <1>1, <1>2

\* The closing of a duplicate, and the closings of all connections.
LEMMA ClosingType ==
  ASSUME AgentTypes, NEW s \in Services, NEW conn \in Conn, NEW ts \in closing(s, conn)
  PROVE  ts \in Seq(Transactions)
<1>1. ifaceTxn(keyIn(s, conns[s], conn), NoValue, NoCall) \in Transactions
  BY EndpointInterfaceType DEF AgentTypes
<1> QED
  BY <1>1, SendingType, EmptySeq DEF closing

LEMMA ClosingsType ==
  ASSUME AgentTypes, NEW s \in Services, NEW ids \in taken(s), NEW order \in Seqs!SetToSeqs(ids)
  PROVE  closings(s, order) \in Seq(Transactions)
<1> DEFINE n == Cardinality(ids)
           txn(i) == ifaceTxn(keyIn(s, conns[s], conns[s][order[i]].conn), NoValue, NoCall)
<1>1. IsTable(conns[s]) /\ ids \subseteq DOMAIN conns[s] /\ IsFiniteSet(ids)
  BY TableFinite, FS_Subset DEF AgentTypes, taken
<1>2. n \in Nat /\ order \in [1..n -> ids]
  BY <1>1, OrderOf
<1>3. \A i \in 1..n : txn(i) \in Transactions
  <2> TAKE i \in 1..n
  <2>1. conns[s][order[i]].conn \in Conn
    BY <1>1, <1>2 DEF IsTable, Entry
  <2> QED
    BY <1>1, <2>1, EndpointInterfaceType
<1>4. closings(s, order) = [i \in 1..n |-> txn(i)]
  BY <1>2 DEF closings
<1> HIDE DEF n, txn
<1> QED
  BY <1>2, <1>3, <1>4, SeqDef

-----------------------------------------------------------------------------
(* What a step does to the queues. *)

\* Transactions "ts" are sent to the scheduler of agent a.
Sends(a, ts) == queue' = [queue EXCEPT ![a] = @ \o ts]

\* The scheduler is done with its transaction, and "ts" follow.
Finishes(a, ts) == queue[a] # << >> /\ queue' = [queue EXCEPT ![a] = Tail(@) \o ts]

LEMMA SentQueue ==
  ASSUME AgentInv, NEW a \in Agents, phase[a] = "ready", UNCHANGED phase,
         NEW ts \in Seq(Transactions), Sends(a, ts)
  PROVE  /\ queue' \in [Agents -> Seq(Transactions)]
         /\ queue'[a] = queue[a] \o ts
         /\ \A b \in Agents \ {a} : queue'[b] = queue[b]
         /\ \A b \in Agents : phase'[b] # "ready" => queue'[b] = << >>
         /\ \A b \in Agents : queue[b] # << >> => queue'[b] # << >> /\ Head(queue'[b]) = Head(queue[b])
<1>1. queue \in [Agents -> Seq(Transactions)]
  BY DEF AgentInv, AgentTypes
<1>2. queue[a] \o ts \in Seq(Transactions)
  BY <1>1, ConcatProperties
<1>3. queue' \in [Agents -> Seq(Transactions)] /\ queue'[a] = queue[a] \o ts
      /\ \A b \in Agents \ {a} : queue'[b] = queue[b]
  BY <1>1, <1>2 DEF Sends
<1>4. queue[a] # << >> => queue[a] \o ts # << >> /\ Head(queue[a] \o ts) = Head(queue[a])
  <2>1. queue[a] \in Seq(Transactions)
    BY <1>1
  <2> QED
    BY <2>1
<1>5. \A b \in Agents : phase[b] # "ready" => queue[b] = << >>
  BY DEF AgentInv, QueuesOfReady
<1> QED
  BY <1>3, <1>4, <1>5

LEMMA FinishedQueue ==
  ASSUME AgentInv, NEW a \in Agents, UNCHANGED phase,
         NEW ts \in Seq(Transactions), Finishes(a, ts)
  PROVE  /\ queue' \in [Agents -> Seq(Transactions)]
         /\ queue'[a] = Tail(queue[a]) \o ts
         /\ \A b \in Agents \ {a} : queue'[b] = queue[b]
         /\ \A b \in Agents : phase'[b] # "ready" => queue'[b] = << >>
         /\ phase[a] = "ready"
<1>1. queue \in [Agents -> Seq(Transactions)] /\ queue[a] # << >>
  BY DEF AgentInv, AgentTypes, Finishes
<1>2. Tail(queue[a]) \o ts \in Seq(Transactions)
  BY <1>1, HeadTailProperties, ConcatProperties
<1>3. queue' \in [Agents -> Seq(Transactions)] /\ queue'[a] = Tail(queue[a]) \o ts
      /\ \A b \in Agents \ {a} : queue'[b] = queue[b]
  BY <1>1, <1>2 DEF Finishes
<1>4. \A b \in Agents : phase[b] # "ready" => queue[b] = << >>
  BY DEF AgentInv, QueuesOfReady
<1> QED
  BY <1>1, <1>3, <1>4

\* A transaction that nothing follows.
LEMMA FinishesAlone ==
  ASSUME AgentInv, NEW a \in Agents, queue[a] # << >>, queue' = [queue EXCEPT ![a] = Tail(@)]
  PROVE  Finishes(a, << >>) /\ << >> \in Seq(Transactions)
<1>1. queue[a] \in Seq(Transactions)
  BY DEF AgentInv, AgentTypes
<1>2. Tail(queue[a]) \o << >> = Tail(queue[a])
  BY <1>1, HeadTailProperties, ConcatEmptySeq
<1> QED
  BY <1>2, EmptySeq DEF Finishes

-----------------------------------------------------------------------------
(* Who is waiting for what. *)

LEMMA CallerAtHead ==
  ASSUME AgentInv, NEW c \in Clients, calling[c] # "no"
  PROVE  /\ queue[AgentOf[c]] # << >>
         /\ Head(queue[AgentOf[c]]).item = c
         /\ Head(queue[AgentOf[c]]).op \in {"create", "delete"}
<1>1. toCall(c)
  BY DEF AgentInv, CallersWait
<1>2. /\ queue[AgentOf[c]] # << >>
      /\ \E op \in {"create", "delete"} : Head(queue[AgentOf[c]]) = [op |-> op, item |-> c]
  BY <1>1 DEF toCall, executes
<1> QED
  BY <1>2

\* A caller whose scheduler is still at the same transaction is still at it.
LEMMA StillCalling ==
  ASSUME NEW c \in Clients, toCall(c), c \in joined' <=> c \in joined,
         queue[AgentOf[c]] # << >> =>
           queue'[AgentOf[c]] # << >> /\ Head(queue'[AgentOf[c]]) = Head(queue[AgentOf[c]])
  PROVE  toCall(c)'
  BY DEF toCall, executes

\* The transaction of a client other than the callers, or of no client at all.
LEMMA NobodyElseCalls ==
  ASSUME AgentInv, NEW a \in Agents, NEW x,
         Head(queue[a]).op \in {"create", "delete"} => Head(queue[a]).item = x,
         NEW c \in Clients, c # x, AgentOf[c] = a
  PROVE  calling[c] = "no"
  BY CallerAtHead

\* A step that sends transactions and lets nobody call.
LEMMA CallersAfterSending ==
  ASSUME AgentInv, NEW a \in Agents, phase[a] = "ready", UNCHANGED <<phase, joined>>,
         NEW ts \in Seq(Transactions), Sends(a, ts),
         \A c \in Clients : calling'[c] # "no" => calling[c] # "no"
  PROVE  CallersWait'
<1> SUFFICES ASSUME NEW c \in Clients, calling'[c] # "no"
             PROVE  toCall(c)'
  BY DEF CallersWait
<1>1. toCall(c) /\ AgentOf[c] \in Agents
  BY AgentConstants DEF AgentInv, CallersWait, Items
<1> QED
  BY <1>1, StillCalling, SentQueue

\* A step that finishes the transaction of x.
LEMMA CallersAfterFinishing ==
  ASSUME AgentInv, NEW a \in Agents, UNCHANGED phase,
         NEW ts \in Seq(Transactions), Finishes(a, ts), NEW x,
         Head(queue[a]).op \in {"create", "delete"} => Head(queue[a]).item = x,
         x \in Clients => calling'[x] = "no",
         \A c \in Clients \ {x} : calling'[c] = calling[c] /\ (c \in joined' <=> c \in joined)
  PROVE  CallersWait'
<1> SUFFICES ASSUME NEW c \in Clients, calling'[c] # "no"
             PROVE  toCall(c)'
  BY DEF CallersWait
<1>1. c # x /\ calling[c] # "no" /\ toCall(c) /\ AgentOf[c] \in Agents
  BY AgentConstants DEF AgentInv, CallersWait, Items
<1>2. AgentOf[c] # a
  BY <1>1, NobodyElseCalls
<1> QED
  BY <1>1, <1>2, StillCalling, FinishedQueue

-----------------------------------------------------------------------------
(* Every step keeps the invariant. *)

LEMMA AgentInit == Init => AgentInv
<1> SUFFICES ASSUME Init PROVE AgentInv
  OBVIOUS
<1>1. \A s \in Services : IsTable(conns[s])
  BY EmptyTable DEF Init
<1>2. \A a \in Agents : IsMap(ifaces[a])
  BY DEF Init, IsMap, Empty
<1>3. queue \in [Agents -> Seq(Transactions)]
  BY EmptySeq DEF Init
<1>4. desired \subseteq Items /\ calls \in [Clients -> 0..MaxCalls]
  BY AgentsAssumption, BoundsAssumption DEF Init, Items
<1>5. AgentTypes
  BY <1>1, <1>2, <1>3, <1>4 DEF Init, AgentTypes
<1>6. QueuesOfReady /\ ServedConnections /\ MutexHeld /\ CallersWait
  BY DEF Init, QueuesOfReady, ServedConnections, MutexHeld, CallersWait, isFree
<1> QED
  BY <1>5, <1>6 DEF AgentInv

LEMMA StartStep ==
  ASSUME AgentInv, NEW a \in Agents, PluginInit(a) \/ PluginInitFails(a)
  PROVE  AgentInv'
<1>1. /\ phase[a] = "new" /\ phase' \in [Agents -> {"new", "inited", "ready", "failed"}]
      /\ phase'[a] # "ready" /\ \A b \in Agents \ {a} : phase'[b] = phase[b]
      /\ UNCHANGED <<desired, queue, tables, ifaces, rpc, joined>>
  BY DEF AgentInv, AgentTypes, PluginInit, PluginInitFails
<1>2. AgentTypes'
  BY <1>1 DEF AgentInv, AgentTypes, tables, rpc
<1>3. QueuesOfReady'
  <2>1. \A s \in endpoints : AgentOf[s] # a /\ AgentOf[s] \in Agents
    BY <1>1, AgentConstants DEF AgentInv, AgentTypes, QueuesOfReady, Items
  <2> QED
    BY <1>1, <2>1 DEF AgentInv, QueuesOfReady, tables
<1>4. ServedConnections' /\ MutexHeld' /\ CallersWait'
  BY <1>1 DEF AgentInv, ServedConnections, MutexHeld, CallersWait, isFree, toCall, executes,
              tables, rpc
<1> QED
  BY <1>2, <1>3, <1>4 DEF AgentInv

LEMMA AfterInitStep ==
  ASSUME AgentInv, NEW a \in Agents, AfterInit(a)
  PROVE  AgentInv'
<1> DEFINE n == Cardinality(itemsOf(a))
<1>1. /\ phase[a] = "inited" /\ phase' = [phase EXCEPT ![a] = "ready"]
      /\ UNCHANGED <<registered, desired, tables, ifaces, rpc, joined>>
  BY DEF AfterInit
<1>2. PICK order \in Seqs!SetToSeqs(itemsOf(a)) :
        queue' = [queue EXCEPT ![a] = [i \in DOMAIN order |-> change(order[i], TRUE)]]
  BY DEF AfterInit
<1>3. itemsOf(a) \subseteq Items /\ IsFiniteSet(itemsOf(a))
  <2>1. itemsOf(a) \in SUBSET (Services \cup Clients)
    BY DEF itemsOf, AgentInv, AgentTypes, Items
  <2> QED
    BY <2>1, ItemsAssumption, FS_Subset DEF Items
<1>4. n \in Nat /\ order \in [1..n -> itemsOf(a)]
  BY <1>3, OrderOf
<1> DEFINE q == [i \in 1..n |-> change(order[i], TRUE)]
<1>5. q \in Seq(Transactions)
  <2>1. q \in [1..n -> Transactions]
    BY <1>3, <1>4, ChangeType
  <2> HIDE DEF q, n
  <2> QED
    BY <1>4, <2>1, SeqDef
<1>6. queue' = [queue EXCEPT ![a] = q]
  BY <1>2, <1>4
<1> HIDE DEF q, n
<1>7. /\ queue' \in [Agents -> Seq(Transactions)]
      /\ \A b \in Agents \ {a} : queue'[b] = queue[b] /\ phase'[b] = phase[b]
      /\ phase' \in [Agents -> {"new", "inited", "ready", "failed"}] /\ phase'[a] = "ready"
      /\ queue[a] = << >>
  BY <1>1, <1>5, <1>6 DEF AgentInv, AgentTypes, QueuesOfReady
<1>8. AgentTypes'
  BY <1>1, <1>7 DEF AgentInv, AgentTypes, tables, rpc
<1>9. QueuesOfReady'
  BY <1>1, <1>7, AgentConstants DEF AgentInv, AgentTypes, QueuesOfReady, tables, Items
<1>10. ServedConnections' /\ MutexHeld'
  BY <1>1 DEF AgentInv, ServedConnections, MutexHeld, isFree, tables, rpc
<1>11. CallersWait'
  <2> SUFFICES ASSUME NEW c \in Clients, calling[c] # "no"
               PROVE  toCall(c)'
    BY <1>1 DEF CallersWait, rpc
  <2>1. toCall(c) /\ AgentOf[c] \in Agents
    BY AgentConstants DEF AgentInv, CallersWait, Items
  <2>2. AgentOf[c] # a
    BY <1>7, <2>1 DEF toCall, executes
  <2> QED
    BY <1>1, <1>7, <2>1, <2>2, StillCalling
<1> QED
  BY <1>8, <1>9, <1>10, <1>11 DEF AgentInv

LEMMA ConfigureStep ==
  ASSUME AgentInv, NEW x \in Items, Configure(x)
  PROVE  AgentInv'
<1> DEFINE a == AgentOf[x]
           t == change(x, x \notin desired)
<1>1. a \in Agents /\ t \in Transactions /\ desired' \subseteq Items
      /\ UNCHANGED <<startup, tables, ifaces, rpc, joined>>
  BY AgentConstants, ChangeType DEF Configure, AgentInv, AgentTypes
<1>2. CASE phase[a] = "ready"
  <2>1. <<t>> \in Seq(Transactions) /\ queue[a] \in Seq(Transactions)
    BY <1>1 DEF AgentInv, AgentTypes
  <2>2. Sends(a, <<t>>)
    <3>1. queue' = [queue EXCEPT ![a] = Append(queue[a], t)]
      BY <1>2 DEF Configure
    <3> HIDE DEF t, a
    <3> QED
      BY <1>1, <2>1, <3>1, AppendIsConcat DEF Sends
  <2> HIDE DEF a, t
  <2>3. AgentTypes' /\ QueuesOfReady'
    BY <1>1, <1>2, <2>1, <2>2, SentQueue
       DEF AgentInv, AgentTypes, QueuesOfReady, startup, tables, rpc
  <2>4. ServedConnections' /\ MutexHeld'
    BY <1>1 DEF AgentInv, ServedConnections, MutexHeld, isFree, tables, rpc
  <2>5. CallersWait'
    BY <1>1, <1>2, <2>1, <2>2, CallersAfterSending DEF startup, rpc
  <2> QED
    BY <2>3, <2>4, <2>5 DEF AgentInv
<1>3. CASE phase[a] # "ready"
  <2>1. UNCHANGED queue
    BY <1>3 DEF Configure
  <2> QED
    BY <1>1, <2>1 DEF AgentInv, AgentTypes, QueuesOfReady, ServedConnections, MutexHeld, CallersWait,
                      isFree, toCall, executes, startup, tables, rpc
<1> QED
  BY <1>2, <1>3

LEMMA ExecuteInterfaceStep ==
  ASSUME AgentInv, NEW a \in Agents, ExecuteInterface(a)
  PROVE  AgentInv'
<1>1. /\ queue[a] # << >> /\ Head(queue[a]).op = "interface"
      /\ queue' = [queue EXCEPT ![a] = Tail(@)]
      /\ ifaces' = [ifaces EXCEPT ![a] = applied(a, ifaces[a], Head(queue[a]))]
      /\ UNCHANGED <<startup, desired, tables, rpc, joined>>
  BY DEF ExecuteInterface
<1>2. Finishes(a, << >>) /\ << >> \in Seq(Transactions)
  BY <1>1, FinishesAlone
<1>3. DOMAIN ifaces' = Agents /\ \A b \in Agents : IsMap(ifaces'[b])
  <2>1. DOMAIN ifaces = Agents /\ \A b \in Agents : IsMap(ifaces[b])
    BY DEF AgentInv, AgentTypes
  <2>2. IsMap(applied(a, ifaces[a], Head(queue[a])))
    BY <2>1, AppliedIsMap
  <2>3. \A b \in Agents : ifaces'[b] = IF b = a THEN applied(a, ifaces[a], Head(queue[a]))
                                                ELSE ifaces[b]
    BY <1>1, <2>1
  <2> QED
    BY <1>1, <2>1, <2>2, <2>3
<1>4. AgentTypes' /\ QueuesOfReady'
  BY <1>1, <1>2, <1>3, FinishedQueue
     DEF AgentInv, AgentTypes, QueuesOfReady, startup, tables, rpc
<1>5. ServedConnections' /\ MutexHeld'
  BY <1>1 DEF AgentInv, ServedConnections, MutexHeld, isFree, tables, rpc
<1>6. CallersWait'
  <2>1. \A c \in Clients : AgentOf[c] = a => calling[c] = "no"
    BY <1>1, CallerAtHead
  <2> SUFFICES ASSUME NEW c \in Clients, calling[c] # "no"
               PROVE  toCall(c)'
    BY <1>1 DEF CallersWait, rpc
  <2>2. toCall(c) /\ AgentOf[c] \in Agents \ {a}
    BY <2>1, AgentConstants DEF AgentInv, CallersWait, Items
  <2> QED
    BY <1>1, <1>2, <2>2, StillCalling, FinishedQueue DEF startup
<1> QED
  BY <1>4, <1>5, <1>6 DEF AgentInv

LEMMA AddEndpointStep ==
  ASSUME AgentInv, NEW s \in Services, AddEndpoint(s)
  PROVE  AgentInv'
<1> DEFINE a == AgentOf[s]
<1>1. /\ executes(a, "create", s)
      /\ queue' = [queue EXCEPT ![a] = Tail(@)]
      /\ endpoints' = endpoints \cup {s}
      /\ UNCHANGED <<startup, desired, conns, ifaces, rpc, joined>>
      /\ a \in Agents
  BY AgentConstants DEF AddEndpoint, Items
<1>2. Finishes(a, << >>) /\ << >> \in Seq(Transactions)
  BY <1>1, FinishesAlone DEF executes
<1> HIDE DEF a
<1>3. AgentTypes' /\ QueuesOfReady'
  BY <1>1, <1>2, FinishedQueue
     DEF AgentInv, AgentTypes, QueuesOfReady, startup, rpc, a
<1>4. ServedConnections' /\ MutexHeld'
  BY <1>1 DEF AgentInv, ServedConnections, MutexHeld, isFree, rpc
<1>5. CallersWait'
  <2>1. Head(queue[a]).item = s /\ s \notin Clients
    BY <1>1, ItemsAssumption DEF executes
  <2> QED
    BY <1>1, <1>2, <2>1, CallersAfterFinishing DEF startup, rpc
<1> QED
  BY <1>3, <1>4, <1>5 DEF AgentInv

LEMMA DeleteEndpointStep ==
  ASSUME AgentInv, NEW s \in Services, DeleteEndpoint(s)
  PROVE  AgentInv'
<1> DEFINE a == AgentOf[s]
<1>1. /\ executes(a, "delete", s)
      /\ conns' = [conns EXCEPT ![s] = Empty]
      /\ endpoints' = endpoints \ {s}
      /\ UNCHANGED <<startup, desired, ifaces, rpc, joined>>
      /\ a \in Agents
  BY AgentConstants DEF DeleteEndpoint, Items
<1>2. PICK ids \in taken(s) : \E order \in Seqs!SetToSeqs(ids) :
        queue' = [queue EXCEPT ![a] = Tail(@) \o closings(s, order)]
  BY DEF DeleteEndpoint
<1>2a. PICK order \in Seqs!SetToSeqs(ids) :
         queue' = [queue EXCEPT ![a] = Tail(@) \o closings(s, order)]
  BY <1>2
<1> DEFINE ts == closings(s, order)
<1>3. Finishes(a, ts) /\ ts \in Seq(Transactions)
  BY <1>1, <1>2a, ClosingsType DEF Finishes, executes, AgentInv
<1> HIDE DEF a, ts
<1>4. DOMAIN conns' = Services /\ conns'[s] = Empty
      /\ \A x \in Services \ {s} : conns'[x] = conns[x]
  BY <1>1 DEF AgentInv, AgentTypes
<1>5. \A x \in Services : IsTable(conns'[x])
  BY <1>4, EmptyTable DEF AgentInv, AgentTypes
<1>6. AgentTypes' /\ QueuesOfReady'
  BY <1>1, <1>3, <1>4, <1>5, FinishedQueue
     DEF AgentInv, AgentTypes, QueuesOfReady, startup, rpc
<1>7. ServedConnections' /\ MutexHeld'
  BY <1>1, <1>4 DEF AgentInv, ServedConnections, MutexHeld, isFree, rpc
<1>8. CallersWait'
  <2>1. Head(queue[a]).item = s /\ s \notin Clients
    BY <1>1, ItemsAssumption DEF executes
  <2> QED
    BY <1>1, <1>3, <2>1, CallersAfterFinishing DEF startup, rpc
<1> QED
  BY <1>6, <1>7, <1>8 DEF AgentInv

LEMMA CallStep ==
  ASSUME AgentInv, NEW c \in Clients, Call(c)
  PROVE  AgentInv'
<1> DEFINE a == AgentOf[c]
           ts == IF c \in joined THEN <<clientInterface(c, NoValue)>> ELSE << >>
           h == [client |-> c, n |-> calls[c] + 1,
                 kind |-> IF c \in joined THEN "close" ELSE "request"]
<1>1. /\ toCall(c) /\ calling[c] = "no" /\ calls[c] < MaxCalls
      /\ calls' = [calls EXCEPT ![c] = @ + 1]
      /\ Sends(a, ts)
      /\ \/ /\ calling' = [calling EXCEPT ![c] = "waiting"]
            /\ handlers' = handlers \cup {h}
         \/ /\ calling' = [calling EXCEPT ![c] = "failed"]
            /\ UNCHANGED handlers
      /\ UNCHANGED <<startup, desired, tables, ifaces, mutex, joined>>
      /\ a \in Agents
  BY AgentConstants DEF Call, Items, Sends
<1>2. ts \in Seq(Transactions)
  BY ClientInterfaceType, EmptySeq
<1>3. phase[a] = "ready"
  BY <1>1 DEF AgentInv, QueuesOfReady, toCall, executes
<1>4. h \in Handler /\ calls' \in [Clients -> 0..MaxCalls]
  BY <1>1, BoundsAssumption DEF Handler, AgentInv, AgentTypes
<1>5. handlers' \subseteq Handler /\ handlers \subseteq handlers'
      /\ calling' \in [Clients -> {"no", "waiting", "answered", "failed"}]
      /\ \A d \in Clients \ {c} : calling'[d] = calling[d]
  BY <1>1, <1>4 DEF AgentInv, AgentTypes
<1> HIDE DEF a, ts, h
<1>6. AgentTypes' /\ QueuesOfReady'
  BY <1>1, <1>2, <1>3, <1>4, <1>5, SentQueue
     DEF AgentInv, AgentTypes, QueuesOfReady, startup, tables
<1>7. ServedConnections' /\ MutexHeld'
  BY <1>1, <1>5 DEF AgentInv, ServedConnections, MutexHeld, isFree, tables
<1>8. CallersWait'
  <2> SUFFICES ASSUME NEW d \in Clients, calling'[d] # "no"
               PROVE  toCall(d)'
    BY DEF CallersWait
  <2>1. toCall(d) /\ AgentOf[d] \in Agents
    BY <1>1, <1>5, AgentConstants DEF AgentInv, CallersWait, Items
  <2> QED
    BY <1>1, <1>2, <1>3, <2>1, StillCalling, SentQueue DEF startup
<1> QED
  BY <1>6, <1>7, <1>8 DEF AgentInv

\* The result of a call, or nothing to do.
LEMMA ClientStep ==
  ASSUME AgentInv, NEW c \in Clients, Called(c) \/ CallFailed(c) \/ Skip(c)
  PROVE  \E ts \in Seq(Transactions) :
           /\ Finishes(AgentOf[c], ts) /\ AgentOf[c] \in Agents
           /\ Head(queue[AgentOf[c]]).item = c
           /\ Head(queue[AgentOf[c]]).op \in {"create", "delete"}
           /\ ts \in {<< >>, <<clientInterface(c, c)>>, <<Head(queue[AgentOf[c]])>>}
<1> DEFINE a == AgentOf[c]
<1>1. a \in Agents
  BY AgentConstants DEF Items
<1>2. /\ queue[a] # << >> /\ Head(queue[a]).item = c /\ Head(queue[a]).op \in {"create", "delete"}
  <2>1. CASE calling[c] # "no"
    BY <2>1, CallerAtHead
  <2>2. CASE Skip(c)
    BY <2>2 DEF Skip, executes
  <2> QED
    BY <2>1, <2>2 DEF Called, CallFailed
<1>3. << >> \in Seq(Transactions) /\ <<clientInterface(c, c)>> \in Seq(Transactions)
      /\ <<Head(queue[a])>> \in Seq(Transactions)
  <2>1. Head(queue[a]) \in Transactions
    BY <1>1, <1>2, HeadTailProperties DEF AgentInv, AgentTypes
  <2> QED
    BY <2>1, ClientInterfaceType, EmptySeq
<1> DEFINE next == IF c \in joined THEN << >> ELSE <<clientInterface(c, c)>>
           retry == IF calls[c] < MaxCalls /\ (c \in desired) # (c \in joined)
                      THEN <<Head(queue[a])>> ELSE << >>
<1>4. CASE Called(c)
  <2>1. Finishes(a, next) /\ next \in Seq(Transactions)
    BY <1>2, <1>3, <1>4 DEF Called, Finishes
  <2> QED
    BY <1>1, <1>2, <2>1
<1>5. CASE CallFailed(c)
  <2>1. Finishes(a, retry) /\ retry \in Seq(Transactions)
    BY <1>2, <1>3, <1>5 DEF CallFailed, Finishes
  <2> QED
    BY <1>1, <1>2, <2>1
<1>6. CASE Skip(c)
  <2>1. Finishes(a, << >>)
    BY <1>1, <1>2, <1>6, FinishesAlone DEF Skip
  <2> QED
    BY <1>1, <1>2, <1>3, <2>1
<1> QED
  BY <1>4, <1>5, <1>6

LEMMA ResultStep ==
  ASSUME AgentInv, NEW c \in Clients, Called(c) \/ CallFailed(c) \/ Skip(c)
  PROVE  AgentInv'
<1>1. PICK ts \in Seq(Transactions) :
        /\ Finishes(AgentOf[c], ts) /\ AgentOf[c] \in Agents
        /\ Head(queue[AgentOf[c]]).item = c
  BY ClientStep
<1>2. /\ calling' \in [Clients -> {"no", "waiting", "answered", "failed"}]
      /\ calling'[c] = "no"
      /\ \A d \in Clients \ {c} : calling'[d] = calling[d] /\ (d \in joined' <=> d \in joined)
      /\ joined' \subseteq Clients
      /\ UNCHANGED <<startup, desired, tables, ifaces, mutex, handlers, calls>>
  BY DEF AgentInv, AgentTypes, Called, CallFailed, Skip, rpc
<1>3. AgentTypes' /\ QueuesOfReady'
  BY <1>1, <1>2, FinishedQueue DEF AgentInv, AgentTypes, QueuesOfReady, startup, tables
<1>4. ServedConnections' /\ MutexHeld'
  BY <1>2 DEF AgentInv, ServedConnections, MutexHeld, isFree, tables
<1>5. CallersWait'
  BY <1>1, <1>2, CallersAfterFinishing DEF startup
<1> QED
  BY <1>3, <1>4, <1>5 DEF AgentInv

LEMMA GiveUpStep ==
  ASSUME AgentInv, NEW c \in Clients, GiveUp(c)
  PROVE  AgentInv'
<1>1. /\ calling' \in [Clients -> {"no", "waiting", "answered", "failed"}]
      /\ \A d \in Clients : calling'[d] # "no" => calling[d] # "no"
      /\ UNCHANGED <<startup, desired, queue, tables, ifaces, mutex, handlers, calls, joined>>
  BY DEF GiveUp, AgentInv, AgentTypes
<1> QED
  BY <1>1 DEF AgentInv, AgentTypes, QueuesOfReady, ServedConnections, MutexHeld, CallersWait,
              isFree, toCall, executes, startup, tables

-----------------------------------------------------------------------------
(* The handlers. *)

\* The service and the connection a handler is about.
serviceOf(h) == ServiceOf[h.client]
connOf(h) == ConnectionOf[h.client]
agentOf(h) == AgentOf[serviceOf(h)]

LEMMA HandlerConstants ==
  ASSUME AgentInv, NEW h \in handlers
  PROVE  /\ h \in Handler /\ h.client \in Clients
         /\ serviceOf(h) \in Services /\ agentOf(h) \in Agents
         /\ connOf(h) \in Requests /\ connOf(h) \in Conn
         /\ IsTable(conns[serviceOf(h)])
         /\ serviceOf(h) \in endpoints => phase[agentOf(h)] = "ready"
  BY AgentConstants
     DEF AgentInv, AgentTypes, QueuesOfReady, Handler, serviceOf, agentOf, connOf

LEMMA AnswerKeeps ==
  ASSUME AgentInv, NEW h \in handlers, NEW result \in {"answered", "failed"},
         calling' = answer(h, result) \/ calling' = calling
  PROVE  /\ calling' \in [Clients -> {"no", "waiting", "answered", "failed"}]
         /\ \A c \in Clients : calling'[c] # "no" => calling[c] # "no"
  BY HandlerConstants DEF answer, isAwaited, AgentInv, AgentTypes

\* The table of one service changes, while it is served.
LEMMA ServedChange ==
  ASSUME AgentInv, NEW s \in Services, s \in endpoints, UNCHANGED endpoints,
         NEW t, IsTable(t), conns' = [conns EXCEPT ![s] = t]
  PROVE  /\ DOMAIN conns' = Services /\ \A x \in Services : IsTable(conns'[x])
         /\ ServedConnections'
<1>1. DOMAIN conns' = Services /\ conns'[s] = t /\ \A x \in Services \ {s} : conns'[x] = conns[x]
  BY DEF AgentInv, AgentTypes
<1> QED
  BY <1>1 DEF AgentInv, AgentTypes, ServedConnections

\* A handler that does not hold a mutex ends: no mutex is held by it.
LEMMA HandlerEnds ==
  ASSUME AgentInv, NEW h \in handlers, h \notin Range(mutex), handlers' = handlers \ {h},
         UNCHANGED mutex
  PROVE  MutexHeld' /\ handlers' \subseteq Handler
<1>1. \A a \in Agents : mutex[a] # h
  BY DEF AgentInv, AgentTypes, Range
<1> QED
  BY <1>1 DEF AgentInv, AgentTypes, MutexHeld, isFree

LEMMA CloseTable ==
  ASSUME NEW t, IsTable(t), NEW conn
  PROVE  IsTable(connectionsAfterClose(t, conn))
  BY RemoveTable DEF connectionsAfterClose

\* What a handler sends, and to whom.
LEMMA HandlerSends ==
  ASSUME AgentInv, NEW h \in handlers, serviceOf(h) \in endpoints, UNCHANGED <<startup, endpoints>>,
         NEW ts \in Seq(Transactions), Sends(agentOf(h), ts),
         NEW t, IsTable(t), conns' = [conns EXCEPT ![serviceOf(h)] = t],
         calling' \in [Clients -> {"no", "waiting", "answered", "failed"}],
         \A c \in Clients : calling'[c] # "no" => calling[c] # "no",
         handlers' \subseteq Handler, mutex' \in [Agents -> Handler \cup {NoCall}], MutexHeld',
         UNCHANGED <<desired, ifaces, calls, joined>>
  PROVE  AgentInv'
<1>1. /\ serviceOf(h) \in Services /\ agentOf(h) \in Agents /\ phase[agentOf(h)] = "ready"
  BY HandlerConstants
<1>2. /\ DOMAIN conns' = Services /\ (\A x \in Services : IsTable(conns'[x]))
      /\ ServedConnections'
  BY <1>1, ServedChange
<1>3. AgentTypes' /\ QueuesOfReady'
  BY <1>1, <1>2, SentQueue DEF AgentInv, AgentTypes, QueuesOfReady, startup
<1>4. CallersWait'
  BY <1>1, CallersAfterSending DEF startup
<1> QED
  BY <1>2, <1>3, <1>4 DEF AgentInv

\* A handler that changes nothing but its caller's knowledge.
LEMMA HandlerRefuses ==
  ASSUME AgentInv, NEW h \in handlers, h \notin Range(mutex), handlers' = handlers \ {h},
         calling' = answer(h, "failed"),
         UNCHANGED <<startup, desired, queue, tables, ifaces, mutex, calls, joined>>
  PROVE  AgentInv'
<1>1. /\ calling' \in [Clients -> {"no", "waiting", "answered", "failed"}]
      /\ \A c \in Clients : calling'[c] # "no" => calling[c] # "no"
  BY AnswerKeeps
<1>2. MutexHeld' /\ handlers' \subseteq Handler
  BY HandlerEnds
<1> QED
  BY <1>1, <1>2 DEF AgentInv, AgentTypes, QueuesOfReady, ServedConnections, CallersWait,
                    toCall, executes, startup, tables

LEMMA RequestDeclinedStep ==
  ASSUME AgentInv, NEW h \in handlers, h \notin Range(mutex), RequestDeclined(h)
  PROVE  AgentInv'
<1> DEFINE s == serviceOf(h)
           a == agentOf(h)
           conn == connOf(h)
<1>1. /\ handlers' = handlers \ {h}
      /\ calling' = answer(h, "failed")
      /\ UNCHANGED <<startup, desired, endpoints, ifaces, mutex, calls, joined>>
  BY DEF RequestDeclined
<1>2. CASE canServe(s, conn)
  <2>1. /\ conns' = [conns EXCEPT ![s] = connectionsAfterClose(conns[s], conn)]
        /\ s \in endpoints
    BY <1>2 DEF RequestDeclined, canServe, serviceOf, agentOf, connOf
  <2>1a. PICK ts \in closing(s, conn) : Sends(a, ts)
    BY <1>2 DEF RequestDeclined, Sends, serviceOf, agentOf, connOf
  <2>2. /\ ts \in Seq(Transactions)
        /\ IsTable(connectionsAfterClose(conns[s], conn))
    BY HandlerConstants, ClosingType, CloseTable DEF AgentInv
  <2>3. MutexHeld' /\ handlers' \subseteq Handler /\ mutex' \in [Agents -> Handler \cup {NoCall}]
    BY <1>1, HandlerEnds DEF AgentInv, AgentTypes
  <2>4. /\ calling' \in [Clients -> {"no", "waiting", "answered", "failed"}]
        /\ \A c \in Clients : calling'[c] # "no" => calling[c] # "no"
    BY <1>1, AnswerKeeps
  <2> QED
    BY <1>1, <2>1, <2>1a, <2>2, <2>3, <2>4, HandlerSends
<1>3. CASE ~canServe(s, conn)
  <2>1. UNCHANGED <<conns, queue>>
    BY <1>3 DEF RequestDeclined, serviceOf, connOf
  <2> QED
    BY <1>1, <2>1, HandlerRefuses DEF tables
<1> QED
  BY <1>2, <1>3

LEMMA CloseConnectionStep ==
  ASSUME AgentInv, NEW h \in handlers, h \notin Range(mutex), CloseConnection(h)
  PROVE  AgentInv'
<1> DEFINE s == serviceOf(h)
           a == agentOf(h)
           conn == connOf(h)
           t == ifaceTxn(keyIn(s, conns[s], conn), NoValue, NoCall)
<1>1. /\ handlers' = handlers \ {h}
      /\ UNCHANGED <<startup, desired, endpoints, ifaces, mutex, calls, joined>>
  BY DEF CloseConnection
<1>2. CASE canServe(s, conn)
  <2>1. /\ conns' = [conns EXCEPT ![s] = connectionsAfterClose(@, conn)]
        /\ calling' = answer(h, "answered")
        /\ s \in endpoints
    BY <1>2 DEF CloseConnection, canServe, serviceOf, connOf
  <2>2. conns' = [conns EXCEPT ![s] = connectionsAfterClose(conns[s], conn)]
    BY <2>1
  <2>3. PICK ts \in sending(t) : Sends(a, ts)
    BY <1>2 DEF CloseConnection, Sends, serviceOf, agentOf, connOf
  <2>4. t \in Transactions /\ IsTable(connectionsAfterClose(conns[s], conn))
    BY HandlerConstants, EndpointInterfaceType, CloseTable
  <2> HIDE DEF a, t
  <2>5. ts \in Seq(Transactions)
    BY <2>3, <2>4, SendingType
  <2>6. MutexHeld' /\ handlers' \subseteq Handler /\ mutex' \in [Agents -> Handler \cup {NoCall}]
    BY <1>1, HandlerEnds DEF AgentInv, AgentTypes
  <2>7. /\ calling' \in [Clients -> {"no", "waiting", "answered", "failed"}]
        /\ \A c \in Clients : calling'[c] # "no" => calling[c] # "no"
    BY <2>1, AnswerKeeps
  <2> QED
    BY <1>1, <2>1, <2>2, <2>3, <2>4, <2>5, <2>6, <2>7, HandlerSends DEF a
<1>3. CASE ~canServe(s, conn)
  <2>1. UNCHANGED <<conns, queue>> /\ calling' = answer(h, "failed")
    BY <1>3 DEF CloseConnection, serviceOf, connOf
  <2> QED
    BY <1>1, <2>1, HandlerRefuses DEF tables
<1> QED
  BY <1>2, <1>3

\* Two sends one after the other.
LEMMA SentInTurn ==
  ASSUME NEW q \in Seq(Transactions), NEW p \in Seq(Transactions), NEW u \in Seq(Transactions)
  PROVE  (q \o p) \o u = q \o (p \o u)
  BY ConcatAssociative

LEMMA RequestStartStep ==
  ASSUME AgentInv, NEW h \in handlers, RequestStart(h)
  PROVE  AgentInv'
<1> DEFINE s == serviceOf(h)
           a == agentOf(h)
           conn == connOf(h)
           without == connectionsAfterClose(conns[s], conn)
           stored == connectionsAfterOpen(ServiceConfig[s], without, conn)
           t == ifaceTxn(keyIn(s, without, conn), interfaceValue(ServiceConfig[s], conn), h)
<1>1. /\ canServe(s, conn)
      /\ conns' = [conns EXCEPT ![s] = stored]
      /\ mutex' = [mutex EXCEPT ![a] = h]
      /\ UNCHANGED <<startup, desired, endpoints, ifaces, handlers, calling, calls, joined>>
  BY DEF RequestStart, serviceOf, agentOf, connOf
<1>1a. PICK p \in closing(s, conn), u \in sending(t) :
         queue' = [queue EXCEPT ![a] = @ \o p \o u]
  BY DEF RequestStart, serviceOf, agentOf, connOf
<1>2. s \in Services /\ a \in Agents /\ conn \in Conn /\ h \in Handler /\ s \in endpoints
  BY <1>1, HandlerConstants DEF canServe
<1>3. IsTable(without) /\ IsTable(stored)
  BY <1>2, HandlerConstants, CloseTable, OpenTable, AgentConstants
<1>4. p \in Seq(Transactions) /\ u \in Seq(Transactions)
  <2>1. t \in Transactions
    BY <1>2, <1>3, EndpointInterfaceType
  <2> QED
    BY <1>2, <2>1, ClosingType, SendingType DEF AgentInv
<1> DEFINE ts == p \o u
<1>5. Sends(a, ts) /\ ts \in Seq(Transactions)
  <2>1. queue[a] \in Seq(Transactions)
    BY <1>2 DEF AgentInv, AgentTypes
  <2>2. ts \in Seq(Transactions)
    BY <1>4, ConcatProperties
  <2>3. (queue[a] \o p) \o u = queue[a] \o ts
    BY <2>1, <1>4, SentInTurn
  <2> HIDE DEF a, t
  <2>4. queue' = [queue EXCEPT ![a] = (queue[a] \o p) \o u]
    BY <1>1a
  <2> QED
    BY <2>2, <2>3, <2>4 DEF Sends
<1>6. mutex' \in [Agents -> Handler \cup {NoCall}] /\ MutexHeld'
  <2>1. /\ mutex' \in [Agents -> Handler \cup {NoCall}] /\ mutex'[a] = h
        /\ \A b \in Agents \ {a} : mutex'[b] = mutex[b]
    BY <1>1, <1>2 DEF AgentInv, AgentTypes
  <2> QED
    BY <1>1, <1>2, <2>1 DEF AgentInv, MutexHeld, isFree, agentOf, serviceOf
<1> HIDE DEF s, ts, stored, conn
<1> QED
  BY <1>1, <1>2, <1>3, <1>5, <1>6, HandlerSends DEF s, AgentInv, AgentTypes

LEMMA RequestEndStep ==
  ASSUME AgentInv, NEW a \in Agents, RequestEnd(a)
  PROVE  AgentInv'
<1> DEFINE h == mutex[a]
<1>1. /\ ~isFree(a) /\ mutex' = [mutex EXCEPT ![a] = NoCall]
      /\ handlers' = handlers \ {h} /\ calling' = answer(h, "answered")
      /\ UNCHANGED <<startup, desired, queue, tables, ifaces, calls, joined>>
  BY DEF RequestEnd
<1>2. h \in handlers /\ AgentOf[ServiceOf[h.client]] = a
  BY <1>1 DEF AgentInv, MutexHeld
<1>3. /\ calling' \in [Clients -> {"no", "waiting", "answered", "failed"}]
      /\ \A c \in Clients : calling'[c] # "no" => calling[c] # "no"
  BY <1>1, <1>2, AnswerKeeps
<1>4. MutexHeld' /\ mutex' \in [Agents -> Handler \cup {NoCall}] /\ handlers' \subseteq Handler
  <2>1. /\ mutex' \in [Agents -> Handler \cup {NoCall}] /\ mutex'[a] = NoCall
        /\ \A b \in Agents \ {a} : mutex'[b] = mutex[b]
    BY <1>1 DEF AgentInv, AgentTypes
  <2>2. \A b \in Agents \ {a} : ~isFree(b) => mutex[b] # h
    BY <1>2 DEF AgentInv, MutexHeld
  <2> QED
    BY <1>1, <2>1, <2>2 DEF AgentInv, AgentTypes, MutexHeld, isFree
<1> QED
  BY <1>1, <1>3, <1>4 DEF AgentInv, AgentTypes, QueuesOfReady, ServedConnections, CallersWait,
                          toCall, executes, startup, tables

-----------------------------------------------------------------------------
LEMMA AgentStep == AgentInv /\ [Next]_vars => AgentInv'
<1> SUFFICES ASSUME AgentInv, [Next]_vars PROVE AgentInv'
  OBVIOUS
<1>1. CASE UNCHANGED vars
  BY <1>1 DEF AgentInv, AgentTypes, QueuesOfReady, ServedConnections, MutexHeld, CallersWait,
              isFree, toCall, executes, vars, startup, tables, rpc
<1>2. ASSUME NEW a \in Agents, PluginInit(a) \/ PluginInitFails(a) \/ AfterInit(a) \/ RequestEnd(a)
      PROVE  AgentInv'
  BY <1>2, StartStep, AfterInitStep, RequestEndStep
<1>3. ASSUME NEW a \in Agents, Scheduler(a) PROVE AgentInv'
  BY <1>3, ExecuteInterfaceStep, AddEndpointStep, DeleteEndpointStep, CallStep, ResultStep
     DEF Scheduler
<1>4. ASSUME NEW x \in Services \cup Clients, Configure(x) PROVE AgentInv'
  BY <1>4, ConfigureStep DEF Items
<1>5. ASSUME NEW c \in Clients, GiveUp(c) \/ HandlerOf(c) PROVE AgentInv'
  BY <1>5, GiveUpStep, RequestDeclinedStep, RequestStartStep, CloseConnectionStep DEF HandlerOf
<1> QED
  BY <1>1, <1>2, <1>3, <1>4, <1>5 DEF Next

\* Types: the mutex of a demultiplexer is only ever held by a running handler
\* of one of its own services, a scheduler that has called waits at the very
\* transaction that made it call, and only services that are registered have
\* connections, whatever the agents, the callers and the configuration do
\* (AddEndpoint, DeleteEndpoint, Request, Close, Create, Delete).
THEOREM AgentTypeOK == Spec => []TypeOK
<1>1. AgentInv => TypeOK
  <2> SUFFICES ASSUME AgentInv PROVE TypeOK
    OBVIOUS
  <2>1. \A a \in Agents : \A i \in DOMAIN queue[a] :
          queue[a][i].op \in {"create", "delete", "interface"}
    <3> TAKE a \in Agents
    <3> TAKE i \in DOMAIN queue[a]
    <3>1. queue[a][i] \in Transactions
      BY LenProperties, ElementOfSeq DEF AgentInv, AgentTypes
    <3> QED
      BY <3>1 DEF Transactions, Changes, InterfaceTxn
  <2>2. \A c \in Clients : calls[c] \in 0..MaxCalls
    BY DEF AgentInv, AgentTypes
  <2> QED
    BY <2>1, <2>2 DEF AgentInv, AgentTypes, MutexHeld, CallersWait, ServedConnections, TypeOK, Items
<1> QED
  BY <1>1, AgentInit, AgentStep, PTL DEF Spec

-----------------------------------------------------------------------------
(* What a queue makes of the interfaces of an agent. *)

\* The last of the writes of an interface.
LEMMA LastWriteExists ==
  ASSUME NEW q \in Seq(Transactions), NEW k, writesTo(q, k) # {}
  PROVE  \E m \in writesTo(q, k) : \A j \in writesTo(q, k) : j <= m
<1> DEFINE n == Len(q)
           W == writesTo(q, k)
           Rest == {n - i : i \in W}
<1>1. n \in Nat /\ W \subseteq 1..n
  BY LenProperties DEF writesTo
<1> HIDE DEF n, W
<1>2. Rest \in SUBSET Nat /\ Rest # {}
  BY <1>1 DEF W
<1>3. PICK x \in Rest : \A y \in Rest : x <= y
  <2> HIDE DEF Rest
  <2> QED
    BY <1>2, LeastNatural
<1>4. PICK m \in W : x = n - m
  OBVIOUS
<1>5. \A j \in W : j <= m
  <2> TAKE j \in W
  <2>1. n - j \in Rest
    OBVIOUS
  <2>2. x <= n - j
    BY <2>1, <1>3
  <2> QED
    BY <2>2, <1>1, <1>4
<1> QED
  BY <1>5 DEF W

LEMMA LastWrite ==
  ASSUME NEW q \in Seq(Transactions), NEW k, NEW m \in writesTo(q, k),
         \A j \in writesTo(q, k) : j <= m
  PROVE  lastValue(q, k) = q[m].value
<1>1. writesTo(q, k) \subseteq 1..Len(q) /\ Len(q) \in Nat
  BY LenProperties DEF writesTo
<1>2. \A i \in writesTo(q, k) : i \in Int /\ i <= m
  BY <1>1
<1>3. Max(writesTo(q, k)) = m
  BY <1>2 DEF Max
<1> QED
  BY <1>3 DEF lastValue

LEMMA WritesOfConcat ==
  ASSUME NEW q \in Seq(Transactions), NEW s \in Seq(Transactions), NEW k
  PROVE  writesTo(q \o s, k) = writesTo(q, k) \cup {Len(q) + i : i \in writesTo(s, k)}
<1> DEFINE n == Len(q)
           m == Len(s)
<1>1. /\ n \in Nat /\ m \in Nat /\ DOMAIN q = 1..n /\ DOMAIN s = 1..m
      /\ q \o s \in Seq(Transactions) /\ Len(q \o s) = n + m
      /\ \A i \in 1..n + m : (q \o s)[i] = IF i <= n THEN q[i] ELSE s[i - n]
  BY LenProperties, ConcatProperties
<1>2. DOMAIN (q \o s) = 1..n + m
  BY <1>1, LenProperties
<1> HIDE DEF n, m
<1>3. \A i \in 1..n : (q \o s)[i] = q[i] /\ i \in 1..n + m
  BY <1>1
<1>4. \A i \in 1..m : (q \o s)[n + i] = s[i] /\ n + i \in 1..n + m
  BY <1>1
<1>5. \A i \in 1..n + m : i \in 1..n \/ \E j \in 1..m : i = n + j
  <2> TAKE i \in 1..n + m
  <2>1. i \in 1..n \/ (i - n \in 1..m /\ i = n + (i - n))
    BY <1>1
  <2> QED
    BY <2>1
<1> DEFINE U == writesTo(q, k)
           V == writesTo(s, k)
           W == writesTo(q \o s, k)
<1>6. /\ \A i : i \in U <=> i \in 1..n /\ q[i].op = "interface" /\ q[i].key = k
      /\ \A i : i \in V <=> i \in 1..m /\ s[i].op = "interface" /\ s[i].key = k
      /\ \A i : i \in W <=> i \in 1..n + m /\ (q \o s)[i].op = "interface" /\ (q \o s)[i].key = k
  BY <1>1, <1>2 DEF writesTo
<1> HIDE DEF U, V, W
<1>7. \A i \in U : i \in W
  BY <1>3, <1>6
<1>8. \A i \in V : n + i \in W
  <2> TAKE i \in V
  <2>1. i \in 1..m /\ s[i].op = "interface" /\ s[i].key = k
    BY <1>6
  <2>2. (q \o s)[n + i] = s[i] /\ n + i \in 1..n + m
    BY <1>4, <2>1
  <2> QED
    BY <2>1, <2>2, <1>6
<1>9. \A i \in W : i \in U \/ \E j \in V : i = n + j
  <2> TAKE i \in W
  <2>1. CASE i \in 1..n
    BY <2>1, <1>3, <1>6
  <2>2. ASSUME NEW j \in 1..m, i = n + j PROVE j \in V
    <3>1. (q \o s)[i] = s[j]
      BY <2>2, <1>4
    <3>2. (q \o s)[i].op = "interface" /\ (q \o s)[i].key = k
      BY <1>6
    <3>3. s[j].op = "interface" /\ s[j].key = k
      BY <3>1, <3>2
    <3> QED
      BY <2>2, <3>3, <1>6
  <2> QED
    BY <2>1, <2>2, <1>5, <1>6
<1>10. W = U \cup {n + i : i \in V}
  BY <1>7, <1>8, <1>9
<1> QED
  BY <1>10 DEF U, V, W, n

LEMMA LastOfConcat ==
  ASSUME NEW q \in Seq(Transactions), NEW s \in Seq(Transactions), NEW k
  PROVE  /\ writesTo(s, k) # {} => lastValue(q \o s, k) = lastValue(s, k)
         /\ writesTo(s, k) = {} /\ writesTo(q, k) # {} => lastValue(q \o s, k) = lastValue(q, k)
<1> DEFINE n == Len(q)
<1>1. n \in Nat /\ writesTo(q, k) \subseteq 1..n /\ Len(s) \in Nat /\ writesTo(s, k) \subseteq 1..Len(s)
      /\ q \o s \in Seq(Transactions) /\ Len(q \o s) = n + Len(s)
      /\ \A i \in 1..n + Len(s) : (q \o s)[i] = IF i <= n THEN q[i] ELSE s[i - n]
  BY LenProperties, ConcatProperties DEF writesTo
<1>2. writesTo(q \o s, k) = writesTo(q, k) \cup {n + i : i \in writesTo(s, k)}
  BY WritesOfConcat
<1> HIDE DEF n
<1>3. ASSUME writesTo(s, k) # {}
      PROVE  lastValue(q \o s, k) = lastValue(s, k)
  <2>1. PICK m \in writesTo(s, k) : \A j \in writesTo(s, k) : j <= m
    BY <1>3, LastWriteExists
  <2>2. n + m \in writesTo(q \o s, k) /\ \A j \in writesTo(q \o s, k) : j <= n + m
    BY <1>1, <1>2, <2>1
  <2>3. lastValue(q \o s, k) = (q \o s)[n + m].value /\ lastValue(s, k) = s[m].value
    BY <1>1, <2>1, <2>2, LastWrite
  <2>4. (q \o s)[n + m] = s[m]
    BY <1>1
  <2> QED
    BY <2>3, <2>4
<1>4. ASSUME writesTo(s, k) = {}, writesTo(q, k) # {}
      PROVE  lastValue(q \o s, k) = lastValue(q, k)
  <2>1. PICK m \in writesTo(q, k) : \A j \in writesTo(q, k) : j <= m
    BY <1>4, LastWriteExists
  <2>2. writesTo(q \o s, k) = writesTo(q, k)
    BY <1>2, <1>4
  <2>3. lastValue(q \o s, k) = (q \o s)[m].value /\ lastValue(q, k) = q[m].value
    BY <1>1, <2>1, <2>2, LastWrite
  <2>4. (q \o s)[m] = q[m]
    BY <1>1
  <2> QED
    BY <2>3, <2>4
<1> QED
  BY <1>3, <1>4

\* Is interface k written by the transactions q on agent a?
isWritten(a, q, k) == k[1] \in Plugins(ProgramOf[a]) /\ writesTo(q, k) # {}

LEMMA AfterAt ==
  ASSUME NEW a, NEW f, NEW q
  PROVE  LET g == after(a, f, q)
         IN  /\ IsMap(g)
             /\ \A k : k \in DOMAIN g <=> IF isWritten(a, q, k) THEN lastValue(q, k) # NoValue
                                                                ELSE k \in DOMAIN f
             /\ \A k \in DOMAIN g : g[k] = IF isWritten(a, q, k) THEN lastValue(q, k) ELSE f[k]
<1> DEFINE written == {x \in {q[i].key : i \in {j \in DOMAIN q : q[j].op = "interface"}} :
                         x[1] \in Plugins(ProgramOf[a])}
           D == {x \in DOMAIN f \cup written : x \in written => lastValue(q, x) # NoValue}
<1>1. \A k : k \in written <=> isWritten(a, q, k)
  BY DEF isWritten, writesTo
<1>2. after(a, f, q) = [k \in D |-> IF k \in written THEN lastValue(q, k) ELSE f[k]]
  BY DEF after
<1>3. \A k : k \in D <=> IF isWritten(a, q, k) THEN lastValue(q, k) # NoValue ELSE k \in DOMAIN f
  BY <1>1
<1> HIDE DEF written, D
<1> QED
  BY <1>1, <1>2, <1>3 DEF IsMap

LEMMA SameMaps ==
  ASSUME NEW f, NEW g, IsMap(f), IsMap(g), \A k : k \in DOMAIN f <=> k \in DOMAIN g,
         \A k \in DOMAIN f : f[k] = g[k]
  PROVE  f = g
<1>1. DOMAIN f = DOMAIN g
  OBVIOUS
<1> QED
  BY <1>1 DEF IsMap

\* Transactions executed one after the other.
LEMMA AfterConcat ==
  ASSUME NEW a, NEW f, NEW q \in Seq(Transactions), NEW s \in Seq(Transactions)
  PROVE  after(a, f, q \o s) = after(a, after(a, f, q), s)
<1> DEFINE g == after(a, f, q \o s)
           h == after(a, after(a, f, q), s)
<1>1. \A k : isWritten(a, q \o s, k) <=> isWritten(a, q, k) \/ isWritten(a, s, k)
  <2> TAKE k
  <2>1. writesTo(q \o s, k) # {} <=> writesTo(q, k) # {} \/ writesTo(s, k) # {}
    <3>1. writesTo(q \o s, k) = writesTo(q, k) \cup {Len(q) + i : i \in writesTo(s, k)}
      BY WritesOfConcat
    <3>2. ASSUME NEW i \in writesTo(s, k) PROVE Len(q) + i \in writesTo(q \o s, k)
      BY <3>1, <3>2
    <3> QED
      BY <3>1, <3>2
  <2> QED
    BY <2>1 DEF isWritten
<1>2. \A k : /\ isWritten(a, s, k) => lastValue(q \o s, k) = lastValue(s, k)
             /\ ~isWritten(a, s, k) /\ isWritten(a, q, k) => lastValue(q \o s, k) = lastValue(q, k)
  BY LastOfConcat DEF isWritten
<1>3. IsMap(g) /\ IsMap(h)
  BY AfterAt
<1>4. \A k : k \in DOMAIN g <=> k \in DOMAIN h
  BY <1>1, <1>2, AfterAt
<1>5. \A k \in DOMAIN g : g[k] = h[k]
  <2> TAKE k \in DOMAIN g
  <2>1. k \in DOMAIN h
    BY <1>4
  <2>2. CASE isWritten(a, s, k)
    BY <1>1, <1>2, <2>1, <2>2, AfterAt
  <2>3. CASE ~isWritten(a, s, k)
    <3>1. k \in DOMAIN after(a, f, q) /\ h[k] = after(a, f, q)[k]
      BY <2>1, <2>3, AfterAt
    <3> QED
      BY <1>1, <1>2, <2>3, <3>1, AfterAt
  <2> QED
    BY <2>2, <2>3
<1> HIDE DEF g, h
<1>6. g = h
  BY <1>3, <1>4, <1>5, SameMaps
<1> QED
  BY <1>6 DEF g, h

\* Without a transaction nothing changes.
LEMMA AfterNone ==
  ASSUME NEW a, NEW f, IsMap(f), NEW q, \A k : ~isWritten(a, q, k)
  PROVE  after(a, f, q) = f
  BY AfterAt, SameMaps

LEMMA AfterOne ==
  ASSUME NEW a, NEW f, IsMap(f), NEW t \in Transactions
  PROVE  after(a, f, <<t>>) = applied(a, f, t)
<1>1. <<t>> \in Seq(Transactions)
  OBVIOUS
<1>2. \A k : writesTo(<<t>>, k) = IF t.op = "interface" /\ t.key = k THEN {1} ELSE {}
  BY DEF writesTo
<1>3. CASE t.op # "interface" \/ t.key[1] \notin Plugins(ProgramOf[a])
  <2>1. \A k : ~isWritten(a, <<t>>, k)
    BY <1>2, <1>3 DEF isWritten
  <2> QED
    BY <1>3, <2>1, AfterNone DEF applied
<1>4. CASE t.op = "interface" /\ t.key[1] \in Plugins(ProgramOf[a])
  <2>1. \A k : isWritten(a, <<t>>, k) <=> k = t.key
    BY <1>2, <1>4 DEF isWritten
  <2>2. lastValue(<<t>>, t.key) = t.value
    <3>1. 1 \in writesTo(<<t>>, t.key) /\ \A j \in writesTo(<<t>>, t.key) : j <= 1
      BY <1>2, <1>4
    <3>2. lastValue(<<t>>, t.key) = <<t>>[1].value
      BY <1>1, <3>1, LastWrite
    <3> QED
      BY <3>2
  <2> DEFINE g == after(a, f, <<t>>)
             h == applied(a, f, t)
  <2>3. IsMap(g) /\ IsMap(h)
    BY AfterAt, AppliedIsMap
  <2>4. \A k : k \in DOMAIN g <=> k \in DOMAIN h
    BY <1>4, <2>1, <2>2, AfterAt DEF applied, RemoveKeys, Put
  <2>5. \A k \in DOMAIN g : g[k] = h[k]
    BY <1>4, <2>1, <2>2, <2>4, AfterAt DEF applied, RemoveKeys, Put
  <2> HIDE DEF g, h
  <2>6. g = h
    BY <2>3, <2>4, <2>5, SameMaps
  <2> QED
    BY <2>6 DEF g, h
<1> QED
  BY <1>3, <1>4

\* The transactions q delete the interfaces with the keys S.
Deletes(a, q, S) ==
  /\ \A i \in DOMAIN q : q[i].op = "interface" /\ q[i].value = NoValue /\ q[i].key \in S
  /\ \A k \in S : k[1] \in Plugins(ProgramOf[a]) /\ \E i \in DOMAIN q : q[i].key = k

LEMMA AfterDeletions ==
  ASSUME NEW a, NEW f, IsMap(f), NEW q \in Seq(Transactions), NEW S, Deletes(a, q, S)
  PROVE  after(a, f, q) = RemoveKeys(f, S)
<1>1. \A k : isWritten(a, q, k) <=> k \in S
  BY DEF Deletes, isWritten, writesTo
<1>2. \A k \in S : lastValue(q, k) = NoValue
  <2> TAKE k \in S
  <2>1. writesTo(q, k) # {}
    BY <1>1 DEF isWritten
  <2>2. PICK m \in writesTo(q, k) : \A j \in writesTo(q, k) : j <= m
    BY <2>1, LastWriteExists
  <2>3. lastValue(q, k) = q[m].value /\ m \in DOMAIN q
    BY <2>2, LastWrite DEF writesTo
  <2> QED
    BY <2>3 DEF Deletes
<1> DEFINE g == after(a, f, q)
           h == RemoveKeys(f, S)
<1>3. IsMap(g) /\ IsMap(h)
  BY AfterAt DEF IsMap, RemoveKeys
<1>4. \A k : k \in DOMAIN g <=> k \in DOMAIN h
  BY <1>1, <1>2, AfterAt DEF RemoveKeys
<1>5. \A k \in DOMAIN g : g[k] = h[k]
  BY <1>1, <1>2, AfterAt DEF RemoveKeys
<1> HIDE DEF g, h
<1>6. g = h
  BY <1>3, <1>4, <1>5, SameMaps
<1> QED
  BY <1>6 DEF g, h

-----------------------------------------------------------------------------
(* The operators of NSMEndpoint, as Endpoint(s) sees them. *)

LEMMA EndpointTables ==
  ASSUME NEW s
  PROVE  /\ Endpoint(s)!Empty = Empty
         /\ \A f, S : Endpoint(s)!RemoveKeys(f, S) = RemoveKeys(f, S)
         /\ \A f, k, v : Endpoint(s)!Put(f, k, v) = Put(f, k, v)
         /\ \A table, conn : Endpoint(s)!connectionsAfterClose(table, conn) = connectionsAfterClose(table, conn)
         /\ \A c, table : Endpoint(s)!isOccupied(c, table) = isOccupied(c, table)
         /\ \A c, conn : Endpoint(s)!mayBuildInterface(c, conn) = mayBuildInterface(c, conn)
         /\ \A c, conn : Endpoint(s)!mayFailToBuildInterface(c, conn) = mayFailToBuildInterface(c, conn)
         /\ \A c, conn : Endpoint(s)!interfaceValue(c, conn) = interfaceValue(c, conn)
  BY DEF Endpoint!Empty, Empty, Endpoint!RemoveKeys, RemoveKeys, Endpoint!Put, Put,
         Endpoint!connectionsAfterClose, connectionsAfterClose, Endpoint!isOccupied, isOccupied,
         Endpoint!mayBuildInterface, mayBuildInterface, Endpoint!canBuildInterface, canBuildInterface,
         Endpoint!mayFailToBuildInterface, mayFailToBuildInterface,
         Endpoint!interfaceValue, interfaceValue

LEMMA EndpointIndex ==
  ASSUME NEW s, NEW table
  PROVE  Endpoint(s)!allocateConnectionIndex(table) = allocateConnectionIndex(table)
<1>1. \A S : Endpoint(s)!Cardinality(S) = Cardinality(S)
  BY DEF Endpoint!Cardinality, Cardinality, Endpoint!IsFiniteSet, IsFiniteSet
<1>2. \A S : Endpoint(s)!Min(S) = Min(S)
  BY DEF Endpoint!Min, Min
<1>3. \A i : Endpoint(s)!usesConnectionIndex(table, i) = usesConnectionIndex(table, i)
  BY DEF Endpoint!usesConnectionIndex, usesConnectionIndex
<1> QED
  BY <1>1, <1>2, <1>3 DEF Endpoint!allocateConnectionIndex, allocateConnectionIndex

LEMMA EndpointKey ==
  ASSUME NEW s, NEW c, NEW table, NEW conn
  PROVE  /\ Endpoint(s)!getConnectionIndex(table, conn) = getConnectionIndex(table, conn)
         /\ Endpoint(s)!interfaceIndex(c, table, conn) = interfaceIndex(c, table, conn)
         /\ Endpoint(s)!interfaceKey(c, table, conn) = interfaceKey(c, table, conn)
         /\ Endpoint(s)!connectionsAfterOpen(c, table, conn) = connectionsAfterOpen(c, table, conn)
<1>1. Endpoint(s)!getConnectionIndex(table, conn) = getConnectionIndex(table, conn)
  BY EndpointIndex DEF Endpoint!getConnectionIndex, getConnectionIndex
<1>2. Endpoint(s)!interfaceIndex(c, table, conn) = interfaceIndex(c, table, conn)
  BY <1>1 DEF Endpoint!interfaceIndex, interfaceIndex
<1>3. Endpoint(s)!interfaceKey(c, table, conn) = interfaceKey(c, table, conn)
  <2>1. \A suffix : Endpoint(s)!keyWith(c, suffix) = keyWith(c, suffix)
    BY DEF Endpoint!keyWith, keyWith, Endpoint!interfaceKind, interfaceKind
  <2> QED
    BY <1>1, <2>1 DEF Endpoint!interfaceKey, interfaceKey
<1>4. Endpoint(s)!connectionsAfterOpen(c, table, conn) = connectionsAfterOpen(c, table, conn)
  BY <1>2 DEF Endpoint!connectionsAfterOpen, connectionsAfterOpen, Endpoint!Put, Put
<1> QED
  BY <1>1, <1>2, <1>3, <1>4

\* The methods of NSMEndpoint, as Endpoint(s) sees them.
LEMMA EndpointMethods ==
  ASSUME NEW s, NEW c, NEW t, NEW conn
  PROVE  /\ Endpoint(s)!closeConnection(c, t, conn) = closeConnection(c, t, conn)
         /\ Endpoint(s)!withoutDuplicate(c, t, conn) = withoutDuplicate(c, t, conn)
         /\ Endpoint(s)!requestDeclined(c, t, conn) = requestDeclined(c, t, conn)
         /\ Endpoint(s)!requestAccepted(c, t, conn) = requestAccepted(c, t, conn)
<1>1. Endpoint(s)!closeConnection(c, t, conn) = closeConnection(c, t, conn)
  <2>1. \A sent : Endpoint(s)!ifacesAfterClose(c, t.conns, t.ifaces, conn, sent)
                    = ifacesAfterClose(c, t.conns, t.ifaces, conn, sent)
    BY EndpointTables, EndpointKey DEF Endpoint!ifacesAfterClose, ifacesAfterClose
  <2> QED
    BY <2>1, EndpointTables DEF Endpoint!closeConnection, closeConnection
<1>2. Endpoint(s)!withoutDuplicate(c, t, conn) = withoutDuplicate(c, t, conn)
  BY <1>1 DEF Endpoint!withoutDuplicate, withoutDuplicate, Endpoint!isDuplicate, isDuplicate
<1>3. Endpoint(s)!requestDeclined(c, t, conn) = requestDeclined(c, t, conn)
  BY <1>2, EndpointTables DEF Endpoint!requestDeclined, requestDeclined
<1>4. Endpoint(s)!requestAccepted(c, t, conn) = requestAccepted(c, t, conn)
  <2>1. {x \in Endpoint(s)!withoutDuplicate(c, t, conn) :
           ~Endpoint(s)!isOccupied(c, x.conns) /\ Endpoint(s)!mayBuildInterface(c, conn)}
        = {x \in withoutDuplicate(c, t, conn) : ~isOccupied(c, x.conns) /\ mayBuildInterface(c, conn)}
    BY <1>2, EndpointTables
  <2>2. \A d, sent : Endpoint(s)!ifacesAfterOpen(c, d.conns, d.ifaces, conn, sent)
                       = ifacesAfterOpen(c, d.conns, d.ifaces, conn, sent)
    BY EndpointTables, EndpointKey DEF Endpoint!ifacesAfterOpen, ifacesAfterOpen
  <2>3. \A d : Endpoint(s)!connectionsAfterOpen(c, d.conns, conn) = connectionsAfterOpen(c, d.conns, conn)
    BY EndpointKey
  <2> QED
    BY <2>1, <2>2, <2>3 DEF Endpoint!requestAccepted, requestAccepted
<1> QED
  BY <1>1, <1>2, <1>3, <1>4

LEMMA EndpointClosings ==
  ASSUME NEW s, NEW c, NEW t, NEW closed
  PROVE  Endpoint(s)!afterClosing(c, t, closed) = afterClosing(c, t, closed)
<1>1. \A id : Endpoint(s)!keyOf(c, t.conns, id) = keyOf(c, t.conns, id)
  BY EndpointKey DEF Endpoint!keyOf, keyOf
<1>2. Endpoint(s)!RemoveKeys(t.conns, closed) = RemoveKeys(t.conns, closed)
  BY EndpointTables
<1>3. \A lost : Endpoint(s)!RemoveKeys(t.ifaces, {Endpoint(s)!keyOf(c, t.conns, id) : id \in closed \ lost})
                  = RemoveKeys(t.ifaces, {keyOf(c, t.conns, id) : id \in closed \ lost})
  <2> TAKE lost
  <2>1. {Endpoint(s)!keyOf(c, t.conns, id) : id \in closed \ lost}
        = {keyOf(c, t.conns, id) : id \in closed \ lost}
    BY <1>1
  <2> QED
    BY <2>1, EndpointTables
<1> QED
  BY <1>2, <1>3 DEF Endpoint!afterClosing, afterClosing

\* The table and the interfaces of service s.
tableOf(s) == [conns |-> conns[s], ifaces |-> endpointInterfaces(s)]

\* What a step makes of them, as a step of the endpoint.
LEMMA EndpointBecomes ==
  ASSUME NEW s, NEW t, conns'[s] = t.conns, endpointInterfaces(s)' = t.ifaces
  PROVE  Endpoint(s)!now = tableOf(s) /\ Endpoint(s)!Become(t)
  BY DEF Endpoint!now, Endpoint!Become, tableOf

\* Close as a step of the endpoint.
LEMMA EndpointCloses ==
  ASSUME NEW s, NEW conn \in Requests, mayBuildInterface(ServiceConfig[s], conn),
         NEW sent \in SendOutcomes,
         conns'[s] = connectionsAfterClose(conns[s], conn),
         endpointInterfaces(s)' =
           ifacesAfterClose(ServiceConfig[s], conns[s], endpointInterfaces(s), conn, sent)
  PROVE  Endpoint(s)!Next
<1> DEFINE t == [conns  |-> connectionsAfterClose(conns[s], conn),
                 ifaces |-> ifacesAfterClose(ServiceConfig[s], conns[s], endpointInterfaces(s), conn, sent)]
<1>1. t \in closeConnection(ServiceConfig[s], tableOf(s), conn)
  BY DEF closeConnection, tableOf
<1>2. Endpoint(s)!now = tableOf(s) /\ Endpoint(s)!Become(t)
  BY EndpointBecomes
<1> HIDE DEF t
<1>3. Endpoint(s)!Close(conn)
  BY <1>1, <1>2, EndpointMethods DEF Endpoint!Close
<1> QED
  BY <1>3 DEF Endpoint!Next

\* Request that is declined, as a step of the endpoint.
LEMMA EndpointDeclines ==
  ASSUME NEW s, NEW conn \in Requests,
         NEW d \in withoutDuplicate(ServiceConfig[s], tableOf(s), conn),
         isOccupied(ServiceConfig[s], d.conns),
         conns'[s] = d.conns, endpointInterfaces(s)' = d.ifaces
  PROVE  Endpoint(s)!Next
<1>1. d \in requestDeclined(ServiceConfig[s], tableOf(s), conn)
  BY DEF requestDeclined
<1>2. Endpoint(s)!now = tableOf(s) /\ Endpoint(s)!Become(d)
  BY EndpointBecomes
<1>3. Endpoint(s)!RequestDeclined(conn)
  BY <1>1, <1>2, EndpointMethods DEF Endpoint!RequestDeclined
<1> QED
  BY <1>3 DEF Endpoint!Next

\* Request that is accepted, as a step of the endpoint.
LEMMA EndpointAccepts ==
  ASSUME NEW s, NEW conn \in Requests, mayBuildInterface(ServiceConfig[s], conn),
         NEW d \in withoutDuplicate(ServiceConfig[s], tableOf(s), conn),
         ~isOccupied(ServiceConfig[s], d.conns), NEW sent \in SendOutcomes,
         conns'[s] = connectionsAfterOpen(ServiceConfig[s], d.conns, conn),
         endpointInterfaces(s)' = ifacesAfterOpen(ServiceConfig[s], d.conns, d.ifaces, conn, sent)
  PROVE  Endpoint(s)!Next
<1> DEFINE c == ServiceConfig[s]
           t == [conns  |-> connectionsAfterOpen(c, d.conns, conn),
                 ifaces |-> ifacesAfterOpen(c, d.conns, d.ifaces, conn, sent)]
<1>1. t \in requestAccepted(c, tableOf(s), conn)
  BY DEF requestAccepted
<1>2. Endpoint(s)!now = tableOf(s) /\ Endpoint(s)!Become(t)
  BY EndpointBecomes
<1> HIDE DEF t
<1>3. Endpoint(s)!RequestAccepted(conn)
  BY <1>1, <1>2, EndpointMethods DEF Endpoint!RequestAccepted
<1> QED
  BY <1>3 DEF Endpoint!Next

\* CloseConnections as a step of the endpoint; the deletions of "ids" get through.
LEMMA EndpointClosesAll ==
  ASSUME NEW s, NEW ids \in taken(s), conns'[s] = Empty,
         endpointInterfaces(s)' =
           RemoveKeys(endpointInterfaces(s), {keyOf(ServiceConfig[s], conns[s], id) : id \in ids})
  PROVE  Endpoint(s)!Next
<1> DEFINE c == ServiceConfig[s]
           D == DOMAIN conns[s]
           lost == D \ ids
           keys == {keyOf(c, conns[s], id) : id \in ids}
           t == [conns |-> Empty, ifaces |-> RemoveKeys(endpointInterfaces(s), keys)]
<1>1. tableOf(s).conns = conns[s] /\ tableOf(s).ifaces = endpointInterfaces(s)
  BY DEF tableOf
<1>2. RemoveKeys(conns[s], D) = Empty
  BY DEF RemoveKeys, Empty
<1>3. D \ lost = ids
  BY DEF taken
<1>4. lost \in {x \in SUBSET D : /\ x # {} => FALSE \in SendOutcomes
                                 /\ x # D => TRUE \in SendOutcomes}
  BY DEF taken
<1>5. Endpoint(s)!now = tableOf(s) /\ Endpoint(s)!Become(t)
  BY EndpointBecomes
<1>6. {keyOf(c, conns[s], id) : id \in D \ lost} = keys
  BY <1>3
<1>7. t = [conns |-> Empty, ifaces |-> RemoveKeys(endpointInterfaces(s), keys)]
  OBVIOUS
<1> HIDE DEF t, D, keys, lost
<1>8. t \in afterClosing(c, tableOf(s), D)
  <2> DEFINE outcome(x) ==
        [conns  |-> RemoveKeys(tableOf(s).conns, D),
         ifaces |-> RemoveKeys(tableOf(s).ifaces,
                               {keyOf(c, tableOf(s).conns, id) : id \in D \ x})]
  <2>1. t = outcome(lost)
    BY <1>1, <1>2, <1>6, <1>7
  <2>2. afterClosing(c, tableOf(s), D) =
          {outcome(x) : x \in {y \in SUBSET D : /\ y # {} => FALSE \in SendOutcomes
                                                /\ y # D => TRUE \in SendOutcomes}}
    BY DEF afterClosing
  <2> HIDE DEF outcome
  <2> QED
    BY <1>4, <2>1, <2>2
<1>9. t \in Endpoint(s)!allClosed(c, tableOf(s))
  BY <1>1, <1>8, EndpointClosings DEF Endpoint!allClosed, D
<1>10. Endpoint(s)!CloseConnections
  BY <1>5, <1>9 DEF Endpoint!CloseConnections
<1> QED
  BY <1>10 DEF Endpoint!Next

-----------------------------------------------------------------------------
(* What a step makes of the interfaces of the endpoints. *)

\* The queue of agent a takes a step: it will be worked off to "ts" more.
Promises(a, ts) ==
  /\ drained(a)' = after(a, drained(a), ts)
  /\ \A b \in Agents \ {a} : drained(b)' = drained(b)

LEMMA SendsPromises ==
  ASSUME AgentInv, NEW a \in Agents, NEW ts \in Seq(Transactions), Sends(a, ts), UNCHANGED ifaces
  PROVE  Promises(a, ts)
<1>1. queue[a] \in Seq(Transactions) /\ queue'[a] = queue[a] \o ts
      /\ \A b \in Agents \ {a} : queue'[b] = queue[b]
  BY DEF AgentInv, AgentTypes, Sends
<1>2. drained(a)' = after(a, ifaces[a], queue[a] \o ts)
  BY <1>1 DEF drained
<1>3. after(a, ifaces[a], queue[a] \o ts) = after(a, after(a, ifaces[a], queue[a]), ts)
  BY <1>1, AfterConcat
<1>4. \A b \in Agents \ {a} : drained(b)' = drained(b)
  BY <1>1 DEF drained
<1> QED
  BY <1>2, <1>3, <1>4 DEF Promises, drained

LEMMA FinishesPromises ==
  ASSUME AgentInv, NEW a \in Agents, NEW ts \in Seq(Transactions), Finishes(a, ts),
         ifaces'[a] = applied(a, ifaces[a], Head(queue[a])),
         \A b \in Agents \ {a} : ifaces'[b] = ifaces[b]
  PROVE  Promises(a, ts)
<1> DEFINE f == ifaces[a]
           t == Head(queue[a])
           q == Tail(queue[a])
           first == <<t>>
<1>1. /\ queue[a] \in Seq(Transactions) /\ queue[a] # << >>
      /\ queue'[a] = q \o ts /\ \A b \in Agents \ {a} : queue'[b] = queue[b]
  BY DEF AgentInv, AgentTypes, Finishes
<1>2. IsMap(f) /\ ifaces'[a] = applied(a, f, t) /\ \A b \in Agents \ {a} : ifaces'[b] = ifaces[b]
  BY DEF AgentInv, AgentTypes
<1>3. t \in Transactions /\ q \in Seq(Transactions) /\ first \in Seq(Transactions)
      /\ queue[a] = first \o q
  <2>1. t \in Transactions /\ q \in Seq(Transactions)
    BY <1>1, HeadTailProperties
  <2>2. queue[a] = first \o q
    BY <1>1
  <2> HIDE DEF t, q
  <2> QED
    BY <2>1, <2>2
<1> HIDE DEF f, t, q
<1>4. drained(a) = after(a, applied(a, f, t), q)
  <2>1. after(a, f, first \o q) = after(a, after(a, f, first), q)
    <3> HIDE DEF first
    <3> QED
      BY <1>3, AfterConcat
  <2>2. after(a, f, <<t>>) = applied(a, f, t)
    BY <1>2, <1>3, AfterOne
  <2> QED
    BY <1>3, <2>1, <2>2 DEF drained, f
<1>5. drained(a)' = after(a, applied(a, f, t), q \o ts)
  BY <1>1, <1>2 DEF drained
<1>6. after(a, applied(a, f, t), q \o ts) = after(a, after(a, applied(a, f, t), q), ts)
  BY <1>3, AfterConcat
<1>7. \A b \in Agents \ {a} : drained(b)' = drained(b)
  BY <1>1, <1>2 DEF drained
<1> QED
  BY <1>4, <1>5, <1>6, <1>7 DEF Promises

\* A transaction that is not about an interface.
LEMMA ChangePromises ==
  ASSUME AgentInv, NEW a \in Agents, NEW ts \in Seq(Transactions), Finishes(a, ts),
         Head(queue[a]).op # "interface", UNCHANGED ifaces
  PROVE  Promises(a, ts)
<1>1. applied(a, ifaces[a], Head(queue[a])) = ifaces[a]
  BY DEF applied
<1> QED
  BY <1>1, FinishesPromises

\* The part of the interfaces f with keys of service s.
ownPart(s, f) == [k \in DOMAIN f \cap keysOf(ServiceConfig[s]) |-> f[k]]

LEMMA EndpointPart ==
  ASSUME NEW s
  PROVE  /\ endpointInterfaces(s) = ownPart(s, drained(AgentOf[s]))
         /\ endpointInterfaces(s)' = ownPart(s, drained(AgentOf[s])')
  BY DEF endpointInterfaces, ownPart

LEMMA OwnRemove ==
  ASSUME NEW s, NEW f, NEW S
  PROVE  ownPart(s, RemoveKeys(f, S)) = RemoveKeys(ownPart(s, f), S)
  BY DEF ownPart, RemoveKeys

LEMMA OwnPut ==
  ASSUME NEW s, NEW f, NEW k \in keysOf(ServiceConfig[s]), NEW v
  PROVE  ownPart(s, Put(f, k, v)) = Put(ownPart(s, f), k, v)
  BY DEF ownPart, Put

\* Transactions about other interfaces.
LEMMA OwnUntouched ==
  ASSUME NEW s, NEW a, NEW f, NEW ts,
         \A i \in DOMAIN ts : ts[i].op = "interface" => ts[i].key \notin keysOf(ServiceConfig[s])
  PROVE  ownPart(s, after(a, f, ts)) = ownPart(s, f)
<1> DEFINE g == ownPart(s, after(a, f, ts))
           h == ownPart(s, f)
<1>1. \A k \in keysOf(ServiceConfig[s]) : ~isWritten(a, ts, k)
  BY DEF isWritten, writesTo
<1>2. IsMap(g) /\ IsMap(h)
  BY DEF IsMap, ownPart
<1>3. \A k : k \in DOMAIN g <=> k \in DOMAIN h
  BY <1>1, AfterAt DEF ownPart
<1>4. \A k \in DOMAIN g : g[k] = h[k]
  BY <1>1, AfterAt DEF ownPart
<1> HIDE DEF g, h
<1>5. g = h
  BY <1>2, <1>3, <1>4, SameMaps
<1> QED
  BY <1>5 DEF g, h

EndpointStep(s) == Endpoint(s)!Next \/ UNCHANGED Endpoint(s)!vars

\* Services that a step does not touch.
LEMMA EndpointStutters ==
  ASSUME AgentInv, NEW a \in Agents, NEW ts, Promises(a, ts), NEW s \in Services, conns'[s] = conns[s],
         AgentOf[s] = a =>
           \A i \in DOMAIN ts : ts[i].op = "interface" => ts[i].key \notin keysOf(ServiceConfig[s])
  PROVE  EndpointStep(s)
<1>1. AgentOf[s] \in Agents
  BY AgentConstants DEF Items
<1>2. endpointInterfaces(s)' = endpointInterfaces(s)
  <2>1. CASE AgentOf[s] = a
    BY <2>1, EndpointPart, OwnUntouched DEF Promises
  <2>2. CASE AgentOf[s] # a
    BY <1>1, <2>2, EndpointPart DEF Promises
  <2> QED
    BY <2>1, <2>2
<1>3. UNCHANGED Endpoint(s)!vars
  BY <1>2 DEF Endpoint!vars
<1> QED
  BY <1>3 DEF EndpointStep

\* A step that leaves interfaces and queues alone.
LEMMA QuietStep ==
  ASSUME UNCHANGED <<conns, ifaces, queue>>, NEW s \in Services
  PROVE  EndpointStep(s)
<1>1. endpointInterfaces(s)' = endpointInterfaces(s)
  BY DEF endpointInterfaces, drained
<1> QED
  BY <1>1 DEF EndpointStep, Endpoint!vars

-----------------------------------------------------------------------------
(* Every step is a step of every endpoint, or none.                        *)

\* Connections that have the label their interface is named after, if any is.
isNamed(s, conn) == ServiceConfig[s].suffixFromLabel => conn.label # NoLabel

LabelsStored == \A s \in Services : \A id \in DOMAIN conns[s] : isNamed(s, conns[s][id].conn)

LEMMA LabelsInit == Init => LabelsStored
  BY DEF Init, LabelsStored, Empty

LEMMA LabelsStep ==
  ASSUME AgentInv, LabelsStored, [Next]_vars
  PROVE  LabelsStored'
<1>1. ASSUME UNCHANGED conns PROVE LabelsStored'
  BY <1>1 DEF LabelsStored, isNamed
<1>2. ASSUME NEW s \in Services, NEW t, conns' = [conns EXCEPT ![s] = t],
             \A id \in DOMAIN t : isNamed(s, t[id].conn)
      PROVE  LabelsStored'
  <2>1. conns'[s] = t /\ \A x \in Services \ {s} : conns'[x] = conns[x]
    BY <1>2 DEF AgentInv, AgentTypes
  <2> QED
    BY <1>2, <2>1 DEF LabelsStored, isNamed
<1>3. ASSUME NEW s \in Services, DeleteEndpoint(s) PROVE LabelsStored'
  <2>1. conns' = [conns EXCEPT ![s] = Empty] /\ DOMAIN Empty = {}
    BY <1>3 DEF DeleteEndpoint, Empty
  <2> QED
    BY <1>2, <2>1
<1>4. ASSUME NEW h \in handlers, RequestDeclined(h) \/ CloseConnection(h) PROVE LabelsStored'
  <2> DEFINE s == serviceOf(h)
             t == connectionsAfterClose(conns[s], connOf(h))
  <2>1. UNCHANGED conns \/ conns' = [conns EXCEPT ![s] = t]
    BY <1>4 DEF RequestDeclined, CloseConnection, serviceOf, connOf
  <2>2. s \in Services /\ \A id \in DOMAIN t : isNamed(s, t[id].conn)
    BY HandlerConstants DEF LabelsStored, connectionsAfterClose, RemoveKeys
  <2> HIDE DEF s, t
  <2> QED
    BY <1>1, <1>2, <2>1, <2>2
<1>5. ASSUME NEW h \in handlers, RequestStart(h) PROVE LabelsStored'
  <2> DEFINE s == serviceOf(h)
             conn == connOf(h)
             closed == connectionsAfterClose(conns[s], conn)
             t == connectionsAfterOpen(ServiceConfig[s], closed, conn)
  <2>1. conns' = [conns EXCEPT ![s] = t] /\ canServe(s, conn)
    BY <1>5 DEF RequestStart, serviceOf, connOf
  <2>2. s \in Services /\ isNamed(s, conn)
    BY <2>1, HandlerConstants DEF canServe, canBuildInterface, isNamed
  <2>3. \A id \in DOMAIN closed : isNamed(s, closed[id].conn)
    BY <2>2 DEF LabelsStored, connectionsAfterClose, RemoveKeys
  <2>4. \A id \in DOMAIN t : isNamed(s, t[id].conn)
    <3> HIDE DEF s, conn, closed
    <3> QED
      BY <2>2, <2>3 DEF connectionsAfterOpen, Put
  <2> HIDE DEF s, t
  <2> QED
    BY <1>2, <2>1, <2>2, <2>4
<1>6. CASE UNCHANGED vars
  BY <1>1, <1>6 DEF vars, tables
<1>7. ASSUME NEW a \in Agents,
             PluginInit(a) \/ PluginInitFails(a) \/ AfterInit(a) \/ Scheduler(a) \/ RequestEnd(a)
      PROVE  LabelsStored'
  <2>1. CASE Scheduler(a)
    BY <1>1, <1>3, <2>1
       DEF Scheduler, ExecuteInterface, AddEndpoint, Call, Called, CallFailed, Skip, tables
  <2>2. CASE PluginInit(a) \/ PluginInitFails(a) \/ AfterInit(a) \/ RequestEnd(a)
    BY <1>1, <2>2 DEF PluginInit, PluginInitFails, AfterInit, RequestEnd, tables
  <2> QED
    BY <1>7, <2>1, <2>2
<1>8. ASSUME NEW x \in Services \cup Clients, Configure(x) PROVE LabelsStored'
  BY <1>1, <1>8 DEF Configure, tables
<1>9. ASSUME NEW c \in Clients, GiveUp(c) \/ HandlerOf(c) PROVE LabelsStored'
  BY <1>1, <1>4, <1>5, <1>9 DEF GiveUp, HandlerOf, tables
<1> QED
  BY <1>6, <1>7, <1>8, <1>9 DEF Next

LEMMA KeyOfService ==
  ASSUME NEW s \in Services, NEW table, NEW conn
  PROVE  /\ keyIn(s, table, conn)[1] = interfaceKind(ServiceConfig[s])
         /\ IsTable(table) /\ conn \in Conn /\ isNamed(s, conn) =>
              keyIn(s, table, conn) \in keysOf(ServiceConfig[s])
  BY OwnKey DEF keyIn, interfaceKey, keyWith, isNamed

LEMMA AfterInitEndpoints ==
  ASSUME AgentInv, NEW a \in Agents, AfterInit(a), NEW s \in Services
  PROVE  EndpointStep(s)
<1>1. PICK order \in Seqs!SetToSeqs(itemsOf(a)) :
        queue' = [queue EXCEPT ![a] = [i \in DOMAIN order |-> change(order[i], TRUE)]]
  BY DEF AfterInit
<1>2. UNCHANGED <<conns, ifaces>>
  BY DEF AfterInit, tables
<1> DEFINE q == [i \in DOMAIN order |-> change(order[i], TRUE)]
<1>3. queue[a] = << >> /\ queue \in [Agents -> Seq(Transactions)]
  BY DEF AgentInv, AgentTypes, QueuesOfReady, AfterInit
<1>4. queue'[a] = q
  BY <1>1, <1>3
<1>5. q \in Seq(Transactions)
  BY <1>4, AfterInitStep DEF AgentInv, AgentTypes
<1>6. \A i \in DOMAIN q : q[i].op # "interface"
  BY DEF change
<1> HIDE DEF q
<1>7. Sends(a, q)
  <2>1. << >> \o q = q
    BY <1>5, ConcatEmptySeq
  <2>2. queue[a] \o q = q
    BY <1>3, <2>1
  <2> QED
    BY <1>1, <2>2 DEF Sends, q
<1>8. Promises(a, q)
  BY <1>2, <1>5, <1>7, SendsPromises
<1> QED
  BY <1>2, <1>6, <1>8, EndpointStutters

LEMMA ConfigureEndpoints ==
  ASSUME AgentInv, NEW x \in Items, Configure(x), NEW s \in Services
  PROVE  EndpointStep(s)
<1> DEFINE a == AgentOf[x]
           t == change(x, x \notin desired)
<1>1. a \in Agents /\ t \in Transactions /\ t.op # "interface" /\ UNCHANGED <<conns, ifaces>>
  BY AgentConstants, ChangeType DEF Configure, tables, change
<1>2. CASE phase[a] = "ready"
  <2>1. queue[a] \in Seq(Transactions) /\ queue' = [queue EXCEPT ![a] = Append(queue[a], t)]
    BY <1>1, <1>2 DEF AgentInv, AgentTypes, Configure
  <2> HIDE DEF a, t
  <2>2. Append(queue[a], t) = queue[a] \o <<t>>
    BY <1>1, <2>1, AppendIsConcat
  <2>3. Sends(a, <<t>>) /\ <<t>> \in Seq(Transactions)
    BY <1>1, <2>1, <2>2 DEF Sends
  <2>4. Promises(a, <<t>>)
    BY <1>1, <2>3, SendsPromises
  <2>5. \A i \in DOMAIN <<t>> : <<t>>[i].op # "interface"
    BY <1>1
  <2> QED
    BY <1>1, <2>4, <2>5, EndpointStutters
<1>3. CASE phase[a] # "ready"
  BY <1>1, <1>3, QuietStep DEF Configure
<1> QED
  BY <1>2, <1>3

LEMMA ExecuteInterfaceEndpoints ==
  ASSUME AgentInv, NEW a \in Agents, ExecuteInterface(a), NEW s \in Services
  PROVE  EndpointStep(s)
<1>1. Finishes(a, << >>) /\ << >> \in Seq(Transactions) /\ UNCHANGED conns
  BY FinishesAlone DEF ExecuteInterface, tables
<1>2. ifaces'[a] = applied(a, ifaces[a], Head(queue[a])) /\ \A b \in Agents \ {a} : ifaces'[b] = ifaces[b]
  <2>1. ifaces' = [ifaces EXCEPT ![a] = applied(a, ifaces[a], Head(queue[a]))] /\ DOMAIN ifaces = Agents
    BY DEF ExecuteInterface, AgentInv, AgentTypes
  <2> QED
    BY <2>1
<1>3. Promises(a, << >>)
  BY <1>1, <1>2, FinishesPromises
<1> QED
  BY <1>1, <1>3, EndpointStutters

LEMMA AddEndpointEndpoints ==
  ASSUME AgentInv, NEW x \in Services, AddEndpoint(x), NEW s \in Services
  PROVE  EndpointStep(s)
<1> DEFINE a == AgentOf[x]
<1>1. a \in Agents /\ executes(a, "create", x) /\ queue' = [queue EXCEPT ![a] = Tail(@)]
      /\ UNCHANGED <<conns, ifaces>>
  BY AgentConstants DEF AddEndpoint, Items
<1> HIDE DEF a
<1>2. queue[a] # << >> /\ Head(queue[a]).op # "interface"
  BY <1>1 DEF executes
<1>3. Finishes(a, << >>) /\ << >> \in Seq(Transactions)
  BY <1>1, <1>2, FinishesAlone
<1>4. Promises(a, << >>)
  BY <1>1, <1>2, <1>3, ChangePromises
<1> QED
  BY <1>1, <1>4, EndpointStutters

\* The interface of a client on the agent is not one of an endpoint.
LEMMA ClientInterfaceApart ==
  ASSUME NamesOfAgentApart, NEW s \in Services, NEW c \in Clients, AgentOf[s] = AgentOf[c], NEW v
  PROVE  clientInterface(c, v).key \notin keysOf(ServiceConfig[s])
  BY DEF NamesOfAgentApart, clientInterface, ifaceTxn

LEMMA CallEndpoints ==
  ASSUME AgentInv, NamesOfAgentApart, NEW c \in Clients, Call(c), NEW s \in Services
  PROVE  EndpointStep(s)
<1> DEFINE a == AgentOf[c]
           ts == IF c \in joined THEN <<clientInterface(c, NoValue)>> ELSE << >>
<1>1. a \in Agents /\ Sends(a, ts) /\ UNCHANGED <<conns, ifaces>> /\ ts \in Seq(Transactions)
  BY AgentConstants, ClientInterfaceType, EmptySeq DEF Call, Items, Sends, tables
<1>2. a = AgentOf[s] =>
        \A i \in DOMAIN ts : ts[i].op = "interface" => ts[i].key \notin keysOf(ServiceConfig[s])
  BY ClientInterfaceApart
<1> HIDE DEF a, ts
<1>3. Promises(a, ts)
  BY <1>1, SendsPromises
<1> QED
  BY <1>1, <1>2, <1>3, EndpointStutters

LEMMA ResultEndpoints ==
  ASSUME AgentInv, NamesOfAgentApart, NEW c \in Clients, Called(c) \/ CallFailed(c) \/ Skip(c),
         NEW s \in Services
  PROVE  EndpointStep(s)
<1> DEFINE a == AgentOf[c]
<1>1. PICK ts \in Seq(Transactions) :
        /\ Finishes(a, ts) /\ a \in Agents
        /\ Head(queue[a]).op \in {"create", "delete"}
        /\ ts \in {<< >>, <<clientInterface(c, c)>>, <<Head(queue[a])>>}
  BY ClientStep
<1>2. UNCHANGED <<conns, ifaces>>
  BY DEF Called, CallFailed, Skip, tables
<1>3. a = AgentOf[s] =>
        \A i \in DOMAIN ts : ts[i].op = "interface" => ts[i].key \notin keysOf(ServiceConfig[s])
  BY <1>1, ClientInterfaceApart
<1>4. Promises(a, ts)
  BY <1>1, <1>2, ChangePromises
<1> QED
  BY <1>1, <1>2, <1>3, <1>4, EndpointStutters

\* Transactions about the interfaces of service x only.
AboutService(x, ts) ==
  \A i \in DOMAIN ts : ts[i].op = "interface" => ts[i].key \in keysOf(ServiceConfig[x])

LEMMA OthersStutter ==
  ASSUME AgentInv, NamesOfAgentApart, NEW x \in Services, NEW ts, AboutService(x, ts),
         Promises(AgentOf[x], ts), NEW t, conns' = [conns EXCEPT ![x] = t],
         NEW s \in Services \ {x}
  PROVE  EndpointStep(s)
<1>1. AgentOf[x] \in Agents /\ conns'[s] = conns[s]
  BY AgentConstants DEF Items, AgentInv, AgentTypes
<1>2. AgentOf[s] = AgentOf[x] =>
        keysOf(ServiceConfig[s]) \cap keysOf(ServiceConfig[x]) = {}
  BY DEF NamesOfAgentApart
<1> QED
  BY <1>1, <1>2, EndpointStutters DEF AboutService

\* One interface of service x is removed, or written.
LEMMA AfterOwnTxn ==
  ASSUME AgentInv, PluginsPresent, NEW x \in Services, NEW table, IsTable(table), NEW conn \in Conn,
         NEW h \in Handler \cup {NoCall}, NEW f, IsMap(f)
  PROVE  /\ after(AgentOf[x], f, <<ifaceTxn(keyIn(x, table, conn), NoValue, h)>>)
              = RemoveKeys(f, {keyIn(x, table, conn)})
         /\ after(AgentOf[x], f,
                  <<ifaceTxn(keyIn(x, table, conn), interfaceValue(ServiceConfig[x], conn), h)>>)
              = Put(f, keyIn(x, table, conn), interfaceValue(ServiceConfig[x], conn))
<1> DEFINE key == keyIn(x, table, conn)
           v == interfaceValue(ServiceConfig[x], conn)
           removal == ifaceTxn(key, NoValue, h)
           write == ifaceTxn(key, v, h)
           a == AgentOf[x]
<1>1. removal \in Transactions /\ write \in Transactions
  BY EndpointInterfaceType
<1>2. key[1] \in Plugins(ProgramOf[a])
  BY KeyOfService DEF PluginsPresent
<1>3. v # NoValue
  <2>1. v \in [link : Links, addressed : BOOLEAN]
    BY AgentConstants DEF interfaceValue, Config, Conn
  <2> QED
    BY <2>1, NoValueAssumption
<1>4. /\ removal.op = "interface" /\ removal.key = key /\ removal.value = NoValue
      /\ write.op = "interface" /\ write.key = key /\ write.value = v
  BY DEF ifaceTxn
<1> HIDE DEF removal, write, key, v, a
<1>5. after(a, f, <<removal>>) = applied(a, f, removal) /\ after(a, f, <<write>>) = applied(a, f, write)
  BY <1>1, AfterOne
<1>6. applied(a, f, removal) = RemoveKeys(f, {key}) /\ applied(a, f, write) = Put(f, key, v)
  BY <1>2, <1>3, <1>4 DEF applied
<1> QED
  BY <1>5, <1>6 DEF removal, write, key, v, a

\* The same when the transaction may be lost.
LEMMA AfterOwnSend ==
  ASSUME AgentInv, PluginsPresent, NEW x \in Services, NEW table, IsTable(table), NEW conn \in Conn,
         isNamed(x, conn), NEW h \in Handler \cup {NoCall}, NEW f, IsMap(f)
  PROVE  /\ \A ts \in sending(ifaceTxn(keyIn(x, table, conn), NoValue, h)) :
              /\ AboutService(x, ts)
              /\ \E sent \in SendOutcomes :
                   ownPart(x, after(AgentOf[x], f, ts))
                     = ifacesAfterClose(ServiceConfig[x], table, ownPart(x, f), conn, sent)
         /\ \A ts \in sending(ifaceTxn(keyIn(x, table, conn), interfaceValue(ServiceConfig[x], conn), h)) :
              /\ AboutService(x, ts)
              /\ \E sent \in SendOutcomes :
                   ownPart(x, after(AgentOf[x], f, ts))
                     = ifacesAfterOpen(ServiceConfig[x], table, ownPart(x, f), conn, sent)
<1> DEFINE a == AgentOf[x]
           key == keyIn(x, table, conn)
           v == interfaceValue(ServiceConfig[x], conn)
           removal == ifaceTxn(key, NoValue, h)
           write == ifaceTxn(key, v, h)
<1>1. key \in keysOf(ServiceConfig[x]) /\ key = interfaceKey(ServiceConfig[x], table, conn)
  BY KeyOfService DEF keyIn
<1>2. removal.key = key /\ write.key = key
  BY DEF ifaceTxn
<1>3. /\ ownPart(x, after(a, f, <<removal>>)) = RemoveKeys(ownPart(x, f), {key})
      /\ ownPart(x, after(a, f, <<write>>)) = Put(ownPart(x, f), key, v)
  <2>1. /\ after(a, f, <<removal>>) = RemoveKeys(f, {key})
        /\ after(a, f, <<write>>) = Put(f, key, v)
    BY AfterOwnTxn
  <2> QED
    BY <1>1, <2>1, OwnRemove, OwnPut
<1>4. ownPart(x, after(a, f, << >>)) = ownPart(x, f)
  BY OwnUntouched
<1> HIDE DEF a, key, v, removal, write
<1>5. AboutService(x, <<removal>>) /\ AboutService(x, <<write>>) /\ AboutService(x, << >>)
  BY <1>1, <1>2 DEF AboutService
<1>6. /\ ifacesAfterClose(ServiceConfig[x], table, ownPart(x, f), conn, TRUE)
           = RemoveKeys(ownPart(x, f), {key})
      /\ ifacesAfterClose(ServiceConfig[x], table, ownPart(x, f), conn, FALSE) = ownPart(x, f)
      /\ ifacesAfterOpen(ServiceConfig[x], table, ownPart(x, f), conn, TRUE)
           = Put(ownPart(x, f), key, v)
      /\ ifacesAfterOpen(ServiceConfig[x], table, ownPart(x, f), conn, FALSE) = ownPart(x, f)
  BY <1>1 DEF ifacesAfterClose, ifacesAfterOpen, v
<1>7. \A t : \A ts \in sending(t) : \/ TRUE \in SendOutcomes /\ ts = <<t>>
                                    \/ FALSE \in SendOutcomes /\ ts = << >>
  BY SendOutcomesAssumption DEF sending
<1>8. ASSUME NEW ts \in sending(removal)
      PROVE  /\ AboutService(x, ts)
             /\ \E sent \in SendOutcomes :
                  ownPart(x, after(a, f, ts))
                    = ifacesAfterClose(ServiceConfig[x], table, ownPart(x, f), conn, sent)
  <2>1. CASE TRUE \in SendOutcomes /\ ts = <<removal>>
    BY <1>3, <1>5, <1>6, <2>1
  <2>2. CASE FALSE \in SendOutcomes /\ ts = << >>
    BY <1>4, <1>5, <1>6, <2>2
  <2> QED
    BY <1>7, <2>1, <2>2
<1>9. ASSUME NEW ts \in sending(write)
      PROVE  /\ AboutService(x, ts)
             /\ \E sent \in SendOutcomes :
                  ownPart(x, after(a, f, ts))
                    = ifacesAfterOpen(ServiceConfig[x], table, ownPart(x, f), conn, sent)
  <2>1. CASE TRUE \in SendOutcomes /\ ts = <<write>>
    BY <1>3, <1>5, <1>6, <2>1
  <2>2. CASE FALSE \in SendOutcomes /\ ts = << >>
    BY <1>4, <1>5, <1>6, <2>2
  <2> QED
    BY <1>7, <2>1, <2>2
<1> QED
  BY <1>8, <1>9 DEF a, key, v, removal, write

LEMMA DrainedIsMap ==
  ASSUME NEW a
  PROVE  IsMap(drained(a))
  BY AfterAt DEF drained

LEMMA CloseConnectionEndpoints ==
  ASSUME AgentInv, NamesOfAgentApart, PluginsPresent,
         NEW h \in handlers, CloseConnection(h), NEW s \in Services
  PROVE  EndpointStep(s)
<1> DEFINE x == serviceOf(h)
           a == AgentOf[x]
           conn == connOf(h)
           t == ifaceTxn(keyIn(x, conns[x], conn), NoValue, NoCall)
<1>1. x \in Services /\ a \in Agents /\ conn \in Requests /\ conn \in Conn /\ IsTable(conns[x])
  BY HandlerConstants DEF agentOf
<1>2. CASE canServe(x, conn)
  <2>1. /\ conns' = [conns EXCEPT ![x] = connectionsAfterClose(@, conn)]
        /\ UNCHANGED ifaces
    BY <1>2 DEF CloseConnection, serviceOf, connOf
  <2>2. conns' = [conns EXCEPT ![x] = connectionsAfterClose(conns[x], conn)]
        /\ conns'[x] = connectionsAfterClose(conns[x], conn)
    BY <1>1, <2>1 DEF AgentInv, AgentTypes
  <2>3. PICK ts \in sending(t) : Sends(a, ts)
    BY <1>2 DEF CloseConnection, Sends, serviceOf, connOf
  <2>4. mayBuildInterface(ServiceConfig[x], conn) /\ isNamed(x, conn)
    BY <1>2 DEF canServe, mayBuildInterface, canBuildInterface, isNamed
  <2>5. t \in Transactions
    BY <1>1, EndpointInterfaceType
  <2>6. IsMap(drained(a)) /\ NoCall \in Handler \cup {NoCall}
    BY DrainedIsMap
  <2> HIDE DEF x, conn
  <2>7. /\ AboutService(x, ts)
        /\ \E sent \in SendOutcomes :
             ownPart(x, after(a, drained(a), ts))
               = ifacesAfterClose(ServiceConfig[x], conns[x], ownPart(x, drained(a)), conn, sent)
    BY <1>1, <2>3, <2>4, <2>6, AfterOwnSend
  <2> HIDE DEF t, a
  <2>8. Promises(a, ts)
    BY <1>1, <2>1, <2>3, <2>5, SendingType, SendsPromises
  <2>9. CASE s # x
    BY <1>1, <2>2, <2>7, <2>8, <2>9, OthersStutter DEF a
  <2>10. CASE s = x
    <3>1. PICK sent \in SendOutcomes :
            endpointInterfaces(x)'
              = ifacesAfterClose(ServiceConfig[x], conns[x], endpointInterfaces(x), conn, sent)
      BY <2>7, <2>8, EndpointPart DEF Promises, a
    <3>2. Endpoint(x)!Next
      BY <1>1, <2>2, <2>4, <3>1, EndpointCloses
    <3> QED
      BY <2>10, <3>2 DEF EndpointStep
  <2> QED
    BY <2>9, <2>10
<1>3. CASE ~canServe(x, conn)
  BY <1>3, QuietStep DEF CloseConnection, serviceOf, connOf
<1> QED
  BY <1>2, <1>3

\* The table and the interfaces once "ts" is sent to close a duplicate.
closedBy(x, conn, ts) ==
  [conns  |-> connectionsAfterClose(conns[x], conn),
   ifaces |-> ownPart(x, after(AgentOf[x], drained(AgentOf[x]), ts))]

LEMMA ClosingOwn ==
  ASSUME AgentInv, PluginsPresent, NEW x \in Services, NEW conn \in Conn, isNamed(x, conn),
         mayBuildInterface(ServiceConfig[x], conn), NEW ts \in closing(x, conn)
  PROVE  /\ AboutService(x, ts)
         /\ closedBy(x, conn, ts) \in withoutDuplicate(ServiceConfig[x], tableOf(x), conn)
<1> DEFINE f == drained(AgentOf[x])
           c == ServiceConfig[x]
           t == ifaceTxn(keyIn(x, conns[x], conn), NoValue, NoCall)
<1>1. IsTable(conns[x]) /\ IsMap(f) /\ NoCall \in Handler \cup {NoCall} /\ IsMap(conns[x])
  BY DrainedIsMap, TableIsMap DEF AgentInv, AgentTypes
<1>2. tableOf(x).conns = conns[x] /\ tableOf(x).ifaces = ownPart(x, f)
      /\ tableOf(x) = [conns |-> conns[x], ifaces |-> ownPart(x, f)]
  BY EndpointPart DEF tableOf
<1>3. CASE conn.id \in DOMAIN conns[x]
  <2>1. ts \in sending(t)
    BY <1>3 DEF closing
  <2> HIDE DEF f
  <2>2. /\ AboutService(x, ts)
        /\ \E sent \in SendOutcomes :
             ownPart(x, after(AgentOf[x], f, ts))
               = ifacesAfterClose(c, conns[x], ownPart(x, f), conn, sent)
    BY <1>1, <2>1, AfterOwnSend
  <2>3. closedBy(x, conn, ts) \in closeConnection(c, tableOf(x), conn)
    BY <1>2, <2>2 DEF closeConnection, closedBy, f
  <2> QED
    BY <1>2, <1>3, <2>2, <2>3 DEF withoutDuplicate, isDuplicate
<1>4. CASE conn.id \notin DOMAIN conns[x]
  <2>1. ts = << >>
    BY <1>4 DEF closing
  <2>2. connectionsAfterClose(conns[x], conn) = conns[x]
    BY <1>1, <1>4 DEF connectionsAfterClose, RemoveKeys, IsMap
  <2>3. ownPart(x, after(AgentOf[x], f, ts)) = ownPart(x, f)
    BY <2>1, OwnUntouched
  <2>4. closedBy(x, conn, ts) = tableOf(x)
    BY <1>2, <2>2, <2>3 DEF closedBy
  <2> QED
    BY <1>2, <1>4, <2>1, <2>4 DEF withoutDuplicate, isDuplicate, AboutService
<1> QED
  BY <1>3, <1>4

LEMMA RequestDeclinedEndpoints ==
  ASSUME AgentInv, NamesOfAgentApart, PluginsPresent,
         NEW h \in handlers, RequestDeclined(h), NEW s \in Services
  PROVE  EndpointStep(s)
<1> DEFINE x == serviceOf(h)
           a == AgentOf[x]
           conn == connOf(h)
<1>1. x \in Services /\ a \in Agents /\ conn \in Requests /\ conn \in Conn /\ IsTable(conns[x])
  BY HandlerConstants DEF agentOf
<1>2. CASE canServe(x, conn)
  <2>1. /\ conns' = [conns EXCEPT ![x] = connectionsAfterClose(conns[x], conn)]
        /\ UNCHANGED ifaces
        /\ isOccupied(ServiceConfig[x], connectionsAfterClose(conns[x], conn))
    BY <1>2 DEF RequestDeclined, serviceOf, connOf
  <2>2. PICK ts \in closing(x, conn) : Sends(a, ts)
    BY <1>2 DEF RequestDeclined, Sends, serviceOf, connOf
  <2>3. conns'[x] = connectionsAfterClose(conns[x], conn)
    BY <1>1, <2>1 DEF AgentInv, AgentTypes
  <2>4. mayBuildInterface(ServiceConfig[x], conn) /\ isNamed(x, conn)
    BY <1>2 DEF canServe, mayBuildInterface, canBuildInterface, isNamed
  <2> HIDE DEF x, conn
  <2>5. /\ ts \in Seq(Transactions) /\ AboutService(x, ts)
        /\ closedBy(x, conn, ts) \in withoutDuplicate(ServiceConfig[x], tableOf(x), conn)
    BY <1>1, <2>2, <2>4, ClosingType, ClosingOwn DEF AgentInv
  <2> HIDE DEF a
  <2>6. Promises(a, ts)
    BY <1>1, <2>1, <2>2, <2>5, SendsPromises
  <2>7. CASE s # x
    BY <1>1, <2>1, <2>5, <2>6, <2>7, OthersStutter DEF a
  <2>8. CASE s = x
    <3> DEFINE d == closedBy(x, conn, ts)
    <3>1. d.conns = connectionsAfterClose(conns[x], conn)
          /\ d.ifaces = ownPart(x, after(a, drained(a), ts))
      BY DEF closedBy, a
    <3> HIDE DEF d
    <3>2. endpointInterfaces(x)' = d.ifaces
      BY <2>6, <3>1, EndpointPart DEF Promises, a
    <3>3. Endpoint(x)!Next
      BY <1>1, <2>1, <2>3, <2>5, <3>1, <3>2, EndpointDeclines DEF d
    <3> QED
      BY <2>8, <3>3 DEF EndpointStep
  <2> QED
    BY <2>7, <2>8
<1>3. CASE ~canServe(x, conn)
  BY <1>3, QuietStep DEF RequestDeclined, serviceOf, connOf
<1> QED
  BY <1>2, <1>3

\* Transactions about the same service, one after the other.
LEMMA AboutConcat ==
  ASSUME NEW x, NEW p \in Seq(Transactions), NEW u \in Seq(Transactions),
         AboutService(x, p), AboutService(x, u)
  PROVE  AboutService(x, p \o u)
<1> SUFFICES ASSUME NEW i \in DOMAIN (p \o u), (p \o u)[i].op = "interface"
             PROVE  (p \o u)[i].key \in keysOf(ServiceConfig[x])
  BY DEF AboutService
<1>1. (\E j \in DOMAIN p : (p \o u)[i] = p[j]) \/ (\E j \in DOMAIN u : (p \o u)[i] = u[j])
  BY ConcatProperties, LenProperties
<1> QED
  BY <1>1 DEF AboutService

LEMMA RequestStartEndpoints ==
  ASSUME AgentInv, NamesOfAgentApart, PluginsPresent,
         NEW h \in handlers, RequestStart(h), NEW s \in Services
  PROVE  EndpointStep(s)
<1> DEFINE x == serviceOf(h)
           a == AgentOf[x]
           conn == connOf(h)
           c == ServiceConfig[x]
           table == connectionsAfterClose(conns[x], conn)
           t == ifaceTxn(keyIn(x, table, conn), interfaceValue(c, conn), h)
<1>1. x \in Services /\ a \in Agents /\ conn \in Requests /\ conn \in Conn /\ IsTable(conns[x])
      /\ h \in Handler
  BY HandlerConstants DEF agentOf
<1>2. /\ conns' = [conns EXCEPT ![x] = connectionsAfterOpen(c, table, conn)]
      /\ UNCHANGED ifaces /\ canServe(x, conn)
      /\ ~isOccupied(c, table)
  BY DEF RequestStart, serviceOf, connOf
<1>3. PICK p \in closing(x, conn), u \in sending(t) : queue' = [queue EXCEPT ![a] = @ \o p \o u]
  BY DEF RequestStart, serviceOf, connOf
<1>4. conns'[x] = connectionsAfterOpen(c, table, conn)
  BY <1>1, <1>2 DEF AgentInv, AgentTypes
<1>5. mayBuildInterface(c, conn) /\ isNamed(x, conn) /\ IsTable(table)
  BY <1>1, <1>2, CloseTable DEF canServe, mayBuildInterface, canBuildInterface, isNamed
<1> HIDE DEF x, conn, table
<1>6. p \in Seq(Transactions) /\ u \in Seq(Transactions)
  <2>1. t \in Transactions
    BY <1>1, <1>5, EndpointInterfaceType
  <2> HIDE DEF t
  <2> QED
    BY <1>1, <1>3, <2>1, ClosingType, SendingType DEF AgentInv
<1> DEFINE d == closedBy(x, conn, p)
           g == after(a, drained(a), p)
           ts == p \o u
<1>7. AboutService(x, p) /\ d \in withoutDuplicate(c, tableOf(x), conn)
  BY <1>1, <1>3, <1>5, ClosingOwn
<1>8. d.conns = table /\ d.ifaces = ownPart(x, g)
  BY DEF closedBy, table
<1>9. /\ AboutService(x, u)
      /\ \E sent \in SendOutcomes :
           ownPart(x, after(a, g, u)) = ifacesAfterOpen(c, table, ownPart(x, g), conn, sent)
  <2>1. IsMap(g) /\ h \in Handler \cup {NoCall}
    BY <1>1, AfterAt
  <2> HIDE DEF g
  <2> QED
    BY <1>1, <1>3, <1>5, <2>1, AfterOwnSend
<1> HIDE DEF a, d, t
<1>10. Sends(a, ts) /\ ts \in Seq(Transactions) /\ AboutService(x, ts)
  <2>1. queue[a] \in Seq(Transactions)
    BY <1>1 DEF AgentInv, AgentTypes
  <2>2. (queue[a] \o p) \o u = queue[a] \o ts
    BY <1>6, <2>1, SentInTurn
  <2>3. ts \in Seq(Transactions)
    BY <1>6, ConcatProperties
  <2>4. queue' = [queue EXCEPT ![a] = (queue[a] \o p) \o u]
    BY <1>3
  <2>5. AboutService(x, ts)
    BY <1>6, <1>7, <1>9, AboutConcat
  <2> QED
    BY <2>2, <2>3, <2>4, <2>5 DEF Sends
<1>11. after(a, drained(a), ts) = after(a, g, u)
  BY <1>6, AfterConcat
<1> HIDE DEF ts, g
<1>12. Promises(a, ts)
  BY <1>1, <1>2, <1>10, SendsPromises
<1>13. CASE s # x
  BY <1>1, <1>2, <1>10, <1>12, <1>13, OthersStutter DEF a
<1>14. CASE s = x
  <2>1. PICK sent \in SendOutcomes :
          endpointInterfaces(x)' = ifacesAfterOpen(c, d.conns, d.ifaces, conn, sent)
    BY <1>8, <1>9, <1>11, <1>12, EndpointPart DEF Promises, a
  <2>2. Endpoint(x)!Next
    BY <1>1, <1>2, <1>4, <1>5, <1>7, <1>8, <2>1, EndpointAccepts
  <2> QED
    BY <1>14, <2>2 DEF EndpointStep
<1> QED
  BY <1>13, <1>14

LEMMA DeleteEndpointEndpoints ==
  ASSUME AgentInv, LabelsStored, NamesOfAgentApart, PluginsPresent,
         NEW x \in Services, DeleteEndpoint(x), NEW s \in Services
  PROVE  EndpointStep(s)
<1> DEFINE a == AgentOf[x]
<1>1. /\ executes(a, "delete", x) /\ conns' = [conns EXCEPT ![x] = Empty]
      /\ conns'[x] = Empty /\ UNCHANGED ifaces /\ a \in Agents
      /\ IsTable(conns[x])
  BY AgentConstants DEF DeleteEndpoint, Items, AgentInv, AgentTypes
<1>2. PICK ids \in taken(x) : \E order \in Seqs!SetToSeqs(ids) :
        queue' = [queue EXCEPT ![a] = Tail(@) \o closings(x, order)]
  BY DEF DeleteEndpoint
<1>3. PICK order \in Seqs!SetToSeqs(ids) :
        queue' = [queue EXCEPT ![a] = Tail(@) \o closings(x, order)]
  BY <1>2
<1> DEFINE keys == {keyOf(ServiceConfig[x], conns[x], id) : id \in ids}
           n == Cardinality(ids)
           ts == closings(x, order)
<1>4. ts \in Seq(Transactions)
  BY ClosingsType DEF AgentInv
<1>5. ids \subseteq DOMAIN conns[x] /\ IsFiniteSet(ids)
  BY <1>1, TableFinite, FS_Subset DEF taken
<1>6. n \in Nat /\ order \in [1..n -> ids] /\ \A id \in ids : \E i \in 1..n : order[i] = id
  BY <1>5, OrderOf
<1>7. DOMAIN ts = 1..n
  BY <1>6 DEF closings
<1>8. \A i \in 1..n : /\ ts[i].op = "interface" /\ ts[i].value = NoValue
                      /\ ts[i].key = keyOf(ServiceConfig[x], conns[x], order[i])
  BY <1>6 DEF closings, ifaceTxn, keyIn, keyOf
<1> HIDE DEF ts, n
<1>9. \A id \in ids : LET k == keyOf(ServiceConfig[x], conns[x], id)
                      IN  k[1] \in Plugins(ProgramOf[a]) /\ k \in keysOf(ServiceConfig[x])
  <2> TAKE id \in ids
  <2>1. conns[x][id].conn \in Conn /\ isNamed(x, conns[x][id].conn)
    BY <1>1, <1>5 DEF IsTable, Entry, LabelsStored
  <2> QED
    BY <1>1, <2>1, KeyOfService DEF PluginsPresent, keyOf, keyIn
<1>10. \A k \in keys : k[1] \in Plugins(ProgramOf[a]) /\ k \in keysOf(ServiceConfig[x])
  BY <1>9
<1>11. /\ \A i \in DOMAIN ts : ts[i].op = "interface" /\ ts[i].value = NoValue /\ ts[i].key \in keys
       /\ \A k \in keys : \E i \in DOMAIN ts : ts[i].key = k
  BY <1>6, <1>7, <1>8
<1> HIDE DEF keys
<1>12. AboutService(x, ts)
  BY <1>10, <1>11 DEF AboutService
<1>13. after(a, drained(a), ts) = RemoveKeys(drained(a), keys)
  <2> DEFINE f == drained(a)
  <2>1. IsMap(f)
    BY DrainedIsMap
  <2>2. Deletes(a, ts, keys)
    BY <1>10, <1>11 DEF Deletes
  <2> HIDE DEF f, a
  <2>3. after(a, f, ts) = RemoveKeys(f, keys)
    BY <1>4, <2>1, <2>2, AfterDeletions
  <2> QED
    BY <2>3 DEF f
<1>14. Promises(a, ts)
  <2>1. Finishes(a, ts) /\ Head(queue[a]).op # "interface"
    BY <1>1, <1>3 DEF Finishes, executes, ts
  <2> QED
    BY <1>1, <1>4, <2>1, ChangePromises
<1>15. CASE s # x
  BY <1>1, <1>12, <1>14, <1>15, OthersStutter
<1>16. CASE s = x
  <2>1. endpointInterfaces(x)' = RemoveKeys(endpointInterfaces(x), keys)
    BY <1>13, <1>14, EndpointPart, OwnRemove DEF Promises
  <2>2. Endpoint(x)!Next
    BY <1>1, <2>1, EndpointClosesAll DEF keys
  <2> QED
    BY <1>16, <2>2 DEF EndpointStep
<1> QED
  BY <1>15, <1>16

LEMMA EndpointsInit ==
  ASSUME Init, NEW s \in Services
  PROVE  Endpoint(s)!Init
<1>1. AgentOf[s] \in Agents
  BY AgentConstants DEF Items
<1>2. ifaces[AgentOf[s]] = Empty /\ queue[AgentOf[s]] = << >> /\ conns[s] = Empty
  BY <1>1 DEF Init
<1>3. drained(AgentOf[s]) = Empty
  <2>1. \A k : writesTo(<< >>, k) = {}
    BY DEF writesTo
  <2>2. \A k : ~isWritten(AgentOf[s], << >>, k)
    BY <2>1 DEF isWritten
  <2>3. IsMap(Empty)
    BY DEF IsMap, Empty
  <2> QED
    BY <1>2, <2>2, <2>3, AfterNone DEF drained
<1>4. ownPart(s, Empty) = Empty
  BY DEF ownPart, Empty
<1>5. endpointInterfaces(s) = Empty
  BY <1>3, <1>4, EndpointPart
<1> QED
  BY <1>2, <1>5, EndpointTables DEF Endpoint!Init

LEMMA EndpointsStep ==
  ASSUME AgentInv, LabelsStored, NamesOfAgentApart, PluginsPresent, [Next]_vars, NEW s \in Services
  PROVE  EndpointStep(s)
<1>1. CASE UNCHANGED vars
  BY <1>1, QuietStep DEF vars, tables
<1>2. ASSUME NEW a \in Agents, PluginInit(a) \/ PluginInitFails(a) \/ AfterInit(a) \/ RequestEnd(a)
      PROVE  EndpointStep(s)
  <2>1. CASE AfterInit(a)
    BY <2>1, AfterInitEndpoints
  <2>2. CASE PluginInit(a) \/ PluginInitFails(a) \/ RequestEnd(a)
    BY <2>2, QuietStep DEF PluginInit, PluginInitFails, RequestEnd, tables
  <2> QED
    BY <1>2, <2>1, <2>2
<1>3. ASSUME NEW a \in Agents, Scheduler(a) PROVE EndpointStep(s)
  BY <1>3, ExecuteInterfaceEndpoints, AddEndpointEndpoints, DeleteEndpointEndpoints,
     CallEndpoints, ResultEndpoints
     DEF Scheduler
<1>4. ASSUME NEW x \in Services \cup Clients, Configure(x) PROVE EndpointStep(s)
  BY <1>4, ConfigureEndpoints DEF Items
<1>5. ASSUME NEW c \in Clients, GiveUp(c) \/ HandlerOf(c) PROVE EndpointStep(s)
  <2>1. CASE GiveUp(c)
    BY <2>1, QuietStep DEF GiveUp, tables
  <2>2. CASE HandlerOf(c)
    BY <2>2, RequestDeclinedEndpoints, RequestStartEndpoints, CloseConnectionEndpoints DEF HandlerOf
  <2> QED
    BY <1>5, <2>1, <2>2
<1> QED
  BY <1>1, <1>2, <1>3, <1>4, <1>5 DEF Next

\* Every endpoint implements NSMEndpoint, although its transactions are only
\* queued when Request, Close and CloseConnections return, its scheduler
\* executes them later, between those of other endpoints, of clients and of the
\* configuration, and callers leave meanwhile (Request, Close, DeleteEndpoint).
THEOREM AgentImplementsEndpoints ==
  ASSUME NamesOfAgentApart, PluginsPresent
  PROVE  Spec => EndpointsImplemented
<1>1. Init => \A s \in Services : Endpoint(s)!Init
  BY EndpointsInit
<1> DEFINE Inv == AgentInv /\ LabelsStored
<1>2. Inv /\ [Next]_vars =>
        [\A s \in Services : Endpoint(s)!Next \/ UNCHANGED Endpoint(s)!vars]_vars
  BY EndpointsStep DEF EndpointStep
<1>3. Init => Inv
  BY AgentInit, LabelsInit
<1>4. Inv /\ [Next]_vars => Inv'
  BY AgentStep, LabelsStep
<1> QED
  BY <1>1, <1>2, <1>3, <1>4, PTL DEF Spec, EndpointsImplemented

-----------------------------------------------------------------------------
(* The refinement carries the invariant of the endpoint over to the agents. *)

\* The table of service s and the interfaces promised to it are in step.
EndpointMirrored(s) == MirrorInv(ServiceConfig[s], tableOf(s))

\* A method that leaves them in step.
LEMMA BecomesMirrored ==
  ASSUME NEW s, NEW t, MirrorInv(ServiceConfig[s], t), Endpoint(s)!Become(t)
  PROVE  EndpointMirrored(s)'
<1>1. tableOf(s)'.conns = t.conns /\ tableOf(s)'.ifaces = t.ifaces
  BY DEF Endpoint!Become, tableOf
<1> QED
  BY <1>1 DEF EndpointMirrored, MirrorInv, HasInterface, NoStray

LEMMA MirrorInit ==
  ASSUME Init, NEW s \in Services
  PROVE  EndpointMirrored(s)
<1>1. conns[s] = Empty /\ endpointInterfaces(s) = Empty
  <2>1. Endpoint(s)!Init
    BY EndpointsInit
  <2> QED
    BY <2>1, EndpointTables DEF Init, Endpoint!Init
<1>2. tableOf(s).conns = Empty /\ tableOf(s).ifaces = Empty
  BY <1>1 DEF tableOf
<1>3. TableInv(ServiceConfig[s], Empty) /\ DOMAIN Empty = {}
  BY DEF Empty, TableInv, IsTable, IndexesDistinct, IndexesBounded, AtMostOneIfSingle
<1> QED
  BY <1>2, <1>3 DEF EndpointMirrored, MirrorInv, StoredRequests, HasInterface, NoStray

LEMMA MirrorStep ==
  ASSUME ReliableSends, NamesApart, NEW s \in Services, EndpointMirrored(s), EndpointStep(s)
  PROVE  EndpointMirrored(s)'
<1> DEFINE c == ServiceConfig[s]
           t == tableOf(s)
<1>1. c \in Config /\ MirrorInv(c, t)
  BY AgentConstants DEF EndpointMirrored
<1>2. Endpoint(s)!now = t
  BY DEF Endpoint!now, tableOf
<1> HIDE DEF t
<1>3. ASSUME NEW conn \in Requests, Endpoint(s)!RequestDeclined(conn)
      PROVE  EndpointMirrored(s)'
  <2>1. PICK d \in withoutDuplicate(c, t, conn) : Endpoint(s)!Become(d)
    BY <1>2, <1>3, EndpointMethods DEF Endpoint!RequestDeclined, requestDeclined
  <2>2. MirrorInv(c, d)
    BY <1>1, <2>1, DuplicateMirror
  <2> QED
    BY <2>1, <2>2, BecomesMirrored
<1>4. ASSUME NEW conn \in Requests, Endpoint(s)!RequestAccepted(conn)
      PROVE  EndpointMirrored(s)'
  <2>1. PICK d \in requestAccepted(c, t, conn) : Endpoint(s)!Become(d)
    BY <1>2, <1>4, EndpointMethods DEF Endpoint!RequestAccepted
  <2>2. MirrorInv(c, d)
    BY <1>1, <2>1, AcceptMirror
  <2> QED
    BY <2>1, <2>2, BecomesMirrored
<1>5. ASSUME NEW conn \in Requests, Endpoint(s)!Close(conn)
      PROVE  EndpointMirrored(s)'
  <2>1. PICK d \in closeConnection(c, t, conn) : Endpoint(s)!Become(d)
    BY <1>2, <1>5, EndpointMethods DEF Endpoint!Close
  <2>2. MirrorInv(c, d)
    BY <1>1, <2>1, CloseMirror
  <2> QED
    BY <2>1, <2>2, BecomesMirrored
<1>6. ASSUME Endpoint(s)!CloseConnections
      PROVE  EndpointMirrored(s)'
  <2>1. PICK d \in afterClosing(c, t, DOMAIN t.conns) : Endpoint(s)!Become(d)
    BY <1>2, <1>6, EndpointClosings DEF Endpoint!CloseConnections, Endpoint!allClosed
  <2>2. MirrorInv(c, d)
    BY <1>1, <2>1, ClosingMirror
  <2> QED
    BY <2>1, <2>2, BecomesMirrored
<1>7. ASSUME Endpoint(s)!CloseConnectionsFailed
      PROVE  EndpointMirrored(s)'
  <2>1. PICK d \in Endpoint(s)!someClosed(c, t) : Endpoint(s)!Become(d)
    BY <1>2, <1>7 DEF Endpoint!CloseConnectionsFailed
  <2>2. PICK closed \in SUBSET DOMAIN t.conns : d \in Endpoint(s)!afterClosing(c, t, closed)
    BY <2>1 DEF Endpoint!someClosed
  <2>3. MirrorInv(c, d)
    BY <1>1, <2>2, EndpointClosings, ClosingMirror
  <2> QED
    BY <2>1, <2>3, BecomesMirrored
<1>8. ASSUME UNCHANGED Endpoint(s)!vars
      PROVE  EndpointMirrored(s)'
  <2>1. tableOf(s)' = tableOf(s)
    BY <1>8 DEF Endpoint!vars, tableOf
  <2> QED
    BY <2>1 DEF EndpointMirrored
<1> QED
  BY <1>3, <1>4, <1>5, <1>6, <1>7, <1>8
     DEF EndpointStep, Endpoint!Next, Endpoint!RequestFailed, Endpoint!CloseFailed

\* An empty queue has no promises left.
LEMMA MirroredAtRest ==
  ASSUME AgentInv, \A s \in Services : EndpointMirrored(s)
  PROVE  InterfacesAtRest
<1> SUFFICES ASSUME NEW s \in Services, queue[AgentOf[s]] = << >>
             PROVE  LET f == ifaces[AgentOf[s]]
                        key(id) == keyOf(ServiceConfig[s], conns[s], id)
                    IN  /\ DOMAIN f \cap keysOf(ServiceConfig[s])
                             = {key(id) : id \in DOMAIN conns[s]}
                        /\ \A id \in DOMAIN conns[s] :
                             f[key(id)] = interfaceValue(ServiceConfig[s], conns[s][id].conn)
  BY DEF InterfacesAtRest
<1> DEFINE f == ifaces[AgentOf[s]]
           c == ServiceConfig[s]
           mine == DOMAIN f \cap keysOf(c)
           key(id) == keyOf(c, conns[s], id)
<1>1. IsMap(f) /\ AgentOf[s] \in Agents
  BY AgentConstants DEF AgentInv, AgentTypes, Items
<1>2. drained(AgentOf[s]) = f
  <2>1. \A k : ~isWritten(AgentOf[s], << >>, k)
    BY DEF isWritten, writesTo
  <2> QED
    BY <1>1, <2>1, AfterNone DEF drained
<1>3. tableOf(s).conns = conns[s] /\ tableOf(s).ifaces = ownPart(s, f)
  BY <1>2, EndpointPart DEF tableOf
<1>4. TableInv(c, conns[s]) /\ HasInterface(c, tableOf(s)) /\ NoStray(c, tableOf(s))
  BY <1>3 DEF EndpointMirrored, MirrorInv
<1>5. \A id \in DOMAIN conns[s] : key(id) = entryKey(c, conns[s][id])
  BY <1>4, KeyOfStored DEF TableInv, entryKey
<1> DEFINE g == ownPart(s, f)
<1>6. DOMAIN g = mine /\ \A k \in mine : g[k] = f[k]
  BY DEF ownPart
<1> HIDE DEF g, mine, f, key
<1>7. \A id \in DOMAIN conns[s] : key(id) \in mine /\ f[key(id)] = interfaceValue(c, conns[s][id].conn)
  BY <1>3, <1>4, <1>5, <1>6 DEF HasInterface, g
<1>8. \A k \in mine : \E id \in DOMAIN conns[s] : k = key(id)
  BY <1>3, <1>4, <1>5, <1>6 DEF NoStray, g
<1>9. mine = {key(id) : id \in DOMAIN conns[s]}
  BY <1>7, <1>8
<1> QED
  BY <1>7, <1>9 DEF mine, f, key

\* When the scheduler of an agent has nothing left to do, the interfaces of its
\* endpoints are exactly those of their connections, with the latest links,
\* however the requests of all clients, the deletions of endpoints and the
\* transactions of the configuration were interleaved (Request, Close,
\* CloseConnections).
THEOREM AgentInterfacesAtRest ==
  ASSUME ReliableSends, NamesApart, NamesOfAgentApart, PluginsPresent
  PROVE  Spec => []InterfacesAtRest
<1> DEFINE Inv == AgentInv /\ LabelsStored /\ \A s \in Services : EndpointMirrored(s)
<1>1. Init => Inv
  BY AgentInit, LabelsInit, MirrorInit
<1>2. Inv /\ [Next]_vars => Inv'
  BY AgentStep, LabelsStep, EndpointsStep, MirrorStep
<1>3. Inv => InterfacesAtRest
  BY MirroredAtRest
<1> QED
  BY <1>1, <1>2, <1>3, PTL DEF Spec

-----------------------------------------------------------------------------
(* Through NSMEndpoint the endpoints implement AttachmentService. *)

\* Table and interfaces in step give every client the link it has asked for.
LEMMA MirroredLinks ==
  ASSUME NEW c, NEW t, MirrorInv(c, t)
  PROVE  \A id \in DOMAIN t.conns : t.ifaces[keyOf(c, t.conns, id)].link = t.conns[id].conn.link
<1> TAKE id \in DOMAIN t.conns
<1>1. keyOf(c, t.conns, id) = entryKey(c, t.conns[id])
  BY KeyOfStored DEF MirrorInv, TableInv, entryKey
<1>2. t.ifaces[entryKey(c, t.conns[id])] = interfaceValue(c, t.conns[id].conn)
  BY DEF MirrorInv, HasInterface
<1> QED
  BY <1>1, <1>2 DEF interfaceValue

LEMMA AttachmentLinks ==
  ASSUME NEW s
  PROVE  /\ EndpointMirrored(s) =>
              attachments(s) = [id \in DOMAIN conns[s] |-> conns[s][id].conn.link]
         /\ EndpointMirrored(s)' =>
              attachments(s)' = [id \in DOMAIN conns'[s] |-> conns'[s][id].conn.link]
<1>1. ASSUME EndpointMirrored(s)
      PROVE  attachments(s) = [id \in DOMAIN conns[s] |-> conns[s][id].conn.link]
  <2>1. tableOf(s).conns = conns[s] /\ tableOf(s).ifaces = endpointInterfaces(s)
    BY DEF tableOf
  <2>2. \A id \in DOMAIN conns[s] :
          endpointInterfaces(s)[keyOf(ServiceConfig[s], conns[s], id)].link = conns[s][id].conn.link
    BY <1>1, <2>1, MirroredLinks DEF EndpointMirrored
  <2> QED
    BY <2>2 DEF attachments
<1>2. ASSUME EndpointMirrored(s)'
      PROVE  attachments(s)' = [id \in DOMAIN conns'[s] |-> conns'[s][id].conn.link]
  <2>1. tableOf(s)'.conns = conns'[s] /\ tableOf(s)'.ifaces = endpointInterfaces(s)'
    BY DEF tableOf
  <2>2. \A id \in DOMAIN conns'[s] :
          endpointInterfaces(s)'[keyOf(ServiceConfig[s], conns'[s], id)].link = conns'[s][id].conn.link
    BY <1>2, <2>1, MirroredLinks DEF EndpointMirrored
  <2> QED
    BY <2>2 DEF attachments
<1> QED
  BY <1>1, <1>2

\* Closing connections detaches their clients.
LEMMA ClosingDetaches ==
  ASSUME NEW s \in Services, EndpointMirrored(s), EndpointMirrored(s)',
         NEW S, conns'[s] = RemoveKeys(conns[s], S)
  PROVE  Service(s)!Next
<1>1. DOMAIN conns[s] \subseteq ConnIds
  BY DEF EndpointMirrored, MirrorInv, TableInv, IsTable, tableOf
<1>2. attachments(s)' = [x \in DOMAIN attachments(s) \ (S \cap ConnIds) |-> attachments(s)[x]]
  <2>1. /\ attachments(s) = [id \in DOMAIN conns[s] |-> conns[s][id].conn.link]
        /\ attachments(s)' = [id \in DOMAIN conns'[s] |-> conns'[s][id].conn.link]
    BY AttachmentLinks
  <2>2. /\ DOMAIN conns'[s] = DOMAIN conns[s] \ (S \cap ConnIds)
        /\ \A id \in DOMAIN conns'[s] : conns'[s][id] = conns[s][id]
    BY <1>1 DEF RemoveKeys
  <2> QED
    BY <2>1, <2>2
<1>3. Service(s)!Detach(S \cap ConnIds)
  BY <1>2 DEF Service!Detach
<1> QED
  BY <1>3 DEF Service!Next

\* An accepted request attaches its client, and none but it if only one may be.
LEMMA AcceptedAttaches ==
  ASSUME NEW s \in Services, EndpointMirrored(s), EndpointMirrored(s)', NEW conn \in Requests,
         NEW d \in requestAccepted(ServiceConfig[s], tableOf(s), conn), conns'[s] = d.conns
  PROVE  Service(s)!Next
<1> DEFINE c == ServiceConfig[s]
<1>1. PICK e \in withoutDuplicate(c, tableOf(s), conn) :
        ~isOccupied(c, e.conns) /\ conns'[s] = connectionsAfterOpen(c, e.conns, conn)
  BY DEF requestAccepted
<1>2. /\ DOMAIN conns[s] \cup {conn.id} = DOMAIN e.conns \cup {conn.id}
      /\ \A id \in DOMAIN conns[s] : id # conn.id =>
           id \in DOMAIN e.conns /\ e.conns[id] = conns[s][id]
  BY DEF withoutDuplicate, closeConnection, connectionsAfterClose, RemoveKeys, tableOf
<1>3. /\ DOMAIN conns'[s] = DOMAIN e.conns \cup {conn.id}
      /\ conns'[s][conn.id].conn = conn
      /\ \A id \in DOMAIN e.conns : id # conn.id => conns'[s][id] = e.conns[id]
  BY <1>1 DEF connectionsAfterOpen, Put
<1>4. c.singleClient => DOMAIN attachments(s) \subseteq {conn.id}
  BY <1>1, <1>2, AttachmentLinks DEF isOccupied
<1>5. attachments(s)' = [x \in DOMAIN attachments(s) \cup {conn.id} |->
                           IF x = conn.id THEN conn.link ELSE attachments(s)[x]]
  <2>1. /\ attachments(s) = [id \in DOMAIN conns[s] |-> conns[s][id].conn.link]
        /\ attachments(s)' = [id \in DOMAIN conns'[s] |-> conns'[s][id].conn.link]
    BY AttachmentLinks
  <2>2. /\ DOMAIN conns'[s] = DOMAIN conns[s] \cup {conn.id}
        /\ \A id \in DOMAIN conns'[s] :
             conns'[s][id].conn.link = IF id = conn.id THEN conn.link ELSE conns[s][id].conn.link
    BY <1>2, <1>3
  <2> QED
    BY <2>1, <2>2
<1>6. Service(s)!Attach(conn.id, conn.link)
  BY <1>4, <1>5 DEF Service!Attach
<1>7. conn.id \in ConnIds /\ conn.link \in Links
  BY RequestsAssumption DEF Conn
<1> QED
  BY <1>6, <1>7 DEF Service!Next

LEMMA ServiceStep ==
  ASSUME NEW s \in Services, EndpointMirrored(s), EndpointMirrored(s)', EndpointStep(s)
  PROVE  Service(s)!Next \/ UNCHANGED attachments(s)
<1> DEFINE c == ServiceConfig[s]
           t == tableOf(s)
<1>1. /\ Endpoint(s)!now = t /\ t.conns = conns[s]
      /\ \A d : Endpoint(s)!Become(d) => conns'[s] = d.conns
  BY DEF Endpoint!now, Endpoint!Become, tableOf
<1>2. ASSUME conns'[s] = conns[s]
      PROVE  UNCHANGED attachments(s)
  BY <1>2, AttachmentLinks
<1> HIDE DEF t
<1>3. ASSUME NEW conn \in Requests, Endpoint(s)!RequestDeclined(conn)
      PROVE  Service(s)!Next \/ UNCHANGED attachments(s)
  <2>1. PICK d \in withoutDuplicate(c, t, conn) : conns'[s] = d.conns
    BY <1>1, <1>3, EndpointMethods DEF Endpoint!RequestDeclined, requestDeclined
  <2>2. d.conns = conns[s] \/ d.conns = RemoveKeys(conns[s], {conn.id})
    BY <1>1, <2>1 DEF withoutDuplicate, closeConnection, connectionsAfterClose
  <2> QED
    BY <1>2, <2>1, <2>2, ClosingDetaches
<1>4. ASSUME NEW conn \in Requests, Endpoint(s)!RequestAccepted(conn)
      PROVE  Service(s)!Next
  <2>1. PICK d \in requestAccepted(c, t, conn) : conns'[s] = d.conns
    BY <1>1, <1>4, EndpointMethods DEF Endpoint!RequestAccepted
  <2> QED
    BY <2>1, AcceptedAttaches DEF t
<1>5. ASSUME NEW conn \in Requests, Endpoint(s)!Close(conn)
      PROVE  Service(s)!Next
  <2>1. PICK d \in closeConnection(c, t, conn) : conns'[s] = d.conns
    BY <1>1, <1>5, EndpointMethods DEF Endpoint!Close
  <2>2. d.conns = RemoveKeys(conns[s], {conn.id})
    BY <1>1, <2>1 DEF closeConnection, connectionsAfterClose
  <2> QED
    BY <2>1, <2>2, ClosingDetaches
<1>6. ASSUME NEW closed, NEW d \in Endpoint(s)!afterClosing(c, t, closed), conns'[s] = d.conns
      PROVE  Service(s)!Next
  <2>1. d.conns = RemoveKeys(conns[s], closed)
    <3>1. d \in afterClosing(c, t, closed)
      BY <1>6, EndpointClosings
    <3>2. PICK keys : d = [conns  |-> RemoveKeys(t.conns, closed),
                           ifaces |-> RemoveKeys(t.ifaces, keys)]
      BY <3>1 DEF afterClosing
    <3>3. t.conns = conns[s]
      BY <1>1
    <3> QED
      BY <3>2, <3>3
  <2> QED
    BY <1>6, <2>1, ClosingDetaches
<1>7. ASSUME Endpoint(s)!CloseConnections
      PROVE  Service(s)!Next
  BY <1>1, <1>6, <1>7 DEF Endpoint!CloseConnections, Endpoint!allClosed
<1>8. ASSUME Endpoint(s)!CloseConnectionsFailed
      PROVE  Service(s)!Next
  <2>1. PICK d \in Endpoint(s)!someClosed(c, t) : conns'[s] = d.conns
    BY <1>1, <1>8 DEF Endpoint!CloseConnectionsFailed
  <2>2. PICK closed : d \in Endpoint(s)!afterClosing(c, t, closed)
    BY <2>1 DEF Endpoint!someClosed
  <2> QED
    BY <1>6, <2>1, <2>2
<1>9. ASSUME UNCHANGED Endpoint(s)!vars
      PROVE  UNCHANGED attachments(s)
  <2>1. conns'[s] = conns[s]
    BY <1>9 DEF Endpoint!vars
  <2> QED
    BY <1>2, <2>1
<1> QED
  BY <1>3, <1>4, <1>5, <1>7, <1>8, <1>9
     DEF EndpointStep, Endpoint!Next, Endpoint!RequestFailed, Endpoint!CloseFailed

LEMMA ServiceInit ==
  ASSUME Init, NEW s \in Services
  PROVE  Service(s)!Init
<1>1. ServiceConfig[s].singleClient \in BOOLEAN
  BY AgentConstants DEF Config
<1>2. DOMAIN conns[s] = {}
  BY DEF Init, Empty
<1>3. attachments(s) = [x \in {} |-> x]
  BY <1>2 DEF attachments
<1> QED
  BY <1>1, <1>3 DEF Service!Init

\* The clients of every service of every agent get what AttachmentService
\* promises, although handlers, schedulers and configuration interleave: a step
\* attaches one client, renews its link, or detaches clients, and a single-client
\* endpoint has one at a time (Request, Close, CloseConnections).
THEOREM AgentImplementsServices ==
  ASSUME ReliableSends, NamesApart, NamesOfAgentApart, PluginsPresent
  PROVE  Spec => ServicesImplemented
<1> DEFINE Inv == AgentInv /\ LabelsStored /\ \A s \in Services : EndpointMirrored(s)
<1>1. Init => Inv /\ \A s \in Services : Service(s)!Init
  BY AgentInit, LabelsInit, MirrorInit, ServiceInit
<1>2. Inv /\ [Next]_vars => Inv'
  BY AgentStep, LabelsStep, EndpointsStep, MirrorStep
<1>3. Inv /\ Inv' /\ [Next]_vars =>
        [\A s \in Services : Service(s)!Next \/ UNCHANGED attachments(s)]_vars
  BY EndpointsStep, ServiceStep
<1> QED
  BY <1>1, <1>2, <1>3, PTL DEF Spec, ServicesImplemented

-----------------------------------------------------------------------------
(* Schedulers that wait for one another in a circle. *)

\* A scheduler that wants the mutex, or an answer, does nothing else.
LEMMA WaitingScheduler ==
  ASSUME AgentInv, NEW a \in Agents, NEW b \in Agents, waitsFor(a, b)
  PROVE  ~Scheduler(a)
<1> SUFFICES ASSUME Scheduler(a) PROVE FALSE
  OBVIOUS
<1>1. \A x \in Items : executes(a, "create", x) \/ executes(a, "delete", x) =>
        Head(queue[a]).item = x /\ Head(queue[a]).op # "interface"
  BY DEF executes
<1>2. CASE \E s \in Services : a = b /\ (executes(a, "create", s) \/ executes(a, "delete", s))
  <2>1. Head(queue[a]).item \notin Clients /\ Head(queue[a]).op # "interface" /\ ~isFree(a)
    BY <1>1, <1>2, ItemsAssumption DEF Items, waitsFor, isHeldForScheduler
  <2>2. \A c \in Clients : AgentOf[c] = a => calling[c] = "no" /\ ~toCall(c)
    BY <1>1, <2>1, CallerAtHead DEF Items, toCall
  <2> QED
    BY <1>1, <2>1, <2>2 DEF Scheduler, ExecuteInterface, AddEndpoint, DeleteEndpoint,
                            Call, Called, CallFailed, Skip, Items
<1>3. CASE \E c \in Clients : AgentOf[c] = a /\ calling[c] = "waiting"
  <2>1. PICK c \in Clients : AgentOf[c] = a /\ calling[c] = "waiting"
    BY <1>3
  <2>2. Head(queue[a]).item = c /\ Head(queue[a]).op # "interface"
    BY <2>1, CallerAtHead
  <2>3. \A d \in Clients \ {c} : AgentOf[d] = a => calling[d] = "no" /\ ~toCall(d)
                                   /\ ~executes(a, "create", d) /\ ~executes(a, "delete", d)
    BY <1>1, <2>2, CallerAtHead DEF Items, toCall
  <2>4. \A s \in Services : ~executes(a, "create", s) /\ ~executes(a, "delete", s)
    BY <1>1, <2>2, ItemsAssumption DEF Items
  <2> QED
    BY <2>1, <2>2, <2>3, <2>4 DEF Scheduler, ExecuteInterface, AddEndpoint, DeleteEndpoint,
                                  Call, Called, CallFailed, Skip
<1> QED
  BY <1>2, <1>3 DEF waitsFor

\* The queue of b after a step that is not one of its scheduler.
QueueKept(b) ==
  \/ queue'[b] = queue[b]
  \/ queue[b] = << >>
  \/ \E ts \in Seq(Transactions) : queue'[b] = queue[b] \o ts

LEMMA QueueGrows ==
  ASSUME AgentInv, Next, NEW b \in Agents, ~Scheduler(b)
  PROVE  QueueKept(b)
<1>1. queue \in [Agents -> Seq(Transactions)]
  BY DEF AgentInv, AgentTypes
<1>2. ASSUME NEW a \in Agents, NEW ts \in Seq(Transactions), Sends(a, ts)
      PROVE  QueueKept(b)
  <2>1. CASE a = b
    <3>1. queue'[b] = queue[b] \o ts
      BY <1>1, <1>2, <2>1 DEF Sends
    <3> QED
      BY <3>1 DEF QueueKept
  <2>2. CASE a # b
    BY <1>1, <1>2, <2>2 DEF Sends, QueueKept
  <2> QED
    BY <2>1, <2>2
<1>3. ASSUME NEW a \in Agents, NEW q, queue' = [queue EXCEPT ![a] = q], a # b
      PROVE  QueueKept(b)
  BY <1>1, <1>3 DEF QueueKept
<1>4. ASSUME NEW a \in Agents, PluginInit(a) \/ PluginInitFails(a) \/ AfterInit(a) \/ RequestEnd(a)
      PROVE  QueueKept(b)
  <2>1. CASE AfterInit(a)
    <3>1. queue[a] = << >>
      BY <2>1 DEF AfterInit, AgentInv, QueuesOfReady
    <3>2. a # b => queue'[b] = queue[b]
      BY <1>1, <2>1 DEF AfterInit
    <3> QED
      BY <3>1, <3>2 DEF QueueKept
  <2>2. CASE PluginInit(a) \/ PluginInitFails(a) \/ RequestEnd(a)
    BY <2>2 DEF PluginInit, PluginInitFails, RequestEnd, QueueKept
  <2> QED
    BY <1>4, <2>1, <2>2
<1>5. ASSUME NEW a \in Agents, Scheduler(a) PROVE QueueKept(b)
  <2>1. a # b
    BY <1>5
  <2>2. \E q : queue' = [queue EXCEPT ![a] = q]
    BY <1>5 DEF Scheduler, ExecuteInterface, AddEndpoint, DeleteEndpoint, Call, Called, CallFailed, Skip
  <2> QED
    BY <1>3, <2>1, <2>2
<1>6. ASSUME NEW x \in Items, Configure(x) PROVE QueueKept(b)
  <2> DEFINE a == AgentOf[x]
             t == change(x, x \notin desired)
  <2>1. a \in Agents /\ t \in Transactions /\ queue[a] \in Seq(Transactions)
    BY <1>1, AgentConstants, ChangeType
  <2>2. UNCHANGED queue \/ queue' = [queue EXCEPT ![a] = Append(queue[a], t)]
    BY <1>6 DEF Configure
  <2> HIDE DEF a, t
  <2>3. Append(queue[a], t) = queue[a] \o <<t>> /\ <<t>> \in Seq(Transactions)
    BY <2>1, AppendIsConcat
  <2> QED
    BY <1>2, <2>1, <2>2, <2>3 DEF Sends, QueueKept
<1>7. ASSUME NEW h \in handlers, RequestDeclined(h) \/ RequestStart(h) \/ CloseConnection(h)
      PROVE  QueueKept(b)
  <2> DEFINE s == serviceOf(h)
             a == agentOf(h)
             conn == connOf(h)
             closed == connectionsAfterClose(conns[s], conn)
             removal == ifaceTxn(keyIn(s, conns[s], conn), NoValue, NoCall)
             write == ifaceTxn(keyIn(s, closed, conn), interfaceValue(ServiceConfig[s], conn), h)
  <2>1. /\ s \in Services /\ a \in Agents /\ conn \in Conn /\ h \in Handler /\ IsTable(conns[s])
        /\ queue[a] \in Seq(Transactions)
    BY <1>1, HandlerConstants
  <2>2. IsTable(closed) /\ removal \in Transactions
    BY <2>1, CloseTable, EndpointInterfaceType
  <2>3. write \in Transactions
    BY <2>1, <2>2, EndpointInterfaceType
  <2>4. \/ UNCHANGED queue
        \/ \E ts \in closing(s, conn) : queue' = [queue EXCEPT ![a] = @ \o ts]
        \/ \E p \in closing(s, conn), u \in sending(write) : queue' = [queue EXCEPT ![a] = @ \o p \o u]
        \/ \E ts \in sending(removal) : queue' = [queue EXCEPT ![a] = @ \o ts]
    BY <1>7 DEF RequestDeclined, RequestStart, CloseConnection, serviceOf, agentOf, connOf
  <2>5. /\ \A ts \in closing(s, conn) : ts \in Seq(Transactions)
        /\ \A ts \in sending(write) : ts \in Seq(Transactions)
        /\ \A ts \in sending(removal) : ts \in Seq(Transactions)
    BY <2>1, <2>2, <2>3, ClosingType, SendingType DEF AgentInv
  <2> HIDE DEF s, a, conn, removal, write
  <2>6. ASSUME NEW p \in Seq(Transactions), NEW u \in Seq(Transactions),
               queue' = [queue EXCEPT ![a] = @ \o p \o u]
        PROVE  QueueKept(b)
    <3>1. (queue[a] \o p) \o u = queue[a] \o (p \o u) /\ p \o u \in Seq(Transactions)
      BY <2>1, SentInTurn, ConcatProperties
    <3>2. queue' = [queue EXCEPT ![a] = (queue[a] \o p) \o u]
      BY <2>6
    <3>3. Sends(a, p \o u)
      BY <3>1, <3>2 DEF Sends
    <3> QED
      BY <1>2, <2>1, <3>1, <3>3
  <2>7. ASSUME NEW ts \in Seq(Transactions), queue' = [queue EXCEPT ![a] = @ \o ts]
        PROVE  QueueKept(b)
    BY <1>2, <2>1, <2>7 DEF Sends
  <2>8. UNCHANGED queue => QueueKept(b)
    BY DEF QueueKept
  <2> QED
    BY <2>4, <2>5, <2>6, <2>7, <2>8
<1>8. ASSUME NEW c \in Clients, GiveUp(c) \/ HandlerOf(c) PROVE QueueKept(b)
  BY <1>7, <1>8 DEF GiveUp, HandlerOf, QueueKept
<1> QED
  BY <1>4, <1>5, <1>6, <1>8 DEF Next, Items

\* What is in a queue stays in it, and its head stays the head.
LEMMA KeptQueue ==
  ASSUME AgentInv, NEW b \in Agents, QueueKept(b)
  PROVE  /\ \A h : isQueued(b, h) => isQueued(b, h)'
         /\ \A op, x : executes(b, op, x) => executes(b, op, x)'
<1>1. queue[b] \in Seq(Transactions)
  BY DEF AgentInv, AgentTypes
<1>2. ASSUME NEW ts \in Seq(Transactions), queue'[b] = queue[b] \o ts, queue[b] # << >>
      PROVE  /\ Head(queue'[b]) = Head(queue[b]) /\ queue'[b] # << >>
             /\ \A i \in DOMAIN queue[b] : i \in DOMAIN queue'[b] /\ queue'[b][i] = queue[b][i]
  <2> DEFINE q == queue[b]
  <2>1. q \in Seq(Transactions) /\ q # << >>
    BY <1>1, <1>2
  <2> HIDE DEF q
  <2>2. Head(q \o ts) = Head(q) /\ q \o ts # << >>
    BY <2>1
  <2>3. \A i \in DOMAIN q : i \in DOMAIN (q \o ts) /\ (q \o ts)[i] = q[i]
    BY <2>1, ConcatProperties, LenProperties
  <2> QED
    BY <1>2, <2>2, <2>3 DEF q
<1>3. CASE queue[b] = << >>
  BY <1>3 DEF isQueued, executes
<1>4. CASE queue[b] # << >>
  <2>1. /\ Head(queue'[b]) = Head(queue[b]) /\ queue'[b] # << >>
        /\ \A i \in DOMAIN queue[b] : i \in DOMAIN queue'[b] /\ queue'[b][i] = queue[b][i]
    BY <1>2, <1>4 DEF QueueKept
  <2> QED
    BY <2>1 DEF isQueued, executes
<1> QED
  BY <1>3, <1>4

\* The handler that waits for the scheduler of b keeps the mutex of b.
LEMMA KeptMutex ==
  ASSUME AgentInv, Next, NEW b \in Agents, isHeldForScheduler(b)
  PROVE  mutex'[b] = mutex[b]
<1>1. ~isFree(b) /\ ~sendReturns(b, mutex[b]) /\ mutex \in [Agents -> Handler \cup {NoCall}]
  BY DEF isHeldForScheduler, sendReturns, AgentInv, AgentTypes
<1>2. ASSUME UNCHANGED mutex PROVE mutex'[b] = mutex[b]
  BY <1>2
<1>3. ASSUME NEW a \in Agents, RequestEnd(a) PROVE mutex'[b] = mutex[b]
  BY <1>1, <1>3 DEF RequestEnd
<1>4. ASSUME NEW h \in handlers, RequestStart(h) PROVE mutex'[b] = mutex[b]
  BY <1>1, <1>4 DEF RequestStart
<1>5. ASSUME NEW a \in Agents, PluginInit(a) \/ PluginInitFails(a) \/ AfterInit(a) \/ Scheduler(a)
      PROVE  mutex'[b] = mutex[b]
  BY <1>2, <1>5 DEF PluginInit, PluginInitFails, AfterInit, Scheduler, ExecuteInterface,
                    AddEndpoint, DeleteEndpoint, Call, Called, CallFailed, Skip, rpc
<1>6. ASSUME NEW x \in Items, Configure(x) PROVE mutex'[b] = mutex[b]
  BY <1>2, <1>6 DEF Configure, rpc
<1>7. ASSUME NEW c \in Clients, GiveUp(c) \/ HandlerOf(c) PROVE mutex'[b] = mutex[b]
  BY <1>2, <1>4, <1>7 DEF GiveUp, HandlerOf, RequestDeclined, CloseConnection
<1> QED
  BY <1>3, <1>5, <1>6, <1>7 DEF Next, Items

\* Nobody answers a client of an endpoint behind that mutex.
LEMMA KeptCall ==
  ASSUME AgentInv, Next, NEW b \in Agents, isHeldForScheduler(b),
         NEW c \in Clients, AgentOf[ServiceOf[c]] = b, calling[c] = "waiting", ~GiveUp(c)
  PROVE  calling'[c] = "waiting" /\ calls'[c] = calls[c]
<1>1. /\ ~isFree(b) /\ ~sendReturns(b, mutex[b])
      /\ calling \in [Clients -> {"no", "waiting", "answered", "failed"}]
      /\ calls \in [Clients -> 0..MaxCalls]
  BY DEF isHeldForScheduler, sendReturns, AgentInv, AgentTypes
<1> DEFINE Kept == calling'[c] = "waiting" /\ calls'[c] = calls[c]
<1>2. ASSUME UNCHANGED <<calling, calls>> PROVE Kept
  BY <1>2
<1>3. ASSUME NEW h \in handlers, h.client # c, NEW result, calling' = answer(h, result), UNCHANGED calls
      PROVE  Kept
  BY <1>1, <1>3 DEF answer
<1>4. ASSUME NEW a \in Agents, RequestEnd(a) PROVE Kept
  <2>1. mutex[a] \in handlers /\ AgentOf[ServiceOf[mutex[a].client]] = a /\ a # b
    BY <1>1, <1>4 DEF RequestEnd, AgentInv, MutexHeld
  <2> QED
    BY <1>3, <1>4, <2>1 DEF RequestEnd
<1>5. ASSUME NEW h \in handlers, RequestDeclined(h) \/ RequestStart(h) \/ CloseConnection(h) PROVE Kept
  <2>1. h.client # c
    BY <1>1, <1>5 DEF RequestDeclined, RequestStart, CloseConnection
  <2> QED
    BY <1>2, <1>3, <1>5, <2>1 DEF RequestDeclined, RequestStart, CloseConnection
<1>6. ASSUME NEW d \in Clients, Call(d) \/ Called(d) \/ CallFailed(d) \/ GiveUp(d) PROVE Kept
  <2>1. d # c
    BY <1>6 DEF Call, Called, CallFailed
  <2>2. /\ \/ UNCHANGED calling
           \/ \E known : calling' = [calling EXCEPT ![d] = known]
        /\ \/ UNCHANGED calls
           \/ \E n : calls' = [calls EXCEPT ![d] = n]
    BY <1>6 DEF Call, Called, CallFailed, GiveUp
  <2> QED
    BY <1>1, <2>1, <2>2
<1>7. ASSUME NEW a \in Agents, Scheduler(a) PROVE Kept
  BY <1>2, <1>6, <1>7 DEF Scheduler, ExecuteInterface, AddEndpoint, DeleteEndpoint, Skip, rpc
<1>8. ASSUME NEW a \in Agents, PluginInit(a) \/ PluginInitFails(a) \/ AfterInit(a) PROVE Kept
  BY <1>2, <1>8 DEF PluginInit, PluginInitFails, AfterInit, rpc
<1>9. ASSUME NEW x \in Items, Configure(x) PROVE Kept
  BY <1>2, <1>9 DEF Configure, rpc
<1>10. ASSUME NEW d \in Clients, HandlerOf(d) PROVE Kept
  BY <1>5, <1>10 DEF HandlerOf
<1> HIDE DEF Kept
<1>11. Kept
  BY <1>4, <1>6, <1>7, <1>8, <1>9, <1>10 DEF Next, Items
<1> QED
  BY <1>11 DEF Kept

\* A wait for the scheduler of b lasts while that scheduler waits itself.
LEMMA KeptWait ==
  ASSUME AgentInv, Next, \A c \in Clients : ~GiveUp(c), NEW a \in Agents, NEW b \in Agents,
         NEW d \in Agents, waitsFor(a, b), waitsFor(b, d)
  PROVE  waitsFor(a, b)'
<1>1. isHeldForScheduler(b)
  BY DEF waitsFor
<1> DEFINE h == mutex[b]
<1>2. /\ h \in handlers /\ h.client \in Clients /\ AgentOf[ServiceOf[h.client]] = b
      /\ calling[h.client] = "waiting" /\ calls[h.client] = h.n /\ isQueued(b, h)
  BY <1>1, HandlerConstants DEF isHeldForScheduler, isAwaited, AgentInv, MutexHeld
<1>3. mutex'[b] = h
  BY <1>1, KeptMutex
<1>4. QueueKept(a) /\ QueueKept(b)
  BY WaitingScheduler, QueueGrows
<1>5. calling'[h.client] = "waiting" /\ calls'[h.client] = h.n
  BY <1>1, <1>2, KeptCall
<1>6. isQueued(b, h)'
  <2>1. isQueued(b, mutex[b]) => \E i \in DOMAIN queue'[b] :
          queue'[b][i].op = "interface" /\ queue'[b][i].call = mutex[b]
    BY <1>4, KeptQueue DEF isQueued
  <2> QED
    BY <1>2, <1>3, <2>1 DEF isQueued
<1>7. isHeldForScheduler(b)'
  BY <1>1, <1>3, <1>5, <1>6 DEF isHeldForScheduler, isFree, isAwaited
<1>8. ASSUME a = b, NEW s \in Services, executes(a, "create", s) \/ executes(a, "delete", s)
      PROVE  (executes(a, "create", s) \/ executes(a, "delete", s))'
  BY <1>4, <1>8, KeptQueue
<1>9. ASSUME NEW c \in Clients, AgentOf[c] = a, AgentOf[ServiceOf[c]] = b, calling[c] = "waiting"
      PROVE  calling'[c] = "waiting"
  BY <1>1, <1>9, KeptCall
<1> QED
  BY <1>7, <1>8, <1>9 DEF waitsFor

\* Schedulers that wait for one another in a circle go on doing so, whatever
\* handlers, other agents and the configuration do: only a caller that gives up
\* its call over NSM can end it, and the code gives it no deadline (Create,
\* Delete, Request).
THEOREM AgentCircleStays == Spec => CircleStays
<1>1. ASSUME AgentInv, [Next]_vars
      PROVE  [Circular => Circular' \/ \E c \in Clients : GiveUp(c)]_vars
  <2> SUFFICES ASSUME Next, Circular, \A c \in Clients : ~GiveUp(c)
               PROVE  Circular'
    BY <1>1
  <2>1. PICK S \in (SUBSET Agents) \ {{}} : \A a \in S : \E b \in S : waitsFor(a, b)
    BY DEF Circular
  <2>2. \A a \in S : \E b \in S : waitsFor(a, b)'
    <3> TAKE a \in S
    <3>1. PICK b \in S : waitsFor(a, b)
      BY <2>1
    <3>2. PICK d \in S : waitsFor(b, d)
      BY <2>1
    <3>3. waitsFor(a, b)'
      BY <1>1, <3>1, <3>2, KeptWait
    <3> QED
      BY <3>3
  <2> QED
    BY <2>2 DEF Circular
<1>2. AgentInv /\ [Next]_vars => [Circular => Circular' \/ \E c \in Clients : GiveUp(c)]_vars
  BY <1>1
<1> QED
  BY <1>2, AgentInit, AgentStep, PTL DEF Spec, CircleStays
=============================================================================
