------------------------------ MODULE NSMAgent ------------------------------
(***************************************************************************)
(* Agents that serve and use each other's network services: the threads    *)
(* around the two descriptors and what they wait for.                      *)
(*                                                                         *)
(* Each agent (cmd/nsm-agent-vpp, cmd/nsm-agent-linux) has one scheduler   *)
(* thread (external) that executes the transactions of its queue in order. *)
(* Creating or deleting an endpoint needs the mutex of the demultiplexer.  *)
(* Creating or deleting a client blocks the scheduler in a call over NSM   *)
(* (external), which a handler thread of the serving agent answers.  The   *)
(* handler takes the mutex, and Request keeps it while it waits for its    *)
(* own scheduler to execute the interface transaction it has sent; the     *)
(* deletion of an interface is sent without waiting.                       *)
(*                                                                         *)
(* NSMEndpoint takes a whole Request as one step.  Here the transaction is *)
(* in the queue first, and interfaces are those the scheduler has applied. *)
(* An endpoint ignores the results of its transactions, so any of them may *)
(* be lost if FALSE is in SendOutcomes.  The repository doubts that those  *)
(* sent without waiting work at all: see the TODO in nsm_client.go.        *)
(* The failures of NSM and of the file system are left to NSMEndpointDemux *)
(* and NSMClient; a call may end without answer here.                      *)
(***************************************************************************)
EXTENDS NSMConnections, Sequences, Functions

CONSTANTS
  Agents,          \* the agents
  ProgramOf,       \* agent -> "vpp" or "linux", the program it runs
  Services,        \* network services, each with an endpoint on one agent
  AgentOf,         \* service or client -> the agent that has it configured
  ServiceConfig,   \* service -> its NetworkServiceEndpoint
  ServiceOf,       \* client -> the service it connects to
  ConnectionOf,    \* client -> the connection it requests
  InterfaceOf,     \* client -> <<kind, name>> of its interface
  Configured,      \* services and clients configured before the agents start
  NoCall,          \* no handler
  NoValue,         \* the deletion of a value
  MaxCalls,        \* bound on the number of calls of a client
  MaxChanges       \* bound on the number of changes of the configuration

Clients == DOMAIN ServiceOf

\* SequencesExt defines a name that NSMConnections declares.
Seqs == INSTANCE SequencesExt

ASSUME AgentsAssumption ==
  /\ ProgramOf \in [Agents -> {"vpp", "linux"}]
  /\ AgentOf \in [Services \cup Clients -> Agents]
  /\ ServiceConfig \in [Services -> Config]
  /\ ServiceOf \in [Clients -> Services]
  /\ ConnectionOf \in [Clients -> Requests]
  /\ Configured \subseteq Services \cup Clients
ASSUME ItemsAssumption == IsFiniteSet(Services \cup Clients) /\ Services \cap Clients = {}
ASSUME NoValueAssumption == NoValue \notin [link : Links, addressed : BOOLEAN]
ASSUME BoundsAssumption == MaxCalls \in Nat /\ MaxChanges \in Nat

VARIABLES
  phase,       \* life of each agent
  registered,  \* descriptors registered with the scheduler of each agent
  desired,     \* services and clients that are configured
  queue,       \* transactions of each scheduler; the first is being executed
  endpoints,   \* x.endpoints: services in the demultiplexers, known to NSM
  conns,       \* service -> e.connections of its endpoint
  ifaces,      \* interfaces applied on each agent
  mutex,       \* the handler that holds the mutex of each demultiplexer
  handlers,    \* handler threads: [client, n, kind], the n-th call of the client
  calling,     \* what the scheduler that called for a client knows
  calls,       \* number of calls of each client
  joined,      \* clients that are created
  changes      \* changes of the configuration so far

startup == <<phase, registered>>
tables == <<endpoints, conns>>
rpc == <<mutex, handlers, calling, calls>>
vars == <<startup, desired, queue, tables, ifaces, rpc, joined, changes>>

Init ==
  /\ phase = [a \in Agents |-> "new"]
  /\ registered = [a \in Agents |-> {}]
  /\ desired = Configured
  /\ queue = [a \in Agents |-> << >>]
  /\ endpoints = {}
  /\ conns = [s \in Services |-> Empty]
  /\ ifaces = [a \in Agents |-> Empty]
  /\ mutex = [a \in Agents |-> NoCall]
  /\ handlers = {}
  /\ calling = [c \in Clients |-> "no"]
  /\ calls = [c \in Clients |-> 0]
  /\ joined = {}
  /\ changes = 0

-----------------------------------------------------------------------------
(* Start of an agent. *)

\* The interface plugins in the list of each program.
vppAgentPlugins == {"vpp", "linux"}
linuxAgentPlugins == {"linux"}

Plugins(program) == IF program = "vpp" THEN vppAgentPlugins ELSE linuxAgentPlugins

\* Faulty variant: the second descriptor is forgotten.
clientDescriptorOnly == {"client"}

\* RegisterKVDescriptor is called twice.
nsmDescriptors == {"client", "endpoint"}

PluginInit(a) ==
  /\ phase[a] = "new"
  /\ registered' = [registered EXCEPT ![a] = nsmDescriptors]
  /\ phase' = [phase EXCEPT ![a] = "inited"]
  /\ UNCHANGED <<desired, queue, tables, ifaces, rpc, joined, changes>>

\* RegisterKVDescriptor fails and Init returns: the program ends.
PluginInitFails(a) ==
  /\ phase[a] = "new"
  /\ phase' = [phase EXCEPT ![a] = "failed"]
  /\ \E done \in SUBSET nsmDescriptors :
       /\ done # nsmDescriptors /\ ("endpoint" \in done => "client" \in done)
       /\ registered' = [registered EXCEPT ![a] = done]
  /\ UNCHANGED <<desired, queue, tables, ifaces, rpc, joined, changes>>

itemsOf(a) == {x \in desired : AgentOf[x] = a}

change(x, add) == [op |-> IF add THEN "create" ELSE "delete", item |-> x]

\* AfterInit: the startup resync brings what is configured by now.
AfterInit(a) ==
  /\ phase[a] = "inited"
  /\ phase' = [phase EXCEPT ![a] = "ready"]
  /\ \E order \in Seqs!SetToSeqs(itemsOf(a)) :
       queue' = [queue EXCEPT ![a] = [i \in DOMAIN order |-> change(order[i], TRUE)]]
  /\ UNCHANGED <<registered, desired, tables, ifaces, rpc, joined, changes>>

\* The configuration in the KVDB changes; an agent that is up gets to know.
Configure(x) ==
  /\ changes < MaxChanges
  /\ changes' = changes + 1
  /\ desired' = IF x \in desired THEN desired \ {x} ELSE desired \cup {x}
  /\ queue' = IF phase[AgentOf[x]] = "ready"
                THEN [queue EXCEPT ![AgentOf[x]] = Append(@, change(x, x \notin desired))]
                ELSE queue
  /\ UNCHANGED <<startup, tables, ifaces, rpc, joined>>

-----------------------------------------------------------------------------
(* The scheduler thread of an agent. *)

executes(a, op, x) == queue[a] # << >> /\ Head(queue[a]) = [op |-> op, item |-> x]

ifaceTxn(key, value, call) == [op |-> "interface", key |-> key, value |-> value, call |-> call]

\* Interfaces after a transaction; only those of a plugin in the agent.
applied(a, f, t) ==
  IF t.op # "interface" \/ t.key[1] \notin Plugins(ProgramOf[a]) THEN f
  ELSE IF t.value = NoValue THEN RemoveKeys(f, {t.key}) ELSE Put(f, t.key, t.value)

ExecuteInterface(a) ==
  /\ queue[a] # << >> /\ Head(queue[a]).op = "interface"
  /\ ifaces' = [ifaces EXCEPT ![a] = applied(a, @, Head(queue[a]))]
  /\ queue' = [queue EXCEPT ![a] = Tail(@)]
  /\ UNCHANGED <<startup, desired, tables, rpc, joined, changes>>

isFree(a) == mutex[a] = NoCall

AddEndpoint(s) ==
  LET a == AgentOf[s]
  IN  /\ executes(a, "create", s) /\ "endpoint" \in registered[a]
      /\ isFree(a)
      /\ endpoints' = endpoints \cup {s}
      /\ queue' = [queue EXCEPT ![a] = Tail(@)]
      /\ UNCHANGED <<startup, desired, conns, ifaces, rpc, joined, changes>>

keyIn(s, table, conn) == interfaceKey(ServiceConfig[s], table, conn)

\* The connections whose deletions get through when all are closed.
taken(s) ==
  {x \in SUBSET DOMAIN conns[s] : /\ x # {} => TRUE \in SendOutcomes
                                  /\ x # DOMAIN conns[s] => FALSE \in SendOutcomes}

\* Faulty variant: the connections of a deleted endpoint are not closed.
noClosings(s, order) == << >>

\* CloseConnections visits the connections in any order.
closings(s, order) ==
  [i \in DOMAIN order |-> ifaceTxn(keyIn(s, conns[s], conns[s][order[i]].conn), NoValue, NoCall)]

DeleteEndpoint(s) ==
  LET a == AgentOf[s]
  IN  /\ executes(a, "delete", s) /\ "endpoint" \in registered[a]
      /\ isFree(a)
      /\ \E ids \in taken(s) : \E order \in Seqs!SetToSeqs(ids) :
           queue' = [queue EXCEPT ![a] = Tail(@) \o closings(s, order)]
      /\ conns' = [conns EXCEPT ![s] = Empty]
      /\ endpoints' = endpoints \ {s}
      /\ UNCHANGED <<startup, desired, ifaces, rpc, joined, changes>>

-----------------------------------------------------------------------------
(* Create and Delete of the client descriptor: a call, then its result.    *)

\* Create of a client that is not there, Delete of one that is.
toCall(c) ==
  \/ executes(AgentOf[c], "create", c) /\ c \notin joined
  \/ executes(AgentOf[c], "delete", c) /\ c \in joined

\* Sent by a goroutine of Create or Delete; NSMClient is about when it sends.
clientInterface(c, value) == ifaceTxn(InterfaceOf[c], value, NoCall)

\* Delete sends its interface first.  NSM calls the agent of the endpoint, if
\* there is one.
Call(c) ==
  /\ toCall(c) /\ "client" \in registered[AgentOf[c]]
  /\ calling[c] = "no"
  /\ calls[c] < MaxCalls
  /\ calls' = [calls EXCEPT ![c] = @ + 1]
  /\ queue' = [queue EXCEPT ![AgentOf[c]] =
       @ \o (IF c \in joined THEN <<clientInterface(c, NoValue)>> ELSE << >>)]
  /\ IF ServiceOf[c] \in endpoints
       THEN /\ calling' = [calling EXCEPT ![c] = "waiting"]
            /\ handlers' = handlers \cup
                 {[client |-> c, n |-> calls[c] + 1,
                   kind |-> IF c \in joined THEN "close" ELSE "request"]}
       ELSE /\ calling' = [calling EXCEPT ![c] = "failed"]
            /\ UNCHANGED handlers
  /\ UNCHANGED <<startup, desired, tables, ifaces, mutex, joined, changes>>

\* NSM loses the call or gives it up (external).  The code sets no deadline, it
\* calls with context.Background(): nothing says that this ever happens.
GiveUp(c) ==
  /\ calling[c] = "waiting"
  /\ calling' = [calling EXCEPT ![c] = "failed"]
  /\ UNCHANGED <<startup, desired, queue, tables, ifaces, mutex, handlers, calls, joined, changes>>

\* The call is answered.
Called(c) ==
  LET a == AgentOf[c]
  IN  /\ calling[c] = "answered"
      /\ calling' = [calling EXCEPT ![c] = "no"]
      /\ queue' = [queue EXCEPT ![a] =
           Tail(@) \o (IF c \in joined THEN << >> ELSE <<clientInterface(c, c)>>)]
      /\ joined' = IF c \in joined THEN joined \ {c} ELSE joined \cup {c}
      /\ UNCHANGED <<startup, desired, tables, ifaces, mutex, handlers, calls, changes>>

\* Create or Delete returns an error and the scheduler retries it later, if it
\* is still asked for and the bound is not reached.
CallFailed(c) ==
  LET a == AgentOf[c]
      isRetried == calls[c] < MaxCalls /\ (c \in desired) # (c \in joined)
  IN  /\ calling[c] = "failed"
      /\ calling' = [calling EXCEPT ![c] = "no"]
      /\ queue' = [queue EXCEPT ![a] =
           Tail(@) \o (IF isRetried THEN <<Head(@)>> ELSE << >>)]
      /\ UNCHANGED <<startup, desired, tables, ifaces, mutex, handlers, calls, joined, changes>>

\* Nothing to do for the client, or the bound on its calls is reached.
Skip(c) ==
  LET a == AgentOf[c]
  IN  /\ calling[c] = "no"
      /\ executes(a, "create", c) \/ executes(a, "delete", c)
      /\ toCall(c) => calls[c] = MaxCalls
      /\ queue' = [queue EXCEPT ![a] = Tail(@)]
      /\ UNCHANGED <<startup, desired, tables, ifaces, rpc, joined, changes>>

-----------------------------------------------------------------------------
(* The handler threads: Request and Close of the demultiplexer.            *)

isAwaited(h) == calling[h.client] = "waiting" /\ calls[h.client] = h.n

answer(h, result) == IF isAwaited(h) THEN [calling EXCEPT ![h.client] = result] ELSE calling

\* Faulty variant: the service is not looked up.
canServeDeleted(s, conn) == canBuildInterface(ServiceConfig[s], conn, TRUE)

\* epExists, and buildInterfaceConfig returns no error.
canServe(s, conn) == s \in endpoints /\ canBuildInterface(ServiceConfig[s], conn, TRUE)

\* What a Send whose result is ignored puts into the queue.
sending(t) == {IF sent THEN <<t>> ELSE << >> : sent \in SendOutcomes}

\* Closing a duplicate.
closing(s, conn) ==
  IF conn.id \in DOMAIN conns[s] THEN sending(ifaceTxn(keyIn(s, conns[s], conn), NoValue, NoCall))
                                 ELSE {<< >>}

\* Request is turned away: no such service or no interface for the connection,
\* or the endpoint is occupied; a duplicate is gone by then.
RequestDeclined(h) ==
  LET s == ServiceOf[h.client]
      a == AgentOf[s]
      conn == ConnectionOf[h.client]
      without == connectionsAfterClose(conns[s], conn)
  IN  /\ h.kind = "request" /\ isFree(a)
      /\ IF canServe(s, conn)
           THEN /\ isOccupied(ServiceConfig[s], without)
                /\ conns' = [conns EXCEPT ![s] = without]
                /\ \E ts \in closing(s, conn) : queue' = [queue EXCEPT ![a] = @ \o ts]
           ELSE UNCHANGED <<conns, queue>>
      /\ handlers' = handlers \ {h}
      /\ calling' = answer(h, "failed")
      /\ UNCHANGED <<startup, desired, endpoints, ifaces, mutex, calls, joined, changes>>

\* Request stores the connection, sends the interface and waits for it with
\* the mutex locked.
RequestStart(h) ==
  LET s == ServiceOf[h.client]
      a == AgentOf[s]
      conn == ConnectionOf[h.client]
      without == connectionsAfterClose(conns[s], conn)
      t == ifaceTxn(keyIn(s, without, conn), interfaceValue(ServiceConfig[s], conn), h)
  IN  /\ h.kind = "request" /\ isFree(a)
      /\ canServe(s, conn)
      /\ ~isOccupied(ServiceConfig[s], without)
      /\ conns' = [conns EXCEPT ![s] = connectionsAfterOpen(ServiceConfig[s], without, conn)]
      /\ \E first \in closing(s, conn), second \in sending(t) :
           queue' = [queue EXCEPT ![a] = @ \o first \o second]
      /\ mutex' = [mutex EXCEPT ![a] = h]
      /\ UNCHANGED <<startup, desired, endpoints, ifaces, handlers, calling, calls, joined, changes>>

isQueued(a, h) == \E i \in DOMAIN queue[a] : queue[a][i].op = "interface" /\ queue[a][i].call = h

\* Faulty variant: the wait goes on when the caller is gone.
waitsForever(a, h) == ~isQueued(a, h)

\* Faulty variant: Send does not wait for the scheduler.
neverWaits(a, h) == TRUE

\* Send(ctx) returns when the transaction is executed or the caller is gone.
sendReturns(a, h) == ~isQueued(a, h) \/ ~isAwaited(h)

\* The result of Send is ignored.
RequestEnd(a) ==
  LET h == mutex[a]
  IN  /\ ~isFree(a)
      /\ sendReturns(a, h)
      /\ mutex' = [mutex EXCEPT ![a] = NoCall]
      /\ handlers' = handlers \ {h}
      /\ calling' = answer(h, "answered")
      /\ UNCHANGED <<startup, desired, queue, tables, ifaces, calls, joined, changes>>

CloseConnection(h) ==
  LET s == ServiceOf[h.client]
      a == AgentOf[s]
      conn == ConnectionOf[h.client]
  IN  /\ h.kind = "close" /\ isFree(a)
      /\ IF canServe(s, conn)
           THEN /\ conns' = [conns EXCEPT ![s] = connectionsAfterClose(@, conn)]
                /\ \E ts \in sending(ifaceTxn(keyIn(s, conns[s], conn), NoValue, NoCall)) :
                     queue' = [queue EXCEPT ![a] = @ \o ts]
                /\ calling' = answer(h, "answered")
           ELSE /\ calling' = answer(h, "failed")
                /\ UNCHANGED <<conns, queue>>
      /\ handlers' = handlers \ {h}
      /\ UNCHANGED <<startup, desired, endpoints, ifaces, mutex, calls, joined, changes>>

-----------------------------------------------------------------------------
Scheduler(a) ==
  \/ ExecuteInterface(a)
  \/ \E s \in Services : AgentOf[s] = a /\ (AddEndpoint(s) \/ DeleteEndpoint(s))
  \/ \E c \in Clients :
       AgentOf[c] = a /\ (Call(c) \/ Called(c) \/ CallFailed(c) \/ Skip(c))

\* The calls of a client are bounded, so all its handlers get their turn.
HandlerOf(c) ==
  \E h \in handlers :
    /\ h.client = c /\ h \notin Range(mutex)
    /\ RequestDeclined(h) \/ RequestStart(h) \/ CloseConnection(h)

Next ==
  \/ \E a \in Agents : PluginInit(a) \/ PluginInitFails(a) \/ AfterInit(a) \/ Scheduler(a) \/ RequestEnd(a)
  \/ \E x \in Services \cup Clients : Configure(x)
  \/ \E c \in Clients : GiveUp(c) \/ HandlerOf(c)

\* Every thread keeps running.  Whoever wants the mutex gets it if it is free
\* again and again: a Go mutex hands itself over to a thread that starves.
\* Nobody has to give a call up or to change the configuration.
Fairness ==
  /\ \A a \in Agents :
       /\ WF_vars(PluginInit(a) \/ AfterInit(a))
       /\ SF_vars(Scheduler(a))
       /\ WF_vars(RequestEnd(a))
  /\ \A c \in Clients : SF_vars(HandlerOf(c))

Spec == Init /\ [][Next]_vars /\ Fairness

-----------------------------------------------------------------------------
(* Properties. *)

writesTo(q, k) == {i \in DOMAIN q : q[i].op = "interface" /\ q[i].key = k}

\* What the last transaction of q that writes interface k makes of it.
lastValue(q, k) == q[Max(writesTo(q, k))].value

\* Interfaces f of agent a after the transactions q, executed one by one.
after(a, f, q) ==
  LET written == {x \in {q[i].key : i \in {j \in DOMAIN q : q[j].op = "interface"}} :
                    x[1] \in Plugins(ProgramOf[a])}
  IN  [k \in {x \in DOMAIN f \cup written : x \in written => lastValue(q, x) # NoValue} |->
         IF k \in written THEN lastValue(q, k) ELSE f[k]]

\* The interfaces of agent a once its queue is worked off.
drained(a) == after(a, ifaces[a], queue[a])

\* Type invariant; a handler holds a mutex only while its thread runs, and a
\* scheduler that has called is at the transaction that made it call.
TypeOK ==
  /\ phase \in [Agents -> {"new", "inited", "ready", "failed"}]
  /\ desired \subseteq Services \cup Clients /\ joined \subseteq Clients
  /\ \A a \in Agents :
       /\ \A i \in DOMAIN queue[a] : queue[a][i].op \in {"create", "delete", "interface"}
       /\ ~isFree(a) => /\ mutex[a] \in handlers
                        /\ AgentOf[ServiceOf[mutex[a].client]] = a
  /\ \A c \in Clients : calling[c] # "no" => toCall(c)
  /\ \A s \in Services : conns[s] # Empty => s \in endpoints
  /\ \A c \in Clients : calls[c] \in 0..MaxCalls

\* When a scheduler has nothing left to do, every connection of an endpoint of
\* its agent has its interface, with the link of the latest request, and no
\* interface has outlived its connection or its endpoint, although the
\* interfaces were sent by handlers that may be gone, interleaved with one
\* another and with the configuration (Request, Close, CloseConnections).
InterfacesAtRest ==
  \A s \in Services :
    LET a == AgentOf[s]
        key(id) == keyOf(ServiceConfig[s], conns[s], id)
    IN  queue[a] = << >> =>
          /\ DOMAIN ifaces[a] \cap keysOf(ServiceConfig[s]) = {key(id) : id \in DOMAIN conns[s]}
          /\ \A id \in DOMAIN conns[s] :
               ifaces[a][key(id)] = interfaceValue(ServiceConfig[s], conns[s][id].conn)

\* The part of the interfaces that belongs to the endpoint of s.
endpointInterfaces(s) ==
  LET f == drained(AgentOf[s])
  IN  [k \in DOMAIN f \cap keysOf(ServiceConfig[s]) |-> f[k]]

Endpoint(s) == INSTANCE NSMEndpoint WITH
  Configs <- {ServiceConfig[s]}, cfg <- ServiceConfig[s],
  connections <- conns[s], ifaces <- endpointInterfaces(s)

\* Under these two conditions the refinement below holds for any agents.

\* No two endpoints of an agent can give the same name to interfaces of one
\* kind, nor the name that a client of the agent has for its interface.  Nothing
\* in the code sees to it: a client interface "nsm0" beside the prefix "nsm", or
\* the prefixes "nsm" and "nsm1" with eleven connections, break it.
NamesOfAgentApart ==
  /\ \A s, t \in Services :
       s # t /\ AgentOf[s] = AgentOf[t] =>
         keysOf(ServiceConfig[s]) \cap keysOf(ServiceConfig[t]) = {}
  /\ \A s \in Services, c \in Clients :
       AgentOf[s] = AgentOf[c] => InterfaceOf[c] \notin keysOf(ServiceConfig[s])

\* The agent of an endpoint has the plugin its interfaces need.
PluginsPresent ==
  \A s \in Services : interfaceKind(ServiceConfig[s]) \in Plugins(ProgramOf[AgentOf[s]])

\* Split into sending and executing, with schedulers, other endpoints and lost
\* callers in between, every endpoint still implements NSMEndpoint: what its
\* interfaces will be once the queue is worked off changes as if Request, Close
\* and CloseConnections took effect at once.
EndpointsImplemented ==
  /\ \A s \in Services : Endpoint(s)!Init
  /\ [][\A s \in Services : Endpoint(s)!Next \/ UNCHANGED Endpoint(s)!vars]_vars

\* The links of the clients of s, as its interfaces will have them.
attachments(s) ==
  [id \in DOMAIN conns[s] |->
     endpointInterfaces(s)[keyOf(ServiceConfig[s], conns[s], id)].link]

Service(s) == INSTANCE AttachmentService WITH
  Clients <- ConnIds, single <- ServiceConfig[s].singleClient, attached <- attachments(s)

\* And so it keeps the promise of a network service to its clients: a client is
\* attached by its own Request only, with its own link, one at a time where the
\* endpoint is for a single client, whoever else requests, leaves or gives up
\* meanwhile (Request, Close, CloseConnections).
ServicesImplemented ==
  /\ \A s \in Services : Service(s)!Init
  /\ [][\A s \in Services : Service(s)!Next \/ UNCHANGED attachments(s)]_vars

interfacesExist ==
  \A s \in Services : \A id \in DOMAIN conns[s] :
    keyOf(ServiceConfig[s], conns[s], id) \in DOMAIN ifaces[AgentOf[s]]

\* Again and again every connection that Request has stored has its interface
\* (Request: "creates the connection interface on the endpoint side"): no
\* handler waits forever for a scheduler that waits for it, directly or through
\* the agent of a client.
InterfaceCreated == []<>interfacesExist

\* The mutex of b is held by a Request that waits for the scheduler of b to
\* execute its transaction, and whose caller waits for the answer.
isHeldForScheduler(b) == ~isFree(b) /\ isQueued(b, mutex[b]) /\ isAwaited(mutex[b])

\* The scheduler of a waits for that of b: it wants the mutex of its own
\* demultiplexer, or an answer from behind the mutex of another.
waitsFor(a, b) ==
  /\ isHeldForScheduler(b)
  /\ \/ a = b /\ \E s \in Services : executes(a, "create", s) \/ executes(a, "delete", s)
     \/ \E c \in Clients :
          AgentOf[c] = a /\ AgentOf[ServiceOf[c]] = b /\ calling[c] = "waiting"

\* Schedulers wait for one another in a circle.
Circular ==
  \E S \in (SUBSET Agents) \ {{}} : \A a \in S : \E b \in S : waitsFor(a, b)

\* A circle of waits is for good, unless a caller that has no deadline gives up
\* (Create and Delete of the client descriptor, Request with the mutex locked).
CircleStays == [][Circular => Circular' \/ \E c \in Clients : GiveUp(c)]_vars

\* Nothing but such a circle keeps the interface of a connection from being
\* created, neither the order in which handlers get the mutex nor callers that
\* are gone when their Request gets its turn.
CreatedUnlessCircular == []<>interfacesExist \/ <>[]Circular

\* Nor does anything else keep an agent from ending up with exactly the
\* endpoints it is configured to have and with nothing left to do, whatever its
\* clients and the callers of its endpoints do meanwhile (Init, AddEndpoint,
\* DeleteEndpoint).
SettlesUnlessCircular ==
  \/ <>[](\A a \in Agents : phase[a] # "failed" =>
            /\ \A s \in Services : AgentOf[s] = a => (s \in endpoints <=> s \in desired)
            /\ queue[a] = << >> /\ isFree(a))
  \/ <>[]Circular
=============================================================================
