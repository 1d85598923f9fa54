------------------------------ MODULE NSMClient ------------------------------
(***************************************************************************)
(* The client descriptor (plugins/nsmplugin/descriptor/nsm_client.go, type *)
(* NSMClientDescriptor): Create connects to a network service and puts an  *)
(* interface into the configuration of the agent, Delete takes both away.  *)
(*                                                                         *)
(* The scheduler of the agent calls Create and Delete from its only        *)
(* thread, so each call is one step.  The interface is not configured in   *)
(* the call: a goroutine sends a transaction that the scheduler executes   *)
(* later.  The goroutines whose transaction is not executed yet are in     *)
(* "pending", in the order in which they were started; nothing in the code *)
(* makes them reach the queue of the scheduler in this order.              *)
(*                                                                         *)
(* Two variables record what the code lets go wrong: "abandoned" holds the *)
(* sessions that a failed Create left open at NSM, and "disturbed" the     *)
(* interfaces whose last transaction was lost or overtook an earlier one.  *)
(***************************************************************************)
EXTENDS Integers, Sequences, FiniteSets, SequencesExt, KVDescriptor

CONSTANTS
  Names,            \* names of clients
  Values,           \* what may be configured: [name, service, type, iface, addr]
  None,             \* nothing is configured
  WorkspaceDefined, \* is the environment variable WORKSPACE defined?
  Faults,           \* the calls that may fail
  MaxFaults,        \* bound on the number of failures
  MaxChanges        \* bound on the number of changes of the configuration

\* createClose and createDestroy: Close and Destroy on the error paths of Create.
FaultNames == {"new", "connect", "createClose", "createDestroy", "close", "destroy", "send"}

InterfaceTypes == {"DEFAULT", "KERNEL", "MEM", "OTHER"}

ASSUME FlagsAssumption == WorkspaceDefined \in BOOLEAN
ASSUME FaultsAssumption == Faults \subseteq FaultNames /\ MaxFaults \in Nat /\ MaxChanges \in Nat
ASSUME ValuesAssumption == None \notin Values /\ \A v \in Values : v.type \in InterfaceTypes

VARIABLES
  desired,   \* the configuration of each client (external)
  applied,   \* created clients: name -> [value, session, broken] (scheduler, metadata)
  clients,   \* open NSM clients, by the session that NewNSMClient began (external)
  conns,     \* sessions whose connection is open at NSM (external)
  abandoned, \* sessions that a failed Create left open (history)
  pending,   \* goroutines that have not sent their transaction
  ifaces,    \* interfaces in the configuration of the agent
  disturbed, \* interfaces whose last transaction was lost or out of order (history)
  faults,    \* failures so far
  changes    \* changes of the configuration so far

nsm == <<clients, conns, abandoned>>
queue == <<pending, disturbed>>
vars == <<desired, applied, nsm, queue, ifaces, faults, changes>>

Init ==
  /\ desired = [n \in Names |-> None]
  /\ applied = Empty
  /\ clients = {}
  /\ conns = {}
  /\ abandoned = {}
  /\ pending = << >>
  /\ ifaces = Empty
  /\ disturbed = {}
  /\ faults = 0
  /\ changes = 0

\* The calls in F fail.
Fails(F) ==
  /\ F \subseteq Faults
  /\ faults + Cardinality(F) <= MaxFaults
  /\ faults' = faults + Cardinality(F)

-----------------------------------------------------------------------------
(* The configuration.  A client whose Delete failed is deleted again       *)
(* ("broken").                                                             *)

Configure(n) ==
  /\ changes < MaxChanges
  /\ \E v \in {w \in Values : w.name = n} \cup {None} :
       v # desired[n] /\ desired' = [desired EXCEPT ![n] = v]
  /\ changes' = changes + 1
  /\ UNCHANGED <<applied, nsm, queue, ifaces, faults>>

Validate(v) == v.name # "" /\ v.service # "" /\ v.iface # ""

toCreate(n) ==
  /\ n \notin DOMAIN applied
  /\ desired[n] # None /\ isValid(clientDescr, Validate(desired[n]))

toDelete(n) ==
  /\ n \in DOMAIN applied
  /\ applied[n].broken \/ isRecreated(clientDescr, applied[n].value, desired[n])

-----------------------------------------------------------------------------
(* buildInterfaceConfig. *)

\* Faulty variant: an unknown type is taken for a kernel interface.
buildsAnyInterface(v) == v.type # "MEM" \/ WorkspaceDefined

canBuildInterface(v) ==
  \/ v.type \in {"DEFAULT", "KERNEL"}
  \/ v.type = "MEM" /\ WorkspaceDefined

\* Linux and VPP interfaces live under different keys of the configuration.
interfaceKey(v) == <<IF v.type = "MEM" THEN "vpp" ELSE "linux", v.iface>>

-----------------------------------------------------------------------------
(* Create. *)

\* NewNSMClient begins a session of its own.
freshSession == CHOOSE s \in 0..Cardinality(clients \cup conns) : s \notin clients \cup conns

\* Faulty variant: Create returns with the NSM client open.
clientsKept(F) == clients \cup {freshSession}

\* Destroy on an error path of Create; its own error is ignored.
clientsAfterFailedCreate(F) ==
  IF "createDestroy" \in F THEN clients \cup {freshSession} ELSE clients

\* Close on an error path of Create; its own error is ignored.
connsAfterFailedCreate(F) ==
  IF "createClose" \in F THEN conns \cup {freshSession} ELSE conns

\* Create returned its error though a call it ignored or gave up left its session open.
Abandoned(left) == abandoned' = IF left THEN abandoned \cup {freshSession} ELSE abandoned

CreateNoClient(n) ==
  /\ toCreate(n)
  /\ Fails({"new"})
  /\ UNCHANGED <<desired, applied, nsm, queue, ifaces, changes>>

\* Connect fails, or it takes effect at NSM and only its answer is lost: Create
\* destroys the client in both cases and closes the connection in neither.
CreateNotConnected(n) ==
  /\ toCreate(n)
  /\ \E F \in SUBSET {"connect", "createDestroy"}, answerLost \in BOOLEAN :
       /\ "connect" \in F
       /\ Fails(F)
       /\ clients' = clientsAfterFailedCreate(F)
       /\ conns' = IF answerLost THEN conns \cup {freshSession} ELSE conns
       /\ Abandoned(answerLost \/ "createDestroy" \in F)
  /\ UNCHANGED <<desired, applied, queue, ifaces, changes>>

CreateNotBuilt(n) ==
  /\ toCreate(n)
  /\ ~canBuildInterface(desired[n])
  /\ \E F \in SUBSET {"createClose", "createDestroy"} :
       /\ Fails(F)
       /\ conns' = connsAfterFailedCreate(F)
       /\ clients' = clientsAfterFailedCreate(F)
       /\ Abandoned(F # {})
  /\ UNCHANGED <<desired, applied, queue, ifaces, changes>>

\* Faulty variant: an interface that is configured already is not sent again.
createSentIfNew(n) ==
  IF interfaceKey(desired[n]) \in DOMAIN ifaces THEN pending
  ELSE Append(pending, [op |-> "update", value |-> desired[n]])

createSent(n) == Append(pending, [op |-> "update", value |-> desired[n]])

Create(n) ==
  /\ toCreate(n)
  /\ canBuildInterface(desired[n])
  /\ clients' = clients \cup {freshSession}
  /\ conns' = conns \cup {freshSession}
  /\ pending' = createSent(n)
  /\ disturbed' = disturbed \ {interfaceKey(desired[n])}
  /\ applied' = Put(applied, n,
                    [value |-> desired[n], session |-> freshSession, broken |-> FALSE])
  /\ UNCHANGED <<desired, abandoned, ifaces, faults, changes>>

-----------------------------------------------------------------------------
(* Delete.  The interface was built in Create from the same value, so it   *)
(* can be built again.  The goroutine is started before the connection is  *)
(* closed; an error of Close or Destroy is returned and Delete is retried. *)

\* Faulty variant: the interface is not removed.
notSent(n) == pending

deleteSent(n) == Append(pending, [op |-> "delete", value |-> applied[n].value])

startDelete(n) ==
  /\ toDelete(n)
  /\ pending' = deleteSent(n)
  /\ disturbed' = disturbed \ {interfaceKey(applied[n].value)}

\* Close fails, or only its answer is lost.
DeleteNotClosed(n) ==
  /\ startDelete(n)
  /\ Fails({"close"})
  /\ conns' \in {conns, conns \ {applied[n].session}}
  /\ applied' = [applied EXCEPT ![n].broken = TRUE]
  /\ UNCHANGED <<desired, clients, abandoned, ifaces, changes>>

DeleteNotDestroyed(n) ==
  /\ startDelete(n)
  /\ Fails({"destroy"})
  /\ conns' = conns \ {applied[n].session}
  /\ applied' = [applied EXCEPT ![n].broken = TRUE]
  /\ UNCHANGED <<desired, clients, abandoned, ifaces, changes>>

Delete(n) ==
  /\ startDelete(n)
  /\ conns' = conns \ {applied[n].session}
  /\ clients' = clients \ {applied[n].session}
  /\ applied' = RemoveKeys(applied, {n})
  /\ UNCHANGED <<desired, abandoned, ifaces, faults, changes>>

-----------------------------------------------------------------------------
(* The goroutines: the scheduler executes the transaction of one of them,  *)
(* whichever sends first.                                                  *)

txnKey(txn) == interfaceKey(txn.value)

ifacesAfter(txn) ==
  IF txn.op = "update" THEN Put(ifaces, txnKey(txn), txn.value.addr)
                       ELSE RemoveKeys(ifaces, {txnKey(txn)})

isLast(i) == \A j \in DOMAIN pending : j > i => txnKey(pending[j]) # txnKey(pending[i])
isFirst(i) == \A j \in DOMAIN pending : j < i => txnKey(pending[j]) # txnKey(pending[i])

\* A failed Send goes unnoticed: its error is ignored.
Execute(i) ==
  /\ \E F \in SUBSET {"send"} :
       /\ Fails(F)
       /\ ifaces' = IF F = {} THEN ifacesAfter(pending[i]) ELSE ifaces
       /\ disturbed' = IF isLast(i) /\ ~(isFirst(i) /\ F = {})
                         THEN disturbed \cup {txnKey(pending[i])} ELSE disturbed
  /\ pending' = RemoveAt(pending, i)
  /\ UNCHANGED <<desired, applied, nsm, changes>>

-----------------------------------------------------------------------------
Scheduler(n) ==
  \/ CreateNoClient(n)
  \/ CreateNotConnected(n)
  \/ CreateNotBuilt(n)
  \/ Create(n)
  \/ DeleteNotClosed(n)
  \/ DeleteNotDestroyed(n)
  \/ Delete(n)

Next ==
  \/ \E n \in Names : Configure(n) \/ Scheduler(n)
  \/ \E i \in DOMAIN pending : Execute(i)

\* The scheduler retries failed operations and executes queued transactions;
\* the Go runtime runs every goroutine.
Fairness ==
  /\ \A n \in Names : WF_vars(Scheduler(n))
  /\ WF_vars(\E i \in DOMAIN pending : Execute(i))

Spec == Init /\ [][Next]_vars /\ Fairness

-----------------------------------------------------------------------------
(* Properties. *)

\* Type invariant; only valid clients whose interface can be built get created.
TypeOK ==
  /\ desired \in [Names -> Values \cup {None}]
  /\ DOMAIN applied \subseteq Names
  /\ \A n \in DOMAIN applied :
       /\ applied[n] \in [value : Values, session : Nat, broken : BOOLEAN]
       /\ applied[n].value.type # "OTHER" /\ applied[n].value.iface # ""
  /\ clients \subseteq Nat /\ conns \subseteq Nat /\ abandoned \subseteq Nat
  /\ \A i \in DOMAIN pending : pending[i] \in [op : {"update", "delete"}, value : Values]
  /\ \A k \in DOMAIN ifaces \cup disturbed : \E v \in Values : k = interfaceKey(v)
  /\ faults \in 0..MaxFaults
  /\ changes \in 0..MaxChanges

\* What stays open at NSM belongs to one created client each, or was left by a
\* Create that failed in one of two ways: the answer of Connect was lost (the
\* code destroys the client and never closes the connection), or a Close or
\* Destroy whose error it ignores failed.  Otherwise Create undoes what it did,
\* and Delete is retried until both Close and Destroy are done.
OnlyFailedCreateLeaks ==
  LET sessions == {applied[n].session : n \in DOMAIN applied}
  IN  /\ sessions \subseteq clients \ abandoned
      /\ clients \cup conns \subseteq sessions \cup abandoned
      /\ \A n \in DOMAIN applied : ~applied[n].broken => applied[n].session \in conns
      /\ \A m, n \in DOMAIN applied : applied[m].session = applied[n].session => m = n

\* The interface under k is that of a created client, with its latest address.
Mirrored(k) ==
  LET owners == {n \in DOMAIN applied :
                   ~applied[n].broken /\ interfaceKey(applied[n].value) = k}
  IN  IF k \in DOMAIN ifaces
        THEN owners # {} /\ \A n \in owners : ifaces[k] = applied[n].value.addr
        ELSE owners = {}

interfaceKeys == {interfaceKey(v) : v \in Values}

\* When no goroutine is left, the interfaces are those of the created clients
\* with their latest addresses (Create: "establishes connection with NSM
\* endpoint and creates the associated interface").
MirrorWhenQuiet == pending = << >> => \A k \in interfaceKeys : Mirrored(k)

\* The same of every interface on its own: once no goroutine about it is left,
\* it is there exactly for a created client, whatever was retried, unless the
\* transaction of the goroutine that was started last about it was lost or was
\* executed before that of an earlier one.
MirrorUnlessDisturbed ==
  \A k \in interfaceKeys \ disturbed :
    (\A i \in DOMAIN pending : txnKey(pending[i]) # k) => Mirrored(k)

\* Once failures and changes of the configuration have stopped, the clients
\* settle on the configuration, whatever Create and Delete had to be retried,
\* and with them every interface that was not left disturbed.
Settles ==
  <>[](/\ \A n \in Names :
            IF desired[n] # None /\ Validate(desired[n]) /\ canBuildInterface(desired[n])
              THEN n \in DOMAIN applied /\ applied[n].value = desired[n]
              ELSE n \notin DOMAIN applied
       /\ \A k \in interfaceKeys \ disturbed : Mirrored(k))
=============================================================================
