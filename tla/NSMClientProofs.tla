--------------------------- MODULE NSMClientProofs ---------------------------
(***************************************************************************)
(* Proofs about NSMClient for any clients and any configuration of them.   *)
(***************************************************************************)
EXTENDS NSMClient, FiniteSetTheorems, SequenceTheorems, TLAPS

-----------------------------------------------------------------------------
(* Types. *)

Txn == [op : {"update", "delete"}, value : Values]

\* The type invariant with what the sessions and the queue need: only finitely
\* many sessions are open, so a fresh one exists.
ClientTypes ==
  /\ TypeOK
  /\ IsFiniteSet(clients) /\ IsFiniteSet(conns)
  /\ pending \in Seq(Txn)

\* The parts of TypeOK about the created clients and about the interfaces.
AppliedTypes(ap) ==
  /\ DOMAIN ap \subseteq Names
  /\ \A n \in DOMAIN ap :
       /\ ap[n] \in [value : Values, session : Nat, broken : BOOLEAN]
       /\ ap[n].value.type # "OTHER" /\ ap[n].value.iface # ""

KeyTypes(ks) == \A k \in ks : \E v \in Values : k = interfaceKey(v)

\* The types in terms of these parts.
LEMMA TypesInParts ==
  ClientTypes <=>
    /\ desired \in [Names -> Values \cup {None}]
    /\ AppliedTypes(applied)
    /\ clients \subseteq Nat /\ IsFiniteSet(clients)
    /\ conns \subseteq Nat /\ IsFiniteSet(conns)
    /\ pending \in Seq(Txn)
    /\ KeyTypes(DOMAIN ifaces \cup disturbed)
    /\ abandoned \subseteq Nat
    /\ faults \in 0..MaxFaults
    /\ changes \in 0..MaxChanges
<1>1. pending \in Seq(Txn) =>
        \A i \in DOMAIN pending : pending[i] \in [op : {"update", "delete"}, value : Values]
  BY ElementOfSeq, LenProperties DEF Txn
<1> QED
  BY <1>1 DEF ClientTypes, TypeOK, AppliedTypes, KeyTypes

\* The same in the next state.
LEMMA TypesInPartsNext ==
  ClientTypes' <=>
    /\ desired' \in [Names -> Values \cup {None}]
    /\ AppliedTypes(applied')
    /\ clients' \subseteq Nat /\ IsFiniteSet(clients')
    /\ conns' \subseteq Nat /\ IsFiniteSet(conns')
    /\ pending' \in Seq(Txn)
    /\ KeyTypes(DOMAIN ifaces' \cup disturbed')
    /\ abandoned' \subseteq Nat
    /\ faults' \in 0..MaxFaults
    /\ changes' \in 0..MaxChanges
<1>1. pending' \in Seq(Txn) =>
        \A i \in DOMAIN pending' : pending'[i] \in [op : {"update", "delete"}, value : Values]
  BY ElementOfSeq, LenProperties DEF Txn
<1> QED
  BY <1>1 DEF ClientTypes, TypeOK, AppliedTypes, KeyTypes, interfaceKey

\* NewNSMClient finds a session nobody has.
LEMMA FreshSession ==
  ASSUME IsFiniteSet(clients), IsFiniteSet(conns)
  PROVE  freshSession \in Nat /\ freshSession \notin clients /\ freshSession \notin conns
<1> DEFINE open == clients \cup conns
           n == Cardinality(open)
<1>1. IsFiniteSet(open)
  BY FS_Union
<1>2. n \in Nat
  BY <1>1, FS_CardinalityType
<1>3. IsFiniteSet(0..n) /\ Cardinality(0..n) = n + 1
  BY <1>2, FS_Interval
<1>4. \E s \in 0..n : s \notin open
  <2> HIDE DEF open
  <2>1. ~(0..n \subseteq open)
    <3>1. 0..n \subseteq open => Cardinality(0..n) <= n
      BY <1>1, FS_Subset
    <3> QED
      BY <1>2, <1>3, <3>1
  <2> QED
    BY <2>1
<1>5. freshSession \in 0..n /\ freshSession \notin open
  BY <1>4 DEF freshSession
<1> QED
  BY <1>2, <1>5

\* The number of failures stays within its bound.
LEMMA FailsType ==
  ASSUME faults \in 0..MaxFaults, NEW F, Fails(F)
  PROVE  faults' \in 0..MaxFaults
<1>1. IsFiniteSet(FaultNames)
  <2>1. /\ IsFiniteSet({"new"}) /\ IsFiniteSet({"connect"}) /\ IsFiniteSet({"createClose"})
        /\ IsFiniteSet({"createDestroy"}) /\ IsFiniteSet({"close"})
        /\ IsFiniteSet({"destroy"}) /\ IsFiniteSet({"send"})
    BY FS_Singleton
  <2>2. /\ IsFiniteSet({"new"} \cup {"connect"})
        /\ IsFiniteSet({"createClose"} \cup {"createDestroy"})
        /\ IsFiniteSet({"close"} \cup {"destroy"})
    BY <2>1, FS_Union
  <2>3. /\ IsFiniteSet(({"new"} \cup {"connect"}) \cup ({"createClose"} \cup {"createDestroy"}))
        /\ IsFiniteSet(({"close"} \cup {"destroy"}) \cup {"send"})
    BY <2>1, <2>2, FS_Union
  <2>4. FaultNames = (({"new"} \cup {"connect"}) \cup ({"createClose"} \cup {"createDestroy"}))
                       \cup (({"close"} \cup {"destroy"}) \cup {"send"})
    BY DEF FaultNames
  <2> QED
    BY <2>3, <2>4, FS_Union
<1>2. F \in SUBSET FaultNames
  BY FaultsAssumption DEF Fails
<1>3. Cardinality(F) \in Nat
  <2>1. IsFiniteSet(F)
    BY <1>1, <1>2, FS_Subset
  <2> QED
    BY <2>1, FS_CardinalityType
<1>4. faults + Cardinality(F) <= MaxFaults /\ faults' = faults + Cardinality(F)
  BY DEF Fails
<1> QED
  BY <1>3, <1>4, FaultsAssumption

\* Only a valid value whose interface can be built gets created.
LEMMA CreatedValue ==
  ASSUME TypeOK, NEW n \in Names, toCreate(n)
  PROVE  /\ n \notin DOMAIN applied
         /\ desired[n] \in Values
         /\ desired[n].iface # ""
         /\ canBuildInterface(desired[n]) => desired[n].type # "OTHER"
<1>1. "Validate" \in clientDescr
  BY DEF clientDescr, NewNSMClientDescriptor, Callbacks, typedClientDescr
<1> QED
  BY <1>1 DEF TypeOK, toCreate, isValid, Validate, canBuildInterface

\* The queue without one of its goroutines.
LEMMA RemovedType ==
  ASSUME pending \in Seq(Txn), NEW i \in DOMAIN pending
  PROVE  /\ RemoveAt(pending, i) \in Seq(Txn)
         /\ pending[i] \in Txn
<1>1. i \in 1..Len(pending) /\ pending[i] \in Txn
  BY ElementOfSeq, LenProperties
<1>2. SubSeq(pending, 1, i - 1) \in Seq(Txn) /\ SubSeq(pending, i + 1, Len(pending)) \in Seq(Txn)
  <2>1. ASSUME NEW a \in Int, NEW b \in Int, 1 <= a, b <= Len(pending)
        PROVE  SubSeq(pending, a, b) \in Seq(Txn)
    <3> HIDE DEF Txn
    <3>1. \A x \in a..b : pending[x] \in Txn
      BY <2>1, ElementOfSeq, LenProperties
    <3> QED
      BY <2>1, <3>1, SubSeqProperties
  <2> QED
    BY <1>1, <2>1, LenProperties
<1> QED
  BY <1>1, <1>2, ConcatProperties DEF RemoveAt

\* One step of the scheduler about one client keeps the types.
LEMMA SchedulerTypes ==
  ASSUME ClientTypes, NEW n \in Names, Scheduler(n)
  PROVE  ClientTypes'
<1> DEFINE entry == [value |-> desired[n], session |-> freshSession, broken |-> FALSE]
<1>1. freshSession \in Nat
  BY FreshSession DEF ClientTypes
<1>2. /\ IsFiniteSet(clients \cup {freshSession}) /\ IsFiniteSet(conns \cup {freshSession})
      /\ \A s : IsFiniteSet(clients \ {s}) /\ IsFiniteSet(conns \ {s})
  BY FS_AddElement, FS_RemoveElement DEF ClientTypes
<1>3. UNCHANGED <<desired, ifaces, changes>> /\ disturbed' \subseteq disturbed
  BY DEF Scheduler, CreateNoClient, CreateNotConnected, CreateNotBuilt, Create,
         DeleteNotClosed, DeleteNotDestroyed, Delete, startDelete, queue
<1>4. faults' \in 0..MaxFaults
  <2>1. \/ faults' = faults
        \/ \E F : Fails(F)
    BY DEF Scheduler, CreateNoClient, CreateNotConnected, CreateNotBuilt, Create,
           DeleteNotClosed, DeleteNotDestroyed, Delete
  <2> QED
    BY <2>1, FailsType DEF ClientTypes, TypeOK
<1>5. /\ IsFiniteSet(clients') /\ clients' \subseteq Nat
      /\ IsFiniteSet(conns') /\ conns' \subseteq Nat
  <2>1. /\ IsFiniteSet(clients) /\ clients \subseteq Nat
        /\ IsFiniteSet(conns) /\ conns \subseteq Nat
    BY DEF ClientTypes, TypeOK
  <2>2. /\ \/ clients' = clients
           \/ clients' = clients \cup {freshSession}
           \/ \E s : clients' = clients \ {s}
        /\ \/ conns' = conns
           \/ conns' = conns \cup {freshSession}
           \/ \E s : conns' = conns \ {s}
    BY DEF Scheduler, CreateNoClient, CreateNotConnected, CreateNotBuilt, Create,
           DeleteNotClosed, DeleteNotDestroyed, Delete, clientsAfterFailedCreate,
           connsAfterFailedCreate, nsm
  <2> QED
    BY <1>1, <1>2, <2>1, <2>2
<1>11. abandoned' \subseteq Nat
  <2>1. abandoned' = abandoned \/ abandoned' = abandoned \cup {freshSession}
    BY DEF Scheduler, CreateNoClient, CreateNotConnected, CreateNotBuilt, Create,
           DeleteNotClosed, DeleteNotDestroyed, Delete, Abandoned, nsm
  <2> QED
    BY <1>1, <2>1 DEF ClientTypes, TypeOK
<1>6. ASSUME toDelete(n)
      PROVE  deleteSent(n) \in Seq(Txn)
  <2>1. applied[n].value \in Values
    BY <1>6 DEF toDelete, ClientTypes, TypeOK
  <2> QED
    BY <2>1, AppendProperties DEF deleteSent, ClientTypes, Txn
<1>7. ASSUME toCreate(n)
      PROVE  createSent(n) \in Seq(Txn)
  <2>1. desired[n] \in Values
    BY <1>7, CreatedValue DEF ClientTypes
  <2> QED
    BY <2>1, AppendProperties DEF createSent, ClientTypes, Txn
<1>8. pending' \in Seq(Txn)
  BY <1>6, <1>7
     DEF ClientTypes, Scheduler, CreateNoClient, CreateNotConnected, CreateNotBuilt,
         Create, DeleteNotClosed, DeleteNotDestroyed, Delete, startDelete, queue
<1>9. AppliedTypes(applied')
  <2>1. CASE Create(n)
    <3>1. applied' = Put(applied, n, entry)
      BY <2>1 DEF Create
    <3>2. /\ entry \in [value : Values, session : Nat, broken : BOOLEAN]
          /\ entry.value.type # "OTHER" /\ entry.value.iface # ""
      BY <1>1, <2>1, CreatedValue DEF ClientTypes, Create
    <3> HIDE DEF entry
    <3> QED
      BY <3>1, <3>2 DEF ClientTypes, TypeOK, AppliedTypes, Put
  <2>2. CASE DeleteNotClosed(n) \/ DeleteNotDestroyed(n)
    <3>1. applied' = [applied EXCEPT ![n].broken = TRUE]
      BY <2>2 DEF DeleteNotClosed, DeleteNotDestroyed
    <3> QED
      BY <3>1 DEF ClientTypes, TypeOK, AppliedTypes
  <2>3. CASE Delete(n)
    BY <2>3 DEF Delete, ClientTypes, TypeOK, AppliedTypes, RemoveKeys
  <2>4. CASE applied' = applied
    BY <2>4 DEF ClientTypes, TypeOK, AppliedTypes
  <2> QED
    BY <2>1, <2>2, <2>3, <2>4 DEF Scheduler, CreateNoClient, CreateNotConnected, CreateNotBuilt
<1>10. /\ desired' \in [Names -> Values \cup {None}]
       /\ changes' \in 0..MaxChanges
       /\ KeyTypes(DOMAIN ifaces' \cup disturbed')
  BY <1>3 DEF ClientTypes, TypeOK, KeyTypes
<1> QED
  BY <1>4, <1>5, <1>8, <1>9, <1>10, <1>11, TypesInPartsNext

\* The transaction of a goroutine changes the interface it is about.
LEMMA ExecuteTypes ==
  ASSUME ClientTypes, NEW i \in DOMAIN pending, Execute(i)
  PROVE  ClientTypes'
<1>1. /\ UNCHANGED <<desired, applied, clients, conns, abandoned, changes>>
      /\ pending' = RemoveAt(pending, i)
  BY DEF Execute, nsm
<1>2. pending[i] \in Txn /\ pending' \in Seq(Txn)
  BY <1>1, RemovedType DEF ClientTypes
<1>3. faults' \in 0..MaxFaults
  BY FailsType DEF Execute, ClientTypes, TypeOK
<1>4. ifaces' = ifaces \/ ifaces' = ifacesAfter(pending[i])
  BY DEF Execute
<1>5. KeyTypes(DOMAIN ifaces' \cup disturbed')
  <2>1. pending[i].value \in Values
    BY <1>2 DEF Txn
  <2>2. /\ DOMAIN ifaces' \subseteq DOMAIN ifaces \cup {interfaceKey(pending[i].value)}
        /\ disturbed' \subseteq disturbed \cup {interfaceKey(pending[i].value)}
    BY <1>4 DEF ifacesAfter, Put, RemoveKeys, Execute, txnKey
  <2> QED
    BY <2>1, <2>2 DEF ClientTypes, TypeOK, KeyTypes
<1> QED
  BY <1>1, <1>2, <1>3, <1>5, TypesInParts, TypesInPartsNext

\* Nothing exists at first.
LEMMA ClientTypesInit == Init => ClientTypes
<1> SUFFICES ASSUME Init
             PROVE  ClientTypes
  OBVIOUS
<1>1. pending = << >> /\ pending \in Seq(Txn) /\ DOMAIN pending = {}
  BY EmptySeq DEF Init
<1> QED
  BY <1>1, FS_EmptySet, FaultsAssumption DEF Init, ClientTypes, TypeOK, Empty

\* Each action keeps the types.
LEMMA ClientTypesStep == ClientTypes /\ [Next]_vars => ClientTypes'
<1> SUFFICES ASSUME ClientTypes, [Next]_vars
             PROVE  ClientTypes'
  OBVIOUS
<1>1. ASSUME NEW n \in Names, Configure(n)
      PROVE  ClientTypes'
  <2>1. UNCHANGED <<applied, clients, conns, abandoned, pending, disturbed, ifaces, faults>>
    BY <1>1 DEF Configure, nsm, queue
  <2>2. desired' \in [Names -> Values \cup {None}]
    BY <1>1 DEF Configure, ClientTypes, TypeOK
  <2>3. changes' \in 0..MaxChanges
    <3>1. changes \in 0..MaxChanges /\ MaxChanges \in Nat
      BY FaultsAssumption DEF ClientTypes, TypeOK
    <3>2. changes < MaxChanges /\ changes' = changes + 1
      BY <1>1 DEF Configure
    <3> QED
      BY <3>1, <3>2
  <2> QED
    BY <2>1, <2>2, <2>3, TypesInParts, TypesInPartsNext
<1>2. CASE UNCHANGED vars
  BY <1>2, TypesInParts, TypesInPartsNext DEF vars, nsm, queue
<1> QED
  BY <1>1, <1>2, SchedulerTypes, ExecuteTypes DEF Next

\* Type correctness of the client descriptor, and only valid clients with an
\* interface that can be built are ever created.
THEOREM ClientTypeOK == Spec => []TypeOK
<1>1. ClientTypes => TypeOK
  BY DEF ClientTypes
<1> QED
  BY <1>1, ClientTypesInit, ClientTypesStep, PTL DEF Spec
-----------------------------------------------------------------------------
(* Sessions. *)

\* The sessions of the created clients.
sessionsOf(ap) == {ap[n].session : n \in DOMAIN ap}

\* OnlyFailedCreateLeaks of a table of created clients, open clients, connections
\* and abandoned sessions; an abandoned session is still open.
Owned(ap, cs, ns, ab) ==
  /\ ab \subseteq cs \cup ns
  /\ sessionsOf(ap) \subseteq cs \ ab
  /\ cs \cup ns \subseteq sessionsOf(ap) \cup ab
  /\ \A n \in DOMAIN ap : ~ap[n].broken => ap[n].session \in ns
  /\ \A m, n \in DOMAIN ap : ap[m].session = ap[n].session => m = n

\* A failed Create leaves nothing open but the session it abandons.
LEMMA FailedCreateOwned ==
  ASSUME ClientTypes, Owned(applied, clients, conns, abandoned), NEW n \in Names,
         CreateNotConnected(n) \/ CreateNotBuilt(n)
  PROVE  Owned(applied', clients', conns', abandoned')
<1> DEFINE s == freshSession
<1>1. s \notin clients /\ s \notin conns
  BY FreshSession DEF ClientTypes
<1>2. applied' = applied
  BY DEF CreateNotConnected, CreateNotBuilt
<1>3. \/ clients' = clients /\ conns' = conns /\ abandoned' = abandoned
      \/ /\ abandoned' = abandoned \cup {s}
         /\ clients' \in {clients, clients \cup {s}}
         /\ conns' \in {conns, conns \cup {s}}
         /\ s \in clients' \cup conns'
  <2>1. CASE CreateNotConnected(n)
    <3>1. PICK F \in SUBSET {"connect", "createDestroy"}, answerLost \in BOOLEAN :
            /\ clients' = clientsAfterFailedCreate(F)
            /\ conns' = IF answerLost THEN conns \cup {s} ELSE conns
            /\ Abandoned(answerLost \/ "createDestroy" \in F)
      BY <2>1 DEF CreateNotConnected
    <3> HIDE DEF s
    <3> QED
      BY <3>1 DEF clientsAfterFailedCreate, Abandoned, s
  <2>2. CASE CreateNotBuilt(n)
    <3>1. PICK F \in SUBSET {"createClose", "createDestroy"} :
            /\ clients' = clientsAfterFailedCreate(F)
            /\ conns' = connsAfterFailedCreate(F)
            /\ Abandoned(F # {})
      BY <2>2 DEF CreateNotBuilt
    <3>2. F = {} \/ "createClose" \in F \/ "createDestroy" \in F
      OBVIOUS
    <3> QED
      BY <3>1, <3>2 DEF clientsAfterFailedCreate, connsAfterFailedCreate, Abandoned
  <2> QED
    BY <2>1, <2>2
<1> HIDE DEF s
<1>4. s \notin sessionsOf(applied)
  BY <1>1 DEF Owned
<1> QED
  BY <1>1, <1>2, <1>3, <1>4 DEF Owned

\* A created client gets a session that nobody else has.
LEMMA CreateOwned ==
  ASSUME Owned(applied, clients, conns, abandoned), NEW n, n \notin DOMAIN applied,
         NEW v, NEW s, s \notin clients, s \notin conns
  PROVE  Owned(Put(applied, n, [value |-> v, session |-> s, broken |-> FALSE]),
               clients \cup {s}, conns \cup {s}, abandoned)
<1> DEFINE entry == [value |-> v, session |-> s, broken |-> FALSE]
           ap == Put(applied, n, entry)
<1>1. entry.session = s
  OBVIOUS
<1> HIDE DEF entry
<1>2. /\ DOMAIN ap = DOMAIN applied \cup {n} /\ ap[n] = entry
      /\ \A m \in DOMAIN applied : ap[m] = applied[m]
  BY DEF Put
<1>3. \A m \in DOMAIN applied : applied[m].session # s
  BY DEF Owned, sessionsOf
<1> HIDE DEF ap
<1>4. sessionsOf(ap) = sessionsOf(applied) \cup {s}
  BY <1>1, <1>2 DEF sessionsOf
<1>5. Owned(ap, clients \cup {s}, conns \cup {s}, abandoned)
  BY <1>1, <1>2, <1>3, <1>4 DEF Owned
<1> QED
  BY <1>5 DEF ap, entry

\* A deleted client takes its session with it, which is nobody else's.
LEMMA DeleteOwned ==
  ASSUME Owned(applied, clients, conns, abandoned), NEW n \in DOMAIN applied
  PROVE  Owned(RemoveKeys(applied, {n}),
               clients \ {applied[n].session}, conns \ {applied[n].session}, abandoned)
<1> DEFINE ap == RemoveKeys(applied, {n})
           s == applied[n].session
<1>1. /\ DOMAIN ap = DOMAIN applied \ {n}
      /\ \A m \in DOMAIN ap : ap[m] = applied[m]
  BY DEF RemoveKeys
<1>2. \A m \in DOMAIN ap : applied[m].session # s
  BY <1>1 DEF Owned
<1>3. s \in sessionsOf(applied) /\ s \notin abandoned
  BY DEF Owned, sessionsOf
<1> HIDE DEF ap
<1>4. sessionsOf(ap) = sessionsOf(applied) \ {s}
  BY <1>1, <1>2 DEF sessionsOf
<1>5. Owned(ap, clients \ {s}, conns \ {s}, abandoned)
  BY <1>1, <1>2, <1>3, <1>4 DEF Owned
<1> QED
  BY <1>5 DEF ap

\* A client whose Delete failed keeps its session until the retry.
LEMMA BrokenOwned ==
  ASSUME Owned(applied, clients, conns, abandoned), NEW n \in DOMAIN applied,
         TypeOK, NEW ns, ns \in {conns, conns \ {applied[n].session}}
  PROVE  Owned([applied EXCEPT ![n].broken = TRUE], clients, ns, abandoned)
<1> DEFINE ap == [applied EXCEPT ![n].broken = TRUE]
<1>1. /\ DOMAIN ap = DOMAIN applied
      /\ \A m \in DOMAIN ap : ap[m].session = applied[m].session
      /\ \A m \in DOMAIN ap : m # n => ap[m] = applied[m]
      /\ ap[n].broken
  BY DEF TypeOK
<1> HIDE DEF ap
<1>2. sessionsOf(ap) = sessionsOf(applied)
  BY <1>1 DEF sessionsOf
<1>3. \A m \in DOMAIN ap : ~ap[m].broken => ap[m].session \in ns
  BY <1>1 DEF Owned
<1>4. applied[n].session \in sessionsOf(applied) /\ applied[n].session \notin abandoned
  BY DEF Owned, sessionsOf
<1>5. Owned(ap, clients, ns, abandoned)
  BY <1>1, <1>2, <1>3, <1>4 DEF Owned
<1> QED
  BY <1>5 DEF ap

\* Every step keeps the sessions owned.
LEMMA OwnedStep ==
  ClientTypes /\ Owned(applied, clients, conns, abandoned) /\ [Next]_vars
    => Owned(applied', clients', conns', abandoned')
<1> SUFFICES ASSUME ClientTypes, Owned(applied, clients, conns, abandoned), [Next]_vars
             PROVE  Owned(applied', clients', conns', abandoned')
  OBVIOUS
<1>1. CASE UNCHANGED <<applied, nsm>>
  BY <1>1 DEF nsm
<1>2. ASSUME NEW n \in Names, Create(n)
      PROVE  Owned(applied', clients', conns', abandoned')
  <2>1. n \notin DOMAIN applied /\ freshSession \notin clients /\ freshSession \notin conns
    BY <1>2, FreshSession DEF Create, toCreate, ClientTypes
  <2> QED
    BY <1>2, <2>1, CreateOwned DEF Create
<1>3. ASSUME NEW n \in Names, Delete(n)
      PROVE  Owned(applied', clients', conns', abandoned')
  BY <1>3, DeleteOwned DEF Delete, startDelete, toDelete
<1>4. ASSUME NEW n \in Names, DeleteNotClosed(n) \/ DeleteNotDestroyed(n)
      PROVE  Owned(applied', clients', conns', abandoned')
  <2>1. /\ n \in DOMAIN applied /\ clients' = clients /\ abandoned' = abandoned
        /\ conns' \in {conns, conns \ {applied[n].session}}
        /\ applied' = [applied EXCEPT ![n].broken = TRUE]
    BY <1>4 DEF DeleteNotClosed, DeleteNotDestroyed, startDelete, toDelete
  <2> QED
    BY <2>1, BrokenOwned DEF ClientTypes
<1>5. ASSUME NEW n \in Names, CreateNoClient(n) \/ Configure(n)
      PROVE  UNCHANGED <<applied, nsm>>
  BY <1>5 DEF CreateNoClient, Configure
<1>6. ASSUME NEW i \in DOMAIN pending, Execute(i)
      PROVE  UNCHANGED <<applied, nsm>>
  BY <1>6 DEF Execute
<1>7. CASE UNCHANGED vars
  BY <1>1, <1>7 DEF vars
<1> QED
  BY <1>1, <1>2, <1>3, <1>4, <1>5, <1>6, <1>7, FailedCreateOwned DEF Next, Scheduler

\* Nothing stays open at NSM but the sessions of the created clients, each its
\* own, and those a failed Create abandoned, for any clients and any failures:
\* what leaks leaks through the calls whose failure the code does not handle.
THEOREM ClientOnlyFailedCreateLeaks == Spec => []OnlyFailedCreateLeaks
<1> DEFINE Inv == ClientTypes /\ Owned(applied, clients, conns, abandoned)
<1>1. Init => Inv
  BY ClientTypesInit DEF Init, Owned, sessionsOf, Empty
<1>2. Inv /\ [Next]_vars => Inv'
  BY ClientTypesStep, OwnedStep
<1>3. Inv => OnlyFailedCreateLeaks
  BY DEF Owned, sessionsOf, OnlyFailedCreateLeaks
<1> QED
  BY <1>1, <1>2, <1>3, PTL DEF Spec

-----------------------------------------------------------------------------
(* Interfaces. *)

\* Different clients are configured with different interfaces.
InterfacesDiffer == \A v, w \in Values : v.iface = w.iface => v.name = w.name

\* The address a transaction leaves under its key, and the one found under k.
outcome(t) == IF t.op = "update" THEN <<t.value.addr>> ELSE << >>
found(ifs, k) == IF k \in DOMAIN ifs THEN <<ifs[k]>> ELSE << >>

\* Executed in order, the transactions of q leave "a" under k: it is what the
\* last of them about k leaves, or what is there if none is about k.
Leaves(q, ifs, k, a) ==
  \/ \E i \in DOMAIN q :
       /\ txnKey(q[i]) = k /\ outcome(q[i]) = a
       /\ \A j \in DOMAIN q : j > i => txnKey(q[j]) # k
  \/ (\A j \in DOMAIN q : txnKey(q[j]) # k) /\ found(ifs, k) = a

\* No created client has its interface under k.
Unused(ap, k) == \A n \in DOMAIN ap : ap[n].broken \/ interfaceKey(ap[n].value) # k

\* What MirrorUnlessDisturbed says of an empty queue, for any queue.
Mirror(ap, q, ifs, ds) ==
  /\ \A n \in DOMAIN ap :
       ~ap[n].broken /\ interfaceKey(ap[n].value) \notin ds
         => Leaves(q, ifs, interfaceKey(ap[n].value), <<ap[n].value.addr>>)
  /\ \A k : k \notin ds /\ Unused(ap, k) => Leaves(q, ifs, k, << >>)

\* A client is configured under its own name.
Named ==
  /\ \A n \in Names : desired[n] # None => desired[n].name = n
  /\ \A n \in DOMAIN applied : applied[n].value.name = n

\* A transaction at the end of the queue decides about its key ...
LEMMA AppendDecides ==
  ASSUME pending \in Seq(Txn), NEW t \in Txn
  PROVE  Leaves(Append(pending, t), ifaces, txnKey(t), outcome(t))
<1> DEFINE q == Append(pending, t)
           n == Len(pending) + 1
<1>1. Len(pending) \in Nat /\ DOMAIN q = 1..n /\ q[n] = t
  BY AppendProperties, LenProperties
<1> HIDE DEF q
<1>2. n \in DOMAIN q /\ \A j \in DOMAIN q : ~(j > n)
  BY <1>1
<1>3. Leaves(q, ifaces, txnKey(t), outcome(t))
  BY <1>1, <1>2 DEF Leaves
<1> QED
  BY <1>3 DEF q

\* ... and about no other.
LEMMA AppendKeeps ==
  ASSUME pending \in Seq(Txn), NEW t \in Txn, NEW k, NEW a,
         k # txnKey(t), Leaves(pending, ifaces, k, a)
  PROVE  Leaves(Append(pending, t), ifaces, k, a)
<1> DEFINE q == Append(pending, t)
           n == Len(pending) + 1
<1>1. /\ Len(pending) \in Nat /\ DOMAIN pending = 1..Len(pending)
      /\ DOMAIN q = 1..n /\ q[n] = t
      /\ \A j \in DOMAIN pending : q[j] = pending[j]
  BY AppendProperties, LenProperties
<1> HIDE DEF q
<1>2. \A j \in DOMAIN q : txnKey(q[j]) = k => j \in DOMAIN pending
  BY <1>1
<1>3. DOMAIN pending \subseteq DOMAIN q
  BY <1>1
<1>4. Leaves(q, ifaces, k, a)
  <2>1. CASE \E i \in DOMAIN pending :
               /\ txnKey(pending[i]) = k /\ outcome(pending[i]) = a
               /\ \A j \in DOMAIN pending : j > i => txnKey(pending[j]) # k
    BY <1>1, <1>2, <1>3, <2>1 DEF Leaves
  <2>2. CASE (\A j \in DOMAIN pending : txnKey(pending[j]) # k) /\ found(ifaces, k) = a
    BY <1>1, <1>2, <2>2 DEF Leaves
  <2> QED
    BY <2>1, <2>2 DEF Leaves
<1> QED
  BY <1>4 DEF q

\* The queue without one of its goroutines, element by element.
LEMMA RemovedElements ==
  ASSUME pending \in Seq(Txn), NEW i \in DOMAIN pending
  PROVE  /\ i \in 1..Len(pending) /\ Len(pending) \in Nat
         /\ DOMAIN pending = 1..Len(pending)
         /\ DOMAIN RemoveAt(pending, i) = 1..(Len(pending) - 1)
         /\ \A j \in 1..(Len(pending) - 1) :
              RemoveAt(pending, i)[j] = IF j < i THEN pending[j] ELSE pending[j + 1]
<1> DEFINE n == Len(pending)
           a == SubSeq(pending, 1, i - 1)
           b == SubSeq(pending, i + 1, n)
<1>1. n \in Nat /\ DOMAIN pending = 1..n /\ i \in 1..n
  BY LenProperties
<1>2. ASSUME NEW l \in Int, NEW h \in Int, 1 <= l, h <= n, l <= h + 1
      PROVE  /\ SubSeq(pending, l, h) \in Seq(Txn)
             /\ Len(SubSeq(pending, l, h)) = h - l + 1
             /\ \A j \in 1..(h - l + 1) : SubSeq(pending, l, h)[j] = pending[l + j - 1]
  <2> HIDE DEF Txn
  <2>1. \A x \in l..h : pending[x] \in Txn
    BY <1>1, <1>2, ElementOfSeq
  <2> QED
    BY <1>2, <2>1, SubSeqProperties
<1>3. /\ a \in Seq(Txn) /\ Len(a) = i - 1
      /\ \A j \in 1..(i - 1) : a[j] = pending[j]
  BY <1>1, <1>2
<1>4. /\ b \in Seq(Txn) /\ Len(b) = n - i
      /\ \A j \in 1..(n - i) : b[j] = pending[i + j]
  BY <1>1, <1>2
<1>5. RemoveAt(pending, i) = a \o b
  BY DEF RemoveAt
<1> HIDE DEF a, b
<1>6. /\ a \o b \in Seq(Txn) /\ Len(a \o b) = n - 1
      /\ \A j \in 1..(n - 1) : (a \o b)[j] = IF j <= i - 1 THEN a[j] ELSE b[j - (i - 1)]
  <2> HIDE DEF Txn, n
  <2>1. /\ a \o b \in Seq(Txn) /\ Len(a \o b) = Len(a) + Len(b)
        /\ \A j \in 1..(Len(a) + Len(b)) :
             (a \o b)[j] = IF j <= Len(a) THEN a[j] ELSE b[j - Len(a)]
    BY <1>3, <1>4, ConcatProperties
  <2>2. Len(a) + Len(b) = n - 1
    BY <1>1, <1>3, <1>4
  <2> QED
    BY <1>3, <2>1, <2>2
<1>7. DOMAIN (a \o b) = 1..(n - 1)
  BY <1>6, LenProperties
<1>8. ASSUME NEW j \in 1..(n - 1)
      PROVE  (a \o b)[j] = IF j < i THEN pending[j] ELSE pending[j + 1]
  <2>1. CASE j < i
    BY <1>1, <1>3, <1>6, <2>1
  <2>2. CASE ~(j < i)
    <3>1. j - (i - 1) \in 1..(n - i) /\ i + (j - (i - 1)) = j + 1
      BY <1>1, <2>2
    <3>2. (a \o b)[j] = b[j - (i - 1)]
      BY <1>1, <1>6, <2>2
    <3>3. b[j - (i - 1)] = pending[i + (j - (i - 1))]
      BY <1>4, <3>1
    <3> QED
      BY <2>2, <3>1, <3>2, <3>3
  <2> QED
    BY <2>1, <2>2
<1> QED
  BY <1>1, <1>5, <1>7, <1>8

\* Executing a transaction does not change what the queue leaves, except that of
\* the last transaction about its key where this is lost or not the first.
LEMMA ExecuteKeeps ==
  ASSUME pending \in Seq(Txn), NEW i \in DOMAIN pending, Execute(i),
         NEW k, NEW a, k \notin disturbed', Leaves(pending, ifaces, k, a)
  PROVE  Leaves(pending', ifaces', k, a)
<1> DEFINE t == pending[i]
           n == Len(pending)
<1>1. /\ i \in 1..n /\ n \in Nat /\ DOMAIN pending = 1..n
      /\ DOMAIN pending' = 1..(n - 1)
      /\ \A j \in 1..(n - 1) : pending'[j] = IF j < i THEN pending[j] ELSE pending[j + 1]
  BY RemovedElements DEF Execute
<1>2. \A j \in DOMAIN pending' :
        /\ j < i => j \in DOMAIN pending /\ pending'[j] = pending[j]
        /\ ~(j < i) => j + 1 \in DOMAIN pending /\ pending'[j] = pending[j + 1]
  BY <1>1
<1>3. \A j \in DOMAIN pending :
        /\ j < i => j \in DOMAIN pending' /\ pending'[j] = pending[j]
        /\ j > i => j - 1 \in DOMAIN pending' /\ pending'[j - 1] = pending[j]
  BY <1>1
<1>4. /\ ifaces' = ifaces \/ ifaces' = ifacesAfter(t)
      /\ isLast(i) /\ txnKey(t) = k => isFirst(i) /\ ifaces' = ifacesAfter(t)
  BY DEF Execute
<1>5. found(ifacesAfter(t), txnKey(t)) = outcome(t)
  BY DEF found, outcome, ifacesAfter, Put, RemoveKeys
<1>6. k # txnKey(t) => found(ifaces', k) = found(ifaces, k)
  BY <1>4 DEF found, ifacesAfter, Put, RemoveKeys
<1>7. CASE (\A j \in DOMAIN pending : txnKey(pending[j]) # k) /\ found(ifaces, k) = a
  <2>1. \A j \in DOMAIN pending' : txnKey(pending'[j]) # k
    BY <1>2, <1>7
  <2> QED
    BY <1>6, <1>7, <2>1 DEF Leaves
<1>8. ASSUME NEW l \in DOMAIN pending, txnKey(pending[l]) = k, outcome(pending[l]) = a,
             \A j \in DOMAIN pending : j > l => txnKey(pending[j]) # k
      PROVE  Leaves(pending', ifaces', k, a)
  <2>1. CASE l < i
    <3>1. l \in DOMAIN pending' /\ pending'[l] = pending[l]
      BY <1>3, <2>1
    <3>2. ASSUME NEW j \in DOMAIN pending', j > l
          PROVE  txnKey(pending'[j]) # k
      <4>1. CASE j < i
        BY <1>2, <1>8, <3>2, <4>1
      <4>2. CASE ~(j < i)
        <5>1. j + 1 > l
          BY <1>1, <3>2
        <5> QED
          BY <1>2, <1>8, <4>2, <5>1
      <4> QED
        BY <4>1, <4>2
    <3> QED
      BY <1>8, <3>1, <3>2 DEF Leaves
  <2>2. CASE l > i
    <3>1. l - 1 \in DOMAIN pending' /\ pending'[l - 1] = pending[l]
      BY <1>3, <2>2
    <3>2. ASSUME NEW j \in DOMAIN pending', j > l - 1
          PROVE  txnKey(pending'[j]) # k
      <4>1. ~(j < i) /\ j + 1 > l
        BY <1>1, <2>2, <3>2
      <4> QED
        BY <1>2, <1>8, <4>1
    <3> QED
      BY <1>8, <3>1, <3>2 DEF Leaves
  <2>3. CASE l = i
    <3>1. isLast(i)
      BY <1>8, <2>3 DEF isLast
    <3>2. isFirst(i) /\ ifaces' = ifacesAfter(t)
      BY <1>4, <1>8, <2>3, <3>1
    <3>3. found(ifaces', k) = a
      BY <1>5, <1>8, <2>3, <3>2
    <3>4. ASSUME NEW j \in DOMAIN pending'
          PROVE  txnKey(pending'[j]) # k
      <4>1. CASE j < i
        BY <1>2, <1>8, <2>3, <3>2, <4>1 DEF isFirst
      <4>2. CASE ~(j < i)
        <5>1. j + 1 > l
          BY <1>1, <2>3, <4>2
        <5> QED
          BY <1>2, <1>8, <4>2, <5>1
      <4> QED
        BY <4>1, <4>2
    <3> QED
      BY <3>3, <3>4 DEF Leaves
  <2>4. l < i \/ l > i \/ l = i
    BY <1>1
  <2> QED
    BY <2>1, <2>2, <2>3, <2>4
<1> QED
  BY <1>7, <1>8 DEF Leaves

\* The keys of two clients differ.
LEMMA KeysDiffer ==
  ASSUME InterfacesDiffer, NEW v \in Values, NEW w \in Values, v.name # w.name
  PROVE  interfaceKey(v) # interfaceKey(w)
  BY DEF InterfacesDiffer, interfaceKey

\* Create appends the interface of a client that had none.
LEMMA CreateMirror ==
  ASSUME ClientTypes, Named, InterfacesDiffer, Mirror(applied, pending, ifaces, disturbed),
         NEW n \in Names, Create(n)
  PROVE  Mirror(applied', pending', ifaces', disturbed')
<1> DEFINE v == desired[n]
           t == [op |-> "update", value |-> v]
           entry == [value |-> v, session |-> freshSession, broken |-> FALSE]
<1>1. n \notin DOMAIN applied /\ v \in Values /\ v.name = n
  <2>1. v \in Values
    BY CreatedValue DEF Create, ClientTypes
  <2> QED
    BY <2>1, ValuesAssumption DEF Create, toCreate, Named
<1>2. t \in Txn /\ txnKey(t) = interfaceKey(v) /\ outcome(t) = <<v.addr>>
  BY <1>1 DEF Txn, txnKey, outcome
<1>3. entry.value = v /\ ~entry.broken
  OBVIOUS
<1>4. /\ pending' = Append(pending, t) /\ ifaces' = ifaces
      /\ applied' = Put(applied, n, entry)
      /\ disturbed' = disturbed \ {interfaceKey(v)}
  BY DEF Create, createSent
<1>5. pending \in Seq(Txn)
  BY DEF ClientTypes
<1> HIDE DEF v, t, entry
<1>6. /\ DOMAIN applied' = DOMAIN applied \cup {n} /\ applied'[n] = entry
      /\ \A m \in DOMAIN applied : m # n /\ applied'[m] = applied[m]
  BY <1>1, <1>4 DEF Put
<1>7. \A m \in DOMAIN applied : interfaceKey(applied[m].value) # interfaceKey(v)
  <2> TAKE m \in DOMAIN applied
  <2>1. applied[m].value \in Values /\ applied[m].value.name = m
    BY DEF ClientTypes, TypeOK, Named
  <2> QED
    BY <1>1, <1>6, <2>1, KeysDiffer
<1>8. ASSUME NEW m \in DOMAIN applied', ~applied'[m].broken,
             interfaceKey(applied'[m].value) \notin disturbed'
      PROVE  Leaves(pending', ifaces', interfaceKey(applied'[m].value), <<applied'[m].value.addr>>)
  <2>1. CASE m = n
    BY <1>2, <1>3, <1>4, <1>5, <1>6, <2>1, AppendDecides
  <2>2. CASE m # n
    <3>1. m \in DOMAIN applied /\ applied'[m] = applied[m]
      BY <1>6, <2>2
    <3>2. Leaves(pending, ifaces, interfaceKey(applied[m].value), <<applied[m].value.addr>>)
      BY <1>4, <1>7, <1>8, <3>1 DEF Mirror
    <3> QED
      BY <1>2, <1>4, <1>5, <1>7, <3>1, <3>2, AppendKeeps
  <2> QED
    BY <2>1, <2>2
<1>9. ASSUME NEW k, k \notin disturbed', Unused(applied', k)
      PROVE  Leaves(pending', ifaces', k, << >>)
  <2>1. Unused(applied, k) /\ k # interfaceKey(v) /\ k \notin disturbed
    BY <1>3, <1>4, <1>6, <1>9 DEF Unused
  <2> QED
    BY <1>2, <1>4, <1>5, <2>1, AppendKeeps DEF Mirror
<1> QED
  BY <1>8, <1>9 DEF Mirror

\* Delete appends the removal of the interface, whether or not it is retried.
LEMMA DeleteMirror ==
  ASSUME ClientTypes, Named, InterfacesDiffer, Mirror(applied, pending, ifaces, disturbed),
         NEW n \in Names, Delete(n) \/ DeleteNotClosed(n) \/ DeleteNotDestroyed(n)
  PROVE  Mirror(applied', pending', ifaces', disturbed')
<1> DEFINE v == applied[n].value
           t == [op |-> "delete", value |-> v]
<1>1. n \in DOMAIN applied /\ v \in Values /\ v.name = n
  BY DEF Delete, DeleteNotClosed, DeleteNotDestroyed, startDelete, toDelete,
         ClientTypes, TypeOK, Named
<1>2. t \in Txn /\ txnKey(t) = interfaceKey(v) /\ outcome(t) = << >>
  BY <1>1 DEF Txn, txnKey, outcome
<1>3. /\ pending' = Append(pending, t) /\ ifaces' = ifaces
      /\ disturbed' = disturbed \ {interfaceKey(v)}
  BY DEF Delete, DeleteNotClosed, DeleteNotDestroyed, startDelete, deleteSent
<1>4. /\ \A m \in DOMAIN applied' : ~applied'[m].broken => m # n
      /\ \A m \in DOMAIN applied \ {n} : m \in DOMAIN applied' /\ applied'[m] = applied[m]
      /\ DOMAIN applied' \subseteq DOMAIN applied
  <2>1. CASE applied' = RemoveKeys(applied, {n})
    BY <2>1 DEF RemoveKeys
  <2>2. CASE applied' = [applied EXCEPT ![n].broken = TRUE]
    BY <1>1, <2>2 DEF ClientTypes, TypeOK
  <2> QED
    BY <2>1, <2>2 DEF Delete, DeleteNotClosed, DeleteNotDestroyed
<1>5. pending \in Seq(Txn)
  BY DEF ClientTypes
<1> HIDE DEF t
<1>6. ASSUME NEW m \in DOMAIN applied', ~applied'[m].broken,
             interfaceKey(applied'[m].value) \notin disturbed'
      PROVE  Leaves(pending', ifaces', interfaceKey(applied'[m].value), <<applied'[m].value.addr>>)
  <2>1. m \in DOMAIN applied /\ m # n /\ applied'[m] = applied[m]
    BY <1>4, <1>6
  <2>2. applied[m].value \in Values /\ applied[m].value.name = m
    BY <2>1 DEF ClientTypes, TypeOK, Named
  <2>3. interfaceKey(applied[m].value) # interfaceKey(v)
    BY <1>1, <2>1, <2>2, KeysDiffer
  <2>4. Leaves(pending, ifaces, interfaceKey(applied[m].value), <<applied[m].value.addr>>)
    BY <1>3, <1>6, <2>1, <2>3 DEF Mirror
  <2> QED
    BY <1>2, <1>3, <1>5, <2>1, <2>3, <2>4, AppendKeeps
<1>7. ASSUME NEW k, k \notin disturbed', Unused(applied', k)
      PROVE  Leaves(pending', ifaces', k, << >>)
  <2>1. CASE k = interfaceKey(v)
    BY <1>2, <1>3, <1>5, <2>1, AppendDecides
  <2>2. CASE k # interfaceKey(v)
    <3>1. Unused(applied, k) /\ k \notin disturbed
      BY <1>3, <1>4, <1>7, <2>2 DEF Unused
    <3> QED
      BY <1>2, <1>3, <1>5, <2>2, <3>1, AppendKeeps DEF Mirror
  <2> QED
    BY <2>1, <2>2
<1> QED
  BY <1>6, <1>7 DEF Mirror

\* A goroutine sends its transaction, in whatever order.
LEMMA ExecuteMirror ==
  ASSUME ClientTypes, Mirror(applied, pending, ifaces, disturbed),
         NEW i \in DOMAIN pending, Execute(i)
  PROVE  Mirror(applied', pending', ifaces', disturbed')
<1>1. pending \in Seq(Txn) /\ applied' = applied /\ disturbed \subseteq disturbed'
  BY DEF ClientTypes, Execute
<1>2. \A k, a : k \notin disturbed' /\ Leaves(pending, ifaces, k, a)
                  => Leaves(pending', ifaces', k, a)
  BY <1>1, ExecuteKeeps
<1> QED
  BY <1>1, <1>2 DEF Mirror, Unused

\* Every step keeps the names.
LEMMA NamedStep ==
  ASSUME ClientTypes, Named, [Next]_vars
  PROVE  Named'
<1>1. ASSUME NEW n \in Names, Configure(n)
      PROVE  Named'
  <2>1. applied' = applied
    BY <1>1 DEF Configure
  <2>2. PICK v : /\ v = None \/ v.name = n
                 /\ desired' = [desired EXCEPT ![n] = v]
    BY <1>1 DEF Configure
  <2>3. DOMAIN desired = Names
    BY DEF ClientTypes, TypeOK
  <2>4. desired'[n] = v /\ \A m \in Names : m # n => desired'[m] = desired[m]
    BY <2>2, <2>3
  <2> QED
    BY <2>1, <2>2, <2>4 DEF Named
<1>2. ASSUME NEW n \in Names, Create(n)
      PROVE  Named'
  <2> DEFINE entry == [value |-> desired[n], session |-> freshSession, broken |-> FALSE]
  <2>1. entry.value.name = n
    BY <1>2 DEF Create, toCreate, Named
  <2>2. desired' = desired /\ applied' = Put(applied, n, entry)
    BY <1>2 DEF Create
  <2> HIDE DEF entry
  <2> QED
    BY <2>1, <2>2 DEF Named, Put
<1>3. ASSUME NEW n \in Names, Delete(n)
      PROVE  Named'
  BY <1>3 DEF Delete, Named, RemoveKeys
<1>4. ASSUME NEW n \in Names, DeleteNotClosed(n) \/ DeleteNotDestroyed(n)
      PROVE  Named'
  <2>1. desired' = desired /\ applied' = [applied EXCEPT ![n].broken = TRUE]
    BY <1>4 DEF DeleteNotClosed, DeleteNotDestroyed
  <2>2. DOMAIN applied' = DOMAIN applied
        /\ \A m \in DOMAIN applied : applied'[m].value = applied[m].value
    BY <2>1 DEF ClientTypes, TypeOK
  <2> QED
    BY <2>1, <2>2 DEF Named
<1>5. CASE UNCHANGED <<desired, applied>>
  BY <1>5 DEF Named
<1>6. ASSUME NEW n \in Names, Scheduler(n)
      PROVE  Named'
  <2>1. CASE CreateNoClient(n) \/ CreateNotConnected(n) \/ CreateNotBuilt(n)
    BY <1>5, <2>1 DEF CreateNoClient, CreateNotConnected, CreateNotBuilt
  <2> QED
    BY <1>2, <1>3, <1>4, <1>6, <2>1 DEF Scheduler
<1>7. ASSUME NEW i \in DOMAIN pending, Execute(i)
      PROVE  Named'
  BY <1>5, <1>7 DEF Execute
<1>8. CASE UNCHANGED vars
  BY <1>5, <1>8 DEF vars
<1> QED
  BY <1>1, <1>6, <1>7, <1>8 DEF Next

\* Every step keeps the mirror.
LEMMA MirrorStep ==
  ASSUME InterfacesDiffer
  PROVE  ClientTypes /\ Named /\ Mirror(applied, pending, ifaces, disturbed) /\ [Next]_vars
           => Named' /\ Mirror(applied', pending', ifaces', disturbed')
<1> SUFFICES ASSUME ClientTypes, Named, Mirror(applied, pending, ifaces, disturbed), [Next]_vars
             PROVE  Named' /\ Mirror(applied', pending', ifaces', disturbed')
  OBVIOUS
<1>1. Named'
  BY NamedStep
<1>2. CASE UNCHANGED <<applied, queue, ifaces>>
  BY <1>1, <1>2 DEF queue
<1>3. ASSUME NEW n \in Names, Scheduler(n)
      PROVE  Mirror(applied', pending', ifaces', disturbed')
  <2>1. CASE Create(n)
    BY <2>1, CreateMirror
  <2>2. CASE Delete(n) \/ DeleteNotClosed(n) \/ DeleteNotDestroyed(n)
    BY <2>2, DeleteMirror
  <2>3. CASE CreateNoClient(n) \/ CreateNotConnected(n) \/ CreateNotBuilt(n)
    BY <1>2, <2>3 DEF CreateNoClient, CreateNotConnected, CreateNotBuilt
  <2> QED
    BY <1>3, <2>1, <2>2, <2>3 DEF Scheduler
<1>4. ASSUME NEW n \in Names, Configure(n)
      PROVE  Mirror(applied', pending', ifaces', disturbed')
  BY <1>2, <1>4 DEF Configure
<1>5. ASSUME NEW i \in DOMAIN pending, Execute(i)
      PROVE  Mirror(applied', pending', ifaces', disturbed')
  BY <1>5, ExecuteMirror
<1>6. CASE UNCHANGED vars
  BY <1>2, <1>6 DEF vars
<1> QED
  BY <1>1, <1>3, <1>4, <1>5, <1>6 DEF Next

\* Every interface about which no goroutine is left is that of a created client,
\* or gone, unless its last transaction was lost or overtook an earlier one: for
\* any clients with interfaces of their own, any failures and any order of the
\* goroutines.  The run client_reordered shows that the exception is real.
THEOREM ClientMirror ==
  ASSUME InterfacesDiffer
  PROVE  Spec => []MirrorUnlessDisturbed
<1> DEFINE Inv == ClientTypes /\ Named /\ Mirror(applied, pending, ifaces, disturbed)
<1>1. Init => Inv
  <2> SUFFICES ASSUME Init
               PROVE  Inv
    OBVIOUS
  <2>1. \A k : Leaves(pending, ifaces, k, << >>)
    BY DEF Init, Empty, Leaves, found
  <2>2. Named /\ Mirror(applied, pending, ifaces, disturbed)
    BY <2>1 DEF Init, Empty, Named, Mirror
  <2> QED
    BY <2>2, ClientTypesInit
<1>2. Inv /\ [Next]_vars => Inv'
  BY ClientTypesStep, MirrorStep
<1>3. Inv => MirrorUnlessDisturbed
  <2> SUFFICES ASSUME Inv, NEW k \in interfaceKeys \ disturbed,
                      \A i \in DOMAIN pending : txnKey(pending[i]) # k
               PROVE  Mirrored(k)
    BY DEF MirrorUnlessDisturbed
  <2>1. \A a : Leaves(pending, ifaces, k, a) => found(ifaces, k) = a
    BY DEF Leaves
  <2>2. \A n \in DOMAIN applied :
          ~applied[n].broken /\ interfaceKey(applied[n].value) = k
            => k \in DOMAIN ifaces /\ ifaces[k] = applied[n].value.addr
    BY <2>1 DEF Mirror, found
  <2>3. Unused(applied, k) => k \notin DOMAIN ifaces
    BY <2>1 DEF Mirror, found
  <2> QED
    BY <2>2, <2>3 DEF Mirrored, Unused
<1> QED
  BY <1>1, <1>2, <1>3, PTL DEF Spec
=============================================================================
