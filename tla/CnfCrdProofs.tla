---------------------------- MODULE CnfCrdProofs ----------------------------
(***************************************************************************)
(* Proof of the type invariant, and that publishing a status never undoes  *)
(* what users do, for any namespaces, names, specs and failures, and for   *)
(* any number of writes.                                                   *)
(*                                                                         *)
(* The argument: every copy of a resource that is on its way through the   *)
(* controller is a true copy, that is, either older than the resource or   *)
(* equal to it in its spec.  An update with an older one is refused, and   *)
(* an update with an equal one changes the status only.                    *)
(***************************************************************************)
EXTENDS CnfCrd, FiniteSetTheorems, SequenceTheorems, TLAPS

-----------------------------------------------------------------------------
(* True copies. *)

\* "c" is a notification [key, obj], "srv" the resources, "ver" their latest version.
TrueCopy(c, srv, ver) ==
  /\ c.key \in Keys
  /\ c.obj # Gone =>
       /\ c.obj.rv \in 0..ver
       /\ c.key \in DOMAIN srv /\ srv[c.key].rv = c.obj.rv => srv[c.key].spec = c.obj.spec

TrueCopies(s, srv, ver) == \E S : s \in Seq(S) /\ \A c \in S : TrueCopy(c, srv, ver)

IsObject(o) == o = [rv |-> o.rv, spec |-> o.spec, status |-> o.status, message |-> o.message]

\* A status, with the message that a failure has.
IsReported(o) ==
  /\ o.status \in {"", StatusSuccess, StatusFailure}
  /\ o.status = StatusFailure => o.message # ""

IsServer(srv, ver) ==
  /\ ver \in Nat
  /\ IsFiniteSet(DOMAIN srv) /\ DOMAIN srv \subseteq Keys
  /\ \A k \in DOMAIN srv : IsObject(srv[k]) /\ IsReported(srv[k]) /\ srv[k].rv \in 1..ver

\* From one state of the server to a later one: what changed is newer.
Advances(srv, ver, srv2, ver2) ==
  /\ ver2 \in Nat /\ ver <= ver2
  /\ \A k \in DOMAIN srv2 : \/ k \in DOMAIN srv /\ srv2[k] = srv[k]
                            \/ srv2[k].rv > ver

LEMMA CopyStaysTrue ==
  ASSUME NEW c, NEW srv, NEW ver \in Nat, NEW srv2, NEW ver2,
         TrueCopy(c, srv, ver), Advances(srv, ver, srv2, ver2)
  PROVE  TrueCopy(c, srv2, ver2)
  BY DEF TrueCopy, Advances

LEMMA CopiesStayTrue ==
  ASSUME NEW s, NEW srv, NEW ver \in Nat, NEW srv2, NEW ver2,
         TrueCopies(s, srv, ver), Advances(srv, ver, srv2, ver2)
  PROVE  TrueCopies(s, srv2, ver2)
  BY CopyStaysTrue DEF TrueCopies

LEMMA NoCopies ==
  ASSUME NEW s, NEW srv, NEW ver, s = << >>
  PROVE  TrueCopies(s, srv, ver)
<1>1. s \in Seq({})
  BY EmptySeq
<1> SUFFICES \E S : s \in Seq(S) /\ \A c \in S : TrueCopy(c, srv, ver)
  BY DEF TrueCopies
<1> WITNESS {}
<1> QED
  BY <1>1

\* The first of the copies, and the rest.
LEMMA HeadTailTrue ==
  ASSUME NEW s, NEW srv, NEW ver, TrueCopies(s, srv, ver), s # << >>
  PROVE  TrueCopy(Head(s), srv, ver) /\ TrueCopies(Tail(s), srv, ver)
<1>1. PICK S : s \in Seq(S) /\ \A c \in S : TrueCopy(c, srv, ver)
  BY DEF TrueCopies
<1>2. Head(s) \in S /\ Tail(s) \in Seq(S)
  BY <1>1, HeadTailProperties
<1> QED
  BY <1>1, <1>2 DEF TrueCopies

LEMMA ConcatTrue ==
  ASSUME NEW s, NEW t, NEW srv, NEW ver,
         TrueCopies(s, srv, ver), TrueCopies(t, srv, ver)
  PROVE  TrueCopies(s \o t, srv, ver)
<1>1. PICK S : s \in Seq(S) /\ \A c \in S : TrueCopy(c, srv, ver)
  BY DEF TrueCopies
<1>2. PICK T : t \in Seq(T) /\ \A c \in T : TrueCopy(c, srv, ver)
  BY DEF TrueCopies
<1> DEFINE U == S \cup T
<1>3. s \in Seq(U) /\ t \in Seq(U)
  BY <1>1, <1>2, SeqMonotonic
<1>4. \A c \in U : TrueCopy(c, srv, ver)
  BY <1>1, <1>2
<1> HIDE DEF U
<1>5. s \o t \in Seq(U)
  BY <1>3, ConcatProperties
<1> QED
  BY <1>4, <1>5 DEF TrueCopies

LEMMA AppendTrue ==
  ASSUME NEW s, NEW c, NEW srv, NEW ver, TrueCopies(s, srv, ver), TrueCopy(c, srv, ver)
  PROVE  TrueCopies(Append(s, c), srv, ver)
<1>1. PICK S : s \in Seq(S) /\ \A d \in S : TrueCopy(d, srv, ver)
  BY DEF TrueCopies
<1> DEFINE U == S \cup {c}
<1>2. s \in Seq(U) /\ c \in U
  BY <1>1, SeqMonotonic
<1>3. \A d \in U : TrueCopy(d, srv, ver)
  BY <1>1
<1> HIDE DEF U
<1>4. Append(s, c) \in Seq(U)
  BY <1>2, AppendProperties
<1> QED
  BY <1>3, <1>4 DEF TrueCopies

\* A sequence given by its elements.
LEMMA FunctionTrue ==
  ASSUME NEW n \in Nat, NEW f, NEW srv, NEW ver,
         f = [i \in 1..n |-> f[i]], \A i \in 1..n : TrueCopy(f[i], srv, ver)
  PROVE  TrueCopies(f, srv, ver)
<1> DEFINE S == {f[i] : i \in 1..n}
<1>1. f \in [1..n -> S]
  OBVIOUS
<1>2. \A c \in S : TrueCopy(c, srv, ver)
  OBVIOUS
<1> HIDE DEF S
<1>3. f \in Seq(S)
  BY <1>1, SeqDef
<1> QED
  BY <1>2, <1>3 DEF TrueCopies

-----------------------------------------------------------------------------
(* The server. *)

\* All that is known of the state when a request reaches the server.
ServerInv ==
  /\ IsServer(server, version)
  /\ TrueCopies(stream, server, version)

\* What a request does to the server, as the copies see it.
ServerStep ==
  /\ ServerInv'
  /\ Advances(server, version, server', version')

LEMMA SameServer ==
  ASSUME ServerInv, UNCHANGED resources
  PROVE  ServerStep
  BY DEF ServerInv, ServerStep, Advances, IsServer, resources

LEMMA PutFinite ==
  ASSUME NEW f, NEW k, NEW v, IsFiniteSet(DOMAIN f)
  PROVE  IsFiniteSet(DOMAIN Put(f, k, v))
  BY FS_AddElement DEF Put

LEMMA RemoveKeysFinite ==
  ASSUME NEW f, NEW S, IsFiniteSet(DOMAIN f)
  PROVE  IsFiniteSet(DOMAIN RemoveKeys(f, S))
  BY FS_Difference DEF RemoveKeys

\* A request that changes the server and notifies about true copies.
LEMMA NotifyStep ==
  ASSUME ServerInv, NEW changes, Notify(changes),
         IsServer(server', version'),
         Advances(server, version, server', version'),
         TrueCopies(changes, server', version')
  PROVE  ServerStep
<1>1. TrueCopies(stream, server', version')
  BY CopiesStayTrue DEF ServerInv, IsServer
<1>2. TrueCopies(stream \o changes, server', version')
  BY <1>1, ConcatTrue
<1>3. TrueCopies(stream', server', version')
  BY <1>1, <1>2 DEF Notify
<1> QED
  BY <1>3 DEF ServerStep, ServerInv

LEMMA StoreStep ==
  ASSUME ServerInv, NEW k \in Keys, NEW obj, IsObject(obj), IsReported(obj), Store(k, obj)
  PROVE  /\ ServerStep
         /\ DOMAIN server' = DOMAIN server \cup {k}
         /\ server'[k].spec = obj.spec
         /\ \A x \in DOMAIN server \ {k} : server'[x] = server[x]
<1> DEFINE stored == [obj EXCEPT !.rv = version + 1]
           change == [key |-> k, obj |-> stored]
<1>1. /\ version' = version + 1
      /\ server' = Put(server, k, stored)
      /\ Notify(<<change>>)
  BY DEF Store
<1>2. /\ IsObject(stored) /\ IsReported(stored)
      /\ stored.rv = version + 1 /\ stored.spec = obj.spec
  <2>1. /\ IsObject(stored) /\ stored.rv = version + 1 /\ stored.spec = obj.spec
        /\ stored.status = obj.status /\ stored.message = obj.message
    BY DEF IsObject
  <2> QED
    BY <2>1 DEF IsReported
<1> HIDE DEF stored
<1>3. version \in Nat /\ version' \in Nat /\ version < version'
  BY <1>1 DEF ServerInv, IsServer
<1>4. /\ DOMAIN server' = DOMAIN server \cup {k}
      /\ server'[k] = stored
      /\ \A x \in DOMAIN server \ {k} : server'[x] = server[x]
  BY <1>1 DEF Put
<1>5. IsServer(server', version')
  <2>1. IsFiniteSet(DOMAIN server')
    BY <1>1, PutFinite DEF ServerInv, IsServer
  <2>2. \A x \in DOMAIN server' :
          IsObject(server'[x]) /\ IsReported(server'[x]) /\ server'[x].rv \in 1..version'
    BY <1>1, <1>2, <1>3, <1>4 DEF ServerInv, IsServer
  <2>3. DOMAIN server' \subseteq Keys
    BY <1>4 DEF ServerInv, IsServer
  <2> QED
    BY <1>3, <2>1, <2>2, <2>3 DEF IsServer
<1>6. Advances(server, version, server', version')
  BY <1>1, <1>2, <1>3, <1>4 DEF Advances
<1>7. TrueCopy(change, server', version')
  BY <1>1, <1>2, <1>3, <1>4 DEF TrueCopy
<1>8. TrueCopies(<<change>>, server', version')
  <2>1. <<change>> = [i \in 1..1 |-> <<change>>[i]] /\ \A i \in 1..1 : <<change>>[i] = change
    OBVIOUS
  <2> HIDE DEF change
  <2> QED
    BY <1>7, <2>1, FunctionTrue
<1>9. ServerStep
  BY <1>1, <1>5, <1>6, <1>8, NotifyStep
<1> QED
  BY <1>2, <1>4, <1>9

LEMMA RemoveStep ==
  ASSUME ServerInv, NEW S \in SUBSET DOMAIN server, NEW order,
         order \in [1..Cardinality(S) -> S], Remove(S, order)
  PROVE  ServerStep /\ server' = RemoveKeys(server, S)
<1> DEFINE n == Cardinality(S)
           changes == [i \in DOMAIN order |-> [key |-> order[i], obj |-> Gone]]
<1>1. /\ version' = version + n
      /\ server' = RemoveKeys(server, S)
      /\ Notify(changes)
  BY DEF Remove
<1>2. n \in Nat
  BY FS_Subset, FS_CardinalityType DEF ServerInv, IsServer
<1>3. DOMAIN order = 1..n
  OBVIOUS
<1> HIDE DEF n
<1>4. version \in Nat /\ version' \in Nat /\ version <= version'
  BY <1>1, <1>2 DEF ServerInv, IsServer
<1>5. /\ DOMAIN server' \subseteq DOMAIN server
      /\ \A x \in DOMAIN server' : server'[x] = server[x]
  BY <1>1 DEF RemoveKeys
<1>6. IsServer(server', version')
  <2>1. IsFiniteSet(DOMAIN server')
    BY <1>1, RemoveKeysFinite DEF ServerInv, IsServer
  <2>2. \A x \in DOMAIN server' :
          IsObject(server'[x]) /\ IsReported(server'[x]) /\ server'[x].rv \in 1..version'
    BY <1>1, <1>4, <1>5 DEF ServerInv, IsServer
  <2> QED
    BY <1>4, <1>5, <2>1, <2>2 DEF ServerInv, IsServer
<1>7. Advances(server, version, server', version')
  BY <1>4, <1>5 DEF Advances
<1>8. TrueCopies(changes, server', version')
  <2>1. changes = [i \in 1..n |-> changes[i]]
    BY <1>3
  <2>2. \A i \in 1..n : TrueCopy(changes[i], server', version')
    BY <1>3 DEF TrueCopy, ServerInv, IsServer
  <2> HIDE DEF changes
  <2> QED
    BY <1>2, <2>1, <2>2, FunctionTrue
<1>9. ServerStep
  BY <1>1, <1>6, <1>7, <1>8, NotifyStep
<1> QED
  BY <1>1, <1>9

-----------------------------------------------------------------------------
(* The inductive invariant. *)

CacheTrue ==
  /\ IsFiniteSet(DOMAIN cache)
  /\ \A k \in DOMAIN cache : TrueCopy([key |-> k, obj |-> cache[k]], server, version)

TaskTrue == task # NoTask => task.obj # Gone /\ TrueCopy(task, server, version)

CopiesTrue ==
  /\ CacheTrue
  /\ TrueCopies(events, server, version)
  /\ TaskTrue

CrdInv == ServerInv /\ UserDataKept /\ CopiesTrue

LEMMA CrdInit == Init => CrdInv
<1> SUFFICES ASSUME Init PROVE CrdInv
  OBVIOUS
<1> USE DEF Init, InitServer
<1>1. DOMAIN server = {} /\ DOMAIN intent = {} /\ DOMAIN cache = {}
  BY DEF Empty
<1>2. IsServer(server, version)
  BY <1>1, FS_EmptySet DEF IsServer
<1>3. TrueCopies(stream, server, version) /\ TrueCopies(events, server, version)
  BY NoCopies
<1> QED
  BY <1>1, <1>2, <1>3, FS_EmptySet
     DEF CrdInv, ServerInv, UserDataKept, CopiesTrue, CacheTrue, TaskTrue

\* A request to the server keeps what the controller holds true.
LEMMA CopiesOutlive ==
  ASSUME CrdInv, ServerStep, UNCHANGED memory
  PROVE  CopiesTrue'
<1>1. version \in Nat /\ Advances(server, version, server', version')
  BY DEF CrdInv, ServerInv, IsServer, ServerStep
<1>2. UNCHANGED <<cache, events, task>>
  BY DEF memory
<1>3. TrueCopies(events', server', version')
  BY <1>1, <1>2, CopiesStayTrue DEF CrdInv, CopiesTrue
<1>4. CacheTrue'
  BY <1>1, <1>2, CopyStaysTrue DEF CrdInv, CopiesTrue, CacheTrue
<1>5. TaskTrue'
  BY <1>1, <1>2, CopyStaysTrue DEF CrdInv, CopiesTrue, TaskTrue
<1> QED
  BY <1>3, <1>4, <1>5 DEF CopiesTrue

-----------------------------------------------------------------------------
(* The requests of users: what they ask for is what the server has. *)

LEMMA CreateStep ==
  ASSUME CrdInv, NEW k \in Keys, NEW spec, Create(k, spec)
  PROVE  ServerStep /\ UserDataKept'
<1>1. Store(k, object(0, spec)) /\ intent' = Put(intent, k, spec)
  BY DEF Create, UserWrites
<1>2. IsObject(object(0, spec)) /\ IsReported(object(0, spec)) /\ object(0, spec).spec = spec
  BY DEF IsObject, IsReported, object, StatusFailure
<1>3. /\ ServerStep
      /\ DOMAIN server' = DOMAIN server \cup {k}
      /\ server'[k].spec = spec
      /\ \A x \in DOMAIN server \ {k} : server'[x] = server[x]
  BY <1>1, <1>2, StoreStep DEF CrdInv
<1> QED
  BY <1>1, <1>3 DEF CrdInv, UserDataKept, Put

LEMMA UpdateStep ==
  ASSUME CrdInv, NEW k \in Keys, NEW spec, Update(k, spec)
  PROVE  ServerStep /\ UserDataKept'
<1> DEFINE obj == object(Get(k).rv, spec)
<1>1. k \in DOMAIN server /\ PutObject(k, obj) /\ intent' = Put(intent, k, spec)
  BY DEF Update, UserWrites
<1>2. obj.rv = server[k].rv /\ obj.spec = spec /\ IsObject(obj) /\ IsReported(obj)
  BY DEF IsObject, IsReported, object, Get, StatusFailure
<1>3. accepted(k, obj)
  BY <1>1, <1>2 DEF accepted
<1> HIDE DEF obj
<1>4. CASE obj # server[k]
  <2>1. Store(k, obj)
    BY <1>1, <1>3, <1>4 DEF PutObject
  <2>2. /\ ServerStep
        /\ DOMAIN server' = DOMAIN server \cup {k}
        /\ server'[k].spec = spec
        /\ \A x \in DOMAIN server \ {k} : server'[x] = server[x]
    BY <1>2, <2>1, StoreStep DEF CrdInv
  <2> QED
    BY <1>1, <2>2 DEF CrdInv, UserDataKept, Put
<1>5. CASE obj = server[k]
  <2>1. UNCHANGED resources
    BY <1>1, <1>5 DEF PutObject
  <2>2. ServerStep /\ server' = server
    BY <2>1, SameServer DEF CrdInv, resources
  <2> QED
    BY <1>1, <1>2, <1>5, <2>2 DEF CrdInv, UserDataKept, Put
<1> QED
  BY <1>4, <1>5

LEMMA PatchStep ==
  ASSUME CrdInv, NEW k \in Keys, NEW spec, Patch(k, spec)
  PROVE  ServerStep /\ UserDataKept'
<1> DEFINE obj == [server[k] EXCEPT !.spec = spec]
<1>1. k \in DOMAIN server /\ intent' = Put(intent, k, spec)
  BY DEF Patch, UserWrites
<1>2. IsObject(obj) /\ IsReported(obj) /\ obj.spec = spec
  <2>1. IsObject(server[k]) /\ IsReported(server[k])
    BY <1>1 DEF CrdInv, ServerInv, IsServer
  <2>2. /\ IsObject(obj) /\ obj.spec = spec
        /\ obj.status = server[k].status /\ obj.message = server[k].message
    BY <2>1 DEF IsObject
  <2> QED
    BY <2>1, <2>2 DEF IsReported
<1>3. CASE spec = server[k].spec
  <2>1. UNCHANGED resources
    BY <1>3 DEF Patch
  <2>2. ServerStep /\ server' = server
    BY <2>1, SameServer DEF CrdInv, resources
  <2> QED
    BY <1>1, <1>3, <2>2 DEF CrdInv, UserDataKept, Put
<1>4. CASE spec # server[k].spec
  <2>1. Store(k, obj)
    BY <1>4 DEF Patch
  <2> HIDE DEF obj
  <2>2. /\ ServerStep
        /\ DOMAIN server' = DOMAIN server \cup {k}
        /\ server'[k].spec = spec
        /\ \A x \in DOMAIN server \ {k} : server'[x] = server[x]
    BY <1>2, <2>1, StoreStep DEF CrdInv
  <2> QED
    BY <1>1, <2>2 DEF CrdInv, UserDataKept, Put
<1> QED
  BY <1>3, <1>4

\* The deletion of one resource or of a collection.
LEMMA RemovedKept ==
  ASSUME CrdInv, NEW S \in SUBSET DOMAIN server, NEW order,
         order \in [1..Cardinality(S) -> S], Remove(S, order),
         intent' = RemoveKeys(intent, S)
  PROVE  ServerStep /\ UserDataKept'
<1>1. ServerStep /\ server' = RemoveKeys(server, S)
  BY RemoveStep DEF CrdInv
<1> QED
  BY <1>1 DEF CrdInv, UserDataKept, RemoveKeys

LEMMA DeleteStep ==
  ASSUME CrdInv, NEW k, Delete(k)
  PROVE  ServerStep /\ UserDataKept'
<1>1. /\ k \in DOMAIN server
      /\ Remove({k}, <<k>>)
      /\ intent' = RemoveKeys(intent, {k})
  BY DEF Delete, UserWrites
<1>2. Cardinality({k}) = 1
  BY FS_Singleton
<1>3. <<k>> \in [1..Cardinality({k}) -> {k}]
  BY <1>2
<1> QED
  BY <1>1, <1>3, RemovedKept

LEMMA DeleteCollectionStep ==
  ASSUME CrdInv, NEW ns, DeleteCollection(ns)
  PROVE  ServerStep /\ UserDataKept'
<1> DEFINE S == {k \in DOMAIN server : k[1] = ns}
<1>1. PICK order \in [1..Cardinality(S) -> S] : Remove(S, order)
  BY DEF DeleteCollection
<1>2. intent' = RemoveKeys(intent, S)
  BY DEF DeleteCollection, UserWrites
<1>3. S \in SUBSET DOMAIN server
  OBVIOUS
<1> HIDE DEF S
<1> QED
  BY <1>1, <1>2, <1>3, RemovedKept

LEMMA UsersStep ==
  ASSUME CrdInv, Users
  PROVE  CrdInv'
<1>1. UserNext /\ UNCHANGED memory
  BY DEF Users
<1>2. ServerStep /\ UserDataKept'
  BY <1>1, CreateStep, UpdateStep, PatchStep, DeleteStep, DeleteCollectionStep DEF UserNext
<1>3. CopiesTrue'
  BY <1>1, <1>2, CopiesOutlive
<1> QED
  BY <1>2, <1>3 DEF CrdInv, ServerStep

-----------------------------------------------------------------------------
(* The steps of the controller: what it holds stays true. *)

\* The server and the users do nothing; everything held afterwards is true.
LEMMA HeldStep ==
  ASSUME CrdInv, UNCHANGED <<server, version, intent>>,
         TrueCopies(stream', server, version),
         IsFiniteSet(DOMAIN cache'),
         \A k \in DOMAIN cache' : TrueCopy([key |-> k, obj |-> cache'[k]], server, version),
         TrueCopies(events', server, version),
         task' # NoTask => task'.obj # Gone /\ TrueCopy(task', server, version)
  PROVE  CrdInv'
<1>1. ServerInv' /\ UserDataKept'
  BY DEF CrdInv, ServerInv, UserDataKept
<1>2. CopiesTrue'
  BY DEF CopiesTrue, CacheTrue, TaskTrue
<1> QED
  BY <1>1, <1>2 DEF CrdInv

USE DEF CrdInv, ServerInv, CopiesTrue, CacheTrue, TaskTrue

\* Nothing is taken in, nothing new is held.
LEMMA SilentStep ==
  ASSUME CrdInv, UNCHANGED <<resources, users, memory>>
  PROVE  CrdInv'
  BY HeldStep DEF resources, users, memory

LEMMA SweepStep ==
  ASSUME CrdInv, Sweep
  PROVE  CrdInv'
  BY HeldStep DEF Sweep, resources, users

LEMMA WatchBreaksStep ==
  ASSUME CrdInv, WatchBreaks
  PROVE  CrdInv'
  BY HeldStep, NoCopies DEF WatchBreaks, WatchEnds, users, memory

LEMMA CloseStep ==
  ASSUME CrdInv, Close
  PROVE  CrdInv'
<1>1. DOMAIN cache' = {}
  BY DEF Close, Empty
<1> QED
  BY <1>1, HeldStep, NoCopies, FS_EmptySet DEF Close, WatchEnds, users

\* Notifications about true copies, in whatever order.
LEMMA SomeOrderTrue ==
  ASSUME NEW S, IsFiniteSet(S), NEW objs, NEW ns \in inSomeOrder(S, objs),
         NEW srv, NEW ver, S \subseteq Keys,
         \A k \in DOMAIN objs : TrueCopy([key |-> k, obj |-> objs[k]], srv, ver)
  PROVE  TrueCopies(ns, srv, ver)
<1> DEFINE n == Cardinality(S)
           notification(k) ==
             [key |-> k, obj |-> IF k \in DOMAIN objs THEN objs[k] ELSE Gone]
<1>1. n \in Nat
  BY FS_CardinalityType
<1>2. PICK o \in [1..n -> S] : ns = [i \in DOMAIN o |-> notification(o[i])]
  BY DEF inSomeOrder
<1>3. \A k \in S : TrueCopy(notification(k), srv, ver)
  BY DEF TrueCopy
<1> HIDE DEF n, notification
<1>4. ns = [i \in 1..n |-> ns[i]] /\ \A i \in 1..n : TrueCopy(ns[i], srv, ver)
  BY <1>2, <1>3
<1> QED
  BY <1>1, <1>4, FunctionTrue

LEMMA ListAndWatchStep ==
  ASSUME CrdInv, ListAndWatch
  PROVE  CrdInv'
<1> DEFINE listed == List(watchedNamespaces)
<1>1. /\ cache' = listed
      /\ UNCHANGED <<server, version, users, task>>
      /\ stream' = << >>
  BY DEF ListAndWatch, Watch
<1>2. PICK ns \in inSomeOrder(DOMAIN listed \cup DOMAIN cache, listed) : events' = events \o ns
  BY DEF ListAndWatch
<1>3. DOMAIN listed \subseteq DOMAIN server /\ \A k \in DOMAIN listed : listed[k] = server[k]
  BY DEF List
<1>4. /\ IsFiniteSet(DOMAIN listed) /\ IsFiniteSet(DOMAIN listed \cup DOMAIN cache)
      /\ DOMAIN listed \cup DOMAIN cache \subseteq Keys
  BY <1>3, FS_Subset, FS_Union DEF IsServer, TrueCopy
<1>5. \A k \in DOMAIN listed : TrueCopy([key |-> k, obj |-> listed[k]], server, version)
  BY <1>3 DEF TrueCopy, IsServer
<1> HIDE DEF listed
<1>6. TrueCopies(ns, server, version)
  BY <1>4, <1>5, SomeOrderTrue
<1>7. TrueCopies(events', server, version)
  BY <1>2, <1>6, ConcatTrue
<1>8. TrueCopies(stream', server, version)
  BY <1>1, NoCopies
<1> QED
  BY <1>1, <1>4, <1>5, <1>7, <1>8, HeldStep DEF users

LEMMA ResyncStep ==
  ASSUME CrdInv, InformerResync
  PROVE  CrdInv'
<1>1. PICK ns \in inSomeOrder(DOMAIN cache, cache) : events' = ns
  BY DEF InformerResync
<1>2. TrueCopies(ns, server, version)
  BY SomeOrderTrue DEF TrueCopy
<1> QED
  BY <1>1, <1>2, HeldStep DEF InformerResync, resources, users

LEMMA DeliverStep ==
  ASSUME CrdInv, Deliver
  PROVE  CrdInv'
<1> DEFINE change == Head(stream)
<1>1. TrueCopy(change, server, version) /\ TrueCopies(stream', server, version)
  BY HeadTailTrue DEF Deliver
<1>2. TrueCopies(events', server, version)
  BY <1>1, AppendTrue DEF Deliver
<1>3. \/ cache' = cache
      \/ cache' = RemoveKeys(cache, {change.key})
      \/ cache' = Put(cache, change.key, change.obj)
  BY DEF Deliver
<1>4. IsFiniteSet(DOMAIN cache')
  BY <1>3, PutFinite, RemoveKeysFinite
<1>5. \A k \in DOMAIN cache' : TrueCopy([key |-> k, obj |-> cache'[k]], server, version)
  <2>1. TrueCopy([key |-> change.key, obj |-> change.obj], server, version)
    BY <1>1 DEF TrueCopy
  <2> HIDE DEF change
  <2> QED
    BY <1>3, <2>1 DEF Put, RemoveKeys
<1> QED
  BY <1>1, <1>2, <1>4, <1>5, HeldStep DEF Deliver, users

LEMMA ReflectStep ==
  ASSUME CrdInv, Reflect \/ ReflectFails \/ ReflectDeleted
  PROVE  CrdInv'
<1> DEFINE change == Head(events)
<1>1. /\ events # << >>
      /\ UNCHANGED <<resources, users, cache>>
      /\ events' = events \/ events' = Tail(events)
      /\ \/ task' = task
         \/ /\ change.obj # Gone
            /\ \E err : task' = [key |-> change.key, obj |-> change.obj, err |-> err]
  BY DEF Reflect, ReflectFails, ReflectDeleted
<1>2. TrueCopy(change, server, version) /\ TrueCopies(events', server, version)
  BY <1>1, HeadTailTrue
<1>3. task' # NoTask => task'.obj # Gone /\ TrueCopy(task', server, version)
  BY <1>1, <1>2 DEF TrueCopy
<1> QED
  BY <1>1, <1>2, <1>3, HeldStep DEF resources, users

\* A status is published with a true copy.
LEMMA PublishStep ==
  ASSUME CrdInv, PublishCrdStatus \/ PublishFails
  PROVE  CrdInv'
<1> DEFINE k == task.key
           obj == withStatus(task.key, task.obj, task.err)
<1>1. /\ task # NoTask
      /\ PutObject(k, obj) \/ UNCHANGED resources
      /\ task' = NoTask
      /\ UNCHANGED <<intent, cache, events>>
  BY DEF PublishCrdStatus, PublishFails, sendStatus, users
<1>2. IsObject(obj) /\ IsReported(obj) /\ obj.rv = task.obj.rv /\ obj.spec = task.obj.spec
  <2> DEFINE s == IF task.err = "" THEN StatusSuccess ELSE StatusFailure
             m == IF task.err = "" THEN DeepCopy(task.obj).message ELSE task.err
  <2>1. obj = [DeepCopy(task.obj) EXCEPT !.status = s, !.message = m]
    BY DEF withStatus
  <2>3. s \in {StatusSuccess, StatusFailure} /\ (s = StatusFailure => m # "")
    BY DEF StatusSuccess, StatusFailure
  <2> HIDE DEF obj, s, m
  <2>2. obj = [rv |-> task.obj.rv, spec |-> task.obj.spec, status |-> s, message |-> m]
    BY <2>1 DEF DeepCopy
  <2> QED
    BY <2>2, <2>3 DEF IsObject, IsReported
<1>3. /\ k \in Keys
      /\ k \in DOMAIN server /\ server[k].rv = obj.rv => server[k].spec = obj.spec
  BY <1>1, <1>2 DEF TrueCopy
<1> HIDE DEF k, obj
<1>4. ServerStep /\ UserDataKept'
  <2>1. CASE PutObject(k, obj) /\ accepted(k, obj) /\ obj # server[k]
    <3>1. Store(k, obj)
      BY <1>1, <2>1 DEF PutObject
    <3>2. /\ ServerStep
          /\ DOMAIN server' = DOMAIN server \cup {k}
          /\ server'[k].spec = obj.spec
          /\ \A x \in DOMAIN server \ {k} : server'[x] = server[x]
      BY <1>2, <1>3, <3>1, StoreStep
    <3> QED
      BY <1>1, <1>3, <2>1, <3>2 DEF accepted, UserDataKept
  <2>2. CASE UNCHANGED resources \/ ~(accepted(k, obj) /\ obj # server[k])
    <3>1. UNCHANGED resources
      BY <1>1, <2>2 DEF PutObject
    <3> QED
      BY <1>1, <3>1, SameServer DEF UserDataKept, resources
  <2> QED
    BY <1>1, <2>1, <2>2
<1>5. version \in Nat /\ Advances(server, version, server', version')
  BY <1>4 DEF IsServer, ServerStep
<1>6. TrueCopies(events', server', version')
  BY <1>1, <1>5, CopiesStayTrue
<1>7. CacheTrue'
  BY <1>1, <1>5, CopyStaysTrue
<1> QED
  BY <1>1, <1>4, <1>6, <1>7 DEF ServerStep

-----------------------------------------------------------------------------
\* The invariant is inductive.
LEMMA CrdStep == CrdInv /\ [Next]_vars => CrdInv'
<1> SUFFICES ASSUME CrdInv, [Next]_vars
             PROVE  CrdInv'
  OBVIOUS
<1>1. CASE PluginInit \/ PluginInitFails \/ onEtcdConnect \/ onEtcdConnectFails \/ Restart
  <2>1. UNCHANGED <<resources, users, memory>>
    BY <1>1 DEF PluginInit, PluginInitFails, onEtcdConnect, onEtcdConnectFails, Restart
  <2> QED
    BY <2>1, SilentStep
<1>2. CASE UNCHANGED vars
  BY <1>2, SilentStep DEF vars
<1>3. CASE Users
  BY <1>3, UsersStep
<1>4. CASE ListAndWatch
  BY <1>4, ListAndWatchStep
<1>5. CASE Deliver
  BY <1>5, DeliverStep
<1>6. CASE Reflect \/ ReflectFails \/ ReflectDeleted
  BY <1>6, ReflectStep
<1>7. CASE PublishCrdStatus \/ PublishFails
  BY <1>7, PublishStep
<1>8. CASE Sweep
  BY <1>8, SweepStep
<1>9. CASE InformerResync
  BY <1>9, ResyncStep
<1>10. CASE Close
  BY <1>10, CloseStep
<1>11. CASE WatchBreaks
  BY <1>11, WatchBreaksStep
<1> HIDE DEF CrdInv
<1> QED
  BY <1>1, <1>2, <1>3, <1>4, <1>5, <1>6, <1>7, <1>8, <1>9, <1>10, <1>11
     DEF Next, Controller

\* No status that PublishCrdStatus publishes overwrites the spec of a user or
\* brings a deleted resource back, in any number of steps.
THEOREM CrdUserDataKept == Spec => []UserDataKept
<1>1. CrdInv => UserDataKept
  OBVIOUS
<1> HIDE DEF CrdInv
<1> QED
  BY <1>1, CrdInit, CrdStep, PTL DEF Spec

-----------------------------------------------------------------------------
(* Types. *)

WatchTypes == watching \in BOOLEAN /\ (stream # << >> => watching)

\* What the types say of the controller, apart from the copies it holds.
ControlTypes ==
  /\ WatchTypes
  /\ phase \in {"new", "waiting", "idle", "running", "closed"}
  /\ DOMAIN reflected \subseteq Keys
  /\ swept \in BOOLEAN /\ unpublished \subseteq Keys
  /\ \A x \in DOMAIN kvdb : x[1] = CrdKeyPrefix
  /\ writes \in 0..MaxWrites /\ faults \in 0..MaxFaults

CrdTypes == CrdInv /\ ControlTypes

LEMMA CrdTypesHold == CrdTypes => TypeOK
<1> SUFFICES ASSUME CrdTypes PROVE TypeOK
  OBVIOUS
<1>1. /\ DOMAIN server \subseteq Keys /\ DOMAIN intent \subseteq Keys
      /\ \A k \in DOMAIN server : server[k].rv \in 1..version /\ IsReported(server[k])
  BY DEF CrdTypes, UserDataKept, IsServer
<1>2. DOMAIN cache \subseteq Keys /\ (task = NoTask \/ task.key \in Keys)
  BY DEF CrdTypes, TrueCopy
<1> QED
  BY <1>1, <1>2 DEF CrdTypes, ControlTypes, WatchTypes, IsReported, TypeOK

LEMMA ControlInit == Init => ControlTypes
<1> SUFFICES ASSUME Init PROVE ControlTypes
  OBVIOUS
<1>1. DOMAIN reflected = {} /\ DOMAIN kvdb = {}
  BY DEF Init, Empty
<1>2. writes \in 0..MaxWrites /\ faults \in 0..MaxFaults
  BY FaultsAssumption, WritesAssumption DEF Init, InitServer
<1> QED
  BY <1>1, <1>2 DEF Init, InitServer, ControlTypes, WatchTypes

LEMMA WatchKept ==
  ASSUME WatchTypes,
         UNCHANGED resources \/ \E changes : Notify(changes)
  PROVE  WatchTypes'
  BY DEF WatchTypes, Notify, resources

LEMMA FaultCounted ==
  ASSUME NEW F, Fail(F), faults \in 0..MaxFaults
  PROVE  faults' \in 0..MaxFaults
  BY FaultsAssumption DEF Fail

\* Whatever is written or removed, the KVDB keeps to the prefix of the plugin.
LEMMA PrefixKept ==
  ASSUME NEW db, \A x \in DOMAIN db : x[1] = CrdKeyPrefix,
         NEW spec, NEW data \in SUBSET kvData(spec), NEW S
  PROVE  /\ \A x \in DOMAIN put(db, data) : x[1] = CrdKeyPrefix
         /\ \A x \in DOMAIN RemoveKeys(db, S) : x[1] = CrdKeyPrefix
<1>1. \A d \in data : d.key[1] = CrdKeyPrefix
  BY DEF kvData
<1> QED
  BY <1>1 DEF put, RemoveKeys

LEMMA UsersControl ==
  ASSUME ControlTypes, Users
  PROVE  ControlTypes'
<1> DEFINE Asked == /\ \E i : UserWrites(i)
                    /\ UNCHANGED resources \/ \E changes : Notify(changes)
<1>1. ASSUME NEW k, NEW spec, Create(k, spec) PROVE Asked
  BY <1>1 DEF Create, Store
<1>2. ASSUME NEW k, NEW spec, Update(k, spec) PROVE Asked
  BY <1>2 DEF Update, PutObject, Store
<1>3. ASSUME NEW k, NEW spec, Patch(k, spec) PROVE Asked
  BY <1>3 DEF Patch, Store
<1>4. ASSUME NEW k, Delete(k) PROVE Asked
  BY <1>4 DEF Delete, Remove
<1>5. ASSUME NEW ns, DeleteCollection(ns) PROVE Asked
  BY <1>5 DEF DeleteCollection, Remove
<1>6. Asked
  <2> HIDE DEF Asked
  <2> QED
    BY <1>1, <1>2, <1>3, <1>4, <1>5 DEF Users, UserNext
<1>7. WatchTypes'
  BY <1>6, WatchKept DEF ControlTypes
<1>8. writes' \in 0..MaxWrites
  BY <1>6, WritesAssumption DEF ControlTypes, UserWrites
<1> QED
  BY <1>7, <1>8 DEF ControlTypes, Users, memory

LEMMA InformerControl ==
  ASSUME ControlTypes, ListAndWatch \/ Deliver \/ InformerResync \/ WatchBreaks
  PROVE  ControlTypes'
<1>1. WatchTypes'
  BY DEF ControlTypes, WatchTypes, ListAndWatch, Watch, Deliver, InformerResync, WatchBreaks,
         WatchEnds, resources
<1>2. UNCHANGED <<phase, reflected, swept, unpublished, kvdb, writes>>
  BY DEF ListAndWatch, Deliver, InformerResync, WatchBreaks, users, memory
<1>3. faults' \in 0..MaxFaults
  BY FaultCounted DEF ControlTypes, ListAndWatch, Deliver, InformerResync, WatchBreaks
<1> QED
  BY <1>1, <1>2, <1>3 DEF ControlTypes

LEMMA LifeControl ==
  ASSUME ControlTypes,
         PluginInit \/ PluginInitFails \/ onEtcdConnect \/ onEtcdConnectFails \/ Close \/ Restart
  PROVE  ControlTypes'
<1>1. WatchTypes'
  BY DEF ControlTypes, WatchTypes, PluginInit, PluginInitFails, onEtcdConnect, onEtcdConnectFails,
         Close, Restart, WatchEnds, resources
<1>2. /\ UNCHANGED <<unpublished, kvdb, writes>>
      /\ DOMAIN reflected' \subseteq Keys /\ swept' \in BOOLEAN
      /\ phase' \in {"new", "waiting", "idle", "running", "closed"}
  BY DEF ControlTypes, PluginInit, PluginInitFails, onEtcdConnect, onEtcdConnectFails, Close,
         Restart, users, memory, Empty
<1>3. faults' \in 0..MaxFaults
  BY FaultCounted DEF ControlTypes, PluginInit, PluginInitFails, onEtcdConnect,
     onEtcdConnectFails, Close, Restart
<1> QED
  BY <1>1, <1>2, <1>3 DEF ControlTypes

LEMMA ReflectorControl ==
  ASSUME CrdInv, ControlTypes, Reflect \/ ReflectFails \/ ReflectDeleted
  PROVE  ControlTypes'
<1> DEFINE change == Head(events)
           spec == change.obj.spec
<1>1. /\ events # << >>
      /\ UNCHANGED <<resources, phase, swept, unpublished, writes>>
  BY DEF Reflect, ReflectFails, ReflectDeleted, users
<1>2. change.key \in Keys
  BY <1>1, HeadTailTrue DEF TrueCopy
<1>3. /\ \A x \in DOMAIN kvdb' : x[1] = CrdKeyPrefix
      /\ DOMAIN reflected' \subseteq Keys
  <2>1. CASE ReflectDeleted
    BY <2>1 DEF ReflectDeleted, RemoveKeys, ControlTypes
  <2>2. CASE Reflect
    <3> DEFINE keys == {d.key : d \in kvData(spec)}
    <3>1. \/ UNCHANGED <<kvdb, reflected>>
          \/ /\ kvdb' = put(RemoveKeys(kvdb, writtenFor(change.key) \ keys), kvData(spec))
             /\ reflected' = Put(reflected, change.key, keys)
      BY <2>2 DEF Reflect, CrdObjectToKVData
    <3>2. DOMAIN Put(reflected, change.key, keys) \subseteq Keys
      BY <1>2 DEF Put, ControlTypes
    <3> HIDE DEF keys, change
    <3> QED
      BY <3>1, <3>2, PrefixKept DEF ControlTypes
  <2>3. CASE ReflectFails
    <3>1. PICK done \in SUBSET kvData(spec) :
            /\ kvdb' = put(kvdb, done)
            /\ reflected' = Put(reflected, change.key,
                                writtenFor(change.key) \cup {d.key : d \in done})
      BY <2>3 DEF ReflectFails, CrdObjectToKVData
    <3>2. DOMAIN reflected' \subseteq Keys
      BY <3>1, <1>2 DEF Put, ControlTypes
    <3> HIDE DEF change
    <3> QED
      BY <3>1, <3>2, PrefixKept DEF ControlTypes
  <2> QED
    BY <2>1, <2>2, <2>3
<1>4. faults' \in 0..MaxFaults
  BY FaultCounted DEF ControlTypes, Reflect, ReflectFails, ReflectDeleted
<1> QED
  BY <1>1, <1>3, <1>4 DEF ControlTypes, WatchTypes, resources

LEMMA PublishControl ==
  ASSUME CrdInv, ControlTypes, PublishCrdStatus \/ PublishFails \/ Sweep
  PROVE  ControlTypes'
<1>1. CASE PublishCrdStatus \/ PublishFails
  <2>1. UNCHANGED resources \/ \E changes : Notify(changes)
    BY <1>1 DEF PublishCrdStatus, PublishFails, sendStatus, PutObject, Store
  <2>2. WatchTypes'
    BY <2>1, WatchKept DEF ControlTypes
  <2>3. faults' \in 0..MaxFaults
    BY <1>1, FaultCounted DEF ControlTypes, PublishCrdStatus, PublishFails
  <2>4. unpublished' \subseteq Keys
    <3>1. task.key \in Keys
      BY <1>1 DEF PublishCrdStatus, PublishFails, TrueCopy
    <3> QED
      BY <1>1, <3>1 DEF ControlTypes, PublishCrdStatus, PublishFails, sendStatus
  <2> QED
    BY <1>1, <2>2, <2>3, <2>4 DEF ControlTypes, PublishCrdStatus, PublishFails, users
<1>2. CASE Sweep
  BY <1>2 DEF ControlTypes, WatchTypes, Sweep, RemoveKeys, resources, users
<1> QED
  BY <1>1, <1>2

LEMMA CrdTypesStep == CrdTypes /\ [Next]_vars => CrdTypes'
<1> SUFFICES ASSUME CrdTypes, [Next]_vars PROVE CrdTypes'
  OBVIOUS
<1>1. CrdInv /\ ControlTypes
  BY DEF CrdTypes
<1> HIDE DEF CrdInv
<1>2. CrdInv'
  BY <1>1, CrdStep
<1>3. ControlTypes'
  <2>1. CASE UNCHANGED vars
    BY <1>1, <2>1 DEF ControlTypes, WatchTypes, vars, resources, users, memory
  <2>2. CASE Next
    BY <1>1, <2>2, UsersControl, InformerControl, LifeControl, ReflectorControl, PublishControl
       DEF Next, Controller
  <2> QED
    BY <2>1, <2>2
<1> QED
  BY <1>2, <1>3 DEF CrdTypes

\* Types: every copy that the informer and the reflector hold is one of a
\* resource of the watched kind, the controller writes the KVDB below its own
\* prefix only (CrdKeyPrefix), and a resource that is marked as failed always
\* has a message (PublishCrdStatus), whatever happens to it in between.
THEOREM CrdTypeOK == Spec => []TypeOK
<1> HIDE DEF CrdInv
<1>1. Init => CrdTypes
  BY CrdInit, ControlInit DEF CrdTypes
<1> QED
  BY <1>1, CrdTypesStep, CrdTypesHold, PTL DEF Spec
=============================================================================
