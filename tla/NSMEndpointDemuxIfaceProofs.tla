--------------------- MODULE NSMEndpointDemuxIfaceProofs ---------------------
(***************************************************************************)
(* Over all endpoints of the agent: the interfaces mirror the connections. *)
(* The mirror of one endpoint is proved in NSMConnectionsProofs; here each *)
(* endpoint gets the interfaces whose names it may give, and a method of   *)
(* one endpoint is shown to leave all other interfaces alone.              *)
(***************************************************************************)
EXTENDS NSMEndpointDemuxProofs

-----------------------------------------------------------------------------
(* The interfaces with keys in K. *)

own(K, ifs) == [k \in DOMAIN ifs \cap K |-> ifs[k]]

SameElsewhere(K, ifs, jfs) ==
  \A k : k \notin K => /\ k \in DOMAIN jfs <=> k \in DOMAIN ifs
                       /\ k \in DOMAIN ifs => jfs[k] = ifs[k]

\* What an endpoint sees of the state of the agent.
view(c, t) == [conns |-> t.conns, ifaces |-> own(keysOf(c), t.ifaces)]

\* Configuring an interface.
LEMMA OwnPut ==
  ASSUME NEW ifs, NEW K, NEW k \in K, NEW v
  PROVE  /\ own(K, Put(ifs, k, v)) = Put(own(K, ifs), k, v)
         /\ SameElsewhere(K, ifs, Put(ifs, k, v))
  BY DEF own, Put, SameElsewhere

\* Deleting interfaces.
LEMMA OwnRemove ==
  ASSUME NEW ifs, NEW K, NEW S \in SUBSET K
  PROVE  /\ own(K, RemoveKeys(ifs, S)) = RemoveKeys(own(K, ifs), S)
         /\ SameElsewhere(K, ifs, RemoveKeys(ifs, S))
  BY DEF own, RemoveKeys, SameElsewhere

\* One change after another.
LEMMA ElsewhereTwice ==
  ASSUME NEW K, NEW ifs, NEW jfs, NEW kfs,
         SameElsewhere(K, ifs, jfs), SameElsewhere(K, jfs, kfs)
  PROVE  SameElsewhere(K, ifs, kfs)
  BY DEF SameElsewhere

\* A change elsewhere leaves the own interfaces alone.
LEMMA OwnElsewhere ==
  ASSUME NEW K, NEW L, L \cap K = {}, NEW ifs, NEW jfs, SameElsewhere(K, ifs, jfs)
  PROVE  own(L, jfs) = own(L, ifs)
<1>1. \A k \in L : /\ k \in DOMAIN jfs <=> k \in DOMAIN ifs
                   /\ k \in DOMAIN ifs => jfs[k] = ifs[k]
  BY DEF SameElsewhere
<1>2. DOMAIN jfs \cap L = DOMAIN ifs \cap L
  BY <1>1
<1> QED
  BY <1>1, <1>2 DEF own

-----------------------------------------------------------------------------
(* The methods of an endpoint act on its view and on nothing else. *)

\* closeConnection.
LEMMA CloseView ==
  ASSUME NEW c, NEW t, IsTable(t.conns), NEW conn \in Conn,
         NEW d \in closeConnection(c, t, conn)
  PROVE  /\ view(c, d) \in closeConnection(c, view(c, t), conn)
         /\ SameElsewhere(keysOf(c), t.ifaces, d.ifaces)
<1>1. PICK sent \in {x \in SendOutcomes : mayBuildInterface(c, conn)} :
        d = [conns  |-> connectionsAfterClose(t.conns, conn),
             ifaces |-> ifacesAfterClose(c, t.conns, t.ifaces, conn, sent)]
  BY DEF closeConnection
<1> DEFINE key == interfaceKey(c, t.conns, conn)
<1>2. {key} \in SUBSET keysOf(c)
  BY <1>1, OwnKey DEF mayBuildInterface, canBuildInterface
<1> HIDE DEF key
<1>3. /\ own(keysOf(c), RemoveKeys(t.ifaces, {key})) = RemoveKeys(own(keysOf(c), t.ifaces), {key})
      /\ SameElsewhere(keysOf(c), t.ifaces, RemoveKeys(t.ifaces, {key}))
  BY <1>2, OwnRemove
<1>4. d.ifaces = IF sent THEN RemoveKeys(t.ifaces, {key}) ELSE t.ifaces
  BY <1>1 DEF ifacesAfterClose, key
<1>5. own(keysOf(c), d.ifaces) = ifacesAfterClose(c, t.conns, own(keysOf(c), t.ifaces), conn, sent)
  BY <1>3, <1>4 DEF ifacesAfterClose, key
<1>6. view(c, d) = [conns  |-> connectionsAfterClose(view(c, t).conns, conn),
                    ifaces |-> ifacesAfterClose(c, view(c, t).conns, view(c, t).ifaces, conn, sent)]
  BY <1>1, <1>5 DEF view
<1>7. SameElsewhere(keysOf(c), t.ifaces, d.ifaces)
  BY <1>3, <1>4 DEF SameElsewhere
<1> QED
  BY <1>6, <1>7 DEF closeConnection

\* The start of Request.
LEMMA DuplicateView ==
  ASSUME NEW c, NEW t, IsTable(t.conns), NEW conn \in Conn,
         NEW d \in withoutDuplicate(c, t, conn)
  PROVE  /\ view(c, d) \in withoutDuplicate(c, view(c, t), conn)
         /\ SameElsewhere(keysOf(c), t.ifaces, d.ifaces)
         /\ IsTable(d.conns)
<1>1. isDuplicate(view(c, t), conn) <=> isDuplicate(t, conn)
  BY DEF view, isDuplicate
<1>2. CASE isDuplicate(t, conn)
  <2>1. d \in closeConnection(c, t, conn)
    BY <1>2 DEF withoutDuplicate
  <2>2. IsTable(d.conns)
    BY <2>1, RemoveTable DEF closeConnection, connectionsAfterClose
  <2> QED
    BY <1>1, <1>2, <2>1, <2>2, CloseView DEF withoutDuplicate
<1>3. CASE ~isDuplicate(t, conn)
  BY <1>1, <1>3 DEF withoutDuplicate, SameElsewhere
<1> QED
  BY <1>2, <1>3

\* The end of an accepted Request.
LEMMA AcceptView ==
  ASSUME NEW c, NEW t, IsTable(t.conns), NEW conn \in Conn,
         NEW d \in requestAccepted(c, t, conn)
  PROVE  /\ view(c, d) \in requestAccepted(c, view(c, t), conn)
         /\ SameElsewhere(keysOf(c), t.ifaces, d.ifaces)
<1>1. PICK e \in {x \in withoutDuplicate(c, t, conn) :
                    ~isOccupied(c, x.conns) /\ mayBuildInterface(c, conn)},
           sent \in SendOutcomes :
        d = [conns  |-> connectionsAfterOpen(c, e.conns, conn),
             ifaces |-> ifacesAfterOpen(c, e.conns, e.ifaces, conn, sent)]
  BY DEF requestAccepted
<1> DEFINE key == interfaceKey(c, e.conns, conn)
           v == interfaceValue(c, conn)
<1>3. /\ view(c, e) \in withoutDuplicate(c, view(c, t), conn)
      /\ SameElsewhere(keysOf(c), t.ifaces, e.ifaces)
      /\ IsTable(e.conns)
  BY DuplicateView
<1>2. key \in keysOf(c)
  BY <1>1, <1>3, OwnKey DEF mayBuildInterface, canBuildInterface
<1>4. d.ifaces = IF sent THEN Put(e.ifaces, key, v) ELSE e.ifaces
  BY <1>1 DEF ifacesAfterOpen
<1>5. own(keysOf(c), d.ifaces) = IF sent THEN Put(own(keysOf(c), e.ifaces), key, v)
                                        ELSE own(keysOf(c), e.ifaces)
  <2> HIDE DEF key, v
  <2> QED
    BY <1>2, <1>4, OwnPut
<1>6. SameElsewhere(keysOf(c), e.ifaces, d.ifaces)
  <2> HIDE DEF key, v
  <2>1. SameElsewhere(keysOf(c), e.ifaces, Put(e.ifaces, key, v))
    BY <1>2, OwnPut
  <2> QED
    BY <1>4, <2>1 DEF SameElsewhere
<1>7. view(c, d) = [conns  |-> connectionsAfterOpen(c, view(c, e).conns, conn),
                    ifaces |-> ifacesAfterOpen(c, view(c, e).conns, view(c, e).ifaces, conn, sent)]
  BY <1>1, <1>5 DEF view, ifacesAfterOpen
<1>8. ~isOccupied(c, view(c, e).conns) /\ mayBuildInterface(c, conn)
  BY DEF view
<1>9. view(c, d) \in requestAccepted(c, view(c, t), conn)
  BY <1>3, <1>7, <1>8 DEF requestAccepted
<1> QED
  BY <1>3, <1>6, <1>9, ElsewhereTwice

\* CloseConnections.
LEMMA ClosingView ==
  ASSUME NEW c, NEW t, IsTable(t.conns), StoredRequests(c, t.conns),
         NEW closed \in SUBSET DOMAIN t.conns, NEW d \in afterClosing(c, t, closed)
  PROVE  /\ view(c, d) \in afterClosing(c, view(c, t), closed)
         /\ SameElsewhere(keysOf(c), t.ifaces, d.ifaces)
<1>1. PICK lost \in {x \in SUBSET closed : /\ x # {} => FALSE \in SendOutcomes
                                           /\ x # closed => TRUE \in SendOutcomes} :
        d = [conns  |-> RemoveKeys(t.conns, closed),
             ifaces |-> RemoveKeys(t.ifaces, {keyOf(c, t.conns, id) : id \in closed \ lost})]
  BY DEF afterClosing
<1> DEFINE keys == {keyOf(c, t.conns, id) : id \in closed \ lost}
<1>2. keys \in SUBSET keysOf(c)
  <2>1. ASSUME NEW id \in DOMAIN t.conns
        PROVE  keyOf(c, t.conns, id) \in keysOf(c)
    <3>1. t.conns[id].conn \in Conn
      BY DEF IsTable, Entry
    <3>2. c.suffixFromLabel => t.conns[id].conn.label # NoLabel
      BY DEF StoredRequests
    <3> QED
      BY <3>1, <3>2, OwnKey DEF keyOf
  <2> QED
    BY <2>1
<1>3. d.conns = RemoveKeys(t.conns, closed) /\ d.ifaces = RemoveKeys(t.ifaces, keys)
  BY <1>1
<1>4. /\ own(keysOf(c), d.ifaces) = RemoveKeys(own(keysOf(c), t.ifaces), keys)
      /\ SameElsewhere(keysOf(c), t.ifaces, d.ifaces)
  <2> HIDE DEF keys
  <2> QED
    BY <1>2, <1>3, OwnRemove
<1>5. view(c, d) = [conns  |-> RemoveKeys(view(c, t).conns, closed),
                    ifaces |-> RemoveKeys(view(c, t).ifaces,
                                 {keyOf(c, view(c, t).conns, id) : id \in closed \ lost})]
  BY <1>3, <1>4 DEF view
<1> QED
  BY <1>4, <1>5 DEF afterClosing

-----------------------------------------------------------------------------
(* All endpoints. *)

\* Every endpoint of the map was configured for its service.
Configured(eps) ==
  \A ns \in DOMAIN eps : \E v \in Values : v.service = ns /\ v.cfg = eps[ns].cfg

\* Every endpoint is in step with the interfaces it may name, and every
\* interface is one that an endpoint may name.
Mirrored(ep, ifs) ==
  MirrorInv(ep.cfg, view(ep.cfg, [conns |-> ep.conns, ifaces |-> ifs]))

AllMirrored(eps, ifs) ==
  /\ \A ns \in DOMAIN eps : Mirrored(eps[ns], ifs)
  /\ \A k \in DOMAIN ifs : \E ns \in DOMAIN eps : k \in keysOf(eps[ns].cfg)

\* No two endpoints can give the same name.
LEMMA KeysOfEndpoints ==
  ASSUME KeysApart, NEW eps, Configured(eps),
         NEW a \in DOMAIN eps, NEW b \in DOMAIN eps, a # b
  PROVE  keysOf(eps[a].cfg) \cap keysOf(eps[b].cfg) = {}
<1>1. PICK v \in Values : v.service = a /\ v.cfg = eps[a].cfg
  BY DEF Configured
<1>2. PICK w \in Values : w.service = b /\ w.cfg = eps[b].cfg
  BY DEF Configured
<1> QED
  BY <1>1, <1>2 DEF KeysApart

\* A change of interfaces that an endpoint cannot name does not concern it.
LEMMA MirroredElsewhere ==
  ASSUME NEW ep, NEW K, NEW ifs, NEW jfs, SameElsewhere(K, ifs, jfs),
         keysOf(ep.cfg) \cap K = {}, Mirrored(ep, ifs)
  PROVE  Mirrored(ep, jfs)
<1>1. own(keysOf(ep.cfg), jfs) = own(keysOf(ep.cfg), ifs)
  BY OwnElsewhere
<1>2. view(ep.cfg, [conns |-> ep.conns, ifaces |-> jfs]) =
      view(ep.cfg, [conns |-> ep.conns, ifaces |-> ifs])
  BY <1>1 DEF view
<1> QED
  BY <1>2 DEF Mirrored

\* One endpoint changes, in step with the interfaces it may name.
LEMMA UpdateMirrored ==
  ASSUME KeysApart, NEW eps, NEW ifs, AllMirrored(eps, ifs), Configured(eps),
         NEW ns \in DOMAIN eps, NEW fps, DOMAIN fps = DOMAIN eps,
         \A o \in DOMAIN eps : o # ns => fps[o] = eps[o],
         fps[ns].cfg = eps[ns].cfg,
         NEW jfs, SameElsewhere(keysOf(eps[ns].cfg), ifs, jfs),
         Mirrored(fps[ns], jfs)
  PROVE  AllMirrored(fps, jfs)
<1> DEFINE K == keysOf(eps[ns].cfg)
<1>1. ASSUME NEW o \in DOMAIN eps, o # ns
      PROVE  Mirrored(fps[o], jfs)
  <2>1. keysOf(eps[o].cfg) \cap K = {}
    BY <1>1, KeysOfEndpoints
  <2>2. Mirrored(eps[o], ifs)
    BY DEF AllMirrored
  <2> QED
    BY <1>1, <2>1, <2>2, MirroredElsewhere
<1>2. ASSUME NEW k \in DOMAIN jfs
      PROVE  \E o \in DOMAIN fps : k \in keysOf(fps[o].cfg)
  <2>1. CASE k \in K
    BY <2>1
  <2>2. CASE k \notin K
    <3>1. PICK o \in DOMAIN eps : k \in keysOf(eps[o].cfg)
      BY <2>2 DEF AllMirrored, SameElsewhere
    <3> QED
      BY <2>2, <3>1
  <2> QED
    BY <2>1, <2>2
<1> QED
  BY <1>1, <1>2 DEF AllMirrored

\* An endpoint without connections is added, for a service that has none.
LEMMA AddMirrored ==
  ASSUME KeysApart, NEW eps, NEW ifs, AllMirrored(eps, ifs), Configured(eps),
         NEW ns, ns \notin DOMAIN eps, NEW v \in Values, v.service = ns,
         NEW ep, ep.cfg = v.cfg, ep.conns = Empty
  PROVE  AllMirrored(Put(eps, ns, ep), ifs) /\ Configured(Put(eps, ns, ep))
<1> DEFINE fps == Put(eps, ns, ep)
<1>1. /\ DOMAIN fps = DOMAIN eps \cup {ns} /\ fps[ns] = ep
      /\ \A o \in DOMAIN eps : fps[o] = eps[o]
  BY DEF Put
<1> HIDE DEF fps
<1>2. Configured(fps)
  BY <1>1 DEF Configured
<1>3. \A k \in DOMAIN ifs : k \notin keysOf(ep.cfg)
  <2> SUFFICES ASSUME NEW k \in DOMAIN ifs, k \in keysOf(ep.cfg)
               PROVE  FALSE
    OBVIOUS
  <2>1. PICK o \in DOMAIN eps : k \in keysOf(eps[o].cfg)
    BY DEF AllMirrored
  <2>2. o \in DOMAIN fps /\ ns \in DOMAIN fps /\ o # ns
    BY <1>1
  <2>3. keysOf(fps[o].cfg) \cap keysOf(fps[ns].cfg) = {}
    BY <1>2, <2>2, KeysOfEndpoints
  <2> QED
    BY <1>1, <2>1, <2>3
<1>4. Mirrored(ep, ifs)
  <2>1. DOMAIN own(keysOf(ep.cfg), ifs) = {}
    BY <1>3 DEF own
  <2>2. TableInv(ep.cfg, Empty)
    BY DEF Empty, TableInv, IsTable, IndexesDistinct, IndexesBounded, AtMostOneIfSingle
  <2>3. DOMAIN Empty = {}
    BY DEF Empty
  <2> DEFINE t == view(ep.cfg, [conns |-> ep.conns, ifaces |-> ifs])
  <2>4. t.conns = Empty /\ t.ifaces = own(keysOf(ep.cfg), ifs)
    BY DEF view
  <2> HIDE DEF t
  <2>5. MirrorInv(ep.cfg, t)
    BY <2>1, <2>2, <2>3, <2>4 DEF MirrorInv, StoredRequests, HasInterface, NoStray
  <2> QED
    BY <2>5 DEF Mirrored, t
<1>5. AllMirrored(fps, ifs)
  BY <1>1, <1>4 DEF AllMirrored
<1> QED
  BY <1>2, <1>5 DEF fps

\* An endpoint without interfaces is removed.
LEMMA RemoveMirrored ==
  ASSUME KeysApart, NEW eps, NEW ifs, AllMirrored(eps, ifs), Configured(eps),
         NEW ns \in DOMAIN eps, NEW jfs, SameElsewhere(keysOf(eps[ns].cfg), ifs, jfs),
         DOMAIN own(keysOf(eps[ns].cfg), jfs) = {}
  PROVE  AllMirrored(RemoveKeys(eps, {ns}), jfs) /\ Configured(RemoveKeys(eps, {ns}))
<1> DEFINE fps == RemoveKeys(eps, {ns})
           K == keysOf(eps[ns].cfg)
<1>1. DOMAIN fps = DOMAIN eps \ {ns} /\ \A o \in DOMAIN fps : fps[o] = eps[o]
  BY DEF RemoveKeys
<1> HIDE DEF fps
<1>2. Configured(fps)
  BY <1>1 DEF Configured
<1>3. ASSUME NEW o \in DOMAIN fps
      PROVE  Mirrored(fps[o], jfs)
  <2>1. keysOf(eps[o].cfg) \cap K = {}
    BY <1>1, KeysOfEndpoints
  <2>2. Mirrored(eps[o], ifs)
    BY <1>1 DEF AllMirrored
  <2> QED
    BY <1>1, <2>1, <2>2, MirroredElsewhere
<1>4. ASSUME NEW k \in DOMAIN jfs
      PROVE  \E o \in DOMAIN fps : k \in keysOf(fps[o].cfg)
  <2>1. k \notin K
    BY DEF own
  <2>2. k \in DOMAIN ifs
    BY <2>1 DEF SameElsewhere
  <2>3. PICK o \in DOMAIN eps : k \in keysOf(eps[o].cfg)
    BY <2>2 DEF AllMirrored
  <2> QED
    BY <1>1, <2>1, <2>3
<1>5. AllMirrored(fps, jfs)
  BY <1>3, <1>4 DEF AllMirrored
<1> QED
  BY <1>2, <1>5 DEF fps

-----------------------------------------------------------------------------
(* The steps of the demultiplexer. *)

\* DeleteEndpoint does not stop halfway: an endpoint that stayed in the map
\* would be overwritten with its connections.
DeletesWhole == Faults \cap {"close", "remove", "removeReply"} = {}

\* The map holds what was created and not deleted, in step with the interfaces.
InterfacesInv ==
  /\ DOMAIN endpoints = servedServices
  /\ Configured(endpoints)
  /\ AllMirrored(endpoints, ifaces)

\* Request and Close.
LEMMA RoutedMirrored ==
  ASSUME ReliableSends, NamesApart, KeysApart, DemuxTypes, InterfacesInv,
         NEW conn \in Requests, Request(conn) \/ Close(conn)
  PROVE  InterfacesInv'
<1> DEFINE ns == nseName(conn)
           c == endpoints[ns].cfg
           now == tableOf(ns)
<1>1. ns \in DOMAIN endpoints
  BY DEF Request, Close
<1>2. PICK t \in requestAccepted(c, now, conn) \cup requestDeclined(c, now, conn)
                   \cup closeConnection(c, now, conn) : BecomeTable(ns, t)
  BY DEF Request, Close
<1>3. c \in Config /\ MirrorInv(c, view(c, now)) /\ IsTable(now.conns) /\ conn \in Conn
  <2>1. c \in Config
    BY <1>1, TableNow
  <2>2. Mirrored(endpoints[ns], ifaces)
    BY <1>1 DEF InterfacesInv, AllMirrored
  <2>3. MirrorInv(c, view(c, now))
    BY <2>2 DEF Mirrored, tableOf
  <2>4. view(c, now).conns = now.conns
    BY DEF view
  <2>5. conn \in Conn
    BY RequestsAssumption
  <2> QED
    BY <2>1, <2>3, <2>4, <2>5 DEF MirrorInv, TableInv
<1>4. MirrorInv(c, view(c, t)) /\ SameElsewhere(keysOf(c), now.ifaces, t.ifaces)
  <2> HIDE DEF c, now
  <2>1. CASE t \in requestAccepted(c, now, conn)
    BY <1>3, <2>1, AcceptView, AcceptMirror
  <2>2. CASE t \in withoutDuplicate(c, now, conn)
    BY <1>3, <2>2, DuplicateView, DuplicateMirror
  <2>3. CASE t \in closeConnection(c, now, conn)
    BY <1>3, <2>3, CloseView, CloseMirror
  <2> QED
    BY <1>2, <2>1, <2>2, <2>3 DEF requestDeclined
<1>5. now.ifaces = ifaces
  BY DEF tableOf
<1>6. /\ DOMAIN endpoints' = DOMAIN endpoints
      /\ \A o \in DOMAIN endpoints : o # ns => endpoints'[o] = endpoints[o]
      /\ \A o \in DOMAIN endpoints : endpoints'[o].cfg = endpoints[o].cfg
      /\ ifaces' = t.ifaces
  BY <1>1, <1>2, BecomeOne
<1>7. endpoints'[ns].cfg = c /\ endpoints'[ns].conns = t.conns
  <2>1. PICK ep : ep = [name |-> endpoints[ns].name, cfg |-> c, conns |-> t.conns]
    OBVIOUS
  <2>2. ep.cfg = c /\ ep.conns = t.conns
    <3> HIDE DEF c
    <3> QED
      BY <2>1
  <2>3. endpoints'[ns] = ep
    BY <1>1, <1>2, <2>1, BecomeOne
  <2> QED
    BY <2>2, <2>3
<1>8. Mirrored(endpoints'[ns], ifaces')
  <2> HIDE DEF c
  <2> QED
    BY <1>4, <1>6, <1>7 DEF Mirrored, view
<1>9. AllMirrored(endpoints', ifaces')
  BY <1>1, <1>4, <1>5, <1>6, <1>8, UpdateMirrored DEF InterfacesInv
<1>10. Configured(endpoints')
  BY <1>6 DEF InterfacesInv, Configured
<1>11. UNCHANGED <<applied, task>>
  BY DEF Request, Close, Unchanged, scheduled
<1> QED
  BY <1>6, <1>9, <1>10, <1>11 DEF InterfacesInv, servedServices

\* AddEndpoint never overwrites.
LEMMA AddedMirrored ==
  ASSUME KeysApart, DemuxTypes, InterfacesInv, NEW ns \in Services, AddEndpoint(ns)
  PROVE  InterfacesInv'
<1>1. PICK v : v = desired[ns]
  OBVIOUS
<1>2. PICK ep : ep = [name |-> freshName, cfg |-> v.cfg, conns |-> Empty]
  OBVIOUS
<1>3. /\ task = Idle /\ task' = [op |-> "publish", value |-> v] /\ applied' = applied
      /\ endpoints' = Put(endpoints, ns, ep) /\ ifaces' = ifaces
  BY <1>1, <1>2 DEF AddEndpoint, toCreate, endpointsAfterAdd, scheduled
<1>4. v \in Values /\ v.service = ns /\ ns \notin DOMAIN applied
  BY <1>1, AddedEndpoint DEF AddEndpoint
<1>5. DOMAIN endpoints = DOMAIN applied
  BY <1>3 DEF InterfacesInv, servedServices, Idle
<1>6. AllMirrored(endpoints', ifaces') /\ Configured(endpoints')
  BY <1>2, <1>3, <1>4, <1>5, AddMirrored DEF InterfacesInv
<1>7. DOMAIN endpoints' = DOMAIN endpoints \cup {ns}
  BY <1>3 DEF Put
<1>8. servedServices' = DOMAIN applied \cup {ns}
  BY <1>3, <1>4 DEF servedServices
<1> QED
  BY <1>5, <1>6, <1>7, <1>8 DEF InterfacesInv

\* DeleteEndpoint closes all connections, so no interface is left.
LEMMA DeletedMirrored ==
  ASSUME ReliableSends, NamesApart, KeysApart, DemuxTypes, InterfacesInv,
         NEW ns \in Services, DeleteEndpoint(ns)
  PROVE  InterfacesInv'
<1> DEFINE c == endpoints[ns].cfg
           now == tableOf(ns)
<1>1. /\ task = Idle /\ ns \in DOMAIN applied /\ applied' = applied
      /\ task' = [op |-> "unpublish", value |-> applied[ns]]
      /\ endpoints' = RemoveKeys(endpoints, {ns})
  BY DEF DeleteEndpoint, toDelete, scheduled
<1>2. applied[ns].service = ns
  BY <1>1 DEF DemuxTypes, AppliedTypes
<1>3. DOMAIN endpoints = DOMAIN applied
  BY <1>1 DEF InterfacesInv, servedServices, Idle
<1>4. PICK t \in afterClosing(c, now, DOMAIN now.conns) : ifaces' = t.ifaces
  BY DEF DeleteEndpoint, closedForDelete, allClosed
<1>5. c \in Config /\ MirrorInv(c, view(c, now)) /\ now.ifaces = ifaces
  <2>1. Mirrored(endpoints[ns], ifaces)
    BY <1>1, <1>3 DEF InterfacesInv, AllMirrored
  <2>2. c \in Config
    BY <1>1, <1>3, TableNow
  <2> QED
    BY <2>1, <2>2 DEF Mirrored, tableOf
<1>6. MirrorInv(c, view(c, t)) /\ SameElsewhere(keysOf(c), now.ifaces, t.ifaces)
  <2> HIDE DEF c, now
  <2>1. view(c, now).conns = now.conns
    BY DEF view
  <2>2. IsTable(now.conns) /\ StoredRequests(c, now.conns)
    BY <1>5, <2>1 DEF MirrorInv, TableInv
  <2> QED
    BY <1>4, <1>5, <2>1, <2>2, ClosingView, ClosingMirror
<1>7. DOMAIN own(keysOf(c), ifaces') = {}
  <2> HIDE DEF c, now
  <2>1. PICK keys : t = [conns  |-> RemoveKeys(now.conns, DOMAIN now.conns),
                         ifaces |-> RemoveKeys(now.ifaces, keys)]
    BY <1>4 DEF afterClosing
  <2>2. t.conns = RemoveKeys(now.conns, DOMAIN now.conns)
    BY <2>1
  <2>3. DOMAIN t.conns = {}
    BY <2>2 DEF RemoveKeys
  <2>4. view(c, t).conns = t.conns /\ view(c, t).ifaces = own(keysOf(c), t.ifaces)
    BY DEF view
  <2> QED
    BY <1>4, <1>6, <2>3, <2>4 DEF MirrorInv, NoStray
<1>8. AllMirrored(endpoints', ifaces') /\ Configured(endpoints')
  BY <1>1, <1>3, <1>4, <1>5, <1>6, <1>7, RemoveMirrored DEF InterfacesInv
<1>9. DOMAIN endpoints' = DOMAIN endpoints \ {ns}
  BY <1>1 DEF RemoveKeys
<1>10. servedServices' = DOMAIN applied \ {ns}
  BY <1>1, <1>2 DEF servedServices
<1> QED
  BY <1>3, <1>8, <1>9, <1>10 DEF InterfacesInv

\* Every step.
LEMMA InterfacesStep ==
  ASSUME ReliableSends, NamesApart, KeysApart, DeletesWhole,
         DemuxTypes, InterfacesInv, [Next]_vars
  PROVE  InterfacesInv'
<1>1. CASE Publish
  <2>1. /\ task.op = "publish" /\ task' = Idle
        /\ applied' = Put(applied, task.value.service, task.value)
        /\ UNCHANGED <<endpoints, ifaces>>
    BY <1>1 DEF Publish, tables
  <2>2. servedServices' = servedServices
    BY <2>1 DEF servedServices, Put, Idle
  <2> QED
    BY <2>1, <2>2 DEF InterfacesInv
<1>2. CASE Unpublish
  <2>1. /\ task.op = "unpublish" /\ task' = Idle
        /\ applied' = RemoveKeys(applied, {task.value.service})
        /\ UNCHANGED <<endpoints, ifaces>>
    BY <1>2 DEF Unpublish, tables
  <2>2. servedServices' = servedServices
    BY <2>1 DEF servedServices, RemoveKeys, Idle
  <2> QED
    BY <2>1, <2>2 DEF InterfacesInv
<1>3. CASE Restart
  <2>1. task' = Idle /\ applied' = Empty /\ endpoints' = Empty /\ ifaces' = Empty
    BY <1>3 DEF Restart, knownAtStart, endpointDescr, NewNSMEndpointDescriptor,
                typedEndpointDescr
  <2>2. DOMAIN endpoints' = {} /\ DOMAIN ifaces' = {} /\ servedServices' = {}
    BY <2>1 DEF Empty, servedServices, Idle
  <2> QED
    BY <2>2 DEF InterfacesInv, Configured, AllMirrored
<1>4. CASE UNCHANGED <<endpoints, ifaces, applied, task>>
  BY <1>4 DEF InterfacesInv, servedServices
<1>5. ASSUME NEW ns \in Services
      PROVE  ~DeleteEndpointNotClosed(ns) /\ ~DeleteEndpointNotRemoved(ns)
  BY DEF DeleteEndpointNotClosed, DeleteEndpointNotRemoved, Fail, DeletesWhole
<1> QED
  BY <1>1, <1>2, <1>3, <1>4, <1>5, RoutedMirrored, AddedMirrored, DeletedMirrored
     DEF Next, Scheduler, scheduled, tables, AddEndpointNotStarted,
         AddEndpointNotRegistered, Configure, NotRouted, LeaseExpires, vars

\* The invariant contains the property.
LEMMA InterfacesImply ==
  ASSUME NamesApart, KeysApart, DemuxTypes, InterfacesInv
  PROVE  InterfacesMatch
<1> DEFINE eps == endpoints
           open == {o \in Services \X ConnIds : o[1] \in DOMAIN eps /\ o[2] \in DOMAIN eps[o[1]].conns}
           key(o) == keyOf(eps[o[1]].cfg, eps[o[1]].conns, o[2])
<1>1. ASSUME NEW ns \in DOMAIN eps
      PROVE  /\ ns \in Services /\ eps[ns].cfg \in Config
             /\ TableInv(eps[ns].cfg, eps[ns].conns)
             /\ DOMAIN eps[ns].conns \subseteq ConnIds
             /\ StoredRequests(eps[ns].cfg, eps[ns].conns)
             /\ HasInterface(eps[ns].cfg, [conns |-> eps[ns].conns,
                                           ifaces |-> own(keysOf(eps[ns].cfg), ifaces)])
             /\ NoStray(eps[ns].cfg, [conns |-> eps[ns].conns,
                                      ifaces |-> own(keysOf(eps[ns].cfg), ifaces)])
  <2>1. Mirrored(eps[ns], ifaces)
    BY DEF InterfacesInv, AllMirrored
  <2>2. MirrorInv(eps[ns].cfg, [conns |-> eps[ns].conns,
                                ifaces |-> own(keysOf(eps[ns].cfg), ifaces)])
    BY <2>1 DEF Mirrored, view
  <2>3. ns \in Services /\ eps[ns].cfg \in Config
    BY DEF DemuxTypes, EndpointTypes, IsEndpoint
  <2> QED
    BY <2>2, <2>3 DEF MirrorInv, TableInv, IsTable
<1>2. ASSUME NEW o \in open
      PROVE  /\ o[1] \in DOMAIN eps /\ o[2] \in DOMAIN eps[o[1]].conns
             /\ key(o) = entryKey(eps[o[1]].cfg, eps[o[1]].conns[o[2]])
             /\ key(o) \in keysOf(eps[o[1]].cfg)
  <2>1. o[1] \in DOMAIN eps /\ o[2] \in DOMAIN eps[o[1]].conns
    OBVIOUS
  <2>2. IsTable(eps[o[1]].conns)
    BY <1>1, <2>1 DEF TableInv
  <2>3. keyOf(eps[o[1]].cfg, eps[o[1]].conns, o[2]) =
          entryKey(eps[o[1]].cfg, eps[o[1]].conns[o[2]])
    BY <2>1, <2>2, KeyOfStored DEF entryKey
  <2>4. keyOf(eps[o[1]].cfg, eps[o[1]].conns, o[2]) \in keysOf(eps[o[1]].cfg)
    <3>1. eps[o[1]].conns[o[2]].conn \in Conn
      BY <2>1, <2>2 DEF IsTable, Entry
    <3>2. eps[o[1]].cfg.suffixFromLabel => eps[o[1]].conns[o[2]].conn.label # NoLabel
      BY <1>1, <2>1 DEF StoredRequests
    <3> QED
      BY <2>2, <3>1, <3>2, OwnKey DEF keyOf
  <2> QED
    BY <2>1, <2>3, <2>4
<1>3. ASSUME NEW o \in open
      PROVE  /\ key(o) \in DOMAIN ifaces
             /\ ifaces[key(o)] = interfaceValue(eps[o[1]].cfg, eps[o[1]].conns[o[2]].conn)
  <2>1. HasInterface(eps[o[1]].cfg, [conns |-> eps[o[1]].conns,
                                     ifaces |-> own(keysOf(eps[o[1]].cfg), ifaces)])
    BY <1>1, <1>2
  <2> QED
    BY <1>2, <2>1 DEF HasInterface, own
<1>4. ASSUME NEW k \in DOMAIN ifaces
      PROVE  \E o \in open : k = key(o)
  <2>1. PICK ns \in DOMAIN eps : k \in keysOf(eps[ns].cfg)
    BY DEF InterfacesInv, AllMirrored
  <2>2. k \in DOMAIN own(keysOf(eps[ns].cfg), ifaces)
    BY <2>1 DEF own
  <2>3. PICK id \in DOMAIN eps[ns].conns : k = entryKey(eps[ns].cfg, eps[ns].conns[id])
    BY <1>1, <2>2 DEF NoStray
  <2>4. <<ns, id>> \in open
    BY <1>1, <2>3
  <2> QED
    BY <1>2, <2>3, <2>4
<1>5. ASSUME NEW o \in open, NEW q \in open, key(o) = key(q)
      PROVE  o = q
  <2>1. o[1] = q[1]
    BY <1>2, <1>5, KeysOfEndpoints DEF InterfacesInv
  <2>2. entryKey(eps[o[1]].cfg, eps[o[1]].conns[o[2]]) = entryKey(eps[o[1]].cfg, eps[o[1]].conns[q[2]])
    BY <1>2, <1>5, <2>1
  <2>3. o[2] = q[2]
    BY <1>1, <1>2, <2>1, <2>2, EntryKeysDistinct
  <2> QED
    BY <2>1, <2>3
<1>6. DOMAIN ifaces = {key(o) : o \in open}
  BY <1>3, <1>4
<1> QED
  BY <1>3, <1>5, <1>6 DEF InterfacesMatch

\* Over all endpoints of the agent every connection has its own interface and
\* nothing else is configured, for any services, clients and configurations
\* that cannot give the same name, across failures to start or to register, lost answers
\* of the registration, failing publishers and restarts.
THEOREM DemuxInterfacesMatch ==
  ASSUME ReliableSends, NamesApart, KeysApart, DeletesWhole
  PROVE  Spec => []InterfacesMatch
<1>1. Init => InterfacesInv
  <2> SUFFICES ASSUME Init
               PROVE  InterfacesInv
    OBVIOUS
  <2>1. DOMAIN endpoints = {} /\ DOMAIN ifaces = {} /\ servedServices = {}
    BY DEF Init, Empty, servedServices, Idle
  <2> QED
    BY <2>1 DEF InterfacesInv, Configured, AllMirrored
<1>2. DemuxInv /\ InterfacesInv /\ [Next]_vars => InterfacesInv'
  BY InterfacesStep DEF DemuxInv
<1>3. DemuxInv /\ InterfacesInv => InterfacesMatch
  BY InterfacesImply DEF DemuxInv
<1> QED
  BY <1>1, <1>2, <1>3, DemuxInit, DemuxStep, PTL DEF Spec
=============================================================================
