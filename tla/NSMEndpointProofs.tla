-------------------------- MODULE NSMEndpointProofs --------------------------
(***************************************************************************)
(* Proofs about NSMEndpoint for any clients, labels, links, prefixes,      *)
(* requests and configurations.                                            *)
(***************************************************************************)
EXTENDS NSMEndpoint, NSMConnectionsProofs, TLAPS

-----------------------------------------------------------------------------
(* The inductive invariant of the endpoint. *)

\* Type correctness in terms of the two parts.
LEMMA TypeParts == TypeOK <=> cfg \in Configs /\ IsTable(connections) /\ IsIfaces(ifaces)
  BY DEF TypeOK, IsTable, IsIfaces

\* The table of the endpoint is well formed.
EndpointInv == cfg \in Configs /\ TableInv(cfg, connections) /\ IsIfaces(ifaces)

\* Initially there is no connection and no interface.
LEMMA EndpointInit == Init => EndpointInv
<1> SUFFICES ASSUME Init
             PROVE  EndpointInv
  OBVIOUS
<1>1. DOMAIN connections = {} /\ connections = [x \in {} |-> x]
  BY DEF Init, Empty
<1>2. DOMAIN ifaces = {} /\ ifaces = [x \in {} |-> x]
  BY DEF Init, Empty
<1>3. TableInv(cfg, connections)
  BY <1>1 DEF TableInv, IsTable, IndexesDistinct, IndexesBounded, AtMostOneIfSingle
<1>4. IsIfaces(ifaces)
  BY <1>2 DEF IsIfaces
<1> QED
  BY <1>3, <1>4 DEF Init, EndpointInv

\* A step to an outcome that satisfies StateInv preserves the invariant.
LEMMA BecomeInv ==
  ASSUME NEW t, EndpointInv, StateInv(cfg, t), Become(t)
  PROVE  EndpointInv'
  BY DEF EndpointInv, StateInv, Become

\* Every operation of the endpoint preserves the invariant.
LEMMA EndpointStep == EndpointInv /\ [Next]_vars => EndpointInv'
<1> SUFFICES ASSUME EndpointInv, [Next]_vars
             PROVE  EndpointInv'
  OBVIOUS
<1>1. cfg \in Config /\ StateInv(cfg, now)
  BY ConfigsAssumption DEF EndpointInv, StateInv, now
<1>2. ASSUME NEW conn \in Requests, RequestDeclined(conn)
      PROVE  EndpointInv'
  <2>1. PICK t \in withoutDuplicate(cfg, now, conn) : Become(t)
    BY <1>2 DEF RequestDeclined, requestDeclined
  <2> QED
    BY <1>1, <2>1, DuplicateGone, BecomeInv
<1>3. ASSUME NEW conn \in Requests, RequestAccepted(conn)
      PROVE  EndpointInv'
  <2>1. PICK t \in requestAccepted(cfg, now, conn) : Become(t)
    BY <1>3 DEF RequestAccepted
  <2>2. conn \in Conn
    BY RequestsAssumption
  <2> QED
    BY <1>1, <2>1, <2>2, AcceptOutcome, BecomeInv
<1>4. ASSUME NEW conn \in Requests, Close(conn)
      PROVE  EndpointInv'
  <2>1. PICK t \in closeConnection(cfg, now, conn) : Become(t)
    BY <1>4 DEF Close
  <2> QED
    BY <1>1, <2>1, CloseOutcome, BecomeInv
<1>5. ASSUME CloseConnections
      PROVE  EndpointInv'
  <2>1. PICK t \in afterClosing(cfg, now, DOMAIN now.conns) : Become(t)
    BY <1>5 DEF CloseConnections, allClosed
  <2> QED
    BY <1>1, <2>1, ClosingOutcome, BecomeInv
<1>6. ASSUME CloseConnectionsFailed
      PROVE  EndpointInv'
  <2>1. PICK t, closed : t \in afterClosing(cfg, now, closed) /\ Become(t)
    BY <1>6 DEF CloseConnectionsFailed, someClosed
  <2> QED
    BY <1>1, <2>1, ClosingOutcome, BecomeInv
<1>7. ASSUME UNCHANGED vars
      PROVE  EndpointInv'
  BY <1>7 DEF vars, EndpointInv
<1> QED
  BY <1>2, <1>3, <1>4, <1>5, <1>6, <1>7 DEF Next, RequestFailed, CloseFailed

\* The invariant gives the properties of the table.
LEMMA EndpointInvImplies ==
  EndpointInv => TypeOK /\ KeysDistinct /\ IndexBound /\ SingleClient
<1> SUFFICES ASSUME EndpointInv
             PROVE  TypeOK /\ KeysDistinct /\ IndexBound /\ SingleClient
  OBVIOUS
<1>1. TypeOK
  BY TypeParts DEF EndpointInv, TableInv
<1>2. KeysDistinct
  <2> SUFFICES ASSUME ~cfg.suffixFromLabel, NEW a \in DOMAIN connections,
                      NEW b \in DOMAIN connections,
                      keyOf(cfg, connections, a) = keyOf(cfg, connections, b)
               PROVE  a = b
    BY DEF KeysDistinct
  <2>1. IsTable(connections)
    BY DEF EndpointInv, TableInv
  <2>2. keyWith(cfg, connections[a].index) = keyWith(cfg, connections[b].index)
    BY <2>1, KeyOfStored
  <2>3. connections[a].index \in Indexes /\ connections[b].index \in Indexes
    BY <2>1 DEF IsTable, Entry
  <2>4. connections[a].index = connections[b].index
    BY <2>2, <2>3, SuffixesApart, ConfigsAssumption DEF EndpointInv
  <2> QED
    BY <2>4 DEF EndpointInv, TableInv, IndexesDistinct
<1>3. IndexBound
  BY DEF EndpointInv, TableInv, IndexesBounded, IndexBound
<1>4. SingleClient
  BY DEF EndpointInv, TableInv, AtMostOneIfSingle, SingleClient
<1> QED
  BY <1>1, <1>2, <1>3, <1>4

\* EndpointInv holds throughout, whatever transactions are lost.
THEOREM EndpointInvariant == Spec => []EndpointInv
  BY EndpointInit, EndpointStep, PTL DEF Spec

\* Type correctness of the endpoint.
THEOREM EndpointTypeOK == Spec => []TypeOK
  BY EndpointInvariant, EndpointInvImplies, PTL

\* For any number of clients and any sequence of Request, Close and
\* CloseConnections with any loss of transactions: distinct connections have
\* distinct interface names, whose indexes stay below the number of clients.
THEOREM EndpointNames == Spec => [](KeysDistinct /\ IndexBound)
  BY EndpointInvariant, EndpointInvImplies, PTL

\* Names stay within prefix0 .. prefix(n-1) for n clients: indexes are reused.
THEOREM EndpointIndexBound == Spec => []IndexBound
<1>1. KeysDistinct /\ IndexBound => IndexBound
  OBVIOUS
<1> QED
  BY <1>1, EndpointNames, PTL

\* A single-client endpoint never has two connections.
THEOREM EndpointSingleClient == Spec => []SingleClient
  BY EndpointInvariant, EndpointInvImplies, PTL

\* A step of a single-client endpoint that has a client keeps this client or
\* leaves the endpoint without one.
LEMMA NoTakeoverStep ==
  ASSUME EndpointInv, [Next]_vars, cfg.singleClient,
         DOMAIN connections # {}, DOMAIN connections' # {}
  PROVE  DOMAIN connections' = DOMAIN connections
<1>1. PICK client : DOMAIN connections = {client}
  BY DEF EndpointInv, TableInv, AtMostOneIfSingle
<1>2. SUFFICES DOMAIN connections' \subseteq {client}
  BY <1>1
<1>3. \A S : DOMAIN RemoveKeys(connections, S) \subseteq {client}
  BY <1>1 DEF RemoveKeys
<1>4. ASSUME NEW conn, NEW t \in withoutDuplicate(cfg, now, conn)
      PROVE  t.conns = connections \/ t.conns = RemoveKeys(connections, {conn.id})
  BY DEF withoutDuplicate, closeConnection, connectionsAfterClose, now
<1>5. ASSUME NEW conn \in Requests, RequestDeclined(conn)
      PROVE  DOMAIN connections' \subseteq {client}
  <2>1. PICK t \in withoutDuplicate(cfg, now, conn) : connections' = t.conns
    BY <1>5 DEF RequestDeclined, requestDeclined, Become
  <2> QED
    BY <1>1, <1>3, <1>4, <2>1
<1>6. ASSUME NEW conn \in Requests, RequestAccepted(conn)
      PROVE  DOMAIN connections' \subseteq {client}
  <2>1. PICK t \in withoutDuplicate(cfg, now, conn) :
          /\ ~isOccupied(cfg, t.conns)
          /\ connections' = connectionsAfterOpen(cfg, t.conns, conn)
    BY <1>6 DEF RequestAccepted, requestAccepted, Become
  <2>2. DOMAIN t.conns = {}
    BY <2>1 DEF isOccupied
  <2>3. t.conns = RemoveKeys(connections, {conn.id})
    BY <1>1, <1>4, <2>2
  <2>4. conn.id = client
    BY <1>1, <2>2, <2>3 DEF RemoveKeys
  <2>5. DOMAIN connections' = DOMAIN t.conns \cup {conn.id}
    BY <2>1 DEF connectionsAfterOpen, Put
  <2> QED
    BY <2>2, <2>4, <2>5
<1>7. ASSUME NEW conn \in Requests, Close(conn)
      PROVE  DOMAIN connections' \subseteq {client}
  <2>1. connections' = RemoveKeys(connections, {conn.id})
    BY <1>7 DEF Close, closeConnection, connectionsAfterClose, Become, now
  <2> QED
    BY <1>3, <2>1
<1>8. ASSUME CloseConnections \/ CloseConnectionsFailed
      PROVE  DOMAIN connections' \subseteq {client}
  <2>1. PICK t, closed : t \in afterClosing(cfg, now, closed) /\ connections' = t.conns
    <3>1. CASE CloseConnections
      BY <3>1 DEF CloseConnections, allClosed, Become
    <3>2. CASE CloseConnectionsFailed
      BY <3>2 DEF CloseConnectionsFailed, someClosed, Become
    <3> QED
      BY <1>8, <3>1, <3>2
  <2>2. PICK keys : t = [conns  |-> RemoveKeys(now.conns, closed),
                         ifaces |-> RemoveKeys(now.ifaces, keys)]
    BY <2>1 DEF afterClosing
  <2>3. t.conns = RemoveKeys(connections, closed)
    BY <2>2 DEF now
  <2> QED
    BY <1>3, <2>1, <2>3
<1>9. ASSUME UNCHANGED vars
      PROVE  DOMAIN connections' \subseteq {client}
  BY <1>1, <1>9 DEF vars
<1> QED
  BY <1>5, <1>6, <1>7, <1>8, <1>9 DEF Next, RequestFailed, CloseFailed

\* A client of a single-client endpoint is never replaced by another one in
\* one step.
THEOREM EndpointNoTakeover == Spec => NoTakeover
<1>1. EndpointInv /\ [Next]_vars =>
        [cfg.singleClient /\ DOMAIN connections # {} /\ DOMAIN connections' # {}
           => DOMAIN connections' = DOMAIN connections]_vars
  BY NoTakeoverStep
<1> QED
  BY <1>1, EndpointInvariant, PTL DEF Spec, NoTakeover

-----------------------------------------------------------------------------
(* With transactions that get through and clients that labels tell apart,  *)
(* the interfaces mirror the table.                                        *)
\* The mirror as an invariant of the endpoint.
EndpointMirror == cfg \in Config /\ MirrorInv(cfg, now)

\* NewNSMEndpoint starts with an empty table and no interface.
LEMMA MirrorInit == Init => EndpointMirror
<1> SUFFICES ASSUME Init
             PROVE  EndpointMirror
  OBVIOUS
<1>1. EndpointInv /\ cfg \in Config
  BY EndpointInit, ConfigsAssumption DEF EndpointInv
<1>2. DOMAIN now.conns = {} /\ DOMAIN now.ifaces = {} /\ now.conns = connections
  BY DEF Init, Empty, now
<1> QED
  BY <1>1, <1>2 DEF EndpointMirror, MirrorInv, EndpointInv, StoredRequests, HasInterface, NoStray

\* A method that leaves table and interfaces in step establishes the invariant again.
LEMMA BecomeMirror ==
  ASSUME NEW t, EndpointMirror, MirrorInv(cfg, t), Become(t)
  PROVE  EndpointMirror'
<1>1. now'.conns = t.conns /\ now'.ifaces = t.ifaces /\ cfg' = cfg
  BY DEF now, Become
<1>2. MirrorInv(cfg', now')
  BY <1>1 DEF MirrorInv, HasInterface, NoStray
<1> QED
  BY <1>1, <1>2 DEF EndpointMirror

\* Every method of the endpoint keeps table and interfaces in step.
LEMMA MirrorStep ==
  ASSUME ReliableSends, NamesApart, EndpointMirror, [Next]_vars
  PROVE  EndpointMirror'
<1>0. cfg \in Config /\ MirrorInv(cfg, now)
  BY DEF EndpointMirror
<1>1. ASSUME NEW conn \in Requests, RequestDeclined(conn)
      PROVE  EndpointMirror'
  <2>1. PICK t \in withoutDuplicate(cfg, now, conn) : Become(t)
    BY <1>1 DEF RequestDeclined, requestDeclined
  <2> QED
    BY <1>0, <2>1, DuplicateMirror, BecomeMirror
<1>2. ASSUME NEW conn \in Requests, RequestAccepted(conn)
      PROVE  EndpointMirror'
  <2>1. PICK t \in requestAccepted(cfg, now, conn) : Become(t)
    BY <1>2 DEF RequestAccepted
  <2> QED
    BY <1>0, <2>1, AcceptMirror, BecomeMirror
<1>3. ASSUME NEW conn \in Requests, Close(conn)
      PROVE  EndpointMirror'
  <2>1. PICK t \in closeConnection(cfg, now, conn) : Become(t)
    BY <1>3 DEF Close
  <2> QED
    BY <1>0, <2>1, CloseMirror, BecomeMirror
<1>4. ASSUME CloseConnections
      PROVE  EndpointMirror'
  <2>1. PICK t \in afterClosing(cfg, now, DOMAIN now.conns) : Become(t)
    BY <1>4 DEF CloseConnections, allClosed
  <2> QED
    BY <1>0, <2>1, ClosingMirror, BecomeMirror
<1>5. ASSUME CloseConnectionsFailed
      PROVE  EndpointMirror'
  <2>1. PICK t \in someClosed(cfg, now) : Become(t)
    BY <1>5 DEF CloseConnectionsFailed
  <2>2. PICK closed \in SUBSET DOMAIN now.conns : t \in afterClosing(cfg, now, closed)
    BY <2>1 DEF someClosed
  <2> QED
    BY <1>0, <2>1, <2>2, ClosingMirror, BecomeMirror
<1>6. ASSUME UNCHANGED vars
      PROVE  EndpointMirror'
  BY <1>0, <1>6 DEF vars, EndpointMirror, now
<1> QED
  BY <1>1, <1>2, <1>3, <1>4, <1>5, <1>6 DEF Next, RequestFailed, CloseFailed

\* The inductive invariant contains both properties of the interfaces.
LEMMA MirrorImplies ==
  EndpointMirror => ConnectionHasInterface /\ NoStrayInterface
<1> SUFFICES ASSUME EndpointMirror
             PROVE  ConnectionHasInterface /\ NoStrayInterface
  OBVIOUS
<1>1. now.conns = connections /\ now.ifaces = ifaces
  BY DEF now
<1>2. \A id \in DOMAIN connections : keyOf(cfg, connections, id) = entryKey(cfg, connections[id])
  BY <1>1, KeyOfStored DEF EndpointMirror, MirrorInv, TableInv, entryKey
<1>3. ConnectionHasInterface
  BY <1>1, <1>2 DEF EndpointMirror, MirrorInv, HasInterface, ConnectionHasInterface
<1>4. NoStrayInterface
  BY <1>1, <1>2 DEF EndpointMirror, MirrorInv, NoStray, NoStrayInterface
<1> QED
  BY <1>3, <1>4

\* When no transaction is lost and labels tell the clients apart, the
\* interfaces mirror the connections: each connection has its interface with
\* the link of its latest request, and no interface is left behind.
THEOREM EndpointInterfaces ==
  ASSUME ReliableSends, NamesApart
  PROVE  Spec => [](ConnectionHasInterface /\ NoStrayInterface)
<1>1. EndpointMirror /\ [Next]_vars => EndpointMirror'
  BY MirrorStep
<1> QED
  BY <1>1, MirrorInit, MirrorImplies, PTL DEF Spec

\* No interface outlives its connection, under the same assumptions, which
\* CloseConnections and a request that takes over a name would violate first.
THEOREM EndpointNoStray ==
  ASSUME ReliableSends, NamesApart
  PROVE  Spec => []NoStrayInterface
<1>1. ConnectionHasInterface /\ NoStrayInterface => NoStrayInterface
  OBVIOUS
<1> QED
  BY <1>1, EndpointInterfaces, PTL

-----------------------------------------------------------------------------
(* The endpoint implements AttachmentService. *)

\* Through the mirror, the attachments are the links of the stored connections.
LEMMA AttachedLinks ==
  EndpointMirror => Attached = [id \in DOMAIN connections |-> connections[id].conn.link]
<1> SUFFICES ASSUME EndpointMirror
             PROVE  Attached = [id \in DOMAIN connections |-> connections[id].conn.link]
  OBVIOUS
<1>1. \A id \in DOMAIN connections :
        ifaces[keyOf(cfg, connections, id)].link = connections[id].conn.link
  <2>1. ConnectionHasInterface
    BY MirrorImplies
  <2>2. \A conn : interfaceValue(cfg, conn).link = conn.link
    BY DEF interfaceValue
  <2> QED
    BY <2>1, <2>2 DEF ConnectionHasInterface
<1> QED
  BY <1>1 DEF Attached

\* The same in the next state.
LEMMA AttachedLinksNext ==
  EndpointMirror' => Attached' = [id \in DOMAIN connections' |-> connections'[id].conn.link]
<1>1. EndpointMirror' =>
        (Attached = [id \in DOMAIN connections |-> connections[id].conn.link])'
  BY AttachedLinks, PTL
<1> QED
  BY <1>1

\* Closing connections is a Detach, or a stuttering step.
LEMMA RemoveRefines ==
  ASSUME EndpointMirror, EndpointMirror', cfg' = cfg,
         NEW S, connections' = RemoveKeys(connections, S)
  PROVE  Service!Detach(S \cap ConnIds) /\ S \cap ConnIds \in SUBSET ConnIds
<1>1. DOMAIN connections \subseteq ConnIds
  BY DEF EndpointMirror, MirrorInv, TableInv, IsTable, now
<1>2. /\ Attached = [id \in DOMAIN connections |-> connections[id].conn.link]
      /\ Attached' = [id \in DOMAIN connections' |-> connections'[id].conn.link]
  BY AttachedLinks, AttachedLinksNext
<1>3. Attached' = [x \in DOMAIN Attached \ (S \cap ConnIds) |-> Attached[x]]
  BY <1>1, <1>2 DEF RemoveKeys
<1> QED
  BY <1>3 DEF Service!Detach

\* An accepted request is an Attach.
LEMMA AcceptRefines ==
  ASSUME EndpointMirror, EndpointMirror', NEW conn \in Requests, RequestAccepted(conn)
  PROVE  Service!Attach(conn.id, conn.link)
<1>1. PICK e \in withoutDuplicate(cfg, now, conn) :
        /\ ~isOccupied(cfg, e.conns)
        /\ connections' = connectionsAfterOpen(cfg, e.conns, conn)
        /\ cfg' = cfg
  BY DEF RequestAccepted, requestAccepted, Become
<1>2. /\ DOMAIN connections \cup {conn.id} = DOMAIN e.conns \cup {conn.id}
      /\ \A id \in DOMAIN connections : id # conn.id =>
           id \in DOMAIN e.conns /\ e.conns[id] = connections[id]
  BY DEF withoutDuplicate, closeConnection, connectionsAfterClose, RemoveKeys, now
<1>3. /\ DOMAIN connections' = DOMAIN e.conns \cup {conn.id}
      /\ connections'[conn.id].conn = conn
      /\ \A id \in DOMAIN e.conns : id # conn.id => connections'[id] = e.conns[id]
  BY <1>1 DEF connectionsAfterOpen, Put
<1>4. /\ Attached = [id \in DOMAIN connections |-> connections[id].conn.link]
      /\ Attached' = [id \in DOMAIN connections' |-> connections'[id].conn.link]
  BY AttachedLinks, AttachedLinksNext
<1>5. cfg.singleClient => DOMAIN Attached \subseteq {conn.id}
  BY <1>1, <1>2, <1>4 DEF isOccupied
<1>6. Attached' = [x \in DOMAIN Attached \cup {conn.id} |->
                     IF x = conn.id THEN conn.link ELSE Attached[x]]
  BY <1>2, <1>3, <1>4
<1> QED
  BY <1>1, <1>5, <1>6 DEF Service!Attach

\* Every step of the endpoint is a step of the service or leaves it alone.
LEMMA RefinementStep ==
  ASSUME EndpointMirror, EndpointMirror', [Next]_vars
  PROVE  Service!Next \/ UNCHANGED <<cfg.singleClient, Attached>>
<1>1. ASSUME cfg' = cfg, NEW S, connections' = RemoveKeys(connections, S)
      PROVE  Service!Next
  BY <1>1, RemoveRefines DEF Service!Next
<1>2. ASSUME UNCHANGED vars
      PROVE  UNCHANGED <<cfg.singleClient, Attached>>
  BY <1>2 DEF vars, Attached, keyOf, interfaceKey, interfaceKind
<1>3. ASSUME cfg' = cfg, connections' = connections
      PROVE  UNCHANGED <<cfg.singleClient, Attached>>
  BY <1>3, AttachedLinks, AttachedLinksNext
<1>4. ASSUME NEW conn \in Requests, RequestDeclined(conn)
      PROVE  Service!Next \/ UNCHANGED <<cfg.singleClient, Attached>>
  <2>1. PICK t \in withoutDuplicate(cfg, now, conn) : connections' = t.conns /\ cfg' = cfg
    BY <1>4 DEF RequestDeclined, requestDeclined, Become
  <2>2. t.conns = connections \/ t.conns = RemoveKeys(connections, {conn.id})
    BY DEF withoutDuplicate, closeConnection, connectionsAfterClose, now
  <2> QED
    BY <1>1, <1>3, <2>1, <2>2
<1>5. ASSUME NEW conn \in Requests, RequestAccepted(conn)
      PROVE  Service!Next
  <2>1. conn.id \in ConnIds /\ conn.link \in Links
    BY RequestsAssumption DEF Conn
  <2> QED
    BY <1>5, <2>1, AcceptRefines DEF Service!Next
<1>6. ASSUME NEW conn \in Requests, Close(conn)
      PROVE  Service!Next
  <2>1. connections' = RemoveKeys(connections, {conn.id}) /\ cfg' = cfg
    BY <1>6 DEF Close, closeConnection, connectionsAfterClose, Become, now
  <2> QED
    BY <1>1, <2>1
<1>7. ASSUME NEW t, NEW closed, t \in afterClosing(cfg, now, closed), Become(t)
      PROVE  Service!Next
  <2>1. PICK keys : t = [conns  |-> RemoveKeys(now.conns, closed),
                         ifaces |-> RemoveKeys(now.ifaces, keys)]
    BY <1>7 DEF afterClosing
  <2>2. connections' = RemoveKeys(connections, closed) /\ cfg' = cfg
    BY <1>7, <2>1 DEF now, Become
  <2> QED
    BY <1>1, <2>2
<1>8. ASSUME CloseConnections
      PROVE  Service!Next
  BY <1>7, <1>8 DEF CloseConnections, allClosed
<1>9. ASSUME CloseConnectionsFailed
      PROVE  Service!Next
  <2>1. PICK t \in someClosed(cfg, now) : Become(t)
    BY <1>9 DEF CloseConnectionsFailed
  <2>2. PICK closed : t \in afterClosing(cfg, now, closed)
    BY <2>1 DEF someClosed
  <2> QED
    BY <1>7, <2>1, <2>2
<1> QED
  BY <1>2, <1>4, <1>5, <1>6, <1>8, <1>9 DEF Next, RequestFailed, CloseFailed

\* The initial state of the endpoint is one of the service.
LEMMA RefinementInit == Init => Service!Init
<1> SUFFICES ASSUME Init
             PROVE  Service!Init
  OBVIOUS
<1>1. cfg.singleClient \in BOOLEAN
  BY ConfigsAssumption DEF Init, Config
<1>2. DOMAIN connections = {} /\ DOMAIN Attached = {}
  BY DEF Init, Empty, Attached
<1> QED
  BY <1>1, <1>2 DEF Service!Init, Attached

\* NSMEndpoint implements AttachmentService: through the interfaces of the
\* agent, its methods only attach, renew or detach the clients they are
\* about, and a single-client endpoint admits one at a time.
THEOREM EndpointImplementsService ==
  ASSUME ReliableSends, NamesApart
  PROVE  Spec => ServiceSpec
<1>1. EndpointMirror /\ [Next]_vars => EndpointMirror'
  BY MirrorStep
<1>2. EndpointMirror /\ EndpointMirror' /\ [Next]_vars
        => [Service!Next]_<<cfg.singleClient, Attached>>
  BY RefinementStep
<1> QED
  BY <1>1, <1>2, MirrorInit, RefinementInit, PTL DEF Spec, ServiceSpec, Service!Spec
=============================================================================
