--------------------------- MODULE NSMConnections ---------------------------
(***************************************************************************)
(* The connection table of one NSM endpoint, as pure operators             *)
(* (plugins/nsmplugin/descriptor/nsm_endpoint.go, type NSMEndpoint).       *)
(*                                                                         *)
(* An endpoint keeps a Go map "connections" from the connection id to the  *)
(* index and the connection, and for every connection it puts one          *)
(* interface into the configuration of the agent through the local client. *)
(* Both are finite functions here.  The name of an interface is            *)
(* prefix + suffix, where the suffix is either the value of a label of the *)
(* client or the decimal form of the index.  InterfaceName stands for this *)
(* concatenation: behind one prefix different indexes give different names *)
(* and so do different labels, and nothing else is assumed, for "nsm1"     *)
(* with index 0 and "nsm" with index 10 give one name.                     *)
(***************************************************************************)
EXTENDS Integers, FiniteSets, FiniteSetsExt, GoMaps

CONSTANTS
  ConnIds,          \* ids of connections
  Labels,           \* values of the label that interface_name_suffix_from_label names
  NoLabel,          \* the client does not define that label
  Links,            \* mechanism parameters: host interface name or memif socket
  Prefixes,         \* interface name prefixes
  InterfaceName,    \* prefix -> suffix -> the two strings, one after the other
  Requests,         \* the connections that clients request and close
  WorkspaceDefined, \* is the environment variable WORKSPACE defined?
  SendOutcomes      \* FALSE in it: a transaction sent to the local client may be lost

(***************************************************************************)
(* nsm_connection.Connection, the fields the endpoint reads.               *)
(***************************************************************************)
Conn == [id : ConnIds, label : Labels \cup {NoLabel}, link : Links]

(***************************************************************************)
(* nsm.NetworkServiceEndpoint, the fields that decide what a connection    *)
(* does.  "OTHER" stands for the enum values the switch does not know.     *)
(***************************************************************************)
InterfaceTypes == {"DEFAULT", "KERNEL", "MEM", "OTHER"}

Config == [prefix : Prefixes, suffixFromLabel : BOOLEAN,
           singleClient : BOOLEAN, interfaceType : InterfaceTypes]

\* Indexes of connections: the loop of allocateConnectionIndex goes no further.
Indexes == 0..Cardinality(ConnIds)

\* nsmConnection: the value type of the map "connections".
Entry == [index : Indexes, conn : Conn]

ASSUME ConnIdsAssumption == IsFiniteSet(ConnIds)
ASSUME InterfaceNameAssumption ==
  \A p \in Prefixes :
    /\ \A i, j \in Indexes : InterfaceName[p][i] = InterfaceName[p][j] => i = j
    /\ \A l, m \in Labels : InterfaceName[p][l] = InterfaceName[p][m] => l = m
ASSUME RequestsAssumption == Requests \subseteq Conn
ASSUME NoLabelAssumption == NoLabel \notin Labels
ASSUME WorkspaceAssumption == WorkspaceDefined \in BOOLEAN
ASSUME SendOutcomesAssumption == SendOutcomes \subseteq BOOLEAN

-----------------------------------------------------------------------------
(* Connection indexes. *)

usesConnectionIndex(conns, i) == \E id \in DOMAIN conns : conns[id].index = i

\* Faulty variant: the next index is the number of connections.
allocateCountIndex(conns) == Cardinality(DOMAIN conns)

\* Faulty variant: indexes only grow, a freed one is never used again.
allocateNextIndex(conns) ==
  IF DOMAIN conns = {} THEN 0 ELSE Max({conns[id].index : id \in DOMAIN conns}) + 1

\* The loop counts up from 0; n connections leave one of 0..n unused.
allocateConnectionIndex(conns) ==
  Min({i \in 0..Cardinality(DOMAIN conns) : ~usesConnectionIndex(conns, i)})

getConnectionIndex(conns, conn) ==
  IF conn.id \in DOMAIN conns THEN conns[conn.id].index
                              ELSE allocateConnectionIndex(conns)

-----------------------------------------------------------------------------
(* buildInterfaceConfig.  It fails when the client lacks the label that    *)
(* gives the suffix, when the type is unknown, and for memif also when     *)
(* the workspace is not defined or its directory cannot be made            *)
(* (mkdirOK is the outcome of os.MkdirAll).                                *)

canBuildInterface(cfg, conn, mkdirOK) ==
  /\ cfg.suffixFromLabel => conn.label # NoLabel
  /\ \/ cfg.interfaceType \in {"DEFAULT", "KERNEL"}
     \/ cfg.interfaceType = "MEM" /\ WorkspaceDefined /\ mkdirOK

mayBuildInterface(cfg, conn) ==
  \E mkdirOK \in BOOLEAN : canBuildInterface(cfg, conn, mkdirOK)

mayFailToBuildInterface(cfg, conn) ==
  \E mkdirOK \in BOOLEAN : ~canBuildInterface(cfg, conn, mkdirOK)

\* Faulty variant: no index is marked by -1, which is then stored.
interfaceIndexOrMinusOne(cfg, conns, conn) ==
  IF cfg.suffixFromLabel THEN -1 ELSE getConnectionIndex(conns, conn)

\* The index is left 0 when the label gives the suffix.
interfaceIndex(cfg, conns, conn) ==
  IF cfg.suffixFromLabel THEN 0 ELSE getConnectionIndex(conns, conn)

\* Linux and VPP interfaces live under different keys of the configuration.
interfaceKind(cfg) == IF cfg.interfaceType = "MEM" THEN "vpp" ELSE "linux"

keyWith(cfg, suffix) == <<interfaceKind(cfg), InterfaceName[cfg.prefix][suffix]>>

interfaceKey(cfg, conns, conn) ==
  IF cfg.suffixFromLabel THEN keyWith(cfg, conn.label)
                         ELSE keyWith(cfg, getConnectionIndex(conns, conn))

\* The keys that interfaces of an endpoint may have.
keysOf(cfg) ==
  IF cfg.suffixFromLabel THEN {keyWith(cfg, l) : l \in Labels}
                         ELSE {keyWith(cfg, i) : i \in Indexes}

\* All keys of interfaces of endpoints.
InterfaceKeys ==
  {"linux", "vpp"} \X
    {InterfaceName[p][s] : p \in Prefixes, s \in Indexes \cup Labels \cup {NoLabel}}

\* Addresses are configured only when a single client is expected.
interfaceValue(cfg, conn) == [link |-> conn.link, addressed |-> cfg.singleClient]

-----------------------------------------------------------------------------
(* Opening and closing a connection.  "t" holds the table and the          *)
(* interfaces of the agent, t.conns and t.ifaces.  The transaction that    *)
(* carries the interface goes through the local client and its result is   *)
(* ignored: "sent" says whether the transaction was taken.                 *)

connectionsAfterClose(conns, conn) == RemoveKeys(conns, {conn.id})

\* Faulty variant: the entry is dropped before the interface is looked up.
ifacesAfterLateLookup(cfg, conns, ifaces, conn, sent) ==
  RemoveKeys(ifaces, {interfaceKey(cfg, connectionsAfterClose(conns, conn), conn)})

ifacesAfterClose(cfg, conns, ifaces, conn, sent) ==
  IF sent THEN RemoveKeys(ifaces, {interfaceKey(cfg, conns, conn)}) ELSE ifaces

connectionsAfterOpen(cfg, conns, conn) ==
  Put(conns, conn.id, [index |-> interfaceIndex(cfg, conns, conn), conn |-> conn])

ifacesAfterOpen(cfg, conns, ifaces, conn, sent) ==
  IF sent THEN Put(ifaces, interfaceKey(cfg, conns, conn), interfaceValue(cfg, conn))
          ELSE ifaces

\* Faulty variant: the limit of one client is not enforced.
isNeverOccupied(cfg, conns) == FALSE

\* A further client is turned away from a single-client endpoint.
isOccupied(cfg, conns) == cfg.singleClient /\ DOMAIN conns # {}

\* The key of the interface of a connection in the table.
keyOf(cfg, conns, id) == interfaceKey(cfg, conns, conns[id].conn)

-----------------------------------------------------------------------------
(* What the methods of NSMEndpoint may leave behind: sets of [conns,       *)
(* ifaces], one element per outcome of the calls the method makes.  The    *)
(* failures that change nothing are left to mayFailToBuildInterface.       *)

\* closeConnection, when it does not fail.
closeConnection(cfg, t, conn) ==
  {[conns  |-> connectionsAfterClose(t.conns, conn),
    ifaces |-> ifacesAfterClose(cfg, t.conns, t.ifaces, conn, sent)] :
      sent \in {x \in SendOutcomes : mayBuildInterface(cfg, conn)}}

isDuplicate(t, conn) == conn.id \in DOMAIN t.conns

\* Faulty variant: a new request evicts whoever is connected.
withoutAnyClient(cfg, t, conn) == {[conns |-> Empty, ifaces |-> t.ifaces]}

\* Request closes a connection with the id of the new one first.
withoutDuplicate(cfg, t, conn) ==
  IF isDuplicate(t, conn) THEN closeConnection(cfg, t, conn) ELSE {t}

\* Request turned away; a duplicate is gone by then.
requestDeclined(cfg, t, conn) ==
  {d \in withoutDuplicate(cfg, t, conn) :
     isOccupied(cfg, d.conns) \/ mayFailToBuildInterface(cfg, conn)}

\* Request accepted.  The connection is stored, then the interface is sent.
requestAccepted(cfg, t, conn) ==
  {[conns  |-> connectionsAfterOpen(cfg, d.conns, conn),
    ifaces |-> ifacesAfterOpen(cfg, d.conns, d.ifaces, conn, sent)] :
      d \in {x \in withoutDuplicate(cfg, t, conn) :
               ~isOccupied(cfg, x.conns) /\ mayBuildInterface(cfg, conn)},
      sent \in SendOutcomes}

\* The loop of CloseConnections visits the connections in any order.  A stored
\* connection was built before, so only its MkdirAll can fail now.  These are
\* the outcomes of having closed the connections in "closed", of which "lost"
\* are those whose transaction did not get through.
afterClosing(cfg, t, closed) ==
  {[conns  |-> RemoveKeys(t.conns, closed),
    ifaces |-> RemoveKeys(t.ifaces, {keyOf(cfg, t.conns, id) : id \in closed \ lost})] :
      lost \in {x \in SUBSET closed : /\ x # {} => FALSE \in SendOutcomes
                                      /\ x # closed => TRUE \in SendOutcomes}}

\* CloseConnections returns nil.
allClosed(cfg, t) == afterClosing(cfg, t, DOMAIN t.conns)

\* CloseConnections returns at the first connection it cannot close.
someClosed(cfg, t) ==
  UNION {afterClosing(cfg, t, closed) :
           closed \in {x \in SUBSET DOMAIN t.conns :
                        \E id \in DOMAIN t.conns \ x :
                          mayFailToBuildInterface(cfg, t.conns[id].conn)}}

-----------------------------------------------------------------------------
(* Under these two conditions the interfaces mirror the table. *)

\* No transaction is lost.
ReliableSends == SendOutcomes = {TRUE}

\* A client always presents the same label, and no two clients the same one.
NamesApart ==
  \A r, s \in Requests :
    /\ r.id = s.id => r.label = s.label
    /\ r.label = s.label /\ r.label # NoLabel => r.id = s.id
=============================================================================
