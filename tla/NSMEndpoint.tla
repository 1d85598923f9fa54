---------------------------- MODULE NSMEndpoint ----------------------------
(***************************************************************************)
(* One NSM endpoint (plugins/nsmplugin/descriptor/nsm_endpoint.go, type    *)
(* NSMEndpoint): Request, Close and CloseConnections.                      *)
(*                                                                         *)
(* The demultiplexer calls these methods with its mutex held, so each is   *)
(* one step here.  NSMEndpoint is the last of the composite endpoints,     *)
(* hence Next(ctx) is nil and nothing follows the interface change.        *)
(***************************************************************************)
EXTENDS NSMConnections

CONSTANT Configs   \* configurations the endpoint may be created with

ASSUME ConfigsAssumption == Configs \subseteq Config

VARIABLES
  cfg,           \* e.cfg
  connections,   \* e.connections: id -> Entry
  ifaces         \* interfaces this endpoint keeps in the agent's configuration

vars == <<cfg, connections, ifaces>>

\* NewNSMEndpoint
Init ==
  /\ cfg \in Configs
  /\ connections = Empty
  /\ ifaces = Empty

-----------------------------------------------------------------------------
\* The table and the interfaces, as the operators of NSMConnections take them.
now == [conns |-> connections, ifaces |-> ifaces]

Become(t) ==
  /\ connections' = t.conns
  /\ ifaces' = t.ifaces
  /\ UNCHANGED cfg

\* Closing the duplicate failed: the request ends with nothing changed.
RequestFailed(conn) ==
  /\ isDuplicate(now, conn)
  /\ mayFailToBuildInterface(cfg, conn)
  /\ UNCHANGED vars

RequestDeclined(conn) == \E t \in requestDeclined(cfg, now, conn) : Become(t)

RequestAccepted(conn) == \E t \in requestAccepted(cfg, now, conn) : Become(t)

\* The interface is named after the connection in the Close request, which
\* need not be the one in the table and need not be in the table at all.
Close(conn) == \E t \in closeConnection(cfg, now, conn) : Become(t)

CloseFailed(conn) ==
  /\ mayFailToBuildInterface(cfg, conn)
  /\ UNCHANGED vars

CloseConnections == \E t \in allClosed(cfg, now) : Become(t)

CloseConnectionsFailed == \E t \in someClosed(cfg, now) : Become(t)

-----------------------------------------------------------------------------
Next ==
  \/ \E conn \in Requests :
       \/ RequestFailed(conn)
       \/ RequestDeclined(conn)
       \/ RequestAccepted(conn)
       \/ Close(conn)
       \/ CloseFailed(conn)
  \/ CloseConnections
  \/ CloseConnectionsFailed

Spec == Init /\ [][Next]_vars

-----------------------------------------------------------------------------
(* Properties. *)

\* Type invariant: the connection table and the interfaces submitted to the
\* agent are finite maps of the types the Go maps declare, and an entry is
\* stored under the id of its own connection (Request, closeConnection).
TypeOK ==
  /\ cfg \in Configs
  /\ DOMAIN connections \subseteq ConnIds
  /\ connections \in [DOMAIN connections -> Entry]
  /\ \A id \in DOMAIN connections : connections[id].conn.id = id
  /\ DOMAIN ifaces \subseteq InterfaceKeys
  /\ ifaces \in [DOMAIN ifaces -> [link : Links, addressed : BOOLEAN]]

\* Two connections never get the same interface name, however connections
\* come, go and reconnect and however many transactions are lost
\* (allocateConnectionIndex together with delete in closeConnection).
KeysDistinct ==
  ~cfg.suffixFromLabel =>
    \A a, b \in DOMAIN connections :
      keyOf(cfg, connections, a) = keyOf(cfg, connections, b) => a = b

\* Indexes are reused: an index never reaches the number of clients, so the
\* names stay within prefix0 .. prefix(n-1) (closeConnection: "allow the
\* connection index to be reused by future connections").
IndexBound ==
  \A id \in DOMAIN connections : connections[id].index < Cardinality(ConnIds)

\* A single-client endpoint has at most one connection, also while a client
\* that is already connected requests again (Request: "only single client is
\* expected to connect to this endpoint").
SingleClient ==
  cfg.singleClient => \A a, b \in DOMAIN connections : a = b

\* A client of a single-client endpoint is never replaced by another one in
\* one step: the first has to leave before another gets in (Request).
NoTakeover ==
  [][cfg.singleClient /\ DOMAIN connections # {} /\ DOMAIN connections' # {}
       => DOMAIN connections' = DOMAIN connections]_vars

\* Every connection in the table has its interface in the configuration of
\* the agent, with the link of the latest request (Request: "creates the
\* connection interface on the endpoint side").  It needs transactions that
\* are not lost and clients whose labels tell them apart.
ConnectionHasInterface ==
  \A id \in DOMAIN connections :
    LET k == keyOf(cfg, connections, id)
    IN  k \in DOMAIN ifaces /\ ifaces[k] = interfaceValue(cfg, connections[id].conn)

\* No interface outlives its connection: what closeConnection and
\* CloseConnections leave behind belongs to a connection in the table.
NoStrayInterface ==
  \A k \in DOMAIN ifaces :
    \E id \in DOMAIN connections : k = keyOf(cfg, connections, id)

-----------------------------------------------------------------------------
(***************************************************************************)
(* What the endpoint promises, as seen from the interfaces of the agent:   *)
(* every client has its own attachment.                                    *)
(***************************************************************************)
Attached ==
  [id \in DOMAIN connections |-> ifaces[keyOf(cfg, connections, id)].link]

Service == INSTANCE AttachmentService WITH
  Clients <- ConnIds, single <- cfg.singleClient, attached <- Attached

\* Seen through the interfaces alone, Request, Close and CloseConnections only
\* ever attach one client, replace the attachment of that same client, or
\* detach clients.
ServiceSpec == Service!Spec
=============================================================================
