------------------------ MODULE NSMConnectionsProofs ------------------------
(***************************************************************************)
(* Lemmas about the connection table of one endpoint: what the operators   *)
(* of NSMConnections return and preserve, for any clients, labels, links   *)
(* and prefixes.  NSMEndpointProofs, NSMEndpointDemuxProofs and            *)
(* NSMAgentProofs rest on them.                                            *)
(***************************************************************************)
EXTENDS NSMConnections, FiniteSetTheorems, WellFoundedInduction, TLAPS

-----------------------------------------------------------------------------
(* Connection indexes. *)

\* A nonempty set of naturals has a least element; allocateConnectionIndex
\* takes the least one of the unused indexes.
LEMMA LeastNatural ==
  ASSUME NEW S \in SUBSET Nat, S # {}
  PROVE  \E x \in S : \A y \in S : x <= y
<1> DEFINE R == {p \in Nat \X Nat : p[1] < p[2]}
<1>1. IsWellFoundedOn(R, Nat)
  BY NatLessThanWellFounded DEF OpToRel
<1>2. ASSUME NEW x \in Nat, NEW y \in Nat, x < y
      PROVE  <<x, y>> \in R
  BY <1>2
<1> HIDE DEF R
<1>3. PICK x \in S : \A y \in S : <<y, x>> \notin R
  BY <1>1, WFMin
<1>4. ASSUME NEW y \in S
      PROVE  x <= y
  <2>1. x \in Nat /\ y \in Nat
    OBVIOUS
  <2>2. ~(y < x)
    BY <1>2, <1>3, <2>1
  <2> QED
    BY <2>1, <2>2
<1> QED
  BY <1>4

\* n connections leave one of the indexes 0..n unused, so the loop of
\* allocateConnectionIndex ends.
LEMMA UnusedIndexExists ==
  ASSUME NEW conns, IsFiniteSet(DOMAIN conns)
  PROVE  \E i \in 0..Cardinality(DOMAIN conns) : ~usesConnectionIndex(conns, i)
<1> DEFINE n == Cardinality(DOMAIN conns)
           owner == [i \in 0..n |-> CHOOSE id \in DOMAIN conns : conns[id].index = i]
<1>1. n \in Nat
  BY FS_CardinalityType
<1>2. SUFFICES ASSUME \A i \in 0..n : usesConnectionIndex(conns, i)
               PROVE  FALSE
  OBVIOUS
<1>3. \A i \in 0..n : owner[i] \in DOMAIN conns /\ conns[owner[i]].index = i
  BY <1>2 DEF usesConnectionIndex
<1>4. owner \in [0..n -> DOMAIN conns]
  BY <1>3
<1>5. IsFiniteSet(0..n) /\ Cardinality(0..n) = n + 1
  BY <1>1, FS_Interval
<1> HIDE DEF owner
<1>6. \E i, j \in 0..n : i # j /\ owner[i] = owner[j]
  <2>1. Cardinality(DOMAIN conns) < Cardinality(0..n)
    BY <1>1, <1>5
  <2> HIDE DEF n
  <2> QED
    BY <1>4, <1>5, <2>1, FS_PigeonHole
<1> QED
  BY <1>3, <1>6

\* allocateConnectionIndex returns the first unused index, and it is at most
\* the number of connections.
LEMMA AllocatedIndex ==
  ASSUME NEW conns, IsFiniteSet(DOMAIN conns)
  PROVE  /\ allocateConnectionIndex(conns) \in 0..Cardinality(DOMAIN conns)
         /\ ~usesConnectionIndex(conns, allocateConnectionIndex(conns))
         /\ \A j \in Nat : j < allocateConnectionIndex(conns)
                             => usesConnectionIndex(conns, j)
<1> DEFINE n == Cardinality(DOMAIN conns)
           Unused == {i \in 0..n : ~usesConnectionIndex(conns, i)}
           index == allocateConnectionIndex(conns)
<1>1. n \in Nat
  BY FS_CardinalityType
<1>2. Unused \in SUBSET Nat /\ Unused # {}
  BY <1>1, UnusedIndexExists
<1>3. \E x \in Unused : \A y \in Unused : x <= y
  <2> HIDE DEF Unused
  <2> QED
    BY <1>2, LeastNatural
<1>4. index \in Unused /\ \A y \in Unused : index <= y
  BY <1>3 DEF allocateConnectionIndex, Min
<1>5. ASSUME NEW j \in Nat, j < index
      PROVE  usesConnectionIndex(conns, j)
  <2>1. j \in 0..n
    BY <1>1, <1>4, <1>5
  <2>2. j \notin Unused
    BY <1>1, <1>4, <1>5
  <2> QED
    BY <2>1, <2>2
<1> QED
  BY <1>4, <1>5

-----------------------------------------------------------------------------
(* Types. *)

\* The parts of TypeOK about the table and about the interfaces.
IsTable(conns) ==
  /\ DOMAIN conns \subseteq ConnIds
  /\ conns \in [DOMAIN conns -> Entry]
  /\ \A id \in DOMAIN conns : conns[id].conn.id = id

IsIfaces(ifs) ==
  /\ DOMAIN ifs \subseteq InterfaceKeys
  /\ ifs \in [DOMAIN ifs -> [link : Links, addressed : BOOLEAN]]

\* The set of connections is finite because the set of clients is.
LEMMA TableFinite ==
  ASSUME NEW conns, IsTable(conns)
  PROVE  /\ IsFiniteSet(DOMAIN conns)
         /\ Cardinality(DOMAIN conns) \in Nat
         /\ Cardinality(DOMAIN conns) <= Cardinality(ConnIds)
         /\ Cardinality(ConnIds) \in Nat
         /\ DOMAIN conns # ConnIds => Cardinality(DOMAIN conns) < Cardinality(ConnIds)
<1>1. DOMAIN conns \in SUBSET ConnIds
  BY DEF IsTable
<1>2. /\ IsFiniteSet(DOMAIN conns)
      /\ Cardinality(DOMAIN conns) <= Cardinality(ConnIds)
      /\ Cardinality(ConnIds) = Cardinality(DOMAIN conns) => ConnIds = DOMAIN conns
  BY <1>1, ConnIdsAssumption, FS_Subset
<1>3. Cardinality(DOMAIN conns) \in Nat /\ Cardinality(ConnIds) \in Nat
  BY <1>2, ConnIdsAssumption, FS_CardinalityType
<1> QED
  BY <1>2, <1>3

\* The index getConnectionIndex gives to a connection.
LEMMA IndexType ==
  ASSUME NEW conns, IsTable(conns), NEW conn \in Conn
  PROVE  getConnectionIndex(conns, conn) \in Indexes
<1>1. allocateConnectionIndex(conns) \in Indexes
  BY AllocatedIndex, TableFinite DEF Indexes
<1>2. ASSUME conn.id \in DOMAIN conns
      PROVE  conns[conn.id].index \in Indexes
  BY <1>2 DEF IsTable, Entry
<1> QED
  BY <1>1, <1>2 DEF getConnectionIndex

\* buildInterfaceConfig names an interface by a key of the configuration.
LEMMA KeyType ==
  ASSUME NEW c \in Config, NEW conns, IsTable(conns), NEW conn \in Conn
  PROVE  interfaceKey(c, conns, conn) \in InterfaceKeys
<1>1. getConnectionIndex(conns, conn) \in Indexes
  BY IndexType
<1>2. conn.label \in Labels \cup {NoLabel} /\ c.prefix \in Prefixes
  BY DEF Conn, Config
<1>3. \A s \in Indexes \cup Labels \cup {NoLabel} : keyWith(c, s) \in InterfaceKeys
  <2>1. interfaceKind(c) \in {"linux", "vpp"}
    BY DEF interfaceKind
  <2> QED
    BY <1>2, <2>1 DEF keyWith, InterfaceKeys
<1> QED
  BY <1>1, <1>2, <1>3 DEF interfaceKey

\* And by one that its own configuration allows, if it builds the interface.
LEMMA OwnKey ==
  ASSUME NEW c, NEW conns, IsTable(conns), NEW conn \in Conn,
         c.suffixFromLabel => conn.label # NoLabel
  PROVE  interfaceKey(c, conns, conn) \in keysOf(c)
<1>1. getConnectionIndex(conns, conn) \in Indexes
  BY IndexType
<1>2. c.suffixFromLabel => conn.label \in Labels
  BY DEF Conn
<1> QED
  BY <1>1, <1>2 DEF interfaceKey, keysOf

\* delete(e.connections, ...) leaves a table.
LEMMA RemoveTable ==
  ASSUME NEW conns, IsTable(conns), NEW S
  PROVE  IsTable(RemoveKeys(conns, S))
  BY DEF IsTable, RemoveKeys

\* Deleting interfaces leaves a configuration.
LEMMA RemoveIfaces ==
  ASSUME NEW ifs, IsIfaces(ifs), NEW S
  PROVE  IsIfaces(RemoveKeys(ifs, S))
  BY DEF IsIfaces, RemoveKeys

\* e.connections[id] = c leaves a table.
LEMMA OpenTable ==
  ASSUME NEW c \in Config, NEW conns, IsTable(conns), NEW conn \in Conn
  PROVE  IsTable(connectionsAfterOpen(c, conns, conn))
<1> DEFINE e == [index |-> interfaceIndex(c, conns, conn), conn |-> conn]
<1>0. 0 \in Indexes
  BY ConnIdsAssumption, FS_CardinalityType DEF Indexes
<1>1. e \in Entry /\ e.conn.id = conn.id /\ conn.id \in ConnIds
  BY <1>0, IndexType DEF interfaceIndex, Entry, Conn
<1>2. connectionsAfterOpen(c, conns, conn) = Put(conns, conn.id, e)
  BY DEF connectionsAfterOpen
<1> HIDE DEF e
<1>3. IsTable(Put(conns, conn.id, e))
  BY <1>1 DEF IsTable, Put
<1> QED
  BY <1>2, <1>3

\* Sending the interface of a new connection leaves a configuration.
LEMMA OpenIfaces ==
  ASSUME NEW c \in Config, NEW conns, IsTable(conns), NEW conn \in Conn,
         NEW ifs, IsIfaces(ifs), NEW sent
  PROVE  IsIfaces(ifacesAfterOpen(c, conns, ifs, conn, sent))
<1> DEFINE k == interfaceKey(c, conns, conn)
           v == interfaceValue(c, conn)
<1>1. k \in InterfaceKeys
  BY KeyType
<1>2. v \in [link : Links, addressed : BOOLEAN]
  BY DEF interfaceValue, Conn, Config
<1>3. IsIfaces(Put(ifs, k, v))
  <2> HIDE DEF k, v
  <2> QED
    BY <1>1, <1>2 DEF IsIfaces, Put
<1> QED
  BY <1>3 DEF ifacesAfterOpen

\* Behind the prefix of one endpoint the suffix tells the interfaces apart.
LEMMA SuffixesApart ==
  ASSUME NEW c \in Config
  PROVE  /\ \A i, j \in Indexes : keyWith(c, i) = keyWith(c, j) => i = j
         /\ \A l, m \in Labels : keyWith(c, l) = keyWith(c, m) => l = m
<1>1. c.prefix \in Prefixes
  BY DEF Config
<1>2. \A s, t : keyWith(c, s) = keyWith(c, t)
                => InterfaceName[c.prefix][s] = InterfaceName[c.prefix][t]
  BY DEF keyWith
<1> QED
  BY <1>1, <1>2, InterfaceNameAssumption

-----------------------------------------------------------------------------
(* The invariant of the table: one index per connection, below the number  *)
(* of clients, and one connection in single-client mode.                   *)

IndexesDistinct(c, conns) ==
  ~c.suffixFromLabel =>
    \A a, b \in DOMAIN conns : conns[a].index = conns[b].index => a = b

IndexesBounded(conns) ==
  \A id \in DOMAIN conns : conns[id].index < Cardinality(ConnIds)

AtMostOneIfSingle(c, conns) == c.singleClient => \A a, b \in DOMAIN conns : a = b

TableInv(c, conns) ==
  /\ IsTable(conns)
  /\ IndexesDistinct(c, conns)
  /\ IndexesBounded(conns)
  /\ AtMostOneIfSingle(c, conns)

\* Closing connections preserves the invariant of the table.
LEMMA RemoveTableInv ==
  ASSUME NEW c, NEW conns, TableInv(c, conns), NEW S
  PROVE  TableInv(c, RemoveKeys(conns, S))
<1>1. IsTable(RemoveKeys(conns, S))
  BY RemoveTable DEF TableInv
<1>2. IndexesDistinct(c, RemoveKeys(conns, S))
  BY DEF TableInv, IndexesDistinct, RemoveKeys
<1>3. IndexesBounded(RemoveKeys(conns, S))
  BY DEF TableInv, IndexesBounded, RemoveKeys
<1>4. AtMostOneIfSingle(c, RemoveKeys(conns, S))
  BY DEF TableInv, AtMostOneIfSingle, RemoveKeys
<1> QED
  BY <1>1, <1>2, <1>3, <1>4 DEF TableInv

\* Storing a connection that is not in the table preserves it: the index is
\* unused and, by the pigeonhole argument, below the number of clients.
LEMMA OpenTableInv ==
  ASSUME NEW c \in Config, NEW conns, TableInv(c, conns), NEW conn \in Conn,
         conn.id \notin DOMAIN conns, ~isOccupied(c, conns)
  PROVE  TableInv(c, connectionsAfterOpen(c, conns, conn))
<1> DEFINE i == interfaceIndex(c, conns, conn)
           opened == connectionsAfterOpen(c, conns, conn)
<1>1. IsTable(opened)
  BY OpenTable DEF TableInv
<1>2. /\ DOMAIN opened = DOMAIN conns \cup {conn.id}
      /\ opened[conn.id].index = i
      /\ \A id \in DOMAIN conns : opened[id] = conns[id]
  BY DEF connectionsAfterOpen, Put
<1>3. conn.id \in ConnIds
  BY DEF Conn
<1>4. /\ ~c.suffixFromLabel => ~usesConnectionIndex(conns, i)
      /\ i < Cardinality(ConnIds)
  <2>1. IsFiniteSet(DOMAIN conns) /\ Cardinality(DOMAIN conns) < Cardinality(ConnIds)
        /\ Cardinality(DOMAIN conns) \in Nat /\ Cardinality(ConnIds) \in Nat
    BY <1>3, TableFinite DEF TableInv
  <2>2. i = IF c.suffixFromLabel THEN 0 ELSE allocateConnectionIndex(conns)
    BY DEF interfaceIndex, getConnectionIndex
  <2>3. /\ allocateConnectionIndex(conns) \in 0..Cardinality(DOMAIN conns)
        /\ ~usesConnectionIndex(conns, allocateConnectionIndex(conns))
    BY <2>1, AllocatedIndex
  <2> QED
    BY <2>1, <2>2, <2>3
<1> HIDE DEF i, opened
<1>5. IndexesDistinct(c, opened)
  BY <1>2, <1>4 DEF TableInv, IndexesDistinct, usesConnectionIndex
<1>6. IndexesBounded(opened)
  BY <1>2, <1>4 DEF TableInv, IndexesBounded
<1>7. AtMostOneIfSingle(c, opened)
  BY <1>2 DEF isOccupied, AtMostOneIfSingle
<1> QED
  BY <1>1, <1>5, <1>6, <1>7 DEF TableInv, opened

\* The key of a stored connection depends on its own entry only.
LEMMA KeyOfStored ==
  ASSUME NEW c, NEW conns, IsTable(conns), NEW id \in DOMAIN conns
  PROVE  keyOf(c, conns, id) =
           IF c.suffixFromLabel THEN keyWith(c, conns[id].conn.label)
                                ELSE keyWith(c, conns[id].index)
<1>1. conns[id].conn.id = id
  BY DEF IsTable
<1> QED
  BY <1>1 DEF keyOf, interfaceKey, getConnectionIndex

-----------------------------------------------------------------------------
(* Outcomes of the methods: sets of [conns, ifaces]. *)

\* The outcomes of closeConnection, Request and CloseConnections keep the
\* invariant of the table and the type of the interfaces.
StateInv(c, t) == TableInv(c, t.conns) /\ IsIfaces(t.ifaces)

\* closeConnection keeps the table well formed, whether or not its transaction is lost.
LEMMA CloseOutcome ==
  ASSUME NEW c, NEW t, StateInv(c, t), NEW conn, NEW d \in closeConnection(c, t, conn)
  PROVE  StateInv(c, d) /\ conn.id \notin DOMAIN d.conns
<1>1. PICK sent \in SendOutcomes :
        d = [conns  |-> connectionsAfterClose(t.conns, conn),
             ifaces |-> ifacesAfterClose(c, t.conns, t.ifaces, conn, sent)]
  BY DEF closeConnection
<1>2. TableInv(c, connectionsAfterClose(t.conns, conn))
  BY RemoveTableInv DEF StateInv, connectionsAfterClose
<1>3. IsIfaces(ifacesAfterClose(c, t.conns, t.ifaces, conn, sent))
  BY RemoveIfaces DEF StateInv, ifacesAfterClose
<1>4. conn.id \notin DOMAIN connectionsAfterClose(t.conns, conn)
  BY DEF connectionsAfterClose, RemoveKeys
<1> QED
  BY <1>1, <1>2, <1>3, <1>4 DEF StateInv

\* The duplicate that a request closes first leaves no entry behind.
LEMMA DuplicateGone ==
  ASSUME NEW c, NEW t, StateInv(c, t), NEW conn, NEW d \in withoutDuplicate(c, t, conn)
  PROVE  StateInv(c, d) /\ conn.id \notin DOMAIN d.conns
<1>1. CASE isDuplicate(t, conn)
  BY <1>1, CloseOutcome DEF withoutDuplicate
<1>2. CASE ~isDuplicate(t, conn)
  BY <1>2 DEF withoutDuplicate, isDuplicate
<1> QED
  BY <1>1, <1>2

\* An accepted Request keeps the table well formed.
LEMMA AcceptOutcome ==
  ASSUME NEW c \in Config, NEW t, StateInv(c, t), NEW conn \in Conn,
         NEW d \in requestAccepted(c, t, conn)
  PROVE  StateInv(c, d)
<1>1. PICK e \in withoutDuplicate(c, t, conn), sent \in SendOutcomes :
        /\ ~isOccupied(c, e.conns)
        /\ d = [conns  |-> connectionsAfterOpen(c, e.conns, conn),
                ifaces |-> ifacesAfterOpen(c, e.conns, e.ifaces, conn, sent)]
  BY DEF requestAccepted
<1>2. StateInv(c, e) /\ conn.id \notin DOMAIN e.conns
  BY DuplicateGone
<1>3. TableInv(c, connectionsAfterOpen(c, e.conns, conn))
  BY <1>1, <1>2, OpenTableInv DEF StateInv
<1>4. IsIfaces(ifacesAfterOpen(c, e.conns, e.ifaces, conn, sent))
  BY <1>2, OpenIfaces DEF StateInv, TableInv
<1> QED
  BY <1>1, <1>3, <1>4 DEF StateInv

\* CloseConnections keeps the table well formed, wherever it stops.
LEMMA ClosingOutcome ==
  ASSUME NEW c, NEW t, StateInv(c, t), NEW closed, NEW d \in afterClosing(c, t, closed)
  PROVE  StateInv(c, d)
<1>1. PICK keys : d = [conns |-> RemoveKeys(t.conns, closed), ifaces |-> RemoveKeys(t.ifaces, keys)]
  BY DEF afterClosing
<1>2. TableInv(c, RemoveKeys(t.conns, closed)) /\ IsIfaces(RemoveKeys(t.ifaces, keys))
  BY RemoveTableInv, RemoveIfaces DEF StateInv
<1> QED
  BY <1>1, <1>2 DEF StateInv

-----------------------------------------------------------------------------
(* With transactions that get through and clients that labels tell apart,  *)
(* the interfaces mirror the table.                                        *)

\* The key of the interface that belongs to an entry of the table.
entryKey(c, e) ==
  IF c.suffixFromLabel THEN keyWith(c, e.conn.label) ELSE keyWith(c, e.index)

StoredRequests(c, conns) ==
  \A id \in DOMAIN conns :
    /\ conns[id].conn \in Requests
    /\ c.suffixFromLabel => conns[id].conn.label # NoLabel

HasInterface(c, t) ==
  \A id \in DOMAIN t.conns :
    /\ entryKey(c, t.conns[id]) \in DOMAIN t.ifaces
    /\ t.ifaces[entryKey(c, t.conns[id])] = interfaceValue(c, t.conns[id].conn)

NoStray(c, t) ==
  \A k \in DOMAIN t.ifaces : \E id \in DOMAIN t.conns : k = entryKey(c, t.conns[id])

MirrorInv(c, t) ==
  /\ TableInv(c, t.conns)
  /\ StoredRequests(c, t.conns)
  /\ HasInterface(c, t)
  /\ NoStray(c, t)

\* Entries of distinct connections have distinct keys.
LEMMA EntryKeysDistinct ==
  ASSUME NamesApart, NEW c \in Config, NEW conns, TableInv(c, conns),
         StoredRequests(c, conns), NEW a \in DOMAIN conns, NEW b \in DOMAIN conns,
         entryKey(c, conns[a]) = entryKey(c, conns[b])
  PROVE  a = b
<1>0. /\ conns[a].conn \in Conn /\ conns[a].index \in Indexes
      /\ conns[b].conn \in Conn /\ conns[b].index \in Indexes
  BY DEF TableInv, IsTable, Entry
<1>1. CASE c.suffixFromLabel
  <2>2. /\ conns[a].conn \in Requests /\ conns[b].conn \in Requests
        /\ conns[a].conn.label # NoLabel /\ conns[b].conn.label # NoLabel
    BY <1>1 DEF StoredRequests
  <2>1. conns[a].conn.label = conns[b].conn.label
    <3>1. conns[a].conn.label \in Labels /\ conns[b].conn.label \in Labels
      BY <1>0, <2>2 DEF Conn
    <3>2. keyWith(c, conns[a].conn.label) = keyWith(c, conns[b].conn.label)
      BY <1>1 DEF entryKey
    <3> QED
      BY <3>1, <3>2, SuffixesApart
  <2>3. conns[a].conn.id = conns[b].conn.id
    BY <2>1, <2>2 DEF NamesApart
  <2> QED
    BY <2>3 DEF TableInv, IsTable
<1>2. CASE ~c.suffixFromLabel
  <2>1. conns[a].index = conns[b].index
    <3>1. keyWith(c, conns[a].index) = keyWith(c, conns[b].index)
      BY <1>2 DEF entryKey
    <3> QED
      BY <1>0, <3>1, SuffixesApart
  <2> QED
    BY <1>2, <2>1 DEF TableInv, IndexesDistinct
<1> QED
  BY <1>1, <1>2

\* buildInterfaceConfig, asked about any connection, names the interface of
\* the entry with the same id and of no other entry.
LEMMA KeyBelongs ==
  ASSUME NamesApart, NEW c \in Config, NEW conns, TableInv(c, conns),
         StoredRequests(c, conns), NEW conn \in Requests, mayBuildInterface(c, conn), NEW id \in DOMAIN conns
  PROVE  interfaceKey(c, conns, conn) = entryKey(c, conns[id]) <=> id = conn.id
<1>0. /\ conns[id].conn.id = id /\ conns[id].conn \in Conn
      /\ conns[id].index \in Indexes /\ conn \in Conn
  BY RequestsAssumption DEF TableInv, IsTable, Entry
<1>1. CASE c.suffixFromLabel
  <2>1. conn.label # NoLabel
    BY <1>1 DEF mayBuildInterface, canBuildInterface
  <2>2. conns[id].conn \in Requests /\ conns[id].conn.label # NoLabel
    BY <1>1 DEF StoredRequests
  <2>3. conns[id].conn.label = conn.label <=> id = conn.id
    BY <1>0, <2>1, <2>2 DEF NamesApart
  <2>4. conns[id].conn.label \in Labels /\ conn.label \in Labels
    BY <1>0, <2>1, <2>2 DEF Conn
  <2>5. keyWith(c, conn.label) = keyWith(c, conns[id].conn.label)
          <=> conns[id].conn.label = conn.label
    BY <2>4, SuffixesApart
  <2> QED
    BY <1>1, <2>3, <2>5 DEF interfaceKey, entryKey
<1>2. CASE ~c.suffixFromLabel
  <2>1. conns[id].index = getConnectionIndex(conns, conn) <=> id = conn.id
    <3>1. CASE conn.id \in DOMAIN conns
      BY <1>2, <3>1 DEF getConnectionIndex, TableInv, IndexesDistinct
    <3>2. CASE conn.id \notin DOMAIN conns
      <4>1. ~usesConnectionIndex(conns, getConnectionIndex(conns, conn))
        BY <3>2, TableFinite, AllocatedIndex DEF getConnectionIndex, TableInv
      <4> QED
        BY <3>2, <4>1 DEF usesConnectionIndex
    <3> QED
      BY <3>1, <3>2
  <2>2. keyWith(c, getConnectionIndex(conns, conn)) = keyWith(c, conns[id].index)
          <=> conns[id].index = getConnectionIndex(conns, conn)
    <3>1. getConnectionIndex(conns, conn) \in Indexes
      BY <1>0, IndexType DEF TableInv
    <3> QED
      BY <1>0, <3>1, SuffixesApart
  <2> QED
    BY <1>2, <2>1, <2>2 DEF interfaceKey, entryKey
<1> QED
  BY <1>1, <1>2

\* Removing entries together with exactly their interfaces keeps the mirror.
LEMMA RemoveMirror ==
  ASSUME NEW c, NEW t, MirrorInv(c, t), NEW S, NEW keys, NEW d,
         d = [conns |-> RemoveKeys(t.conns, S), ifaces |-> RemoveKeys(t.ifaces, keys)],
         \A id \in DOMAIN t.conns : entryKey(c, t.conns[id]) \in keys <=> id \in S
  PROVE  MirrorInv(c, d)
<1>1. TableInv(c, d.conns)
  BY RemoveTableInv DEF MirrorInv
<1>2. StoredRequests(c, d.conns)
  BY DEF MirrorInv, StoredRequests, RemoveKeys
<1>3. HasInterface(c, d)
  BY DEF MirrorInv, HasInterface, RemoveKeys
<1>4. NoStray(c, d)
  BY DEF MirrorInv, NoStray, RemoveKeys
<1> QED
  BY <1>1, <1>2, <1>3, <1>4 DEF MirrorInv

\* closeConnection takes away the interface together with the connection.
LEMMA CloseMirror ==
  ASSUME ReliableSends, NamesApart, NEW c \in Config, NEW t, MirrorInv(c, t),
         NEW conn \in Requests, NEW d \in closeConnection(c, t, conn)
  PROVE  MirrorInv(c, d)
<1> DEFINE key == interfaceKey(c, t.conns, conn)
<1>1. mayBuildInterface(c, conn)
  BY DEF closeConnection
<1>2. d = [conns |-> RemoveKeys(t.conns, {conn.id}), ifaces |-> RemoveKeys(t.ifaces, {key})]
  BY DEF closeConnection, connectionsAfterClose, ifacesAfterClose, ReliableSends
<1>3. \A id \in DOMAIN t.conns : entryKey(c, t.conns[id]) \in {key} <=> id \in {conn.id}
  BY <1>1, KeyBelongs DEF MirrorInv
<1> HIDE DEF key
<1> QED
  BY <1>2, <1>3, RemoveMirror

\* Closing the duplicate at the start of Request keeps table and interfaces in step.
LEMMA DuplicateMirror ==
  ASSUME ReliableSends, NamesApart, NEW c \in Config, NEW t, MirrorInv(c, t),
         NEW conn \in Requests, NEW d \in withoutDuplicate(c, t, conn)
  PROVE  MirrorInv(c, d) /\ conn.id \notin DOMAIN d.conns
<1>1. CASE isDuplicate(t, conn)
  <2>1. d \in closeConnection(c, t, conn)
    BY <1>1 DEF withoutDuplicate
  <2>2. conn.id \notin DOMAIN d.conns
    BY <2>1 DEF closeConnection, connectionsAfterClose, RemoveKeys
  <2> QED
    BY <2>1, <2>2, CloseMirror
<1>2. CASE ~isDuplicate(t, conn)
  BY <1>2 DEF withoutDuplicate, isDuplicate
<1> QED
  BY <1>1, <1>2

\* Storing a connection together with its interface keeps the mirror.
LEMMA OpenMirror ==
  ASSUME NamesApart, NEW c \in Config, NEW t, MirrorInv(c, t), NEW conn \in Requests,
         conn.id \notin DOMAIN t.conns, ~isOccupied(c, t.conns), mayBuildInterface(c, conn),
         NEW d,
         d = [conns  |-> connectionsAfterOpen(c, t.conns, conn),
              ifaces |-> Put(t.ifaces, interfaceKey(c, t.conns, conn), interfaceValue(c, conn))]
  PROVE  MirrorInv(c, d)
<1> DEFINE key == interfaceKey(c, t.conns, conn)
           e == [index |-> interfaceIndex(c, t.conns, conn), conn |-> conn]
<1>1. conn \in Conn
  BY RequestsAssumption
<1>2. TableInv(c, d.conns)
  BY <1>1, OpenTableInv DEF MirrorInv
<1>3. e.conn = conn /\ key = entryKey(c, e)
  BY DEF interfaceKey, entryKey, interfaceIndex
<1>4. d.conns = Put(t.conns, conn.id, e) /\ d.ifaces = Put(t.ifaces, key, interfaceValue(c, conn))
  BY DEF connectionsAfterOpen
<1>5. \A id \in DOMAIN t.conns : entryKey(c, t.conns[id]) # key
  BY KeyBelongs DEF MirrorInv
<1>6. c.suffixFromLabel => conn.label # NoLabel
  BY DEF mayBuildInterface, canBuildInterface
<1> HIDE DEF key, e
<1>7. /\ DOMAIN d.conns = DOMAIN t.conns \cup {conn.id}
      /\ d.conns[conn.id] = e
      /\ \A id \in DOMAIN t.conns : d.conns[id] = t.conns[id]
  BY <1>4 DEF Put
<1>8. /\ DOMAIN d.ifaces = DOMAIN t.ifaces \cup {key}
      /\ d.ifaces[key] = interfaceValue(c, conn)
      /\ \A k \in DOMAIN t.ifaces : k # key => d.ifaces[k] = t.ifaces[k]
  BY <1>4 DEF Put
<1>9. StoredRequests(c, d.conns)
  BY <1>3, <1>6, <1>7 DEF MirrorInv, StoredRequests
<1>10. HasInterface(c, d)
  BY <1>3, <1>5, <1>7, <1>8 DEF MirrorInv, HasInterface
<1>11. NoStray(c, d)
  BY <1>3, <1>7, <1>8 DEF MirrorInv, NoStray
<1> QED
  BY <1>2, <1>9, <1>10, <1>11 DEF MirrorInv

\* An accepted request stores its connection in a mirror that has no
\* connection with its id.
LEMMA AcceptMirror ==
  ASSUME ReliableSends, NamesApart, NEW c \in Config, NEW t, MirrorInv(c, t),
         NEW conn \in Requests, NEW d \in requestAccepted(c, t, conn)
  PROVE  MirrorInv(c, d)
<1>1. PICK e \in withoutDuplicate(c, t, conn), sent \in SendOutcomes :
        /\ ~isOccupied(c, e.conns)
        /\ mayBuildInterface(c, conn)
        /\ d = [conns  |-> connectionsAfterOpen(c, e.conns, conn),
                ifaces |-> ifacesAfterOpen(c, e.conns, e.ifaces, conn, sent)]
  BY DEF requestAccepted
<1>2. MirrorInv(c, e) /\ conn.id \notin DOMAIN e.conns
  BY DuplicateMirror
<1>3. ifacesAfterOpen(c, e.conns, e.ifaces, conn, sent) =
        Put(e.ifaces, interfaceKey(c, e.conns, conn), interfaceValue(c, conn))
  BY DEF ReliableSends, ifacesAfterOpen
<1> QED
  BY <1>1, <1>2, <1>3, OpenMirror

\* CloseConnections, also one that stops midway, removes the connections it
\* closes together with their interfaces.
LEMMA ClosingMirror ==
  ASSUME ReliableSends, NamesApart, NEW c \in Config, NEW t, MirrorInv(c, t),
         NEW closed \in SUBSET DOMAIN t.conns, NEW d \in afterClosing(c, t, closed)
  PROVE  MirrorInv(c, d)
<1> DEFINE keys == {keyOf(c, t.conns, id) : id \in closed}
<1>1. d = [conns |-> RemoveKeys(t.conns, closed), ifaces |-> RemoveKeys(t.ifaces, keys)]
  <2>1. PICK lost \in SUBSET closed :
          /\ lost # {} => FALSE \in SendOutcomes
          /\ d = [conns  |-> RemoveKeys(t.conns, closed),
                  ifaces |-> RemoveKeys(t.ifaces, {keyOf(c, t.conns, id) : id \in closed \ lost})]
    BY DEF afterClosing
  <2>2. closed \ lost = closed
    BY <2>1 DEF ReliableSends
  <2> QED
    BY <2>1, <2>2
<1>2. \A id \in DOMAIN t.conns : keyOf(c, t.conns, id) = entryKey(c, t.conns[id])
  BY KeyOfStored DEF MirrorInv, TableInv, entryKey
<1>3. \A id \in DOMAIN t.conns : entryKey(c, t.conns[id]) \in keys <=> id \in closed
  BY <1>2, EntryKeysDistinct DEF MirrorInv
<1> HIDE DEF keys
<1> QED
  BY <1>1, <1>3, RemoveMirror
=============================================================================
