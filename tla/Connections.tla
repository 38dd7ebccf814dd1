------------------------------ MODULE Connections ------------------------------
(***************************************************************************)
(* The container class Connections of Bottom/Connection.h, with the maps   *)
(* it is built from: ip -> protocol -> source port -> set of destination   *)
(* ports. A connection is never removed on its own; clear empties the lot. *)
(***************************************************************************)
EXTENDS ConnectionSearch, Naturals, FiniteSets, FiniteSetsExt

CONSTANTS Ip, Protocol, Port

Connection == [ip : Ip, protocol : Protocol, srcPort : Port, dstPort : Port]

VARIABLES
  connections,  \* the nested maps, a function on the known ips
  newConnection \* what the last addConnection returned

vars == <<connections, newConnection>>

EmptyMap == [x \in {} |-> {}]

Init ==
  /\ connections = EmptyMap
  /\ newConnection = FALSE

-----------------------------------------------------------------------------
\* map[key] = value of a std::map: overwrites, or inserts a new key.
Put(map, key, value) ==
  [k \in DOMAIN map \cup {key} |-> IF k = key THEN value ELSE map[k]]

At(map, key) == IF key \in DOMAIN map THEN map[key] ELSE EmptyMap

\* Mutant: a known source port is replaced instead of getting one more destination port.
ReplaceSourcePort(ports, c) == Put(ports, c.srcPort, {c.dstPort})

\* ProtocolConnection::addSourcePort.
AddSourcePort(ports, c) ==
  Put(ports, c.srcPort,
      IF c.srcPort \in DOMAIN ports THEN ports[c.srcPort] \cup {c.dstPort}
                                    ELSE {c.dstPort})

\* IPConnection::addProtocol.
AddProtocol(protocols, c) ==
  Put(protocols, c.protocol, AddSourcePort(At(protocols, c.protocol), c))

\* Mutant: a new ip gets its entry, but the connection itself is not put into it.
AddIpOnly(c) ==
  /\ newConnection' = (c.ip \notin DOMAIN connections)
  /\ connections' = Put(connections, c.ip, At(connections, c.ip))

\* Connections::addConnection; the returned flag only tells whether the ip was unknown.
AddConnection(c) ==
  /\ newConnection' = (c.ip \notin DOMAIN connections)
  /\ connections' = Put(connections, c.ip, AddProtocol(At(connections, c.ip), c))

\* Connections::clear.
Clear ==
  /\ connections' = EmptyMap
  /\ UNCHANGED newConnection

Next == Clear \/ \E c \in Connection : AddConnection(c)

Spec == Init /\ [][Next]_vars

-----------------------------------------------------------------------------
\* Mutant: the destination ports of other source ports are not looked at.
SourcePortOnly(protocols, c) == FALSE

\* The loop over all protocols of the ip that looks for an equal destination port.
DstPortKnown(protocols, c) ==
  \E p \in DOMAIN protocols : \E s \in DOMAIN protocols[p] : c.dstPort \in protocols[p][s]

\* Connections::search.
SearchMaps(c) ==
  LET protocols == At(connections, c.ip)
      ports     == At(protocols, c.protocol)
  IN IF c.ip \notin DOMAIN connections THEN NOTHING_FOUND
     ELSE IF c.protocol \notin DOMAIN protocols THEN NOTHING_FOUND
     ELSE IF c.srcPort \in DOMAIN ports
            THEN IF c.dstPort \in ports[c.srcPort] THEN MATCH_FOUND ELSE SIMILAR_FOUND
     ELSE IF DstPortKnown(protocols, c) THEN SIMILAR_FOUND
     ELSE NOTHING_FOUND

\* getNumberOfConnections of ProtocolConnection and of IPConnection, summed over the
\* ips: the size of the array that getOpenConnectionsAsSafeArray then fills.
CountPorts(ports) == MapThenSumSet(LAMBDA s : Cardinality(ports[s]), DOMAIN ports)
CountProtocols(protocols) == MapThenSumSet(LAMBDA p : CountPorts(protocols[p]), DOMAIN protocols)
NumberOfConnections == MapThenSumSet(LAMBDA i : CountProtocols(connections[i]), DOMAIN connections)

-----------------------------------------------------------------------------
\* c is found on the path ip, protocol, source port, destination port.
Holds(c) ==
  /\ c.ip \in DOMAIN connections
  /\ c.protocol \in DOMAIN connections[c.ip]
  /\ c.srcPort \in DOMAIN connections[c.ip][c.protocol]
  /\ c.dstPort \in connections[c.ip][c.protocol][c.srcPort]

\* The set of connections the maps stand for.
stored == {c \in Connection : Holds(c)}

Store == INSTANCE ConnectionStore

\* m maps some of the keys K to something, and at least one of them.
MapOver(m, K) == m = [k \in DOMAIN m |-> m[k]] /\ DOMAIN m \subseteq K
FilledMapOver(m, K) == MapOver(m, K) /\ DOMAIN m # {}

\* The maps have the expected shape and no entry of them is empty (Connection.h 146, 261,
\* 350): an entry is only made together with the connection it is made for.
TypeOK ==
  /\ newConnection \in BOOLEAN
  /\ MapOver(connections, Ip)
  /\ \A i \in DOMAIN connections :
       /\ FilledMapOver(connections[i], Protocol)
       /\ \A p \in DOMAIN connections[i] :
            /\ FilledMapOver(connections[i][p], Port)
            /\ \A s \in DOMAIN connections[i][p] :
                 connections[i][p][s] \in (SUBSET Port) \ {{}}

\* Walking the maps gives the answer that module ConnectionSearch computes from the set of
\* everything that was added, which the traffic handler's model uses in their place.
SearchAgrees == \A c \in Connection : SearchMaps(c) = Search(stored, c)

\* "at least the ip, proto and one port (src or dst) being the same" (Connection.h 342).
HasSimilar(c) ==
  \E d \in stored : /\ d.ip = c.ip /\ d.protocol = c.protocol
                    /\ d.srcPort = c.srcPort \/ d.dstPort = c.dstPort

\* A stored connection with the ip of c has its destination port over another protocol.
DstPortElsewhere(c) ==
  \E d \in stored : d.ip = c.ip /\ d.protocol # c.protocol /\ d.dstPort = c.dstPort

\* What TSearchResult documents (Connection.h 339-344), as far as search (396) keeps it: an
\* exact match is found just when the connection was added, nothing similar is ever missed,
\* and what is called similar is, unless the destination port is in use over another protocol:
\* the loop at 425 looks at all of them, so that line 342 does not hold in that case.
SearchKeepsPromise ==
  \A c \in Connection :
    /\ SearchMaps(c) = MATCH_FOUND <=> c \in stored
    /\ SearchMaps(c) = NOTHING_FOUND => ~HasSimilar(c)
    /\ SearchMaps(c) = SIMILAR_FOUND => HasSimilar(c) \/ DstPortElsewhere(c)

\* The nested maps answer for the set of connections they hold: search as above, and the
\* array handed to Surface, sized with getNumberOfConnections and filled by walking the maps
\* (HookingEngine.cpp 958, 998), has room for just what it is filled with.
AnswersAgree ==
  SearchAgrees /\ SearchKeepsPromise /\ NumberOfConnections = Cardinality(stored)

\* The maps implement the abstract container: an add adds just that connection and keeps
\* every other one, whatever ips, protocols and ports they share (Connection.h 362).
ImplementsStore == Store!Spec

=============================================================================
