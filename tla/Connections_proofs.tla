--------------------------- MODULE Connections_proofs ---------------------------
(***************************************************************************)
(* Theorems of Connections, for any ips, protocols and ports: the nested   *)
(* maps keep their shape, hold exactly what was added, and searching and   *)
(* counting in them answers what the set of connections would.             *)
(***************************************************************************)
EXTENDS Connections, FiniteSetTheorems, WellFoundedInduction, TLAPS

-----------------------------------------------------------------------------
\* The destination ports of a source port in the entry of a protocol.
IsPorts(ports) ==
  /\ FilledMapOver(ports, Port)
  /\ \A s \in DOMAIN ports : ports[s] \in (SUBSET Port) \ {{}}
IsProtocols(protocols) ==
  /\ FilledMapOver(protocols, Protocol)
  /\ \A p \in DOMAIN protocols : IsPorts(protocols[p])

\* TypeOK, entry by entry.
LEMMA TypeOKByEntry ==
  TypeOK <=> /\ newConnection \in BOOLEAN
             /\ MapOver(connections, Ip)
             /\ \A i \in DOMAIN connections : IsProtocols(connections[i])
  BY DEF TypeOK, IsProtocols, IsPorts

\* An entry that gets one more connection, or is made for it, has its shape.
LEMMA AddKeepsShape ==
  ASSUME NEW c \in Connection
  PROVE  /\ \A ports : ports = EmptyMap \/ IsPorts(ports) => IsPorts(AddSourcePort(ports, c))
         /\ \A protocols : protocols = EmptyMap \/ IsProtocols(protocols)
              => IsProtocols(AddProtocol(protocols, c))
<1>1. c.srcPort \in Port /\ c.dstPort \in Port /\ c.protocol \in Protocol
  BY DEF Connection
<1>2. ASSUME NEW ports, ports = EmptyMap \/ IsPorts(ports)
      PROVE  IsPorts(AddSourcePort(ports, c))
  <2> DEFINE value == IF c.srcPort \in DOMAIN ports THEN ports[c.srcPort] \cup {c.dstPort}
                                                    ELSE {c.dstPort}
  <2>1. AddSourcePort(ports, c) = Put(ports, c.srcPort, value)
    BY DEF AddSourcePort
  <2>2. DOMAIN ports \subseteq Port /\ \A s \in DOMAIN ports : ports[s] \in (SUBSET Port) \ {{}}
    BY <1>2 DEF EmptyMap, IsPorts, FilledMapOver, MapOver
  <2>3. value \in (SUBSET Port) \ {{}}
    BY <1>1, <2>2
  <2> HIDE DEF value
  <2> QED BY <1>1, <2>1, <2>2, <2>3 DEF Put, IsPorts, FilledMapOver, MapOver
<1>3. ASSUME NEW protocols, protocols = EmptyMap \/ IsProtocols(protocols)
      PROVE  IsProtocols(AddProtocol(protocols, c))
  <2> DEFINE ports == At(protocols, c.protocol)
             value == AddSourcePort(ports, c)
  <2>1. AddProtocol(protocols, c) = Put(protocols, c.protocol, value)
    BY DEF AddProtocol
  <2>2. DOMAIN protocols \subseteq Protocol /\ \A p \in DOMAIN protocols : IsPorts(protocols[p])
    BY <1>3 DEF EmptyMap, IsProtocols, FilledMapOver, MapOver
  <2>3. ports = EmptyMap \/ IsPorts(ports)
    BY <2>2 DEF At
  <2>4. IsPorts(value)
    BY <1>2, <2>3
  <2> HIDE DEF value
  <2> QED BY <1>1, <2>1, <2>2, <2>4 DEF Put, IsProtocols, FilledMapOver, MapOver
<1> QED BY <1>2, <1>3

\* No map of the container ever has an empty entry (Connection.h 146, 261, 350): a map that
\* is found is never walked in vain.
THEOREM TypeCorrect == Spec => []TypeOK
<1>1. Init => TypeOK
  BY DEF Init, TypeOK, EmptyMap, MapOver
<1>2. TypeOK /\ [Next]_vars => TypeOK'
  <2> SUFFICES ASSUME TypeOK, [Next]_vars PROVE TypeOK'
    OBVIOUS
  <2>1. CASE Clear
    BY <2>1 DEF Clear, TypeOK, EmptyMap, MapOver
  <2>2. ASSUME NEW c \in Connection, AddConnection(c) PROVE TypeOK'
    <3> DEFINE protocols == At(connections, c.ip)
               value == AddProtocol(protocols, c)
    <3>1. connections' = Put(connections, c.ip, value) /\ newConnection' \in BOOLEAN
      BY <2>2 DEF AddConnection
    <3>2. MapOver(connections, Ip) /\ \A i \in DOMAIN connections : IsProtocols(connections[i])
      BY TypeOKByEntry
    <3>3. protocols = EmptyMap \/ IsProtocols(protocols)
      BY <3>2 DEF At
    <3>4. IsProtocols(value)
      BY <3>3, AddKeepsShape
    <3> HIDE DEF value
    <3>5. c.ip \in Ip
      BY DEF Connection
    <3>6. MapOver(connections', Ip) /\ \A i \in DOMAIN connections' : IsProtocols(connections'[i])
      BY <3>1, <3>2, <3>4, <3>5 DEF Put, MapOver
    <3> QED BY <3>1, <3>6 DEF TypeOK, IsProtocols, IsPorts
  <2>3. CASE UNCHANGED vars
    BY <2>3 DEF vars, TypeOK
  <2> QED BY <2>1, <2>2, <2>3 DEF Next
<1> QED BY <1>1, <1>2, PTL DEF Spec

-----------------------------------------------------------------------------
\* An add puts its connection into the maps and neither drops nor invents another one.
LEMMA AddHolds ==
  ASSUME NEW c \in Connection, AddConnection(c), NEW d \in Connection
  PROVE  Holds(d)' <=> Holds(d) \/ d = c
<1> DEFINE protocols == At(connections, c.ip)
           ports == At(protocols, c.protocol)
           newPorts == AddSourcePort(ports, c)
           newProtocols == AddProtocol(protocols, c)
<1>1. connections' = Put(connections, c.ip, newProtocols)
  BY DEF AddConnection
<1>2. newProtocols = Put(protocols, c.protocol, newPorts)
  BY DEF AddProtocol
<1>3. newPorts = Put(ports, c.srcPort, IF c.srcPort \in DOMAIN ports THEN ports[c.srcPort] \cup {c.dstPort}
                                                                    ELSE {c.dstPort})
  BY DEF AddSourcePort
<1>4. DOMAIN EmptyMap = {}
  BY DEF EmptyMap
<1>5. d = c <=> /\ d.ip = c.ip /\ d.protocol = c.protocol
                /\ d.srcPort = c.srcPort /\ d.dstPort = c.dstPort
  BY DEF Connection
<1>6. CASE d.ip # c.ip
  <2>1. d.ip \in DOMAIN connections' <=> d.ip \in DOMAIN connections
    BY <1>1, <1>6 DEF Put
  <2>2. d.ip \in DOMAIN connections => connections'[d.ip] = connections[d.ip]
    BY <1>1, <1>6 DEF Put
  <2> QED BY <1>6, <2>1, <2>2 DEF Holds
<1>7. CASE d.ip = c.ip
  <2>1. d.ip \in DOMAIN connections' /\ connections'[d.ip] = newProtocols
    BY <1>1, <1>7 DEF Put
  <2>2. Holds(d) <=> /\ d.protocol \in DOMAIN protocols
                     /\ d.srcPort \in DOMAIN protocols[d.protocol]
                     /\ d.dstPort \in protocols[d.protocol][d.srcPort]
    BY <1>4, <1>7 DEF Holds, At
  <2>3. Holds(d)' <=> /\ d.protocol \in DOMAIN newProtocols
                      /\ d.srcPort \in DOMAIN newProtocols[d.protocol]
                      /\ d.dstPort \in newProtocols[d.protocol][d.srcPort]
    BY <2>1 DEF Holds
  <2> HIDE DEF protocols, newProtocols
  <2>4. CASE d.protocol # c.protocol
    <3>1. d.protocol \in DOMAIN newProtocols <=> d.protocol \in DOMAIN protocols
      BY <1>2, <2>4 DEF Put
    <3>2. d.protocol \in DOMAIN protocols => newProtocols[d.protocol] = protocols[d.protocol]
      BY <1>2, <2>4 DEF Put
    <3> QED BY <2>2, <2>3, <2>4, <3>1, <3>2
  <2>5. CASE d.protocol = c.protocol
    <3>1. d.protocol \in DOMAIN newProtocols /\ newProtocols[d.protocol] = newPorts
      BY <1>2, <2>5 DEF Put
    <3>2. Holds(d) <=> d.srcPort \in DOMAIN ports /\ d.dstPort \in ports[d.srcPort]
      BY <1>4, <2>2, <2>5 DEF At
    <3>3. Holds(d)' <=> d.srcPort \in DOMAIN newPorts /\ d.dstPort \in newPorts[d.srcPort]
      BY <2>3, <3>1
    <3> HIDE DEF ports, newPorts
    <3>4. CASE d.srcPort # c.srcPort
      BY <1>3, <3>2, <3>3, <3>4 DEF Put
    <3>5. CASE d.srcPort = c.srcPort
      BY <1>3, <1>5, <1>7, <2>5, <3>2, <3>3, <3>5 DEF Put
    <3> QED BY <3>4, <3>5
  <2> QED BY <2>4, <2>5
<1> QED BY <1>6, <1>7

\* The maps of Connection.h implement the abstract container: addConnection adds just that
\* connection and keeps every other one, whatever ips, protocols and ports they share, and
\* clear forgets all of them.
THEOREM StoreImplemented == Spec => ImplementsStore
<1>1. Init => Store!Init
  BY DEF Init, Store!Init, stored, Holds, EmptyMap
<1>2. [Next]_vars => [Store!Next]_stored
  <2>1. ASSUME NEW c \in Connection, AddConnection(c) PROVE stored' = stored \cup {c}
    BY <2>1, AddHolds DEF stored
  <2>2. ASSUME Clear PROVE stored' = {}
    BY <2>2 DEF Clear, stored, Holds, EmptyMap
  <2>3. ASSUME UNCHANGED vars PROVE stored' = stored
    BY <2>3 DEF vars, stored, Holds
  <2> QED BY <2>1, <2>2, <2>3 DEF Next, Store!Next, Store!Add, Store!Clear
<1> QED BY <1>1, <1>2, PTL DEF Spec, ImplementsStore, Store!Spec
-----------------------------------------------------------------------------
\* Connections::search on the maps (Connection.h 396) answers what Search says of the set of
\* stored connections: since no entry is empty, an entry that is found stands for a
\* connection. So the traffic handler may be modelled with sets for containers.
THEOREM SearchIsFaithful == Spec => []SearchAgrees
<1>1. TypeOK => SearchAgrees
  <2> SUFFICES ASSUME TypeOK, NEW c \in Connection PROVE SearchMaps(c) = Search(stored, c)
    BY DEF SearchAgrees
  <2> DEFINE protocols == At(connections, c.ip)
             ports == At(protocols, c.protocol)
  <2>1. c.ip \in Ip /\ c.protocol \in Protocol /\ c.srcPort \in Port /\ c.dstPort \in Port
    BY DEF Connection
  <2>2. DOMAIN EmptyMap = {}
    BY DEF EmptyMap
  <2>3. /\ c.ip \in DOMAIN connections => protocols = connections[c.ip]
        /\ c.ip \notin DOMAIN connections => protocols = EmptyMap
        /\ c.protocol \in DOMAIN protocols => ports = protocols[c.protocol]
        /\ c.protocol \notin DOMAIN protocols => ports = EmptyMap
    BY DEF At
  <2>4. \A p, s, t : p \in DOMAIN protocols /\ s \in DOMAIN protocols[p] /\ t \in protocols[p][s] =>
          \E d \in SameIp(stored, c) : d.protocol = p /\ d.srcPort = s /\ d.dstPort = t
    <3> SUFFICES ASSUME NEW p \in DOMAIN protocols, NEW s \in DOMAIN protocols[p],
                        NEW t \in protocols[p][s]
                 PROVE  \E d \in SameIp(stored, c) : d.protocol = p /\ d.srcPort = s /\ d.dstPort = t
      OBVIOUS
    <3> DEFINE d == [ip |-> c.ip, protocol |-> p, srcPort |-> s, dstPort |-> t]
    <3>1. c.ip \in DOMAIN connections /\ protocols = connections[c.ip]
      BY <2>2, <2>3
    <3>2. p \in Protocol /\ s \in Port /\ t \in Port
      BY <3>1 DEF TypeOK, FilledMapOver, MapOver
    <3>3. d \in Connection /\ Holds(d)
      BY <2>1, <3>1, <3>2 DEF Connection, Holds
    <3> QED BY <3>3 DEF stored, SameIp
  <2>5. \A d \in SameIp(stored, c) : /\ d.protocol \in DOMAIN protocols
                                     /\ d.srcPort \in DOMAIN protocols[d.protocol]
                                     /\ d.dstPort \in protocols[d.protocol][d.srcPort]
    BY <2>3 DEF SameIp, stored, Holds
  <2>6. \A p \in DOMAIN protocols : DOMAIN protocols[p] # {} /\ \A s \in DOMAIN protocols[p] : protocols[p][s] # {}
    BY <2>2, <2>3 DEF TypeOK, FilledMapOver
  <2>7. c \in stored <=> /\ c.protocol \in DOMAIN protocols /\ c.srcPort \in DOMAIN ports
                         /\ c.dstPort \in ports[c.srcPort]
    BY <2>2, <2>3 DEF stored, Holds
  <2>8. c.protocol \in DOMAIN protocols <=> SameProtocol(stored, c) # {}
    BY <2>4, <2>5, <2>6 DEF SameProtocol
  <2>9. c.srcPort \in DOMAIN ports <=> \E d \in SameProtocol(stored, c) : d.srcPort = c.srcPort
    <3>1. ASSUME c.srcPort \in DOMAIN ports
          PROVE  \E d \in SameProtocol(stored, c) : d.srcPort = c.srcPort
      <4>1. c.protocol \in DOMAIN protocols /\ ports = protocols[c.protocol]
        BY <2>2, <2>3, <3>1
      <4>2. PICK t : t \in protocols[c.protocol][c.srcPort]
        BY <2>6, <3>1, <4>1
      <4> QED BY <2>4, <3>1, <4>1, <4>2 DEF SameProtocol
    <3>2. ASSUME NEW d \in SameProtocol(stored, c), d.srcPort = c.srcPort
          PROVE  c.srcPort \in DOMAIN ports
      BY <2>3, <2>5, <3>2 DEF SameProtocol
    <3> QED BY <3>1, <3>2
  <2>10. DstPortKnown(protocols, c) <=> \E d \in SameIp(stored, c) : d.dstPort = c.dstPort
    BY <2>4, <2>5 DEF DstPortKnown
  <2>11. SearchMaps(c) =
           IF c.protocol \notin DOMAIN protocols THEN NOTHING_FOUND
           ELSE IF c.srcPort \in DOMAIN ports
                  THEN IF c.dstPort \in ports[c.srcPort] THEN MATCH_FOUND ELSE SIMILAR_FOUND
           ELSE IF DstPortKnown(protocols, c) THEN SIMILAR_FOUND
           ELSE NOTHING_FOUND
    BY <2>2, <2>3 DEF SearchMaps
  <2> HIDE DEF protocols, ports
  <2> QED BY <2>7, <2>8, <2>9, <2>10, <2>11 DEF Search, SharesPort
<1> QED BY <1>1, TypeCorrect, PTL

\* What TSearchResult documents (Connection.h 339-344), as far as search keeps it, for any
\* number of connections.
THEOREM SearchIsAsDocumented == Spec => []SearchKeepsPromise
<1>1. SearchAgrees => SearchKeepsPromise
  <2> SUFFICES ASSUME SearchAgrees, NEW c \in Connection
               PROVE  /\ SearchMaps(c) = MATCH_FOUND <=> c \in stored
                      /\ SearchMaps(c) = NOTHING_FOUND => ~HasSimilar(c)
                      /\ SearchMaps(c) = SIMILAR_FOUND => HasSimilar(c) \/ DstPortElsewhere(c)
    BY DEF SearchKeepsPromise
  <2> USE DEF MATCH_FOUND, SIMILAR_FOUND, NOTHING_FOUND
  <2>1. SearchMaps(c) = Search(stored, c)
    BY DEF SearchAgrees
  <2>2. HasSimilar(c) => SharesPort(stored, c)
    BY DEF HasSimilar, SharesPort, SameProtocol, SameIp
  <2>3. SharesPort(stored, c) => HasSimilar(c) \/ DstPortElsewhere(c)
    BY DEF HasSimilar, DstPortElsewhere, SharesPort, SameProtocol, SameIp
  <2> QED BY <2>1, <2>2, <2>3 DEF Search
<1> QED BY <1>1, SearchIsFaithful, PTL
-----------------------------------------------------------------------------
(* Counting by walking the maps *)

\* it is what the recursive function behind MapThenSumSet may be, for the summands w.
IsSum(it, w) ==
  it = [s \in SUBSET DOMAIN w |->
          IF s = {} THEN 0 ELSE w[CHOOSE x \in s : TRUE] + it[s \ {CHOOSE x \in s : TRUE}]]

\* Such a function exists, and the sum of the sizes of disjoint sets is the size of their
\* union. That no other function will do is shown by a smallest set on which one differs.
LEMMA SumIsCount ==
  ASSUME NEW w, IsFiniteSet(DOMAIN w), NEW Q,
         \A x \in DOMAIN w : IsFiniteSet(Q[x]) /\ w[x] = Cardinality(Q[x]),
         \A x, y \in DOMAIN w : x # y => Q[x] \cap Q[y] = {}
  PROVE  /\ IsFiniteSet(UNION {Q[x] : x \in DOMAIN w})
         /\ \E it : IsSum(it, w)
         /\ \A it : IsSum(it, w) => it[DOMAIN w] = Cardinality(UNION {Q[x] : x \in DOMAIN w})
<1> DEFINE D == DOMAIN w
           All(s) == UNION {Q[x] : x \in s}
           g == [s \in SUBSET D |-> Cardinality(All(s))]
<1>1. ASSUME NEW s \in SUBSET D PROVE IsFiniteSet(s) /\ IsFiniteSet(All(s))
  <2> DEFINE T == {Q[x] : x \in s}
             f == [x \in s |-> Q[x]]
  <2>1. IsFiniteSet(s)
    BY FS_Subset
  <2>2. f \in Surjection(s, T)
    BY DEF Surjection
  <2>3. IsFiniteSet(T)
    BY <2>1, <2>2, FS_Surjection
  <2>4. \A S \in T : IsFiniteSet(S)
    OBVIOUS
  <2> HIDE DEF T
  <2>5. IsFiniteSet(UNION T)
    BY <2>3, <2>4, FS_UNION
  <2> QED BY <2>1, <2>5 DEF T
<1>2. ASSUME NEW s \in SUBSET D, NEW x \in s
      PROVE  Cardinality(All(s)) = w[x] + Cardinality(All(s \ {x}))
  <2>1. /\ IsFiniteSet(Q[x]) /\ IsFiniteSet(All(s \ {x})) /\ w[x] = Cardinality(Q[x])
        /\ Cardinality(Q[x]) \in Nat /\ Cardinality(All(s \ {x})) \in Nat
    BY <1>1, FS_CardinalityType
  <2>2. All(s) = Q[x] \cup All(s \ {x}) /\ Q[x] \cap All(s \ {x}) = {}
    OBVIOUS
  <2>3. Cardinality(Q[x] \cup All(s \ {x}))
          = Cardinality(Q[x]) + Cardinality(All(s \ {x})) - Cardinality(Q[x] \cap All(s \ {x}))
    BY <2>1, FS_Union
  <2>4. Cardinality(Q[x] \cap All(s \ {x})) = 0
    BY <2>2, FS_EmptySet
  <2>5. Cardinality(All(s)) = Cardinality(Q[x] \cup All(s \ {x}))
    BY <2>2
  <2> HIDE DEF All
  <2> QED BY <2>1, <2>3, <2>4, <2>5
<1>3. All({}) = {} /\ Cardinality({}) = 0
  BY FS_EmptySet
<1>4. \A s : s # {} => (CHOOSE x \in s : TRUE) \in s
  OBVIOUS
<1> HIDE DEF All
<1>5. IsSum(g, w)
  <2> DEFINE h == [s \in SUBSET D |->
                     IF s = {} THEN 0 ELSE w[CHOOSE x \in s : TRUE] + g[s \ {CHOOSE x \in s : TRUE}]]
  <2>1. ASSUME NEW s \in SUBSET D PROVE g[s] = h[s]
    BY <1>2, <1>3, <1>4
  <2>2. g = h
    BY <2>1
  <2> QED BY <2>2 DEF IsSum
<1>6. ASSUME NEW it, IsSum(it, w), it[D] # g[D] PROVE FALSE
  <2> DEFINE R == OpToRel(<, Nat)
             Bad == {n \in Nat : \E s \in SUBSET D : Cardinality(s) = n /\ it[s] # g[s]}
  <2>1. Bad # {} /\ Bad \subseteq Nat
    BY <1>1, <1>6, FS_CardinalityType
  <2>2. PICK n \in Bad : \A m \in Bad : ~(<<m, n>> \in R)
    BY <2>1, NatLessThanWellFounded, WFMin
  <2>3. PICK s \in SUBSET D : Cardinality(s) = n /\ it[s] # g[s]
    BY <2>2
  <2>4. it[s] = IF s = {} THEN 0 ELSE w[CHOOSE x \in s : TRUE] + it[s \ {CHOOSE x \in s : TRUE}]
    BY <1>6 DEF IsSum
  <2>5. s # {}
    BY <1>3, <2>3, <2>4
  <2>6. PICK x \in s : it[s] = w[x] + it[s \ {x}]
    BY <1>4, <2>4, <2>5
  <2>7. Cardinality(s \ {x}) \in Nat /\ Cardinality(s \ {x}) < n
    <3>1. IsFiniteSet(s) /\ IsFiniteSet(s \ {x}) /\ Cardinality(s \ {x}) = Cardinality(s) - 1
      BY <1>1, FS_RemoveElement
    <3> QED BY <2>3, <3>1, FS_CardinalityType
  <2>8. it[s \ {x}] = g[s \ {x}]
    BY <2>2, <2>7 DEF OpToRel
  <2> QED BY <1>2, <2>3, <2>6, <2>8
<1> QED BY <1>1, <1>5, <1>6 DEF All

\* The stored connections of an ip, of a protocol with it, of a source port with both.
Of(i) == {c \in stored : c.ip = i}
OfProtocol(i, p) == {c \in Of(i) : c.protocol = p}
OfPort(i, p, s) == {c \in OfProtocol(i, p) : c.srcPort = s}

\* The destination ports of a source port are its connections, one by one.
LEMMA PortCounts ==
  ASSUME TypeOK, IsFiniteSet(Port), NEW i \in DOMAIN connections,
         NEW p \in DOMAIN connections[i], NEW s \in DOMAIN connections[i][p]
  PROVE  /\ IsFiniteSet(OfPort(i, p, s))
         /\ Cardinality(connections[i][p][s]) = Cardinality(OfPort(i, p, s))
<1> DEFINE ports == connections[i][p][s]
           f == [d \in ports |-> [ip |-> i, protocol |-> p, srcPort |-> s, dstPort |-> d]]
<1>1. i \in Ip /\ p \in Protocol /\ s \in Port /\ ports \in SUBSET Port
  BY DEF TypeOK, FilledMapOver, MapOver
<1>2. IsFiniteSet(ports)
  BY <1>1, FS_Subset
<1>3. ASSUME NEW d \in ports PROVE f[d] \in OfPort(i, p, s)
  BY <1>1 DEF OfPort, OfProtocol, Of, stored, Holds, Connection
<1>4. ASSUME NEW c \in OfPort(i, p, s) PROVE c.dstPort \in ports /\ f[c.dstPort] = c
  BY DEF OfPort, OfProtocol, Of, stored, Holds, Connection
<1>5. \A d, e \in ports : f[d] = f[e] => d = e
  <2>1. \A d \in ports : f[d].dstPort = d
    OBVIOUS
  <2> QED BY <2>1
<1>6. f \in Bijection(ports, OfPort(i, p, s))
  <2>1. f \in [ports -> OfPort(i, p, s)]
    BY <1>3
  <2> HIDE DEF f, ports
  <2> QED BY <1>4, <1>5, <2>1 DEF Bijection, Injection, IsInjective, Surjection
<1>7. ExistsBijection(ports, OfPort(i, p, s))
  BY <1>6 DEF ExistsBijection
<1> QED BY <1>2, <1>7, FS_Bijection

\* getNumberOfConnections of ProtocolConnection counts the connections of its protocol.
LEMMA ProtocolCounts ==
  ASSUME TypeOK, IsFiniteSet(Port), NEW i \in DOMAIN connections, NEW p \in DOMAIN connections[i]
  PROVE  /\ IsFiniteSet(OfProtocol(i, p))
         /\ CountPorts(connections[i][p]) = Cardinality(OfProtocol(i, p))
<1> DEFINE ports == connections[i][p]
           w == [s \in DOMAIN ports |-> Cardinality(ports[s])]
           Q == [s \in DOMAIN ports |-> OfPort(i, p, s)]
           F(it) == [s \in SUBSET DOMAIN ports |-> IF s = {} THEN 0
                       ELSE Cardinality(ports[CHOOSE x \in s : TRUE])
                              + it[s \ {CHOOSE x \in s : TRUE}]]
<1>1. DOMAIN ports \subseteq Port /\ IsFiniteSet(DOMAIN ports)
  BY FS_Subset DEF TypeOK, FilledMapOver, MapOver
<1>2. OfProtocol(i, p) = UNION {Q[s] : s \in DOMAIN ports}
  BY DEF OfPort, OfProtocol, Of, stored, Holds
<1>3. CountPorts(ports) = (CHOOSE it : it = F(it))[DOMAIN ports]
  BY DEF CountPorts, MapThenSumSet, MapThenFoldSet
<1>4. ASSUME NEW it PROVE it = F(it) <=> IsSum(it, w)
  <2> DEFINE G == [s \in SUBSET DOMAIN w |-> IF s = {} THEN 0
                     ELSE w[CHOOSE x \in s : TRUE] + it[s \ {CHOOSE x \in s : TRUE}]]
  <2>1. ASSUME NEW s \in SUBSET DOMAIN ports PROVE F(it)[s] = G[s]
    <3>1. s # {} => (CHOOSE x \in s : TRUE) \in DOMAIN ports
      OBVIOUS
    <3> QED BY <3>1
  <2>2. F(it) = G
    BY <2>1
  <2> QED BY <2>2 DEF IsSum
<1>5. \A s \in DOMAIN w : IsFiniteSet(Q[s]) /\ w[s] = Cardinality(Q[s])
  BY PortCounts
<1>6. \A s, t \in DOMAIN w : s # t => Q[s] \cap Q[t] = {}
  BY DEF OfPort
<1>7. DOMAIN w = DOMAIN ports
  OBVIOUS
<1> HIDE DEF F, w, Q, ports
<1>8. /\ IsFiniteSet(UNION {Q[s] : s \in DOMAIN w}) /\ \E it : IsSum(it, w)
      /\ \A it : IsSum(it, w) => it[DOMAIN w] = Cardinality(UNION {Q[s] : s \in DOMAIN w})
  BY <1>1, <1>5, <1>6, <1>7, SumIsCount
<1> QED BY <1>2, <1>3, <1>4, <1>7, <1>8 DEF ports

\* getNumberOfConnections of IPConnection counts the connections of its ip.
LEMMA IpCounts ==
  ASSUME TypeOK, IsFiniteSet(Port), IsFiniteSet(Protocol), NEW i \in DOMAIN connections
  PROVE  /\ IsFiniteSet(Of(i))
         /\ CountProtocols(connections[i]) = Cardinality(Of(i))
<1> DEFINE protocols == connections[i]
           w == [p \in DOMAIN protocols |-> CountPorts(protocols[p])]
           Q == [p \in DOMAIN protocols |-> OfProtocol(i, p)]
           F(it) == [s \in SUBSET DOMAIN protocols |-> IF s = {} THEN 0
                       ELSE CountPorts(protocols[CHOOSE x \in s : TRUE])
                              + it[s \ {CHOOSE x \in s : TRUE}]]
<1>1. DOMAIN protocols \subseteq Protocol /\ IsFiniteSet(DOMAIN protocols)
  BY FS_Subset DEF TypeOK, FilledMapOver, MapOver
<1>2. Of(i) = UNION {Q[p] : p \in DOMAIN protocols}
  BY DEF OfProtocol, Of, stored, Holds
<1>3. CountProtocols(protocols) = (CHOOSE it : it = F(it))[DOMAIN protocols]
  BY DEF CountProtocols, MapThenSumSet, MapThenFoldSet
<1>4. ASSUME NEW it PROVE it = F(it) <=> IsSum(it, w)
  <2> DEFINE G == [s \in SUBSET DOMAIN w |-> IF s = {} THEN 0
                     ELSE w[CHOOSE x \in s : TRUE] + it[s \ {CHOOSE x \in s : TRUE}]]
  <2>1. ASSUME NEW s \in SUBSET DOMAIN protocols PROVE F(it)[s] = G[s]
    <3>1. s # {} => (CHOOSE x \in s : TRUE) \in DOMAIN protocols
      OBVIOUS
    <3> QED BY <3>1
  <2>2. F(it) = G
    BY <2>1
  <2> QED BY <2>2 DEF IsSum
<1>5. \A p \in DOMAIN w : IsFiniteSet(Q[p]) /\ w[p] = Cardinality(Q[p])
  BY ProtocolCounts
<1>6. \A p, q \in DOMAIN w : p # q => Q[p] \cap Q[q] = {}
  BY DEF OfProtocol
<1>7. DOMAIN w = DOMAIN protocols
  OBVIOUS
<1> HIDE DEF F, w, Q, protocols
<1>8. /\ IsFiniteSet(UNION {Q[p] : p \in DOMAIN w}) /\ \E it : IsSum(it, w)
      /\ \A it : IsSum(it, w) => it[DOMAIN w] = Cardinality(UNION {Q[p] : p \in DOMAIN w})
  BY <1>1, <1>5, <1>6, <1>7, SumIsCount
<1> QED BY <1>2, <1>3, <1>4, <1>7, <1>8 DEF protocols

\* Walking the maps gives the answers the set of what was added gives: search, as far as it
\* keeps the promise of Connection.h 342, and the number of connections, with which getOpenConnectionsAsSafeArray (HookingEngine.cpp 958, 998)
\* allocates the array it fills by walking the maps. Addresses, protocols and ports are
\* machine words, so there are finitely many of each.
THEOREM AnswersAreRight ==
  ASSUME IsFiniteSet(Ip), IsFiniteSet(Protocol), IsFiniteSet(Port)
  PROVE  Spec => []AnswersAgree
<1>1. TypeOK => NumberOfConnections = Cardinality(stored)
  <2> SUFFICES ASSUME TypeOK PROVE NumberOfConnections = Cardinality(stored)
    OBVIOUS
  <2> DEFINE w == [i \in DOMAIN connections |-> CountProtocols(connections[i])]
             Q == [i \in DOMAIN connections |-> Of(i)]
             F(it) == [s \in SUBSET DOMAIN connections |-> IF s = {} THEN 0
                         ELSE CountProtocols(connections[CHOOSE x \in s : TRUE])
                                + it[s \ {CHOOSE x \in s : TRUE}]]
  <2>1. DOMAIN connections \subseteq Ip /\ IsFiniteSet(DOMAIN connections)
    BY FS_Subset DEF TypeOK, MapOver
  <2>2. stored = UNION {Q[i] : i \in DOMAIN connections}
    BY DEF Of, stored, Holds
  <2>3. NumberOfConnections = (CHOOSE it : it = F(it))[DOMAIN connections]
    BY DEF NumberOfConnections, MapThenSumSet, MapThenFoldSet
  <2>4. ASSUME NEW it PROVE it = F(it) <=> IsSum(it, w)
    <3> DEFINE G == [s \in SUBSET DOMAIN w |-> IF s = {} THEN 0
                       ELSE w[CHOOSE x \in s : TRUE] + it[s \ {CHOOSE x \in s : TRUE}]]
    <3>1. ASSUME NEW s \in SUBSET DOMAIN connections PROVE F(it)[s] = G[s]
      <4>1. s # {} => (CHOOSE x \in s : TRUE) \in DOMAIN connections
        OBVIOUS
      <4> QED BY <4>1
    <3>2. F(it) = G
      BY <3>1
    <3> QED BY <3>2 DEF IsSum
  <2>5. \A i \in DOMAIN w : IsFiniteSet(Q[i]) /\ w[i] = Cardinality(Q[i])
    BY IpCounts
  <2>6. \A i, j \in DOMAIN w : i # j => Q[i] \cap Q[j] = {}
    BY DEF Of
  <2>7. DOMAIN w = DOMAIN connections
    OBVIOUS
  <2> HIDE DEF F, w, Q
  <2>8. /\ IsFiniteSet(UNION {Q[i] : i \in DOMAIN w}) /\ \E it : IsSum(it, w)
        /\ \A it : IsSum(it, w) => it[DOMAIN w] = Cardinality(UNION {Q[i] : i \in DOMAIN w})
    BY <2>1, <2>5, <2>6, <2>7, SumIsCount
  <2> QED BY <2>2, <2>3, <2>4, <2>7, <2>8
<1> QED BY <1>1, TypeCorrect, SearchIsFaithful, SearchIsAsDocumented, PTL DEF AnswersAgree
=============================================================================
