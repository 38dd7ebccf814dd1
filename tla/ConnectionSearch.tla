--------------------------- MODULE ConnectionSearch ---------------------------
(***************************************************************************)
(* Connections as Bottom compares them (Bottom/Connection.h): a connection *)
(* is a record [ip, protocol, srcPort, dstPort], a container of            *)
(* connections is the set of the connections that were added to it.        *)
(* Search is the answer of Connections::search on that set; module         *)
(* Connections shows that the nested maps of the code compute it.          *)
(***************************************************************************)

MATCH_FOUND   == "MATCH_FOUND"
SIMILAR_FOUND == "SIMILAR_FOUND"
NOTHING_FOUND == "NOTHING_FOUND"

\* TSearchResult.
SearchResult == {MATCH_FOUND, SIMILAR_FOUND, NOTHING_FOUND}

\* The stored connections with the ip of c, and those that also have its protocol.
SameIp(stored, c) == {d \in stored : d.ip = c.ip}
SameProtocol(stored, c) == {d \in SameIp(stored, c) : d.protocol = c.protocol}

(***************************************************************************)
(* A connection other than c makes c similar if it has c's ip, protocol    *)
(* and source port. The search for c's destination port runs over every    *)
(* protocol of the ip, once c's own protocol is known there, although the  *)
(* comment on SIMILAR_FOUND asks for an equal protocol (Connection.h 342,  *)
(* 425); Connections states what of it holds.                              *)
(***************************************************************************)
SharesPort(stored, c) ==
  \/ \E d \in SameProtocol(stored, c) : d.srcPort = c.srcPort
  \/ /\ SameProtocol(stored, c) # {}
     /\ \E d \in SameIp(stored, c) : d.dstPort = c.dstPort

Search(stored, c) ==
  IF c \in stored THEN MATCH_FOUND
  ELSE IF SharesPort(stored, c) THEN SIMILAR_FOUND
  ELSE NOTHING_FOUND
=============================================================================
