---------------------------- MODULE MCTrafficHandler ----------------------------
(***************************************************************************)
(* Instances of TrafficHandler: an established connection with a peer, a   *)
(* second one to the same peer (another port), one to another host, one to *)
(* the loopback address; session objects for the established connection.   *)
(***************************************************************************)
EXTENDS TrafficHandler, TLC

Conn(ip, src, dst) == [ip |-> ip, protocol |-> "udp", srcPort |-> src, dstPort |-> dst]
peer1 == Conn("peer", 1, 2)
peer2 == Conn("peer", 1, 3)
other == Conn("other", 4, 2)
local == Conn("localhost", 1, 2)

CONSTANTS k1, k2, weak

SessionOf(conns, e, k) == [in |-> conns, out |-> conns, expand |-> e, key |-> k]

MCPeer == {peer1, peer2}
MCConnection == {peer1, peer2, other, local}
OneSession == {1}
TwoSessions == {1, 2}
MCKey == {k1, k2, weak}
MCWeakKey == {weak}
OneOffer == {SessionOf({peer1}, TRUE, k1)}
TwoOffers == {SessionOf({peer1}, TRUE, k1), SessionOf({peer1}, FALSE, weak)}
AllPolicies == {VERY_LOOSE, LOOSE, TIGHT}
TightOrNot == {VERY_LOOSE, TIGHT}
TightNoMore == {VERY_LOOSE, LOOSE}

Symmetry == Permutations(Threads)
=============================================================================
