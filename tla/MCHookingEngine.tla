---------------------------- MODULE MCHookingEngine ----------------------------
(* Instances of HookingEngine: one connection with a peer, packets of which are sent, and *)
(* at most two sessions that may own it.                                                   *)
EXTENDS HookingEngine, TLC

Conn(ip, src, dst) == [ip |-> ip, protocol |-> "udp", srcPort |-> src, dstPort |-> dst]
peer1 == Conn("peer", 1, 2)

OneConnection == {peer1}
NoConnections == {}
TwoSessions == {1, 2}
OnlyExpandable == {TRUE}
NoPolicies == {}
OnePolicy == {TIGHT}
NoOffers == {}
=============================================================================
