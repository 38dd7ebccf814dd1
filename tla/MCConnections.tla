----------------------------- MODULE MCConnections -----------------------------
(* Connections on two ips, two protocols and two ports: 16 connections, every set of them. *)
EXTENDS Connections, TLC

Symmetry == Permutations(Ip) \cup Permutations(Protocol) \cup Permutations(Port)
=============================================================================
