---- MODULE PortMatching ----
(****************************************************************************)
(* How a Bottom instance selects the channels of a call (Surface/Bottom.cs) *)
(* from its own list of open connections and the list it got from its peer. *)
(*                                                                          *)
(* A list of connections is a pair of sets, the connections packets were    *)
(* received on (in) and sent on (out).  A connection has the address of the *)
(* peer, the source and destination port as written in the packets, and the *)
(* protocol, so one channel has the same ports in both peers' lists.        *)
(****************************************************************************)
EXTENDS Integers, FiniteSets, Functions

IsConnection(c) == c = [ip |-> c.ip, src |-> c.src, dst |-> c.dst, protocol |-> c.protocol]

IsLists(lists) ==
  /\ lists = [in |-> lists.in, out |-> lists.out]
  /\ \A c \in lists.in \cup lists.out : IsConnection(c)

Ips(list) == {c.ip : c \in list}

SyncIps(list, other) == {c \in list : c.ip \in Ips(other)}

(* Only addresses that appear in both directions are kept. *)
Synced(lists) ==
  LET in == SyncIps(lists.in, lists.out)
  IN  [in |-> in, out |-> SyncIps(lists.out, in)]

(* The addresses are replaced by numbers, the same one in both lists. *)
Replacements(lists) ==
  LET ips == Ips(lists.in \cup lists.out)
  IN  Injection(ips, 0 .. Cardinality(ips) - 1)

Anonymous(list, replacement) == {[c EXCEPT !.ip = replacement[c.ip]] : c \in list}

AnonymousLists(lists, replacement) ==
  [in |-> Anonymous(lists.in, replacement), out |-> Anonymous(lists.out, replacement)]

Channel(c) == [src |-> c.src, dst |-> c.dst, protocol |-> c.protocol]

Opposite(ch) == [src |-> ch.dst, dst |-> ch.src, protocol |-> ch.protocol]

(* A mutant: the destination ports are not compared.                        *)
MatchesBySource(own, theirs) ==
  {[ip |-> pair[1].ip, placeholder |-> pair[2].ip, channel |-> Channel(pair[1])] :
     pair \in {x \in own \X theirs : x[1].src = x[2].src /\ x[1].protocol = x[2].protocol}}

(* All pairs of an own connection and one of the peer's with equal ports    *)
(* and protocol.                                                            *)
FindPortMatches(own, theirs) ==
  {[ip |-> pair[1].ip, placeholder |-> pair[2].ip, channel |-> Channel(pair[1])] :
     pair \in {x \in own \X theirs : Channel(x[1]) = Channel(x[2])}}

MatchesIn(own, theirs)  == FindPortMatches(own.in, theirs.out)
MatchesOut(own, theirs) == FindPortMatches(own.out, theirs.in)

(* The matches select channels if there are some and all of them are of one *)
(* pair of an address and a placeholder.                                    *)
OnePair(matches) == \A m, n \in matches : m.ip = n.ip /\ m.placeholder = n.placeholder

Selects(own, theirs) ==
  LET matches == MatchesIn(own, theirs) \cup MatchesOut(own, theirs)
  IN  matches # {} /\ OnePair(matches)

(* A conflict is logged with the first of the incoming matches: if there is *)
(* none, an exception is thrown that nobody catches.                        *)
SelectionThrows(own, theirs) ==
  MatchesIn(own, theirs) = {} /\ ~OnePair(MatchesOut(own, theirs))

Channels(matches) == {m.channel : m \in matches}

Opposites(channels) == {Opposite(ch) : ch \in channels}

(* generateBoundChannelMatches: an empty direction is cloned from the other.*)
Selection(own, theirs) ==
  LET in  == Channels(MatchesIn(own, theirs))
      out == Channels(MatchesOut(own, theirs))
  IN  [ip  |-> (CHOOSE m \in MatchesIn(own, theirs) \cup MatchesOut(own, theirs) : TRUE).ip,
       in  |-> IF in = {} THEN Opposites(out) ELSE in,
       out |-> IF out = {} THEN Opposites(in) ELSE out]

(* ChannelMatchesList.equals compares lengths and one inclusion.            *)
EqualLists(this, other) == Cardinality(this) = Cardinality(other) /\ other \subseteq this

(* evaluateReceivedMatches *)
AcceptsMatches(selection, matches) ==
  /\ EqualLists(matches.in, selection.out)
  /\ EqualLists(matches.out, selection.in)
====
