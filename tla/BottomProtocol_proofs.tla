---- MODULE BottomProtocol_proofs ----
(****************************************************************************)
(* Theorems of PortMatching and BottomProtocol, for any lists of open       *)
(* connections and any lost messages, refused calls and ends of the call:   *)
(* the two peers select mirrored channels, a session that encrypts has all  *)
(* of them, and no peer secures channels the other did not agree to.        *)
(****************************************************************************)
EXTENDS BottomProtocol, SequenceTheorems, TLAPS

----
(* The selection of channels                                                *)

AreConnections(S) == \A c \in S : IsConnection(c)

(* A connection of A and one of B that are the same channel.                *)
SameChannel(A, B) == {x \in A \X B : Channel(x[1]) = Channel(x[2])}

(* What the replacements do to a connection: it keeps its channel.          *)
LEMMA AnonymousKeeps ==
  ASSUME NEW c, IsConnection(c), NEW n
  PROVE  /\ [c EXCEPT !.ip = n].ip = n
         /\ Channel([c EXCEPT !.ip = n]) = Channel(c)
  BY DEF IsConnection, Channel

(* Replaced addresses differ if and only if the addresses do.               *)
LEMMA ReplacementIsInjective ==
  ASSUME NEW lists, NEW r \in Replacements(lists),
         NEW i \in Ips(lists.in \cup lists.out), NEW j \in Ips(lists.in \cup lists.out)
  PROVE  r[i] = r[j] <=> i = j
  BY DEF Replacements, Injection, IsInjective

MatchesBehind(A, B, s) ==
  {[ip |-> x[1].ip, placeholder |-> s[x[2].ip], channel |-> Channel(x[1])] :
     x \in SameChannel(A, B)}

(* The matches of a list with an anonymous one, in terms of the connections *)
(* behind the placeholders.                                                 *)
LEMMA MatchesOfPairs ==
  ASSUME NEW A, NEW B, AreConnections(A), AreConnections(B), NEW s
  PROVE  FindPortMatches(A, Anonymous(B, s)) = MatchesBehind(A, B, s)
<1> DEFINE T == Anonymous(B, s)
           P == {y \in A \X T : Channel(y[1]) = Channel(y[2])}
           M(y) == [ip |-> y[1].ip, placeholder |-> y[2].ip, channel |-> Channel(y[1])]
           N(x) == [ip |-> x[1].ip, placeholder |-> s[x[2].ip], channel |-> Channel(x[1])]
<1>1. ASSUME NEW y \in P PROVE \E x \in SameChannel(A, B) : M(y) = N(x)
  <2>1. PICK b \in B : y[2] = [b EXCEPT !.ip = s[b.ip]]
    BY <1>1 DEF Anonymous
  <2>2. y[2].ip = s[b.ip] /\ Channel(y[2]) = Channel(b)
    BY <2>1, AnonymousKeeps DEF AreConnections
  <2>3. <<y[1], b>> \in SameChannel(A, B)
    BY <1>1, <2>2 DEF SameChannel
  <2>4. M(y) = N(<<y[1], b>>)
    BY <2>2
  <2> QED BY <2>3, <2>4
<1>2. ASSUME NEW x \in SameChannel(A, B) PROVE \E y \in P : N(x) = M(y)
  <2> DEFINE t == [x[2] EXCEPT !.ip = s[x[2].ip]]
  <2>1. x[1] \in A /\ x[2] \in B /\ Channel(x[1]) = Channel(x[2])
    BY <1>2 DEF SameChannel
  <2>2. t.ip = s[x[2].ip] /\ Channel(t) = Channel(x[2])
    BY <2>1, AnonymousKeeps DEF AreConnections
  <2>3. t \in T
    BY <2>1 DEF Anonymous
  <2>4. <<x[1], t>> \in P
    BY <2>1, <2>2, <2>3
  <2>5. N(x) = M(<<x[1], t>>)
    BY <2>2
  <2> QED BY <2>4, <2>5
<1>3. FindPortMatches(A, T) = {M(y) : y \in P}
  BY DEF FindPortMatches
<1> HIDE DEF M, N, P
<1>4. {M(y) : y \in P} = {N(x) : x \in SameChannel(A, B)}
  BY <1>1, <1>2
<1> QED BY <1>3, <1>4 DEF N, MatchesBehind

(* The pairs of connections behind all matches of the two lists.            *)
Pairs(ours, others) == SameChannel(ours.in, others.out) \cup SameChannel(ours.out, others.in)

OneIpPair(pairs) ==
  /\ pairs # {}
  /\ \A x, y \in pairs : x[1].ip = y[1].ip /\ x[2].ip = y[2].ip

(* Whether a peer selects channels depends on the real addresses only: all  *)
(* pairs must be of one address on either side.                             *)
LEMMA SelectsByIps ==
  ASSUME NEW ours, NEW lists, IsLists(ours), IsLists(lists), NEW s \in Replacements(lists)
  PROVE  Selects(ours, AnonymousLists(lists, s)) <=> OneIpPair(Pairs(ours, lists))
<1> DEFINE turned == AnonymousLists(lists, s)
           N(x) == [ip |-> x[1].ip, placeholder |-> s[x[2].ip], channel |-> Channel(x[1])]
           matches == MatchesIn(ours, turned) \cup MatchesOut(ours, turned)
<1>1. matches = {N(x) : x \in Pairs(ours, lists)}
  <2>1. MatchesIn(ours, turned) = MatchesBehind(ours.in, lists.out, s)
    BY MatchesOfPairs DEF MatchesIn, AnonymousLists, IsLists, AreConnections
  <2>2. MatchesOut(ours, turned) = MatchesBehind(ours.out, lists.in, s)
    BY MatchesOfPairs DEF MatchesOut, AnonymousLists, IsLists, AreConnections
  <2>3. /\ MatchesBehind(ours.in, lists.out, s) = {N(x) : x \in SameChannel(ours.in, lists.out)}
        /\ MatchesBehind(ours.out, lists.in, s) = {N(x) : x \in SameChannel(ours.out, lists.in)}
    BY DEF MatchesBehind
  <2> HIDE DEF N, turned
  <2> QED BY <2>1, <2>2, <2>3 DEF Pairs
<1>2. ASSUME NEW x \in Pairs(ours, lists), NEW y \in Pairs(ours, lists)
      PROVE  /\ N(x).ip = N(y).ip <=> x[1].ip = y[1].ip
             /\ N(x).placeholder = N(y).placeholder <=> x[2].ip = y[2].ip
  <2>1. x[2] \in lists.in \cup lists.out /\ y[2] \in lists.in \cup lists.out
    BY <1>2 DEF Pairs, SameChannel
  <2>2. x[2].ip \in Ips(lists.in \cup lists.out) /\ y[2].ip \in Ips(lists.in \cup lists.out)
    BY <2>1 DEF Ips
  <2> QED BY <2>2, ReplacementIsInjective
<1>3. Selects(ours, turned) <=>
        /\ matches # {}
        /\ \A m, n \in matches : m.ip = n.ip /\ m.placeholder = n.placeholder
  BY DEF Selects, OnePair
<1> HIDE DEF N, matches, turned
<1>4. matches = {} <=> Pairs(ours, lists) = {}
  BY <1>1
<1>5. (\A m, n \in matches : m.ip = n.ip /\ m.placeholder = n.placeholder)
        <=> \A x, y \in Pairs(ours, lists) : x[1].ip = y[1].ip /\ x[2].ip = y[2].ip
  BY <1>1, <1>2
<1> QED BY <1>3, <1>4, <1>5 DEF OneIpPair, turned

(* The pairs of the other side are the same pairs, turned around.           *)
LEMMA PairsTurned ==
  ASSUME NEW A, NEW B, NEW x
  PROVE  x \in SameChannel(A, B) => <<x[2], x[1]>> \in SameChannel(B, A)
  BY DEF SameChannel

(* Both peers find the same channels in the matches of one direction.       *)
LEMMA SameChannels ==
  ASSUME NEW A, NEW B, AreConnections(A), AreConnections(B), NEW r, NEW s
  PROVE  Channels(FindPortMatches(A, Anonymous(B, s))) =
           Channels(FindPortMatches(B, Anonymous(A, r)))
<1>1. ASSUME NEW C, NEW D, AreConnections(C), AreConnections(D), NEW t
      PROVE  Channels(FindPortMatches(C, Anonymous(D, t))) =
               {Channel(x[1]) : x \in SameChannel(C, D)}
  <2> DEFINE N(x) == [ip |-> x[1].ip, placeholder |-> t[x[2].ip], channel |-> Channel(x[1])]
  <2>1. FindPortMatches(C, Anonymous(D, t)) = {N(x) : x \in SameChannel(C, D)}
    <3>1. FindPortMatches(C, Anonymous(D, t)) = MatchesBehind(C, D, t)
      BY <1>1, MatchesOfPairs
    <3>2. MatchesBehind(C, D, t) = {N(x) : x \in SameChannel(C, D)}
      BY DEF MatchesBehind
    <3> QED BY <3>1, <3>2
  <2>2. \A x : N(x).channel = Channel(x[1])
    OBVIOUS
  <2> HIDE DEF N
  <2> QED BY <2>1, <2>2 DEF Channels
<1>2. {Channel(x[1]) : x \in SameChannel(A, B)} = {Channel(x[1]) : x \in SameChannel(B, A)}
  <2>1. ASSUME NEW C, NEW D, NEW x \in SameChannel(C, D)
        PROVE  \E y \in SameChannel(D, C) : Channel(x[1]) = Channel(y[1])
    <3>1. <<x[2], x[1]>> \in SameChannel(D, C) /\ Channel(x[2]) = Channel(x[1])
      BY <2>1 DEF SameChannel
    <3> QED BY <3>1
  <2> QED BY <2>1
<1> QED BY <1>1, <1>2

(* Two peers that compare the same two lists, with any replacement of the   *)
(* addresses, come to the same result: either neither selects channels, or  *)
(* what one receives on is what the other sends on.  So the comparison of   *)
(* the selections in evaluateReceivedMatches (Bottom.cs) succeeds.          *)
THEOREM SelectionsMirror ==
  ASSUME NEW ours, NEW lists, IsLists(ours), IsLists(lists),
         NEW r \in Replacements(ours), NEW s \in Replacements(lists)
  PROVE  LET mine   == AnonymousLists(lists, s)
             turned == AnonymousLists(ours, r)
         IN  /\ Selects(ours, mine) <=> Selects(lists, turned)
             /\ Selection(ours, mine).in = Selection(lists, turned).out
             /\ Selection(ours, mine).out = Selection(lists, turned).in
             /\ AcceptsMatches(Selection(ours, mine), Selection(lists, turned))
<1> DEFINE mine == AnonymousLists(lists, s)
           turned == AnonymousLists(ours, r)
<1>1. Selects(ours, mine) <=> Selects(lists, turned)
  <2>1. OneIpPair(Pairs(ours, lists)) <=> OneIpPair(Pairs(lists, ours))
    <3>1. ASSUME NEW C, NEW D, NEW x \in Pairs(C, D)
          PROVE  <<x[2], x[1]>> \in Pairs(D, C)
      BY <3>1, PairsTurned DEF Pairs
    <3>2. ASSUME NEW C, NEW D, OneIpPair(Pairs(C, D)) PROVE OneIpPair(Pairs(D, C))
      <4>1. Pairs(D, C) # {}
        BY <3>1, <3>2 DEF OneIpPair
      <4>2. ASSUME NEW x \in Pairs(D, C), NEW y \in Pairs(D, C)
            PROVE  x[1].ip = y[1].ip /\ x[2].ip = y[2].ip
        <5>1. <<x[2], x[1]>> \in Pairs(C, D) /\ <<y[2], y[1]>> \in Pairs(C, D)
          BY <3>1, <4>2
        <5> QED BY <3>2, <5>1 DEF OneIpPair
      <4> QED BY <4>1, <4>2 DEF OneIpPair
    <3> QED BY <3>2
  <2> QED BY <2>1, SelectsByIps
<1>2. /\ Channels(MatchesIn(ours, mine)) = Channels(MatchesOut(lists, turned))
      /\ Channels(MatchesOut(ours, mine)) = Channels(MatchesIn(lists, turned))
  BY SameChannels DEF MatchesIn, MatchesOut, AnonymousLists, IsLists, AreConnections
<1>3. /\ Selection(ours, mine).in = Selection(lists, turned).out
      /\ Selection(ours, mine).out = Selection(lists, turned).in
  BY <1>2 DEF Selection
<1>4. AcceptsMatches(Selection(ours, mine), Selection(lists, turned))
  BY <1>3 DEF AcceptsMatches, EqualLists
<1> QED BY <1>1, <1>3, <1>4

(* The exception that generateBoundChannelMatches (Bottom.cs) throws by     *)
(* accident never hits both peers of a run: when the selection of one peer  *)
(* throws, the other's does not, and finds no channels, so that the abort   *)
(* it sends ends the run of both.                                           *)
THEOREM OnlyOneThrows ==
  ASSUME NEW ours, NEW lists, IsLists(ours), IsLists(lists),
         NEW r \in Replacements(ours), NEW s \in Replacements(lists),
         SelectionThrows(ours, AnonymousLists(lists, s))
  PROVE  /\ ~SelectionThrows(lists, AnonymousLists(ours, r))
         /\ ~Selects(lists, AnonymousLists(ours, r))
<1> DEFINE mine == AnonymousLists(lists, s)
           turned == AnonymousLists(ours, r)
<1>1. MatchesIn(ours, mine) = {} /\ ~OnePair(MatchesOut(ours, mine))
  BY DEF SelectionThrows
<1>2. ~Selects(ours, mine)
  BY <1>1 DEF Selects, OnePair
<1>3. ~Selects(lists, turned)
  BY <1>2, SelectionsMirror
<1>4. MatchesIn(lists, turned) # {}
  <2>1. Channels(MatchesOut(ours, mine)) = Channels(MatchesIn(lists, turned))
    BY SameChannels DEF MatchesIn, MatchesOut, AnonymousLists, IsLists, AreConnections
  <2>2. MatchesOut(ours, mine) # {}
    BY <1>1 DEF OnePair
  <2> QED BY <2>1, <2>2 DEF Channels
<1> QED BY <1>3, <1>4 DEF SelectionThrows

----
(* The two peers, and what a step may change                                *)

(* There are two of them, each the other of the other.                      *)
LEMMA TwoPeers ==
  ASSUME NEW p \in Peer
  PROVE  /\ Other(p) \in Peer /\ Other(p) # p /\ Other(Other(p)) = p
         /\ \A q \in Peer : q = p \/ q = Other(p)
  BY PeersAssumption DEF Other

Surfaces == {"notYet", "routing", "over"}
Steps == {"idle", "create", "incoming", "outgoing", "start"}
Statuses == {"none", "created", "running"}

IsSession(s) == s = [status |-> s.status, in |-> s.in, out |-> s.out] /\ s.status \in Statuses

(* Every variable is a function on the peers, and those that direct the run *)
(* have a value of their kind.                                              *)
FlagsOK ==
  /\ running \in [Peer -> BOOLEAN] /\ gotKey \in [Peer -> BOOLEAN] /\ closed \in [Peer -> BOOLEAN]
  /\ lost \in BOOLEAN
RunOK ==
  /\ state \in [Peer -> States] /\ surface \in [Peer -> Surfaces] /\ step \in [Peer -> Steps]
  /\ DOMAIN session = Peer /\ \A p \in Peer : IsSession(session[p])
DataOK ==
  /\ DOMAIN own = Peer /\ DOMAIN theirs = Peer /\ DOMAIN theirMatches = Peer /\ DOMAIN channels = Peer
  /\ DOMAIN net = Peer /\ DOMAIN current = Peer /\ DOMAIN todo = Peer
Types == FlagsOK /\ RunOK /\ DataOK

Step(p) ==
  \/ Encrypt(p) \/ RouteWithoutKey(p) \/ Deploy(p) \/ Lose(p)
  \/ Handle(p)
  \/ SecureChannel(p)
  \/ Close(p)

(* The flags of a peer are Boolean.                                         *)
LEMMA FlagsKept ==
  ASSUME FlagsOK, NEW p \in Peer, Step(p)
  PROVE  FlagsOK'
<1>1. /\ running' = running \/ running' = [running EXCEPT ![p] = FALSE]
      /\ gotKey' = gotKey \/ gotKey' = [gotKey EXCEPT ![p] = TRUE]
      /\ closed' = closed \/ closed' = [closed EXCEPT ![p] = TRUE]
      /\ lost' = lost \/ lost' = TRUE
  <2> USE DEF protocolVars, secureVars, Send, SendNothing
  <2>1. CASE Handle(p)
    <3> USE DEF Handling, Ignored, InvalidMessage, TearDown, FindMatches
    <3>1. CASE RequestConnectionsReceived(p)
      BY <3>1 DEF RequestConnectionsReceived
    <3>2. CASE MyConnectionsReceived(p)
      BY <3>2 DEF MyConnectionsReceived
    <3>3. CASE MatchesReceived(p)
      BY <3>3 DEF MatchesReceived
    <3>4. CASE ConfirmReceived(p) \/ AbortReceived(p)
      BY <3>4 DEF ConfirmReceived, AbortReceived
    <3> QED BY <2>1, <3>1, <3>2, <3>3, <3>4 DEF Handle
  <2>2. CASE SecureChannel(p)
    BY <2>2 DEF SecureChannel, CreateSession, AddIncoming, AddOutgoing, StartSession, Calling
  <2>3. CASE Encrypt(p) \/ RouteWithoutKey(p) \/ Deploy(p) \/ Lose(p) \/ Close(p)
    BY <2>3 DEF Encrypt, RouteWithoutKey, Deploy, Lose, Close
  <2> QED BY <2>1, <2>2, <2>3 DEF Step
<1>2. ASSUME NEW f \in [Peer -> BOOLEAN], NEW b \in BOOLEAN
      PROVE  [f EXCEPT ![p] = b] \in [Peer -> BOOLEAN]
  OBVIOUS
<1>3. TRUE \in BOOLEAN /\ FALSE \in BOOLEAN
  BY Zenon
<1>4. running' \in [Peer -> BOOLEAN] /\ gotKey' \in [Peer -> BOOLEAN] /\ closed' \in [Peer -> BOOLEAN]
  BY <1>1, <1>2, <1>3, Zenon DEF FlagsOK
<1>5. lost' \in BOOLEAN
  BY <1>1, <1>3, Zenon DEF FlagsOK
<1> QED BY <1>4, <1>5, Zenon DEF FlagsOK

(* The data of the run and the mail are kept for each peer.                 *)
LEMMA DataKept ==
  ASSUME Types, NEW p \in Peer, Step(p)
  PROVE  DataOK'
<1> USE DEF Types, DataOK, protocolVars, secureVars, Send, SendNothing, Once
<1>1. CASE Handle(p)
  <2> USE DEF Handling, Ignored, InvalidMessage
  <2>1. CASE RequestConnectionsReceived(p)
    <3>1. DOMAIN theirs' = Peer /\ DOMAIN theirMatches' = Peer /\ DOMAIN current' = Peer /\ DOMAIN todo' = Peer
      BY <2>1 DEF RequestConnectionsReceived
    <3>2. DOMAIN own' = Peer
      BY <2>1 DEF RequestConnectionsReceived
    <3>3. DOMAIN channels' = Peer /\ DOMAIN net' = Peer
      BY <2>1 DEF RequestConnectionsReceived, FindMatches
    <3> QED BY <3>1, <3>2, <3>3
  <2>2. CASE MyConnectionsReceived(p)
    BY <2>2 DEF MyConnectionsReceived, FindMatches
  <2>3. CASE MatchesReceived(p)
    BY <2>3 DEF MatchesReceived
  <2>4. CASE ConfirmReceived(p) \/ AbortReceived(p)
    BY <2>4 DEF ConfirmReceived, AbortReceived
  <2> QED BY <1>1, <2>1, <2>2, <2>3, <2>4 DEF Handle
<1>2. CASE SecureChannel(p)
  BY <1>2 DEF SecureChannel, CreateSession, AddIncoming, AddOutgoing, StartSession, Calling, Throw
<1>3. CASE Encrypt(p)
  BY <1>3 DEF Encrypt
<1>4. CASE RouteWithoutKey(p) \/ Deploy(p) \/ Lose(p) \/ Close(p)
  BY <1>4 DEF RouteWithoutKey, Deploy, Lose, Close
<1> QED BY <1>1, <1>2, <1>3, <1>4 DEF Step

(* What the calls of startSecureChannel make of a session.                  *)
LEMMA SessionExcept ==
  ASSUME NEW s, IsSession(s), NEW c
  PROVE  /\ [s EXCEPT !.in = @ \cup {c}] = [status |-> s.status, in |-> s.in \cup {c}, out |-> s.out]
         /\ [s EXCEPT !.out = @ \cup {c}] = [status |-> s.status, in |-> s.in, out |-> s.out \cup {c}]
         /\ [s EXCEPT !.status = "running"] = [status |-> "running", in |-> s.in, out |-> s.out]
  BY SMTT(30) DEF IsSession

(* A session that was just created has no connections.                      *)
LEMMA CreatedSession ==
  [NoSession EXCEPT !.status = "created"] = [status |-> "created", in |-> {}, out |-> {}]
<1> DEFINE s == NoSession
<1>1. s = [status |-> s.status, in |-> s.in, out |-> s.out] /\ s.in = {} /\ s.out = {}
  BY DEF NoSession
<1> HIDE DEF s
<1>2. [s EXCEPT !.status = "created"] = [status |-> "created", in |-> s.in, out |-> s.out]
  BY <1>1
<1>3. [s EXCEPT !.status = "created"] = [status |-> "created", in |-> {}, out |-> {}]
  BY <1>1, <1>2
<1> QED BY <1>3 DEF s

(* The status, the state and the step of each peer are of their kind.       *)
LEMMA RunKept ==
  ASSUME Types, NEW p \in Peer, Step(p)
  PROVE  RunOK'
<1> USE DEF Types, RunOK, protocolVars, secureVars
<1>1. ASSUME NEW s \in Statuses, NEW i, NEW o
      PROVE  IsSession([status |-> s, in |-> i, out |-> o])
  BY DEF IsSession
<1>2. CASE Handle(p)
  <2>1. UNCHANGED <<surface, session>>
    BY <1>2 DEF Handle, RequestConnectionsReceived, MyConnectionsReceived, MatchesReceived, ConfirmReceived,
                AbortReceived, Handling
  <2>2. step' = step \/ step' = [step EXCEPT ![p] = "create"]
    BY <1>2 DEF Handle, RequestConnectionsReceived, MyConnectionsReceived, MatchesReceived, ConfirmReceived,
                AbortReceived, Handling
  <2>3. \E s \in States : state' = state \/ state' = [state EXCEPT ![p] = s]
    <3> USE DEF Ignored, InvalidMessage, FindMatches, ChangeState, States
    <3>1. CASE RequestConnectionsReceived(p)
      BY <3>1 DEF RequestConnectionsReceived
    <3>2. CASE MyConnectionsReceived(p)
      BY <3>2 DEF MyConnectionsReceived
    <3>3. CASE MatchesReceived(p)
      BY <3>3 DEF MatchesReceived
    <3>4. CASE ConfirmReceived(p) \/ AbortReceived(p)
      BY <3>4 DEF ConfirmReceived, AbortReceived
    <3> QED BY <1>2, <3>1, <3>2, <3>3, <3>4 DEF Handle
  <2> QED BY <2>1, <2>2, <2>3 DEF Steps
<1>3. CASE SecureChannel(p)
  <2>1. UNCHANGED <<state, surface>>
    BY <1>3 DEF SecureChannel, CreateSession, AddIncoming, AddOutgoing, StartSession, Calling
  <2>2. step' \in [Peer -> Steps]
    BY <1>3 DEF SecureChannel, CreateSession, AddIncoming, AddOutgoing, StartSession, Calling, Throw, Steps
  <2>3. \/ UNCHANGED session
        \/ \E s \in Statuses : \E i, o : session' = [session EXCEPT ![p] = [status |-> s, in |-> i, out |-> o]]
    <3>1. IsSession(session[p]) /\ session[p].status \in Statuses
      BY DEF IsSession
    <3>2. CASE CreateSession(p)
      <4>1. session' = [session EXCEPT ![p] = [NoSession EXCEPT !.status = "created"]]
        BY <3>2 DEF CreateSession
      <4>2. [NoSession EXCEPT !.status = "created"] = [status |-> "created", in |-> {}, out |-> {}]
        BY CreatedSession
      <4>3. session' = [session EXCEPT ![p] = [status |-> "created", in |-> {}, out |-> {}]]
        BY <4>1, <4>2
      <4> QED BY <4>3 DEF Statuses
    <3>3. ASSUME NEW c, session' = [session EXCEPT ![p].in = @ \cup {c}]
          PROVE  session' = [session EXCEPT ![p] = [status |-> session[p].status,
                                                    in |-> session[p].in \cup {c}, out |-> session[p].out]]
      BY <3>1, <3>3, SessionExcept
    <3>4. ASSUME NEW c, session' = [session EXCEPT ![p].out = @ \cup {c}]
          PROVE  session' = [session EXCEPT ![p] = [status |-> session[p].status,
                                                    in |-> session[p].in, out |-> session[p].out \cup {c}]]
      BY <3>1, <3>4, SessionExcept
    <3>5. ASSUME session' = [session EXCEPT ![p].status = "running"]
          PROVE  session' = [session EXCEPT ![p] = [status |-> "running",
                                                    in |-> session[p].in, out |-> session[p].out]]
      BY <3>1, <3>5, SessionExcept
    <3> QED BY <1>3, <3>1, <3>2, <3>3, <3>4, <3>5, SMTT(30)
            DEF SecureChannel, AddIncoming, AddOutgoing, StartSession, Throw, Statuses
  <2> QED BY <1>1, <2>1, <2>2, <2>3
<1>4. CASE Encrypt(p) \/ RouteWithoutKey(p) \/ Deploy(p) \/ Lose(p)
  <2>1. UNCHANGED <<step, session>>
    BY <1>4 DEF Encrypt, RouteWithoutKey, Deploy, Lose
  <2>2. surface' \in [Peer -> Surfaces]
    BY <1>4 DEF Encrypt, RouteWithoutKey, Deploy, Lose, Surfaces
  <2>3. state' = state \/ state' = [state EXCEPT ![p] = "WaitingForConnectionsList"]
    BY <1>4 DEF Encrypt, RouteWithoutKey, Deploy, Lose, ChangeState
  <2> QED BY <2>1, <2>2, <2>3 DEF States
<1>5. CASE Close(p)
  BY <1>1, <1>5 DEF Close, NoSession, Statuses, Surfaces
<1> QED BY <1>2, <1>3, <1>4, <1>5 DEF Step

----
(* The inductive invariant                                                  *)

(* The value None of a variable that was not set is none of the lists.      *)
NoneIsUnset ==
  \A ip, i, o : None # [in |-> i, out |-> o] /\ None # [ip |-> ip, in |-> i, out |-> o]

(* The lists q sends, which have placeholders for its addresses.            *)
SentBy(lists, q) ==
  own[q] # None /\ \E r \in Replacements(own[q]) : lists = AnonymousLists(own[q], r)

(* The messages q may have sent by now.                                     *)
MessagesFrom(q) ==
  {[type |-> type, lists |-> AnonymousLists(own[q], r)] :
     type \in {"RequestConnections", "MyConnections"},
     r \in IF own[q] = None THEN {} ELSE Replacements(own[q])}
  \cup (IF channels[q] = None THEN {} ELSE {MatchesMessage(channels[q])})
  \cup (IF state[q] = "WaitForConfirmation" THEN {Simple("Confirm")} ELSE {})
  \cup {Simple("Abort")}

Late == {"WaitForMatches", "CompareMatches", "WaitForConfirmation"}
Compared == {"CompareMatches", "WaitForConfirmation"}

(* Before Surface routes messages to a peer its run has not begun.          *)
NotBegun(p) ==
  surface[p] = "notYet" =>
    state[p] = "Start" /\ own[p] = None /\ channels[p] = None /\ current[p] = None

(* Where the data of a run come from, and that they are there when needed.  *)
OwnOK(p) ==
  /\ state[p] # "Start" => own[p] # None
  /\ own[p] # None => \E lists \in OpenLists[p] : own[p] = Synced(lists)
TheirsOK(p) == theirs[p] # None => SentBy(theirs[p], Other(p))
ChannelsOK(p) ==
  /\ channels[p] # None =>
       /\ own[p] # None /\ theirs[p] # None
       /\ Selects(own[p], theirs[p]) /\ channels[p] = Selection(own[p], theirs[p])
  /\ state[p] \in Late => channels[p] # None
MatchesOK(p) ==
  /\ theirMatches[p] # None =>
       /\ channels[Other(p)] # None
       /\ theirMatches[p] = [in |-> channels[Other(p)].in, out |-> channels[Other(p)].out]
  /\ state[p] \in Compared => theirMatches[p] # None
  /\ state[p] # "CompareMatches"
MailOK(p) ==
  /\ net[p] \in Seq(MessagesFrom(Other(p)))
  /\ current[p] # None => current[p] \in MessagesFrom(Other(p))

(* The channels are secured after both peers confirmed, and the session in  *)
(* the engine has what was added so far.                                    *)
SecureOK(p) ==
  /\ running[p] => step[p] = "idle" /\ session[p].status = "none"
  /\ step[p] # "idle" =>
       /\ ~running[p] /\ session[p].status # "running"
       /\ state[p] = "WaitForConfirmation" /\ state[Other(p)] = "WaitForConfirmation"
BuiltOK(p) ==
  /\ session[p].status = "running" =>
       /\ state[p] = "WaitForConfirmation"
       /\ session[p].in = channels[p].in /\ session[p].out = channels[p].out
  /\ session[p].status = "created" =>
       /\ step[p] # "create"
       /\ step[p] = "incoming" => session[p].in \cup todo[p] = channels[p].in /\ session[p].out = {}
       /\ step[p] = "outgoing" =>
            session[p].in = channels[p].in /\ session[p].out \cup todo[p] = channels[p].out
       /\ step[p] = "start" =>
            session[p].in = channels[p].in /\ session[p].out = channels[p].out

PeerOK(p) ==
  /\ NotBegun(p) /\ OwnOK(p) /\ TheirsOK(p) /\ ChannelsOK(p) /\ MatchesOK(p)
  /\ MailOK(p) /\ SecureOK(p) /\ BuiltOK(p)

BottomInv == Types /\ \A p \in Peer : PeerOK(p)

(* A step of a peer leaves everything of the other alone but its mail.      *)
LEMMA Frame ==
  ASSUME Types, NEW p \in Peer, Step(p), NEW q \in Peer, q # p
  PROVE  /\ state'[q] = state[q] /\ running'[q] = running[q] /\ surface'[q] = surface[q]
         /\ own'[q] = own[q] /\ theirs'[q] = theirs[q]
         /\ theirMatches'[q] = theirMatches[q] /\ channels'[q] = channels[q]
         /\ current'[q] = current[q]
         /\ todo'[q] = todo[q] /\ step'[q] = step[q] /\ session'[q] = session[q]
<1> USE DEF Types, RunOK, FlagsOK, DataOK, protocolVars, secureVars, Once
<1>1. CASE Handle(p)
  <2> USE DEF Handling, Ignored, InvalidMessage, TearDown, ChangeState
  <2>1. CASE RequestConnectionsReceived(p)
    BY <2>1, ZenonT(60) DEF RequestConnectionsReceived, FindMatches
  <2>2. CASE MyConnectionsReceived(p)
    BY <2>2 DEF MyConnectionsReceived, FindMatches
  <2>3. CASE MatchesReceived(p)
    BY <2>3 DEF MatchesReceived
  <2>4. CASE ConfirmReceived(p)
    BY <2>4 DEF ConfirmReceived
  <2>5. CASE AbortReceived(p)
    BY <2>5 DEF AbortReceived
  <2> QED BY <1>1, <2>1, <2>2, <2>3, <2>4, <2>5 DEF Handle
<1>2. CASE SecureChannel(p)
  BY <1>2 DEF SecureChannel, CreateSession, AddIncoming, AddOutgoing, StartSession, Calling, Throw
<1>3. CASE Encrypt(p)
  BY <1>3 DEF Encrypt, ChangeState
<1>4. CASE RouteWithoutKey(p) \/ Deploy(p) \/ Lose(p) \/ Close(p)
  BY <1>4 DEF RouteWithoutKey, Deploy, Lose, Close
<1> QED BY <1>1, <1>2, <1>3, <1>4 DEF Step

(* The data of a run are set once, and a peer that confirmed stays so.      *)
LEMMA Settled ==
  ASSUME BottomInv, NEW p \in Peer, Step(p), NEW q \in Peer
  PROVE  /\ own[q] # None => own'[q] = own[q]
         /\ theirs[q] # None => theirs'[q] = theirs[q]
         /\ channels[q] # None => channels'[q] = channels[q]
         /\ theirMatches[q] # None => theirMatches'[q] = theirMatches[q]
         /\ state[q] = "WaitForConfirmation" => state'[q] = "WaitForConfirmation"
<1>1. CASE q # p
  BY <1>1, Frame DEF BottomInv
<1>2. CASE q = p
  <2> USE DEF BottomInv, PeerOK, Types, RunOK, FlagsOK, DataOK, protocolVars, secureVars, Once
  <2>1. CASE Handle(p)
    <3> USE DEF Handling, Ignored, InvalidMessage, TearDown, ChangeState
    <3>1. CASE RequestConnectionsReceived(p)
      BY <1>2, <3>1 DEF RequestConnectionsReceived, FindMatches
    <3>2. CASE MyConnectionsReceived(p)
      BY <1>2, <3>2 DEF MyConnectionsReceived, FindMatches
    <3>3. CASE MatchesReceived(p)
      BY <1>2, <3>3 DEF MatchesReceived
    <3>4. CASE ConfirmReceived(p)
      BY <1>2, <3>4 DEF ConfirmReceived
    <3>5. CASE AbortReceived(p)
      BY <1>2, <3>5 DEF AbortReceived
    <3> QED BY <2>1, <3>1, <3>2, <3>3, <3>4, <3>5 DEF Handle
  <2>2. CASE SecureChannel(p)
    BY <1>2, <2>2 DEF SecureChannel, CreateSession, AddIncoming, AddOutgoing, StartSession, Calling
  <2>3. CASE Encrypt(p)
    BY <1>2, <2>3 DEF Encrypt, ChangeState, NotBegun
  <2>4. CASE RouteWithoutKey(p) \/ Deploy(p) \/ Lose(p) \/ Close(p)
    BY <1>2, <2>4 DEF RouteWithoutKey, Deploy, Lose, Close
  <2> QED BY <2>1, <2>2, <2>3, <2>4 DEF Step
<1> QED BY <1>1, <1>2

(* What a peer may have sent it may have sent later, too.                   *)
LEMMA MessagesGrow ==
  ASSUME BottomInv, NEW p \in Peer, Step(p), NEW q \in Peer
  PROVE  MessagesFrom(q) \subseteq MessagesFrom(q)'
<1>1. /\ own[q] # None => own'[q] = own[q]
      /\ channels[q] # None => channels'[q] = channels[q]
      /\ state[q] = "WaitForConfirmation" => state'[q] = "WaitForConfirmation"
  BY Settled
<1> QED BY <1>1 DEF MessagesFrom

(* What a message says of its sender.                                       *)
LEMMA MessageSays ==
  ASSUME NEW q, NEW m \in MessagesFrom(q)
  PROVE  /\ m.type \in {"RequestConnections", "MyConnections"} => SentBy(m.lists, q)
         /\ m.type = "Matches" => /\ channels[q] # None
                                  /\ m.in = channels[q].in /\ m.out = channels[q].out
         /\ m.type = "Confirm" => state[q] = "WaitForConfirmation"
<1>1. CASE m \in {[type |-> type, lists |-> AnonymousLists(own[q], r)] :
                     type \in {"RequestConnections", "MyConnections"},
                     r \in IF own[q] = None THEN {} ELSE Replacements(own[q])}
  BY <1>1 DEF SentBy
<1>2. CASE channels[q] # None /\ m = MatchesMessage(channels[q])
  BY <1>2 DEF MatchesMessage
<1>3. CASE state[q] = "WaitForConfirmation" /\ m = Simple("Confirm")
  BY <1>3 DEF Simple
<1>4. CASE m = Simple("Abort")
  BY <1>4 DEF Simple
<1> QED BY <1>1, <1>2, <1>3, <1>4 DEF MessagesFrom

(* What a peer keeps of its open connections are lists again.               *)
LEMMA SyncedIsLists ==
  ASSUME BottomInv, NEW p \in Peer, own[p] # None
  PROVE  IsLists(own[p])
<1>1. PICK lists \in OpenLists[p] : own[p] = Synced(lists)
  BY DEF BottomInv, PeerOK, OwnOK
<1>2. IsLists(lists)
  BY ListsAssumption
<1> QED BY <1>1, <1>2 DEF IsLists, Synced, SyncIps

(* The lists and selections that a run sets are not None.                   *)
LEMMA DataIsSet ==
  ASSUME NoneIsUnset, NEW lists, NEW r, NEW theirLists
  PROVE  /\ Synced(lists) # None /\ AnonymousLists(lists, r) # None
         /\ Selection(lists, theirLists) # None
  BY DEF NoneIsUnset, Synced, AnonymousLists, Selection

(* Peers that both selected channels accept each other's selection.         *)
LEMMA SelectionsAccepted ==
  ASSUME BottomInv, NEW p \in Peer, channels[p] # None, channels[Other(p)] # None
  PROVE  /\ channels[p].in = channels[Other(p)].out /\ channels[p].out = channels[Other(p)].in
         /\ AcceptsMatches(channels[p], channels[Other(p)])
<1> DEFINE q == Other(p)
<1>1. q \in Peer /\ Other(q) = p
  BY TwoPeers
<1>2. /\ own[p] # None /\ theirs[p] # None /\ channels[p] = Selection(own[p], theirs[p])
      /\ own[q] # None /\ theirs[q] # None /\ channels[q] = Selection(own[q], theirs[q])
  BY <1>1 DEF BottomInv, PeerOK, ChannelsOK
<1>3. PICK s \in Replacements(own[q]) : theirs[p] = AnonymousLists(own[q], s)
  BY <1>1, <1>2 DEF BottomInv, PeerOK, TheirsOK, SentBy
<1>4. PICK r \in Replacements(own[p]) : theirs[q] = AnonymousLists(own[p], r)
  BY <1>1, <1>2 DEF BottomInv, PeerOK, TheirsOK, SentBy
<1>5. IsLists(own[p]) /\ IsLists(own[q])
  BY <1>1, <1>2, SyncedIsLists
<1> QED BY <1>2, <1>3, <1>4, <1>5, SelectionsMirror

(* What is there at the start of a step of p, and stays.                    *)
LEMMA StepFacts ==
  ASSUME BottomInv, NEW p \in Peer, Step(p)
  PROVE  LET q == Other(p) IN
         /\ q \in Peer /\ q # p /\ Other(q) = p
         /\ PeerOK(p) /\ PeerOK(q) /\ Types
         /\ state'[q] = state[q] /\ own'[q] = own[q] /\ channels'[q] = channels[q]
  BY TwoPeers, Frame DEF BottomInv

(* What a run knows of itself after a step of its own, its mail aside.      *)
Own(p) ==
  NotBegun(p) /\ OwnOK(p) /\ TheirsOK(p) /\ ChannelsOK(p) /\ MatchesOK(p) /\ SecureOK(p) /\ BuiltOK(p)

(* A message that is not for the state the run is in, or for no run at all, *)
(* changes nothing but what it brought.                                     *)
LEMMA NotForRun ==
  ASSUME BottomInv, NEW p \in Peer, Step(p), current[p] # None,
         UNCHANGED <<state, surface, own, channels, session, todo, step>>,
         theirs'[p] = theirs[p] \/ SentBy(theirs'[p], Other(p)),
         theirs[p] # None => theirs'[p] = theirs[p],
         \/ theirMatches'[p] = theirMatches[p]
         \/ /\ channels[Other(p)] # None
            /\ theirMatches'[p] = [in |-> channels[Other(p)].in, out |-> channels[Other(p)].out],
         theirMatches[p] # None => theirMatches'[p] # None,
         running'[p] => running[p]
  PROVE  Own(p)'
<1> DEFINE q == Other(p)
<1>1. /\ q \in Peer /\ q # p /\ Other(q) = p
      /\ PeerOK(p) /\ PeerOK(q) /\ Types
      /\ state'[q] = state[q] /\ own'[q] = own[q] /\ channels'[q] = channels[q]
  BY StepFacts
<1> HIDE DEF q
<1>2. NotBegun(p)' /\ OwnOK(p)'
  BY <1>1 DEF PeerOK, NotBegun, OwnOK
<1>3. TheirsOK(p)'
  BY <1>1 DEF PeerOK, TheirsOK, SentBy
<1>4. ChannelsOK(p)'
  BY <1>1 DEF PeerOK, ChannelsOK
<1>5. MatchesOK(p)'
  BY <1>1 DEF PeerOK, MatchesOK
<1>6. SecureOK(p)' /\ BuiltOK(p)'
  BY <1>1 DEF PeerOK, SecureOK, BuiltOK
<1> QED BY <1>2, <1>3, <1>4, <1>5, <1>6 DEF Own

(* The peer's connections are compared with the own ones, which gives       *)
(* matches, none, or an exception.                                          *)
LEMMA ConnectionsCompared ==
  ASSUME BottomInv, NoneIsUnset, NEW p \in Peer, Step(p), current[p] # None,
         state[p] \in {"Start", "WaitingForConnectionsList"}, running[p],
         UNCHANGED <<surface, theirMatches, session, todo, step>>,
         own[p] # None => own'[p] = own[p],
         own[p] = None => \E lists \in OpenLists[p] : own'[p] = Synced(lists),
         theirs[p] # None => theirs'[p] = theirs[p],
         theirs[p] = None => SentBy(theirs'[p], Other(p)),
         \/ UNCHANGED <<state, channels>>
         \/ /\ Selects(own'[p], theirs'[p])
            /\ state'[p] = "WaitForMatches"
            /\ channels'[p] = IF channels[p] = None THEN Selection(own'[p], theirs'[p]) ELSE channels[p]
         \/ state'[p] = "FindMatches" /\ UNCHANGED channels
  PROVE  Own(p)'
<1> DEFINE q == Other(p)
<1>1. /\ q \in Peer /\ q # p /\ Other(q) = p
      /\ PeerOK(p) /\ PeerOK(q) /\ Types
      /\ state'[q] = state[q] /\ own'[q] = own[q] /\ channels'[q] = channels[q]
  BY StepFacts
<1>2. own'[p] # None
  BY DataIsSet
<1>3. theirs'[p] # None /\ SentBy(theirs'[p], q)
  BY <1>1, DataIsSet DEF SentBy, PeerOK, TheirsOK
<1> HIDE DEF q
<1>4. OwnOK(p)' /\ NotBegun(p)'
  BY <1>1, <1>2 DEF PeerOK, OwnOK, NotBegun
<1>5. TheirsOK(p)'
  BY <1>1, <1>3 DEF q, TheirsOK, SentBy
<1>6. ChannelsOK(p)'
  <2>1. channels[p] # None => channels[p] = Selection(own'[p], theirs'[p]) /\ Selects(own'[p], theirs'[p])
    BY <1>1 DEF PeerOK, ChannelsOK
  <2>2. Selection(own'[p], theirs'[p]) # None
    BY DataIsSet
  <2>3. state[p] \notin Late
    BY DEF Late
  <2>4. "WaitForMatches" \in Late /\ "FindMatches" \notin Late
    BY DEF Late
  <2>5. channels'[p] # None => /\ own'[p] # None /\ theirs'[p] # None
                               /\ Selects(own'[p], theirs'[p])
                               /\ channels'[p] = Selection(own'[p], theirs'[p])
    BY <1>2, <1>3, <2>1
  <2>6. state'[p] \in Late => channels'[p] # None
    BY <2>2, <2>3, <2>4
  <2> QED BY <2>5, <2>6 DEF ChannelsOK
<1>7. MatchesOK(p)'
  BY <1>1 DEF q, PeerOK, MatchesOK, Compared
<1>8. SecureOK(p)' /\ BuiltOK(p)'
  BY <1>1 DEF PeerOK, SecureOK, BuiltOK
<1> QED BY <1>4, <1>5, <1>6, <1>7, <1>8 DEF Own

(* The lists of open connections are received.                              *)
LEMMA ConnectionsHandled ==
  ASSUME BottomInv, NoneIsUnset, NEW p \in Peer,
         RequestConnectionsReceived(p) \/ MyConnectionsReceived(p)
  PROVE  Own(p)'
<1>1. Step(p)
  BY DEF Step, Handle
<1> DEFINE q == Other(p)
<1>2. Types /\ PeerOK(p)
  BY <1>1, StepFacts
<1>3. /\ current[p] # None
      /\ theirs' = Once(theirs, p, current[p].lists)
      /\ UNCHANGED <<surface, theirMatches, session, todo, step>>
  BY DEF RequestConnectionsReceived, MyConnectionsReceived, Handling, secureVars
<1>4. SentBy(current[p].lists, q)
  <2>1. current[p].type \in {"RequestConnections", "MyConnections"}
    BY DEF RequestConnectionsReceived, MyConnectionsReceived, Handling
  <2> QED BY <1>2, <1>3, <2>1, MessageSays DEF PeerOK, MailOK
<1>5. /\ theirs[p] # None => theirs'[p] = theirs[p]
      /\ theirs[p] = None => theirs'[p] = current[p].lists
  BY <1>2, <1>3 DEF Once, Types, DataOK
<1>6. CASE /\ UNCHANGED <<state, own, channels>>
           /\ UNCHANGED running \/ running' = [running EXCEPT ![p] = FALSE]
  <2>1. running'[p] => running[p]
    BY <1>2, <1>6 DEF Types, FlagsOK
  <2> QED BY <1>1, <1>3, <1>4, <1>5, <1>6, <2>1, NotForRun DEF SentBy
<1>7. ASSUME NEW before, running[p], FindMatches(p, own'[p], theirs'[p], before)
      PROVE  \/ UNCHANGED <<state, channels>>
             \/ /\ Selects(own'[p], theirs'[p])
                /\ state'[p] = "WaitForMatches"
                /\ channels'[p] = IF channels[p] = None THEN Selection(own'[p], theirs'[p]) ELSE channels[p]
             \/ state'[p] = "FindMatches" /\ UNCHANGED channels
  BY <1>2, <1>7 DEF FindMatches, ChangeState, Once, Types, RunOK, DataOK
<1>8. CASE RequestConnectionsReceived(p) /\ running[p] /\ state[p] = "Start"
  <2>1. PICK lists \in OpenLists[p] : own' = Once(own, p, Synced(lists))
    BY <1>8 DEF RequestConnectionsReceived, Ignored
  <2>2. PICK r : FindMatches(p, own'[p], theirs'[p], <<ConnectionsMessage("MyConnections", own'[p], r)>>)
    BY <1>8 DEF RequestConnectionsReceived, Ignored
  <2>3. own[p] # None => own'[p] = own[p]
    BY <1>2, <2>1 DEF Once, Types, DataOK
  <2>4. own[p] = None => own'[p] = Synced(lists)
    BY <1>2, <2>1 DEF Once, Types, DataOK
  <2> QED BY <1>1, <1>3, <1>4, <1>5, <1>7, <1>8, <2>2, <2>3, <2>4, ConnectionsCompared
<1>9. CASE MyConnectionsReceived(p) /\ running[p] /\ state[p] = "WaitingForConnectionsList"
  <2>1. FindMatches(p, own[p], theirs'[p], <<>>) /\ own' = own
    BY <1>9 DEF MyConnectionsReceived, Ignored
  <2>2. own[p] # None
    BY <1>2, <1>9 DEF PeerOK, OwnOK
  <2> QED BY <1>1, <1>3, <1>4, <1>5, <1>7, <1>9, <2>1, <2>2, ConnectionsCompared
<1> QED BY <1>6, <1>8, <1>9 DEF RequestConnectionsReceived, MyConnectionsReceived, Ignored, InvalidMessage, TearDown

(* The peer's matches are received: they mirror the own ones.               *)
LEMMA MatchesHandled ==
  ASSUME BottomInv, NoneIsUnset, NEW p \in Peer, MatchesReceived(p)
  PROVE  Own(p)'
<1>1. Step(p)
  BY DEF Step, Handle
<1> DEFINE q == Other(p)
<1>2. /\ q \in Peer /\ q # p /\ Other(q) = p
      /\ PeerOK(p) /\ PeerOK(q) /\ Types
      /\ state'[q] = state[q] /\ own'[q] = own[q] /\ channels'[q] = channels[q]
  BY <1>1, StepFacts
<1>3. /\ current[p] # None /\ current[p].type = "Matches"
      /\ theirMatches' = Once(theirMatches, p, [in |-> current[p].in, out |-> current[p].out])
      /\ UNCHANGED <<surface, theirs, session, todo, step>>
  BY DEF MatchesReceived, Handling, secureVars
<1>4. channels[q] # None /\ current[p].in = channels[q].in /\ current[p].out = channels[q].out
  BY <1>2, <1>3, MessageSays DEF PeerOK, MailOK
<1>5. theirMatches'[p] = [in |-> channels[q].in, out |-> channels[q].out]
  <2>1. CASE theirMatches[p] = None
    BY <1>2, <1>3, <1>4, <2>1 DEF Once, Types, DataOK
  <2>2. CASE theirMatches[p] # None
    BY <1>2, <1>3, <2>2 DEF Once, PeerOK, MatchesOK
  <2> QED BY <2>1, <2>2
<1>6. theirMatches'[p] # None
  BY <1>5 DEF NoneIsUnset
<1> HIDE DEF q
<1>7. CASE /\ UNCHANGED <<state, own, channels>>
           /\ UNCHANGED running \/ running' = [running EXCEPT ![p] = FALSE]
  <2>1. running'[p] => running[p]
    BY <1>2, <1>7 DEF Types, FlagsOK
  <2> QED BY <1>1, <1>3, <1>4, <1>5, <1>6, <1>7, <2>1, NotForRun DEF q
<1>8. CASE running[p] /\ state[p] = "WaitForMatches"
  <2>1. channels[p] # None
    BY <1>2, <1>8 DEF PeerOK, ChannelsOK, Late
  <2>2. AcceptsMatches(channels[p], theirMatches'[p])
    <3>1. AcceptsMatches(channels[p], channels[q])
      BY <1>4, <2>1, SelectionsAccepted DEF q
    <3> QED BY <1>5, <3>1 DEF AcceptsMatches
  <2>3. /\ state'[p] = "WaitForConfirmation" /\ running' = running /\ own' = own /\ channels' = channels
    BY <1>2, <1>8, <2>2 DEF MatchesReceived, Ignored, ChangeState, Types, RunOK
  <2>4. NotBegun(p)' /\ OwnOK(p)'
    BY <1>2, <1>3, <1>8, <2>3 DEF PeerOK, NotBegun, OwnOK
  <2>5. TheirsOK(p)' /\ ChannelsOK(p)'
    BY <1>2, <1>3, <2>1, <2>3 DEF PeerOK, TheirsOK, ChannelsOK, SentBy, q
  <2>6. MatchesOK(p)'
    BY <1>2, <1>4, <1>5, <1>6, <2>3 DEF MatchesOK, q
  <2>7. SecureOK(p)' /\ BuiltOK(p)'
    BY <1>2, <1>3, <1>8, <2>3 DEF PeerOK, SecureOK, BuiltOK
  <2> QED BY <2>3, <2>4, <2>5, <2>6, <2>7 DEF Own
<1> QED BY <1>7, <1>8 DEF MatchesReceived, Ignored, InvalidMessage, TearDown

(* The confirmation of the peer, or its abort, is received.                 *)
LEMMA ConfirmHandled ==
  ASSUME BottomInv, NEW p \in Peer, ConfirmReceived(p) \/ AbortReceived(p)
  PROVE  Own(p)'
<1>1. Step(p)
  BY DEF Step, Handle
<1> DEFINE q == Other(p)
<1>2. /\ q \in Peer /\ q # p /\ Other(q) = p
      /\ PeerOK(p) /\ PeerOK(q) /\ Types
      /\ state'[q] = state[q] /\ own'[q] = own[q] /\ channels'[q] = channels[q]
  BY <1>1, StepFacts
<1>3. /\ current[p] # None
      /\ UNCHANGED <<surface, state, own, theirs, theirMatches, channels, session, todo>>
  BY DEF ConfirmReceived, AbortReceived, Handling, Ignored, InvalidMessage, secureVars
<1>4. running'[p] => running[p]
  BY <1>2 DEF ConfirmReceived, AbortReceived, Handling, Ignored, InvalidMessage, TearDown, Types, FlagsOK
<1>5. CASE UNCHANGED step
  BY <1>1, <1>3, <1>4, <1>5, NotForRun
<1>6. CASE /\ ConfirmReceived(p) /\ running[p] /\ state[p] = "WaitForConfirmation"
  <2>1. state[q] = "WaitForConfirmation"
    BY <1>2, <1>3, <1>6, MessageSays DEF PeerOK, MailOK, ConfirmReceived, Handling
  <2>2. ~running'[p]
    BY <1>2, <1>6 DEF ConfirmReceived, Ignored, TearDown, Types, FlagsOK
  <2>3. session[p].status = "none"
    BY <1>2, <1>6 DEF PeerOK, SecureOK
  <2> HIDE DEF q
  <2>4. SecureOK(p)' /\ BuiltOK(p)'
    BY <1>2, <1>3, <1>6, <2>1, <2>2, <2>3 DEF SecureOK, BuiltOK, q
  <2>5. NotBegun(p)' /\ OwnOK(p)' /\ TheirsOK(p)'
    BY <1>2, <1>3 DEF PeerOK, NotBegun, OwnOK, TheirsOK, SentBy, q
  <2>6. ChannelsOK(p)' /\ MatchesOK(p)'
    BY <1>2, <1>3 DEF PeerOK, ChannelsOK, MatchesOK, q
  <2> QED BY <2>4, <2>5, <2>6 DEF Own
<1> QED BY <1>5, <1>6 DEF ConfirmReceived, AbortReceived, secureVars

(* encrypt: the primary actor begins its run.                               *)
LEMMA EncryptHandled ==
  ASSUME BottomInv, NoneIsUnset, NEW p \in Peer, Encrypt(p)
  PROVE  Own(p)'
<1>1. Step(p)
  BY DEF Step
<1> DEFINE q == Other(p)
<1>2. /\ q \in Peer /\ q # p /\ Other(q) = p
      /\ PeerOK(p) /\ PeerOK(q) /\ Types
      /\ state'[q] = state[q] /\ own'[q] = own[q] /\ channels'[q] = channels[q]
  BY <1>1, StepFacts
<1>3. /\ state[p] = "Start" /\ own[p] = None /\ channels[p] = None
      /\ surface'[p] # "notYet"
      /\ UNCHANGED <<running, theirs, theirMatches, channels, todo, step, session>>
  BY <1>2 DEF Encrypt, PeerOK, NotBegun, Types, RunOK, protocolVars, secureVars
<1>4. \/ own'[p] = own[p] /\ state'[p] = state[p]
      \/ /\ state'[p] = "WaitingForConnectionsList"
         /\ \E lists \in OpenLists[p] : own'[p] = Synced(lists)
  BY <1>2, <1>3 DEF Encrypt, Once, ChangeState, Types, RunOK, DataOK, protocolVars
<1> HIDE DEF q
<1>5. NotBegun(p)' /\ OwnOK(p)'
  BY <1>2, <1>3, <1>4, DataIsSet DEF NotBegun, OwnOK
<1>6. TheirsOK(p)'
  BY <1>2, <1>3 DEF PeerOK, TheirsOK, SentBy, q
<1>7. ChannelsOK(p)' /\ MatchesOK(p)'
  BY <1>2, <1>3, <1>4 DEF PeerOK, ChannelsOK, MatchesOK, Late, Compared, q
<1>8. SecureOK(p)' /\ BuiltOK(p)'
  BY <1>2, <1>3 DEF PeerOK, SecureOK, BuiltOK
<1> QED BY <1>5, <1>6, <1>7, <1>8 DEF Own

(* A step that leaves the run itself alone.                                 *)
LEMMA RunAside ==
  ASSUME BottomInv, NEW p \in Peer, Step(p), UNCHANGED protocolVars,
         surface'[p] = "notYet" => surface[p] = "notYet" /\ current'[p] = current[p],
         SecureOK(p)', BuiltOK(p)'
  PROVE  Own(p)'
<1> DEFINE q == Other(p)
<1>1. /\ q \in Peer /\ q # p /\ Other(q) = p
      /\ PeerOK(p) /\ PeerOK(q) /\ Types
      /\ state'[q] = state[q] /\ own'[q] = own[q] /\ channels'[q] = channels[q]
  BY StepFacts
<1> HIDE DEF q
<1>2. NotBegun(p)' /\ OwnOK(p)' /\ TheirsOK(p)'
  BY <1>1 DEF PeerOK, NotBegun, OwnOK, TheirsOK, SentBy, protocolVars, q
<1>3. ChannelsOK(p)' /\ MatchesOK(p)'
  BY <1>1 DEF PeerOK, ChannelsOK, MatchesOK, protocolVars, q
<1> QED BY <1>2, <1>3 DEF Own

(* The steps of startSecureChannel, each of which may be refused.           *)
LEMMA SecureHandled ==
  ASSUME BottomInv, NEW p \in Peer, SecureChannel(p)
  PROVE  Own(p)'
<1>1. Step(p)
  BY DEF Step
<1> DEFINE q == Other(p)
<1>2. /\ q \in Peer /\ q # p /\ Other(q) = p
      /\ PeerOK(p) /\ PeerOK(q) /\ Types
      /\ state'[q] = state[q] /\ own'[q] = own[q] /\ channels'[q] = channels[q]
  BY <1>1, StepFacts
<1>3. UNCHANGED <<protocolVars, surface, current>> /\ step[p] # "idle"
  BY DEF SecureChannel, CreateSession, AddIncoming, AddOutgoing, StartSession, Calling
<1>4. /\ ~running[p] /\ session[p].status # "running"
      /\ state[p] = "WaitForConfirmation" /\ state[q] = "WaitForConfirmation"
  BY <1>2, <1>3 DEF PeerOK, SecureOK
<1>5. IsSession(session[p]) /\ DOMAIN session = Peer /\ DOMAIN todo = Peer /\ step \in [Peer -> Steps]
  BY <1>2 DEF Types, RunOK, DataOK
<1> HIDE DEF q
<1>6. (step'[p] # "idle" => session'[p].status # "running") => SecureOK(p)'
  BY <1>2, <1>3, <1>4 DEF SecureOK, protocolVars, q
<1> SUFFICES /\ step'[p] # "idle" => session'[p].status # "running"
             /\ BuiltOK(p)'
  BY <1>1, <1>2, <1>3, <1>6, RunAside
<1>7. CASE CreateSession(p)
  <2>1. session'[p] = [status |-> "created", in |-> {}, out |-> {}]
    BY <1>5, <1>7, CreatedSession DEF CreateSession
  <2>2. todo'[p] = channels[p].in /\ step'[p] = "incoming"
    BY <1>5, <1>7 DEF CreateSession
  <2> QED BY <1>3, <2>1, <2>2 DEF BuiltOK, protocolVars
<1>8. CASE Throw(p)
  <2>1. step'[p] = "idle" /\ session' = session
    BY <1>5, <1>8 DEF Throw
  <2> QED BY <1>4, <2>1 DEF BuiltOK
<1>9. ASSUME AddIncoming(p), ~Throw(p)
      PROVE  /\ session'[p].status # "running"
             /\ BuiltOK(p)'
  <2>1. PICK ch \in todo[p] :
          /\ session' = [session EXCEPT ![p] = [session[p] EXCEPT !.in = @ \cup {ch}]]
          /\ IF todo[p] = {ch}
             THEN /\ todo' = [todo EXCEPT ![p] = channels[p].out]
                  /\ step' = [step EXCEPT ![p] = "outgoing"]
             ELSE /\ todo' = [todo EXCEPT ![p] = @ \ {ch}]
                  /\ UNCHANGED step
    BY <1>9 DEF AddIncoming
  <2>2. session'[p] = [status |-> session[p].status, in |-> session[p].in \cup {ch}, out |-> session[p].out]
    BY <1>5, <2>1, SessionExcept
  <2>3. step[p] = "incoming" /\ session[p].status = "created"
    BY <1>4, <1>9 DEF AddIncoming, Calling, Exists
  <2>4. session[p].in \cup todo[p] = channels[p].in /\ session[p].out = {}
    BY <1>2, <2>3 DEF PeerOK, BuiltOK
  <2>5. CASE todo[p] = {ch}
    BY <1>3, <1>5, <2>1, <2>2, <2>3, <2>4, <2>5 DEF BuiltOK, protocolVars
  <2>6. CASE todo[p] # {ch}
    BY <1>3, <1>5, <2>1, <2>2, <2>3, <2>4, <2>6 DEF BuiltOK, protocolVars
  <2> QED BY <2>5, <2>6, <2>2, <2>3
<1>10. ASSUME AddOutgoing(p), ~Throw(p)
       PROVE  /\ session'[p].status # "running"
              /\ BuiltOK(p)'
  <2>1. PICK ch \in todo[p] :
          /\ session' = [session EXCEPT ![p] = [session[p] EXCEPT !.out = @ \cup {ch}]]
          /\ todo' = [todo EXCEPT ![p] = @ \ {ch}]
          /\ step' = IF todo[p] = {ch} THEN [step EXCEPT ![p] = "start"] ELSE step
    BY <1>10 DEF AddOutgoing
  <2>2. session'[p] = [status |-> session[p].status, in |-> session[p].in, out |-> session[p].out \cup {ch}]
    BY <1>5, <2>1, SessionExcept
  <2>3. step[p] = "outgoing" /\ session[p].status = "created"
    BY <1>4, <1>10 DEF AddOutgoing, Calling, Exists
  <2>4. session[p].in = channels[p].in /\ session[p].out \cup todo[p] = channels[p].out
    BY <1>2, <2>3 DEF PeerOK, BuiltOK
  <2>5. CASE todo[p] = {ch}
    BY <1>3, <1>5, <2>1, <2>2, <2>3, <2>4, <2>5 DEF BuiltOK, protocolVars
  <2>6. CASE todo[p] # {ch}
    BY <1>3, <1>5, <2>1, <2>2, <2>3, <2>4, <2>6 DEF BuiltOK, protocolVars
  <2> QED BY <2>5, <2>6, <2>2, <2>3
<1>11. ASSUME StartSession(p), ~Throw(p)
       PROVE  step'[p] = "idle" /\ BuiltOK(p)'
  <2>1. /\ session' = [session EXCEPT ![p] = [session[p] EXCEPT !.status = "running"]]
        /\ step' = [step EXCEPT ![p] = "idle"]
    BY <1>11 DEF StartSession
  <2>2. session'[p] = [status |-> "running", in |-> session[p].in, out |-> session[p].out]
    BY <1>5, <2>1, SessionExcept
  <2>3. step[p] = "start" /\ session[p].status = "created"
    BY <1>4, <1>11 DEF StartSession, Calling, Exists
  <2>4. session[p].in = channels[p].in /\ session[p].out = channels[p].out
    BY <1>2, <2>3 DEF PeerOK, BuiltOK
  <2>5. step'[p] = "idle"
    BY <1>5, <2>1
  <2> QED BY <1>3, <1>4, <2>2, <2>4, <2>5 DEF BuiltOK, protocolVars
<1> QED BY <1>7, <1>8, <1>9, <1>10, <1>11 DEF SecureChannel

(* The other steps, and the end of the call, which takes the session away.  *)
LEMMA OtherHandled ==
  ASSUME BottomInv, NEW p \in Peer, RouteWithoutKey(p) \/ Deploy(p) \/ Lose(p) \/ Close(p)
  PROVE  Own(p)'
<1>1. Step(p)
  BY DEF Step
<1>2. PeerOK(p) /\ Types /\ Other(p) \in Peer /\ Other(p) # p
  BY <1>1, StepFacts
<1>3. UNCHANGED <<protocolVars, step, todo>>
  BY DEF RouteWithoutKey, Deploy, Lose, Close, secureVars
<1>4. session'[p] = session[p] \/ session'[p] = NoSession
  BY <1>2 DEF RouteWithoutKey, Deploy, Lose, Close, secureVars, Types, RunOK
<1>5. SecureOK(p)' /\ BuiltOK(p)'
  BY <1>2, <1>3, <1>4 DEF PeerOK, SecureOK, BuiltOK, NoSession, protocolVars
<1>6. surface'[p] = "notYet" => surface[p] = "notYet" /\ current'[p] = current[p]
  BY <1>2 DEF RouteWithoutKey, Deploy, Lose, Close, Types, RunOK, DataOK
<1> QED BY <1>1, <1>3, <1>5, <1>6, RunAside

(* A step of a run keeps what the run knows of itself.                      *)
LEMMA OwnKept ==
  ASSUME BottomInv, NoneIsUnset, NEW p \in Peer, Step(p)
  PROVE  Own(p)'
  BY ConnectionsHandled, MatchesHandled, ConfirmHandled, EncryptHandled, SecureHandled, OtherHandled
     DEF Step, Handle

(* What a peer sends in a step it may have sent once the step is over.      *)
LEMMA SentIsAllowed ==
  ASSUME BottomInv, NoneIsUnset, NEW p \in Peer, Step(p)
  PROVE  \/ net'[Other(p)] = net[Other(p)]
         \/ \E messages \in Seq(MessagesFrom(p)') : net'[Other(p)] = net[Other(p)] \o messages
<1> DEFINE q == Other(p)
           M == MessagesFrom(p)'
<1> SUFFICES net'[q] = net[q] \/ \E messages \in Seq(M) : net'[q] = net[q] \o messages
  OBVIOUS
<1>1. q \in Peer /\ q # p /\ Types /\ PeerOK(p)
  BY StepFacts
<1>2. ASSUME NEW messages, Send(p, messages)
      PROVE  net'[q] = net[q] \o messages
  BY <1>1, <1>2 DEF Send, Types, DataOK
<1>3. OwnOK(p)' /\ ChannelsOK(p)'
  BY OwnKept DEF Own
<1>4. Simple("Abort") \in M
  BY DEF MessagesFrom
<1>5. channels'[p] # None => MatchesMessage(channels'[p]) \in M
  BY DEF MessagesFrom
<1>6. state'[p] = "WaitForConfirmation" => Simple("Confirm") \in M
  BY DEF MessagesFrom
<1>7. ASSUME NEW type \in {"RequestConnections", "MyConnections"}, own'[p] # None,
             NEW r \in Replacements(own'[p])
      PROVE  ConnectionsMessage(type, own'[p], r) \in M
  BY <1>7 DEF MessagesFrom, ConnectionsMessage
<1>8. ASSUME NEW lists, NEW peerLists, NEW before \in Seq(M),
             FindMatches(p, lists, peerLists, before)
      PROVE  \E messages \in Seq(M) : net'[q] = net[q] \o messages
  <2>1. CASE Send(p, before)
    BY <1>2, <2>1
  <2>2. CASE Send(p, before \o <<MatchesMessage(channels'[p])>>) /\ state' = [state EXCEPT ![p] = "WaitForMatches"]
    <3>1. channels'[p] # None
      BY <1>1, <1>3, <2>2 DEF ChannelsOK, Late, Types, RunOK
    <3>2. <<MatchesMessage(channels'[p])>> \in Seq(M)
      BY <1>5, <3>1
    <3>3. before \o <<MatchesMessage(channels'[p])>> \in Seq(M)
      BY <3>2, ConcatProperties
    <3> QED BY <1>2, <2>2, <3>3
  <2>3. CASE Send(p, before \o <<Simple("Abort")>>)
    <3>1. <<Simple("Abort")>> \in Seq(M)
      BY <1>4
    <3>2. before \o <<Simple("Abort")>> \in Seq(M)
      BY <3>1, ConcatProperties
    <3> QED BY <1>2, <2>3, <3>2
  <2> QED BY <1>8, <2>1, <2>2, <2>3 DEF FindMatches, ChangeState
<1> HIDE DEF M
<1>9. CASE Handle(p)
  <2>1. CASE RequestConnectionsReceived(p)
    <3>1. CASE net' = net
      BY <3>1
    <3>2. CASE net' # net
      <4>1. running[p] /\ state[p] = "Start"
        BY <2>1, <3>2 DEF RequestConnectionsReceived, Ignored, InvalidMessage, SendNothing
      <4>2. PICK lists \in OpenLists[p] : own' = Once(own, p, Synced(lists))
        BY <2>1, <3>2 DEF RequestConnectionsReceived, Ignored, InvalidMessage, SendNothing
      <4>3. PICK r \in Replacements(own'[p]) :
              FindMatches(p, own'[p], theirs'[p], <<ConnectionsMessage("MyConnections", own'[p], r)>>)
        BY <2>1, <3>2 DEF RequestConnectionsReceived, Ignored, InvalidMessage, SendNothing
      <4>4. own'[p] # None
        BY <1>1, <4>2, DataIsSet DEF Once, Types, DataOK
      <4>5. <<ConnectionsMessage("MyConnections", own'[p], r)>> \in Seq(M)
        BY <1>7, <4>4
      <4> QED BY <1>8, <4>3, <4>5
    <3> QED BY <3>1, <3>2
  <2>2. CASE MyConnectionsReceived(p)
    <3>1. CASE net' = net
      BY <3>1
    <3>2. CASE net' # net
      <4>1. FindMatches(p, own[p], theirs'[p], <<>>)
        BY <2>2, <3>2 DEF MyConnectionsReceived, Ignored, InvalidMessage, SendNothing
      <4>2. <<>> \in Seq(M)
        OBVIOUS
      <4> QED BY <1>8, <4>1, <4>2
    <3> QED BY <3>1, <3>2
  <2>3. CASE MatchesReceived(p)
    <3>1. CASE net' = net
      BY <3>1
    <3>2. CASE Send(p, <<Simple("Confirm")>>) /\ ChangeState(p, "WaitForConfirmation")
      <4>1. <<Simple("Confirm")>> \in Seq(M)
        BY <1>1, <1>6, <3>2 DEF ChangeState, Types, RunOK
      <4> QED BY <1>2, <3>2, <4>1
    <3>3. CASE Send(p, <<Simple("Abort")>>)
      <4>1. <<Simple("Abort")>> \in Seq(M)
        BY <1>4
      <4> QED BY <1>2, <3>3, <4>1
    <3> QED BY <2>3, <3>1, <3>2, <3>3 DEF MatchesReceived, Ignored, InvalidMessage, SendNothing
  <2>4. CASE ConfirmReceived(p) \/ AbortReceived(p)
    BY <2>4 DEF ConfirmReceived, AbortReceived, Ignored, InvalidMessage, SendNothing
  <2> QED BY <1>9, <2>1, <2>2, <2>3, <2>4 DEF Handle
<1>10. CASE Encrypt(p)
  <2>1. CASE net' = net
    BY <2>1
  <2>2. CASE net' # net
    <3>1. PICK r \in Replacements(own'[p]) :
            Send(p, <<ConnectionsMessage("RequestConnections", own'[p], r)>>)
      BY <1>10, <2>2 DEF Encrypt
    <3>2. state'[p] = "WaitingForConnectionsList"
      BY <1>1, <1>10, <2>2 DEF Encrypt, ChangeState, Types, RunOK
    <3>3. own'[p] # None
      BY <1>3, <3>2 DEF OwnOK
    <3>4. <<ConnectionsMessage("RequestConnections", own'[p], r)>> \in Seq(M)
      BY <1>7, <3>3
    <3> QED BY <1>2, <3>1, <3>4
  <2> QED BY <2>1, <2>2
<1>11. CASE SecureChannel(p)
  BY <1>11 DEF SecureChannel, CreateSession, AddIncoming, AddOutgoing, StartSession, Calling
<1>12. CASE RouteWithoutKey(p) \/ Deploy(p) \/ Lose(p) \/ Close(p)
  BY <1>1, <1>12 DEF RouteWithoutKey, Deploy, Lose, Close, Types, DataOK
<1> QED BY <1>9, <1>10, <1>11, <1>12 DEF Step

(* What p has not handled yet shrinks from the front only.                  *)
LEMMA MailTaken ==
  ASSUME BottomInv, NEW p \in Peer, Step(p)
  PROVE  /\ net'[p] = net[p] \/ (net[p] # <<>> /\ net'[p] = Tail(net[p]))
         /\ \/ current'[p] = current[p] \/ current'[p] = None
            \/ net[p] # <<>> /\ current'[p] = Head(net[p])
<1>1. Other(p) # p /\ Types
  BY StepFacts
<1> USE DEF Types, DataOK, Send, SendNothing
<1>2. CASE Handle(p)
  <2> USE DEF Handling, Ignored, InvalidMessage
  <2>1. CASE RequestConnectionsReceived(p)
    BY <1>1, <2>1 DEF RequestConnectionsReceived, FindMatches
  <2>2. CASE MyConnectionsReceived(p)
    BY <1>1, <2>2 DEF MyConnectionsReceived, FindMatches
  <2>3. CASE MatchesReceived(p)
    BY <1>1, <2>3 DEF MatchesReceived
  <2>4. CASE ConfirmReceived(p) \/ AbortReceived(p)
    BY <1>1, <2>4 DEF ConfirmReceived, AbortReceived
  <2> QED BY <1>2, <2>1, <2>2, <2>3, <2>4 DEF Handle
<1>3. CASE SecureChannel(p)
  BY <1>3 DEF SecureChannel, CreateSession, AddIncoming, AddOutgoing, StartSession, Calling
<1>4. CASE Encrypt(p)
  BY <1>1, <1>4 DEF Encrypt
<1>5. CASE RouteWithoutKey(p) \/ Deploy(p) \/ Lose(p) \/ Close(p)
  BY <1>1, <1>5 DEF RouteWithoutKey, Deploy, Lose, Close
<1> QED BY <1>2, <1>3, <1>4, <1>5 DEF Step

(* All mail stays allowed.                                                  *)
LEMMA MailKept ==
  ASSUME BottomInv, NoneIsUnset, NEW p \in Peer, Step(p)
  PROVE  MailOK(p)' /\ MailOK(Other(p))'
<1> DEFINE q == Other(p)
<1>1. q \in Peer /\ q # p /\ Other(q) = p /\ Types /\ PeerOK(p) /\ PeerOK(q)
  BY StepFacts
<1>2. MessagesFrom(p) \subseteq MessagesFrom(p)' /\ MessagesFrom(q) \subseteq MessagesFrom(q)'
  BY <1>1, MessagesGrow
<1>3. net[p] \in Seq(MessagesFrom(q)) /\ net[q] \in Seq(MessagesFrom(p))
  BY <1>1 DEF PeerOK, MailOK
<1>4. net[p] \in Seq(MessagesFrom(q)') /\ net[q] \in Seq(MessagesFrom(p)')
  BY <1>2, <1>3, SeqMonotonic
<1>5. net'[p] \in Seq(MessagesFrom(q)')
  BY <1>4, MailTaken, HeadTailProperties
<1>6. current'[p] # None => current'[p] \in MessagesFrom(q)'
  <2>1. current[p] # None => current[p] \in MessagesFrom(q)
    BY <1>1 DEF PeerOK, MailOK
  <2>2. net[p] # <<>> => Head(net[p]) \in MessagesFrom(q)
    BY <1>3, HeadTailProperties
  <2> QED BY <1>2, <2>1, <2>2, MailTaken
<1>7. net'[q] \in Seq(MessagesFrom(p)')
  BY <1>4, SentIsAllowed, ConcatProperties
<1>8. current'[q] # None => current'[q] \in MessagesFrom(p)'
  <2>1. current'[q] = current[q]
    BY <1>1, Frame
  <2> QED BY <1>1, <1>2, <2>1 DEF PeerOK, MailOK
<1>9. MailOK(p)'
  BY <1>5, <1>6 DEF MailOK
<1>10. MailOK(q)'
  BY <1>1, <1>7, <1>8 DEF MailOK
<1> QED BY <1>9, <1>10

(* A step of p keeps what the other peer knows of itself.                   *)
LEMMA OtherKept ==
  ASSUME BottomInv, NEW p \in Peer, Step(p)
  PROVE  Own(Other(p))'
<1> DEFINE q == Other(p)
<1>1. q \in Peer /\ q # p /\ Other(q) = p /\ Types /\ PeerOK(p) /\ PeerOK(q)
  BY StepFacts
<1>2. /\ state'[q] = state[q] /\ running'[q] = running[q] /\ surface'[q] = surface[q]
      /\ own'[q] = own[q] /\ theirs'[q] = theirs[q]
      /\ theirMatches'[q] = theirMatches[q] /\ channels'[q] = channels[q]
      /\ current'[q] = current[q]
      /\ todo'[q] = todo[q] /\ step'[q] = step[q] /\ session'[q] = session[q]
  BY <1>1, Frame
<1>3. /\ own[p] # None => own'[p] = own[p]
      /\ channels[p] # None => channels'[p] = channels[p]
      /\ state[p] = "WaitForConfirmation" => state'[p] = "WaitForConfirmation"
  BY Settled
<1> HIDE DEF q
<1>4. NotBegun(q)' /\ OwnOK(q)'
  BY <1>1, <1>2 DEF PeerOK, NotBegun, OwnOK
<1>5. TheirsOK(q)'
  BY <1>1, <1>2, <1>3 DEF PeerOK, TheirsOK, SentBy
<1>6. ChannelsOK(q)'
  BY <1>1, <1>2 DEF PeerOK, ChannelsOK
<1>7. MatchesOK(q)'
  BY <1>1, <1>2, <1>3 DEF PeerOK, MatchesOK
<1>8. SecureOK(q)' /\ BuiltOK(q)'
  BY <1>1, <1>2, <1>3 DEF PeerOK, SecureOK, BuiltOK
<1> QED BY <1>4, <1>5, <1>6, <1>7, <1>8 DEF Own, q

----
(* The theorems                                                             *)

(* Before the call nothing has been sent, found or secured.                 *)
LEMMA InvInit == Init => BottomInv
<1> SUFFICES ASSUME Init PROVE BottomInv
  OBVIOUS
<1> USE DEF Init
<1>1. Types
  <2>1. FlagsOK
    BY Zenon DEF FlagsOK
  <2>2. RunOK /\ DataOK
    BY DEF RunOK, DataOK, IsSession, NoSession, States, Surfaces, Steps, Statuses
  <2> QED BY <2>1, <2>2 DEF Types
<1>2. ASSUME NEW p \in Peer PROVE PeerOK(p)
  <2>1. NotBegun(p) /\ OwnOK(p) /\ TheirsOK(p)
    BY DEF NotBegun, OwnOK, TheirsOK
  <2>2. ChannelsOK(p) /\ MatchesOK(p)
    BY DEF ChannelsOK, MatchesOK, Late, Compared
  <2>3. MailOK(p)
    BY DEF MailOK
  <2>4. SecureOK(p) /\ BuiltOK(p)
    BY DEF SecureOK, BuiltOK, NoSession
  <2> QED BY <2>1, <2>2, <2>3, <2>4 DEF PeerOK
<1> QED BY <1>1, <1>2 DEF BottomInv

(* A step of a peer keeps its own part, its mail and that of the other.     *)
LEMMA InvStep ==
  ASSUME BottomInv, NoneIsUnset, NEW p \in Peer, Step(p)
  PROVE  BottomInv'
<1>1. Types'
  BY FlagsKept, RunKept, DataKept DEF Types, BottomInv
<1>2. Other(p) \in Peer /\ \A q \in Peer : q = p \/ q = Other(p)
  BY TwoPeers
<1>3. PeerOK(p)'
  BY OwnKept, MailKept DEF Own, PeerOK
<1>4. PeerOK(Other(p))'
  BY OtherKept, MailKept DEF Own, PeerOK
<1>5. \A q \in Peer : PeerOK(q)'
  BY <1>2, <1>3, <1>4
<1> QED BY <1>1, <1>5 DEF BottomInv

(* No step keeps it, too.                                                   *)
LEMMA InvUnchanged == BottomInv /\ UNCHANGED vars => BottomInv'
<1> SUFFICES ASSUME BottomInv, UNCHANGED vars PROVE BottomInv'
  OBVIOUS
<1> USE DEF vars, protocolVars, secureVars
<1>1. Types'
  BY DEF BottomInv, Types, FlagsOK, RunOK, DataOK
<1>2. ASSUME NEW p \in Peer PROVE PeerOK(p)'
  <2>1. PeerOK(p)
    BY DEF BottomInv
  <2>2. NotBegun(p)' /\ OwnOK(p)' /\ TheirsOK(p)'
    BY <2>1 DEF PeerOK, NotBegun, OwnOK, TheirsOK, SentBy
  <2>3. ChannelsOK(p)' /\ MatchesOK(p)'
    BY <2>1 DEF PeerOK, ChannelsOK, MatchesOK
  <2>4. MessagesFrom(Other(p))' = MessagesFrom(Other(p))
    BY DEF MessagesFrom
  <2>5. MailOK(p)'
    BY <2>1, <2>4 DEF PeerOK, MailOK
  <2>6. SecureOK(p)' /\ BuiltOK(p)'
    BY <2>1 DEF PeerOK, SecureOK, BuiltOK
  <2> QED BY <2>2, <2>3, <2>5, <2>6 DEF PeerOK
<1> QED BY <1>1, <1>2 DEF BottomInv

(* Every step is that of a peer.                                            *)
LEMMA NextIsStep == Next => \E p \in Peer : Step(p)
  BY DEF Next, Step

(* The inductive invariant holds in every state, if None is no list.        *)
THEOREM Invariant ==
  ASSUME NoneIsUnset
  PROVE  Spec => []BottomInv
<1>1. Init => BottomInv
  BY InvInit
<1>2. BottomInv /\ [Next]_vars => BottomInv'
  BY InvStep, InvUnchanged, NextIsStep
<1> QED BY <1>1, <1>2, PTL DEF Spec

(* What a run has selected and what it got is there whenever its state says *)
(* so: the states of BottomProtocol.cs read it without a test.              *)
THEOREM TypeCorrect ==
  ASSUME NoneIsUnset
  PROVE  Spec => []TypeOK
<1>1. BottomInv => TypeOK
  <2> SUFFICES ASSUME BottomInv PROVE TypeOK
    OBVIOUS
  <2>1. ASSUME NEW p \in Peer
        PROVE  /\ session[p].status \in {"none", "created", "running"}
               /\ state[p] # "Start" => own[p] # None
               /\ state[p] \in {"WaitForMatches", "CompareMatches", "WaitForConfirmation"}
                    => theirs[p] # None /\ channels[p] # None
               /\ state[p] \in {"CompareMatches", "WaitForConfirmation"} => theirMatches[p] # None
               /\ step[p] # "idle" => state[p] = "WaitForConfirmation" /\ ~running[p]
    BY DEF BottomInv, Types, RunOK, IsSession, Statuses, PeerOK, OwnOK, ChannelsOK, MatchesOK,
           SecureOK, Late, Compared
  <2>2. /\ state \in [Peer -> States]
        /\ surface \in [Peer -> {"notYet", "routing", "over"}]
        /\ step \in [Peer -> {"idle", "create", "incoming", "outgoing", "start"}]
    BY DEF BottomInv, Types, RunOK, Surfaces, Steps
  <2>3. FlagsOK
    BY DEF BottomInv, Types
  <2> QED BY <2>1, <2>2, <2>3, Zenon DEF TypeOK, FlagsOK
<1> QED BY <1>1, Invariant, PTL

(* The comparison of the selections in CompareMatches (BottomProtocol.cs)   *)
(* never aborts a run, for any lists of the two peers.                      *)
THEOREM SelectionsNeverDiffer ==
  ASSUME NoneIsUnset
  PROVE  Spec => []ComparisonNeverFails
<1>1. BottomInv => ComparisonNeverFails
  BY DEF BottomInv, PeerOK, MatchesOK, ComparisonNeverFails
<1> QED BY <1>1, Invariant, PTL

(* A session that encrypts was built completely: startSecureChannel         *)
(* (Bottom.cs) starts it after the last channel of either direction, or     *)
(* not at all, wherever a refused call or the end of the call cuts in.      *)
THEOREM SessionsAreComplete ==
  ASSUME NoneIsUnset
  PROVE  Spec => []RunningIsComplete
<1>1. BottomInv => RunningIsComplete
  BY DEF BottomInv, PeerOK, BuiltOK, RunningIsComplete
<1> QED BY <1>1, Invariant, PTL

----
(* The protocol implements ChannelAgreement                                 *)

(* A peer agrees when it receives the other's matches, and only then.       *)
LEMMA AgreesOnMatches ==
  ASSUME BottomInv, NEW p \in Peer, Step(p),
         state[p] # "WaitForConfirmation", state'[p] = "WaitForConfirmation"
  PROVE  state[p] = "WaitForMatches" /\ channels' = channels /\ session' = session
<1> USE DEF BottomInv, Types, RunOK, FlagsOK, DataOK, protocolVars, secureVars
<1>1. CASE Handle(p)
  <2> USE DEF Handling, Ignored, InvalidMessage, ChangeState
  <2>1. CASE RequestConnectionsReceived(p)
    BY <2>1 DEF RequestConnectionsReceived, FindMatches
  <2>2. CASE MyConnectionsReceived(p)
    BY <2>2 DEF MyConnectionsReceived, FindMatches
  <2>3. CASE MatchesReceived(p)
    BY <2>3 DEF MatchesReceived
  <2>4. CASE ConfirmReceived(p) \/ AbortReceived(p)
    BY <2>4 DEF ConfirmReceived, AbortReceived
  <2> QED BY <1>1, <2>1, <2>2, <2>3, <2>4 DEF Handle
<1>2. CASE SecureChannel(p)
  BY <1>2 DEF SecureChannel, CreateSession, AddIncoming, AddOutgoing, StartSession, Calling
<1>3. CASE Encrypt(p)
  BY <1>3 DEF Encrypt, ChangeState
<1>4. CASE RouteWithoutKey(p) \/ Deploy(p) \/ Lose(p) \/ Close(p)
  BY <1>4 DEF RouteWithoutKey, Deploy, Lose, Close
<1> QED BY <1>1, <1>2, <1>3, <1>4 DEF Step

(* A session changes only in startSecureChannel and when the call ends.     *)
LEMMA SessionSteps ==
  ASSUME BottomInv, NEW p \in Peer, Step(p)
  PROVE  \/ session' = session
         \/ step[p] # "idle" /\ UNCHANGED <<state, channels>>
         \/ session'[p] = NoSession /\ UNCHANGED <<state, channels>>
<1>1. CASE Handle(p)
  BY <1>1 DEF Handle, RequestConnectionsReceived, MyConnectionsReceived, MatchesReceived, ConfirmReceived,
              AbortReceived, secureVars
<1>2. CASE SecureChannel(p)
  BY <1>2 DEF SecureChannel, CreateSession, AddIncoming, AddOutgoing, StartSession, Calling, protocolVars
<1>3. CASE Encrypt(p) \/ RouteWithoutKey(p) \/ Deploy(p) \/ Lose(p)
  BY <1>3 DEF Encrypt, RouteWithoutKey, Deploy, Lose, secureVars
<1>4. CASE Close(p)
  BY <1>4 DEF Close, protocolVars, BottomInv, Types, RunOK
<1> QED BY <1>1, <1>2, <1>3, <1>4 DEF Step

(* What a peer agreed to and secures, as the refinement maps it.            *)
AgreedBy(p) ==
  IF state[p] = "WaitForConfirmation" THEN [in |-> channels[p].in, out |-> channels[p].out] ELSE None
SecuredBy(p) ==
  IF session[p].status = "running" THEN [in |-> session[p].in, out |-> session[p].out] ELSE None

(* The effect of a step on what was agreed and what is secured.             *)
LEMMA AgreementEffect ==
  ASSUME BottomInv, BottomInv', NoneIsUnset, NEW p \in Peer, Step(p)
  PROVE  LET q == Other(p) IN
         /\ AgreedBy(q)' = AgreedBy(q) /\ SecuredBy(q)' = SecuredBy(q)
         /\ \/ AgreedBy(p)' = AgreedBy(p) /\ SecuredBy(p)' = SecuredBy(p)
            \/ /\ AgreedBy(p) = None /\ AgreedBy(p)' # None
               /\ AgreedBy(q) \in {None, [in |-> AgreedBy(p)'.out, out |-> AgreedBy(p)'.in]}
               /\ SecuredBy(p)' = SecuredBy(p)
            \/ /\ SecuredBy(p) = None /\ AgreedBy(p) # None /\ AgreedBy(q) # None
               /\ SecuredBy(p)' = AgreedBy(p) /\ AgreedBy(p)' = AgreedBy(p)
            \/ SecuredBy(p) # None /\ SecuredBy(p)' = None /\ AgreedBy(p)' = AgreedBy(p)
<1> DEFINE q == Other(p)
<1>1. q \in Peer /\ q # p /\ Other(q) = p /\ PeerOK(p) /\ PeerOK(q) /\ Types
  BY StepFacts
<1>2. state'[q] = state[q] /\ channels'[q] = channels[q] /\ session'[q] = session[q]
  BY <1>1, Frame
<1>3. AgreedBy(q)' = AgreedBy(q) /\ SecuredBy(q)' = SecuredBy(q)
  BY <1>2 DEF AgreedBy, SecuredBy
<1>4. \A i, o : None # [in |-> i, out |-> o]
  BY DEF NoneIsUnset
<1>5. state[p] = "WaitForConfirmation" => AgreedBy(p)' = AgreedBy(p)
  <2>1. state[p] = "WaitForConfirmation" => channels[p] # None
    BY <1>1 DEF PeerOK, ChannelsOK, Late
  <2> QED BY <2>1, Settled DEF AgreedBy
<1>6. state[p] # "WaitForConfirmation" /\ state'[p] # "WaitForConfirmation" => AgreedBy(p)' = AgreedBy(p)
  BY DEF AgreedBy
<1>7. CASE state[p] # "WaitForConfirmation" /\ state'[p] = "WaitForConfirmation"
  <2>1. state[p] = "WaitForMatches" /\ channels' = channels /\ session' = session
    BY <1>7, AgreesOnMatches
  <2>2. channels[p] # None
    BY <1>1, <2>1 DEF PeerOK, ChannelsOK, Late
  <2>3. AgreedBy(p) = None /\ AgreedBy(p)' = [in |-> channels[p].in, out |-> channels[p].out]
    BY <1>7, <2>1 DEF AgreedBy
  <2>4. AgreedBy(q) \in {None, [in |-> channels[p].out, out |-> channels[p].in]}
    <3>1. CASE state[q] = "WaitForConfirmation"
      <4>1. channels[q] # None
        BY <1>1, <3>1 DEF PeerOK, ChannelsOK, Late
      <4>2. channels[p].in = channels[q].out /\ channels[p].out = channels[q].in
        BY <2>2, <4>1, SelectionsAccepted
      <4> QED BY <3>1, <4>2 DEF AgreedBy
    <3>2. CASE state[q] # "WaitForConfirmation"
      BY <3>2 DEF AgreedBy
    <3> QED BY <3>1, <3>2
  <2>5. SecuredBy(p)' = SecuredBy(p)
    BY <2>1 DEF SecuredBy
  <2> QED BY <1>3, <1>4, <2>3, <2>4, <2>5
<1>8. CASE AgreedBy(p)' = AgreedBy(p)
  <2>1. CASE session' = session
    BY <1>3, <1>8, <2>1 DEF SecuredBy
  <2>2. CASE step[p] # "idle" /\ UNCHANGED <<state, channels>>
    <3>1. /\ session[p].status # "running"
          /\ state[p] = "WaitForConfirmation" /\ state[q] = "WaitForConfirmation"
      BY <1>1, <2>2 DEF PeerOK, SecureOK
    <3>2. SecuredBy(p) = None
      BY <3>1 DEF SecuredBy
    <3>3. CASE session'[p].status # "running"
      BY <1>3, <1>8, <3>2, <3>3 DEF SecuredBy
    <3>4. CASE session'[p].status = "running"
      <4>1. session'[p].in = channels'[p].in /\ session'[p].out = channels'[p].out
        BY <3>4 DEF BottomInv, PeerOK, BuiltOK
      <4>2. SecuredBy(p)' = [in |-> channels[p].in, out |-> channels[p].out]
        BY <2>2, <3>4, <4>1 DEF SecuredBy
      <4>3. /\ AgreedBy(p) = [in |-> channels[p].in, out |-> channels[p].out]
            /\ AgreedBy(q) = [in |-> channels[q].in, out |-> channels[q].out]
        BY <3>1 DEF AgreedBy
      <4> QED BY <1>3, <1>4, <1>8, <3>2, <4>2, <4>3
    <3> QED BY <3>3, <3>4
  <2>3. CASE session'[p] = NoSession
    <3>1. SecuredBy(p)' = None
      BY <2>3 DEF SecuredBy, NoSession
    <3> QED BY <1>3, <1>8, <3>1
  <2> QED BY <2>1, <2>2, <2>3, SessionSteps
<1> QED BY <1>5, <1>6, <1>7, <1>8

(* A step is one of the agreement, or does not show there.                  *)
LEMMA AgreementStep ==
  ASSUME BottomInv, BottomInv', NoneIsUnset, NEW p \in Peer, Step(p)
  PROVE  \/ Agreement!Next
         \/ /\ [r \in Peer |-> AgreedBy(r)]' = [r \in Peer |-> AgreedBy(r)]
            /\ [r \in Peer |-> SecuredBy(r)]' = [r \in Peer |-> SecuredBy(r)]
<1> DEFINE q == Other(p)
           agreed == [r \in Peer |-> AgreedBy(r)]
           secured == [r \in Peer |-> SecuredBy(r)]
<1>1. q \in Peer /\ q # p /\ \A r \in Peer : r = p \/ r = q
  BY TwoPeers
<1>2. /\ AgreedBy(q)' = AgreedBy(q) /\ SecuredBy(q)' = SecuredBy(q)
      /\ \/ AgreedBy(p)' = AgreedBy(p) /\ SecuredBy(p)' = SecuredBy(p)
         \/ /\ AgreedBy(p) = None /\ AgreedBy(p)' # None
            /\ AgreedBy(q) \in {None, [in |-> AgreedBy(p)'.out, out |-> AgreedBy(p)'.in]}
            /\ SecuredBy(p)' = SecuredBy(p)
         \/ /\ SecuredBy(p) = None /\ AgreedBy(p) # None /\ AgreedBy(q) # None
            /\ SecuredBy(p)' = AgreedBy(p) /\ AgreedBy(p)' = AgreedBy(p)
         \/ SecuredBy(p) # None /\ SecuredBy(p)' = None /\ AgreedBy(p)' = AgreedBy(p)
  BY AgreementEffect
<1>3. /\ \A r \in Peer : agreed[r] = AgreedBy(r) /\ secured[r] = SecuredBy(r)
      /\ \A r \in Peer : agreed'[r] = AgreedBy(r)' /\ secured'[r] = SecuredBy(r)'
      /\ agreed \in [Peer -> {AgreedBy(r) : r \in Peer}]
  OBVIOUS
<1>4. AgreedBy(p)' = AgreedBy(p) => agreed' = agreed
  BY <1>1, <1>2
<1>5. SecuredBy(p)' = SecuredBy(p) => secured' = secured
  BY <1>1, <1>2
<1>6. CASE AgreedBy(p)' = AgreedBy(p) /\ SecuredBy(p)' = SecuredBy(p)
  BY <1>4, <1>5, <1>6
<1>7. agreed' = [agreed EXCEPT ![p] = AgreedBy(p)'] /\ secured' = [secured EXCEPT ![p] = SecuredBy(p)']
  BY <1>1, <1>2
<1> SUFFICES ASSUME AgreedBy(p)' # AgreedBy(p) \/ SecuredBy(p)' # SecuredBy(p)
             PROVE  Agreement!Next
  BY <1>6
<1>8. Agreement!Next <=>
        \E r \in Peer :
          \/ /\ agreed'[r] # None
             /\ agreed[r] = None
             /\ \A s \in Peer \ {r} : agreed[s] \in {None, [in |-> agreed'[r].out, out |-> agreed'[r].in]}
             /\ agreed' = [agreed EXCEPT ![r] = agreed'[r]]
             /\ secured' = secured
          \/ /\ secured[r] = None
             /\ \A s \in Peer : agreed[s] # None
             /\ secured' = [secured EXCEPT ![r] = agreed[r]]
             /\ agreed' = agreed
          \/ /\ secured[r] # None
             /\ secured' = [secured EXCEPT ![r] = None]
             /\ agreed' = agreed
  BY DEF Agreement!Next, Agreement!Agree, Agreement!Secure, Agreement!Stop, Agreement!Mirror, AgreedBy, SecuredBy
<1> HIDE DEF agreed, secured
<1>9. CASE AgreedBy(p) = None /\ AgreedBy(p)' # None
  BY <1>1, <1>2, <1>3, <1>4, <1>5, <1>7, <1>8, <1>9
<1>10. CASE /\ SecuredBy(p) = None /\ AgreedBy(p) # None /\ AgreedBy(q) # None
            /\ SecuredBy(p)' = AgreedBy(p) /\ AgreedBy(p)' = AgreedBy(p)
  BY <1>1, <1>2, <1>3, <1>4, <1>7, <1>8, <1>10
<1>11. CASE SecuredBy(p) # None /\ SecuredBy(p)' = None /\ AgreedBy(p)' = AgreedBy(p)
  BY <1>1, <1>2, <1>3, <1>4, <1>7, <1>8, <1>11
<1> QED BY <1>2, <1>9, <1>10, <1>11

(* The protocol of Bottom (BottomProtocol.cs, with startSecureChannel and   *)
(* close of Bottom.cs) keeps the promise of ChannelAgreement for any lists, *)
(* lost messages, refused calls and ends of the call: what one peer agrees  *)
(* to receive on is what the other sends on, and no peer secures channels   *)
(* before both agreed.                                                      *)
THEOREM AgreementImplemented ==
  ASSUME NoneIsUnset
  PROVE  Spec => ImplementsAgreement
<1>1. Init => Agreement!Init
  BY DEF Init, Agreement!Init, NoSession
<1>2. BottomInv /\ BottomInv' /\ [Next]_vars =>
        [Agreement!Next]_<<[p \in Peer |-> IF state[p] = "WaitForConfirmation"
                                           THEN [in |-> channels[p].in, out |-> channels[p].out] ELSE None],
                           [p \in Peer |-> IF session[p].status = "running"
                                           THEN [in |-> session[p].in, out |-> session[p].out] ELSE None]>>
  <2>1. CASE UNCHANGED vars
    BY <2>1 DEF vars, protocolVars, secureVars
  <2>2. ASSUME BottomInv, BottomInv', NEW p \in Peer, Step(p)
        PROVE  \/ Agreement!Next
               \/ UNCHANGED <<[r \in Peer |-> IF state[r] = "WaitForConfirmation"
                                              THEN [in |-> channels[r].in, out |-> channels[r].out] ELSE None],
                              [r \in Peer |-> IF session[r].status = "running"
                                              THEN [in |-> session[r].in, out |-> session[r].out] ELSE None]>>
    BY <2>2, AgreementStep DEF AgreedBy, SecuredBy
  <2> QED BY <2>1, <2>2, NextIsStep
<1> QED BY <1>1, <1>2, Invariant, PTL DEF Spec, ImplementsAgreement, Agreement!Spec
====
