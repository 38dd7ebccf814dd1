------------------------- MODULE TrafficHandler_proofs -------------------------
(***************************************************************************)
(* Theorems of module TrafficHandler, for any threads, connections,        *)
(* sessions, keys and policies.                                            *)
(***************************************************************************)
EXTENDS TrafficHandler, TLAPS, WellFoundedInduction

Pcs == {"idle"} \cup Step \cup SendOutcome \cup ReceiveOutcome

\* TypeOK by the variables that one kind of action touches.
PolicyOK == securityPolicy \in Policies \cup {TIGHT}
SessionsOK ==
  /\ encSessions \in [DOMAIN encSessions -> Session]
  /\ keys \in [DOMAIN keys -> Key \ WeakKey]
  /\ DOMAIN encSessions \cup DOMAIN keys \subseteq started
  /\ started \subseteq SessionId
ListsOK ==
  /\ openConnectionsSend \subseteq Connection
  /\ openConnectionsReceive \subseteq Connection
CountsOK ==
  /\ countConnections \in BOOLEAN
  /\ connectionCounts \in [Ip -> 0..MaxCount]
CallsOK ==
  /\ pc \in [Threads -> Pcs]
  /\ call \in [Threads -> Call \cup {NoCall}]
  /\ \A t \in Threads : pc[t] # "idle" => call[t] \in Call
WatchOK == watch \in [Threads -> SUBSET Watched]

\* The parts make up the type invariant.
LEMMA TypeParts ==
  TypeOK <=> PolicyOK /\ SessionsOK /\ ListsOK /\ CountsOK /\ CallsOK /\ WatchOK
  BY DEF TypeOK, PolicyOK, SessionsOK, ListsOK, CountsOK, CallsOK, WatchOK, Pcs

\* The history variable is well typed after every step.
LEMMA ObserveType ==
  ASSUME Observe
  PROVE  WatchOK'
  BY DEF Observe, WatchOK, Observed, Watched

\* Adding a connection to some sessions keeps what they are.
LEMMA AddOutgoingType ==
  ASSUME SessionsOK, NEW ids, NEW c \in Connection
  PROVE  /\ AddOutgoing(ids, c) \in [DOMAIN encSessions -> Session]
         /\ DOMAIN AddOutgoing(ids, c) = DOMAIN encSessions
  BY DEF SessionsOK, AddOutgoing, Session

\* The lowest of a nonempty set of ids is one of them.
LEMMA FirstIsIn ==
  ASSUME NEW ids \in SUBSET Nat, ids # {}
  PROVE  First(ids) \in ids
<1>1. PICK i \in ids : \A j \in ids : ~ (<<j, i>> \in OpToRel(<, Nat))
  BY WFMin, NatLessThanWellFounded
<1>2. ASSUME NEW j \in ids
      PROVE  i <= j
  <2>1. ~ (j < i)
    BY <1>1 DEF OpToRel
  <2> QED
    BY <2>1
<1> QED
  BY <1>2 DEF First

\* Everything but the history, which ObserveType settles for all steps.
StateOK == PolicyOK /\ SessionsOK /\ ListsOK /\ CountsOK /\ CallsOK

\* The sessions that own a connection have ids of SessionId; the first one is one of them.
LEMMA OwnersType ==
  ASSUME SessionsOK, NEW c
  PROVE  /\ OwnersOutgoing(c) # {} => First(OwnersOutgoing(c)) \in OwnersOutgoing(c)
         /\ OwnersIncoming(c) # {} => First(OwnersIncoming(c)) \in OwnersIncoming(c)
         /\ OwnersOutgoing(c) \subseteq SessionId
         /\ OwnersIncoming(c) \subseteq SessionId
<1>1. OwnersOutgoing(c) \in SUBSET Nat /\ OwnersOutgoing(c) \subseteq SessionId
  BY ConstantsAssumption DEF OwnersOutgoing, SessionsOK
<1>2. OwnersIncoming(c) \in SUBSET Nat /\ OwnersIncoming(c) \subseteq SessionId
  BY ConstantsAssumption DEF OwnersIncoming, SessionsOK
<1> QED
  BY <1>1, <1>2, FirstIsIn

\* A call starts with well typed local variables.
LEMMA NewCallType ==
  ASSUME NEW c \in Connection
  PROVE  NewCall(c) \in Call
  BY DEF NewCall, Call

\* A thread's step in packetToSend keeps the state well typed.
LEMMA SendType ==
  ASSUME StateOK, NEW t \in Threads, PacketToSend(t)
  PROVE  StateOK'
<1> USE DEF StateOK, GoTo, listVars, sessionVars, countVars
<1>1. ASSUME NEW c \in Connection, SendLocal(t, c)
      PROVE  StateOK'
  <2> QED
    BY <1>1, NewCallType DEF SendLocal, PolicyOK, SessionsOK, ListsOK, CountsOK, CallsOK, Pcs, SendOutcome
<1>2. ASSUME NEW c \in Connection, SnapshotPolicy(t, c)
      PROVE  StateOK'
  <2>1. [NewCall(c) EXCEPT !.sp = securityPolicy, !.active = Running] \in Call
    <3>1. ASSUME NEW b \in BOOLEAN
          PROVE  [NewCall(c) EXCEPT !.sp = securityPolicy, !.active = b] \in Call
      <4>1. securityPolicy \in Int
        BY ConstantsAssumption DEF PolicyOK, TIGHT
      <4>2. [NewCall(c) EXCEPT !.sp = securityPolicy] \in Call
        BY <4>1, NewCallType DEF Call
      <4> HIDE DEF StateOK
      <4>3. [[NewCall(c) EXCEPT !.sp = securityPolicy] EXCEPT !.active = b] \in Call
        BY <4>2 DEF Call
      <4> QED
        BY <4>3 DEF NewCall
    <3>2. Running \in BOOLEAN
      BY DEF Running
    <3> HIDE DEF StateOK
    <3> QED
      BY <3>1, <3>2, Zenon
  <2>2. c.ip \in Ip
    BY DEF Ip
  <2>3. CountsOK'
    BY <1>2, <2>2, ConstantsAssumption DEF SnapshotPolicy, UpdateConnectionCounts, CountsOK
  <2>4. CallsOK'
    BY <1>2, <2>1 DEF SnapshotPolicy, CallsOK, Pcs, Step
  <2> QED
    BY <1>2, <2>3, <2>4 DEF SnapshotPolicy, PolicyOK, SessionsOK, ListsOK
<1>3. CASE CheckNew(t)
  <2>1. call[t] \in Call
    BY <1>3 DEF CheckNew, CallsOK
  <2> QED
    BY <1>3, <2>1 DEF CheckNew, Call, PolicyOK, SessionsOK, ListsOK, CountsOK, CallsOK, Pcs, Step
<1>4. CASE Expand(t)
  <2>1. call[t].conn \in Connection
    BY <1>4 DEF Expand, CallsOK, Call
  <2>2. SessionsOK'
    BY <1>4, <2>1, AddOutgoingType DEF Expand, SessionsOK
  <2> QED
    BY <1>4, <2>2 DEF Expand, PolicyOK, ListsOK, CountsOK, CallsOK, Pcs, Step, SendOutcome
<1>5. CASE RecordNew(t)
  <2>1. call[t] \in Call
    BY <1>5 DEF RecordNew, CallsOK
  <2> QED
    BY <1>5, <2>1 DEF RecordNew, Call, PolicyOK, SessionsOK, ListsOK, CountsOK, CallsOK, Pcs, Step
<1>6. CASE LookupOwned(t)
  <2>1. call[t] \in Call
    BY <1>6 DEF LookupOwned, CallsOK
  <2>2. [call[t] EXCEPT !.sid = First(OwnersOutgoing(call[t].conn))] \in Call
    BY <1>6, <2>1, OwnersType DEF LookupOwned, Call
  <2> QED
    BY <1>6, <2>2 DEF LookupOwned, PolicyOK, SessionsOK, ListsOK, CountsOK, CallsOK, Pcs, Step
<1>7. CASE LookupUnowned(t)
  BY <1>7 DEF LookupUnowned, PolicyOK, SessionsOK, ListsOK, CountsOK, CallsOK, Pcs, SendOutcome
<1>8. CASE FetchKey(t)
  <2>1. call[t] \in Call
    BY <1>8 DEF FetchKey, CallsOK
  <2>2. call[t].sid \in DOMAIN keys => [call[t] EXCEPT !.key = keys[call[t].sid]] \in Call
    BY <2>1 DEF SessionsOK, Call
  <2> QED
    BY <1>8, <2>2 DEF FetchKey, PolicyOK, SessionsOK, ListsOK, CountsOK, CallsOK, Pcs, Step, SendOutcome
<1>9. CASE Encrypt(t)
  BY <1>9 DEF Encrypt, PolicyOK, SessionsOK, ListsOK, CountsOK, CallsOK, Pcs, SendOutcome
<1> QED
  BY <1>1, <1>2, <1>3, <1>4, <1>5, <1>6, <1>7, <1>8, <1>9 DEF PacketToSend

\* So does one in packetReceived, and the return to the target program.
LEMMA ReceiveType ==
  ASSUME StateOK, NEW t \in Threads, PacketReceived(t) \/ Return(t)
  PROVE  StateOK'
<1> USE DEF StateOK, GoTo, listVars, sessionVars, countVars
<1>1. ASSUME NEW c \in Connection, NEW e \in BOOLEAN, RecordIncoming(t, c, e)
      PROVE  StateOK'
  <2>1. [NewCall(c) EXCEPT !.empty = e] \in Call
    BY NewCallType DEF Call
  <2> QED
    BY <1>1, <2>1 DEF RecordIncoming, PolicyOK, SessionsOK, ListsOK, CountsOK, CallsOK, Pcs, Step
<1>2. CASE SearchIncoming(t)
  <2> DEFINE c == call[t].conn
             first == First(OwnersIncoming(c))
  <2>1. call[t] \in Call /\ c \in Connection /\ c.ip \in Ip
    BY <1>2 DEF SearchIncoming, CallsOK, Call, Ip
  <2>2. OwnersIncoming(c) # {} => [call[t] EXCEPT !.sid = first] \in Call
    BY <2>1, OwnersType DEF Call
  <2>3. CountsOK'
    BY <1>2, <2>1, ConstantsAssumption DEF SearchIncoming, UpdateConnectionCounts, CountsOK
  <2>4. /\ encSessions' \in [DOMAIN encSessions -> Session]
        /\ DOMAIN encSessions' = DOMAIN encSessions
    BY <1>2, <2>1, AddOutgoingType DEF SearchIncoming, SessionsOK
  <2>5. SessionsOK'
    BY <1>2, <2>4 DEF SearchIncoming, SessionsOK
  <2>6. CallsOK'
    BY <1>2, <2>2 DEF SearchIncoming, CallsOK, Pcs, Step, ReceiveOutcome
  <2> QED
    BY <1>2, <2>3, <2>5, <2>6 DEF SearchIncoming, PolicyOK, ListsOK
<1>3. CASE FetchDecryptKey(t)
  <2>1. call[t] \in Call
    BY <1>3 DEF FetchDecryptKey, CallsOK
  <2>2. call[t].sid \in DOMAIN keys => [call[t] EXCEPT !.key = keys[call[t].sid]] \in Call
    BY <2>1 DEF SessionsOK, Call
  <2> QED
    BY <1>3, <2>2 DEF FetchDecryptKey, PolicyOK, SessionsOK, ListsOK, CountsOK, CallsOK, Pcs, Step,
                      ReceiveOutcome
<1>4. CASE Decrypt(t)
  BY <1>4 DEF Decrypt, PolicyOK, SessionsOK, ListsOK, CountsOK, CallsOK, Pcs, ReceiveOutcome
<1>5. CASE Return(t)
  BY <1>5 DEF Return, PolicyOK, SessionsOK, ListsOK, CountsOK, CallsOK, Pcs
<1> QED
  BY <1>1, <1>2, <1>3, <1>4, <1>5, ConstantsAssumption DEF PacketReceived

\* And so do the calls of the COM thread.
LEMMA ComType ==
  ASSUME StateOK, ComThread
  PROVE  StateOK'
<1> USE DEF StateOK, listVars, sessionVars, countVars
<1>1. ASSUME NEW id \in SessionId, RemoveEncryptedSession(id)
      PROVE  StateOK'
  <2>1. SessionsOK'
    BY <1>1 DEF RemoveEncryptedSession, TearDownEncryptedSession, Erase, SessionsOK
  <2> QED
    BY <1>1, <2>1 DEF RemoveEncryptedSession, PolicyOK, ListsOK, CountsOK, CallsOK
<1>2. ASSUME NEW id \in SessionId, NEW s \in Offered, AddEncryptedSession(id, s)
      PROVE  StateOK'
  <2>1. s \in Session /\ s.key \in Key
    BY ConstantsAssumption DEF Session
  <2>2. encSessions' \in [DOMAIN encSessions' -> Session] /\ DOMAIN encSessions' \subseteq started'
    BY <1>2, <2>1 DEF AddEncryptedSession, Put, SessionsOK
  <2>3. keys' \in [DOMAIN keys' -> Key \ WeakKey] /\ DOMAIN keys' \subseteq started'
    BY <1>2, <2>1 DEF AddEncryptedSession, SetUpEncryptedSession, Put, SessionsOK
  <2>4. SessionsOK'
    BY <1>2, <2>2, <2>3 DEF AddEncryptedSession, SessionsOK
  <2> QED
    BY <1>2, <2>4 DEF AddEncryptedSession, PolicyOK, ListsOK, CountsOK, CallsOK
<1>3. ASSUME NEW p \in Policies, SetSecurityPolicy(p)
      PROVE  StateOK'
  BY <1>3 DEF SetSecurityPolicy, PolicyOK, SessionsOK, ListsOK, CountsOK, CallsOK
<1>4. CASE ResetOugoingConnections
  BY <1>4 DEF ResetOugoingConnections, PolicyOK, SessionsOK, ListsOK, CountsOK, CallsOK
<1>5. CASE ResetIncomingConnections
  BY <1>5 DEF ResetIncomingConnections, PolicyOK, SessionsOK, ListsOK, CountsOK, CallsOK
<1>6. ASSUME NEW enable \in BOOLEAN, SetCountConnections(enable)
      PROVE  StateOK'
  BY <1>6, ConstantsAssumption DEF SetCountConnections, PolicyOK, SessionsOK, ListsOK, CountsOK, CallsOK
<1> QED
  BY <1>1, <1>2, <1>3, <1>4, <1>5, <1>6 DEF ComThread

-----------------------------------------------------------------------------
\* Every variable keeps its type, and the ids of running sessions and of keys stay among
\* those that were started (TrafficHandler.cpp 27-247): whatever threads and COM calls do.
THEOREM TypeCorrect == Spec => []TypeOK
<1>1. Init => TypeOK
  <2> SUFFICES ASSUME Init
               PROVE  TypeOK
    OBVIOUS
  <2>1. SessionsOK
    BY DEF Init, EmptyMap, SessionsOK
  <2>2. CountsOK
    <3>1. countConnections \in BOOLEAN
      BY Zenon DEF Init
    <3>2. connectionCounts \in [Ip -> 0..MaxCount]
      BY ConstantsAssumption DEF Init
    <3> QED
      BY <3>1, <3>2 DEF CountsOK
  <2>3. CallsOK
    BY DEF Init, CallsOK, Pcs
  <2>4. PolicyOK /\ ListsOK /\ WatchOK
    BY DEF Init, PolicyOK, ListsOK, WatchOK
  <2> QED
    BY <2>1, <2>2, <2>3, <2>4, TypeParts
<1>2. TypeOK /\ [Next]_vars => TypeOK'
  <2> SUFFICES ASSUME TypeOK, [Next]_vars
               PROVE  TypeOK'
    OBVIOUS
  <2>1. CASE Next
    <3>1. StateOK
      BY TypeParts DEF StateOK
    <3>2. StateOK'
      BY <2>1, <3>1, SendType, ReceiveType, ComType DEF Next
    <3>3. WatchOK'
      BY <2>1, ObserveType DEF Next
    <3> QED
      BY <3>2, <3>3 DEF StateOK, TypeOK, PolicyOK, SessionsOK, ListsOK, CountsOK, CallsOK, WatchOK, Pcs
  <2>2. CASE UNCHANGED vars
    BY <2>2 DEF vars, sessionVars, listVars, countVars, TypeOK
  <2> QED
    BY <2>1, <2>2
<1> QED
  BY <1>1, <1>2, PTL DEF Spec

-----------------------------------------------------------------------------
(* What packetToSend never lets through *)

\* What a call has watched ever since it began holds now.
WatchHolds == \A t \in Threads : pc[t] # "idle" => watch[t] \subseteq Observed(t)

Judged == {"checkNew", "expand", "recordNew", "lookup"}
PastCheck == {"recordNew", "lookup", "encryptKey", "encrypt", "cipher", "plain"}

\* The inductive invariant of one call: as long as the policy was tight, or the connection
\* a foreign one, the snapshots say so, and the call takes the way that drops the packet.
SnapshotsTell(t) ==
  pc[t] \in Judged =>
    /\ "tight" \in watch[t] => call[t].sp = TIGHT /\ call[t].active
    /\ "foreign" \in watch[t] => call[t].sp >= LOOSE /\ call[t].active
ForeignKeptOut(t) ==
  pc[t] \in PastCheck /\ call[t].conn.ip # LocalHost => "foreign" \notin watch[t]
PlainAllowed(t) ==
  pc[t] = "plain" /\ call[t].conn.ip # LocalHost =>
    "tight" \notin watch[t] /\ "owned" \notin watch[t]
SendInv == \A t \in Threads : SnapshotsTell(t) /\ ForeignKeptOut(t) /\ PlainAllowed(t)

\* What Observe does to the history of one thread.
LEMMA ObserveThread ==
  ASSUME Observe, NEW t \in Threads
  PROVE  /\ pc'[t] = "idle" => watch'[t] = {}
         /\ pc'[t] # "idle" => watch'[t] \subseteq Observed(t)'
         /\ pc[t] # "idle" => watch'[t] \subseteq watch[t]
  BY DEF Observe

\* A step of one thread leaves the calls of the others alone.
LEMMA OthersUntouched ==
  ASSUME CallsOK, NEW t \in Threads, NEW u \in Threads, u # t,
         PacketToSend(t) \/ PacketReceived(t) \/ Return(t)
  PROVE  pc'[u] = pc[u] /\ call'[u] = call[u]
<1> USE DEF CallsOK, GoTo
<1>1. CASE PacketToSend(t)
  BY <1>1 DEF PacketToSend, SendLocal, SnapshotPolicy, CheckNew, Expand, RecordNew, LookupOwned,
              LookupUnowned, FetchKey, Encrypt
<1>2. CASE PacketReceived(t)
  BY <1>2 DEF PacketReceived, RecordIncoming, SearchIncoming, FetchDecryptKey, Decrypt
<1>3. CASE Return(t)
  BY <1>3 DEF Return
<1> QED
  BY <1>1, <1>2, <1>3, SMTT(30)

\* A call that goes on where it was, with its history no larger, stays within SendInv.
LEMMA SendInvKept ==
  ASSUME Observe, SendInv, NEW u \in Threads, pc'[u] = pc[u], call'[u] = call[u]
  PROVE  (SnapshotsTell(u) /\ ForeignKeptOut(u) /\ PlainAllowed(u))'
<1>1. CASE pc[u] = "idle"
  BY <1>1 DEF SnapshotsTell, ForeignKeptOut, PlainAllowed, Judged, PastCheck
<1>2. CASE pc[u] # "idle"
  <2>1. watch'[u] \subseteq watch[u]
    BY <1>2, ObserveThread
  <2> QED
    BY <1>2, <2>1 DEF SendInv, SnapshotsTell, ForeignKeptOut, PlainAllowed, Judged, PastCheck, TIGHT, LOOSE
<1> QED
  BY <1>1, <1>2

\* The steps of the sending thread itself.
LEMMA SendInvOwn ==
  ASSUME StateOK, Observe, WatchHolds, SendInv, NEW t \in Threads,
         PacketToSend(t) \/ PacketReceived(t) \/ Return(t)
  PROVE  (SnapshotsTell(t) /\ ForeignKeptOut(t) /\ PlainAllowed(t))'
<1> DEFINE Goal == (SnapshotsTell(t) /\ ForeignKeptOut(t) /\ PlainAllowed(t))'
<1>0. /\ pc \in [Threads -> Pcs] /\ call \in [Threads -> Call \cup {NoCall}]
      /\ pc[t] # "idle" => /\ watch[t] \subseteq Observed(t)
                           /\ watch'[t] \subseteq watch[t]
      /\ pc'[t] # "idle" => watch'[t] \subseteq Observed(t)'
  BY ObserveThread DEF StateOK, CallsOK, WatchHolds
<1>1. ASSUME NEW c \in Connection, SendLocal(t, c)
      PROVE  Goal
  BY <1>0, <1>1 DEF SendLocal, GoTo, NewCall, SnapshotsTell, ForeignKeptOut, PlainAllowed, Judged, PastCheck
<1>2. ASSUME NEW c \in Connection, SnapshotPolicy(t, c)
      PROVE  Goal
  <2>1. pc'[t] = "checkNew" /\ call'[t].sp = securityPolicy /\ call'[t].active = (DOMAIN encSessions # {})
    BY <1>0, <1>2 DEF SnapshotPolicy, GoTo, NewCall, Running
  <2>2. encSessions' = encSessions /\ securityPolicy' = securityPolicy
    BY <1>2 DEF SnapshotPolicy, sessionVars
  <2>3. "tight" \in watch'[t] => securityPolicy = TIGHT /\ DOMAIN encSessions # {}
    BY <1>0, <2>1, <2>2 DEF Observed, Holding, Running
  <2>4. "foreign" \in watch'[t] => securityPolicy >= LOOSE /\ DOMAIN encSessions # {}
    BY <1>0, <2>1, <2>2 DEF Observed, Holding, Running
  <2> QED
    BY <2>1, <2>3, <2>4 DEF SnapshotsTell, ForeignKeptOut, PlainAllowed, Judged, PastCheck
<1>3. CASE CheckNew(t)
  <2>1. pc[t] = "checkNew" /\ call'[t] = call[t]
    BY <1>3 DEF CheckNew
  <2>2. "foreign" \in watch'[t] => IsBlocked(t)
    <3>1. "foreign" \in watch'[t] => call[t].conn \notin openConnectionsSend
      BY <1>0, <2>1 DEF Observed, Holding
    <3>2. "foreign" \in watch'[t] => call[t].sp >= LOOSE /\ call[t].active
      BY <1>0, <2>1 DEF SendInv, SnapshotsTell, Judged
    <3> QED
      BY <3>1, <3>2 DEF IsBlocked
  <2>3. "foreign" \in watch'[t] => pc'[t] = "expand"
    BY <1>0, <1>3, <2>2 DEF CheckNew, GoTo
  <2>4. pc'[t] \in {"expand", "lookup"}
    BY <1>0, <1>3 DEF CheckNew, GoTo
  <2> QED
    BY <1>0, <2>1, <2>3, <2>4 DEF SendInv, SnapshotsTell, ForeignKeptOut, PlainAllowed, Judged, PastCheck
<1>4. CASE Expand(t)
  <2>1. pc[t] = "expand" /\ call'[t] = call[t]
    BY <1>4 DEF Expand
  <2>2. "foreign" \in watch'[t] => Expandable(call[t].conn) = {}
    BY <1>0, <2>1 DEF Observed, Holding
  <2>3. /\ "foreign" \in watch'[t] => pc'[t] = "dropped"
        /\ pc'[t] \in {"dropped", "recordNew"}
    BY <1>0, <1>4, <2>2 DEF Expand, GoTo
  <2> QED
    BY <1>0, <2>1, <2>3 DEF SendInv, SnapshotsTell, ForeignKeptOut, PlainAllowed, Judged, PastCheck
<1>5. CASE RecordNew(t)
  <2>1. pc[t] = "recordNew" /\ call'[t] = call[t] /\ pc'[t] = "lookup"
    BY <1>0, <1>5 DEF RecordNew, GoTo
  <2> QED
    BY <1>0, <2>1 DEF SendInv, SnapshotsTell, ForeignKeptOut, PlainAllowed, Judged, PastCheck
<1>6. CASE LookupOwned(t)
  <2>1. pc[t] = "lookup" /\ pc'[t] = "encryptKey" /\ call'[t].conn = call[t].conn
    BY <1>0, <1>6 DEF LookupOwned, GoTo, StateOK, CallsOK, Call
  <2> QED
    BY <1>0, <2>1 DEF SendInv, SnapshotsTell, ForeignKeptOut, PlainAllowed, Judged, PastCheck
<1>7. CASE LookupUnowned(t)
  <2>1. pc[t] = "lookup" /\ call'[t] = call[t] /\ pc'[t] \in {"plain", "dropped", "failed"}
    BY <1>0, <1>7 DEF LookupUnowned, GoTo
  <2>2. "owned" \notin watch'[t]
    BY <1>0, <1>7, <2>1 DEF LookupUnowned, Observed, Holding
  <2>3. pc'[t] = "plain" => "tight" \notin watch'[t]
    <3>1. "tight" \in watch'[t] => call[t].sp = TIGHT /\ call[t].active
      BY <1>0, <2>1 DEF SendInv, SnapshotsTell, Judged
    <3>2. pc'[t] = "plain" => ~DropsPlain(t)
      BY <1>0, <1>7 DEF LookupUnowned, GoTo
    <3> QED
      BY <3>1, <3>2 DEF DropsPlain
  <2> QED
    BY <1>0, <2>1, <2>2, <2>3 DEF SendInv, SnapshotsTell, ForeignKeptOut, PlainAllowed, Judged, PastCheck
<1>8. CASE FetchKey(t)
  <2>1. /\ pc[t] = "encryptKey" /\ pc'[t] \in {"encrypt", "dropped"}
        /\ call'[t].conn = call[t].conn
    BY <1>0, <1>8 DEF FetchKey, GoTo, StateOK, CallsOK, Call
  <2> QED
    BY <1>0, <2>1 DEF SendInv, SnapshotsTell, ForeignKeptOut, PlainAllowed, Judged, PastCheck
<1>9. CASE Encrypt(t)
  <2>1. pc[t] = "encrypt" /\ pc'[t] \in {"cipher", "dropped", "failed"} /\ call'[t] = call[t]
    BY <1>0, <1>9 DEF Encrypt, GoTo
  <2> QED
    BY <1>0, <2>1 DEF SendInv, SnapshotsTell, ForeignKeptOut, PlainAllowed, Judged, PastCheck
<1>10. CASE PacketReceived(t) \/ Return(t)
  <2>1. pc'[t] \notin Judged \cup PastCheck
    BY <1>0, <1>10
    DEF PacketReceived, RecordIncoming, SearchIncoming, FetchDecryptKey, Decrypt, Return, GoTo,
        Judged, PastCheck
  <2> QED
    BY <2>1 DEF SnapshotsTell, ForeignKeptOut, PlainAllowed, PastCheck
<1> QED
  BY <1>1, <1>2, <1>3, <1>4, <1>5, <1>6, <1>7, <1>8, <1>9, <1>10 DEF PacketToSend

\* WatchHolds and SendInv are inductive, given the types.
LEMMA SendInductive ==
  Spec => [](WatchHolds /\ SendInv)
<1>1. Init => WatchHolds /\ SendInv
  BY DEF Init, WatchHolds, SendInv, SnapshotsTell, ForeignKeptOut, PlainAllowed, Judged, PastCheck
<1>2. TypeOK /\ WatchHolds /\ SendInv /\ [Next]_vars => (WatchHolds /\ SendInv)'
  <2> SUFFICES ASSUME TypeOK, WatchHolds, SendInv, [Next]_vars
               PROVE  WatchHolds' /\ SendInv'
    OBVIOUS
  <2>0. StateOK /\ CallsOK
    BY TypeParts DEF StateOK
  <2>1. CASE Next
    <3>1. Observe
      BY <2>1 DEF Next
    <3>2. WatchHolds'
      BY <3>1, ObserveThread DEF WatchHolds
    <3>3. ASSUME NEW u \in Threads
          PROVE  (SnapshotsTell(u) /\ ForeignKeptOut(u) /\ PlainAllowed(u))'
      <4>1. CASE ComThread
        <5>1. pc' = pc /\ call' = call
          BY <4>1 DEF ComThread, RemoveEncryptedSession, AddEncryptedSession, SetSecurityPolicy,
                      ResetOugoingConnections, ResetIncomingConnections, SetCountConnections
        <5> QED
          BY <3>1, <5>1, SendInvKept
      <4>2. ASSUME NEW t \in Threads, PacketToSend(t) \/ PacketReceived(t) \/ Return(t)
            PROVE  (SnapshotsTell(u) /\ ForeignKeptOut(u) /\ PlainAllowed(u))'
        <5>1. CASE u = t
          BY <2>0, <3>1, <4>2, <5>1, SendInvOwn
        <5>2. CASE u # t
          BY <2>0, <3>1, <4>2, <5>2, OthersUntouched, SendInvKept
        <5> QED
          BY <5>1, <5>2
      <4> QED
        BY <2>1, <4>1, <4>2 DEF Next
    <3> QED
      BY <3>2, <3>3 DEF SendInv
  <2>2. CASE UNCHANGED vars
    <3>1. /\ pc' = pc /\ call' = call /\ watch' = watch
          /\ securityPolicy' = securityPolicy /\ encSessions' = encSessions /\ keys' = keys
          /\ openConnectionsSend' = openConnectionsSend
      BY <2>2 DEF vars, sessionVars, listVars
    <3>2. ASSUME NEW t \in Threads, NEW w
          PROVE  Holding(w, t)' <=> Holding(w, t)
      BY <3>1 DEF Holding, Running, OwnersOutgoing, OwnersIncoming, Expandable
    <3>3. WatchHolds'
      BY <3>1, <3>2 DEF WatchHolds, Observed
    <3>4. SendInv'
      BY <3>1 DEF SendInv, SnapshotsTell, ForeignKeptOut, PlainAllowed
    <3> QED
      BY <3>3, <3>4
  <2> QED
    BY <2>1, <2>2
<1> QED
  BY <1>1, <1>2, TypeCorrect, PTL DEF Spec

\* Under a policy that was TIGHT, and while sessions ran, ever since packetToSend was called,
\* no packet leaves unencrypted except to the loopback address (TrafficHandler.cpp 27-116).
THEOREM TightIsKept == Spec => []TightNeverPlain
<1>1. SendInv => TightNeverPlain
  BY DEF SendInv, PlainAllowed, TightNeverPlain
<1> QED
  BY <1>1, SendInductive, PTL

\* A packet of a connection that belonged to a running session all the time never leaves
\* unencrypted, under any policy and with any failing library call (cpp 93-115).
THEOREM OwnedIsEncrypted == Spec => []OwnedNeverPlain
<1>1. SendInv => OwnedNeverPlain
  BY DEF SendInv, PlainAllowed, OwnedNeverPlain
<1> QED
  BY <1>1, SendInductive, PTL

\* Nothing leaves on a new connection that no expandable session finds similar to one of its
\* own, while sessions run under LOOSE or TIGHT (cpp 53-86).
THEOREM ForeignIsKeptOut == Spec => []ForeignIsDropped
<1>1. SendInv => ForeignIsDropped
  BY DEF SendInv, ForeignKeptOut, ForeignIsDropped, PastCheck
<1> QED
  BY <1>1, SendInductive, PTL

-----------------------------------------------------------------------------
(* Whose key a packet gets *)

\* What a step may do to the running sessions and to their keys.
SessionEvolves(id) ==
  id \in started =>
    /\ id \in DOMAIN encSessions
    /\ encSessions'[id].in = encSessions[id].in
    /\ encSessions'[id].expand = encSessions[id].expand
    /\ encSessions'[id].key = encSessions[id].key
    /\ encSessions[id].out \subseteq encSessions'[id].out
KeyEvolves(id) ==
  /\ id \in started => id \in DOMAIN keys /\ keys'[id] = keys[id]
  /\ id \in DOMAIN encSessions' \ started => keys'[id] = encSessions'[id].key
SessionsEvolve ==
  /\ started \subseteq started'
  /\ \A id \in DOMAIN encSessions' : SessionEvolves(id)
  /\ \A id \in DOMAIN keys' : KeyEvolves(id)

\* A session that takes connections over keeps everything else.
LEMMA AddOutgoingEvolves ==
  ASSUME SessionsOK, NEW ids, NEW c \in Connection,
         encSessions' = AddOutgoing(ids, c), keys' = keys, started' = started
  PROVE  SessionsEvolve
<1>1. ASSUME NEW id \in DOMAIN encSessions
      PROVE  SessionEvolves(id)
  BY <1>1 DEF AddOutgoing, SessionsOK, Session, SessionEvolves
<1> QED
  BY <1>1 DEF AddOutgoing, SessionsOK, SessionsEvolve, KeyEvolves

\* Sessions and keys that a step leaves alone evolve.
LEMMA SameSessionsEvolve ==
  ASSUME SessionsOK, encSessions' = encSessions, keys' = keys, started' = started
  PROVE  SessionsEvolve
  BY DEF SessionsOK, SessionsEvolve, SessionEvolves, KeyEvolves

\* Of the steps of a thread only two touch the sessions.
LEMMA SessionsLeftAlone ==
  ASSUME NEW t \in Threads, PacketToSend(t) \/ PacketReceived(t) \/ Return(t),
         ~ Expand(t), ~ SearchIncoming(t)
  PROVE  encSessions' = encSessions /\ keys' = keys /\ started' = started
  BY DEF PacketToSend, PacketReceived, SendLocal, SnapshotPolicy, CheckNew, RecordNew,
         LookupOwned, LookupUnowned, FetchKey, Encrypt, RecordIncoming, FetchDecryptKey,
         Decrypt, Return, sessionVars

\* Whatever step is taken, a session that goes on running keeps its key, its incoming
\* connections and its kind, loses no outgoing connection, and comes back under no old id.
LEMMA StepEvolves ==
  ASSUME StateOK,
         \/ ComThread
         \/ \E t \in Threads : PacketToSend(t) \/ PacketReceived(t) \/ Return(t)
  PROVE  SessionsEvolve
<1> USE DEF StateOK, sessionVars
<1>1. ASSUME NEW id \in SessionId, RemoveEncryptedSession(id)
      PROVE  SessionsEvolve
  BY <1>1 DEF RemoveEncryptedSession, TearDownEncryptedSession, Erase, SessionsOK, SessionsEvolve,
              SessionEvolves, KeyEvolves
<1>2. ASSUME NEW id \in SessionId, NEW s \in Offered, AddEncryptedSession(id, s)
      PROVE  SessionsEvolve
  BY <1>2 DEF AddEncryptedSession, SetUpEncryptedSession, Put, SessionsOK, SessionsEvolve,
              SessionEvolves, KeyEvolves
<1>3. ASSUME ComThread, \A id \in SessionId : /\ ~ RemoveEncryptedSession(id)
                                             /\ \A s \in Offered : ~ AddEncryptedSession(id, s)
      PROVE  SessionsEvolve
  BY <1>3, SameSessionsEvolve
  DEF ComThread, SetSecurityPolicy, ResetOugoingConnections, ResetIncomingConnections, SetCountConnections
<1>4. ASSUME NEW t \in Threads, PacketToSend(t) \/ PacketReceived(t) \/ Return(t)
      PROVE  SessionsEvolve
  <2>1. CASE Expand(t)
    <3>1. call[t].conn \in Connection
      BY <2>1 DEF Expand, CallsOK, Call
    <3> QED
      BY <2>1, <3>1, AddOutgoingEvolves DEF Expand
  <2>2. CASE SearchIncoming(t)
    <3>1. call[t].conn \in Connection
      BY <2>2 DEF SearchIncoming, CallsOK, Call
    <3> QED
      BY <2>2, <3>1, AddOutgoingEvolves, SameSessionsEvolve DEF SearchIncoming
  <2>3. CASE ~ Expand(t) /\ ~ SearchIncoming(t)
    BY <1>4, <2>3, SessionsLeftAlone, SameSessionsEvolve
  <2> QED
    BY <2>1, <2>2, <2>3
<1> QED
  BY <1>1, <1>2, <1>3, <1>4

\* A key of a running session is the one that the session was started with.
KeysMatch ==
  \A id \in DOMAIN keys \cap DOMAIN encSessions : keys[id] = encSessions[id].key

Sending == {"encryptKey", "encrypt", "cipher"}
Receiving == {"decryptKey", "decrypt", "decrypted"}
Fetched == {"encrypt", "cipher", "decrypt", "decrypted"}

\* The inductive invariant of one call: as long as the session it found runs, the session owns
\* the connection, and the key that was fetched is the session's.
Finds(t) ==
  LET id == call[t].sid
      c == call[t].conn
  IN
  /\ pc[t] \in Sending \cup Receiving => id \in started
  /\ id \in DOMAIN encSessions =>
       /\ pc[t] \in Sending => c \in encSessions[id].out
       /\ pc[t] \in Receiving => id \in OwnersIncoming(c)
       /\ pc[t] \in Fetched => call[t].key = encSessions[id].key
OwnerInv == KeysMatch /\ \A t \in Threads : Finds(t)

\* A session goes on owning what it owned.
LEMMA OwnersKept ==
  ASSUME SessionsEvolve, NEW id \in DOMAIN encSessions', id \in started, NEW c
  PROVE  /\ id \in DOMAIN encSessions /\ encSessions'[id].key = encSessions[id].key
         /\ c \in encSessions[id].out => c \in encSessions'[id].out
         /\ id \in OwnersOutgoing(c) => id \in OwnersOutgoing(c)'
         /\ id \in OwnersIncoming(c) => id \in OwnersIncoming(c)'
  BY DEF SessionsEvolve, SessionEvolves, OwnersOutgoing, OwnersIncoming

\* Keys stay with their sessions.
LEMMA KeysMatchKept ==
  ASSUME SessionsEvolve, KeysMatch
  PROVE  KeysMatch'
<1> SUFFICES ASSUME NEW id \in DOMAIN keys', id \in DOMAIN encSessions'
             PROVE  keys'[id] = encSessions'[id].key
  BY DEF KeysMatch
<1>1. CASE id \in started
  BY <1>1 DEF KeysMatch, SessionsEvolve, SessionEvolves, KeyEvolves
<1>2. CASE id \notin started
  BY <1>2 DEF SessionsEvolve, KeyEvolves
<1> QED
  BY <1>1, <1>2

\* A call that waits while another thread or the COM thread takes a step.
LEMMA FindsKept ==
  ASSUME SessionsEvolve, NEW u \in Threads, pc'[u] = pc[u], call'[u] = call[u], Finds(u)
  PROVE  Finds(u)'
<1> DEFINE id == call[u].sid
           c == call[u].conn
<1>1. pc[u] \in Sending \cup Receiving => id \in started /\ id \in started'
  BY DEF Finds, SessionsEvolve
<1>2. CASE pc[u] \in Sending \cup Receiving /\ id \in DOMAIN encSessions'
  <2>1. /\ id \in DOMAIN encSessions /\ encSessions'[id].key = encSessions[id].key
        /\ c \in encSessions[id].out => c \in encSessions'[id].out
        /\ id \in OwnersIncoming(c) => id \in OwnersIncoming(c)'
    BY <1>1, <1>2, OwnersKept
  <2> QED
    BY <1>1, <2>1 DEF Finds
<1> QED
  BY <1>1, <1>2 DEF Finds, Sending, Receiving, Fetched

\* The steps of the thread itself.
LEMMA FindsOwn ==
  ASSUME StateOK, KeysMatch, SessionsEvolve, NEW t \in Threads, Finds(t),
         PacketToSend(t) \/ PacketReceived(t) \/ Return(t)
  PROVE  Finds(t)'
<1> DEFINE id == call[t].sid
           c == call[t].conn
<1>0. /\ pc \in [Threads -> Pcs] /\ call \in [Threads -> Call \cup {NoCall}]
      /\ pc[t] # "idle" => call[t] \in Call
      /\ DOMAIN encSessions \subseteq started
  BY DEF StateOK, CallsOK, SessionsOK
<1>1. CASE LookupOwned(t)
  <2> DEFINE first == First(OwnersOutgoing(c))
  <2>1. first \in OwnersOutgoing(c)
    BY <1>1, OwnersType DEF LookupOwned, StateOK
  <2>2. /\ call'[t].sid = first /\ call'[t].conn = c /\ pc'[t] = "encryptKey"
        /\ encSessions' = encSessions /\ started' = started
    BY <1>0, <1>1 DEF LookupOwned, GoTo, sessionVars, Call
  <2> QED
    BY <1>0, <2>1, <2>2 DEF Finds, Sending, Receiving, Fetched, OwnersOutgoing
<1>2. CASE FetchKey(t) \/ FetchDecryptKey(t)
  <2>1. /\ call'[t].sid = id /\ call'[t].conn = c
        /\ encSessions' = encSessions /\ started' = started
        /\ pc'[t] \in Fetched => id \in DOMAIN keys /\ call'[t].key = keys[id]
        /\ \/ pc[t] = "encryptKey" /\ pc'[t] \in {"encrypt", "dropped"}
           \/ pc[t] = "decryptKey" /\ pc'[t] \in {"decrypt", "rejected"}
    BY <1>0, <1>2 DEF FetchKey, FetchDecryptKey, GoTo, sessionVars, Call, Fetched
  <2>2. OwnersIncoming(c)' = OwnersIncoming(c)
    BY <2>1 DEF OwnersIncoming
  <2> QED
    BY <2>1, <2>2 DEF Finds, KeysMatch, Sending, Receiving, Fetched
<1>3. CASE SearchIncoming(t)
  <2> DEFINE first == First(OwnersIncoming(c))
  <2>1. /\ call'[t].conn = c /\ pc'[t] \in {"raw", "decryptKey"} /\ started' = started
        /\ pc'[t] = "decryptKey" => OwnersIncoming(c) # {} /\ call'[t].sid = first
    BY <1>0, <1>3 DEF SearchIncoming, GoTo, Call
  <2>2. OwnersIncoming(c) # {} => first \in OwnersIncoming(c) /\ first \in started
    <3>1. OwnersIncoming(c) # {} => first \in OwnersIncoming(c)
      BY OwnersType DEF StateOK
    <3>2. OwnersIncoming(c) \subseteq DOMAIN encSessions
      BY DEF OwnersIncoming
    <3> QED
      BY <1>0, <3>1, <3>2
  <2>3. CASE pc'[t] = "decryptKey"
    <3>1. first \in DOMAIN encSessions' => first \in OwnersIncoming(c)'
      BY <2>1, <2>2, <2>3, OwnersKept
    <3>2. call'[t].sid \in started'
      BY <2>1, <2>2, <2>3
    <3>3. call'[t].sid \in DOMAIN encSessions' => call'[t].sid \in OwnersIncoming(call[t].conn)'
      BY <2>1, <2>3, <3>1
    <3> QED
      BY <2>1, <2>3, <3>2, <3>3 DEF Finds, Sending, Receiving, Fetched
  <2>4. CASE pc'[t] = "raw"
    BY <2>4 DEF Finds, Sending, Receiving, Fetched
  <2> QED
    BY <2>1, <2>3, <2>4
<1>4. CASE Encrypt(t) \/ Decrypt(t)
  <2>1. /\ call'[t] = call[t] /\ encSessions' = encSessions /\ started' = started
        /\ \/ pc[t] = "encrypt" /\ pc'[t] \in {"cipher", "dropped", "failed"}
           \/ pc[t] = "decrypt" /\ pc'[t] \in {"decrypted", "undecrypted"}
    BY <1>0, <1>4 DEF Encrypt, Decrypt, GoTo, sessionVars
  <2>2. OwnersIncoming(c)' = OwnersIncoming(c)
    BY <2>1 DEF OwnersIncoming
  <2> QED
    BY <2>1, <2>2 DEF Finds, Sending, Receiving, Fetched
<1>5. CASE \/ \E k \in Connection : SendLocal(t, k) \/ SnapshotPolicy(t, k)
           \/ CheckNew(t) \/ Expand(t) \/ RecordNew(t) \/ LookupUnowned(t)
           \/ \E k \in Arriving, e \in BOOLEAN : RecordIncoming(t, k, e)
           \/ Return(t)
  <2>1. pc'[t] \notin Sending \cup Receiving
    <3> USE DEF GoTo, Sending, Receiving
    <3>1. ASSUME NEW k \in Connection, SendLocal(t, k) \/ SnapshotPolicy(t, k)
          PROVE  pc'[t] \notin Sending \cup Receiving
      BY <1>0, <3>1 DEF SendLocal, SnapshotPolicy
    <3>2. ASSUME NEW k \in Arriving, NEW e \in BOOLEAN, RecordIncoming(t, k, e)
          PROVE  pc'[t] \notin Sending \cup Receiving
      BY <1>0, <3>2 DEF RecordIncoming
    <3>3. CASE CheckNew(t) \/ Expand(t) \/ RecordNew(t) \/ LookupUnowned(t) \/ Return(t)
      BY <1>0, <3>3 DEF CheckNew, Expand, RecordNew, LookupUnowned, Return
    <3> QED
      BY <1>5, <3>1, <3>2, <3>3
  <2> QED
    BY <2>1 DEF Finds, Sending, Receiving, Fetched
<1> QED
  BY <1>1, <1>2, <1>3, <1>4, <1>5 DEF PacketToSend, PacketReceived

\* What the next theorems rest on is an invariant of the whole specification.
LEMMA OwnerInductive ==
  Spec => []OwnerInv
<1>1. Init => OwnerInv
  BY DEF Init, EmptyMap, OwnerInv, KeysMatch, Finds, Sending, Receiving, Fetched
<1>2. TypeOK /\ OwnerInv /\ [Next]_vars => OwnerInv'
  <2> SUFFICES ASSUME TypeOK, OwnerInv, [Next]_vars
               PROVE  OwnerInv'
    OBVIOUS
  <2>0. StateOK /\ CallsOK
    BY TypeParts DEF StateOK
  <2>1. CASE Next
    <3>1. SessionsEvolve
      BY <2>0, <2>1, StepEvolves DEF Next
    <3>2. ASSUME NEW u \in Threads
          PROVE  Finds(u)'
      <4>1. CASE ComThread
        <5>1. pc' = pc /\ call' = call
          BY <4>1 DEF ComThread, RemoveEncryptedSession, AddEncryptedSession, SetSecurityPolicy,
                      ResetOugoingConnections, ResetIncomingConnections, SetCountConnections
        <5> QED
          BY <3>1, <5>1, FindsKept DEF OwnerInv
      <4>2. ASSUME NEW t \in Threads, PacketToSend(t) \/ PacketReceived(t) \/ Return(t)
            PROVE  Finds(u)'
        <5>1. CASE u = t
          BY <2>0, <3>1, <4>2, <5>1, FindsOwn DEF OwnerInv
        <5>2. CASE u # t
          BY <2>0, <3>1, <4>2, <5>2, OthersUntouched, FindsKept DEF OwnerInv
        <5> QED
          BY <5>1, <5>2
      <4> QED
        BY <2>1, <4>1, <4>2 DEF Next
    <3> QED
      BY <3>1, <3>2, KeysMatchKept DEF OwnerInv
  <2>2. CASE UNCHANGED vars
    <3>1. SessionsEvolve /\ pc' = pc /\ call' = call
      BY <2>0, <2>2, SameSessionsEvolve DEF vars, sessionVars, StateOK
    <3> QED
      BY <3>1, FindsKept, KeysMatchKept DEF OwnerInv
  <2> QED
    BY <2>1, <2>2
<1> QED
  BY <1>1, <1>2, TypeCorrect, PTL DEF Spec

\* A packet is encrypted and decrypted with the key of the very session that owns its
\* connection, although the session is found under csGeneric and its key fetched later under
\* csKeys, with other threads and the COM thread in between (cpp 95-115, 131-162, 337-343).
THEOREM KeyIsOwners == Spec => []KeyOfOwner
<1>1. OwnerInv => KeyOfOwner
  BY DEF OwnerInv, Finds, KeyOfOwner, Sending, Receiving, Fetched
<1> QED
  BY <1>1, OwnerInductive, PTL

-----------------------------------------------------------------------------
(* What is never cut off, and what comes in *)

\* The inductive invariant of a call on an established connection: it takes the way on which
\* nothing is dropped, and the session that it found owns the connection until the end.
Flows(t) ==
  "flowing" \in watch[t] =>
    /\ pc[t] \notin {"expand", "recordNew", "dropped"}
    /\ pc[t] \in {"encryptKey", "encrypt"} => call[t].sid \in OwnersOutgoing(call[t].conn)

\* That of a call under VERY_LOOSE on a connection of no session.
Passes(t) ==
  "open" \in watch[t] =>
    /\ pc[t] \notin {"expand", "recordNew", "encryptKey", "encrypt", "dropped"}
    /\ pc[t] \in {"checkNew", "lookup"} => call[t].sp = VERY_LOOSE

\* That of a call of packetReceived on a connection of a session.
Decrypts(t) == pc[t] = "raw" /\ ~call[t].empty => "ownedIn" \notin watch[t]
FlowInv == \A t \in Threads : Flows(t) /\ Passes(t) /\ Decrypts(t)

\* What Observe drops of the history: an established connection counts as one only as long as
\* all its sessions go on.
LEMMA ObserveKept ==
  ASSUME Observe, NEW t \in Threads, pc[t] # "idle", pc'[t] # "idle", "flowing" \in watch'[t]
  PROVE  OwnersOutgoing(call[t].conn) \subseteq DOMAIN encSessions'
  BY DEF Observe, Kept

\* A call that waits while another thread or the COM thread takes a step.
LEMMA FlowsKept ==
  ASSUME SessionsOK, Observe, SessionsEvolve, NEW u \in Threads, pc'[u] = pc[u], call'[u] = call[u],
         Flows(u), Passes(u), Decrypts(u)
  PROVE  (Flows(u) /\ Passes(u) /\ Decrypts(u))'
<1>1. CASE pc[u] = "idle"
  BY <1>1, ObserveThread DEF Flows, Passes, Decrypts
<1>2. CASE pc[u] # "idle"
  <2>1. watch'[u] \subseteq watch[u]
    BY <1>2, ObserveThread
  <2>2. Passes(u)' /\ Decrypts(u)'
    BY <2>1 DEF Passes, Decrypts
  <2>3. ASSUME "flowing" \in watch'[u], pc[u] \in {"encryptKey", "encrypt"}
        PROVE  call[u].sid \in OwnersOutgoing(call[u].conn)'
    <3>1. call[u].sid \in OwnersOutgoing(call[u].conn)
      BY <2>1, <2>3 DEF Flows
    <3>2. call[u].sid \in DOMAIN encSessions'
      BY <1>2, <2>3, <3>1, ObserveKept
    <3>3. call[u].sid \in started
      BY <3>1 DEF OwnersOutgoing, SessionsOK
    <3> QED
      BY <3>1, <3>2, <3>3, OwnersKept
  <2> QED
    BY <2>1, <2>2, <2>3 DEF Flows
<1> QED
  BY <1>1, <1>2

\* The steps of the thread itself.
LEMMA FlowsOwn ==
  ASSUME StateOK, Observe, WatchHolds, OwnerInv, NEW t \in Threads,
         Flows(t), Passes(t), Decrypts(t),
         PacketToSend(t) \/ PacketReceived(t) \/ Return(t)
  PROVE  (Flows(t) /\ Passes(t) /\ Decrypts(t))'
<1> DEFINE Goal == (Flows(t) /\ Passes(t) /\ Decrypts(t))'
           c == call[t].conn
           id == call[t].sid
<1>0. /\ pc \in [Threads -> Pcs] /\ call \in [Threads -> Call \cup {NoCall}]
      /\ pc[t] # "idle" => /\ call[t] \in Call
                           /\ watch[t] \subseteq Observed(t)
                           /\ watch'[t] \subseteq watch[t]
      /\ pc'[t] # "idle" => watch'[t] \subseteq Observed(t)'
      /\ pc'[t] = "idle" => watch'[t] = {}
  BY ObserveThread DEF StateOK, CallsOK, WatchHolds
<1>1. ASSUME NEW k \in Connection, SendLocal(t, k)
      PROVE  Goal
  BY <1>0, <1>1 DEF SendLocal, GoTo, Flows, Passes, Decrypts
<1>2. ASSUME NEW k \in Connection, SnapshotPolicy(t, k)
      PROVE  Goal
  <2>1. pc'[t] = "checkNew" /\ call'[t].sp = securityPolicy /\ securityPolicy' = securityPolicy
    BY <1>0, <1>2 DEF SnapshotPolicy, GoTo, NewCall
  <2>2. "open" \in watch'[t] => securityPolicy = VERY_LOOSE
    BY <1>0, <2>1 DEF Observed, Holding
  <2> QED
    BY <2>1, <2>2 DEF Flows, Passes, Decrypts
<1>3. CASE CheckNew(t)
  <2>1. /\ pc[t] = "checkNew" /\ call'[t] = call[t] /\ pc'[t] \in {"expand", "lookup"}
        /\ pc'[t] = "expand" => IsBlocked(t)
    BY <1>0, <1>3 DEF CheckNew, GoTo
  <2>2. "flowing" \in watch'[t] => c \in openConnectionsSend
    BY <1>0, <2>1 DEF Observed, Holding
  <2>3. "open" \in watch'[t] => call[t].sp = VERY_LOOSE
    BY <1>0, <2>1 DEF Passes
  <2>4. pc'[t] = "expand" => "flowing" \notin watch'[t] /\ "open" \notin watch'[t]
    BY <2>1, <2>2, <2>3 DEF IsBlocked, VERY_LOOSE, LOOSE
  <2> QED
    BY <2>1, <2>3, <2>4 DEF Flows, Passes, Decrypts
<1>4. CASE Expand(t) \/ RecordNew(t)
  <2>1. /\ pc[t] \in {"expand", "recordNew"} /\ pc'[t] \in {"dropped", "recordNew", "lookup"}
    BY <1>0, <1>4 DEF Expand, RecordNew, GoTo
  <2>2. "flowing" \notin watch'[t] /\ "open" \notin watch'[t]
    BY <1>0, <2>1 DEF Flows, Passes
  <2> QED
    BY <2>1, <2>2 DEF Flows, Passes, Decrypts
<1>5. CASE LookupOwned(t)
  <2>1. /\ pc[t] = "lookup" /\ pc'[t] = "encryptKey" /\ call'[t].conn = c
        /\ call'[t].sid = First(OwnersOutgoing(c)) /\ OwnersOutgoing(c) # {}
        /\ encSessions' = encSessions
    BY <1>0, <1>5 DEF LookupOwned, GoTo, sessionVars, Call
  <2>2. First(OwnersOutgoing(c)) \in OwnersOutgoing(c)
    BY <2>1, OwnersType DEF StateOK
  <2>3. OwnersOutgoing(c)' = OwnersOutgoing(c)
    BY <2>1 DEF OwnersOutgoing
  <2>4. "open" \notin watch'[t]
    BY <1>0, <2>1 DEF Observed, Holding
  <2> QED
    BY <2>1, <2>2, <2>3, <2>4 DEF Flows, Passes, Decrypts
<1>6. CASE LookupUnowned(t)
  <2>1. /\ pc[t] = "lookup" /\ OwnersOutgoing(c) = {} /\ pc'[t] \in {"dropped", "plain", "failed"}
        /\ pc'[t] = "dropped" => call[t].sp = TIGHT
    BY <1>0, <1>6 DEF LookupUnowned, GoTo, DropsPlain
  <2>2. "flowing" \notin watch'[t]
    BY <1>0, <2>1 DEF Observed, Holding
  <2>3. pc'[t] = "dropped" => "open" \notin watch'[t]
    BY <1>0, <2>1 DEF Passes, VERY_LOOSE, TIGHT
  <2> QED
    BY <2>1, <2>2, <2>3 DEF Flows, Passes, Decrypts
<1>7. CASE FetchKey(t) \/ Encrypt(t)
  <2>1. /\ pc[t] \in {"encryptKey", "encrypt"} /\ pc'[t] \in {"encrypt", "cipher", "dropped", "failed"}
        /\ call'[t].sid = id /\ call'[t].conn = c
        /\ encSessions' = encSessions
    BY <1>0, <1>7 DEF FetchKey, Encrypt, GoTo, sessionVars, Call
  <2>2. OwnersOutgoing(c)' = OwnersOutgoing(c)
    BY <2>1 DEF OwnersOutgoing
  <2>3. "open" \notin watch'[t]
    BY <1>0, <2>1 DEF Passes
  <2>4. ASSUME "flowing" \in watch'[t]
        PROVE  id \in OwnersOutgoing(c) /\ pc'[t] # "dropped"
    <3>1. id \in OwnersOutgoing(c)
      BY <1>0, <2>1, <2>4 DEF Flows
    <3>2. OwnersOutgoing(c) \subseteq DOMAIN keys
      BY <1>0, <2>1, <2>4 DEF Observed, Holding
    <3>3. id \in DOMAIN encSessions \cap DOMAIN keys
      BY <3>1, <3>2 DEF OwnersOutgoing
    <3>4. pc[t] = "encrypt" => HandleValid(t)
      BY <3>3 DEF OwnerInv, KeysMatch, Finds, Fetched, HandleValid
    <3> QED
      BY <1>0, <1>7, <3>1, <3>3, <3>4 DEF FetchKey, Encrypt, GoTo
  <2> QED
    BY <2>1, <2>2, <2>3, <2>4 DEF Flows, Passes, Decrypts
<1>8. CASE SearchIncoming(t)
  <2>1. /\ pc[t] = "searchIncoming" /\ pc'[t] \in {"raw", "decryptKey"}
        /\ pc'[t] = "raw" => OwnersIncoming(c) = {} \/ call'[t].empty = TRUE
    BY <1>0, <1>8 DEF SearchIncoming, GoTo, Call
  <2>2. OwnersIncoming(c) = {} => "ownedIn" \notin watch'[t]
    BY <1>0, <2>1 DEF Observed, Holding
  <2> QED
    BY <2>1, <2>2 DEF Flows, Passes, Decrypts
<1>9. CASE \/ \E k \in Arriving, e \in BOOLEAN : RecordIncoming(t, k, e)
           \/ FetchDecryptKey(t) \/ Decrypt(t) \/ Return(t)
  <2>1. pc'[t] \in {"searchIncoming", "decrypt", "rejected", "decrypted", "undecrypted", "idle"}
    BY <1>0, <1>9 DEF RecordIncoming, FetchDecryptKey, Decrypt, Return, GoTo
  <2> QED
    BY <2>1 DEF Flows, Passes, Decrypts
<1> QED
  BY <1>1, <1>2, <1>3, <1>4, <1>5, <1>6, <1>7, <1>8, <1>9 DEF PacketToSend, PacketReceived

\* FlowInv is inductive, given the types, the meaning of the histories and OwnerInv.
LEMMA FlowInductive ==
  Spec => []FlowInv
<1>1. Init => FlowInv
  BY DEF Init, FlowInv, Flows, Passes, Decrypts
<1>2. TypeOK /\ WatchHolds /\ OwnerInv /\ FlowInv /\ [Next]_vars => FlowInv'
  <2> SUFFICES ASSUME TypeOK, WatchHolds, OwnerInv, FlowInv, [Next]_vars
               PROVE  FlowInv'
    OBVIOUS
  <2>0. StateOK /\ CallsOK /\ SessionsOK
    BY TypeParts DEF StateOK
  <2>1. CASE Next
    <3>1. SessionsEvolve /\ Observe
      BY <2>0, <2>1, StepEvolves DEF Next
    <3>2. ASSUME NEW u \in Threads
          PROVE  (Flows(u) /\ Passes(u) /\ Decrypts(u))'
      <4>1. CASE ComThread
        <5>1. pc' = pc /\ call' = call
          BY <4>1 DEF ComThread, RemoveEncryptedSession, AddEncryptedSession, SetSecurityPolicy,
                      ResetOugoingConnections, ResetIncomingConnections, SetCountConnections
        <5> QED
          BY <2>0, <3>1, <5>1, FlowsKept DEF FlowInv
      <4>2. ASSUME NEW t \in Threads, PacketToSend(t) \/ PacketReceived(t) \/ Return(t)
            PROVE  (Flows(u) /\ Passes(u) /\ Decrypts(u))'
        <5>1. CASE u = t
          BY <2>0, <3>1, <4>2, <5>1, FlowsOwn DEF FlowInv
        <5>2. CASE u # t
          BY <2>0, <3>1, <4>2, <5>2, OthersUntouched, FlowsKept DEF FlowInv
        <5> QED
          BY <5>1, <5>2
      <4> QED
        BY <2>1, <4>1, <4>2 DEF Next
    <3> QED
      BY <3>2 DEF FlowInv
  <2>2. CASE UNCHANGED vars
    <3>1. pc' = pc /\ call' = call /\ watch' = watch /\ encSessions' = encSessions
      BY <2>2 DEF vars, sessionVars
    <3> QED
      BY <3>1 DEF FlowInv, Flows, Passes, Decrypts, OwnersOutgoing
  <2> QED
    BY <2>1, <2>2
<1> QED
  BY <1>1, <1>2, TypeCorrect, SendInductive, OwnerInductive, PTL DEF Spec

\* The packets of an established connection, whose sessions run on and have their keys, are
\* not dropped: by no policy, no other session and no other thread (cpp 57, 95, 115, 337-377).
THEOREM EstablishedIsNotCut == Spec => []EstablishedFlows
<1>1. FlowInv => EstablishedFlows
  BY DEF FlowInv, Flows, EstablishedFlows
<1> QED
  BY <1>1, FlowInductive, PTL

\* Under VERY_LOOSE a packet of no session is not dropped (TrafficHandler.h 12, cpp 57, 101).
THEOREM VeryLooseIsOpen == Spec => []VeryLooseBlocksNothing
<1>1. FlowInv => VeryLooseBlocksNothing
  BY DEF FlowInv, Passes, VeryLooseBlocksNothing
<1> QED
  BY <1>1, FlowInductive, PTL

\* A packet with a payload that comes in on a connection of a session is not handed to the
\* program as it is, without an attempt to decrypt it (cpp 131-162).
THEOREM IncomingIsDecrypted == Spec => []OwnedIncomingIsDecrypted
<1>1. FlowInv => OwnedIncomingIsDecrypted
  BY DEF FlowInv, Decrypts, OwnedIncomingIsDecrypted
<1> QED
  BY <1>1, FlowInductive, PTL

-----------------------------------------------------------------------------
(* What a session takes over *)

\* A connection that is similar to one of a container shares host and protocol with one there.
LEMMA SimilarSharesProtocol ==
  ASSUME NEW stored, NEW c, Search(stored, c) = SIMILAR_FOUND
  PROVE  SameProtocol(stored, c) # {}
  BY DEF Search, SharesPort, MATCH_FOUND, SIMILAR_FOUND, NOTHING_FOUND

\* The change of a running session that ExpansionStaysWithPeer allows.
Grows(old, new) ==
  new # old =>
    /\ old.expand
    /\ new = [old EXCEPT !.out = new.out]
    /\ \A c \in new.out \ old.out : SameProtocol(old.in \cup old.out, c) # {}

\* Taking over a connection similar to one of the session's is such a change.
LEMMA TakeOverGrows ==
  ASSUME SessionsOK, NEW ids, NEW c, encSessions' = AddOutgoing(ids, c),
         \A i \in ids : /\ encSessions[i].expand
                        /\ \/ Search(encSessions[i].in, c) = SIMILAR_FOUND
                           \/ Search(encSessions[i].out, c) = SIMILAR_FOUND
  PROVE  \A i \in DOMAIN encSessions : Grows(encSessions[i], encSessions'[i])
<1> SUFFICES ASSUME NEW i \in DOMAIN encSessions, i \in ids
             PROVE  Grows(encSessions[i], encSessions'[i])
  BY DEF AddOutgoing, Grows
<1> DEFINE old == encSessions[i]
           new == encSessions'[i]
<1>1. old \in Session /\ new = [old EXCEPT !.out = @ \cup {c}]
  BY DEF AddOutgoing, SessionsOK
<1>2. new.out = old.out \cup {c} /\ new = [old EXCEPT !.out = new.out]
  BY <1>1 DEF Session
<1>3. SameProtocol(old.in \cup old.out, c) # {}
  <2>1. SameProtocol(old.in, c) \cup SameProtocol(old.out, c) = SameProtocol(old.in \cup old.out, c)
    BY DEF SameProtocol, SameIp
  <2> QED
    BY <2>1, SimilarSharesProtocol
<1> QED
  BY <1>2, <1>3 DEF Grows

\* A running session changes in one way only: expandable, it takes over connections to a host
\* and protocol that it already has (cpp 65-79, 132-145); its key, its incoming connections
\* and its kind stay, whatever is added, removed or received meanwhile.
THEOREM ExpansionStays == Spec => ExpansionStaysWithPeer
<1> DEFINE Growing == \A i \in DOMAIN encSessions \cap DOMAIN encSessions' :
                      Grows(encSessions[i], encSessions'[i])
<1>1. TypeOK /\ [Next]_vars => [Growing]_vars
  <2> SUFFICES ASSUME TypeOK, Next
               PROVE  Growing
    OBVIOUS
  <2>0. SessionsOK /\ CallsOK
    BY TypeParts
  <2>1. ASSUME NEW t \in Threads, Expand(t)
        PROVE  Growing
    <3>1. \A i \in Expandable(call[t].conn) :
            encSessions[i].expand /\ Search(encSessions[i].out, call[t].conn) = SIMILAR_FOUND
      BY DEF Expandable
    <3> QED
      BY <2>0, <2>1, <3>1, TakeOverGrows DEF Expand
  <2>2. ASSUME NEW t \in Threads, SearchIncoming(t)
        PROVE  Growing
    <3> DEFINE c == call[t].conn
               first == First(OwnersIncoming(c))
    <3>1. CASE encSessions' = encSessions
      BY <3>1 DEF Grows
    <3>2. CASE encSessions' # encSessions
      <4>1. /\ encSessions' = AddOutgoing({first}, c) /\ OwnersIncoming(c) # {}
            /\ Search(encSessions[first].in, c) = SIMILAR_FOUND
        BY <2>2, <3>2 DEF SearchIncoming
      <4>2. first \in OwnersIncoming(c)
        BY <2>0, <4>1, OwnersType
      <4>3. encSessions[first].expand
        BY <4>1, <4>2 DEF OwnersIncoming, MATCH_FOUND, SIMILAR_FOUND
      <4> QED
        BY <2>0, <4>1, <4>3, TakeOverGrows
    <3> QED
      BY <3>1, <3>2
  <2>3. ASSUME NEW id \in SessionId, NEW s \in Offered, AddEncryptedSession(id, s)
        PROVE  Growing
    BY <2>0, <2>3 DEF AddEncryptedSession, Put, SessionsOK, Grows
  <2>4. ASSUME NEW id \in SessionId, RemoveEncryptedSession(id)
        PROVE  Growing
    BY <2>4 DEF RemoveEncryptedSession, Erase, Grows
  <2>5. CASE encSessions' = encSessions
    BY <2>5 DEF Grows
  <2>6. ASSUME ComThread, encSessions' # encSessions
        PROVE  Growing
    BY <2>3, <2>4, <2>6 DEF ComThread, SetSecurityPolicy, ResetOugoingConnections,
       ResetIncomingConnections, SetCountConnections, sessionVars
  <2>7. ASSUME NEW t \in Threads, PacketToSend(t) \/ PacketReceived(t) \/ Return(t), encSessions' # encSessions
        PROVE  Growing
    BY <2>1, <2>2, <2>7, SessionsLeftAlone
  <2> QED
    BY <2>5, <2>6, <2>7 DEF Next
<1> QED
  BY <1>1, TypeCorrect, PTL DEF Spec, ExpansionStaysWithPeer, Grows
=============================================================================
