-------------------------- MODULE HookingEngine_proofs --------------------------
(***************************************************************************)
(* Theorems of module HookingEngine, for any threads, connections, keys    *)
(* and number of sessions: what runs in the traffic handler is what the    *)
(* container holds, and the engine uses the traffic handler as it has to   *)
(* be used.                                                                *)
(***************************************************************************)
EXTENDS HookingEngine, TrafficHandler_proofs, FiniteSetTheorems

\* A session of the container; its key is missing until it is started.
SessionObject ==
  [in : SUBSET Connection, out : SUBSET Connection, expand : BOOLEAN, key : Key \cup {NoKey}]

ContainerOK ==
  /\ sessions \in [DOMAIN sessions -> SessionObject]
  /\ index \in SessionId \cup {0}
  /\ DOMAIN sessions \cup started \subseteq 1..index

\* What a COM call that is under way knows of its session: no other call has touched it.
ComInv ==
  /\ com.step \in {"stopClock", "add"} =>
       /\ com.id \in SessionId \cap DOMAIN sessions
       /\ com.id \notin started
       /\ sessions[com.id].key \in Key
       /\ com.id \in DOMAIN startedWith /\ startedWith[com.id] = sessions[com.id]
  /\ com.step \in {"countDown", "resumeClock"} => com.id \notin DOMAIN encSessions

EngineInv ==
  /\ StateOK /\ ContainerOK /\ ComInv
  /\ RunningIsKnown /\ IncomingIsExclusive

\* What a thread of the target does leaves ids, keys and incoming connections of the running
\* sessions alone, and takes no outgoing one away.
LEMMA PacketsKeepSessions ==
  ASSUME SessionsOK, NEW t \in Threads, PacketToSend(t) \/ PacketReceived(t) \/ Return(t)
  PROVE  /\ started' = started
         /\ DOMAIN encSessions' = DOMAIN encSessions
         /\ \A id \in DOMAIN encSessions :
              /\ encSessions'[id].key = encSessions[id].key
              /\ encSessions'[id].in = encSessions[id].in
              /\ encSessions[id].out \subseteq encSessions'[id].out
<1> DEFINE Same == started' = started /\ encSessions' = encSessions
<1>1. ASSUME NEW ids, NEW c, encSessions' = AddOutgoing(ids, c), started' = started
      PROVE  /\ DOMAIN encSessions' = DOMAIN encSessions
             /\ \A id \in DOMAIN encSessions :
                  /\ encSessions'[id].key = encSessions[id].key
                  /\ encSessions'[id].in = encSessions[id].in
                  /\ encSessions[id].out \subseteq encSessions'[id].out
  BY <1>1 DEF AddOutgoing, SessionsOK, Session
<1>2. CASE Expand(t)
  BY <1>1, <1>2 DEF Expand
<1>3. CASE SearchIncoming(t)
  BY <1>1, <1>3 DEF SearchIncoming, sessionVars
<1>4. CASE ~Expand(t) /\ ~SearchIncoming(t)
  <2>1. Same
    BY <1>4 DEF PacketToSend, PacketReceived, Return, SendLocal, SnapshotPolicy, CheckNew, RecordNew,
                LookupOwned, LookupUnowned, FetchKey, Encrypt, RecordIncoming, FetchDecryptKey, Decrypt, sessionVars
  <2> QED BY <2>1
<1> QED BY <1>2, <1>3, <1>4

\* A step that leaves ids, keys and incoming connections of the running sessions alone, and
\* the engine's variables as well, keeps the invariant.
LEMMA EngineUntouched ==
  ASSUME EngineInv, StateOK', UNCHANGED <<sessions, index, com>>, started' = started,
         startedWith' = startedWith, DOMAIN encSessions' \subseteq DOMAIN encSessions,
         \A id \in DOMAIN encSessions' :
           /\ encSessions'[id].key = encSessions[id].key
           /\ encSessions'[id].in = encSessions[id].in
           /\ encSessions[id].out \subseteq encSessions'[id].out
  PROVE  EngineInv'
<1>1. ContainerOK' /\ ComInv'
  BY DEF EngineInv, ContainerOK, ComInv
<1>2. RunningIsKnown' /\ IncomingIsExclusive'
  BY DEF EngineInv, RunningIsKnown, IncomingIsExclusive
<1> QED BY <1>1, <1>2 DEF EngineInv

\* The calls that build sessions keep it: an id is new, an incoming connection unowned, and
\* the key of a session that runs is not set again.
LEMMA BuildingKeepsInv ==
  ASSUME EngineInv,
         \/ \E e \in ExpandFlags : CreateSession(e)
         \/ \E id \in SessionId, c \in Connection :
              AddConnectionOutgoing(id, c) \/ AddConnectionIncoming(id, c)
         \/ \E id \in SessionId, k \in Key : StartSession(id, k)
  PROVE  EngineInv'
<1> USE DEF vars, sessionVars, listVars, countVars, ComIdle
<1>1. StateOK' /\ started' = started /\ encSessions' = encSessions
  BY DEF EngineInv, StateOK, PolicyOK, SessionsOK, ListsOK, CountsOK, CallsOK, CreateSession,
         AddConnectionOutgoing, AddConnectionIncoming, StartSession
<1>2. DOMAIN encSessions \subseteq started
  BY DEF EngineInv, StateOK, SessionsOK
<1>3. ASSUME NEW e \in ExpandFlags, CreateSession(e)
      PROVE  EngineInv'
  <2>1. /\ index \in Nat /\ index' \in SessionId /\ index' = index + 1 /\ com' = com /\ com.step = "idle"
        /\ startedWith' = startedWith
    BY <1>3, ConstantsAssumption DEF CreateSession, EngineInv, ContainerOK
  <2>2. index' \notin DOMAIN sessions /\ index' \notin DOMAIN encSessions
    BY <1>2, <2>1 DEF EngineInv, ContainerOK
  <2> DEFINE new == [in |-> {}, out |-> {}, expand |-> e, key |-> NoKey]
  <2>3. new \in SessionObject
    BY EngineAssumption DEF SessionObject
  <2>4. sessions' = Put(sessions, index', new)
    BY <1>3 DEF CreateSession
  <2>5. /\ DOMAIN sessions' = DOMAIN sessions \cup {index'}
        /\ sessions'[index'].in = {}
        /\ \A i \in DOMAIN sessions : sessions'[i] = sessions[i]
        /\ sessions' \in [DOMAIN sessions' -> SessionObject]
    BY <2>2, <2>3, <2>4 DEF Put, EngineInv, ContainerOK
  <2>6. ContainerOK' /\ ComInv'
    BY <1>1, <2>1, <2>5 DEF EngineInv, ContainerOK, ComInv
  <2>7. RunningIsKnown' /\ IncomingIsExclusive'
    BY <1>1, <2>1, <2>2, <2>5 DEF EngineInv, RunningIsKnown, IncomingIsExclusive
  <2> QED BY <1>1, <2>6, <2>7 DEF EngineInv
<1>4. ASSUME NEW id \in SessionId, NEW c \in Connection, AddConnectionOutgoing(id, c)
      PROVE  EngineInv'
  <2>1. /\ DOMAIN sessions' = DOMAIN sessions /\ index' = index /\ com' = com /\ com.step = "idle"
        /\ startedWith' = startedWith
        /\ \A i \in DOMAIN sessions : sessions'[i].in = sessions[i].in /\ sessions'[i].key = sessions[i].key
        /\ sessions' \in [DOMAIN sessions' -> SessionObject]
    BY <1>4 DEF AddConnectionOutgoing, EngineInv, ContainerOK, SessionObject
  <2>2. ContainerOK' /\ ComInv'
    BY <1>1, <2>1 DEF EngineInv, ContainerOK, ComInv
  <2>3. RunningIsKnown' /\ IncomingIsExclusive'
    BY <1>1, <2>1 DEF EngineInv, RunningIsKnown, IncomingIsExclusive
  <2> QED BY <1>1, <2>2, <2>3 DEF EngineInv
<1>5. ASSUME NEW id \in SessionId, NEW c \in Connection, AddConnectionIncoming(id, c)
      PROVE  EngineInv'
  <2>1. /\ DOMAIN sessions' = DOMAIN sessions /\ index' = index /\ com' = com /\ com.step = "idle"
        /\ startedWith' = startedWith
        /\ \A i \in DOMAIN sessions : sessions'[i].key = sessions[i].key
        /\ \A i \in DOMAIN sessions \ {id} : sessions'[i].in = sessions[i].in
        /\ id \in DOMAIN sessions /\ sessions'[id].in = sessions[id].in \cup {c}
        /\ sessions' \in [DOMAIN sessions' -> SessionObject]
    BY <1>5 DEF AddConnectionIncoming, EngineInv, ContainerOK, SessionObject
  <2>2. \A i \in DOMAIN sessions : c \notin sessions[i].in
    BY <1>5 DEF AddConnectionIncoming, OwnedIncoming
  <2>3. ContainerOK' /\ ComInv'
    BY <1>1, <2>1 DEF EngineInv, ContainerOK, ComInv
  <2>4. RunningIsKnown'
    BY <1>1, <2>1 DEF EngineInv, RunningIsKnown
  <2>5. IncomingIsExclusive'
    BY <2>1, <2>2 DEF EngineInv, IncomingIsExclusive
  <2> QED BY <1>1, <2>3, <2>4, <2>5 DEF EngineInv
<1>6. ASSUME NEW id \in SessionId, NEW k \in Key, StartSession(id, k)
      PROVE  EngineInv'
  <2>1. /\ DOMAIN sessions' = DOMAIN sessions /\ index' = index
        /\ com' = [step |-> "stopClock", id |-> id]
        /\ DOMAIN startedWith' = DOMAIN startedWith \cup {id} /\ startedWith'[id] = sessions'[id]
        /\ \A i \in DOMAIN startedWith \ {id} : startedWith'[i] = startedWith[i]
        /\ \A i \in DOMAIN sessions : sessions'[i].in = sessions[i].in
        /\ \A i \in DOMAIN sessions \ {id} : sessions'[i].key = sessions[i].key
        /\ id \in DOMAIN sessions \ started /\ sessions'[id].key \in Key
        /\ sessions' \in [DOMAIN sessions' -> SessionObject]
    BY <1>6 DEF StartSession, StartedOnce, SetKey, Put, EngineInv, ContainerOK, SessionObject
  <2>2. ContainerOK' /\ ComInv'
    BY <1>1, <2>1 DEF EngineInv, ContainerOK, ComInv
  <2>3. RunningIsKnown' /\ IncomingIsExclusive'
    BY <1>1, <1>2, <2>1 DEF EngineInv, RunningIsKnown, IncomingIsExclusive
  <2> QED BY <1>1, <2>2, <2>3 DEF EngineInv
<1> QED BY <1>3, <1>4, <1>5, <1>6

\* addEncryptedSession is called with a session of the container that has a key.
LEMMA AddSessionKeepsInv ==
  ASSUME EngineInv, AddSession
  PROVE  EngineInv' /\ sessions[com.id] \in Session
<1> DEFINE id == com.id
<1>1. /\ id \in SessionId \cap DOMAIN sessions /\ id \notin started /\ sessions[id].key \in Key
      /\ AddEncryptedSession(id, sessions[id])
      /\ com' = ComIdle /\ UNCHANGED <<sessions, index, startedWith>>
      /\ id \in DOMAIN startedWith /\ startedWith[id] = sessions[id]
  BY DEF AddSession, EngineInv, ComInv
<1>2. sessions[id] \in Session
  BY <1>1 DEF EngineInv, ContainerOK, SessionObject, Session
<1>3. /\ DOMAIN encSessions' = DOMAIN encSessions \cup {id}
      /\ encSessions'[id] = sessions[id]
      /\ \A i \in DOMAIN encSessions \ {id} : encSessions'[i] = encSessions[i]
      /\ started' = started \cup {id}
      /\ encSessions' \in [DOMAIN encSessions' -> Session]
  BY <1>1, <1>2 DEF AddEncryptedSession, Put, EngineInv, StateOK, SessionsOK
<1>4. keys' \in [DOMAIN keys' -> Key \ WeakKey] /\ DOMAIN keys' \subseteq started'
  BY <1>1 DEF AddEncryptedSession, SetUpEncryptedSession, Put, EngineInv, StateOK, SessionsOK
<1>5. StateOK'
  BY <1>1, <1>3, <1>4 DEF AddEncryptedSession, EngineInv, StateOK, SessionsOK, PolicyOK, ListsOK, CountsOK,
                          CallsOK, listVars, countVars
<1>6. ContainerOK' /\ ComInv'
  BY <1>1, <1>3 DEF EngineInv, ContainerOK, ComInv, ComIdle
<1>7. RunningIsKnown' /\ IncomingIsExclusive'
  BY <1>1, <1>3 DEF EngineInv, RunningIsKnown, IncomingIsExclusive
<1> QED BY <1>2, <1>5, <1>6, <1>7 DEF EngineInv

\* Removing a session from the traffic handler.
LEMMA DestroyKeepsInv ==
  ASSUME EngineInv, NEW id \in SessionId, DestroySession(id)
  PROVE  EngineInv'
<1>1. /\ RemoveEncryptedSession(id) /\ com' = [step |-> "countDown", id |-> id]
      /\ UNCHANGED <<sessions, index, startedWith>>
  BY DEF DestroySession
<1>2. StateOK'
  BY <1>1, ComType DEF ComThread, EngineInv
<1>3. /\ started' = started /\ DOMAIN encSessions' = DOMAIN encSessions \ {id}
      /\ \A i \in DOMAIN encSessions' : encSessions'[i] = encSessions[i]
  BY <1>1 DEF RemoveEncryptedSession, Erase
<1>4. ContainerOK' /\ ComInv'
  BY <1>1, <1>3 DEF EngineInv, ContainerOK, ComInv
<1>5. RunningIsKnown' /\ IncomingIsExclusive'
  BY <1>1, <1>3 DEF EngineInv, RunningIsKnown, IncomingIsExclusive
<1> QED BY <1>2, <1>4, <1>5 DEF EngineInv

\* The container forgets a session only after the traffic handler did.
LEMMA DeleteKeepsInv ==
  ASSUME EngineInv, com.id \notin DOMAIN encSessions, DeleteSession, UNCHANGED <<vars, index, startedWith>>
  PROVE  EngineInv'
<1> USE DEF vars, sessionVars, listVars, countVars
<1>1. StateOK'
  BY DEF EngineInv, StateOK, PolicyOK, SessionsOK, ListsOK, CountsOK, CallsOK
<1>2. /\ DOMAIN sessions' = DOMAIN sessions \ {com.id}
      /\ \A i \in DOMAIN sessions' : sessions'[i] = sessions[i]
      /\ sessions' \in [DOMAIN sessions' -> SessionObject]
      /\ com' = ComIdle
  BY DEF DeleteSession, Erase, EngineInv, ContainerOK
<1>3. ContainerOK' /\ ComInv'
  BY <1>2 DEF EngineInv, ContainerOK, ComInv, ComIdle
<1>4. RunningIsKnown' /\ IncomingIsExclusive'
  BY <1>2 DEF EngineInv, RunningIsKnown, IncomingIsExclusive
<1> QED BY <1>1, <1>3, <1>4 DEF EngineInv

\* A step of the calling sequence alone, or of the clock.
LEMMA OnlyComMoves ==
  ASSUME EngineInv, UNCHANGED <<vars, sessions, index, startedWith>>,
         \/ com' = com
         \/ com'.id = com.id /\ com.step = "stopClock" /\ com'.step = "add"
         \/ com'.id = com.id /\ com.step = "countDown" /\ com'.step = "resumeClock"
  PROVE  EngineInv'
<1> USE DEF vars, sessionVars, listVars, countVars
<1>1. StateOK'
  BY DEF EngineInv, StateOK, PolicyOK, SessionsOK, ListsOK, CountsOK, CallsOK
<1>2. ContainerOK' /\ ComInv'
  BY DEF EngineInv, ContainerOK, ComInv
<1>3. RunningIsKnown' /\ IncomingIsExclusive'
  BY DEF EngineInv, RunningIsKnown, IncomingIsExclusive
<1> QED BY <1>1, <1>2, <1>3 DEF EngineInv

\* The invariant holds under every interleaving of COM calls, helpers and packets.
LEMMA EngineInvHolds == EngineSpec => []EngineInv
<1>1. EngineInit => EngineInv
  <2> SUFFICES ASSUME EngineInit
               PROVE  EngineInv
    OBVIOUS
  <2>1. StateOK
    <3>1. SessionsOK /\ ListsOK /\ PolicyOK /\ CallsOK
      BY DEF EngineInit, Init, EmptyMap, SessionsOK, ListsOK, PolicyOK, CallsOK, Pcs
    <3>2. countConnections \in BOOLEAN
      BY Zenon DEF EngineInit, Init
    <3>3. connectionCounts \in [Ip -> 0..MaxCount]
      BY ConstantsAssumption DEF EngineInit, Init
    <3> QED BY <3>1, <3>2, <3>3 DEF StateOK, CountsOK
  <2>2. DOMAIN sessions = {} /\ DOMAIN encSessions = {}
    BY DEF EngineInit, Init, EmptyMap
  <2>3. ContainerOK /\ ComInv
    BY <2>2 DEF EngineInit, Init, EmptyMap, ComIdle, ContainerOK, ComInv
  <2> QED BY <2>1, <2>2, <2>3 DEF EngineInv, RunningIsKnown, IncomingIsExclusive
<1>2. EngineInv /\ [EngineNext]_allVars => EngineInv'
  <2> SUFFICES ASSUME EngineInv, [EngineNext]_allVars
               PROVE  EngineInv'
    OBVIOUS
  <2> USE DEF engineVars
  <2>1. CASE ComCall
    <3>1. ASSUME NEW id \in SessionId, DestroySession(id)
          PROVE  EngineInv'
      BY <3>1, DestroyKeepsInv
    <3>2. CASE ResetConnections
      <4>1. StateOK'
        BY <3>2, ComType DEF ResetConnections, ComThread, EngineInv
      <4>2. UNCHANGED <<encSessions, started, startedWith, sessions, index>> /\ com'.step = "reset"
        BY <3>2 DEF ResetConnections, ResetIncomingConnections, sessionVars, ComIdle
      <4> QED BY <4>1, <4>2 DEF EngineInv, ContainerOK, ComInv, RunningIsKnown, IncomingIsExclusive
    <3>3. CASE OtherCall
      <4>1. StateOK'
        BY <3>3, ComType DEF OtherCall, ComThread, EngineInv
      <4>2. UNCHANGED <<encSessions, started, startedWith, sessions, index, com>>
        BY <3>3 DEF OtherCall, SetSecurityPolicy, SetCountConnections, sessionVars
      <4> QED BY <4>1, <4>2, EngineUntouched
    <3> QED BY <2>1, <3>1, <3>2, <3>3, BuildingKeepsInv DEF ComCall
  <2>2. CASE ComContinues
    <3>1. CASE StopClock
      <4>1. com'.id = com.id /\ com.step = "stopClock" /\ com'.step = "add"
        BY <3>1 DEF StopClock, EngineInv, ComInv
      <4>2. UNCHANGED <<vars, sessions, index, startedWith>>
        BY <3>1 DEF StopClock
      <4> QED BY <4>1, <4>2, OnlyComMoves
    <3>2. CASE AddSession
      BY <3>2, AddSessionKeepsInv
    <3>3. CASE CountDown
      <4>1. com.step = "countDown" /\ com.id \notin DOMAIN encSessions /\ UNCHANGED <<vars, index, startedWith>>
        BY <3>3 DEF CountDown, EngineInv, ComInv
      <4>2. CASE DeleteSession
        BY <4>1, <4>2, DeleteKeepsInv
      <4>3. CASE com' = [com EXCEPT !.step = "resumeClock"] /\ UNCHANGED sessions
        BY <4>1, <4>3, OnlyComMoves
      <4> QED BY <3>3, <4>2, <4>3 DEF CountDown
    <3>4. CASE ResumeClock
      BY <3>4, DeleteKeepsInv DEF ResumeClock, EngineInv, ComInv
    <3>5. CASE ResetTheOther
      <4>1. StateOK'
        BY <3>5, ComType DEF ResetTheOther, ComThread, EngineInv
      <4>2. UNCHANGED <<encSessions, started, startedWith, sessions, index>> /\ com'.step = "idle"
        BY <3>5 DEF ResetTheOther, ResetOugoingConnections, sessionVars, ComIdle
      <4> QED BY <4>1, <4>2 DEF EngineInv, ContainerOK, ComInv, RunningIsKnown, IncomingIsExclusive
    <3> QED BY <2>2, <3>1, <3>2, <3>3, <3>4, <3>5 DEF ComContinues
  <2>3. CASE TargetThread
    <3>1. PICK t \in Threads : PacketToSend(t) \/ PacketReceived(t) \/ Return(t)
      BY <2>3 DEF TargetThread
    <3>2. StateOK'
      BY <3>1, SendType, ReceiveType DEF EngineInv
    <3>3. /\ started' = started /\ DOMAIN encSessions' = DOMAIN encSessions
          /\ \A id \in DOMAIN encSessions :
               /\ encSessions'[id].key = encSessions[id].key
               /\ encSessions'[id].in = encSessions[id].in
               /\ encSessions[id].out \subseteq encSessions'[id].out
              /\ encSessions[id].out \subseteq encSessions'[id].out
      BY <3>1, PacketsKeepSessions DEF EngineInv, StateOK
    <3>4. UNCHANGED <<sessions, index, com, startedWith>>
      BY <2>3 DEF TargetThread
    <3> QED BY <3>2, <3>3, <3>4, EngineUntouched
  <2>4. ASSUME NEW id \in SessionId, HelperThread(id)
        PROVE  EngineInv'
    <3>1. UNCHANGED <<vars, sessions, index, startedWith>> /\ com' = com
      BY <2>4 DEF HelperThread, HelperCheck, HelperStopClock
    <3> QED BY <3>1, OnlyComMoves
  <2>5. CASE UNCHANGED allVars
    <3>1. UNCHANGED <<vars, sessions, index, startedWith>> /\ com' = com
      BY <2>5 DEF allVars
    <3> QED BY <3>1, OnlyComMoves
  <2> QED BY <2>1, <2>2, <2>3, <2>4, <2>5 DEF EngineNext
<1> QED BY <1>1, <1>2, PTL DEF EngineSpec

\* A session runs only while the container has it, with the container's key, just the incoming
\* connections it was started with and all the outgoing ones: destroySession takes it out of
\* the traffic handler before deleteSession, addEncryptedSession is called for a session no
\* call has touched since startSession looked it up (HookingEngine.cpp 1239-1251, 1278-1285),
\* and packets only add outgoing connections.
THEOREM RunningSessionsAreKnown == EngineSpec => []RunningIsKnown
<1>1. EngineInv => RunningIsKnown
  BY DEF EngineInv
<1> QED BY <1>1, EngineInvHolds, PTL

\* No incoming connection is ever given to two sessions, however connections are added,
\* sessions started and ended (cpp 1161-1178, Session.h 268-282).
THEOREM IncomingStaysExclusive == EngineSpec => []IncomingIsExclusive
<1>1. EngineInv => IncomingIsExclusive
  BY DEF EngineInv
<1> QED BY <1>1, EngineInvHolds, PTL

-----------------------------------------------------------------------------
(* The engine and its traffic handler *)

\* Handler is the traffic handler with any session offered: what Offered does not occur in is
\* the same there, beginning with what is asked about connections.
LEMMA SameQuestions ==
  /\ \A c : /\ Handler!OwnersOutgoing(c) = OwnersOutgoing(c)
            /\ Handler!OwnersIncoming(c) = OwnersIncoming(c)
            /\ Handler!Expandable(c) = Expandable(c)
  /\ \A stored, c : Handler!Search(stored, c) = Search(stored, c)
  /\ \A ids : Handler!First(ids) = First(ids)
  /\ \A ids, c : Handler!AddOutgoing(ids, c) = AddOutgoing(ids, c)
<1>1. ASSUME NEW stored, NEW c
      PROVE  Handler!Search(stored, c) = Search(stored, c)
  BY DEF Search, SharesPort, SameProtocol, SameIp, MATCH_FOUND, SIMILAR_FOUND, NOTHING_FOUND,
        Handler!Search, Handler!SharesPort, Handler!SameProtocol, Handler!SameIp,
        Handler!MATCH_FOUND, Handler!SIMILAR_FOUND, Handler!NOTHING_FOUND
<1>2. ASSUME NEW c
      PROVE  /\ Handler!OwnersOutgoing(c) = OwnersOutgoing(c)
             /\ Handler!OwnersIncoming(c) = OwnersIncoming(c)
             /\ Handler!Expandable(c) = Expandable(c)
  BY <1>1
    DEF OwnersOutgoing, OwnersIncoming, Expandable, MATCH_FOUND, SIMILAR_FOUND,
        Handler!OwnersOutgoing, Handler!OwnersIncoming, Handler!Expandable,
        Handler!MATCH_FOUND, Handler!SIMILAR_FOUND
<1>3. ASSUME NEW ids
      PROVE  Handler!First(ids) = First(ids)
  BY DEF First, Handler!First
<1>4. ASSUME NEW ids, NEW c
      PROVE  Handler!AddOutgoing(ids, c) = AddOutgoing(ids, c)
  BY DEF AddOutgoing, Handler!AddOutgoing
<1> QED BY <1>1, <1>2, <1>3, <1>4

\* The steps of a thread of the target.
LEMMA SameThreads ==
  ASSUME NEW t \in Threads, PacketToSend(t) \/ PacketReceived(t) \/ Return(t)
  PROVE  Handler!PacketToSend(t) \/ Handler!PacketReceived(t) \/ Handler!Return(t)
<1> USE DEF GoTo, Handler!GoTo, NewCall, Handler!NewCall, sessionVars, Handler!sessionVars,
            listVars, Handler!listVars, countVars, Handler!countVars
<1>1. ASSUME NEW c \in Connection, SendLocal(t, c)
      PROVE  Handler!SendLocal(t, c)
  BY <1>1
    DEF SendLocal, Handler!SendLocal
<1>2. ASSUME NEW c \in Connection, SnapshotPolicy(t, c)
      PROVE  Handler!SnapshotPolicy(t, c)
  BY <1>2
    DEF SnapshotPolicy, UpdateConnectionCounts, Running, Handler!SnapshotPolicy,
        Handler!UpdateConnectionCounts, Handler!Running
<1>3. ASSUME CheckNew(t)
      PROVE  Handler!CheckNew(t)
  BY <1>3
    DEF CheckNew, IsBlocked, LOOSE, Handler!CheckNew, Handler!IsBlocked, Handler!LOOSE
<1>4. ASSUME Expand(t)
      PROVE  Handler!Expand(t)
  BY <1>4, SameQuestions
    DEF Expand, Handler!Expand
<1>5. ASSUME RecordNew(t)
      PROVE  Handler!RecordNew(t)
  BY <1>5
    DEF RecordNew, Handler!RecordNew
<1>6. ASSUME LookupOwned(t)
      PROVE  Handler!LookupOwned(t)
  BY <1>6, SameQuestions
    DEF LookupOwned, Handler!LookupOwned
<1>7. ASSUME LookupUnowned(t)
      PROVE  Handler!LookupUnowned(t)
  BY <1>7, SameQuestions
    DEF LookupUnowned, DropsPlain, TIGHT, Handler!LookupUnowned, Handler!DropsPlain,
        Handler!TIGHT
<1>8. ASSUME FetchKey(t)
      PROVE  Handler!FetchKey(t)
  BY <1>8
    DEF FetchKey, Handler!FetchKey
<1>9. ASSUME Encrypt(t)
      PROVE  Handler!Encrypt(t)
  BY <1>9
    DEF Encrypt, HandleValid, Handler!Encrypt, Handler!HandleValid
<1>10. ASSUME NEW c \in Arriving, NEW e \in BOOLEAN, RecordIncoming(t, c, e)
      PROVE  Handler!RecordIncoming(t, c, e)
  BY <1>10
    DEF RecordIncoming, Handler!RecordIncoming
<1>11. ASSUME SearchIncoming(t)
      PROVE  Handler!SearchIncoming(t)
  BY <1>11, SameQuestions
    DEF SearchIncoming, UpdateConnectionCounts, SIMILAR_FOUND, Handler!SearchIncoming,
        Handler!UpdateConnectionCounts, Handler!SIMILAR_FOUND
<1>12. ASSUME FetchDecryptKey(t)
      PROVE  Handler!FetchDecryptKey(t)
  BY <1>12
    DEF FetchDecryptKey, Handler!FetchDecryptKey
<1>13. ASSUME Decrypt(t)
      PROVE  Handler!Decrypt(t)
  BY <1>13
    DEF Decrypt, Handler!Decrypt
<1>14. ASSUME Return(t)
      PROVE  Handler!Return(t)
  BY <1>14
    DEF Return, SendOutcome, ReceiveOutcome, NoCall, Handler!Return, Handler!SendOutcome,
        Handler!ReceiveOutcome, Handler!NoCall
<1>15. CASE PacketToSend(t)
  BY <1>15, <1>1, <1>2, <1>3, <1>4, <1>5, <1>6, <1>7, <1>8, <1>9
     DEF PacketToSend, Handler!PacketToSend
<1>16. CASE PacketReceived(t)
  BY <1>16, <1>10, <1>11, <1>12, <1>13 DEF PacketReceived, Handler!PacketReceived
<1> QED BY <1>14, <1>15, <1>16

\* The calls of the COM thread; the handler's own Offered does not matter to any of them.
LEMMA SameCalls ==
  /\ \A id, s : AddEncryptedSession(id, s) => Handler!AddEncryptedSession(id, s)
  /\ \A id : RemoveEncryptedSession(id) => Handler!RemoveEncryptedSession(id)
  /\ \A p : SetSecurityPolicy(p) => Handler!SetSecurityPolicy(p)
  /\ \A enable : SetCountConnections(enable) => Handler!SetCountConnections(enable)
  /\ ResetOugoingConnections => Handler!ResetOugoingConnections
  /\ ResetIncomingConnections => Handler!ResetIncomingConnections
<1> USE DEF sessionVars, Handler!sessionVars, listVars, Handler!listVars, countVars,
            Handler!countVars, Put, Handler!Put, Erase, Handler!Erase
<1>1. ASSUME NEW id, NEW s, AddEncryptedSession(id, s)
      PROVE  Handler!AddEncryptedSession(id, s)
  BY <1>1
    DEF AddEncryptedSession, SetUpEncryptedSession, Handler!AddEncryptedSession,
        Handler!SetUpEncryptedSession
<1>2. ASSUME NEW id, RemoveEncryptedSession(id)
      PROVE  Handler!RemoveEncryptedSession(id)
  BY <1>2
    DEF RemoveEncryptedSession, TearDownEncryptedSession, Handler!RemoveEncryptedSession,
        Handler!TearDownEncryptedSession
<1>3. ASSUME NEW p, SetSecurityPolicy(p)
      PROVE  Handler!SetSecurityPolicy(p)
  BY <1>3 DEF SetSecurityPolicy, Handler!SetSecurityPolicy
<1>4. ASSUME NEW enable, SetCountConnections(enable)
      PROVE  Handler!SetCountConnections(enable)
  BY <1>4
    DEF SetCountConnections, Ip, Handler!SetCountConnections, Handler!Ip
<1>5. ResetOugoingConnections => Handler!ResetOugoingConnections
  BY DEF ResetOugoingConnections, Handler!ResetOugoingConnections
<1>6. ResetIncomingConnections => Handler!ResetIncomingConnections
  BY DEF ResetIncomingConnections, Handler!ResetIncomingConnections
<1> QED BY <1>1, <1>2, <1>3, <1>4, <1>5, <1>6

\* And the history.
LEMMA SameHistory ==
  Observe => Handler!Observe
<1>1. ASSUME NEW t
      PROVE  Handler!Observed(t) = Observed(t) /\ (Handler!Observed(t))' = (Observed(t))'
  <2> USE DEF Observed, Handler!Observed, Holding, Handler!Holding, Watched, Handler!Watched,
              Running, Handler!Running, TIGHT, Handler!TIGHT, LOOSE, Handler!LOOSE,
              VERY_LOOSE, Handler!VERY_LOOSE
  <2>1. Handler!Observed(t) = Observed(t)
    BY SameQuestions
  <2>2. (Handler!Observed(t) = Observed(t))'
    BY <2>1, SameQuestions
  <2> QED BY <2>1, <2>2
<1>2. ASSUME NEW t, NEW w
      PROVE  Handler!Kept(w, t) <=> Kept(w, t)
  BY SameQuestions DEF Kept, Handler!Kept
<1> QED BY <1>1, <1>2 DEF Observe, Handler!Observe

\* The engine implements the traffic handler: it adds whole sessions that have a key, each id
\* once, between any packets of any threads; so every behaviour of the engine is one of the
\* handler, and what TrafficHandler_proofs shows of the handler holds under the engine
\* (HookingEngine.cpp 1181-1285 calling TrafficHandler.cpp 27-247).
THEOREM EngineUsesHandler == EngineSpec => UsesTrafficHandler
<1>1. EngineInit => Handler!Init
  BY DEF EngineInit, Init, EmptyMap, Ip, NoCall, TIGHT, Handler!Init, Handler!EmptyMap, Handler!Ip,
        Handler!NoCall, Handler!TIGHT
<1>2. EngineInv /\ [EngineNext]_allVars => [Handler!Next]_(Handler!vars)
  <2> SUFFICES ASSUME EngineInv, [EngineNext]_allVars
               PROVE  [Handler!Next]_(Handler!vars)
    OBVIOUS
  <2>1. ASSUME UNCHANGED vars
        PROVE  UNCHANGED Handler!vars
    BY <2>1
       DEF vars, sessionVars, listVars, countVars, Handler!vars, Handler!sessionVars,
           Handler!listVars, Handler!countVars
  <2>2. ASSUME Handler!ComThread, Observe
        PROVE  Handler!Next
    BY <2>2, SameHistory DEF Handler!Next
  <2>3. CASE ComCall
    <3>1. ASSUME NEW id \in SessionId, DestroySession(id)
          PROVE  Handler!Next
      BY <3>1, <2>2, SameCalls DEF DestroySession, Handler!ComThread
    <3>2. CASE ResetConnections
      BY <3>2, <2>2, SameCalls DEF ResetConnections, Handler!ComThread
    <3>3. CASE OtherCall
      BY <3>3, <2>2, SameCalls DEF OtherCall, Handler!ComThread
    <3>4. ASSUME NEW e \in ExpandFlags, CreateSession(e)
          PROVE  UNCHANGED vars
      BY <3>4 DEF CreateSession
    <3>5. ASSUME NEW id \in SessionId, NEW c \in Connection,
                 AddConnectionOutgoing(id, c) \/ AddConnectionIncoming(id, c)
          PROVE  UNCHANGED vars
      BY <3>5 DEF AddConnectionOutgoing, AddConnectionIncoming
    <3>6. ASSUME NEW id \in SessionId, NEW k \in Key, StartSession(id, k)
          PROVE  UNCHANGED vars
      BY <3>6 DEF StartSession
    <3> QED BY <2>1, <2>3, <3>1, <3>2, <3>3, <3>4, <3>5, <3>6 DEF ComCall
  <2>4. CASE ComContinues
    <3>1. CASE AddSession
      <4>1. com.id \in SessionId /\ sessions[com.id] \in Session
        BY <3>1, AddSessionKeepsInv DEF AddSession, EngineInv, ComInv
      <4>2. Handler!AddEncryptedSession(com.id, sessions[com.id]) /\ Observe
        BY <3>1, SameCalls DEF AddSession
      <4> QED BY <4>1, <4>2, <2>2 DEF Handler!ComThread
    <3>2. CASE ResetTheOther
      BY <3>2, <2>2, SameCalls DEF ResetTheOther, Handler!ComThread
    <3>3. ASSUME StopClock \/ CountDown \/ ResumeClock
          PROVE  UNCHANGED vars
      BY <3>3 DEF StopClock, CountDown, ResumeClock
    <3> QED BY <2>1, <2>4, <3>1, <3>2, <3>3 DEF ComContinues
  <2>5. CASE TargetThread
    BY <2>5, SameThreads, SameHistory DEF TargetThread, Handler!Next
  <2>6. ASSUME NEW id \in SessionId, HelperThread(id)
        PROVE  UNCHANGED Handler!vars
    BY <2>6, <2>1 DEF HelperThread, HelperCheck, HelperStopClock
  <2>7. CASE UNCHANGED allVars
    BY <2>7, <2>1 DEF allVars
  <2> QED BY <2>3, <2>4, <2>5, <2>6, <2>7 DEF EngineNext
<1> QED BY <1>1, <1>2, EngineInvHolds, PTL DEF EngineSpec, UsesTrafficHandler, Handler!Spec

-----------------------------------------------------------------------------
(* Types *)

\* The counter wraps at 2^Width.
LEMMA Wraps ==
  ASSUME NEW m \in Nat \ {0}, NEW a \in Int
  PROVE  /\ a % m \in 0..(m - 1)
         /\ 0 <= a /\ a < m => a % m = a
  BY SMT

ComStep == {"idle", "stopClock", "add", "countDown", "resumeClock", "reset"}

\* The types that EngineInv leaves open.
CounterOK == activeSessions \in 0..(2^Width - 1)
CallOK == com \in [step : ComStep, id : SessionId \cup {0}]
ClockOK == helper \in [SessionId -> HelperStep] /\ clockStopped \in BOOLEAN
RestOK == WatchOK /\ CounterOK /\ CallOK /\ ClockOK

\* The counter stays within its width.
LEMMA CounterType ==
  ASSUME CounterOK, EngineNext \/ UNCHANGED allVars
  PROVE  CounterOK'
<1>1. CASE activeSessions' = activeSessions
  BY <1>1 DEF CounterOK
<1>2. CASE \/ activeSessions' = (activeSessions + 1) % 2^Width
           \/ activeSessions' = (activeSessions - 1) % 2^Width
  <2> DEFINE m == 2^Width
  <2>1. m \in Nat \ {0}
    BY EngineAssumption
  <2>2. activeSessions \in 0..(m - 1)
    BY DEF CounterOK
  <2>3. \/ activeSessions' = (activeSessions + 1) % m
        \/ activeSessions' = (activeSessions - 1) % m
    BY <1>2
  <2> HIDE DEF m
  <2>4. activeSessions + 1 \in Int /\ activeSessions - 1 \in Int
    BY <2>1, <2>2
  <2>5. activeSessions' \in 0..(m - 1)
    BY <2>1, <2>3, <2>4, Wraps
  <2> QED
    BY <2>5 DEF m, CounterOK
<1> QED
  BY <1>1, <1>2
  DEF EngineNext, ComCall, ComContinues, TargetThread, HelperThread, CreateSession, AddConnectionOutgoing,
      AddConnectionIncoming, StartSession, DestroySession, ResetConnections, OtherCall, StopClock,
      AddSession, CountDown, ResumeClock, ResetTheOther, HelperCheck, HelperStopClock, allVars, engineVars

\* So do the state of the COM call and the helper threads.
LEMMA CallType ==
  ASSUME CallOK, EngineNext \/ UNCHANGED allVars
  PROVE  CallOK'
<1> USE DEF CallOK, ComStep
<1>1. CASE com' = com
  BY <1>1
<1>2. CASE com' \in {ComIdle, [ComIdle EXCEPT !.step = "reset"]}
  BY <1>2 DEF ComIdle
<1>3. CASE com' \in {[com EXCEPT !.step = "add"], [com EXCEPT !.step = "resumeClock"]}
  BY <1>3
<1>4. CASE \E id \in SessionId : com' \in {[step |-> "stopClock", id |-> id], [step |-> "countDown", id |-> id]}
  BY <1>4
<1> QED
  BY <1>1, <1>2, <1>3, <1>4
  DEF EngineNext, ComCall, ComContinues, TargetThread, HelperThread, CreateSession, AddConnectionOutgoing,
      AddConnectionIncoming, StartSession, DestroySession, ResetConnections, OtherCall, StopClock,
      AddSession, CountDown, ResumeClock, ResetTheOther, HelperCheck, HelperStopClock, DeleteSession,
      allVars, engineVars

\* The helper threads and the mark of the stopped clock keep their types.
LEMMA ClockType ==
  ASSUME ClockOK, EngineNext \/ UNCHANGED allVars
  PROVE  ClockOK'
<1>1. helper' \in [SessionId -> HelperStep]
  <2>1. CASE helper' = helper
    BY <2>1 DEF ClockOK
  <2>2. CASE \E id, h : h \in HelperStep /\ helper' = [helper EXCEPT ![id] = h]
    BY <2>2 DEF ClockOK
  <2>3. ASSUME NEW id, HelperCheck(id) \/ HelperStopClock(id)
        PROVE  \E h : h \in HelperStep /\ helper' = [helper EXCEPT ![id] = h]
    BY <2>3 DEF HelperCheck, HelperStopClock, HelperStep
  <2>4. CASE StopClock
    BY <2>1, <2>2, <2>4 DEF StopClock, HelperStep
  <2> QED
    BY <2>1, <2>2, <2>3, <2>4
    DEF EngineNext, ComCall, ComContinues, TargetThread, HelperThread, CreateSession, AddConnectionOutgoing,
        AddConnectionIncoming, StartSession, DestroySession, ResetConnections, OtherCall,
        AddSession, CountDown, ResumeClock, ResetTheOther, allVars, engineVars
<1>2. clockStopped' \in BOOLEAN
  <2>1. CASE clockStopped' = clockStopped
    BY <2>1 DEF ClockOK
  <2>2. CASE clockStopped' = TRUE
    BY <2>2, Zenon
  <2>3. CASE clockStopped' = FALSE
    BY <2>3, Zenon
  <2>4. \/ UNCHANGED clockStopped
        \/ ResumeClock
        \/ \E id : HelperStopClock(id)
    BY DEF EngineNext, ComCall, ComContinues, TargetThread, HelperThread, CreateSession,
        AddConnectionOutgoing, AddConnectionIncoming, StartSession, DestroySession, ResetConnections,
        OtherCall, StopClock, AddSession, CountDown, ResetTheOther, HelperCheck, allVars, engineVars
  <2> QED
    BY <2>1, <2>2, <2>3, <2>4, Zenon DEF ResumeClock, HelperStopClock
<1> QED
  BY <1>1, <1>2 DEF ClockOK

\* And the histories of the target's threads.
LEMMA WatchType ==
  ASSUME WatchOK, EngineNext \/ UNCHANGED allVars
  PROVE  WatchOK'
<1>1. CASE Observe
  BY <1>1, ObserveType
<1>2. CASE UNCHANGED vars
  BY <1>2 DEF vars, WatchOK
<1>3. Observe \/ UNCHANGED vars
  BY DEF EngineNext, ComCall, ComContinues, TargetThread, HelperThread, CreateSession, AddConnectionOutgoing,
         AddConnectionIncoming, StartSession, DestroySession, ResetConnections, OtherCall, StopClock,
         AddSession, CountDown, ResumeClock, ResetTheOther, HelperCheck, HelperStopClock, allVars
<1> QED
  BY <1>1, <1>2, <1>3

\* They hold at the start and after every step.
LEMMA RestHolds == EngineSpec => []RestOK
<1>1. EngineInit => RestOK
  <2> SUFFICES ASSUME EngineInit
               PROVE  RestOK
    OBVIOUS
  <2>1. WatchOK
    BY DEF EngineInit, Init, WatchOK
  <2>2. CounterOK
    <3> DEFINE m == 2^Width
    <3>1. m \in Nat \ {0} /\ activeSessions = 0
      BY EngineAssumption DEF EngineInit
    <3> HIDE DEF m
    <3>2. activeSessions \in 0..(m - 1)
      BY <3>1
    <3> QED
      BY <3>2 DEF m, CounterOK
  <2>3. CallOK
    BY DEF EngineInit, ComIdle, CallOK, ComStep
  <2>4. helper \in [SessionId -> HelperStep]
    BY DEF EngineInit, HelperStep
  <2>5. clockStopped \in BOOLEAN
    BY Zenon DEF EngineInit
  <2> QED
    BY <2>1, <2>2, <2>3, <2>4, <2>5 DEF RestOK, ClockOK
<1>2. RestOK /\ [EngineNext]_allVars => RestOK'
  BY CounterType, CallType, ClockType, WatchType DEF RestOK
<1> QED
  BY <1>1, <1>2, PTL DEF EngineSpec

\* The types of the engine's variables, the ids among those given out and the counter within
\* its width (HookingEngine.cpp 1145-1285), with the traffic handler's types under them.
THEOREM EngineTypeCorrect == EngineSpec => []EngineTypeOK
<1>1. EngineInv /\ RestOK => EngineTypeOK
  <2> SUFFICES ASSUME EngineInv, RestOK
               PROVE  EngineTypeOK
    OBVIOUS
  <2>1. TypeOK
    BY TypeParts DEF EngineInv, RestOK, StateOK
  <2> QED
    BY <2>1 DEF EngineInv, RestOK, ContainerOK, SessionObject, CounterOK, CallOK, ComStep, ClockOK, EngineTypeOK
<1> QED
  BY <1>1, EngineInvHolds, RestHolds, PTL

-----------------------------------------------------------------------------
(* The counter of active sessions *)

\* The sessions that activeSessions counts: those that were started and still exist, with the
\* one that startSession has counted already and without the one that destroySession has
\* counted off.
Counted ==
  LET known == started \cap DOMAIN sessions IN
  CASE com.step \in {"stopClock", "add"} -> known \cup {com.id}
    [] com.step = "resumeClock" -> known \ {com.id}
    [] OTHER -> known

\* The sessions that were counted off though they had never been counted.
CountedOff ==
  {id \in 1..index \ started : id \in DOMAIN sessions => com.step = "resumeClock" /\ com.id = id}

\* The counter is the difference of the two numbers, but for wrapping around.
Net == Cardinality(Counted) - Cardinality(CountedOff)
CountsNet(x, n) == \E q \in Int : x = n + q * 2^Width
CountInv ==
  /\ CountsNet(activeSessions, Net)
  /\ com.step \in {"countDown", "resumeClock"} => com.id \in DOMAIN sessions

\* A number and its remainder differ by a multiple.
LEMMA RemainderIsCongruent ==
  ASSUME NEW m \in Nat \ {0}, NEW y \in Int
  PROVE  \E d \in Int : y % m = y + d * m
<1>1. y = m * (y \div m) + (y % m)
  BY SMT
<1>2. (y \div m) \in Int /\ y % m \in Int
  BY SMT
<1>3. y % m = y + (0 - (y \div m)) * m
  BY <1>1, <1>2, SMT
<1>4. 0 - (y \div m) \in Int
  BY <1>2, SMT
<1> QED
  BY <1>3, <1>4, Zenon

\* Counting up or down and wrapping around.
LEMMA CountsOn ==
  ASSUME NEW x \in Int, NEW n \in Int, NEW k \in Int, CountsNet(x, n)
  PROVE  CountsNet((x + k) % 2^Width, n + k)
<1> DEFINE m == 2^Width
<1>1. m \in Nat \ {0}
  BY EngineAssumption
<1>2. PICK q \in Int : x = n + q * m
  BY DEF CountsNet
<1> HIDE DEF m
<1>3. PICK d \in Int : (x + k) % m = (x + k) + d * m
  <2>1. \A y \in Int : \E d \in Int : y % m = y + d * m
    BY <1>1, RemainderIsCongruent
  <2>2. x + k \in Int
    OBVIOUS
  <2> QED
    BY <2>1, <2>2, Zenon
<1>4. (n + q * m + k) + d * m = (n + k) + (q + d) * m
  BY <1>1, SMT
<1>5. (x + k) % m = (n + k) + (q + d) * m
  BY <1>2, <1>3, <1>4
<1>6. q + d \in Int
  OBVIOUS
<1>7. \E r \in Int : (x + k) % m = (n + k) + r * m
  BY <1>5, <1>6, Zenon
<1> QED
  BY <1>7 DEF CountsNet, m

\* A positive number below the width is not counted as 0.
LEMMA NetIsSeen ==
  ASSUME NEW n \in 1..(2^Width - 1)
  PROVE  ~CountsNet(0, n)
<1> DEFINE m == 2^Width
<1>1. m \in Nat \ {0} /\ n \in 1..(m - 1)
  BY EngineAssumption
<1> HIDE DEF m
<1>2. ASSUME NEW q \in Int
      PROVE  0 # n + q * m
  <2>1. CASE q = 0
    BY <1>1, <2>1, SMT
  <2>2. CASE q >= 1
    BY <1>1, <2>2, SMT
  <2>3. CASE q <= 0 - 1
    <3>1. q * m <= 0 - m /\ q * m \in Int
      BY <1>1, <2>3, SMT
    <3> QED
      BY <1>1, <3>1, SMT
  <2> QED
    BY <2>1, <2>2, <2>3, SMT
<1> QED
  BY <1>2 DEF CountsNet, m

\* What is counted are ids that were given out.
LEMMA CountsFinite ==
  ASSUME EngineInv
  PROVE  /\ Counted \subseteq 1..index /\ CountedOff \subseteq 1..index
         /\ IsFiniteSet(Counted) /\ IsFiniteSet(CountedOff)
         /\ Cardinality(Counted) \in Nat /\ Cardinality(CountedOff) \in Nat
<1>1. index \in Int /\ DOMAIN sessions \cup started \subseteq 1..index
  BY ConstantsAssumption DEF EngineInv, ContainerOK
<1>2. Counted \subseteq 1..index /\ CountedOff \subseteq 1..index
  BY <1>1 DEF EngineInv, ComInv, Counted, CountedOff
<1>3. IsFiniteSet(1..index)
  BY <1>1, FS_Interval
<1> QED
  BY <1>2, <1>3, FS_Subset, FS_CardinalityType

\* A step that changes neither the counter nor what is counted.
LEMMA CountKept ==
  ASSUME CountInv, activeSessions' = activeSessions, Counted' = Counted, CountedOff' = CountedOff,
         com'.step \in {"countDown", "resumeClock"} => com'.id \in DOMAIN sessions'
  PROVE  CountInv'
<1>1. Net' = Net
  BY DEF Net
<1> QED
  BY <1>1 DEF CountInv, CountsNet

\* A step that counts up or down as much as it should.
LEMMA CountMoved ==
  ASSUME EngineInv, CounterOK, CountInv, NEW k \in Int,
         activeSessions' = (activeSessions + k) % 2^Width, Net' = Net + k,
         com'.step \in {"countDown", "resumeClock"} => com'.id \in DOMAIN sessions'
  PROVE  CountInv'
<1> DEFINE m == 2^Width
<1>1. m \in Nat \ {0} /\ activeSessions \in 0..(m - 1)
  BY EngineAssumption DEF CounterOK
<1> HIDE DEF m
<1>2. activeSessions \in Int
  BY <1>1
<1>3. Net \in Int
  BY CountsFinite DEF Net
<1>4. CountsNet((activeSessions + k) % 2^Width, Net + k)
  BY <1>2, <1>3, CountsOn DEF CountInv
<1> QED
  BY <1>4 DEF CountInv, CountsNet

\* The counter is right after every step: destroying a session that was never started moves
\* it as far away from the number of the sessions as it says.
LEMMA CountStep ==
  ASSUME EngineInv, CallOK, CounterOK, CountInv, EngineNext \/ UNCHANGED allVars
  PROVE  CountInv'
<1> DEFINE known == started \cap DOMAIN sessions
           id == com.id
<1> USE DEF engineVars
<1>1. ASSUME UNCHANGED <<activeSessions, com, started, sessions, index>>
      PROVE  CountInv'
  BY <1>1 DEF CountInv, CountsNet, Net, Counted, CountedOff
<1>2. DOMAIN sessions \cup started \subseteq 1..index /\ index \in Nat
  BY ConstantsAssumption DEF EngineInv, ContainerOK
<1>3. CASE ComCall
  <2>1. ASSUME NEW e \in ExpandFlags, CreateSession(e)
        PROVE  CountInv'
    <3>1. index' = index + 1 /\ com' = com /\ com.step = "idle"
      BY <2>1 DEF CreateSession, ComIdle
    <3>2. index' \notin started /\ DOMAIN sessions' = DOMAIN sessions \cup {index'}
      BY <1>2, <2>1, <3>1 DEF CreateSession, Put
    <3>3. started' = started /\ activeSessions' = activeSessions
      BY <2>1 DEF CreateSession, vars, sessionVars
    <3>4. 1..index' = 1..index \cup {index'}
      BY <1>2, <3>1
    <3>5. Counted' = Counted
      <4>1. started' \cap DOMAIN sessions' = known
        BY <3>2, <3>3
      <4> QED
        BY <3>1, <4>1 DEF Counted
    <3>6. CountedOff' = CountedOff
      <4>1. index' \notin 1..index
        BY <1>2, <3>1
      <4> QED
        BY <3>1, <3>2, <3>3, <3>4, <4>1 DEF CountedOff
    <3> QED
      BY <3>1, <3>3, <3>5, <3>6, CountKept
  <2>2. ASSUME NEW i \in SessionId, NEW c \in Connection,
               AddConnectionOutgoing(i, c) \/ AddConnectionIncoming(i, c)
        PROVE  CountInv'
    <3>1. /\ DOMAIN sessions' = DOMAIN sessions /\ com' = com /\ started' = started
          /\ activeSessions' = activeSessions /\ index' = index
      BY <2>2 DEF AddConnectionOutgoing, AddConnectionIncoming, vars, sessionVars
    <3>2. Counted' = Counted /\ CountedOff' = CountedOff
      BY <3>1 DEF Counted, CountedOff
    <3> QED
      BY <3>1, <3>2, CountKept DEF CountInv
  <2>3. ASSUME NEW i \in SessionId, NEW k \in Key, StartSession(i, k)
        PROVE  CountInv'
    <3>1. /\ com.step = "idle" /\ i \notin started /\ com'.step = "stopClock" /\ com'.id = i
          /\ DOMAIN sessions' = DOMAIN sessions /\ started' = started /\ index' = index
          /\ activeSessions' = (activeSessions + 1) % 2^Width
      BY <2>3 DEF StartSession, StartedOnce, SetKey, ComIdle, vars, sessionVars
    <3>2. Counted = known /\ Counted' = Counted \cup {i} /\ i \notin Counted /\ CountedOff' = CountedOff
      BY <3>1 DEF Counted, CountedOff
    <3>3. Cardinality(Counted') = Cardinality(Counted) + 1
      BY <3>2, CountsFinite, FS_AddElement
    <3>4. Net' = Net + 1
      BY <3>2, <3>3, CountsFinite DEF Net
    <3> QED
      BY <3>1, <3>4, CountMoved
  <2>4. ASSUME NEW i \in SessionId, DestroySession(i)
        PROVE  CountInv'
    <3>1. /\ com.step = "idle" /\ i \in DOMAIN sessions
          /\ com'.step = "countDown" /\ com'.id = i /\ index' = index
          /\ sessions' = sessions /\ started' = started /\ activeSessions' = activeSessions
      BY <2>4 DEF DestroySession, RemoveEncryptedSession, ComIdle
    <3>2. Counted' = Counted /\ CountedOff' = CountedOff
      BY <3>1 DEF Counted, CountedOff
    <3> QED
      BY <3>1, <3>2, CountKept
  <2>5. CASE ResetConnections
    <3>1. /\ com.step = "idle" /\ com'.step = "reset" /\ sessions' = sessions /\ index' = index
          /\ started' = started /\ activeSessions' = activeSessions
      BY <2>5 DEF ResetConnections, ResetIncomingConnections, sessionVars, ComIdle
    <3>2. Counted' = Counted /\ CountedOff' = CountedOff
      BY <3>1 DEF Counted, CountedOff
    <3> QED
      BY <3>1, <3>2, CountKept
  <2>6. CASE OtherCall
    BY <1>1, <2>6 DEF OtherCall, SetSecurityPolicy, SetCountConnections, sessionVars
  <2> QED
    BY <1>3, <2>1, <2>2, <2>3, <2>4, <2>5, <2>6 DEF ComCall
<1>4. CASE ComContinues
  <2>1. CASE StopClock
    <3>1. /\ com.step = "stopClock" /\ com'.step = "add" /\ com'.id = id /\ index' = index
          /\ sessions' = sessions /\ started' = started /\ activeSessions' = activeSessions
      BY <2>1 DEF StopClock, vars, sessionVars, CallOK
    <3>2. Counted' = Counted /\ CountedOff' = CountedOff
      BY <3>1 DEF Counted, CountedOff
    <3> QED
      BY <3>1, <3>2, CountKept
  <2>2. CASE AddSession
    <3>1. /\ com.step = "add" /\ com'.step = "idle" /\ id \in DOMAIN sessions /\ index' = index
          /\ sessions' = sessions /\ started' = started \cup {id} /\ activeSessions' = activeSessions
      BY <2>2 DEF AddSession, AddEncryptedSession, EngineInv, ComInv, ComIdle
    <3>2. Counted' = Counted /\ CountedOff' = CountedOff
      BY <3>1 DEF Counted, CountedOff
    <3> QED
      BY <3>1, <3>2, CountKept
  <2>3. CASE CountDown
    <3>1. /\ com.step = "countDown" /\ id \in DOMAIN sessions /\ started' = started /\ index' = index
          /\ activeSessions' = (activeSessions - 1) % 2^Width
      BY <2>3 DEF CountDown, CountInv, vars, sessionVars
    <3>2. \/ DOMAIN sessions' = DOMAIN sessions \ {id} /\ com'.step = "idle"
          \/ sessions' = sessions /\ com'.step = "resumeClock" /\ com'.id = id
      BY <2>3 DEF CountDown, DeleteSession, Erase, ComIdle, CallOK
    <3>3. Counted = known /\ Counted' = known \ {id}
      BY <3>1, <3>2 DEF Counted
    <3>4. CountedOff' = CountedOff \cup ({id} \ started) /\ id \notin CountedOff
      BY <1>2, <3>1, <3>2 DEF CountedOff
    <3>5. Net' = Net + (0 - 1)
      <4>1. CASE id \in started
        <5>1. Cardinality(Counted') = Cardinality(Counted) - 1
          BY <3>1, <3>3, <4>1, CountsFinite, FS_RemoveElement
        <5>2. CountedOff' = CountedOff
          BY <3>4, <4>1
        <5> QED
          BY <5>1, <5>2, CountsFinite DEF Net
      <4>2. CASE id \notin started
        <5>1. Counted' = Counted
          BY <3>3, <4>2
        <5>2. CountedOff' = CountedOff \cup {id}
          BY <3>4, <4>2
        <5>3. Cardinality(CountedOff') = Cardinality(CountedOff) + 1
          BY <3>4, <5>2, CountsFinite, FS_AddElement
        <5> QED
          BY <5>1, <5>3, CountsFinite DEF Net
      <4> QED
        BY <4>1, <4>2
    <3>6. activeSessions' = (activeSessions + (0 - 1)) % 2^Width
      <4> DEFINE m == 2^Width
      <4>1. m \in Nat \ {0} /\ activeSessions \in 0..(m - 1) /\ activeSessions' = (activeSessions - 1) % m
        BY <3>1, EngineAssumption DEF CounterOK
      <4> HIDE DEF m
      <4>2. activeSessions - 1 = activeSessions + (0 - 1)
        BY <4>1
      <4> QED
        BY <4>1, <4>2 DEF m
    <3>7. com'.step \in {"countDown", "resumeClock"} => com'.id \in DOMAIN sessions'
      BY <3>1, <3>2
    <3>8. 0 - 1 \in Int
      OBVIOUS
    <3> QED
      BY <3>5, <3>6, <3>7, <3>8, CountMoved
  <2>4. CASE ResumeClock
    <3>1. /\ com.step = "resumeClock" /\ com'.step = "idle" /\ started' = started /\ index' = index
          /\ DOMAIN sessions' = DOMAIN sessions \ {id} /\ activeSessions' = activeSessions
      BY <2>4 DEF ResumeClock, DeleteSession, Erase, ComIdle, vars, sessionVars
    <3>2. Counted' = Counted /\ CountedOff' = CountedOff
      BY <3>1 DEF Counted, CountedOff
    <3> QED
      BY <3>1, <3>2, CountKept
  <2>5. CASE ResetTheOther
    <3>1. /\ com.step = "reset" /\ com'.step = "idle" /\ sessions' = sessions /\ index' = index
          /\ started' = started /\ activeSessions' = activeSessions
      BY <2>5 DEF ResetTheOther, ResetOugoingConnections, sessionVars, ComIdle
    <3>2. Counted' = Counted /\ CountedOff' = CountedOff
      BY <3>1 DEF Counted, CountedOff
    <3> QED
      BY <3>1, <3>2, CountKept
  <2> QED
    BY <1>4, <2>1, <2>2, <2>3, <2>4, <2>5 DEF ComContinues
<1>5. CASE TargetThread
  <2>1. started' = started
    BY <1>5, PacketsKeepSessions DEF TargetThread, EngineInv, StateOK
  <2> QED
    BY <1>1, <1>5, <2>1 DEF TargetThread
<1>6. ASSUME NEW i \in SessionId, HelperThread(i)
      PROVE  CountInv'
  BY <1>1, <1>6 DEF HelperThread, HelperCheck, HelperStopClock, vars, sessionVars
<1>7. CASE UNCHANGED allVars
  BY <1>1, <1>7 DEF allVars, vars, sessionVars
<1> QED
  BY <1>3, <1>4, <1>5, <1>6, <1>7 DEF EngineNext

\* ConnectEx is blocked while more sessions run than set-ups were given up before, whichever
\* sessions are created, started and destroyed in between, as long as there are fewer than
\* the counter can count (HookingEngine.cpp 815, 1196-1253, 1270-1285). In particular the
\* comment at 815 holds for those that destroy no session they never started.
THEOREM ConnectExStaysBlocked ==
  ASSUME IsFiniteSet(SessionId), Cardinality(SessionId) < 2^Width
  PROVE  EngineSpec => []ConnectExIsBlocked
<1>1. EngineInit => CountInv
  <2> SUFFICES ASSUME EngineInit
               PROVE  CountInv
    OBVIOUS
  <2>1. Counted = {} /\ CountedOff = {} /\ activeSessions = 0 /\ com.step = "idle"
    BY DEF EngineInit, Init, EmptyMap, ComIdle, Counted, CountedOff
  <2>2. Net = 0
    BY <2>1, FS_EmptySet DEF Net
  <2> DEFINE m == 2^Width
  <2>3. m \in Nat \ {0}
    BY EngineAssumption
  <2> HIDE DEF m
  <2>4. 0 = 0 + 0 * m
    BY <2>3
  <2>5. \E q \in Int : 0 = 0 + q * m
    BY <2>4
  <2> QED
    BY <2>1, <2>2, <2>5 DEF CountInv, CountsNet, m
<1>2. EngineInv /\ RestOK /\ CountInv /\ [EngineNext]_allVars => CountInv'
  BY CountStep DEF RestOK
<1>3. EngineInv /\ RestOK /\ CountInv => ConnectExIsBlocked
  <2> SUFFICES ASSUME EngineInv, RestOK, CountInv, Cardinality(DOMAIN encSessions) > Cardinality(GivenUp)
               PROVE  activeSessions > 0
    BY DEF ConnectExIsBlocked, ConnectExPasses
  <2> DEFINE m == 2^Width
  <2>1. /\ DOMAIN encSessions \subseteq Counted /\ Counted \subseteq SessionId
        /\ CountedOff \subseteq GivenUp /\ GivenUp \subseteq 1..index
    BY DEF EngineInv, RunningIsKnown, StateOK, SessionsOK, ComInv, Counted, CountedOff, GivenUp
  <2>2. index \in Int /\ IsFiniteSet(1..index)
    <3>1. index \in Int
      BY ConstantsAssumption DEF EngineInv, ContainerOK
    <3> QED
      BY <3>1, FS_Interval
  <2>3. IsFiniteSet(GivenUp) /\ Cardinality(GivenUp) \in Nat
        /\ Cardinality(CountedOff) <= Cardinality(GivenUp)
    BY <2>1, <2>2, FS_Subset, FS_CardinalityType
  <2>4. /\ Cardinality(DOMAIN encSessions) <= Cardinality(Counted)
        /\ Cardinality(Counted) <= Cardinality(SessionId)
        /\ Cardinality(DOMAIN encSessions) \in Nat /\ Cardinality(SessionId) \in Nat
    BY <2>1, CountsFinite, FS_Subset, FS_CardinalityType
  <2>5. m \in Nat \ {0} /\ Cardinality(SessionId) < m /\ activeSessions \in 0..(m - 1)
    BY EngineAssumption DEF RestOK, CounterOK
  <2> HIDE DEF m
  <2>6. Net \in 1..(m - 1)
    BY <2>3, <2>4, <2>5, CountsFinite DEF Net
  <2>7. activeSessions # 0
    BY <2>6, NetIsSeen DEF CountInv, m
  <2> QED
    BY <2>5, <2>7
<1> QED
  BY <1>1, <1>2, <1>3, EngineInvHolds, RestHolds, PTL DEF EngineSpec
=============================================================================
