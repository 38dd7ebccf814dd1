---------------------------- MODULE TrafficHandler ----------------------------
(***************************************************************************)
(* TrafficHandler and TrafficHandlerMSCSP (Bottom/TrafficHandler.cpp): the *)
(* object that every hooked socket function of the target process asks     *)
(* what to do with a packet, while the COM thread starts and stops         *)
(* sessions and changes the policy.                                        *)
(*                                                                         *)
(* A call of packetToSend or packetReceived takes and leaves several locks *)
(* in turn; each stretch under one lock is one action of the calling       *)
(* thread, so that other threads may run in between. csKeys is also taken  *)
(* inside csGeneric (addEncryptedSession, removeEncryptedSession): those   *)
(* are single actions, since a thread that takes csKeys alone holds no     *)
(* other lock and reads nothing else that the outer section writes.        *)
(***************************************************************************)
EXTENDS ConnectionSearch, Integers, FiniteSets

CONSTANTS
  Threads,        \* threads of the target process that do network io
  Connection,     \* the connections that occur
  Arriving,       \* those that packets are received on
  LocalHost,      \* the loopback address
  SessionId,      \* ids of sessions; encSessions is searched in ascending order
  Key,            \* session keys
  WeakKey,        \* those shorter than 128 bit
  NoKey,          \* a key handle that was not fetched yet
  Offered,        \* the session objects addEncryptedSession may be called with
  Policies,       \* the values setSecurityPolicy may be called with
  MaxCount,       \* bound of the packet counters
  MayFail         \* may malloc or the crypto provider refuse a request?

\* TSecurityPolicy.
VERY_LOOSE == 1
LOOSE == 2
TIGHT == 3

\* A Session, with the fields that are used after it was started.
Session == [in : SUBSET Connection, out : SUBSET Connection, expand : BOOLEAN, key : Key]

Ip == {c.ip : c \in Connection}

ASSUME ConstantsAssumption ==
  /\ Arriving \subseteq Connection
  /\ SessionId \subseteq Nat \ {0}
  /\ WeakKey \subseteq Key
  /\ NoKey \notin Key
  /\ Offered \subseteq Session
  /\ Policies \subseteq Int
  /\ MaxCount \in Nat
  /\ MayFail \in BOOLEAN

VARIABLES
  securityPolicy,
  encSessions,             \* the running sessions: a function on their ids
  keys,                    \* the keys held by the crypto provider: a function on session ids
  openConnectionsSend,
  openConnectionsReceive,
  countConnections,
  connectionCounts,        \* packets per ip; 0 for an ip that is not in the map
  started,                 \* history: the ids of all sessions ever added
  pc, call,                \* per thread: where its call is, and the call's local variables
  watch                    \* history, per thread: what held ever since its call began

sessionVars == <<encSessions, keys, started>>
listVars == <<openConnectionsSend, openConnectionsReceive>>
countVars == <<countConnections, connectionCounts>>
vars == <<securityPolicy, sessionVars, listVars, countVars, pc, call, watch>>

\* Outcomes of a packet to send (nothing is sent when it is dropped or a library call failed:
\* the caller cannot tell the two) and of a received one: untouched, decrypted, decryption
\* failed and passed on as it is, error returned to the caller.
SendOutcome == {"plain", "cipher", "dropped", "failed"}
ReceiveOutcome == {"raw", "decrypted", "undecrypted", "rejected"}
Step == {"checkNew", "expand", "recordNew", "lookup", "encryptKey", "encrypt",
         "searchIncoming", "decryptKey", "decrypt"}

\* What lives across the locks of a call: the connection, the snapshots sp and
\* numActiveSessions > 0, sessionId, the key handle, and whether lenPayload is 0.
Call == [conn : Connection, sp : Int, active : BOOLEAN, sid : SessionId \cup {0},
         key : Key \cup {NoKey}, empty : BOOLEAN]
NoCall == [conn |-> "none"]

NewCall(c) == [conn |-> c, sp |-> 0, active |-> FALSE, sid |-> 0, key |-> NoKey,
               empty |-> FALSE]

EmptyMap == [x \in {} |-> {}]
Put(map, k, v) == [x \in DOMAIN map \cup {k} |-> IF x = k THEN v ELSE map[x]]
Erase(map, k) == [x \in DOMAIN map \ {k} |-> map[x]]

Init ==
  /\ securityPolicy = TIGHT
  /\ encSessions = EmptyMap
  /\ keys = EmptyMap
  /\ openConnectionsSend = {}
  /\ openConnectionsReceive = {}
  /\ countConnections = FALSE
  /\ connectionCounts = [i \in Ip |-> 0]
  /\ started = {}
  /\ pc = [t \in Threads |-> "idle"]
  /\ call = [t \in Threads |-> NoCall]
  /\ watch = [t \in Threads |-> {}]

-----------------------------------------------------------------------------
Running == DOMAIN encSessions # {}

\* The first session, in ascending order of the ids, of a nonempty set of ids.
First(ids) == CHOOSE i \in ids : \A j \in ids : i <= j

OwnersOutgoing(c) == {i \in DOMAIN encSessions : c \in encSessions[i].out}

\* Mutant: an expandable session takes over connections to anyone.
ExpandableToAnyone(c) ==
  {i \in DOMAIN encSessions : encSessions[i].expand /\ c \notin encSessions[i].out}

\* The running sessions that take c over: expandable, with a similar outgoing connection.
Expandable(c) ==
  {i \in DOMAIN encSessions :
     encSessions[i].expand /\ Search(encSessions[i].out, c) = SIMILAR_FOUND}

\* The running sessions at which the loop of packetReceived stops.
OwnersIncoming(c) ==
  {i \in DOMAIN encSessions :
     \/ Search(encSessions[i].in, c) = MATCH_FOUND
     \/ Search(encSessions[i].in, c) = SIMILAR_FOUND /\ encSessions[i].expand}

AddOutgoing(ids, c) ==
  [i \in DOMAIN encSessions |->
     IF i \in ids THEN [encSessions[i] EXCEPT !.out = @ \cup {c}] ELSE encSessions[i]]

UpdateConnectionCounts(ip) ==
  /\ connectionCounts' = IF countConnections /\ connectionCounts[ip] < MaxCount
                           THEN [connectionCounts EXCEPT ![ip] = @ + 1]
                           ELSE connectionCounts
  /\ UNCHANGED countConnections

GoTo(t, step) == pc' = [pc EXCEPT ![t] = step]

-----------------------------------------------------------------------------
(* packetToSend *)

\* A packet to the loopback address is copied; a failing malloc drops it.
SendLocal(t, c) ==
  /\ pc[t] = "idle"
  /\ c.ip = LocalHost
  /\ call' = [call EXCEPT ![t] = NewCall(c)]
  /\ \/ GoTo(t, "plain")
     \/ MayFail /\ GoTo(t, "failed")
  /\ UNCHANGED <<securityPolicy, sessionVars, listVars, countVars>>

\* Under csGeneric: take the snapshots of the policy and of the number of sessions.
SnapshotPolicy(t, c) ==
  /\ pc[t] = "idle"
  /\ c.ip # LocalHost
  /\ call' = [call EXCEPT ![t] = [NewCall(c) EXCEPT !.sp = securityPolicy,
                                                   !.active = Running]]
  /\ UpdateConnectionCounts(c.ip)
  /\ GoTo(t, "checkNew")
  /\ UNCHANGED <<securityPolicy, sessionVars, listVars>>

\* Mutant: the policy is not asked for.
IsBlockedAnyPolicy(t) ==
  call[t].conn \notin openConnectionsSend /\ call[t].active

\* Mutant: only TIGHT blocks new connections.
IsBlockedIfTight(t) ==
  /\ call[t].conn \notin openConnectionsSend
  /\ call[t].active
  /\ call[t].sp > LOOSE

\* Mutant: known connections are blocked as well.
IsBlockedIfKnown(t) == call[t].active /\ call[t].sp >= LOOSE

\* The condition under which a packet is dropped unless a session takes its connection over.
IsBlocked(t) ==
  /\ call[t].conn \notin openConnectionsSend
  /\ call[t].active
  /\ call[t].sp >= LOOSE

\* Under csOutgoing: a connection that is not blocked is recorded.
CheckNew(t) ==
  /\ pc[t] = "checkNew"
  /\ \/ /\ IsBlocked(t)
        /\ GoTo(t, "expand")
        /\ UNCHANGED openConnectionsSend
     \/ /\ ~IsBlocked(t)
        /\ openConnectionsSend' = openConnectionsSend \cup {call[t].conn}
        /\ GoTo(t, "lookup")
  /\ UNCHANGED <<securityPolicy, sessionVars, openConnectionsReceive, countVars, call>>

\* Under csGeneric: every expandable session with a similar connection takes this one over.
Expand(t) ==
  LET c == call[t].conn IN
  /\ pc[t] = "expand"
  /\ encSessions' = AddOutgoing(Expandable(c), c)
  /\ GoTo(t, IF Expandable(c) = {} THEN "dropped" ELSE "recordNew")
  /\ UNCHANGED <<securityPolicy, keys, started, listVars, countVars, call>>

\* Under csOutgoing again.
RecordNew(t) ==
  /\ pc[t] = "recordNew"
  /\ openConnectionsSend' = openConnectionsSend \cup {call[t].conn}
  /\ GoTo(t, "lookup")
  /\ UNCHANGED <<securityPolicy, sessionVars, openConnectionsReceive, countVars, call>>

\* Mutant: an unencrypted packet is only dropped while no session runs.
DropsPlainInverted(t) == call[t].sp = TIGHT /\ ~call[t].active

\* The policy applied to a packet of no session, from the snapshots taken at the start.
DropsPlain(t) == call[t].sp = TIGHT /\ call[t].active

\* Mutant: any running session is taken for the owner.
LookupAnySession(t) ==
  /\ pc[t] = "lookup"
  /\ OwnersOutgoing(call[t].conn) # {}
  /\ call' = [call EXCEPT ![t].sid = First(DOMAIN encSessions)]
  /\ GoTo(t, "encryptKey")
  /\ UNCHANGED <<securityPolicy, sessionVars, listVars, countVars>>

\* ownedBySessionOutgoing, under csGeneric: an owned packet goes on to encrypt.
LookupOwned(t) ==
  LET owners == OwnersOutgoing(call[t].conn) IN
  /\ pc[t] = "lookup"
  /\ owners # {}
  /\ call' = [call EXCEPT ![t].sid = First(owners)]
  /\ GoTo(t, "encryptKey")
  /\ UNCHANGED <<securityPolicy, sessionVars, listVars, countVars>>

\* Mutant: a packet is judged without asking whether a session owns its connection.
LookupIgnoringOwners(t) ==
  /\ pc[t] = "lookup"
  /\ \/ DropsPlain(t) /\ GoTo(t, "dropped")
     \/ ~DropsPlain(t) /\ GoTo(t, "plain")
  /\ UNCHANGED <<securityPolicy, sessionVars, listVars, countVars, call>>

\* A packet of no session is dropped or copied, as the policy and malloc have it.
LookupUnowned(t) ==
  /\ pc[t] = "lookup"
  /\ OwnersOutgoing(call[t].conn) = {}
  /\ \/ DropsPlain(t) /\ GoTo(t, "dropped")
     \/ ~DropsPlain(t) /\ GoTo(t, "plain")
     \/ MayFail /\ GoTo(t, "failed")
  /\ UNCHANGED <<securityPolicy, sessionVars, listVars, countVars, call>>

\* encrypt under csKeys: fetch the key's handle; without a key the packet is dropped.
FetchKey(t) ==
  /\ pc[t] = "encryptKey"
  /\ \/ /\ call[t].sid \in DOMAIN keys
        /\ call' = [call EXCEPT ![t].key = keys[call[t].sid]]
        /\ GoTo(t, "encrypt")
     \/ /\ call[t].sid \notin DOMAIN keys
        /\ GoTo(t, "dropped")
        /\ UNCHANGED call
  /\ UNCHANGED <<securityPolicy, sessionVars, listVars, countVars>>

\* The handle a call holds still denotes a key of the provider.
HandleValid(t) == call[t].sid \in DOMAIN keys /\ keys[call[t].sid] = call[t].key

\* The rest of encrypt runs without a lock: the key may have been destroyed meanwhile, and
\* what the provider does with the handle of a destroyed key is left open.
Encrypt(t) ==
  /\ pc[t] = "encrypt"
  /\ \/ GoTo(t, "cipher")
     \/ ~HandleValid(t) /\ GoTo(t, "dropped")
     \/ MayFail /\ GoTo(t, "failed")
  /\ UNCHANGED <<securityPolicy, sessionVars, listVars, countVars, call>>

-----------------------------------------------------------------------------
(* packetReceived *)

\* Under csIncoming: record the connection the packet came in on.
RecordIncoming(t, c, e) ==
  /\ pc[t] = "idle"
  /\ call' = [call EXCEPT ![t] = [NewCall(c) EXCEPT !.empty = e]]
  /\ openConnectionsReceive' = openConnectionsReceive \cup {c}
  /\ GoTo(t, "searchIncoming")
  /\ UNCHANGED <<securityPolicy, sessionVars, openConnectionsSend, countVars>>

\* Mutant: sessions that only have a similar connection are passed over.
SearchIncomingExact(t) ==
  LET c == call[t].conn
      owners == {i \in OwnersIncoming(c) : Search(encSessions[i].in, c) = MATCH_FOUND}
  IN
  /\ pc[t] = "searchIncoming"
  /\ UpdateConnectionCounts(c.ip)
  /\ call' = IF owners = {} THEN call ELSE [call EXCEPT ![t].sid = First(owners)]
  /\ GoTo(t, IF owners = {} \/ call[t].empty THEN "raw" ELSE "decryptKey")
  /\ UNCHANGED <<securityPolicy, encSessions, keys, started, listVars>>

\* Under csGeneric: the first session that owns the connection, or takes it over for being
\* similar. The connection is then added to the outgoing ones of the session.
SearchIncoming(t) ==
  LET c == call[t].conn
      owners == OwnersIncoming(c)
      first == First(owners)
  IN
  /\ pc[t] = "searchIncoming"
  /\ UpdateConnectionCounts(c.ip)
  /\ IF owners = {}
       THEN UNCHANGED <<encSessions, call>>
       ELSE /\ encSessions' = IF Search(encSessions[first].in, c) = SIMILAR_FOUND
                                THEN AddOutgoing({first}, c) ELSE encSessions
            /\ call' = [call EXCEPT ![t].sid = first]
  /\ GoTo(t, IF owners = {} \/ call[t].empty THEN "raw" ELSE "decryptKey")
  /\ UNCHANGED <<securityPolicy, keys, started, listVars>>

\* decrypt under csKeys: without a key the caller gets an error.
FetchDecryptKey(t) ==
  /\ pc[t] = "decryptKey"
  /\ \/ /\ call[t].sid \in DOMAIN keys
        /\ call' = [call EXCEPT ![t].key = keys[call[t].sid]]
        /\ GoTo(t, "decrypt")
     \/ /\ call[t].sid \notin DOMAIN keys
        /\ GoTo(t, "rejected")
        /\ UNCHANGED call
  /\ UNCHANGED <<securityPolicy, sessionVars, listVars, countVars>>

\* A packet that does not decrypt (the peer may not have started to encrypt) is passed on.
Decrypt(t) ==
  /\ pc[t] = "decrypt"
  /\ GoTo(t, "decrypted") \/ GoTo(t, "undecrypted")
  /\ UNCHANGED <<securityPolicy, sessionVars, listVars, countVars, call>>

\* The hooked function sends what it was given, or nothing, and returns to the program.
Return(t) ==
  /\ pc[t] \in SendOutcome \cup ReceiveOutcome
  /\ call' = [call EXCEPT ![t] = NoCall]
  /\ GoTo(t, "idle")
  /\ UNCHANGED <<securityPolicy, sessionVars, listVars, countVars>>

PacketToSend(t) ==
  \/ \E c \in Connection : SendLocal(t, c) \/ SnapshotPolicy(t, c)
  \/ CheckNew(t) \/ Expand(t) \/ RecordNew(t)
  \/ LookupOwned(t) \/ LookupUnowned(t)
  \/ FetchKey(t) \/ Encrypt(t)

PacketReceived(t) ==
  \/ \E c \in Arriving, e \in BOOLEAN : RecordIncoming(t, c, e)
  \/ SearchIncoming(t) \/ FetchDecryptKey(t) \/ Decrypt(t)

-----------------------------------------------------------------------------
(* What the COM thread calls *)

\* Mutant: a key of any length is taken.
SetUpAnyKey(id, key) ==
  IF id \in DOMAIN keys THEN UNCHANGED keys ELSE keys' = Put(keys, id, key)

\* setUpEncryptedSession under csKeys: a short key, an id that has a key already and a
\* refusing provider leave the session without a usable key of its own.
SetUpEncryptedSession(id, key) ==
  \/ /\ key \notin WeakKey
     /\ id \notin DOMAIN keys
     /\ keys' = Put(keys, id, key)
  \/ /\ key \in WeakKey \/ id \in DOMAIN keys \/ MayFail
     /\ UNCHANGED keys

\* tearDownEncryptedSession under csKeys: the key stays if the provider refuses.
TearDownEncryptedSession(id) ==
  \/ keys' = Erase(keys, id)
  \/ MayFail /\ UNCHANGED keys

\* Sessions get fresh ids and Surface starts each at most once (Session.h 168, Bottom.cs
\* 735-763), so an id that was added before is not added again.
AddEncryptedSession(id, s) ==
  /\ id \notin started
  /\ encSessions' = Put(encSessions, id, s)
  /\ SetUpEncryptedSession(id, s.key)
  /\ started' = started \cup {id}
  /\ UNCHANGED <<securityPolicy, listVars, countVars, pc, call>>

\* Also called for a session that was never added (see module HookingEngine).
RemoveEncryptedSession(id) ==
  /\ encSessions' = Erase(encSessions, id)
  /\ TearDownEncryptedSession(id)
  /\ UNCHANGED <<securityPolicy, started, listVars, countVars, pc, call>>

SetSecurityPolicy(p) ==
  /\ securityPolicy' = p
  /\ UNCHANGED <<sessionVars, listVars, countVars, pc, call>>

\* Each clears the list that the name of the other one speaks of.
ResetOugoingConnections ==
  /\ openConnectionsReceive' = {}
  /\ UNCHANGED <<securityPolicy, sessionVars, openConnectionsSend, countVars, pc, call>>

ResetIncomingConnections ==
  /\ openConnectionsSend' = {}
  /\ UNCHANGED <<securityPolicy, sessionVars, openConnectionsReceive, countVars, pc, call>>

\* Switching counting on starts from empty counts; switching it off keeps them.
SetCountConnections(enable) ==
  /\ countConnections # enable
  /\ countConnections' = enable
  /\ connectionCounts' = IF enable THEN [i \in Ip |-> 0] ELSE connectionCounts
  /\ UNCHANGED <<securityPolicy, sessionVars, listVars, pc, call>>

ComThread ==
  \/ \E id \in SessionId : RemoveEncryptedSession(id)
                           \/ \E s \in Offered : AddEncryptedSession(id, s)
  \/ \E p \in Policies : SetSecurityPolicy(p)
  \/ ResetOugoingConnections
  \/ ResetIncomingConnections
  \/ \E enable \in BOOLEAN : SetCountConnections(enable)

-----------------------------------------------------------------------------
(* History: what has held in every state since a call began *)

\* A connection is foreign to a call if it was unknown until the call looked it up.
Holding(w, t) ==
  LET c == call[t].conn IN
  CASE w = "tight"   -> securityPolicy = TIGHT /\ Running
    [] w = "foreign" -> /\ securityPolicy >= LOOSE /\ Running
                        /\ pc[t] = "checkNew" => c \notin openConnectionsSend
                        /\ Expandable(c) = {}
    [] w = "open"    -> securityPolicy = VERY_LOOSE /\ OwnersOutgoing(c) = {}
    [] w = "owned"   -> OwnersOutgoing(c) # {}
    [] w = "flowing" -> /\ c \in openConnectionsSend
                        /\ OwnersOutgoing(c) # {}
                        /\ OwnersOutgoing(c) \subseteq DOMAIN keys
    [] w = "ownedIn" -> OwnersIncoming(c) # {}

Watched == {"tight", "foreign", "open", "owned", "flowing", "ownedIn"}
Observed(t) == {w \in Watched : Holding(w, t)}

\* A connection no longer counts as flowing once any of its sessions has ended: the call
\* may have picked that one.
Kept(w, t) == w = "flowing" => OwnersOutgoing(call[t].conn) \subseteq DOMAIN encSessions'

Observe ==
  watch' = [t \in Threads |->
              IF pc'[t] = "idle" THEN {}
              ELSE IF pc[t] = "idle" THEN Observed(t)'
              ELSE {w \in watch[t] \cap Observed(t)' : Kept(w, t)}]

Next ==
  /\ ComThread \/ \E t \in Threads : PacketToSend(t) \/ PacketReceived(t) \/ Return(t)
  /\ Observe

Spec == Init /\ [][Next]_vars

-----------------------------------------------------------------------------
(* Properties *)

TypeOK ==
  /\ securityPolicy \in Policies \cup {TIGHT}
  /\ encSessions \in [DOMAIN encSessions -> Session]
  /\ keys \in [DOMAIN keys -> Key \ WeakKey]
  /\ DOMAIN encSessions \cup DOMAIN keys \subseteq started
  /\ started \subseteq SessionId
  /\ openConnectionsSend \subseteq Connection
  /\ openConnectionsReceive \subseteq Connection
  /\ countConnections \in BOOLEAN
  /\ connectionCounts \in [Ip -> 0..MaxCount]
  /\ pc \in [Threads -> {"idle"} \cup Step \cup SendOutcome \cup ReceiveOutcome]
  /\ call \in [Threads -> Call \cup {NoCall}]
  /\ \A t \in Threads : pc[t] # "idle" => call[t] \in Call
  /\ watch \in [Threads -> SUBSET Watched]

\* "All unencrypted outgoing connections are blocked as long as a secure session is active"
\* (TrafficHandler.h 18): if the policy was TIGHT and sessions ran all the time since
\* packetToSend was called, no unencrypted packet leaves, except to the loopback address.
TightNeverPlain ==
  \A t \in Threads :
    (pc[t] = "plain" /\ call[t].conn.ip # LocalHost) => "tight" \notin watch[t]

\* packetToSend 57-86: under LOOSE or TIGHT a connection that was neither known nor similar
\* to one of an expandable session, all the time a session ran, gets nothing out.
ForeignIsDropped ==
  \A t \in Threads :
    (pc[t] \in {"plain", "cipher"} /\ call[t].conn.ip # LocalHost)
      => "foreign" \notin watch[t]

\* VERY_LOOSE: "No connections are blocked at any time" (TrafficHandler.h 12): a packet of no
\* session is not dropped if that was the policy all the time (TrafficHandler.cpp 57, 101).
VeryLooseBlocksNothing ==
  \A t \in Threads : pc[t] = "dropped" => "open" \notin watch[t]

\* Whatever the policy, a packet of a connection that belonged to a running session all the
\* time never leaves unencrypted: a missing key or a failing provider drops it
\* (TrafficHandler.cpp 95-115, 337-342, 368-377).
OwnedNeverPlain ==
  \A t \in Threads :
    (pc[t] = "plain" /\ call[t].conn.ip # LocalHost) => "owned" \notin watch[t]

\* An established connection of sessions that have their keys is never cut off by the
\* policy, by the starting of other sessions, or by another thread's packets
\* (TrafficHandler.cpp 57, 95, 115).
EstablishedFlows ==
  \A t \in Threads : pc[t] = "dropped" => "flowing" \notin watch[t]

\* The counterpart of OwnedNeverPlain: what comes in on a connection of a session is never
\* handed to the program as if it were an ordinary packet (TrafficHandler.cpp 131-162).
OwnedIncomingIsDecrypted ==
  \A t \in Threads :
    (pc[t] = "raw" /\ ~call[t].empty) => "ownedIn" \notin watch[t]

\* The key found after csGeneric was left is the key of the session found under csGeneric,
\* and that session owns the connection, as long as the session still runs: no packet is
\* encrypted or decrypted with the key of another conversation (cpp 95-115, 131-162, 343).
KeyOfOwner ==
  \A t \in Threads :
    LET id == call[t].sid IN
    pc[t] \in {"cipher", "decrypted"} /\ id \in DOMAIN encSessions =>
      /\ call[t].key = encSessions[id].key
      /\ pc[t] = "cipher" => call[t].conn \in encSessions[id].out
      /\ pc[t] = "decrypted" => id \in OwnersIncoming(call[t].conn)

\* A running session changes only by taking over connections to a host and protocol it
\* already has, and only if it is expandable (cpp 65-79, 132-145).
ExpansionStaysWithPeer ==
  [][\A i \in DOMAIN encSessions \cap DOMAIN encSessions' :
       LET old == encSessions[i]
           new == encSessions'[i]
       IN new # old =>
            /\ old.expand
            /\ new = [old EXCEPT !.out = new.out]
            /\ \A c \in new.out \ old.out : SameProtocol(old.in \cup old.out, c) # {}]_vars

=============================================================================
