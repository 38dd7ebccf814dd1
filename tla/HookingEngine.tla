----------------------------- MODULE HookingEngine -----------------------------
(***************************************************************************)
(* The COM object HookingEngine (Bottom/HookingEngine.cpp) on top of the   *)
(* traffic handler: the container of sessions, the counter of active ones  *)
(* and the stopping of the clock of the target process.                    *)
(*                                                                         *)
(* COM calls come one at a time. startSession and destroySession write     *)
(* globals that hooked functions and the helper threads of stopClock read  *)
(* without a lock: they are cut into steps there. Calls that are refused   *)
(* change nothing and are left out. Of their only caller one thing is      *)
(* assumed: that it starts a session once, in the call that has created it *)
(* (Bottom.cs 735, 763). The engine itself would start it again.           *)
(***************************************************************************)
EXTENDS TrafficHandler

CONSTANTS
  ExpandFlags,  \* what createSession may be called with; Surface passes 1
  Width         \* bits of activeSessions: 32 in the code

\* The third conjunct follows from the second; it is stated for the provers, to which
\* exponentiation means nothing.
ASSUME EngineAssumption ==
  /\ ExpandFlags \subseteq BOOLEAN
  /\ Width \in Nat \ {0}
  /\ 2^Width \in Nat \ {0}

VARIABLES
  sessions,        \* the container: a function on the ids of existing sessions
  index,           \* the last id that was given out
  activeSessions,
  com,             \* the rest of the COM call under way, and its session
  helper,          \* per session: the thread that startSession created to stop the clock
  clockStopped,
  startedWith      \* history: the sessions as they were when startSession was called

engineVars == <<sessions, index, activeSessions, com, helper, clockStopped, startedWith>>
allVars == <<vars, engineVars>>

ComIdle == [step |-> "idle", id |-> 0]
HelperStep == {"none", "sleeping", "checked"}

EngineInit ==
  /\ Init
  /\ sessions = EmptyMap
  /\ index = 0
  /\ activeSessions = 0
  /\ com = ComIdle
  /\ helper = [id \in SessionId |-> "none"]
  /\ clockStopped = FALSE
  /\ startedWith = EmptyMap

-----------------------------------------------------------------------------
(* COM calls *)

\* The container's owners of a connection; the traffic handler's are looked at as well.
OwnedOutgoing(c) == OwnersOutgoing(c) # {} \/ \E i \in DOMAIN sessions : c \in sessions[i].out
OwnedIncoming(c) ==
  \/ \E i \in DOMAIN encSessions : c \in encSessions[i].in
  \/ \E i \in DOMAIN sessions : c \in sessions[i].in

\* Mutant: the id of a destroyed session may be given out again.
CreateSessionReusing(expand) ==
  LET free == SessionId \ DOMAIN sessions IN
  /\ com = ComIdle
  /\ free # {}
  /\ sessions' = Put(sessions, First(free), [in |-> {}, out |-> {}, expand |-> expand, key |-> NoKey])
  /\ UNCHANGED <<vars, index, activeSessions, com, helper, clockStopped, startedWith>>

CreateSession(expand) ==
  /\ com = ComIdle
  /\ index + 1 \in SessionId
  /\ index' = index + 1
  /\ sessions' = Put(sessions, index', [in |-> {}, out |-> {}, expand |-> expand, key |-> NoKey])
  /\ UNCHANGED <<vars, activeSessions, com, helper, clockStopped, startedWith>>

AddConnectionOutgoing(id, c) ==
  /\ com = ComIdle
  /\ id \in DOMAIN sessions
  /\ ~OwnedOutgoing(c)
  /\ sessions' = [sessions EXCEPT ![id].out = @ \cup {c}]
  /\ UNCHANGED <<vars, index, activeSessions, com, helper, clockStopped, startedWith>>

\* Mutant: only running sessions are asked whether they own the connection.
AddConnectionIncomingUnchecked(id, c) ==
  /\ com = ComIdle
  /\ id \in DOMAIN sessions
  /\ \A i \in DOMAIN encSessions : c \notin encSessions[i].in
  /\ sessions' = [sessions EXCEPT ![id].in = @ \cup {c}]
  /\ UNCHANGED <<vars, index, activeSessions, com, helper, clockStopped, startedWith>>

AddConnectionIncoming(id, c) ==
  /\ com = ComIdle
  /\ id \in DOMAIN sessions
  /\ ~OwnedIncoming(c)
  /\ sessions' = [sessions EXCEPT ![id].in = @ \cup {c}]
  /\ UNCHANGED <<vars, index, activeSessions, com, helper, clockStopped, startedWith>>

\* Mutant: the key is not stored.
KeepNoKey(id, k) == UNCHANGED sessions

\* Sessions::setKey keeps a key that is already there.
SetKey(id, k) ==
  sessions' = [sessions EXCEPT ![id].key = IF @ = NoKey THEN k ELSE @]

\* What startSecureChannel sees to.
StartedOnce(id) == id \notin started

\* Mutant: the session is counted only when the traffic handler has it.
StartSessionUncounted(id, k) ==
  /\ com = ComIdle
  /\ id \in DOMAIN sessions
  /\ StartedOnce(id)
  /\ SetKey(id, k)
  /\ startedWith' = Put(startedWith, id, sessions'[id])
  /\ com' = [step |-> "stopClock", id |-> id]
  /\ UNCHANGED <<vars, index, activeSessions, helper, clockStopped>>

StartSession(id, k) ==
  /\ com = ComIdle
  /\ id \in DOMAIN sessions
  /\ StartedOnce(id)
  /\ SetKey(id, k)
  /\ startedWith' = Put(startedWith, id, sessions'[id])
  /\ activeSessions' = (activeSessions + 1) % 2^Width
  /\ com' = [step |-> "stopClock", id |-> id]
  /\ UNCHANGED <<vars, index, helper, clockStopped>>

\* stopClock: unless the clock stands still, create a thread that stops it later.
StopClock ==
  /\ com.step = "stopClock"
  /\ \/ ~clockStopped /\ helper' = [helper EXCEPT ![com.id] = "sleeping"]
     \/ (clockStopped \/ MayFail) /\ UNCHANGED helper
  /\ com' = [com EXCEPT !.step = "add"]
  /\ UNCHANGED <<vars, sessions, index, activeSessions, clockStopped, startedWith>>

\* Mutant: the outgoing connections are lost when the session is copied out of the container.
AddSessionIncomingOnly ==
  /\ com.step = "add"
  /\ AddEncryptedSession(com.id, [sessions[com.id] EXCEPT !.out = {}])
  /\ Observe
  /\ com' = ComIdle
  /\ UNCHANGED <<sessions, index, activeSessions, helper, clockStopped, startedWith>>

AddSession ==
  /\ com.step = "add"
  /\ AddEncryptedSession(com.id, sessions[com.id])
  /\ Observe
  /\ com' = ComIdle
  /\ UNCHANGED <<sessions, index, activeSessions, helper, clockStopped, startedWith>>

\* Mutant: the session goes on running.
DestroySessionOnly(id) ==
  /\ com = ComIdle
  /\ id \in DOMAIN sessions
  /\ com' = [step |-> "countDown", id |-> id]
  /\ UNCHANGED <<vars, sessions, index, activeSessions, helper, clockStopped, startedWith>>

\* Nothing asks whether the session was ever started.
DestroySession(id) ==
  /\ com = ComIdle
  /\ id \in DOMAIN sessions
  /\ RemoveEncryptedSession(id)
  /\ Observe
  /\ com' = [step |-> "countDown", id |-> id]
  /\ UNCHANGED <<sessions, index, activeSessions, helper, clockStopped, startedWith>>

\* The container is used by COM calls alone, so deleteSession needs no step of its own.
DeleteSession ==
  /\ sessions' = Erase(sessions, com.id)
  /\ com' = ComIdle

\* Mutant: the clock is resumed although other sessions are active.
CountDownResuming ==
  /\ com.step = "countDown"
  /\ activeSessions' = (activeSessions - 1) % 2^Width
  /\ com' = [com EXCEPT !.step = "resumeClock"]
  /\ UNCHANGED <<vars, sessions, index, helper, clockStopped, startedWith>>

CountDown ==
  /\ com.step = "countDown"
  /\ activeSessions' = (activeSessions - 1) % 2^Width
  /\ IF activeSessions' = 0
       THEN com' = [com EXCEPT !.step = "resumeClock"] /\ UNCHANGED sessions
       ELSE DeleteSession
  /\ UNCHANGED <<vars, index, helper, clockStopped, startedWith>>

ResumeClock ==
  /\ com.step = "resumeClock"
  /\ clockStopped' = FALSE
  /\ DeleteSession
  /\ UNCHANGED <<vars, index, activeSessions, helper, startedWith>>

\* The calls that end under one lock of the traffic handler.
OtherCall ==
  /\ com = ComIdle
  /\ \/ \E p \in Policies : SetSecurityPolicy(p)
     \/ \E enable \in BOOLEAN : SetCountConnections(enable)
  /\ Observe
  /\ UNCHANGED engineVars

ResetConnections ==
  /\ com = ComIdle
  /\ ResetIncomingConnections
  /\ Observe
  /\ com' = [ComIdle EXCEPT !.step = "reset"]
  /\ UNCHANGED <<sessions, index, activeSessions, helper, clockStopped, startedWith>>

ResetTheOther ==
  /\ com.step = "reset"
  /\ ResetOugoingConnections
  /\ Observe
  /\ com' = ComIdle
  /\ UNCHANGED <<sessions, index, activeSessions, helper, clockStopped, startedWith>>

-----------------------------------------------------------------------------
(* The helper threads *)

\* The thread wakes up after its delay; without a session there is nothing to do.
HelperCheck(id) ==
  /\ helper[id] = "sleeping"
  /\ helper' = [helper EXCEPT ![id] = IF activeSessions > 0 THEN "checked" ELSE "none"]
  /\ UNCHANGED <<vars, sessions, index, activeSessions, com, clockStopped, startedWith>>

HelperStopClock(id) ==
  /\ helper[id] = "checked"
  /\ helper' = [helper EXCEPT ![id] = "none"]
  /\ clockStopped' = TRUE
  /\ UNCHANGED <<vars, sessions, index, activeSessions, com, startedWith>>

\* myConnectEx lets the call through.
ConnectExPasses == ~(activeSessions > 0)

-----------------------------------------------------------------------------
HelperThread(id) == HelperCheck(id) \/ HelperStopClock(id)

ComContinues ==
  StopClock \/ AddSession \/ CountDown \/ ResumeClock \/ ResetTheOther

ComCall ==
  \/ \E e \in ExpandFlags : CreateSession(e)
  \/ \E id \in SessionId, c \in Connection :
       AddConnectionOutgoing(id, c) \/ AddConnectionIncoming(id, c)
  \/ \E id \in SessionId, k \in Key : StartSession(id, k)
  \/ \E id \in SessionId : DestroySession(id)
  \/ ResetConnections \/ OtherCall

TargetThread ==
  /\ \E t \in Threads : PacketToSend(t) \/ PacketReceived(t) \/ Return(t)
  /\ Observe
  /\ UNCHANGED engineVars

EngineNext ==
  \/ ComCall \/ ComContinues \/ TargetThread
  \/ \E id \in SessionId : HelperThread(id)

EngineSpec == EngineInit /\ [][EngineNext]_allVars

\* A COM call that began ends, and a thread that was created runs and wakes up: both are
\* left to the scheduler. Nobody has to make a COM call.
FairEngineSpec ==
  /\ EngineSpec
  /\ WF_allVars(ComContinues)
  /\ \A id \in SessionId : WF_allVars(HelperThread(id))

-----------------------------------------------------------------------------
(* Properties *)

EngineTypeOK ==
  /\ TypeOK
  /\ sessions \in [DOMAIN sessions ->
       [in : SUBSET Connection, out : SUBSET Connection, expand : BOOLEAN, key : Key \cup {NoKey}]]
  /\ index \in SessionId \cup {0}
  /\ DOMAIN sessions \cup started \subseteq 1..index
  /\ activeSessions \in 0..(2^Width - 1)
  /\ com \in [step : {"idle", "stopClock", "add", "countDown", "resumeClock", "reset"},
              id : SessionId \cup {0}]
  /\ helper \in [SessionId -> HelperStep]
  /\ clockStopped \in BOOLEAN

\* A session runs only while the container has it, with the container's key, with just the
\* incoming connections that were added before it was started, and with all the outgoing
\* ones, whatever it took over since. None survives destroySession under an id that nobody
\* can name any more (HookingEngine.cpp 1239-1251, 1278-1285).
RunningIsKnown ==
  \A id \in DOMAIN encSessions :
    /\ id \in DOMAIN sessions \cap DOMAIN startedWith
    /\ encSessions[id].key = sessions[id].key
    /\ encSessions[id].in = startedWith[id].in
    /\ startedWith[id].out \subseteq encSessions[id].out

\* No two sessions share an incoming connection, started or not: what is received has one
\* key to be decrypted with (cpp 1161-1178, Session.h 268-282).
IncomingIsExclusive ==
  \A i, j \in DOMAIN sessions : i # j => sessions[i].in \cap sessions[j].in = {}

\* The sessions that were destroyed without ever being started: startSecureChannel failed
\* before its last call, and close destroys the session all the same (Bottom.cs 735-766, 1037).
GivenUp ==
  {id \in 1..index \ started :
     id \in DOMAIN sessions => com.step \in {"countDown", "resumeClock"} /\ com.id = id}

\* ConnectEx is blocked while more sessions run than set-ups were given up before, at every
\* step of starting or ending one: each that was given up makes activeSessions one too small
\* (HookingEngine.cpp 1279), nothing else does.
ConnectExIsBlocked ==
  Cardinality(DOMAIN encSessions) > Cardinality(GivenUp) => ~ConnectExPasses

\* "do not allow ConnectEx if we an active session" (HookingEngine.cpp 815). Violated once a
\* set-up was given up while another session ran.
NoConnectExWhileRunning == Running => ~ConnectExPasses

\* The clock is stopped some time after a session was started, unless no session is left by
\* then, whichever sessions start and end meanwhile (cpp 148-172, 1250); once a set-up was
\* given up the helper threads may find the counter at 0.
ClockStopsEventually == Running ~> (clockStopped \/ ~Running \/ GivenUp # {})

\* The engine uses the traffic handler as module TrafficHandler assumes: it hands over whole
\* sessions with a key, each id once, so what is shown there holds under the engine.
Handler == INSTANCE TrafficHandler WITH Offered <- Session
UsesTrafficHandler == Handler!Spec

=============================================================================
