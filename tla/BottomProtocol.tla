---- MODULE BottomProtocol ----
(****************************************************************************)
(* One run of the Bottom protocol between the two Bottom instances of a     *)
(* call: BottomProtocol.cs (the states) and SessionExternalComm of          *)
(* Bottom.cs (what the states call).  The peers exchange their lists of     *)
(* open connections, select the channels of the call, compare selections    *)
(* and confirm; whoever receives the confirmation secures the channels by a *)
(* sequence of calls to the hooking engine.                                 *)
(*                                                                          *)
(* Messages are handled one at a time, but the end of the call arrives on   *)
(* another thread and closes the instance without taking its lock.          *)
(****************************************************************************)
EXTENDS PortMatching, Sequences

CONSTANTS
  Peer,        \* the two ends of the call
  Caller,      \* the one that started the Surface protocol: the primary actor
  OpenLists,   \* OpenLists[p]: the open connections the engine of p may report
  MayLose,     \* messages are lost (encryption or decryption of one failed)
  MayFail,     \* the engine refuses a request
  None         \* a value that was not set

ASSUME PeersAssumption ==
  /\ \E p, q \in Peer : p # q /\ Peer = {p, q}
  /\ Caller \in Peer /\ None \notin Peer
ASSUME ListsAssumption == \A p \in Peer : \A lists \in OpenLists[p] : IsLists(lists)
ASSUME FaultsAssumption == MayLose \in BOOLEAN /\ MayFail \in BOOLEAN

VARIABLES
  state,        \* of the protocol run
  running,      \* the run takes part in the protocol
  surface,      \* whether Surface hands received messages to this instance
  gotKey,       \* gotSessionKey
  own,          \* ownConnectionsIncoming and -Outgoing
  theirs,       \* peerConnectionsListsRaw
  theirMatches, \* peerMatchesRaw
  channels,     \* channelsToEncrypt
  net,          \* net[p]: the messages on their way to p
  current,      \* the message being handled
  todo,         \* startSecureChannel: the connections still to be added
  step,         \* startSecureChannel: the next call to the engine
  session,      \* the session in the engine
  closed,       \* close was called
  lost          \* some message was lost

protocolVars == <<state, running, own, theirs, theirMatches, channels>>
secureVars == <<todo, step, session>>
vars == <<protocolVars, secureVars, surface, gotKey, net, current, closed, lost>>

Other(p) == CHOOSE q \in Peer : q # p

States == {"Start", "WaitingForConnectionsList", "FindMatches", "WaitForMatches",
           "CompareMatches", "WaitForConfirmation"}

NoSession == [status |-> "none", in |-> {}, out |-> {}]

Init ==
  /\ state = [p \in Peer |-> "Start"]
  /\ running = [p \in Peer |-> TRUE]
  /\ surface = [p \in Peer |-> "notYet"]
  /\ gotKey = [p \in Peer |-> FALSE]
  /\ own = [p \in Peer |-> None]
  /\ theirs = [p \in Peer |-> None]
  /\ theirMatches = [p \in Peer |-> None]
  /\ channels = [p \in Peer |-> None]
  /\ net = [p \in Peer |-> <<>>]
  /\ current = [p \in Peer |-> None]
  /\ todo = [p \in Peer |-> {}]
  /\ step = [p \in Peer |-> "idle"]
  /\ session = [p \in Peer |-> NoSession]
  /\ closed = [p \in Peer |-> FALSE]
  /\ lost = FALSE
----
Send(p, messages) ==
  /\ net' = [net EXCEPT ![Other(p)] = @ \o messages]
  /\ UNCHANGED lost

SendNothing == UNCHANGED <<net, lost>>

(* The setters of the run's data only take the first value. *)
Once(f, p, value) == IF f[p] = None THEN [f EXCEPT ![p] = value] ELSE f

(* A mutant: the run goes on.                                               *)
KeepRunning(p) == UNCHANGED running

TearDown(p) == running' = [running EXCEPT ![p] = FALSE]

ChangeState(p, s) == state' = [state EXCEPT ![p] = s]

InvalidMessage(p) == TearDown(p) /\ UNCHANGED <<state, own, channels>> /\ SendNothing

ConnectionsMessage(type, lists, replacement) ==
  [type |-> type, lists |-> AnonymousLists(lists, replacement)]

MatchesMessage(selection) == [type |-> "Matches", in |-> selection.in, out |-> selection.out]

Simple(type) == [type |-> type]

(* FindMatches.Instance, after the messages "before" were sent: own and     *)
(* peer connections are compared; without a selection the run is aborted.   *)
(* If the comparison throws nothing changes, and the peer's abort ends it.  *)
FindMatches(p, lists, peerLists, before) ==
  IF SelectionThrows(lists, peerLists)
  THEN Send(p, before) /\ UNCHANGED <<state, running, channels>>
  ELSE IF Selects(lists, peerLists)
  THEN LET selection == Selection(lists, peerLists)
       IN  /\ channels' = Once(channels, p, selection)
           /\ Send(p, before \o <<MatchesMessage(channels'[p])>>)
           /\ ChangeState(p, "WaitForMatches")
           /\ UNCHANGED running
  ELSE /\ Send(p, before \o <<Simple("Abort")>>)
       /\ ChangeState(p, "FindMatches")
       /\ TearDown(p)
       /\ UNCHANGED channels
----
(* encrypt, called by Surface when it starts routing, perhaps after the call*)
(* has ended (then no message is handed over any more).  The primary actor  *)
(* starts the run and sends its connections with the request.  Without a    *)
(* session key encrypt is never called, yet Surface routes.                 *)
Encrypt(p) ==
  /\ surface[p] = "notYet"
  /\ surface' = [surface EXCEPT ![p] = IF closed[p] THEN "over" ELSE "routing"]
  /\ gotKey' = [gotKey EXCEPT ![p] = TRUE]
  /\ IF p # Caller
     THEN UNCHANGED <<protocolVars, net, lost>>
     ELSE \E lists \in OpenLists[p] :
            /\ own' = Once(own, p, Synced(lists))
            /\ \E r \in Replacements(own'[p]) :
                 Send(p, <<ConnectionsMessage("RequestConnections", own'[p], r)>>)
            /\ ChangeState(p, "WaitingForConnectionsList")
            /\ UNCHANGED <<running, theirs, theirMatches, channels>>
  /\ UNCHANGED <<secureVars, current, closed>>

RouteWithoutKey(p) ==
  /\ MayFail /\ surface[p] = "notYet" /\ ~closed[p]
  /\ surface' = [surface EXCEPT ![p] = "routing"]
  /\ UNCHANGED <<protocolVars, secureVars, gotKey, net, current, closed, lost>>

(* Surface hands over the next message; the lock of the session is free.    *)
Deploy(p) ==
  /\ surface[p] = "routing" /\ net[p] # <<>>
  /\ current[p] = None /\ step[p] = "idle"
  /\ current' = [current EXCEPT ![p] = Head(net[p])]
  /\ net' = [net EXCEPT ![p] = Tail(@)]
  /\ UNCHANGED <<protocolVars, secureVars, surface, gotKey, closed, lost>>

(* A message that could not be encrypted, or not be decrypted by the peer,  *)
(* is never handled; the ones behind it are.                                *)
Lose(p) ==
  /\ MayLose /\ net[p] # <<>>
  /\ net' = [net EXCEPT ![p] = Tail(@)]
  /\ lost' = TRUE
  /\ UNCHANGED <<protocolVars, secureVars, surface, gotKey, current, closed>>

Handling(p, type) ==
  /\ current[p] # None /\ current[p].type = type
  /\ current' = [current EXCEPT ![p] = None]
  /\ UNCHANGED <<surface, gotKey, closed>>

Ignored(p) == ~running[p] /\ UNCHANGED <<running, state, own, channels>> /\ SendNothing

(* messageReceived of RequestConnections: the second peer answers with its  *)
(* connections and looks for matches.                                       *)
RequestConnectionsReceived(p) ==
  /\ Handling(p, "RequestConnections")
  /\ theirs' = Once(theirs, p, current[p].lists)
  /\ \/ Ignored(p)
     \/ /\ running[p] /\ state[p] # "Start"
        /\ InvalidMessage(p)
     \/ /\ running[p] /\ state[p] = "Start"
        /\ \E lists \in OpenLists[p] : own' = Once(own, p, Synced(lists))
        /\ \E r \in Replacements(own'[p]) :
             FindMatches(p, own'[p], theirs'[p],
                         <<ConnectionsMessage("MyConnections", own'[p], r)>>)
  /\ UNCHANGED <<theirMatches, secureVars>>

MyConnectionsReceived(p) ==
  /\ Handling(p, "MyConnections")
  /\ theirs' = Once(theirs, p, current[p].lists)
  /\ \/ Ignored(p)
     \/ /\ running[p] /\ state[p] # "WaitingForConnectionsList"
        /\ InvalidMessage(p)
     \/ /\ running[p] /\ state[p] = "WaitingForConnectionsList"
        /\ FindMatches(p, own[p], theirs'[p], <<>>)
        /\ UNCHANGED own
  /\ UNCHANGED <<theirMatches, secureVars>>

(* Mutants: the secure channel is started without the peer's confirmation;  *)
(* the confirmation is not sent.                                            *)
MatchesReceivedStarting(p) ==
  /\ Handling(p, "Matches")
  /\ theirMatches' = Once(theirMatches, p, [in |-> current[p].in, out |-> current[p].out])
  /\ IF running[p] /\ state[p] = "WaitForMatches"
     THEN /\ Send(p, <<Simple("Confirm")>>)
          /\ ChangeState(p, "WaitForConfirmation")
          /\ TearDown(p)
          /\ step' = IF gotKey[p] THEN [step EXCEPT ![p] = "create"] ELSE step
     ELSE SendNothing /\ UNCHANGED <<state, running, step>>
  /\ UNCHANGED <<own, theirs, channels, todo, session>>

MatchesReceivedSilently(p) ==
  /\ Handling(p, "Matches")
  /\ theirMatches' = Once(theirMatches, p, [in |-> current[p].in, out |-> current[p].out])
  /\ IF running[p] /\ state[p] = "WaitForMatches"
     THEN ChangeState(p, "WaitForConfirmation")
     ELSE UNCHANGED state
  /\ SendNothing
  /\ UNCHANGED <<running, own, theirs, channels, secureVars>>

(* CompareMatches.Instance: the received matches must mirror the own ones.  *)
MatchesReceived(p) ==
  /\ Handling(p, "Matches")
  /\ theirMatches' = Once(theirMatches, p, [in |-> current[p].in, out |-> current[p].out])
  /\ \/ Ignored(p)
     \/ /\ running[p] /\ state[p] # "WaitForMatches"
        /\ InvalidMessage(p)
     \/ /\ running[p] /\ state[p] = "WaitForMatches"
        /\ IF AcceptsMatches(channels[p], theirMatches'[p])
           THEN /\ Send(p, <<Simple("Confirm")>>)
                /\ ChangeState(p, "WaitForConfirmation")
                /\ UNCHANGED running
           ELSE /\ Send(p, <<Simple("Abort")>>)
                /\ ChangeState(p, "CompareMatches")
                /\ TearDown(p)
        /\ UNCHANGED <<own, channels>>
  /\ UNCHANGED <<theirs, secureVars>>

(* The confirmation ends the run and starts the secure channel, if there is *)
(* a key: startSecureChannel goes on in the actions below.                  *)
ConfirmReceived(p) ==
  /\ Handling(p, "Confirm")
  /\ \/ Ignored(p) /\ UNCHANGED step
     \/ /\ running[p] /\ state[p] # "WaitForConfirmation"
        /\ InvalidMessage(p) /\ UNCHANGED step
     \/ /\ running[p] /\ state[p] = "WaitForConfirmation"
        /\ TearDown(p)
        /\ step' = IF gotKey[p] THEN [step EXCEPT ![p] = "create"] ELSE step
        /\ UNCHANGED <<state, own, channels>> /\ SendNothing
  /\ UNCHANGED <<theirs, theirMatches, todo, session>>

AbortReceived(p) ==
  /\ Handling(p, "Abort")
  /\ \/ Ignored(p)
     \/ running[p] /\ InvalidMessage(p)
  /\ UNCHANGED <<theirs, theirMatches, secureVars>>
----
(* startSecureChannel: one call to the engine after the other.  A refused   *)
(* call throws and leaves the session as it is.                             *)
Calling(p, s) ==
  /\ step[p] = s
  /\ UNCHANGED <<protocolVars, surface, gotKey, net, current, closed, lost>>

Exists(p) == session[p].status \in {"created", "running"}

Throw(p) ==
  /\ MayFail \/ ~Exists(p)
  /\ step' = [step EXCEPT ![p] = "idle"]
  /\ todo' = [todo EXCEPT ![p] = {}]
  /\ UNCHANGED session

CreateSession(p) ==
  /\ Calling(p, "create")
  /\ session' = [session EXCEPT ![p] = [NoSession EXCEPT !.status = "created"]]
  /\ todo' = [todo EXCEPT ![p] = channels[p].in]
  /\ step' = [step EXCEPT ![p] = "incoming"]

(* A mutant: a refused call is ignored and the next one made.               *)
AddIncomingIgnoringRefusal(p) ==
  /\ Calling(p, "incoming")
  /\ Exists(p)
  /\ \E ch \in todo[p], accepted \in BOOLEAN :
       /\ session' = [session EXCEPT ![p].in = IF accepted THEN @ \cup {ch} ELSE @]
       /\ IF todo[p] = {ch}
          THEN /\ todo' = [todo EXCEPT ![p] = channels[p].out]
               /\ step' = [step EXCEPT ![p] = "outgoing"]
          ELSE /\ todo' = [todo EXCEPT ![p] = @ \ {ch}]
               /\ UNCHANGED step

AddIncoming(p) ==
  /\ Calling(p, "incoming")
  /\ \/ Throw(p)
     \/ /\ Exists(p)
        /\ \E ch \in todo[p] :
             /\ session' = [session EXCEPT ![p].in = @ \cup {ch}]
             /\ IF todo[p] = {ch}
                THEN /\ todo' = [todo EXCEPT ![p] = channels[p].out]
                     /\ step' = [step EXCEPT ![p] = "outgoing"]
                ELSE /\ todo' = [todo EXCEPT ![p] = @ \ {ch}]
                     /\ UNCHANGED step

AddOutgoing(p) ==
  /\ Calling(p, "outgoing")
  /\ \/ Throw(p)
     \/ /\ Exists(p)
        /\ \E ch \in todo[p] :
             /\ session' = [session EXCEPT ![p].out = @ \cup {ch}]
             /\ todo' = [todo EXCEPT ![p] = @ \ {ch}]
             /\ step' = IF todo[p] = {ch} THEN [step EXCEPT ![p] = "start"] ELSE step

StartSession(p) ==
  /\ Calling(p, "start")
  /\ \/ Throw(p)
     \/ /\ Exists(p)
        /\ session' = [session EXCEPT ![p].status = "running"]
        /\ step' = [step EXCEPT ![p] = "idle"]
        /\ UNCHANGED todo

(* close, when Surface ends the session: the last session that was created  *)
(* is destroyed.  It may come while a message is being handled.             *)
Close(p) ==
  /\ closed' = [closed EXCEPT ![p] = TRUE]
  /\ surface' = IF surface[p] = "routing" THEN [surface EXCEPT ![p] = "over"] ELSE surface
  /\ session' = IF Exists(p) THEN [session EXCEPT ![p] = NoSession] ELSE session
  /\ UNCHANGED <<protocolVars, gotKey, net, current, todo, step, lost>>
----
Handle(p) ==
  \/ RequestConnectionsReceived(p)
  \/ MyConnectionsReceived(p)
  \/ MatchesReceived(p)
  \/ ConfirmReceived(p)
  \/ AbortReceived(p)

SecureChannel(p) ==
  \/ CreateSession(p)
  \/ AddIncoming(p)
  \/ AddOutgoing(p)
  \/ StartSession(p)

Next ==
  \E p \in Peer :
    \/ Encrypt(p) \/ RouteWithoutKey(p) \/ Deploy(p) \/ Lose(p)
    \/ Handle(p)
    \/ SecureChannel(p)
    \/ Close(p)

Spec == Init /\ [][Next]_vars

(* The threads that handle messages are scheduled and the calls return.     *)
Fairness ==
  \A p \in Peer :
    /\ WF_vars(Encrypt(p)) /\ WF_vars(Deploy(p)) /\ WF_vars(Handle(p))
    /\ WF_vars(SecureChannel(p))

FairSpec == Spec /\ Fairness
----
(* Every variable holds a value of its kind; what a run has selected and    *)
(* what it got is there whenever its state says so.                         *)
TypeOK ==
  /\ state \in [Peer -> States]
  /\ running \in [Peer -> BOOLEAN] /\ surface \in [Peer -> {"notYet", "routing", "over"}]
  /\ gotKey \in [Peer -> BOOLEAN] /\ closed \in [Peer -> BOOLEAN] /\ lost \in BOOLEAN
  /\ step \in [Peer -> {"idle", "create", "incoming", "outgoing", "start"}]
  /\ \A p \in Peer :
       /\ session[p].status \in {"none", "created", "running"}
       /\ state[p] # "Start" => own[p] # None
       /\ state[p] \in {"WaitForMatches", "CompareMatches", "WaitForConfirmation"}
            => theirs[p] # None /\ channels[p] # None
       /\ state[p] \in {"CompareMatches", "WaitForConfirmation"} => theirMatches[p] # None
       /\ step[p] # "idle" => state[p] = "WaitForConfirmation" /\ ~running[p]

(* Both peers select from the same two lists, each seeing the other's with  *)
(* placeholders only, so the comparison of the selections never fails: a    *)
(* run is never aborted in CompareMatches.                                  *)
ComparisonNeverFails == \A p \in Peer : state[p] # "CompareMatches"

(* A session that encrypts has all the channels of the selection, in both   *)
(* directions, whatever the order of the calls that built it and however    *)
(* the end of the call or a refused call cut into them: half a session is   *)
(* never started.                                                           *)
RunningIsComplete ==
  \A p \in Peer : session[p].status = "running" =>
    /\ session[p].in = channels[p].in
    /\ session[p].out = channels[p].out

(* What the peers promise each other: a peer secures channels only after    *)
(* both agreed on them.                                                     *)
Agreement == INSTANCE ChannelAgreement WITH
  agreed <- [p \in Peer |-> IF state[p] = "WaitForConfirmation"
                            THEN [in |-> channels[p].in, out |-> channels[p].out] ELSE None],
  secured <- [p \in Peer |-> IF session[p].status = "running"
                             THEN [in |-> session[p].in, out |-> session[p].out] ELSE None]

ImplementsAgreement == Agreement!Spec

(* If the call stays up, both peers got a key, no message is lost and the   *)
(* engine refuses nothing, a run does not get stuck: both peers secure their*)
(* channels, or both give up because the lists select none.                 *)
Refused(p) == session[p].status = "created" /\ step[p] = "idle"

Disturbed == lost \/ \E p \in Peer : closed[p] \/ (surface[p] = "routing" /\ ~gotKey[p]) \/ Refused(p)

BothOrNone ==
  <>(\/ Disturbed
     \/ \A p \in Peer : session[p].status = "running"
     \/ \A p \in Peer : ~running[p] /\ channels[p] = None)

(* "Closes the connection": once the call has ended and no call to the      *)
(* engine is under way, no session encrypts.                                *)
ClosedIsDestroyed ==
  \A p \in Peer : closed[p] /\ step[p] = "idle" => session[p].status # "running"
====
