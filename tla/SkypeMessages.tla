---- MODULE SkypeMessages ----
(****************************************************************************)
(* How Surface messages come out of Skype's chat (SkypeCommProvider.cs).    *)
(* Every event about a received chat message makes the provider walk over   *)
(* the history of the sender for messages it does not know yet; a message   *)
(* goes to the handler registered for its sender or is kept for one to come.*)
(* The call events of Core.cs register the handlers: a new session first    *)
(* gets the SYN messages that were kept for it.                             *)
(*                                                                          *)
(* Events run on threads of Skype's.  The lock of the provider admits one   *)
(* message event at a time, the lock of Core.activeCalls one call event, so *)
(* there is at most one of each kind; the two interleave, and wait for each *)
(* other through the locks of the provider, of the kept messages and of the *)
(* session.                                                                 *)
(****************************************************************************)
EXTENDS Naturals, FiniteSets, Sequences, SequencesExt

CONSTANTS
  Sender,        \* the partners of this instance
  Sent,          \* Sent[s]: the kinds of the chat messages s sends, by id
  MaxUndeployed, \* maxUndeployedMessages
  MaxCalls       \* bound on the calls with a partner

Kinds == {"Syn", "Other", "Chat"}  \* "Chat" is no valid Surface message
EventsPerMessage == 2              \* cmsReceived and cmsRead

ASSUME SentAssumption == \A s \in Sender : Sent[s] \in Seq(Kinds)
ASSUME CacheAssumption == MaxUndeployed \in Nat \ {0}
ASSUME CallsAssumption == MaxCalls \in Nat

VARIABLES
  arrived,    \* arrived[s]: how many messages of s Skype has in its history
  fired,      \* fired[m]: how many events about m were handled or begun
  first,      \* firstMessages; 0 before the first event
  known,      \* knownMessages
  undeployed, \* undeployedMessages
  handlers,   \* surfaceSpecificMessageHandlers: the session of s, 0 if none
  event,      \* the message event that holds the provider's lock
  call,       \* the call event that holds the lock of activeCalls
  active,     \* activeCalls
  delivered,  \* delivered[s]: what was handed to handlers, in order
  dropped     \* messages that had to make room, or came behind one that threw

vars == <<arrived, fired, first, known, undeployed, handlers, event, call,
          active, delivered, dropped>>

Message == UNION {{s} \X DOMAIN Sent[s] : s \in Sender}

From(m) == m[1]
Kind(m) == Sent[m[1]][m[2]]

NoEvent == [at |-> "idle", batch |-> <<>>]
NoCall == [at |-> "idle"]

Init ==
  /\ arrived = [s \in Sender |-> 0]
  /\ fired = [m \in Message |-> 0]
  /\ first = [s \in Sender |-> 0]
  /\ known = {}
  /\ undeployed = <<>>
  /\ handlers = [s \in Sender |-> 0]
  /\ event = NoEvent
  /\ call = NoCall
  /\ active = {}
  /\ delivered = [s \in Sender |-> <<>>]
  /\ dropped = {}
----
(* A chat message of s reaches this instance of Skype.                      *)
Arrive(s) ==
  /\ arrived[s] < Len(Sent[s])
  /\ arrived' = [arrived EXCEPT ![s] = @ + 1]
  /\ UNCHANGED <<fired, first, known, undeployed, handlers, event, call, active,
                 delivered, dropped>>

(* A mutant: the walk stops before the first message of this session.       *)
AfterFirst(s, from) == {<<s, i>> : i \in (from + 1)..arrived[s]} \ known

(* The messages of s in the history, from the first of this session on, that*)
(* are not known yet.                                                       *)
New(s, from) == {<<s, i>> : i \in from..arrived[s]} \ known

Queues(messages) == {q \in [1..Cardinality(messages) -> messages] : ToSet(q) = messages}

(* A mutant: they are looked at as the history is walked, the newest first. *)
NewestFirst(messages) ==
  {q \in Queues(messages) : \A i, j \in DOMAIN q : i < j => q[i][2] > q[j][2]}

(* srfMsgsToProcess is a stack: what the walk met last comes first.         *)
OldestFirst(messages) ==
  {q \in Queues(messages) : \A i, j \in DOMAIN q : i < j => q[i][2] < q[j][2]}

(* onSkypeMessageStatus with its lock, up to the messages to be processed.  *)
MessageStatus(m) ==
  LET s == From(m)
      new == New(s, first'[s])
  IN  /\ event.at = "idle"
      /\ m[2] <= arrived[s] /\ fired[m] < EventsPerMessage
      /\ fired' = [fired EXCEPT ![m] = @ + 1]
      /\ first' = IF first[s] = 0 THEN [first EXCEPT ![s] = m[2]] ELSE first
      /\ known' = known \cup new
      /\ \E batch \in OldestFirst({n \in new : Kind(n) # "Chat"}) :
           event' = [at |-> "next", batch |-> batch]
      /\ UNCHANGED <<arrived, undeployed, handlers, call, active, delivered, dropped>>

EventStep(at) ==
  /\ event.at = at
  /\ UNCHANGED <<arrived, fired, first, known, handlers, call, active>>

(* Whether a handler is there is asked once, what is done about it later.   *)
LookForHandler ==
  /\ EventStep("next")
  /\ event.batch # <<>>
  /\ event' = [event EXCEPT !.at = IF handlers[From(Head(event.batch))] # 0
                                   THEN "deploy" ELSE "keep"]
  /\ UNCHANGED <<undeployed, delivered, dropped>>

HoldsSession(s) == call.at = "reply" /\ call.from = s

HandOver(m, kept) ==
  delivered' = [delivered EXCEPT ![From(m)] =
                  Append(@, [id |-> m[2], session |-> handlers[From(m)], kept |-> kept])]

(* The handler locks the session.  What it sends needs the provider's lock, *)
(* which this event holds.  A Bottom message may make it throw, and then the*)
(* rest of the messages is not looked at any more.                          *)
Deploy ==
  /\ EventStep("deploy")
  /\ ~HoldsSession(From(Head(event.batch)))
  /\ HandOver(Head(event.batch), FALSE)
  /\ \/ /\ event' = [at |-> "next", batch |-> Tail(event.batch)]
        /\ UNCHANGED dropped
     \/ /\ Kind(Head(event.batch)) = "Other"
        /\ event' = NoEvent
        /\ dropped' = dropped \cup ToSet(Tail(event.batch))
  /\ UNCHANGED undeployed

(* A mutant: the lock is kept until the call was started.                   *)
HoldsUndeployedTooLong == call.at \in {"walk", "reply", "start"}

HoldsUndeployed == call.at \in {"walk", "reply"}

(* A mutant: one more message than allowed is kept.                         *)
KeepOneTooMany ==
  /\ EventStep("keep")
  /\ ~HoldsUndeployed
  /\ LET full == Len(undeployed) > MaxUndeployed
     IN  /\ undeployed' = Append(IF full THEN Tail(undeployed) ELSE undeployed, Head(event.batch))
         /\ dropped' = IF full THEN dropped \cup {Head(undeployed)} ELSE dropped
  /\ event' = [at |-> "next", batch |-> Tail(event.batch)]
  /\ UNCHANGED delivered

Keep ==
  /\ EventStep("keep")
  /\ ~HoldsUndeployed
  /\ LET full == Len(undeployed) >= MaxUndeployed
     IN  /\ undeployed' = Append(IF full THEN Tail(undeployed) ELSE undeployed, Head(event.batch))
         /\ dropped' = IF full THEN dropped \cup {Head(undeployed)} ELSE dropped
  /\ event' = [at |-> "next", batch |-> Tail(event.batch)]
  /\ UNCHANGED delivered

Leave ==
  /\ EventStep("next")
  /\ event.batch = <<>>
  /\ event' = NoEvent
  /\ UNCHANGED <<undeployed, delivered, dropped>>
----
CallStep(at) ==
  /\ call.at = at
  /\ UNCHANGED <<arrived, fired, first, known, event, dropped>>

(* onNewCall: unless a call with the partner is under way a session is      *)
(* created, which registers its handler.                                    *)
NewCall(s, outgoing) ==
  /\ CallStep("idle")
  /\ s \notin active /\ handlers[s] < MaxCalls
  /\ handlers' = [handlers EXCEPT ![s] = @ + 1]
  /\ call' = [at |-> "process", from |-> s, outgoing |-> outgoing]
  /\ UNCHANGED <<undeployed, active, delivered>>

(* processUndeployedMessages takes the lock of the kept messages.           *)
ProcessUndeployed ==
  /\ CallStep("process")
  /\ call' = [call EXCEPT !.at = "walk"]
  /\ UNCHANGED <<undeployed, handlers, active, delivered>>

(* Where the SYN messages of s are kept, and the first such place.          *)
Pending(s) == {i \in DOMAIN undeployed : From(undeployed[i]) = s /\ Kind(undeployed[i]) = "Syn"}

IsNext(i) == i \in Pending(call.from) /\ \A j \in Pending(call.from) : i <= j

(* A mutant: the kept message is not taken out.                             *)
DeployKeptAgain ==
  /\ CallStep("walk")
  /\ \E i \in DOMAIN undeployed : IsNext(i) /\ HandOver(undeployed[i], TRUE)
  /\ call' = [call EXCEPT !.at = "reply"]
  /\ UNCHANGED <<undeployed, handlers, active>>

(* One kept SYN goes to the new session, whose lock it takes and which may  *)
(* answer.                                                                  *)
DeployKept ==
  /\ CallStep("walk")
  /\ \E i \in DOMAIN undeployed :
       /\ IsNext(i)
       /\ HandOver(undeployed[i], TRUE)
       /\ undeployed' = RemoveAt(undeployed, i)
  /\ call' \in {[call EXCEPT !.at = "reply"], call}
  /\ UNCHANGED <<handlers, active>>

(* sendMessage takes the provider's lock, here still with the locks of the  *)
(* session and of the kept messages.                                        *)
Reply ==
  /\ CallStep("reply")
  /\ event.at = "idle"
  /\ call' = [call EXCEPT !.at = "walk"]
  /\ UNCHANGED <<undeployed, handlers, active, delivered>>

EndProcess ==
  /\ CallStep("walk")
  /\ Pending(call.from) = {}
  /\ call' = [call EXCEPT !.at = "start"]
  /\ UNCHANGED <<undeployed, handlers, active, delivered>>

(* The rest of onNewCall: an outgoing call sends a SYN, and the call is an  *)
(* active one.                                                              *)
Start ==
  /\ CallStep("start")
  /\ call.outgoing => event.at = "idle"
  /\ active' = active \cup {call.from}
  /\ call' = NoCall
  /\ UNCHANGED <<undeployed, handlers, delivered>>

(* onEndCall.  The handler of the ended session stays where it is.          *)
EndCall(s) ==
  /\ CallStep("idle")
  /\ s \in active
  /\ active' = active \ {s}
  /\ UNCHANGED <<undeployed, handlers, call, delivered>>
----
HandleEvent == LookForHandler \/ Deploy \/ Keep \/ Leave

HandleCall == ProcessUndeployed \/ DeployKept \/ Reply \/ EndProcess \/ Start

Next ==
  \/ \E s \in Sender : Arrive(s) \/ EndCall(s) \/ \E outgoing \in BOOLEAN : NewCall(s, outgoing)
  \/ \E m \in Message : MessageStatus(m)
  \/ HandleEvent
  \/ HandleCall

Spec == Init /\ [][Next]_vars

(* A handler that has begun goes on when it gets its locks.                 *)
FairSpec == Spec /\ WF_vars(HandleEvent) /\ WF_vars(HandleCall)
----
(* Every variable holds a value of its kind.                                *)
TypeOK ==
  /\ arrived \in [Sender -> Nat] /\ first \in [Sender -> Nat]
  /\ fired \in [Message -> 0..EventsPerMessage]
  /\ known \subseteq Message /\ dropped \subseteq known
  /\ undeployed \in Seq(known)
  /\ handlers \in [Sender -> 0..MaxCalls] /\ active \subseteq Sender
  /\ event.at \in {"idle", "next", "deploy", "keep"} /\ event.batch \in Seq(known)
  /\ call.at \in {"idle", "process", "walk", "reply", "start"}
  /\ Len(undeployed) <= MaxUndeployed

(* However often the events about a message come, and whether the message   *)
(* goes to its handler at once or is kept first: every Surface message that *)
(* was found is in exactly one place, waiting in the current event, kept,   *)
(* handed over once, or given up for lack of room or behind an exception.   *)
Places(m) ==
  Cardinality({i \in DOMAIN event.batch : event.batch[i] = m})
  + Cardinality({i \in DOMAIN undeployed : undeployed[i] = m})
  + Cardinality({i \in DOMAIN delivered[From(m)] : delivered[From(m)][i].id = m[2]})
  + IF m \in dropped THEN 1 ELSE 0

InOnePlace == \A m \in known : Places(m) = IF Kind(m) = "Chat" THEN 0 ELSE 1

(* Messages that are not kept reach the handlers in the order in which the  *)
(* partner sent them, although their events may come in any order.          *)
InOrder ==
  \A s \in Sender : \A i, j \in DOMAIN delivered[s] :
    i < j /\ ~delivered[s][i].kept /\ ~delivered[s][j].kept
      => delivered[s][i].id < delivered[s][j].id

(* An event leaves no message of its sender behind: all that had arrived by *)
(* then are known, from the first one on.  (One that comes before the first *)
(* is never found: its event lost the race for the lock.)                   *)
NothingLeftBehind ==
  \A m \in Message : fired[m] > 0 =>
    first[From(m)] # 0 /\ \A i \in first[From(m)]..m[2] : <<From(m), i>> \in known

(* Two handlers wait for each other only in this way: a session that is     *)
(* being created answers a kept SYN and waits for the provider's lock, and  *)
(* the event that holds it waits for that session or for the kept messages. *)
CircularWait ==
  /\ call.at = "reply"
  /\ \/ event.at = "keep"
     \/ event.at = "deploy" /\ From(Head(event.batch)) = call.from

EventsAreHandled == event.at # "idle" ~> event.at = "idle" \/ CircularWait
====
