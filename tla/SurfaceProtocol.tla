---- MODULE SurfaceProtocol ----
(****************************************************************************)
(* The Surface protocol between the two instances that take part in a call: *)
(* SurfaceProtocol.cs (the states), CommunicationSession.cs (what a session *)
(* does with a message), the call events of Core.cs and the Kryptonite      *)
(* sessions that the protocol opens, uses and closes (Kryptonite.cs,        *)
(* Crypto.cpp, OTRCallbacks.cpp, Conversation.h).  A few calls follow one   *)
(* another; each instance hears of their beginning and end in its own time. *)
(*                                                                          *)
(* A session is made for every call, but the conversation below it belongs  *)
(* to the partner and is shared by the sessions.  Messages are handled one  *)
(* at a time; the end of a call is not locked out, and may come while the   *)
(* user is asked about a fingerprint or between the calls of a handler.     *)
(*                                                                          *)
(* libOTR is external: its key exchange is modelled by who answers what.    *)
(* Bottom is reduced to one request of the caller and one answer.           *)
(*                                                                          *)
(* Both instances run this program, and the chat of Skype neither loses,    *)
(* reorders nor alters messages: nothing is said about a partner that sends *)
(* other messages than these handlers do.                                   *)
(****************************************************************************)
EXTENDS Naturals, FiniteSets, Sequences, SequencesExt

CONSTANTS
  Peer,      \* the two instances
  Caller,    \* Caller[c]: who dials call c
  MaxCalls,  \* bound on the calls
  Orderly,   \* nobody dials before the last call is over for both instances
  Unheard,   \* calls may end in a state of Skype's that is not taken for an end
  None       \* a value that was not set

Call == 1..MaxCalls

ASSUME PeersAssumption == \E p, q \in Peer : p # q /\ Peer = {p, q}
ASSUME NoneAssumption == None \notin Nat \X Nat
ASSUME CallsAssumption ==
  /\ MaxCalls \in Nat \ {0} /\ Caller \in [Call -> Peer]
  /\ Orderly \in BOOLEAN /\ Unheard \in BOOLEAN

VARIABLES
  dialled,  \* the last call that was dialled
  hungUp,   \* the last call that was hung up
  rung,     \* rung[p]: the last call that began for p
  over,     \* over[p]: the last call that ended for p
  handler,  \* handler[p]: the session Surface messages go to, by its call; never unset
  active,   \* active[p]: the entry in activeCalls, 0 if none
  starting, \* starting[p]: a session was created but not yet started
  pending,  \* pending[p]: the SYN messages kept for a session to come
  sess,     \* sess[p][c]: the CallSession of call c
  conv,     \* conv[p]: the conversation with the partner, its OTR context included
  nonce,    \* nonce[p]: the Diffie-Hellman keys p has generated
  trusted,  \* trusted[p]: the exchanges whose fingerprint the user of p accepted
  thread,   \* thread[p]: the message handler
  net       \* net[p]: the chat messages on their way to p

callVars == <<dialled, hungUp, rung, over, handler, active, starting, pending>>
vars == <<callVars, sess, conv, nonce, trusted, thread, net>>

Other(p) == CHOOSE q \in Peer : q # p

NewSession == [state |-> "Start", running |-> TRUE, started |-> FALSE, secure |-> FALSE,
               key |-> None, heard |-> FALSE, refused |-> FALSE]

NoConversation == [open |-> FALSE, context |-> FALSE, key |-> None, met |-> FALSE,
                   auth |-> <<"none">>, events |-> <<>>, out |-> <<>>]

Idle == [at |-> "idle"]

Init ==
  /\ dialled = 0 /\ hungUp = 0
  /\ rung = [p \in Peer |-> 0] /\ over = [p \in Peer |-> 0]
  /\ handler = [p \in Peer |-> 0]
  /\ active = [p \in Peer |-> 0]
  /\ starting = [p \in Peer |-> FALSE]
  /\ pending = [p \in Peer |-> 0]
  /\ sess = [p \in Peer |-> [c \in Call |-> NewSession]]
  /\ conv = [p \in Peer |-> NoConversation]
  /\ nonce = [p \in Peer |-> 0]
  /\ trusted = [p \in Peer |-> {}]
  /\ thread = [p \in Peer |-> Idle]
  /\ net = [p \in Peer |-> <<>>]
----
(* Messages: an OTR message travels as Kryptonite's, or as Bottom's when    *)
(* encryptMessage returned it.                                              *)
Surface(type) == [type |-> type]
Kryptonite(m) == [type |-> "Kryptonite", otr |-> m]
Bottom(m) == [type |-> "Bottom", otr |-> m]

Kryptonites(ms) == [i \in DOMAIN ms |-> Kryptonite(ms[i])]

Send(p, messages) == net' = [net EXCEPT ![Other(p)] = @ \o messages]

(* otrl_message_receiving: what libOTR makes of a message m in conversation *)
(* k, if it would generate n as its next Diffie-Hellman key.  Every message *)
(* makes a context.                                                         *)
Inject(k, m) == [k EXCEPT !.out = Append(@, m)]

GoesSecure(k, key) ==
  LET enc == [k EXCEPT !.key = key, !.auth = <<"none">>, !.met = TRUE]
      known == [enc EXCEPT !.events = Append(@, "secure")]
      new == [enc EXCEPT !.events = @ \o <<"confirm", "secure">>]
  IN  IF k.met THEN {known} ELSE {known, new}

Committed(k, m, n) ==
  LET answer == Inject([k EXCEPT !.auth = <<"key", m[2], n>>], <<"Key", m[2], n>>)
  IN  CASE k.auth[1] \in {"none", "reveal"} -> {answer}
        [] k.auth[1] = "commit" -> {answer, Inject(k, <<"Commit", k.auth[2]>>)}
        [] k.auth[1] = "key" ->
             {Inject([k EXCEPT !.auth[2] = m[2]], <<"Key", m[2], k.auth[3]>>)}

If(condition, results, k) == IF condition THEN results ELSE {k}

Receiving(k0, m, n) ==
  LET k == [k0 EXCEPT !.open = TRUE, !.context = TRUE]
  IN  CASE m[1] = "Query" -> {Inject([k EXCEPT !.auth = <<"commit", n>>], <<"Commit", n>>)}
        [] m[1] = "Commit" -> Committed(k, m, n)
        [] m[1] = "Key" ->
             If(k.auth = <<"commit", m[2]>>,
                {Inject([k EXCEPT !.auth = <<"reveal", m[2], m[3]>>], <<"Reveal", m[2], m[3]>>)}, k)
        [] m[1] = "Reveal" ->
             If(k.auth = <<"key", m[2], m[3]>>,
                {Inject(s, <<"Sig", m[2], m[3]>>) : s \in GoesSecure(k, <<m[2], m[3]>>)}, k)
        [] m[1] = "Sig" ->
             If(k.auth = <<"reveal", m[2], m[3]>>, GoesSecure(k, <<m[2], m[3]>>), k)
        [] m[1] = "Data" -> If(k.key # m[2], {Inject(k, <<"Error">>)}, k)
        [] m[1] = "Error" -> {k}

Generates(m, k) == m[1] = "Query" \/ (m[1] = "Commit" /\ k.auth[1] # "key")

Deciphers(k, m) == m[1] = "Data" /\ k.key = m[2]

(* handleNextAction, when the next event is not a new fingerprint: having   *)
(* met "connection secure" it returns, and what OTR wants to send waits for *)
(* the next call.                                                           *)
Polled(k) == IF k.events = <<>> THEN [k EXCEPT !.out = <<>>]
                                ELSE [k EXCEPT !.events = Tail(@)]
PolledOut(k) == IF k.events = <<>> THEN Kryptonites(k.out) ELSE <<>>
Secured(k, secure) == secure \/ k.events # <<>>

Asks(k) == k.events # <<>> /\ Head(k.events) = "confirm"

(* A mutant: the events of a conversation outlive it.                       *)
ClosedKeepingEvents(k) ==
  IF k.open /\ ~k.context THEN k ELSE [NoConversation EXCEPT !.events = k.events]

(* closeConversation: without an OTR context the conversation stays.        *)
Closed(k) == IF k.open /\ ~k.context THEN k ELSE NoConversation

(* encryptMessage: a query takes the place of a message in an insecure      *)
(* conversation, which is opened where there is none.                       *)
Sending(k) == [k EXCEPT !.open = TRUE, !.context = TRUE]
Cipher(k, body) == IF k.key = None THEN <<"Query">> ELSE <<"Data", k.key, body>>

(* sendBottomMessage: OTR's own messages first.                             *)
SendBottom(p, c, body) ==
  LET k == Sending(conv[p])
  IN  /\ conv' = [conv EXCEPT ![p] = Polled(k)]
      /\ Send(p, Append(PolledOut(k), Bottom(Cipher(k, body))))
----
(* What a session does at once: the session, its conversation, and what it  *)
(* sends.                                                                   *)
Result(s, k, out) == [sess |-> s, conv |-> k, out |-> out]

(* _tearDown: the session stops and closes Bottom and Kryptonite.           *)
TornDown(s, k) == Result([s EXCEPT !.running = FALSE], Closed(k), <<>>)

(* SessionConfirmed.Instance: a session that is not secure, as none is yet, *)
(* goes to ExchangingKeys.  The one that started the protocol opens a       *)
(* conversation and sends the query; if there is a conversation already the *)
(* session ends.                                                            *)
Confirmed(s, k) ==
  LET exchanging == [s EXCEPT !.state = "ExchangingKeys"]
  IN  IF ~s.started THEN Result(exchanging, k, <<>>)
      ELSE IF k.open THEN TornDown(exchanging, k)
      ELSE Result(exchanging, [k EXCEPT !.open = TRUE], <<Kryptonite(<<"Query">>)>>)

SynReceived(s, k) ==
  IF s.state = "Start"
  THEN LET r == Confirmed(s, k) IN [r EXCEPT !.out = <<Surface("Ack")>> \o @]
  ELSE TornDown(s, k)

AckReceived(s, k) == IF s.state = "WaitingForACK" THEN Confirmed(s, k) ELSE TornDown(s, k)

Becomes(p, c, r) ==
  /\ sess' = [sess EXCEPT ![p][c] = r.sess]
  /\ conv' = [conv EXCEPT ![p] = r.conv]
----
(* Skype: the calls, and the events about them.                             *)
Dial ==
  /\ dialled = hungUp /\ dialled < MaxCalls
  /\ Orderly => \A p \in Peer : over[p] = dialled /\ ~starting[p]
  /\ dialled' = dialled + 1
  /\ UNCHANGED <<hungUp, rung, over, handler, active, starting, pending, sess, conv, nonce,
                 trusted, thread, net>>

HangUp ==
  /\ hungUp < dialled
  /\ hungUp' = dialled
  /\ UNCHANGED <<dialled, rung, over, handler, active, starting, pending, sess, conv, nonce,
                 trusted, thread, net>>

(* onSkypeCallStatus: of every instance the calls begin and end in turn,    *)
(* and the handlers of Core lock activeCalls.                               *)
CallEvent(p) == ~starting[p] /\ UNCHANGED <<dialled, hungUp, nonce, trusted, thread>>

Rings(p) ==
  /\ CallEvent(p)
  /\ rung[p] = over[p] /\ rung[p] < dialled
  /\ rung' = [rung EXCEPT ![p] = @ + 1]
  /\ UNCHANGED over

Ends(p) ==
  /\ CallEvent(p)
  /\ over[p] < rung[p] /\ rung[p] <= hungUp
  /\ over' = [over EXCEPT ![p] = rung[p]]
  /\ UNCHANGED <<rung, handler, starting, pending, net>>

(* onNewCall: a session is made and registers for Surface messages.         *)
Registers(p) ==
  LET c == rung[p] + 1
  IN  /\ Rings(p)
      /\ handler' = [handler EXCEPT ![p] = c]
      /\ starting' = [starting EXCEPT ![p] = Caller[c] = p]
      /\ active' = IF Caller[c] = p THEN active ELSE [active EXCEPT ![p] = c]

(* A mutant: a call under way is not looked for.                            *)
RegisterAgain(p) == Registers(p)

Register(p) == active[p] = 0 /\ Registers(p)

(* A call with a partner who has an entry already is ignored.               *)
NewCallIgnored(p) ==
  /\ Rings(p) /\ active[p] # 0
  /\ UNCHANGED <<handler, active, starting, pending, sess, conv, net>>

(* A mutant: messages that were kept are not looked at.                     *)
NewCallIgnoringPending(p) == Register(p) /\ UNCHANGED <<pending, sess, conv, net>>

(* A new session gets the SYN messages that were kept: it ends over the     *)
(* second.                                                                  *)
KeptSyns(n, k) ==
  LET r == SynReceived(NewSession, k)
  IN  IF n = 1 THEN r ELSE [SynReceived(r.sess, r.conv) EXCEPT !.out = r.out]

NewCall(p) ==
  /\ Register(p)
  /\ pending' = [pending EXCEPT ![p] = 0]
  /\ IF pending[p] = 0
     THEN UNCHANGED <<sess, conv, net>>
     ELSE LET r == KeptSyns(pending[p], conv[p])
          IN  Becomes(p, handler'[p], r) /\ Send(p, r.out)

(* The end of onNewCall for the one who called: start, whatever came first. *)
StartProtocol(p) ==
  LET c == handler[p]
      s == [sess[p][c] EXCEPT !.started = TRUE]
  IN  /\ starting[p] /\ thread[p] = Idle
      /\ UNCHANGED <<dialled, hungUp, rung, over, nonce, trusted, thread>>
      /\ starting' = [starting EXCEPT ![p] = FALSE]
      /\ active' = [active EXCEPT ![p] = c]
      /\ IF s.state = "Start"
         THEN /\ sess' = [sess EXCEPT ![p][c] = [s EXCEPT !.state = "WaitingForACK"]]
              /\ Send(p, <<Surface("Syn")>>)
              /\ UNCHANGED conv
         ELSE Becomes(p, c, TornDown(s, conv[p])) /\ UNCHANGED net
      /\ UNCHANGED <<handler, pending>>

(* onEndCall: the entry of the partner goes, be it that of another call.    *)
EndCall(p) ==
  /\ Ends(p) /\ active[p] # 0
  /\ active' = [active EXCEPT ![p] = 0]
  /\ Becomes(p, active[p], TornDown(sess[p][active[p]], conv[p]))

(* A call that failed, say, leaves its entry behind.                        *)
EndUnheard(p) ==
  /\ Unheard /\ Ends(p)
  /\ UNCHANGED <<active, sess, conv>>
----
(* surfaceMessageReceived: the next message goes to the session that        *)
(* registered last, even if it has ended.                                   *)
Waits(p, type) == net[p] # <<>> /\ Head(net[p]).type = type

Incoming(p, type) ==
  /\ thread[p] = Idle /\ Waits(p, type)
  /\ UNCHANGED <<dialled, hungUp, rung, over, handler, active, starting>>

Answer(p, sent) == net' = [net EXCEPT ![p] = Tail(@), ![Other(p)] = @ \o sent]

KeepSyn(p) ==
  /\ Incoming(p, "Syn") /\ handler[p] = 0
  /\ pending' = [pending EXCEPT ![p] = @ + 1]
  /\ Answer(p, <<>>)
  /\ UNCHANGED <<sess, conv, nonce, trusted, thread>>

SurfaceReceived(p, type) ==
  LET c == handler[p]
      s == sess[p][c]
      r == IF ~s.running THEN Result(s, conv[p], <<>>)
           ELSE IF type = "Syn" THEN SynReceived(s, conv[p]) ELSE AckReceived(s, conv[p])
  IN  /\ Incoming(p, type) /\ c # 0
      /\ Becomes(p, c, r) /\ Answer(p, r.out)
      /\ UNCHANGED <<pending, nonce, trusted, thread>>

(* comCrypto.messageReceived, with its keys and the exchanges the user need *)
(* not be asked about.                                                      *)
Decrypt(p, m, k) ==
  LET n == IF Generates(m, conv[p]) THEN nonce[p] + 1 ELSE nonce[p]
  IN  /\ k \in Receiving(conv[p], m, nonce[p] + 1)
      /\ nonce' = [nonce EXCEPT ![p] = n]
      /\ trusted' = IF k.key # conv[p].key /\ "confirm" \notin ToSet(k.events)
                       /\ (conv[p].met => conv[p].key \in trusted[p])
                    THEN [trusted EXCEPT ![p] = @ \cup {k.key}] ELSE trusted

Busy(p, at, c) == thread' = [thread EXCEPT ![p] = [at |-> at, c |-> c]]
Done(p) == thread' = [thread EXCEPT ![p] = Idle]

DeploysKryptonite(s) == s.running /\ s.state \in {"ExchangingKeys", "Routing"}

(* A Kryptonite message ends a session that still waits for SYN or ACK.     *)
(* Another one that runs hands it to Kryptonite below; until then it stays  *)
(* in net.                                                                  *)
KryptoniteReceived(p) ==
  LET c == handler[p]
      s == sess[p][c]
  IN  /\ Incoming(p, "Kryptonite") /\ c # 0
      /\ IF DeploysKryptonite(s)
         THEN Busy(p, "deploying", c) /\ UNCHANGED <<sess, conv, net>>
         ELSE /\ Becomes(p, c, IF s.running THEN TornDown(s, conv[p]) ELSE Result(s, conv[p], <<>>))
              /\ Answer(p, <<>>) /\ Done(p)
      /\ UNCHANGED <<pending, nonce, trusted>>

(* A mutant: Bottom gets messages during the key exchange, too.             *)
DeploysBottomEarly(s) == s.state \in {"ExchangingKeys", "Routing"}

DeploysBottom(s) == s.state = "Routing"

(* A Bottom message is decrypted before the session looks at it.            *)
BottomReceived(p) ==
  LET c == handler[p]
      s == sess[p][c]
      m == Head(net[p]).otr
  IN  /\ Incoming(p, "Bottom") /\ c # 0
      /\ \E k \in Receiving(conv[p], m, nonce[p] + 1) :
           /\ Decrypt(p, m, k)
           /\ IF ~Deciphers(conv[p], m)
              THEN conv' = [conv EXCEPT ![p] = k] /\ Answer(p, <<>>) /\ Done(p) /\ UNCHANGED sess
              ELSE LET t == [s EXCEPT !.secure = Secured(k, @)]
                   IN  /\ Answer(p, PolledOut(k))
                       /\ IF t.running /\ ~DeploysBottom(t)
                          THEN Becomes(p, c, TornDown(t, Polled(k))) /\ Done(p)
                          ELSE /\ Becomes(p, c, Result([t EXCEPT !.heard = @ \/ t.running], Polled(k), <<>>))
                               /\ IF t.running /\ m[3] = "Request"
                                  THEN Busy(p, "answer", c) ELSE Done(p)
      /\ UNCHANGED pending
----
(* The handler goes on; the session may have been ended meanwhile.          *)
Goes(p, at) ==
  /\ thread[p].at = at
  /\ UNCHANGED <<callVars, nonce>>

NextChange(p, c, wasSecure) ==
  IF sess'[p][c].secure # wasSecure THEN Busy(p, "changed", c) ELSE Done(p)

(* kryptonite.messageReceived, whether the session still runs or not: a     *)
(* conversation that was closed is opened again.                            *)
Deploy(p) ==
  LET c == thread[p].c
      m == Head(net[p]).otr
  IN  /\ thread[p].at = "deploying" /\ Waits(p, "Kryptonite")
      /\ \E k \in Receiving(conv[p], m, nonce[p] + 1) :
           /\ Decrypt(p, m, k)
           /\ IF m[1] = "Error"
              THEN conv' = [conv EXCEPT ![p] = k] /\ Answer(p, <<>>) /\ Done(p) /\ UNCHANGED sess
              ELSE IF Asks(k)
              THEN /\ conv' = [conv EXCEPT ![p] = [k EXCEPT !.events = Tail(@)]]
                   /\ Answer(p, <<>>) /\ Busy(p, "asking", c)
                   /\ UNCHANGED sess
              ELSE /\ conv' = [conv EXCEPT ![p] = Polled(k)]
                   /\ Answer(p, PolledOut(k))
                   /\ sess' = [sess EXCEPT ![p][c].secure = Secured(k, @)]
                   /\ NextChange(p, c, sess[p][c].secure)
      /\ UNCHANGED callVars

(* The user is asked about a new fingerprint.                               *)
Accept(p) ==
  LET c == thread[p].c
  IN  /\ Goes(p, "asking")
      /\ trusted' = IF conv[p].open THEN [trusted EXCEPT ![p] = @ \cup {conv[p].key}] ELSE trusted
      /\ conv' = [conv EXCEPT ![p] = IF @.open THEN Polled(@) ELSE @]
      /\ sess' = [sess EXCEPT ![p][c].secure = conv[p].open /\ Secured(conv[p], @)]
      /\ NextChange(p, c, sess[p][c].secure)
      /\ UNCHANGED net

(* A mutant: the event of the secure connection is handled all the same.    *)
RefuseAndGoOn(p) ==
  LET c == thread[p].c
  IN  /\ Goes(p, "asking")
      /\ conv' = [conv EXCEPT ![p] = IF @.open THEN Polled(@) ELSE @]
      /\ sess' = [sess EXCEPT ![p][c].secure = Secured(conv[p], FALSE), ![p][c].refused = TRUE]
      /\ NextChange(p, c, sess[p][c].secure)
      /\ UNCHANGED <<trusted, net>>

Refuse(p) ==
  LET c == thread[p].c
  IN  /\ Goes(p, "asking")
      /\ sess' = [sess EXCEPT ![p][c].secure = FALSE, ![p][c].refused = TRUE]
      /\ NextChange(p, c, sess[p][c].secure)
      /\ UNCHANGED <<conv, trusted, net>>

(* securityStatusChanged, which does not ask whether the session runs.  An  *)
(* exchange that succeeded leads to Routing, whose Instance gets the session*)
(* key for Bottom; without one it goes to Routing all the same.             *)
SecurityStatusChanged(p) ==
  LET c == thread[p].c
      s == sess[p][c]
      routing == [s EXCEPT !.state = "Routing"]
  IN  /\ Goes(p, "changed")
      /\ IF s.state # "ExchangingKeys" THEN Becomes(p, c, TornDown(s, conv[p])) /\ Done(p)
         ELSE IF ~s.secure THEN Becomes(p, c, TornDown(routing, conv[p])) /\ Done(p)
         ELSE IF conv[p].key = None
         THEN Becomes(p, c, Result(routing, conv[p], <<>>)) /\ Done(p)
         ELSE /\ thread' = [thread EXCEPT ![p] = [at |-> "encrypt", c |-> c, key |-> conv[p].key]]
              /\ UNCHANGED <<sess, conv>>
      /\ UNCHANGED <<trusted, net>>

(* Bottom's encrypt: the primary actor sends the first Bottom message.      *)
Encrypt(p) ==
  LET c == thread[p].c
  IN  /\ Goes(p, "encrypt")
      /\ sess' = [sess EXCEPT ![p][c].key = thread[p].key, ![p][c].state = "Routing"]
      /\ IF sess[p][c].started THEN SendBottom(p, c, "Request") ELSE UNCHANGED <<conv, net>>
      /\ Done(p)
      /\ UNCHANGED trusted

AnswerRequest(p) ==
  /\ Goes(p, "answer")
  /\ SendBottom(p, thread[p].c, "Answer")
  /\ Done(p)
  /\ UNCHANGED <<sess, trusted>>
----
Deliver(p) ==
  \/ KeepSyn(p)
  \/ SurfaceReceived(p, "Syn")
  \/ SurfaceReceived(p, "Ack")
  \/ KryptoniteReceived(p)
  \/ BottomReceived(p)

GoOn(p) == Deploy(p) \/ SecurityStatusChanged(p) \/ Encrypt(p) \/ AnswerRequest(p)

User(p) == Accept(p) \/ Refuse(p)

Next ==
  \/ Dial \/ HangUp
  \/ \E p \in Peer :
       \/ NewCall(p) \/ NewCallIgnored(p) \/ StartProtocol(p)
       \/ EndCall(p) \/ EndUnheard(p)
       \/ Deliver(p) \/ GoOn(p) \/ User(p)

Spec == Init /\ [][Next]_vars

(* Skype tells both of every call that begins, of every end that is heard, and delivers every message; handlers go   *)
(* on and users answer.                                                     *)
Fairness ==
  \A p \in Peer :
    /\ WF_vars(NewCall(p)) /\ WF_vars(StartProtocol(p)) /\ WF_vars(EndCall(p))
    /\ WF_vars(Deliver(p)) /\ WF_vars(GoOn(p)) /\ WF_vars(User(p))

FairSpec == Spec /\ Fairness
----
(* Every variable holds a value of its kind, and a session that still waits *)
(* for SYN or ACK is not secure (so that SessionConfirmed always exchanges  *)
(* keys).                                                                   *)
TypeOK ==
  /\ 0 <= hungUp /\ hungUp <= dialled /\ dialled <= MaxCalls
  /\ \A p \in Peer : 0 <= over[p] /\ over[p] <= rung[p] /\ rung[p] <= dialled
  /\ handler \in [Peer -> 0..MaxCalls] /\ active \in [Peer -> 0..MaxCalls]
  /\ starting \in [Peer -> BOOLEAN] /\ pending \in [Peer -> 0..MaxCalls]
  /\ \A p \in Peer :
       /\ thread[p].at \in {"idle", "deploying", "asking", "changed", "encrypt", "answer"}
       /\ active[p] \in {0, handler[p]}
       /\ "confirm" \in ToSet(conv[p].events) => thread[p].at = "asking"
       /\ \A c \in Call :
            /\ sess[p][c].state \in {"Start", "WaitingForACK", "ExchangingKeys", "Routing"}
            /\ sess[p][c].running /\ sess[p][c].secure
                 => sess[p][c].state \in {"ExchangingKeys", "Routing"}

(* Bottom is only given the key of an exchange whose fingerprint the user   *)
(* confirmed, or that was known.  An event that stays behind after a refusal*)
(* (Kryptonite.cs 419) would make the session secure with the next message  *)
(* that is handed to Kryptonite (436).  None ever meets one: a partner that *)
(* runs this program has sent its last message of the exchange by then, and *)
(* when its next one comes the conversation was closed here in between, by  *)
(* the end of the call, or by a SYN or a Bottom message out of turn.        *)
OnlyConfirmedKeys ==
  \A p \in Peer :
    /\ \A c \in Call : sess[p][c].key # None => sess[p][c].key \in trusted[p]
    /\ thread[p].at = "deploying" => conv[p].events = <<>>

(* While both ends of a call secure it they do so with the same key, and    *)
(* exactly one of them began the Bottom protocol.  (An end that lags behind *)
(* may have shared a key with the session of another call, but that one has *)
(* ended when this one gets its own.)                                       *)
Secures(p, c) == sess[p][c].running /\ sess[p][c].key # None

SameKey ==
  \A p, q \in Peer, c \in Call :
    p # q /\ Secures(p, c) /\ Secures(q, c)
      => sess[p][c].key = sess[q][c].key /\ sess[p][c].started # sess[q][c].started

(* Bottom gets no message of its peer before it has a key: the request that *)
(* follows the key exchange never overtakes it.                             *)
HeardWithKey == \A p \in Peer, c \in Call : sess[p][c].heard => sess[p][c].key # None

(* A call that stays up is secured by both, unless a user refuses.          *)
IsSecured(c) == \A p \in Peer : sess[p][c].key # None

GivenUp(c) == hungUp >= c \/ \E p \in Peer : sess[p][c].refused

FirstCallIsSecured == dialled >= 1 ~> IsSecured(1) \/ GivenUp(1)

(* "Once the corresponding call is established, the two involved CallSession*)
(* objects on both sides will communicate using the Surface protocol."      *)
EveryCallIsSecured == \A c \in Call : dialled >= c ~> IsSecured(c) \/ GivenUp(c)
====
