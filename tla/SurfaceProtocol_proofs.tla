------------------------- MODULE SurfaceProtocol_proofs -------------------------
(***************************************************************************)
(* Theorems of SurfaceProtocol, for any number of calls: the handlers, the *)
(* sessions and the conversations keep to their kind, and Bottom gets no   *)
(* message of its peer before it has a key.                                *)
(***************************************************************************)
EXTENDS SurfaceProtocol, SequenceTheorems, FiniteSetTheorems, TLAPS

-----------------------------------------------------------------------------
(* The kinds of values *)

Key == Nat \X Nat

Otr ==
  {<<"Query">>, <<"Error">>} \cup ({"Commit"} \X Nat) \cup ({"Key", "Reveal", "Sig"} \X Nat \X Nat)
    \cup ({"Data"} \X Key \X {"Request", "Answer"})
\* What encryptMessage returns.
Ciphers == {<<"Query">>} \cup ({"Data"} \X Key \X {"Request", "Answer"})

Message ==
  [type : {"Syn", "Ack"}] \cup [type : {"Kryptonite"}, otr : Otr]
    \cup [type : {"Bottom"}, otr : Ciphers]

Session ==
  [state : {"Start", "WaitingForACK", "ExchangingKeys", "Routing"}, running : BOOLEAN,
   started : BOOLEAN, secure : BOOLEAN, key : Key \cup {None}, heard : BOOLEAN, refused : BOOLEAN]

Auth == {<<"none">>} \cup ({"commit"} \X Nat) \cup ({"key", "reveal"} \X Nat \X Nat)

Record(events) ==
  [open : BOOLEAN, context : BOOLEAN, key : Key \cup {None}, met : BOOLEAN, auth : Auth,
   events : events, out : Seq(Otr)]

\* A conversation between two messages: no question is left, and an event that
\* was not looked at yet is that of a key exchange.
Conversation ==
  {k \in Record(Seq({"secure"})) : k.events # <<>> => k.met /\ k.key # None}

Thread ==
  {Idle} \cup [at : {"deploying", "asking", "changed", "answer"}, c : Call]
    \cup [at : {"encrypt"}, c : Call, key : Key]

-----------------------------------------------------------------------------
(* What is made of a conversation *)

\* A message that OTR wants to send.
LEMMA InjectKeeps ==
  ASSUME NEW k \in Conversation, NEW m \in Otr
  PROVE  Inject(k, m) \in Conversation /\ Inject(k, m).key = k.key /\ Inject(k, m).open = k.open
<1>1. k \in Record(Seq({"secure"})) /\ k.out \in Seq(Otr)
  BY DEF Conversation, Record
<1>2. Append(k.out, m) \in Seq(Otr)
  BY <1>1
<1> QED BY <1>1, <1>2 DEF Inject, Conversation, Record

\* An exchange has ended: the conversation has a key, and the user may have to be asked.
LEMMA SecureHasKey ==
  ASSUME NEW k \in Conversation, NEW key \in Key, NEW r \in GoesSecure(k, key)
  PROVE  /\ r.key # None /\ r.open = k.open
         /\ \/ r \in Conversation
            \/ /\ r \in Record(Seq({"secure", "confirm"})) /\ r.events = <<"confirm", "secure">>
               /\ r.met
<1>1. key # None /\ key \in Key \cup {None} /\ <<"none">> \in Auth
  BY NoneAssumption DEF Key, Auth
<1> HIDE DEF Key, Auth
<1> DEFINE enc == [k EXCEPT !.key = key, !.auth = <<"none">>, !.met = TRUE]
           known == [enc EXCEPT !.events = Append(@, "secure")]
           new == [enc EXCEPT !.events = @ \o <<"confirm", "secure">>]
<1>2. k \in Record(Seq({"secure"})) /\ (k.events # <<>> => k.met /\ k.key # None)
  BY DEF Conversation
<1>3. /\ enc \in Record(Seq({"secure"})) /\ enc.key = key /\ enc.met = TRUE
      /\ enc.events = k.events /\ enc.open = k.open
  BY <1>1, <1>2 DEF Record
<1> HIDE DEF enc
<1>4. known \in Conversation /\ known.key = key /\ known.open = k.open
  <2>1. Append(enc.events, "secure") \in Seq({"secure"})
    BY <1>3 DEF Record
  <2> QED BY <1>1, <1>3, <2>1 DEF Record, Conversation
<1>5. k.met = FALSE => /\ new \in Record(Seq({"secure", "confirm"})) /\ new.key = key
                       /\ new.events = <<"confirm", "secure">> /\ new.met /\ new.open = k.open
  <2> SUFFICES ASSUME k.met = FALSE
               PROVE  /\ new \in Record(Seq({"secure", "confirm"})) /\ new.key = key
                      /\ new.events = <<"confirm", "secure">> /\ new.met /\ new.open = k.open
    OBVIOUS
  <2>1. enc.events = <<>>
    BY <1>2, <1>3
  <2>2. enc.events \o <<"confirm", "secure">> = <<"confirm", "secure">>
    BY <2>1
  <2>3. <<"confirm", "secure">> \in Seq({"secure", "confirm"})
    OBVIOUS
  <2> QED BY <1>3, <2>2, <2>3 DEF Record
<1>6. IF k.met THEN r = known ELSE r \in {known, new}
  BY DEF GoesSecure, enc
<1> HIDE DEF known, new
<1>7. k.met \in BOOLEAN
  BY <1>2 DEF Record
<1> QED BY <1>1, <1>4, <1>5, <1>6, <1>7

\* An answer, and the next state of the exchange.
LEMMA AnswerKeeps ==
  ASSUME NEW k \in Conversation, NEW auth \in Auth, NEW m \in Otr
  PROVE  LET r == Inject([k EXCEPT !.auth = auth], m)
         IN  r \in Conversation /\ r.key = k.key /\ r.open = k.open
<1> DEFINE r == [k EXCEPT !.auth = auth]
<1>1. r \in Conversation /\ r.key = k.key /\ r.open = k.open
  BY DEF Conversation, Record
<1> HIDE DEF r
<1>2. Inject(r, m) \in Conversation /\ Inject(r, m).key = k.key /\ Inject(r, m).open = k.open
  BY <1>1, InjectKeeps
<1> QED BY <1>2 DEF r

\* What libOTR makes of a message keeps the key, or sets it; only the end of an
\* exchange leaves a question, and then it is the first event.
LEMMA Received ==
  ASSUME NEW k0 \in Conversation, NEW m \in Otr, NEW n \in Nat, NEW r \in Receiving(k0, m, n)
  PROVE  /\ k0.key # None => r.key # None
         /\ r.open = TRUE
         /\ \/ r \in Conversation
            \/ /\ r \in Record(Seq({"secure", "confirm"})) /\ r.events = <<"confirm", "secure">>
               /\ r.met /\ r.key # None /\ m[1] \in {"Reveal", "Sig"}
<1> DEFINE k == [k0 EXCEPT !.open = TRUE, !.context = TRUE]
<1>1. k \in Conversation /\ k.key = k0.key /\ k.open = TRUE
  BY DEF Conversation, Record
<1>2. k.auth \in Auth /\ k.events \in Seq({"secure"})
  BY <1>1 DEF Conversation, Record
<1> HIDE DEF k
<1>3. CASE m = <<"Query">>
  <2> DEFINE o == <<"Commit", n>>
             a == <<"commit", n>>
  <2>1. r = Inject([k EXCEPT !.auth = a], o)
    BY <1>3 DEF Receiving, k
  <2>2. o \in Otr /\ a \in Auth
    BY DEF Otr, Auth
  <2> HIDE DEF o, a
  <2> QED BY <1>1, <2>1, <2>2, AnswerKeeps
<1>4. CASE m \in {"Commit"} \X Nat
  <2>1. r \in Committed(k, m, n) /\ m[1] = "Commit" /\ m[2] \in Nat
    BY <1>4 DEF Receiving, k
  <2> DEFINE o1 == <<"Key", m[2], n>>
             a1 == <<"key", m[2], n>>
  <2>2. o1 \in Otr /\ a1 \in Auth
    BY <2>1 DEF Otr, Auth
  <2>3. CASE r = Inject([k EXCEPT !.auth = a1], o1)
    <3> HIDE DEF o1, a1
    <3> QED BY <1>1, <2>2, <2>3, AnswerKeeps
  <2>4. CASE k.auth \in {"commit"} \X Nat /\ r = Inject(k, <<"Commit", k.auth[2]>>)
    <3>1. <<"Commit", k.auth[2]>> \in Otr
      BY <2>4 DEF Otr
    <3> QED BY <1>1, <2>4, <3>1, InjectKeeps
  <2>5. CASE k.auth \in {"key"} \X Nat \X Nat
             /\ r = Inject([k EXCEPT !.auth[2] = m[2]], <<"Key", m[2], k.auth[3]>>)
    <3> DEFINE a == [k.auth EXCEPT ![2] = m[2]]
               o == <<"Key", m[2], k.auth[3]>>
    <3>1. a \in Auth /\ o \in Otr
      BY <2>1, <2>5 DEF Auth, Otr
    <3>2. r = Inject([k EXCEPT !.auth = a], o)
      BY <2>5
    <3> HIDE DEF a, o
    <3> QED BY <1>1, <3>1, <3>2, AnswerKeeps
  <2> HIDE DEF o1, a1
  <2>6. CASE k.auth = <<"none">> \/ k.auth \in {"reveal"} \X Nat \X Nat
    <3>1. k.auth[1] \in {"none", "reveal"}
      BY <2>6
    <3>2. r = Inject([k EXCEPT !.auth = a1], o1)
      BY <2>1, <3>1 DEF Committed, a1, o1
    <3> QED BY <2>3, <3>2
  <2>7. CASE k.auth \in {"commit"} \X Nat
    <3>1. k.auth[1] = "commit"
      BY <2>7
    <3>2. r \in {Inject([k EXCEPT !.auth = a1], o1), Inject(k, <<"Commit", k.auth[2]>>)}
      BY <2>1, <3>1 DEF Committed, a1, o1
    <3> QED BY <2>3, <2>4, <2>7, <3>2
  <2>8. CASE k.auth \in {"key"} \X Nat \X Nat
    <3>1. k.auth[1] = "key"
      BY <2>8
    <3>2. r = Inject([k EXCEPT !.auth[2] = m[2]], <<"Key", m[2], k.auth[3]>>)
      BY <2>1, <3>1 DEF Committed
    <3> QED BY <2>5, <2>8, <3>2
  <2> QED BY <1>2, <2>6, <2>7, <2>8 DEF Auth
<1>5. CASE m \in {"Key", "Reveal", "Sig"} \X Nat \X Nat
  <2> DEFINE key == <<m[2], m[3]>>
  <2>1. key \in Key /\ m[2] \in Nat /\ m[3] \in Nat
    BY <1>5 DEF Key
  <2>2. CASE r = k
    BY <1>1, <2>2
  <2>3. CASE m[1] = "Key" /\ r = Inject([k EXCEPT !.auth = <<"reveal", m[2], m[3]>>], <<"Reveal", m[2], m[3]>>)
    <3> DEFINE a == <<"reveal", m[2], m[3]>>
               o == <<"Reveal", m[2], m[3]>>
    <3>1. a \in Auth /\ o \in Otr
      BY <2>1 DEF Auth, Otr
    <3> HIDE DEF a, o
    <3> QED BY <1>1, <2>3, <3>1, AnswerKeeps DEF a, o
  <2>4. ASSUME m[1] = "Reveal", NEW s \in GoesSecure(k, key), r = Inject(s, <<"Sig", m[2], m[3]>>)
        PROVE  /\ r.key # None /\ r.open = TRUE
               /\ \/ r \in Conversation
                  \/ /\ r \in Record(Seq({"secure", "confirm"})) /\ r.events = <<"confirm", "secure">>
                     /\ r.met
    <3> DEFINE o == <<"Sig", m[2], m[3]>>
    <3>1. o \in Otr
      BY <2>1 DEF Otr
    <3>2. /\ s.key # None /\ s.open = TRUE
          /\ \/ s \in Conversation
             \/ /\ s \in Record(Seq({"secure", "confirm"})) /\ s.events = <<"confirm", "secure">>
                /\ s.met
      BY <1>1, <2>1, <2>4, SecureHasKey
    <3> HIDE DEF o, key
    <3>3. CASE s \in Conversation
      BY <2>4, <3>1, <3>2, <3>3, InjectKeeps DEF o
    <3>4. CASE s \in Record(Seq({"secure", "confirm"})) /\ s.events = <<"confirm", "secure">> /\ s.met
      <4>1. s.out \in Seq(Otr)
        BY <3>4 DEF Record
      <4>2. Append(s.out, o) \in Seq(Otr)
        BY <3>1, <4>1
      <4>3. r = [s EXCEPT !.out = Append(s.out, o)]
        BY <2>4 DEF Inject, o
      <4> HIDE DEF o
      <4> QED BY <3>2, <3>4, <4>2, <4>3 DEF Record
    <3> QED BY <3>2, <3>3, <3>4
  <2>5. CASE m[1] = "Sig" /\ r \in GoesSecure(k, key)
    BY <1>1, <2>1, <2>5, SecureHasKey
  <2>6. \/ r = k
        \/ m[1] = "Key" /\ r = Inject([k EXCEPT !.auth = <<"reveal", m[2], m[3]>>], <<"Reveal", m[2], m[3]>>)
        \/ m[1] = "Reveal" /\ \E s \in GoesSecure(k, key) : r = Inject(s, <<"Sig", m[2], m[3]>>)
        \/ m[1] = "Sig" /\ r \in GoesSecure(k, key)
    <3>1. m[1] \in {"Key", "Reveal", "Sig"}
      BY <1>5
    <3>2. CASE m[1] = "Key"
      BY <3>2 DEF Receiving, If, k
    <3>3. CASE m[1] = "Reveal"
      BY <3>3 DEF Receiving, If, k
    <3>4. CASE m[1] = "Sig"
      BY <3>4 DEF Receiving, If, k
    <3> QED BY <3>1, <3>2, <3>3, <3>4
  <2> HIDE DEF key
  <2> QED BY <1>1, <2>2, <2>3, <2>4, <2>5, <2>6
<1>6. CASE m \in {"Data"} \X Key \X {"Request", "Answer"}
  <2>1. r = k \/ r = Inject(k, <<"Error">>)
    BY <1>6 DEF Receiving, If, k
  <2>2. <<"Error">> \in Otr
    BY DEF Otr
  <2> QED BY <1>1, <2>1, <2>2, InjectKeeps
<1>7. CASE m = <<"Error">>
  BY <1>1, <1>7 DEF Receiving, k
<1> QED BY <1>3, <1>4, <1>5, <1>6, <1>7 DEF Otr

\* All messages but SYN.
Unsyn == {m \in Message : m.type # "Syn"}

\* Kryptonite's messages.
LEMMA KryptonitesAre ==
  /\ \A m \in Otr : Kryptonite(m) \in Unsyn
  /\ \A ms \in Seq(Otr) : Kryptonites(ms) \in Seq(Unsyn)
<1>1. ASSUME NEW m \in Otr PROVE Kryptonite(m) \in Unsyn
  <2>1. [type |-> "Kryptonite", otr |-> m] \in [type : {"Kryptonite"}, otr : Otr]
    OBVIOUS
  <2> QED BY <2>1 DEF Kryptonite, Unsyn, Message
<1>2. ASSUME NEW ms \in Seq(Otr) PROVE Kryptonites(ms) \in Seq(Unsyn)
  <2>1. DOMAIN ms = 1..Len(ms) /\ Len(ms) \in Nat /\ \A i \in 1..Len(ms) : ms[i] \in Otr
    OBVIOUS
  <2>2. Kryptonites(ms) \in [1..Len(ms) -> Unsyn]
    BY <1>1, <2>1 DEF Kryptonites
  <2> QED BY <2>1, <2>2 DEF Seq
<1> QED BY <1>1, <1>2

\* Having looked at the next event, or sent what OTR wanted to send.
LEMMA PolledKeeps ==
  ASSUME NEW k \in Conversation
  PROVE  /\ ~Asks(k)
         /\ Polled(k) \in Conversation /\ Polled(k).key = k.key
         /\ PolledOut(k) \in Seq(Unsyn)
         /\ \A secure \in BOOLEAN : /\ Secured(k, secure) \in BOOLEAN
                                    /\ Secured(k, secure) => secure \/ k.key # None
<1>1. /\ k \in Record(Seq({"secure"})) /\ (k.events # <<>> => k.met /\ k.key # None)
      /\ k.events \in Seq({"secure"}) /\ k.out \in Seq(Otr)
  BY DEF Conversation, Record
<1>2. ~Asks(k)
  BY <1>1 DEF Asks
<1>3. k.events # <<>> => Tail(k.events) \in Seq({"secure"})
  BY <1>1
<1>4. <<>> \in Seq(Otr) /\ <<>> \in Seq(Unsyn)
  OBVIOUS
<1>5. Polled(k) \in Conversation /\ Polled(k).key = k.key
  <2>1. CASE k.events = <<>>
    BY <1>1, <1>4, <2>1 DEF Polled, Conversation, Record
  <2>2. CASE k.events # <<>>
    BY <1>1, <1>3, <2>2 DEF Polled, Conversation, Record
  <2> QED BY <2>1, <2>2
<1>6. PolledOut(k) \in Seq(Unsyn)
  BY <1>1, <1>4, KryptonitesAre DEF PolledOut
<1>7. \A secure \in BOOLEAN : /\ Secured(k, secure) \in BOOLEAN
                              /\ Secured(k, secure) => secure \/ k.key # None
  BY <1>1 DEF Secured
<1> QED BY <1>2, <1>5, <1>6, <1>7

\* The event that asks the user is taken.
LEMMA AskingKeeps ==
  ASSUME NEW k \in Record(Seq({"secure", "confirm"})), k.events = <<"confirm", "secure">>,
         k.met, k.key # None
  PROVE  /\ Asks(k)
         /\ [k EXCEPT !.events = Tail(@)] \in Conversation
         /\ [k EXCEPT !.events = Tail(@)].key = k.key
<1>1. Tail(k.events) = <<"secure">> /\ <<"secure">> \in Seq({"secure"}) /\ Head(k.events) = "confirm"
  OBVIOUS
<1>2. k.events # <<>>
  OBVIOUS
<1> QED BY <1>1, <1>2 DEF Asks, Conversation, Record

\* The conversation is closed, or stays as it is.
LEMMA ClosedKeeps ==
  /\ NoConversation \in Conversation
  /\ \A k \in Conversation : Closed(k) \in Conversation
<1>1. <<>> \in Seq({"secure"}) /\ <<>> \in Seq(Otr) /\ <<"none">> \in Auth
  BY DEF Auth
<1>2. NoConversation \in Conversation
  BY <1>1 DEF NoConversation, Conversation, Record
<1> QED BY <1>2 DEF Closed

\* What Bottom sends.
LEMMA SendingKeeps ==
  ASSUME NEW k \in Conversation, NEW body \in {"Request", "Answer"}
  PROVE  /\ Sending(k) \in Conversation /\ Sending(k).key = k.key
         /\ Bottom(Cipher(k, body)) \in Unsyn
<1>1. Sending(k) \in Conversation /\ Sending(k).key = k.key /\ k.key \in Key \cup {None}
  BY DEF Sending, Conversation, Record
<1>2. Cipher(k, body) \in Ciphers
  BY <1>1 DEF Cipher, Ciphers
<1>3. Bottom(Cipher(k, body)) \in [type : {"Bottom"}, otr : Ciphers]
  BY <1>2 DEF Bottom
<1> QED BY <1>1, <1>3 DEF Unsyn, Message

-----------------------------------------------------------------------------
(* What a session makes of a message *)

\* A session that goes on has the key it had, and its conversation too.
Outcome(s, k, r) ==
  /\ r.sess \in Session /\ r.conv \in Conversation /\ r.out \in Seq(Unsyn)
  /\ r.sess.key = s.key /\ r.sess.heard = s.heard /\ r.sess.secure = s.secure
  /\ r.sess.state \in {s.state, "ExchangingKeys"}
  /\ r.sess.running => s.running /\ r.sess.state = "ExchangingKeys" /\ r.conv.key = k.key

\* The end of a session.
LEMMA TornDownOutcome ==
  ASSUME NEW s \in Session, NEW k \in Conversation
  PROVE  /\ Outcome(s, k, TornDown(s, k))
         /\ TornDown(s, k).sess.state = s.state /\ ~TornDown(s, k).sess.running
         /\ TornDown(s, k).conv = Closed(k) /\ TornDown(s, k).out = <<>>
<1> DEFINE t == [s EXCEPT !.running = FALSE]
<1>1. /\ t \in Session /\ t.running = FALSE /\ t.key = s.key /\ t.heard = s.heard
      /\ t.secure = s.secure /\ t.state = s.state
  BY DEF Session
<1>2. TornDown(s, k).sess = t /\ TornDown(s, k).conv = Closed(k) /\ TornDown(s, k).out = <<>>
  BY DEF TornDown, Result
<1>3. <<>> \in Seq(Unsyn) /\ Closed(k) \in Conversation
  BY ClosedKeeps
<1> HIDE DEF t
<1> QED BY <1>1, <1>2, <1>3 DEF Outcome

\* A session whose partner is there exchanges keys, or ends.
LEMMA ConfirmedOutcome ==
  ASSUME NEW s \in Session, NEW k \in Conversation
  PROVE  Outcome(s, k, Confirmed(s, k))
<1> DEFINE t == [s EXCEPT !.state = "ExchangingKeys"]
           l == [k EXCEPT !.open = TRUE]
           q == Kryptonite(<<"Query">>)
<1>1. /\ t \in Session /\ t.running = s.running /\ t.key = s.key /\ t.heard = s.heard
      /\ t.secure = s.secure /\ t.state = "ExchangingKeys"
  BY DEF Session
<1>2. l \in Conversation /\ l.key = k.key
  BY DEF Conversation, Record
<1>3. <<>> \in Seq(Unsyn) /\ <<q>> \in Seq(Unsyn)
  <2>1. <<"Query">> \in Otr
    BY DEF Otr
  <2>2. q \in Unsyn
    BY <2>1, KryptonitesAre
  <2> QED BY <2>2
<1>4. \/ Confirmed(s, k) = Result(t, k, <<>>)
      \/ Confirmed(s, k) = TornDown(t, k)
      \/ Confirmed(s, k) = Result(t, l, <<q>>)
  BY DEF Confirmed
<1> HIDE DEF t, l, q
<1>5. CASE Confirmed(s, k) = Result(t, k, <<>>)
  BY <1>1, <1>3, <1>5 DEF Outcome, Result
<1>6. CASE Confirmed(s, k) = TornDown(t, k)
  BY <1>1, <1>6, TornDownOutcome DEF Outcome
<1>7. CASE Confirmed(s, k) = Result(t, l, <<q>>)
  BY <1>1, <1>2, <1>3, <1>7 DEF Outcome, Result
<1> QED BY <1>4, <1>5, <1>6, <1>7

\* A SYN or an ACK.
LEMMA SynAckOutcome ==
  ASSUME NEW s \in Session, NEW k \in Conversation
  PROVE  Outcome(s, k, SynReceived(s, k)) /\ Outcome(s, k, AckReceived(s, k))
<1> DEFINE c == Confirmed(s, k)
           a == Surface("Ack")
           r == [c EXCEPT !.out = <<a>> \o @]
<1>1. Outcome(s, k, c)
  BY ConfirmedOutcome
<1>2. c = [sess |-> c.sess, conv |-> c.conv, out |-> c.out]
  BY DEF Confirmed, TornDown, Result
<1>3. a \in Unsyn
  BY DEF Surface, Unsyn, Message
<1> HIDE DEF c, a
<1>4. <<a>> \o c.out \in Seq(Unsyn)
  BY <1>1, <1>3 DEF Outcome
<1>5. r.sess = c.sess /\ r.conv = c.conv /\ r.out = <<a>> \o c.out
  BY <1>2
<1>6. Outcome(s, k, r)
  BY <1>1, <1>4, <1>5 DEF Outcome
<1>7. SynReceived(s, k) = r \/ SynReceived(s, k) = TornDown(s, k)
  BY DEF SynReceived, c, a
<1>8. AckReceived(s, k) = c \/ AckReceived(s, k) = TornDown(s, k)
  BY DEF AckReceived, c
<1>9. Outcome(s, k, TornDown(s, k))
  BY TornDownOutcome
<1> HIDE DEF r
<1> QED BY <1>1, <1>6, <1>7, <1>8, <1>9

-----------------------------------------------------------------------------
(* The messages on their way *)

SynsAt(q) == {i \in DOMAIN q : q[i].type = "Syn"}
Syns(q) == Cardinality(SynsAt(q))

\* How many SYN messages are on their way, before and after a message is taken or sent.
LEMMA SynsCounted ==
  ASSUME NEW q \in Seq(Message)
  PROVE  /\ IsFiniteSet(SynsAt(q)) /\ Syns(q) \in Nat
         /\ \A out \in Seq(Unsyn) : q \o out \in Seq(Message) /\ Syns(q \o out) = Syns(q)
         /\ q # <<>> => /\ Tail(q) \in Seq(Message) /\ Syns(Tail(q)) <= Syns(q)
                        /\ Head(q).type = "Syn" => Syns(Tail(q)) + 1 <= Syns(q)
         /\ q \o <<Surface("Syn")>> \in Seq(Message)
         /\ Syns(q \o <<Surface("Syn")>>) = Syns(q) + 1
<1>1. DOMAIN q = 1..Len(q) /\ Len(q) \in Nat
  OBVIOUS
<1>2. \A r \in Seq(Message) : IsFiniteSet(SynsAt(r)) /\ Syns(r) \in Nat
  <2> SUFFICES ASSUME NEW r \in Seq(Message) PROVE IsFiniteSet(SynsAt(r)) /\ Syns(r) \in Nat
    OBVIOUS
  <2>1. IsFiniteSet(1..Len(r))
    BY FS_Interval
  <2>2. SynsAt(r) \subseteq 1..Len(r)
    BY DEF SynsAt
  <2>3. IsFiniteSet(SynsAt(r))
    BY <2>1, <2>2, FS_Subset
  <2> QED BY <2>3, FS_CardinalityType DEF Syns
<1>3. ASSUME NEW out \in Seq(Unsyn)
      PROVE  q \o out \in Seq(Message) /\ Syns(q \o out) = Syns(q)
  <2>1. Unsyn \subseteq Message
    BY DEF Unsyn
  <2>2. out \in Seq(Message)
    BY <2>1, SeqMonotonic
  <2>3. /\ q \o out \in Seq(Message) /\ Len(q \o out) = Len(q) + Len(out)
        /\ \A i \in 1..Len(q) + Len(out) :
             (q \o out)[i] = IF i <= Len(q) THEN q[i] ELSE out[i - Len(q)]
    BY <2>2, ConcatProperties
  <2>4. Len(out) \in Nat /\ \A i \in 1..Len(out) : out[i] \in Unsyn
    OBVIOUS
  <2> DEFINE s == q \o out
  <2>5. DOMAIN s = 1..Len(q) + Len(out)
    BY <2>3
  <2> HIDE DEF s
  <2>6. \A i \in DOMAIN s : i \notin DOMAIN q => s[i].type # "Syn"
    <3> SUFFICES ASSUME NEW i \in DOMAIN s, i \notin DOMAIN q PROVE s[i].type # "Syn"
      OBVIOUS
    <3>1. i - Len(q) \in 1..Len(out) /\ s[i] = out[i - Len(q)]
      BY <1>1, <2>3, <2>4, <2>5 DEF s
    <3> QED BY <2>4, <3>1 DEF Unsyn
  <2>7. \A i \in DOMAIN q : i \in DOMAIN s /\ s[i] = q[i]
    BY <1>1, <2>3, <2>4, <2>5 DEF s
  <2>8. SynsAt(s) = SynsAt(q)
    BY <2>6, <2>7 DEF SynsAt
  <2> QED BY <2>3, <2>8 DEF Syns, s
<1>4. ASSUME q # <<>>
      PROVE  /\ Tail(q) \in Seq(Message) /\ Syns(Tail(q)) <= Syns(q)
             /\ Head(q).type = "Syn" => Syns(Tail(q)) + 1 <= Syns(q)
  <2> DEFINE t == Tail(q)
             f == [i \in SynsAt(t) |-> i + 1]
             rest == SynsAt(q) \ {1}
  <2>1. /\ t \in Seq(Message) /\ DOMAIN t = 1..Len(q) - 1 /\ Head(q) = q[1] /\ 1 \in DOMAIN q
        /\ \A i \in DOMAIN t : t[i] = q[i + 1] /\ i + 1 \in DOMAIN q /\ i + 1 # 1 /\ i \in Nat
    BY <1>1, <1>4
  <2> HIDE DEF t
  <2>2. f \in Injection(SynsAt(t), rest)
    <3>1. \A i \in SynsAt(t) : i + 1 \in rest /\ i \in Nat
      BY <2>1 DEF SynsAt
    <3> HIDE DEF rest
    <3> QED BY <3>1 DEF Injection, IsInjective
  <2>3. IsFiniteSet(rest)
    BY <1>2, FS_Subset
  <2>4. Cardinality(SynsAt(t)) <= Cardinality(rest)
    <3> HIDE DEF f, rest
    <3> QED BY <2>2, <2>3, FS_Injection
  <2>5. Cardinality(rest) = IF 1 \in SynsAt(q) THEN Cardinality(SynsAt(q)) - 1
                                               ELSE Cardinality(SynsAt(q))
    BY <1>2, FS_RemoveElement
  <2>6. Head(q).type = "Syn" => 1 \in SynsAt(q)
    BY <2>1 DEF SynsAt
  <2>7. Cardinality(SynsAt(t)) \in Nat /\ Cardinality(SynsAt(q)) \in Nat
    BY <1>2, <2>1 DEF Syns
  <2> HIDE DEF rest
  <2>8. Syns(t) <= Syns(q) /\ (Head(q).type = "Syn" => Syns(t) + 1 <= Syns(q))
    BY <2>4, <2>5, <2>6, <2>7 DEF Syns
  <2> QED BY <2>1, <2>8 DEF t
<1>5. /\ q \o <<Surface("Syn")>> \in Seq(Message)
      /\ Syns(q \o <<Surface("Syn")>>) = Syns(q) + 1
  <2> DEFINE m == Surface("Syn")
             n == Len(q) + 1
             s == q \o <<m>>
  <2>1. m \in Message /\ m.type = "Syn"
    BY DEF Surface, Message
  <2> HIDE DEF m
  <2>2. /\ s \in Seq(Message) /\ DOMAIN s = 1..n /\ s[n] = m
        /\ \A i \in DOMAIN q : i \in DOMAIN s /\ s[i] = q[i]
        /\ \A i \in DOMAIN s : i \in DOMAIN q \/ i = n
        /\ n \notin DOMAIN q /\ n \in DOMAIN s
    BY <1>1, <2>1
  <2> HIDE DEF s, n
  <2>3. SynsAt(s) = SynsAt(q) \cup {n} /\ n \notin SynsAt(q)
    BY <2>1, <2>2 DEF SynsAt
  <2>4. Cardinality(SynsAt(q) \cup {n}) = Cardinality(SynsAt(q)) + 1
    BY <1>2, <2>3, FS_AddElement
  <2> QED BY <2>2, <2>3, <2>4 DEF Syns, s, m
<1> QED BY <1>2, <1>3, <1>4, <1>5

-----------------------------------------------------------------------------
(* The invariant *)

Types ==
  /\ dialled \in 0..MaxCalls /\ hungUp \in 0..dialled
  /\ rung \in [Peer -> Nat] /\ over \in [Peer -> Nat]
  /\ handler \in [Peer -> 0..MaxCalls] /\ active \in [Peer -> 0..MaxCalls]
  /\ starting \in [Peer -> BOOLEAN] /\ pending \in [Peer -> Nat]
  /\ sess \in [Peer -> [Call -> Session]] /\ conv \in [Peer -> Conversation]
  /\ nonce \in [Peer -> Nat] /\ thread \in [Peer -> Thread] /\ net \in [Peer -> Seq(Message)]

\* The calls a peer heard of, and the sessions Surface messages and ends go to.
CallsOK(p) ==
  /\ over[p] <= rung[p] /\ rung[p] <= dialled /\ handler[p] <= rung[p]
  /\ active[p] \in {0, handler[p]}
  /\ starting[p] => handler[p] # 0

\* Every SYN was sent by a session of its own.
SynsOK(p) ==
  pending[p] + Syns(net[p]) + (IF starting[Other(p)] THEN 1 ELSE 0) <= handler[Other(p)]

\* The session that messages go to has a key when it routes, and the conversation
\* has one when the session is secure.  It was not secured yet when the handler of
\* a message still works for an earlier session.
SessionOK(p, c) ==
  LET s == sess[p][c]
  IN  /\ c > handler[p] => s = NewSession
      /\ s.running /\ s.secure => s.state \in {"ExchangingKeys", "Routing"}
      /\ s.heard => s.key # None
      /\ c = handler[p] /\ s.running => /\ s.secure => conv[p].key # None
                                        /\ s.state = "Routing" => s.key # None
      /\ c = handler[p] /\ thread[p] # Idle /\ thread[p].c # c => ~s.secure /\ s.state # "Routing"

Exchanges(p, c) == sess[p][c].state \in {"ExchangingKeys", "Routing"}

HandlerOK(p) ==
  /\ thread[p] # Idle => thread[p].c <= handler[p]
  /\ thread[p].at \in {"deploying", "asking"} => Exchanges(p, thread[p].c)
  /\ \A c \in Call : SessionOK(p, c)

PeerOK(p) == CallsOK(p) /\ SynsOK(p) /\ HandlerOK(p)

SurfaceInv == Types /\ \A p \in Peer : PeerOK(p)

-----------------------------------------------------------------------------
(* What a step of a peer may change *)

\* The two peers.
LEMMA TwoPeers ==
  ASSUME NEW p \in Peer
  PROVE  /\ Other(p) \in Peer /\ Other(p) # p /\ Other(Other(p)) = p
         /\ \A q \in Peer : q = p \/ q = Other(p)
  BY PeersAssumption DEF Other

\* The kinds of values a handler, a session and a conversation have.
LEMMA ThreadIs ==
  /\ Idle \in Thread /\ Idle.at = "idle"
  /\ \A t \in Thread : /\ t # Idle => t.c \in Call /\ t.at # "idle"
                       /\ t.at \in {"idle", "deploying", "asking", "changed", "encrypt", "answer"}
                       /\ t.at = "encrypt" => t.key \in Key
  /\ \A c \in Call, at \in {"deploying", "asking", "changed", "answer"} :
       [at |-> at, c |-> c] \in Thread /\ [at |-> at, c |-> c] # Idle
  /\ \A c \in Call, key \in Key :
       [at |-> "encrypt", c |-> c, key |-> key] \in Thread /\ [at |-> "encrypt", c |-> c, key |-> key] # Idle
<1>1. Idle.at = "idle"
  BY DEF Idle
<1>2. \A t \in Thread : t # Idle => \/ t \in [at : {"deploying", "asking", "changed", "answer"}, c : Call]
                                    \/ t \in [at : {"encrypt"}, c : Call, key : Key]
  BY DEF Thread
<1>3. ASSUME NEW c \in Call, NEW at \in {"deploying", "asking", "changed", "answer"}
      PROVE  [at |-> at, c |-> c] \in Thread /\ [at |-> at, c |-> c] # Idle
  <2>1. [at |-> at, c |-> c].at # "idle"
    OBVIOUS
  <2> QED BY <1>1, <2>1 DEF Thread
<1>4. ASSUME NEW c \in Call, NEW key \in Key
      PROVE  /\ [at |-> "encrypt", c |-> c, key |-> key] \in Thread
             /\ [at |-> "encrypt", c |-> c, key |-> key] # Idle
  <2>1. [at |-> "encrypt", c |-> c, key |-> key].at # "idle"
    OBVIOUS
  <2> QED BY <1>1, <2>1 DEF Thread
<1>5. Idle \in Thread
  BY DEF Thread
<1> HIDE DEF Idle, Thread, Key
<1>6. ASSUME NEW t \in Thread
      PROVE  /\ t # Idle => t.c \in Call /\ t.at # "idle"
             /\ t.at \in {"idle", "deploying", "asking", "changed", "encrypt", "answer"}
             /\ t.at = "encrypt" => t.key \in Key
  BY <1>1, <1>2
<1> QED BY <1>1, <1>3, <1>4, <1>5, <1>6

\* Sending messages of which none is a SYN.
LEMMA Sent ==
  ASSUME Types, NEW p \in Peer, NEW out \in Seq(Unsyn), Send(p, out)
  PROVE  /\ net' \in [Peer -> Seq(Message)] /\ net'[p] = net[p]
         /\ Syns(net'[Other(p)]) = Syns(net[Other(p)])
<1> DEFINE q == Other(p)
<1>1. q \in Peer /\ q # p /\ net[q] \in Seq(Message) /\ net \in [Peer -> Seq(Message)]
  BY TwoPeers DEF Types
<1>2. net[q] \o out \in Seq(Message) /\ Syns(net[q] \o out) = Syns(net[q])
  BY <1>1, SynsCounted
<1>3. net' = [net EXCEPT ![q] = net[q] \o out]
  BY DEF Send
<1> HIDE DEF q
<1>4. net'[q] = net[q] \o out /\ net'[p] = net[p] /\ net' \in [Peer -> Seq(Message)]
  BY <1>1, <1>2, <1>3
<1> QED BY <1>2, <1>4 DEF q

\* Taking a message, and sending others of which none is a SYN.
LEMMA Answered ==
  ASSUME Types, NEW p \in Peer, NEW out \in Seq(Unsyn), Answer(p, out), net[p] # <<>>
  PROVE  /\ net' \in [Peer -> Seq(Message)]
         /\ Syns(net'[p]) <= Syns(net[p])
         /\ Head(net[p]).type = "Syn" => Syns(net'[p]) + 1 <= Syns(net[p])
         /\ Syns(net'[Other(p)]) = Syns(net[Other(p)])
<1> DEFINE q == Other(p)
<1>1. /\ q \in Peer /\ q # p /\ net[q] \in Seq(Message) /\ net[p] \in Seq(Message)
      /\ net \in [Peer -> Seq(Message)]
  BY TwoPeers DEF Types
<1>2. net[q] \o out \in Seq(Message) /\ Syns(net[q] \o out) = Syns(net[q])
  BY <1>1, SynsCounted
<1>3. /\ Tail(net[p]) \in Seq(Message) /\ Syns(Tail(net[p])) <= Syns(net[p])
      /\ Head(net[p]).type = "Syn" => Syns(Tail(net[p])) + 1 <= Syns(net[p])
  BY <1>1, SynsCounted
<1>4. net' = [net EXCEPT ![p] = Tail(net[p]), ![q] = net[q] \o out]
  BY <1>1 DEF Answer
<1> HIDE DEF q
<1>5. net'[q] = net[q] \o out /\ net'[p] = Tail(net[p]) /\ net' \in [Peer -> Seq(Message)]
  BY <1>1, <1>2, <1>3, <1>4
<1> QED BY <1>2, <1>3, <1>5 DEF q

\* What a session and its conversation become.
LEMMA Became ==
  ASSUME Types, NEW p \in Peer, NEW c \in Call, NEW r,
         r.sess \in Session, r.conv \in Conversation, Becomes(p, c, r)
  PROVE  /\ sess' \in [Peer -> [Call -> Session]] /\ conv' \in [Peer -> Conversation]
         /\ sess'[p][c] = r.sess /\ conv'[p] = r.conv
         /\ \A d \in Call : d # c => sess'[p][d] = sess[p][d]
         /\ \A q \in Peer : q # p => sess'[q] = sess[q] /\ conv'[q] = conv[q]
  BY DEF Types, Becomes

\* The rest of the invariant, when one peer has made a step.
Aside(q) ==
  /\ rung'[q] = rung[q] /\ over'[q] = over[q] /\ handler'[q] = handler[q]
  /\ active'[q] = active[q] /\ starting'[q] = starting[q] /\ pending'[q] = pending[q]
  /\ sess'[q] = sess[q] /\ conv'[q] = conv[q] /\ thread'[q] = thread[q]

\* One peer's step keeps what holds of the other, but for the numbers of SYN messages.
LEMMA StepKeeps ==
  ASSUME SurfaceInv, NEW p \in Peer, Types', Aside(Other(p)), dialled <= dialled',
         CallsOK(p)', HandlerOK(p)', SynsOK(p)', SynsOK(Other(p))'
  PROVE  SurfaceInv'
<1> DEFINE q == Other(p)
<1>1. q \in Peer /\ \A r \in Peer : r = p \/ r = q
  BY TwoPeers
<1>2. CallsOK(q) /\ HandlerOK(q) /\ Types
  BY <1>1 DEF SurfaceInv, PeerOK
<1>3. CallsOK(q)'
  <2>1. rung[q] \in Nat /\ dialled \in Nat /\ dialled' \in Nat
    BY <1>1, <1>2, CallsAssumption DEF Types
  <2> QED BY <1>2, <2>1 DEF CallsOK, Aside
<1>4. HandlerOK(q)'
  BY <1>2 DEF HandlerOK, SessionOK, Exchanges, Aside
<1> HIDE DEF q
<1>5. PeerOK(p)' /\ PeerOK(q)'
  BY <1>3, <1>4 DEF PeerOK, q
<1> QED BY <1>1, <1>5 DEF SurfaceInv

\* The number of SYN messages, when none is sent and no session begins.
LEMMA SynsKept ==
  ASSUME SurfaceInv, NEW p \in Peer, Types', Aside(Other(p)),
         pending'[p] + Syns(net'[p]) <= pending[p] + Syns(net[p]),
         Syns(net'[Other(p)]) = Syns(net[Other(p)]),
         starting'[p] = starting[p], handler'[p] = handler[p]
  PROVE  SynsOK(p)' /\ SynsOK(Other(p))'
<1> DEFINE q == Other(p)
<1>1. q \in Peer /\ q # p /\ Other(q) = p
  BY TwoPeers
<1>2. SynsOK(p) /\ SynsOK(q) /\ Types
  BY <1>1 DEF SurfaceInv, PeerOK
<1>3. /\ Syns(net[p]) \in Nat /\ Syns(net[q]) \in Nat /\ Syns(net'[p]) \in Nat
      /\ pending[p] \in Nat /\ pending'[p] \in Nat /\ handler[q] \in Nat
  BY <1>1, <1>2, SynsCounted, CallsAssumption DEF Types
<1>4. SynsOK(p)'
  <2>1. starting'[q] = starting[q] /\ handler'[q] = handler[q]
    BY DEF Aside
  <2>2. pending'[p] + Syns(net'[p]) + (IF starting[q] THEN 1 ELSE 0) <= handler[q]
    BY <1>2, <1>3 DEF SynsOK
  <2> QED BY <2>1, <2>2 DEF SynsOK, Syns
<1>5. SynsOK(q)'
  <2>1. pending'[q] = pending[q]
    BY DEF Aside
  <2>2. pending[q] + Syns(net[q]) + (IF starting[p] THEN 1 ELSE 0) <= handler[p]
    BY <1>1, <1>2 DEF SynsOK
  <2>3. pending'[q] + Syns(net'[q]) + (IF starting'[p] THEN 1 ELSE 0) <= handler'[p]
    BY <2>1, <2>2
  <2> QED BY <1>1, <2>3 DEF SynsOK, Syns
<1> QED BY <1>4, <1>5

\* The sessions of a peer, when only that of call c has changed: the last one, or
\* the one that the handler of a message works for.
LEMMA HandlerKept ==
  ASSUME SurfaceInv, Types', NEW p \in Peer, NEW c \in Call,
         c <= handler[p], handler'[p] = handler[p],
         c = handler[p] \/ (thread[p] # Idle /\ thread[p].c = c),
         \A d \in Call : d # c => sess'[p][d] = sess[p][d],
         \/ thread'[p] = Idle
         \/ thread'[p] = thread[p] /\ sess'[p][c].state = sess[p][c].state
         \/ thread'[p].c = c /\ (thread'[p].at \in {"deploying", "asking"} => Exchanges(p, c)'),
         SessionOK(p, c)'
  PROVE  HandlerOK(p)'
<1>1. HandlerOK(p) /\ handler[p] \in Nat
  BY CallsAssumption DEF SurfaceInv, PeerOK, Types
<1>2. thread'[p] # Idle => thread'[p].c <= handler'[p]
  BY <1>1 DEF HandlerOK
<1>3. (thread[p].at \in {"deploying", "asking"} => Exchanges(p, thread[p].c)) /\ (thread[p] # Idle => thread[p].c \in Call)
  BY <1>1, ThreadIs DEF HandlerOK, SurfaceInv, Types
<1>4. thread'[p].at \in {"deploying", "asking"} => Exchanges(p, thread[p].c)'
  <2>1. CASE thread'[p] = Idle
    BY <2>1, ThreadIs
  <2>2. CASE thread'[p] = thread[p] /\ sess'[p][c].state = sess[p][c].state
    <3>1. CASE thread[p] = Idle
      BY <2>2, <3>1, ThreadIs
    <3>2. CASE thread[p] # Idle
      BY <1>3, <2>2, <3>2 DEF Exchanges
    <3> QED BY <3>1, <3>2
  <2>3. CASE thread'[p].c = c /\ (thread'[p].at \in {"deploying", "asking"} => Exchanges(p, c)')
    BY <2>3 DEF Exchanges
  <2> QED BY <2>1, <2>2, <2>3
<1>5. ASSUME NEW d \in Call, d # c PROVE SessionOK(p, d)'
  <2>1. SessionOK(p, d) /\ sess'[p][d] = sess[p][d]
    BY <1>1, <1>5 DEF HandlerOK
  <2>2. d = handler[p] => ~sess[p][d].secure /\ sess[p][d].state # "Routing"
    BY <1>5, <2>1 DEF SessionOK
  <2> QED BY <2>1, <2>2 DEF SessionOK
<1> QED BY <1>2, <1>4, <1>5 DEF HandlerOK

\* The last session, and what became of it.
LEMMA OutcomeKeeps ==
  ASSUME SurfaceInv, Types', NEW p \in Peer, NEW c \in Call, c = handler[p], handler'[p] = handler[p],
         NEW r, Outcome(sess[p][c], conv[p], r), sess'[p][c] = r.sess, conv'[p] = r.conv,
         thread'[p] \in {Idle, thread[p]}
  PROVE  SessionOK(p, c)'
<1>1. SessionOK(p, c)
  BY DEF SurfaceInv, PeerOK, HandlerOK
<1>2. c \in Nat
  BY CallsAssumption DEF Call
<1> QED BY <1>1, <1>2 DEF SessionOK, Outcome

-----------------------------------------------------------------------------
(* The initial state *)

\* Nothing has been dialled, begun or sent.
LEMMA InitKeeps == Init => SurfaceInv
<1> SUFFICES ASSUME Init PROVE SurfaceInv
  OBVIOUS
<1>1. NewSession \in Session /\ NewSession.secure = FALSE /\ NewSession.heard = FALSE
      /\ NewSession.state = "Start"
  BY DEF NewSession, Session
<1>2. <<>> \in Seq(Message) /\ NoConversation \in Conversation /\ Idle \in Thread
  BY ClosedKeeps, ThreadIs
<1>3. /\ dialled \in 0..MaxCalls /\ hungUp \in 0..dialled
      /\ rung \in [Peer -> Nat] /\ over \in [Peer -> Nat]
      /\ handler \in [Peer -> 0..MaxCalls] /\ active \in [Peer -> 0..MaxCalls]
      /\ starting \in [Peer -> BOOLEAN] /\ pending \in [Peer -> Nat] /\ nonce \in [Peer -> Nat]
  BY CallsAssumption DEF Init
<1> HIDE DEF NewSession, NoConversation, Idle
<1>4. sess \in [Peer -> [Call -> Session]] /\ \A p \in Peer, c \in Call : sess[p][c] = NewSession
  BY <1>1 DEF Init
<1>5. /\ conv \in [Peer -> Conversation] /\ thread \in [Peer -> Thread] /\ net \in [Peer -> Seq(Message)]
      /\ \A p \in Peer : thread[p] = Idle /\ net[p] = <<>>
  BY <1>2 DEF Init
<1>6. Types
  BY <1>3, <1>4, <1>5 DEF Types
<1>7. ASSUME NEW p \in Peer PROVE PeerOK(p)
  <2>1. CallsOK(p)
    BY DEF Init, CallsOK
  <2>2. SynsOK(p)
    <3>1. SynsAt(net[p]) = {}
      BY <1>5 DEF SynsAt
    <3>2. Syns(net[p]) = 0
      BY <3>1, FS_EmptySet DEF Syns
    <3>3. pending[p] = 0 /\ starting[Other(p)] = FALSE /\ handler[Other(p)] = 0
      BY TwoPeers DEF Init
    <3> QED BY <3>2, <3>3 DEF SynsOK
  <2>3. HandlerOK(p)
    <3>1. \A c \in Call : sess[p][c] = NewSession
      BY <1>4
    <3>2. thread[p] = Idle /\ Idle.at \notin {"deploying", "asking"}
      BY <1>5, ThreadIs
    <3>3. \A c \in Call : SessionOK(p, c)
      BY <1>1, <3>1, <3>2 DEF SessionOK
    <3> QED BY <3>2, <3>3 DEF HandlerOK
  <2> QED BY <2>1, <2>2, <2>3 DEF PeerOK
<1> QED BY <1>6, <1>7 DEF SurfaceInv

-----------------------------------------------------------------------------
(* The calls *)

\* Only what the peers heard of the calls has changed.
LEMMA CallsKeep ==
  ASSUME SurfaceInv, Types', \A p \in Peer : CallsOK(p)',
         UNCHANGED <<handler, active, starting, pending, sess, conv, thread, net>>
  PROVE  SurfaceInv'
<1> SUFFICES ASSUME NEW p \in Peer PROVE PeerOK(p)'
  BY DEF SurfaceInv
<1>1. SynsOK(p) /\ HandlerOK(p)
  BY DEF SurfaceInv, PeerOK
<1>2. SynsOK(p)'
  BY <1>1 DEF SynsOK, Syns, SynsAt
<1>3. \A c \in Call : SessionOK(p, c)'
  BY <1>1 DEF HandlerOK, SessionOK
<1>4. HandlerOK(p)'
  BY <1>1, <1>3 DEF HandlerOK, Exchanges
<1> QED BY <1>2, <1>4 DEF PeerOK

\* The types of what an action leaves alone.
LEMMA CallsAre ==
  ASSUME SurfaceInv, NEW p \in Peer
  PROVE  /\ dialled \in 0..MaxCalls /\ hungUp \in 0..dialled /\ MaxCalls \in Nat
         /\ rung[p] \in Nat /\ over[p] \in Nat /\ over[p] <= rung[p] /\ rung[p] <= dialled
         /\ handler[p] \in 0..MaxCalls /\ handler[p] <= rung[p] /\ active[p] \in {0, handler[p]}
         /\ starting[p] \in BOOLEAN /\ pending[p] \in Nat /\ nonce[p] \in Nat
         /\ conv[p] \in Conversation /\ thread[p] \in Thread /\ net[p] \in Seq(Message)
         /\ \A c \in Call : sess[p][c] \in Session
  BY CallsAssumption DEF SurfaceInv, Types, PeerOK, CallsOK

\* Skype's calls begin and end, and a peer hears of them without a session.
LEMMA QuietCalls ==
  ASSUME SurfaceInv, \/ Dial \/ HangUp \/ \E p \in Peer : NewCallIgnored(p) \/ EndUnheard(p)
  PROVE  SurfaceInv'
<1>1. CASE Dial \/ HangUp
  <2>1. UNCHANGED <<rung, over, handler, active, starting, pending, sess, conv, nonce, thread, net>>
    BY <1>1 DEF Dial, HangUp
  <2>2. Types /\ MaxCalls \in Nat
    BY CallsAssumption DEF SurfaceInv
  <2>3. dialled' \in 0..MaxCalls /\ hungUp' \in 0..dialled' /\ dialled <= dialled'
    BY <1>1, <2>2 DEF Dial, HangUp, Types
  <2>4. Types'
    BY <2>1, <2>2, <2>3 DEF Types
  <2>5. \A p \in Peer : CallsOK(p)'
    <3> SUFFICES ASSUME NEW p \in Peer PROVE CallsOK(p)'
      OBVIOUS
    <3>1. CallsOK(p) /\ rung[p] \in Nat /\ dialled \in Nat /\ dialled' \in Nat
      BY <2>2, <2>3 DEF SurfaceInv, PeerOK, Types
    <3> QED BY <2>1, <2>3, <3>1 DEF CallsOK
  <2> QED BY <2>1, <2>4, <2>5, CallsKeep
<1>2. ASSUME NEW p \in Peer, NewCallIgnored(p) \/ EndUnheard(p) PROVE SurfaceInv'
  <2>1. UNCHANGED <<dialled, hungUp, handler, active, starting, pending, sess, conv, nonce, thread, net>>
    BY <1>2 DEF NewCallIgnored, EndUnheard, Rings, Ends, CallEvent
  <2>2. Types
    BY DEF SurfaceInv
  <2>3. /\ rung' = [rung EXCEPT ![p] = rung'[p]] /\ over' = [over EXCEPT ![p] = over'[p]]
        /\ over'[p] \in Nat /\ rung'[p] \in Nat
        /\ over'[p] <= rung'[p] /\ rung'[p] <= dialled /\ rung[p] <= rung'[p]
    <3>1. CASE NewCallIgnored(p)
      BY <2>2, <3>1, CallsAre DEF NewCallIgnored, Rings, Types
    <3>2. CASE EndUnheard(p)
      BY <2>2, <3>2, CallsAre DEF EndUnheard, Ends, Types
    <3> QED BY <1>2, <3>1, <3>2
  <2>4. rung' \in [Peer -> Nat] /\ over' \in [Peer -> Nat]
    BY <2>2, <2>3 DEF Types
  <2>5. Types'
    BY <2>1, <2>2, <2>4 DEF Types
  <2>6. ASSUME NEW q \in Peer PROVE CallsOK(q)'
    <3>1. CallsOK(q)
      BY DEF SurfaceInv, PeerOK
    <3>2. CASE q = p
      BY <2>1, <2>3, <3>1, <3>2, CallsAre DEF CallsOK
    <3>3. CASE q # p
      <4>1. rung'[q] = rung[q] /\ over'[q] = over[q]
        BY <2>2, <2>3, <3>3 DEF Types
      <4> QED BY <2>1, <3>1, <4>1 DEF CallsOK
    <3> QED BY <3>2, <3>3
  <2> QED BY <2>1, <2>5, <2>6, CallsKeep
<1> QED BY <1>1, <1>2

-----------------------------------------------------------------------------
(* The messages *)

\* A step of a handler leaves the calls and the other peer alone.
Beside(p) ==
  /\ UNCHANGED <<dialled, hungUp, rung, over, handler, active, starting>>
  /\ \A q \in Peer : q # p => /\ pending'[q] = pending[q] /\ sess'[q] = sess[q]
                              /\ conv'[q] = conv[q] /\ thread'[q] = thread[q]

\* What is left to show of a handler's step.
LEMMA HandlerStep ==
  ASSUME SurfaceInv, NEW p \in Peer, Types', Beside(p), HandlerOK(p)',
         pending'[p] + Syns(net'[p]) <= pending[p] + Syns(net[p]),
         Syns(net'[Other(p)]) = Syns(net[Other(p)])
  PROVE  SurfaceInv'
<1>1. Other(p) \in Peer /\ Other(p) # p
  BY TwoPeers
<1>2. Aside(Other(p)) /\ starting'[p] = starting[p] /\ handler'[p] = handler[p] /\ dialled' = dialled
  BY <1>1 DEF Beside, Aside
<1>3. CallsOK(p)'
  BY DEF SurfaceInv, PeerOK, CallsOK, Beside
<1>4. SynsOK(p)' /\ SynsOK(Other(p))'
  BY <1>2, SynsKept
<1>5. dialled <= dialled'
  BY <1>2, CallsAre
<1> QED BY <1>2, <1>3, <1>4, <1>5, StepKeeps

\* The head of what is on its way.
LEMMA HeadOfNet ==
  ASSUME SurfaceInv, NEW p \in Peer, net[p] # <<>>
  PROVE  Head(net[p]) \in Message
  BY CallsAre

\* A SYN that comes before the call is kept.
LEMMA KeepSynKeeps ==
  ASSUME SurfaceInv, NEW p \in Peer, KeepSyn(p)
  PROVE  SurfaceInv'
<1>1. /\ Beside(p) /\ net[p] # <<>> /\ Head(net[p]).type = "Syn" /\ pending'[p] = pending[p] + 1
      /\ pending' \in [Peer -> Nat] /\ Types
      /\ UNCHANGED <<handler, sess, conv, nonce, thread>> /\ Answer(p, <<>>)
  BY SMTT(30) DEF KeepSyn, Incoming, Waits, Beside, SurfaceInv, Types
<1>2. <<>> \in Seq(Unsyn)
  OBVIOUS
<1>3. /\ net' \in [Peer -> Seq(Message)] /\ Syns(net'[p]) + 1 <= Syns(net[p])
      /\ Syns(net'[Other(p)]) = Syns(net[Other(p)])
  BY <1>1, <1>2, Answered
<1>4. Types'
  BY <1>1, <1>3 DEF Types, Beside
<1>5. HandlerOK(p)'
  <2>1. HandlerOK(p)
    BY DEF SurfaceInv, PeerOK
  <2>2. \A c \in Call : SessionOK(p, c)'
    BY <1>1, <2>1 DEF HandlerOK, SessionOK
  <2> QED BY <1>1, <2>1, <2>2 DEF HandlerOK, Exchanges
<1>6. pending'[p] + Syns(net'[p]) <= pending[p] + Syns(net[p])
  <2>1. Syns(net[p]) \in Nat /\ Syns(net'[p]) \in Nat /\ pending[p] \in Nat
    BY <1>1, <1>3, SynsCounted DEF Types
  <2> QED BY <1>1, <1>3, <2>1
<1> QED BY <1>1, <1>3, <1>4, <1>5, <1>6, HandlerStep

\* The session that messages go to, when the handler has nothing under way.
LEMMA LastSession ==
  ASSUME SurfaceInv, NEW p \in Peer, handler[p] # 0
  PROVE  /\ handler[p] \in Call /\ handler[p] <= handler[p]
         /\ SessionOK(p, handler[p]) /\ sess[p][handler[p]] \in Session
<1>1. handler[p] \in Call /\ handler[p] <= handler[p]
  BY CallsAre DEF Call
<1> QED BY <1>1, CallsAre DEF SurfaceInv, PeerOK, HandlerOK

\* A SYN or an ACK comes.
LEMMA SurfaceReceivedKeeps ==
  ASSUME SurfaceInv, NEW p \in Peer, NEW type \in {"Syn", "Ack"}, SurfaceReceived(p, type)
  PROVE  SurfaceInv'
<1> SUFFICES ASSUME NEW c \in Call, c = handler[p]
             PROVE  SurfaceInv'
  BY LastSession DEF SurfaceReceived
<1> DEFINE s == sess[p][c]
           r == IF ~s.running THEN Result(s, conv[p], <<>>)
                ELSE IF type = "Syn" THEN SynReceived(s, conv[p]) ELSE AckReceived(s, conv[p])
<1>1. /\ Incoming(p, type) /\ c # 0 /\ Becomes(p, c, r) /\ Answer(p, r.out)
      /\ UNCHANGED <<pending, nonce, trusted, thread>>
  BY DEF SurfaceReceived
<1>2. c <= handler[p] /\ s \in Session /\ conv[p] \in Conversation /\ Types
  BY <1>1, LastSession, CallsAre DEF SurfaceInv
<1>3. Outcome(s, conv[p], r)
  <2>1. CASE s.running
    BY <1>2, <2>1, SynAckOutcome
  <2>2. CASE ~s.running
    <3>1. <<>> \in Seq(Unsyn)
      OBVIOUS
    <3> QED BY <1>2, <2>2, <3>1 DEF Outcome, Result
  <2> QED BY <2>1, <2>2
<1> HIDE DEF r
<1>4. /\ net[p] # <<>> /\ thread[p] = Idle
      /\ UNCHANGED <<dialled, hungUp, rung, over, handler, active, starting>>
  BY <1>1 DEF Incoming, Waits
<1>5. r.sess \in Session /\ r.conv \in Conversation /\ r.out \in Seq(Unsyn)
  BY <1>3 DEF Outcome
<1>6. /\ sess' \in [Peer -> [Call -> Session]] /\ conv' \in [Peer -> Conversation]
      /\ sess'[p][c] = r.sess /\ conv'[p] = r.conv
      /\ \A d \in Call : d # c => sess'[p][d] = sess[p][d]
      /\ \A q \in Peer : q # p => sess'[q] = sess[q] /\ conv'[q] = conv[q]
  BY <1>1, <1>2, <1>5, Became
<1>7. /\ net' \in [Peer -> Seq(Message)] /\ Syns(net'[p]) <= Syns(net[p])
      /\ Syns(net'[Other(p)]) = Syns(net[Other(p)])
  BY <1>1, <1>2, <1>4, <1>5, Answered
<1>8. Beside(p) /\ thread'[p] = Idle /\ pending'[p] = pending[p] /\ handler'[p] = handler[p]
  BY <1>1, <1>4, <1>6 DEF Beside
<1>9. Types'
  BY <1>1, <1>2, <1>4, <1>6, <1>7 DEF Types
<1>10. SessionOK(p, c)'
  BY <1>3, <1>6, <1>8, <1>9, OutcomeKeeps
<1>11. HandlerOK(p)'
  BY <1>2, <1>6, <1>8, <1>9, <1>10, HandlerKept
<1>12. pending'[p] + Syns(net'[p]) <= pending[p] + Syns(net[p])
  <2>1. Syns(net[p]) \in Nat /\ Syns(net'[p]) \in Nat /\ pending[p] \in Nat
    BY <1>2, <1>7, SynsCounted DEF Types
  <2> QED BY <1>7, <1>8, <2>1
<1> QED BY <1>7, <1>8, <1>9, <1>11, <1>12, HandlerStep

\* A handler's step that works for one session: what it makes of the session, of the
\* conversation and of the handler itself.
LEMMA Handled ==
  ASSUME SurfaceInv, NEW p \in Peer, NEW c \in Call, NEW t \in Session, NEW k \in Conversation,
         NEW h \in Thread,
         c = handler[p] \/ (thread[p] # Idle /\ thread[p].c = c),
         UNCHANGED callVars,
         sess' = [sess EXCEPT ![p][c] = t], conv' = [conv EXCEPT ![p] = k],
         thread' = [thread EXCEPT ![p] = h],
         nonce' \in [Peer -> Nat], net' \in [Peer -> Seq(Message)],
         Syns(net'[p]) <= Syns(net[p]), Syns(net'[Other(p)]) = Syns(net[Other(p)]),
         h # Idle => h.c = c,
         h.at \in {"deploying", "asking"} => t.state \in {"ExchangingKeys", "Routing"},
         t.running /\ t.secure => t.state \in {"ExchangingKeys", "Routing"},
         t.heard => t.key # None,
         c = handler[p] /\ t.running => /\ t.secure => k.key # None
                                        /\ t.state = "Routing" => t.key # None
  PROVE  SurfaceInv'
<1>1. Types
  BY DEF SurfaceInv
<1>2. UNCHANGED <<dialled, hungUp, rung, over, handler, active, starting, pending>>
  BY DEF callVars
<1>3. /\ sess' \in [Peer -> [Call -> Session]] /\ sess'[p][c] = t
      /\ \A d \in Call : d # c => sess'[p][d] = sess[p][d]
      /\ \A q \in Peer : q # p => sess'[q] = sess[q]
  BY <1>1 DEF Types
<1>4. /\ conv' \in [Peer -> Conversation] /\ conv'[p] = k
      /\ \A q \in Peer : q # p => conv'[q] = conv[q]
  BY <1>1 DEF Types
<1>5. /\ thread' \in [Peer -> Thread] /\ thread'[p] = h
      /\ \A q \in Peer : q # p => thread'[q] = thread[q]
  BY <1>1 DEF Types
<1>6. Beside(p) /\ handler'[p] = handler[p]
  BY <1>2, <1>3, <1>4, <1>5 DEF Beside
<1>7. Types'
  BY <1>1, <1>2, <1>3, <1>4, <1>5 DEF Types
<1>8. c <= handler[p] /\ c \in Nat /\ handler[p] \in Nat
  <2>1. HandlerOK(p)
    BY DEF SurfaceInv, PeerOK
  <2>2. c \in Nat /\ handler[p] \in Nat
    BY CallsAre DEF Call
  <2> QED BY <2>1, <2>2 DEF HandlerOK
<1>9. SessionOK(p, c)'
  <2>1. handler' = handler
    BY <1>2
  <2> QED BY <1>3, <1>4, <1>5, <1>8, <2>1 DEF SessionOK
<1>10. HandlerOK(p)'
  <2>1. thread'[p] = Idle \/ (thread'[p].c = c /\ (thread'[p].at \in {"deploying", "asking"} => Exchanges(p, c)'))
    BY <1>3, <1>5 DEF Exchanges
  <2> QED BY <1>3, <1>6, <1>7, <1>8, <1>9, <2>1, HandlerKept
<1>11. pending'[p] + Syns(net'[p]) <= pending[p] + Syns(net[p])
  <2>1. Syns(net[p]) \in Nat /\ Syns(net'[p]) \in Nat /\ pending[p] \in Nat
    BY <1>1, SynsCounted DEF Types
  <2> QED BY <1>2, <2>1
<1> QED BY <1>6, <1>7, <1>10, <1>11, HandlerStep

\* What Decrypt makes of a message: the conversation gets open, and keeps its key.
LEMMA Decrypted ==
  ASSUME SurfaceInv, NEW p \in Peer, NEW m \in Otr, NEW k, Decrypt(p, m, k)
  PROVE  /\ nonce' \in [Peer -> Nat]
         /\ conv[p].key # None => k.key # None
         /\ \/ k \in Conversation
            \/ /\ k \in Record(Seq({"secure", "confirm"})) /\ k.events = <<"confirm", "secure">>
               /\ k.met /\ k.key # None /\ m[1] \in {"Reveal", "Sig"}
<1>1. nonce \in [Peer -> Nat] /\ nonce[p] + 1 \in Nat /\ conv[p] \in Conversation
  BY DEF SurfaceInv, Types
<1>2. k \in Receiving(conv[p], m, nonce[p] + 1)
  BY DEF Decrypt
<1>3. nonce' = [nonce EXCEPT ![p] = nonce[p] + 1] \/ nonce' = [nonce EXCEPT ![p] = nonce[p]]
  BY DEF Decrypt
<1>4. nonce' \in [Peer -> Nat]
  BY <1>1, <1>3
<1> QED BY <1>1, <1>2, <1>4, Received

\* Nothing is sent.
LEMMA NothingSent ==
  ASSUME SurfaceInv, UNCHANGED net, NEW p \in Peer
  PROVE  /\ net' \in [Peer -> Seq(Message)] /\ Syns(net'[p]) <= Syns(net[p])
         /\ Syns(net'[Other(p)]) = Syns(net[Other(p)])
<1>1. net \in [Peer -> Seq(Message)]
  BY DEF SurfaceInv, Types
<1>2. Syns(net[p]) \in Nat
  BY <1>1, SynsCounted
<1> QED BY <1>1, <1>2

\* A Kryptonite message comes, and the session is looked at.
LEMMA KryptoniteReceivedKeeps ==
  ASSUME SurfaceInv, NEW p \in Peer, KryptoniteReceived(p)
  PROVE  SurfaceInv'
<1> SUFFICES ASSUME NEW c \in Call, c = handler[p]
             PROVE  SurfaceInv'
  BY LastSession DEF KryptoniteReceived
<1> DEFINE s == sess[p][c]
<1>1. /\ Incoming(p, "Kryptonite") /\ pending' = pending /\ net[p] # <<>> /\ thread[p] = Idle
      /\ Head(net[p]).type = "Kryptonite" /\ UNCHANGED callVars /\ nonce' = nonce
  BY DEF KryptoniteReceived, Incoming, Waits, callVars
<1>2. /\ s \in Session /\ SessionOK(p, c) /\ conv[p] \in Conversation /\ Types /\ Idle \in Thread
      /\ sess \in [Peer -> [Call -> Session]] /\ thread \in [Peer -> Thread] /\ nonce \in [Peer -> Nat]
      /\ conv \in [Peer -> Conversation]
  <2>1. Types /\ Idle \in Thread
    BY ThreadIs DEF SurfaceInv
  <2>2. c # 0
    BY CallsAssumption DEF Call
  <2>3. s \in Session /\ SessionOK(p, c) /\ conv[p] \in Conversation
    BY <2>2, LastSession, CallsAre
  <2> QED BY <2>1, <2>3 DEF Types
<1>3. /\ s.running /\ s.secure => conv[p].key # None /\ s.state \in {"ExchangingKeys", "Routing"}
      /\ s.running /\ s.state = "Routing" => s.key # None
      /\ s.heard => s.key # None
  BY <1>2 DEF SessionOK
<1>4. <<>> \in Seq(Unsyn) /\ Idle.at = "idle"
  BY ThreadIs
<1>5. CASE ~DeploysKryptonite(s)
  <2> DEFINE r == IF s.running THEN TornDown(s, conv[p]) ELSE Result(s, conv[p], <<>>)
  <2>1. Becomes(p, c, r) /\ Answer(p, <<>>) /\ thread' = [thread EXCEPT ![p] = Idle]
    BY <1>5 DEF KryptoniteReceived, Done
  <2>2. /\ r.sess \in Session /\ r.conv \in Conversation /\ ~r.sess.running
        /\ r.sess.heard = s.heard /\ r.sess.key = s.key
    BY <1>2, TornDownOutcome DEF Outcome, Result, Session
  <2>3. /\ net' \in [Peer -> Seq(Message)] /\ Syns(net'[p]) <= Syns(net[p])
        /\ Syns(net'[Other(p)]) = Syns(net[Other(p)])
    BY <1>1, <1>2, <1>4, <2>1, Answered
  <2> HIDE DEF r
  <2>4. sess' = [sess EXCEPT ![p][c] = r.sess] /\ conv' = [conv EXCEPT ![p] = r.conv]
    BY <2>1 DEF Becomes
  <2> DEFINE t == r.sess
             l == r.conv
  <2>5. /\ t \in Session /\ l \in Conversation /\ ~t.running /\ (t.heard => t.key # None)
        /\ sess' = [sess EXCEPT ![p][c] = t] /\ conv' = [conv EXCEPT ![p] = l]
    BY <1>3, <2>2, <2>4
  <2> HIDE DEF t, l, s, Idle
  <2> QED BY <1>1, <1>2, <1>4, <2>1, <2>3, <2>5, Handled
<1>6. CASE DeploysKryptonite(s)
  <2> DEFINE h == [at |-> "deploying", c |-> c]
  <2>1. h \in Thread /\ h.c = c /\ h.at = "deploying"
    BY ThreadIs
  <2>2. /\ sess' = [sess EXCEPT ![p][c] = s] /\ conv' = [conv EXCEPT ![p] = conv[p]]
        /\ thread' = [thread EXCEPT ![p] = h] /\ UNCHANGED net
    BY <1>2, <1>6 DEF KryptoniteReceived, Busy
  <2>3. /\ net' \in [Peer -> Seq(Message)] /\ Syns(net'[p]) <= Syns(net[p])
        /\ Syns(net'[Other(p)]) = Syns(net[Other(p)])
    BY <2>2, NothingSent
  <2>4. s.state \in {"ExchangingKeys", "Routing"}
    BY <1>6 DEF DeploysKryptonite
  <2> HIDE DEF h, s, Idle
  <2> QED BY <1>1, <1>2, <1>3, <2>1, <2>2, <2>3, <2>4, Handled
<1> QED BY <1>5, <1>6

\* A Bottom message comes.
LEMMA BottomReceivedKeeps ==
  ASSUME SurfaceInv, NEW p \in Peer, BottomReceived(p)
  PROVE  SurfaceInv'
<1> SUFFICES ASSUME NEW c \in Call, c = handler[p]
             PROVE  SurfaceInv'
  BY LastSession DEF BottomReceived
<1> DEFINE s == sess[p][c]
           m == Head(net[p]).otr
<1>1. /\ Incoming(p, "Bottom") /\ net[p] # <<>> /\ thread[p] = Idle
      /\ Head(net[p]).type = "Bottom" /\ UNCHANGED callVars
  BY DEF BottomReceived, Incoming, Waits, callVars
<1>2. m \in Ciphers /\ m \in Otr /\ m[1] \in {"Query", "Data"}
  <2>1. m \in Ciphers
    BY <1>1, HeadOfNet DEF Message
  <2> HIDE DEF m
  <2> QED BY <2>1 DEF Ciphers, Otr
<1>3. /\ s \in Session /\ SessionOK(p, c) /\ conv[p] \in Conversation /\ Types /\ Idle \in Thread
      /\ sess \in [Peer -> [Call -> Session]] /\ thread \in [Peer -> Thread]
  <2>1. Types /\ Idle \in Thread
    BY ThreadIs DEF SurfaceInv
  <2>2. c # 0
    BY CallsAssumption DEF Call
  <2>3. s \in Session /\ SessionOK(p, c) /\ conv[p] \in Conversation
    BY <2>2, LastSession, CallsAre
  <2> QED BY <2>1, <2>3 DEF Types
<1>4. /\ s.running /\ s.secure => conv[p].key # None /\ s.state \in {"ExchangingKeys", "Routing"}
      /\ s.running /\ s.state = "Routing" => s.key # None
      /\ s.heard => s.key # None
  BY <1>3 DEF SessionOK
<1>5. <<>> \in Seq(Unsyn) /\ Idle.at = "idle"
  BY ThreadIs
<1>6. ASSUME NEW out \in Seq(Unsyn), Answer(p, out)
      PROVE  /\ net' \in [Peer -> Seq(Message)] /\ Syns(net'[p]) <= Syns(net[p])
             /\ Syns(net'[Other(p)]) = Syns(net[Other(p)])
  BY <1>1, <1>3, <1>6, Answered, SMTT(30)
<1>7. PICK k \in Receiving(conv[p], m, nonce[p] + 1) :
        /\ Decrypt(p, m, k)
        /\ IF ~Deciphers(conv[p], m)
           THEN conv' = [conv EXCEPT ![p] = k] /\ Answer(p, <<>>) /\ Done(p) /\ UNCHANGED sess
           ELSE LET t == [s EXCEPT !.secure = Secured(k, @)]
                IN  /\ Answer(p, PolledOut(k))
                    /\ IF t.running /\ ~DeploysBottom(t)
                       THEN Becomes(p, c, TornDown(t, Polled(k))) /\ Done(p)
                       ELSE /\ Becomes(p, c, Result([t EXCEPT !.heard = @ \/ t.running], Polled(k), <<>>))
                            /\ IF t.running /\ m[3] = "Request"
                               THEN Busy(p, "answer", c) ELSE Done(p)
  BY Zenon DEF BottomReceived
<1>8. /\ nonce' \in [Peer -> Nat] /\ k \in Conversation
      /\ conv[p].key # None => k.key # None
  BY <1>2, <1>7, Decrypted
<1>9. CASE ~Deciphers(conv[p], m)
  <2>1. /\ sess' = [sess EXCEPT ![p][c] = s] /\ conv' = [conv EXCEPT ![p] = k]
        /\ thread' = [thread EXCEPT ![p] = Idle] /\ Answer(p, <<>>)
    BY <1>3, <1>7, <1>9 DEF Done
  <2> HIDE DEF s, Idle, m
  <2> QED BY <1>1, <1>3, <1>4, <1>5, <1>6, <1>8, <2>1, Handled
<1>10. CASE Deciphers(conv[p], m)
  <2> DEFINE l == Polled(k)
             out == PolledOut(k)
             secure == Secured(k, s.secure)
             t == [s EXCEPT !.secure = secure]
  <2>1. s.secure \in BOOLEAN
    BY <1>3 DEF Session
  <2>2. /\ l \in Conversation /\ l.key = k.key /\ out \in Seq(Unsyn)
        /\ secure \in BOOLEAN /\ (secure => s.secure \/ k.key # None)
    BY <1>8, <2>1, PolledKeeps
  <2>3. /\ Answer(p, out)
        /\ IF t.running /\ ~DeploysBottom(t)
           THEN Becomes(p, c, TornDown(t, l)) /\ Done(p)
           ELSE /\ Becomes(p, c, Result([t EXCEPT !.heard = @ \/ t.running], l, <<>>))
                /\ IF t.running /\ m[3] = "Request"
                   THEN Busy(p, "answer", c) ELSE Done(p)
    BY <1>7, <1>10
  <2> HIDE DEF l, out, secure
  <2>4. /\ t \in Session /\ t.secure = secure /\ t.running = s.running /\ t.state = s.state
        /\ t.key = s.key /\ t.heard = s.heard
    BY <1>3, <2>2 DEF Session
  <2> HIDE DEF t
  <2>5. CASE t.running /\ ~DeploysBottom(t)
    <3> DEFINE u == TornDown(t, l).sess
               v == TornDown(t, l).conv
    <3>1. /\ u \in Session /\ v \in Conversation /\ ~u.running /\ u.heard = t.heard /\ u.key = t.key
      BY <2>2, <2>4, TornDownOutcome DEF Outcome
    <3>2. /\ sess' = [sess EXCEPT ![p][c] = u] /\ conv' = [conv EXCEPT ![p] = v]
          /\ thread' = [thread EXCEPT ![p] = Idle]
      BY <2>3, <2>5 DEF Becomes, Done
    <3>3. u.heard => u.key # None
      BY <1>4, <2>4, <3>1
    <3> HIDE DEF u, v, Idle, s, m
    <3> QED BY <1>1, <1>3, <1>5, <1>6, <1>8, <2>2, <2>3, <3>1, <3>2, <3>3, Handled
  <2>6. CASE ~(t.running /\ ~DeploysBottom(t))
    <3> DEFINE u == [t EXCEPT !.heard = @ \/ t.running]
    <3>1. /\ u \in Session /\ u.running = t.running /\ u.state = t.state /\ u.key = t.key
          /\ u.secure = t.secure /\ (u.heard => t.heard \/ t.running)
      BY <2>4 DEF Session
    <3>2. sess' = [sess EXCEPT ![p][c] = u] /\ conv' = [conv EXCEPT ![p] = l]
      BY <2>3, <2>6 DEF Becomes, Result
    <3>3. PICK h \in Thread : /\ thread' = [thread EXCEPT ![p] = h] /\ (h # Idle => h.c = c)
                              /\ h.at \notin {"deploying", "asking"}
      <4>1. [at |-> "answer", c |-> c] \in Thread
        BY ThreadIs
      <4>2. \/ thread' = [thread EXCEPT ![p] = [at |-> "answer", c |-> c]]
            \/ thread' = [thread EXCEPT ![p] = Idle]
        BY <2>3, <2>6 DEF Busy, Done
      <4> QED BY <1>3, <1>5, <4>1, <4>2
    <3>4. t.running => t.state = "Routing"
      BY <2>6 DEF DeploysBottom
    <3>5. /\ u.running /\ u.secure => u.state \in {"ExchangingKeys", "Routing"}
          /\ u.running /\ u.state = "Routing" => u.key # None
          /\ u.heard => u.key # None
          /\ u.running /\ u.secure => l.key # None
      BY <1>4, <1>8, <2>2, <2>4, <3>1, <3>4
    <3> HIDE DEF u, s, Idle, m
    <3> QED BY <1>1, <1>6, <1>8, <2>2, <2>3, <3>1, <3>2, <3>3, <3>5, Handled
  <2> QED BY <2>5, <2>6
<1> QED BY <1>9, <1>10

-----------------------------------------------------------------------------
(* The handler goes on *)

\* The session that a handler works for.
LEMMA ThreadSession ==
  ASSUME SurfaceInv, NEW p \in Peer, NEW at \in {"deploying", "asking", "changed", "encrypt", "answer"}, Goes(p, at)
  PROVE  /\ thread[p] # Idle /\ thread[p] \in Thread /\ thread[p].at = at
         /\ thread[p].c \in Call /\ sess[p][thread[p].c] \in Session
         /\ SessionOK(p, thread[p].c)
         /\ at \in {"deploying", "asking"} => Exchanges(p, thread[p].c)
         /\ at = "encrypt" => thread[p].key \in Key
         /\ UNCHANGED callVars /\ nonce' \in [Peer -> Nat]
<1>1. thread[p].at = at /\ thread[p] \in Thread /\ UNCHANGED callVars /\ nonce' = nonce
  BY CallsAre DEF Goes
<1>2. thread[p] # Idle
  BY <1>1, ThreadIs
<1>3. thread[p].c \in Call /\ (at = "encrypt" => thread[p].key \in Key)
  BY <1>1, <1>2, ThreadIs
<1>4. SessionOK(p, thread[p].c) /\ (at \in {"deploying", "asking"} => Exchanges(p, thread[p].c))
  BY <1>1, <1>3 DEF SurfaceInv, PeerOK, HandlerOK
<1>5. nonce' \in [Peer -> Nat]
  BY <1>1 DEF SurfaceInv, Types
<1> QED BY <1>1, <1>2, <1>3, <1>4, <1>5, CallsAre

\* What a session that a handler works for can rely on.
LEMMA SessionHolds ==
  ASSUME NEW p \in Peer, NEW c \in Call, SessionOK(p, c)
  PROVE  /\ sess[p][c].running /\ sess[p][c].secure => sess[p][c].state \in {"ExchangingKeys", "Routing"}
         /\ sess[p][c].heard => sess[p][c].key # None
         /\ c = handler[p] /\ sess[p][c].running
              => /\ sess[p][c].secure => conv[p].key # None
                 /\ sess[p][c].state = "Routing" => sess[p][c].key # None
  BY DEF SessionOK

\* Bottom's message is sent.
LEMMA BottomSent ==
  ASSUME SurfaceInv, NEW p \in Peer, NEW c, NEW body \in {"Request", "Answer"}, SendBottom(p, c, body)
  PROVE  /\ net' \in [Peer -> Seq(Message)] /\ Syns(net'[p]) <= Syns(net[p])
         /\ Syns(net'[Other(p)]) = Syns(net[Other(p)])
         /\ \E k \in Conversation : k.key = conv[p].key /\ conv' = [conv EXCEPT ![p] = k]
<1> DEFINE l == Sending(conv[p])
           b == Bottom(Cipher(conv[p], body))
           k == Polled(l)
<1>1. l \in Conversation /\ l.key = conv[p].key /\ b \in Unsyn
  BY CallsAre, SendingKeeps
<1>2. Cipher(l, body) = Cipher(conv[p], body)
  BY <1>1 DEF Cipher
<1>3. conv' = [conv EXCEPT ![p] = k] /\ Send(p, Append(PolledOut(l), b))
  BY <1>2 DEF SendBottom
<1> HIDE DEF l, b
<1>4. k \in Conversation /\ k.key = l.key /\ PolledOut(l) \in Seq(Unsyn)
  BY <1>1, PolledKeeps
<1>5. Append(PolledOut(l), b) \in Seq(Unsyn)
  BY <1>1, <1>4
<1>6. Types /\ Syns(net[p]) \in Nat
  BY CallsAre, SynsCounted DEF SurfaceInv
<1>7. /\ net' \in [Peer -> Seq(Message)] /\ net'[p] = net[p]
      /\ Syns(net'[Other(p)]) = Syns(net[Other(p)])
  BY <1>3, <1>5, <1>6, Sent
<1> HIDE DEF k
<1>8. \E x \in Conversation : x.key = conv[p].key /\ conv' = [conv EXCEPT ![p] = x]
  BY <1>1, <1>3, <1>4
<1>9. Syns(net'[p]) = Syns(net[p])
  BY <1>7
<1>10. Syns(net'[p]) <= Syns(net[p])
  BY <1>6, <1>9
<1> QED BY <1>7, <1>8, <1>10

\* The handler is done, or the change of the session is looked at next.
LEMMA NextIs ==
  ASSUME SurfaceInv, NEW p \in Peer, NEW c \in Call, NEW wasSecure,
         NextChange(p, c, wasSecure) \/ Done(p)
  PROVE  \E h \in Thread : /\ thread' = [thread EXCEPT ![p] = h] /\ (h # Idle => h.c = c)
                           /\ h.at \notin {"deploying", "asking"}
<1>1. [at |-> "changed", c |-> c] \in Thread /\ Idle \in Thread /\ Idle.at = "idle"
  BY ThreadIs
<1>2. \/ thread' = [thread EXCEPT ![p] = [at |-> "changed", c |-> c]]
      \/ thread' = [thread EXCEPT ![p] = Idle]
  BY DEF NextChange, Busy, Done
<1> QED BY <1>1, <1>2

\* Kryptonite gets the message, for a session that may have ended.
LEMMA DeployKeeps ==
  ASSUME SurfaceInv, NEW p \in Peer, Deploy(p)
  PROVE  SurfaceInv'
<1> DEFINE m == Head(net[p]).otr
<1>1. /\ thread[p].at = "deploying" /\ net[p] # <<>> /\ Head(net[p]).type = "Kryptonite"
      /\ UNCHANGED callVars
  BY DEF Deploy, Waits
<1>2. m \in Otr
  BY <1>1, HeadOfNet DEF Message
<1>3. thread[p] # Idle /\ thread[p].c \in Call /\ Exchanges(p, thread[p].c)
  <2>1. thread[p] \in Thread /\ HandlerOK(p)
    BY CallsAre DEF SurfaceInv, PeerOK
  <2>2. thread[p] # Idle /\ thread[p].c \in Call
    BY <1>1, <2>1, ThreadIs
  <2> QED BY <1>1, <2>1, <2>2 DEF HandlerOK
<1> SUFFICES ASSUME NEW c \in Call, c = thread[p].c
             PROVE  SurfaceInv'
  BY <1>3
<1> DEFINE s == sess[p][c]
<1>4. /\ s \in Session /\ SessionOK(p, c) /\ s.state \in {"ExchangingKeys", "Routing"}
      /\ conv[p] \in Conversation /\ Types /\ Idle \in Thread /\ Idle.at = "idle"
      /\ sess \in [Peer -> [Call -> Session]]
  <2>1. Types /\ Idle \in Thread /\ Idle.at = "idle" /\ SessionOK(p, c)
    BY ThreadIs DEF SurfaceInv, PeerOK, HandlerOK
  <2> QED BY <1>3, <2>1, CallsAre DEF Exchanges, Types
<1>5. /\ s.heard => s.key # None
      /\ c = handler[p] /\ s.running => /\ s.secure => conv[p].key # None
                                        /\ s.state = "Routing" => s.key # None
  BY <1>4, SessionHolds
<1>6. <<>> \in Seq(Unsyn)
  OBVIOUS
<1>7. ASSUME NEW out \in Seq(Unsyn), Answer(p, out)
      PROVE  /\ net' \in [Peer -> Seq(Message)] /\ Syns(net'[p]) <= Syns(net[p])
             /\ Syns(net'[Other(p)]) = Syns(net[Other(p)])
  BY <1>1, <1>4, <1>7, Answered
<1>8. PICK k \in Receiving(conv[p], m, nonce[p] + 1) :
        /\ Decrypt(p, m, k)
        /\ IF m[1] = "Error"
           THEN conv' = [conv EXCEPT ![p] = k] /\ Answer(p, <<>>) /\ Done(p) /\ UNCHANGED sess
           ELSE IF Asks(k)
           THEN /\ conv' = [conv EXCEPT ![p] = [k EXCEPT !.events = Tail(@)]]
                /\ Answer(p, <<>>) /\ Busy(p, "asking", c)
                /\ UNCHANGED sess
           ELSE /\ conv' = [conv EXCEPT ![p] = Polled(k)]
                /\ Answer(p, PolledOut(k))
                /\ sess' = [sess EXCEPT ![p][c].secure = Secured(k, @)]
                /\ NextChange(p, c, s.secure)
  BY Zenon DEF Deploy
<1>9. /\ nonce' \in [Peer -> Nat]
      /\ conv[p].key # None => k.key # None
      /\ \/ k \in Conversation
         \/ /\ k \in Record(Seq({"secure", "confirm"})) /\ k.events = <<"confirm", "secure">>
            /\ k.met /\ k.key # None /\ m[1] \in {"Reveal", "Sig"}
  BY <1>2, <1>8, Decrypted
<1>10. CASE m[1] = "Error"
  <2>1. /\ k \in Conversation /\ sess' = [sess EXCEPT ![p][c] = s]
        /\ conv' = [conv EXCEPT ![p] = k] /\ thread' = [thread EXCEPT ![p] = Idle] /\ Answer(p, <<>>)
    BY <1>4, <1>8, <1>9, <1>10 DEF Done
  <2>2. c = handler[p] /\ s.running => (s.secure => k.key # None)
    BY <1>5, <1>9
  <2> HIDE DEF s, Idle, m
  <2> QED BY <1>1, <1>3, <1>4, <1>5, <1>6, <1>7, <1>9, <2>1, <2>2, Handled
<1>11. CASE m[1] # "Error" /\ Asks(k)
  <2> DEFINE l == [k EXCEPT !.events = Tail(@)]
             h == [at |-> "asking", c |-> c]
  <2>1. k \notin Conversation
    BY <1>11, PolledKeeps
  <2>2. l \in Conversation /\ l.key = k.key /\ k.key # None
    BY <1>9, <2>1, AskingKeeps
  <2>3. h \in Thread /\ h.c = c
    BY ThreadIs
  <2>4. /\ sess' = [sess EXCEPT ![p][c] = s] /\ conv' = [conv EXCEPT ![p] = l]
        /\ thread' = [thread EXCEPT ![p] = h] /\ Answer(p, <<>>)
    BY <1>4, <1>8, <1>11 DEF Busy
  <2> HIDE DEF s, l, h, m
  <2> QED BY <1>1, <1>3, <1>4, <1>5, <1>6, <1>7, <1>9, <2>2, <2>3, <2>4, Handled
<1>12. CASE m[1] # "Error" /\ ~Asks(k)
  <2> DEFINE l == Polled(k)
             out == PolledOut(k)
             secure == Secured(k, s.secure)
             t == [s EXCEPT !.secure = secure]
  <2>1. k \in Conversation
    BY <1>9, <1>12, AskingKeeps
  <2>2. s.secure \in BOOLEAN
    BY <1>4 DEF Session
  <2>3. /\ l \in Conversation /\ l.key = k.key /\ out \in Seq(Unsyn)
        /\ secure \in BOOLEAN /\ (secure => s.secure \/ k.key # None)
    BY <2>1, <2>2, PolledKeeps
  <2>4. /\ conv' = [conv EXCEPT ![p] = l] /\ Answer(p, out)
        /\ sess' = [sess EXCEPT ![p][c] = t]
    BY <1>8, <1>12
  <2>5. PICK h \in Thread : /\ thread' = [thread EXCEPT ![p] = h] /\ (h # Idle => h.c = c)
                            /\ h.at \notin {"deploying", "asking"}
    <3>1. NextChange(p, c, s.secure)
      BY <1>8, <1>12
    <3> HIDE DEF s
    <3> QED BY <3>1, NextIs
  <2> HIDE DEF l, out, secure
  <2>6. /\ t \in Session /\ t.secure = secure /\ t.running = s.running /\ t.state = s.state
        /\ t.key = s.key /\ t.heard = s.heard
    BY <1>4, <2>3 DEF Session
  <2>7. /\ t.running /\ t.secure => t.state \in {"ExchangingKeys", "Routing"}
        /\ t.heard => t.key # None
        /\ c = handler[p] /\ t.running => /\ t.secure => l.key # None
                                          /\ t.state = "Routing" => t.key # None
    BY <1>4, <1>5, <1>9, <2>3, <2>6
  <2> HIDE DEF t, s, Idle, m
  <2> QED BY <1>1, <1>3, <1>7, <1>9, <2>3, <2>4, <2>5, <2>6, <2>7, Handled
<1> QED BY <1>10, <1>11, <1>12

\* The user answers.
LEMMA UserKeeps ==
  ASSUME SurfaceInv, NEW p \in Peer, Accept(p) \/ Refuse(p)
  PROVE  SurfaceInv'
<1>1. Goes(p, "asking") /\ UNCHANGED net
  BY DEF Accept, Refuse
<1> SUFFICES ASSUME NEW c \in Call, c = thread[p].c
             PROVE  SurfaceInv'
  BY <1>1, ThreadSession
<1> DEFINE s == sess[p][c]
<1>2. /\ thread[p] # Idle /\ s \in Session /\ SessionOK(p, c) /\ s.state \in {"ExchangingKeys", "Routing"}
      /\ UNCHANGED callVars /\ nonce' \in [Peer -> Nat] /\ conv[p] \in Conversation
      /\ conv \in [Peer -> Conversation] /\ sess \in [Peer -> [Call -> Session]]
  BY <1>1, ThreadSession, CallsAre DEF Exchanges, SurfaceInv, Types
<1>3. /\ s.heard => s.key # None
      /\ c = handler[p] /\ s.running => /\ s.secure => conv[p].key # None
                                        /\ s.state = "Routing" => s.key # None
  BY <1>2, SessionHolds
<1>4. /\ net' \in [Peer -> Seq(Message)] /\ Syns(net'[p]) <= Syns(net[p])
      /\ Syns(net'[Other(p)]) = Syns(net[Other(p)])
  BY <1>1, NothingSent
<1>5. PICK h \in Thread : /\ thread' = [thread EXCEPT ![p] = h] /\ (h # Idle => h.c = c)
                          /\ h.at \notin {"deploying", "asking"}
  <2>1. NextChange(p, c, sess[p][c].secure)
    BY DEF Accept, Refuse
  <2> QED BY <2>1, NextIs, SMTT(30)
<1>6. CASE Accept(p)
  <2> DEFINE k == IF conv[p].open THEN Polled(conv[p]) ELSE conv[p]
             secure == conv[p].open /\ Secured(conv[p], s.secure)
             t == [s EXCEPT !.secure = secure]
  <2>1. s.secure \in BOOLEAN
    BY <1>2 DEF Session
  <2>2. /\ k \in Conversation /\ k.key = conv[p].key /\ secure \in BOOLEAN
        /\ secure => s.secure \/ k.key # None
    <3>1. /\ Polled(conv[p]) \in Conversation /\ Polled(conv[p]).key = conv[p].key
          /\ Secured(conv[p], s.secure) \in BOOLEAN
          /\ Secured(conv[p], s.secure) => s.secure \/ conv[p].key # None
      BY <1>2, <2>1, PolledKeeps
    <3>2. conv[p].open \in BOOLEAN
      BY <1>2 DEF Conversation, Record
    <3> HIDE DEF s
    <3> QED BY <1>2, <3>1, <3>2
  <2>3. conv' = [conv EXCEPT ![p] = k] /\ sess' = [sess EXCEPT ![p][c] = t]
    <3>1. sess' = [sess EXCEPT ![p][c].secure = secure]
      BY <1>6 DEF Accept
    <3>2. conv' = [conv EXCEPT ![p] = k]
      BY <1>6 DEF Accept
    <3> HIDE DEF secure, k
    <3> QED BY <3>1, <3>2
  <2> HIDE DEF k, secure
  <2>4. /\ t \in Session /\ t.secure = secure /\ t.running = s.running /\ t.state = s.state
        /\ t.key = s.key /\ t.heard = s.heard
    BY <1>2, <2>2 DEF Session
  <2>5. /\ t.state \in {"ExchangingKeys", "Routing"}
        /\ t.heard => t.key # None
        /\ c = handler[p] /\ t.running => /\ t.secure => k.key # None
                                          /\ t.state = "Routing" => t.key # None
    BY <1>2, <1>3, <2>2, <2>4
  <2> HIDE DEF t, s
  <2> QED BY <1>2, <1>4, <1>5, <2>2, <2>3, <2>4, <2>5, Handled
<1>7. CASE Refuse(p)
  <2> DEFINE t == [s EXCEPT !.secure = FALSE, !.refused = TRUE]
  <2>1. /\ t \in Session /\ ~t.secure /\ t.running = s.running /\ t.state = s.state
        /\ t.key = s.key /\ t.heard = s.heard
    BY <1>2 DEF Session
  <2>2. conv' = [conv EXCEPT ![p] = conv[p]] /\ sess' = [sess EXCEPT ![p][c] = t]
    BY <1>2, <1>7 DEF Refuse
  <2>3. /\ t.heard => t.key # None
        /\ c = handler[p] /\ t.running => (t.state = "Routing" => t.key # None)
    BY <1>3, <2>1
  <2> HIDE DEF t, s
  <2> QED BY <1>2, <1>4, <1>5, <2>1, <2>2, <2>3, Handled
<1> QED BY <1>6, <1>7

\* The session learns that its security has changed.
LEMMA SecurityStatusChangedKeeps ==
  ASSUME SurfaceInv, NEW p \in Peer, SecurityStatusChanged(p)
  PROVE  SurfaceInv'
<1>1. Goes(p, "changed") /\ UNCHANGED net
  BY DEF SecurityStatusChanged
<1> SUFFICES ASSUME NEW c \in Call, c = thread[p].c
             PROVE  SurfaceInv'
  BY <1>1, ThreadSession
<1> DEFINE s == sess[p][c]
           routing == [s EXCEPT !.state = "Routing"]
<1>2. /\ thread[p] # Idle /\ s \in Session /\ SessionOK(p, c)
      /\ UNCHANGED callVars /\ nonce' \in [Peer -> Nat] /\ conv[p] \in Conversation
      /\ conv \in [Peer -> Conversation] /\ sess \in [Peer -> [Call -> Session]]
      /\ Idle \in Thread /\ Idle.at = "idle"
  <2>1. Idle \in Thread /\ Idle.at = "idle"
    BY ThreadIs
  <2> QED BY <1>1, <2>1, ThreadSession, CallsAre DEF SurfaceInv, Types
<1>3. /\ s.running /\ s.secure => s.state \in {"ExchangingKeys", "Routing"}
      /\ s.heard => s.key # None
      /\ c = handler[p] /\ s.running => /\ s.secure => conv[p].key # None
                                        /\ s.state = "Routing" => s.key # None
  BY <1>2, SessionHolds
<1>4. /\ net' \in [Peer -> Seq(Message)] /\ Syns(net'[p]) <= Syns(net[p])
      /\ Syns(net'[Other(p)]) = Syns(net[Other(p)])
  BY <1>1, NothingSent
<1>5. /\ routing \in Session /\ routing.state = "Routing" /\ routing.secure = s.secure
      /\ routing.running = s.running /\ routing.heard = s.heard /\ routing.key = s.key
  BY <1>2 DEF Session
<1>6. ASSUME NEW t \in {s, routing}, Becomes(p, c, TornDown(t, conv[p])), Done(p)
      PROVE  SurfaceInv'
  <2> DEFINE u == TornDown(t, conv[p]).sess
             v == TornDown(t, conv[p]).conv
  <2> HIDE DEF s, routing
  <2>0. t \in Session
    BY <1>2, <1>5
  <2>1. /\ u \in Session /\ v \in Conversation /\ ~u.running /\ u.heard = t.heard /\ u.key = t.key
    BY <1>2, <2>0, TornDownOutcome DEF Outcome
  <2>2. /\ sess' = [sess EXCEPT ![p][c] = u] /\ conv' = [conv EXCEPT ![p] = v]
        /\ thread' = [thread EXCEPT ![p] = Idle]
    BY <1>6 DEF Becomes, Done
  <2>3. u.heard => u.key # None
    BY <1>3, <1>5, <2>1
  <2> HIDE DEF u, v, Idle
  <2> QED BY <1>2, <1>4, <2>1, <2>2, <2>3, Handled
<1>7. CASE s.state # "ExchangingKeys"
  BY <1>6, <1>7 DEF SecurityStatusChanged
<1>8. CASE s.state = "ExchangingKeys" /\ ~s.secure
  BY <1>6, <1>8 DEF SecurityStatusChanged
<1>9. CASE s.state = "ExchangingKeys" /\ s.secure /\ conv[p].key = None
  <2>1. /\ sess' = [sess EXCEPT ![p][c] = routing] /\ conv' = [conv EXCEPT ![p] = conv[p]]
        /\ thread' = [thread EXCEPT ![p] = Idle]
    BY <1>9 DEF SecurityStatusChanged, Becomes, Result, Done
  <2>2. ~(c = handler[p] /\ s.running)
    BY <1>3, <1>9
  <2>3. routing.heard => routing.key # None
    BY <1>3, <1>5
  <2> HIDE DEF s, routing, Idle
  <2> QED BY <1>2, <1>4, <1>5, <2>1, <2>2, <2>3, Handled
<1>10. CASE s.state = "ExchangingKeys" /\ s.secure /\ conv[p].key # None
  <2> DEFINE h == [at |-> "encrypt", c |-> c, key |-> conv[p].key]
  <2>1. conv[p].key \in Key
    BY <1>2, <1>10 DEF Conversation, Record
  <2>2. h \in Thread /\ h.c = c /\ h.at = "encrypt"
    BY <2>1, ThreadIs
  <2>3. thread' = [thread EXCEPT ![p] = h] /\ sess' = sess /\ conv' = conv
    BY <1>10 DEF SecurityStatusChanged
  <2>4. /\ sess' = [sess EXCEPT ![p][c] = s] /\ conv' = [conv EXCEPT ![p] = conv[p]]
        /\ thread' = [thread EXCEPT ![p] = h]
    BY <1>2, <2>3
  <2>5. s.running /\ s.secure => s.state \in {"ExchangingKeys", "Routing"}
    BY <1>3
  <2>6. /\ s \in Session /\ conv[p] \in Conversation /\ UNCHANGED callVars
        /\ nonce' \in [Peer -> Nat] /\ thread[p] # Idle /\ (h # Idle => h.c = c) /\ h.at \notin {"deploying", "asking"}
    BY <1>2, <2>2
  <2> HIDE DEF s, h, Idle
  <2> QED BY <1>3, <1>4, <2>2, <2>4, <2>5, <2>6, Handled
<1> QED BY <1>7, <1>8, <1>9, <1>10

\* Bottom is given the key, and the primary actor sends its request.
LEMMA EncryptKeeps ==
  ASSUME SurfaceInv, NEW p \in Peer, Encrypt(p)
  PROVE  SurfaceInv'
<1>1. Goes(p, "encrypt")
  BY DEF Encrypt
<1> SUFFICES ASSUME NEW c \in Call, c = thread[p].c
             PROVE  SurfaceInv'
  BY <1>1, ThreadSession
<1> DEFINE s == sess[p][c]
           key == thread[p].key
           t == [s EXCEPT !.key = key, !.state = "Routing"]
<1>2. /\ thread[p] # Idle /\ s \in Session /\ SessionOK(p, c) /\ key \in Key
      /\ UNCHANGED callVars /\ nonce' \in [Peer -> Nat] /\ conv[p] \in Conversation
      /\ conv \in [Peer -> Conversation] /\ sess \in [Peer -> [Call -> Session]]
      /\ Idle \in Thread /\ Idle.at = "idle"
  <2>1. Idle \in Thread /\ Idle.at = "idle"
    BY ThreadIs
  <2> QED BY <1>1, <2>1, ThreadSession, CallsAre DEF SurfaceInv, Types
<1>3. c = handler[p] /\ s.running => (s.secure => conv[p].key # None)
  BY <1>2, SessionHolds
<1>4. key # None
  BY <1>2, NoneAssumption DEF Key
<1>5. sess' = [sess EXCEPT ![p][c] = t] /\ thread' = [thread EXCEPT ![p] = Idle]
  <2>1. sess' = [sess EXCEPT ![p][c].key = key, ![p][c].state = "Routing"]
    BY DEF Encrypt
  <2> HIDE DEF key
  <2>2. sess' = [sess EXCEPT ![p][c] = t]
    BY <1>2, <2>1
  <2> QED BY <2>2 DEF Encrypt, Done
<1> HIDE DEF key
<1>6. /\ t \in Session /\ t.secure = s.secure /\ t.running = s.running /\ t.state = "Routing"
      /\ t.key # None
  BY <1>2, <1>4 DEF Session
<1>7. PICK k \in Conversation : k.key = conv[p].key /\ conv' = [conv EXCEPT ![p] = k]
  <2>1. conv' = [conv EXCEPT ![p] = conv[p]] \/ SendBottom(p, c, "Request")
    BY <1>2 DEF Encrypt
  <2> QED BY <1>2, <2>1, BottomSent
<1>8. /\ net' \in [Peer -> Seq(Message)] /\ Syns(net'[p]) <= Syns(net[p])
      /\ Syns(net'[Other(p)]) = Syns(net[Other(p)])
  <2>1. UNCHANGED net \/ SendBottom(p, c, "Request")
    BY DEF Encrypt
  <2> QED BY <2>1, BottomSent, NothingSent
<1> HIDE DEF t, s, Idle
<1> QED BY <1>2, <1>3, <1>5, <1>6, <1>7, <1>8, Handled

\* Bottom's answer is sent.
LEMMA AnswerRequestKeeps ==
  ASSUME SurfaceInv, NEW p \in Peer, AnswerRequest(p)
  PROVE  SurfaceInv'
<1>1. Goes(p, "answer")
  BY DEF AnswerRequest
<1> SUFFICES ASSUME NEW c \in Call, c = thread[p].c
             PROVE  SurfaceInv'
  BY <1>1, ThreadSession
<1> DEFINE s == sess[p][c]
<1>2. /\ thread[p] # Idle /\ s \in Session /\ SessionOK(p, c)
      /\ UNCHANGED callVars /\ nonce' \in [Peer -> Nat]
      /\ sess \in [Peer -> [Call -> Session]] /\ Idle \in Thread /\ Idle.at = "idle"
  <2>1. Idle \in Thread /\ Idle.at = "idle"
    BY ThreadIs
  <2> QED BY <1>1, <2>1, ThreadSession DEF SurfaceInv, Types
<1>3. /\ s.running /\ s.secure => s.state \in {"ExchangingKeys", "Routing"}
      /\ s.heard => s.key # None
      /\ c = handler[p] /\ s.running => /\ s.secure => conv[p].key # None
                                        /\ s.state = "Routing" => s.key # None
  BY <1>2, SessionHolds
<1>4. /\ SendBottom(p, c, "Answer") /\ sess' = [sess EXCEPT ![p][c] = s]
      /\ thread' = [thread EXCEPT ![p] = Idle]
  BY <1>2 DEF AnswerRequest, Done
<1>5. PICK k \in Conversation : k.key = conv[p].key /\ conv' = [conv EXCEPT ![p] = k]
  BY <1>4, BottomSent
<1>6. /\ net' \in [Peer -> Seq(Message)] /\ Syns(net'[p]) <= Syns(net[p])
      /\ Syns(net'[Other(p)]) = Syns(net[Other(p)])
  BY <1>4, BottomSent
<1> HIDE DEF s, Idle
<1> QED BY <1>2, <1>3, <1>4, <1>5, <1>6, Handled

-----------------------------------------------------------------------------
(* The sessions begin and end *)

\* What a new session has become by the SYN messages that were kept.
AfterSyns(r) ==
  /\ r.sess \in Session /\ r.conv \in Conversation /\ r.out \in Seq(Unsyn)
  /\ r.sess.secure = FALSE /\ r.sess.heard = FALSE /\ r.sess.state \in {"Start", "ExchangingKeys"}

\* One of them makes it exchange keys, or end; it ends over a second.
LEMMA KeptSynsOutcome ==
  ASSUME NEW n \in Nat, NEW k \in Conversation
  PROVE  AfterSyns(KeptSyns(n, k))
<1> DEFINE r == SynReceived(NewSession, k)
           u == SynReceived(r.sess, r.conv)
           v == [u EXCEPT !.out = r.out]
<1>1. /\ NewSession \in Session /\ NewSession.secure = FALSE /\ NewSession.heard = FALSE
      /\ NewSession.state = "Start"
  BY DEF NewSession, Session
<1> HIDE DEF NewSession
<1>2. Outcome(NewSession, k, r)
  BY <1>1, SynAckOutcome
<1> HIDE DEF r
<1>3. AfterSyns(r)
  BY <1>1, <1>2 DEF AfterSyns, Outcome
<1>4. Outcome(r.sess, r.conv, u)
  BY <1>3, SynAckOutcome DEF AfterSyns
<1>5. u = [sess |-> u.sess, conv |-> u.conv, out |-> u.out]
  BY DEF SynReceived, Confirmed, TornDown, Result
<1> HIDE DEF u
<1>6. v.sess = u.sess /\ v.conv = u.conv /\ v.out = r.out
  BY <1>5
<1>7. AfterSyns(v)
  BY <1>3, <1>4, <1>6 DEF AfterSyns, Outcome
<1>8. KeptSyns(n, k) = IF n = 1 THEN r ELSE v
  BY DEF KeptSyns, r, u
<1> HIDE DEF v
<1> QED BY <1>3, <1>7, <1>8

\* A peer's own step with its session and its call: the numbers of SYN messages are
\* left to show.
LEMMA SessionBegins ==
  ASSUME SurfaceInv, NEW p \in Peer, NEW c \in Call, Types', Aside(Other(p)), dialled' = dialled,
         c = rung[p] + 1, rung'[p] = c, over'[p] = over[p], handler'[p] = c, active'[p] \in {0, c},
         c <= dialled, thread'[p] = thread[p],
         \A d \in Call : d # c => sess'[p][d] = sess[p][d],
         \/ sess'[p][c] = NewSession
         \/ \E r : AfterSyns(r) /\ sess'[p][c] = r.sess
  PROVE  CallsOK(p)' /\ HandlerOK(p)'
<1>1. c \in Nat /\ handler[p] \in Nat /\ handler[p] < c /\ over[p] \in Nat /\ over[p] <= c /\ c # 0
  BY CallsAre
<1>2. CallsOK(p)'
  BY <1>1 DEF CallsOK
<1>3. HandlerOK(p) /\ thread[p] \in Thread
  BY CallsAre DEF SurfaceInv, PeerOK
<1>4. thread[p] # Idle => thread[p].c \in Call /\ thread[p].c <= handler[p] /\ thread[p].c # c
  <2> SUFFICES ASSUME thread[p] # Idle
               PROVE  thread[p].c \in Call /\ thread[p].c <= handler[p] /\ thread[p].c # c
    OBVIOUS
  <2>1. thread[p].c \in Call /\ thread[p].c <= handler[p]
    BY <1>3, ThreadIs DEF HandlerOK
  <2>2. thread[p].c \in Nat
    BY <2>1 DEF Call
  <2> QED BY <1>1, <2>1, <2>2
<1>5. thread'[p] # Idle => thread'[p].c <= handler'[p]
  <2> SUFFICES ASSUME thread[p] # Idle PROVE thread[p].c <= c
    OBVIOUS
  <2>1. thread[p].c \in Nat
    BY <1>4 DEF Call
  <2> QED BY <1>1, <1>4, <2>1
<1>6. thread'[p].at \in {"deploying", "asking"} => Exchanges(p, thread[p].c)'
  <2> SUFFICES ASSUME thread[p].at \in {"deploying", "asking"} PROVE Exchanges(p, thread[p].c)'
    OBVIOUS
  <2>1. thread[p] # Idle /\ Exchanges(p, thread[p].c)
    BY <1>3, ThreadIs DEF HandlerOK
  <2>2. sess'[p][thread'[p].c] = sess[p][thread[p].c]
    BY <1>4, <2>1
  <2> QED BY <2>1, <2>2 DEF Exchanges
<1>7. ASSUME NEW d \in Call, d # c PROVE SessionOK(p, d)'
  <2>1. SessionOK(p, d) /\ sess'[p][d] = sess[p][d] /\ d \in Nat
    BY <1>3, <1>7 DEF HandlerOK, Call
  <2>2. d > handler'[p] => d > handler[p]
    BY <1>1, <2>1
  <2>3. d # handler'[p]
    BY <1>7
  <2> QED BY <2>1, <2>2, <2>3 DEF SessionOK
<1>8. SessionOK(p, c)'
  <2>1. NewSession.secure = FALSE /\ NewSession.heard = FALSE /\ NewSession.state = "Start"
    BY DEF NewSession
  <2> HIDE DEF NewSession
  <2>2. /\ sess'[p][c].secure = FALSE /\ sess'[p][c].heard = FALSE
        /\ sess'[p][c].state \in {"Start", "ExchangingKeys"}
    BY <2>1 DEF AfterSyns
  <2>3. ~(c > handler'[p])
    BY <1>1
  <2> QED BY <2>2, <2>3 DEF SessionOK
<1>9. HandlerOK(p)'
  BY <1>5, <1>6, <1>7, <1>8 DEF HandlerOK
<1> QED BY <1>2, <1>9

\* A new call, and the session that is made for it.
LEMMA NewCallKeeps ==
  ASSUME SurfaceInv, NEW p \in Peer, NewCall(p)
  PROVE  SurfaceInv'
<1> DEFINE q == Other(p)
<1>1. /\ ~starting[p] /\ active[p] = 0 /\ rung[p] = over[p] /\ rung[p] < dialled
      /\ UNCHANGED <<dialled, hungUp, over, nonce, thread>>
      /\ rung' = [rung EXCEPT ![p] = rung[p] + 1]
      /\ handler' = [handler EXCEPT ![p] = rung[p] + 1]
      /\ starting' = [starting EXCEPT ![p] = Caller[rung[p] + 1] = p]
      /\ active' = IF Caller[rung[p] + 1] = p THEN active ELSE [active EXCEPT ![p] = rung[p] + 1]
      /\ pending' = [pending EXCEPT ![p] = 0]
  BY DEF NewCall, Register, Registers, Rings, CallEvent
<1>2. rung[p] + 1 \in Call
  BY <1>1, CallsAre DEF Call
<1> SUFFICES ASSUME NEW c \in Call, c = rung[p] + 1
             PROVE  SurfaceInv'
  BY <1>2
<1>3. /\ q \in Peer /\ q # p /\ Types /\ c \in 0..MaxCalls /\ c \in Nat /\ c <= dialled
      /\ handler[p] \in Nat /\ handler[p] + 1 <= c /\ Other(q) = p
  <2>1. c \in Nat /\ dialled \in Nat /\ MaxCalls \in Nat /\ dialled <= MaxCalls
        /\ handler[p] \in Nat /\ handler[p] <= rung[p] /\ rung[p] \in Nat
    BY CallsAre DEF Call
  <2> QED BY <1>1, <2>1, TwoPeers DEF SurfaceInv
<1>4. /\ rung' \in [Peer -> Nat] /\ handler' \in [Peer -> 0..MaxCalls]
      /\ starting' \in [Peer -> BOOLEAN] /\ active' \in [Peer -> 0..MaxCalls] /\ pending' \in [Peer -> Nat]
      /\ rung'[p] = c /\ handler'[p] = c /\ active'[p] \in {0, c} /\ pending'[p] = 0
      /\ rung'[q] = rung[q] /\ handler'[q] = handler[q] /\ active'[q] = active[q]
      /\ starting'[q] = starting[q] /\ pending'[q] = pending[q]
  <2> HIDE DEF q
  <2>1. rung' \in [Peer -> Nat] /\ rung'[p] = c /\ rung'[q] = rung[q]
    BY <1>1, <1>3 DEF Types
  <2>2. handler' \in [Peer -> 0..MaxCalls] /\ handler'[p] = c /\ handler'[q] = handler[q]
    BY <1>1, <1>3 DEF Types
  <2>3. starting' \in [Peer -> BOOLEAN] /\ starting'[q] = starting[q]
    <3>1. (Caller[rung[p] + 1] = p) \in BOOLEAN
      OBVIOUS
    <3> QED BY <1>1, <1>3, <3>1 DEF Types
  <2>4. active' \in [Peer -> 0..MaxCalls] /\ active'[p] \in {0, c} /\ active'[q] = active[q]
    BY <1>1, <1>3 DEF Types
  <2>5. pending' \in [Peer -> Nat] /\ pending'[p] = 0 /\ pending'[q] = pending[q]
    BY <1>1, <1>3 DEF Types
  <2> QED BY <2>1, <2>2, <2>3, <2>4, <2>5
<1>5. /\ sess' \in [Peer -> [Call -> Session]] /\ conv' \in [Peer -> Conversation]
      /\ net' \in [Peer -> Seq(Message)] /\ net'[p] = net[p] /\ Syns(net'[q]) = Syns(net[q])
      /\ sess'[q] = sess[q] /\ conv'[q] = conv[q]
      /\ \A d \in Call : d # c => sess'[p][d] = sess[p][d]
      /\ \/ sess'[p][c] = NewSession
         \/ \E r : AfterSyns(r) /\ sess'[p][c] = r.sess
  <2>1. CASE pending[p] = 0
    <3>1. UNCHANGED <<sess, conv, net>>
      BY <2>1 DEF NewCall
    <3>2. sess[p][c] = NewSession
      <4>1. c > handler[p]
        BY <1>3
      <4> QED BY <4>1 DEF SurfaceInv, PeerOK, HandlerOK, SessionOK
    <3> HIDE DEF q, NewSession
    <3> QED BY <1>3, <3>1, <3>2 DEF Types
  <2>2. CASE pending[p] # 0
    <3> DEFINE r == KeptSyns(pending[p], conv[p])
    <3>1. Becomes(p, c, r) /\ Send(p, r.out)
      BY <1>4, <2>2 DEF NewCall
    <3> HIDE DEF NewSession
    <3>3. AfterSyns(r)
      BY CallsAre, KeptSynsOutcome
    <3> HIDE DEF r
    <3>4. r.sess \in Session /\ r.conv \in Conversation /\ r.out \in Seq(Unsyn)
      BY <3>3 DEF AfterSyns
    <3>5. /\ sess' \in [Peer -> [Call -> Session]] /\ conv' \in [Peer -> Conversation]
          /\ sess'[p][c] = r.sess
          /\ \A d \in Call : d # c => sess'[p][d] = sess[p][d]
          /\ \A x \in Peer : x # p => sess'[x] = sess[x] /\ conv'[x] = conv[x]
      BY <1>3, <3>1, <3>4, Became
    <3>6. /\ net' \in [Peer -> Seq(Message)] /\ net'[p] = net[p] /\ Syns(net'[q]) = Syns(net[q])
      BY <1>3, <3>1, <3>4, Sent
    <3> HIDE DEF q
    <3> QED BY <1>3, <3>3, <3>5, <3>6
  <2> QED BY <2>1, <2>2
<1>6. Types'
  BY <1>1, <1>3, <1>4, <1>5 DEF Types
<1>7. Aside(q)
  BY <1>1, <1>4, <1>5 DEF Aside
<1>8. CallsOK(p)' /\ HandlerOK(p)'
  <2>1. dialled' = dialled /\ over'[p] = over[p] /\ thread'[p] = thread[p]
    BY <1>1
  <2> QED BY <1>3, <1>4, <1>5, <1>6, <1>7, <2>1, SessionBegins
<1>9. SynsOK(p)' /\ SynsOK(q)'
  <2>1. SynsOK(p) /\ SynsOK(q)
    BY <1>3 DEF SurfaceInv, PeerOK
  <2>2. /\ Syns(net[p]) \in Nat /\ Syns(net[q]) \in Nat /\ pending[p] \in Nat /\ pending[q] \in Nat
        /\ handler[q] \in Nat
    BY <1>3, CallsAre, SynsCounted, SMTT(30)
  <2>3. Syns(net'[p]) = Syns(net[p])
    BY <1>5
  <2> HIDE DEF q
  <2>4. pending'[p] + Syns(net'[p]) + (IF starting'[q] THEN 1 ELSE 0) <= handler'[q]
    <3>1. pending[p] + Syns(net[p]) + (IF starting[q] THEN 1 ELSE 0) <= handler[q]
      BY <2>1 DEF SynsOK, q
    <3> QED BY <1>4, <2>2, <2>3, <3>1
  <2>5. pending'[q] + Syns(net'[q]) + (IF starting'[p] THEN 1 ELSE 0) <= handler'[p]
    <3>1. pending[q] + Syns(net[q]) + (IF starting[p] THEN 1 ELSE 0) <= handler[p]
      BY <1>3, <2>1 DEF SynsOK
    <3> QED BY <1>1, <1>3, <1>4, <1>5, <2>2, <3>1, SMTT(30)
  <2> QED BY <1>3, <2>4, <2>5 DEF SynsOK, Syns, q
<1>10. dialled <= dialled'
  BY <1>1, CallsAre
<1> QED BY <1>6, <1>7, <1>8, <1>9, <1>10, StepKeeps

\* The end of a call, which may come while a handler works.
LEMMA EndCallKeeps ==
  ASSUME SurfaceInv, NEW p \in Peer, EndCall(p)
  PROVE  SurfaceInv'
<1> DEFINE q == Other(p)
<1>1. /\ ~starting[p] /\ active[p] # 0 /\ over[p] < rung[p]
      /\ UNCHANGED <<dialled, hungUp, nonce, thread, rung, handler, starting, pending, net>>
      /\ over' = [over EXCEPT ![p] = rung[p]] /\ active' = [active EXCEPT ![p] = 0]
  BY DEF EndCall, Ends, CallEvent
<1>2. active[p] = handler[p] /\ active[p] \in Call
  BY <1>1, CallsAre DEF Call
<1> SUFFICES ASSUME NEW c \in Call, c = handler[p], c = active[p]
             PROVE  SurfaceInv'
  BY <1>2
<1>3. q \in Peer /\ q # p /\ Types /\ handler'[p] = handler[p] /\ c <= handler[p] /\ MaxCalls \in Nat
  <2>1. c <= handler[p]
    BY CallsAre
  <2> QED BY <1>1, <2>1, TwoPeers, CallsAre DEF SurfaceInv
<1> DEFINE r == TornDown(sess[p][c], conv[p])
<1>4. /\ Becomes(p, c, r) /\ sess[p][c] \in Session /\ conv[p] \in Conversation
  BY CallsAre DEF EndCall
<1>5. Outcome(sess[p][c], conv[p], r) /\ r.sess.state = sess[p][c].state
  BY <1>4, TornDownOutcome
<1> HIDE DEF r
<1>6. r.sess \in Session /\ r.conv \in Conversation
  BY <1>5 DEF Outcome
<1>7. /\ sess' \in [Peer -> [Call -> Session]] /\ conv' \in [Peer -> Conversation]
      /\ sess'[p][c] = r.sess /\ conv'[p] = r.conv
      /\ \A d \in Call : d # c => sess'[p][d] = sess[p][d]
      /\ \A x \in Peer : x # p => sess'[x] = sess[x] /\ conv'[x] = conv[x]
  BY <1>3, <1>4, <1>6, Became
<1>8. /\ over' \in [Peer -> Nat] /\ active' \in [Peer -> 0..MaxCalls] /\ over'[p] = rung[p]
      /\ active'[p] = 0 /\ over'[q] = over[q] /\ active'[q] = active[q]
  <2> HIDE DEF q
  <2> QED BY <1>1, <1>3 DEF Types
<1>9. Types'
  BY <1>1, <1>3, <1>7, <1>8 DEF Types
<1>10. Aside(q)
  BY <1>1, <1>3, <1>7, <1>8 DEF Aside
<1>11. SessionOK(p, c)'
  <2>1. thread'[p] \in {Idle, thread[p]}
    BY <1>1
  <2> QED BY <1>3, <1>5, <1>7, <1>9, <2>1, OutcomeKeeps
<1>12. HandlerOK(p)'
  <2>1. thread'[p] = thread[p] /\ sess'[p][c].state = sess[p][c].state
    BY <1>1, <1>5, <1>7
  <2> QED BY <1>3, <1>7, <1>9, <1>11, <2>1, HandlerKept
<1>13. CallsOK(p)'
  BY <1>1, <1>8, CallsAre DEF CallsOK
<1>14. SynsOK(p)' /\ SynsOK(q)'
  <2>1. SynsOK(p) /\ SynsOK(q)
    BY <1>3 DEF SurfaceInv, PeerOK
  <2> QED BY <1>1, <2>1 DEF SynsOK, Syns, SynsAt
<1>15. dialled <= dialled'
  BY <1>1, CallsAre
<1> QED BY <1>9, <1>10, <1>12, <1>13, <1>14, <1>15, StepKeeps

\* The one who called starts the protocol with a SYN, or ends its session.
LEMMA StartProtocolKeeps ==
  ASSUME SurfaceInv, NEW p \in Peer, StartProtocol(p)
  PROVE  SurfaceInv'
<1> DEFINE q == Other(p)
<1>1. /\ starting[p] = TRUE /\ thread[p] = Idle
      /\ UNCHANGED <<dialled, hungUp, rung, over, nonce, trusted, thread, handler, pending>>
      /\ starting' = [starting EXCEPT ![p] = FALSE] /\ active' = [active EXCEPT ![p] = handler[p]]
  BY CallsAre DEF StartProtocol
<1>2. handler[p] # 0
  BY <1>1 DEF SurfaceInv, PeerOK, CallsOK
<1> SUFFICES ASSUME NEW c \in Call, c = handler[p]
             PROVE  SurfaceInv'
  BY <1>2, LastSession
<1>3. /\ q \in Peer /\ q # p /\ Other(q) = p /\ Types /\ handler'[p] = handler[p] /\ c <= handler[p]
      /\ c \in 0..MaxCalls
  <2>1. c <= handler[p] /\ c \in 0..MaxCalls
    BY CallsAre
  <2> QED BY <1>1, <2>1, TwoPeers DEF SurfaceInv
<1> DEFINE s == [sess[p][c] EXCEPT !.started = TRUE]
<1>4. /\ s \in Session /\ SessionOK(p, c) /\ conv[p] \in Conversation
      /\ s.state = sess[p][c].state /\ s.secure = sess[p][c].secure /\ s.running = sess[p][c].running
      /\ s.key = sess[p][c].key /\ s.heard = sess[p][c].heard
  <2>1. sess[p][c] \in Session /\ SessionOK(p, c) /\ conv[p] \in Conversation
    BY CallsAre DEF SurfaceInv, PeerOK, HandlerOK
  <2> QED BY <2>1 DEF Session
<1>5. /\ starting' \in [Peer -> BOOLEAN] /\ active' \in [Peer -> 0..MaxCalls]
      /\ starting'[p] = FALSE /\ active'[p] = c /\ starting'[q] = starting[q] /\ active'[q] = active[q]
  <2> HIDE DEF q
  <2> QED BY <1>1, <1>3 DEF Types
<1>6. IF s.state = "Start"
      THEN /\ sess' = [sess EXCEPT ![p][c] = [s EXCEPT !.state = "WaitingForACK"]]
           /\ Send(p, <<Surface("Syn")>>) /\ conv' = conv
      ELSE Becomes(p, c, TornDown(s, conv[p])) /\ net' = net
  BY DEF StartProtocol
<1> HIDE DEF s
<1>7. /\ sess' \in [Peer -> [Call -> Session]] /\ conv' \in [Peer -> Conversation]
      /\ net' \in [Peer -> Seq(Message)] /\ net'[p] = net[p]
      /\ Syns(net'[q]) \in Nat /\ Syns(net'[q]) <= Syns(net[q]) + 1
      /\ \A d \in Call : d # c => sess'[p][d] = sess[p][d]
      /\ sess'[q] = sess[q] /\ conv'[q] = conv[q]
      /\ sess'[p][c].heard => sess'[p][c].key # None
      /\ sess'[p][c].running => ~sess'[p][c].secure /\ sess'[p][c].state # "Routing"
  <2>0. net[q] \in Seq(Message) /\ Syns(net[q]) \in Nat
    BY <1>3, CallsAre, SynsCounted
  <2>1. CASE s.state = "Start"
    <3> DEFINE t == [s EXCEPT !.state = "WaitingForACK"]
    <3>1. /\ t \in Session /\ t.state = "WaitingForACK" /\ t.secure = s.secure /\ t.heard = s.heard
          /\ t.key = s.key /\ t.running = s.running
      BY <1>4 DEF Session
    <3>2. (s.running => ~s.secure) /\ (s.heard => s.key # None)
      BY <1>4, <2>1 DEF SessionOK
    <3> HIDE DEF t
    <3>3. sess' = [sess EXCEPT ![p][c] = t] /\ conv' = conv
      BY <1>6, <2>1 DEF t
    <3>4. /\ sess' \in [Peer -> [Call -> Session]] /\ sess'[p][c] = t /\ sess'[q] = sess[q]
          /\ \A d \in Call : d # c => sess'[p][d] = sess[p][d]
      <4> HIDE DEF q
      <4> QED BY <1>3, <3>1, <3>3 DEF Types
    <3>5. /\ net' \in [Peer -> Seq(Message)] /\ net'[p] = net[p]
          /\ Syns(net'[q]) = Syns(net[q]) + 1
      <4> DEFINE n == net[q] \o <<Surface("Syn")>>
      <4>1. n \in Seq(Message) /\ Syns(n) = Syns(net[q]) + 1
        BY <2>0, SynsCounted
      <4>2. net' = [net EXCEPT ![q] = n] /\ net \in [Peer -> Seq(Message)]
        BY <1>3, <1>6, <2>1 DEF Send, Types
      <4> HIDE DEF n, q
      <4>3. net' \in [Peer -> Seq(Message)] /\ net'[p] = net[p] /\ net'[q] = n
        BY <1>3, <4>1, <4>2
      <4> QED BY <4>1, <4>3
    <3>6. conv' \in [Peer -> Conversation]
      BY <1>3, <3>3 DEF Types
    <3> HIDE DEF q
    <3> QED BY <2>0, <3>1, <3>2, <3>3, <3>4, <3>5, <3>6
  <2>2. CASE s.state # "Start"
    <3> DEFINE r == TornDown(s, conv[p])
    <3>1. Becomes(p, c, r) /\ net' = net
      BY <1>6, <2>2
    <3>2. /\ r.sess \in Session /\ r.conv \in Conversation /\ ~r.sess.running
          /\ r.sess.heard = s.heard /\ r.sess.key = s.key
      BY <1>4, TornDownOutcome DEF Outcome
    <3> HIDE DEF r
    <3>3. /\ sess' \in [Peer -> [Call -> Session]] /\ conv' \in [Peer -> Conversation]
          /\ sess'[p][c] = r.sess
          /\ \A d \in Call : d # c => sess'[p][d] = sess[p][d]
          /\ \A x \in Peer : x # p => sess'[x] = sess[x] /\ conv'[x] = conv[x]
      BY <1>3, <3>1, <3>2, Became
    <3>4. s.heard => s.key # None
      BY <1>4 DEF SessionOK
    <3>5. net' \in [Peer -> Seq(Message)] /\ net'[p] = net[p] /\ Syns(net'[q]) = Syns(net[q])
      BY <1>3, <3>1 DEF Types
    <3> HIDE DEF q
    <3> QED BY <1>3, <2>0, <3>2, <3>3, <3>4, <3>5
  <2> QED BY <2>1, <2>2
<1>8. Types'
  BY <1>1, <1>3, <1>5, <1>7 DEF Types
<1>9. Aside(q)
  BY <1>1, <1>3, <1>5, <1>7 DEF Aside
<1>10. SessionOK(p, c)'
  <2>1. thread'[p] = Idle /\ ~(c > handler'[p])
    BY <1>1, <1>3, CallsAre
  <2> QED BY <1>7, <2>1 DEF SessionOK
<1>11. HandlerOK(p)'
  <2>1. thread'[p] = Idle
    BY <1>1
  <2> QED BY <1>3, <1>7, <1>8, <1>10, <2>1, HandlerKept
<1>12. CallsOK(p)'
  BY <1>1, <1>3, <1>5, CallsAre DEF CallsOK
<1>13. SynsOK(p)' /\ SynsOK(q)'
  <2>1. SynsOK(p) /\ SynsOK(q)
    BY <1>3 DEF SurfaceInv, PeerOK
  <2>2. Syns(net[p]) \in Nat /\ Syns(net[q]) \in Nat /\ pending[p] \in Nat /\ pending[q] \in Nat
        /\ handler[q] \in Nat /\ handler[p] \in Nat
    BY <1>3, CallsAre, SynsCounted, SMTT(30)
  <2>3. Syns(net'[p]) = Syns(net[p]) /\ pending' = pending /\ handler' = handler
    BY <1>1, <1>7
  <2> HIDE DEF q
  <2>4. pending'[p] + Syns(net'[p]) + (IF starting'[q] THEN 1 ELSE 0) <= handler'[q]
    <3>1. pending[p] + Syns(net[p]) + (IF starting[q] THEN 1 ELSE 0) <= handler[q]
      BY <2>1 DEF SynsOK, q
    <3> QED BY <1>5, <2>3, <3>1
  <2>5. pending'[q] + Syns(net'[q]) + (IF starting'[p] THEN 1 ELSE 0) <= handler'[p]
    <3>1. pending[q] + Syns(net[q]) + 1 <= handler[p]
      BY <1>1, <1>3, <2>1 DEF SynsOK
    <3> QED BY <1>5, <1>7, <2>2, <2>3, <3>1
  <2> QED BY <1>3, <2>4, <2>5 DEF SynsOK, Syns, q
<1>14. dialled <= dialled'
  BY <1>1, CallsAre
<1> QED BY <1>8, <1>9, <1>11, <1>12, <1>13, <1>14, StepKeeps

-----------------------------------------------------------------------------
(* The theorems *)

\* Every step, or none, keeps the invariant.
LEMMA NextKeeps == SurfaceInv /\ [Next]_vars => SurfaceInv'
<1> SUFFICES ASSUME SurfaceInv, [Next]_vars PROVE SurfaceInv'
  OBVIOUS
<1>1. CASE UNCHANGED vars
  <2>1. UNCHANGED <<dialled, hungUp, rung, over, handler, active, starting, pending, sess, conv, nonce,
                    thread, net>>
    BY <1>1 DEF vars, callVars
  <2>2. Types'
    BY <2>1 DEF SurfaceInv, Types
  <2>3. \A p \in Peer : CallsOK(p)'
    BY <2>1 DEF SurfaceInv, PeerOK, CallsOK
  <2> QED BY <2>1, <2>2, <2>3, CallsKeep
<1>2. CASE Dial \/ HangUp
  BY <1>2, QuietCalls
<1>3. ASSUME NEW p \in Peer, NewCall(p) \/ NewCallIgnored(p) \/ StartProtocol(p) \/ EndCall(p) \/ EndUnheard(p)
      PROVE  SurfaceInv'
  BY <1>3, NewCallKeeps, QuietCalls, StartProtocolKeeps, EndCallKeeps
<1>4. ASSUME NEW p \in Peer, Deliver(p)
      PROVE  SurfaceInv'
  BY <1>4, KeepSynKeeps, SurfaceReceivedKeeps, KryptoniteReceivedKeeps, BottomReceivedKeeps DEF Deliver
<1>5. ASSUME NEW p \in Peer, GoOn(p) \/ User(p)
      PROVE  SurfaceInv'
  BY <1>5, DeployKeeps, SecurityStatusChangedKeeps, EncryptKeeps, AnswerRequestKeeps, UserKeeps DEF GoOn, User
<1> QED BY <1>1, <1>2, <1>3, <1>4, <1>5 DEF Next

\* The inductive invariant of the sessions, the calls and the conversations
\* (SurfaceProtocol.cs, CommunicationSession.cs:141-154, Core.cs:95-230).
THEOREM Invariant == Spec => []SurfaceInv
<1>1. Init => SurfaceInv
  BY InitKeeps
<1>2. SurfaceInv /\ [Next]_vars => SurfaceInv'
  BY NextKeeps
<1> QED BY <1>1, <1>2, PTL DEF Spec

\* Every variable holds a value of its kind; no question about a fingerprint is left
\* behind, and a session that still waits for SYN or ACK is not secure, so that
\* SessionConfirmed.Instance always exchanges keys.
THEOREM TypeCorrect == Spec => []TypeOK
<1>1. SurfaceInv => TypeOK
  <2> SUFFICES ASSUME SurfaceInv PROVE TypeOK
    OBVIOUS
  <2>1. Types /\ MaxCalls \in Nat
    BY CallsAssumption DEF SurfaceInv
  <2>2. 0 <= hungUp /\ hungUp <= dialled /\ dialled <= MaxCalls
    BY <2>1 DEF Types
  <2>3. \A p \in Peer : 0 <= over[p] /\ over[p] <= rung[p] /\ rung[p] <= dialled
    BY CallsAre
  <2>4. pending \in [Peer -> 0..MaxCalls]
    <3>1. ASSUME NEW p \in Peer PROVE pending[p] \in 0..MaxCalls
      <4>1. Other(p) \in Peer /\ SynsOK(p)
        BY TwoPeers DEF SurfaceInv, PeerOK
      <4>2. Syns(net[p]) \in Nat /\ pending[p] \in Nat /\ handler[Other(p)] \in 0..MaxCalls
        BY <4>1, CallsAre, SynsCounted
      <4>3. pending[p] + Syns(net[p]) + (IF starting[Other(p)] THEN 1 ELSE 0) <= handler[Other(p)]
        BY <4>1 DEF SynsOK
      <4> QED BY <2>1, <4>2, <4>3
    <3> QED BY <2>1, <3>1 DEF Types
  <2>5. ASSUME NEW p \in Peer
        PROVE  /\ thread[p].at \in {"idle", "deploying", "asking", "changed", "encrypt", "answer"}
               /\ active[p] \in {0, handler[p]}
               /\ "confirm" \in ToSet(conv[p].events) => thread[p].at = "asking"
    <3>1. conv[p].events \in Seq({"secure"})
      BY CallsAre DEF Conversation, Record
    <3>2. "confirm" \notin ToSet(conv[p].events)
      BY <3>1 DEF ToSet
    <3> QED BY <3>2, CallsAre, ThreadIs
  <2>6. ASSUME NEW p \in Peer, NEW c \in Call
        PROVE  /\ sess[p][c].state \in {"Start", "WaitingForACK", "ExchangingKeys", "Routing"}
               /\ sess[p][c].running /\ sess[p][c].secure
                    => sess[p][c].state \in {"ExchangingKeys", "Routing"}
    <3>1. sess[p][c] \in Session /\ SessionOK(p, c)
      BY CallsAre DEF SurfaceInv, PeerOK, HandlerOK
    <3> QED BY <3>1 DEF Session, SessionOK
  <2>7. /\ handler \in [Peer -> 0..MaxCalls] /\ active \in [Peer -> 0..MaxCalls]
        /\ starting \in [Peer -> BOOLEAN]
    BY <2>1 DEF Types
  <2> QED BY <2>2, <2>3, <2>4, <2>5, <2>6, <2>7 DEF TypeOK
<1> QED BY <1>1, Invariant, PTL

\* Bottom gets no message of its peer before the session has given it a key: what
\* comes during the key exchange ends the session (CommunicationSession.cs,
\* deployBottomMessage; SurfaceProtocol.cs, ExchangingKeys and Routing).
THEOREM BottomHearsWithKey == Spec => []HeardWithKey
<1>1. SurfaceInv => HeardWithKey
  BY DEF SurfaceInv, PeerOK, HandlerOK, SessionOK, HeardWithKey
<1> QED BY <1>1, Invariant, PTL
=================================================================================
