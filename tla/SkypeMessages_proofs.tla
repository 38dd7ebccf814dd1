-------------------------- MODULE SkypeMessages_proofs --------------------------
(***************************************************************************)
(* Theorems of SkypeMessages, for any partners, any messages of theirs, any*)
(* room for kept messages and any number of calls: a Surface message that  *)
(* was found is in one place only, the messages that are not kept are      *)
(* handed over in the order in which they were sent, and an event leaves   *)
(* nothing behind that had arrived.                                        *)
(*                                                                         *)
(* The argument.  What is known of a partner has no gap, so what a later   *)
(* event finds comes after it (Found).  The places where a message can be  *)
(* share none and hold all the known ones (Once, Placed).  The messages of *)
(* an event wait in order behind what was handed over (Ordered).           *)
(***************************************************************************)
EXTENDS SkypeMessages, SequenceTheorems, FiniteSetTheorems, TLAPS

-----------------------------------------------------------------------------
Holds(q, m) == \E i \in DOMAIN q : q[i] = m
HasId(d, id) == \E i \in DOMAIN d : d[i].id = id
NoneTwice(q) == \A i, j \in DOMAIN q : q[i] = q[j] => i = j

\* What is left of a sequence without its first element.
LEMMA TailHolds ==
  ASSUME NEW S, NEW q \in Seq(S), q # <<>>
  PROVE  /\ Head(q) \in S /\ Holds(q, Head(q)) /\ Tail(q) \in Seq(S)
         /\ \A i \in DOMAIN Tail(q) : i + 1 \in DOMAIN q /\ Tail(q)[i] = q[i + 1]
         /\ NoneTwice(q) => /\ NoneTwice(Tail(q))
                            /\ \A m : Holds(Tail(q), m) <=> Holds(q, m) /\ m # Head(q)
<1>1. Len(q) \in Nat \ {0} /\ DOMAIN q = 1..Len(q) /\ Head(q) = q[1] /\ Head(q) \in S
  OBVIOUS
<1>2. Tail(q) \in Seq(S) /\ DOMAIN Tail(q) = 1..Len(q) - 1
  OBVIOUS
<1>3. \A i \in DOMAIN Tail(q) : i + 1 \in DOMAIN q /\ Tail(q)[i] = q[i + 1]
  BY <1>1, <1>2
<1>4. Holds(q, Head(q))
  BY <1>1 DEF Holds
<1>5. ASSUME NoneTwice(q)
      PROVE  NoneTwice(Tail(q))
  BY <1>1, <1>2, <1>3, <1>5 DEF NoneTwice
<1>6. ASSUME NoneTwice(q), NEW m
      PROVE  Holds(Tail(q), m) <=> Holds(q, m) /\ m # Head(q)
  <2>1. ASSUME Holds(Tail(q), m)
        PROVE  Holds(q, m) /\ m # Head(q)
    BY <1>1, <1>2, <1>3, <1>6, <2>1 DEF Holds, NoneTwice
  <2>2. ASSUME Holds(q, m), m # Head(q)
        PROVE  Holds(Tail(q), m)
    <3>1. PICK i \in DOMAIN q : q[i] = m
      BY <2>2 DEF Holds
    <3>2. i - 1 \in DOMAIN Tail(q)
      BY <1>1, <1>2, <2>2, <3>1
    <3>3. Tail(q)[i - 1] = m
      BY <1>1, <1>3, <3>1, <3>2
    <3> QED BY <3>2, <3>3 DEF Holds
  <2> QED BY <2>1, <2>2
<1> QED BY <1>1, <1>2, <1>3, <1>4, <1>5, <1>6

\* What one more element at the end adds.
LEMMA AppendHolds ==
  ASSUME NEW S, NEW q \in Seq(S), NEW e \in S
  PROVE  /\ Append(q, e) \in Seq(S) /\ Len(Append(q, e)) = Len(q) + 1
         /\ \A m : Holds(Append(q, e), m) <=> Holds(q, m) \/ m = e
         /\ NoneTwice(q) /\ ~Holds(q, e) => NoneTwice(Append(q, e))
<1>1. /\ Append(q, e) \in Seq(S) /\ Len(Append(q, e)) = Len(q) + 1
      /\ DOMAIN q = 1..Len(q) /\ DOMAIN Append(q, e) = 1..Len(q) + 1 /\ Len(q) \in Nat
  OBVIOUS
<1>2. /\ \A i \in DOMAIN q : i \in DOMAIN Append(q, e) /\ Append(q, e)[i] = q[i]
      /\ Append(q, e)[Len(q) + 1] = e
      /\ \A i \in DOMAIN Append(q, e) : i \in DOMAIN q \/ i = Len(q) + 1
  BY <1>1
<1>3. Len(q) + 1 \in DOMAIN Append(q, e) /\ Len(q) + 1 \notin DOMAIN q
  BY <1>1
<1>4. ASSUME NEW m PROVE Holds(Append(q, e), m) <=> Holds(q, m) \/ m = e
  BY <1>2, <1>3 DEF Holds
<1>5. ASSUME NoneTwice(q), ~Holds(q, e) PROVE NoneTwice(Append(q, e))
  BY <1>2, <1>3, <1>5 DEF Holds, NoneTwice
<1> QED BY <1>1, <1>4, <1>5

\* What is left of a sequence without one of its elements.
LEMMA RemoveHolds ==
  ASSUME NEW S, NEW q \in Seq(S), NEW k \in DOMAIN q
  PROVE  /\ RemoveAt(q, k) \in Seq(S) /\ Len(RemoveAt(q, k)) <= Len(q)
         /\ NoneTwice(q) => /\ NoneTwice(RemoveAt(q, k))
                            /\ \A m : Holds(RemoveAt(q, k), m) <=> Holds(q, m) /\ m # q[k]
<1> DEFINE r == RemoveAt(q, k)
           at(i) == IF i < k THEN i ELSE i + 1
<1>1. Len(q) \in Nat /\ DOMAIN q = 1..Len(q) /\ k \in 1..Len(q)
  OBVIOUS
<1> DEFINE a == SubSeq(q, 1, k - 1)
           b == SubSeq(q, k + 1, Len(q))
<1>2. /\ a \in Seq(S) /\ Len(a) = k - 1 /\ \A i \in 1..k - 1 : a[i] = q[i]
  BY <1>1
<1>3. /\ b \in Seq(S) /\ Len(b) = Len(q) - k /\ \A i \in 1..Len(q) - k : b[i] = q[k + i]
  BY <1>1
<1>4. r = a \o b
  BY DEF RemoveAt
<1> HIDE DEF a, b, r
<1>5. /\ r \in Seq(S) /\ Len(r) = Len(q) - 1 /\ DOMAIN r = 1..Len(q) - 1
      /\ \A i \in 1..Len(q) - 1 : r[i] = IF i <= k - 1 THEN a[i] ELSE b[i - (k - 1)]
  <2>1. /\ r \in Seq(S) /\ Len(r) = Len(a) + Len(b)
        /\ \A i \in 1..Len(a) + Len(b) : r[i] = IF i <= Len(a) THEN a[i] ELSE b[i - Len(a)]
    BY <1>2, <1>3, <1>4, ConcatProperties
  <2>2. Len(a) + Len(b) = Len(q) - 1
    BY <1>1, <1>2, <1>3
  <2>3. DOMAIN r = 1..Len(r)
    BY <2>1
  <2> QED BY <1>2, <2>1, <2>2, <2>3
<1>6. \A i \in DOMAIN r : r[i] = q[at(i)]
  <2> SUFFICES ASSUME NEW i \in DOMAIN r PROVE r[i] = q[at(i)]
    OBVIOUS
  <2>1. CASE i < k
    BY <1>1, <1>2, <1>5, <2>1
  <2>2. CASE ~(i < k)
    <3>1. r[i] = b[i - (k - 1)]
      BY <1>1, <1>5, <2>2
    <3>2. i - (k - 1) \in 1..Len(q) - k /\ k + (i - (k - 1)) = i + 1
      BY <1>1, <1>5, <2>2
    <3> QED BY <1>1, <1>3, <1>5, <2>2, <3>1, <3>2
  <2> QED BY <2>1, <2>2
<1>7. \A i \in DOMAIN r : at(i) \in DOMAIN q /\ at(i) # k
  BY <1>1, <1>5
<1>8. \A i, j \in DOMAIN r : at(i) = at(j) => i = j
  BY <1>1, <1>5
<1>9. \A i \in DOMAIN q : i # k => \E j \in DOMAIN r : at(j) = i
  <2> SUFFICES ASSUME NEW i \in DOMAIN q, i # k PROVE \E j \in DOMAIN r : at(j) = i
    OBVIOUS
  <2>1. CASE i < k
    BY <1>1, <1>5, <2>1
  <2>2. CASE i > k
    <3>1. i - 1 \in DOMAIN r /\ at(i - 1) = i
      BY <1>1, <1>5, <2>2
    <3> QED BY <3>1
  <2> QED BY <1>1, <2>1, <2>2
<1> HIDE DEF at
<1>10. ASSUME NoneTwice(q) PROVE NoneTwice(r)
  BY <1>6, <1>7, <1>8, <1>10 DEF NoneTwice
<1>11. ASSUME NoneTwice(q), NEW m PROVE Holds(r, m) <=> Holds(q, m) /\ m # q[k]
  BY <1>6, <1>7, <1>9, <1>11 DEF NoneTwice, Holds
<1> QED BY <1>1, <1>5, <1>10, <1>11 DEF r

-----------------------------------------------------------------------------
\* Every variable holds a value of its kind; what waits is a known message.
Record == [id : Nat, session : Nat, kept : BOOLEAN]
CallRecord == [at : {"process", "walk", "reply", "start"}, from : Sender, outgoing : BOOLEAN]

Types ==
  /\ arrived \in [Sender -> Nat] /\ \A s \in Sender : arrived[s] <= Len(Sent[s])
  /\ first \in [Sender -> Nat]
  /\ fired \in [Message -> 0..EventsPerMessage]
  /\ known \subseteq Message /\ dropped \subseteq known
  /\ undeployed \in Seq(known) /\ Len(undeployed) <= MaxUndeployed
  /\ handlers \in [Sender -> 0..MaxCalls] /\ active \subseteq Sender
  /\ event \in [at : {"idle", "next", "deploy", "keep"}, batch : Seq(known)]
  /\ event.at \in {"deploy", "keep"} => event.batch # <<>>
  /\ event.at = "idle" => event.batch = <<>>
  /\ call = NoCall \/ call \in CallRecord
  /\ delivered \in [Sender -> Seq(Record)]

\* The known messages of a partner have no gap; all up to one with an event are known.
FoundUpTo(m) ==
  first[m[1]] # 0 /\ \A i \in first[m[1]]..m[2] : <<m[1], i>> \in known
Found ==
  /\ \A m \in known : FoundUpTo(m) /\ first[m[1]] <= m[2]
  /\ \A m \in Message : fired[m] > 0 => FoundUpTo(m)

\* No place holds a message twice ...
IdsOnce(d) == \A i, j \in DOMAIN d : d[i].id = d[j].id => i = j
Once ==
  /\ NoneTwice(event.batch) /\ NoneTwice(undeployed)
  /\ \A s \in Sender : IdsOnce(delivered[s])

\* ... no two places hold the same one, and together they hold all the known ones.
Waits(m) == Holds(event.batch, m)
IsKept(m) == Holds(undeployed, m)
IsDelivered(m) == HasId(delivered[m[1]], m[2])
HasPlace(m) ==
  /\ Waits(m) => ~IsKept(m) /\ ~IsDelivered(m) /\ m \notin dropped
  /\ IsKept(m) => ~IsDelivered(m) /\ m \notin dropped
  /\ IsDelivered(m) => m \notin dropped
  /\ Waits(m) \/ IsKept(m) \/ IsDelivered(m) \/ m \in dropped <=> m \in known /\ Kind(m) # "Chat"
Placed ==
  /\ \A m \in Message : HasPlace(m)
  /\ \A s \in Sender : \A i \in DOMAIN delivered[s] : <<s, delivered[s][i].id>> \in Message

\* The messages of an event are of one partner, and wait in order behind what
\* was handed over.
BatchOrdered ==
  \A i, j \in DOMAIN event.batch :
    /\ event.batch[i][1] = event.batch[j][1]
    /\ i < j => event.batch[i][2] < event.batch[j][2]
Behind ==
  \A m \in known : Waits(m) =>
    \A i \in DOMAIN delivered[m[1]] :
      ~delivered[m[1]][i].kept => delivered[m[1]][i].id < m[2]
Ordered == BatchOrdered /\ Behind /\ InOrder

MessagesInv == Types /\ Found /\ Once /\ Placed /\ Ordered

-----------------------------------------------------------------------------
\* A message is its sender and its id.
LEMMA MessageIs ==
  /\ \A m \in Message : /\ m[1] \in Sender /\ m[2] \in 1..Len(Sent[m[1]]) /\ m[2] \in Nat
                        /\ m = <<m[1], m[2]>>
  /\ \A s \in Sender : /\ Len(Sent[s]) \in Nat
                       /\ \A i \in 1..Len(Sent[s]) : <<s, i>> \in Message
<1>1. \A s \in Sender : Len(Sent[s]) \in Nat /\ DOMAIN Sent[s] = 1..Len(Sent[s])
  BY SentAssumption
<1>2. ASSUME NEW m \in Message
      PROVE  /\ m[1] \in Sender /\ m[2] \in 1..Len(Sent[m[1]]) /\ m[2] \in Nat
             /\ m = <<m[1], m[2]>>
  <2>1. PICK s \in Sender : m \in {s} \X DOMAIN Sent[s]
    BY DEF Message
  <2> QED BY <1>1, <2>1
<1>3. ASSUME NEW s \in Sender, NEW i \in 1..Len(Sent[s])
      PROVE  <<s, i>> \in Message
  <2>1. <<s, i>> \in {s} \X DOMAIN Sent[s]
    BY <1>1
  <2> QED BY <2>1 DEF Message
<1> QED BY <1>1, <1>2, <1>3

\* At first nothing is known.
LEMMA InvInit == Init => MessagesInv
<1> SUFFICES ASSUME Init PROVE MessagesInv
  OBVIOUS
<1> USE DEF Init
<1>1. Types
  <2>1. MaxUndeployed \in Nat /\ MaxCalls \in Nat
    BY CacheAssumption, CallsAssumption
  <2>2. \A s \in Sender : Len(Sent[s]) \in Nat
    BY SentAssumption
  <2> QED BY <2>1, <2>2 DEF Types, NoEvent, NoCall, EventsPerMessage
<1>2. Found
  BY DEF Found
<1>3. Once
  BY DEF Once, NoneTwice, IdsOnce, NoEvent
<1>4. Placed
  BY MessageIs DEF Placed, HasPlace, Waits, IsKept, IsDelivered, Holds, HasId, NoEvent
<1>5. Ordered
  BY DEF Ordered, BatchOrdered, Behind, InOrder, NoEvent
<1> QED BY <1>1, <1>2, <1>3, <1>4, <1>5 DEF MessagesInv

\* A step that moves no message and finds none.
Unmoved ==
  /\ UNCHANGED <<fired, first, known, undeployed, delivered, dropped>>
  /\ event'.batch = event.batch

\* Such a step keeps the invariant.
LEMMA UnmovedKeeps ==
  ASSUME MessagesInv, Unmoved, Types'
  PROVE  MessagesInv'
<1> USE DEF MessagesInv, Unmoved
<1>1. Found'
  BY DEF Found, FoundUpTo
<1>2. Once'
  BY DEF Once
<1>3. Placed'
  BY DEF Placed, HasPlace, Waits, IsKept, IsDelivered
<1>4. Ordered'
  BY DEF Ordered, BatchOrdered, Behind, Waits, InOrder
<1> QED BY <1>1, <1>2, <1>3, <1>4

\* What handing over a message changes: it is delivered, at the end.
LEMMA HandedOver ==
  ASSUME Types, NEW m \in Message, NEW kept \in BOOLEAN, HandOver(m, kept)
  PROVE  /\ delivered' \in [Sender -> Seq(Record)]
         /\ \A n \in Message : IsDelivered(n)' <=> IsDelivered(n) \/ n = m
         /\ ~IsDelivered(m) /\ (\A s \in Sender : IdsOnce(delivered[s]))
              => \A s \in Sender : IdsOnce(delivered'[s])
         /\ \A s \in Sender : \A i \in DOMAIN delivered'[s] :
              \/ i \in DOMAIN delivered[s] /\ delivered'[s][i] = delivered[s][i]
              \/ /\ s = m[1] /\ i = Len(delivered[s]) + 1
                 /\ delivered'[s][i].id = m[2] /\ delivered'[s][i].kept = kept
         /\ \A s \in Sender : DOMAIN delivered[s] = 1..Len(delivered[s]) /\ Len(delivered[s]) \in Nat
<1> DEFINE t == m[1]
           rec == [id |-> m[2], session |-> handlers[m[1]], kept |-> kept]
           d == delivered[t]
<1>1. /\ t \in Sender /\ m[2] \in Nat
      /\ \A n \in Message : n[1] \in Sender /\ n = <<n[1], n[2]>>
  BY MessageIs
<1>2. rec \in Record
  <2>1. handlers[t] \in Nat
    BY <1>1, CallsAssumption DEF Types
  <2> QED BY <1>1, <2>1 DEF Record
<1>3. rec.id = m[2] /\ rec.kept = kept
  OBVIOUS
<1>4. delivered' = [delivered EXCEPT ![t] = Append(d, rec)]
  BY DEF HandOver, From
<1> HIDE DEF rec
<1>5. /\ delivered \in [Sender -> Seq(Record)] /\ d \in Seq(Record)
  BY <1>1 DEF Types
<1>6. /\ Append(d, rec) \in Seq(Record) /\ Len(d) \in Nat /\ DOMAIN d = 1..Len(d)
      /\ DOMAIN Append(d, rec) = 1..Len(d) + 1
      /\ \A i \in 1..Len(d) : Append(d, rec)[i] = d[i]
      /\ Append(d, rec)[Len(d) + 1] = rec
  BY <1>2, <1>5
<1>7. /\ delivered' \in [Sender -> Seq(Record)]
      /\ delivered'[t] = Append(d, rec)
      /\ \A s \in Sender : s # t => delivered'[s] = delivered[s]
  BY <1>1, <1>4, <1>5, <1>6
<1>8. ASSUME NEW s \in Sender, NEW i \in DOMAIN delivered'[s]
      PROVE  \/ i \in DOMAIN delivered[s] /\ delivered'[s][i] = delivered[s][i]
             \/ s = t /\ i = Len(delivered[s]) + 1 /\ delivered'[s][i] = rec
  <2>1. CASE s = t
    <3>1. i \in 1..Len(d) + 1 /\ delivered'[s] = Append(d, rec)
      BY <1>6, <1>7, <1>8, <2>1
    <3>2. i \in 1..Len(d) \/ i = Len(d) + 1
      BY <1>6, <3>1
    <3> QED BY <1>6, <2>1, <3>1, <3>2
  <2>2. CASE s # t
    BY <1>7, <1>8, <2>2
  <2> QED BY <2>1, <2>2
<1>9. Len(d) + 1 \in DOMAIN delivered'[t] /\ delivered'[t][Len(d) + 1] = rec
  BY <1>6, <1>7
<1>10. \A s \in Sender : \A i \in DOMAIN delivered[s] :
         i \in DOMAIN delivered'[s] /\ delivered'[s][i] = delivered[s][i]
  <2> SUFFICES ASSUME NEW s \in Sender, NEW i \in DOMAIN delivered[s]
               PROVE  i \in DOMAIN delivered'[s] /\ delivered'[s][i] = delivered[s][i]
    OBVIOUS
  <2>1. CASE s = t
    <3>1. i \in 1..Len(d) /\ i \in 1..Len(d) + 1 /\ delivered'[s] = Append(d, rec)
      BY <1>6, <1>7, <2>1
    <3> QED BY <1>6, <2>1, <3>1
  <2>2. CASE s # t
    BY <1>7, <2>2
  <2> QED BY <2>1, <2>2
<1>11. ASSUME NEW n \in Message PROVE IsDelivered(n)' <=> IsDelivered(n) \/ n = m
  <2>1. ASSUME IsDelivered(n)' PROVE IsDelivered(n) \/ n = m
    <3>1. PICK i \in DOMAIN delivered'[n[1]] : delivered'[n[1]][i].id = n[2]
      BY <2>1 DEF IsDelivered, HasId
    <3>2. CASE i \in DOMAIN delivered[n[1]] /\ delivered'[n[1]][i] = delivered[n[1]][i]
      BY <3>1, <3>2 DEF IsDelivered, HasId
    <3>3. CASE n[1] = t /\ delivered'[n[1]][i] = rec
      BY <1>1, <1>3, <3>1, <3>3
    <3> QED BY <1>1, <1>8, <3>2, <3>3
  <2>2. ASSUME IsDelivered(n) PROVE IsDelivered(n)'
    BY <1>1, <1>10, <2>2 DEF IsDelivered, HasId
  <2>3. IsDelivered(m)'
    BY <1>3, <1>9 DEF IsDelivered, HasId
  <2> QED BY <2>1, <2>2, <2>3
<1>12. ASSUME ~IsDelivered(m), \A s \in Sender : IdsOnce(delivered[s]), NEW s \in Sender
       PROVE  IdsOnce(delivered'[s])
  <2>1. \A i \in DOMAIN d : d[i].id # m[2]
    BY <1>12 DEF IsDelivered, HasId
  <2> QED BY <1>3, <1>8, <1>12, <2>1 DEF IdsOnce
<1>13. \A s \in Sender : DOMAIN delivered[s] = 1..Len(delivered[s]) /\ Len(delivered[s]) \in Nat
  BY <1>5
<1> QED BY <1>3, <1>7, <1>8, <1>11, <1>12, <1>13

\* The head of the messages of an event.
LEMMA HeadIs ==
  ASSUME MessagesInv, event.batch # <<>>
  PROVE  LET h == Head(event.batch)
         IN  /\ h \in known /\ h \in Message /\ Waits(h) /\ Kind(h) # "Chat"
             /\ ~IsKept(h) /\ ~IsDelivered(h) /\ h \notin dropped
             /\ Tail(event.batch) \in Seq(known)
             /\ NoneTwice(Tail(event.batch))
             /\ \A m : Holds(Tail(event.batch), m) <=> Waits(m) /\ m # h
             /\ \A m \in known : Holds(Tail(event.batch), m) => m[1] = h[1] /\ h[2] < m[2]
             /\ \A i, j \in DOMAIN Tail(event.batch) :
                  LET q == Tail(event.batch)
                  IN  q[i][1] = q[j][1] /\ (i < j => q[i][2] < q[j][2])
<1> DEFINE q == event.batch
           h == Head(q)
<1> USE DEF MessagesInv
<1>1. q \in Seq(known) /\ NoneTwice(q) /\ known \subseteq Message
  BY DEF Types, Once
<1>2. /\ h \in known /\ Holds(q, h) /\ Tail(q) \in Seq(known) /\ NoneTwice(Tail(q))
      /\ \A m : Holds(Tail(q), m) <=> Holds(q, m) /\ m # h
      /\ \A i \in DOMAIN Tail(q) : i + 1 \in DOMAIN q /\ Tail(q)[i] = q[i + 1]
  BY <1>1, TailHolds
<1>3. Waits(h) /\ h \in Message /\ HasPlace(h)
  BY <1>1, <1>2 DEF Waits, Placed
<1>4. Kind(h) # "Chat" /\ ~IsKept(h) /\ ~IsDelivered(h) /\ h \notin dropped
  BY <1>3 DEF HasPlace
<1>5. /\ DOMAIN q = 1..Len(q) /\ Len(q) \in Nat /\ 1 \in DOMAIN q /\ h = q[1]
      /\ DOMAIN Tail(q) = 1..Len(q) - 1
  BY <1>1
<1>6. BatchOrdered
  BY DEF Ordered
<1>7. ASSUME NEW m \in known, Holds(Tail(q), m) PROVE m[1] = h[1] /\ h[2] < m[2]
  <2>1. PICK i \in DOMAIN Tail(q) : q[i + 1] = m /\ i + 1 \in DOMAIN q
    BY <1>2, <1>7 DEF Holds
  <2>2. 1 < i + 1
    BY <1>5, <2>1
  <2> QED BY <1>5, <1>6, <2>1, <2>2 DEF BatchOrdered
<1>8. ASSUME NEW i \in DOMAIN Tail(q), NEW j \in DOMAIN Tail(q)
      PROVE  /\ Tail(q)[i][1] = Tail(q)[j][1]
             /\ i < j => Tail(q)[i][2] < Tail(q)[j][2]
  <2>1. i < j => i + 1 < j + 1
    BY <1>5
  <2> QED BY <1>2, <1>6, <2>1 DEF BatchOrdered
<1> QED BY <1>2, <1>3, <1>4, <1>7, <1>8 DEF Waits

\* What is known of a partner has no gap, so what a walk newly finds comes behind it.
LEMMA NewIsBehind ==
  ASSUME Types, Found, NEW s \in Sender, NEW from \in Nat \ {0},
         first[s] = 0 \/ first[s] = from
  PROVE  LET new == New(s, from)
         IN  /\ new \subseteq Message /\ IsFiniteSet(new) /\ new \cap known = {}
             /\ \A n \in new : n[1] = s
             /\ \A i \in from..arrived[s] : <<s, i>> \in known \cup new
             /\ \A n \in new : from <= n[2]
                               /\ \A i \in from..n[2] : <<s, i>> \in known \cup new
             /\ \A n \in new, k \in known : k[1] = s => k[2] < n[2]
<1> DEFINE new == New(s, from)
<1>1. arrived[s] \in Nat /\ arrived[s] <= Len(Sent[s]) /\ known \subseteq Message
  BY DEF Types
<1>2. \A n \in new : n \notin known /\ \E i \in from..arrived[s] : n = <<s, i>>
  BY DEF New
<1>3. \A i \in from..arrived[s] : <<s, i>> \in known \cup new
  BY DEF New
<1>4. \A i \in from..arrived[s] : i \in 1..Len(Sent[s])
  BY <1>1, MessageIs
<1>5. new \subseteq Message /\ new \cap known = {} /\ \A n \in new : n[1] = s
  BY <1>2, <1>4, MessageIs
<1>6. IsFiniteSet(new)
  <2> DEFINE all == {<<s, i>> : i \in from..arrived[s]}
  <2>1. IsFiniteSet(from..arrived[s])
    BY <1>1, FS_Interval
  <2>2. IsFiniteSet(all)
    <3> DEFINE f == [i \in from..arrived[s] |-> <<s, i>>]
    <3>1. f \in Surjection(from..arrived[s], all)
      BY DEF Surjection
    <3> QED BY <2>1, <3>1, FS_Surjection
  <2>3. new \subseteq all
    BY DEF New
  <2> HIDE DEF new, all
  <2> QED BY <2>2, <2>3, FS_Subset
<1>7. ASSUME NEW n \in new
      PROVE  from <= n[2] /\ \A i \in from..n[2] : <<s, i>> \in known \cup new
  <2>1. PICK j \in from..arrived[s] : n = <<s, j>>
    BY <1>2
  <2>2. \A i \in from..j : i \in from..arrived[s]
    BY <1>1
  <2> HIDE DEF new
  <2> QED BY <1>1, <1>3, <2>1, <2>2
<1>8. ASSUME NEW n \in new, NEW k \in known, k[1] = s
      PROVE  k[2] < n[2]
  <2>1. PICK j \in from..arrived[s] : n = <<s, j>>
    BY <1>2
  <2>2. FoundUpTo(k) /\ first[s] <= k[2] /\ first[s] = from
    BY <1>8 DEF Found, FoundUpTo
  <2>3. \A i \in from..k[2] : <<s, i>> \in known
    BY <1>8, <2>2 DEF FoundUpTo
  <2>4. j \notin from..k[2]
    BY <1>2, <2>1, <2>3
  <2>5. k[2] \in Nat /\ j \in Nat /\ from <= j /\ n[2] = j
    BY <1>1, <1>8, <2>1, MessageIs
  <2> QED BY <2>4, <2>5
<1> QED BY <1>3, <1>5, <1>6, <1>7, <1>8

\* The messages of an event are queued once each.
LEMMA QueueHolds ==
  ASSUME NEW M, IsFiniteSet(M), NEW q \in OldestFirst(M), M \subseteq Message
  PROVE  /\ q \in Seq(M) /\ NoneTwice(q)
         /\ \A m : Holds(q, m) <=> m \in M
         /\ \A i, j \in DOMAIN q : i < j => q[i][2] < q[j][2]
<1> DEFINE n == Cardinality(M)
<1>1. n \in Nat
  BY FS_CardinalityType
<1>2. /\ q \in [1..n -> M] /\ ToSet(q) = M
      /\ \A i, j \in DOMAIN q : i < j => q[i][2] < q[j][2]
  BY DEF OldestFirst, Queues
<1> HIDE DEF n
<1>3. q \in Seq(M)
  BY <1>1, <1>2 DEF Seq
<1>4. \A m : Holds(q, m) <=> m \in M
  BY <1>2 DEF Holds, ToSet
<1>5. ASSUME NEW i \in DOMAIN q, NEW j \in DOMAIN q, q[i] = q[j]
      PROVE  i = j
  <2>1. i \in Nat /\ j \in Nat /\ q[i] \in Message /\ q[i][2] \in Nat
    BY <1>1, <1>2, MessageIs
  <2>2. ~(i < j) /\ ~(j < i)
    BY <1>2, <1>5, <2>1
  <2> QED BY <2>1, <2>2
<1> QED BY <1>2, <1>3, <1>4, <1>5 DEF NoneTwice

-----------------------------------------------------------------------------
\* An event finds what it does not know, and queues it.
LEMMA MessageStatusKeeps ==
  ASSUME MessagesInv, NEW m \in Message, MessageStatus(m)
  PROVE  MessagesInv'
<1> DEFINE s == m[1]
           from == first'[s]
           new == New(s, from)
           M == {n \in new : Kind(n) # "Chat"}
<1> USE DEF MessagesInv
<1>1. /\ s \in Sender /\ m[2] \in 1..Len(Sent[s]) /\ m[2] \in Nat /\ m[2] <= arrived[s]
      /\ first \in [Sender -> Nat] /\ known \subseteq Message
      /\ \A n \in Message : n[1] \in Sender /\ n[2] \in Nat
  <2>1. m[2] <= arrived[s]
    BY DEF MessageStatus, From
  <2>2. first \in [Sender -> Nat] /\ known \subseteq Message
    BY DEF Types
  <2> QED BY <2>1, <2>2, MessageIs
<1>2. /\ first' \in [Sender -> Nat] /\ from \in Nat \ {0}
      /\ first[s] = 0 \/ first[s] = from
      /\ first[s] = 0 => from = m[2]
      /\ \A t \in Sender : t # s => first'[t] = first[t]
  <2>1. first' = IF first[s] = 0 THEN [first EXCEPT ![s] = m[2]] ELSE first
    BY DEF MessageStatus, From
  <2>2. m[2] # 0
    BY <1>1
  <2>3. CASE first[s] = 0
    BY <1>1, <2>1, <2>2, <2>3
  <2>4. CASE first[s] # 0
    BY <1>1, <2>1, <2>4
  <2> QED BY <2>3, <2>4
<1>3. /\ new \subseteq Message /\ IsFiniteSet(new) /\ new \cap known = {}
      /\ \A n \in new : n[1] = s
      /\ \A i \in from..arrived[s] : <<s, i>> \in known \cup new
      /\ \A n \in new : from <= n[2] /\ \A i \in from..n[2] : <<s, i>> \in known \cup new
      /\ \A n \in new, k \in known : k[1] = s => k[2] < n[2]
  BY <1>1, <1>2, NewIsBehind
<1>4. /\ known' = known \cup new /\ fired' = [fired EXCEPT ![m] = @ + 1]
      /\ fired[m] < EventsPerMessage
      /\ event.at = "idle" /\ event.batch = <<>>
      /\ UNCHANGED <<arrived, undeployed, handlers, call, active, delivered, dropped>>
  BY DEF MessageStatus, From, Types
<1>5. PICK q \in OldestFirst(M) : event' = [at |-> "next", batch |-> q]
  BY DEF MessageStatus, From
<1> HIDE DEF from, new
<1>6. M \subseteq new /\ IsFiniteSet(M) /\ M \subseteq Message
  BY <1>3, FS_Subset
<1>7. /\ q \in Seq(M) /\ NoneTwice(q) /\ \A n : Holds(q, n) <=> n \in M
      /\ \A i, j \in DOMAIN q : i < j => q[i][2] < q[j][2]
  BY <1>6, QueueHolds
<1>8. event'.at = "next" /\ event'.batch = q
  BY <1>5
<1>9. Types'
  <2>1. known' \subseteq Message /\ known \subseteq known' /\ M \subseteq known'
    BY <1>1, <1>3, <1>4, <1>6
  <2>2. fired' \in [Message -> 0..EventsPerMessage]
    <3>1. fired \in [Message -> 0..EventsPerMessage] /\ fired[m] + 1 \in 0..EventsPerMessage
      <4>1. fired \in [Message -> 0..2] /\ fired[m] < 2
        BY <1>4 DEF Types, EventsPerMessage
      <4>2. fired[m] \in 0..2
        BY <4>1
      <4> QED BY <4>1, <4>2 DEF EventsPerMessage
    <3> QED BY <1>4, <3>1
  <2>3. q \in Seq(known') /\ undeployed \in Seq(known')
    BY <1>7, <2>1, SeqMonotonic DEF Types
  <2> HIDE DEF M
  <2>4. event' \in [at : {"idle", "next", "deploy", "keep"}, batch : Seq(known')]
    BY <1>5, <2>3
  <2>5. dropped \subseteq known'
    BY <2>1 DEF Types
  <2> QED BY <1>2, <1>4, <1>8, <2>1, <2>2, <2>3, <2>4, <2>5 DEF Types
<1>10. \A n \in known : n[1] = s => first[s] = from
  BY <1>1, <1>2 DEF Found, FoundUpTo
<1>11. ASSUME NEW n \in Message, FoundUpTo(n), first'[n[1]] = first[n[1]]
       PROVE  FoundUpTo(n)'
  BY <1>4, <1>11 DEF FoundUpTo
<1>12. \A n \in Message : FoundUpTo(n) => first'[n[1]] = first[n[1]]
  BY <1>1, <1>2 DEF FoundUpTo, from
<1>13. Found'
  <2>1. ASSUME NEW n \in known' PROVE FoundUpTo(n)' /\ first'[n[1]] <= n[2]
    <3>1. CASE n \in known
      BY <1>1, <1>11, <1>12, <3>1 DEF Found
    <3>2. CASE n \in new
      BY <1>2, <1>3, <1>4, <3>2 DEF FoundUpTo, from
    <3> QED BY <1>4, <3>1, <3>2
  <2>2. ASSUME NEW n \in Message, fired'[n] > 0 PROVE FoundUpTo(n)'
    <3>1. CASE n = m
      <4>1. \A i \in from..m[2] : i \in from..arrived[s]
        BY <1>1, <1>2 DEF Types
      <4> QED BY <1>2, <1>3, <1>4, <3>1, <4>1 DEF FoundUpTo, from
    <3>2. CASE n # m
      <4>1. fired[n] > 0
        BY <1>4, <2>2, <3>2 DEF Types
      <4> QED BY <1>11, <1>12, <4>1 DEF Found
    <3> QED BY <3>1, <3>2
  <2> QED BY <2>1, <2>2 DEF Found
<1>14. Once'
  BY <1>4, <1>7, <1>8 DEF Once
<1>15. Placed'
  <2> SUFFICES ASSUME NEW n \in Message PROVE HasPlace(n)'
    BY <1>4 DEF Placed
  <2>1. HasPlace(n) /\ ~Waits(n)
    BY <1>4 DEF Placed, Waits, Holds
  <2>2. Waits(n)' <=> n \in new /\ Kind(n) # "Chat"
    BY <1>7, <1>8 DEF Waits
  <2>3. /\ IsKept(n)' <=> IsKept(n)
        /\ IsDelivered(n)' <=> IsDelivered(n)
        /\ n \in dropped' <=> n \in dropped
    BY <1>4 DEF IsKept, IsDelivered
  <2>4. n \in known' <=> n \in known \/ n \in new
    BY <1>4
  <2>5. n \in new => n \notin known
    BY <1>3
  <2> QED BY <2>1, <2>2, <2>3, <2>4, <2>5 DEF HasPlace
<1>16. Ordered'
  <2>1. BatchOrdered'
    <3>1. \A i \in DOMAIN q : q[i][1] = s
      BY <1>3, <1>6, <1>7 DEF Holds
    <3> QED BY <1>7, <1>8, <3>1 DEF BatchOrdered
  <2>2. Behind'
    <3> SUFFICES ASSUME NEW n \in known', Waits(n)', NEW i \in DOMAIN delivered[n[1]]
                 PROVE  delivered[n[1]][i].id < n[2]
      BY <1>4 DEF Behind
    <3>1. n \in new /\ n[1] = s /\ n \in Message
      BY <1>3, <1>6, <1>7, <1>8 DEF Waits
    <3> DEFINE k == <<s, delivered[s][i].id>>
    <3>2. k \in Message
      BY <1>1, <3>1 DEF Placed
    <3>3. IsDelivered(k)
      BY <3>1 DEF IsDelivered, HasId
    <3>4. k \in known
      BY <3>2, <3>3 DEF Placed, HasPlace
    <3> QED BY <1>3, <3>1, <3>4
  <2>3. InOrder'
    BY <1>4 DEF Ordered, InOrder
  <2> QED BY <2>1, <2>2, <2>3 DEF Ordered
<1> QED BY <1>9, <1>13, <1>14, <1>15, <1>16

\* The handler of the partner gets the first waiting message; if it throws,
\* the others are given up.
LEMMA DeployKeeps ==
  ASSUME MessagesInv, Deploy
  PROVE  MessagesInv'
<1> DEFINE q == event.batch
           h == Head(q)
           rest == Tail(q)
<1> USE DEF MessagesInv
<1>1. /\ event.at = "deploy" /\ q # <<>>
      /\ UNCHANGED <<arrived, fired, first, known, handlers, call, active, undeployed>>
      /\ HandOver(h, FALSE)
  BY DEF Deploy, EventStep, Types
<1>2. /\ h \in known /\ h \in Message /\ Waits(h) /\ Kind(h) # "Chat"
      /\ ~IsKept(h) /\ ~IsDelivered(h) /\ h \notin dropped
      /\ rest \in Seq(known) /\ NoneTwice(rest)
      /\ \A m : Holds(rest, m) <=> Waits(m) /\ m # h
      /\ \A m \in known : Holds(rest, m) => m[1] = h[1] /\ h[2] < m[2]
      /\ \A i, j \in DOMAIN rest :
           rest[i][1] = rest[j][1] /\ (i < j => rest[i][2] < rest[j][2])
  BY <1>1, HeadIs
<1>3. /\ delivered' \in [Sender -> Seq(Record)]
      /\ \A n \in Message : IsDelivered(n)' <=> IsDelivered(n) \/ n = h
      /\ \A s \in Sender : IdsOnce(delivered'[s])
      /\ \A s \in Sender : \A i \in DOMAIN delivered'[s] :
           \/ i \in DOMAIN delivered[s] /\ delivered'[s][i] = delivered[s][i]
           \/ /\ s = h[1] /\ i = Len(delivered[s]) + 1
              /\ delivered'[s][i].id = h[2] /\ delivered'[s][i].kept = FALSE
      /\ \A s \in Sender : DOMAIN delivered[s] = 1..Len(delivered[s]) /\ Len(delivered[s]) \in Nat
  BY <1>1, <1>2, HandedOver DEF Once
<1>4. \/ event' = [at |-> "next", batch |-> rest] /\ dropped' = dropped
      \/ event' = NoEvent /\ dropped' = dropped \cup ToSet(rest)
  BY DEF Deploy
<1>5. \A m : m \in ToSet(rest) <=> Holds(rest, m)
  BY DEF ToSet, Holds
<1> HIDE DEF q, h, rest
<1>6. /\ known \subseteq Message /\ dropped \subseteq known
      /\ \A m \in Message : m[1] \in Sender /\ m[2] \in Nat /\ m = <<m[1], m[2]>>
  BY MessageIs DEF Types
<1>7. \/ event'.batch = rest /\ dropped' = dropped
      \/ event'.batch = <<>> /\ dropped' = dropped \cup ToSet(rest)
  BY <1>4 DEF NoEvent
<1>8. \A m : Holds(<<>>, m) <=> FALSE
  BY DEF Holds
<1>9. Types'
  <2>1. event' \in [at : {"idle", "next", "deploy", "keep"}, batch : Seq(known)]
        /\ event'.at \in {"idle", "next"} /\ (event'.at = "idle" => event'.batch = <<>>)
    <3>1. <<>> \in Seq(known)
      OBVIOUS
    <3>2. CASE event' = [at |-> "next", batch |-> rest]
      BY <1>2, <3>2
    <3>3. CASE event' = NoEvent
      BY <3>1, <3>3 DEF NoEvent
    <3> QED BY <1>4, <3>2, <3>3
  <2>2. dropped' \subseteq known
    <3>1. \A m \in ToSet(rest) : m \in known
      BY <1>2 DEF ToSet
    <3> QED BY <1>4, <1>6, <3>1
  <2> QED BY <1>1, <1>3, <2>1, <2>2 DEF Types
<1>10. Found'
  BY <1>1 DEF Found, FoundUpTo
<1>11. Once'
  BY <1>1, <1>2, <1>3, <1>7 DEF Once, NoneTwice
<1>12. Placed'
  <2>1. ASSUME NEW m \in Message PROVE HasPlace(m)'
    <3>1. HasPlace(m)
      BY DEF Placed
    <3>2. IsKept(m)' <=> IsKept(m)
      BY <1>1 DEF IsKept
    <3>3. /\ m = h \/ Holds(rest, m) => Waits(m)
          /\ Waits(m) => m = h \/ Holds(rest, m)
          /\ m = h => ~Holds(rest, m)
      BY <1>2
    <3>4. \/ /\ Waits(m)' <=> Holds(rest, m)
             /\ m \in dropped' <=> m \in dropped
          \/ /\ ~Waits(m)'
             /\ m \in dropped' <=> m \in dropped \/ Holds(rest, m)
      BY <1>5, <1>7, <1>8 DEF Waits
    <3>5. m \in known' <=> m \in known
      BY <1>1
    <3> QED BY <1>3, <3>1, <3>2, <3>3, <3>4, <3>5 DEF HasPlace
  <2>2. ASSUME NEW s \in Sender, NEW i \in DOMAIN delivered'[s]
        PROVE  <<s, delivered'[s][i].id>> \in Message
    BY <1>2, <1>3, <1>6, <2>2 DEF Placed
  <2> QED BY <2>1, <2>2 DEF Placed
<1>13. Ordered'
  <2>1. BatchOrdered'
    BY <1>2, <1>7 DEF BatchOrdered
  <2>2. Behind'
    <3> SUFFICES ASSUME NEW m \in known, Waits(m)', NEW i \in DOMAIN delivered'[m[1]],
                        ~delivered'[m[1]][i].kept
                 PROVE  delivered'[m[1]][i].id < m[2]
      BY <1>1 DEF Behind
    <3>1. Holds(rest, m)
      BY <1>7, <1>8 DEF Waits
    <3>2. Waits(m) /\ m[1] = h[1] /\ h[2] < m[2] /\ m[1] \in Sender
      BY <1>2, <1>6, <3>1
    <3>3. CASE i \in DOMAIN delivered[m[1]] /\ delivered'[m[1]][i] = delivered[m[1]][i]
      BY <3>2, <3>3 DEF Ordered, Behind
    <3> QED BY <1>3, <3>2, <3>3
  <2>3. InOrder'
    <3> SUFFICES ASSUME NEW s \in Sender, NEW i \in DOMAIN delivered'[s],
                        NEW j \in DOMAIN delivered'[s], i < j,
                        ~delivered'[s][i].kept, ~delivered'[s][j].kept
                 PROVE  delivered'[s][i].id < delivered'[s][j].id
      BY DEF InOrder
    <3>1. i \in DOMAIN delivered[s] /\ delivered'[s][i] = delivered[s][i]
      <4>1. CASE i = Len(delivered[s]) + 1
        BY <1>3, <4>1
      <4> QED BY <1>3, <4>1
    <3>2. CASE j \in DOMAIN delivered[s] /\ delivered'[s][j] = delivered[s][j]
      BY <3>1, <3>2 DEF Ordered, InOrder
    <3>3. CASE s = h[1] /\ delivered'[s][j].id = h[2]
      BY <1>2, <3>1, <3>3 DEF Ordered, Behind
    <3> QED BY <1>3, <3>2, <3>3
  <2> QED BY <2>1, <2>2, <2>3 DEF Ordered
<1> QED BY <1>9, <1>10, <1>11, <1>12, <1>13

\* A message no handler is there for is kept; if need be the oldest one makes room.
LEMMA KeepKeeps ==
  ASSUME MessagesInv, Keep
  PROVE  MessagesInv'
<1> DEFINE q == event.batch
           h == Head(q)
           rest == Tail(q)
           full == Len(undeployed) >= MaxUndeployed
           oldest == Head(undeployed)
           left == IF full THEN Tail(undeployed) ELSE undeployed
<1> USE DEF MessagesInv
<1>1. /\ event.at = "keep" /\ q # <<>>
      /\ UNCHANGED <<arrived, fired, first, known, handlers, call, active, delivered>>
      /\ undeployed' = Append(left, h)
      /\ dropped' = IF full THEN dropped \cup {oldest} ELSE dropped
      /\ event' = [at |-> "next", batch |-> rest]
  BY DEF Keep, EventStep, Types
<1>2. /\ h \in known /\ h \in Message /\ Waits(h) /\ Kind(h) # "Chat"
      /\ ~IsKept(h) /\ ~IsDelivered(h) /\ h \notin dropped
      /\ rest \in Seq(known) /\ NoneTwice(rest)
      /\ \A m : Holds(rest, m) <=> Waits(m) /\ m # h
      /\ \A m \in known : Holds(rest, m) => m[1] = h[1] /\ h[2] < m[2]
      /\ \A i, j \in DOMAIN rest :
           rest[i][1] = rest[j][1] /\ (i < j => rest[i][2] < rest[j][2])
  BY <1>1, HeadIs
<1>3. /\ known \subseteq Message /\ dropped \subseteq known
      /\ undeployed \in Seq(known) /\ Len(undeployed) \in Nat /\ Len(undeployed) <= MaxUndeployed
      /\ NoneTwice(undeployed) /\ MaxUndeployed \in Nat \ {0}
  BY CacheAssumption DEF Types, Once
<1>4. full => undeployed # <<>>
  BY <1>3
<1>5. full => /\ oldest \in known /\ IsKept(oldest)
              /\ left \in Seq(known) /\ Len(left) = Len(undeployed) - 1 /\ NoneTwice(left)
              /\ \A m : Holds(left, m) <=> IsKept(m) /\ m # oldest
  <2> SUFFICES ASSUME full
               PROVE /\ oldest \in known /\ IsKept(oldest)
                     /\ Tail(undeployed) \in Seq(known) /\ Len(Tail(undeployed)) = Len(undeployed) - 1
                     /\ NoneTwice(Tail(undeployed))
                     /\ \A m : Holds(Tail(undeployed), m) <=> IsKept(m) /\ m # oldest
    OBVIOUS
  <2>1. Len(Tail(undeployed)) = Len(undeployed) - 1
    BY <1>3, <1>4
  <2> QED BY <1>3, <1>4, <2>1, TailHolds DEF IsKept
<1>6. ~full => /\ left \in Seq(known) /\ Len(left) < MaxUndeployed /\ NoneTwice(left)
               /\ \A m : Holds(left, m) <=> IsKept(m)
  BY <1>3 DEF IsKept
<1> HIDE DEF q, h, rest, full, oldest, left
<1>7. left \in Seq(known) /\ NoneTwice(left) /\ ~Holds(left, h) /\ Len(left) + 1 <= MaxUndeployed
  <2>1. CASE full
    BY <1>2, <1>3, <1>5, <2>1
  <2>2. CASE ~full
    <3>1. Len(left) \in Nat
      BY <1>6, <2>2
    <3> QED BY <1>2, <1>3, <1>6, <2>2, <3>1
  <2> QED BY <2>1, <2>2
<1>8. /\ undeployed' \in Seq(known) /\ Len(undeployed') = Len(left) + 1 /\ NoneTwice(undeployed')
      /\ \A m : Holds(undeployed', m) <=> Holds(left, m) \/ m = h
  BY <1>1, <1>2, <1>7, AppendHolds
<1>9. event'.batch = rest /\ event'.at = "next"
  BY <1>1
<1>10. Types'
  <2>1. dropped' \subseteq known
    BY <1>1, <1>3, <1>5
  <2>2. event' \in [at : {"idle", "next", "deploy", "keep"}, batch : Seq(known)]
    BY <1>1, <1>2
  <2> QED BY <1>1, <1>7, <1>8, <1>9, <2>1, <2>2 DEF Types
<1>11. Found'
  BY <1>1 DEF Found, FoundUpTo
<1>12. Once'
  BY <1>1, <1>2, <1>8, <1>9 DEF Once
<1>13. Placed'
  <2>1. ASSUME NEW m \in Message PROVE HasPlace(m)'
    <3>1. HasPlace(m)
      BY DEF Placed
    <3>2. IsDelivered(m)' <=> IsDelivered(m)
      BY <1>1 DEF IsDelivered
    <3>3. Waits(m)' <=> Waits(m) /\ m # h
      BY <1>2, <1>9 DEF Waits
    <3>4. IsKept(m)' <=> Holds(left, m) \/ m = h
      BY <1>8 DEF IsKept
    <3>5. m \in known' <=> m \in known
      BY <1>1
    <3>6. CASE full
      <4>1. m \in dropped' <=> m \in dropped \/ m = oldest
        BY <1>1, <3>6
      <4>2. Holds(left, m) <=> IsKept(m) /\ m # oldest
        BY <1>5, <3>6
      <4>3. m = oldest => IsKept(m)
        BY <1>5, <3>6
      <4> QED BY <1>2, <3>1, <3>2, <3>3, <3>4, <3>5, <4>1, <4>2, <4>3 DEF HasPlace
    <3>7. CASE ~full
      <4>1. m \in dropped' <=> m \in dropped
        BY <1>1, <3>7
      <4>2. Holds(left, m) <=> IsKept(m)
        BY <1>6, <3>7
      <4> QED BY <1>2, <3>1, <3>2, <3>3, <3>4, <3>5, <4>1, <4>2 DEF HasPlace
    <3> QED BY <3>6, <3>7
  <2> QED BY <1>1, <2>1 DEF Placed
<1>14. Ordered'
  <2>1. BatchOrdered'
    BY <1>2, <1>9 DEF BatchOrdered
  <2>2. Behind'
    BY <1>1, <1>2, <1>9 DEF Ordered, Behind, Waits
  <2>3. InOrder'
    BY <1>1 DEF Ordered, InOrder
  <2> QED BY <2>1, <2>2, <2>3 DEF Ordered
<1> QED BY <1>10, <1>11, <1>12, <1>13, <1>14

\* The handler of a call event goes on.
LEMMA CallMoves ==
  ASSUME call = NoCall \/ call \in CallRecord, call.at # "idle"
  PROVE  /\ call \in CallRecord /\ call.from \in Sender
         /\ \A at \in {"process", "walk", "reply", "start"} : [call EXCEPT !.at = at] \in CallRecord
  BY DEF NoCall, CallRecord

\* A new session gets the first SYN that was kept for it.
LEMMA DeployKeptKeeps ==
  ASSUME MessagesInv, DeployKept
  PROVE  MessagesInv'
<1> USE DEF MessagesInv
<1>1. /\ UNCHANGED <<arrived, fired, first, known, event, dropped, handlers, active>>
      /\ call.at = "walk" /\ call' \in {[call EXCEPT !.at = "reply"], call}
  BY DEF DeployKept, CallStep
<1>2. PICK k \in DOMAIN undeployed :
        HandOver(undeployed[k], TRUE) /\ undeployed' = RemoveAt(undeployed, k)
  BY DEF DeployKept
<1> DEFINE h == undeployed[k]
<1>3. /\ known \subseteq Message /\ undeployed \in Seq(known) /\ NoneTwice(undeployed)
      /\ Len(undeployed) \in Nat /\ Len(undeployed) <= MaxUndeployed
      /\ \A m \in Message : m[1] \in Sender /\ m[2] \in Nat /\ m = <<m[1], m[2]>>
  <2>1. known \subseteq Message /\ undeployed \in Seq(known) /\ Len(undeployed) <= MaxUndeployed
    BY DEF Types
  <2>2. NoneTwice(undeployed)
    BY DEF Once
  <2>3. Len(undeployed) \in Nat
    BY <2>1
  <2> QED BY <2>1, <2>2, <2>3, MessageIs
<1>4. h \in known /\ h \in Message /\ IsKept(h)
  <2>1. h \in known
    BY <1>3
  <2> QED BY <1>3, <2>1 DEF IsKept, Holds
<1>5. ~Waits(h) /\ ~IsDelivered(h) /\ h \notin dropped
  BY <1>4 DEF Placed, HasPlace
<1>6. /\ undeployed' \in Seq(known) /\ Len(undeployed') <= Len(undeployed)
      /\ NoneTwice(undeployed')
      /\ \A m : Holds(undeployed', m) <=> Holds(undeployed, m) /\ m # h
  BY <1>2, <1>3, RemoveHolds
<1> HIDE DEF h
<1>7. /\ delivered' \in [Sender -> Seq(Record)]
      /\ \A n \in Message : IsDelivered(n)' <=> IsDelivered(n) \/ n = h
      /\ \A s \in Sender : IdsOnce(delivered'[s])
      /\ \A s \in Sender : \A i \in DOMAIN delivered'[s] :
           \/ i \in DOMAIN delivered[s] /\ delivered'[s][i] = delivered[s][i]
           \/ /\ s = h[1] /\ i = Len(delivered[s]) + 1
              /\ delivered'[s][i].id = h[2] /\ delivered'[s][i].kept = TRUE
  BY <1>2, <1>4, <1>5, HandedOver DEF Once, h
<1>8. Types'
  <2>1. call' \in CallRecord
    BY <1>1, CallMoves DEF Types
  <2>2. Len(undeployed') \in Nat /\ MaxUndeployed \in Nat
    BY <1>6, CacheAssumption
  <2>3. Len(undeployed') <= MaxUndeployed
    BY <1>3, <1>6, <2>2
  <2>4. undeployed' \in Seq(known') /\ delivered' \in [Sender -> Seq(Record)]
    BY <1>1, <1>6, <1>7
  <2> QED BY <1>1, <2>1, <2>3, <2>4 DEF Types
<1>9. Found'
  BY <1>1 DEF Found, FoundUpTo
<1>10. Once'
  BY <1>1, <1>6, <1>7 DEF Once
<1>11. Placed'
  <2>1. ASSUME NEW m \in Message PROVE HasPlace(m)'
    <3>1. HasPlace(m)
      BY DEF Placed
    <3>2. Waits(m)' <=> Waits(m)
      BY <1>1 DEF Waits
    <3>3. IsKept(m)' <=> IsKept(m) /\ m # h
      BY <1>6 DEF IsKept
    <3>4. (m \in dropped' <=> m \in dropped) /\ (m \in known' <=> m \in known)
      BY <1>1
    <3> QED BY <1>4, <1>5, <1>7, <3>1, <3>2, <3>3, <3>4 DEF HasPlace
  <2>2. ASSUME NEW s \in Sender, NEW i \in DOMAIN delivered'[s]
        PROVE  <<s, delivered'[s][i].id>> \in Message
    <3>1. <<h[1], h[2]>> = h
      BY <1>3, <1>4
    <3>2. CASE i \in DOMAIN delivered[s] /\ delivered'[s][i] = delivered[s][i]
      BY <3>2 DEF Placed
    <3>3. CASE s = h[1] /\ delivered'[s][i].id = h[2]
      BY <1>4, <3>1, <3>3
    <3> QED BY <1>7, <2>2, <3>2, <3>3
  <2> QED BY <2>1, <2>2 DEF Placed
<1>12. Ordered'
  <2>1. BatchOrdered'
    BY <1>1 DEF Ordered, BatchOrdered
  <2>2. Behind'
    <3> SUFFICES ASSUME NEW m \in known, Waits(m), NEW i \in DOMAIN delivered'[m[1]],
                        ~delivered'[m[1]][i].kept
                 PROVE  delivered'[m[1]][i].id < m[2]
      BY <1>1 DEF Behind, Waits
    <3>1. m[1] \in Sender
      BY <1>3
    <3> QED BY <1>7, <3>1 DEF Ordered, Behind
  <2>3. InOrder'
    <3> SUFFICES ASSUME NEW s \in Sender, NEW i \in DOMAIN delivered'[s],
                        NEW j \in DOMAIN delivered'[s], i < j,
                        ~delivered'[s][i].kept, ~delivered'[s][j].kept
                 PROVE  delivered'[s][i].id < delivered'[s][j].id
      BY DEF InOrder
    <3> QED BY <1>7 DEF Ordered, InOrder
  <2> QED BY <2>1, <2>2, <2>3 DEF Ordered
<1> QED BY <1>8, <1>9, <1>10, <1>11, <1>12

\* The steps that move no message.
LEMMA QuietSteps ==
  ASSUME MessagesInv,
         \/ \E s \in Sender : Arrive(s) \/ EndCall(s) \/ \E outgoing \in BOOLEAN : NewCall(s, outgoing)
         \/ LookForHandler \/ Leave \/ ProcessUndeployed \/ Reply \/ EndProcess \/ Start
  PROVE  MessagesInv'
<1> USE DEF MessagesInv
<1>1. Types
  OBVIOUS
<1>2. ASSUME NEW s \in Sender, Arrive(s) PROVE Types' /\ Unmoved
  <2>1. /\ arrived' = [arrived EXCEPT ![s] = @ + 1] /\ arrived[s] < Len(Sent[s])
        /\ UNCHANGED <<fired, first, known, undeployed, handlers, event, call, active,
                       delivered, dropped>>
    BY <1>2 DEF Arrive
  <2>2. \A t \in Sender : Len(Sent[t]) \in Nat
    BY SentAssumption
  <2>3. arrived' \in [Sender -> Nat] /\ \A t \in Sender : arrived'[t] <= Len(Sent[t])
    BY <2>1, <2>2, SMTT(30) DEF Types
  <2> QED BY <2>1, <2>3 DEF Types, Unmoved
<1>3. ASSUME NEW s \in Sender, EndCall(s) PROVE Types' /\ Unmoved
  BY <1>1, <1>3 DEF EndCall, CallStep, Types, Unmoved
<1>4. ASSUME NEW s \in Sender, NEW outgoing \in BOOLEAN, NewCall(s, outgoing)
      PROVE  Types' /\ Unmoved
  <2>1. /\ handlers' = [handlers EXCEPT ![s] = @ + 1] /\ handlers[s] < MaxCalls
        /\ call' = [at |-> "process", from |-> s, outgoing |-> outgoing]
        /\ UNCHANGED <<arrived, fired, first, known, event, dropped, undeployed, active, delivered>>
    BY <1>4 DEF NewCall, CallStep
  <2>2. handlers' \in [Sender -> 0..MaxCalls]
    BY <1>1, <2>1, CallsAssumption, SMTT(30) DEF Types
  <2>3. call' \in CallRecord
    BY <2>1 DEF CallRecord
  <2> QED BY <1>1, <2>1, <2>2, <2>3 DEF Types, Unmoved
<1>5. ASSUME LookForHandler PROVE Types' /\ Unmoved
  <2>1. /\ event' = [event EXCEPT !.at = "deploy"] \/ event' = [event EXCEPT !.at = "keep"]
        /\ event.batch # <<>>
        /\ UNCHANGED <<arrived, fired, first, known, handlers, call, active, undeployed,
                       delivered, dropped>>
    BY <1>5 DEF LookForHandler, EventStep
  <2>2. event \in [at : {"idle", "next", "deploy", "keep"}, batch : Seq(known)]
    BY <1>1 DEF Types
  <2>3. /\ event' \in [at : {"idle", "next", "deploy", "keep"}, batch : Seq(known)]
        /\ event'.batch = event.batch /\ event'.at \in {"deploy", "keep"}
    BY <2>1, <2>2
  <2> QED BY <1>1, <2>1, <2>3 DEF Types, Unmoved
<1>6. ASSUME Leave PROVE Types' /\ Unmoved
  <2>1. /\ event' = [at |-> "idle", batch |-> <<>>] /\ event.batch = <<>>
        /\ UNCHANGED <<arrived, fired, first, known, handlers, call, active, undeployed,
                       delivered, dropped>>
    BY <1>6 DEF Leave, EventStep, NoEvent
  <2>2. <<>> \in Seq(known)
    OBVIOUS
  <2>3. /\ event' \in [at : {"idle", "next", "deploy", "keep"}, batch : Seq(known)]
        /\ event'.batch = event.batch /\ event'.at = "idle" /\ event'.batch = <<>>
    BY <2>1, <2>2
  <2> QED BY <1>1, <2>1, <2>3 DEF Types, Unmoved
<1>7. ASSUME ProcessUndeployed \/ Reply \/ EndProcess PROVE Types' /\ Unmoved
  <2>1. /\ call.at # "idle"
        /\ \E at \in {"process", "walk", "reply", "start"} : call' = [call EXCEPT !.at = at]
        /\ UNCHANGED <<arrived, fired, first, known, event, dropped, undeployed, handlers,
                       active, delivered>>
    BY <1>7 DEF ProcessUndeployed, Reply, EndProcess, CallStep
  <2>2. call' \in CallRecord
    BY <1>1, <2>1, CallMoves DEF Types
  <2> QED BY <1>1, <2>1, <2>2 DEF Types, Unmoved
<1>8. ASSUME Start PROVE Types' /\ Unmoved
  <2>1. /\ call.at = "start" /\ active' = active \cup {call.from} /\ call' = NoCall
        /\ UNCHANGED <<arrived, fired, first, known, event, dropped, undeployed, handlers,
                       delivered>>
    BY <1>8 DEF Start, CallStep
  <2>2. call.from \in Sender
    BY <1>1, <2>1, CallMoves DEF Types
  <2> QED BY <1>1, <2>1, <2>2 DEF Types, Unmoved
<1>9. Types' /\ Unmoved
  BY <1>2, <1>3, <1>4, <1>5, <1>6, <1>7, <1>8
<1> QED BY <1>9, UnmovedKeeps

-----------------------------------------------------------------------------
\* The invariant holds always.
THEOREM Invariant == Spec => []MessagesInv
<1>1. Init => MessagesInv
  BY InvInit
<1>2. MessagesInv /\ [Next]_vars => MessagesInv'
  <2> SUFFICES ASSUME MessagesInv, [Next]_vars PROVE MessagesInv'
    OBVIOUS
  <2>1. ASSUME NEW m \in Message, MessageStatus(m) PROVE MessagesInv'
    BY <2>1, MessageStatusKeeps
  <2>2. CASE Deploy
    BY <2>2, DeployKeeps
  <2>3. CASE Keep
    BY <2>3, KeepKeeps
  <2>4. CASE DeployKept
    BY <2>4, DeployKeptKeeps
  <2>5. CASE \/ \E s \in Sender : Arrive(s) \/ EndCall(s) \/ \E outgoing \in BOOLEAN : NewCall(s, outgoing)
             \/ LookForHandler \/ Leave \/ ProcessUndeployed \/ Reply \/ EndProcess \/ Start
    BY <2>5, QuietSteps
  <2>6. CASE UNCHANGED vars
    <3>1. Types' /\ Unmoved
      BY <2>6 DEF vars, MessagesInv, Types, Unmoved
    <3> QED BY <3>1, UnmovedKeeps
  <2> QED BY <2>1, <2>2, <2>3, <2>4, <2>5, <2>6 DEF Next, HandleEvent, HandleCall
<1> QED BY <1>1, <1>2, PTL DEF Spec

\* Every variable holds a value of its kind, and there are never more messages
\* kept than there is room for (SkypeCommProvider.cs:142-164).
THEOREM TypeCorrect == Spec => []TypeOK
<1>1. MessagesInv => TypeOK
  BY DEF MessagesInv, Types, TypeOK, NoCall, CallRecord
<1> QED BY <1>1, Invariant, PTL

\* How many times a sequence without repetition holds an element.
LEMMA CountOnce ==
  ASSUME NEW q, NEW m, NoneTwice(q)
  PROVE  Cardinality({i \in DOMAIN q : q[i] = m}) = IF Holds(q, m) THEN 1 ELSE 0
<1> DEFINE at == {i \in DOMAIN q : q[i] = m}
<1>1. CASE Holds(q, m)
  <2>1. PICK i \in DOMAIN q : q[i] = m
    BY <1>1 DEF Holds
  <2>2. at = {i}
    BY <2>1 DEF NoneTwice
  <2> QED BY <1>1, <2>2, FS_Singleton
<1>2. CASE ~Holds(q, m)
  <2>1. at = {}
    BY <1>2 DEF Holds
  <2> QED BY <1>2, <2>1, FS_EmptySet
<1> QED BY <1>1, <1>2

\* How many times an id was handed over.
LEMMA CountId ==
  ASSUME NEW d, NEW id, IdsOnce(d)
  PROVE  Cardinality({i \in DOMAIN d : d[i].id = id}) = IF HasId(d, id) THEN 1 ELSE 0
<1> DEFINE at == {i \in DOMAIN d : d[i].id = id}
<1>1. CASE HasId(d, id)
  <2>1. PICK i \in DOMAIN d : d[i].id = id
    BY <1>1 DEF HasId
  <2>2. at = {i}
    BY <2>1 DEF IdsOnce
  <2> QED BY <1>1, <2>2, FS_Singleton
<1>2. CASE ~HasId(d, id)
  <2>1. at = {}
    BY <1>2 DEF HasId
  <2> QED BY <1>2, <2>1, FS_EmptySet
<1> QED BY <1>1, <1>2

\* Every Surface message that was found is in exactly one place, however its
\* events and the calls interleave (SkypeCommProvider.cs:74-198): none is handed
\* over twice, none gets lost but for lack of room or behind an exception.
THEOREM AlwaysInOnePlace == Spec => []InOnePlace
<1>1. MessagesInv => InOnePlace
  <2> SUFFICES ASSUME MessagesInv, NEW m \in known
               PROVE  Places(m) = IF Kind(m) = "Chat" THEN 0 ELSE 1
    BY DEF InOnePlace
  <2>1. m \in Message /\ HasPlace(m) /\ m[1] \in Sender
    BY MessageIs DEF MessagesInv, Types, Placed
  <2>2. Cardinality({i \in DOMAIN event.batch : event.batch[i] = m}) = IF Waits(m) THEN 1 ELSE 0
    BY CountOnce DEF MessagesInv, Once, Waits
  <2>3. Cardinality({i \in DOMAIN undeployed : undeployed[i] = m}) = IF IsKept(m) THEN 1 ELSE 0
    BY CountOnce DEF MessagesInv, Once, IsKept
  <2>4. Cardinality({i \in DOMAIN delivered[From(m)] : delivered[From(m)][i].id = m[2]})
          = IF IsDelivered(m) THEN 1 ELSE 0
    BY <2>1, CountId DEF MessagesInv, Once, IsDelivered, From
  <2>5. Places(m) = (IF Waits(m) THEN 1 ELSE 0) + (IF IsKept(m) THEN 1 ELSE 0)
                    + (IF IsDelivered(m) THEN 1 ELSE 0) + IF m \in dropped THEN 1 ELSE 0
    BY <2>2, <2>3, <2>4 DEF Places
  <2> QED BY <2>1, <2>5 DEF HasPlace
<1> QED BY <1>1, Invariant, PTL

\* What is not kept reaches the handlers in the order in which the partner sent
\* it, whatever order the events come in (SkypeCommProvider.cs:98-136).
THEOREM HandedOverInOrder == Spec => []InOrder
<1>1. MessagesInv => InOrder
  BY DEF MessagesInv, Ordered
<1> QED BY <1>1, Invariant, PTL

\* An event leaves no message behind that had arrived before its own (:98-120).
THEOREM NothingIsLeftBehind == Spec => []NothingLeftBehind
<1>1. MessagesInv => NothingLeftBehind
  BY DEF MessagesInv, Found, FoundUpTo, NothingLeftBehind, From
<1> QED BY <1>1, Invariant, PTL
=================================================================================
