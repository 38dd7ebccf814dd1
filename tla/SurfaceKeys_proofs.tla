--------------------------- MODULE SurfaceKeys_proofs ---------------------------
(****************************************************************************)
(* Theorems of SurfaceProtocol, for any number of calls: Bottom is given    *)
(* only keys whose fingerprint was accepted, and both ends of a secured     *)
(* call have the same one. Both follow from one invariant, which says what  *)
(* may be on its way between the two peers, by the part that each of them   *)
(* has in the exchange of keys.                                             *)
(****************************************************************************)
EXTENDS SurfaceProtocol_proofs

-----------------------------------------------------------------------------
(* The messages on their way to a peer *)

\* Messages by what they do to the exchange: OTR's query means another thing when Bottom's
\* message became one than when a session sent it.
Kind(m) ==
  CASE m.type \in {"Syn", "Ack"} -> m.type
    [] m.type = "Kryptonite" -> m.otr[1]
    [] m.type = "Bottom" -> IF m.otr[1] = "Query" THEN "BottomQuery" ELSE "BottomData"

\* A session of the other call made what is behind a SYN or an ACK.
Barrier == {"Syn", "Ack"}
\* What OTR has an answer for that is never of use: it waits, and goes before later messages.
Junk == {"Commit", "Error"}

CommitOf(n) == Kryptonite(<<"Commit", n>>)
KeyOf(K) == Kryptonite(<<"Key", K[1], K[2]>>)
RevealOf(K) == Kryptonite(<<"Reveal", K[1], K[2]>>)
SigOf(K) == Kryptonite(<<"Sig", K[1], K[2]>>)
DataOf(K, body) == Bottom(<<"Data", K, body>>)

\* What may come behind what.
MayFollow(b, a) ==
  \/ b \in Barrier
  \/ b = "Query" /\ a = "Syn"
  \/ b = "Key" /\ a \in {"Query", "Key"}
  \/ b \in Junk /\ a \in {"Ack"} \cup Junk
  \/ b = "BottomData" /\ a = "Sig"

\* Orders of messages, and what they hold.
Chain(x) == \A a \in 1..(Len(x) - 1) : MayFollow(Kind(x[a + 1]), Kind(x[a]))
AllSyn(x) == \A a \in 1..Len(x) : Kind(x[a]) = "Syn"
Free(x) == \A a \in 1..Len(x) : Kind(x[a]) \notin Barrier
Has(x, kind) == \E a \in 1..Len(x) : Kind(x[a]) = kind
Behind(x, kind, other) ==
  \A a \in 1..Len(x) : Kind(x[a]) = kind => \E b \in 1..Len(x) : b > a /\ Kind(x[b]) = other
HeadIn(x, kinds) == x # <<>> => Kind(Head(x)) \in kinds
LastIn(x, kinds) == x # <<>> => Kind(Last(x)) \in kinds
Carries(x, m) == \E a \in 1..Len(x) : x[a] = m
OnlyLast(x, m) == \A a \in 1..(Len(x) - 1) : x[a] # m
ThenBarrier(x, m) == \A a \in 1..(Len(x) - 1) : x[a] = m => Kind(x[a + 1]) \in Barrier
Upto(x, kind, n) == \A a \in 1..Len(x) : Kind(x[a]) = kind => x[a].otr[2] <= n

\* The kinds of the messages, and what tells two of a kind apart.
LEMMA Kinds ==
  /\ Surface("Syn") \in Message /\ Kind(Surface("Syn")) = "Syn"
  /\ Surface("Ack") \in Message /\ Kind(Surface("Ack")) = "Ack"
  /\ Kryptonite(<<"Query">>) \in Message /\ Kind(Kryptonite(<<"Query">>)) = "Query"
  /\ Bottom(<<"Query">>) \in Message /\ Kind(Bottom(<<"Query">>)) = "BottomQuery"
  /\ \A n \in Nat : /\ CommitOf(n) \in Message /\ Kind(CommitOf(n)) = "Commit"
                    /\ CommitOf(n).otr[2] = n
  /\ \A K \in Key : /\ KeyOf(K) \in Message /\ Kind(KeyOf(K)) = "Key" /\ KeyOf(K).otr[2] = K[1]
                    /\ RevealOf(K) \in Message /\ Kind(RevealOf(K)) = "Reveal"
                    /\ SigOf(K) \in Message /\ Kind(SigOf(K)) = "Sig"
  /\ \A K \in Key, body \in {"Request", "Answer"} :
       DataOf(K, body) \in Message /\ Kind(DataOf(K, body)) = "BottomData"
<1>1. /\ Surface("Syn") \in Message /\ Kind(Surface("Syn")) = "Syn"
      /\ Surface("Ack") \in Message /\ Kind(Surface("Ack")) = "Ack"
  BY DEF Surface, Kind, Message
<1>2. ASSUME NEW m \in Otr PROVE Kryptonite(m) \in Message /\ Kind(Kryptonite(m)) = m[1] /\ Kryptonite(m).otr = m
  <2>1. Kryptonite(m) \in Message
    BY KryptonitesAre DEF Unsyn
  <2>2. Kryptonite(m).type = "Kryptonite" /\ Kryptonite(m).otr = m
    BY DEF Kryptonite
  <2> QED BY <2>1, <2>2 DEF Kind
<1>3. ASSUME NEW m \in Ciphers
      PROVE  Bottom(m) \in Message /\ Kind(Bottom(m)) = IF m[1] = "Query" THEN "BottomQuery" ELSE "BottomData"
  <2>1. Bottom(m) \in [type : {"Bottom"}, otr : Ciphers]
    BY DEF Bottom
  <2>2. Bottom(m).type = "Bottom" /\ Bottom(m).otr = m
    BY DEF Bottom
  <2> QED BY <2>1, <2>2 DEF Kind, Message
<1>4. /\ Kryptonite(<<"Query">>) \in Message /\ Kind(Kryptonite(<<"Query">>)) = "Query"
      /\ Bottom(<<"Query">>) \in Message /\ Kind(Bottom(<<"Query">>)) = "BottomQuery"
  <2>1. <<"Query">> \in Otr /\ <<"Query">> \in Ciphers /\ <<"Query">>[1] = "Query"
    BY DEF Otr, Ciphers
  <2> QED BY <1>2, <1>3, <2>1
<1>5. ASSUME NEW n \in Nat
      PROVE  CommitOf(n) \in Message /\ Kind(CommitOf(n)) = "Commit" /\ CommitOf(n).otr[2] = n
  <2>1. <<"Commit", n>> \in Otr
    BY DEF Otr
  <2> QED BY <1>2, <2>1 DEF CommitOf
<1>6. ASSUME NEW K \in Key
      PROVE  /\ KeyOf(K) \in Message /\ Kind(KeyOf(K)) = "Key" /\ KeyOf(K).otr[2] = K[1]
             /\ RevealOf(K) \in Message /\ Kind(RevealOf(K)) = "Reveal"
             /\ SigOf(K) \in Message /\ Kind(SigOf(K)) = "Sig"
  <2>1. K[1] \in Nat /\ K[2] \in Nat
    BY DEF Key
  <2>2. <<"Key", K[1], K[2]>> \in Otr /\ <<"Reveal", K[1], K[2]>> \in Otr /\ <<"Sig", K[1], K[2]>> \in Otr
    BY <2>1 DEF Otr
  <2> QED BY <1>2, <2>2 DEF KeyOf, RevealOf, SigOf
<1>7. ASSUME NEW K \in Key, NEW body \in {"Request", "Answer"}
      PROVE  DataOf(K, body) \in Message /\ Kind(DataOf(K, body)) = "BottomData"
  <2>1. <<"Data", K, body>> \in Ciphers /\ <<"Data", K, body>>[1] # "Query"
    BY DEF Ciphers
  <2> QED BY <1>3, <2>1 DEF DataOf
<1> QED BY <1>1, <1>4, <1>5, <1>6, <1>7

\* A message of a kind that has a content.
LEMMA OfKind ==
  ASSUME NEW m \in Message
  PROVE  /\ Kind(m) = "Syn" <=> m.type = "Syn"
         /\ Kind(m) = "Ack" <=> m.type = "Ack"
         /\ m.type = "Kryptonite" => m.otr \in Otr /\ Kind(m) = m.otr[1] /\ m = Kryptonite(m.otr)
         /\ m.type = "Bottom" => /\ m.otr \in Ciphers /\ m = Bottom(m.otr)
                                 /\ Kind(m) = IF m.otr = <<"Query">> THEN "BottomQuery" ELSE "BottomData"
         /\ m.type \in {"Syn", "Ack", "Kryptonite", "Bottom"}
         /\ Kind(m) = "Commit" => m.otr[2] \in Nat /\ m = CommitOf(m.otr[2])
         /\ Kind(m) \in {"Key", "Reveal", "Sig"} =>
              /\ <<m.otr[2], m.otr[3]>> \in Key
              /\ Kind(m) = "Key" => m = KeyOf(<<m.otr[2], m.otr[3]>>)
              /\ Kind(m) = "Reveal" => m = RevealOf(<<m.otr[2], m.otr[3]>>)
              /\ Kind(m) = "Sig" => m = SigOf(<<m.otr[2], m.otr[3]>>)
<1>1. CASE m \in [type : {"Syn", "Ack"}]
  BY <1>1 DEF Kind
<1>2. CASE m \in [type : {"Kryptonite"}, otr : Otr]
  <2>1. m.type = "Kryptonite" /\ m.otr \in Otr /\ m = Kryptonite(m.otr)
    BY <1>2 DEF Kryptonite
  <2>2. Kind(m) = m.otr[1]
    BY <2>1 DEF Kind
  <2>3. Kind(m) = "Commit" => m.otr \in {"Commit"} \X Nat
    <3>1. CASE m.otr = <<"Query">> \/ m.otr = <<"Error">>
      <4>1. m.otr[1] \in {"Query", "Error"}
        BY <3>1
      <4> QED BY <2>2, <4>1
    <3>2. CASE m.otr \in {"Key", "Reveal", "Sig"} \X Nat \X Nat
      BY <2>2, <3>2
    <3>3. CASE m.otr \in {"Data"} \X Key \X {"Request", "Answer"}
      BY <2>2, <3>3
    <3> QED BY <2>1, <3>1, <3>2, <3>3 DEF Otr
  <2>4. Kind(m) \in {"Key", "Reveal", "Sig"} => m.otr \in {"Key", "Reveal", "Sig"} \X Nat \X Nat
    <3>1. CASE m.otr = <<"Query">> \/ m.otr = <<"Error">>
      <4>1. m.otr[1] \in {"Query", "Error"}
        BY <3>1
      <4> QED BY <2>2, <4>1
    <3>2. CASE m.otr \in {"Commit"} \X Nat
      BY <2>2, <3>2
    <3>3. CASE m.otr \in {"Data"} \X Key \X {"Request", "Answer"}
      BY <2>2, <3>3
    <3> QED BY <2>1, <3>1, <3>2, <3>3 DEF Otr
  <2>5. Kind(m) = "Commit" => m.otr[2] \in Nat /\ m = CommitOf(m.otr[2])
    BY <2>1, <2>2, <2>3 DEF CommitOf
  <2>6. Kind(m) \in {"Key", "Reveal", "Sig"} =>
          /\ <<m.otr[2], m.otr[3]>> \in Key
          /\ m.otr = <<m.otr[1], m.otr[2], m.otr[3]>>
    BY <2>4 DEF Key
  <2>7. Kind(m) \in {"Syn", "Ack"} => FALSE
    BY <2>1, <2>2 DEF Otr
  <2> QED BY <2>1, <2>2, <2>5, <2>6, <2>7 DEF KeyOf, RevealOf, SigOf
<1>3. CASE m \in [type : {"Bottom"}, otr : Ciphers]
  <2>1. m.type = "Bottom" /\ m.otr \in Ciphers /\ m = Bottom(m.otr)
    BY <1>3 DEF Bottom
  <2>2. m.otr[1] = "Query" <=> m.otr = <<"Query">>
    BY <2>1 DEF Ciphers
  <2>3. Kind(m) = IF m.otr = <<"Query">> THEN "BottomQuery" ELSE "BottomData"
    BY <2>1, <2>2 DEF Kind
  <2> QED BY <2>1, <2>3
<1> QED BY <1>1, <1>2, <1>3 DEF Message

\* Two messages of different kinds, or of the same kind with different contents, differ.
LEMMA Distinct ==
  ASSUME NEW K \in Key, NEW L \in Key
  PROVE  /\ KeyOf(K) = KeyOf(L) => K = L
         /\ RevealOf(K) = RevealOf(L) => K = L
         /\ SigOf(K) = SigOf(L) => K = L
         /\ \A b, d \in {"Request", "Answer"} : DataOf(K, b) = DataOf(L, d) => K = L /\ b = d
<1>1. K = <<K[1], K[2]>> /\ L = <<L[1], L[2]>>
  BY DEF Key
<1>2. \A m, o : Kryptonite(m) = Kryptonite(o) => m = o
  <2> SUFFICES ASSUME NEW m, NEW o, Kryptonite(m) = Kryptonite(o) PROVE m = o
    OBVIOUS
  <2>1. Kryptonite(m).otr = m /\ Kryptonite(o).otr = o
    BY DEF Kryptonite
  <2> QED BY <2>1
<1>3. \A m, o : Bottom(m) = Bottom(o) => m = o
  <2> SUFFICES ASSUME NEW m, NEW o, Bottom(m) = Bottom(o) PROVE m = o
    OBVIOUS
  <2>1. Bottom(m).otr = m /\ Bottom(o).otr = o
    BY DEF Bottom
  <2> QED BY <2>1
<1>4. KeyOf(K) = KeyOf(L) => K = L
  BY <1>1, <1>2 DEF KeyOf
<1>5. RevealOf(K) = RevealOf(L) => K = L
  BY <1>1, <1>2 DEF RevealOf
<1>6. SigOf(K) = SigOf(L) => K = L
  BY <1>1, <1>2 DEF SigOf
<1>7. \A b, d \in {"Request", "Answer"} : DataOf(K, b) = DataOf(L, d) => K = L /\ b = d
  BY <1>3 DEF DataOf
<1> QED BY <1>4, <1>5, <1>6, <1>7

\* What is left, t, when the first message, h, is taken from x.
Without(x, h, t) ==
  /\ h \in Message /\ t \in Seq(Message)
  /\ Chain(x) => Chain(t) /\ (t # <<>> => MayFollow(Kind(Head(t)), Kind(h)))
  /\ AllSyn(x) => AllSyn(t) /\ Kind(h) = "Syn"
  /\ Free(x) => Free(t) /\ Kind(h) \notin Barrier
  /\ Free(t) /\ Kind(h) \notin Barrier => Free(x)
  /\ \A k : Has(x, k) /\ Kind(h) # k => Has(t, k)
  /\ \A k, o : Behind(x, k, o) => Behind(t, k, o) /\ (Kind(h) = k => Has(t, o))
  /\ \A k \in Barrier : Has(t, k) => ~Free(t)
  /\ t # <<>> => Last(t) = Last(x) /\ Has(t, Kind(Last(t)))
  /\ t = <<>> => Last(x) = h /\ x = <<h>>
  /\ \A m : x = <<m>> => h = m /\ t = <<>>
  /\ Last(x) \in Message
  /\ \A m : Carries(t, m) => Carries(x, m)
  /\ Carries(x, h)
  /\ \A m : OnlyLast(x, m) => OnlyLast(t, m) /\ (h = m => t = <<>>)
  /\ \A m : ThenBarrier(x, m) => /\ ThenBarrier(t, m)
                                 /\ h = m /\ t # <<>> => Kind(Head(t)) \in Barrier
  /\ \A k, n : Upto(x, k, n) => Upto(t, k, n) /\ (Kind(h) = k => h.otr[2] <= n)

\* A message is taken.
LEMMA Taken ==
  ASSUME NEW x \in Seq(Message), x # <<>>, NEW t, t = Tail(x), NEW h, h = Head(x)
  PROVE  Without(x, h, t)
<1>1. /\ t \in Seq(Message) /\ Len(x) \in Nat /\ Len(x) > 0 /\ Len(t) = Len(x) - 1 /\ h = x[1] /\ h \in Message
      /\ \A a \in 1..Len(t) : t[a] = x[a + 1] /\ a + 1 \in 1..Len(x)
      /\ t # <<>> => Head(t) = t[1] /\ Len(t) >= 1
      /\ t = <<>> => Len(t) = 0
  <2>1. t \in Seq(Message) /\ Len(x) \in Nat /\ Len(x) > 0 /\ Len(t) = Len(x) - 1 /\ h = x[1] /\ h \in Message
    OBVIOUS
  <2>2. \A a \in 1..Len(t) : t[a] = x[a + 1] /\ a + 1 \in 1..Len(x)
    BY <2>1
  <2>3. \A q \in Seq(Message) : IF q = <<>> THEN Len(q) = 0 ELSE Head(q) = q[1] /\ Len(q) >= 1
    OBVIOUS
  <2> QED BY <2>1, <2>2, <2>3
<1>2. Last(x) = x[Len(x)] /\ (t # <<>> => Last(t) = t[Len(t)])
  BY DEF Last
<1> HIDE DEF Kind
<1>3. \A a \in 1..(Len(t) - 1) : a \in 1..Len(t) /\ a + 1 \in 1..Len(t) /\ a + 1 \in 1..(Len(x) - 1)
                                  /\ t[a] = x[a + 1] /\ t[a + 1] = x[(a + 1) + 1]
  BY <1>1
<1>4. t # <<>> => Head(t) = x[1 + 1] /\ 1 \in 1..(Len(x) - 1)
  BY <1>1
<1>5. Chain(x) => Chain(t) /\ (t # <<>> => MayFollow(Kind(Head(t)), Kind(h)))
  BY <1>1, <1>3, <1>4 DEF Chain
<1>6. 1 \in 1..Len(x)
  BY <1>1
<1>7. /\ AllSyn(x) => AllSyn(t) /\ Kind(h) = "Syn"
      /\ Free(x) => Free(t) /\ Kind(h) \notin Barrier
  BY <1>1, <1>6 DEF AllSyn, Free
<1>8. \A a \in 1..Len(x) : a = 1 \/ (a - 1 \in 1..Len(t) /\ x[a] = t[a - 1])
  BY <1>1
<1>9. Free(t) /\ Kind(h) \notin Barrier => Free(x)
  BY <1>1, <1>8 DEF Free
<1>10. \A k : Has(x, k) /\ Kind(h) # k => Has(t, k)
  BY <1>1, <1>8 DEF Has
<1>11. ASSUME NEW k, NEW o, Behind(x, k, o)
       PROVE  Behind(t, k, o) /\ (Kind(h) = k => Has(t, o))
  <2>1. ASSUME NEW a \in 1..Len(x), Kind(x[a]) = k PROVE \E b \in 1..Len(t) : b > a - 1 /\ Kind(t[b]) = o
    <3>1. PICK b \in 1..Len(x) : b > a /\ Kind(x[b]) = o
      BY <1>11, <2>1 DEF Behind
    <3>2. b - 1 \in 1..Len(t) /\ t[b - 1] = x[b] /\ b - 1 > a - 1
      BY <1>1, <3>1
    <3> QED BY <3>1, <3>2
  <2>2. Kind(h) = k => Has(t, o)
    BY <1>1, <1>6, <2>1 DEF Has
  <2>3. ASSUME NEW a \in 1..Len(t), Kind(t[a]) = k PROVE \E b \in 1..Len(t) : b > a /\ Kind(t[b]) = o
    <3>1. a + 1 \in 1..Len(x) /\ Kind(x[a + 1]) = k /\ (a + 1) - 1 = a
      BY <1>1, <2>3
    <3> QED BY <2>1, <3>1
  <2> QED BY <2>2, <2>3 DEF Behind
<1>12. /\ t # <<>> => Last(t) = Last(x)
       /\ t = <<>> => Last(x) = h /\ x = <<h>>
       /\ Last(x) \in Message
  BY <1>1, <1>2
<1>13. (\A m : Carries(t, m) => Carries(x, m)) /\ Carries(x, h)
  BY <1>1, <1>6 DEF Carries
<1>14. ASSUME NEW m, OnlyLast(x, m) PROVE OnlyLast(t, m) /\ (h = m => t = <<>>)
  <2>1. OnlyLast(t, m)
    BY <1>1, <1>3, <1>14 DEF OnlyLast
  <2>2. h = m => t = <<>>
    BY <1>1, <1>4, <1>14 DEF OnlyLast
  <2> QED BY <2>1, <2>2
<1>15. ASSUME NEW m, ThenBarrier(x, m)
       PROVE  ThenBarrier(t, m) /\ (h = m /\ t # <<>> => Kind(Head(t)) \in Barrier)
  BY <1>1, <1>3, <1>4, <1>15 DEF ThenBarrier
<1>16. \A k, n : Upto(x, k, n) => Upto(t, k, n) /\ (Kind(h) = k => h.otr[2] <= n)
  BY <1>1, <1>6 DEF Upto
<1>17. ASSUME NEW m, x = <<m>> PROVE h = m /\ t = <<>>
  BY <1>17
<1>18. \A k \in Barrier : Has(t, k) => ~Free(t)
  BY DEF Has, Free
<1>19. t # <<>> => Has(t, Kind(Last(t)))
  <2>1. t # <<>> => Len(t) \in 1..Len(t) /\ Last(t) = t[Len(t)]
    BY <1>1, <1>2
  <2> QED BY <2>1 DEF Has
<1> QED BY <1>1, <1>5, <1>7, <1>9, <1>10, <1>11, <1>12, <1>13, <1>14, <1>15, <1>16, <1>17, <1>18,
           <1>19 DEF Without


\* What there is, z, when m is put behind y.
With(y, m, z) ==
  /\ z \in Seq(Message) /\ z # <<>> /\ Last(z) = m
  /\ y = <<>> => z = <<m>> /\ Head(z) = m /\ Tail(z) = <<>>
  /\ y # <<>> => /\ Head(z) = Head(y) /\ Tail(z) = Tail(y) \o <<m>>
                 /\ Last(y) \in Message
                 /\ Tail(y) # <<>> => Head(Tail(z)) = Head(Tail(y))
                 /\ Tail(y) = <<>> => Head(Tail(z)) = m
  /\ ~Free(y) => y # <<>>
  /\ \A k : Has(y, k) => y # <<>>
  /\ Chain(y) /\ (y # <<>> => MayFollow(Kind(m), Kind(Last(y)))) => Chain(z)
  /\ AllSyn(y) /\ Kind(m) = "Syn" => AllSyn(z)
  /\ Free(z) <=> Free(y) /\ Kind(m) \notin Barrier
  /\ \A k : Has(z, k) <=> Has(y, k) \/ Kind(m) = k
  /\ \A k, o : Behind(y, k, o) /\ Kind(m) # k => Behind(z, k, o)
  /\ \A k : Kind(m) # k => Behind(z, k, Kind(m))
  /\ \A l : Carries(z, l) <=> Carries(y, l) \/ l = m
  /\ \A l : ~Carries(y, l) => OnlyLast(z, l) /\ ThenBarrier(z, l)
  /\ \A l : ThenBarrier(y, l) /\ (y # <<>> /\ Last(y) = l => Kind(m) \in Barrier) => ThenBarrier(z, l)
  /\ \A k, n : Upto(y, k, n) /\ (Kind(m) = k => m.otr[2] <= n) => Upto(z, k, n)

\* A message is sent.
LEMMA Put ==
  ASSUME NEW y \in Seq(Message), NEW m \in Message, NEW z, z = y \o <<m>>
  PROVE  With(y, m, z)
<1> DEFINE n == Len(y)
<1>1. /\ z \in Seq(Message) /\ n \in Nat /\ Len(z) = n + 1 /\ z[n + 1] = m
      /\ \A a \in 1..n : z[a] = y[a]
      /\ \A a \in 1..(n + 1) : a = n + 1 \/ a \in 1..n
      /\ \A a \in 1..n : a \in 1..(n + 1) /\ a # n + 1
  OBVIOUS
<1>2. Last(z) = m /\ (y # <<>> => Last(y) = y[n] /\ n \in 1..n /\ Last(y) \in Message)
  BY <1>1 DEF Last
<1>3. z # <<>> /\ (y = <<>> => n = 0)
  BY <1>1
<1>4. y = <<>> => z = <<m>> /\ Head(z) = m /\ Tail(z) = <<>>
  <2> SUFFICES ASSUME y = <<>> PROVE z = <<m>> /\ Head(z) = m /\ Tail(z) = <<>>
    OBVIOUS
  <2>1. z = <<m>>
    OBVIOUS
  <2> QED BY <2>1
<1>5. ASSUME y # <<>>
      PROVE  /\ Head(z) = Head(y) /\ Tail(z) = Tail(y) \o <<m>>
             /\ Tail(y) # <<>> => Head(Tail(z)) = Head(Tail(y))
             /\ Tail(y) = <<>> => Head(Tail(z)) = m
  <2>1. Head(z) = Head(y) /\ Tail(z) = Tail(y) \o <<m>> /\ Tail(y) \in Seq(Message)
    BY <1>5, HeadTailAppend, AppendIsConcat
  <2>2. \A q \in Seq(Message) : /\ q # <<>> => Head(q \o <<m>>) = Head(q)
                                /\ q = <<>> => Head(q \o <<m>>) = m
    OBVIOUS
  <2> QED BY <2>1, <2>2
<1> HIDE DEF n, Kind
<1>6. Chain(y) /\ (y # <<>> => MayFollow(Kind(m), Kind(Last(y)))) => Chain(z)
  <2> SUFFICES ASSUME Chain(y), y # <<>> => MayFollow(Kind(m), Kind(Last(y))), NEW a \in 1..(Len(z) - 1)
               PROVE  MayFollow(Kind(z[a + 1]), Kind(z[a]))
    BY DEF Chain
  <2>1. CASE a = n
    <3>1. y # <<>> /\ z[a + 1] = m /\ z[a] = Last(y)
      BY <1>1, <1>2, <1>3, <2>1
    <3> QED BY <3>1
  <2>2. CASE a \in 1..(n - 1)
    <3>1. z[a] = y[a] /\ z[a + 1] = y[a + 1]
      BY <1>1, <2>2
    <3> QED BY <2>2, <3>1 DEF Chain, n
  <2> QED BY <1>1, <2>1, <2>2
<1>7. AllSyn(y) /\ Kind(m) = "Syn" => AllSyn(z)
  BY <1>1 DEF AllSyn, n
<1>8. Free(z) <=> Free(y) /\ Kind(m) \notin Barrier
  BY <1>1 DEF Free, n
<1>9. \A k : Has(z, k) <=> Has(y, k) \/ Kind(m) = k
  BY <1>1 DEF Has, n
<1>10. ASSUME NEW k, NEW o, Behind(y, k, o), Kind(m) # k PROVE Behind(z, k, o)
  <2> SUFFICES ASSUME NEW a \in 1..Len(z), Kind(z[a]) = k
               PROVE  \E b \in 1..Len(z) : b > a /\ Kind(z[b]) = o
    BY DEF Behind
  <2>1. a \in 1..n /\ z[a] = y[a]
    BY <1>1, <1>10
  <2>2. PICK b \in 1..n : b > a /\ Kind(y[b]) = o
    BY <1>10, <2>1 DEF Behind, n
  <2> QED BY <1>1, <2>2
<1>11. ASSUME NEW k, Kind(m) # k PROVE Behind(z, k, Kind(m))
  <2> SUFFICES ASSUME NEW a \in 1..Len(z), Kind(z[a]) = k
               PROVE  \E b \in 1..Len(z) : b > a /\ Kind(z[b]) = Kind(m)
    BY DEF Behind
  <2>1. a \in 1..n
    BY <1>1, <1>11
  <2>2. n + 1 \in 1..Len(z) /\ n + 1 > a /\ z[n + 1] = m
    BY <1>1, <2>1
  <2> QED BY <2>2
<1>12. \A l : Carries(z, l) <=> Carries(y, l) \/ l = m
  BY <1>1 DEF Carries, n
<1>13. ASSUME NEW l, ~Carries(y, l) PROVE OnlyLast(z, l) /\ ThenBarrier(z, l)
  BY <1>1, <1>13 DEF Carries, OnlyLast, ThenBarrier, n
<1>14. ASSUME NEW l, ThenBarrier(y, l), y # <<>> /\ Last(y) = l => Kind(m) \in Barrier PROVE ThenBarrier(z, l)
  <2> SUFFICES ASSUME NEW a \in 1..(Len(z) - 1), z[a] = l PROVE Kind(z[a + 1]) \in Barrier
    BY DEF ThenBarrier
  <2>1. CASE a = n
    <3>1. y # <<>> /\ z[a + 1] = m /\ z[a] = Last(y)
      BY <1>1, <1>2, <1>3, <2>1
    <3> QED BY <1>14, <3>1
  <2>2. CASE a \in 1..(n - 1)
    <3>1. z[a] = y[a] /\ z[a + 1] = y[a + 1]
      BY <1>1, <2>2
    <3> QED BY <1>14, <2>2, <3>1 DEF ThenBarrier, n
  <2> QED BY <1>1, <2>1, <2>2
<1>15. \A k, c : Upto(y, k, c) /\ (Kind(m) = k => m.otr[2] <= c) => Upto(z, k, c)
  BY <1>1 DEF Upto, n
<1>16. (~Free(y) => y # <<>>) /\ \A k : Has(y, k) => y # <<>>
  BY <1>3 DEF Free, Has, n
<1> QED BY <1>1, <1>2, <1>3, <1>4, <1>5, <1>6, <1>7, <1>8, <1>9, <1>10, <1>11, <1>12, <1>13, <1>14,
           <1>15, <1>16 DEF With

\* Nothing is on its way.
LEMMA Nothing ==
  /\ <<>> \in Seq(Message) /\ Chain(<<>>) /\ AllSyn(<<>>) /\ Free(<<>>)
  /\ \A k : ~Has(<<>>, k)
  /\ \A k, o : Behind(<<>>, k, o)
  /\ \A m : ~Carries(<<>>, m) /\ OnlyLast(<<>>, m) /\ ThenBarrier(<<>>, m)
  /\ \A k, n : Upto(<<>>, k, n)
<1> DEFINE e == <<>>
<1>1. e \in Seq(Message) /\ Len(e) = 0
  OBVIOUS
<1> HIDE DEF e
<1>2. 1..Len(e) = {} /\ 1..(Len(e) - 1) = {}
  BY <1>1
<1> QED BY <1>1, <1>2 DEF Chain, AllSyn, Free, Has, Behind, Carries, OnlyLast, ThenBarrier, Upto, e


\* What there is, z, when commitments and errors, o, are put behind y.
WithJunk(y, o, z) ==
  /\ z \in Seq(Message)
  /\ Chain(y) /\ LastIn(y, {"Ack"} \cup Junk) => Chain(z) /\ LastIn(z, {"Ack"} \cup Junk)
  /\ y # <<>> => z # <<>> /\ Head(z) = Head(y)
  /\ ~Free(y) => y # <<>>
  /\ y = <<>> /\ z # <<>> => Kind(Head(z)) \in Junk
  /\ Free(z) <=> Free(y)
  /\ \A k \in Barrier : (Has(z, k) <=> Has(y, k)) /\ \A l : Behind(y, k, l) => Behind(z, k, l)
  /\ \A l : Carries(z, l) => Carries(y, l) \/ Kind(l) \in Junk
  /\ \A k, n : Upto(y, k, n) /\ (k \in Junk => Upto(o, k, n)) => Upto(z, k, n)

\* Commitments and errors that waited are sent.
LEMMA PutJunk ==
  ASSUME NEW y \in Seq(Message), NEW o \in Seq(Message), \A a \in 1..Len(o) : Kind(o[a]) \in Junk,
         NEW z, z = y \o o
  PROVE  WithJunk(y, o, z)
<1> DEFINE n == Len(y)
           j == Len(o)
<1>1. /\ n \in Nat /\ j \in Nat
      /\ z \in Seq(Message) /\ Len(z) = n + j
      /\ \A a \in 1..(n + j) : z[a] = IF a <= n THEN y[a] ELSE o[a - n]
  BY ConcatProperties
<1>2. /\ \A a \in 1..n : a \in 1..(n + j) /\ z[a] = y[a]
      /\ \A a \in 1..(n + j) : a \in 1..n \/ (a - n \in 1..j /\ z[a] = o[a - n] /\ Kind(z[a]) \in Junk)
  <2>1. \A a \in 1..n : a \in 1..(n + j) /\ z[a] = y[a]
    BY <1>1
  <2>2. \A a \in 1..(n + j) : a \in 1..n \/ (a - n \in 1..j /\ z[a] = o[a - n])
    BY <1>1
  <2> HIDE DEF n
  <2> QED BY <2>1, <2>2
<1>3. \A q \in Seq(Message) : /\ q # <<>> => /\ Len(q) \in 1..Len(q) /\ 1 \in 1..Len(q) /\ Head(q) = q[1]
                                             /\ Last(q) = q[Len(q)]
                              /\ q = <<>> => Len(q) = 0
                              /\ Len(q) = 0 => q = <<>>
  BY DEF Last
<1> HIDE DEF n, j, Kind
<1>4. Free(z) <=> Free(y)
  BY <1>1, <1>2 DEF Free, n, Junk, Barrier
<1>5. ASSUME NEW k \in Barrier
      PROVE  (Has(z, k) <=> Has(y, k)) /\ \A l : Behind(y, k, l) => Behind(z, k, l)
  <2>1. \A a \in 1..(n + j) : Kind(z[a]) = k => a \in 1..n
    BY <1>2 DEF Junk, Barrier
  <2>2. Has(z, k) <=> Has(y, k)
    BY <1>1, <1>2, <2>1 DEF Has, n
  <2>3. \A l : Behind(y, k, l) => Behind(z, k, l)
    BY <1>1, <1>2, <2>1 DEF Behind, n
  <2> QED BY <2>2, <2>3
<1>6. \A l : Carries(z, l) => Carries(y, l) \/ Kind(l) \in Junk
  BY <1>1, <1>2 DEF Carries, n
<1>7. ASSUME NEW k, NEW c, Upto(y, k, c), k \in Junk => Upto(o, k, c) PROVE Upto(z, k, c)
  <2>1. \A a \in 1..n : Kind(z[a]) = k => z[a].otr[2] <= c
    BY <1>2, <1>7 DEF Upto, n
  <2>2. ASSUME NEW a \in 1..(n + j), a \notin 1..n, Kind(z[a]) = k PROVE z[a].otr[2] <= c
    <3>1. k \in Junk /\ a - n \in 1..j /\ z[a] = o[a - n]
      BY <1>2, <2>2
    <3> QED BY <1>7, <2>2, <3>1 DEF Upto, j
  <2> QED BY <1>1, <2>1, <2>2 DEF Upto
<1>8. /\ y # <<>> => z # <<>> /\ Head(z) = Head(y)
      /\ y = <<>> /\ z # <<>> => Kind(Head(z)) \in Junk
  <2>1. CASE y # <<>>
    <3>1. 1 \in 1..n /\ z[1] = y[1] /\ z # <<>>
      BY <1>1, <1>2, <1>3, <2>1 DEF n
    <3> QED BY <1>1, <1>3, <2>1, <3>1
  <2>2. CASE y = <<>> /\ z # <<>>
    <3>1. n = 0 /\ 1 \in 1..(n + j) /\ Head(z) = z[1]
      BY <1>1, <1>3, <2>2 DEF n
    <3>2. 1 \notin 1..n
      BY <3>1
    <3> QED BY <1>2, <3>1, <3>2
  <2> QED BY <2>1, <2>2
<1>9. ASSUME Chain(y), LastIn(y, {"Ack"} \cup Junk) PROVE Chain(z) /\ LastIn(z, {"Ack"} \cup Junk)
  <2>1. ASSUME NEW a \in 1..(n + j - 1) PROVE MayFollow(Kind(z[a + 1]), Kind(z[a]))
    <3>1. CASE a \in 1..(n - 1)
      <4>1. z[a] = y[a] /\ z[a + 1] = y[a + 1]
        BY <1>1, <1>2, <3>1
      <4> QED BY <1>9, <3>1, <4>1 DEF Chain, n
    <3>2. CASE a = n
      <4>1. y # <<>>
        BY <1>3, <3>2 DEF n
      <4>2. Kind(z[a]) \in {"Ack"} \cup Junk
        BY <1>2, <1>3, <1>9, <3>2, <4>1 DEF LastIn, n
      <4>3. Kind(z[a + 1]) \in Junk
        BY <1>1, <1>2, <3>2
      <4> QED BY <4>2, <4>3 DEF MayFollow
    <3>3. CASE a > n
      <4>1. Kind(z[a]) \in Junk /\ Kind(z[a + 1]) \in Junk
        <5>1. a \in 1..(n + j) /\ a + 1 \in 1..(n + j) /\ a \notin 1..n /\ a + 1 \notin 1..n
          BY <1>1, <3>3
        <5> QED BY <1>2, <5>1
      <4> QED BY <4>1 DEF MayFollow
    <3>4. a \in 1..(n - 1) \/ a = n \/ a > n
      BY <1>1
    <3> QED BY <3>1, <3>2, <3>3, <3>4
  <2>2. LastIn(z, {"Ack"} \cup Junk)
    <3>1. CASE z = <<>>
      BY <3>1 DEF LastIn
    <3>2. CASE z # <<>> /\ j = 0
      <4>0. Len(z) = n
        BY <1>1, <3>2
      <4>1. Len(z) = n /\ n \in 1..n /\ Last(z) = z[n]
        BY <1>1, <1>3, <3>2, <4>0
      <4>2. y # <<>>
        BY <1>3, <4>1 DEF n
      <4>3. z[n] = Last(y)
        BY <1>2, <1>3, <4>1, <4>2 DEF n
      <4> QED BY <1>9, <4>1, <4>2, <4>3 DEF LastIn
    <3>3. CASE z # <<>> /\ j > 0
      <4>1. Last(z) = z[n + j]
        BY <1>1, <1>3, <3>3
      <4>2. n + j \in 1..(n + j) /\ n + j \notin 1..n
        BY <1>1, <3>3
      <4> QED BY <1>2, <4>1, <4>2 DEF LastIn
    <3> QED BY <1>1, <3>1, <3>2, <3>3
  <2> QED BY <1>1, <2>1, <2>2 DEF Chain
<1>10. ~Free(y) => y # <<>>
  BY Nothing
<1> QED BY <1>1, <1>4, <1>5, <1>6, <1>7, <1>8, <1>9, <1>10 DEF WithJunk


-----------------------------------------------------------------------------
(* The parts of two peers, and what is on its way between them *)

\* What a peer is to the session it has for the last call: nothing to do with keys (none: no
\* call yet, rest: it has ended, waits: for an ACK), the one that answered (fresh: it sent ACK,
\* offered: a commitment, revealed: its key, shared: it has the key), or the one that began
\* (asked: it sent the query, replied: a key, held: it has the key, and OTR's last message waits,
\* sent: that and the request are sent, lost: it has the key, but the other one began anew).
Dead == {"none", "rest", "waits"}
Responds == {"fresh", "offered", "revealed", "shared"}
Starts == {"asked", "replied", "held", "sent", "lost"}
Keyed == {"shared", "held", "sent", "lost"}
Roles == Dead \cup Responds \cup Starts

\* What a peer is in the exchange: its part, the key of the exchange, its latest nonce, whether
\* a handler of its has something under way, and whether that is one of the calling side.
View ==
  {v \in [role : Roles, key : Key \cup {None}, n : Nat, at : {"idle", "busy", "answer"}, caller : BOOLEAN] :
     v.role \in {"revealed", "replied"} \cup Keyed => v.key \in Key}

\* In each of the conditions, x is on its way to the first peer and y to the second. The first:
\* While a handler has something under way, nothing that its peer sent is still on its way.
BusyOK(v, w, x, y) ==
  v.at # "idle" =>
    /\ y = <<>>
    /\ v.role \in {"rest", "shared", "held"}
    /\ v.role = "shared" => ~v.caller
    /\ v.role = "held" => v.caller
    /\ v.at = "answer" => ~v.caller /\ HeadIn(x, Barrier) /\ w.at = "idle"
    /\ v.caller => w.role \notin Starts
    /\ ~v.caller => w.role \notin Responds

\* Before the first call only a SYN may come.
NoneOK(v, w, x, y) ==
  v.role = "none" => y = <<>> /\ AllSyn(x) /\ w.role \in Dead /\ w.at = "idle"

\* Messages of earlier calls are told apart by the SYN or ACK behind them.
BarriersOK(v, w, x, y) ==
  /\ v.role \in Responds => Behind(y, "Syn", "Ack")
  /\ v.role \in Starts \cup {"waits"} => Behind(y, "Ack", "Syn")
  /\ v.role = "waits" => LastIn(y, {"Syn"})
  /\ v.role \in Starts /\ y # <<>> => Kind(Last(y)) \notin Barrier
  /\ v.role \in Responds /\ w.role \in Responds => ~Free(y)
  /\ v.role \in Starts \cup {"waits"} /\ w.role \in Starts => ~Free(y)

\* It waits for the query of the session that got its ACK.
FreshOK(r, i, x, y) == r.role = "fresh" =>
  /\ HeadIn(x, Barrier \cup {"Query"})
  /\ i.role \in Starts => x # <<>>
  /\ i.at = "idle" /\ i.role \notin Keyed
  /\ LastIn(y, {"Ack"} \cup Junk)

\* A key that answers the commitment of the latest nonce is the partner's.
OfferedOK(r, i, x, y) == r.role = "offered" =>
  /\ HeadIn(x, Barrier \cup {"Key"})
  /\ i.at = "idle" /\ i.role \notin Keyed
  /\ LastIn(y, {"Ack"} \cup Junk) /\ OnlyLast(y, CommitOf(r.n))
  /\ i.role = "waits" => Has(x, "Syn")
  /\ \A K \in Key : K[1] = r.n /\ Carries(x, KeyOf(K)) =>
       /\ y = <<>>
       /\ ThenBarrier(x, KeyOf(K))
       /\ i.role \in Starts => OnlyLast(x, KeyOf(K)) /\ i.role = "replied" /\ i.key = K

\* The partner has the same key, and tells or has told so.
RevealedOK(r, i, x, y) == r.role = "revealed" =>
  /\ y \in {<<>>, <<RevealOf(r.key)>>}
  /\ HeadIn(x, Barrier \cup {"Sig", "BottomQuery"})
  /\ x # <<>> /\ Kind(Head(x)) = "Sig" =>
       /\ y = <<>> /\ Head(x) = SigOf(r.key)
       /\ i.role # "held"
       /\ Tail(x) # <<>> => Kind(Head(Tail(x))) \in Barrier \/ Head(Tail(x)) = DataOf(r.key, "Request")
  /\ x # <<>> /\ Kind(Head(x)) = "BottomQuery" => y = <<>> /\ i.role \notin Starts
  /\ i.role \in Starts => /\ i.key = r.key
                          /\ \/ i.role = "replied" /\ y # <<>>
                             \/ i.role \in {"held", "sent"} /\ y = <<>>
  /\ i.role = "waits" => Has(x, "Syn")
  /\ i.at # "idle" => y = <<>>

\* A partner that still takes part has the same key, and has sent all it had to.
SharedOK(r, i, x, y) == r.role = "shared" =>
  /\ y \in {<<>>, <<DataOf(r.key, "Answer")>>}
  /\ HeadIn(x, Barrier \cup {"BottomData"})
  /\ x # <<>> /\ Kind(Head(x)) = "BottomData" => y = <<>> /\ Head(x) = DataOf(r.key, "Request")
  /\ i.at = "idle"
  /\ i.role \in Starts => i.role = "sent" /\ i.key = r.key
  /\ i.role = "waits" => Has(x, "Syn")

\* What is revealed to the one that replied is its own key.
UnkeyedOK(i, r, x, y) ==
  /\ i.role \in {"asked", "replied"} => r.at = "idle"
  /\ i.role = "asked" => HeadIn(x, Barrier \cup Junk) /\ LastIn(y, {"Query"})
  /\ i.role = "replied" =>
       /\ HeadIn(x, Barrier \cup Junk \cup {"Reveal"})
       /\ y # <<>> => Last(y) = KeyOf(i.key)
       /\ x # <<>> /\ Kind(Head(x)) = "Reveal" =>
            Head(x) = RevealOf(i.key) /\ y = <<>> /\ (r.role \in Responds => r.role = "revealed")

\* The one that began has the key, and no session of the other side has come since.
KeyedOK(i, r, x, y) == i.role \in {"held", "sent", "lost"} =>
  /\ Free(y)
  /\ HeadIn(x, Barrier \cup {"BottomData", "BottomQuery"})
  /\ x # <<>> /\ Kind(Head(x)) = "BottomData" => Head(x) = DataOf(i.key, "Answer") /\ i.role = "sent"
  /\ (x # <<>> /\ Kind(Head(x)) = "BottomQuery") \/ i.role = "lost" => r.role \notin Responds /\ r.at = "idle"

\* No commitment has a later nonce than the one who made it.
NoncesOK(r, i, x, y) == Upto(y, "Commit", r.n) /\ Upto(x, "Key", r.n)

\* What fits the part of v in all that is on its way.
Link(v, w, x, y) ==
  /\ Chain(x) /\ BusyOK(v, w, x, y) /\ NoneOK(v, w, x, y) /\ BarriersOK(v, w, x, y)
  /\ FreshOK(v, w, x, y) /\ OfferedOK(v, w, x, y) /\ RevealedOK(v, w, x, y) /\ SharedOK(v, w, x, y)
  /\ UnkeyedOK(v, w, x, y) /\ KeyedOK(v, w, x, y) /\ NoncesOK(v, w, x, y)

\* x is on its way to v, and y to w.
Pair(v, w, x, y) ==
  /\ v \in View /\ w \in View /\ x \in Seq(Message) /\ y \in Seq(Message)
  /\ Link(v, w, x, y) /\ Link(w, v, y, x)

\* What a peer can say with its key.
Says(v) ==
  /\ Kind(CommitOf(v.n)) = "Commit" /\ \A K \in Key : Kind(KeyOf(K)) = "Key"
  /\ v.role \in {"revealed", "replied"} \cup Keyed =>
       /\ v.key \in Key
       /\ Kind(KeyOf(v.key)) = "Key" /\ Kind(RevealOf(v.key)) = "Reveal" /\ Kind(SigOf(v.key)) = "Sig"
       /\ Kind(DataOf(v.key, "Request")) = "BottomData" /\ Kind(DataOf(v.key, "Answer")) = "BottomData"

\* They are of the kinds that their names say.
LEMMA Words == \A v \in View : Says(v)
BY Kinds DEF View, Says

\* Nonces grow.
LEMMA UptoGrows ==
  ASSUME NEW x \in Seq(Message), NEW kind \in {"Commit", "Key"}, NEW c \in Nat, NEW n \in Nat, c <= n,
         Upto(x, kind, c)
  PROVE  Upto(x, kind, n)
<1> SUFFICES ASSUME NEW a \in 1..Len(x), Kind(x[a]) = kind PROVE x[a].otr[2] <= n
  BY DEF Upto
<1>1. x[a] \in Message
  OBVIOUS
<1>2. Kind(x[a]) = "Key" => <<x[a].otr[2], x[a].otr[3]>> \in Key
  BY <1>1, OfKind
<1>3. x[a].otr[2] \in Nat
  BY <1>1, <1>2, OfKind DEF Key
<1>4. x[a].otr[2] <= c
  BY DEF Upto
<1> QED BY <1>3, <1>4

\* A bound on nonces holds for the next one too.
LEMMA UptoNext ==
  ASSUME NEW x \in Seq(Message), NEW kind \in {"Commit", "Key"}, NEW c \in Nat, Upto(x, kind, c)
  PROVE  \A n \in {c, c + 1} : Upto(x, kind, n)
<1>1. c + 1 \in Nat /\ c <= c + 1
  OBVIOUS
<1> QED BY <1>1, UptoGrows

\* What no message knows yet.
LEMMA NotYet ==
  ASSUME NEW x \in Seq(Message), NEW n \in Nat
  PROVE  /\ Upto(x, "Commit", n) => ~Carries(x, CommitOf(n + 1))
         /\ Upto(x, "Key", n) => \A K \in Key : K[1] = n + 1 => ~Carries(x, KeyOf(K))
<1>1. /\ Kind(CommitOf(n + 1)) = "Commit" /\ CommitOf(n + 1).otr[2] = n + 1
      /\ \A K \in Key : Kind(KeyOf(K)) = "Key" /\ KeyOf(K).otr[2] = K[1]
  BY Kinds
<1>2. ~(n + 1 <= n)
  OBVIOUS
<1> QED BY <1>1, <1>2 DEF Upto, Carries

\* A first session is made.
LEMMA AtBegin ==
  ASSUME NEW v, NEW w, NEW x, NEW y, Pair(v, w, x, y),
         v.role = "none"
  PROVE  Pair([v EXCEPT !.role = "rest"], w, x, y)
<1> DEFINE v2 == [v EXCEPT !.role = "rest"]
<1>1. v2 \in View /\ v2.role = "rest" /\ v2.key = v.key /\ v2.n = v.n /\ v2.at = v.at /\ v2.caller = v.caller
  BY DEF Pair, View, Roles, Responds, Starts, Dead, Keyed
<1>2. Says(v2) /\ Says(w)
  BY <1>1, Words DEF Pair
<1> HIDE DEF v2
<1> USE DEF Pair, Link, BusyOK, NoneOK, BarriersOK, FreshOK, OfferedOK, RevealedOK, SharedOK, UnkeyedOK,
            KeyedOK, NoncesOK, Dead, Responds, Starts, Keyed, HeadIn, LastIn, Barrier, Junk, MayFollow
<1>3. Link(v2, w, x, y)
  BY <1>1, <1>2 DEF Says
<1>4. Link(w, v2, y, x)
  BY <1>1, <1>2 DEF Says
<1> HIDE DEF Link
<1> QED BY <1>1, <1>2, <1>3, <1>4 DEF Says, v2

\* A session ends, and with it the conversation.
LEMMA AtEnd ==
  ASSUME NEW v, NEW w, NEW x, NEW y, Pair(v, w, x, y),
         v.role # "none"
  PROVE  Pair([v EXCEPT !.role = "rest", !.key = None], w, x, y)
<1> DEFINE v2 == [v EXCEPT !.role = "rest", !.key = None]
<1>1. v2 \in View /\ v2.role = "rest" /\ v2.key = None /\ v2.n = v.n /\ v2.at = v.at /\ v2.caller = v.caller
  BY DEF Pair, View, Roles, Responds, Starts, Dead, Keyed
<1>2. Says(v2) /\ Says(w)
  BY <1>1, Words DEF Pair
<1> HIDE DEF v2
<1> USE DEF Pair, Link, BusyOK, NoneOK, BarriersOK, FreshOK, OfferedOK, RevealedOK, SharedOK, UnkeyedOK,
            KeyedOK, NoncesOK, Dead, Responds, Starts, Keyed, HeadIn, LastIn, Barrier, Junk, MayFollow
<1>3. Link(v2, w, x, y)
  BY <1>1, <1>2 DEF Says
<1>4. Link(w, v2, y, x)
  BY <1>1, <1>2 DEF Says
<1> HIDE DEF Link
<1> QED BY <1>1, <1>2, <1>3, <1>4 DEF Says, v2

\* A message is of no use.
LEMMA AtSkip ==
  ASSUME NEW v, NEW w, NEW x, NEW y, Pair(v, w, x, y),
         v.role \in Dead, v.at = "idle", x # <<>>, NEW n \in {v.n, v.n + 1}
  PROVE  Pair([v EXCEPT !.n = n], w, Tail(x), y)
<1> DEFINE v2 == [v EXCEPT !.n = n]
           h == Head(x)
           t == Tail(x)
<1>1. v2 \in View /\ v2.n = n /\ v2.role = v.role /\ v2.key = v.key /\ v2.at = v.at /\ v2.caller = v.caller
  BY SMTT(40) DEF Pair, View, Roles, Responds, Starts, Dead, Keyed
<1>2. Without(x, h, t) /\ h = Head(x) /\ t = Tail(x)
  BY Taken DEF Pair
<1>3. Says(v2) /\ Says(w)
  BY <1>1, Words DEF Pair
<1>4. Upto(y, "Commit", n) /\ (Upto(t, "Key", v.n) => Upto(t, "Key", n))
  BY <1>2, UptoGrows DEF Pair, View, Link, NoncesOK, Without
<1> HIDE DEF v2, h, t
<1> USE DEF Pair, Link, BusyOK, NoneOK, BarriersOK, FreshOK, OfferedOK, RevealedOK, SharedOK, UnkeyedOK,
            KeyedOK, NoncesOK, Dead, Responds, Starts, Keyed, HeadIn, LastIn, Barrier, Junk, MayFollow
<1>5. Link(v2, w, t, y)
  <2>1. Chain(t) /\ BusyOK(v2, w, t, y) /\ NoneOK(v2, w, t, y)
    BY <1>1, <1>2, <1>3, <1>4 DEF Says, Without
  <2>2. BarriersOK(v2, w, t, y)
    BY <1>1, <1>2, <1>3, <1>4 DEF Says, Without
  <2>3. FreshOK(v2, w, t, y) /\ OfferedOK(v2, w, t, y)
    BY <1>1, <1>2, <1>3, <1>4 DEF Says, Without
  <2>4. RevealedOK(v2, w, t, y)
    BY <1>1, <1>2, <1>3, <1>4 DEF Says, Without
  <2>5. SharedOK(v2, w, t, y)
    BY <1>1, <1>2, <1>3, <1>4 DEF Says, Without
  <2>6. UnkeyedOK(v2, w, t, y)
    BY <1>1, <1>2, <1>3, <1>4 DEF Says, Without
  <2>7. KeyedOK(v2, w, t, y)
    BY <1>1, <1>2, <1>3, <1>4 DEF Says, Without
  <2>8. NoncesOK(v2, w, t, y)
    BY <1>1, <1>2, <1>3, <1>4 DEF Says, Without
  <2> HIDE DEF BusyOK, NoneOK, BarriersOK, FreshOK, OfferedOK, RevealedOK, SharedOK, UnkeyedOK, KeyedOK,
               NoncesOK
  <2> QED BY <2>1, <2>2, <2>3, <2>4, <2>5, <2>6, <2>7, <2>8
<1>6. Link(w, v2, y, t)
  <2>1. Chain(y) /\ BusyOK(w, v2, y, t) /\ NoneOK(w, v2, y, t)
    BY <1>1, <1>2, <1>3, <1>4 DEF Says, Without
  <2>2. BarriersOK(w, v2, y, t)
    BY <1>1, <1>2, <1>3, <1>4 DEF Says, Without
  <2>3. FreshOK(w, v2, y, t) /\ OfferedOK(w, v2, y, t)
    BY <1>1, <1>2, <1>3, <1>4 DEF Says, Without
  <2>4. RevealedOK(w, v2, y, t)
    BY <1>1, <1>2, <1>3, <1>4 DEF Says, Without
  <2>5. SharedOK(w, v2, y, t)
    BY <1>1, <1>2, <1>3, <1>4 DEF Says, Without
  <2>6. UnkeyedOK(w, v2, y, t)
    BY <1>1, <1>2, <1>3, <1>4 DEF Says, Without
  <2>7. KeyedOK(w, v2, y, t)
    BY <1>1, <1>2, <1>3, <1>4 DEF Says, Without
  <2>8. NoncesOK(w, v2, y, t)
    BY <1>1, <1>2, <1>3, <1>4 DEF Says, Without
  <2> HIDE DEF BusyOK, NoneOK, BarriersOK, FreshOK, OfferedOK, RevealedOK, SharedOK, UnkeyedOK, KeyedOK,
               NoncesOK
  <2> QED BY <2>1, <2>2, <2>3, <2>4, <2>5, <2>6, <2>7, <2>8
<1> HIDE DEF Link
<1> QED BY <1>1, <1>2, <1>3, <1>4, <1>5, <1>6 DEF Says, Without, v2, h, t

\* SYN is answered.
LEMMA AtSyn ==
  ASSUME NEW v, NEW w, NEW x, NEW y, Pair(v, w, x, y),
         v.role = "rest", v.at = "idle", x # <<>>, Kind(Head(x)) = "Syn"
  PROVE  Pair([v EXCEPT !.role = "fresh"], w, Tail(x), y \o <<Surface("Ack")>>)
<1> DEFINE v2 == [v EXCEPT !.role = "fresh"]
           h == Head(x)
           t == Tail(x)
           z == y \o <<Surface("Ack")>>
<1>1. v2 \in View /\ v2.role = "fresh" /\ v2.key = v.key /\ v2.n = v.n /\ v2.at = v.at /\ v2.caller = v.caller
  BY DEF Pair, View, Roles, Responds, Starts, Dead, Keyed
<1>2. Without(x, h, t) /\ h = Head(x) /\ t = Tail(x)
  BY Taken DEF Pair
<1>3. With(y, Surface("Ack"), z) /\ Kind(Surface("Ack")) = "Ack"
  BY Put, Kinds DEF Pair
<1>4. Says(v2) /\ Says(w)
  BY <1>1, Words DEF Pair
<1> HIDE DEF v2, h, t, z
<1> USE DEF Pair, Link, BusyOK, NoneOK, BarriersOK, FreshOK, OfferedOK, RevealedOK, SharedOK, UnkeyedOK,
            KeyedOK, NoncesOK, Dead, Responds, Starts, Keyed, HeadIn, LastIn, Barrier, Junk, MayFollow
<1>5. Link(v2, w, t, z)
  <2>1. Chain(t) /\ BusyOK(v2, w, t, z) /\ NoneOK(v2, w, t, z)
    BY <1>1, <1>2, <1>3, <1>4 DEF Says, Without, With
  <2>2. BarriersOK(v2, w, t, z)
    BY <1>1, <1>2, <1>3, <1>4 DEF Says, Without, With
  <2>3. FreshOK(v2, w, t, z) /\ OfferedOK(v2, w, t, z)
    BY <1>1, <1>2, <1>3, <1>4, SMTT(40) DEF Says, Without, With
  <2>4. RevealedOK(v2, w, t, z)
    BY <1>1, <1>2, <1>3, <1>4 DEF Says, Without, With
  <2>5. SharedOK(v2, w, t, z)
    BY <1>1, <1>2, <1>3, <1>4 DEF Says, Without, With
  <2>6. UnkeyedOK(v2, w, t, z)
    BY <1>1, <1>2, <1>3, <1>4 DEF Says, Without, With
  <2>7. KeyedOK(v2, w, t, z)
    BY <1>1, <1>2, <1>3, <1>4 DEF Says, Without, With
  <2>8. NoncesOK(v2, w, t, z)
    BY <1>1, <1>2, <1>3, <1>4 DEF Says, Without, With
  <2> HIDE DEF BusyOK, NoneOK, BarriersOK, FreshOK, OfferedOK, RevealedOK, SharedOK, UnkeyedOK, KeyedOK,
               NoncesOK
  <2> QED BY <2>1, <2>2, <2>3, <2>4, <2>5, <2>6, <2>7, <2>8
<1>6. Link(w, v2, z, t)
  <2>1. Chain(z) /\ BusyOK(w, v2, z, t) /\ NoneOK(w, v2, z, t)
    BY <1>1, <1>2, <1>3, <1>4 DEF Says, Without, With
  <2>2. BarriersOK(w, v2, z, t)
    BY SMTT(40), <1>1, <1>2, <1>3, <1>4 DEF Says, Without, With
  <2>3. FreshOK(w, v2, z, t) /\ OfferedOK(w, v2, z, t)
    BY <1>1, <1>2, <1>3, <1>4, SMTT(40) DEF Says, Without, With
  <2>4. RevealedOK(w, v2, z, t)
    BY <1>1, <1>2, <1>3, <1>4 DEF Says, Without, With
  <2>5. SharedOK(w, v2, z, t)
    BY <1>1, <1>2, <1>3, <1>4 DEF Says, Without, With
  <2>6. UnkeyedOK(w, v2, z, t)
    BY <1>1, <1>2, <1>3, <1>4 DEF Says, Without, With
  <2>7. KeyedOK(w, v2, z, t)
    BY <1>1, <1>2, <1>3, <1>4 DEF Says, Without, With
  <2>8. NoncesOK(w, v2, z, t)
    BY <1>1, <1>2, <1>3, <1>4 DEF Says, Without, With
  <2> HIDE DEF BusyOK, NoneOK, BarriersOK, FreshOK, OfferedOK, RevealedOK, SharedOK, UnkeyedOK, KeyedOK,
               NoncesOK
  <2> QED BY <2>1, <2>2, <2>3, <2>4, <2>5, <2>6, <2>7, <2>8
<1> HIDE DEF Link
<1> QED BY <1>1, <1>2, <1>3, <1>4, <1>5, <1>6 DEF Says, Without, With, v2, h, t, z

\* SYN was kept for a first session, which answers it.
LEMMA AtKeptSyn ==
  ASSUME NEW v, NEW w, NEW x, NEW y, Pair(v, w, x, y),
         v.role = "none", v.at = "idle", w.role # "none"
  PROVE  Pair([v EXCEPT !.role = "fresh"], w, x, y \o <<Surface("Ack")>>)
<1> DEFINE v2 == [v EXCEPT !.role = "fresh"]
           z == y \o <<Surface("Ack")>>
<1>1. v2 \in View /\ v2.role = "fresh" /\ v2.key = v.key /\ v2.n = v.n /\ v2.at = v.at /\ v2.caller = v.caller
  BY DEF Pair, View, Roles, Responds, Starts, Dead, Keyed
<1>2. With(y, Surface("Ack"), z) /\ Kind(Surface("Ack")) = "Ack"
  BY Put, Kinds DEF Pair
<1>3. Says(v2) /\ Says(w)
  BY <1>1, Words DEF Pair
<1>4. AllSyn(x) /\ x # <<>> => Kind(Head(x)) = "Syn"
  BY Taken DEF Pair, Without
<1> HIDE DEF v2, z
<1> USE DEF Pair, Link, BusyOK, NoneOK, BarriersOK, FreshOK, OfferedOK, RevealedOK, SharedOK, UnkeyedOK,
            KeyedOK, NoncesOK, Dead, Responds, Starts, Keyed, HeadIn, LastIn, Barrier, Junk, MayFollow
<1>5. Link(v2, w, x, z)
  BY <1>1, <1>2, <1>3, <1>4 DEF Says, With
<1>6. Link(w, v2, z, x)
  <2>1. Chain(z) /\ BusyOK(w, v2, z, x) /\ NoneOK(w, v2, z, x)
    BY <1>1, <1>2, <1>3, <1>4 DEF Says, With
  <2>2. BarriersOK(w, v2, z, x)
    BY <1>1, <1>2, <1>3, <1>4 DEF Says, With
  <2>3. FreshOK(w, v2, z, x) /\ OfferedOK(w, v2, z, x)
    BY <1>1, <1>2, <1>3, <1>4 DEF Says, With
  <2>4. RevealedOK(w, v2, z, x)
    BY <1>1, <1>2, <1>3, <1>4 DEF Says, With
  <2>5. SharedOK(w, v2, z, x)
    BY <1>1, <1>2, <1>3, <1>4 DEF Says, With
  <2>6. UnkeyedOK(w, v2, z, x)
    BY <1>1, <1>2, <1>3, <1>4 DEF Says, With
  <2>7. KeyedOK(w, v2, z, x)
    BY <1>1, <1>2, <1>3, <1>4 DEF Says, With
  <2>8. NoncesOK(w, v2, z, x)
    BY <1>1, <1>2, <1>3, <1>4 DEF Says, With
  <2> HIDE DEF BusyOK, NoneOK, BarriersOK, FreshOK, OfferedOK, RevealedOK, SharedOK, UnkeyedOK, KeyedOK,
               NoncesOK
  <2> QED BY <2>1, <2>2, <2>3, <2>4, <2>5, <2>6, <2>7, <2>8
<1> HIDE DEF Link
<1> QED BY <1>1, <1>2, <1>3, <1>4, <1>5, <1>6 DEF Says, With, v2, z

\* The one who called sends SYN.
LEMMA AtCall ==
  ASSUME NEW v, NEW w, NEW x, NEW y, Pair(v, w, x, y),
         v.role = "rest", v.at = "idle", NEW r \in {"rest", "waits"}
  PROVE  Pair([v EXCEPT !.role = r], w, x, y \o <<Surface("Syn")>>)
<1> DEFINE v2 == [v EXCEPT !.role = r]
           z == y \o <<Surface("Syn")>>
<1>1. v2 \in View /\ v2.role = r /\ v2.key = v.key /\ v2.n = v.n /\ v2.at = v.at /\ v2.caller = v.caller
  BY DEF Pair, View, Roles, Responds, Starts, Dead, Keyed
<1>2. With(y, Surface("Syn"), z) /\ Kind(Surface("Syn")) = "Syn"
  BY Put, Kinds DEF Pair
<1>3. Says(v2) /\ Says(w)
  BY <1>1, Words DEF Pair
<1> HIDE DEF v2, z
<1> USE DEF Pair, Link, BusyOK, NoneOK, BarriersOK, FreshOK, OfferedOK, RevealedOK, SharedOK, UnkeyedOK,
            KeyedOK, NoncesOK, Dead, Responds, Starts, Keyed, HeadIn, LastIn, Barrier, Junk, MayFollow
<1>4. Link(v2, w, x, z)
  BY <1>1, <1>2, <1>3 DEF Says, With
<1>5. Link(w, v2, z, x)
  <2>1. Chain(z) /\ BusyOK(w, v2, z, x) /\ NoneOK(w, v2, z, x)
    BY <1>1, <1>2, <1>3 DEF Says, With
  <2>2. BarriersOK(w, v2, z, x)
    BY <1>1, <1>2, <1>3 DEF Says, With
  <2>3. FreshOK(w, v2, z, x) /\ OfferedOK(w, v2, z, x)
    BY <1>1, <1>2, <1>3 DEF Says, With
  <2>4. RevealedOK(w, v2, z, x)
    BY <1>1, <1>2, <1>3 DEF Says, With
  <2>5. SharedOK(w, v2, z, x)
    BY <1>1, <1>2, <1>3 DEF Says, With
  <2>6. UnkeyedOK(w, v2, z, x)
    BY <1>1, <1>2, <1>3 DEF Says, With
  <2>7. KeyedOK(w, v2, z, x)
    BY <1>1, <1>2, <1>3 DEF Says, With
  <2>8. NoncesOK(w, v2, z, x)
    BY <1>1, <1>2, <1>3 DEF Says, With
  <2> HIDE DEF BusyOK, NoneOK, BarriersOK, FreshOK, OfferedOK, RevealedOK, SharedOK, UnkeyedOK, KeyedOK,
               NoncesOK
  <2> QED BY <2>1, <2>2, <2>3, <2>4, <2>5, <2>6, <2>7, <2>8
<1> HIDE DEF Link
<1> QED BY <1>1, <1>2, <1>3, <1>4, <1>5 DEF Says, With, v2, z

\* ACK is answered with the query.
LEMMA AtAck ==
  ASSUME NEW v, NEW w, NEW x, NEW y, Pair(v, w, x, y),
         v.role = "waits", v.at = "idle", x # <<>>, Kind(Head(x)) = "Ack"
  PROVE  Pair([v EXCEPT !.role = "asked"], w, Tail(x), y \o <<Kryptonite(<<"Query">>)>>)
<1> DEFINE v2 == [v EXCEPT !.role = "asked"]
           h == Head(x)
           t == Tail(x)
           z == y \o <<Kryptonite(<<"Query">>)>>
<1>1. v2 \in View /\ v2.role = "asked" /\ v2.key = v.key /\ v2.n = v.n /\ v2.at = v.at /\ v2.caller = v.caller
  BY DEF Pair, View, Roles, Responds, Starts, Dead, Keyed
<1>2. Without(x, h, t) /\ h = Head(x) /\ t = Tail(x)
  BY Taken DEF Pair
<1>3. With(y, Kryptonite(<<"Query">>), z) /\ Kind(Kryptonite(<<"Query">>)) = "Query"
  BY Put, Kinds DEF Pair
<1>4. Says(v2) /\ Says(w)
  BY <1>1, Words DEF Pair
<1> HIDE DEF v2, h, t, z
<1> USE DEF Pair, Link, BusyOK, NoneOK, BarriersOK, FreshOK, OfferedOK, RevealedOK, SharedOK, UnkeyedOK,
            KeyedOK, NoncesOK, Dead, Responds, Starts, Keyed, HeadIn, LastIn, Barrier, Junk, MayFollow
<1>5. Link(v2, w, t, z)
  <2>1. Chain(t) /\ BusyOK(v2, w, t, z) /\ NoneOK(v2, w, t, z)
    BY <1>1, <1>2, <1>3, <1>4 DEF Says, Without, With
  <2>2. BarriersOK(v2, w, t, z)
    BY <1>1, <1>2, <1>3, <1>4 DEF Says, Without, With
  <2>3. FreshOK(v2, w, t, z) /\ OfferedOK(v2, w, t, z)
    BY <1>1, <1>2, <1>3, <1>4 DEF Says, Without, With
  <2>4. RevealedOK(v2, w, t, z)
    BY <1>1, <1>2, <1>3, <1>4 DEF Says, Without, With
  <2>5. SharedOK(v2, w, t, z)
    BY <1>1, <1>2, <1>3, <1>4 DEF Says, Without, With
  <2>6. UnkeyedOK(v2, w, t, z)
    BY <1>1, <1>2, <1>3, <1>4 DEF Says, Without, With
  <2>7. KeyedOK(v2, w, t, z)
    BY <1>1, <1>2, <1>3, <1>4 DEF Says, Without, With
  <2>8. NoncesOK(v2, w, t, z)
    BY <1>1, <1>2, <1>3, <1>4 DEF Says, Without, With
  <2> HIDE DEF BusyOK, NoneOK, BarriersOK, FreshOK, OfferedOK, RevealedOK, SharedOK, UnkeyedOK, KeyedOK,
               NoncesOK
  <2> QED BY <2>1, <2>2, <2>3, <2>4, <2>5, <2>6, <2>7, <2>8
<1>6. Link(w, v2, z, t)
  <2>1. Chain(z)
    BY <1>1, <1>2, <1>3, <1>4 DEF Says, Without, With
  <2>2. BusyOK(w, v2, z, t) /\ NoneOK(w, v2, z, t)
    BY <1>1, <1>2, <1>3, <1>4 DEF Says, Without, With
  <2>3. BarriersOK(w, v2, z, t)
    BY <1>1, <1>2, <1>3, <1>4 DEF Says, Without, With
  <2>4. FreshOK(w, v2, z, t) /\ OfferedOK(w, v2, z, t)
    BY <1>1, <1>2, <1>3, <1>4 DEF Says, Without, With
  <2>5. RevealedOK(w, v2, z, t)
    BY <1>1, <1>2, <1>3, <1>4 DEF Says, Without, With
  <2>6. SharedOK(w, v2, z, t)
    BY <1>1, <1>2, <1>3, <1>4 DEF Says, Without, With
  <2>7. UnkeyedOK(w, v2, z, t)
    BY <1>1, <1>2, <1>3, <1>4 DEF Says, Without, With
  <2>8. KeyedOK(w, v2, z, t)
    BY <1>1, <1>2, <1>3, <1>4 DEF Says, Without, With
  <2>9. NoncesOK(w, v2, z, t)
    BY <1>1, <1>2, <1>3, <1>4 DEF Says, Without, With
  <2> HIDE DEF BusyOK, NoneOK, BarriersOK, FreshOK, OfferedOK, RevealedOK, SharedOK, UnkeyedOK, KeyedOK,
               NoncesOK
  <2> QED BY <2>1, <2>2, <2>3, <2>4, <2>5, <2>6, <2>7, <2>8, <2>9
<1> HIDE DEF Link
<1> QED BY <1>1, <1>2, <1>3, <1>4, <1>5, <1>6 DEF Says, Without, With, v2, h, t, z

\* A commitment is answered with a key, be it the second one.
LEMMA AtCommit ==
  ASSUME NEW v, NEW w, NEW x, NEW y, Pair(v, w, x, y),
         v.role \in {"asked", "replied"}, v.at = "idle", x # <<>>, Kind(Head(x)) = "Commit",
         NEW n \in {v.n, v.n + 1}, NEW K \in Key, K[1] = Head(x).otr[2]
  PROVE  Pair([v EXCEPT !.role = "replied", !.key = K, !.n = n], w, Tail(x), y \o <<KeyOf(K)>>)
<1> DEFINE v2 == [v EXCEPT !.role = "replied", !.key = K, !.n = n]
           h == Head(x)
           t == Tail(x)
           z == y \o <<KeyOf(K)>>
<1>1. v2 \in View /\ v2.role = "replied" /\ v2.key = K /\ v2.n = n /\ v2.at = v.at /\ v2.caller = v.caller
  <2>1. v \in View /\ v.n \in Nat /\ n \in Nat
    BY DEF Pair, View
  <2> QED BY <2>1 DEF View, Roles, Responds, Starts, Dead, Keyed
<1>2. Without(x, h, t) /\ h = Head(x) /\ t = Tail(x)
  BY Taken DEF Pair
<1>3. With(y, KeyOf(K), z) /\ Kind(KeyOf(K)) = "Key" /\ KeyOf(K).otr[2] = K[1]
  BY Put, Kinds DEF Pair
<1>4. Says(v2) /\ Says(w)
  BY <1>1, Words DEF Pair
<1>5. Upto(t, "Key", n) /\ Upto(y, "Commit", n)
  BY <1>1, <1>2, UptoNext DEF Pair, View, Link, NoncesOK, Without
<1>6. h = CommitOf(K[1]) /\ h.otr[2] = K[1]
  BY <1>2, OfKind DEF Pair, Without
<1>7. Says(v)
  BY Words DEF Pair
<1>8. \A L \in Key : KeyOf(L) = KeyOf(K) => L = K
  BY Distinct
<1> HIDE DEF v2, h, t, z
<1> USE DEF Pair, Link, BusyOK, NoneOK, BarriersOK, FreshOK, OfferedOK, RevealedOK, SharedOK, UnkeyedOK,
            KeyedOK, NoncesOK, Dead, Responds, Starts, Keyed, HeadIn, LastIn, Barrier, Junk, MayFollow
<1>9. Link(v2, w, t, z)
  <2>1. Chain(t) /\ BusyOK(v2, w, t, z) /\ NoneOK(v2, w, t, z)
    BY <1>1, <1>2, <1>3, <1>4, <1>5, <1>6, <1>7, <1>8 DEF Says, Without, With
  <2>2. BarriersOK(v2, w, t, z)
    BY <1>1, <1>2, <1>3, <1>4, <1>5, <1>6, <1>7, <1>8 DEF Says, Without, With
  <2>3. FreshOK(v2, w, t, z) /\ OfferedOK(v2, w, t, z)
    BY <1>1, <1>2, <1>3, <1>4, <1>5, <1>6, <1>7, <1>8 DEF Says, Without, With
  <2>4. RevealedOK(v2, w, t, z)
    BY <1>1, <1>2, <1>3, <1>4, <1>5, <1>6, <1>7, <1>8 DEF Says, Without, With
  <2>5. SharedOK(v2, w, t, z)
    BY <1>1, <1>2, <1>3, <1>4, <1>5, <1>6, <1>7, <1>8 DEF Says, Without, With
  <2>6. UnkeyedOK(v2, w, t, z)
    BY <1>1, <1>2, <1>3, <1>4, <1>5, <1>6, <1>7, <1>8 DEF Says, Without, With
  <2>7. KeyedOK(v2, w, t, z)
    BY <1>1, <1>2, <1>3, <1>4, <1>5, <1>6, <1>7, <1>8 DEF Says, Without, With
  <2>8. NoncesOK(v2, w, t, z)
    BY <1>1, <1>2, <1>3, <1>4, <1>5, <1>6, <1>7, <1>8 DEF Says, Without, With
  <2> HIDE DEF BusyOK, NoneOK, BarriersOK, FreshOK, OfferedOK, RevealedOK, SharedOK, UnkeyedOK, KeyedOK,
               NoncesOK
  <2> QED BY <2>1, <2>2, <2>3, <2>4, <2>5, <2>6, <2>7, <2>8
<1>10. Link(w, v2, z, t)
  <2>1. Chain(z)
    BY <1>1, <1>2, <1>3, <1>4, <1>5, <1>6, <1>7, <1>8 DEF Says, Without, With
  <2>2. BusyOK(w, v2, z, t) /\ NoneOK(w, v2, z, t)
    BY <1>1, <1>2, <1>3, <1>4, <1>5, <1>6, <1>7, <1>8 DEF Says, Without, With
  <2>3. BarriersOK(w, v2, z, t)
    BY <1>1, <1>2, <1>3, <1>4, <1>5, <1>6, <1>7, <1>8 DEF Says, Without, With
  <2>4. FreshOK(w, v2, z, t)
    BY <1>1, <1>2, <1>3, <1>4, <1>5, <1>6, <1>7, <1>8 DEF Says, Without, With
  <2>5. OfferedOK(w, v2, z, t)
    BY <1>1, <1>2, <1>3, <1>4, <1>5, <1>6, <1>7, <1>8, SMTT(40) DEF Says, Without, With
  <2>6. RevealedOK(w, v2, z, t)
    BY <1>1, <1>2, <1>3, <1>4, <1>5, <1>6, <1>7, <1>8 DEF Says, Without, With
  <2>7. SharedOK(w, v2, z, t)
    BY <1>1, <1>2, <1>3, <1>4, <1>5, <1>6, <1>7, <1>8 DEF Says, Without, With
  <2>8. UnkeyedOK(w, v2, z, t)
    BY <1>1, <1>2, <1>3, <1>4, <1>5, <1>6, <1>7, <1>8 DEF Says, Without, With
  <2>9. KeyedOK(w, v2, z, t)
    BY <1>1, <1>2, <1>3, <1>4, <1>5, <1>6, <1>7, <1>8 DEF Says, Without, With
  <2>10. NoncesOK(w, v2, z, t)
    BY <1>1, <1>2, <1>3, <1>4, <1>5, <1>6, <1>7, <1>8 DEF Says, Without, With
  <2> HIDE DEF BusyOK, NoneOK, BarriersOK, FreshOK, OfferedOK, RevealedOK, SharedOK, UnkeyedOK, KeyedOK,
               NoncesOK
  <2> QED BY <2>1, <2>2, <2>3, <2>4, <2>5, <2>6, <2>7, <2>8, <2>9, <2>10
<1> HIDE DEF Link
<1> QED BY <1>1, <1>2, <1>3, <1>4, <1>5, <1>6, <1>7, <1>8, <1>9, <1>10 DEF Says, Without, With, v2, h, t, z

\* An error means nothing during the exchange.
LEMMA AtError ==
  ASSUME NEW v, NEW w, NEW x, NEW y, Pair(v, w, x, y),
         v.role \in {"asked", "replied"}, v.at = "idle", x # <<>>, Kind(Head(x)) = "Error"
  PROVE  Pair(v, w, Tail(x), y)
<1> DEFINE h == Head(x)
           t == Tail(x)
<1>1. Without(x, h, t) /\ h = Head(x) /\ t = Tail(x)
  BY Taken DEF Pair
<1>2. Says(v) /\ Says(w)
  BY Words DEF Pair
<1> HIDE DEF h, t
<1> USE DEF Pair, Link, BusyOK, NoneOK, BarriersOK, FreshOK, OfferedOK, RevealedOK, SharedOK, UnkeyedOK,
            KeyedOK, NoncesOK, Dead, Responds, Starts, Keyed, HeadIn, LastIn, Barrier, Junk, MayFollow
<1>3. Link(v, w, t, y)
  <2>1. Chain(t) /\ BusyOK(v, w, t, y) /\ NoneOK(v, w, t, y)
    BY <1>1, <1>2 DEF Says, Without
  <2>2. BarriersOK(v, w, t, y)
    BY <1>1, <1>2 DEF Says, Without
  <2>3. FreshOK(v, w, t, y) /\ OfferedOK(v, w, t, y)
    BY <1>1, <1>2 DEF Says, Without
  <2>4. RevealedOK(v, w, t, y)
    BY <1>1, <1>2 DEF Says, Without
  <2>5. SharedOK(v, w, t, y)
    BY <1>1, <1>2 DEF Says, Without
  <2>6. UnkeyedOK(v, w, t, y)
    BY <1>1, <1>2 DEF Says, Without
  <2>7. KeyedOK(v, w, t, y)
    BY <1>1, <1>2 DEF Says, Without
  <2>8. NoncesOK(v, w, t, y)
    BY <1>1, <1>2 DEF Says, Without
  <2> HIDE DEF BusyOK, NoneOK, BarriersOK, FreshOK, OfferedOK, RevealedOK, SharedOK, UnkeyedOK, KeyedOK,
               NoncesOK
  <2> QED BY <2>1, <2>2, <2>3, <2>4, <2>5, <2>6, <2>7, <2>8
<1>4. Link(w, v, y, t)
  <2>1. Chain(y) /\ BusyOK(w, v, y, t) /\ NoneOK(w, v, y, t)
    BY <1>1, <1>2 DEF Says, Without
  <2>2. BarriersOK(w, v, y, t)
    BY <1>1, <1>2 DEF Says, Without
  <2>3. FreshOK(w, v, y, t) /\ OfferedOK(w, v, y, t)
    BY <1>1, <1>2 DEF Says, Without
  <2>4. RevealedOK(w, v, y, t)
    BY <1>1, <1>2 DEF Says, Without
  <2>5. SharedOK(w, v, y, t)
    BY <1>1, <1>2 DEF Says, Without
  <2>6. UnkeyedOK(w, v, y, t)
    BY <1>1, <1>2 DEF Says, Without
  <2>7. KeyedOK(w, v, y, t)
    BY <1>1, <1>2 DEF Says, Without
  <2>8. NoncesOK(w, v, y, t)
    BY <1>1, <1>2 DEF Says, Without
  <2> HIDE DEF BusyOK, NoneOK, BarriersOK, FreshOK, OfferedOK, RevealedOK, SharedOK, UnkeyedOK, KeyedOK,
               NoncesOK
  <2> QED BY <2>1, <2>2, <2>3, <2>4, <2>5, <2>6, <2>7, <2>8
<1> HIDE DEF Link
<1> QED BY <1>1, <1>2, <1>3, <1>4 DEF Says, Without, h, t

\* A key that answers another commitment is of no use.
LEMMA AtOldKey ==
  ASSUME NEW v, NEW w, NEW x, NEW y, Pair(v, w, x, y),
         v.role = "offered", v.at = "idle", x # <<>>, Kind(Head(x)) = "Key", Head(x).otr[2] # v.n
  PROVE  Pair(v, w, Tail(x), y)
<1> DEFINE h == Head(x)
           t == Tail(x)
<1>1. Without(x, h, t) /\ h = Head(x) /\ t = Tail(x)
  BY Taken DEF Pair
<1>2. Says(v) /\ Says(w)
  BY Words DEF Pair
<1> HIDE DEF h, t
<1> USE DEF Pair, Link, BusyOK, NoneOK, BarriersOK, FreshOK, OfferedOK, RevealedOK, SharedOK, UnkeyedOK,
            KeyedOK, NoncesOK, Dead, Responds, Starts, Keyed, HeadIn, LastIn, Barrier, Junk, MayFollow
<1>3. Link(v, w, t, y)
  <2>1. Chain(t) /\ BusyOK(v, w, t, y) /\ NoneOK(v, w, t, y)
    BY <1>1, <1>2 DEF Says, Without
  <2>2. BarriersOK(v, w, t, y)
    BY <1>1, <1>2 DEF Says, Without
  <2>3. FreshOK(v, w, t, y) /\ OfferedOK(v, w, t, y)
    BY <1>1, <1>2 DEF Says, Without
  <2>4. RevealedOK(v, w, t, y)
    BY <1>1, <1>2 DEF Says, Without
  <2>5. SharedOK(v, w, t, y)
    BY <1>1, <1>2 DEF Says, Without
  <2>6. UnkeyedOK(v, w, t, y)
    BY <1>1, <1>2 DEF Says, Without
  <2>7. KeyedOK(v, w, t, y)
    BY <1>1, <1>2 DEF Says, Without
  <2>8. NoncesOK(v, w, t, y)
    BY <1>1, <1>2 DEF Says, Without
  <2> HIDE DEF BusyOK, NoneOK, BarriersOK, FreshOK, OfferedOK, RevealedOK, SharedOK, UnkeyedOK, KeyedOK,
               NoncesOK
  <2> QED BY <2>1, <2>2, <2>3, <2>4, <2>5, <2>6, <2>7, <2>8
<1>4. Link(w, v, y, t)
  <2>1. Chain(y) /\ BusyOK(w, v, y, t) /\ NoneOK(w, v, y, t)
    BY <1>1, <1>2 DEF Says, Without
  <2>2. BarriersOK(w, v, y, t)
    BY <1>1, <1>2 DEF Says, Without
  <2>3. FreshOK(w, v, y, t) /\ OfferedOK(w, v, y, t)
    BY <1>1, <1>2 DEF Says, Without
  <2>4. RevealedOK(w, v, y, t)
    BY <1>1, <1>2 DEF Says, Without
  <2>5. SharedOK(w, v, y, t)
    BY <1>1, <1>2 DEF Says, Without
  <2>6. UnkeyedOK(w, v, y, t)
    BY <1>1, <1>2 DEF Says, Without
  <2>7. KeyedOK(w, v, y, t)
    BY <1>1, <1>2 DEF Says, Without
  <2>8. NoncesOK(w, v, y, t)
    BY <1>1, <1>2 DEF Says, Without
  <2> HIDE DEF BusyOK, NoneOK, BarriersOK, FreshOK, OfferedOK, RevealedOK, SharedOK, UnkeyedOK, KeyedOK,
               NoncesOK
  <2> QED BY <2>1, <2>2, <2>3, <2>4, <2>5, <2>6, <2>7, <2>8
<1> HIDE DEF Link
<1> QED BY <1>1, <1>2, <1>3, <1>4 DEF Says, Without, h, t

\* A key that answers the commitment.
LEMMA AtKey ==
  ASSUME NEW v, NEW w, NEW x, NEW y, Pair(v, w, x, y),
         v.role = "offered", v.at = "idle", NEW K \in Key, x # <<>>, Head(x) = KeyOf(K), K[1] = v.n
  PROVE  Pair([v EXCEPT !.role = "revealed", !.key = K], w, Tail(x), y \o <<RevealOf(K)>>)
<1> DEFINE v2 == [v EXCEPT !.role = "revealed", !.key = K]
           h == Head(x)
           t == Tail(x)
           z == y \o <<RevealOf(K)>>
<1>1. v2 \in View /\ v2.role = "revealed" /\ v2.key = K /\ v2.n = v.n /\ v2.at = v.at /\ v2.caller = v.caller
  BY DEF Pair, View, Roles, Responds, Starts, Dead, Keyed
<1>2. Without(x, h, t) /\ h = Head(x) /\ t = Tail(x)
  BY Taken DEF Pair
<1>3. With(y, RevealOf(K), z) /\ Kind(RevealOf(K)) = "Reveal"
  BY Put, Kinds DEF Pair
<1>4. Says(v2) /\ Says(w)
  BY <1>1, Words DEF Pair
<1>5. Kind(h) = "Key"
  BY <1>2, Kinds
<1> HIDE DEF v2, h, t, z
<1> USE DEF Pair, Link, BusyOK, NoneOK, BarriersOK, FreshOK, OfferedOK, RevealedOK, SharedOK, UnkeyedOK,
            KeyedOK, NoncesOK, Dead, Responds, Starts, Keyed, HeadIn, LastIn, Barrier, Junk, MayFollow
<1>6. Link(v2, w, t, z)
  <2>1. Chain(t) /\ BusyOK(v2, w, t, z) /\ NoneOK(v2, w, t, z)
    BY <1>1, <1>2, <1>3, <1>4, <1>5 DEF Says, Without, With
  <2>2. BarriersOK(v2, w, t, z)
    BY <1>1, <1>2, <1>3, <1>4, <1>5 DEF Says, Without, With
  <2>3. FreshOK(v2, w, t, z) /\ OfferedOK(v2, w, t, z)
    BY <1>1, <1>2, <1>3, <1>4, <1>5 DEF Says, Without, With
  <2>4. RevealedOK(v2, w, t, z)
    BY <1>1, <1>2, <1>3, <1>4, <1>5 DEF Says, Without, With
  <2>5. SharedOK(v2, w, t, z)
    BY <1>1, <1>2, <1>3, <1>4, <1>5 DEF Says, Without, With
  <2>6. UnkeyedOK(v2, w, t, z)
    BY <1>1, <1>2, <1>3, <1>4, <1>5 DEF Says, Without, With
  <2>7. KeyedOK(v2, w, t, z)
    BY <1>1, <1>2, <1>3, <1>4, <1>5 DEF Says, Without, With
  <2>8. NoncesOK(v2, w, t, z)
    BY <1>1, <1>2, <1>3, <1>4, <1>5 DEF Says, Without, With
  <2> HIDE DEF BusyOK, NoneOK, BarriersOK, FreshOK, OfferedOK, RevealedOK, SharedOK, UnkeyedOK, KeyedOK,
               NoncesOK
  <2> QED BY <2>1, <2>2, <2>3, <2>4, <2>5, <2>6, <2>7, <2>8
<1>7. Link(w, v2, z, t)
  <2>1. Chain(z) /\ BusyOK(w, v2, z, t) /\ NoneOK(w, v2, z, t)
    BY <1>1, <1>2, <1>3, <1>4, <1>5 DEF Says, Without, With
  <2>2. BarriersOK(w, v2, z, t)
    BY <1>1, <1>2, <1>3, <1>4, <1>5 DEF Says, Without, With
  <2>3. FreshOK(w, v2, z, t) /\ OfferedOK(w, v2, z, t)
    BY <1>1, <1>2, <1>3, <1>4, <1>5 DEF Says, Without, With
  <2>4. RevealedOK(w, v2, z, t)
    BY <1>1, <1>2, <1>3, <1>4, <1>5 DEF Says, Without, With
  <2>5. SharedOK(w, v2, z, t)
    BY <1>1, <1>2, <1>3, <1>4, <1>5 DEF Says, Without, With
  <2>6. UnkeyedOK(w, v2, z, t)
    BY <1>1, <1>2, <1>3, <1>4, <1>5 DEF Says, Without, With
  <2>7. KeyedOK(w, v2, z, t)
    BY <1>1, <1>2, <1>3, <1>4, <1>5 DEF Says, Without, With
  <2>8. NoncesOK(w, v2, z, t)
    BY <1>1, <1>2, <1>3, <1>4, <1>5 DEF Says, Without, With
  <2> HIDE DEF BusyOK, NoneOK, BarriersOK, FreshOK, OfferedOK, RevealedOK, SharedOK, UnkeyedOK, KeyedOK,
               NoncesOK
  <2> QED BY <2>1, <2>2, <2>3, <2>4, <2>5, <2>6, <2>7, <2>8
<1> HIDE DEF Link
<1> QED BY <1>1, <1>2, <1>3, <1>4, <1>5, <1>6, <1>7 DEF Says, Without, With, v2, h, t, z

\* The one who began shares a key.
LEMMA AtReveal ==
  ASSUME NEW v, NEW w, NEW x, NEW y, Pair(v, w, x, y),
         v.role = "replied", v.at = "idle", x # <<>>, Kind(Head(x)) = "Reveal"
  PROVE  Pair([v EXCEPT !.role = "held", !.at = "busy", !.caller = TRUE], w, Tail(x), y)
<1> DEFINE v2 == [v EXCEPT !.role = "held", !.at = "busy", !.caller = TRUE]
           h == Head(x)
           t == Tail(x)
<1>1. v2 \in View /\ v2.role = "held" /\ v2.at = "busy" /\ v2.caller /\ v2.key = v.key /\ v2.n = v.n
  BY DEF Pair, View, Roles, Responds, Starts, Dead, Keyed
<1>2. Without(x, h, t) /\ h = Head(x) /\ t = Tail(x)
  BY Taken DEF Pair
<1>3. Says(v2) /\ Says(w)
  BY <1>1, Words DEF Pair
<1>4. \A q : q = <<>> => Free(q)
  BY Nothing
<1> HIDE DEF v2, h, t
<1> USE DEF Pair, Link, BusyOK, NoneOK, BarriersOK, FreshOK, OfferedOK, RevealedOK, SharedOK, UnkeyedOK,
            KeyedOK, NoncesOK, Dead, Responds, Starts, Keyed, HeadIn, LastIn, Barrier, Junk, MayFollow
<1>5. Link(v2, w, t, y)
  <2>1. Chain(t) /\ BusyOK(v2, w, t, y) /\ NoneOK(v2, w, t, y)
    BY <1>1, <1>2, <1>3, <1>4 DEF Says, Without
  <2>2. BarriersOK(v2, w, t, y)
    BY <1>1, <1>2, <1>3, <1>4 DEF Says, Without
  <2>3. FreshOK(v2, w, t, y) /\ OfferedOK(v2, w, t, y)
    BY <1>1, <1>2, <1>3, <1>4 DEF Says, Without
  <2>4. RevealedOK(v2, w, t, y)
    BY <1>1, <1>2, <1>3, <1>4 DEF Says, Without
  <2>5. SharedOK(v2, w, t, y)
    BY <1>1, <1>2, <1>3, <1>4 DEF Says, Without
  <2>6. UnkeyedOK(v2, w, t, y)
    BY <1>1, <1>2, <1>3, <1>4 DEF Says, Without
  <2>7. KeyedOK(v2, w, t, y)
    BY <1>1, <1>2, <1>3, <1>4 DEF Says, Without
  <2>8. NoncesOK(v2, w, t, y)
    BY <1>1, <1>2, <1>3, <1>4 DEF Says, Without
  <2> HIDE DEF BusyOK, NoneOK, BarriersOK, FreshOK, OfferedOK, RevealedOK, SharedOK, UnkeyedOK, KeyedOK,
               NoncesOK
  <2> QED BY <2>1, <2>2, <2>3, <2>4, <2>5, <2>6, <2>7, <2>8
<1>6. Link(w, v2, y, t)
  <2>1. Chain(y) /\ BusyOK(w, v2, y, t) /\ NoneOK(w, v2, y, t)
    BY <1>1, <1>2, <1>3, <1>4 DEF Says, Without
  <2>2. BarriersOK(w, v2, y, t)
    BY <1>1, <1>2, <1>3, <1>4 DEF Says, Without
  <2>3. FreshOK(w, v2, y, t) /\ OfferedOK(w, v2, y, t)
    BY <1>1, <1>2, <1>3, <1>4 DEF Says, Without
  <2>4. RevealedOK(w, v2, y, t)
    BY <1>1, <1>2, <1>3, <1>4 DEF Says, Without
  <2>5. SharedOK(w, v2, y, t)
    BY <1>1, <1>2, <1>3, <1>4 DEF Says, Without
  <2>6. UnkeyedOK(w, v2, y, t)
    BY <1>1, <1>2, <1>3, <1>4 DEF Says, Without
  <2>7. KeyedOK(w, v2, y, t)
    BY <1>1, <1>2, <1>3, <1>4 DEF Says, Without
  <2>8. NoncesOK(w, v2, y, t)
    BY <1>1, <1>2, <1>3, <1>4 DEF Says, Without
  <2> HIDE DEF BusyOK, NoneOK, BarriersOK, FreshOK, OfferedOK, RevealedOK, SharedOK, UnkeyedOK, KeyedOK,
               NoncesOK
  <2> QED BY <2>1, <2>2, <2>3, <2>4, <2>5, <2>6, <2>7, <2>8
<1> HIDE DEF Link
<1> QED BY <1>1, <1>2, <1>3, <1>4, <1>5, <1>6 DEF Says, Without, v2, h, t

\* The one who answered shares a key.
LEMMA AtSig ==
  ASSUME NEW v, NEW w, NEW x, NEW y, Pair(v, w, x, y),
         v.role = "revealed", v.at = "idle", x # <<>>, Kind(Head(x)) = "Sig"
  PROVE  Pair([v EXCEPT !.role = "shared", !.at = "busy", !.caller = FALSE], w, Tail(x), y)
<1> DEFINE v2 == [v EXCEPT !.role = "shared", !.at = "busy", !.caller = FALSE]
           h == Head(x)
           t == Tail(x)
<1>1. v2 \in View /\ v2.role = "shared" /\ v2.at = "busy" /\ ~v2.caller /\ v2.key = v.key /\ v2.n = v.n
  BY DEF Pair, View, Roles, Responds, Starts, Dead, Keyed
<1>2. Without(x, h, t) /\ h = Head(x) /\ t = Tail(x)
  BY Taken DEF Pair
<1>3. Says(v2) /\ Says(w)
  BY <1>1, Words DEF Pair
<1>4. \A q : q = <<>> => Free(q)
  BY Nothing
<1> HIDE DEF v2, h, t
<1> USE DEF Pair, Link, BusyOK, NoneOK, BarriersOK, FreshOK, OfferedOK, RevealedOK, SharedOK, UnkeyedOK,
            KeyedOK, NoncesOK, Dead, Responds, Starts, Keyed, HeadIn, LastIn, Barrier, Junk, MayFollow
<1>5. Link(v2, w, t, y)
  <2>1. Chain(t) /\ BusyOK(v2, w, t, y) /\ NoneOK(v2, w, t, y)
    BY <1>1, <1>2, <1>3, <1>4 DEF Says, Without
  <2>2. BarriersOK(v2, w, t, y)
    BY <1>1, <1>2, <1>3, <1>4 DEF Says, Without
  <2>3. FreshOK(v2, w, t, y) /\ OfferedOK(v2, w, t, y)
    BY <1>1, <1>2, <1>3, <1>4 DEF Says, Without
  <2>4. RevealedOK(v2, w, t, y)
    BY <1>1, <1>2, <1>3, <1>4 DEF Says, Without
  <2>5. SharedOK(v2, w, t, y)
    BY <1>1, <1>2, <1>3, <1>4 DEF Says, Without
  <2>6. UnkeyedOK(v2, w, t, y)
    BY <1>1, <1>2, <1>3, <1>4 DEF Says, Without
  <2>7. KeyedOK(v2, w, t, y)
    BY <1>1, <1>2, <1>3, <1>4 DEF Says, Without
  <2>8. NoncesOK(v2, w, t, y)
    BY <1>1, <1>2, <1>3, <1>4 DEF Says, Without
  <2> HIDE DEF BusyOK, NoneOK, BarriersOK, FreshOK, OfferedOK, RevealedOK, SharedOK, UnkeyedOK, KeyedOK,
               NoncesOK
  <2> QED BY <2>1, <2>2, <2>3, <2>4, <2>5, <2>6, <2>7, <2>8
<1>6. Link(w, v2, y, t)
  <2>1. Chain(y) /\ BusyOK(w, v2, y, t) /\ NoneOK(w, v2, y, t)
    BY <1>1, <1>2, <1>3, <1>4 DEF Says, Without
  <2>2. BarriersOK(w, v2, y, t)
    BY <1>1, <1>2, <1>3, <1>4 DEF Says, Without
  <2>3. FreshOK(w, v2, y, t) /\ OfferedOK(w, v2, y, t)
    BY <1>1, <1>2, <1>3, <1>4 DEF Says, Without
  <2>4. RevealedOK(w, v2, y, t)
    BY <1>1, <1>2, <1>3, <1>4 DEF Says, Without
  <2>5. SharedOK(w, v2, y, t)
    BY <1>1, <1>2, <1>3, <1>4 DEF Says, Without
  <2>6. UnkeyedOK(w, v2, y, t)
    BY <1>1, <1>2, <1>3, <1>4 DEF Says, Without
  <2>7. KeyedOK(w, v2, y, t)
    BY <1>1, <1>2, <1>3, <1>4 DEF Says, Without
  <2>8. NoncesOK(w, v2, y, t)
    BY <1>1, <1>2, <1>3, <1>4 DEF Says, Without
  <2> HIDE DEF BusyOK, NoneOK, BarriersOK, FreshOK, OfferedOK, RevealedOK, SharedOK, UnkeyedOK, KeyedOK,
               NoncesOK
  <2> QED BY <2>1, <2>2, <2>3, <2>4, <2>5, <2>6, <2>7, <2>8
<1> HIDE DEF Link
<1> QED BY <1>1, <1>2, <1>3, <1>4, <1>5, <1>6 DEF Says, Without, v2, h, t

\* A query of an earlier call starts the exchange of the one who answered anew.
LEMMA AtLateQuery ==
  ASSUME NEW v, NEW w, NEW x, NEW y, Pair(v, w, x, y),
         v.role = "revealed", v.at = "idle", x # <<>>, Kind(Head(x)) = "BottomQuery"
  PROVE  Pair([v EXCEPT !.role = "fresh", !.key = None, !.n = v.n + 1], w, Tail(x), y)
<1> DEFINE v2 == [v EXCEPT !.role = "fresh", !.key = None, !.n = v.n + 1]
           h == Head(x)
           t == Tail(x)
<1>1. v2 \in View /\ v2.role = "fresh" /\ v2.n = v.n + 1 /\ v2.at = v.at /\ v2.caller = v.caller
  <2>1. v \in View /\ v.n + 1 \in Nat
    BY DEF Pair, View
  <2> QED BY <2>1 DEF View, Roles, Responds, Starts, Dead, Keyed
<1>2. Without(x, h, t) /\ h = Head(x) /\ t = Tail(x)
  BY Taken DEF Pair
<1>3. Says(v2) /\ Says(w)
  BY <1>1, Words DEF Pair
<1>4. Upto(y, "Commit", v.n + 1) /\ (Upto(t, "Key", v.n) => Upto(t, "Key", v.n + 1))
  BY <1>2, UptoNext DEF Pair, View, Link, NoncesOK, Without
<1> HIDE DEF v2, h, t
<1> USE DEF Pair, Link, BusyOK, NoneOK, BarriersOK, FreshOK, OfferedOK, RevealedOK, SharedOK, UnkeyedOK,
            KeyedOK, NoncesOK, Dead, Responds, Starts, Keyed, HeadIn, LastIn, Barrier, Junk, MayFollow
<1>5. Link(v2, w, t, y)
  <2>1. Chain(t) /\ BusyOK(v2, w, t, y) /\ NoneOK(v2, w, t, y)
    BY <1>1, <1>2, <1>3, <1>4 DEF Says, Without
  <2>2. BarriersOK(v2, w, t, y)
    BY <1>1, <1>2, <1>3, <1>4 DEF Says, Without
  <2>3. FreshOK(v2, w, t, y) /\ OfferedOK(v2, w, t, y)
    BY <1>1, <1>2, <1>3, <1>4 DEF Says, Without
  <2>4. RevealedOK(v2, w, t, y)
    BY <1>1, <1>2, <1>3, <1>4 DEF Says, Without
  <2>5. SharedOK(v2, w, t, y)
    BY <1>1, <1>2, <1>3, <1>4 DEF Says, Without
  <2>6. UnkeyedOK(v2, w, t, y)
    BY <1>1, <1>2, <1>3, <1>4 DEF Says, Without
  <2>7. KeyedOK(v2, w, t, y)
    BY <1>1, <1>2, <1>3, <1>4 DEF Says, Without
  <2>8. NoncesOK(v2, w, t, y)
    BY <1>1, <1>2, <1>3, <1>4 DEF Says, Without
  <2> HIDE DEF BusyOK, NoneOK, BarriersOK, FreshOK, OfferedOK, RevealedOK, SharedOK, UnkeyedOK, KeyedOK,
               NoncesOK
  <2> QED BY <2>1, <2>2, <2>3, <2>4, <2>5, <2>6, <2>7, <2>8
<1>6. Link(w, v2, y, t)
  <2>1. Chain(y) /\ BusyOK(w, v2, y, t) /\ NoneOK(w, v2, y, t)
    BY <1>1, <1>2, <1>3, <1>4 DEF Says, Without
  <2>2. BarriersOK(w, v2, y, t)
    BY <1>1, <1>2, <1>3, <1>4 DEF Says, Without
  <2>3. FreshOK(w, v2, y, t) /\ OfferedOK(w, v2, y, t)
    BY <1>1, <1>2, <1>3, <1>4 DEF Says, Without
  <2>4. RevealedOK(w, v2, y, t)
    BY <1>1, <1>2, <1>3, <1>4 DEF Says, Without
  <2>5. SharedOK(w, v2, y, t)
    BY <1>1, <1>2, <1>3, <1>4 DEF Says, Without
  <2>6. UnkeyedOK(w, v2, y, t)
    BY <1>1, <1>2, <1>3, <1>4 DEF Says, Without
  <2>7. KeyedOK(w, v2, y, t)
    BY <1>1, <1>2, <1>3, <1>4 DEF Says, Without
  <2>8. NoncesOK(w, v2, y, t)
    BY <1>1, <1>2, <1>3, <1>4 DEF Says, Without
  <2> HIDE DEF BusyOK, NoneOK, BarriersOK, FreshOK, OfferedOK, RevealedOK, SharedOK, UnkeyedOK, KeyedOK,
               NoncesOK
  <2> QED BY <2>1, <2>2, <2>3, <2>4, <2>5, <2>6, <2>7, <2>8
<1> HIDE DEF Link
<1> QED BY <1>1, <1>2, <1>3, <1>4, <1>5, <1>6 DEF Says, Without, v2, h, t

\* A query of an earlier call costs the one who began the partner.
LEMMA AtLost ==
  ASSUME NEW v, NEW w, NEW x, NEW y, Pair(v, w, x, y),
         v.role \in {"held", "sent", "lost"}, v.at = "idle", x # <<>>, Kind(Head(x)) = "BottomQuery"
  PROVE  Pair([v EXCEPT !.role = "lost", !.n = v.n + 1], w, Tail(x), y)
<1> DEFINE v2 == [v EXCEPT !.role = "lost", !.n = v.n + 1]
           h == Head(x)
           t == Tail(x)
<1>1. v2 \in View /\ v2.role = "lost" /\ v2.n = v.n + 1 /\ v2.key = v.key /\ v2.at = v.at /\ v2.caller = v.caller
  <2>1. v \in View /\ v.n + 1 \in Nat
    BY DEF Pair, View
  <2> QED BY <2>1 DEF View, Roles, Responds, Starts, Dead, Keyed
<1>2. Without(x, h, t) /\ h = Head(x) /\ t = Tail(x)
  BY Taken DEF Pair
<1>3. Says(v2) /\ Says(w)
  BY <1>1, Words DEF Pair
<1>4. Upto(y, "Commit", v.n + 1) /\ (Upto(t, "Key", v.n) => Upto(t, "Key", v.n + 1))
  BY <1>2, UptoNext DEF Pair, View, Link, NoncesOK, Without
<1> HIDE DEF v2, h, t
<1> USE DEF Pair, Link, BusyOK, NoneOK, BarriersOK, FreshOK, OfferedOK, RevealedOK, SharedOK, UnkeyedOK,
            KeyedOK, NoncesOK, Dead, Responds, Starts, Keyed, HeadIn, LastIn, Barrier, Junk, MayFollow
<1>5. Link(v2, w, t, y)
  <2>1. Chain(t) /\ BusyOK(v2, w, t, y) /\ NoneOK(v2, w, t, y)
    BY <1>1, <1>2, <1>3, <1>4 DEF Says, Without
  <2>2. BarriersOK(v2, w, t, y)
    BY <1>1, <1>2, <1>3, <1>4 DEF Says, Without
  <2>3. FreshOK(v2, w, t, y) /\ OfferedOK(v2, w, t, y)
    BY <1>1, <1>2, <1>3, <1>4 DEF Says, Without
  <2>4. RevealedOK(v2, w, t, y)
    BY <1>1, <1>2, <1>3, <1>4 DEF Says, Without
  <2>5. SharedOK(v2, w, t, y)
    BY <1>1, <1>2, <1>3, <1>4 DEF Says, Without
  <2>6. UnkeyedOK(v2, w, t, y)
    BY <1>1, <1>2, <1>3, <1>4 DEF Says, Without
  <2>7. KeyedOK(v2, w, t, y)
    BY <1>1, <1>2, <1>3, <1>4 DEF Says, Without
  <2>8. NoncesOK(v2, w, t, y)
    BY <1>1, <1>2, <1>3, <1>4 DEF Says, Without
  <2> HIDE DEF BusyOK, NoneOK, BarriersOK, FreshOK, OfferedOK, RevealedOK, SharedOK, UnkeyedOK, KeyedOK,
               NoncesOK
  <2> QED BY <2>1, <2>2, <2>3, <2>4, <2>5, <2>6, <2>7, <2>8
<1>6. Link(w, v2, y, t)
  <2>1. Chain(y) /\ BusyOK(w, v2, y, t) /\ NoneOK(w, v2, y, t)
    BY <1>1, <1>2, <1>3, <1>4 DEF Says, Without
  <2>2. BarriersOK(w, v2, y, t)
    BY <1>1, <1>2, <1>3, <1>4 DEF Says, Without
  <2>3. FreshOK(w, v2, y, t) /\ OfferedOK(w, v2, y, t)
    BY <1>1, <1>2, <1>3, <1>4 DEF Says, Without
  <2>4. RevealedOK(w, v2, y, t)
    BY <1>1, <1>2, <1>3, <1>4 DEF Says, Without
  <2>5. SharedOK(w, v2, y, t)
    BY <1>1, <1>2, <1>3, <1>4 DEF Says, Without
  <2>6. UnkeyedOK(w, v2, y, t)
    BY <1>1, <1>2, <1>3, <1>4 DEF Says, Without
  <2>7. KeyedOK(w, v2, y, t)
    BY <1>1, <1>2, <1>3, <1>4 DEF Says, Without
  <2>8. NoncesOK(w, v2, y, t)
    BY <1>1, <1>2, <1>3, <1>4 DEF Says, Without
  <2> HIDE DEF BusyOK, NoneOK, BarriersOK, FreshOK, OfferedOK, RevealedOK, SharedOK, UnkeyedOK, KeyedOK,
               NoncesOK
  <2> QED BY <2>1, <2>2, <2>3, <2>4, <2>5, <2>6, <2>7, <2>8
<1> HIDE DEF Link
<1> QED BY <1>1, <1>2, <1>3, <1>4, <1>5, <1>6 DEF Says, Without, v2, h, t

\* The request comes to the one who answered.
LEMMA AtRequest ==
  ASSUME NEW v, NEW w, NEW x, NEW y, Pair(v, w, x, y),
         v.role = "shared", v.at = "idle", x # <<>>, Kind(Head(x)) = "BottomData"
  PROVE  Pair([v EXCEPT !.at = "answer", !.caller = FALSE], w, Tail(x), y)
<1> DEFINE v2 == [v EXCEPT !.at = "answer", !.caller = FALSE]
           h == Head(x)
           t == Tail(x)
<1>1. v2 \in View /\ v2.at = "answer" /\ ~v2.caller /\ v2.role = v.role /\ v2.key = v.key /\ v2.n = v.n
  BY DEF Pair, View, Roles, Responds, Starts, Dead, Keyed
<1>2. Without(x, h, t) /\ h = Head(x) /\ t = Tail(x)
  BY Taken DEF Pair
<1>3. Says(v2) /\ Says(w)
  BY <1>1, Words DEF Pair
<1>4. \A q : q = <<>> => Free(q)
  BY Nothing
<1> HIDE DEF v2, h, t
<1> USE DEF Pair, Link, BusyOK, NoneOK, BarriersOK, FreshOK, OfferedOK, RevealedOK, SharedOK, UnkeyedOK,
            KeyedOK, NoncesOK, Dead, Responds, Starts, Keyed, HeadIn, LastIn, Barrier, Junk, MayFollow
<1>5. Link(v2, w, t, y)
  <2>1. Chain(t) /\ BusyOK(v2, w, t, y) /\ NoneOK(v2, w, t, y)
    BY <1>1, <1>2, <1>3, <1>4 DEF Says, Without
  <2>2. BarriersOK(v2, w, t, y)
    BY <1>1, <1>2, <1>3, <1>4 DEF Says, Without
  <2>3. FreshOK(v2, w, t, y) /\ OfferedOK(v2, w, t, y)
    BY <1>1, <1>2, <1>3, <1>4 DEF Says, Without
  <2>4. RevealedOK(v2, w, t, y)
    BY <1>1, <1>2, <1>3, <1>4 DEF Says, Without
  <2>5. SharedOK(v2, w, t, y)
    BY <1>1, <1>2, <1>3, <1>4 DEF Says, Without
  <2>6. UnkeyedOK(v2, w, t, y)
    BY <1>1, <1>2, <1>3, <1>4 DEF Says, Without
  <2>7. KeyedOK(v2, w, t, y)
    BY <1>1, <1>2, <1>3, <1>4 DEF Says, Without
  <2>8. NoncesOK(v2, w, t, y)
    BY <1>1, <1>2, <1>3, <1>4 DEF Says, Without
  <2> HIDE DEF BusyOK, NoneOK, BarriersOK, FreshOK, OfferedOK, RevealedOK, SharedOK, UnkeyedOK, KeyedOK,
               NoncesOK
  <2> QED BY <2>1, <2>2, <2>3, <2>4, <2>5, <2>6, <2>7, <2>8
<1>6. Link(w, v2, y, t)
  <2>1. Chain(y) /\ BusyOK(w, v2, y, t) /\ NoneOK(w, v2, y, t)
    BY <1>1, <1>2, <1>3, <1>4 DEF Says, Without
  <2>2. BarriersOK(w, v2, y, t)
    BY <1>1, <1>2, <1>3, <1>4 DEF Says, Without
  <2>3. FreshOK(w, v2, y, t) /\ OfferedOK(w, v2, y, t)
    BY <1>1, <1>2, <1>3, <1>4 DEF Says, Without
  <2>4. RevealedOK(w, v2, y, t)
    BY <1>1, <1>2, <1>3, <1>4 DEF Says, Without
  <2>5. SharedOK(w, v2, y, t)
    BY <1>1, <1>2, <1>3, <1>4 DEF Says, Without
  <2>6. UnkeyedOK(w, v2, y, t)
    BY <1>1, <1>2, <1>3, <1>4 DEF Says, Without
  <2>7. KeyedOK(w, v2, y, t)
    BY <1>1, <1>2, <1>3, <1>4 DEF Says, Without
  <2>8. NoncesOK(w, v2, y, t)
    BY <1>1, <1>2, <1>3, <1>4 DEF Says, Without
  <2> HIDE DEF BusyOK, NoneOK, BarriersOK, FreshOK, OfferedOK, RevealedOK, SharedOK, UnkeyedOK, KeyedOK,
               NoncesOK
  <2> QED BY <2>1, <2>2, <2>3, <2>4, <2>5, <2>6, <2>7, <2>8
<1> HIDE DEF Link
<1> QED BY <1>1, <1>2, <1>3, <1>4, <1>5, <1>6 DEF Says, Without, v2, h, t

\* The answer comes to the one who began.
LEMMA AtReply ==
  ASSUME NEW v, NEW w, NEW x, NEW y, Pair(v, w, x, y),
         v.role = "sent", v.at = "idle", x # <<>>, Kind(Head(x)) = "BottomData"
  PROVE  Pair(v, w, Tail(x), y)
<1> DEFINE h == Head(x)
           t == Tail(x)
<1>1. Without(x, h, t) /\ h = Head(x) /\ t = Tail(x)
  BY Taken DEF Pair
<1>2. Says(v) /\ Says(w)
  BY Words DEF Pair
<1> HIDE DEF h, t
<1> USE DEF Pair, Link, BusyOK, NoneOK, BarriersOK, FreshOK, OfferedOK, RevealedOK, SharedOK, UnkeyedOK,
            KeyedOK, NoncesOK, Dead, Responds, Starts, Keyed, HeadIn, LastIn, Barrier, Junk, MayFollow
<1>3. Link(v, w, t, y)
  <2>1. Chain(t) /\ BusyOK(v, w, t, y) /\ NoneOK(v, w, t, y)
    BY <1>1, <1>2 DEF Says, Without
  <2>2. BarriersOK(v, w, t, y)
    BY <1>1, <1>2 DEF Says, Without
  <2>3. FreshOK(v, w, t, y) /\ OfferedOK(v, w, t, y)
    BY <1>1, <1>2 DEF Says, Without
  <2>4. RevealedOK(v, w, t, y)
    BY <1>1, <1>2 DEF Says, Without
  <2>5. SharedOK(v, w, t, y)
    BY <1>1, <1>2 DEF Says, Without
  <2>6. UnkeyedOK(v, w, t, y)
    BY <1>1, <1>2 DEF Says, Without
  <2>7. KeyedOK(v, w, t, y)
    BY <1>1, <1>2 DEF Says, Without
  <2>8. NoncesOK(v, w, t, y)
    BY <1>1, <1>2 DEF Says, Without
  <2> HIDE DEF BusyOK, NoneOK, BarriersOK, FreshOK, OfferedOK, RevealedOK, SharedOK, UnkeyedOK, KeyedOK,
               NoncesOK
  <2> QED BY <2>1, <2>2, <2>3, <2>4, <2>5, <2>6, <2>7, <2>8
<1>4. Link(w, v, y, t)
  <2>1. Chain(y) /\ BusyOK(w, v, y, t) /\ NoneOK(w, v, y, t)
    BY <1>1, <1>2 DEF Says, Without
  <2>2. BarriersOK(w, v, y, t)
    BY <1>1, <1>2 DEF Says, Without
  <2>3. FreshOK(w, v, y, t) /\ OfferedOK(w, v, y, t)
    BY <1>1, <1>2 DEF Says, Without
  <2>4. RevealedOK(w, v, y, t)
    BY <1>1, <1>2 DEF Says, Without
  <2>5. SharedOK(w, v, y, t)
    BY <1>1, <1>2 DEF Says, Without
  <2>6. UnkeyedOK(w, v, y, t)
    BY <1>1, <1>2 DEF Says, Without
  <2>7. KeyedOK(w, v, y, t)
    BY <1>1, <1>2 DEF Says, Without
  <2>8. NoncesOK(w, v, y, t)
    BY <1>1, <1>2 DEF Says, Without
  <2> HIDE DEF BusyOK, NoneOK, BarriersOK, FreshOK, OfferedOK, RevealedOK, SharedOK, UnkeyedOK, KeyedOK,
               NoncesOK
  <2> QED BY <2>1, <2>2, <2>3, <2>4, <2>5, <2>6, <2>7, <2>8
<1> HIDE DEF Link
<1> QED BY <1>1, <1>2, <1>3, <1>4 DEF Says, Without, h, t

\* A handler ends.
LEMMA AtRest ==
  ASSUME NEW v, NEW w, NEW x, NEW y, Pair(v, w, x, y),
         TRUE
  PROVE  Pair([v EXCEPT !.at = "idle", !.caller = FALSE], w, x, y)
<1> DEFINE v2 == [v EXCEPT !.at = "idle", !.caller = FALSE]
<1>1. v2 \in View /\ v2.at = "idle" /\ v2.role = v.role /\ v2.key = v.key /\ v2.n = v.n
  BY DEF Pair, View, Roles, Responds, Starts, Dead, Keyed
<1>2. Says(v2) /\ Says(w)
  BY <1>1, Words DEF Pair
<1> HIDE DEF v2
<1> USE DEF Pair, Link, BusyOK, NoneOK, BarriersOK, FreshOK, OfferedOK, RevealedOK, SharedOK, UnkeyedOK,
            KeyedOK, NoncesOK, Dead, Responds, Starts, Keyed, HeadIn, LastIn, Barrier, Junk, MayFollow
<1>3. Link(v2, w, x, y)
  BY <1>1, <1>2 DEF Says
<1>4. Link(w, v2, y, x)
  BY <1>1, <1>2 DEF Says
<1> HIDE DEF Link
<1> QED BY <1>1, <1>2, <1>3, <1>4 DEF Says, v2

\* A handler of a session that has ended gets a query in place of its message.
LEMMA AtPlain ==
  ASSUME NEW v, NEW w, NEW x, NEW y, Pair(v, w, x, y),
         v.role = "rest", v.at # "idle", v.caller \/ v.at = "answer"
  PROVE  Pair([v EXCEPT !.at = "idle", !.caller = FALSE], w, x, y \o <<Bottom(<<"Query">>)>>)
<1> DEFINE v2 == [v EXCEPT !.at = "idle", !.caller = FALSE]
           z == y \o <<Bottom(<<"Query">>)>>
<1>1. v2 \in View /\ v2.at = "idle" /\ v2.role = v.role /\ v2.key = v.key /\ v2.n = v.n
  BY DEF Pair, View, Roles, Responds, Starts, Dead, Keyed
<1>2. With(y, Bottom(<<"Query">>), z) /\ Kind(Bottom(<<"Query">>)) = "BottomQuery"
  BY Put, Kinds DEF Pair
<1>3. Says(v2) /\ Says(w)
  BY <1>1, Words DEF Pair
<1> HIDE DEF v2, z
<1> USE DEF Pair, Link, BusyOK, NoneOK, BarriersOK, FreshOK, OfferedOK, RevealedOK, SharedOK, UnkeyedOK,
            KeyedOK, NoncesOK, Dead, Responds, Starts, Keyed, HeadIn, LastIn, Barrier, Junk, MayFollow
<1>4. Link(v2, w, x, z)
  <2>1. Chain(x) /\ BusyOK(v2, w, x, z) /\ NoneOK(v2, w, x, z)
    BY <1>1, <1>2, <1>3 DEF Says, With
  <2>2. BarriersOK(v2, w, x, z)
    BY <1>1, <1>2, <1>3 DEF Says, With
  <2>3. FreshOK(v2, w, x, z) /\ OfferedOK(v2, w, x, z)
    BY <1>1, <1>2, <1>3 DEF Says, With
  <2>4. RevealedOK(v2, w, x, z)
    BY <1>1, <1>2, <1>3 DEF Says, With
  <2>5. SharedOK(v2, w, x, z)
    BY <1>1, <1>2, <1>3 DEF Says, With
  <2>6. UnkeyedOK(v2, w, x, z)
    BY <1>1, <1>2, <1>3 DEF Says, With
  <2>7. KeyedOK(v2, w, x, z)
    BY <1>1, <1>2, <1>3 DEF Says, With
  <2>8. NoncesOK(v2, w, x, z)
    BY <1>1, <1>2, <1>3 DEF Says, With
  <2> HIDE DEF BusyOK, NoneOK, BarriersOK, FreshOK, OfferedOK, RevealedOK, SharedOK, UnkeyedOK, KeyedOK,
               NoncesOK
  <2> QED BY <2>1, <2>2, <2>3, <2>4, <2>5, <2>6, <2>7, <2>8
<1>5. Link(w, v2, z, x)
  <2>1. Chain(z) /\ BusyOK(w, v2, z, x) /\ NoneOK(w, v2, z, x)
    BY <1>1, <1>2, <1>3 DEF Says, With
  <2>2. BarriersOK(w, v2, z, x)
    BY <1>1, <1>2, <1>3 DEF Says, With
  <2>3. FreshOK(w, v2, z, x) /\ OfferedOK(w, v2, z, x)
    BY <1>1, <1>2, <1>3 DEF Says, With
  <2>4. RevealedOK(w, v2, z, x)
    BY <1>1, <1>2, <1>3 DEF Says, With
  <2>5. SharedOK(w, v2, z, x)
    BY <1>1, <1>2, <1>3 DEF Says, With
  <2>6. UnkeyedOK(w, v2, z, x)
    BY <1>1, <1>2, <1>3 DEF Says, With
  <2>7. KeyedOK(w, v2, z, x)
    BY <1>1, <1>2, <1>3 DEF Says, With
  <2>8. NoncesOK(w, v2, z, x)
    BY <1>1, <1>2, <1>3 DEF Says, With
  <2> HIDE DEF BusyOK, NoneOK, BarriersOK, FreshOK, OfferedOK, RevealedOK, SharedOK, UnkeyedOK, KeyedOK,
               NoncesOK
  <2> QED BY <2>1, <2>2, <2>3, <2>4, <2>5, <2>6, <2>7, <2>8
<1> HIDE DEF Link
<1> QED BY <1>1, <1>2, <1>3, <1>4, <1>5 DEF Says, With, v2, z

\* The request is answered.
LEMMA AtAnswer ==
  ASSUME NEW v, NEW w, NEW x, NEW y, Pair(v, w, x, y),
         v.role = "shared", v.at = "answer"
  PROVE  Pair([v EXCEPT !.at = "idle", !.caller = FALSE], w, x, y \o <<DataOf(v.key, "Answer")>>)
<1> DEFINE v2 == [v EXCEPT !.at = "idle", !.caller = FALSE]
           z == y \o <<DataOf(v.key, "Answer")>>
<1>1. v2 \in View /\ v2.at = "idle" /\ v2.role = v.role /\ v2.key = v.key /\ v2.n = v.n
  BY DEF Pair, View, Roles, Responds, Starts, Dead, Keyed
<1>2. With(y, DataOf(v.key, "Answer"), z) /\ Kind(DataOf(v.key, "Answer")) = "BottomData"
  BY Put, Kinds, Words DEF Pair, Says, Keyed
<1>3. Says(v2) /\ Says(w)
  BY <1>1, Words DEF Pair
<1> HIDE DEF v2, z
<1> USE DEF Pair, Link, BusyOK, NoneOK, BarriersOK, FreshOK, OfferedOK, RevealedOK, SharedOK, UnkeyedOK,
            KeyedOK, NoncesOK, Dead, Responds, Starts, Keyed, HeadIn, LastIn, Barrier, Junk, MayFollow
<1>4. Link(v2, w, x, z)
  <2>1. Chain(x) /\ BusyOK(v2, w, x, z) /\ NoneOK(v2, w, x, z)
    BY <1>1, <1>2, <1>3 DEF Says, With
  <2>2. BarriersOK(v2, w, x, z)
    BY <1>1, <1>2, <1>3 DEF Says, With
  <2>3. FreshOK(v2, w, x, z) /\ OfferedOK(v2, w, x, z)
    BY <1>1, <1>2, <1>3 DEF Says, With
  <2>4. RevealedOK(v2, w, x, z)
    BY <1>1, <1>2, <1>3 DEF Says, With
  <2>5. SharedOK(v2, w, x, z)
    BY <1>1, <1>2, <1>3 DEF Says, With
  <2>6. UnkeyedOK(v2, w, x, z)
    BY <1>1, <1>2, <1>3 DEF Says, With
  <2>7. KeyedOK(v2, w, x, z)
    BY <1>1, <1>2, <1>3 DEF Says, With
  <2>8. NoncesOK(v2, w, x, z)
    BY <1>1, <1>2, <1>3 DEF Says, With
  <2> HIDE DEF BusyOK, NoneOK, BarriersOK, FreshOK, OfferedOK, RevealedOK, SharedOK, UnkeyedOK, KeyedOK,
               NoncesOK
  <2> QED BY <2>1, <2>2, <2>3, <2>4, <2>5, <2>6, <2>7, <2>8
<1>5. Link(w, v2, z, x)
  <2>1. Chain(z) /\ BusyOK(w, v2, z, x) /\ NoneOK(w, v2, z, x)
    BY <1>1, <1>2, <1>3 DEF Says, With
  <2>2. BarriersOK(w, v2, z, x)
    BY <1>1, <1>2, <1>3 DEF Says, With
  <2>3. FreshOK(w, v2, z, x) /\ OfferedOK(w, v2, z, x)
    BY <1>1, <1>2, <1>3 DEF Says, With
  <2>4. RevealedOK(w, v2, z, x)
    BY <1>1, <1>2, <1>3 DEF Says, With
  <2>5. SharedOK(w, v2, z, x)
    BY <1>1, <1>2, <1>3 DEF Says, With
  <2>6. UnkeyedOK(w, v2, z, x)
    BY <1>1, <1>2, <1>3 DEF Says, With
  <2>7. KeyedOK(w, v2, z, x)
    BY <1>1, <1>2, <1>3 DEF Says, With
  <2>8. NoncesOK(w, v2, z, x)
    BY <1>1, <1>2, <1>3 DEF Says, With
  <2> HIDE DEF BusyOK, NoneOK, BarriersOK, FreshOK, OfferedOK, RevealedOK, SharedOK, UnkeyedOK, KeyedOK,
               NoncesOK
  <2> QED BY <2>1, <2>2, <2>3, <2>4, <2>5, <2>6, <2>7, <2>8
<1> HIDE DEF Link
<1> QED BY <1>1, <1>2, <1>3, <1>4, <1>5 DEF Says, With, v2, z

\* The query is answered with a commitment, behind what waited.
LEMMA AtQuery ==
  ASSUME NEW v, NEW w, NEW x, NEW y, Pair(v, w, x, y),
         v.role = "fresh", v.at = "idle", x # <<>>, Kind(Head(x)) = "Query",
         NEW o \in Seq(Message), \A a \in 1..Len(o) : Kind(o[a]) \in Junk, Upto(o, "Commit", v.n)
  PROVE  Pair([v EXCEPT !.role = "offered", !.n = v.n + 1], w, Tail(x), (y \o o) \o <<CommitOf(v.n + 1)>>)
<1> DEFINE v2 == [v EXCEPT !.role = "offered", !.n = v.n + 1]
           h == Head(x)
           t == Tail(x)
           u == y \o o
           z == u \o <<CommitOf(v.n + 1)>>
<1>1. /\ v2 \in View /\ v2.role = "offered" /\ v2.n = v.n + 1 /\ v2.n \in Nat
      /\ v2.key = v.key /\ v2.at = v.at /\ v2.caller = v.caller
  <2>1. v \in View /\ v.n + 1 \in Nat
    BY DEF Pair, View
  <2> QED BY <2>1 DEF View, Roles, Responds, Starts, Dead, Keyed
<1>2. Without(x, h, t) /\ h = Head(x) /\ t = Tail(x)
  BY Taken DEF Pair
<1>3. WithJunk(y, o, u)
  BY PutJunk DEF Pair
<1>4. With(u, CommitOf(v.n + 1), z) /\ Kind(CommitOf(v.n + 1)) = "Commit" /\ CommitOf(v.n + 1).otr[2] = v.n + 1
  <2>1. v.n + 1 \in Nat
    BY DEF Pair, View
  <2>2. /\ CommitOf(v.n + 1) \in Message
        /\ Kind(CommitOf(v.n + 1)) = "Commit" /\ CommitOf(v.n + 1).otr[2] = v.n + 1
    BY <2>1, Kinds
  <2>3. u \in Seq(Message)
    BY <1>3 DEF WithJunk
  <2> HIDE DEF u
  <2> QED BY <2>2, <2>3, Put
<1>5. Says(v2) /\ Says(w)
  BY <1>1, Words DEF Pair
<1>6. Upto(u, "Commit", v.n) /\ Upto(u, "Commit", v.n + 1) /\ (Upto(t, "Key", v.n) => Upto(t, "Key", v.n + 1))
  BY <1>2, <1>3, UptoNext DEF Pair, View, Link, NoncesOK, Without, WithJunk, Junk
<1>7. CommitOf(v.n + 1).otr[2] <= v2.n
  BY <1>1, <1>4
<1>8. ~Carries(u, CommitOf(v.n + 1)) /\ \A K \in Key : K[1] = v.n + 1 => ~Carries(t, KeyOf(K))
  BY <1>2, <1>3, <1>6, NotYet DEF Pair, View, Link, NoncesOK, Without, WithJunk
<1> HIDE DEF v2, h, t, u, z
<1> USE DEF Pair, Link, BusyOK, NoneOK, BarriersOK, FreshOK, OfferedOK, RevealedOK, SharedOK, UnkeyedOK,
            KeyedOK, NoncesOK, Dead, Responds, Starts, Keyed, HeadIn, LastIn, Barrier, Junk, MayFollow
<1>9. Link(v2, w, t, z)
  <2>1. Chain(t)
    BY <1>1, <1>2, <1>3, <1>4, <1>5, <1>6, <1>7, <1>8 DEF Says, Without, With, WithJunk
  <2>2. BusyOK(v2, w, t, z) /\ NoneOK(v2, w, t, z)
    BY <1>1, <1>2, <1>3, <1>4, <1>5, <1>6, <1>7, <1>8 DEF Says, Without, With, WithJunk
  <2>3. BarriersOK(v2, w, t, z)
    BY <1>1, <1>2, <1>3, <1>4, <1>5, <1>6, <1>7, <1>8 DEF Says, Without, With, WithJunk
  <2>4. FreshOK(v2, w, t, z)
    BY <1>1, <1>2, <1>3, <1>4, <1>5, <1>6, <1>7, <1>8 DEF Says, Without, With, WithJunk
  <2>5. OfferedOK(v2, w, t, z)
    BY <1>1, <1>2, <1>3, <1>4, <1>5, <1>6, <1>7, <1>8 DEF Says, Without, With, WithJunk
  <2>6. RevealedOK(v2, w, t, z)
    BY <1>1, <1>2, <1>3, <1>4, <1>5, <1>6, <1>7, <1>8 DEF Says, Without, With, WithJunk
  <2>7. SharedOK(v2, w, t, z)
    BY <1>1, <1>2, <1>3, <1>4, <1>5, <1>6, <1>7, <1>8 DEF Says, Without, With, WithJunk
  <2>8. UnkeyedOK(v2, w, t, z)
    BY <1>1, <1>2, <1>3, <1>4, <1>5, <1>6, <1>7, <1>8 DEF Says, Without, With, WithJunk
  <2>9. KeyedOK(v2, w, t, z)
    BY <1>1, <1>2, <1>3, <1>4, <1>5, <1>6, <1>7, <1>8 DEF Says, Without, With, WithJunk
  <2>10. NoncesOK(v2, w, t, z)
    BY <1>1, <1>2, <1>3, <1>4, <1>5, <1>6, <1>7, <1>8 DEF Says, Without, With, WithJunk
  <2> HIDE DEF BusyOK, NoneOK, BarriersOK, FreshOK, OfferedOK, RevealedOK, SharedOK, UnkeyedOK, KeyedOK,
               NoncesOK
  <2> QED BY <2>1, <2>2, <2>3, <2>4, <2>5, <2>6, <2>7, <2>8, <2>9, <2>10
<1>10. Link(w, v2, z, t)
  <2>1. Chain(z)
    BY <1>1, <1>2, <1>3, <1>4, <1>5, <1>6, <1>7, <1>8 DEF Says, Without, With, WithJunk
  <2>2. BusyOK(w, v2, z, t) /\ NoneOK(w, v2, z, t)
    BY <1>1, <1>2, <1>3, <1>4, <1>5, <1>6, <1>7, <1>8 DEF Says, Without, With, WithJunk
  <2>3. BarriersOK(w, v2, z, t)
    BY <1>1, <1>2, <1>3, <1>4, <1>5, <1>6, <1>7, <1>8 DEF Says, Without, With, WithJunk
  <2>4. FreshOK(w, v2, z, t)
    BY <1>1, <1>2, <1>3, <1>4, <1>5, <1>6, <1>7, <1>8 DEF Says, Without, With, WithJunk
  <2>5. OfferedOK(w, v2, z, t)
    BY ZenonT(60), <1>1, <1>2, <1>3, <1>4, <1>5, <1>6, <1>7, <1>8 DEF Says, Without, With, WithJunk
  <2>6. RevealedOK(w, v2, z, t)
    BY <1>1, <1>2, <1>3, <1>4, <1>5, <1>6, <1>7, <1>8 DEF Says, Without, With, WithJunk
  <2>7. SharedOK(w, v2, z, t)
    BY <1>1, <1>2, <1>3, <1>4, <1>5, <1>6, <1>7, <1>8 DEF Says, Without, With, WithJunk
  <2>8. UnkeyedOK(w, v2, z, t)
    BY <1>1, <1>2, <1>3, <1>4, <1>5, <1>6, <1>7, <1>8 DEF Says, Without, With, WithJunk
  <2>9. KeyedOK(w, v2, z, t)
    BY <1>1, <1>2, <1>3, <1>4, <1>5, <1>6, <1>7, <1>8 DEF Says, Without, With, WithJunk
  <2>10. NoncesOK(w, v2, z, t)
    BY <1>1, <1>2, <1>3, <1>4, <1>5, <1>6, <1>7, <1>8 DEF Says, Without, With, WithJunk
  <2> HIDE DEF BusyOK, NoneOK, BarriersOK, FreshOK, OfferedOK, RevealedOK, SharedOK, UnkeyedOK, KeyedOK,
               NoncesOK
  <2> QED BY <2>1, <2>2, <2>3, <2>4, <2>5, <2>6, <2>7, <2>8, <2>9, <2>10
<1> HIDE DEF Link
<1> QED BY <1>1, <1>2, <1>3, <1>4, <1>5, <1>6, <1>7, <1>8, <1>9, <1>10
           DEF Says, Without, With, WithJunk, v2, h, t, u, z

\* The one who began sends what OTR wanted to send, and the request.
LEMMA AtShared ==
  ASSUME NEW v, NEW w, NEW x, NEW y, Pair(v, w, x, y),
         v.role = "held", v.at # "idle"
  PROVE  Pair([v EXCEPT !.role = "sent", !.at = "idle", !.caller = FALSE], w, x,
               (y \o <<SigOf(v.key)>>) \o <<DataOf(v.key, "Request")>>)
<1> DEFINE v2 == [v EXCEPT !.role = "sent", !.at = "idle", !.caller = FALSE]
           u == y \o <<SigOf(v.key)>>
           z == u \o <<DataOf(v.key, "Request")>>
<1>1. v2 \in View /\ v2.role = "sent" /\ v2.at = "idle" /\ v2.key = v.key /\ v2.n = v.n
  BY DEF Pair, View, Roles, Responds, Starts, Dead, Keyed
<1>2. With(y, SigOf(v.key), u) /\ Kind(SigOf(v.key)) = "Sig" /\ v.key \in Key
  <2>1. v.key \in Key
    BY DEF Pair, View, Keyed
  <2>2. SigOf(v.key) \in Message /\ Kind(SigOf(v.key)) = "Sig"
    BY <2>1, Kinds
  <2> QED BY <2>1, <2>2, Put DEF Pair
<1>3. With(u, DataOf(v.key, "Request"), z) /\ Kind(DataOf(v.key, "Request")) = "BottomData"
  <2>1. DataOf(v.key, "Request") \in Message /\ Kind(DataOf(v.key, "Request")) = "BottomData"
    BY <1>2, Kinds
  <2>2. u \in Seq(Message)
    BY <1>2 DEF With
  <2> HIDE DEF u
  <2> QED BY <2>1, <2>2, Put
<1>4. Says(v2) /\ Says(w)
  BY <1>1, Words DEF Pair
<1> HIDE DEF v2, u, z
<1> USE DEF Pair, Link, BusyOK, NoneOK, BarriersOK, FreshOK, OfferedOK, RevealedOK, SharedOK, UnkeyedOK,
            KeyedOK, NoncesOK, Dead, Responds, Starts, Keyed, HeadIn, LastIn, Barrier, Junk, MayFollow
<1>5. Link(v2, w, x, z)
  <2>1. Chain(x) /\ BusyOK(v2, w, x, z) /\ NoneOK(v2, w, x, z)
    BY <1>1, <1>2, <1>3, <1>4 DEF Says, With
  <2>2. BarriersOK(v2, w, x, z)
    BY <1>1, <1>2, <1>3, <1>4 DEF Says, With
  <2>3. FreshOK(v2, w, x, z) /\ OfferedOK(v2, w, x, z)
    BY <1>1, <1>2, <1>3, <1>4 DEF Says, With
  <2>4. RevealedOK(v2, w, x, z)
    BY <1>1, <1>2, <1>3, <1>4 DEF Says, With
  <2>5. SharedOK(v2, w, x, z)
    BY <1>1, <1>2, <1>3, <1>4 DEF Says, With
  <2>6. UnkeyedOK(v2, w, x, z)
    BY <1>1, <1>2, <1>3, <1>4 DEF Says, With
  <2>7. KeyedOK(v2, w, x, z)
    BY <1>1, <1>2, <1>3, <1>4 DEF Says, With
  <2>8. NoncesOK(v2, w, x, z)
    BY <1>1, <1>2, <1>3, <1>4 DEF Says, With
  <2> HIDE DEF BusyOK, NoneOK, BarriersOK, FreshOK, OfferedOK, RevealedOK, SharedOK, UnkeyedOK, KeyedOK,
               NoncesOK
  <2> QED BY <2>1, <2>2, <2>3, <2>4, <2>5, <2>6, <2>7, <2>8
<1>6. Link(w, v2, z, x)
  <2>1. Chain(z) /\ BusyOK(w, v2, z, x) /\ NoneOK(w, v2, z, x)
    BY <1>1, <1>2, <1>3, <1>4 DEF Says, With
  <2>2. BarriersOK(w, v2, z, x)
    BY <1>1, <1>2, <1>3, <1>4 DEF Says, With
  <2>3. FreshOK(w, v2, z, x) /\ OfferedOK(w, v2, z, x)
    BY <1>1, <1>2, <1>3, <1>4 DEF Says, With
  <2>4. RevealedOK(w, v2, z, x)
    BY <1>1, <1>2, <1>3, <1>4 DEF Says, With
  <2>5. SharedOK(w, v2, z, x)
    BY <1>1, <1>2, <1>3, <1>4 DEF Says, With
  <2>6. UnkeyedOK(w, v2, z, x)
    BY <1>1, <1>2, <1>3, <1>4 DEF Says, With
  <2>7. KeyedOK(w, v2, z, x)
    BY <1>1, <1>2, <1>3, <1>4 DEF Says, With
  <2>8. NoncesOK(w, v2, z, x)
    BY <1>1, <1>2, <1>3, <1>4 DEF Says, With
  <2> HIDE DEF BusyOK, NoneOK, BarriersOK, FreshOK, OfferedOK, RevealedOK, SharedOK, UnkeyedOK, KeyedOK,
               NoncesOK
  <2> QED BY <2>1, <2>2, <2>3, <2>4, <2>5, <2>6, <2>7, <2>8
<1> HIDE DEF Link
<1> QED BY <1>1, <1>2, <1>3, <1>4, <1>5, <1>6 DEF Says, With, v2, u, z

\* Which message can be the next one of a peer that exchanges keys.
LEMMA Meets ==
  ASSUME NEW v, NEW w, NEW x, NEW y, Pair(v, w, x, y), v.role \in Responds \cup Starts, x # <<>>
  PROVE  /\ Head(x) \in Message /\ Kind(Head(x)) # "Data"
         /\ Kind(Head(x)) = "Query" => v.role = "fresh"
         /\ Kind(Head(x)) \in {"Commit", "Error"} => v.role \in {"asked", "replied"}
         /\ Kind(Head(x)) = "Key" => v.role = "offered"
         /\ Kind(Head(x)) = "Reveal" => v.role = "replied" /\ Head(x) = RevealOf(v.key)
         /\ Kind(Head(x)) = "Sig" => v.role = "revealed" /\ Head(x) = SigOf(v.key)
         /\ Kind(Head(x)) = "BottomQuery" => v.role \in {"revealed", "held", "sent", "lost"}
         /\ Kind(Head(x)) = "BottomData" =>
              \/ v.role = "shared" /\ Head(x) = DataOf(v.key, "Request")
              \/ v.role = "sent" /\ Head(x) = DataOf(v.key, "Answer")
<1>1. Head(x) \in Message
  BY DEF Pair
<1> QED BY <1>1 DEF Pair, Link, FreshOK, OfferedOK, RevealedOK, SharedOK, UnkeyedOK, KeyedOK, Responds,
           Starts,
                    HeadIn, Barrier, Junk

-----------------------------------------------------------------------------
(* What is made of a conversation *)

\* A message: Sending(k) is the conversation with the context that every message makes.
LEMMA Receives ==
  ASSUME NEW k \in Conversation, NEW m \in Otr, NEW n \in Nat, NEW r \in Receiving(k, m, n)
  PROVE  LET l == Sending(k)
             Answers(auth, o) == r = Inject([l EXCEPT !.auth = auth], o)
         IN  /\ m[1] = "Query" => Answers(<<"commit", n>>, <<"Commit", n>>)
             /\ m[1] = "Commit" /\ k.auth = <<"none">> => Answers(<<"key", m[2], n>>, <<"Key", m[2], n>>)
             /\ \A a, b : m[1] = "Commit" /\ k.auth = <<"key", a, b>> =>
                  Answers(<<"key", m[2], b>>, <<"Key", m[2], b>>)
             /\ m[1] = "Error" => r = l
             /\ m[1] = "Key" => IF k.auth = <<"commit", m[2]>>
                                THEN Answers(<<"reveal", m[2], m[3]>>, <<"Reveal", m[2], m[3]>>) ELSE r = l
             /\ m[1] = "Reveal" /\ k.auth = <<"key", m[2], m[3]>> =>
                  \E s \in GoesSecure(l, <<m[2], m[3]>>) : r = Inject(s, <<"Sig", m[2], m[3]>>)
             /\ m[1] = "Sig" /\ k.auth = <<"reveal", m[2], m[3]>> => r \in GoesSecure(l, <<m[2], m[3]>>)
             /\ m[1] = "Data" => IF k.key = m[2] THEN r = l ELSE r = Inject(l, <<"Error">>)
<1> DEFINE l == Sending(k)
<1>1. l = [k EXCEPT !.open = TRUE, !.context = TRUE] /\ l.auth = k.auth /\ l.key = k.key
  BY DEF Sending, Conversation, Record
<1> HIDE DEF l
<1>2. m[1] = "Query" => r = Inject([l EXCEPT !.auth = <<"commit", n>>], <<"Commit", n>>)
  BY <1>1 DEF Receiving
<1>3. m[1] = "Commit" => r \in Committed(l, m, n)
  BY <1>1 DEF Receiving
<1>4. m[1] = "Commit" /\ k.auth = <<"none">> =>
        r = Inject([l EXCEPT !.auth = <<"key", m[2], n>>], <<"Key", m[2], n>>)
  <2> SUFFICES ASSUME m[1] = "Commit", k.auth = <<"none">>
               PROVE  r = Inject([l EXCEPT !.auth = <<"key", m[2], n>>], <<"Key", m[2], n>>)
    OBVIOUS
  <2>1. l.auth[1] = "none"
    BY <1>1
  <2> QED BY <1>3, <2>1 DEF Committed
<1>5. ASSUME NEW a, NEW b, m[1] = "Commit", k.auth = <<"key", a, b>>
      PROVE  r = Inject([l EXCEPT !.auth = <<"key", m[2], b>>], <<"Key", m[2], b>>)
  <2>1. l.auth[1] = "key" /\ l.auth[3] = b /\ [l.auth EXCEPT ![2] = m[2]] = <<"key", m[2], b>>
    BY <1>1, <1>5
  <2>2. r = Inject([l EXCEPT !.auth[2] = m[2]], <<"Key", m[2], l.auth[3]>>)
    BY <1>3, <1>5, <2>1 DEF Committed
  <2>3. [l EXCEPT !.auth[2] = m[2]] = [l EXCEPT !.auth = [l.auth EXCEPT ![2] = m[2]]]
    OBVIOUS
  <2> QED BY <2>1, <2>2, <2>3
<1>6. /\ m[1] = "Error" => r = l
      /\ m[1] = "Key" => IF k.auth = <<"commit", m[2]>>
                         THEN r = Inject([l EXCEPT !.auth = <<"reveal", m[2], m[3]>>], <<"Reveal", m[2], m[3]>>)
                         ELSE r = l
  BY <1>1 DEF Receiving, If
<1>7. /\ m[1] = "Reveal" /\ k.auth = <<"key", m[2], m[3]>> =>
           \E s \in GoesSecure(l, <<m[2], m[3]>>) : r = Inject(s, <<"Sig", m[2], m[3]>>)
      /\ m[1] = "Sig" /\ k.auth = <<"reveal", m[2], m[3]>> => r \in GoesSecure(l, <<m[2], m[3]>>)
      /\ m[1] = "Data" => IF k.key = m[2] THEN r = l ELSE r = Inject(l, <<"Error">>)
  <2>1. m[1] = "Reveal" /\ k.auth = <<"key", m[2], m[3]>> =>
           \E s \in GoesSecure(l, <<m[2], m[3]>>) : r = Inject(s, <<"Sig", m[2], m[3]>>)
    BY <1>1 DEF Receiving, If
  <2>2. m[1] = "Sig" /\ k.auth = <<"reveal", m[2], m[3]>> => r \in GoesSecure(l, <<m[2], m[3]>>)
    BY <1>1 DEF Receiving, If
  <2>3. m[1] = "Data" => IF k.key = m[2] THEN r = l ELSE r = Inject(l, <<"Error">>)
    BY <1>1 DEF Receiving, If
  <2> QED BY <2>1, <2>2, <2>3
<1> QED BY <1>2, <1>4, <1>5, <1>6, <1>7 DEF l

\* What such an answer leaves: everything but the state of the exchange and what is to be sent.
LEMMA AnswerLeaves ==
  ASSUME NEW k \in Conversation, NEW auth \in Auth, NEW o \in Otr,
         NEW r, r = Inject([Sending(k) EXCEPT !.auth = auth], o)
  PROVE  /\ r \in Conversation /\ r.open /\ r.context /\ r.key = k.key /\ r.met = k.met
         /\ r.events = k.events /\ r.auth = auth /\ r.out = Append(k.out, o)
<1> DEFINE l == [k EXCEPT !.open = TRUE, !.context = TRUE, !.auth = auth]
<1>1. /\ l \in Conversation /\ l.open /\ l.context /\ l.key = k.key /\ l.met = k.met
      /\ l.events = k.events /\ l.auth = auth /\ l.out = k.out
  BY DEF Conversation, Record
<1>2. [Sending(k) EXCEPT !.auth = auth] = l
  BY DEF Sending, Conversation, Record
<1> HIDE DEF l
<1>3. r = [l EXCEPT !.out = Append(l.out, o)]
  BY <1>2 DEF Inject
<1>4. r \in Conversation
  BY <1>1, <1>2, InjectKeeps
<1> QED BY <1>1, <1>3, <1>4 DEF Conversation, Record

-----------------------------------------------------------------------------
(* The invariant *)

\* The part that a session, s, has for the last call, h.
Place(h, s) ==
  IF h = 0 THEN {"none"}
  ELSE IF DeploysKryptonite(s) THEN (IF s.started THEN Starts ELSE Responds)
  ELSE IF s.running /\ s.started THEN {"waits"} ELSE {"rest"}

\* Whether a handler has something under way, in the words of a view.
AtOf(t) == IF t = Idle THEN "idle" ELSE IF t.at \in {"answer", "deploying"} THEN t.at ELSE "busy"

\* What waits to be sent without use, up to a nonce.
JunkOnly(out, n) ==
  \A a \in 1..Len(out) : out[a][1] \in Junk /\ (out[a][1] = "Commit" => out[a][2] <= n)

\* A conversation that was closed, or never opened, is empty.
Proper(k) ==
  /\ ~k.open => k = NoConversation
  /\ ~k.context => k.out = <<>> /\ k.events = <<>> /\ k.key = None /\ k.auth = <<"none">>
  /\ k.met <=> k.key # None

\* The conversation of a peer, by its part in the exchange.
ConvOK(v, k) ==
  /\ Proper(k)
  /\ v.role \in Dead \cup {"fresh"} => k.key = None /\ k.events = <<>> /\ JunkOnly(k.out, v.n)
  /\ v.role \in Dead /\ v.at # "idle" => k.out = <<>>
  /\ v.role \in {"offered", "revealed", "asked", "replied"} => k.key = None /\ k.events = <<>> /\ k.out = <<>>
  /\ v.role = "offered" => k.auth = <<"commit", v.n>>
  /\ v.role = "revealed" => k.auth = <<"reveal", v.key[1], v.key[2]>>
  /\ v.role = "asked" => k.auth = <<"none">>
  /\ v.role = "replied" => k.auth = <<"key", v.key[1], v.key[2]>>
  /\ v.role \in Keyed => k.key = v.key
  /\ v.role \in {"shared", "sent"} => k.out = <<>>
  /\ v.role = "held" => k.out = <<<<"Sig", v.key[1], v.key[2]>>>>

\* The state of a peer, as v has it, unless a handler is about to hand a message to Kryptonite.
Sees(p, v) ==
  /\ v.n = nonce[p] /\ v.at = AtOf(thread[p])
  /\ v.caller = (thread[p] # Idle /\ sess[p][thread[p].c].started)
  /\ v.role \in Place(handler[p], sess[p][handler[p]])
  /\ ConvOK(v, conv[p])

\* It is about to do so. If its session has ended meanwhile, or the handler of another call has
\* taken its place, v still has the part that it had: the conversation was closed, and what is made
\* of the message comes to what the session would have made of it before it ended.
Empty(k) == Proper(k) /\ k.key = None /\ k.events = <<>> /\ k.out = <<>> /\ k.auth = <<"none">>

Late(p) == ~(thread[p].c = handler[p] /\ sess[p][handler[p]].running)

Deploys(p, v) ==
  /\ thread[p].at = "deploying" /\ v.n = nonce[p] /\ v.at = "idle" /\ v.caller = FALSE
  /\ v.role \in (Starts \cup Responds) \ Keyed
  /\ IF Late(p) THEN Empty(conv[p])
     ELSE v.role \in Place(handler[p], sess[p][handler[p]]) /\ ConvOK(v, conv[p])

Seems(p, v) == Sees(p, v) \/ Deploys(p, v)

\* What a session was told, and the keys whose fingerprint was accepted.
Told(s, accepted) ==
  /\ s.state = "WaitingForACK" => s.started
  /\ s.started => s.state # "Start"
  /\ s.key # None => s.state = "Routing" /\ s.key \in accepted

\* Earlier sessions have ended or do nothing; the last one has a key only if its conversation
\* has the same, and only one that was accepted.
SessionsOK(p) ==
  /\ handler[p] # 0 /\ active[p] = 0 /\ ~starting[p] => ~sess[p][handler[p]].running
  /\ pending[p] > 0 => handler[p] = 0
  /\ \A c \in Call :
       LET s == sess[p][c]
       IN  /\ Told(s, trusted[p])
           /\ c < handler[p] => ~s.running \/ s = NewSession
           /\ c = handler[p] /\ s.running /\ s.key # None => conv[p].key = s.key

\* What a handler that has something under way can rely on.
WorkOK(p) ==
  thread[p] # Idle =>
    /\ Exchanges(p, thread[p].c)
    /\ thread[p].c # handler[p] => sess[p][handler[p]].state = "Start"
    /\ thread[p].at = "asking" => ~conv[p].open \/ (conv[p].events = <<"secure">> /\ conv[p].key # None)
    /\ thread[p].at = "changed" /\ sess[p][thread[p].c].secure =>
         conv[p].key \in trusted[p] \cup {None} /\ conv[p].events = <<>>
    /\ thread[p].at = "encrypt" =>
         /\ thread[p].key \in trusted[p] /\ conv[p].events = <<>>
         /\ thread[p].c = handler[p] /\ sess[p][handler[p]].running => conv[p].key = thread[p].key

\* What is on the way between a peer and the other one fits the parts of both.
Linked(p) ==
  \E v, w : Seems(p, v) /\ Seems(Other(p), w) /\ Pair(v, w, net[p], net[Other(p)])

\* Together.
KeysInv == SurfaceInv /\ \A p \in Peer : SessionsOK(p) /\ WorkOK(p) /\ Linked(p)

-----------------------------------------------------------------------------
(* What a step changes *)

\* The two directions between the peers.
LEMMA LinkedBoth ==
  ASSUME NEW v, NEW w, NEW x, NEW y, Pair(v, w, x, y)
  PROVE  Pair(w, v, y, x)
BY DEF Pair

\* A peer's step, when the other one sees nothing but its messages.
LEMMA StepTo ==
  ASSUME KeysInv, SurfaceInv', NEW p \in Peer, Aside(Other(p)),
         nonce'[Other(p)] = nonce[Other(p)], trusted'[Other(p)] = trusted[Other(p)],
         SessionsOK(p)', WorkOK(p)',
         NEW w, Seems(Other(p), w), NEW u, Seems(p, u)', Pair(u, w, net'[p], net'[Other(p)])
  PROVE  KeysInv'
<1> DEFINE q == Other(p)
<1>1. q \in Peer /\ Other(q) = p /\ \A r \in Peer : r = p \/ r = q
  BY TwoPeers
<1>2. SessionsOK(q) /\ WorkOK(q) /\ Seems(q, w)
  BY <1>1 DEF KeysInv
<1>3. SessionsOK(q)' /\ WorkOK(q)' /\ Seems(q, w)'
  <2> HIDE DEF q
  <2>1. /\ handler'[q] = handler[q] /\ active'[q] = active[q] /\ starting'[q] = starting[q]
        /\ pending'[q] = pending[q] /\ sess'[q] = sess[q] /\ conv'[q] = conv[q] /\ thread'[q] = thread[q]
        /\ nonce'[q] = nonce[q] /\ trusted'[q] = trusted[q]
    BY DEF Aside, q
  <2>2. SessionsOK(q)'
    BY <1>2, <2>1 DEF SessionsOK
  <2>3. WorkOK(q)'
    BY <1>2, <2>1 DEF WorkOK, Exchanges
  <2>4. Seems(q, w)'
    <3>1. CASE Sees(q, w)
      BY <2>1, <3>1 DEF Seems, Sees
    <3>2. CASE Deploys(q, w)
      BY <2>1, <3>2 DEF Seems, Deploys, Late
    <3> QED BY <1>2, <3>1, <3>2 DEF Seems
  <2> QED BY <2>2, <2>3, <2>4
<1>4. Linked(p)'
  BY <1>3 DEF Linked
<1>5. Linked(q)'
  BY <1>1, <1>3, LinkedBoth DEF Linked
<1> HIDE DEF q
<1> QED BY <1>1, <1>3, <1>4, <1>5 DEF KeysInv

\* The same for a peer that is not about to hand a message to Kryptonite afterwards.
LEMMA StepOf ==
  ASSUME KeysInv, SurfaceInv', NEW p \in Peer, Aside(Other(p)),
         nonce'[Other(p)] = nonce[Other(p)], trusted'[Other(p)] = trusted[Other(p)],
         SessionsOK(p)', WorkOK(p)',
         NEW w, Seems(Other(p), w), NEW u, Sees(p, u)', Pair(u, w, net'[p], net'[Other(p)])
  PROVE  KeysInv'
<1>1. Seems(p, u)'
  BY DEF Seems
<1> QED BY <1>1, StepTo

\* What a step can rely on.
LEMMA Before ==
  ASSUME KeysInv, NEW p \in Peer
  PROVE  /\ SurfaceInv /\ SessionsOK(p) /\ WorkOK(p)
         /\ \E v, w : Seems(p, v) /\ Seems(Other(p), w) /\ Pair(v, w, net[p], net[Other(p)])
BY DEF KeysInv, Linked

\* What a peer sees, unless it is about to hand a message to Kryptonite.
LEMMA Seen ==
  ASSUME NEW p \in Peer, NEW v, Seems(p, v), thread[p].at # "deploying"
  PROVE  Sees(p, v)
BY DEF Seems, Deploys

\* And if it is.
LEMMA NotSeen ==
  ASSUME NEW p \in Peer, NEW v \in View, Seems(p, v), thread[p].at = "deploying"
  PROVE  Deploys(p, v)
BY DEF Seems, Sees, AtOf, View, Idle

\* What one that is not can rely on.
LEMMA BeforeSeen ==
  ASSUME KeysInv, NEW p \in Peer, thread[p].at # "deploying"
  PROVE  \E v, w : Sees(p, v) /\ Seems(Other(p), w) /\ Pair(v, w, net[p], net[Other(p)])
BY Before, Seen

\* Only one session of a peer becomes another.
LEMMA OwnKept ==
  ASSUME SurfaceInv, NEW p \in Peer, SessionsOK(p), NEW c \in Call, c <= handler[p],
         handler'[p] = handler[p], pending'[p] > 0 => handler[p] = 0,
         trusted[p] \subseteq trusted'[p], \A d \in Call : d # c => sess'[p][d] = sess[p][d],
         Told(sess'[p][c], trusted'[p]),
         c # handler[p] => /\ ~sess'[p][c].running /\ sess[p][handler[p]].key = None
                           /\ active'[p] = active[p] /\ starting'[p] = starting[p],
         \/ active'[p] # 0
         \/ ~sess'[p][handler[p]].running
         \/ /\ active'[p] = active[p] /\ starting'[p] = starting[p]
            /\ sess'[p][c].running => sess[p][c].running,
         c = handler[p] /\ sess'[p][c].running /\ sess'[p][c].key # None => conv'[p].key = sess'[p][c].key
  PROVE  SessionsOK(p)'
<1>1. handler[p] \in 0..MaxCalls /\ MaxCalls \in Nat /\ c \in Nat
  BY CallsAre DEF Call
<1>2. handler[p] # 0 => handler[p] \in Call
  BY <1>1 DEF Call
<1>3. handler'[p] # 0 /\ active'[p] = 0 /\ ~starting'[p] => ~sess'[p][handler'[p]].running
  BY <1>2 DEF SessionsOK
<1>4. ASSUME NEW d \in Call
      PROVE  LET s == sess'[p][d]
             IN  /\ Told(s, trusted'[p])
                 /\ d < handler'[p] => ~s.running \/ s = NewSession
                 /\ d = handler'[p] /\ s.running /\ s.key # None => conv'[p].key = s.key
  <2>1. CASE d = c
    BY <1>1, <2>1
  <2>2. CASE d # c
    <3>1. Told(sess[p][d], trusted[p]) => Told(sess[p][d], trusted'[p])
      BY DEF Told
    <3>2. d = handler[p] => sess[p][d].key = None
      BY <2>2
    <3> QED BY <2>2, <3>1, <3>2 DEF SessionsOK
  <2> QED BY <2>1, <2>2
<1> QED BY <1>3, <1>4 DEF SessionsOK

\* A message is taken, and others are sent.
LEMMA Delivered ==
  ASSUME SurfaceInv, NEW p \in Peer, NEW out, Answer(p, out)
  PROVE  net'[p] = Tail(net[p]) /\ net'[Other(p)] = net[Other(p)] \o out
<1>1. Other(p) \in Peer /\ Other(p) # p /\ net \in [Peer -> Seq(Message)]
  BY TwoPeers DEF SurfaceInv, Types
<1> DEFINE q == Other(p)
<1>2. net' = [net EXCEPT ![p] = Tail(net[p]), ![q] = net[q] \o out]
  BY <1>1 DEF Answer
<1> HIDE DEF q
<1> QED BY <1>1, <1>2 DEF q

\* Messages are sent.
LEMMA Posted ==
  ASSUME SurfaceInv, NEW p \in Peer, NEW out, Send(p, out)
  PROVE  net'[p] = net[p] /\ net'[Other(p)] = net[Other(p)] \o out
<1>1. Other(p) \in Peer /\ Other(p) # p /\ net \in [Peer -> Seq(Message)]
  BY TwoPeers DEF SurfaceInv, Types
<1> QED BY <1>1 DEF Send

\* A conversation is closed.
LEMMA ClosedLeaves ==
  ASSUME NEW k \in Conversation, Proper(k)
  PROVE  /\ Closed(k) \in Conversation /\ Proper(Closed(k)) /\ Closed(k).key = None
         /\ Closed(k).events = <<>> /\ Closed(k).out = <<>> /\ Closed(k).auth = <<"none">>
         /\ k.key # None \/ ~k.open => ~Closed(k).open
<1>1. /\ NoConversation.open = FALSE /\ NoConversation.key = None /\ NoConversation.events = <<>>
      /\ NoConversation.out = <<>> /\ NoConversation.met = FALSE /\ NoConversation.auth = <<"none">>
  BY DEF NoConversation
<1>2. Proper(NoConversation)
  BY <1>1 DEF Proper
<1> QED BY <1>1, <1>2, ClosedKeeps DEF Closed, Proper

\* A message made a context.
LEMMA SendingLeaves ==
  ASSUME NEW k \in Conversation, Proper(k)
  PROVE  LET l == Sending(k)
         IN  /\ l \in Conversation /\ Proper(l) /\ l.open /\ l.context /\ l.key = k.key /\ l.met = k.met
             /\ l.events = k.events /\ l.auth = k.auth /\ l.out = k.out
<1> DEFINE l == Sending(k)
<1>1. /\ l \in Conversation /\ l.open /\ l.context /\ l.key = k.key /\ l.met = k.met
      /\ l.events = k.events /\ l.auth = k.auth /\ l.out = k.out
  BY DEF Sending, Conversation, Record
<1> HIDE DEF l
<1>2. Proper(l)
  BY <1>1 DEF Proper
<1> QED BY <1>1, <1>2 DEF l

\* The next event was looked at, or what waited was sent.
LEMMA PolledLeaves ==
  ASSUME NEW k \in Conversation, k.open, Proper(k)
  PROVE  LET l == Polled(k)
         IN  /\ l \in Conversation /\ Proper(l) /\ l.open = k.open /\ l.context = k.context /\ l.key = k.key
             /\ l.met = k.met /\ l.auth = k.auth
             /\ IF k.events = <<>> THEN l.events = <<>> /\ l.out = <<>> /\ PolledOut(k) = Kryptonites(k.out)
                ELSE l.events = Tail(k.events) /\ l.out = k.out /\ PolledOut(k) = <<>>
<1> DEFINE l == Polled(k)
<1>1. k \in Record(Seq({"secure"}))
  BY DEF Conversation
<1>2. /\ l.open = k.open /\ l.context = k.context /\ l.key = k.key
      /\ l.met = k.met /\ l.auth = k.auth
      /\ IF k.events = <<>> THEN l.events = <<>> /\ l.out = <<>> /\ PolledOut(k) = Kryptonites(k.out)
         ELSE l.events = Tail(k.events) /\ l.out = k.out /\ PolledOut(k) = <<>>
  BY <1>1 DEF Polled, PolledOut, Record
<1>3. l \in Conversation
  BY PolledKeeps
<1> HIDE DEF l
<1>4. Proper(l)
  <2>1. ~k.context => l.out = <<>> /\ l.events = <<>> /\ l.key = None /\ l.auth = <<"none">>
    BY <1>2 DEF Proper
  <2> QED BY <1>2, <2>1 DEF Proper
<1> QED BY <1>2, <1>3, <1>4 DEF l

\* An exchange ended, the first one of a conversation.
LEMMA SecureLeaves ==
  ASSUME NEW k \in Conversation, ~k.met, k.events = <<>>, NEW K \in Key, NEW r \in GoesSecure(k, K)
  PROVE  /\ r.key = K /\ r.met /\ r.open = k.open /\ r.context = k.context /\ r.out = k.out
         /\ r.events \in {<<"secure">>, <<"confirm", "secure">>}
<1> DEFINE enc == [k EXCEPT !.key = K, !.auth = <<"none">>, !.met = TRUE]
<1>1. K \in Key \cup {None} /\ <<"none">> \in Auth /\ k \in Record(Seq({"secure"}))
  BY DEF Auth, Conversation
<1> HIDE DEF Key, Auth
<1>2. /\ enc \in Record(Seq({"secure"})) /\ enc.key = K /\ enc.met = TRUE /\ enc.events = <<>>
      /\ enc.open = k.open /\ enc.context = k.context /\ enc.out = k.out
  BY <1>1 DEF Record
<1>3. \/ r = [enc EXCEPT !.events = Append(enc.events, "secure")]
      \/ r = [enc EXCEPT !.events = enc.events \o <<"confirm", "secure">>]
  BY DEF GoesSecure
<1> HIDE DEF enc
<1>4. Append(<<>>, "secure") = <<"secure">> /\ <<>> \o <<"confirm", "secure">> = <<"confirm", "secure">>
  OBVIOUS
<1>5. \/ r = [enc EXCEPT !.events = <<"secure">>]
      \/ r = [enc EXCEPT !.events = <<"confirm", "secure">>]
  BY <1>2, <1>3, <1>4
<1> QED BY <1>2, <1>5 DEF Record

\* A session ends.
LEMMA TornDownLeaves ==
  ASSUME NEW s \in Session, NEW k \in Conversation, Proper(k)
  PROVE  LET r == TornDown(s, k)
         IN  /\ r.sess \in Session /\ ~r.sess.running /\ r.sess.state = s.state /\ r.sess.started = s.started
             /\ r.sess.key = s.key /\ r.sess.secure = s.secure
             /\ r.conv = Closed(k) /\ r.conv \in Conversation /\ Proper(r.conv) /\ r.conv.key = None
             /\ r.conv.events = <<>> /\ r.conv.out = <<>> /\ r.conv.auth = <<"none">> /\ r.out = <<>>
             /\ \A T : Told(s, T) => Told(r.sess, T)
<1> DEFINE t == [s EXCEPT !.running = FALSE]
<1>1. /\ t \in Session /\ ~t.running /\ t.state = s.state /\ t.started = s.started
      /\ t.key = s.key /\ t.secure = s.secure
  BY DEF Session
<1>2. TornDown(s, k).sess = t /\ TornDown(s, k).conv = Closed(k) /\ TornDown(s, k).out = <<>>
  BY DEF TornDown, Result
<1> HIDE DEF t
<1> QED BY <1>1, <1>2, ClosedLeaves DEF Told

\* Nothing that has to do with keys happens.
LEMMA QuietKeys ==
  ASSUME KeysInv, SurfaceInv',
         UNCHANGED <<handler, active, starting, pending, sess, conv, nonce, trusted, thread, net>>
  PROVE  KeysInv'
<1> SUFFICES ASSUME NEW p \in Peer PROVE SessionsOK(p)' /\ WorkOK(p)' /\ Linked(p)'
  BY DEF KeysInv
<1>1. SessionsOK(p) /\ WorkOK(p) /\ Linked(p)
  BY DEF KeysInv
<1>2. SessionsOK(p)' /\ WorkOK(p)'
  BY <1>1 DEF SessionsOK, WorkOK, Exchanges
<1>3. PICK v, w : Seems(p, v) /\ Seems(Other(p), w) /\ Pair(v, w, net[p], net[Other(p)])
  BY <1>1 DEF Linked
<1>4. ASSUME NEW r \in Peer, NEW z, Seems(r, z) PROVE Seems(r, z)'
  <2>1. CASE Sees(r, z)
    BY <2>1 DEF Seems, Sees
  <2>2. CASE Deploys(r, z)
    BY <2>2 DEF Seems, Deploys, Late
  <2> QED BY <1>4, <2>1, <2>2 DEF Seems
<1>5. Seems(p, v)' /\ Seems(Other(p), w)' /\ Pair(v, w, net'[p], net'[Other(p)])
  BY <1>3, <1>4, TwoPeers
<1> QED BY <1>2, <1>5 DEF Linked

\* A peer whose last session has ended.
LEMMA RestSees ==
  ASSUME NEW p \in Peer, handler'[p] # 0, ~sess'[p][handler'[p]].running,
         Proper(conv'[p]), conv'[p].key = None, conv'[p].events = <<>>, conv'[p].out = <<>>,
         NEW u, u.role = "rest", u.n = nonce'[p], u.at = AtOf(thread'[p]),
         u.caller = (thread'[p] # Idle /\ sess'[p][thread'[p].c].started)
  PROVE  Sees(p, u)'
<1>1. Place(handler'[p], sess'[p][handler'[p]]) = {"rest"}
  BY DEF Place, DeploysKryptonite
<1>2. JunkOnly(<<>>, u.n)
  BY DEF JunkOnly
<1>3. ConvOK(u, conv'[p])
  BY <1>2 DEF ConvOK, Dead, Keyed
<1> QED BY <1>1, <1>3 DEF Sees

\* The end of a call, which may come while a handler works.
LEMMA EndCallKeys ==
  ASSUME KeysInv, SurfaceInv', NEW p \in Peer, EndCall(p)
  PROVE  KeysInv'
<1> DEFINE q == Other(p)
           c == handler[p]
           r == TornDown(sess[p][c], conv[p])
<1>1. PICK v, w : Seems(p, v) /\ Seems(q, w) /\ Pair(v, w, net[p], net[q])
  BY Before
<1>2. SurfaceInv /\ Types /\ SessionsOK(p) /\ WorkOK(p)
  BY Before DEF SurfaceInv
<1>3. /\ active[p] # 0 /\ UNCHANGED <<handler, starting, pending, nonce, trusted, thread, net>>
      /\ over' = [over EXCEPT ![p] = rung[p]] /\ active' = [active EXCEPT ![p] = 0] /\ rung' = rung
      /\ Becomes(p, active[p], TornDown(sess[p][active[p]], conv[p]))
  BY DEF EndCall, Ends, CallEvent
<1>4. c # 0 /\ c = active[p] /\ c \in Call /\ c <= c /\ sess[p][c] \in Session /\ conv[p] \in Conversation
  BY Zenon, <1>2, <1>3, CallsAre, LastSession
<1>5. Proper(conv[p]) /\ Told(sess[p][c], trusted[p])
  BY <1>1, <1>2, <1>4 DEF Seems, Sees, Deploys, ConvOK, Empty, SessionsOK
<1>6. Becomes(p, c, r)
  BY <1>3, <1>4
<1>7. /\ ~r.sess.running /\ r.sess.state = sess[p][c].state /\ r.sess.started = sess[p][c].started
      /\ r.sess.secure = sess[p][c].secure /\ Told(r.sess, trusted[p])
      /\ Proper(r.conv) /\ r.conv.key = None /\ r.conv.events = <<>> /\ r.conv.out = <<>>
      /\ r.conv.auth = <<"none">>
      /\ r.sess \in Session /\ r.conv \in Conversation
      /\ conv[p].key # None \/ ~conv[p].open => ~r.conv.open
  BY <1>4, <1>5, TornDownLeaves, ClosedLeaves
<1> HIDE DEF r, c
<1>8. /\ sess'[p][c] = r.sess /\ conv'[p] = r.conv
      /\ \A d \in Call : d # c => sess'[p][d] = sess[p][d]
      /\ \A x \in Peer : x # p => sess'[x] = sess[x] /\ conv'[x] = conv[x]
  BY <1>2, <1>4, <1>6, <1>7, Became
<1>9. Aside(q) /\ nonce'[q] = nonce[q] /\ trusted'[q] = trusted[q]
  BY <1>2, <1>3, <1>8, TwoPeers DEF Aside, Types
<1>10. \A d \in Call : /\ sess'[p][d].state = sess[p][d].state /\ sess'[p][d].started = sess[p][d].started
                        /\ sess'[p][d].secure = sess[p][d].secure
  BY <1>7, <1>8
<1>11. SessionsOK(p)'
  BY <1>2, <1>3, <1>4, <1>7, <1>8, OwnKept DEF SessionsOK, c
<1>12. thread[p] # Idle => thread[p].c \in Call
  BY <1>2, CallsAre, ThreadIs
<1>13. WorkOK(p)'
  <2>1. thread[p] # Idle => /\ Exchanges(p, thread[p].c)'
                            /\ thread[p].c # c => sess'[p][c].state = "Start"
    BY <1>2, <1>3, <1>4, <1>10, <1>12 DEF WorkOK, Exchanges, c
  <2>2. sess'[p][c].running = FALSE /\ handler'[p] = c /\ thread' = thread /\ trusted' = trusted
    BY <1>3, <1>7, <1>8 DEF Session, c
  <2> QED BY <1>2, <1>7, <1>8, <1>10, <1>12, <2>1, <2>2 DEF WorkOK
<1>14. CASE thread[p].at # "deploying"
  <2> DEFINE u == [v EXCEPT !.role = "rest", !.key = None]
  <2>1. Sees(p, v)
    BY <1>1, <1>14, Seen
  <2>2. u.role = "rest" /\ u.n = v.n /\ u.at = v.at /\ u.caller = v.caller
    BY <1>1 DEF Pair, View
  <2>3. Pair(u, w, net[p], net[q])
    <3>1. v.role # "none"
      BY <1>4, <2>1 DEF Sees, Place, Starts, Responds, c
    <3> QED BY Zenon, <1>1, <3>1, AtEnd
  <2> HIDE DEF u
  <2>4. Sees(p, u)'
    <3>1. u.caller = (thread'[p] # Idle /\ sess'[p][thread'[p].c].started)
      BY <1>3, <1>10, <1>12, <2>1, <2>2 DEF Sees
    <3>2. u.n = nonce'[p] /\ u.at = AtOf(thread'[p])
      BY <1>3, <2>1, <2>2 DEF Sees
    <3> QED BY <1>3, <1>4, <1>7, <1>8, <2>2, <3>1, <3>2, RestSees DEF c
  <2> QED BY <1>1, <1>3, <1>9, <1>11, <1>13, <2>3, <2>4, StepOf
<1>15. CASE thread[p].at = "deploying"
  <2>1. Deploys(p, v)
    BY <1>1, <1>15, NotSeen DEF Pair
  <2>2. Late(p)' /\ Empty(conv'[p])
    BY <1>3, <1>7, <1>8 DEF Late, Empty, c
  <2>3. Seems(p, v)'
    BY <1>3, <2>1, <2>2 DEF Seems, Deploys
  <2> QED BY <1>1, <1>3, <1>9, <1>11, <1>13, <2>3, StepTo
<1> QED BY <1>14, <1>15

-----------------------------------------------------------------------------
(* Calls begin *)

\* A SYN that comes before the call is kept.
LEMMA KeepSynKeys ==
  ASSUME KeysInv, SurfaceInv', NEW p \in Peer, KeepSyn(p)
  PROVE  KeysInv'
<1> DEFINE q == Other(p)
<1>0. thread[p].at # "deploying"
  BY DEF KeepSyn, Incoming, Idle
<1>1. PICK v, w : Sees(p, v) /\ Seems(q, w) /\ Pair(v, w, net[p], net[q])
  BY <1>0, BeforeSeen
<1>2. SurfaceInv /\ Types /\ SessionsOK(p) /\ net[q] \in Seq(Message)
  BY Before, TwoPeers, CallsAre DEF SurfaceInv
<1>3. /\ thread[p] = Idle /\ net[p] # <<>> /\ handler[p] = 0 /\ pending' = [pending EXCEPT ![p] = @ + 1]
      /\ UNCHANGED <<rung, over, handler, active, starting, sess, conv, nonce, trusted, thread>>
      /\ Answer(p, <<>>)
  BY DEF KeepSyn, Incoming, Waits
<1>4. Aside(q) /\ nonce'[q] = nonce[q] /\ trusted'[q] = trusted[q]
  BY <1>2, <1>3, TwoPeers DEF Aside, Types
<1>5. SessionsOK(p)' /\ WorkOK(p)'
  BY <1>2, <1>3 DEF SessionsOK, WorkOK
<1>6. net'[p] = Tail(net[p]) /\ net'[q] = net[q]
  <2>1. net'[p] = Tail(net[p]) /\ net'[q] = net[q] \o <<>>
    BY <1>2, <1>3, Delivered
  <2> QED BY <1>2, <2>1
<1> DEFINE u == [v EXCEPT !.n = v.n]
<1>7. Pair(u, w, net'[p], net'[q])
  <2>1. v.role \in Dead /\ v.at = "idle"
    BY <1>1, <1>3 DEF Sees, Place, AtOf, Dead
  <2> QED BY <1>1, <1>3, <1>6, <2>1, AtSkip
<1>8. u = v
  BY <1>1 DEF Pair, View
<1>9. Sees(p, u)'
  BY <1>1, <1>3, <1>8 DEF Sees
<1> HIDE DEF q, u
<1> QED BY <1>1, <1>4, <1>5, <1>7, <1>9, StepOf DEF q

\* What a new session makes of the SYN messages that were kept for it: it answers the first,
\* and ends over the second.
LEMMA NewSessionAnswers ==
  ASSUME NEW k \in Conversation, Proper(k), NEW n \in Nat
  PROVE  LET r == KeptSyns(n, k)
         IN  /\ r.sess \in Session /\ r.conv \in Conversation /\ r.out = <<Surface("Ack")>>
             /\ r.sess.state = "ExchangingKeys" /\ ~r.sess.started /\ r.sess.key = None
             /\ IF n = 1 THEN r.sess.running /\ r.conv = k
                ELSE /\ ~r.sess.running /\ Proper(r.conv) /\ r.conv.key = None
                     /\ r.conv.events = <<>> /\ r.conv.out = <<>>
<1> DEFINE s == [NewSession EXCEPT !.state = "ExchangingKeys"]
           a == SynReceived(NewSession, k)
           b == TornDown(s, k)
<1>1. s \in Session /\ s.state = "ExchangingKeys" /\ s.running /\ ~s.started /\ s.key = None
  BY DEF NewSession, Session
<1>2. a.sess = s /\ a.conv = k /\ a.out = <<Surface("Ack")>>
  BY DEF SynReceived, Confirmed, Result, NewSession
<1>3. /\ b.sess \in Session /\ ~b.sess.running /\ b.sess.state = s.state /\ b.sess.started = s.started
      /\ b.sess.key = s.key /\ b.conv \in Conversation /\ Proper(b.conv) /\ b.conv.key = None
      /\ b.conv.events = <<>> /\ b.conv.out = <<>>
  BY <1>1, TornDownLeaves
<1>4. b = [sess |-> b.sess, conv |-> b.conv, out |-> b.out]
  BY DEF TornDown, Result
<1> HIDE DEF s
<1>5. SynReceived(a.sess, a.conv) = b
  BY <1>1, <1>2 DEF SynReceived
<1> HIDE DEF a, b
<1>6. CASE n = 1
  BY <1>1, <1>2, <1>6 DEF KeptSyns, a
<1>7. CASE n # 1
  <2>1. KeptSyns(n, k) = [b EXCEPT !.out = a.out]
    BY <1>5, <1>7 DEF KeptSyns, a
  <2>2. KeptSyns(n, k) = [sess |-> b.sess, conv |-> b.conv, out |-> a.out]
    BY <1>4, <2>1
  <2> QED BY <1>1, <1>2, <1>3, <1>7, <2>2
<1> QED BY <1>6, <1>7

\* A call begins: the session that Surface messages went to has ended.
LEMMA NewCallKeys ==
  ASSUME KeysInv, SurfaceInv', NEW p \in Peer, NewCall(p)
  PROVE  KeysInv'
<1> DEFINE q == Other(p)
           c == rung[p] + 1
<1>1. PICK v, w : Seems(p, v) /\ Seems(q, w) /\ Pair(v, w, net[p], net[q])
  BY Before
<1>2. SurfaceInv /\ Types /\ SessionsOK(p) /\ WorkOK(p) /\ q \in Peer /\ q # p
  BY Before, TwoPeers DEF SurfaceInv
<1>3. /\ active[p] = 0 /\ ~starting[p] /\ rung[p] < dialled
      /\ rung' = [rung EXCEPT ![p] = c] /\ UNCHANGED <<over, nonce, trusted, thread>>
      /\ handler' = [handler EXCEPT ![p] = c] /\ starting' = [starting EXCEPT ![p] = Caller[c] = p]
      /\ active' = IF Caller[c] = p THEN active ELSE [active EXCEPT ![p] = c]
      /\ pending' = [pending EXCEPT ![p] = 0]
  BY <1>2 DEF NewCall, Register, Registers, Rings, CallEvent, Types
<1>4. c \in Call /\ handler[p] < c /\ c # 0 /\ handler[p] \in 0..MaxCalls /\ MaxCalls \in Nat /\ c \in Nat
  BY <1>2, <1>3, CallsAre DEF Call
<1> HIDE DEF c
<1>5. /\ handler'[p] = c /\ pending'[p] = 0 /\ (active'[p] # 0 \/ starting'[p])
      /\ handler'[q] = handler[q] /\ pending'[q] = pending[q] /\ rung'[q] = rung[q]
      /\ active'[q] = active[q] /\ starting'[q] = starting[q]
  <2> HIDE DEF q
  <2> QED BY <1>2, <1>3, <1>4 DEF Types
<1>6. \A d \in Call : d < c => ~sess[p][d].running \/ sess[p][d] = NewSession
  <2> SUFFICES ASSUME NEW d \in Call, d < c PROVE ~sess[p][d].running \/ sess[p][d] = NewSession
    OBVIOUS
  <2>1. d \in Nat /\ d # 0
    BY CallsAssumption DEF Call
  <2>2. CASE d < handler[p]
    BY <1>2, <2>2 DEF SessionsOK
  <2>3. CASE d = handler[p]
    BY <1>2, <1>3, <2>1, <2>3 DEF SessionsOK
  <2>4. CASE d > handler[p]
    BY <1>2, <2>4 DEF SurfaceInv, PeerOK, HandlerOK, SessionOK
  <2> QED BY <1>4, <2>1, <2>2, <2>3, <2>4
<1>7. sess[p][c] = NewSession
  <2>1. c > handler[p]
    BY <1>4
  <2> QED BY <1>2, <1>4, <2>1 DEF SurfaceInv, PeerOK, HandlerOK, SessionOK
<1>8. thread[p] # Idle => handler[p] # 0 /\ thread[p].c <= handler[p] /\ thread[p].c \in Call /\ thread[p].c # c
  <2> SUFFICES ASSUME thread[p] # Idle
               PROVE  handler[p] # 0 /\ thread[p].c <= handler[p] /\ thread[p].c \in Call /\ thread[p].c # c
    OBVIOUS
  <2>1. thread[p].c <= handler[p] /\ thread[p].c \in Call
    BY <1>2, CallsAre, ThreadIs DEF SurfaceInv, PeerOK, HandlerOK
  <2>2. thread[p].c \in Nat /\ thread[p].c # 0
    BY <2>1, CallsAssumption DEF Call
  <2> QED BY <1>4, <2>1, <2>2
<1>9. CASE pending[p] = 0
  <2>1. UNCHANGED <<sess, conv, net>>
    BY <1>9 DEF NewCall
  <2>2. Aside(q) /\ nonce'[q] = nonce[q] /\ trusted'[q] = trusted[q]
    BY <1>3, <1>5, <2>1 DEF Aside
  <2>3. NewSession.key = None /\ NewSession.state = "Start" /\ NewSession.running /\ ~NewSession.started
    BY DEF NewSession
  <2>4. SessionsOK(p)'
    <3>1. ASSUME NEW d \in Call
          PROVE  /\ Told(sess[p][d], trusted[p])
                 /\ d < c => ~sess[p][d].running \/ sess[p][d] = NewSession
                 /\ d = c /\ sess[p][d].running /\ sess[p][d].key # None => conv[p].key = sess[p][d].key
      BY <1>2, <1>6, <1>7, <2>3 DEF SessionsOK
    <3> QED BY <1>3, <1>5, <2>1, <3>1 DEF SessionsOK
  <2>5. WorkOK(p)'
    BY <1>2, <1>3, <1>5, <1>7, <1>8, <2>1, <2>3 DEF WorkOK, Exchanges
  <2>6. CASE thread[p].at # "deploying"
    <3> DEFINE u == [v EXCEPT !.role = "rest"]
    <3>1. Sees(p, v)
      BY <1>1, <2>6, Seen
    <3>2. u.role = "rest" /\ u.key = v.key /\ u.n = v.n /\ u.at = v.at /\ u.caller = v.caller
      BY <1>1 DEF Pair, View
    <3>3. v.role \in {"none", "rest"}
      <4>1. CASE handler[p] = 0
        BY <3>1, <4>1 DEF Sees, Place
      <4>2. CASE handler[p] # 0
        <5>1. ~sess[p][handler[p]].running
          BY <1>2, <1>3, <4>2 DEF SessionsOK
        <5> QED BY <3>1, <4>2, <5>1 DEF Sees, Place, DeploysKryptonite
      <4> QED BY <4>1, <4>2
    <3>4. Pair(u, w, net[p], net[q])
      <4>1. CASE v.role = "none"
        BY <1>1, <4>1, AtBegin
      <4>2. CASE v.role = "rest"
        <5>1. u = v
          BY <1>1, <4>2 DEF Pair, View
        <5> QED BY <1>1, <5>1
      <4> QED BY <3>3, <4>1, <4>2
    <3> HIDE DEF u
    <3>5. Sees(p, u)'
      <4>1. Place(c, NewSession) = {"rest"}
        BY <1>4, <2>3 DEF Place, DeploysKryptonite
      <4>2. ConvOK(u, conv[p])
        BY <3>1, <3>2, <3>3 DEF Sees, ConvOK, Dead, Keyed
      <4> QED BY <1>3, <1>5, <1>7, <2>1, <3>1, <3>2, <4>1, <4>2 DEF Sees
    <3> HIDE DEF q
    <3> QED BY <1>1, <2>1, <2>2, <2>4, <2>5, <3>4, <3>5, StepOf DEF q
  <2>7. CASE thread[p].at = "deploying"
    <3>1. Deploys(p, v)
      BY <1>1, <2>7, NotSeen DEF Pair
    <3>2. thread[p] # Idle
      BY <2>7 DEF Idle
    <3>3. Late(p) /\ Late(p)'
      <4>1. ~sess[p][handler[p]].running
        BY <1>2, <1>3, <1>8, <3>2 DEF SessionsOK
      <4> QED BY <1>3, <1>5, <1>8, <3>2, <4>1 DEF Late
    <3>4. Seems(p, v)'
      BY <1>3, <2>1, <3>1, <3>3 DEF Seems, Deploys
    <3> HIDE DEF q
    <3> QED BY <1>1, <2>1, <2>2, <2>4, <2>5, <3>4, StepTo DEF q
  <2> QED BY <2>6, <2>7
<1>10. CASE pending[p] # 0
  <2> DEFINE r == KeptSyns(pending[p], conv[p])
  <2>1. handler[p] = 0 /\ pending[p] \in Nat /\ conv[p] \in Conversation
    <3>1. pending[p] \in Nat /\ conv[p] \in Conversation
      BY <1>2, CallsAre
    <3> QED BY <1>2, <1>10, <3>1 DEF SessionsOK
  <2>2. thread[p] = Idle
    BY <1>8, <2>1
  <2>3. Becomes(p, c, r) /\ Send(p, r.out)
    <3>1. handler'[p] = c
      BY <1>5
    <3> QED BY <1>10, <3>1 DEF NewCall
  <2>4. Sees(p, v)
    BY <1>1, <2>2, Seen DEF Idle
  <2>5. v.role = "none" /\ v.at = "idle" /\ v.caller = FALSE /\ v.n = nonce[p] /\ ConvOK(v, conv[p])
    BY <2>1, <2>2, <2>4 DEF Sees, Place, AtOf
  <2>6. /\ r.sess \in Session /\ r.conv \in Conversation /\ r.out = <<Surface("Ack")>>
        /\ r.sess.state = "ExchangingKeys" /\ ~r.sess.started /\ r.sess.key = None
        /\ IF pending[p] = 1 THEN r.sess.running /\ r.conv = conv[p]
           ELSE /\ ~r.sess.running /\ Proper(r.conv) /\ r.conv.key = None
                /\ r.conv.events = <<>> /\ r.conv.out = <<>>
    BY <2>1, <2>5, NewSessionAnswers DEF ConvOK
  <2> HIDE DEF r
  <2>7. /\ sess'[p][c] = r.sess /\ conv'[p] = r.conv
        /\ \A d \in Call : d # c => sess'[p][d] = sess[p][d]
        /\ \A x \in Peer : x # p => sess'[x] = sess[x] /\ conv'[x] = conv[x]
    <3>1. r.sess \in Session /\ r.conv \in Conversation /\ Becomes(p, c, r) /\ Types
      BY <1>2, <2>3, <2>6
    <3> QED BY <1>4, <3>1, Became
  <2>8. net'[p] = net[p] /\ net'[q] = net[q] \o <<Surface("Ack")>>
    BY <1>2, <2>3, <2>6, Posted
  <2>9. Aside(q) /\ nonce'[q] = nonce[q] /\ trusted'[q] = trusted[q]
    BY <1>2, <1>3, <1>5, <2>7 DEF Aside
  <2>10. SessionsOK(p)'
    <3>1. ASSUME NEW d \in Call
          PROVE  /\ Told(sess'[p][d], trusted'[p])
                 /\ d < c => ~sess'[p][d].running \/ sess'[p][d] = NewSession
                 /\ d = c /\ sess'[p][d].running /\ sess'[p][d].key # None => conv'[p].key = sess'[p][d].key
      <4>1. CASE d = c
        BY <1>4, <2>6, <2>7, <4>1 DEF Told
      <4>2. CASE d # c
        BY <1>2, <1>3, <1>6, <2>7, <4>2 DEF SessionsOK
      <4> QED BY <4>1, <4>2
    <3> QED BY <1>5, <3>1 DEF SessionsOK
  <2>11. WorkOK(p)'
    BY <1>3, <2>2 DEF WorkOK
  <2>12. w.role # "none"
    <3>1. SynsOK(p) /\ handler[q] \in Nat /\ Syns(net[p]) \in Nat
      BY <1>2, CallsAre, SynsCounted DEF SurfaceInv, PeerOK
    <3>2. pending[p] + Syns(net[p]) + (IF starting[q] THEN 1 ELSE 0) <= handler[q]
      BY <3>1 DEF SynsOK
    <3>3. handler[q] # 0
      BY <1>10, <2>1, <3>1, <3>2
    <3> QED BY <1>1, <3>3 DEF Seems, Sees, Deploys, Place, Starts, Responds
  <2> DEFINE u == [v EXCEPT !.role = "fresh"]
             e == [u EXCEPT !.role = "rest", !.key = None]
  <2>13. /\ u.role = "fresh" /\ u.key = v.key /\ u.n = v.n /\ u.at = v.at /\ u.caller = v.caller
         /\ e.role = "rest" /\ e.n = v.n /\ e.at = v.at /\ e.caller = v.caller
    BY <1>1 DEF Pair, View
  <2>14. Pair(u, w, net'[p], net'[q])
    BY <1>1, <2>5, <2>8, <2>12, AtKeptSyn
  <2>15. Pair(e, w, net'[p], net'[q])
    BY Zenon, <2>13, <2>14, AtEnd
  <2> HIDE DEF u, e, q
  <2>16. CASE pending[p] = 1
    <3>1. Sees(p, u)'
      <4>1. Place(c, r.sess) = Responds
        BY <1>4, <2>6, <2>16 DEF Place, DeploysKryptonite
      <4>2. ConvOK(u, conv[p])
        BY <2>5, <2>13 DEF ConvOK, Dead, Keyed
      <4>3. u.role \in Responds
        BY <2>13 DEF Responds
      <4>4. u.at = AtOf(thread[p]) /\ u.caller = (thread[p] # Idle /\ sess'[p][thread[p].c].started)
        BY <2>2, <2>5, <2>13 DEF AtOf
      <4> QED BY <1>3, <1>5, <2>5, <2>6, <2>7, <2>13, <2>16, <4>1, <4>2, <4>3, <4>4 DEF Sees
    <3> QED BY <1>1, <2>9, <2>10, <2>11, <2>14, <3>1, StepOf DEF q
  <2>17. CASE pending[p] # 1
    <3>1. Sees(p, e)'
      <4>1. e.at = AtOf(thread'[p]) /\ e.caller = (thread'[p] # Idle /\ sess'[p][thread'[p].c].started)
        BY <1>3, <2>2, <2>5, <2>13 DEF AtOf
      <4> QED BY <1>3, <1>4, <1>5, <2>5, <2>6, <2>7, <2>13, <2>17, <4>1, RestSees
    <3> QED BY <1>1, <2>9, <2>10, <2>11, <2>15, <3>1, StepOf DEF q
  <2> QED BY <2>16, <2>17
<1> QED BY <1>9, <1>10

\* The one who called starts the protocol with a SYN, or ends its session.
LEMMA StartProtocolKeys ==
  ASSUME KeysInv, SurfaceInv', NEW p \in Peer, StartProtocol(p)
  PROVE  KeysInv'
<1> DEFINE q == Other(p)
           c == handler[p]
           s == [sess[p][c] EXCEPT !.started = TRUE]
<1>0. thread[p].at # "deploying"
  BY DEF StartProtocol, Idle
<1>1. PICK v, w : Sees(p, v) /\ Seems(q, w) /\ Pair(v, w, net[p], net[q])
  BY <1>0, BeforeSeen
<1>2. SurfaceInv /\ Types /\ SessionsOK(p) /\ q \in Peer /\ q # p
  BY Before, TwoPeers DEF SurfaceInv
<1>3. /\ starting[p] /\ thread[p] = Idle
      /\ UNCHANGED <<rung, over, handler, pending, nonce, trusted, thread>>
      /\ starting' = [starting EXCEPT ![p] = FALSE] /\ active' = [active EXCEPT ![p] = c]
      /\ IF s.state = "Start"
         THEN /\ sess' = [sess EXCEPT ![p][c] = [s EXCEPT !.state = "WaitingForACK"]]
              /\ Send(p, <<Surface("Syn")>>) /\ conv' = conv
         ELSE Becomes(p, c, TornDown(s, conv[p])) /\ net' = net
  BY DEF StartProtocol
<1>4. c # 0 /\ c \in Call /\ c <= c /\ sess[p][c] \in Session /\ conv[p] \in Conversation
  <2>1. c # 0
    BY <1>2, <1>3 DEF SurfaceInv, PeerOK, CallsOK
  <2> QED BY <1>2, <2>1, LastSession, CallsAre
<1>5. Proper(conv[p]) /\ Told(sess[p][c], trusted[p])
  BY <1>1, <1>2, <1>4 DEF Sees, ConvOK, SessionsOK
<1>6. /\ s \in Session /\ s.started = TRUE /\ s.state = sess[p][c].state /\ s.key = sess[p][c].key
      /\ s.running = sess[p][c].running
  BY <1>4 DEF Session
<1> HIDE DEF c, s
<1>7. /\ active'[p] = c /\ handler'[p] = c /\ pending'[p] = pending[p] /\ trusted'[p] = trusted[p]
      /\ active'[q] = active[q] /\ starting'[q] = starting[q]
  <2> HIDE DEF q
  <2> QED BY <1>2, <1>3, <1>4 DEF Types, c
<1>8. WorkOK(p)'
  BY <1>3 DEF WorkOK
<1>9. v.at = "idle" /\ v.role # "none" /\ v.caller = FALSE
  BY <1>1, <1>3, <1>4 DEF Sees, AtOf, Place, Starts, Responds, c
<1>10. pending'[p] > 0 => handler[p] = 0
  BY <1>2, <1>7 DEF SessionsOK
<1>11. CASE s.state = "Start"
  <2> DEFINE t == [s EXCEPT !.state = "WaitingForACK"]
  <2>1. /\ t \in Session /\ t.state = "WaitingForACK" /\ t.started /\ t.key = s.key /\ t.running = s.running
    BY <1>6 DEF Session
  <2> HIDE DEF t
  <2>2. sess' = [sess EXCEPT ![p][c] = t] /\ Send(p, <<Surface("Syn")>>) /\ conv' = conv
    BY <1>3, <1>11 DEF t
  <2>3. /\ sess'[p][c] = t /\ \A d \in Call : d # c => sess'[p][d] = sess[p][d]
        /\ sess'[q] = sess[q]
    <3> HIDE DEF q
    <3> QED BY <1>2, <1>4, <2>2 DEF Types
  <2>4. s.key = None /\ sess[p][c].started = FALSE
    BY <1>4, <1>5, <1>6, <1>11 DEF Told, Session
  <2>5. SessionsOK(p)'
    <3>1. Told(sess'[p][c], trusted'[p])
      BY <2>1, <2>3, <2>4 DEF Told
    <3>2. c = handler[p] /\ sess'[p][c].key = None /\ active'[p] # 0
      BY <1>4, <1>7, <2>1, <2>3, <2>4 DEF c
    <3> QED BY <1>2, <1>4, <1>7, <1>10, <2>3, <3>1, <3>2, OwnKept
  <2>6. net'[p] = net[p] /\ net'[q] = net[q] \o <<Surface("Syn")>>
    BY <1>2, <2>2, Posted
  <2>0. PICK role \in {"rest", "waits"} : role = IF s.running THEN "waits" ELSE "rest"
    OBVIOUS
  <2> DEFINE u == [v EXCEPT !.role = role]
  <2>7. u.role = role /\ u.key = v.key /\ u.n = v.n /\ u.at = v.at /\ u.caller = v.caller
    BY <1>1 DEF Pair, View
  <2>8. v.role = "rest"
    BY <1>1, <1>4, <1>6, <1>9, <1>11, <2>4 DEF Sees, Place, DeploysKryptonite, c
  <2>9. Pair(u, w, net'[p], net'[q])
    <3>1. \A x \in {"rest", "waits"} :
            Pair([v EXCEPT !.role = x], w, net[p], net[q] \o <<Surface("Syn")>>)
      BY <1>1, <1>9, <2>8, AtCall
    <3> QED BY <2>0, <2>6, <3>1
  <2>10. Sees(p, u)'
    <3>1. Place(c, t) = {role}
      BY <1>4, <2>0, <2>1 DEF Place, DeploysKryptonite
    <3> HIDE DEF u
    <3>2. ConvOK(u, conv[p])
      BY <1>1, <2>7, <2>8 DEF Sees, ConvOK, Dead, Keyed
    <3>3. v.n = nonce[p] /\ v.at = AtOf(thread[p])
      BY <1>1 DEF Sees
    <3> QED BY <1>3, <1>7, <1>9, <2>2, <2>3, <2>7, <3>1, <3>2, <3>3 DEF Sees
  <2>11. Aside(q) /\ nonce'[q] = nonce[q] /\ trusted'[q] = trusted[q]
    BY <1>3, <1>7, <2>2, <2>3 DEF Aside
  <2> HIDE DEF q, u
  <2> QED BY <1>1, <1>8, <2>5, <2>9, <2>10, <2>11, StepOf DEF q
<1>12. CASE s.state # "Start"
  <2> DEFINE r == TornDown(s, conv[p])
  <2>1. Becomes(p, c, r) /\ net' = net
    BY <1>3, <1>12
  <2>2. /\ ~r.sess.running /\ r.sess.state = s.state /\ r.sess.started = s.started /\ r.sess.key = s.key
        /\ Proper(r.conv) /\ r.conv.key = None /\ r.conv.events = <<>> /\ r.conv.out = <<>>
        /\ r.sess \in Session /\ r.conv \in Conversation
    BY <1>4, <1>5, <1>6, TornDownLeaves
  <2> HIDE DEF r
  <2>3. /\ sess'[p][c] = r.sess /\ conv'[p] = r.conv
        /\ \A d \in Call : d # c => sess'[p][d] = sess[p][d]
        /\ \A x \in Peer : x # p => sess'[x] = sess[x] /\ conv'[x] = conv[x]
    BY <1>2, <1>4, <2>1, <2>2, Became
  <2>4. SessionsOK(p)'
    <3>1. Told(sess'[p][c], trusted'[p])
      BY <1>5, <1>6, <1>7, <1>12, <2>2, <2>3 DEF Told
    <3>2. c = handler[p] /\ ~sess'[p][c].running /\ active'[p] # 0
      BY <1>4, <1>7, <2>2, <2>3 DEF c
    <3> QED BY <1>2, <1>4, <1>7, <1>10, <2>3, <3>1, <3>2, OwnKept
  <2> DEFINE u == [v EXCEPT !.role = "rest", !.key = None]
  <2>5. u.role = "rest" /\ u.n = v.n /\ u.at = v.at /\ u.caller = v.caller
    BY <1>1 DEF Pair, View
  <2>6. Pair(u, w, net'[p], net'[q])
    BY Zenon, <1>1, <1>9, <2>1, AtEnd
  <2> HIDE DEF u
  <2>7. Sees(p, u)'
    <3>1. u.n = nonce'[p] /\ u.at = AtOf(thread'[p]) /\ thread'[p] = Idle
      BY <1>1, <1>3, <2>5 DEF Sees
    <3> QED BY <1>4, <1>7, <1>9, <2>2, <2>3, <2>5, <3>1, RestSees, ZenonT(60)
  <2>8. Aside(q) /\ nonce'[q] = nonce[q] /\ trusted'[q] = trusted[q]
    BY <1>2, <1>3, <1>7, <2>3 DEF Aside
  <2> HIDE DEF q
  <2> QED BY <1>1, <1>8, <2>4, <2>6, <2>7, <2>8, StepOf DEF q
<1> QED BY <1>11, <1>12

\* A session that gets a SYN or an ACK it does not wait for, or a message of another
\* kind too early, ends; one that has ended lets it go.
LEMMA TurnedDown ==
  ASSUME KeysInv, SurfaceInv', NEW p \in Peer, thread[p] = Idle, net[p] # <<>>, handler[p] # 0,
         Aside(Other(p)), nonce' = nonce, trusted' = trusted,
         handler'[p] = handler[p], active'[p] = active[p], starting'[p] = starting[p],
         pending'[p] = pending[p], thread'[p] = Idle,
         \A d \in Call : d # handler[p] => sess'[p][d] = sess[p][d],
         ~sess'[p][handler[p]].running, Told(sess'[p][handler[p]], trusted[p]),
         \/ /\ Proper(conv'[p]) /\ conv'[p].key = None /\ conv'[p].events = <<>> /\ conv'[p].out = <<>>
         \/ conv'[p] = conv[p] /\ ~sess[p][handler[p]].running,
         Answer(p, <<>>)
  PROVE  KeysInv'
<1> DEFINE q == Other(p)
           c == handler[p]
<1>0. thread[p].at # "deploying"
  BY DEF Idle
<1>1. PICK v, w : Sees(p, v) /\ Seems(q, w) /\ Pair(v, w, net[p], net[q])
  BY <1>0, BeforeSeen
<1>2. SurfaceInv /\ SessionsOK(p) /\ q \in Peer /\ q # p /\ net[q] \in Seq(Message)
  BY Before, TwoPeers, CallsAre
<1>3. c \in Call /\ c <= c
  BY <1>2, LastSession
<1>4. v.at = "idle" /\ v.role # "none" /\ v.caller = FALSE
  BY <1>1 DEF Sees, AtOf, Place, Starts, Responds
<1>5. net'[p] = Tail(net[p]) /\ net'[q] = net[q]
  <2>1. net'[p] = Tail(net[p]) /\ net'[q] = net[q] \o <<>>
    BY <1>2, Delivered
  <2> QED BY <1>2, <2>1
<1>6. SessionsOK(p)'
  BY <1>2, <1>3, OwnKept DEF SessionsOK
<1>7. WorkOK(p)'
  BY DEF WorkOK
<1>8. nonce'[q] = nonce[q] /\ trusted'[q] = trusted[q]
  OBVIOUS
<1>9. ASSUME NEW u, u.role = "rest", u.n = v.n, u.at = v.at, u.caller = v.caller,
             Pair(u, w, net[p], net[q]), Sees(p, u)'
      PROVE  KeysInv'
  <2> DEFINE t == [u EXCEPT !.n = u.n]
  <2>1. u.n \in {u.n, u.n + 1} /\ u.role \in Dead
    BY <1>9 DEF Dead
  <2>2. Pair(t, w, Tail(net[p]), net[q])
    BY <1>4, <1>9, <2>1, AtSkip
  <2>3. t = u
    BY <1>9 DEF Pair, View
  <2>4. Pair(u, w, net'[p], net'[q])
    BY <1>5, <2>2, <2>3
  <2> HIDE DEF q, t
  <2> QED BY <1>1, <1>6, <1>7, <1>8, <1>9, <2>4, StepOf DEF q
<1>10. v.n = nonce'[p] /\ v.at = AtOf(thread'[p])
  BY <1>1 DEF Sees
<1>11. CASE /\ Proper(conv'[p]) /\ conv'[p].key = None /\ conv'[p].events = <<>> /\ conv'[p].out = <<>>
  <2> DEFINE u == [v EXCEPT !.role = "rest", !.key = None]
  <2>1. u.role = "rest" /\ u.n = v.n /\ u.at = v.at /\ u.caller = v.caller
    BY <1>1 DEF Pair, View
  <2>2. Pair(u, w, net[p], net[q])
    BY Zenon, <1>1, <1>4, AtEnd
  <2> HIDE DEF u
  <2>3. Sees(p, u)'
    BY <1>4, <1>10, <1>11, <2>1, RestSees
  <2> QED BY <1>9, <2>1, <2>2, <2>3
<1>12. CASE conv'[p] = conv[p] /\ ~sess[p][handler[p]].running
  <2>1. v.role = "rest"
    BY <1>1, <1>12 DEF Sees, Place, DeploysKryptonite
  <2>2. Place(handler'[p], sess'[p][handler'[p]]) = {"rest"}
    BY DEF Place, DeploysKryptonite
  <2>3. ConvOK(v, conv'[p])
    BY <1>1, <1>12 DEF Sees
  <2>4. Sees(p, v)'
    BY <1>4, <1>10, <2>1, <2>2, <2>3 DEF Sees
  <2> QED BY <1>1, <1>9, <2>1, <2>4
<1> QED BY <1>11, <1>12

\* A SYN or an ACK comes.
LEMMA SurfaceReceivedKeys ==
  ASSUME KeysInv, SurfaceInv', NEW p \in Peer, NEW type \in {"Syn", "Ack"}, SurfaceReceived(p, type)
  PROVE  KeysInv'
<1> DEFINE q == Other(p)
           c == handler[p]
           s == sess[p][c]
           k == conv[p]
           r == IF ~s.running THEN Result(s, k, <<>>)
                ELSE IF type = "Syn" THEN SynReceived(s, k) ELSE AckReceived(s, k)
<1>0. thread[p].at # "deploying"
  BY DEF SurfaceReceived, Incoming, Idle
<1>1. PICK v, w : Sees(p, v) /\ Seems(q, w) /\ Pair(v, w, net[p], net[q])
  BY <1>0, BeforeSeen
<1>2. SurfaceInv /\ Types /\ SessionsOK(p) /\ q \in Peer /\ q # p
  BY Before, TwoPeers DEF SurfaceInv
<1>3. /\ thread[p] = Idle /\ net[p] # <<>> /\ Head(net[p]).type = type /\ c # 0
      /\ UNCHANGED <<rung, over, handler, active, starting, pending, nonce, trusted, thread>>
      /\ Becomes(p, c, r) /\ Answer(p, r.out)
  BY DEF SurfaceReceived, Incoming, Waits
<1>4. c \in Call /\ c <= c /\ s \in Session /\ k \in Conversation
  BY <1>2, <1>3, LastSession, CallsAre
<1>5. Proper(k) /\ Told(s, trusted[p])
  BY <1>1, <1>2, <1>4 DEF Sees, ConvOK, SessionsOK
<1>6. Kind(Head(net[p])) = type
  <2>1. Head(net[p]) \in Message
    BY <1>2, <1>3, HeadOfNet
  <2> QED BY <1>3, <2>1, OfKind
<1>7. v.at = "idle" /\ v.role # "none" /\ v.caller = FALSE /\ v.n = nonce[p] /\ AtOf(thread[p]) = "idle"
  BY <1>1, <1>3 DEF Sees, AtOf, Place, Starts, Responds
<1> HIDE DEF r
<1>8. ASSUME r.sess \in Session, r.conv \in Conversation
      PROVE  /\ sess'[p][c] = r.sess /\ conv'[p] = r.conv
             /\ \A d \in Call : d # c => sess'[p][d] = sess[p][d]
             /\ Aside(q) /\ handler'[p] = c /\ thread'[p] = Idle
  <2>1. /\ sess'[p][c] = r.sess /\ conv'[p] = r.conv
        /\ \A d \in Call : d # c => sess'[p][d] = sess[p][d]
        /\ \A x \in Peer : x # p => sess'[x] = sess[x] /\ conv'[x] = conv[x]
    BY <1>2, <1>3, <1>4, <1>8, Became
  <2>2. Aside(q)
    BY <1>2, <1>3, <2>1 DEF Aside
  <2> QED BY <1>3, <2>1, <2>2
<1>9. CASE ~s.running
  <2>1. r.sess = s /\ r.conv = k /\ r.out = <<>>
    BY <1>9 DEF r, Result
  <2> HIDE DEF s, k, q
  <2>2. /\ sess'[p][c] = s /\ conv'[p] = k /\ Aside(q) /\ thread'[p] = Idle
        /\ \A d \in Call : d # c => sess'[p][d] = sess[p][d]
    BY <1>4, <1>8, <2>1
  <2> QED BY <1>3, <1>5, <1>9, <2>1, <2>2, TurnedDown DEF s, k, q
<1>10. ASSUME NEW t \in Session, Told(t, trusted[p]), r = TornDown(t, k) PROVE KeysInv'
  <2>1. /\ r.sess \in Session /\ ~r.sess.running /\ Told(r.sess, trusted[p])
        /\ r.conv \in Conversation /\ Proper(r.conv) /\ r.conv.key = None
        /\ r.conv.events = <<>> /\ r.conv.out = <<>> /\ r.out = <<>>
    BY <1>4, <1>5, <1>10, TornDownLeaves
  <2> HIDE DEF s, k, q
  <2>2. /\ sess'[p][c] = r.sess /\ conv'[p] = r.conv /\ Aside(q) /\ thread'[p] = Idle
        /\ \A d \in Call : d # c => sess'[p][d] = sess[p][d]
    BY <1>4, <1>8, <2>1
  <2> QED BY <1>3, <2>1, <2>2, TurnedDown DEF q
<1> DEFINE t == [s EXCEPT !.state = "ExchangingKeys"]
<1>11. /\ t \in Session /\ t.state = "ExchangingKeys" /\ t.started = s.started /\ t.key = s.key
       /\ t.running = s.running
  BY <1>4 DEF Session
<1>12. s.state # "Routing" => s.key = None /\ Told(t, trusted[p])
  BY <1>5, <1>11 DEF Told
<1> HIDE DEF t
<1>13. ASSUME s.running, s.state # "Routing", NEW u, Sees(p, u)', NEW out, Answer(p, out),
              Pair(u, w, Tail(net[p]), net[q] \o out), r.sess = t, r.conv \in Conversation
       PROVE  KeysInv'
  <2>1. /\ sess'[p][c] = t /\ Aside(q) /\ thread'[p] = Idle
        /\ \A d \in Call : d # c => sess'[p][d] = sess[p][d]
    BY <1>4, <1>8, <1>11, <1>13
  <2>2. SessionsOK(p)'
    BY <1>2, <1>3, <1>4, <1>11, <1>12, <1>13, <2>1, OwnKept DEF SessionsOK
  <2>3. WorkOK(p)'
    BY <2>1 DEF WorkOK
  <2>4. Pair(u, w, net'[p], net'[q])
    BY <1>2, <1>13, Delivered
  <2>5. nonce'[q] = nonce[q] /\ trusted'[q] = trusted[q]
    BY <1>3
  <2> HIDE DEF q, s
  <2> QED BY <1>1, <1>13, <2>1, <2>2, <2>3, <2>4, <2>5, StepOf DEF q
<1>14. CASE s.running /\ type = "Syn" /\ s.state = "Start"
  <2>1. ~s.started
    BY <1>5, <1>14 DEF Told
  <2>2. r.sess = t /\ r.conv = k /\ r.out = <<Surface("Ack")>>
    BY <1>14, <2>1 DEF r, SynReceived, Confirmed, Result, t
  <2> DEFINE u == [v EXCEPT !.role = "fresh"]
  <2>3. u.role = "fresh" /\ u.key = v.key /\ u.n = v.n /\ u.at = v.at /\ u.caller = v.caller
    BY <1>1 DEF Pair, View
  <2>4. v.role = "rest"
    BY <1>1, <1>3, <1>14, <2>1 DEF Sees, Place, DeploysKryptonite
  <2>5. Pair(u, w, Tail(net[p]), net[q] \o <<Surface("Ack")>>)
    BY <1>1, <1>3, <1>6, <1>7, <1>14, <2>4, AtSyn
  <2> HIDE DEF u
  <2>6. Sees(p, u)'
    <3>1. Place(c, t) = Responds /\ u.role \in Responds
      BY <1>3, <1>11, <1>14, <2>1, <2>3 DEF Place, DeploysKryptonite, Responds
    <3>2. ConvOK(u, k)
      BY <1>1, <2>3, <2>4 DEF Sees, ConvOK, Dead, Keyed
    <3>3. sess'[p][c] = t /\ conv'[p] = k /\ handler'[p] = c /\ thread'[p] = Idle
      BY <1>4, <1>8, <1>11, <2>2
    <3> HIDE DEF k, s
    <3> QED BY <1>3, <1>7, <2>3, <3>1, <3>2, <3>3 DEF Sees
  <2> HIDE DEF q
  <2> QED BY <1>3, <1>4, <1>13, <1>14, <2>2, <2>5, <2>6
<1>15. CASE s.running /\ type = "Ack" /\ s.state = "WaitingForACK" /\ ~k.open
  <2> DEFINE l == [NoConversation EXCEPT !.open = TRUE]
  <2>1. s.started
    BY <1>5, <1>15 DEF Told
  <2>2. k = NoConversation /\ NoConversation \in Conversation
    BY <1>5, <1>15, ClosedKeeps DEF Proper
  <2>3. /\ l \in Conversation /\ l.open = TRUE /\ l.context = FALSE /\ l.key = None /\ l.met = FALSE
        /\ l.events = <<>> /\ l.out = <<>> /\ l.auth = <<"none">>
    <3>1. l \in Conversation
      BY <2>2 DEF Conversation, Record
    <3> QED BY <3>1 DEF NoConversation
  <2>4. r.sess = t /\ r.conv = l /\ r.out = <<Kryptonite(<<"Query">>)>>
    BY <1>15, <2>1, <2>2 DEF r, AckReceived, Confirmed, Result, t
  <2> HIDE DEF l
  <2> DEFINE u == [v EXCEPT !.role = "asked"]
  <2>5. u.role = "asked" /\ u.key = v.key /\ u.n = v.n /\ u.at = v.at /\ u.caller = v.caller
    BY <1>1 DEF Pair, View
  <2>6. v.role = "waits"
    BY <1>1, <1>3, <1>15, <2>1 DEF Sees, Place, DeploysKryptonite
  <2>7. Pair(u, w, Tail(net[p]), net[q] \o <<Kryptonite(<<"Query">>)>>)
    BY <1>1, <1>3, <1>6, <1>7, <1>15, <2>6, AtAck
  <2> HIDE DEF u
  <2>8. Sees(p, u)'
    <3>1. Place(c, t) = Starts /\ u.role \in Starts
      BY <1>3, <1>11, <1>15, <2>1, <2>5 DEF Place, DeploysKryptonite, Starts
    <3>2. ConvOK(u, l)
      BY <2>3, <2>5 DEF Proper, ConvOK, Dead, Keyed
    <3>3. sess'[p][c] = t /\ conv'[p] = l /\ handler'[p] = c /\ thread'[p] = Idle
      BY <1>4, <1>8, <1>11, <2>3, <2>4
    <3> HIDE DEF k, s
    <3> QED BY <1>3, <1>7, <2>5, <3>1, <3>2, <3>3 DEF Sees
  <2> HIDE DEF q
  <2> QED BY <1>3, <1>13, <1>15, <2>3, <2>4, <2>7, <2>8
<1>16. CASE s.running /\ type = "Ack" /\ s.state = "WaitingForACK" /\ k.open
  <2>1. s.started
    BY <1>5, <1>16 DEF Told
  <2>2. r = TornDown(t, k)
    BY <1>16, <2>1 DEF r, AckReceived, Confirmed, t
  <2> QED BY <1>10, <1>11, <1>12, <1>16, <2>2
<1>17. CASE s.running /\ (IF type = "Syn" THEN s.state # "Start" ELSE s.state # "WaitingForACK")
  <2>1. r = TornDown(s, k)
    BY <1>17 DEF r, SynReceived, AckReceived
  <2> QED BY <1>4, <1>5, <1>10, <2>1
<1> QED BY <1>9, <1>14, <1>15, <1>16, <1>17

-----------------------------------------------------------------------------
(* Messages of Kryptonite and Bottom *)

\* A message is handled by the last session, which stays what it was but for what it
\* knows of the security.
LEMMA Handles ==
  ASSUME KeysInv, SurfaceInv', NEW p \in Peer, handler[p] # 0,
         Aside(Other(p)), nonce'[Other(p)] = nonce[Other(p)], trusted'[Other(p)] = trusted[Other(p)],
         handler'[p] = handler[p], active'[p] = active[p], starting'[p] = starting[p],
         pending'[p] = pending[p], trusted[p] \subseteq trusted'[p],
         \A d \in Call : d # handler[p] => sess'[p][d] = sess[p][d],
         sess'[p][handler[p]].state = sess[p][handler[p]].state,
         sess'[p][handler[p]].running = sess[p][handler[p]].running,
         sess'[p][handler[p]].started = sess[p][handler[p]].started,
         sess'[p][handler[p]].key = sess[p][handler[p]].key,
         conv[p].key # None => conv'[p].key = conv[p].key,
         NEW out, Answer(p, out),
         NEW v, NEW w, v.role \in Place(handler[p], sess[p][handler[p]]), Seems(Other(p), w),
         NEW u, Pair(u, w, Tail(net[p]), net[Other(p)] \o out), ConvOK(u, conv'[p]),
         v.role \in Starts => u.role \in Starts, v.role \in Responds => u.role \in Responds,
         v.role \in Dead => u.role = v.role,
         u.n = nonce'[p], u.at = AtOf(thread'[p]),
         u.caller = (thread'[p] # Idle /\ sess[p][handler[p]].started),
         thread'[p] # Idle => thread'[p].c = handler[p],
         WorkOK(p)'
  PROVE  KeysInv'
<1> DEFINE q == Other(p)
           c == handler[p]
<1>1. SurfaceInv /\ SessionsOK(p)
  BY Before
<1>2. c \in Call /\ c <= c
  BY <1>1, LastSession
<1>3. SessionsOK(p)'
  <2>1. Told(sess'[p][c], trusted'[p])
    BY <1>1, <1>2 DEF SessionsOK, Told
  <2>2. c = handler[p] /\ sess'[p][c].running /\ sess'[p][c].key # None => conv'[p].key = sess'[p][c].key
    BY <1>1, <1>2 DEF SessionsOK
  <2>3. pending'[p] > 0 => handler[p] = 0
    BY <1>1 DEF SessionsOK
  <2> QED BY <1>1, <1>2, <2>1, <2>2, <2>3, OwnKept
<1>4. net'[p] = Tail(net[p]) /\ net'[q] = net[q] \o out
  BY <1>1, Delivered
<1>5. Place(handler'[p], sess'[p][handler'[p]]) = Place(c, sess[p][c])
  BY DEF Place, DeploysKryptonite
<1>6. u.role \in Place(c, sess[p][c])
  BY DEF Place, Starts, Responds, Dead
<1>7. Sees(p, u)'
  BY <1>5, <1>6 DEF Sees
<1> HIDE DEF q
<1> QED BY <1>3, <1>4, <1>7, StepOf DEF q

\* What waited is sent: commitments and errors, and the next commitment behind them.
LEMMA Flushed ==
  ASSUME NEW out \in Seq(Otr), NEW n \in Nat, JunkOnly(out, n)
  PROVE  LET o == Kryptonites(out)
         IN  /\ o \in Seq(Message) /\ \A a \in 1..Len(o) : Kind(o[a]) \in Junk
             /\ Upto(o, "Commit", n)
             /\ \A y \in Seq(Message), m \in Otr :
                  y \o Kryptonites(Append(out, m)) = (y \o o) \o <<Kryptonite(m)>>
<1> DEFINE o == Kryptonites(out)
<1>1. o \in Seq(Message) /\ Len(o) = Len(out) /\ \A a \in 1..Len(out) : o[a] = Kryptonite(out[a])
  <2>1. DOMAIN out = 1..Len(out) /\ Len(out) \in Nat
    OBVIOUS
  <2>2. o \in Seq(Unsyn) /\ Unsyn \subseteq Message
    BY KryptonitesAre DEF Unsyn
  <2>3. o \in Seq(Message)
    BY <2>2, SeqMonotonic
  <2>4. DOMAIN o = 1..Len(out) /\ \A a \in 1..Len(out) : o[a] = Kryptonite(out[a])
    BY <2>1 DEF Kryptonites
  <2>5. DOMAIN o = 1..Len(o) /\ Len(o) \in Nat
    BY <2>3
  <2> HIDE DEF o
  <2>6. Len(o) = Len(out)
    BY <2>1, <2>4, <2>5
  <2> QED BY <2>3, <2>4, <2>6
<1> HIDE DEF o
<1>2. ASSUME NEW m \in Otr PROVE Kind(Kryptonite(m)) = m[1] /\ Kryptonite(m).otr = m
  BY DEF Kind, Kryptonite
<1>3. \A a \in 1..Len(out) : out[a] \in Otr
  OBVIOUS
<1>4. (\A a \in 1..Len(o) : Kind(o[a]) \in Junk) /\ Upto(o, "Commit", n)
  BY <1>1, <1>2, <1>3 DEF JunkOnly, Upto
<1>5. ASSUME NEW y \in Seq(Message), NEW m \in Otr
      PROVE  y \o Kryptonites(Append(out, m)) = (y \o o) \o <<Kryptonite(m)>>
  <2> DEFINE z == Append(out, m)
             b == Kryptonite(m)
  <2>1. /\ Len(z) = Len(out) + 1 /\ z[Len(out) + 1] = m /\ DOMAIN z = 1..(Len(out) + 1)
        /\ \A a \in 1..Len(out) : z[a] = out[a]
    OBVIOUS
  <2>2. b \in Message
    BY KryptonitesAre DEF Unsyn
  <2> HIDE DEF b
  <2>3. /\ Append(o, b) \in Seq(Message) /\ Len(Append(o, b)) = Len(out) + 1
        /\ Append(o, b)[Len(out) + 1] = b /\ \A a \in 1..Len(out) : Append(o, b)[a] = o[a]
    BY <1>1, <2>2
  <2>4. Kryptonites(z) \in Seq(Message)
    <3>1. z \in Seq(Otr) /\ Unsyn \subseteq Message
      BY DEF Unsyn
    <3>2. Kryptonites(z) \in Seq(Unsyn)
      BY <3>1, KryptonitesAre
    <3> QED BY <3>1, <3>2, SeqMonotonic
  <2>5. /\ DOMAIN Kryptonites(z) = 1..(Len(out) + 1)
        /\ \A a \in 1..(Len(out) + 1) : Kryptonites(z)[a] = Kryptonite(z[a])
    BY <2>1 DEF Kryptonites
  <2> HIDE DEF z
  <2>6. DOMAIN Kryptonites(z) = 1..Len(Kryptonites(z)) /\ Len(Kryptonites(z)) \in Nat /\ Len(out) \in Nat
    BY <2>4
  <2>7. Len(Kryptonites(z)) = Len(out) + 1
    BY <2>5, <2>6
  <2>8. \A a \in 1..(Len(out) + 1) : Kryptonites(z)[a] = Append(o, b)[a]
    <3> SUFFICES ASSUME NEW a \in 1..(Len(out) + 1) PROVE Kryptonites(z)[a] = Append(o, b)[a]
      OBVIOUS
    <3>1. a \in 1..Len(out) \/ a = Len(out) + 1
      BY <2>6
    <3> QED BY <1>1, <2>1, <2>3, <2>5, <3>1 DEF b
  <2> DEFINE f == Kryptonites(z)
             g == Append(o, b)
  <2>9. f = g
    <3>1. f \in Seq(Message) /\ g \in Seq(Message) /\ Len(f) = Len(g) /\ \A a \in 1..Len(f) : f[a] = g[a]
      BY <2>3, <2>4, <2>7, <2>8
    <3> HIDE DEF f, g
    <3> QED BY <3>1, SeqEqual
  <2>10. y \o Append(o, b) = (y \o o) \o <<b>>
    <3>1. Append(o, b) = o \o <<b>> /\ <<b>> \in Seq(Message)
      BY <1>1, <2>2, AppendIsConcat
    <3> QED BY <1>1, <3>1, ConcatAssociative
  <2> QED BY <2>9, <2>10 DEF z, b
<1> QED BY <1>1, <1>4, <1>5 DEF o

\* One message of Kryptonite is sent.
LEMMA OneSent ==
  ASSUME NEW m \in Otr
  PROVE  Kryptonites(Append(<<>>, m)) = <<Kryptonite(m)>>
<1>1. Append(<<>>, m) = <<m>>
  OBVIOUS
<1> QED BY <1>1 DEF Kryptonites

\* The last session still runs when its message is handed to Kryptonite; what becomes of
\* the conversation is looked at next.
KryptoniteStep(p, k) ==
  LET c == handler[p]
      s == sess[p][c]
      m == Head(net[p]).otr
  IN  /\ thread[p].at = "deploying" /\ ~Late(p) /\ Waits(p, "Kryptonite") /\ UNCHANGED callVars
      /\ Decrypt(p, m, k)
      /\ IF m[1] = "Error"
         THEN conv' = [conv EXCEPT ![p] = k] /\ Answer(p, <<>>) /\ Done(p) /\ UNCHANGED sess
         ELSE IF Asks(k)
         THEN /\ conv' = [conv EXCEPT ![p] = [k EXCEPT !.events = Tail(@)]]
              /\ Answer(p, <<>>) /\ Busy(p, "asking", c)
              /\ UNCHANGED sess
         ELSE /\ conv' = [conv EXCEPT ![p] = Polled(k)]
              /\ Answer(p, PolledOut(k))
              /\ sess' = [sess EXCEPT ![p][c].secure = Secured(k, @)]
              /\ IF sess'[p][c].secure # s.secure THEN Busy(p, "changed", c) ELSE Done(p)

\* A step of a peer that sees v, while the other sees w.
Step(p, v, w) ==
  /\ KeysInv /\ SurfaceInv'
  /\ Seems(p, v) /\ Seems(Other(p), w) /\ Pair(v, w, net[p], net[Other(p)])

\* What is known when the last session takes a message.
LEMMA StepKnows ==
  ASSUME NEW p \in Peer, NEW v, NEW w, Step(p, v, w), NEW k, KryptoniteStep(p, k)
  PROVE  LET q == Other(p)
             c == handler[p]
             s == sess[p][c]
             m == Head(net[p]).otr
             n == nonce[p] + 1
         IN  /\ SurfaceInv /\ SessionsOK(p) /\ q \in Peer /\ q # p /\ net[q] \in Seq(Message)
             /\ c \in Call /\ c # 0 /\ s \in Session /\ s.running /\ Exchanges(p, c)
             /\ thread \in [Peer -> Thread] /\ v.role \in Place(c, s)
             /\ UNCHANGED <<rung, over, handler, active, starting, pending>>
             /\ net[p] # <<>> /\ m \in Otr /\ Head(net[p]) = Kryptonite(m) /\ Kind(Head(net[p])) = m[1]
             /\ n \in Nat /\ k \in Receiving(conv[p], m, n)
             /\ conv[p] \in Conversation /\ Proper(conv[p]) /\ ConvOK(v, conv[p])
             /\ conv[p].key = None => ~s.secure
             /\ v.role \in Starts \cup Responds /\ (s.started <=> v.role \in Starts)
             /\ v.at = "idle" /\ v.caller = FALSE /\ v.n = nonce[p] /\ v.n \in Nat
             /\ nonce'[p] = (IF Generates(m, conv[p]) THEN n ELSE nonce[p]) /\ nonce'[q] = nonce[q]
<1> DEFINE q == Other(p)
           c == handler[p]
           s == sess[p][c]
           m == Head(net[p]).otr
           n == nonce[p] + 1
<1>1. /\ SurfaceInv /\ SessionsOK(p) /\ q \in Peer /\ q # p /\ net[q] \in Seq(Message)
      /\ nonce \in [Peer -> Nat] /\ thread \in [Peer -> Thread]
  <2>1. SurfaceInv /\ SessionsOK(p) /\ q \in Peer /\ q # p
    BY Before, TwoPeers DEF Step
  <2> QED BY <2>1, CallsAre DEF SurfaceInv, Types
<1>0. /\ thread[p].at = "deploying" /\ ~Late(p) /\ net[p] # <<>> /\ Head(net[p]).type = "Kryptonite"
      /\ UNCHANGED callVars /\ Decrypt(p, m, k)
  BY DEF KryptoniteStep, Waits
<1>2. /\ net[p] # <<>> /\ Head(net[p]).type = "Kryptonite" /\ c # 0
      /\ UNCHANGED <<rung, over, handler, active, starting, pending>>
      /\ s.running /\ Exchanges(p, c) /\ Decrypt(p, m, k)
  <2>1. thread[p].c = c /\ s.running
    BY <1>0 DEF Late
  <2>2. thread[p] # Idle /\ c \in Call
    BY <1>0, <1>1, <2>1, CallsAre, ThreadIs
  <2>3. c # 0
    BY <2>2, CallsAssumption DEF Call
  <2>4. Exchanges(p, c)
    BY <2>1, <2>2, Before DEF Step, WorkOK
  <2> QED BY <1>0, <2>1, <2>3, <2>4 DEF callVars
<1>3. c \in Call /\ s \in Session /\ conv[p] \in Conversation /\ n \in Nat /\ SessionOK(p, c)
  BY <1>1, <1>2, LastSession, CallsAre
<1>4. Head(net[p]) \in Message
  BY <1>1, <1>2, HeadOfNet
<1>5. m \in Otr /\ Head(net[p]) = Kryptonite(m) /\ Kind(Head(net[p])) = m[1]
  BY <1>2, <1>4, OfKind
<1>6. s.running /\ Exchanges(p, c)
  BY <1>2
<1>7. /\ ConvOK(v, conv[p]) /\ Proper(conv[p]) /\ v.n = nonce[p] /\ v.at = "idle" /\ v.caller = FALSE
      /\ v.role \in Place(c, s)
  <2>1. Deploys(p, v)
    BY <1>0, NotSeen DEF Step, Pair
  <2> QED BY <1>0, <2>1 DEF Deploys, ConvOK
<1>8. v.role \in Starts \cup Responds /\ (s.started <=> v.role \in Starts)
  BY <1>2, <1>7 DEF Place, Starts, Responds, DeploysKryptonite, Exchanges
<1>9. conv[p].key = None => ~s.secure
  BY <1>3, <1>6, SessionHolds
<1>10. k \in Receiving(conv[p], m, n)
  BY <1>2 DEF Decrypt
<1>11. nonce'[p] = (IF Generates(m, conv[p]) THEN n ELSE nonce[p]) /\ nonce'[q] = nonce[q]
  <2> HIDE DEF q, m
  <2> QED BY <1>1, <1>2 DEF Decrypt
<1>12. v.n \in Nat
  BY <1>1, <1>7
<1> HIDE DEF q, c, s, m, n
<1> QED BY <1>1, <1>2, <1>3, <1>5, <1>6, <1>7, <1>8, <1>9, <1>10, <1>11, <1>12 DEF q, c, s, m, n

\* The same in the words of v, for a message that is not an error.
LEMMA StepView ==
  ASSUME NEW p \in Peer, NEW v, NEW w, Step(p, v, w), NEW k, KryptoniteStep(p, k)
  PROVE  LET q == Other(p)
             m == Head(net[p]).otr
             k0 == conv[p]
         IN  /\ net[q] \in Seq(Message) /\ net[p] # <<>> /\ m \in Otr /\ Kind(Head(net[p])) = m[1]
             /\ v.n + 1 \in Nat /\ k \in Receiving(k0, m, v.n + 1)
             /\ k0 \in Conversation /\ Proper(k0) /\ ConvOK(v, k0)
             /\ v.role \in Starts \cup Responds /\ v.at = "idle" /\ v.caller = FALSE /\ v.n \in Nat
             /\ nonce'[p] = (IF Generates(m, k0) THEN v.n + 1 ELSE v.n)
<1> DEFINE q == Other(p)
           m == Head(net[p]).otr
           k0 == conv[p]
           n == nonce[p]
<1>1. /\ net[q] \in Seq(Message) /\ net[p] # <<>> /\ m \in Otr /\ Kind(Head(net[p])) = m[1]
      /\ n + 1 \in Nat /\ k \in Receiving(k0, m, n + 1)
      /\ k0 \in Conversation /\ Proper(k0) /\ ConvOK(v, k0)
      /\ v.role \in Starts \cup Responds /\ v.at = "idle" /\ v.caller = FALSE /\ v.n = n /\ v.n \in Nat
      /\ nonce'[p] = (IF Generates(m, k0) THEN n + 1 ELSE n)
  BY StepKnows, ZenonT(60)
<1>2. v.n = n
  BY <1>1
<1> HIDE DEF q, m, k0, n
<1> QED BY <1>1, <1>2 DEF q, m, k0

\* A message of the exchange is answered; the conversation has no key before and after.
LEMMA Replies ==
  ASSUME NEW p \in Peer, NEW v, NEW w, Step(p, v, w), NEW k, KryptoniteStep(p, k),
         Head(net[p]).otr[1] # "Error", k \in Conversation, Proper(k), k.open, k.events = <<>>,
         conv[p].key = None, k.key = None,
         NEW u, Pair(u, w, Tail(net[p]), net[Other(p)] \o Kryptonites(k.out)), ConvOK(u, Polled(k)),
         v.role \in Starts => u.role \in Starts, v.role \in Responds => u.role \in Responds,
         u.n = nonce'[p], u.at = "idle", u.caller = FALSE
  PROVE  KeysInv'
<1> DEFINE q == Other(p)
           c == handler[p]
           s == sess[p][c]
           m == Head(net[p]).otr
           n == nonce[p] + 1
<1> HIDE DEF q, c, s, m, n
<1>1. /\ SurfaceInv /\ q \in Peer /\ q # p
      /\ c \in Call /\ c # 0 /\ s \in Session /\ v.role \in Place(c, s) /\ thread \in [Peer -> Thread]
      /\ UNCHANGED <<rung, over, handler, active, starting, pending>>
      /\ v.role \in Starts \cup Responds /\ nonce'[q] = nonce[q]
  BY StepKnows DEF q, c, s, m, n
<1>2. Types
  BY <1>1 DEF SurfaceInv
<1>3. ~Asks(k)
  BY DEF Asks
<1>4. /\ conv' = [conv EXCEPT ![p] = Polled(k)] /\ Answer(p, PolledOut(k))
      /\ sess' = [sess EXCEPT ![p][c].secure = Secured(k, @)]
      /\ IF sess'[p][c].secure # s.secure THEN Busy(p, "changed", c) ELSE Done(p)
      /\ Decrypt(p, m, k)
  BY <1>3 DEF KryptoniteStep, c, s, m
<1>5. PolledOut(k) = Kryptonites(k.out) /\ \A secure \in BOOLEAN : Secured(k, secure) = secure
  BY DEF PolledOut, Secured
<1>6. /\ sess'[p][c].secure = s.secure /\ sess'[p][c].state = s.state /\ sess'[p][c].running = s.running
      /\ sess'[p][c].started = s.started /\ sess'[p][c].key = s.key
      /\ \A d \in Call : d # c => sess'[p][d] = sess[p][d]
      /\ sess'[q] = sess[q]
  <2>1. sess \in [Peer -> [Call -> Session]]
    BY <1>2 DEF Types
  <2>2. s.secure \in BOOLEAN /\ sess' = [sess EXCEPT ![p][c].secure = s.secure]
    BY <1>1, <1>4, <1>5 DEF Session, s
  <2> QED BY <1>1, <2>1, <2>2 DEF Session, s
<1>7. thread'[p] = Idle /\ thread'[q] = thread[q]
  BY <1>1, <1>4, <1>6 DEF Done
<1>8. conv'[p] = Polled(k) /\ conv'[q] = conv[q]
  BY <1>1, <1>2, <1>4 DEF Types
<1>9. trusted' = trusted
  BY <1>4 DEF Decrypt
<1>10. Aside(q) /\ trusted'[q] = trusted[q] /\ trusted[p] \subseteq trusted'[p]
  BY <1>1, <1>6, <1>7, <1>8, <1>9 DEF Aside
<1>11. WorkOK(p)' /\ u.at = AtOf(thread'[p])
  BY <1>7 DEF WorkOK, AtOf
<1>12. v.role \notin Dead
  BY <1>1 DEF Dead, Starts, Responds
<1>13. KeysInv /\ SurfaceInv' /\ Seems(q, w)
  BY DEF Step, q
<1> QED BY <1>1, <1>4, <1>5, <1>6, <1>7, <1>8, <1>10, <1>11, <1>12, <1>13, Handles DEF q, c, s

\* The query is answered with a commitment, and what waited goes before it.
LEMMA QueryTaken ==
  ASSUME NEW p \in Peer, NEW v, NEW w, Step(p, v, w), NEW k, KryptoniteStep(p, k),
         Kind(Head(net[p])) = "Query"
  PROVE  KeysInv'
<1> DEFINE q == Other(p)
           m == Head(net[p]).otr
           k0 == conv[p]
           o == <<"Commit", v.n + 1>>
           a == <<"commit", v.n + 1>>
<1>1. /\ net[q] \in Seq(Message) /\ net[p] # <<>> /\ m[1] = "Query" /\ m \in Otr
      /\ v.n + 1 \in Nat /\ k \in Receiving(k0, m, v.n + 1)
      /\ k0 \in Conversation /\ Proper(k0) /\ ConvOK(v, k0)
      /\ v.role \in Starts \cup Responds /\ v.at = "idle" /\ v.caller = FALSE /\ v.n \in Nat
      /\ nonce'[p] = (IF Generates(m, k0) THEN v.n + 1 ELSE v.n)
  BY StepView
<1>2. Pair(v, w, net[p], net[q])
  BY DEF Step
<1>3. v.role = "fresh"
  BY <1>1, <1>2, Meets
<1>4. nonce'[p] = v.n + 1
  BY <1>1 DEF Generates
<1>5. k = Inject([Sending(k0) EXCEPT !.auth = a], o)
  BY <1>1, Receives
<1>6. a \in Auth /\ o \in Otr
  BY <1>1 DEF Auth, Otr
<1>7. k0.key = None /\ k0.events = <<>> /\ JunkOnly(k0.out, v.n) /\ k0.out \in Seq(Otr)
  BY <1>1, <1>3 DEF ConvOK, Conversation, Record
<1> HIDE DEF q, m, k0, o, a
<1>8. /\ k \in Conversation /\ k.open /\ k.context /\ k.key = k0.key /\ k.met = k0.met
      /\ k.events = k0.events /\ k.auth = a /\ k.out = Append(k0.out, o)
  BY <1>1, <1>5, <1>6, AnswerLeaves
<1>9. Proper(k)
  BY <1>1, <1>8 DEF Proper
<1> DEFINE u == [v EXCEPT !.role = "offered", !.n = v.n + 1]
<1>10. u.role = "offered" /\ u.n = v.n + 1 /\ u.at = v.at /\ u.caller = v.caller
  BY <1>2 DEF Pair, View
<1>11. Pair(u, w, Tail(net[p]), net[q] \o Kryptonites(k.out))
  <2> DEFINE z == Kryptonites(k0.out)
  <2>1. /\ z \in Seq(Message) /\ \A i \in 1..Len(z) : Kind(z[i]) \in Junk
        /\ Upto(z, "Commit", v.n)
        /\ net[q] \o Kryptonites(k.out) = (net[q] \o z) \o <<CommitOf(v.n + 1)>>
    BY <1>1, <1>6, <1>7, <1>8, Flushed DEF CommitOf, o
  <2> HIDE DEF z
  <2>2. Kind(Head(net[p])) = "Query"
    OBVIOUS
  <2>3. Pair(u, w, Tail(net[p]), (net[q] \o z) \o <<CommitOf(v.n + 1)>>)
    BY Zenon, <1>1, <1>2, <1>3, <2>1, <2>2, AtQuery
  <2> QED BY <2>1, <2>3
<1> HIDE DEF u
<1>12. ConvOK(u, Polled(k))
  <2>1. /\ Proper(Polled(k)) /\ Polled(k).key = None /\ Polled(k).auth = a /\ Polled(k).events = <<>>
        /\ Polled(k).out = <<>>
    BY <1>7, <1>8, <1>9, PolledLeaves
  <2> QED BY <1>10, <2>1 DEF ConvOK, Dead, Keyed, a
<1>13. u.role \in Responds /\ v.role \notin Starts
  BY <1>3, <1>10 DEF Responds, Starts
<1>14. Head(net[p]).otr[1] # "Error"
  BY <1>1 DEF m
<1> QED BY <1>1, <1>4, <1>7, <1>8, <1>9, <1>10, <1>11, <1>12, <1>13, <1>14, Replies DEF q, k0

\* A commitment is answered with a key; another one replaces it.
LEMMA CommitTaken ==
  ASSUME NEW p \in Peer, NEW v, NEW w, Step(p, v, w), NEW k, KryptoniteStep(p, k),
         Kind(Head(net[p])) = "Commit"
  PROVE  KeysInv'
<1> DEFINE q == Other(p)
           m == Head(net[p]).otr
           k0 == conv[p]
<1>1. /\ net[q] \in Seq(Message) /\ net[p] # <<>> /\ m[1] = "Commit" /\ m \in Otr /\ Head(net[p]).otr = m
      /\ v.n + 1 \in Nat /\ k \in Receiving(k0, m, v.n + 1)
      /\ k0 \in Conversation /\ Proper(k0) /\ ConvOK(v, k0)
      /\ v.role \in Starts \cup Responds /\ v.at = "idle" /\ v.caller = FALSE /\ v.n \in Nat
      /\ nonce'[p] = (IF Generates(m, k0) THEN v.n + 1 ELSE v.n)
  BY StepView
<1>2. Pair(v, w, net[p], net[q])
  BY DEF Step
<1>3. v.role \in {"asked", "replied"}
  BY <1>1, <1>2, Meets
<1>4. m[2] \in Nat
  <2>1. Head(net[p]) \in Message
    BY <1>1, <1>2, Meets
  <2> QED BY <2>1, OfKind DEF m
<1>5. k0.key = None /\ k0.events = <<>> /\ k0.out = <<>>
  BY <1>1, <1>3 DEF ConvOK
<1>6. v.role = "replied" => v.key \in Key
  BY <1>2 DEF Pair, View
<1> HIDE DEF q, m, k0
<1>7. ASSUME NEW b \in Nat, NEW n \in {v.n, v.n + 1}, nonce'[p] = n,
             k = Inject([Sending(k0) EXCEPT !.auth = <<"key", m[2], b>>], <<"Key", m[2], b>>)
      PROVE  KeysInv'
  <2> DEFINE K == <<m[2], b>>
             o == <<"Key", m[2], b>>
             a == <<"key", m[2], b>>
  <2>1. K \in Key /\ K[1] = m[2] /\ a \in Auth /\ o \in Otr /\ Kryptonite(o) = KeyOf(K)
    BY <1>4, <1>7 DEF Key, Auth, Otr, KeyOf
  <2>2. a = <<"key", K[1], K[2]>> /\ k = Inject([Sending(k0) EXCEPT !.auth = a], o)
    BY <1>7
  <2> HIDE DEF K, o, a
  <2>3. /\ k \in Conversation /\ k.open /\ k.context /\ k.key = k0.key /\ k.met = k0.met
        /\ k.events = k0.events /\ k.auth = a /\ k.out = Append(k0.out, o)
    <3>1. k0 \in Conversation /\ a \in Auth /\ o \in Otr
      BY <1>1, <2>1, <2>2
    <3>2. k = Inject([Sending(k0) EXCEPT !.auth = a], o)
      BY <2>1, <2>2
    <3> QED BY <3>1, <3>2, AnswerLeaves
  <2>4. Proper(k)
    BY <1>1, <2>3 DEF Proper
  <2>5. Kryptonites(k.out) = <<KeyOf(K)>>
    BY <1>5, <2>1, <2>3, OneSent
  <2> DEFINE u == [v EXCEPT !.role = "replied", !.key = K, !.n = n]
  <2>6. u.role = "replied" /\ u.key = K /\ u.n = n /\ u.at = v.at /\ u.caller = v.caller
    BY <1>2 DEF Pair, View
  <2>7. Pair(u, w, Tail(net[p]), net[q] \o <<KeyOf(K)>>)
    BY Zenon, <1>1, <1>2, <1>3, <1>7, <2>1, AtCommit
  <2> HIDE DEF u
  <2>8. ConvOK(u, Polled(k))
    <3>1. /\ Proper(Polled(k)) /\ Polled(k).key = None /\ Polled(k).auth = a /\ Polled(k).events = <<>>
          /\ Polled(k).out = <<>>
      BY <1>5, <2>3, <2>4, PolledLeaves
    <3> QED BY <2>2, <2>6, <3>1 DEF ConvOK, Dead, Keyed
  <2>9. u.role \in Starts /\ v.role \notin Responds
    BY <1>3, <2>6 DEF Responds, Starts
  <2>10. Head(net[p]).otr[1] # "Error"
    BY <1>1
  <2>11. Pair(u, w, Tail(net[p]), net[q] \o Kryptonites(k.out))
    BY <2>5, <2>7
  <2>12. /\ u.n = nonce'[p] /\ u.at = "idle" /\ u.caller = FALSE
         /\ k.events = <<>> /\ conv[p].key = None /\ k.key = None
    BY <1>1, <1>5, <1>7, <2>3, <2>6 DEF k0
  <2> QED BY <2>3, <2>4, <2>8, <2>9, <2>10, <2>11, <2>12, Replies DEF q
<1>8. CASE v.role = "asked"
  <2>1. k0.auth = <<"none">>
    BY <1>1, <1>8 DEF ConvOK
  <2>2. k0.auth[1] = "none"
    BY <2>1
  <2>3. nonce'[p] = v.n + 1
    BY <1>1, <2>2 DEF Generates
  <2>4. k = Inject([Sending(k0) EXCEPT !.auth = <<"key", m[2], v.n + 1>>], <<"Key", m[2], v.n + 1>>)
    BY <1>1, <2>1, Receives
  <2> QED BY <1>1, <1>7, <2>3, <2>4
<1>9. CASE v.role = "replied"
  <2>1. k0.auth = <<"key", v.key[1], v.key[2]>> /\ v.key[2] \in Nat
    BY <1>1, <1>6, <1>9 DEF ConvOK, Key
  <2>2. k0.auth[1] = "key"
    BY <2>1
  <2>3. nonce'[p] = v.n
    BY <1>1, <2>2 DEF Generates
  <2>4. k = Inject([Sending(k0) EXCEPT !.auth = <<"key", m[2], v.key[2]>>], <<"Key", m[2], v.key[2]>>)
    <3>1. \A x, y : m[1] = "Commit" /\ k0.auth = <<"key", x, y>> =>
            k = Inject([Sending(k0) EXCEPT !.auth = <<"key", m[2], y>>], <<"Key", m[2], y>>)
      BY <1>1, Receives
    <3> QED BY <1>1, <2>1, <3>1
  <2> QED BY <1>7, <2>1, <2>3, <2>4
<1> QED BY <1>3, <1>8, <1>9

\* An error changes nothing.
LEMMA ErrorTaken ==
  ASSUME NEW p \in Peer, NEW v, NEW w, Step(p, v, w), NEW k, KryptoniteStep(p, k),
         Kind(Head(net[p])) = "Error"
  PROVE  KeysInv'
<1> DEFINE q == Other(p)
           c == handler[p]
           m == Head(net[p]).otr
           k0 == conv[p]
<1>1. /\ SurfaceInv /\ q \in Peer /\ q # p /\ net[q] \in Seq(Message) /\ net[p] # <<>> /\ m[1] = "Error"
      /\ m \in Otr /\ c # 0 /\ v.role \in Place(c, sess[p][c]) /\ thread \in [Peer -> Thread]
      /\ UNCHANGED <<rung, over, handler, active, starting, pending>>
      /\ nonce[p] + 1 \in Nat /\ k \in Receiving(k0, m, nonce[p] + 1)
      /\ k0 \in Conversation /\ Proper(k0) /\ ConvOK(v, k0)
      /\ v.at = "idle" /\ v.caller = FALSE /\ v.n = nonce[p]
      /\ v.role \in Starts \cup Responds
      /\ nonce'[p] = (IF Generates(m, k0) THEN nonce[p] + 1 ELSE nonce[p]) /\ nonce'[q] = nonce[q]
  BY StepKnows
<1>2. Pair(v, w, net[p], net[q])
  BY DEF Step
<1>3. v.role \in {"asked", "replied"}
  BY <1>1, <1>2, Meets
<1>4. nonce'[p] = nonce[p]
  BY <1>1 DEF Generates
<1>5. k = Sending(k0)
  BY <1>1, Receives
<1>6. /\ conv' = [conv EXCEPT ![p] = k] /\ Answer(p, <<>>) /\ Done(p) /\ sess' = sess /\ Decrypt(p, m, k)
  BY <1>1 DEF KryptoniteStep
<1> HIDE DEF q, c, m, k0
<1>7. /\ Proper(k) /\ k.key = k0.key /\ k.events = k0.events /\ k.auth = k0.auth /\ k.out = k0.out
  BY <1>1, <1>5, SendingLeaves
<1>8. ConvOK(v, k)
  BY <1>1, <1>7 DEF ConvOK
<1>9. trusted' = trusted
  BY <1>6, <1>7 DEF Decrypt, k0
<1>10. thread'[p] = Idle /\ thread'[q] = thread[q] /\ conv'[p] = k /\ conv'[q] = conv[q]
  BY <1>1, <1>6 DEF Done, SurfaceInv, Types
<1>11. Aside(q) /\ trusted'[q] = trusted[q] /\ trusted[p] \subseteq trusted'[p]
  BY <1>1, <1>6, <1>9, <1>10 DEF Aside
<1>12. WorkOK(p)' /\ v.at = AtOf(thread'[p])
  BY <1>1, <1>10 DEF WorkOK, AtOf
<1>13. Pair(v, w, Tail(net[p]), net[q] \o <<>>)
  <2>1. Pair(v, w, Tail(net[p]), net[q])
    BY <1>1, <1>2, <1>3, AtError
  <2>2. net[q] \o <<>> = net[q]
    BY <1>1
  <2> QED BY <2>1, <2>2
<1>14. v.role \notin Dead /\ KeysInv /\ SurfaceInv' /\ Seems(q, w)
  BY <1>3 DEF Dead, Step, q
<1> QED BY <1>1, <1>4, <1>6, <1>7, <1>8, <1>10, <1>11, <1>12, <1>13, <1>14, Handles DEF q, c, k0

\* The key that was asked for is answered by revealing one's own; a late one is let go.
LEMMA KeyTaken ==
  ASSUME NEW p \in Peer, NEW v, NEW w, Step(p, v, w), NEW k, KryptoniteStep(p, k),
         Kind(Head(net[p])) = "Key"
  PROVE  KeysInv'
<1> DEFINE q == Other(p)
           m == Head(net[p]).otr
           k0 == conv[p]
           K == <<m[2], m[3]>>
<1>1. /\ net[q] \in Seq(Message) /\ net[p] # <<>> /\ m[1] = "Key" /\ m \in Otr /\ Head(net[p]).otr = m
      /\ v.n + 1 \in Nat /\ k \in Receiving(k0, m, v.n + 1)
      /\ k0 \in Conversation /\ Proper(k0) /\ ConvOK(v, k0)
      /\ v.role \in Starts \cup Responds /\ v.at = "idle" /\ v.caller = FALSE /\ v.n \in Nat
      /\ nonce'[p] = (IF Generates(m, k0) THEN v.n + 1 ELSE v.n)
  BY StepView
<1>2. Pair(v, w, net[p], net[q])
  BY DEF Step
<1>3. v.role = "offered"
  BY <1>1, <1>2, Meets
<1>4. K \in Key /\ Head(net[p]) = KeyOf(K) /\ K[1] = m[2] /\ m[2] \in Nat /\ m[3] \in Nat
  <2>1. Head(net[p]) \in Message
    BY <1>1, <1>2, Meets
  <2>2. K \in Key /\ Head(net[p]) = KeyOf(K)
    BY <2>1, OfKind
  <2> QED BY <2>2 DEF Key
<1>5. k0.key = None /\ k0.events = <<>> /\ k0.out = <<>> /\ k0.auth = <<"commit", v.n>>
  BY <1>1, <1>3 DEF ConvOK
<1>6. nonce'[p] = v.n
  BY <1>1 DEF Generates
<1>7. Head(net[p]).otr[1] # "Error" /\ v.role \notin Starts
  BY <1>1, <1>3 DEF Starts
<1> HIDE DEF q, m, k0, K
<1>8. CASE m[2] = v.n
  <2> DEFINE o == <<"Reveal", m[2], m[3]>>
             a == <<"reveal", m[2], m[3]>>
  <2>1. k = Inject([Sending(k0) EXCEPT !.auth = a], o)
    <3>1. k0.auth = <<"commit", m[2]>>
      BY <1>5, <1>8
    <3> QED BY <1>1, <3>1, Receives
  <2>2. a \in Auth /\ o \in Otr /\ Kryptonite(o) = RevealOf(K) /\ a = <<"reveal", K[1], K[2]>>
    BY <1>4 DEF Auth, Otr, RevealOf, K
  <2> HIDE DEF o, a
  <2>3. /\ k \in Conversation /\ k.open /\ k.context /\ k.key = k0.key /\ k.met = k0.met
        /\ k.events = k0.events /\ k.auth = a /\ k.out = Append(k0.out, o)
    <3>1. k0 \in Conversation /\ a \in Auth /\ o \in Otr
      BY <1>1, <2>1, <2>2
    <3>2. k = Inject([Sending(k0) EXCEPT !.auth = a], o)
      BY <2>1, <2>2
    <3> QED BY <3>1, <3>2, AnswerLeaves
  <2>4. Proper(k)
    BY <1>1, <2>3 DEF Proper
  <2>5. Kryptonites(k.out) = <<RevealOf(K)>>
    BY <1>5, <2>2, <2>3, OneSent
  <2> DEFINE u == [v EXCEPT !.role = "revealed", !.key = K]
  <2>6. u.role = "revealed" /\ u.key = K /\ u.n = v.n /\ u.at = v.at /\ u.caller = v.caller
    BY <1>2 DEF Pair, View
  <2>7. Pair(u, w, Tail(net[p]), net[q] \o <<RevealOf(K)>>)
    BY Zenon, <1>1, <1>2, <1>3, <1>4, <1>8, AtKey
  <2> HIDE DEF u
  <2>8. ConvOK(u, Polled(k))
    <3>1. /\ Proper(Polled(k)) /\ Polled(k).key = None /\ Polled(k).auth = a /\ Polled(k).events = <<>>
          /\ Polled(k).out = <<>>
      BY <1>5, <2>3, <2>4, PolledLeaves
    <3> QED BY <2>2, <2>6, <3>1 DEF ConvOK, Dead, Keyed
  <2>9. u.role \in Responds
    BY <2>6 DEF Responds
  <2> QED BY <1>1, <1>5, <1>6, <1>7, <2>3, <2>4, <2>5, <2>6, <2>7, <2>8, <2>9, Replies DEF q, k0
<1>9. CASE m[2] # v.n
  <2>1. k = Sending(k0)
    <3>1. k0.auth # <<"commit", m[2]>>
      BY <1>5, <1>9
    <3> QED BY <1>1, <3>1, Receives
  <2>2. /\ k \in Conversation /\ Proper(k) /\ k.open /\ k.key = k0.key /\ k.events = k0.events
        /\ k.auth = k0.auth /\ k.out = k0.out
    BY <1>1, <2>1, SendingLeaves
  <2>3. Kryptonites(k.out) = <<>>
    BY <1>5, <2>2 DEF Kryptonites
  <2>4. Pair(v, w, Tail(net[p]), net[q] \o Kryptonites(k.out))
    <3>1. Pair(v, w, Tail(net[p]), net[q])
      BY <1>1, <1>2, <1>3, <1>9, AtOldKey
    <3>2. net[q] \o <<>> = net[q]
      BY <1>1
    <3> QED BY <2>3, <3>1, <3>2
  <2>5. ConvOK(v, Polled(k))
    <3>1. /\ Proper(Polled(k)) /\ Polled(k).key = None /\ Polled(k).auth = k0.auth
          /\ Polled(k).events = <<>> /\ Polled(k).out = <<>>
      BY <1>5, <2>2, PolledLeaves
    <3> QED BY <1>3, <1>5, <3>1 DEF ConvOK, Dead, Keyed
  <2> QED BY <1>1, <1>5, <1>6, <1>7, <2>2, <2>4, <2>5, Replies DEF q, k0
<1> QED BY <1>8, <1>9

-----------------------------------------------------------------------------
(* The end of an exchange *)

\* What a peer's user accepted is kept for every peer.
Accepting == trusted = [p \in Peer |-> trusted[p]]

\* The events of a new fingerprint, in turn.
LEMMA TwoEvents ==
  ASSUME NEW e, e = <<"confirm", "secure">>
  PROVE  e # <<>> /\ Head(e) = "confirm" /\ Tail(e) = <<"secure">>
<1>1. Tail(e) = <<"secure">> /\ <<"secure">> \in Seq({"secure"}) /\ Head(e) = "confirm" /\ e # <<>>
  OBVIOUS
<1> QED BY <1>1

\* The event of a known one.
LEMMA OneEvent ==
  ASSUME NEW e, e = <<"secure">>
  PROVE  e # <<>>
OBVIOUS

\* The first event is taken from a conversation that got its key.
LEMMA EventTaken ==
  ASSUME NEW k \in Record(Seq({"secure"})) \cup Record(Seq({"secure", "confirm"})),
         NEW K \in Key, k.key = K, k.met, k.open, k.context,
         k.events \in {<<"secure">>, <<"confirm", "secure">>}
  PROVE  LET l == [k EXCEPT !.events = Tail(@)]
         IN  /\ l.key = K /\ l.out = k.out /\ l.open /\ Proper(l)
             /\ k.events = <<"secure">> => Polled(k) = l /\ PolledOut(k) = <<>> /\ ~Asks(k) /\ l.events = <<>>
             /\ k.events = <<"confirm", "secure">> => Asks(k) /\ l.events = <<"secure">>
             /\ \A secure \in BOOLEAN : Secured(k, secure) = TRUE
<1> DEFINE l == [k EXCEPT !.events = Tail(@)]
<1>1. K # None
  BY NoneAssumption DEF Key
<1> HIDE DEF Key
<1>2. /\ l.key = K /\ l.out = k.out /\ l.open = k.open /\ l.context = k.context /\ l.met = k.met
      /\ l.events = Tail(k.events)
  <2>1. CASE k \in Record(Seq({"secure"}))
    BY <2>1 DEF Record
  <2>2. CASE k \in Record(Seq({"secure", "confirm"}))
    BY <2>2 DEF Record
  <2> QED BY <2>1, <2>2
<1>3. k.events # <<>>
  BY OneEvent, TwoEvents
<1>4. Polled(k) = l /\ PolledOut(k) = <<>> /\ \A secure \in BOOLEAN : Secured(k, secure) = TRUE
  BY <1>3 DEF Polled, PolledOut, Secured
<1> HIDE DEF l
<1>5. Proper(l)
  BY <1>1, <1>2 DEF Proper
<1>6. k.events = <<"secure">> => ~Asks(k) /\ l.events = <<>>
  BY <1>2 DEF Asks
<1>7. k.events = <<"confirm", "secure">> => Asks(k) /\ l.events = <<"secure">>
  <2> SUFFICES ASSUME k.events = <<"confirm", "secure">> PROVE Asks(k) /\ l.events = <<"secure">>
    OBVIOUS
  <2>1. Head(k.events) = "confirm" /\ Tail(k.events) = <<"secure">>
    BY Zenon, TwoEvents
  <2> QED BY <1>2, <1>3, <2>1 DEF Asks
<1> QED BY <1>2, <1>4, <1>5, <1>6, <1>7 DEF l

\* A key was agreed on: the session is secure, or the user is asked first.
LEMMA Agreed ==
  ASSUME Accepting, NEW p \in Peer, NEW v, NEW w, Step(p, v, w), NEW k, KryptoniteStep(p, k),
         Head(net[p]).otr[1] \in {"Reveal", "Sig"}, conv[p].key = None,
         k \in Record(Seq({"secure"})) \cup Record(Seq({"secure", "confirm"})),
         NEW K \in Key, k.key = K, k.met, k.open, k.context,
         k.events \in {<<"secure">>, <<"confirm", "secure">>},
         NEW u, Pair(u, w, Tail(net[p]), net[Other(p)]),
         u.key = K, u.n = v.n, u.at = "busy", u.caller = sess[p][handler[p]].started,
         \/ u.role = "held" /\ v.role \in Starts /\ k.out = <<<<"Sig", K[1], K[2]>>>>
         \/ u.role = "shared" /\ v.role \in Responds /\ k.out = <<>>
  PROVE  KeysInv'
<1> DEFINE q == Other(p)
           c == handler[p]
           s == sess[p][c]
           m == Head(net[p]).otr
           l == [k EXCEPT !.events = Tail(@)]
<1>1. /\ SurfaceInv /\ q \in Peer /\ q # p /\ net[q] \in Seq(Message)
      /\ c \in Call /\ c # 0 /\ s \in Session /\ v.role \in Place(c, s) /\ thread \in [Peer -> Thread]
      /\ Exchanges(p, c) /\ UNCHANGED <<rung, over, handler, active, starting, pending>>
      /\ nonce'[q] = nonce[q] /\ Proper(conv[p]) /\ (conv[p].key = None => ~s.secure) /\ v.n = nonce[p]
      /\ nonce'[p] = (IF Generates(m, conv[p]) THEN nonce[p] + 1 ELSE nonce[p])
  BY StepKnows, ZenonT(60)
<1>2. Types /\ ~s.secure /\ s.secure \in BOOLEAN
  BY <1>1 DEF SurfaceInv, Session
<1>3. /\ m[1] # "Error"
      /\ IF Asks(k)
         THEN conv' = [conv EXCEPT ![p] = l] /\ Answer(p, <<>>) /\ Busy(p, "asking", c) /\ UNCHANGED sess
         ELSE /\ conv' = [conv EXCEPT ![p] = Polled(k)] /\ Answer(p, PolledOut(k))
              /\ sess' = [sess EXCEPT ![p][c].secure = Secured(k, @)]
              /\ IF sess'[p][c].secure # s.secure THEN Busy(p, "changed", c) ELSE Done(p)
      /\ Decrypt(p, m, k)
  BY DEF KryptoniteStep
<1>4. /\ l.key = K /\ l.out = k.out /\ l.open /\ Proper(l)
      /\ k.events = <<"secure">> => Polled(k) = l /\ PolledOut(k) = <<>> /\ ~Asks(k) /\ l.events = <<>>
      /\ k.events = <<"confirm", "secure">> => Asks(k) /\ l.events = <<"secure">>
      /\ \A secure \in BOOLEAN : Secured(k, secure) = TRUE
  BY EventTaken
<1>5. nonce'[p] = nonce[p]
  BY <1>1 DEF Generates
<1>6. K # None
  BY NoneAssumption DEF Key
<1> HIDE DEF q, c, s, m, l
<1>7. conv' = [conv EXCEPT ![p] = l] /\ Answer(p, <<>>)
  BY <1>3, <1>4
<1>8. conv'[p] = l /\ conv'[q] = conv[q]
  BY <1>1, <1>2, <1>7 DEF Types
<1>9. /\ trusted' = [trusted EXCEPT ![p] = @ \cup {k.key}] \/ trusted' = trusted
      /\ k.events = <<"secure">> => trusted' = [trusted EXCEPT ![p] = @ \cup {k.key}]
  <2>1. k.events = <<"secure">> => "confirm" \notin ToSet(k.events)
    BY DEF ToSet
  <2>2. ~conv[p].met /\ k.key # conv[p].key
    BY <1>1, <1>6 DEF Proper
  <2> QED BY <1>3, <2>1, <2>2 DEF Decrypt
<1>10. /\ trusted'[q] = trusted[q] /\ trusted[p] \subseteq trusted'[p]
       /\ k.events = <<"secure">> => K \in trusted'[p]
  BY <1>1, <1>9 DEF Accepting
<1>11. ConvOK(u, l)
  BY <1>4 DEF ConvOK, Dead, Keyed
<1>12. /\ sess'[p][c].state = s.state /\ sess'[p][c].running = s.running
       /\ sess'[p][c].started = s.started /\ sess'[p][c].key = s.key
       /\ \A d \in Call : d # c => sess'[p][d] = sess[p][d]
       /\ sess'[q] = sess[q]
       /\ k.events = <<"secure">> => sess'[p][c].secure = TRUE
  <2>1. CASE k.events = <<"secure">>
    <3>1. sess' = [sess EXCEPT ![p][c].secure = TRUE]
      <4>1. sess' = [sess EXCEPT ![p][c].secure = Secured(k, @)]
        BY <1>3, <1>4, <2>1
      <4>2. Secured(k, s.secure) = TRUE
        BY <1>2, <1>4
      <4> QED BY <4>1, <4>2 DEF s
    <3>2. sess \in [Peer -> [Call -> Session]]
      BY <1>2 DEF Types
    <3> QED BY <1>1, <3>1, <3>2 DEF Session, s
  <2>2. CASE k.events = <<"confirm", "secure">>
    <3>1. sess' = sess /\ k.events # <<"secure">>
      BY <1>3, <1>4, <2>2
    <3> QED BY <3>1 DEF s
  <2> QED BY <2>1, <2>2
<1>13. PICK at \in {"asking", "changed"} :
         /\ thread' = [thread EXCEPT ![p] = [at |-> at, c |-> c]]
         /\ at = "asking" => k.events = <<"confirm", "secure">>
         /\ at = "changed" => k.events = <<"secure">>
  <2>1. CASE k.events = <<"secure">>
    <3>1. Busy(p, "changed", c)
      BY <1>2, <1>3, <1>4, <1>12, <2>1
    <3> QED BY <2>1, <3>1 DEF Busy
  <2>2. CASE k.events = <<"confirm", "secure">>
    <3>1. Busy(p, "asking", c)
      BY <1>3, <1>4, <2>2
    <3> QED BY <2>2, <3>1 DEF Busy
  <2> QED BY <2>1, <2>2
<1>14. /\ thread'[p] = [at |-> at, c |-> c] /\ thread'[q] = thread[q]
       /\ thread'[p] # Idle /\ thread'[p].c = c /\ thread'[p].at = at
  <2>1. thread'[p] = [at |-> at, c |-> c] /\ thread'[q] = thread[q]
    BY <1>1, <1>13
  <2>2. [at |-> at, c |-> c] # Idle
    BY <1>1, <1>13, ThreadIs
  <2> QED BY <2>1, <2>2
<1>15. WorkOK(p)'
  <2>1. sess'[p][c].state \in {"ExchangingKeys", "Routing"}
    BY <1>1, <1>12 DEF Exchanges, s
  <2>2. handler'[p] = c
    BY <1>1 DEF c
  <2>3. at = "asking" => conv'[p].events = <<"secure">> /\ conv'[p].key # None
    BY <1>4, <1>6, <1>8, <1>13
  <2>4. at = "changed" => conv'[p].key \in trusted'[p] /\ conv'[p].events = <<>>
    BY <1>4, <1>8, <1>10, <1>13
  <2> QED BY <1>13, <1>14, <2>1, <2>2, <2>3, <2>4 DEF WorkOK, Exchanges
<1>16. u.at = AtOf(thread'[p])
  BY <1>13, <1>14 DEF AtOf
<1>17. Pair(u, w, Tail(net[p]), net[q] \o <<>>)
  <2>1. net[q] \o <<>> = net[q]
    BY <1>1
  <2> QED BY <2>1 DEF q
<1>18. Aside(q)
  BY <1>1, <1>8, <1>12, <1>14 DEF Aside
<1>19. u.role \notin Dead /\ v.role \notin Dead /\ (v.role \in Starts => u.role \in Starts)
       /\ (v.role \in Responds => u.role \in Responds)
  BY DEF Dead, Starts, Responds
<1>20. KeysInv /\ SurfaceInv' /\ Seems(q, w)
  BY DEF Step, q
<1>21. u.caller = (thread'[p] # Idle /\ s.started)
  <2>1. s.started \in BOOLEAN /\ u.caller = s.started
    BY <1>1 DEF Session, s, c
  <2> QED BY <1>14, <2>1
<1>22. u.n = nonce'[p]
  BY <1>1, <1>5
<1> QED BY ZenonT(60), <1>1, <1>7, <1>8, <1>10, <1>11, <1>12, <1>14, <1>15, <1>16, <1>17, <1>18, <1>19, <1>20,
           <1>21, <1>22, Handles DEF q, c, s

\* The key is revealed to the one that replied: it has the key, and waits to tell.
LEMMA RevealTaken ==
  ASSUME Accepting, NEW p \in Peer, NEW v, NEW w, Step(p, v, w), NEW k, KryptoniteStep(p, k),
         Kind(Head(net[p])) = "Reveal"
  PROVE  KeysInv'
<1> DEFINE q == Other(p)
           m == Head(net[p]).otr
           k0 == conv[p]
           K == v.key
<1>1. /\ net[q] \in Seq(Message) /\ net[p] # <<>> /\ m[1] = "Reveal" /\ m \in Otr
      /\ v.n + 1 \in Nat /\ k \in Receiving(k0, m, v.n + 1)
      /\ k0 \in Conversation /\ Proper(k0) /\ ConvOK(v, k0)
      /\ v.role \in Starts \cup Responds /\ v.at = "idle"
  BY StepView
<1>2. Pair(v, w, net[p], net[q])
  BY DEF Step
<1>3. v.role = "replied" /\ Head(net[p]) = RevealOf(K)
  BY <1>1, <1>2, Meets
<1>4. K \in Key /\ m = <<"Reveal", K[1], K[2]>> /\ <<K[1], K[2]>> = K /\ K[1] \in Nat /\ K[2] \in Nat
  <2>1. K \in Key
    BY <1>2, <1>3 DEF Pair, View
  <2>2. m = <<"Reveal", K[1], K[2]>>
    BY <1>3 DEF RevealOf, Kryptonite
  <2> QED BY <2>1, <2>2 DEF Key
<1>5. k0.key = None /\ k0.events = <<>> /\ k0.out = <<>> /\ k0.auth = <<"key", K[1], K[2]>>
  BY <1>1, <1>3 DEF ConvOK
<1> HIDE DEF q, m, k0, K
<1>6. m[2] = K[1] /\ m[3] = K[2]
  BY <1>4
<1>7. PICK r \in GoesSecure(Sending(k0), K) : k = Inject(r, <<"Sig", K[1], K[2]>>)
  <2>1. k0.auth = <<"key", m[2], m[3]>> /\ <<m[2], m[3]>> = K
    BY <1>4, <1>5, <1>6
  <2>2. \E r \in GoesSecure(Sending(k0), <<m[2], m[3]>>) : k = Inject(r, <<"Sig", m[2], m[3]>>)
    BY <1>1, <2>1, Receives
  <2> QED BY <1>6, <2>1, <2>2
<1> DEFINE l == Sending(k0)
<1>8. l \in Conversation /\ l.open /\ l.context /\ l.key = None /\ ~l.met /\ l.events = <<>> /\ l.out = <<>>
  <2>1. ~k0.met
    BY <1>1, <1>5 DEF Proper
  <2> QED BY <1>1, <1>5, <2>1, SendingLeaves
<1> HIDE DEF l
<1>9. /\ r.key = K /\ r.met /\ r.open /\ r.context /\ r.out = <<>>
      /\ r.events \in {<<"secure">>, <<"confirm", "secure">>}
  BY <1>4, <1>7, <1>8, SecureLeaves DEF l
<1>10. r \in Record(Seq({"secure"})) \cup Record(Seq({"secure", "confirm"}))
  BY <1>4, <1>7, <1>8, SecureHasKey DEF l, Conversation
<1> DEFINE o == <<"Sig", K[1], K[2]>>
<1>11. o \in Otr /\ Append(<<>>, o) = <<o>>
  BY <1>4 DEF Otr
<1> HIDE DEF o
<1>12. k = [r EXCEPT !.out = <<o>>]
  BY <1>7, <1>9, <1>11 DEF Inject, o
<1>13. /\ k \in Record(Seq({"secure"})) \cup Record(Seq({"secure", "confirm"}))
       /\ k.key = K /\ k.met /\ k.open /\ k.context /\ k.events = r.events /\ k.out = <<o>>
  <2>1. <<o>> \in Seq(Otr)
    BY <1>11
  <2> HIDE DEF Key, Auth
  <2>2. CASE r \in Record(Seq({"secure"}))
    BY <1>9, <1>12, <2>1, <2>2 DEF Record
  <2>3. CASE r \in Record(Seq({"secure", "confirm"}))
    BY <1>9, <1>12, <2>1, <2>3 DEF Record
  <2> QED BY <1>10, <2>2, <2>3
<1> DEFINE u == [v EXCEPT !.role = "held", !.at = "busy", !.caller = TRUE]
<1>14. u.role = "held" /\ u.key = K /\ u.n = v.n /\ u.at = "busy" /\ u.caller = TRUE
  BY <1>2 DEF Pair, View, K
<1>15. Pair(u, w, Tail(net[p]), net[q])
  BY Zenon, <1>1, <1>2, <1>3, AtReveal
<1> HIDE DEF u
<1>16. u.caller = sess[p][handler[p]].started /\ v.role \in Starts
  <2>1. v.role \in Starts
    BY <1>3 DEF Starts
  <2>2. sess[p][handler[p]].started /\ sess[p][handler[p]] \in Session
    BY <2>1, StepKnows
  <2>3. sess[p][handler[p]].started \in BOOLEAN
    BY <2>2 DEF Session
  <2> QED BY <1>14, <2>1, <2>2, <2>3
<1>17. Head(net[p]).otr[1] \in {"Reveal", "Sig"} /\ conv[p].key = None
  BY <1>1, <1>5 DEF m, k0
<1>18. k.out = <<<<"Sig", K[1], K[2]>>>>
  BY <1>13 DEF o
<1> QED BY <1>4, <1>9, <1>13, <1>14, <1>15, <1>16, <1>17, <1>18, Agreed DEF q

\* The one that revealed its key hears that the other has it: they share it.
LEMMA SigTaken ==
  ASSUME Accepting, NEW p \in Peer, NEW v, NEW w, Step(p, v, w), NEW k, KryptoniteStep(p, k),
         Kind(Head(net[p])) = "Sig"
  PROVE  KeysInv'
<1> DEFINE q == Other(p)
           m == Head(net[p]).otr
           k0 == conv[p]
           K == v.key
<1>1. /\ net[q] \in Seq(Message) /\ net[p] # <<>> /\ m[1] = "Sig" /\ m \in Otr
      /\ v.n + 1 \in Nat /\ k \in Receiving(k0, m, v.n + 1)
      /\ k0 \in Conversation /\ Proper(k0) /\ ConvOK(v, k0)
      /\ v.role \in Starts \cup Responds /\ v.at = "idle"
  BY StepView
<1>2. Pair(v, w, net[p], net[q])
  BY DEF Step
<1>3. v.role = "revealed" /\ Head(net[p]) = SigOf(K)
  BY <1>1, <1>2, Meets
<1>4. K \in Key /\ m = <<"Sig", K[1], K[2]>> /\ <<K[1], K[2]>> = K
  <2>1. K \in Key
    BY <1>2, <1>3 DEF Pair, View
  <2>2. m = <<"Sig", K[1], K[2]>>
    BY <1>3 DEF SigOf, Kryptonite
  <2> QED BY <2>1, <2>2 DEF Key
<1>5. k0.key = None /\ k0.events = <<>> /\ k0.out = <<>> /\ k0.auth = <<"reveal", K[1], K[2]>>
  BY <1>1, <1>3 DEF ConvOK
<1> HIDE DEF q, m, k0, K
<1>6. m[2] = K[1] /\ m[3] = K[2]
  BY <1>4
<1>7. k \in GoesSecure(Sending(k0), K)
  <2>1. k0.auth = <<"reveal", m[2], m[3]>> /\ <<m[2], m[3]>> = K
    BY <1>4, <1>5, <1>6
  <2>2. k \in GoesSecure(Sending(k0), <<m[2], m[3]>>)
    BY <1>1, <2>1, Receives
  <2> QED BY <2>1, <2>2
<1> DEFINE l == Sending(k0)
<1>8. l \in Conversation /\ l.open /\ l.context /\ l.key = None /\ ~l.met /\ l.events = <<>> /\ l.out = <<>>
  <2>1. ~k0.met
    BY <1>1, <1>5 DEF Proper
  <2> QED BY <1>1, <1>5, <2>1, SendingLeaves
<1> HIDE DEF l
<1>9. /\ k.key = K /\ k.met /\ k.open /\ k.context /\ k.out = <<>>
      /\ k.events \in {<<"secure">>, <<"confirm", "secure">>}
  BY <1>4, <1>7, <1>8, SecureLeaves DEF l
<1>10. k \in Record(Seq({"secure"})) \cup Record(Seq({"secure", "confirm"}))
  BY <1>4, <1>7, <1>8, SecureHasKey DEF l, Conversation
<1> DEFINE u == [v EXCEPT !.role = "shared", !.at = "busy", !.caller = FALSE]
<1>11. u.role = "shared" /\ u.key = K /\ u.n = v.n /\ u.at = "busy" /\ u.caller = FALSE
  BY <1>2 DEF Pair, View, K
<1>12. Pair(u, w, Tail(net[p]), net[q])
  BY Zenon, <1>1, <1>2, <1>3, AtSig
<1> HIDE DEF u
<1>13. u.caller = sess[p][handler[p]].started /\ v.role \in Responds
  <2>1. v.role \in Responds /\ v.role \notin Starts
    BY <1>3 DEF Starts, Responds
  <2>2. ~sess[p][handler[p]].started /\ sess[p][handler[p]] \in Session
    BY <2>1, StepKnows
  <2>3. sess[p][handler[p]].started \in BOOLEAN
    BY <2>2 DEF Session
  <2> QED BY <1>11, <2>1, <2>2, <2>3
<1>14. Head(net[p]).otr[1] \in {"Reveal", "Sig"} /\ conv[p].key = None
  BY <1>1, <1>5 DEF m, k0
<1> QED BY <1>4, <1>9, <1>10, <1>11, <1>12, <1>13, <1>14, Agreed DEF q

\* A Kryptonite message comes.
LEMMA KryptoniteReceivedKeys ==
  ASSUME Accepting, KeysInv, SurfaceInv', NEW p \in Peer, KryptoniteReceived(p)
  PROVE  KeysInv'
<1> DEFINE q == Other(p)
           c == handler[p]
           s == sess[p][c]
           m == Head(net[p]).otr
<1>0. thread[p].at # "deploying"
  BY DEF KryptoniteReceived, Incoming, Idle
<1>1. PICK v, w : Sees(p, v) /\ Seems(q, w) /\ Pair(v, w, net[p], net[q])
  BY <1>0, BeforeSeen
<1>2. SurfaceInv /\ SessionsOK(p) /\ q \in Peer /\ q # p /\ Types
  BY Before, TwoPeers DEF SurfaceInv
<1>3. /\ c # 0 /\ thread[p] = Idle /\ net[p] # <<>> /\ pending' = pending
      /\ UNCHANGED <<rung, over, handler, active, starting>>
  BY DEF KryptoniteReceived, Incoming, Waits
<1>4. c \in Call /\ s \in Session /\ conv[p] \in Conversation
  BY <1>2, <1>3, LastSession, CallsAre
<1>5. Proper(conv[p]) /\ Told(s, trusted[p])
  BY <1>1, <1>2, <1>4 DEF Sees, ConvOK, SessionsOK
<1>6. CASE ~DeploysKryptonite(s)
  <2> DEFINE r == IF s.running THEN TornDown(s, conv[p]) ELSE Result(s, conv[p], <<>>)
  <2>1. Becomes(p, c, r) /\ Answer(p, <<>>) /\ Done(p) /\ nonce' = nonce /\ trusted' = trusted
    BY Zenon, <1>6 DEF KryptoniteReceived
  <2>2. /\ r.sess \in Session /\ ~r.sess.running /\ Told(r.sess, trusted[p])
        /\ r.conv \in Conversation
        /\ \/ Proper(r.conv) /\ r.conv.key = None /\ r.conv.events = <<>> /\ r.conv.out = <<>>
           \/ r.conv = conv[p] /\ ~s.running
    <3>1. CASE s.running
      BY <1>4, <1>5, <3>1, TornDownLeaves
    <3>2. CASE ~s.running
      BY <1>4, <1>5, <3>2 DEF Result
    <3> QED BY <3>1, <3>2
  <2> HIDE DEF r, s, c, q
  <2>3. /\ sess'[p][c] = r.sess /\ conv'[p] = r.conv
        /\ \A d \in Call : d # c => sess'[p][d] = sess[p][d]
        /\ sess'[q] = sess[q] /\ conv'[q] = conv[q]
    BY <1>2, <1>4, <2>1, <2>2, Became
  <2>4. thread'[p] = Idle /\ thread'[q] = thread[q]
    BY <1>2, <2>1 DEF Done, Types
  <2>5. Aside(q)
    BY <1>3, <2>3, <2>4 DEF Aside
  <2>6. \/ Proper(conv'[p]) /\ conv'[p].key = None /\ conv'[p].events = <<>> /\ conv'[p].out = <<>>
        \/ conv'[p] = conv[p] /\ ~s.running
    BY <2>2, <2>3
  <2> QED BY <1>3, <2>1, <2>2, <2>3, <2>4, <2>5, <2>6, TurnedDown DEF s, c, q
<1>7. CASE DeploysKryptonite(s)
  <2>1. /\ thread' = [thread EXCEPT ![p] = [at |-> "deploying", c |-> c]]
        /\ UNCHANGED <<sess, conv, net, nonce, trusted, pending>>
    BY <1>7 DEF KryptoniteReceived, Busy
  <2>2. thread'[p].at = "deploying" /\ thread'[p].c = c /\ thread'[q] = thread[q]
    BY <1>2, <2>1 DEF Types
  <2>3. s.running /\ s.state \in {"ExchangingKeys", "Routing"}
    BY <1>7 DEF DeploysKryptonite
  <2>4. v.role \in Responds \cup Starts /\ v.at = "idle" /\ v.caller = FALSE
    BY <1>1, <1>3, <1>7 DEF Sees, Place, AtOf
  <2>5. v.role \notin Keyed
    <3>1. Kind(Head(net[p])) \in {"Query", "Error", "Commit", "Key", "Reveal", "Sig", "Data"}
      <4>1. Head(net[p]).type = "Kryptonite" /\ Head(net[p]) \in Message
        BY <1>2, <1>3, HeadOfNet DEF KryptoniteReceived, Incoming, Waits
      <4>2. m \in Otr /\ Kind(Head(net[p])) = m[1]
        BY <4>1, OfKind
      <4> HIDE DEF m
      <4> QED BY <4>2 DEF Otr
    <3>2. v.role \in {"fresh", "asked", "replied", "offered", "revealed"}
      BY <1>1, <1>3, <2>4, <3>1, Meets
    <3> QED BY <3>2 DEF Keyed
  <2>6. ~Late(p)'
    BY <1>3, <2>1, <2>2, <2>3 DEF Late
  <2>7. Seems(p, v)'
    <3>1. v.role \in (Starts \cup Responds) \ Keyed
      BY <2>4, <2>5
    <3>2. v.n = nonce'[p] /\ v.role \in Place(handler'[p], sess'[p][handler'[p]]) /\ ConvOK(v, conv'[p])
      BY <1>1, <1>3, <2>1 DEF Sees
    <3> QED BY <2>2, <2>4, <2>6, <3>1, <3>2 DEF Seems, Deploys
  <2>8. Aside(q) /\ nonce'[q] = nonce[q] /\ trusted'[q] = trusted[q]
    BY <1>3, <2>1, <2>2 DEF Aside
  <2>9. SessionsOK(p)'
    BY <1>2, <1>3, <2>1 DEF SessionsOK
  <2>10. WorkOK(p)'
    BY <1>3, <2>1, <2>2, <2>3 DEF WorkOK, Exchanges
  <2> HIDE DEF q
  <2> QED BY <1>1, <2>1, <2>7, <2>8, <2>9, <2>10, StepTo DEF q
<1> QED BY <1>6, <1>7

\* What is made of a message in an empty conversation: a commitment, a key or nothing.
LEMMA EmptyReceives ==
  ASSUME NEW k \in Conversation, Empty(k), NEW m \in Otr, NEW n \in Nat, NEW r \in Receiving(k, m, n),
         m[1] # "Data", m[1] = "Commit" => m[2] \in Nat
  PROVE  /\ r \in Conversation /\ Proper(r) /\ r.open /\ r.key = None /\ r.events = <<>>
         /\ Kryptonites(r.out) = CASE m[1] = "Query" -> <<CommitOf(n)>>
                                   [] m[1] = "Commit" -> <<KeyOf(<<m[2], n>>)>>
                                   [] OTHER -> <<>>
         /\ m[1] \notin {"Query", "Commit"} => r.out = <<>>
<1> DEFINE l == Sending(k)
<1>1. /\ Proper(k) /\ k.key = None /\ k.events = <<>> /\ k.out = <<>> /\ k.auth = <<"none">>
      /\ \A a, b : k.auth # <<"key", a, b>> /\ k.auth # <<"reveal", a, b>>
      /\ \A a : k.auth # <<"commit", a>>
  BY DEF Empty
<1>2. ASSUME NEW a \in Auth, NEW o \in Otr, r = Inject([l EXCEPT !.auth = a], o)
      PROVE  /\ r \in Conversation /\ Proper(r) /\ r.open /\ r.key = None /\ r.events = <<>>
             /\ Kryptonites(r.out) = <<Kryptonite(o)>>
  <2>1. /\ r \in Conversation /\ r.open /\ r.context /\ r.key = None /\ r.met = k.met
        /\ r.events = <<>> /\ r.out = Append(<<>>, o)
    BY <1>1, <1>2, AnswerLeaves
  <2>2. Proper(r)
    BY <1>1, <2>1 DEF Proper
  <2> QED BY <2>1, <2>2, OneSent
<1>3. CASE m[1] = "Query"
  <2> DEFINE a == <<"commit", n>>
             o == <<"Commit", n>>
  <2>1. a \in Auth /\ o \in Otr
    BY DEF Auth, Otr
  <2>2. r = Inject([l EXCEPT !.auth = a], o)
    BY <1>3, Receives
  <2> QED BY <1>2, <1>3, <2>1, <2>2 DEF CommitOf
<1>4. CASE m[1] = "Commit"
  <2> DEFINE a == <<"key", m[2], n>>
             o == <<"Key", m[2], n>>
             K == <<m[2], n>>
  <2>1. a \in Auth /\ o \in Otr
    BY <1>4 DEF Auth, Otr
  <2>2. r = Inject([l EXCEPT !.auth = a], o)
    BY <1>1, <1>4, Receives
  <2>3. Kryptonite(o) = KeyOf(K)
    BY DEF KeyOf
  <2> HIDE DEF l, a, o, K
  <2> QED BY <1>2, <1>4, <2>1, <2>2, <2>3 DEF K
<1>5. CASE m[1] \notin {"Query", "Commit"}
  <2>1. m[1] \in {"Key", "Reveal", "Sig", "Error"}
    BY <1>5 DEF Otr
  <2>2. r = l
    <3>1. l = [k EXCEPT !.open = TRUE, !.context = TRUE] /\ l.auth = <<"none">>
      BY <1>1 DEF Sending, Conversation, Record
    <3> HIDE DEF l
    <3>2. l.auth # <<"key", m[2], m[3]>> /\ l.auth # <<"reveal", m[2], m[3]>> /\ l.auth # <<"commit", m[2]>>
      BY <3>1
    <3> QED BY <2>1, <3>1, <3>2 DEF Receiving, If
  <2>3. /\ r \in Conversation /\ Proper(r) /\ r.open /\ r.key = None /\ r.events = <<>> /\ r.out = <<>>
    BY <1>1, <2>2, SendingLeaves
  <2>4. Kryptonites(<<>>) = <<>>
    BY DEF Kryptonites
  <2> QED BY <1>5, <2>3, <2>4
<1> QED BY <1>3, <1>4, <1>5

\* What that means to the other peer: it had the part of the session that has ended.
LEMMA LateAnswered ==
  ASSUME NEW v, NEW w, NEW x, NEW y, Pair(v, w, x, y), v.role \in Responds \cup Starts, v.at = "idle",
         x # <<>>, NEW m \in Otr, Head(x) = Kryptonite(m), Kind(Head(x)) = m[1],
         NEW out, out = CASE m[1] = "Query" -> <<CommitOf(v.n + 1)>>
                          [] m[1] = "Commit" -> <<KeyOf(<<m[2], v.n + 1>>)>>
                          [] OTHER -> <<>>
  PROVE  LET n == IF m[1] \in {"Query", "Commit"} THEN v.n + 1 ELSE v.n
         IN  Pair([v EXCEPT !.role = "rest", !.key = None, !.n = n], w, Tail(x), y \o out)
<1> DEFINE n == IF m[1] \in {"Query", "Commit"} THEN v.n + 1 ELSE v.n
           u == [v EXCEPT !.role = "rest", !.key = None, !.n = n]
<1>1. v \in View /\ v.n \in Nat /\ v.n + 1 \in Nat /\ x \in Seq(Message) /\ y \in Seq(Message) /\ v.role # "none"
  BY DEF Pair, View, Responds, Starts
<1>2. Head(x) \in Message /\ Head(x).otr = m
  BY Meets DEF Kryptonite
<1>3. CASE m[1] = "Query"
  <2> DEFINE t == [v EXCEPT !.role = "offered", !.n = v.n + 1]
             z == <<CommitOf(v.n + 1)>>
  <2>1. v.role = "fresh"
    BY <1>3, Meets
  <2>2. <<>> \in Seq(Message) /\ (\A a \in 1..Len(<<>>) : Kind(<<>>[a]) \in Junk) /\ Upto(<<>>, "Commit", v.n)
    BY Nothing DEF Upto
  <2>3. Pair(t, w, Tail(x), (y \o <<>>) \o z)
    BY Zenon, <1>3, <2>1, <2>2, AtQuery
  <2>4. y \o <<>> = y
    BY <1>1
  <2>5. t.role # "none" /\ [t EXCEPT !.role = "rest", !.key = None] = u
    BY <1>1, <1>3 DEF View
  <2> HIDE DEF t, u, z
  <2>6. Pair(u, w, Tail(x), y \o z)
    BY Zenon, <2>3, <2>4, <2>5, AtEnd
  <2> QED BY <1>3, <2>6 DEF z, u, n
<1>4. CASE m[1] = "Commit"
  <2> DEFINE K == <<m[2], v.n + 1>>
             t == [v EXCEPT !.role = "replied", !.key = K, !.n = v.n + 1]
             z == <<KeyOf(K)>>
  <2>1. v.role \in {"asked", "replied"}
    BY <1>4, Meets
  <2>2. K \in Key /\ K[1] = Head(x).otr[2]
    <3>1. m[2] \in Nat
      BY <1>2, <1>4, OfKind
    <3> QED BY <1>1, <1>2, <3>1 DEF Key
  <2>3. v.n + 1 \in {v.n, v.n + 1}
    OBVIOUS
  <2>4. t.role # "none" /\ [t EXCEPT !.role = "rest", !.key = None] = u
    BY <1>1, <1>4 DEF View
  <2>5. z = out
    BY <1>4
  <2> HIDE DEF K
  <2>6. Pair(t, w, Tail(x), y \o z)
    BY Zenon, <1>4, <2>1, <2>2, <2>3, AtCommit
  <2> HIDE DEF t, u, z
  <2>7. Pair(u, w, Tail(x), y \o z)
    BY Zenon, <2>4, <2>6, AtEnd
  <2> QED BY <2>5, <2>7 DEF u, n
<1>5. CASE m[1] \notin {"Query", "Commit"}
  <2> DEFINE t == [v EXCEPT !.role = "rest", !.key = None]
  <2>1. Pair(t, w, x, y)
    BY Zenon, <1>1, AtEnd
  <2>2. t.role \in Dead /\ t.at = "idle" /\ t.n = v.n /\ v.n \in {v.n, v.n + 1} /\ [t EXCEPT !.n = v.n] = u
    BY <1>1, <1>5 DEF View, Dead
  <2> HIDE DEF t, u
  <2>3. Pair(u, w, Tail(x), y)
    BY <2>1, <2>2, AtSkip
  <2>4. y \o out = y
    BY <1>1, <1>5
  <2> QED BY <2>3, <2>4 DEF u, n
<1> QED BY <1>3, <1>4, <1>5

\* The session that the message was for has ended, or the handler of another call has taken
\* its place: the conversation is opened again, and OTR answers into the void.
LEMMA LateDeployKeys ==
  ASSUME KeysInv, SurfaceInv', NEW p \in Peer, Deploy(p), Late(p)
  PROVE  KeysInv'
<1> DEFINE q == Other(p)
           h == handler[p]
           c == thread[p].c
           m == Head(net[p]).otr
           n == nonce[p] + 1
<1>1. thread[p].at = "deploying" /\ net[p] # <<>> /\ Head(net[p]).type = "Kryptonite" /\ UNCHANGED callVars
  BY DEF Deploy, Waits
<1>2. PICK v, w : Seems(p, v) /\ Seems(q, w) /\ Pair(v, w, net[p], net[q])
  BY Before
<1>3. /\ SurfaceInv /\ Types /\ SessionsOK(p) /\ WorkOK(p) /\ q \in Peer /\ q # p
      /\ nonce[p] \in Nat /\ n \in Nat /\ conv[p] \in Conversation
  <2>1. SurfaceInv /\ SessionsOK(p) /\ WorkOK(p)
    BY Before
  <2>2. q \in Peer /\ q # p /\ Types
    BY <2>1, TwoPeers DEF SurfaceInv
  <2>3. nonce[p] \in Nat /\ conv[p] \in Conversation
    BY <2>1, CallsAre
  <2> QED BY <2>1, <2>2, <2>3
<1>4. /\ v.n = nonce[p] /\ v.at = "idle" /\ v.caller = FALSE
      /\ v.role \in Responds \cup Starts /\ Empty(conv[p])
  <2>1. Deploys(p, v)
    BY <1>1, <1>2, NotSeen DEF Pair
  <2> QED BY <2>1 DEF Deploys
<1>5. m \in Otr /\ Head(net[p]) = Kryptonite(m) /\ Kind(Head(net[p])) = m[1]
  <2>1. Head(net[p]) \in Message
    BY <1>1, <1>3, HeadOfNet
  <2> QED BY <1>1, <2>1, OfKind
<1>6. m[1] # "Data" /\ (m[1] = "Commit" => m[2] \in Nat)
  <2>1. Head(net[p]) \in Message /\ Kind(Head(net[p])) # "Data"
    BY <1>1, <1>2, <1>4, Meets
  <2> QED BY <1>5, <2>1, OfKind
<1>7. PICK k \in Receiving(conv[p], m, n) :
        /\ Decrypt(p, m, k)
        /\ IF m[1] = "Error"
           THEN conv' = [conv EXCEPT ![p] = k] /\ Answer(p, <<>>) /\ Done(p) /\ UNCHANGED sess
           ELSE IF Asks(k)
           THEN /\ conv' = [conv EXCEPT ![p] = [k EXCEPT !.events = Tail(@)]]
                /\ Answer(p, <<>>) /\ Busy(p, "asking", c)
                /\ UNCHANGED sess
           ELSE /\ conv' = [conv EXCEPT ![p] = Polled(k)]
                /\ Answer(p, PolledOut(k))
                /\ sess' = [sess EXCEPT ![p][c].secure = Secured(k, @)]
                /\ NextChange(p, c, sess[p][c].secure)
  BY DEF Deploy
<1> DEFINE out == CASE m[1] = "Query" -> <<CommitOf(n)>>
                    [] m[1] = "Commit" -> <<KeyOf(<<m[2], n>>)>>
                    [] OTHER -> <<>>
<1>8. /\ k \in Conversation /\ Proper(k) /\ k.open /\ k.key = None /\ k.events = <<>>
      /\ Kryptonites(k.out) = out /\ (m[1] \notin {"Query", "Commit"} => k.out = <<>>)
  <2> HIDE DEF m, n
  <2> QED BY <1>3, <1>4, <1>5, <1>6, EmptyReceives
<1>9. /\ conv[p].key = None /\ conv[p].auth = <<"none">> /\ conv[p].auth[1] = "none"
  BY <1>4 DEF Empty
<1>10. trusted' = trusted /\ nonce' = [nonce EXCEPT ![p] = IF m[1] \in {"Query", "Commit"} THEN n ELSE nonce[p]]
  <2> HIDE DEF m, n
  <2>1. Generates(m, conv[p]) <=> m[1] \in {"Query", "Commit"}
    BY <1>9 DEF Generates
  <2>2. trusted' = trusted
    BY <1>7, <1>8, <1>9 DEF Decrypt
  <2> QED BY <1>7, <2>1, <2>2 DEF Decrypt, n
<1>11. c \in Call /\ c <= h /\ h \in Call /\ h # 0 /\ sess[p][c] \in Session /\ thread[p] # Idle
  <2>1. thread[p] # Idle
    BY <1>1 DEF Idle
  <2>2. c \in Call /\ c <= h
    BY <1>3, <2>1, CallsAre, ThreadIs DEF SurfaceInv, PeerOK, HandlerOK
  <2>3. h \in 0..MaxCalls /\ MaxCalls \in Nat
    BY <1>3, CallsAre
  <2>4. h # 0 /\ h \in Call
    BY <2>2, <2>3 DEF Call
  <2> QED BY <1>3, <2>1, <2>2, <2>4, CallsAre
<1>12. /\ Proper(conv'[p]) /\ conv'[p].key = None /\ conv'[p].events = <<>> /\ conv'[p].out = <<>>
       /\ Answer(p, out) /\ thread'[p] = Idle /\ thread'[q] = thread[q] /\ conv'[q] = conv[q]
       /\ sess'[q] = sess[q] /\ \A d \in Call : sess'[p][d] = sess[p][d]
  <2> HIDE DEF m, out, c, h, q, n
  <2>1. CASE m[1] = "Error"
    <3>1. conv' = [conv EXCEPT ![p] = k] /\ Answer(p, <<>>) /\ thread' = [thread EXCEPT ![p] = Idle] /\ sess' = sess
      BY <1>7, <2>1 DEF Done
    <3>2. out = <<>> /\ k.out = <<>>
      BY <1>8, <2>1 DEF out
    <3> QED BY <1>3, <1>8, <3>1, <3>2 DEF Types
  <2>2. CASE m[1] # "Error"
    <3>1. ~Asks(k)
      BY <1>8 DEF Asks
    <3>2. /\ conv' = [conv EXCEPT ![p] = Polled(k)] /\ Answer(p, PolledOut(k))
          /\ sess' = [sess EXCEPT ![p][c].secure = Secured(k, @)]
          /\ NextChange(p, c, sess[p][c].secure)
      BY <1>7, <2>2, <3>1
    <3>3. PolledOut(k) = out /\ Secured(k, sess[p][c].secure) = sess[p][c].secure
      BY <1>8, <1>11 DEF PolledOut, Secured, Session
    <3>4. /\ sess'[q] = sess[q] /\ \A d \in Call : sess'[p][d] = sess[p][d]
      <4>1. sess' = [sess EXCEPT ![p][c].secure = sess[p][c].secure] /\ sess \in [Peer -> [Call -> Session]]
        BY <1>3, <3>2, <3>3 DEF Types
      <4>2. [sess[p][c] EXCEPT !.secure = sess[p][c].secure] = sess[p][c]
        BY <1>11 DEF Session
      <4> QED BY <1>3, <1>11, <4>1, <4>2
    <3>5. thread' = [thread EXCEPT ![p] = Idle]
      BY <1>11, <3>2, <3>4 DEF NextChange, Done
    <3>6. Proper(Polled(k)) /\ Polled(k).key = None /\ Polled(k).events = <<>> /\ Polled(k).out = <<>>
      BY <1>8, PolledLeaves
    <3> QED BY <1>3, <3>2, <3>3, <3>4, <3>5, <3>6 DEF Types
  <2> QED BY <2>1, <2>2
<1>13. UNCHANGED <<rung, over, handler, active, starting, pending>>
  BY <1>1 DEF callVars
<1>14. Aside(q) /\ nonce'[q] = nonce[q] /\ trusted'[q] = trusted[q]
  <2>1. nonce'[q] = nonce[q]
    BY <1>3, <1>10 DEF Types
  <2> HIDE DEF q
  <2> QED BY <1>10, <1>12, <1>13, <2>1 DEF Aside
<1>15. SessionsOK(p)'
  BY <1>3, <1>9, <1>10, <1>11, <1>12, <1>13 DEF SessionsOK
<1>16. WorkOK(p)'
  BY <1>12 DEF WorkOK
<1>17. PICK u : /\ Pair(u, w, Tail(net[p]), net[q] \o out)
                /\ u.role = "rest" /\ u.at = "idle" /\ u.caller = FALSE
                /\ u.n = IF m[1] \in {"Query", "Commit"} THEN n ELSE nonce[p]
  <2> DEFINE r == [v EXCEPT !.role = "rest", !.key = None,
                            !.n = IF m[1] \in {"Query", "Commit"} THEN v.n + 1 ELSE v.n]
  <2>1. out = CASE m[1] = "Query" -> <<CommitOf(v.n + 1)>>
                [] m[1] = "Commit" -> <<KeyOf(<<m[2], v.n + 1>>)>>
                [] OTHER -> <<>>
    BY <1>4
  <2> HIDE DEF m, out, q
  <2>2. Pair(r, w, Tail(net[p]), net[q] \o out)
    BY Zenon, <1>1, <1>2, <1>4, <1>5, <2>1, LateAnswered
  <2>3. /\ r.role = "rest" /\ r.at = "idle" /\ r.caller = FALSE
        /\ r.n = IF m[1] \in {"Query", "Commit"} THEN n ELSE nonce[p]
    BY <1>2, <1>4 DEF Pair, View
  <2> QED BY <2>2, <2>3
<1> HIDE DEF out, m, c
<1>18. net'[p] = Tail(net[p]) /\ net'[q] = net[q] \o out
  BY <1>3, <1>12, Delivered
<1>19. u.n = nonce'[p]
  BY <1>3, <1>10, <1>17 DEF Types
<1>20. Place(h, sess[p][h]) = {"rest"}
  <2>1. CASE c # h
    <3>1. sess[p][h].state = "Start" /\ ~sess[p][h].started
      BY <1>3, <1>11, <2>1 DEF WorkOK, SessionsOK, Told, c
    <3> QED BY <1>11, <3>1 DEF Place, DeploysKryptonite
  <2>2. CASE ~sess[p][h].running
    BY <1>11, <2>2 DEF Place, DeploysKryptonite
  <2> QED BY <2>1, <2>2 DEF Late, c
<1>21. Sees(p, u)'
  <2>1. JunkOnly(<<>>, u.n)
    BY DEF JunkOnly
  <2>2. ConvOK(u, conv'[p])
    BY <1>12, <1>17, <2>1 DEF ConvOK, Dead, Keyed
  <2>3. handler'[p] = h /\ sess'[p][h] = sess[p][h]
    BY <1>11, <1>12, <1>13
  <2>4. Place(handler'[p], sess'[p][handler'[p]]) = {"rest"} /\ thread'[p] = Idle
    BY <1>12, <1>20, <2>3
  <2>5. u.at = AtOf(thread'[p]) /\ u.caller = (thread'[p] # Idle /\ sess'[p][thread'[p].c].started)
    BY <1>17, <2>4 DEF AtOf
  <2> QED BY <1>17, <1>19, <2>2, <2>4, <2>5 DEF Sees
<1>22. Pair(u, w, net'[p], net'[q])
  BY <1>17, <1>18
<1> QED BY <1>2, <1>14, <1>15, <1>16, <1>21, <1>22, StepOf

\* The message is handed to Kryptonite.
LEMMA DeployKeys ==
  ASSUME Accepting, KeysInv, SurfaceInv', NEW p \in Peer, Deploy(p)
  PROVE  KeysInv'
<1> DEFINE q == Other(p)
           c == handler[p]
           s == sess[p][c]
           m == Head(net[p]).otr
<1>1. CASE Late(p)
  BY <1>1, LateDeployKeys
<1>2. CASE ~Late(p)
  <2>1. PICK v, w : Seems(p, v) /\ Seems(q, w) /\ Pair(v, w, net[p], net[q])
    BY Before
  <2>2. thread[p].at = "deploying" /\ Waits(p, "Kryptonite") /\ UNCHANGED callVars /\ thread[p].c = c
    BY <1>2 DEF Deploy, Late
  <2>3. PICK k \in Receiving(conv[p], m, nonce[p] + 1) :
          /\ Decrypt(p, m, k)
          /\ IF m[1] = "Error"
             THEN conv' = [conv EXCEPT ![p] = k] /\ Answer(p, <<>>) /\ Done(p) /\ UNCHANGED sess
             ELSE IF Asks(k)
             THEN /\ conv' = [conv EXCEPT ![p] = [k EXCEPT !.events = Tail(@)]]
                  /\ Answer(p, <<>>) /\ Busy(p, "asking", c)
                  /\ UNCHANGED sess
             ELSE /\ conv' = [conv EXCEPT ![p] = Polled(k)]
                  /\ Answer(p, PolledOut(k))
                  /\ sess' = [sess EXCEPT ![p][c].secure = Secured(k, @)]
                  /\ IF sess'[p][c].secure # s.secure THEN Busy(p, "changed", c) ELSE Done(p)
    BY <2>2 DEF Deploy, NextChange
  <2>4. KryptoniteStep(p, k)
    BY <1>2, <2>2, <2>3 DEF KryptoniteStep
  <2>5. Step(p, v, w)
    BY <2>1 DEF Step
  <2>6. Kind(Head(net[p])) = m[1] /\ m \in Otr /\ v.role \in Responds \cup Starts /\ net[p] # <<>>
    BY <2>4, <2>5, StepView
  <2>7. m[1] \in {"Query", "Error", "Commit", "Key", "Reveal", "Sig", "Data"}
    <3> HIDE DEF m
    <3> QED BY <2>6 DEF Otr
  <2>8. Kind(Head(net[p])) # "Data"
    BY <2>1, <2>6, Meets
  <2> HIDE DEF m, q, c, s
  <2> QED BY <2>4, <2>5, <2>6, <2>7, <2>8, QueryTaken, CommitTaken, ErrorTaken, KeyTaken, RevealTaken,
             SigTaken
<1> QED BY <1>1, <1>2

\* A Bottom message is decrypted, and becomes k.
BottomStep(p, k) ==
  LET c == handler[p]
      s == sess[p][c]
      m == Head(net[p]).otr
      t == [s EXCEPT !.secure = Secured(k, @)]
  IN  /\ Incoming(p, "Bottom") /\ c # 0 /\ pending' = pending /\ Decrypt(p, m, k)
      /\ IF ~Deciphers(conv[p], m)
         THEN conv' = [conv EXCEPT ![p] = k] /\ Answer(p, <<>>) /\ Done(p) /\ UNCHANGED sess
         ELSE /\ Answer(p, PolledOut(k))
              /\ IF t.running /\ ~DeploysBottom(t)
                 THEN Becomes(p, c, TornDown(t, Polled(k))) /\ Done(p)
                 ELSE /\ Becomes(p, c, Result([t EXCEPT !.heard = @ \/ t.running], Polled(k), <<>>))
                      /\ IF t.running /\ m[3] = "Request" THEN Busy(p, "answer", c) ELSE Done(p)

\* What is known when a Bottom message is taken.
LEMMA BottomKnows ==
  ASSUME NEW p \in Peer, NEW v, NEW w, Step(p, v, w), NEW k, BottomStep(p, k)
  PROVE  LET q == Other(p)
             c == handler[p]
             s == sess[p][c]
             m == Head(net[p]).otr
             k0 == conv[p]
         IN  /\ SurfaceInv /\ SessionsOK(p) /\ q \in Peer /\ q # p /\ net[q] \in Seq(Message)
             /\ c \in Call /\ c # 0 /\ s \in Session
             /\ thread[p] = Idle /\ thread \in [Peer -> Thread] /\ nonce \in [Peer -> Nat]
             /\ UNCHANGED <<rung, over, handler, active, starting, pending>>
             /\ net[p] # <<>> /\ Head(net[p]) \in Message /\ m \in Ciphers /\ m \in Otr
             /\ Head(net[p]) = Bottom(m)
             /\ Kind(Head(net[p])) = IF m = <<"Query">> THEN "BottomQuery" ELSE "BottomData"
             /\ v.n + 1 \in Nat /\ k \in Receiving(k0, m, v.n + 1)
             /\ k0 \in Conversation /\ Proper(k0) /\ ConvOK(v, k0)
             /\ v.role # "none" /\ v.role \in Roles /\ v.role \in Place(c, s)
             /\ v.at = "idle" /\ v.caller = FALSE /\ v.n \in Nat /\ v.n = nonce[p]
             /\ (m = <<"Query">> => nonce'[p] = v.n + 1) /\ (m # <<"Query">> => nonce'[p] = v.n)
             /\ nonce'[q] = nonce[q]
<1> DEFINE q == Other(p)
           c == handler[p]
           s == sess[p][c]
           m == Head(net[p]).otr
           k0 == conv[p]
           n == nonce[p]
<1>1. /\ SurfaceInv /\ SessionsOK(p) /\ q \in Peer /\ q # p /\ net[q] \in Seq(Message)
      /\ nonce \in [Peer -> Nat] /\ thread \in [Peer -> Thread]
  <2>1. SurfaceInv /\ SessionsOK(p) /\ q \in Peer /\ q # p
    BY Before, TwoPeers DEF Step
  <2> QED BY <2>1, CallsAre DEF SurfaceInv, Types
<1>2. /\ thread[p] = Idle /\ net[p] # <<>> /\ Head(net[p]).type = "Bottom" /\ c # 0
      /\ UNCHANGED <<rung, over, handler, active, starting, pending>>
      /\ Decrypt(p, m, k)
  BY DEF BottomStep, Incoming, Waits
<1>3. c \in Call /\ s \in Session /\ k0 \in Conversation /\ n + 1 \in Nat
  BY <1>1, <1>2, LastSession, CallsAre
<1>4. Head(net[p]) \in Message
  BY <1>1, <1>2, HeadOfNet
<1>5. /\ m \in Ciphers /\ Head(net[p]) = Bottom(m)
      /\ Kind(Head(net[p])) = IF m = <<"Query">> THEN "BottomQuery" ELSE "BottomData"
  BY <1>2, <1>4, OfKind
<1>6. m \in Otr /\ (Generates(m, k0) <=> m = <<"Query">>)
  <2> HIDE DEF m, k0
  <2>1. CASE m = <<"Query">>
    BY <2>1 DEF Otr, Generates
  <2>2. CASE m \in {"Data"} \X Key \X {"Request", "Answer"}
    <3>1. m[1] = "Data"
      BY <2>2
    <3>2. m # <<"Query">> /\ ~Generates(m, k0)
      BY <3>1 DEF Generates
    <3> QED BY <2>2, <3>2 DEF Otr
  <2> QED BY <1>5, <2>1, <2>2 DEF Ciphers
<1>7. /\ ConvOK(v, k0) /\ Proper(k0) /\ v.n = n /\ v.at = "idle" /\ v.caller = FALSE
      /\ v.role \in Place(c, s) /\ v.role # "none" /\ v.role \in Roles
  <2>1. ConvOK(v, k0) /\ v.n = n /\ v.at = "idle" /\ v.caller = FALSE /\ v.role \in Place(c, s)
    <3>1. Sees(p, v)
      BY <1>2, Seen DEF Step, Idle
    <3> QED BY <1>2, <3>1 DEF Sees, AtOf
  <2>2. v.role # "none" /\ v.role \in Roles
    BY <1>2, <2>1 DEF Place, Starts, Responds, Dead, Roles
  <2> QED BY <2>1, <2>2 DEF ConvOK
<1>8. v.n + 1 \in Nat /\ k \in Receiving(k0, m, v.n + 1) /\ v.n \in Nat
  BY <1>1, <1>2, <1>3, <1>7 DEF Decrypt
<1>9. (m = <<"Query">> => nonce'[p] = v.n + 1) /\ (m # <<"Query">> => nonce'[p] = v.n) /\ nonce'[q] = nonce[q]
  <2> HIDE DEF q, m, k0
  <2>1. nonce' = [nonce EXCEPT ![p] = IF m = <<"Query">> THEN v.n + 1 ELSE v.n]
    BY <1>2, <1>6, <1>7 DEF Decrypt, k0, n
  <2> QED BY <1>1, <2>1
<1> HIDE DEF q, c, s, m, k0, n
<1> QED BY <1>1, <1>2, <1>3, <1>4, <1>5, <1>6, <1>7, <1>8, <1>9 DEF q, c, s, m, k0, n

\* A commitment tells a number.
LEMMA CommitHas ==
  ASSUME NEW m \in Otr, m[1] = "Commit"
  PROVE  m[2] \in Nat
<1>1. CASE m = <<"Query">> \/ m = <<"Error">>
  <2>1. m[1] \in {"Query", "Error"}
    BY <1>1
  <2> QED BY <2>1
<1>2. CASE m \in {"Commit"} \X Nat
  BY <1>2
<1>3. CASE m \in {"Key", "Reveal", "Sig"} \X Nat \X Nat
  BY <1>3
<1>4. CASE m \in {"Data"} \X Key \X {"Request", "Answer"}
  BY <1>4
<1> QED BY <1>1, <1>2, <1>3, <1>4 DEF Otr

\* A commitment or an error waits behind what waited.
LEMMA JunkGrows ==
  ASSUME NEW out \in Seq(Otr), NEW n \in Nat, JunkOnly(out, n), NEW o \in Otr, NEW l \in {n, n + 1},
         \/ o = <<"Error">>
         \/ o = <<"Commit", l>>
  PROVE  JunkOnly(Append(out, o), l)
<1> DEFINE z == Append(out, o)
<1>1. /\ Len(z) = Len(out) + 1 /\ z[Len(out) + 1] = o /\ \A a \in 1..Len(out) : z[a] = out[a]
      /\ Len(out) \in Nat
  OBVIOUS
<1> HIDE DEF z
<1>2. l \in Nat /\ n <= l
  OBVIOUS
<1>3. o[1] \in Junk /\ (o[1] = "Commit" => o[2] <= l)
  <2>1. CASE o = <<"Error">>
    <3>1. o[1] = "Error"
      BY <2>1
    <3> QED BY <3>1 DEF Junk
  <2>2. CASE o = <<"Commit", l>>
    <3>1. o[1] = "Commit" /\ o[2] = l
      BY <2>2
    <3> QED BY <1>2, <3>1 DEF Junk
  <2> QED BY <2>1, <2>2
<1>4. ASSUME NEW a \in 1..Len(z) PROVE z[a][1] \in Junk /\ (z[a][1] = "Commit" => z[a][2] <= l)
  <2>1. CASE a = Len(out) + 1
    BY <1>1, <1>3, <2>1
  <2>2. CASE a # Len(out) + 1
    <3>1. a \in 1..Len(out) /\ z[a] = out[a]
      BY <1>1, <2>2
    <3>2. out[a][1] \in Junk /\ (out[a][1] = "Commit" => out[a][2] <= n)
      BY <3>1 DEF JunkOnly
    <3>3. out[a][1] = "Commit" => out[a][2] \in Nat
      <4>1. out[a] \in Otr
        BY <3>1
      <4> HIDE DEF Key
      <4> QED BY <4>1, CommitHas
    <3> QED BY <1>2, <3>1, <3>2, <3>3
  <2> QED BY <2>1, <2>2
<1> QED BY <1>4 DEF JunkOnly, z

\* What cannot be deciphered leaves the session alone.
LEMMA Undeciphered ==
  ASSUME NEW p \in Peer, NEW v, NEW w, Step(p, v, w), NEW k, BottomStep(p, k),
         ~Deciphers(conv[p], Head(net[p]).otr), k.key = conv[p].key,
         NEW u, Pair(u, w, Tail(net[p]), net[Other(p)]), ConvOK(u, k),
         v.role \in Starts => u.role \in Starts, v.role \in Responds => u.role \in Responds,
         v.role \in Dead => u.role = v.role,
         u.n = nonce'[p], u.at = "idle", u.caller = FALSE
  PROVE  KeysInv'
<1> DEFINE q == Other(p)
           c == handler[p]
           m == Head(net[p]).otr
<1>1. /\ SurfaceInv /\ q \in Peer /\ q # p /\ net[q] \in Seq(Message)
      /\ c \in Call /\ c # 0 /\ v.role \in Place(c, sess[p][c]) /\ thread \in [Peer -> Thread]
      /\ UNCHANGED <<rung, over, handler, active, starting, pending>>
      /\ nonce'[q] = nonce[q]
  BY BottomKnows
<1>2. /\ conv' = [conv EXCEPT ![p] = k] /\ Answer(p, <<>>) /\ Done(p) /\ sess' = sess /\ Decrypt(p, m, k)
  BY DEF BottomStep
<1> HIDE DEF q, c, m
<1>3. trusted' = trusted
  BY <1>2 DEF Decrypt
<1>4. thread'[p] = Idle /\ thread'[q] = thread[q] /\ conv'[p] = k /\ conv'[q] = conv[q]
  BY <1>1, <1>2 DEF Done, SurfaceInv, Types
<1>5. Aside(q) /\ trusted'[q] = trusted[q] /\ trusted[p] \subseteq trusted'[p] /\ nonce'[q] = nonce[q]
  BY <1>1, <1>2, <1>3, <1>4 DEF Aside
<1>6. WorkOK(p)' /\ u.at = AtOf(thread'[p])
  BY <1>4 DEF WorkOK, AtOf
<1>7. Pair(u, w, Tail(net[p]), net[q] \o <<>>)
  <2>1. net[q] \o <<>> = net[q]
    BY <1>1
  <2> QED BY <2>1 DEF q
<1>8. KeysInv /\ SurfaceInv' /\ Seems(q, w)
  BY DEF Step, q
<1> QED BY <1>1, <1>2, <1>4, <1>5, <1>6, <1>7, <1>8, Handles DEF q, c

\* A session that takes no part in an exchange, or has ended: OTR's answer waits.
LEMMA BottomAtRest ==
  ASSUME NEW p \in Peer, NEW v, NEW w, Step(p, v, w), NEW k, BottomStep(p, k), v.role \in Dead
  PROVE  KeysInv'
<1> DEFINE q == Other(p)
           m == Head(net[p]).otr
           k0 == conv[p]
<1>1. /\ net[q] \in Seq(Message) /\ net[p] # <<>> /\ m \in Ciphers /\ m \in Otr
      /\ k0 \in Conversation /\ Proper(k0) /\ ConvOK(v, k0)
      /\ v.at = "idle" /\ v.caller = FALSE /\ v.n \in Nat
      /\ v.n + 1 \in Nat /\ k \in Receiving(k0, m, v.n + 1)
  <2>1. net[q] \in Seq(Message) /\ net[p] # <<>>
    BY BottomKnows
  <2>2. m \in Ciphers /\ m \in Otr
    BY BottomKnows
  <2>3. k0 \in Conversation /\ Proper(k0) /\ ConvOK(v, k0)
    BY BottomKnows
  <2>4. v.at = "idle"
    BY BottomKnows, ZenonT(60)
  <2>6. v.caller = FALSE
    BY BottomKnows, ZenonT(60)
  <2>7. v.n \in Nat
    BY BottomKnows
  <2>5. v.n + 1 \in Nat /\ k \in Receiving(k0, m, v.n + 1)
    BY BottomKnows
  <2> QED BY <2>1, <2>2, <2>3, <2>4, <2>5, <2>6, <2>7
<1>0. (m = <<"Query">> => nonce'[p] = v.n + 1) /\ (m # <<"Query">> => nonce'[p] = v.n)
  BY BottomKnows, ZenonT(60)
<1>2. Pair(v, w, net[p], net[q])
  BY DEF Step
<1>3. k0.key = None /\ k0.events = <<>> /\ JunkOnly(k0.out, v.n) /\ k0.out \in Seq(Otr)
  BY <1>1 DEF ConvOK, Conversation, Record
<1> HIDE DEF q, m, k0
<1>4. ASSUME NEW n \in {v.n, v.n + 1}, nonce'[p] = n, ~Deciphers(k0, m), k \in Conversation, Proper(k),
             k.key = None, k.events = <<>>, JunkOnly(k.out, n)
      PROVE  KeysInv'
  <2> DEFINE u == [v EXCEPT !.n = n]
  <2>1. u.n = n /\ u.role = v.role /\ u.at = v.at /\ u.caller = v.caller /\ u.key = v.key
    BY <1>2 DEF Pair, View
  <2>2. Pair(u, w, Tail(net[p]), net[q])
    BY <1>1, <1>2, AtSkip
  <2> HIDE DEF u
  <2>3. ConvOK(u, k)
    BY <1>1, <1>4, <2>1 DEF ConvOK, Dead, Keyed
  <2> QED BY <1>1, <1>3, <1>4, <2>1, <2>2, <2>3, Undeciphered DEF q, k0, m
<1>5. CASE m = <<"Query">>
  <2> DEFINE n == v.n + 1
             o == <<"Commit", n>>
             a == <<"commit", n>>
  <2>1. k = Inject([Sending(k0) EXCEPT !.auth = a], o) /\ ~Deciphers(k0, m)
    <3>1. m[1] = "Query"
      BY <1>5
    <3> QED BY <1>1, <3>1, Receives DEF Deciphers
  <2>2. o \in Otr /\ a \in Auth
    BY <1>1 DEF Otr, Auth
  <2>3. nonce'[p] = n
    BY <1>0, <1>5
  <2> HIDE DEF a
  <2>4. JunkOnly(Append(k0.out, o), n)
    BY <1>1, <1>3, <2>2, JunkGrows
  <2> HIDE DEF o
  <2>5. /\ k \in Conversation /\ k.open /\ k.context /\ k.key = k0.key /\ k.met = k0.met
        /\ k.events = k0.events /\ k.out = Append(k0.out, o)
    BY <1>1, <2>1, <2>2, AnswerLeaves
  <2>6. Proper(k)
    BY <1>1, <2>5 DEF Proper
  <2> QED BY <1>3, <1>4, <2>1, <2>3, <2>4, <2>5, <2>6
<1>6. CASE m \in {"Data"} \X Key \X {"Request", "Answer"}
  <2> DEFINE o == <<"Error">>
             l == Sending(k0)
  <2>1. m[1] = "Data" /\ m[2] \in Key /\ m[2] # None
    BY <1>6, NoneAssumption DEF Key
  <2>2. k = Inject(l, o) /\ ~Deciphers(k0, m)
    BY <1>1, <1>3, <2>1, Receives DEF Deciphers
  <2>3. m # <<"Query">>
    BY <2>1
  <2>4. nonce'[p] = v.n
    BY <1>0, <2>3
  <2>5. o \in Otr
    BY DEF Otr
  <2>6. JunkOnly(Append(k0.out, o), v.n)
    BY <1>1, <1>3, <2>5, JunkGrows
  <2>7. /\ l \in Conversation /\ l.open /\ l.context /\ l.key = k0.key /\ l.met = k0.met
        /\ l.events = k0.events /\ l.out = k0.out
    BY <1>1, SendingLeaves
  <2> HIDE DEF l, o
  <2>8. k \in Conversation
    BY <2>2, <2>5, <2>7, InjectKeeps
  <2>9. /\ k.open /\ k.context /\ k.key = k0.key /\ k.met = k0.met
        /\ k.events = k0.events /\ k.out = Append(k0.out, o)
    BY <2>2, <2>7 DEF Inject, Conversation, Record
  <2>10. Proper(k)
    BY <1>1, <2>9 DEF Proper
  <2> QED BY <1>3, <1>4, <2>2, <2>4, <2>6, <2>8, <2>9, <2>10
<1> QED BY <1>1, <1>5, <1>6 DEF Ciphers

\* A query of Bottom's comes in the midst of an exchange: the one that revealed its
\* key begins anew, and the one that has the key never hears of it.
LEMMA BottomQueryTaken ==
  ASSUME NEW p \in Peer, NEW v, NEW w, Step(p, v, w), NEW k, BottomStep(p, k), v.role \notin Dead,
         Head(net[p]).otr = <<"Query">>
  PROVE  KeysInv'
<1> DEFINE q == Other(p)
           m == Head(net[p]).otr
           k0 == conv[p]
           n == v.n + 1
           o == <<"Commit", n>>
           a == <<"commit", n>>
<1>1. /\ net[q] \in Seq(Message) /\ net[p] # <<>> /\ m \in Otr /\ Kind(Head(net[p])) = "BottomQuery"
      /\ n \in Nat /\ k \in Receiving(k0, m, n)
      /\ k0 \in Conversation /\ Proper(k0) /\ ConvOK(v, k0)
      /\ v.at = "idle" /\ v.caller = FALSE /\ v.n \in Nat /\ v.role \in Roles
      /\ (m = <<"Query">> => nonce'[p] = v.n + 1) /\ (m # <<"Query">> => nonce'[p] = v.n)
      /\ nonce'[q] = nonce[q]
  BY BottomKnows
<1>2. Pair(v, w, net[p], net[q])
  BY DEF Step
<1>3. v.role \in {"revealed", "held", "sent", "lost"}
  BY <1>1, <1>2, Meets DEF Roles
<1>4. m[1] = "Query"
  OBVIOUS
<1> HIDE DEF q, m, k0
<1>5. k = Inject([Sending(k0) EXCEPT !.auth = a], o) /\ ~Deciphers(k0, m)
  BY <1>1, <1>4, Receives DEF Deciphers
<1>6. o \in Otr /\ a \in Auth
  BY <1>1 DEF Otr, Auth
<1>7. nonce'[p] = n
  BY <1>1 DEF m
<1> HIDE DEF a
<1>8. JunkOnly(<<>>, v.n) /\ <<>> \in Seq(Otr)
  BY DEF JunkOnly
<1>9. JunkOnly(Append(<<>>, o), n)
  BY <1>1, <1>6, <1>8, JunkGrows
<1> HIDE DEF o
<1>10. /\ k \in Conversation /\ k.open /\ k.context /\ k.key = k0.key /\ k.met = k0.met
       /\ k.events = k0.events /\ k.out = Append(k0.out, o)
  BY <1>1, <1>5, <1>6, AnswerLeaves
<1>11. Proper(k)
  BY <1>1, <1>10 DEF Proper
<1>12. CASE v.role = "revealed"
  <2> DEFINE u == [v EXCEPT !.role = "fresh", !.key = None, !.n = v.n + 1]
  <2>1. u.role = "fresh" /\ u.n = n /\ u.at = v.at /\ u.caller = v.caller
    BY <1>2 DEF Pair, View
  <2>2. Pair(u, w, Tail(net[p]), net[q])
    BY Zenon, <1>1, <1>2, <1>12, AtLateQuery
  <2> HIDE DEF u, n
  <2>3. ConvOK(u, k)
    <3>1. k0.key = None /\ k0.events = <<>> /\ k0.out = <<>>
      BY <1>1, <1>12 DEF ConvOK
    <3> QED BY <1>9, <1>10, <1>11, <2>1, <3>1 DEF ConvOK, Dead, Keyed
  <2>4. v.role \notin Starts /\ v.role \notin Dead /\ u.role \in Responds
    BY <1>12, <2>1 DEF Starts, Dead, Responds
  <2>5. /\ u.n = nonce'[p] /\ u.at = "idle" /\ u.caller = FALSE /\ k.key = conv[p].key
        /\ ~Deciphers(conv[p], Head(net[p]).otr)
    BY <1>1, <1>5, <1>7, <1>10, <2>1 DEF k0, m
  <2> QED BY <2>2, <2>3, <2>4, <2>5, Undeciphered DEF q
<1>13. CASE v.role \in {"held", "sent", "lost"}
  <2> DEFINE u == [v EXCEPT !.role = "lost", !.n = v.n + 1]
  <2>1. u.role = "lost" /\ u.n = n /\ u.at = v.at /\ u.caller = v.caller /\ u.key = v.key
    BY <1>2 DEF Pair, View
  <2>2. Pair(u, w, Tail(net[p]), net[q])
    BY Zenon, <1>1, <1>2, <1>13, AtLost
  <2> HIDE DEF u, n
  <2>3. ConvOK(u, k)
    <3>1. k0.key = v.key
      BY <1>1, <1>13 DEF ConvOK, Keyed
    <3> QED BY <1>10, <1>11, <2>1, <3>1 DEF ConvOK, Dead, Keyed
  <2>4. v.role \notin Responds /\ v.role \notin Dead /\ u.role \in Starts
    BY <1>13, <2>1 DEF Starts, Dead, Responds
  <2>5. /\ u.n = nonce'[p] /\ u.at = "idle" /\ u.caller = FALSE /\ k.key = conv[p].key
        /\ ~Deciphers(conv[p], Head(net[p]).otr)
    BY <1>1, <1>5, <1>7, <1>10, <2>1 DEF k0, m
  <2> QED BY <2>2, <2>3, <2>4, <2>5, Undeciphered DEF q
<1> QED BY <1>3, <1>12, <1>13

\* A request or an answer is deciphered.
LEMMA BottomDeciphered ==
  ASSUME NEW p \in Peer, NEW v, NEW w, Step(p, v, w), NEW k, BottomStep(p, k), v.role \notin Dead,
         Kind(Head(net[p])) = "BottomData"
  PROVE  LET q == Other(p)
             c == handler[p]
             s == sess[p][c]
             m == Head(net[p]).otr
             t == [s EXCEPT !.secure = Secured(k, @)]
         IN  /\ v.role \in {"shared", "sent"} /\ v.key \in Key
             /\ v.role = "shared" => m[3] = "Request"
             /\ v.role = "sent" => m[3] = "Answer"
             /\ Deciphers(conv[p], m) /\ conv[p].key = v.key /\ s.running
             /\ k \in Conversation /\ Proper(k) /\ k.open /\ k.key = v.key /\ k.out = <<>> /\ PolledOut(k) = <<>>
             /\ t \in Session /\ t.running /\ t.state = s.state /\ t.started = s.started /\ t.key = s.key
             /\ nonce' = nonce /\ trusted' = trusted
<1> DEFINE q == Other(p)
           c == handler[p]
           s == sess[p][c]
           m == Head(net[p]).otr
           k0 == conv[p]
           t == [s EXCEPT !.secure = Secured(k, @)]
           body == IF v.role = "shared" THEN "Request" ELSE "Answer"
<1>1. /\ net[p] # <<>> /\ Head(net[p]) \in Message /\ Head(net[p]) = Bottom(m)
  BY BottomKnows
<1>2. k0 \in Conversation /\ Proper(k0) /\ ConvOK(v, k0)
  BY BottomKnows
<1>3. s \in Session /\ v.role \in Roles /\ v.role \in Place(c, s)
  BY BottomKnows
<1>4. m \in Otr /\ v.n \in Nat
  BY BottomKnows
<1>5. v.n + 1 \in Nat /\ k \in Receiving(k0, m, v.n + 1)
  BY BottomKnows
<1>6. Pair(v, w, net[p], net[q])
  BY DEF Step
<1>7. /\ v.role \in {"shared", "sent"} /\ Head(net[p]) = DataOf(v.key, body)
  <2>1. v.role \in Responds \cup Starts
    BY <1>3 DEF Roles
  <2>2. \/ v.role = "shared" /\ Head(net[p]) = DataOf(v.key, "Request")
        \/ v.role = "sent" /\ Head(net[p]) = DataOf(v.key, "Answer")
    BY <1>1, <1>6, <2>1, Meets
  <2> QED BY <2>2
<1>8. v.key \in Key /\ k0.key = v.key /\ k0.out = <<>>
  BY <1>2, <1>6, <1>7 DEF Pair, View, Keyed, ConvOK
<1> HIDE DEF m, k0, q
<1>9. m = <<"Data", v.key, body>>
  <2>1. \A o : Bottom(o).otr = o
    BY DEF Bottom
  <2> QED BY <1>7, <2>1 DEF DataOf, m
<1> HIDE DEF body
<1>10. m[1] = "Data" /\ m[2] = v.key /\ m[3] = body
  BY <1>9
<1>18. (v.role = "shared" => m[3] = "Request") /\ (v.role = "sent" => m[3] = "Answer")
  BY <1>10 DEF body
<1>11. Deciphers(k0, m)
  BY <1>8, <1>10 DEF Deciphers
<1>12. k = Sending(k0)
  BY <1>2, <1>4, <1>5, <1>8, <1>10, Receives
<1>13. /\ k \in Conversation /\ Proper(k) /\ k.open /\ k.key = v.key /\ k.out = <<>>
  BY <1>2, <1>8, <1>12, SendingLeaves
<1>14. PolledOut(k) = <<>>
  <2>1. Kryptonites(<<>>) = <<>>
    BY DEF Kryptonites
  <2> QED BY <1>13, <2>1 DEF PolledOut
<1>15. s.running
  BY <1>3, <1>7 DEF Place, DeploysKryptonite, Starts, Responds
<1>16. t \in Session /\ t.running /\ t.state = s.state /\ t.started = s.started /\ t.key = s.key
  <2>1. s.secure \in BOOLEAN
    BY <1>3 DEF Session
  <2>2. Secured(k, s.secure) \in BOOLEAN
    BY <1>13, <2>1, PolledKeeps
  <2> HIDE DEF s
  <2> QED BY <1>3, <1>15, <2>2 DEF Session
<1>17. nonce' = nonce /\ trusted' = trusted
  <2>1. ~Generates(m, k0)
    BY <1>10 DEF Generates
  <2>2. Decrypt(p, m, k)
    BY DEF BottomStep, m
  <2>3. nonce \in [Peer -> Nat]
    BY BottomKnows
  <2>4. nonce' = [nonce EXCEPT ![p] = nonce[p]]
    BY <2>1, <2>2 DEF Decrypt, k0
  <2>5. trusted' = trusted
    BY <1>8, <1>13, <2>2 DEF Decrypt, k0
  <2> QED BY <2>3, <2>4, <2>5
<1> HIDE DEF s, t
<1> QED BY <1>7, <1>8, <1>11, <1>13, <1>14, <1>15, <1>16, <1>17, <1>18 DEF m, k0, s, t, c

\* A request or an answer is handled, or ends a session that has no key yet.
LEMMA BottomDataTaken ==
  ASSUME NEW p \in Peer, NEW v, NEW w, Step(p, v, w), NEW k, BottomStep(p, k), v.role \notin Dead,
         Kind(Head(net[p])) = "BottomData"
  PROVE  KeysInv'
<1> DEFINE q == Other(p)
           c == handler[p]
           s == sess[p][c]
           m == Head(net[p]).otr
           k0 == conv[p]
           t == [s EXCEPT !.secure = Secured(k, @)]
           l == Polled(k)
<1>1. /\ v.role \in {"shared", "sent"} /\ v.key \in Key
      /\ (v.role = "shared" => m[3] = "Request") /\ (v.role = "sent" => m[3] = "Answer")
      /\ Deciphers(k0, m) /\ k0.key = v.key /\ s.running
      /\ k \in Conversation /\ Proper(k) /\ k.open /\ k.key = v.key /\ k.out = <<>> /\ PolledOut(k) = <<>>
  BY BottomDeciphered, ZenonT(60)
<1>2. /\ t \in Session /\ t.running /\ t.state = s.state /\ t.started = s.started /\ t.key = s.key
      /\ nonce' = nonce /\ trusted' = trusted
  BY BottomDeciphered, ZenonT(60)
<1>3. SurfaceInv /\ SessionsOK(p) /\ q \in Peer /\ q # p /\ net[q] \in Seq(Message)
  BY BottomKnows
<1>4. c \in Call /\ c # 0 /\ s \in Session /\ net[p] # <<>>
  BY BottomKnows
<1>5. thread[p] = Idle /\ thread \in [Peer -> Thread]
  BY BottomKnows
<1>6. UNCHANGED <<rung, over, handler, active, starting, pending>>
  BY BottomKnows
<1>7. v.at = "idle" /\ v.n = nonce[p] /\ v.role \in Place(c, s)
  BY BottomKnows
<1>8. KeysInv /\ SurfaceInv' /\ Seems(q, w) /\ Pair(v, w, net[p], net[q])
  BY DEF Step
<1>9. /\ Answer(p, <<>>)
      /\ IF ~DeploysBottom(t)
         THEN Becomes(p, c, TornDown(t, l)) /\ Done(p)
         ELSE /\ Becomes(p, c, Result([t EXCEPT !.heard = @ \/ t.running], l, <<>>))
              /\ IF m[3] = "Request" THEN Busy(p, "answer", c) ELSE Done(p)
  <2> HIDE DEF m, k0, t, s, c, l
  <2> QED BY <1>1, <1>2 DEF BottomStep, m, k0, t, s, c, l
<1>10. /\ l \in Conversation /\ Proper(l) /\ l.open /\ l.key = v.key /\ l.out = <<>>
  BY <1>1, PolledLeaves
<1> HIDE DEF q, c, s, m, k0, t, l
<1>11. Types /\ trusted'[q] = trusted[q] /\ trusted[p] \subseteq trusted'[p] /\ nonce'[q] = nonce[q]
  BY <1>2, <1>3 DEF SurfaceInv
<1>12. CASE ~DeploysBottom(t)
  <2> DEFINE r == TornDown(t, l)
  <2>1. Becomes(p, c, r) /\ Done(p)
    BY <1>9, <1>12
  <2>2. Told(t, trusted[p])
    BY <1>2, <1>3, <1>4 DEF SessionsOK, Told, s
  <2>3. /\ r.sess \in Session /\ ~r.sess.running /\ Told(r.sess, trusted[p])
        /\ r.conv \in Conversation
        /\ Proper(r.conv) /\ r.conv.key = None /\ r.conv.events = <<>> /\ r.conv.out = <<>>
    BY <1>2, <1>10, <2>2, TornDownLeaves
  <2> HIDE DEF r
  <2>4. /\ sess'[p][c] = r.sess /\ conv'[p] = r.conv
        /\ \A d \in Call : d # c => sess'[p][d] = sess[p][d]
        /\ sess'[q] = sess[q] /\ conv'[q] = conv[q]
    BY <1>3, <1>4, <1>11, <2>1, <2>3, Became
  <2>5. thread'[p] = Idle /\ thread'[q] = thread[q]
    BY <1>3, <1>5, <2>1 DEF Done
  <2>6. Aside(q)
    BY <1>6, <2>4, <2>5 DEF Aside
  <2>7. /\ Proper(conv'[p]) /\ conv'[p].key = None /\ conv'[p].events = <<>> /\ conv'[p].out = <<>>
        /\ ~sess'[p][c].running /\ Told(sess'[p][c], trusted[p])
    BY <2>3, <2>4
  <2> QED BY <1>2, <1>4, <1>5, <1>6, <1>8, <1>9, <2>4, <2>5, <2>6, <2>7, TurnedDown DEF c, q
<1>13. CASE DeploysBottom(t)
  <2> DEFINE a == [t EXCEPT !.heard = @ \/ t.running]
             r == Result(a, l, <<>>)
  <2>1. Becomes(p, c, r) /\ IF m[3] = "Request" THEN Busy(p, "answer", c) ELSE Done(p)
    BY <1>9, <1>13
  <2>2. /\ a \in Session /\ a.running = s.running /\ a.state = s.state /\ a.started = s.started /\ a.key = s.key
        /\ a.state = "Routing"
    BY <1>1, <1>2, <1>13 DEF Session, DeploysBottom
  <2>3. r.sess = a /\ r.conv = l
    BY DEF Result
  <2> HIDE DEF a, r
  <2>4. /\ sess'[p][c] = a /\ conv'[p] = l
        /\ \A d \in Call : d # c => sess'[p][d] = sess[p][d]
        /\ sess'[q] = sess[q] /\ conv'[q] = conv[q]
    BY <1>3, <1>4, <1>10, <1>11, <2>1, <2>2, <2>3, Became
  <2>5. ASSUME NEW u, u.key = v.key, u.role = v.role, u.n = v.n, Pair(u, w, Tail(net[p]), net[q]),
               thread'[q] = thread[q],
               \/ thread'[p] = Idle /\ u.at = "idle" /\ u.caller = FALSE
               \/ thread'[p] = [at |-> "answer", c |-> c] /\ u.at = "answer" /\ u.caller = s.started
        PROVE  KeysInv'
    <3>1. Aside(q)
      BY <1>6, <2>4, <2>5 DEF Aside
    <3>2. Pair(u, w, Tail(net[p]), net[q] \o <<>>)
      <4>1. net[q] \o <<>> = net[q]
        BY <1>3
      <4> QED BY <2>5, <4>1
    <3>3. ConvOK(u, l)
      BY <1>1, <1>10, <2>5 DEF ConvOK, Dead, Keyed
    <3>4. \/ thread'[p] = Idle
          \/ thread'[p] # Idle /\ thread'[p].at = "answer" /\ thread'[p].c = c
      BY <1>4, <2>5, ThreadIs
    <3>5. WorkOK(p)'
      <4>1. sess'[p][c].state \in {"ExchangingKeys", "Routing"} /\ handler'[p] = c
        BY <1>6, <2>2, <2>4 DEF c
      <4> QED BY <3>4, <4>1 DEF WorkOK, Exchanges
    <3>6. u.at = AtOf(thread'[p])
      <4>1. CASE thread'[p] = Idle /\ u.at = "idle"
        BY <4>1 DEF AtOf
      <4>2. CASE thread'[p] = [at |-> "answer", c |-> c] /\ u.at = "answer"
        <5>1. thread'[p] # Idle /\ thread'[p].at = "answer"
          BY <1>4, <4>2, ThreadIs
        <5> QED BY <4>2, <5>1 DEF AtOf
      <4> QED BY <2>5, <4>1, <4>2
    <3>7. u.caller = (thread'[p] # Idle /\ s.started)
      <4>1. s.started \in BOOLEAN
        BY <1>4 DEF Session
      <4>2. CASE thread'[p] = Idle /\ u.at = "idle" /\ u.caller = FALSE
        BY <4>2
      <4>3. CASE thread'[p] = [at |-> "answer", c |-> c] /\ u.at = "answer" /\ u.caller = s.started
        <5>1. thread'[p] # Idle
          BY <1>4, <4>3, ThreadIs
        <5> QED BY <4>1, <4>3, <5>1
      <4> QED BY <2>5, <4>2, <4>3
    <3>8. v.role \notin Dead
      BY <1>1 DEF Dead
    <3>9. conv[p].key # None => conv'[p].key = conv[p].key
      BY <1>1, <1>10, <2>4 DEF k0
    <3>10. u.n = nonce'[p]
      BY <1>2, <1>7, <2>5
    <3>11. /\ sess'[p][c].state = s.state /\ sess'[p][c].running = s.running
           /\ sess'[p][c].started = s.started /\ sess'[p][c].key = s.key
      BY <2>2, <2>4
    <3>12. ConvOK(u, conv'[p])
      BY <2>4, <3>3
    <3> QED BY <1>4, <1>6, <1>7, <1>8, <1>9, <1>11, <2>4, <2>5, <3>1, <3>2, <3>4, <3>5, <3>6, <3>7, <3>8,
               <3>9, <3>10, <3>11, <3>12, Handles DEF q, c, s
  <2>6. v \in View /\ v.caller = FALSE
    BY <1>8, BottomKnows DEF Pair
  <2>7. CASE v.role = "shared"
    <3> DEFINE u == [v EXCEPT !.at = "answer", !.caller = FALSE]
    <3>1. m[3] = "Request"
      BY <1>1, <2>7
    <3>2. thread'[p] = [at |-> "answer", c |-> c] /\ thread'[q] = thread[q]
      BY <1>3, <1>5, <2>1, <3>1 DEF Busy
    <3>3. s.started = FALSE
      BY <1>1, <1>4, <1>7, <2>7 DEF Place, Starts, Session, Dead
    <3>4. u.role = v.role /\ u.key = v.key /\ u.n = v.n /\ u.at = "answer" /\ u.caller = FALSE
      BY <2>6 DEF View
    <3>5. Kind(Head(net[p])) = "BottomData"
      OBVIOUS
    <3>6. Pair(u, w, Tail(net[p]), net[q])
      BY Zenon, <1>4, <1>7, <1>8, <2>7, <3>5, AtRequest
    <3> HIDE DEF u
    <3> QED BY <2>5, <3>2, <3>3, <3>4, <3>6
  <2>8. CASE v.role = "sent"
    <3>1. m[3] # "Request"
      BY <1>1, <2>8
    <3>2. thread'[p] = Idle /\ thread'[q] = thread[q]
      BY <1>3, <1>5, <2>1, <3>1 DEF Done
    <3>3. Pair(v, w, Tail(net[p]), net[q])
      BY <1>4, <1>7, <1>8, <2>8, AtReply
    <3> QED BY <1>7, <2>5, <2>6, <3>2, <3>3
  <2> QED BY <1>1, <2>7, <2>8
<1> QED BY <1>12, <1>13

\* A Bottom message comes.
LEMMA BottomReceivedKeys ==
  ASSUME KeysInv, SurfaceInv', NEW p \in Peer, BottomReceived(p)
  PROVE  KeysInv'
<1> DEFINE q == Other(p)
           m == Head(net[p]).otr
<1>0. thread[p].at # "deploying"
  BY DEF BottomReceived, Incoming, Idle
<1>1. PICK v, w : Sees(p, v) /\ Seems(q, w) /\ Pair(v, w, net[p], net[q])
  BY <1>0, BeforeSeen
<1>2. Step(p, v, w)
  BY Zenon, <1>1 DEF Step, Seems
<1>3. PICK k \in Receiving(conv[p], m, nonce[p] + 1) : BottomStep(p, k)
  BY Zenon DEF BottomReceived, BottomStep
<1>4. Kind(Head(net[p])) = IF m = <<"Query">> THEN "BottomQuery" ELSE "BottomData"
  BY <1>2, <1>3, BottomKnows
<1>5. CASE v.role \in Dead
  BY <1>2, <1>3, <1>5, BottomAtRest
<1>6. CASE v.role \notin Dead /\ m = <<"Query">>
  BY <1>2, <1>3, <1>6, BottomQueryTaken
<1>7. CASE v.role \notin Dead /\ m # <<"Query">>
  <2>1. Kind(Head(net[p])) = "BottomData"
    BY <1>4, <1>7
  <2> QED BY <1>2, <1>3, <1>7, <2>1, BottomDataTaken
<1> QED BY <1>5, <1>6, <1>7

-----------------------------------------------------------------------------
(* A handler goes on *)

\* A handler that has something under way, and what it knows.
Way(p, v, at) ==
  LET q == Other(p)
      c == thread[p].c
      h == handler[p]
      s == sess[p][c]
      k0 == conv[p]
  IN  /\ SurfaceInv /\ SessionsOK(p) /\ WorkOK(p) /\ q \in Peer /\ q # p
      /\ net[q] \in Seq(Message) /\ thread \in [Peer -> Thread]
      /\ c \in Call /\ h \in Call /\ c <= h /\ h # 0 /\ s \in Session
      /\ k0 \in Conversation /\ Proper(k0) /\ ConvOK(v, k0)
      /\ Exchanges(p, c) /\ Told(s, trusted[p])
      /\ c # h => ~s.running /\ sess[p][h].key = None /\ sess[p][h].state = "Start"
      /\ UNCHANGED callVars /\ nonce' = nonce
      /\ v \in View /\ v.n = nonce[p] /\ v.at # "idle" /\ (at = "answer" <=> v.at = "answer")
      /\ v.caller = s.started /\ s.started \in BOOLEAN
      /\ v.role \in {"rest", "shared", "held"} /\ v.role \in Place(h, sess[p][h])
      /\ v.role # "rest" => c = h /\ s.running
      /\ v.role = "rest" => ~s.running
      /\ v.role = "held" => v.caller
      /\ v.role = "shared" => ~v.caller
      /\ at = "answer" => ~v.caller

\* What a handler that goes on knows.
LEMMA WayKnows ==
  ASSUME NEW p \in Peer, NEW v, NEW w, Step(p, v, w),
         NEW at \in {"asking", "changed", "encrypt", "answer"}, Goes(p, at)
  PROVE  Way(p, v, at)
<1> DEFINE q == Other(p)
           c == thread[p].c
           h == handler[p]
           s == sess[p][c]
           k0 == conv[p]
<1>1. SurfaceInv /\ SessionsOK(p) /\ WorkOK(p) /\ q \in Peer /\ q # p
  BY Before, TwoPeers DEF Step
<1>2. /\ thread[p] # Idle /\ thread[p].at = at /\ c \in Call /\ s \in Session /\ UNCHANGED callVars
  BY <1>1, ThreadSession
<1>3. nonce' = nonce
  BY DEF Goes
<1>4. /\ net[q] \in Seq(Message) /\ thread \in [Peer -> Thread] /\ k0 \in Conversation
      /\ h \in 0..MaxCalls /\ MaxCalls \in Nat
  BY <1>1, CallsAre DEF SurfaceInv, Types
<1>5. c <= h
  BY <1>1, <1>2 DEF SurfaceInv, PeerOK, HandlerOK
<1>6. h \in Call /\ h # 0
  BY <1>2, <1>4, <1>5 DEF Call
<1>7. Exchanges(p, c) /\ (c # h => sess[p][h].state = "Start")
  BY <1>1, <1>2 DEF WorkOK
<1>8. s.state # "Start"
  BY <1>7 DEF Exchanges
<1>9. Told(s, trusted[p]) /\ Told(sess[p][h], trusted[p])
  BY <1>1, <1>2, <1>6 DEF SessionsOK
<1>10. c # h => ~s.running /\ sess[p][h].key = None
  <2>1. c # h => c < h
    <3> HIDE DEF c, h
    <3> QED BY <1>2, <1>4, <1>5, <1>6 DEF Call
  <2>2. NewSession.state = "Start"
    BY DEF NewSession
  <2>3. c < h => ~s.running \/ s = NewSession
    BY <1>1, <1>2 DEF SessionsOK
  <2>4. sess[p][h].state = "Start" => sess[p][h].key = None
    BY <1>9 DEF Told
  <2> HIDE DEF c, h, s
  <2> QED BY <1>7, <1>8, <2>1, <2>2, <2>3, <2>4
<1>11. /\ v.n = nonce[p] /\ v.at = AtOf(thread[p]) /\ v.caller = s.started
       /\ v.role \in Place(h, sess[p][h]) /\ ConvOK(v, k0) /\ s.started \in BOOLEAN
  <2>1. s.started \in BOOLEAN
    BY <1>2 DEF Session
  <2>2. Sees(p, v)
    BY <1>2, Seen DEF Step
  <2> QED BY <1>2, <2>1, <2>2 DEF Sees
<1>12. v.at # "idle" /\ (at = "answer" <=> v.at = "answer")
  BY <1>2, <1>11 DEF AtOf
<1>13. v \in View /\ BusyOK(v, w, net[p], net[q])
  BY DEF Step, Pair, Link
<1>14. /\ v.role \in {"rest", "shared", "held"} /\ (v.role = "held" => v.caller)
       /\ (v.role = "shared" => ~v.caller) /\ (at = "answer" => ~v.caller)
  BY <1>12, <1>13 DEF BusyOK
<1>15. v.role # "rest" => c = h /\ s.running
  <2>1. v.role # "rest" => DeploysKryptonite(sess[p][h])
    BY <1>6, <1>11, <1>14 DEF Place
  <2> QED BY <1>7, <2>1 DEF DeploysKryptonite
<1>16. v.role = "rest" => ~s.running
  <2>1. CASE c = h
    <3>1. s.running => DeploysKryptonite(s)
      BY <1>7 DEF Exchanges, DeploysKryptonite
    <3>2. v.role \in Place(h, s)
      BY <1>11, <2>1
    <3> HIDE DEF h, s, c
    <3> QED BY <1>6, <3>1, <3>2 DEF Place, Starts, Responds
  <2>2. CASE c # h
    BY <1>10, <2>2
  <2> QED BY <2>1, <2>2
<1>17. Proper(k0)
  BY <1>11 DEF ConvOK
<1> HIDE DEF q, c, h, s, k0
<1>18. /\ SurfaceInv /\ SessionsOK(p) /\ WorkOK(p) /\ q \in Peer /\ q # p
       /\ net[q] \in Seq(Message) /\ thread \in [Peer -> Thread]
       /\ c \in Call /\ h \in Call /\ c <= h /\ h # 0 /\ s \in Session
       /\ k0 \in Conversation /\ Proper(k0) /\ ConvOK(v, k0)
       /\ Exchanges(p, c) /\ Told(s, trusted[p])
       /\ c # h => ~s.running /\ sess[p][h].key = None /\ sess[p][h].state = "Start"
       /\ UNCHANGED callVars /\ nonce' = nonce
  BY <1>1, <1>2, <1>3, <1>4, <1>5, <1>6, <1>7, <1>9, <1>10, <1>11, <1>17
<1> QED BY <1>11, <1>12, <1>13, <1>14, <1>15, <1>16, <1>18 DEF Way, q, c, h, s, k0

\* A handler goes on, and p sees u afterwards.
LEMMA WentOn ==
  ASSUME NEW p \in Peer, NEW v, NEW w, Step(p, v, w),
         NEW at \in {"asking", "changed", "encrypt", "answer"}, Goes(p, at),
         sess'[Other(p)] = sess[Other(p)], conv'[Other(p)] = conv[Other(p)],
         thread'[Other(p)] = thread[Other(p)], trusted'[Other(p)] = trusted[Other(p)],
         trusted[p] \subseteq trusted'[p],
         \A d \in Call : d # thread[p].c => sess'[p][d] = sess[p][d],
         sess'[p][thread[p].c].running => sess[p][thread[p].c].running,
         Told(sess'[p][thread[p].c], trusted'[p]),
         thread[p].c = handler[p] /\ sess'[p][thread[p].c].running /\ sess'[p][thread[p].c].key # None
           => conv'[p].key = sess'[p][thread[p].c].key,
         WorkOK(p)',
         NEW u, u.n = v.n, u.at = AtOf(thread'[p]),
         u.caller = (thread'[p] # Idle /\ sess'[p][thread'[p].c].started),
         u.role \in Place(handler[p], sess'[p][handler[p]]), ConvOK(u, conv'[p]),
         Pair(u, w, net'[p], net'[Other(p)])
  PROVE  KeysInv'
<1> DEFINE q == Other(p)
           c == thread[p].c
           h == handler[p]
<1>0. Way(p, v, at)
  BY WayKnows
<1>1. /\ SurfaceInv /\ SessionsOK(p) /\ c \in Call /\ h \in Call /\ c <= h
      /\ UNCHANGED callVars /\ nonce' = nonce /\ v.n = nonce[p]
  BY <1>0 DEF Way
<1>2. c # h => ~sess[p][c].running /\ sess[p][h].key = None
  BY <1>0 DEF Way
<1>3. UNCHANGED <<rung, over, handler, active, starting, pending>>
  BY <1>1 DEF callVars
<1>4. Aside(q)
  BY <1>3 DEF Aside
<1>5. SessionsOK(p)'
  <2>1. pending'[p] > 0 => h = 0
    BY <1>1, <1>3 DEF SessionsOK
  <2>2. c # h => /\ ~sess'[p][c].running /\ sess[p][h].key = None
                 /\ active'[p] = active[p] /\ starting'[p] = starting[p]
    BY <1>2, <1>3
  <2>3. /\ active'[p] = active[p] /\ starting'[p] = starting[p] /\ handler'[p] = handler[p]
    BY <1>3
  <2> QED BY <1>1, <2>1, <2>2, <2>3, OwnKept
<1>6. Sees(p, u)'
  <2>1. handler' = handler /\ u.n = nonce'[p]
    BY <1>1, <1>3
  <2> QED BY <2>1 DEF Sees
<1>7. KeysInv /\ SurfaceInv' /\ Seems(q, w) /\ nonce'[q] = nonce[q]
  BY <1>1 DEF Step
<1> HIDE DEF q
<1> QED BY <1>4, <1>5, <1>6, <1>7, StepOf DEF q

\* A handler that is done leaves a session that has ended.
LEMMA WentToRest ==
  ASSUME NEW p \in Peer, NEW v, NEW w, Step(p, v, w),
         NEW at \in {"asking", "changed", "encrypt", "answer"}, Goes(p, at),
         sess'[Other(p)] = sess[Other(p)], conv'[Other(p)] = conv[Other(p)],
         thread'[Other(p)] = thread[Other(p)], trusted' = trusted, net' = net,
         \A d \in Call : d # thread[p].c => sess'[p][d] = sess[p][d],
         ~sess'[p][thread[p].c].running, Told(sess'[p][thread[p].c], trusted[p]), thread'[p] = Idle,
         \/ Proper(conv'[p]) /\ conv'[p].key = None /\ conv'[p].events = <<>> /\ conv'[p].out = <<>>
         \/ conv'[p] = conv[p] /\ v.role = "rest"
  PROVE  KeysInv'
<1> DEFINE q == Other(p)
           c == thread[p].c
           h == handler[p]
<1>0. Way(p, v, at)
  BY WayKnows
<1>1. /\ c \in Call /\ h \in Call /\ h # 0 /\ v \in View /\ v.role \in {"rest", "shared", "held"}
      /\ v.role \in Place(h, sess[p][h]) /\ (v.role # "rest" => c = h) /\ ConvOK(v, conv[p])
  BY <1>0 DEF Way
<1>2. Pair(v, w, net[p], net[q])
  BY DEF Step
<1> HIDE DEF q, c, h
<1>3. "rest" \in Place(h, sess'[p][h])
  <2>1. CASE c = h
    BY <1>1, <2>1 DEF Place, DeploysKryptonite, c
  <2>2. CASE c # h
    <3>1. sess'[p][h] = sess[p][h] /\ v.role = "rest"
      BY <1>1, <2>2 DEF c
    <3> QED BY <1>1, <3>1
  <2> QED BY <2>1, <2>2
<1>4. WorkOK(p)'
  BY DEF WorkOK
<1>5. AtOf(thread'[p]) = "idle" /\ (thread'[p] # Idle) = FALSE
  BY Zenon DEF AtOf
<1>6. ASSUME NEW u, u.role = "rest", u.n = v.n, u.at = "idle", u.caller = FALSE,
             Pair(u, w, net[p], net[q]), ConvOK(u, conv'[p])
      PROVE  KeysInv'
  <2>1. Pair(u, w, net'[p], net'[q])
    BY <1>6
  <2>2. u.role \in Place(h, sess'[p][h])
    BY <1>3, <1>6
  <2>3. u.at = AtOf(thread'[p]) /\ u.caller = (thread'[p] # Idle /\ sess'[p][thread'[p].c].started)
    BY <1>5, <1>6
  <2> QED BY <1>4, <1>6, <2>1, <2>2, <2>3, WentOn DEF q, h
<1>7. CASE Proper(conv'[p]) /\ conv'[p].key = None /\ conv'[p].events = <<>> /\ conv'[p].out = <<>>
  <2> DEFINE x == [v EXCEPT !.role = "rest", !.key = None]
             u == [x EXCEPT !.at = "idle", !.caller = FALSE]
  <2>1. Pair(x, w, net[p], net[q])
    BY Zenon, <1>1, <1>2, AtEnd
  <2>2. x.role = "rest" /\ x.n = v.n
    BY <1>1 DEF View
  <2> HIDE DEF x
  <2>3. Pair(u, w, net[p], net[q])
    BY Zenon, <2>1, AtRest
  <2>4. u.role = "rest" /\ u.n = v.n /\ u.at = "idle" /\ u.caller = FALSE
    BY <2>1, <2>2 DEF Pair, View
  <2> HIDE DEF u
  <2>5. JunkOnly(<<>>, u.n)
    BY DEF JunkOnly
  <2>6. ConvOK(u, conv'[p])
    BY <1>7, <2>4, <2>5 DEF ConvOK, Dead, Keyed
  <2> QED BY <1>6, <2>3, <2>4, <2>6
<1>8. CASE conv'[p] = conv[p] /\ v.role = "rest"
  <2> DEFINE u == [v EXCEPT !.at = "idle", !.caller = FALSE]
  <2>1. Pair(u, w, net[p], net[q])
    BY Zenon, <1>2, AtRest
  <2>2. u.role = "rest" /\ u.n = v.n /\ u.at = "idle" /\ u.caller = FALSE
    BY <1>1, <1>8 DEF View
  <2> HIDE DEF u
  <2>3. ConvOK(u, conv'[p])
    BY <1>1, <1>8, <2>2 DEF ConvOK, Dead, Keyed
  <2> QED BY <1>6, <2>1, <2>2, <2>3
<1> QED BY <1>7, <1>8

\* The user answers; the handler goes on if the security of the session changed.
LEMMA UserDecides ==
  ASSUME NEW p \in Peer, NEW v, NEW w, Step(p, v, w), Goes(p, "asking"),
         sess'[Other(p)] = sess[Other(p)], conv'[Other(p)] = conv[Other(p)],
         trusted'[Other(p)] = trusted[Other(p)], trusted[p] \subseteq trusted'[p], net' = net,
         \A d \in Call : d # thread[p].c => sess'[p][d] = sess[p][d],
         NEW t, t = sess'[p][thread[p].c], t.state = sess[p][thread[p].c].state,
         t.running = sess[p][thread[p].c].running, t.started = sess[p][thread[p].c].started,
         t.key = sess[p][thread[p].c].key,
         Proper(conv'[p]), conv'[p].key = conv[p].key, conv'[p].out = conv[p].out,
         conv[p].events = <<>> => conv'[p].events = <<>>,
         t.secure => conv'[p].key \in trusted'[p] \cup {None} /\ conv'[p].events = <<>>,
         NextChange(p, thread[p].c, sess[p][thread[p].c].secure)
  PROVE  KeysInv'
<1> DEFINE q == Other(p)
           c == thread[p].c
           h == handler[p]
           s == sess[p][c]
<1>0. Way(p, v, "asking")
  BY Zenon, WayKnows
<1>1. /\ c \in Call /\ h \in Call /\ h # 0 /\ v \in View /\ v.role \in {"rest", "shared", "held"}
      /\ v.role \in Place(h, sess[p][h]) /\ ConvOK(v, conv[p]) /\ s \in Session
      /\ v.at # "idle" /\ v.at # "answer" /\ v.caller = s.started /\ s.started \in BOOLEAN
  BY Zenon, <1>0 DEF Way
<1>2. /\ SessionsOK(p) /\ q \in Peer /\ q # p /\ thread \in [Peer -> Thread]
      /\ Told(s, trusted[p]) /\ Exchanges(p, c) /\ handler' = handler
      /\ c # h => sess[p][h].state = "Start"
  BY <1>0 DEF Way, callVars
<1>3. v.at = "busy"
  BY <1>1 DEF View
<1>4. Pair(v, w, net[p], net[q])
  BY Zenon DEF Step
<1> HIDE DEF q, c, h, s
<1>5. Told(t, trusted'[p])
  BY <1>2 DEF Told, s, c
<1>6. c = h /\ t.running /\ t.key # None => conv'[p].key = t.key
  BY <1>1, <1>2 DEF SessionsOK, s, c, h
<1>7. Place(h, sess'[p][h]) = Place(h, sess[p][h])
  <2>1. CASE c = h
    <3>1. /\ sess'[p][h].state = sess[p][h].state /\ sess'[p][h].running = sess[p][h].running
          /\ sess'[p][h].started = sess[p][h].started
      BY <2>1 DEF c
    <3> QED BY <3>1 DEF Place, DeploysKryptonite
  <2>2. CASE c # h
    <3>1. sess'[p][h] = sess[p][h]
      BY Zenon, <1>1, <2>2 DEF c
    <3> QED BY <3>1
  <2> QED BY <2>1, <2>2
<1>8. ASSUME NEW u, u.role = v.role, u.n = v.n, u.key = v.key, ConvOK(v, conv[p]),
             v.at # "idle"
      PROVE  ConvOK(u, conv'[p])
  <2>1. v.role = "rest" => /\ conv'[p].key = None /\ conv'[p].events = <<>> /\ conv'[p].out = <<>>
    BY <1>8 DEF ConvOK, Dead
  <2>2. JunkOnly(<<>>, u.n)
    BY DEF JunkOnly
  <2>3. v.role # "rest" => conv'[p].key = v.key
    BY <1>1, <1>8 DEF ConvOK, Keyed
  <2>4. v.role = "shared" => conv'[p].out = <<>>
    BY <1>8 DEF ConvOK
  <2>5. v.role = "held" => conv'[p].out = <<<<"Sig", u.key[1], u.key[2]>>>>
    BY Zenon, <1>8 DEF ConvOK
  <2> QED BY <1>1, <1>8, <2>1, <2>2, <2>3, <2>4, <2>5 DEF ConvOK, Dead, Keyed
<1>9. ASSUME NEW u, u.role = v.role, u.n = v.n, u.key = v.key, Pair(u, w, net[p], net[q]),
             thread'[q] = thread[q],
             \/ thread'[p] = Idle /\ u.at = "idle" /\ u.caller = FALSE
             \/ thread'[p] = [at |-> "changed", c |-> c] /\ u.at = "busy" /\ u.caller = s.started
      PROVE  KeysInv'
  <2>1. \/ thread'[p] = Idle /\ u.at = "idle" /\ u.caller = FALSE
        \/ /\ thread'[p] # Idle /\ thread'[p].at = "changed" /\ thread'[p].c = c
           /\ u.at = "busy" /\ u.caller = s.started
    BY <1>1, <1>9, ThreadIs
  <2>2. u.at = AtOf(thread'[p])
    BY <2>1 DEF AtOf
  <2>3. sess'[p][c] = t /\ t.started = s.started
    BY DEF c, s
  <2>4. u.caller = (thread'[p] # Idle /\ sess'[p][thread'[p].c].started)
    BY <1>1, <2>1, <2>3
  <2>5. WorkOK(p)'
    <3>1. t.state \in {"ExchangingKeys", "Routing"}
      BY <1>2 DEF Exchanges, s, c
    <3>2. c # h => sess'[p][h].state = "Start"
      BY <1>1, <1>2 DEF c, h
    <3>3. handler'[p] = h
      BY <1>2 DEF h
    <3> QED BY <2>1, <2>3, <3>1, <3>2, <3>3 DEF WorkOK, Exchanges
  <2>6. u.role \in Place(h, sess'[p][h]) /\ ConvOK(u, conv'[p])
    BY <1>1, <1>7, <1>8, <1>9
  <2>7. Pair(u, w, net'[p], net'[q])
    BY Zenon, <1>9
  <2>8. /\ Told(sess'[p][c], trusted'[p]) /\ (sess'[p][c].running => s.running)
        /\ c = h /\ sess'[p][c].running /\ sess'[p][c].key # None => conv'[p].key = sess'[p][c].key
    BY Zenon, <1>5, <1>6, <2>3 DEF s, c
  <2> QED BY Zenon, <1>9, <2>2, <2>4, <2>5, <2>6, <2>7, <2>8, WentOn DEF q, c, h, s
<1>10. CASE thread' = [thread EXCEPT ![p] = [at |-> "changed", c |-> c]]
  <2>1. thread'[p] = [at |-> "changed", c |-> c] /\ thread'[q] = thread[q]
    BY <1>2, <1>10
  <2> QED BY <1>1, <1>3, <1>4, <1>9, <2>1
<1>11. CASE thread' = [thread EXCEPT ![p] = Idle]
  <2> DEFINE u == [v EXCEPT !.at = "idle", !.caller = FALSE]
  <2>1. Pair(u, w, net[p], net[q])
    BY Zenon, <1>4, AtRest
  <2>2. u.role = v.role /\ u.n = v.n /\ u.key = v.key /\ u.at = "idle" /\ u.caller = FALSE
    BY <1>1 DEF View
  <2> HIDE DEF u
  <2>3. thread'[p] = Idle /\ thread'[q] = thread[q]
    BY Zenon, <1>2, <1>11
  <2> QED BY <1>9, <2>1, <2>2, <2>3
<1> QED BY <1>10, <1>11 DEF NextChange, Busy, Done, c

\* The user confirms a fingerprint.
LEMMA AcceptKeys ==
  ASSUME Accepting, KeysInv, SurfaceInv', NEW p \in Peer, Accept(p)
  PROVE  KeysInv'
<1> DEFINE q == Other(p)
           c == thread[p].c
           k0 == conv[p]
           b == conv[p].open /\ Secured(conv[p], sess[p][c].secure)
<1>0. thread[p].at # "deploying"
  BY DEF Accept, Goes
<1>1. PICK v, w : Sees(p, v) /\ Seems(q, w) /\ Pair(v, w, net[p], net[q])
  BY <1>0, BeforeSeen
<1>2. Step(p, v, w) /\ Goes(p, "asking")
  BY <1>1 DEF Step, Seems, Accept
<1>3. Way(p, v, "asking")
  BY <1>2, WayKnows
<1>4. /\ SurfaceInv /\ WorkOK(p) /\ q \in Peer /\ q # p /\ c \in Call /\ sess[p][c] \in Session
      /\ k0 \in Conversation /\ Proper(k0)
  BY <1>3 DEF Way
<1>5. /\ trusted' = IF conv[p].open THEN [trusted EXCEPT ![p] = @ \cup {conv[p].key}] ELSE trusted
      /\ conv' = [conv EXCEPT ![p] = IF @.open THEN Polled(@) ELSE @]
      /\ sess' = [sess EXCEPT ![p][c].secure = conv[p].open /\ Secured(conv[p], @)]
      /\ NextChange(p, c, sess[p][c].secure) /\ net' = net
  BY DEF Accept
<1>6. ~k0.open \/ (k0.events = <<"secure">> /\ k0.key # None)
  <2>1. thread[p] # Idle /\ thread[p].at = "asking"
    BY <1>2, <1>4, ThreadSession
  <2> QED BY <1>4, <2>1 DEF WorkOK
<1>7. sess' = [sess EXCEPT ![p][c].secure = b] /\ b \in BOOLEAN
  BY <1>4, <1>5 DEF Session
<1>8. Types
  BY <1>4 DEF SurfaceInv
<1> HIDE DEF q, c, b, k0
<1>9. /\ sess'[q] = sess[q] /\ \A d \in Call : d # c => sess'[p][d] = sess[p][d]
      /\ sess'[p][c].state = sess[p][c].state /\ sess'[p][c].running = sess[p][c].running
      /\ sess'[p][c].started = sess[p][c].started /\ sess'[p][c].key = sess[p][c].key
      /\ sess'[p][c].secure = b
  <2>1. sess \in [Peer -> [Call -> Session]]
    BY <1>8 DEF Types
  <2> QED BY <1>4, <1>7, <2>1 DEF Session
<1>10. /\ conv'[q] = conv[q] /\ Proper(conv'[p]) /\ conv'[p].key = k0.key /\ conv'[p].out = k0.out
       /\ k0.events = <<>> => conv'[p].events = <<>>
       /\ k0.open => conv'[p].events = <<>>
  <2>1. CASE k0.open
    <3>1. conv' = [conv EXCEPT ![p] = Polled(k0)]
      BY <1>5, <2>1 DEF k0
    <3>2. k0.events # <<>> /\ Tail(k0.events) = <<>>
      <4>1. k0.events = <<"secure">>
        BY <1>6, <2>1
      <4> HIDE DEF k0
      <4> QED BY <4>1, OneEvent
    <3>3. /\ Proper(Polled(k0)) /\ Polled(k0).key = k0.key
          /\ Polled(k0).events = Tail(k0.events) /\ Polled(k0).out = k0.out
      BY <1>4, <2>1, <3>2, PolledLeaves
    <3>4. conv'[p] = Polled(k0) /\ conv'[q] = conv[q]
      BY <1>4, <1>8, <3>1 DEF Types
    <3> QED BY <3>2, <3>3, <3>4
  <2>2. CASE ~k0.open
    <3>1. conv' = [conv EXCEPT ![p] = k0]
      BY <1>5, <2>2 DEF k0
    <3>2. conv'[p] = k0 /\ conv'[q] = conv[q]
      BY <1>4, <1>8, <3>1 DEF Types
    <3> QED BY <1>4, <2>2, <3>2
  <2> QED BY <2>1, <2>2
<1>11. /\ trusted'[q] = trusted[q] /\ trusted[p] \subseteq trusted'[p]
       /\ k0.open => k0.key \in trusted'[p]
  <2>1. CASE k0.open
    <3>1. trusted' = [trusted EXCEPT ![p] = @ \cup {k0.key}]
      BY <1>5, <2>1 DEF k0
    <3> QED BY <1>4, <3>1 DEF Accepting
  <2>2. CASE ~k0.open
    BY <1>5, <2>2 DEF k0
  <2> QED BY <2>1, <2>2
<1>12. b => conv'[p].key \in trusted'[p] \cup {None} /\ conv'[p].events = <<>>
  BY Zenon, <1>10, <1>11 DEF b, k0
<1> QED BY Zenon, <1>2, <1>5, <1>9, <1>10, <1>11, <1>12, UserDecides DEF q, c, k0

\* The user refuses it.
LEMMA RefuseKeys ==
  ASSUME KeysInv, SurfaceInv', NEW p \in Peer, Refuse(p)
  PROVE  KeysInv'
<1> DEFINE q == Other(p)
           c == thread[p].c
<1>0. thread[p].at # "deploying"
  BY Zenon DEF Refuse, Goes
<1>1. PICK v, w : Sees(p, v) /\ Seems(q, w) /\ Pair(v, w, net[p], net[q])
  BY <1>0, BeforeSeen
<1>2. Step(p, v, w) /\ Goes(p, "asking")
  BY <1>1 DEF Step, Seems, Refuse
<1>3. Way(p, v, "asking")
  BY <1>2, WayKnows
<1>4. /\ SurfaceInv /\ q \in Peer /\ q # p /\ c \in Call /\ Proper(conv[p])
  BY Zenon, <1>3 DEF Way
<1>5. /\ sess' = [sess EXCEPT ![p][c].secure = FALSE, ![p][c].refused = TRUE]
      /\ NextChange(p, c, sess[p][c].secure) /\ UNCHANGED <<conv, trusted, net>>
  BY DEF Refuse
<1>6. Types
  BY <1>4 DEF SurfaceInv
<1> HIDE DEF q, c
<1>7. /\ sess'[q] = sess[q] /\ \A d \in Call : d # c => sess'[p][d] = sess[p][d]
      /\ sess'[p][c].state = sess[p][c].state /\ sess'[p][c].running = sess[p][c].running
      /\ sess'[p][c].started = sess[p][c].started /\ sess'[p][c].key = sess[p][c].key
      /\ sess'[p][c].secure = FALSE
  <2>1. sess \in [Peer -> [Call -> Session]]
    BY <1>6 DEF Types
  <2> QED BY <1>4, <1>5, <2>1 DEF Session
<1> QED BY Zenon, <1>2, <1>4, <1>5, <1>7, UserDecides DEF q, c

\* The security of a session changed: bottom is to get the key, or the session ends.
LEMMA SecurityStatusChangedKeys ==
  ASSUME KeysInv, SurfaceInv', NEW p \in Peer, SecurityStatusChanged(p)
  PROVE  KeysInv'
<1> DEFINE q == Other(p)
           c == thread[p].c
           s == sess[p][c]
           k0 == conv[p]
           routing == [s EXCEPT !.state = "Routing"]
<1>0. thread[p].at # "deploying"
  BY DEF SecurityStatusChanged, Goes
<1>1. PICK v, w : Sees(p, v) /\ Seems(q, w) /\ Pair(v, w, net[p], net[q])
  BY <1>0, BeforeSeen
<1>2. Step(p, v, w) /\ Goes(p, "changed")
  BY <1>1 DEF Step, Seems, SecurityStatusChanged
<1>3. Way(p, v, "changed")
  BY <1>2, WayKnows
<1>4. /\ SurfaceInv /\ WorkOK(p) /\ q \in Peer /\ q # p /\ c \in Call /\ s \in Session
      /\ thread \in [Peer -> Thread] /\ k0 \in Conversation /\ Proper(k0) /\ Told(s, trusted[p])
      /\ UNCHANGED callVars
  BY <1>3 DEF Way
<1>5. /\ v.role \in {"rest", "shared", "held"} /\ ConvOK(v, k0) /\ v \in View
      /\ (v.role = "rest" => ~s.running) /\ v.at # "idle" /\ v.at # "answer" /\ v.caller = s.started
      /\ v.role \in Place(handler[p], sess[p][handler[p]]) /\ s.started \in BOOLEAN
  BY <1>3 DEF Way
<1>6. /\ IF s.state # "ExchangingKeys" THEN Becomes(p, c, TornDown(s, k0)) /\ Done(p)
         ELSE IF ~s.secure THEN Becomes(p, c, TornDown(routing, k0)) /\ Done(p)
         ELSE IF k0.key = None
         THEN Becomes(p, c, Result(routing, k0, <<>>)) /\ Done(p)
         ELSE /\ thread' = [thread EXCEPT ![p] = [at |-> "encrypt", c |-> c, key |-> k0.key]]
              /\ UNCHANGED <<sess, conv>>
      /\ trusted' = trusted /\ net' = net
  BY DEF SecurityStatusChanged
<1>7. thread[p] # Idle /\ thread[p].at = "changed" /\ thread[p].c = c
  BY <1>2, <1>4, ThreadSession
<1>8. Types
  BY <1>4 DEF SurfaceInv
<1> HIDE DEF q, c, k0
<1>9. /\ routing \in Session /\ routing.running = s.running /\ routing.key = s.key /\ routing.started = s.started
      /\ routing.state = "Routing" /\ Told(routing, trusted[p])
  <2>1. /\ routing \in Session /\ routing.running = s.running /\ routing.key = s.key
        /\ routing.started = s.started /\ routing.state = "Routing"
    BY <1>4 DEF Session
  <2> HIDE DEF s, routing
  <2> QED BY <1>4, <2>1 DEF Told
<1> HIDE DEF s, routing
<1>10. ASSUME NEW r, r.sess \in Session, r.conv \in Conversation, Becomes(p, c, r), Done(p),
              ~r.sess.running, Told(r.sess, trusted[p]),
              \/ Proper(r.conv) /\ r.conv.key = None /\ r.conv.events = <<>> /\ r.conv.out = <<>>
              \/ r.conv = k0 /\ v.role = "rest"
       PROVE  KeysInv'
  <2>1. /\ sess'[p][c] = r.sess /\ conv'[p] = r.conv
        /\ \A d \in Call : d # c => sess'[p][d] = sess[p][d]
        /\ sess'[q] = sess[q] /\ conv'[q] = conv[q]
    BY <1>4, <1>8, <1>10, Became
  <2>2. thread'[p] = Idle /\ thread'[q] = thread[q]
    BY <1>4, <1>10 DEF Done
  <2>3. \/ Proper(conv'[p]) /\ conv'[p].key = None /\ conv'[p].events = <<>> /\ conv'[p].out = <<>>
        \/ conv'[p] = k0 /\ v.role = "rest"
    BY <1>10, <2>1
  <2>4. trusted' = trusted /\ net' = net
    BY <1>6
  <2>5. ~sess'[p][c].running /\ Told(sess'[p][c], trusted[p])
    BY <1>10, <2>1
  <2> QED BY <1>2, <2>1, <2>2, <2>3, <2>4, <2>5, WentToRest DEF q, c, k0
<1>11. ASSUME NEW t \in Session, Told(t, trusted[p]), Becomes(p, c, TornDown(t, k0)), Done(p)
       PROVE  KeysInv'
  <2> DEFINE r == TornDown(t, k0)
  <2>1. /\ r.sess \in Session /\ ~r.sess.running /\ Told(r.sess, trusted[p])
        /\ r.conv \in Conversation
        /\ Proper(r.conv) /\ r.conv.key = None /\ r.conv.events = <<>> /\ r.conv.out = <<>>
    BY <1>4, <1>11, TornDownLeaves
  <2>2. Becomes(p, c, r)
    BY <1>11
  <2> HIDE DEF r
  <2> QED BY <1>10, <1>11, <2>1, <2>2
<1>12. CASE s.state # "ExchangingKeys" \/ ~s.secure
  BY <1>4, <1>6, <1>9, <1>11, <1>12
<1>13. CASE s.state = "ExchangingKeys" /\ s.secure /\ k0.key = None
  <2> DEFINE r == Result(routing, k0, <<>>)
  <2>1. Becomes(p, c, r) /\ Done(p)
    BY <1>6, <1>13
  <2>2. r.sess = routing /\ r.conv = k0
    BY DEF Result
  <2>3. v.role = "rest"
    <3>1. None \notin Key
      BY Zenon, NoneAssumption DEF Key
    <3> QED BY <1>5, <1>13, <3>1 DEF ConvOK, View, Keyed
  <2> HIDE DEF r
  <2> QED BY <1>4, <1>5, <1>9, <1>10, <2>1, <2>2, <2>3
<1>14. CASE s.state = "ExchangingKeys" /\ s.secure /\ k0.key # None
  <2>1. thread' = [thread EXCEPT ![p] = [at |-> "encrypt", c |-> c, key |-> k0.key]] /\ sess' = sess /\ conv' = conv
    BY <1>6, <1>14
  <2>2. k0.key \in Key
    BY <1>4, <1>14 DEF Conversation, Record
  <2>3. thread'[p] = [at |-> "encrypt", c |-> c, key |-> k0.key] /\ thread'[q] = thread[q]
    BY <1>4, <2>1
  <2>4. thread'[p] # Idle /\ thread'[p].at = "encrypt" /\ thread'[p].c = c /\ thread'[p].key = k0.key
    BY <1>4, <2>2, <2>3, ThreadIs
  <2>5. k0.key \in trusted[p] /\ k0.events = <<>>
    BY <1>4, <1>7, <1>14 DEF WorkOK, k0, s
  <2>6. handler' = handler /\ trusted' = trusted /\ net' = net
    BY <1>4, <1>6 DEF callVars
  <2>7. WorkOK(p)'
    <3>1. s.state \in {"ExchangingKeys", "Routing"} /\ (c # handler[p] => sess[p][handler[p]].state = "Start")
      BY <1>4, <1>7, <1>14 DEF WorkOK
    <3> QED BY <2>1, <2>4, <2>5, <2>6, <3>1 DEF WorkOK, Exchanges, s, k0
  <2>8. v.at = AtOf(thread'[p])
    BY <1>5, <2>4 DEF AtOf, View
  <2>9. v.caller = (thread'[p] # Idle /\ sess'[p][thread'[p].c].started)
    BY <1>5, <2>1, <2>4 DEF s
  <2>10. Pair(v, w, net'[p], net'[q]) /\ ConvOK(v, conv'[p]) /\ v.role \in Place(handler[p], sess'[p][handler[p]])
    BY <1>1, <1>5, <2>1, <2>6 DEF k0
  <2>11. c = handler[p] /\ sess'[p][c].running /\ sess'[p][c].key # None => conv'[p].key = sess'[p][c].key
    <3>1. SessionsOK(p)
      BY <1>3 DEF Way
    <3> QED BY <1>4, <2>1, <3>1 DEF SessionsOK
  <2>12. Told(sess'[p][c], trusted'[p])
    BY <1>4, <2>1, <2>6 DEF s
  <2> QED BY Zenon, <1>2, <2>1, <2>3, <2>6, <2>7, <2>8, <2>9, <2>10, <2>11, <2>12, WentOn DEF q, c
<1> QED BY <1>12, <1>13, <1>14

\* A message of Bottom's is sent, OTR's own ones first.
LEMMA BottomLeaves ==
  ASSUME SurfaceInv, NEW p \in Peer, NEW c, NEW body \in {"Request", "Answer"}, SendBottom(p, c, body),
         Proper(conv[p]),
         conv[p].out = <<>> \/ conv[p].events = <<>>
  PROVE  /\ conv'[Other(p)] = conv[Other(p)] /\ net'[p] = net[p]
         /\ net'[Other(p)] = net[Other(p)] \o Append(Kryptonites(conv[p].out), Bottom(Cipher(conv[p], body)))
         /\ Proper(conv'[p]) /\ conv'[p].key = conv[p].key /\ conv'[p].out = <<>>
         /\ conv[p].events = <<>> => conv'[p].events = <<>>
<1> DEFINE q == Other(p)
           k0 == conv[p]
           k == Sending(k0)
           b == Bottom(Cipher(k, body))
<1>1. /\ q \in Peer /\ q # p /\ k0 \in Conversation /\ conv \in [Peer -> Conversation]
  BY TwoPeers DEF SurfaceInv, Types
<1>2. conv' = [conv EXCEPT ![p] = Polled(k)] /\ Send(p, Append(PolledOut(k), b))
  BY DEF SendBottom
<1> HIDE DEF k0
<1>3. /\ k \in Conversation /\ Proper(k) /\ k.open /\ k.key = k0.key /\ k.events = k0.events /\ k.out = k0.out
  BY <1>1, SendingLeaves DEF k0
<1>4. b = Bottom(Cipher(k0, body))
  BY <1>3 DEF Cipher
<1> HIDE DEF k, b
<1>5. /\ Proper(Polled(k)) /\ Polled(k).key = k.key
      /\ IF k.events = <<>> THEN Polled(k).events = <<>> /\ Polled(k).out = <<>> /\ PolledOut(k) = Kryptonites(k.out)
         ELSE Polled(k).events = Tail(k.events) /\ Polled(k).out = k.out /\ PolledOut(k) = <<>>
  BY <1>3, PolledLeaves
<1>6. conv'[p] = Polled(k) /\ conv'[q] = conv[q]
  BY <1>1, <1>2
<1>7. Kryptonites(<<>>) = <<>>
  BY DEF Kryptonites
<1>8. PolledOut(k) = Kryptonites(k0.out) /\ Polled(k).out = <<>>
  BY <1>3, <1>5, <1>7 DEF k0
<1>9. net'[p] = net[p] /\ net'[q] = net[q] \o Append(PolledOut(k), b)
  BY <1>2, Posted
<1> HIDE DEF q
<1> QED BY <1>3, <1>4, <1>5, <1>6, <1>8, <1>9 DEF q, k0

\* The messages that are sent with the first one of Bottom's.
LEMMA SentWith ==
  ASSUME NEW y \in Seq(Message), NEW b \in Message
  PROVE  /\ y \o Append(Kryptonites(<<>>), b) = y \o <<b>>
         /\ \A K \in Key : y \o Append(Kryptonites(<<<<"Sig", K[1], K[2]>>>>), b) = (y \o <<SigOf(K)>>) \o <<b>>
<1>1. Kryptonites(<<>>) = <<>>
  BY DEF Kryptonites
<1>2. Append(<<>>, b) = <<b>>
  OBVIOUS
<1>3. ASSUME NEW K \in Key
      PROVE  y \o Append(Kryptonites(<<<<"Sig", K[1], K[2]>>>>), b) = (y \o <<SigOf(K)>>) \o <<b>>
  <2> DEFINE m == <<"Sig", K[1], K[2]>>
             g == Kryptonite(m)
  <2>1. m \in Otr
    BY DEF Otr, Key
  <2> HIDE DEF m
  <2>2. Append(<<>>, m) = <<m>>
    BY <2>1
  <2>3. Kryptonites(<<m>>) = <<g>>
    BY <2>1, <2>2, OneSent
  <2>4. g \in Message
    BY <2>1, KryptonitesAre DEF Unsyn
  <2>5. g = SigOf(K)
    BY DEF SigOf, m
  <2> HIDE DEF g
  <2>6. y \o Append(<<g>>, b) = (y \o <<g>>) \o <<b>>
    BY <2>4
  <2> QED BY <2>3, <2>5, <2>6 DEF m
<1> QED BY <1>1, <1>2, <1>3

\* Bottom gets the key; the one who began the protocol sends its request.
LEMMA EncryptKeys ==
  ASSUME KeysInv, SurfaceInv', NEW p \in Peer, Encrypt(p)
  PROVE  KeysInv'
<1> DEFINE q == Other(p)
           c == thread[p].c
           s == sess[p][c]
           k0 == conv[p]
           K == thread[p].key
           h == handler[p]
<1>0. thread[p].at # "deploying"
  BY DEF Encrypt, Goes
<1>1. PICK v, w : Sees(p, v) /\ Seems(q, w) /\ Pair(v, w, net[p], net[q])
  BY <1>0, BeforeSeen
<1>2. Step(p, v, w) /\ Goes(p, "encrypt")
  BY <1>1 DEF Step, Seems, Encrypt
<1>3. Way(p, v, "encrypt")
  BY <1>2, WayKnows
<1>4. /\ SurfaceInv /\ WorkOK(p) /\ q \in Peer /\ q # p /\ c \in Call /\ s \in Session
      /\ thread \in [Peer -> Thread] /\ k0 \in Conversation /\ Proper(k0) /\ Told(s, trusted[p])
      /\ net[q] \in Seq(Message) /\ h \in Call /\ h # 0 /\ Exchanges(p, c)
  BY <1>3 DEF Way
<1>5. /\ v.role \in {"rest", "shared", "held"} /\ ConvOK(v, k0) /\ v \in View
      /\ (v.role = "rest" => ~s.running) /\ v.at # "idle" /\ v.caller = s.started
      /\ v.role \in Place(h, sess[p][h]) /\ s.started \in BOOLEAN
      /\ v.role # "rest" => c = h /\ s.running
      /\ v.role = "held" => v.caller
      /\ v.role = "shared" => ~v.caller
  BY <1>3 DEF Way
<1>6. /\ sess' = [sess EXCEPT ![p][c].key = K, ![p][c].state = "Routing"]
      /\ IF s.started THEN SendBottom(p, c, "Request") ELSE UNCHANGED <<conv, net>>
      /\ Done(p) /\ trusted' = trusted
  BY DEF Encrypt
<1>7. thread[p] # Idle /\ thread[p].at = "encrypt" /\ K \in Key
  BY <1>2, <1>4, ThreadSession
<1>8. K \in trusted[p] /\ k0.events = <<>> /\ (c = h /\ sess[p][h].running => k0.key = K)
  BY <1>4, <1>7 DEF WorkOK
<1>9. Types
  BY <1>4 DEF SurfaceInv
<1> HIDE DEF q, c, s, k0, K, h
<1>10. /\ sess'[q] = sess[q] /\ \A d \in Call : d # c => sess'[p][d] = sess[p][d]
       /\ sess'[p][c].state = "Routing" /\ sess'[p][c].running = s.running
       /\ sess'[p][c].started = s.started /\ sess'[p][c].key = K
  <2>1. sess \in [Peer -> [Call -> Session]]
    BY <1>9 DEF Types
  <2>2. sess'[q] = sess[q] /\ \A d \in Call : d # c => sess'[p][d] = sess[p][d]
    BY <1>4, <1>6, <2>1
  <2>3. sess'[p][c] = [s EXCEPT !.key = K, !.state = "Routing"]
    BY <1>4, <1>6, <2>1 DEF s
  <2> QED BY <1>4, <2>2, <2>3 DEF Session
<1>11. thread'[p] = Idle /\ thread'[q] = thread[q]
  BY <1>4, <1>6 DEF Done
<1>12. Told(sess'[p][c], trusted'[p])
  BY <1>6, <1>8, <1>10 DEF Told
<1>13. WorkOK(p)'
  BY <1>11 DEF WorkOK
<1>14. /\ conv'[q] = conv[q] /\ net'[p] = net[p] /\ Proper(conv'[p]) /\ conv'[p].key = k0.key
       /\ conv'[p].events = <<>>
       /\ s.started => /\ conv'[p].out = <<>>
                       /\ net'[q] = net[q] \o Append(Kryptonites(k0.out), Bottom(Cipher(k0, "Request")))
       /\ ~s.started => net'[q] = net[q] /\ conv'[p] = k0
  <2>1. CASE s.started
    <3>1. SendBottom(p, c, "Request")
      BY <1>6, <2>1
    <3> QED BY <1>4, <1>8, <2>1, <3>1, BottomLeaves DEF k0, q
  <2>2. CASE ~s.started
    BY <1>4, <1>6, <1>8, <2>2 DEF k0
  <2> QED BY <2>1, <2>2
<1>15. c = h /\ sess'[p][c].running /\ sess'[p][c].key # None => conv'[p].key = sess'[p][c].key
  BY <1>8, <1>10, <1>14 DEF s, c, h
<1>16. AtOf(thread'[p]) = "idle" /\ (thread'[p] # Idle) = FALSE
  BY Zenon, <1>11 DEF AtOf
<1>17. ASSUME NEW u, u.n = v.n, u.at = "idle", u.caller = FALSE, u.role \in Place(h, sess'[p][h]),
              ConvOK(u, conv'[p]), Pair(u, w, net[p], net'[q])
       PROVE  KeysInv'
  <2>1. u.at = AtOf(thread'[p]) /\ u.caller = (thread'[p] # Idle /\ sess'[p][thread'[p].c].started)
    BY <1>16, <1>17
  <2>2. trusted'[q] = trusted[q] /\ trusted[p] \subseteq trusted'[p]
    BY <1>6
  <2>3. Pair(u, w, net'[p], net'[q])
    BY <1>14, <1>17
  <2>4. sess'[p][c].running => s.running
    BY <1>10
  <2> QED BY Zenon, <1>2, <1>10, <1>11, <1>12, <1>13, <1>14, <1>15, <1>17, <2>1, <2>2, <2>3, <2>4, WentOn
          DEF q, c, s, h
<1>18. JunkOnly(<<>>, v.n)
  BY DEF JunkOnly
<1> DEFINE u == [v EXCEPT !.at = "idle", !.caller = FALSE]
<1>19. u.role = v.role /\ u.n = v.n /\ u.key = v.key /\ u.at = "idle" /\ u.caller = FALSE
  BY <1>5 DEF View
<1>20. v.role = "rest" => k0.key = None /\ k0.out = <<>> /\ "rest" \in Place(h, sess'[p][h])
  <2> SUFFICES ASSUME v.role = "rest"
               PROVE  k0.key = None /\ k0.out = <<>> /\ "rest" \in Place(h, sess'[p][h])
    OBVIOUS
  <2>1. k0.key = None /\ k0.out = <<>>
    BY <1>5 DEF ConvOK, Dead
  <2>2. CASE c = h
    <3>1. ~sess'[p][h].running /\ h # 0
      BY <1>4, <1>5, <1>10, <2>2
    <3> QED BY <2>1, <3>1 DEF Place, DeploysKryptonite
  <2>3. CASE c # h
    BY <1>4, <1>5, <1>10, <2>1, <2>3
  <2> QED BY <2>2, <2>3
<1>21. Pair(u, w, net[p], net[q])
  BY Zenon, <1>1, AtRest
<1>22. CASE ~s.started
  <2>1. ConvOK(u, conv'[p])
    BY <1>5, <1>14, <1>19, <1>22 DEF ConvOK, Dead, Keyed
  <2>2. u.role \in Place(h, sess'[p][h])
    <3>1. CASE v.role = "rest"
      BY <1>19, <1>20, <3>1
    <3>2. CASE v.role = "shared"
      <4>1. c = h /\ DeploysKryptonite(sess'[p][h]) /\ ~sess'[p][h].started /\ h # 0
        BY <1>4, <1>5, <1>10, <1>22, <3>2 DEF DeploysKryptonite
      <4> QED BY <1>19, <3>2, <4>1 DEF Place, Responds
    <3> QED BY <1>5, <1>22, <3>1, <3>2
  <2>3. Pair(u, w, net[p], net'[q])
    BY <1>14, <1>21, <1>22
  <2> HIDE DEF u
  <2> QED BY <1>17, <1>19, <2>1, <2>2, <2>3
<1>23. CASE s.started /\ v.role = "rest"
  <2>1. ConvOK(u, conv'[p])
    BY <1>14, <1>18, <1>19, <1>20, <1>23 DEF ConvOK, Dead, Keyed
  <2>2. Bottom(Cipher(k0, "Request")) = Bottom(<<"Query">>)
    BY <1>20, <1>23 DEF Cipher
  <2>3. Bottom(<<"Query">>) \in Message
    BY Kinds
  <2>4. net'[q] = net[q] \o <<Bottom(<<"Query">>)>>
    BY <1>4, <1>14, <1>20, <1>23, <2>2, <2>3, SentWith
  <2>5. Pair(u, w, net[p], net[q] \o <<Bottom(<<"Query">>)>>)
    BY Zenon, <1>1, <1>5, <1>23, AtPlain
  <2> HIDE DEF u
  <2> QED BY <1>17, <1>19, <1>20, <1>23, <2>1, <2>4, <2>5
<1>24. CASE s.started /\ v.role = "held"
  <2> DEFINE x == [v EXCEPT !.role = "sent", !.at = "idle", !.caller = FALSE]
             b == DataOf(v.key, "Request")
  <2>1. x.role = "sent" /\ x.n = v.n /\ x.key = v.key /\ x.at = "idle" /\ x.caller = FALSE
    BY <1>5 DEF View
  <2>2. v.key \in Key /\ k0.key = v.key /\ k0.out = <<<<"Sig", v.key[1], v.key[2]>>>> /\ v.key # None
    BY <1>5, <1>24, NoneAssumption DEF View, ConvOK, Keyed, Key
  <2>3. Bottom(Cipher(k0, "Request")) = b
    BY <2>2 DEF Cipher, DataOf
  <2>4. b \in Message
    BY <2>2, Kinds
  <2> HIDE DEF b, x
  <2>5. net'[q] = (net[q] \o <<SigOf(v.key)>>) \o <<b>>
    <3>1. net'[q] = net[q] \o Append(Kryptonites(<<<<"Sig", v.key[1], v.key[2]>>>>), b)
      BY <1>14, <1>24, <2>2, <2>3
    <3> QED BY <1>4, <2>2, <2>4, <3>1, SentWith
  <2>6. Pair(x, w, net[p], (net[q] \o <<SigOf(v.key)>>) \o <<b>>)
    BY Zenon, <1>1, <1>5, <1>24, AtShared DEF x, b
  <2>7. ConvOK(x, conv'[p])
    BY <1>14, <1>24, <2>1, <2>2 DEF ConvOK, Dead, Keyed
  <2>8. x.role \in Place(h, sess'[p][h])
    <3>1. c = h /\ DeploysKryptonite(sess'[p][h]) /\ sess'[p][h].started /\ h # 0
      BY <1>4, <1>5, <1>10, <1>24 DEF DeploysKryptonite
    <3> QED BY <2>1, <3>1 DEF Place, Starts
  <2> QED BY <1>17, <2>1, <2>5, <2>6, <2>7, <2>8
<1> QED BY <1>5, <1>22, <1>23, <1>24

\* Bottom answers a request.
LEMMA AnswerRequestKeys ==
  ASSUME KeysInv, SurfaceInv', NEW p \in Peer, AnswerRequest(p)
  PROVE  KeysInv'
<1> DEFINE q == Other(p)
           c == thread[p].c
           s == sess[p][c]
           k0 == conv[p]
           h == handler[p]
           b == Bottom(Cipher(k0, "Answer"))
<1>0. thread[p].at # "deploying"
  BY DEF AnswerRequest, Goes
<1>1. PICK v, w : Sees(p, v) /\ Seems(q, w) /\ Pair(v, w, net[p], net[q])
  BY <1>0, BeforeSeen
<1>2. Step(p, v, w) /\ Goes(p, "answer")
  BY <1>1 DEF Step, Seems, AnswerRequest
<1>3. Way(p, v, "answer")
  BY <1>2, WayKnows
<1>4. /\ SurfaceInv /\ SessionsOK(p) /\ q \in Peer /\ q # p /\ c \in Call
      /\ thread \in [Peer -> Thread] /\ k0 \in Conversation /\ Proper(k0) /\ Told(s, trusted[p])
      /\ net[q] \in Seq(Message)
  BY <1>3 DEF Way
<1>5. /\ v.role \in {"rest", "shared", "held"} /\ ConvOK(v, k0) /\ v \in View
      /\ v.at # "idle" /\ v.at = "answer" /\ ~v.caller
      /\ v.role \in Place(h, sess[p][h])
      /\ v.role = "held" => v.caller
  BY <1>3 DEF Way
<1>6. SendBottom(p, c, "Answer") /\ Done(p) /\ sess' = sess /\ trusted' = trusted
  BY DEF AnswerRequest
<1> HIDE DEF q, c, s, k0, h
<1>7. thread'[p] = Idle /\ thread'[q] = thread[q]
  BY <1>4, <1>6 DEF Done
<1>8. v.role \in {"rest", "shared"} /\ k0.out = <<>>
  BY <1>5 DEF ConvOK, Dead
<1>9. /\ conv'[q] = conv[q] /\ net'[p] = net[p] /\ Proper(conv'[p]) /\ conv'[p].key = k0.key
      /\ k0.events = <<>> => conv'[p].events = <<>>
      /\ conv'[p].out = <<>>
      /\ net'[q] = net[q] \o Append(Kryptonites(k0.out), b)
  BY <1>4, <1>6, <1>8, BottomLeaves DEF k0, q
<1>10. Told(sess'[p][c], trusted'[p])
  BY <1>4, <1>6 DEF s
<1>11. WorkOK(p)'
  BY <1>7 DEF WorkOK
<1>12. c = h /\ sess'[p][c].running /\ sess'[p][c].key # None => conv'[p].key = sess'[p][c].key
  BY <1>4, <1>6, <1>9 DEF SessionsOK, k0, h
<1>13. AtOf(thread'[p]) = "idle" /\ (thread'[p] # Idle) = FALSE
  BY <1>7 DEF AtOf
<1> DEFINE u == [v EXCEPT !.at = "idle", !.caller = FALSE]
<1>14. u.role = v.role /\ u.n = v.n /\ u.key = v.key /\ u.at = "idle" /\ u.caller = FALSE
  BY <1>5 DEF View
<1>15. JunkOnly(<<>>, v.n)
  BY DEF JunkOnly
<1>16. v.role = "rest" => k0.key = None /\ k0.events = <<>>
  BY <1>5 DEF ConvOK, Dead
<1>17. v.role = "shared" => k0.key = v.key /\ v.key \in Key /\ v.key # None
  BY <1>5, NoneAssumption DEF ConvOK, Keyed, View, Key
<1>18. ConvOK(u, conv'[p])
  BY <1>8, <1>9, <1>14, <1>15, <1>16, <1>17 DEF ConvOK, Dead, Keyed
<1>19. b \in Message /\ net'[q] = net[q] \o <<b>>
  <2>1. b \in Message
    BY <1>4, SendingKeeps DEF Unsyn
  <2> HIDE DEF b
  <2> QED BY <1>4, <1>8, <1>9, <2>1, SentWith
<1>20. Pair(u, w, net[p], net[q] \o <<b>>)
  <2>1. CASE v.role = "rest"
    <3>1. b = Bottom(<<"Query">>)
      BY <1>16, <2>1 DEF Cipher
    <3> QED BY Zenon, <1>1, <1>5, <2>1, <3>1, AtPlain
  <2>2. CASE v.role = "shared"
    <3>1. b = DataOf(v.key, "Answer")
      BY <1>17, <2>2 DEF Cipher, DataOf
    <3> QED BY Zenon, <1>1, <1>5, <2>2, <3>1, AtAnswer
  <2> QED BY <1>8, <2>1, <2>2
<1> HIDE DEF u, b
<1>21. u.at = AtOf(thread'[p]) /\ u.caller = (thread'[p] # Idle /\ sess'[p][thread'[p].c].started)
  BY <1>13, <1>14
<1>22. Pair(u, w, net'[p], net'[q]) /\ u.role \in Place(h, sess'[p][h])
  BY <1>5, <1>6, <1>9, <1>14, <1>19, <1>20
<1> QED BY <1>2, <1>6, <1>7, <1>9, <1>10, <1>11, <1>12, <1>14, <1>18, <1>21, <1>22, WentOn DEF q, c, h

-----------------------------------------------------------------------------
(* The theorems *)

\* Nothing has happened yet.
LEMMA KeysInit ==
  ASSUME Init
  PROVE  KeysInv /\ Accepting
<1> DEFINE v == [role |-> "none", key |-> None, n |-> 0, at |-> "idle", caller |-> FALSE]
<1>1. SurfaceInv
  BY InitKeeps
<1>2. v \in View /\ v.role = "none" /\ v.n = 0 /\ v.at = "idle" /\ v.caller = FALSE
  BY DEF View, Roles, Dead, Responds, Starts, Keyed
<1> HIDE DEF v
<1>3. Upto(<<>>, "Commit", 0) /\ Upto(<<>>, "Key", 0)
  BY DEF Upto
<1>4. Pair(v, v, <<>>, <<>>)
  <2>1. Chain(<<>>) /\ AllSyn(<<>>) /\ <<>> \in Seq(Message)
    BY Nothing
  <2>2. v.role \in Dead /\ v.role \notin Responds /\ v.role \notin Starts
    BY <1>2 DEF Dead, Responds, Starts
  <2>3. Link(v, v, <<>>, <<>>)
    BY <1>2, <1>3, <2>1, <2>2 DEF Link, BusyOK, NoneOK, BarriersOK, FreshOK, OfferedOK, RevealedOK, SharedOK,
       UnkeyedOK, KeyedOK, NoncesOK
  <2> QED BY <1>2, <2>1, <2>3 DEF Pair
<1>5. /\ NoConversation.out = <<>> /\ NoConversation.events = <<>> /\ NoConversation.key = None
      /\ Proper(NoConversation)
  <2>1. /\ NoConversation.key = None /\ NoConversation.events = <<>>
        /\ NoConversation.out = <<>> /\ NoConversation.met = FALSE /\ NoConversation.auth = <<"none">>
    BY DEF NoConversation
  <2> QED BY <2>1 DEF Proper
<1>6. JunkOnly(<<>>, 0)
  BY DEF JunkOnly
<1>7. ConvOK(v, NoConversation)
  BY <1>2, <1>5, <1>6 DEF ConvOK, Keyed
<1>8. Told(NewSession, {})
  BY DEF Told, NewSession
<1>9. ASSUME NEW p \in Peer PROVE SessionsOK(p) /\ WorkOK(p) /\ Sees(p, v) /\ net[p] = <<>>
  <2>1. /\ handler[p] = 0 /\ pending[p] = 0 /\ thread[p] = Idle /\ conv[p] = NoConversation /\ net[p] = <<>>
        /\ nonce[p] = 0 /\ trusted[p] = {} /\ \A c \in Call : sess[p][c] = NewSession
    BY <1>9 DEF Init
  <2>2. WorkOK(p)
    BY <2>1 DEF WorkOK
  <2>3. SessionsOK(p)
    <3>1. ~(0 > 0)
      OBVIOUS
    <3>2. \A c \in Call : c # 0
      BY CallsAssumption DEF Call
    <3> QED BY <1>8, <2>1, <3>1, <3>2 DEF SessionsOK
  <2>4. Sees(p, v)
    BY <1>2, <1>7, <2>1 DEF Sees, AtOf, Place
  <2> QED BY <2>1, <2>2, <2>3, <2>4
<1>10. \A p \in Peer : Linked(p)
  BY <1>4, <1>9, TwoPeers DEF Linked, Seems
<1>11. Accepting
  BY DEF Init, Accepting
<1> QED BY <1>1, <1>9, <1>10, <1>11 DEF KeysInv

\* Fingerprints are only accepted, for one peer at a time.
LEMMA AcceptingNext ==
  ASSUME Accepting, [Next]_vars
  PROVE  Accepting'
<1>1. ASSUME \/ trusted' = trusted
             \/ \E p \in Peer : \E S : trusted' = [trusted EXCEPT ![p] = S]
      PROVE  Accepting'
  BY <1>1 DEF Accepting
<1>2. CASE UNCHANGED vars
  BY <1>1, <1>2 DEF vars
<1>3. CASE Dial \/ HangUp
  BY <1>1, <1>3 DEF Dial, HangUp
<1>4. ASSUME NEW p \in Peer, NewCall(p) \/ NewCallIgnored(p) \/ StartProtocol(p) \/ EndCall(p) \/ EndUnheard(p)
      PROVE  Accepting'
  <2>1. trusted' = trusted
    BY <1>4 DEF NewCall, NewCallIgnored, StartProtocol, EndCall, EndUnheard, Register, Registers, Rings, Ends,
       CallEvent
  <2> QED BY <1>1, <2>1
<1>5. ASSUME NEW p \in Peer, NEW m, NEW k, Decrypt(p, m, k)
      PROVE  Accepting'
  BY <1>1, <1>5 DEF Decrypt
<1>6. ASSUME NEW p \in Peer, Deliver(p)
      PROVE  Accepting'
  <2>1. CASE KeepSyn(p) \/ SurfaceReceived(p, "Syn") \/ SurfaceReceived(p, "Ack")
    BY <1>1, <2>1 DEF KeepSyn, SurfaceReceived
  <2>2. CASE KryptoniteReceived(p)
    BY <1>1, <2>2 DEF KryptoniteReceived
  <2>3. CASE BottomReceived(p)
    <3>1. \E m, k : Decrypt(p, m, k)
      BY <2>3 DEF BottomReceived
    <3> QED BY <1>5, <3>1
  <2> QED BY <1>6, <2>1, <2>2, <2>3 DEF Deliver
<1>7. ASSUME NEW p \in Peer, GoOn(p) \/ User(p)
      PROVE  Accepting'
  <2>1. CASE SecurityStatusChanged(p) \/ Encrypt(p) \/ AnswerRequest(p) \/ Refuse(p)
    BY Zenon, <1>1, <2>1 DEF SecurityStatusChanged, Encrypt, AnswerRequest, Refuse
  <2>2. CASE Accept(p)
    BY <1>1, <2>2 DEF Accept
  <2>3. CASE Deploy(p)
    <3>1. \E m, k : Decrypt(p, m, k)
      BY <2>3 DEF Deploy
    <3> QED BY <1>5, <3>1
  <2> QED BY Zenon, <1>7, <2>1, <2>2, <2>3 DEF GoOn, User
<1> QED BY <1>2, <1>3, <1>4, <1>6, <1>7 DEF Next

\* Every step keeps the invariant.
LEMMA KeysNext ==
  ASSUME KeysInv, Accepting, [Next]_vars
  PROVE  KeysInv'
<1>1. SurfaceInv'
  BY NextKeeps DEF KeysInv
<1>2. CASE UNCHANGED vars
  BY <1>1, <1>2, QuietKeys DEF vars, callVars
<1>3. CASE Dial \/ HangUp
  BY <1>1, <1>3, QuietKeys DEF Dial, HangUp
<1>4. ASSUME NEW p \in Peer, NewCall(p) \/ NewCallIgnored(p) \/ StartProtocol(p) \/ EndCall(p) \/ EndUnheard(p)
      PROVE  KeysInv'
  <2>1. CASE NewCallIgnored(p) \/ EndUnheard(p)
    <3>1. UNCHANGED <<handler, active, starting, pending, sess, conv, nonce, trusted, thread, net>>
      BY <2>1 DEF NewCallIgnored, EndUnheard, Rings, Ends, CallEvent
    <3> QED BY <1>1, <3>1, QuietKeys
  <2> QED BY <1>1, <1>4, <2>1, NewCallKeys, StartProtocolKeys, EndCallKeys
<1>5. ASSUME NEW p \in Peer, Deliver(p)
      PROVE  KeysInv'
  BY <1>1, <1>5, KeepSynKeys, SurfaceReceivedKeys, KryptoniteReceivedKeys, BottomReceivedKeys DEF Deliver
<1>6. ASSUME NEW p \in Peer, GoOn(p) \/ User(p)
      PROVE  KeysInv'
  BY <1>1, <1>6, DeployKeys, SecurityStatusChangedKeys, EncryptKeys, AnswerRequestKeys, AcceptKeys, RefuseKeys
      DEF GoOn, User
<1> QED BY <1>2, <1>3, <1>4, <1>5, <1>6 DEF Next

\* What is under way between the two peers fits what each of them takes itself to be in
\* the key exchange, whatever calls come and go: the inductive invariant
\* (CommunicationSession.cs 141-205, SurfaceProtocol.cs 271-370, Kryptonite.cs 393-467).
THEOREM KeysInvariant == Spec => [](KeysInv /\ Accepting)
<1>1. Init => KeysInv /\ Accepting
  BY KeysInit
<1>2. (KeysInv /\ Accepting) /\ [Next]_vars => (KeysInv /\ Accepting)'
  BY KeysNext, AcceptingNext
<1> QED BY <1>1, <1>2, PTL DEF Spec

\* Bottom is only given the key of an exchange whose fingerprint the user confirmed, or that was
\* known (Kryptonite.cs 404-436, CommunicationSession.cs 272-289). The event that a refusal leaves
\* behind (Kryptonite.cs 419) would make the session secure with the next message that is handed to
\* Kryptonite (436): no message of a partner that runs this program ever meets one, as the part that
\* each of them has tells. Nothing is said of a partner that sends other messages.
THEOREM KeysConfirmed == Spec => []OnlyConfirmedKeys
<1>1. ASSUME KeysInv, NEW p \in Peer, NEW c \in Call, sess[p][c].key # None
      PROVE  sess[p][c].key \in trusted[p]
  BY <1>1 DEF KeysInv, SessionsOK, Told
<1>2. ASSUME KeysInv, NEW p \in Peer, thread[p].at = "deploying"
      PROVE  conv[p].events = <<>>
  <2>1. PICK v, w : Seems(p, v) /\ Pair(v, w, net[p], net[Other(p)])
    BY <1>2, Before
  <2>2. Deploys(p, v)
    BY <1>2, <2>1, NotSeen DEF Pair
  <2>3. CASE Late(p)
    BY <2>2, <2>3 DEF Deploys, Empty
  <2>4. CASE ~Late(p)
    <3>1. ConvOK(v, conv[p]) /\ v.role \in (Starts \cup Responds) \ Keyed
      BY <2>2, <2>4 DEF Deploys
    <3> QED BY <3>1 DEF ConvOK, Starts, Responds, Keyed, Dead
  <2> QED BY <2>3, <2>4
<1>3. KeysInv => OnlyConfirmedKeys
  BY <1>1, <1>2 DEF OnlyConfirmedKeys
<1> QED BY <1>3, KeysInvariant, PTL

\* A session that is secured is the last one, and has the key of its exchange.
LEMMA SecuredRole ==
  ASSUME SurfaceInv, NEW p \in Peer, SessionsOK(p), WorkOK(p), NEW c \in Call, Secures(p, c),
         NEW v \in View, Seems(p, v)
  PROVE  /\ v.role \in Keyed /\ v.key = sess[p][c].key
         /\ IF sess[p][c].started THEN v.role \in Starts ELSE v.role \in Responds
<1> DEFINE s == sess[p][c]
           h == handler[p]
<1>1. s.running /\ s.key # None
  BY DEF Secures
<1>2. s # NewSession
  BY <1>1 DEF NewSession
<1>3. c = h
  <2>1. (c > h => s = NewSession) /\ (c < h => ~s.running \/ s = NewSession)
    BY DEF SurfaceInv, PeerOK, HandlerOK, SessionOK, SessionsOK
  <2>2. c \in Nat /\ h \in Nat
    BY CallsAre DEF Call
  <2> HIDE DEF s, h
  <2> QED BY <1>1, <1>2, <2>1, <2>2
<1>4. s.state = "Routing" /\ conv[p].key = s.key
  BY <1>1, <1>3 DEF SessionsOK, Told
<1>5. h # 0
  BY <1>3, CallsAssumption DEF Call
<1>6. Sees(p, v)
  <2> SUFFICES ASSUME thread[p].at = "deploying" PROVE FALSE
    BY Seen
  <2>1. Deploys(p, v) /\ thread[p] # Idle
    BY NotSeen DEF Idle
  <2>2. thread[p].c = h
    BY <1>3, <1>4, <2>1 DEF WorkOK
  <2>3. ~Late(p)
    BY <1>1, <1>3, <2>2 DEF Late
  <2>4. ConvOK(v, conv[p]) /\ v.role \in (Starts \cup Responds) \ Keyed
    BY <2>1, <2>3 DEF Deploys
  <2> QED BY <1>1, <1>4, <2>4 DEF ConvOK, Starts, Responds, Keyed, Dead
<1>7. IF s.started THEN v.role \in Starts ELSE v.role \in Responds
  <2>1. v.role \in Place(h, s)
    BY <1>3, <1>6 DEF Sees
  <2>2. DeploysKryptonite(s)
    BY <1>1, <1>4 DEF DeploysKryptonite
  <2> HIDE DEF s, h
  <2> QED BY <1>5, <2>1, <2>2 DEF Place
<1>8. v.role \in Keyed /\ v.key = s.key
  <2>1. ConvOK(v, conv[p]) /\ conv[p].key # None
    BY <1>1, <1>4, <1>6 DEF Sees
  <2>2. v.role \in Responds \cup Starts
    BY <1>7
  <2>3. v.role \in Keyed
    BY <2>1, <2>2 DEF ConvOK, Responds, Starts, Keyed
  <2> QED BY <1>4, <2>1, <2>3 DEF ConvOK
<1> QED BY <1>7, <1>8

\* While both ends of a call secure it they do so with the same key, and exactly one of
\* them began the Bottom protocol (CommunicationSession.cs 141-205, 272-289).
THEOREM KeysAgree == Spec => []SameKey
<1>1. ASSUME KeysInv, NEW p \in Peer, NEW q \in Peer, NEW c \in Call, p # q, Secures(p, c), Secures(q, c)
      PROVE  sess[p][c].key = sess[q][c].key /\ sess[p][c].started # sess[q][c].started
  <2>1. PICK v, w : Seems(p, v) /\ Seems(Other(p), w) /\ Pair(v, w, net[p], net[Other(p)])
    BY <1>1, Before
  <2>2. q = Other(p)
    BY <1>1, TwoPeers
  <2> DEFINE x == net[p]
             y == net[q]
             s == sess[p][c]
             t == sess[q][c]
  <2>3. /\ Link(v, w, x, y) /\ Link(w, v, y, x) /\ v \in View /\ w \in View
    BY <2>1, <2>2 DEF Pair
  <2>4. /\ v.role \in Keyed /\ v.key = s.key
        /\ IF s.started THEN v.role \in Starts ELSE v.role \in Responds
    BY <1>1, <2>1, <2>3, Before, SecuredRole
  <2>5. /\ w.role \in Keyed /\ w.key = t.key
        /\ IF t.started THEN w.role \in Starts ELSE w.role \in Responds
    BY <1>1, <2>1, <2>2, <2>3, Before, SecuredRole
  <2>6. s.started \in BOOLEAN /\ t.started \in BOOLEAN
    <3>1. s \in Session /\ t \in Session
      BY <1>1, CallsAre DEF KeysInv
    <3> QED BY <3>1 DEF Session
  <2> HIDE DEF x, y, s, t
  <2>7. ASSUME NEW K \in Key, NEW z, z \in {<<>>, <<DataOf(K, "Answer")>>} PROVE Free(z)
    <3>1. DataOf(K, "Answer") \in Message /\ Kind(DataOf(K, "Answer")) = "BottomData"
      BY Kinds
    <3>2. CASE z = <<>>
      BY <3>2, Nothing
    <3>3. CASE z = <<DataOf(K, "Answer")>>
      <4>1. Len(z) = 1 /\ z[1] = DataOf(K, "Answer")
        BY <3>3
      <4>2. \A a \in 1..1 : a = 1
        OBVIOUS
      <4> QED BY <3>1, <4>1, <4>2 DEF Free, Barrier
    <3> QED BY <2>7, <3>2, <3>3
  <2>8. v.role \in Responds => v.role = "shared" /\ v.key \in Key
    BY <2>3, <2>4 DEF Responds, Keyed, View
  <2>9. w.role \in Responds => w.role = "shared" /\ w.key \in Key
    BY <2>3, <2>5 DEF Responds, Keyed, View
  <2>10. ~(v.role \in Responds /\ w.role \in Responds)
    <3> SUFFICES ASSUME v.role \in Responds, w.role \in Responds PROVE FALSE
      OBVIOUS
    <3>1. Free(y)
      BY <2>3, <2>7, <2>8 DEF Link, SharedOK
    <3>2. ~Free(y)
      BY <2>3 DEF Link, BarriersOK
    <3> QED BY <3>1, <3>2
  <2>11. ~(v.role \in Starts /\ w.role \in Starts)
    <3> SUFFICES ASSUME v.role \in Starts, w.role \in Starts PROVE FALSE
      OBVIOUS
    <3>1. v.role \in {"held", "sent", "lost"}
      BY <2>4 DEF Keyed, Starts
    <3>2. Free(y)
      BY <2>3, <3>1 DEF Link, KeyedOK
    <3>3. ~Free(y)
      BY <2>3 DEF Link, BarriersOK
    <3> QED BY <3>2, <3>3
  <2>12. v.role \in Responds /\ w.role \in Starts => w.key = v.key
    BY <2>3, <2>8 DEF Link, SharedOK
  <2>13. w.role \in Responds /\ v.role \in Starts => v.key = w.key
    BY <2>3, <2>9 DEF Link, SharedOK
  <2> QED BY <2>4, <2>5, <2>6, <2>10, <2>11, <2>12, <2>13 DEF s, t
<1>2. KeysInv => SameKey
  BY <1>1 DEF SameKey
<1> QED BY <1>2, KeysInvariant, PTL
====
