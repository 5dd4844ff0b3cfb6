---------------------------- MODULE PaymentProofs ----------------------------
(***************************************************************************)
(* Theorems about the way of a payment, for every set of nodes, requests   *)
(* and limits, every word size, and every loss, delay and repetition of    *)
(* what is broadcast.                                                      *)
(***************************************************************************)
EXTENDS Payment, FiniteSetTheorems, TLAPS

TxOn(t, U) == ApplyTx(U, t)
AddFee(t, sum) == (sum + Fee(t)) % Word
AddSize(t, sz) == sz + SzOfTx(t)
Halve(i, reward) == reward \div 2
AddAmt(x, sum) == (sum + x.amt) % Word
Plus(a, b) == a + b
Loop == INSTANCE FoldFacts WITH Op <- TxOn
Amount == INSTANCE FoldFacts WITH Op <- AddAmt
Fees == INSTANCE FoldFacts WITH Op <- AddFee
Sizes == INSTANCE FoldFacts WITH Op <- AddSize
Half == INSTANCE FoldFacts WITH Op <- Halve
Total == INSTANCE FoldFacts WITH Op <- Plus
-----------------------------------------------------------------------------
(* The shape of what is sent *)

IsSeq(s) == s \in Seq({s[k] : k \in DOMAIN s})
IsIn(i) == /\ i = [tx |-> i.tx, idx |-> i.idx, sig |-> i.sig, amt |-> i.amt]
           /\ i.amt \in 0 .. Word - 1
IsOut(o) == /\ o = [amt |-> o.amt, pk |-> o.pk]
            /\ o.amt \in 0 .. Word - 1 /\ o.pk \in Nodes \cup {GenPK}
IsTx(p) == /\ p = [lock |-> p.lock, ins |-> p.ins, outs |-> p.outs]
           /\ IsSeq(p.ins) /\ (\A k \in DOMAIN p.ins : IsIn(p.ins[k]))
           /\ IsSeq(p.outs) /\ (\A k \in DOMAIN p.outs : IsOut(p.outs[k]))

\* A sequence is its length and its elements.
LEMMA SeqFacts ==
    ASSUME NEW s, IsSeq(s)
    PROVE  /\ Len(s) \in Nat /\ DOMAIN s = 1 .. Len(s)
           /\ s = [k \in DOMAIN s |-> s[k]]
BY DEF IsSeq

LEMMA LenSeq ==
    ASSUME NEW n \in Nat, NEW z, z = [k \in 1 .. n |-> z[k]]
    PROVE  IsSeq(z) /\ Len(z) = n
<1>1. z \in [1 .. n -> {z[k] : k \in DOMAIN z}]
  OBVIOUS
<1> QED BY <1>1 DEF IsSeq

LEMMA AnySeq ==
    ASSUME NEW X, NEW z \in Seq(X)
    PROVE  IsSeq(z)
<1>1. z = [k \in 1 .. Len(z) |-> z[k]] /\ Len(z) \in Nat
  OBVIOUS
<1> QED BY <1>1, LenSeq

\* Two elements, or one, in a row.
LEMMA InARow ==
    ASSUME NEW x, NEW y
    PROVE  /\ IsSeq(<<x>> \o <<y>>) /\ Len(<<x>> \o <<y>>) = 2 /\ DOMAIN (<<x>> \o <<y>>) = 1 .. 2
           /\ (<<x>> \o <<y>>)[1] = x /\ (<<x>> \o <<y>>)[2] = y
           /\ IsSeq(<<x>> \o <<>>) /\ Len(<<x>> \o <<>>) = 1 /\ DOMAIN (<<x>> \o <<>>) = 1 .. 1
           /\ (<<x>> \o <<>>)[1] = x
<1> DEFINE X == {x, y}
<1>1. <<x>> \in Seq(X) /\ <<y>> \in Seq(X) /\ <<>> \in Seq(X) /\ Len(<<x>>) = 1 /\ Len(<<y>>) = 1
      /\ <<x>>[1] = x /\ <<y>>[1] = y /\ Len(<<>>) = 0
  OBVIOUS
<1> HIDE DEF X
<1>2. <<x>> \o <<y>> \in Seq(X) /\ <<x>> \o <<>> \in Seq(X)
  BY <1>1
<1>3. Len(<<x>> \o <<y>>) = 2 /\ (<<x>> \o <<y>>)[1] = x /\ (<<x>> \o <<y>>)[2] = y
  BY <1>1
<1>4. Len(<<x>> \o <<>>) = 1 /\ (<<x>> \o <<>>)[1] = x
  BY <1>1
<1>5. IsSeq(<<x>> \o <<y>>) /\ IsSeq(<<x>> \o <<>>)
  BY <1>2, AnySeq
<1>6. DOMAIN (<<x>> \o <<y>>) = 1 .. 2 /\ DOMAIN (<<x>> \o <<>>) = 1 .. 1
  BY <1>3, <1>4, <1>5, SeqFacts
<1> QED BY <1>3, <1>4, <1>5, <1>6

\* What is made of a sequence, element by element, is one of the same length.
LEMMA MadeSeq ==
    ASSUME NEW s, IsSeq(s), NEW f, f = [k \in DOMAIN s |-> f[k]]
    PROVE  IsSeq(f) /\ Len(f) = Len(s) /\ DOMAIN f = DOMAIN s
<1>1. Len(s) \in Nat /\ DOMAIN f = 1 .. Len(s)
  BY SeqFacts
<1>2. f \in [1 .. Len(s) -> {f[k] : k \in DOMAIN f}]
  BY <1>1
<1> QED BY <1>1, <1>2 DEF IsSeq

\* The object that the receiver makes of a message, and the message that is
\* made of it again.
LEMMA SentAndBack ==
    ASSUME NEW p, IsTx(p)
    PROVE  /\ Serialize(Deserialize(p)) = p
           /\ Deserialize(p).lock = p.lock
           /\ Deserialize(p).ins = p.ins
           /\ Deserialize(p).outs = [k \in DOMAIN p.outs |-> DeserializeOut(p.outs[k])]
           /\ TxHash(Deserialize(p)) = TxHash(p)
           /\ Spends(Deserialize(p)) = Spends(p)
           /\ Creates(Deserialize(p)) = Creates(p)
           /\ SzOfTx(Deserialize(p)) = SzOfTx(p)
<1> DEFINE d == Deserialize(p)
<1>1. \A k \in DOMAIN p.ins : DeserializeIn(p.ins[k]) = p.ins[k] /\ SerializeIn(p.ins[k]) = p.ins[k]
  BY DEF IsTx, IsIn, DeserializeIn, SerializeIn
<1>2. \A k \in DOMAIN p.outs : /\ SerializeOut(DeserializeOut(p.outs[k])) = p.outs[k]
                               /\ OutHash(DeserializeOut(p.outs[k])) = OutHash(p.outs[k])
  BY DEF IsTx, IsOut, DeserializeOut, SerializeOut, OutHash
<1>3. p.ins = [k \in DOMAIN p.ins |-> p.ins[k]] /\ p.outs = [k \in DOMAIN p.outs |-> p.outs[k]]
  BY SeqFacts DEF IsTx
<1>4. d.lock = p.lock /\ d.ins = p.ins /\ d.outs = [k \in DOMAIN p.outs |-> DeserializeOut(p.outs[k])]
  <2>1. d.ins = [k \in DOMAIN p.ins |-> DeserializeIn(p.ins[k])]
    BY DEF Deserialize, Map
  <2>2. d.ins = p.ins
    BY <1>1, <1>3, <2>1
  <2> QED BY <2>2 DEF Deserialize, Map
<1>5. DOMAIN d.outs = DOMAIN p.outs /\ Len(d.outs) = Len(p.outs)
  <2>1. DOMAIN d.outs = DOMAIN p.outs
    BY <1>4
  <2>2. IsSeq(p.outs)
    BY DEF IsTx
  <2>3. d.outs = [k \in DOMAIN p.outs |-> d.outs[k]]
    BY <1>4
  <2> HIDE DEF d
  <2> QED BY <2>1, <2>2, <2>3, MadeSeq
<1>6. Serialize(d) = p
  <2>1. Map(SerializeIn, d.ins) = p.ins
    <3>1. Map(SerializeIn, d.ins) = [k \in DOMAIN p.ins |-> SerializeIn(p.ins[k])]
      BY <1>4 DEF Map
    <3> QED BY <1>1, <1>3, <3>1
  <2>2. Map(SerializeOut, d.outs) = p.outs
    <3>1. Map(SerializeOut, d.outs) = [k \in DOMAIN p.outs |-> SerializeOut(d.outs[k])]
      BY <1>5 DEF Map
    <3>2. \A k \in DOMAIN p.outs : SerializeOut(d.outs[k]) = p.outs[k]
      BY <1>2, <1>4
    <3> QED BY <1>3, <3>1, <3>2
  <2>3. Serialize(d) = [lock |-> d.lock, ins |-> p.ins, outs |-> p.outs]
    BY <2>1, <2>2 DEF Serialize
  <2> QED BY <1>4, <2>3 DEF IsTx
<1>7. TxHash(d) = TxHash(p)
  <2>1. Map(OutHash, d.outs) = Map(OutHash, p.outs)
    <3>1. \A k \in DOMAIN p.outs : OutHash(d.outs[k]) = OutHash(p.outs[k])
      BY <1>2, <1>4
    <3> QED BY <1>5, <3>1 DEF Map
  <2> QED BY <1>4, <2>1 DEF TxHash
<1>8. Spends(d) = Spends(p) /\ Creates(d) = Creates(p) /\ SzOfTx(d) = SzOfTx(p)
  BY <1>4, <1>5, <1>7 DEF Spends, Creates, SzOfTx
<1> QED BY <1>4, <1>6, <1>7, <1>8

\* A hash tells all there is to know of a transaction.
LEMMA HashTells ==
    ASSUME NEW p, NEW q, IsTx(p), IsTx(q), TxHash(p) = TxHash(q)
    PROVE  p = q
<1> DEFINE pi == Map(InHash, p.ins)
           qi == Map(InHash, q.ins)
           po == Map(OutHash, p.outs)
           qo == Map(OutHash, q.outs)
<1>1. p.lock = q.lock /\ pi = qi /\ po = qo
  BY DEF TxHash
<1>2. p.ins = q.ins
  <2>1. DOMAIN pi = DOMAIN p.ins /\ DOMAIN qi = DOMAIN q.ins
    BY DEF Map
  <2>2. DOMAIN p.ins = DOMAIN q.ins
    BY <1>1, <2>1
  <2>3. ASSUME NEW k \in DOMAIN p.ins PROVE p.ins[k] = q.ins[k]
    <3>1. pi[k] = InHash(p.ins[k]) /\ qi[k] = InHash(q.ins[k])
      BY <2>2 DEF Map
    <3>2. InHash(p.ins[k]) = InHash(q.ins[k])
      BY <1>1, <3>1
    <3>3. /\ p.ins[k].tx = q.ins[k].tx /\ p.ins[k].idx = q.ins[k].idx
          /\ p.ins[k].sig = q.ins[k].sig /\ p.ins[k].amt = q.ins[k].amt
      BY <3>2 DEF InHash
    <3>4. IsIn(p.ins[k]) /\ IsIn(q.ins[k])
      BY <2>2 DEF IsTx
    <3> QED BY <3>3, <3>4 DEF IsIn
  <2> QED BY <2>2, <2>3, SeqFacts DEF IsTx
<1>3. p.outs = q.outs
  <2>1. DOMAIN po = DOMAIN p.outs /\ DOMAIN qo = DOMAIN q.outs
    BY DEF Map
  <2>2. DOMAIN p.outs = DOMAIN q.outs
    BY <1>1, <2>1
  <2>3. ASSUME NEW k \in DOMAIN p.outs PROVE p.outs[k] = q.outs[k]
    <3>1. po[k] = OutHash(p.outs[k]) /\ qo[k] = OutHash(q.outs[k])
      BY <2>2 DEF Map
    <3>2. OutHash(p.outs[k]) = OutHash(q.outs[k])
      BY <1>1, <3>1
    <3>3. p.outs[k].amt = q.outs[k].amt /\ p.outs[k].pk = q.outs[k].pk
      BY <3>2 DEF OutHash
    <3>4. IsOut(p.outs[k]) /\ IsOut(q.outs[k])
      BY <2>2 DEF IsTx
    <3> QED BY <3>3, <3>4 DEF IsOut
  <2> QED BY <2>2, <2>3, SeqFacts DEF IsTx
<1> QED BY <1>1, <1>2, <1>3 DEF IsTx
-----------------------------------------------------------------------------
(* Sums *)

LEMMA ModRange ==
    ASSUME NEW x \in Int, NEW w \in Nat \ {0}
    PROVE  x % w \in 0 .. w - 1 /\ (x \in 0 .. w - 1 => x % w = x)
OBVIOUS

\* A sum may wrap at every step or once at the end.
LEMMA ModAdd ==
    ASSUME NEW x \in Int, NEW b \in Int, NEW w \in Nat \ {0}
    PROVE  ((x % w) + b) % w = (x + b) % w
<1> DEFINE Quot(y) == \E q \in Int : y = w * q + (y % w)
           r == x % w
           y == r + b
           m == y % w
<1>0. w \in Nat /\ w > 0
  OBVIOUS
<1>1. ASSUME NEW z \in Int PROVE Quot(z)
  BY <1>0
<1>2. r \in Int /\ y \in Int /\ m \in 0 .. w - 1
  <2>1. r \in Int
    BY ModRange
  <2> QED BY <2>1, ModRange
<1>3. PICK q \in Int : x = w * q + r
  BY <1>1
<1>4. PICK p \in Int : y = w * p + m
  BY <1>1, <1>2
<1> HIDE DEF m
<1>5. x + b = w * q + (w * p + m) /\ w * q \in Int /\ w * p \in Int
  <2> HIDE DEF y, r
  <2>1. w * q \in Int /\ w * p \in Int
    OBVIOUS
  <2>2. x + b = w * q + (r + b)
    BY <1>2, <1>3, <2>1
  <2> QED BY <1>4, <2>1, <2>2 DEF y
<1>6. w * q + w * p = w * (q + p)
  OBVIOUS
<1>7. x + b = w * (q + p) + m
  BY <1>2, <1>5, <1>6
<1>8. ASSUME NEW z \in Int, NEW k \in Int, z = w * k + m PROVE z % w = m
  BY <1>2, <1>8
<1>9. (x + b) % w = m
  <2>1. x + b \in Int /\ q + p \in Int
    OBVIOUS
  <2> QED BY <1>7, <1>8, <2>1
<1> QED BY <1>9 DEF m

\* Any element may be taken out of a sum first.
LEMMA SumTakeOut ==
    ASSUME NEW D, IsFiniteSet(D), NEW f, \A x \in D : f[x] \in Int
    PROVE  /\ SumFunctionOnSet(f, D) \in Int
           /\ SumFunctionOnSet(f, {}) = 0
           /\ \A x \in D : SumFunctionOnSet(f, D) = f[x] + SumFunctionOnSet(f, D \ {x})
<1>1. Total!Adds
  BY DEF Total!Adds, Plus
<1>2. \A h, E : SumFunctionOnSet(h, E) = Total!SumOver(h, E)
  BY DEF SumFunctionOnSet, FoldFunctionOnSet, MapThenFoldSet, Plus,
         Total!SumOver, Total!FoldFunctionOnSet, Total!MapThenFoldSet
<1>3. Total!IsFiniteSet(D)
  BY DEF IsFiniteSet, Total!IsFiniteSet
<1> QED BY <1>1, <1>2, <1>3, Total!SumTakeOut

\* A loop over the indices of a sequence adds up what it adds.
LEMMA SumUpto ==
    ASSUME NEW n \in Nat, NEW f, \A i \in 1 .. n : f[i] \in Int
    PROVE  /\ SumFunctionOnSet(f, 1 .. 0) = 0
           /\ \A i \in 0 .. n : SumFunctionOnSet(f, 1 .. i) \in Int
           /\ \A i \in 1 .. n : SumFunctionOnSet(f, 1 .. i) = f[i] + SumFunctionOnSet(f, 1 .. i - 1)
<1>1. ASSUME NEW i \in 0 .. n
      PROVE  /\ SumFunctionOnSet(f, 1 .. i) \in Int /\ SumFunctionOnSet(f, {}) = 0
             /\ \A x \in 1 .. i : SumFunctionOnSet(f, 1 .. i) = f[x] + SumFunctionOnSet(f, (1 .. i) \ {x})
  <2>1. IsFiniteSet(1 .. i) /\ \A x \in 1 .. i : f[x] \in Int
    BY FS_Interval
  <2> QED BY <2>1, SumTakeOut
<1>2. SumFunctionOnSet(f, 1 .. 0) = 0
  <2>1. 1 .. 0 = {} /\ n \in 0 .. n
    OBVIOUS
  <2> QED BY <1>1, <2>1
<1>3. ASSUME NEW i \in 1 .. n
      PROVE  SumFunctionOnSet(f, 1 .. i) = f[i] + SumFunctionOnSet(f, 1 .. i - 1)
  <2>1. i \in 0 .. n /\ i \in 1 .. i /\ (1 .. i) \ {i} = 1 .. i - 1
    OBVIOUS
  <2> QED BY <1>1, <2>1
<1> QED BY <1>1, <1>2, <1>3

LEMMA SumNext ==
    ASSUME NEW n \in Nat, NEW f, \A j \in 1 .. n : f[j] \in Int, NEW i \in Nat, i + 1 <= n
    PROVE  /\ SumFunctionOnSet(f, 1 .. i) \in Int
           /\ SumFunctionOnSet(f, 1 .. i + 1) = f[i + 1] + SumFunctionOnSet(f, 1 .. i)
<1> DEFINE k == i + 1
<1>1. k \in 1 .. n /\ k - 1 = i /\ i \in 0 .. n
  OBVIOUS
<1> HIDE DEF k
<1>2. SumFunctionOnSet(f, 1 .. k) = f[k] + SumFunctionOnSet(f, 1 .. k - 1)
  BY <1>1, SumUpto
<1>3. SumFunctionOnSet(f, 1 .. i) \in Int
  BY <1>1, SumUpto
<1> QED BY <1>1, <1>2, <1>3 DEF k

LEMMA SumNat ==
    ASSUME NEW n \in Nat, NEW f, \A i \in 1 .. n : f[i] \in Nat
    PROVE  SumFunctionOnSet(f, 1 .. n) \in Nat
<1> DEFINE W == {i \in Nat : i <= n => SumFunctionOnSet(f, 1 .. i) \in Nat}
<1>0. \A i \in 1 .. n : f[i] \in Int
  OBVIOUS
<1>1. 0 \in W
  BY <1>0, SumUpto
<1>2. ASSUME NEW i \in Nat, i \in W PROVE i + 1 \in W
  <2> SUFFICES ASSUME i + 1 <= n PROVE SumFunctionOnSet(f, 1 .. i + 1) \in Nat
    OBVIOUS
  <2>1. i + 1 \in 1 .. n /\ (i + 1) - 1 = i /\ SumFunctionOnSet(f, 1 .. i) \in Nat
    BY <1>2
  <2>2. SumFunctionOnSet(f, 1 .. i + 1) = f[i + 1] + SumFunctionOnSet(f, 1 .. i)
    BY <1>0, SumNext
  <2> QED BY <2>1, <2>2
<1>3. Nat \subseteq W
  <2> HIDE DEF W
  <2> QED BY <1>1, <1>2, Loop!SetInduction
<1> QED BY <1>3

\* The first addend apart.
LEMMA SumShift ==
    ASSUME NEW n \in Nat, NEW f, NEW g, \A i \in 1 .. n + 1 : f[i] \in Int,
           \A i \in 1 .. n : g[i] = f[i + 1]
    PROVE  SumFunctionOnSet(f, 1 .. n + 1) = f[1] + SumFunctionOnSet(g, 1 .. n)
<1> DEFINE W == {i \in Nat : i <= n => SumFunctionOnSet(f, 1 .. i + 1) = f[1] + SumFunctionOnSet(g, 1 .. i)}
<1>0. n + 1 \in Nat /\ (\A i \in 1 .. n : g[i] \in Int) /\ 1 \in 1 .. n + 1 /\ f[1] \in Int
  OBVIOUS
<1>1. 0 \in W
  <2>1. SumFunctionOnSet(f, 1 .. 1) = f[1] + SumFunctionOnSet(f, 1 .. 1 - 1) /\ SumFunctionOnSet(f, 1 .. 0) = 0
    BY <1>0, SumUpto
  <2>2. SumFunctionOnSet(g, 1 .. 0) = 0
    BY <1>0, SumUpto
  <2>3. 1 - 1 = 0 /\ 0 + 1 = 1
    OBVIOUS
  <2> QED BY <2>1, <2>2, <2>3
<1>2. ASSUME NEW i \in Nat, i \in W PROVE i + 1 \in W
  <2> SUFFICES ASSUME i + 1 <= n
               PROVE  SumFunctionOnSet(f, 1 .. (i + 1) + 1) = f[1] + SumFunctionOnSet(g, 1 .. i + 1)
    OBVIOUS
  <2> DEFINE j == i + 1
             x == SumFunctionOnSet(g, 1 .. i)
  <2>1. j \in 1 .. n /\ j + 1 \in 1 .. n + 1 /\ j - 1 = i /\ (j + 1) - 1 = j /\ i <= n /\ i \in 0 .. n
    OBVIOUS
  <2>2. SumFunctionOnSet(f, 1 .. j) = f[1] + x
    BY <1>2, <2>1
  <2>3. SumFunctionOnSet(g, 1 .. j) = g[j] + x /\ x \in Int
    BY <1>0, SumNext
  <2> HIDE DEF j, x
  <2>4. SumFunctionOnSet(f, 1 .. j + 1) = f[j + 1] + SumFunctionOnSet(f, 1 .. j)
    <3>1. j \in Nat /\ j + 1 <= n + 1
      BY <2>1
    <3> QED BY <1>0, <3>1, SumNext, ZenonT(60)
  <2>5. g[j] = f[j + 1] /\ f[j + 1] \in Int
    BY <2>1
  <2>6. SumFunctionOnSet(f, 1 .. j + 1) = f[1] + SumFunctionOnSet(g, 1 .. j)
    BY <1>0, <2>2, <2>3, <2>4, <2>5
  <2> QED BY <2>6 DEF j
<1>3. Nat \subseteq W
  <2> HIDE DEF W
  <2> QED BY <1>1, <1>2, Loop!SetInduction
<1> QED BY <1>3

LEMMA AddUp ==
    ASSUME NEW n \in Nat, NEW f, NEW g, g[0] = 0,
           \A i \in 1 .. n : f[i] \in Int /\ g[i] = g[i - 1] + f[i]
    PROVE  g[n] = SumFunctionOnSet(f, 1 .. n)
<1> DEFINE S == {i \in Nat : i <= n => g[i] = SumFunctionOnSet(f, 1 .. i)}
<1>1. 0 \in S
  BY SumUpto
<1>2. ASSUME NEW i \in Nat, i \in S PROVE i + 1 \in S
  <2> SUFFICES ASSUME i + 1 <= n PROVE g[i + 1] = SumFunctionOnSet(f, 1 .. i + 1)
    OBVIOUS
  <2>1. i + 1 \in 1 .. n /\ (i + 1) - 1 = i /\ i \in 0 .. n /\ i <= n
    OBVIOUS
  <2>2. SumFunctionOnSet(f, 1 .. i + 1) = f[i + 1] + SumFunctionOnSet(f, 1 .. i)
        /\ SumFunctionOnSet(f, 1 .. i) \in Int
    BY <2>1, SumUpto
  <2>3. g[i + 1] = g[i] + f[i + 1] /\ f[i + 1] \in Int /\ g[i] = SumFunctionOnSet(f, 1 .. i)
    BY <1>2, <2>1
  <2> QED BY <2>2, <2>3
<1>3. Nat \subseteq S
  <2> HIDE DEF S
  <2> QED BY <1>1, <1>2, Loop!SetInduction
<1> QED BY <1>3

LEMMA WrapUp ==
    ASSUME NEW n \in Nat, NEW f, NEW g, g[0] = 0,
           \A i \in 1 .. n : f[i] \in Int /\ g[i] = (g[i - 1] + f[i]) % Word
    PROVE  g[n] = SumFunctionOnSet(f, 1 .. n) % Word /\ g[n] \in 0 .. Word - 1
<1>0. Word \in Nat \ {0}
  BY PaymentAssumption
<1> DEFINE S == {i \in Nat : i <= n => g[i] = SumFunctionOnSet(f, 1 .. i) % Word}
<1>1. 0 \in S
  <2>1. 0 % Word = 0
    BY <1>0
  <2> QED BY <2>1, SumUpto
<1>2. ASSUME NEW i \in Nat, i \in S PROVE i + 1 \in S
  <2> SUFFICES ASSUME i + 1 <= n PROVE g[i + 1] = SumFunctionOnSet(f, 1 .. i + 1) % Word
    OBVIOUS
  <2>1. i + 1 \in 1 .. n /\ (i + 1) - 1 = i /\ i \in 0 .. n /\ i <= n
    OBVIOUS
  <2> DEFINE x == SumFunctionOnSet(f, 1 .. i)
             y == f[i + 1]
  <2>2. SumFunctionOnSet(f, 1 .. i + 1) = y + x /\ x \in Int
    BY <2>1, SumUpto, ZenonT(60)
  <2>3. g[i + 1] = (g[i] + y) % Word /\ y \in Int /\ g[i] = x % Word
    BY <1>2, <2>1
  <2> HIDE DEF x, y
  <2>4. ((x % Word) + y) % Word = (x + y) % Word
    BY <1>0, <2>2, <2>3, ModAdd
  <2>5. x + y = y + x
    BY <2>2, <2>3
  <2> QED BY <2>2, <2>3, <2>4, <2>5
<1>3. Nat \subseteq S
  <2> HIDE DEF S
  <2> QED BY <1>1, <1>2, Loop!SetInduction
<1>4. g[n] = SumFunctionOnSet(f, 1 .. n) % Word
  BY <1>3
<1>5. SumFunctionOnSet(f, 1 .. n) \in Int
  <2>1. n \in 0 .. n /\ \A i \in 1 .. n : f[i] \in Int
    OBVIOUS
  <2> QED BY <2>1, SumUpto
<1> QED BY <1>0, <1>4, <1>5, ModRange, ZenonT(60)

\* SumInputs and SumOutputs.
LEMMA SumAmtIs ==
    ASSUME NEW s, IsSeq(s), \A k \in DOMAIN s : s[k].amt \in Int,
           NEW f, \A k \in DOMAIN s : f[k] = s[k].amt
    PROVE  /\ SumAmt(s) = SumFunctionOnSet(f, 1 .. Len(s)) % Word
           /\ SumAmt(s) \in 0 .. Word - 1
<1> DEFINE X == {s[k] : k \in DOMAIN s}
<1>1. s \in Seq(X) /\ Len(s) \in Nat /\ DOMAIN s = 1 .. Len(s)
  BY SeqFacts DEF IsSeq
<1>2. PICK g : Amount!LeftRounds(g, s, 0)
  <2> HIDE DEF X
  <2> QED BY <1>1, Amount!FoldLeftRounds
<1>3. SumAmt(s) = Amount!LeftFold(s, 0)
  BY DEF SumAmt, FoldLeft, MapThenFoldSet, Max, AddAmt,
         Amount!LeftFold, Amount!FoldLeft, Amount!MapThenFoldSet, Amount!Max
<1>4. g[0] = 0 /\ SumAmt(s) = g[Len(s)]
  BY <1>2, <1>3 DEF Amount!LeftRounds
<1>5. \A i \in 1 .. Len(s) : f[i] \in Int /\ g[i] = (g[i - 1] + f[i]) % Word
  BY <1>1, <1>2 DEF Amount!LeftRounds, AddAmt
<1> DEFINE n == Len(s)
<1>6. n \in Nat /\ g[0] = 0 /\ \A i \in 1 .. n : f[i] \in Int /\ g[i] = (g[i - 1] + f[i]) % Word
  BY <1>1, <1>4, <1>5
<1>7. g[n] = SumFunctionOnSet(f, 1 .. n) % Word /\ g[n] \in 0 .. Word - 1
  <2> HIDE DEF n
  <2> QED BY <1>6, WrapUp
<1> QED BY <1>4, <1>7

LEMMA NoAmt == SumAmt(<<>>) = 0
<1>1. /\ IsSeq(<<>>) /\ Len(<<>>) = 0 /\ \A k \in DOMAIN <<>> : <<>>[k].amt \in Int
      /\ \A k \in DOMAIN <<>> : <<>>[k] = <<>>[k].amt
  BY DEF IsSeq
<1>2. SumAmt(<<>>) = SumFunctionOnSet(<<>>, 1 .. 0) % Word
  BY <1>1, SumAmtIs
<1>3. SumFunctionOnSet(<<>>, 1 .. 0) = 0
  <2>1. 0 \in Nat /\ \A i \in 1 .. 0 : <<>>[i] \in Int
    OBVIOUS
  <2> QED BY <2>1, SumUpto
<1>4. 0 % Word = 0
  BY PaymentAssumption
<1> QED BY <1>2, <1>3, <1>4

\* The sums of what is sent are those of the object made of it.
LEMMA TxSums ==
    ASSUME NEW p, IsTx(p)
    PROVE  /\ SumInputs(Deserialize(p)) = SumInputs(p) /\ SumOutputs(Deserialize(p)) = SumOutputs(p)
           /\ SumInputs(p) \in 0 .. Word - 1 /\ SumOutputs(p) \in 0 .. Word - 1
<1> DEFINE t == Deserialize(p)
           f == [k \in DOMAIN p.outs |-> p.outs[k].amt]
           g == [k \in DOMAIN p.ins |-> p.ins[k].amt]
<1>1. t.ins = p.ins /\ t.outs = [k \in DOMAIN p.outs |-> DeserializeOut(p.outs[k])]
  BY SentAndBack
<1>2. IsSeq(p.outs) /\ IsSeq(p.ins)
  BY DEF IsTx
<1>3. /\ \A k \in DOMAIN p.outs : p.outs[k].amt \in Int /\ f[k] = p.outs[k].amt
      /\ \A k \in DOMAIN p.ins : p.ins[k].amt \in Int /\ g[k] = p.ins[k].amt
  BY DEF IsTx, IsOut, IsIn
<1>4. IsSeq(t.outs) /\ DOMAIN t.outs = DOMAIN p.outs /\ Len(t.outs) = Len(p.outs)
  <2>1. t.outs = [k \in DOMAIN p.outs |-> t.outs[k]]
    BY <1>1
  <2> HIDE DEF t
  <2> QED BY <1>2, <2>1, MadeSeq
<1>5. \A k \in DOMAIN t.outs : t.outs[k].amt \in Int /\ f[k] = t.outs[k].amt
  <2>1. \A k \in DOMAIN p.outs : t.outs[k].amt = p.outs[k].amt
    <3> HIDE DEF t
    <3> QED BY <1>1 DEF DeserializeOut
  <2> HIDE DEF f, t
  <2> QED BY <1>3, <1>4, <2>1
<1> HIDE DEF f, g, t
<1>6. SumAmt(p.outs) = SumFunctionOnSet(f, 1 .. Len(p.outs)) % Word /\ SumAmt(p.outs) \in 0 .. Word - 1
  BY <1>2, <1>3, SumAmtIs
<1>7. SumAmt(t.outs) = SumFunctionOnSet(f, 1 .. Len(t.outs)) % Word
  BY <1>4, <1>5, SumAmtIs
<1>8. SumAmt(p.ins) \in 0 .. Word - 1
  BY <1>2, <1>3, SumAmtIs
<1> QED BY <1>1, <1>4, <1>6, <1>7, <1>8 DEF SumInputs, SumOutputs, t

\* SetToSeq lists a finite set.
LEMMA Listing ==
    ASSUME NEW S, IsFiniteSet(S)
    PROVE  /\ IsSeq(SetToSeq(S)) /\ Len(SetToSeq(S)) = Cardinality(S)
           /\ \A k \in DOMAIN SetToSeq(S) : SetToSeq(S)[k] \in S
           /\ \A x \in S : \E k \in DOMAIN SetToSeq(S) : SetToSeq(S)[k] = x
           /\ \A j, k \in DOMAIN SetToSeq(S) : SetToSeq(S)[j] = SetToSeq(S)[k] => j = k
<1> DEFINE n == Cardinality(S)
           s == SetToSeq(S)
<1>1. n \in Nat /\ ExistsBijection(1 .. n, S)
  BY FS_CardinalityType, FS_CountingElements
<1>2. \E f \in [1 .. n -> S] : IsInjective(f)
  BY <1>1 DEF ExistsBijection, Bijection, Injection, IsInjective
<1>3. s \in [1 .. n -> S] /\ IsInjective(s)
  BY <1>2 DEF SetToSeq
<1> HIDE DEF s
<1>4. s \in Surjection(1 .. n, S)
  <2>1. Cardinality(1 .. n) = Cardinality(S)
    BY <1>1, FS_Interval
  <2>2. s \in Injection(1 .. n, S)
    BY <1>3 DEF Injection, IsInjective
  <2> QED BY <2>1, <2>2, FS_Injection
<1>5. DOMAIN s = 1 .. n /\ s \in Seq(S) /\ Len(s) = n
  BY <1>1, <1>3
<1>6. IsSeq(s)
  <2>1. s \in [1 .. n -> {s[k] : k \in DOMAIN s}]
    BY <1>3
  <2> QED BY <1>1, <2>1 DEF IsSeq
<1>7. \A x \in S : \E k \in DOMAIN s : s[k] = x
  BY <1>4, <1>5 DEF Surjection
<1>8. \A j, k \in DOMAIN s : s[j] = s[k] => j = k
  BY <1>3 DEF IsInjective
<1>9. \A k \in DOMAIN s : s[k] \in S
  BY <1>3
<1> QED BY <1>5, <1>6, <1>7, <1>8, <1>9 DEF s

\* The sequence s lists S, each element once.
Lists(s, n, S) == /\ n \in Nat /\ (\A k \in 1 .. n : s[k] \in S)
                  /\ (\A x \in S : \E k \in 1 .. n : s[k] = x)
                  /\ (\A j, k \in 1 .. n : s[j] = s[k] => j = k)
First(s, i) == {s[k] : k \in 1 .. i}

LEMMA SetLists ==
    ASSUME NEW S, IsFiniteSet(S)
    PROVE  Lists(SetToSeq(S), Cardinality(S), S)
<1>1. DOMAIN SetToSeq(S) = 1 .. Cardinality(S) /\ Cardinality(S) \in Nat
  BY Listing, SeqFacts, FS_CardinalityType
<1> QED BY <1>1, Listing DEF Lists

LEMMA FirstNext ==
    ASSUME NEW s, NEW n, NEW S, Lists(s, n, S), NEW i \in Nat, i + 1 <= n
    PROVE  /\ First(s, i + 1) \subseteq S /\ First(s, i) \subseteq S
           /\ s[i + 1] \in First(s, i + 1) /\ s[i + 1] \notin First(s, i)
           /\ First(s, i + 1) \ {s[i + 1]} = First(s, i)
<1>1. i + 1 \in 1 .. n /\ \A k \in 1 .. i : k \in 1 .. n /\ k # i + 1
  BY DEF Lists
<1>2. \A k : k \in 1 .. i + 1 <=> k \in 1 .. i \/ k = i + 1
  OBVIOUS
<1>3. First(s, i + 1) = First(s, i) \cup {s[i + 1]}
  BY <1>2 DEF First
<1>4. s[i + 1] \notin First(s, i) /\ First(s, i) \subseteq S /\ s[i + 1] \in S
  BY <1>1 DEF Lists, First
<1> QED BY <1>3, <1>4

LEMMA FirstAll ==
    ASSUME NEW s, NEW n, NEW S, Lists(s, n, S)
    PROVE  First(s, 0) = {} /\ First(s, n) = S
BY DEF Lists, First

\* A sum over a set is one over any list of it.
LEMMA SumListed ==
    ASSUME NEW S, IsFiniteSet(S), NEW f, \A x \in S : f[x] \in Int,
           NEW s, NEW n, Lists(s, n, S), NEW g, \A k \in 1 .. n : g[k] = f[s[k]]
    PROVE  SumFunctionOnSet(g, 1 .. n) = SumFunctionOnSet(f, S)
<1> DEFINE W == {i \in Nat : i <= n => SumFunctionOnSet(g, 1 .. i) = SumFunctionOnSet(f, First(s, i))}
<1>1. n \in Nat /\ \A i \in 1 .. n : g[i] = f[s[i]] /\ g[i] \in Int
  BY DEF Lists
<1>2. 0 \in W
  <2>1. SumFunctionOnSet(g, 1 .. 0) = 0 /\ SumFunctionOnSet(f, {}) = 0
    BY <1>1, SumUpto, SumTakeOut
  <2> QED BY <2>1, FirstAll
<1>3. ASSUME NEW i \in Nat, i \in W PROVE i + 1 \in W
  <2> SUFFICES ASSUME i + 1 <= n PROVE SumFunctionOnSet(g, 1 .. i + 1) = SumFunctionOnSet(f, First(s, i + 1))
    OBVIOUS
  <2> DEFINE B == First(s, i + 1)
             x == s[i + 1]
  <2>1. SumFunctionOnSet(g, 1 .. i + 1) = g[i + 1] + SumFunctionOnSet(g, 1 .. i) /\ i <= n
    BY <1>1, SumNext
  <2>2. B \subseteq S /\ x \in B /\ B \ {x} = First(s, i)
    BY FirstNext
  <2>3. g[i + 1] = f[x]
    BY <1>1
  <2> HIDE DEF B, x
  <2>4. IsFiniteSet(B) /\ \A y \in B : f[y] \in Int
    BY <2>2, FS_Subset
  <2>5. SumFunctionOnSet(f, B) = f[x] + SumFunctionOnSet(f, B \ {x})
    BY <2>2, <2>4, SumTakeOut
  <2>6. SumFunctionOnSet(g, 1 .. i) = SumFunctionOnSet(f, First(s, i))
    BY <1>3, <2>1
  <2> QED BY <2>1, <2>2, <2>3, <2>5, <2>6 DEF B
<1>4. Nat \subseteq W
  <2> HIDE DEF W
  <2> QED BY <1>2, <1>3, Loop!SetInduction
<1>5. SumFunctionOnSet(g, 1 .. n) = SumFunctionOnSet(f, First(s, n))
  BY <1>1, <1>4
<1> QED BY <1>5, FirstAll

\* Sums over two sets that have nothing in common.
LEMMA SumUnion ==
    ASSUME NEW X, NEW Y, IsFiniteSet(X), IsFiniteSet(Y), X \cap Y = {},
           NEW f, \A x \in X \cup Y : f[x] \in Int
    PROVE  SumFunctionOnSet(f, X \cup Y) = SumFunctionOnSet(f, X) + SumFunctionOnSet(f, Y)
<1> DEFINE s == SetToSeq(Y)
           n == Cardinality(Y)
           Sum(Z) == SumFunctionOnSet(f, Z)
           W == {i \in Nat : i <= n => Sum(X \cup First(s, i)) = Sum(X) + Sum(First(s, i))}
<1>1. Lists(s, n, Y) /\ n \in Nat
  BY SetLists, FS_CardinalityType
<1>2. ASSUME NEW Z \in SUBSET (X \cup Y)
      PROVE  IsFiniteSet(Z) /\ Sum(Z) \in Int /\ Sum({}) = 0 /\ \A x \in Z : Sum(Z) = f[x] + Sum(Z \ {x})
  <2>1. IsFiniteSet(Z) /\ \A x \in Z : f[x] \in Int
    BY FS_Union, FS_Subset
  <2> QED BY <2>1, SumTakeOut
<1> HIDE DEF s, n, Sum
<1>3. 0 \in W
  <2>1. First(s, 0) = {} /\ X \cup {} = X
    BY <1>1, FirstAll
  <2>2. Sum(X) \in Int /\ Sum({}) = 0
    BY <1>2
  <2> QED BY <2>1, <2>2
<1>4. ASSUME NEW i \in Nat, i \in W PROVE i + 1 \in W
  <2> SUFFICES ASSUME i + 1 <= n PROVE Sum(X \cup First(s, i + 1)) = Sum(X) + Sum(First(s, i + 1))
    OBVIOUS
  <2> DEFINE B == First(s, i + 1)
             A == First(s, i)
             y == s[i + 1]
  <2>1. B \subseteq Y /\ A \subseteq Y /\ y \in B /\ B \ {y} = A
    BY <1>1, FirstNext
  <2>2. Sum(X \cup A) = Sum(X) + Sum(A)
    BY <1>1, <1>4
  <2> HIDE DEF B, A, y
  <2>3. (X \cup B) \ {y} = X \cup A /\ y \in X \cup B
    BY <2>1
  <2>4. Sum(B) = f[y] + Sum(A) /\ Sum(A) \in Int /\ Sum(X) \in Int /\ f[y] \in Int
    BY <1>2, <2>1
  <2>5. Sum(X \cup B) = f[y] + Sum(X \cup A)
    <3>1. X \cup B \in SUBSET (X \cup Y)
      BY <2>1
    <3> QED BY <1>2, <2>3, <3>1
  <2>6. Sum(X \cup B) = Sum(X) + Sum(B)
    BY <2>2, <2>4, <2>5
  <2> QED BY <2>6 DEF B
<1>5. Nat \subseteq W
  <2> HIDE DEF W
  <2> QED BY <1>3, <1>4, Loop!SetInduction
<1>6. Sum(X \cup First(s, n)) = Sum(X) + Sum(First(s, n)) /\ First(s, n) = Y
  BY <1>1, <1>5, FirstAll
<1> QED BY <1>6 DEF Sum
-----------------------------------------------------------------------------
(* The loops of Blockchain.Add *)

\* P holds the transactions of b as they were sent, and ApplyBlk goes through
\* the states of g.
Sent(b, P) == IsSeq(P) /\ (\A k \in DOMAIN P : IsTx(P[k])) /\ b.txs = Map(Deserialize, P)
Rounds(g, U, b, P) ==
    /\ g[0] = U /\ ApplyBlk(U, b) = g[Len(P)]
    /\ \A i \in 1 .. Len(P) : g[i] = ApplyTx(g[i - 1], Deserialize(P[i]))

LEMMA BlkRounds ==
    ASSUME NEW U, NEW b, NEW P, Sent(b, P)
    PROVE  \E g : Rounds(g, U, b, P)
<1> DEFINE s == b.txs
           X == {s[k] : k \in DOMAIN s}
<1>1. s = [k \in DOMAIN P |-> Deserialize(P[k])]
  BY DEF Sent, Map
<1>2. IsSeq(s) /\ Len(s) = Len(P) /\ DOMAIN P = 1 .. Len(P)
  <2>1. IsSeq(P) /\ s = [k \in DOMAIN P |-> s[k]]
    BY <1>1 DEF Sent
  <2> HIDE DEF s
  <2> QED BY <2>1, MadeSeq, SeqFacts
<1>3. s \in Seq(X)
  BY <1>2 DEF IsSeq
<1>4. PICK g : Loop!LeftRounds(g, s, U)
  <2> HIDE DEF s, X
  <2> QED BY <1>3, Loop!FoldLeftRounds
<1>5. ApplyBlk(U, b) = Loop!LeftFold(s, U)
  BY DEF ApplyBlk, FoldLeft, MapThenFoldSet, Max, TxOn,
         Loop!LeftFold, Loop!FoldLeft, Loop!MapThenFoldSet, Loop!Max
<1>6. \A i \in 1 .. Len(P) : g[i] = ApplyTx(g[i - 1], Deserialize(P[i]))
  <2>1. \A i \in 1 .. Len(s) : g[i] = ApplyTx(g[i - 1], s[i])
    BY <1>4 DEF Loop!LeftRounds, TxOn
  <2>2. \A i \in 1 .. Len(P) : s[i] = Deserialize(P[i])
    BY <1>1, <1>2
  <2> HIDE DEF s
  <2> QED BY <1>2, <2>1, <2>2
<1>7. g[0] = U /\ Loop!LeftFold(s, U) = g[Len(s)]
  BY <1>4 DEF Loop!LeftRounds
<1> QED BY <1>2, <1>5, <1>6, <1>7 DEF Rounds

\* An unspent output of V was one of U that none of the transactions T spends,
\* or one of them has made it.
FromU(V, U, T, l) == l \in DOMAIN U /\ V[l] = U[l] /\ \A v \in T : l \notin Spends(v)
FromT(V, T, l) == \E v \in T : \E k \in DOMAIN v.outs :
    l = MkTXOLoc(TxHash(v), k) /\ V[l] = DeserializeOut(v.outs[k])
\* What was or has been made is there, or one of them spends it.
Accounted(V, U, T) == \A l : (l \in DOMAIN U \/ \E v \in T : l \in Creates(v))
                             => l \in DOMAIN V \/ \E v \in T : l \in Spends(v)
After(V, U, T) == /\ V = [l \in DOMAIN V |-> V[l]]
                  /\ \A l \in DOMAIN V : FromU(V, U, T, l) \/ FromT(V, T, l)
                  /\ Accounted(V, U, T)
                  /\ IsFiniteSet(DOMAIN V)

LEMMA ApplyTxDoes ==
    ASSUME NEW U, NEW p, IsTx(p), IsFiniteSet(DOMAIN U)
    PROVE  /\ ApplyTx(U, Deserialize(p)) = [l \in DOMAIN ApplyTx(U, Deserialize(p)) |->
                                              ApplyTx(U, Deserialize(p))[l]]
           /\ DOMAIN ApplyTx(U, Deserialize(p)) = (DOMAIN U \ Spends(p)) \cup Creates(p)
           /\ IsFiniteSet(DOMAIN ApplyTx(U, Deserialize(p)))
           /\ \A k \in DOMAIN p.outs : ApplyTx(U, Deserialize(p))[MkTXOLoc(TxHash(p), k)]
                                         = DeserializeOut(p.outs[k])
           /\ \A l \in DOMAIN U \ Spends(p) :
                 l \notin Creates(p) => ApplyTx(U, Deserialize(p))[l] = U[l]
<1> DEFINE d == Deserialize(p)
           V == ApplyTx(U, d)
<1>1. /\ Spends(d) = Spends(p) /\ Creates(d) = Creates(p)
      /\ d.outs = [k \in DOMAIN p.outs |-> DeserializeOut(p.outs[k])]
  BY SentAndBack
<1>2. V = [l \in (DOMAIN U \ Spends(p)) \cup Creates(p) |->
              IF l \in Creates(p) THEN d.outs[l[2]] ELSE U[l]]
  BY <1>1 DEF ApplyTx
<1>3. DOMAIN V = (DOMAIN U \ Spends(p)) \cup Creates(p) /\ V = [l \in DOMAIN V |-> V[l]]
  <2> HIDE DEF d
  <2> QED BY <1>2
<1>4. IsFiniteSet(DOMAIN V)
  <2>1. IsFiniteSet(DOMAIN U \ Spends(p))
    BY FS_Subset
  <2>2. IsFiniteSet(Creates(p))
    <3>1. Len(p.outs) \in Nat /\ DOMAIN p.outs = 1 .. Len(p.outs)
      BY SeqFacts DEF IsTx
    <3> DEFINE s == [k \in 1 .. Len(p.outs) |-> MkTXOLoc(TxHash(p), k)]
    <3>2. s \in Seq(Creates(p)) /\ Len(s) = Len(p.outs)
      BY <3>1 DEF Creates
    <3>3. \A l \in Creates(p) : \E k \in 1 .. Len(s) : s[k] = l
      BY <3>1, <3>2 DEF Creates
    <3> HIDE DEF s
    <3> QED BY <3>2, <3>3 DEF IsFiniteSet
  <2> QED BY <1>3, <2>1, <2>2, FS_Union
<1>5. ASSUME NEW k \in DOMAIN p.outs
      PROVE  V[MkTXOLoc(TxHash(p), k)] = DeserializeOut(p.outs[k])
  <2>1. MkTXOLoc(TxHash(p), k) \in Creates(p) /\ MkTXOLoc(TxHash(p), k)[2] = k
    BY DEF Creates, MkTXOLoc
  <2>2. V[MkTXOLoc(TxHash(p), k)] = d.outs[k]
    <3> HIDE DEF d
    <3> QED BY <1>2, <2>1
  <2> QED BY <1>1, <2>2
<1>6. \A l \in DOMAIN U \ Spends(p) : l \notin Creates(p) => V[l] = U[l]
  <2> HIDE DEF d
  <2> QED BY <1>2
<1> QED BY <1>3, <1>4, <1>5, <1>6

LEMMA AfterTx ==
    ASSUME NEW U, NEW T, NEW V, After(V, U, T), NEW p, IsTx(p)
    PROVE  After(ApplyTx(V, Deserialize(p)), U, T \cup {p})
<1> DEFINE W == ApplyTx(V, Deserialize(p))
<1>0. IsFiniteSet(DOMAIN V)
  BY DEF After
<1>1. /\ W = [l \in DOMAIN W |-> W[l]]
      /\ DOMAIN W = (DOMAIN V \ Spends(p)) \cup Creates(p)
      /\ IsFiniteSet(DOMAIN W)
      /\ \A k \in DOMAIN p.outs : W[MkTXOLoc(TxHash(p), k)] = DeserializeOut(p.outs[k])
      /\ \A l \in DOMAIN V \ Spends(p) : l \notin Creates(p) => W[l] = V[l]
  BY <1>0, ApplyTxDoes
<1> HIDE DEF W
<1>2. ASSUME NEW l \in DOMAIN W PROVE FromU(W, U, T \cup {p}, l) \/ FromT(W, T \cup {p}, l)
  <2>1. CASE l \in Creates(p)
    <3>1. PICK k \in DOMAIN p.outs : l = MkTXOLoc(TxHash(p), k)
      BY <2>1 DEF Creates
    <3> QED BY <1>1, <3>1 DEF FromT
  <2>2. CASE l \notin Creates(p)
    <3>1. l \in DOMAIN V \ Spends(p) /\ W[l] = V[l]
      BY <1>1, <2>2
    <3>2. FromU(V, U, T, l) \/ FromT(V, T, l)
      BY <3>1 DEF After
    <3> QED BY <3>1, <3>2 DEF FromU, FromT
  <2> QED BY <2>1, <2>2
<1>3. Accounted(W, U, T \cup {p})
  BY <1>1 DEF After, Accounted
<1> QED BY <1>1, <1>2, <1>3 DEF After, W

\* What adding a block does to the unspent outputs.
LEMMA AfterBlk ==
    ASSUME NEW U, U = [l \in DOMAIN U |-> U[l]], IsFiniteSet(DOMAIN U), NEW b, NEW P, Sent(b, P)
    PROVE  After(ApplyBlk(U, b), U, ToSet(P))
<1>1. PICK g : Rounds(g, U, b, P)
  BY BlkRounds
<1>2. Len(P) \in Nat /\ DOMAIN P = 1 .. Len(P) /\ \A k \in DOMAIN P : IsTx(P[k])
  BY SeqFacts DEF Sent
<1> DEFINE T(i) == {P[k] : k \in 1 .. i}
           S == {i \in Nat : i <= Len(P) => After(g[i], U, T(i))}
<1>3. 0 \in S
  <2>1. T(0) = {} /\ g[0] = U
    BY <1>1 DEF Rounds
  <2>2. After(U, U, {})
    BY DEF After, FromU, Accounted
  <2> QED BY <2>1, <2>2
<1>4. ASSUME NEW i \in Nat, i \in S PROVE i + 1 \in S
  <2> SUFFICES ASSUME i + 1 <= Len(P) PROVE After(g[i + 1], U, T(i + 1))
    OBVIOUS
  <2>1. i + 1 \in 1 .. Len(P) /\ (i + 1) - 1 = i /\ i <= Len(P)
    BY <1>2
  <2>2. After(g[i], U, T(i))
    BY <1>4, <2>1
  <2>3. g[i + 1] = ApplyTx(g[i], Deserialize(P[i + 1])) /\ IsTx(P[i + 1])
    BY <1>1, <1>2, <2>1 DEF Rounds
  <2>4. T(i + 1) = T(i) \cup {P[i + 1]}
    <3>1. \A k : k \in 1 .. i + 1 <=> k \in 1 .. i \/ k = i + 1
      OBVIOUS
    <3> QED BY <3>1
  <2> HIDE DEF T
  <2> QED BY <2>2, <2>3, <2>4, AfterTx
<1>5. Nat \subseteq S
  <2> HIDE DEF S
  <2> QED BY <1>3, <1>4, Loop!SetInduction
<1>6. T(Len(P)) = ToSet(P)
  BY <1>2 DEF ToSet
<1>7. After(g[Len(P)], U, T(Len(P)))
  <2> HIDE DEF T
  <2> QED BY <1>2, <1>5
<1> QED BY <1>1, <1>6, <1>7 DEF Rounds
-----------------------------------------------------------------------------
(* The chain, for any chain c and any set N of transactions that were sent *)

TxsIn(c, k) == UNION {ToSet(c[i].txs) : i \in 1 .. k}

\* The payments of a block: all of its transactions but the first.
PaysOf(c, i) == {c[i].txs[k] : k \in 2 .. Len(c[i].txs)}

\* The input in spends an output of u that pays n, and is signed by n.
Claims(n, in, u) == /\ in.tx = TxHash(u) /\ in.idx \in DOMAIN u.outs
                    /\ u.outs[in.idx] = [amt |-> in.amt, pk |-> n]
                    /\ in.sig = Sign(n, OutHash(u.outs[in.idx]))

\* Blocks hold a coinbase transaction, which pays a miner if the block is not
\* the genesis block, and payments that were sent.
BlockShape(c, N, i) ==
    /\ c[i] = [hdr |-> c[i].hdr, txs |-> c[i].txs]
    /\ IsSeq(c[i].txs) /\ c[i].txs # <<>>
    /\ IsTx(c[i].txs[1]) /\ c[i].txs[1].ins = <<>>
    /\ i > 1 => Len(c[i].txs[1].outs) = 1 /\ c[i].txs[1].outs[1].pk \in Miners
    /\ \A t \in PaysOf(c, i) : t \in N /\ t.ins # <<>>

\* A payment is in one block only, ...
Once(c) == \A i, j \in 1 .. Len(c) : PaysOf(c, i) \cap PaysOf(c, j) # {} => i = j

\* ... and that block comes after those with the outputs that it spends.
InOrder(c) == \A i \in 1 .. Len(c) : \A t \in PaysOf(c, i) : \A k \in DOMAIN t.ins :
    \E u \in TxsIn(c, i - 1) : t.ins[k].tx = TxHash(u)

\* Whoever makes a payment has the blocks with the outputs that it spends.
Founded(c, N, a) == \A p \in N : \A k \in DOMAIN p.ins :
    \E n \in Payers : \E u \in TxsIn(c, a[n]) : Claims(n, p.ins[k], u)

GoodChain(c, N) == /\ IsSeq(c) /\ c # <<>>
                   /\ (\A p \in N : IsTx(p))
                   /\ (\A i \in 1 .. Len(c) : BlockShape(c, N, i))
                   /\ Once(c) /\ InOrder(c)

LEMMA InTxs ==
    ASSUME NEW c, NEW k, NEW x
    PROVE  x \in TxsIn(c, k) <=> \E i \in 1 .. k : \E j \in DOMAIN c[i].txs : x = c[i].txs[j]
BY DEF TxsIn, ToSet

LEMMA TxsGrow ==
    ASSUME NEW c, NEW k \in Nat, NEW m \in Nat, k <= m
    PROVE  TxsIn(c, k) \subseteq TxsIn(c, m)
<1>1. 1 .. k \subseteq 1 .. m
  OBVIOUS
<1> QED BY <1>1, InTxs

LEMMA TxsNext ==
    ASSUME NEW c, NEW k \in Nat
    PROVE  TxsIn(c, k + 1) = TxsIn(c, k) \cup ToSet(c[k + 1].txs)
<1>1. \A i : i \in 1 .. k + 1 <=> i \in 1 .. k \/ i = k + 1
  OBVIOUS
<1> QED BY <1>1 DEF TxsIn

\* The transactions of a chain have the shape of messages.
LEMMA ChainTxs ==
    ASSUME NEW c, NEW N, GoodChain(c, N), NEW i \in 1 .. Len(c), NEW j \in DOMAIN c[i].txs
    PROVE  /\ IsTx(c[i].txs[j])
           /\ j = 1 => c[i].txs[j].ins = <<>>
           /\ j # 1 => c[i].txs[j] \in PaysOf(c, i) /\ c[i].txs[j] \in N /\ c[i].txs[j].ins # <<>>
<1>1. BlockShape(c, N, i)
  BY DEF GoodChain
<1>2. DOMAIN c[i].txs = 1 .. Len(c[i].txs) /\ Len(c[i].txs) \in Nat
  BY <1>1, SeqFacts DEF BlockShape
<1>3. CASE j = 1
  BY <1>1, <1>3 DEF BlockShape
<1>4. CASE j # 1
  <2>1. c[i].txs[j] \in PaysOf(c, i)
    BY <1>2, <1>4 DEF PaysOf
  <2> QED BY <1>1, <1>4, <2>1 DEF BlockShape, GoodChain
<1> QED BY <1>3, <1>4

LEMMA TxsAreTxs ==
    ASSUME NEW c, NEW N, GoodChain(c, N), NEW k \in Nat, k <= Len(c), NEW u \in TxsIn(c, k)
    PROVE  IsTx(u)
<1>1a. PICK i \in 1 .. k : \E j \in DOMAIN c[i].txs : u = c[i].txs[j]
  BY InTxs
<1>1. PICK j \in DOMAIN c[i].txs : u = c[i].txs[j]
  BY <1>1a
<1>2. Len(c) \in Nat
  BY SeqFacts DEF GoodChain
<1> QED BY <1>1, <1>2, ChainTxs

\* A transaction that pays somebody who is no miner is not in two blocks.
LEMMA Fresh ==
    ASSUME NEW c, NEW N, GoodChain(c, N), NEW i \in 1 .. Len(c), NEW u \in TxsIn(c, i - 1),
           u \in ToSet(c[i].txs), NEW k \in DOMAIN u.outs, u.outs[k].pk \in Payers
    PROVE  FALSE
<1>1a. PICK j \in 1 .. i - 1 : \E a \in DOMAIN c[j].txs : u = c[j].txs[a]
  BY InTxs
<1>1. PICK a \in DOMAIN c[j].txs : u = c[j].txs[a]
  BY <1>1a
<1>2. PICK b \in DOMAIN c[i].txs : u = c[i].txs[b]
  BY DEF ToSet
<1>3. j \in 1 .. Len(c) /\ j # i /\ i > 1
  <2>1. Len(c) \in Nat
    BY SeqFacts DEF GoodChain
  <2> QED BY <1>1, <2>1
<1>4. CASE b = 1
  <2>1. BlockShape(c, N, i)
    BY DEF GoodChain
  <2>2. Len(u.outs) = 1 /\ u.outs[1].pk \in Miners /\ IsTx(u)
    BY <1>2, <1>3, <1>4, <2>1 DEF BlockShape
  <2>3. k = 1
    BY <2>2, SeqFacts DEF IsTx
  <2> QED BY <2>2, <2>3 DEF Payers
<1>5. CASE b # 1
  <2>1. u \in PaysOf(c, i) /\ u.ins # <<>>
    BY <1>2, <1>5, ChainTxs
  <2>2. u \in PaysOf(c, j)
    BY <1>1, <1>3, <2>1, ChainTxs
  <2> QED BY <1>3, <2>1, <2>2 DEF GoodChain, Once
<1> QED BY <1>4, <1>5

\* The output that an input claims is not made in a block after the one that
\* the claim was founded on.
LEMMA ClaimIsOld ==
    ASSUME NEW c, NEW N, GoodChain(c, N), NEW i \in 1 .. Len(c),
           NEW u \in TxsIn(c, i - 1), NEW v \in ToSet(c[i].txs), NEW w \in TxsIn(c, Len(c)),
           NEW in, NEW n \in Payers, in.tx = TxHash(u), in.tx = TxHash(v), Claims(n, in, w)
    PROVE  FALSE
<1>1. Len(c) \in Nat /\ i - 1 \in Nat /\ i - 1 <= Len(c)
  BY SeqFacts DEF GoodChain
<1>2. IsTx(u) /\ IsTx(w)
  BY <1>1, TxsAreTxs
<1>3. IsTx(v)
  BY ChainTxs DEF ToSet
<1>4. u = v /\ w = v
  <2>1. TxHash(u) = TxHash(v) /\ TxHash(w) = TxHash(v)
    BY DEF Claims
  <2> QED BY <1>2, <1>3, <2>1, HashTells
<1>5. in.idx \in DOMAIN u.outs /\ u.outs[in.idx].pk \in Payers
  BY <1>4 DEF Claims
<1> QED BY <1>4, <1>5, Fresh
-----------------------------------------------------------------------------
(* The unspent outputs U of a node that has added the transactions T *)

\* An unspent output is the one that its locator names.
Rooted(U, T) == \A l \in DOMAIN U : \E u \in T : \E k \in DOMAIN u.outs :
    /\ l = MkTXOLoc(TxHash(u), k)
    /\ U[l].lim \in BOOLEAN
    /\ U[l] = [amt |-> u.outs[k].amt, pk |-> u.outs[k].pk, lim |-> U[l].lim]

\* What has been spent is gone, ...
Spent(U, T) == \A t \in T : Spends(t) \cap DOMAIN U = {}

\* ... and nothing else is.
Kept(U, T) == \A u \in T : \A l \in Creates(u) : l \in DOMAIN U \/ \E s \in T : l \in Spends(s)

GoodUtxo(U, T) == /\ U = [l \in DOMAIN U |-> U[l]] /\ IsFiniteSet(DOMAIN U)
                  /\ Rooted(U, T) /\ Spent(U, T) /\ Kept(U, T)

\* The next block of the chain keeps them in order.
LEMMA BlkUtxo ==
    ASSUME NEW c, NEW N, NEW a, GoodChain(c, N), Founded(c, N, a),
           \A n \in Payers : a[n] \in 1 .. Len(c),
           NEW i \in Nat, i + 1 <= Len(c), NEW U, GoodUtxo(U, TxsIn(c, i)),
           NEW b, Sent(b, c[i + 1].txs)
    PROVE  GoodUtxo(ApplyBlk(U, b), TxsIn(c, i + 1))
<1> DEFINE P == c[i + 1].txs
           B == ToSet(P)
           T == TxsIn(c, i)
           V == ApplyBlk(U, b)
<1>1. After(V, U, B)
  BY AfterBlk DEF GoodUtxo
<1>2. TxsIn(c, i + 1) = T \cup B
  BY TxsNext
<1>3. Len(c) \in Nat /\ i + 1 \in 1 .. Len(c) /\ (i + 1) - 1 = i
  BY SeqFacts DEF GoodChain
<1> HIDE DEF V
<1>4. Rooted(V, T \cup B)
  <2> SUFFICES ASSUME NEW l \in DOMAIN V
               PROVE  \E u \in T \cup B : \E k \in DOMAIN u.outs :
                        /\ l = MkTXOLoc(TxHash(u), k)
                        /\ V[l].lim \in BOOLEAN
                        /\ V[l] = [amt |-> u.outs[k].amt, pk |-> u.outs[k].pk, lim |-> V[l].lim]
    BY DEF Rooted
  <2>1. CASE FromU(V, U, B, l)
    BY <2>1 DEF FromU, GoodUtxo, Rooted
  <2>2. CASE FromT(V, B, l)
    <3>1a. PICK v \in B : \E k \in DOMAIN v.outs :
             l = MkTXOLoc(TxHash(v), k) /\ V[l] = DeserializeOut(v.outs[k])
      BY <2>2 DEF FromT
    <3>1. PICK k \in DOMAIN v.outs : l = MkTXOLoc(TxHash(v), k) /\ V[l] = DeserializeOut(v.outs[k])
      BY <3>1a
    <3>2. /\ V[l].lim = FALSE
          /\ V[l] = [amt |-> v.outs[k].amt, pk |-> v.outs[k].pk, lim |-> V[l].lim]
      BY <3>1 DEF DeserializeOut
    <3> QED BY <3>1, <3>2
  <2> QED BY <1>1, <2>1, <2>2 DEF After
<1>5. Spent(V, T \cup B)
  <2> SUFFICES ASSUME NEW t \in T \cup B, NEW l \in Spends(t), l \in DOMAIN V PROVE FALSE
    BY DEF Spent
  <2>1. CASE FromU(V, U, B, l)
    BY <2>1 DEF FromU, GoodUtxo, Spent
  <2>2. CASE FromT(V, B, l)
    <3>1a. PICK v \in B : \E k \in DOMAIN v.outs : l = MkTXOLoc(TxHash(v), k)
      BY <2>2 DEF FromT
    <3>1. PICK k \in DOMAIN v.outs : l = MkTXOLoc(TxHash(v), k)
      BY <3>1a
    <3>2. PICK m \in DOMAIN t.ins : l = MkTXOLoc(t.ins[m].tx, t.ins[m].idx)
      BY DEF Spends
    <3>3a. PICK j \in 1 .. i + 1 : \E d \in DOMAIN c[j].txs : t = c[j].txs[d]
      BY <1>2, InTxs
    <3>3. PICK d \in DOMAIN c[j].txs : t = c[j].txs[d]
      BY <3>3a
    <3>4. j \in 1 .. Len(c) /\ j - 1 \in Nat /\ j - 1 <= i
      BY <1>3, <3>3
    <3>5. t \in PaysOf(c, j) /\ t \in N
      <4>1. t.ins # <<>>
        BY <3>2
      <4> QED BY <3>3, <3>4, <4>1, ChainTxs
    <3>6. PICK u \in TxsIn(c, j - 1) : t.ins[m].tx = TxHash(u)
      BY <3>4, <3>5 DEF GoodChain, InOrder
    <3>7a. PICK n \in Payers : \E w \in TxsIn(c, a[n]) : Claims(n, t.ins[m], w)
      BY <3>5 DEF Founded
    <3>7. PICK w \in TxsIn(c, a[n]) : Claims(n, t.ins[m], w)
      BY <3>7a
    <3>8. u \in TxsIn(c, i) /\ w \in TxsIn(c, Len(c))
      BY <1>3, <3>4, <3>6, <3>7, TxsGrow
    <3>9. t.ins[m].tx = TxHash(v)
      BY <3>1, <3>2 DEF MkTXOLoc
    <3> QED BY <1>3, <3>1, <3>6, <3>7, <3>8, <3>9, ClaimIsOld
  <2> QED BY <1>1, <2>1, <2>2 DEF After
<1>6. Kept(V, T \cup B)
  BY <1>1 DEF After, Accounted, GoodUtxo, Kept
<1> QED BY <1>1, <1>2, <1>4, <1>5, <1>6 DEF GoodUtxo, After, V
-----------------------------------------------------------------------------
(* The inductive invariant, part by part *)

\* The node's unspent outputs are what its blocks have made of them.
Sees(c, a, U) == U = [n \in Nodes |-> U[n]] /\ \A n \in Nodes : GoodUtxo(U[n], TxsIn(c, a[n]))

\* An output goes into the versions of one payment ...
Apart(N) == \A p, q \in N : Spends(p) \cap Spends(q) # {} => p.ins = q.ins

\* ... because no wallet finds an output that is in a payment already.
Free(V, n) == {l \in DOMAIN V : V[l].pk = n /\ ~V[l].lim}
Flagged(N, U) == \A n \in Payers : \A p \in N : Spends(p) \cap Free(U[n], n) = {}

\* A transaction of a pool was sent, is not in the miner's chain, and spends
\* outputs that are.
Waiting(c, N, i, t) == \E p \in N :
    /\ t = Deserialize(p) /\ p.ins # <<>> /\ p \notin TxsIn(c, i)
    /\ \A j \in DOMAIN p.ins : \E u \in TxsIn(c, i) : p.ins[j].tx = TxHash(u)
Pooled(c, N, a, Q) ==
    /\ Q = [m \in Miners |-> Q[m]]
    /\ \A m \in Miners : IsFiniteSet(Q[m]) /\ \A t \in Q[m] : Waiting(c, N, a[m], t)

\* So was a liminal transaction.
Liminal(N, L) ==
    /\ L = [n \in Payers |-> L[n]]
    /\ \A n \in Payers : \A x \in L[n] : x = [T |-> x.T, P |-> x.P] /\ \E p \in N : x.T = Deserialize(p)

Counts == /\ at \in [Nodes -> 1 .. Len(chain)] /\ told \in [Payers -> 0 .. Len(chain)]
          /\ todo \subseteq Requests /\ dead \subseteq Miners

IInv == /\ Counts /\ GoodChain(chain, net) /\ Founded(chain, net, at) /\ Sees(chain, at, utxo)
        /\ Apart(net) /\ Flagged(net, utxo) /\ Pooled(chain, net, at, pool) /\ Liminal(net, lmnl)
-----------------------------------------------------------------------------
(* A longer chain, more transactions, and a node that has more blocks *)

\* The chain d is c with the block b at its end.
Longer(d, c, b) ==
    /\ IsSeq(d) /\ d # <<>> /\ Len(c) \in Nat /\ Len(d) = Len(c) + 1
    /\ \A i \in 1 .. Len(c) : d[i] = c[i] /\ PaysOf(d, i) = PaysOf(c, i)
    /\ d[Len(c) + 1] = b
    /\ \A k \in 0 .. Len(c) : TxsIn(d, k) = TxsIn(c, k)

LEMMA LongerChain ==
    ASSUME NEW c, IsSeq(c), NEW b, NEW d, d = Append(c, b)
    PROVE  Longer(d, c, b)
<1> DEFINE X == {c[k] : k \in DOMAIN c} \cup {b}
<1>1. c \in Seq(X) /\ b \in X
  <2>1. c \in Seq({c[k] : k \in DOMAIN c})
    BY DEF IsSeq
  <2> QED BY <2>1
<1>2. d \in Seq(X) /\ Len(c) \in Nat /\ Len(d) = Len(c) + 1
  <2> HIDE DEF X
  <2> QED BY <1>1
<1>3. (\A i \in 1 .. Len(c) : d[i] = c[i]) /\ d[Len(c) + 1] = b
  <2> HIDE DEF X
  <2> QED BY <1>1
<1>4. IsSeq(d)
  <2> HIDE DEF X
  <2> QED BY <1>2, AnySeq
<1>5. \A i \in 1 .. Len(c) : PaysOf(d, i) = PaysOf(c, i)
  BY <1>3 DEF PaysOf
<1>6. ASSUME NEW k \in 0 .. Len(c) PROVE TxsIn(d, k) = TxsIn(c, k)
  <2>1. \A i \in 1 .. k : d[i] = c[i]
    BY <1>2, <1>3
  <2> QED BY <2>1 DEF TxsIn
<1>7. d # <<>>
  BY <1>2
<1> QED BY <1>2, <1>3, <1>4, <1>5, <1>6, <1>7 DEF Longer

LEMMA MoreSent ==
    ASSUME NEW c, NEW N, GoodChain(c, N), NEW M, N \subseteq M, \A p \in M : IsTx(p)
    PROVE  GoodChain(c, M)
<1>1. \A i \in 1 .. Len(c) : BlockShape(c, M, i)
  BY DEF GoodChain, BlockShape
<1> QED BY <1>1 DEF GoodChain

LEMMA StillFounded ==
    ASSUME NEW c, NEW N, NEW a, Founded(c, N, a),
           NEW e, \A n \in Payers : a[n] \in Nat /\ e[n] \in Nat /\ a[n] <= e[n]
    PROVE  Founded(c, N, e)
<1>1. \A n \in Payers : TxsIn(c, a[n]) \subseteq TxsIn(c, e[n])
  BY TxsGrow
<1> QED BY <1>1 DEF Founded

\* The three parts of AddBlk.
NewUtxo(U, V, n, b) == V = [U EXCEPT ![n] = ApplyBlk(@, b)]
NewAt(a, e, n) == e = [a EXCEPT ![n] = @ + 1]
NewPool(Q, R, n, b) == R = [m \in Miners |->
    IF m # n THEN Q[m]
    ELSE {t \in Q[m] : \A k \in DOMAIN b.txs : TxHash(b.txs[k]) # TxHash(t)}]

\* AddBlk, for the unspent outputs, ...
LEMMA AddSees ==
    ASSUME NEW c, NEW N, NEW a, NEW U, GoodChain(c, N), Founded(c, N, a), Sees(c, a, U),
           a \in [Nodes -> 1 .. Len(c)], NEW n \in Nodes, a[n] + 1 <= Len(c),
           NEW b, Sent(b, c[a[n] + 1].txs),
           NEW V, NewUtxo(U, V, n, b), NEW e, NewAt(a, e, n)
    PROVE  Sees(c, e, V) /\ Founded(c, N, e) /\ e \in [Nodes -> 1 .. Len(c)]
<1>1. Len(c) \in Nat /\ a[n] \in Nat
  BY SeqFacts DEF GoodChain
<1>2. e \in [Nodes -> 1 .. Len(c)] /\ (\A m \in Nodes : m # n => e[m] = a[m]) /\ e[n] = a[n] + 1
  BY <1>1 DEF NewAt
<1>3. Founded(c, N, e)
  <2>1. \A m \in Payers : m \in Nodes
    BY DEF Payers
  <2>2. \A m \in Payers : a[m] \in Nat /\ e[m] \in Nat /\ a[m] <= e[m]
    BY <1>1, <1>2, <2>1
  <2> QED BY <2>2, StillFounded
<1>4. /\ V = [m \in Nodes |-> V[m]]
      /\ V[n] = ApplyBlk(U[n], b) /\ \A m \in Nodes : m # n => V[m] = U[m]
  BY DEF Sees, NewUtxo
<1>5. GoodUtxo(V[n], TxsIn(c, e[n]))
  <2>1. \A m \in Payers : a[m] \in 1 .. Len(c)
    BY DEF Payers
  <2>2. GoodUtxo(U[n], TxsIn(c, a[n]))
    BY DEF Sees
  <2> DEFINE i == a[n]
  <2>3. GoodUtxo(ApplyBlk(U[n], b), TxsIn(c, i + 1))
    <3>1. i \in Nat /\ i + 1 <= Len(c) /\ GoodUtxo(U[n], TxsIn(c, i)) /\ Sent(b, c[i + 1].txs)
      BY <1>1, <2>2
    <3> HIDE DEF i
    <3> QED BY <2>1, <3>1, BlkUtxo
  <2> QED BY <1>2, <1>4, <2>3
<1> QED BY <1>2, <1>3, <1>4, <1>5 DEF Sees

\* ... for the flags, ...
LEMMA AddFlagged ==
    ASSUME NEW c, NEW N, NEW a, NEW U, GoodChain(c, N), Founded(c, N, a), Sees(c, a, U),
           a \in [Nodes -> 1 .. Len(c)], NEW n \in Nodes, a[n] + 1 <= Len(c),
           NEW b, Sent(b, c[a[n] + 1].txs), Flagged(N, U),
           NEW V, NewUtxo(U, V, n, b)
    PROVE  Flagged(N, V)
<1> SUFFICES ASSUME NEW m \in Payers, NEW p \in N, NEW l \in Spends(p), l \in Free(V[m], m)
             PROVE  FALSE
  BY DEF Flagged
<1>1. m \in Nodes /\ Len(c) \in Nat /\ a[n] \in Nat
  BY SeqFacts DEF Payers, GoodChain
<1>2. /\ V = [x \in Nodes |-> V[x]]
      /\ V[n] = ApplyBlk(U[n], b) /\ \A x \in Nodes : x # n => V[x] = U[x]
  BY DEF Sees, NewUtxo
<1>3. m = n
  BY <1>1, <1>2 DEF Flagged
<1> DEFINE i == a[n]
           B == ToSet(c[i + 1].txs)
<1>4. After(V[n], U[n], B)
  <2>1. U[n] = [x \in DOMAIN U[n] |-> U[n][x]] /\ IsFiniteSet(DOMAIN U[n])
    BY DEF Sees, GoodUtxo
  <2>2. After(ApplyBlk(U[n], b), U[n], B)
    BY <2>1, AfterBlk
  <2> QED BY <1>2, <2>2
<1>5. l \in DOMAIN V[n] /\ V[n][l].pk = n /\ ~V[n][l].lim
  BY <1>3 DEF Free
<1> HIDE DEF B
<1>6. CASE FromU(V[n], U[n], B, l)
  <2>1. l \in Free(U[n], n)
    BY <1>5, <1>6 DEF FromU, Free
  <2> QED BY <1>3, <2>1 DEF Flagged
<1>7. CASE FromT(V[n], B, l)
  <2>1a. PICK v \in B : \E k \in DOMAIN v.outs :
           l = MkTXOLoc(TxHash(v), k) /\ V[n][l] = DeserializeOut(v.outs[k])
    BY <1>7 DEF FromT
  <2>1. PICK k \in DOMAIN v.outs : l = MkTXOLoc(TxHash(v), k) /\ V[n][l] = DeserializeOut(v.outs[k])
    BY <2>1a
  <2>2. v.outs[k].pk = n
    BY <1>5, <2>1 DEF DeserializeOut
  <2>3. PICK j \in DOMAIN p.ins : l = MkTXOLoc(p.ins[j].tx, p.ins[j].idx)
    BY DEF Spends
  <2>4. p.ins[j].tx = TxHash(v) /\ p.ins[j].idx = k
    BY <2>1, <2>3 DEF MkTXOLoc
  <2>5a. PICK x \in Payers : \E u \in TxsIn(c, a[x]) : Claims(x, p.ins[j], u)
    BY DEF Founded
  <2>5. PICK u \in TxsIn(c, a[x]) : Claims(x, p.ins[j], u)
    BY <2>5a
  <2>6. i + 1 \in 1 .. Len(c) /\ (i + 1) - 1 = i /\ a[x] \in Nat /\ a[x] <= Len(c)
    BY <1>1 DEF Payers
  <2>7. IsTx(u) /\ IsTx(v)
    <3>1. IsTx(u)
      BY <2>5, <2>6, TxsAreTxs
    <3>2. IsTx(v)
      BY <2>6, ChainTxs DEF ToSet, B
    <3> QED BY <3>1, <3>2
  <2>8. u = v
    <3>1. TxHash(u) = TxHash(v)
      BY <2>4, <2>5 DEF Claims
    <3> QED BY <2>7, <3>1, HashTells
  <2>9. x = n
    BY <2>2, <2>4, <2>5, <2>8 DEF Claims
  <2>10. v \in TxsIn(c, i) /\ v \in ToSet(c[i + 1].txs) /\ n \in Payers
    BY <2>1, <2>5, <2>8, <2>9, <1>3 DEF B
  <2> HIDE DEF i
  <2> QED BY <2>1, <2>2, <2>6, <2>10, Fresh
<1> QED BY <1>4, <1>5, <1>6, <1>7 DEF After

\* ... and for the pool.
LEMMA AddPooled ==
    ASSUME NEW c, NEW N, NEW a, GoodChain(c, N), a \in [Nodes -> 1 .. Len(c)],
           NEW n \in Nodes, a[n] + 1 <= Len(c), NEW b, Sent(b, c[a[n] + 1].txs),
           NEW e, NewAt(a, e, n), NEW Q, Pooled(c, N, a, Q), NEW R, NewPool(Q, R, n, b)
    PROVE  Pooled(c, N, e, R)
<1>1. R = [m \in Miners |-> R[m]] /\ Miners \subseteq Nodes /\ Len(c) \in Nat /\ a[n] \in Nat
  BY SeqFacts, PaymentAssumption DEF GoodChain, NewPool
<1> SUFFICES ASSUME NEW m \in Miners
             PROVE  IsFiniteSet(R[m]) /\ \A t \in R[m] : Waiting(c, N, e[m], t)
  BY <1>1 DEF Pooled
<1>2. IsFiniteSet(Q[m]) /\ \A t \in Q[m] : Waiting(c, N, a[m], t)
  BY DEF Pooled
<1>3. CASE m # n
  BY <1>1, <1>2, <1>3 DEF NewPool, NewAt
<1>4. CASE m = n
  <2>1. /\ R[m] \subseteq Q[m]
        /\ \A t \in R[m] : \A k \in DOMAIN b.txs : TxHash(b.txs[k]) # TxHash(t)
    BY <1>4 DEF NewPool
  <2>2. IsFiniteSet(R[m])
    BY <1>2, <2>1, FS_Subset
  <2> DEFINE i == a[n]
             P == c[i + 1].txs
  <2>3. e[m] = i + 1 /\ TxsIn(c, i + 1) = TxsIn(c, i) \cup ToSet(P) /\ TxsIn(c, i) \subseteq TxsIn(c, i + 1)
    BY <1>1, <1>4, TxsNext DEF NewAt
  <2>4. ASSUME NEW t \in R[m] PROVE Waiting(c, N, i + 1, t)
    <3>1. PICK p \in N : /\ t = Deserialize(p) /\ p.ins # <<>> /\ p \notin TxsIn(c, i)
                         /\ \A j \in DOMAIN p.ins : \E u \in TxsIn(c, i) : p.ins[j].tx = TxHash(u)
      <4>1. Waiting(c, N, i, t)
        BY <1>2, <1>4, <2>1
      <4> QED BY <4>1 DEF Waiting
    <3>2. ASSUME NEW k \in DOMAIN P, P[k] = p PROVE FALSE
      <4>1. b.txs = [x \in DOMAIN P |-> Deserialize(P[x])]
        BY DEF Sent, Map
      <4>2. k \in DOMAIN b.txs /\ b.txs[k] = Deserialize(P[k])
        BY <4>1
      <4>3. b.txs[k] = t
        BY <3>1, <3>2, <4>2
      <4> QED BY <2>1, <4>2, <4>3
    <3>3. p \notin TxsIn(c, i + 1)
      BY <2>3, <3>1, <3>2 DEF ToSet
    <3> QED BY <2>3, <3>1, <3>3 DEF Waiting
  <2> QED BY <2>2, <2>3, <2>4
<1> QED BY <1>3, <1>4
-----------------------------------------------------------------------------
(* The steps *)

LEMMA SentBlk ==
    ASSUME NEW c, NEW N, GoodChain(c, N), NEW i \in 1 .. Len(c)
    PROVE  Sent(DeserializeBlk(c[i]), c[i].txs)
<1>1. BlockShape(c, N, i) /\ \A k \in DOMAIN c[i].txs : IsTx(c[i].txs[k])
  BY ChainTxs DEF GoodChain
<1>2. DeserializeBlk(c[i]).txs = Map(Deserialize, c[i].txs)
  <2>1. c[i] = [hdr |-> c[i].hdr, txs |-> c[i].txs]
    BY <1>1 DEF BlockShape
  <2> QED BY <2>1 DEF DeserializeBlk
<1> QED BY <1>1, <1>2 DEF Sent, BlockShape

\* The genesis block.
LEMMA InitIInv == Init => IInv
<1> SUFFICES ASSUME Init PROVE IInv
  OBVIOUS
<1> DEFINE g == NewTx(<<>>, <<NewTxOutpt(InitSbsdy, GenPK)>>)
           c == <<GenesisBlock>>
           V == ApplyBlk(<<>>, DeserializeBlk(GenesisBlock))
<1>1. IsTx(g) /\ g.ins = <<>>
  <2>1. g.ins = <<>> /\ g.outs = <<NewTxOutpt(InitSbsdy, GenPK)>> /\ g = [lock |-> g.lock, ins |-> g.ins, outs |-> g.outs]
    BY DEF NewTx
  <2>2. IsOut(NewTxOutpt(InitSbsdy, GenPK))
    BY PaymentAssumption DEF NewTxOutpt, IsOut
  <2>3. IsSeq(<<>>) /\ IsSeq(<<NewTxOutpt(InitSbsdy, GenPK)>>)
    BY DEF IsSeq
  <2> HIDE DEF g
  <2> QED BY <2>1, <2>2, <2>3 DEF IsTx
<1>2. /\ GenesisBlock.txs = <<g>>
      /\ GenesisBlock = [hdr |-> GenesisBlock.hdr, txs |-> GenesisBlock.txs]
  BY DEF GenesisBlock
<1> HIDE DEF g
<1>3. chain = c /\ net = {} /\ IsSeq(c) /\ Len(c) = 1 /\ c # <<>> /\ c[1] = GenesisBlock
  BY DEF Init, IsSeq
<1>4. PaysOf(c, 1) = {}
  <2>1. Len(<<g>>) = 1 /\ 2 .. 1 = {}
    OBVIOUS
  <2> QED BY <1>2, <1>3, <2>1 DEF PaysOf
<1> HIDE DEF c
<1>5. GoodChain(c, {})
  <2>1. \A i \in 1 .. Len(c) : i = 1
    BY <1>3
  <2>2. IsSeq(<<g>>) /\ <<g>> # <<>> /\ <<g>>[1] = g
    BY DEF IsSeq
  <2>3. BlockShape(c, {}, 1)
    BY <1>1, <1>2, <1>3, <1>4, <2>2 DEF BlockShape
  <2>4. Once(c) /\ InOrder(c)
    BY <1>4, <2>1 DEF Once, InOrder
  <2> QED BY <1>3, <2>1, <2>3, <2>4 DEF GoodChain
<1>6. Counts
  BY <1>3 DEF Init, Counts
<1>7. Founded(c, {}, at)
  BY DEF Founded
<1>8. GoodUtxo(V, TxsIn(c, 1))
  <2>1. TxsIn(c, 0) = {}
    BY DEF TxsIn
  <2>2. GoodUtxo(<<>>, TxsIn(c, 0))
    <3>1. DOMAIN <<>> = {} /\ <<>> = [l \in DOMAIN <<>> |-> <<>>[l]] /\ IsFiniteSet({})
      BY FS_EmptySet
    <3> QED BY <2>1, <3>1 DEF GoodUtxo, Rooted, Spent, Kept
  <2>3. \A n \in Payers : at[n] \in 1 .. Len(c)
    BY <1>3, <1>6 DEF Counts, Payers
  <2>4. Sent(DeserializeBlk(GenesisBlock), c[0 + 1].txs)
    BY <1>3, <1>5, SentBlk
  <2>5. 0 + 1 <= Len(c)
    BY <1>3
  <2> QED BY <1>5, <1>7, <2>2, <2>3, <2>4, <2>5, BlkUtxo
<1>9. Sees(c, at, utxo)
  <2>1. utxo = [n \in Nodes |-> V] /\ at = [n \in Nodes |-> 1]
    BY DEF Init
  <2> HIDE DEF V
  <2> QED BY <1>8, <2>1 DEF Sees
<1>10. Apart({}) /\ Flagged({}, utxo)
  BY DEF Apart, Flagged
<1>11. Pooled(c, {}, at, pool) /\ Liminal({}, lmnl)
  BY FS_EmptySet DEF Init, Pooled, Liminal
<1> QED BY <1>3, <1>5, <1>6, <1>7, <1>9, <1>10, <1>11 DEF IInv

LEMMA ForwardBlockKeeps ==
    ASSUME IInv, NEW n \in Nodes, ForwardBlock(n)
    PROVE  IInv'
<1> DEFINE i == at[n] + 1
           b == DeserializeBlk(chain[i])
<1>1. UNCHANGED <<chain, told, net, todo, lmnl, dead>>
  BY DEF ForwardBlock
<1>2. CASE UNCHANGED <<utxo, at, pool>>
  BY <1>1, <1>2 DEF IInv, Counts
<1>3. CASE AddBlk(n, b)
  <2>1. /\ at \in [Nodes -> 1 .. Len(chain)] /\ at[n] \in Nat /\ at[n] + 1 <= Len(chain)
        /\ GoodChain(chain, net) /\ Founded(chain, net, at) /\ Sees(chain, at, utxo)
        /\ Flagged(net, utxo) /\ Pooled(chain, net, at, pool)
    BY DEF IInv, Counts, ForwardBlock
  <2>2. Sent(b, chain[at[n] + 1].txs)
    <3>1. i \in 1 .. Len(chain)
      <4>1. Len(chain) \in Nat
        BY <2>1, SeqFacts DEF GoodChain
      <4> QED BY <2>1, <4>1
    <3> QED BY <2>1, <3>1, SentBlk
  <2>3. NewUtxo(utxo, utxo', n, b) /\ NewAt(at, at', n) /\ NewPool(pool, pool', n, b)
    BY <1>3 DEF AddBlk, NewUtxo, NewAt, NewPool
  <2> HIDE DEF b
  <2>4. Sees(chain, at', utxo') /\ Founded(chain, net, at') /\ at' \in [Nodes -> 1 .. Len(chain)]
    BY <2>1, <2>2, <2>3, AddSees
  <2>5. Flagged(net, utxo')
    BY <2>1, <2>2, <2>3, AddFlagged
  <2>6. Pooled(chain, net, at', pool')
    BY <2>1, <2>2, <2>3, AddPooled
  <2> QED BY <1>1, <2>1, <2>4, <2>5, <2>6 DEF IInv, Counts
<1> QED BY <1>2, <1>3 DEF ForwardBlock

\* A payment that passes ChkTx has inputs, and spends outputs that the node
\* sees unspent.
LEMMA CheckedPays ==
    ASSUME NEW n \in Nodes, NEW p, IsTx(p), ChkTx(n, Deserialize(p))
    PROVE  p.ins # <<>> /\ Spends(p) \subseteq DOMAIN utxo[n]
<1> DEFINE t == Deserialize(p)
<1>1. t.ins = p.ins /\ t.outs = [k \in DOMAIN p.outs |-> DeserializeOut(p.outs[k])]
  BY SentAndBack
<1>2. SumOutputs(t) # 0 /\ SumOutputs(t) <= SumInputs(t)
  BY DEF ChkTx
<1>3. SumOutputs(t) \in Nat
  BY TxSums, PaymentAssumption
<1>4. p.ins # <<>>
  <2> SUFFICES ASSUME p.ins = <<>> PROVE FALSE
    OBVIOUS
  <2>1. SumInputs(t) = 0
    BY <1>1, NoAmt DEF SumInputs
  <2> HIDE DEF t
  <2> QED BY <1>2, <1>3, <2>1
<1>5. Spends(p) \subseteq DOMAIN utxo[n]
  BY <1>1 DEF Spends, ChkTx, GetUTXO
<1> QED BY <1>4, <1>5

LEMMA ForwardTransactionKeeps ==
    ASSUME IInv, NEW n \in Miners, NEW p \in net, ForwardTransaction(n, p)
    PROVE  IInv'
<1> DEFINE t == Deserialize(p)
           T == TxsIn(chain, at[n])
<1>1. UNCHANGED <<chain, at, utxo, told, net, todo, lmnl, dead>>
  BY DEF ForwardTransaction
<1>2. ChkTx(n, t) /\ n \in Nodes
  BY PaymentAssumption DEF ForwardTransaction
<1>3. IsTx(p) /\ GoodUtxo(utxo[n], T)
  BY <1>2 DEF IInv, GoodChain, Sees
<1>4. p.ins # <<>> /\ Spends(p) \subseteq DOMAIN utxo[n]
  BY <1>2, <1>3, CheckedPays
<1>5. \A j \in DOMAIN p.ins : MkTXOLoc(p.ins[j].tx, p.ins[j].idx) \in Spends(p)
  BY DEF Spends
<1>6. p \notin T
  <2>1. 1 \in DOMAIN p.ins
    BY <1>3, <1>4, SeqFacts DEF IsTx
  <2> QED BY <1>3, <1>4, <1>5, <2>1 DEF GoodUtxo, Spent
<1>7. ASSUME NEW j \in DOMAIN p.ins PROVE \E u \in T : p.ins[j].tx = TxHash(u)
  <2> DEFINE l == MkTXOLoc(p.ins[j].tx, p.ins[j].idx)
  <2>1. l \in DOMAIN utxo[n]
    BY <1>4, <1>5
  <2>2. PICK u \in T : \E k \in DOMAIN u.outs : l = MkTXOLoc(TxHash(u), k)
    <3> HIDE DEF l
    <3> QED BY <1>3, <2>1 DEF GoodUtxo, Rooted
  <2> QED BY <2>2 DEF MkTXOLoc
<1>8. Waiting(chain, net, at[n], t)
  BY <1>4, <1>6, <1>7 DEF Waiting
<1>9. Pooled(chain, net, at, pool')
  <2>1. Pooled(chain, net, at, pool)
    BY DEF IInv
  <2>2. \/ pool' = [pool EXCEPT ![n] = @ \cup {t}]
        \/ pool' = [pool EXCEPT ![n] = @]
    BY DEF ForwardTransaction
  <2>3. pool' = [m \in Miners |-> pool'[m]]
    BY <2>1, <2>2 DEF Pooled
  <2>4. \A m \in Miners : m # n => pool'[m] = pool[m]
    BY <2>1, <2>2 DEF Pooled
  <2>5. pool'[n] = pool[n] \cup {t} \/ pool'[n] = pool[n]
    <3> HIDE DEF t
    <3> QED BY <2>1, <2>2 DEF Pooled
  <2>6. IsFiniteSet(pool[n]) /\ IsFiniteSet(pool[n] \cup {t})
    BY <2>1, FS_AddElement DEF Pooled
  <2> HIDE DEF t
  <2> QED BY <1>8, <2>1, <2>3, <2>4, <2>5, <2>6 DEF Pooled
<1> QED BY <1>1, <1>9 DEF IInv, Counts

\* A version of a payment changes nothing.
LEMMA VersionsKeep ==
    ASSUME NEW c, NEW N, NEW a, NEW U, GoodChain(c, N), Founded(c, N, a), Apart(N), Flagged(N, U),
           NEW M, N \subseteq M, \A q \in M : IsTx(q) /\ \E p \in N : q.ins = p.ins
    PROVE  GoodChain(c, M) /\ Founded(c, M, a) /\ Apart(M) /\ Flagged(M, U)
<1>1. GoodChain(c, M)
  BY MoreSent
<1>2. Founded(c, M, a)
  BY DEF Founded
<1>3. \A p, q : p.ins = q.ins => Spends(p) = Spends(q)
  BY DEF Spends
<1>4. Apart(M)
  <2> SUFFICES ASSUME NEW p \in M, NEW q \in M, Spends(p) \cap Spends(q) # {} PROVE p.ins = q.ins
    BY DEF Apart
  <2>1. PICK x \in N : p.ins = x.ins
    OBVIOUS
  <2>2. PICK y \in N : q.ins = y.ins
    OBVIOUS
  <2>3. Spends(x) = Spends(p) /\ Spends(y) = Spends(q)
    BY <1>3, <2>1, <2>2
  <2> QED BY <2>1, <2>2, <2>3 DEF Apart
<1>5. Flagged(M, U)
  BY <1>3 DEF Flagged
<1> QED BY <1>1, <1>2, <1>4, <1>5

LEMMA AgainIs ==
    ASSUME NEW p, IsTx(p)
    PROVE  \E q : /\ IsTx(q) /\ q.ins = p.ins /\ q.outs = p.outs
                  /\ Again(Deserialize(p)) = Deserialize(q) /\ Serialize(Again(Deserialize(p))) = q
<1> DEFINE q == [lock |-> (p.lock + 1) % Word, ins |-> p.ins, outs |-> p.outs]
<1>1. q.ins = p.ins /\ q.outs = p.outs /\ q.lock = (p.lock + 1) % Word
      /\ q = [lock |-> q.lock, ins |-> q.ins, outs |-> q.outs]
  OBVIOUS
<1>2. Again(Deserialize(p)) = Deserialize(q)
  BY DEF Again, Deserialize
<1> HIDE DEF q
<1>3. IsTx(q)
  BY <1>1 DEF IsTx
<1>4. Serialize(Deserialize(q)) = q
  BY <1>3, SentAndBack
<1> QED BY <1>1, <1>2, <1>3, <1>4

LEMMA HndlBlkKeeps ==
    ASSUME IInv, NEW n \in Payers, HndlBlk(n)
    PROVE  IInv'
<1> DEFINE i == told[n] + 1
           b == DeserializeBlk(chain[i])
           kept  == {y \in lmnl[n] : \A k \in DOMAIN b.txs : TxHash(b.txs[k]) # TxHash(y.T)}
           older == {[x EXCEPT !.P = @ + 1] : x \in kept}
           old   == {Again(x.T) : x \in {y \in older : y.P >= TxRplyThresh}}
           M == net \cup {Serialize(t) : t \in old}
<1>1. /\ UNCHANGED <<chain, at, utxo, pool, todo, dead>>
      /\ i <= at[n] - SafeBlkAmt + 1 /\ told' = [told EXCEPT ![n] = i] /\ net' = M
      /\ lmnl' = [lmnl EXCEPT ![n] = {y \in older : y.P < TxRplyThresh}
                                       \cup {[T |-> t, P |-> 0] : t \in old}]
  BY DEF HndlBlk
<1> HIDE DEF b
<1>2. Counts'
  <2>1. n \in Nodes /\ at[n] \in 1 .. Len(chain) /\ told[n] \in 0 .. Len(chain) /\ Len(chain) \in Nat
    BY SeqFacts DEF IInv, Counts, Payers, GoodChain
  <2>2. i \in 0 .. Len(chain)
    <3>1. SafeBlkAmt \in Nat /\ SafeBlkAmt >= 2 /\ i <= at[n] - SafeBlkAmt + 1
      BY <1>1, PaymentAssumption
    <3> QED BY <2>1, <3>1
  <2> QED BY <1>1, <2>2 DEF IInv, Counts
<1>3. ASSUME NEW x \in older
      PROVE  /\ x = [T |-> x.T, P |-> x.P]
             /\ \E p \in net : x.T = Deserialize(p)
  <2>1. PICK y \in lmnl[n] : x = [y EXCEPT !.P = @ + 1]
    OBVIOUS
  <2>2. y = [T |-> y.T, P |-> y.P] /\ \E p \in net : y.T = Deserialize(p)
    BY DEF IInv, Liminal
  <2>3. x = [T |-> y.T, P |-> y.P + 1]
    BY <2>1, <2>2
  <2> QED BY <2>2, <2>3
<1> HIDE DEF older
<1>4. ASSUME NEW t \in old
      PROVE  \E q \in M : IsTx(q) /\ t = Deserialize(q) /\ Serialize(t) = q /\ \E p \in net : q.ins = p.ins
  <2>1. PICK x \in older : t = Again(x.T)
    OBVIOUS
  <2>2. PICK p \in net : x.T = Deserialize(p)
    BY <1>3
  <2>3. IsTx(p)
    BY DEF IInv, GoodChain
  <2>4. PICK q : /\ IsTx(q) /\ q.ins = p.ins
                 /\ Again(Deserialize(p)) = Deserialize(q) /\ Serialize(Again(Deserialize(p))) = q
    BY <2>3, AgainIs
  <2>5. t = Deserialize(q) /\ Serialize(t) = q
    BY <2>1, <2>2, <2>4
  <2> QED BY <2>4, <2>5
<1> HIDE DEF old
<1>5. net \subseteq M /\ \A q \in M : IsTx(q) /\ \E p \in net : q.ins = p.ins
  BY <1>4 DEF IInv, GoodChain
<1>6. GoodChain(chain, M) /\ Founded(chain, M, at) /\ Apart(M) /\ Flagged(M, utxo)
  <2> HIDE DEF M
  <2> QED BY <1>5, VersionsKeep DEF IInv
<1>7. Pooled(chain, M, at, pool)
  <2>1. Pooled(chain, net, at, pool)
    BY DEF IInv
  <2> HIDE DEF M
  <2> QED BY <1>5, <2>1 DEF Pooled, Waiting
<1>8. Liminal(M, lmnl')
  <2> DEFINE new == {y \in older : y.P < TxRplyThresh} \cup {[T |-> t, P |-> 0] : t \in old}
  <2>1. Liminal(net, lmnl)
    BY DEF IInv
  <2>2. /\ lmnl' = [m \in Payers |-> lmnl'[m]]
        /\ lmnl'[n] = new /\ \A m \in Payers : m # n => lmnl'[m] = lmnl[m]
    <3> HIDE DEF new
    <3> QED BY <1>1, <2>1 DEF Liminal, new
  <2>3. ASSUME NEW x \in new PROVE x = [T |-> x.T, P |-> x.P] /\ \E p \in M : x.T = Deserialize(p)
    <3>1. CASE x \in older
      BY <1>3, <1>5, <3>1
    <3>2. CASE \E t \in old : x = [T |-> t, P |-> 0]
      <4>1. PICK t \in old : x = [T |-> t, P |-> 0]
        BY <3>2
      <4>2. x.T = t /\ x = [T |-> x.T, P |-> x.P]
        BY <4>1
      <4> HIDE DEF M
      <4> QED BY <1>4, <4>2
    <3> QED BY <3>1, <3>2
  <2> HIDE DEF M, new
  <2> QED BY <1>5, <2>1, <2>2, <2>3 DEF Liminal
<1> HIDE DEF M
<1> QED BY <1>1, <1>2, <1>6, <1>7, <1>8 DEF IInv

\* SetLiminal leaves the outputs as they are, and takes them from the wallet.
LEMMA SetLiminalKeeps ==
    ASSUME NEW U, NEW T, GoodUtxo(U, T), NEW S,
           NEW V, V = [l \in DOMAIN U |-> IF l \in S THEN [U[l] EXCEPT !.lim = TRUE] ELSE U[l]]
    PROVE  GoodUtxo(V, T) /\ \A n : Free(V, n) = Free(U, n) \ S
<1>1. DOMAIN V = DOMAIN U /\ V = [l \in DOMAIN V |-> V[l]]
  OBVIOUS
<1>2. ASSUME NEW l \in DOMAIN U
      PROVE  /\ V[l].amt = U[l].amt /\ V[l].pk = U[l].pk
             /\ V[l] = [amt |-> U[l].amt, pk |-> U[l].pk, lim |-> V[l].lim]
             /\ V[l].lim \in BOOLEAN /\ (V[l].lim <=> l \in S \/ U[l].lim)
             /\ U[l] = [amt |-> U[l].amt, pk |-> U[l].pk, lim |-> U[l].lim]
  <2>1. U[l] = [amt |-> U[l].amt, pk |-> U[l].pk, lim |-> U[l].lim] /\ U[l].lim \in BOOLEAN
    BY DEF GoodUtxo, Rooted
  <2>2. CASE l \in S
    <3>1. V[l] = [U[l] EXCEPT !.lim = TRUE]
      BY <2>2
    <3>2. V[l] = [amt |-> U[l].amt, pk |-> U[l].pk, lim |-> TRUE]
      BY <2>1, <3>1
    <3> QED BY <2>1, <2>2, <3>2
  <2>3. CASE l \notin S
    <3>1. V[l] = U[l]
      BY <2>3
    <3> QED BY <2>1, <2>3, <3>1
  <2> QED BY <2>2, <2>3
<1>3. Rooted(V, T)
  <2> SUFFICES ASSUME NEW l \in DOMAIN V
               PROVE  \E u \in T : \E k \in DOMAIN u.outs :
                        /\ l = MkTXOLoc(TxHash(u), k)
                        /\ V[l].lim \in BOOLEAN
                        /\ V[l] = [amt |-> u.outs[k].amt, pk |-> u.outs[k].pk, lim |-> V[l].lim]
    BY DEF Rooted
  <2>1a. PICK u \in T : \E k \in DOMAIN u.outs :
           /\ l = MkTXOLoc(TxHash(u), k)
           /\ U[l] = [amt |-> u.outs[k].amt, pk |-> u.outs[k].pk, lim |-> U[l].lim]
    BY <1>1 DEF GoodUtxo, Rooted
  <2>1. PICK k \in DOMAIN u.outs :
          /\ l = MkTXOLoc(TxHash(u), k)
          /\ U[l] = [amt |-> u.outs[k].amt, pk |-> u.outs[k].pk, lim |-> U[l].lim]
    BY <2>1a
  <2>2. U[l].amt = u.outs[k].amt /\ U[l].pk = u.outs[k].pk
    BY <2>1
  <2>3. V[l] = [amt |-> u.outs[k].amt, pk |-> u.outs[k].pk, lim |-> V[l].lim] /\ V[l].lim \in BOOLEAN
    BY <1>1, <1>2, <2>2
  <2> QED BY <2>1, <2>3
<1>4. Spent(V, T) /\ Kept(V, T) /\ IsFiniteSet(DOMAIN V)
  BY <1>1 DEF GoodUtxo, Spent, Kept
<1>5. \A n : Free(V, n) = Free(U, n) \ S
  BY <1>1, <1>2 DEF Free
<1> QED BY <1>1, <1>3, <1>4, <1>5 DEF GoodUtxo

LEMMA FlagsSet ==
    ASSUME IInv, NEW n \in Payers, NEW S, SetLiminal(n, S)
    PROVE  /\ Sees(chain, at, utxo')
           /\ Free(utxo'[n], n) = Free(utxo[n], n) \ S
           /\ \A m \in Payers : m # n => utxo'[m] = utxo[m]
           /\ Flagged(net, utxo')
<1>1. n \in Nodes /\ Payers \subseteq Nodes /\ Sees(chain, at, utxo)
  BY DEF Payers, IInv
<1> DEFINE V == [l \in DOMAIN utxo[n] |->
                   IF l \in S THEN [utxo[n][l] EXCEPT !.lim = TRUE] ELSE utxo[n][l]]
<1>2. utxo' = [utxo EXCEPT ![n] = V]
  BY DEF SetLiminal
<1>3. GoodUtxo(utxo[n], TxsIn(chain, at[n]))
  BY <1>1 DEF Sees
<1>4. GoodUtxo(V, TxsIn(chain, at[n])) /\ \A m : Free(V, m) = Free(utxo[n], m) \ S
  BY <1>3, SetLiminalKeeps
<1> HIDE DEF V
<1>5. /\ utxo' = [m \in Nodes |-> utxo'[m]] /\ utxo'[n] = V
      /\ \A m \in Nodes : m # n => utxo'[m] = utxo[m]
  BY <1>1, <1>2 DEF Sees
<1>6. Flagged(net, utxo')
  <2>1. Flagged(net, utxo)
    BY DEF IInv
  <2>2. \A m \in Payers : Free(utxo'[m], m) \subseteq Free(utxo[m], m)
    BY <1>1, <1>4, <1>5
  <2> QED BY <2>1, <2>2 DEF Flagged
<1>7. Sees(chain, at, utxo')
  BY <1>1, <1>4, <1>5 DEF Sees
<1> QED BY <1>1, <1>4, <1>5, <1>6, <1>7

LEMMA HndlTxReqFailsKeeps ==
    ASSUME IInv, NEW r \in Requests, HndlTxReqFails(r)
    PROVE  IInv'
<1>1. r.from \in Payers
  BY PaymentAssumption
<1>2. SetLiminal(r.from, Spendable(r.from)) /\ UNCHANGED <<chain, at, pool, lmnl, told, net, dead>>
      /\ todo' = todo \ {r}
  BY DEF HndlTxReqFails
<1>3. Sees(chain, at, utxo') /\ Flagged(net, utxo')
  BY <1>1, <1>2, FlagsSet
<1> QED BY <1>2, <1>3 DEF IInv, Counts

\* The input that the wallet of n makes for one of its outputs.
InputFor(n, l) == [tx |-> l[1], idx |-> l[2], sig |-> Sign(n, OutHash(utxo[n][l])), amt |-> utxo[n][l].amt]

LEMMA InputClaims ==
    ASSUME IInv, NEW n \in Payers, NEW l \in Spendable(n)
    PROVE  /\ IsIn(InputFor(n, l)) /\ MkTXOLoc(InputFor(n, l).tx, InputFor(n, l).idx) = l
           /\ \E u \in TxsIn(chain, at[n]) : Claims(n, InputFor(n, l), u)
<1> DEFINE o == utxo[n][l]
           T == TxsIn(chain, at[n])
<1>1. n \in Nodes /\ l \in DOMAIN utxo[n] /\ o.pk = n
  BY DEF Payers, Spendable
<1>2. GoodUtxo(utxo[n], T) /\ GoodChain(chain, net) /\ at[n] \in 1 .. Len(chain)
  BY <1>1 DEF IInv, Sees, Counts
<1>3a. PICK u \in T : \E k \in DOMAIN u.outs :
         /\ l = MkTXOLoc(TxHash(u), k)
         /\ o = [amt |-> u.outs[k].amt, pk |-> u.outs[k].pk, lim |-> o.lim]
  BY <1>1, <1>2 DEF GoodUtxo, Rooted
<1>3. PICK k \in DOMAIN u.outs : /\ l = MkTXOLoc(TxHash(u), k)
                                 /\ o = [amt |-> u.outs[k].amt, pk |-> u.outs[k].pk, lim |-> o.lim]
  BY <1>3a
<1>4. IsTx(u)
  <2>1. Len(chain) \in Nat
    BY <1>2, SeqFacts DEF GoodChain
  <2> QED BY <1>2, <2>1, TxsAreTxs
<1>5. IsOut(u.outs[k]) /\ o.amt = u.outs[k].amt /\ u.outs[k].pk = n
  BY <1>1, <1>3, <1>4 DEF IsTx
<1>6. u.outs[k] = [amt |-> o.amt, pk |-> n] /\ o.amt \in 0 .. Word - 1
  BY <1>5 DEF IsOut
<1>7. OutHash(o) = OutHash(u.outs[k])
  BY <1>1, <1>5 DEF OutHash
<1>8. l[1] = TxHash(u) /\ l[2] = k
  BY <1>3 DEF MkTXOLoc
<1> DEFINE in == InputFor(n, l)
<1>9. /\ in.tx = TxHash(u) /\ in.idx = k /\ in.amt = o.amt /\ in.sig = Sign(n, OutHash(o))
      /\ in = [tx |-> in.tx, idx |-> in.idx, sig |-> in.sig, amt |-> in.amt]
  BY <1>8 DEF InputFor
<1> HIDE DEF in, o
<1>10. IsIn(in) /\ MkTXOLoc(in.tx, in.idx) = l
  BY <1>3, <1>6, <1>9 DEF IsIn
<1>11. Claims(n, in, u)
  BY <1>3, <1>6, <1>7, <1>9 DEF Claims
<1> QED BY <1>10, <1>11 DEF in

LEMMA CollectedIs ==
    ASSUME IInv, NEW n \in Payers, NEW S \in SUBSET Spendable(n)
    PROVE  /\ IsFiniteSet(S) /\ (\A l \in S : Amts(n)[l] = utxo[n][l].amt /\ Amts(n)[l] \in 0 .. Word - 1)
           /\ SumFunctionOnSet(Amts(n), S) \in Int
           /\ Collected(n, S) \in 0 .. Word - 1
<1>1. n \in Nodes /\ S \subseteq DOMAIN utxo[n]
  BY DEF Payers, Spendable
<1>2. IsFiniteSet(S)
  <2>1. IsFiniteSet(DOMAIN utxo[n])
    BY <1>1 DEF IInv, Sees, GoodUtxo
  <2> QED BY <1>1, <2>1, FS_Subset
<1>3. ASSUME NEW l \in S PROVE Amts(n)[l] = utxo[n][l].amt /\ Amts(n)[l] \in 0 .. Word - 1
  <2>1. IsIn(InputFor(n, l)) /\ InputFor(n, l).amt = utxo[n][l].amt
    BY InputClaims DEF InputFor
  <2> QED BY <1>1, <2>1 DEF Amts, IsIn
<1>4. SumFunctionOnSet(Amts(n), S) \in Int
  <2>1. \A l \in S : Amts(n)[l] \in Int
    BY <1>3, PaymentAssumption
  <2> QED BY <1>2, <2>1, SumTakeOut
<1>5. Collected(n, S) \in 0 .. Word - 1
  <2>1. Word \in Nat \ {0}
    BY PaymentAssumption
  <2> QED BY <1>4, <2>1, ModRange DEF Collected
<1> QED BY <1>2, <1>3, <1>4, <1>5

\* What MkTx sends of the outputs S.
ChangeOf(r, S) == (Collected(r.from, S) - Needed(r)) % Word
MadeOf(q, r, S) ==
    /\ IsTx(q) /\ MkTx(r, S) = Deserialize(q)
    /\ q.ins = [k \in DOMAIN SetToSeq(S) |-> InputFor(r.from, SetToSeq(S)[k])]
    /\ q.outs = <<NewTxOutpt(r.amt, r.to)>> \o
                (IF ChangeOf(r, S) > 0 THEN <<NewTxOutpt(ChangeOf(r, S), r.from)>> ELSE <<>>)

LEMMA MkTxMakes ==
    ASSUME IInv, NEW r \in Requests, NEW S \in SUBSET Spendable(r.from)
    PROVE  \E q : MadeOf(q, r, S)
<1> DEFINE n == r.from
           s == SetToSeq(S)
           ins == [k \in DOMAIN s |-> InputFor(n, s[k])]
           outs == <<NewTxOutpt(r.amt, r.to)>> \o
                   (IF ChangeOf(r, S) > 0 THEN <<NewTxOutpt(ChangeOf(r, S), n)>> ELSE <<>>)
           q == NewTx(ins, outs)
<1>1. /\ n \in Payers /\ r.to \in Nodes /\ r.amt \in 0 .. Word - 1 /\ r.fee \in 0 .. Word - 1
      /\ Word \in Nat \ {0} /\ n \in Nodes
  BY PaymentAssumption DEF Payers
<1>2. IsFiniteSet(S) /\ Collected(n, S) \in 0 .. Word - 1
  BY <1>1, CollectedIs
<1>3. IsSeq(s) /\ \A k \in DOMAIN s : s[k] \in S
  BY <1>2, Listing
<1>4. MkTx(r, S) = Deserialize(q)
  BY DEF MkTx, Map, PrsTXOLoc, NewTxInpt, MkSig, InputFor, ChangeOf
<1>5. q = [lock |-> 0, ins |-> ins, outs |-> outs]
  BY DEF NewTx
<1>6. IsSeq(ins) /\ \A k \in DOMAIN ins : IsIn(ins[k])
  <2>1. DOMAIN ins = DOMAIN s /\ \A k \in DOMAIN s : ins[k] = InputFor(n, s[k])
    OBVIOUS
  <2>2. IsSeq(ins)
    <3>1. ins = [k \in DOMAIN s |-> ins[k]]
      OBVIOUS
    <3> HIDE DEF s, ins
    <3> QED BY <1>3, <3>1, MadeSeq
  <2>3. \A k \in DOMAIN s : s[k] \in Spendable(n)
    BY <1>3
  <2> HIDE DEF ins, s, n
  <2> QED BY <1>1, <2>1, <2>2, <2>3, InputClaims
<1>7. ChangeOf(r, S) \in 0 .. Word - 1
  <2>1. Needed(r) \in 0 .. Word - 1
    <3>1. r.amt + r.fee \in Int
      BY <1>1
    <3> QED BY <1>1, <3>1, ModRange DEF Needed
  <2>2. Collected(n, S) - Needed(r) \in Int
    BY <1>1, <1>2, <2>1
  <2> QED BY <1>1, <2>2, ModRange DEF ChangeOf
<1>8. IsSeq(outs) /\ \A k \in DOMAIN outs : IsOut(outs[k])
  <2> DEFINE o1 == NewTxOutpt(r.amt, r.to)
             o2 == NewTxOutpt(ChangeOf(r, S), n)
  <2>1. IsOut(o1) /\ IsOut(o2)
    BY <1>1, <1>7 DEF IsOut, NewTxOutpt
  <2>2. outs = <<o1>> \o <<o2>> \/ outs = <<o1>> \o <<>>
    OBVIOUS
  <2> HIDE DEF o1, o2, outs
  <2>3. (\A k \in 1 .. 2 : k = 1 \/ k = 2) /\ \A k \in 1 .. 1 : k = 1
    OBVIOUS
  <2>4. CASE outs = <<o1>> \o <<o2>>
    <3>1. IsSeq(outs) /\ DOMAIN outs = 1 .. 2 /\ outs[1] = o1 /\ outs[2] = o2
      BY <2>4, InARow
    <3> QED BY <2>1, <2>3, <3>1
  <2>5. CASE outs = <<o1>> \o <<>>
    <3>1. IsSeq(outs) /\ DOMAIN outs = 1 .. 1 /\ outs[1] = o1
      BY <2>5, InARow
    <3> QED BY <2>1, <2>3, <3>1
  <2> QED BY <2>2, <2>4, <2>5
<1> HIDE DEF ins, outs
<1>9. /\ q.ins = ins /\ q.outs = outs
      /\ q = [lock |-> q.lock, ins |-> q.ins, outs |-> q.outs]
  BY <1>5
<1>10. IsTx(q)
  <2> HIDE DEF q
  <2> QED BY <1>6, <1>8, <1>9 DEF IsTx
<1> QED BY <1>4, <1>9, <1>10 DEF MadeOf, ins, outs

LEMMA MadeSpends ==
    ASSUME IInv, NEW r \in Requests, NEW S \in SUBSET Spendable(r.from), NEW q, MadeOf(q, r, S)
    PROVE  /\ Spends(q) = S
           /\ \A k \in DOMAIN q.ins : \E u \in TxsIn(chain, at[r.from]) : Claims(r.from, q.ins[k], u)
<1> DEFINE n == r.from
           s == SetToSeq(S)
<1>1. n \in Payers
  BY PaymentAssumption
<1>2. IsFiniteSet(S)
  BY <1>1, CollectedIs
<1>3. /\ \A k \in DOMAIN s : s[k] \in S /\ s[k] \in Spendable(n)
      /\ \A x \in S : \E k \in DOMAIN s : s[k] = x
  BY <1>2, Listing
<1>4. DOMAIN q.ins = DOMAIN s /\ \A k \in DOMAIN s : q.ins[k] = InputFor(n, s[k])
  BY DEF MadeOf
<1> HIDE DEF n, s
<1>5. \A k \in DOMAIN s : /\ MkTXOLoc(q.ins[k].tx, q.ins[k].idx) = s[k]
                          /\ \E u \in TxsIn(chain, at[n]) : Claims(n, q.ins[k], u)
  BY <1>1, <1>3, <1>4, InputClaims
<1>6. Spends(q) = S
  BY <1>3, <1>4, <1>5 DEF Spends
<1> QED BY <1>4, <1>5, <1>6 DEF n

\* Two nodes that have an output unspent agree on whom it pays.
LEMMA SameOwner ==
    ASSUME IInv, NEW n \in Payers, NEW m \in Payers, NEW l \in Spendable(n), l \in Free(utxo[m], m)
    PROVE  m = n
<1>0. l \in Spendable(m)
  BY DEF Free, Spendable
<1>1. PICK u \in TxsIn(chain, at[n]) : Claims(n, InputFor(n, l), u)
  BY InputClaims
<1>2. PICK v \in TxsIn(chain, at[m]) : Claims(m, InputFor(m, l), v)
  BY <1>0, InputClaims
<1>3. IsTx(u) /\ IsTx(v)
  <2>1. /\ Len(chain) \in Nat /\ GoodChain(chain, net)
        /\ at[n] \in 1 .. Len(chain) /\ at[m] \in 1 .. Len(chain)
    BY SeqFacts DEF IInv, GoodChain, Counts, Payers
  <2> QED BY <2>1, TxsAreTxs
<1>4. TxHash(u) = l[1] /\ TxHash(v) = l[1] /\ u.outs[l[2]].pk = n /\ v.outs[l[2]].pk = m
  BY <1>1, <1>2 DEF Claims, InputFor
<1>5. u = v
  BY <1>3, <1>4, HashTells
<1> QED BY <1>4, <1>5

LEMMA HndlTxReqKeeps ==
    ASSUME IInv, NEW r \in Requests, HndlTxReq(r)
    PROVE  IInv'
<1> DEFINE n == r.from
<1>1. n \in Payers
  BY PaymentAssumption
<1>2. PICK S \in Collections(n, Needed(r)) :
        /\ SetLiminal(n, S)
        /\ lmnl' = [lmnl EXCEPT ![n] = @ \cup {[T |-> MkTx(r, S), P |-> 0]}]
        /\ net' = net \cup {Serialize(MkTx(r, S))}
  BY DEF HndlTxReq
<1>3. UNCHANGED <<chain, at, pool, told, dead>> /\ todo' = todo \ {r}
  BY DEF HndlTxReq
<1>4. S \in SUBSET Spendable(n)
  BY DEF Collections
<1>5. PICK q : MadeOf(q, r, S)
  BY <1>4, MkTxMakes
<1>6. /\ Spends(q) = S
      /\ \A k \in DOMAIN q.ins : \E u \in TxsIn(chain, at[n]) : Claims(n, q.ins[k], u)
  BY <1>4, <1>5, MadeSpends
<1>7. IsTx(q) /\ MkTx(r, S) = Deserialize(q)
  BY <1>5 DEF MadeOf
<1> DEFINE M == net \cup {q}
<1>8. net' = M /\ lmnl' = [lmnl EXCEPT ![n] = @ \cup {[T |-> Deserialize(q), P |-> 0]}]
  <2>1. Serialize(Deserialize(q)) = q
    BY <1>7, SentAndBack
  <2> QED BY <1>2, <1>7, <2>1
<1>9. /\ Sees(chain, at, utxo') /\ Flagged(net, utxo')
      /\ Free(utxo'[n], n) = Free(utxo[n], n) \ S
      /\ \A m \in Payers : m # n => utxo'[m] = utxo[m]
  BY <1>1, <1>2, FlagsSet
<1> HIDE DEF n
<1>10. GoodChain(chain, M)
  BY <1>7, MoreSent DEF IInv, GoodChain
<1>11. Founded(chain, M, at)
  BY <1>1, <1>6 DEF IInv, Founded
<1>12. Apart(M)
  <2>1. S \subseteq Free(utxo[n], n)
    BY <1>4 DEF Free, Spendable
  <2>2. \A p \in net : Spends(p) \cap Spends(q) = {}
    BY <1>1, <1>6, <2>1 DEF IInv, Flagged
  <2> QED BY <2>2 DEF IInv, Apart
<1>13. Flagged(M, utxo')
  <2>1. ASSUME NEW m \in Payers PROVE Spends(q) \cap Free(utxo'[m], m) = {}
    <3>1. CASE m = n
      BY <1>6, <1>9, <3>1
    <3>2. CASE m # n
      BY <1>1, <1>4, <1>6, <1>9, <3>2, SameOwner
    <3> QED BY <3>1, <3>2
  <2> QED BY <1>9, <2>1 DEF Flagged
<1>14. Pooled(chain, M, at, pool)
  <2>1. Pooled(chain, net, at, pool) /\ net \subseteq M
    BY DEF IInv
  <2> HIDE DEF M
  <2> QED BY <2>1 DEF Pooled, Waiting
<1>15. Liminal(M, lmnl')
  <2> DEFINE x == [T |-> Deserialize(q), P |-> 0]
  <2>1. Liminal(net, lmnl) /\ net \subseteq M /\ q \in M
    BY DEF IInv
  <2>2. x = [T |-> x.T, P |-> x.P] /\ x.T = Deserialize(q)
    OBVIOUS
  <2> HIDE DEF M, x
  <2>3. /\ lmnl' = [m \in Payers |-> lmnl'[m]] /\ lmnl'[n] = lmnl[n] \cup {x}
        /\ \A m \in Payers : m # n => lmnl'[m] = lmnl[m]
    BY <1>1, <1>8, <2>1 DEF Liminal, x
  <2> QED BY <1>1, <2>1, <2>2, <2>3 DEF Liminal
<1> HIDE DEF M
<1> QED BY <1>3, <1>8, <1>9, <1>10, <1>11, <1>12, <1>13, <1>14, <1>15 DEF IInv, Counts

\* The reward of a block is an amount.
LEMMA RewardIs ==
    ASSUME NEW len \in Nat
    PROVE  Halvings(len) \in Nat /\ Reward(len) \in 0 .. InitSubsdy
<1>1. Halvings(len) \in Nat
  <2>1. SubsdyHlvRt \in Nat \ {0} /\ MxHlvgs \in Nat
    BY PaymentAssumption
  <2>2. len \div SubsdyHlvRt \in Int /\ len \div SubsdyHlvRt >= 0
    BY <2>1
  <2> QED BY <2>1, <2>2 DEF Halvings
<1> DEFINE h == Halvings(len)
           s == [i \in 1 .. h |-> i]
<1>2. s \in Seq(Nat) /\ Len(s) = h
  <2> HIDE DEF h
  <2> QED BY <1>1 DEF h
<1>3. PICK g : Half!LeftRounds(g, s, InitSubsdy)
  <2> HIDE DEF s
  <2> QED BY <1>2, Half!FoldLeftRounds
<1>4. Reward(len) = Half!LeftFold(s, InitSubsdy)
  BY DEF Reward, FoldLeft, MapThenFoldSet, Max, Halve,
         Half!LeftFold, Half!FoldLeft, Half!MapThenFoldSet, Half!Max
<1> HIDE DEF s, h
<1>5. /\ g[0] = InitSubsdy /\ Reward(len) = g[h] /\ \A i \in 1 .. h : g[i] = g[i - 1] \div 2
  BY <1>2, <1>3, <1>4 DEF Half!LeftRounds, Halve
<1>6. InitSubsdy \in Nat /\ h \in Nat
  BY <1>1, PaymentAssumption DEF h
<1> DEFINE W == {i \in Nat : i <= h => g[i] \in 0 .. InitSubsdy}
<1>7. 0 \in W
  BY <1>5, <1>6
<1>8. ASSUME NEW i \in Nat, i \in W PROVE i + 1 \in W
  <2> SUFFICES ASSUME i + 1 <= h PROVE g[i + 1] \in 0 .. InitSubsdy
    OBVIOUS
  <2>1. i + 1 \in 1 .. h /\ (i + 1) - 1 = i /\ g[i] \in 0 .. InitSubsdy
    BY <1>6, <1>8
  <2>2. g[i + 1] = g[i] \div 2
    BY <1>5, <2>1
  <2>3. \A x \in 0 .. InitSubsdy : x \div 2 \in 0 .. InitSubsdy
    BY <1>6
  <2> QED BY <2>1, <2>2, <2>3
<1>9. Nat \subseteq W
  <2> HIDE DEF W
  <2> QED BY <1>7, <1>8, Loop!SetInduction
<1> QED BY <1>1, <1>5, <1>6, <1>9

\* The fees that GenCBTx adds up.
FeesOf(txs) == FoldLeft(LAMBDA sum, t : (sum + Fee(t)) % Word, 0, txs)

LEMMA FeesAre ==
    ASSUME NEW s, IsSeq(s), NEW f, \A k \in DOMAIN s : Fee(s[k]) \in Int /\ f[k] = Fee(s[k])
    PROVE  /\ FeesOf(s) = SumFunctionOnSet(f, 1 .. Len(s)) % Word
           /\ FeesOf(s) \in 0 .. Word - 1
<1> DEFINE X == {s[k] : k \in DOMAIN s}
<1>1. s \in Seq(X) /\ Len(s) \in Nat /\ DOMAIN s = 1 .. Len(s)
  BY SeqFacts DEF IsSeq
<1>2. PICK g : Fees!LeftRounds(g, s, 0)
  <2> HIDE DEF X
  <2> QED BY <1>1, Fees!FoldLeftRounds
<1>3. FeesOf(s) = Fees!LeftFold(s, 0)
  BY DEF FeesOf, FoldLeft, MapThenFoldSet, Max, AddFee,
         Fees!LeftFold, Fees!FoldLeft, Fees!MapThenFoldSet, Fees!Max
<1>4. g[0] = 0 /\ FeesOf(s) = g[Len(s)]
  BY <1>2, <1>3 DEF Fees!LeftRounds
<1>5. \A i \in 1 .. Len(s) : f[i] \in Int /\ g[i] = (g[i - 1] + f[i]) % Word
  BY <1>1, <1>2 DEF Fees!LeftRounds, AddFee
<1> DEFINE n == Len(s)
<1>6. n \in Nat /\ g[0] = 0 /\ \A i \in 1 .. n : f[i] \in Int /\ g[i] = (g[i - 1] + f[i]) % Word
  BY <1>1, <1>4, <1>5
<1>7. g[n] = SumFunctionOnSet(f, 1 .. n) % Word /\ g[n] \in 0 .. Word - 1
  <2> HIDE DEF n
  <2> QED BY <1>6, WrapUp
<1> QED BY <1>4, <1>7

\* The block that a miner makes of the transactions S has P as what is sent.
MinedOf(P, n, S, b) ==
    /\ IsSeq(P) /\ Sent(b, P) /\ Len(P) = Cardinality(S) + 1
    /\ SerializeBlk(b) = [hdr |-> b.hdr, txs |-> P]
    /\ P[1] = NewTx(<<>>, <<NewTxOutpt((FeesOf(SetToSeq(S)) + Reward(at[n])) % Word, n)>>)
    /\ IsTx(P[1])
    /\ \A k \in 1 .. Cardinality(S) : /\ SetToSeq(S)[k] = Deserialize(P[k + 1])
                                      /\ P[k + 1] = Serialize(SetToSeq(S)[k])
                                      /\ P[k + 1] \in net

LEMMA CoinbaseIs ==
    ASSUME IInv, NEW n \in Miners, NEW S \in SUBSET pool[n]
    PROVE  LET amt == (FeesOf(SetToSeq(S)) + Reward(at[n])) % Word
               q   == NewTx(<<>>, <<NewTxOutpt(amt, n)>>)
           IN  IsTx(q) /\ GenCBTx(n, SetToSeq(S)) = Deserialize(q) /\ amt \in 0 .. Word - 1
<1> DEFINE s == SetToSeq(S)
           amt == (FeesOf(s) + Reward(at[n])) % Word
           q == NewTx(<<>>, <<NewTxOutpt(amt, n)>>)
<1>1. n \in Nodes /\ at[n] \in Nat /\ Word \in Nat \ {0} /\ InitSubsdy \in Nat
  BY PaymentAssumption DEF IInv, Counts
<1>2. IsFiniteSet(S)
  BY FS_Subset DEF IInv, Pooled
<1>3. IsSeq(s) /\ \A k \in DOMAIN s : s[k] \in S
  BY <1>2, Listing
<1>4. \A k \in DOMAIN s : Fee(s[k]) \in Int
  <2> SUFFICES ASSUME NEW t \in S PROVE Fee(t) \in Int
    BY <1>3
  <2>1. PICK p \in net : t = Deserialize(p)
    BY DEF IInv, Pooled, Waiting
  <2>2. IsTx(p)
    BY DEF IInv, GoodChain
  <2>3. SumInputs(t) \in 0 .. Word - 1 /\ SumOutputs(t) \in 0 .. Word - 1
    BY <2>1, <2>2, TxSums
  <2>4. SumInputs(t) - SumOutputs(t) \in Int
    BY <1>1, <2>3
  <2> QED BY <1>1, <2>4, ModRange DEF Fee
<1>5. FeesOf(s) \in 0 .. Word - 1
  <2> DEFINE f == [k \in DOMAIN s |-> Fee(s[k])]
  <2>1. \A k \in DOMAIN s : Fee(s[k]) \in Int /\ f[k] = Fee(s[k])
    BY <1>4
  <2> HIDE DEF f, s
  <2> QED BY <1>3, <2>1, FeesAre
<1>6. amt \in 0 .. Word - 1
  <2>1. Reward(at[n]) \in 0 .. InitSubsdy
    BY <1>1, RewardIs
  <2>2. FeesOf(s) + Reward(at[n]) \in Int
    BY <1>1, <1>5, <2>1
  <2> QED BY <1>1, <2>2, ModRange
<1>7. GenCBTx(n, s) = Deserialize(q)
  BY DEF GenCBTx, FeesOf
<1> HIDE DEF amt
<1>8. IsTx(q)
  <2>1. /\ q.ins = <<>> /\ q.outs = <<NewTxOutpt(amt, n)>>
        /\ q = [lock |-> q.lock, ins |-> q.ins, outs |-> q.outs]
    BY DEF NewTx
  <2>2. IsOut(NewTxOutpt(amt, n))
    BY <1>1, <1>6 DEF NewTxOutpt, IsOut
  <2>3. IsSeq(<<>>) /\ IsSeq(<<NewTxOutpt(amt, n)>>)
    BY DEF IsSeq
  <2> HIDE DEF q
  <2> QED BY <2>1, <2>2, <2>3 DEF IsTx
<1> QED BY <1>6, <1>7, <1>8 DEF amt

LEMMA MinedIs ==
    ASSUME IInv, NEW n \in Miners, NEW S \in SUBSET pool[n], NEW h, NEW d, NEW i, NEW b,
           b = NewBlk(h, <<GenCBTx(n, SetToSeq(S))>> \o SetToSeq(S), d)
    PROVE  \E P : MinedOf(P, n, S, [b EXCEPT !.hdr.nonce = i])
<1> DEFINE s == SetToSeq(S)
           q == NewTx(<<>>, <<NewTxOutpt((FeesOf(s) + Reward(at[n])) % Word, n)>>)
           all == <<GenCBTx(n, s)>> \o s
           P == Map(Serialize, all)
           c == [b EXCEPT !.hdr.nonce = i]
<1>1. IsTx(q) /\ GenCBTx(n, s) = Deserialize(q)
  BY CoinbaseIs
<1>2. IsFiniteSet(S)
  BY FS_Subset DEF IInv, Pooled
<1>3. IsSeq(s) /\ Len(s) = Cardinality(S) /\ Len(s) \in Nat /\ DOMAIN s = 1 .. Len(s)
      /\ \A k \in DOMAIN s : s[k] \in S
  BY <1>2, Listing, SeqFacts
<1> HIDE DEF s, q
<1>4. /\ IsSeq(all) /\ Len(all) = Len(s) + 1 /\ DOMAIN all = 1 .. Len(s) + 1
      /\ all[1] = GenCBTx(n, s) /\ \A k \in 1 .. Len(s) : all[k + 1] = s[k]
  <2> DEFINE x == GenCBTx(n, s)
             X == {s[k] : k \in DOMAIN s} \cup {x}
  <2>1. s \in Seq(X) /\ <<x>> \in Seq(X) /\ Len(<<x>>) = 1 /\ <<x>>[1] = x
    <3>1. s \in Seq({s[k] : k \in DOMAIN s})
      BY <1>3 DEF IsSeq
    <3> QED BY <3>1
  <2> HIDE DEF x, X
  <2>2. <<x>> \o s \in Seq(X) /\ Len(<<x>> \o s) = Len(s) + 1 /\ (<<x>> \o s)[1] = x
    BY <1>3, <2>1
  <2>3. \A k \in 1 .. Len(s) : (<<x>> \o s)[k + 1] = s[k]
    BY <1>3, <2>1
  <2>4. IsSeq(<<x>> \o s) /\ DOMAIN (<<x>> \o s) = 1 .. Len(s) + 1
    BY <2>2, AnySeq, SeqFacts
  <2> QED BY <2>2, <2>3, <2>4 DEF x
<1> HIDE DEF all
<1>5. /\ P = [k \in DOMAIN all |-> P[k]] /\ \A k \in DOMAIN all : P[k] = Serialize(all[k])
  BY DEF Map
<1>6. IsSeq(P) /\ Len(P) = Len(s) + 1 /\ DOMAIN P = 1 .. Len(s) + 1
  <2> HIDE DEF P
  <2> QED BY <1>4, <1>5, MadeSeq
<1>7. P[1] = q
  <2>1. Serialize(Deserialize(q)) = q
    BY <1>1, SentAndBack
  <2>2. 1 \in DOMAIN all
    BY <1>3, <1>4
  <2> HIDE DEF P
  <2> QED BY <1>1, <1>4, <1>5, <2>1, <2>2
<1>8. ASSUME NEW k \in 1 .. Len(s)
      PROVE  s[k] = Deserialize(P[k + 1]) /\ P[k + 1] = Serialize(s[k]) /\ P[k + 1] \in net /\ IsTx(P[k + 1])
  <2>1. s[k] \in pool[n] /\ k + 1 \in DOMAIN all
    BY <1>3, <1>4
  <2>2. PICK p \in net : s[k] = Deserialize(p)
    BY <2>1 DEF IInv, Pooled, Waiting
  <2>3. IsTx(p)
    BY DEF IInv, GoodChain
  <2>4. Serialize(Deserialize(p)) = p
    BY <2>3, SentAndBack
  <2>5. P[k + 1] = p /\ P[k + 1] = Serialize(s[k])
    <3> HIDE DEF P
    <3> QED BY <1>4, <1>5, <2>1, <2>2, <2>4
  <2> HIDE DEF P
  <2> QED BY <2>2, <2>3, <2>5
<1>9. \A k \in DOMAIN P : IsTx(P[k])
  <2>1. \A k \in 1 .. Len(s) + 1 : k = 1 \/ \E j \in 1 .. Len(s) : k = j + 1
    <3> SUFFICES ASSUME NEW k \in 1 .. Len(s) + 1, k # 1 PROVE \E j \in 1 .. Len(s) : k = j + 1
      OBVIOUS
    <3>1. k - 1 \in 1 .. Len(s) /\ k = (k - 1) + 1
      BY <1>3
    <3> QED BY <3>1
  <2> HIDE DEF P
  <2> QED BY <1>1, <1>6, <1>7, <1>8, <2>1
<1>10. /\ c = [hdr |-> c.hdr, txs |-> Map(Deserialize, P)]
       /\ c.txs = Map(Deserialize, P)
  <2> DEFINE H == Header(h, CalcMrklRt(all), d)
             D == Map(Deserialize, P)
  <2>1. b = [hdr |-> H, txs |-> D]
    BY DEF NewBlk, DeserializeBlk, all, s
  <2> HIDE DEF H, D
  <2>2. c = [hdr |-> [H EXCEPT !.nonce = i], txs |-> D]
    BY <2>1
  <2> QED BY <2>2 DEF D
<1> HIDE DEF c
<1>11. Sent(c, P)
  BY <1>6, <1>9, <1>10 DEF Sent
<1>12. SerializeBlk(c) = [hdr |-> c.hdr, txs |-> P]
  <2>1. SerializeBlk(c) = [hdr |-> c.hdr, txs |-> Map(Serialize, Map(Deserialize, P))]
    BY <1>10 DEF SerializeBlk
  <2>2. Map(Serialize, Map(Deserialize, P)) = [k \in DOMAIN P |-> Serialize(Deserialize(P[k]))]
    BY DEF Map
  <2>3. \A k \in DOMAIN P : Serialize(Deserialize(P[k])) = P[k]
    BY <1>9, SentAndBack
  <2>4. P = [k \in DOMAIN P |-> P[k]]
    BY <1>6, SeqFacts
  <2> HIDE DEF P
  <2> QED BY <2>1, <2>2, <2>3, <2>4
<1> HIDE DEF P
<1> QED BY <1>1, <1>3, <1>6, <1>7, <1>8, <1>11, <1>12 DEF MinedOf, s, q, c

\* The chain with the new block.
LEMMA MinedChain ==
    ASSUME IInv, NEW n \in Miners, at[n] = Len(chain), NEW S \in SUBSET pool[n], S # {},
           NEW b, NEW P, MinedOf(P, n, S, b), NEW d, d = Append(chain, SerializeBlk(b))
    PROVE  GoodChain(d, net)
<1> DEFINE L == Len(chain)
           m == Cardinality(S)
<1>1. IsSeq(chain) /\ GoodChain(chain, net)
  BY DEF IInv, GoodChain
<1>2. /\ IsSeq(d) /\ d # <<>> /\ L \in Nat /\ Len(d) = L + 1
      /\ \A i \in 1 .. L : d[i] = chain[i] /\ PaysOf(d, i) = PaysOf(chain, i)
      /\ d[L + 1] = SerializeBlk(b)
      /\ \A k \in 0 .. L : TxsIn(d, k) = TxsIn(chain, k)
  <2>1. Longer(d, chain, SerializeBlk(b))
    BY <1>1, LongerChain
  <2> QED BY <2>1 DEF Longer
<1>3. d[L + 1] = [hdr |-> b.hdr, txs |-> P] /\ d[L + 1].txs = P
  BY <1>2 DEF MinedOf
<1>4. IsFiniteSet(S) /\ m \in Nat /\ Len(P) = m + 1 /\ IsSeq(P) /\ DOMAIN P = 1 .. m + 1
  <2>1. IsFiniteSet(S)
    BY FS_Subset DEF IInv, Pooled
  <2> QED BY <2>1, FS_CardinalityType, SeqFacts DEF MinedOf
<1>5. ASSUME NEW t \in PaysOf(d, L + 1)
      PROVE  /\ t \in net /\ t.ins # <<>> /\ t \notin TxsIn(chain, L)
             /\ \A j \in DOMAIN t.ins : \E u \in TxsIn(chain, L) : t.ins[j].tx = TxHash(u)
  <2>1. PICK k \in 2 .. m + 1 : t = P[k]
    BY <1>3, <1>4 DEF PaysOf
  <2> DEFINE j == k - 1
             x == SetToSeq(S)[j]
  <2>2. j \in 1 .. m /\ k = j + 1
    BY <1>4
  <2>3. x = Deserialize(t) /\ t = Serialize(x) /\ t \in net
    BY <2>1, <2>2 DEF MinedOf
  <2>4. x \in pool[n]
    <3>1. j \in DOMAIN SetToSeq(S)
      BY <1>4, <2>2, Listing, SeqFacts
    <3> QED BY <1>4, <3>1, Listing
  <2> HIDE DEF x
  <2>5. Waiting(chain, net, L, x)
    BY <2>4 DEF IInv, Pooled
  <2>6. PICK p \in net :
          /\ x = Deserialize(p) /\ p.ins # <<>> /\ p \notin TxsIn(chain, L)
          /\ \A y \in DOMAIN p.ins : \E u \in TxsIn(chain, L) : p.ins[y].tx = TxHash(u)
    BY <2>5 DEF Waiting
  <2>7. p = t
    BY <1>1, <2>3, <2>6, SentAndBack DEF GoodChain
  <2> QED BY <2>6, <2>7
<1> HIDE DEF L
<1>6. BlockShape(d, net, L + 1)
  <2>1. P # <<>> /\ P[1].ins = <<>> /\ IsTx(P[1]) /\ Len(P[1].outs) = 1 /\ P[1].outs[1].pk = n
    BY <1>4 DEF MinedOf, NewTx, NewTxOutpt
  <2> QED BY <1>3, <1>4, <1>5, <2>1 DEF BlockShape
<1>7. \A i \in 1 .. Len(d) : i \in 1 .. L \/ i = L + 1
  BY <1>2
<1>8. \A i \in 1 .. Len(d) : BlockShape(d, net, i)
  <2>1. \A i \in 1 .. L : BlockShape(d, net, i)
    BY <1>1, <1>2 DEF GoodChain, BlockShape, L
  <2> QED BY <1>6, <1>7, <2>1
<1>9. Once(d)
  <2>1. ASSUME NEW i \in 1 .. L, NEW t, t \in PaysOf(d, L + 1), t \in PaysOf(d, i) PROVE FALSE
    <3>1. t \in PaysOf(chain, i)
      BY <1>2, <2>1
    <3>2. t \in TxsIn(chain, L)
      <4>1. BlockShape(chain, net, i)
        BY <1>1 DEF GoodChain, L
      <4>2. \E k \in DOMAIN chain[i].txs : t = chain[i].txs[k]
        BY <3>1, <4>1, SeqFacts DEF PaysOf, BlockShape
      <4> QED BY <4>2, InTxs
    <3> QED BY <1>5, <2>1, <3>2
  <2>2. ASSUME NEW i \in 1 .. L, NEW j \in 1 .. L, PaysOf(d, i) \cap PaysOf(d, j) # {} PROVE i = j
    BY <1>1, <1>2, <2>2 DEF GoodChain, Once, L
  <2> QED BY <1>7, <2>1, <2>2 DEF Once
<1>10. InOrder(d)
  <2>1. ASSUME NEW i \in 1 .. L, NEW t \in PaysOf(d, i), NEW k \in DOMAIN t.ins
        PROVE  \E u \in TxsIn(d, i - 1) : t.ins[k].tx = TxHash(u)
    <3>1. TxsIn(d, i - 1) = TxsIn(chain, i - 1)
      BY <1>2
    <3> QED BY <1>1, <1>2, <3>1 DEF GoodChain, InOrder, L
  <2>2. TxsIn(d, (L + 1) - 1) = TxsIn(chain, L)
    BY <1>2
  <2> QED BY <1>5, <1>7, <2>1, <2>2 DEF InOrder
<1> QED BY <1>1, <1>2, <1>8, <1>9, <1>10 DEF GoodChain

LEMMA MineKeeps ==
    ASSUME IInv, NEW n \in Miners, Mine(n)
    PROVE  IInv'
<1>1. at[n] = Len(chain) /\ UNCHANGED <<lmnl, told, net, todo, dead>> /\ n \in Nodes /\ n \notin Payers
  BY PaymentAssumption DEF Mine, Payers
<1>2. PICK S \in MiningPools(n) \ {{}} :
        LET txs == SetToSeq(S)
            b   == NewBlk(BlkHash(chain[at[n]]), <<GenCBTx(n, txs)>> \o txs, InitPOWD)
        IN  \E i \in CalcNonce(b) :
               LET mined == [b EXCEPT !.hdr.nonce = i]
               IN  AddBlk(n, mined) /\ chain' = Append(chain, SerializeBlk(mined))
  BY DEF Mine
<1> DEFINE bb == NewBlk(BlkHash(chain[at[n]]), <<GenCBTx(n, SetToSeq(S))>> \o SetToSeq(S), InitPOWD)
<1>3. PICK i \in CalcNonce(bb) :
        AddBlk(n, [bb EXCEPT !.hdr.nonce = i])
        /\ chain' = Append(chain, SerializeBlk([bb EXCEPT !.hdr.nonce = i]))
  BY <1>2
<1>4. S \in SUBSET pool[n] /\ S # {}
  BY DEF MiningPools
<1> DEFINE b == [bb EXCEPT !.hdr.nonce = i]
<1>5. PICK P : MinedOf(P, n, S, b)
  BY <1>4, MinedIs
<1> HIDE DEF bb, b
<1>6. AddBlk(n, b) /\ chain' = Append(chain, SerializeBlk(b))
  BY <1>3 DEF b
<1>7. PICK d : d = chain'
  OBVIOUS
<1>8. GoodChain(d, net)
  BY <1>1, <1>4, <1>5, <1>6, <1>7, MinedChain
<1> DEFINE L == Len(chain)
<1>9. /\ L \in Nat /\ Len(d) = L + 1 /\ d[L + 1] = SerializeBlk(b)
      /\ \A k \in 0 .. L : TxsIn(d, k) = TxsIn(chain, k)
  <2>1. Longer(d, chain, SerializeBlk(b))
    BY <1>6, <1>7, LongerChain DEF IInv, GoodChain
  <2> QED BY <2>1 DEF Longer
<1>10. at \in [Nodes -> 1 .. Len(d)] /\ at[n] + 1 <= Len(d) /\ \A m \in Nodes : TxsIn(d, at[m]) = TxsIn(chain, at[m])
  <2>1. at \in [Nodes -> 1 .. L]
    BY DEF IInv, Counts
  <2>2. 1 .. L \subseteq 1 .. Len(d) /\ 1 .. L \subseteq 0 .. L /\ L + 1 <= Len(d)
    BY <1>9
  <2> HIDE DEF L
  <2> QED BY <1>1, <1>9, <2>1, <2>2 DEF L
<1>11. Sent(b, d[at[n] + 1].txs)
  BY <1>1, <1>5, <1>9 DEF MinedOf
<1>12. Founded(d, net, at) /\ Sees(d, at, utxo) /\ Pooled(d, net, at, pool) /\ Flagged(net, utxo)
  <2>1. Founded(chain, net, at) /\ Sees(chain, at, utxo) /\ Pooled(chain, net, at, pool) /\ Flagged(net, utxo)
    BY DEF IInv
  <2>2. Payers \subseteq Nodes /\ Miners \subseteq Nodes
    BY PaymentAssumption DEF Payers
  <2>3. Founded(d, net, at)
    BY <1>10, <2>1, <2>2 DEF Founded
  <2>4. Sees(d, at, utxo)
    BY <1>10, <2>1, <2>2 DEF Sees
  <2>5. Pooled(d, net, at, pool)
    BY <1>10, <2>1, <2>2 DEF Pooled, Waiting
  <2> QED BY <2>1, <2>3, <2>4, <2>5
<1>13. NewUtxo(utxo, utxo', n, b) /\ NewAt(at, at', n) /\ NewPool(pool, pool', n, b)
  BY <1>6 DEF AddBlk, NewUtxo, NewAt, NewPool
<1>14. Sees(d, at', utxo') /\ Founded(d, net, at') /\ at' \in [Nodes -> 1 .. Len(d)]
  BY <1>1, <1>8, <1>10, <1>11, <1>12, <1>13, AddSees
<1>15. Flagged(net, utxo')
  BY <1>1, <1>8, <1>10, <1>11, <1>12, <1>13, AddFlagged
<1>16. Pooled(d, net, at', pool')
  BY <1>1, <1>8, <1>10, <1>11, <1>12, <1>13, AddPooled
<1>17. told \in [Payers -> 0 .. Len(d)]
  <2>1. told \in [Payers -> 0 .. L] /\ 0 .. L \subseteq 0 .. Len(d)
    BY <1>9 DEF IInv, Counts
  <2> QED BY <2>1
<1> QED BY <1>1, <1>7, <1>8, <1>14, <1>15, <1>16, <1>17 DEF IInv, Counts

LEMMA NextIInv == IInv /\ [Next]_payVars => IInv'
<1> SUFFICES ASSUME IInv, [Next]_payVars PROVE IInv'
  OBVIOUS
<1>1. CASE UNCHANGED payVars
  BY <1>1 DEF payVars, IInv, Counts
<1>2. ASSUME NEW r \in Requests, SendTx(r) PROVE IInv'
  BY <1>2, HndlTxReqKeeps, HndlTxReqFailsKeeps DEF SendTx
<1>3. ASSUME NEW n \in Payers, HndlBlk(n) PROVE IInv'
  BY <1>3, HndlBlkKeeps
<1>4. ASSUME NEW n \in Nodes, ForwardBlock(n) PROVE IInv'
  BY <1>4, ForwardBlockKeeps
<1>5. ASSUME NEW n \in Miners, Mine(n) PROVE IInv'
  BY <1>5, MineKeeps
<1>6. ASSUME NEW n \in Miners, MineNothing(n) PROVE IInv'
  BY <1>6 DEF MineNothing, IInv, Counts
<1>7. ASSUME NEW n \in Miners, NEW p \in net, ForwardTransaction(n, p) PROVE IInv'
  BY <1>7, ForwardTransactionKeeps
<1> QED BY <1>1, <1>2, <1>3, <1>4, <1>5, <1>6, <1>7 DEF Next
-----------------------------------------------------------------------------
(* Theorems *)

\* The invariant holds.
LEMMA Invariance == Spec => []IInv
<1>1. Init => IInv
  BY InitIInv
<1>2. IInv /\ [Next]_payVars => IInv'
  BY NextIInv
<1> QED BY <1>1, <1>2, PTL DEF Spec

\* The objects, counters and outputs have their types, and every node sees
\* every unspent output as the transaction that made it has it.
THEOREM PaymentTypes == Spec => []TypeOK
<1>1. ASSUME IInv PROVE TypeOK
  <2>1. ASSUME NEW n \in Nodes, NEW l \in DOMAIN utxo[n]
        PROVE  /\ utxo[n][l] \in [amt : 0 .. Word - 1, pk : Nodes \cup {GenPK}, lim : BOOLEAN]
               /\ \E t \in TxsOf(at[n]) : l[1] = TxHash(t) /\ SerializeOut(utxo[n][l]) = t.outs[l[2]]
    <3> DEFINE T == TxsIn(chain, at[n])
               o == utxo[n][l]
    <3>1a. PICK u \in T : \E k \in DOMAIN u.outs :
             /\ l = MkTXOLoc(TxHash(u), k) /\ o.lim \in BOOLEAN
             /\ o = [amt |-> u.outs[k].amt, pk |-> u.outs[k].pk, lim |-> o.lim]
      BY <1>1 DEF IInv, Sees, GoodUtxo, Rooted
    <3>1. PICK k \in DOMAIN u.outs :
            /\ l = MkTXOLoc(TxHash(u), k) /\ o.lim \in BOOLEAN
            /\ o = [amt |-> u.outs[k].amt, pk |-> u.outs[k].pk, lim |-> o.lim]
      BY <3>1a
    <3>2. IsTx(u)
      <4>1. Len(chain) \in Nat /\ GoodChain(chain, net) /\ at[n] \in 1 .. Len(chain)
        BY <1>1, SeqFacts DEF IInv, GoodChain, Counts
      <4> QED BY <4>1, TxsAreTxs
    <3>3. IsOut(u.outs[k])
      BY <3>2 DEF IsTx
    <3> HIDE DEF o
    <3>4. o \in [amt : 0 .. Word - 1, pk : Nodes \cup {GenPK}, lim : BOOLEAN]
      BY <3>1, <3>3 DEF IsOut
    <3>5. l[1] = TxHash(u) /\ l[2] = k
      BY <3>1 DEF MkTXOLoc
    <3>6. SerializeOut(o) = u.outs[k]
      BY <3>1, <3>3 DEF IsOut, SerializeOut
    <3>7. u \in TxsOf(at[n])
      BY DEF TxsOf, TxsIn
    <3> QED BY <3>4, <3>5, <3>6, <3>7 DEF o
  <2> QED BY <1>1, <2>1 DEF TypeOK, IInv, Counts
<1> QED BY <1>1, Invariance, PTL

\* The output an input names.
Loc(in) == MkTXOLoc(in.tx, in.idx)

\* On a chain an output is spent again only by another version of the payment
\* that spent it.
LEMMA SpentOnce ==
    ASSUME NEW c, NEW N, GoodChain(c, N), Apart(N),
           NEW s \in TxsIn(c, Len(c)), NEW t \in TxsIn(c, Len(c)), Spends(s) \cap Spends(t) # {}
    PROVE  s.ins = t.ins /\ s.ins # <<>> /\ s \in N /\ t \in N
<1>1. ASSUME NEW x \in TxsIn(c, Len(c)), Spends(x) # {} PROVE x \in N /\ x.ins # <<>>
  <2>1a. PICK i \in 1 .. Len(c) : \E j \in DOMAIN c[i].txs : x = c[i].txs[j]
    BY InTxs
  <2>1. PICK j \in DOMAIN c[i].txs : x = c[i].txs[j]
    BY <2>1a
  <2>2. x.ins # <<>>
    BY <1>1 DEF Spends
  <2> QED BY <2>1, <2>2, ChainTxs
<1>2. s \in N /\ t \in N /\ s.ins # <<>>
  BY <1>1
<1> QED BY <1>2 DEF Apart

\* A payment of a block was sent.
LEMMA PayInBlock ==
    ASSUME NEW c, NEW N, GoodChain(c, N), NEW i \in 1 .. Len(c), NEW t \in PaysOf(c, i)
    PROVE  t \in TxsIn(c, Len(c)) /\ t \in ToSet(c[i].txs) /\ t \in N /\ IsTx(t) /\ t.ins # <<>>
<1>1. BlockShape(c, N, i)
  BY DEF GoodChain
<1>2. \E j \in DOMAIN c[i].txs : t = c[i].txs[j]
  BY <1>1, SeqFacts DEF PaysOf, BlockShape
<1>3. t \in TxsIn(c, Len(c)) /\ t \in ToSet(c[i].txs)
  BY <1>2, InTxs DEF ToSet
<1> QED BY <1>1, <1>3 DEF BlockShape, GoodChain

\* An input of a payment of the next block names an unspent output and its
\* amount, or the chain has another version of the payment.
LEMMA NextInput ==
    ASSUME NEW c, NEW N, NEW a, GoodChain(c, N), Founded(c, N, a), Apart(N),
           \A n \in Payers : a[n] \in 1 .. Len(c),
           NEW i \in Nat, i + 1 <= Len(c), NEW U, GoodUtxo(U, TxsIn(c, i)),
           NEW t \in PaysOf(c, i + 1), ~ \E s \in TxsIn(c, i) : Versions(s, t),
           NEW k \in DOMAIN t.ins
    PROVE  Loc(t.ins[k]) \in DOMAIN U /\ U[Loc(t.ins[k])].amt = t.ins[k].amt
<1> DEFINE T == TxsIn(c, i)
           in == t.ins[k]
           l == Loc(in)
<1>1. Len(c) \in Nat /\ i + 1 \in 1 .. Len(c) /\ (i + 1) - 1 = i
  BY SeqFacts DEF GoodChain
<1>2. t \in N /\ t.ins # <<>> /\ IsTx(t) /\ t \in TxsIn(c, Len(c))
  BY <1>1, PayInBlock
<1>3. l = MkTXOLoc(in.tx, in.idx) /\ l \in Spends(t)
  BY DEF Spends, Loc
<1>4. PICK u \in T : in.tx = TxHash(u)
  BY <1>1 DEF GoodChain, InOrder
<1>5a. PICK m \in Payers : \E w \in TxsIn(c, a[m]) : Claims(m, in, w)
  BY <1>2 DEF Founded
<1>5. PICK w \in TxsIn(c, a[m]) : Claims(m, in, w)
  BY <1>5a
<1> HIDE DEF in, l, T
<1>6. IsTx(u) /\ IsTx(w)
  <2>1. a[m] \in 1 .. Len(c) /\ i <= Len(c)
    BY <1>1
  <2>2. a[m] \in Nat /\ a[m] <= Len(c)
    BY <1>1, <2>1
  <2> QED BY <1>1, <2>1, <2>2, TxsAreTxs DEF T
<1>7. w = u
  BY <1>4, <1>5, <1>6, HashTells DEF Claims
<1>8. l \in Creates(u) /\ in.idx \in DOMAIN u.outs /\ u.outs[in.idx].amt = in.amt
  BY <1>3, <1>4, <1>5, <1>7 DEF Creates, Claims
<1>9. l \in DOMAIN U \/ \E s \in T : l \in Spends(s)
  BY <1>8 DEF GoodUtxo, Kept, T
<1>10. ASSUME NEW s \in T, l \in Spends(s) PROVE FALSE
  <2>1. s \in TxsIn(c, Len(c))
    <3>1. i <= Len(c)
      BY <1>1
    <3> QED BY <1>1, <3>1, TxsGrow DEF T
  <2>2. s.ins = t.ins /\ s.ins # <<>>
    BY <1>2, <1>3, <1>10, <2>1, SpentOnce
  <2>3. s # t
    <3>1a. PICK j \in 1 .. i : \E x \in DOMAIN c[j].txs : s = c[j].txs[x]
      BY InTxs DEF T
    <3>1. PICK x \in DOMAIN c[j].txs : s = c[j].txs[x]
      BY <3>1a
    <3>2. j \in 1 .. Len(c) /\ j # i + 1
      BY <1>1
    <3>3. s \in PaysOf(c, j)
      BY <1>1, <2>2, <3>1, <3>2, ChainTxs
    <3> DEFINE i1 == i + 1
    <3>4. i1 \in 1 .. Len(c) /\ t \in PaysOf(c, i1) /\ j # i1
      BY <1>1, <3>2
    <3> HIDE DEF i1
    <3> QED BY <3>2, <3>3, <3>4 DEF GoodChain, Once
  <2> QED BY <2>2, <2>3 DEF Versions, T
<1>11. l \in DOMAIN U
  BY <1>9, <1>10
<1>12. U[l].amt = in.amt
  <2>1a. PICK v \in T : \E j \in DOMAIN v.outs :
           /\ l = MkTXOLoc(TxHash(v), j)
           /\ U[l] = [amt |-> v.outs[j].amt, pk |-> v.outs[j].pk, lim |-> U[l].lim]
    BY <1>11 DEF GoodUtxo, Rooted, T
  <2>1. PICK j \in DOMAIN v.outs :
          /\ l = MkTXOLoc(TxHash(v), j)
          /\ U[l] = [amt |-> v.outs[j].amt, pk |-> v.outs[j].pk, lim |-> U[l].lim]
    BY <2>1a
  <2>2. TxHash(v) = TxHash(u) /\ j = in.idx
    BY <1>3, <1>4, <2>1 DEF MkTXOLoc
  <2>3. IsTx(v)
    <3>1. i <= Len(c)
      BY <1>1
    <3> QED BY <3>1, TxsAreTxs DEF T
  <2>4. v = u
    BY <1>6, <2>2, <2>3, HashTells
  <2> QED BY <1>8, <2>1, <2>2, <2>4
<1> QED BY <1>11, <1>12 DEF in, l

\* Of all transactions on the chain, two spend one output only as versions of one
\* payment (Wallet.HndlBlk sends a payment again with another lock time) and
\* both were sent: the flags GetUTXOForAmt sets keep a wallet from choosing
\* an output a second time.
THEOREM PaymentOneSpender == Spec => []OneSpender
<1>1. ASSUME IInv PROVE OneSpender
  <2>1. TxsOf(Len(chain)) = TxsIn(chain, Len(chain))
    BY DEF TxsOf, TxsIn
  <2> QED BY <1>1, <2>1, SpentOnce DEF IInv, OneSpender, Versions
<1> QED BY <1>1, Invariance, PTL

-----------------------------------------------------------------------------
(* Blocks that are mined are valid *)

\* The sizes of the transactions of a block.
LEMMA SzOfBlkIs ==
    ASSUME NEW b, IsSeq(b.txs), NEW f,
           \A k \in DOMAIN b.txs : f[k] = SzOfTx(b.txs[k]) /\ f[k] \in Int
    PROVE  SzOfBlk(b) = SzOfHdr + SumFunctionOnSet(f, 1 .. Len(b.txs))
<1> DEFINE s == b.txs
           X == {s[k] : k \in DOMAIN s}
           size == FoldLeft(LAMBDA sz, t : sz + SzOfTx(t), 0, s)
<1>1. s \in Seq(X) /\ Len(s) \in Nat /\ DOMAIN s = 1 .. Len(s)
  BY SeqFacts DEF IsSeq
<1>2. PICK g : Sizes!LeftRounds(g, s, 0)
  <2> HIDE DEF X, s
  <2> QED BY <1>1, Sizes!FoldLeftRounds
<1>3. size = Sizes!LeftFold(s, 0)
  BY DEF FoldLeft, MapThenFoldSet, Max, AddSize,
         Sizes!LeftFold, Sizes!FoldLeft, Sizes!MapThenFoldSet, Sizes!Max
<1>4. SzOfBlk(b) = SzOfHdr + size
  BY DEF SzOfBlk
<1> HIDE DEF size
<1>5. g[0] = 0 /\ size = g[Len(s)] /\ \A i \in 1 .. Len(s) : f[i] \in Int /\ g[i] = g[i - 1] + f[i]
  BY <1>1, <1>2, <1>3 DEF Sizes!LeftRounds, AddSize
<1> DEFINE n == Len(s)
<1>6. n \in Nat /\ g[0] = 0 /\ \A i \in 1 .. n : f[i] \in Int /\ g[i] = g[i - 1] + f[i]
  BY <1>1, <1>5
<1>7. g[n] = SumFunctionOnSet(f, 1 .. n)
  <2> HIDE DEF n
  <2> QED BY <1>6, AddUp
<1> QED BY <1>4, <1>5, <1>7

LEMMA SizeIs ==
    ASSUME NEW p, IsTx(p)
    PROVE  SzOfTx(p) \in Nat /\ SzOfTx(p) >= 8
<1> DEFINE a == Len(p.ins)
           b == Len(p.outs)
<1>1. a \in Nat /\ b \in Nat
  BY SeqFacts DEF IsTx
<1>2. SzOfTx(p) = 40 * a + 20 * b + 8
  BY DEF SzOfTx
<1> HIDE DEF a, b
<1> QED BY <1>1, <1>2

\* A payment passes all that ChkTx does not read from the chain.
Sound(t) == SumOutputs(t) # 0 /\ SumOutputs(t) <= SumInputs(t) /\ SzOfTx(t) <= MxBlkSz

\* What every block after the first has, ...
BlockSound(c, i) ==
    /\ SzOfBlk(c[i]) <= MxBlkSz /\ SatisfiesPOW(c[i], c[i].hdr.targ)
    /\ SzOfTx(c[i].txs[1]) <= MxBlkSz
    /\ \A t \in PaysOf(c, i) : Sound(t)
AllSound(c) == \A i \in 2 .. Len(c) : BlockSound(c, i)

\* ... because the pool has it.
PoolSound(Q) == \A m \in Miners : \A t \in Q[m] : Sound(t)

\* What a refused block has.
Excused(c, i) == \/ SumOutputs(c[i].txs[1]) = 0
                 \/ \E s \in TxsIn(c, i - 1), t \in ToSet(c[i].txs) : Versions(s, t)
Refusals(c, R) == \A r \in R : r[2] \in 1 .. Len(c) /\ Excused(c, r[2])

SInv == AllSound(chain) /\ PoolSound(pool) /\ Refusals(chain, refused)

\* The inputs of a payment open the outputs they spend, wherever those are
\* unspent.
LEMMA InputsOpen ==
    ASSUME IInv, NEW n \in Nodes, NEW p \in net, Spends(p) \subseteq DOMAIN utxo[n],
           NEW k \in DOMAIN p.ins
    PROVE  \E o \in GetUTXO(n, p.ins[k]) : IsUnlckd(o, p.ins[k].sig)
<1> DEFINE in == p.ins[k]
           l == MkTXOLoc(in.tx, in.idx)
           T == TxsIn(chain, at[n])
<1>1. l \in DOMAIN utxo[n]
  BY DEF Spends
<1>2. utxo[n][l] \in GetUTXO(n, in)
  BY <1>1 DEF GetUTXO
<1>3a. PICK m \in Payers : \E u \in TxsIn(chain, at[m]) : Claims(m, in, u)
  BY DEF IInv, Founded
<1>3. PICK u \in TxsIn(chain, at[m]) : Claims(m, in, u)
  BY <1>3a
<1> DEFINE o == utxo[n][l]
<1>4a. PICK v \in T : \E j \in DOMAIN v.outs :
         /\ l = MkTXOLoc(TxHash(v), j)
         /\ o = [amt |-> v.outs[j].amt, pk |-> v.outs[j].pk, lim |-> o.lim]
  <2> HIDE DEF l
  <2> QED BY <1>1 DEF IInv, Sees, GoodUtxo, Rooted
<1>4. PICK j \in DOMAIN v.outs :
        /\ l = MkTXOLoc(TxHash(v), j)
        /\ o = [amt |-> v.outs[j].amt, pk |-> v.outs[j].pk, lim |-> o.lim]
  BY <1>4a
<1>5. in.tx = TxHash(v) /\ in.idx = j
  BY <1>4 DEF MkTXOLoc
<1>6. u = v
  <2>1. IsTx(u) /\ IsTx(v)
    <3>1. /\ Len(chain) \in Nat /\ GoodChain(chain, net)
          /\ at[n] \in 1 .. Len(chain) /\ at[m] \in 1 .. Len(chain)
      BY SeqFacts DEF IInv, GoodChain, Counts, Payers
    <3> QED BY <3>1, TxsAreTxs
  <2>2. TxHash(u) = TxHash(v)
    BY <1>3, <1>5 DEF Claims
  <2> QED BY <2>1, <2>2, HashTells
<1> HIDE DEF o, in, l
<1>7. o.amt = in.amt /\ o.pk = m /\ in.sig = Sign(m, OutHash(u.outs[j])) /\ u.outs[j] = [amt |-> in.amt, pk |-> m]
  BY <1>3, <1>4, <1>5, <1>6 DEF Claims
<1>8. OutHash(u.outs[j]) = OutHash(o)
  BY <1>7 DEF OutHash
<1>9. IsUnlckd(o, in.sig)
  BY <1>7, <1>8 DEF IsUnlckd, Sign
<1> QED BY <1>2, <1>9 DEF o, in

\* A sound payment whose inputs are unspent is valid.
LEMMA SoundIsValid ==
    ASSUME IInv, NEW n \in Nodes, NEW p \in net, Spends(p) \subseteq DOMAIN utxo[n], Sound(p)
    PROVE  ChkTx(n, Deserialize(p))
<1>1. IsTx(p)
  BY DEF IInv, GoodChain
<1>2. Deserialize(p).ins = p.ins /\ SzOfTx(Deserialize(p)) = SzOfTx(p)
  BY <1>1, SentAndBack
<1>3. SumInputs(Deserialize(p)) = SumInputs(p) /\ SumOutputs(Deserialize(p)) = SumOutputs(p)
  BY <1>1, TxSums
<1>4. \A k \in DOMAIN p.ins : \E o \in GetUTXO(n, p.ins[k]) : IsUnlckd(o, p.ins[k].sig)
  BY InputsOpen
<1> QED BY <1>2, <1>3, <1>4 DEF Sound, ChkTx

\* A payment of the next block spends unspent outputs, or the chain has another
\* version of it.
LEMMA NextSpends ==
    ASSUME IInv, NEW n \in Nodes, at[n] + 1 <= Len(chain), NEW t \in PaysOf(chain, at[n] + 1),
           ~ \E s \in TxsIn(chain, at[n]) : Versions(s, t)
    PROVE  Spends(t) \subseteq DOMAIN utxo[n]
<1>1. /\ at[n] \in Nat /\ GoodChain(chain, net) /\ Founded(chain, net, at) /\ Apart(net)
      /\ \A m \in Payers : at[m] \in 1 .. Len(chain)
      /\ GoodUtxo(utxo[n], TxsIn(chain, at[n]))
  BY SeqFacts DEF IInv, Counts, GoodChain, Sees, Payers
<1>2. ASSUME NEW k \in DOMAIN t.ins PROVE Loc(t.ins[k]) \in DOMAIN utxo[n]
  BY <1>1, NextInput
<1> QED BY <1>2 DEF Spends, Loc

LEMMA ValidUnlessExcused ==
    ASSUME IInv, AllSound(chain), NEW n \in Nodes, at[n] + 1 <= Len(chain),
           ~ChkBlk(n, DeserializeBlk(chain[at[n] + 1]))
    PROVE  Excused(chain, at[n] + 1)
<1> DEFINE i == at[n] + 1
           c == chain[i]
           P == c.txs
           b == DeserializeBlk(c)
<1> SUFFICES ASSUME ~Excused(chain, i) PROVE ChkBlk(n, b)
  OBVIOUS
<1>1. /\ Len(chain) \in Nat /\ at[n] \in Nat /\ i \in 2 .. Len(chain) /\ i \in 1 .. Len(chain)
      /\ i - 1 = at[n] /\ GoodChain(chain, net)
  BY SeqFacts DEF IInv, Counts, GoodChain
<1>2. BlockShape(chain, net, i) /\ BlockSound(chain, i) /\ Sent(b, P)
  BY <1>1, SentBlk DEF AllSound, GoodChain
<1>3. b.txs = [k \in DOMAIN P |-> Deserialize(P[k])] /\ b.hdr = c.hdr
  <2>1. c = [hdr |-> c.hdr, txs |-> P]
    BY <1>2 DEF BlockShape
  <2>2. b.hdr = c.hdr
    BY <2>1 DEF DeserializeBlk
  <2> QED BY <1>2, <2>2 DEF Sent, Map
<1>4. /\ IsSeq(P) /\ DOMAIN P = 1 .. Len(P) /\ Len(P) \in Nat /\ P # <<>> /\ 1 \in DOMAIN P
      /\ \A k \in DOMAIN P : IsTx(P[k])
  <2>1. IsSeq(P) /\ P # <<>> /\ \A k \in DOMAIN P : IsTx(P[k])
    BY <1>2 DEF BlockShape, Sent
  <2>2. DOMAIN P = 1 .. Len(P) /\ Len(P) \in Nat
    BY <2>1, SeqFacts
  <2>3. Len(P) # 0
    BY <2>1 DEF IsSeq
  <2> HIDE DEF P
  <2> QED BY <2>1, <2>2, <2>3
<1> HIDE DEF b, P
<1>5. IsSeq(b.txs) /\ DOMAIN b.txs = DOMAIN P /\ Len(b.txs) = Len(P) /\ \A k \in DOMAIN P : b.txs[k] = Deserialize(P[k])
  <2>1. b.txs = [k \in DOMAIN P |-> b.txs[k]]
    BY <1>3
  <2>2. \A k \in DOMAIN P : b.txs[k] = Deserialize(P[k])
    BY <1>3
  <2> QED BY <1>4, <2>1, <2>2, MadeSeq
<1>6. b.txs # <<>> /\ IsCoinbase(b.txs[1]) /\ SumOutputs(b.txs[1]) # 0 /\ SzOfTx(b.txs[1]) <= MxBlkSz
  <2>1. P[1].ins = <<>> /\ SzOfTx(P[1]) <= MxBlkSz /\ SumOutputs(P[1]) # 0
    BY <1>2 DEF BlockShape, BlockSound, Excused, P
  <2>2. b.txs[1] = Deserialize(P[1]) /\ IsTx(P[1])
    BY <1>4, <1>5
  <2>3. b.txs[1].ins = P[1].ins /\ SzOfTx(b.txs[1]) = SzOfTx(P[1])
    BY <2>2, SentAndBack
  <2>4. SumOutputs(b.txs[1]) = SumOutputs(P[1])
    BY <2>2, TxSums
  <2>5. b.txs # <<>>
    BY <1>4, <1>5
  <2> QED BY <2>1, <2>3, <2>4, <2>5 DEF IsCoinbase
<1>7. ASSUME NEW k \in 2 .. Len(b.txs)
      PROVE  Spends(b.txs[k]) \subseteq DOMAIN utxo[n] /\ ChkTx(n, b.txs[k])
  <2>1. k \in DOMAIN P /\ P[k] \in PaysOf(chain, i) /\ P[k] \in ToSet(P)
    BY <1>4, <1>5 DEF PaysOf, ToSet, P
  <2>2. P[k] \in net /\ IsTx(P[k]) /\ Sound(P[k])
    BY <1>2, <1>4, <2>1 DEF BlockShape, BlockSound
  <2>3. ~ \E s \in TxsIn(chain, at[n]) : Versions(s, P[k])
    BY <1>1, <2>1 DEF Excused, P
  <2>4. Spends(P[k]) \subseteq DOMAIN utxo[n]
    BY <2>1, <2>3, NextSpends
  <2>5. ChkTx(n, Deserialize(P[k]))
    BY <2>2, <2>4, SoundIsValid
  <2>6. Spends(Deserialize(P[k])) = Spends(P[k]) /\ b.txs[k] = Deserialize(P[k])
    BY <1>5, <2>1, <2>2, SentAndBack
  <2> QED BY <2>4, <2>5, <2>6
<1>8. SzOfBlk(b) <= MxBlkSz
  <2> DEFINE f == [k \in DOMAIN P |-> SzOfTx(P[k])]
  <2>1. \A k \in DOMAIN P : f[k] = SzOfTx(P[k]) /\ f[k] \in Int
    BY <1>4, SizeIs
  <2>2. \A k \in DOMAIN b.txs : f[k] = SzOfTx(b.txs[k]) /\ f[k] \in Int
    BY <1>4, <1>5, <2>1, SentAndBack
  <2> HIDE DEF f
  <2>3. SzOfBlk(b) = SzOfHdr + SumFunctionOnSet(f, 1 .. Len(b.txs))
    BY <1>5, <2>2, SzOfBlkIs
  <2>4. SzOfBlk(c) = SzOfHdr + SumFunctionOnSet(f, 1 .. Len(c.txs))
    BY <1>4, <2>1, SzOfBlkIs DEF P
  <2>5. SzOfBlk(c) <= MxBlkSz
    BY <1>2 DEF BlockSound
  <2> QED BY <1>5, <2>3, <2>4, <2>5 DEF P
<1>9. SatisfiesPOW(b, b.hdr.targ)
  BY <1>2, <1>3 DEF BlockSound, SatisfiesPOW
<1> QED BY <1>6, <1>7, <1>8, <1>9 DEF ChkBlk

\* A pool that has lost transactions is sound still.
LEMMA PoolStaysSound ==
    ASSUME PoolSound(pool), NEW n \in Nodes, NEW b, AddBlk(n, b)
    PROVE  PoolSound(pool')
BY DEF AddBlk, PoolSound

\* A mined block fits: its header and its coinbase transaction take less than
\* the 100 bytes that TotalSz sets aside for them.
LEMMA MinedFits ==
    ASSUME IInv, NEW n \in Miners, NEW S \in MiningPools(n), S # {},
           NEW b, NEW P, MinedOf(P, n, S, b)
    PROVE  SzOfBlk(SerializeBlk(b)) <= MxBlkSz /\ SzOfTx(P[1]) <= MxBlkSz
<1> DEFINE m == Cardinality(S)
           s == SetToSeq(S)
           w == [t \in S |-> SzOfTx(t)]
           f == [k \in 1 .. m + 1 |-> SzOfTx(P[k])]
           g == [k \in 1 .. m |-> SzOfTx(P[k + 1])]
           x == SumFunctionOnSet(g, 1 .. m)
<1>1. S \in SUBSET pool[n] /\ TotalSz(S) < BlkSz /\ BlkSz \in Nat /\ MxBlkSz \in Nat /\ BlkSz <= MxBlkSz
  BY PaymentAssumption DEF MiningPools
<1>2. IsFiniteSet(S) /\ m \in Nat
  BY <1>1, FS_Subset, FS_CardinalityType DEF IInv, Pooled
<1>3. IsSeq(P) /\ Len(P) = m + 1 /\ DOMAIN P = 1 .. m + 1 /\ \A k \in 1 .. m + 1 : IsTx(P[k])
  <2>1. IsSeq(P) /\ Len(P) = m + 1 /\ \A k \in DOMAIN P : IsTx(P[k])
    BY DEF MinedOf, Sent
  <2> HIDE DEF m
  <2> QED BY <2>1, SeqFacts
<1>4. DOMAIN s = 1 .. m /\ \A k \in 1 .. m : s[k] \in S
  BY <1>2, Listing, SeqFacts
<1>5. \A k \in 1 .. m : s[k] = Deserialize(P[k + 1]) /\ IsTx(P[k + 1])
  <2>1. \A k \in 1 .. m : k + 1 \in 1 .. m + 1
    BY <1>2
  <2> QED BY <1>3, <2>1 DEF MinedOf
<1> HIDE DEF m, s
<1>6. \A k \in 1 .. m : SzOfTx(s[k]) = SzOfTx(P[k + 1])
  BY <1>5, SentAndBack
<1>7. \A k \in 1 .. m : g[k] = w[s[k]] /\ g[k] \in Nat
  <2>1. \A k \in 1 .. m : g[k] = SzOfTx(P[k + 1]) /\ w[s[k]] = SzOfTx(s[k]) /\ SzOfTx(P[k + 1]) \in Nat
    BY <1>4, <1>5, SizeIs
  <2> HIDE DEF g, w
  <2> QED BY <1>6, <2>1
<1>8. \A t \in S : w[t] \in Int
  <2> SUFFICES ASSUME NEW t \in S PROVE SzOfTx(t) \in Int
    OBVIOUS
  <2>1. PICK p \in net : t = Deserialize(p)
    BY <1>1 DEF IInv, Pooled, Waiting
  <2>2. IsTx(p)
    BY DEF IInv, GoodChain
  <2>3. SzOfTx(t) = SzOfTx(p) /\ SzOfTx(p) \in Nat
    BY <2>1, <2>2, SentAndBack, SizeIs
  <2> QED BY <2>3
<1>9. (\A k \in 1 .. m + 1 : f[k] = SzOfTx(P[k]) /\ f[k] \in Int) /\ \A k \in 1 .. m : g[k] = f[k + 1]
  <2>1. \A k \in 1 .. m : k + 1 \in 1 .. m + 1
    BY <1>2
  <2> QED BY <1>3, <2>1, SizeIs
<1>10. TotalSz(S) = 100 + SumFunctionOnSet(w, S)
  BY DEF TotalSz, SumFunction
<1> HIDE DEF f, g, w
<1>11. x = SumFunctionOnSet(w, S)
  <2>1. Lists(s, m, S)
    BY <1>2, SetLists DEF m, s
  <2> QED BY <1>2, <1>7, <1>8, <2>1, SumListed
<1>12. x \in Nat
  BY <1>2, <1>7, SumNat
<1>13. SumFunctionOnSet(f, 1 .. m + 1) = f[1] + x
  BY <1>2, <1>9, SumShift
<1>14. SzOfTx(P[1]) = 28
  BY DEF MinedOf, NewTx, SzOfTx
<1>15. f[1] = 28
  <2>1. 1 \in 1 .. m + 1
    BY <1>2
  <2> QED BY <1>9, <1>14, <2>1
<1>16. SzOfBlk(SerializeBlk(b)) = SzOfHdr + SumFunctionOnSet(f, 1 .. m + 1)
  <2> DEFINE c == SerializeBlk(b)
  <2>1. c.txs = P
    BY DEF MinedOf
  <2> HIDE DEF c
  <2>2. SzOfBlk(c) = SzOfHdr + SumFunctionOnSet(f, 1 .. Len(c.txs))
    BY <1>3, <1>9, <2>1, SzOfBlkIs
  <2> QED BY <1>3, <2>1, <2>2 DEF c
<1> HIDE DEF x
<1> QED BY <1>1, <1>10, <1>11, <1>12, <1>13, <1>14, <1>15, <1>16 DEF SzOfHdr

LEMMA MinedSound ==
    ASSUME IInv, SInv, NEW n \in Miners, NEW S \in MiningPools(n), S # {},
           NEW b, NEW P, MinedOf(P, n, S, b), SatisfiesPOW(b, b.hdr.targ),
           NEW d, Longer(d, chain, SerializeBlk(b))
    PROVE  AllSound(d) /\ Refusals(d, refused)
<1> DEFINE L == Len(chain)
           m == Cardinality(S)
<1>1. /\ L \in Nat /\ Len(d) = L + 1 /\ d[L + 1] = SerializeBlk(b)
      /\ \A i \in 1 .. L : d[i] = chain[i] /\ PaysOf(d, i) = PaysOf(chain, i)
      /\ \A k \in 0 .. L : TxsIn(d, k) = TxsIn(chain, k)
  BY DEF Longer
<1>2. d[L + 1] = [hdr |-> b.hdr, txs |-> P] /\ d[L + 1].txs = P /\ d[L + 1].hdr = b.hdr
  BY <1>1 DEF MinedOf
<1>3. S \in SUBSET pool[n]
  BY DEF MiningPools
<1>4. IsFiniteSet(S) /\ m \in Nat /\ Len(P) = m + 1
  BY <1>3, FS_Subset, FS_CardinalityType DEF IInv, Pooled, MinedOf
<1>5. ASSUME NEW t \in PaysOf(d, L + 1) PROVE Sound(t)
  <2>1. PICK k \in 2 .. m + 1 : t = P[k]
    BY <1>2, <1>4 DEF PaysOf
  <2> DEFINE j == k - 1
             x == SetToSeq(S)[j]
  <2>2. j \in 1 .. m /\ k = j + 1
    BY <1>4
  <2>3. x = Deserialize(t) /\ t \in net
    BY <2>1, <2>2 DEF MinedOf
  <2>4. x \in pool[n]
    <3>1. j \in DOMAIN SetToSeq(S)
      BY <1>4, <2>2, Listing, SeqFacts
    <3> QED BY <1>3, <1>4, <3>1, Listing
  <2>5. Sound(x) /\ IsTx(t)
    BY <2>3, <2>4 DEF SInv, PoolSound, IInv, GoodChain
  <2> HIDE DEF x
  <2> QED BY <2>3, <2>5, TxSums, SentAndBack DEF Sound
<1> HIDE DEF L
<1>6. BlockSound(d, L + 1)
  <2>1. SzOfBlk(d[L + 1]) <= MxBlkSz /\ SzOfTx(d[L + 1].txs[1]) <= MxBlkSz
    BY <1>1, <1>2, MinedFits
  <2>2. SatisfiesPOW(d[L + 1], d[L + 1].hdr.targ)
    BY <1>2 DEF SatisfiesPOW
  <2> QED BY <1>5, <2>1, <2>2 DEF BlockSound
<1>7. AllSound(d)
  <2>1. ASSUME NEW i \in 2 .. L PROVE BlockSound(d, i)
    <3>1. i \in 1 .. L /\ BlockSound(chain, i)
      BY <1>1 DEF SInv, AllSound, L
    <3> QED BY <1>1, <3>1 DEF BlockSound
  <2>2. \A i \in 2 .. Len(d) : i \in 2 .. L \/ i = L + 1
    BY <1>1
  <2> QED BY <1>6, <2>1, <2>2 DEF AllSound
<1>8. Refusals(d, refused)
  <2> SUFFICES ASSUME NEW r \in refused PROVE r[2] \in 1 .. Len(d) /\ Excused(d, r[2])
    BY DEF Refusals
  <2>1. r[2] \in 1 .. L /\ Excused(chain, r[2])
    BY DEF SInv, Refusals, L
  <2>2. r[2] \in 1 .. Len(d) /\ r[2] - 1 \in 0 .. L
    BY <1>1, <2>1
  <2>3. d[r[2]] = chain[r[2]] /\ TxsIn(d, r[2] - 1) = TxsIn(chain, r[2] - 1)
    BY <1>1, <2>1, <2>2
  <2> QED BY <2>1, <2>2, <2>3 DEF Excused
<1> QED BY <1>7, <1>8

LEMMA MineSound ==
    ASSUME IInv, SInv, NEW n \in Miners, Mine(n)
    PROVE  SInv'
<1>1. refused' = refused /\ n \in Nodes
  BY PaymentAssumption DEF Mine
<1>2. PICK S \in MiningPools(n) \ {{}} :
        LET txs == SetToSeq(S)
            b   == NewBlk(BlkHash(chain[at[n]]), <<GenCBTx(n, txs)>> \o txs, InitPOWD)
        IN  \E i \in CalcNonce(b) :
               LET mined == [b EXCEPT !.hdr.nonce = i]
               IN  AddBlk(n, mined) /\ chain' = Append(chain, SerializeBlk(mined))
  BY DEF Mine
<1> DEFINE bb == NewBlk(BlkHash(chain[at[n]]), <<GenCBTx(n, SetToSeq(S))>> \o SetToSeq(S), InitPOWD)
<1>3. PICK i \in CalcNonce(bb) :
        AddBlk(n, [bb EXCEPT !.hdr.nonce = i])
        /\ chain' = Append(chain, SerializeBlk([bb EXCEPT !.hdr.nonce = i]))
  BY <1>2
<1>4. S \in MiningPools(n) /\ S \in SUBSET pool[n] /\ S # {}
  BY DEF MiningPools
<1> DEFINE b == [bb EXCEPT !.hdr.nonce = i]
<1>5. PICK P : MinedOf(P, n, S, b)
  BY <1>4, MinedIs
<1>6. SatisfiesPOW(b, b.hdr.targ)
  <2>1. SatisfiesPOW(b, InitPOWD)
    BY DEF CalcNonce
  <2>2. b.hdr.targ = InitPOWD
    BY DEF NewBlk, DeserializeBlk, Header
  <2> QED BY <2>1, <2>2
<1> HIDE DEF bb, b
<1>7. AddBlk(n, b) /\ chain' = Append(chain, SerializeBlk(b))
  BY <1>3 DEF b
<1>8. PICK d : d = chain'
  OBVIOUS
<1>9. Longer(d, chain, SerializeBlk(b))
  BY <1>7, <1>8, LongerChain DEF IInv, GoodChain
<1>10. AllSound(d) /\ Refusals(d, refused)
  BY <1>4, <1>5, <1>6, <1>9, MinedSound
<1>11. PoolSound(pool')
  BY <1>1, <1>7, PoolStaysSound DEF SInv
<1> QED BY <1>1, <1>8, <1>10, <1>11 DEF SInv

\* Every step keeps them sound.
LEMMA NextSInv == IInv /\ SInv /\ [Next]_payVars => SInv'
<1> SUFFICES ASSUME IInv, SInv, [Next]_payVars PROVE SInv'
  OBVIOUS
<1>1. CASE UNCHANGED <<chain, pool, refused>>
  BY <1>1 DEF SInv
<1>2. ASSUME NEW n \in Nodes, ForwardBlock(n) PROVE SInv'
  <2> DEFINE i == at[n] + 1
             b == DeserializeBlk(chain[i])
  <2>1. chain' = chain /\ i <= Len(chain)
    BY <1>2 DEF ForwardBlock
  <2>2. CASE AddBlk(n, b) /\ refused' = refused
    BY <2>1, <2>2, PoolStaysSound DEF SInv
  <2>3. CASE ~ChkBlk(n, b) /\ refused' = refused \cup {<<n, i>>} /\ pool' = pool
    <3>1. Excused(chain, i)
      BY <2>1, <2>3, ValidUnlessExcused DEF SInv
    <3>2. i \in 1 .. Len(chain)
      BY <2>1, SeqFacts DEF IInv, Counts, GoodChain
    <3>3. Refusals(chain, refused')
      <4> HIDE DEF i
      <4> QED BY <2>3, <3>1, <3>2 DEF SInv, Refusals
    <3> QED BY <2>1, <2>3, <3>3 DEF SInv
  <2> QED BY <1>2, <2>2, <2>3 DEF ForwardBlock
<1>3. ASSUME NEW n \in Miners, Mine(n) PROVE SInv'
  BY <1>3, MineSound
<1>4. ASSUME NEW n \in Miners, NEW p \in net, ForwardTransaction(n, p) PROVE SInv'
  <2> DEFINE t == Deserialize(p)
  <2>1. UNCHANGED <<chain, refused>> /\ Sound(t)
    BY <1>4 DEF ForwardTransaction, ChkTx, Sound
  <2>2. \A m \in Miners : pool'[m] \subseteq pool[m] \cup {t}
    BY <1>4 DEF ForwardTransaction, IInv, Pooled
  <2> HIDE DEF t
  <2> QED BY <2>1, <2>2 DEF SInv, PoolSound
<1>5. ASSUME NEW r \in Requests, SendTx(r) PROVE SInv'
  BY <1>1, <1>5 DEF SendTx, HndlTxReq, HndlTxReqFails
<1>6. ASSUME NEW n \in Payers, HndlBlk(n) PROVE SInv'
  BY <1>1, <1>6 DEF HndlBlk
<1>7. ASSUME NEW n \in Miners, MineNothing(n) PROVE SInv'
  BY <1>1, <1>7 DEF MineNothing
<1>8. CASE UNCHANGED payVars
  BY <1>1, <1>8 DEF payVars
<1> QED BY <1>2, <1>3, <1>4, <1>5, <1>6, <1>7, <1>8 DEF Next

\* Every block and pool is sound.
LEMMA Soundness == Spec => []SInv
<1>1. Init => SInv
  BY DEF Init, SInv, AllSound, PoolSound, Refusals
<1>2. IInv /\ SInv /\ [Next]_payVars => SInv'
  BY NextSInv
<1> QED BY <1>1, <1>2, Invariance, PTL DEF Spec

\* Every other node accepts a block that its miner added unchecked
\* (Node.HndlMnrBlk), unless its coinbase transaction pays nothing or it has a
\* payment of which the chain has a version already: what Mine puts together
\* passes Node.ChkBlk, its size and its fees included.
THEOREM PaymentBlocksAccepted == Spec => []BlocksAccepted
<1>1. ASSUME SInv PROVE BlocksAccepted
  <2>1. \A k : TxsOf(k) = TxsIn(chain, k)
    BY DEF TxsOf, TxsIn
  <2> QED BY <1>1, <2>1 DEF SInv, Refusals, Excused, BlocksAccepted
<1> QED BY <1>1, Soundness, PTL

-----------------------------------------------------------------------------
(* Payments add up *)

\* The amounts of a payment, and their sums without a wrap.
InAmts(p) == [k \in DOMAIN p.ins |-> p.ins[k].amt]
OutAmts(p) == [k \in DOMAIN p.outs |-> p.outs[k].amt]
InSum(p) == SumFunctionOnSet(InAmts(p), 1 .. Len(p.ins))
OutSum(p) == SumFunctionOnSet(OutAmts(p), 1 .. Len(p.outs))

\* No output is in a payment twice.
InsApart(p) == \A j, k \in DOMAIN p.ins :
    MkTXOLoc(p.ins[j].tx, p.ins[j].idx) = MkTXOLoc(p.ins[k].tx, p.ins[k].idx) => j = k

\* The outputs of a payment of an exact request are covered by its inputs.
Balanced(p) == Exact(p) => /\ OutSum(p) < Word
                           /\ SumOutputs(p) # 0 /\ SumOutputs(p) <= SumInputs(p)
NInv == \A p \in net : InsApart(p) /\ Balanced(p)

\* The sums of a payment that was sent are those of its amounts, up to a wrap.
LEMMA RealSums ==
    ASSUME NEW p, IsTx(p)
    PROVE  /\ InSum(p) \in Nat /\ OutSum(p) \in Nat
           /\ SumInputs(p) = InSum(p) % Word /\ SumOutputs(p) = OutSum(p) % Word
           /\ InSum(p) < Word => SumInputs(p) = InSum(p)
           /\ OutSum(p) < Word => SumOutputs(p) = OutSum(p)
<1> DEFINE f == InAmts(p)
           g == OutAmts(p)
           m == Len(p.ins)
           n == Len(p.outs)
<1>0. Word \in Nat \ {0}
  BY PaymentAssumption
<1>1. /\ IsSeq(p.ins) /\ m \in Nat /\ DOMAIN p.ins = 1 .. m
      /\ IsSeq(p.outs) /\ n \in Nat /\ DOMAIN p.outs = 1 .. n
  BY SeqFacts DEF IsTx
<1>2. /\ \A k \in DOMAIN p.ins : f[k] = p.ins[k].amt /\ p.ins[k].amt \in Nat /\ p.ins[k].amt \in Int
      /\ \A k \in DOMAIN p.outs : g[k] = p.outs[k].amt /\ p.outs[k].amt \in Nat /\ p.outs[k].amt \in Int
  BY <1>0 DEF IsTx, IsIn, IsOut, InAmts, OutAmts
<1>3. InSum(p) = SumFunctionOnSet(f, 1 .. m) /\ OutSum(p) = SumFunctionOnSet(g, 1 .. n)
  BY DEF InSum, OutSum
<1> HIDE DEF f, g
<1>4. SumAmt(p.ins) = SumFunctionOnSet(f, 1 .. m) % Word /\ SumAmt(p.outs) = SumFunctionOnSet(g, 1 .. n) % Word
  BY <1>1, <1>2, SumAmtIs
<1> HIDE DEF m, n
<1>5. SumFunctionOnSet(f, 1 .. m) \in Nat /\ SumFunctionOnSet(g, 1 .. n) \in Nat
  BY <1>1, <1>2, SumNat
<1>6. ASSUME NEW x \in Nat, x < Word PROVE x % Word = x
  BY <1>0, <1>6, ModRange
<1> QED BY <1>3, <1>4, <1>5, <1>6 DEF SumInputs, SumOutputs

\* A payment has what HndlTxReq collected as its inputs, each once, and the
\* amount of the request as its first output.
LEMMA MadeSums ==
    ASSUME IInv, NEW r \in Requests, NEW S \in SUBSET Spendable(r.from), NEW q, MadeOf(q, r, S)
    PROVE  /\ InsApart(q) /\ SumInputs(q) = Collected(r.from, S)
           /\ q.outs[1] = [amt |-> r.amt, pk |-> r.to]
           /\ OutSum(q) = r.amt + ChangeOf(r, S)
<1> DEFINE n == r.from
           s == SetToSeq(S)
           m == Cardinality(S)
           c == ChangeOf(r, S)
<1>0. IsTx(q) /\ n \in Payers /\ Word \in Nat \ {0} /\ r.amt \in 0 .. Word - 1 /\ r.fee \in 0 .. Word - 1
  BY PaymentAssumption DEF MadeOf
<1>1. /\ IsFiniteSet(S) /\ Collected(n, S) = SumFunctionOnSet(Amts(n), S) % Word
      /\ Collected(n, S) \in 0 .. Word - 1
      /\ \A l \in S : Amts(n)[l] = utxo[n][l].amt /\ Amts(n)[l] \in 0 .. Word - 1
  BY <1>0, CollectedIs DEF Collected
<1>2. /\ IsSeq(s) /\ Lists(s, m, S) /\ DOMAIN s = 1 .. m /\ Len(s) = m
      /\ \A k \in DOMAIN s : s[k] \in S /\ s[k] \in Spendable(n)
  BY <1>1, Listing, SetLists, SeqFacts
<1>3. q.ins = [k \in DOMAIN s |-> InputFor(n, s[k])]
  BY DEF MadeOf
<1> HIDE DEF s, m, n
<1>4. DOMAIN q.ins = 1 .. m /\ Len(q.ins) = m /\ \A k \in 1 .. m : q.ins[k] = InputFor(n, s[k])
  <2>1. q.ins = [k \in DOMAIN s |-> q.ins[k]]
    BY <1>3
  <2>2. Len(q.ins) = Len(s) /\ DOMAIN q.ins = DOMAIN s
    <3> DEFINE z == q.ins
    <3>1. z = [k \in DOMAIN s |-> z[k]]
      BY <2>1
    <3> HIDE DEF z
    <3>2. Len(z) = Len(s) /\ DOMAIN z = DOMAIN s
      BY <1>2, <3>1, MadeSeq
    <3> QED BY <3>2 DEF z
  <2> QED BY <1>2, <1>3, <2>2
<1>5. \A k \in 1 .. m : MkTXOLoc(q.ins[k].tx, q.ins[k].idx) = s[k]
  BY <1>0, <1>2, <1>4, InputClaims
<1>6. InsApart(q)
  BY <1>2, <1>4, <1>5 DEF InsApart, Lists
<1>7. SumInputs(q) = Collected(n, S)
  <2> DEFINE f == InAmts(q)
             a == Amts(n)
  <2>1. \A k \in 1 .. m : f[k] = a[s[k]]
    <3>1. \A k \in 1 .. m : InputFor(n, s[k]).amt = utxo[n][s[k]].amt
      BY DEF InputFor
    <3>2. \A k \in 1 .. m : f[k] = q.ins[k].amt
      BY <1>4 DEF InAmts
    <3> QED BY <1>1, <1>2, <1>4, <3>1, <3>2
  <2>2. \A l \in S : a[l] \in Int
    BY <1>0, <1>1
  <2> HIDE DEF f, a
  <2>3. SumFunctionOnSet(f, 1 .. m) = SumFunctionOnSet(a, S)
    BY <1>1, <1>2, <2>1, <2>2, SumListed
  <2>4. InSum(q) = SumFunctionOnSet(f, 1 .. m)
    BY <1>4 DEF InSum, f
  <2>5. SumInputs(q) = InSum(q) % Word
    BY <1>0, RealSums
  <2> QED BY <1>1, <2>3, <2>4, <2>5 DEF a
<1> DEFINE o1 == NewTxOutpt(r.amt, r.to)
           o2 == NewTxOutpt(c, r.from)
<1>8. q.outs = IF c > 0 THEN <<o1>> \o <<o2>> ELSE <<o1>> \o <<>>
  BY DEF MadeOf
<1>9. o1 = [amt |-> r.amt, pk |-> r.to] /\ o1.amt = r.amt /\ o2.amt = c
  BY DEF NewTxOutpt
<1>10. c \in 0 .. Word - 1
  <2>1. Needed(r) \in Int
    <3>1. r.amt + r.fee \in Int
      BY <1>0
    <3> QED BY <1>0, <3>1, ModRange DEF Needed
  <2>2. Collected(n, S) - Needed(r) \in Int
    BY <1>0, <1>1, <2>1
  <2> QED BY <1>0, <2>2, ModRange DEF ChangeOf, n
<1> DEFINE g == OutAmts(q)
<1>11. OutSum(q) = SumFunctionOnSet(g, 1 .. Len(q.outs)) /\ \A k \in DOMAIN q.outs : g[k] = q.outs[k].amt
  BY DEF OutSum, OutAmts
<1> HIDE DEF o1, o2, c, g
<1>12. CASE c > 0
  <2>1. Len(q.outs) = 2 /\ DOMAIN q.outs = 1 .. 2 /\ q.outs[1] = o1 /\ q.outs[2] = o2
    BY <1>8, <1>12, InARow
  <2>2. g[1] = r.amt /\ g[2] = c
    BY <1>9, <1>11, <2>1
  <2>3. 2 \in Nat /\ 1 \in Nat /\ 0 \in Nat /\ 0 + 1 <= 2 /\ 1 + 1 <= 2 /\ 0 + 1 = 1 /\ 1 + 1 = 2
        /\ \A i \in 1 .. 2 : g[i] \in Int
    <3>1. \A i \in 1 .. 2 : i = 1 \/ i = 2
      OBVIOUS
    <3>2. r.amt \in Int /\ c \in Int
      BY <1>0, <1>10
    <3> QED BY <2>2, <3>1, <3>2
  <2>4. SumFunctionOnSet(g, 1 .. 0 + 1) = g[0 + 1] + SumFunctionOnSet(g, 1 .. 0)
    BY <2>3, SumNext
  <2>5. SumFunctionOnSet(g, 1 .. 1 + 1) = g[1 + 1] + SumFunctionOnSet(g, 1 .. 1)
    BY <2>3, SumNext
  <2>6. SumFunctionOnSet(g, 1 .. 0) = 0
    BY <2>3, SumUpto
  <2>7. SumFunctionOnSet(g, 1 .. 2) = r.amt + c
    BY <1>0, <1>10, <2>2, <2>3, <2>4, <2>5, <2>6
  <2> QED BY <1>6, <1>7, <1>9, <1>11, <2>1, <2>7 DEF c, n
<1>13. CASE ~(c > 0)
  <2>1. Len(q.outs) = 1 /\ DOMAIN q.outs = 1 .. 1 /\ q.outs[1] = o1
    BY <1>8, <1>13, InARow
  <2>2. g[1] = r.amt /\ c = 0
    BY <1>9, <1>10, <1>11, <1>13, <2>1
  <2>3. 1 \in Nat /\ 0 \in Nat /\ 0 + 1 <= 1 /\ 0 + 1 = 1 /\ \A i \in 1 .. 1 : g[i] \in Int
    <3>1. \A i \in 1 .. 1 : i = 1
      OBVIOUS
    <3>2. r.amt \in Int
      BY <1>0
    <3> QED BY <2>2, <3>1, <3>2
  <2>4. SumFunctionOnSet(g, 1 .. 0 + 1) = g[0 + 1] + SumFunctionOnSet(g, 1 .. 0)
    BY <2>3, SumNext
  <2>5. SumFunctionOnSet(g, 1 .. 0) = 0
    BY <2>3, SumUpto
  <2>6. SumFunctionOnSet(g, 1 .. 1) = r.amt + c
    BY <1>0, <2>2, <2>3, <2>4, <2>5
  <2> QED BY <1>6, <1>7, <1>9, <1>11, <2>1, <2>6 DEF c, n
<1> QED BY <1>12, <1>13

\* The change is what is left of the outputs.
LEMMA MadeBalances ==
    ASSUME IInv, NEW r \in Requests, r.amt > 0, NEW S \in Collections(r.from, Needed(r)),
           NEW q, MadeOf(q, r, S)
    PROVE  InsApart(q) /\ Balanced(q)
<1>1. S \in SUBSET Spendable(r.from) /\ Collected(r.from, S) >= Needed(r)
  BY DEF Collections
<1>2. /\ InsApart(q) /\ SumInputs(q) = Collected(r.from, S)
      /\ q.outs[1] = [amt |-> r.amt, pk |-> r.to]
      /\ OutSum(q) = r.amt + ChangeOf(r, S)
  BY <1>1, MadeSums
<1> SUFFICES ASSUME Exact(q)
             PROVE  OutSum(q) < Word /\ SumOutputs(q) # 0 /\ SumOutputs(q) <= SumInputs(q)
  BY <1>2 DEF Balanced
<1>3. /\ r.amt \in 0 .. Word - 1 /\ r.fee \in 0 .. Word - 1 /\ Word \in Nat \ {0}
      /\ r.from \in Payers /\ IsTx(q)
  BY PaymentAssumption DEF MadeOf
<1>4. r.amt + r.fee < Word
  BY <1>2 DEF Exact
<1>5. Needed(r) = r.amt + r.fee
  <2>1. r.amt + r.fee \in 0 .. Word - 1 /\ r.amt + r.fee \in Int
    BY <1>3, <1>4
  <2> QED BY <1>3, <2>1, ModRange DEF Needed
<1> DEFINE C == Collected(r.from, S)
<1>6. C \in 0 .. Word - 1
  BY <1>1, <1>3, CollectedIs
<1>7. ChangeOf(r, S) = C - Needed(r)
  <2> HIDE DEF C
  <2>1. C - Needed(r) \in 0 .. Word - 1 /\ C - Needed(r) \in Int
    BY <1>1, <1>3, <1>5, <1>6 DEF C
  <2> QED BY <1>3, <2>1, ModRange DEF ChangeOf, C
<1> HIDE DEF C
<1>8. OutSum(q) = C - r.fee /\ C >= r.amt + r.fee
  BY <1>1, <1>2, <1>3, <1>5, <1>6, <1>7 DEF C
<1>9. OutSum(q) < Word /\ OutSum(q) > 0 /\ OutSum(q) <= C
  BY <1>3, <1>6, <1>8
<1>10. SumOutputs(q) = OutSum(q)
  BY <1>3, <1>9, RealSums
<1> QED BY <1>2, <1>3, <1>6, <1>9, <1>10 DEF C

\* Another version of a payment is balanced too.
LEMMA AgainBalances ==
    ASSUME NEW p, NEW q, q.ins = p.ins, q.outs = p.outs, InsApart(p), Balanced(p)
    PROVE  InsApart(q) /\ Balanced(q)
BY DEF InsApart, Balanced, Exact, OutSum, OutAmts, SumOutputs, SumInputs

\* Every step keeps payments balanced.
LEMMA NextNInv == IInv /\ NInv /\ [Next]_payVars => NInv'
<1> SUFFICES ASSUME IInv, NInv, [Next]_payVars PROVE NInv'
  OBVIOUS
<1>1. CASE net' = net
  BY <1>1 DEF NInv
<1>2. ASSUME NEW r \in Requests, SendTx(r) PROVE NInv'
  <2>1. CASE HndlTxReqFails(r)
    BY <1>1, <2>1 DEF HndlTxReqFails
  <2>2. CASE HndlTxReq(r)
    <3>1. PICK S \in Collections(r.from, Needed(r)) : net' = net \cup {Serialize(MkTx(r, S))}
      BY <2>2 DEF HndlTxReq
    <3>2. PICK q : MadeOf(q, r, S)
      BY MkTxMakes DEF Collections
    <3>3. InsApart(q) /\ Balanced(q)
      BY <1>2, <3>2, MadeBalances DEF SendTx
    <3>4. Serialize(MkTx(r, S)) = q
      BY <3>2, SentAndBack DEF MadeOf
    <3> QED BY <3>1, <3>3, <3>4 DEF NInv
  <2> QED BY <1>2, <2>1, <2>2 DEF SendTx
<1>3. ASSUME NEW n \in Payers, HndlBlk(n) PROVE NInv'
  <2> DEFINE i == told[n] + 1
             b == DeserializeBlk(chain[i])
             kept  == {y \in lmnl[n] : \A k \in DOMAIN b.txs : TxHash(b.txs[k]) # TxHash(y.T)}
             older == {[x EXCEPT !.P = @ + 1] : x \in kept}
             old   == {Again(x.T) : x \in {y \in older : y.P >= TxRplyThresh}}
  <2>1. net' = net \cup {Serialize(t) : t \in old}
    BY <1>3 DEF HndlBlk
  <2>2. ASSUME NEW x \in older PROVE \E p \in net : x.T = Deserialize(p)
    <3>1. PICK y \in lmnl[n] : x = [y EXCEPT !.P = @ + 1]
      OBVIOUS
    <3>2. y = [T |-> y.T, P |-> y.P] /\ \E p \in net : y.T = Deserialize(p)
      BY DEF IInv, Liminal
    <3>3. x = [T |-> y.T, P |-> y.P + 1]
      BY <3>1, <3>2
    <3> QED BY <3>2, <3>3
  <2> HIDE DEF older
  <2>3. ASSUME NEW t \in old PROVE InsApart(Serialize(t)) /\ Balanced(Serialize(t))
    <3>1. PICK x \in older : t = Again(x.T)
      OBVIOUS
    <3>2. PICK p \in net : x.T = Deserialize(p)
      BY <2>2
    <3>3. IsTx(p) /\ InsApart(p) /\ Balanced(p)
      BY DEF IInv, GoodChain, NInv
    <3>4. PICK q : q.ins = p.ins /\ q.outs = p.outs /\ Serialize(Again(Deserialize(p))) = q
      BY <3>3, AgainIs
    <3> QED BY <3>1, <3>2, <3>3, <3>4, AgainBalances
  <2> HIDE DEF old
  <2> QED BY <2>1, <2>3 DEF NInv
<1>4. ASSUME NEW n \in Nodes, ForwardBlock(n) PROVE NInv'
  BY <1>1, <1>4 DEF ForwardBlock
<1>5. ASSUME NEW n \in Miners, Mine(n) \/ MineNothing(n) PROVE NInv'
  BY <1>1, <1>5 DEF Mine, MineNothing
<1>6. ASSUME NEW n \in Miners, NEW p \in net, ForwardTransaction(n, p) PROVE NInv'
  BY <1>1, <1>6 DEF ForwardTransaction
<1>7. CASE UNCHANGED payVars
  BY <1>1, <1>7 DEF payVars
<1> QED BY <1>2, <1>3, <1>4, <1>5, <1>6, <1>7 DEF Next

\* Every payment that is sent is balanced.
LEMMA Balance == Spec => []NInv
<1>1. Init => NInv
  BY DEF Init, NInv
<1>2. IInv /\ NInv /\ [Next]_payVars => NInv'
  BY NextNInv
<1> QED BY <1>1, <1>2, Invariance, PTL DEF Spec

\* A payment that a wallet made of an exact request, and that is not too
\* large, is valid wherever its inputs are unspent, however often and in
\* whatever version it was sent.
THEOREM PaymentPaymentsValid == Spec => []PaymentsValid
<1>1. ASSUME IInv, NInv PROVE PaymentsValid
  BY <1>1, SoundIsValid DEF PaymentsValid, NInv, Balanced, Sound
<1> QED BY <1>1, Invariance, Balance, PTL

-----------------------------------------------------------------------------
(* The worth of all unspent outputs *)

\* The sum over a finite set depends on the summands alone.
LEMMA SumSame ==
    ASSUME NEW S, IsFiniteSet(S), NEW f, NEW g, \A x \in S : f[x] \in Int /\ f[x] = g[x]
    PROVE  SumFunctionOnSet(f, S) = SumFunctionOnSet(g, S)
<1> DEFINE s == SetToSeq(S)
           n == Cardinality(S)
           h == [k \in 1 .. n |-> f[s[k]]]
<1>1. Lists(s, n, S)
  BY SetLists
<1>2. \A k \in 1 .. n : h[k] = f[s[k]] /\ s[k] \in S
  BY <1>1 DEF Lists
<1> HIDE DEF s, n, h
<1>3. (\A k \in 1 .. n : h[k] = f[s[k]]) /\ (\A k \in 1 .. n : h[k] = g[s[k]])
  BY <1>2
<1>4. (\A x \in S : f[x] \in Int) /\ (\A x \in S : g[x] \in Int)
  OBVIOUS
<1>5. SumFunctionOnSet(h, 1 .. n) = SumFunctionOnSet(f, S)
  BY <1>1, <1>3, <1>4, SumListed
<1>6. SumFunctionOnSet(h, 1 .. n) = SumFunctionOnSet(g, S)
  BY <1>1, <1>3, <1>4, SumListed
<1> QED BY <1>5, <1>6

\* A sum of natural numbers is one.
LEMMA SumSetNat ==
    ASSUME NEW S, IsFiniteSet(S), NEW f, \A x \in S : f[x] \in Nat
    PROVE  SumFunctionOnSet(f, S) \in Nat
<1> DEFINE s == SetToSeq(S)
           n == Cardinality(S)
           h == [k \in 1 .. n |-> f[s[k]]]
<1>1. Lists(s, n, S) /\ n \in Nat
  BY SetLists, FS_CardinalityType
<1>2. (\A k \in 1 .. n : h[k] = f[s[k]]) /\ (\A k \in 1 .. n : h[k] \in Nat) /\ \A x \in S : f[x] \in Int
  BY <1>1 DEF Lists
<1> HIDE DEF s, n, h
<1>3. SumFunctionOnSet(h, 1 .. n) = SumFunctionOnSet(f, S)
  BY <1>1, <1>2, SumListed
<1>4. SumFunctionOnSet(h, 1 .. n) \in Nat
  BY <1>1, <1>2, SumNat
<1> QED BY <1>3, <1>4

\* A part of a sum of numbers that are not negative is no more than the sum.
LEMMA SumPart ==
    ASSUME NEW S, IsFiniteSet(S), NEW A, A \subseteq S, NEW f, \A x \in S : f[x] \in Nat
    PROVE  /\ SumFunctionOnSet(f, S) = SumFunctionOnSet(f, S \ A) + SumFunctionOnSet(f, A)
           /\ SumFunctionOnSet(f, A) \in Nat /\ SumFunctionOnSet(f, S \ A) \in Nat
           /\ SumFunctionOnSet(f, S) \in Nat /\ SumFunctionOnSet(f, A) <= SumFunctionOnSet(f, S)
<1> DEFINE B == S \ A
<1>1. IsFiniteSet(A) /\ IsFiniteSet(B) /\ B \cap A = {} /\ B \cup A = S
  BY FS_Subset
<1>2. (\A x \in A : f[x] \in Nat) /\ (\A x \in B : f[x] \in Nat) /\ \A x \in B \cup A : f[x] \in Int
  OBVIOUS
<1>3. SumFunctionOnSet(f, A) \in Nat /\ SumFunctionOnSet(f, B) \in Nat
  <2> HIDE DEF B
  <2> QED BY <1>1, <1>2, SumSetNat
<1>4. SumFunctionOnSet(f, B \cup A) = SumFunctionOnSet(f, B) + SumFunctionOnSet(f, A)
  <2> HIDE DEF B
  <2> QED BY <1>1, <1>2, SumUnion
<1> QED BY <1>1, <1>3, <1>4

AmtsOf(U) == [l \in DOMAIN U |-> U[l].amt]
Worth(U) == SumFunctionOnSet(AmtsOf(U), DOMAIN U)
Coins(U) == IsFiniteSet(DOMAIN U) /\ \A l \in DOMAIN U : U[l].amt \in Nat

\* The inputs of p state the amounts of unspent outputs, its outputs are new.
Moves(U, p) == /\ \A k \in DOMAIN p.ins : Loc(p.ins[k]) \in DOMAIN U /\ U[Loc(p.ins[k])].amt = p.ins[k].amt
               /\ Creates(p) \cap DOMAIN U = {}

\* The outputs a transaction spends are worth its inputs.
LEMMA SpentWorth ==
    ASSUME NEW U, Coins(U), NEW p, IsTx(p), InsApart(p), Moves(U, p)
    PROVE  /\ Spends(p) \subseteq DOMAIN U
           /\ SumFunctionOnSet(AmtsOf(U), Spends(p)) = InSum(p)
           /\ InSum(p) <= Worth(U) /\ Worth(U) \in Nat
<1> DEFINE A == Spends(p)
           f == AmtsOf(U)
           n == Len(p.ins)
           s == [k \in DOMAIN p.ins |-> Loc(p.ins[k])]
           g == InAmts(p)
<1>1. A \subseteq DOMAIN U /\ A = {s[k] : k \in DOMAIN p.ins}
  BY DEF Spends, Moves, Loc
<1>2. n \in Nat /\ DOMAIN p.ins = 1 .. n
  BY SeqFacts DEF IsTx
<1>3. Lists(s, n, A)
  BY <1>1, <1>2 DEF Lists, InsApart, Loc
<1>4. IsFiniteSet(DOMAIN U) /\ \A l \in DOMAIN U : f[l] = U[l].amt /\ f[l] \in Nat
  BY DEF Coins, AmtsOf
<1>5. IsFiniteSet(A) /\ \A l \in A : f[l] \in Int
  BY <1>1, <1>4, FS_Subset
<1>6. \A k \in 1 .. n : s[k] = Loc(p.ins[k]) /\ g[k] = p.ins[k].amt
  BY <1>2 DEF InAmts
<1>7. \A k \in 1 .. n : f[s[k]] = g[k]
  BY <1>2, <1>4, <1>6 DEF Moves
<1>8. InSum(p) = SumFunctionOnSet(g, 1 .. n) /\ Worth(U) = SumFunctionOnSet(f, DOMAIN U)
  BY DEF InSum, Worth
<1> HIDE DEF A, f, n, s, g
<1>9. SumFunctionOnSet(g, 1 .. n) = SumFunctionOnSet(f, A)
  BY <1>3, <1>5, <1>7, SumListed
<1>10. SumFunctionOnSet(f, A) <= SumFunctionOnSet(f, DOMAIN U) /\ SumFunctionOnSet(f, DOMAIN U) \in Nat
  BY <1>1, <1>4, SumPart
<1> QED BY <1>1, <1>8, <1>9, <1>10 DEF A, f

\* A transaction takes its inputs from the unspent outputs and adds its own.
LEMMA TxWorth ==
    ASSUME NEW U, Coins(U), NEW p, IsTx(p), InsApart(p), Moves(U, p)
    PROVE  /\ Coins(ApplyTx(U, Deserialize(p)))
           /\ Worth(ApplyTx(U, Deserialize(p))) = Worth(U) + (OutSum(p) - InSum(p))
<1> DEFINE V == ApplyTx(U, Deserialize(p))
           A == Spends(p)
           B == Creates(p)
           K == DOMAIN U \ A
           f == AmtsOf(U)
           h == AmtsOf(V)
           n == Len(p.outs)
           s == [k \in DOMAIN p.outs |-> MkTXOLoc(TxHash(p), k)]
           g == OutAmts(p)
<1>0a. IsFiniteSet(DOMAIN U)
  BY DEF Coins
<1>0. \A l \in DOMAIN U : f[l] = U[l].amt /\ f[l] \in Nat
  BY DEF Coins, AmtsOf
<1>1. /\ DOMAIN V = K \cup B /\ IsFiniteSet(DOMAIN V)
      /\ \A k \in DOMAIN p.outs : V[MkTXOLoc(TxHash(p), k)] = DeserializeOut(p.outs[k])
      /\ \A l \in K : l \notin B => V[l] = U[l]
  <2>1. /\ V = [l \in DOMAIN V |-> V[l]]
        /\ DOMAIN V = (DOMAIN U \ Spends(p)) \cup Creates(p)
        /\ IsFiniteSet(DOMAIN V)
        /\ \A k \in DOMAIN p.outs : V[MkTXOLoc(TxHash(p), k)] = DeserializeOut(p.outs[k])
        /\ \A l \in DOMAIN U \ Spends(p) : l \notin Creates(p) => V[l] = U[l]
    BY <1>0a, ApplyTxDoes
  <2> HIDE DEF V
  <2> QED BY <2>1
<1> HIDE DEF V
<1>2. n \in Nat /\ DOMAIN p.outs = 1 .. n /\ \A k \in 1 .. n : p.outs[k].amt \in Nat
  <2>1. Word \in Nat
    BY PaymentAssumption
  <2> QED BY <2>1, SeqFacts DEF IsTx, IsOut
<1>3. Lists(s, n, B) /\ B = {s[k] : k \in 1 .. n}
  BY <1>2 DEF Lists, Creates, MkTXOLoc
<1>4. \A k \in 1 .. n : s[k] \in B /\ V[s[k]].amt = p.outs[k].amt /\ g[k] = p.outs[k].amt
  <2>1. \A k \in 1 .. n : s[k] = MkTXOLoc(TxHash(p), k) /\ g[k] = p.outs[k].amt
    BY <1>2 DEF OutAmts
  <2>2. \A k \in 1 .. n : DeserializeOut(p.outs[k]).amt = p.outs[k].amt
    BY DEF DeserializeOut
  <2>3. \A k \in 1 .. n : MkTXOLoc(TxHash(p), k) \in B
    BY <1>2 DEF Creates
  <2> HIDE DEF s, g, n, B
  <2> QED BY <1>1, <1>2, <2>1, <2>2, <2>3
<1>5. K \cap B = {} /\ \A l \in K : V[l].amt = U[l].amt
  BY <1>1 DEF Moves
<1>6. \A l \in DOMAIN V : h[l] = V[l].amt
  BY DEF AmtsOf
<1>7. OutSum(p) = SumFunctionOnSet(g, 1 .. n)
  BY DEF OutSum
<1>8. /\ A \subseteq DOMAIN U /\ SumFunctionOnSet(f, A) = InSum(p)
      /\ Worth(U) = SumFunctionOnSet(f, DOMAIN U) /\ Worth(V) = SumFunctionOnSet(h, DOMAIN V)
  BY SpentWorth DEF Worth
<1> HIDE DEF A, B, s, g, n, f, h
<1>9. (\A l \in K : h[l] = f[l] /\ h[l] \in Nat) /\ \A l \in B : h[l] \in Nat
  <2>1. \A l \in B : \E k \in 1 .. n : l = s[k]
    BY <1>3
  <2> QED BY <1>0, <1>1, <1>2, <1>4, <1>5, <1>6, <2>1, SMTT(30)
<1>10. Coins(V)
  BY <1>1, <1>6, <1>9 DEF Coins
<1> HIDE DEF K
<1>11. IsFiniteSet(K) /\ IsFiniteSet(B)
  BY <1>1, FS_Subset
<1>12. SumFunctionOnSet(h, K \cup B) = SumFunctionOnSet(h, K) + SumFunctionOnSet(h, B)
  BY <1>5, <1>9, <1>11, SumUnion
<1>13. SumFunctionOnSet(h, K) = SumFunctionOnSet(f, K)
  BY <1>9, <1>11, SumSame
<1>14. SumFunctionOnSet(h, B) = SumFunctionOnSet(g, 1 .. n)
  <2>1. \A k \in 1 .. n : g[k] = h[s[k]]
    BY <1>1, <1>4, <1>6
  <2> QED BY <1>3, <1>9, <1>11, <2>1, SumListed
<1>15. /\ SumFunctionOnSet(f, DOMAIN U) = SumFunctionOnSet(f, K) + SumFunctionOnSet(f, A)
       /\ SumFunctionOnSet(f, K) \in Nat /\ SumFunctionOnSet(f, A) \in Nat
  BY <1>0a, <1>0, <1>8, SumPart DEF K
<1>16. OutSum(p) \in Nat
  BY RealSums
<1>17. Worth(V) = Worth(U) + (OutSum(p) - InSum(p))
  BY <1>1, <1>7, <1>8, <1>12, <1>13, <1>14, <1>15, <1>16
<1> QED BY <1>10, <1>17 DEF V

-----------------------------------------------------------------------------
(* Blocks neither lose nor make money *)

\* No payment is in a block twice.
PaysApart(c) == \A i \in 1 .. Len(c) : \A j, k \in 2 .. Len(c[i].txs) :
    c[i].txs[j] = c[i].txs[k] => j = k

\* The coinbase transaction pays the fees of the block and the reward.
FeeAmts(P) == [k \in 1 .. Len(P) - 1 |-> Fee(P[k + 1])]
FeeSum(P) == SumFunctionOnSet(FeeAmts(P), 1 .. Len(P) - 1)
Minted(c) == \A i \in 2 .. Len(c) :
    c[i].txs[1].outs[1].amt = (FeeSum(c[i].txs) + Reward(i - 1)) % Word

\* Plain, of any chain.
PlainIn(c, k) ==
    /\ \A i, j \in 1 .. k : i # j => c[i].txs[1] # c[j].txs[1]
    /\ \A s, t \in TxsIn(c, k) : ~Versions(s, t)
    /\ \A t \in TxsIn(c, k) : Exact(t)
    /\ Supply(k) < Word

\* The block after the first i of a plain chain, with the unspent outputs U
\* that those have left.
Ready(c, N, a, i, U, P) ==
    /\ P = c[i + 1].txs /\ GoodChain(c, N) /\ Founded(c, N, a) /\ Apart(N)
    /\ \A n \in Payers : a[n] \in 1 .. Len(c)
    /\ i \in Nat \ {0} /\ i + 1 <= Len(c) /\ GoodUtxo(U, TxsIn(c, i))
    /\ PaysApart(c) /\ \A p \in N : InsApart(p) /\ Balanced(p)
    /\ PlainIn(c, i + 1)

\* The block at hand, as GoodChain has it.
LEMMA ReadyBlock ==
    ASSUME NEW c, NEW N, NEW a, NEW i, NEW U, NEW P, Ready(c, N, a, i, U, P)
    PROVE  /\ i \in Nat /\ Len(c) \in Nat /\ i + 1 \in 1 .. Len(c) /\ i + 1 > 1
           /\ IsSeq(P) /\ Len(P) \in Nat \ {0} /\ DOMAIN P = 1 .. Len(P)
           /\ \A k \in 1 .. Len(P) : /\ IsTx(P[k]) /\ P[k] \in TxsIn(c, i + 1) /\ P[k] \in TxsIn(c, Len(c))
                                     /\ k = 1 => P[k].ins = <<>>
                                     /\ k # 1 => P[k] \in PaysOf(c, i + 1) /\ P[k] \in N /\ P[k].ins # <<>>
<1>0. P = c[i + 1].txs
  BY DEF Ready
<1>1. GoodChain(c, N) /\ i \in Nat /\ Len(c) \in Nat /\ i + 1 \in 1 .. Len(c) /\ i + 1 > 1
  BY SeqFacts DEF Ready, GoodChain
<1>2. BlockShape(c, N, i + 1)
  BY <1>1 DEF GoodChain
<1>3. IsSeq(P) /\ P # <<>> /\ Len(P) \in Nat /\ DOMAIN P = 1 .. Len(P)
  BY <1>0, <1>2, SeqFacts DEF BlockShape
<1>4. Len(P) # 0
  BY <1>3 DEF IsSeq
<1>5. ASSUME NEW k \in 1 .. Len(P)
      PROVE  /\ IsTx(P[k]) /\ P[k] \in TxsIn(c, i + 1) /\ P[k] \in TxsIn(c, Len(c))
             /\ k = 1 => P[k].ins = <<>>
             /\ k # 1 => P[k] \in PaysOf(c, i + 1) /\ P[k] \in N /\ P[k].ins # <<>>
  <2>1. k \in DOMAIN c[i + 1].txs
    BY <1>0, <1>3
  <2>2. i + 1 \in 1 .. i + 1 /\ i + 1 \in 1 .. Len(c)
    BY <1>1
  <2>3. P[k] \in TxsIn(c, i + 1) /\ P[k] \in TxsIn(c, Len(c))
    BY <1>0, <2>1, <2>2, InTxs
  <2> QED BY <1>0, <1>1, <2>1, <2>3, ChainTxs
<1> QED BY <1>1, <1>3, <1>4, <1>5

\* The transactions of the block are new, ...
LEMMA BlockFresh ==
    ASSUME NEW c, NEW N, NEW a, NEW i, NEW U, NEW P, Ready(c, N, a, i, U, P),
           NEW k \in 1 .. Len(P)
    PROVE  P[k] \notin TxsIn(c, i)
<1> SUFFICES ASSUME P[k] \in TxsIn(c, i) PROVE FALSE
  OBVIOUS
<1>1. /\ i \in Nat /\ Len(c) \in Nat /\ i + 1 \in 1 .. Len(c) /\ GoodChain(c, N)
      /\ k = 1 => P[k].ins = <<>>
      /\ k # 1 => P[k] \in PaysOf(c, i + 1) /\ P[k].ins # <<>>
  BY ReadyBlock DEF Ready
<1>2a. PICK j \in 1 .. i : \E x \in DOMAIN c[j].txs : P[k] = c[j].txs[x]
  BY InTxs
<1>2. PICK x \in DOMAIN c[j].txs : P[k] = c[j].txs[x]
  BY <1>2a
<1>3. j \in 1 .. Len(c) /\ j # i + 1 /\ j \in 1 .. i + 1 /\ i + 1 \in 1 .. i + 1
  BY <1>1
<1>4. /\ x = 1 => c[j].txs[x].ins = <<>>
      /\ x # 1 => c[j].txs[x] \in PaysOf(c, j) /\ c[j].txs[x].ins # <<>>
  BY <1>1, <1>3, ChainTxs
<1>5. CASE k = 1
  <2>1. x = 1
    BY <1>1, <1>2, <1>4, <1>5
  <2>2. c[j].txs[1] # P[1]
    BY <1>3 DEF Ready, PlainIn
  <2> QED BY <1>2, <1>5, <2>1, <2>2
<1>6. CASE k # 1
  <2>1. P[k] \in PaysOf(c, j)
    BY <1>1, <1>2, <1>4, <1>6
  <2> DEFINE i1 == i + 1
  <2>2. i1 \in 1 .. Len(c) /\ P[k] \in PaysOf(c, i1) /\ j # i1
    BY <1>1, <1>3, <1>6
  <2> HIDE DEF i1
  <2> QED BY <1>1, <1>3, <2>1, <2>2 DEF GoodChain, Once
<1> QED BY <1>5, <1>6

\* ... and so are their outputs; ...
LEMMA OutputsFresh ==
    ASSUME NEW c, NEW N, NEW a, NEW i, NEW U, NEW P, Ready(c, N, a, i, U, P),
           NEW k \in 1 .. Len(P)
    PROVE  Creates(P[k]) \cap DOMAIN U = {}
<1> SUFFICES ASSUME NEW l \in Creates(P[k]), l \in DOMAIN U PROVE FALSE
  OBVIOUS
<1>1. PICK x \in DOMAIN P[k].outs : l = MkTXOLoc(TxHash(P[k]), x)
  BY DEF Creates
<1>2a. PICK u \in TxsIn(c, i) : \E y \in DOMAIN u.outs : l = MkTXOLoc(TxHash(u), y)
  BY DEF Ready, GoodUtxo, Rooted
<1>2. TxHash(u) = TxHash(P[k])
  BY <1>1, <1>2a DEF MkTXOLoc
<1>3. IsTx(u) /\ IsTx(P[k])
  <2>1. i \in Nat /\ Len(c) \in Nat /\ i + 1 \in 1 .. Len(c) /\ IsTx(P[k])
    BY ReadyBlock
  <2>2. i <= Len(c) /\ GoodChain(c, N)
    BY <2>1 DEF Ready
  <2> QED BY <2>1, <2>2, TxsAreTxs
<1>4. u = P[k]
  BY <1>2, <1>3, HashTells
<1> QED BY <1>4, BlockFresh

\* ... none is there twice, ...
LEMMA BlockApart ==
    ASSUME NEW c, NEW N, NEW a, NEW i, NEW U, NEW P, Ready(c, N, a, i, U, P)
    PROVE  \A j, k \in 1 .. Len(P) : P[j] = P[k] => j = k
<1> SUFFICES ASSUME NEW j \in 1 .. Len(P), NEW k \in 1 .. Len(P), P[j] = P[k] PROVE j = k
  OBVIOUS
<1>1. /\ i + 1 \in 1 .. Len(c) /\ Len(P) \in Nat
      /\ j = 1 => P[j].ins = <<>>
      /\ j # 1 => P[j].ins # <<>>
      /\ k = 1 => P[k].ins = <<>>
      /\ k # 1 => P[k].ins # <<>>
  BY ReadyBlock
<1>2. CASE j # 1 /\ k # 1
  <2>1. j \in 2 .. Len(P) /\ k \in 2 .. Len(P)
    BY <1>1, <1>2
  <2>2. \A x, y \in 2 .. Len(P) : P[x] = P[y] => x = y
    BY <1>1 DEF Ready, PaysApart
  <2> QED BY <2>1, <2>2
<1> QED BY <1>1, <1>2

\* ... and no two of them spend one output.
LEMMA SpendsApart ==
    ASSUME NEW c, NEW N, NEW a, NEW i, NEW U, NEW P, Ready(c, N, a, i, U, P)
    PROVE  \A j, k \in 1 .. Len(P) : Spends(P[j]) \cap Spends(P[k]) # {} => j = k
<1> SUFFICES ASSUME NEW j \in 1 .. Len(P), NEW k \in 1 .. Len(P), Spends(P[j]) \cap Spends(P[k]) # {}
             PROVE  j = k
  OBVIOUS
<1>1. /\ P[j] \in TxsIn(c, Len(c)) /\ P[k] \in TxsIn(c, Len(c))
      /\ P[j] \in TxsIn(c, i + 1) /\ P[k] \in TxsIn(c, i + 1)
  BY ReadyBlock
<1>2. P[j].ins = P[k].ins /\ P[j].ins # <<>>
  BY <1>1, SpentOnce DEF Ready
<1>3. ~Versions(P[j], P[k])
  BY <1>1 DEF Ready, PlainIn
<1>4. P[j] = P[k]
  BY <1>2, <1>3 DEF Versions
<1>5. \A x, y \in 1 .. Len(P) : P[x] = P[y] => x = y
  BY BlockApart
<1> QED BY <1>4, <1>5

\* An input of the block names an output of U and its amount.
LEMMA ReadyInput ==
    ASSUME NEW c, NEW N, NEW a, NEW i, NEW U, NEW P, Ready(c, N, a, i, U, P)
    PROVE  \A k \in 1 .. Len(P) : \A x \in DOMAIN P[k].ins :
              Loc(P[k].ins[x]) \in DOMAIN U /\ U[Loc(P[k].ins[x])].amt = P[k].ins[x].amt
<1> SUFFICES ASSUME NEW k \in 1 .. Len(P), NEW x \in DOMAIN P[k].ins
             PROVE  Loc(P[k].ins[x]) \in DOMAIN U /\ U[Loc(P[k].ins[x])].amt = P[k].ins[x].amt
  OBVIOUS
<1>1. /\ i \in Nat /\ i + 1 <= Len(c) /\ P[k] \in TxsIn(c, i + 1)
      /\ k = 1 => P[k].ins = <<>>
      /\ k # 1 => P[k] \in PaysOf(c, i + 1)
  BY ReadyBlock DEF Ready
<1>2. k # 1
  BY <1>1
<1>3. ~ \E s \in TxsIn(c, i) : Versions(s, P[k])
  <2>1. TxsIn(c, i) \subseteq TxsIn(c, i + 1)
    BY <1>1, TxsNext
  <2> QED BY <1>1, <2>1 DEF Ready, PlainIn
<1>4. /\ GoodChain(c, N) /\ Founded(c, N, a) /\ Apart(N) /\ (\A n \in Payers : a[n] \in 1 .. Len(c))
      /\ GoodUtxo(U, TxsIn(c, i)) /\ P[k] \in PaysOf(c, i + 1)
  BY <1>1, <1>2 DEF Ready
<1> DEFINE t == P[k]
<1>5. t \in PaysOf(c, i + 1) /\ x \in DOMAIN t.ins /\ ~ \E s \in TxsIn(c, i) : Versions(s, t)
  BY <1>3, <1>4
<1> HIDE DEF t
<1>6. Loc(t.ins[x]) \in DOMAIN U /\ U[Loc(t.ins[x])].amt = t.ins[x].amt
  BY <1>1, <1>4, <1>5, NextInput
<1> QED BY <1>6 DEF t

\* What these lemmas say of the transactions P of the block.
Tidy(P, U) ==
    /\ Len(P) \in Nat \ {0} /\ \A k \in 1 .. Len(P) : IsTx(P[k]) /\ InsApart(P[k])
    /\ \A j, k \in 1 .. Len(P) : P[j] = P[k] => j = k
    /\ \A j, k \in 1 .. Len(P) : Spends(P[j]) \cap Spends(P[k]) # {} => j = k
    /\ \A k \in 1 .. Len(P) : Creates(P[k]) \cap DOMAIN U = {}
    /\ \A k \in 1 .. Len(P) : \A x \in DOMAIN P[k].ins :
          Loc(P[k].ins[x]) \in DOMAIN U /\ U[Loc(P[k].ins[x])].amt = P[k].ins[x].amt

\* So a block that is ready is tidy.
LEMMA ReadyTidy ==
    ASSUME NEW c, NEW N, NEW a, NEW i, NEW U, NEW P, Ready(c, N, a, i, U, P)
    PROVE  Tidy(P, U)
<1>1. Len(P) \in Nat \ {0} /\ \A k \in 1 .. Len(P) : IsTx(P[k])
  BY ReadyBlock
<1>2. ASSUME NEW k \in 1 .. Len(P) PROVE InsApart(P[k])
  <2>1. CASE k = 1
    <3>1. P[k].ins = <<>>
      BY <2>1, ReadyBlock
    <3> QED BY <3>1 DEF InsApart
  <2>2. CASE k # 1
    <3>1. P[k] \in N
      BY <2>2, ReadyBlock
    <3> QED BY <3>1 DEF Ready
  <2> QED BY <2>1, <2>2
<1>3. \A j, k \in 1 .. Len(P) : P[j] = P[k] => j = k
  BY BlockApart
<1>4. \A j, k \in 1 .. Len(P) : Spends(P[j]) \cap Spends(P[k]) # {} => j = k
  BY SpendsApart
<1>5. ASSUME NEW k \in 1 .. Len(P) PROVE Creates(P[k]) \cap DOMAIN U = {}
  BY OutputsFresh
<1>6. \A k \in 1 .. Len(P) : \A x \in DOMAIN P[k].ins :
        Loc(P[k].ins[x]) \in DOMAIN U /\ U[Loc(P[k].ins[x])].amt = P[k].ins[x].amt
  BY ReadyInput
<1> QED BY <1>1, <1>2, <1>3, <1>4, <1>5, <1>6 DEF Tidy

\* So each transaction moves what those before it have left.
LEMMA RoundMoves ==
    ASSUME NEW U, NEW P, Tidy(P, U),
           NEW k \in 1 .. Len(P), NEW V, After(V, U, {P[j] : j \in 1 .. k - 1})
    PROVE  Moves(V, P[k])
<1> DEFINE T == {P[j] : j \in 1 .. k - 1}
<1>0. Len(P) \in Nat /\ \A j \in 1 .. Len(P) : IsTx(P[j])
  BY DEF Tidy
<1>1. \A v \in T : \E j \in 1 .. Len(P) : v = P[j] /\ j # k
  BY <1>0
<1>2. ASSUME NEW l, NEW v \in T, l \in Creates(v) PROVE l \notin DOMAIN U /\ l \notin Creates(P[k])
  <2>1. PICK j \in 1 .. Len(P) : v = P[j] /\ j # k
    BY <1>1
  <2>2. l \notin DOMAIN U
    BY <1>2, <2>1 DEF Tidy
  <2>3. ASSUME l \in Creates(P[k]) PROVE FALSE
    <3>1. TxHash(P[j]) = TxHash(P[k])
      BY <1>2, <2>1, <2>3 DEF Creates, MkTXOLoc
    <3>2. P[j] = P[k]
      BY <1>0, <3>1, HashTells
    <3> QED BY <2>1, <3>2 DEF Tidy
  <2> QED BY <2>2, <2>3
<1>3. \A l \in DOMAIN V : \/ l \in DOMAIN U /\ V[l] = U[l]
                          \/ \E v \in T : l \in Creates(v)
  BY DEF After, FromU, FromT, Creates
<1>4. Creates(P[k]) \cap DOMAIN V = {}
  <2>1. Creates(P[k]) \cap DOMAIN U = {}
    BY DEF Tidy
  <2> HIDE DEF T
  <2> QED BY <1>2, <1>3, <2>1
<1>5. ASSUME NEW x \in DOMAIN P[k].ins
      PROVE  Loc(P[k].ins[x]) \in DOMAIN V /\ V[Loc(P[k].ins[x])].amt = P[k].ins[x].amt
  <2> DEFINE l == Loc(P[k].ins[x])
  <2>1. l \in DOMAIN U /\ U[l].amt = P[k].ins[x].amt
    BY DEF Tidy
  <2>2. l \in Spends(P[k])
    BY DEF Spends, Loc
  <2> HIDE DEF l
  <2>3. \A v \in T : l \notin Spends(v)
    <3> SUFFICES ASSUME NEW v \in T, l \in Spends(v) PROVE FALSE
      OBVIOUS
    <3>1. PICK j \in 1 .. Len(P) : v = P[j] /\ j # k
      BY <1>1
    <3>2. Spends(P[j]) \cap Spends(P[k]) # {}
      BY <2>2, <3>1
    <3> QED BY <3>1, <3>2 DEF Tidy
  <2> HIDE DEF T
  <2>4. l \in DOMAIN V
    BY <2>1, <2>3 DEF After, Accounted, T
  <2>5. V[l] = U[l]
    BY <1>2, <1>3, <2>1, <2>4
  <2> QED BY <2>1, <2>4, <2>5 DEF l
<1> QED BY <1>4, <1>5 DEF Moves

\* What a block adds to the worth of the unspent outputs.
Gain(P) == [k \in 1 .. Len(P) |-> OutSum(P[k]) - InSum(P[k])]

\* A block adds what its transactions gain.
LEMMA BlkWorth ==
    ASSUME NEW U, U = [l \in DOMAIN U |-> U[l]], Coins(U), NEW P, Tidy(P, U), NEW b, Sent(b, P)
    PROVE  /\ Coins(ApplyBlk(U, b))
           /\ Worth(ApplyBlk(U, b)) = Worth(U) + SumFunctionOnSet(Gain(P), 1 .. Len(P))
<1> DEFINE n == Len(P)
           f == Gain(P)
           T(i) == {P[k] : k \in 1 .. i}
<1>1. PICK g : Rounds(g, U, b, P)
  BY BlkRounds
<1>2. /\ n \in Nat /\ g[0] = U /\ ApplyBlk(U, b) = g[n]
      /\ \A i \in 1 .. n : g[i] = ApplyTx(g[i - 1], Deserialize(P[i]))
      /\ \A i \in 1 .. n : IsTx(P[i]) /\ InsApart(P[i])
  BY <1>1 DEF Rounds, Tidy
<1>3. \A i \in 1 .. n : f[i] = OutSum(P[i]) - InSum(P[i]) /\ f[i] \in Int
  <2>1. \A i \in 1 .. n : OutSum(P[i]) \in Nat /\ InSum(P[i]) \in Nat
    BY <1>2, RealSums
  <2> QED BY <2>1 DEF Gain
<1>4. Worth(U) \in Int
  <2>1. IsFiniteSet(DOMAIN U) /\ \A l \in DOMAIN U : AmtsOf(U)[l] \in Nat
    BY DEF Coins, AmtsOf
  <2>2. SumFunctionOnSet(AmtsOf(U), DOMAIN U) \in Nat
    BY <2>1, SumSetNat
  <2> QED BY <2>2 DEF Worth
<1> DEFINE Good(i) == /\ After(g[i], U, T(i)) /\ Coins(g[i])
                      /\ Worth(g[i]) = Worth(U) + SumFunctionOnSet(f, 1 .. i)
           W == {i \in Nat : i <= n => Good(i)}
<1> HIDE DEF f, n
<1>5. 0 \in W
  <2>1. T(0) = {}
    OBVIOUS
  <2>2. After(U, U, {})
    BY DEF After, FromU, Accounted, Coins
  <2>3. SumFunctionOnSet(f, 1 .. 0) = 0
    BY <1>2, <1>3, SumUpto
  <2> HIDE DEF T
  <2> QED BY <1>2, <1>4, <2>1, <2>2, <2>3
<1>6. ASSUME NEW i \in Nat, i \in W PROVE i + 1 \in W
  <2> SUFFICES ASSUME i + 1 <= n PROVE Good(i + 1)
    OBVIOUS
  <2> DEFINE j == i + 1
             p == P[j]
             V == g[i]
  <2>1. j \in 1 .. n /\ j - 1 = i /\ i <= n
    BY <1>2
  <2>2. After(V, U, T(i)) /\ Coins(V) /\ Worth(V) = Worth(U) + SumFunctionOnSet(f, 1 .. i)
    BY <1>6, <2>1
  <2>3. T(j) = T(i) \cup {p}
    <3>1. \A k : k \in 1 .. i + 1 <=> k \in 1 .. i \/ k = i + 1
      OBVIOUS
    <3> QED BY <3>1
  <2>4. Moves(V, p)
    <3>1. j \in 1 .. Len(P) /\ T(i) = {P[k] : k \in 1 .. j - 1}
      BY <2>1 DEF n
    <3>2. After(V, U, {P[k] : k \in 1 .. j - 1})
      BY <2>2, <3>1
    <3> HIDE DEF V, j, T
    <3> QED BY <3>1, <3>2, RoundMoves
  <2>5. g[j] = ApplyTx(V, Deserialize(p)) /\ IsTx(p) /\ InsApart(p) /\ f[j] = OutSum(p) - InSum(p) /\ f[j] \in Int
    BY <1>2, <1>3, <2>1
  <2>6. SumFunctionOnSet(f, 1 .. j) = f[j] + SumFunctionOnSet(f, 1 .. i) /\ SumFunctionOnSet(f, 1 .. i) \in Int
    <3>1. n \in Nat /\ \A k \in 1 .. n : f[k] \in Int
      BY <1>2, <1>3
    <3> QED BY <3>1, SumNext
  <2> HIDE DEF T, p, V, j
  <2>7. After(g[j], U, T(j))
    BY <2>2, <2>3, <2>5, AfterTx
  <2>8. Coins(g[j]) /\ Worth(g[j]) = Worth(V) + f[j]
    BY <2>2, <2>4, <2>5, TxWorth
  <2>9. Worth(g[j]) = Worth(U) + SumFunctionOnSet(f, 1 .. j)
    BY <1>4, <2>2, <2>5, <2>6, <2>8
  <2>10. Good(j)
    BY <2>7, <2>8, <2>9
  <2> QED BY <2>10 DEF j
<1>7. Nat \subseteq W
  <2> HIDE DEF W
  <2> QED BY <1>5, <1>6, Loop!SetInduction
<1>8. Good(n)
  <2> HIDE DEF Good
  <2> QED BY <1>2, <1>7
<1> QED BY <1>2, <1>8 DEF f, n

\* The sum of one number.
LEMMA SumOne ==
    ASSUME NEW x, NEW f, f[x] \in Int
    PROVE  SumFunctionOnSet(f, {x}) = f[x]
<1>1. IsFiniteSet({x}) /\ (\A y \in {x} : f[y] \in Int) /\ {x} \ {x} = {}
  BY FS_Singleton
<1>2. SumFunctionOnSet(f, {x}) = f[x] + SumFunctionOnSet(f, {x} \ {x}) /\ SumFunctionOnSet(f, {}) = 0
  BY <1>1, SumTakeOut
<1> QED BY <1>1, <1>2

\* The sum of the negatives.
LEMMA SumNeg ==
    ASSUME NEW n \in Nat, NEW f, NEW g, \A i \in 1 .. n : f[i] \in Int /\ g[i] = 0 - f[i]
    PROVE  SumFunctionOnSet(g, 1 .. n) = 0 - SumFunctionOnSet(f, 1 .. n)
<1> DEFINE W == {i \in Nat : i <= n => SumFunctionOnSet(g, 1 .. i) = 0 - SumFunctionOnSet(f, 1 .. i)}
<1>0. (\A i \in 1 .. n : f[i] \in Int) /\ \A i \in 1 .. n : g[i] \in Int
  OBVIOUS
<1>1. 0 \in W
  <2>1. SumFunctionOnSet(g, 1 .. 0) = 0 /\ SumFunctionOnSet(f, 1 .. 0) = 0
    BY <1>0, SumUpto
  <2> QED BY <2>1
<1>2. ASSUME NEW i \in Nat, i \in W PROVE i + 1 \in W
  <2> SUFFICES ASSUME i + 1 <= n
               PROVE  SumFunctionOnSet(g, 1 .. i + 1) = 0 - SumFunctionOnSet(f, 1 .. i + 1)
    OBVIOUS
  <2>1. i + 1 \in 1 .. n /\ SumFunctionOnSet(g, 1 .. i) = 0 - SumFunctionOnSet(f, 1 .. i)
    BY <1>2
  <2>2. /\ SumFunctionOnSet(f, 1 .. i) \in Int
        /\ SumFunctionOnSet(f, 1 .. i + 1) = f[i + 1] + SumFunctionOnSet(f, 1 .. i)
    BY <1>0, SumNext
  <2>3. SumFunctionOnSet(g, 1 .. i + 1) = g[i + 1] + SumFunctionOnSet(g, 1 .. i)
    BY <1>0, SumNext
  <2>4. g[i + 1] = 0 - f[i + 1] /\ f[i + 1] \in Int
    BY <2>1
  <2> QED BY <2>1, <2>2, <2>3, <2>4
<1>3. Nat \subseteq W
  <2> HIDE DEF W
  <2> QED BY <1>1, <1>2, Loop!SetInduction
<1> QED BY <1>3

\* The output of the coinbase transaction is still there after the block.
LEMMA CoinbaseStays ==
    ASSUME NEW U, NEW P, Tidy(P, U), NEW V, After(V, U, ToSet(P)), Coins(V), DOMAIN P = 1 .. Len(P),
           Len(P[1].outs) = 1
    PROVE  P[1].outs[1].amt <= Worth(V) /\ Worth(V) \in Nat
<1> DEFINE T == ToSet(P)
           q == P[1]
           l == MkTXOLoc(TxHash(q), 1)
<1>0. Len(P) \in Nat \ {0} /\ 1 \in 1 .. Len(P) /\ \A k \in 1 .. Len(P) : IsTx(P[k])
  BY DEF Tidy
<1>1. IsTx(q) /\ q \in T /\ \A v \in T : \E j \in 1 .. Len(P) : v = P[j]
  BY <1>0 DEF ToSet
<1>2. DOMAIN q.outs = 1 .. 1 /\ 1 \in 1 .. 1 /\ \A x \in 1 .. 1 : x = 1
  BY <1>1, SeqFacts DEF IsTx
<1>3. l \in Creates(q)
  BY <1>2 DEF Creates
<1>4. l \notin DOMAIN U
  BY <1>0, <1>3 DEF Tidy
<1> HIDE DEF l, T, q
<1>5. \A v \in T : l \notin Spends(v)
  <2> SUFFICES ASSUME NEW v \in T, l \in Spends(v) PROVE FALSE
    OBVIOUS
  <2>1. PICK j \in 1 .. Len(P) : v = P[j]
    BY <1>1
  <2>2. PICK x \in DOMAIN v.ins : l = Loc(v.ins[x])
    BY DEF Spends, Loc
  <2>3. l \in DOMAIN U
    BY <2>1, <2>2 DEF Tidy
  <2> QED BY <1>4, <2>3
<1>6. l \in DOMAIN V
  BY <1>1, <1>3, <1>5 DEF After, Accounted, T
<1>7. FromT(V, T, l)
  BY <1>4, <1>6 DEF After, FromU, T
<1>8. V[l].amt = q.outs[1].amt
  <2>1a. PICK v \in T : \E k \in DOMAIN v.outs : l = MkTXOLoc(TxHash(v), k) /\ V[l] = DeserializeOut(v.outs[k])
    BY <1>7 DEF FromT
  <2>1. PICK k \in DOMAIN v.outs : l = MkTXOLoc(TxHash(v), k) /\ V[l] = DeserializeOut(v.outs[k])
    BY <2>1a
  <2>2. TxHash(v) = TxHash(q) /\ k = 1
    BY <2>1 DEF l, MkTXOLoc
  <2>3. IsTx(v)
    BY <1>0, <1>1
  <2>4. v = q
    BY <1>1, <2>2, <2>3, HashTells
  <2> QED BY <2>1, <2>2, <2>4 DEF DeserializeOut
<1> DEFINE f == AmtsOf(V)
<1>9. IsFiniteSet(DOMAIN V) /\ (\A x \in DOMAIN V : f[x] \in Nat) /\ f[l] = V[l].amt /\ {l} \subseteq DOMAIN V
  BY <1>6 DEF Coins, AmtsOf
<1>10. Worth(V) = SumFunctionOnSet(f, DOMAIN V)
  BY DEF Worth
<1> HIDE DEF f
<1>11. SumFunctionOnSet(f, {l}) <= SumFunctionOnSet(f, DOMAIN V) /\ SumFunctionOnSet(f, DOMAIN V) \in Nat
  BY <1>9, SumPart
<1>12. SumFunctionOnSet(f, {l}) = f[l]
  <2>1. f[l] \in Int
    BY <1>6, <1>9
  <2> QED BY <2>1, SumOne
<1> QED BY <1>8, <1>9, <1>10, <1>11, <1>12 DEF q

\* The supply grows by the reward.
LEMMA SupplyGrows ==
    ASSUME NEW i \in Nat \ {0}
    PROVE  /\ Supply(i) \in Nat /\ Reward(i) \in Nat /\ Supply(i + 1) = Supply(i) + Reward(i)
<1> DEFINE f == [j \in 1 .. i - 1 |-> Reward(j)]
           g == [j \in 1 .. (i + 1) - 1 |-> Reward(j)]
           n == i - 1
<1>1. InitSbsdy \in Nat /\ InitSubsdy \in Nat /\ n \in Nat /\ n + 1 = i /\ (i + 1) - 1 = i
  BY PaymentAssumption
<1>2. \A j \in 1 .. i : Reward(j) \in Nat
  BY <1>1, RewardIs
<1>3. DOMAIN f = 1 .. n /\ DOMAIN g = 1 .. i
  BY <1>1
<1>4. (\A j \in 1 .. n : f[j] = g[j] /\ f[j] \in Nat) /\ (\A j \in 1 .. n + 1 : g[j] = Reward(j) /\ g[j] \in Nat)
  BY <1>1, <1>2
<1>5. Supply(i) = InitSbsdy + SumFunctionOnSet(f, 1 .. n) /\ Supply(i + 1) = InitSbsdy + SumFunctionOnSet(g, 1 .. i)
  BY <1>3 DEF Supply, SumFunction
<1> HIDE DEF f, g, n
<1>6. SumFunctionOnSet(f, 1 .. n) = SumFunctionOnSet(g, 1 .. n)
  <2>1. IsFiniteSet(1 .. n) /\ \A j \in 1 .. n : f[j] \in Int /\ f[j] = g[j]
    BY <1>1, <1>4, FS_Interval, SMTT(30)
  <2> QED BY <2>1, SumSame
<1>7. SumFunctionOnSet(g, 1 .. n + 1) = g[n + 1] + SumFunctionOnSet(g, 1 .. n)
  <2>1. n + 1 \in Nat /\ (\A j \in 1 .. n + 1 : g[j] \in Int) /\ n + 1 <= n + 1
    BY <1>1, <1>4
  <2> QED BY <1>1, <2>1, SumNext
<1>8. SumFunctionOnSet(f, 1 .. n) \in Nat
  BY <1>1, <1>4, SumNat
<1>9. g[n + 1] = Reward(i) /\ Reward(i) \in Nat
  BY <1>1, <1>2, <1>4
<1> QED BY <1>1, <1>5, <1>6, <1>7, <1>8, <1>9

\* A payment of the block has its inputs' worth, its outputs' and a fee that
\* is what it leaves.
LEMMA PayFee ==
    ASSUME NEW U, Coins(U), Worth(U) < Word, NEW p, IsTx(p), InsApart(p), Moves(U, p),
           Balanced(p), Exact(p)
    PROVE  Fee(p) = InSum(p) - OutSum(p) /\ Fee(p) \in Nat
<1>0. Word \in Nat \ {0}
  BY PaymentAssumption
<1>1. InSum(p) <= Worth(U) /\ Worth(U) \in Nat
  BY SpentWorth
<1>2. OutSum(p) < Word /\ SumOutputs(p) <= SumInputs(p)
  BY DEF Balanced
<1>3. InSum(p) \in Nat /\ OutSum(p) \in Nat /\ (InSum(p) < Word => SumInputs(p) = InSum(p)) /\ SumOutputs(p) = OutSum(p)
  BY <1>2, RealSums
<1>4. InSum(p) < Word
  BY <1>0, <1>1, <1>3
<1>5. InSum(p) - OutSum(p) \in 0 .. Word - 1 /\ InSum(p) - OutSum(p) \in Int
  BY <1>0, <1>2, <1>3, <1>4
<1>6. Fee(p) = InSum(p) - OutSum(p)
  BY <1>0, <1>3, <1>4, <1>5, ModRange DEF Fee
<1> QED BY <1>0, <1>5, <1>6

\* Every amount of an unspent output is a natural number.
LEMMA GoodCoins ==
    ASSUME NEW c, NEW N, GoodChain(c, N), NEW i \in Nat, i <= Len(c), NEW U, GoodUtxo(U, TxsIn(c, i))
    PROVE  Coins(U)
<1>1. ASSUME NEW l \in DOMAIN U PROVE U[l].amt \in Nat
  <2>1a. PICK u \in TxsIn(c, i) : \E k \in DOMAIN u.outs :
           U[l] = [amt |-> u.outs[k].amt, pk |-> u.outs[k].pk, lim |-> U[l].lim]
    BY DEF GoodUtxo, Rooted
  <2>1. PICK k \in DOMAIN u.outs : U[l] = [amt |-> u.outs[k].amt, pk |-> u.outs[k].pk, lim |-> U[l].lim]
    BY <2>1a
  <2>2. IsTx(u)
    BY TxsAreTxs
  <2>3. u.outs[k].amt \in Nat
    BY <2>2, PaymentAssumption DEF IsTx, IsOut
  <2> QED BY <2>1, <2>3
<1> QED BY <1>1 DEF Coins, GoodUtxo

\* The block pays out what it collects, and the reward.
LEMMA BlkSupply ==
    ASSUME NEW c, NEW N, NEW a, NEW i, NEW U, NEW P, Ready(c, N, a, i, U, P), Minted(c),
           Worth(U) = Supply(i), NEW b, Sent(b, P)
    PROVE  Worth(ApplyBlk(U, b)) = Supply(i + 1)
<1> DEFINE V == ApplyBlk(U, b)
           m == Len(P) - 1
           x == P[1].outs[1].amt
           f == Gain(P)
           h == [k \in 1 .. m |-> f[k + 1]]
           e == FeeAmts(P)
           F == FeeSum(P)
<1>0. Word \in Nat \ {0}
  BY PaymentAssumption
<1>1. /\ i \in Nat \ {0} /\ Len(c) \in Nat /\ i + 1 \in 1 .. Len(c) /\ i + 1 > 1 /\ GoodChain(c, N) /\ i <= Len(c)
      /\ Len(P) \in Nat \ {0} /\ DOMAIN P = 1 .. Len(P) /\ IsSeq(P) /\ GoodUtxo(U, TxsIn(c, i)) /\ P = c[i + 1].txs
  <2>1. /\ i \in Nat /\ Len(c) \in Nat /\ i + 1 \in 1 .. Len(c) /\ i + 1 > 1
        /\ Len(P) \in Nat \ {0} /\ DOMAIN P = 1 .. Len(P) /\ IsSeq(P)
    BY ReadyBlock
  <2>2. i \in Nat \ {0} /\ GoodChain(c, N) /\ GoodUtxo(U, TxsIn(c, i)) /\ P = c[i + 1].txs
    BY DEF Ready
  <2>3. i <= Len(c)
    BY <2>1
  <2> QED BY <2>1, <2>2, <2>3
<1>2. Tidy(P, U) /\ Coins(U) /\ U = [l \in DOMAIN U |-> U[l]] /\ IsFiniteSet(DOMAIN U)
  BY <1>1, ReadyTidy, GoodCoins DEF GoodUtxo
<1>3. Coins(V) /\ Worth(V) = Worth(U) + SumFunctionOnSet(f, 1 .. Len(P))
  BY <1>2, BlkWorth
<1>4. After(V, U, ToSet(P))
  BY <1>2, AfterBlk
<1>5. Supply(i) \in Nat /\ Reward(i) \in Nat /\ Supply(i + 1) = Supply(i) + Reward(i) /\ Supply(i + 1) < Word
  BY <1>1, SupplyGrows DEF Ready, PlainIn
<1>6. m \in Nat /\ m + 1 = Len(P) /\ 1 \in 1 .. Len(P) /\ \A k \in 1 .. m : k + 1 \in 1 .. Len(P) /\ k + 1 # 1
  BY <1>1
<1>7. Len(P[1].outs) = 1 /\ P[1].ins = <<>> /\ IsTx(P[1]) /\ x \in Nat
  <2>1. BlockShape(c, N, i + 1)
    BY <1>1 DEF GoodChain
  <2>2. Len(P[1].outs) = 1 /\ P[1].ins = <<>> /\ IsTx(P[1])
    BY <1>1, <2>1 DEF BlockShape
  <2>3. DOMAIN P[1].outs = 1 .. 1 /\ IsSeq(P[1].outs)
    BY <2>2, SeqFacts DEF IsTx
  <2>4. IsOut(P[1].outs[1])
    BY <2>2, <2>3 DEF IsTx
  <2> QED BY <1>0, <2>2, <2>4 DEF IsOut
<1> HIDE DEF V
<1>8. x <= Worth(V) /\ Worth(V) \in Nat
  BY <1>1, <1>2, <1>3, <1>4, <1>7, CoinbaseStays
<1>9. f[1] = x
  <2> DEFINE q == P[1]
             o == OutAmts(q)
             y == InAmts(q)
  <2>1. DOMAIN q.outs = 1 .. 1 /\ Len(q.ins) = 0
    BY <1>7, SeqFacts DEF IsTx
  <2>2. o[1] = x /\ OutSum(q) = SumFunctionOnSet(o, 1 .. 1) /\ InSum(q) = SumFunctionOnSet(y, 1 .. 0)
    BY <1>7, <2>1 DEF OutAmts, OutSum, InSum
  <2>3. 1 .. 1 = {1} /\ 1 .. 0 = {}
    OBVIOUS
  <2>4. f[1] = OutSum(q) - InSum(q)
    BY <1>6 DEF Gain
  <2> HIDE DEF o, y, q
  <2>5. SumFunctionOnSet(o, {1}) = x
    BY <1>7, <2>2, SumOne
  <2>6. SumFunctionOnSet(y, 1 .. 0) = 0
    <3>1. 0 \in Nat /\ \A k \in 1 .. 0 : y[k] \in Int
      OBVIOUS
    <3> QED BY <3>1, SumUpto
  <2> QED BY <1>7, <2>2, <2>3, <2>4, <2>5, <2>6
<1>10. ASSUME NEW k \in 1 .. m
       PROVE  e[k] \in Nat /\ e[k] \in Int /\ h[k] = 0 - e[k] /\ h[k] \in Int
  <2> DEFINE p == P[k + 1]
  <2>1. /\ k + 1 \in 1 .. Len(P) /\ k + 1 # 1
    BY <1>6
  <2>2. IsTx(p) /\ p \in N /\ p \in TxsIn(c, i + 1)
    BY <2>1, ReadyBlock
  <2>3. InsApart(p) /\ Balanced(p) /\ Exact(p)
    BY <2>2 DEF Ready, PlainIn
  <2>4. Moves(U, p)
    BY <1>2, <2>1 DEF Tidy, Moves
  <2>5. Worth(U) < Word
    BY <1>0, <1>5
  <2>6. e[k] = Fee(p)
    BY DEF FeeAmts
  <2>7. h[k] = OutSum(p) - InSum(p)
    BY <2>1 DEF Gain
  <2> HIDE DEF p, e, h
  <2>8. Fee(p) = InSum(p) - OutSum(p) /\ Fee(p) \in Nat
    BY <1>2, <2>2, <2>3, <2>4, <2>5, PayFee
  <2>9. InSum(p) \in Nat /\ OutSum(p) \in Nat
    BY <2>2, RealSums
  <2> QED BY <2>6, <2>7, <2>8, <2>9
<1>11. F = SumFunctionOnSet(e, 1 .. m)
  BY DEF FeeSum
<1>12. \A k \in 1 .. m : h[k] = f[k + 1]
  OBVIOUS
<1>13. \A k \in 1 .. m + 1 : f[k] \in Int
  <2>1. \A k \in 1 .. Len(P) : OutSum(P[k]) \in Nat /\ InSum(P[k]) \in Nat
    BY <1>2, RealSums DEF Tidy
  <2> QED BY <1>6, <2>1 DEF Gain
<1>14. x = (F + Reward(i)) % Word
  <2>1. i + 1 \in 2 .. Len(c) /\ (i + 1) - 1 = i
    BY <1>1
  <2> QED BY <1>1, <2>1 DEF Minted
<1> HIDE DEF f, h, e, m, x, F
<1>15. SumFunctionOnSet(f, 1 .. m + 1) = f[1] + SumFunctionOnSet(h, 1 .. m)
  BY <1>6, <1>12, <1>13, SumShift
<1>16. SumFunctionOnSet(h, 1 .. m) = 0 - F /\ F \in Nat
  <2>1. SumFunctionOnSet(h, 1 .. m) = 0 - SumFunctionOnSet(e, 1 .. m)
    BY <1>6, <1>10, SumNeg
  <2>2. SumFunctionOnSet(e, 1 .. m) \in Nat
    BY <1>6, <1>10, SumNat
  <2> QED BY <1>11, <2>1, <2>2
<1>17. Worth(V) = Supply(i) + (x - F)
  BY <1>3, <1>5, <1>6, <1>7, <1>9, <1>15, <1>16
<1>18. F <= Supply(i)
  BY <1>5, <1>7, <1>8, <1>16, <1>17
<1>19. F + Reward(i) \in 0 .. Word - 1 /\ F + Reward(i) \in Int
  BY <1>0, <1>5, <1>16, <1>18
<1>20. x = F + Reward(i)
  BY <1>0, <1>14, <1>19, ModRange
<1> QED BY <1>5, <1>16, <1>17, <1>20 DEF V

\* Every node whose chain is plain has the supply of its chain.
Funded(c, a, U) == \A n \in Nodes : PlainIn(c, a[n]) => Worth(U[n]) = Supply(a[n])

MInv == PaysApart(chain) /\ Minted(chain) /\ Funded(chain, at, utxo)

\* A chain that is plain was so a block before.
LEMMA PlainLess ==
    ASSUME NEW c, NEW i \in Nat \ {0}, PlainIn(c, i + 1)
    PROVE  PlainIn(c, i)
<1>1. TxsIn(c, i) \subseteq TxsIn(c, i + 1)
  BY TxsNext
<1>2. 1 .. i \subseteq 1 .. i + 1
  OBVIOUS
<1>3. Supply(i) < Word
  <2>1. Supply(i) \in Nat /\ Reward(i) \in Nat /\ Supply(i + 1) = Supply(i) + Reward(i) /\ Supply(i + 1) < Word
    BY SupplyGrows DEF PlainIn
  <2>2. Word \in Nat
    BY PaymentAssumption
  <2> QED BY <2>1, <2>2
<1> QED BY <1>1, <1>2, <1>3 DEF PlainIn

\* AddBlk, for the supply.
LEMMA AddFunded ==
    ASSUME NEW c, NEW N, NEW a, NEW U, GoodChain(c, N), Founded(c, N, a), Apart(N), Sees(c, a, U),
           a \in [Nodes -> 1 .. Len(c)], NEW n \in Nodes, a[n] + 1 <= Len(c),
           PaysApart(c), Minted(c), Funded(c, a, U), \A p \in N : InsApart(p) /\ Balanced(p),
           NEW b, Sent(b, c[a[n] + 1].txs),
           NEW V, NewUtxo(U, V, n, b), NEW e, NewAt(a, e, n)
    PROVE  Funded(c, e, V)
<1>1. Len(c) \in Nat /\ a[n] \in Nat \ {0}
  BY SeqFacts DEF GoodChain
<1>2. (\A m \in Nodes : m # n => e[m] = a[m]) /\ e[n] = a[n] + 1
  BY DEF NewAt
<1>3. V[n] = ApplyBlk(U[n], b) /\ \A m \in Nodes : m # n => V[m] = U[m]
  BY DEF Sees, NewUtxo
<1> DEFINE i == a[n]
           P == c[i + 1].txs
           W == U[n]
<1>4. ASSUME PlainIn(c, i + 1) PROVE Worth(ApplyBlk(W, b)) = Supply(i + 1)
  <2>1. i \in Nat \ {0} /\ i + 1 <= Len(c) /\ P = c[i + 1].txs /\ Sent(b, P)
    BY <1>1
  <2>2. GoodUtxo(W, TxsIn(c, i)) /\ (PlainIn(c, i) => Worth(W) = Supply(i))
    BY DEF Sees, Funded
  <2>3. \A m \in Payers : a[m] \in 1 .. Len(c)
    BY DEF Payers
  <2> HIDE DEF i, P, W
  <2>4. Worth(W) = Supply(i)
    BY <1>4, <2>1, <2>2, PlainLess
  <2>5. Ready(c, N, a, i, W, P)
    BY <1>4, <2>1, <2>2, <2>3 DEF Ready
  <2> QED BY <2>1, <2>4, <2>5, BlkSupply
<1> QED BY <1>2, <1>3, <1>4 DEF Funded

\* The first blocks of a longer chain are as plain.
LEMMA LongerPlain ==
    ASSUME NEW d, NEW c, NEW b, Longer(d, c, b), NEW k \in 1 .. Len(c)
    PROVE  PlainIn(d, k) <=> PlainIn(c, k)
<1>1. Len(c) \in Nat /\ k \in 0 .. Len(c) /\ \A i \in 1 .. k : i \in 1 .. Len(c)
  BY DEF Longer
<1>2. TxsIn(d, k) = TxsIn(c, k) /\ \A i \in 1 .. k : d[i] = c[i]
  BY <1>1 DEF Longer
<1> QED BY <1>2 DEF PlainIn

\* The new block has its payments once, and its fees and its reward.
LEMMA MinedMoney ==
    ASSUME IInv, MInv, NEW n \in Miners, at[n] = Len(chain), NEW S \in SUBSET pool[n],
           NEW b, NEW P, MinedOf(P, n, S, b), NEW d, Longer(d, chain, SerializeBlk(b))
    PROVE  PaysApart(d) /\ Minted(d) /\ Funded(d, at, utxo)
<1> DEFINE L == Len(chain)
           m == Cardinality(S)
           s == SetToSeq(S)
<1>1. /\ L \in Nat /\ Len(d) = L + 1 /\ d[L + 1] = SerializeBlk(b)
      /\ \A i \in 1 .. L : d[i] = chain[i]
  BY DEF Longer
<1>2. d[L + 1].txs = P
  BY <1>1 DEF MinedOf
<1>3. IsFiniteSet(S) /\ m \in Nat /\ Len(P) = m + 1
  BY FS_Subset, FS_CardinalityType DEF IInv, Pooled, MinedOf
<1>4. /\ IsSeq(s) /\ Len(s) = m /\ DOMAIN s = 1 .. m
      /\ \A j, k \in 1 .. m : s[j] = s[k] => j = k
  <2>1. IsSeq(s) /\ Len(s) = m /\ \A j, k \in DOMAIN s : s[j] = s[k] => j = k
    BY <1>3, Listing
  <2>2. DOMAIN s = 1 .. m
    BY <2>1, SeqFacts
  <2> QED BY <2>1, <2>2
<1>5. /\ \A k \in 1 .. m : s[k] = Deserialize(P[k + 1]) /\ P[k + 1] \in net
      /\ P[1].outs[1].amt = (FeesOf(s) + Reward(at[n])) % Word
  BY DEF MinedOf, NewTx, NewTxOutpt
<1> HIDE DEF L, m, s
<1>6. \A k \in 1 .. m : Fee(s[k]) = Fee(P[k + 1]) /\ Fee(P[k + 1]) \in Int
  <2> SUFFICES ASSUME NEW k \in 1 .. m PROVE Fee(s[k]) = Fee(P[k + 1]) /\ Fee(P[k + 1]) \in Int
    OBVIOUS
  <2> DEFINE p == P[k + 1]
  <2>1. s[k] = Deserialize(p) /\ IsTx(p)
    BY <1>5 DEF IInv, GoodChain
  <2> HIDE DEF p
  <2>2. /\ SumInputs(s[k]) = SumInputs(p) /\ SumOutputs(s[k]) = SumOutputs(p)
        /\ SumInputs(p) \in 0 .. Word - 1 /\ SumOutputs(p) \in 0 .. Word - 1
    BY <2>1, TxSums
  <2>3. Word \in Nat \ {0}
    BY PaymentAssumption
  <2>4. SumInputs(p) - SumOutputs(p) \in Int
    BY <2>2, <2>3
  <2>5. Fee(s[k]) = Fee(p) /\ Fee(p) \in Int
    BY <2>2, <2>3, <2>4, ModRange DEF Fee
  <2> QED BY <2>5 DEF p
<1>7. P[1].outs[1].amt = (FeeSum(P) + Reward(L)) % Word
  <2> DEFINE e == FeeAmts(P)
             F == FeeSum(P)
             R == Reward(L)
  <2>1. F = SumFunctionOnSet(e, 1 .. m) /\ \A k \in 1 .. m : e[k] = Fee(P[k + 1])
    <3>1. Len(P) - 1 = m
      BY <1>3
    <3> QED BY <3>1 DEF FeeSum, FeeAmts
  <2>2. R \in Int /\ Word \in Nat \ {0}
    <3>1. InitSubsdy \in Nat /\ Word \in Nat \ {0}
      BY PaymentAssumption
    <3> QED BY <1>1, <3>1, RewardIs
  <2>3. at[n] = L
    BY DEF L
  <2> HIDE DEF e, F, R
  <2>4. \A k \in DOMAIN s : Fee(s[k]) \in Int /\ e[k] = Fee(s[k])
    BY <1>4, <1>6, <2>1
  <2>5. FeesOf(s) = SumFunctionOnSet(e, 1 .. Len(s)) % Word
    BY <1>4, <2>4, FeesAre
  <2>6. F \in Int
    <3>1. m \in 0 .. m /\ \A k \in 1 .. m : e[k] \in Int
      BY <1>3, <1>6, <2>1
    <3> QED BY <1>3, <2>1, <3>1, SumUpto
  <2>7. ((F % Word) + R) % Word = (F + R) % Word
    BY <2>2, <2>6, ModAdd
  <2>8. FeesOf(s) = F % Word
    BY <1>4, <2>1, <2>5
  <2> QED BY <1>5, <2>3, <2>7, <2>8 DEF F, R
<1>8. \A i \in 1 .. Len(d) : i \in 1 .. L \/ i = L + 1
  BY <1>1
<1>9. PaysApart(d)
  <2>1. ASSUME NEW j \in 2 .. Len(P), NEW k \in 2 .. Len(P), P[j] = P[k] PROVE j = k
    <3> DEFINE x == j - 1
               y == k - 1
    <3>1. x \in 1 .. m /\ y \in 1 .. m /\ j = x + 1 /\ k = y + 1
      BY <1>3
    <3>2. s[x] = s[y]
      BY <1>5, <2>1, <3>1
    <3>3. x = y
      BY <1>4, <3>1, <3>2
    <3> QED BY <3>1, <3>3
  <2>2. ASSUME NEW i \in 1 .. L, NEW j \in 2 .. Len(d[i].txs), NEW k \in 2 .. Len(d[i].txs), d[i].txs[j] = d[i].txs[k]
        PROVE  j = k
    BY <1>1, <2>2 DEF MInv, PaysApart, L
  <2> QED BY <1>2, <1>8, <2>1, <2>2 DEF PaysApart
<1>10. Minted(d)
  <2> SUFFICES ASSUME NEW i \in 2 .. Len(d)
               PROVE  d[i].txs[1].outs[1].amt = (FeeSum(d[i].txs) + Reward(i - 1)) % Word
    BY DEF Minted
  <2>1. CASE i = L + 1
    <3>1. i - 1 = L
      BY <1>1, <2>1
    <3> QED BY <1>2, <1>7, <2>1, <3>1
  <2>2. CASE i # L + 1
    <3>1. i \in 2 .. L /\ i \in 1 .. L
      BY <1>1, <2>2
    <3>2. d[i] = chain[i]
      BY <1>1, <3>1
    <3> QED BY <3>1, <3>2 DEF MInv, Minted, L
  <2> QED BY <2>1, <2>2
<1>11. Funded(d, at, utxo)
  <2> SUFFICES ASSUME NEW x \in Nodes, PlainIn(d, at[x]) PROVE Worth(utxo[x]) = Supply(at[x])
    BY DEF Funded
  <2>1. at[x] \in 1 .. Len(chain)
    BY DEF IInv, Counts
  <2>2. PlainIn(chain, at[x])
    BY <2>1, LongerPlain
  <2> QED BY <2>2 DEF MInv, Funded
<1> QED BY <1>9, <1>10, <1>11

\* Mine and HndlMnrBlk.
LEMMA MineMoney ==
    ASSUME IInv, NInv, MInv, NEW n \in Miners, Mine(n)
    PROVE  MInv'
<1>1. at[n] = Len(chain) /\ n \in Nodes
  BY PaymentAssumption DEF Mine
<1>2. PICK S \in MiningPools(n) \ {{}} :
        LET txs == SetToSeq(S)
            b   == NewBlk(BlkHash(chain[at[n]]), <<GenCBTx(n, txs)>> \o txs, InitPOWD)
        IN  \E i \in CalcNonce(b) :
               LET mined == [b EXCEPT !.hdr.nonce = i]
               IN  AddBlk(n, mined) /\ chain' = Append(chain, SerializeBlk(mined))
  BY DEF Mine
<1> DEFINE bb == NewBlk(BlkHash(chain[at[n]]), <<GenCBTx(n, SetToSeq(S))>> \o SetToSeq(S), InitPOWD)
<1>3. PICK i \in CalcNonce(bb) :
        AddBlk(n, [bb EXCEPT !.hdr.nonce = i])
        /\ chain' = Append(chain, SerializeBlk([bb EXCEPT !.hdr.nonce = i]))
  BY <1>2
<1>4. S \in SUBSET pool[n] /\ S # {}
  BY DEF MiningPools
<1> DEFINE b == [bb EXCEPT !.hdr.nonce = i]
<1>5. PICK P : MinedOf(P, n, S, b)
  BY <1>4, MinedIs
<1> HIDE DEF bb, b
<1>6. AddBlk(n, b) /\ chain' = Append(chain, SerializeBlk(b))
  BY <1>3 DEF b
<1>7. PICK d : d = chain'
  OBVIOUS
<1>8. GoodChain(d, net)
  BY <1>1, <1>4, <1>5, <1>6, <1>7, MinedChain
<1>9. Longer(d, chain, SerializeBlk(b))
  BY <1>6, <1>7, LongerChain DEF IInv, GoodChain
<1>10. PaysApart(d) /\ Minted(d) /\ Funded(d, at, utxo)
  BY <1>1, <1>4, <1>5, <1>9, MinedMoney
<1> DEFINE L == Len(chain)
<1>11. /\ L \in Nat /\ Len(d) = L + 1 /\ d[L + 1] = SerializeBlk(b)
       /\ \A k \in 0 .. L : TxsIn(d, k) = TxsIn(chain, k)
  BY <1>9 DEF Longer
<1>12. at \in [Nodes -> 1 .. Len(d)] /\ at[n] + 1 <= Len(d) /\ \A m \in Nodes : TxsIn(d, at[m]) = TxsIn(chain, at[m])
  <2>1. at \in [Nodes -> 1 .. L]
    BY DEF IInv, Counts
  <2>2. 1 .. L \subseteq 1 .. Len(d) /\ 1 .. L \subseteq 0 .. L /\ L + 1 <= Len(d)
    BY <1>11
  <2> HIDE DEF L
  <2> QED BY <1>1, <1>11, <2>1, <2>2 DEF L
<1>13. Sent(b, d[at[n] + 1].txs)
  BY <1>1, <1>5, <1>11 DEF MinedOf
<1>14. Founded(d, net, at) /\ Sees(d, at, utxo) /\ Apart(net)
  <2>1. Founded(chain, net, at) /\ Sees(chain, at, utxo) /\ Apart(net)
    BY DEF IInv
  <2>2. Payers \subseteq Nodes
    BY DEF Payers
  <2> QED BY <1>12, <2>1, <2>2 DEF Founded, Sees
<1>15. NewUtxo(utxo, utxo', n, b) /\ NewAt(at, at', n)
  BY <1>6 DEF AddBlk, NewUtxo, NewAt
<1>16. \A p \in net : InsApart(p) /\ Balanced(p)
  BY DEF NInv
<1>17. Funded(d, at', utxo')
  BY <1>1, <1>8, <1>10, <1>12, <1>13, <1>14, <1>15, <1>16, AddFunded
<1> QED BY <1>7, <1>10, <1>17 DEF MInv

\* ForwardBlock.
LEMMA ForwardBlockMoney ==
    ASSUME IInv, NInv, MInv, NEW n \in Nodes, ForwardBlock(n)
    PROVE  MInv'
<1> DEFINE i == at[n] + 1
           b == DeserializeBlk(chain[i])
<1>1. chain' = chain
  BY DEF ForwardBlock
<1>2. CASE UNCHANGED <<utxo, at>>
  BY <1>1, <1>2 DEF MInv
<1>3. CASE AddBlk(n, b)
  <2>1. /\ at \in [Nodes -> 1 .. Len(chain)] /\ at[n] \in Nat /\ at[n] + 1 <= Len(chain)
        /\ GoodChain(chain, net) /\ Founded(chain, net, at) /\ Sees(chain, at, utxo) /\ Apart(net)
        /\ PaysApart(chain) /\ Minted(chain) /\ Funded(chain, at, utxo)
    BY DEF IInv, Counts, ForwardBlock, MInv
  <2>2. Sent(b, chain[at[n] + 1].txs)
    <3>1. i \in 1 .. Len(chain)
      <4>1. Len(chain) \in Nat
        BY <2>1, SeqFacts DEF GoodChain
      <4> QED BY <2>1, <4>1
    <3> QED BY <2>1, <3>1, SentBlk
  <2>3. NewUtxo(utxo, utxo', n, b) /\ NewAt(at, at', n)
    BY <1>3 DEF AddBlk, NewUtxo, NewAt
  <2>4. \A p \in net : InsApart(p) /\ Balanced(p)
    BY DEF NInv
  <2> HIDE DEF b
  <2>5. Funded(chain, at', utxo')
    BY <2>1, <2>2, <2>3, <2>4, AddFunded
  <2> QED BY <1>1, <2>5 DEF MInv
<1> QED BY <1>2, <1>3 DEF ForwardBlock

\* The flag of an output does not change its amount.
LEMMA FlagsMoney ==
    ASSUME IInv, MInv, NEW n \in Payers, NEW S, SetLiminal(n, S), UNCHANGED <<chain, at>>
    PROVE  MInv'
<1> DEFINE U == utxo[n]
           V == [l \in DOMAIN U |-> IF l \in S THEN [U[l] EXCEPT !.lim = TRUE] ELSE U[l]]
<1>1. n \in Nodes /\ utxo = [m \in Nodes |-> utxo[m]] /\ GoodUtxo(U, TxsIn(chain, at[n]))
  BY DEF Payers, IInv, Sees
<1>2. utxo' = [utxo EXCEPT ![n] = V]
  BY DEF SetLiminal
<1>3. Worth(V) = Worth(U)
  <2>1. DOMAIN V = DOMAIN U
    OBVIOUS
  <2>2. ASSUME NEW l \in DOMAIN U PROVE V[l].amt = U[l].amt
    <3>1. U[l] = [amt |-> U[l].amt, pk |-> U[l].pk, lim |-> U[l].lim]
      BY <1>1 DEF GoodUtxo, Rooted
    <3>2. CASE l \in S
      <4>1. V[l] = [U[l] EXCEPT !.lim = TRUE]
        BY <3>2
      <4> QED BY <3>1, <4>1
    <3>3. CASE l \notin S
      BY <3>3
    <3> QED BY <3>2, <3>3
  <2> HIDE DEF U, V
  <2>3. AmtsOf(V) = AmtsOf(U)
    BY <2>1, <2>2 DEF AmtsOf
  <2> QED BY <2>1, <2>3 DEF Worth
<1> HIDE DEF V
<1>4. \A m \in Nodes : Worth(utxo'[m]) = Worth(utxo[m])
  BY <1>1, <1>2, <1>3
<1>5. Funded(chain, at, utxo')
  BY <1>4 DEF MInv, Funded
<1> QED BY <1>5 DEF MInv

\* The genesis output is the supply of the genesis block.
LEMMA InitMoney == Init => MInv
<1> SUFFICES ASSUME Init PROVE MInv
  OBVIOUS
<1> DEFINE g == NewTx(<<>>, <<NewTxOutpt(InitSbsdy, GenPK)>>)
           b == DeserializeBlk(GenesisBlock)
           P == <<g>>
           V == ApplyBlk(<<>>, b)
<1>1. IInv
  BY InitIInv
<1>2. /\ chain = <<GenesisBlock>> /\ Len(chain) = 1 /\ chain[1] = GenesisBlock /\ GenesisBlock.txs = P
      /\ at = [n \in Nodes |-> 1] /\ utxo = [n \in Nodes |-> V]
  BY DEF Init, GenesisBlock
<1>3. Len(P) = 1 /\ P[1] = g /\ 2 .. 1 = {} /\ (\A x \in 1 .. 1 : x = 1) /\ 1 \in 1 .. 1
  OBVIOUS
<1>4. Sent(b, P)
  <2>1. Sent(DeserializeBlk(chain[1]), chain[1].txs)
    BY <1>1, <1>2, <1>3, SentBlk DEF IInv
  <2> QED BY <1>2, <2>1
<1>5. IsTx(g)
  BY <1>3, <1>4 DEF Sent
<1>6. g.ins = <<>> /\ g.outs = <<NewTxOutpt(InitSbsdy, GenPK)>> /\ Len(g.outs) = 1 /\ DOMAIN g.outs = 1 .. 1
      /\ g.outs[1].amt = InitSbsdy /\ Len(g.ins) = 0 /\ DOMAIN g.ins = {}
  BY DEF NewTx, NewTxOutpt
<1> HIDE DEF g
<1>7. PICK r : Rounds(r, <<>>, b, P)
  BY <1>4, BlkRounds
<1>8. V = ApplyTx(<<>>, Deserialize(g))
  <2>1. r[0] = <<>> /\ V = r[1] /\ r[1] = ApplyTx(r[1 - 1], Deserialize(P[1]))
    BY <1>3, <1>7 DEF Rounds
  <2>2. 1 - 1 = 0
    OBVIOUS
  <2> QED BY <1>3, <2>1, <2>2
<1> HIDE DEF P, V, b
<1>9. Worth(V) = InitSbsdy
  <2> DEFINE o == OutAmts(g)
             y == InAmts(g)
  <2>1. DOMAIN <<>> = {} /\ IsFiniteSet({})
    BY FS_EmptySet
  <2>2. Coins(<<>>) /\ InsApart(g) /\ Moves(<<>>, g)
    BY <1>6, <2>1 DEF Coins, InsApart, Moves
  <2>3. Worth(V) = Worth(<<>>) + (OutSum(g) - InSum(g))
    BY <1>5, <1>8, <2>2, TxWorth
  <2>4. \A f : SumFunctionOnSet(f, {}) = 0
    <3> SUFFICES ASSUME NEW f PROVE SumFunctionOnSet(f, {}) = 0
      OBVIOUS
    <3>1. \A x \in {} : f[x] \in Int
      OBVIOUS
    <3> QED BY <2>1, <3>1, SumTakeOut
  <2>5. Worth(<<>>) = 0
    BY <2>1, <2>4 DEF Worth
  <2>6. InSum(g) = SumFunctionOnSet(y, 1 .. 0) /\ OutSum(g) = SumFunctionOnSet(o, 1 .. 1) /\ o[1] = InitSbsdy
    BY <1>6 DEF InSum, OutSum, OutAmts
  <2>7. 1 .. 0 = {} /\ 1 .. 1 = {1} /\ InitSbsdy \in Int
    BY PaymentAssumption
  <2> HIDE DEF o, y
  <2>8. SumFunctionOnSet(o, {1}) = InitSbsdy
    BY <2>6, <2>7, SumOne
  <2> QED BY <2>3, <2>4, <2>5, <2>6, <2>7, <2>8
<1>10. Supply(1) = InitSbsdy
  <2> DEFINE f == [j \in 1 .. 1 - 1 |-> Reward(j)]
  <2>1. DOMAIN f = {}
    OBVIOUS
  <2>2. Supply(1) = InitSbsdy + SumFunctionOnSet(f, {})
    BY <2>1 DEF Supply, SumFunction
  <2>3. SumFunctionOnSet(f, {}) = 0
    <3>1. IsFiniteSet({}) /\ \A x \in {} : f[x] \in Int
      BY FS_EmptySet
    <3> HIDE DEF f
    <3> QED BY <3>1, SumTakeOut
  <2>4. InitSbsdy \in Int
    BY PaymentAssumption
  <2> QED BY <2>2, <2>3, <2>4
<1>11. Funded(chain, at, utxo)
  BY <1>2, <1>9, <1>10 DEF Funded
<1>12. PaysApart(chain) /\ Minted(chain)
  <2>1. Len(chain[1].txs) = 1
    BY <1>2, <1>3 DEF P
  <2> QED BY <1>2, <1>3, <2>1 DEF PaysApart, Minted
<1> QED BY <1>11, <1>12 DEF MInv

\* Every step keeps the supply.
LEMMA NextMInv == IInv /\ NInv /\ MInv /\ [Next]_payVars => MInv'
<1> SUFFICES ASSUME IInv, NInv, MInv, [Next]_payVars PROVE MInv'
  OBVIOUS
<1>1. CASE UNCHANGED <<chain, at, utxo>>
  BY <1>1 DEF MInv
<1>2. ASSUME NEW r \in Requests, SendTx(r) PROVE MInv'
  <2>1. r.from \in Payers
    BY PaymentAssumption
  <2>2. CASE HndlTxReq(r)
    <3>1. PICK S : SetLiminal(r.from, S)
      BY <2>2 DEF HndlTxReq
    <3>2. UNCHANGED <<chain, at>>
      BY <2>2 DEF HndlTxReq
    <3> QED BY <2>1, <3>1, <3>2, FlagsMoney
  <2>3. CASE HndlTxReqFails(r)
    <3>1. SetLiminal(r.from, Spendable(r.from)) /\ UNCHANGED <<chain, at>>
      BY <2>3 DEF HndlTxReqFails
    <3> QED BY <2>1, <3>1, FlagsMoney
  <2> QED BY <1>2, <2>2, <2>3 DEF SendTx
<1>3. ASSUME NEW n \in Payers, HndlBlk(n) PROVE MInv'
  BY <1>1, <1>3 DEF HndlBlk
<1>4. ASSUME NEW n \in Nodes, ForwardBlock(n) PROVE MInv'
  BY <1>4, ForwardBlockMoney
<1>5. ASSUME NEW n \in Miners, Mine(n) PROVE MInv'
  BY <1>5, MineMoney
<1>6. ASSUME NEW n \in Miners, MineNothing(n) PROVE MInv'
  BY <1>1, <1>6 DEF MineNothing
<1>7. ASSUME NEW n \in Miners, NEW p \in net, ForwardTransaction(n, p) PROVE MInv'
  BY <1>1, <1>7 DEF ForwardTransaction
<1>8. CASE UNCHANGED payVars
  BY <1>1, <1>8 DEF payVars
<1> QED BY <1>2, <1>3, <1>4, <1>5, <1>6, <1>7, <1>8 DEF Next

\* The supply is kept.
LEMMA Money == Spec => []MInv
<1>1. Init => MInv
  BY InitMoney
<1>2. IInv /\ NInv /\ MInv /\ [Next]_payVars => MInv'
  BY NextMInv
<1> QED BY <1>1, <1>2, Invariance, Balance, PTL DEF Spec

\* As long as no sum wraps, no coinbase transaction comes twice and no payment
\* is in the chain in two versions, the unspent outputs of every node are worth
\* the genesis output and the rewards of its blocks.
THEOREM PaymentSupplyKept == Spec => []SupplyKept
<1>1. ASSUME MInv PROVE SupplyKept
  <2> SUFFICES ASSUME NEW n \in Nodes, Plain(at[n]) PROVE SumFunction(Amts(n)) = Supply(at[n])
    BY DEF SupplyKept
  <2>1. \A k : TxsOf(k) = TxsIn(chain, k)
    BY DEF TxsOf, TxsIn
  <2>2. PlainIn(chain, at[n])
    BY <2>1 DEF Plain, PlainIn
  <2>3. SumFunction(Amts(n)) = Worth(utxo[n])
    BY DEF SumFunction, Amts, Worth, AmtsOf
  <2> QED BY <1>1, <2>2, <2>3 DEF MInv, Funded
<1> QED BY <1>1, Money, PTL
=============================================================================
