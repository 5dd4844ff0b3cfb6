---------------------------- MODULE TxPoolProofs ----------------------------
(***************************************************************************)
(* Theorems about the miner's transaction pool, for every set of           *)
(* transactions and blocks, every fee, size and capacity, and about the    *)
(* array heap below it, which the wallet uses too: its loops are folds, so *)
(* the induction over their rounds is that of FoldFacts.                   *)
(***************************************************************************)
EXTENDS TxPool, FiniteSetTheorems, SequenceTheorems, TLAPS

Plus(a, b) == a + b
UpRound(n, s) == UpStep(s)
DownRound(n, s) == DownStep(s)
DownAt(i, g) == Down(g, i)
RmvRound(t, acc) == RmvStep(acc, t)

Total == INSTANCE FoldFacts WITH Op <- Plus
UpLoop == INSTANCE FoldFacts WITH Op <- UpRound
DownLoop == INSTANCE FoldFacts WITH Op <- DownRound
InitLoop == INSTANCE FoldFacts WITH Op <- DownAt
Cuts == INSTANCE FoldFacts WITH Op <- RmvRound
-----------------------------------------------------------------------------
(* Sums and numbers *)

\* The sum is a fold, and so has its facts.
LEMMA SumIsFold ==
    /\ Total!Adds
    /\ \A f, D : SumFunctionOnSet(f, D) = Total!SumOver(f, D)
    /\ \A D : IsFiniteSet(D) => Total!IsFiniteSet(D)
<1>1. Total!Adds
  BY DEF Total!Adds, Plus
<1>2. \A f, D : SumFunctionOnSet(f, D) = Total!SumOver(f, D)
  BY DEF SumFunctionOnSet, FoldFunctionOnSet, MapThenFoldSet, Plus,
         Total!SumOver, Total!FoldFunctionOnSet, Total!MapThenFoldSet
<1>3. \A D : IsFiniteSet(D) => Total!IsFiniteSet(D)
  BY DEF IsFiniteSet, Total!IsFiniteSet
<1> QED BY <1>1, <1>2, <1>3

\* Any element may be taken out of a sum first.
LEMMA SumTakeOut ==
    ASSUME NEW D, IsFiniteSet(D), NEW f, \A x \in D : f[x] \in Int
    PROVE  /\ SumFunctionOnSet(f, D) \in Int
           /\ SumFunctionOnSet(f, {}) = 0
           /\ \A x \in D : SumFunctionOnSet(f, D) = f[x] + SumFunctionOnSet(f, D \ {x})
BY SumIsFold, Total!SumTakeOut

\* Functions with the same values have the same sum.
LEMMA SumSame ==
    ASSUME NEW D, IsFiniteSet(D), NEW f, NEW e, \A x \in D : f[x] \in Int /\ e[x] = f[x]
    PROVE  SumFunctionOnSet(f, D) = SumFunctionOnSet(e, D)
<1>1. D \in SUBSET D /\ \A x \in D \ D : f[x] = 0
  OBVIOUS
<1> QED BY <1>1, SumIsFold, Total!SumSame

\* The sum changes by what one value changes by.
LEMMA SumChange ==
    ASSUME NEW D, IsFiniteSet(D), NEW f, NEW e, NEW x \in D, f[x] \in Int, e[x] \in Int,
           \A y \in D : y # x => f[y] \in Int /\ e[y] = f[y]
    PROVE  SumFunctionOnSet(e, D) = SumFunctionOnSet(f, D) + (e[x] - f[x])
<1>1. Total!SumOver(e, D) = Total!SumOver(f, D) + (e[x] - f[x])
  BY SumIsFold, Total!SumChange
<1> QED BY <1>1, SumIsFold

\* Two values that trade places.
LEMMA SumSwap ==
    ASSUME NEW D, IsFiniteSet(D), NEW f, NEW e, NEW i \in D, NEW j \in D,
           \A k \in D : f[k] \in Int, e[i] = f[j], e[j] = f[i],
           \A k \in D : k # i /\ k # j => e[k] = f[k]
    PROVE  SumFunctionOnSet(e, D) = SumFunctionOnSet(f, D)
<1> DEFINE m == [k \in D |-> IF k = i THEN f[j] ELSE f[k]]
<1>1. m[i] = f[j] /\ (\A k \in D : m[k] \in Int) /\ \A k \in D : k # i => m[k] = f[k]
  OBVIOUS
<1> HIDE DEF m
<1>2. SumFunctionOnSet(m, D) = SumFunctionOnSet(f, D) + (m[i] - f[i])
  BY <1>1, SumChange
<1>3. SumFunctionOnSet(e, D) = SumFunctionOnSet(m, D) + (e[j] - m[j])
  <2>1. e[j] \in Int /\ m[j] \in Int /\ \A k \in D : k # j => m[k] \in Int /\ e[k] = m[k]
    BY <1>1
  <2> QED BY <2>1, SumChange
<1>4. m[j] = f[j] /\ e[j] = f[i] /\ f[i] \in Int /\ f[j] \in Int
  BY <1>1
<1>5. SumFunctionOnSet(f, D) \in Int
  BY SumTakeOut
<1> QED BY <1>1, <1>2, <1>3, <1>4, <1>5

\* The sum over a sequence that is one longer.
LEMMA SumGrow ==
    ASSUME NEW n \in Nat, NEW f, NEW e, \A i \in 1 .. n : f[i] \in Int /\ e[i] = f[i],
           e[n + 1] \in Int
    PROVE  /\ SumFunctionOnSet(f, 1 .. n) \in Int
           /\ SumFunctionOnSet(e, 1 .. n + 1) = SumFunctionOnSet(f, 1 .. n) + e[n + 1]
<1>1. IsFiniteSet(1 .. n) /\ IsFiniteSet(1 .. n + 1)
  BY FS_Interval
<1>2. (1 .. n + 1) \ {n + 1} = 1 .. n /\ n + 1 \in 1 .. n + 1
  OBVIOUS
<1>3. \A i \in 1 .. n + 1 : e[i] \in Int
  <2>1. \A i \in 1 .. n + 1 : i = n + 1 \/ i \in 1 .. n
    OBVIOUS
  <2> QED BY <2>1
<1>4. SumFunctionOnSet(e, 1 .. n + 1) = e[n + 1] + SumFunctionOnSet(e, 1 .. n)
  BY <1>1, <1>2, <1>3, SumTakeOut
<1>5. SumFunctionOnSet(e, 1 .. n) = SumFunctionOnSet(f, 1 .. n)
  BY <1>1, SumSame
<1>6. SumFunctionOnSet(f, 1 .. n) \in Int
  BY <1>1, SumTakeOut
<1> QED BY <1>4, <1>5, <1>6

LEMMA ModRange ==
    ASSUME NEW x \in Int, NEW w \in Nat \ {0}
    PROVE  x % w \in 0 .. w - 1 /\ (x \in 0 .. w - 1 => x % w = x)
OBVIOUS

\* A counter may wrap at every step or once at the end.
LEMMA ModAdd ==
    ASSUME NEW x \in Int, NEW b \in Int, NEW w \in Nat \ {0}
    PROVE  ((x % w) + b) % w = (x + b) % w
<1> DEFINE Quot(y) == \E q \in Int : y = w * q + (y % w)
           r == x % w
           y == r + b
           m == y % w
<1>0. w \in Nat /\ w > 0
  OBVIOUS
<1>1. ASSUME NEW z \in Int PROVE Quot(z)
  BY <1>0
<1>2. r \in Int /\ y \in Int /\ m \in 0 .. w - 1
  <2>1. r \in Int
    BY ModRange
  <2> QED BY <2>1, ModRange
<1>3. PICK q \in Int : x = w * q + r
  BY <1>1
<1>4. PICK p \in Int : y = w * p + m
  BY <1>1, <1>2
<1> HIDE DEF m
<1>5. x + b = w * q + (w * p + m) /\ w * q \in Int /\ w * p \in Int
  <2> HIDE DEF y, r
  <2>1. w * q \in Int /\ w * p \in Int
    OBVIOUS
  <2>2. x + b = w * q + (r + b)
    BY <1>2, <1>3, <2>1
  <2> QED BY <1>4, <2>1, <2>2 DEF y
<1>6. w * q + w * p = w * (q + p)
  OBVIOUS
<1>7. x + b = w * (q + p) + m
  BY <1>2, <1>5, <1>6
<1>8. ASSUME NEW z \in Int, NEW k \in Int, z = w * k + m PROVE z % w = m
  BY <1>2, <1>8
<1>9. (x + b) % w = m
  <2>1. x + b \in Int /\ q + p \in Int
    OBVIOUS
  <2> QED BY <1>7, <1>8, <2>1
<1> QED BY <1>9 DEF m

\* Positions of children and parents.
LEMMA Halves ==
    /\ \A k \in Nat : k >= 2 => k \div 2 \in Nat /\ 1 <= k \div 2 /\ k \div 2 < k
    /\ \A k, m \in Nat : k \div 2 = m <=> (k = 2 * m \/ k = 2 * m + 1)
    /\ \A k, m \in Nat : k \div 2 \in Nat /\ (k <= m => k \div 2 <= m \div 2)
OBVIOUS
-----------------------------------------------------------------------------
(* What the loops of the heap keep: the bag of its nodes *)

Cells(S) == [P : Nat, T : S]
Pris(h) == SumFunction([i \in DOMAIN h |-> h[i].P])
SameBag(h, g) == /\ Len(g) = Len(h) /\ Pris(g) = Pris(h)
                 /\ \A t : Count(g, t) = Count(h, t)

LEMMA CountType ==
    ASSUME NEW R, NEW h \in Seq(R), NEW t
    PROVE  IsFiniteSet({i \in DOMAIN h : h[i].T = t}) /\ Count(h, t) \in Nat
<1>1. IsFiniteSet(DOMAIN h)
  BY FS_Interval
<1>2. IsFiniteSet({i \in DOMAIN h : h[i].T = t})
  BY <1>1, FS_Subset
<1> QED BY <1>2, FS_CardinalityType DEF Count

\* A sum over the priorities, with the facts that it needs.
LEMMA PrisType ==
    ASSUME NEW S, NEW h \in Seq(Cells(S))
    PROVE  /\ IsFiniteSet(DOMAIN h) /\ \A i \in DOMAIN h : h[i].P \in Int
           /\ Pris(h) = SumFunctionOnSet([i \in DOMAIN h |-> h[i].P], DOMAIN h)
           /\ Pris(h) \in Int
<1>1. IsFiniteSet(DOMAIN h) /\ \A i \in DOMAIN h : h[i].P \in Int
  <2>1. DOMAIN h = 1 .. Len(h) /\ Len(h) \in Int /\ 1 \in Int
    OBVIOUS
  <2>2. IsFiniteSet(DOMAIN h)
    BY <2>1, FS_Interval
  <2>3. \A i \in DOMAIN h : h[i] \in Cells(S)
    OBVIOUS
  <2> QED BY <2>2, <2>3 DEF Cells
<1> DEFINE f == [i \in DOMAIN h |-> h[i].P]
<1>2. DOMAIN f = DOMAIN h /\ \A i \in DOMAIN h : f[i] \in Int
  BY <1>1
<1> HIDE DEF f
<1>3. SumFunctionOnSet(f, DOMAIN h) \in Int
  BY <1>1, <1>2, SumTakeOut
<1> QED BY <1>1, <1>2, <1>3 DEF Pris, SumFunction, f

LEMMA SwapCount ==
    ASSUME NEW R, NEW h \in Seq(R), NEW i \in 1 .. Len(h), NEW j \in 1 .. Len(h), NEW t
    PROVE  Count(Swap(h, i, j), t) = Count(h, t)
<1> DEFINE g == Swap(h, i, j)
           A == {k \in DOMAIN h : h[k].T = t}
           B == {k \in DOMAIN g : g[k].T = t}
           f == [k \in A |-> IF k = i THEN j ELSE IF k = j THEN i ELSE k]
<1>1. /\ DOMAIN g = DOMAIN h /\ i \in DOMAIN h /\ j \in DOMAIN h
      /\ g[i] = h[j] /\ g[j] = h[i]
      /\ \A k \in DOMAIN h : k # i /\ k # j => g[k] = h[k]
  BY DEF Swap
<1> HIDE DEF g
<1>2. f \in [A -> B] /\ \A a, b \in A : f[a] = f[b] => a = b
  BY <1>1
<1>3. ASSUME NEW b \in B PROVE \E a \in A : f[a] = b
  <2> DEFINE a == IF b = i THEN j ELSE IF b = j THEN i ELSE b
  <2>1. a \in A /\ f[a] = b
    BY <1>1
  <2> QED BY <2>1
<1>4. ExistsBijection(A, B)
  <2> HIDE DEF f
  <2>1. f \in Bijection(A, B)
    BY <1>2, <1>3 DEF Bijection, Injection, Surjection, IsInjective
  <2> QED BY <2>1 DEF ExistsBijection
<1>5. IsFiniteSet(A)
  BY CountType
<1>6. Cardinality(B) = Cardinality(A)
  BY <1>4, <1>5, FS_Bijection
<1> QED BY <1>6 DEF Count, g

LEMMA SwapSame ==
    ASSUME NEW S, NEW R \in SUBSET Cells(S), NEW h \in Seq(R),
           NEW i \in 1 .. Len(h), NEW j \in 1 .. Len(h)
    PROVE  Swap(h, i, j) \in Seq(R) /\ SameBag(h, Swap(h, i, j))
<1> DEFINE g == Swap(h, i, j)
           D == DOMAIN h
           f == [k \in D |-> h[k].P]
           e == [k \in D |-> g[k].P]
<1>1. /\ g \in Seq(R) /\ Len(g) = Len(h) /\ DOMAIN g = D /\ i \in D /\ j \in D
      /\ h \in Seq(Cells(S)) /\ g \in Seq(Cells(S))
  BY DEF Swap
<1>2. /\ IsFiniteSet(D) /\ \A k \in D : f[k] \in Int
      /\ e[i] = f[j] /\ e[j] = f[i] /\ \A k \in D : k # i /\ k # j => e[k] = f[k]
  BY <1>1, PrisType DEF Swap
<1>3. Pris(h) = SumFunctionOnSet(f, D) /\ Pris(g) = SumFunctionOnSet(e, D)
  BY <1>1, PrisType
<1> HIDE DEF f, e, D
<1>4. SumFunctionOnSet(e, D) = SumFunctionOnSet(f, D)
  <2>1. IsFiniteSet(D) /\ i \in D /\ j \in D
    BY <1>1, <1>2
  <2>2. \A k \in D : f[k] \in Int
    BY <1>2
  <2>3. e[i] = f[j] /\ e[j] = f[i]
    BY <1>2
  <2>4. \A k \in D : k # i /\ k # j => e[k] = f[k]
    BY <1>2
  <2> QED BY <2>1, <2>2, <2>3, <2>4, SumSwap, ZenonT(60)
<1> QED BY <1>1, <1>3, <1>4, SwapCount DEF SameBag

LEMMA SameBagTrans ==
    ASSUME NEW f, NEW g, NEW h, SameBag(f, g), SameBag(g, h) PROVE SameBag(f, h)
BY DEF SameBag

\* A node more at the end.
LEMMA AppendBag ==
    ASSUME NEW S, NEW R \in SUBSET Cells(S), NEW h \in Seq(R), NEW n \in R
    PROVE  /\ Append(h, n) \in Seq(R) /\ Len(Append(h, n)) = Len(h) + 1
           /\ Pris(Append(h, n)) = Pris(h) + n.P /\ Pris(h) \in Int
           /\ \A t : Count(Append(h, n), t) = Count(h, t) + (IF n.T = t THEN 1 ELSE 0)
<1> DEFINE g == Append(h, n)
           f == [k \in DOMAIN h |-> h[k].P]
           e == [k \in DOMAIN g |-> g[k].P]
           l == Len(h)
<1>1. /\ g \in Seq(R) /\ Len(g) = l + 1 /\ DOMAIN g = 1 .. l + 1 /\ DOMAIN h = 1 .. l
      /\ l \in Nat /\ g[l + 1] = n /\ (\A k \in 1 .. l : g[k] = h[k])
      /\ g \in Seq(Cells(S)) /\ h \in Seq(Cells(S))
  OBVIOUS
<1> HIDE DEF g, l
<1>2. \A k \in 1 .. l : f[k] \in Int /\ e[k] = f[k]
  <2>1. \A k \in DOMAIN h : h[k].P \in Int
    BY <1>1, PrisType
  <2> QED BY <1>1, <2>1
<1>3. e[l + 1] = n.P /\ e[l + 1] \in Int
  BY <1>1 DEF Cells
<1>4. Pris(h) = SumFunctionOnSet(f, 1 .. l) /\ Pris(g) = SumFunctionOnSet(e, 1 .. l + 1)
  BY <1>1, PrisType
<1> HIDE DEF e, f
<1>5. Pris(g) = Pris(h) + n.P /\ Pris(h) \in Int
  BY <1>1, <1>2, <1>3, <1>4, SumGrow, ZenonT(60)
<1>6. ASSUME NEW t PROVE Count(g, t) = Count(h, t) + (IF n.T = t THEN 1 ELSE 0)
  <2> DEFINE A == {k \in DOMAIN h : h[k].T = t}
             B == {k \in DOMAIN g : g[k].T = t}
  <2>1. IsFiniteSet(A) /\ Cardinality(A) \in Nat
    BY CountType, FS_CardinalityType
  <2>2. l + 1 \notin A /\ B = IF n.T = t THEN A \cup {l + 1} ELSE A
    BY <1>1
  <2>3. Cardinality(B) = Cardinality(A) + (IF n.T = t THEN 1 ELSE 0)
    <3> HIDE DEF A, B
    <3>1. Cardinality(A \cup {l + 1}) = Cardinality(A) + 1
      BY <2>1, <2>2, FS_AddElement
    <3> QED BY <2>1, <2>2, <3>1
  <2> QED BY <2>3 DEF Count
<1> QED BY <1>1, <1>5, <1>6 DEF g, l

\* The last node cut off, wherever it was before.
LEMMA CutBag ==
    ASSUME NEW S, NEW R \in SUBSET Cells(S), NEW h \in Seq(R), h # <<>>
    PROVE  LET g == SubSeq(h, 1, Len(h) - 1)
               n == h[Len(h)]
           IN  /\ g \in Seq(R) /\ Len(g) = Len(h) - 1 /\ h = Append(g, n) /\ n \in R
               /\ Pris(h) = Pris(g) + n.P /\ Pris(g) \in Int
               /\ \A t : Count(h, t) = Count(g, t) + (IF n.T = t THEN 1 ELSE 0)
<1> DEFINE g == SubSeq(h, 1, Len(h) - 1)
           n == h[Len(h)]
<1>0. Len(h) \in Nat /\ Len(h) >= 1
  BY EmptySeq
<1>1. n \in R
  BY <1>0
<1>2. g \in Seq(R) /\ Len(g) = Len(h) - 1 /\ \A k \in 1 .. Len(h) - 1 : g[k] = h[k]
  <2> DEFINE l == Len(h) - 1
  <2>1. 1 \in Int /\ l \in Nat /\ \A k \in 1 .. l : h[k] \in R
    BY <1>0
  <2> HIDE DEF l
  <2>2. /\ SubSeq(h, 1, l) \in Seq(R)
        /\ Len(SubSeq(h, 1, l)) = IF 1 <= l THEN l - 1 + 1 ELSE 0
        /\ \A k \in 1 .. l - 1 + 1 : SubSeq(h, 1, l)[k] = h[1 + k - 1]
    BY <2>1, SubSeqProperties
  <2>3. Len(SubSeq(h, 1, l)) = l
    BY <2>1, <2>2
  <2>4. ASSUME NEW k \in 1 .. l PROVE SubSeq(h, 1, l)[k] = h[k]
    <3>1. k \in 1 .. l - 1 + 1 /\ 1 + k - 1 = k
      BY <2>1
    <3> QED BY <2>2, <3>1
  <2> QED BY <2>2, <2>3, <2>4 DEF l
<1>3. h = Append(g, n)
  BY <1>0, <1>2
<1> HIDE DEF g, n
<1>4. /\ Pris(h) = Pris(g) + n.P /\ Pris(g) \in Int
      /\ \A t : Count(h, t) = Count(g, t) + (IF n.T = t THEN 1 ELSE 0)
  BY <1>1, <1>2, <1>3, AppendBag
<1> QED BY <1>1, <1>2, <1>3, <1>4 DEF g, n
-----------------------------------------------------------------------------
(* heap.up *)

\* The array is a heap but for the node at i, which may be larger than its
\* parent; its children are not.
UpOrd(g, i) ==
    \A k \in 2 .. Len(g) : /\ k # i => g[k].P <= g[k \div 2].P
                           /\ k \div 2 = i /\ i # 1 => g[k].P <= g[i \div 2].P
Risen(s) == s.i = 1 \/ ~Less(s.h, s.i, s.i \div 2)
UpInv(R, h, s) == /\ s.h \in Seq(R) /\ SameBag(h, s.h)
                  /\ s.i \in 1 .. Len(s.h) /\ UpOrd(s.h, s.i)

LEMMA UpStepInv ==
    ASSUME NEW S, NEW R \in SUBSET Cells(S), NEW h, NEW s, UpInv(R, h, s), ~Risen(s)
    PROVE  UpInv(R, h, UpStep(s)) /\ UpStep(s).i < s.i
<1> DEFINE g == s.h
           i == s.i
           p == i \div 2
           w == Swap(g, i, p)
<1>1. /\ g \in Seq(R) /\ SameBag(h, g) /\ i \in 1 .. Len(g) /\ UpOrd(g, i)
      /\ i # 1 /\ Less(g, i, p) /\ UpStep(s) = [h |-> w, i |-> p]
  BY DEF UpInv, Risen, UpStep
<1> HIDE DEF g, i
<1>2. i >= 2 /\ p \in Nat /\ 1 <= p /\ p < i /\ p \in 1 .. Len(g) /\ Len(g) \in Nat
  BY <1>1, Halves
<1> HIDE DEF p
<1>3. w \in Seq(R) /\ SameBag(g, w) /\ Len(w) = Len(g)
  BY <1>1, <1>2, SwapSame DEF SameBag
<1>4. /\ w[i] = g[p] /\ w[p] = g[i]
      /\ \A k \in 1 .. Len(g) : k # i /\ k # p => w[k] = g[k]
  BY <1>1, <1>2 DEF Swap
<1>5. \A k \in 1 .. Len(g) : g[k].P \in Nat
  BY <1>1 DEF Cells
<1>6. g[i].P > g[p].P
  BY <1>1 DEF Less
<1> HIDE DEF w
<1>7. ASSUME NEW k \in 2 .. Len(g), k # p PROVE w[k].P <= w[k \div 2].P
  <2> DEFINE q == k \div 2
  <2>1. q \in 1 .. Len(g) /\ q < k
    BY <1>2, Halves
  <2>2. /\ k # i => g[k].P <= g[q].P
        /\ q = i => g[k].P <= g[p].P
    BY <1>1, <1>2 DEF UpOrd, p
  <2>3. k = i => q = p
    BY DEF p
  <2> HIDE DEF q
  <2>4. CASE k = i
    BY <1>2, <1>4, <1>5, <1>6, <2>3, <2>4 DEF q
  <2>5. CASE k # i /\ q = i
    <3>1. w[k] = g[k] /\ w[q] = g[p] /\ g[k].P <= g[p].P
      BY <1>4, <1>7, <2>2, <2>5
    <3> QED BY <3>1 DEF q
  <2>6. CASE k # i /\ q = p
    <3>1. w[k] = g[k] /\ w[q] = g[i] /\ g[k].P <= g[p].P
      BY <1>4, <1>7, <2>2, <2>6
    <3>2. g[k].P \in Nat /\ g[p].P \in Nat /\ g[i].P \in Nat
      BY <1>1, <1>2, <1>5
    <3> QED BY <1>6, <3>1, <3>2 DEF q
  <2>7. CASE k # i /\ q # i /\ q # p
    BY <1>4, <1>7, <2>1, <2>2, <2>7 DEF q
  <2> QED BY <2>4, <2>5, <2>6, <2>7
<1>8. ASSUME NEW k \in 2 .. Len(g), k \div 2 = p, p # 1 PROVE w[k].P <= w[p \div 2].P
  <2> DEFINE q == p \div 2
  <2>1. q \in 1 .. Len(g) /\ q < p /\ p < k /\ p \in 2 .. Len(g)
    BY <1>2, <1>8, Halves
  <2>2. w[q] = g[q] /\ g[p].P <= g[q].P
    BY <1>1, <1>2, <1>4, <2>1 DEF UpOrd
  <2> HIDE DEF q
  <2>3. CASE k = i
    BY <1>4, <2>2, <2>3 DEF q
  <2>4. CASE k # i
    <3>1. w[k] = g[k] /\ g[k].P <= g[p].P
      BY <1>1, <1>4, <1>8, <2>1, <2>4 DEF UpOrd
    <3> QED BY <1>2, <1>5, <2>1, <2>2, <3>1 DEF q
  <2> QED BY <2>3, <2>4
<1>9. UpOrd(w, p)
  BY <1>3, <1>7, <1>8 DEF UpOrd
<1> QED BY <1>1, <1>2, <1>3, <1>9, SameBagTrans DEF UpInv, i

LEMMA RisenIsHeap ==
    ASSUME NEW S, NEW R \in SUBSET Cells(S), NEW h, NEW s, UpInv(R, h, s), Risen(s)
    PROVE  s.h \in Seq(R) /\ SameBag(h, s.h) /\ IsHeap(s.h)
<1>1. ASSUME NEW k \in 2 .. Len(s.h) PROVE ~Less(s.h, k, k \div 2)
  <2>1. k \div 2 \in 1 .. Len(s.h) /\ s.h \in Seq(R) /\ k \in 1 .. Len(s.h)
    BY Halves DEF UpInv
  <2>2. s.h[k].P \in Nat /\ s.h[k \div 2].P \in Nat
    BY <2>1 DEF Cells
  <2>3. CASE k = s.i
    BY <2>3 DEF Risen
  <2>4. CASE k # s.i
    <3>1. s.h[k].P <= s.h[k \div 2].P
      BY <2>4 DEF UpInv, UpOrd
    <3> QED BY <2>2, <3>1 DEF Less
  <2> QED BY <2>3, <2>4
<1> QED BY <1>1 DEF UpInv, IsHeap

LEMMA UpIsHeap ==
    ASSUME NEW S, NEW R \in SUBSET Cells(S), NEW h \in Seq(R), NEW j \in 1 .. Len(h),
           UpOrd(h, j)
    PROVE  Up(h, j) \in Seq(R) /\ SameBag(h, Up(h, j)) /\ IsHeap(Up(h, j))
<1> DEFINE s0 == [h |-> h, i |-> j]
           l == Len(h)
<1>1. Up(h, j) = UpLoop!LeftFold(h, s0).h
  BY DEF Up, UpRound, FoldLeft, MapThenFoldSet, Max, UpLoop!LeftFold, UpLoop!FoldLeft,
         UpLoop!MapThenFoldSet, UpLoop!Max
<1>2. PICK g : UpLoop!LeftRounds(g, h, s0)
  <2> HIDE DEF s0
  <2> QED BY UpLoop!FoldLeftRounds
<1>3. /\ g[0] = s0 /\ Up(h, j) = g[l].h /\ l \in Nat
      /\ \A r \in 1 .. l : g[r] = UpStep(g[r - 1])
  <2> HIDE DEF s0
  <2> QED BY <1>1, <1>2 DEF UpLoop!LeftRounds, UpRound
<1>4. s0.h = h /\ s0.i = j /\ SameBag(h, h)
  BY DEF SameBag
<1> HIDE DEF s0, l
<1> DEFINE Q(r) == UpInv(R, h, g[r]) /\ (Risen(g[r]) \/ g[r].i <= j - r)
           T == {r \in Nat : r <= l => Q(r)}
<1>5. 0 \in T
  <2>1. Q(0)
    BY <1>3, <1>4 DEF UpInv
  <2> HIDE DEF Q
  <2> QED BY <2>1
<1>6. ASSUME NEW r \in Nat, r \in T PROVE r + 1 \in T
  <2> SUFFICES ASSUME r + 1 <= l PROVE Q(r + 1)
    OBVIOUS
  <2>1. Q(r) /\ g[r + 1] = UpStep(g[r])
    <3>1. r + 1 \in 1 .. l /\ (r + 1) - 1 = r /\ r <= l
      BY <1>3
    <3> HIDE DEF Q
    <3> QED BY <1>3, <1>6, <3>1
  <2>2. CASE Risen(g[r])
    <3>1. g[r + 1] = g[r]
      BY <2>1, <2>2 DEF Risen, UpStep
    <3> QED BY <2>1, <2>2, <3>1
  <2>3. CASE ~Risen(g[r])
    <3>1. UpInv(R, h, g[r + 1]) /\ g[r + 1].i < g[r].i
      BY <2>1, <2>3, UpStepInv
    <3>2. g[r].i <= j - r /\ g[r].i \in Nat /\ g[r + 1].i \in Nat
      <4>1. g[r].i \in 1 .. Len(g[r].h) /\ g[r + 1].i \in 1 .. Len(g[r + 1].h)
        BY <2>1, <3>1 DEF UpInv
      <4> QED BY <2>1, <2>3, <4>1
    <3>3. g[r + 1].i <= j - (r + 1)
      BY <3>1, <3>2
    <3> QED BY <3>1, <3>3
  <2> QED BY <2>2, <2>3
<1>7. Q(l)
  <2>1. Nat \subseteq T
    <3> HIDE DEF T
    <3> QED BY <1>5, <1>6, UpLoop!SetInduction
  <2> HIDE DEF Q
  <2> QED BY <1>3, <2>1
<1>8. Risen(g[l])
  <2>1. g[l].i \in 1 .. Len(g[l].h)
    BY <1>7 DEF UpInv
  <2>2. g[l].i >= 1 /\ j <= l /\ g[l].i \in Nat
    BY <2>1, <1>3 DEF l
  <2> QED BY <1>3, <1>7, <2>2
<1> QED BY <1>3, <1>7, <1>8, RisenIsHeap

\* g is a heap with the nodes of h and n.
Holds(R, h, n, g) ==
    /\ g \in Seq(R) /\ IsHeap(g) /\ Len(g) = Len(h) + 1
    /\ Pris(g) = Pris(h) + n.P /\ Pris(h) \in Int
    /\ \A u : Count(g, u) = Count(h, u) + (IF n.T = u THEN 1 ELSE 0)

\* Heap.Add keeps a heap, and adds its node.
LEMMA AddIsHeap ==
    ASSUME NEW S, NEW R \in SUBSET Cells(S), NEW h \in Seq(R), IsHeap(h), NEW n \in R
    PROVE  Holds(R, h, n, HeapAdd(h, n.P, n.T))
<1> DEFINE a == Append(h, n)
           l == Len(h) + 1
<1>1. HeapAdd(h, n.P, n.T) = Up(a, l)
  <2>1. n = [P |-> n.P, T |-> n.T]
    BY DEF Cells
  <2> QED BY <2>1 DEF HeapAdd
<1>2. /\ a \in Seq(R) /\ Len(a) = l /\ l \in 1 .. Len(a) /\ l \in Nat
      /\ \A k \in 1 .. l - 1 : a[k] = h[k]
  OBVIOUS
<1>3. UpOrd(a, l)
  <2>1. ASSUME NEW k \in 2 .. Len(a), k # l PROVE a[k].P <= a[k \div 2].P
    <3>1. k \in 2 .. Len(h) /\ k \in 1 .. l - 1 /\ k \div 2 \in 1 .. l - 1
      BY <1>2, <2>1, Halves
    <3>2. ~(h[k].P > h[k \div 2].P) /\ h[k].P \in Nat /\ h[k \div 2].P \in Nat
      BY <3>1 DEF IsHeap, Less, Cells
    <3> HIDE DEF a, l
    <3> QED BY <1>2, <3>1, <3>2
  <2>2. \A k \in 2 .. Len(a) : k \div 2 # l
    BY <1>2, Halves
  <2> HIDE DEF a, l
  <2> QED BY <2>1, <2>2 DEF UpOrd
<1> HIDE DEF a, l
<1>4. Up(a, l) \in Seq(R) /\ SameBag(a, Up(a, l)) /\ IsHeap(Up(a, l))
  BY <1>2, <1>3, UpIsHeap
<1>5. /\ Len(a) = Len(h) + 1 /\ Pris(a) = Pris(h) + n.P /\ Pris(h) \in Int
      /\ \A u : Count(a, u) = Count(h, u) + (IF n.T = u THEN 1 ELSE 0)
  BY AppendBag DEF a
<1> QED BY <1>1, <1>4, <1>5 DEF SameBag, Holds
-----------------------------------------------------------------------------
(* heap.down and heap.Init *)

\* The order of a heap, for the parents from lo on.
HeapFrom(g, lo) == \A k \in 2 .. Len(g) : k \div 2 >= lo => g[k].P <= g[k \div 2].P

\* The same but for the node at i, which may be smaller than its children;
\* its parent is not.
DownOrd(g, lo, i) ==
    \A k \in 2 .. Len(g) : k \div 2 >= lo =>
        /\ k \div 2 # i => g[k].P <= g[k \div 2].P
        /\ k \div 2 = i /\ i >= 2 /\ i \div 2 >= lo => g[k].P <= g[i \div 2].P
Sunk(s) == 2 * s.i > Len(s.h) \/ ~Less(s.h, Child(s.h, s.i), s.i)
DownInv(R, h, lo, s) ==
    /\ s.h \in Seq(R) /\ SameBag(h, s.h) /\ s.i \in 1 .. Len(s.h) /\ s.i >= lo
    /\ DownOrd(s.h, lo, s.i)

\* Both children of a node are at most as large as the one that is compared.
LEMMA ChildIsLarger ==
    ASSUME NEW S, NEW g \in Seq(Cells(S)), NEW i \in 1 .. Len(g), 2 * i <= Len(g)
    PROVE  LET c == Child(g, i)
           IN  /\ c \in 2 .. Len(g) /\ i < c /\ c \div 2 = i
               /\ \A k \in 2 .. Len(g) : k \div 2 = i => g[k].P <= g[c].P
<1> DEFINE c == Child(g, i)
<1>0. \A k \in 1 .. Len(g) : g[k].P \in Nat
  <2>1. \A k \in 1 .. Len(g) : g[k] \in Cells(S)
    OBVIOUS
  <2> QED BY <2>1 DEF Cells
<1>1. c \in 2 .. Len(g) /\ i < c /\ c \div 2 = i
  BY Halves DEF Child
<1>2. ASSUME NEW k \in 2 .. Len(g), k \div 2 = i PROVE g[k].P <= g[c].P
  <2>1. (k = 2 * i \/ k = 2 * i + 1) /\ k \in 1 .. Len(g) /\ 2 * i \in 1 .. Len(g)
    BY <1>2, Halves
  <2>2. g[k].P \in Nat /\ g[2 * i].P \in Nat
    BY <1>0, <2>1
  <2>3. CASE k = 2 * i
    BY <2>2, <2>3, <1>0 DEF Child, Less
  <2>4. CASE k = 2 * i + 1
    <3>1. 2 * i + 1 <= Len(g) /\ 2 * i + 1 # 2 * i
      BY <2>4
    <3>2. CASE g[2 * i + 1].P > g[2 * i].P
      <4>1. c = 2 * i + 1
        BY <3>1, <3>2 DEF Child, Less
      <4> QED BY <2>2, <2>4, <4>1
    <3>3. CASE ~(g[2 * i + 1].P > g[2 * i].P)
      <4>1. c = 2 * i
        BY <3>1, <3>3 DEF Child, Less
      <4> HIDE DEF c
      <4> QED BY <2>2, <2>4, <3>3, <4>1
    <3> QED BY <3>2, <3>3
  <2> QED BY <2>1, <2>3, <2>4
<1> QED BY <1>1, <1>2

LEMMA DownStepInv ==
    ASSUME NEW S, NEW R \in SUBSET Cells(S), NEW h, NEW lo \in Nat, NEW s,
           DownInv(R, h, lo, s), ~Sunk(s)
    PROVE  DownInv(R, h, lo, DownStep(s)) /\ DownStep(s).i > s.i
<1> DEFINE g == s.h
           i == s.i
           c == Child(g, i)
           w == Swap(g, i, c)
<1>1. /\ g \in Seq(R) /\ SameBag(h, g) /\ i \in 1 .. Len(g) /\ i >= lo /\ DownOrd(g, lo, i)
      /\ ~(2 * i > Len(g)) /\ Less(g, c, i) /\ DownStep(s) = [h |-> w, i |-> c]
  BY DEF DownInv, Sunk, DownStep
<1> HIDE DEF g, i
<1>2. /\ c \in 2 .. Len(g) /\ i < c /\ c \div 2 = i /\ Len(g) \in Nat
      /\ \A k \in 2 .. Len(g) : k \div 2 = i => g[k].P <= g[c].P
  <2>1. g \in Seq(Cells(S)) /\ 2 * i <= Len(g)
    BY <1>1
  <2> QED BY <1>1, <2>1, ChildIsLarger
<1> HIDE DEF c
<1>3. w \in Seq(R) /\ SameBag(g, w) /\ Len(w) = Len(g)
  <2>1. c \in 1 .. Len(g)
    BY <1>2
  <2> QED BY <1>1, <2>1, SwapSame DEF SameBag
<1>4. /\ w[i] = g[c] /\ w[c] = g[i]
      /\ \A k \in 1 .. Len(g) : k # i /\ k # c => w[k] = g[k]
  BY <1>1, <1>2 DEF Swap
<1>5. \A k \in 1 .. Len(g) : g[k].P \in Nat
  BY <1>1 DEF Cells
<1>6. g[c].P > g[i].P /\ g[c].P \in Nat /\ g[i].P \in Nat
  BY <1>1, <1>2, <1>5 DEF Less
<1> HIDE DEF w
<1>7. ASSUME NEW k \in 2 .. Len(g), k \div 2 >= lo, k \div 2 # c PROVE w[k].P <= w[k \div 2].P
  <2> DEFINE q == k \div 2
  <2>1. q \in 1 .. Len(g) /\ q < k /\ q # c /\ q >= lo /\ k \in 1 .. Len(g)
    BY <1>2, <1>7, Halves
  <2>2. /\ q # i => g[k].P <= g[q].P
        /\ q = i => g[k].P <= g[c].P
    BY <1>1, <1>2, <1>7 DEF DownOrd
  <2> HIDE DEF q
  <2>3. CASE k = c
    <3>1. q = i
      BY <1>2, <2>3 DEF q
    <3>2. w[k] = g[i] /\ w[q] = g[c]
      BY <1>4, <2>3, <3>1
    <3> QED BY <1>6, <3>2 DEF q
  <2>4. CASE k = i
    <3>1. q = i \div 2 /\ i >= 2 /\ w[k] = g[c] /\ w[q] = g[q]
      BY <1>4, <2>1, <2>4 DEF q
    <3>2. g[c].P <= g[q].P
      BY <1>1, <1>2, <2>1, <3>1 DEF DownOrd
    <3> QED BY <3>1, <3>2 DEF q
  <2>5. CASE k # i /\ k # c /\ q = i
    <3>1. w[k] = g[k] /\ w[q] = g[c] /\ g[k].P <= g[c].P
      BY <1>4, <2>1, <2>2, <2>5
    <3> QED BY <3>1 DEF q
  <2>6. CASE k # i /\ k # c /\ q # i
    <3>1. w[k] = g[k] /\ w[q] = g[q] /\ g[k].P <= g[q].P
      BY <1>4, <2>1, <2>2, <2>6
    <3> QED BY <3>1 DEF q
  <2> QED BY <2>3, <2>4, <2>5, <2>6
<1>8. ASSUME NEW k \in 2 .. Len(g), k \div 2 >= lo, k \div 2 = c PROVE w[k].P <= w[c \div 2].P
  <2>1. k > c /\ k \in 1 .. Len(g)
    BY <1>2, <1>8, Halves
  <2>2. w[k] = g[k] /\ w[c \div 2] = g[c]
    BY <1>2, <1>4, <2>1
  <2>3. g[k].P <= g[c].P
    BY <1>1, <1>2, <1>8 DEF DownOrd
  <2> QED BY <2>2, <2>3
<1>9. DownOrd(w, lo, c)
  BY <1>3, <1>7, <1>8 DEF DownOrd
<1>10. c >= lo /\ c \in 1 .. Len(w) /\ c > i
  BY <1>1, <1>2, <1>3
<1> QED BY <1>1, <1>3, <1>9, <1>10, SameBagTrans DEF DownInv, i

LEMMA SunkIsHeap ==
    ASSUME NEW S, NEW R \in SUBSET Cells(S), NEW h, NEW lo \in Nat, NEW s,
           DownInv(R, h, lo, s), Sunk(s)
    PROVE  s.h \in Seq(R) /\ SameBag(h, s.h) /\ HeapFrom(s.h, lo)
<1> DEFINE g == s.h
           i == s.i
           c == Child(g, i)
<1>1. /\ g \in Seq(R) /\ SameBag(h, g) /\ i \in 1 .. Len(g) /\ DownOrd(g, lo, i)
      /\ 2 * i > Len(g) \/ ~Less(g, c, i)
  BY DEF DownInv, Sunk
<1> HIDE DEF g, i
<1>2. ASSUME NEW k \in 2 .. Len(g), k \div 2 >= lo PROVE g[k].P <= g[k \div 2].P
  <2>1. CASE k \div 2 # i
    BY <1>1, <1>2, <2>1 DEF DownOrd
  <2>2. CASE k \div 2 = i
    <3>1. 2 * i <= Len(g) /\ g \in Seq(Cells(S)) /\ k \in 1 .. Len(g)
      BY <1>1, <2>2, Halves
    <3>2. c \in 2 .. Len(g) /\ g[k].P <= g[c].P
      BY <1>1, <2>2, <3>1, ChildIsLarger
    <3>3. ~(g[c].P > g[i].P)
      BY <1>1, <3>1 DEF Less
    <3>4. g[c].P \in Nat /\ g[i].P \in Nat /\ g[k].P \in Nat
      BY <1>1, <3>1, <3>2, SMTT(30) DEF Cells
    <3> HIDE DEF c
    <3> QED BY <2>2, <3>2, <3>3, <3>4
  <2> QED BY <2>1, <2>2
<1> QED BY <1>1, <1>2 DEF HeapFrom, g

LEMMA DownIsHeap ==
    ASSUME NEW S, NEW R \in SUBSET Cells(S), NEW h \in Seq(R), NEW lo \in 1 .. Len(h),
           HeapFrom(h, lo + 1)
    PROVE  Down(h, lo) \in Seq(R) /\ SameBag(h, Down(h, lo)) /\ HeapFrom(Down(h, lo), lo)
<1> DEFINE s0 == [h |-> h, i |-> lo]
           l == Len(h)
<1>1. Down(h, lo) = DownLoop!LeftFold(h, s0).h
  BY DEF Down, DownRound, FoldLeft, MapThenFoldSet, Max, DownLoop!LeftFold, DownLoop!FoldLeft,
         DownLoop!MapThenFoldSet, DownLoop!Max
<1>2. PICK g : DownLoop!LeftRounds(g, h, s0)
  <2> HIDE DEF s0
  <2> QED BY DownLoop!FoldLeftRounds
<1>3. /\ g[0] = s0 /\ Down(h, lo) = g[l].h /\ l \in Nat
      /\ \A r \in 1 .. l : g[r] = DownStep(g[r - 1])
  <2> HIDE DEF s0
  <2> QED BY <1>1, <1>2 DEF DownLoop!LeftRounds, DownRound
<1>4. DownInv(R, h, lo, s0)
  <2>1. s0.h = h /\ s0.i = lo /\ SameBag(h, h)
    BY DEF SameBag
  <2>2. DownOrd(h, lo, lo)
    <3>1. ASSUME NEW k \in 2 .. Len(h), k \div 2 >= lo, k \div 2 # lo
          PROVE  h[k].P <= h[k \div 2].P
      <4>1. k \div 2 >= lo + 1
        BY <3>1, Halves
      <4> QED BY <4>1 DEF HeapFrom
    <3>2. lo >= 2 => ~(lo \div 2 >= lo)
      BY Halves
    <3> QED BY <3>1, <3>2 DEF DownOrd
  <2> HIDE DEF s0
  <2> QED BY <2>1, <2>2 DEF DownInv
<1>5. s0.i = lo
  OBVIOUS
<1> HIDE DEF s0, l
<1> DEFINE Q(r) == DownInv(R, h, lo, g[r]) /\ (Sunk(g[r]) \/ g[r].i >= lo + r)
           T == {r \in Nat : r <= l => Q(r)}
<1>6. 0 \in T
  <2>1. Q(0)
    BY <1>3, <1>4, <1>5
  <2> HIDE DEF Q
  <2> QED BY <2>1
<1>7. ASSUME NEW r \in Nat, r \in T PROVE r + 1 \in T
  <2> SUFFICES ASSUME r + 1 <= l PROVE Q(r + 1)
    OBVIOUS
  <2>1. Q(r) /\ g[r + 1] = DownStep(g[r])
    <3>1. r + 1 \in 1 .. l /\ (r + 1) - 1 = r /\ r <= l
      BY <1>3
    <3> HIDE DEF Q
    <3> QED BY <1>3, <1>7, <3>1
  <2>2. CASE Sunk(g[r])
    <3>1. g[r + 1] = g[r]
      BY <2>1, <2>2 DEF Sunk, DownStep
    <3> QED BY <2>1, <2>2, <3>1
  <2>3. CASE ~Sunk(g[r])
    <3>1. DownInv(R, h, lo, g[r + 1]) /\ g[r + 1].i > g[r].i
      <4>1. lo \in Nat
        OBVIOUS
      <4> QED BY <2>1, <2>3, <4>1, DownStepInv
    <3>2. g[r].i >= lo + r /\ g[r].i \in Nat /\ g[r + 1].i \in Nat
      <4>1. g[r].i \in 1 .. Len(g[r].h) /\ g[r + 1].i \in 1 .. Len(g[r + 1].h)
        BY <2>1, <3>1 DEF DownInv
      <4> QED BY <2>1, <2>3, <4>1
    <3>3. g[r + 1].i >= lo + (r + 1)
      BY <3>1, <3>2
    <3> QED BY <3>1, <3>3
  <2> QED BY <2>2, <2>3
<1>8. Q(l)
  <2>1. Nat \subseteq T
    <3> HIDE DEF T
    <3> QED BY <1>6, <1>7, DownLoop!SetInduction
  <2> HIDE DEF Q
  <2> QED BY <1>3, <2>1
<1>9. Sunk(g[l])
  <2>1. g[l].i \in 1 .. l
    BY <1>8 DEF DownInv, SameBag, l
  <2> QED BY <1>3, <1>8, <2>1
<1> QED BY <1>3, <1>8, <1>9, SunkIsHeap

\* heap.Init makes a heap of any array, with the same nodes.
LEMMA InitIsHeap ==
    ASSUME NEW S, NEW R \in SUBSET Cells(S), NEW h \in Seq(R)
    PROVE  HeapInit(h) \in Seq(R) /\ SameBag(h, HeapInit(h)) /\ IsHeap(HeapInit(h))
<1> DEFINE n == Len(h) \div 2
           ps == [i \in 1 .. n |-> i]
<1>1. n \in Nat /\ n <= Len(h) /\ Len(h) \in Nat
  BY Halves
<1>2. HeapInit(h) = InitLoop!RightFold(ps, h)
  BY DEF HeapInit, DownAt, FoldRight, MapThenFoldSet, Min, InitLoop!RightFold,
         InitLoop!FoldRight, InitLoop!MapThenFoldSet, InitLoop!Min
<1>3. ps \in Seq(Nat) /\ Len(ps) = n /\ \A i \in 1 .. n : ps[i] = i
  BY <1>1
<1>4. PICK g : InitLoop!RightRounds(g, ps, h)
  <2> HIDE DEF ps
  <2> QED BY <1>3, InitLoop!FoldRightRounds
<1>5. /\ g[n] = h /\ HeapInit(h) = g[0]
      /\ \A i \in 1 .. n : g[i - 1] = Down(g[i], i)
  <2> HIDE DEF ps
  <2> QED BY <1>2, <1>3, <1>4 DEF InitLoop!RightRounds, DownAt
<1> DEFINE Q(i) == g[i] \in Seq(R) /\ SameBag(h, g[i]) /\ HeapFrom(g[i], i + 1)
           T == {i \in 0 .. n : Q(i)}
<1>6. n \in T
  <2>1. \A k \in 2 .. Len(h) : ~(k \div 2 >= n + 1)
    BY <1>1, Halves
  <2>2. HeapFrom(h, n + 1) /\ SameBag(h, h)
    BY <2>1 DEF HeapFrom, SameBag
  <2> HIDE DEF n
  <2> QED BY <1>1, <1>5, <2>2
<1> HIDE DEF n, ps
<1>7. ASSUME NEW i \in 1 .. n, i \in T PROVE i - 1 \in T
  <2>1. g[i] \in Seq(R) /\ SameBag(h, g[i]) /\ HeapFrom(g[i], i + 1)
    BY <1>7
  <2>2. i \in 1 .. Len(g[i])
    BY <1>1, <2>1 DEF SameBag
  <2>3. Down(g[i], i) \in Seq(R) /\ SameBag(g[i], Down(g[i], i)) /\ HeapFrom(Down(g[i], i), i)
    BY <2>1, <2>2, DownIsHeap
  <2>4. g[i - 1] \in Seq(R) /\ SameBag(h, g[i - 1]) /\ HeapFrom(g[i - 1], i)
    BY <1>5, <2>1, <2>3, SameBagTrans
  <2>5. (i - 1) + 1 = i /\ i - 1 \in 0 .. n
    BY <1>1
  <2> QED BY <2>4, <2>5
<1>8. Q(0)
  <2>1. 0 .. n \subseteq T
    <3> HIDE DEF T
    <3> QED BY <1>1, <1>6, <1>7, InitLoop!DownInduction
  <2> QED BY <1>1, <2>1
<1>9. IsHeap(g[0])
  <2>1. ASSUME NEW k \in 2 .. Len(g[0]) PROVE ~Less(g[0], k, k \div 2)
    <3>1. k \div 2 >= 0 + 1 /\ k \div 2 \in 1 .. Len(g[0]) /\ k \in 1 .. Len(g[0])
      BY <1>8, Halves
    <3>2. g[0][k].P <= g[0][k \div 2].P /\ g[0][k].P \in Nat /\ g[0][k \div 2].P \in Nat
      BY <1>8, <3>1 DEF HeapFrom, Cells
    <3> QED BY <3>2 DEF Less
  <2> QED BY <2>1 DEF IsHeap
<1> QED BY <1>5, <1>8, <1>9
-----------------------------------------------------------------------------
(* Rmv *)

LEMMA IndexFound ==
    ASSUME NEW R, NEW h \in Seq(R), NEW t, Has(h, t)
    PROVE  GetIndex(h, t) \in DOMAIN h /\ h[GetIndex(h, t)].T = t
<1> DEFINE D == {i \in DOMAIN h : h[i].T = t}
<1>1. D \in SUBSET (0 .. Len(h)) /\ D # {} /\ Len(h) \in Nat
  BY DEF Has
<1>2. PICK i \in D : \A j \in D : i <= j
  <2> HIDE DEF D
  <2> QED BY <1>1, Cuts!MinMax
<1>3. i \in DOMAIN h /\ h[i].T = t /\ \A j \in 1 .. i - 1 : h[j].T # t
  <2>1. ASSUME NEW j \in 1 .. i - 1, h[j].T = t PROVE FALSE
    <3>1. j \in D /\ ~(i <= j)
      BY <2>1
    <3> QED BY <1>2, <3>1
  <2> QED BY <2>1
<1> QED BY <1>3 DEF GetIndex

LEMMA HasCount ==
    ASSUME NEW R, NEW h \in Seq(R), NEW t
    PROVE  Has(h, t) <=> Count(h, t) # 0
<1> DEFINE D == {i \in DOMAIN h : h[i].T = t}
<1>1. IsFiniteSet(D)
  BY CountType
<1>2. Has(h, t) <=> D # {}
  BY DEF Has
<1> HIDE DEF D
<1>3. Cardinality(D) = 0 <=> D = {}
  BY <1>1, FS_EmptySet
<1> QED BY <1>2, <1>3 DEF Count, D

\* One node that holds t goes.
LEMMA RmvOneBag ==
    ASSUME NEW S, NEW R \in SUBSET Cells(S), NEW h \in Seq(R), NEW t, Has(h, t)
    PROVE  LET g == RmvOne(h, t)
           IN  /\ g \in Seq(R) /\ Len(g) + 1 = Len(h)
               /\ \A u : Count(h, u) = Count(g, u) + (IF u = t THEN 1 ELSE 0)
               /\ \E n \in R : n.T = t /\ Pris(h) = Pris(g) + n.P /\ Pris(g) \in Int
<1> DEFINE i == GetIndex(h, t)
           l == Len(h)
           w == Swap(h, i, l)
           g == SubSeq(w, 1, Len(w) - 1)
           n == w[Len(w)]
<1>1. i \in 1 .. l /\ h[i].T = t /\ l \in Nat /\ l \in 1 .. l
  BY IndexFound
<1> HIDE DEF i
<1>2. w \in Seq(R) /\ SameBag(h, w)
  BY <1>1, SwapSame
<1>3. Len(w) = l /\ w # <<>> /\ w[l] = h[i] /\ Pris(w) = Pris(h) /\ \A u : Count(w, u) = Count(h, u)
  <2>1. Len(w) = l /\ Pris(w) = Pris(h) /\ \A u : Count(w, u) = Count(h, u)
    BY <1>2 DEF SameBag
  <2>2. w[l] = h[i]
    BY <1>1 DEF Swap
  <2> HIDE DEF w
  <2> QED BY <1>1, <1>2, <2>1, <2>2, EmptySeq
<1>4. RmvOne(h, t) = g
  BY <1>3 DEF RmvOne, i
<1> HIDE DEF w, l
<1>5. /\ g \in Seq(R) /\ Len(g) = Len(w) - 1 /\ n \in R
      /\ Pris(w) = Pris(g) + n.P /\ Pris(g) \in Int
      /\ \A u : Count(w, u) = Count(g, u) + (IF n.T = u THEN 1 ELSE 0)
  BY <1>2, <1>3, CutBag
<1>6. n.T = t
  BY <1>1, <1>3
<1> HIDE DEF g, n
<1>7. Len(g) + 1 = Len(h)
  BY <1>1, <1>3, <1>5 DEF l
<1>8. \A u : Count(h, u) = Count(g, u) + (IF u = t THEN 1 ELSE 0)
  BY <1>3, <1>5, <1>6
<1> QED BY <1>3, <1>4, <1>5, <1>6, <1>7, <1>8

\* How often t is among the first n of ts.
Among(ts, n, t) == Cardinality({i \in 1 .. n : ts[i] = t})

LEMMA AmongStep ==
    ASSUME NEW n \in Nat, NEW ts, NEW t
    PROVE  /\ Among(ts, n, t) \in Nat /\ Among(ts, 0, t) = 0
           /\ Among(ts, n + 1, t) = Among(ts, n, t) + (IF ts[n + 1] = t THEN 1 ELSE 0)
<1> DEFINE A == {i \in 1 .. n : ts[i] = t}
           B == {i \in 1 .. n + 1 : ts[i] = t}
<1>1. IsFiniteSet(A) /\ Cardinality(A) \in Nat
  <2>1. IsFiniteSet(1 .. n)
    BY FS_Interval
  <2> QED BY <2>1, FS_Subset, FS_CardinalityType
<1>2. n + 1 \notin A /\ B = IF ts[n + 1] = t THEN A \cup {n + 1} ELSE A
  OBVIOUS
<1>3. Cardinality(B) = Cardinality(A) + (IF ts[n + 1] = t THEN 1 ELSE 0)
  <2> HIDE DEF A, B
  <2>1. Cardinality(A \cup {n + 1}) = Cardinality(A) + 1
    BY <1>1, <1>2, FS_AddElement
  <2> QED BY <1>1, <1>2, <2>1
<1>4. Among(ts, 0, t) = 0
  <2>1. {i \in 1 .. 0 : ts[i] = t} = {}
    OBVIOUS
  <2> QED BY <2>1, FS_EmptySet DEF Among
<1> QED BY <1>1, <1>3, <1>4 DEF Among

\* The numbers left when up to b of a are taken.
Less0(a, b) == IF a > b THEN a - b ELSE 0

Priced(R) == \A n \in R : n.P = CalcPri(n.T)
CutInv(R, X, h, ts, n, acc) ==
    /\ acc.h \in Seq(R) /\ acc.r \in Seq(X) /\ Len(acc.h) + Len(acc.r) = Len(h)
    /\ \A t : Count(acc.h, t) = Less0(Count(h, t), Among(ts, n, t))
    /\ Priced(R) => /\ Pris(h) = Pris(acc.h) + SumPri(acc.r)
                    /\ \A i \in DOMAIN acc.r : CalcPri(acc.r[i]) \in Nat

LEMMA SumPriAppend ==
    ASSUME NEW X, NEW r \in Seq(X), NEW t \in X, CalcPri(t) \in Nat,
           \A i \in DOMAIN r : CalcPri(r[i]) \in Nat
    PROVE  /\ SumPri(r) \in Int /\ SumPri(Append(r, t)) = SumPri(r) + CalcPri(t)
           /\ \A i \in DOMAIN Append(r, t) : CalcPri(Append(r, t)[i]) \in Nat
<1> DEFINE q == Append(r, t)
           l == Len(r)
           f == [i \in DOMAIN r |-> CalcPri(r[i])]
           e == [i \in DOMAIN q |-> CalcPri(q[i])]
<1>1. /\ l \in Nat /\ DOMAIN r = 1 .. l /\ DOMAIN q = 1 .. l + 1 /\ q[l + 1] = t
      /\ \A i \in 1 .. l : q[i] = r[i]
  OBVIOUS
<1> HIDE DEF q, l
<1>2. /\ \A i \in 1 .. l : f[i] \in Int /\ e[i] = f[i]
      /\ e[l + 1] = CalcPri(t) /\ e[l + 1] \in Int
      /\ DOMAIN f = 1 .. l /\ DOMAIN e = 1 .. l + 1
  BY <1>1
<1>3. SumPri(r) = SumFunctionOnSet(f, 1 .. l) /\ SumPri(q) = SumFunctionOnSet(e, 1 .. l + 1)
  BY <1>1 DEF SumPri, SumFunction
<1> HIDE DEF f, e
<1>4. SumPri(r) \in Int /\ SumPri(q) = SumPri(r) + CalcPri(t)
  <2>1. /\ SumFunctionOnSet(f, 1 .. l) \in Int
        /\ SumFunctionOnSet(e, 1 .. l + 1) = SumFunctionOnSet(f, 1 .. l) + e[l + 1]
    <3>1. l \in Nat
      BY <1>1
    <3>2. \A i \in 1 .. l : f[i] \in Int /\ e[i] = f[i]
      BY <1>2
    <3>3. e[l + 1] \in Int
      BY <1>2
    <3> QED BY <3>1, <3>2, <3>3, SumGrow
  <2> QED BY <1>2, <1>3, <2>1
<1>5. ASSUME NEW i \in DOMAIN q PROVE CalcPri(q[i]) \in Nat
  <2>1. i = l + 1 \/ i \in 1 .. l
    BY <1>1
  <2> QED BY <1>1, <2>1
<1> QED BY <1>4, <1>5 DEF q

LEMMA CutStep ==
    ASSUME NEW S, NEW R \in SUBSET Cells(S), NEW X, NEW h \in Seq(R), NEW ts \in Seq(X),
           NEW n \in Nat, n + 1 <= Len(ts), NEW acc, CutInv(R, X, h, ts, n, acc)
    PROVE  CutInv(R, X, h, ts, n + 1, RmvStep(acc, ts[n + 1]))
<1> DEFINE t == ts[n + 1]
           a == acc.h
           r == acc.r
           b == RmvOne(a, t)
<1>1. /\ a \in Seq(R) /\ r \in Seq(X) /\ Len(a) + Len(r) = Len(h) /\ t \in X
      /\ \A u : Count(a, u) = Less0(Count(h, u), Among(ts, n, u))
      /\ \A u : Among(ts, n + 1, u) = Among(ts, n, u) + (IF t = u THEN 1 ELSE 0)
      /\ \A u : Among(ts, n, u) \in Nat /\ Count(h, u) \in Nat
      /\ Priced(R) => /\ Pris(h) = Pris(a) + SumPri(r)
                      /\ \A i \in DOMAIN r : CalcPri(r[i]) \in Nat
  <2>1. n + 1 \in 1 .. Len(ts)
    OBVIOUS
  <2>2. t \in X
    BY <2>1
  <2>3. \A u : Count(h, u) \in Nat
    BY CountType
  <2>4. ASSUME NEW u
        PROVE  /\ Among(ts, n, u) \in Nat
               /\ Among(ts, n + 1, u) = Among(ts, n, u) + (IF t = u THEN 1 ELSE 0)
    BY AmongStep
  <2> HIDE DEF t
  <2> QED BY <2>2, <2>3, <2>4 DEF CutInv
<1>2. CASE ~Has(a, t)
  <2>1. RmvStep(acc, t) = acc
    BY <1>2 DEF RmvStep
  <2>2. Count(a, t) = 0
    BY <1>1, <1>2, HasCount
  <2> HIDE DEF t, a, r
  <2>3. ASSUME NEW u PROVE Count(a, u) = Less0(Count(h, u), Among(ts, n + 1, u))
    <3>1. CASE u = t
      <4>1. Less0(Count(h, t), Among(ts, n, t)) = 0
        BY <1>1, <2>2
      <4> QED BY <1>1, <2>2, <3>1, <4>1 DEF Less0
    <3>2. CASE u # t
      <4>1. Among(ts, n + 1, u) = Among(ts, n, u)
        BY <1>1, <3>2
      <4> QED BY <1>1, <4>1
    <3> QED BY <3>1, <3>2
  <2> QED BY <1>1, <2>1, <2>3 DEF CutInv, t, a, r
<1>3. CASE Has(a, t)
  <2>1. RmvStep(acc, t) = [h |-> b, r |-> Append(r, t)]
    BY <1>3 DEF RmvStep
  <2>2. /\ b \in Seq(R) /\ Len(b) + 1 = Len(a)
        /\ \A u : Count(a, u) = Count(b, u) + (IF u = t THEN 1 ELSE 0)
        /\ \E m \in R : m.T = t /\ Pris(a) = Pris(b) + m.P /\ Pris(b) \in Int
    <3> HIDE DEF t, a
    <3> QED BY <1>1, <1>3, RmvOneBag
  <2> HIDE DEF t, a, r, b
  <2>3. Append(r, t) \in Seq(X) /\ Len(b) + Len(Append(r, t)) = Len(h)
    <3>1. r \in Seq(X) /\ t \in X /\ b \in Seq(R) /\ Len(b) + 1 = Len(a) /\ Len(a) + Len(r) = Len(h)
      BY <1>1, <2>2
    <3>2. Append(r, t) \in Seq(X) /\ Len(Append(r, t)) = Len(r) + 1 /\ Len(r) \in Nat /\ Len(b) \in Nat
      BY <3>1
    <3> DEFINE la == Len(a)
               lb == Len(b)
               lr == Len(r)
    <3>3. lb + 1 = la /\ la + lr = Len(h) /\ lr \in Nat /\ lb \in Nat
      BY <3>1, <3>2
    <3> HIDE DEF la, lb, lr
    <3>4. lb + (lr + 1) = Len(h)
      BY <3>3
    <3> QED BY <3>2, <3>4 DEF lb, lr
  <2>4. ASSUME NEW u PROVE Count(b, u) = Less0(Count(h, u), Among(ts, n + 1, u))
    <3>0. Count(b, u) \in Nat /\ Count(a, u) \in Nat
      BY <1>1, <2>2, CountType
    <3>1. CASE u = t
      <4>1. Count(a, u) = Count(b, u) + 1 /\ Among(ts, n + 1, u) = Among(ts, n, u) + 1
        BY <1>1, <2>2, <3>1
      <4>2. Count(a, u) = Less0(Count(h, u), Among(ts, n, u)) /\ Among(ts, n, u) \in Nat /\ Count(h, u) \in Nat
        BY <1>1
      <4> QED BY <3>0, <4>1, <4>2 DEF Less0
    <3>2. CASE u # t
      <4>1. Among(ts, n + 1, u) = Among(ts, n, u) /\ Count(a, u) = Count(b, u)
        BY <1>1, <2>2, <3>0, <3>2
      <4> QED BY <1>1, <4>1
    <3> QED BY <3>1, <3>2
  <2>5. ASSUME Priced(R)
        PROVE  /\ Pris(h) = Pris(b) + SumPri(Append(r, t))
               /\ \A i \in DOMAIN Append(r, t) : CalcPri(Append(r, t)[i]) \in Nat
    <3>1. PICK m \in R : m.T = t /\ Pris(a) = Pris(b) + m.P /\ Pris(b) \in Int
      BY <2>2
    <3>2. m.P = CalcPri(t) /\ CalcPri(t) \in Nat
      BY <2>5, <3>1 DEF Priced, Cells
    <3>3. /\ SumPri(r) \in Int /\ SumPri(Append(r, t)) = SumPri(r) + CalcPri(t)
          /\ \A i \in DOMAIN Append(r, t) : CalcPri(Append(r, t)[i]) \in Nat
      BY <1>1, <2>5, <3>2, SumPriAppend
    <3>4. Pris(h) = Pris(a) + SumPri(r)
      BY <1>1, <2>5
    <3> QED BY <3>1, <3>2, <3>3, <3>4, SMTT(30)
  <2>6. RmvStep(acc, t).h = b /\ RmvStep(acc, t).r = Append(r, t)
    BY <2>1
  <2> QED BY <2>2, <2>3, <2>4, <2>5, <2>6 DEF CutInv, t
<1> QED BY <1>2, <1>3

LEMMA RmvLoopInv ==
    ASSUME NEW S, NEW R \in SUBSET Cells(S), NEW X, NEW h \in Seq(R), NEW ts \in Seq(X)
    PROVE  CutInv(R, X, h, ts, Len(ts), RmvLoop(h, ts))
<1> DEFINE s0 == [h |-> h, r |-> <<>>]
           l == Len(ts)
<1>1. RmvLoop(h, ts) = Cuts!LeftFold(ts, s0)
  BY DEF RmvLoop, RmvRound, FoldLeft, MapThenFoldSet, Max, Cuts!LeftFold, Cuts!FoldLeft,
         Cuts!MapThenFoldSet, Cuts!Max
<1>2. PICK g : Cuts!LeftRounds(g, ts, s0)
  <2> HIDE DEF s0
  <2> QED BY Cuts!FoldLeftRounds
<1>3. /\ g[0] = s0 /\ RmvLoop(h, ts) = g[l] /\ l \in Nat
      /\ \A i \in 1 .. l : g[i] = RmvStep(g[i - 1], ts[i])
  <2> HIDE DEF s0
  <2> QED BY <1>1, <1>2 DEF Cuts!LeftRounds, RmvRound
<1> DEFINE Q(i) == CutInv(R, X, h, ts, i, g[i])
           T == {i \in Nat : i <= l => Q(i)}
<1>4. 0 \in T
  <2>1. s0.h = h /\ s0.r = <<>> /\ <<>> \in Seq(X) /\ Len(<<>>) = 0 /\ Len(h) \in Nat
    OBVIOUS
  <2>2. \A t : Count(h, t) = Less0(Count(h, t), Among(ts, 0, t))
    <3>1. \A t : Count(h, t) \in Nat /\ Among(ts, 0, t) = 0
      BY CountType, AmongStep
    <3> QED BY <3>1 DEF Less0
  <2>3. Pris(h) \in Int
    <3>1. h \in Seq(Cells(S))
      OBVIOUS
    <3> QED BY <3>1, PrisType
  <2>4. SumPri(<<>>) = 0
    <3> DEFINE f == [i \in DOMAIN <<>> |-> CalcPri(<<>>[i])]
    <3>1. DOMAIN f = {} /\ IsFiniteSet({}) /\ \A x \in {} : f[x] \in Int
      BY FS_EmptySet
    <3>2. SumPri(<<>>) = SumFunctionOnSet(f, {})
      BY <3>1 DEF SumPri, SumFunction
    <3> HIDE DEF f
    <3> QED BY <3>1, <3>2, SumTakeOut
  <2> HIDE DEF s0
  <2>5. Q(0)
    BY <1>3, <2>1, <2>2, <2>3, <2>4 DEF CutInv
  <2> HIDE DEF Q
  <2> QED BY <2>5
<1> HIDE DEF s0, l
<1>5. ASSUME NEW i \in Nat, i \in T PROVE i + 1 \in T
  <2> SUFFICES ASSUME i + 1 <= l PROVE Q(i + 1)
    OBVIOUS
  <2>1. i + 1 \in 1 .. l /\ (i + 1) - 1 = i /\ i <= l
    BY <1>3
  <2>2. Q(i) /\ g[i + 1] = RmvStep(g[i], ts[i + 1])
    <3> HIDE DEF Q
    <3> QED BY <1>3, <1>5, <2>1
  <2> QED BY <2>2, CutStep DEF l
<1>6. Q(l)
  <2>1. Nat \subseteq T
    <3> HIDE DEF T
    <3> QED BY <1>4, <1>5, Cuts!SetInduction
  <2> HIDE DEF Q
  <2> QED BY <1>3, <2>1
<1> QED BY <1>3, <1>6 DEF l

\* Rmv leaves a heap, takes one node for each element of ts that it finds,
\* and returns what it took.
LEMMA RmvBag ==
    ASSUME NEW S, NEW R \in SUBSET Cells(S), NEW X, NEW h \in Seq(R), NEW ts \in Seq(X)
    PROVE  /\ Rmv(h, ts) \in Seq(R) /\ IsHeap(Rmv(h, ts)) /\ Removed(h, ts) \in Seq(X)
           /\ Len(Rmv(h, ts)) + Len(Removed(h, ts)) = Len(h)
           /\ \A t : Count(Rmv(h, ts), t) = Less0(Count(h, t), Among(ts, Len(ts), t))
           /\ Priced(R) => /\ Pris(h) = Pris(Rmv(h, ts)) + SumPri(Removed(h, ts))
                           /\ \A i \in DOMAIN Removed(h, ts) : CalcPri(Removed(h, ts)[i]) \in Nat
<1> DEFINE acc == RmvLoop(h, ts)
<1>1. CutInv(R, X, h, ts, Len(ts), acc) /\ Rmv(h, ts) = HeapInit(acc.h) /\ Removed(h, ts) = acc.r
  BY RmvLoopInv DEF Rmv, Removed
<1> HIDE DEF acc
<1>2. acc.h \in Seq(R)
  BY <1>1 DEF CutInv
<1>3. HeapInit(acc.h) \in Seq(R) /\ SameBag(acc.h, HeapInit(acc.h)) /\ IsHeap(HeapInit(acc.h))
  BY <1>2, InitIsHeap
<1> QED BY <1>1, <1>3 DEF CutInv, SameBag
-----------------------------------------------------------------------------
(* The pool *)

\* The nodes of the pool have the priority that CalcPri gives.
Nodes == {[P |-> CalcPri(t), T |-> t] : t \in Txs}

\* The counters are those of the heap, and it is not too long for them.
PoolInv == /\ txQ \in Seq(Nodes) /\ IsHeap(txQ)
           /\ ct = Len(txQ) /\ ct <= Cap
           /\ curPri = Pris(txQ) % Word

LEMMA NodesPriced ==
    /\ Nodes \in SUBSET Cells(Txs) /\ Priced(Nodes)
    /\ \A t \in Txs : CalcPri(t) \in Nat /\ [P |-> CalcPri(t), T |-> t] \in Nodes
    /\ Word \in Nat \ {0} /\ Cap \in 0 .. Word - 1
<1>1. Word \in Nat \ {0} /\ Cap \in 0 .. Word - 1
  BY PoolAssumption
<1>2. ASSUME NEW t \in Txs PROVE CalcPri(t) \in Nat
  <2>1. Fee[t] \in Nat /\ Sz[t] \in Nat
    BY PoolAssumption
  <2>2. (Fee[t] * 100) % Word \in Nat
    BY <1>1, <2>1, ModRange
  <2> DEFINE m == (Fee[t] * 100) % Word
             z == Sz[t]
  <2>3. ASSUME z # 0 PROVE m \div z \in Nat
    <3>1. m \in Nat /\ z \in Nat /\ z > 0
      BY <2>1, <2>2, <2>3
    <3> HIDE DEF m, z
    <3> QED BY <3>1
  <2> QED BY <2>3 DEF CalcPri
<1>3. Nodes \in SUBSET Cells(Txs)
  BY <1>2 DEF Nodes, Cells
<1>4. Priced(Nodes)
  BY DEF Nodes, Priced
<1> QED BY <1>1, <1>2, <1>3, <1>4 DEF Nodes

LEMMA EmptyHeap ==
    /\ <<>> \in Seq(Nodes) /\ IsHeap(<<>>) /\ Len(<<>>) = 0 /\ Pris(<<>>) = 0
    /\ \A t : Count(<<>>, t) = 0
<1>1. <<>> \in Seq(Nodes) /\ Len(<<>>) = 0 /\ DOMAIN <<>> = {}
  OBVIOUS
<1>2. IsHeap(<<>>)
  BY <1>1 DEF IsHeap
<1>3. Pris(<<>>) = 0
  <2> DEFINE f == [i \in DOMAIN <<>> |-> <<>>[i].P]
  <2>1. DOMAIN f = {} /\ IsFiniteSet({}) /\ \A x \in {} : f[x] \in Int
    BY FS_EmptySet
  <2>2. Pris(<<>>) = SumFunctionOnSet(f, {})
    BY <2>1 DEF Pris, SumFunction
  <2> HIDE DEF f
  <2> QED BY <2>1, <2>2, SumTakeOut
<1>4. ASSUME NEW t PROVE Count(<<>>, t) = 0
  <2>1. {i \in DOMAIN <<>> : <<>>[i].T = t} = {}
    BY <1>1
  <2> QED BY <2>1, FS_EmptySet DEF Count
<1> QED BY <1>1, <1>2, <1>3, <1>4

LEMMA PoolInit == Init => PoolInv
<1> SUFFICES ASSUME Init PROVE PoolInv
  OBVIOUS
<1>1. 0 % Word = 0 /\ 0 <= Cap
  BY NodesPriced, ModRange
<1> QED BY <1>1, EmptyHeap DEF Init, NewTxHeap, PoolInv

LEMMA PoolAdd ==
    ASSUME PoolInv, NEW t \in Txs, Add(t)
    PROVE  /\ PoolInv' /\ Len(txQ) < Cap
           /\ \A u : Count(txQ', u) = Count(txQ, u) + (IF t = u THEN 1 ELSE 0)
<1> DEFINE g == HeapAdd(txQ, CalcPri(t), t)
           c == CalcPri(t)
<1>1. c \in Nat /\ [P |-> c, T |-> t] \in Nodes /\ Nodes \in SUBSET Cells(Txs)
  BY NodesPriced
<1>2. txQ \in Seq(Nodes) /\ IsHeap(txQ) /\ ct = Len(txQ) /\ curPri = Pris(txQ) % Word
  BY DEF PoolInv
<1>3. txQ' = g /\ ct' = (ct + 1) % Word /\ curPri' = (curPri + c) % Word /\ ct < Cap
  BY DEF Add
<1> HIDE DEF c
<1>4. /\ g \in Seq(Nodes) /\ IsHeap(g) /\ Len(g) = Len(txQ) + 1
      /\ Pris(g) = Pris(txQ) + c /\ Pris(txQ) \in Int
      /\ \A u : Count(g, u) = Count(txQ, u) + (IF t = u THEN 1 ELSE 0)
  <2>1. PICK h : h = txQ
    OBVIOUS
  <2>2. h \in Seq(Nodes) /\ IsHeap(h)
    BY <1>1, <1>2, <2>1
  <2> DEFINE n == [P |-> c, T |-> t]
  <2>0. n \in Nodes /\ n.P = c /\ n.T = t /\ Nodes \in SUBSET Cells(Txs)
    BY <1>1
  <2> HIDE DEF n
  <2>3. Holds(Nodes, h, n, HeapAdd(h, n.P, n.T))
    BY <2>2, <2>0, AddIsHeap
  <2>4. g = HeapAdd(h, c, t)
    BY <2>1 DEF c
  <2> HIDE DEF g
  <2> QED BY <2>1, <2>0, <2>3, <2>4 DEF Holds
<1> HIDE DEF g
<1>5. ct' = Len(g) /\ ct' <= Cap
  <2>1. ct \in Nat /\ Cap \in 0 .. Word - 1 /\ Word \in Nat \ {0}
    BY <1>2, NodesPriced
  <2>2. ct + 1 \in 0 .. Word - 1 /\ ct + 1 <= Cap /\ ct + 1 \in Int
    BY <1>3, <2>1
  <2>3. (ct + 1) % Word = ct + 1
    BY <2>1, <2>2, ModRange
  <2> QED BY <1>2, <1>3, <1>4, <2>2, <2>3
<1>6. curPri' = Pris(g) % Word
  <2>1. ((Pris(txQ) % Word) + c) % Word = (Pris(txQ) + c) % Word
    BY <1>1, <1>4, NodesPriced, ModAdd
  <2> QED BY <1>2, <1>3, <1>4, <2>1
<1> QED BY <1>2, <1>3, <1>4, <1>5, <1>6 DEF PoolInv

LEMMA PoolChk ==
    ASSUME PoolInv, NEW ts \in Blks, ChkTxs(ts)
    PROVE  /\ PoolInv' /\ ts \in Seq(Txs)
           /\ \A u : Count(txQ', u) = Less0(Count(txQ, u), Among(ts, Len(ts), u))
<1> DEFINE g == Rmv(txQ, ts)
           r == Removed(txQ, ts)
<1>0. ts \in Seq(Txs) /\ Nodes \in SUBSET Cells(Txs) /\ Priced(Nodes)
  BY PoolAssumption, NodesPriced
<1>1. txQ \in Seq(Nodes) /\ ct = Len(txQ) /\ ct <= Cap /\ curPri = Pris(txQ) % Word
  BY DEF PoolInv
<1>2. txQ' = g /\ ct' = (ct - Len(r)) % Word /\ curPri' = (curPri - SumPri(r)) % Word
  BY DEF ChkTxs
<1>3. /\ g \in Seq(Nodes) /\ IsHeap(g) /\ r \in Seq(Txs) /\ Len(g) + Len(r) = Len(txQ)
      /\ \A t : Count(g, t) = Less0(Count(txQ, t), Among(ts, Len(ts), t))
      /\ Pris(txQ) = Pris(g) + SumPri(r)
  <2>1. PICK h : h = txQ
    OBVIOUS
  <2>2. h \in Seq(Nodes)
    BY <1>1, <2>1
  <2>3. /\ Rmv(h, ts) \in Seq(Nodes) /\ IsHeap(Rmv(h, ts)) /\ Removed(h, ts) \in Seq(Txs)
        /\ Len(Rmv(h, ts)) + Len(Removed(h, ts)) = Len(h)
        /\ \A t : Count(Rmv(h, ts), t) = Less0(Count(h, t), Among(ts, Len(ts), t))
        /\ Pris(h) = Pris(Rmv(h, ts)) + SumPri(Removed(h, ts))
    BY <1>0, <2>2, RmvBag
  <2> QED BY <2>1, <2>3
<1> HIDE DEF g, r
<1>4. ct' = Len(g) /\ ct' <= Cap
  <2>1. /\ ct \in Nat /\ Len(g) \in Nat /\ Len(r) \in Nat
        /\ Cap \in 0 .. Word - 1 /\ Word \in Nat \ {0}
    BY <1>1, <1>3, NodesPriced
  <2>2. ct - Len(r) = Len(g) /\ Len(g) \in 0 .. Word - 1 /\ Len(g) <= Cap /\ Len(g) \in Int
    BY <1>1, <1>3, <2>1
  <2>3. Len(g) % Word = Len(g)
    BY <2>1, <2>2, ModRange
  <2> QED BY <1>2, <2>2, <2>3
<1>5. curPri' = Pris(g) % Word
  <2>1. Pris(txQ) \in Int /\ Pris(g) \in Int
    <3>1. txQ \in Seq(Cells(Txs)) /\ g \in Seq(Cells(Txs))
      BY <1>0, <1>1, <1>3
    <3> QED BY <3>1, PrisType
  <2>2. SumPri(r) \in Int
    <3>1. ASSUME NEW i \in DOMAIN r PROVE CalcPri(r[i]) \in Int
      <4>1. r[i] \in Txs
        BY <1>3
      <4>2. CalcPri(r[i]) \in Nat
        BY <4>1, NodesPriced
      <4> QED BY <4>2
    <3> DEFINE f == [i \in DOMAIN r |-> CalcPri(r[i])]
    <3>2. IsFiniteSet(DOMAIN r) /\ DOMAIN f = DOMAIN r /\ \A i \in DOMAIN r : f[i] \in Int
      <4>1. DOMAIN r = 1 .. Len(r) /\ Len(r) \in Int /\ 1 \in Int
        BY <1>3
      <4>2. IsFiniteSet(DOMAIN r)
        BY <4>1, FS_Interval
      <4> QED BY <3>1, <4>2
    <3>3. SumPri(r) = SumFunctionOnSet(f, DOMAIN r)
      BY <3>2 DEF SumPri, SumFunction
    <3> HIDE DEF f
    <3> QED BY <3>2, <3>3, SumTakeOut
  <2> DEFINE a == Pris(txQ)
             b == SumPri(r)
  <2>3. a \in Int /\ b \in Int /\ a - b = Pris(g) /\ Word \in Nat \ {0}
    BY <1>3, <2>1, <2>2, NodesPriced
  <2>4. curPri' = ((a % Word) - b) % Word
    BY <1>1, <1>2
  <2> HIDE DEF a, b
  <2>5. a % Word \in Int
    BY <2>3, ModRange
  <2>6. (a % Word) - b = (a % Word) + (-b) /\ a - b = a + (-b) /\ -b \in Int
    BY <2>3, <2>5
  <2>7. ((a % Word) + (-b)) % Word = (a + (-b)) % Word
    BY <2>3, <2>6, ModAdd
  <2> QED BY <2>3, <2>4, <2>6, <2>7
<1> QED BY <1>0, <1>2, <1>3, <1>4, <1>5 DEF PoolInv

LEMMA PoolStep == PoolInv /\ [Next]_poolVars => PoolInv'
<1> SUFFICES ASSUME PoolInv, [Next]_poolVars PROVE PoolInv'
  OBVIOUS
<1>1. CASE \E t \in Txs : Add(t)
  BY <1>1, PoolAdd
<1>2. CASE \E ts \in Blks : ChkTxs(ts)
  BY <1>2, PoolChk
<1>3. CASE UNCHANGED poolVars
  BY <1>3 DEF PoolInv, poolVars
<1> QED BY <1>1, <1>2, <1>3 DEF Next

LEMMA PoolAlways == Spec => []PoolInv
BY PoolInit, PoolStep, PTL DEF Spec

\* Every reachable state of the pool is well typed, whatever the fees and
\* sizes: the two counters never leave their words (tx_pool.go).
THEOREM TypeCorrect == Spec => []TypeOK
<1>1. PoolInv => TypeOK
  <2> SUFFICES ASSUME PoolInv PROVE TypeOK
    OBVIOUS
  <2>1. txQ \in Seq([P : Nat, T : Txs])
    <3>1. txQ \in Seq(Nodes) /\ Nodes \subseteq Cells(Txs)
      BY NodesPriced DEF PoolInv
    <3>2. txQ \in Seq(Cells(Txs))
      BY <3>1
    <3> QED BY <3>2 DEF Cells
  <2>2. curPri \in 0 .. Word - 1
    <3>1. txQ \in Seq(Cells(Txs))
      BY <2>1 DEF Cells
    <3>2. Pris(txQ) \in Int
      BY <3>1, PrisType
    <3> QED BY <3>2, NodesPriced, ModRange DEF PoolInv
  <2>3. ct \in 0 .. Word - 1
    <3>1. ct \in Nat
      BY DEF PoolInv
    <3> QED BY <3>1, NodesPriced DEF PoolInv
  <2> QED BY <2>1, <2>2, <2>3 DEF TypeOK
<1> QED BY PoolAlways, <1>1, PTL

\* The array of the pool is a heap after every Add and every ChkTxs, for any
\* number of transactions: one heap.Init at the end of Rmv is enough.
THEOREM StaysHeap == Spec => []HeapOrder
<1>1. PoolInv => HeapOrder
  BY DEF PoolInv, HeapOrder
<1> QED BY PoolAlways, <1>1, PTL

\* The counters that PriMet and Add read agree with the heap, for any number
\* of copies in the pool and in the block and for any width of the words.
THEOREM CountersFollow == Spec => []CountersAgree
<1>1. PoolInv => CountersAgree
  BY DEF PoolInv, CountersAgree, Pris
<1> QED BY PoolAlways, <1>1, PTL
-----------------------------------------------------------------------------
(* What is mined *)

\* No node of a heap is larger than its first.
LEMMA RootIsMax ==
    ASSUME NEW S, NEW h \in Seq(Cells(S)), IsHeap(h)
    PROVE  \A k \in DOMAIN h : h[1].P >= h[k].P
<1>0. \A k \in DOMAIN h : h[k].P \in Nat
  <2>1. \A k \in DOMAIN h : h[k] \in Cells(S)
    OBVIOUS
  <2> QED BY <2>1 DEF Cells
<1> DEFINE T == {m \in Nat : \A k \in DOMAIN h : k <= m => h[1].P >= h[k].P}
<1>1. 0 \in T
  <2>1. \A k \in DOMAIN h : ~(k <= 0)
    OBVIOUS
  <2> QED BY <2>1
<1>2. ASSUME NEW m \in Nat, m \in T PROVE m + 1 \in T
  <2> SUFFICES ASSUME NEW k \in DOMAIN h, k <= m + 1 PROVE h[1].P >= h[k].P
    OBVIOUS
  <2>1. CASE k <= m
    BY <1>2, <2>1
  <2>2. CASE k = 1
    <3>1. 1 \in DOMAIN h
      BY <2>2
    <3>2. h[1].P \in Nat
      BY <1>0, <3>1
    <3> QED BY <2>2, <3>2
  <2>3. CASE k > m /\ k # 1
    <3>1. k \in 2 .. Len(h) /\ k \div 2 \in DOMAIN h /\ k \div 2 <= m /\ 1 \in DOMAIN h
      BY <2>3, Halves
    <3>2. h[1].P >= h[k \div 2].P
      BY <1>2, <3>1
    <3>3. ~(h[k].P > h[k \div 2].P)
      BY <3>1 DEF IsHeap, Less
    <3>4. h[1].P \in Nat /\ h[k].P \in Nat /\ h[k \div 2].P \in Nat
      BY <1>0, <3>1
    <3> QED BY <3>2, <3>3, <3>4
  <2> QED BY <2>1, <2>2, <2>3
<1>3. Nat \subseteq T
  <2> HIDE DEF T
  <2> QED BY <1>1, <1>2, UpLoop!SetInduction
<1>4. Len(h) \in T /\ \A k \in DOMAIN h : k <= Len(h)
  <2>1. Len(h) \in Nat /\ DOMAIN h = 1 .. Len(h)
    OBVIOUS
  <2> HIDE DEF T
  <2> QED BY <1>3, <2>1
<1> QED BY <1>4

\* The miner takes a start of the array that is small enough.
LEMMA Chosen ==
    ASSUME PoolInv
    PROVE  \E n \in 0 .. Len(txQ) :
              /\ NewMiningPool = SubSeq(txQ, 1, n)
              /\ n >= 1 => 100 + SumFunctionOnSet(Sizes(txQ), 1 .. n) < BlkSz
<1> DEFINE SizeUpTo(i) == 100 + SumFunctionOnSet(Sizes(txQ), 1 .. i)
           A == {0} \cup {i \in DOMAIN txQ : \A j \in 1 .. i : SizeUpTo(j) < BlkSz}
           n == Max(A)
<1>1. txQ \in Seq(Nodes) /\ Len(txQ) \in Nat /\ DOMAIN txQ = 1 .. Len(txQ)
  BY DEF PoolInv
<1>2. A \in SUBSET (0 .. Len(txQ)) /\ A # {}
  BY <1>1
<1>3. NewMiningPool = SubSeq(txQ, 1, n)
  BY DEF NewMiningPool
<1> HIDE DEF SizeUpTo
<1>4. n \in A
  <2>1. n = Total!Max(A)
    BY DEF Max, Total!Max
  <2>2. PICK m, B : m = Len(txQ) /\ B = A
    OBVIOUS
  <2> HIDE DEF A, n
  <2>3. m \in Nat /\ B \in SUBSET (0 .. m) /\ B # {}
    BY <1>1, <1>2, <2>2
  <2>4. Total!Max(B) \in B
    BY <2>3, Total!MinMax
  <2> QED BY <2>1, <2>2, <2>4
<1> HIDE DEF n
<1>5. n \in 0 .. Len(txQ) /\ (n >= 1 => SizeUpTo(n) < BlkSz)
  <2>1. n \in 0 .. Len(txQ)
    BY <1>2, <1>4
  <2>2. ASSUME n >= 1 PROVE SizeUpTo(n) < BlkSz
    <3>1. n # 0 /\ n \in 1 .. n
      BY <2>1, <2>2
    <3>2. \A j \in 1 .. n : SizeUpTo(j) < BlkSz
      BY <1>4, <3>1
    <3> QED BY <3>1, <3>2
  <2> QED BY <2>1, <2>2
<1> QED BY <1>3, <1>5 DEF SizeUpTo

\* Whatever the fees and sizes, what NewMiningPool takes of the array fits in
\* a block and has a transaction of the highest priority in the pool.
THEOREM BestIsMined == Spec => []TopIsMined
<1>1. PoolInv => TopIsMined
  <2> SUFFICES ASSUME PoolInv, NewMiningPool # <<>>
               PROVE  /\ 100 + SumFunction(Sizes(NewMiningPool)) < BlkSz
                      /\ \E i \in DOMAIN NewMiningPool : \A j \in DOMAIN txQ :
                            NewMiningPool[i].P >= txQ[j].P
    BY DEF TopIsMined
  <2>1. PICK n \in 0 .. Len(txQ) :
              /\ NewMiningPool = SubSeq(txQ, 1, n)
              /\ n >= 1 => 100 + SumFunctionOnSet(Sizes(txQ), 1 .. n) < BlkSz
    BY Chosen
  <2>2. PICK h, c : h = txQ /\ c = NewMiningPool
    OBVIOUS
  <2>3. h \in Seq(Cells(Txs)) /\ IsHeap(h) /\ n \in 0 .. Len(h) /\ Len(h) \in Nat
    BY <2>2, NodesPriced DEF PoolInv
  <2>4. /\ c \in Seq(Cells(Txs)) /\ Len(c) = n /\ n >= 1 /\ DOMAIN c = 1 .. n
        /\ \A k \in 1 .. n : c[k] = h[k]
    <3>1. 1 \in Int /\ n \in Int /\ \A k \in 1 .. n : h[k] \in Cells(Txs)
      BY <2>3
    <3>2. /\ SubSeq(h, 1, n) \in Seq(Cells(Txs))
          /\ Len(SubSeq(h, 1, n)) = IF 1 <= n THEN n - 1 + 1 ELSE 0
          /\ \A k \in 1 .. n - 1 + 1 : SubSeq(h, 1, n)[k] = h[1 + k - 1]
      BY <3>1, SubSeqProperties
    <3>3. c = SubSeq(h, 1, n) /\ c # <<>>
      BY <2>1, <2>2
    <3>4. c \in Seq(Cells(Txs)) /\ Len(c) = n
      BY <2>3, <3>2, <3>3
    <3>5. Len(c) \in Nat \ {0}
      BY <3>3, <3>4, EmptySeq
    <3>6. ASSUME NEW k \in 1 .. n PROVE c[k] = h[k]
      <4>1. k \in 1 .. n - 1 + 1 /\ 1 + k - 1 = k
        BY <2>3
      <4> QED BY <3>2, <3>3, <4>1
    <3> QED BY <3>4, <3>5, <3>6
  <2> DEFINE f == Sizes(h)
             e == Sizes(c)
  <2>5. /\ \A k \in 1 .. n : f[k] \in Int /\ e[k] = f[k]
        /\ DOMAIN e = 1 .. n
    <3>1. ASSUME NEW k \in 1 .. n PROVE f[k] \in Int /\ e[k] = f[k]
      <4>1. k \in DOMAIN h /\ h[k] \in Cells(Txs) /\ k \in DOMAIN c /\ c[k] = h[k]
        BY <2>3, <2>4
      <4>2. Sz[h[k].T] \in Int
        BY <4>1, PoolAssumption DEF Cells
      <4> QED BY <4>1, <4>2 DEF Sizes
    <3>2. DOMAIN e = 1 .. n
      BY <2>4 DEF Sizes
    <3> QED BY <3>1, <3>2
  <2> HIDE DEF f, e
  <2>6. SumFunction(e) = SumFunctionOnSet(f, 1 .. n)
    <3>1. IsFiniteSet(1 .. n)
      BY <2>3, FS_Interval
    <3>2. SumFunctionOnSet(f, 1 .. n) = SumFunctionOnSet(e, 1 .. n)
      BY <2>5, <3>1, SumSame
    <3> QED BY <2>5, <3>2 DEF SumFunction
  <2>7. 100 + SumFunction(Sizes(NewMiningPool)) < BlkSz
    <3>1. 100 + SumFunctionOnSet(Sizes(txQ), 1 .. n) < BlkSz
      BY <2>1, <2>4
    <3>2. SumFunctionOnSet(Sizes(txQ), 1 .. n) = SumFunction(Sizes(NewMiningPool))
      BY <2>2, <2>6 DEF e, f
    <3> QED BY <3>1, <3>2
  <2>8. 1 \in DOMAIN c /\ \A j \in DOMAIN h : c[1].P >= h[j].P
    <3>1. 1 \in DOMAIN c /\ c[1] = h[1]
      BY <2>3, <2>4
    <3> QED BY <2>3, <3>1, RootIsMax
  <2> QED BY <2>2, <2>7, <2>8
<1> QED BY PoolAlways, <1>1, PTL
-----------------------------------------------------------------------------
(* The pool is a bag *)

\* The numbers of copies of all transactions add up to the length.
LEMMA CountSum ==
    ASSUME NEW S, IsFiniteSet(S), NEW h \in Seq(Cells(S))
    PROVE  SumFunctionOnSet([t \in S |-> Count(h, t)], S) = Len(h)
<1> DEFINE f == [t \in S |-> Count(h, t)]
           At(A) == {i \in DOMAIN h : h[i].T \in A}
           P(A) == SumFunctionOnSet(f, A) = Cardinality(At(A))
           U == {n \in Nat : \A A \in SUBSET S : Cardinality(A) = n => P(A)}
<1>1. /\ \A A \in SUBSET S : IsFiniteSet(A) /\ Cardinality(A) \in Nat
      /\ \A A : IsFiniteSet(At(A)) /\ Cardinality(At(A)) \in Nat
  <2>1. DOMAIN h = 1 .. Len(h) /\ Len(h) \in Int /\ 1 \in Int
    OBVIOUS
  <2>2. IsFiniteSet(DOMAIN h)
    BY <2>1, FS_Interval
  <2>3. \A A : IsFiniteSet(At(A))
    BY <2>2, FS_Subset
  <2> QED BY <2>3, FS_Subset, FS_CardinalityType
<1>2. \A t \in S : f[t] = Cardinality(At({t})) /\ f[t] \in Int
  <2>1. ASSUME NEW t \in S PROVE f[t] = Cardinality(At({t}))
    <3>1. At({t}) = {i \in DOMAIN h : h[i].T = t}
      OBVIOUS
    <3> QED BY <3>1 DEF Count
  <2> HIDE DEF f, At
  <2> QED BY <1>1, <2>1
<1>3. \A A, B : At(A \cup B) = At(A) \cup At(B) /\ (A \cap B = {} => At(A) \cap At(B) = {})
  OBVIOUS
<1>4. At({}) = {} /\ At(S) = DOMAIN h
  <2>1. \A i \in DOMAIN h : h[i] \in Cells(S)
    OBVIOUS
  <2>2. \A i \in DOMAIN h : h[i].T \in S
    BY <2>1 DEF Cells
  <2> QED BY <2>2
<1> HIDE DEF f, At
<1>5. 0 \in U
  <2>1. ASSUME NEW A \in SUBSET S, Cardinality(A) = 0 PROVE P(A)
    <3>1. A = {}
      BY <1>1, <2>1, FS_EmptySet
    <3>2. SumFunctionOnSet(f, {}) = 0
      BY <1>2, SumTakeOut
    <3> QED BY <1>4, <3>1, <3>2, FS_EmptySet
  <2> HIDE DEF P
  <2> QED BY <2>1
<1>6. ASSUME NEW n \in Nat, n \in U PROVE n + 1 \in U
  <2>1. ASSUME NEW A \in SUBSET S, Cardinality(A) = n + 1 PROVE P(A)
    <3>1. PICK x : x \in A
      BY <1>1, <2>1, FS_EmptySet
    <3> DEFINE B == A \ {x}
    <3>2. B \in SUBSET S /\ Cardinality(B) = n /\ B \cup {x} = A /\ B \cap {x} = {}
      <4>1. Cardinality(B) = Cardinality(A) - 1
        BY <1>1, <3>1, FS_RemoveElement
      <4> QED BY <2>1, <3>1, <4>1
    <3>3. SumFunctionOnSet(f, A) = f[x] + SumFunctionOnSet(f, B)
      <4>1. IsFiniteSet(A) /\ \A y \in A : f[y] \in Int
        BY <1>1, <1>2
      <4> QED BY <3>1, <4>1, SumTakeOut
    <3>4. SumFunctionOnSet(f, B) = Cardinality(At(B))
      BY <1>6, <3>2
    <3> HIDE DEF B
    <3>5. Cardinality(At(A)) = Cardinality(At(B)) + Cardinality(At({x}))
      <4>1. At(A) = At(B) \cup At({x}) /\ At(B) \cap At({x}) = {}
        BY <1>3, <3>2
      <4>2. Cardinality(At(B) \cup At({x}))
              = Cardinality(At(B)) + Cardinality(At({x})) - Cardinality({})
        BY <1>1, <4>1, FS_Union, ZenonT(60)
      <4>3. Cardinality({}) = 0
        BY FS_EmptySet
      <4> QED BY <1>1, <4>1, <4>2, <4>3
    <3>6. f[x] = Cardinality(At({x})) /\ f[x] \in Int /\ Cardinality(At(B)) \in Nat
      BY <1>1, <1>2, <3>1
    <3> QED BY <3>3, <3>4, <3>5, <3>6
  <2> HIDE DEF P
  <2> QED BY <2>1
<1>7. P(S)
  <2>1. Nat \subseteq U
    <3> HIDE DEF U
    <3> QED BY <1>5, <1>6, UpLoop!SetInduction
  <2> HIDE DEF P
  <2> QED BY <1>1, <2>1
<1>8. Cardinality(DOMAIN h) = Len(h)
  <2>1. DOMAIN h = 1 .. Len(h) /\ Len(h) \in Nat
    OBVIOUS
  <2> QED BY <2>1, FS_Interval
<1> QED BY <1>4, <1>7, <1>8 DEF f

BagOf(h) == [t \in Txs |-> Count(h, t)]

\* The array of the pool, with its sifting and its order, implements a bag of
\* at most Cap transactions: Add refuses a transaction exactly when the bag
\* is full, and ChkTxs takes one copy of each transaction of the block.
THEOREM PoolIsBag ==
    ASSUME IsFiniteSet(Txs)
    PROVE  Spec => ImplementsBag
<1>1. Init => Bag!Init
  BY EmptyHeap DEF Init, NewTxHeap, Bag!Init
<1>2. ASSUME PoolInv, [Next]_poolVars PROVE [Bag!Next]_(BagOf(txQ))
  <2>1. CASE \E t \in Txs : Add(t)
    <3>1. PICK t \in Txs : Add(t)
      BY <2>1
    <3>2. Len(txQ) < Cap /\ \A u : Count(txQ', u) = Count(txQ, u) + (IF t = u THEN 1 ELSE 0)
      BY <1>2, <3>1, PoolAdd
    <3>3. Bag!Size = Len(txQ)
      <4>1. PICK h : h = txQ
        OBVIOUS
      <4>2. h \in Seq(Cells(Txs))
        BY <1>2, <4>1, NodesPriced DEF PoolInv
      <4>3. SumFunctionOnSet(BagOf(h), Txs) = Len(h)
        BY <4>2, CountSum DEF BagOf
      <4>4. DOMAIN BagOf(h) = Txs
        BY DEF BagOf
      <4>5. Bag!Size = SumFunction(BagOf(h))
        BY <4>1 DEF BagOf, Bag!Size, Bag!SumFunction, Bag!SumFunctionOnSet,
                    Bag!FoldFunctionOnSet, Bag!MapThenFoldSet, SumFunction,
                    SumFunctionOnSet, FoldFunctionOnSet, MapThenFoldSet
      <4> QED BY <4>1, <4>3, <4>4, <4>5 DEF SumFunction
    <3>4. BagOf(txQ)' = [BagOf(txQ) EXCEPT ![t] = @ + 1]
      <4>1. \A u : Count(txQ, u) \in Nat
        BY <1>2, CountType DEF PoolInv
      <4>2. ASSUME NEW u \in Txs
            PROVE  Count(txQ', u) = IF u = t THEN Count(txQ, u) + 1 ELSE Count(txQ, u)
        BY <3>2, <4>1
      <4> QED BY <4>2 DEF BagOf
    <3>5. Bag!Enter(t)
      BY <3>2, <3>3, <3>4 DEF Bag!Enter, BagOf
    <3> QED BY <3>5 DEF Bag!Next
  <2>2. CASE \E ts \in Blks : ChkTxs(ts)
    <3>1. PICK ts \in Blks : ChkTxs(ts)
      BY <2>2
    <3>2. /\ ts \in Seq(Txs)
          /\ \A u : Count(txQ', u) = Less0(Count(txQ, u), Among(ts, Len(ts), u))
      BY <1>2, <3>1, PoolChk
    <3>3. \A u : Bag!Copies(ts, u) = Among(ts, Len(ts), u)
      <4>1. DOMAIN ts = 1 .. Len(ts)
        BY <3>2
      <4> QED BY <4>1 DEF Bag!Copies, Among, Cardinality, Bag!Cardinality
    <3>4. Bag!Leave(ts)
      BY <3>2, <3>3 DEF Bag!Leave, Less0
    <3> QED BY <3>4 DEF Bag!Next
  <2>3. CASE UNCHANGED poolVars
    BY <2>3 DEF poolVars, BagOf
  <2> QED BY <1>2, <2>1, <2>2, <2>3 DEF Next
<1>3. PoolInv /\ [Next]_poolVars => [Bag!Next]_(BagOf(txQ))
  BY <1>2
<1> QED BY <1>1, <1>3, PoolAlways, PTL DEF Spec, ImplementsBag, Bag!Spec, BagOf
=============================================================================
