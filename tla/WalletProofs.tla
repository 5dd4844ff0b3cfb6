---------------------------- MODULE WalletProofs ----------------------------
(***************************************************************************)
(* Theorems about the wallet, for every set of transactions, every length  *)
(* of the chain and any number of handlers that run at once.  What is      *)
(* known of the heap comes from TxPoolProofs, with a pool that is never    *)
(* used.                                                                   *)
(***************************************************************************)
EXTENDS Wallet, FiniteSetTheorems, SequenceTheorems, TLAPS

\* One round of IncAll, and one of RemAbv's search.
IncRound(i, g) == [g EXCEPT ![i].P = @ + 1]
OldRound(n, rem) == IF n.P >= TxRplyThresh THEN Append(rem, n.T) ELSE rem

Heap == INSTANCE TxPoolProofs WITH
            Fee <- [t \in Txs |-> 0], Sz <- [t \in Txs |-> 0], Blks <- {},
            Cap <- 0, BlkSz <- 0, Word <- 1, txQ <- lmnl, curPri <- 0, ct <- 0
Incs == INSTANCE FoldFacts WITH Op <- IncRound
Olds == INSTANCE FoldFacts WITH Op <- OldRound
-----------------------------------------------------------------------------
(* What the operations on the heap do to the number of copies *)

Cells == [P : Nat, T : Txs]
Copies(ts, t) == Cardinality({i \in DOMAIN ts : ts[i] = t})

LEMMA SameHeap ==
    ASSUME NEW h, NEW t
    PROVE  /\ IsHeap(h) <=> Heap!IsHeap(h)
           /\ Count(h, t) = Heap!Count(h, t)
<1>1. IsHeap(h) <=> Heap!IsHeap(h)
  BY DEF IsHeap, Less, Heap!IsHeap, Heap!Less
<1>2. Count(h, t) = Heap!Count(h, t)
  BY DEF Count, Cardinality, Heap!Count, Heap!Cardinality
<1> QED BY <1>1, <1>2

LEMMA SameAdd ==
    ASSUME NEW h, NEW p, NEW t
    PROVE  HeapAdd(h, p, t) = Heap!HeapAdd(h, p, t)
BY DEF HeapAdd, Up, UpStep, Less, Swap, FoldLeft, MapThenFoldSet,
       Heap!HeapAdd, Heap!Up, Heap!UpStep, Heap!Less, Heap!Swap, Heap!FoldLeft,
       Heap!MapThenFoldSet, Max, Heap!Max

LEMMA SameRmv ==
    ASSUME NEW h, NEW ts
    PROVE  Rmv(h, ts) = Heap!Rmv(h, ts)
BY DEF Rmv, RmvLoop, RmvStep, RmvOne, Has, GetIndex, HeapInit, Down, DownStep, Child, Less, Swap,
       FoldLeft, FoldRight, MapThenFoldSet, Max, Min,
       Heap!Rmv, Heap!RmvLoop, Heap!RmvStep, Heap!RmvOne, Heap!Has, Heap!GetIndex,
       Heap!HeapInit, Heap!Down, Heap!DownStep, Heap!Child, Heap!Less, Heap!Swap,
       Heap!FoldLeft, Heap!FoldRight, Heap!MapThenFoldSet, Heap!Max, Heap!Min

LEMMA Adding ==
    ASSUME NEW h \in Seq(Cells), IsHeap(h), NEW t \in Txs
    PROVE  LET g == HeapAdd(h, 0, t)
           IN  /\ g \in Seq(Cells) /\ IsHeap(g)
               /\ \A u : Count(g, u) = Count(h, u) + (IF t = u THEN 1 ELSE 0)
<1> DEFINE n == [P |-> 0, T |-> t]
           g == HeapAdd(h, 0, t)
<1>1. n \in Cells /\ n.P = 0 /\ n.T = t
  BY DEF Cells
<1>2. Cells \in SUBSET Heap!Cells(Txs)
  BY DEF Cells, Heap!Cells
<1>3. Heap!IsHeap(h)
  BY SameHeap
<1>4. Heap!Holds(Cells, h, n, Heap!HeapAdd(h, n.P, n.T))
  <2> HIDE DEF n
  <2> QED BY <1>1, <1>2, <1>3, Heap!AddIsHeap
<1>5. Heap!HeapAdd(h, n.P, n.T) = g
  BY <1>1, SameAdd
<1> HIDE DEF g
<1>6. Heap!Holds(Cells, h, n, g)
  BY <1>4, <1>5
<1>7. g \in Seq(Cells) /\ Heap!IsHeap(g)
  BY <1>6 DEF Heap!Holds
<1>8. ASSUME NEW u PROVE Count(g, u) = Count(h, u) + (IF t = u THEN 1 ELSE 0)
  <2>1. Heap!Count(g, u) = Heap!Count(h, u) + (IF n.T = u THEN 1 ELSE 0)
    BY <1>6 DEF Heap!Holds
  <2> QED BY <1>1, <2>1, SameHeap
<1> QED BY <1>7, <1>8, SameHeap DEF g

\* The numbers left when up to b of a are taken.
Left(a, b) == IF a > b THEN a - b ELSE 0

LEMMA Removing ==
    ASSUME NEW h \in Seq(Cells), NEW ts \in Seq(Txs)
    PROVE  LET g == Rmv(h, ts)
           IN  /\ g \in Seq(Cells) /\ IsHeap(g)
               /\ \A u : Count(g, u) = Left(Count(h, u), Copies(ts, u))
<1> DEFINE g == Rmv(h, ts)
<1>1. Cells \in SUBSET Heap!Cells(Txs)
  BY DEF Cells, Heap!Cells
<1>2. /\ Heap!Rmv(h, ts) \in Seq(Cells) /\ Heap!IsHeap(Heap!Rmv(h, ts))
      /\ \A u : Heap!Count(Heap!Rmv(h, ts), u)
                  = Heap!Less0(Heap!Count(h, u), Heap!Among(ts, Len(ts), u))
  BY <1>1, Heap!RmvBag
<1>3. Heap!Rmv(h, ts) = g
  BY SameRmv
<1> HIDE DEF g
<1>4. ASSUME NEW u PROVE Count(g, u) = Left(Count(h, u), Copies(ts, u))
  <2>1. Heap!Among(ts, Len(ts), u) = Copies(ts, u)
    <3>1. DOMAIN ts = 1 .. Len(ts)
      OBVIOUS
    <3> QED BY <3>1 DEF Heap!Among, Heap!Cardinality, Copies, Cardinality
  <2>2. Heap!Count(g, u) = Heap!Less0(Heap!Count(h, u), Copies(ts, u))
    BY <1>2, <1>3, <2>1
  <2>3. Count(g, u) = Heap!Count(g, u) /\ Count(h, u) = Heap!Count(h, u)
    BY SameHeap
  <2> QED BY <2>2, <2>3 DEF Heap!Less0, Left
<1> QED BY <1>2, <1>3, <1>4, SameHeap DEF g

LEMMA CountType ==
    ASSUME NEW X, NEW h \in Seq(X), NEW t
    PROVE  Count(h, t) \in Nat /\ (Count(h, t) >= 1 <=> Has(h, t))
<1> DEFINE D == {i \in DOMAIN h : h[i].T = t}
<1>1. IsFiniteSet(DOMAIN h)
  BY FS_Interval
<1>2. IsFiniteSet(D)
  BY <1>1, FS_Subset
<1>3. Count(h, t) = Cardinality(D) /\ (Has(h, t) <=> D # {})
  BY DEF Count, Has
<1> HIDE DEF D
<1> QED BY <1>2, <1>3, FS_CardinalityType, FS_EmptySet

LEMMA CopiesType ==
    ASSUME NEW X, NEW ts \in Seq(X), NEW t
    PROVE  /\ Copies(ts, t) \in Nat
           /\ Copies(ts, t) >= 1 <=> \E i \in DOMAIN ts : ts[i] = t
           /\ Copies(ts, t) <= 1 => \A i, j \in DOMAIN ts : ts[i] = t /\ ts[j] = t => i = j
<1> DEFINE D == {i \in DOMAIN ts : ts[i] = t}
<1>1. IsFiniteSet(DOMAIN ts)
  BY FS_Interval
<1>2. IsFiniteSet(D)
  BY <1>1, FS_Subset
<1>3. Copies(ts, t) = Cardinality(D) /\ ((\E i \in DOMAIN ts : ts[i] = t) <=> D # {})
  BY DEF Copies
<1>4. Cardinality(D) \in Nat /\ (Cardinality(D) = 0 <=> D = {})
  BY <1>2, FS_CardinalityType, FS_EmptySet
<1>5. ASSUME Cardinality(D) <= 1, NEW i \in D, NEW j \in D PROVE i = j
  <2> HIDE DEF D
  <2>1. IsFiniteSet({i, j}) /\ Cardinality({i, j}) <= Cardinality(D)
    BY <1>2, FS_Subset
  <2>2. i # j => Cardinality({i, j}) = 2
    <3>1. IsFiniteSet({i}) /\ Cardinality({i}) = 1
      BY FS_Singleton
    <3>2. j \notin {i} => Cardinality({i} \cup {j}) = Cardinality({i}) + 1
      BY <3>1, FS_AddElement
    <3>3. {i} \cup {j} = {i, j}
      OBVIOUS
    <3> QED BY <3>1, <3>2, <3>3
  <2> QED BY <1>4, <1>5, <2>1, <2>2
<1> QED BY <1>3, <1>4, <1>5

\* Aged: another node with the same transaction at each position.
Aged(h, g) == /\ g \in Seq(Cells) /\ Len(g) = Len(h)
              /\ \A i \in 1 .. Len(h) : g[i].T = h[i].T

LEMMA IncIsAged ==
    ASSUME NEW h \in Seq(Cells), NEW g, Aged(h, g), NEW i \in 1 .. Len(h)
    PROVE  Aged(h, IncRound(i, g))
<1> DEFINE n == [g[i] EXCEPT !.P = @ + 1]
<1>1. g \in Seq(Cells) /\ Len(g) = Len(h) /\ i \in 1 .. Len(g) /\ g[i] \in Cells
  BY DEF Aged
<1>2. n \in Cells /\ n.T = g[i].T
  BY <1>1, SMTT(30) DEF Cells
<1>3. IncRound(i, g) = [g EXCEPT ![i] = n]
  BY DEF IncRound
<1> HIDE DEF n
<1>4. [g EXCEPT ![i] = n] \in Seq(Cells) /\ Len([g EXCEPT ![i] = n]) = Len(g)
  BY <1>1, <1>2
<1>5. \A j \in 1 .. Len(h) : [g EXCEPT ![i] = n][j].T = h[j].T
  BY <1>1, <1>2 DEF Aged
<1> QED BY <1>1, <1>3, <1>4, <1>5 DEF Aged

\* IncAll leaves the transactions where they are.
LEMMA Aging ==
    ASSUME NEW h \in Seq(Cells)
    PROVE  Aged(h, IncAll(h)) /\ \A t : Count(IncAll(h), t) = Count(h, t)
<1> DEFINE ps == [i \in DOMAIN h |-> i]
           l == Len(h)
<1>1. ps \in Seq(Nat) /\ Len(ps) = l /\ l \in Nat /\ \A i \in 1 .. l : ps[i] = i
  OBVIOUS
<1>2. IncAll(h) = Incs!LeftFold(ps, h)
  BY DEF IncAll, FoldLeftDomain, FoldLeft, MapThenFoldSet, Max, IncRound,
         Incs!LeftFold, Incs!FoldLeft, Incs!MapThenFoldSet, Incs!Max
<1> HIDE DEF ps
<1>3. PICK g : Incs!LeftRounds(g, ps, h)
  BY <1>1, Incs!FoldLeftRounds
<1> HIDE DEF l
<1>4. /\ g[0] = h /\ IncAll(h) = g[l]
      /\ \A i \in 1 .. l : g[i] = IncRound(i, g[i - 1])
  BY <1>1, <1>2, <1>3 DEF Incs!LeftRounds
<1> DEFINE Q == {i \in Nat : i <= l => Aged(h, g[i])}
<1>5. 0 \in Q
  BY <1>4 DEF Aged
<1>6. ASSUME NEW i \in Nat, i \in Q PROVE i + 1 \in Q
  <2> SUFFICES ASSUME i + 1 <= l PROVE Aged(h, g[i + 1])
    OBVIOUS
  <2>1. i + 1 \in 1 .. l /\ (i + 1) - 1 = i /\ i <= l
    BY <1>1
  <2>2. Aged(h, g[i]) /\ g[i + 1] = IncRound(i + 1, g[i])
    BY <1>4, <1>6, <2>1
  <2> QED BY <2>1, <2>2, IncIsAged DEF l
<1>7. Aged(h, IncAll(h))
  <2>1. Nat \subseteq Q
    <3> HIDE DEF Q
    <3> QED BY <1>5, <1>6, Incs!SetInduction
  <2> QED BY <1>1, <1>4, <2>1
<1>8. ASSUME NEW t PROVE Count(IncAll(h), t) = Count(h, t)
  <2>1. {i \in DOMAIN IncAll(h) : IncAll(h)[i].T = t} = {i \in DOMAIN h : h[i].T = t}
    BY <1>7 DEF Aged
  <2> QED BY <2>1 DEF Count
<1> QED BY <1>7, <1>8

\* The transactions of the first n nodes, and what RemAbv has found in them.
Upto(h, n, t) == Cardinality({i \in 1 .. n : h[i].T = t})
OldOf(h, n, rem) == rem \in Seq(Txs) /\ \A t : Copies(rem, t) <= Upto(h, n, t)

LEMMA UptoStep ==
    ASSUME NEW h, NEW n \in Nat, NEW t
    PROVE  /\ Upto(h, n, t) \in Nat /\ Upto(h, 0, t) = 0
           /\ Upto(h, n + 1, t) = Upto(h, n, t) + (IF h[n + 1].T = t THEN 1 ELSE 0)
<1> DEFINE A == {i \in 1 .. n : h[i].T = t}
           B == {i \in 1 .. n + 1 : h[i].T = t}
<1>1. IsFiniteSet(A) /\ Cardinality(A) \in Nat
  <2>1. IsFiniteSet(1 .. n)
    BY FS_Interval
  <2> QED BY <2>1, FS_Subset, FS_CardinalityType
<1>2. n + 1 \notin A /\ B = IF h[n + 1].T = t THEN A \cup {n + 1} ELSE A
  OBVIOUS
<1>3. Cardinality(B) = Cardinality(A) + (IF h[n + 1].T = t THEN 1 ELSE 0)
  <2> HIDE DEF A, B
  <2>1. Cardinality(A \cup {n + 1}) = Cardinality(A) + 1
    BY <1>1, <1>2, FS_AddElement
  <2> QED BY <1>1, <1>2, <2>1
<1>4. Upto(h, 0, t) = 0
  <2>1. {i \in 1 .. 0 : h[i].T = t} = {}
    OBVIOUS
  <2> QED BY <2>1, FS_EmptySet DEF Upto
<1> QED BY <1>1, <1>3, <1>4 DEF Upto

LEMMA CopiesAppend ==
    ASSUME NEW X, NEW ts \in Seq(X), NEW x \in X, NEW t
    PROVE  Copies(Append(ts, x), t) = Copies(ts, t) + (IF x = t THEN 1 ELSE 0)
<1> DEFINE A == {i \in DOMAIN ts : ts[i] = t}
           q == Append(ts, x)
           B == {i \in DOMAIN q : q[i] = t}
           l == Len(ts)
<1>1. /\ l \in Nat /\ DOMAIN ts = 1 .. l /\ DOMAIN q = 1 .. l + 1 /\ q[l + 1] = x
      /\ \A i \in 1 .. l : q[i] = ts[i]
  OBVIOUS
<1>2. IsFiniteSet(A) /\ Cardinality(A) \in Nat
  <2>1. IsFiniteSet(DOMAIN ts)
    BY FS_Interval
  <2> QED BY <2>1, FS_Subset, FS_CardinalityType
<1> HIDE DEF q, l
<1>3. l + 1 \notin A /\ B = IF x = t THEN A \cup {l + 1} ELSE A
  BY <1>1
<1> HIDE DEF A, B
<1>4. Cardinality(A \cup {l + 1}) = Cardinality(A) + 1
  BY <1>2, <1>3, FS_AddElement
<1>5. Cardinality(B) = Cardinality(A) + (IF x = t THEN 1 ELSE 0)
  BY <1>2, <1>3, <1>4
<1> QED BY <1>5 DEF Copies, A, B, q

LEMMA OldStep ==
    ASSUME NEW h \in Seq(Cells), NEW n \in Nat, n + 1 <= Len(h), NEW rem, OldOf(h, n, rem)
    PROVE  OldOf(h, n + 1, OldRound(h[n + 1], rem))
<1>1. h[n + 1] \in Cells /\ h[n + 1].T \in Txs
  <2>1. n + 1 \in 1 .. Len(h)
    OBVIOUS
  <2>2. h[n + 1] \in Cells
    BY <2>1
  <2> QED BY <2>2 DEF Cells
<1>2. PICK x \in Txs : x = h[n + 1].T
  BY <1>1
<1>3. rem \in Seq(Txs) /\ Append(rem, x) \in Seq(Txs)
  BY DEF OldOf
<1>4. ASSUME NEW t
      PROVE  /\ Copies(rem, t) <= Upto(h, n + 1, t)
             /\ Copies(Append(rem, x), t) <= Upto(h, n + 1, t)
  <2>1. Copies(rem, t) \in Nat /\ Copies(rem, t) <= Upto(h, n, t)
    BY <1>3, CopiesType DEF OldOf
  <2>2. Copies(Append(rem, x), t) = Copies(rem, t) + (IF x = t THEN 1 ELSE 0)
    BY <1>3, CopiesAppend
  <2>3. Upto(h, n, t) \in Nat /\ Upto(h, n + 1, t) = Upto(h, n, t) + (IF x = t THEN 1 ELSE 0)
    BY <1>2, UptoStep
  <2> QED BY <2>1, <2>2, <2>3
<1>5. OldRound(h[n + 1], rem) = rem \/ OldRound(h[n + 1], rem) = Append(rem, x)
  BY <1>2 DEF OldRound
<1> QED BY <1>3, <1>4, <1>5 DEF OldOf

\* What RemAbv takes out was there, and no copy is taken twice.
LEMMA Oldest ==
    ASSUME NEW h \in Seq(Cells)
    PROVE  LET old == Above(h, TxRplyThresh)
           IN  old \in Seq(Txs) /\ \A t : Copies(old, t) <= Count(h, t)
<1> DEFINE l == Len(h)
           old == Above(h, TxRplyThresh)
<1>1. old = Olds!LeftFold(h, <<>>)
  BY DEF Above, FoldLeft, MapThenFoldSet, Max, OldRound,
         Olds!LeftFold, Olds!FoldLeft, Olds!MapThenFoldSet, Olds!Max
<1>2. PICK g : Olds!LeftRounds(g, h, <<>>)
  BY Olds!FoldLeftRounds
<1> HIDE DEF old
<1>3. /\ g[0] = <<>> /\ old = g[l] /\ l \in Nat
      /\ \A i \in 1 .. l : g[i] = OldRound(h[i], g[i - 1])
  BY <1>1, <1>2 DEF Olds!LeftRounds
<1> DEFINE Q == {i \in Nat : i <= l => OldOf(h, i, g[i])}
<1>4. 0 \in Q
  <2>1. ASSUME NEW t PROVE Copies(<<>>, t) <= Upto(h, 0, t)
    <3>1. {i \in DOMAIN <<>> : <<>>[i] = t} = {}
      OBVIOUS
    <3>2. Copies(<<>>, t) = 0
      BY <3>1, FS_EmptySet DEF Copies
    <3> QED BY <3>2, UptoStep
  <2>2. OldOf(h, 0, <<>>)
    BY <2>1 DEF OldOf
  <2> QED BY <1>3, <2>2
<1>5. ASSUME NEW i \in Nat, i \in Q PROVE i + 1 \in Q
  <2> SUFFICES ASSUME i + 1 <= l PROVE OldOf(h, i + 1, g[i + 1])
    OBVIOUS
  <2>1. i + 1 \in 1 .. l /\ (i + 1) - 1 = i /\ i <= l
    BY <1>3
  <2>2. OldOf(h, i, g[i]) /\ g[i + 1] = OldRound(h[i + 1], g[i])
    BY <1>3, <1>5, <2>1
  <2> QED BY <2>1, <2>2, OldStep
<1>6. OldOf(h, l, old)
  <2>1. Nat \subseteq Q
    <3> HIDE DEF Q
    <3> QED BY <1>4, <1>5, Olds!SetInduction
  <2> QED BY <1>3, <2>1
<1>7. \A t : Upto(h, l, t) = Count(h, t)
  <2>1. DOMAIN h = 1 .. l
    OBVIOUS
  <2> QED BY <2>1 DEF Upto, Count
<1> QED BY <1>6, <1>7 DEF OldOf, old

\* SetToSeq lists a finite set.
LEMMA Listing ==
    ASSUME NEW S \in SUBSET Txs, IsFiniteSet(S)
    PROVE  SetToSeq(S) \in Seq(Txs) /\ \A t : t \notin S => Copies(SetToSeq(S), t) = 0
<1> DEFINE n == Cardinality(S)
<1>1. n \in Nat /\ ExistsBijection(1 .. n, S)
  BY FS_CardinalityType, FS_CountingElements
<1>2. \E f \in [1 .. n -> S] : IsInjective(f)
  BY <1>1 DEF ExistsBijection, Bijection, Injection, IsInjective
<1>3. SetToSeq(S) \in [1 .. n -> S]
  BY <1>2 DEF SetToSeq
<1>4. SetToSeq(S) \in Seq(Txs) /\ \A i \in DOMAIN SetToSeq(S) : SetToSeq(S)[i] \in S
  BY <1>1, <1>3
<1>5. ASSUME NEW t, t \notin S PROVE Copies(SetToSeq(S), t) = 0
  <2>1. {i \in DOMAIN SetToSeq(S) : SetToSeq(S)[i] = t} = {}
    BY <1>4, <1>5
  <2> QED BY <2>1, FS_EmptySet DEF Copies
<1> QED BY <1>4, <1>5
-----------------------------------------------------------------------------
(* The inductive invariant *)

\* Handler n took t out of the liminal transactions and will put it back.
Held(n, t) == /\ pc[n] \in {"resend", "send"}
              /\ \E i \in DOMAIN todo[n] : todo[n][i] = t /\ (i > 1 \/ pc[n] = "resend")

\* A transaction is liminal once, or held by one handler, or neither; one that
\* was not made yet is neither.
Places == \A t \in Txs :
    /\ Count(lmnl, t) <= 1
    /\ Has(lmnl, t) => \A n \in BlkProcs : ~Held(n, t)
    /\ \A m, n \in BlkProcs : Held(m, t) /\ Held(n, t) => m = n
    /\ pc[t] = "idle" => ~Has(lmnl, t) /\ \A n \in BlkProcs : ~Held(n, t)

\* A handler has no transaction twice, and waits on SendTx with one only.
Work == /\ \A n \in BlkProcs : \A i, j \in DOMAIN todo[n] : todo[n][i] = todo[n][j] => i = j
        /\ \A p \in Procs : pc[p] = "send" => todo[p] # <<>>

\* There is a handler for each block of the chain, and those that look at a
\* block have found it as deep as the wallet looks.
Deep == /\ Len(chain) >= 1
        /\ \A n \in BlkProcs : n > Len(chain) => pc[n] = "idle"
        /\ \A n \in BlkProcs : pc[n] = "chk" => OnTop(seen[n]) >= SafeBlkAmt - 1

WInv == TypeOK /\ IsHeap(lmnl) /\ Places /\ Work /\ Deep /\ NeverForgotten

Labels == {"idle", "added", "slice", "chk", "resend", "send", "done"}

LEMMA ProcsApart == /\ \A t \in Txs : t \notin BlkProcs /\ t \in Procs
                    /\ \A n \in BlkProcs : n \in Procs /\ n \in Nat /\ n >= 2
BY WalletAssumption DEF BlkProcs, Procs

LEMMA HoldersHeld == \A t : Holders(t) = {n \in BlkProcs : Held(n, t)}
BY DEF Holders, Held

LEMMA WalletInit == Init => WInv
<1> SUFFICES ASSUME Init PROVE WInv
  OBVIOUS
<1>1. TypeOK
  <2>1. <<{}>> \in Seq(SUBSET (Txs \X Nat)) /\ <<>> \in Seq([P : Nat, T : Txs]) /\ <<>> \in Seq(Txs)
    OBVIOUS
  <2>2. \A t \in Txs : lock[t] \in Nat /\ pool[t] \in Nat
    BY DEF Init
  <2>3. todo \in [Procs -> Seq(Txs)]
    BY <2>1 DEF Init
  <2>4. lmnl \in Seq([P : Nat, T : Txs]) /\ chain \in Seq(SUBSET (Txs \X Nat))
    BY <2>1 DEF Init, NewLmnlTxs, NewTxHeap
  <2> QED BY <2>2, <2>3, <2>4, ProcsApart DEF Init, TypeOK
<1>2. IsHeap(lmnl)
  BY DEF Init, IsHeap, NewLmnlTxs, NewTxHeap
<1>3. \A t : Count(lmnl, t) = 0 /\ ~Has(lmnl, t)
  <2>1. \A t : {i \in DOMAIN lmnl : lmnl[i].T = t} = {}
    BY DEF Init, NewLmnlTxs, NewTxHeap
  <2> QED BY <2>1, FS_EmptySet DEF Count, Has
<1>4. \A n \in BlkProcs : \A t : ~Held(n, t)
  BY ProcsApart DEF Init, Held
<1>5. Places
  BY <1>3, <1>4 DEF Places
<1>6. Work
  BY ProcsApart DEF Init, Work
<1>7. Deep
  BY ProcsApart DEF Init, Deep
<1>8. NeverForgotten
  BY ProcsApart DEF Init, NeverForgotten, Made
<1> QED BY <1>1, <1>2, <1>5, <1>6, <1>7, <1>8 DEF WInv

\* The chain only grows, so that what was deep enough stays so.
Grows == /\ Len(chain) \in Nat /\ Len(chain') \in Nat /\ Len(chain') >= Len(chain)
         /\ \A i \in DOMAIN chain : i \in DOMAIN chain' /\ chain'[i] = chain[i] /\ i \in Nat

LEMMA SameChain ==
    ASSUME TypeOK, chain' = chain PROVE Grows
BY DEF TypeOK, Grows

\* A step that moves no transaction.
LEMMA StillPlaced ==
    ASSUME Places, NeverForgotten, Grows, lmnl' = lmnl, SafeBlkAmt \in Nat,
           \A n \in BlkProcs, t \in Txs : Held(n, t)' <=> Held(n, t),
           \A t \in Txs : pc'[t] = "idle" <=> pc[t] = "idle"
    PROVE  Places' /\ NeverForgotten'
<1>1. \A t \in Txs : Count(lmnl, t)' = Count(lmnl, t) /\ (Has(lmnl, t)' <=> Has(lmnl, t))
  BY DEF Count, Has
<1>2. Places'
  BY <1>1 DEF Places
<1>3. ASSUME NEW t \in Txs, NEW i \in DOMAIN chain, InBlock(t, i), OnTop(i) >= SafeBlkAmt - 1
      PROVE  i \in DOMAIN chain' /\ InBlock(t, i)' /\ OnTop(i)' >= SafeBlkAmt - 1
  <2>1. i \in DOMAIN chain' /\ InBlock(t, i)'
    BY <1>3 DEF Grows, InBlock
  <2>2. OnTop(i)' >= SafeBlkAmt - 1
    BY <1>3 DEF Grows, OnTop
  <2> QED BY <2>1, <2>2
<1>4. ASSUME NEW t \in Txs, Holders(t) # {} PROVE Holders(t)' # {}
  <2>1. PICK n \in BlkProcs : Held(n, t)
    BY <1>4, HoldersHeld
  <2>2. Held(n, t)'
    BY <2>1
  <2> QED BY <2>2 DEF Holders, Held
<1>5. NeverForgotten'
  BY <1>1, <1>3, <1>4 DEF NeverForgotten, Made
<1> QED BY <1>2, <1>5

LEMMA AddBlockStep ==
    ASSUME WInv, AddBlock
    PROVE  WInv'
<1> USE DEF WInv
<1> DEFINE k == Len(chain) + 1
<1>0. PICK S \in SUBSET (net \cup {Version(t) : t \in {u \in Txs : pool[u] > 0}}) :
         chain' = Append(chain, S)
  BY DEF AddBlock
<1>1. S \in SUBSET (Txs \X Nat)
  BY DEF TypeOK, Version
<1>2. /\ chain \in Seq(SUBSET (Txs \X Nat)) /\ chain' \in Seq(SUBSET (Txs \X Nat))
      /\ Len(chain') = k /\ k - 1 = Len(chain) /\ k \in Nat /\ Len(chain) \in Nat
      /\ \A i \in DOMAIN chain : i \in DOMAIN chain' /\ chain'[i] = chain[i] /\ i \in Nat
  BY <1>0, <1>1 DEF TypeOK
<1>3. k \in BlkProcs /\ pc[k] = "idle"
  BY <1>2, WalletAssumption DEF AddBlock, Deep, BlkProcs
<1> HIDE DEF k
<1>4. /\ pc \in [Procs -> Labels] /\ pc' = [pc EXCEPT ![k] = "added"]
      /\ UNCHANGED <<lock, lmnl, seen, todo, net, pool>>
  BY DEF AddBlock, Goto, TypeOK, Labels, k
<1>5. \A n \in BlkProcs, t \in Txs : Held(n, t)' <=> Held(n, t)
  BY <1>3, <1>4, ProcsApart DEF Held
<1>6. Places' /\ NeverForgotten'
  <2>1. Grows
    BY <1>2 DEF Grows
  <2>2. \A t \in Txs : pc'[t] = "idle" <=> pc[t] = "idle"
    BY <1>3, <1>4, ProcsApart
  <2> QED BY <1>4, <1>5, <2>1, <2>2, StillPlaced, WalletAssumption
<1>7. TypeOK'
  <2>1. pc' \in [Procs -> Labels]
    BY <1>3, <1>4 DEF Labels
  <2>2. \A n \in BlkProcs : pc'[n] = "chk" => seen'[n] \in DOMAIN chain'
    BY <1>2, <1>3, <1>4, ProcsApart DEF TypeOK
  <2> QED BY <1>2, <1>4, <2>1, <2>2 DEF TypeOK, Labels
<1>8. Work'
  <2>1. \A p \in Procs : pc'[p] = "send" => pc[p] = "send"
    BY <1>3, <1>4
  <2> QED BY <1>4, <2>1 DEF Work
<1>9. Deep'
  <2>1. \A n \in BlkProcs : pc'[n] = "chk" => pc[n] = "chk"
    BY <1>3, <1>4, ProcsApart
  <2>2. \A n \in BlkProcs : pc[n] = "chk" => seen[n] \in Nat
    BY DEF TypeOK
  <2>3. \A n \in BlkProcs : pc'[n] = "chk" => OnTop(seen[n])' >= SafeBlkAmt - 1
    BY <1>2, <1>4, <2>1, <2>2, WalletAssumption DEF Deep, OnTop
  <2>4. \A n \in BlkProcs : n > Len(chain') => pc'[n] = "idle"
    BY <1>2, <1>3, <1>4, ProcsApart DEF Deep
  <2> QED BY <1>2, <1>4, <2>3, <2>4 DEF Deep, OnTop
<1> QED BY <1>4, <1>6, <1>7, <1>8, <1>9 DEF IsHeap, Less

\* The two reads of Length.
LEMMA ReadStep ==
    ASSUME WInv, NEW n \in BlkProcs, ReadLength(n) \/ ReadSlice(n)
    PROVE  WInv'
<1> USE DEF WInv
<1>1. PICK l \in {"slice", "chk", "done"}, s \in Nat :
         /\ pc' = [pc EXCEPT ![n] = l] /\ seen' = [seen EXCEPT ![n] = s]
         /\ l = "chk" => s \in DOMAIN chain /\ Len(chain) - s >= SafeBlkAmt - 1
  <2>0. Len(chain) \in Nat /\ DOMAIN chain = 1 .. Len(chain) /\ SafeBlkAmt \in Nat /\ SafeBlkAmt >= 1
    BY WalletAssumption DEF TypeOK
  <2>1. CASE ReadLength(n)
    <3>1. /\ pc' = [pc EXCEPT ![n] = "slice"] /\ seen' = [seen EXCEPT ![n] = Len(chain)]
          /\ "slice" # "chk"
      BY <2>1 DEF ReadLength, Goto
    <3> QED BY <2>0, <3>1
  <2>2. CASE ReadSlice(n)
    <3>1. Start(n) \in Nat
      <4> DEFINE x == seen[n] - SafeBlkAmt
      <4>1. x \in Int
        BY <2>0 DEF TypeOK
      <4> HIDE DEF x
      <4>2. PICK y \in {0, x} : \A z \in {0, x} : y >= z
        BY <4>1
      <4>3. Max({0, x}) \in {0, x} /\ \A z \in {0, x} : Max({0, x}) >= z
        BY <4>2 DEF Max
      <4>4. Max({0, x}) \in Nat
        BY <4>1, <4>3
      <4> QED BY <4>4 DEF Start, x
    <3>2. Len(chain) - Start(n) = SafeBlkAmt =>
             Start(n) + 1 \in DOMAIN chain /\ Len(chain) - (Start(n) + 1) >= SafeBlkAmt - 1
      BY <2>0, <3>1
    <3>3. PICK l \in {"chk", "done"} :
             /\ l = "chk" => Len(chain) - Start(n) = SafeBlkAmt
             /\ pc' = [pc EXCEPT ![n] = l]
      BY <2>2 DEF ReadSlice, Goto
    <3>4. seen' = [seen EXCEPT ![n] = Start(n) + 1] /\ Start(n) + 1 \in Nat
      BY <2>2, <3>1 DEF ReadSlice
    <3>5. PICK s \in Nat : s = Start(n) + 1
      BY <3>4
    <3>6. l = "chk" => s \in DOMAIN chain /\ Len(chain) - s >= SafeBlkAmt - 1
      BY <3>2, <3>3, <3>5
    <3> QED BY <3>3, <3>4, <3>5, <3>6
  <2> QED BY <2>1, <2>2
<1>2. pc[n] \in {"added", "slice"} /\ UNCHANGED <<chain, lock, lmnl, todo, net, pool>>
  BY DEF ReadLength, ReadSlice
<1>3. /\ pc \in [Procs -> Labels] /\ seen \in [BlkProcs -> Nat] /\ n \in Procs
      /\ \A t \in Txs : t # n
  BY ProcsApart DEF TypeOK, Labels
<1>4. /\ pc'[n] = l /\ \A p \in Procs : p # n => pc'[p] = pc[p]
      /\ seen'[n] = s /\ \A m \in BlkProcs : m # n => seen'[m] = seen[m]
  BY <1>1, <1>3
<1>5. \A m \in BlkProcs, t \in Txs : Held(m, t)' <=> Held(m, t)
  BY <1>1, <1>2, <1>3, <1>4, ProcsApart DEF Held
<1>6. Places' /\ NeverForgotten'
  <2>1. Grows
    BY <1>2, SameChain
  <2>2. \A t \in Txs : pc'[t] = "idle" <=> pc[t] = "idle"
    BY <1>3, <1>4, ProcsApart
  <2> QED BY <1>2, <1>5, <2>1, <2>2, StillPlaced, WalletAssumption
<1>7. TypeOK'
  <2>1. pc' \in [Procs -> Labels] /\ seen' \in [BlkProcs -> Nat]
    BY <1>1, <1>3 DEF Labels
  <2>2. \A m \in BlkProcs : pc'[m] = "chk" => seen'[m] \in DOMAIN chain'
    BY <1>1, <1>2, <1>3, <1>4, ProcsApart DEF TypeOK
  <2> QED BY <1>2, <2>1, <2>2 DEF TypeOK, Labels
<1>8. Work'
  <2>1. \A p \in Procs : pc'[p] = "send" => pc[p] = "send"
    BY <1>1, <1>4
  <2> QED BY <1>2, <2>1 DEF Work
<1>9. Deep'
  <2>1. \A m \in BlkProcs : pc'[m] = "chk" => OnTop(seen[m])' >= SafeBlkAmt - 1
    BY <1>1, <1>2, <1>3, <1>4, ProcsApart DEF Deep, OnTop
  <2>2. \A m \in BlkProcs : m > Len(chain') => pc'[m] = "idle"
    BY <1>2, <1>3, <1>4, ProcsApart DEF Deep
  <2> QED BY <1>2, <2>1, <2>2 DEF Deep, OnTop
<1> QED BY <1>2, <1>6, <1>7, <1>8, <1>9 DEF IsHeap, Less

LEMMA HndlWtTxStep ==
    ASSUME WInv, NEW p \in Procs, HndlWtTx(p)
    PROVE  WInv'
<1> USE DEF WInv
<1>1. /\ pc \in [Procs -> Labels] /\ todo \in [Procs -> Seq(Txs)]
      /\ pc[p] = "send" /\ todo[p] \in Seq(Txs) /\ todo[p] # <<>>
      /\ UNCHANGED <<chain, lock, lmnl, seen>>
  BY DEF TypeOK, Labels, Work, HndlWtTx
<1>2. PICK q \in Seq(Txs), t \in Txs : q = Tail(todo[p]) /\ t = Head(todo[p])
  <2>1. PICK r : r = todo[p]
    OBVIOUS
  <2>2. r \in Seq(Txs) /\ r # <<>>
    BY <1>1, <2>1
  <2>3. Tail(r) \in Seq(Txs) /\ Head(r) \in Txs
    BY <2>2
  <2> QED BY <2>1, <2>3
<1>3. /\ \A i \in DOMAIN q : i + 1 \in DOMAIN todo[p] /\ q[i] = todo[p][i + 1] /\ i + 1 > 1 /\ i \in Nat
      /\ \A i \in DOMAIN todo[p] : i > 1 => i - 1 \in DOMAIN q /\ q[i - 1] = todo[p][i] /\ i \in Nat
  BY <1>1, <1>2
<1>4. PICK l \in {"done", "resend"} : l = IF p \in Txs THEN "done" ELSE "resend"
  OBVIOUS
<1>5. /\ todo' = [todo EXCEPT ![p] = q] /\ pc' = [pc EXCEPT ![p] = l]
      /\ pool' = [pool EXCEPT ![t] = @ + 1] /\ net' = net \cup {Version(t)}
  BY <1>2, <1>4 DEF HndlWtTx, Goto
<1>6. /\ pc'[p] = l /\ \A r \in Procs : r # p => pc'[r] = pc[r]
      /\ todo'[p] = q /\ \A r \in Procs : r # p => todo'[r] = todo[r]
  BY <1>1, <1>5
<1>7. \A m \in BlkProcs, u \in Txs : Held(m, u)' <=> Held(m, u)
  <2> SUFFICES ASSUME NEW m \in BlkProcs, NEW u \in Txs PROVE Held(m, u)' <=> Held(m, u)
    OBVIOUS
  <2>1. CASE m # p
    BY <1>6, <2>1, ProcsApart DEF Held
  <2>2. CASE m = p
    <3>1. l = "resend"
      BY <1>4, <2>2, ProcsApart
    <3>2. Held(m, u)' <=> \E i \in DOMAIN q : q[i] = u
      BY <1>6, <2>2, <3>1 DEF Held
    <3>3. Held(m, u) <=> \E i \in DOMAIN todo[p] : todo[p][i] = u /\ i > 1
      BY <1>1, <2>2 DEF Held
    <3> QED BY <1>3, <3>2, <3>3
  <2> QED BY <2>1, <2>2
<1>8. Places' /\ NeverForgotten'
  <2>1. Grows
    BY <1>1, SameChain
  <2>2. \A u \in Txs : pc'[u] = "idle" <=> pc[u] = "idle"
    BY <1>1, <1>4, <1>6, ProcsApart
  <2> QED BY <1>1, <1>7, <2>1, <2>2, StillPlaced, WalletAssumption
<1>9. TypeOK'
  <2>1. pc' \in [Procs -> Labels] /\ todo' \in [Procs -> Seq(Txs)]
    BY <1>1, <1>5 DEF Labels
  <2>2. pool' \in [Txs -> Nat] /\ net' \subseteq Txs \X Nat
    BY <1>5 DEF TypeOK, Version
  <2>3. \A m \in BlkProcs : pc'[m] = "chk" => seen'[m] \in DOMAIN chain'
    BY <1>1, <1>4, <1>6, ProcsApart DEF TypeOK
  <2> QED BY <1>1, <2>1, <2>2, <2>3 DEF TypeOK, Labels
<1>10. Work'
  <2>1. \A r \in Procs : pc'[r] = "send" => todo'[r] # <<>>
    BY <1>4, <1>6 DEF Work
  <2>2. ASSUME NEW m \in BlkProcs, NEW i \in DOMAIN todo'[m], NEW j \in DOMAIN todo'[m],
               todo'[m][i] = todo'[m][j]
        PROVE  i = j
    <3>1. CASE m # p
      BY <1>6, <2>2, <3>1, ProcsApart DEF Work
    <3>2. CASE m = p
      <4>1. /\ i \in DOMAIN q /\ j \in DOMAIN q /\ q[i] = q[j] /\ i \in Nat /\ j \in Nat
            /\ i + 1 \in DOMAIN todo[p] /\ j + 1 \in DOMAIN todo[p]
            /\ todo[p][i + 1] = todo[p][j + 1]
        BY <1>3, <1>6, <2>2, <3>2
      <4>2. i + 1 = j + 1
        BY <3>2, <4>1 DEF Work
      <4> QED BY <4>1, <4>2
    <3> QED BY <3>1, <3>2
  <2> QED BY <2>1, <2>2 DEF Work
<1>11. Deep'
  <2>1. \A m \in BlkProcs : pc'[m] = "chk" => pc[m] = "chk"
    BY <1>4, <1>6, ProcsApart
  <2>2. \A m \in BlkProcs : pc[m] = "idle" => pc'[m] = "idle"
    BY <1>1, <1>6, ProcsApart
  <2> QED BY <1>1, <2>1, <2>2 DEF Deep, OnTop
<1> QED BY <1>1, <1>8, <1>9, <1>10, <1>11 DEF IsHeap, Less

\* A transaction is put with the liminal ones: what becomes of the places.
LEMMA Moved ==
    ASSUME WInv, NEW t \in Txs, LmnlAdd(t), ~Has(lmnl, t), chain' = chain,
           \A n \in BlkProcs : ~Held(n, t)',
           \A n \in BlkProcs, u \in Txs \ {t} : Held(n, u)' <=> Held(n, u),
           \A u \in Txs \ {t} : pc'[u] = "idle" <=> pc[u] = "idle",
           pc'[t] # "idle"
    PROVE  Places' /\ NeverForgotten' /\ IsHeap(lmnl)' /\ lmnl' \in Seq(Cells)
<1>1. PICK h, g : h = lmnl /\ g = lmnl'
  OBVIOUS
<1>2. h \in Seq(Cells) /\ IsHeap(h) /\ g = HeapAdd(h, 0, t)
  BY <1>1 DEF WInv, TypeOK, Cells, LmnlAdd
<1>3. /\ g \in Seq(Cells) /\ IsHeap(g)
      /\ \A u : Count(g, u) = Count(h, u) + (IF t = u THEN 1 ELSE 0)
  BY <1>2, Adding
<1>4. \A u : /\ Count(h, u) \in Nat /\ (Count(h, u) >= 1 <=> Has(h, u))
             /\ Count(g, u) \in Nat /\ (Count(g, u) >= 1 <=> Has(g, u))
  BY <1>2, <1>3, CountType
<1>5. Count(g, t) = 1 /\ Has(g, t)
  BY <1>1, <1>3, <1>4
<1>6. \A u \in Txs \ {t} : Count(g, u) = Count(h, u) /\ (Has(g, u) <=> Has(h, u))
  BY <1>3, <1>4
<1>7. \A u \in Txs : /\ Count(lmnl, u)' = Count(g, u) /\ (Has(lmnl, u)' <=> Has(g, u))
                     /\ Count(lmnl, u) = Count(h, u) /\ (Has(lmnl, u) <=> Has(h, u))
  BY <1>1 DEF Count, Has
<1>8. Places'
  <2> SUFFICES ASSUME NEW u \in Txs
               PROVE  /\ Count(lmnl, u)' <= 1
                      /\ Has(lmnl, u)' => \A n \in BlkProcs : ~Held(n, u)'
                      /\ \A m, n \in BlkProcs : Held(m, u)' /\ Held(n, u)' => m = n
                      /\ pc'[u] = "idle" => ~Has(lmnl, u)' /\ \A n \in BlkProcs : ~Held(n, u)'
    BY DEF Places
  <2>1. CASE u = t
    BY <1>5, <1>7, <2>1
  <2>2. CASE u # t
    BY <1>6, <1>7, <2>2 DEF WInv, Places
  <2> QED BY <2>1, <2>2
<1>9. NeverForgotten'
  <2> SUFFICES ASSUME NEW u \in Txs, pc'[u] # "idle"
               PROVE  \/ Has(lmnl, u)' \/ Holders(u)' # {}
                      \/ \E i \in DOMAIN chain' : InBlock(u, i)' /\ OnTop(i)' >= SafeBlkAmt - 1
    BY DEF NeverForgotten, Made
  <2>1. CASE u = t
    BY <1>5, <1>7, <2>1
  <2>2. CASE u # t
    <3>1. \/ Has(lmnl, u) \/ Holders(u) # {}
          \/ \E i \in DOMAIN chain : InBlock(u, i) /\ OnTop(i) >= SafeBlkAmt - 1
      BY <2>2 DEF WInv, NeverForgotten, Made
    <3>2. ASSUME Holders(u) # {} PROVE Holders(u)' # {}
      <4>1. PICK n \in BlkProcs : Held(n, u)
        BY <3>2, HoldersHeld
      <4>2. Held(n, u)'
        BY <2>2, <4>1
      <4> QED BY <4>2 DEF Holders, Held
    <3>3. ASSUME NEW i \in DOMAIN chain, InBlock(u, i), OnTop(i) >= SafeBlkAmt - 1
          PROVE  i \in DOMAIN chain' /\ InBlock(u, i)' /\ OnTop(i)' >= SafeBlkAmt - 1
      BY <3>3 DEF InBlock, OnTop
    <3> QED BY <1>6, <1>7, <2>2, <3>1, <3>2, <3>3
  <2> QED BY <2>1, <2>2
<1>10. IsHeap(lmnl)' /\ lmnl' \in Seq(Cells)
  BY <1>1, <1>3 DEF IsHeap, Less
<1> QED BY <1>8, <1>9, <1>10

LEMMA HndlTxReqStep ==
    ASSUME WInv, NEW t \in Txs, HndlTxReq(t)
    PROVE  WInv'
<1> USE DEF WInv
<1>1. /\ pc \in [Procs -> Labels] /\ todo \in [Procs -> Seq(Txs)]
      /\ t \in Procs /\ t \notin BlkProcs /\ pc[t] = "idle" /\ LmnlAdd(t)
      /\ todo' = [todo EXCEPT ![t] = <<t>>] /\ pc' = [pc EXCEPT ![t] = "send"]
      /\ UNCHANGED <<chain, lock, seen, net, pool>>
  BY ProcsApart DEF TypeOK, Labels, HndlTxReq, Goto
<1>2. /\ pc'[t] = "send" /\ \A r \in Procs : r # t => pc'[r] = pc[r]
      /\ todo'[t] = <<t>> /\ \A r \in Procs : r # t => todo'[r] = todo[r]
  BY <1>1
<1>3. \A n \in BlkProcs : pc'[n] = pc[n] /\ todo'[n] = todo[n]
  BY <1>1, <1>2, ProcsApart
<1>4. \A n \in BlkProcs, u \in Txs : Held(n, u)' <=> Held(n, u)
  BY <1>3 DEF Held
<1>5. Places' /\ NeverForgotten' /\ IsHeap(lmnl)' /\ lmnl' \in Seq(Cells)
  <2>1. ~Has(lmnl, t) /\ \A n \in BlkProcs : ~Held(n, t)'
    BY <1>1, <1>4 DEF Places
  <2>2. \A u \in Txs \ {t} : pc'[u] = "idle" <=> pc[u] = "idle"
    BY <1>2, ProcsApart
  <2> QED BY <1>1, <1>2, <1>4, <2>1, <2>2, Moved
<1>6. TypeOK'
  <2>1. <<t>> \in Seq(Txs)
    OBVIOUS
  <2>2. pc' \in [Procs -> Labels] /\ todo' \in [Procs -> Seq(Txs)]
    BY <1>1, <2>1 DEF Labels
  <2>3. \A n \in BlkProcs : pc'[n] = "chk" => seen'[n] \in DOMAIN chain'
    BY <1>1, <1>3 DEF TypeOK
  <2> QED BY <1>1, <1>5, <2>2, <2>3 DEF TypeOK, Labels, Cells
<1>7. Work'
  <2>1. \A p \in Procs : pc'[p] = "send" => todo'[p] # <<>>
    BY <1>2 DEF Work
  <2> QED BY <1>3, <2>1 DEF Work
<1>8. Deep'
  BY <1>1, <1>3 DEF Deep, OnTop
<1> QED BY <1>5, <1>6, <1>7, <1>8

LEMMA ResendStep ==
    ASSUME WInv, NEW n \in BlkProcs, Resend(n)
    PROVE  WInv'
<1> USE DEF WInv
<1>1. /\ pc \in [Procs -> Labels] /\ todo \in [Procs -> Seq(Txs)] /\ lock \in [Txs -> Nat]
      /\ n \in Procs /\ n \notin Txs /\ pc[n] = "resend"
      /\ UNCHANGED <<chain, seen, todo, net, pool>>
  BY ProcsApart DEF TypeOK, Labels, Resend
<1>2. PICK l \in {"send", "done"} : /\ pc' = [pc EXCEPT ![n] = l]
                                    /\ l = "done" <=> todo[n] = <<>>
  BY DEF Resend, Goto
<1>3. pc'[n] = l /\ \A r \in Procs : r # n => pc'[r] = pc[r]
  BY <1>1, <1>2
<1>4. \A m \in BlkProcs : \A u : m # n => (Held(m, u)' <=> Held(m, u))
  BY <1>1, <1>3, ProcsApart DEF Held
<1>5. pc' \in [Procs -> Labels]
  BY <1>1, <1>2 DEF Labels
<1>6. \A m \in BlkProcs : (pc'[m] = "chk" => pc[m] = "chk") /\ (pc[m] = "idle" => pc'[m] = "idle")
  BY <1>1, <1>3, ProcsApart
<1>7. Work'
  <2>1. \A p \in Procs : pc'[p] = "send" => todo[p] # <<>>
    BY <1>2, <1>3 DEF Work
  <2> QED BY <1>1, <2>1 DEF Work
<1>8. Deep'
  BY <1>1, <1>6 DEF Deep, OnTop
<1>9. \A u \in Txs : pc'[u] = pc[u]
  BY <1>1, <1>3, ProcsApart
<1>10. Places' /\ NeverForgotten' /\ IsHeap(lmnl)' /\ lmnl' \in Seq(Cells) /\ lock' \in [Txs -> Nat]
  <2>1. CASE todo[n] = <<>>
    <3>1. lmnl' = lmnl /\ lock' = lock
      BY <2>1 DEF Resend
    <3>2. \A m \in BlkProcs, u \in Txs : Held(m, u)' <=> Held(m, u)
      <4>1. \A u : ~Held(n, u) /\ ~Held(n, u)'
        BY <1>1, <2>1 DEF Held
      <4> QED BY <1>4, <4>1
    <3>3. Places' /\ NeverForgotten'
      BY <1>1, <1>9, <3>1, <3>2, SameChain, StillPlaced, WalletAssumption
    <3> QED BY <1>1, <3>1, <3>3 DEF IsHeap, Less, TypeOK, Cells
  <2>2. CASE todo[n] # <<>>
    <3>1. PICK ts, t : ts = todo[n] /\ t = ts[1]
      OBVIOUS
    <3>2. ts \in Seq(Txs) /\ ts # <<>>
      BY <1>1, <2>2, <3>1
    <3>3. t \in Txs /\ Head(ts) = t /\ 1 \in DOMAIN ts /\ \A i \in DOMAIN ts : i \in Nat /\ (i > 1 <=> i # 1)
      BY <3>1, <3>2
    <3>4. LmnlAdd(t) /\ lock' = [lock EXCEPT ![t] = @ + 1] /\ l = "send"
      BY <1>2, <2>2, <3>1, <3>3 DEF Resend
    <3>5. Held(n, t)
      BY <1>1, <3>1, <3>3 DEF Held
    <3>6. ~Has(lmnl, t) /\ pc[t] # "idle" /\ \A m \in BlkProcs : m # n => ~Held(m, t)
      BY <3>3, <3>5 DEF Places
    <3>7. \A u : Held(n, u)' <=> \E i \in DOMAIN ts : ts[i] = u /\ i # 1
      BY <1>1, <1>3, <3>1, <3>3, <3>4 DEF Held
    <3>8. \A u : Held(n, u) <=> \E i \in DOMAIN ts : ts[i] = u
      BY <1>1, <3>1 DEF Held
    <3>9. \A i \in DOMAIN ts : ts[i] = t => i = 1
      BY <3>1, <3>3 DEF Work
    <3>10. \A m \in BlkProcs : ~Held(m, t)'
      BY <1>4, <3>6, <3>7, <3>9
    <3>11. \A m \in BlkProcs, u \in Txs \ {t} : Held(m, u)' <=> Held(m, u)
      BY <1>4, <3>1, <3>7, <3>8
    <3>12. Places' /\ NeverForgotten' /\ IsHeap(lmnl)' /\ lmnl' \in Seq(Cells)
      BY <1>1, <1>9, <3>3, <3>4, <3>6, <3>10, <3>11, Moved
    <3>13. lock' \in [Txs -> Nat]
      <4>1. lock[t] + 1 \in Nat
        BY <1>1, <3>3
      <4> QED BY <1>1, <3>4, <4>1
    <3> QED BY <3>12, <3>13
  <2> QED BY <2>1, <2>2
<1>11. TypeOK'
  <2>1. \A m \in BlkProcs : pc'[m] = "chk" => seen'[m] \in DOMAIN chain'
    BY <1>1, <1>6 DEF TypeOK
  <2> QED BY <1>1, <1>5, <1>10, <2>1 DEF TypeOK, Labels, Cells
<1> QED BY <1>7, <1>8, <1>10, <1>11

\* What ChkTxs does to the liminal transactions: those of the block may go;
\* of the others, each stays or is taken out to be sent again.
LEMMA Checked ==
    ASSUME NEW h \in Seq(Cells), NEW found \in Seq(Txs), \A t : Count(h, t) <= 1
    PROVE  LET older == IncAll(Rmv(h, found))
               old == Above(older, TxRplyThresh)
               g == RemAbv(older, TxRplyThresh)
           IN  /\ g \in Seq(Cells) /\ IsHeap(g) /\ old \in Seq(Txs)
               /\ \A i, j \in DOMAIN old : old[i] = old[j] => i = j
               /\ \A t : /\ Count(g, t) <= 1 /\ (Has(g, t) => Has(h, t))
                         /\ (\E i \in DOMAIN old : old[i] = t) => Has(h, t) /\ ~Has(g, t)
                         /\ Has(h, t) /\ Copies(found, t) = 0 =>
                               Has(g, t) \/ \E i \in DOMAIN old : old[i] = t
<1>1. PICK r : r = Rmv(h, found)
  OBVIOUS
<1>2. r \in Seq(Cells) /\ \A t : Count(r, t) = Left(Count(h, t), Copies(found, t))
  BY <1>1, Removing
<1>3. PICK older : older = IncAll(r)
  OBVIOUS
<1>4. older \in Seq(Cells) /\ \A t : Count(older, t) = Count(r, t)
  BY <1>2, <1>3, Aging DEF Aged
<1>5. PICK old : old = Above(older, TxRplyThresh)
  OBVIOUS
<1>6. old \in Seq(Txs) /\ \A t : Copies(old, t) <= Count(older, t)
  BY <1>4, <1>5, Oldest
<1>7. PICK g : g = Rmv(older, old)
  OBVIOUS
<1>8. /\ g \in Seq(Cells) /\ IsHeap(g)
      /\ \A t : Count(g, t) = Left(Count(older, t), Copies(old, t))
  BY <1>4, <1>6, <1>7, Removing
<1>9. ASSUME NEW t
      PROVE  /\ Count(g, t) <= 1 /\ (Has(g, t) => Has(h, t)) /\ Copies(old, t) <= 1
             /\ (\E i \in DOMAIN old : old[i] = t) => Has(h, t) /\ ~Has(g, t)
             /\ Has(h, t) /\ Copies(found, t) = 0 => Has(g, t) \/ \E i \in DOMAIN old : old[i] = t
  <2>1. PICK a, b, c, d, e : /\ a = Count(h, t) /\ b = Copies(found, t) /\ c = Count(older, t)
                             /\ d = Copies(old, t) /\ e = Count(g, t)
    OBVIOUS
  <2>2. a \in Nat /\ b \in Nat /\ c \in Nat /\ d \in Nat /\ e \in Nat
    BY <1>4, <1>6, <1>8, <2>1, CountType, CopiesType
  <2>3. a <= 1 /\ c = Left(a, b) /\ d <= c /\ e = Left(c, d)
    BY <1>2, <1>4, <1>6, <1>8, <2>1
  <2>4. /\ e <= 1 /\ d <= 1 /\ (e >= 1 => a >= 1) /\ (d >= 1 => a >= 1 /\ ~(e >= 1))
        /\ a >= 1 /\ b = 0 => e >= 1 \/ d >= 1
    BY <2>2, <2>3 DEF Left
  <2>5. /\ a >= 1 <=> Has(h, t)
        /\ e >= 1 <=> Has(g, t)
        /\ d >= 1 <=> \E i \in DOMAIN old : old[i] = t
    BY <1>6, <1>8, <2>1, CountType, CopiesType
  <2> QED BY <2>1, <2>4, <2>5
<1>10. \A i, j \in DOMAIN old : old[i] = old[j] => i = j
  BY <1>6, <1>9, CopiesType
<1> QED BY <1>1, <1>3, <1>5, <1>6, <1>7, <1>8, <1>9, <1>10 DEF RemAbv

LEMMA ChkTxsStep ==
    ASSUME IsFiniteSet(Txs), WInv, NEW n \in BlkProcs, ChkTxs(n)
    PROVE  WInv'
<1> USE DEF WInv
<1>1. /\ pc \in [Procs -> Labels] /\ todo \in [Procs -> Seq(Txs)]
      /\ n \in Procs /\ n \notin Txs /\ pc[n] = "chk" /\ pc' = [pc EXCEPT ![n] = "resend"]
      /\ seen[n] \in DOMAIN chain /\ OnTop(seen[n]) >= SafeBlkAmt - 1
      /\ UNCHANGED <<chain, lock, seen, net, pool>>
  BY ProcsApart DEF TypeOK, Labels, ChkTxs, Goto, Deep
<1>2. PICK S \in SUBSET Txs : S = {t \in Txs : Version(t) \in chain[seen[n]]}
  OBVIOUS
<1>3. PICK h, found, g, old :
         /\ h = lmnl /\ found = SetToSeq(S)
         /\ g = RemAbv(IncAll(Rmv(h, found)), TxRplyThresh)
         /\ old = Above(IncAll(Rmv(h, found)), TxRplyThresh)
  OBVIOUS
<1>4. lmnl' = g /\ todo' = [todo EXCEPT ![n] = old]
  BY <1>2, <1>3 DEF ChkTxs
<1>5. found \in Seq(Txs) /\ \A t : t \notin S => Copies(found, t) = 0
  <2>1. IsFiniteSet(S)
    BY FS_Subset
  <2> QED BY <1>3, <2>1, Listing
<1>6. h \in Seq(Cells) /\ \A t : Count(h, t) <= 1
  <2>1. h \in Seq(Cells)
    BY <1>3 DEF TypeOK, Cells
  <2>2. \A t \in Txs : Count(h, t) <= 1
    BY <1>3 DEF Places
  <2>3. \A t : t \notin Txs => ~Has(h, t)
    <3>1. \A i \in DOMAIN h : h[i].T \in Txs
      <4>1. \A i \in DOMAIN h : h[i] \in Cells
        BY <2>1
      <4> QED BY <4>1 DEF Cells
    <3> QED BY <3>1 DEF Has
  <2>4. \A t : Count(h, t) \in Nat /\ (Count(h, t) >= 1 <=> Has(h, t))
    BY <2>1, CountType
  <2> QED BY <2>1, <2>2, <2>3, <2>4
<1>7. /\ g \in Seq(Cells) /\ IsHeap(g) /\ old \in Seq(Txs)
      /\ \A i, j \in DOMAIN old : old[i] = old[j] => i = j
      /\ \A t : /\ Count(g, t) <= 1 /\ (Has(g, t) => Has(h, t))
                /\ (\E i \in DOMAIN old : old[i] = t) => Has(h, t) /\ ~Has(g, t)
                /\ Has(h, t) /\ Copies(found, t) = 0 => Has(g, t) \/ \E i \in DOMAIN old : old[i] = t
  BY <1>3, <1>5, <1>6, Checked
<1>8. /\ pc'[n] = "resend" /\ \A r \in Procs : r # n => pc'[r] = pc[r]
      /\ todo'[n] = old /\ \A r \in Procs : r # n => todo'[r] = todo[r]
  BY <1>1, <1>4
<1>9. /\ \A m \in BlkProcs : \A u : m # n => (Held(m, u)' <=> Held(m, u))
      /\ \A u : ~Held(n, u) /\ (Held(n, u)' <=> \E i \in DOMAIN old : old[i] = u)
  <2>1. \A m \in BlkProcs : \A u : m # n => (Held(m, u)' <=> Held(m, u))
    BY <1>8, ProcsApart DEF Held
  <2>2. \A u : ~Held(n, u)
    BY <1>1 DEF Held
  <2>3. \A u : Held(n, u)' <=> \E i \in DOMAIN old : old[i] = u
    BY <1>8 DEF Held
  <2> QED BY <2>1, <2>2, <2>3
<1>10. \A u \in Txs : /\ Count(lmnl, u)' = Count(g, u) /\ (Has(lmnl, u)' <=> Has(g, u))
                      /\ (Has(lmnl, u) <=> Has(h, u)) /\ pc'[u] = pc[u]
  <2>1. \A u \in Txs : pc'[u] = pc[u]
    BY <1>1, <1>8, ProcsApart
  <2> QED BY <1>3, <1>4, <2>1 DEF Count, Has
<1>11. Places'
  <2> SUFFICES ASSUME NEW u \in Txs
               PROVE  /\ Count(lmnl, u)' <= 1
                      /\ Has(lmnl, u)' => \A m \in BlkProcs : ~Held(m, u)'
                      /\ \A m, k \in BlkProcs : Held(m, u)' /\ Held(k, u)' => m = k
                      /\ pc'[u] = "idle" => ~Has(lmnl, u)' /\ \A m \in BlkProcs : ~Held(m, u)'
    BY DEF Places
  <2>1. /\ Has(h, u) => \A m \in BlkProcs : ~Held(m, u)
        /\ \A m, k \in BlkProcs : Held(m, u) /\ Held(k, u) => m = k
        /\ pc[u] = "idle" => ~Has(h, u) /\ \A m \in BlkProcs : ~Held(m, u)
    BY <1>10 DEF Places
  <2>2. /\ Count(g, u) <= 1 /\ (Has(g, u) => Has(h, u))
        /\ Held(n, u)' => Has(h, u) /\ ~Has(g, u)
    BY <1>7, <1>9
  <2>3. \A m \in BlkProcs : m # n => (Held(m, u)' <=> Held(m, u))
    BY <1>9
  <2> QED BY <1>10, <2>1, <2>2, <2>3
<1>12. NeverForgotten'
  <2> SUFFICES ASSUME NEW u \in Txs, pc'[u] # "idle"
               PROVE  \/ Has(lmnl, u)' \/ Holders(u)' # {}
                      \/ \E i \in DOMAIN chain' : InBlock(u, i)' /\ OnTop(i)' >= SafeBlkAmt - 1
    BY DEF NeverForgotten, Made
  <2>1. \A m \in BlkProcs : Held(m, u)' => Holders(u)' # {}
    BY DEF Holders, Held
  <2>2. \A i \in DOMAIN chain : InBlock(u, i) /\ OnTop(i) >= SafeBlkAmt - 1 =>
           i \in DOMAIN chain' /\ InBlock(u, i)' /\ OnTop(i)' >= SafeBlkAmt - 1
    BY <1>1 DEF InBlock, OnTop
  <2>3. \/ Has(h, u) \/ Holders(u) # {}
        \/ \E i \in DOMAIN chain : InBlock(u, i) /\ OnTop(i) >= SafeBlkAmt - 1
    BY <1>10 DEF NeverForgotten, Made
  <2>4. CASE Holders(u) # {}
    <3>1. PICK m \in BlkProcs : Held(m, u)
      BY <2>4, HoldersHeld
    <3>2. Held(m, u)'
      BY <1>9, <3>1
    <3> QED BY <2>1, <3>2
  <2>5. CASE Has(h, u) /\ u \in S
    <3>1. InBlock(u, seen[n])
      BY <1>2, <2>5 DEF InBlock, Version
    <3> QED BY <1>1, <2>2, <3>1
  <2>6. CASE Has(h, u) /\ u \notin S
    <3>1. Has(g, u) \/ Held(n, u)'
      BY <1>5, <1>7, <1>9, <2>6
    <3> QED BY <1>10, <2>1, <3>1
  <2> QED BY <2>2, <2>3, <2>4, <2>5, <2>6
<1>13. TypeOK'
  <2>1. pc' \in [Procs -> Labels] /\ todo' \in [Procs -> Seq(Txs)]
    BY <1>1, <1>4, <1>7 DEF Labels
  <2>2. \A m \in BlkProcs : pc'[m] = "chk" => seen'[m] \in DOMAIN chain'
    BY <1>1, <1>8, ProcsApart DEF TypeOK
  <2> QED BY <1>1, <1>4, <1>7, <2>1, <2>2 DEF TypeOK, Labels, Cells
<1>14. Work'
  <2>1. \A p \in Procs : pc'[p] = "send" => todo'[p] # <<>>
    BY <1>8 DEF Work
  <2>2. \A m \in BlkProcs : \A i, j \in DOMAIN todo'[m] : todo'[m][i] = todo'[m][j] => i = j
    BY <1>7, <1>8, ProcsApart DEF Work
  <2> QED BY <2>1, <2>2 DEF Work
<1>15. Deep'
  <2>1. \A m \in BlkProcs : (pc'[m] = "chk" => pc[m] = "chk") /\ (pc[m] = "idle" => pc'[m] = "idle")
    BY <1>1, <1>8, ProcsApart
  <2> QED BY <1>1, <2>1 DEF Deep, OnTop
<1>16. IsHeap(lmnl)'
  BY <1>4, <1>7 DEF IsHeap, Less
<1> QED BY <1>11, <1>12, <1>13, <1>14, <1>15, <1>16

LEMMA WalletStep ==
    ASSUME IsFiniteSet(Txs), WInv, [Next]_walletVars
    PROVE  WInv'
<1>1. CASE UNCHANGED walletVars
  <2>1. /\ \A t : Count(lmnl, t)' = Count(lmnl, t) /\ (Has(lmnl, t)' <=> Has(lmnl, t))
        /\ \A n, t : Held(n, t)' <=> Held(n, t)
    BY <1>1 DEF walletVars, Count, Has, Held
  <2>2. Places' /\ NeverForgotten'
    BY <1>1, <2>1, SameChain, StillPlaced, WalletAssumption DEF WInv, walletVars
  <2>3. TypeOK' /\ IsHeap(lmnl)'
    BY <1>1 DEF WInv, walletVars, TypeOK, IsHeap, Less
  <2>4. Work' /\ Deep'
    BY <1>1 DEF WInv, walletVars, Work, Deep, OnTop
  <2> QED BY <2>2, <2>3, <2>4 DEF WInv
<1>2. CASE Next
  BY <1>2, HndlTxReqStep, AddBlockStep, ReadStep, ChkTxsStep, ResendStep, HndlWtTxStep DEF Next
<1> QED BY <1>1, <1>2

LEMMA WalletAlways == ASSUME IsFiniteSet(Txs) PROVE Spec => []WInv
BY WalletInit, WalletStep, PTL DEF Spec

\* Every reachable state of the wallet is well typed: what a handler looks up
\* in the chain is there.
THEOREM WalletTypes == ASSUME IsFiniteSet(Txs) PROVE Spec => []TypeOK
<1>1. WInv => TypeOK
  BY DEF WInv
<1> QED BY <1>1, WalletAlways, PTL

\* However many handlers of safe blocks run at once, and wherever the node's
\* loop makes them wait, a transaction that the wallet made is liminal, about
\* to be so again, or in a block as deep as the wallet looks.
THEOREM NothingForgotten == ASSUME IsFiniteSet(Txs) PROVE Spec => []NeverForgotten
<1>1. WInv => NeverForgotten
  BY DEF WInv
<1> QED BY <1>1, WalletAlways, PTL

\* No two handlers hold a transaction to send it again, and none holds one that
\* is liminal, whatever blocks arrive and whatever they contain.
THEOREM PlacesApart == ASSUME IsFiniteSet(Txs) PROVE Spec => []OnePlace
<1>1. ASSUME WInv, NEW t \in Txs PROVE Count(lmnl, t) + Cardinality(Holders(t)) <= 1
  <2>1. PICK h : h = lmnl
    OBVIOUS
  <2>2. /\ Count(lmnl, t) \in Nat /\ Count(lmnl, t) <= 1
        /\ Count(lmnl, t) >= 1 <=> Has(lmnl, t)
    <3>1. h \in Seq(Cells) /\ Count(h, t) <= 1
      BY <1>1, <2>1 DEF WInv, TypeOK, Cells, Places
    <3>2. Count(h, t) \in Nat /\ (Count(h, t) >= 1 <=> Has(h, t))
      BY <3>1, CountType
    <3> QED BY <2>1, <3>1, <3>2
  <2>3. \/ Holders(t) = {}
        \/ ~Has(lmnl, t) /\ \E n : Holders(t) = {n}
    BY <1>1, HoldersHeld DEF WInv, Places
  <2>4. CASE Holders(t) = {}
    BY <2>2, <2>4, FS_EmptySet
  <2>5. CASE ~Has(lmnl, t) /\ \E n : Holders(t) = {n}
    <3>1. Cardinality(Holders(t)) = 1
      BY <2>5, FS_Singleton
    <3> QED BY <2>2, <2>5, <3>1
  <2> QED BY <2>3, <2>4, <2>5
<1>2. WInv => OnePlace
  BY <1>1 DEF OnePlace
<1> QED BY <1>2, WalletAlways, PTL
=============================================================================
