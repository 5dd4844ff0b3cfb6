------------------------------ MODULE FoldFacts ------------------------------
(***************************************************************************)
(* Facts about the folds of the community modules, for every operator Op.  *)
(* A module instantiates this one with the body of its loop; it then knows *)
(* the accumulators of the loop, and proves an invariant over them with    *)
(* one of the two inductions below.                                        *)
(***************************************************************************)
EXTENDS Integers, Sequences, FiniteSets, SequencesExt, FiniteSetTheorems,
        WellFoundedInduction, TLAPS

CONSTANT Op(_, _)

\* Induction over the natural numbers, for the set of the numbers that have a
\* property.
LEMMA SetInduction ==
    ASSUME NEW S, 0 \in S, \A n \in Nat : n \in S => n + 1 \in S
    PROVE  Nat \subseteq S
<1> DEFINE R == {q \in Nat \X Nat : q[1] < q[2]}
           T == Nat \ S
<1>1. IsWellFoundedOn(R, Nat)
  BY NatLessThanWellFounded DEF OpToRel
<1>2. SUFFICES ASSUME T # {} PROVE FALSE
  OBVIOUS
<1>3. PICK x \in T : \A y \in T : ~ (<<y, x>> \in R)
  <2> HIDE DEF R
  <2> QED BY <1>1, <1>2, WFMin
<1>4. x \in Nat /\ x # 0 /\ x - 1 \in Nat /\ x = (x - 1) + 1
  BY <1>3
<1>5. <<x - 1, x>> \in R
  <2>1. <<x - 1, x>> \in Nat \X Nat /\ <<x - 1, x>>[1] < <<x - 1, x>>[2]
    BY <1>4
  <2> QED BY <2>1
<1> QED
  <2> HIDE DEF R
  <2> QED BY <1>3, <1>4, <1>5

\* The same from a number down to 0: a loop over a sequence from its end.
LEMMA DownInduction ==
    ASSUME NEW n \in Nat, NEW S, n \in S, \A i \in 1 .. n : i \in S => i - 1 \in S
    PROVE  0 .. n \subseteq S
<1> DEFINE U == {k \in Nat : k <= n => n - k \in S}
<1>1. 0 \in U
  OBVIOUS
<1>2. ASSUME NEW k \in Nat, k \in U, k + 1 <= n PROVE n - (k + 1) \in S
  <2>1. n - k \in S /\ n - k \in 1 .. n
    BY <1>2
  <2>2. (n - k) - 1 \in S
    BY <2>1
  <2> QED BY <2>2
<1>3. \A k \in Nat : k \in U => k + 1 \in U
  BY <1>2
<1>4. Nat \subseteq U
  <2> HIDE DEF U
  <2> QED BY <1>1, <1>3, SetInduction
<1>5. ASSUME NEW i \in 0 .. n PROVE i \in S
  <2>1. n - i \in Nat /\ n - i <= n /\ n - (n - i) = i
    OBVIOUS
  <2>2. n - i \in U
    BY <2>1, <1>4
  <2> QED BY <2>1, <2>2
<1> QED BY <1>5

\* it is the recursive function of MapThenFoldSet: it takes c[s] out of s, and
\* combines its value f[c[s]] with the result for the rest.
IsFold(it, D, base, f, c) ==
    /\ it = [s \in SUBSET D |-> it[s]]
    /\ \A s \in SUBSET D : it[s] = IF s = {} THEN base ELSE Op(f[c[s]], it[s \ {c[s]}])

\* The recursive function of MapThenFoldSet exists on every finite set.
LEMMA FoldExists ==
    ASSUME NEW D, IsFiniteSet(D), NEW base, NEW f, NEW c,
           \A s \in SUBSET D : s # {} => c[s] \in s
    PROVE  \E it : IsFold(it, D, base, f, c)
<1> DEFINE Lvl(n) == {t \in SUBSET D : Cardinality(t) <= n}
           Step(g, s) == IF s = {} THEN base ELSE Op(f[c[s]], g[s \ {c[s]}])
           P(n) == \E g : g = [s \in Lvl(n) |-> Step(g, s)]
           S == {n \in Nat : P(n)}
<1>0. \A t \in SUBSET D : IsFiniteSet(t) /\ Cardinality(t) \in Nat
  BY FS_Subset, FS_CardinalityType
<1>1. 0 \in S
  <2> DEFINE g == [s \in Lvl(0) |-> base]
  <2>1. \A s \in Lvl(0) : s = {}
    BY <1>0, FS_EmptySet
  <2>2. g = [s \in Lvl(0) |-> Step(g, s)]
    <3>1. \A s \in Lvl(0) : Step(g, s) = base
      BY <2>1
    <3> HIDE DEF Step, Lvl
    <3> QED BY <3>1
  <2>3. P(0)
    <3> HIDE DEF g
    <3> QED BY <2>2
  <2> QED BY <2>3
<1>2. ASSUME NEW n \in Nat, P(n) PROVE P(n + 1)
  <2>1. PICK g : g = [s \in Lvl(n) |-> Step(g, s)]
    BY <1>2
  <2> DEFINE h == [s \in Lvl(n + 1) |-> Step(g, s)]
  <2>2. \A s \in Lvl(n) : s \in Lvl(n + 1) /\ g[s] = Step(g, s)
    <3>1. \A s \in Lvl(n) : s \in Lvl(n + 1)
      BY <1>0
    <3>2. \A s \in Lvl(n) : g[s] = Step(g, s)
      <4> HIDE DEF Lvl, Step
      <4> QED BY <2>1
    <3> QED BY <3>1, <3>2
  <2>3. \A s \in Lvl(n) : h[s] = g[s]
    <3> HIDE DEF Lvl, Step
    <3> QED BY <2>2
  <2>4. ASSUME NEW s \in Lvl(n + 1), s # {} PROVE s \ {c[s]} \in Lvl(n)
    <3>1. c[s] \in s /\ IsFiniteSet(s) /\ Cardinality(s) <= n + 1 /\ Cardinality(s) \in Nat
      BY <2>4, <1>0
    <3>2. Cardinality(s \ {c[s]}) = Cardinality(s) - 1
      BY <3>1, FS_RemoveElement
    <3> QED BY <3>1, <3>2
  <2>5. \A s \in Lvl(n + 1) : Step(g, s) = Step(h, s)
    <3> SUFFICES ASSUME NEW s \in Lvl(n + 1), s # {} PROVE Step(g, s) = Step(h, s)
      OBVIOUS
    <3>1. h[s \ {c[s]}] = g[s \ {c[s]}]
      BY <2>3, <2>4
    <3> HIDE DEF h, Lvl
    <3> QED BY <3>1
  <2>6. h = [s \in Lvl(n + 1) |-> Step(h, s)]
    <3>1. \E hh : hh = h
      OBVIOUS
    <3> HIDE DEF Lvl, Step
    <3> QED BY <2>5
  <2> HIDE DEF h
  <2> QED BY <2>6
<1>3. Nat \subseteq S
  <2>1. \A n \in Nat : n \in S => n + 1 \in S
    <3> HIDE DEF P
    <3> QED BY <1>2
  <2> HIDE DEF S
  <2> QED BY <1>1, <2>1, SetInduction
<1>4. P(Cardinality(D))
  <2> HIDE DEF P
  <2> QED BY <1>3, FS_CardinalityType
<1>5. Lvl(Cardinality(D)) = SUBSET D
  BY FS_Subset
<1>6. PICK g : g = [s \in SUBSET D |-> Step(g, s)]
  <2> HIDE DEF Step, Lvl
  <2> QED BY <1>4, <1>5
<1>7. g = [s \in SUBSET D |-> g[s]] /\ \A s \in SUBSET D : g[s] = Step(g, s)
  <2> HIDE DEF Step
  <2> QED BY <1>6
<1> QED BY <1>7 DEF IsFold

\* Folds over a set and a part of it agree where both are defined, when they
\* take out the same elements and these have the same values.
LEMMA FoldUnique ==
    ASSUME NEW D, IsFiniteSet(D), NEW E \in SUBSET D, NEW base, NEW f, NEW e, NEW c, NEW d,
           NEW it, NEW jt, IsFold(it, D, base, f, c), IsFold(jt, E, base, e, d),
           \A s \in SUBSET E : s # {} => c[s] \in s /\ d[s] = c[s],
           \A x \in E : f[x] = e[x]
    PROVE  \A s \in SUBSET E : it[s] = jt[s]
<1> DEFINE U == {n \in Nat : \A s \in SUBSET E : Cardinality(s) = n => it[s] = jt[s]}
<1>0. \A s \in SUBSET E : s \in SUBSET D /\ IsFiniteSet(s) /\ Cardinality(s) \in Nat
  BY FS_Subset, FS_CardinalityType
<1>1. 0 \in U
  BY <1>0, FS_EmptySet DEF IsFold
<1>2. ASSUME NEW n \in Nat, n \in U PROVE n + 1 \in U
  <2> SUFFICES ASSUME NEW s \in SUBSET E, Cardinality(s) = n + 1 PROVE it[s] = jt[s]
    OBVIOUS
  <2>1. s # {}
    BY FS_EmptySet
  <2> DEFINE t == s \ {c[s]}
  <2>2. c[s] \in s /\ d[s] = c[s] /\ t \in SUBSET E /\ f[c[s]] = e[c[s]]
    BY <2>1
  <2>3. Cardinality(t) = n
    BY <1>0, <2>2, FS_RemoveElement
  <2>4. it[t] = jt[t]
    BY <1>2, <2>2, <2>3
  <2>5. it[s] = Op(f[c[s]], it[t])
    BY <1>0, <2>1 DEF IsFold
  <2>6. jt[s] = Op(e[d[s]], jt[s \ {d[s]}])
    BY <2>1 DEF IsFold
  <2> HIDE DEF t
  <2> QED BY <2>2, <2>4, <2>5, <2>6 DEF t
<1>3. Nat \subseteq U
  <2> HIDE DEF U
  <2> QED BY <1>1, <1>2, SetInduction
<1> QED BY <1>0, <1>3

\* A nonempty set of numbers up to a bound has a least and a greatest element.
LEMMA MinMax ==
    ASSUME NEW n \in Nat, NEW T \in SUBSET (0 .. n), T # {}
    PROVE  /\ Min(T) \in T /\ \A y \in T : Min(T) <= y
           /\ Max(T) \in T /\ \A y \in T : Max(T) >= y
<1> DEFINE Least == {k \in Nat : (\E y \in T : y <= k) => \E x \in T : \A y \in T : x <= y}
           Most == {i \in Nat : (\E y \in T : y >= i) => \E x \in T : \A y \in T : x >= y}
<1>1. n \in Least
  <2>1. 0 \in Least
    OBVIOUS
  <2>2. ASSUME NEW k \in Nat, k \in Least PROVE k + 1 \in Least
    <3> SUFFICES ASSUME NEW y \in T, y <= k + 1, ~ \E z \in T : z <= k
                 PROVE  \E x \in T : \A z \in T : x <= z
      BY <2>2
    <3>1. \A z \in T : z \in Nat /\ ~ (z <= k)
      OBVIOUS
    <3>2. \A z \in T : y <= z
      BY <3>1
    <3> QED BY <3>2
  <2> HIDE DEF Least
  <2> QED BY <2>1, <2>2, SetInduction
<1>2. 0 \in Most
  <2>1. n \in Most
    <3>1. \A x, y \in T : x >= n => x >= y
      OBVIOUS
    <3> QED BY <3>1
  <2>2. ASSUME NEW i \in 1 .. n, i \in Most PROVE i - 1 \in Most
    <3> SUFFICES ASSUME NEW y \in T, y >= i - 1, ~ \E z \in T : z >= i
                 PROVE  \E x \in T : \A z \in T : x >= z
      BY <2>2
    <3>1. \A z \in T : z \in Nat /\ ~ (z >= i)
      OBVIOUS
    <3>2. \A z \in T : y >= z
      BY <3>1
    <3> QED BY <3>2
  <2>3. 0 .. n \subseteq Most
    <3> HIDE DEF Most
    <3> QED BY <2>1, <2>2, DownInduction
  <2> HIDE DEF Most
  <2> QED BY <2>3
<1>3. PICK y : y \in T
  OBVIOUS
<1>4. y <= n /\ y >= 0
  BY <1>3
<1>5. (\E x \in T : \A z \in T : x <= z) /\ (\E x \in T : \A z \in T : x >= z)
  BY <1>1, <1>2, <1>3, <1>4
<1> QED BY <1>5 DEF Min, Max

\* g holds the accumulators of a loop from the end of a sequence to its start:
\* g[i] is the one after the round for position i + 1.
RightFold(s, base) == FoldRight(Op, s, base)
RightRounds(g, s, base) == /\ g[Len(s)] = base
                           /\ \A i \in 1 .. Len(s) : g[i - 1] = Op(s[i], g[i])
                           /\ RightFold(s, base) = g[0]

LEMMA FoldRightRounds ==
    ASSUME NEW X, NEW s \in Seq(X), NEW base
    PROVE  \E g : RightRounds(g, s, base)
<1> DEFINE D == 1 .. Len(s)
           c == [t \in SUBSET D |-> Min(t)]
           Eqm(it) == it = [t \in SUBSET D |-> IF t = {} THEN base
                                             ELSE Op(s[Min(t)], it[t \ {Min(t)}])]
           it0 == CHOOSE it : Eqm(it)
<1>0. Len(s) \in Nat /\ IsFiniteSet(D) /\ DOMAIN s = D
  BY FS_Interval
<1>1. \A t \in SUBSET D : t # {} => Min(t) \in t /\ \A y \in t : Min(t) <= y
  <2> SUFFICES ASSUME NEW t \in SUBSET D, t # {}
               PROVE Min(t) \in t /\ \A y \in t : Min(t) <= y
    OBVIOUS
  <2>1. t \in SUBSET (0 .. Len(s))
    BY <1>0
  <2> QED BY <2>1, <1>0, MinMax
<1>2. \E it : IsFold(it, D, base, s, c)
  <2>1. \A t \in SUBSET D : t # {} => c[t] \in t
    BY <1>1
  <2>2. IsFiniteSet(D)
    BY <1>0
  <2> HIDE DEF c, D
  <2> QED BY <2>1, <2>2, FoldExists
<1>3. \A it : IsFold(it, D, base, s, c) => Eqm(it)
  <2>1. \A t \in SUBSET D : c[t] = Min(t)
    OBVIOUS
  <2> HIDE DEF c, D
  <2> QED BY <2>1 DEF IsFold
<1>4. Eqm(it0)
  BY <1>2, <1>3
<1>5. RightFold(s, base) = it0[D]
  BY <1>0 DEF RightFold, FoldRight, MapThenFoldSet
<1> DEFINE g == [i \in 0 .. Len(s) |-> it0[i + 1 .. Len(s)]]
<1>6. \A t \in SUBSET D : it0[t] = IF t = {} THEN base ELSE Op(s[Min(t)], it0[t \ {Min(t)}])
  <2> HIDE DEF it0, D
  <2> QED BY <1>4
<1>7. g[Len(s)] = base
  <2>1. Len(s) + 1 .. Len(s) = {} /\ {} \in SUBSET D
    BY <1>0
  <2>2. it0[{}] = base
    BY <1>6, <2>1
  <2> HIDE DEF it0
  <2> QED BY <2>1, <2>2, <1>0
<1>8. ASSUME NEW i \in 1 .. Len(s) PROVE g[i - 1] = Op(s[i], g[i])
  <2> DEFINE t == i .. Len(s)
  <2>1. t \in SUBSET D /\ t # {} /\ t \ {i} = i + 1 .. Len(s) /\ i \in t
    BY <1>0
  <2>2. Min(t) = i
    BY <1>1, <2>1, <1>0
  <2>3. it0[t] = Op(s[i], it0[i + 1 .. Len(s)])
    <3> HIDE DEF it0, t, D
    <3> QED BY <1>6, <2>1, <2>2
  <2>4. i - 1 \in 0 .. Len(s) /\ i \in 0 .. Len(s) /\ (i - 1) + 1 = i
    BY <1>0
  <2> HIDE DEF it0
  <2> QED BY <2>3, <2>4
<1>9. RightFold(s, base) = g[0]
  <2>1. 0 \in 0 .. Len(s) /\ 0 + 1 = 1
    BY <1>0
  <2> HIDE DEF it0
  <2> QED BY <1>5, <2>1
<1> HIDE DEF g
<1> QED BY <1>7, <1>8, <1>9 DEF RightRounds

\* A recursive function that starts with base at n and goes down to 0 by one
\* operation on f: what a walk along the links of f finds.
WalkDown(n, f, base) ==
    CHOOSE w : w = [i \in 0 .. n |-> IF i = n THEN base ELSE Op(f, w[i + 1])]
IsWalkDown(w, n, f, base) == /\ w = [i \in 0 .. n |-> w[i]]
                             /\ w[n] = base
                             /\ \A i \in 1 .. n : w[i - 1] = Op(f, w[i])

LEMMA WalkIsDefined ==
    ASSUME NEW n \in Nat, NEW f, NEW base
    PROVE  IsWalkDown(WalkDown(n, f, base), n, f, base)
<1> DEFINE s == [i \in 1 .. n |-> f]
           Eqn(w) == w = [i \in 0 .. n |-> IF i = n THEN base ELSE Op(f, w[i + 1])]
           w0 == CHOOSE w : Eqn(w)
<1>1. s \in Seq({f}) /\ Len(s) = n /\ \A i \in 1 .. n : s[i] = f
  OBVIOUS
<1> HIDE DEF s
<1>2. PICK g : RightRounds(g, s, base)
  BY <1>1, FoldRightRounds
<1>3. g[n] = base /\ \A i \in 1 .. n : g[i - 1] = Op(f, g[i])
  BY <1>1, <1>2 DEF RightRounds
<1> DEFINE c == [i \in 0 .. n |-> g[i]]
<1>4. ASSUME NEW i \in 0 .. n, i # n PROVE c[i] = Op(f, c[i + 1])
  <2>1. i + 1 \in 1 .. n /\ (i + 1) - 1 = i /\ i + 1 \in 0 .. n
    BY <1>4
  <2> QED BY <1>3, <2>1
<1>5. c[n] = base /\ c = [i \in 0 .. n |-> c[i]]
  BY <1>3
<1> HIDE DEF c
<1>6. Eqn(c)
  BY <1>4, <1>5
<1>7. Eqn(w0)
  <2> HIDE DEF Eqn
  <2> QED BY <1>6
<1>8. WalkDown(n, f, base) = w0
  BY DEF WalkDown
<1> HIDE DEF w0
<1>9. ASSUME NEW i \in 1 .. n PROVE w0[i - 1] = Op(f, w0[i])
  <2>1. i - 1 \in 0 .. n /\ i - 1 # n /\ (i - 1) + 1 = i
    OBVIOUS
  <2> QED BY <1>7, <2>1
<1>10. w0 = [i \in 0 .. n |-> w0[i]] /\ w0[n] = base
  <2>1. n \in 0 .. n
    OBVIOUS
  <2> QED BY <1>7, <2>1
<1> QED BY <1>8, <1>9, <1>10 DEF IsWalkDown

\* g holds the accumulators of a loop from the start of a sequence to its end:
\* g[i] is the one after the round for position i.
LeftFold(s, base) == FoldLeft(LAMBDA acc, x : Op(x, acc), base, s)
LeftRounds(g, s, base) == /\ g[0] = base
                          /\ \A i \in 1 .. Len(s) : g[i] = Op(s[i], g[i - 1])
                          /\ LeftFold(s, base) = g[Len(s)]

LEMMA FoldLeftRounds ==
    ASSUME NEW X, NEW s \in Seq(X), NEW base
    PROVE  \E g : LeftRounds(g, s, base)
<1> DEFINE D == 1 .. Len(s)
           c == [t \in SUBSET D |-> Max(t)]
           Eqm(it) == it = [t \in SUBSET D |-> IF t = {} THEN base
                                             ELSE Op(s[Max(t)], it[t \ {Max(t)}])]
           it0 == CHOOSE it : Eqm(it)
<1>0. Len(s) \in Nat /\ IsFiniteSet(D) /\ DOMAIN s = D
  BY FS_Interval
<1>1. \A t \in SUBSET D : t # {} => Max(t) \in t /\ \A y \in t : Max(t) >= y
  <2> SUFFICES ASSUME NEW t \in SUBSET D, t # {}
               PROVE Max(t) \in t /\ \A y \in t : Max(t) >= y
    OBVIOUS
  <2>1. t \in SUBSET (0 .. Len(s))
    BY <1>0
  <2> QED BY <2>1, <1>0, MinMax
<1>2. \E it : IsFold(it, D, base, s, c)
  <2>1. \A t \in SUBSET D : t # {} => c[t] \in t
    BY <1>1
  <2>2. IsFiniteSet(D)
    BY <1>0
  <2> HIDE DEF c, D
  <2> QED BY <2>1, <2>2, FoldExists
<1>3. \A it : IsFold(it, D, base, s, c) => Eqm(it)
  <2>1. \A t \in SUBSET D : c[t] = Max(t)
    OBVIOUS
  <2> HIDE DEF c, D
  <2> QED BY <2>1 DEF IsFold
<1>4. Eqm(it0)
  BY <1>2, <1>3
<1>5. LeftFold(s, base) = it0[D]
  BY <1>0 DEF LeftFold, FoldLeft, MapThenFoldSet
<1> DEFINE g == [i \in 0 .. Len(s) |-> it0[1 .. i]]
<1>6. \A t \in SUBSET D : it0[t] = IF t = {} THEN base ELSE Op(s[Max(t)], it0[t \ {Max(t)}])
  <2> HIDE DEF it0, D
  <2> QED BY <1>4
<1>7. g[0] = base
  <2>1. 1 .. 0 = {} /\ {} \in SUBSET D
    BY <1>0
  <2>2. it0[{}] = base
    BY <1>6, <2>1
  <2> HIDE DEF it0
  <2> QED BY <2>1, <2>2, <1>0
<1>8. ASSUME NEW i \in 1 .. Len(s) PROVE g[i] = Op(s[i], g[i - 1])
  <2> DEFINE t == 1 .. i
  <2>1. t \in SUBSET D /\ t # {} /\ t \ {i} = 1 .. i - 1 /\ i \in t
    <3>1. i \in Nat /\ i >= 1 /\ i <= Len(s)
      BY <1>0
    <3>2. i \in t /\ t \in SUBSET D
      BY <1>0, <3>1
    <3>3. t \ {i} = 1 .. i - 1
      BY <3>1
    <3> QED BY <3>2, <3>3
  <2>2. Max(t) = i
    <3>1. Max(t) \in t /\ Max(t) >= i
      <4> HIDE DEF t, D
      <4> QED BY <1>1, <2>1
    <3> QED BY <3>1, <1>0
  <2>3. it0[t] = Op(s[i], it0[1 .. i - 1])
    <3> HIDE DEF it0, t, D
    <3> QED BY <1>6, <2>1, <2>2
  <2>4. i - 1 \in 0 .. Len(s) /\ i \in 0 .. Len(s)
    BY <1>0
  <2> HIDE DEF it0
  <2> QED BY <2>3, <2>4
<1>9. LeftFold(s, base) = g[Len(s)]
  <2>1. Len(s) \in 0 .. Len(s)
    BY <1>0
  <2> HIDE DEF it0
  <2> QED BY <1>5, <2>1
<1> HIDE DEF g
<1> QED BY <1>7, <1>8, <1>9 DEF LeftRounds

\* Two loops with the same start that agree on their elements agree on their
\* accumulators.
LEMMA LeftAgree ==
    ASSUME NEW X, NEW s \in Seq(X), NEW t \in Seq(X), NEW base, NEW g, NEW h,
           LeftRounds(g, s, base), LeftRounds(h, t, base),
           NEW n \in Nat, n <= Len(s), n <= Len(t), \A i \in 1 .. n : s[i] = t[i]
    PROVE  g[n] = h[n]
<1> DEFINE U == {i \in Nat : i <= n => g[i] = h[i]}
<1>1. 0 \in U
  BY DEF LeftRounds
<1>2. ASSUME NEW i \in Nat, i \in U PROVE i + 1 \in U
  <2> SUFFICES ASSUME i + 1 <= n PROVE g[i + 1] = h[i + 1]
    OBVIOUS
  <2>1. i + 1 \in 1 .. Len(s) /\ i + 1 \in 1 .. Len(t) /\ (i + 1) - 1 = i /\ i <= n
        /\ i + 1 \in 1 .. n
    OBVIOUS
  <2>2. g[i + 1] = Op(s[i + 1], g[(i + 1) - 1]) /\ h[i + 1] = Op(t[i + 1], h[(i + 1) - 1])
    BY <2>1 DEF LeftRounds
  <2>3. g[i] = h[i] /\ s[i + 1] = t[i + 1]
    BY <1>2, <2>1
  <2> QED BY <2>1, <2>2, <2>3
<1>3. Nat \subseteq U
  <2> HIDE DEF U
  <2> QED BY <1>1, <1>2, SetInduction
<1> QED BY <1>3
-----------------------------------------------------------------------------
(* Sums: folds whose operation adds *)

Adds == \A a, b : Op(a, b) = a + b
SumOver(f, D) == FoldFunctionOnSet(Op, 0, f, D)

Pick(D) == [s \in SUBSET D |-> CHOOSE x \in s : TRUE]

\* The sum is the fold of the library, and has its recursive function.
LEMMA SumFold ==
    ASSUME Adds, NEW D, IsFiniteSet(D), NEW f
    PROVE  \E it : IsFold(it, D, 0, f, Pick(D)) /\ SumOver(f, D) = it[D]
<1> DEFINE Eq(it) == it = [s \in SUBSET D |-> IF s = {} THEN 0
                                             ELSE Op(f[CHOOSE x \in s : TRUE],
                                                     it[s \ {CHOOSE x \in s : TRUE}])]
           it0 == CHOOSE it : Eq(it)
<1>1. \A s \in SUBSET D : Pick(D)[s] = CHOOSE x \in s : TRUE
  BY DEF Pick
<1>2. \A s \in SUBSET D : s # {} => Pick(D)[s] \in s
  BY <1>1
<1>3. \E it : IsFold(it, D, 0, f, Pick(D))
  <2> DEFINE c == Pick(D)
  <2>1. \A s \in SUBSET D : s # {} => c[s] \in s
    BY <1>2
  <2> HIDE DEF c
  <2>2. \E it : IsFold(it, D, 0, f, c)
    BY <2>1, FoldExists
  <2> QED BY <2>2 DEF c
<1>4. \A it : IsFold(it, D, 0, f, Pick(D)) <=> Eq(it)
  BY <1>1 DEF IsFold
<1>5. Eq(it0)
  <2> HIDE DEF Eq
  <2> QED BY <1>3, <1>4
<1>6. SumOver(f, D) = it0[D]
  BY DEF SumOver, FoldFunctionOnSet, MapThenFoldSet
<1> HIDE DEF it0, Eq
<1> QED BY <1>4, <1>5, <1>6

\* Any element may be taken out of a sum first.
LEMMA SumTakeOut ==
    ASSUME Adds, NEW D, IsFiniteSet(D), NEW f, \A x \in D : f[x] \in Int
    PROVE  /\ SumOver(f, D) \in Int
           /\ SumOver(f, {}) = 0
           /\ \A x \in D : SumOver(f, D) = f[x] + SumOver(f, D \ {x})
<1> DEFINE c == Pick(D)
<1>1. PICK it : IsFold(it, D, 0, f, c) /\ SumOver(f, D) = it[D]
  BY SumFold
<1>2. \A s \in SUBSET D : /\ s \in SUBSET D /\ IsFiniteSet(s) /\ Cardinality(s) \in Nat
                          /\ it[s] = IF s = {} THEN 0 ELSE f[c[s]] + it[s \ {c[s]}]
                          /\ s # {} => c[s] \in s
  <2>1. \A s \in SUBSET D : IsFiniteSet(s) /\ Cardinality(s) \in Nat
    BY FS_Subset, FS_CardinalityType
  <2>2. \A s \in SUBSET D : s # {} => c[s] \in s
    BY DEF Pick
  <2> HIDE DEF c
  <2> QED BY <1>1, <2>1, <2>2 DEF IsFold, Adds
<1>3. \A E \in SUBSET D : SumOver(f, E) = it[E]
  <2> SUFFICES ASSUME NEW E \in SUBSET D PROVE SumOver(f, E) = it[E]
    OBVIOUS
  <2>1. PICK jt : IsFold(jt, E, 0, f, Pick(E)) /\ SumOver(f, E) = jt[E]
    BY <1>2, SumFold
  <2> DEFINE d == Pick(E)
  <2>2. \A s \in SUBSET E : s # {} => c[s] \in s /\ d[s] = c[s]
    BY DEF Pick
  <2> HIDE DEF c, d
  <2>3. \A s \in SUBSET E : it[s] = jt[s]
    <3>1. IsFold(it, D, 0, f, c) /\ IsFold(jt, E, 0, f, d) /\ \A x \in E : f[x] = f[x]
      BY <1>1, <2>1 DEF d
    <3> QED BY <2>2, <3>1, FoldUnique
  <2> QED BY <2>1, <2>3
<1> HIDE DEF c
<1> DEFINE P(s) == it[s] \in Int /\ \A x \in s : it[s] = f[x] + it[s \ {x}]
           U == {n \in Nat : \A s \in SUBSET D : Cardinality(s) <= n => P(s)}
<1>4. 0 \in U
  <2>1. ASSUME NEW s \in SUBSET D, Cardinality(s) <= 0 PROVE s = {}
    <3>1. Cardinality(s) \in Nat /\ IsFiniteSet(s)
      BY <1>2
    <3>2. Cardinality(s) = 0
      BY <2>1, <3>1
    <3> QED BY <3>1, <3>2, FS_EmptySet
  <2>2. P({})
    <3>1. {} \in SUBSET D /\ it[{}] = 0
      BY <1>2
    <3> QED BY <3>1
  <2> HIDE DEF P
  <2> QED BY <2>1, <2>2
<1>5. ASSUME NEW n \in Nat, n \in U PROVE n + 1 \in U
  <2> SUFFICES ASSUME NEW s \in SUBSET D, Cardinality(s) <= n + 1 PROVE P(s)
    OBVIOUS
  <2>0. \A t \in SUBSET D : Cardinality(t) <= n => P(t)
    BY <1>5
  <2>1. CASE s = {}
    <3>1. it[s] = 0
      BY <1>2, <2>1
    <3> QED BY <2>1, <3>1
  <2>2. CASE s # {}
    <3> DEFINE y == c[s]
    <3>1. y \in s /\ it[s] = f[y] + it[s \ {y}]
      BY <1>2, <2>2
    <3>2. \A x \in s : s \ {x} \in SUBSET D /\ Cardinality(s \ {x}) <= n
      <4> SUFFICES ASSUME NEW x \in s PROVE Cardinality(s \ {x}) <= n
        OBVIOUS
      <4>1. Cardinality(s \ {x}) = Cardinality(s) - 1 /\ Cardinality(s) \in Nat
        BY <1>2, FS_RemoveElement
      <4> QED BY <4>1
    <3>3. \A x \in s : P(s \ {x})
      <4> HIDE DEF P
      <4> QED BY <2>0, <3>2
    <3> HIDE DEF y
    <3>4. f[y] \in Int /\ it[s \ {y}] \in Int
      BY <3>1, <3>3
    <3>5. ASSUME NEW x \in s, x # y PROVE it[s] = f[x] + it[s \ {x}]
      <4>1. it[s \ {y}] = f[x] + it[(s \ {y}) \ {x}]
        BY <3>1, <3>3, <3>5
      <4>2. it[s \ {x}] = f[y] + it[(s \ {x}) \ {y}]
        BY <3>1, <3>3, <3>5
      <4>3. (s \ {y}) \ {x} = (s \ {x}) \ {y}
        OBVIOUS
      <4> DEFINE z == it[(s \ {x}) \ {y}]
      <4>4. z \in Int
        <5>1. (s \ {x}) \ {y} \in SUBSET D /\ Cardinality((s \ {x}) \ {y}) <= n
          <6>1. s \ {x} \in SUBSET D /\ y \in s \ {x} /\ Cardinality(s \ {x}) <= n
            BY <3>1, <3>2, <3>5
          <6>2. Cardinality((s \ {x}) \ {y}) = Cardinality(s \ {x}) - 1 /\ Cardinality(s \ {x}) \in Nat
            BY <1>2, <6>1, FS_RemoveElement
          <6> QED BY <6>1, <6>2
        <5> QED BY <2>0, <5>1
      <4>5. it[s] = f[y] + (f[x] + z) /\ it[s \ {x}] = f[y] + z
        BY <3>1, <4>1, <4>2, <4>3
      <4>6. f[x] \in Int
        OBVIOUS
      <4> HIDE DEF z
      <4> QED BY <3>4, <4>4, <4>5, <4>6
    <3>6. it[s] \in Int
      BY <3>1, <3>4
    <3>7. \A x \in s : it[s] = f[x] + it[s \ {x}]
      BY <3>1, <3>5
    <3> QED BY <3>6, <3>7
  <2> QED BY <2>1, <2>2
<1>6. Nat \subseteq U
  <2> HIDE DEF U
  <2> QED BY <1>4, <1>5, SetInduction
<1>7. P(D)
  <2>1. D \in SUBSET D /\ Cardinality(D) \in Nat /\ Cardinality(D) <= Cardinality(D)
    BY FS_CardinalityType
  <2>2. Cardinality(D) \in U
    BY <1>6, <2>1
  <2> HIDE DEF P
  <2> QED BY <2>1, <2>2
<1>8. SumOver(f, {}) = 0
  <2>1. {} \in SUBSET D /\ it[{}] = 0
    BY <1>2
  <2> QED BY <1>3, <2>1
<1>9. \A x \in D : SumOver(f, D \ {x}) = it[D \ {x}]
  BY <1>3
<1> QED BY <1>1, <1>7, <1>8, <1>9

\* Sums over a set and a part of it are equal when the values are zero outside
\* the part.
LEMMA SumSame ==
    ASSUME Adds, NEW D, IsFiniteSet(D), NEW E \in SUBSET D, NEW f, NEW e,
           \A x \in E : f[x] \in Int /\ e[x] = f[x], \A x \in D \ E : f[x] = 0
    PROVE  SumOver(f, D) = SumOver(e, E)
<1> DEFINE P(t) == SumOver(f, t) = SumOver(e, t \cap E)
           U == {n \in Nat : \A t \in SUBSET D : Cardinality(t) = n => P(t)}
<1>1. ASSUME NEW t \in SUBSET D
      PROVE  /\ IsFiniteSet(t) /\ Cardinality(t) \in Nat /\ \A x \in t : f[x] \in Int
             /\ IsFiniteSet(t \cap E) /\ \A x \in t \cap E : e[x] \in Int
  <2>1. IsFiniteSet(t) /\ Cardinality(t) \in Nat
    BY FS_Subset, FS_CardinalityType
  <2>2. IsFiniteSet(t \cap E)
    BY <2>1, FS_Subset
  <2> QED BY <2>1, <2>2
<1>2. 0 \in U
  <2>1. ASSUME NEW t \in SUBSET D, Cardinality(t) = 0 PROVE P(t)
    <3>1. t = {} /\ t \cap E = {}
      BY <1>1, <2>1, FS_EmptySet
    <3>2. SumOver(f, t) = 0
      BY <1>1, <3>1, SumTakeOut
    <3>3. SumOver(e, t \cap E) = 0
      BY <1>1, <3>1, SumTakeOut
    <3> QED BY <3>2, <3>3
  <2> HIDE DEF P
  <2> QED BY <2>1
<1>3. ASSUME NEW n \in Nat, n \in U PROVE n + 1 \in U
  <2>1. ASSUME NEW t \in SUBSET D, Cardinality(t) = n + 1 PROVE P(t)
    <3>1. PICK x : x \in t
      BY <1>1, <2>1, FS_EmptySet
    <3> DEFINE r == t \ {x}
    <3>2. r \in SUBSET D /\ Cardinality(r) = n
      <4>1. Cardinality(r) = Cardinality(t) - 1
        BY <1>1, <3>1, FS_RemoveElement
      <4> QED BY <2>1, <4>1
    <3>3. SumOver(f, r) = SumOver(e, r \cap E)
      BY <1>3, <3>2
    <3>4. /\ SumOver(f, t) = f[x] + SumOver(f, r)
          /\ f[x] \in Int
      BY <1>1, <3>1, SumTakeOut
    <3>5. SumOver(f, r) \in Int
      <4> HIDE DEF r
      <4> QED BY <1>1, <3>2, SumTakeOut
    <3>6. CASE x \in E
      <4>1. x \in t \cap E /\ (t \cap E) \ {x} = r \cap E /\ e[x] = f[x]
        BY <3>1, <3>6
      <4>2. SumOver(e, t \cap E) = e[x] + SumOver(e, (t \cap E) \ {x})
        BY <1>1, <4>1, SumTakeOut
      <4> HIDE DEF r
      <4> QED BY <3>3, <3>4, <4>1, <4>2
    <3>7. CASE x \notin E
      <4>1. t \cap E = r \cap E /\ f[x] = 0
        BY <3>1, <3>7
      <4> HIDE DEF r
      <4>2. SumOver(f, t) = SumOver(f, r)
        BY <3>4, <3>5, <4>1
      <4> QED BY <3>3, <4>1, <4>2
    <3> QED BY <3>6, <3>7
  <2> HIDE DEF P
  <2> QED BY <2>1
<1>4. Nat \subseteq U
  <2> HIDE DEF U
  <2> QED BY <1>2, <1>3, SetInduction
<1>5. P(D)
  <2>1. D \in SUBSET D /\ Cardinality(D) \in Nat
    BY FS_CardinalityType
  <2> HIDE DEF P
  <2> QED BY <1>4, <2>1
<1>6. D \cap E = E
  OBVIOUS
<1> QED BY <1>5, <1>6

\* The sum changes by what one value changes by.
LEMMA SumChange ==
    ASSUME Adds, NEW D, IsFiniteSet(D), NEW f, NEW e, NEW x \in D, f[x] \in Int, e[x] \in Int,
           \A y \in D : y # x => f[y] \in Int /\ e[y] = f[y]
    PROVE  SumOver(e, D) = SumOver(f, D) + (e[x] - f[x])
<1> DEFINE r == D \ {x}
<1>1. (\A y \in D : f[y] \in Int) /\ \A y \in D : e[y] \in Int
  OBVIOUS
<1>2. /\ SumOver(f, D) = f[x] + SumOver(f, r)
      /\ SumOver(e, D) = e[x] + SumOver(e, r)
  BY <1>1, SumTakeOut
<1>3. IsFiniteSet(r) /\ \A y \in r : f[y] \in Int /\ e[y] = f[y]
  BY FS_RemoveElement
<1> HIDE DEF r
<1>4. SumOver(f, r) = SumOver(e, r)
  <2>1. r \in SUBSET r /\ \A y \in r \ r : f[y] = 0
    OBVIOUS
  <2> QED BY <1>3, <2>1, SumSame
<1>5. SumOver(f, r) \in Int
  BY <1>3, SumTakeOut
<1> QED BY <1>2, <1>4, <1>5
=============================================================================
