--------------------------- MODULE TimelineProofs ---------------------------
(***************************************************************************)
(* The track of a thread shows, at every time, the innermost instance that *)
(* the tracer recorded, for every number of methods, levels and instances, *)
(* whenever the recorded instances nest.                                   *)
(***************************************************************************)
EXTENDS Timeline, TLAPS, FiniteSetTheorems, FunctionTheorems, SequenceTheorems,
        WellFoundedInduction

-----------------------------------------------------------------------------
(* What the sort returns.                                                  *)

(* n numbers.                                                              *)
LEMMA UpTo ==
    ASSUME NEW n \in Nat
    PROVE  /\ IsFiniteSet(1..n) /\ Cardinality(1..n) = n
           /\ IsFiniteSet(0..(n - 1)) /\ Cardinality(0..(n - 1)) = n
<1>1. IsFiniteSet(1..n) /\ Cardinality(1..n) = n
  BY FS_Interval
<1>2. IsFiniteSet(0..(n - 1)) /\ Cardinality(0..(n - 1)) = n
  BY FS_Interval
<1> QED
  BY <1>1, <1>2

(* The rows that come before a row are fewer than all rows, and a row that *)
(* comes later has more of them before it.                                 *)
LEMMA RankProperties ==
    ASSUME NEW t, Len(t) \in Nat, \A i \in 1..Len(t) : t[i].start \in Nat
    PROVE  /\ \A i \in 1..Len(t) : Rank(t, i) \in 0..(Len(t) - 1)
           /\ \A i, j \in 1..Len(t) : Before(t, i, j) => Rank(t, i) < Rank(t, j)
<1> DEFINE I == 1..Len(t)
           down(i) == {j \in I : Before(t, j, i)}
<1>1. IsFiniteSet(I) /\ Cardinality(I) = Len(t)
  BY UpTo
<1>2. \A i, j, k \in I : /\ ~Before(t, i, i)
                         /\ Before(t, i, j) /\ Before(t, j, k) => Before(t, i, k)
  BY DEF Before
<1> HIDE DEF I
<1>3. ASSUME NEW i \in I
      PROVE  IsFiniteSet(down(i)) /\ Cardinality(down(i)) \in Nat
  <2>1. down(i) \in SUBSET I
    OBVIOUS
  <2> QED
    BY <1>1, <2>1, FS_Subset, FS_CardinalityType
<1>4. ASSUME NEW i \in I PROVE Rank(t, i) \in 0..(Len(t) - 1)
  <2>1. down(i) \in SUBSET (I \ {i})
    BY <1>2
  <2>2. IsFiniteSet(I \ {i}) /\ Cardinality(I \ {i}) = Len(t) - 1
    BY <1>1, FS_RemoveElement
  <2>3. Cardinality(down(i)) <= Len(t) - 1
    BY <2>1, <2>2, FS_Subset
  <2> QED
    <3>1. Rank(t, i) = Cardinality(down(i))
      BY DEF Rank, I
    <3>2. Cardinality(down(i)) \in Nat
      BY <1>3
    <3> QED
      BY <2>3, <3>1, <3>2
<1>5. ASSUME NEW i \in I, NEW j \in I, Before(t, i, j) PROVE Rank(t, i) < Rank(t, j)
  <2>1. down(i) \in SUBSET down(j) /\ i \in down(j) /\ i \notin down(i)
    BY <1>2, <1>5
  <2>2. /\ Cardinality(down(i)) <= Cardinality(down(j))
        /\ Cardinality(down(j)) # Cardinality(down(i))
    BY <1>3, <2>1, FS_Subset
  <2> QED
    <3>1. Rank(t, i) = Cardinality(down(i)) /\ Rank(t, j) = Cardinality(down(j))
      BY DEF Rank, I
    <3>2. Cardinality(down(i)) \in Nat /\ Cardinality(down(j)) \in Nat
      BY <1>3
    <3> HIDE DEF down
    <3> QED
      BY <2>2, <3>1, <3>2
<1> QED
  BY <1>4, <1>5 DEF I

(* Every place is the place of one row.                                    *)
LEMMA RankOnto ==
    ASSUME NEW t, Len(t) \in Nat, \A i \in 1..Len(t) : t[i].start \in Nat
    PROVE  \A k \in 1..Len(t) : \E i \in 1..Len(t) : Rank(t, i) = k - 1
<1> DEFINE I == 1..Len(t)
           K == 0..(Len(t) - 1)
           f == [i \in I |-> Rank(t, i)]
<1>1. IsFiniteSet(I) /\ IsFiniteSet(K) /\ Cardinality(I) = Cardinality(K)
  BY UpTo
<1>2. f \in [I -> K]
  BY RankProperties
<1>3. ASSUME NEW i \in I, NEW j \in I, i # j PROVE f[i] # f[j]
  <2>1. Before(t, i, j) \/ Before(t, j, i)
    BY <1>3 DEF Before
  <2>2. Rank(t, i) \in Nat /\ Rank(t, j) \in Nat
    BY RankProperties
  <2>3. Rank(t, i) < Rank(t, j) \/ Rank(t, j) < Rank(t, i)
    BY <2>1, RankProperties
  <2> QED
    BY <2>2, <2>3
<1>4. \A k \in 1..Len(t) : k - 1 \in K
  OBVIOUS
<1>5. \A i \in I : f[i] = Rank(t, i)
  OBVIOUS
<1> HIDE DEF I, K, f
<1>6. f \in Injection(I, K)
  BY <1>2, <1>3, Fun_IsInj
<1>7. f \in Surjection(I, K)
  BY <1>1, <1>6, FS_Injection
<1>8. \A k \in K : \E i \in I : f[i] = k
  BY <1>7 DEF Surjection
<1> QED
  BY <1>4, <1>5, <1>8 DEF I

(* sorted returns the rows that it was given, by start.                    *)
LEMMA SortedProperties ==
    ASSUME NEW D, NEW t \in Seq(D), \A i \in 1..Len(t) : t[i].start \in Nat
    PROVE  /\ Sorted(t) \in Seq(D)
           /\ Len(Sorted(t)) = Len(t)
           /\ \A k \in 1..Len(t) : \E i \in 1..Len(t) : Sorted(t)[k] = t[i]
           /\ \A i \in 1..Len(t) : \E k \in 1..Len(t) : Sorted(t)[k] = t[i]
           /\ \A i \in 1..Len(t) : Sorted(t)[Rank(t, i) + 1] = t[i]
           /\ \A k, l \in 1..Len(t) : k < l => Sorted(t)[k].start <= Sorted(t)[l].start
<1> DEFINE order(k) == CHOOSE i \in 1..Len(t) : Rank(t, i) = k - 1
<1>1. Len(t) \in Nat /\ \A i \in 1..Len(t) : t[i] \in D
  OBVIOUS
<1>2. ASSUME NEW k \in 1..Len(t)
      PROVE  order(k) \in 1..Len(t) /\ Rank(t, order(k)) = k - 1
  <2>1. \E i \in 1..Len(t) : Rank(t, i) = k - 1
    BY <1>1, RankOnto
  <2> QED
    BY <2>1
<1>3. Sorted(t) = [k \in 1..Len(t) |-> t[order(k)]]
  BY DEF Sorted
<1> HIDE DEF order
<1>4. Sorted(t) \in Seq(D) /\ Len(Sorted(t)) = Len(t)
  BY <1>1, <1>2, <1>3
<1>5. \A k \in 1..Len(t) : Sorted(t)[k] = t[order(k)]
  BY <1>3
<1>6. ASSUME NEW i \in 1..Len(t)
      PROVE  Rank(t, i) + 1 \in 1..Len(t) /\ Sorted(t)[Rank(t, i) + 1] = t[i]
  <2> DEFINE k == Rank(t, i) + 1
  <2>1. k \in 1..Len(t) /\ Rank(t, i) = k - 1
    BY <1>1, RankProperties
  <2>2. Rank(t, order(k)) = Rank(t, i)
    BY <1>2, <2>1
  <2>3. ~Before(t, i, order(k)) /\ ~Before(t, order(k), i)
    <3>1. order(k) \in 1..Len(t)
      BY <1>2, <2>1
    <3>2. Rank(t, i) \in Int
      BY <1>1, RankProperties
    <3> QED
      BY <1>1, <2>2, <3>1, <3>2, RankProperties
  <2>4. order(k) = i
    <3>1. order(k) \in 1..Len(t)
      BY <1>2, <2>1
    <3>2. t[order(k)].start \in Nat /\ t[i].start \in Nat
      BY <3>1
    <3> HIDE DEF k
    <3> QED
      BY <1>1, <2>3, <3>1, <3>2 DEF Before
  <2> QED
    BY <1>5, <2>1, <2>4
<1>7. ASSUME NEW k \in 1..Len(t), NEW l \in 1..Len(t), k < l
      PROVE  Sorted(t)[k].start <= Sorted(t)[l].start
  <2>1. /\ order(k) \in 1..Len(t) /\ order(l) \in 1..Len(t)
        /\ Rank(t, order(k)) = k - 1 /\ Rank(t, order(l)) = l - 1
    BY <1>2
  <2>2. ~Before(t, order(l), order(k))
    <3>1. Before(t, order(l), order(k)) => Rank(t, order(l)) < Rank(t, order(k))
      BY <1>1, <2>1, RankProperties
    <3> QED
      BY <1>7, <2>1, <3>1
  <2> QED
    BY <1>5, <2>1, <2>2 DEF Before
<1> QED
  BY <1>2, <1>4, <1>5, <1>6, <1>7

-----------------------------------------------------------------------------
(* What FlattenSeq returns.                                                *)

(* A set of natural numbers has a least element.                           *)
LEMMA Least ==
    ASSUME NEW T \in SUBSET Nat, T # {} PROVE \E m \in T : \A k \in T : m <= k
<1>1. PICK m \in T : \A k \in T : ~ (<<k, m>> \in OpToRel(<, Nat))
  BY NatLessThanWellFounded, WFMin
<1>2. \A k \in T : ~ (k < m)
  BY <1>1 DEF OpToRel
<1> QED
  BY <1>2

(* g is the concatenation of the first sequences, for up to m of them.     *)
IsFlattening(g, seqs, m) ==
    \A i \in 1..m : g[i] = IF i = 1 THEN seqs[i] ELSE g[i - 1] \o seqs[i]

(* The recursive definition in FlattenSeq has a solution.                  *)
LEMMA FlatteningExists ==
    ASSUME NEW D, NEW seqs \in Seq(Seq(D)), NEW n \in 1..Len(seqs)
    PROVE  \E g \in [1..n -> Seq(D)] : IsFlattening(g, seqs, n)
<1> DEFINE E(m) == \E g \in [1..m -> Seq(D)] : IsFlattening(g, seqs, m)
           T == {m \in 1..Len(seqs) : ~E(m)}
<1>0. Len(seqs) \in Nat /\ \A i \in 1..Len(seqs) : seqs[i] \in Seq(D)
  OBVIOUS
<1>1. SUFFICES ASSUME T # {} PROVE FALSE
  BY <1>1
<1>2. T \in SUBSET Nat
  OBVIOUS
<1>3. PICK m \in T : \A k \in T : m <= k
  BY <1>1, <1>2, Least
<1>4. m \in 1..Len(seqs) /\ ~E(m)
  OBVIOUS
<1>5. CASE m = 1
  <2> DEFINE g == [i \in 1..1 |-> seqs[1]]
  <2>1. g \in [1..1 -> Seq(D)]
    BY <1>0, <1>4, <1>5
  <2>2. IsFlattening(g, seqs, 1)
    BY DEF IsFlattening
  <2> QED
    BY <1>4, <1>5, <2>1, <2>2
<1>6. CASE m # 1
  <2>1. m - 1 \in 1..Len(seqs) /\ m - 1 \notin T
    <3>1. m \in Nat /\ m - 1 \in 1..Len(seqs)
      BY <1>0, <1>4, <1>6
    <3> HIDE DEF T
    <3> QED
      BY <1>3, <3>1
  <2>2. PICK g \in [1..(m - 1) -> Seq(D)] : IsFlattening(g, seqs, m - 1)
    BY <2>1
  <2> DEFINE h == [i \in 1..m |-> IF i = m THEN g[m - 1] \o seqs[m] ELSE g[i]]
  <2>3. h \in [1..m -> Seq(D)]
    <3>1. g[m - 1] \o seqs[m] \in Seq(D)
      <4>1. g[m - 1] \in Seq(D) /\ seqs[m] \in Seq(D)
        BY <1>0, <1>4, <2>1
      <4> QED
        BY <4>1
    <3>2. ASSUME NEW i \in 1..m, i # m PROVE g[i] \in Seq(D)
      BY <1>4, <2>1, <3>2
    <3> QED
      BY <3>1, <3>2
  <2>4. IsFlattening(h, seqs, m)
    <3>1. ASSUME NEW i \in 1..m
          PROVE  h[i] = IF i = 1 THEN seqs[i] ELSE h[i - 1] \o seqs[i]
      <4>1. CASE i = m
        <5>1. h[m - 1] = g[m - 1] /\ h[m] = g[m - 1] \o seqs[m]
          <6>1. m \in 1..m /\ m - 1 \in 1..m /\ m - 1 # m
            BY <1>4, <2>1
          <6> QED
            BY <6>1
        <5> HIDE DEF h
        <5> QED
          BY <1>6, <4>1, <5>1
      <4>2. CASE i # m
        <5>1. i \in 1..(m - 1)
          BY <1>4, <4>2
        <5>2. h[i] = g[i] /\ (i # 1 => h[i - 1] = g[i - 1])
          BY <1>4, <4>2
        <5>3. g[i] = IF i = 1 THEN seqs[i] ELSE g[i - 1] \o seqs[i]
          BY <2>2, <5>1 DEF IsFlattening
        <5> QED
          BY <5>2, <5>3
      <4> QED
        BY <4>1, <4>2
    <3> QED
      BY <3>1 DEF IsFlattening
  <2> QED
    BY <1>4, <2>3, <2>4
<1> QED
  BY <1>5, <1>6

(* FlattenSeq returns a sequence of all elements of the sequences, and the *)
(* last one when the others are empty.                                     *)
LEMMA FlattenProperties ==
    ASSUME NEW D, NEW seqs \in Seq(Seq(D)), seqs # <<>>
    PROVE  /\ FlattenSeq(seqs) \in Seq(D)
           /\ \A k \in 1..Len(seqs) : \A j \in 1..Len(seqs[k]) :
                 \E p \in 1..Len(FlattenSeq(seqs)) : FlattenSeq(seqs)[p] = seqs[k][j]
           /\ \A p \in 1..Len(FlattenSeq(seqs)) :
                 \E k \in 1..Len(seqs) : \E j \in 1..Len(seqs[k]) :
                    FlattenSeq(seqs)[p] = seqs[k][j]
           /\ (\A k \in 1..(Len(seqs) - 1) : seqs[k] = <<>>)
                 => FlattenSeq(seqs) = seqs[Len(seqs)]
<1> DEFINE n == Len(seqs)
           fl == CHOOSE f : f = [i \in 1..Len(seqs) |->
                                   IF i = 1 THEN seqs[i] ELSE f[i-1] \o seqs[i]]
<1>0. n \in Nat \ {0} /\ \A i \in 1..n : seqs[i] \in Seq(D)
  OBVIOUS
<1>1. FlattenSeq(seqs) = fl[n]
  BY <1>0, Zenon DEF FlattenSeq
<1>2. fl = [i \in 1..n |-> IF i = 1 THEN seqs[i] ELSE fl[i-1] \o seqs[i]]
  <2>0. n \in 1..Len(seqs)
    BY <1>0
  <2>1. PICK g \in [1..n -> Seq(D)] : IsFlattening(g, seqs, n)
    <3> HIDE DEF n, fl
    <3> QED
      BY <2>0, FlatteningExists
  <2>2. g = [i \in 1..Len(seqs) |-> IF i = 1 THEN seqs[i] ELSE g[i-1] \o seqs[i]]
    BY <2>1 DEF IsFlattening
  <2>3. \E f : f = [i \in 1..Len(seqs) |-> IF i = 1 THEN seqs[i] ELSE f[i-1] \o seqs[i]]
    BY <2>2, Zenon
  <2> QED
    BY <2>3, Zenon
<1> HIDE DEF fl, n
<1>3. /\ fl[1] = seqs[1]
      /\ \A i \in 2..n : fl[i] = fl[i - 1] \o seqs[i]
  <2>1. 1 \in 1..n /\ \A i \in 2..n : i \in 1..n /\ i # 1
    BY <1>0
  <2>2. \A i \in 1..n : fl[i] = IF i = 1 THEN seqs[i] ELSE fl[i-1] \o seqs[i]
    BY <1>2, Zenon
  <2> QED
    BY <2>1, <2>2
<1> DEFINE P(m) == /\ fl[m] \in Seq(D)
                   /\ \A k \in 1..m : \A j \in 1..Len(seqs[k]) :
                         \E p \in 1..Len(fl[m]) : fl[m][p] = seqs[k][j]
                   /\ \A p \in 1..Len(fl[m]) : \E k \in 1..m : \E j \in 1..Len(seqs[k]) :
                         fl[m][p] = seqs[k][j]
                   /\ (\A k \in 1..(m - 1) : seqs[k] = <<>>) => fl[m] = seqs[m]
           T == {m \in 1..n : ~P(m)}
<1>4. ASSUME T # {} PROVE FALSE
  <2>1. T \in SUBSET Nat
    BY <1>0
  <2>2. PICK m \in T : \A k \in T : m <= k
    BY <1>4, <2>1, Least
  <2>3. m \in 1..n /\ ~P(m)
    OBVIOUS
  <2>4. CASE m = 1
    <3>1. fl[1] = seqs[1] /\ seqs[1] \in Seq(D)
      BY <1>0, <1>3
    <3>2. P(1)
      BY <3>1
    <3> QED
      BY <2>3, <2>4, <3>2
  <2>5. CASE m # 1
    <3>1. m - 1 \in 1..n /\ m \in 2..n /\ m - 1 \notin T
      <4>1. m \in Nat /\ m - 1 \in 1..n /\ m \in 2..n
        BY <1>0, <2>3, <2>5
      <4> HIDE DEF T
      <4> QED
        BY <2>2, <4>1
    <3>2. P(m - 1)
      BY <3>1
    <3> DEFINE a == fl[m - 1]
               b == seqs[m]
    <3>3. fl[m] = a \o b /\ a \in Seq(D) /\ b \in Seq(D)
      BY <1>0, <1>3, <2>3, <3>1, <3>2
    <3>4. /\ fl[m] \in Seq(D) /\ Len(fl[m]) = Len(a) + Len(b)
          /\ Len(a) \in Nat /\ Len(b) \in Nat
          /\ \A p \in 1..Len(a) : fl[m][p] = a[p]
          /\ \A p \in 1..Len(b) : fl[m][Len(a) + p] = b[p]
      <4> HIDE DEF a, b
      <4>1. /\ a \o b \in Seq(D) /\ Len(a \o b) = Len(a) + Len(b)
            /\ Len(a) \in Nat /\ Len(b) \in Nat
            /\ \A p \in 1..Len(a) : (a \o b)[p] = a[p]
            /\ \A p \in 1..Len(b) : (a \o b)[Len(a) + p] = b[p]
        BY <3>3
      <4> QED
        BY <3>3, <4>1
    <3>5. ASSUME NEW k \in 1..m, NEW j \in 1..Len(seqs[k])
          PROVE  \E p \in 1..Len(fl[m]) : fl[m][p] = seqs[k][j]
      <4>1. CASE k = m
        <5>1. Len(a) + j \in 1..Len(fl[m]) /\ fl[m][Len(a) + j] = seqs[k][j]
          <6>1. j \in 1..Len(b) /\ seqs[k][j] = b[j]
            BY <4>1
          <6> HIDE DEF a, b
          <6> QED
            BY <3>4, <6>1
        <5> QED
          BY <5>1
      <4>2. CASE k # m
        <5>1. k \in 1..(m - 1)
          BY <2>3, <4>2
        <5>2. PICK p \in 1..Len(a) : a[p] = seqs[k][j]
          BY <3>2, <5>1
        <5>3. p \in 1..Len(fl[m]) /\ fl[m][p] = a[p]
          <6> HIDE DEF a, b
          <6> QED
            BY <3>4
        <5> QED
          BY <5>2, <5>3
      <4> QED
        BY <4>1, <4>2
    <3>6. ASSUME NEW p \in 1..Len(fl[m])
          PROVE  \E k \in 1..m : \E j \in 1..Len(seqs[k]) : fl[m][p] = seqs[k][j]
      <4>1. CASE p \in 1..Len(a)
        <5>1. PICK k \in 1..(m - 1) : \E j \in 1..Len(seqs[k]) : a[p] = seqs[k][j]
          BY <3>2, <4>1
        <5>2. k \in 1..m /\ fl[m][p] = a[p]
          BY <2>3, <3>3, <3>4, <4>1
        <5> QED
          BY <5>1, <5>2
      <4>2. CASE p \notin 1..Len(a)
        <5>1. p - Len(a) \in 1..Len(b) /\ p = Len(a) + (p - Len(a))
          <6> HIDE DEF a, b
          <6> QED
            BY <3>4, <4>2
        <5>2. fl[m][p] = b[p - Len(a)]
          BY <3>4, <5>1
        <5>3. m \in 1..m
          BY <2>3
        <5> QED
          BY <5>1, <5>2, <5>3
      <4> QED
        BY <4>1, <4>2
    <3>7. ASSUME \A k \in 1..(m - 1) : seqs[k] = <<>> PROVE fl[m] = seqs[m]
      <4>1. /\ m - 1 \in 1..(m - 1)
            /\ \A k \in 1..((m - 1) - 1) : k \in 1..(m - 1)
        BY <2>3, <2>5
      <4>2. a = <<>>
        BY <3>2, <3>7, <4>1
      <4> HIDE DEF a, b
      <4>3. fl[m] = b
        BY <3>3, <4>2
      <4> QED
        BY <4>3 DEF b
    <3>8. P(m)
      BY <3>4, <3>5, <3>6, <3>7
    <3> QED
      BY <2>3, <3>8
  <2> QED
    BY <2>4, <2>5
<1>5. P(n)
  <2>1. n \in 1..n
    BY <1>0
  <2>2. n \notin T
    BY <1>4
  <2> QED
    BY <2>1, <2>2
<1> QED
  BY <1>1, <1>5 DEF n

-----------------------------------------------------------------------------
(* The inductive invariant, part by part.                                  *)

Level == [path : Seq(Methods), start : Nat, cnt : Nat]
Frame == [method : Methods, ip : BOOLEAN]
Row == [ctxt : Seq(Frame), start : Nat, end : Nat]
Event == [op : {"open", "close"}, at : Nat, row : Nat]

(* The path of a level is the calls that led to it; what is recorded       *)
(* lasted for some time, under a context whose last frame alone has an     *)
(* instruction address.                                                    *)
TraceInv ==
    /\ level \in Seq(Level) /\ Len(level) <= MaxDepth
    /\ \A k \in 1..Len(level) : Len(level[k].path) = k
    /\ DOMAIN metrics \subseteq Seq(Frame)
    /\ \A c \in DOMAIN metrics :
          /\ Len(c) \in 1..MaxDepth
          /\ \A k \in 1..Len(c) : c[k].ip = (k = Len(c))
          /\ metrics[c] \in Seq(Interval)
          /\ \A j \in 1..Len(metrics[c]) : metrics[c][j].start < metrics[c][j].end

(* The rows are the instances of the paths that were output, and in the    *)
(* end all instances by start.                                             *)
RowsInv ==
    /\ rows \in Seq(Row)
    /\ phase \in {"trace", "rows"} => next = 1 /\ stack = <<>> /\ track = <<>>
    /\ phase = "trace" => rows = <<>> /\ paths = {}
    /\ phase = "rows" =>
          /\ ToSet(rows) \subseteq Instances
          /\ \A leaf \in paths : \A k \in 1..Len(leaf) :
                ToSet(RowsOf(SubSeq(leaf, 1, k))) \subseteq ToSet(rows)
    /\ phase \in {"write", "done"} =>
          /\ ToSet(rows) = Instances
          /\ \A i, j \in 1..Len(rows) : i < j => rows[i].start <= rows[j].start

(* my_stack has rows of the loop; the slice opened last is its top.        *)
StackInv ==
    /\ stack \in Seq(Nat) /\ track \in Seq(Event)
    /\ next \in 1..(Len(rows) + 1)
    /\ \A a \in 1..Len(stack) : stack[a] \in 1..(next - 1)
    /\ phase = "write" /\ next = 1 => stack = <<>> /\ track = <<>>
    /\ phase = "write" /\ next > 1 =>
          /\ stack # <<>> /\ track # <<>>
          /\ Last(track).op = "open" /\ Last(track).row = Top

Now == Last(track).at

(* Events in the order of time, any two of them.                           *)
Forward(tr) == \A i, j \in 1..Len(tr) : i < j => tr[i].at <= tr[j].at

(* The rows rs that the first n events of tr show at time t.               *)
ShownIn(tr, rs, n, t) ==
    {rs[tr[k].row] : k \in {k \in 1..n : tr[k].op = "open" /\ tr[k].at <= t /\ t < tr[k + 1].at}}

(* Between two rows: the stack is a chain of rows one inside the other,    *)
(* every row that was left has ended, the next row is still to start, and  *)
(* the track is right up to now.                                           *)
LoopInv ==
    /\ Forward(track)
    /\ \A a, b \in 1..Len(stack) : a < b =>
          /\ rows[stack[a]].start < rows[stack[b]].start
          /\ rows[stack[b]].end < rows[stack[a]].end
    /\ \A i \in 1..(next - 1) : (\E a \in 1..Len(stack) : stack[a] = i) \/ rows[i].end <= Now
    /\ rows[Top].start <= Now /\ Now < rows[Top].end
    /\ next <= Len(rows) => Now <= rows[next].start
    /\ \A t \in Nat : t < Now => ShownIn(track, rows, Len(track) - 1, t) = Innermost(t)

(* The finished track.                                                     *)
DoneInv ==
    /\ Forward(track)
    /\ \A t \in Nat : ShownIn(track, rows, Len(track), t) = Innermost(t)

IInv ==
    /\ origin \in Nat /\ started \in 0..MaxRecords
    /\ phase \in {"trace", "rows", "write", "done"}
    /\ TraceInv
    /\ RowsInv
    /\ StackInv
    /\ (phase = "write" /\ next > 1 /\ RowsNest) => LoopInv
    /\ (phase = "done" /\ RowsNest) => DoneInv

-----------------------------------------------------------------------------
(* Sequences.                                                              *)

(* Taking the last element off.                                            *)
LEMMA FrontLast ==
    ASSUME NEW D, NEW s \in Seq(D), s # <<>>
    PROVE  /\ Len(s) \in Nat \ {0}
           /\ Front(s) \in Seq(D) /\ Len(Front(s)) = Len(s) - 1
           /\ \A i \in 1..(Len(s) - 1) : Front(s)[i] = s[i]
           /\ Last(s) = s[Len(s)] /\ Last(s) \in D
<1>1. Len(s) \in Nat \ {0} /\ \A i \in 1..Len(s) : s[i] \in D
  OBVIOUS
<1> DEFINE n == Len(s) - 1
<1>2. n \in Int /\ 1 \in Int /\ \A i \in 1..n : s[i] \in D
  BY <1>1
<1>3. /\ SubSeq(s, 1, n) \in Seq(D)
      /\ Len(SubSeq(s, 1, n)) = IF 1 <= n THEN n - 1 + 1 ELSE 0
      /\ \A i \in 1..(n - 1 + 1) : SubSeq(s, 1, n)[i] = s[1 + i - 1]
  <2> HIDE DEF n
  <2> QED
    BY <1>2, SubSeqProperties
<1>4. Front(s) = SubSeq(s, 1, n)
  BY DEF Front
<1>5. Len(Front(s)) = n
  <2>1. n \in Nat
    BY <1>1
  <2> HIDE DEF n
  <2> QED
    BY <1>3, <1>4, <2>1
<1>6. ASSUME NEW i \in 1..n PROVE Front(s)[i] = s[i]
  <2>1. i \in 1..(n - 1 + 1) /\ 1 + i - 1 = i
    BY <1>1
  <2> QED
    BY <1>3, <1>4, <2>1
<1> QED
  BY <1>1, <1>3, <1>4, <1>5, <1>6 DEF Last

(* A prefix.                                                               *)
LEMMA PrefixProperties ==
    ASSUME NEW D, NEW s \in Seq(D), NEW l \in 0..Len(s)
    PROVE  /\ SubSeq(s, 1, l) \in Seq(D) /\ Len(SubSeq(s, 1, l)) = l
           /\ \A i \in 1..l : SubSeq(s, 1, l)[i] = s[i]
<1>1. Len(s) \in Nat /\ \A i \in 1..Len(s) : s[i] \in D
  OBVIOUS
<1>2. l \in Int /\ 1 \in Int /\ \A i \in 1..l : s[i] \in D
  BY <1>1
<1>3. /\ SubSeq(s, 1, l) \in Seq(D)
      /\ Len(SubSeq(s, 1, l)) = IF 1 <= l THEN l - 1 + 1 ELSE 0
      /\ \A i \in 1..(l - 1 + 1) : SubSeq(s, 1, l)[i] = s[1 + i - 1]
  BY <1>2, SubSeqProperties
<1>4. Len(SubSeq(s, 1, l)) = l
  BY <1>1, <1>3
<1>5. ASSUME NEW i \in 1..l PROVE SubSeq(s, 1, l)[i] = s[i]
  <2>1. i \in 1..(l - 1 + 1) /\ 1 + i - 1 = i
    BY <1>1
  <2> QED
    BY <1>3, <2>1
<1> QED
  BY <1>3, <1>4, <1>5

(* A prefix of a prefix.                                                   *)
LEMMA PrefixOfPrefix ==
    ASSUME NEW D, NEW s \in Seq(D), NEW l \in 0..Len(s), NEW k \in 0..l
    PROVE  SubSeq(SubSeq(s, 1, l), 1, k) = SubSeq(s, 1, k)
<1> DEFINE p == SubSeq(s, 1, l)
           q == SubSeq(s, 1, k)
           r == SubSeq(p, 1, k)
<1>0. Len(s) \in Nat
  OBVIOUS
<1>1. p \in Seq(D) /\ Len(p) = l /\ \A i \in 1..l : p[i] = s[i]
  BY PrefixProperties
<1>2. k \in 0..Len(s) /\ k \in 0..Len(p)
  BY <1>0, <1>1
<1>3. q \in Seq(D) /\ Len(q) = k /\ \A i \in 1..k : q[i] = s[i]
  BY <1>2, PrefixProperties
<1> HIDE DEF p, q
<1>4. r \in Seq(D) /\ Len(r) = k /\ \A i \in 1..k : r[i] = p[i]
  BY <1>1, <1>2, PrefixProperties
<1> HIDE DEF r
<1>5. \A i \in 1..k : r[i] = q[i]
  BY <1>0, <1>1, <1>3, <1>4
<1>6. r = q
  BY <1>3, <1>4, <1>5
<1> QED
  BY <1>6 DEF p, q, r

(* The elements of a sequence.                                             *)
LEMMA ToSetSeq == ASSUME NEW D, NEW s \in Seq(D) PROVE ToSet(s) = {s[i] : i \in 1..Len(s)}
<1>1. DOMAIN s = 1..Len(s)
  OBVIOUS
<1> QED
  BY <1>1 DEF ToSet

(* The empty sequence has none.                                            *)
LEMMA ToSetEmpty == ToSet(<<>>) = {}
<1>1. DOMAIN <<>> = {}
  OBVIOUS
<1> QED
  BY <1>1 DEF ToSet

(* The elements of a sequence and another one.                             *)
LEMMA ToSetProperties ==
    ASSUME NEW D, NEW a \in Seq(D), NEW b \in Seq(D)
    PROVE  /\ a \o b \in Seq(D)
           /\ ToSet(a) = {a[i] : i \in 1..Len(a)}
           /\ ToSet(a \o b) = ToSet(a) \cup ToSet(b)
<1> DEFINE c == a \o b
<1>1. /\ c \in Seq(D) /\ Len(c) = Len(a) + Len(b)
      /\ Len(a) \in Nat /\ Len(b) \in Nat
      /\ \A i \in 1..Len(a) : c[i] = a[i]
      /\ \A i \in 1..Len(b) : c[Len(a) + i] = b[i]
  OBVIOUS
<1> HIDE DEF c
<1>2. /\ ToSet(a) = {a[i] : i \in 1..Len(a)}
      /\ ToSet(b) = {b[i] : i \in 1..Len(b)}
      /\ ToSet(c) = {c[i] : i \in 1..Len(c)}
  BY <1>1, ToSetSeq
<1>3. ASSUME NEW x \in ToSet(c) PROVE x \in ToSet(a) \cup ToSet(b)
  <2>1. PICK i \in 1..Len(c) : x = c[i]
    BY <1>2
  <2>2. CASE i \in 1..Len(a)
    BY <1>1, <1>2, <2>1, <2>2
  <2>3. CASE i \notin 1..Len(a)
    <3>1. i - Len(a) \in 1..Len(b) /\ i = Len(a) + (i - Len(a))
      BY <1>1, <2>3
    <3>2. x = b[i - Len(a)]
      BY <1>1, <2>1, <3>1
    <3> QED
      BY <1>2, <3>1, <3>2
  <2> QED
    BY <2>2, <2>3
<1>4. ASSUME NEW x \in ToSet(a) PROVE x \in ToSet(c)
  <2>1. PICK i \in 1..Len(a) : x = a[i]
    BY <1>2
  <2>2. i \in 1..Len(c) /\ c[i] = x
    BY <1>1, <2>1
  <2> QED
    BY <1>2, <2>2
<1>5. ASSUME NEW x \in ToSet(b) PROVE x \in ToSet(c)
  <2>1. PICK i \in 1..Len(b) : x = b[i]
    BY <1>2
  <2>2. Len(a) + i \in 1..Len(c) /\ c[Len(a) + i] = x
    BY <1>1, <2>1
  <2> QED
    BY <1>2, <2>2
<1> QED
  BY <1>1, <1>2, <1>3, <1>4, <1>5 DEF c

-----------------------------------------------------------------------------
(* The tracer.                                                             *)

(* The invariant holds before the first sample.                            *)
LEMMA InitInv == Init => IInv
<1> SUFFICES ASSUME Init PROVE IInv
  OBVIOUS
<1>1. /\ origin \in Nat /\ started \in 0..MaxRecords
      /\ phase = "trace" /\ level = <<>> /\ DOMAIN metrics = {}
      /\ rows = <<>> /\ paths = {} /\ next = 1 /\ stack = <<>> /\ track = <<>>
  BY TimelineAssumption DEF Init
<1>2. TraceInv
  BY <1>1, TimelineAssumption DEF TraceInv
<1>3. RowsInv /\ StackInv
  BY <1>1 DEF RowsInv, StackInv
<1> QED
  BY <1>1, <1>2, <1>3 DEF IInv

(* While the thread is traced the scripts have nothing.                    *)
LEMMA TracerStep ==
    ASSUME IInv, phase = "trace", TraceInv', origin' \in Nat, started' \in 0..MaxRecords,
           UNCHANGED <<phase, paths, rows, next, stack, track>>
    PROVE  IInv'
<1>1. RowsInv'
  BY DEF IInv, RowsInv
<1>2. StackInv'
  BY DEF IInv, StackInv
<1> QED
  BY <1>1, <1>2 DEF IInv

(* OnSample.                                                               *)
LEMMA SampleInv == ASSUME IInv, NEW m \in Methods, Sample(m) PROVE IInv'
<1>1. /\ phase = "trace" /\ started < MaxRecords /\ started' = started + 1
      /\ level' = <<[path |-> <<m>>, start |-> origin, cnt |-> 0]>>
      /\ UNCHANGED <<origin, metrics, phase, paths, rows, next, stack, track>>
  BY DEF Sample
<1>2. started' \in 0..MaxRecords /\ origin' \in Nat
  BY <1>1, TimelineAssumption DEF IInv
<1>3. TraceInv'
  <2> DEFINE x == [path |-> <<m>>, start |-> origin, cnt |-> 0]
  <2>1. x \in Level /\ x.path = <<m>> /\ Len(<<m>>) = 1
    BY DEF IInv, Level
  <2> HIDE DEF x
  <2>2. level' \in Seq(Level) /\ Len(level') = 1 /\ level'[1] = x
    BY <1>1, <2>1 DEF x
  <2>3. Len(level') <= MaxDepth
    BY <2>2, TimelineAssumption
  <2>4. \A k \in 1..Len(level') : Len(level'[k].path) = k
    BY <2>1, <2>2
  <2> QED
    BY <1>1, <2>2, <2>3, <2>4 DEF IInv, TraceInv
<1> QED
  BY <1>1, <1>2, <1>3, TracerStep

(* A traced call.                                                          *)
LEMMA CallInv == ASSUME IInv, NEW m \in Methods, NEW w \in Work, Call(m, w) PROVE IInv'
<1> DEFINE caller == [Last(level) EXCEPT !.cnt = @ + w]
           new == [path |-> Append(caller.path, m), start |-> caller.start + caller.cnt, cnt |-> 0]
           n == Len(level)
<1>1. /\ phase = "trace" /\ started < MaxRecords /\ started' = started + 1
      /\ level # <<>> /\ Len(level) < MaxDepth
      /\ level' = Append(Front(level) \o <<caller>>, new)
      /\ UNCHANGED <<origin, metrics, phase, paths, rows, next, stack, track>>
  BY DEF Call
<1>2. started' \in 0..MaxRecords /\ origin' \in Nat
  BY <1>1, TimelineAssumption DEF IInv
<1>3. level \in Seq(Level) /\ \A k \in 1..Len(level) : Len(level[k].path) = k
  BY DEF IInv, TraceInv
<1>4. /\ n \in Nat \ {0} /\ Front(level) \in Seq(Level) /\ Len(Front(level)) = n - 1
      /\ \A i \in 1..(n - 1) : Front(level)[i] = level[i]
      /\ Last(level) = level[n] /\ Last(level) \in Level
  BY <1>1, <1>3, FrontLast
<1>5. w \in Nat
  BY TimelineAssumption DEF Work
<1>6. caller \in Level /\ caller.path = Last(level).path
  BY <1>4, <1>5 DEF Level
<1>7. Len(caller.path) = n /\ caller.path \in Seq(Methods)
  <2>1. n \in 1..Len(level)
    BY <1>4
  <2>2. Len(level[n].path) = n
    BY <1>3, <2>1
  <2> HIDE DEF caller
  <2> QED
    BY <1>4, <1>6, <2>2 DEF Level
<1> HIDE DEF caller
<1>8. new \in Level /\ Len(new.path) = n + 1
  BY <1>6, <1>7 DEF Level
<1> HIDE DEF new
<1>9. TraceInv'
  <2> DEFINE f == Front(level)
             l1 == f \o <<caller>>
             l2 == Append(l1, new)
  <2>0. f \in Seq(Level) /\ Len(f) = n - 1 /\ \A i \in 1..(n - 1) : f[i] = level[i]
    BY <1>4
  <2> HIDE DEF f
  <2>1. /\ l1 \in Seq(Level) /\ Len(l1) = n /\ l1[n] = caller
        /\ \A i \in 1..(n - 1) : l1[i] = f[i]
    <3>1. <<caller>> \in Seq(Level) /\ Len(<<caller>>) = 1 /\ <<caller>>[1] = caller
      BY <1>6
    <3>2. /\ l1 \in Seq(Level) /\ Len(l1) = Len(f) + 1
          /\ \A i \in 1..Len(f) : l1[i] = f[i]
          /\ l1[Len(f) + 1] = caller
      BY <1>6, <2>0, <3>1
    <3> QED
      BY <1>4, <2>0, <3>2
  <2> HIDE DEF l1
  <2>2. /\ l2 \in Seq(Level) /\ Len(l2) = n + 1 /\ l2[n + 1] = new
        /\ \A i \in 1..n : l2[i] = l1[i]
    BY <1>4, <1>8, <2>1
  <2>3. level' = l2
    BY <1>1 DEF l1, f
  <2> HIDE DEF l2
  <2>4. ASSUME NEW k \in 1..Len(l2) PROVE Len(l2[k].path) = k
    <3>1. CASE k = n + 1
      BY <1>8, <2>2, <3>1
    <3>2. CASE k = n
      BY <1>4, <1>7, <2>1, <2>2, <3>2
    <3>3. CASE k \in 1..(n - 1)
      <4>1. l2[k] = level[k] /\ k \in 1..n
        BY <1>4, <2>0, <2>1, <2>2, <3>3
      <4> QED
        BY <1>3, <4>1
    <3> QED
      BY <1>4, <2>2, <3>1, <3>2, <3>3
  <2>5. Len(l2) <= MaxDepth
    BY <1>1, <1>4, <2>2, TimelineAssumption
  <2> QED
    BY <1>1, <2>2, <2>3, <2>4, <2>5 DEF IInv, TraceInv
<1> QED
  BY <1>1, <1>2, <1>9, TracerStep

(* constructContext gives every call path a context of its length, whose   *)
(* last frame alone has an instruction address.                            *)
LEMMA ContextOfTypes ==
    ASSUME NEW p \in Seq(Methods)
    PROVE  /\ ContextOf(p) \in Seq(Frame) /\ Len(ContextOf(p)) = Len(p)
           /\ \A k \in 1..Len(ContextOf(p)) : ContextOf(p)[k].ip = (k = Len(ContextOf(p)))
<1>1. Len(p) \in Nat /\ \A k \in 1..Len(p) : p[k] \in Methods
  OBVIOUS
<1> DEFINE f(k) == [method |-> p[k], ip |-> k = Len(p)]
<1>2. \A k \in 1..Len(p) : f(k) \in Frame /\ f(k).ip = (k = Len(p))
  BY <1>1 DEF Frame
<1>3. ContextOf(p) = [k \in 1..Len(p) |-> f(k)]
  BY DEF ContextOf
<1> HIDE DEF f
<1>4. /\ ContextOf(p) \in Seq(Frame) /\ Len(ContextOf(p)) = Len(p)
      /\ \A k \in 1..Len(p) : ContextOf(p)[k] = f(k)
  BY <1>1, <1>2, <1>3
<1> QED
  BY <1>2, <1>4

(* A return.                                                               *)
LEMMA ReturnInv == ASSUME IInv, NEW w \in Work, Return(w) PROVE IInv'
<1> DEFINE top == Last(level)
           end == top.start + top.cnt + w
           ctxt == ContextOf(top.path)
           old == IF ctxt \in DOMAIN metrics THEN metrics[ctxt] ELSE <<>>
           outer == Front(level)
           x == [start |-> top.start, end |-> end]
           n == Len(level)
<1>1. /\ phase = "trace" /\ level # <<>>
      /\ metrics' = [c \in DOMAIN metrics \cup {ctxt} |->
                        IF c = ctxt THEN Append(old, x) ELSE metrics[c]]
      /\ level' = IF outer = <<>> THEN <<>> ELSE [outer EXCEPT ![Len(outer)].cnt = @ + w]
      /\ origin' = IF outer = <<>> THEN end ELSE origin
      /\ UNCHANGED <<started, phase, paths, rows, next, stack, track>>
  BY DEF Return
<1>2. /\ level \in Seq(Level) /\ Len(level) <= MaxDepth
      /\ \A k \in 1..Len(level) : Len(level[k].path) = k
      /\ DOMAIN metrics \subseteq Seq(Frame)
      /\ \A c \in DOMAIN metrics :
            /\ Len(c) \in 1..MaxDepth
            /\ \A k \in 1..Len(c) : c[k].ip = (k = Len(c))
            /\ metrics[c] \in Seq(Interval)
            /\ \A j \in 1..Len(metrics[c]) : metrics[c][j].start < metrics[c][j].end
  BY DEF IInv, TraceInv
<1>3. /\ n \in Nat \ {0} /\ outer \in Seq(Level) /\ Len(outer) = n - 1
      /\ \A i \in 1..(n - 1) : outer[i] = level[i]
      /\ top = level[n] /\ top \in Level
  BY <1>1, <1>2, FrontLast
<1>4. w \in Nat \ {0}
  BY TimelineAssumption DEF Work
<1> HIDE DEF top, outer
<1>5. /\ top.start \in Nat /\ top.cnt \in Nat /\ top.path \in Seq(Methods)
      /\ end \in Nat /\ top.start < end
  BY <1>3, <1>4 DEF Level
<1>6. Len(top.path) = n /\ n \in 1..MaxDepth
  BY <1>2, <1>3, TimelineAssumption
<1>14. /\ ctxt \in Seq(Frame) /\ Len(ctxt) \in 1..MaxDepth
       /\ \A k \in 1..Len(ctxt) : ctxt[k].ip = (k = Len(ctxt))
  BY <1>5, <1>6, ContextOfTypes
<1> HIDE DEF ctxt
<1>7. x \in Interval /\ x.start < x.end
  BY <1>5 DEF Interval
<1>8. /\ old \in Seq(Interval)
      /\ \A j \in 1..Len(old) : old[j].start < old[j].end
  BY <1>2
<1> HIDE DEF x, old, end
<1>9. /\ Append(old, x) \in Seq(Interval)
      /\ \A j \in 1..Len(Append(old, x)) : Append(old, x)[j].start < Append(old, x)[j].end
  <2> DEFINE y == Append(old, x)
  <2>1. /\ y \in Seq(Interval) /\ Len(y) = Len(old) + 1 /\ Len(old) \in Nat
        /\ \A j \in 1..Len(old) : y[j] = old[j]
        /\ y[Len(old) + 1] = x
    BY <1>7, <1>8
  <2> HIDE DEF y
  <2>2. \A j \in 1..Len(y) : y[j].start < y[j].end
    BY <1>7, <1>8, <2>1
  <2> QED
    BY <2>1, <2>2 DEF y
<1>10. /\ DOMAIN metrics' \subseteq Seq(Frame)
       /\ \A c \in DOMAIN metrics' :
             /\ Len(c) \in 1..MaxDepth
            /\ \A k \in 1..Len(c) : c[k].ip = (k = Len(c))
             /\ metrics'[c] \in Seq(Interval)
             /\ \A j \in 1..Len(metrics'[c]) : metrics'[c][j].start < metrics'[c][j].end
  <2>1. DOMAIN metrics' = DOMAIN metrics \cup {ctxt}
    BY <1>1
  <2>2. ASSUME NEW c \in DOMAIN metrics'
        PROVE  metrics'[c] = IF c = ctxt THEN Append(old, x) ELSE metrics[c]
    BY <1>1
  <2>3. DOMAIN metrics' \subseteq Seq(Frame)
    BY <1>2, <1>14, <2>1
  <2>4. ASSUME NEW c \in DOMAIN metrics', c = ctxt
        PROVE  /\ Len(c) \in 1..MaxDepth
               /\ \A k \in 1..Len(c) : c[k].ip = (k = Len(c))
               /\ metrics'[c] \in Seq(Interval)
               /\ \A j \in 1..Len(metrics'[c]) : metrics'[c][j].start < metrics'[c][j].end
    BY <1>9, <1>14, <2>2, <2>4
  <2>5. ASSUME NEW c \in DOMAIN metrics', c # ctxt
        PROVE  /\ Len(c) \in 1..MaxDepth
               /\ \A k \in 1..Len(c) : c[k].ip = (k = Len(c))
               /\ metrics'[c] \in Seq(Interval)
               /\ \A j \in 1..Len(metrics'[c]) : metrics'[c][j].start < metrics'[c][j].end
    BY <1>2, <2>1, <2>2, <2>5
  <2> QED
    BY <2>3, <2>4, <2>5
<1>11. /\ level' \in Seq(Level) /\ Len(level') <= MaxDepth
       /\ \A k \in 1..Len(level') : Len(level'[k].path) = k
  <2>1. CASE outer = <<>>
    BY <1>1, <2>1, TimelineAssumption
  <2>2. CASE outer # <<>>
    <3> DEFINE o == Len(outer)
               y == [outer[o] EXCEPT !.cnt = @ + w]
    <3>1. o \in Nat \ {0} /\ outer[o] \in Level
      BY <1>3, <2>2
    <3>2. y \in Level /\ y.path = outer[o].path
      BY <1>4, <3>1 DEF Level
    <3>3. level' = [outer EXCEPT ![o] = y]
      BY <1>1, <2>2
    <3> HIDE DEF y
    <3>4. /\ level' \in Seq(Level) /\ Len(level') = o
          /\ \A i \in 1..o : level'[i] = IF i = o THEN y ELSE outer[i]
      BY <1>3, <3>1, <3>2, <3>3
    <3>5. ASSUME NEW k \in 1..o PROVE Len(level'[k].path) = k
      <4>1. outer[k] = level[k] /\ k \in 1..n
        BY <1>3
      <4> QED
        BY <1>2, <3>2, <3>4, <4>1
    <3>6. o <= MaxDepth
      BY <1>2, <1>3, TimelineAssumption
    <3> QED
      BY <3>4, <3>5, <3>6
  <2> QED
    BY <2>1, <2>2
<1>12. TraceInv'
  BY <1>10, <1>11 DEF TraceInv
<1>13. origin' \in Nat /\ started' \in 0..MaxRecords
  BY <1>1, <1>5 DEF IInv
<1> QED
  BY <1>1, <1>12, <1>13, TracerStep

-----------------------------------------------------------------------------
(* output_to_file.                                                         *)

(* The rows of a context are rows of instances.                            *)
LEMMA RowsOfTypes ==
    ASSUME TraceInv, NEW c \in Seq(Frame)
    PROVE  /\ RowsOf(c) \in Seq(Row)
           /\ ToSet(RowsOf(c)) \subseteq Instances
           /\ \A x \in ToSet(RowsOf(c)) : x \in Row /\ x.start < x.end
<1>1. CASE c \notin DOMAIN metrics
  <2>1. RowsOf(c) = <<>>
    BY <1>1 DEF RowsOf
  <2>2. RowsOf(c) \in Seq(Row)
    BY <2>1
  <2>3. ToSet(RowsOf(c)) = {}
    BY <2>1, ToSetEmpty
  <2> QED
    BY <2>2, <2>3
<1>2. CASE c \in DOMAIN metrics
  <2> DEFINE n == Len(metrics[c])
             row(j) == [ctxt |-> c, start |-> metrics[c][j].start, end |-> metrics[c][j].end]
  <2>1. /\ metrics[c] \in Seq(Interval) /\ n \in Nat
        /\ \A j \in 1..n : metrics[c][j].start < metrics[c][j].end
    BY <1>2 DEF TraceInv
  <2>2. ASSUME NEW j \in 1..n PROVE row(j) \in Row /\ row(j).start < row(j).end
    <3>1. metrics[c][j] \in Interval
      BY <2>1
    <3> QED
      BY <2>1, <3>1 DEF Interval, Row
  <2>3. RowsOf(c) = [j \in 1..n |-> row(j)]
    BY <1>2 DEF RowsOf
  <2> HIDE DEF n, row
  <2>4. /\ RowsOf(c) \in Seq(Row) /\ Len(RowsOf(c)) = n
        /\ \A j \in 1..n : RowsOf(c)[j] = row(j)
    BY <2>1, <2>2, <2>3
  <2>5. ToSet(RowsOf(c)) = {RowsOf(c)[i] : i \in 1..n}
    BY <2>4, ToSetSeq
  <2>6. ToSet(RowsOf(c)) \subseteq Instances
    BY <1>2 DEF Instances
  <2> QED
    BY <2>2, <2>4, <2>5, <2>6
<1> QED
  BY <1>1, <1>2

(* Instances are rows that lasted.                                         *)
LEMMA InstanceTypes ==
    ASSUME TraceInv, NEW x \in Instances PROVE x \in Row /\ x.start < x.end
<1>1. PICK c \in DOMAIN metrics : x \in ToSet(RowsOf(c))
  BY DEF Instances
<1>2. c \in Seq(Frame)
  BY DEF TraceInv
<1> QED
  BY <1>1, <1>2, RowsOfTypes

(* A context in the file is a call path of bounded length.                 *)
LEMMA ContextTypes ==
    ASSUME TraceInv, NEW c \in Contexts PROVE c \in Seq(Frame) /\ Len(c) \in 0..MaxDepth
<1>1. PICK d \in DOMAIN metrics : c \in Prefixes(d)
  BY DEF Contexts
<1>2. PICK l \in 0..Len(d) : c = SubSeq(d, 1, l)
  BY <1>1 DEF Prefixes
<1>3. d \in Seq(Frame) /\ Len(d) \in 1..MaxDepth
  BY DEF TraceInv
<1>4. c \in Seq(Frame) /\ Len(c) = l
  BY <1>2, <1>3, PrefixProperties
<1> QED
  BY <1>3, <1>4, TimelineAssumption

(* Every context with metrics is on the path to a leaf.                    *)
LEMMA LeafAbove ==
    ASSUME TraceInv, NEW c \in DOMAIN metrics
    PROVE  \E leaf \in Leaves : \E k \in 1..Len(leaf) : c = SubSeq(leaf, 1, k)
<1> DEFINE above == {d \in Contexts : c \in Prefixes(d)}
           T == {MaxDepth - Len(d) : d \in above}
<1>1. c \in Seq(Frame) /\ Len(c) \in 1..MaxDepth
  BY DEF TraceInv
<1>2. SubSeq(c, 1, Len(c)) = c /\ Len(c) \in 0..Len(c)
  BY <1>1, SubSeqFull
<1>3. c \in Prefixes(c)
  BY <1>2 DEF Prefixes
<1>4. c \in above
  BY <1>3 DEF Contexts
<1>5. ASSUME NEW d \in above PROVE MaxDepth - Len(d) \in Nat
  <2>1. Len(d) \in 0..MaxDepth
    BY ContextTypes
  <2> QED
    BY <2>1, TimelineAssumption
<1>6. T \in SUBSET Nat /\ T # {}
  <2> HIDE DEF above
  <2> QED
    BY <1>4, <1>5
<1>7. PICK m \in T : \A k \in T : m <= k
  BY <1>6, Least
<1>8. PICK leaf \in above : m = MaxDepth - Len(leaf)
  OBVIOUS
<1>9. leaf \in Contexts /\ leaf \in Seq(Frame) /\ Len(leaf) \in 0..MaxDepth
  BY ContextTypes
<1>10. PICK k \in 0..Len(leaf) : c = SubSeq(leaf, 1, k)
  BY DEF Prefixes
<1>11. Len(c) = k
  BY <1>9, <1>10, PrefixProperties
<1>12. ASSUME NEW d \in Contexts, leaf \in Prefixes(d) PROVE d = leaf
  <2>1. d \in Seq(Frame) /\ Len(d) \in 0..MaxDepth
    BY ContextTypes
  <2>2. PICK l \in 0..Len(d) : leaf = SubSeq(d, 1, l)
    BY <1>12 DEF Prefixes
  <2>3. Len(leaf) = l
    BY <2>1, <2>2, PrefixProperties
  <2>4. c = SubSeq(d, 1, k) /\ k \in 0..Len(d)
    <3>1. k \in 0..l /\ k \in 0..Len(d)
      BY <1>10, <2>1, <2>3
    <3>2. SubSeq(SubSeq(d, 1, l), 1, k) = SubSeq(d, 1, k)
      BY <2>1, <3>1, PrefixOfPrefix
    <3> QED
      BY <1>10, <2>2, <3>1, <3>2
  <2>5. d \in above
    BY <2>4 DEF Prefixes
  <2>6. m <= MaxDepth - Len(d)
    BY <1>7, <2>5
  <2>7. l = Len(d)
    BY <1>8, <1>9, <2>1, <2>3, <2>6, TimelineAssumption
  <2> QED
    BY <2>1, <2>2, <2>7, SubSeqFull
<1>13. leaf \in Leaves
  BY <1>9, <1>12 DEF Leaves
<1>14. k \in 1..Len(leaf)
  BY <1>1, <1>9, <1>11
<1> QED
  BY <1>10, <1>13, <1>14

(* The rows that one path gives.                                           *)
LEMMA PathRows ==
    ASSUME TraceInv, NEW leaf \in Seq(Frame)
    PROVE  LET new == FlattenSeq([k \in 1..Len(leaf) |-> RowsOf(SubSeq(leaf, 1, k))])
           IN  /\ new \in Seq(Row) /\ ToSet(new) \subseteq Instances
               /\ \A k \in 1..Len(leaf) :
                     ToSet(RowsOf(SubSeq(leaf, 1, k))) \subseteq ToSet(new)
<1> DEFINE seqs == [k \in 1..Len(leaf) |-> RowsOf(SubSeq(leaf, 1, k))]
           new == FlattenSeq(seqs)
<1>0. Len(leaf) \in Nat
  OBVIOUS
<1>1. ASSUME NEW k \in 1..Len(leaf)
      PROVE  /\ RowsOf(SubSeq(leaf, 1, k)) \in Seq(Row)
             /\ ToSet(RowsOf(SubSeq(leaf, 1, k))) \subseteq Instances
  <2>1. k \in 0..Len(leaf)
    BY <1>0
  <2>2. SubSeq(leaf, 1, k) \in Seq(Frame)
    BY <2>1, PrefixProperties
  <2> QED
    BY <2>2, RowsOfTypes
<1>2. /\ seqs \in Seq(Seq(Row)) /\ Len(seqs) = Len(leaf)
      /\ \A k \in 1..Len(leaf) : seqs[k] = RowsOf(SubSeq(leaf, 1, k))
  BY <1>0, <1>1
<1> SUFFICES /\ new \in Seq(Row) /\ ToSet(new) \subseteq Instances
             /\ \A k \in 1..Len(leaf) : ToSet(seqs[k]) \subseteq ToSet(new)
  BY <1>2
<1>3. \A k \in 1..Len(leaf) : seqs[k] \in Seq(Row) /\ ToSet(seqs[k]) \subseteq Instances
  BY <1>1, <1>2
<1> HIDE DEF seqs
<1>4. CASE seqs = <<>>
  <2>1. Len(seqs) = 0 /\ Len(leaf) = 0
    BY <1>2, <1>4
  <2>2. new = <<>>
    BY <1>4, <2>1 DEF FlattenSeq
  <2> HIDE DEF new
  <2>3. new \in Seq(Row) /\ ToSet(new) = {}
    BY <2>2, ToSetEmpty
  <2> QED
    BY <2>1, <2>2, <2>3
<1>5. CASE seqs # <<>>
  <2>1. /\ new \in Seq(Row)
        /\ \A k \in 1..Len(seqs) : \A j \in 1..Len(seqs[k]) :
              \E p \in 1..Len(new) : new[p] = seqs[k][j]
        /\ \A p \in 1..Len(new) : \E k \in 1..Len(seqs) : \E j \in 1..Len(seqs[k]) :
              new[p] = seqs[k][j]
    BY <1>2, <1>5, FlattenProperties
  <2> HIDE DEF new
  <2>2. /\ ToSet(new) = {new[i] : i \in 1..Len(new)}
        /\ \A k \in 1..Len(leaf) : ToSet(seqs[k]) = {seqs[k][i] : i \in 1..Len(seqs[k])}
    <3>1. ToSet(new) = {new[i] : i \in 1..Len(new)}
      BY ONLY <2>1, ToSetSeq
    <3>2. ASSUME NEW k \in 1..Len(leaf)
          PROVE  ToSet(seqs[k]) = {seqs[k][i] : i \in 1..Len(seqs[k])}
      <4>1. seqs[k] \in Seq(Row)
        BY <1>3
      <4> QED
        BY ONLY <4>1, ToSetSeq
    <3> QED
      BY <3>1, <3>2
  <2>3. ASSUME NEW p \in 1..Len(new) PROVE new[p] \in Instances
    <3>1. PICK k \in 1..Len(seqs) : \E j \in 1..Len(seqs[k]) : new[p] = seqs[k][j]
      BY <2>1
    <3>2. new[p] \in ToSet(seqs[k])
      BY <1>2, <2>2, <3>1
    <3> QED
      BY <1>2, <1>3, <3>2
  <2>4. ASSUME NEW k \in 1..Len(leaf), NEW x \in ToSet(seqs[k]) PROVE x \in ToSet(new)
    <3>1. PICK j \in 1..Len(seqs[k]) : x = seqs[k][j]
      BY <2>2
    <3>2. \E p \in 1..Len(new) : new[p] = seqs[k][j]
      BY <1>2, <2>1
    <3> QED
      BY <2>2, <3>1, <3>2
  <2> QED
    BY <2>1, <2>2, <2>3, <2>4
<1> QED
  BY <1>4, <1>5

(* The instances do not change any more.                                   *)
LEMMA SameInstances ==
    ASSUME UNCHANGED metrics
    PROVE  Instances' = Instances /\ \A t : Innermost(t)' = Innermost(t)
<1>1. Instances' = Instances
  BY DEF Instances, RowsOf, ToSet
<1> QED
  BY <1>1 DEF Innermost, Covering

(* The scripts do not touch what the tracer left.                          *)
LEMMA SameTrace ==
    ASSUME IInv, UNCHANGED traceVars
    PROVE  /\ TraceInv' /\ origin' \in Nat /\ started' \in 0..MaxRecords
           /\ UNCHANGED metrics
<1>1. UNCHANGED <<level, origin, metrics, started>>
  BY DEF traceVars
<1> QED
  BY <1>1 DEF IInv, TraceInv

(* The scripts start.                                                      *)
LEMMA AnalyseInv == ASSUME IInv, Analyse PROVE IInv'
<1>1. /\ phase = "trace" /\ phase' = "rows"
      /\ UNCHANGED <<traceVars, paths, rows, next, stack, track>>
  BY DEF Analyse
<1>2. TraceInv' /\ origin' \in Nat /\ started' \in 0..MaxRecords
  BY <1>1, SameTrace
<1>3. /\ rows' = <<>> /\ paths' = {} /\ next' = 1 /\ stack' = <<>> /\ track' = <<>>
  BY <1>1 DEF IInv, RowsInv
<1>4. ToSet(rows') \subseteq Instances'
  BY <1>3, ToSetEmpty
<1>5. RowsInv'
  BY <1>1, <1>3, <1>4 DEF RowsInv
<1>6. StackInv'
  BY <1>1, <1>3 DEF StackInv
<1> QED
  BY <1>1, <1>2, <1>5, <1>6 DEF IInv

(* output_to_file on one path.                                             *)
LEMMA OutputPathInv == ASSUME IInv, NEW leaf, OutputPath(leaf) PROVE IInv'
<1> DEFINE new == FlattenSeq([k \in 1..Len(leaf) |-> RowsOf(SubSeq(leaf, 1, k))])
<1>1. /\ phase = "rows" /\ leaf \in Leaves
      /\ rows' = rows \o new /\ paths' = paths \cup {leaf}
      /\ UNCHANGED <<traceVars, phase, next, stack, track>>
  BY DEF OutputPath
<1>2. TraceInv /\ TraceInv' /\ origin' \in Nat /\ started' \in 0..MaxRecords /\ UNCHANGED metrics
  BY <1>1, SameTrace DEF IInv
<1>3. leaf \in Seq(Frame)
  BY <1>1, <1>2, ContextTypes DEF Leaves
<1>4. /\ new \in Seq(Row) /\ ToSet(new) \subseteq Instances
      /\ \A k \in 1..Len(leaf) : ToSet(RowsOf(SubSeq(leaf, 1, k))) \subseteq ToSet(new)
  BY <1>2, <1>3, PathRows
<1> HIDE DEF new
<1>5. /\ rows \in Seq(Row) /\ ToSet(rows) \subseteq Instances
      /\ next = 1 /\ stack = <<>> /\ track = <<>>
      /\ \A l \in paths : \A k \in 1..Len(l) :
            ToSet(RowsOf(SubSeq(l, 1, k))) \subseteq ToSet(rows)
  BY <1>1 DEF IInv, RowsInv
<1>6. rows' \in Seq(Row) /\ ToSet(rows') = ToSet(rows) \cup ToSet(new)
  BY <1>1, <1>4, <1>5, ToSetProperties
<1>7. Instances' = Instances
  BY <1>2, SameInstances
<1>8. \A c : RowsOf(c)' = RowsOf(c)
  BY <1>2 DEF RowsOf
<1>9. ASSUME NEW l \in paths', NEW k \in 1..Len(l)
      PROVE  ToSet(RowsOf(SubSeq(l, 1, k)))' \subseteq ToSet(rows')
  <2>1. ToSet(RowsOf(SubSeq(l, 1, k)))' = ToSet(RowsOf(SubSeq(l, 1, k)))
    BY <1>8 DEF ToSet
  <2>2. CASE l = leaf
    BY <1>4, <1>6, <2>1, <2>2
  <2>3. CASE l \in paths
    BY <1>5, <1>6, <2>1, <2>3
  <2> QED
    BY <1>1, <2>2, <2>3
<1>10. RowsInv'
  <2>1. ToSet(rows') \subseteq Instances'
    BY <1>4, <1>5, <1>6, <1>7
  <2>2. phase' = "rows" /\ next' = 1 /\ stack' = <<>> /\ track' = <<>>
    BY <1>1, <1>5
  <2> QED
    BY <1>6, <1>9, <2>1, <2>2 DEF RowsInv
<1>11. StackInv'
  <2>1. Len(rows') \in Nat
    BY <1>6
  <2> QED
    BY <1>1, <1>5, <2>1 DEF StackInv
<1> QED
  BY <1>1, <1>2, <1>10, <1>11 DEF IInv

(* The sort.                                                               *)
LEMMA SortRowsInv == ASSUME IInv, SortRows PROVE IInv'
<1>1. /\ phase = "rows" /\ Leaves = paths /\ rows' = Sorted(rows) /\ phase' = "write"
      /\ UNCHANGED <<traceVars, paths, next, stack, track>>
  BY DEF SortRows
<1>2. TraceInv /\ TraceInv' /\ origin' \in Nat /\ started' \in 0..MaxRecords /\ UNCHANGED metrics
  BY <1>1, SameTrace DEF IInv
<1>3. /\ rows \in Seq(Row) /\ ToSet(rows) \subseteq Instances
      /\ next = 1 /\ stack = <<>> /\ track = <<>>
      /\ \A l \in paths : \A k \in 1..Len(l) :
            ToSet(RowsOf(SubSeq(l, 1, k))) \subseteq ToSet(rows)
  BY <1>1 DEF IInv, RowsInv
<1>4. Instances \subseteq ToSet(rows)
  <2> SUFFICES ASSUME NEW c \in DOMAIN metrics PROVE ToSet(RowsOf(c)) \subseteq ToSet(rows)
    BY DEF Instances
  <2>1. PICK leaf \in Leaves : \E k \in 1..Len(leaf) : c = SubSeq(leaf, 1, k)
    BY <1>2, LeafAbove
  <2> QED
    BY <1>1, <1>3, <2>1
<1>5. ASSUME NEW i \in 1..Len(rows) PROVE rows[i].start \in Nat
  <2>1. rows[i] \in Row
    BY <1>3
  <2> QED
    BY <2>1 DEF Row
<1>6. /\ rows' \in Seq(Row) /\ Len(rows') = Len(rows)
      /\ \A k \in 1..Len(rows) : \E i \in 1..Len(rows) : rows'[k] = rows[i]
      /\ \A i \in 1..Len(rows) : \E k \in 1..Len(rows) : rows'[k] = rows[i]
      /\ \A k, l \in 1..Len(rows) : k < l => rows'[k].start <= rows'[l].start
  BY <1>1, <1>3, <1>5, SortedProperties
<1>7. ToSet(rows') = ToSet(rows)
  <2>1. /\ ToSet(rows') = {rows'[i] : i \in 1..Len(rows)}
        /\ ToSet(rows) = {rows[i] : i \in 1..Len(rows)}
    <3>1. ToSet(rows') = {rows'[i] : i \in 1..Len(rows')}
      BY <1>6, ToSetSeq
    <3>2. ToSet(rows) = {rows[i] : i \in 1..Len(rows)}
      BY <1>3, ToSetSeq
    <3> QED
      BY ONLY <1>6, <3>1, <3>2
  <2>2. ToSet(rows') \subseteq ToSet(rows)
    BY ONLY <1>6, <2>1
  <2>3. ToSet(rows) \subseteq ToSet(rows')
    BY ONLY <1>6, <2>1
  <2> QED
    BY ONLY <2>2, <2>3
<1>8. Instances' = Instances
  BY <1>2, SameInstances
<1>9. RowsInv'
  <2>1. ToSet(rows') = Instances'
    BY <1>3, <1>4, <1>7, <1>8
  <2> QED
    BY <1>1, <1>6, <2>1 DEF RowsInv
<1>10. StackInv'
  <2>1. Len(rows') \in Nat
    BY <1>6
  <2> QED
    BY <1>1, <1>3, <2>1 DEF StackInv
<1>11. next' = 1
  BY <1>1, <1>3
<1> QED
  BY <1>1, <1>2, <1>9, <1>10, <1>11 DEF IInv

-----------------------------------------------------------------------------
(* output_to_pftrace.                                                      *)

(* The rows of the loop.                                                   *)
LEMMA RowFacts ==
    ASSUME IInv, phase \in {"write", "done"}
    PROVE  /\ rows \in Seq(Row) /\ Len(rows) \in Nat
           /\ \A i \in 1..Len(rows) :
                 rows[i].start \in Nat /\ rows[i].end \in Nat /\ rows[i].start < rows[i].end
           /\ \A i, j \in 1..Len(rows) : i < j => rows[i].start <= rows[j].start
           /\ Instances = {rows[i] : i \in 1..Len(rows)}
<1>1. rows \in Seq(Row) /\ ToSet(rows) = Instances /\ TraceInv
  BY DEF IInv, RowsInv
<1>2. Len(rows) \in Nat
  BY <1>1
<1>3. \A i, j \in 1..Len(rows) : i < j => rows[i].start <= rows[j].start
  BY DEF IInv, RowsInv
<1>4. Instances = {rows[i] : i \in 1..Len(rows)}
  BY <1>1, ToSetSeq
<1>5. ASSUME NEW i \in 1..Len(rows)
      PROVE  rows[i].start \in Nat /\ rows[i].end \in Nat /\ rows[i].start < rows[i].end
  <2>1. rows[i] \in Instances
    BY <1>4
  <2>2. rows[i] \in Row /\ rows[i].start < rows[i].end
    BY <1>1, <2>1, InstanceTypes
  <2> QED
    BY <2>2 DEF Row
<1> QED
  BY <1>1, <1>2, <1>3, <1>4, <1>5

(* The stack and the track behind the first row.                           *)
LEMMA StackFacts ==
    ASSUME IInv, phase = "write", next > 1
    PROVE  /\ next \in 2..(Len(rows) + 1)
           /\ stack \in Seq(Nat) /\ stack # <<>> /\ Len(stack) \in Nat \ {0}
           /\ \A a \in 1..Len(stack) : stack[a] \in 1..(next - 1) /\ stack[a] \in 1..Len(rows)
           /\ Top = stack[Len(stack)] /\ Top \in 1..(next - 1) /\ Top \in 1..Len(rows)
           /\ track \in Seq(Event) /\ Len(track) \in Nat \ {0}
           /\ Now = track[Len(track)].at /\ Now \in Nat
           /\ track[Len(track)].op = "open" /\ track[Len(track)].row = Top
<1>1. /\ stack \in Seq(Nat) /\ track \in Seq(Event) /\ stack # <<>> /\ track # <<>>
      /\ next \in 1..(Len(rows) + 1) /\ \A a \in 1..Len(stack) : stack[a] \in 1..(next - 1)
      /\ Last(track).op = "open" /\ Last(track).row = Top
  BY DEF IInv, StackInv
<1>2. Len(rows) \in Nat
  BY RowFacts
<1>3. next \in 2..(Len(rows) + 1)
  BY <1>1, <1>2
<1>4. Len(stack) \in Nat \ {0} /\ Last(stack) = stack[Len(stack)]
  BY <1>1, FrontLast
<1>5. \A a \in 1..Len(stack) : stack[a] \in 1..Len(rows)
  BY <1>1, <1>2, <1>3
<1>6. Len(track) \in Nat \ {0} /\ Last(track) = track[Len(track)] /\ Last(track) \in Event
  BY <1>1, FrontLast
<1>7. Len(stack) \in 1..Len(stack)
  BY <1>4
<1>8. Top = stack[Len(stack)] /\ Top \in 1..(next - 1) /\ Top \in 1..Len(rows)
  BY <1>1, <1>4, <1>5, <1>7 DEF Top
<1>9. Now = track[Len(track)].at /\ Now \in Nat
  BY <1>6 DEF Now, Event
<1> QED
  BY <1>1, <1>3, <1>4, <1>5, <1>6, <1>8, <1>9

(* Before the next row starts and while the top of the stack lasts, the    *)
(* top is the innermost instance.                                          *)
LEMMA TopIsInnermost ==
    ASSUME IInv, phase = "write", next > 1, LoopInv,
           NEW t \in Nat, Now <= t, t < rows[Top].end,
           next <= Len(rows) => t < rows[next].start
    PROVE  Innermost(t) = {rows[Top]}
<1>1. /\ rows \in Seq(Row) /\ Len(rows) \in Nat
      /\ \A i \in 1..Len(rows) :
            rows[i].start \in Nat /\ rows[i].end \in Nat /\ rows[i].start < rows[i].end
      /\ \A i, j \in 1..Len(rows) : i < j => rows[i].start <= rows[j].start
      /\ Instances = {rows[i] : i \in 1..Len(rows)}
  BY RowFacts
<1>2. /\ next \in 2..(Len(rows) + 1) /\ Len(stack) \in Nat \ {0}
      /\ \A a \in 1..Len(stack) : stack[a] \in 1..(next - 1) /\ stack[a] \in 1..Len(rows)
      /\ Top = stack[Len(stack)] /\ Top \in 1..(next - 1) /\ Top \in 1..Len(rows)
      /\ Now \in Nat
  BY StackFacts
<1>3. rows[Top] \in Instances /\ rows[Top].start <= t
  BY <1>1, <1>2 DEF LoopInv
<1>4. rows[Top] \in Covering(t)
  BY <1>3 DEF Covering
<1>5. ASSUME NEW x \in Covering(t) PROVE x = rows[Top] \/ x.start < rows[Top].start
  <2>1. PICK i \in 1..Len(rows) : x = rows[i]
    BY <1>1 DEF Covering
  <2>2. rows[i].start <= t /\ t < rows[i].end
    BY <2>1 DEF Covering
  <2>3. i \in 1..(next - 1)
    <3> SUFFICES ASSUME i >= next PROVE FALSE
      BY <1>2
    <3>1. next \in 1..Len(rows) /\ t < rows[next].start
      BY <1>1, <1>2
    <3>2. rows[next].start <= rows[i].start
      BY <1>1, <3>1
    <3> QED
      BY <1>1, <2>2, <3>1, <3>2
  <2>4. PICK a \in 1..Len(stack) : stack[a] = i
    <3>1. ~(rows[i].end <= Now)
      BY <1>1, <1>2, <2>2
    <3> QED
      BY <2>3, <3>1 DEF LoopInv
  <2>5. CASE a = Len(stack)
    BY <1>2, <2>1, <2>4, <2>5
  <2>6. CASE a # Len(stack)
    <3>1. a < Len(stack) /\ Len(stack) \in 1..Len(stack)
      BY <1>2, <2>6
    <3>2. rows[stack[a]].start < rows[stack[Len(stack)]].start
      BY <3>1 DEF LoopInv
    <3> QED
      BY <1>2, <2>1, <2>4, <3>2
  <2> QED
    BY <2>5, <2>6
<1>6. rows[Top].start \in Nat /\ \A x \in Covering(t) : x.start \in Nat
  <2>1. ASSUME NEW x \in Covering(t) PROVE x.start \in Nat
    BY <1>1 DEF Covering
  <2> QED
    BY <1>1, <1>2, <2>1
<1>7. \A x \in Covering(t) : x.start <= rows[Top].start
  BY <1>5, <1>6
<1>8. rows[Top] \in Innermost(t)
  BY <1>4, <1>7 DEF Innermost
<1>9. ASSUME NEW x \in Innermost(t) PROVE x = rows[Top]
  <2>1. x \in Covering(t) /\ rows[Top].start <= x.start
    BY <1>4 DEF Innermost
  <2> QED
    BY <1>5, <1>6, <2>1
<1> QED
  BY <1>8, <1>9

(* When the lowest row has ended and no other has started, nothing runs.   *)
LEMMA NothingRuns ==
    ASSUME IInv, phase = "write", next > 1, LoopInv, Len(stack) = 1,
           NEW t \in Nat, rows[Top].end <= t,
           next <= Len(rows) => t < rows[next].start
    PROVE  Innermost(t) = {}
<1>1. /\ rows \in Seq(Row) /\ Len(rows) \in Nat
      /\ \A i \in 1..Len(rows) :
            rows[i].start \in Nat /\ rows[i].end \in Nat /\ rows[i].start < rows[i].end
      /\ \A i, j \in 1..Len(rows) : i < j => rows[i].start <= rows[j].start
      /\ Instances = {rows[i] : i \in 1..Len(rows)}
  BY RowFacts
<1>2. /\ next \in 2..(Len(rows) + 1)
      /\ Top = stack[1] /\ Top \in 1..Len(rows) /\ Now \in Nat
  BY StackFacts
<1>3. ASSUME NEW x \in Covering(t) PROVE FALSE
  <2>1. PICK i \in 1..Len(rows) : x = rows[i]
    BY <1>1 DEF Covering
  <2>2. rows[i].start <= t /\ t < rows[i].end
    BY <2>1 DEF Covering
  <2>3. i \in 1..(next - 1)
    <3> SUFFICES ASSUME i >= next PROVE FALSE
      BY <1>2
    <3>1. next \in 1..Len(rows) /\ t < rows[next].start
      BY <1>1, <1>2
    <3>2. rows[next].start <= rows[i].start
      BY <1>1, <3>1
    <3> QED
      BY <1>1, <2>2, <3>1, <3>2
  <2>4. i # Top
    BY <1>1, <1>2, <2>2
  <2>5. ~ \E a \in 1..Len(stack) : stack[a] = i
    BY <1>2, <2>4
  <2>6. rows[i].end <= Now
    BY <2>3, <2>5 DEF LoopInv
  <2>7. Now < rows[Top].end
    BY DEF LoopInv
  <2> QED
    BY <1>1, <1>2, <2>2, <2>6, <2>7
<1> QED
  BY <1>3 DEF Innermost

(* tr ends with an open slice, which new closes at c.                      *)
ClosedAt(tr, new, n, c) ==
    /\ n \in Nat \ {0} /\ c \in Nat /\ tr[n].op = "open"
    /\ \A i \in 1..n : tr[i].at \in Nat /\ tr[i].at <= tr[n].at
    /\ \A i \in 1..n : new[i] = tr[i]
    /\ new[n + 1].op = "close" /\ new[n + 1].at = c

(* What closing a slice adds to what is shown.                             *)
LEMMA SliceShown ==
    ASSUME NEW rs, NEW tr, NEW new, NEW n, NEW c, ClosedAt(tr, new, n, c), NEW t \in Nat
    PROVE  ShownIn(new, rs, n + 1, t) = IF t < tr[n].at THEN ShownIn(tr, rs, n - 1, t)
                                        ELSE IF t < c THEN {rs[tr[n].row]} ELSE {}
<1> USE DEF ClosedAt
<1> DEFINE K == {k \in 1..(n + 1) : new[k].op = "open" /\ new[k].at <= t /\ t < new[k + 1].at}
           L == {k \in 1..(n - 1) : tr[k].op = "open" /\ tr[k].at <= t /\ t < tr[k + 1].at}
<1>1. /\ ShownIn(new, rs, n + 1, t) = {rs[new[k].row] : k \in K}
      /\ ShownIn(tr, rs, n - 1, t) = {rs[tr[k].row] : k \in L}
  BY DEF ShownIn
<1>2. /\ n \in 1..n /\ n \in 1..(n + 1) /\ tr[n].at \in Nat
      /\ \A k \in 1..(n - 1) : k \in 1..n /\ k + 1 \in 1..n /\ k \in 1..(n + 1) /\ k # n
      /\ \A k \in 1..(n + 1) : k = n + 1 \/ k = n \/ k \in 1..(n - 1)
  OBVIOUS
<1>3. n + 1 \notin K
  OBVIOUS
<1>4. n \in K <=> (tr[n].at <= t /\ t < c)
  BY <1>2
<1>5. \A k \in 1..(n - 1) : k \in K <=> k \in L
  <2> SUFFICES ASSUME NEW k \in 1..(n - 1) PROVE k \in K <=> k \in L
    OBVIOUS
  <2>1. new[k] = tr[k] /\ new[k + 1] = tr[k + 1]
    BY <1>2
  <2> QED
    BY <1>2, <2>1
<1>6. \A k \in L : t < tr[n].at
  <2> SUFFICES ASSUME NEW k \in L PROVE t < tr[n].at
    OBVIOUS
  <2>1. k \in 1..(n - 1) /\ t < tr[k + 1].at
    OBVIOUS
  <2>2. tr[k + 1].at \in Nat /\ tr[k + 1].at <= tr[n].at
    BY <1>2, <2>1
  <2> QED
    BY <1>2, <2>1, <2>2
<1>7. K \subseteq 1..(n + 1) /\ L \subseteq 1..(n - 1)
  OBVIOUS
<1> HIDE DEF K, L
<1>8. \A k \in K : k = n \/ k \in L
  BY <1>2, <1>3, <1>5, <1>7
<1>9. L \subseteq K
  BY <1>5, <1>7
<1>10. CASE t < tr[n].at
  <2>1. n \notin K
    BY <1>2, <1>4, <1>10
  <2>2. K = L
    BY <1>8, <1>9, <2>1
  <2>3. \A k \in L : new[k] = tr[k]
    BY <1>2, <1>7
  <2>4. {rs[new[k].row] : k \in L} = {rs[tr[k].row] : k \in L}
    BY <2>3
  <2> QED
    BY <1>1, <1>10, <2>2, <2>4
<1>11. CASE ~(t < tr[n].at) /\ t < c
  <2>1. n \in K /\ L = {}
    BY <1>2, <1>4, <1>6, <1>11
  <2>2. K = {n}
    BY <1>8, <2>1
  <2>3. new[n] = tr[n]
    BY <1>2
  <2> QED
    BY <1>1, <1>11, <2>2, <2>3
<1>12. CASE ~(t < tr[n].at) /\ ~(t < c)
  <2>1. n \notin K /\ L = {}
    BY <1>2, <1>4, <1>6, <1>12
  <2>2. K = {}
    BY <1>8, <2>1
  <2> QED
    BY <1>1, <1>12, <2>2
<1> QED
  BY <1>10, <1>11, <1>12

(* In a track that goes forward no event is later than the last.           *)
LEMMA ForwardLast ==
    ASSUME NEW tr \in Seq(Event), tr # <<>>, Forward(tr)
    PROVE  \A i \in 1..Len(tr) : tr[i].at \in Nat /\ tr[i].at <= tr[Len(tr)].at
<1>1. Len(tr) \in Nat \ {0} /\ Len(tr) \in 1..Len(tr)
  OBVIOUS
<1>2. ASSUME NEW i \in 1..Len(tr) PROVE tr[i].at \in Nat
  <2>1. tr[i] \in Event
    OBVIOUS
  <2> QED
    BY <2>1 DEF Event
<1>3. ASSUME NEW i \in 1..Len(tr) PROVE tr[i].at <= tr[Len(tr)].at
  <2>1. CASE i = Len(tr)
    BY <1>2, <2>1
  <2>2. CASE i # Len(tr)
    <3>1. i < Len(tr)
      BY <1>1, <2>2
    <3> QED
      BY <1>1, <3>1 DEF Forward
  <2> QED
    BY <2>1, <2>2
<1> QED
  BY <1>2, <1>3

(* The slice that is open in tr can be closed at c.                        *)
CanClose(tr, n, c) ==
    /\ tr \in Seq(Event) /\ n = Len(tr) /\ n # 0 /\ tr[n].op = "open"
    /\ Forward(tr) /\ c \in Nat /\ tr[n].at <= c

(* new is tr with that slice closed at c and row r opened at o.            *)
Adds(tr, new, n, c, o, r) ==
    /\ CanClose(tr, n, c) /\ o \in Nat /\ r \in Nat /\ c <= o
    /\ new = tr \o <<Close(c), Open(o, r)>>

(* Then the track goes on forward, and shows one slice more.               *)
LEMMA SliceAdded ==
    ASSUME NEW rs, NEW tr, NEW new, NEW n, NEW c, NEW o, NEW r, Adds(tr, new, n, c, o, r)
    PROVE  /\ new \in Seq(Event) /\ Len(new) = n + 2 /\ new[n + 2] = Open(o, r)
           /\ Forward(new)
           /\ \A t \in Nat :
                 ShownIn(new, rs, n + 1, t) = IF t < tr[n].at THEN ShownIn(tr, rs, n - 1, t)
                                              ELSE IF t < c THEN {rs[tr[n].row]} ELSE {}
<1> USE DEF Adds, CanClose
<1>1. n \in Nat \ {0} /\ tr # <<>>
  OBVIOUS
<1>2. /\ Close(c) \in Event /\ Close(c).at = c /\ Close(c).op = "close"
      /\ Open(o, r) \in Event /\ Open(o, r).at = o
  BY DEF Close, Open, Event
<1> DEFINE e == <<Close(c), Open(o, r)>>
<1>3. e \in Seq(Event) /\ Len(e) = 2 /\ e[1] = Close(c) /\ e[2] = Open(o, r)
  BY <1>2
<1>4. new = tr \o e
  OBVIOUS
<1> HIDE DEF e
<1>5. /\ new \in Seq(Event) /\ Len(new) = n + 2
      /\ \A i \in 1..n : new[i] = tr[i]
      /\ new[n + 1] = Close(c) /\ new[n + 2] = Open(o, r)
  <2>1. /\ tr \o e \in Seq(Event) /\ Len(tr \o e) = Len(tr) + Len(e)
        /\ \A i \in 1..(Len(tr) + Len(e)) :
              (tr \o e)[i] = IF i <= Len(tr) THEN tr[i] ELSE e[i - Len(tr)]
    BY <1>3, ConcatProperties
  <2>2. Len(tr) = n /\ Len(tr) + Len(e) = n + 2 /\ n + 1 - n = 1 /\ n + 2 - n = 2
    BY <1>1, <1>3
  <2>3. \A i \in 1..(n + 2) : new[i] = IF i <= n THEN tr[i] ELSE e[i - n]
    BY <1>4, <2>1, <2>2
  <2>4. new[n + 1] = e[1] /\ new[n + 2] = e[2]
    BY <1>1, <2>2, <2>3
  <2>5. \A i \in 1..n : new[i] = tr[i]
    BY <1>1, <2>3
  <2> QED
    BY <1>3, <1>4, <2>1, <2>2, <2>4, <2>5
<1>6. \A i \in 1..n : tr[i].at \in Nat /\ tr[i].at <= tr[n].at
  BY <1>1, ForwardLast
<1>7. Forward(new)
  <2> SUFFICES ASSUME NEW i \in 1..(n + 2), NEW j \in 1..(n + 2), i < j
               PROVE  new[i].at <= new[j].at
    BY <1>5 DEF Forward
  <2>1. CASE i \in 1..n /\ j \in 1..n
    BY <1>5, <2>1 DEF Forward
  <2>2. CASE i \in 1..n /\ j \in {n + 1, n + 2}
    BY <1>1, <1>2, <1>5, <1>6, <2>2
  <2>3. CASE i = n + 1 /\ j = n + 2
    BY <1>2, <1>5, <2>3
  <2> QED
    BY <1>1, <2>1, <2>2, <2>3
<1>8. ASSUME NEW t \in Nat
      PROVE  ShownIn(new, rs, n + 1, t) = IF t < tr[n].at THEN ShownIn(tr, rs, n - 1, t)
                                          ELSE IF t < c THEN {rs[tr[n].row]} ELSE {}
  <2>1. ClosedAt(tr, new, n, c)
    BY <1>1, <1>2, <1>5, <1>6 DEF ClosedAt
  <2>2. t \in Nat
    OBVIOUS
  <2> QED
    BY ONLY <2>1, <2>2, SliceShown
<1> QED
  BY <1>5, <1>7, <1>8

(* The same when the slice is closed at c and no other is opened.          *)
LEMMA SliceClosed ==
    ASSUME NEW rs, NEW tr, NEW n, NEW c, CanClose(tr, n, c),
           NEW new, new = Append(tr, Close(c))
    PROVE  /\ new \in Seq(Event) /\ Len(new) = n + 1 /\ Forward(new)
           /\ \A t \in Nat :
                 ShownIn(new, rs, n + 1, t) = IF t < tr[n].at THEN ShownIn(tr, rs, n - 1, t)
                                              ELSE IF t < c THEN {rs[tr[n].row]} ELSE {}
<1> USE DEF CanClose
<1>1. n \in Nat \ {0} /\ tr # <<>>
  OBVIOUS
<1>2. /\ Close(c) \in Event /\ Close(c).at = c /\ Close(c).op = "close"
  BY DEF Close, Event
<1>3. /\ new \in Seq(Event) /\ Len(new) = n + 1
      /\ \A i \in 1..n : new[i] = tr[i]
      /\ new[n + 1] = Close(c)
  BY <1>1, <1>2
<1>4. \A i \in 1..n : tr[i].at \in Nat /\ tr[i].at <= tr[n].at
  BY <1>1, ForwardLast
<1>5. Forward(new)
  <2> SUFFICES ASSUME NEW i \in 1..(n + 1), NEW j \in 1..(n + 1), i < j
               PROVE  new[i].at <= new[j].at
    BY <1>3 DEF Forward
  <2>1. CASE j \in 1..n
    BY <1>1, <1>3, <2>1 DEF Forward
  <2>2. CASE j = n + 1
    <3>1. i \in 1..n
      BY <1>1, <2>2
    <3> QED
      BY <1>1, <1>2, <1>3, <1>4, <2>2, <3>1
  <2> QED
    BY <1>1, <2>1, <2>2
<1>6. ASSUME NEW t \in Nat
      PROVE  ShownIn(new, rs, n + 1, t) = IF t < tr[n].at THEN ShownIn(tr, rs, n - 1, t)
                                          ELSE IF t < c THEN {rs[tr[n].row]} ELSE {}
  <2>1. ClosedAt(tr, new, n, c)
    BY <1>1, <1>2, <1>3, <1>4 DEF ClosedAt
  <2>2. t \in Nat
    OBVIOUS
  <2> QED
    BY ONLY <2>1, <2>2, SliceShown
<1> QED
  BY <1>3, <1>5, <1>6

(* Closing the top of the stack at c and opening row r at o leaves the     *)
(* track right up to o, when the top was the innermost row up to c and     *)
(* nothing runs from there to o.                                           *)
LEMMA TrackStep ==
    ASSUME IInv, phase = "write", next > 1, RowsNest, UNCHANGED <<metrics, rows>>,
           NEW c \in Nat, NEW o \in Nat, NEW r \in Nat, Now <= c, c <= o,
           track' = track \o <<Close(c), Open(o, r)>>,
           c <= rows[Top].end, next <= Len(rows) => o <= rows[next].start,
           c = o \/ (Len(stack) = 1 /\ rows[Top].end = c)
    PROVE  /\ track' \in Seq(Event) /\ track' # <<>> /\ Forward(track')
           /\ Last(track').op = "open" /\ Last(track').row = r /\ Now' = o
           /\ \A t \in Nat : t < o => ShownIn(track', rows', Len(track') - 1, t) = Innermost(t)'
<1>1. LoopInv
  BY DEF IInv
<1>2. /\ track \in Seq(Event) /\ Len(track) \in Nat \ {0}
      /\ Now = track[Len(track)].at /\ Now \in Nat
      /\ track[Len(track)].op = "open" /\ track[Len(track)].row = Top
      /\ Top \in 1..Len(rows) /\ next \in 2..(Len(rows) + 1)
  BY StackFacts
<1>3. /\ Len(rows) \in Nat
      /\ \A i \in 1..Len(rows) : rows[i].start \in Nat /\ rows[i].end \in Nat
  BY RowFacts
<1>4. Forward(track)
  BY <1>1 DEF LoopInv
<1> DEFINE n == Len(track)
<1>5. /\ track' \in Seq(Event) /\ Len(track') = n + 2 /\ track'[n + 2] = Open(o, r)
      /\ Forward(track')
      /\ \A t \in Nat :
            ShownIn(track', rows, n + 1, t) =
                IF t < track[n].at THEN ShownIn(track, rows, n - 1, t)
                ELSE IF t < c THEN {rows[track[n].row]} ELSE {}
  <2>1. CanClose(track, n, c)
    BY <1>2, <1>4 DEF CanClose
  <2>2. Adds(track, track', n, c, o, r)
    BY <2>1 DEF Adds
  <2> HIDE DEF n
  <2> QED
    BY ONLY <2>2, SliceAdded
<1>6. Last(track') = Open(o, r) /\ track' # <<>>
  <2>1. Len(track') # 0
    BY <1>2, <1>5
  <2>2. track' # <<>>
    BY <1>5, <2>1
  <2> QED
    BY <1>5, <2>2 DEF Last
<1>7. Last(track').op = "open" /\ Last(track').row = r /\ Now' = o
  BY <1>6 DEF Open, Now
<1>8. ASSUME NEW t \in Nat, t < o
      PROVE  ShownIn(track', rows', Len(track') - 1, t) = Innermost(t)'
  <2>1. Innermost(t)' = Innermost(t)
    BY SameInstances
  <2>2. Len(track') - 1 = n + 1 /\ rows' = rows
    BY <1>2, <1>5
  <2>3. ShownIn(track', rows, n + 1, t) =
            IF t < Now THEN ShownIn(track, rows, n - 1, t)
            ELSE IF t < c THEN {rows[Top]} ELSE {}
    BY <1>2, <1>5
  <2>4. next <= Len(rows) => t < rows[next].start
    <3> SUFFICES ASSUME next <= Len(rows) PROVE t < rows[next].start
      OBVIOUS
    <3>1. rows[next].start \in Nat /\ o <= rows[next].start
      BY <1>2, <1>3
    <3> QED
      BY <1>8, <3>1
  <2>5. rows[Top].end \in Nat
    BY <1>2, <1>3
  <2>6. CASE t < Now
    BY <1>1, <2>1, <2>2, <2>3, <2>6 DEF LoopInv
  <2>7. CASE ~(t < Now) /\ t < c
    <3>1. Now <= t /\ t < rows[Top].end
      <4>1. Now \in Nat /\ t \in Nat /\ c \in Nat /\ c <= rows[Top].end
        BY <1>2
      <4> QED
        BY ONLY <2>5, <2>7, <4>1
    <3>2. Innermost(t) = {rows[Top]}
      BY <1>1, <2>4, <3>1, TopIsInnermost
    <3> QED
      BY <2>1, <2>2, <2>3, <2>7, <3>2
  <2>8. CASE ~(t < Now) /\ ~(t < c)
    <3>1. Len(stack) = 1 /\ rows[Top].end <= t
      BY <1>8, <2>5, <2>8
    <3>2. Innermost(t) = {}
      BY <1>1, <2>4, <3>1, NothingRuns
    <3> QED
      BY <2>1, <2>2, <2>3, <2>8, <3>2
  <2> QED
    BY <2>6, <2>7, <2>8
<1> QED
  BY <1>5, <1>6, <1>7, <1>8

(* A step of the loop.                                                     *)
LEMMA WriteStep ==
    ASSUME IInv, phase = "write", phase' = "write", StackInv', next' > 1,
           UNCHANGED <<traceVars, paths, rows>>, RowsNest => LoopInv'
    PROVE  IInv'
<1>1. TraceInv' /\ origin' \in Nat /\ started' \in 0..MaxRecords /\ UNCHANGED metrics
  BY SameTrace
<1>2. Instances' = Instances
  BY <1>1, SameInstances
<1>3. RowsInv'
  BY <1>2 DEF IInv, RowsInv
<1>4. RowsNest' = RowsNest
  BY DEF RowsNest
<1> QED
  BY <1>1, <1>3, <1>4 DEF IInv

(* A later row that starts before an earlier one ends lies inside it.      *)
LEMMA StartsInside ==
    ASSUME IInv, phase = "write", RowsNest,
           NEW i \in 1..Len(rows), NEW j \in 1..Len(rows), i < j, rows[j].start < rows[i].end
    PROVE  rows[i].start < rows[j].start /\ rows[j].end < rows[i].end
<1>1. /\ \A k \in 1..Len(rows) :
            rows[k].start \in Nat /\ rows[k].end \in Nat /\ rows[k].start < rows[k].end
      /\ rows[i].start <= rows[j].start
      /\ DOMAIN rows = 1..Len(rows)
  BY RowFacts
<1>2. \/ rows[i].end <= rows[j].start \/ rows[j].end <= rows[i].start
      \/ rows[i].start < rows[j].start /\ rows[j].end < rows[i].end
      \/ rows[j].start < rows[i].start /\ rows[i].end < rows[j].end
  BY <1>1 DEF RowsNest
<1>3. /\ rows[i].start \in Nat /\ rows[i].end \in Nat /\ rows[i].start < rows[i].end
      /\ rows[j].start \in Nat /\ rows[j].end \in Nat /\ rows[j].start < rows[j].end
  BY <1>1
<1> QED
  BY <1>1, <1>2, <1>3

(* new is tr with a close event and an open event after it.                *)
TwoMore(tr, new, c, o, r) ==
    /\ tr \in Seq(Event) /\ c \in Nat /\ o \in Nat /\ r \in Nat
    /\ new = tr \o <<Close(c), Open(o, r)>>

(* The types of the new events, whether the rows nest or not.              *)
LEMMA TrackTypes ==
    ASSUME NEW tr, NEW new, NEW c, NEW o, NEW r, TwoMore(tr, new, c, o, r)
    PROVE  new \in Seq(Event) /\ new # <<>> /\ Last(new) = Open(o, r)
<1> USE DEF TwoMore
<1>1. Close(c) \in Event /\ Open(o, r) \in Event
  BY DEF Close, Open, Event
<1> DEFINE e == <<Close(c), Open(o, r)>>
<1>2. e \in Seq(Event) /\ Len(e) = 2 /\ e[2] = Open(o, r)
  BY <1>1
<1>3. new = tr \o e /\ Len(tr) \in Nat
  OBVIOUS
<1> HIDE DEF e
<1>4. /\ new \in Seq(Event) /\ Len(new) = Len(tr) + Len(e)
      /\ \A i \in 1..(Len(tr) + Len(e)) : new[i] = IF i <= Len(tr) THEN tr[i] ELSE e[i - Len(tr)]
  <2>1. tr \in Seq(Event) /\ e \in Seq(Event) /\ new = tr \o e
    BY <1>2, <1>3
  <2> QED
    BY ONLY <2>1, ConcatProperties
<1>5. Len(new) = Len(tr) + 2 /\ Len(new) # 0
  BY <1>2, <1>3, <1>4
<1>6. new[Len(new)] = e[2]
  <2>1. /\ Len(new) \in 1..(Len(tr) + Len(e)) /\ ~(Len(new) <= Len(tr))
        /\ Len(new) - Len(tr) = 2
    BY <1>2, <1>3, <1>5
  <2> QED
    BY <1>4, <2>1
<1>7. new # <<>>
  BY <1>4, <1>5
<1> QED
  BY <1>2, <1>4, <1>6, <1>7 DEF Last

(* The row on the top of the stack has ended and the one below continues.  *)
LEMMA PopStep ==
    ASSUME IInv, phase = "write", next > 1, Len(stack) > 1,
           next <= Len(rows) => rows[Top].end <= rows[next].start,
           stack' = Front(stack),
           track' = track \o <<Close(rows[Top].end), Open(rows[Top].end, Last(Front(stack)))>>,
           UNCHANGED <<traceVars, phase, paths, rows, next>>
    PROVE  IInv'
<1>1. /\ rows \in Seq(Row) /\ Len(rows) \in Nat
      /\ \A i \in 1..Len(rows) : rows[i].start \in Nat /\ rows[i].end \in Nat
  BY RowFacts
<1>2. /\ next \in 2..(Len(rows) + 1)
      /\ stack \in Seq(Nat) /\ stack # <<>> /\ Len(stack) \in Nat \ {0}
      /\ \A a \in 1..Len(stack) : stack[a] \in 1..(next - 1) /\ stack[a] \in 1..Len(rows)
      /\ Top = stack[Len(stack)] /\ Top \in 1..(next - 1) /\ Top \in 1..Len(rows)
      /\ track \in Seq(Event) /\ Now \in Nat
  BY StackFacts
<1> DEFINE n == Len(stack) - 1
           c == rows[Top].end
<1>3. /\ stack' \in Seq(Nat) /\ Len(stack') = n /\ \A a \in 1..n : stack'[a] = stack[a]
  BY <1>2, FrontLast
<1>4. /\ n \in 1..n /\ n \in 1..Len(stack) /\ n < Len(stack) /\ c \in Nat
      /\ \A a \in 1..n : a \in 1..Len(stack)
      /\ \A a \in 1..Len(stack) : a = Len(stack) \/ a \in 1..n
  <2>1. c \in Nat
    BY <1>1, <1>2
  <2>2. n \in Nat \ {0} /\ Len(stack) = n + 1
    BY <1>2
  <2> HIDE DEF n
  <2> QED
    BY <2>1, <2>2
<1> HIDE DEF n, c
<1>5. stack' # <<>> /\ Last(stack') = stack[n] /\ stack[n] \in Nat
  <2>1. stack' # <<>>
    BY <1>3, <1>4
  <2>2. Last(stack') = stack'[Len(stack')]
    BY <1>3, <2>1, FrontLast
  <2>3. stack'[n] = stack[n]
    BY <1>3, <1>4
  <2>4. stack[n] \in Nat
    BY ONLY <1>2, <1>4
  <2> QED
    BY ONLY <1>3, <2>1, <2>2, <2>3, <2>4
<1>6. Top' = stack[n] /\ track' = track \o <<Close(c), Open(c, stack[n])>>
  BY <1>5 DEF Top, c
<1>7. /\ track' \in Seq(Event) /\ track' # <<>> /\ Last(track') = Open(c, stack[n])
  <2>1. TwoMore(track, track', c, c, stack[n])
    BY <1>2, <1>4, <1>5, <1>6 DEF TwoMore
  <2> QED
    BY ONLY <2>1, TrackTypes
<1>8. Last(track').op = "open" /\ Last(track').row = Top'
  BY <1>6, <1>7 DEF Open
<1>9. StackInv'
  <2>1. ASSUME NEW a \in 1..Len(stack') PROVE stack'[a] \in 1..(next' - 1)
    <3>1. a \in 1..n /\ a \in 1..Len(stack) /\ next' = next
      BY <1>3, <1>4
    <3> QED
      BY ONLY <1>2, <1>3, <3>1
  <2>2. next' \in 1..(Len(rows') + 1)
    BY DEF IInv, StackInv
  <2>3. ~(next' = 1)
    BY <1>2
  <2> QED
    BY ONLY <1>3, <1>5, <1>7, <1>8, <2>1, <2>2, <2>3 DEF StackInv
<1>10. ASSUME RowsNest PROVE LoopInv'
  <2>1. LoopInv
    BY <1>10 DEF IInv
  <2>2. Now <= c /\ c <= rows[Top].end /\ c \in Nat
    <3>1. Now < c /\ c = rows[Top].end
      BY <2>1 DEF LoopInv, c
    <3>2. Now \in Nat /\ c \in Nat
      BY <1>2, <1>4
    <3> QED
      BY ONLY <3>1, <3>2
  <2>3. next <= Len(rows) => c <= rows[next].start
    BY DEF c
  <2>4. stack[n] \in Nat /\ c <= c /\ UNCHANGED <<metrics, rows>>
    BY <1>4, <1>5 DEF traceVars
  <2>5. /\ Forward(track') /\ Now' = c
        /\ \A t \in Nat : t < c => ShownIn(track', rows', Len(track') - 1, t) = Innermost(t)'
    BY <1>6, <1>10, <2>2, <2>3, <2>4, TrackStep
  <2>6. ASSUME NEW a \in 1..Len(stack'), NEW b \in 1..Len(stack'), a < b
        PROVE  /\ rows[stack'[a]].start < rows[stack'[b]].start
               /\ rows[stack'[b]].end < rows[stack'[a]].end
    <3>1. a \in 1..Len(stack) /\ b \in 1..Len(stack) /\ stack'[a] = stack[a] /\ stack'[b] = stack[b]
      BY <1>3, <1>4
    <3> QED
      BY <2>1, <2>6, <3>1 DEF LoopInv
  <2>7. ASSUME NEW i \in 1..(next - 1)
        PROVE  (\E a \in 1..Len(stack') : stack'[a] = i) \/ rows[i].end <= c
    <3>1. CASE rows[i].end <= Now
      <4>1. rows[i].end \in Nat
        <5>1. i \in 1..Len(rows)
          BY ONLY <1>1, <1>2, i \in 1..(next - 1)
        <5> QED
          BY ONLY <1>1, <5>1
      <4>2. Now \in Nat
        BY <1>2
      <4>3. rows[i].end <= c
        BY ONLY <2>2, <3>1, <4>1, <4>2
      <4> QED
        BY <4>3
    <3>2. CASE \E a \in 1..Len(stack) : stack[a] = i
      <4>1. PICK a \in 1..Len(stack) : stack[a] = i
        BY <3>2
      <4>2. CASE a = Len(stack)
        <5>1. rows[i].end = c
          BY <1>2, <1>4, <4>1, <4>2 DEF c
        <5> QED
          BY ONLY <1>2, <2>2, <5>1
      <4>3. CASE a # Len(stack)
        <5>1. a \in 1..n
          BY <1>4, <4>3
        <5> QED
          BY <1>3, <4>1, <5>1
      <4> QED
        BY <4>2, <4>3
    <3> QED
      BY <2>1, <3>1, <3>2 DEF LoopInv
  <2>8. rows[Top'].start <= c /\ c < rows[Top'].end
    <3>1. Len(stack) \in 1..Len(stack)
      BY <1>2
    <3>2. rows[stack[n]].start < rows[Top].start /\ c < rows[stack[n]].end
      BY <1>2, <1>4, <2>1, <3>1 DEF LoopInv, c
    <3>3. rows[Top].start <= Now
      BY <2>1 DEF LoopInv
    <3>4. rows[stack[n]].start \in Nat /\ rows[Top].start \in Nat
      BY <1>1, <1>2, <1>4
    <3>5. rows[stack[n]].start <= c
      <4>1. Now \in Nat
        BY <1>2
      <4>2. ASSUME NEW x \in Nat, NEW y \in Nat, NEW z \in Nat, x < y, y <= z, z <= c, c \in Nat
            PROVE  x <= c
        BY <4>2
      <4> QED
        BY ONLY <2>2, <3>2, <3>3, <3>4, <4>1, <4>2
    <3> QED
      BY <1>6, <3>2, <3>5
  <2> QED
    BY <2>3, <2>5, <2>6, <2>7, <2>8 DEF LoopInv
<1> QED
  BY <1>2, <1>9, <1>10, WriteStep

(* LeaveEnded preserves the invariant.                                     *)
LEMMA LeaveEndedInv == ASSUME IInv, LeaveEnded PROVE IInv'
<1>1. /\ phase = "write" /\ next > 1 /\ next <= Len(rows) /\ Len(stack) > 1
      /\ rows[Top].end < rows[next].start
      /\ stack' = Front(stack)
      /\ track' = track \o <<Close(rows[Top].end), Open(rows[Top].end, Last(Front(stack)))>>
      /\ UNCHANGED <<traceVars, phase, paths, rows, next>>
  BY DEF LeaveEnded, Writing
<1>2. /\ Len(rows) \in Nat
      /\ \A i \in 1..Len(rows) : rows[i].start \in Nat /\ rows[i].end \in Nat
  BY <1>1, RowFacts
<1>3. Top \in 1..Len(rows) /\ next \in 1..Len(rows)
  <2>1. next \in 2..(Len(rows) + 1) /\ Top \in 1..Len(rows)
    BY <1>1, StackFacts
  <2> QED
    BY <1>1, <1>2, <2>1
<1>4. rows[Top].end <= rows[next].start
  BY <1>1, <1>2, <1>3
<1> QED
  BY <1>1, <1>4, PopStep

(* Unwind preserves the invariant.                                         *)
LEMMA UnwindInv == ASSUME IInv, Unwind PROVE IInv'
<1>1. /\ phase = "write" /\ next > Len(rows) /\ Len(stack) > 1
      /\ stack' = Front(stack)
      /\ track' = track \o <<Close(rows[Top].end), Open(rows[Top].end, Last(Front(stack)))>>
      /\ UNCHANGED <<traceVars, phase, paths, rows, next>>
  BY DEF Unwind
<1>2. next \in Nat /\ Len(rows) \in Nat /\ ~(next <= Len(rows))
  <2>1. Len(rows) \in Nat /\ next \in 1..(Len(rows) + 1)
    BY <1>1, RowFacts DEF IInv, StackInv
  <2> QED
    BY <1>1, <2>1
<1>3. next > 1
  <2> SUFFICES ASSUME ~(next > 1) PROVE FALSE
    OBVIOUS
  <2>1. next \in 1..(Len(rows) + 1)
    BY DEF IInv, StackInv
  <2>2. next = 1
    BY <1>2, <2>1
  <2>3. stack = <<>>
    BY <1>1, <2>2 DEF IInv, StackInv
  <2> QED
    BY <1>1, <2>3
<1> QED
  BY <1>1, <1>2, <1>3, PopStep

(* The next row is put on the lowest m rows of the stack; those above have *)
(* ended at c when the rows nest.                                          *)
Pushes(m, c) ==
    /\ m \in 0..Len(stack) /\ c \in Nat
    /\ stack' \in Seq(Nat) /\ Len(stack') = m + 1 /\ stack'[m + 1] = next
    /\ \A a \in 1..m : stack'[a] = stack[a]
    /\ track' = track \o <<Close(c), Open(rows[next].start, next)>>
    /\ RowsNest =>
          /\ Now <= c /\ c <= rows[Top].end /\ c <= rows[next].start
          /\ c = rows[next].start \/ (Len(stack) = 1 /\ rows[Top].end = c)
          /\ \A a \in 1..m : rows[next].start < rows[stack[a]].end
          /\ \A a \in (m + 1)..Len(stack) : rows[stack[a]].end <= rows[next].start

(* The stack grows.                                                        *)
LEMMA PushStep ==
    ASSUME IInv, phase = "write", next > 1, next <= Len(rows), NEW m, NEW c, Pushes(m, c),
           next' = next + 1, UNCHANGED <<traceVars, phase, paths, rows>>
    PROVE  IInv'
<1>1. /\ rows \in Seq(Row) /\ Len(rows) \in Nat
      /\ \A i \in 1..Len(rows) :
            rows[i].start \in Nat /\ rows[i].end \in Nat /\ rows[i].start < rows[i].end
      /\ \A i, j \in 1..Len(rows) : i < j => rows[i].start <= rows[j].start
  BY RowFacts
<1>2. /\ next \in 2..(Len(rows) + 1)
      /\ stack \in Seq(Nat) /\ stack # <<>> /\ Len(stack) \in Nat \ {0}
      /\ \A a \in 1..Len(stack) : stack[a] \in 1..(next - 1) /\ stack[a] \in 1..Len(rows)
      /\ Top = stack[Len(stack)] /\ Top \in 1..(next - 1) /\ Top \in 1..Len(rows)
      /\ track \in Seq(Event) /\ Now \in Nat
  BY StackFacts
<1>3. /\ m \in Nat /\ m <= Len(stack) /\ c \in Nat
      /\ stack' \in Seq(Nat) /\ Len(stack') = m + 1 /\ stack'[m + 1] = next
      /\ \A a \in 1..m : stack'[a] = stack[a]
      /\ track' = track \o <<Close(c), Open(rows[next].start, next)>>
  BY <1>2 DEF Pushes
<1>4. /\ next \in Nat /\ next \in 1..Len(rows) /\ rows[next].start \in Nat
      /\ rows[next].end \in Nat /\ rows[next].start < rows[next].end
      /\ next' = next + 1 /\ next' \in 1..(Len(rows) + 1) /\ next' > 1 /\ next' - 1 = next
  <2>1. next \in 1..Len(rows)
    BY <1>1, <1>2
  <2> QED
    BY <1>1, <2>1
<1>5. /\ m + 1 \in 1..(m + 1) /\ m + 1 # 0
      /\ \A a \in 1..m : a \in 1..Len(stack)
      /\ \A a \in 1..(m + 1) : a = m + 1 \/ a \in 1..m
      /\ \A a \in 1..Len(stack) : a \in 1..m \/ a \in (m + 1)..Len(stack)
  <2>1. m \in Nat /\ Len(stack) \in Nat /\ m <= Len(stack)
    BY <1>2, <1>3
  <2> QED
    BY ONLY <2>1
<1>6. stack' # <<>> /\ Last(stack') = next
  <2>1. stack' # <<>>
    BY <1>3, <1>5
  <2>2. Last(stack') = stack'[Len(stack')]
    BY <1>3, <2>1, FrontLast
  <2> QED
    BY <1>3, <2>1, <2>2
<1>7. Top' = next
  BY <1>6 DEF Top
<1>8. /\ track' \in Seq(Event) /\ track' # <<>> /\ Last(track') = Open(rows[next].start, next)
  <2>1. TwoMore(track, track', c, rows[next].start, next)
    BY <1>2, <1>3, <1>4 DEF TwoMore
  <2> QED
    BY ONLY <2>1, TrackTypes
<1>9. Last(track').op = "open" /\ Last(track').row = Top'
  BY <1>7, <1>8 DEF Open
<1>10. ASSUME NEW a \in 1..Len(stack') PROVE stack'[a] \in 1..(next' - 1)
  <2>1. CASE a \in 1..m
    <3>1. stack[a] \in 1..(next - 1) /\ stack'[a] = stack[a]
      BY <1>2, <1>3, <1>5, <2>1
    <3> QED
      BY <1>4, <3>1
  <2>2. CASE a = m + 1
    BY <1>3, <1>4, <2>2
  <2> QED
    BY <1>3, <1>5, <2>1, <2>2
<1>11. StackInv'
  BY <1>3, <1>4, <1>6, <1>8, <1>9, <1>10 DEF StackInv
<1>12. ASSUME RowsNest PROVE LoopInv'
  <2> DEFINE o == rows[next].start
  <2>1. LoopInv
    BY <1>12 DEF IInv
  <2>2. /\ Now <= c /\ c <= rows[Top].end /\ c <= o
        /\ c = o \/ (Len(stack) = 1 /\ rows[Top].end = c)
        /\ \A a \in 1..m : o < rows[stack[a]].end
        /\ \A a \in (m + 1)..Len(stack) : rows[stack[a]].end <= o
    BY <1>12 DEF Pushes
  <2>3. o \in Nat /\ next <= Len(rows) => o <= rows[next].start
    BY <1>4
  <2>4. UNCHANGED <<metrics, rows>> /\ track' = track \o <<Close(c), Open(o, next)>> /\ o \in Nat
    BY <1>3, <1>4 DEF traceVars
  <2>5. /\ Forward(track') /\ Now' = o
        /\ \A t \in Nat : t < o => ShownIn(track', rows', Len(track') - 1, t) = Innermost(t)'
    <3> HIDE DEF o
    <3> QED
      BY <1>3, <1>4, <1>12, <2>2, <2>3, <2>4, TrackStep
  <2>6. ASSUME NEW a \in 1..Len(stack'), NEW b \in 1..Len(stack'), a < b
        PROVE  /\ rows[stack'[a]].start < rows[stack'[b]].start
               /\ rows[stack'[b]].end < rows[stack'[a]].end
    <3>1. a \in 1..m /\ a \in 1..Len(stack) /\ stack'[a] = stack[a]
      <4>1. a \in 1..m
        BY <1>3, <2>6
      <4> QED
        BY <1>3, <1>5, <4>1
    <3>2. CASE b \in 1..m
      <4>1. b \in 1..Len(stack) /\ stack'[b] = stack[b]
        BY <1>3, <1>5, <3>2
      <4> QED
        BY <2>1, <2>6, <3>1, <4>1 DEF LoopInv
    <3>3. CASE b = m + 1
      <4>1. stack[a] \in 1..Len(rows) /\ stack[a] \in 1..(next - 1)
        BY <1>2, <3>1
      <4>2. stack[a] < next /\ rows[next].start < rows[stack[a]].end
        BY <1>4, <2>2, <3>1, <4>1
      <4>3. rows[stack[a]].start < rows[next].start /\ rows[next].end < rows[stack[a]].end
        BY <1>4, <1>12, <4>1, <4>2, StartsInside
      <4> QED
        BY <1>3, <3>1, <3>3, <4>3
    <3> QED
      BY <1>3, <1>5, <3>2, <3>3
  <2>7. ASSUME NEW i \in 1..next
        PROVE  (\E a \in 1..Len(stack') : stack'[a] = i) \/ rows[i].end <= o
    <3>1. CASE i = next
      BY <1>3, <1>5, <3>1
    <3>2. CASE i # next
      <4>1. i \in 1..(next - 1)
        BY <1>4, <3>2
      <4>2. CASE rows[i].end <= Now
        <5>1. rows[i].end \in Nat
          BY <1>1, <1>2, <4>1
        <5>2. Now \in Nat /\ o \in Nat
          BY <1>2, <1>4
        <5>3. Now <= c /\ c <= o /\ c \in Nat
          BY <1>3, <2>2
        <5> HIDE DEF o
        <5>4. rows[i].end <= o
          BY ONLY <4>2, <5>1, <5>2, <5>3
        <5> QED
          BY <5>4
      <4>3. CASE \E a \in 1..Len(stack) : stack[a] = i
        <5>1. PICK a \in 1..Len(stack) : stack[a] = i
          BY <4>3
        <5>2. CASE a \in 1..m
          <6>1. a \in 1..Len(stack')
            BY <1>3, <5>2
          <6> QED
            BY <1>3, <5>1, <5>2, <6>1
        <5>3. CASE a \in (m + 1)..Len(stack)
          BY <2>2, <5>1, <5>3
        <5> QED
          BY <1>5, <5>2, <5>3
      <4> QED
        BY <2>1, <4>1, <4>2, <4>3 DEF LoopInv
    <3> QED
      BY <3>1, <3>2
  <2>8. rows[Top'].start <= o /\ o < rows[Top'].end
    BY <1>4, <1>7
  <2>9. next' <= Len(rows) => o <= rows[next'].start
    <3> SUFFICES ASSUME next' <= Len(rows) PROVE o <= rows[next'].start
      OBVIOUS
    <3>1. next' \in 1..Len(rows) /\ next < next'
      BY <1>1, <1>4
    <3> QED
      BY <1>1, <1>4, <3>1
  <2> HIDE DEF o
  <2> QED
    BY <1>4, <2>5, <2>6, <2>7, <2>8, <2>9 DEF LoopInv
<1> QED
  BY <1>4, <1>11, <1>12, WriteStep

(* OpenInner preserves the invariant.                                      *)
LEMMA OpenInnerInv == ASSUME IInv, OpenInner PROVE IInv'
<1>1. /\ phase = "write" /\ next > 1 /\ next <= Len(rows)
      /\ rows[Top].end > rows[next].start
      /\ stack' = Append(stack, next)
      /\ track' = track \o <<Close(rows[next].start), Open(rows[next].start, next)>>
      /\ next' = next + 1
      /\ UNCHANGED <<traceVars, phase, paths, rows>>
  BY DEF OpenInner, Writing
<1>2. /\ Len(rows) \in Nat
      /\ \A i \in 1..Len(rows) : rows[i].start \in Nat /\ rows[i].end \in Nat
  BY <1>1, RowFacts
<1>3. /\ next \in 2..(Len(rows) + 1)
      /\ stack \in Seq(Nat) /\ Len(stack) \in Nat \ {0}
      /\ \A a \in 1..Len(stack) : stack[a] \in 1..Len(rows)
      /\ Top = stack[Len(stack)] /\ Top \in 1..Len(rows) /\ Now \in Nat
  BY <1>1, StackFacts
<1>4. next \in 1..Len(rows) /\ next \in Nat
  BY <1>1, <1>2, <1>3
<1>5. rows[next].start \in Nat /\ rows[Top].end \in Nat
  BY <1>2, <1>3, <1>4
<1> DEFINE m == Len(stack)
<1>6. /\ m \in 0..Len(stack)
      /\ stack' \in Seq(Nat) /\ Len(stack') = m + 1 /\ stack'[m + 1] = next
      /\ \A a \in 1..m : stack'[a] = stack[a]
  BY <1>1, <1>3, <1>4
<1>7. ASSUME RowsNest
      PROVE  /\ Now <= rows[next].start /\ rows[next].start <= rows[Top].end
             /\ \A a \in 1..m : rows[next].start < rows[stack[a]].end
  <2>1. LoopInv
    BY <1>1, <1>7 DEF IInv
  <2>2. ASSUME NEW a \in 1..m PROVE rows[next].start < rows[stack[a]].end
    <3>1. CASE a = m
      BY <1>1, <1>3, <1>5, <3>1
    <3>2. CASE a # m
      <4>1. a < Len(stack) /\ Len(stack) \in 1..Len(stack)
        BY <1>3, <3>2
      <4>2. rows[Top].end < rows[stack[a]].end
        BY <1>3, <2>1, <4>1 DEF LoopInv
      <4>3. rows[stack[a]].end \in Nat
        BY <1>2, <1>3
      <4>4. rows[next].start < rows[Top].end
        BY <1>1, <1>5
      <4> QED
        BY ONLY <1>5, <4>2, <4>3, <4>4
    <3> QED
      BY <3>1, <3>2
  <2>3. Now <= rows[next].start
    BY <1>1, <2>1 DEF LoopInv
  <2> QED
    BY <1>1, <1>5, <2>2, <2>3
<1>8. (m + 1)..Len(stack) = {}
  BY <1>3
<1>9. rows[next].start <= rows[next].start
  BY <1>5
<1> HIDE DEF m
<1>10. Pushes(m, rows[next].start)
  BY <1>1, <1>5, <1>6, <1>7, <1>8, <1>9 DEF Pushes
<1> QED
  BY <1>1, <1>10, PushStep

(* Replace preserves the invariant.                                        *)
LEMMA ReplaceInv == ASSUME IInv, Replace PROVE IInv'
<1>1. /\ phase = "write" /\ next > 1 /\ next <= Len(rows)
      /\ rows[Top].end <= rows[next].start
      /\ Len(stack) = 1 \/ rows[Top].end = rows[next].start
      /\ stack' = Append(Front(stack), next)
      /\ track' = track \o <<Close(rows[Top].end), Open(rows[next].start, next)>>
      /\ next' = next + 1
      /\ UNCHANGED <<traceVars, phase, paths, rows>>
  BY DEF Replace, Writing
<1>2. /\ Len(rows) \in Nat
      /\ \A i \in 1..Len(rows) : rows[i].start \in Nat /\ rows[i].end \in Nat
  BY <1>1, RowFacts
<1>3. /\ next \in 2..(Len(rows) + 1)
      /\ stack \in Seq(Nat) /\ stack # <<>> /\ Len(stack) \in Nat \ {0}
      /\ \A a \in 1..Len(stack) : stack[a] \in 1..Len(rows)
      /\ Top = stack[Len(stack)] /\ Top \in 1..Len(rows) /\ Now \in Nat
  BY <1>1, StackFacts
<1>4. next \in 1..Len(rows) /\ next \in Nat
  BY <1>1, <1>2, <1>3
<1>5. rows[next].start \in Nat /\ rows[Top].end \in Nat
  BY <1>2, <1>3, <1>4
<1> DEFINE m == Len(stack) - 1
           f == Front(stack)
<1>6. m \in Nat /\ Len(stack) = m + 1
  BY <1>3
<1>7. f \in Seq(Nat) /\ Len(f) = m /\ \A a \in 1..m : f[a] = stack[a]
  BY <1>3, FrontLast
<1>8. stack' = Append(f, next)
  BY <1>1
<1> HIDE DEF m, f
<1>9. /\ m \in 0..Len(stack)
      /\ stack' \in Seq(Nat) /\ Len(stack') = m + 1 /\ stack'[m + 1] = next
      /\ \A a \in 1..m : stack'[a] = stack[a]
  BY <1>4, <1>6, <1>7, <1>8
<1>10. ASSUME RowsNest
       PROVE  /\ Now <= rows[Top].end
              /\ \A a \in 1..m : rows[next].start < rows[stack[a]].end
              /\ \A a \in (m + 1)..Len(stack) : rows[stack[a]].end <= rows[next].start
  <2>1. LoopInv
    BY <1>1, <1>10 DEF IInv
  <2>2. ASSUME NEW a \in 1..m PROVE rows[next].start < rows[stack[a]].end
    <3>1. a < Len(stack) /\ a \in 1..Len(stack) /\ Len(stack) \in 1..Len(stack) /\ Len(stack) # 1
      BY <1>6
    <3>2. rows[Top].end < rows[stack[a]].end
      BY <1>3, <2>1, <3>1 DEF LoopInv
    <3> QED
      BY <1>1, <3>1, <3>2
  <2>3. ASSUME NEW a \in (m + 1)..Len(stack) PROVE rows[stack[a]].end <= rows[next].start
    <3>1. a = Len(stack)
      BY <1>6
    <3> QED
      BY <1>1, <1>3, <3>1
  <2>4. Now < rows[Top].end
    BY <2>1 DEF LoopInv
  <2>5. Now <= rows[Top].end
    BY <1>3, <1>5, <2>4
  <2> QED
    BY <2>2, <2>3, <2>5
<1>11. rows[Top].end <= rows[Top].end
  BY <1>5
<1>12. Pushes(m, rows[Top].end)
  BY <1>1, <1>5, <1>9, <1>10, <1>11 DEF Pushes
<1> QED
  BY <1>1, <1>12, PushStep

(* OpenFirst preserves the invariant: before the first row nothing runs.   *)
LEMMA OpenFirstInv == ASSUME IInv, OpenFirst PROVE IInv'
<1>1. /\ phase = "write" /\ next <= Len(rows) /\ next = 1
      /\ stack' = <<1>> /\ track' = <<Open(rows[1].start, 1)>> /\ next' = 2
      /\ UNCHANGED <<traceVars, phase, paths, rows>>
  BY DEF OpenFirst, Writing
<1>2. /\ Len(rows) \in Nat
      /\ \A i \in 1..Len(rows) :
            rows[i].start \in Nat /\ rows[i].end \in Nat /\ rows[i].start < rows[i].end
      /\ \A i, j \in 1..Len(rows) : i < j => rows[i].start <= rows[j].start
      /\ Instances = {rows[i] : i \in 1..Len(rows)}
  BY <1>1, RowFacts
<1>3. 1 \in 1..Len(rows) /\ 2 \in 1..(Len(rows) + 1)
  BY <1>1, <1>2
<1> DEFINE o == rows[1].start
<1>4. o \in Nat /\ rows[1].end \in Nat /\ o < rows[1].end
  BY <1>2, <1>3
<1>5. Open(o, 1) \in Event /\ Open(o, 1).op = "open" /\ Open(o, 1).row = 1 /\ Open(o, 1).at = o
  BY <1>4 DEF Open, Event
<1>6. track' = <<Open(o, 1)>>
  BY <1>1
<1> HIDE DEF o
<1>7. /\ track' \in Seq(Event) /\ track' # <<>> /\ Len(track') = 1 /\ track'[1] = Open(o, 1)
      /\ stack' \in Seq(Nat) /\ stack' # <<>> /\ Len(stack') = 1 /\ stack'[1] = 1
  BY <1>1, <1>5, <1>6
<1>8. Last(track') = Open(o, 1) /\ Top' = 1 /\ Now' = o
  BY <1>5, <1>7 DEF Last, Top, Now
<1>9. StackInv'
  BY <1>1, <1>2, <1>3, <1>5, <1>7, <1>8 DEF StackInv
<1>10. ASSUME NEW t \in Nat, t < o PROVE Innermost(t)' = {}
  <2>1. Innermost(t)' = Innermost(t)
    BY <1>1, SameInstances DEF traceVars
  <2>2. ASSUME NEW x \in Covering(t) PROVE FALSE
    <3>1. PICK i \in 1..Len(rows) : x = rows[i]
      BY <1>2 DEF Covering
    <3>2. rows[i].start <= t /\ rows[i].start \in Nat
      BY <1>2, <3>1 DEF Covering
    <3>3. o <= rows[i].start
      <4>1. CASE i = 1
        BY <1>4, <4>1 DEF o
      <4>2. CASE i # 1
        BY <1>2, <1>3, <4>2 DEF o
      <4> QED
        BY <4>1, <4>2
    <3> QED
      BY <1>4, <1>10, <3>2, <3>3
  <2> QED
    BY <2>1, <2>2 DEF Innermost
<1>11. ASSUME NEW t \in Nat, t < o
       PROVE  ShownIn(track', rows', Len(track') - 1, t) = Innermost(t)'
  <2>1. 1..(Len(track') - 1) = {}
    BY <1>7
  <2>2. ShownIn(track', rows', Len(track') - 1, t) = {}
    BY <2>1 DEF ShownIn
  <2> QED
    BY <1>10, <1>11, <2>2
<1>12. LoopInv'
  <2>1. Forward(track')
    BY <1>7 DEF Forward
  <2>2. next' <= Len(rows) => o <= rows[next'].start
    BY <1>1, <1>2, <1>3 DEF o
  <2>3. \A a, b \in 1..Len(stack') : ~(a < b)
    BY <1>7
  <2>4. \A i \in 1..(next' - 1) : i = 1 /\ 1 \in 1..Len(stack')
    BY <1>1, <1>7
  <2>5. \A i \in 1..(next' - 1) : \E a \in 1..Len(stack') : stack'[a] = i
    BY <1>7, <2>4
  <2>6. rows'[Top'].start <= Now' /\ Now' < rows'[Top'].end
    BY <1>1, <1>4, <1>8 DEF o
  <2> QED
    BY <1>1, <1>8, <1>11, <2>1, <2>2, <2>3, <2>5, <2>6 DEF LoopInv
<1> QED
  BY <1>1, <1>9, <1>12, WriteStep

(* Finish preserves the invariant: behind the lowest row nothing runs.     *)
LEMMA FinishInv == ASSUME IInv, Finish PROVE IInv'
<1>1. /\ phase = "write" /\ next > Len(rows) /\ Len(stack) = 1
      /\ track' = Append(track, Close(rows[Top].end)) /\ stack' = <<>> /\ phase' = "done"
      /\ UNCHANGED <<traceVars, paths, rows, next>>
  BY DEF Finish
<1>2. next \in 1..(Len(rows) + 1) /\ Len(rows) \in Nat
  BY <1>1, RowFacts DEF IInv, StackInv
<1>3. next > 1
  <2>1. next # 1
    <3> SUFFICES ASSUME next = 1 PROVE FALSE
      OBVIOUS
    <3>1. stack = <<>>
      BY <1>1 DEF IInv, StackInv
    <3> QED
      BY <1>1, <3>1
  <2> QED
    BY <1>2, <2>1
<1>4. /\ track \in Seq(Event) /\ Len(track) \in Nat \ {0}
      /\ Now = track[Len(track)].at /\ Now \in Nat
      /\ track[Len(track)].op = "open" /\ track[Len(track)].row = Top
      /\ Top \in 1..Len(rows)
  BY <1>1, <1>3, StackFacts
<1>5. \A i \in 1..Len(rows) : rows[i].start \in Nat /\ rows[i].end \in Nat
  BY <1>1, RowFacts
<1> DEFINE c == rows[Top].end
           n == Len(track)
<1>6. c \in Nat
  BY <1>4, <1>5
<1>7. track' \in Seq(Event)
  <2>1. Close(c) \in Event
    BY <1>6 DEF Close, Event
  <2> QED
    BY <1>1, <1>4, <2>1
<1>8. TraceInv' /\ origin' \in Nat /\ started' \in 0..MaxRecords /\ UNCHANGED metrics
  BY <1>1, SameTrace
<1>9. Instances' = Instances
  BY <1>8, SameInstances
<1>10. RowsInv'
  BY <1>1, <1>9 DEF IInv, RowsInv
<1>11. StackInv'
  <2>1. stack' \in Seq(Nat) /\ Len(stack') = 0
    BY <1>1
  <2> QED
    BY <1>1, <1>2, <1>7, <2>1 DEF StackInv
<1>12. RowsNest' = RowsNest
  BY <1>1 DEF RowsNest
<1>13. ASSUME RowsNest PROVE DoneInv'
  <2>1. LoopInv
    BY <1>1, <1>3, <1>13 DEF IInv
  <2>2. Forward(track) /\ Now <= c
    BY <1>4, <1>6, <2>1 DEF LoopInv
  <2>3. CanClose(track, n, c) /\ track' = Append(track, Close(c))
    BY <1>1, <1>4, <1>6, <2>2 DEF CanClose
  <2>4. /\ Len(track') = n + 1 /\ Forward(track')
        /\ \A t \in Nat :
              ShownIn(track', rows, n + 1, t) =
                  IF t < track[n].at THEN ShownIn(track, rows, n - 1, t)
                  ELSE IF t < c THEN {rows[track[n].row]} ELSE {}
    <3> HIDE DEF n, c
    <3> QED
      BY ONLY <2>3, SliceClosed
  <2>5. ASSUME NEW t \in Nat PROVE ShownIn(track', rows', Len(track'), t) = Innermost(t)'
    <3>1. Innermost(t)' = Innermost(t)
      BY <1>8, SameInstances
    <3>2. ShownIn(track', rows', Len(track'), t) =
              IF t < Now THEN ShownIn(track, rows, n - 1, t)
              ELSE IF t < c THEN {rows[Top]} ELSE {}
      BY <1>1, <1>4, <2>4
    <3>3. ~(next <= Len(rows))
      BY <1>1, <1>2
    <3>4. CASE t < Now
      BY <2>1, <3>1, <3>2, <3>4 DEF LoopInv
    <3>5. CASE ~(t < Now) /\ t < c
      <4>1. Now <= t
        BY <1>4, <3>5
      <4>2. Innermost(t) = {rows[Top]}
        BY <1>1, <1>3, <2>1, <3>3, <3>5, <4>1, TopIsInnermost
      <4> QED
        BY <3>1, <3>2, <3>5, <4>2
    <3>6. CASE ~(t < Now) /\ ~(t < c)
      <4>1. c <= t
        BY <1>6, <3>6
      <4>2. Innermost(t) = {}
        BY <1>1, <1>3, <2>1, <3>3, <4>1, NothingRuns
      <4> QED
        BY <3>1, <3>2, <3>6, <4>2
    <3> QED
      BY <3>4, <3>5, <3>6
  <2> QED
    BY <2>4, <2>5 DEF DoneInv
<1> QED
  BY <1>1, <1>8, <1>10, <1>11, <1>12, <1>13 DEF IInv

(* A step that changes nothing.                                            *)
LEMMA StutterInv == ASSUME IInv, UNCHANGED vars PROVE IInv'
<1>1. /\ UNCHANGED <<level, origin, metrics, started, phase, paths, rows, next, stack, track>>
      /\ UNCHANGED traceVars
  BY DEF vars, traceVars
<1>2. TraceInv' /\ origin' \in Nat /\ started' \in 0..MaxRecords
  BY <1>1, SameTrace
<1>3. Instances' = Instances /\ \A c : RowsOf(c)' = RowsOf(c)
  BY <1>1, SameInstances DEF RowsOf
<1>4. RowsInv'
  BY <1>1, <1>3 DEF IInv, RowsInv
<1>5. Top' = Top /\ Now' = Now /\ RowsNest' = RowsNest
  BY <1>1 DEF Top, Now, RowsNest
<1>6. StackInv'
  BY <1>1, <1>5 DEF IInv, StackInv
<1>7. \A t \in Nat : Innermost(t)' = Innermost(t)
  BY <1>1, SameInstances
<1>8. LoopInv => LoopInv'
  BY <1>1, <1>5, <1>7 DEF LoopInv
<1>9. DoneInv => DoneInv'
  BY <1>1, <1>7 DEF DoneInv
<1> QED
  BY <1>1, <1>2, <1>4, <1>5, <1>6, <1>8, <1>9 DEF IInv

(* Every step preserves the invariant.                                     *)
LEMMA NextInv == IInv /\ [Next]_vars => IInv'
<1> SUFFICES ASSUME IInv, [Next]_vars PROVE IInv'
  OBVIOUS
<1>1. ASSUME NEW m \in Methods, Sample(m) PROVE IInv'
  BY <1>1, SampleInv
<1>2. ASSUME NEW m \in Methods, NEW w \in Work, Call(m, w) PROVE IInv'
  BY <1>2, CallInv
<1>3. ASSUME NEW w \in Work, Return(w) PROVE IInv'
  BY <1>3, ReturnInv
<1>4. CASE Analyse
  BY <1>4, AnalyseInv
<1>5. ASSUME NEW leaf, OutputPath(leaf) PROVE IInv'
  BY <1>5, OutputPathInv
<1>6. CASE SortRows
  BY <1>6, SortRowsInv
<1>7. CASE OpenFirst
  BY <1>7, OpenFirstInv
<1>8. CASE OpenInner
  BY <1>8, OpenInnerInv
<1>9. CASE LeaveEnded
  BY <1>9, LeaveEndedInv
<1>10. CASE Replace
  BY <1>10, ReplaceInv
<1>11. CASE Unwind
  BY <1>11, UnwindInv
<1>12. CASE Finish
  BY <1>12, FinishInv
<1>13. CASE UNCHANGED vars
  BY <1>13, StutterInv
<1> QED
  BY <1>1, <1>2, <1>3, <1>4, <1>5, <1>6, <1>7, <1>8, <1>9, <1>10, <1>11, <1>12, <1>13
  DEF Next, Script, Done

(* The invariant holds in every state of every behaviour.                  *)
THEOREM Invariance == Spec => []IInv
<1> QED
  BY InitInv, NextInv, PTL DEF Spec

(* The types of the tracer's stacks, of the metrics and of the loop, and   *)
(* that output_to_pftrace never asks an empty my_stack for its top.        *)
THEOREM TimelineTypes == Spec => []TypeOK
<1>1. IInv => TypeOK
  <2> SUFFICES ASSUME IInv PROVE TypeOK
    OBVIOUS
  <2>1. ASSUME NEW k \in DOMAIN level PROVE level[k].start \in Nat /\ level[k].cnt \in Nat
    <3>1. level \in Seq(Level)
      BY DEF IInv, TraceInv
    <3>2. level[k] \in Level
      BY <3>1
    <3> QED
      BY <3>2 DEF Level
  <2>2. \A c \in DOMAIN metrics : metrics[c] \in Seq(Interval)
    BY DEF IInv, TraceInv
  <2>3. stack \in Seq(Nat) /\ \A a \in 1..Len(stack) : stack[a] \in 1..(next - 1)
    BY DEF IInv, StackInv
  <2>4. \A k \in DOMAIN stack : stack[k] \in 1..(next - 1)
    BY <2>3
  <2> QED
    BY <2>1, <2>2, <2>4 DEF TypeOK, IInv, StackInv
<1> QED
  BY <1>1, Invariance, PTL

(* When the rows nest, the loop of output_to_pftrace writes a track that   *)
(* goes forward in time and shows the innermost instance at every time,    *)
(* however many rows there are and however deep they nest.                 *)
THEOREM TrackShowsInnermost == Spec => []ShowsInnermost
<1>1. IInv => ShowsInnermost
  <2> SUFFICES ASSUME IInv, RowsNest, phase \in {"write", "done"}
               PROVE  /\ TimeForward
                      /\ phase = "done" =>
                           \A t \in 0..Max({x.end : x \in Instances}) : Shown(t) = Innermost(t)
    BY DEF ShowsInnermost
  <2>1. track \in Seq(Event) /\ next \in 1..(Len(rows) + 1) /\ rows \in Seq(Row)
    BY DEF IInv, StackInv, RowsInv
  <2>2. Forward(track)
    <3>1. CASE phase = "done"
      BY <3>1 DEF IInv, DoneInv
    <3>2. CASE phase = "write" /\ next > 1
      BY <3>2 DEF IInv, LoopInv
    <3>3. CASE phase = "write" /\ ~(next > 1)
      <4>1. next = 1
        BY <2>1, <3>3
      <4>2. track = <<>>
        BY <3>3, <4>1 DEF IInv, StackInv
      <4> QED
        BY <4>2 DEF Forward
    <3> QED
      BY <3>1, <3>2, <3>3
  <2>3. TimeForward
    <3> SUFFICES ASSUME NEW k \in 1..(Len(track) - 1) PROVE track[k].at <= track[k + 1].at
      BY DEF TimeForward
    <3>1. k \in 1..Len(track) /\ k + 1 \in 1..Len(track) /\ k < k + 1
      BY <2>1
    <3> QED
      BY <2>2, <3>1 DEF Forward
  <2>4. ASSUME phase = "done", NEW t \in Nat PROVE Shown(t) = Innermost(t)
    <3>1. Shown(t) = ShownIn(track, rows, Len(track), t)
      BY DEF Shown, ShownIn
    <3>2. DoneInv
      BY <2>4 DEF IInv
    <3> QED
      BY <3>1, <3>2 DEF DoneInv
  <2>5. \A t \in 0..Max({x.end : x \in Instances}) : t \in Nat
    OBVIOUS
  <2> QED
    BY <2>3, <2>4, <2>5
<1> QED
  BY <1>1, Invariance, PTL

-----------------------------------------------------------------------------
(* One row for every instance.                                             *)

(* The rows rs of context c.                                               *)
Of(rs, c) == {i \in 1..Len(rs) : rs[i].ctxt = c}

(* Every context on a path that was output has its rows, the others have   *)
(* none yet.                                                               *)
CountInv ==
    /\ phase = "rows" =>
          \A c \in DOMAIN metrics :
             Cardinality(Of(rows, c)) = IF c \in paths THEN Len(metrics[c]) ELSE 0
    /\ phase \in {"write", "done"} =>
          \A c \in DOMAIN metrics : Cardinality(Of(rows, c)) = Len(metrics[c])

(* The rows of a context can be counted.                                   *)
LEMMA OfFinite ==
    ASSUME NEW rs \in Seq(Row), NEW c PROVE IsFiniteSet(Of(rs, c))
<1>1. Len(rs) \in Nat /\ Of(rs, c) \in SUBSET (1..Len(rs))
  BY DEF Of
<1>2. IsFiniteSet(1..Len(rs))
  BY <1>1, UpTo
<1> QED
  BY <1>1, <1>2, FS_Subset

(* A recorded context is not on the path to another recorded one: its last *)
(* frame has an instruction address.                                       *)
LEMMA RecordedAreLeaves ==
    ASSUME TraceInv, NEW d \in DOMAIN metrics, NEW k \in 1..Len(d),
           SubSeq(d, 1, k) \in DOMAIN metrics
    PROVE  k = Len(d)
<1> DEFINE c == SubSeq(d, 1, k)
<1>1. d \in Seq(Frame) /\ Len(d) \in Nat
  BY DEF TraceInv
<1>2. k \in 0..Len(d) /\ k \in 1..k
  BY <1>1
<1>3. Len(c) = k /\ c[k] = d[k]
  BY <1>1, <1>2, PrefixProperties
<1>4. \A x \in DOMAIN metrics : \A i \in 1..Len(x) : x[i].ip = (i = Len(x))
  BY DEF TraceInv
<1>5. c[k].ip = (k = Len(c)) /\ d[k].ip = (k = Len(d))
  BY <1>2, <1>3, <1>4
<1> QED
  BY <1>3, <1>5

(* The leaves are the recorded contexts.                                   *)
LEMMA LeavesRecorded == ASSUME TraceInv PROVE Leaves = DOMAIN metrics
<1>1. ASSUME NEW leaf \in Leaves PROVE leaf \in DOMAIN metrics
  <2>1. PICK d \in DOMAIN metrics : leaf \in Prefixes(d)
    BY DEF Leaves, Contexts
  <2>2. d \in Seq(Frame) /\ Len(d) \in 0..Len(d)
    BY DEF TraceInv
  <2>3. d = SubSeq(d, 1, Len(d))
    BY <2>2, SubSeqFull
  <2>4. d \in Prefixes(d)
    BY <2>2, <2>3 DEF Prefixes
  <2>5. d \in Contexts
    BY <2>4 DEF Contexts
  <2> QED
    BY <2>1, <2>5 DEF Leaves
<1>2. ASSUME NEW c \in DOMAIN metrics PROVE c \in Leaves
  <2>1. PICK leaf \in Leaves : \E k \in 1..Len(leaf) : c = SubSeq(leaf, 1, k)
    BY LeafAbove
  <2>2. PICK k \in 1..Len(leaf) : c = SubSeq(leaf, 1, k)
    BY <2>1
  <2>3. leaf \in DOMAIN metrics /\ leaf \in Seq(Frame)
    BY <1>1 DEF TraceInv
  <2>4. k = Len(leaf)
    BY <2>2, <2>3, RecordedAreLeaves
  <2>5. c = leaf
    BY <2>2, <2>3, <2>4, SubSeqFull
  <2> QED
    BY <2>5
<1> QED
  BY <1>1, <1>2

(* One path gives the rows of its last context.                            *)
LEMMA LeafRows ==
    ASSUME TraceInv, NEW leaf \in DOMAIN metrics
    PROVE  FlattenSeq([k \in 1..Len(leaf) |-> RowsOf(SubSeq(leaf, 1, k))]) = RowsOf(leaf)
<1> DEFINE seqs == [k \in 1..Len(leaf) |-> RowsOf(SubSeq(leaf, 1, k))]
<1>1. leaf \in Seq(Frame) /\ Len(leaf) \in Nat \ {0}
  BY DEF TraceInv
<1>2. ASSUME NEW k \in 1..Len(leaf) PROVE RowsOf(SubSeq(leaf, 1, k)) \in Seq(Row)
  <2>1. k \in 0..Len(leaf)
    BY <1>1
  <2>2. SubSeq(leaf, 1, k) \in Seq(Frame)
    BY <1>1, <2>1, PrefixProperties
  <2> QED
    BY <2>2, RowsOfTypes
<1>3. /\ seqs \in Seq(Seq(Row)) /\ Len(seqs) = Len(leaf)
      /\ \A k \in 1..Len(leaf) : seqs[k] = RowsOf(SubSeq(leaf, 1, k))
  BY <1>1, <1>2
<1> HIDE DEF seqs
<1>4. ASSUME NEW k \in 1..(Len(seqs) - 1) PROVE seqs[k] = <<>>
  <2>1. k \in 1..Len(leaf) /\ k # Len(leaf)
    BY <1>1, <1>3
  <2>2. SubSeq(leaf, 1, k) \notin DOMAIN metrics
    BY <2>1, RecordedAreLeaves
  <2> QED
    BY <1>3, <2>1, <2>2 DEF RowsOf
<1>5. seqs # <<>>
  <2> SUFFICES ASSUME seqs = <<>> PROVE FALSE
    OBVIOUS
  <2>1. Len(seqs) = 0
    OBVIOUS
  <2> QED
    BY <1>1, <1>3, <2>1
<1>6. FlattenSeq(seqs) = seqs[Len(seqs)]
  BY <1>3, <1>4, <1>5, FlattenProperties
<1>7. seqs[Len(seqs)] = RowsOf(SubSeq(leaf, 1, Len(leaf)))
  BY <1>1, <1>3
<1>8. SubSeq(leaf, 1, Len(leaf)) = leaf
  BY <1>1, SubSeqFull
<1> QED
  BY <1>6, <1>7, <1>8 DEF seqs

(* The rows of a context, which are all of that context.                   *)
LEMMA RowsOfContext ==
    ASSUME TraceInv, NEW c \in DOMAIN metrics
    PROVE  /\ RowsOf(c) \in Seq(Row) /\ Len(RowsOf(c)) = Len(metrics[c])
           /\ \A j \in 1..Len(RowsOf(c)) : RowsOf(c)[j].ctxt = c
<1>1. c \in Seq(Frame) /\ Len(metrics[c]) \in Nat
  BY DEF TraceInv
<1>2. RowsOf(c) = [j \in 1..Len(metrics[c]) |->
          [ctxt |-> c, start |-> metrics[c][j].start, end |-> metrics[c][j].end]]
  BY DEF RowsOf
<1>3. RowsOf(c) \in Seq(Row)
  BY <1>1, RowsOfTypes
<1>4. Len(RowsOf(c)) = Len(metrics[c])
  BY <1>1, <1>2
<1> QED
  BY <1>2, <1>3, <1>4

(* Rows of another context are not counted.                                *)
LEMMA CountOther ==
    ASSUME NEW a \in Seq(Row), NEW b \in Seq(Row), NEW c,
           \A j \in 1..Len(b) : b[j].ctxt # c
    PROVE  Of(a \o b, c) = Of(a, c)
<1> DEFINE s == a \o b
<1>1. /\ Len(s) = Len(a) + Len(b) /\ Len(a) \in Nat /\ Len(b) \in Nat
      /\ \A i \in 1..Len(a) : s[i] = a[i]
      /\ \A i \in 1..Len(b) : s[Len(a) + i] = b[i]
  OBVIOUS
<1> HIDE DEF s
<1>2. ASSUME NEW i \in 1..Len(s), s[i].ctxt = c PROVE i \in 1..Len(a)
  <2> SUFFICES ASSUME i \notin 1..Len(a) PROVE FALSE
    OBVIOUS
  <2>1. i - Len(a) \in 1..Len(b) /\ i = Len(a) + (i - Len(a))
    BY <1>1
  <2>2. s[i] = b[i - Len(a)]
    BY <1>1, <2>1
  <2> QED
    BY <1>2, <2>1, <2>2
<1>3. \A i \in 1..Len(a) : i \in 1..Len(s)
  BY <1>1
<1>4. Of(s, c) = Of(a, c)
  BY <1>1, <1>2, <1>3 DEF Of
<1> QED
  BY <1>4 DEF s

(* Rows of a context that had none.                                        *)
LEMMA CountNew ==
    ASSUME NEW a \in Seq(Row), NEW b \in Seq(Row), NEW c,
           \A j \in 1..Len(b) : b[j].ctxt = c, Cardinality(Of(a, c)) = 0
    PROVE  Cardinality(Of(a \o b, c)) = Len(b)
<1> DEFINE s == a \o b
           m == Len(a) + 1
           n == Len(a) + Len(b)
<1>1. /\ Len(s) = Len(a) + Len(b) /\ Len(a) \in Nat /\ Len(b) \in Nat
      /\ \A i \in 1..Len(a) : s[i] = a[i]
      /\ \A i \in 1..Len(b) : s[Len(a) + i] = b[i]
  OBVIOUS
<1> HIDE DEF s
<1>2. Of(a, c) = {}
  BY OfFinite, FS_EmptySet
<1>3. ASSUME NEW i \in Of(s, c) PROVE i \in m..n
  <2>1. i \in 1..Len(s) /\ s[i].ctxt = c
    BY DEF Of
  <2>2. i \notin 1..Len(a)
    BY <1>1, <1>2, <2>1 DEF Of
  <2> QED
    BY <1>1, <2>1, <2>2
<1>4. ASSUME NEW i \in m..n PROVE i \in Of(s, c)
  <2>1. i - Len(a) \in 1..Len(b) /\ i = Len(a) + (i - Len(a)) /\ i \in 1..Len(s)
    BY <1>1
  <2>2. s[i] = b[i - Len(a)]
    BY <1>1, <2>1
  <2> QED
    BY <2>1, <2>2 DEF Of
<1>5. Of(s, c) = m..n
  BY <1>3, <1>4
<1>6. m \in Int /\ n \in Int /\ (IF m > n THEN 0 ELSE n - m + 1) = Len(b)
  BY <1>1
<1>7. Cardinality(m..n) = IF m > n THEN 0 ELSE n - m + 1
  <2> HIDE DEF m, n
  <2> QED
    BY <1>6, FS_Interval
<1> QED
  BY <1>5, <1>6, <1>7 DEF s

(* The sort changes no count.                                              *)
LEMMA CountSorted ==
    ASSUME NEW t \in Seq(Row), NEW c
    PROVE  Cardinality(Of(Sorted(t), c)) = Cardinality(Of(t, c))
<1> DEFINE A == Of(t, c)
           B == Of(Sorted(t), c)
           f == [i \in A |-> Rank(t, i) + 1]
<1>1. Len(t) \in Nat /\ \A i \in 1..Len(t) : t[i].start \in Nat
  <2>1. ASSUME NEW i \in 1..Len(t) PROVE t[i].start \in Nat
    <3>1. t[i] \in Row
      OBVIOUS
    <3> QED
      BY <3>1 DEF Row
  <2> QED
    BY <2>1
<1>2. Len(Sorted(t)) = Len(t) /\ \A i \in 1..Len(t) : Sorted(t)[Rank(t, i) + 1] = t[i]
  BY <1>1, SortedProperties
<1>3. /\ \A i \in 1..Len(t) : Rank(t, i) \in 0..(Len(t) - 1)
      /\ \A i, j \in 1..Len(t) : Before(t, i, j) => Rank(t, i) < Rank(t, j)
  BY <1>1, RankProperties
<1>4. \A k \in 1..Len(t) : \E i \in 1..Len(t) : Rank(t, i) = k - 1
  BY <1>1, RankOnto
<1>5. ASSUME NEW i \in A PROVE f[i] \in B
  <2>1. i \in 1..Len(t) /\ t[i].ctxt = c
    BY DEF Of
  <2>2. Rank(t, i) + 1 \in 1..Len(t)
    BY <1>1, <1>3, <2>1
  <2> QED
    BY <1>2, <2>1, <2>2 DEF Of
<1>6. ASSUME NEW i \in A, NEW j \in A, f[i] = f[j] PROVE i = j
  <2> SUFFICES ASSUME i # j PROVE FALSE
    OBVIOUS
  <2>1. i \in 1..Len(t) /\ j \in 1..Len(t)
    BY DEF Of
  <2>2. Rank(t, i) \in Nat /\ Rank(t, j) \in Nat /\ Rank(t, i) = Rank(t, j)
    <3>1. Rank(t, i) \in Nat /\ Rank(t, j) \in Nat
      BY <1>3, <2>1
    <3>2. Rank(t, i) + 1 = Rank(t, j) + 1
      BY <1>6
    <3> QED
      BY ONLY <3>1, <3>2
  <2>3. t[i].start \in Nat /\ t[j].start \in Nat
    BY <1>1, <2>1
  <2>4. Before(t, i, j) \/ Before(t, j, i)
    BY <2>1, <2>3 DEF Before
  <2> QED
    BY <1>3, <2>1, <2>2, <2>4
<1>7. ASSUME NEW k \in B PROVE \E i \in A : f[i] = k
  <2>1. k \in 1..Len(t) /\ Sorted(t)[k].ctxt = c
    BY <1>2 DEF Of
  <2>2. PICK i \in 1..Len(t) : Rank(t, i) = k - 1
    BY <1>4, <2>1
  <2>3. Rank(t, i) + 1 = k
    BY <2>1, <2>2
  <2>4. t[i].ctxt = c
    BY <1>2, <2>1, <2>3
  <2>5. i \in A
    BY <2>4 DEF Of
  <2> QED
    BY <2>3, <2>5
<1>8. f \in [A -> B]
  BY <1>5
<1>9. IsFiniteSet(A)
  BY OfFinite
<1> HIDE DEF A, B, f
<1>10. f \in Bijection(A, B)
  BY <1>6, <1>7, <1>8, Fun_IsBij
<1>11. ExistsBijection(A, B)
  BY <1>10 DEF ExistsBijection
<1>12. Cardinality(B) = Cardinality(A)
  BY <1>9, <1>11, FS_Bijection
<1> QED
  BY <1>12 DEF A, B

(* One path adds the rows of one context that had none.                    *)
LEMMA OutputPathCount ==
    ASSUME IInv, CountInv, NEW leaf, OutputPath(leaf) PROVE CountInv'
<1> DEFINE new == FlattenSeq([k \in 1..Len(leaf) |-> RowsOf(SubSeq(leaf, 1, k))])
<1>1. /\ phase = "rows" /\ leaf \in Leaves /\ leaf \notin paths /\ phase' = "rows"
      /\ rows' = rows \o new /\ paths' = paths \cup {leaf} /\ UNCHANGED traceVars
  BY DEF OutputPath
<1>2. TraceInv /\ UNCHANGED metrics /\ rows \in Seq(Row)
  BY <1>1, SameTrace DEF IInv, RowsInv
<1>3. leaf \in DOMAIN metrics
  BY <1>1, <1>2, LeavesRecorded
<1>4. new = RowsOf(leaf)
  BY <1>2, <1>3, LeafRows
<1> HIDE DEF new
<1>5. /\ new \in Seq(Row) /\ Len(new) = Len(metrics[leaf])
      /\ \A j \in 1..Len(new) : new[j].ctxt = leaf
  BY <1>2, <1>3, <1>4, RowsOfContext
<1>6. \A c \in DOMAIN metrics :
         Cardinality(Of(rows, c)) = IF c \in paths THEN Len(metrics[c]) ELSE 0
  BY <1>1 DEF CountInv
<1>7. ASSUME NEW c \in DOMAIN metrics
      PROVE  Cardinality(Of(rows', c)) = IF c \in paths' THEN Len(metrics[c]) ELSE 0
  <2>1. CASE c = leaf
    <3>1. Cardinality(Of(rows, leaf)) = 0
      BY <1>1, <1>3, <1>6
    <3>2. Cardinality(Of(rows \o new, leaf)) = Len(new)
      BY <1>2, <1>5, <3>1, CountNew
    <3> QED
      BY <1>1, <1>5, <2>1, <3>2
  <2>2. CASE c # leaf
    <3>1. Of(rows \o new, c) = Of(rows, c)
      BY <1>2, <1>5, <2>2, CountOther
    <3> QED
      BY <1>1, <1>6, <2>2, <3>1
  <2> QED
    BY <2>1, <2>2
<1> QED
  BY <1>1, <1>2, <1>7 DEF CountInv, Of

(* After the last path every context has its rows.                         *)
LEMMA SortRowsCount == ASSUME IInv, CountInv, SortRows PROVE CountInv'
<1>1. /\ phase = "rows" /\ Leaves = paths /\ rows' = Sorted(rows) /\ phase' = "write"
      /\ UNCHANGED traceVars
  BY DEF SortRows
<1>2. TraceInv /\ UNCHANGED metrics /\ rows \in Seq(Row)
  BY <1>1, SameTrace DEF IInv, RowsInv
<1>3. paths = DOMAIN metrics
  BY <1>1, <1>2, LeavesRecorded
<1>4. \A c \in DOMAIN metrics : Cardinality(Of(rows, c)) = Len(metrics[c])
  BY <1>1, <1>3 DEF CountInv
<1>5. \A c \in DOMAIN metrics : Cardinality(Of(rows', c)) = Len(metrics[c])
  BY <1>1, <1>2, <1>4, CountSorted
<1> QED
  BY <1>1, <1>2, <1>5 DEF CountInv, Of

(* Every step preserves the counts.                                        *)
LEMMA NextCount == IInv /\ CountInv /\ [Next]_vars => CountInv'
<1> SUFFICES ASSUME IInv, CountInv, [Next]_vars PROVE CountInv'
  OBVIOUS
<1>1. ASSUME NEW m \in Methods, Sample(m) PROVE CountInv'
  BY <1>1 DEF Sample, CountInv
<1>2. ASSUME NEW m \in Methods, NEW w \in Work, Call(m, w) PROVE CountInv'
  <2>1. phase' = "trace"
    BY <1>2 DEF Call
  <2> QED
    BY <2>1 DEF CountInv
<1>3. ASSUME NEW w \in Work, Return(w) PROVE CountInv'
  <2>1. phase' = "trace"
    BY <1>3 DEF Return
  <2> QED
    BY <2>1 DEF CountInv
<1>4. CASE Analyse
  <2>1. phase' = "rows" /\ rows' = <<>> /\ paths' = {}
    BY <1>4 DEF Analyse, IInv, RowsInv
  <2>2. \A c : Of(rows', c) = {}
    BY <2>1 DEF Of
  <2>3. \A c : Cardinality(Of(rows', c)) = 0
    BY <2>2, FS_EmptySet
  <2> QED
    BY <2>1, <2>3 DEF CountInv, Of
<1>5. ASSUME NEW leaf, OutputPath(leaf) PROVE CountInv'
  BY <1>5, OutputPathCount
<1>6. CASE SortRows
  BY <1>6, SortRowsCount
<1>7. ASSUME phase \in {"write", "done"}, phase' \in {"write", "done"},
             UNCHANGED <<metrics, rows>>
      PROVE  CountInv'
  BY <1>7 DEF CountInv, Of
<1>8. CASE OpenFirst \/ OpenInner \/ LeaveEnded \/ Replace \/ Unwind \/ Finish
  BY <1>7, <1>8
  DEF OpenFirst, OpenInner, LeaveEnded, Replace, Unwind, Finish, Writing, traceVars
<1>9. CASE UNCHANGED vars
  BY <1>9 DEF CountInv, Of, vars, traceVars
<1> QED
  BY <1>1, <1>2, <1>3, <1>4, <1>5, <1>6, <1>8, <1>9 DEF Next, Script, Done

(* output_to_file gives exactly one row for every instance that was        *)
(* recorded: a recorded context is a leaf, so it is on one path, and the   *)
(* sort keeps every row.                                                   *)
THEOREM OneRowPerInstance == Spec => []RowsOncePerInstance
<1>1. Init => CountInv
  BY DEF Init, CountInv
<1>2. IInv /\ CountInv => RowsOncePerInstance
  <2> SUFFICES ASSUME IInv, CountInv, phase \in {"write", "done"}
               PROVE  /\ ToSet(rows) = Instances
                      /\ \A c \in DOMAIN metrics :
                            Cardinality({i \in DOMAIN rows : rows[i].ctxt = c})
                                = Len(metrics[c])
    BY DEF RowsOncePerInstance
  <2>1. rows \in Seq(Row) /\ ToSet(rows) = Instances
    BY DEF IInv, RowsInv
  <2>2. DOMAIN rows = 1..Len(rows)
    BY <2>1
  <2>3. \A c : {i \in DOMAIN rows : rows[i].ctxt = c} = Of(rows, c)
    BY <2>2 DEF Of
  <2> QED
    BY <2>1, <2>3 DEF CountInv
<1> QED
  BY <1>1, <1>2, NextCount, Invariance, PTL DEF Spec

=============================================================================
