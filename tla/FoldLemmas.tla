----------------------------- MODULE FoldLemmas -----------------------------
(***************************************************************************)
(* Lemmas about what is computed along a sequence: the sum of a stack, the *)
(* pieces of a text put together.  They rest on induction over the natural *)
(* numbers, stated for a set instead of a predicate.                       *)
(***************************************************************************)
EXTENDS SequencesExt, Integers, SequenceTheorems, FiniteSetTheorems, TLAPS

-----------------------------------------------------------------------------
(* A set of numbers that is not empty has a least and, if it is bounded, a *)
(* greatest element: the inclusion of finite sets is well-founded, and one *)
(* of the intervals up to (from) an element includes no other.             *)
LEMMA LeastNatural ==
    ASSUME NEW S \in SUBSET Nat, S # {}
    PROVE  \E m \in S : \A k \in S : m <= k
<1> DEFINE F == {1..k : k \in S}
<1>1. F \subseteq FiniteSubsetsOf(Nat)
  <2> SUFFICES ASSUME NEW k \in S PROVE 1..k \in FiniteSubsetsOf(Nat)
    OBVIOUS
  <2>1. 1 \in Int /\ k \in Int
    OBVIOUS
  <2>2. IsFiniteSet(1..k)
    BY <2>1, FS_Interval
  <2> QED
    BY <2>1, <2>2 DEF FiniteSubsetsOf
<1>2. F # {}
  OBVIOUS
<1>3. IsWellFoundedOn(StrictSubsetOrdering(Nat), FiniteSubsetsOf(Nat))
  BY FS_StrictSubsetOrderingWellFounded
<1> HIDE DEF F
<1>4. PICK T \in F : \A U \in F : <<U, T>> \notin StrictSubsetOrdering(Nat)
  BY <1>1, <1>2, <1>3, WFMin
<1>5. PICK m \in S : T = 1..m
  BY DEF F
<1>6. ASSUME NEW k \in S, ~(m <= k) PROVE FALSE
  <2>1. 1..k \in F
    BY DEF F
  <2>2. 1..k \subseteq 1..m /\ m \in 1..m /\ m \notin 1..k
    BY <1>6
  <2>3. 1..k \in SUBSET Nat /\ 1..m \in SUBSET Nat
    OBVIOUS
  <2>4. <<1..k, 1..m>> \in StrictSubsetOrdering(Nat)
    BY <2>2, <2>3 DEF StrictSubsetOrdering
  <2> QED
    BY <1>4, <1>5, <2>1, <2>4
<1> QED
  BY <1>6

LEMMA Induction ==
    ASSUME NEW n \in Nat, NEW S, 0 \in S, \A k \in 0..(n - 1) : k \in S => k + 1 \in S
    PROVE  0..n \subseteq S
<1> SUFFICES ASSUME (0..n) \ S # {} PROVE FALSE
  OBVIOUS
<1>1. (0..n) \ S \in SUBSET Nat
  OBVIOUS
<1>2. PICK m \in (0..n) \ S : \A k \in (0..n) \ S : m <= k
  BY <1>1, LeastNatural
<1>3. m - 1 \in 0..(n - 1) /\ m - 1 \in S
  BY <1>2
<1> QED
  BY <1>2, <1>3

LEMMA FirstIsMin ==
    ASSUME NEW n \in Nat, NEW S \in SUBSET (1..n), S # {}
    PROVE  Min(S) \in S /\ \A j \in S : Min(S) <= j
<1>1. \E m \in S : \A k \in S : m <= k
  BY LeastNatural
<1> QED
  BY <1>1 DEF Min

LEMMA LastIsMax ==
    ASSUME NEW n \in Nat, NEW S \in SUBSET (1..n), S # {}
    PROVE  Max(S) \in S /\ \A j \in S : j <= Max(S)
<1> DEFINE T == {n - k : k \in S}
<1>1. T \in SUBSET Nat /\ T # {}
  <2>1. \A k \in S : n - k \in Nat
    OBVIOUS
  <2> QED
    BY <2>1
<1>2. PICK m \in T : \A k \in T : m <= k
  BY <1>1, LeastNatural
<1>3. PICK k \in S : m = n - k
  OBVIOUS
<1>4. \A j \in S : j <= k
  <2> TAKE j \in S
  <2>1. n - j \in T
    OBVIOUS
  <2>2. n - k <= n - j
    BY <1>2, <1>3, <2>1
  <2> QED
    BY <2>2
<1> QED
  BY <1>4 DEF Max

(* Induction from the end.                                                 *)
LEMMA Downward ==
    ASSUME NEW n \in Nat, NEW S, \A p \in 1..n : (\A q \in (p + 1)..n : q \in S) => p \in S
    PROVE  \A p \in 1..n : p \in S
<1> DEFINE T == (1..n) \ S
<1> SUFFICES ASSUME T # {} PROVE FALSE
  OBVIOUS
<1>1. T \in SUBSET (1..n)
  OBVIOUS
<1>2. Max(T) \in T /\ \A j \in T : j <= Max(T)
  BY <1>1, LastIsMax
<1>3. PICK m \in T : \A j \in T : j <= m
  BY <1>2
<1>4. \A q \in (m + 1)..n : q \in S
  BY <1>3
<1> QED
  BY <1>3, <1>4

-----------------------------------------------------------------------------
(* A function that is computed from its value one step before exists.      *)
Stepwise(f, V, n, b, h) ==
    f \in [0..n -> V] /\ f[0] = b /\ \A i \in 1..n : f[i] = h[i][f[i - 1]]

LEMMA Recursion ==
    ASSUME NEW V, NEW n \in Nat, NEW b \in V, NEW h \in [1..n -> [V -> V]]
    PROVE  \E f : Stepwise(f, V, n, b, h)
<1> DEFINE Is(f, k) == f \in [0..k -> V] /\ f[0] = b /\ \A i \in 1..k : f[i] = h[i][f[i - 1]]
           S == {k \in 0..n : \E f : Is(f, k)}
<1>1. 0 \in S
  <2> DEFINE f == [i \in 0..0 |-> b]
  <2>1. f \in [0..0 -> V] /\ f[0] = b
    OBVIOUS
  <2>2. \A i \in 1..0 : FALSE
    OBVIOUS
  <2> HIDE DEF f
  <2>3. Is(f, 0)
    BY <2>1, <2>2
  <2> QED
    BY <2>3
<1>2. ASSUME NEW k \in 0..(n - 1), k \in S PROVE k + 1 \in S
  <2>1. PICK f : Is(f, k)
    BY <1>2
  <2> DEFINE g == [i \in 0..(k + 1) |-> IF i = k + 1 THEN h[k + 1][f[k]] ELSE f[i]]
  <2>2. h[k + 1] \in [V -> V] /\ f[k] \in V
    BY <2>1
  <2>3. g \in [0..(k + 1) -> V] /\ g[0] = b
    BY <2>1, <2>2
  <2>4. \A i \in 1..(k + 1) : g[i] = h[i][g[i - 1]]
    BY <2>1
  <2> HIDE DEF g
  <2>5. Is(g, k + 1)
    BY <2>3, <2>4
  <2> QED
    BY <2>5
<1> HIDE DEF S
<1>3. 0..n \subseteq S
  BY <1>1, <1>2, Induction
<1>4. n \in S
  BY <1>3
<1> QED
  BY <1>4 DEF S, Stepwise

-----------------------------------------------------------------------------
(* Pieces put together: the whole is the last of the texts one gets by     *)
(* adding piece after piece.                                               *)
Joined(q, f) == f[0] = <<>> /\ \A i \in 1..Len(q) : f[i] = f[i - 1] \o q[i]

LEMMA FlattenIsLast ==
    ASSUME NEW S, NEW q \in Seq(Seq(S)), NEW f \in [0..Len(q) -> Seq(S)], Joined(q, f)
    PROVE  FlattenSeq(q) = f[Len(q)]
<1> DEFINE n == Len(q)
           Eq(g) == g = [i \in 1..n |-> IF i = 1 THEN q[i] ELSE g[i - 1] \o q[i]]
           c == CHOOSE g : Eq(g)
           w == [i \in 1..n |-> f[i]]
<1>1. n \in Nat /\ (n = 0 => q = <<>>) /\ \A i \in 1..n : q[i] \in Seq(S)
  BY EmptySeq, ElementOfSeq
<1>2. FlattenSeq(q) = IF n = 0 THEN q ELSE c[n]
  BY DEF FlattenSeq
<1> HIDE DEF n
<1>3. f \in [0..n -> Seq(S)] /\ f[0] = <<>> /\ \A i \in 1..n : f[i] = f[i - 1] \o q[i]
  BY DEF n, Joined
<1>4. Eq(w)
  <2>1. \A i \in 1..n : f[i] = IF i = 1 THEN q[i] ELSE w[i - 1] \o q[i]
    <3> TAKE i \in 1..n
    <3>1. CASE i = 1
      <4>1. f[i] = f[i - 1] \o q[i] /\ q[i] \in Seq(S)
        BY <1>1, <1>3
      <4>2. i - 1 = 0
        BY <3>1
      <4>3. f[i] = <<>> \o q[i]
        BY <1>3, <4>1, <4>2
      <4> QED
        BY <3>1, <4>1, <4>3, ConcatEmptySeq
    <3>2. CASE i # 1
      <4>1. i - 1 \in 1..n
        BY <1>1, <3>2
      <4>2. w[i - 1] = f[i - 1]
        BY <4>1
      <4> HIDE DEF w
      <4>3. f[i] = f[i - 1] \o q[i]
        BY <1>3
      <4> QED
        BY <3>2, <4>2, <4>3
    <3> QED
      BY <3>1, <3>2
  <2> QED
    BY <2>1
<1>5. Eq(c)
  BY <1>4
<1> HIDE DEF c, w
<1>6. \A i \in 1..n : c[i] = IF i = 1 THEN q[i] ELSE c[i - 1] \o q[i]
  BY <1>5
<1>7. 0..n \subseteq {k \in 0..n : k # 0 => c[k] = f[k]}
  <2> DEFINE T == {k \in 0..n : k # 0 => c[k] = f[k]}
  <2>1. 0 \in T
    BY <1>1
  <2>2. ASSUME NEW k \in 0..(n - 1), k \in T PROVE k + 1 \in T
    <3> DEFINE j == k + 1
    <3>1. j \in 1..n /\ j - 1 = k /\ j # 0 /\ (j = 1 <=> k = 0)
      BY <1>1
    <3> HIDE DEF j
    <3>2. /\ c[j] = IF j = 1 THEN q[j] ELSE c[j - 1] \o q[j]
          /\ f[j] = f[j - 1] \o q[j] /\ q[j] \in Seq(S)
      BY <1>1, <1>3, <1>6, <3>1
    <3>3. CASE k = 0
      <4>1. c[j] = q[j] /\ f[j] = <<>> \o q[j]
        BY <1>3, <3>1, <3>2, <3>3
      <4>2. c[j] = f[j]
        BY <3>2, <4>1, ConcatEmptySeq
      <4> QED
        BY <3>1, <4>2 DEF j
    <3>4. CASE k # 0
      <4>1. c[k] = f[k] /\ j # 1
        BY <2>2, <3>1, <3>4
      <4>2. c[j] = f[j]
        BY <3>1, <3>2, <4>1
      <4> QED
        BY <3>1, <4>2 DEF j
    <3> QED
      BY <3>3, <3>4
  <2> HIDE DEF T
  <2>3. 0..n \subseteq T
    BY <1>1, <2>1, <2>2, Induction
  <2> QED
    BY <2>3 DEF T
<1>8. CASE n = 0
  BY <1>1, <1>2, <1>3, <1>8 DEF n
<1>9. CASE n # 0
  <2>1. n \in 0..n
    BY <1>1
  <2> QED
    BY <1>2, <1>7, <1>9, <2>1 DEF n
<1> QED
  BY <1>8, <1>9

LEMMA JoinedExists ==
    ASSUME NEW S, NEW q \in Seq(Seq(S))
    PROVE  \E f \in [0..Len(q) -> Seq(S)] : Joined(q, f)
<1> DEFINE h == [i \in 1..Len(q) |-> [v \in Seq(S) |-> v \o q[i]]]
<1>1. Len(q) \in Nat /\ <<>> \in Seq(S)
  BY EmptySeq
<1>2. h \in [1..Len(q) -> [Seq(S) -> Seq(S)]]
  <2>1. \A i \in 1..Len(q) : \A v \in Seq(S) : v \o q[i] \in Seq(S)
    BY ElementOfSeq, ConcatProperties
  <2> QED
    BY <2>1
<1>3. \A i \in 1..Len(q) : \A v \in Seq(S) : h[i][v] = v \o q[i]
  OBVIOUS
<1> HIDE DEF h
<1>4. PICK f \in [0..Len(q) -> Seq(S)] : f[0] = <<>> /\ \A i \in 1..Len(q) : f[i] = h[i][f[i - 1]]
  <2>1. \E f : Stepwise(f, Seq(S), Len(q), <<>>, h)
    BY <1>1, <1>2, Recursion
  <2> QED
    BY <2>1 DEF Stepwise
<1>5. \A i \in 1..Len(q) : f[i - 1] \in Seq(S)
  <2> TAKE i \in 1..Len(q)
  <2>1. i - 1 \in 0..Len(q)
    BY <1>1
  <2> QED
    BY <2>1
<1> QED
  BY <1>3, <1>4, <1>5 DEF Joined

(* The whole of one more piece, of no pieces, and that it is a text.       *)
LEMMA FlattenEmpty == FlattenSeq(<<>>) = <<>>
BY EmptySeq DEF FlattenSeq

LEMMA FlattenAppend ==
    ASSUME NEW S, NEW q \in Seq(Seq(S)), NEW e \in Seq(S)
    PROVE  /\ FlattenSeq(q) \in Seq(S)
           /\ FlattenSeq(Append(q, e)) = FlattenSeq(q) \o e
<1> DEFINE n == Len(q)
           r == Append(q, e)
<1>1. PICK f \in [0..n -> Seq(S)] : Joined(q, f)
  BY JoinedExists
<1>2. FlattenSeq(q) = f[n]
  BY <1>1, FlattenIsLast
<1> DEFINE g == [i \in 0..(n + 1) |-> IF i = n + 1 THEN f[n] \o e ELSE f[i]]
<1>3. r \in Seq(Seq(S)) /\ Len(r) = n + 1 /\ r[n + 1] = e /\ \A i \in 1..n : r[i] = q[i]
  BY AppendProperties
<1>4. n \in Nat /\ n \in 0..n
  OBVIOUS
<1> HIDE DEF n, r
<1>5. f[n] \in Seq(S) /\ f[n] \o e \in Seq(S)
  BY <1>1, <1>4, ConcatProperties
<1>6. g \in [0..Len(r) -> Seq(S)]
  BY <1>3, <1>4, <1>5
<1>7. Joined(r, g)
  <2>1. f[0] = <<>> /\ \A i \in 1..n : f[i] = f[i - 1] \o q[i]
    BY <1>1 DEF Joined, n
  <2>2. g[0] = <<>>
    BY <1>4, <2>1
  <2>3. \A i \in 1..(n + 1) : g[i] = g[i - 1] \o r[i]
    <3> TAKE i \in 1..(n + 1)
    <3>1. CASE i = n + 1
      <4>1. i - 1 = n /\ i - 1 \in 0..(n + 1) /\ i \in 0..(n + 1) /\ i - 1 # n + 1
        BY <1>4, <3>1
      <4>2. g[i] = f[n] \o e /\ g[i - 1] = f[n]
        BY <3>1, <4>1
      <4> QED
        BY <1>3, <3>1, <4>2
    <3>2. CASE i # n + 1
      <4>1. i \in 1..n /\ i - 1 \in 0..(n + 1) /\ i \in 0..(n + 1) /\ i - 1 # n + 1
        BY <1>4, <3>2
      <4>2. g[i] = f[i] /\ g[i - 1] = f[i - 1]
        BY <3>2, <4>1
      <4> QED
        BY <1>3, <2>1, <4>1, <4>2
    <3> QED
      BY <3>1, <3>2
  <2> HIDE DEF g
  <2> QED
    BY <1>3, <2>2, <2>3 DEF Joined
<1>8. g[n + 1] = f[n] \o e
  BY <1>4
<1> HIDE DEF g
<1>9. FlattenSeq(r) = g[n + 1]
  BY <1>3, <1>6, <1>7, FlattenIsLast
<1> QED
  BY <1>2, <1>5, <1>8, <1>9 DEF r, n

LEMMA FlattenIn == ASSUME NEW S, NEW q \in Seq(Seq(S)) PROVE FlattenSeq(q) \in Seq(S)
<1>1. <<>> \in Seq(S)
  OBVIOUS
<1> QED
  BY <1>1, FlattenAppend

(* One more piece, of pieces given by number.                              *)
LEMMA FlattenMore ==
    ASSUME NEW S, NEW k \in Nat, NEW f \in [1..(k + 1) -> Seq(S)]
    PROVE  /\ FlattenSeq([i \in 1..k |-> f[i]]) \in Seq(S)
           /\ FlattenSeq(f) = FlattenSeq([i \in 1..k |-> f[i]]) \o f[k + 1]
<1> DEFINE q == [i \in 1..k |-> f[i]]
<1>1. q \in Seq(Seq(S)) /\ Len(q) = k
  <2>1. \A i \in 1..k : f[i] \in Seq(S)
    OBVIOUS
  <2> QED
    BY <2>1, SeqDef
<1>2. f[k + 1] \in Seq(S)
  OBVIOUS
<1>3. Append(q, f[k + 1]) = f
  <2> DEFINE a == Append(q, f[k + 1])
  <2>1. /\ a \in Seq(Seq(S)) /\ Len(a) = k + 1 /\ a[k + 1] = f[k + 1]
        /\ \A i \in 1..k : a[i] = q[i]
    BY <1>1, <1>2, AppendProperties
  <2> HIDE DEF a
  <2>2. a \in [1..(k + 1) -> Seq(S)]
    BY <2>1, LenProperties
  <2>3. \A i \in 1..(k + 1) : a[i] = f[i]
    <3> TAKE i \in 1..(k + 1)
    <3>1. CASE i = k + 1
      BY <2>1, <3>1
    <3>2. CASE i # k + 1
      <4>1. i \in 1..k
        BY <3>2
      <4> QED
        BY <2>1, <4>1
    <3> QED
      BY <3>1, <3>2
  <2>4. a = f
    BY <2>2, <2>3
  <2> QED
    BY <2>4 DEF a
<1> HIDE DEF q
<1>4. FlattenSeq(q) \in Seq(S) /\ FlattenSeq(Append(q, f[k + 1])) = FlattenSeq(q) \o f[k + 1]
  BY <1>1, <1>2, FlattenAppend
<1> QED
  BY <1>3, <1>4 DEF q

-----------------------------------------------------------------------------
(* What a fold over the elements of a sequence computes: from b, each      *)
(* element by its own function.  The library folds over sets of positions, *)
(* the greatest first.                                                     *)
FoldsOver(it, V, n, b, h) ==
    /\ it \in [SUBSET (1..n) -> V]
    /\ it[{}] = b
    /\ \A t \in SUBSET (1..n) : t # {} => it[t] = h[Max(t)][it[t \ {Max(t)}]]

LEMMA FoldExists ==
    ASSUME NEW V, NEW n \in Nat, NEW b \in V, NEW h \in [1..n -> [V -> V]]
    PROVE  \E it : FoldsOver(it, V, n, b, h)
<1> DEFINE S == {k \in 0..n : \E it : FoldsOver(it, V, k, b, h)}
<1>1. 0 \in S
  <2> DEFINE it == [t \in SUBSET (1..0) |-> b]
  <2>1. 1..0 = {}
    OBVIOUS
  <2>2. it \in [SUBSET (1..0) -> V] /\ it[{}] = b /\ \A t \in SUBSET (1..0) : t = {}
    BY <2>1
  <2> HIDE DEF it
  <2>3. FoldsOver(it, V, 0, b, h)
    BY <2>2 DEF FoldsOver
  <2> QED
    BY <2>3
<1>2. ASSUME NEW k \in 0..(n - 1), k \in S PROVE k + 1 \in S
  <2>1. PICK it : FoldsOver(it, V, k, b, h)
    BY <1>2
  <2> DEFINE m == k + 1
             g == [t \in SUBSET (1..m) |-> IF m \in t THEN h[m][it[t \ {m}]] ELSE it[t]]
  <2>2. /\ m \in 1..n /\ k \in Nat /\ m \in Nat /\ 1..k \subseteq 1..m /\ m \notin 1..k
        /\ \A i \in 1..m : i <= m
        /\ \A t \in SUBSET (1..m) : t \ {m} \in SUBSET (1..k) /\ (m \notin t => t \in SUBSET (1..k))
    OBVIOUS
  <2>3. h[m] \in [V -> V]
    BY <2>2
  <2> HIDE DEF m
  <2>4. \A t \in SUBSET (1..m) : g[t] = IF m \in t THEN h[m][it[t \ {m}]] ELSE it[t]
    OBVIOUS
  <2>5. g \in [SUBSET (1..m) -> V]
    <3>1. \A t \in SUBSET (1..m) : (IF m \in t THEN h[m][it[t \ {m}]] ELSE it[t]) \in V
      BY <2>1, <2>2, <2>3 DEF FoldsOver
    <3> QED
      BY <3>1
  <2> HIDE DEF g
  <2>6. g[{}] = b
    BY <2>1, <2>4 DEF FoldsOver
  <2>7. ASSUME NEW t \in SUBSET (1..m), t # {} PROVE g[t] = h[Max(t)][g[t \ {Max(t)}]]
    <3>1. Max(t) \in t /\ \A j \in t : j <= Max(t)
      BY <2>2, <2>7, LastIsMax
    <3>2. CASE m \in t
      <4> DEFINE x == Max(t)
      <4> HIDE DEF x
      <4>0. x \in 1..m /\ m <= x
        BY <3>1, <3>2 DEF x
      <4>1. Max(t) = m
        BY <2>2, <4>0 DEF x
      <4>2. g[t \ {m}] = it[t \ {m}]
        BY <2>4
      <4> QED
        BY <2>4, <3>2, <4>1, <4>2
    <3>3. CASE m \notin t
      <4>1. g[t] = it[t] /\ g[t \ {Max(t)}] = it[t \ {Max(t)}]
        BY <2>4, <3>3
      <4> QED
        BY <2>1, <2>2, <2>7, <3>3, <4>1 DEF FoldsOver
    <3> QED
      BY <3>2, <3>3
  <2>8. FoldsOver(g, V, m, b, h)
    BY <2>5, <2>6, <2>7 DEF FoldsOver
  <2>9. k + 1 \in 0..n
    OBVIOUS
  <2> QED
    BY <2>8, <2>9 DEF m
<1> HIDE DEF S
<1>3. 0..n \subseteq S
  BY <1>1, <1>2, Induction
<1>4. n \in S
  BY <1>3
<1> QED
  BY <1>4 DEF S

(* The parts of a sequence up to a position, as such a fold takes them.    *)
LEMMA Intervals ==
    ASSUME NEW k \in Nat, k # 0
    PROVE  1..k # {} /\ Max(1..k) = k /\ (1..k) \ {k} = 1..(k - 1)
<1>1. 1..k \in SUBSET (1..k) /\ k \in 1..k /\ 1..k # {} /\ (1..k) \ {k} = 1..(k - 1)
  OBVIOUS
<1>2. Max(1..k) \in 1..k /\ \A j \in 1..k : j <= Max(1..k)
  BY <1>1, LastIsMax
<1>3. k <= Max(1..k)
  BY <1>1, <1>2
<1> DEFINE m == Max(1..k)
<1> HIDE DEF m
<1>4. m \in 1..k /\ k <= m
  BY <1>2, <1>3 DEF m
<1>5. m = k
  BY <1>4
<1> QED
  BY <1>1, <1>5 DEF m


-----------------------------------------------------------------------------
(* Three texts put together, in either order.  The two definitions keep    *)
(* the provers from putting together more than the three texts named.      *)
ThreeTexts(S, a, b, c) == a \in Seq(S) /\ b \in Seq(S) /\ c \in Seq(S)
EitherOrder(a, b, c) == (a \o b) \o c = a \o (b \o c)

LEMMA Associates == ASSUME NEW S, NEW a, NEW b, NEW c, ThreeTexts(S, a, b, c) PROVE EitherOrder(a, b, c)
<1>1. a \in Seq(S) /\ b \in Seq(S) /\ c \in Seq(S)
  BY DEF ThreeTexts
<1>2. (a \o b) \o c = a \o (b \o c)
  BY <1>1, ConcatAssociative, SMTT(30)
<1> QED
  BY <1>2 DEF EitherOrder

=============================================================================
