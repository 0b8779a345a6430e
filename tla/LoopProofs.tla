----------------------------- MODULE LoopProofs -----------------------------
(***************************************************************************)
(* Theorems about Render, for every set of nodes and jobs: what @index,    *)
(* @first and @last are read as belongs to the innermost loop that runs;   *)
(* the json references of the calls in progress are balanced, and those of *)
(* a call that is over have all been put; the code that runs belongs to a  *)
(* template that is not destroyed, and so does each inline partial in      *)
(* scope where every partial has a frame of its own; and a call of         *)
(* well-formed templates reads no value that was never written.            *)
(***************************************************************************)
EXTENDS RenderProofs, FoldLemmas, NaturalsInduction, WellFoundedInduction

-----------------------------------------------------------------------------
(* The invariant: the frame that a loop pushed tells its variables, no     *)
(* other frame has private data, and the frames of later calls lie above   *)
(* those of earlier ones.                                                  *)

Tells(private, coll, i) ==
    /\ Has(private, "@index") /\ Member(private, "@index") = Num(i - 1)
    /\ Has(private, "@first") /\ Member(private, "@first") = Bool(i = 1)
    /\ Has(private, "@last")  /\ Member(private, "@last")  = Bool(i = Len(coll[2]))

(* Only the frame of a loop has private data or owns references.           *)
Bare(f)     == f.private = Null /\ f.refs = 0
Keeps(f, g) == f.private = g.private /\ f.refs = g.refs

(* A callback owns none either.                                            *)
Free(a) == a.kind = "fn" => a.refs = 0

Ceiling(a) == a.base.frames + FramesHeld(a)
LoopAt(a, i) == a.kind = "each" /\ i = a.base.frames + 1

Loops(c, s) ==
    /\ \A k \in 1..Len(c) : \A i \in 1..Len(s) :
          LoopAt(c[k], i) => Tells(s[i].private, c[k].value, c[k].iter)
    /\ \A i \in 1..Len(s) : Bare(s[i]) \/ \E k \in 1..Len(c) : LoopAt(c[k], i)
    /\ \A k, l \in 1..Len(c) : k < l => Ceiling(c[k]) <= c[l].base.frames
    /\ \A k \in 1..Len(c) : Free(c[k])

LInv == status = "running" => Loops(ctl, frames)

(* What Loops depends on in an activation.                                 *)
Same(a, b) == Alike(a, b) /\ a.value = b.value /\ a.iter = b.iter /\ a.refs = b.refs

LEMMA SameLoop ==
    ASSUME NEW a, NEW b, Same(a, b)
    PROVE  /\ Ceiling(a) = Ceiling(b) /\ a.base = b.base /\ a.kind = b.kind
           /\ a.value = b.value /\ a.iter = b.iter
           /\ (Free(a) <=> Free(b))
           /\ \A i : LoopAt(a, i) <=> LoopAt(b, i)
BY DEF Free, Same, Alike, Ceiling, FramesHeld, LoopAt

-----------------------------------------------------------------------------
(* The ways the calls and the frames change together.                      *)
LEMMA LoopsStay ==
    ASSUME NEW c, NEW s, Loops(c, s),
           NEW d, Len(d) = Len(c), \A k \in 1..Len(c) : Same(d[k], c[k]),
           NEW t, Len(t) = Len(s), \A i \in 1..Len(s) : Keeps(t[i], s[i])
    PROVE  Loops(d, t)
<1> DEFINE n == Len(c)
           m == Len(s)
<1>1. \A k \in 1..n : /\ Ceiling(d[k]) = Ceiling(c[k]) /\ d[k].base = c[k].base
                      /\ (Free(d[k]) <=> Free(c[k]))
                      /\ d[k].value = c[k].value /\ d[k].iter = c[k].iter
                      /\ \A i : LoopAt(d[k], i) <=> LoopAt(c[k], i)
  BY SameLoop
<1> HIDE DEF n, m
<1>2. Len(d) = n /\ Len(c) = n /\ Len(t) = m /\ Len(s) = m
  BY DEF n, m
<1>3. \A i \in 1..m : Keeps(t[i], s[i])
  BY <1>2
<1> QED
  BY <1>1, <1>2, <1>3 DEF Loops, Keeps, Bare

LEMMA LoopsPush ==
    ASSUME NEW c, Len(c) \in Nat, NEW s, Len(s) \in Nat, Loops(c, s),
           \A k \in 1..Len(c) : /\ Ceiling(c[k]) <= Len(s) /\ c[k].base.frames \in Nat
                                /\ c[k].kind = "each" => c[k].base.frames < Len(s),
           NEW d, Len(d) = Len(c) + 1, \A k \in 1..Len(c) : Same(d[k], c[k]),
           NEW t, Len(t) \in Nat, Len(s) <= Len(t), \A i \in 1..Len(s) : Keeps(t[i], s[i]),
           NEW a, d[Len(c) + 1] = a, a.base.frames = Len(s), Free(a),
           a.kind = "each" => Len(t) = Len(s) + 1 /\ Tells(t[Len(s) + 1].private, a.value, a.iter),
           a.kind # "each" => \A i \in (Len(s) + 1)..Len(t) : Bare(t[i])
    PROVE  Loops(d, t)
<1> DEFINE n == Len(c)
           m == Len(s)
           q == Len(t)
<1>1. n \in Nat /\ m \in Nat /\ q \in Nat /\ m <= q /\ Len(d) = n + 1 /\ d[n + 1] = a
      /\ a.base.frames = m
  OBVIOUS
<1>2. /\ \A k \in 1..n : /\ Ceiling(d[k]) = Ceiling(c[k]) /\ d[k].base = c[k].base
                         /\ d[k].value = c[k].value /\ d[k].iter = c[k].iter
                         /\ \A i : LoopAt(d[k], i) <=> LoopAt(c[k], i)
      /\ \A k \in 1..n : /\ Ceiling(c[k]) <= m /\ c[k].base.frames \in Nat
                         /\ c[k].kind = "each" => c[k].base.frames < m
  <2>1. ASSUME NEW k \in 1..n
        PROVE  /\ Ceiling(d[k]) = Ceiling(c[k]) /\ d[k].base = c[k].base
               /\ d[k].value = c[k].value /\ d[k].iter = c[k].iter
               /\ \A i : LoopAt(d[k], i) <=> LoopAt(c[k], i)
    <3>1. Same(d[k], c[k])
      OBVIOUS
    <3> QED
      BY <3>1, SameLoop
  <2>2. \A k \in 1..n : /\ Ceiling(c[k]) <= m /\ c[k].base.frames \in Nat
                        /\ c[k].kind = "each" => c[k].base.frames < m
    OBVIOUS
  <2> QED
    BY <2>1, <2>2
<1>3. /\ \A k \in 1..n : \A i \in 1..m : LoopAt(c[k], i) => Tells(s[i].private, c[k].value, c[k].iter)
      /\ \A i \in 1..m : Bare(s[i]) \/ \E k \in 1..n : LoopAt(c[k], i)
      /\ \A k, l \in 1..n : k < l => Ceiling(c[k]) <= c[l].base.frames
  BY DEF Loops
<1>4. \A i \in 1..m : Keeps(t[i], s[i])
  OBVIOUS
<1>5. /\ a.kind = "each" => q = m + 1 /\ Tells(t[m + 1].private, a.value, a.iter)
      /\ a.kind # "each" => \A i \in (m + 1)..q : Bare(t[i])
  OBVIOUS
<1> HIDE DEF n, m, q
<1>6. \A k \in 1..(n + 1) : k = n + 1 \/ k \in 1..n
  BY <1>1
<1>7. \A i \in 1..q : i \in 1..m \/ i \in (m + 1)..q
  BY <1>1
<1>8. n + 1 \in 1..(n + 1) /\ 1..n \subseteq 1..(n + 1)
  BY <1>1
<1>9. ASSUME NEW k \in 1..(n + 1), NEW i \in 1..q, LoopAt(d[k], i)
      PROVE  Tells(t[i].private, d[k].value, d[k].iter)
  <2>1. CASE k = n + 1
    <3>1. a.kind = "each" /\ i = m + 1
      BY <1>1, <1>9, <2>1 DEF LoopAt
    <3> QED
      BY <1>1, <1>5, <2>1, <3>1
  <2>2. CASE k \in 1..n
    <3>1. LoopAt(c[k], i) /\ c[k].kind = "each" /\ i = c[k].base.frames + 1
      BY <1>2, <1>9, <2>2 DEF LoopAt
    <3>2. i \in 1..m
      <4>1. c[k].base.frames < m /\ c[k].base.frames \in Nat
        BY <1>2, <2>2, <3>1
      <4>2. PICK f \in Nat : f < m /\ i = f + 1
        BY <3>1, <4>1
      <4> QED
        BY <1>1, <4>2
    <3> QED
      BY <1>2, <1>3, <1>4, <2>2, <3>1, <3>2 DEF Keeps
  <2> QED
    BY <1>6, <2>1, <2>2
<1>10. ASSUME NEW i \in 1..q
       PROVE  Bare(t[i]) \/ \E k \in 1..(n + 1) : LoopAt(d[k], i)
  <2>1. CASE i \in 1..m
    BY <1>2, <1>3, <1>4, <1>8, <2>1 DEF Keeps, Bare
  <2>2. CASE i \in (m + 1)..q /\ a.kind # "each"
    BY <1>5, <2>2
  <2>3. CASE i \in (m + 1)..q /\ a.kind = "each"
    <3>1. i = m + 1
      BY <1>1, <1>5, <2>3
    <3>2. LoopAt(d[n + 1], i)
      BY <1>1, <2>3, <3>1 DEF LoopAt
    <3> QED
      BY <1>8, <3>2
  <2> QED
    BY <1>7, <2>1, <2>2, <2>3
<1>11. ASSUME NEW k \in 1..(n + 1), NEW l \in 1..(n + 1), k < l
       PROVE  Ceiling(d[k]) <= d[l].base.frames
  <2>1. k \in 1..n
    BY <1>1, <1>11
  <2>2. CASE l = n + 1
    <3>1. d[l].base.frames = m
      BY <1>1, <2>2
    <3>2. Ceiling(d[k]) = Ceiling(c[k]) /\ Ceiling(c[k]) <= m
      BY <1>2, <2>1
    <3> QED
      BY <3>1, <3>2
  <2>3. CASE l \in 1..n
    BY <1>2, <1>3, <1>11, <2>1, <2>3
  <2> QED
    BY <1>6, <2>2, <2>3
<1>12. ASSUME NEW k \in 1..(n + 1) PROVE Free(d[k])
  <2>1. CASE k = n + 1
    BY <1>1, <2>1
  <2>2. CASE k \in 1..n
    <3>1. Len(c) = n /\ \A j \in 1..n : Same(d[j], c[j])
      BY DEF n
    <3> QED
      BY <2>2, <3>1, SameLoop DEF Loops
  <2> QED
    BY <1>6, <2>1, <2>2
<1> QED
  BY <1>1, <1>9, <1>10, <1>11, <1>12 DEF Loops, q

LEMMA LoopsPop ==
    ASSUME NEW c, Len(c) \in Nat, Len(c) # 0, NEW s, Len(s) \in Nat, Loops(c, s),
           \A k \in 1..Len(c) : c[k].base.frames \in Nat, c[Len(c)].base.frames <= Len(s),
           NEW d, Len(d) = Len(c) - 1, \A k \in 1..(Len(c) - 1) : d[k] = c[k],
           NEW t, Len(t) = c[Len(c)].base.frames, \A i \in 1..Len(t) : t[i] = s[i]
    PROVE  Loops(d, t)
<1> DEFINE n == Len(c)
           m == Len(s)
           q == Len(t)
<1>1. n \in Nat /\ n # 0 /\ m \in Nat /\ q \in Nat /\ q <= m /\ Len(d) = n - 1 /\ q = c[n].base.frames
  <2>1. n \in 1..n
    <3> HIDE DEF n
    <3> QED
      BY DEF n
  <2> QED
    BY <2>1
<1>2. /\ \A k \in 1..n : \A i \in 1..m : LoopAt(c[k], i) => Tells(s[i].private, c[k].value, c[k].iter)
      /\ \A i \in 1..m : Bare(s[i]) \/ \E k \in 1..n : LoopAt(c[k], i)
      /\ \A k, l \in 1..n : k < l => Ceiling(c[k]) <= c[l].base.frames
  BY DEF Loops
<1>3. /\ \A k \in 1..(n - 1) : d[k] = c[k]
      /\ \A i \in 1..q : t[i] = s[i]
  OBVIOUS
<1> HIDE DEF n, m, q
<1>4. 1..(n - 1) \subseteq 1..n /\ 1..q \subseteq 1..m /\ \A k \in 1..n : k = n \/ k \in 1..(n - 1)
  BY <1>1
<1>5. ASSUME NEW i \in 1..q PROVE ~LoopAt(c[n], i)
  BY <1>1 DEF LoopAt
<1>6. \A i \in 1..q : Bare(t[i]) \/ \E k \in 1..(n - 1) : LoopAt(d[k], i)
  BY <1>2, <1>3, <1>4, <1>5
<1>7. \A k \in 1..(n - 1) : \A i \in 1..q : LoopAt(d[k], i) => Tells(t[i].private, d[k].value, d[k].iter)
  BY <1>2, <1>3, <1>4
<1>8. \A k, l \in 1..(n - 1) : k < l => Ceiling(d[k]) <= d[l].base.frames
  BY <1>2, <1>3, <1>4
<1> QED
  BY <1>1, <1>6, <1>7, <1>8 DEF Loops, q

LEMMA LoopsTurn ==   \* the next iteration of the innermost call, a loop
    ASSUME NEW c, Len(c) \in Nat, Len(c) # 0, NEW s, Len(s) \in Nat, Loops(c, s),
           \A k \in 1..Len(c) : c[k].base.frames \in Nat,
           LoopAt(c[Len(c)], Len(s)),
           NEW d, Len(d) = Len(c), \A k \in 1..(Len(c) - 1) : d[k] = c[k],
           Alike(d[Len(c)], c[Len(c)]),
           NEW t, Len(t) = Len(s), \A i \in 1..(Len(s) - 1) : t[i] = s[i],
           Tells(t[Len(s)].private, d[Len(c)].value, d[Len(c)].iter)
    PROVE  Loops(d, t)
<1> DEFINE n == Len(c)
           m == Len(s)
<1>1. n \in Nat /\ n # 0 /\ m \in Nat /\ Len(d) = n /\ Len(t) = m
  OBVIOUS
<1>2. /\ \A k \in 1..n : \A i \in 1..m : LoopAt(c[k], i) => Tells(s[i].private, c[k].value, c[k].iter)
      /\ \A i \in 1..m : Bare(s[i]) \/ \E k \in 1..n : LoopAt(c[k], i)
      /\ \A k, l \in 1..n : k < l => Ceiling(c[k]) <= c[l].base.frames
  BY DEF Loops
<1>3. /\ \A k \in 1..(n - 1) : d[k] = c[k]
      /\ \A i \in 1..(m - 1) : t[i] = s[i]
      /\ \A k \in 1..n : c[k].base.frames \in Nat
      /\ LoopAt(c[n], m) /\ Alike(d[n], c[n]) /\ Tells(t[m].private, d[n].value, d[n].iter)
  OBVIOUS
<1> HIDE DEF n, m
<1>4. /\ \A k \in 1..n : k = n \/ k \in 1..(n - 1)
      /\ \A i \in 1..m : i = m \/ i \in 1..(m - 1)
      /\ n \in 1..n /\ 1..(n - 1) \subseteq 1..n /\ 1..(m - 1) \subseteq 1..m
  BY <1>1
<1>5. c[n].kind = "each" /\ c[n].base.frames = m - 1 /\ d[n].kind = "each" /\ d[n].base = c[n].base
  <2>1. LoopAt(c[n], m) /\ Alike(d[n], c[n])
    BY <1>3
  <2>2. c[n].base.frames \in Nat /\ m \in Nat
    BY <1>1, <1>3, <1>4
  <2> QED
    BY <2>1, <2>2 DEF LoopAt, Alike
<1>6. \A k \in 1..n : /\ \A i : LoopAt(d[k], i) <=> LoopAt(c[k], i)
                      /\ Ceiling(d[k]) = Ceiling(c[k]) /\ d[k].base = c[k].base
  BY <1>3, <1>4 DEF Alike, Ceiling, LoopAt, FramesHeld
<1>7. ASSUME NEW k \in 1..(n - 1) PROVE ~LoopAt(c[k], m)
  <2>1. Ceiling(c[k]) <= m - 1 /\ k \in 1..n
    <3>1. k \in 1..n /\ k < n
      BY <1>1
    <3> QED
      BY <1>2, <1>4, <1>5, <3>1
  <2>2. c[k].base.frames \in Nat
    BY <1>3, <2>1
  <2>3. c[k].kind = "each" => Ceiling(c[k]) = c[k].base.frames + 1
    BY DEF Ceiling, FramesHeld
  <2> QED
    BY <1>1, <2>1, <2>2, <2>3 DEF LoopAt
<1>8. ASSUME NEW k \in 1..n, NEW i \in 1..m, LoopAt(d[k], i)
      PROVE  Tells(t[i].private, d[k].value, d[k].iter)
  <2>1. LoopAt(c[k], i)
    BY <1>6, <1>8
  <2>2. CASE k = n
    <3>1. i = m
      BY <1>1, <1>5, <2>1, <2>2 DEF LoopAt
    <3> QED
      BY <1>3, <2>2, <3>1
  <2>3. CASE k \in 1..(n - 1)
    <3>1. i \in 1..(m - 1)
      BY <1>4, <1>7, <2>1, <2>3
    <3> QED
      BY <1>2, <1>3, <2>1, <2>3, <3>1
  <2> QED
    BY <1>4, <2>2, <2>3
<1>9. ASSUME NEW i \in 1..m
      PROVE  Bare(t[i]) \/ \E k \in 1..n : LoopAt(d[k], i)
  <2>1. CASE i = m
    BY <1>3, <1>4, <1>6, <2>1
  <2>2. CASE i \in 1..(m - 1)
    BY <1>2, <1>3, <1>6, <2>2
  <2> QED
    BY <1>4, <2>1, <2>2
<1>10. \A k, l \in 1..n : k < l => Ceiling(d[k]) <= d[l].base.frames
  BY <1>2, <1>6
<1>11. \A k \in 1..n : Free(d[k])
  <2>1. \A k \in 1..n : Free(c[k])
    BY DEF Loops, n
  <2> QED
    BY <1>3, <1>4, <1>5, <2>1 DEF Free
<1> QED
  BY <1>1, <1>8, <1>9, <1>10, <1>11 DEF Loops

-----------------------------------------------------------------------------
(* The frames of a loop.                                                   *)
LEMMA Found ==
    ASSUME NEW v, IsObj(v), v # Unset, NEW i \in 1..Len(v[2]),
           \A j \in 1..Len(v[2]) : v[2][j][1] = v[2][i][1] => j = i
    PROVE  Has(v, v[2][i][1]) /\ Member(v, v[2][i][1]) = v[2][i][2]
<1> DEFINE key == v[2][i][1]
<1>1. Has(v, key)
  BY DEF Has
<1>2. (CHOOSE j \in 1..Len(v[2]) : v[2][j][1] = key) = i
  OBVIOUS
<1> QED
  BY <1>1, <1>2 DEF Member

LEMMA KeyFirst ==
    ASSUME NEW k, NEW a, NEW b, NEW c
    PROVE  LET m == <<k>> \o <<a, b, c>> IN
           Len(m) = 4 /\ m[1] = k /\ m[2] = a /\ m[3] = b /\ m[4] = c
<1> DEFINE S == {k, a, b, c}
           p == <<k>>
           q == <<a, b, c>>
<1>1. p \in Seq(S) /\ q \in Seq(S) /\ Len(p) = 1 /\ Len(q) = 3
      /\ p[1] = k /\ q[1] = a /\ q[2] = b /\ q[3] = c
  OBVIOUS
<1> HIDE DEF p, q, S
<1>2. Len(p \o q) = 1 + 3 /\ \A i \in 1..(1 + 3) : (p \o q)[i] = IF i <= 1 THEN p[i] ELSE q[i - 1]
  <2>1. /\ Len(p \o q) = Len(p) + Len(q)
        /\ \A i \in 1..Len(p) + Len(q) : (p \o q)[i] = IF i <= Len(p) THEN p[i] ELSE q[i - Len(p)]
    BY <1>1, ConcatProperties
  <2> QED
    BY <1>1, <2>1
<1>3. 1 \in 1..(1 + 3) /\ 2 \in 1..(1 + 3) /\ 3 \in 1..(1 + 3) /\ 4 \in 1..(1 + 3)
  OBVIOUS
<1>4. Len(p \o q) = 4 /\ (p \o q)[1] = k /\ (p \o q)[2] = a /\ (p \o q)[3] = b /\ (p \o q)[4] = c
  BY <1>1, <1>2, <1>3
<1> QED
  BY <1>4 DEF p, q

LEMMA LoopTells ==
    ASSUME NEW n, NEW coll, NEW i PROVE Tells(LoopFrame(n, coll, i).private, coll, i)
<1> DEFINE a == <<"@index", Num(i - 1)>>
           b == <<"@first", Bool(i = 1)>>
           c == <<"@last", Bool(i = Len(coll[2]))>>
           K == <<"@key", Str(coll[2][i][1])>>
           ms == IF IsArr(coll) THEN <<a, b, c>> ELSE <<K>> \o <<a, b, c>>
           v == LoopFrame(n, coll, i).private
<1>1. v = Obj(ms)
  <2>1. CASE IsArr(coll)
    <3>1. <<>> \o <<a, b, c>> = <<a, b, c>>
      OBVIOUS
    <3> QED
      BY <2>1, <3>1 DEF LoopFrame, NewFrame
  <2>2. CASE ~IsArr(coll)
    BY <2>2 DEF LoopFrame, NewFrame
  <2> QED
    BY <2>1, <2>2
<1>2. IsObj(v) /\ v[2] = ms /\ v # Unset
  BY <1>1 DEF IsObj, Obj, Unset
<1>3. a[1] = "@index" /\ b[1] = "@first" /\ c[1] = "@last" /\ K[1] = "@key"
      /\ a[2] = Num(i - 1) /\ b[2] = Bool(i = 1) /\ c[2] = Bool(i = Len(coll[2]))
  OBVIOUS
<1> HIDE DEF a, b, c, K, v
<1>4. PICK o \in 0..1 : /\ Len(ms) = 3 + o /\ ms[1 + o] = a /\ ms[2 + o] = b /\ ms[3 + o] = c
                        /\ o = 1 => ms[1] = K
  <2>1. CASE IsArr(coll)
    <3>1. Len(ms) = 3 /\ ms[1] = a /\ ms[2] = b /\ ms[3] = c
      BY <2>1
    <3> WITNESS 0 \in 0..1
    <3> QED
      BY <3>1
  <2>2. CASE ~IsArr(coll)
    <3>1. Len(ms) = 4 /\ ms[1] = K /\ ms[2] = a /\ ms[3] = b /\ ms[4] = c
      BY <2>2, KeyFirst
    <3> WITNESS 1 \in 0..1
    <3> QED
      BY <3>1
  <2> QED
    BY <2>1, <2>2
<1> HIDE DEF ms
<1>5. \A j \in 1..Len(ms) : j \in {1 + o, 2 + o, 3 + o} \/ (o = 1 /\ j = 1)
  BY <1>4
<1>6. {1 + o, 2 + o, 3 + o} \subseteq 1..Len(ms) /\ 1 + o # 2 + o /\ 1 + o # 3 + o /\ 2 + o # 3 + o
  BY <1>4
<1>7. \A j \in 1..Len(ms) : /\ ms[j][1] = "@index" => j = 1 + o
                            /\ ms[j][1] = "@first" => j = 2 + o
                            /\ ms[j][1] = "@last"  => j = 3 + o
  BY <1>3, <1>4, <1>5
<1>8. Has(v, "@index") /\ Member(v, "@index") = Num(i - 1)
  BY <1>2, <1>3, <1>4, <1>6, <1>7, Found
<1>9. Has(v, "@first") /\ Member(v, "@first") = Bool(i = 1)
  BY <1>2, <1>3, <1>4, <1>6, <1>7, Found
<1>10. Has(v, "@last") /\ Member(v, "@last") = Bool(i = Len(coll[2]))
  BY <1>2, <1>3, <1>4, <1>6, <1>7, Found
<1> QED
  BY <1>8, <1>9, <1>10 DEF Tells, v


-----------------------------------------------------------------------------
(* The state in which an action is taken.                                  *)
LEMMA CallFacts ==
    ASSUME IInv, LInv, status = "running"
    PROVE  /\ Stack(ctl) /\ Len(ctl) \in Nat /\ Len(ctl) # 0 /\ ctl[Len(ctl)] = Top
           /\ Stack(frames) /\ Len(frames) \in Nat /\ Len(frames) # 0
           /\ Loops(ctl, frames)
           /\ \A k \in 1..Len(ctl) : /\ Ceiling(ctl[k]) <= Len(frames) /\ ctl[k].base.frames \in Nat
                                     /\ ctl[k].kind = "each" => ctl[k].base.frames < Len(frames)
           /\ Ceiling(Top) = Len(frames) /\ Top.base.frames \in Nat /\ Top.base.frames <= Len(frames)
<1> DEFINE n == Len(ctl)
           m == Len(frames)
<1>1. Stack(ctl) /\ Len(ctl) \in Nat /\ Len(ctl) # 0 /\ Stack(frames) /\ Len(frames) \in Nat
      /\ Len(frames) # 0
  BY StateFacts DEF IInv, TypeOK, CallStack, Chain, Base
<1>2. Loops(ctl, frames)
  BY DEF LInv
<1>3. Ceiling(Top) = m /\ Top.base.frames \in Nat /\ Top.base.frames <= m /\ ctl[n] = Top
  <2>1. m = Top.base.frames + FramesHeld(Top) /\ Top.base.frames \in Nat /\ FramesHeld(Top) \in Nat
    BY Below, HeldNat
  <2> HIDE DEF m
  <2> QED
    BY <2>1 DEF Ceiling, Top
<1>4. \A k, l \in 1..n : k < l => Ceiling(ctl[k]) <= ctl[l].base.frames
  BY <1>2 DEF Loops
<1>5. \A k \in 1..n : ctl[k].base.frames \in Nat /\ FramesHeld(ctl[k]) \in Nat
  BY HeldNat DEF IInv, TypeOK, CallStack, IsActivation
<1> HIDE DEF n, m
<1>6. ASSUME NEW k \in 1..n
      PROVE  /\ Ceiling(ctl[k]) <= m /\ ctl[k].base.frames \in Nat
             /\ ctl[k].kind = "each" => ctl[k].base.frames < m
  <2>1. Ceiling(ctl[k]) \in Nat /\ m \in Nat
    BY <1>1, <1>5 DEF Ceiling, m
  <2>2. Ceiling(ctl[k]) <= m
    <3>1. CASE k = n
      BY <1>3, <2>1, <3>1
    <3>2. CASE k # n
      <4>1. n \in 1..n /\ k < n
        BY <1>1, <3>2 DEF n
      <4>2. Ceiling(ctl[k]) <= Top.base.frames
        BY <1>3, <1>4, <4>1
      <4> QED
        BY <1>3, <2>1, <4>2
    <3> QED
      BY <3>1, <3>2
  <2>3. ctl[k].kind = "each" => Ceiling(ctl[k]) = ctl[k].base.frames + 1
    BY DEF Ceiling, FramesHeld
  <2> QED
    BY <1>5, <2>1, <2>2, <2>3
<1> QED
  BY <1>1, <1>2, <1>3, <1>6 DEF n, m

(* Of the calls, a statement changes a program counter only.               *)
LEMMA AdvancedSame ==
    ASSUME IInv, status = "running"
    PROVE  /\ Stack(Advanced) /\ Len(Advanced) = Len(ctl)
           /\ \A k \in 1..Len(ctl) : Same(Advanced[k], ctl[k])
<1> DEFINE a == [Top EXCEPT !.pc = Top.pc + 1]
<1>1. Stack(Advanced) /\ Len(Advanced) = Len(ctl)
  BY AdvancedFacts
<1>2. Same(a, Top)
  <2>1. DOMAIN Top = {"kind", "node", "code", "pc", "tmpl", "own", "refs",
                      "value", "iter", "calls", "base"}
    BY StateFacts DEF IsActivation
  <2> QED
    BY <2>1 DEF Same, Alike
<1>3. Advanced = [ctl EXCEPT ![Len(ctl)] = a]
  BY DEF Advanced, Top
<1>4. DOMAIN ctl = 1..Len(ctl)
  BY Height DEF IInv, TypeOK, CallStack
<1> HIDE DEF a
<1>5. \A k \in 1..Len(ctl) : Advanced[k] = IF k = Len(ctl) THEN a ELSE ctl[k]
  BY <1>3, <1>4
<1>6. \A k \in 1..Len(ctl) : Same(ctl[k], ctl[k])
  BY DEF Same, Alike
<1> QED
  BY <1>1, <1>2, <1>5, <1>6 DEF Top

(* No call and no frame comes or goes.                                     *)
LEMMA StepStay ==
    ASSUME IInv, LInv, status = "running", ctl' = Advanced,
           Len(frames') = Len(frames),
           \A i \in 1..Len(frames) : Keeps(frames'[i], frames[i])
    PROVE  LInv'
<1>1. Loops(ctl', frames')
  BY CallFacts, AdvancedSame, LoopsStay
<1> QED
  BY <1>1 DEF LInv

(* A call: what it pushes has private data only if it is a loop.           *)
LEMMA StepEnter ==
    ASSUME IInv, LInv, status = "running", NEW act, Enter(act), act.base = Heights, act.kind # "fn",
           Len(frames') \in Nat, Len(frames) <= Len(frames'),
           \A i \in 1..Len(frames) : Keeps(frames'[i], frames[i]),
           act.kind = "each" => /\ Len(frames') = Len(frames) + 1
                                /\ Tells(frames'[Len(frames) + 1].private, act.value, act.iter),
           act.kind # "each" => \A i \in (Len(frames) + 1)..Len(frames') : Bare(frames'[i])
    PROVE  LInv'
<1>1. act.base.frames = Len(frames) /\ Free(act)
  BY DEF Heights, Free
<1>2. Stack(Advanced) /\ Len(Advanced) = Len(ctl)
      /\ \A k \in 1..Len(ctl) : Same(Advanced[k], ctl[k])
  BY AdvancedSame
<1>3. /\ Len(ctl') = Len(ctl) + 1 /\ ctl'[Len(ctl) + 1] = act
      /\ \A k \in 1..Len(ctl) : ctl'[k] = Advanced[k]
  BY <1>2, Push DEF Enter
<1>4. \A k \in 1..Len(ctl) : Same(ctl'[k], ctl[k])
  BY <1>2, <1>3
<1>5. Loops(ctl', frames')
  BY <1>1, <1>3, <1>4, CallFacts, LoopsPush
<1> QED
  BY <1>5 DEF LInv

(* A return: the frames of the call are popped.                            *)
LEMMA StepReturn ==
    ASSUME IInv, LInv, status = "running", Return,
           Len(frames') = Top.base.frames, \A i \in 1..Len(frames') : frames'[i] = frames[i]
    PROVE  LInv'
<1>1. Stack(ctl) /\ Len(ctl) # 0
  BY CallFacts
<1>2. Len(ctl') = Len(ctl) - 1 /\ \A k \in 1..(Len(ctl) - 1) : ctl'[k] = ctl[k]
  BY <1>1, Pop DEF Return
<1>3. /\ Len(ctl) \in Nat /\ Len(ctl) # 0 /\ Len(frames) \in Nat /\ Loops(ctl, frames)
      /\ \A k \in 1..Len(ctl) : ctl[k].base.frames \in Nat
      /\ ctl[Len(ctl)].base.frames <= Len(frames)
      /\ Len(frames') = ctl[Len(ctl)].base.frames
  BY CallFacts
<1>4. Loops(ctl', frames')
  <2> DEFINE d == ctl'
             t == frames'
  <2>1. /\ Len(d) = Len(ctl) - 1 /\ \A k \in 1..(Len(ctl) - 1) : d[k] = ctl[k]
        /\ Len(t) = ctl[Len(ctl)].base.frames /\ \A i \in 1..Len(t) : t[i] = frames[i]
    BY <1>2, <1>3
  <2> HIDE DEF d, t
  <2>2. Loops(d, t)
    BY <1>3, <2>1, LoopsPop
  <2> QED
    BY <2>2 DEF d, t
<1> QED
  BY <1>4 DEF LInv


(* The calls that push no frame, and those that push one.                  *)
LEMMA EnterNone ==
    ASSUME IInv, LInv, status = "running", NEW act, Enter(act), act.base = Heights, act.kind # "fn",
           act.kind # "each", frames' = frames
    PROVE  LInv'
<1> DEFINE m == Len(frames)
<1>1. m \in Nat
  BY CallFacts
<1> HIDE DEF m
<1>2. m <= m /\ \A i : i \notin (m + 1)..m
  BY <1>1
<1> QED
  BY <1>1, <1>2, StepEnter DEF m, Keeps

LEMMA EnterOne ==
    ASSUME IInv, LInv, status = "running", NEW act, Enter(act), act.base = Heights, act.kind # "fn",
           NEW f, frames' = Append(frames, f),
           IF act.kind = "each" THEN Tells(f.private, act.value, act.iter) ELSE Bare(f)
    PROVE  LInv'
<1> DEFINE m == Len(frames)
<1>1. m \in Nat /\ Stack(frames)
  BY CallFacts
<1>2. /\ Len(frames') = m + 1 /\ frames'[m + 1] = f
      /\ \A i \in 1..m : frames'[i] = frames[i]
  BY <1>1, Push
<1> HIDE DEF m
<1>3. m + 1 \in Nat /\ m <= m + 1 /\ \A i \in (m + 1)..(m + 1) : i = m + 1
  BY <1>1
<1>4. act.kind # "each" => \A i \in (m + 1)..(m + 1) : Bare(frames'[i])
  BY <1>2, <1>3
<1> QED
  BY <1>2, <1>3, <1>4, StepEnter DEF m, Keeps

(* The returns.                                                            *)
LEMMA ReturnNone ==
    ASSUME IInv, LInv, status = "running", Return, FramesHeld(Top) = 0, frames' = frames
    PROVE  LInv'
<1>1. Len(frames) = Top.base.frames
  BY Below
<1> QED
  BY <1>1, StepReturn

LEMMA ReturnOne ==
    ASSUME IInv, LInv, status = "running", Return, FramesHeld(Top) = 1, frames' = Front(frames)
    PROVE  LInv'
<1> DEFINE m == Len(frames)
<1>1. m \in Nat /\ m # 0 /\ Stack(frames) /\ m = Top.base.frames + 1 /\ Top.base.frames \in Nat
  BY CallFacts, Below
<1>2. Len(frames') = m - 1 /\ \A i \in 1..(m - 1) : frames'[i] = frames[i]
  BY <1>1, Pop
<1> HIDE DEF m
<1> QED
  BY <1>1, <1>2, StepReturn DEF m

-----------------------------------------------------------------------------
(* The actions.                                                            *)
LEMMA ProduceLoops ==
    ASSUME IInv, LInv, NEW kind, At(kind), NEW items, Produce(items) PROVE LInv'
<1>1. status = "running" /\ ctl' = Advanced /\ frames' = frames
  BY StmtFacts DEF Produce
<1> QED
  BY <1>1, StepStay DEF Keeps

LEMMA MissingLoops == ASSUME IInv, LInv, RenderMissing PROVE LInv'
<1>1. status = "running" /\ ctl' = Advanced /\ frames' = frames
  BY StmtFacts DEF RenderMissing
<1> QED
  BY <1>1, StepStay DEF Keeps

(* An inline partial is registered in a frame whose private data stays.    *)
LEMMA RegisterLoops == ASSUME IInv, LInv, RegisterInline PROVE LInv'
<1> DEFINE ip == [name |-> NameOf(Stmt), code |-> Stmt.body, tmpl |-> Top.tmpl]
           f  == [Frame EXCEPT !.inlines = <<ip>> \o Frame.inlines]
           n  == Len(frames)
<1>1. status = "running" /\ ctl' = Advanced
  BY StmtFacts DEF RegisterInline
<1>2. IsFrame(Frame) /\ n \in 1..n
  BY <1>1, StateFacts
<1>3. Keeps(f, Frame)
  BY <1>2 DEF IsFrame, Keeps
<1>4. frames' = [frames EXCEPT ![n] = f]
  BY DEF RegisterInline, Frame
<1>5. Stack(frames) /\ DOMAIN frames = 1..n
  BY <1>1, CallFacts, Height
<1> HIDE DEF f
<1>6. Len(frames') = n
  <2>1. frames' = [i \in DOMAIN frames |-> frames'[i]]
    BY <1>4
  <2> QED
    BY <1>5, <2>1, Replace
<1>7. \A i \in 1..n : frames'[i] = IF i = n THEN f ELSE frames[i]
  BY <1>4, <1>5
<1>8. \A i \in 1..n : Keeps(frames'[i], frames[i])
  BY <1>3, <1>7 DEF Frame, Keeps
<1> QED
  BY <1>1, <1>6, <1>8, StepStay

LEMMA BlockLoops ==
    ASSUME IInv, LInv, status = "running", NEW code, NEW owned, EnterBlock(code, owned)
    PROVE  LInv'
<1> DEFINE act == [Run("block", code) EXCEPT !.refs = owned]
<1>1. Enter(act) /\ frames' = frames
  BY DEF EnterBlock
<1>2. act.kind = "block" /\ act.base = Heights
  BY DEF Run, Activation, Heights
<1> HIDE DEF act
<1> QED
  BY <1>1, <1>2, EnterNone


LEMMA ScopeLoops ==
    ASSUME IInv, LInv, status = "running", NEW kind \in {"each", "with"}, NEW value, NEW f,
           EnterScope(kind, value, f),
           IF kind = "each" THEN Tells(f.private, value, 1) ELSE Bare(f)
    PROVE  LInv'
<1> DEFINE act == [Run(kind, Stmt.body) EXCEPT !.value = value, !.refs = Owned(value)]
<1>1. Enter(act) /\ frames' = Append(frames, f)
  BY DEF EnterScope
<1>2. act.kind = kind /\ act.base = Heights /\ act.value = value /\ act.iter = 1
  BY DEF Run, Activation, Heights
<1> HIDE DEF act
<1>3. IF act.kind = "each" THEN Tells(f.private, act.value, act.iter) ELSE Bare(f)
  BY <1>2
<1> QED
  BY <1>1, <1>2, <1>3, EnterOne

LEMMA NoData == ASSUME NEW data PROVE Bare(NewFrame(data))
BY DEF NewFrame, Bare

LEMMA IfLoops == ASSUME IInv, LInv, RenderIf PROVE LInv'
BY StmtFacts, BlockLoops DEF RenderIf

LEMMA WithLoops == ASSUME IInv, LInv, RenderWith PROVE LInv'
<1> DEFINE v == Arg1(Stmt)
           f == [NewFrame(v) EXCEPT !.params = Filled(Stmt.params, <<v>>), !.slots = Len(Stmt.params)]
<1>1. status = "running"
  BY StmtFacts DEF RenderWith
<1>2. EnterBlock(Stmt.inverse, Owned(v)) \/ EnterScope("with", v, f)
  BY DEF RenderWith
<1>3. Bare(f)
  BY DEF NewFrame, Bare
<1> HIDE DEF v, f
<1> QED
  BY <1>1, <1>2, <1>3, BlockLoops, ScopeLoops

LEMMA EachLoops == ASSUME IInv, LInv, RenderEach PROVE LInv'
<1> DEFINE coll == Arg1(Stmt)
           f    == LoopFrame(Stmt, coll, 1)
<1>1. At("block") /\ status = "running"
  BY StmtFacts DEF RenderEach
<1>2. \/ EnterBlock(Stmt.inverse, Owned(coll))
      \/ EnterScope("each", coll, f)
      \/ Produce(<<>>)
  BY DEF RenderEach
<1>3. Tells(f.private, coll, 1)
  BY LoopTells
<1> HIDE DEF coll, f
<1> QED
  BY <1>1, <1>2, <1>3, BlockLoops, ScopeLoops, ProduceLoops

LEMMA UnknownLoops == ASSUME IInv, LInv, RenderUnknown PROVE LInv'
<1>1. At("block") /\ status = "running"
  BY StmtFacts DEF RenderUnknown
<1>2. Produce(<<>>) \/ EnterBlock(Stmt.body, 0)
  BY DEF RenderUnknown
<1> QED
  BY <1>1, <1>2, ProduceLoops, BlockLoops

(* The next iteration: the frame of the loop is replaced.                  *)
LEMMA NextItemLoops == ASSUME IInv, LInv, NextItem PROVE LInv'
<1> DEFINE i == Top.iter + 1
           next == LoopFrame(Top.node, Top.value, i)
           a == [Top EXCEPT !.iter = i, !.pc = 1]
           n == Len(ctl)
           m == Len(frames)
<1>1. status = "running" /\ Top.kind = "each"
  BY DEF NextItem, Running
<1>2. n \in Nat /\ n # 0 /\ Stack(ctl) /\ m \in Nat /\ m # 0 /\ Stack(frames) /\ Loops(ctl, frames)
      /\ ctl[n] = Top /\ Ceiling(Top) = m /\ Top.base.frames \in Nat
      /\ \A k \in 1..n : ctl[k].base.frames \in Nat
  BY <1>1, CallFacts
<1>3. LoopAt(ctl[n], m)
  BY <1>1, <1>2 DEF LoopAt, Ceiling, FramesHeld
<1>4. ctl' = [ctl EXCEPT ![n] = a] /\ frames' = Append(Front(frames), next)
  BY DEF NextItem, Top
<1>5. Alike(a, Top) /\ a.value = Top.value /\ a.iter = i
  <2>1. DOMAIN Top = {"kind", "node", "code", "pc", "tmpl", "own", "refs",
                      "value", "iter", "calls", "base"}
    BY <1>1, StateFacts DEF IsActivation
  <2> HIDE DEF i
  <2> QED
    BY <2>1 DEF Alike
<1>6. Tells(next.private, Top.value, i)
  BY LoopTells
<1> HIDE DEF a, next, i
<1>7. Len(ctl') = n /\ \A k \in 1..n : ctl'[k] = IF k = n THEN a ELSE ctl[k]
  <2>1. ctl' = [k \in DOMAIN ctl |-> ctl'[k]] /\ DOMAIN ctl = 1..Len(ctl)
    BY <1>2, <1>4, Height
  <2> QED
    BY <1>2, <1>4, <2>1, Replace
<1>8. Len(frames') = m /\ frames'[m] = next /\ \A k \in 1..(m - 1) : frames'[k] = frames[k]
  <2>1. Stack(Front(frames)) /\ Len(Front(frames)) = m - 1
        /\ \A k \in 1..(m - 1) : Front(frames)[k] = frames[k]
    BY <1>2, Pop
  <2>2. /\ Len(frames') = Len(Front(frames)) + 1
        /\ \A k \in 1..Len(Front(frames)) : frames'[k] = Front(frames)[k]
        /\ frames'[Len(Front(frames)) + 1] = next
    BY <1>4, <2>1, Push
  <2>3. (m - 1) + 1 = m
    BY <1>2
  <2> QED
    BY <2>1, <2>2, <2>3
<1> HIDE DEF n, m
<1>9. /\ ctl'[n] = a /\ \A k \in 1..(n - 1) : ctl'[k] = ctl[k]
  <2>1. n \in 1..n /\ \A k \in 1..(n - 1) : k \in 1..n /\ k # n
    BY <1>2
  <2> QED
    BY <1>7, <2>1
<1>10. Loops(ctl', frames')
  <2> DEFINE d == ctl'
             t == frames'
  <2>1. /\ Len(d) = Len(ctl) /\ \A k \in 1..(Len(ctl) - 1) : d[k] = ctl[k]
        /\ Alike(d[Len(ctl)], ctl[Len(ctl)])
        /\ Len(t) = Len(frames) /\ \A k \in 1..(Len(frames) - 1) : t[k] = frames[k]
        /\ Tells(t[Len(frames)].private, d[Len(ctl)].value, d[Len(ctl)].iter)
    BY <1>2, <1>5, <1>6, <1>7, <1>8, <1>9 DEF n, m
  <2>2. /\ Len(ctl) \in Nat /\ Len(ctl) # 0 /\ Len(frames) \in Nat
        /\ LoopAt(ctl[Len(ctl)], Len(frames))
        /\ \A k \in 1..Len(ctl) : ctl[k].base.frames \in Nat
    BY <1>2, <1>3 DEF n, m
  <2> HIDE DEF d, t
  <2>3. Loops(d, t)
    BY <1>2, <2>1, <2>2, LoopsTurn
  <2> QED
    BY <2>3 DEF d, t
<1> QED
  BY <1>10 DEF LInv

LEMMA HelperLoops == ASSUME IInv, LInv, RenderHelper PROVE LInv'
<1>1. status = "running" /\ frames' = frames
  BY StmtFacts DEF RenderHelper
<1>2. PICK given :
         Enter([Run("helper", <<>>) EXCEPT !.value = Arg1(Stmt), !.calls = given,
                                           !.refs = HelperRefs(Stmt)])
  BY DEF RenderHelper
<1> DEFINE act == [Run("helper", <<>>) EXCEPT !.value = Arg1(Stmt), !.calls = given,
                                              !.refs = HelperRefs(Stmt)]
<1>3. act.kind = "helper" /\ act.base = Heights /\ Enter(act)
  BY <1>2 DEF Run, Activation, Heights
<1> HIDE DEF act
<1> QED
  BY <1>1, <1>3, EnterNone


(* A helper's callback; the helper's own call keeps all but its script.    *)
LEMMA CallBackLoops == ASSUME IInv, LInv, CallBack PROVE LInv'
<1> DEFINE call == Head(Top.calls)
           code == IF call.side = "fn" THEN Top.node.body ELSE Top.node.inverse
           f    == NewFrame(IF call.ctx = "param" THEN Top.value ELSE Frame.data)
           a    == [Top EXCEPT !.calls = Tail(Top.calls)]
           act  == [Activation("fn", Top.node, code, Top.tmpl) EXCEPT !.calls = <<call>>]
           c    == [ctl EXCEPT ![Len(ctl)] = a]
           m    == Len(frames)
<1>1. status = "running"
  BY DEF CallBack, InHelper
<1>2. ctl' = Append(c, act) /\ frames' = Append(frames, f)
  BY DEF CallBack, Top
<1>3. act.kind = "fn" /\ act.base.frames = m /\ Free(act)
  BY DEF Activation, Free
<1>4. Bare(f)
  BY NoData
<1>5. Same(a, Top)
  <2>1. DOMAIN Top = {"kind", "node", "code", "pc", "tmpl", "own", "refs",
                      "value", "iter", "calls", "base"}
    BY <1>1, StateFacts DEF IsActivation
  <2> QED
    BY <2>1 DEF Same, Alike
<1>6. m \in Nat /\ Stack(frames) /\ Stack(ctl) /\ ctl[Len(ctl)] = Top
  BY <1>1, CallFacts
<1> HIDE DEF call, code, f, a, act
<1>7. Stack(c) /\ Len(c) = Len(ctl) /\ \A k \in 1..Len(ctl) : Same(c[k], ctl[k])
  <2>1. c = [k \in DOMAIN ctl |-> c[k]] /\ DOMAIN ctl = 1..Len(ctl)
    BY <1>6, Height
  <2>2. \A k \in 1..Len(ctl) : c[k] = IF k = Len(ctl) THEN a ELSE ctl[k]
    BY <2>1
  <2>3. \A k \in 1..Len(ctl) : Same(ctl[k], ctl[k])
    BY DEF Same, Alike
  <2> HIDE DEF c
  <2> QED
    BY <1>5, <1>6, <2>1, <2>2, <2>3, Replace
<1> HIDE DEF c
<1>8. /\ Len(ctl') = Len(ctl) + 1 /\ ctl'[Len(ctl) + 1] = act
      /\ \A k \in 1..Len(ctl) : Same(ctl'[k], ctl[k])
  BY <1>2, <1>7, Push
<1>9. /\ Len(frames') = m + 1 /\ frames'[m + 1] = f
      /\ \A i \in 1..m : frames'[i] = frames[i]
  BY <1>2, <1>6, Push
<1>10. Len(frames') \in Nat /\ m <= Len(frames')
       /\ \A i \in (m + 1)..Len(frames') : Bare(frames'[i])
  <2> HIDE DEF m
  <2>1. m + 1 \in Nat /\ m <= m + 1 /\ \A i \in (m + 1)..(m + 1) : i = m + 1
    BY <1>6
  <2> QED
    BY <1>4, <1>9, <2>1
<1>11. Loops(ctl', frames')
  <2> DEFINE d == ctl'
             t == frames'
  <2>1. /\ Len(d) = Len(ctl) + 1 /\ d[Len(ctl) + 1] = act
        /\ \A k \in 1..Len(ctl) : Same(d[k], ctl[k])
        /\ Len(t) \in Nat /\ Len(frames) <= Len(t)
        /\ \A i \in 1..Len(frames) : Keeps(t[i], frames[i])
        /\ \A i \in (Len(frames) + 1)..Len(t) : Bare(t[i])
    BY <1>8, <1>9, <1>10 DEF Keeps
  <2> HIDE DEF d, t
  <2>2. Loops(d, t)
    BY <1>1, <1>3, <2>1, CallFacts, LoopsPush
  <2> QED
    BY <2>2 DEF d, t
<1> QED
  BY <1>11 DEF LInv

LEMMA YieldLoops == ASSUME IInv, LInv, RenderYield PROVE LInv'
<1>1. status = "running"
  BY StmtFacts DEF RenderYield
<1>2. PICK i \in Yielding(frames) :
         LET block == frames[i].block[1]
         IN  /\ Enter([Activation("yield", Stmt, block.code, block.tmpl) EXCEPT !.iter = i])
             /\ frames' = Append(frames, NewFrame(IF block.ctx = Null THEN Frame.data ELSE block.ctx))
  BY DEF RenderYield
<1> DEFINE block == frames[i].block[1]
           f   == NewFrame(IF block.ctx = Null THEN Frame.data ELSE block.ctx)
           act == [Activation("yield", Stmt, block.code, block.tmpl) EXCEPT !.iter = i]
<1>3. Enter(act) /\ frames' = Append(frames, f)
  BY <1>2
<1>4. act.kind = "yield" /\ act.base = Heights /\ Bare(f)
  BY NoData DEF Activation, Heights
<1> HIDE DEF act, f
<1> QED
  BY <1>1, <1>3, <1>4, EnterOne

LEMMA InlineLoops == ASSUME IInv, LInv, RenderInline PROVE LInv'
<1>1. status = "running"
  BY StmtFacts DEF RenderInline
<1>2. PICK ip \in InScope(frames, PartialName(Stmt)) :
         Enter([Activation("inline", Stmt, ip.code, ip.tmpl) EXCEPT !.refs = PartialRefs(Stmt)])
  BY DEF RenderInline
<1> DEFINE act == [Activation("inline", Stmt, ip.code, ip.tmpl) EXCEPT !.refs = PartialRefs(Stmt)]
           f   == NewFrame(PartialData(Stmt))
           g   == Append(frames, f)
           m   == Len(frames)
<1>3. Enter(act) /\ frames' = frames \o <<f, f>>
  BY <1>2 DEF RenderInline
<1>4. act.kind = "inline" /\ act.base = Heights /\ Bare(f)
  BY NoData DEF Activation, Heights
<1> HIDE DEF act, f
<1>5. m \in Nat /\ Stack(frames)
  BY <1>1, CallFacts
<1>6. frames' = Append(g, f)
  <2>1. frames \in Seq({frames[i] : i \in DOMAIN frames} \cup {f})
    BY <1>5, SeqMonotonic DEF Stack
  <2> QED
    BY <1>3, <2>1
<1>7. Stack(g) /\ Len(g) = m + 1 /\ g[m + 1] = f /\ \A i \in 1..m : g[i] = frames[i]
  BY <1>5, Push
<1> HIDE DEF g
<1>8. Len(frames') = m + 1 + 1 /\ frames'[m + 1 + 1] = f
      /\ \A i \in 1..(m + 1) : frames'[i] = g[i]
  BY <1>6, <1>7, Push
<1> HIDE DEF m
<1>9. /\ m + 1 + 1 \in Nat /\ m <= m + 1 + 1
      /\ \A i \in (m + 1)..(m + 1 + 1) : i = m + 1 \/ i = m + 1 + 1
      /\ 1..m \subseteq 1..(m + 1) /\ m + 1 \in 1..(m + 1)
  BY <1>5
<1>10. /\ \A i \in 1..m : Keeps(frames'[i], frames[i])
       /\ \A i \in (m + 1)..(m + 1 + 1) : Bare(frames'[i])
  BY <1>4, <1>7, <1>8, <1>9 DEF Keeps
<1> QED
  BY <1>1, <1>3, <1>4, <1>8, <1>9, <1>10, StepEnter DEF m

LEMMA PartialLoops == ASSUME IInv, LInv, RenderPartial PROVE LInv'
<1> DEFINE act == [Activation("partial", Stmt, job.partials[PartialName(Stmt)].body, compiled + 1)
                     EXCEPT !.own = compiled + 1, !.refs = PartialRefs(Stmt)]
           f == NewFrame(PartialData(Stmt))
<1>1. status = "running"
  BY StmtFacts DEF RenderPartial
<1>2. Enter(act) /\ (frames' = frames \/ frames' = Append(frames, f))
  BY DEF RenderPartial
<1>3. act.kind = "partial" /\ act.base = Heights /\ Bare(f)
  BY NoData DEF Activation, Heights
<1> HIDE DEF act, f
<1> QED
  BY <1>1, <1>2, <1>3, EnterNone, EnterOne

LEMMA PartialBlockLoops == ASSUME IInv, LInv, RenderPartialBlock PROVE LInv'
<1> DEFINE name == NameOf(Stmt)
           act(ip) == Activation("pblock", Stmt, ip.code, ip.tmpl)
           own == [Activation("pblock", Stmt, job.partials[name].body, compiled + 1)
                     EXCEPT !.own = compiled + 1]
           f   == BlockFrame(Stmt)
<1>1. status = "running"
  BY StmtFacts DEF RenderPartialBlock
<1>2. \/ \E ip \in InScope(frames, name) : EnterPartialBlock(act(ip))
      \/ EnterPartialBlock(own)
      \/ EnterBlock(Stmt.body, 0)
  BY DEF RenderPartialBlock
<1>3. Bare(f)
  BY DEF BlockFrame, NewFrame, Bare
<1>4. /\ \A ip : act(ip).kind = "pblock" /\ act(ip).base = Heights
      /\ own.kind = "pblock" /\ own.base = Heights
  BY DEF Activation, Heights
<1> HIDE DEF f, act, own
<1>5. ASSUME NEW a, EnterPartialBlock(a), a.kind = "pblock", a.base = Heights PROVE LInv'
  <2>1. Enter(a) /\ frames' = Append(frames, f)
    BY <1>5 DEF EnterPartialBlock, f
  <2> QED
    BY <1>1, <1>3, <1>5, <2>1, EnterOne
<1> QED
  BY <1>1, <1>2, <1>4, <1>5, BlockLoops


LEMMA ReturnInlineLoops == ASSUME IInv, LInv, ReturnInline PROVE LInv'
<1> DEFINE m == Len(frames)
           g == Front(frames)
<1>1. status = "running" /\ Return /\ frames' = Front(g) /\ Top.kind = "inline"
  BY DEF ReturnInline, Running
<1>2. m \in Nat /\ m # 0 /\ Stack(frames) /\ m = Top.base.frames + 2 /\ Top.base.frames \in Nat
  BY <1>1, CallFacts, Below DEF FramesHeld
<1>3. Stack(g) /\ Len(g) = m - 1 /\ \A i \in 1..(m - 1) : g[i] = frames[i]
  BY <1>2, Pop
<1> HIDE DEF m, g
<1>4. m - 1 # 0 /\ m - 1 - 1 = Top.base.frames /\ 1..(m - 1 - 1) \subseteq 1..(m - 1)
  BY <1>2
<1>5. Len(frames') = m - 1 - 1 /\ \A i \in 1..(m - 1 - 1) : frames'[i] = g[i]
  BY <1>1, <1>3, <1>4, Pop
<1>6. Len(frames') = Top.base.frames /\ \A i \in 1..Len(frames') : frames'[i] = frames[i]
  BY <1>3, <1>4, <1>5
<1> QED
  BY <1>1, <1>6, StepReturn

LEMMA ReturnLoops ==
    ASSUME IInv, LInv,
           ReturnHelper \/ ReturnBlock \/ ReturnScope \/ ReturnPartial \/ ReturnFn \/ ReturnRoot
    PROVE  LInv'
<1>1. CASE ReturnHelper
  BY <1>1, ReturnNone DEF ReturnHelper, InHelper, FramesHeld
<1>2. CASE ReturnBlock
  BY <1>2, ReturnNone DEF ReturnBlock, Running, FramesHeld
<1>3. CASE ReturnScope
  BY <1>3, ReturnOne DEF ReturnScope, Running, FramesHeld
<1>4. CASE ReturnPartial
  BY <1>4, ReturnNone, ReturnOne DEF ReturnPartial, Running, FramesHeld
<1>5. CASE ReturnFn
  BY <1>5, ReturnOne DEF ReturnFn, Running, FramesHeld
<1>6. CASE ReturnRoot
  BY <1>6 DEF ReturnRoot, LInv
<1> QED
  BY <1>1, <1>2, <1>3, <1>4, <1>5, <1>6

LEMMA InitLoops == Init => LInv
<1> SUFFICES ASSUME Init PROVE Loops(ctl, frames)
  BY DEF LInv
<1>1. /\ Len(ctl) = 1 /\ ctl[1].kind = "root"
      /\ Len(frames) = 1 /\ Bare(frames[1])
  BY DEF Init, NewFrame, Bare
<1>2. \A i : i \in 1..1 => i = 1
  OBVIOUS
<1>3. ~(1 < 1)
  OBVIOUS
<1> QED
  BY <1>1, <1>2, <1>3 DEF Loops, LoopAt, Free

LEMMA StepLoops == ASSUME IInv, LInv, [Next]_vars PROVE LInv'
<1>1. CASE RenderText \/ RenderComment \/ RenderLookup \/ RenderLog \/ RenderValue
  BY <1>1, ProduceLoops DEF RenderText, RenderComment, RenderLookup, RenderLog, RenderValue
<1>2. CASE RenderRaw
  BY <1>2, ProduceLoops DEF RenderRaw
<1>3. CASE RenderNoPartial \/ RenderNamelessBlock
  BY <1>3, ProduceLoops DEF RenderNoPartial, RenderNamelessBlock
<1>4. CASE GoWrong
  BY <1>4 DEF GoWrong, LInv
<1>5. CASE UNCHANGED vars
  BY <1>5 DEF vars, LInv
<1>6. CASE Resume
  BY <1>6, NextItemLoops, CallBackLoops, ReturnInlineLoops, ReturnLoops DEF Resume
<1> QED
  BY <1>1, <1>2, <1>3, <1>4, <1>5, <1>6, MissingLoops, IfLoops, WithLoops, EachLoops,
     UnknownLoops, HelperLoops, YieldLoops, InlineLoops, PartialLoops, PartialBlockLoops,
     RegisterLoops DEF Next, Statement

-----------------------------------------------------------------------------
(* What a data variable is resolved to.                                    *)
LEMMA Greatest ==
    ASSUME NEW n \in Nat, NEW S \in SUBSET (1..n), S # {}
    PROVE  Innermost(S) \in S /\ \A j \in S : j <= Innermost(S)
<1> DEFINE T == {t \in Nat : n - t \in S}
<1>1. T \in SUBSET Nat /\ T # {}
  <2>1. PICK i : i \in S
    OBVIOUS
  <2>2. i \in Int /\ n - i \in Nat /\ n - (n - i) = i
    BY <2>1
  <2>3. n - i \in T
    BY <2>1, <2>2
  <2> QED
    BY <2>3
<1>2. PICK t \in T : \A u \in T : <<u, t>> \notin OpToRel(<, Nat)
  BY <1>1, WFMin, NatLessThanWellFounded
<1>3. \A u \in T : ~(u < t)
  BY <1>1, <1>2 DEF OpToRel
<1>4. PICK i \in S : i = n - t /\ t \in Nat
  OBVIOUS
<1>5. ASSUME NEW j \in S PROVE j <= i
  <2>1. j \in 1..n /\ n - j \in Nat /\ n - (n - j) = j /\ t \in Nat
    BY <1>4
  <2>2. n - j \in T
    BY <2>1
  <2>3. ~(n - j < t)
    BY <1>3, <2>2
  <2> QED
    BY <1>4, <2>1, <2>3
<1> QED
  BY <1>5 DEF Innermost

LEMMA InnermostIs ==
    ASSUME NEW n \in Nat, NEW S \in SUBSET (1..n), NEW b \in S, \A j \in S : j <= b
    PROVE  Innermost(S) = b
<1>1. Innermost(S) \in S /\ \A j \in S : j <= Innermost(S)
  BY Greatest
<1> DEFINE g == Innermost(S)
<1>2. g \in S /\ b <= g /\ g <= b
  <2> HIDE DEF g
  <2> QED
    BY <1>1 DEF g
<1>3. g \in 1..n /\ b \in 1..n
  BY <1>2
<1> HIDE DEF g
<1>4. g = b
  BY <1>2, <1>3
<1> QED
  BY <1>4 DEF g

(* The frame of the innermost loop is the innermost frame with data.       *)
LEMMA Holder ==
    ASSUME IInv, LInv, status = "running",
           NEW m \in 1..Len(ctl), ctl[m].kind = "each",
           \A k \in 1..Len(ctl) : ctl[k].kind = "each" => k <= m,
           NEW x, x \notin {"@root", "@partial-block"},
           \A v : Tells(v, ctl[m].value, ctl[m].iter) => Has(v, x)
    PROVE  \E v : /\ Tells(v, ctl[m].value, ctl[m].iter)
                  /\ DataVar(frames, [depth |-> 0, parts |-> <<x>>]) = Member(v, x)
<1> DEFINE n == Len(ctl)
           h == Len(frames)
           b == ctl[m].base.frames + 1
           H == {i \in 1..h : Has(frames[i].private, x)}
<1>1. n \in Nat /\ h \in Nat /\ h # 0 /\ Loops(ctl, frames)
      /\ \A k \in 1..n : ctl[k].base.frames \in Nat
      /\ ctl[m].base.frames < h
  BY CallFacts
<1>2. /\ \A k \in 1..n : \A i \in 1..h : LoopAt(ctl[k], i) => Tells(frames[i].private, ctl[k].value, ctl[k].iter)
      /\ \A i \in 1..h : Bare(frames[i]) \/ \E k \in 1..n : LoopAt(ctl[k], i)
      /\ \A k, l \in 1..n : k < l => Ceiling(ctl[k]) <= ctl[l].base.frames
  BY <1>1 DEF Loops
<1>3. b \in 1..h /\ LoopAt(ctl[m], b)
  <2> HIDE DEF h
  <2>1. ctl[m].base.frames \in Nat
    BY <1>1
  <2> QED
    BY <1>1, <2>1 DEF LoopAt
<1>4. m \in 1..n /\ \A k \in 1..n : ctl[k].kind = "each" => k <= m
  OBVIOUS
<1>5. Up(frames, 0) = h
  BY <1>1 DEF Up
<1> HIDE DEF n, h
<1>6. Tells(frames[b].private, ctl[m].value, ctl[m].iter)
  BY <1>2, <1>3, <1>4
<1>7. Has(frames[b].private, x)
  BY <1>6
<1>8. ASSUME NEW i \in H PROVE i <= b
  <2>1. frames[i].private # Null
    BY DEF Has, IsObj, Null
  <2>2. PICK k \in 1..n : LoopAt(ctl[k], i)
    BY <1>2, <2>1 DEF Bare
  <2>3. k <= m /\ i = ctl[k].base.frames + 1 /\ Ceiling(ctl[k]) = i
    BY <1>4, <2>2 DEF LoopAt, Ceiling, FramesHeld
  <2>4. CASE k = m
    BY <1>1, <1>4, <2>3, <2>4
  <2>5. CASE k < m
    <3>1. i <= ctl[m].base.frames /\ ctl[m].base.frames \in Nat
      BY <1>1, <1>2, <1>4, <2>3, <2>5
    <3> QED
      BY <1>1, <3>1
  <2> QED
    BY <1>1, <1>4, <2>3, <2>4, <2>5
<1>9. b \in H /\ H \in SUBSET (1..h)
  BY <1>3, <1>7
<1> HIDE DEF b
<1>10. Innermost(H) = b
  <2> HIDE DEF H
  <2> QED
    BY <1>1, <1>8, <1>9, InnermostIs
<1>11. DataVar(frames, [depth |-> 0, parts |-> <<x>>]) = Member(frames[b].private, x)
  <2> DEFINE path == [depth |-> 0, parts |-> <<x>>]
  <2>1. Head(path.parts) = x /\ path.depth = 0 /\ H # {}
    BY <1>9
  <2>2. {i \in 1..Up(frames, path.depth) : Has(frames[i].private, x)} = H
    BY <1>5, <2>1
  <2> HIDE DEF path, H
  <2>3. DataVar(frames, path) = Member(frames[Innermost(H)].private, x)
    BY <2>1, <2>2 DEF DataVar
  <2> QED
    BY <1>10, <2>3 DEF path
<1> QED
  BY <1>6, <1>11

LEMMA LoopsTell == IInv /\ LInv => LoopVariables
<1> DEFINE loops == {k \in 1..Len(ctl) : ctl[k].kind = "each"}
           m     == Innermost(loops)
           Data(x) == DataVar(frames, [depth |-> 0, parts |-> <<x>>])
<1> SUFFICES ASSUME IInv, LInv, status = "running", loops # {}
             PROVE  /\ Data("@index") = Num(ctl[m].iter - 1)
                    /\ Data("@first") = Bool(ctl[m].iter = 1)
                    /\ Data("@last")  = Bool(ctl[m].iter = Len(ctl[m].value[2]))
  BY DEF LoopVariables
<1>1. m \in loops /\ \A j \in loops : j <= m
  <2>1. Len(ctl) \in Nat /\ loops \in SUBSET (1..Len(ctl))
    BY CallFacts
  <2> HIDE DEF loops
  <2> QED
    BY <2>1, Greatest
<1>2. /\ m \in 1..Len(ctl) /\ ctl[m].kind = "each"
      /\ \A k \in 1..Len(ctl) : ctl[k].kind = "each" => k <= m
  <2> HIDE DEF m
  <2> QED
    BY <1>1
<1> HIDE DEF m, loops
<1>3. \A v : Tells(v, ctl[m].value, ctl[m].iter) =>
                /\ Has(v, "@index") /\ Has(v, "@first") /\ Has(v, "@last")
                /\ Member(v, "@index") = Num(ctl[m].iter - 1)
                /\ Member(v, "@first") = Bool(ctl[m].iter = 1)
                /\ Member(v, "@last") = Bool(ctl[m].iter = Len(ctl[m].value[2]))
  BY DEF Tells
<1>4. Data("@index") = Num(ctl[m].iter - 1)
  <2>1. PICK v : Tells(v, ctl[m].value, ctl[m].iter) /\ Data("@index") = Member(v, "@index")
    BY <1>2, <1>3, Holder
  <2> QED
    BY <1>3, <2>1
<1>5. Data("@first") = Bool(ctl[m].iter = 1)
  <2>1. PICK v : Tells(v, ctl[m].value, ctl[m].iter) /\ Data("@first") = Member(v, "@first")
    BY <1>2, <1>3, Holder
  <2> QED
    BY <1>3, <2>1
<1>6. Data("@last") = Bool(ctl[m].iter = Len(ctl[m].value[2]))
  <2>1. PICK v : Tells(v, ctl[m].value, ctl[m].iter) /\ Data("@last") = Member(v, "@last")
    BY <1>2, <1>3, Holder
  <2> QED
    BY <1>3, <2>1
<1> QED
  BY <1>4, <1>5, <1>6

(* In every call of hbs_render, for all templates, contexts, partials and  *)
(* helpers, @index, @first and @last are those of the innermost loop that  *)
(* is running, wherever in its body they are read: the frames of what the  *)
(* body calls have no private data, and a loop's frame goes with it.       *)
THEOREM LoopsTold == Spec => []LoopVariables
<1>1. IInv /\ LInv /\ [Next]_vars => LInv'
  BY StepLoops
<1> QED
  BY Invariant, InitLoops, LoopsTell, <1>1, PTL DEF Spec

-----------------------------------------------------------------------------
(* The json references: what the elements of a stack owe, one by one.      *)

(* The fold, as the sums of the first elements.                            *)
Sums(f, s, n) ==
    /\ n \in Nat /\ DOMAIN s = 1..n /\ \A i \in 1..n : s[i].refs \in Nat
    /\ f \in [0..n -> Nat] /\ f[0] = 0 /\ \A i \in 1..n : f[i] = f[i - 1] + s[i].refs

LEMMA OwedIsFold == ASSUME NEW s, NEW n, NEW f, Sums(f, s, n) PROVE Owed(s) = f[n]
<1> USE DEF Sums
<1> DEFINE Eq(it) == it = [t \in SUBSET (1..n) |->
                             IF t = {} THEN 0 ELSE it[t \ {Max(t)}] + s[Max(t)].refs]
           c == CHOOSE it : Eq(it)
<1>1. Owed(s) = c[1..n]
  BY DEF Owed, FoldLeft, MapThenFoldSet
<1> DEFINE h == [i \in 1..n |-> [v \in Nat |-> v + s[i].refs]]
<1>2. h \in [1..n -> [Nat -> Nat]]
  OBVIOUS
<1>3. \A i \in 1..n : \A v \in Nat : h[i][v] = v + s[i].refs
  OBVIOUS
<1> HIDE DEF h
<1>4. PICK it : FoldsOver(it, Nat, n, 0, h)
  BY <1>2, FoldExists
<1>5. Eq(it)
  <2>1. \A t \in SUBSET (1..n) : it[t] = IF t = {} THEN 0 ELSE it[t \ {Max(t)}] + s[Max(t)].refs
    <3> TAKE t \in SUBSET (1..n)
    <3>1. CASE t = {}
      BY <1>4, <3>1 DEF FoldsOver
    <3>2. CASE t # {}
      <4>1. Max(t) \in 1..n
        BY <3>2, LastIsMax
      <4>2. it[t \ {Max(t)}] \in Nat
        BY <1>4 DEF FoldsOver
      <4>3. it[t] = h[Max(t)][it[t \ {Max(t)}]]
        BY <1>4, <3>2 DEF FoldsOver
      <4> QED
        BY <1>3, <3>2, <4>1, <4>2, <4>3
    <3> QED
      BY <3>1, <3>2
  <2>2. it = [t \in SUBSET (1..n) |-> it[t]]
    BY <1>4 DEF FoldsOver
  <2> QED
    BY <2>1, <2>2
<1>6. Eq(c)
  BY <1>5
<1>7. /\ c[{}] = 0
      /\ \A t \in SUBSET (1..n) : t # {} => c[t] = c[t \ {Max(t)}] + s[Max(t)].refs
  BY <1>6
<1> HIDE DEF c
<1> DEFINE S == {k \in 0..n : c[1..k] = f[k]}
<1>8. 0 \in S
  <2>1. 1..0 = {}
    OBVIOUS
  <2> QED
    BY <1>7, <2>1
<1>9. ASSUME NEW k \in 0..(n - 1), k \in S PROVE k + 1 \in S
  <2> DEFINE m == k + 1
  <2>1. m \in 1..n /\ m \in 0..n /\ m \in Nat /\ m # 0 /\ m - 1 = k /\ 1..m \in SUBSET (1..n)
    OBVIOUS
  <2> HIDE DEF m
  <2>2. 1..m # {} /\ Max(1..m) = m /\ (1..m) \ {m} = 1..k
    BY <2>1, Intervals
  <2>3. c[1..m] = c[1..k] + s[m].refs
    BY <1>7, <2>1, <2>2
  <2>4. f[m] = f[k] + s[m].refs
    BY <2>1
  <2>5. m \in S
    BY <1>9, <2>1, <2>3, <2>4
  <2> QED
    BY <2>5 DEF m
<1> HIDE DEF S
<1>10. 0..n \subseteq S
  BY <1>8, <1>9, Induction
<1> QED
  BY <1>1, <1>10 DEF S

Debts(s) == Stack(s) /\ \A i \in 1..Len(s) : s[i].refs \in Nat

LEMMA OwedRuns == ASSUME NEW s, Debts(s) PROVE \E f : Sums(f, s, Len(s))
<1> DEFINE n == Len(s)
           h == [i \in 1..n |-> [v \in Nat |-> v + s[i].refs]]
<1>1. n \in Nat /\ DOMAIN s = 1..n /\ \A i \in 1..n : s[i].refs \in Nat
  BY Height DEF Debts
<1> HIDE DEF n
<1>2. h \in [1..n -> [Nat -> Nat]]
  BY <1>1
<1>3. \A i \in 1..n : \A v \in Nat : h[i][v] = v + s[i].refs
  OBVIOUS
<1> HIDE DEF h
<1>4. PICK f : Stepwise(f, Nat, n, 0, h)
  BY <1>1, <1>2, Recursion
<1>5. f \in [0..n -> Nat] /\ f[0] = 0
  BY <1>4 DEF Stepwise
<1>6. \A i \in 1..n : f[i] = f[i - 1] + s[i].refs
  <2> TAKE i \in 1..n
  <2>1. i - 1 \in 0..n
    BY <1>1
  <2>2. f[i] = h[i][f[i - 1]]
    BY <1>4 DEF Stepwise
  <2> QED
    BY <1>3, <1>5, <2>1, <2>2
<1>7. Sums(f, s, n)
  BY <1>1, <1>5, <1>6 DEF Sums
<1> QED
  BY <1>7 DEF n

LEMMA OwedTotal == ASSUME NEW s, Debts(s) PROVE Owed(s) \in Nat
<1>1. PICK f : Sums(f, s, Len(s))
  BY OwedRuns
<1>2. Owed(s) = f[Len(s)]
  BY <1>1, OwedIsFold
<1>3. Len(s) \in 0..Len(s) /\ f \in [0..Len(s) -> Nat]
  BY <1>1 DEF Sums
<1> QED
  BY <1>2, <1>3

LEMMA OwedSame ==
    ASSUME NEW s, Debts(s), NEW t, Debts(t), Len(t) = Len(s),
           \A i \in 1..Len(s) : t[i].refs = s[i].refs
    PROVE  Owed(t) = Owed(s)
<1>1. PICK f : Sums(f, s, Len(s))
  BY OwedRuns
<1>2. Sums(f, t, Len(s))
  BY <1>1, Height DEF Sums, Debts
<1> QED
  BY <1>1, <1>2, OwedIsFold

LEMMA OwedMore ==   \* one element more, or seen from the other side one less
    ASSUME NEW s, Debts(s), NEW t, Debts(t), Len(t) = Len(s) + 1,
           \A i \in 1..Len(s) : t[i].refs = s[i].refs
    PROVE  Owed(t) = Owed(s) + t[Len(t)].refs
<1> DEFINE n == Len(s)
           m == Len(t)
<1>1. /\ n \in Nat /\ m = n + 1 /\ DOMAIN s = 1..n
      /\ \A i \in 1..n : s[i].refs \in Nat /\ t[i].refs = s[i].refs
  BY Height DEF Debts
<1>2. PICK f : Sums(f, t, m)
  BY OwedRuns
<1> DEFINE g == [i \in 0..n |-> f[i]]
<1> HIDE DEF n, m
<1>3. g \in [0..n -> Nat] /\ \A i \in 0..n : g[i] = f[i]
  BY <1>1, <1>2 DEF Sums
<1>4. g[0] = 0 /\ \A i \in 1..n : g[i] = g[i - 1] + s[i].refs
  <2>1. 0 \in 0..n /\ \A i \in 1..n : i \in 0..n /\ i - 1 \in 0..n /\ i \in 1..m
    BY <1>1
  <2> HIDE DEF g
  <2> QED
    BY <1>1, <1>2, <1>3, <2>1 DEF Sums
<1> HIDE DEF g
<1>5. Sums(g, s, n)
  BY <1>1, <1>3, <1>4 DEF Sums
<1>6. Owed(s) = g[n] /\ Owed(t) = f[m]
  BY <1>2, <1>5, OwedIsFold
<1>7. m \in 1..m /\ m - 1 = n /\ n \in 0..n
  BY <1>1
<1>8. f[m] = f[n] + t[m].refs
  BY <1>2, <1>7 DEF Sums
<1> QED
  BY <1>3, <1>6, <1>7, <1>8 DEF m

-----------------------------------------------------------------------------
(* What the calls and frames owe, before and after a step.                 *)
LEMMA CtlDebts == ASSUME NEW c, CallStack(c) PROVE Debts(c)
BY DEF CallStack, IsActivation, Debts

LEMMA ChainDebts == ASSUME NEW s, Chain(s) PROVE Debts(s)
BY DEF Chain, IsFrame, Debts

LEMMA HeldDebts ==
    ASSUME IInv, IInv'
    PROVE  Debts(ctl) /\ Debts(frames) /\ Debts(ctl') /\ Debts(frames')
BY CtlDebts, ChainDebts DEF IInv, TypeOK

LEMMA OwedAdvanced ==
    ASSUME IInv, status = "running"
    PROVE  /\ Debts(Advanced) /\ Owed(Advanced) = Owed(ctl)
           /\ \A k \in 1..Len(ctl) : Advanced[k].refs = ctl[k].refs
<1>1. /\ Stack(Advanced) /\ Len(Advanced) = Len(ctl)
      /\ \A k \in 1..Len(ctl) : IsActivation(Advanced[k])
  BY AdvancedFacts
<1>2. Debts(Advanced)
  BY <1>1 DEF Debts, IsActivation
<1>3. Debts(ctl) /\ DOMAIN ctl = 1..Len(ctl)
  BY CtlDebts, Height DEF IInv, TypeOK, CallStack
<1>4. \A k \in 1..Len(ctl) : Advanced[k].refs = ctl[k].refs
  <2> DEFINE a == [Top EXCEPT !.pc = Top.pc + 1]
  <2>1. a.refs = Top.refs
    BY StateFacts DEF IsActivation
  <2>2. Advanced = [ctl EXCEPT ![Len(ctl)] = a]
    BY DEF Advanced, Top
  <2> HIDE DEF a
  <2>3. \A k \in 1..Len(ctl) : Advanced[k] = IF k = Len(ctl) THEN a ELSE ctl[k]
    BY <1>3, <2>2
  <2> QED
    BY <2>1, <2>3 DEF Top
<1> QED
  BY <1>1, <1>2, <1>3, <1>4, OwedSame

(* Statements that call nothing, calls and returns.  d is what the frames  *)
(* owe more, or less.                                                      *)
LEMMA BalancedStay ==
    ASSUME IInv, IInv', status = "running", RefsBalanced, ctl' = Advanced, refs' = refs,
           Len(frames') = Len(frames),
           \A i \in 1..Len(frames) : Keeps(frames'[i], frames[i])
    PROVE  RefsBalanced'
<1>1. Owed(ctl') = Owed(ctl)
  BY OwedAdvanced
<1>2. Owed(frames') = Owed(frames)
  <2> DEFINE t == frames'
  <2>1. Debts(t) /\ Len(t) = Len(frames) /\ \A i \in 1..Len(frames) : t[i].refs = frames[i].refs
    BY HeldDebts DEF Keeps
  <2> HIDE DEF t
  <2>2. Owed(t) = Owed(frames)
    BY <2>1, HeldDebts, OwedSame
  <2> QED
    BY <2>2 DEF t
<1>3. RefsBalanced' <=> refs' = Owed(ctl') + Owed(frames')
  BY DEF RefsBalanced
<1> QED
  BY <1>1, <1>2, <1>3 DEF RefsBalanced

LEMMA BalancedEnter ==
    ASSUME IInv, IInv', status = "running", RefsBalanced,
           NEW act, Enter(act), act.refs \in Nat,
           NEW d \in Int, Owed(frames') = Owed(frames) + d, refs' = refs + act.refs + d
    PROVE  RefsBalanced'
<1> DEFINE c == ctl'
           n == Len(Advanced)
<1>1. Stack(Advanced) /\ Debts(Advanced) /\ Owed(Advanced) = Owed(ctl) /\ Debts(c) /\ Debts(ctl)
      /\ Debts(frames)
  BY OwedAdvanced, HeldDebts DEF Debts
<1>2. Len(c) = n + 1 /\ c[n + 1] = act /\ \A k \in 1..n : c[k] = Advanced[k]
  BY <1>1, Push DEF Enter
<1> HIDE DEF c, n
<1>3. Owed(c) = Owed(Advanced) + act.refs
  <2>1. Len(c) = Len(Advanced) + 1 /\ c[Len(c)] = act
        /\ \A k \in 1..Len(Advanced) : c[k].refs = Advanced[k].refs
    BY <1>2 DEF n
  <2>2. Owed(c) = Owed(Advanced) + c[Len(c)].refs
    BY <1>1, <2>1, OwedMore
  <2> QED
    BY <2>1, <2>2
<1>4. Owed(ctl) \in Nat /\ Owed(frames) \in Nat
  BY <1>1, OwedTotal
<1>5. RefsBalanced' <=> refs' = Owed(c) + Owed(frames')
  BY DEF RefsBalanced, c
<1> QED
  BY <1>1, <1>3, <1>4, <1>5 DEF RefsBalanced

LEMMA BalancedReturn ==
    ASSUME IInv, IInv', status = "running", RefsBalanced, Return,
           NEW d \in Int, Owed(frames') = Owed(frames) - d, refs' = refs - Top.refs - d
    PROVE  RefsBalanced'
<1> DEFINE c == ctl'
           n == Len(c)
<1>1. Stack(ctl) /\ Len(ctl) \in Nat /\ Len(ctl) # 0 /\ Debts(ctl) /\ Debts(c) /\ Debts(frames)
  BY StateFacts, HeldDebts DEF Debts
<1>2. Len(c) = Len(ctl) - 1 /\ \A k \in 1..(Len(ctl) - 1) : c[k] = ctl[k]
  BY <1>1, Pop DEF Return
<1> HIDE DEF c
<1>3. Len(ctl) = Len(c) + 1 /\ \A k \in 1..Len(c) : ctl[k].refs = c[k].refs
  BY <1>1, <1>2
<1>4. Owed(ctl) = Owed(c) + Top.refs
  BY <1>1, <1>3, OwedMore DEF Top
<1>5. Owed(c) \in Nat /\ Owed(frames) \in Nat /\ Top.refs \in Nat
  BY <1>1, OwedTotal, StateFacts DEF IsActivation
<1>6. RefsBalanced' <=> refs' = Owed(c) + Owed(frames')
  BY DEF RefsBalanced, c
<1> QED
  BY <1>4, <1>5, <1>6 DEF RefsBalanced

(* Pushing and popping a frame.                                            *)
LEMMA OwedPush ==
    ASSUME NEW s, Debts(s), NEW f, f.refs \in Nat
    PROVE  Debts(Append(s, f)) /\ Owed(Append(s, f)) = Owed(s) + f.refs
<1> DEFINE t == Append(s, f)
           n == Len(s)
<1>1. n \in Nat /\ Stack(t) /\ Len(t) = n + 1 /\ t[n + 1] = f /\ \A i \in 1..n : t[i] = s[i]
  BY Push, Height DEF Debts
<1> HIDE DEF t
<1>2. \A i \in 1..n : s[i].refs \in Nat
  BY DEF Debts
<1> HIDE DEF n
<1>3. \A i \in 1..Len(t) : i = n + 1 \/ i \in 1..n
  BY <1>1
<1>4. Debts(t)
  BY <1>1, <1>2, <1>3 DEF Debts
<1>5. Len(t) = Len(s) + 1 /\ t[Len(t)] = f /\ \A i \in 1..Len(s) : t[i].refs = s[i].refs
  BY <1>1 DEF n
<1>6. Owed(t) = Owed(s) + f.refs
  BY <1>4, <1>5, OwedMore
<1> QED
  BY <1>4, <1>6 DEF t

LEMMA OwedPop ==
    ASSUME NEW s, Debts(s), Len(s) # 0
    PROVE  Debts(Front(s)) /\ Owed(Front(s)) = Owed(s) - s[Len(s)].refs
<1> DEFINE t == Front(s)
           n == Len(s)
<1>1. n \in Nat /\ n # 0 /\ Stack(t) /\ Len(t) = n - 1 /\ \A i \in 1..(n - 1) : t[i] = s[i]
  BY Pop, Height DEF Debts
<1> HIDE DEF t
<1>2. \A i \in 1..n : s[i].refs \in Nat
  BY DEF Debts
<1> HIDE DEF n
<1>3. 1..(n - 1) \subseteq 1..n /\ n \in 1..n
  BY <1>1
<1>4. Debts(t)
  BY <1>1, <1>2, <1>3 DEF Debts
<1>5. n = Len(t) + 1 /\ \A i \in 1..Len(t) : s[i].refs = t[i].refs
  BY <1>1
<1>6. Owed(s) = Owed(t) + s[n].refs
  BY <1>4, <1>5, OwedMore DEF n
<1>7. Owed(t) \in Nat /\ s[n].refs \in Nat
  BY <1>2, <1>3, <1>4, OwedTotal
<1> QED
  BY <1>4, <1>6, <1>7 DEF t, n

(* A call that is not a loop pushed frames that own nothing.               *)
LEMMA TopBare ==
    ASSUME IInv, LInv, status = "running", Top.kind # "each",
           NEW i \in 1..Len(frames), Top.base.frames < i
    PROVE  frames[i].refs = 0
<1> DEFINE n == Len(ctl)
<1>1. n \in Nat /\ n # 0 /\ ctl[n] = Top /\ Loops(ctl, frames) /\ Top.base.frames \in Nat
      /\ \A k \in 1..n : ctl[k].base.frames \in Nat
  BY CallFacts
<1>2. Bare(frames[i]) \/ \E k \in 1..n : LoopAt(ctl[k], i)
  BY <1>1 DEF Loops
<1>3. ASSUME NEW k \in 1..n, LoopAt(ctl[k], i) PROVE FALSE
  <2>1. ctl[k].kind = "each" /\ i = ctl[k].base.frames + 1 /\ k # n
    BY <1>1, <1>3 DEF LoopAt
  <2>2. Ceiling(ctl[k]) = i
    BY <2>1 DEF Ceiling, FramesHeld
  <2>3. n \in 1..n /\ k < n
    <3> HIDE DEF n
    <3> QED
      BY <1>1, <2>1
  <2>4. Ceiling(ctl[k]) <= Top.base.frames
    BY <1>1, <2>3 DEF Loops
  <2> QED
    BY <1>1, <2>1, <2>2, <2>4
<1> QED
  BY <1>2, <1>3 DEF Bare

-----------------------------------------------------------------------------
(* Every step keeps the balance.                                           *)
RInv == IInv /\ LInv /\ RefsBalanced

LEMMA DebtsFrame ==
    ASSUME RInv, status = "running"
    PROVE  /\ Debts(frames) /\ Len(frames) # 0 /\ Frame.refs \in Nat /\ Top.refs \in Nat
           /\ Owed(frames) \in Nat
BY ChainDebts, StateFacts, OwedTotal DEF RInv, IInv, TypeOK, IsFrame, IsActivation, Base

LEMMA NewOwes == ASSUME NEW data PROVE NewFrame(data).refs = 0
BY DEF NewFrame

LEMMA ProduceBalanced ==
    ASSUME RInv, IInv', status = "running", NEW items, Produce(items) PROVE RefsBalanced'
<1>1. ctl' = Advanced /\ frames' = frames /\ refs' = refs
  BY DEF Produce
<1> QED
  BY <1>1, BalancedStay DEF RInv, Keeps

LEMMA MissingBalanced == ASSUME RInv, IInv', RenderMissing PROVE RefsBalanced'
<1>1. ctl' = Advanced /\ frames' = frames /\ refs' = refs /\ status = "running"
  BY StmtFacts DEF RenderMissing, RInv
<1> QED
  BY <1>1, BalancedStay DEF RInv, Keeps

LEMMA RegisterBalanced == ASSUME RInv, IInv', RegisterInline PROVE RefsBalanced'
<1> DEFINE ip == [name |-> NameOf(Stmt), code |-> Stmt.body, tmpl |-> Top.tmpl]
           f  == [Frame EXCEPT !.inlines = <<ip>> \o Frame.inlines]
           n  == Len(frames)
<1>1. status = "running" /\ ctl' = Advanced /\ refs' = refs
  BY StmtFacts DEF RegisterInline, RInv
<1>2. IsFrame(Frame) /\ n \in 1..n /\ Stack(frames) /\ DOMAIN frames = 1..n
  BY <1>1, StateFacts, CallFacts, Height DEF RInv
<1>3. Keeps(f, Frame)
  BY <1>2 DEF IsFrame, Keeps
<1>4. frames' = [frames EXCEPT ![n] = f]
  BY DEF RegisterInline, Frame
<1> HIDE DEF f
<1>5. Len(frames') = n
  <2>1. frames' = [i \in DOMAIN frames |-> frames'[i]]
    BY <1>4
  <2> QED
    BY <1>2, <2>1, Replace
<1>6. \A i \in 1..n : Keeps(frames'[i], frames[i])
  BY <1>2, <1>3, <1>4 DEF Frame, Keeps
<1> QED
  BY <1>1, <1>5, <1>6, BalancedStay DEF RInv

(* Calls that push no frame, and those that push one.                      *)
LEMMA BalancedNone ==
    ASSUME RInv, IInv', status = "running", NEW act, Enter(act), act.refs \in Nat,
           frames' = frames, refs' = refs + act.refs
    PROVE  RefsBalanced'
<1>1. Owed(frames') = Owed(frames) + 0 /\ refs' = refs + act.refs + 0 /\ 0 \in Int
  BY DebtsFrame DEF RInv, IInv, TypeOK
<1> QED
  BY <1>1, BalancedEnter DEF RInv

LEMMA BalancedOne ==
    ASSUME RInv, IInv', status = "running", NEW act, Enter(act), act.refs \in Nat,
           NEW f, f.refs \in Nat, frames' = Append(frames, f), refs' = refs + act.refs + f.refs
    PROVE  RefsBalanced'
<1>1. Owed(frames') = Owed(frames) + f.refs /\ f.refs \in Int
  BY DebtsFrame, OwedPush
<1> QED
  BY <1>1, BalancedEnter DEF RInv

LEMMA BlockBalanced ==
    ASSUME RInv, IInv', status = "running", NEW code, NEW owned \in Nat, EnterBlock(code, owned)
    PROVE  RefsBalanced'
<1> DEFINE act == [Run("block", code) EXCEPT !.refs = owned]
<1>1. Enter(act) /\ frames' = frames /\ refs' = refs + owned
  BY DEF EnterBlock
<1>2. act.refs = owned
  BY DEF Run, Activation
<1> HIDE DEF act
<1> QED
  BY <1>1, <1>2, BalancedNone

LEMMA ScopeBalanced ==
    ASSUME RInv, IInv', status = "running", NEW kind, NEW value, NEW f, f.refs \in Nat,
           EnterScope(kind, value, f)
    PROVE  RefsBalanced'
<1> DEFINE act == [Run(kind, Stmt.body) EXCEPT !.value = value, !.refs = Owned(value)]
<1>1. Enter(act) /\ frames' = Append(frames, f) /\ refs' = refs + Owned(value) + f.refs
  BY DEF EnterScope
<1>2. act.refs = Owned(value) /\ Owned(value) \in Nat
  BY OwnedNat DEF Run, Activation
<1> HIDE DEF act
<1> QED
  BY <1>1, <1>2, BalancedOne

LEMMA IfBalanced == ASSUME RInv, IInv', RenderIf PROVE RefsBalanced'
BY StmtFacts, OwnedNat, BlockBalanced DEF RenderIf, RInv

LEMMA WithBalanced == ASSUME RInv, IInv', RenderWith PROVE RefsBalanced'
<1> DEFINE v == Arg1(Stmt)
           f == [NewFrame(v) EXCEPT !.params = Filled(Stmt.params, <<v>>), !.slots = Len(Stmt.params)]
<1>1. status = "running"
  BY StmtFacts DEF RenderWith, RInv
<1>2. EnterBlock(Stmt.inverse, Owned(v)) \/ EnterScope("with", v, f)
  BY DEF RenderWith
<1>3. f.refs = 0
  BY DEF NewFrame
<1> HIDE DEF v, f
<1> QED
  BY <1>1, <1>2, <1>3, OwnedNat, BlockBalanced, ScopeBalanced

LEMMA EachBalanced == ASSUME RInv, IInv', RenderEach PROVE RefsBalanced'
<1> DEFINE coll == Arg1(Stmt)
           f    == LoopFrame(Stmt, coll, 1)
<1>1. status = "running" /\ Stmt \in Node
  BY StmtFacts DEF RenderEach, RInv
<1>2. \/ EnterBlock(Stmt.inverse, Owned(coll))
      \/ EnterScope("each", coll, f)
      \/ Produce(<<>>)
  BY DEF RenderEach
<1>3. f.refs \in Nat
  BY <1>1, LoopFrameTyped DEF IsFrame
<1> HIDE DEF coll, f
<1> QED
  BY <1>1, <1>2, <1>3, OwnedNat, BlockBalanced, ScopeBalanced, ProduceBalanced

LEMMA UnknownBalanced == ASSUME RInv, IInv', RenderUnknown PROVE RefsBalanced'
<1>1. status = "running" /\ 0 \in Nat
  BY StmtFacts DEF RenderUnknown, RInv
<1>2. Produce(<<>>) \/ EnterBlock(Stmt.body, 0)
  BY DEF RenderUnknown
<1> QED
  BY <1>1, <1>2, ProduceBalanced, BlockBalanced

(* A loop's next frame owes what it owns, its last one owes no more.       *)
LEMMA NextItemBalanced == ASSUME RInv, IInv', NextItem PROVE RefsBalanced'
<1> DEFINE next == LoopFrame(Top.node, Top.value, Top.iter + 1)
           a == [Top EXCEPT !.iter = Top.iter + 1, !.pc = 1]
           c == ctl'
<1>1. status = "running"
  BY DEF NextItem, Running
<1>2. /\ IsActivation(Top) /\ Stack(ctl) /\ DOMAIN ctl = 1..Len(ctl) /\ Debts(ctl)
      /\ Debts(c)
  BY <1>1, StateFacts, CallFacts, Height, HeldDebts DEF RInv
<1>3. next.refs \in Nat
  BY <1>2, LoopFrameTyped DEF IsActivation, IsFrame
<1>4. a.refs = Top.refs
  BY <1>2 DEF IsActivation
<1>5. c = [ctl EXCEPT ![Len(ctl)] = a]
  BY DEF NextItem, Top
<1>6. frames' = Append(Front(frames), next) /\ refs' = refs - Frame.refs + next.refs
  BY DEF NextItem
<1> HIDE DEF next, a, c
<1>7. Len(c) = Len(ctl) /\ \A k \in 1..Len(ctl) : c[k].refs = ctl[k].refs
  <2>1. c = [k \in DOMAIN ctl |-> c[k]]
    BY <1>5
  <2>2. \A k \in 1..Len(ctl) : c[k] = IF k = Len(ctl) THEN a ELSE ctl[k]
    BY <1>2, <1>5
  <2> QED
    BY <1>2, <1>4, <2>1, <2>2, Replace DEF Top
<1>8. Owed(c) = Owed(ctl)
  BY <1>2, <1>7, OwedSame
<1>9. Debts(Front(frames)) /\ Owed(Front(frames)) = Owed(frames) - Frame.refs
  BY <1>1, DebtsFrame, OwedPop DEF Frame
<1>10. Owed(frames') = Owed(Front(frames)) + next.refs
  BY <1>3, <1>6, <1>9, OwedPush
<1>11. Owed(frames) \in Nat /\ Owed(ctl) \in Nat /\ Frame.refs \in Nat
  BY <1>1, <1>2, DebtsFrame, OwedTotal
<1>12. RefsBalanced' <=> refs' = Owed(c) + Owed(frames')
  BY DEF RefsBalanced, c
<1>13. refs = Owed(ctl) + Owed(frames)
  BY DEF RInv, RefsBalanced
<1> QED
  BY <1>3, <1>6, <1>8, <1>9, <1>10, <1>11, <1>12, <1>13

LEMMA HelperBalanced == ASSUME RInv, IInv', RenderHelper PROVE RefsBalanced'
<1>1. status = "running" /\ Stmt \in Node /\ frames' = frames /\ refs' = refs + HelperRefs(Stmt)
  BY StmtFacts DEF RenderHelper, RInv
<1>2. PICK given :
         Enter([Run("helper", <<>>) EXCEPT !.value = Arg1(Stmt), !.calls = given,
                                           !.refs = HelperRefs(Stmt)])
  BY DEF RenderHelper
<1> DEFINE act == [Run("helper", <<>>) EXCEPT !.value = Arg1(Stmt), !.calls = given,
                                              !.refs = HelperRefs(Stmt)]
<1>3. act.refs = HelperRefs(Stmt) /\ Enter(act) /\ HelperRefs(Stmt) \in Nat
  BY <1>1, <1>2, HelperRefsNat DEF Run, Activation
<1> HIDE DEF act
<1> QED
  BY <1>1, <1>3, BalancedNone

(* A callback's frame owns nothing; the helper's own call owes what it did. *)
LEMMA CallBackBalanced == ASSUME RInv, IInv', CallBack PROVE RefsBalanced'
<1> DEFINE call == Head(Top.calls)
           code == IF call.side = "fn" THEN Top.node.body ELSE Top.node.inverse
           f    == NewFrame(IF call.ctx = "param" THEN Top.value ELSE Frame.data)
           a    == [Top EXCEPT !.calls = Tail(Top.calls)]
           act  == [Activation("fn", Top.node, code, Top.tmpl) EXCEPT !.calls = <<call>>]
           b    == [ctl EXCEPT ![Len(ctl)] = a]
           c    == ctl'
<1>1. status = "running" /\ refs' = refs
  BY DEF CallBack, InHelper
<1>2. c = Append(b, act) /\ frames' = Append(frames, f)
  BY DEF CallBack, Top
<1>3. act.refs = 0 /\ f.refs = 0
  BY NewOwes DEF Activation
<1>4. Stack(ctl) /\ DOMAIN ctl = 1..Len(ctl) /\ Debts(ctl) /\ IsActivation(Top) /\ Debts(frames)
  BY <1>1, StateFacts, CallFacts, Height, HeldDebts DEF RInv
<1>5. a.refs = Top.refs
  BY <1>4 DEF IsActivation
<1> HIDE DEF call, code, f, a, act, b, c
<1>6. Stack(b) /\ Len(b) = Len(ctl) /\ \A k \in 1..Len(ctl) : b[k].refs = ctl[k].refs
  <2>1. b = [k \in DOMAIN ctl |-> b[k]]
    BY DEF b
  <2>2. \A k \in 1..Len(ctl) : b[k] = IF k = Len(ctl) THEN a ELSE ctl[k]
    BY <1>4 DEF b
  <2> QED
    BY <1>4, <1>5, <2>1, <2>2, Replace DEF Top
<1>7. Debts(b)
  BY <1>4, <1>6 DEF Debts
<1>8. Owed(b) = Owed(ctl)
  BY <1>4, <1>6, <1>7, OwedSame
<1>9. Owed(c) = Owed(b) + 0 /\ Owed(frames') = Owed(frames) + 0
  BY <1>2, <1>3, <1>4, <1>7, OwedPush
<1>10. Owed(ctl) \in Nat /\ Owed(frames) \in Nat
  BY <1>4, OwedTotal
<1>11. RefsBalanced' <=> refs' = Owed(c) + Owed(frames')
  BY DEF RefsBalanced, c
<1>12. refs = Owed(ctl) + Owed(frames)
  BY DEF RInv, RefsBalanced
<1> QED
  BY <1>1, <1>8, <1>9, <1>10, <1>11, <1>12

LEMMA YieldBalanced == ASSUME RInv, IInv', RenderYield PROVE RefsBalanced'
<1>1. status = "running" /\ refs' = refs /\ refs \in Int
  BY StmtFacts DEF RenderYield, RInv, IInv, TypeOK
<1>2. PICK i \in Yielding(frames) :
         LET block == frames[i].block[1]
         IN  /\ Enter([Activation("yield", Stmt, block.code, block.tmpl) EXCEPT !.iter = i])
             /\ frames' = Append(frames, NewFrame(IF block.ctx = Null THEN Frame.data ELSE block.ctx))
  BY DEF RenderYield
<1> DEFINE block == frames[i].block[1]
           f   == NewFrame(IF block.ctx = Null THEN Frame.data ELSE block.ctx)
           act == [Activation("yield", Stmt, block.code, block.tmpl) EXCEPT !.iter = i]
<1>3. Enter(act) /\ frames' = Append(frames, f)
  BY <1>2
<1>4. act.refs = 0 /\ f.refs = 0
  BY NewOwes DEF Activation
<1> HIDE DEF act, f
<1>5. refs' = refs + act.refs + f.refs
  BY <1>1, <1>4
<1> QED
  BY <1>1, <1>3, <1>4, <1>5, BalancedOne

LEMMA InlineBalanced == ASSUME RInv, IInv', RenderInline PROVE RefsBalanced'
<1>1. status = "running"
  BY StmtFacts DEF RenderInline, RInv
<1>2. PICK ip \in InScope(frames, PartialName(Stmt)) :
         Enter([Activation("inline", Stmt, ip.code, ip.tmpl) EXCEPT !.refs = PartialRefs(Stmt)])
  BY DEF RenderInline
<1> DEFINE act == [Activation("inline", Stmt, ip.code, ip.tmpl) EXCEPT !.refs = PartialRefs(Stmt)]
           f   == NewFrame(PartialData(Stmt))
           g   == Append(frames, f)
<1>3. Enter(act) /\ frames' = frames \o <<f, f>> /\ refs' = refs + PartialRefs(Stmt)
  BY <1>2 DEF RenderInline
<1>4. act.refs = PartialRefs(Stmt) /\ f.refs = 0 /\ PartialRefs(Stmt) \in Nat
  BY NewOwes, PartialRefsNat DEF Activation
<1> HIDE DEF act, f
<1>5. Debts(frames) /\ Owed(frames) \in Nat
  BY <1>1, DebtsFrame
<1>6. frames' = Append(g, f)
  <2>1. frames \in Seq({frames[i] : i \in DOMAIN frames} \cup {f})
    BY <1>5, SeqMonotonic DEF Debts, Stack
  <2> QED
    BY <1>3, <2>1
<1>7. Debts(g) /\ Owed(g) = Owed(frames) + 0
  BY <1>4, <1>5, OwedPush
<1> HIDE DEF g
<1>8. Owed(frames') = Owed(g) + 0
  BY <1>4, <1>6, <1>7, OwedPush
<1>9. Owed(frames') = Owed(frames) + 0 /\ refs' = refs + act.refs + 0 /\ 0 \in Int
  BY <1>3, <1>4, <1>5, <1>7, <1>8 DEF RInv, IInv, TypeOK
<1> QED
  BY <1>1, <1>3, <1>4, <1>9, BalancedEnter DEF RInv

LEMMA PartialBalanced == ASSUME RInv, IInv', RenderPartial PROVE RefsBalanced'
<1> DEFINE act == [Activation("partial", Stmt, job.partials[PartialName(Stmt)].body, compiled + 1)
                     EXCEPT !.own = compiled + 1, !.refs = PartialRefs(Stmt)]
           f == NewFrame(PartialData(Stmt))
<1>1. status = "running" /\ refs' = refs + PartialRefs(Stmt) /\ refs \in Int
  BY StmtFacts DEF RenderPartial, RInv, IInv, TypeOK
<1>2. Enter(act) /\ (frames' = frames \/ frames' = Append(frames, f))
  BY DEF RenderPartial
<1>3. act.refs = PartialRefs(Stmt) /\ f.refs = 0 /\ PartialRefs(Stmt) \in Nat
  BY NewOwes, PartialRefsNat DEF Activation
<1> HIDE DEF act, f
<1>4. refs' = refs + act.refs + f.refs
  BY <1>1, <1>3
<1> QED
  BY <1>1, <1>2, <1>3, <1>4, BalancedNone, BalancedOne

LEMMA PartialBlockBalanced == ASSUME RInv, IInv', RenderPartialBlock PROVE RefsBalanced'
<1> DEFINE name == NameOf(Stmt)
           act(ip) == Activation("pblock", Stmt, ip.code, ip.tmpl)
           own == [Activation("pblock", Stmt, job.partials[name].body, compiled + 1)
                     EXCEPT !.own = compiled + 1]
           f   == BlockFrame(Stmt)
<1>1. status = "running" /\ refs \in Int /\ 0 \in Nat
  BY StmtFacts DEF RenderPartialBlock, RInv, IInv, TypeOK
<1>2. \/ \E ip \in InScope(frames, name) : EnterPartialBlock(act(ip))
      \/ EnterPartialBlock(own)
      \/ EnterBlock(Stmt.body, 0)
  BY DEF RenderPartialBlock
<1>3. f.refs = 0
  BY DEF BlockFrame, NewFrame
<1>4. own.refs = 0 /\ \A ip : act(ip).refs = 0
  BY DEF Activation
<1> HIDE DEF f, act, own
<1>5. ASSUME NEW a, EnterPartialBlock(a), a.refs = 0 PROVE RefsBalanced'
  <2>1. Enter(a) /\ frames' = Append(frames, f) /\ refs' = refs
    BY <1>5 DEF EnterPartialBlock, f
  <2>2. refs' = refs + a.refs + f.refs
    BY <1>1, <1>3, <1>5, <2>1
  <2> QED
    BY <1>1, <1>3, <1>5, <2>1, <2>2, BalancedOne
<1> QED
  BY <1>1, <1>2, <1>4, <1>5, BlockBalanced

-----------------------------------------------------------------------------
(* The returns: what the frames owned is put, by the loop that pushed them; *)
(* the frames of a partial and of a callback own nothing.                  *)
LEMMA BareFrame ==
    ASSUME RInv, status = "running", Top.kind # "each", FramesHeld(Top) # 0
    PROVE  Frame.refs = 0
<1> DEFINE m == Len(frames)
           b == Top.base.frames
           h == FramesHeld(Top)
<1>1. m = b + h /\ b \in Nat /\ h \in Nat /\ h # 0
  BY Below, HeldNat DEF RInv
<1> HIDE DEF m, b, h
<1>2. m \in 1..m /\ b < m
  BY <1>1
<1> QED
  BY <1>2, TopBare DEF RInv, Frame, m, b

LEMMA ReturnedNone ==
    ASSUME RInv, IInv', status = "running", Return, frames' = frames, refs' = refs - Top.refs
    PROVE  RefsBalanced'
<1>1. Owed(frames') = Owed(frames) - 0 /\ refs' = refs - Top.refs - 0 /\ 0 \in Int
  BY DebtsFrame DEF RInv, IInv, TypeOK
<1> QED
  BY <1>1, BalancedReturn DEF RInv

LEMMA ReturnedOne ==
    ASSUME RInv, IInv', status = "running", Return, frames' = Front(frames),
           refs' = refs - Top.refs - Frame.refs
    PROVE  RefsBalanced'
<1>1. Owed(frames') = Owed(frames) - Frame.refs /\ Frame.refs \in Int
  BY DebtsFrame, OwedPop DEF Frame
<1> QED
  BY <1>1, BalancedReturn DEF RInv

LEMMA ReturnedBare ==
    ASSUME RInv, IInv', status = "running", Return, frames' = Front(frames),
           Top.kind # "each", FramesHeld(Top) # 0, refs' = refs - Top.refs
    PROVE  RefsBalanced'
<1>1. Frame.refs = 0
  BY BareFrame
<1>2. refs' = refs - Top.refs - Frame.refs
  BY <1>1, DebtsFrame DEF RInv, IInv, TypeOK
<1> QED
  BY <1>2, ReturnedOne

LEMMA ReturnInlineBalanced == ASSUME RInv, IInv', ReturnInline PROVE RefsBalanced'
<1> DEFINE m == Len(frames)
           g == Front(frames)
<1>1. status = "running" /\ Return /\ frames' = Front(g) /\ Top.kind = "inline"
      /\ refs' = refs - Top.refs
  BY DEF ReturnInline, Running
<1>2. m = Top.base.frames + 2 /\ Top.base.frames \in Nat
  BY <1>1, Below DEF FramesHeld, RInv
<1>3. Debts(frames) /\ Owed(frames) \in Nat /\ Top.refs \in Nat
  BY <1>1, DebtsFrame
<1>4. m # 0 /\ m - 1 # 0 /\ m \in 1..m /\ m - 1 \in 1..m
      /\ Top.base.frames < m /\ Top.base.frames < m - 1
  <2> DEFINE b == Top.base.frames
  <2> HIDE DEF m, b
  <2>1. m = b + 2 /\ b \in Nat
    BY <1>2 DEF b
  <2>2. m # 0 /\ m - 1 # 0 /\ m \in 1..m /\ m - 1 \in 1..m /\ b < m /\ b < m - 1
    BY <2>1
  <2> QED
    BY <2>2 DEF b
<1>5. frames[m].refs = 0 /\ frames[m - 1].refs = 0
  BY <1>1, <1>4, TopBare DEF RInv
<1>6. Debts(g) /\ Owed(g) = Owed(frames) - 0 /\ Len(g) = m - 1 /\ g[m - 1] = frames[m - 1]
  <2>1. m \in Nat /\ m - 1 \in 1..(m - 1)
    BY <1>2, <1>4
  <2>2. Debts(g) /\ Owed(g) = Owed(frames) - 0
    BY <1>3, <1>4, <1>5, OwedPop
  <2> QED
    BY <1>3, <1>4, <2>1, <2>2, Pop DEF Debts
<1> HIDE DEF m, g
<1>7. Owed(frames') = Owed(g) - 0
  BY <1>1, <1>4, <1>5, <1>6, OwedPop
<1>8. Owed(frames') = Owed(frames) - 0 /\ refs' = refs - Top.refs - 0 /\ 0 \in Int
  BY <1>1, <1>3, <1>6, <1>7 DEF RInv, IInv, TypeOK
<1> QED
  BY <1>1, <1>8, BalancedReturn DEF RInv

LEMMA ReturnBalanced ==
    ASSUME RInv, IInv',
           ReturnHelper \/ ReturnBlock \/ ReturnScope \/ ReturnPartial \/ ReturnFn \/ ReturnRoot
    PROVE  RefsBalanced'
<1>1. CASE ReturnHelper
  BY <1>1, ReturnedNone DEF ReturnHelper, InHelper
<1>2. CASE ReturnBlock
  BY <1>2, ReturnedNone DEF ReturnBlock, Running
<1>3. CASE ReturnScope
  BY <1>3, ReturnedOne DEF ReturnScope, Running
<1>4. CASE ReturnPartial
  <2>1. status = "running" /\ Return /\ refs' = refs - Top.refs /\ Top.kind = "partial"
        /\ frames' = IF NeedsFrame(Top.node) THEN Front(frames) ELSE frames
    BY <1>4 DEF ReturnPartial, Running
  <2>2. CASE NeedsFrame(Top.node)
    BY <2>1, <2>2, ReturnedBare DEF FramesHeld
  <2>3. CASE ~NeedsFrame(Top.node)
    BY <2>1, <2>3, ReturnedNone
  <2> QED
    BY <2>2, <2>3
<1>5. CASE ReturnFn
  <2>1. status = "running" /\ Return /\ refs' = refs /\ Top.kind = "fn" /\ frames' = Front(frames)
    BY <1>5 DEF ReturnFn, Running
  <2> QED
    <3>1. Len(ctl) \in 1..Len(ctl) /\ Loops(ctl, frames)
      BY <2>1, StateFacts DEF RInv, LInv
    <3>2. Top.refs = 0
      BY <2>1, <3>1 DEF Loops, Free, Top
    <3>3. refs' = refs - Top.refs
      BY <2>1, <3>2 DEF RInv, IInv, TypeOK
    <3> QED
      BY <2>1, <3>3, ReturnedBare DEF FramesHeld
<1>6. CASE ReturnRoot
  BY <1>6, ReturnedOne DEF ReturnRoot, Running
<1> QED
  BY <1>1, <1>2, <1>3, <1>4, <1>5, <1>6

LEMMA OwedNothing == ASSUME NEW s, Debts(s), Len(s) = 0 PROVE Owed(s) = 0
<1>1. Sums([i \in 0..0 |-> 0], s, 0)
  <2>1. DOMAIN s = 1..0 /\ \A i : i \notin 1..0
    BY Height DEF Debts
  <2> QED
    BY <2>1 DEF Sums
<1> QED
  BY <1>1, OwedIsFold

LEMMA InitBalanced == Init => RefsBalanced
<1> SUFFICES ASSUME Init PROVE RefsBalanced
  OBVIOUS
<1>1. /\ refs = 0 /\ Len(ctl) = 1 /\ ctl[1].refs = 0 /\ Len(frames) = 1 /\ frames[1].refs = 0
  BY DEF Init, NewFrame
<1>2. Debts(ctl) /\ Debts(frames)
  BY InitInvariant, CtlDebts, ChainDebts DEF IInv, TypeOK
<1>3. Debts(<<>>) /\ Len(<<>>) = 0
  <2>1. \A i : i \notin 1..0
    OBVIOUS
  <2> QED
    BY <2>1, EmptyStack DEF Debts
<1>4. Owed(<<>>) = 0
  BY <1>3, OwedNothing
<1>5. ASSUME NEW s, Debts(s), Len(s) = 1, s[1].refs = 0 PROVE Owed(s) = 0
  <2> DEFINE e == <<>>
  <2>1. Debts(e) /\ Len(e) = 0 /\ Owed(e) = 0
    BY <1>3, <1>4
  <2> HIDE DEF e
  <2>2. Len(s) = Len(e) + 1 /\ \A i \in 1..Len(e) : s[i].refs = e[i].refs
    BY <1>5, <2>1
  <2>3. Owed(s) = Owed(e) + s[Len(s)].refs
    BY <1>5, <2>1, <2>2, OwedMore
  <2> QED
    BY <1>5, <2>1, <2>3
<1>6. Owed(ctl) = 0 /\ Owed(frames) = 0
  BY <1>1, <1>2, <1>5
<1> QED
  BY <1>1, <1>6 DEF RefsBalanced

LEMMA StepBalanced == ASSUME RInv, IInv', [Next]_vars PROVE RefsBalanced'
<1>0. CASE UNCHANGED vars \/ GoWrong
  BY <1>0 DEF vars, GoWrong, RInv, RefsBalanced
<1>1. ASSUME NEW kind, At(kind), NEW items, Produce(items) PROVE RefsBalanced'
  BY <1>1, StmtFacts, ProduceBalanced DEF RInv
<1>2. CASE RenderText \/ RenderComment \/ RenderLookup \/ RenderLog \/ RenderValue
  BY <1>1, <1>2 DEF RenderText, RenderComment, RenderLookup, RenderLog, RenderValue
<1>3. CASE RenderRaw
  BY <1>1, <1>3 DEF RenderRaw
<1>4. CASE RenderNoPartial \/ RenderNamelessBlock
  BY <1>1, <1>4 DEF RenderNoPartial, RenderNamelessBlock
<1>5. CASE Resume
  BY <1>5, NextItemBalanced, CallBackBalanced, ReturnInlineBalanced, ReturnBalanced DEF Resume
<1> QED
  BY <1>0, <1>2, <1>3, <1>4, <1>5, MissingBalanced, IfBalanced, WithBalanced, EachBalanced,
     UnknownBalanced, HelperBalanced, YieldBalanced, InlineBalanced, PartialBalanced,
     PartialBlockBalanced, RegisterBalanced DEF Next, Statement

(* For every set of templates and every script of a user helper: no json   *)
(* reference leaks and none is put twice, whatever a function returns with, *)
(* an error or an empty branch; the references in existence are those the  *)
(* running functions and live frames will put, none once the call is over. *)
THEOREM Balanced == Spec => []RefsBalanced
<1>1. Init => RInv
  BY InitInvariant, InitLoops, InitBalanced DEF RInv
<1>2. RInv /\ IInv' /\ [Next]_vars => RInv'
  BY StepLoops, StepBalanced DEF RInv
<1>3. RInv => RefsBalanced
  BY DEF RInv
<1> QED
  BY Invariant, <1>1, <1>2, <1>3, PTL DEF Spec

-----------------------------------------------------------------------------
(* A call that is over has left nothing behind.                            *)
Settled == status \in {"ok", "error"} => Len(ctl) = 0 /\ Len(frames) = 0

LEMMA StillRunning ==
    ASSUME Next, ~ReturnRoot PROVE status = "running" /\ status' \in {"running", "undefined"}
<1>1. ASSUME NEW kind, At(kind) PROVE status = "running"
  BY <1>1 DEF At, Running
<1>2. CASE GoWrong
  BY <1>2 DEF GoWrong, Running
<1>3. CASE Statement /\ ~GoWrong
  <2>1. status' = status
    BY <1>3 DEF Statement, Produce, RenderText, RenderComment, RenderLookup, RenderLog,
       RenderValue, RenderMissing, RenderRaw, RenderIf, RenderWith, RenderEach, RenderUnknown,
       RenderHelper, RenderNoPartial, RenderYield, RenderInline, RenderPartial,
       RenderPartialBlock, RenderNamelessBlock, RegisterInline, EnterBlock, EnterScope,
       EnterPartialBlock
  <2>2. status = "running"
    BY <1>1, <1>3 DEF Statement, RenderText, RenderComment, RenderLookup, RenderLog,
       RenderValue, RenderMissing, RenderRaw, RenderIf, RenderWith, RenderEach, RenderUnknown,
       RenderHelper, RenderNoPartial, RenderYield, RenderInline, RenderPartial,
       RenderPartialBlock, RenderNamelessBlock, RegisterInline
  <2> QED
    BY <2>1, <2>2
<1>4. CASE Resume
  BY <1>4 DEF Resume, NextItem, CallBack, ReturnHelper, ReturnBlock, ReturnScope, ReturnPartial,
     ReturnInline, ReturnFn, Running, InHelper
<1> QED
  BY <1>2, <1>3, <1>4 DEF Next

LEMMA StepSettled == ASSUME RInv, Settled, [Next]_vars PROVE Settled'
<1>1. CASE UNCHANGED vars
  BY <1>1 DEF vars, Settled
<1>2. CASE Next /\ ~ReturnRoot
  BY <1>2, StillRunning DEF Settled
<1>3. CASE ReturnRoot
  <2>1. status = "running" /\ Top.kind = "root" /\ ctl' = Front(ctl) /\ frames' = Front(frames)
    BY <1>3 DEF ReturnRoot, Running, Return
  <2>2. Nested(ctl, Heights) /\ Len(ctl) \in Nat /\ Len(ctl) # 0 /\ Stack(ctl) /\ Stack(frames)
    BY <2>1, StateFacts, CallFacts DEF RInv
  <2>3. Len(ctl) = 1
    <3> DEFINE n == Len(ctl)
    <3>1. n \in Nat /\ n # 0 /\ \A k \in 2..n : ctl[k].kind # "root"
      BY <2>2 DEF Nested
    <3>2. ctl[n].kind = "root"
      BY <2>1 DEF Top
    <3> HIDE DEF n
    <3>3. n = 1
      BY <3>1, <3>2
    <3> QED
      BY <3>3 DEF n
  <2>4. Len(frames) = 1
    <3>1. Top = ctl[1]
      BY <2>3 DEF Top
    <3>2. FramesHeld(Top) = 1 /\ Top.base = [frames |-> 0, outs |-> 0, errs |-> 0]
      BY <2>1, <2>2, <3>1 DEF Nested, FramesHeld
    <3>3. Heights = Above(Top)
      BY <2>2 DEF Nested, Top
    <3>4. Heights.frames = 0 + 1
      BY <3>2, <3>3 DEF Above
    <3> QED
      BY <3>4 DEF Heights
  <2>5. Len(ctl') = 0 /\ Len(frames') = 0
    <3>1. ASSUME NEW s, Stack(s), Len(s) = 1 PROVE Len(Front(s)) = 0
      <4>1. Len(s) # 0
        BY <3>1
      <4>2. Len(Front(s)) = Len(s) - 1
        BY <3>1, <4>1, Pop
      <4> QED
        BY <3>1, <4>2
    <3> QED
      BY <2>1, <2>2, <2>3, <2>4, <3>1
  <2> QED
    BY <2>5 DEF Settled
<1> QED
  BY <1>1, <1>2, <1>3

(* When hbs_render has returned, with the output or with HBS_ERR_RENDER,   *)
(* every reference that the call obtained has been put.                    *)
THEOREM NothingOwed == Spec => [](status \in {"ok", "error"} => refs = 0)
<1>1. Init => RInv /\ Settled
  BY InitInvariant, InitLoops, InitBalanced DEF RInv, Settled, Init
<1>2. RInv /\ Settled /\ IInv' /\ [Next]_vars => RInv' /\ Settled'
  BY StepLoops, StepBalanced, StepSettled DEF RInv
<1>3. RInv /\ Settled => (status \in {"ok", "error"} => refs = 0)
  <2> SUFFICES ASSUME RInv, Settled, status \in {"ok", "error"} PROVE refs = 0
    OBVIOUS
  <2>1. Debts(ctl) /\ Debts(frames) /\ Len(ctl) = 0 /\ Len(frames) = 0
    BY CtlDebts, ChainDebts DEF RInv, IInv, TypeOK, Settled
  <2>2. Owed(ctl) = 0 /\ Owed(frames) = 0
    BY <2>1, OwedNothing
  <2> QED
    BY <2>2 DEF RInv, RefsBalanced
<1> QED
  BY Invariant, <1>1, <1>2, <1>3, PTL DEF Spec


-----------------------------------------------------------------------------
(* The templates whose code runs, and may yet run, are those of calls in   *)
(* progress.  h is what the frames keep: for each a set of templates.      *)
Owners(c, k) == {0} \cup {c[j].own : j \in 1..k}

(* A call, and the frames up to its own, refer to templates that it or     *)
(* calls before it will destroy: they outlive it.                          *)
Houses(c, h, m) ==
    \A k \in 1..Len(c) : /\ c[k].tmpl \in Owners(c, k)
                         /\ \A i \in 1..m : i <= Ceiling(c[k]) => h[i] \subseteq Owners(c, k)

(* What Houses depends on in an activation.                                *)
Twin(a, b) == a.tmpl = b.tmpl /\ a.own = b.own /\ Ceiling(a) = Ceiling(b)

LEMMA OwnersKept ==
    ASSUME NEW c, NEW d, NEW n \in Nat, \A k \in 1..n : Twin(d[k], c[k])
    PROVE  \A k \in 1..n : Owners(d, k) = Owners(c, k)
<1> TAKE k \in 1..n
<1>1. \A j \in 1..k : j \in 1..n
  OBVIOUS
<1> QED
  BY <1>1 DEF Owners, Twin

LEMMA HousesStay ==
    ASSUME NEW c, Len(c) \in Nat, NEW h, NEW m, Houses(c, h, m),
           NEW d, Len(d) = Len(c), \A k \in 1..Len(c) : Twin(d[k], c[k]),
           NEW g, \A i \in 1..m : g[i] \subseteq h[i]
    PROVE  Houses(d, g, m)
<1> DEFINE n == Len(c)
<1>1. n \in Nat /\ Len(d) = n /\ \A k \in 1..n : Twin(d[k], c[k])
  OBVIOUS
<1>2. \A k \in 1..n : /\ c[k].tmpl \in Owners(c, k)
                      /\ \A i \in 1..m : i <= Ceiling(c[k]) => h[i] \subseteq Owners(c, k)
  BY DEF Houses
<1> HIDE DEF n
<1>3. \A k \in 1..n : Owners(d, k) = Owners(c, k)
  BY <1>1, OwnersKept
<1> QED
  BY <1>1, <1>2, <1>3 DEF Houses, Twin

LEMMA HousesPush ==
    ASSUME NEW c, Len(c) \in Nat, Len(c) # 0, NEW h, NEW m \in Nat, Houses(c, h, m),
           \A k \in 1..Len(c) : Ceiling(c[k]) \in Nat /\ Ceiling(c[k]) <= m, Ceiling(c[Len(c)]) = m,
           NEW d, Len(d) = Len(c) + 1, \A k \in 1..Len(c) : Twin(d[k], c[k]),
           d[Len(d)].tmpl \in Owners(c, Len(c)) \cup {d[Len(d)].own},
           NEW q \in Nat, m <= q, NEW g, \A i \in 1..m : g[i] \subseteq h[i],
           \A i \in (m + 1)..q : g[i] \subseteq Owners(c, Len(c))
    PROVE  Houses(d, g, q)
<1> DEFINE n == Len(c)
<1>1. n \in Nat /\ n # 0 /\ Len(d) = n + 1 /\ \A k \in 1..n : Twin(d[k], c[k])
  OBVIOUS
<1>2. /\ d[n + 1].tmpl \in Owners(c, n) \cup {d[n + 1].own}
      /\ \A i \in (m + 1)..q : g[i] \subseteq Owners(c, n)
  BY <1>1
<1>3. /\ \A k \in 1..n : /\ c[k].tmpl \in Owners(c, k)
                         /\ \A i \in 1..m : i <= Ceiling(c[k]) => h[i] \subseteq Owners(c, k)
      /\ \A k \in 1..n : Ceiling(c[k]) \in Nat /\ Ceiling(c[k]) <= m
      /\ Ceiling(c[n]) = m
  BY DEF Houses
<1> HIDE DEF n
<1>4. /\ \A k \in 1..(n + 1) : k = n + 1 \/ k \in 1..n
      /\ n \in 1..n /\ n + 1 \in 1..(n + 1) /\ 1..n \subseteq 1..(n + 1)
      /\ \A i \in 1..q : i \in 1..m \/ i \in (m + 1)..q
  BY <1>1
<1>5. \A k \in 1..n : Owners(d, k) = Owners(c, k)
  BY <1>1, OwnersKept
<1>6. Owners(c, n) \subseteq Owners(d, n + 1) /\ d[n + 1].own \in Owners(d, n + 1)
  <2>1. Owners(d, n) \subseteq Owners(d, n + 1) /\ d[n + 1].own \in Owners(d, n + 1)
    BY <1>4 DEF Owners
  <2> QED
    BY <1>4, <1>5, <2>1
<1>7. ASSUME NEW i \in 1..q PROVE g[i] \subseteq Owners(c, n)
  <2>1. CASE i \in 1..m
    <3>1. i <= Ceiling(c[n])
      BY <1>3, <2>1
    <3> QED
      BY <1>3, <1>4, <2>1, <3>1
  <2> QED
    BY <1>2, <1>4, <2>1
<1>8. ASSUME NEW k \in 1..n
      PROVE  /\ d[k].tmpl \in Owners(d, k)
             /\ \A i \in 1..q : i <= Ceiling(d[k]) => g[i] \subseteq Owners(d, k)
  <2>1. d[k].tmpl = c[k].tmpl /\ Ceiling(d[k]) = Ceiling(c[k]) /\ Owners(d, k) = Owners(c, k)
    BY <1>1, <1>5 DEF Twin
  <2>2. ASSUME NEW i \in 1..q, i <= Ceiling(c[k]) PROVE g[i] \subseteq Owners(c, k)
    <3>1. i \in 1..m
      BY <1>3, <2>2
    <3> QED
      BY <1>3, <2>2, <3>1
  <2> QED
    BY <1>3, <2>1, <2>2
<1>9. ASSUME NEW k \in 1..(n + 1)
      PROVE  /\ d[k].tmpl \in Owners(d, k)
             /\ \A i \in 1..q : i <= Ceiling(d[k]) => g[i] \subseteq Owners(d, k)
  <2>1. CASE k = n + 1
    BY <1>2, <1>6, <1>7, <2>1
  <2> QED
    BY <1>4, <1>8, <2>1
<1> QED
  BY <1>1, <1>9 DEF Houses

LEMMA HousesPop ==
    ASSUME NEW c, Len(c) \in Nat, Len(c) # 0, NEW h, NEW m \in Nat, Houses(c, h, m),
           NEW d, Len(d) = Len(c) - 1, \A k \in 1..(Len(c) - 1) : d[k] = c[k],
           NEW q \in Nat, q <= m, NEW g, \A i \in 1..q : g[i] \subseteq h[i]
    PROVE  Houses(d, g, q)
<1> DEFINE n == Len(c)
<1>1. n \in Nat /\ n # 0 /\ Len(d) = n - 1 /\ \A k \in 1..(n - 1) : d[k] = c[k]
  OBVIOUS
<1>2. \A k \in 1..n : /\ c[k].tmpl \in Owners(c, k)
                      /\ \A i \in 1..m : i <= Ceiling(c[k]) => h[i] \subseteq Owners(c, k)
  BY DEF Houses
<1> HIDE DEF n
<1>3. n - 1 \in Nat /\ 1..(n - 1) \subseteq 1..n /\ 1..q \subseteq 1..m
  BY <1>1
<1>4. \A k \in 1..(n - 1) : Twin(d[k], c[k])
  BY <1>1 DEF Twin
<1>5. \A k \in 1..(n - 1) : Owners(d, k) = Owners(c, k)
  BY <1>3, <1>4, OwnersKept
<1> QED
  BY <1>1, <1>2, <1>3, <1>5 DEF Houses


-----------------------------------------------------------------------------
(* What the frames keep: the template of the block that each offers, and   *)
(* those of the inline partials registered in it.                          *)
BlocksIn(f)  == {f.block[j].tmpl : j \in 1..Len(f.block)}
InlinesIn(f) == {f.inlines[j].tmpl : j \in 1..Len(f.inlines)}
Blocks(s)    == [i \in 1..Len(s) |-> BlocksIn(s[i])]
Inlines(s)   == [i \in 1..Len(s) |-> InlinesIn(s[i])]

HInv == Houses(ctl, Blocks(frames), Len(frames))

(* Every partial is called with arguments, which gives it a frame of its   *)
(* own; a yield has one anyway.                                            *)
Framed == \A n \in Node : n.kind = "partial" =>
              NeedsFrame(n) \/ n.target = [kind |-> "lit", value |-> Str("@partial-block")]

(* The three ways a step changes the calls and what their frames keep.     *)
Staying ==
    /\ Len(ctl') = Len(ctl) /\ \A k \in 1..Len(ctl) : Twin(ctl'[k], ctl[k])
    /\ Len(frames') = Len(frames)
    /\ \A i \in 1..Len(frames) :
          /\ BlocksIn(frames'[i]) \subseteq BlocksIn(frames[i])
          /\ InlinesIn(frames'[i]) \subseteq InlinesIn(frames[i])
                                             \cup (IF i = Len(frames) THEN {Top.tmpl} ELSE {})

Callee == ctl'[Len(ctl')]
Calling ==
    /\ Len(ctl') = Len(ctl) + 1 /\ \A k \in 1..Len(ctl) : Twin(ctl'[k], ctl[k])
    /\ Callee.base.frames = Len(frames)
    /\ Callee.tmpl \in Owners(ctl, Len(ctl)) \cup {Callee.own}
    /\ Framed /\ FramesHeld(Callee) = 0 => Callee.tmpl = Top.tmpl
    /\ Len(frames') \in Nat /\ Len(frames) <= Len(frames')
    /\ \A i \in 1..Len(frames) : frames'[i] = frames[i]
    /\ \A i \in (Len(frames) + 1)..Len(frames') :
          BlocksIn(frames'[i]) \subseteq {Top.tmpl} /\ InlinesIn(frames'[i]) = {}

Leaving ==
    /\ Len(ctl') = Len(ctl) - 1 /\ \A k \in 1..(Len(ctl) - 1) : ctl'[k] = ctl[k]
    /\ Len(frames') \in Nat /\ Len(frames') <= Len(frames)
    /\ \A i \in 1..Len(frames') : frames'[i] = frames[i]

LEMMA TwinAlike == ASSUME NEW a, NEW b, Alike(a, b), a.tmpl = b.tmpl, a.own = b.own PROVE Twin(a, b)
BY DEF Twin, Alike, Ceiling, FramesHeld

LEMMA AdvancedTwin ==
    ASSUME IInv, status = "running"
    PROVE  \A k \in 1..Len(ctl) : Twin(Advanced[k], ctl[k])
<1> DEFINE a == [Top EXCEPT !.pc = Top.pc + 1]
<1>1. Twin(a, Top)
  <2>1. DOMAIN Top = {"kind", "node", "code", "pc", "tmpl", "own", "refs",
                      "value", "iter", "calls", "base"}
    BY StateFacts DEF IsActivation
  <2>2. Alike(a, Top) /\ a.tmpl = Top.tmpl /\ a.own = Top.own
    BY <2>1 DEF Alike
  <2> QED
    BY <2>2, TwinAlike
<1>2. Advanced = [ctl EXCEPT ![Len(ctl)] = a]
  BY DEF Advanced, Top
<1>3. DOMAIN ctl = 1..Len(ctl)
  BY Height DEF IInv, TypeOK, CallStack
<1> HIDE DEF a
<1>4. \A k \in 1..Len(ctl) : Advanced[k] = IF k = Len(ctl) THEN a ELSE ctl[k]
  BY <1>2, <1>3
<1>5. \A k \in 1..Len(ctl) : Twin(ctl[k], ctl[k])
  BY DEF Twin
<1> QED
  BY <1>1, <1>4, <1>5 DEF Top

LEMMA TopHoused ==
    ASSUME IInv, LInv, HInv, status = "running"
    PROVE  Top.tmpl \in Owners(ctl, Len(ctl))
<1>1. Len(ctl) \in 1..Len(ctl)
  BY StateFacts
<1> QED
  BY <1>1 DEF HInv, Houses, Top

(* A template that has not been destroyed is that of a call in progress.   *)
LEMMA LiveOwned == ASSUME NEW tmpl PROVE Live(tmpl) <=> tmpl \in Owners(ctl, Len(ctl))
BY DEF Live, Owners

LEMMA NewKeepsNone ==
    ASSUME NEW f, f.block = <<>>, f.inlines = <<>> PROVE BlocksIn(f) = {} /\ InlinesIn(f) = {}
<1>1. Len(<<>>) = 0 /\ 1..0 = {}
  OBVIOUS
<1> QED
  BY <1>1 DEF BlocksIn, InlinesIn

LEMMA StaysAdvanced ==
    ASSUME IInv, status = "running", ctl' = Advanced, frames' = frames PROVE Staying
BY AdvancedTwin, AdvancedFacts DEF Staying

LEMMA CallsAny ==
    ASSUME IInv, LInv, status = "running", NEW act, Enter(act), act.base = Heights,
           act.tmpl \in Owners(ctl, Len(ctl)) \cup {act.own},
           Framed /\ FramesHeld(act) = 0 => act.tmpl = Top.tmpl,
           Len(frames') \in Nat, Len(frames) <= Len(frames'),
           \A i \in 1..Len(frames) : frames'[i] = frames[i],
           \A i \in (Len(frames) + 1)..Len(frames') :
              BlocksIn(frames'[i]) \subseteq {Top.tmpl} /\ InlinesIn(frames'[i]) = {}
    PROVE  Calling
<1>1. Stack(Advanced) /\ Len(Advanced) = Len(ctl) /\ \A k \in 1..Len(ctl) : Twin(Advanced[k], ctl[k])
  BY AdvancedFacts, AdvancedTwin
<1>2. /\ Len(ctl') = Len(ctl) + 1 /\ ctl'[Len(ctl) + 1] = act
      /\ \A k \in 1..Len(ctl) : ctl'[k] = Advanced[k]
  BY <1>1, Push DEF Enter
<1>3. Callee = act /\ act.base.frames = Len(frames)
  BY <1>2 DEF Callee, Heights
<1>4. \A k \in 1..Len(ctl) : Twin(ctl'[k], ctl[k])
  BY <1>1, <1>2
<1> QED
  BY <1>2, <1>3, <1>4 DEF Calling

LEMMA CallsWithout ==
    ASSUME IInv, LInv, status = "running", NEW act, Enter(act), act.base = Heights,
           act.tmpl \in Owners(ctl, Len(ctl)) \cup {act.own},
           Framed /\ FramesHeld(act) = 0 => act.tmpl = Top.tmpl,
           frames' = frames
    PROVE  Calling
<1> DEFINE m == Len(frames)
<1>1. m \in Nat
  BY CallFacts
<1> HIDE DEF m
<1>2. m <= m /\ \A i : i \notin (m + 1)..m
  BY <1>1
<1> QED
  BY <1>1, <1>2, CallsAny DEF m

LEMMA CallsWithFrame ==
    ASSUME IInv, LInv, status = "running", NEW act, Enter(act), act.base = Heights,
           act.tmpl \in Owners(ctl, Len(ctl)) \cup {act.own}, FramesHeld(act) # 0,
           NEW f, frames' = Append(frames, f), BlocksIn(f) \subseteq {Top.tmpl}, InlinesIn(f) = {}
    PROVE  Calling
<1> DEFINE m == Len(frames)
<1>1. m \in Nat /\ Stack(frames)
  BY CallFacts
<1>2. /\ Len(frames') = m + 1 /\ frames'[m + 1] = f
      /\ \A i \in 1..m : frames'[i] = frames[i]
  BY <1>1, Push
<1> HIDE DEF m
<1>3. m + 1 \in Nat /\ m <= m + 1 /\ \A i \in (m + 1)..(m + 1) : i = m + 1
  BY <1>1
<1>4. \A i \in (m + 1)..(m + 1) : BlocksIn(frames'[i]) \subseteq {Top.tmpl} /\ InlinesIn(frames'[i]) = {}
  BY <1>2, <1>3
<1> QED
  BY <1>2, <1>3, <1>4, CallsAny DEF m


-----------------------------------------------------------------------------
(* The actions.                                                            *)
LEMMA ProduceStays == ASSUME IInv, NEW kind, At(kind), NEW items, Produce(items) PROVE Staying
BY StmtFacts, StaysAdvanced DEF Produce

LEMMA RegisterStays == ASSUME IInv, LInv, RegisterInline PROVE Staying
<1> DEFINE ip == [name |-> NameOf(Stmt), code |-> Stmt.body, tmpl |-> Top.tmpl]
           ps == <<ip>> \o Frame.inlines
           f  == [Frame EXCEPT !.inlines = ps]
           n  == Len(frames)
<1>1. status = "running" /\ ctl' = Advanced
  BY StmtFacts DEF RegisterInline
<1>2. IsFrame(Frame) /\ n \in 1..n
  BY <1>1, StateFacts
<1>3. frames' = [frames EXCEPT ![n] = f]
  BY DEF RegisterInline, Frame
<1>4. Stack(frames) /\ DOMAIN frames = 1..n
  BY <1>1, CallFacts, Height
<1>5. f.block = Frame.block /\ f.inlines = ps
  BY <1>2 DEF IsFrame
<1>6. InlinesIn(f) \subseteq InlinesIn(Frame) \cup {Top.tmpl}
  <2> DEFINE q == Frame.inlines
             l == Len(q)
             S == {q[i] : i \in DOMAIN q} \cup {ip}
  <2>1. Stack(q) /\ q \in Seq(S) /\ <<ip>> \in Seq(S) /\ Len(<<ip>>) = 1 /\ <<ip>>[1] = ip
    BY <1>2, SeqMonotonic DEF IsFrame, Stack
  <2>2. l \in Nat
    BY <2>1, Height
  <2>3. Len(ps) = 1 + l /\ \A j \in 1..(1 + l) : ps[j] = IF j <= 1 THEN <<ip>>[j] ELSE q[j - 1]
    BY <2>1, ConcatProperties
  <2>4. ip.tmpl = Top.tmpl
    OBVIOUS
  <2> HIDE DEF ps, ip, S, l, f
  <2>5. ASSUME NEW j \in 1..(1 + l) PROVE ps[j].tmpl \in {q[i].tmpl : i \in 1..l} \cup {Top.tmpl}
    <3>1. CASE j = 1
      BY <2>1, <2>3, <2>4, <3>1
    <3>2. CASE j # 1
      <4>1. j - 1 \in 1..l /\ ps[j] = q[j - 1]
        BY <2>2, <2>3, <3>2
      <4> QED
        BY <4>1
    <3> QED
      BY <3>1, <3>2
  <2> QED
    BY <1>5, <2>3, <2>5 DEF InlinesIn, l
<1> HIDE DEF f
<1>7. Len(frames') = n
  <2>1. frames' = [i \in DOMAIN frames |-> frames'[i]]
    BY <1>3
  <2> QED
    BY <1>4, <2>1, Replace
<1>8. \A i \in 1..n : frames'[i] = IF i = n THEN f ELSE frames[i]
  BY <1>3, <1>4
<1>9. BlocksIn(f) = BlocksIn(Frame)
  BY <1>5 DEF BlocksIn
<1>10. \A k \in 1..Len(ctl) : Twin(ctl'[k], ctl[k])
  BY <1>1, AdvancedTwin
<1>11. Len(ctl') = Len(ctl)
  BY <1>1, AdvancedFacts
<1> QED
  BY <1>6, <1>7, <1>8, <1>9, <1>10, <1>11 DEF Staying, Frame

LEMMA BlockCalls ==
    ASSUME IInv, LInv, HInv, status = "running", NEW code, NEW owned, EnterBlock(code, owned)
    PROVE  Calling
<1> DEFINE act == [Run("block", code) EXCEPT !.refs = owned]
<1>1. Enter(act) /\ frames' = frames
  BY DEF EnterBlock
<1>2. act.base = Heights /\ act.tmpl = Top.tmpl
  BY DEF Run, Activation, Heights
<1> HIDE DEF act
<1> QED
  BY <1>1, <1>2, TopHoused, CallsWithout

LEMMA ScopeCalls ==
    ASSUME IInv, LInv, HInv, status = "running", NEW kind \in {"each", "with"}, NEW value, NEW f,
           EnterScope(kind, value, f), f.block = <<>>, f.inlines = <<>>
    PROVE  Calling
<1> DEFINE act == [Run(kind, Stmt.body) EXCEPT !.value = value, !.refs = Owned(value)]
<1>1. Enter(act) /\ frames' = Append(frames, f)
  BY DEF EnterScope
<1>2. act.kind = kind /\ act.base = Heights /\ act.tmpl = Top.tmpl
  BY DEF Run, Activation, Heights
<1> HIDE DEF act
<1>3. FramesHeld(act) # 0
  BY <1>2 DEF FramesHeld
<1> QED
  BY <1>1, <1>2, <1>3, TopHoused, NewKeepsNone, CallsWithFrame

LEMMA WithCalls == ASSUME IInv, LInv, HInv, RenderWith PROVE Calling
<1> DEFINE v == Arg1(Stmt)
           f == [NewFrame(v) EXCEPT !.params = Filled(Stmt.params, <<v>>), !.slots = Len(Stmt.params)]
<1>1. status = "running"
  BY StmtFacts DEF RenderWith
<1>2. EnterBlock(Stmt.inverse, Owned(v)) \/ EnterScope("with", v, f)
  BY DEF RenderWith
<1>3. f.block = <<>> /\ f.inlines = <<>>
  BY DEF NewFrame
<1> HIDE DEF v, f
<1> QED
  BY <1>1, <1>2, <1>3, BlockCalls, ScopeCalls

LEMMA LoopFrameNew == ASSUME NEW n, NEW coll, NEW i
                      PROVE  LoopFrame(n, coll, i).block = <<>> /\ LoopFrame(n, coll, i).inlines = <<>>
BY DEF LoopFrame, NewFrame

LEMMA EachCalls == ASSUME IInv, LInv, HInv, RenderEach PROVE Staying \/ Calling
<1> DEFINE coll == Arg1(Stmt)
           f    == LoopFrame(Stmt, coll, 1)
<1>1. At("block") /\ status = "running"
  BY StmtFacts DEF RenderEach
<1>2. \/ EnterBlock(Stmt.inverse, Owned(coll))
      \/ EnterScope("each", coll, f)
      \/ Produce(<<>>)
  BY DEF RenderEach
<1>3. f.block = <<>> /\ f.inlines = <<>>
  BY LoopFrameNew
<1> HIDE DEF coll, f
<1> QED
  BY <1>1, <1>2, <1>3, BlockCalls, ScopeCalls, ProduceStays

LEMMA UnknownCalls == ASSUME IInv, LInv, HInv, RenderUnknown PROVE Staying \/ Calling
<1>1. At("block") /\ status = "running"
  BY StmtFacts DEF RenderUnknown
<1>2. Produce(<<>>) \/ EnterBlock(Stmt.body, 0)
  BY DEF RenderUnknown
<1> QED
  BY <1>1, <1>2, ProduceStays, BlockCalls

LEMMA HelperCalls == ASSUME IInv, LInv, HInv, RenderHelper PROVE Calling
<1>1. status = "running" /\ frames' = frames
  BY StmtFacts DEF RenderHelper
<1>2. PICK given :
         Enter([Run("helper", <<>>) EXCEPT !.value = Arg1(Stmt), !.calls = given,
                                           !.refs = HelperRefs(Stmt)])
  BY DEF RenderHelper
<1> DEFINE act == [Run("helper", <<>>) EXCEPT !.value = Arg1(Stmt), !.calls = given,
                                              !.refs = HelperRefs(Stmt)]
<1>3. act.base = Heights /\ act.tmpl = Top.tmpl /\ Enter(act)
  BY <1>2 DEF Run, Activation, Heights
<1> HIDE DEF act
<1> QED
  BY <1>1, <1>3, TopHoused, CallsWithout


LEMMA NextItemStays == ASSUME IInv, LInv, NextItem PROVE Staying
<1> DEFINE i == Top.iter + 1
           next == LoopFrame(Top.node, Top.value, i)
           a == [Top EXCEPT !.iter = i, !.pc = 1]
           n == Len(ctl)
           m == Len(frames)
<1>1. status = "running"
  BY DEF NextItem, Running
<1>2. n \in Nat /\ n # 0 /\ Stack(ctl) /\ m \in Nat /\ m # 0 /\ Stack(frames) /\ ctl[n] = Top
  BY <1>1, CallFacts
<1>3. ctl' = [ctl EXCEPT ![n] = a] /\ frames' = Append(Front(frames), next)
  BY DEF NextItem, Top
<1>4. Twin(a, Top)
  <2>1. DOMAIN Top = {"kind", "node", "code", "pc", "tmpl", "own", "refs",
                      "value", "iter", "calls", "base"}
    BY <1>1, StateFacts DEF IsActivation
  <2> HIDE DEF i
  <2>2. Alike(a, Top) /\ a.tmpl = Top.tmpl /\ a.own = Top.own
    BY <2>1 DEF Alike
  <2> QED
    BY <2>2, TwinAlike
<1>5. BlocksIn(next) = {} /\ InlinesIn(next) = {}
  BY LoopFrameNew, NewKeepsNone
<1> HIDE DEF a, next, i
<1>6. Len(ctl') = n /\ \A k \in 1..n : ctl'[k] = IF k = n THEN a ELSE ctl[k]
  <2>1. ctl' = [k \in DOMAIN ctl |-> ctl'[k]] /\ DOMAIN ctl = 1..Len(ctl)
    BY <1>2, <1>3, Height
  <2> QED
    BY <1>2, <1>3, <2>1, Replace
<1>7. Len(frames') = m /\ frames'[m] = next /\ \A k \in 1..(m - 1) : frames'[k] = frames[k]
  <2>1. Stack(Front(frames)) /\ Len(Front(frames)) = m - 1
        /\ \A k \in 1..(m - 1) : Front(frames)[k] = frames[k]
    BY <1>2, Pop
  <2>2. /\ Len(frames') = Len(Front(frames)) + 1
        /\ \A k \in 1..Len(Front(frames)) : frames'[k] = Front(frames)[k]
        /\ frames'[Len(Front(frames)) + 1] = next
    BY <1>3, <2>1, Push
  <2>3. (m - 1) + 1 = m
    BY <1>2
  <2> QED
    BY <2>1, <2>2, <2>3
<1>8. \A k \in 1..n : Twin(ctl'[k], ctl[k])
  <2>1. \A k \in 1..n : Twin(ctl[k], ctl[k])
    BY DEF Twin
  <2> QED
    BY <1>2, <1>4, <1>6, <2>1
<1>9. \A k \in 1..m : k = m \/ k \in 1..(m - 1)
  <2> HIDE DEF m
  <2> QED
    BY <1>2
<1>10. \A k \in 1..m : /\ BlocksIn(frames'[k]) \subseteq BlocksIn(frames[k])
                       /\ InlinesIn(frames'[k]) \subseteq InlinesIn(frames[k])
  BY <1>5, <1>7, <1>9
<1> QED
  BY <1>6, <1>7, <1>8, <1>10 DEF Staying

LEMMA CallBackCalls == ASSUME IInv, LInv, HInv, CallBack PROVE Calling
<1> DEFINE call == Head(Top.calls)
           code == IF call.side = "fn" THEN Top.node.body ELSE Top.node.inverse
           f    == NewFrame(IF call.ctx = "param" THEN Top.value ELSE Frame.data)
           a    == [Top EXCEPT !.calls = Tail(Top.calls)]
           act  == [Activation("fn", Top.node, code, Top.tmpl) EXCEPT !.calls = <<call>>]
           c    == [ctl EXCEPT ![Len(ctl)] = a]
           m    == Len(frames)
<1>1. status = "running"
  BY DEF CallBack, InHelper
<1>2. ctl' = Append(c, act) /\ frames' = Append(frames, f)
  BY DEF CallBack, Top
<1>3. act.kind = "fn" /\ act.base.frames = m /\ act.tmpl = Top.tmpl /\ FramesHeld(act) # 0
  BY DEF Activation, FramesHeld
<1>4. f.block = <<>> /\ f.inlines = <<>>
  BY DEF NewFrame
<1>5. Twin(a, Top)
  <2>1. DOMAIN Top = {"kind", "node", "code", "pc", "tmpl", "own", "refs",
                      "value", "iter", "calls", "base"}
    BY <1>1, StateFacts DEF IsActivation
  <2>2. Alike(a, Top) /\ a.tmpl = Top.tmpl /\ a.own = Top.own
    BY <2>1 DEF Alike
  <2> QED
    BY <2>2, TwinAlike
<1>6. m \in Nat /\ Stack(frames) /\ Stack(ctl) /\ ctl[Len(ctl)] = Top
  BY <1>1, CallFacts
<1> HIDE DEF call, code, f, a, act
<1>7. Stack(c) /\ Len(c) = Len(ctl) /\ \A k \in 1..Len(ctl) : Twin(c[k], ctl[k])
  <2>1. c = [k \in DOMAIN ctl |-> c[k]] /\ DOMAIN ctl = 1..Len(ctl)
    BY <1>6, Height
  <2>2. \A k \in 1..Len(ctl) : c[k] = IF k = Len(ctl) THEN a ELSE ctl[k]
    BY <2>1
  <2>3. \A k \in 1..Len(ctl) : Twin(ctl[k], ctl[k])
    BY DEF Twin
  <2> HIDE DEF c
  <2> QED
    BY <1>5, <1>6, <2>1, <2>2, <2>3, Replace
<1> HIDE DEF c
<1>8. /\ Len(ctl') = Len(ctl) + 1 /\ ctl'[Len(ctl) + 1] = act
      /\ \A k \in 1..Len(ctl) : Twin(ctl'[k], ctl[k])
  BY <1>2, <1>7, Push
<1>9. /\ Len(frames') = m + 1 /\ frames'[m + 1] = f
      /\ \A i \in 1..m : frames'[i] = frames[i]
  BY <1>2, <1>6, Push
<1>10. Callee = act
  BY <1>8 DEF Callee
<1>11. Len(frames') \in Nat /\ m <= Len(frames')
       /\ \A i \in (m + 1)..Len(frames') : frames'[i] = f
  <2> HIDE DEF m
  <2>1. m + 1 \in Nat /\ m <= m + 1 /\ \A i \in (m + 1)..(m + 1) : i = m + 1
    BY <1>6
  <2> QED
    BY <1>9, <2>1
<1>12. BlocksIn(f) = {} /\ InlinesIn(f) = {}
  BY <1>4, NewKeepsNone
<1> QED
  BY <1>1, <1>3, <1>8, <1>9, <1>10, <1>11, <1>12, TopHoused DEF Calling

(* A yield runs a block of a template that some call before will destroy.  *)
LEMMA YieldCalls == ASSUME IInv, LInv, HInv, RenderYield PROVE Calling
<1>1. status = "running"
  BY StmtFacts DEF RenderYield
<1>2. PICK i \in Yielding(frames) :
         LET block == frames[i].block[1]
         IN  /\ Enter([Activation("yield", Stmt, block.code, block.tmpl) EXCEPT !.iter = i])
             /\ frames' = Append(frames, NewFrame(IF block.ctx = Null THEN Frame.data ELSE block.ctx))
  BY DEF RenderYield
<1> DEFINE block == frames[i].block[1]
           f   == NewFrame(IF block.ctx = Null THEN Frame.data ELSE block.ctx)
           act == [Activation("yield", Stmt, block.code, block.tmpl) EXCEPT !.iter = i]
<1>3. Enter(act) /\ frames' = Append(frames, f)
  BY <1>2
<1>4. act.kind = "yield" /\ act.base = Heights /\ act.tmpl = block.tmpl /\ f.block = <<>> /\ f.inlines = <<>>
  BY DEF Activation, Heights, NewFrame
<1>5. block.tmpl \in Owners(ctl, Len(ctl))
  <2>1. i \in 1..Len(frames) /\ frames[i].block # <<>>
    BY DEF Yielding
  <2>2. 1 \in 1..Len(frames[i].block)
    <3> DEFINE b == frames[i].block
               n == Len(b)
    <3>1. Stack(b) /\ b # <<>>
      BY <2>1 DEF IInv, TypeOK, Chain, IsFrame
    <3> HIDE DEF b
    <3>2. n \in Nat /\ n # 0
      BY <3>1, EmptySeq DEF Stack
    <3> HIDE DEF n
    <3>3. 1 \in 1..n
      BY <3>2
    <3> QED
      BY <3>3 DEF n, b
  <2>3. block.tmpl \in BlocksIn(frames[i])
    BY <2>2 DEF BlocksIn
  <2>4. Ceiling(Top) = Len(frames) /\ Len(frames) \in Nat /\ Len(ctl) \in 1..Len(ctl)
    BY <1>1, CallFacts, StateFacts
  <2>5. i <= Ceiling(ctl[Len(ctl)])
    BY <2>1, <2>4 DEF Top
  <2>6. Blocks(frames)[i] \subseteq Owners(ctl, Len(ctl))
    BY <2>1, <2>4, <2>5 DEF HInv, Houses
  <2> QED
    BY <2>1, <2>3, <2>6 DEF Blocks
<1> HIDE DEF act, f, block
<1>6. FramesHeld(act) # 0
  BY <1>4 DEF FramesHeld
<1> QED
  BY <1>1, <1>3, <1>4, <1>5, <1>6, NewKeepsNone, CallsWithFrame

(* An inline partial that is called has a body, or the call is undefined.  *)
LEMMA InlineCalls == ASSUME IInv, LInv, HInv, RenderInline PROVE Calling
<1>1. status = "running" /\ Stmt.kind = "partial"
  BY StmtFacts DEF RenderInline
<1>2. PICK ip \in InScope(frames, PartialName(Stmt)) :
         Enter([Activation("inline", Stmt, ip.code, ip.tmpl) EXCEPT !.refs = PartialRefs(Stmt)])
  BY DEF RenderInline
<1> DEFINE act == [Activation("inline", Stmt, ip.code, ip.tmpl) EXCEPT !.refs = PartialRefs(Stmt)]
           f   == NewFrame(PartialData(Stmt))
           g   == Append(frames, f)
           m   == Len(frames)
<1>3. Enter(act) /\ frames' = frames \o <<f, f>>
  BY <1>2 DEF RenderInline
<1>4. act.kind = "inline" /\ act.base = Heights /\ act.tmpl = ip.tmpl /\ f.block = <<>> /\ f.inlines = <<>>
  BY DEF Activation, Heights, NewFrame
<1>5. ip.tmpl \in Owners(ctl, Len(ctl))
  <2>1. ~CallsDangling(Stmt)
    BY DEF RenderInline, At, Illegal
  <2>2. TargetOf(Stmt) # Null /\ ~IsYield(Stmt)
    BY DEF RenderInline, Calls
  <2>3. Live(ip.tmpl)
    BY <1>1, <2>1, <2>2 DEF CallsDangling
  <2> QED
    BY <2>3, LiveOwned
<1> HIDE DEF act, f
<1>6. m \in Nat /\ Stack(frames)
  BY <1>1, CallFacts
<1>7. frames' = Append(g, f)
  <2>1. frames \in Seq({frames[i] : i \in DOMAIN frames} \cup {f})
    BY <1>6, SeqMonotonic DEF Stack
  <2> QED
    BY <1>3, <2>1
<1>8. Stack(g) /\ Len(g) = m + 1 /\ g[m + 1] = f /\ \A i \in 1..m : g[i] = frames[i]
  BY <1>6, Push
<1> HIDE DEF g
<1>9. Len(frames') = m + 1 + 1 /\ frames'[m + 1 + 1] = f
      /\ \A i \in 1..(m + 1) : frames'[i] = g[i]
  BY <1>7, <1>8, Push
<1> HIDE DEF m
<1>10. /\ m + 1 + 1 \in Nat /\ m <= m + 1 + 1
       /\ \A i \in (m + 1)..(m + 1 + 1) : i = m + 1 \/ i = m + 1 + 1
       /\ 1..m \subseteq 1..(m + 1) /\ m + 1 \in 1..(m + 1)
  BY <1>6
<1>11. BlocksIn(f) = {} /\ InlinesIn(f) = {} /\ FramesHeld(act) # 0
  BY <1>4, NewKeepsNone DEF FramesHeld
<1>12. /\ \A i \in 1..m : frames'[i] = frames[i]
       /\ \A i \in (m + 1)..(m + 1 + 1) : BlocksIn(frames'[i]) \subseteq {Top.tmpl} /\ InlinesIn(frames'[i]) = {}
  BY <1>8, <1>9, <1>10, <1>11
<1> QED
  BY <1>1, <1>3, <1>4, <1>5, <1>9, <1>10, <1>11, <1>12, CallsAny DEF m


(* A registered partial without arguments runs in its caller's frame.      *)
LEMMA PartialCalls == ASSUME IInv, LInv, HInv, RenderPartial PROVE Calling
<1> DEFINE act == [Activation("partial", Stmt, job.partials[PartialName(Stmt)].body, compiled + 1)
                     EXCEPT !.own = compiled + 1, !.refs = PartialRefs(Stmt)]
           f == NewFrame(PartialData(Stmt))
<1>1. status = "running" /\ Stmt \in Node /\ Stmt.kind = "partial"
  BY StmtFacts DEF RenderPartial
<1>2. Enter(act) /\ frames' = IF NeedsFrame(Stmt) THEN Append(frames, f) ELSE frames
  BY DEF RenderPartial
<1>3. /\ act.kind = "partial" /\ act.node = Stmt /\ act.base = Heights /\ act.tmpl = act.own
      /\ f.block = <<>> /\ f.inlines = <<>>
  BY DEF Activation, Heights, NewFrame
<1> HIDE DEF act, f
<1>4. ~IsYield(Stmt)
  BY DEF RenderPartial, Calls
<1>5. NeedsFrame(Stmt) \/ ~Framed
  <2> SUFFICES ASSUME Framed, ~NeedsFrame(Stmt) PROVE FALSE
    OBVIOUS
  <2>1. Stmt.target = [kind |-> "lit", value |-> Str("@partial-block")]
    BY <1>1 DEF Framed
  <2>2. Stmt.target.kind = "lit" /\ Stmt.target.value = Str("@partial-block")
    BY <2>1
  <2>3. Evaluate(frames, Stmt.target, job) = Str("@partial-block")
    BY <2>2 DEF Evaluate, Operand
  <2> QED
    BY <1>4, <2>3 DEF IsYield, TargetOf
<1>6. FramesHeld(act) = IF NeedsFrame(Stmt) THEN 1 ELSE 0
  BY <1>3 DEF FramesHeld
<1>7. BlocksIn(f) = {} /\ InlinesIn(f) = {}
  BY <1>3, NewKeepsNone
<1>8. CASE NeedsFrame(Stmt)
  BY <1>1, <1>2, <1>3, <1>6, <1>7, <1>8, CallsWithFrame
<1>9. CASE ~NeedsFrame(Stmt)
  BY <1>1, <1>2, <1>3, <1>5, <1>9, CallsWithout
<1> QED
  BY <1>8, <1>9

LEMMA PartialBlockCalls == ASSUME IInv, LInv, HInv, RenderPartialBlock PROVE Calling
<1> DEFINE name == NameOf(Stmt)
           act(ip) == Activation("pblock", Stmt, ip.code, ip.tmpl)
           own == [Activation("pblock", Stmt, job.partials[name].body, compiled + 1)
                     EXCEPT !.own = compiled + 1]
           f   == BlockFrame(Stmt)
<1>1. status = "running" /\ Stmt.kind = "pblock"
  BY StmtFacts DEF RenderPartialBlock
<1>2. \/ \E ip \in InScope(frames, name) : EnterPartialBlock(act(ip))
      \/ EnterPartialBlock(own)
      \/ EnterBlock(Stmt.body, 0)
  BY DEF RenderPartialBlock
<1>3. BlocksIn(f) \subseteq {Top.tmpl} /\ InlinesIn(f) = {}
  <2> DEFINE b == [code |-> Stmt.body, ctx |-> Frame.data, tmpl |-> Top.tmpl]
  <2>1. f.block = <<b>> /\ f.inlines = <<>> /\ b.tmpl = Top.tmpl
    BY DEF BlockFrame, NewFrame
  <2> HIDE DEF b, f
  <2>2. Len(<<b>>) = 1 /\ <<b>>[1] = b /\ Len(<<>>) = 0 /\ 1..0 = {} /\ \A j \in 1..1 : j = 1
    OBVIOUS
  <2> QED
    BY <2>1, <2>2 DEF BlocksIn, InlinesIn
<1>4. /\ \A ip : act(ip).kind = "pblock" /\ act(ip).base = Heights /\ act(ip).tmpl = ip.tmpl
      /\ own.kind = "pblock" /\ own.base = Heights /\ own.tmpl = own.own
  BY DEF Activation, Heights
<1>5. ASSUME NEW ip \in InScope(frames, name) PROVE ip.tmpl \in Owners(ctl, Len(ctl))
  <2>1. ~CallsDangling(Stmt) /\ Stmt.path.parts # <<>>
    BY DEF RenderPartialBlock, At, Illegal
  <2>2. PartialName(Stmt) = name
    BY <1>1 DEF PartialName
  <2>3. Live(ip.tmpl)
    BY <1>1, <2>1, <2>2 DEF CallsDangling
  <2> QED
    BY <2>3, LiveOwned
<1> HIDE DEF f, act, own
<1>6. ASSUME NEW a, EnterPartialBlock(a), a.kind = "pblock", a.base = Heights,
             a.tmpl \in Owners(ctl, Len(ctl)) \cup {a.own}
      PROVE  Calling
  <2>1. Enter(a) /\ frames' = Append(frames, f)
    BY <1>6 DEF EnterPartialBlock, f
  <2>2. FramesHeld(a) # 0
    BY <1>6 DEF FramesHeld
  <2> QED
    BY <1>1, <1>3, <1>6, <2>1, <2>2, CallsWithFrame
<1> HIDE DEF name
<1>7. CASE \E ip \in InScope(frames, name) : EnterPartialBlock(act(ip))
  <2>1. PICK ip \in InScope(frames, name) : EnterPartialBlock(act(ip))
    BY <1>7
  <2>2. act(ip).tmpl \in Owners(ctl, Len(ctl)) \cup {act(ip).own}
    BY <1>4, <1>5
  <2> QED
    BY <1>4, <1>6, <2>1, <2>2
<1>8. CASE EnterPartialBlock(own)
  BY <1>4, <1>6, <1>8
<1> QED
  BY <1>1, <1>2, <1>7, <1>8, BlockCalls

(* The returns.                                                            *)
LEMMA CtlLeaves ==
    ASSUME IInv, LInv, status = "running", Return
    PROVE  Len(ctl') = Len(ctl) - 1 /\ \A k \in 1..(Len(ctl) - 1) : ctl'[k] = ctl[k]
BY CallFacts, Pop DEF Return

LEMMA LeavesNone ==
    ASSUME IInv, LInv, status = "running", Return, frames' = frames PROVE Leaving
<1>1. Len(frames) \in Nat
  BY CallFacts
<1>2. Len(frames) <= Len(frames)
  <2> DEFINE m == Len(frames)
  <2> HIDE DEF m
  <2>1. m \in Nat => m <= m
    OBVIOUS
  <2> QED
    BY <1>1, <2>1 DEF m
<1> QED
  BY <1>1, <1>2, CtlLeaves DEF Leaving

LEMMA LeavesOne ==
    ASSUME IInv, LInv, status = "running", Return, frames' = Front(frames) PROVE Leaving
<1> DEFINE m == Len(frames)
<1>1. m \in Nat /\ m # 0 /\ Stack(frames)
  BY CallFacts
<1>2. Len(frames') = m - 1 /\ \A i \in 1..(m - 1) : frames'[i] = frames[i]
  BY <1>1, Pop
<1> HIDE DEF m
<1>3. m - 1 \in Nat /\ m - 1 <= m
  BY <1>1
<1> QED
  BY <1>2, <1>3, CtlLeaves DEF Leaving, m

LEMMA InlineLeaves == ASSUME IInv, LInv, ReturnInline PROVE Leaving
<1> DEFINE m == Len(frames)
           g == Front(frames)
<1>1. status = "running" /\ Return /\ frames' = Front(g) /\ Top.kind = "inline"
  BY DEF ReturnInline, Running
<1>2. m \in Nat /\ m # 0 /\ Stack(frames) /\ m = Top.base.frames + 2 /\ Top.base.frames \in Nat
  BY <1>1, CallFacts, Below DEF FramesHeld
<1>3. Stack(g) /\ Len(g) = m - 1 /\ \A i \in 1..(m - 1) : g[i] = frames[i]
  BY <1>2, Pop
<1> HIDE DEF m, g
<1>4. m - 1 # 0 /\ m - 1 - 1 \in Nat /\ m - 1 - 1 <= m /\ 1..(m - 1 - 1) \subseteq 1..(m - 1)
  BY <1>2
<1>5. Len(frames') = m - 1 - 1 /\ \A i \in 1..(m - 1 - 1) : frames'[i] = g[i]
  BY <1>1, <1>3, <1>4, Pop
<1>6. \A i \in 1..Len(frames') : frames'[i] = frames[i]
  BY <1>3, <1>4, <1>5
<1> QED
  BY <1>1, <1>4, <1>5, <1>6, CtlLeaves DEF Leaving, m

LEMMA ReturnLeaves ==
    ASSUME IInv, LInv,
           ReturnHelper \/ ReturnBlock \/ ReturnScope \/ ReturnPartial \/ ReturnFn \/ ReturnRoot
    PROVE  Leaving
<1>1. CASE ReturnHelper
  BY <1>1, LeavesNone DEF ReturnHelper, InHelper
<1>2. CASE ReturnBlock
  BY <1>2, LeavesNone DEF ReturnBlock, Running
<1>3. CASE ReturnScope
  BY <1>3, LeavesOne DEF ReturnScope, Running
<1>4. CASE ReturnPartial
  BY <1>4, LeavesNone, LeavesOne DEF ReturnPartial, Running
<1>5. CASE ReturnFn
  BY <1>5, LeavesOne DEF ReturnFn, Running
<1>6. CASE ReturnRoot
  BY <1>6, LeavesOne DEF ReturnRoot, Running
<1> QED
  BY <1>1, <1>2, <1>3, <1>4, <1>5, <1>6

LEMMA StepEffect == ASSUME IInv, LInv, HInv, Next, ~GoWrong PROVE Staying \/ Calling \/ Leaving
<1>1. CASE RenderText \/ RenderComment \/ RenderLookup \/ RenderLog \/ RenderValue
  BY <1>1, ProduceStays DEF RenderText, RenderComment, RenderLookup, RenderLog, RenderValue
<1>2. CASE RenderRaw
  BY <1>2, ProduceStays DEF RenderRaw
<1>3. CASE RenderNoPartial \/ RenderNamelessBlock
  BY <1>3, ProduceStays DEF RenderNoPartial, RenderNamelessBlock
<1>4. CASE RenderMissing
  BY <1>4, StmtFacts, StaysAdvanced DEF RenderMissing
<1>5. CASE RenderIf
  BY <1>5, StmtFacts, BlockCalls DEF RenderIf
<1>6. CASE RenderWith \/ RenderEach \/ RenderUnknown \/ RenderHelper
  BY <1>6, WithCalls, EachCalls, UnknownCalls, HelperCalls
<1>7. CASE RenderYield \/ RenderInline \/ RenderPartial \/ RenderPartialBlock
  BY <1>7, YieldCalls, InlineCalls, PartialCalls, PartialBlockCalls
<1>8. CASE RegisterInline
  BY <1>8, RegisterStays
<1>9. CASE Resume
  BY <1>9, NextItemStays, CallBackCalls, InlineLeaves, ReturnLeaves DEF Resume
<1> QED
  BY <1>1, <1>2, <1>3, <1>4, <1>5, <1>6, <1>7, <1>8, <1>9 DEF Next, Statement


-----------------------------------------------------------------------------
(* The blocks that are offered, and the code that runs.                    *)
LEMMA CeilingsNat ==
    ASSUME IInv, LInv, status = "running"
    PROVE  /\ \A k \in 1..Len(ctl) : Ceiling(ctl[k]) \in Nat /\ Ceiling(ctl[k]) <= Len(frames)
           /\ Ceiling(ctl[Len(ctl)]) = Len(frames) /\ Ceiling(Top) = Len(frames)
           /\ Len(ctl) \in Nat /\ Len(ctl) # 0 /\ Len(frames) \in Nat /\ Len(ctl) \in 1..Len(ctl)
<1>1. \A k \in 1..Len(ctl) : ctl[k].base.frames \in Nat /\ FramesHeld(ctl[k]) \in Nat
  BY HeldNat DEF IInv, TypeOK, CallStack, IsActivation
<1>2. \A k \in 1..Len(ctl) : Ceiling(ctl[k]) \in Nat
  BY <1>1 DEF Ceiling
<1> QED
  BY <1>2, CallFacts, StateFacts

(* What holds of what the frames keep, blocks or inline partials, when the *)
(* frames that are pushed keep what the caller's template owns.            *)
LEMMA HousesCalling ==
    ASSUME IInv, LInv, HInv, status = "running", Calling, NEW h, Houses(ctl, h, Len(frames)),
           NEW g, \A i \in 1..Len(frames) : g[i] \subseteq h[i],
           \A i \in (Len(frames) + 1)..Len(frames') : g[i] \subseteq {Top.tmpl}
    PROVE  Houses(ctl', g, Len(frames'))
<1>1. \A i \in (Len(frames) + 1)..Len(frames') : g[i] \subseteq Owners(ctl, Len(ctl))
  BY TopHoused
<1>2. /\ Len(ctl') = Len(ctl) + 1 /\ \A k \in 1..Len(ctl) : Twin(ctl'[k], ctl[k])
      /\ ctl'[Len(ctl')].tmpl \in Owners(ctl, Len(ctl)) \cup {ctl'[Len(ctl')].own}
      /\ Len(frames') \in Nat /\ Len(frames) <= Len(frames')
  BY DEF Calling, Callee
<1> DEFINE d == ctl'
           q == Len(frames')
<1>3. /\ Len(d) = Len(ctl) + 1 /\ \A k \in 1..Len(ctl) : Twin(d[k], ctl[k])
      /\ d[Len(d)].tmpl \in Owners(ctl, Len(ctl)) \cup {d[Len(d)].own}
      /\ q \in Nat /\ Len(frames) <= q
      /\ \A i \in (Len(frames) + 1)..q : g[i] \subseteq Owners(ctl, Len(ctl))
  BY <1>1, <1>2
<1> HIDE DEF d, q
<1>4. Houses(d, g, q)
  BY <1>3, CeilingsNat, HousesPush
<1> QED
  BY <1>4 DEF d, q

LEMMA HousesLeaving ==
    ASSUME IInv, LInv, status = "running", Leaving, NEW h, Houses(ctl, h, Len(frames)),
           NEW g, \A i \in 1..Len(frames') : g[i] \subseteq h[i]
    PROVE  Houses(ctl', g, Len(frames'))
<1> DEFINE d == ctl'
           q == Len(frames')
<1>1. /\ Len(d) = Len(ctl) - 1 /\ \A k \in 1..(Len(ctl) - 1) : d[k] = ctl[k]
      /\ q \in Nat /\ q <= Len(frames) /\ \A i \in 1..q : g[i] \subseteq h[i]
  BY DEF Leaving
<1> HIDE DEF d, q
<1>2. Houses(d, g, q)
  BY <1>1, CeilingsNat, HousesPop
<1> QED
  BY <1>2 DEF d, q

LEMMA HousesStaying ==
    ASSUME IInv, LInv, status = "running", Staying, NEW h, Houses(ctl, h, Len(frames)),
           NEW g, \A i \in 1..Len(frames) : g[i] \subseteq h[i]
    PROVE  Houses(ctl', g, Len(frames'))
<1> DEFINE d == ctl'
<1>1. /\ Len(d) = Len(ctl) /\ \A k \in 1..Len(ctl) : Twin(d[k], ctl[k])
      /\ Len(frames') = Len(frames)
  BY DEF Staying
<1> HIDE DEF d
<1>2. Houses(d, g, Len(frames))
  BY <1>1, CeilingsNat, HousesStay
<1> QED
  BY <1>1, <1>2 DEF d

LEMMA BlocksOf == /\ \A i \in 1..Len(frames) : Blocks(frames)[i] = BlocksIn(frames[i])
                  /\ \A i \in 1..Len(frames') : Blocks(frames)'[i] = BlocksIn(frames'[i])
BY DEF Blocks

LEMMA InlinesOf == /\ \A i \in 1..Len(frames) : Inlines(frames)[i] = InlinesIn(frames[i])
                   /\ \A i \in 1..Len(frames') : Inlines(frames)'[i] = InlinesIn(frames'[i])
BY DEF Inlines

LEMMA NowRunning == ASSUME Next PROVE status = "running"
BY StillRunning DEF ReturnRoot, Running

(* The frames that a call has found are below those it pushes.             *)
LEMMA FramesAdded ==
    ASSUME IInv, status = "running", Calling
    PROVE  /\ 1..Len(frames) \subseteq 1..Len(frames')
           /\ (Len(frames) + 1)..Len(frames') \subseteq 1..Len(frames')
<1> DEFINE m == Len(frames)
           q == Len(frames')
<1>1. m \in Nat /\ q \in Nat /\ m <= q
  BY StateFacts DEF Calling, Base
<1> HIDE DEF m, q
<1>2. 1..m \subseteq 1..q /\ (m + 1)..q \subseteq 1..q
  BY <1>1
<1> QED
  BY <1>2 DEF m, q

LEMMA Shortened ==
    ASSUME IInv, status = "running", Leaving PROVE 1..Len(frames') \subseteq 1..Len(frames)
<1> DEFINE m == Len(frames)
           q == Len(frames')
<1>1. m \in Nat /\ q \in Nat /\ q <= m
  BY StateFacts DEF Leaving, Base
<1> HIDE DEF m, q
<1>2. 1..q \subseteq 1..m
  BY <1>1
<1> QED
  BY <1>2 DEF m, q

LEMMA StepHoused == ASSUME IInv, LInv, HInv, [Next]_vars PROVE HInv'
<1> DEFINE h == Blocks(frames)
           g == Blocks(frames)'
<1>1. CASE GoWrong \/ UNCHANGED vars
  <2>1. ctl' = ctl /\ frames' = frames
    BY <1>1 DEF GoWrong, vars
  <2> QED
    BY <2>1 DEF HInv, Houses, Blocks
<1>2. CASE Next /\ ~GoWrong
  <2>1. Houses(ctl, h, Len(frames))
    BY DEF HInv
  <2>2. /\ \A i \in 1..Len(frames) : h[i] = BlocksIn(frames[i])
        /\ \A i \in 1..Len(frames') : g[i] = BlocksIn(frames'[i])
    BY BlocksOf
  <2> HIDE DEF h, g
  <2>3. CASE Staying
    <3>1. \A i \in 1..Len(frames) : g[i] \subseteq h[i]
      BY <2>2, <2>3 DEF Staying
    <3> QED
      BY <1>2, <2>1, <2>3, <3>1, NowRunning, HousesStaying DEF HInv, g
  <2>4. CASE Calling
    <3>1. /\ \A i \in 1..Len(frames) : g[i] \subseteq h[i]
          /\ \A i \in (Len(frames) + 1)..Len(frames') : g[i] \subseteq {Top.tmpl}
      BY <1>2, <2>2, <2>4, NowRunning, FramesAdded DEF Calling
    <3> QED
      BY <1>2, <2>1, <2>4, <3>1, NowRunning, HousesCalling DEF HInv, g
  <2>5. CASE Leaving
    <3>1. \A i \in 1..Len(frames') : g[i] \subseteq h[i]
      BY <1>2, <2>2, <2>5, NowRunning, Shortened DEF Leaving
    <3> QED
      BY <1>2, <2>1, <2>5, <3>1, NowRunning, HousesLeaving DEF HInv, g
  <2> QED
    BY <1>2, <2>3, <2>4, <2>5, StepEffect
<1> QED
  BY <1>1, <1>2

LEMMA InitHoused == Init => HInv
<1> SUFFICES ASSUME Init PROVE HInv
  OBVIOUS
<1>1. /\ Len(ctl) = 1 /\ ctl[1].tmpl = 0
      /\ Len(frames) = 1 /\ frames[1].block = <<>> /\ frames[1].inlines = <<>>
  BY DEF Init, NewFrame
<1>2. \A i : i \in 1..1 => i = 1
  OBVIOUS
<1>3. BlocksIn(frames[1]) = {}
  BY <1>1, NewKeepsNone
<1>4. \A i \in 1..Len(frames) : Blocks(frames)[i] = {}
  BY <1>1, <1>2, <1>3, BlocksOf
<1> QED
  BY <1>1, <1>2, <1>4 DEF HInv, Houses, Owners

LEMMA HousedAlive == ASSUME HInv, Len(ctl) \in Nat PROVE CodeAlive
<1> DEFINE n == Len(ctl)
<1>1. n \in Nat /\ \A k \in 1..n : ctl[k].tmpl \in Owners(ctl, k)
  BY DEF HInv, Houses
<1> HIDE DEF n
<1>2. ASSUME NEW k \in 1..n PROVE Owners(ctl, k) \subseteq Owners(ctl, n)
  <2>1. 1..k \subseteq 1..n
    BY <1>1
  <2> QED
    BY <2>1 DEF Owners
<1> QED
  BY <1>1, <1>2, LiveOwned DEF CodeAlive, n

(* The code that runs belongs to a template that has not been destroyed,   *)
(* whatever partials, blocks, helpers and inline partials it was reached   *)
(* through (hbs_template_destroy at the end of render_partial and          *)
(* render_partial_block).                                                  *)
THEOREM Allocated == Spec => []CodeAlive
<1>1. Init => IInv /\ LInv /\ HInv
  BY InitInvariant, InitLoops, InitHoused
<1>2. IInv /\ LInv /\ HInv /\ IInv' /\ [Next]_vars => LInv' /\ HInv'
  BY StepLoops, StepHoused
<1>3. IInv /\ HInv => CodeAlive
  BY HousedAlive, Height DEF IInv, TypeOK, CallStack
<1> QED
  BY Invariant, <1>1, <1>2, <1>3, PTL DEF Spec


-----------------------------------------------------------------------------
(* The inline partials in scope.  A call without frames of its own leaves  *)
(* the inline partials it registers in the frame of a caller: the caller   *)
(* must own their template as well.                                        *)
Shares(c) == \A k, j \in 1..Len(c) :
                k <= j /\ Ceiling(c[k]) = Ceiling(c[j]) => c[j].tmpl \in Owners(c, k)

VInv == Houses(ctl, Inlines(frames), Len(frames)) /\ Shares(ctl)

LEMMA SharesKept ==
    ASSUME NEW c, NEW d, NEW n \in Nat, n <= Len(c), Len(c) \in Nat, Len(d) = n,
           \A k \in 1..n : Twin(d[k], c[k]), Shares(c)
    PROVE  Shares(d)
<1>1. \A k \in 1..n : Owners(d, k) = Owners(c, k)
  BY OwnersKept
<1>2. 1..n \subseteq 1..Len(c)
  <2> DEFINE m == Len(c)
  <2> HIDE DEF m
  <2>1. m \in Nat /\ n <= m => 1..n \subseteq 1..m
    OBVIOUS
  <2> QED
    BY <2>1 DEF m
<1> QED
  BY <1>1, <1>2 DEF Shares, Twin

LEMMA SharesCalling ==
    ASSUME IInv, LInv, HInv, HInv', VInv, Framed, status = "running", Calling
    PROVE  Shares(ctl')
<1> DEFINE n == Len(ctl)
           m == Len(frames)
           d == ctl'
<1>1. /\ n \in Nat /\ n # 0 /\ m \in Nat /\ ctl[n] = Top /\ Ceiling(ctl[n]) = m
      /\ \A k \in 1..n : Ceiling(ctl[k]) \in Nat /\ Ceiling(ctl[k]) <= m
  BY CeilingsNat DEF Top
<1>2. Len(d) = n + 1 /\ \A k \in 1..n : Twin(d[k], ctl[k])
  BY DEF Calling
<1>3. d[n + 1].base.frames = m /\ (FramesHeld(d[n + 1]) = 0 => d[n + 1].tmpl = Top.tmpl)
  BY <1>2 DEF Calling, Callee
<1>4. \A k, j \in 1..n : k <= j /\ Ceiling(ctl[k]) = Ceiling(ctl[j]) => ctl[j].tmpl \in Owners(ctl, k)
  BY DEF VInv, Shares
<1>5. \A k \in 1..(n + 1) : d[k].tmpl \in Owners(d, k)
  BY <1>2 DEF HInv, Houses
<1> HIDE DEF n, m, d
<1>6. \A k \in 1..n : Owners(d, k) = Owners(ctl, k)
  BY <1>1, <1>2, OwnersKept
<1>7. \A k \in 1..(n + 1) : k = n + 1 \/ k \in 1..n
  BY <1>1
<1>8. ASSUME NEW k \in 1..(n + 1), NEW j \in 1..(n + 1), k <= j, Ceiling(d[k]) = Ceiling(d[j])
      PROVE  d[j].tmpl \in Owners(d, k)
  <2>1. CASE k = j
    BY <1>5, <2>1
  <2>2. CASE k # j /\ j \in 1..n
    <3>1. k \in 1..n
      BY <1>1, <1>8, <2>2
    <3> QED
      BY <1>2, <1>4, <1>6, <1>8, <2>2, <3>1 DEF Twin
  <2>3. CASE k # j /\ j = n + 1
    <3>1. k \in 1..n /\ k <= n /\ n \in 1..n
      BY <1>1, <1>8, <2>3
    <3>2. Ceiling(d[k]) = Ceiling(ctl[k]) /\ Ceiling(ctl[k]) \in Nat /\ Ceiling(ctl[k]) <= m
      BY <1>1, <1>2, <3>1 DEF Twin
    <3>3. FramesHeld(d[n + 1]) \in Nat /\ Ceiling(d[n + 1]) = m + FramesHeld(d[n + 1])
      BY <1>3, HeldNat DEF Ceiling
    <3>4. FramesHeld(d[n + 1]) = 0 /\ Ceiling(ctl[k]) = m
      BY <1>1, <1>8, <2>3, <3>2, <3>3
    <3>5. ctl[n].tmpl \in Owners(ctl, k)
      BY <1>1, <1>4, <3>1, <3>4
    <3> QED
      BY <1>1, <1>3, <1>6, <2>3, <3>1, <3>4, <3>5
  <2> QED
    BY <1>7, <2>1, <2>2, <2>3
<1> QED
  BY <1>2, <1>8 DEF Shares, d

(* What is registered by the innermost call outlives all that can see it.  *)
LEMMA HousesRegistered ==
    ASSUME IInv, LInv, VInv, status = "running"
    PROVE  Houses(ctl, [i \in 1..Len(frames) |-> InlinesIn(frames[i])
                                                 \cup (IF i = Len(frames) THEN {Top.tmpl} ELSE {})], Len(frames))
<1> DEFINE n == Len(ctl)
           m == Len(frames)
           h == Inlines(frames)
           g == [i \in 1..m |-> InlinesIn(frames[i]) \cup (IF i = m THEN {Top.tmpl} ELSE {})]
<1>1. /\ n \in Nat /\ n # 0 /\ m \in Nat /\ ctl[n] = Top /\ Ceiling(ctl[n]) = m /\ n \in 1..n
      /\ \A k \in 1..n : Ceiling(ctl[k]) \in Nat /\ Ceiling(ctl[k]) <= m
  BY CeilingsNat DEF Top
<1>2. /\ \A k \in 1..n : /\ ctl[k].tmpl \in Owners(ctl, k)
                         /\ \A i \in 1..m : i <= Ceiling(ctl[k]) => h[i] \subseteq Owners(ctl, k)
      /\ \A k, j \in 1..n : k <= j /\ Ceiling(ctl[k]) = Ceiling(ctl[j]) => ctl[j].tmpl \in Owners(ctl, k)
  BY DEF VInv, Houses, Shares
<1>3. \A i \in 1..m : g[i] = h[i] \cup (IF i = m THEN {Top.tmpl} ELSE {})
  BY InlinesOf
<1> HIDE DEF n, m, h, g
<1>4. ASSUME NEW k \in 1..n, NEW i \in 1..m, i <= Ceiling(ctl[k]) PROVE g[i] \subseteq Owners(ctl, k)
  <2>1. CASE i # m
    BY <1>2, <1>3, <1>4, <2>1
  <2>2. CASE i = m
    <3>1. Ceiling(ctl[k]) = Ceiling(ctl[n]) /\ k <= n
      BY <1>1, <1>4, <2>2
    <3>2. Top.tmpl \in Owners(ctl, k)
      BY <1>1, <1>2, <3>1
    <3> QED
      BY <1>2, <1>3, <1>4, <3>2
  <2> QED
    BY <2>1, <2>2
<1> QED
  BY <1>2, <1>4 DEF Houses, n, m, g

LEMMA StepShared == ASSUME IInv, LInv, HInv, HInv', VInv, Framed, [Next]_vars PROVE VInv'
<1> DEFINE h == Inlines(frames)
           g == Inlines(frames)'
<1>1. CASE GoWrong \/ UNCHANGED vars
  <2>1. ctl' = ctl /\ frames' = frames
    BY <1>1 DEF GoWrong, vars
  <2> QED
    BY <2>1 DEF VInv, Houses, Inlines, Shares
<1>2. CASE Next /\ ~GoWrong
  <2>1. Houses(ctl, h, Len(frames)) /\ Shares(ctl) /\ status = "running"
    BY <1>2, NowRunning DEF VInv
  <2>2. /\ \A i \in 1..Len(frames) : h[i] = InlinesIn(frames[i])
        /\ \A i \in 1..Len(frames') : g[i] = InlinesIn(frames'[i])
    BY InlinesOf
  <2>3. Len(ctl) \in Nat /\ Len(ctl) # 0
    BY <2>1, CeilingsNat
  <2> HIDE DEF h, g
  <2>4. CASE Staying
    <3> DEFINE r == [i \in 1..Len(frames) |-> InlinesIn(frames[i])
                                              \cup (IF i = Len(frames) THEN {Top.tmpl} ELSE {})]
    <3>1. Houses(ctl, r, Len(frames))
      BY <2>1, HousesRegistered
    <3>2. \A i \in 1..Len(frames) : g[i] \subseteq r[i]
      BY <2>2, <2>4 DEF Staying
    <3> HIDE DEF r
    <3>3. Houses(ctl', g, Len(frames'))
      BY <2>1, <2>4, <3>1, <3>2, HousesStaying
    <3>4. Shares(ctl')
      <4> DEFINE d == ctl'
                 n == Len(ctl)
      <4>1. Len(d) = n /\ n \in Nat /\ \A k \in 1..n : Twin(d[k], ctl[k])
        BY <2>3, <2>4 DEF Staying
      <4> HIDE DEF d
      <4>2. n <= Len(ctl)
        BY <2>3
      <4> QED
        BY <2>1, <4>1, <4>2, SharesKept DEF d
    <3> QED
      BY <3>3, <3>4 DEF VInv, g
  <2>5. CASE Calling
    <3>1. /\ \A i \in 1..Len(frames) : g[i] \subseteq h[i]
          /\ \A i \in (Len(frames) + 1)..Len(frames') : g[i] \subseteq {Top.tmpl}
      BY <2>1, <2>2, <2>5, FramesAdded DEF Calling
    <3>2. Houses(ctl', g, Len(frames'))
      BY <2>1, <2>5, <3>1, HousesCalling
    <3>3. Shares(ctl')
      BY <2>1, <2>5, SharesCalling
    <3> QED
      BY <3>2, <3>3 DEF VInv, g
  <2>6. CASE Leaving
    <3>1. \A i \in 1..Len(frames') : g[i] \subseteq h[i]
      BY <2>1, <2>2, <2>6, Shortened DEF Leaving
    <3>2. Houses(ctl', g, Len(frames'))
      BY <2>1, <2>6, <3>1, HousesLeaving
    <3>3. Shares(ctl')
      <4> DEFINE d == ctl'
                 n == Len(ctl) - 1
      <4>1. Len(d) = n /\ n \in Nat /\ n <= Len(ctl) /\ \A k \in 1..n : d[k] = ctl[k]
        BY <2>3, <2>6 DEF Leaving
      <4> HIDE DEF d, n
      <4>2. \A k \in 1..n : Twin(d[k], ctl[k])
        BY <4>1 DEF Twin
      <4> QED
        BY <2>1, <2>3, <4>1, <4>2, SharesKept DEF d
    <3> QED
      BY <3>2, <3>3 DEF VInv, g
  <2> QED
    BY <1>2, <2>4, <2>5, <2>6, StepEffect
<1> QED
  BY <1>1, <1>2

LEMMA InitShared == Init => VInv
<1> SUFFICES ASSUME Init PROVE VInv
  OBVIOUS
<1>1. /\ Len(ctl) = 1 /\ ctl[1].tmpl = 0
      /\ Len(frames) = 1 /\ frames[1].block = <<>> /\ frames[1].inlines = <<>>
  BY DEF Init, NewFrame
<1>2. \A i : i \in 1..1 => i = 1
  OBVIOUS
<1>3. InlinesIn(frames[1]) = {}
  BY <1>1, NewKeepsNone
<1>4. \A i \in 1..Len(frames) : Inlines(frames)[i] = {}
  BY <1>1, <1>2, <1>3, InlinesOf
<1> QED
  BY <1>1, <1>2, <1>4 DEF VInv, Houses, Owners, Shares

LEMMA SharedAlive == ASSUME RInv, Settled, VInv PROVE InlinesAlive
<1> SUFFICES ASSUME NEW i \in 1..Len(frames), NEW j \in 1..Len(frames[i].inlines)
             PROVE  Live(frames[i].inlines[j].tmpl)
  BY DEF InlinesAlive
<1>1. status \in {"running", "undefined"}
  <2>1. status \in {"ok", "error"} => 1..Len(frames) = {}
    <3>1. Len(frames) = 0 => 1..Len(frames) = {}
      OBVIOUS
    <3> QED
      BY <3>1 DEF Settled
  <2> QED
    BY <2>1 DEF RInv, IInv, TypeOK
<1>2. Nested(ctl, Heights) /\ Stack(ctl)
  BY <1>1 DEF RInv, IInv, TypeOK, CallStack
<1>3. Len(frames) = Ceiling(ctl[Len(ctl)]) /\ Len(ctl) \in Nat /\ Len(ctl) # 0
  BY <1>2, Height DEF Nested, Heights, Above, Ceiling
<1>4. Len(ctl) \in 1..Len(ctl)
  <2> DEFINE n == Len(ctl)
  <2> HIDE DEF n
  <2>1. n \in Nat /\ n # 0 => n \in 1..n
    OBVIOUS
  <2> QED
    BY <1>3, <2>1 DEF n
<1>5. Len(frames) \in Nat
  BY Height DEF RInv, IInv, TypeOK, Chain
<1>6. Inlines(frames)[i] \subseteq Owners(ctl, Len(ctl))
  <2>1. i <= Ceiling(ctl[Len(ctl)])
    BY <1>3, <1>5
  <2> QED
    BY <1>4, <2>1 DEF VInv, Houses
<1>7. frames[i].inlines[j].tmpl \in Owners(ctl, Len(ctl))
  BY <1>6, InlinesOf DEF InlinesIn
<1> QED
  BY <1>7, LiveOwned

(* Where every partial is called with arguments, the inline partials in    *)
(* scope always have a body: the dangling ones that the code can leave     *)
(* behind come from partials that run in their caller's frame.             *)
THEOREM InlinesKept == Spec => [](Framed => InlinesAlive)
<1>1. Init => RInv /\ Settled /\ HInv /\ VInv
  BY InitInvariant, InitLoops, InitBalanced, InitHoused, InitShared DEF RInv, Settled, Init
<1>2. RInv /\ Settled /\ HInv /\ IInv' /\ [Next]_vars => RInv' /\ Settled' /\ HInv'
  BY StepLoops, StepBalanced, StepSettled, StepHoused DEF RInv
<1>3. RInv /\ HInv /\ HInv' /\ [Next]_vars /\ (Framed => VInv) => (Framed => VInv')
  BY StepShared DEF RInv
<1>4. RInv /\ Settled /\ (Framed => VInv) => (Framed => InlinesAlive)
  BY SharedAlive
<1>5. Framed => Framed'
  BY DEF Framed, NeedsFrame
<1>6. Framed' => Framed
  BY DEF Framed, NeedsFrame
<1> QED
  BY Invariant, <1>1, <1>2, <1>3, <1>4, <1>5, <1>6, PTL DEF Spec


-----------------------------------------------------------------------------
(* Values from which no uninitialised one can be reached: those of a set   *)
(* that the items and the members of its values belong to as well.         *)
Sealed(V) ==
    /\ Unset \notin V
    /\ \A v \in V : /\ IsArr(v) => v[2] \in Seq(V)
                    /\ IsObj(v) => \E K : v[2] \in Seq(K \X V)

Defined(v) == \E V : v \in V /\ Sealed(V)

LEMMA SeqWider == ASSUME NEW S, NEW T, S \subseteq T, NEW s \in Seq(S) PROVE s \in Seq(T)
BY SeqMonotonic

LEMMA MembersWider ==
    ASSUME NEW J, NEW V, NEW U, V \subseteq U, NEW s \in Seq(J \X V) PROVE s \in Seq(J \X U)
<1>1. J \X V \subseteq J \X U
  OBVIOUS
<1> QED
  BY <1>1, SeqWider

LEMMA SealedUnion == ASSUME NEW X, \A A \in X : Sealed(A) PROVE Sealed(UNION X)
<1> DEFINE U == UNION X
<1>1. ASSUME NEW A \in X, NEW v \in A
      PROVE  /\ IsArr(v) => v[2] \in Seq(U)
             /\ IsObj(v) => \E K : v[2] \in Seq(K \X U)
  <2>1. A \subseteq U /\ Sealed(A)
    BY <1>1
  <2>2. IsArr(v) => v[2] \in Seq(U)
    BY <1>1, <2>1, SeqWider DEF Sealed
  <2>3. ASSUME IsObj(v) PROVE \E K : v[2] \in Seq(K \X U)
    <3>1. PICK K : v[2] \in Seq(K \X A)
      BY <1>1, <2>1, <2>3 DEF Sealed
    <3> QED
      BY <2>1, <3>1, MembersWider
  <2> QED
    BY <2>2, <2>3
<1>2. Unset \notin U
  BY DEF Sealed
<1> QED
  BY <1>1, <1>2 DEF Sealed

LEMMA SealedBoth == ASSUME NEW V, NEW W, Sealed(V), Sealed(W) PROVE Sealed(V \cup W)
<1>1. V \cup W = UNION {V, W}
  OBVIOUS
<1>2. \A A \in {V, W} : Sealed(A)
  OBVIOUS
<1> QED
  BY <1>1, <1>2, SealedUnion

(* Scalars, and what is taken out of a value.                              *)
LEMMA ScalarSealed == ASSUME NEW v, ~IsArr(v), ~IsObj(v), v # Unset PROVE Sealed({v})
BY DEF Sealed

LEMMA ScalarDefined == ASSUME NEW v, ~IsArr(v), ~IsObj(v), v # Unset PROVE Defined(v)
BY ScalarSealed DEF Defined

LEMMA Scalars ==
    /\ ~IsArr(Null) /\ ~IsObj(Null) /\ Null # Unset
    /\ \A x : ~IsArr(Num(x)) /\ ~IsObj(Num(x)) /\ Num(x) # Unset
    /\ \A x : ~IsArr(Bool(x)) /\ ~IsObj(Bool(x)) /\ Bool(x) # Unset
    /\ \A x : ~IsArr(Str(x)) /\ ~IsObj(Str(x)) /\ Str(x) # Unset
BY DEF IsArr, IsObj, Null, Unset, Num, Bool, Str

LEMMA NotUnset == ASSUME NEW v, Defined(v) PROVE v # Unset
BY DEF Defined, Sealed

LEMMA ScalarsDefined ==
    /\ Defined(Null)
    /\ \A x : Defined(Num(x)) /\ Defined(Bool(x)) /\ Defined(Str(x))
BY ScalarDefined, Scalars

LEMMA ItemDefined ==
    ASSUME NEW v, Defined(v), IsArr(v)
    PROVE  Stack(v[2]) /\ \A i \in 1..Len(v[2]) : Defined(v[2][i])
<1>1. PICK V : v \in V /\ Sealed(V)
  BY DEF Defined
<1>2. v[2] \in Seq(V)
  BY <1>1 DEF Sealed
<1>3. \A i \in 1..Len(v[2]) : v[2][i] \in V
  BY <1>2
<1> QED
  BY <1>1, <1>2, <1>3, SeqIsStack DEF Defined

LEMMA MembersIn ==
    ASSUME NEW V, Sealed(V), NEW v \in V, IsObj(v)
    PROVE  Stack(v[2]) /\ \A i \in 1..Len(v[2]) : v[2][i][2] \in V
<1>1. PICK K : v[2] \in Seq(K \X V)
  BY DEF Sealed
<1>2. \A i \in 1..Len(v[2]) : v[2][i] \in K \X V
  BY <1>1
<1> QED
  BY <1>1, <1>2, SeqIsStack

LEMMA MemberValueDefined ==
    ASSUME NEW v, Defined(v), IsObj(v)
    PROVE  Stack(v[2]) /\ \A i \in 1..Len(v[2]) : Defined(v[2][i][2])
<1>1. PICK V : v \in V /\ Sealed(V)
  BY DEF Defined
<1> QED
  BY <1>1, MembersIn DEF Defined

LEMMA MemberIn ==
    ASSUME NEW V, Sealed(V), Null \in V, NEW v \in V, NEW key
    PROVE  Member(v, key) \in V
<1>1. v # Unset
  BY DEF Sealed
<1>2. CASE Has(v, key)
  <2> DEFINE i == CHOOSE j \in 1..Len(v[2]) : v[2][j][1] = key
  <2>1. IsObj(v) /\ i \in 1..Len(v[2])
    BY <1>2 DEF Has
  <2> HIDE DEF i
  <2>2. v[2][i][2] \in V
    BY <2>1, MembersIn
  <2> QED
    BY <1>1, <1>2, <2>2 DEF Member, i
<1>3. CASE ~Has(v, key)
  BY <1>1, <1>3 DEF Member
<1> QED
  BY <1>2, <1>3

LEMMA MemberDefined == ASSUME NEW v, Defined(v), NEW key PROVE Defined(Member(v, key))
<1>1. PICK V : v \in V /\ Sealed(V)
  BY DEF Defined
<1>2. Sealed(V \cup {Null}) /\ v \in V \cup {Null} /\ Null \in V \cup {Null}
  BY <1>1, SealedBoth, ScalarSealed, Scalars
<1> QED
  BY <1>2, MemberIn DEF Defined

(* A path from a value that is defined leads to one that is, or nowhere.   *)
LEMMA DescendIn ==
    ASSUME NEW V, Sealed(V), Null \in V, NEW v \in V, NEW keys, Stack(keys)
    PROVE  Descend(v, keys) \in V
<1> DEFINE n == Len(keys)
           h == [i \in 1..n |-> [w \in V |-> Member(w, keys[i])]]
<1>1. n \in Nat /\ DOMAIN keys = 1..n
  BY Height
<1> HIDE DEF n
<1> DEFINE Eq(it) == it = [t \in SUBSET (1..n) |->
                             IF t = {} THEN v ELSE Member(it[t \ {Max(t)}], keys[Max(t)])]
           c == CHOOSE it : Eq(it)
<1>2. Descend(v, keys) = c[1..n]
  BY <1>1 DEF Descend, FoldLeft, MapThenFoldSet
<1>3. h \in [1..n -> [V -> V]]
  BY MemberIn
<1>4. \A i \in 1..n : \A w \in V : h[i][w] = Member(w, keys[i])
  OBVIOUS
<1> HIDE DEF h
<1>5. PICK it : FoldsOver(it, V, n, v, h)
  BY <1>1, <1>3, FoldExists
<1>6. Eq(it)
  <2>1. \A t \in SUBSET (1..n) : it[t] = IF t = {} THEN v ELSE Member(it[t \ {Max(t)}], keys[Max(t)])
    <3> TAKE t \in SUBSET (1..n)
    <3>1. CASE t = {}
      BY <1>5, <3>1 DEF FoldsOver
    <3>2. CASE t # {}
      <4>1. Max(t) \in 1..n
        BY <1>1, <3>2, LastIsMax
      <4>2. it[t \ {Max(t)}] \in V
        BY <1>5 DEF FoldsOver
      <4>3. it[t] = h[Max(t)][it[t \ {Max(t)}]]
        BY <1>5, <3>2 DEF FoldsOver
      <4> QED
        BY <1>4, <3>2, <4>1, <4>2, <4>3
    <3> QED
      BY <3>1, <3>2
  <2>2. it = [t \in SUBSET (1..n) |-> it[t]]
    BY <1>5 DEF FoldsOver
  <2> QED
    BY <2>1, <2>2
<1>7. Eq(c)
  BY <1>6
<1>8. /\ c[{}] = v
      /\ \A t \in SUBSET (1..n) : t # {} => c[t] = Member(c[t \ {Max(t)}], keys[Max(t)])
  BY <1>7
<1> HIDE DEF c
<1> DEFINE S == {k \in 0..n : c[1..k] \in V}
<1>9. 0 \in S
  <2>1. 1..0 = {}
    OBVIOUS
  <2> QED
    BY <1>1, <1>8, <2>1
<1>10. ASSUME NEW k \in 0..(n - 1), k \in S PROVE k + 1 \in S
  <2> DEFINE m == k + 1
  <2>1. m \in 0..n /\ m \in Nat /\ m # 0 /\ m - 1 = k /\ 1..m \in SUBSET (1..n)
    BY <1>1
  <2> HIDE DEF m
  <2>2. 1..m # {} /\ Max(1..m) = m /\ (1..m) \ {m} = 1..k
    BY <2>1, Intervals
  <2>3. c[1..m] = Member(c[1..k], keys[m])
    BY <1>8, <2>1, <2>2
  <2>4. m \in S
    BY <1>10, <2>1, <2>3, MemberIn
  <2> QED
    BY <2>4 DEF m
<1> HIDE DEF S
<1>11. 0..n \subseteq S
  BY <1>1, <1>9, <1>10, Induction
<1>12. n \in 0..n
  BY <1>1
<1> QED
  BY <1>2, <1>11, <1>12 DEF S

LEMMA DescendDefined ==
    ASSUME NEW v, Defined(v), NEW keys, Stack(keys) PROVE Defined(Descend(v, keys))
<1>1. PICK V : v \in V /\ Sealed(V)
  BY DEF Defined
<1>2. Sealed(V \cup {Null}) /\ v \in V \cup {Null} /\ Null \in V \cup {Null}
  BY <1>1, SealedBoth, ScalarSealed, Scalars
<1> QED
  BY <1>2, DescendIn DEF Defined

LEMMA LookupDefined ==
    ASSUME NEW v, Defined(v), NEW key, Defined(key) PROVE Defined(LookupIn(v, key))
<1>1. v # Unset /\ key # Unset
  BY NotUnset
<1>2. IsArr(v) => Defined(ArrayItem(v, AsInt(key)))
  <2> DEFINE i == AsInt(key)
             n == Len(v[2])
  <2> HIDE DEF i
  <2> SUFFICES ASSUME IsArr(v) PROVE Defined(ArrayItem(v, i))
    BY DEF i
  <2>1. n \in Nat /\ \A j \in 1..n : Defined(v[2][j])
    BY ItemDefined, Height
  <2> HIDE DEF n
  <2>2. i \in 0..(n - 1) => i + 1 \in 1..n
    BY <2>1
  <2> QED
    BY <2>1, <2>2, ScalarsDefined DEF ArrayItem, n
<1>3. Defined(Member(v, AsString(key))) /\ Defined(Null)
  BY MemberDefined, ScalarsDefined
<1>4. LookupIn(v, key) \in {ArrayItem(v, AsInt(key)), Member(v, AsString(key)), Null}
      /\ (~IsArr(v) => LookupIn(v, key) \in {Member(v, AsString(key)), Null})
  BY <1>1 DEF LookupIn
<1> QED
  BY <1>2, <1>3, <1>4

(* The context of a partial: a copy of an object with more members.        *)
LEMMA AddIn ==
    ASSUME NEW P, NEW o, IsObj(o), o[2] \in Seq(P), NEW m \in P
    PROVE  IsObj(Add(o, m)) /\ Add(o, m)[2] \in Seq(P) /\ Add(o, m) = Obj(Add(o, m)[2])
<1> DEFINE s == o[2]
           t == [i \in 1..Len(s) |-> IF s[i][1] = m[1] THEN m ELSE s[i]]
<1>2. Append(s, m) \in Seq(P)
  OBVIOUS
<1>3. t \in Seq(P)
  <2>1. Len(s) \in Nat /\ \A i \in 1..Len(s) : s[i] \in P
    OBVIOUS
  <2>2. t \in [1..Len(s) -> P]
    BY <2>1
  <2> QED
    BY <2>1, <2>2, SeqDef
<1>4. Add(o, m) \in {Obj(t), Obj(Append(s, m))}
  BY DEF Add
<1>5. \A x : IsObj(Obj(x)) /\ Obj(x)[2] = x
  BY DEF IsObj, Obj
<1> HIDE DEF t, s
<1> QED
  BY <1>2, <1>3, <1>4, <1>5

(* Objects made of keys in K and values in V.                              *)
Objects(K, V) == {Obj(s) : s \in Seq(K \X V)}

LEMMA ObjectsAre ==
    ASSUME NEW K, NEW V, NEW o \in Objects(K, V)
    PROVE  IsObj(o) /\ o[2] \in Seq(K \X V) /\ ~IsArr(o) /\ o # Unset
BY DEF Objects, IsObj, IsArr, Obj, Unset

LEMMA ObjectsSealed == ASSUME NEW K, NEW V, Sealed(V) PROVE Sealed(V \cup Objects(K, V))
<1> DEFINE U == V \cup Objects(K, V)
<1>1. Unset \notin U
  BY ObjectsAre DEF Sealed
<1>2. V \subseteq U
  OBVIOUS
<1>3. ASSUME NEW v \in V
      PROVE  /\ IsArr(v) => v[2] \in Seq(U)
             /\ IsObj(v) => \E J : v[2] \in Seq(J \X U)
  <2>1. IsArr(v) => v[2] \in Seq(U)
    BY <1>2, SeqWider DEF Sealed
  <2>2. ASSUME IsObj(v) PROVE \E J : v[2] \in Seq(J \X U)
    <3>1. PICK J : v[2] \in Seq(J \X V)
      BY <2>2 DEF Sealed
    <3> QED
      BY <1>2, <3>1, MembersWider
  <2> QED
    BY <2>1, <2>2
<1>4. ASSUME NEW o \in Objects(K, V) PROVE ~IsArr(o) /\ o[2] \in Seq(K \X U)
  <2>1. ~IsArr(o) /\ o[2] \in Seq(K \X V)
    BY ObjectsAre
  <2> QED
    BY <1>2, <2>1, MembersWider
<1>5. ASSUME NEW v \in U
      PROVE  (IsArr(v) => v[2] \in Seq(U)) /\ (IsObj(v) => \E J : v[2] \in Seq(J \X U))
  <2> HIDE DEF U
  <2>1. v \in V \/ v \in Objects(K, V)
    BY DEF U
  <2> QED
    BY <1>3, <1>4, <2>1
<1> HIDE DEF U
<1>6. Sealed(U)
  BY <1>1, <1>5 DEF Sealed
<1> QED
  BY <1>6 DEF U

(* The hash arguments, each with a value that is defined.                  *)
Given(q) == Stack(q) /\ \A i \in 1..Len(q) : q[i] = <<q[i][1], q[i][2]>> /\ Defined(q[i][2])

LEMMA ExtendedIn ==
    ASSUME NEW K, NEW V, NEW ctx, IsObj(ctx) => ctx[2] \in Seq(K \X V),
           NEW q, Stack(q), \A i \in 1..Len(q) : q[i] \in K \X V
    PROVE  Extended(ctx, q) \in Objects(K, V) \cup {ctx}
<1> DEFINE n == Len(q)
           b == IF IsObj(ctx) THEN ctx ELSE Obj(<<>>)
           W == Objects(K, V) \cup {b}
           h == [i \in 1..n |-> [w \in W |-> Add(w, q[i])]]
<1>1. n \in Nat /\ DOMAIN q = 1..n /\ \A i \in 1..n : q[i] \in K \X V
  BY Height
<1>2. Obj(<<>>) \in Objects(K, V)
  BY EmptySeq DEF Objects
<1>3. \A w \in W : IsObj(w) /\ w[2] \in Seq(K \X V)
  BY <1>2, ObjectsAre
<1>4. \A w \in W : \A m \in K \X V : Add(w, m) \in W
  <2> TAKE w \in W
  <2> TAKE m \in K \X V
  <2> DEFINE P == K \X V
  <2>1. IsObj(w) /\ w[2] \in Seq(P) /\ m \in P
    BY <1>3
  <2> HIDE DEF P, b, W
  <2>2. \A o : IsObj(o) /\ o[2] \in Seq(P) /\ m \in P =>
           Add(o, m)[2] \in Seq(P) /\ Add(o, m) = Obj(Add(o, m)[2])
    BY AddIn
  <2>3. Add(w, m)[2] \in Seq(P) /\ Add(w, m) = Obj(Add(w, m)[2])
    BY <2>1, <2>2
  <2>4. Add(w, m) \in Objects(K, V)
    BY <2>3 DEF Objects, P
  <2> QED
    BY <2>4 DEF W
<1>5. b \in W /\ W \subseteq Objects(K, V) \cup {ctx}
  BY <1>2
<1> HIDE DEF n, W, b
<1> DEFINE Eq(it) == it = [t \in SUBSET (1..n) |->
                             IF t = {} THEN b ELSE Add(it[t \ {Max(t)}], q[Max(t)])]
           c == CHOOSE it : Eq(it)
<1>6. Extended(ctx, q) = c[1..n]
  BY <1>1 DEF Extended, FoldLeft, MapThenFoldSet, b
<1>7. h \in [1..n -> [W -> W]]
  BY <1>1, <1>4
<1>8. \A i \in 1..n : \A w \in W : h[i][w] = Add(w, q[i])
  OBVIOUS
<1> HIDE DEF h
<1>9. PICK it : FoldsOver(it, W, n, b, h)
  BY <1>1, <1>5, <1>7, FoldExists
<1>10. Eq(it)
  <2>1. \A t \in SUBSET (1..n) : it[t] = IF t = {} THEN b ELSE Add(it[t \ {Max(t)}], q[Max(t)])
    <3> TAKE t \in SUBSET (1..n)
    <3>1. CASE t = {}
      BY <1>9, <3>1 DEF FoldsOver
    <3>2. CASE t # {}
      <4>1. Max(t) \in 1..n
        BY <1>1, <3>2, LastIsMax
      <4>2. it[t \ {Max(t)}] \in W
        BY <1>9 DEF FoldsOver
      <4>3. it[t] = h[Max(t)][it[t \ {Max(t)}]]
        BY <1>9, <3>2 DEF FoldsOver
      <4> QED
        BY <1>8, <3>2, <4>1, <4>2, <4>3
    <3> QED
      BY <3>1, <3>2
  <2>2. it = [t \in SUBSET (1..n) |-> it[t]]
    BY <1>9 DEF FoldsOver
  <2> QED
    BY <2>1, <2>2
<1>11. Eq(c)
  BY <1>10
<1>12. /\ c[{}] = b
       /\ \A t \in SUBSET (1..n) : t # {} => c[t] = Add(c[t \ {Max(t)}], q[Max(t)])
  BY <1>11
<1> HIDE DEF c
<1> DEFINE S == {k \in 0..n : c[1..k] \in W}
<1>13. 0 \in S
  <2>1. 1..0 = {}
    OBVIOUS
  <2> QED
    BY <1>1, <1>5, <1>12, <2>1
<1>14. ASSUME NEW k \in 0..(n - 1), k \in S PROVE k + 1 \in S
  <2> DEFINE m == k + 1
  <2>1. m \in 0..n /\ m \in 1..n /\ m \in Nat /\ m # 0 /\ m - 1 = k /\ 1..m \in SUBSET (1..n)
    BY <1>1
  <2> HIDE DEF m
  <2>2. 1..m # {} /\ Max(1..m) = m /\ (1..m) \ {m} = 1..k
    BY <2>1, Intervals
  <2>3. c[1..m] = Add(c[1..k], q[m])
    BY <1>12, <2>1, <2>2
  <2>4. m \in S
    BY <1>1, <1>4, <1>14, <2>1, <2>3
  <2> QED
    BY <2>4 DEF m
<1> HIDE DEF S
<1>15. 0..n \subseteq S
  BY <1>1, <1>13, <1>14, Induction
<1>16. n \in 0..n
  BY <1>1
<1> QED
  BY <1>5, <1>6, <1>15, <1>16 DEF S

LEMMA ExtendedDefined ==
    ASSUME NEW ctx, Defined(ctx), NEW q, Given(q) PROVE Defined(Extended(ctx, q))
<1> DEFINE Of(v) == CHOOSE V : v \in V /\ Sealed(V)
           X == {Of(ctx)} \cup {Of(q[i][2]) : i \in 1..Len(q)}
           V == UNION X
<1>1. \A v : Defined(v) => v \in Of(v) /\ Sealed(Of(v))
  BY DEF Defined
<1> HIDE DEF Of
<1>2. \A A \in X : Sealed(A)
  BY <1>1 DEF Given
<1>3. Sealed(V) /\ ctx \in V /\ \A i \in 1..Len(q) : q[i][2] \in V
  BY <1>1, <1>2, SealedUnion DEF Given
<1> HIDE DEF V, X
<1>4. PICK J : IsObj(ctx) => ctx[2] \in Seq(J \X V)
  BY <1>3 DEF Sealed
<1> DEFINE K == J \cup {q[i][1] : i \in 1..Len(q)}
<1>5. IsObj(ctx) => ctx[2] \in Seq(K \X V)
  <2> DEFINE P == J \X V
             Q == K \X V
  <2>1. P \subseteq Q
    OBVIOUS
  <2> HIDE DEF P, Q, K
  <2> QED
    BY <1>4, <2>1, SeqWider DEF P, Q
<1>6. \A i \in 1..Len(q) : q[i] \in K \X V
  <2> TAKE i \in 1..Len(q)
  <2>1. q[i][1] \in K /\ q[i][2] \in V /\ q[i] = <<q[i][1], q[i][2]>>
    BY <1>3 DEF Given
  <2> QED
    BY <2>1
<1> HIDE DEF K
<1>7. Extended(ctx, q) \in Objects(K, V) \cup {ctx}
  BY <1>5, <1>6, ExtendedIn DEF Given
<1>8. Sealed(V \cup Objects(K, V)) /\ Extended(ctx, q) \in V \cup Objects(K, V)
  BY <1>3, <1>7, ObjectsSealed
<1> QED
  BY <1>8 DEF Defined


-----------------------------------------------------------------------------
(* What a frame tells whoever reads it: values that are defined, and no    *)
(* block parameter that was declared and not filled in.                    *)
Told(f) ==
    /\ Defined(f.data) /\ Defined(f.private)
    /\ Stack(f.params) /\ f.slots \in Nat /\ f.slots <= Len(f.params)
    /\ \A i \in 1..Len(f.params) : Defined(f.params[i][2])
    /\ \A i \in 1..Len(f.block) : Defined(f.block[i].ctx)

Readable(chain) == Stack(chain) /\ Len(chain) # 0 /\ \A i \in 1..Len(chain) : Told(chain[i])

(* Paths and expressions as the parser makes them.                         *)
IsPathTo(path) == Stack(path.parts) /\ path.depth \in Nat
Simple(e) == \/ e.kind = "path" /\ IsPathTo(e.path)
             \/ e.kind = "lit" /\ Defined(e.value)
Expression(e) == \/ Simple(e)
                 \/ e.kind = "lookup" /\ Simple(e.obj) /\ Simple(e.key)
                 \/ e.kind = "call"

LEMMA TailStack == ASSUME NEW s, Stack(s), s # <<>> PROVE Stack(Tail(s))
<1> DEFINE S == {s[i] : i \in DOMAIN s}
<1>1. s \in Seq(S)
  BY DEF Stack
<1> HIDE DEF S
<1>2. Tail(s) \in Seq(S)
  BY <1>1
<1> QED
  BY <1>2, SeqIsStack

LEMMA FirstNamedIs ==
    ASSUME NEW f, Told(f), NEW name \in Names(f)
    PROVE  FirstNamed(f.params, name) \in 1..Len(f.params)
<1> DEFINE n == Len(f.params)
           N == {i \in 1..n : f.params[i][1] = name}
<1>1. n \in Nat
  BY Height DEF Told
<1>2. N # {}
  BY DEF Names
<1> HIDE DEF n
<1>3. N \in SUBSET Nat
  BY <1>1
<1>4. PICK m \in N : \A k \in N : m <= k
  BY <1>2, <1>3, LeastNatural
<1>5. \A j \in 1..(m - 1) : j \in 1..n /\ ~(m <= j)
  BY <1>1, <1>4
<1>6. m \in 1..n /\ f.params[m][1] = name /\ \A j \in 1..(m - 1) : f.params[j][1] # name
  BY <1>4, <1>5
<1> QED
  BY <1>6 DEF FirstNamed, n

LEMMA ParamDefined ==
    ASSUME NEW chain, Readable(chain), NEW parts, Stack(parts), parts # <<>>,
           Binders(chain, Head(parts)) # {}
    PROVE  Defined(BlockParam(chain, parts))
<1> DEFINE B == Binders(chain, Head(parts))
           i == Innermost(B)
           f == chain[i]
           name == Head(parts)
           j == FirstNamed(f.params, name)
<1>1. Len(chain) \in Nat /\ B \in SUBSET (1..Len(chain))
  BY Height DEF Readable, Binders
<1>2. i \in B
  BY <1>1, Greatest
<1>3. Told(f)
  BY <1>1, <1>2 DEF Readable
<1>4. name \in Names(f)
  <2>1. Len(f.params) \in Nat /\ f.slots \in Nat /\ f.slots <= Len(f.params)
    BY <1>3, Height DEF Told
  <2>2. ~(f.slots > Len(f.params))
    BY <2>1
  <2> QED
    BY <1>2, <2>2 DEF Binders
<1>5. BlockParam(chain, parts) = Descend(f.params[j][2], Tail(parts))
  BY <1>4 DEF BlockParam
<1> HIDE DEF B, i, f, name
<1>6. j \in 1..Len(f.params)
  BY <1>3, <1>4, FirstNamedIs
<1>7. Defined(f.params[j][2])
  BY <1>3, <1>6 DEF Told
<1>8. Stack(Tail(parts))
  BY TailStack
<1> HIDE DEF j
<1> QED
  BY <1>5, <1>7, <1>8, DescendDefined

LEMMA UpIn ==
    ASSUME NEW chain, Readable(chain), NEW depth \in Nat PROVE Up(chain, depth) \in 1..Len(chain)
<1>1. Len(chain) \in Nat /\ Len(chain) # 0
  BY Height DEF Readable
<1> QED
  BY <1>1 DEF Up

LEMMA DataDefined ==
    ASSUME NEW chain, Readable(chain), NEW path, IsPathTo(path), path.parts # <<>>
    PROVE  Defined(DataVar(chain, path))
<1> DEFINE name == Head(path.parts)
           u == Up(chain, path.depth)
           holders == {i \in 1..u : Has(chain[i].private, name)}
<1>1. u \in Nat /\ u <= Len(chain) /\ Len(chain) \in Nat /\ 1 \in 1..Len(chain)
  <2>1. u \in 1..Len(chain) /\ Len(chain) \in Nat
    BY UpIn, Height DEF Readable, IsPathTo
  <2> QED
    BY <2>1
<1> HIDE DEF u
<1>2. Defined(Descend(chain[1].data, Tail(path.parts)))
  <2>1. Stack(Tail(path.parts)) /\ Defined(chain[1].data)
    BY <1>1, TailStack DEF IsPathTo, Readable, Told
  <2> QED
    BY <2>1, DescendDefined
<1>3. holders # {} => Defined(Member(chain[Innermost(holders)].private, name))
  <2> SUFFICES ASSUME holders # {} PROVE Defined(Member(chain[Innermost(holders)].private, name))
    OBVIOUS
  <2>1. Innermost(holders) \in holders
    BY <1>1, Greatest
  <2>2. Innermost(holders) \in 1..Len(chain)
    BY <1>1, <2>1
  <2>3. Defined(chain[Innermost(holders)].private)
    BY <2>2 DEF Readable, Told
  <2> QED
    BY <2>3, MemberDefined
<1>4. DataVar(chain, path) \in {Descend(chain[1].data, Tail(path.parts)), Null,
                                IF holders = {} THEN Null ELSE Member(chain[Innermost(holders)].private, name)}
  BY DEF DataVar, u
<1> QED
  BY <1>2, <1>3, <1>4, ScalarsDefined

LEMMA ContextDefined ==
    ASSUME NEW chain, Readable(chain), NEW path, IsPathTo(path), NEW compat
    PROVE  Defined(ContextPath(chain, path, compat))
<1> DEFINE n == Len(chain)
           holders == {i \in 1..(n - 1) : Descend(chain[i].data, path.parts) # Null}
<1>1. n \in Nat /\ n - 1 \in 0..n /\ 1..(n - 1) \subseteq 1..n /\ Up(chain, path.depth) \in 1..n
  <2>1. n \in Nat /\ n # 0 /\ Up(chain, path.depth) \in 1..n
    BY UpIn, Height DEF IsPathTo, Readable
  <2> HIDE DEF n
  <2> QED
    BY <2>1
<1>2. \A i \in 1..n : Defined(Descend(chain[i].data, path.parts))
  BY DescendDefined DEF IsPathTo, Readable, Told
<1>3. holders # {} => Innermost(holders) \in 1..n
  <2> HIDE DEF n
  <2>1. holders \in SUBSET (1..n)
    BY <1>1
  <2> HIDE DEF holders
  <2> QED
    BY <1>1, <2>1, Greatest
<1>4. \/ ContextPath(chain, path, compat) = Descend(chain[Up(chain, path.depth)].data, path.parts)
      \/ /\ holders # {}
         /\ ContextPath(chain, path, compat) = Descend(chain[Innermost(holders)].data, path.parts)
  BY DEF ContextPath
<1> QED
  BY <1>1, <1>2, <1>3, <1>4

LEMMA ResolveDefined ==
    ASSUME NEW chain, Readable(chain), NEW path, IsPathTo(path), NEW compat
    PROVE  Defined(Resolve(chain, path, compat))
<1> DEFINE named == path.parts # <<>> /\ Binders(chain, Head(path.parts)) # {}
           data  == path.parts # <<>> /\ Binders(chain, Head(path.parts)) = {} /\ Head(path.parts) \in DataNames
<1>1. CASE named
  <2>1. Resolve(chain, path, compat) = BlockParam(chain, path.parts)
    BY <1>1 DEF Resolve
  <2> QED
    BY <1>1, <2>1, ParamDefined DEF IsPathTo
<1>2. CASE data
  <2>1. Resolve(chain, path, compat) = DataVar(chain, path)
    BY <1>2 DEF Resolve
  <2> QED
    BY <1>2, <2>1, DataDefined
<1>3. CASE ~named /\ ~data
  <2>1. Resolve(chain, path, compat) = ContextPath(chain, path, compat)
    BY <1>3 DEF Resolve
  <2> QED
    BY <2>1, ContextDefined
<1> QED
  BY <1>1, <1>2, <1>3

LEMMA OperandDefined ==
    ASSUME NEW chain, Readable(chain), NEW e, Simple(e), NEW env
    PROVE  Defined(Operand(chain, e, env))
<1>1. CASE e.kind = "path"
  <2>1. Operand(chain, e, env) = Resolve(chain, e.path, env.compat) /\ IsPathTo(e.path)
    BY <1>1 DEF Operand, Simple
  <2> QED
    BY <2>1, ResolveDefined
<1>2. CASE e.kind = "lit"
  BY <1>2 DEF Operand, Simple
<1> QED
  BY <1>1, <1>2 DEF Simple

(* A call is given a context and helpers whose values are defined.         *)
JobDefined(j) == /\ Defined(j.ctx)
                 /\ \A h \in DOMAIN j.helpers : Defined(j.helpers[h].result)

LEMMA EvaluateDefined ==
    ASSUME NEW chain, Readable(chain), NEW e, Expression(e), NEW env, JobDefined(env)
    PROVE  Defined(Evaluate(chain, e, env))
<1>1. CASE Simple(e)
  <2>1. Evaluate(chain, e, env) = Operand(chain, e, env)
    BY <1>1 DEF Simple, Evaluate
  <2> QED
    BY <1>1, <2>1, OperandDefined
<1>2. CASE e.kind = "lookup" /\ Simple(e.obj) /\ Simple(e.key)
  <2>1. Evaluate(chain, e, env) = LookupIn(Operand(chain, e.obj, env), Operand(chain, e.key, env))
    BY <1>2 DEF Evaluate
  <2> QED
    BY <1>2, <2>1, OperandDefined, LookupDefined
<1>3. CASE e.kind = "call"
  BY <1>3, ScalarsDefined DEF Evaluate, JobDefined
<1> QED
  BY <1>1, <1>2, <1>3 DEF Expression


-----------------------------------------------------------------------------
(* Statements as the parser makes them, of which no block declares more    *)
(* block parameters than its helper fills in: one for with, two for each   *)
(* (each block parameter that is declared has a slot in frame_push, only   *)
(* the ones that are filled in are written).                               *)
WellFormed(n) ==
    /\ Stack(n.args) /\ \A i \in 1..Len(n.args) : Expression(n.args[i])
    /\ Stack(n.hash) /\ \A i \in 1..Len(n.hash) : Expression(n.hash[i][2])
    /\ n.kind = "partial" => Expression(n.target)
    /\ n.kind = "mustache" => IsPathTo(n.path)
    /\ Stack(n.params)
    /\ Builtin(n, {"with"}) => Len(n.params) <= 1
    /\ Builtin(n, {"each"}) => Len(n.params) <= 2

(* No template declares an inline partial.                                 *)
Undeclared == \A n \in Node : n.kind # "decl"

Sound ==
    /\ \A n \in Node : WellFormed(n)
    /\ \A j \in Job : JobDefined(j)
    /\ Framed \/ Undeclared

(* What a call has at hand: a value that is defined, and for a loop a      *)
(* collection.  What a frame tells; and that it keeps no inline partial    *)
(* when there is none to keep.                                             *)
Sees(a) ==
    /\ Defined(a.value)
    /\ a.kind = "each" => /\ IsArr(a.value) \/ IsObj(a.value)
                          /\ Stack(a.node.params) /\ Len(a.node.params) <= 2
Bound(f) == Told(f) /\ (Undeclared => f.inlines = <<>>)

DInv ==
    /\ status # "undefined"
    /\ \A k \in 1..Len(ctl) : Sees(ctl[k])
    /\ \A i \in 1..Len(frames) : Bound(frames[i])

LEMMA FirstIn ==
    ASSUME NEW es, Stack(es), NEW count \in Nat
    PROVE  ToSet(First(es, count)) \subseteq {es[i] : i \in 1..Len(es)}
<1> DEFINE n == Len(es)
           m == IF count < n THEN count ELSE n
           S == {es[i] : i \in DOMAIN es}
<1>1. n \in Nat /\ es \in Seq(S)
  BY Height DEF Stack
<1>2. First(es, count) = SubSeq(es, 1, m)
  BY DEF First
<1> HIDE DEF n, S
<1>3. m \in Nat /\ m <= n
  BY <1>1
<1> HIDE DEF m
<1>4. SubSeq(es, 1, m) = [i \in 1..m |-> es[i]]
  BY <1>1, <1>3 DEF n
<1>5. 1..m \subseteq 1..n
  BY <1>1, <1>3
<1> QED
  BY <1>2, <1>4, <1>5 DEF ToSet, n

LEMMA OperandsAre ==
    ASSUME NEW n, WellFormed(n), NEW e \in Operands(n) PROVE Expression(e)
<1> DEFINE args == {n.args[i] : i \in 1..Len(n.args)}
           hash == {n.hash[i][2] : i \in 1..Len(n.hash)}
<1>1. \A x \in args \cup hash : Expression(x)
  BY DEF WellFormed
<1>2. /\ ToSet(n.args) \subseteq args
      /\ ToSet(First(n.args, 2)) \subseteq args
      /\ ToSet(First(n.args, 1)) \subseteq args
  <2>1. Stack(n.args) /\ DOMAIN n.args = 1..Len(n.args) /\ 1 \in Nat /\ 2 \in Nat
    BY Height DEF WellFormed
  <2>2. ToSet(n.args) \subseteq args
    BY <2>1 DEF ToSet
  <2> QED
    BY <2>1, <2>2, FirstIn
<1>3. \A keys : HashExprs(n, keys) \subseteq hash
  BY DEF HashExprs
<1>4. n.kind = "mustache" => Expression([kind |-> "path", path |-> n.path])
  BY DEF WellFormed, Expression, Simple
<1>5. n.kind = "partial" => Expression(n.target)
  BY DEF WellFormed
<1> DEFINE A == Builtin(n, {"lookup"} \cap Builtins(n))
           B == Builtin(n, {"if", "unless"} \cap Builtins(n))
           C == Builtin(n, {"each", "with"} \cap Builtins(n))
           D == Builtin(n, {"log"} \cap Builtins(n)) \/ HelperOf(n) # <<>>
           P == n.kind = "partial"
           V == n.kind = "mustache" /\ ~Builtin(n, {"lookup", "log"}) /\ HelperOf(n) = <<>>
           path == {[kind |-> "path", path |-> n.path]}
           two == IF Len(n.args) < 2 THEN {} ELSE ToSet(First(n.args, 2))
           if == ToSet(First(n.args, 1)) \cup HashExprs(n, {"includeZero"})
           one == ToSet(First(n.args, 1))
           all == ToSet(n.args) \cup HashExprs(n, AllKeys(n))
<1>6. Operands(n) = CASE A -> two [] B -> if [] C -> one [] D -> all
                      [] P -> {n.target} \cup ToSet(n.args) \cup HashExprs(n, AllKeys(n))
                      [] V -> path [] OTHER -> {}
  BY Zenon DEF Operands
<1>7. \A x \in two \cup if \cup one \cup all : Expression(x)
  BY <1>1, <1>2, <1>3
<1>8. P => \A x \in {n.target} \cup ToSet(n.args) \cup HashExprs(n, AllKeys(n)) : Expression(x)
  BY <1>1, <1>2, <1>3, <1>5
<1>9. V => \A x \in path : Expression(x)
  BY <1>4
<1> HIDE DEF args, hash, A, B, C, D, P, V, path, two, if, one, all
<1> QED
  BY <1>6, <1>7, <1>8, <1>9

LEMMA NeverDangling ==
    ASSUME NEW n, InlinesAlive \/ \A i \in 1..Len(frames) : frames[i].inlines = <<>>
    PROVE  ~CallsDangling(n)
<1> SUFFICES ASSUME NEW ip \in InScope(frames, PartialName(n)) PROVE Live(ip.tmpl)
  BY DEF CallsDangling
<1>1. PICK p \in UNION {{i} \X (1..Len(frames[i].inlines)) : i \in 1..Len(frames)} :
         ip = frames[p[1]].inlines[p[2]]
  BY DEF InScope
<1>2. PICK i \in 1..Len(frames) : p \in {i} \X (1..Len(frames[i].inlines))
  OBVIOUS
<1>3. p[1] = i /\ p[2] \in 1..Len(frames[i].inlines)
  BY <1>2
<1>4. CASE InlinesAlive
  BY <1>1, <1>3, <1>4 DEF InlinesAlive
<1>5. CASE \A j \in 1..Len(frames) : frames[j].inlines = <<>>
  <2>1. Len(<<>>) = 0 /\ 1..0 = {}
    OBVIOUS
  <2> QED
    BY <1>3, <1>5, <2>1
<1> QED
  BY <1>4, <1>5

(* What an action finds.                                                   *)
LEMMA SoundFacts ==
    ASSUME IInv, LInv, DInv, Sound, status = "running"
    PROVE  /\ Readable(frames) /\ JobDefined(job)
           /\ Bound(Frame) /\ Sees(Top)
<1>1. Stack(frames) /\ Len(frames) # 0 /\ job \in Job
  BY CallFacts DEF IInv, TypeOK
<1>2. Len(frames) \in 1..Len(frames) /\ Len(ctl) \in 1..Len(ctl)
  BY StateFacts
<1> QED
  BY <1>1, <1>2 DEF DInv, Sound, Readable, Bound, Frame, Top

LEMMA NeverIllegal ==
    ASSUME IInv, LInv, DInv, Sound, InlinesAlive \/ Undeclared, status = "running", Stmt \in Node
    PROVE  ~Illegal(Stmt)
<1>1. WellFormed(Stmt)
  BY DEF Sound
<1>2. \A e \in Operands(Stmt) : Evaluate(frames, e, job) # Unset
  BY <1>1, OperandsAre, SoundFacts, EvaluateDefined, NotUnset
<1>3. ~CallsDangling(Stmt)
  BY NeverDangling DEF DInv, Bound
<1> QED
  BY <1>2, <1>3 DEF Illegal


-----------------------------------------------------------------------------
(* What the steps do to the calls and to the frames.                       *)
SeeAll(c) == Stack(c) /\ \A k \in 1..Len(c) : Sees(c[k])
BindAll(s) == Stack(s) /\ \A i \in 1..Len(s) : Bound(s[i])

LEMMA SeesSame == ASSUME NEW a, NEW b, Same(a, b), Sees(b) PROVE Sees(a)
BY DEF Same, Alike, Sees

LEMMA SeeAdvanced == ASSUME IInv, status = "running", SeeAll(ctl) PROVE SeeAll(Advanced)
BY AdvancedSame, SeesSame DEF SeeAll

LEMMA SeePush == ASSUME NEW c, SeeAll(c), NEW a, Sees(a) PROVE SeeAll(Append(c, a))
<1>1. Stack(c) /\ Len(c) \in Nat
  BY Height DEF SeeAll
<1> QED
  BY <1>1, Push DEF SeeAll

LEMMA SeePop == ASSUME NEW c, SeeAll(c), Len(c) # 0 PROVE SeeAll(Front(c))
<1>1. Stack(c) /\ Len(c) \in Nat
  BY Height DEF SeeAll
<1> QED
  BY <1>1, Pop DEF SeeAll

LEMMA BindPush == ASSUME NEW s, BindAll(s), NEW f, Bound(f) PROVE BindAll(Append(s, f))
<1>1. Stack(s) /\ Len(s) \in Nat
  BY Height DEF BindAll
<1> QED
  BY <1>1, Push DEF BindAll

LEMMA BindPop == ASSUME NEW s, BindAll(s), Len(s) # 0 PROVE BindAll(Front(s)) /\ Len(Front(s)) = Len(s) - 1
<1>1. Stack(s) /\ Len(s) \in Nat
  BY Height DEF BindAll
<1> QED
  BY <1>1, Pop DEF BindAll

LEMMA SoundState ==
    ASSUME IInv, LInv, DInv, status = "running"
    PROVE  /\ SeeAll(ctl) /\ BindAll(frames) /\ SeeAll(Advanced)
           /\ Len(ctl) # 0 /\ Len(frames) # 0
<1>1. Stack(ctl) /\ Stack(frames) /\ Len(ctl) # 0 /\ Len(frames) # 0
  BY CallFacts
<1>2. SeeAll(ctl) /\ BindAll(frames)
  BY <1>1 DEF DInv, SeeAll, BindAll
<1> QED
  BY <1>1, <1>2, SeeAdvanced

LEMMA SoundNext ==
    ASSUME SeeAll(ctl'), BindAll(frames'), status' # "undefined" PROVE DInv'
BY DEF DInv, SeeAll, BindAll

-----------------------------------------------------------------------------
(* What the actions make.                                                  *)
LEMMA NewBound == ASSUME NEW data, Defined(data) PROVE Bound(NewFrame(data))
<1> DEFINE f == NewFrame(data)
<1>1. /\ f.data = data /\ f.private = Null /\ f.params = <<>> /\ f.slots = 0
      /\ f.block = <<>> /\ f.inlines = <<>>
  BY DEF NewFrame
<1>2. Stack(f.params) /\ Len(f.params) = 0 /\ Len(f.block) = 0
  BY <1>1, EmptyStack
<1> HIDE DEF f
<1>3. \A i : i \notin 1..0
  OBVIOUS
<1>4. Defined(f.private) /\ f.slots \in Nat /\ f.slots <= Len(f.params)
  BY <1>1, <1>2, ScalarsDefined
<1> QED
  BY <1>1, <1>2, <1>3, <1>4 DEF Bound, Told, f

(* The values of the block parameters, as many as the template declares.   *)
LEMMA FilledUp ==
    ASSUME NEW names, Stack(names), NEW values, Len(values) \in Nat, Len(names) <= Len(values),
           \A i \in 1..Len(values) : Defined(values[i])
    PROVE  /\ Stack(Filled(names, values)) /\ Len(Filled(names, values)) = Len(names)
           /\ \A i \in 1..Len(names) : Defined(Filled(names, values)[i][2])
<1> DEFINE n == Len(names)
           v == Len(values)
           f == Filled(names, values)
           S == {names[i] : i \in DOMAIN names}
           T == {<<names[i], values[i]>> : i \in 1..n}
<1>1. n \in Nat /\ names \in Seq(S)
  BY Height DEF Stack
<1>2. (IF v < n THEN v ELSE n) = n
  <2> HIDE DEF n, v
  <2> QED
    BY <1>1 DEF n, v
<1>3. Len(First(names, v)) = n
  <2>1. First(names, v) = SubSeq(names, 1, n)
    BY <1>2 DEF First
  <2> HIDE DEF S
  <2>2. Len(SubSeq(names, 1, n)) = n
    BY <1>1
  <2> QED
    BY <2>1, <2>2
<1>4. f = [k \in 1..n |-> <<names[k], values[k]>>]
  BY <1>3 DEF Filled
<1> HIDE DEF f
<1>5. f \in [1..n -> T]
  BY <1>4
<1>6. f \in Seq(T) /\ Len(f) = n
  <2> HIDE DEF n, T
  <2>1. f \in Seq(T)
    BY <1>1, <1>5, SeqDef
  <2> QED
    BY <1>1, <1>5, <2>1, LenProperties
<1>8. 1..n \subseteq 1..v
  <2> HIDE DEF n, v
  <2> QED
    BY <1>1 DEF n, v
<1>9. \A i \in 1..n : f[i][2] = values[i]
  BY <1>4
<1>10. Stack(f)
  BY <1>6, SeqIsStack
<1> QED
  BY <1>6, <1>8, <1>9, <1>10 DEF f

LEMMA ScopeBound ==
    ASSUME NEW f, Defined(f.data), Defined(f.private), f.block = <<>>, f.inlines = <<>>,
           NEW names, Stack(names), NEW values, Len(values) \in Nat, Len(names) <= Len(values),
           \A i \in 1..Len(values) : Defined(values[i]),
           f.params = Filled(names, values), f.slots = Len(names)
    PROVE  Bound(f)
<1>1. Len(names) \in Nat /\ Len(names) <= Len(names) /\ Len(<<>>) = 0 /\ \A i : i \notin 1..0
  <2> DEFINE n == Len(names)
  <2>1. n \in Nat
    BY Height
  <2> HIDE DEF n
  <2>2. n <= n
    BY <2>1
  <2> QED
    BY <2>1, <2>2 DEF n
<1> QED
  BY <1>1, FilledUp DEF Bound, Told

LEMMA ArgDefined ==
    ASSUME IInv, LInv, DInv, Sound, status = "running", NEW n \in Node
    PROVE  /\ Defined(Arg1(n)) /\ Stack(n.args)
           /\ Stack(n.hash) /\ \A i \in 1..Len(n.hash) : Defined(Evaluate(frames, n.hash[i][2], job))
<1>1. WellFormed(n) /\ Readable(frames) /\ JobDefined(job)
  BY SoundFacts DEF Sound
<1>2. n.args # <<>> => 1 \in 1..Len(n.args) /\ Head(n.args) = n.args[1]
  <2> DEFINE m == Len(n.args)
  <2>1. Stack(n.args)
    BY <1>1 DEF WellFormed
  <2>2. n.args # <<>> => m \in Nat /\ m # 0
    BY <2>1, EmptySeq DEF Stack
  <2> HIDE DEF m
  <2>3. n.args # <<>> => 1 \in 1..m
    BY <2>2
  <2> QED
    BY <2>3 DEF m
<1>3. n.args # <<>> => Defined(Evaluate(frames, Head(n.args), job))
  BY <1>1, <1>2, EvaluateDefined DEF WellFormed
<1>4. Defined(Arg1(n))
  BY <1>3, ScalarsDefined DEF Arg1
<1> QED
  BY <1>1, <1>4, EvaluateDefined DEF WellFormed

LEMMA HashGiven ==
    ASSUME IInv, LInv, DInv, Sound, status = "running", NEW n \in Node PROVE Given(Hash(n))
<1> DEFINE q == Hash(n)
           m == Len(n.hash)
           T == {<<n.hash[i][1], Evaluate(frames, n.hash[i][2], job)>> : i \in 1..m}
<1>1. m \in Nat /\ \A i \in 1..m : Defined(Evaluate(frames, n.hash[i][2], job))
  BY ArgDefined, Height
<1>2. q = [i \in 1..m |-> <<n.hash[i][1], Evaluate(frames, n.hash[i][2], job)>>]
  BY DEF Hash, EvaluateHash
<1> HIDE DEF q, m
<1>3. q \in [1..m -> T]
  BY <1>2
<1>4. q \in Seq(T)
  BY <1>1, <1>3, SeqDef
<1>5. Len(q) = m /\ Stack(q)
  BY <1>1, <1>3, <1>4, LenProperties, SeqIsStack
<1> QED
  BY <1>1, <1>2, <1>5 DEF Given, q

LEMMA PartialDataDefined ==
    ASSUME IInv, LInv, DInv, Sound, status = "running", NEW n \in Node PROVE Defined(PartialData(n))
<1> DEFINE ctx == IF Arg1(n) = Null THEN Frame.data ELSE Arg1(n)
<1>1. Defined(ctx)
  BY ArgDefined, SoundFacts DEF Bound, Told
<1> HIDE DEF ctx
<1>2. Defined(Extended(ctx, Hash(n)))
  BY <1>1, HashGiven, ExtendedDefined
<1>3. PartialData(n) = IF n.hash = <<>> THEN ctx ELSE Extended(ctx, Hash(n))
  BY DEF PartialData, ctx
<1> QED
  BY <1>1, <1>2, <1>3

LEMMA PairsSealed ==
    ASSUME NEW V, Sealed(V), NEW K, NEW s \in Seq(K \X V) PROVE Defined(Obj(s))
<1>1. Obj(s) \in Objects(K, V)
  BY DEF Objects
<1>2. Sealed(V \cup Objects(K, V)) /\ Obj(s) \in V \cup Objects(K, V)
  BY <1>1, ObjectsSealed
<1> QED
  BY <1>2 DEF Defined

(* The private data and the block parameters of an iteration.              *)
LEMMA LoopBound ==
    ASSUME NEW n, Stack(n.params), Len(n.params) <= 2,
           NEW coll, Defined(coll), IsArr(coll) \/ IsObj(coll), NEW i \in 1..Len(coll[2])
    PROVE  Bound(LoopFrame(n, coll, i))
<1> DEFINE item == IF IsArr(coll) THEN coll[2][i] ELSE coll[2][i][2]
           key  == IF IsArr(coll) THEN <<>> ELSE << <<"@key", Str(coll[2][i][1])>> >>
           rest == << <<"@index", Num(i - 1)>>, <<"@first", Bool(i = 1)>>, <<"@last",  Bool(i = Len(coll[2]))>> >>
           second == IF IsArr(coll) THEN Num(i - 1) ELSE Str(coll[2][i][1])
           f == LoopFrame(n, coll, i)
<1>1. Defined(item)
  BY ItemDefined, MemberValueDefined
<1>2. Defined(second)
  BY ScalarsDefined
<1>3. Defined(Obj(key \o rest))
  <2> DEFINE V == {Str(coll[2][i][1]), Num(i - 1), Bool(i = 1), Bool(i = Len(coll[2]))}
             K == {"@key", "@index", "@first", "@last"}
             X == {{v} : v \in V}
  <2>1. \A v \in V : Sealed({v})
    BY ScalarSealed, Scalars
  <2>2. \A A \in X : Sealed(A)
    BY <2>1
  <2>3. UNION X = V
    OBVIOUS
  <2>4. Sealed(V)
    <3>1. Sealed(UNION X)
      <4> HIDE DEF X
      <4> QED
        BY <2>2, SealedUnion
    <3> QED
      BY <2>3, <3>1
  <2> DEFINE P == K \X V
  <2>5. /\ <<"@key", Str(coll[2][i][1])>> \in P /\ <<"@index", Num(i - 1)>> \in P
        /\ <<"@first", Bool(i = 1)>> \in P /\ <<"@last",  Bool(i = Len(coll[2]))>> \in P
    OBVIOUS
  <2> HIDE DEF P
  <2>6. key \in Seq(P) /\ rest \in Seq(P)
    BY <2>5
  <2> HIDE DEF key, rest
  <2>7. key \o rest \in Seq(P)
    BY <2>6
  <2> HIDE DEF V, K
  <2> QED
    BY <2>4, <2>7, PairsSealed DEF P
<1>4. /\ f.data = item /\ f.private = Obj(key \o rest) /\ f.block = <<>> /\ f.inlines = <<>>
      /\ f.params = Filled(n.params, <<item, second>>) /\ f.slots = Len(n.params)
  BY DEF LoopFrame, NewFrame
<1> HIDE DEF item, key, rest, second, f
<1> DEFINE values == <<item, second>>
<1>5. Len(values) = 2 /\ \A j \in 1..2 : Defined(values[j])
  BY <1>1, <1>2
<1> HIDE DEF values
<1>6. Bound(f)
  <2>1. Len(values) \in Nat /\ Len(n.params) <= Len(values) /\ \A j \in 1..Len(values) : Defined(values[j])
    BY <1>5
  <2>2. Defined(f.data) /\ Defined(f.private) /\ f.params = Filled(n.params, values)
    BY <1>1, <1>3, <1>4 DEF values
  <2> QED
    BY <1>4, <2>1, <2>2, ScopeBound
<1> QED
  BY <1>6 DEF f


-----------------------------------------------------------------------------
(* The actions.                                                            *)
Telling == IInv /\ LInv /\ DInv /\ Sound

LEMMA ProduceTells ==
    ASSUME Telling, NEW kind, At(kind), NEW items, Produce(items) PROVE DInv'
<1>1. status = "running" /\ status' = status /\ ctl' = Advanced /\ frames' = frames
  BY StmtFacts DEF Telling, Produce
<1> QED
  BY <1>1, SoundState, SoundNext DEF Telling

LEMMA MissingTells == ASSUME Telling, RenderMissing PROVE DInv'
<1>1. status = "running" /\ status' = status /\ ctl' = Advanced /\ frames' = frames
  BY StmtFacts DEF Telling, RenderMissing
<1> QED
  BY <1>1, SoundState, SoundNext DEF Telling

LEMMA EnterTells ==
    ASSUME Telling, status = "running", status' = "running", NEW act, Enter(act), Sees(act), BindAll(frames')
    PROVE  DInv'
<1>1. SeeAll(ctl')
  BY SoundState, SeePush DEF Enter, Telling
<1> QED
  BY <1>1, SoundNext

LEMMA BlockTells ==
    ASSUME Telling, status = "running", NEW code, NEW owned, EnterBlock(code, owned) PROVE DInv'
<1> DEFINE act == [Run("block", code) EXCEPT !.refs = owned]
<1>1. Enter(act) /\ frames' = frames /\ status' = status
  BY DEF EnterBlock
<1>2. act.kind = "block" /\ act.value = Null
  BY DEF Run, Activation
<1> HIDE DEF act
<1>3. Sees(act)
  BY <1>2, ScalarsDefined DEF Sees
<1> QED
  BY <1>1, <1>3, SoundState, EnterTells DEF Telling

LEMMA ScopeTells ==
    ASSUME Telling, status = "running", NEW kind, NEW value, NEW f, EnterScope(kind, value, f),
           Defined(value), Bound(f),
           kind = "each" => /\ IsArr(value) \/ IsObj(value)
                            /\ Stack(Stmt.params) /\ Len(Stmt.params) <= 2
    PROVE  DInv'
<1> DEFINE act == [Run(kind, Stmt.body) EXCEPT !.value = value, !.refs = Owned(value)]
<1>1. Enter(act) /\ frames' = Append(frames, f) /\ status' = status
  BY DEF EnterScope
<1>2. act.kind = kind /\ act.value = value /\ act.node = Stmt
  BY DEF Run, Activation
<1> HIDE DEF act
<1>3. Sees(act)
  BY <1>2 DEF Sees
<1> QED
  BY <1>1, <1>3, SoundState, BindPush, EnterTells DEF Telling

LEMMA IfTells == ASSUME Telling, RenderIf PROVE DInv'
BY StmtFacts, BlockTells DEF RenderIf, Telling

LEMMA UnknownTells == ASSUME Telling, RenderUnknown PROVE DInv'
<1>1. At("block") /\ status = "running"
  BY StmtFacts DEF RenderUnknown, Telling
<1>2. Produce(<<>>) \/ EnterBlock(Stmt.body, 0)
  BY DEF RenderUnknown
<1> QED
  BY <1>1, <1>2, ProduceTells, BlockTells

LEMMA WithTells == ASSUME Telling, RenderWith PROVE DInv'
<1> DEFINE v == Arg1(Stmt)
           f == [NewFrame(v) EXCEPT !.params = Filled(Stmt.params, <<v>>), !.slots = Len(Stmt.params)]
<1>1. status = "running" /\ Stmt \in Node /\ Builtin(Stmt, {"with"})
  BY StmtFacts DEF RenderWith, Telling
<1>2. EnterBlock(Stmt.inverse, Owned(v)) \/ EnterScope("with", v, f)
  BY DEF RenderWith
<1>3. Defined(v)
  BY <1>1, ArgDefined DEF Telling
<1>4. Stack(Stmt.params) /\ Len(Stmt.params) <= 1
  BY <1>1 DEF Telling, Sound, WellFormed
<1>5. /\ f.data = v /\ f.private = Null /\ f.block = <<>> /\ f.inlines = <<>>
      /\ f.params = Filled(Stmt.params, <<v>>) /\ f.slots = Len(Stmt.params)
  BY DEF NewFrame
<1>6. Len(<<v>>) = 1 /\ \A i \in 1..1 : <<v>>[i] = v
  OBVIOUS
<1> HIDE DEF v, f
<1>7. Bound(f)
  <2> DEFINE values == <<v>>
  <2>1. Len(values) = 1 /\ \A i \in 1..1 : Defined(values[i])
    BY <1>3, <1>6
  <2>2. f.params = Filled(Stmt.params, values)
    BY <1>5
  <2> HIDE DEF values
  <2>3. Len(values) \in Nat /\ Len(Stmt.params) <= Len(values) /\ \A i \in 1..Len(values) : Defined(values[i])
    BY <1>4, <2>1
  <2> QED
    BY <1>3, <1>4, <1>5, <2>2, <2>3, ScopeBound, ScalarsDefined
<1> QED
  BY <1>1, <1>2, <1>3, <1>7, BlockTells, ScopeTells

LEMMA EachTells == ASSUME Telling, RenderEach PROVE DInv'
<1> DEFINE coll  == Arg1(Stmt)
           f     == LoopFrame(Stmt, coll, 1)
           empty == Falsy(coll) \/ (IsObj(coll) /\ coll[2] = <<>>)
<1>1. At("block") /\ status = "running" /\ Stmt \in Node /\ Builtin(Stmt, {"each"})
  BY StmtFacts DEF RenderEach, Telling
<1>2. \/ EnterBlock(Stmt.inverse, Owned(coll))
      \/ ~empty /\ (IsArr(coll) \/ IsObj(coll)) /\ EnterScope("each", coll, f)
      \/ Produce(<<>>)
  BY DEF RenderEach
<1>3. Defined(coll)
  BY <1>1, ArgDefined DEF Telling
<1>4. Stack(Stmt.params) /\ Len(Stmt.params) <= 2
  BY <1>1 DEF Telling, Sound, WellFormed
<1>5. ASSUME ~empty, IsArr(coll) \/ IsObj(coll) PROVE Bound(f)
  <2>1. coll[2] # <<>>
    BY <1>5 DEF Falsy
  <2> HIDE DEF coll
  <2>2. Stack(coll[2])
    BY <1>3, <1>5, ItemDefined, MemberValueDefined
  <2>3. 1 \in 1..Len(coll[2])
    <3> DEFINE m == Len(coll[2])
    <3>1. m \in Nat /\ m # 0
      BY <2>1, <2>2, EmptySeq DEF Stack
    <3> HIDE DEF m
    <3>2. 1 \in 1..m
      BY <3>1
    <3> QED
      BY <3>2 DEF m
  <2> QED
    BY <1>3, <1>4, <1>5, <2>3, LoopBound
<1> HIDE DEF coll, f, empty
<1> QED
  BY <1>1, <1>2, <1>3, <1>4, <1>5, BlockTells, ProduceTells, ScopeTells

LEMMA HelperTells == ASSUME Telling, RenderHelper PROVE DInv'
<1>1. status = "running" /\ Stmt \in Node /\ frames' = frames /\ status' = status
  BY StmtFacts DEF RenderHelper, Telling
<1>2. PICK given :
         Enter([Run("helper", <<>>) EXCEPT !.value = Arg1(Stmt), !.calls = given,
                                           !.refs = HelperRefs(Stmt)])
  BY DEF RenderHelper
<1> DEFINE act == [Run("helper", <<>>) EXCEPT !.value = Arg1(Stmt), !.calls = given,
                                              !.refs = HelperRefs(Stmt)]
<1>3. act.kind = "helper" /\ act.value = Arg1(Stmt) /\ Enter(act)
  BY <1>2 DEF Run, Activation
<1> HIDE DEF act
<1>4. Sees(act)
  BY <1>1, <1>3, ArgDefined DEF Sees, Telling
<1> QED
  BY <1>1, <1>3, <1>4, SoundState, EnterTells DEF Telling

(* Replacing the innermost call.                                           *)
LEMMA SeeReplace ==
    ASSUME NEW c, SeeAll(c), Len(c) # 0, NEW a, Sees(a)
    PROVE  SeeAll([c EXCEPT ![Len(c)] = a])
<1> DEFINE d == [c EXCEPT ![Len(c)] = a]
<1>1. Stack(c) /\ DOMAIN c = 1..Len(c)
  BY Height DEF SeeAll
<1>2. d = [i \in DOMAIN c |-> d[i]]
  OBVIOUS
<1>3. \A k \in 1..Len(c) : d[k] = IF k = Len(c) THEN a ELSE c[k]
  BY <1>1
<1> HIDE DEF d
<1>4. Stack(d) /\ Len(d) = Len(c)
  BY <1>1, <1>2, Replace
<1> QED
  BY <1>3, <1>4 DEF SeeAll, d

LEMMA NextItemTells == ASSUME Telling, NextItem PROVE DInv'
<1> DEFINE i == Top.iter + 1
           next == LoopFrame(Top.node, Top.value, i)
           a == [Top EXCEPT !.iter = i, !.pc = 1]
<1>1. status = "running" /\ status' = status /\ Top.kind = "each" /\ Top.iter < Len(Top.value[2])
  BY DEF NextItem, Running
<1>2. ctl' = [ctl EXCEPT ![Len(ctl)] = a] /\ frames' = Append(Front(frames), next)
  BY DEF NextItem, Top
<1>3. Sees(Top) /\ IsActivation(Top)
  BY <1>1, SoundFacts, StateFacts DEF Telling
<1>4. Sees(a)
  <2> HIDE DEF i
  <2>1. a.kind = Top.kind /\ a.node = Top.node /\ a.value = Top.value
    BY <1>3 DEF IsActivation
  <2> QED
    BY <1>3, <2>1 DEF Sees
<1>5. i \in 1..Len(Top.value[2])
  <2> DEFINE m == Len(Top.value[2])
  <2>1. Stack(Top.value[2])
    BY <1>1, <1>3, ItemDefined, MemberValueDefined DEF Sees
  <2>2. m \in Nat /\ Top.iter \in Nat \ {0}
    BY <1>3, <2>1, Height DEF IsActivation
  <2> QED
    BY <1>1, <2>2
<1> HIDE DEF i, a
<1>6. Bound(next)
  BY <1>1, <1>3, <1>5, LoopBound DEF Sees
<1> HIDE DEF next
<1> QED
  BY <1>1, <1>2, <1>4, <1>6, SoundState, SoundNext, SeeReplace, BindPop, BindPush DEF Telling

LEMMA CallBackTells == ASSUME Telling, CallBack PROVE DInv'
<1> DEFINE call == Head(Top.calls)
           code == IF call.side = "fn" THEN Top.node.body ELSE Top.node.inverse
           ctx  == IF call.ctx = "param" THEN Top.value ELSE Frame.data
           a    == [Top EXCEPT !.calls = Tail(Top.calls)]
           act  == [Activation("fn", Top.node, code, Top.tmpl) EXCEPT !.calls = <<call>>]
<1>1. status = "running" /\ status' = status /\ Top.kind = "helper"
  BY DEF CallBack, InHelper
<1>2. ctl' = Append([ctl EXCEPT ![Len(ctl)] = a], act) /\ frames' = Append(frames, NewFrame(ctx))
  BY DEF CallBack, Top
<1>3. Sees(Top) /\ IsActivation(Top) /\ Bound(Frame)
  BY <1>1, SoundFacts, StateFacts DEF Telling
<1>4. Bound(NewFrame(ctx))
  BY <1>3, NewBound DEF Sees, Bound, Told
<1>5. act.kind = "fn" /\ act.value = Null
  BY DEF Activation
<1>6. a.kind = Top.kind /\ a.node = Top.node /\ a.value = Top.value
  BY <1>3 DEF IsActivation
<1> HIDE DEF call, code, ctx, a, act
<1>7. Sees(act) /\ Sees(a)
  BY <1>3, <1>5, <1>6, ScalarsDefined DEF Sees
<1>8. SeeAll(ctl')
  BY <1>1, <1>2, <1>7, SoundState, SeeReplace, SeePush DEF Telling
<1>9. BindAll(frames')
  BY <1>1, <1>2, <1>4, SoundState, BindPush DEF Telling
<1> QED
  BY <1>1, <1>8, <1>9, SoundNext

LEMMA YieldTells == ASSUME Telling, RenderYield PROVE DInv'
<1>1. status = "running" /\ status' = status
  BY StmtFacts DEF RenderYield, Telling
<1>2. PICK i \in Yielding(frames) :
         LET block == frames[i].block[1]
         IN  /\ Enter([Activation("yield", Stmt, block.code, block.tmpl) EXCEPT !.iter = i])
             /\ frames' = Append(frames, NewFrame(IF block.ctx = Null THEN Frame.data ELSE block.ctx))
  BY DEF RenderYield
<1> DEFINE block == frames[i].block[1]
           ctx == IF block.ctx = Null THEN Frame.data ELSE block.ctx
           act == [Activation("yield", Stmt, block.code, block.tmpl) EXCEPT !.iter = i]
<1>3. Enter(act) /\ frames' = Append(frames, NewFrame(ctx))
  BY <1>2
<1>4. act.kind = "yield" /\ act.value = Null
  BY DEF Activation
<1>5. i \in 1..Len(frames) /\ frames[i].block # <<>>
  BY DEF Yielding
<1>6. 1 \in 1..Len(frames[i].block)
  <2> DEFINE b == frames[i].block
             n == Len(b)
  <2>1. Stack(b) /\ b # <<>>
    BY <1>5 DEF IInv, TypeOK, Chain, IsFrame, Telling
  <2> HIDE DEF b
  <2>2. n \in Nat /\ n # 0
    BY <2>1, EmptySeq DEF Stack
  <2> HIDE DEF n
  <2>3. 1 \in 1..n
    BY <2>2
  <2> QED
    BY <2>3 DEF n, b
<1>7. Defined(ctx)
  BY <1>1, <1>5, <1>6, SoundFacts DEF DInv, Bound, Told, Telling
<1> HIDE DEF act, ctx
<1>8. Sees(act)
  BY <1>4, ScalarsDefined DEF Sees
<1> QED
  BY <1>1, <1>3, <1>7, <1>8, SoundState, NewBound, BindPush, EnterTells DEF Telling

LEMMA InlineTells == ASSUME Telling, RenderInline PROVE DInv'
<1>1. status = "running" /\ status' = status /\ Stmt \in Node
  BY StmtFacts DEF RenderInline, Telling
<1>2. PICK ip \in InScope(frames, PartialName(Stmt)) :
         Enter([Activation("inline", Stmt, ip.code, ip.tmpl) EXCEPT !.refs = PartialRefs(Stmt)])
  BY DEF RenderInline
<1> DEFINE act == [Activation("inline", Stmt, ip.code, ip.tmpl) EXCEPT !.refs = PartialRefs(Stmt)]
           f   == NewFrame(PartialData(Stmt))
<1>3. Enter(act) /\ frames' = frames \o <<f, f>>
  BY <1>2 DEF RenderInline
<1>4. act.kind = "inline" /\ act.value = Null
  BY DEF Activation
<1>5. Bound(f)
  BY <1>1, PartialDataDefined, NewBound DEF Telling
<1> HIDE DEF act, f
<1>6. Sees(act)
  BY <1>4, ScalarsDefined DEF Sees
<1>7. frames' = Append(Append(frames, f), f)
  <2>1. frames \in Seq({frames[i] : i \in DOMAIN frames} \cup {f})
    BY <1>1, CallFacts, SeqMonotonic DEF Stack, Telling
  <2> QED
    BY <1>3, <2>1
<1>8. BindAll(frames')
  BY <1>1, <1>5, <1>7, SoundState, BindPush DEF Telling
<1> QED
  BY <1>1, <1>3, <1>6, <1>8, EnterTells

LEMMA PartialTells == ASSUME Telling, RenderPartial PROVE DInv'
<1> DEFINE act == [Activation("partial", Stmt, job.partials[PartialName(Stmt)].body, compiled + 1)
                     EXCEPT !.own = compiled + 1, !.refs = PartialRefs(Stmt)]
           f == NewFrame(PartialData(Stmt))
<1>1. status = "running" /\ status' = status /\ Stmt \in Node
  BY StmtFacts DEF RenderPartial, Telling
<1>2. Enter(act) /\ (frames' = Append(frames, f) \/ frames' = frames)
  BY DEF RenderPartial
<1>3. act.kind = "partial" /\ act.value = Null
  BY DEF Activation
<1>4. Bound(f)
  BY <1>1, PartialDataDefined, NewBound DEF Telling
<1> HIDE DEF act, f
<1>5. Sees(act)
  BY <1>3, ScalarsDefined DEF Sees
<1>6. BindAll(frames')
  BY <1>1, <1>2, <1>4, SoundState, BindPush DEF Telling
<1> QED
  BY <1>1, <1>2, <1>5, <1>6, EnterTells

LEMMA BlockBound == ASSUME Bound(Frame), NEW n PROVE Bound(BlockFrame(n))
<1> DEFINE b == [code |-> n.body, ctx |-> Frame.data, tmpl |-> Top.tmpl]
           g == NewFrame(Frame.data)
           f == BlockFrame(n)
<1>1. f.block = <<b>> /\ f.inlines = <<>> /\ b.ctx = Frame.data
      /\ f.data = g.data /\ f.private = g.private /\ f.params = g.params /\ f.slots = g.slots
  BY DEF BlockFrame, NewFrame
<1>2. Bound(g) /\ Defined(Frame.data)
  BY NewBound DEF Bound, Told
<1> HIDE DEF b, f, g
<1>3. Len(<<b>>) = 1 /\ \A i \in 1..1 : <<b>>[i] = b
  OBVIOUS
<1>4. \A i \in 1..Len(f.block) : Defined(f.block[i].ctx)
  BY <1>1, <1>2, <1>3
<1> QED
  BY <1>1, <1>2, <1>4 DEF Bound, Told, f

LEMMA PartialBlockTells == ASSUME Telling, RenderPartialBlock PROVE DInv'
<1>1. status = "running"
  BY StmtFacts DEF RenderPartialBlock, Telling
<1>2. \/ \E a : a.kind = "pblock" /\ a.value = Null /\ EnterPartialBlock(a)
      \/ EnterBlock(Stmt.body, 0)
  <2> DEFINE name == NameOf(Stmt)
             act(ip) == Activation("pblock", Stmt, ip.code, ip.tmpl)
             own == [Activation("pblock", Stmt, job.partials[name].body, compiled + 1)
                       EXCEPT !.own = compiled + 1]
  <2>1. \/ \E ip \in InScope(frames, name) : EnterPartialBlock(act(ip))
        \/ EnterPartialBlock(own)
        \/ EnterBlock(Stmt.body, 0)
    BY DEF RenderPartialBlock
  <2>2. /\ \A ip : act(ip).kind = "pblock" /\ act(ip).value = Null
        /\ own.kind = "pblock" /\ own.value = Null
    BY DEF Activation
  <2> HIDE DEF act, own, name
  <2> QED
    BY <2>1, <2>2
<1>3. ASSUME NEW a, a.kind = "pblock", a.value = Null, EnterPartialBlock(a) PROVE DInv'
  <2>1. Enter(a) /\ frames' = Append(frames, BlockFrame(Stmt)) /\ status' = status
    BY <1>3 DEF EnterPartialBlock
  <2>2. Sees(a)
    BY <1>3, ScalarsDefined DEF Sees
  <2>3. BindAll(frames')
    BY <1>1, <2>1, SoundState, SoundFacts, BlockBound, BindPush DEF Telling
  <2> QED
    BY <1>1, <2>1, <2>2, <2>3, EnterTells
<1> QED
  BY <1>1, <1>2, <1>3, BlockTells

LEMMA RegisterTells == ASSUME Telling, RegisterInline PROVE DInv'
<1> DEFINE ps == <<[name |-> NameOf(Stmt), code |-> Stmt.body, tmpl |-> Top.tmpl]>> \o Frame.inlines
           f  == [Frame EXCEPT !.inlines = ps]
           n  == Len(frames)
<1>1. status = "running" /\ status' = status /\ ctl' = Advanced /\ ~Undeclared
  BY StmtFacts DEF RegisterInline, Telling, Undeclared
<1>2. frames' = [frames EXCEPT ![n] = f]
  BY DEF RegisterInline, Frame
<1>3. IsFrame(Frame) /\ Bound(Frame) /\ BindAll(frames) /\ n # 0
  BY <1>1, StateFacts, SoundFacts, SoundState DEF Telling
<1>4. /\ f.data = Frame.data /\ f.private = Frame.private /\ f.params = Frame.params
      /\ f.slots = Frame.slots /\ f.block = Frame.block
  BY <1>3 DEF IsFrame
<1> HIDE DEF f
<1>5. Bound(f)
  BY <1>1, <1>3, <1>4 DEF Bound, Told
<1>6. frames' = [i \in DOMAIN frames |-> frames'[i]] /\ Stack(frames) /\ DOMAIN frames = 1..n
  BY <1>2, <1>3, Height DEF BindAll
<1>7. \A i \in 1..n : Bound(frames'[i])
  BY <1>2, <1>3, <1>5, <1>6 DEF BindAll
<1>8. BindAll(frames')
  <2> DEFINE s == frames'
  <2>1. s = [i \in DOMAIN frames |-> s[i]] /\ Stack(frames) /\ \A i \in 1..n : Bound(s[i])
    BY <1>6, <1>7
  <2> HIDE DEF s
  <2>2. Stack(s) /\ Len(s) = n
    BY <2>1, Replace
  <2>3. BindAll(s)
    BY <2>1, <2>2 DEF BindAll
  <2> QED
    BY <2>3 DEF s
<1> QED
  BY <1>1, <1>8, SoundState, SoundNext DEF Telling

LEMMA ReturnTells ==
    ASSUME Telling, status = "running", status' # "undefined", Return,
           frames' = frames \/ frames' = Front(frames) \/ (Top.kind = "inline" /\ frames' = Front(Front(frames)))
    PROVE  DInv'
<1>1. SeeAll(ctl')
  BY SoundState, SeePop DEF Return, Telling
<1>2. BindAll(frames) /\ Len(frames) # 0
  BY SoundState DEF Telling
<1>3. Top.kind = "inline" => Len(Front(frames)) # 0
  <2> DEFINE m == Len(frames)
  <2> SUFFICES ASSUME Top.kind = "inline" PROVE Len(Front(frames)) # 0
    OBVIOUS
  <2>1. m = Top.base.frames + 2 /\ Top.base.frames \in Nat /\ Len(Front(frames)) = m - 1
    BY <1>2, CallFacts, Below, BindPop DEF FramesHeld, Telling
  <2> HIDE DEF m
  <2> QED
    BY <2>1
<1>4. BindAll(frames')
  BY <1>2, <1>3, BindPop
<1> QED
  BY <1>1, <1>4, SoundNext

LEMMA ResumeTells == ASSUME Telling, Resume PROVE DInv'
<1>1. CASE NextItem \/ CallBack
  BY <1>1, NextItemTells, CallBackTells
<1>2. CASE ReturnHelper
  BY <1>2, ReturnTells DEF ReturnHelper, InHelper
<1>3. CASE ReturnBlock
  BY <1>3, ReturnTells DEF ReturnBlock, Running
<1>4. CASE ReturnScope
  BY <1>4, ReturnTells DEF ReturnScope, Running
<1>5. CASE ReturnPartial
  BY <1>5, ReturnTells DEF ReturnPartial, Running
<1>6. CASE ReturnInline
  BY <1>6, ReturnTells DEF ReturnInline, Running
<1>7. CASE ReturnFn
  BY <1>7, ReturnTells DEF ReturnFn, Running
<1>8. CASE ReturnRoot
  BY <1>8, ReturnTells DEF ReturnRoot, Running
<1> QED
  BY <1>1, <1>2, <1>3, <1>4, <1>5, <1>6, <1>7, <1>8 DEF Resume

LEMMA NotWrong == ASSUME Telling, InlinesAlive \/ Undeclared, GoWrong PROVE FALSE
<1>1. status = "running" /\ ~Finished /\ Illegal(Stmt)
  BY DEF GoWrong, Running
<1>2. Stmt \in Node
  <2>1. IsActivation(Top) /\ errs[Len(errs)] \in BOOLEAN
    BY <1>1, StateFacts DEF Telling
  <2>2. Top.code \in Seq(Node) /\ Top.pc \in Nat \ {0}
    BY <2>1 DEF IsActivation
  <2>3. ~(Top.pc > Len(Top.code))
    BY <1>1, <2>1 DEF Finished
  <2>4. Top.pc \in 1..Len(Top.code)
    BY <2>2, <2>3, LenProperties
  <2> QED
    BY <2>2, <2>4, ElementOfSeq DEF Stmt
<1> QED
  BY <1>1, <1>2, NeverIllegal DEF Telling

LEMMA StepTells == ASSUME IInv, LInv, DInv, Sound, InlinesAlive \/ Undeclared, [Next]_vars PROVE DInv'
<1>0. Telling
  BY DEF Telling
<1>1. CASE UNCHANGED vars
  BY <1>1 DEF DInv, vars
<1>2. CASE RenderText \/ RenderComment \/ RenderLookup \/ RenderLog \/ RenderValue
  BY <1>0, <1>2, ProduceTells DEF RenderText, RenderComment, RenderLookup, RenderLog, RenderValue
<1>3. CASE RenderRaw
  BY <1>0, <1>3, ProduceTells DEF RenderRaw
<1>4. CASE RenderNoPartial \/ RenderNamelessBlock
  BY <1>0, <1>4, ProduceTells DEF RenderNoPartial, RenderNamelessBlock
<1>5. CASE RenderMissing \/ RenderIf \/ RenderWith \/ RenderEach \/ RenderUnknown \/ RenderHelper
  BY <1>0, <1>5, MissingTells, IfTells, WithTells, EachTells, UnknownTells, HelperTells
<1>6. CASE RenderYield \/ RenderInline \/ RenderPartial \/ RenderPartialBlock \/ RegisterInline
  BY <1>0, <1>6, YieldTells, InlineTells, PartialTells, PartialBlockTells, RegisterTells
<1>7. CASE GoWrong
  BY <1>0, <1>7, NotWrong
<1>8. CASE Resume
  BY <1>0, <1>8, ResumeTells
<1> QED
  BY <1>1, <1>2, <1>3, <1>4, <1>5, <1>6, <1>7, <1>8 DEF Next, Statement

LEMMA InitDefined == ASSUME Init, Sound PROVE DInv
<1>1. Len(ctl) = 1 /\ ctl[1].value = Null /\ ctl[1].kind = "root"
  BY DEF Init
<1>2. Len(frames) = 1 /\ frames[1] = NewFrame(job.ctx) /\ job \in Job
  BY DEF Init
<1>3. Sees(ctl[1])
  BY <1>1, ScalarsDefined DEF Sees
<1>4. Bound(frames[1])
  BY <1>2, NewBound DEF Sound, JobDefined
<1>5. \A i \in 1..1 : i = 1
  OBVIOUS
<1> QED
  BY <1>1, <1>2, <1>3, <1>4, <1>5 DEF DInv, Init

(* A call never runs into undefined behaviour where its templates declare  *)
(* no more block parameters than with and each fill in (block_params and   *)
(* block_param_count of hbs_context_frame_t, in src/render.c) and no       *)
(* inline partial can outlive its template.                                *)
THEOREM WellDefined == Spec => [](Sound => status # "undefined")
<1>1. Init => RInv /\ Settled /\ HInv /\ VInv /\ (Sound => DInv)
  BY InitInvariant, InitLoops, InitBalanced, InitHoused, InitShared, InitDefined DEF RInv, Settled, Init
<1>2. RInv /\ Settled /\ HInv /\ IInv' /\ [Next]_vars => RInv' /\ Settled' /\ HInv'
  BY StepLoops, StepBalanced, StepSettled, StepHoused DEF RInv
<1>3. RInv /\ HInv /\ HInv' /\ [Next]_vars /\ (Framed => VInv) => (Framed => VInv')
  BY StepShared DEF RInv
<1>4. RInv /\ Settled /\ (Framed => VInv) /\ (Sound => DInv) /\ [Next]_vars => (Sound => DInv')
  BY SharedAlive, StepTells DEF RInv, Sound
<1>5. (Framed => Framed') /\ (Framed' => Framed)
  BY DEF Framed, NeedsFrame
<1>6. Sound' => Sound
  BY <1>5 DEF Sound, WellFormed, Undeclared, JobDefined, Expression, Simple, IsPathTo, Stack,
              Builtin, NamesHelper, NameOf, Defined, Sealed
<1>7. (Sound => DInv) => (Sound => status # "undefined")
  BY DEF DInv
<1> QED
  BY Invariant, <1>1, <1>2, <1>3, <1>4, <1>5, <1>6, <1>7, PTL DEF Spec

=============================================================================
