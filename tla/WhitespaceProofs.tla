-------------------------- MODULE WhitespaceProofs --------------------------
(***************************************************************************)
(* Theorems about the whitespace passes, for all templates: whatever the   *)
(* edits, in whatever order they come, only whitespace is removed; texts   *)
(* stay texts; where no tag has a ~ a partial's indentation is what was    *)
(* cut from the end of the text before it; and the passes end with what    *)
(* the written lines say, in all templates but Abrupt, Crowded and         *)
(* Embedded ones.                                                          *)
(***************************************************************************)
EXTENDS Whitespace, FoldLemmas

Char == White \cup {"x"}

-----------------------------------------------------------------------------
(* A text with as many characters other than whitespace as another.        *)
AsSolid(u, t) == u \in Seq(Char) /\ Cardinality(Solid(u)) = Cardinality(Solid(t))

(* A piece of a text that has all of its characters other than whitespace  *)
(* is a text with as many of them.                                         *)
LEMMA PieceKeepsSolid ==
    ASSUME NEW t \in Seq(Char), NEW a \in Nat \ {0}, NEW b \in Nat, b <= Len(t),
           Solid(t) \subseteq a..b
    PROVE  AsSolid(SubSeq(t, a, b), t)
<1> DEFINE u == SubSeq(t, a, b)
           f == [i \in Solid(t) |-> i - a + 1]
<1>1. /\ u \in Seq(Char)
      /\ Len(u) = IF a <= b THEN b - a + 1 ELSE 0
      /\ \A i \in 1..Len(u) : u[i] = t[a + i - 1]
  <2>1. a \in Int /\ b \in Int /\ \A i \in a..b : t[i] \in Char
    BY ElementOfSeq
  <2> QED
    BY <2>1, SubSeqProperties
<1> HIDE DEF u
<1>2. Solid(t) \subseteq 1..Len(t) /\ IsFiniteSet(Solid(t))
  <2>1. Solid(t) \subseteq 1..Len(t) /\ Len(t) \in Nat
    BY DEF Solid
  <2>2. 1 \in Int /\ Len(t) \in Int
    OBVIOUS
  <2>3. IsFiniteSet(1..Len(t))
    BY <2>2, FS_Interval
  <2>4. Solid(t) \in SUBSET (1..Len(t))
    BY <2>1
  <2> QED
    BY <2>1, <2>3, <2>4, FS_Subset
<1>3. \A i \in Solid(t) : i - a + 1 \in Solid(u)
  <2> TAKE i \in Solid(t)
  <2>1. i \in a..b /\ t[i] \notin White
    BY DEF Solid
  <2> DEFINE k == i - a + 1
  <2>2. k \in 1..Len(u) /\ a + k - 1 = i
    BY <1>1, <2>1
  <2> HIDE DEF k
  <2>3. u[k] = t[i]
    BY <1>1, <2>2
  <2> QED
    BY <2>1, <2>2, <2>3 DEF Solid, k
<1>4. \A j \in Solid(u) : j + a - 1 \in Solid(t)
  BY <1>1 DEF Solid
<1>5. f \in Bijection(Solid(t), Solid(u))
  <2>1. f \in [Solid(t) -> Solid(u)]
    BY <1>3
  <2>2. \A i, j \in Solid(t) : f[i] = f[j] => i = j
    BY <1>2
  <2>3. \A j \in Solid(u) : \E i \in Solid(t) : f[i] = j
    <3> TAKE j \in Solid(u)
    <3>1. j \in Int /\ j + a - 1 \in Solid(t)
      BY <1>4 DEF Solid
    <3> QED
      BY <3>1
  <2> QED
    BY <2>1, <2>2, <2>3 DEF Bijection, Injection, Surjection, IsInjective
<1>6. ExistsBijection(Solid(t), Solid(u))
  BY <1>5 DEF ExistsBijection
<1> QED
  BY <1>1, <1>2, <1>6, FS_Bijection DEF u, AsSolid

(* The last line begins, the first line ends, at a place of the text.      *)
LEMMA LastNewlineTyped ==
    ASSUME NEW t \in Seq(Char) PROVE LastNewline(t) \in 0..Len(t)
<1>1. Len(t) \in Nat /\ Newlines(t) \in SUBSET (1..Len(t))
  BY DEF Newlines
<1>2. CASE Newlines(t) = {}
  BY <1>1, <1>2 DEF LastNewline
<1>3. CASE Newlines(t) # {}
  <2>1. LastNewline(t) \in Newlines(t)
    BY <1>1, <1>3, LastIsMax DEF LastNewline
  <2> QED
    BY <1>1, <2>1
<1> QED
  BY <1>2, <1>3

(* What apply_strip keeps of a text that ends, or begins, with the rest of *)
(* a tag's line.                                                           *)
LEMMA KeptIsSolid ==
    ASSUME NEW t \in Seq(Char), NEW first, EndsLine(t, first)
    PROVE  AsSolid(SubSeq(t, 1, LastNewline(t)), t)
<1> DEFINE k == LastNewline(t)
<1>1. Len(t) \in Nat /\ Newlines(t) \in SUBSET (1..Len(t))
  BY DEF Newlines
<1>2. k \in 0..Len(t)
  BY LastNewlineTyped
<1>3. \A i \in (k + 1)..Len(t) : t[i] \in Blank
  BY DEF EndsLine, Blanks
<1> HIDE DEF k
<1>4. Solid(t) \subseteq 1..k
  BY <1>1, <1>2, <1>3 DEF Solid, White, Blank
<1>5. AsSolid(SubSeq(t, 1, k), t)
  BY <1>1, <1>2, <1>4, PieceKeepsSolid
<1> QED
  BY <1>5 DEF k

LEMMA LineEndTyped ==
    ASSUME NEW t \in Seq(Char) PROVE LineEnd(t) \in 0..Len(t)
<1>1. Len(t) \in Nat /\ Newlines(t) \in SUBSET (1..Len(t))
  BY DEF Newlines
<1>2. CASE Newlines(t) = {}
  BY <1>1, <1>2 DEF LineEnd
<1>3. CASE Newlines(t) # {}
  <2>1. LineEnd(t) \in Newlines(t)
    BY <1>1, <1>3, FirstIsMin DEF LineEnd
  <2> QED
    BY <1>1, <2>1
<1> QED
  BY <1>2, <1>3

LEMMA RestIsSolid ==
    ASSUME NEW t \in Seq(Char), NEW last, BeginsLine(t, last)
    PROVE  AsSolid(SubSeq(t, LineEnd(t) + 1, Len(t)), t)
<1> DEFINE k == LineEnd(t)
<1>1. Len(t) \in Nat /\ Newlines(t) \in SUBSET (1..Len(t))
  BY DEF Newlines
<1>2. k \in 0..Len(t)
  BY LineEndTyped
<1>3. \A i \in 1..k : t[i] \in White
  <2>1. CASE Newlines(t) = {}
    BY <2>1 DEF BeginsLine, Blanks, LineEnd, White, Blank
  <2>2. CASE Newlines(t) # {}
    <3>1. k \in Newlines(t)
      BY <1>1, <2>2, FirstIsMin DEF LineEnd
    <3>2. \A i \in 1..(k - 1) : t[i] \in Blank
      BY <2>2 DEF BeginsLine, Blanks
    <3> HIDE DEF k
    <3> QED
      BY <1>2, <3>1, <3>2 DEF Newlines, White, Blank
  <2> QED
    BY <2>1, <2>2
<1> HIDE DEF k
<1>4. Solid(t) \subseteq (k + 1)..Len(t)
  BY <1>1, <1>2, <1>3 DEF Solid
<1>5. k + 1 \in Nat \ {0}
  BY <1>2
<1>6. AsSolid(SubSeq(t, k + 1, Len(t)), t)
  BY <1>1, <1>4, <1>5, PieceKeepsSolid
<1> QED
  BY <1>6 DEF k

(* What the ~ of a neighbour leaves of a text.                             *)
LEMMA TrimmedIsSolid ==
    ASSUME NEW t \in Seq(Char)
    PROVE  AsSolid(WithoutLeading(t), t) /\ AsSolid(WithoutTrailing(t), t)
<1>1. Len(t) \in Nat /\ Solid(t) \in SUBSET (1..Len(t))
  BY DEF Solid
<1>2. CASE Solid(t) = {}
  <2>1. Solid(<<>>) = {} /\ <<>> \in Seq(Char)
    BY DEF Solid
  <2> QED
    BY <1>2, <2>1 DEF WithoutLeading, WithoutTrailing, AsSolid
<1>3. CASE Solid(t) # {}
  <2> DEFINE a == Min(Solid(t))
             b == Max(Solid(t))
  <2>1. a \in 1..Len(t) /\ \A i \in Solid(t) : a <= i
    BY <1>1, <1>3, FirstIsMin
  <2>2. b \in 1..Len(t) /\ \A i \in Solid(t) : i <= b
    BY <1>1, <1>3, LastIsMax
  <2> HIDE DEF a, b
  <2>3. AsSolid(SubSeq(t, a, Len(t)), t)
    <3>1. a \in Nat \ {0} /\ Solid(t) \subseteq a..Len(t)
      BY <1>1, <2>1
    <3> QED
      BY <1>1, <3>1, PieceKeepsSolid
  <2>4. AsSolid(SubSeq(t, 1, b), t)
    <3>1. b \in Nat /\ b <= Len(t) /\ Solid(t) \subseteq 1..b
      BY <1>1, <2>2
    <3> QED
      BY <3>1, PieceKeepsSolid
  <2> QED
    BY <1>3, <2>3, <2>4 DEF WithoutLeading, WithoutTrailing, a, b
<1> QED
  BY <1>2, <1>3

-----------------------------------------------------------------------------
(* The invariant: texts stay texts, as solid as they were written.         *)
TextsSolid ==
    /\ source \in Seq(Item)
    /\ text \in [1..Len(source) -> Seq(Char)]
    /\ \A q \in 1..Len(source) : AsSolid(text[q], Original(q))

LEMMA TextsSolidInit == Init => TextsSolid
<1> SUFFICES ASSUME Init PROVE TextsSolid
  OBVIOUS
<1>1. source \in Seq(Item)
  BY ShapesAssumption DEF Init
<1>2. \A q \in 1..Len(source) : source[q].chars \in Seq(Char)
  <2> TAKE q \in 1..Len(source)
  <2>1. source[q] \in Item
    BY <1>1, ElementOfSeq
  <2> QED
    BY <2>1 DEF Item, Char
<1> QED
  BY <1>1, <1>2 DEF Init, TextsSolid, AsSolid, Original

(* An edit that replaces each text by one as solid keeps the invariant.    *)
LEMMA SolidEdit ==
    ASSUME TextsSolid, UNCHANGED source, text' = [q \in DOMAIN text |-> text'[q]],
           \A q \in DOMAIN text : text[q] \in Seq(Char) => AsSolid(text'[q], text[q])
    PROVE  TextsSolid'
BY DEF TextsSolid, AsSolid, Original

LEMMA TextsSolidTry ==
    ASSUME TextsSolid, NEW op, Try(op)
    PROVE  TextsSolid'
<1> DEFINE p == Head(todo).at
<1>1. CASE Standalone(p)
  <2>1. text' = Cut(p)
    BY <1>1 DEF Try
  <2> HIDE DEF p
  <2>2. ASSUME NEW q \in DOMAIN text, text[q] \in Seq(Char)
        PROVE  AsSolid(Cut(p)[q], text[q])
    <3>1. CASE q = Before(p) /\ Is(source, q, {"text"})
      <4>1. EndsLine(text[q], AtStart(source, Before(p)))
        BY <1>1, <3>1 DEF Standalone, PrevOk
      <4>2. AsSolid(SubSeq(text[q], 1, LastNewline(text[q])), text[q])
        BY <2>2, <4>1, KeptIsSolid
      <4> QED
        BY <2>2, <3>1, <4>2 DEF Cut, Kept
    <3>2. CASE q # Before(p) /\ q = After(p) /\ Is(source, q, {"text"})
      <4>1. BeginsLine(text[q], AtEnd(source, After(p)))
        BY <1>1, <3>2 DEF Standalone, NextOk
      <4>2. AsSolid(SubSeq(text[q], LineEnd(text[q]) + 1, Len(text[q])), text[q])
        BY <2>2, <4>1, RestIsSolid
      <4> QED
        BY <2>2, <3>2, <4>2 DEF Cut, Skipped
    <3>3. CASE ~Is(source, q, {"text"}) \/ (q # Before(p) /\ q # After(p))
      BY <2>2, <3>3 DEF Cut, AsSolid
    <3> QED
      BY <3>1, <3>2, <3>3
  <2>3. text' = [q \in DOMAIN text |-> text'[q]]
    BY <2>1 DEF Cut
  <2> QED
    BY <2>1, <2>2, <2>3, SolidEdit DEF Try
<1>2. CASE ~Standalone(p)
  <2>1. UNCHANGED <<source, text>>
    BY <1>2 DEF Try
  <2> QED
    BY <2>1 DEF TextsSolid, Original
<1> QED
  BY <1>1, <1>2

LEMMA TextsSolidTrim ==
    ASSUME TextsSolid, TrimLeading \/ TrimTrailing
    PROVE  TextsSolid'
<1> DEFINE p == Head(todo).at
<1>1. text' = [q \in DOMAIN text |-> text'[q]] /\ UNCHANGED source
  <2>1. text = [q \in DOMAIN text |-> text[q]]
    BY DEF TextsSolid
  <2> QED
    BY <2>1 DEF TrimLeading, TrimTrailing, Trim
<1>2. ASSUME NEW q \in DOMAIN text, text[q] \in Seq(Char)
      PROVE  AsSolid(text'[q], text[q])
  <2>1. CASE q # p
    <3>1. text'[q] = text[q]
      BY <1>2, <2>1 DEF TrimLeading, TrimTrailing, Trim
    <3> QED
      BY <1>2, <3>1 DEF AsSolid
  <2>2. CASE q = p
    <3>1. text'[q] = WithoutLeading(text[q]) \/ text'[q] = WithoutTrailing(text[q])
      BY <1>2, <2>2 DEF TrimLeading, TrimTrailing, Trim
    <3> QED
      BY <1>2, <3>1, TrimmedIsSolid
  <2> QED
    BY <2>1, <2>2
<1> QED
  BY <1>1, <1>2, SolidEdit

(* Neither pass ever loses a character that is not whitespace              *)
(* (standalone_strip, src/src/render.c:1469; tilde_strip,                   *)
(* src/src/render.c:1562), for all templates: each cut is computed from     *)
(* the text it is made in, whatever earlier ones left of it.               *)
THEOREM Solidity == Spec => []OnlyWhitespaceLost
<1>1. Init => TextsSolid
  BY TextsSolidInit
<1>2. TextsSolid /\ [Next]_vars => TextsSolid'
  <2> SUFFICES ASSUME TextsSolid, [Next]_vars PROVE TextsSolid'
    OBVIOUS
  <2>1. ASSUME NEW op, Try(op) PROVE TextsSolid'
    BY <2>1, TextsSolidTry
  <2>2. CASE TrimLeading \/ TrimTrailing
    BY <2>2, TextsSolidTrim
  <2>3. CASE UNCHANGED vars
    BY <2>3 DEF vars, TextsSolid, Original
  <2> QED
    BY <2>1, <2>2, <2>3 DEF Next, StripSimple, StripOpen, StripElse, StripClose
<1>3. TextsSolid => OnlyWhitespaceLost
  BY DEF TextsSolid, OnlyWhitespaceLost, AsSolid
<1> QED
  BY <1>1, <1>2, <1>3, PTL DEF Spec

-----------------------------------------------------------------------------
(* The edits of the two passes are at items of the template.               *)
Ops == {"simple", "open", "else", "close", "leading", "trailing"}
Edits(src) == [op : Ops, at : 1..Len(src)]

LEMMA EditTyped ==
    ASSUME NEW src, NEW op \in Ops, NEW at \in 1..Len(src)
    PROVE  Edit(op, at) \in Seq(Edits(src))
BY DEF Edit, Edits

LEMMA CloseOfTyped ==
    ASSUME NEW shape \in Shapes, NEW src \in shape, NEW p \in 1..Len(src), Is(src, p, Openers)
    PROVE  CloseOf(src, p) \in Parts(src, p, Closers) /\ CloseOf(src, p) \in (p + 1)..Len(src)
<1>1. Parts(src, p, Closers) # {} /\ Parts(src, p, Closers) \subseteq (p + 1)..Len(src)
  BY ClosedAssumption DEF Parts
<1>2. Len(src) \in Nat /\ (p + 1)..Len(src) \subseteq 1..Len(src)
  <2>1. src \in Seq(Item)
    BY ShapesAssumption
  <2> QED
    BY <2>1, LenProperties
<1>3. CloseOf(src, p) \in Parts(src, p, Closers)
  BY <1>1, <1>2, FirstIsMin DEF CloseOf
<1> QED
  BY <1>1, <1>3

LEMMA AttemptsTyped ==
    ASSUME NEW shape \in Shapes, NEW src \in shape, NEW p \in 1..Len(src)
    PROVE  Attempts(src, p) \in Seq(Edits(src))
<1> DEFINE elses == [q \in 1..Len(src) |-> IF q \in ElsesOf(src, p) THEN Edit("else", q) ELSE <<>>]
<1>1. <<>> \in Seq(Edits(src))
  OBVIOUS
<1>2. Len(src) \in Nat
  BY ShapesAssumption, LenProperties
<1>3. Edit("simple", p) \in Seq(Edits(src)) /\ Edit("open", p) \in Seq(Edits(src))
  BY EditTyped DEF Ops
<1>4. FlattenSeq(elses) \in Seq(Edits(src))
  <2>1. ASSUME NEW q \in 1..Len(src)
        PROVE  (IF q \in ElsesOf(src, p) THEN Edit("else", q) ELSE <<>>) \in Seq(Edits(src))
    BY <1>1, EditTyped DEF Ops
  <2>2. elses \in Seq(Seq(Edits(src)))
    BY <1>2, <2>1, SeqDef
  <2> QED
    BY <2>2, FlattenIn
<1>5. CASE Is(src, p, {"open"}) /\ ~Hidden(src, p)
  <2>1. Is(src, p, Openers)
    BY <1>5 DEF Is, Openers
  <2>2. CloseOf(src, p) \in (p + 1)..Len(src)
    BY <2>1, CloseOfTyped
  <2>3. CloseOf(src, p) \in 1..Len(src)
    BY <1>2, <2>2
  <2>4. Edit("close", CloseOf(src, p)) \in Seq(Edits(src))
    BY <2>3, EditTyped DEF Ops
  <2>5. Attempts(src, p) = Edit("open", p) \o FlattenSeq(elses) \o Edit("close", CloseOf(src, p))
    BY <1>5 DEF Attempts, Is
  <2> HIDE DEF elses
  <2>6. Edit("open", p) \o FlattenSeq(elses) \in Seq(Edits(src))
    BY <1>3, <1>4, ConcatProperties
  <2> QED
    BY <2>4, <2>5, <2>6, ConcatProperties
<1>6. CASE Is(src, p, {"comment", "partial", "inline"}) /\ ~Hidden(src, p)
  BY <1>3, <1>6 DEF Attempts, Is
<1>7. CASE Hidden(src, p)
  BY <1>1, <1>7 DEF Attempts
<1>8. CASE /\ ~Hidden(src, p)
           /\ ~Is(src, p, {"open"}) /\ ~Is(src, p, {"comment", "partial", "inline"})
  BY <1>1, <1>8 DEF Attempts
<1> QED
  BY <1>5, <1>6, <1>7, <1>8

LEMMA SideTyped ==
    ASSUME NEW src, NEW p, NEW flag, NEW op \in Ops, NEW at
    PROVE  Side(src, p, flag, op, at) \in Seq(Edits(src))
<1>1. CASE flag /\ Is(src, at, {"text"})
  <2>1. at \in 1..Len(src)
    BY <1>1 DEF Is
  <2>2. Edit(op, at) \in Seq(Edits(src))
    BY <2>1, EditTyped
  <2> QED
    BY <1>1, <2>2 DEF Side
<1>2. CASE ~(flag /\ Is(src, at, {"text"}))
  BY <1>2 DEF Side
<1> QED
  BY <1>1, <1>2

LEMMA TildesTyped ==
    ASSUME NEW src, NEW p PROVE Tildes(src, p) \in Seq(Edits(src))
<1>1. ASSUME NEW q PROVE Both(src, q) \in Seq(Edits(src))
  <2>1. Side(src, q, src[q].left, "trailing", q - 1) \in Seq(Edits(src))
    BY SideTyped DEF Ops
  <2>2. Side(src, q, src[q].right, "leading", q + 1) \in Seq(Edits(src))
    BY SideTyped DEF Ops
  <2> QED
    BY <2>1, <2>2, ConcatProperties DEF Both
<1>2. <<>> \in Seq(Edits(src))
  OBVIOUS
<1>3. Both(src, p) \in Seq(Edits(src)) /\ Both(src, CloseOf(src, p)) \in Seq(Edits(src))
  BY <1>1
<1>4. Both(src, p) \o Both(src, CloseOf(src, p)) \in Seq(Edits(src))
  BY <1>3, ConcatProperties
<1> QED
  BY <1>2, <1>3, <1>4 DEF Tildes

LEMMA PassesTyped ==
    ASSUME NEW shape \in Shapes, NEW src \in shape
    PROVE  FirstPass(src) \o SecondPass(src) \in Seq(Edits(src))
<1> DEFINE E == Edits(src)
<1>1. Len(src) \in Nat
  BY ShapesAssumption, LenProperties
<1>2. /\ \A p \in 1..Len(src) : Attempts(src, p) \in Seq(E)
      /\ \A p \in 1..Len(src) : Tildes(src, p) \in Seq(E)
  BY AttemptsTyped, TildesTyped
<1> HIDE DEF E
<1>3. FirstPass(src) \in Seq(E)
  <2>1. [p \in 1..Len(src) |-> Attempts(src, p)] \in Seq(Seq(E))
    BY <1>1, <1>2, SeqDef
  <2> QED
    BY <2>1, FlattenIn DEF FirstPass
<1>4. SecondPass(src) \in Seq(E)
  <2>1. [p \in 1..Len(src) |-> Tildes(src, p)] \in Seq(Seq(E))
    BY <1>1, <1>2, SeqDef
  <2> QED
    BY <2>1, FlattenIn DEF SecondPass
<1> QED
  BY <1>3, <1>4, ConcatProperties DEF E

(* The invariant, with all that a step needs to know of the template.      *)
WInv ==
    /\ \E shape \in Shapes : source \in shape
    /\ TextsSolid
    /\ indent \in [1..Len(source) -> Seq(Blank)]
    /\ todo \in Seq(Edits(source))

LEMMA WInvTypes == WInv => WhitespaceTypeOK
<1> SUFFICES ASSUME WInv PROVE WhitespaceTypeOK
  OBVIOUS
<1>1. source \in Seq(Item) /\ DOMAIN source = 1..Len(source)
  BY LenProperties DEF WInv, TextsSolid
<1>2. text \in [1..Len(source) -> Seq(White \cup {"x"})]
  BY DEF WInv, TextsSolid, Char
<1>3. \A i \in DOMAIN todo : todo[i].at \in DOMAIN source
  <2>1. \A i \in DOMAIN todo : todo[i] \in Edits(source)
    BY LenProperties DEF WInv
  <2> QED
    BY <1>1, <2>1 DEF Edits
<1> QED
  BY <1>1, <1>2, <1>3 DEF WInv, WhitespaceTypeOK

LEMMA WInvInit == Init => WInv
<1> SUFFICES ASSUME Init PROVE WInv
  OBVIOUS
<1>1. PICK shape \in Shapes : source \in shape
  BY DEF Init
<1>2. TextsSolid
  BY TextsSolidInit
<1>3. indent \in [1..Len(source) -> Seq(Blank)]
  BY DEF Init
<1>4. todo \in Seq(Edits(source))
  BY <1>1, PassesTyped DEF Init
<1> QED
  BY <1>1, <1>2, <1>3, <1>4 DEF WInv

(* The indentation of a standalone partial is the blank end of its line:   *)
(* the check that found it standalone has seen that it is.                 *)
LEMMA IndentedTyped ==
    ASSUME WInv, NEW p \in 1..Len(source), Standalone(p)
    PROVE  Indented(p) \in [1..Len(source) -> Seq(Blank)]
<1> DEFINE t == text[Before(p)]
           k == LastNewline(t)
<1>1. CASE source[p].kind = "partial" /\ Is(source, Before(p), {"text"})
  <2>1. t \in Seq(Char) /\ EndsLine(t, AtStart(source, Before(p)))
    BY <1>1 DEF WInv, TextsSolid, Is, Standalone, PrevOk
  <2> HIDE DEF t
  <2>2. k \in 0..Len(t)
    BY <2>1, LastNewlineTyped
  <2>3. \A i \in (k + 1)..Len(t) : t[i] \in Blank
    BY <2>1 DEF EndsLine, Blanks
  <2>4. Len(t) \in Nat
    BY <2>1, LenProperties
  <2> HIDE DEF k
  <2>5. SubSeq(t, k + 1, Len(t)) \in Seq(Blank)
    <3>1. k + 1 \in Int /\ Len(t) \in Int
      BY <2>2, <2>4
    <3> QED
      BY <2>3, <3>1, SubSeqProperties
  <2>6. Indented(p) = [indent EXCEPT ![p] = SubSeq(t, k + 1, Len(t))]
    BY <1>1 DEF Indented, Kept, t, k
  <2> QED
    BY <2>5, <2>6 DEF WInv
<1>2. CASE ~(source[p].kind = "partial" /\ Is(source, Before(p), {"text"}))
  BY <1>2 DEF Indented, WInv
<1> QED
  BY <1>1, <1>2

LEMMA WInvTry ==
    ASSUME WInv, NEW op, Try(op)
    PROVE  WInv'
<1> DEFINE p == Head(todo).at
<1>1. TextsSolid'
  BY TextsSolidTry DEF WInv
<1>2. UNCHANGED source /\ todo' = Tail(todo) /\ todo # <<>>
  BY DEF Try
<1>3. todo' \in Seq(Edits(source)) /\ p \in 1..Len(source)
  <2>1. Tail(todo) \in Seq(Edits(source)) /\ Head(todo) \in Edits(source)
    BY <1>2, HeadTailProperties DEF WInv
  <2> QED
    BY <1>2, <2>1 DEF Edits
<1>4. indent' \in [1..Len(source) -> Seq(Blank)]
  <2>1. CASE Standalone(p)
    BY <1>3, <2>1, IndentedTyped DEF Try
  <2>2. CASE ~Standalone(p)
    BY <2>2 DEF Try, WInv
  <2> QED
    BY <2>1, <2>2
<1> QED
  BY <1>1, <1>2, <1>3, <1>4 DEF WInv, Edits

LEMMA WInvTrim ==
    ASSUME WInv, TrimLeading \/ TrimTrailing
    PROVE  WInv'
<1>1. TextsSolid'
  BY TextsSolidTrim DEF WInv
<1>2. UNCHANGED <<source, indent>> /\ todo' = Tail(todo) /\ todo # <<>>
  BY DEF TrimLeading, TrimTrailing, Trim
<1>3. todo' \in Seq(Edits(source))
  BY <1>2, HeadTailProperties DEF WInv
<1> QED
  BY <1>1, <1>2, <1>3 DEF WInv, Edits

LEMMA WInvStep ==
    ASSUME WInv, [Next]_vars
    PROVE  WInv'
<1>1. ASSUME NEW op, Try(op) PROVE WInv'
  BY <1>1, WInvTry
<1>2. CASE TrimLeading \/ TrimTrailing
  BY <1>2, WInvTrim
<1>3. CASE UNCHANGED vars
  BY <1>3 DEF vars, WInv, TextsSolid, Original, Edits
<1> QED
  BY <1>1, <1>2, <1>3 DEF Next, StripSimple, StripOpen, StripElse, StripClose

(* Through both passes every text stays a string, every edit left is at an *)
(* item of the template, and indentation is made of blanks                 *)
(* (standalone_strip, src/src/render.c:1469), for all templates.           *)
THEOREM TextsTyped == Spec => []WhitespaceTypeOK
<1>1. Init => WInv
  BY WInvInit
<1>2. WInv /\ [Next]_vars => WInv'
  BY WInvStep
<1>3. WInv => WhitespaceTypeOK
  BY WInvTypes
<1> QED
  BY <1>1, <1>2, <1>3, PTL DEF Spec


-----------------------------------------------------------------------------
(* Where no tag has a ~ there are only attempts, and the partials come in  *)
(* order, each once.                                                       *)
Untilded(src) == \A p \in DOMAIN src : ~src[p].left /\ ~src[p].right
Tries(src) == [op : {"simple", "open", "else", "close"}, at : 1..Len(src)]

Partial(src, list, i) == Is(src, list[i].at, {"partial"})
OneByOne(src, list) ==
    \A i, j \in 1..Len(list) :
        i < j /\ Partial(src, list, i) /\ Partial(src, list, j) => list[i].at < list[j].at

(* What a partial has still to be tried for is not yet indented, and its   *)
(* indentation is what is missing from the text before it at its end.      *)
Ending(S, s, t) == \E u \in Seq(S) : t = u \o s

Indenting ==
    /\ todo \in Seq(Tries(source)) /\ OneByOne(source, todo)
    /\ \A p \in 1..Len(source) : source[p].kind = "partial" =>
          /\ (\E i \in 1..Len(todo) : todo[i].at = p) => indent[p] = <<>>
          /\ Is(source, p - 1, {"text"}) => Ending(Char, text[p - 1] \o indent[p], Original(p - 1))

(* Texts at the end of others.                                             *)
LEMMA EndingIsSuffix ==
    ASSUME NEW s \in Seq(Char), NEW u \in Seq(Char) PROVE IsSuffix(s, u \o s)
<1> DEFINE t == u \o s
           m == Len(u)
           n == Len(s)
<1>1. /\ m \in Nat /\ n \in Nat /\ t \in Seq(Char) /\ Len(t) = m + n
      /\ \A i \in 1..(m + n) : t[i] = IF i <= m THEN u[i] ELSE s[i - m]
  BY ConcatProperties
<1> HIDE DEF m, n, t
<1> DEFINE rs == [i \in 1..n |-> s[(n - i) + 1]]
           rt == [i \in 1..(m + n) |-> t[((m + n) - i) + 1]]
<1>2. Reverse(s) = rs /\ Reverse(t) = rt
  BY <1>1 DEF Reverse, n
<1>3. rs \in Seq(Char) /\ Len(rs) = n
  <2>1. \A i \in 1..n : (n - i) + 1 \in 1..n
    BY <1>1
  <2>2. \A i \in 1..n : s[i] \in Char
    BY ElementOfSeq DEF n
  <2>3. \A i \in 1..n : s[(n - i) + 1] \in Char
    BY <2>1, <2>2
  <2> QED
    BY <1>1, <2>3
<1>4. rt \in Seq(Char) /\ Len(rt) = m + n
  <2>1. \A i \in 1..(m + n) : ((m + n) - i) + 1 \in 1..(m + n)
    BY <1>1
  <2>2. \A i \in 1..(m + n) : t[i] \in Char
    BY <1>1, ElementOfSeq
  <2>3. \A i \in 1..(m + n) : t[((m + n) - i) + 1] \in Char
    BY <2>1, <2>2
  <2> QED
    BY <1>1, <2>3
<1>5. ASSUME NEW i \in 1..n PROVE rs[i] = rt[i]
  <2> DEFINE k == ((m + n) - i) + 1
  <2>1. k \in 1..(m + n) /\ ~(k <= m) /\ k - m = (n - i) + 1 /\ i \in 1..(m + n)
    BY <1>1
  <2>2. t[k] = s[k - m]
    BY <1>1, <2>1
  <2>3. rt[i] = t[k] /\ rs[i] = s[(n - i) + 1]
    BY <2>1
  <2> QED
    BY <2>1, <2>2, <2>3
<1> HIDE DEF rs, rt
<1>6. SubSeq(rs, 1, n) = SubSeq(rt, 1, n)
  <2>1. 1 \in Int /\ n \in Int /\ \A i \in 1..n : rs[i] \in Char /\ rt[i] \in Char
    <3>1. \A i \in 1..n : rs[i] \in Char
      BY <1>3, ElementOfSeq
    <3> QED
      BY <1>1, <1>5, <3>1
  <2>2. /\ SubSeq(rs, 1, n) \in Seq(Char) /\ Len(SubSeq(rs, 1, n)) = n
        /\ \A i \in 1..n : SubSeq(rs, 1, n)[i] = rs[i]
    BY <1>1, <2>1, SubSeqProperties
  <2>3. /\ SubSeq(rt, 1, n) \in Seq(Char) /\ Len(SubSeq(rt, 1, n)) = n
        /\ \A i \in 1..n : SubSeq(rt, 1, n)[i] = rt[i]
    BY <1>1, <2>1, SubSeqProperties
  <2> QED
    BY <1>5, <2>2, <2>3, SeqEqual
<1> QED
  BY <1>1, <1>2, <1>3, <1>4, <1>6 DEF IsSuffix, IsPrefix, t

LEMMA SplitAt ==
    ASSUME NEW E, NEW t \in Seq(E), NEW k \in 0..Len(t)
    PROVE  /\ SubSeq(t, 1, k) \in Seq(E) /\ SubSeq(t, k + 1, Len(t)) \in Seq(E)
           /\ t = SubSeq(t, 1, k) \o SubSeq(t, k + 1, Len(t))
<1> DEFINE n == Len(t)
<1>1. n \in Nat /\ k \in 0..n /\ \A i \in 1..n : t[i] \in E
  BY ElementOfSeq
<1>2. SubSeq(t, 1, n) = t
  BY SubSeqFull
<1> HIDE DEF n
<1>3. SubSeq(t, 1, k) \in Seq(E)
  BY <1>1, SubSeqProperties
<1>4. SubSeq(t, k + 1, n) \in Seq(E)
  <2>1. k + 1 \in Int /\ n \in Int /\ \A i \in (k + 1)..n : t[i] \in E
    BY <1>1
  <2> QED
    BY <2>1, SubSeqProperties
<1>5. SubSeq(t, 1, k) \o SubSeq(t, k + 1, n) = SubSeq(t, 1, n)
  <2>1. 1 \in 1..(Len(t) + 1) /\ k \in (1 - 1)..Len(t) /\ n \in k..Len(t)
    BY <1>1 DEF n
  <2> QED
    BY <2>1, ConcatAdjacentSubSeq
<1> QED
  BY <1>2, <1>3, <1>4, <1>5 DEF n

LEMMA EndingCut ==
    ASSUME NEW E, NEW v \in Seq(E), NEW w \in Seq(E), NEW whole, Ending(E, v \o w, whole), NEW k \in 0..Len(v)
    PROVE  Ending(E, SubSeq(v, k + 1, Len(v)) \o w, whole)
<1>1. PICK h \in Seq(E) : whole = h \o (v \o w)
  BY DEF Ending
<1>2. PICK front \in Seq(E), back \in Seq(E) : v = front \o back /\ back = SubSeq(v, k + 1, Len(v))
  BY SplitAt
<1>3. PICK y \in Seq(E) : y = back \o w
  BY ConcatProperties
<1>4. (front \o back) \o w = front \o (back \o w)
  <2>1. ThreeTexts(E, front, back, w)
    BY DEF ThreeTexts
  <2>2. EitherOrder(front, back, w)
    BY <2>1, Associates
  <2> QED
    BY <2>2 DEF EitherOrder
<1>5. (h \o front) \o y = h \o (front \o y)
  <2>1. ThreeTexts(E, h, front, y)
    BY DEF ThreeTexts
  <2>2. EitherOrder(h, front, y)
    BY <2>1, Associates
  <2> QED
    BY <2>2 DEF EitherOrder
<1>6. h \o front \in Seq(E)
  BY ConcatProperties
<1>7. v \o w = front \o y
  BY <1>2, <1>3, <1>4
<1>8. whole = (h \o front) \o y
  BY <1>1, <1>5, <1>7
<1>9. Ending(E, y, whole)
  BY <1>6, <1>8 DEF Ending
<1> QED
  BY <1>2, <1>3, <1>9

LEMMA EndingMoved ==
    ASSUME NEW E, NEW t \in Seq(E), NEW whole, Ending(E, t \o <<>>, whole), NEW k \in 0..Len(t)
    PROVE  Ending(E, SubSeq(t, 1, k) \o SubSeq(t, k + 1, Len(t)), whole)
<1>1. t \o <<>> = t
  BY ConcatEmptySeq
<1> QED
  BY <1>1, SplitAt


-----------------------------------------------------------------------------
(* The attempts of the first pass.                                         *)
Others(src) == {e \in Tries(src) : ~Is(src, e.at, {"partial"})}

LEMMA OtherEdit ==
    ASSUME NEW src, NEW op \in {"simple", "open", "else", "close"}, NEW at \in 1..Len(src),
           src[at].kind # "partial"
    PROVE  Edit(op, at) \in Seq(Others(src))
BY DEF Edit, Others, Tries, Is

(* An attempt at a partial stands alone; what a block gives is at its own  *)
(* tags.                                                                   *)
LEMMA AttemptsApart ==
    ASSUME NEW shape \in Shapes, NEW src \in shape, NEW p \in 1..Len(src)
    PROVE  \/ Attempts(src, p) \in Seq(Others(src))
           \/ src[p].kind = "partial" /\ Attempts(src, p) = Edit("simple", p)
<1> DEFINE elses == [q \in 1..Len(src) |-> IF q \in ElsesOf(src, p) THEN Edit("else", q) ELSE <<>>]
<1>1. <<>> \in Seq(Others(src))
  OBVIOUS
<1>2. Len(src) \in Nat
  BY ShapesAssumption, LenProperties
<1>4. FlattenSeq(elses) \in Seq(Others(src))
  <2>1. ASSUME NEW q \in 1..Len(src)
        PROVE  (IF q \in ElsesOf(src, p) THEN Edit("else", q) ELSE <<>>) \in Seq(Others(src))
    <3>1. q \in ElsesOf(src, p) => src[q].kind # "partial"
      BY DEF ElsesOf, Parts
    <3> QED
      BY <1>1, <3>1, OtherEdit
  <2>2. elses \in Seq(Seq(Others(src)))
    BY <1>2, <2>1, SeqDef
  <2> QED
    BY <2>2, FlattenIn
<1>5. CASE Is(src, p, {"open"}) /\ ~Hidden(src, p)
  <2>1. Is(src, p, Openers) /\ src[p].kind # "partial"
    BY <1>5 DEF Is, Openers
  <2>2. CloseOf(src, p) \in Parts(src, p, Closers) /\ CloseOf(src, p) \in (p + 1)..Len(src)
    BY <2>1, CloseOfTyped
  <2>3. CloseOf(src, p) \in 1..Len(src) /\ src[CloseOf(src, p)].kind # "partial"
    BY <1>2, <2>2 DEF Parts, Closers
  <2>4. Edit("close", CloseOf(src, p)) \in Seq(Others(src)) /\ Edit("open", p) \in Seq(Others(src))
    BY <2>1, <2>3, OtherEdit
  <2>5. Attempts(src, p) = Edit("open", p) \o FlattenSeq(elses) \o Edit("close", CloseOf(src, p))
    BY <1>5 DEF Attempts, Is
  <2> HIDE DEF elses
  <2>6. Edit("open", p) \o FlattenSeq(elses) \in Seq(Others(src))
    BY <1>4, <2>4, ConcatProperties
  <2> QED
    BY <2>4, <2>5, <2>6, ConcatProperties
<1>6. CASE Is(src, p, {"comment", "partial", "inline"}) /\ ~Hidden(src, p)
  <2>1. Attempts(src, p) = Edit("simple", p)
    BY <1>6 DEF Attempts, Is
  <2> QED
    BY <2>1, OtherEdit
<1>7. CASE Hidden(src, p)
  BY <1>1, <1>7 DEF Attempts
<1>8. CASE /\ ~Hidden(src, p)
           /\ ~Is(src, p, {"open"}) /\ ~Is(src, p, {"comment", "partial", "inline"})
  BY <1>1, <1>8 DEF Attempts
<1> QED
  BY <1>5, <1>6, <1>7, <1>8

(* Without ~ the second pass has nothing to do.                            *)
LEMMA NoSecondPass ==
    ASSUME NEW shape \in Shapes, NEW src \in shape, Untilded(src)
    PROVE  SecondPass(src) = <<>>
<1>1. src \in Seq(Item) /\ Len(src) \in Nat /\ DOMAIN src = 1..Len(src)
  BY ShapesAssumption, LenProperties
<1>2. ASSUME NEW p \in 1..Len(src) PROVE Both(src, p) = <<>>
  <2>1. ~src[p].left /\ ~src[p].right
    BY <1>1 DEF Untilded
  <2> QED
    BY <2>1 DEF Both, Side
<1>3. ASSUME NEW p \in 1..Len(src) PROVE Tildes(src, p) = <<>>
  <2>1. CASE Is(src, p, {"open"})
    <3>1. CloseOf(src, p) \in 1..Len(src)
      <4>1. Is(src, p, Openers)
        BY <2>1 DEF Is, Openers
      <4>2. CloseOf(src, p) \in (p + 1)..Len(src)
        BY <4>1, CloseOfTyped
      <4> QED
        BY <1>1, <4>2
    <3>2. Both(src, p) = <<>> /\ Both(src, CloseOf(src, p)) = <<>>
      BY <1>2, <3>1
    <3> QED
      BY <2>1, <3>2 DEF Tildes, Is
  <2>2. CASE ~Is(src, p, {"open"})
    BY <1>2, <2>2 DEF Tildes
  <2> QED
    BY <2>1, <2>2
<1>4. [p \in 1..Len(src) |-> Tildes(src, p)] \in Seq(Seq({}))
  <2>1. \A p \in 1..Len(src) : Tildes(src, p) \in Seq({})
    BY <1>3, EmptySeq
  <2> QED
    BY <1>1, <2>1, SeqDef
<1>5. SecondPass(src) \in Seq({})
  BY <1>4, FlattenIn DEF SecondPass
<1>6. ASSUME NEW s \in Seq({}) PROVE s = <<>>
  <2>1. ASSUME s # <<>> PROVE FALSE
    <3>1. Len(s) \in Nat \ {0}
      BY <2>1, EmptySeq
    <3>2. s[1] \in {}
      BY <3>1, ElementOfSeq
    <3> QED
      BY <3>2
  <2> QED
    BY <2>1
<1> QED
  BY <1>5, <1>6

(* The partials of the list are tried in order, and none after k.          *)
UpTo(src, list, k) ==
    /\ list \in Seq(Tries(src)) /\ OneByOne(src, list)
    /\ \A i \in 1..Len(list) : Partial(src, list, i) => list[i].at <= k

LEMMA UpToMore ==
    ASSUME NEW src, NEW k \in Nat, k + 1 \in 1..Len(src), NEW list, UpTo(src, list, k), NEW more,
           \/ more \in Seq(Others(src))
           \/ more = Edit("simple", k + 1)
    PROVE  UpTo(src, list \o more, k + 1)
<1> DEFINE m == Len(list)
           n == Len(more)
           all == list \o more
<1>1. more \in Seq(Tries(src)) /\ \A i \in 1..n : Is(src, more[i].at, {"partial"}) => n = 1 /\ more[i].at = k + 1
  <2>1. CASE more \in Seq(Others(src))
    <3>1. \A i \in 1..n : more[i] \in Others(src)
      BY <2>1, ElementOfSeq
    <3>2. \A i \in 1..n : more[i] \in Tries(src) /\ ~Is(src, more[i].at, {"partial"})
      BY <3>1 DEF Others
    <3>3. Len(more) \in Nat /\ more = [i \in 1..n |-> more[i]]
      BY <2>1, LenProperties
    <3>4. more \in Seq(Tries(src))
      BY <3>2, <3>3, SeqDef
    <3> QED
      BY <3>2, <3>4
  <2>2. CASE more = Edit("simple", k + 1)
    <3>1. more = <<[op |-> "simple", at |-> k + 1]>>
      BY <2>2 DEF Edit
    <3>2. n = 1 /\ more[1] = [op |-> "simple", at |-> k + 1]
      BY <3>1
    <3>3. [op |-> "simple", at |-> k + 1] \in Tries(src)
      BY DEF Tries
    <3>4. more \in Seq(Tries(src))
      BY <3>1, <3>3
    <3> QED
      BY <3>2, <3>4
  <2> QED
    BY <2>1, <2>2
<1>2. /\ m \in Nat /\ n \in Nat /\ all \in Seq(Tries(src)) /\ Len(all) = m + n
      /\ \A i \in 1..(m + n) : all[i] = IF i <= m THEN list[i] ELSE more[i - m]
  BY <1>1, ConcatProperties, LenProperties DEF UpTo
<1>3. /\ \A i \in 1..m : Is(src, list[i].at, {"partial"}) => list[i].at <= k
      /\ \A i, j \in 1..m : /\ i < j /\ Is(src, list[i].at, {"partial"})
                            /\ Is(src, list[j].at, {"partial"})
                            => list[i].at < list[j].at
  BY DEF UpTo, OneByOne, Partial
<1>4. \A i \in 1..m : list[i].at \in Nat
  <2>1. \A i \in 1..m : list[i] \in Tries(src)
    BY ElementOfSeq DEF UpTo
  <2> QED
    BY <2>1 DEF Tries
<1> HIDE DEF all, m, n
<1>5. ASSUME NEW i \in 1..(m + n), Partial(src, all, i)
      PROVE  \/ i \in 1..m /\ all[i] = list[i] /\ list[i].at <= k
             \/ ~(i <= m) /\ n = 1 /\ all[i].at = k + 1
  <2>1. CASE i <= m
    BY <1>2, <1>3, <1>5, <2>1 DEF Partial
  <2>2. CASE ~(i <= m)
    <3>1. i - m \in 1..n /\ all[i] = more[i - m]
      BY <1>2, <2>2
    <3> QED
      BY <1>1, <1>5, <2>2, <3>1 DEF Partial
  <2> QED
    BY <2>1, <2>2
<1>6. \A i \in 1..(m + n) : Partial(src, all, i) => all[i].at <= k + 1
  BY <1>2, <1>4, <1>5
<1>7. ASSUME NEW i \in 1..(m + n), NEW j \in 1..(m + n), i < j, Partial(src, all, i), Partial(src, all, j)
      PROVE  all[i].at < all[j].at
  <2>1. CASE j <= m
    <3>1. i \in 1..m /\ j \in 1..m /\ all[i] = list[i] /\ all[j] = list[j]
      BY <1>2, <1>7, <2>1
    <3> QED
      BY <1>3, <1>7, <3>1 DEF Partial
  <2>2. CASE ~(j <= m)
    <3>1. all[j].at = k + 1 /\ n = 1
      BY <1>5, <1>7, <2>2
    <3>2. i \in 1..m
      BY <1>2, <1>7, <3>1
    <3> QED
      BY <1>4, <1>5, <1>7, <3>1, <3>2
  <2> QED
    BY <2>1, <2>2
<1> QED
  BY <1>2, <1>6, <1>7 DEF UpTo, OneByOne, all

LEMMA FirstPassOrdered ==
    ASSUME NEW shape \in Shapes, NEW src \in shape
    PROVE  FirstPass(src) \in Seq(Tries(src)) /\ OneByOne(src, FirstPass(src))
<1> DEFINE n == Len(src)
           F(k) == FlattenSeq([p \in 1..k |-> Attempts(src, p)])
           S == {k \in 0..n : UpTo(src, F(k), k)}
<1>1. n \in Nat
  BY ShapesAssumption, LenProperties
<1>2. \A p \in 1..n : Attempts(src, p) \in Seq(Edits(src))
  BY AttemptsTyped
<1>3. 0 \in S
  <2>1. F(0) = <<>>
    BY FlattenEmpty
  <2>2. UpTo(src, <<>>, 0)
    BY DEF UpTo, OneByOne
  <2> QED
    BY <1>1, <2>1, <2>2
<1>4. ASSUME NEW k \in 0..(n - 1), k \in S PROVE k + 1 \in S
  <2> DEFINE f == [p \in 1..(k + 1) |-> Attempts(src, p)]
  <2>1. k \in Nat /\ k + 1 \in 1..n /\ k + 1 \in 0..n
    BY <1>1
  <2>2. f \in [1..(k + 1) -> Seq(Edits(src))]
    BY <1>1, <1>2, <2>1
  <2>3. \A p \in 1..k : f[p] = Attempts(src, p)
    BY <2>1
  <2>4. f[k + 1] = Attempts(src, k + 1)
    BY <2>1
  <2>5. F(k + 1) = FlattenSeq(f)
    OBVIOUS
  <2>6. [p \in 1..k |-> f[p]] = [p \in 1..k |-> Attempts(src, p)]
    BY <2>3
  <2> HIDE DEF f, n
  <2>7. FlattenSeq(f) = FlattenSeq([p \in 1..k |-> f[p]]) \o f[k + 1]
    BY <2>1, <2>2, FlattenMore
  <2>8. F(k + 1) = F(k) \o Attempts(src, k + 1)
    BY <2>4, <2>5, <2>6, <2>7
  <2>9. UpTo(src, F(k), k)
    BY <1>4
  <2>10. \/ Attempts(src, k + 1) \in Seq(Others(src))
         \/ Attempts(src, k + 1) = Edit("simple", k + 1)
    BY <2>1, AttemptsApart DEF n
  <2> HIDE DEF F
  <2>11. UpTo(src, F(k) \o Attempts(src, k + 1), k + 1)
    BY <2>1, <2>9, <2>10, UpToMore DEF n
  <2> QED
    BY <2>1, <2>8, <2>11
<1> HIDE DEF n, S
<1>5. 0..n \subseteq S
  BY <1>1, <1>3, <1>4, Induction
<1>6. UpTo(src, F(n), n)
  BY <1>1, <1>5 DEF S
<1> QED
  BY <1>6 DEF FirstPass, UpTo, n

-----------------------------------------------------------------------------
(* The steps of a template without ~.                                      *)
LEMMA BlankIsChar == ASSUME NEW t \in Seq(Blank) PROVE t \in Seq(Char)
<1>1. \A i \in 1..Len(t) : t[i] \in Blank
  BY ElementOfSeq
<1>2. \A i \in 1..Len(t) : t[i] \in Char
  BY <1>1 DEF Blank, Char, White
<1>3. Len(t) \in Nat /\ t = [i \in 1..Len(t) |-> t[i]]
  BY LenProperties
<1> QED
  BY <1>2, <1>3, SeqDef

LEMMA IndentingInit ==
    ASSUME Init, Untilded(source)
    PROVE  Indenting
<1>1. PICK shape \in Shapes : source \in shape
  BY DEF Init
<1>2. FirstPass(source) \in Seq(Tries(source)) /\ OneByOne(source, FirstPass(source))
  BY <1>1, FirstPassOrdered
<1>3. todo = FirstPass(source)
  <2>1. todo = FirstPass(source) \o <<>>
    BY <1>1, NoSecondPass DEF Init
  <2> QED
    BY <1>2, <2>1, ConcatEmptySeq
<1>4. ASSUME NEW p \in 1..Len(source), Is(source, p - 1, {"text"})
      PROVE  Ending(Char, text[p - 1] \o indent[p], Original(p - 1))
  <2>1. p - 1 \in 1..Len(source)
    BY <1>4 DEF Is
  <2>2. text[p - 1] = Original(p - 1) /\ indent[p] = <<>>
    BY <2>1 DEF Init, Original
  <2>3. text[p - 1] \in Seq(Char)
    BY <2>1, TextsSolidInit DEF TextsSolid
  <2>4. text[p - 1] \o <<>> = text[p - 1] /\ <<>> \o text[p - 1] = text[p - 1] /\ <<>> \in Seq(Char)
    BY <2>3, ConcatEmptySeq
  <2> QED
    BY <2>2, <2>4 DEF Ending
<1>5. \A p \in 1..Len(source) : indent[p] = <<>>
  BY DEF Init
<1> QED
  BY <1>2, <1>3, <1>4, <1>5 DEF Indenting

(* The indentation of a partial is set when it is tried, and not again.    *)
LEMMA IndentOnce ==
    ASSUME WInv, Indenting, NEW op, Try(op), NEW q \in 1..Len(source), source[q].kind = "partial",
           NEW i \in 1..Len(todo'), todo'[i].at = q
    PROVE  indent'[q] = <<>>
<1> DEFINE p == Head(todo).at
<1>1. /\ todo # <<>> /\ todo' = Tail(todo) /\ todo \in Seq(Tries(source)) /\ UNCHANGED source
      /\ Len(todo) \in Nat
  BY LenProperties DEF Try, Indenting
<1>2. /\ 1 \in 1..Len(todo) /\ i + 1 \in 1..Len(todo) /\ 1 < i + 1
      /\ todo[1].at = p /\ todo[i + 1].at = q
  <2>1. /\ Len(Tail(todo)) = Len(todo) - 1 /\ Head(todo) = todo[1]
        /\ \A j \in 1..Len(Tail(todo)) : Tail(todo)[j] = todo[j + 1]
    BY <1>1, HeadTailProperties
  <2>2. i \in 1..(Len(todo) - 1) /\ todo'[i] = todo[i + 1]
    BY <1>1, <2>1
  <2> QED
    BY <1>1, <2>1, <2>2
<1>3. indent[q] = <<>>
  BY <1>2 DEF Indenting
<1>4. CASE p = q
  <2>1. Partial(source, todo, 1) /\ Partial(source, todo, i + 1)
    BY <1>2, <1>4 DEF Partial, Is
  <2>2. todo[1].at < todo[i + 1].at
    BY <1>2, <2>1 DEF Indenting, OneByOne
  <2> QED
    BY <1>2, <1>4, <2>2
<1>5. CASE p # q
  <2>1. indent' = indent \/ indent' = Indented(p)
    BY DEF Try
  <2> QED
    BY <1>3, <1>5, <2>1 DEF Indented, WInv
<1> QED
  BY <1>4, <1>5

(* What was written before a partial still ends with its text and its      *)
(* indentation.                                                            *)
LEMMA EndingKept ==
    ASSUME WInv, Indenting, NEW op, Try(op), NEW q \in 1..Len(source), source[q].kind = "partial",
           Is(source, q - 1, {"text"})
    PROVE  Ending(Char, text'[q - 1] \o indent'[q], Original(q - 1))
<1> DEFINE p == Head(todo).at
           t == text[q - 1]
           whole == Original(q - 1)
<1>1. /\ q - 1 \in 1..Len(source) /\ t \in Seq(Char) /\ indent[q] \in Seq(Char)
      /\ Ending(Char, t \o indent[q], whole) /\ Len(source) \in Nat
  <2>1. q - 1 \in 1..Len(source)
    BY DEF Is
  <2>2. t \in Seq(Char) /\ indent[q] \in Seq(Blank) /\ Len(source) \in Nat
    BY <2>1, LenProperties DEF WInv, TextsSolid
  <2>3. Ending(Char, t \o indent[q], whole)
    BY DEF Indenting
  <2> QED
    BY <2>1, <2>2, <2>3, BlankIsChar
<1>2. p \in 1..Len(source)
  <2>1. Head(todo) \in Edits(source)
    BY HeadTailProperties DEF WInv, Try
  <2> QED
    BY <2>1 DEF Edits
<1>3. DOMAIN text = 1..Len(source) /\ DOMAIN indent = 1..Len(source)
  BY DEF WInv, TextsSolid
<1>4. CASE ~Standalone(p)
  <2>1. UNCHANGED <<text, indent>>
    BY <1>4 DEF Try
  <2> QED
    BY <1>1, <2>1
<1>5. CASE Standalone(p) /\ p = q
  <2>1. indent[q] = <<>>
    <3>1. 1 \in 1..Len(todo) /\ todo[1].at = q
      BY <1>5, HeadTailProperties, LenProperties DEF WInv, Try
    <3> QED
      BY <3>1 DEF Indenting
  <2>2. Before(p) = q - 1
    BY <1>5 DEF Before
  <2> DEFINE k == Kept(p)
  <2>3. text'[q - 1] = SubSeq(t, 1, k)
    BY <1>1, <1>3, <1>5, <2>2 DEF Try, Cut
  <2>4. indent'[q] = SubSeq(t, k + 1, Len(t))
    <3>1. Indented(p) = [indent EXCEPT ![p] = SubSeq(t, k + 1, Len(t))]
      BY <1>5, <2>2 DEF Indented
    <3> QED
      BY <1>2, <1>3, <1>5, <3>1 DEF Try
  <2>5. k \in 0..Len(t)
    BY <1>1, <2>2, LastNewlineTyped DEF Kept
  <2>6. Ending(Char, t \o <<>>, whole)
    BY <1>1, <2>1
  <2> HIDE DEF k, t, whole
  <2>7. Ending(Char, SubSeq(t, 1, k) \o SubSeq(t, k + 1, Len(t)), whole)
    BY <1>1, <2>5, <2>6, EndingMoved
  <2> QED
    BY <2>3, <2>4, <2>7 DEF whole
<1>6. CASE Standalone(p) /\ p # q
  <2>1. indent'[q] = indent[q]
    BY <1>2, <1>3, <1>6 DEF Try, Indented
  <2>2. Before(p) # q - 1
    BY <1>1, <1>2, <1>6 DEF Before
  <2> DEFINE k == Skipped(p)
  <2>3. CASE After(p) = q - 1
    <3>1. text'[q - 1] = SubSeq(t, k + 1, Len(t))
      BY <1>1, <1>3, <1>6, <2>2, <2>3 DEF Try, Cut
    <3>2. k \in 0..Len(t)
      BY <1>1, <2>3, LineEndTyped DEF Skipped
    <3> HIDE DEF k, t, whole
    <3>3. Ending(Char, SubSeq(t, k + 1, Len(t)) \o indent[q], whole)
      BY <1>1, <3>2, EndingCut
    <3> QED
      BY <2>1, <3>1, <3>3 DEF whole
  <2>4. CASE After(p) # q - 1
    <3>1. text'[q - 1] = t
      BY <1>1, <1>3, <1>6, <2>2, <2>4 DEF Try, Cut
    <3> QED
      BY <1>1, <2>1, <3>1
  <2> QED
    BY <2>3, <2>4
<1> QED
  BY <1>4, <1>5, <1>6

LEMMA IndentingTry ==
    ASSUME WInv, Indenting, NEW op, Try(op)
    PROVE  Indenting'
<1>1. todo # <<>> /\ todo' = Tail(todo) /\ todo \in Seq(Tries(source)) /\ UNCHANGED source
  BY DEF Try, Indenting
<1>2. /\ todo' \in Seq(Tries(source)) /\ Len(todo') = Len(todo) - 1 /\ Len(todo) \in Nat
      /\ \A i \in 1..Len(todo') : todo'[i] = todo[i + 1]
  BY <1>1, HeadTailProperties, LenProperties
<1>3. OneByOne(source, todo')
  <2>1. ASSUME NEW i \in 1..Len(todo'), NEW j \in 1..Len(todo'), i < j,
               Partial(source, todo', i), Partial(source, todo', j)
        PROVE  todo'[i].at < todo'[j].at
    <3>1. i + 1 \in 1..Len(todo) /\ j + 1 \in 1..Len(todo) /\ i + 1 < j + 1
      BY <1>2, <2>1
    <3>2. Partial(source, todo, i + 1) /\ Partial(source, todo, j + 1)
      BY <1>2, <2>1 DEF Partial
    <3>3. todo[i + 1].at < todo[j + 1].at
      BY <3>1, <3>2 DEF Indenting, OneByOne
    <3> QED
      BY <1>2, <3>3
  <2> QED
    BY <2>1 DEF OneByOne
<1>4. \A q \in 1..Len(source) : source[q].kind = "partial" =>
          /\ (\E i \in 1..Len(todo') : todo'[i].at = q) => indent'[q] = <<>>
          /\ Is(source, q - 1, {"text"}) => Ending(Char, text'[q - 1] \o indent'[q], Original(q - 1))
  BY IndentOnce, EndingKept
<1> QED
  BY <1>1, <1>2, <1>3, <1>4 DEF Indenting, Tries, OneByOne, Partial, Is, Original

(* In a template without ~, what is left of the text before a partial and  *)
(* the partial's indentation are together the end of what was written      *)
(* (try_strip_standalone, src/src/render.c:1329), for all templates: a     *)
(* partial is tried once, and what other tags take from the text is at its *)
(* beginning.                                                              *)
THEOREM IndentKept == Spec => []IndentFits
<1> DEFINE Inv == WInv /\ (Untilded(source) => Indenting)
<1>1. Init => Inv
  BY WInvInit, IndentingInit
<1>2. Inv /\ [Next]_vars => Inv'
  <2> SUFFICES ASSUME Inv, [Next]_vars PROVE Inv'
    OBVIOUS
  <2>1. WInv'
    BY WInvStep
  <2>2. ASSUME Untilded(source)' PROVE Indenting'
    <3>1. Untilded(source) /\ Indenting
      BY <2>2 DEF Next, StripSimple, StripOpen, StripElse, StripClose, Try, TrimLeading, TrimTrailing,
                  Trim, vars, Untilded
    <3>2. ASSUME NEW op, Try(op) PROVE Indenting'
      BY <3>1, <3>2, IndentingTry
    <3>3. CASE TrimLeading \/ TrimTrailing
      <4>1. todo # <<>> /\ Head(todo).op \in {"leading", "trailing"}
        BY <3>3 DEF TrimLeading, TrimTrailing, Trim
      <4>2. Head(todo) \in Tries(source)
        BY <3>1, <4>1, HeadTailProperties DEF Indenting
      <4> QED
        BY <4>1, <4>2 DEF Tries
    <3>4. CASE UNCHANGED vars
      BY <3>1, <3>4 DEF vars, Indenting, Tries, OneByOne, Partial, Is, Original
    <3> QED
      BY <3>2, <3>3, <3>4 DEF Next, StripSimple, StripOpen, StripElse, StripClose
  <2> QED
    BY <2>1, <2>2
<1>3. Inv => IndentFits
  <2> SUFFICES ASSUME Inv, Untilded(source), NEW p \in DOMAIN source, source[p].kind = "partial",
                      Is(source, p - 1, {"text"})
               PROVE  IsSuffix(text[p - 1] \o indent[p], Original(p - 1))
    BY DEF IndentFits, Untilded
  <2>1. p \in 1..Len(source) /\ p - 1 \in 1..Len(source)
    BY LenProperties DEF WInv, TextsSolid, Is
  <2>2. text[p - 1] \in Seq(Char) /\ indent[p] \in Seq(Char)
    <3>1. text[p - 1] \in Seq(Char) /\ indent[p] \in Seq(Blank)
      BY <2>1 DEF WInv, TextsSolid
    <3> QED
      BY <3>1, BlankIsChar
  <2>3. text[p - 1] \o indent[p] \in Seq(Char)
    BY <2>2, ConcatProperties
  <2>4. Ending(Char, text[p - 1] \o indent[p], Original(p - 1))
    BY <2>1 DEF Indenting
  <2>5. PICK h \in Seq(Char) : Original(p - 1) = h \o (text[p - 1] \o indent[p])
    BY <2>4 DEF Ending
  <2> QED
    BY <2>3, <2>5, EndingIsSuffix
<1> QED
  BY <1>1, <1>2, <1>3, PTL DEF Spec


-----------------------------------------------------------------------------
(* How blocks nest in a parsed template.                                   *)
Parsed(src) == \E shape \in Shapes : src \in shape

LEMMA ParsedFacts ==
    ASSUME NEW src, Parsed(src)
    PROVE  /\ src \in Seq(Item) /\ Len(src) \in Nat
           /\ \A p \in 1..Len(src) : src[p] \in Item /\ Formed(src, p)
<1>1. PICK shape \in Shapes : src \in shape
  BY DEF Parsed
<1>2. src \in Seq(Item)
  BY <1>1, ShapesAssumption
<1>3. \A p \in 1..Len(src) : Formed(src, p)
  BY <1>1, FormedAssumption
<1> QED
  BY <1>2, <1>3, ElementOfSeq, LenProperties

LEMMA CloserFacts ==
    ASSUME NEW src, Parsed(src), NEW p \in 1..Len(src), Is(src, p, Openers)
    PROVE  /\ CloseOf(src, p) \in (p + 1)..Len(src) /\ CloseOf(src, p) \in 1..Len(src)
           /\ Is(src, CloseOf(src, p), Closers)
           /\ Depth(src, CloseOf(src, p)) = Depth(src, p) + 1
           /\ \A q \in Parts(src, p, Closers) : CloseOf(src, p) <= q
<1>1. PICK shape \in Shapes : src \in shape
  BY DEF Parsed
<1>2. Len(src) \in Nat
  BY ParsedFacts
<1>3. CloseOf(src, p) \in Parts(src, p, Closers) /\ CloseOf(src, p) \in (p + 1)..Len(src)
  BY <1>1, CloseOfTyped
<1>4. Parts(src, p, Closers) \in SUBSET (1..Len(src))
  BY <1>2 DEF Parts
<1>5. \A q \in Parts(src, p, Closers) : CloseOf(src, p) <= q
  BY <1>2, <1>3, <1>4, FirstIsMin DEF CloseOf
<1> QED
  BY <1>2, <1>3, <1>5 DEF Parts, Is

(* The brackets of some kinds before a place: one more, or as many.        *)
Count(src, kinds, y) == Cardinality({q \in 1..(y - 1) : src[q].kind \in kinds})

LEMMA CountNext ==
    ASSUME NEW src, NEW x \in Nat \ {0}, NEW kinds
    PROVE  /\ Count(src, kinds, x) \in Nat
           /\ src[x].kind \in kinds => Count(src, kinds, x + 1) = Count(src, kinds, x) + 1
           /\ src[x].kind \notin kinds => Count(src, kinds, x + 1) = Count(src, kinds, x)
<1> DEFINE S(y) == {q \in 1..(y - 1) : src[q].kind \in kinds}
<1>1. IsFiniteSet(S(x))
  <2>1. 1 \in Int /\ x - 1 \in Int
    OBVIOUS
  <2>2. IsFiniteSet(1..(x - 1))
    BY <2>1, FS_Interval
  <2>3. S(x) \in SUBSET (1..(x - 1))
    OBVIOUS
  <2> HIDE DEF S
  <2> QED
    BY <2>2, <2>3, FS_Subset
<1>2. Cardinality(S(x)) \in Nat
  BY <1>1, FS_CardinalityType
<1>3. CASE src[x].kind \in kinds
  <2>1. S(x + 1) = S(x) \cup {x} /\ x \notin S(x)
    BY <1>3
  <2> HIDE DEF S
  <2>2. Cardinality(S(x) \cup {x}) = Cardinality(S(x)) + 1
    BY <1>1, <2>1, FS_AddElement
  <2>3. Cardinality(S(x + 1)) = Cardinality(S(x)) + 1
    BY <2>1, <2>2
  <2> QED
    BY <1>2, <1>3, <2>3 DEF S, Count
<1>4. CASE src[x].kind \notin kinds
  <2>1. S(x + 1) = S(x)
    BY <1>4
  <2> HIDE DEF S
  <2>2. Cardinality(S(x + 1)) = Cardinality(S(x))
    BY <2>1
  <2> QED
    BY <1>2, <1>4, <2>2 DEF S, Count
<1> QED
  BY <1>3, <1>4

LEMMA DepthNext ==
    ASSUME NEW src, NEW x \in Nat \ {0}
    PROVE  /\ Depth(src, x) \in Int /\ Depth(src, x + 1) \in Int
           /\ src[x].kind \in Openers => Depth(src, x + 1) = Depth(src, x) + 1
           /\ src[x].kind \in Closers => Depth(src, x + 1) = Depth(src, x) - 1
           /\ src[x].kind \notin Openers \cup Closers => Depth(src, x + 1) = Depth(src, x)
<1>1. \A y : Depth(src, y) = Count(src, Openers, y) - Count(src, Closers, y)
  BY DEF Depth, Count
<1>2. Openers \cap Closers = {}
  BY DEF Openers, Closers
<1>3. /\ Count(src, Openers, x) \in Nat
      /\ src[x].kind \in Openers => Count(src, Openers, x + 1) = Count(src, Openers, x) + 1
      /\ src[x].kind \notin Openers => Count(src, Openers, x + 1) = Count(src, Openers, x)
  BY CountNext
<1>4. /\ Count(src, Closers, x) \in Nat
      /\ src[x].kind \in Closers => Count(src, Closers, x + 1) = Count(src, Closers, x) + 1
      /\ src[x].kind \notin Closers => Count(src, Closers, x + 1) = Count(src, Closers, x)
  BY CountNext
<1> QED
  BY <1>1, <1>2, <1>3, <1>4

(* Inside a block it is at least as deep as at its level.                  *)
LEMMA DepthInside ==
    ASSUME NEW src, Parsed(src), NEW p \in 1..Len(src), Is(src, p, Openers),
           NEW x \in (p + 1)..CloseOf(src, p)
    PROVE  Depth(src, p) + 1 <= Depth(src, x)
<1> DEFINE c == CloseOf(src, p)
           d == Depth(src, p)
           n == c - p - 1
           S == {k \in 0..n : d + 1 <= Depth(src, p + 1 + k)}
<1>1. c \in (p + 1)..Len(src) /\ Len(src) \in Nat /\ d \in Int /\ \A q \in Parts(src, p, Closers) : c <= q
  BY CloserFacts, DepthNext, ParsedFacts
<1>2. Openers \cap Closers = {}
  BY DEF Openers, Closers
<1>3. 0 \in S
  <2>1. Depth(src, p + 1) = d + 1
    <3>1. p \in Nat \ {0} /\ src[p].kind \in Openers
      BY <1>1 DEF Is
    <3> QED
      BY <3>1, DepthNext
  <2> HIDE DEF d, c
  <2>2. d + 1 <= Depth(src, p + 1 + 0) /\ n \in Nat
    BY <1>1, <2>1
  <2> QED
    BY <2>2
<1>4. ASSUME NEW k \in 0..(n - 1), k \in S PROVE k + 1 \in S
  <2> DEFINE y == p + 1 + k
  <2>1. y \in Nat \ {0} /\ y \in (p + 1)..Len(src) /\ y < c /\ p + 1 + (k + 1) = y + 1 /\ k + 1 \in 0..n
    BY <1>1
  <2>2. d + 1 <= Depth(src, y) /\ Depth(src, y) \in Int
    BY <1>4, <2>1, DepthNext
  <2>3. src[y].kind \in Closers => Depth(src, y) # d + 1
    BY <1>1, <2>1 DEF Parts
  <2>4. /\ Depth(src, y + 1) \in Int
        /\ src[y].kind \in Openers => Depth(src, y + 1) = Depth(src, y) + 1
        /\ src[y].kind \in Closers => Depth(src, y + 1) = Depth(src, y) - 1
        /\ src[y].kind \notin Openers \cup Closers => Depth(src, y + 1) = Depth(src, y)
    BY <2>1, DepthNext
  <2> HIDE DEF y, d, c
  <2>5. d + 1 <= Depth(src, y + 1)
    BY <1>1, <2>2, <2>3, <2>4
  <2> QED
    BY <2>1, <2>5
<1> HIDE DEF S
<1>5. 0..n \subseteq S
  <2>1. n \in Nat
    BY <1>1
  <2> HIDE DEF n
  <2> QED
    BY <1>3, <1>4, <2>1, Induction
<1>6. x - p - 1 \in S /\ p + 1 + (x - p - 1) = x
  <2>1. x - p - 1 \in 0..n
    BY <1>1
  <2> QED
    BY <1>1, <1>5, <2>1
<1> QED
  BY <1>6 DEF S

(* A block that opens in another is closed in it.                          *)
LEMMA NestedClose ==
    ASSUME NEW src, Parsed(src), NEW p \in 1..Len(src), Is(src, p, Openers),
           NEW r \in 1..Len(src), Is(src, r, Openers), p < r, r <= CloseOf(src, p)
    PROVE  CloseOf(src, r) < CloseOf(src, p)
<1> DEFINE c == CloseOf(src, p)
           e == CloseOf(src, r)
<1>1. /\ c \in (p + 1)..Len(src) /\ e \in (r + 1)..Len(src) /\ Len(src) \in Nat
      /\ Depth(src, c) = Depth(src, p) + 1
      /\ Depth(src, p) \in Int /\ Depth(src, r) \in Int
  BY CloserFacts, DepthNext, ParsedFacts
<1>2. Depth(src, p) + 1 <= Depth(src, r)
  <2>1. r \in (p + 1)..c
    BY <1>1
  <2> QED
    BY <2>1, DepthInside
<1>3. r # c
  BY CloserFacts DEF Is, Openers, Closers
<1>4. ASSUME c <= e PROVE FALSE
  <2>1. c \in (r + 1)..e
    BY <1>1, <1>3, <1>4
  <2>2. Depth(src, r) + 1 <= Depth(src, c)
    BY <2>1, DepthInside
  <2> QED
    BY <1>1, <1>2, <2>2
<1> QED
  BY <1>1, <1>4

(* What belongs to a block is at its level.                                *)
LEMMA BelongsFacts ==
    ASSUME NEW src, Parsed(src), NEW x, NEW o, Belongs(src, x, o)
    PROVE  /\ o \in 1..Len(src) /\ Is(src, o, Openers) /\ x \in 1..Len(src)
           /\ x \in (o + 1)..CloseOf(src, o) /\ Depth(src, x) = Depth(src, o) + 1
           /\ Depth(src, x) \in Int /\ Depth(src, o) \in Int
<1>1. o \in 1..Len(src) /\ Is(src, o, Openers) /\ x \in 1..Len(src) /\ Len(src) \in Nat
  BY ParsedFacts DEF Belongs, Is, Openers
<1>2. /\ CloseOf(src, o) \in (o + 1)..Len(src)
      /\ Depth(src, CloseOf(src, o)) = Depth(src, o) + 1
  BY <1>1, CloserFacts
<1>3. x = CloseOf(src, o) \/ x \in ElsesOf(src, o)
  BY DEF Belongs
<1>4. x \in (o + 1)..CloseOf(src, o) /\ Depth(src, x) = Depth(src, o) + 1
  BY <1>1, <1>2, <1>3 DEF ElsesOf, Parts
<1>5. x \in Nat \ {0} /\ o \in Nat \ {0}
  BY <1>1
<1> QED
  BY <1>1, <1>4, <1>5, DepthNext

LEMMA OneOwner ==
    ASSUME NEW src, Parsed(src), NEW x, NEW o, NEW r, Belongs(src, x, o), Belongs(src, x, r)
    PROVE  o = r
<1>1. ASSUME NEW a, NEW b, Belongs(src, x, a), Belongs(src, x, b), a < b PROVE FALSE
  <2>1. /\ a \in 1..Len(src) /\ Is(src, a, Openers) /\ Depth(src, x) = Depth(src, a) + 1
        /\ x \in (a + 1)..CloseOf(src, a) /\ Depth(src, x) \in Int /\ Depth(src, a) \in Int
    BY <1>1, BelongsFacts
  <2>2. /\ b \in 1..Len(src) /\ Depth(src, x) = Depth(src, b) + 1
        /\ x \in (b + 1)..CloseOf(src, b) /\ Depth(src, b) \in Int
    BY <1>1, BelongsFacts
  <2>3. CloseOf(src, a) \in 1..Len(src) /\ Len(src) \in Nat /\ CloseOf(src, b) \in 1..Len(src)
    BY <1>1, <2>1, <2>2, BelongsFacts, CloserFacts, ParsedFacts
  <2>4. b \in (a + 1)..CloseOf(src, a)
    BY <1>1, <2>1, <2>2, <2>3
  <2>5. Depth(src, a) + 1 <= Depth(src, b)
    BY <2>1, <2>4, DepthInside
  <2> QED
    BY <2>1, <2>2, <2>5
<1>2. o \in Nat /\ r \in Nat
  <2>1. o \in 1..Len(src) /\ r \in 1..Len(src) /\ Len(src) \in Nat
    BY BelongsFacts, ParsedFacts
  <2> QED
    BY <2>1
<1> QED
  BY <1>1, <1>2

(* What the passes see around what they see: the bodies of inline partials *)
(* are left out whole.                                                     *)
LEMMA NextSeen ==
    ASSUME NEW src, Parsed(src), NEW p \in 1..Len(src), ~Hidden(src, p), src[p].kind # "inline"
    PROVE  ~Hidden(src, p + 1)
<1>1. Len(src) \in Nat
  BY ParsedFacts
<1>2. ASSUME NEW q \in 1..p, src[q].kind = "inline", p + 1 <= CloseOf(src, q) PROVE FALSE
  <2>1. q \in 1..Len(src) /\ q \in 1..(p - 1)
    BY <1>1, <1>2
  <2>2. CloseOf(src, q) \in (q + 1)..Len(src)
    BY <1>2, <2>1, CloserFacts DEF Is, Openers
  <2>3. p <= CloseOf(src, q)
    BY <1>1, <1>2, <2>2
  <2> QED
    BY <1>2, <2>1, <2>3 DEF Hidden
<1> QED
  BY <1>1, <1>2 DEF Hidden

LEMMA AfterSeen ==
    ASSUME NEW src, Parsed(src), NEW p \in 1..Len(src), ~Hidden(src, p), src[p].kind = "inline"
    PROVE  ~Hidden(src, CloseOf(src, p) + 1)
<1> DEFINE c == CloseOf(src, p)
<1>1. Len(src) \in Nat /\ c \in (p + 1)..Len(src) /\ Is(src, p, Openers)
  BY ParsedFacts, CloserFacts DEF Is, Openers
<1>2. ASSUME NEW q \in 1..c, src[q].kind = "inline", c + 1 <= CloseOf(src, q) PROVE FALSE
  <2>1. q \in 1..Len(src)
    BY <1>1, <1>2
  <2>2. CloseOf(src, q) \in (q + 1)..Len(src) /\ Is(src, q, Openers)
    BY <1>2, <2>1, CloserFacts DEF Is, Openers
  <2>3. CASE q < p
    <3>1. p <= CloseOf(src, q) /\ q \in 1..(p - 1)
      BY <1>1, <1>2, <2>1, <2>2, <2>3
    <3> QED
      BY <1>2, <3>1 DEF Hidden
  <2>4. CASE q = p
    BY <1>1, <1>2, <2>4
  <2>5. CASE p < q
    <3>1. CloseOf(src, q) < c
      BY <1>1, <1>2, <2>1, <2>2, <2>5, NestedClose
    <3> QED
      BY <1>1, <1>2, <2>2, <3>1
  <2> QED
    BY <1>1, <2>1, <2>3, <2>4, <2>5
<1> QED
  BY <1>1, <1>2 DEF Hidden

LEMMA BeforeSeen ==
    ASSUME NEW src, Parsed(src), NEW q \in 2..Len(src), ~Hidden(src, q), Hidden(src, q - 1)
    PROVE  \E r \in 1..(q - 2) : /\ src[r].kind = "inline" /\ ~Hidden(src, r)
                                 /\ CloseOf(src, r) = q - 1
<1>1. Len(src) \in Nat
  BY ParsedFacts
<1>2. PICK r \in 1..(q - 2) : src[r].kind = "inline" /\ q - 1 <= CloseOf(src, r)
  BY <1>1 DEF Hidden
<1>3. r \in 1..Len(src) /\ Is(src, r, Openers) /\ CloseOf(src, r) \in (r + 1)..Len(src)
  BY <1>1, <1>2, CloserFacts DEF Is, Openers
<1>4. CloseOf(src, r) = q - 1
  <2>1. ~(q <= CloseOf(src, r))
    BY <1>1, <1>2 DEF Hidden
  <2> QED
    BY <1>1, <1>2, <1>3, <2>1
<1>5. ASSUME Hidden(src, r) PROVE FALSE
  <2>1. PICK s \in 1..(r - 1) : src[s].kind = "inline" /\ r <= CloseOf(src, s)
    BY <1>5 DEF Hidden
  <2>2. s \in 1..Len(src) /\ Is(src, s, Openers) /\ CloseOf(src, s) \in 1..Len(src) /\ s < r
    BY <1>1, <1>3, <2>1, CloserFacts DEF Is, Openers
  <2>3. CloseOf(src, r) < CloseOf(src, s)
    BY <1>3, <2>1, <2>2, NestedClose
  <2>4. q <= CloseOf(src, s) /\ s \in 1..(q - 1)
    BY <1>1, <1>4, <2>1, <2>2, <2>3
  <2> QED
    BY <2>1, <2>4 DEF Hidden
<1> QED
  BY <1>2, <1>4, <1>5

LEMMA PartsSeen ==
    ASSUME NEW src, Parsed(src), NEW x, NEW o, Belongs(src, x, o), src[o].kind = "open", ~Hidden(src, o)
    PROVE  ~Hidden(src, x)
<1>1. /\ o \in 1..Len(src) /\ Is(src, o, Openers) /\ x \in 1..Len(src) /\ Len(src) \in Nat
      /\ x \in (o + 1)..CloseOf(src, o) /\ Depth(src, x) = Depth(src, o) + 1
      /\ Depth(src, x) \in Int /\ Depth(src, o) \in Int /\ CloseOf(src, o) \in 1..Len(src)
  BY BelongsFacts, ParsedFacts, CloserFacts
<1>2. ASSUME NEW r \in 1..(x - 1), src[r].kind = "inline", x <= CloseOf(src, r) PROVE FALSE
  <2>1. r \in 1..Len(src) /\ Is(src, r, Openers) /\ CloseOf(src, r) \in 1..Len(src)
    BY <1>1, <1>2, CloserFacts DEF Is, Openers
  <2>2. CASE r < o
    <3>1. o <= CloseOf(src, r) /\ r \in 1..(o - 1)
      BY <1>1, <1>2, <2>1, <2>2
    <3> QED
      BY <1>2, <3>1 DEF Hidden
  <2>3. CASE o < r
    <3>1. r \in (o + 1)..CloseOf(src, o) /\ x \in (r + 1)..CloseOf(src, r) /\ r \in Nat \ {0}
      BY <1>1, <1>2, <2>1, <2>3
    <3>2. Depth(src, o) + 1 <= Depth(src, r)
      BY <1>1, <3>1, DepthInside
    <3>3. Depth(src, r) + 1 <= Depth(src, x)
      BY <2>1, <3>1, DepthInside
    <3>4. Depth(src, r) \in Int
      BY <3>1, DepthNext
    <3> QED
      BY <1>1, <3>2, <3>3, <3>4
  <2> QED
    BY <1>1, <1>2, <2>1, <2>2, <2>3
<1> QED
  BY <1>2 DEF Hidden

LEMMA OwnerSeen ==
    ASSUME NEW src, Parsed(src), NEW x, NEW o, Belongs(src, x, o), ~Hidden(src, x)
    PROVE  ~Hidden(src, o)
<1>1. /\ o \in 1..Len(src) /\ Is(src, o, Openers) /\ x \in 1..Len(src) /\ Len(src) \in Nat
      /\ x \in (o + 1)..CloseOf(src, o) /\ CloseOf(src, o) \in 1..Len(src)
  BY BelongsFacts, ParsedFacts, CloserFacts
<1>2. ASSUME NEW r \in 1..(o - 1), src[r].kind = "inline", o <= CloseOf(src, r) PROVE FALSE
  <2>1. r \in 1..Len(src) /\ Is(src, r, Openers) /\ CloseOf(src, r) \in 1..Len(src) /\ r < o
    BY <1>1, <1>2, CloserFacts DEF Is, Openers
  <2>2. CloseOf(src, o) < CloseOf(src, r)
    BY <1>1, <1>2, <2>1, NestedClose
  <2>3. x <= CloseOf(src, r) /\ r \in 1..(x - 1)
    BY <1>1, <1>2, <2>1, <2>2
  <2> QED
    BY <1>2, <2>3 DEF Hidden
<1> QED
  BY <1>2 DEF Hidden

-----------------------------------------------------------------------------
(* The tags the first pass tries, and where each ends: an inline partial   *)
(* with its body is one.                                                   *)
Tagged(p) == Is(source, p, {"comment", "partial", "inline", "open", "else", "close"}) /\ ~Hidden(source, p)
End(p) == IF source[p].kind = "inline" THEN CloseOf(source, p) ELSE p

LEMMA Unglued ==
    ASSUME Parsed(source), ~Abrupt, NEW p \in 1..Len(source), ~Hidden(source, p)
    PROVE  ~source[p].glued
<1> SUFFICES ASSUME source[p].glued PROVE FALSE
  OBVIOUS
<1>1. Joint(source, p)
  BY ParsedFacts DEF Formed
<1>2. LineTag(p - 1) /\ LineTag(p) /\ p - 1 \in 1..Len(source) /\ ~Siblings(p - 1, p)
  BY <1>1 DEF Joint, Is, LineTag, Siblings
<1>3. Len(source) \in Nat /\ p = (p - 1) + 1
  BY ParsedFacts
<1>4. Adjoin(p - 1, p)
  BY <1>2, <1>3 DEF Adjoin
<1> QED
  BY <1>2, <1>4 DEF Abrupt

LEMMA EndFacts ==
    ASSUME Parsed(source), NEW p, Tagged(p)
    PROVE  /\ p \in 1..Len(source) /\ Len(source) \in Nat /\ End(p) \in p..Len(source)
           /\ After(p) = End(p) + 1 /\ ~Hidden(source, After(p))
           /\ LineTag(p) /\ LineTag(End(p))
           /\ \A a \in (p + 1)..End(p) : Hidden(source, a)
<1>1. p \in 1..Len(source) /\ Len(source) \in Nat /\ LineTag(p) /\ ~Hidden(source, p)
  BY ParsedFacts DEF Tagged, Is, LineTag
<1>2. CASE source[p].kind = "inline"
  <2>1. CloseOf(source, p) \in (p + 1)..Len(source) /\ Is(source, CloseOf(source, p), Closers)
    BY <1>1, <1>2, CloserFacts DEF Is, Openers
  <2>2. End(p) = CloseOf(source, p) /\ After(p) = CloseOf(source, p) + 1
    BY <1>2 DEF End, After
  <2>3. ~Hidden(source, CloseOf(source, p) + 1)
    BY <1>1, <1>2, AfterSeen
  <2>4. \A a \in (p + 1)..CloseOf(source, p) : Hidden(source, a)
    <3> SUFFICES ASSUME NEW a \in (p + 1)..CloseOf(source, p) PROVE Hidden(source, a)
      OBVIOUS
    <3>1. p \in 1..(a - 1) /\ a <= CloseOf(source, p)
      BY <1>1, <2>1
    <3> QED
      BY <1>2, <3>1 DEF Hidden
  <2>5. LineTag(CloseOf(source, p))
    BY <1>1, <2>1 DEF LineTag, Is, Closers
  <2> QED
    BY <1>1, <2>1, <2>2, <2>3, <2>4, <2>5
<1>3. CASE source[p].kind # "inline"
  <2>1. End(p) = p /\ After(p) = p + 1
    BY <1>3 DEF End, After
  <2>2. ~Hidden(source, p + 1)
    BY <1>1, <1>3, NextSeen
  <2> QED
    BY <1>1, <2>1, <2>2
<1> QED
  BY <1>2, <1>3

(* A tag that is tried is in the body of no inline partial.                *)
LEMMA Uncovered ==
    ASSUME Parsed(source), NEW p, Tagged(p), NEW x \in {p, End(p)}, NEW a \in Nat
    PROVE  Covered(a, x) = Hidden(source, a)
<1>1. p \in 1..Len(source) /\ Len(source) \in Nat /\ ~Hidden(source, p)
  BY ParsedFacts DEF Tagged, Is
<1>2. ASSUME NEW o \in 1..(a - 1), source[o].kind = "inline", a <= CloseOf(source, o), Holds(o, x)
      PROVE  FALSE
  <2>1. o < x /\ x < CloseOf(source, o) /\ x \in p..Len(source) /\ o \in Nat /\ o # 0
    BY <1>1, <1>2, EndFacts DEF Holds
  <2>2. o \in 1..Len(source) /\ CloseOf(source, o) \in 1..Len(source) /\ Is(source, o, Openers)
    <3>1. o \in 1..Len(source)
      BY <1>1, <2>1
    <3> QED
      BY <1>2, <3>1, CloserFacts, <1>1 DEF Is, Openers
  <2>3. ~(o < p)
    <3> SUFFICES ASSUME o < p PROVE FALSE
      OBVIOUS
    <3>1. o \in 1..(p - 1) /\ p <= CloseOf(source, o)
      BY <1>1, <2>1, <2>2
    <3> QED
      BY <1>1, <1>2, <3>1 DEF Hidden
  <2>4. x = CloseOf(source, p) /\ source[p].kind = "inline"
    BY <1>1, <2>1, <2>3 DEF End
  <2>5. CloseOf(source, p) \in 1..Len(source) /\ Is(source, p, Openers)
    BY <1>1, <2>4, CloserFacts DEF Is, Openers
  <2>6. CASE o = p
    BY <2>1, <2>4, <2>5, <2>6
  <2>7. CASE p < o
    <3>1. CloseOf(source, o) < CloseOf(source, p)
      BY <1>1, <2>1, <2>2, <2>4, <2>5, <2>7, NestedClose
    <3> QED
      BY <2>1, <2>2, <2>4, <2>5, <3>1
  <2> QED
    BY <1>1, <2>1, <2>3, <2>6, <2>7
<1> QED
  BY <1>2 DEF Covered, Hidden

LEMMA TagSpan ==
    ASSUME Parsed(source), ~Abrupt, NEW p, Tagged(p), NEW x \in {p, End(p)}
    PROVE  TagStart(x) = p /\ TagEnd(x) = End(p)
<1> DEFINE e == End(p)
           S == {a \in 1..x : ~source[a].glued /\ ~Covered(a, x)}
           E == {b \in x..Len(source) : /\ ~(b < Len(source) /\ source[b + 1].glued)
                                        /\ ~Covered(b + 1, x)}
<1>1. /\ p \in 1..Len(source) /\ Len(source) \in Nat /\ e \in p..Len(source) /\ x \in p..e
      /\ ~Hidden(source, e + 1) /\ ~Hidden(source, p) /\ \A a \in (p + 1)..e : Hidden(source, a)
  BY EndFacts DEF Tagged
<1>2. /\ \A a \in 1..Len(source) : ~Hidden(source, a) => ~source[a].glued
      /\ \A a \in Nat : Covered(a, x) = Hidden(source, a)
  BY Unglued, Uncovered
<1> HIDE DEF e
<1>3. S \in SUBSET (1..x) /\ p \in S /\ \A a \in S : a <= p
  <2>1. \A a \in S : a \notin (p + 1)..e
    BY <1>1, <1>2
  <2>2. S \in SUBSET (1..x) /\ p \in S
    BY <1>1, <1>2
  <2> QED
    BY <1>1, <2>1, <2>2
<1>4. E \in SUBSET (1..Len(source)) /\ e \in E /\ \A b \in E : e <= b
  <2>1. \A b \in E : b + 1 \notin (p + 1)..e
    BY <1>1, <1>2
  <2>2. E \in SUBSET (1..Len(source)) /\ e \in E
    BY <1>1, <1>2
  <2> QED
    BY <1>1, <2>1, <2>2
<1>5. TagStart(x) = Max(S) /\ TagEnd(x) = Min(E)
  BY DEF TagStart, TagEnd
<1> HIDE DEF S, E
<1>6. Max(S) \in S /\ p <= Max(S)
  <2>1. x \in Nat /\ S # {}
    BY <1>1, <1>3
  <2>2. Max(S) \in S /\ \A j \in S : j <= Max(S)
    BY <1>3, <2>1, LastIsMax
  <2> QED
    BY <1>3, <2>2
<1>7. Min(E) \in E /\ Min(E) <= e
  BY <1>1, <1>4, FirstIsMin
<1>8. Max(S) = p
  <2>1. Max(S) <= p /\ p <= Max(S) /\ Max(S) \in 1..x
    BY <1>3, <1>6
  <2> QED
    BY <1>1, <2>1
<1>9. Min(E) = e
  <2>1. Min(E) <= e /\ e <= Min(E) /\ Min(E) \in 1..Len(source)
    BY <1>4, <1>7
  <2> QED
    BY <1>1, <2>1
<1> QED
  BY <1>5, <1>8, <1>9 DEF e

LEMMA EndInside ==
    ASSUME Parsed(source), NEW p \in 1..Len(source), ~Hidden(source, p)
    PROVE  source[p].kind # "endinline"
<1> SUFFICES ASSUME source[p].kind = "endinline" PROVE FALSE
  OBVIOUS
<1>1. Formed(source, p) /\ Is(source, p, Closers \cup {"else"})
  BY ParsedFacts DEF Is, Closers
<1>2. PICK o \in 1..(p - 1) : Belongs(source, p, o)
  BY <1>1 DEF Formed
<1>3. source[o].kind = "inline" /\ CloseOf(source, o) = p
  BY <1>2 DEF Belongs, Is
<1> QED
  BY <1>2, <1>3 DEF Hidden

(* The tag after, and the tag before a text the passes see are tried.      *)
LEMMA Neighbours ==
    ASSUME Parsed(source), NEW q \in Texts
    PROVE  /\ LineTag(q + 1) => Tagged(q + 1)
           /\ LineTag(q - 1) => \E p \in 1..(q - 1) : Tagged(p) /\ End(p) = q - 1
<1>1. q \in 1..Len(source) /\ source[q].kind = "text" /\ ~Hidden(source, q) /\ Len(source) \in Nat
  BY ParsedFacts DEF Texts, TextNodes
<1>2. ASSUME LineTag(q + 1) PROVE Tagged(q + 1)
  <2>1. q + 1 \in 1..Len(source) /\ ~Hidden(source, q + 1)
    BY <1>1, <1>2, NextSeen DEF LineTag
  <2>2. source[q + 1] \in Item /\ source[q + 1].kind # "endinline"
    BY <2>1, EndInside, ParsedFacts
  <2> QED
    BY <1>2, <2>1, <2>2 DEF LineTag, Tagged, Is, Item, Kinds
<1>3. ASSUME LineTag(q - 1) PROVE \E p \in 1..(q - 1) : Tagged(p) /\ End(p) = q - 1
  <2>1. q - 1 \in 1..Len(source) /\ q \in 2..Len(source) /\ q - 1 \in 1..(q - 1)
    BY <1>1, <1>3 DEF LineTag
  <2>2. CASE ~Hidden(source, q - 1)
    <3>1. source[q - 1].kind # "inline"
      <4> SUFFICES ASSUME source[q - 1].kind = "inline" PROVE FALSE
        OBVIOUS
      <4>1. CloseOf(source, q - 1) \in ((q - 1) + 1)..Len(source)
        BY <2>1, CloserFacts DEF Is, Openers
      <4>2. q <= CloseOf(source, q - 1)
        BY <1>1, <4>1
      <4> QED
        BY <1>1, <2>1, <4>2 DEF Hidden
    <3>2. source[q - 1] \in Item /\ source[q - 1].kind # "endinline"
      BY <2>1, <2>2, EndInside, ParsedFacts
    <3>3. Tagged(q - 1) /\ End(q - 1) = q - 1
      BY <1>3, <2>1, <2>2, <3>1, <3>2 DEF LineTag, Tagged, Is, Item, Kinds, End
    <3> QED
      BY <2>1, <3>3
  <2>3. CASE Hidden(source, q - 1)
    <3>1. PICK r \in 1..(q - 2) : /\ source[r].kind = "inline" /\ ~Hidden(source, r)
                                  /\ CloseOf(source, r) = q - 1
      BY <1>1, <2>1, <2>3, BeforeSeen
    <3>2. r \in 1..(q - 1) /\ r \in 1..Len(source)
      BY <1>1, <3>1
    <3> QED
      BY <3>1, <3>2 DEF Tagged, Is, End
  <2> QED
    BY <2>2, <2>3
<1> QED
  BY <1>2, <1>3

LEMMA TextsAround ==
    ASSUME Parsed(source), NEW p, Tagged(p)
    PROVE  /\ Is(source, p - 1, {"text"}) => p - 1 \in Texts
           /\ Is(source, After(p), {"text"}) => After(p) \in Texts
<1>1. /\ p \in 1..Len(source) /\ Len(source) \in Nat /\ ~Hidden(source, After(p)) /\ ~Hidden(source, p)
  BY EndFacts DEF Tagged
<1>2. ASSUME Is(source, p - 1, {"text"}), Hidden(source, p - 1) PROVE FALSE
  <2>1. p \in 2..Len(source)
    BY <1>1, <1>2 DEF Is
  <2>2. PICK r \in 1..(p - 2) : source[r].kind = "inline" /\ CloseOf(source, r) = p - 1
    BY <1>1, <1>2, <2>1, BeforeSeen
  <2>3. r \in 1..Len(source)
    BY <1>1, <2>2
  <2>4. Is(source, p - 1, Closers)
    BY <2>2, <2>3, CloserFacts DEF Is, Openers
  <2> QED
    BY <1>2, <2>4 DEF Is, Closers
<1> QED
  BY <1>1, <1>2 DEF Texts, TextNodes, Is

(* A tag and the end of it are alone together.                             *)
ClearBefore(p) == \/ p = 1
                  \/ Is(source, p - 1, {"text"}) /\ EndsLine(Original(p - 1), p = 2)
ClearAfter(p) == \/ End(p) = Len(source)
                 \/ /\ Is(source, After(p), {"text"})
                    /\ BeginsLine(Original(After(p)), After(p) = Len(source))
Solitary(p) == ClearBefore(p) /\ ClearAfter(p)

LEMMA AloneTogether ==
    ASSUME Parsed(source), ~Abrupt, NEW p, Tagged(p), NEW x \in {p, End(p)}
    PROVE  Alone(x) = Solitary(p)
<1>1. TagStart(x) = p /\ TagEnd(x) = End(p)
  BY TagSpan
<1>2. /\ LineTag(x) /\ After(p) = End(p) + 1 /\ End(p) \in p..Len(source)
      /\ p \in 1..Len(source) /\ Len(source) \in Nat
  BY EndFacts
<1>3. (After(p) = Len(source)) = (End(p) = Len(source) - 1)
  BY <1>2
<1>4. Alone(x) = (/\ \/ p = 1
                     \/ /\ Is(source, p - 1, {"text"})
                        /\ EndsLine(Original(p - 1), p = 2)
                  /\ \/ End(p) = Len(source)
                     \/ /\ Is(source, After(p), {"text"})
                        /\ BeginsLine(Original(After(p)), End(p) = Len(source) - 1))
  BY <1>1, <1>2 DEF Alone
<1> QED
  BY <1>3, <1>4 DEF Solitary, ClearBefore, ClearAfter

LEMMA SameTag ==
    ASSUME Parsed(source), ~Abrupt, NEW p, NEW r, Tagged(p), Tagged(r), End(p) = End(r)
    PROVE  p = r
<1>1. TagStart(End(p)) = p
  BY TagSpan
<1>2. TagStart(End(r)) = r
  BY TagSpan
<1> QED
  BY <1>1, <1>2

-----------------------------------------------------------------------------
(* Pieces of texts.                                                        *)
LEMMA Piece ==
    ASSUME NEW t \in Seq(Char), NEW a \in Nat \ {0}, NEW b \in 0..Len(t)
    PROVE  /\ SubSeq(t, a, b) \in Seq(Char)
           /\ Len(SubSeq(t, a, b)) = IF a <= b THEN b - a + 1 ELSE 0
           /\ \A i \in 1..Len(SubSeq(t, a, b)) : SubSeq(t, a, b)[i] = t[a + i - 1]
<1>1. a \in Int /\ b \in Int /\ \A i \in a..b : t[i] \in Char
  <2>1. Len(t) \in Nat /\ \A i \in 1..Len(t) : t[i] \in Char
    BY LenProperties, ElementOfSeq
  <2> QED
    BY <2>1
<1> QED
  BY <1>1, SubSeqProperties

IsPiece(u, t, a, b) ==
    /\ u \in Seq(Char)
    /\ Len(u) = IF a <= b THEN b - a + 1 ELSE 0
    /\ \A i \in 1..Len(u) : u[i] = t[a + i - 1]

LEMMA PieceIs ==
    ASSUME NEW t \in Seq(Char), NEW a \in Nat \ {0}, NEW b \in 0..Len(t)
    PROVE  IsPiece(SubSeq(t, a, b), t, a, b)
BY Piece DEF IsPiece

LEMMA PieceOfPiece ==
    ASSUME NEW t \in Seq(Char), NEW a \in Nat \ {0}, NEW b \in 0..Len(t), a <= b + 1,
           NEW c \in Nat \ {0}, NEW d \in 0..(b - a + 1)
    PROVE  SubSeq(SubSeq(t, a, b), c, d) = SubSeq(t, a + c - 1, a + d - 1)
<1> DEFINE u == SubSeq(t, a, b)
           v == SubSeq(u, c, d)
           w == SubSeq(t, a + c - 1, a + d - 1)
<1>0. Len(t) \in Nat
  BY LenProperties
<1>1. u \in Seq(Char) /\ Len(u) = b - a + 1 /\ \A i \in 1..Len(u) : u[i] = t[a + i - 1]
  BY <1>0, Piece
<1> HIDE DEF u
<1>2. /\ v \in Seq(Char) /\ Len(v) = (IF c <= d THEN d - c + 1 ELSE 0)
      /\ \A i \in 1..Len(v) : v[i] = u[c + i - 1]
  <2>1. d \in 0..Len(u)
    BY <1>1
  <2> QED
    BY <1>1, <2>1, Piece
<1>3. /\ w \in Seq(Char) /\ Len(w) = (IF a + c - 1 <= a + d - 1 THEN (a + d - 1) - (a + c - 1) + 1 ELSE 0)
      /\ \A i \in 1..Len(w) : w[i] = t[(a + c - 1) + i - 1]
  <2>1. a + c - 1 \in Nat \ {0} /\ a + d - 1 \in 0..Len(t)
    BY <1>0
  <2> QED
    BY <2>1, Piece
<1> HIDE DEF v, w
<1>4. Len(v) = Len(w)
  BY <1>2, <1>3
<1>5. \A i \in 1..Len(v) : v[i] = w[i]
  <2> TAKE i \in 1..Len(v)
  <2>0. v[i] = u[c + i - 1] /\ w[i] = t[(a + c - 1) + i - 1]
    BY <1>2, <1>3, <1>4
  <2> DEFINE l == Len(u)
             m == Len(v)
  <2>1. c + i - 1 \in 1..Len(u)
    <3>1. l = b - a + 1 /\ m = (IF c <= d THEN d - c + 1 ELSE 0) /\ i \in 1..m
      BY <1>1, <1>2
    <3>2. a \in Nat /\ b \in Nat /\ c \in Nat \ {0} /\ d \in 0..(b - a + 1)
      BY <1>0
    <3> HIDE DEF l, m
    <3>3. c + i - 1 \in 1..l
      BY <3>1, <3>2
    <3> QED
      BY <3>3 DEF l
  <2>2. u[c + i - 1] = t[a + (c + i - 1) - 1]
    BY <1>1, <2>1
  <2>3. a + (c + i - 1) - 1 = (a + c - 1) + i - 1
    BY <1>0, <2>1
  <2> QED
    BY <2>0, <2>1, <2>2, <2>3
<1>6. v = w
  BY <1>2, <1>3, <1>4, <1>5, SeqEqual
<1> QED
  BY <1>6 DEF v, w, u

(* The newlines of a text, first and last.                                 *)
LEMMA NewlineFacts ==
    ASSUME NEW t \in Seq(Char), Newlines(t) # {}
    PROVE  /\ LineEnd(t) \in Newlines(t) /\ LastNewline(t) \in Newlines(t)
           /\ LineEnd(t) \in 1..Len(t) /\ LastNewline(t) \in 1..Len(t) /\ Len(t) \in Nat
           /\ \A i \in Newlines(t) : LineEnd(t) <= i /\ i <= LastNewline(t)
<1>1. Len(t) \in Nat /\ Newlines(t) \in SUBSET (1..Len(t))
  BY LenProperties DEF Newlines
<1>2. LineEnd(t) \in Newlines(t) /\ \A i \in Newlines(t) : LineEnd(t) <= i
  BY <1>1, FirstIsMin DEF LineEnd
<1>3. LastNewline(t) \in Newlines(t) /\ \A i \in Newlines(t) : i <= LastNewline(t)
  BY <1>1, LastIsMax DEF LastNewline
<1> QED
  BY <1>1, <1>2, <1>3

(* Without its first line a text ends as before; but if that was all there *)
(* was before its last one, it has to be the first of its program.         *)
LEMMA FrontCut ==
    ASSUME NEW t \in Seq(Char), Newlines(t) # {}, NEW u, u = SubSeq(t, LineEnd(t) + 1, Len(t)),
           NEW first \in BOOLEAN, NEW any
    PROVE  /\ u \in Seq(Char)
           /\ EndsLine(u, first) = (EndsLine(t, any) /\ (LastNewline(t) # LineEnd(t) \/ first))
           /\ SubSeq(u, 1, LastNewline(u)) = SubSeq(t, LineEnd(t) + 1, LastNewline(t))
<1> DEFINE f == LineEnd(t)
           l == LastNewline(t)
           n == Len(t)
<1>1. /\ f \in Newlines(t) /\ l \in Newlines(t) /\ f \in 1..n /\ l \in 1..n /\ n \in Nat
      /\ \A i \in Newlines(t) : f <= i /\ i <= l
  BY NewlineFacts
<1>2. u \in Seq(Char) /\ Len(u) = n - f /\ \A i \in 1..(n - f) : u[i] = t[f + i]
  <2> DEFINE m == Len(u)
  <2>1. f + 1 \in Nat \ {0} /\ n \in 0..Len(t) /\ u = SubSeq(t, f + 1, n)
    BY <1>1
  <2> HIDE DEF f, n
  <2>0. IsPiece(SubSeq(t, f + 1, n), t, f + 1, n)
    BY <2>1, PieceIs
  <2>2. /\ u \in Seq(Char) /\ m = (IF f + 1 <= n THEN n - (f + 1) + 1 ELSE 0)
        /\ \A i \in 1..m : u[i] = t[(f + 1) + i - 1]
    BY <2>0, <2>1 DEF IsPiece
  <2> HIDE DEF m
  <2>3. m = n - f
    BY <1>1, <2>2
  <2>4. \A i \in 1..(n - f) : (f + 1) + i - 1 = f + i
    BY <1>1
  <2> QED
    BY <2>2, <2>3, <2>4 DEF m
<1>3. /\ \A i \in Newlines(u) : i \in 1..(n - f) /\ f + i \in Newlines(t)
      /\ \A i \in Newlines(t) : i \in 1..n /\ (f < i => i - f \in Newlines(u))
  <2> HIDE DEF f, n
  <2>1. ASSUME NEW i \in Newlines(u) PROVE i \in 1..(n - f) /\ f + i \in Newlines(t)
    <3>1. i \in 1..(n - f) /\ u[i] = "n"
      BY <1>2, <2>1 DEF Newlines
    <3>2. f + i \in 1..n
      BY <1>1, <3>1
    <3>3. t[f + i] = "n"
      BY <1>2, <3>1
    <3> QED
      BY <3>1, <3>2, <3>3 DEF Newlines, n
  <2>2. ASSUME NEW i \in Newlines(t) PROVE i \in 1..n /\ (f < i => i - f \in Newlines(u))
    <3>1. i \in 1..n /\ t[i] = "n"
      BY <2>2 DEF Newlines, n
    <3>2. ASSUME f < i PROVE i - f \in 1..(n - f) /\ f + (i - f) = i
      BY <1>1, <3>1, <3>2
    <3>3. ASSUME f < i PROVE i - f \in Newlines(u)
      BY <1>2, <3>1, <3>2, <3>3 DEF Newlines
    <3> QED
      BY <3>1, <3>3
  <2> QED
    BY <2>1, <2>2
<1> HIDE DEF f, l, n
<1>4. LastNewline(u) = l - f
  <2>1. CASE l = f
    <3>1. ASSUME NEW i \in Newlines(u) PROVE FALSE
      <4>1. i \in 1..(n - f) /\ f + i \in Newlines(t)
        BY <1>3, <3>1
      <4>2. f + i <= l
        BY <1>1, <4>1
      <4> QED
        BY <1>1, <2>1, <4>1, <4>2
    <3>2. Newlines(u) = {}
      BY <3>1
    <3> QED
      BY <1>1, <2>1, <3>2 DEF LastNewline
  <2>2. CASE l # f
    <3>1. l - f \in Newlines(u)
      BY <1>1, <1>3, <2>2
    <3>2. \A i \in Newlines(u) : i <= l - f
      <4> TAKE i \in Newlines(u)
      <4>1. i \in 1..(n - f) /\ f + i <= l
        BY <1>1, <1>3
      <4> QED
        BY <1>1, <4>1
    <3>3. LastNewline(u) \in Newlines(u) /\ \A i \in Newlines(u) : i <= LastNewline(u)
      BY <1>2, <3>1, NewlineFacts
    <3>4. LastNewline(u) \in 1..(n - f)
      BY <1>3, <3>3
    <3> QED
      BY <1>1, <3>1, <3>2, <3>3, <3>4
  <2> QED
    BY <2>1, <2>2
<1>5. (Newlines(u) # {}) = (l # f)
  <2>1. CASE l = f
    <3>1. ASSUME NEW i \in Newlines(u) PROVE FALSE
      <4>1. i \in 1..(n - f) /\ f + i \in Newlines(t)
        BY <1>3, <3>1
      <4>2. f + i <= l
        BY <1>1, <4>1
      <4> QED
        BY <1>1, <2>1, <4>1, <4>2
    <3> QED
      BY <2>1, <3>1
  <2>2. CASE l # f
    <3>1. l - f \in Newlines(u)
      BY <1>1, <1>3, <2>2
    <3> QED
      BY <2>2, <3>1
  <2> QED
    BY <2>1, <2>2
<1>6. Blanks(u, (l - f) + 1, n - f) = Blanks(t, l + 1, n)
  <2>1. ASSUME Blanks(t, l + 1, n), NEW i \in ((l - f) + 1)..(n - f) PROVE u[i] \in Blank
    <3>1. f + i \in (l + 1)..n /\ i \in 1..(n - f)
      BY <1>1
    <3> QED
      BY <1>2, <2>1, <3>1 DEF Blanks
  <2>2. ASSUME Blanks(u, (l - f) + 1, n - f), NEW i \in (l + 1)..n PROVE t[i] \in Blank
    <3>1. i - f \in ((l - f) + 1)..(n - f) /\ i - f \in 1..(n - f) /\ f + (i - f) = i
      BY <1>1
    <3> QED
      BY <1>2, <2>2, <3>1 DEF Blanks
  <2>3. Blanks(t, l + 1, n) \in BOOLEAN /\ Blanks(u, (l - f) + 1, n - f) \in BOOLEAN
    BY DEF Blanks
  <2>4. Blanks(t, l + 1, n) => Blanks(u, (l - f) + 1, n - f)
    BY <2>1 DEF Blanks
  <2>5. Blanks(u, (l - f) + 1, n - f) => Blanks(t, l + 1, n)
    BY <2>2 DEF Blanks
  <2> QED
    BY <2>3, <2>4, <2>5
<1>7. EndsLine(u, first) = ((Newlines(u) # {} \/ first) /\ Blanks(u, (l - f) + 1, n - f))
  BY <1>2, <1>4 DEF EndsLine
<1>8. EndsLine(t, any) = Blanks(t, l + 1, n)
  BY DEF EndsLine, l, n, Blanks
<1>9. SubSeq(u, 1, LastNewline(u)) = SubSeq(t, f + 1, l)
  <2>1. f + 1 \in Nat \ {0} /\ n \in 0..Len(t) /\ f + 1 <= n + 1 /\ 1 \in Nat \ {0} /\ l - f \in 0..(n - (f + 1) + 1)
    BY <1>1, NewlineFacts DEF n
  <2>2. SubSeq(SubSeq(t, f + 1, n), 1, l - f) = SubSeq(t, (f + 1) + 1 - 1, (f + 1) + (l - f) - 1)
    BY <2>1, PieceOfPiece
  <2>3. (f + 1) + 1 - 1 = f + 1 /\ (f + 1) + (l - f) - 1 = l
    BY <1>1
  <2>4. u = SubSeq(t, f + 1, n)
    BY DEF f, n
  <2> QED
    BY <1>4, <2>2, <2>3, <2>4
<1>10. EndsLine(u, first) = (EndsLine(t, any) /\ (l # f \/ first))
  BY <1>5, <1>6, <1>7, <1>8 DEF Blanks
<1> QED
  BY <1>2, <1>9, <1>10 DEF f, l

(* Up to its last line a text begins as before.                            *)
LEMMA BackCut ==
    ASSUME NEW t \in Seq(Char), Newlines(t) # {}, NEW u, u = SubSeq(t, 1, LastNewline(t)),
           NEW last \in BOOLEAN, NEW any \in BOOLEAN
    PROVE  /\ u \in Seq(Char) /\ BeginsLine(u, last) = BeginsLine(t, any)
           /\ SubSeq(u, LineEnd(u) + 1, Len(u)) = SubSeq(t, LineEnd(t) + 1, LastNewline(t))
<1> DEFINE f == LineEnd(t)
           l == LastNewline(t)
<1>1. /\ f \in Newlines(t) /\ l \in Newlines(t) /\ f \in 1..Len(t) /\ l \in 1..Len(t) /\ Len(t) \in Nat
      /\ \A i \in Newlines(t) : f <= i /\ i <= l
  BY NewlineFacts
<1>2. u \in Seq(Char) /\ Len(u) = l /\ \A i \in 1..l : u[i] = t[i]
  <2> DEFINE m == Len(u)
  <2>1. 1 \in Nat \ {0} /\ l \in 0..Len(t) /\ u = SubSeq(t, 1, l)
    BY <1>1
  <2> HIDE DEF l
  <2>0. IsPiece(SubSeq(t, 1, l), t, 1, l)
    BY <2>1, PieceIs
  <2>2. /\ u \in Seq(Char) /\ m = (IF 1 <= l THEN l - 1 + 1 ELSE 0)
        /\ \A i \in 1..m : u[i] = t[1 + i - 1]
    BY <2>0, <2>1 DEF IsPiece
  <2> HIDE DEF m
  <2>3. m = l
    BY <1>1, <2>2
  <2>4. \A i \in 1..l : 1 + i - 1 = i
    BY <1>1
  <2> QED
    BY <2>2, <2>3, <2>4 DEF m
<1>3. Newlines(u) = Newlines(t)
  <2>1. Newlines(t) = {i \in 1..Len(t) : t[i] = "n"} /\ Newlines(u) = {i \in 1..l : u[i] = "n"}
    BY <1>2 DEF Newlines
  <2> HIDE DEF l, f
  <2> QED
    BY <1>1, <1>2, <2>1
<1>4. LineEnd(u) = f
  BY <1>3 DEF LineEnd
<1> HIDE DEF f, l
<1>5. Blanks(u, 1, f - 1) = Blanks(t, 1, f - 1)
  <2>1. \A i \in 1..(f - 1) : u[i] = t[i]
    BY <1>1, <1>2
  <2> QED
    BY <2>1 DEF Blanks
<1>6. BeginsLine(u, last) = BeginsLine(t, any)
  BY <1>3, <1>4, <1>5 DEF BeginsLine, f
<1>7. SubSeq(u, LineEnd(u) + 1, Len(u)) = SubSeq(t, f + 1, l)
  <2>1. 1 \in Nat \ {0} /\ l \in 0..Len(t) /\ 1 <= l + 1 /\ f + 1 \in Nat \ {0} /\ l \in 0..(l - 1 + 1)
    BY <1>1
  <2>2. SubSeq(SubSeq(t, 1, l), f + 1, l) = SubSeq(t, 1 + (f + 1) - 1, 1 + l - 1)
    BY <2>1, PieceOfPiece
  <2>3. 1 + (f + 1) - 1 = f + 1 /\ 1 + l - 1 = l
    BY <1>1
  <2>4. u = SubSeq(t, 1, l)
    BY DEF l
  <2> QED
    BY <1>2, <1>4, <2>2, <2>3, <2>4
<1> QED
  BY <1>2, <1>6, <1>7 DEF f, l

LEMMA OnlyNewline ==
    ASSUME NEW t \in Seq(Char), Newlines(t) # {}, LineEnd(t) = LastNewline(t), NEW x, NEW y,
           BeginsLine(t, x), EndsLine(t, y)
    PROVE  Solid(t) = {} /\ Cardinality(Newlines(t)) = 1
<1> DEFINE f == LineEnd(t)
<1>1. /\ f \in Newlines(t) /\ f \in 1..Len(t) /\ Len(t) \in Nat
      /\ \A i \in Newlines(t) : f <= i /\ i <= f
  BY NewlineFacts
<1>2. Blanks(t, 1, f - 1) /\ Blanks(t, f + 1, Len(t))
  BY DEF BeginsLine, EndsLine
<1> HIDE DEF f
<1>3. \A i \in Newlines(t) : i = f
  <2> TAKE i \in Newlines(t)
  <2>1. i \in 1..Len(t) /\ f <= i /\ i <= f
    BY <1>1 DEF Newlines
  <2> QED
    BY <1>1, <2>1
<1>4. Newlines(t) = {f}
  BY <1>1, <1>3
<1>5. Cardinality(Newlines(t)) = 1
  BY <1>4, FS_Singleton
<1>6. \A i \in 1..Len(t) : t[i] \in White
  <2> TAKE i \in 1..Len(t)
  <2>1. CASE i = f
    BY <1>1, <2>1 DEF Newlines, White
  <2>2. CASE i # f
    <3>1. i \in 1..(f - 1) \/ i \in (f + 1)..Len(t)
      BY <1>1, <2>2
    <3> QED
      BY <1>2, <3>1 DEF Blanks, Blank, White
  <2> QED
    BY <2>1, <2>2
<1> QED
  BY <1>5, <1>6 DEF Solid

(* A text without the line of the tag before it, of the tag after it.      *)
LineCut(t, front, back) ==
    SubSeq(t, IF front THEN LineEnd(t) + 1 ELSE 1, IF back THEN LastNewline(t) ELSE Len(t))

LEMMA Uncut == ASSUME NEW t \in Seq(Char) PROVE LineCut(t, FALSE, FALSE) = t
BY SubSeqFull DEF LineCut

LEMMA CutEnd ==
    ASSUME NEW t \in Seq(Char), NEW front \in BOOLEAN, front => Newlines(t) # {},
           NEW u, u = LineCut(t, front, FALSE)
    PROVE  SubSeq(u, 1, LastNewline(u)) = LineCut(t, front, TRUE)
<1>1. CASE front
  <2>1. u = SubSeq(t, LineEnd(t) + 1, Len(t)) /\ Newlines(t) # {}
    BY <1>1 DEF LineCut
  <2>2. SubSeq(u, 1, LastNewline(u)) = SubSeq(t, LineEnd(t) + 1, LastNewline(t))
    BY <2>1, FrontCut
  <2> QED
    BY <1>1, <2>2 DEF LineCut
<1>2. CASE ~front
  <2>1. u = t
    BY <1>2, Uncut
  <2> QED
    BY <1>2, <2>1 DEF LineCut
<1> QED
  BY <1>1, <1>2

LEMMA CutStart ==
    ASSUME NEW t \in Seq(Char), NEW back \in BOOLEAN, back => Newlines(t) # {},
           NEW u, u = LineCut(t, FALSE, back)
    PROVE  SubSeq(u, LineEnd(u) + 1, Len(u)) = LineCut(t, TRUE, back)
<1>1. CASE back
  <2>1. u = SubSeq(t, 1, LastNewline(t)) /\ Newlines(t) # {}
    BY <1>1 DEF LineCut
  <2>2. SubSeq(u, LineEnd(u) + 1, Len(u)) = SubSeq(t, LineEnd(t) + 1, LastNewline(t))
    BY <1>1, <2>1, BackCut
  <2> QED
    BY <1>1, <2>2 DEF LineCut
<1>2. CASE ~back
  <2>1. u = t
    BY <1>2, Uncut
  <2> QED
    BY <1>2, <2>1 DEF LineCut
<1> QED
  BY <1>1, <1>2

-----------------------------------------------------------------------------
(* The order of the attempts: those of a block come with its opening.      *)
OwnedBy(a, o) == (a = o /\ Is(source, a, {"comment", "partial", "inline", "open"})) \/ Belongs(source, a, o)
Precedes(a, b) == \E o, r : OwnedBy(a, o) /\ OwnedBy(b, r) /\ (o < r \/ (o = r /\ a < b))

LEMMA OwnerTyped ==
    ASSUME Parsed(source), NEW a, NEW o, OwnedBy(a, o)
    PROVE  a \in 1..Len(source) /\ o \in 1..Len(source) /\ Len(source) \in Nat
<1>1. CASE Belongs(source, a, o)
  BY <1>1, BelongsFacts, ParsedFacts
<1>2. CASE a = o /\ Is(source, a, {"comment", "partial", "inline", "open"})
  BY <1>2, ParsedFacts DEF Is
<1> QED
  BY <1>1, <1>2 DEF OwnedBy

LEMMA OwnedOnce ==
    ASSUME Parsed(source), NEW a, NEW o, NEW r, OwnedBy(a, o), OwnedBy(a, r)
    PROVE  o = r
<1>1. CASE Belongs(source, a, o) /\ Belongs(source, a, r)
  BY <1>1, OneOwner
<1>2. CASE ~(Belongs(source, a, o) /\ Belongs(source, a, r))
  BY <1>2 DEF OwnedBy, Belongs, Is
<1> QED
  BY <1>1, <1>2

LEMMA NotTwice == ASSUME Parsed(source), NEW a PROVE ~Precedes(a, a)
<1> SUFFICES ASSUME Precedes(a, a) PROVE FALSE
  OBVIOUS
<1>1. PICK o, r : OwnedBy(a, o) /\ OwnedBy(a, r) /\ (o < r \/ (o = r /\ a < a))
  BY DEF Precedes
<1>2. o = r /\ o \in Nat /\ a \in Nat
  <2>1. a \in 1..Len(source) /\ o \in 1..Len(source) /\ Len(source) \in Nat
    BY <1>1, OwnerTyped
  <2> QED
    BY <1>1, <2>1, OwnedOnce
<1> QED
  BY <1>1, <1>2

(* An end or an else is tried before what stands on the line before it.    *)
LEMMA EndComesFirst ==
    ASSUME Parsed(source), NEW q \in Texts, Tagged(q + 1), source[q + 1].kind \in {"else", "close"},
           NEW h, Tagged(h), End(h) = q - 1,
           source[q - 1].kind \in {"comment", "partial", "endinline", "close"}
    PROVE  ~Precedes(h, q + 1)
<1> DEFINE p == q + 1
<1>1. /\ q \in 1..Len(source) /\ source[q].kind = "text" /\ p \in 1..Len(source) /\ Len(source) \in Nat
      /\ h \in 1..Len(source) /\ End(h) \in h..Len(source) /\ ~Hidden(source, p) /\ ~Hidden(source, h)
  BY EndFacts, ParsedFacts DEF Texts, TextNodes, Tagged
<1>2. PICK o \in 1..(p - 1) : Belongs(source, p, o)
  <2>1. Is(source, p, Closers \cup {"else"}) /\ Formed(source, p)
    BY <1>1, ParsedFacts DEF Is, Closers
  <2> QED
    BY <2>1 DEF Formed
<1>3. /\ o \in 1..Len(source) /\ Is(source, o, Openers) /\ p \in (o + 1)..CloseOf(source, o)
      /\ source[o].kind = "open" /\ ~Hidden(source, o) /\ o # q /\ o <= q - 1
  <2>1. o \in 1..Len(source) /\ Is(source, o, Openers) /\ p \in (o + 1)..CloseOf(source, o)
    BY <1>2, BelongsFacts
  <2>2. source[o].kind = "open"
    BY <1>2 DEF Belongs, Is
  <2>3. ~Hidden(source, o)
    BY <1>1, <1>2, OwnerSeen
  <2> QED
    BY <1>1, <1>2, <2>1, <2>2, <2>3
<1>4. \E r : OwnedBy(h, r) /\ o < r
  <2>1. CASE source[h].kind \in {"comment", "partial"}
    <3>1. h = q - 1
      BY <2>1 DEF End
    <3>2. o < h
      BY <1>1, <1>3, <2>1, <3>1
    <3> QED
      BY <1>1, <2>1, <3>2 DEF OwnedBy, Is
  <2>2. CASE source[h].kind = "inline"
    <3>1. CloseOf(source, h) = q - 1
      BY <2>2 DEF End
    <3>2. ~(h < o)
      <4> SUFFICES ASSUME h < o PROVE FALSE
        OBVIOUS
      <4>1. h \in 1..(o - 1) /\ o <= CloseOf(source, h)
        BY <1>1, <1>3, <3>1
      <4> QED
        BY <1>3, <2>2, <4>1 DEF Hidden
    <3>3. o < h
      BY <1>1, <1>3, <2>2, <3>2
    <3> QED
      BY <1>1, <2>2, <3>3 DEF OwnedBy, Is
  <2>3. CASE source[h].kind = "close"
    <3>1. h = q - 1
      BY <2>3 DEF End
    <3>2. PICK r \in 1..(h - 1) : Belongs(source, h, r)
      <4>1. Is(source, h, Closers \cup {"else"}) /\ Formed(source, h)
        BY <1>1, <2>3, ParsedFacts DEF Is, Closers
      <4> QED
        BY <4>1 DEF Formed
    <3>3. CloseOf(source, r) = h /\ r \in 1..Len(source) /\ Is(source, r, Openers)
      BY <2>3, <3>2, BelongsFacts DEF Belongs, Is
    <3>4. r # o
      BY <1>1, <1>3, <3>1, <3>3
    <3>5. ~(r < o)
      <4> SUFFICES ASSUME r < o PROVE FALSE
        OBVIOUS
      <4>1. o <= CloseOf(source, r)
        BY <1>3, <3>1, <3>3
      <4>2. CloseOf(source, o) < CloseOf(source, r) /\ CloseOf(source, o) \in 1..Len(source)
        BY <1>3, <3>3, <4>1, NestedClose, CloserFacts
      <4> QED
        BY <1>1, <1>3, <3>1, <3>3, <4>2
    <3>6. o < r
      BY <1>1, <1>3, <3>2, <3>4, <3>5
    <3> QED
      BY <3>2, <3>6 DEF OwnedBy
  <2>4. source[h].kind \in {"comment", "partial", "inline", "close"}
    BY DEF Tagged, Is, End
  <2> QED
    BY <2>1, <2>2, <2>3, <2>4
<1> SUFFICES ASSUME Precedes(h, p) PROVE FALSE
  OBVIOUS
<1>5. PICK a, b : OwnedBy(h, a) /\ OwnedBy(p, b) /\ (a < b \/ (a = b /\ h < p))
  BY DEF Precedes
<1>6. PICK r : OwnedBy(h, r) /\ o < r
  BY <1>4
<1>7. a = r /\ b = o
  BY <1>2, <1>5, <1>6, OwnedOnce DEF OwnedBy
<1>8. r \in Nat /\ o \in Nat
  BY <1>3, <1>6, OwnerTyped
<1> QED
  BY <1>5, <1>6, <1>7, <1>8

-----------------------------------------------------------------------------
(* The invariant of the two passes.  A tag waits while it has still to be  *)
(* tried.                                                                  *)
Waits(p) == \E i \in 1..Len(todo) : todo[i] \in Tries(source) /\ todo[i].at = p
Strips(op, q) == \E i \in 1..Len(todo) : todo[i] = [op |-> op, at |-> q]

FrontDone(q) == Alone(q - 1) /\ ~\E p : Tagged(p) /\ After(p) = q /\ Waits(p)
BackDone(q) == Alone(q + 1) /\ ~Waits(q + 1)

(* The first pass comes before the second, and its tags in their order.    *)
Orderly ==
    /\ \A i \in 1..Len(todo) : todo[i] \in Tries(source) => Tagged(todo[i].at)
    /\ \A i, j \in 1..Len(todo) : i < j /\ todo[j] \in Tries(source) =>
          todo[i] \in Tries(source) /\ Precedes(todo[i].at, todo[j].at)
    /\ \A p : Tagged(p) => \/ Waits(p)
                           \/ \A i \in 1..Len(todo) : todo[i] \in Tries(source) => Precedes(p, todo[i].at)

AllTrims == \A q \in Texts :
    /\ Strips("leading", q) = (q > 1 /\ source[q - 1].right)
    /\ Strips("trailing", q) = (q < Len(source) /\ source[q + 1].left)

(* In the first pass a text is as written but for the lines of the tags    *)
(* around it that have been tried.                                         *)
AsCut == \A q \in Texts : text[q] = LineCut(Original(q), FrontDone(q), BackDone(q))
Cutting == Orderly /\ AllTrims /\ AsCut

(* In the second, what it will yet make of a text is what is documented.   *)
Rest(q) ==
    LET led == IF Strips("leading", q) THEN WithoutLeading(text[q]) ELSE text[q]
    IN IF Strips("trailing", q) THEN WithoutTrailing(led) ELSE led
Trimming == /\ \A i \in 1..Len(todo) : todo[i] \notin Tries(source)
            /\ \A q \in Texts : Rest(q) = Documented(q)

-----------------------------------------------------------------------------
(* What is tried is found alone exactly if it is alone as written.         *)
LEMMA TextTyped ==
    ASSUME WInv, NEW q \in Texts
    PROVE  /\ Parsed(source) /\ q \in 1..Len(source) /\ Len(source) \in Nat
           /\ Original(q) \in Seq(Char) /\ text[q] \in Seq(Char) /\ Is(source, q, {"text"})
<1>1. Parsed(source)
  BY DEF WInv, Parsed
<1>2. q \in 1..Len(source) /\ Len(source) \in Nat /\ Is(source, q, {"text"})
  BY <1>1, ParsedFacts DEF Texts, TextNodes, Is
<1>3. source[q] \in Item
  BY <1>1, <1>2, ParsedFacts
<1> QED
  BY <1>1, <1>2, <1>3 DEF Item, Original, Char, WInv, TextsSolid

LEMMA BetweenTags ==
    ASSUME WInv, ~Abrupt, NEW q \in Texts, LineTag(q - 1), LineTag(q + 1), ~Siblings(q - 1, q + 1)
    PROVE  ~Blanks(Original(q), 1, Len(Original(q)))
<1>1. /\ q \in 1..Len(source) /\ q - 1 \in 1..Len(source) /\ q + 1 \in 1..Len(source)
      /\ (q - 1) + 1 = q /\ q + 1 = (q - 1) + 2 /\ source[q].kind = "text"
      /\ Parsed(source) /\ ~Hidden(source, q)
  BY TextTyped DEF LineTag, Texts, TextNodes
<1>2. ~Hidden(source, q + 1)
  BY <1>1, NextSeen
<1> SUFFICES ASSUME Blanks(Original(q), 1, Len(Original(q))) PROVE FALSE
  OBVIOUS
<1>3. Adjoin(q - 1, q + 1)
  BY <1>1 DEF Adjoin
<1> QED
  BY <1>1, <1>2, <1>3 DEF Abrupt

LEMMA FrontFacts ==
    ASSUME WInv, ~Abrupt, NEW q \in Texts, FrontDone(q)
    PROVE  \E h : /\ Tagged(h) /\ End(h) = q - 1 /\ ~Waits(h) /\ LineTag(q - 1)
                  /\ BeginsLine(Original(q), q = Len(source))
<1>1. Alone(q - 1) /\ LineTag(q - 1)
  BY DEF FrontDone, Alone
<1>2. Parsed(source) /\ q \in 1..Len(source) /\ Len(source) \in Nat /\ q - 1 \in 1..Len(source)
  BY <1>1, TextTyped DEF LineTag
<1>3. PICK h \in 1..(q - 1) : Tagged(h) /\ End(h) = q - 1
  BY <1>1, <1>2, Neighbours
<1>4. After(h) = q
  BY <1>2, <1>3, EndFacts
<1>5. Solitary(h)
  BY <1>1, <1>2, <1>3, AloneTogether
<1>6. BeginsLine(Original(q), q = Len(source))
  BY <1>2, <1>3, <1>4, <1>5 DEF Solitary, ClearAfter
<1> QED
  BY <1>1, <1>3, <1>4, <1>6 DEF FrontDone

LEMMA BackFacts ==
    ASSUME WInv, ~Abrupt, NEW q \in Texts, BackDone(q)
    PROVE  LineTag(q + 1) /\ Tagged(q + 1) /\ EndsLine(Original(q), q = 1)
<1>1. Alone(q + 1) /\ LineTag(q + 1)
  BY DEF BackDone, Alone
<1>2. Parsed(source) /\ q \in 1..Len(source) /\ Len(source) \in Nat /\ (q + 1) - 1 = q
  BY TextTyped
<1>3. Tagged(q + 1)
  BY <1>1, <1>2, Neighbours
<1>4. Solitary(q + 1)
  BY <1>1, <1>2, <1>3, AloneTogether
<1>5. EndsLine(Original((q + 1) - 1), q + 1 = 2)
  BY <1>2, <1>4 DEF Solitary, ClearBefore, Is
<1>6. (q + 1 = 2) = (q = 1)
  BY <1>2
<1> QED
  BY <1>1, <1>2, <1>3, <1>5, <1>6

LEMMA BeforeAsWritten ==
    ASSUME WInv, ~Abrupt, ~Crowded, Orderly, AsCut, NEW q \in Texts, Tagged(q + 1), Waits(q + 1)
    PROVE  /\ text[q] = LineCut(Original(q), FrontDone(q), FALSE)
           /\ FrontDone(q) => Newlines(Original(q)) # {}
           /\ \/ EndsLine(text[q], AtStart(source, q)) = EndsLine(Original(q), q = 1)
              \/ ~EndsLine(text[q], AtStart(source, q)) /\ ~Solitary(q + 1)
<1> DEFINE t == Original(q)
           first == AtStart(source, q)
<1>1. /\ Parsed(source) /\ q \in 1..Len(source) /\ Len(source) \in Nat /\ t \in Seq(Char)
      /\ q + 1 \in 1..Len(source) /\ LineTag(q + 1) /\ Is(source, q, {"text"})
  BY TextTyped, EndFacts
<1>2. text[q] = LineCut(t, FrontDone(q), FALSE)
  <2>1. ~BackDone(q)
    BY DEF BackDone
  <2>2. BackDone(q) = FALSE
    BY <2>1 DEF BackDone
  <2> QED
    BY <2>2 DEF AsCut
<1>3. first \in BOOLEAN /\ first = (q = 1 \/ Is(source, q - 1, {"open", "else"}))
  BY DEF AtStart, Is
<1>4. EndsLine(t, first) \in BOOLEAN /\ EndsLine(t, q = 1) \in BOOLEAN
  BY DEF EndsLine, Blanks
<1> HIDE DEF t
<1>5. CASE ~FrontDone(q)
  <2>1. FrontDone(q) = FALSE
    BY <1>5 DEF FrontDone
  <2>2. text[q] = t
    BY <1>1, <1>2, <2>1, Uncut
  <2>3. CASE Newlines(t) # {}
    BY <1>2, <1>5, <2>2, <2>3 DEF EndsLine, t
  <2>4. CASE Newlines(t) = {}
    <3>1. ASSUME EndsLine(t, first), q # 1 PROVE FALSE
      <4>1. LineTag(q - 1) /\ ~Siblings(q - 1, q + 1)
        BY <1>1, <1>3, <2>4, <3>1 DEF EndsLine, LineTag, Is, Siblings
      <4>2. ~Blanks(t, 1, Len(t))
        BY <1>1, <4>1, BetweenTags DEF t
      <4>3. Blanks(t, 1, Len(t))
        BY <2>4, <3>1 DEF EndsLine, LastNewline
      <4> QED
        BY <4>2, <4>3
    <3>2. EndsLine(t, q = 1) => q = 1 /\ EndsLine(t, first)
      BY <1>3, <2>4 DEF EndsLine
    <3>3. q = 1 /\ EndsLine(t, first) => EndsLine(t, q = 1)
      BY DEF EndsLine
    <3>4. EndsLine(t, first) = EndsLine(t, q = 1)
      BY <1>4, <3>1, <3>2, <3>3
    <3> QED
      BY <1>2, <1>5, <2>2, <3>4 DEF t
  <2> QED
    BY <2>3, <2>4
<1>6. CASE FrontDone(q)
  <2>1. PICK h : /\ Tagged(h) /\ End(h) = q - 1 /\ ~Waits(h) /\ LineTag(q - 1)
                 /\ BeginsLine(t, q = Len(source))
    BY <1>6, FrontFacts DEF t
  <2>2. q # Len(source)
    BY <1>1
  <2>3. Newlines(t) # {}
    BY <2>1, <2>2 DEF BeginsLine
  <2>4. text[q] = SubSeq(t, LineEnd(t) + 1, Len(t))
    BY <1>2, <1>6 DEF LineCut
  <2>5. EndsLine(text[q], first) = (EndsLine(t, q = 1) /\ (LastNewline(t) # LineEnd(t) \/ first))
    BY <1>1, <1>3, <2>3, <2>4, FrontCut
  <2>6. ASSUME EndsLine(t, q = 1), LastNewline(t) = LineEnd(t), ~first, Solitary(q + 1) PROVE FALSE
    <3>1. Precedes(h, q + 1)
      BY <2>1 DEF Orderly, Waits
    <3>2. source[q - 1].kind \in {"comment", "partial", "inline", "endinline", "close"}
      <4>1. q - 1 \in 1..Len(source) /\ source[q - 1] \in Item
        BY <1>1, <2>1, ParsedFacts DEF LineTag
      <4> QED
        BY <1>3, <2>1, <2>6, <4>1 DEF LineTag, Is, Item, Kinds
    <3>3. source[q - 1].kind # "inline"
      <4> SUFFICES ASSUME source[q - 1].kind = "inline" PROVE FALSE
        OBVIOUS
      <4>1. q - 1 \in 1..Len(source)
        BY <2>1 DEF LineTag
      <4>2. CASE source[h].kind = "inline"
        <5>1. h \in 1..Len(source) /\ Is(source, q - 1, Closers)
          BY <2>1, <4>2, CloserFacts, EndFacts, <1>1 DEF End, Is, Openers
        <5> QED
          BY <5>1 DEF Is, Closers
      <4>3. CASE source[h].kind # "inline"
        BY <2>1, <4>3 DEF End
      <4> QED
        BY <4>2, <4>3
    <3>4. source[q + 1].kind \notin {"else", "close"}
      BY <1>1, <2>1, <3>1, <3>2, <3>3, EndComesFirst
    <3>5. Is(source, q + 1, {"comment", "partial", "inline", "open"})
      BY <3>4 DEF Tagged, Is
    <3>6. Is(source, q - 1, {"comment", "partial", "endinline", "close"}) /\ q > 1
      BY <1>1, <2>1, <3>2, <3>3 DEF LineTag, Is
    <3>7. Alone(q - 1)
      BY <1>6 DEF FrontDone
    <3>8. Alone(q + 1)
      BY <1>1, <2>6, AloneTogether
    <3>9. Cardinality(Newlines(t)) = 1 /\ Solid(t) = {}
      BY <1>1, <2>1, <2>3, <2>6, OnlyNewline
    <3> QED
      BY <3>5, <3>6, <3>7, <3>8, <3>9 DEF Crowded, Siblings, t
  <2>7. EndsLine(text[q], first) \in BOOLEAN
    BY DEF EndsLine, Blanks
  <2>8. \/ EndsLine(text[q], first) = EndsLine(t, q = 1)
        \/ ~EndsLine(text[q], first) /\ ~Solitary(q + 1)
    BY <1>4, <2>5, <2>6, <2>7
  <2> QED
    BY <1>2, <2>3, <2>8 DEF t
<1> QED
  BY <1>5, <1>6

LEMMA AfterAsWritten ==
    ASSUME WInv, ~Abrupt, AsCut, NEW q \in Texts, NEW p, Tagged(p), After(p) = q, Waits(p)
    PROVE  /\ text[q] = LineCut(Original(q), FALSE, BackDone(q))
           /\ BackDone(q) => Newlines(Original(q)) # {}
           /\ BeginsLine(text[q], AtEnd(source, q)) = BeginsLine(Original(q), q = Len(source))
<1> DEFINE t == Original(q)
           last == AtEnd(source, q)
<1>1. /\ Parsed(source) /\ q \in 1..Len(source) /\ Len(source) \in Nat /\ t \in Seq(Char)
      /\ p \in 1..Len(source) /\ End(p) \in p..Len(source) /\ End(p) = q - 1 /\ LineTag(q - 1)
  <2>1. /\ Parsed(source) /\ q \in 1..Len(source) /\ Len(source) \in Nat /\ t \in Seq(Char)
    BY TextTyped
  <2>2. /\ p \in 1..Len(source) /\ End(p) \in p..Len(source) /\ q = End(p) + 1 /\ LineTag(End(p))
    BY <2>1, EndFacts
  <2>3. End(p) = q - 1
    BY <2>1, <2>2
  <2> QED
    BY <2>1, <2>2, <2>3
<1>2. text[q] = LineCut(t, FALSE, BackDone(q))
  <2>1. FrontDone(q) = FALSE
    BY DEF FrontDone
  <2> QED
    BY <2>1 DEF AsCut
<1>3. last \in BOOLEAN /\ last = (q = Len(source) \/ Is(source, q + 1, {"else", "close"}))
  BY DEF AtEnd, Is
<1>4. BeginsLine(t, last) \in BOOLEAN /\ BeginsLine(t, q = Len(source)) \in BOOLEAN
  BY <1>3 DEF BeginsLine, Blanks
<1> HIDE DEF t
<1>5. CASE ~BackDone(q)
  <2>1. BackDone(q) = FALSE
    BY <1>5 DEF BackDone
  <2>2. text[q] = t
    BY <1>1, <1>2, <2>1, Uncut
  <2>3. CASE Newlines(t) # {}
    BY <1>2, <1>5, <2>2, <2>3 DEF BeginsLine, t
  <2>4. CASE Newlines(t) = {}
    <3>1. ASSUME BeginsLine(t, last), q # Len(source) PROVE FALSE
      <4>1. LineTag(q + 1) /\ ~Siblings(q - 1, q + 1)
        BY <1>1, <1>3, <2>4, <3>1 DEF BeginsLine, LineTag, Is, Siblings
      <4>2. ~Blanks(t, 1, Len(t))
        BY <1>1, <4>1, BetweenTags DEF t
      <4>3. Blanks(t, 1, Len(t))
        BY <2>4, <3>1 DEF BeginsLine
      <4> QED
        BY <4>2, <4>3
    <3>2. BeginsLine(t, q = Len(source)) => q = Len(source) /\ BeginsLine(t, last)
      BY <1>3, <2>4 DEF BeginsLine
    <3>3. q = Len(source) /\ BeginsLine(t, last) => BeginsLine(t, q = Len(source))
      BY <2>4 DEF BeginsLine
    <3>4. BeginsLine(t, last) = BeginsLine(t, q = Len(source))
      BY <1>4, <3>1, <3>2, <3>3
    <3> QED
      BY <1>2, <1>5, <2>2, <3>4 DEF t
  <2> QED
    BY <2>3, <2>4
<1>6. CASE BackDone(q)
  <2>1. EndsLine(t, q = 1)
    BY <1>6, BackFacts DEF t
  <2>2. q # 1
    BY <1>1
  <2>3. Newlines(t) # {}
    BY <2>1, <2>2 DEF EndsLine
  <2>4. text[q] = SubSeq(t, 1, LastNewline(t))
    BY <1>2, <1>6 DEF LineCut
  <2>5. BeginsLine(text[q], last) = BeginsLine(t, q = Len(source))
    <3>1. (q = Len(source)) \in BOOLEAN
      OBVIOUS
    <3> HIDE DEF last
    <3> QED
      BY <1>1, <1>3, <2>3, <2>4, <3>1, BackCut
  <2> QED
    BY <1>2, <2>3, <2>5 DEF t
<1> QED
  BY <1>5, <1>6

(* Standalone is true exactly of the tags that are alone as written.       *)
LEMMA TriedAsWritten ==
    ASSUME WInv, ~Abrupt, ~Crowded, Orderly, AsCut, NEW p, Tagged(p), Waits(p)
    PROVE  Standalone(p) = Solitary(p)
<1>1. Parsed(source)
  BY DEF WInv, Parsed
<1>2. /\ p \in 1..Len(source) /\ Len(source) \in Nat /\ End(p) \in p..Len(source) /\ After(p) = End(p) + 1
      /\ LineTag(p) /\ LineTag(End(p)) /\ Before(p) = p - 1 /\ After(p) - 1 = End(p)
  BY <1>1, EndFacts DEF Before
<1>3. ~Is(source, p - 1, {"open", "else"}) /\ ~Is(source, After(p), {"else", "close"})
  <2>1. ASSUME Is(source, p - 1, {"open", "else"}) PROVE FALSE
    <3>1. LineTag(p - 1) /\ p - 1 \in 1..Len(source) /\ ~Siblings(p - 1, p)
      BY <2>1 DEF LineTag, Is, Siblings
    <3>2. Adjoin(p - 1, p) /\ ~Hidden(source, p)
      BY <1>2, <3>1 DEF Adjoin, Tagged
    <3> QED
      BY <1>2, <3>1, <3>2 DEF Abrupt
  <2>2. ASSUME Is(source, After(p), {"else", "close"}) PROVE FALSE
    <3>1. LineTag(After(p)) /\ After(p) \in 1..Len(source) /\ ~Siblings(End(p), After(p))
      BY <2>2 DEF LineTag, Is, Siblings
    <3>2. Adjoin(End(p), After(p)) /\ ~Hidden(source, After(p)) /\ End(p) \in 1..Len(source)
      BY <1>1, <1>2, <3>1, EndFacts DEF Adjoin
    <3> QED
      BY <3>1, <3>2 DEF Abrupt
  <2> QED
    BY <2>1, <2>2
<1>5. PrevOk(p) = ClearBefore(p) \/ (~PrevOk(p) /\ ~Solitary(p))
  <2>1. CASE Is(source, p - 1, {"text"})
    <3>1. p - 1 \in Texts /\ (p - 1) + 1 = p /\ p # 1 /\ (p - 1 = 1) = (p = 2)
      BY <1>1, <1>2, <2>1, TextsAround DEF Is
    <3>2. \/ EndsLine(text[p - 1], AtStart(source, p - 1)) = EndsLine(Original(p - 1), p - 1 = 1)
          \/ ~EndsLine(text[p - 1], AtStart(source, p - 1)) /\ ~Solitary((p - 1) + 1)
      <4>1. Tagged((p - 1) + 1) /\ Waits((p - 1) + 1)
        BY <3>1
      <4> QED
        BY <3>1, <4>1, BeforeAsWritten
    <3>3. PrevOk(p) = EndsLine(text[p - 1], AtStart(source, p - 1))
      BY <1>2, <2>1 DEF PrevOk
    <3>4. ClearBefore(p) = EndsLine(Original(p - 1), p - 1 = 1)
      BY <2>1, <3>1 DEF ClearBefore, EndsLine, Blanks
    <3> QED
      BY <3>1, <3>2, <3>3, <3>4
  <2>2. CASE ~Is(source, p - 1, {"text"})
    <3>1. PrevOk(p) = (p = 1)
      BY <1>2, <1>3, <2>2 DEF PrevOk, AtStart
    <3>2. ClearBefore(p) = (p = 1)
      BY <2>2 DEF ClearBefore
    <3> QED
      BY <3>1, <3>2
  <2> QED
    BY <2>1, <2>2
<1>6. NextOk(p) = ClearAfter(p)
  <2>1. CASE Is(source, After(p), {"text"})
    <3>1. After(p) \in Texts /\ End(p) # Len(source)
      BY <1>1, <1>2, <2>1, TextsAround DEF Is
    <3>2. BeginsLine(text[After(p)], AtEnd(source, After(p)))
          = BeginsLine(Original(After(p)), After(p) = Len(source))
      BY <3>1, AfterAsWritten
    <3>3. NextOk(p) = BeginsLine(text[After(p)], AtEnd(source, After(p)))
      BY <2>1 DEF NextOk
    <3>4. ClearAfter(p) = BeginsLine(Original(After(p)), After(p) = Len(source))
      BY <2>1, <3>1 DEF ClearAfter, BeginsLine, Blanks
    <3> QED
      BY <3>2, <3>3, <3>4
  <2>2. CASE ~Is(source, After(p), {"text"})
    <3>1. NextOk(p) = (End(p) = Len(source))
      BY <1>2, <1>3, <2>2 DEF NextOk, AtEnd
    <3>2. ClearAfter(p) = (End(p) = Len(source))
      BY <2>2 DEF ClearAfter
    <3> QED
      BY <3>1, <3>2
  <2> QED
    BY <2>1, <2>2
<1>7. /\ Standalone(p) = (PrevOk(p) /\ NextOk(p)) /\ Solitary(p) = (ClearBefore(p) /\ ClearAfter(p))
      /\ ClearBefore(p) \in BOOLEAN /\ ClearAfter(p) \in BOOLEAN
  BY DEF Standalone, Solitary, ClearBefore, ClearAfter
<1> QED
  BY <1>5, <1>6, <1>7

-----------------------------------------------------------------------------
(* A step takes the first edit off the list and leaves the template alone. *)
LEMMA SameTemplate ==
    ASSUME UNCHANGED source
    PROVE  /\ Texts' = Texts /\ TextNodes' = TextNodes /\ Tries(source)' = Tries(source)
           /\ Abrupt' = Abrupt /\ Crowded' = Crowded /\ Embedded' = Embedded
           /\ \A p : /\ Tagged(p)' = Tagged(p) /\ After(p)' = After(p) /\ Alone(p)' = Alone(p)
                     /\ Original(p)' = Original(p) /\ Documented(p)' = Documented(p)
           /\ \A a, b : Precedes(a, b)' = Precedes(a, b)
<1>1. Texts' = Texts /\ TextNodes' = TextNodes /\ Tries(source)' = Tries(source)
  BY DEF Texts, TextNodes, Tries
<1>2. /\ \A p : Tagged(p)' = Tagged(p) /\ After(p)' = After(p) /\ LineTag(p)' = LineTag(p)
      /\ \A p : Original(p)' = Original(p)
      /\ \A o, p : Holds(o, p)' = Holds(o, p) /\ Siblings(o, p)' = Siblings(o, p)
  BY DEF Tagged, After, LineTag, Original, Holds, Siblings
<1>3. \A p : TagStart(p)' = TagStart(p) /\ TagEnd(p)' = TagEnd(p)
  <2>1. \A a, p : Covered(a, p)' = Covered(a, p)
    BY <1>2 DEF Covered
  <2> QED
    BY <2>1 DEF TagStart, TagEnd
<1>4. \A p : Alone(p)' = Alone(p)
  BY <1>2, <1>3 DEF Alone
<1>5. \A p : TakesFront(p)' = TakesFront(p) /\ TakesBack(p)' = TakesBack(p)
  BY <1>4 DEF TakesFront, TakesBack
<1>6. \A p : LinesCut(p)' = LinesCut(p)
  BY <1>2, <1>5 DEF LinesCut
<1>7. \A p : Documented(p)' = Documented(p)
  BY <1>6 DEF Documented
<1>8. \A a, b : Precedes(a, b)' = Precedes(a, b)
  BY DEF Precedes, OwnedBy
<1>9. Abrupt' = Abrupt
  <2>1. \A p, r : Adjoin(p, r)' = Adjoin(p, r)
    BY <1>2 DEF Adjoin
  <2> QED
    BY <1>2, <2>1 DEF Abrupt
<1>10. Crowded' = Crowded
  BY <1>1, <1>2, <1>4 DEF Crowded
<1>11. Embedded' = Embedded
  BY <1>2, <1>4 DEF Embedded
<1> QED
  BY <1>1, <1>2, <1>4, <1>7, <1>8, <1>9, <1>10, <1>11

LEMMA Popped ==
    ASSUME WInv, todo # <<>>, todo' = Tail(todo)
    PROVE  /\ Len(todo) \in Nat \ {0} /\ Len(todo') = Len(todo) - 1 /\ todo[1] = Head(todo)
           /\ \A i \in 1..Len(todo) : todo[i] \in Edits(source)
           /\ \A i \in 1..Len(todo') : i + 1 \in 1..Len(todo) /\ todo'[i] = todo[i + 1]
           /\ \A i \in 1..Len(todo) : i # 1 => i - 1 \in 1..Len(todo') /\ todo'[i - 1] = todo[i]
<1>1. /\ todo \in Seq(Edits(source)) /\ Len(todo) \in Nat /\ todo[1] = Head(todo)
      /\ Tail(todo) \in Seq(Edits(source)) /\ Len(Tail(todo)) = Len(todo) - 1
      /\ \A i \in 1..Len(Tail(todo)) : Tail(todo)[i] = todo[i + 1]
  BY HeadTailProperties, LenProperties DEF WInv
<1>2. Len(todo) # 0
  BY <1>1, EmptySeq
<1>3. \A i \in 1..Len(todo) : todo[i] \in Edits(source)
  BY <1>1, ElementOfSeq
<1>4. \A i \in 1..Len(todo') : i + 1 \in 1..Len(todo) /\ todo'[i] = todo[i + 1]
  BY <1>1
<1>5. ASSUME NEW i \in 1..Len(todo), i # 1 PROVE i - 1 \in 1..Len(todo') /\ todo'[i - 1] = todo[i]
  <2>1. i - 1 \in 1..Len(todo') /\ (i - 1) + 1 = i
    BY <1>1, <1>5
  <2> QED
    BY <1>4, <2>1
<1> QED
  BY <1>1, <1>2, <1>3, <1>4, <1>5

FirstOps == {"simple", "open", "else", "close"}

LEMMA TriedHead ==
    ASSUME WInv, Orderly, NEW op \in FirstOps, Try(op), NEW p, p = Head(todo).at
    PROVE  /\ todo[1] \in Tries(source) /\ todo[1].at = p
           /\ Tagged(p) /\ Waits(p)
           /\ \A a : Waits(a)' = (Waits(a) /\ a # p)
<1>1. todo # <<>> /\ todo' = Tail(todo) /\ UNCHANGED source /\ Head(todo).op = op
  BY DEF Try
<1>2. /\ 1 \in 1..Len(todo) /\ todo[1] = Head(todo) /\ todo[1] \in Edits(source)
      /\ Tries(source)' = Tries(source) /\ todo[1].at = p
  BY <1>1, Popped, SameTemplate
<1>3. todo[1] \in Tries(source)
  BY <1>1, <1>2 DEF Edits, Tries, FirstOps
<1>4. Tagged(p) /\ Waits(p)
  BY <1>2, <1>3 DEF Orderly, Waits
<1>5. ASSUME NEW a, Waits(a)' PROVE Waits(a) /\ a # p
  <2>1. PICK i \in 1..Len(todo') : todo'[i] \in Tries(source) /\ todo'[i].at = a
    BY <1>2, <1>5 DEF Waits
  <2>2. i + 1 \in 1..Len(todo) /\ todo'[i] = todo[i + 1] /\ 1 < i + 1
    BY <1>1, Popped
  <2>3. Precedes(p, a)
    BY <1>2, <2>1, <2>2 DEF Orderly
  <2>4. Parsed(source)
    BY DEF WInv, Parsed
  <2> QED
    BY <2>1, <2>2, <2>3, <2>4, NotTwice DEF Waits
<1>6. ASSUME NEW a, Waits(a), a # p PROVE Waits(a)'
  <2>1. PICK i \in 1..Len(todo) : todo[i] \in Tries(source) /\ todo[i].at = a
    BY <1>6 DEF Waits
  <2>2. i # 1
    BY <1>2, <1>6, <2>1
  <2>3. i - 1 \in 1..Len(todo') /\ todo'[i - 1] = todo[i]
    BY <1>1, <2>2, Popped
  <2> QED
    BY <1>2, <2>1, <2>3 DEF Waits
<1>7. \A a : Waits(a)' \in BOOLEAN /\ Waits(a) \in BOOLEAN
  BY DEF Waits
<1> QED
  BY <1>2, <1>3, <1>4, <1>5, <1>6, <1>7

LEMMA OrderlyTry ==
    ASSUME WInv, Orderly, NEW op \in FirstOps, Try(op)
    PROVE  Orderly'
<1> DEFINE p == Head(todo).at
<1>1. todo # <<>> /\ todo' = Tail(todo) /\ UNCHANGED source
  BY DEF Try
<1>2. /\ todo[1] \in Tries(source) /\ todo[1].at = p
      /\ \A a : Waits(a)' = (Waits(a) /\ a # p)
  BY TriedHead
<1>3. /\ Len(todo) \in Nat \ {0} /\ Len(todo') = Len(todo) - 1
      /\ \A i \in 1..Len(todo') : i + 1 \in 1..Len(todo) /\ todo'[i] = todo[i + 1]
  BY <1>1, Popped
<1>4. /\ Tries(source)' = Tries(source) /\ \A a : Tagged(a)' = Tagged(a)
      /\ \A a, b : Precedes(a, b)' = Precedes(a, b)
  BY <1>1, SameTemplate
<1> HIDE DEF p
<1>5. \A i \in 1..Len(todo') : todo'[i] \in Tries(source) => Tagged(todo'[i].at)
  BY <1>3 DEF Orderly
<1>6. ASSUME NEW i \in 1..Len(todo'), NEW j \in 1..Len(todo'), i < j, todo'[j] \in Tries(source)
      PROVE  todo'[i] \in Tries(source) /\ Precedes(todo'[i].at, todo'[j].at)
  <2>1. /\ i + 1 \in 1..Len(todo) /\ j + 1 \in 1..Len(todo) /\ i + 1 < j + 1
        /\ todo'[i] = todo[i + 1] /\ todo'[j] = todo[j + 1]
    BY <1>3, <1>6
  <2> QED
    BY <1>6, <2>1 DEF Orderly
<1>7. ASSUME NEW a, Tagged(a), ~Waits(a)', NEW i \in 1..Len(todo'), todo'[i] \in Tries(source)
      PROVE  Precedes(a, todo'[i].at)
  <2>1. i + 1 \in 1..Len(todo) /\ todo'[i] = todo[i + 1] /\ 1 \in 1..Len(todo) /\ 1 < i + 1
    BY <1>3
  <2>2. CASE a = p
    BY <1>2, <1>7, <2>1, <2>2 DEF Orderly
  <2>3. CASE a # p
    <3>1. ~Waits(a)
      BY <1>2, <1>7, <2>3
    <3> QED
      BY <1>7, <2>1, <3>1 DEF Orderly
  <2> QED
    BY <2>2, <2>3
<1> QED
  BY <1>4, <1>5, <1>6, <1>7 DEF Orderly

LEMMA TrimsTry ==
    ASSUME WInv, AllTrims, NEW op \in FirstOps, Try(op)
    PROVE  AllTrims'
<1>1. todo # <<>> /\ todo' = Tail(todo) /\ UNCHANGED source /\ Head(todo).op = op
  BY DEF Try
<1>2. /\ todo[1] = Head(todo)
      /\ \A i \in 1..Len(todo') : i + 1 \in 1..Len(todo) /\ todo'[i] = todo[i + 1]
      /\ \A i \in 1..Len(todo) : i # 1 => i - 1 \in 1..Len(todo') /\ todo'[i - 1] = todo[i]
  BY <1>1, Popped
<1>3. ASSUME NEW o \in {"leading", "trailing"}, NEW q PROVE Strips(o, q)' = Strips(o, q)
  <2>1. Strips(o, q)' => Strips(o, q)
    BY <1>2 DEF Strips
  <2>2. ASSUME Strips(o, q) PROVE Strips(o, q)'
    <3>1. PICK i \in 1..Len(todo) : todo[i] = [op |-> o, at |-> q]
      BY <2>2 DEF Strips
    <3>2. i # 1
      BY <1>1, <1>2, <3>1 DEF FirstOps
    <3> QED
      BY <1>2, <3>1, <3>2 DEF Strips
  <2>3. Strips(o, q)' \in BOOLEAN /\ Strips(o, q) \in BOOLEAN
    BY DEF Strips
  <2> QED
    BY <2>1, <2>2, <2>3
<1>4. Texts' = Texts
  BY <1>1, SameTemplate
<1> QED
  BY <1>1, <1>3, <1>4 DEF AllTrims

(* The attempt does to the texts around its tag what the written lines     *)
(* say, and nothing to the others.                                         *)
LEMMA CutBefore ==
    ASSUME WInv, ~Abrupt, ~Crowded, Orderly, AsCut, NEW p, Tagged(p), Waits(p), Standalone(p),
           NEW q \in Texts, q = p - 1
    PROVE  Cut(p)[q] = LineCut(Original(q), FrontDone(q), TRUE)
<1>1. /\ q \in 1..Len(source) /\ Original(q) \in Seq(Char) /\ Is(source, q, {"text"}) /\ Len(source) \in Nat
      /\ Parsed(source) /\ p \in 1..Len(source) /\ q + 1 = p
  <2>1. /\ q \in 1..Len(source) /\ Original(q) \in Seq(Char) /\ Is(source, q, {"text"})
        /\ Len(source) \in Nat /\ Parsed(source)
    BY TextTyped
  <2>2. p \in 1..Len(source)
    BY <2>1, EndFacts
  <2> QED
    BY <2>1, <2>2
<1>2. Tagged(q + 1) /\ Waits(q + 1)
  BY <1>1
<1>3. text[q] = LineCut(Original(q), FrontDone(q), FALSE) /\ (FrontDone(q) => Newlines(Original(q)) # {})
  BY <1>2, BeforeAsWritten
<1>4. FrontDone(q) \in BOOLEAN
  BY DEF FrontDone
<1>5. SubSeq(text[q], 1, LastNewline(text[q])) = LineCut(Original(q), FrontDone(q), TRUE)
  BY <1>1, <1>3, <1>4, CutEnd
<1>6. Cut(p)[q] = SubSeq(text[q], 1, LastNewline(text[q]))
  BY <1>1 DEF Cut, Kept, Before, WInv, TextsSolid
<1> QED
  BY <1>5, <1>6

LEMMA CutAfter ==
    ASSUME WInv, ~Abrupt, Orderly, AsCut, NEW p, Tagged(p), Waits(p), NEW q \in Texts, q = After(p)
    PROVE  Cut(p)[q] = LineCut(Original(q), TRUE, BackDone(q))
<1>1. /\ q \in 1..Len(source) /\ Original(q) \in Seq(Char) /\ Is(source, q, {"text"}) /\ Parsed(source)
  BY TextTyped
<1>2. q # Before(p)
  <2>1. p \in 1..Len(source) /\ Len(source) \in Nat /\ End(p) \in p..Len(source) /\ q = End(p) + 1
    BY <1>1, EndFacts
  <2> QED
    BY <2>1 DEF Before
<1>3. text[q] = LineCut(Original(q), FALSE, BackDone(q)) /\ (BackDone(q) => Newlines(Original(q)) # {})
  BY AfterAsWritten
<1>4. BackDone(q) \in BOOLEAN
  BY DEF BackDone
<1>5. SubSeq(text[q], LineEnd(text[q]) + 1, Len(text[q])) = LineCut(Original(q), TRUE, BackDone(q))
  BY <1>1, <1>3, <1>4, CutStart
<1>6. Cut(p)[q] = SubSeq(text[q], LineEnd(text[q]) + 1, Len(text[q]))
  BY <1>1, <1>2 DEF Cut, Skipped, WInv, TextsSolid
<1> QED
  BY <1>5, <1>6

LEMMA DoneTry ==
    ASSUME WInv, ~Abrupt, Orderly, NEW op \in FirstOps, Try(op), NEW p, p = Head(todo).at, NEW q \in Texts
    PROVE  /\ FrontDone(q)' = (IF After(p) = q THEN Solitary(p) ELSE FrontDone(q))
           /\ BackDone(q)' = (IF q + 1 = p THEN Solitary(p) ELSE BackDone(q))
           /\ After(p) = q /\ ~Solitary(p) => FrontDone(q) = FALSE
           /\ q + 1 = p /\ ~Solitary(p) => BackDone(q) = FALSE
<1>1. /\ UNCHANGED source /\ Parsed(source)
  BY DEF Try, WInv, Parsed
<1>2. Tagged(p) /\ Waits(p) /\ \A a : Waits(a)' = (Waits(a) /\ a # p)
  BY TriedHead
<1>3. \A a : Alone(a)' = Alone(a) /\ Tagged(a)' = Tagged(a) /\ After(a)' = After(a)
  BY <1>1, SameTemplate
<1>4. Alone(p) = Solitary(p) /\ Alone(End(p)) = Solitary(p) /\ Solitary(p) \in BOOLEAN
  BY <1>1, <1>2, AloneTogether DEF Solitary
<1>5. BackDone(q)' = (Alone(q + 1) /\ ~(Waits(q + 1) /\ q + 1 # p))
  BY <1>2, <1>3 DEF BackDone
<1>6. FrontDone(q)' = (Alone(q - 1) /\ ~\E r : Tagged(r) /\ After(r) = q /\ Waits(r) /\ r # p)
  BY <1>2, <1>3 DEF FrontDone
<1>7. ASSUME After(p) = q PROVE End(p) = q - 1 /\ \A r : Tagged(r) /\ After(r) = q => r = p
  <2>1. \A r : Tagged(r) => /\ r \in 1..Len(source) /\ Len(source) \in Nat /\ End(r) \in r..Len(source)
                            /\ After(r) = End(r) + 1
    BY <1>1, EndFacts
  <2>2. \A r : Tagged(r) /\ After(r) = q => End(r) = q - 1
    BY <2>1
  <2>3. End(p) = q - 1
    BY <1>2, <1>7, <2>2
  <2> QED
    BY <1>1, <1>2, <2>2, <2>3, SameTag
<1>8. CASE After(p) = q
  <2>1. FrontDone(q)' = Alone(q - 1)
    BY <1>6, <1>7, <1>8 DEF Alone
  <2>2. Alone(q - 1) = Solitary(p)
    BY <1>4, <1>7, <1>8
  <2>3. ~Solitary(p) => FrontDone(q) = FALSE
    BY <2>2 DEF FrontDone
  <2> QED
    BY <1>4, <1>5, <1>8, <2>1, <2>2, <2>3 DEF BackDone
<1>9. CASE After(p) # q
  <2>1. FrontDone(q)' = FrontDone(q)
    BY <1>6, <1>9 DEF FrontDone
  <2> QED
    BY <1>4, <1>5, <1>9, <2>1 DEF BackDone
<1> QED
  BY <1>8, <1>9

LEMMA AsCutTry ==
    ASSUME WInv, ~Abrupt, ~Crowded, Orderly, AsCut, NEW op \in FirstOps, Try(op)
    PROVE  AsCut'
<1> DEFINE p == Head(todo).at
<1>1. UNCHANGED source /\ Parsed(source)
  BY DEF Try, WInv, Parsed
<1>2. Tagged(p) /\ Waits(p)
  BY TriedHead
<1>3. Standalone(p) = Solitary(p)
  BY <1>2, TriedAsWritten
<1>4. /\ Standalone(p) => text' = Cut(p)
      /\ ~Standalone(p) => text' = text
  BY DEF Try
<1>5. ASSUME NEW q \in Texts
      PROVE  /\ FrontDone(q)' = (IF After(p) = q THEN Solitary(p) ELSE FrontDone(q))
             /\ BackDone(q)' = (IF q + 1 = p THEN Solitary(p) ELSE BackDone(q))
             /\ After(p) = q /\ ~Solitary(p) => FrontDone(q) = FALSE
             /\ q + 1 = p /\ ~Solitary(p) => BackDone(q) = FALSE
  BY DoneTry
<1> HIDE DEF p
<1>6. ASSUME NEW q \in Texts PROVE text'[q] = LineCut(Original(q), FrontDone(q)', BackDone(q)')
  <2>1. text[q] = LineCut(Original(q), FrontDone(q), BackDone(q))
    BY DEF AsCut
  <2>2. /\ p \in 1..Len(source) /\ Len(source) \in Nat /\ End(p) \in p..Len(source) /\ After(p) = End(p) + 1
        /\ q \in 1..Len(source) /\ Solitary(p) \in BOOLEAN
    BY <1>1, <1>2, EndFacts, TextTyped DEF Solitary, ClearBefore, ClearAfter
  <2>3. CASE ~Solitary(p)
    <3>1. FrontDone(q)' = FrontDone(q) /\ BackDone(q)' = BackDone(q)
      BY <1>5, <2>2, <2>3
    <3> QED
      BY <1>3, <1>4, <2>1, <2>3, <3>1
  <2>4. CASE Solitary(p) /\ q = p - 1
    <3>1. Cut(p)[q] = LineCut(Original(q), FrontDone(q), TRUE)
      BY <1>2, <1>3, <2>4, CutBefore
    <3>2. After(p) # q /\ q + 1 = p
      BY <2>2, <2>4
    <3>3. FrontDone(q)' = FrontDone(q) /\ BackDone(q)' = TRUE
      BY <1>5, <2>4, <3>2
    <3> QED
      BY <1>3, <1>4, <2>4, <3>1, <3>3
  <2>5. CASE Solitary(p) /\ q = After(p)
    <3>1. Cut(p)[q] = LineCut(Original(q), TRUE, BackDone(q))
      BY <1>2, <2>5, CutAfter
    <3>2. q + 1 # p
      BY <2>2, <2>5
    <3>3. FrontDone(q)' = TRUE /\ BackDone(q)' = BackDone(q)
      BY <1>5, <2>5, <3>2
    <3> QED
      BY <1>3, <1>4, <2>5, <3>1, <3>3
  <2>6. CASE Solitary(p) /\ q # p - 1 /\ q # After(p)
    <3>1. q + 1 # p
      BY <2>2, <2>6
    <3>2. FrontDone(q)' = FrontDone(q) /\ BackDone(q)' = BackDone(q)
      BY <1>5, <2>6, <3>1
    <3>3. text'[q] = text[q]
      BY <1>3, <1>4, <2>2, <2>6 DEF Cut, Before, WInv, TextsSolid
    <3> QED
      BY <2>1, <3>2, <3>3
  <2> QED
    BY <2>2, <2>3, <2>4, <2>5, <2>6
<1>7. Texts' = Texts /\ \A q : Original(q)' = Original(q)
  BY <1>1, SameTemplate
<1> QED
  BY <1>6, <1>7 DEF AsCut

LEMMA CuttingTry ==
    ASSUME WInv, ~Abrupt, ~Crowded, Cutting, NEW op \in FirstOps, Try(op)
    PROVE  Cutting'
BY OrderlyTry, TrimsTry, AsCutTry DEF Cutting

-----------------------------------------------------------------------------
(* The two trims of the second pass: each does its work once, and in       *)
(* either order.                                                           *)
LEMMA SolidPiece ==
    ASSUME NEW t \in Seq(Char), NEW a \in 1..Len(t), NEW b \in a..Len(t), NEW u, u = SubSeq(t, a, b)
    PROVE  /\ u \in Seq(Char) /\ Len(u) = b - a + 1
           /\ Solid(u) \in SUBSET (1..(b - a + 1))
           /\ \A i \in Solid(u) : a + i - 1 \in Solid(t)
           /\ \A i \in Solid(t) : i \in a..b => i - a + 1 \in Solid(u)
<1>1. Len(t) \in Nat /\ a \in Nat \ {0} /\ b \in 0..Len(t) /\ a <= b
  BY LenProperties
<1>2. IsPiece(SubSeq(t, a, b), t, a, b)
  BY <1>1, PieceIs
<1>3. u \in Seq(Char) /\ Len(u) = b - a + 1 /\ \A i \in 1..Len(u) : u[i] = t[a + i - 1]
  BY <1>1, <1>2 DEF IsPiece
<1>4. ASSUME NEW i \in Solid(u) PROVE i \in 1..(b - a + 1) /\ a + i - 1 \in Solid(t)
  <2>1. i \in 1..(b - a + 1) /\ u[i] \notin White /\ u[i] = t[a + i - 1]
    BY <1>3, <1>4 DEF Solid
  <2>2. a + i - 1 \in 1..Len(t)
    BY <1>1, <2>1
  <2> QED
    BY <2>1, <2>2 DEF Solid
<1>5. ASSUME NEW i \in Solid(t), i \in a..b PROVE i - a + 1 \in Solid(u)
  <2>1. i - a + 1 \in 1..(b - a + 1) /\ a + (i - a + 1) - 1 = i
    BY <1>1, <1>5
  <2>2. t[i] \notin White
    BY DEF Solid
  <2>3. u[i - a + 1] = t[i]
    BY <1>3, <2>1
  <2> QED
    BY <1>3, <2>1, <2>2, <2>3 DEF Solid
<1> QED
  BY <1>3, <1>4, <1>5

LEMMA SolidEnds ==
    ASSUME NEW t \in Seq(Char), Solid(t) # {}
    PROVE  /\ Len(t) \in Nat /\ Min(Solid(t)) \in Solid(t) /\ Max(Solid(t)) \in Solid(t)
           /\ Min(Solid(t)) \in 1..Len(t) /\ Max(Solid(t)) \in Min(Solid(t))..Len(t)
           /\ \A i \in Solid(t) : Min(Solid(t)) <= i /\ i <= Max(Solid(t)) /\ i \in 1..Len(t)
<1>1. Len(t) \in Nat /\ Solid(t) \in SUBSET (1..Len(t))
  BY LenProperties DEF Solid
<1>2. Min(Solid(t)) \in Solid(t) /\ \A i \in Solid(t) : Min(Solid(t)) <= i
  BY <1>1, FirstIsMin
<1>3. Max(Solid(t)) \in Solid(t) /\ \A i \in Solid(t) : i <= Max(Solid(t))
  BY <1>1, LastIsMax
<1> QED
  BY <1>1, <1>2, <1>3

LEMMA EndsAre ==
    ASSUME NEW t \in Seq(Char), NEW x \in Solid(t)
    PROVE  /\ (\A i \in Solid(t) : x <= i) => Min(Solid(t)) = x
           /\ (\A i \in Solid(t) : i <= x) => Max(Solid(t)) = x
<1>1. /\ Min(Solid(t)) \in Solid(t) /\ Max(Solid(t)) \in Solid(t) /\ Len(t) \in Nat
      /\ \A i \in Solid(t) : Min(Solid(t)) <= i /\ i <= Max(Solid(t)) /\ i \in 1..Len(t)
  BY SolidEnds
<1> QED
  BY <1>1

LEMMA NoSolid == WithoutLeading(<<>>) = <<>> /\ WithoutTrailing(<<>>) = <<>>
<1>1. Solid(<<>>) = {}
  BY DEF Solid
<1> QED
  BY <1>1 DEF WithoutLeading, WithoutTrailing

LEMMA LeadingOnce == ASSUME NEW t \in Seq(Char) PROVE WithoutLeading(WithoutLeading(t)) = WithoutLeading(t)
<1>1. CASE Solid(t) = {}
  BY <1>1, NoSolid DEF WithoutLeading
<1>2. CASE Solid(t) # {}
  <2> DEFINE a == Min(Solid(t))
             u == WithoutLeading(t)
  <2>1. a \in Solid(t) /\ a \in 1..Len(t) /\ Len(t) \in Nat /\ Len(t) \in a..Len(t)
    BY <1>2, SolidEnds
  <2>2. u = SubSeq(t, a, Len(t))
    BY <1>2 DEF WithoutLeading
  <2> HIDE DEF a, u
  <2>3. /\ u \in Seq(Char) /\ Solid(u) \in SUBSET (1..(Len(t) - a + 1))
        /\ \A i \in Solid(t) : i \in a..Len(t) => i - a + 1 \in Solid(u)
    BY <2>1, <2>2, SolidPiece
  <2>4. a - a + 1 \in Solid(u) /\ a - a + 1 = 1
    BY <2>1, <2>3
  <2>5. Min(Solid(u)) = 1
    <3>1. \A i \in Solid(u) : 1 <= i
      BY <2>1, <2>3
    <3> QED
      BY <2>3, <2>4, <3>1, EndsAre
  <2>6. WithoutLeading(u) = SubSeq(u, 1, Len(u))
    BY <2>4, <2>5 DEF WithoutLeading
  <2>7. WithoutLeading(u) = u
    BY <2>3, <2>6, SubSeqFull
  <2> QED
    BY <2>7 DEF u
<1> QED
  BY <1>1, <1>2

LEMMA TrailingOnce == ASSUME NEW t \in Seq(Char) PROVE WithoutTrailing(WithoutTrailing(t)) = WithoutTrailing(t)
<1>1. CASE Solid(t) = {}
  BY <1>1, NoSolid DEF WithoutTrailing
<1>2. CASE Solid(t) # {}
  <2> DEFINE b == Max(Solid(t))
             u == WithoutTrailing(t)
  <2>1. b \in Solid(t) /\ b \in 1..Len(t) /\ Len(t) \in Nat /\ 1 \in 1..Len(t)
    BY <1>2, SolidEnds
  <2>2. u = SubSeq(t, 1, b)
    BY <1>2 DEF WithoutTrailing
  <2> HIDE DEF b, u
  <2>3. /\ u \in Seq(Char) /\ Len(u) = b - 1 + 1 /\ Solid(u) \in SUBSET (1..(b - 1 + 1))
        /\ \A i \in Solid(t) : i \in 1..b => i - 1 + 1 \in Solid(u)
    BY <2>1, <2>2, SolidPiece
  <2>4. b \in Solid(u) /\ b - 1 + 1 = b
    <3>1. b - 1 + 1 \in Solid(u)
      BY <2>1, <2>3
    <3> QED
      BY <2>1, <3>1
  <2>5. Max(Solid(u)) = b
    <3>1. \A i \in Solid(u) : i <= b
      BY <2>1, <2>3
    <3> QED
      BY <2>3, <2>4, <3>1, EndsAre
  <2>6. WithoutTrailing(u) = SubSeq(u, 1, Len(u))
    BY <2>3, <2>4, <2>5 DEF WithoutTrailing
  <2>7. WithoutTrailing(u) = u
    BY <2>3, <2>6, SubSeqFull
  <2> QED
    BY <2>7 DEF u
<1> QED
  BY <1>1, <1>2

LEMMA EitherTrimFirst ==
    ASSUME NEW t \in Seq(Char)
    PROVE  WithoutLeading(WithoutTrailing(t)) = WithoutTrailing(WithoutLeading(t))
<1>1. CASE Solid(t) = {}
  BY <1>1, NoSolid DEF WithoutLeading, WithoutTrailing
<1>2. CASE Solid(t) # {}
  <2> DEFINE n == Len(t)
             a == Min(Solid(t))
             b == Max(Solid(t))
             u == WithoutTrailing(t)
             v == WithoutLeading(t)
  <2>1. /\ n \in Nat /\ a \in 1..n /\ b \in a..n /\ a \in Solid(t) /\ b \in Solid(t)
        /\ \A i \in Solid(t) : a <= i /\ i <= b /\ i \in 1..n
    BY <1>2, SolidEnds
  <2>2. u = SubSeq(t, 1, b) /\ v = SubSeq(t, a, n)
    BY <1>2 DEF WithoutLeading, WithoutTrailing
  <2>3. 1 \in 1..Len(t) /\ b \in 1..Len(t) /\ n \in a..Len(t)
    BY <2>1
  <2> HIDE DEF a, b, u, v
  <2>4. /\ u \in Seq(Char) /\ Len(u) = b - 1 + 1
        /\ \A i \in Solid(u) : 1 + i - 1 \in Solid(t)
        /\ \A i \in Solid(t) : i \in 1..b => i - 1 + 1 \in Solid(u)
        /\ Solid(u) \in SUBSET (1..(b - 1 + 1))
    BY <2>2, <2>3, SolidPiece
  <2>5. /\ v \in Seq(Char) /\ Len(v) = n - a + 1
        /\ \A i \in Solid(v) : a + i - 1 \in Solid(t)
        /\ \A i \in Solid(t) : i \in a..n => i - a + 1 \in Solid(v)
        /\ Solid(v) \in SUBSET (1..(n - a + 1))
    BY <2>1, <2>2, <2>3, SolidPiece
  <2> HIDE DEF n
  <2>6. Min(Solid(u)) = a /\ a \in Solid(u)
    <3>1. a - 1 + 1 \in Solid(u) /\ a - 1 + 1 = a
      BY <2>1, <2>4
    <3>2. \A i \in Solid(u) : a <= i
      <4> TAKE i \in Solid(u)
      <4>1. i \in 1..(b - 1 + 1) /\ a <= 1 + i - 1
        BY <2>1, <2>4
      <4> QED
        BY <2>1, <4>1
    <3> QED
      BY <2>4, <3>1, <3>2, EndsAre
  <2>7. Max(Solid(v)) = b - a + 1 /\ b - a + 1 \in Solid(v)
    <3>1. b - a + 1 \in Solid(v)
      BY <2>1, <2>5
    <3>2. \A i \in Solid(v) : i <= b - a + 1
      <4> TAKE i \in Solid(v)
      <4>1. i \in 1..(n - a + 1) /\ a + i - 1 <= b
        BY <2>1, <2>5
      <4> QED
        BY <2>1, <4>1
    <3> QED
      BY <2>5, <3>1, <3>2, EndsAre
  <2>8. WithoutLeading(u) = SubSeq(t, a, b)
    <3>1. WithoutLeading(u) = SubSeq(u, a, b)
      <4>1. Len(u) = b
        BY <2>1, <2>4
      <4> QED
        BY <2>6, <4>1 DEF WithoutLeading
    <3>2. 1 \in Nat \ {0} /\ b \in 0..Len(t) /\ 1 <= b + 1 /\ a \in Nat \ {0} /\ b \in 0..(b - 1 + 1)
      BY <2>1, <2>3 DEF n
    <3>3. SubSeq(SubSeq(t, 1, b), a, b) = SubSeq(t, 1 + a - 1, 1 + b - 1)
      BY <3>2, PieceOfPiece
    <3>4. 1 + a - 1 = a /\ 1 + b - 1 = b
      BY <2>1
    <3> QED
      BY <2>2, <3>1, <3>3, <3>4
  <2>9. WithoutTrailing(v) = SubSeq(t, a, b)
    <3>1. WithoutTrailing(v) = SubSeq(v, 1, b - a + 1)
      BY <2>7 DEF WithoutTrailing
    <3>2. /\ a \in Nat \ {0} /\ n \in 0..Len(t) /\ a <= n + 1 /\ 1 \in Nat \ {0}
          /\ b - a + 1 \in 0..(n - a + 1)
      BY <2>1 DEF n
    <3>3. SubSeq(SubSeq(t, a, n), 1, b - a + 1) = SubSeq(t, a + 1 - 1, a + (b - a + 1) - 1)
      BY <3>2, PieceOfPiece
    <3>4. a + 1 - 1 = a /\ a + (b - a + 1) - 1 = b
      BY <2>1
    <3> QED
      BY <2>2, <3>1, <3>3, <3>4
  <2> QED
    BY <2>8, <2>9 DEF u, v
<1> QED
  BY <1>1, <1>2

(* Of a text the passes see, the tags beside it take their lines away.     *)
LEMMA TakenBeside ==
    ASSUME Parsed(source), NEW q \in Texts
    PROVE  TakesFront(q) = Alone(q - 1) /\ TakesBack(q) = Alone(q + 1)
<1>1. q \in 1..Len(source) /\ Len(source) \in Nat /\ ~Hidden(source, q) /\ source[q].kind = "text"
  BY ParsedFacts DEF Texts, TextNodes
<1>2. ASSUME Alone(q - 1) PROVE q > 1 /\ source[q - 1].kind # "inline"
  <2>1. q - 1 \in 1..Len(source) /\ q > 1
    BY <1>1, <1>2 DEF Alone, LineTag
  <2>2. ASSUME source[q - 1].kind = "inline" PROVE FALSE
    <3>1. CloseOf(source, q - 1) \in ((q - 1) + 1)..Len(source)
      BY <2>1, <2>2, CloserFacts DEF Is, Openers
    <3>2. q - 1 \in 1..(q - 1) /\ q <= CloseOf(source, q - 1)
      BY <1>1, <2>1, <3>1
    <3> QED
      BY <1>1, <2>2, <3>2 DEF Hidden
  <2> QED
    BY <2>1, <2>2
<1>3. ASSUME Alone(q + 1) PROVE source[q + 1].kind # "endinline"
  <2>1. q + 1 \in 1..Len(source) /\ ~Hidden(source, q + 1)
    BY <1>1, <1>3, NextSeen DEF Alone, LineTag
  <2> QED
    BY <2>1, EndInside
<1> QED
  BY <1>2, <1>3 DEF TakesFront, TakesBack, Alone

LEMMA CuttingEnds ==
    ASSUME WInv, Cutting, \A i \in 1..Len(todo) : todo[i] \notin Tries(source)
    PROVE  Trimming
<1>1. \A p : ~Waits(p)
  BY DEF Waits
<1>2. ASSUME NEW q \in Texts PROVE Rest(q) = Documented(q)
  <2>1. q \in 1..Len(source) /\ Len(source) \in Nat
    BY TextTyped
  <2>2. BackDone(q) = Alone(q + 1) /\ FrontDone(q) = Alone(q - 1)
    BY <1>1 DEF BackDone, FrontDone, Alone
  <2>3. TakesFront(q) = Alone(q - 1) /\ TakesBack(q) = Alone(q + 1)
    BY TakenBeside DEF WInv, Parsed
  <2>4. LineCut(Original(q), Alone(q - 1), Alone(q + 1)) = LinesCut(q)
    BY <2>3 DEF LineCut, LinesCut
  <2>5. text[q] = LinesCut(q)
    BY <2>2, <2>4 DEF Cutting, AsCut
  <2>6. /\ Strips("leading", q) = (q > 1 /\ source[q - 1].right)
        /\ Strips("trailing", q) = (q < Len(source) /\ source[q + 1].left)
    BY DEF Cutting, AllTrims
  <2> QED
    BY <2>5, <2>6 DEF Rest, Documented
<1> QED
  BY <1>2 DEF Trimming

LEMMA TrimmingTrim ==
    ASSUME WInv, Trimming, NEW op \in {"leading", "trailing"}, NEW r,
           todo # <<>>, Head(todo).op = op, Head(todo).at = r,
           todo' = Tail(todo), UNCHANGED source,
           op = "leading" => text' = [text EXCEPT ![r] = WithoutLeading(text[r])],
           op = "trailing" => text' = [text EXCEPT ![r] = WithoutTrailing(text[r])]
    PROVE  Trimming'
<1>1. /\ todo[1] = Head(todo) /\ 1 \in 1..Len(todo) /\ todo[1] \in Edits(source)
      /\ \A i \in 1..Len(todo') : i + 1 \in 1..Len(todo) /\ todo'[i] = todo[i + 1]
      /\ \A i \in 1..Len(todo) : i # 1 => i - 1 \in 1..Len(todo') /\ todo'[i - 1] = todo[i]
  BY Popped
<1>2. todo[1] = [op |-> op, at |-> r]
  BY <1>1 DEF Edits
<1>3. ASSUME NEW o, NEW q PROVE Strips(o, q) = (Strips(o, q)' \/ (o = op /\ q = r))
  <2>1. Strips(o, q)' => Strips(o, q)
    BY <1>1 DEF Strips
  <2>2. o = op /\ q = r => Strips(o, q)
    BY <1>1, <1>2 DEF Strips
  <2>3. ASSUME Strips(o, q), ~(o = op /\ q = r) PROVE Strips(o, q)'
    <3>1. PICK i \in 1..Len(todo) : todo[i] = [op |-> o, at |-> q]
      BY <2>3 DEF Strips
    <3>2. i # 1
      BY <1>2, <2>3, <3>1
    <3> QED
      BY <1>1, <3>1, <3>2 DEF Strips
  <2>4. Strips(o, q)' \in BOOLEAN /\ Strips(o, q) \in BOOLEAN
    BY DEF Strips
  <2> QED
    BY <2>1, <2>2, <2>3, <2>4
<1>4. ASSUME NEW q \in Texts PROVE Rest(q)' = Rest(q)
  <2>1. text[q] \in Seq(Char) /\ q \in DOMAIN text
    BY TextTyped DEF WInv, TextsSolid
  <2>2. Strips("leading", q)' \in BOOLEAN /\ Strips("trailing", q)' \in BOOLEAN
    BY DEF Strips
  <2>3. CASE q # r
    <3>1. text'[q] = text[q]
      BY <2>1, <2>3
    <3>2. Strips("leading", q)' = Strips("leading", q) /\ Strips("trailing", q)' = Strips("trailing", q)
      BY <1>3, <2>2, <2>3
    <3> QED
      BY <3>1, <3>2 DEF Rest
  <2>4. CASE q = r /\ op = "leading"
    <3>1. text'[q] = WithoutLeading(text[q])
      BY <2>1, <2>4
    <3>2. Strips("leading", q) = TRUE /\ Strips("trailing", q)' = Strips("trailing", q)
      BY <1>3, <2>2, <2>4
    <3>3. WithoutLeading(WithoutLeading(text[q])) = WithoutLeading(text[q])
      BY <2>1, LeadingOnce
    <3> QED
      BY <3>1, <3>2, <3>3 DEF Rest
  <2>5. CASE q = r /\ op = "trailing"
    <3>1. text'[q] = WithoutTrailing(text[q])
      BY <2>1, <2>5
    <3>2. Strips("trailing", q) = TRUE /\ Strips("leading", q)' = Strips("leading", q)
      BY <1>3, <2>2, <2>5
    <3>3. /\ WithoutTrailing(WithoutTrailing(text[q])) = WithoutTrailing(text[q])
          /\ WithoutLeading(WithoutTrailing(text[q])) = WithoutTrailing(WithoutLeading(text[q]))
      BY <2>1, TrailingOnce, EitherTrimFirst
    <3>4. WithoutTrailing(WithoutTrailing(WithoutLeading(text[q]))) = WithoutTrailing(WithoutLeading(text[q]))
      <4>1. WithoutLeading(text[q]) \in Seq(Char)
        BY <2>1, TrimmedIsSolid DEF AsSolid
      <4> QED
        BY <4>1, TrailingOnce
    <3> QED
      BY <3>1, <3>2, <3>3, <3>4 DEF Rest
  <2> QED
    BY <2>3, <2>4, <2>5
<1>5. \A i \in 1..Len(todo') : todo'[i] \notin Tries(source)
  BY <1>1 DEF Trimming
<1>6. Texts' = Texts /\ Tries(source)' = Tries(source) /\ \A q : Documented(q)' = Documented(q)
  BY SameTemplate
<1> QED
  BY <1>4, <1>5, <1>6 DEF Trimming

LEMMA TrimStep ==
    ASSUME WInv, Cutting \/ Trimming, TrimLeading \/ TrimTrailing
    PROVE  Trimming'
<1>1. PICK op \in {"leading", "trailing"} :
          /\ todo # <<>> /\ Head(todo).op = op /\ todo' = Tail(todo) /\ UNCHANGED source
          /\ op = "leading" => text' = [text EXCEPT ![Head(todo).at] = WithoutLeading(text[Head(todo).at])]
          /\ op = "trailing" => text' = [text EXCEPT ![Head(todo).at] = WithoutTrailing(text[Head(todo).at])]
  <2>1. CASE TrimLeading
    BY <2>1 DEF TrimLeading, Trim
  <2>2. CASE TrimTrailing
    BY <2>2 DEF TrimTrailing, Trim
  <2> QED
    BY <2>1, <2>2
<1>2. todo[1] = Head(todo) /\ Len(todo) \in Nat \ {0}
  BY <1>1, Popped
<1>3. todo[1] \notin Tries(source)
  BY <1>1, <1>2 DEF Tries
<1>4. Trimming
  <2>1. CASE Cutting
    <3>1. \A i \in 1..Len(todo) : todo[i] \notin Tries(source)
      <4> SUFFICES ASSUME NEW i \in 1..Len(todo), todo[i] \in Tries(source) PROVE FALSE
        OBVIOUS
      <4>1. 1 \in 1..Len(todo) /\ 1 < i
        BY <1>2, <1>3
      <4> QED
        BY <1>3, <2>1, <4>1 DEF Cutting, Orderly
    <3> QED
      BY <2>1, <3>1, CuttingEnds
  <2> QED
    BY <2>1
<1> QED
  BY <1>1, <1>4, TrimmingTrim

LEMMA TryStep ==
    ASSUME WInv, ~Abrupt, ~Crowded, Cutting \/ Trimming, NEW op \in FirstOps, Try(op)
    PROVE  Cutting'
<1>1. ~Trimming
  <2>1. todo # <<>> /\ todo' = Tail(todo) /\ Head(todo).op = op
    BY DEF Try
  <2>2. 1 \in 1..Len(todo) /\ todo[1] \in Edits(source) /\ todo[1].op = op
    BY <2>1, Popped
  <2>3. todo[1] \in Tries(source)
    BY <2>2 DEF Edits, Tries, FirstOps
  <2> QED
    BY <2>2, <2>3 DEF Trimming
<1> QED
  BY <1>1, CuttingTry

LEMMA PassesEnd ==
    ASSUME WInv, Cutting \/ Trimming, todo = <<>>
    PROVE  \A q \in Texts : text[q] = Documented(q)
<1>1. Len(todo) = 0 /\ \A i \in 1..Len(todo) : FALSE
  OBVIOUS
<1>2. Trimming
  BY <1>1, CuttingEnds
<1> QED
  BY <1>1, <1>2 DEF Trimming, Rest, Strips

-----------------------------------------------------------------------------
(* Sorted lists, put together from sorted lists.                           *)
Sorted(R, list) == \A i, j \in 1..Len(list) : i < j => <<list[i], list[j]>> \in R

LEMMA Elements ==
    ASSUME NEW T, NEW list \in Seq(T)
    PROVE  /\ Len(list) \in Nat /\ ToSet(list) \subseteq T
           /\ \A i \in 1..Len(list) : list[i] \in ToSet(list)
           /\ \A x \in ToSet(list) : \E i \in 1..Len(list) : list[i] = x
<1>1. Len(list) \in Nat /\ DOMAIN list = 1..Len(list) /\ \A i \in 1..Len(list) : list[i] \in T
  BY LenProperties, ElementOfSeq
<1> QED
  BY <1>1 DEF ToSet

LEMMA ConcatElements ==
    ASSUME NEW T, NEW a \in Seq(T), NEW b \in Seq(T)
    PROVE  a \o b \in Seq(T) /\ ToSet(a \o b) = ToSet(a) \cup ToSet(b)
<1> DEFINE m == Len(a)
           n == Len(b)
           all == a \o b
<1>1. /\ m \in Nat /\ n \in Nat /\ all \in Seq(T) /\ Len(all) = m + n
      /\ \A i \in 1..(m + n) : all[i] = IF i <= m THEN a[i] ELSE b[i - m]
  BY ConcatProperties, LenProperties
<1>2. /\ \A i \in 1..m : a[i] \in ToSet(a)
      /\ \A x \in ToSet(a) : \E i \in 1..m : a[i] = x
      /\ \A i \in 1..n : b[i] \in ToSet(b)
      /\ \A x \in ToSet(b) : \E i \in 1..n : b[i] = x
      /\ \A i \in 1..Len(all) : all[i] \in ToSet(all)
      /\ \A x \in ToSet(all) : \E i \in 1..Len(all) : all[i] = x
  BY <1>1, Elements
<1> HIDE DEF m, n, all
<1>3. \A i \in 1..m : i \in 1..(m + n) /\ all[i] = a[i]
  BY <1>1
<1>4. \A i \in 1..n : m + i \in 1..(m + n) /\ all[m + i] = b[i]
  BY <1>1
<1>5. \A i \in 1..(m + n) : (i \in 1..m /\ all[i] = a[i]) \/ (i - m \in 1..n /\ all[i] = b[i - m])
  BY <1>1
<1>6. ToSet(all) \subseteq ToSet(a) \cup ToSet(b)
  <2> SUFFICES ASSUME NEW x \in ToSet(all) PROVE x \in ToSet(a) \cup ToSet(b)
    OBVIOUS
  <2>1. PICK i \in 1..(m + n) : all[i] = x
    BY <1>1, <1>2
  <2> QED
    BY <1>2, <1>5, <2>1
<1>7. ToSet(a) \cup ToSet(b) \subseteq ToSet(all)
  <2>1. ASSUME NEW x \in ToSet(a) PROVE x \in ToSet(all)
    <3>1. PICK i \in 1..m : a[i] = x
      BY <1>2
    <3> QED
      BY <1>1, <1>2, <1>3, <3>1
  <2>2. ASSUME NEW x \in ToSet(b) PROVE x \in ToSet(all)
    <3>1. PICK i \in 1..n : b[i] = x
      BY <1>2
    <3> QED
      BY <1>1, <1>2, <1>4, <3>1
  <2> QED
    BY <2>1, <2>2
<1> QED
  BY <1>1, <1>6, <1>7 DEF all

LEMMA ConcatSorted ==
    ASSUME NEW T, NEW R, NEW a \in Seq(T), NEW b \in Seq(T), Sorted(R, a), Sorted(R, b),
           \A x \in ToSet(a), y \in ToSet(b) : <<x, y>> \in R
    PROVE  Sorted(R, a \o b)
<1> DEFINE m == Len(a)
           n == Len(b)
           all == a \o b
<1>1. /\ m \in Nat /\ n \in Nat /\ Len(all) = m + n
      /\ \A i \in 1..(m + n) : all[i] = IF i <= m THEN a[i] ELSE b[i - m]
  BY ConcatProperties, LenProperties
<1>2. /\ \A i \in 1..m : a[i] \in ToSet(a)
      /\ \A i \in 1..n : b[i] \in ToSet(b)
  BY Elements
<1>3. \A i, j \in 1..m : i < j => <<a[i], a[j]>> \in R
  BY DEF Sorted
<1>4. \A i, j \in 1..n : i < j => <<b[i], b[j]>> \in R
  BY DEF Sorted
<1> HIDE DEF m, n, all
<1>5. \A i \in 1..(m + n) : (i \in 1..m /\ all[i] = a[i]) \/ (i - m \in 1..n /\ all[i] = b[i - m])
  BY <1>1
<1>6. \A i \in 1..m : all[i] = a[i]
  BY <1>1
<1>7. ASSUME NEW i \in 1..(m + n), NEW j \in 1..(m + n), i < j
      PROVE  <<all[i], all[j]>> \in R
  <2>1. CASE j \in 1..m
    <3>1. i \in 1..m
      BY <1>1, <1>7, <2>1
    <3> QED
      BY <1>3, <1>6, <1>7, <2>1, <3>1
  <2>2. CASE i \in 1..m /\ j \notin 1..m
    <3>1. j - m \in 1..n /\ all[j] = b[j - m]
      BY <1>5, <2>2
    <3>2. all[i] \in ToSet(a) /\ all[j] \in ToSet(b)
      BY <1>2, <1>6, <2>2, <3>1
    <3> QED
      BY <3>2
  <2>3. CASE i \notin 1..m /\ j \notin 1..m
    <3>1. /\ i - m \in 1..n /\ all[i] = b[i - m] /\ j - m \in 1..n /\ all[j] = b[j - m]
      BY <1>5, <2>3
    <3>2. i - m < j - m
      BY <1>1, <1>7
    <3> QED
      BY <1>4, <3>1, <3>2
  <2>4. CASE i \notin 1..m /\ j \in 1..m
    BY <1>1, <1>7, <2>4
  <2> QED
    BY <2>1, <2>2, <2>3, <2>4
<1> QED
  BY <1>1, <1>7 DEF Sorted, all

LEMMA FlattenElements ==
    ASSUME NEW T, NEW n \in Nat, NEW f \in [1..n -> Seq(T)]
    PROVE  /\ FlattenSeq(f) \in Seq(T)
           /\ \A p \in 1..n : ToSet(f[p]) \subseteq ToSet(FlattenSeq(f))
           /\ \A x \in ToSet(FlattenSeq(f)) : \E p \in 1..n : x \in ToSet(f[p])
<1> DEFINE F(k) == FlattenSeq([p \in 1..k |-> f[p]])
           Has(k) == /\ F(k) \in Seq(T)
                     /\ \A p \in 1..k : ToSet(f[p]) \subseteq ToSet(F(k))
                     /\ \A x \in ToSet(F(k)) : \E p \in 1..k : x \in ToSet(f[p])
           S == {k \in 0..n : Has(k)}
<1>1. 0 \in S
  <2>1. F(0) = <<>>
    BY FlattenEmpty
  <2>2. <<>> \in Seq(T) /\ ToSet(<<>>) = {}
    BY DEF ToSet
  <2>3. 0 \in 0..n /\ \A p \in 1..0 : FALSE
    OBVIOUS
  <2> HIDE DEF F
  <2> QED
    BY <2>1, <2>2, <2>3
<1>2. ASSUME NEW k \in 0..(n - 1), k \in S PROVE k + 1 \in S
  <2> DEFINE g == [p \in 1..(k + 1) |-> f[p]]
  <2>1. k \in Nat /\ k + 1 \in 1..n /\ k + 1 \in 0..n /\ \A p \in 1..(k + 1) : p \in 1..n
    OBVIOUS
  <2>2. g \in [1..(k + 1) -> Seq(T)] /\ g[k + 1] = f[k + 1] /\ [p \in 1..k |-> g[p]] = [p \in 1..k |-> f[p]]
    BY <2>1
  <2>3. F(k + 1) = FlattenSeq(g)
    OBVIOUS
  <2> HIDE DEF g
  <2>4. FlattenSeq(g) = FlattenSeq([p \in 1..k |-> g[p]]) \o g[k + 1]
    BY <2>1, <2>2, FlattenMore
  <2>5. F(k + 1) = F(k) \o f[k + 1]
    BY <2>2, <2>3, <2>4
  <2>6. Has(k) /\ f[k + 1] \in Seq(T)
    BY <1>2, <2>1
  <2> HIDE DEF F
  <2>7. F(k) \o f[k + 1] \in Seq(T) /\ ToSet(F(k) \o f[k + 1]) = ToSet(F(k)) \cup ToSet(f[k + 1])
    BY <2>6, ConcatElements
  <2>8. \A p \in 1..(k + 1) : p \in 1..k \/ p = k + 1
    BY <2>1
  <2>9. (\A p \in 1..k : p \in 1..(k + 1)) /\ k + 1 \in 1..(k + 1)
    BY <2>1
  <2>10. Has(k + 1)
    BY <2>5, <2>6, <2>7, <2>8, <2>9
  <2> HIDE DEF Has
  <2> QED
    BY <2>1, <2>10
<1> HIDE DEF S
<1>3. n \in S
  <2>1. 0..n \subseteq S
    BY <1>1, <1>2, Induction
  <2> QED
    BY <2>1
<1>4. F(n) = FlattenSeq(f)
  OBVIOUS
<1> QED
  BY <1>3, <1>4 DEF S

LEMMA FlattenSorted ==
    ASSUME NEW T, NEW R, NEW n \in Nat, NEW f \in [1..n -> Seq(T)],
           \A p \in 1..n : Sorted(R, f[p]),
           \A p, q \in 1..n : p < q => \A x \in ToSet(f[p]), y \in ToSet(f[q]) : <<x, y>> \in R
    PROVE  Sorted(R, FlattenSeq(f))
<1> DEFINE F(k) == FlattenSeq([p \in 1..k |-> f[p]])
           S == {k \in 0..n : Sorted(R, F(k))}
<1>1. 0 \in S
  <2>1. F(0) = <<>>
    BY FlattenEmpty
  <2>2. Sorted(R, <<>>)
    BY DEF Sorted
  <2> HIDE DEF F
  <2> QED
    BY <2>1, <2>2
<1>2. ASSUME NEW k \in 0..(n - 1), k \in S PROVE k + 1 \in S
  <2> DEFINE g == [p \in 1..(k + 1) |-> f[p]]
             h == [p \in 1..k |-> f[p]]
  <2>1. k \in Nat /\ k + 1 \in 1..n /\ k + 1 \in 0..n /\ \A p \in 1..(k + 1) : p \in 1..n
    OBVIOUS
  <2>2. /\ g \in [1..(k + 1) -> Seq(T)] /\ g[k + 1] = f[k + 1] /\ [p \in 1..k |-> g[p]] = h
        /\ h \in [1..k -> Seq(T)] /\ \A p \in 1..k : h[p] = f[p]
    BY <2>1
  <2>3. F(k + 1) = FlattenSeq(g) /\ F(k) = FlattenSeq(h)
    OBVIOUS
  <2> HIDE DEF g, h
  <2>4. FlattenSeq(g) = FlattenSeq([p \in 1..k |-> g[p]]) \o g[k + 1]
    BY <2>1, <2>2, FlattenMore
  <2>5. F(k + 1) = F(k) \o f[k + 1]
    BY <2>2, <2>3, <2>4
  <2>6. Sorted(R, F(k)) /\ f[k + 1] \in Seq(T) /\ Sorted(R, f[k + 1])
    BY <1>2, <2>1
  <2>7. /\ FlattenSeq(h) \in Seq(T)
         /\ \A x \in ToSet(FlattenSeq(h)) : \E p \in 1..k : x \in ToSet(h[p])
    <3>1. k \in Nat /\ h \in [1..k -> Seq(T)]
      BY <2>1, <2>2
    <3> HIDE DEF F
    <3> QED
      BY <3>1, FlattenElements
  <2> HIDE DEF F
  <2>8. F(k) \in Seq(T) /\ \A x \in ToSet(F(k)) : \E p \in 1..k : x \in ToSet(h[p])
    BY <2>3, <2>7
  <2>9. ASSUME NEW x \in ToSet(F(k)), NEW y \in ToSet(f[k + 1]) PROVE <<x, y>> \in R
    <3>1. PICK p \in 1..k : x \in ToSet(h[p])
      BY <2>8
    <3>2. p \in 1..n /\ k + 1 \in 1..n /\ p < k + 1 /\ x \in ToSet(f[p])
      BY <2>1, <2>2, <3>1
    <3> QED
      BY <3>2
  <2>10. Sorted(R, F(k) \o f[k + 1])
    BY <2>6, <2>8, <2>9, ConcatSorted
  <2> QED
    BY <2>1, <2>5, <2>10
<1> HIDE DEF S
<1>3. n \in S
  <2>1. 0..n \subseteq S
    BY <1>1, <1>2, Induction
  <2> QED
    BY <2>1
<1>4. F(n) = FlattenSeq(f)
  OBVIOUS
<1> QED
  BY <1>3, <1>4 DEF S

-----------------------------------------------------------------------------
(* What the first pass has to try, before anything is cut.                 *)
InOrder == {e \in Tries(source) \X Tries(source) : Precedes(e[1].at, e[2].at)}

LEMMA EditAlone ==
    ASSUME NEW op, NEW at, NEW R
    PROVE  ToSet(Edit(op, at)) = {[op |-> op, at |-> at]} /\ Sorted(R, Edit(op, at))
<1>1. Len(Edit(op, at)) = 1 /\ Edit(op, at)[1] = [op |-> op, at |-> at] /\ DOMAIN Edit(op, at) = {1}
  BY DEF Edit
<1> QED
  BY <1>1 DEF ToSet, Sorted

LEMMA EmptyList == ASSUME NEW R PROVE ToSet(<<>>) = {} /\ Sorted(R, <<>>)
BY DEF ToSet, Sorted

LEMMA TryTyped ==
    ASSUME NEW op \in FirstOps, NEW at \in 1..Len(source)
    PROVE  Edit(op, at) \in Seq(Tries(source))
BY DEF Edit, Tries, FirstOps

(* The attempts of an opening are at the tags it owns that the passes see. *)
TriesOf(list, p) ==
    /\ list \in Seq(Tries(source)) /\ Sorted(InOrder, list)
    /\ \A e \in ToSet(list) : Tagged(e.at) /\ OwnedBy(e.at, p)
    /\ \A a : Tagged(a) /\ OwnedBy(a, p) => \E e \in ToSet(list) : e.at = a

ElseEdits(p, list) ==
    list = [q \in 1..Len(source) |-> IF q \in ElsesOf(source, p) THEN Edit("else", q) ELSE <<>>]

LEMMA ElsesTried ==
    ASSUME Parsed(source), NEW p \in 1..Len(source), Is(source, p, {"open"}), ~Hidden(source, p),
           NEW elses, ElseEdits(p, elses)
    PROVE  /\ FlattenSeq(elses) \in Seq(Tries(source)) /\ Sorted(InOrder, FlattenSeq(elses))
           /\ \A q \in ElsesOf(source, p) : [op |-> "else", at |-> q] \in ToSet(FlattenSeq(elses))
           /\ \A e \in ToSet(FlattenSeq(elses)) : \E q \in ElsesOf(source, p) : e = [op |-> "else", at |-> q]
<1> DEFINE n == Len(source)
<1>1. n \in Nat /\ <<>> \in Seq(Tries(source)) /\ ElsesOf(source, p) \subseteq 1..n
  <2>1. n \in Nat
    BY ParsedFacts
  <2>2. (p + 1)..n \subseteq 1..n
    BY <2>1
  <2> QED
    BY <2>1, <2>2 DEF ElsesOf, Parts
<1>0. elses = [q \in 1..n |-> IF q \in ElsesOf(source, p) THEN Edit("else", q) ELSE <<>>]
  BY DEF ElseEdits
<1>2. ASSUME NEW q \in 1..n
      PROVE  /\ elses[q] \in Seq(Tries(source)) /\ Sorted(InOrder, elses[q])
             /\ q \in ElsesOf(source, p) => ToSet(elses[q]) = {[op |-> "else", at |-> q]}
             /\ q \notin ElsesOf(source, p) => ToSet(elses[q]) = {}
  <2>1. CASE q \in ElsesOf(source, p)
    <3>1. elses[q] = Edit("else", q)
      BY <1>0, <2>1
    <3> QED
      BY <2>1, <3>1, EditAlone, TryTyped DEF FirstOps
  <2>2. CASE q \notin ElsesOf(source, p)
    <3>1. elses[q] = <<>>
      BY <1>0, <2>2
    <3> QED
      BY <1>1, <2>2, <3>1, EmptyList
  <2> QED
    BY <2>1, <2>2
<1>3. elses \in [1..n -> Seq(Tries(source))]
  BY <1>0, <1>2
<1>4. ASSUME NEW q \in 1..n, NEW r \in 1..n, q < r, NEW x \in ToSet(elses[q]), NEW y \in ToSet(elses[r])
      PROVE  <<x, y>> \in InOrder
  <2>1. /\ q \in ElsesOf(source, p) /\ x = [op |-> "else", at |-> q]
        /\ r \in ElsesOf(source, p) /\ y = [op |-> "else", at |-> r]
    BY <1>2, <1>4
  <2>2. OwnedBy(q, p) /\ OwnedBy(r, p)
    BY <1>4, <2>1 DEF OwnedBy, Belongs, ElsesOf, Parts, Is
  <2>3. Precedes(q, r)
    BY <1>4, <2>2 DEF Precedes
  <2>4. x \in Tries(source) /\ y \in Tries(source)
    BY <2>1 DEF Tries
  <2> QED
    BY <2>1, <2>3, <2>4 DEF InOrder
<1> HIDE DEF n
<1>5. Sorted(InOrder, FlattenSeq(elses))
  <2>1. \A q \in 1..n : Sorted(InOrder, elses[q])
    BY <1>2
  <2>2. \A q, r \in 1..n : q < r => \A x \in ToSet(elses[q]), y \in ToSet(elses[r]) : <<x, y>> \in InOrder
    BY <1>4
  <2> QED
    BY <1>1, <1>3, <2>1, <2>2, FlattenSorted
<1>6. /\ FlattenSeq(elses) \in Seq(Tries(source))
      /\ \A q \in 1..n : ToSet(elses[q]) \subseteq ToSet(FlattenSeq(elses))
      /\ \A e \in ToSet(FlattenSeq(elses)) : \E q \in 1..n : e \in ToSet(elses[q])
  BY <1>1, <1>3, FlattenElements
<1>7. ASSUME NEW q \in ElsesOf(source, p)
      PROVE  q \in 1..n /\ [op |-> "else", at |-> q] \in ToSet(elses[q])
  <2>1. q \in 1..n
    BY <1>1
  <2> QED
    BY <1>2, <2>1
<1>8. ASSUME NEW q \in 1..n, NEW e \in ToSet(elses[q])
      PROVE  q \in ElsesOf(source, p) /\ e = [op |-> "else", at |-> q]
  BY <1>2
<1> QED
  BY <1>5, <1>6, <1>7, <1>8

LEMMA BlockTried ==
    ASSUME Parsed(source), NEW p \in 1..Len(source), Is(source, p, {"open"}), ~Hidden(source, p)
    PROVE  TriesOf(Attempts(source, p), p)
<1> DEFINE c == CloseOf(source, p)
           elses == [q \in 1..Len(source) |-> IF q \in ElsesOf(source, p) THEN Edit("else", q) ELSE <<>>]
           first == Edit("open", p)
           middle == FlattenSeq(elses)
           last == Edit("close", c)
<1>1. /\ Len(source) \in Nat /\ c \in (p + 1)..Len(source) /\ c \in 1..Len(source)
      /\ Belongs(source, c, p) /\ Is(source, c, {"close"})
  <2>1. Is(source, p, Openers) /\ Formed(source, p) /\ Len(source) \in Nat
    BY ParsedFacts DEF Is, Openers
  <2>2. Belongs(source, c, p)
    BY <2>1 DEF Formed
  <2>3. Is(source, c, {"close"})
    BY <2>1, <2>2, CloserFacts DEF Belongs, Is, Closers
  <2> QED
    BY <2>1, <2>2, <2>3, CloserFacts
<1>2. ASSUME NEW q \in ElsesOf(source, p) PROVE p < q /\ q < c /\ Belongs(source, q, p) /\ Tagged(q)
  <2>1. /\ q \in (p + 1)..Len(source) /\ source[q].kind = "else" /\ q < c
    BY DEF ElsesOf, Parts
  <2>2. Belongs(source, q, p) /\ source[p].kind = "open"
    BY <1>1, <2>1 DEF Belongs, Is
  <2>3. ~Hidden(source, q)
    BY <2>2, PartsSeen
  <2> QED
    BY <1>1, <2>1, <2>2, <2>3 DEF Tagged, Is
<1>3. Tagged(p) /\ Tagged(c) /\ OwnedBy(p, p) /\ OwnedBy(c, p)
  <2>1. source[p].kind = "open"
    BY DEF Is
  <2>2. ~Hidden(source, c)
    BY <1>1, <2>1, PartsSeen
  <2> QED
    BY <1>1, <2>1, <2>2 DEF Tagged, OwnedBy, Is
<1>4. Attempts(source, p) = first \o middle \o last
  BY DEF Attempts, Is
<1>5. /\ first \in Seq(Tries(source)) /\ Sorted(InOrder, first) /\ ToSet(first) = {[op |-> "open", at |-> p]}
      /\ last \in Seq(Tries(source)) /\ Sorted(InOrder, last) /\ ToSet(last) = {[op |-> "close", at |-> c]}
  BY <1>1, EditAlone, TryTyped DEF FirstOps
<1>6. /\ middle \in Seq(Tries(source)) /\ Sorted(InOrder, middle)
      /\ \A q \in ElsesOf(source, p) : [op |-> "else", at |-> q] \in ToSet(middle)
      /\ \A e \in ToSet(middle) : \E q \in ElsesOf(source, p) : e = [op |-> "else", at |-> q]
  <2> HIDE DEF elses
  <2>1. ElseEdits(p, elses)
    BY DEF elses, ElseEdits
  <2> QED
    BY <2>1, ElsesTried
<1> HIDE DEF first, middle, last, c
<1>7. /\ \A e \in ToSet(first) : e \in Tries(source) /\ e.at = p
      /\ \A e \in ToSet(last) : e \in Tries(source) /\ e.at = c
      /\ \A e \in ToSet(middle) : e \in Tries(source) /\ e.at \in ElsesOf(source, p)
  <2>1. /\ ToSet(first) \subseteq Tries(source) /\ ToSet(last) \subseteq Tries(source)
        /\ ToSet(middle) \subseteq Tries(source)
    BY <1>5, <1>6, Elements
  <2> QED
    BY <1>5, <1>6, <2>1
<1>8. \A e \in ToSet(first) \cup ToSet(middle), d \in ToSet(middle) \cup ToSet(last) :
          e \notin ToSet(middle) \/ d \notin ToSet(middle) => <<e, d>> \in InOrder
  <2> SUFFICES ASSUME NEW e \in ToSet(first) \cup ToSet(middle), NEW d \in ToSet(middle) \cup ToSet(last),
                      e \notin ToSet(middle) \/ d \notin ToSet(middle)
               PROVE  <<e, d>> \in InOrder
    OBVIOUS
  <2>1. e.at < d.at
    BY <1>1, <1>2, <1>7
  <2>2. OwnedBy(e.at, p) /\ OwnedBy(d.at, p)
    BY <1>2, <1>3, <1>7 DEF OwnedBy
  <2>3. Precedes(e.at, d.at)
    BY <2>1, <2>2 DEF Precedes
  <2>4. e \in Tries(source) /\ d \in Tries(source)
    BY <1>7
  <2> QED
    BY <2>3, <2>4 DEF InOrder
<1>9. /\ first \o middle \in Seq(Tries(source)) /\ Sorted(InOrder, first \o middle)
      /\ ToSet(first \o middle) = ToSet(first) \cup ToSet(middle)
  <2>1. first \o middle \in Seq(Tries(source)) /\ ToSet(first \o middle) = ToSet(first) \cup ToSet(middle)
    BY <1>5, <1>6, ConcatElements
  <2>2. \A e \in ToSet(first), d \in ToSet(middle) : <<e, d>> \in InOrder
    <3> SUFFICES ASSUME NEW e \in ToSet(first), NEW d \in ToSet(middle) PROVE <<e, d>> \in InOrder
      OBVIOUS
    <3>1. e \notin ToSet(middle)
      BY <1>1, <1>2, <1>7
    <3> QED
      BY <1>8, <3>1
  <2>3. Sorted(InOrder, first \o middle)
    BY <1>5, <1>6, <2>2, ConcatSorted
  <2> QED
    BY <2>1, <2>3
<1> DEFINE front == first \o middle
<1>10. /\ front \o last \in Seq(Tries(source)) /\ Sorted(InOrder, front \o last)
       /\ ToSet(front \o last) = ToSet(first) \cup ToSet(middle) \cup ToSet(last)
  <2> HIDE DEF front
  <2>0. front \in Seq(Tries(source)) /\ Sorted(InOrder, front) /\ ToSet(front) = ToSet(first) \cup ToSet(middle)
    BY <1>9 DEF front
  <2>1. front \o last \in Seq(Tries(source)) /\ ToSet(front \o last) = ToSet(front) \cup ToSet(last)
    BY <1>5, <2>0, ConcatElements
  <2>2. \A e \in ToSet(front), d \in ToSet(last) : <<e, d>> \in InOrder
    <3> SUFFICES ASSUME NEW e \in ToSet(first) \cup ToSet(middle), NEW d \in ToSet(last) PROVE <<e, d>> \in InOrder
      BY <2>0
    <3>1. d \notin ToSet(middle)
      BY <1>1, <1>2, <1>7
    <3> QED
      BY <1>8, <3>1
  <2>3. Sorted(InOrder, front \o last)
    BY <1>5, <2>0, <2>2, ConcatSorted
  <2> QED
    BY <2>0, <2>1, <2>3
<1>11. \A e \in ToSet(first) \cup ToSet(middle) \cup ToSet(last) : Tagged(e.at) /\ OwnedBy(e.at, p)
  BY <1>2, <1>3, <1>7 DEF OwnedBy
<1>12. ASSUME NEW a, Tagged(a), OwnedBy(a, p)
       PROVE  \E e \in ToSet(first) \cup ToSet(middle) \cup ToSet(last) : e.at = a
  <2>1. a = p \/ a \in ElsesOf(source, p) \/ a = c
    BY <1>12 DEF OwnedBy, Belongs, c
  <2>2. /\ [op |-> "open", at |-> p] \in ToSet(first) /\ [op |-> "close", at |-> c] \in ToSet(last)
        /\ a \in ElsesOf(source, p) => [op |-> "else", at |-> a] \in ToSet(middle)
    BY <1>5, <1>6
  <2> QED
    BY <2>1, <2>2
<1> QED
  BY <1>4, <1>10, <1>11, <1>12 DEF TriesOf, front

LEMMA AttemptsTried ==
    ASSUME Parsed(source), NEW p \in 1..Len(source)
    PROVE  TriesOf(Attempts(source, p), p) \/ (Hidden(source, p) /\ Attempts(source, p) = <<>>)
<1>1. CASE Is(source, p, {"open"}) /\ ~Hidden(source, p)
  BY <1>1, BlockTried
<1>2. CASE Is(source, p, {"comment", "partial", "inline"}) /\ ~Hidden(source, p)
  <2>1. Attempts(source, p) = Edit("simple", p)
    BY <1>2 DEF Attempts, Is
  <2>2. /\ Edit("simple", p) \in Seq(Tries(source)) /\ Sorted(InOrder, Edit("simple", p))
        /\ ToSet(Edit("simple", p)) = {[op |-> "simple", at |-> p]}
    BY EditAlone, TryTyped DEF FirstOps
  <2>3. Tagged(p) /\ OwnedBy(p, p)
    BY <1>2 DEF Tagged, OwnedBy, Is
  <2>4. ASSUME NEW a, Tagged(a), OwnedBy(a, p) PROVE a = p
    BY <1>2, <2>4 DEF OwnedBy, Belongs, Is, Tagged
  <2> DEFINE list == Attempts(source, p)
             only == [op |-> "simple", at |-> p]
  <2>5. /\ list \in Seq(Tries(source)) /\ Sorted(InOrder, list)
        /\ ToSet(list) = {only} /\ only.at = p
    BY <2>1, <2>2
  <2> HIDE DEF list, only
  <2>6. \A e \in ToSet(list) : e.at = p
    BY <2>5
  <2>7. only \in ToSet(list)
    BY <2>5
  <2> QED
    BY <2>3, <2>4, <2>5, <2>6, <2>7 DEF TriesOf, list
<1>3. CASE Hidden(source, p)
  BY <1>3 DEF Attempts
<1>4. CASE ~Hidden(source, p) /\ ~Is(source, p, {"open"}) /\ ~Is(source, p, {"comment", "partial", "inline"})
  <2>1. Attempts(source, p) = <<>>
    BY <1>4 DEF Attempts
  <2>2. <<>> \in Seq(Tries(source)) /\ ToSet(<<>>) = {} /\ Sorted(InOrder, <<>>)
    BY EmptyList
  <2>3. ASSUME NEW a, OwnedBy(a, p) PROVE FALSE
    BY <1>4, <2>3 DEF OwnedBy, Belongs, Is
  <2> QED
    BY <2>1, <2>2, <2>3 DEF TriesOf
<1> QED
  BY <1>1, <1>2, <1>3, <1>4

(* Each tag the passes see has an opening of its own, which they see too.  *)
LEMMA OwnersSeen ==
    ASSUME Parsed(source), NEW a, Tagged(a)
    PROVE  \E o \in 1..Len(source) : OwnedBy(a, o) /\ ~Hidden(source, o)
<1>1. a \in 1..Len(source) /\ Len(source) \in Nat /\ ~Hidden(source, a) /\ Formed(source, a)
  BY ParsedFacts DEF Tagged, Is
<1>2. CASE Is(source, a, {"comment", "partial", "inline", "open"})
  BY <1>1, <1>2 DEF OwnedBy
<1>3. CASE Is(source, a, Closers \cup {"else"})
  <2>1. PICK o \in 1..(a - 1) : Belongs(source, a, o)
    BY <1>1, <1>3 DEF Formed
  <2>2. o \in 1..Len(source) /\ ~Hidden(source, o)
    BY <1>1, <2>1, OwnerSeen
  <2> QED
    BY <2>1, <2>2 DEF OwnedBy
<1> QED
  BY <1>2, <1>3 DEF Tagged, Is, Closers

LEMMA FirstPassTries ==
    ASSUME Parsed(source)
    PROVE  /\ FirstPass(source) \in Seq(Tries(source)) /\ Sorted(InOrder, FirstPass(source))
           /\ \A e \in ToSet(FirstPass(source)) : Tagged(e.at)
           /\ \A a : Tagged(a) => \E e \in ToSet(FirstPass(source)) : e.at = a
<1> DEFINE n == Len(source)
           f == [p \in 1..n |-> Attempts(source, p)]
           list == FlattenSeq(f)
<1>1. n \in Nat /\ \A p \in 1..n : f[p] = Attempts(source, p)
  BY ParsedFacts
<1>2. FirstPass(source) = list
  BY DEF FirstPass
<1>3. \A p \in 1..n : f[p] \in Seq(Tries(source)) /\ Sorted(InOrder, f[p])
  <2> TAKE p \in 1..n
  <2>1. <<>> \in Seq(Tries(source)) /\ Sorted(InOrder, <<>>)
    BY EmptyList
  <2> QED
    BY <1>1, <2>1, AttemptsTried DEF TriesOf
<1>4. \A p \in 1..n : \A e \in ToSet(f[p]) : Tagged(e.at) /\ OwnedBy(e.at, p) /\ e \in Tries(source)
  <2> TAKE p \in 1..n
  <2> TAKE e \in ToSet(f[p])
  <2>1. ToSet(<<>>) = {}
    BY EmptyList
  <2>2. Tagged(e.at) /\ OwnedBy(e.at, p)
    BY <1>1, <2>1, AttemptsTried DEF TriesOf
  <2>3. e \in Tries(source)
    BY <1>3, Elements
  <2> QED
    BY <2>2, <2>3
<1>5. f \in [1..n -> Seq(Tries(source))]
  BY <1>3
<1> HIDE DEF f, n, list
<1>6. \A p, q \in 1..n : p < q => \A x \in ToSet(f[p]), y \in ToSet(f[q]) : <<x, y>> \in InOrder
  <2> SUFFICES ASSUME NEW p \in 1..n, NEW q \in 1..n, p < q, NEW x \in ToSet(f[p]), NEW y \in ToSet(f[q])
               PROVE  <<x, y>> \in InOrder
    OBVIOUS
  <2>1. OwnedBy(x.at, p) /\ OwnedBy(y.at, q) /\ x \in Tries(source) /\ y \in Tries(source)
    BY <1>4
  <2>2. Precedes(x.at, y.at)
    BY <2>1 DEF Precedes
  <2> QED
    BY <2>1, <2>2 DEF InOrder
<1>7. /\ list \in Seq(Tries(source))
      /\ \A p \in 1..n : ToSet(f[p]) \subseteq ToSet(list)
      /\ \A x \in ToSet(list) : \E p \in 1..n : x \in ToSet(f[p])
  BY <1>1, <1>5, FlattenElements DEF list
<1>8. Sorted(InOrder, list)
  <2>1. \A p \in 1..n : Sorted(InOrder, f[p])
    BY <1>3
  <2> QED
    BY <1>1, <1>5, <1>6, <2>1, FlattenSorted DEF list
<1>9. ASSUME NEW e \in ToSet(list) PROVE Tagged(e.at)
  BY <1>4, <1>7
<1>10. ASSUME NEW a, Tagged(a) PROVE \E e \in ToSet(list) : e.at = a
  <2>1. PICK o \in 1..n : OwnedBy(a, o) /\ ~Hidden(source, o)
    BY <1>10, OwnersSeen DEF n
  <2>2. TriesOf(f[o], o)
    BY <1>1, <2>1, AttemptsTried DEF n
  <2>3. PICK e \in ToSet(f[o]) : e.at = a
    BY <1>10, <2>1, <2>2 DEF TriesOf
  <2> QED
    BY <1>7, <2>1, <2>3
<1> QED
  BY <1>2, <1>7, <1>8, <1>9, <1>10

(* What the second pass has to strip: a text for each ~ beside it.         *)
LEMMA BothSides ==
    ASSUME Parsed(source), NEW x \in 1..Len(source)
    PROVE  /\ Both(source, x) \in Seq(Edits(source))
           /\ \A e : e \in ToSet(Both(source, x)) <=>
                  \/ /\ e = [op |-> "trailing", at |-> x - 1] /\ source[x].left
                     /\ Is(source, x - 1, {"text"})
                  \/ /\ e = [op |-> "leading", at |-> x + 1] /\ source[x].right
                     /\ Is(source, x + 1, {"text"})
<1> DEFINE a == Side(source, x, source[x].left, "trailing", x - 1)
           b == Side(source, x, source[x].right, "leading", x + 1)
<1>1. a \in Seq(Edits(source)) /\ b \in Seq(Edits(source))
  BY SideTyped DEF Ops
<1>2. ASSUME NEW flag, NEW op, NEW at
      PROVE  \A e : e \in ToSet(Side(source, x, flag, op, at)) <=>
                       e = [op |-> op, at |-> at] /\ flag /\ Is(source, at, {"text"})
  <2>1. CASE flag /\ Is(source, at, {"text"})
    <3>1. Side(source, x, flag, op, at) = Edit(op, at)
      BY <2>1 DEF Side
    <3>2. ToSet(Edit(op, at)) = {[op |-> op, at |-> at]}
      BY EditAlone
    <3> QED
      BY <2>1, <3>1, <3>2
  <2>2. CASE ~(flag /\ Is(source, at, {"text"}))
    <3>1. Side(source, x, flag, op, at) = <<>>
      BY <2>2 DEF Side
    <3>2. ToSet(<<>>) = {}
      BY EmptyList
    <3> QED
      BY <2>2, <3>1, <3>2
  <2> QED
    BY <2>1, <2>2
<1>3. /\ \A e : e \in ToSet(a) <=> e = [op |-> "trailing", at |-> x - 1] /\ source[x].left
                                   /\ Is(source, x - 1, {"text"})
      /\ \A e : e \in ToSet(b) <=> e = [op |-> "leading", at |-> x + 1] /\ source[x].right
                                   /\ Is(source, x + 1, {"text"})
  BY <1>2
<1>4. Both(source, x) = a \o b
  BY DEF Both
<1> HIDE DEF a, b
<1>5. a \o b \in Seq(Edits(source)) /\ ToSet(a \o b) = ToSet(a) \cup ToSet(b)
  BY <1>1, ConcatElements
<1> QED
  BY <1>3, <1>4, <1>5

(* What may have a ~, where the second pass comes.                         *)
Flagged(x) == Is(source, x, {"mustache", "open", "close"}) /\ ~Hidden(source, x)

LEMMA TildesSides ==
    ASSUME Parsed(source), NEW p \in 1..Len(source)
    PROVE  /\ \A e \in ToSet(Tildes(source, p)) : \E x \in 1..Len(source) : Flagged(x) /\ e \in ToSet(Both(source, x))
           /\ ~Hidden(source, p) /\ Is(source, p, {"mustache", "open"})
              => ToSet(Both(source, p)) \subseteq ToSet(Tildes(source, p))
           /\ ~Hidden(source, p) /\ Is(source, p, {"open"})
              => ToSet(Both(source, CloseOf(source, p))) \subseteq ToSet(Tildes(source, p))
<1>1. CASE Is(source, p, {"open"}) /\ ~Hidden(source, p)
  <2>1. CloseOf(source, p) \in 1..Len(source)
    BY <1>1, CloserFacts DEF Is, Openers
  <2> DEFINE c == CloseOf(source, p)
  <2>2. Tildes(source, p) = Both(source, p) \o Both(source, c)
    BY <1>1 DEF Tildes, Is
  <2> HIDE DEF c
  <2>3. Both(source, p) \in Seq(Edits(source)) /\ Both(source, c) \in Seq(Edits(source))
    BY <2>1, BothSides DEF c
  <2>4. ToSet(Both(source, p) \o Both(source, c)) = ToSet(Both(source, p)) \cup ToSet(Both(source, c))
    BY <2>3, ConcatElements
  <2>5. Flagged(p) /\ Flagged(c) /\ c \in 1..Len(source)
    <3>1. Belongs(source, c, p) /\ Is(source, c, {"close"})
      <4>1. Formed(source, p) /\ Is(source, p, Openers)
        BY <1>1, ParsedFacts DEF Is, Openers
      <4>2. Belongs(source, c, p)
        BY <4>1 DEF Formed, c
      <4>3. c \notin ElsesOf(source, p)
        BY <2>1, ParsedFacts DEF ElsesOf, c
      <4> QED
        BY <1>1, <4>2, <4>3 DEF Belongs, Is
    <3>2. ~Hidden(source, c)
      BY <1>1, <3>1, PartsSeen DEF Is
    <3> QED
      BY <1>1, <2>1, <3>1, <3>2 DEF Flagged, Is, c
  <2> QED
    BY <2>1, <2>2, <2>4, <2>5 DEF c
<1>2. CASE Is(source, p, {"mustache"}) /\ ~Hidden(source, p)
  <2>1. Tildes(source, p) = Both(source, p) /\ ~Is(source, p, {"open"}) /\ Flagged(p)
    BY <1>2 DEF Tildes, Is, Flagged
  <2> QED
    BY <2>1
<1>3. CASE Hidden(source, p) \/ ~Is(source, p, {"mustache", "open"})
  <2>1. Tildes(source, p) = <<>> /\ (~Hidden(source, p) => ~Is(source, p, {"mustache", "open"}) /\ ~Is(source, p, {"open"}))
    BY <1>3 DEF Tildes, Is
  <2>2. ToSet(<<>>) = {}
    BY EmptyList
  <2> QED
    BY <1>3, <2>1, <2>2
<1> QED
  BY <1>1, <1>2, <1>3 DEF Is

LEMMA SecondPassSides ==
    ASSUME Parsed(source)
    PROVE  /\ SecondPass(source) \in Seq(Edits(source))
           /\ \A e \in ToSet(SecondPass(source)) : \E x \in 1..Len(source) : Flagged(x) /\ e \in ToSet(Both(source, x))
           /\ \A x \in 1..Len(source) : ~Hidden(source, x) /\ (source[x].left \/ source[x].right)
                  => ToSet(Both(source, x)) \subseteq ToSet(SecondPass(source))
<1> DEFINE n == Len(source)
           f == [p \in 1..n |-> Tildes(source, p)]
           list == FlattenSeq(f)
<1>1. n \in Nat /\ \A p \in 1..n : f[p] = Tildes(source, p)
  BY ParsedFacts
<1>2. SecondPass(source) = list
  BY DEF SecondPass
<1>3. f \in [1..n -> Seq(Edits(source))]
  BY TildesTyped
<1> HIDE DEF f, n, list
<1>4. /\ list \in Seq(Edits(source))
      /\ \A p \in 1..n : ToSet(f[p]) \subseteq ToSet(list)
      /\ \A x \in ToSet(list) : \E p \in 1..n : x \in ToSet(f[p])
  BY <1>1, <1>3, FlattenElements DEF list
<1>5. ASSUME NEW e \in ToSet(list) PROVE \E x \in 1..n : Flagged(x) /\ e \in ToSet(Both(source, x))
  BY <1>1, <1>4, TildesSides DEF n
<1>6. ASSUME NEW x \in 1..n, ~Hidden(source, x), source[x].left \/ source[x].right
      PROVE  ToSet(Both(source, x)) \subseteq ToSet(list)
  <2>1. Formed(source, x) /\ Is(source, x, {"mustache", "open", "close"})
    BY <1>6, ParsedFacts DEF n, Formed
  <2>2. CASE Is(source, x, {"mustache", "open"})
    BY <1>1, <1>4, <1>6, <2>2, TildesSides DEF n
  <2>3. CASE Is(source, x, {"close"})
    <3>1. PICK o \in 1..(x - 1) : Belongs(source, x, o)
      BY <2>1, <2>3 DEF Formed, Is, Closers
    <3>2. o \in 1..n /\ ~Hidden(source, o)
      BY <1>6, <3>1, OwnerSeen, BelongsFacts DEF n
    <3>3. Is(source, o, {"open"}) /\ CloseOf(source, o) = x
      BY <2>3, <3>1 DEF Belongs, Is
    <3> QED
      BY <1>1, <1>4, <3>2, <3>3, TildesSides DEF n
  <2> QED
    BY <2>1, <2>2, <2>3 DEF Is
<1> QED
  BY <1>2, <1>4, <1>5, <1>6 DEF n

(* A ~ is beside a text the passes see only if they see its tag.           *)
LEMMA FlagSeen ==
    ASSUME Parsed(source), NEW q \in Texts, q > 1, source[q - 1].right
    PROVE  ~Hidden(source, q - 1)
<1> SUFFICES ASSUME Hidden(source, q - 1) PROVE FALSE
  OBVIOUS
<1>1. /\ q \in 2..Len(source) /\ q - 1 \in 1..Len(source) /\ ~Hidden(source, q) /\ Len(source) \in Nat
  BY ParsedFacts DEF Texts, TextNodes
<1>2. PICK r \in 1..(q - 2) : source[r].kind = "inline" /\ CloseOf(source, r) = q - 1
  BY <1>1, BeforeSeen
<1>3. r \in 1..Len(source) /\ Is(source, r, Openers)
  BY <1>1, <1>2 DEF Is, Openers
<1>4. Is(source, q - 1, {"endinline"})
  <2>1. Belongs(source, CloseOf(source, r), r)
    BY <1>3, ParsedFacts DEF Formed
  <2> QED
    BY <1>2, <2>1 DEF Belongs, Is
<1>5. Is(source, q - 1, {"mustache", "open", "close"})
  BY <1>1, ParsedFacts DEF Formed
<1> QED
  BY <1>4, <1>5 DEF Is

LEMMA SidesStripped ==
    ASSUME Parsed(source), NEW q \in Texts
    PROVE  /\ ([op |-> "leading", at |-> q] \in ToSet(SecondPass(source))) = (q > 1 /\ source[q - 1].right)
           /\ ([op |-> "trailing", at |-> q] \in ToSet(SecondPass(source))) = (q < Len(source) /\ source[q + 1].left)
<1> DEFINE lead == [op |-> "leading", at |-> q]
           trail == [op |-> "trailing", at |-> q]
<1>1. q \in 1..Len(source) /\ Len(source) \in Nat /\ Is(source, q, {"text"}) /\ ~Hidden(source, q)
  BY ParsedFacts DEF Texts, TextNodes, Is
<1>2. \A x \in 1..Len(source) : source[x].right \in BOOLEAN /\ source[x].left \in BOOLEAN
  BY ParsedFacts DEF Item
<1>3. ASSUME lead \in ToSet(SecondPass(source)) PROVE q > 1 /\ source[q - 1].right
  <2>1. PICK x \in 1..Len(source) : lead \in ToSet(Both(source, x))
    BY <1>3, SecondPassSides
  <2>2. lead = [op |-> "leading", at |-> x + 1] /\ source[x].right
    BY <2>1, BothSides
  <2>3. q = x + 1
    BY <2>2
  <2> QED
    BY <1>1, <2>2, <2>3
<1>4. ASSUME q > 1, source[q - 1].right PROVE lead \in ToSet(SecondPass(source))
  <2>1. q - 1 \in 1..Len(source) /\ (q - 1) + 1 = q /\ ~Hidden(source, q - 1)
    BY <1>1, <1>4, FlagSeen
  <2>2. lead \in ToSet(Both(source, q - 1))
    BY <1>1, <1>4, <2>1, BothSides
  <2> QED
    BY <1>4, <2>1, <2>2, SecondPassSides
<1>5. ASSUME trail \in ToSet(SecondPass(source)) PROVE q < Len(source) /\ source[q + 1].left
  <2>1. PICK x \in 1..Len(source) : trail \in ToSet(Both(source, x))
    BY <1>5, SecondPassSides
  <2>2. trail = [op |-> "trailing", at |-> x - 1] /\ source[x].left
    BY <2>1, BothSides
  <2>3. q = x - 1
    BY <2>2
  <2> QED
    BY <1>1, <2>2, <2>3
<1>6. ASSUME q < Len(source), source[q + 1].left PROVE trail \in ToSet(SecondPass(source))
  <2>1. q + 1 \in 1..Len(source) /\ (q + 1) - 1 = q
    BY <1>1, <1>6
  <2>2. ~Hidden(source, q + 1)
    BY <1>1, NextSeen DEF Is
  <2>3. trail \in ToSet(Both(source, q + 1))
    BY <1>1, <1>6, <2>1, BothSides
  <2> QED
    BY <1>6, <2>1, <2>2, <2>3, SecondPassSides
<1>7. q > 1 => q - 1 \in 1..Len(source)
  BY <1>1
<1>8. q < Len(source) => q + 1 \in 1..Len(source)
  BY <1>1
<1>9. (lead \in ToSet(SecondPass(source))) = (q > 1 /\ source[q - 1].right)
  BY <1>2, <1>3, <1>4, <1>7
<1>10. (trail \in ToSet(SecondPass(source))) = (q < Len(source) /\ source[q + 1].left)
  BY <1>2, <1>5, <1>6, <1>8
<1> QED
  BY <1>9, <1>10

LEMMA CuttingInit ==
    ASSUME Init, ~Abrupt
    PROVE  Cutting
<1> DEFINE first == FirstPass(source)
           second == SecondPass(source)
           m == Len(first)
           n == Len(second)
<1>1. Parsed(source) /\ WInv
  BY WInvInit DEF Init, Parsed
<1>2. /\ first \in Seq(Tries(source)) /\ Sorted(InOrder, first)
      /\ \A e \in ToSet(first) : Tagged(e.at)
      /\ \A a : Tagged(a) => \E e \in ToSet(first) : e.at = a
  BY <1>1, FirstPassTries
<1>3. second \in Seq(Edits(source)) /\ \A e \in ToSet(second) : e.op \in {"leading", "trailing"}
  BY <1>1, SecondPassSides, BothSides
<1>4. todo = first \o second
  BY DEF Init
<1>5. /\ m \in Nat /\ n \in Nat /\ \A i \in 1..m : first[i] \in Tries(source) /\ first[i] \in ToSet(first)
      /\ \A i \in 1..n : second[i] \in ToSet(second)
      /\ \A e \in ToSet(first) : \E i \in 1..m : first[i] = e
      /\ \A e \in ToSet(second) : \E i \in 1..n : second[i] = e
  <2>1. /\ m \in Nat /\ \A i \in 1..m : first[i] \in Tries(source) /\ first[i] \in ToSet(first)
        /\ \A e \in ToSet(first) : \E i \in 1..m : first[i] = e
    BY <1>2, Elements
  <2>2. /\ n \in Nat /\ \A i \in 1..n : second[i] \in ToSet(second)
        /\ \A e \in ToSet(second) : \E i \in 1..n : second[i] = e
    BY <1>3, Elements
  <2> QED
    BY <2>1, <2>2
<1>6. /\ Len(todo) = m + n
      /\ \A i \in 1..(m + n) : todo[i] = IF i <= m THEN first[i] ELSE second[i - m]
  <2>1. Tries(source) \subseteq Edits(source)
    BY DEF Tries, Edits, Ops
  <2>2. \A i \in 1..m : first[i] \in Edits(source)
    BY <1>5, <2>1
  <2>3. first = [i \in 1..m |-> first[i]]
    BY <1>2, LenProperties
  <2>4. first \in Seq(Edits(source))
    BY <1>5, <2>2, <2>3, SeqDef
  <2> QED
    BY <1>3, <1>4, <2>4, ConcatProperties
<1> HIDE DEF first, second, m, n
<1>7. /\ \A i \in 1..m : i \in 1..Len(todo) /\ todo[i] = first[i]
      /\ \A i \in 1..n : m + i \in 1..Len(todo) /\ todo[m + i] = second[i]
      /\ \A i \in 1..Len(todo) : ~(i \in 1..m) => i - m \in 1..n /\ todo[i] = second[i - m]
  BY <1>5, <1>6
<1>8. \A e \in ToSet(second) : e \notin Tries(source)
  BY <1>3 DEF Tries
<1>9. \A i \in 1..Len(todo) : todo[i] \in Tries(source) => i \in 1..m
  BY <1>5, <1>7, <1>8
<1>10. ASSUME NEW p, Tagged(p) PROVE Waits(p)
  <2>1. PICK e \in ToSet(first) : e.at = p
    BY <1>2, <1>10
  <2>2. PICK i \in 1..m : first[i] = e
    BY <1>5
  <2> QED
    BY <1>5, <1>7, <2>1, <2>2 DEF Waits
<1>11. Orderly
  <2>1. ASSUME NEW i \in 1..Len(todo), todo[i] \in Tries(source) PROVE Tagged(todo[i].at)
    BY <1>2, <1>5, <1>7, <1>9, <2>1
  <2>2. ASSUME NEW i \in 1..Len(todo), NEW j \in 1..Len(todo), i < j, todo[j] \in Tries(source)
        PROVE  todo[i] \in Tries(source) /\ Precedes(todo[i].at, todo[j].at)
    <3>1. j \in 1..m
      BY <1>9, <2>2
    <3>2. i \in 1..m
      BY <1>5, <2>2, <3>1
    <3>3. todo[i] = first[i] /\ todo[j] = first[j]
      BY <1>7, <3>1, <3>2
    <3>4. <<first[i], first[j]>> \in InOrder
      BY <1>2, <2>2, <3>1, <3>2 DEF Sorted, m
    <3>5. Precedes(first[i].at, first[j].at)
      BY <3>4 DEF InOrder
    <3> QED
      BY <1>5, <3>2, <3>3, <3>5
  <2> QED
    BY <1>10, <2>1, <2>2 DEF Orderly
<1>12. AllTrims
  <2>1. ASSUME NEW op \in {"leading", "trailing"}, NEW q
        PROVE  Strips(op, q) = ([op |-> op, at |-> q] \in ToSet(second))
    <3> DEFINE e == [op |-> op, at |-> q]
    <3>1. e \notin Tries(source)
      BY DEF Tries
    <3> HIDE DEF e
    <3>2. ASSUME NEW i \in 1..Len(todo), todo[i] = e PROVE e \in ToSet(second)
      <4>1. ~(i \in 1..m)
        BY <1>5, <1>7, <3>1, <3>2
      <4> QED
        BY <1>5, <1>7, <3>2, <4>1
    <3>3. ASSUME e \in ToSet(second) PROVE \E i \in 1..Len(todo) : todo[i] = e
      <4>1. PICK i \in 1..n : second[i] = e
        BY <1>5, <3>3
      <4> QED
        BY <1>7, <4>1
    <3>4. Strips(op, q) => e \in ToSet(second)
      BY <3>2 DEF Strips, e
    <3>5. e \in ToSet(second) => Strips(op, q)
      BY <3>3 DEF Strips, e
    <3>6. Strips(op, q) \in BOOLEAN /\ (e \in ToSet(second)) \in BOOLEAN
      BY DEF Strips
    <3>7. Strips(op, q) = (e \in ToSet(second))
      BY <3>4, <3>5, <3>6
    <3> QED
      BY <3>7 DEF e
  <2> QED
    BY <1>1, <2>1, SidesStripped DEF AllTrims, second
<1>13. ASSUME NEW q \in Texts PROVE text[q] = LineCut(Original(q), FrontDone(q), BackDone(q))
  <2>1. /\ q \in 1..Len(source) /\ Original(q) \in Seq(Char)
    BY <1>1, TextTyped
  <2>2. text[q] = Original(q)
    BY <2>1 DEF Init, Original
  <2>3. ~FrontDone(q)
    <3> SUFFICES ASSUME FrontDone(q) PROVE FALSE
      OBVIOUS
    <3>1. PICK h : Tagged(h) /\ ~Waits(h)
      BY <1>1, FrontFacts
    <3> QED
      BY <1>10, <3>1
  <2>4. ~BackDone(q)
    <3> SUFFICES ASSUME BackDone(q) PROVE FALSE
      OBVIOUS
    <3>1. Tagged(q + 1)
      BY <1>1, BackFacts
    <3> QED
      BY <1>10, <3>1 DEF BackDone
  <2>5. FrontDone(q) = FALSE /\ BackDone(q) = FALSE
    BY <2>3, <2>4 DEF FrontDone, BackDone, Alone
  <2>6. LineCut(Original(q), FALSE, FALSE) = Original(q)
    BY <2>1, Uncut
  <2> QED
    BY <2>2, <2>5, <2>6
<1> QED
  BY <1>11, <1>12, <1>13 DEF Cutting, AsCut

LEMMA SameState ==
    ASSUME UNCHANGED <<source, text, todo>>
    PROVE  Cutting' = Cutting /\ Trimming' = Trimming
<1>1. /\ Texts' = Texts /\ Tries(source)' = Tries(source)
      /\ \A p : /\ Tagged(p)' = Tagged(p) /\ After(p)' = After(p) /\ Alone(p)' = Alone(p)
                /\ Original(p)' = Original(p) /\ Documented(p)' = Documented(p)
      /\ \A a, b : Precedes(a, b)' = Precedes(a, b)
  BY SameTemplate
<1>2. \A p : Waits(p)' = Waits(p)
  BY <1>1 DEF Waits
<1>3. \A o, q : Strips(o, q)' = Strips(o, q)
  BY DEF Strips
<1>4. \A q : FrontDone(q)' = FrontDone(q) /\ BackDone(q)' = BackDone(q)
  BY <1>1, <1>2 DEF FrontDone, BackDone
<1>5. Orderly' = Orderly
  BY <1>1, <1>2 DEF Orderly
<1>6. AllTrims' = AllTrims
  BY <1>1, <1>3 DEF AllTrims
<1>7. AsCut' = AsCut
  BY <1>1, <1>4 DEF AsCut, LineCut
<1>8. \A q : Rest(q)' = Rest(q)
  BY <1>3 DEF Rest
<1>9. Trimming' = Trimming
  BY <1>1, <1>8 DEF Trimming
<1> QED
  BY <1>5, <1>6, <1>7, <1>9 DEF Cutting

-----------------------------------------------------------------------------
(* No edit is at a text in the body of an inline partial.                  *)
Sees(e) == \/ e \in Tries(source) /\ Tagged(e.at)
           \/ e.op \in {"leading", "trailing"} /\ e.at \in Texts

Unseen == TextNodes \ Texts
Shown == /\ \A i \in 1..Len(todo) : Sees(todo[i])
         /\ \A q \in Unseen : text[q] = Original(q)

LEMMA BesideSeen ==
    ASSUME Parsed(source), NEW x \in 1..Len(source), Flagged(x), NEW e \in ToSet(Both(source, x))
    PROVE  Sees(e)
<1>1. x \in 1..Len(source) /\ Len(source) \in Nat /\ ~Hidden(source, x) /\ source[x].kind # "inline"
  BY ParsedFacts DEF Flagged, Is
<1>2. \/ e = [op |-> "trailing", at |-> x - 1] /\ Is(source, x - 1, {"text"})
      \/ e = [op |-> "leading", at |-> x + 1] /\ Is(source, x + 1, {"text"})
  BY BothSides
<1>3. ASSUME Is(source, x - 1, {"text"}), Hidden(source, x - 1) PROVE FALSE
  <2>1. x \in 2..Len(source)
    BY <1>1, <1>3 DEF Is
  <2>2. PICK r \in 1..(x - 2) : source[r].kind = "inline" /\ CloseOf(source, r) = x - 1
    BY <1>1, <1>3, <2>1, BeforeSeen
  <2>3. Is(source, x - 1, Closers)
    <3>1. r \in 1..Len(source)
      BY <1>1, <2>2
    <3> QED
      BY <2>2, <3>1, CloserFacts DEF Is, Openers
  <2> QED
    BY <1>3, <2>3 DEF Is, Closers
<1>4. ~Hidden(source, x + 1)
  BY <1>1, NextSeen
<1>5. CASE e = [op |-> "trailing", at |-> x - 1] /\ Is(source, x - 1, {"text"})
  BY <1>3, <1>5 DEF Sees, Texts, TextNodes, Is
<1>6. CASE e = [op |-> "leading", at |-> x + 1] /\ Is(source, x + 1, {"text"})
  BY <1>4, <1>6 DEF Sees, Texts, TextNodes, Is
<1> QED
  BY <1>2, <1>5, <1>6

LEMMA ShownInit == Init => Shown
<1> SUFFICES ASSUME Init PROVE Shown
  OBVIOUS
<1> DEFINE first == FirstPass(source)
           second == SecondPass(source)
<1>1. Parsed(source)
  BY DEF Init, Parsed
<1>2. first \in Seq(Tries(source)) /\ \A e \in ToSet(first) : Tagged(e.at)
  BY <1>1, FirstPassTries
<1>3. /\ second \in Seq(Edits(source))
      /\ \A e \in ToSet(second) : \E x \in 1..Len(source) : Flagged(x) /\ e \in ToSet(Both(source, x))
  BY <1>1, SecondPassSides
<1>4. todo = first \o second
  BY DEF Init
<1> HIDE DEF first, second
<1>5. first \in Seq(Edits(source)) /\ ToSet(first) \subseteq Tries(source)
  <2>1. Tries(source) \subseteq Edits(source)
    BY DEF Tries, Edits, Ops
  <2>2. \A i \in 1..Len(first) : first[i] \in Edits(source)
    BY <1>2, <2>1, Elements
  <2>3. first = [i \in 1..Len(first) |-> first[i]] /\ Len(first) \in Nat
    BY <1>2, LenProperties
  <2> QED
    BY <1>2, <2>2, <2>3, SeqDef, Elements
<1>6. todo \in Seq(Edits(source)) /\ ToSet(todo) = ToSet(first) \cup ToSet(second)
  BY <1>3, <1>4, <1>5, ConcatElements
<1>7. \A e \in ToSet(todo) : Sees(e)
  <2>1. \A e \in ToSet(first) : Sees(e)
    BY <1>2, <1>5 DEF Sees
  <2>2. \A e \in ToSet(second) : Sees(e)
    BY <1>1, <1>3, BesideSeen
  <2> QED
    BY <1>6, <2>1, <2>2
<1>8. \A i \in 1..Len(todo) : Sees(todo[i])
  BY <1>6, <1>7, Elements
<1>9. \A q \in Unseen : text[q] = Original(q)
  BY DEF Init, Original, Unseen, TextNodes
<1> QED
  BY <1>8, <1>9 DEF Shown

LEMMA ShownStep == WInv /\ Shown /\ [Next]_vars => Shown'
<1> SUFFICES ASSUME WInv, Shown, [Next]_vars PROVE Shown'
  OBVIOUS
<1>1. CASE UNCHANGED vars
  BY <1>1, SameTemplate DEF vars, Shown, Sees, Unseen
<1>2. ASSUME todo # <<>>, todo' = Tail(todo), UNCHANGED source,
             Sees(Head(todo)) => \A q \in Unseen : text'[q] = text[q]
      PROVE  Shown'
  <2>1. /\ Unseen' = Unseen /\ \A e : Sees(e)' = Sees(e)
        /\ \A q : Original(q)' = Original(q)
    BY <1>2, SameTemplate DEF Sees, Unseen
  <2>2. /\ 1 \in 1..Len(todo) /\ todo[1] = Head(todo)
        /\ \A i \in 1..Len(todo') : i + 1 \in 1..Len(todo) /\ todo'[i] = todo[i + 1]
    BY <1>2, Popped
  <2>3. \A i \in 1..Len(todo') : Sees(todo'[i])
    BY <2>2 DEF Shown
  <2>4. \A q \in Unseen : text'[q] = Original(q)
    BY <1>2, <2>2 DEF Shown
  <2> QED
    BY <2>1, <2>3, <2>4 DEF Shown
<1>3. ASSUME NEW op \in FirstOps, Try(op), Sees(Head(todo)), NEW q \in Unseen PROVE text'[q] = text[q]
  <2> DEFINE p == Head(todo).at
  <2>1. Tagged(p) /\ Parsed(source)
    BY <1>3 DEF Sees, Try, FirstOps, WInv, Parsed
  <2> HIDE DEF p
  <2>2. /\ Is(source, Before(p), {"text"}) => Before(p) # q
        /\ Is(source, After(p), {"text"}) => After(p) # q
    BY <2>1, TextsAround DEF Before, Unseen
  <2>3. q \in DOMAIN text
    BY DEF Unseen, TextNodes, WInv, TextsSolid
  <2>4. text' = Cut(p) \/ text' = text
    BY <1>3 DEF Try, p
  <2>5. Cut(p)[q] = text[q]
    BY <2>2, <2>3 DEF Cut
  <2> QED
    BY <2>4, <2>5
<1>4. ASSUME TrimLeading \/ TrimTrailing, Sees(Head(todo)), NEW q \in Unseen PROVE text'[q] = text[q]
  <2>1. Head(todo).op \in {"leading", "trailing"} /\ Head(todo) \notin Tries(source)
    BY <1>4 DEF TrimLeading, TrimTrailing, Trim, Tries
  <2>2. Head(todo).at # q
    BY <1>4, <2>1 DEF Sees, Unseen
  <2>3. q \in DOMAIN text
    BY DEF Unseen, TextNodes, WInv, TextsSolid
  <2> QED
    BY <1>4, <2>2, <2>3 DEF TrimLeading, TrimTrailing, Trim
<1>5. ASSUME NEW op \in FirstOps, Try(op) PROVE Shown'
  BY <1>2, <1>3, <1>5 DEF Try
<1>6. CASE TrimLeading \/ TrimTrailing
  <2>1. todo # <<>> /\ todo' = Tail(todo) /\ UNCHANGED source
    BY <1>6 DEF TrimLeading, TrimTrailing, Trim
  <2> QED
    BY <1>2, <1>4, <1>6, <2>1
<1> QED
  BY <1>1, <1>5, <1>6 DEF Next, StripSimple, StripOpen, StripElse, StripClose, FirstOps

(* Nor do the written lines ask for one, if no tag in such a body is alone *)
(* on its line or has a ~.                                                 *)
LEMMA UnseenAsWritten ==
    ASSUME WInv, ~Embedded, NEW q \in Unseen
    PROVE  Documented(q) = Original(q)
<1>1. /\ Parsed(source) /\ q \in 1..Len(source) /\ Len(source) \in Nat
      /\ source[q].kind = "text" /\ Hidden(source, q) /\ Original(q) \in Seq(Char)
  <2>1. Parsed(source)
    BY DEF WInv, Parsed
  <2>2. q \in 1..Len(source) /\ source[q].kind = "text" /\ Hidden(source, q)
    BY DEF Unseen, TextNodes, Texts
  <2>3. source[q] \in Item /\ Len(source) \in Nat
    BY <2>1, <2>2, ParsedFacts
  <2> QED
    BY <2>1, <2>2, <2>3 DEF Item, Original, Char
<1>2. PICK o \in 1..(q - 1) : source[o].kind = "inline" /\ q <= CloseOf(source, o)
  BY <1>1 DEF Hidden
<1> DEFINE c == CloseOf(source, o)
<1>3. /\ o \in 1..Len(source) /\ c \in 1..Len(source) /\ source[c].kind = "endinline" /\ q < c
      /\ o \in Nat /\ c \in Nat
  <2>1. o \in 1..Len(source)
    BY <1>1, <1>2
  <2>2. c \in 1..Len(source) /\ Is(source, o, Openers) /\ Formed(source, o)
    BY <1>1, <1>2, <2>1, CloserFacts, ParsedFacts DEF Is, Openers
  <2>3. Belongs(source, c, o)
    BY <2>2 DEF Formed
  <2>4. source[c].kind = "endinline"
    BY <1>2, <2>3 DEF Belongs, Is
  <2> QED
    BY <1>1, <1>2, <2>1, <2>2, <2>4
<1> HIDE DEF c
<1>4. \A p \in 1..Len(source) : o < p /\ p < c => ~Alone(p) /\ ~source[p].left /\ ~source[p].right
  BY <1>2, <1>3 DEF Embedded, Holds, c
<1>5. \A p \in 1..Len(source) : source[p].left \/ source[p].right
                                => source[p].kind \in {"mustache", "open", "close"}
  BY <1>1, ParsedFacts DEF Formed, Is
<1>6. q - 1 \in 1..Len(source) /\ (q - 1 = o \/ (o < q - 1 /\ q - 1 < c))
  BY <1>1, <1>2, <1>3
<1>7. q + 1 \in 1..Len(source) /\ (q + 1 = c \/ (o < q + 1 /\ q + 1 < c))
  BY <1>1, <1>2, <1>3
<1>8. ~TakesFront(q) /\ ~source[q - 1].right
  <2>1. CASE q - 1 = o
    BY <1>2, <1>5, <1>6, <2>1 DEF TakesFront
  <2>2. CASE o < q - 1 /\ q - 1 < c
    BY <1>4, <1>6, <2>2 DEF TakesFront
  <2> QED
    BY <1>6, <2>1, <2>2
<1>9. ~TakesBack(q) /\ ~source[q + 1].left
  <2>1. CASE q + 1 = c
    BY <1>3, <1>5, <1>7, <2>1 DEF TakesBack
  <2>2. CASE o < q + 1 /\ q + 1 < c
    BY <1>4, <1>7, <2>2 DEF TakesBack
  <2> QED
    BY <1>7, <2>1, <2>2
<1>10. LinesCut(q) = Original(q)
  <2>1. LinesCut(q) = LineCut(Original(q), FALSE, FALSE)
    BY <1>8, <1>9 DEF LinesCut, LineCut
  <2> QED
    BY <1>1, <2>1, Uncut
<1> QED
  BY <1>8, <1>9, <1>10 DEF Documented

(* What the two passes leave of every text node is what the written lines  *)
(* say (standalone_strip, src/src/render.c:1469; tilde_strip,              *)
(* src/src/render.c:1562), for all templates the parser makes but those in *)
(* which a program begins or ends within a line, statements of one program *)
(* are alone on consecutive lines, or a tag in the body of an inline       *)
(* partial is alone on its line or has a ~: in these the code departs from *)
(* src/README.md:394-406.  In all others a tag, although it is judged by   *)
(* texts that earlier tags have cut, is found alone on its line exactly if *)
(* it was written so.                                                      *)
THEOREM LinesKept == Spec => []LinesAsDocumented
<1> DEFINE Plain == ~Abrupt /\ ~Crowded
           Inv == WInv /\ Shown /\ (Plain => Cutting \/ Trimming)
<1>1. Init => Inv
  BY WInvInit, ShownInit, CuttingInit
<1>2. Inv /\ [Next]_vars => Inv'
  <2> SUFFICES ASSUME Inv, [Next]_vars PROVE Inv'
    OBVIOUS
  <2>1. WInv' /\ Shown'
    BY WInvStep, ShownStep
  <2>2. ASSUME Plain' PROVE (Cutting \/ Trimming)'
    <3>1. UNCHANGED source
      BY DEF Next, StripSimple, StripOpen, StripElse, StripClose, Try, TrimLeading, TrimTrailing,
             Trim, vars
    <3>2. Plain
      <4>1. ~Abrupt' /\ ~Crowded'
        BY <2>2
      <4>2. Abrupt' = Abrupt /\ Crowded' = Crowded
        BY <3>1, SameTemplate
      <4> QED
        BY <4>1, <4>2
    <3>3. ASSUME NEW op \in FirstOps, Try(op) PROVE Cutting'
      BY <3>2, <3>3, TryStep
    <3>4. CASE TrimLeading \/ TrimTrailing
      BY <3>2, <3>4, TrimStep
    <3>5. CASE UNCHANGED vars
      <4>1. UNCHANGED <<source, text, todo>>
        BY <3>5 DEF vars
      <4>2. Cutting' = Cutting /\ Trimming' = Trimming
        BY <4>1, SameState
      <4> QED
        BY <3>2, <4>2
    <3> QED
      BY <3>3, <3>4, <3>5 DEF Next, StripSimple, StripOpen, StripElse, StripClose, FirstOps
  <2> QED
    BY <2>1, <2>2
<1>3. Inv => LinesAsDocumented
  <2> SUFFICES ASSUME Inv, todo = <<>>, Plain, ~Embedded, NEW q \in TextNodes
               PROVE  text[q] = Documented(q)
    BY DEF LinesAsDocumented
  <2>1. CASE q \in Texts
    BY <2>1, PassesEnd
  <2>2. CASE q \notin Texts
    <3>1. q \in Unseen
      BY <2>2 DEF Unseen
    <3> QED
      BY <3>1, UnseenAsWritten DEF Shown
  <2> QED
    BY <2>1, <2>2
<1> QED
  BY <1>1, <1>2, <1>3, PTL DEF Spec

=============================================================================
