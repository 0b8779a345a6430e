---------------------------- MODULE StrbufProofs ----------------------------
(***************************************************************************)
(* Theorems about the string buffers, for every initial capacity, memory,  *)
(* alphabet and set of texts: writes stay in bounds, every allocated block *)
(* has exactly one owner, and all buffers together are one text that grows *)
(* at its end, whatever is nested in what; and what was escaped can be     *)
(* read back.                                                              *)
(***************************************************************************)
EXTENDS Strbuf, FoldLemmas

BufferSet == [use : Uses, of : Seq(Chars), block : Block \cup {NULL}, cap : Nat, data : Seq(Chars)]
StringSet == [use : Uses, of : Seq(Chars), block : Block, data : Seq(Chars)]

-----------------------------------------------------------------------------
(* Sequences of buffers and strings: replacing the last, removing it.      *)
LEMMA Replaced ==
    ASSUME NEW S, NEW s \in Seq(S), s # <<>>, NEW e \in S
    PROVE  LET t == [s EXCEPT ![Len(s)] = e] IN
           /\ t \in Seq(S) /\ t # <<>> /\ Len(t) = Len(s) /\ t[Len(s)] = e
           /\ \A i \in 1..(Len(s) - 1) : t[i] = s[i]
<1>1. Len(s) \in 1..Len(s)
  BY EmptySeq
<1> DEFINE t == [s EXCEPT ![Len(s)] = e]
<1>2. t \in Seq(S) /\ Len(t) = Len(s) /\ \A j \in 1..Len(s) : t[j] = IF j = Len(s) THEN e ELSE s[j]
  BY <1>1, ExceptSeq
<1> HIDE DEF t
<1> DEFINE n == Len(s)
<1> HIDE DEF n
<1>3. n \in 1..n /\ n \in Nat /\ n # 0
  BY <1>1 DEF n
<1>4. t # <<>>
  BY <1>2, <1>3, EmptySeq DEF n
<1>5. t[n] = e /\ \A i \in 1..(n - 1) : t[i] = s[i]
  <2>1. \A j \in 1..n : t[j] = IF j = n THEN e ELSE s[j]
    BY <1>2 DEF n
  <2> QED
    BY <1>3, <2>1
<1> QED
  BY <1>2, <1>4, <1>5 DEF t, n

LEMMA Removed ==
    ASSUME NEW S, NEW s \in Seq(S), s # <<>>
    PROVE  /\ Front(s) \in Seq(S) /\ Len(Front(s)) = Len(s) - 1
           /\ \A i \in 1..(Len(s) - 1) : Front(s)[i] = s[i]
<1> DEFINE n == Len(s) - 1
<1>1. Len(s) \in Nat /\ n \in Nat /\ n <= Len(s)
  BY EmptySeq
<1>2. 1 \in Int /\ n \in Int /\ \A i \in 1..n : s[i] \in S
  BY <1>1, ElementOfSeq
<1>3. Front(s) = SubSeq(s, 1, n)
  BY DEF Front
<1> HIDE DEF n
<1>4. /\ SubSeq(s, 1, n) \in Seq(S)
      /\ Len(SubSeq(s, 1, n)) = IF 1 <= n THEN n - 1 + 1 ELSE 0
      /\ \A i \in 1..(n - 1 + 1) : SubSeq(s, 1, n)[i] = s[1 + i - 1]
  BY <1>2, SubSeqProperties
<1> DEFINE f == SubSeq(s, 1, n)
<1> HIDE DEF f
<1>5. f \in Seq(S) /\ Len(f) = n /\ \A i \in 1..n : f[i] = s[i]
  BY <1>1, <1>4 DEF f
<1> QED
  BY <1>3, <1>5 DEF n, f

LEMMA Added ==
    ASSUME NEW S, NEW s \in Seq(S), NEW e \in S
    PROVE  /\ Append(s, e) \in Seq(S) /\ Append(s, e) # <<>> /\ Len(Append(s, e)) = Len(s) + 1
           /\ Append(s, e)[Len(s) + 1] = e /\ \A i \in 1..Len(s) : Append(s, e)[i] = s[i]
  BY AppendProperties

-----------------------------------------------------------------------------
(* The inductive invariant, over buffers bs, strings hs and a heap hp.     *)
TypesOf(bs, hs, hp) ==
    /\ bs \in Seq(BufferSet) /\ hs \in Seq(StringSet)
    /\ DOMAIN hp \subseteq Block /\ \A b \in DOMAIN hp : hp[b] \in Nat

(* Where in the stack a buffer may be, without memory, or waited for.      *)
PlacesOf(bs, hs) ==
    /\ Len(hs) <= 2
    /\ \A i \in 1..Len(bs) :
          /\ bs[i].use = "render" <=> i = 1
          /\ bs[i].use \notin Outputs \/ bs[i].block = NULL => i = Len(bs)
          /\ bs[i].use \in {"render", "indented"} => bs[i].block # NULL
          /\ bs[i].use = "indented" => Len(hs) = 1
          /\ bs[i].block = NULL => Len(hs) # 0

BoundsOf(bs, hs, hp) ==
    /\ \A i \in 1..Len(bs) : bs[i].block # NULL => /\ bs[i].block \in DOMAIN hp
                                                   /\ Len(bs[i].data) < hp[bs[i].block]
                                                   /\ hp[bs[i].block] <= bs[i].cap
    /\ \A i \in 1..Len(hs) : hs[i].block \in DOMAIN hp /\ Len(hs[i].data) < hp[hs[i].block]

OwnersOf(bs, hs, hp) ==
    /\ \A i, j \in 1..Len(bs) : bs[i].block = bs[j].block /\ bs[i].block # NULL => i = j
    /\ \A i, j \in 1..Len(hs) : hs[i].block = hs[j].block => i = j
    /\ \A i \in 1..Len(bs), j \in 1..Len(hs) : bs[i].block # hs[j].block
    /\ \A b \in DOMAIN hp : \/ \E i \in 1..Len(bs) : bs[i].block = b
                            \/ \E i \in 1..Len(hs) : hs[i].block = b

MemoryOf(bs, hs, hp) ==
    /\ TypesOf(bs, hs, hp) /\ PlacesOf(bs, hs)
    /\ BoundsOf(bs, hs, hp) /\ OwnersOf(bs, hs, hp)

IInv ==
    /\ MemoryOf(buffers, held, heap)
    /\ adding \in Seq(Seq(Chars)) /\ Len(adding) <= 1
    /\ todo \in Seq(Chars)
    /\ status \in {"rendering", "returned", "failed"} /\ (status = "rendering" <=> buffers # <<>>)
    /\ adding # <<>> => buffers # <<>> /\ Writable

-----------------------------------------------------------------------------
(* What the changes of the memory keep.                                    *)

(* A new buffer (hbs_strbuf_init).                                         *)
LEMMA Entered ==
    ASSUME NEW bs, NEW hs, NEW hp, MemoryOf(bs, hs, hp), bs # <<>>,
           bs[Len(bs)].use \in Outputs, bs[Len(bs)].block # NULL,
           NEW use \in Uses \ {"render"}, use = "indented" => Len(hs) = 1,
           NEW of \in Seq(Chars), NEW b \in Block, b \notin DOMAIN hp, NEW hp2,
           hp2 = [x \in DOMAIN hp \cup {b} |-> IF x = b THEN INITIAL_CAP ELSE hp[x]]
    PROVE  MemoryOf(Append(bs, Buffer(use, of, b)), hs, hp2)
<1> DEFINE n   == Len(bs)
           buf == Buffer(use, of, b)
           bs2 == Append(bs, buf)
<1>1. bs \in Seq(BufferSet) /\ n \in Nat /\ n # 0 /\ \A i \in 1..n : bs[i] \in BufferSet
  BY EmptySeq, ElementOfSeq DEF MemoryOf, TypesOf
<1>2. /\ buf.use = use /\ buf.block = b /\ buf.cap = INITIAL_CAP /\ buf.data = <<>> /\ buf \in BufferSet
      /\ Len(buf.data) = 0 /\ INITIAL_CAP \in Nat /\ INITIAL_CAP > 0 /\ b # NULL
  BY CapAssumption, BlockAssumption, EmptySeq DEF Buffer, BufferSet
<1> HIDE DEF buf
<1>3. /\ bs2 \in Seq(BufferSet) /\ Len(bs2) = n + 1 /\ bs2[n + 1] = buf
      /\ \A i \in 1..n : bs2[i] = bs[i]
  BY <1>1, <1>2, Added
<1> HIDE DEF n, bs2
<1>4. /\ DOMAIN hp2 = DOMAIN hp \cup {b} /\ hp2[b] = INITIAL_CAP
      /\ \A x \in DOMAIN hp : hp2[x] = hp[x]
  OBVIOUS
<1>5. TypesOf(bs2, hs, hp2)
  BY <1>2, <1>3, <1>4 DEF MemoryOf, TypesOf
<1>6. PlacesOf(bs2, hs)
  <2>1. \A i \in 1..n : bs[i].use \in Outputs /\ bs[i].block # NULL
    BY <1>1 DEF MemoryOf, PlacesOf, n
  <2> SUFFICES ASSUME NEW i \in 1..(n + 1)
               PROVE  /\ bs2[i].use = "render" <=> i = 1
                      /\ bs2[i].use \notin Outputs \/ bs2[i].block = NULL => i = n + 1
                      /\ bs2[i].use \in {"render", "indented"} => bs2[i].block # NULL
                      /\ bs2[i].use = "indented" => Len(hs) = 1
                      /\ bs2[i].block = NULL => Len(hs) # 0
    BY <1>3 DEF MemoryOf, PlacesOf
  <2>2. CASE i = n + 1
    BY <1>1, <1>2, <1>3, <2>2
  <2>3. CASE i \in 1..n
    BY <1>1, <1>3, <2>1, <2>3 DEF MemoryOf, PlacesOf, n
  <2> QED
    BY <1>1, <2>2, <2>3
<1>7. BoundsOf(bs2, hs, hp2)
  <2>1. \A i \in 1..Len(hs) : hs[i].block \in DOMAIN hp2 /\ Len(hs[i].data) < hp2[hs[i].block]
    BY <1>4 DEF MemoryOf, BoundsOf
  <2>2. ASSUME NEW i \in 1..n, bs[i].block # NULL
        PROVE  /\ bs[i].block \in DOMAIN hp2 /\ Len(bs[i].data) < hp2[bs[i].block]
               /\ hp2[bs[i].block] <= bs[i].cap
    BY <1>4, <2>2 DEF MemoryOf, BoundsOf, n
  <2>3. b \in DOMAIN hp2 /\ Len(buf.data) < hp2[b] /\ hp2[b] <= buf.cap
    BY <1>2, <1>4
  <2>4. ASSUME NEW i \in 1..(n + 1), bs2[i].block # NULL
        PROVE  /\ bs2[i].block \in DOMAIN hp2 /\ Len(bs2[i].data) < hp2[bs2[i].block]
               /\ hp2[bs2[i].block] <= bs2[i].cap
    <3>1. CASE i = n + 1
      BY <1>2, <1>3, <2>3, <3>1
    <3>2. CASE i \in 1..n
      BY <1>3, <2>2, <2>4, <3>2
    <3> QED
      BY <1>1, <3>1, <3>2
  <2> QED
    BY <1>3, <2>1, <2>4 DEF BoundsOf
<1>8. OwnersOf(bs2, hs, hp2)
  <2>1. \A i \in 1..n : bs[i].block # b
    BY <1>2 DEF MemoryOf, BoundsOf, n
  <2>2. \A i \in 1..Len(hs) : hs[i].block # b
    BY DEF MemoryOf, BoundsOf
  <2>3. \A i, j \in 1..(n + 1) : bs2[i].block = bs2[j].block /\ bs2[i].block # NULL => i = j
    BY <1>1, <1>2, <1>3, <2>1 DEF MemoryOf, OwnersOf, n
  <2>4. \A i \in 1..(n + 1), j \in 1..Len(hs) : bs2[i].block # hs[j].block
    <3>1. \A i \in 1..n, j \in 1..Len(hs) : bs[i].block # hs[j].block
      BY DEF MemoryOf, OwnersOf, n
    <3>2. \A i \in 1..(n + 1) : i = n + 1 \/ i \in 1..n
      BY <1>1
    <3> QED
      BY <1>2, <1>3, <2>2, <3>1, <3>2
  <2>5. ASSUME NEW x \in DOMAIN hp2
        PROVE  (\E i \in 1..(n + 1) : bs2[i].block = x) \/ \E i \in 1..Len(hs) : hs[i].block = x
    <3>1. CASE x = b
      BY <1>1, <1>2, <1>3, <3>1
    <3>2. CASE x # b /\ \E i \in 1..n : bs[i].block = x
      BY <1>1, <1>3, <3>2
    <3>3. x # b => (\E i \in 1..n : bs[i].block = x) \/ \E i \in 1..Len(hs) : hs[i].block = x
      BY <1>4 DEF MemoryOf, OwnersOf, n
    <3> QED
      BY <3>1, <3>2, <3>3
  <2> QED
    BY <1>3, <2>3, <2>4, <2>5 DEF MemoryOf, OwnersOf
<1> QED
  BY <1>5, <1>6, <1>7, <1>8 DEF MemoryOf, bs2, buf

(* The innermost buffer has more room or more text (hbs_strbuf_append).    *)
LEMMA Changed ==
    ASSUME NEW bs, NEW hs, NEW hp, MemoryOf(bs, hs, hp), bs # <<>>,
           NEW buf \in BufferSet, bs[Len(bs)].use = buf.use, bs[Len(bs)].block = buf.block, buf.block # NULL,
           NEW hp2, DOMAIN hp2 = DOMAIN hp, hp2[buf.block] \in Nat,
           \A x \in DOMAIN hp : x # buf.block => hp2[x] = hp[x],
           Len(buf.data) < hp2[buf.block], hp2[buf.block] <= buf.cap
    PROVE  MemoryOf([bs EXCEPT ![Len(bs)] = buf], hs, hp2)
<1> DEFINE n   == Len(bs)
           bs2 == [bs EXCEPT ![n] = buf]
<1>1. bs \in Seq(BufferSet) /\ n \in Nat /\ n # 0
  BY EmptySeq DEF MemoryOf, TypesOf
<1>2. bs2 \in Seq(BufferSet) /\ Len(bs2) = n /\ bs2[n] = buf /\ \A i \in 1..(n - 1) : bs2[i] = bs[i]
  BY <1>1, Replaced
<1> HIDE DEF n, bs2
<1>3. \A i \in 1..n : i = n \/ i \in 1..(n - 1)
  BY <1>1
<1>4. \A i \in 1..n : bs2[i].use = bs[i].use /\ bs2[i].block = bs[i].block
  BY <1>2, <1>3 DEF n
<1>5. TypesOf(bs2, hs, hp2)
  BY <1>2 DEF MemoryOf, TypesOf
<1>6. PlacesOf(bs2, hs)
  BY <1>2, <1>4 DEF MemoryOf, PlacesOf, n
<1>7. n \in 1..n /\ \A i \in 1..(n - 1) : i \in 1..n /\ i # n
  BY <1>1
<1>8. BoundsOf(bs2, hs, hp2)
  <2>1. ASSUME NEW i \in 1..Len(hs)
        PROVE  hs[i].block \in DOMAIN hp2 /\ Len(hs[i].data) < hp2[hs[i].block]
    <3>1. bs[n].block # hs[i].block /\ bs[n].block = buf.block
      BY <1>7 DEF MemoryOf, OwnersOf, n
    <3>2. hs[i].block \in DOMAIN hp /\ Len(hs[i].data) < hp[hs[i].block]
      BY DEF MemoryOf, BoundsOf
    <3>3. hp2[hs[i].block] = hp[hs[i].block]
      BY <3>1, <3>2
    <3> QED
      BY <3>2, <3>3
  <2>2. ASSUME NEW i \in 1..(n - 1), bs[i].block # NULL
        PROVE  /\ bs[i].block \in DOMAIN hp2 /\ Len(bs[i].data) < hp2[bs[i].block]
               /\ hp2[bs[i].block] <= bs[i].cap
    <3>1. bs[i].block # buf.block
      BY <1>7, <2>2 DEF MemoryOf, OwnersOf, n
    <3> QED
      BY <1>7, <2>2, <3>1 DEF MemoryOf, BoundsOf, n
  <2>3. buf.block \in DOMAIN hp2
    BY <1>7 DEF MemoryOf, BoundsOf, n
  <2>4. ASSUME NEW i \in 1..n, bs2[i].block # NULL
        PROVE  /\ bs2[i].block \in DOMAIN hp2 /\ Len(bs2[i].data) < hp2[bs2[i].block]
               /\ hp2[bs2[i].block] <= bs2[i].cap
    <3>1. CASE i = n
      BY <1>2, <2>3, <3>1
    <3>2. CASE i \in 1..(n - 1)
      BY <1>2, <2>2, <2>4, <3>2
    <3> QED
      BY <1>3, <3>1, <3>2
  <2> QED
    BY <1>2, <2>1, <2>4 DEF BoundsOf
<1>9. OwnersOf(bs2, hs, hp2)
  BY <1>2, <1>4 DEF MemoryOf, OwnersOf, n
<1> QED
  BY <1>5, <1>6, <1>8, <1>9 DEF MemoryOf, bs2, n

(* The strings are freed.                                                  *)
LEMMA Dropped ==
    ASSUME NEW bs, NEW hs, NEW hp, MemoryOf(bs, hs, hp),
           \A i \in 1..Len(bs) : bs[i].use # "indented" /\ bs[i].block # NULL,
           NEW hp2, hp2 = [x \in DOMAIN hp \ {hs[i].block : i \in 1..Len(hs)} |-> hp[x]]
    PROVE  MemoryOf(bs, <<>>, hp2)
<1>1. Len(<<>>) = 0 /\ <<>> \in Seq(StringSet) /\ 1..0 = {}
  BY EmptySeq
<1>2. \A x \in DOMAIN hp2 : x \in DOMAIN hp /\ hp2[x] = hp[x] /\ \A i \in 1..Len(hs) : hs[i].block # x
  OBVIOUS
<1>3. \A x \in DOMAIN hp : (\A i \in 1..Len(hs) : hs[i].block # x) => x \in DOMAIN hp2
  OBVIOUS
<1>4. TypesOf(bs, <<>>, hp2)
  BY <1>1, <1>2 DEF MemoryOf, TypesOf
<1>5. PlacesOf(bs, <<>>)
  BY <1>1 DEF MemoryOf, PlacesOf
<1>6. BoundsOf(bs, <<>>, hp2)
  <2>1. ASSUME NEW i \in 1..Len(bs), bs[i].block # NULL
        PROVE  /\ bs[i].block \in DOMAIN hp2 /\ Len(bs[i].data) < hp2[bs[i].block]
               /\ hp2[bs[i].block] <= bs[i].cap
    <3>1. bs[i].block \in DOMAIN hp2
      BY <1>3, <2>1 DEF MemoryOf, BoundsOf, OwnersOf
    <3>2. hp2[bs[i].block] = hp[bs[i].block]
      BY <1>2, <3>1
    <3> QED
      BY <2>1, <3>1, <3>2 DEF MemoryOf, BoundsOf
  <2> QED
    BY <1>1, <2>1 DEF BoundsOf
<1>7. OwnersOf(bs, <<>>, hp2)
  BY <1>1, <1>2 DEF MemoryOf, OwnersOf
<1> QED
  BY <1>4, <1>5, <1>6, <1>7 DEF MemoryOf

(* The innermost buffer's text becomes a string (hbs_strbuf_detach).       *)
LEMMA Detaching ==
    ASSUME NEW bs, NEW hp, MemoryOf(bs, <<>>, hp), bs # <<>>,
           bs[Len(bs)].block # NULL, bs[Len(bs)].use \in {"partial", "block", "escape"}
    PROVE  MemoryOf([bs EXCEPT ![Len(bs)] = Detached(bs[Len(bs)])], <<String(bs[Len(bs)])>>, hp)
<1> DEFINE n   == Len(bs)
           top == bs[n]
           buf == Detached(top)
           str == String(top)
           hs  == <<str>>
           bs2 == [bs EXCEPT ![n] = buf]
<1>1. bs \in Seq(BufferSet) /\ n \in Nat /\ n # 0 /\ n \in 1..n
  BY EmptySeq DEF MemoryOf, TypesOf
<1>2. top \in BufferSet
  BY <1>1, ElementOfSeq
<1>3. /\ buf \in BufferSet /\ buf.use = top.use /\ buf.block = NULL
      /\ str \in StringSet /\ str.block = top.block /\ str.data = top.data
  BY <1>2, EmptySeq DEF Detached, String, BufferSet, StringSet
<1>4. top.block # NULL /\ top.use \in {"partial", "block", "escape"}
  OBVIOUS
<1> HIDE DEF buf, str
<1>5. hs \in Seq(StringSet) /\ Len(hs) = 1 /\ hs[1] = str /\ \A i \in 1..Len(hs) : i = 1
  BY <1>3
<1>6. bs2 \in Seq(BufferSet) /\ Len(bs2) = n /\ bs2[n] = buf /\ \A i \in 1..(n - 1) : bs2[i] = bs[i]
  BY <1>1, <1>3, Replaced
<1> HIDE DEF hs, bs2, n
<1>7. \A i \in 1..n : i = n \/ (i \in 1..(n - 1) /\ i # n)
  BY <1>1
<1>8. \A i \in 1..n : bs2[i].use = bs[i].use /\ (i # n => bs2[i] = bs[i]) /\ (i = n => bs2[i].block = NULL)
  BY <1>3, <1>6, <1>7
<1>9. TypesOf(bs2, hs, hp)
  BY <1>5, <1>6 DEF MemoryOf, TypesOf
<1>10. PlacesOf(bs2, hs)
  <2> SUFFICES ASSUME NEW i \in 1..n
               PROVE  /\ bs2[i].use = "render" <=> i = 1
                      /\ bs2[i].use \notin Outputs \/ bs2[i].block = NULL => i = n
                      /\ bs2[i].use \in {"render", "indented"} => bs2[i].block # NULL
                      /\ bs2[i].use = "indented" => Len(hs) = 1
                      /\ bs2[i].block = NULL => Len(hs) # 0
    BY <1>5, <1>6 DEF PlacesOf
  <2>1. /\ bs[i].use = "render" <=> i = 1
        /\ bs[i].use \notin Outputs \/ bs[i].block = NULL => i = n
        /\ bs[i].use \in {"render", "indented"} => bs[i].block # NULL
    BY DEF MemoryOf, PlacesOf, n
  <2>2. CASE i = n
    BY <1>4, <1>5, <1>8, <2>1, <2>2
  <2>3. CASE i # n
    BY <1>5, <1>8, <2>1, <2>3
  <2> QED
    BY <2>2, <2>3
<1>11. BoundsOf(bs2, hs, hp)
  <2>1. /\ \A i \in 1..n : bs[i].block # NULL => /\ bs[i].block \in DOMAIN hp
                                                 /\ Len(bs[i].data) < hp[bs[i].block]
                                                 /\ hp[bs[i].block] <= bs[i].cap
    BY DEF MemoryOf, BoundsOf, n
  <2> QED
    BY <1>1, <1>3, <1>4, <1>5, <1>6, <1>8, <2>1 DEF BoundsOf
<1>12. OwnersOf(bs2, hs, hp)
  <2>1. /\ \A i, j \in 1..n : bs[i].block = bs[j].block /\ bs[i].block # NULL => i = j
        /\ \A b \in DOMAIN hp : \E i \in 1..n : bs[i].block = b
    BY DEF MemoryOf, OwnersOf, n
  <2>2. \A i \in 1..n : bs2[i].block # top.block
    BY <1>1, <1>4, <1>8, <2>1
  <2>3. ASSUME NEW b \in DOMAIN hp
        PROVE  (\E i \in 1..n : bs2[i].block = b) \/ \E i \in 1..Len(hs) : hs[i].block = b
    <3>1. PICK i \in 1..n : bs[i].block = b
      BY <2>1
    <3>2. CASE i = n
      BY <1>3, <1>5, <3>1, <3>2
    <3>3. CASE i # n
      BY <1>8, <3>1, <3>3
    <3> QED
      BY <3>2, <3>3
  <2>4. \A i, j \in 1..n : bs2[i].block = bs2[j].block /\ bs2[i].block # NULL => i = j
    BY <1>8, <2>1
  <2>5. \A i \in 1..n, j \in 1..Len(hs) : bs2[i].block # hs[j].block
    BY <1>3, <1>5, <2>2
  <2>6. \A i, j \in 1..Len(hs) : i = j
    BY <1>5
  <2> QED
    BY <1>6, <2>3, <2>4, <2>5, <2>6 DEF OwnersOf
<1> QED
  BY <1>9, <1>10, <1>11, <1>12 DEF MemoryOf, bs2, hs, buf, str, n


(* The innermost buffer is done with: it was detached before, or is now.   *)
LEMMA Popped ==
    ASSUME NEW bs, NEW hs, NEW hp, MemoryOf(bs, hs, hp), bs # <<>>, NEW hs2,
           \/ bs[Len(bs)].block = NULL /\ hs2 = hs
           \/ bs[Len(bs)].block # NULL /\ Len(hs) < 2 /\ hs2 = Append(hs, String(bs[Len(bs)]))
    PROVE  MemoryOf(Front(bs), hs2, hp) /\ Len(Front(bs)) = Len(bs) - 1
<1> DEFINE n   == Len(bs)
           m   == Len(hs)
           top == bs[n]
           bs2 == Front(bs)
<1>1. bs \in Seq(BufferSet) /\ n \in Nat /\ n # 0 /\ n \in 1..n /\ hs \in Seq(StringSet) /\ m \in Nat
  BY EmptySeq DEF MemoryOf, TypesOf
<1>2. top \in BufferSet
  BY <1>1, ElementOfSeq
<1>3. bs2 \in Seq(BufferSet) /\ Len(bs2) = n - 1 /\ \A i \in 1..(n - 1) : bs2[i] = bs[i]
  BY <1>1, Removed
<1>4. top.block # NULL => /\ hs2 \in Seq(StringSet) /\ Len(hs2) = m + 1
                          /\ hs2[m + 1].block = top.block /\ hs2[m + 1].data = top.data
                          /\ \A i \in 1..m : hs2[i] = hs[i]
  <2> SUFFICES ASSUME top.block # NULL
               PROVE  /\ hs2 \in Seq(StringSet) /\ Len(hs2) = m + 1
                      /\ hs2[m + 1].block = top.block /\ hs2[m + 1].data = top.data
                      /\ \A i \in 1..m : hs2[i] = hs[i]
    OBVIOUS
  <2>1. String(top) \in StringSet /\ String(top).block = top.block /\ String(top).data = top.data
    BY <1>2 DEF String, BufferSet, StringSet
  <2>2. hs2 = Append(hs, String(top))
    OBVIOUS
  <2> QED
    BY <1>1, <2>1, <2>2, Added
<1>5. (top.block = NULL => hs2 = hs) /\ (top.block # NULL => m < 2)
  OBVIOUS
<1> HIDE DEF bs2, top
<1>6. \A i \in 1..(n - 1) : i \in 1..n /\ i # n
  BY <1>1
<1>7. /\ \A i \in 1..(n - 1) : bs2[i].use \in Outputs /\ bs2[i].block # NULL
      /\ \A i \in 1..(n - 1) : bs2[i].use = "render" <=> i = 1
  BY <1>3, <1>6 DEF MemoryOf, PlacesOf
<1> HIDE DEF n, m
<1>8. TypesOf(bs2, hs2, hp)
  BY <1>1, <1>3, <1>4, <1>5 DEF MemoryOf, TypesOf
<1>9. \A i \in 1..(n - 1) : bs2[i].use # "indented"
  BY <1>7 DEF Outputs
<1>10. PlacesOf(bs2, hs2)
  <2>1. Len(hs2) <= 2
    BY <1>1, <1>4, <1>5 DEF MemoryOf, PlacesOf
  <2> QED
    BY <1>3, <1>7, <1>9, <2>1 DEF PlacesOf
<1>11. /\ \A i \in 1..n : bs[i].block # NULL => /\ bs[i].block \in DOMAIN hp
                                                 /\ Len(bs[i].data) < hp[bs[i].block]
                                                 /\ hp[bs[i].block] <= bs[i].cap
       /\ \A i \in 1..m : hs[i].block \in DOMAIN hp /\ Len(hs[i].data) < hp[hs[i].block]
  BY DEF MemoryOf, BoundsOf, n, m
<1>12. \A i \in 1..(m + 1) : i = m + 1 \/ i \in 1..m
  BY <1>1
<1>13. \A i \in 1..n : i = n \/ i \in 1..(n - 1)
  BY <1>1
<1>14. BoundsOf(bs2, hs2, hp)
  <2>1. ASSUME NEW i \in 1..(n - 1)
        PROVE  bs2[i].block # NULL => /\ bs2[i].block \in DOMAIN hp
                                      /\ Len(bs2[i].data) < hp[bs2[i].block]
                                      /\ hp[bs2[i].block] <= bs2[i].cap
    BY <1>3, <1>6, <1>11
  <2>2. top.block # NULL => top.block \in DOMAIN hp /\ Len(top.data) < hp[top.block]
    BY <1>1, <1>11 DEF top
  <2>3. ASSUME NEW i \in 1..Len(hs2)
        PROVE  hs2[i].block \in DOMAIN hp /\ Len(hs2[i].data) < hp[hs2[i].block]
    <3>1. CASE top.block = NULL
      BY <1>5, <1>11, <3>1 DEF m
    <3>2. CASE top.block # NULL /\ i = m + 1
      BY <1>4, <2>2, <3>2
    <3>3. CASE top.block # NULL /\ i \in 1..m
      BY <1>4, <1>11, <3>3
    <3> QED
      BY <1>4, <1>12, <3>1, <3>2, <3>3
  <2> QED
    BY <1>3, <2>1, <2>3 DEF BoundsOf
<1>15. /\ \A i, j \in 1..n : bs[i].block = bs[j].block /\ bs[i].block # NULL => i = j
       /\ \A i, j \in 1..m : hs[i].block = hs[j].block => i = j
       /\ \A i \in 1..n, j \in 1..m : bs[i].block # hs[j].block
       /\ \A b \in DOMAIN hp : (\E i \in 1..n : bs[i].block = b) \/ \E i \in 1..m : hs[i].block = b
  BY DEF MemoryOf, OwnersOf, n, m
<1>16. \A i, j \in 1..(n - 1) : bs2[i].block = bs2[j].block /\ bs2[i].block # NULL => i = j
  BY <1>3, <1>6, <1>15
<1>17. \A b \in DOMAIN hp : b # NULL
  BY BlockAssumption DEF MemoryOf, TypesOf
<1>18. OwnersOf(bs2, hs2, hp)
  <2>1. CASE top.block = NULL
    <3>1. ASSUME NEW b \in DOMAIN hp
          PROVE  (\E i \in 1..(n - 1) : bs2[i].block = b) \/ \E i \in 1..m : hs[i].block = b
      BY <1>3, <1>13, <1>15, <1>17, <2>1 DEF top
    <3>2. \A i \in 1..(n - 1), j \in 1..m : bs2[i].block # hs[j].block
      BY <1>3, <1>6, <1>15
    <3> QED
      BY <1>3, <1>5, <1>15, <1>16, <2>1, <3>1, <3>2 DEF OwnersOf, m
  <2>2. CASE top.block # NULL
    <3>1. Len(hs2) = m + 1 /\ hs2[m + 1].block = top.block /\ \A i \in 1..m : hs2[i] = hs[i]
      BY <1>4, <2>2
    <3>2. m + 1 \in 1..(m + 1) /\ \A i \in 1..m : i \in 1..(m + 1)
      BY <1>1
    <3>3. /\ \A i \in 1..(n - 1) : bs2[i].block # top.block
          /\ \A j \in 1..m : hs[j].block # top.block
      BY <1>1, <1>3, <1>6, <1>15, <2>2 DEF top
    <3>4. ASSUME NEW i \in 1..(m + 1), NEW j \in 1..(m + 1), hs2[i].block = hs2[j].block
          PROVE  i = j
      BY <1>12, <1>15, <3>1, <3>3, <3>4
    <3>5. ASSUME NEW i \in 1..(n - 1), NEW j \in 1..(m + 1)
          PROVE  bs2[i].block # hs2[j].block
      <4>1. CASE j = m + 1
        BY <3>1, <3>3, <4>1
      <4>2. CASE j \in 1..m
        BY <1>3, <1>6, <1>15, <3>1, <4>2
      <4> QED
        BY <1>12, <4>1, <4>2
    <3>6. ASSUME NEW b \in DOMAIN hp
          PROVE  (\E i \in 1..(n - 1) : bs2[i].block = b) \/ \E i \in 1..(m + 1) : hs2[i].block = b
      <4>1. CASE \E i \in 1..m : hs[i].block = b
        BY <3>1, <3>2, <4>1
      <4>2. CASE \E i \in 1..n : bs[i].block = b
        BY <1>3, <1>13, <3>1, <3>2, <4>2 DEF top
      <4> QED
        BY <1>15, <4>1, <4>2
    <3> QED
      BY <1>3, <1>16, <3>1, <3>4, <3>5, <3>6 DEF OwnersOf
  <2> QED
    BY <2>1, <2>2
<1> QED
  BY <1>3, <1>8, <1>10, <1>14, <1>18 DEF MemoryOf, bs2, n


-----------------------------------------------------------------------------
(* The steps.                                                              *)
LEMMA TopFacts ==
    ASSUME IInv, buffers # <<>>
    PROVE  /\ Len(buffers) \in Nat /\ Len(buffers) # 0 /\ Top \in BufferSet
           /\ Top.use = "render" <=> Len(buffers) = 1
           /\ Top.use \in {"render", "indented"} => Top.block # NULL
           /\ Top.use = "indented" => Len(held) = 1
           /\ Top.block = NULL => Len(held) # 0
           /\ \A i \in 1..Len(buffers) : i # Len(buffers) => buffers[i].use \in Outputs /\ buffers[i].block # NULL
           /\ status = "rendering"
<1> DEFINE n == Len(buffers)
<1>1. buffers \in Seq(BufferSet) /\ n \in Nat /\ n # 0 /\ n \in 1..n
  BY EmptySeq DEF IInv, MemoryOf, TypesOf
<1>2. Top \in BufferSet
  BY <1>1, ElementOfSeq DEF Top
<1> QED
  BY <1>1, <1>2 DEF IInv, MemoryOf, PlacesOf, Top

LEMMA TextFacts ==
    ASSUME NEW t \in Seq(Chars)
    PROVE  <<t>> \in Seq(Seq(Chars)) /\ Len(<<t>>) = 1 /\ <<t>> # <<>> /\ <<t>>[1] = t
  OBVIOUS

LEMMA Empty == <<>> \in Seq(Seq(Chars)) /\ Len(<<>>) = 0 /\ <<>> \in Seq(Chars)
  BY EmptySeq

LEMMA StringFacts ==
    ASSUME IInv
    PROVE  \A i \in 1..Len(held) : held[i].data \in Seq(Chars) /\ held[i].use \in Uses
<1>1. \A i \in 1..Len(held) : held[i] \in StringSet
  BY ElementOfSeq DEF IInv, MemoryOf, TypesOf
<1> QED
  BY <1>1 DEF StringSet

LEMMA TodoFacts ==
    ASSUME IInv, todo # <<>>
    PROVE  Head(todo) \in Chars /\ todo[1] = Head(todo) /\ Tail(todo) \in Seq(Chars)
  BY HeadTailProperties DEF IInv

LEMMA WrittenFacts ==
    ASSUME NEW c \in Chars
    PROVE  Written(c) \in Seq(Chars)
  BY EntityAssumption DEF Written

LEMMA GrowStep ==
    ASSUME IInv, Grow
    PROVE  IInv'
<1>1. adding # <<>> /\ buffers # <<>> /\ Top.block # NULL
  BY DEF Grow, IInv, Writable
<1> DEFINE n   == Len(buffers)
           buf == [Top EXCEPT !.cap = 2 * @]
<1>2. n \in Nat /\ n # 0 /\ n \in 1..n /\ Top \in BufferSet
  BY <1>1, TopFacts
<1>3. /\ buf \in BufferSet /\ buf.use = Top.use /\ buf.block = Top.block /\ buf.data = Top.data
      /\ buf.cap = 2 * Top.cap /\ Top.cap \in Nat
  BY <1>2 DEF BufferSet
<1> HIDE DEF buf
<1>4. /\ Top.block \in DOMAIN heap /\ Len(Top.data) < heap[Top.block] /\ heap[Top.block] <= Top.cap
      /\ heap[Top.block] \in Nat
  BY <1>1, <1>2 DEF IInv, MemoryOf, BoundsOf, TypesOf, Top
<1>5. heap[Top.block] <= buf.cap
  BY <1>3, <1>4
<1>6. MemoryOf(buffers, held, heap)
  BY DEF IInv
<1>7. MemoryOf([buffers EXCEPT ![Len(buffers)] = buf], held, heap)
  BY <1>1, <1>3, <1>4, <1>5, <1>6, Changed DEF Top
<1>8. buffers' = [buffers EXCEPT ![Len(buffers)] = buf]
  BY DEF Grow, Set, buf
<1>9. buffers \in Seq(BufferSet)
  BY <1>6 DEF MemoryOf, TypesOf
<1>10. buffers' # <<>> /\ Len(buffers') = Len(buffers) /\ buffers'[Len(buffers)] = buf
  BY <1>1, <1>3, <1>8, <1>9, Replaced
<1>11. Writable'
  BY <1>1, <1>3, <1>10 DEF Writable, Top
<1> QED
  BY <1>1, <1>7, <1>8, <1>10, <1>11 DEF Grow, IInv

LEMMA CopyStep ==
    ASSUME IInv, Copy
    PROVE  IInv'
<1>1. adding # <<>> /\ buffers # <<>> /\ Top.block # NULL
  BY DEF Copy, IInv, Writable
<1> DEFINE n   == Len(buffers)
           t   == adding[1]
           buf == [Top EXCEPT !.data = @ \o t]
           hp2 == [x \in DOMAIN heap |-> IF x = Top.block THEN Top.cap ELSE heap[x]]
<1>2. n \in Nat /\ n # 0 /\ n \in 1..n /\ Top \in BufferSet
  BY <1>1, TopFacts
<1>3. t \in Seq(Chars)
  <2>1. adding \in Seq(Seq(Chars)) /\ 1 \in 1..Len(adding)
    BY <1>1, EmptySeq DEF IInv
  <2> QED
    BY <2>1, ElementOfSeq
<1>4. Top.data \in Seq(Chars) /\ Top.cap \in Nat
  BY <1>2 DEF BufferSet
<1>5. Top.data \o t \in Seq(Chars) /\ Len(Top.data \o t) = Len(Top.data) + Len(t)
  BY <1>3, <1>4, ConcatProperties
<1>6. /\ buf \in BufferSet /\ buf.use = Top.use /\ buf.block = Top.block /\ buf.cap = Top.cap
      /\ buf.data = Top.data \o t
  BY <1>2, <1>5 DEF BufferSet
<1>7. Len(buf.data) + 1 <= buf.cap
  BY <1>5, <1>6 DEF Copy, Fits
<1>8. Len(buf.data) \in Nat
  <2>1. Len(t) \in Nat /\ Len(Top.data) \in Nat
    BY <1>3, <1>4
  <2> HIDE DEF t, buf
  <2> QED
    BY <1>5, <1>6, <2>1
<1> HIDE DEF buf, t
<1>9. Top.block \in DOMAIN heap
  BY <1>1, <1>2 DEF IInv, MemoryOf, BoundsOf, Top
<1>10. /\ DOMAIN hp2 = DOMAIN heap /\ hp2[buf.block] = buf.cap
       /\ \A x \in DOMAIN heap : x # buf.block => hp2[x] = heap[x]
  BY <1>6, <1>9
<1> HIDE DEF hp2
<1>11. hp2[buf.block] \in Nat /\ Len(buf.data) < hp2[buf.block] /\ hp2[buf.block] <= buf.cap
  BY <1>4, <1>6, <1>7, <1>8, <1>10
<1>12. MemoryOf(buffers, held, heap) /\ buffers \in Seq(BufferSet)
  BY DEF IInv, MemoryOf, TypesOf
<1> DEFINE bs2 == [buffers EXCEPT ![Len(buffers)] = buf]
<1>13. MemoryOf(bs2, held, hp2)
  BY <1>1, <1>6, <1>10, <1>11, <1>12, Changed DEF Top
<1>14. bs2 # <<>> /\ Len(bs2) = n /\ bs2[n] = buf /\ \A i \in 1..(n - 1) : bs2[i] = buffers[i]
  BY <1>1, <1>6, <1>12, Replaced
<1>15. buffers' = bs2
  BY DEF Copy, Set, buf, t
<1> HIDE DEF bs2
<1>16. MemoryOf(buffers', held', heap')
  <2>1. CASE Top.use = "indented"
    <3>1. held' = held /\ heap' = hp2
      BY <2>1 DEF Copy, hp2
    <3> QED
      BY <1>13, <1>15, <3>1
  <2>2. CASE Top.use # "indented"
    <3>1. \A i \in 1..Len(bs2) : bs2[i].use # "indented" /\ bs2[i].block # NULL
      <4>1. \A i \in 1..n : i = n \/ (i \in 1..(n - 1) /\ i # n)
        BY <1>2
      <4>2. \A i \in 1..n : i # n => buffers[i].use \in Outputs /\ buffers[i].block # NULL
        BY <1>1, TopFacts
      <4>3. \A i \in 1..n : i # n => bs2[i].use # "indented" /\ bs2[i].block # NULL
        BY <1>14, <4>1, <4>2 DEF Outputs
      <4> QED
        BY <1>1, <1>6, <1>14, <2>2, <4>3
    <3>2. held' = <<>> /\ heap' = [x \in DOMAIN hp2 \ {held[i].block : i \in 1..Len(held)} |-> hp2[x]]
      <4>1. held' = <<>>
        BY <2>2 DEF Copy
      <4>2. heap' = [x \in DOMAIN heap \ Freed |-> IF x = Top.block THEN Top.cap ELSE heap[x]]
        BY <2>2 DEF Copy
      <4>3. \A x \in DOMAIN heap \ Freed : hp2[x] = IF x = Top.block THEN Top.cap ELSE heap[x]
        BY DEF hp2
      <4> QED
        BY <1>10, <4>1, <4>2, <4>3 DEF Freed
    <3> QED
      BY <1>13, <1>15, <3>1, <3>2, Dropped
  <2> QED
    BY <2>1, <2>2
<1>17. adding' = <<>> /\ todo' = todo /\ status' = status
  BY DEF Copy
<1> QED
  BY <1>1, <1>14, <1>15, <1>16, <1>17, Empty DEF IInv

LEMMA TakeStep ==   \* actions that only choose what is added next
    ASSUME IInv, UNCHANGED <<buffers, held, heap, status>>, todo' \in Seq(Chars),
           NEW t \in Seq(Chars), adding' = <<t>>, buffers # <<>>, Writable
    PROVE  IInv'
<1>1. Writable'
  BY DEF Writable, Top
<1> QED
  BY <1>1, TextFacts DEF IInv

LEMMA OutputFacts ==
    ASSUME IInv, InUse(Outputs), held = <<>>
    PROVE  buffers # <<>> /\ Writable /\ Top.use \in Outputs
<1>1. buffers # <<>> /\ Top.use \in Outputs /\ Len(held) = 0
  BY EmptySeq DEF InUse
<1> QED
  BY <1>1, TopFacts DEF Writable

LEMMA WriteTextStep ==
    ASSUME IInv, WriteText
    PROVE  IInv'
<1>1. PICK t \in Texts : adding' = <<t>>
  BY DEF WriteText
<1>2. t \in Seq(Chars)
  BY TextsAssumption
<1>3. buffers # <<>> /\ Writable
  BY OutputFacts DEF WriteText
<1> QED
  BY <1>1, <1>2, <1>3, TakeStep DEF WriteText, IInv


LEMMA MallocFacts ==
    ASSUME CanAllocate
    PROVE  Malloc \in Block /\ Malloc \notin DOMAIN heap
<1>1. \E b \in Block : b \notin DOMAIN heap
  BY DEF CanAllocate
<1> QED
  BY <1>1 DEF Malloc

LEMMA EnterStep ==   \* what Enter does to the memory
    ASSUME IInv, buffers # <<>>, Top.use \in Outputs, Writable,
           NEW use \in Uses \ {"render"}, use = "indented" => Len(held) = 1,
           NEW of \in Seq(Chars), Enter(use, of), held' = held
    PROVE  MemoryOf(buffers', held', heap') /\ buffers' # <<>> /\ Writable'
<1>1. Malloc \in Block /\ Malloc \notin DOMAIN heap /\ Malloc # NULL
  BY MallocFacts, BlockAssumption DEF Enter
<1>2. buffers' = Append(buffers, Buffer(use, of, Malloc)) /\ heap' = With(Malloc, INITIAL_CAP)
  BY DEF Enter
<1>3. MemoryOf(buffers, held, heap) /\ buffers[Len(buffers)].use \in Outputs /\ buffers[Len(buffers)].block # NULL
  BY DEF IInv, Top, Writable
<1>4. MemoryOf(Append(buffers, Buffer(use, of, Malloc)), held, heap')
  <2> DEFINE b == Malloc
  <2>1. b \in Block /\ b \notin DOMAIN heap
    BY <1>1
  <2>2. heap' = [x \in DOMAIN heap \cup {b} |-> IF x = b THEN INITIAL_CAP ELSE heap[x]]
    BY <1>2 DEF With
  <2> HIDE DEF b
  <2>3. MemoryOf(Append(buffers, Buffer(use, of, b)), held, heap')
    BY <1>3, <2>1, <2>2, Entered
  <2> QED
    BY <2>3 DEF b
<1>5. Buffer(use, of, Malloc) \in BufferSet /\ Buffer(use, of, Malloc).block = Malloc
  BY <1>1, CapAssumption, EmptySeq DEF Buffer, BufferSet
<1>6. buffers \in Seq(BufferSet)
  BY DEF IInv, MemoryOf, TypesOf
<1>7. /\ buffers' # <<>> /\ Len(buffers') = Len(buffers) + 1
      /\ buffers'[Len(buffers) + 1] = Buffer(use, of, Malloc)
  BY <1>2, <1>5, <1>6, Added
<1>8. Writable'
  BY <1>1, <1>5, <1>7 DEF Writable, Top
<1> QED
  BY <1>2, <1>4, <1>7, <1>8

LEMMA BeginStep ==
    ASSUME IInv, Begin
    PROVE  IInv'
<1>1. PICK use \in {"partial", "block"} : Enter(use, <<>>)
  BY DEF Begin
<1>2. use \in Uses \ {"render"} /\ (use = "indented" => Len(held) = 1) /\ <<>> \in Seq(Chars)
  BY Empty DEF Uses
<1>3. buffers # <<>> /\ Writable /\ Top.use \in Outputs
  BY OutputFacts DEF Begin
<1>4. held' = held /\ adding' = adding /\ todo' = todo /\ status' = status /\ status = "rendering"
  BY DEF Begin, InUse
<1>5. MemoryOf(buffers', held', heap') /\ buffers' # <<>> /\ Writable'
  BY <1>1, <1>2, <1>3, <1>4, EnterStep
<1> QED
  BY <1>4, <1>5 DEF IInv

LEMMA BeginEscapeStep ==
    ASSUME IInv, BeginEscape
    PROVE  IInv'
<1>1. PICK t \in Texts : Enter("escape", t) /\ todo' = t
  BY DEF BeginEscape
<1>2. "escape" \in Uses \ {"render"} /\ "escape" # "indented" /\ t \in Seq(Chars)
  BY TextsAssumption DEF Uses
<1>3. buffers # <<>> /\ Writable /\ Top.use \in Outputs
  BY OutputFacts DEF BeginEscape
<1>4. held' = held /\ adding' = adding /\ status' = status /\ status = "rendering"
  BY DEF BeginEscape, InUse
<1>5. MemoryOf(buffers', held', heap') /\ buffers' # <<>> /\ Writable'
  BY <1>1, <1>2, <1>3, <1>4, EnterStep
<1> QED
  BY <1>1, <1>2, <1>4, <1>5 DEF IInv

LEMMA BeginIndentStep ==
    ASSUME IInv, BeginIndent
    PROVE  IInv'
<1>1. /\ Enter("indented", <<>>) /\ todo' = held[1].data /\ adding' = <<Margin>>
      /\ Len(held) = 1 /\ Writable
  BY DEF BeginIndent
<1>2. "indented" \in Uses \ {"render"} /\ <<>> \in Seq(Chars)
  BY Empty DEF Uses
<1>3. buffers # <<>> /\ Top.use \in Outputs
  BY DEF BeginIndent, InUse
<1>4. held' = held /\ status' = status /\ status = "rendering"
  BY DEF BeginIndent, InUse
<1>5. MemoryOf(buffers', held', heap') /\ buffers' # <<>> /\ Writable'
  BY <1>1, <1>2, <1>3, <1>4, EnterStep
<1>6. todo' \in Seq(Chars) /\ adding' \in Seq(Seq(Chars)) /\ Len(adding') <= 1
  BY <1>1, StringFacts, TextFacts, TextsAssumption
<1> QED
  BY <1>4, <1>5, <1>6 DEF IInv

LEMMA DetachStep ==
    ASSUME IInv, Detach
    PROVE  IInv'
<1>1. /\ buffers # <<>> /\ Top.block # NULL /\ Top.use \in {"partial", "block", "escape"} /\ held = <<>>
      /\ adding = <<>> /\ status = "rendering"
  BY DEF Detach, InUse, Writable
<1>2. MemoryOf(buffers, <<>>, heap) /\ buffers \in Seq(BufferSet)
  BY <1>1 DEF IInv, MemoryOf, TypesOf
<1>3. /\ MemoryOf([buffers EXCEPT ![Len(buffers)] = Detached(Top)], <<String(Top)>>, heap)
  BY <1>1, <1>2, Detaching DEF Top
<1>4. /\ buffers' = [buffers EXCEPT ![Len(buffers)] = Detached(Top)] /\ held' = <<String(Top)>>
      /\ heap' = heap /\ adding' = adding /\ todo' = todo /\ status' = status
  BY DEF Detach, Set
<1>5. Detached(Top) \in BufferSet
  BY <1>1, TopFacts, EmptySeq DEF Detached, BufferSet
<1>6. buffers' # <<>>
  BY <1>1, <1>2, <1>4, <1>5, Replaced
<1> QED
  BY <1>1, <1>3, <1>4, <1>6 DEF IInv

LEMMA RestoreStep ==
    ASSUME IInv, Restore
    PROVE  IInv'
<1>1. /\ buffers # <<>> /\ Top.block = NULL /\ Top.use \in {"partial", "block", "escape"}
      /\ adding = <<>> /\ status = "rendering"
  BY DEF Restore, InUse, Writable
<1>2. MemoryOf(buffers, held, heap) /\ buffers \in Seq(BufferSet)
  BY DEF IInv, MemoryOf, TypesOf
<1>3. MemoryOf(Front(buffers), held, heap) /\ Len(Front(buffers)) = Len(buffers) - 1
  BY <1>1, <1>2, Popped DEF Top
<1>4. /\ buffers' = Front(buffers) /\ held' = held /\ heap' = heap /\ adding' = adding
      /\ todo' = todo /\ status' = status
  BY DEF Restore
<1>5. Len(buffers) \in Nat /\ Len(buffers) # 1 /\ Len(buffers) # 0
  BY <1>1, TopFacts
<1>6. buffers' # <<>>
  BY <1>3, <1>4, <1>5, EmptySeq
<1> QED
  BY <1>1, <1>3, <1>4, <1>6 DEF IInv

LEMMA EndIndentStep ==
    ASSUME IInv, EndIndent
    PROVE  IInv'
<1>1. buffers # <<>> /\ Top.use = "indented" /\ adding = <<>> /\ status = "rendering"
  BY DEF EndIndent, InUse
<1>2. Len(held) = 1 /\ Top.block # NULL
  BY <1>1, TopFacts
<1>3. MemoryOf(buffers, held, heap) /\ buffers \in Seq(BufferSet)
  BY DEF IInv, MemoryOf, TypesOf
<1> DEFINE hs2 == Append(held, String(Top))
<1> HIDE DEF hs2
<1>4. MemoryOf(Front(buffers), hs2, heap) /\ Len(Front(buffers)) = Len(buffers) - 1
  <2>1. buffers[Len(buffers)].block # NULL /\ Len(held) < 2 /\ hs2 = Append(held, String(buffers[Len(buffers)]))
    BY <1>2 DEF Top, hs2
  <2> QED
    BY <1>1, <1>3, <2>1, Popped
<1>5. /\ buffers' = Front(buffers) /\ held' = Append(held, String(Top)) /\ heap' = heap
      /\ adding' = adding /\ todo' = todo /\ status' = status
  BY DEF EndIndent
<1>6. Len(buffers) \in Nat /\ Len(buffers) # 1 /\ Len(buffers) # 0
  BY <1>1, TopFacts
<1>7. buffers' # <<>>
  BY <1>4, <1>5, <1>6, EmptySeq
<1> QED
  BY <1>1, <1>4, <1>5, <1>7 DEF IInv, hs2

LEMMA AppendHeldStep ==
    ASSUME IInv, AppendHeld
    PROVE  IInv'
<1>1. /\ buffers # <<>> /\ Writable /\ held # <<>> /\ adding' = <<Last(held).data>>
  BY DEF AppendHeld, InUse
<1>2. held \in Seq(StringSet)
  BY DEF IInv, MemoryOf, TypesOf
<1>3. Len(held) \in 1..Len(held)
  BY <1>1, <1>2, EmptySeq
<1>4. Last(held).data \in Seq(Chars)
  BY <1>3, StringFacts DEF Last
<1> QED
  BY <1>1, <1>4, TakeStep DEF AppendHeld, IInv

LEMMA DropHeldStep ==
    ASSUME IInv, DropHeld
    PROVE  IInv'
<1>1. /\ buffers # <<>> /\ Top.block # NULL /\ Top.use \in Outputs /\ adding = <<>> /\ held' = <<>>
      /\ heap' = [x \in DOMAIN heap \ {held[i].block : i \in 1..Len(held)} |-> heap[x]]
  BY DEF DropHeld, InUse, Writable, Without, Freed
<1>2. \A i \in 1..Len(buffers) : buffers[i].use # "indented" /\ buffers[i].block # NULL
  <2>1. \A i \in 1..Len(buffers) : i # Len(buffers) => buffers[i].use \in Outputs /\ buffers[i].block # NULL
    BY <1>1, TopFacts
  <2> QED
    BY <1>1, <2>1 DEF Outputs, Top
<1>3. MemoryOf(buffers, held', heap')
  BY <1>1, <1>2, Dropped DEF IInv
<1> QED
  BY <1>1, <1>3 DEF DropHeld, IInv

LEMMA EscapeCharStep ==
    ASSUME IInv, EscapeChar
    PROVE  IInv'
<1>1. /\ buffers # <<>> /\ Writable /\ todo # <<>> /\ adding' = <<Written(Head(todo))>> /\ todo' = Tail(todo)
  BY DEF EscapeChar, InUse
<1>2. Written(Head(todo)) \in Seq(Chars) /\ todo' \in Seq(Chars)
  BY <1>1, TodoFacts, WrittenFacts
<1> QED
  BY <1>1, <1>2, TakeStep DEF EscapeChar

LEMMA IndentCharStep ==
    ASSUME IInv, IndentChar
    PROVE  IInv'
<1>1. /\ buffers # <<>> /\ todo # <<>> /\ adding' = <<IndentedChar(todo, 1)>> /\ todo' = Tail(todo)
      /\ Top.use = "indented"
  BY DEF IndentChar, InUse
<1>2. Writable
  BY <1>1, TopFacts DEF Writable
<1>3. todo' \in Seq(Chars) /\ todo[1] \in Chars
  BY <1>1, TodoFacts
<1>4. IndentedChar(todo, 1) \in Seq(Chars)
  <2>1. <<todo[1]>> \in Seq(Chars) /\ Margin \in Seq(Chars) /\ <<>> \in Seq(Chars)
    BY <1>3, TextsAssumption, Empty
  <2> DEFINE rest == IF todo[1] = "nl" /\ 1 < Len(todo) THEN Margin ELSE <<>>
  <2>2. rest \in Seq(Chars)
    BY <2>1
  <2> HIDE DEF rest
  <2>3. <<todo[1]>> \o rest \in Seq(Chars)
    BY <2>1, <2>2, ConcatProperties
  <2> QED
    BY <2>3 DEF rest, IndentedChar
<1> QED
  BY <1>1, <1>2, <1>3, <1>4, TakeStep DEF IndentChar

LEMMA ReturnStep ==
    ASSUME IInv, Return
    PROVE  IInv'
<1>1. buffers # <<>> /\ Top.use = "render" /\ adding = <<>> /\ held = <<>>
  BY DEF Return, InUse
<1>2. Len(buffers) = 1 /\ Top.block # NULL
  BY <1>1, TopFacts
<1>3. MemoryOf(buffers, held, heap) /\ buffers \in Seq(BufferSet) /\ held \in Seq(StringSet) /\ Len(held) = 0
  BY <1>1, EmptySeq DEF IInv, MemoryOf, TypesOf
<1> DEFINE hs2 == Append(held, String(Top))
<1>4. MemoryOf(Front(buffers), hs2, heap) /\ Len(Front(buffers)) = Len(buffers) - 1
  BY <1>1, <1>2, <1>3, Popped DEF Top
<1>5. Front(buffers) = <<>>
  BY <1>2, <1>3, <1>4, Removed, EmptySeq
<1>6. hs2 = <<String(Top)>>
  BY <1>1
<1>7. MemoryOf(<<>>, <<String(Top)>>, heap)
  BY <1>4, <1>5, <1>6
<1>8. buffers' = <<>> /\ adding' = adding /\ todo' = todo
  BY DEF Return
<1>9. CASE status' = "returned" /\ held' = <<String(Top)>> /\ heap' = heap
  BY <1>1, <1>7, <1>8, <1>9 DEF IInv
<1>10. CASE status' = "failed" /\ heap' = Without({Top.block}) /\ held' = held
  <2> DEFINE hs == <<String(Top)>>
  <2>1. Len(hs) = 1 /\ hs[1].block = Top.block
    BY DEF String
  <2>2. {hs[i].block : i \in 1..Len(hs)} = {Top.block}
    BY <2>1
  <2>3. MemoryOf(<<>>, hs, heap)
    BY <1>7
  <2> HIDE DEF hs
  <2>4. heap' = [x \in DOMAIN heap \ {hs[i].block : i \in 1..Len(hs)} |-> heap[x]]
    BY <1>10, <2>2 DEF Without
  <2>5. Len(<<>>) = 0 /\ 1..0 = {}
    BY EmptySeq
  <2>6. MemoryOf(<<>>, <<>>, heap')
    BY <2>3, <2>4, <2>5, Dropped
  <2> QED
    BY <1>1, <1>8, <1>10, <2>6 DEF IInv
<1> QED
  BY <1>9, <1>10 DEF Return


-----------------------------------------------------------------------------
LEMMA InitHolds ==
    ASSUME Init
    PROVE  IInv
<1> DEFINE b   == CHOOSE x \in Block : TRUE
           buf == Buffer("render", <<>>, b)
<1>1. b \in Block /\ b # NULL
  BY BlockAssumption
<1>2. /\ heap = [x \in {b} |-> INITIAL_CAP] /\ buffers = <<buf>>
      /\ held = <<>> /\ adding = <<>> /\ todo = <<>> /\ status = "rendering"
  BY DEF Init
<1> HIDE DEF b
<1>3. /\ buf \in BufferSet /\ buf.use = "render" /\ buf.block = b /\ buf.cap = INITIAL_CAP
      /\ Len(buf.data) = 0
  BY <1>1, CapAssumption, EmptySeq DEF Buffer, BufferSet, Uses
<1> HIDE DEF buf
<1>4. /\ buffers \in Seq(BufferSet) /\ Len(buffers) = 1 /\ buffers[1] = buf /\ buffers # <<>>
      /\ \A i \in 1..1 : i = 1
  BY <1>2, <1>3
<1>5. held \in Seq(StringSet) /\ Len(held) = 0 /\ 1..0 = {}
  BY <1>2, EmptySeq
<1>6. DOMAIN heap = {b} /\ heap[b] = INITIAL_CAP /\ INITIAL_CAP \in Nat /\ 0 < INITIAL_CAP
  BY <1>2, CapAssumption
<1>7. TypesOf(buffers, held, heap)
  BY <1>1, <1>4, <1>5, <1>6 DEF TypesOf
<1>8. PlacesOf(buffers, held)
  BY <1>1, <1>3, <1>4, <1>5 DEF PlacesOf, Outputs
<1>9. BoundsOf(buffers, held, heap)
  BY <1>3, <1>4, <1>5, <1>6 DEF BoundsOf
<1>10. OwnersOf(buffers, held, heap)
  BY <1>3, <1>4, <1>5, <1>6 DEF OwnersOf
<1> QED
  BY <1>2, <1>4, <1>7, <1>8, <1>9, <1>10, Empty DEF IInv, MemoryOf

LEMMA StepHolds ==
    ASSUME IInv, [Next]_vars
    PROVE  IInv'
<1>1. CASE UNCHANGED vars
  BY <1>1 DEF vars, IInv, Writable, Top
<1> QED
  BY <1>1, GrowStep, CopyStep, WriteTextStep, BeginStep, DetachStep, RestoreStep, AppendHeldStep,
     DropHeldStep, BeginEscapeStep, EscapeCharStep, BeginIndentStep, IndentCharStep, EndIndentStep,
     ReturnStep
  DEF Next

(* Buffers lie in the stack as they were begun, their memory and that of   *)
(* the detached strings is allocated, large enough, and nobody else's.     *)
THEOREM MemoryInvariant == Spec => []IInv
<1>1. Init => IInv
  BY InitHolds
<1>2. IInv /\ [Next]_vars => IInv'
  BY StepHolds
<1> QED
  BY <1>1, <1>2, PTL DEF Spec

LEMMA TypesHold ==
    ASSUME IInv
    PROVE  StrbufTypeOK
  BY DEF IInv, MemoryOf, TypesOf, PlacesOf, BufferSet, StringSet, StrbufTypeOK

(* Only the innermost buffer is ever one that is escaped into, indented    *)
(* into or detached, and nothing is appended to a buffer without memory.   *)
THEOREM BuffersTyped == Spec => []StrbufTypeOK
<1>1. IInv => StrbufTypeOK
  BY TypesHold
<1> QED
  BY <1>1, MemoryInvariant, PTL

(* hbs_strbuf_append writes a text and its NUL inside the allocation,      *)
(* whichever buffers were grown, saved, detached or restored before.       *)
THEOREM WritesInside == Spec => []InBounds
<1>1. IInv => InBounds
  BY DEF IInv, MemoryOf, BoundsOf, InBounds
<1> QED
  BY <1>1, MemoryInvariant, PTL

LEMMA OwnersHold ==
    ASSUME IInv
    PROVE  OneOwner
<1> DEFINE n == Len(buffers)
           m == Len(held)
<1>1. n \in Nat /\ m \in Nat
  BY DEF IInv, MemoryOf, TypesOf
<1>2. /\ \A i, j \in 1..n : buffers[i].block = buffers[j].block /\ buffers[i].block # NULL => i = j
      /\ \A i, j \in 1..m : held[i].block = held[j].block => i = j
      /\ \A i \in 1..n, j \in 1..m : buffers[i].block # held[j].block
      /\ \A b \in DOMAIN heap : (\E i \in 1..n : buffers[i].block = b) \/ \E i \in 1..m : held[i].block = b
  BY DEF IInv, MemoryOf, OwnersOf
<1>3. /\ \A i \in 1..n : buffers[i].block # NULL => buffers[i].block \in DOMAIN heap
      /\ \A i \in 1..m : held[i].block \in DOMAIN heap
      /\ NULL \notin DOMAIN heap
  BY BlockAssumption DEF IInv, MemoryOf, BoundsOf, TypesOf
<1>4. /\ DOMAIN Owners = 1..(n + m)
      /\ \A i \in 1..(n + m) : Owners[i] = IF i <= n THEN buffers[i].block ELSE held[i - n].block
  BY DEF Owners
<1> HIDE DEF n, m
<1>5. ASSUME NEW i \in 1..(n + m)
      PROVE  (i \in 1..n /\ i <= n) \/ (i - n \in 1..m /\ ~(i <= n))
  BY <1>1
<1>6. /\ \A i \in 1..n : i \in 1..(n + m) /\ i <= n
      /\ \A i \in 1..m : i + n \in 1..(n + m) /\ ~(i + n <= n) /\ (i + n) - n = i
  BY <1>1
<1>7. ASSUME NEW i \in 1..(n + m), NEW j \in 1..(n + m), Owners[i] = Owners[j], Owners[i] # NULL
      PROVE  i = j
  <2>1. CASE i <= n /\ j <= n
    BY <1>2, <1>4, <1>5, <1>7, <2>1
  <2>2. CASE ~(i <= n) /\ ~(j <= n)
    <3>1. i - n \in 1..m /\ j - n \in 1..m /\ held[i - n].block = held[j - n].block
      BY <1>4, <1>5, <1>7, <2>2
    <3>2. i - n = j - n
      BY <1>2, <3>1
    <3> QED
      BY <1>1, <3>2
  <2>3. CASE i <= n /\ ~(j <= n)
    BY <1>2, <1>4, <1>5, <1>7, <2>3
  <2>4. CASE ~(i <= n) /\ j <= n
    BY <1>2, <1>4, <1>5, <1>7, <2>4
  <2> QED
    BY <2>1, <2>2, <2>3, <2>4
<1>8. ASSUME NEW b \in DOMAIN heap
      PROVE  \E i \in 1..(n + m) : Owners[i] = b
  <2>1. CASE \E i \in 1..n : buffers[i].block = b
    BY <1>4, <1>6, <2>1
  <2>2. CASE \E i \in 1..m : held[i].block = b
    <3>1. PICK i \in 1..m : held[i].block = b
      BY <2>2
    <3>2. Owners[i + n] = b /\ i + n \in 1..(n + m)
      BY <1>4, <1>6, <3>1
    <3> QED
      BY <3>2
  <2> QED
    BY <1>2, <2>1, <2>2
<1>9. ASSUME NEW i \in 1..(n + m), Owners[i] # NULL
      PROVE  Owners[i] \in DOMAIN heap
  BY <1>3, <1>4, <1>5, <1>9
<1>10. DOMAIN heap = {Owners[i] : i \in 1..(n + m)} \ {NULL}
  BY <1>3, <1>8, <1>9
<1> QED
  BY <1>4, <1>7, <1>10 DEF OneOwner

(* Every block is freed once: at each step it has exactly one owner, among *)
(* the buffers of the render and the strings it detached, and at the end   *)
(* the returned string, if any, is all that is left.                       *)
THEOREM Owned == Spec => []OneOwner
<1>1. IInv => OneOwner
  BY OwnersHold
<1> QED
  BY <1>1, MemoryInvariant, PTL

-----------------------------------------------------------------------------
(* The text of a stack of buffers, as its last one changes.                *)
LEMMA FrontLast ==
    ASSUME NEW S, NEW s \in Seq(S), s # <<>>
    PROVE  Front(s) \in Seq(S) /\ s[Len(s)] \in S /\ s = Append(Front(s), s[Len(s)])
<1>1. Len(s) \in Nat /\ Len(s) # 0 /\ Len(s) \in 1..Len(s)
  BY EmptySeq
<1>2. s[Len(s)] \in S
  BY <1>1, ElementOfSeq
<1>3. Front(s) \in Seq(S) /\ Len(Front(s)) = Len(s) - 1 /\ \A i \in 1..(Len(s) - 1) : Front(s)[i] = s[i]
  BY Removed
<1> DEFINE n == Len(s)
           e == s[Len(s)]
           t == Append(Front(s), e)
<1>4. t \in Seq(S) /\ Len(t) = n /\ t[n] = e /\ \A i \in 1..(n - 1) : t[i] = s[i]
  <2> DEFINE f == Front(s)
  <2>1. Append(f, e) \in Seq(S) /\ Len(Append(f, e)) = Len(f) + 1
        /\ Append(f, e)[Len(f) + 1] = e /\ \A i \in 1..Len(f) : Append(f, e)[i] = f[i]
    BY <1>2, <1>3, Added
  <2> HIDE DEF f, e
  <2> QED
    BY <1>1, <1>3, <2>1 DEF f
<1>5. \A i \in 1..n : s[i] = t[i]
  <2> HIDE DEF t
  <2> QED
    BY <1>1, <1>4
<1> HIDE DEF t
<1>6. s = t
  BY <1>4, <1>5, SeqEqual
<1> QED
  BY <1>2, <1>3, <1>6 DEF t

LEMMA FrontAppended ==
    ASSUME NEW S, NEW s \in Seq(S), NEW e \in S
    PROVE  Front(Append(s, e)) = s /\ Last(Append(s, e)) = e /\ Append(s, e) # <<>>
<1> DEFINE t == Append(s, e)
<1>1. /\ t \in Seq(S) /\ t # <<>> /\ Len(t) = Len(s) + 1 /\ Len(s) \in Nat
      /\ t[Len(s) + 1] = e /\ \A i \in 1..Len(s) : t[i] = s[i]
  BY Added
<1> HIDE DEF t
<1>2. Front(t) \in Seq(S) /\ Len(Front(t)) = Len(s) /\ \A i \in 1..Len(s) : Front(t)[i] = s[i]
  <2>1. Front(t) \in Seq(S) /\ Len(Front(t)) = Len(t) - 1 /\ \A i \in 1..(Len(t) - 1) : Front(t)[i] = t[i]
    BY <1>1, Removed
  <2> QED
    BY <1>1, <2>1
<1>3. Front(t) = s
  BY <1>2, SeqEqual
<1> QED
  BY <1>1, <1>3 DEF t, Last

LEMMA ReplacedAppends ==
    ASSUME NEW S, NEW s \in Seq(S), s # <<>>, NEW e \in S
    PROVE  [s EXCEPT ![Len(s)] = e] = Append(Front(s), e)
<1> DEFINE t == [s EXCEPT ![Len(s)] = e]
           n == Len(s)
<1>1. /\ t \in Seq(S) /\ t # <<>> /\ Len(t) = n /\ t[n] = e
      /\ \A i \in 1..(n - 1) : t[i] = s[i]
  BY Replaced
<1>2. Front(s) \in Seq(S) /\ Len(Front(s)) = n - 1 /\ \A i \in 1..(n - 1) : Front(s)[i] = s[i]
  BY Removed
<1>3. n \in Nat
  OBVIOUS
<1> HIDE DEF t, n
<1>4. t = Append(Front(t), e) /\ Front(t) \in Seq(S)
  BY <1>1, FrontLast
<1>5. Len(Front(t)) = n - 1 /\ \A i \in 1..(n - 1) : Front(t)[i] = t[i]
  BY <1>1, Removed
<1>6. Front(t) = Front(s)
  BY <1>1, <1>2, <1>4, <1>5, SeqEqual
<1> QED
  BY <1>4, <1>6 DEF t, n

LEMMA PrefixOfAppended ==
    ASSUME NEW S, NEW s \in Seq(S), NEW e \in S, NEW k \in 0..Len(s)
    PROVE  SubSeq(Append(s, e), 1, k) = SubSeq(s, 1, k) /\ SubSeq(s, 1, k) \in Seq(S)
<1> DEFINE t == Append(s, e)
<1>1. t \in Seq(S) /\ Len(t) = Len(s) + 1 /\ \A i \in 1..Len(s) : t[i] = s[i]
  BY Added
<1>2. k \in Int /\ 1 \in Int /\ Len(s) \in Nat
  OBVIOUS
<1>3. \A i \in 1..k : s[i] \in S /\ t[i] \in S /\ t[i] = s[i]
  <2> TAKE i \in 1..k
  <2>1. i \in 1..Len(s)
    BY <1>2
  <2> QED
    BY <1>1, <2>1, ElementOfSeq
<1> HIDE DEF t
<1>4. /\ SubSeq(s, 1, k) \in Seq(S) /\ Len(SubSeq(s, 1, k)) = IF 1 <= k THEN k - 1 + 1 ELSE 0
      /\ \A i \in 1..(k - 1 + 1) : SubSeq(s, 1, k)[i] = s[1 + i - 1]
  BY <1>2, <1>3, SubSeqProperties
<1>5. /\ SubSeq(t, 1, k) \in Seq(S) /\ Len(SubSeq(t, 1, k)) = IF 1 <= k THEN k - 1 + 1 ELSE 0
      /\ \A i \in 1..(k - 1 + 1) : SubSeq(t, 1, k)[i] = t[1 + i - 1]
  BY <1>2, <1>3, SubSeqProperties
<1> DEFINE u == SubSeq(s, 1, k)
           v == SubSeq(t, 1, k)
<1> HIDE DEF u, v
<1>6. Len(u) = k /\ Len(v) = k /\ \A i \in 1..k : u[i] = v[i]
  BY <1>2, <1>3, <1>4, <1>5 DEF u, v
<1>7. u = v
  BY <1>4, <1>5, <1>6, SeqEqual DEF u, v
<1> QED
  BY <1>4, <1>7 DEF u, v, t

LEMMA FlatAppended ==
    ASSUME NEW bs \in Seq(BufferSet), NEW b \in BufferSet
    PROVE  Flat(bs) \in Seq(Chars) /\ Flat(Append(bs, b)) = Flat(bs) \o b.data
<1> DEFINE q == [i \in 1..Len(bs) |-> bs[i].data]
           n == Len(bs)
           cs == Append(bs, b)
           r == [i \in 1..Len(cs) |-> cs[i].data]
<1>1. n \in Nat /\ b.data \in Seq(Chars)
  BY DEF BufferSet
<1>2. \A i \in 1..n : bs[i].data \in Seq(Chars)
  <2> TAKE i \in 1..n
  <2>1. bs[i] \in BufferSet
    BY ElementOfSeq
  <2> QED
    BY <2>1 DEF BufferSet
<1>3. Len(cs) = n + 1 /\ cs[n + 1] = b /\ \A i \in 1..n : cs[i] = bs[i]
  BY Added
<1>4. q \in Seq(Seq(Chars)) /\ Len(q) = n
  BY <1>1, <1>2, SeqDef
<1>5. r = Append(q, b.data)
  <2>1. Append(q, b.data) = [i \in 1..(n + 1) |-> IF i = n + 1 THEN b.data ELSE q[i]]
    BY <1>1, <1>4
  <2> HIDE DEF cs
  <2> QED
    BY <1>1, <1>3, <2>1
<1> HIDE DEF q, r, cs
<1>6. FlattenSeq(q) \in Seq(Chars) /\ FlattenSeq(Append(q, b.data)) = FlattenSeq(q) \o b.data
  BY <1>1, <1>4, FlattenAppend
<1> QED
  BY <1>5, <1>6 DEF Flat, q, r, cs

LEMMA StartsAppended ==
    ASSUME NEW bs \in Seq(BufferSet), NEW b \in BufferSet
    PROVE  /\ Starts(bs) \in Seq(Nat)
           /\ Starts(Append(bs, b)) = Append(Starts(bs), Len(Flat(bs)))
<1> DEFINE n  == Len(bs)
           cs == Append(bs, b)
           m  == Len(Flat(bs))
<1>1. n \in Nat /\ Len(cs) = n + 1
  BY Added
<1>2. \A i \in 1..(n + 1) : /\ SubSeq(cs, 1, i - 1) = SubSeq(bs, 1, i - 1)
                            /\ Len(Flat(SubSeq(bs, 1, i - 1))) \in Nat
  <2> TAKE i \in 1..(n + 1)
  <2>1. i - 1 \in 0..n
    BY <1>1
  <2>2. SubSeq(cs, 1, i - 1) = SubSeq(bs, 1, i - 1) /\ SubSeq(bs, 1, i - 1) \in Seq(BufferSet)
    BY <2>1, PrefixOfAppended
  <2>3. Flat(SubSeq(bs, 1, i - 1)) \in Seq(Chars)
    BY <2>2, FlatAppended
  <2> QED
    BY <2>2, <2>3, LenProperties
<1>3. SubSeq(bs, 1, n) = bs
  BY SubSeqFull
<1>4. m \in Nat
  BY FlatAppended, LenProperties
<1>5. Starts(bs) \in Seq(Nat) /\ Len(Starts(bs)) = n
  <2>1. \A i \in 1..n : Len(Flat(SubSeq(bs, 1, i - 1))) \in Nat
    <3> HIDE DEF cs
    <3> QED
      BY <1>1, <1>2
  <2> QED
    BY <1>1, <2>1, SeqDef DEF Starts
<1>6. Append(Starts(bs), m) = [i \in 1..(n + 1) |-> IF i = n + 1 THEN m ELSE Starts(bs)[i]]
  <2> DEFINE f == Starts(bs)
  <2> HIDE DEF f, m, n
  <2>1. f \in Seq(Nat) /\ Len(f) = n /\ n \in Nat /\ m \in Nat
    BY <1>1, <1>4, <1>5 DEF f
  <2>2. Append(f, m) = [i \in 1..(n + 1) |-> IF i = n + 1 THEN m ELSE f[i]]
    <3> DEFINE a == Append(f, m)
    <3>1. a \in Seq(Nat) /\ Len(a) = n + 1 /\ a[n + 1] = m /\ \A i \in 1..n : a[i] = f[i]
      BY <2>1, Added
    <3> HIDE DEF a
    <3>2. a \in [1..(n + 1) -> Nat]
      BY <3>1, LenProperties
    <3>3. \A i \in 1..(n + 1) : a[i] = IF i = n + 1 THEN m ELSE f[i]
      BY <2>1, <3>1
    <3> QED
      BY <3>2, <3>3 DEF a
  <2> QED
    BY <2>2 DEF f
<1>7. Starts(cs) = [i \in 1..(n + 1) |-> Len(Flat(SubSeq(bs, 1, i - 1)))]
  <2> HIDE DEF cs
  <2> QED
    BY <1>1, <1>2 DEF Starts
<1>8. \A i \in 1..(n + 1) : Len(Flat(SubSeq(bs, 1, i - 1))) = IF i = n + 1 THEN m ELSE Starts(bs)[i]
  <2> TAKE i \in 1..(n + 1)
  <2>1. CASE i = n + 1
    <3>1. i - 1 = n
      BY <1>1, <2>1
    <3> QED
      BY <1>3, <2>1, <3>1
  <2>2. CASE i # n + 1
    <3>1. i \in 1..n
      BY <1>1, <2>2
    <3> QED
      BY <2>2, <3>1 DEF Starts
  <2> QED
    BY <2>1, <2>2
<1> HIDE DEF m, cs
<1>9. Starts(cs) = Append(Starts(bs), m)
  BY <1>6, <1>7, <1>8
<1> QED
  BY <1>5, <1>9 DEF m, cs

(* A stack is its last buffer upon those below, all of which have a text.  *)
Waits(b) == b.block = NULL \/ b.use = "indented"
Rest(hs) == IF hs = <<>> THEN <<>> ELSE Last(hs).data
Below    == Front(buffers)

LEMMA LiveWaits ==
    ASSUME NEW bs \in Seq(BufferSet), NEW b \in BufferSet, Waits(b)
    PROVE  LiveOf(Append(bs, b)) = bs
BY FrontAppended DEF LiveOf, Waits

LEMMA LiveWrites ==
    ASSUME NEW bs \in Seq(BufferSet), NEW b \in BufferSet, ~Waits(b)
    PROVE  LiveOf(Append(bs, b)) = Append(bs, b)
BY FrontAppended DEF LiveOf, Waits

LEMMA RestTyped ==
    ASSUME NEW hs \in Seq(StringSet)
    PROVE  Rest(hs) \in Seq(Chars)
<1>1. CASE hs = <<>>
  BY <1>1 DEF Rest
<1>2. CASE hs # <<>>
  <2>1. Last(hs) \in StringSet
    BY <1>2, FrontLast DEF Last
  <2> QED
    BY <1>2, <2>1 DEF Rest, StringSet
<1> QED
  BY <1>1, <1>2

(* The text and the marks while the last buffer waits for the string that  *)
(* was detached from it or is to be indented; and while it is written to.  *)
LEMMA WaitingText ==
    ASSUME NEW bs \in Seq(BufferSet), NEW b \in BufferSet, Waits(b),
           NEW hs \in Seq(StringSet), hs # <<>>
    PROVE  /\ TextOf(Append(bs, b), hs) = Flat(bs) \o Rest(hs)
           /\ MarksOf(Append(bs, b), hs) = Append(Starts(bs), Len(Flat(bs)))
<1>1. LiveOf(Append(bs, b)) = bs /\ Append(bs, b) # <<>>
  BY LiveWaits, Added
<1>2. Starts(bs) \in Seq(Nat) /\ Len(Flat(bs)) \in Nat
  BY StartsAppended, FlatAppended, LenProperties
<1>3. Starts(bs) \o <<Len(Flat(bs))>> = Append(Starts(bs), Len(Flat(bs)))
  BY <1>2, AppendIsConcat
<1> QED
  BY <1>1, <1>3 DEF TextOf, MarksOf, Rest

LEMMA WritingText ==
    ASSUME NEW bs \in Seq(BufferSet), NEW b \in BufferSet, ~Waits(b)
    PROVE  /\ TextOf(Append(bs, b), <<>>) = Flat(bs) \o b.data
           /\ MarksOf(Append(bs, b), <<>>) = Append(Starts(bs), Len(Flat(bs)))
<1>1. LiveOf(Append(bs, b)) = Append(bs, b) /\ Append(bs, b) # <<>>
  BY LiveWrites, Added
<1>2. /\ Flat(bs) \in Seq(Chars) /\ Flat(Append(bs, b)) = Flat(bs) \o b.data
      /\ b.data \in Seq(Chars)
  BY FlatAppended DEF BufferSet
<1>3. (Flat(bs) \o b.data) \o <<>> = Flat(bs) \o b.data
  BY <1>2, ConcatProperties, ConcatEmptySeq
<1>4. Starts(Append(bs, b)) = Append(Starts(bs), Len(Flat(bs))) /\ Starts(Append(bs, b)) \in Seq(Nat)
  BY StartsAppended, Added
<1>5. Starts(Append(bs, b)) \o <<>> = Starts(Append(bs, b))
  BY <1>4, ConcatEmptySeq
<1> QED
  BY <1>1, <1>2, <1>3, <1>4, <1>5 DEF TextOf, MarksOf

LEMMA HeldText ==
    ASSUME NEW bs \in Seq(BufferSet), NEW b \in BufferSet, ~Waits(b),
           NEW hs \in Seq(StringSet), hs # <<>>
    PROVE  /\ TextOf(Append(bs, b), hs) = (Flat(bs) \o b.data) \o Rest(hs)
           /\ MarksOf(Append(bs, b), hs) = Append(Append(Starts(bs), Len(Flat(bs))), Len(Flat(bs) \o b.data))
<1>1. LiveOf(Append(bs, b)) = Append(bs, b) /\ Append(bs, b) # <<>>
  BY LiveWrites, Added
<1>2. /\ Flat(Append(bs, b)) = Flat(bs) \o b.data
      /\ Flat(Append(bs, b)) \in Seq(Chars)
  BY FlatAppended, Added
<1>3. Starts(Append(bs, b)) = Append(Starts(bs), Len(Flat(bs))) /\ Starts(Append(bs, b)) \in Seq(Nat)
  BY StartsAppended, Added
<1>4. Len(Flat(Append(bs, b))) \in Nat
  BY <1>2, LenProperties
<1>5. Starts(Append(bs, b)) \o <<Len(Flat(Append(bs, b)))>>
      = Append(Starts(Append(bs, b)), Len(Flat(Append(bs, b))))
  BY <1>3, <1>4, AppendIsConcat
<1> QED
  BY <1>1, <1>2, <1>3, <1>5 DEF TextOf, MarksOf, Rest

(* A buffer's text may have grown, moved or changed its capacity: the text *)
(* of the stack only knows what the buffer holds and whether it waits.     *)
LEMMA SameText ==
    ASSUME NEW bs \in Seq(BufferSet), NEW b \in BufferSet, NEW c \in BufferSet,
           Waits(b) <=> Waits(c), Waits(b) \/ b.data = c.data,
           NEW hs \in Seq(StringSet), Waits(b) => hs # <<>>
    PROVE  /\ TextOf(Append(bs, c), hs) = TextOf(Append(bs, b), hs)
           /\ MarksOf(Append(bs, c), hs) = MarksOf(Append(bs, b), hs)
<1>1. CASE Waits(b)
  BY <1>1, WaitingText
<1>2. CASE ~Waits(b) /\ hs # <<>>
  BY <1>2, HeldText
<1>3. CASE ~Waits(b) /\ hs = <<>>
  BY <1>3, WritingText
<1> QED
  BY <1>1, <1>2, <1>3

LEMMA StackFacts ==
    ASSUME IInv, buffers # <<>>
    PROVE  /\ Below \in Seq(BufferSet) /\ Top \in BufferSet /\ buffers = Append(Below, Top)
           /\ held \in Seq(StringSet)
           /\ Waits(Top) => held # <<>>
           /\ \A buf \in BufferSet : Set(buf) = Append(Below, buf)
<1>1. buffers \in Seq(BufferSet) /\ held \in Seq(StringSet)
  BY DEF IInv, MemoryOf, TypesOf
<1>2. Below \in Seq(BufferSet) /\ Top \in BufferSet /\ buffers = Append(Below, Top)
  BY <1>1, FrontLast DEF Below, Top
<1>3. Waits(Top) => held # <<>>
  <2>1. (Top.use = "indented" => Len(held) = 1) /\ (Top.block = NULL => Len(held) # 0)
    BY TopFacts
  <2>2. Len(<<>>) = 0
    BY EmptySeq
  <2> QED
    BY <2>1, <2>2 DEF Waits
<1>4. ASSUME NEW buf \in BufferSet PROVE Set(buf) = Append(Below, buf)
  BY <1>1, ReplacedAppends DEF Set, Below
<1> QED
  BY <1>1, <1>2, <1>3, <1>4

LEMMA BelowFacts ==
    ASSUME IInv, buffers # <<>>
    PROVE  LiveOf(Below) = Below
<1> DEFINE n == Len(buffers)
<1>1. buffers \in Seq(BufferSet)
  BY DEF IInv, MemoryOf, TypesOf
<1>2. Len(Below) = n - 1 /\ \A i \in 1..(n - 1) : Below[i] = buffers[i]
  BY <1>1, Removed DEF Below
<1>3. n \in Nat /\ n # 0 /\ \A i \in 1..n : i # n => buffers[i].use \in Outputs /\ buffers[i].block # NULL
  BY TopFacts
<1> HIDE DEF n
<1>4. CASE Below # <<>>
  <2>1. Len(Below) \in Nat \ {0}
    BY <1>1, <1>4, StackFacts, EmptySeq
  <2>2. n - 1 \in 1..(n - 1) /\ n - 1 \in 1..n /\ n - 1 # n
    BY <1>2, <1>3, <2>1
  <2>3. Last(Below) = buffers[n - 1] /\ buffers[n - 1].use \in Outputs /\ buffers[n - 1].block # NULL
    BY <1>2, <1>3, <2>2 DEF Last
  <2>4. Last(Below).use # "indented" /\ Last(Below).block # NULL
    BY <2>3 DEF Outputs
  <2> QED
    BY <2>4 DEF LiveOf
<1>5. CASE Below = <<>>
  BY <1>5 DEF LiveOf
<1> QED
  BY <1>4, <1>5

-----------------------------------------------------------------------------
(* What is written into a buffer of its own, as far as it has been read:   *)
(* the first k characters of a text, escaped or indented.                  *)
EscapedTo(t, k)  == FlattenSeq([i \in 1..k |-> Written(t[i])])
IndentedTo(t, k) == Margin \o FlattenSeq([i \in 1..k |-> IndentedChar(t, i)])

Adding(ad) == IF ad = <<>> THEN <<>> ELSE ad[1]

(* The last buffer b, with strings hs, an append ad that is running and td *)
(* left to read.                                                           *)
Pending(b, hs, ad) == ad # <<>> /\ hs # <<>> => b.use = "indented" \/ ad[1] = Rest(hs)
Indents(b, hs, ad, td) ==
    b.use = "indented" =>
        \E k \in 0..Len(hs[1].data) : /\ td = SubSeq(hs[1].data, k + 1, Len(hs[1].data))
                                      /\ b.data \o Adding(ad) = IndentedTo(hs[1].data, k)
Escapes(b, hs, ad, td) ==
    b.use = "escape" /\ b.block # NULL =>
        /\ hs = <<>>
        /\ \E k \in 0..Len(b.of) : /\ td = SubSeq(b.of, k + 1, Len(b.of))
                                   /\ b.data \o Adding(ad) = EscapedTo(b.of, k)
Writes(b, hs, ad, td) == Pending(b, hs, ad) /\ Indents(b, hs, ad, td) /\ Escapes(b, hs, ad, td)

WasEscaped(hs) == \A i \in 1..Len(hs) :
    hs[i].use = "escape" => hs[i].data = EscapedTo(hs[i].of, Len(hs[i].of))

TextInv ==
    /\ IInv
    /\ WasEscaped(held)
    /\ buffers # <<>> => Writes(Top, held, adding, todo)

LEMMA EscapedMore ==
    ASSUME NEW t \in Seq(Chars), NEW k \in 0..Len(t), k # Len(t)
    PROVE  /\ EscapedTo(t, k) \in Seq(Chars) /\ Written(t[k + 1]) \in Seq(Chars)
           /\ EscapedTo(t, k + 1) = EscapedTo(t, k) \o Written(t[k + 1])
<1> DEFINE f == [i \in 1..(k + 1) |-> Written(t[i])]
<1>1. k \in Nat /\ k + 1 \in 1..Len(t) /\ \A i \in 1..(k + 1) : i \in 1..Len(t)
  BY LenProperties
<1>2. \A i \in 1..(k + 1) : Written(t[i]) \in Seq(Chars)
  BY <1>1, ElementOfSeq, WrittenFacts
<1>3. f \in [1..(k + 1) -> Seq(Chars)] /\ f[k + 1] = Written(t[k + 1])
  BY <1>1, <1>2
<1>4. [i \in 1..k |-> f[i]] = [i \in 1..k |-> Written(t[i])]
  BY <1>1
<1>5. EscapedTo(t, k + 1) = FlattenSeq(f)
  BY DEF EscapedTo
<1> HIDE DEF f
<1>6. /\ FlattenSeq([i \in 1..k |-> f[i]]) \in Seq(Chars)
      /\ FlattenSeq(f) = FlattenSeq([i \in 1..k |-> f[i]]) \o f[k + 1]
  BY <1>1, <1>3, FlattenMore
<1>7. Written(t[k + 1]) \in Seq(Chars)
  BY <1>1, <1>2
<1> QED
  BY <1>3, <1>4, <1>5, <1>6, <1>7 DEF EscapedTo

LEMMA EscapedNone == ASSUME NEW t PROVE EscapedTo(t, 0) = <<>>
<1>1. [i \in 1..0 |-> Written(t[i])] = <<>>
  OBVIOUS
<1> QED
  BY <1>1, FlattenEmpty DEF EscapedTo

LEMMA IndentedCharTyped ==
    ASSUME NEW t \in Seq(Chars), NEW i \in 1..Len(t)
    PROVE  IndentedChar(t, i) \in Seq(Chars)
<1>1. t[i] \in Chars /\ Margin \in Seq(Chars)
  BY ElementOfSeq, TextsAssumption
<1>2. <<t[i]>> \in Seq(Chars) /\ <<>> \in Seq(Chars)
  BY <1>1
<1> QED
  BY <1>1, <1>2, ConcatProperties DEF IndentedChar

LEMMA IndentedMore ==
    ASSUME NEW t \in Seq(Chars), NEW k \in 0..Len(t), k # Len(t)
    PROVE  /\ IndentedTo(t, k) \in Seq(Chars) /\ IndentedChar(t, k + 1) \in Seq(Chars)
           /\ IndentedTo(t, k + 1) = IndentedTo(t, k) \o IndentedChar(t, k + 1)
<1> DEFINE f == [i \in 1..(k + 1) |-> IndentedChar(t, i)]
           q == FlattenSeq([i \in 1..k |-> f[i]])
<1>1. k \in Nat /\ k + 1 \in 1..Len(t) /\ \A i \in 1..(k + 1) : i \in 1..Len(t)
  BY LenProperties
<1>2. \A i \in 1..(k + 1) : IndentedChar(t, i) \in Seq(Chars)
  BY <1>1, IndentedCharTyped
<1>3. f \in [1..(k + 1) -> Seq(Chars)] /\ f[k + 1] = IndentedChar(t, k + 1)
  BY <1>1, <1>2
<1>4. [i \in 1..k |-> f[i]] = [i \in 1..k |-> IndentedChar(t, i)]
  BY <1>1
<1>5. IndentedTo(t, k + 1) = Margin \o FlattenSeq(f)
  BY DEF IndentedTo
<1>6. IndentedTo(t, k) = Margin \o q
  BY <1>4 DEF IndentedTo
<1> HIDE DEF f
<1>7. q \in Seq(Chars) /\ FlattenSeq(f) = q \o f[k + 1]
  BY <1>1, <1>3, FlattenMore
<1>8. IndentedChar(t, k + 1) \in Seq(Chars) /\ Margin \in Seq(Chars)
  BY <1>1, <1>2, TextsAssumption
<1> HIDE DEF q
<1>9. /\ Margin \o (q \o IndentedChar(t, k + 1)) = (Margin \o q) \o IndentedChar(t, k + 1)
      /\ Margin \o q \in Seq(Chars)
  <2>1. ASSUME NEW e \in Seq(Chars) PROVE Margin \o (q \o e) = (Margin \o q) \o e
    <3>1. ThreeTexts(Chars, Margin, q, e)
      BY <1>7, <1>8 DEF ThreeTexts
    <3>2. EitherOrder(Margin, q, e)
      BY <3>1, Associates
    <3> QED
      BY <3>2 DEF EitherOrder
  <2>2. Margin \o q \in Seq(Chars)
    BY <1>7, <1>8, ConcatProperties
  <2> QED
    BY <1>8, <2>1, <2>2
<1> QED
  BY <1>3, <1>5, <1>6, <1>7, <1>8, <1>9

LEMMA IndentedNone == ASSUME NEW t PROVE IndentedTo(t, 0) = Margin
<1>1. [i \in 1..0 |-> IndentedChar(t, i)] = <<>>
  OBVIOUS
<1>2. Margin \o <<>> = Margin
  BY TextsAssumption, ConcatEmptySeq
<1> QED
  BY <1>1, <1>2, FlattenEmpty DEF IndentedTo

(* What is left of a text after its first k characters: the next of them,  *)
(* and all but that one.                                                   *)
LEMMA LeftOver ==
    ASSUME NEW t \in Seq(Chars), NEW k \in 0..Len(t), NEW u, u = SubSeq(t, k + 1, Len(t))
    PROVE  /\ u = <<>> <=> k = Len(t)
           /\ u # <<>> => /\ Head(u) = t[k + 1] /\ u[1] = t[k + 1] /\ Len(u) = Len(t) - k
                          /\ Tail(u) = SubSeq(t, (k + 1) + 1, Len(t))
                          /\ k + 1 \in 0..Len(t)
<1>1. Len(t) \in Nat /\ k \in Nat
  BY LenProperties
<1>2. CASE k = Len(t)
  BY <1>1, <1>2, SubSeqEmpty
<1>3. CASE k # Len(t)
  <2>1. k + 1 \in 1..Len(t) /\ Len(t) \in (k + 1)..Len(t)
    BY <1>1, <1>3
  <2>2. Head(u) = t[k + 1] /\ Tail(u) = SubSeq(t, (k + 1) + 1, Len(t))
    BY <2>1, HeadTailOfSubSeq
  <2>3. u \in Seq(Chars) /\ Len(u) = Len(t) - k
    <3>1. \A i \in (k + 1)..Len(t) : t[i] \in Chars
      BY <1>1, ElementOfSeq
    <3>2. k + 1 \in Int /\ Len(t) \in Int
      BY <1>1
    <3>3. u \in Seq(Chars) /\ Len(u) = IF k + 1 <= Len(t) THEN Len(t) - (k + 1) + 1 ELSE 0
      BY <3>1, <3>2, SubSeqProperties
    <3> QED
      BY <1>1, <2>1, <3>3
  <2>4. Len(u) # 0
    <3>1. Len(t) - k # 0 /\ k + 1 \in 0..Len(t)
      BY <1>1, <1>3
    <3> QED
      BY <2>3, <3>1
  <2>5. u # <<>>
    BY <2>4, EmptySeq
  <2>6. Head(u) = u[1]
    BY <2>3, <2>5
  <2>7. k + 1 \in 0..Len(t)
    BY <1>1, <1>3
  <2> QED
    BY <1>3, <2>2, <2>3, <2>5, <2>6, <2>7
<1> QED
  BY <1>2, <1>3

(* The two parts of a text.                                                *)
LEMMA TextParts ==
    ASSUME NEW S, NEW a \in Seq(S), NEW b \in Seq(S)
    PROVE  /\ SubSeq(a \o b, 1, Len(a)) = a
           /\ SubSeq(a \o b, Len(a) + 1, Len(a \o b)) = b
           /\ IsPrefix(a, a \o b)
<1> DEFINE c == a \o b
           m == Len(a)
           n == Len(b)
<1>1. c \in Seq(S) /\ Len(c) = m + n /\ \A i \in 1..(m + n) : c[i] = IF i <= m THEN a[i] ELSE b[i - m]
  BY ConcatProperties
<1>2. m \in Nat /\ n \in Nat
  OBVIOUS
<1>3. \A i \in 1..(m + n) : c[i] \in S
  <2> HIDE DEF c
  <2> QED
    BY <1>1, ElementOfSeq
<1> HIDE DEF c
<1> DEFINE u == SubSeq(c, 1, m)
           v == SubSeq(c, m + 1, m + n)
<1>4. u = a
  <2>1. u \in Seq(S) /\ Len(u) = (IF 1 <= m THEN m - 1 + 1 ELSE 0) /\ \A i \in 1..(m - 1 + 1) : u[i] = c[1 + i - 1]
    <3>1. \A i \in 1..m : c[i] \in S
      <4> HIDE DEF m, n
      <4> QED
        BY <1>2, <1>3
    <3>2. 1 \in Int /\ m \in Int
      BY <1>2
    <3> HIDE DEF m
    <3> QED
      BY <3>1, <3>2, SubSeqProperties
  <2> HIDE DEF u
  <2>2. Len(u) = m /\ \A i \in 1..m : u[i] = a[i]
    <3> HIDE DEF m, n
    <3> QED
      BY <1>1, <1>2, <2>1
  <2> QED
    BY <2>1, <2>2, SeqEqual
<1>5. v = b
  <2>1. v \in Seq(S) /\ Len(v) = (IF m + 1 <= m + n THEN (m + n) - (m + 1) + 1 ELSE 0)
        /\ \A i \in 1..((m + n) - (m + 1) + 1) : v[i] = c[(m + 1) + i - 1]
    <3> HIDE DEF m, n
    <3>1. \A i \in (m + 1)..(m + n) : c[i] \in S
      BY <1>2, <1>3
    <3>2. m + 1 \in Int /\ m + n \in Int
      BY <1>2
    <3> DEFINE x == m + 1
               y == m + n
    <3> HIDE DEF x, y
    <3>3. SubSeq(c, x, y) \in Seq(S) /\ Len(SubSeq(c, x, y)) = (IF x <= y THEN y - x + 1 ELSE 0)
          /\ \A i \in 1..(y - x + 1) : SubSeq(c, x, y)[i] = c[x + i - 1]
      BY <3>1, <3>2, SubSeqProperties DEF x, y
    <3> QED
      BY <3>3 DEF x, y
  <2> HIDE DEF v
  <2>2. Len(v) = n /\ \A i \in 1..n : v[i] = b[i]
    <3> HIDE DEF m, n
    <3>1. Len(v) = n /\ \A i \in 1..n : v[i] = c[m + i]
      BY <1>2, <2>1
    <3>2. \A i \in 1..n : c[m + i] = b[i]
      <4> TAKE i \in 1..n
      <4>1. m + i \in 1..(m + n) /\ ~(m + i <= m) /\ (m + i) - m = i
        BY <1>2
      <4> QED
        BY <1>1, <4>1
    <3> QED
      BY <3>1, <3>2
  <2> QED
    BY <2>1, <2>2, SeqEqual
<1>6. IsPrefix(a, c)
  <2>1. SubSeq(a, 1, Len(a)) = a
    BY SubSeqFull
  <2> QED
    BY <1>1, <1>2, <1>4, <2>1 DEF IsPrefix
<1> QED
  BY <1>1, <1>4, <1>5, <1>6 DEF c

LEMMA ThreeParts ==
    ASSUME NEW S, NEW a \in Seq(S), NEW b \in Seq(S), NEW c \in Seq(S)
    PROVE  a \o (b \o c) = (a \o b) \o c
<1>1. ThreeTexts(S, a, b, c)
  BY DEF ThreeTexts
<1>2. EitherOrder(a, b, c)
  BY <1>1, Associates
<1> QED
  BY <1>2 DEF EitherOrder

-----------------------------------------------------------------------------
(* The steps: each keeps the invariant and is a step of the promise.       *)
Promised == [Promise!Next]_<<AllText, AllMarks>>

LEMMA NextTop ==
    ASSUME NEW bs \in Seq(BufferSet), NEW b \in BufferSet, buffers' = Append(bs, b)
    PROVE  Top' = b
BY FrontAppended DEF Top, Last

LEMMA Unmoved ==
    ASSUME TextOf(buffers', held') = TextOf(buffers, held),
           MarksOf(buffers', held') = MarksOf(buffers, held)
    PROVE  Promised
BY DEF Promised, AllText, AllMarks

LEMMA OpensPart ==
    ASSUME AllText' = AllText, AllMarks' = Append(AllMarks, Len(AllText))
    PROVE  Promised
BY DEF Promised, Promise!Next, Promise!Open

LEMMA WritesMore ==
    ASSUME IsPrefix(AllText, AllText'), AllMarks' = AllMarks
    PROVE  Promised
BY DEF Promised, Promise!Next, Promise!Write, IsPrefix, Promise!IsPrefix

(* The last mark goes; and the text after it, or none, or it is indented.  *)
LEMMA ClosesPart ==
    ASSUME NEW m \in Seq(Nat), NEW k \in Nat, AllMarks = Append(m, k), AllMarks' = m,
           \/ AllText' = AllText
           \/ AllText' = SubSeq(AllText, 1, k)
    PROVE  Promised
<1>1. AllMarks # <<>> /\ Front(AllMarks) = m /\ Last(AllMarks) = k
  BY FrontAppended
<1>2. CASE AllText' = AllText
  BY <1>1, <1>2 DEF Promised, Promise!Next, Promise!Close, Promise!Front, Front
<1>3. CASE AllText' = SubSeq(AllText, 1, k)
  BY <1>1, <1>3 DEF Promised, Promise!Next, Promise!GiveUp, Promise!Front, Front, Promise!Last, Last,
     Promise!Prefix
<1> QED
  BY <1>2, <1>3

LEMMA ShiftsPart ==
    ASSUME NEW m \in Seq(Nat), NEW k \in Nat, AllMarks = Append(m, k), AllMarks' = AllMarks,
           AllText' = SubSeq(AllText, 1, k) \o Indented(SubSeq(AllText, k + 1, Len(AllText)))
    PROVE  Promised
<1>1. AllMarks # <<>> /\ Last(AllMarks) = k
  BY FrontAppended
<1> QED
  BY <1>1 DEF Promised, Promise!Next, Promise!Shift, Promise!Last, Last, Promise!Prefix, Promise!Part

LEMMA GrowText ==
    ASSUME TextInv, Grow, IInv'
    PROVE  TextInv' /\ Promised
<1> DEFINE buf == [Top EXCEPT !.cap = 2 * @]
<1>1. IInv /\ buffers # <<>> /\ UNCHANGED <<held, adding, todo>> /\ buffers' = Set(buf)
  BY DEF Grow, TextInv, IInv
<1>2. /\ Below \in Seq(BufferSet) /\ Top \in BufferSet /\ buffers = Append(Below, Top)
      /\ held \in Seq(StringSet) /\ (Waits(Top) => held # <<>>)
  BY <1>1, StackFacts
<1>3. /\ buf \in BufferSet /\ buf.use = Top.use /\ buf.of = Top.of /\ buf.block = Top.block
      /\ buf.data = Top.data
  <2>1. Top.cap \in Nat /\ 2 * Top.cap \in Nat
    BY <1>2 DEF BufferSet
  <2> DEFINE c == 2 * Top.cap
  <2>2. buf = [Top EXCEPT !.cap = c]
    OBVIOUS
  <2> HIDE DEF c, buf
  <2> QED
    BY <1>2, <2>1, <2>2 DEF BufferSet, c
<1> HIDE DEF buf
<1>4. buffers' = Append(Below, buf)
  BY <1>1, <1>3, StackFacts
<1>5. Top' = buf
  BY <1>2, <1>3, <1>4, NextTop
<1>6. Writes(buf, held, adding, todo)
  BY <1>1, <1>3 DEF TextInv, Writes, Pending, Indents, Escapes
<1>7. TextInv'
  BY <1>1, <1>5, <1>6 DEF TextInv
<1>8. Waits(Top) <=> Waits(buf)
  BY <1>3 DEF Waits
<1>9. Promised
  BY <1>1, <1>2, <1>3, <1>4, <1>8, SameText, Unmoved
<1> QED
  BY <1>7, <1>9

LEMMA CopyText ==
    ASSUME TextInv, Copy, IInv'
    PROVE  TextInv' /\ Promised
<1> DEFINE a == adding[1]
           buf == [Top EXCEPT !.data = @ \o a]
<1>1. /\ IInv /\ adding # <<>> /\ buffers # <<>> /\ Top.block # NULL /\ adding' = <<>> /\ todo' = todo
      /\ buffers' = Set(buf) /\ held' = IF Top.use = "indented" THEN held ELSE <<>>
  BY DEF Copy, TextInv, IInv, Writable
<1>2. /\ Below \in Seq(BufferSet) /\ Top \in BufferSet /\ buffers = Append(Below, Top)
      /\ held \in Seq(StringSet) /\ (Waits(Top) => held # <<>>)
  BY <1>1, StackFacts
<1>3. a \in Seq(Chars) /\ Top.data \in Seq(Chars) /\ Top.data \o a \in Seq(Chars)
  <2>1. adding \in Seq(Seq(Chars)) /\ 1 \in 1..Len(adding)
    BY <1>1, EmptySeq DEF IInv
  <2>2. a \in Seq(Chars)
    BY <2>1, ElementOfSeq
  <2> QED
    BY <1>2, <2>2, ConcatProperties DEF BufferSet
<1>4. /\ buf \in BufferSet /\ buf.use = Top.use /\ buf.of = Top.of /\ buf.block = Top.block
      /\ buf.data = Top.data \o a
  BY <1>2, <1>3 DEF BufferSet
<1>5. Writes(Top, held, adding, todo) /\ Adding(adding) = a /\ Adding(<<>>) = <<>>
  BY <1>1 DEF TextInv, Adding
<1> HIDE DEF buf, a
<1>6. buffers' = Append(Below, buf)
  BY <1>1, <1>4, StackFacts
<1>7. Top' = buf
  BY <1>2, <1>4, <1>6, NextTop
<1>8. buf.data \o <<>> = Top.data \o Adding(adding)
  BY <1>3, <1>4, <1>5, ConcatEmptySeq
<1>9. CASE Top.use = "indented"
  <2>1. Writes(buf, held, <<>>, todo)
    BY <1>4, <1>5, <1>8, <1>9 DEF Writes, Pending, Indents, Escapes
  <2>2. TextInv'
    BY <1>1, <1>7, <1>9, <2>1 DEF TextInv
  <2>3. Waits(Top) /\ Waits(buf)
    BY <1>4, <1>9 DEF Waits
  <2>4. Promised
    BY <1>1, <1>2, <1>4, <1>6, <1>9, <2>3, SameText, Unmoved
  <2> QED
    BY <2>2, <2>4
<1>10. CASE Top.use # "indented"
  <2>1. Writes(buf, <<>>, <<>>, todo)
    BY <1>4, <1>5, <1>8, <1>10 DEF Writes, Pending, Indents, Escapes
  <2>2. TextInv'
    <3>1. WasEscaped(<<>>)
      BY EmptySeq DEF WasEscaped
    <3> QED
      BY <1>1, <1>7, <1>10, <2>1, <3>1 DEF TextInv
  <2>3. ~Waits(Top) /\ ~Waits(buf)
    BY <1>1, <1>4, <1>10 DEF Waits
  <2>4. AllText' = Flat(Below) \o (Top.data \o a) /\ AllMarks' = Append(Starts(Below), Len(Flat(Below)))
    BY <1>1, <1>2, <1>4, <1>6, <1>10, <2>3, WritingText DEF AllText, AllMarks
  <2>5. Flat(Below) \in Seq(Chars) /\ Starts(Below) \in Seq(Nat) /\ Len(Flat(Below)) \in Nat
    BY <1>2, FlatAppended, StartsAppended, LenProperties
  <2>6. Flat(Below) \o (Top.data \o a) = (Flat(Below) \o Top.data) \o a
    <3> DEFINE x == Flat(Below)
               y == Top.data
    <3> HIDE DEF x, y
    <3>1. x \in Seq(Chars) /\ y \in Seq(Chars) /\ a \in Seq(Chars)
      BY <1>3, <2>5 DEF x, y
    <3>2. x \o (y \o a) = (x \o y) \o a
      BY <3>1, ThreeParts
    <3> QED
      BY <3>2 DEF x, y
  <2>7. CASE held = <<>>
    <3>1. AllText = Flat(Below) \o Top.data /\ AllMarks = Append(Starts(Below), Len(Flat(Below)))
      BY <1>2, <2>3, <2>7, WritingText DEF AllText, AllMarks
    <3>2. Flat(Below) \o Top.data \in Seq(Chars)
      BY <1>3, <2>5, ConcatProperties
    <3>3. IsPrefix(AllText, AllText')
      <4> DEFINE x == Flat(Below) \o Top.data
      <4>1. AllText = x /\ AllText' = x \o a
        BY <2>4, <2>6, <3>1
      <4> HIDE DEF x
      <4>2. x \in Seq(Chars)
        BY <3>2 DEF x
      <4>3. IsPrefix(x, x \o a)
        BY <1>3, <4>2, TextParts
      <4> QED
        BY <4>1, <4>3
    <3> QED
      BY <2>2, <2>4, <3>1, <3>3, WritesMore
  <2>8. CASE held # <<>>
    <3>1. Rest(held) = a
      BY <1>1, <1>5, <1>10, <2>8 DEF Writes, Pending, a
    <3>2. /\ AllText = (Flat(Below) \o Top.data) \o a
          /\ AllMarks = Append(Append(Starts(Below), Len(Flat(Below))), Len(Flat(Below) \o Top.data))
      BY <1>2, <2>3, <2>8, <3>1, HeldText DEF AllText, AllMarks
    <3>3. Len(Flat(Below) \o Top.data) \in Nat /\ Append(Starts(Below), Len(Flat(Below))) \in Seq(Nat)
      BY <1>3, <2>5, ConcatProperties, LenProperties, Added
    <3>4. AllText' = AllText
      BY <2>4, <2>6, <3>2
    <3> QED
      BY <2>2, <2>4, <3>2, <3>3, <3>4, ClosesPart
  <2> QED
    BY <2>7, <2>8
<1> QED
  BY <1>9, <1>10

(* Steps that only choose what is added next.                              *)
LEMMA TakeText ==
    ASSUME TextInv, IInv', UNCHANGED <<buffers, held>>, Writes(Top, held, adding', todo')
    PROVE  TextInv' /\ Promised
<1>1. Top' = Top
  BY DEF Top
<1> QED
  BY <1>1, Unmoved DEF TextInv

LEMMA WriteTextText ==
    ASSUME TextInv, WriteText, IInv'
    PROVE  TextInv' /\ Promised
<1>1. UNCHANGED <<buffers, held>> /\ held = <<>> /\ Top.use \notin {"indented", "escape"}
  BY DEF WriteText, InUse, Outputs
<1>2. Writes(Top, held, adding', todo')
  BY <1>1 DEF Writes, Pending, Indents, Escapes
<1> QED
  BY <1>1, <1>2, TakeText

LEMMA AppendHeldText ==
    ASSUME TextInv, AppendHeld, IInv'
    PROVE  TextInv' /\ Promised
<1>1. /\ UNCHANGED <<buffers, held>> /\ held # <<>> /\ Top.use \notin {"indented", "escape"}
      /\ adding' = <<Last(held).data>>
  BY DEF AppendHeld, InUse, Outputs
<1>2. adding'[1] = Rest(held)
  BY <1>1 DEF Rest
<1>3. Writes(Top, held, adding', todo')
  BY <1>1, <1>2 DEF Writes, Pending, Indents, Escapes
<1> QED
  BY <1>1, <1>3, TakeText

LEMMA EscapeCharText ==
    ASSUME TextInv, EscapeChar, IInv'
    PROVE  TextInv' /\ Promised
<1>1. /\ UNCHANGED <<buffers, held>> /\ Top.use = "escape" /\ Top.block # NULL /\ adding = <<>>
      /\ buffers # <<>> /\ todo # <<>> /\ adding' = <<Written(Head(todo))>> /\ todo' = Tail(todo)
  BY DEF EscapeChar, InUse, Writable
<1> DEFINE t == Top.of
<1>2. PICK k \in 0..Len(t) : /\ held = <<>> /\ todo = SubSeq(t, k + 1, Len(t))
                             /\ Top.data \o Adding(adding) = EscapedTo(t, k)
  BY <1>1 DEF TextInv, Writes, Escapes
<1>3. t \in Seq(Chars) /\ Top.data \in Seq(Chars)
  BY <1>1, TopFacts DEF TextInv, BufferSet
<1> HIDE DEF t
<1>4. k # Len(t) /\ Head(todo) = t[k + 1] /\ Tail(todo) = SubSeq(t, (k + 1) + 1, Len(t)) /\ k + 1 \in 0..Len(t)
  BY <1>1, <1>2, <1>3, LeftOver
<1>5. EscapedTo(t, k + 1) = EscapedTo(t, k) \o Written(t[k + 1])
  BY <1>3, <1>4, EscapedMore
<1>6. Top.data = EscapedTo(t, k)
  BY <1>1, <1>2, <1>3, ConcatEmptySeq DEF Adding
<1>7. Adding(adding') = Written(t[k + 1])
  BY <1>1, <1>4, EmptySeq DEF Adding
<1>8. Top.data \o Adding(adding') = EscapedTo(t, k + 1)
  BY <1>5, <1>6, <1>7
<1>9. Escapes(Top, held, adding', todo')
  BY <1>1, <1>2, <1>4, <1>8 DEF Escapes, t
<1>10. Writes(Top, held, adding', todo')
  BY <1>1, <1>2, <1>9 DEF Writes, Pending, Indents
<1> QED
  BY <1>1, <1>10, TakeText

LEMMA HeldFacts ==
    ASSUME IInv, Len(held) = 1
    PROVE  /\ held # <<>> /\ held[1].data \in Seq(Chars) /\ Rest(held) = held[1].data
           /\ held[1] \in StringSet
<1>1. held \in Seq(StringSet) /\ 1 \in 1..Len(held)
  BY DEF IInv, MemoryOf, TypesOf
<1>2. held[1] \in StringSet /\ held # <<>>
  BY <1>1, ElementOfSeq, EmptySeq
<1> QED
  BY <1>2 DEF StringSet, Rest, Last

LEMMA IndentCharText ==
    ASSUME TextInv, IndentChar, IInv'
    PROVE  TextInv' /\ Promised
<1>1. /\ UNCHANGED <<buffers, held>> /\ Top.use = "indented" /\ adding = <<>>
      /\ buffers # <<>> /\ todo # <<>> /\ adding' = <<IndentedChar(todo, 1)>> /\ todo' = Tail(todo)
  BY DEF IndentChar, InUse
<1> DEFINE t == held[1].data
<1>2. PICK k \in 0..Len(t) : /\ todo = SubSeq(t, k + 1, Len(t))
                             /\ Top.data \o Adding(adding) = IndentedTo(t, k)
  BY <1>1 DEF TextInv, Writes, Indents
<1>3. t \in Seq(Chars) /\ Top.data \in Seq(Chars)
  <2>1. Len(held) = 1 /\ Top \in BufferSet
    BY <1>1, TopFacts DEF TextInv
  <2> QED
    BY <2>1, HeldFacts DEF TextInv, BufferSet
<1> HIDE DEF t
<1>4. /\ k # Len(t) /\ todo[1] = t[k + 1] /\ Len(todo) = Len(t) - k
      /\ Tail(todo) = SubSeq(t, (k + 1) + 1, Len(t)) /\ k + 1 \in 0..Len(t)
  BY <1>1, <1>2, <1>3, LeftOver
<1>5. IndentedTo(t, k + 1) = IndentedTo(t, k) \o IndentedChar(t, k + 1)
  BY <1>3, <1>4, IndentedMore
<1>6. Top.data = IndentedTo(t, k)
  BY <1>1, <1>2, <1>3, ConcatEmptySeq DEF Adding
<1>7. IndentedChar(todo, 1) = IndentedChar(t, k + 1)
  <2>1. Len(t) \in Nat
    BY <1>3, LenProperties
  <2>2. 1 < Len(todo) <=> k + 1 < Len(t)
    BY <1>4, <2>1
  <2> QED
    BY <1>4, <2>2 DEF IndentedChar
<1>8. Top.data \o Adding(adding') = IndentedTo(t, k + 1)
  <2>1. Adding(adding') = IndentedChar(t, k + 1)
    BY <1>1, <1>7, EmptySeq DEF Adding
  <2> QED
    BY <1>5, <1>6, <2>1
<1>9. Indents(Top, held, adding', todo')
  BY <1>1, <1>4, <1>8 DEF Indents, t
<1>10. Writes(Top, held, adding', todo')
  BY <1>1, <1>9 DEF Writes, Pending, Escapes
<1> QED
  BY <1>1, <1>10, TakeText

(* A part begins.                                                          *)
LEMMA BeginsText ==
    ASSUME TextInv, IInv', InUse(Outputs), held = <<>>, UNCHANGED <<held, adding>>,
           NEW use \in {"partial", "block", "escape"}, NEW of \in Seq(Chars), Enter(use, of),
           use = "escape" => todo' = of
    PROVE  TextInv' /\ Promised
<1>1. IInv /\ buffers # <<>> /\ Top.use \in Outputs /\ Top.block # NULL /\ adding = <<>>
  BY OutputFacts DEF TextInv, Writable, InUse
<1>2. /\ Below \in Seq(BufferSet) /\ Top \in BufferSet /\ buffers = Append(Below, Top)
      /\ buffers \in Seq(BufferSet)
  BY <1>1, StackFacts DEF IInv, MemoryOf, TypesOf
<1> DEFINE b == Buffer(use, of, Malloc)
<1>3. buffers' = Append(buffers, b)
  BY DEF Enter
<1>4. b.data = <<>> /\ b.use = use /\ b.of = of /\ b.block = Malloc
  BY DEF Buffer
<1>5. b \in BufferSet /\ b.block # NULL
  <2>1. Malloc \in Block
    BY MallocFacts DEF Enter
  <2> QED
    BY <2>1, BlockAssumption, CapAssumption, EmptySeq DEF Buffer, BufferSet, Uses
<1> HIDE DEF b
<1>6. Top' = b
  BY <1>2, <1>3, <1>5, NextTop
<1>7. Writes(b, <<>>, <<>>, todo')
  <2>1. ASSUME use = "escape"
        PROVE  /\ todo' = SubSeq(of, 0 + 1, Len(of)) /\ 0 \in 0..Len(of)
               /\ <<>> \o Adding(<<>>) = EscapedTo(of, 0)
    <3>1. SubSeq(of, 1, Len(of)) = of /\ Len(of) \in Nat
      BY SubSeqFull, LenProperties
    <3>2. EscapedTo(of, 0) = <<>> /\ <<>> \o <<>> = <<>>
      BY EscapedNone, ConcatEmptySeq, EmptySeq
    <3> QED
      BY <2>1, <3>1, <3>2 DEF Adding
  <2> QED
    BY <1>4, <2>1 DEF Writes, Pending, Indents, Escapes
<1>8. TextInv'
  BY <1>1, <1>6, <1>7 DEF TextInv
<1>9. ~Waits(Top) /\ ~Waits(b)
  BY <1>1, <1>4, <1>5 DEF Waits, Outputs
<1>10. /\ AllText = Flat(Below) \o Top.data
       /\ AllMarks = Append(Starts(Below), Len(Flat(Below)))
  BY <1>2, <1>9, WritingText DEF AllText, AllMarks
<1>11. /\ AllText' = Flat(buffers) \o <<>>
       /\ AllMarks' = Append(Starts(buffers), Len(Flat(buffers)))
  BY <1>2, <1>3, <1>4, <1>5, <1>9, WritingText DEF AllText, AllMarks
<1>12. /\ Flat(buffers) = Flat(Below) \o Top.data /\ Flat(buffers) \in Seq(Chars)
       /\ Starts(buffers) = Append(Starts(Below), Len(Flat(Below)))
  BY <1>2, FlatAppended, StartsAppended
<1>13. Flat(buffers) \o <<>> = Flat(buffers)
  BY <1>12, ConcatEmptySeq
<1> QED
  BY <1>8, <1>10, <1>11, <1>12, <1>13, OpensPart

LEMMA BeginText ==
    ASSUME TextInv, Begin, IInv'
    PROVE  TextInv' /\ Promised
<1>1. PICK use \in {"partial", "block"} : Enter(use, <<>>)
  BY DEF Begin
<1>2. use \in {"partial", "block", "escape"} /\ use # "escape" /\ <<>> \in Seq(Chars)
  BY Empty
<1>3. InUse(Outputs) /\ held = <<>> /\ UNCHANGED <<held, adding>>
  BY DEF Begin
<1> QED
  BY <1>1, <1>2, <1>3, BeginsText

LEMMA BeginEscapeText ==
    ASSUME TextInv, BeginEscape, IInv'
    PROVE  TextInv' /\ Promised
<1>1. PICK t \in Texts : Enter("escape", t) /\ todo' = t
  BY DEF BeginEscape
<1>2. t \in Seq(Chars) /\ "escape" \in {"partial", "block", "escape"}
  BY TextsAssumption
<1>3. InUse(Outputs) /\ held = <<>> /\ UNCHANGED <<held, adding>>
  BY DEF BeginEscape
<1> QED
  BY <1>1, <1>2, <1>3, BeginsText

LEMMA BeginIndentText ==
    ASSUME TextInv, BeginIndent, IInv'
    PROVE  TextInv' /\ Promised
<1>1. /\ IInv /\ buffers # <<>> /\ Top.use \in Outputs /\ Top.block # NULL /\ Len(held) = 1
      /\ held' = held /\ adding' = <<Margin>> /\ todo' = held[1].data /\ Enter("indented", <<>>)
  BY DEF BeginIndent, InUse, Writable, TextInv
<1>2. /\ Below \in Seq(BufferSet) /\ Top \in BufferSet /\ buffers = Append(Below, Top)
      /\ buffers \in Seq(BufferSet) /\ held \in Seq(StringSet)
  BY <1>1, StackFacts DEF IInv, MemoryOf, TypesOf
<1> DEFINE b == Buffer("indented", <<>>, Malloc)
           t == held[1].data
<1>3. buffers' = Append(buffers, b)
  BY <1>1 DEF Enter
<1>4. b.data = <<>> /\ b.use = "indented"
  BY DEF Buffer
<1>5. b \in BufferSet
  <2>1. Malloc \in Block
    BY <1>1, MallocFacts DEF Enter
  <2> QED
    BY <2>1, CapAssumption, EmptySeq DEF Buffer, BufferSet, Uses
<1>6. held # <<>> /\ t \in Seq(Chars)
  BY <1>1, HeldFacts
<1> HIDE DEF b, t
<1>7. Top' = b
  BY <1>2, <1>3, <1>5, NextTop
<1>8. Writes(b, held, adding', todo')
  <2>1. SubSeq(t, 0 + 1, Len(t)) = t /\ 0 \in 0..Len(t)
    BY <1>6, SubSeqFull, LenProperties
  <2>2. <<>> \o Adding(adding') = IndentedTo(t, 0)
    BY <1>1, IndentedNone, TextsAssumption, ConcatEmptySeq DEF Adding
  <2>3. Indents(b, held, adding', todo')
    BY <1>1, <1>4, <2>1, <2>2 DEF Indents, t
  <2> QED
    BY <1>4, <2>3 DEF Writes, Pending, Escapes
<1>9. TextInv'
  BY <1>1, <1>7, <1>8 DEF TextInv
<1>10. ~Waits(Top) /\ Waits(b)
  BY <1>1, <1>4 DEF Waits, Outputs
<1>11. /\ AllText = (Flat(Below) \o Top.data) \o Rest(held)
       /\ AllMarks = Append(Append(Starts(Below), Len(Flat(Below))), Len(Flat(Below) \o Top.data))
  BY <1>2, <1>6, <1>10, HeldText DEF AllText, AllMarks
<1>12. /\ AllText' = Flat(buffers) \o Rest(held)
       /\ AllMarks' = Append(Starts(buffers), Len(Flat(buffers)))
  BY <1>1, <1>2, <1>3, <1>5, <1>6, <1>10, WaitingText DEF AllText, AllMarks
<1>13. /\ Flat(buffers) = Flat(Below) \o Top.data
       /\ Starts(buffers) = Append(Starts(Below), Len(Flat(Below)))
  BY <1>2, FlatAppended, StartsAppended
<1> QED
  BY <1>9, <1>11, <1>12, <1>13 DEF Promised

(* A string that was escaped is what its value is written as.              *)
LEMMA DetachText ==
    ASSUME TextInv, Detach, IInv'
    PROVE  TextInv' /\ Promised
<1> DEFINE buf == Detached(Top)
           hs  == <<String(Top)>>
<1>1. /\ IInv /\ buffers # <<>> /\ Top.use \in {"partial", "block", "escape"} /\ Top.block # NULL
      /\ adding = <<>> /\ adding' = <<>> /\ todo = <<>> /\ held = <<>>
      /\ held' = hs /\ buffers' = Set(buf)
  BY DEF Detach, InUse, Writable, TextInv
<1>2. Below \in Seq(BufferSet) /\ Top \in BufferSet /\ buffers = Append(Below, Top)
  BY <1>1, StackFacts
<1>3. buf \in BufferSet /\ buf.use = Top.use /\ buf.block = NULL
  <2>1. <<>> \in Seq(Chars) /\ 0 \in Nat
    BY EmptySeq
  <2> QED
    BY <1>2, <2>1 DEF Detached, BufferSet
<1>4. /\ String(Top) \in StringSet /\ String(Top).data = Top.data /\ String(Top).use = Top.use
      /\ String(Top).of = Top.of
  BY <1>1, <1>2 DEF String, StringSet, BufferSet
<1>5. /\ hs \in Seq(StringSet) /\ Len(hs) = 1 /\ hs[1] = String(Top) /\ hs # <<>>
      /\ Rest(hs) = Top.data
  BY <1>4, EmptySeq DEF Rest, Last
<1>6. buffers' = Append(Below, buf)
  BY <1>1, <1>3, StackFacts
<1> HIDE DEF buf, hs
<1>7. Top' = buf
  BY <1>2, <1>3, <1>6, NextTop
<1>8. Writes(buf, hs, <<>>, todo')
  BY <1>1, <1>3 DEF Writes, Pending, Indents, Escapes
<1>9. WasEscaped(hs)
  <2> SUFFICES ASSUME Top.use = "escape"
               PROVE  Top.data = EscapedTo(Top.of, Len(Top.of))
    BY <1>4, <1>5 DEF WasEscaped
  <2> DEFINE t == Top.of
  <2>1. PICK k \in 0..Len(t) : /\ todo = SubSeq(t, k + 1, Len(t))
                               /\ Top.data \o Adding(adding) = EscapedTo(t, k)
    BY <1>1 DEF TextInv, Writes, Escapes
  <2>2. t \in Seq(Chars) /\ Top.data \in Seq(Chars)
    BY <1>2 DEF BufferSet
  <2>3. k = Len(t)
    <3> HIDE DEF t
    <3> QED
      BY <1>1, <2>1, <2>2, LeftOver
  <2> QED
    BY <1>1, <2>1, <2>2, <2>3, ConcatEmptySeq DEF Adding
<1>10. TextInv'
  BY <1>1, <1>7, <1>8, <1>9 DEF TextInv
<1>11. ~Waits(Top) /\ Waits(buf)
  BY <1>1, <1>3 DEF Waits
<1>12. /\ AllText = Flat(Below) \o Top.data
       /\ AllMarks = Append(Starts(Below), Len(Flat(Below)))
  BY <1>1, <1>2, <1>11, WritingText DEF AllText, AllMarks
<1>13. /\ AllText' = Flat(Below) \o Top.data
       /\ AllMarks' = Append(Starts(Below), Len(Flat(Below)))
  BY <1>1, <1>2, <1>3, <1>5, <1>6, <1>11, WaitingText DEF AllText, AllMarks
<1> QED
  BY <1>10, <1>12, <1>13 DEF Promised

(* The buffer below is the last again.                                     *)
LEMMA UncoveredText ==
    ASSUME IInv, buffers # <<>>, Top.use # "render", buffers' = Below
    PROVE  /\ Below # <<>> /\ Top' \in BufferSet /\ Top'.use \in Outputs
           /\ \A hs \in Seq(StringSet) : hs # <<>> =>
                 /\ TextOf(Below, hs) = Flat(Below) \o Rest(hs)
                 /\ MarksOf(Below, hs) = Append(Starts(Below), Len(Flat(Below)))
<1> DEFINE n == Len(buffers)
<1>1. buffers \in Seq(BufferSet) /\ Below \in Seq(BufferSet)
  BY StackFacts DEF IInv, MemoryOf, TypesOf
<1>2. Len(Below) = n - 1 /\ \A i \in 1..(n - 1) : Below[i] = buffers[i]
  BY <1>1, Removed DEF Below
<1>3. /\ n \in Nat /\ n # 0 /\ n # 1
      /\ \A i \in 1..n : i # n => buffers[i].use \in Outputs /\ buffers[i].block # NULL
  BY TopFacts
<1> HIDE DEF n
<1>4. n - 1 \in 1..(n - 1) /\ n - 1 \in 1..n /\ n - 1 # n /\ n - 1 # 0
  BY <1>3
<1>5. Below # <<>>
  BY <1>2, <1>4, EmptySeq
<1>6. Top' = buffers[n - 1]
  BY <1>2, <1>4 DEF Top
<1>7. Top' \in BufferSet /\ Top'.use \in Outputs
  <2>1. Below[n - 1] \in BufferSet
    BY <1>1, <1>2, <1>4, ElementOfSeq
  <2> QED
    BY <1>2, <1>3, <1>4, <1>6, <2>1
<1>8. ASSUME NEW hs \in Seq(StringSet), hs # <<>>
      PROVE  /\ TextOf(Below, hs) = Flat(Below) \o Rest(hs)
             /\ MarksOf(Below, hs) = Append(Starts(Below), Len(Flat(Below)))
  <2>1. LiveOf(Below) = Below
    BY BelowFacts
  <2>2. Starts(Below) \in Seq(Nat) /\ Len(Flat(Below)) \in Nat
    BY <1>1, StartsAppended, FlatAppended, LenProperties
  <2>3. Starts(Below) \o <<Len(Flat(Below))>> = Append(Starts(Below), Len(Flat(Below)))
    BY <2>2, AppendIsConcat
  <2> QED
    BY <1>5, <1>8, <2>1, <2>3 DEF TextOf, MarksOf, Rest
<1> QED
  BY <1>5, <1>7, <1>8

LEMMA RestoreText ==
    ASSUME TextInv, Restore, IInv'
    PROVE  TextInv' /\ Promised
<1>1. /\ IInv /\ buffers # <<>> /\ Top.use # "render" /\ Waits(Top) /\ adding = <<>>
      /\ UNCHANGED <<held, adding, todo>> /\ buffers' = Below
  BY DEF Restore, InUse, Writable, Waits, TextInv, Below
<1>2. /\ Below \in Seq(BufferSet) /\ Top \in BufferSet /\ buffers = Append(Below, Top)
      /\ held \in Seq(StringSet) /\ held # <<>>
  BY <1>1, StackFacts
<1>3. /\ Below # <<>> /\ Top'.use \in Outputs
      /\ TextOf(Below, held) = Flat(Below) \o Rest(held)
      /\ MarksOf(Below, held) = Append(Starts(Below), Len(Flat(Below)))
  BY <1>1, <1>2, UncoveredText
<1>4. TextInv'
  <2>1. Top'.use \notin {"indented", "escape"}
    BY <1>3 DEF Outputs
  <2>2. Writes(Top', held, <<>>, todo)
    BY <2>1 DEF Writes, Pending, Indents, Escapes
  <2> QED
    BY <1>1, <2>2 DEF TextInv
<1>5. /\ TextOf(buffers, held) = Flat(Below) \o Rest(held)
      /\ MarksOf(buffers, held) = Append(Starts(Below), Len(Flat(Below)))
  BY <1>1, <1>2, WaitingText
<1> QED
  BY <1>1, <1>3, <1>4, <1>5, Unmoved

LEMMA EndIndentText ==
    ASSUME TextInv, EndIndent, IInv'
    PROVE  TextInv' /\ Promised
<1> DEFINE hs == Append(held, String(Top))
           t  == held[1].data
<1>1. /\ IInv /\ buffers # <<>> /\ Top.use = "indented" /\ adding = <<>> /\ todo = <<>>
      /\ UNCHANGED <<adding, todo>> /\ buffers' = Below /\ held' = hs
  BY DEF EndIndent, InUse, TextInv, Below
<1>2. /\ Below \in Seq(BufferSet) /\ Top \in BufferSet /\ buffers = Append(Below, Top)
      /\ held \in Seq(StringSet) /\ Waits(Top)
  BY <1>1, StackFacts DEF Waits
<1>3. Len(held) = 1 /\ Top.block # NULL
  BY <1>1, TopFacts
<1>4. held # <<>> /\ t \in Seq(Chars) /\ Rest(held) = t
  BY <1>1, <1>3, HeldFacts
<1>5. String(Top) \in StringSet /\ String(Top).data = Top.data /\ String(Top).use = "indented"
  BY <1>1, <1>2, <1>3 DEF String, StringSet, BufferSet
<1>6. /\ hs \in Seq(StringSet) /\ hs # <<>> /\ Len(hs) = 2 /\ hs[2] = String(Top)
      /\ hs[1] = held[1] /\ Rest(hs) = Top.data
  <2>1. /\ hs \in Seq(StringSet) /\ hs # <<>> /\ Len(hs) = Len(held) + 1
        /\ hs[Len(held) + 1] = String(Top) /\ \A i \in 1..Len(held) : hs[i] = held[i]
    BY <1>2, <1>5, Added
  <2> HIDE DEF hs
  <2>2. Len(hs) = 2 /\ hs[2] = String(Top) /\ hs[1] = held[1]
    BY <1>3, <2>1
  <2> QED
    BY <1>5, <2>1, <2>2 DEF Rest, Last
<1> HIDE DEF hs
<1>7. Top.data = Indented(t)
  <2>1. PICK k \in 0..Len(t) : /\ todo = SubSeq(t, k + 1, Len(t))
                               /\ Top.data \o Adding(adding) = IndentedTo(t, k)
    BY <1>1 DEF TextInv, Writes, Indents
  <2>2. k = Len(t)
    <3> HIDE DEF t
    <3> QED
      BY <1>1, <1>4, <2>1, LeftOver
  <2>3. Top.data \o Adding(adding) = Top.data
    BY <1>1, <1>2, ConcatEmptySeq DEF Adding, BufferSet
  <2> QED
    BY <2>1, <2>2, <2>3 DEF IndentedTo, Indented
<1>8. /\ Top'.use \in Outputs
      /\ TextOf(Below, hs) = Flat(Below) \o Top.data
      /\ MarksOf(Below, hs) = Append(Starts(Below), Len(Flat(Below)))
  BY <1>1, <1>6, UncoveredText
<1>9. TextInv'
  <2>1. Top'.use \notin {"indented", "escape"}
    BY <1>8 DEF Outputs
  <2>2. Writes(Top', hs, <<>>, todo)
    BY <2>1 DEF Writes, Pending, Indents, Escapes
  <2>3. WasEscaped(hs)
    <3>1. ASSUME NEW i \in 1..2, hs[i].use = "escape" PROVE hs[i].data = EscapedTo(hs[i].of, Len(hs[i].of))
      <4>1. i = 1
        BY <1>5, <1>6, <3>1
      <4> QED
        BY <1>3, <1>6, <3>1, <4>1 DEF TextInv, WasEscaped
    <3> QED
      BY <1>6, <3>1 DEF WasEscaped
  <2> QED
    BY <1>1, <2>2, <2>3 DEF TextInv
<1>10. /\ AllText = Flat(Below) \o t
       /\ AllMarks = Append(Starts(Below), Len(Flat(Below)))
  BY <1>2, <1>4, WaitingText DEF AllText, AllMarks
<1>11. /\ AllText' = Flat(Below) \o Indented(t)
       /\ AllMarks' = AllMarks
  BY <1>1, <1>7, <1>8, <1>10 DEF AllText, AllMarks
<1>12. Flat(Below) \in Seq(Chars) /\ Starts(Below) \in Seq(Nat) /\ Len(Flat(Below)) \in Nat
  BY <1>2, FlatAppended, StartsAppended, LenProperties
<1>13. /\ SubSeq(AllText, 1, Len(Flat(Below))) = Flat(Below)
       /\ SubSeq(AllText, Len(Flat(Below)) + 1, Len(AllText)) = t
  <2> DEFINE x == Flat(Below)
  <2> HIDE DEF x, t
  <2>1. x \in Seq(Chars) /\ t \in Seq(Chars) /\ AllText = x \o t
    BY <1>4, <1>10, <1>12 DEF x
  <2>2. SubSeq(x \o t, 1, Len(x)) = x /\ SubSeq(x \o t, Len(x) + 1, Len(x \o t)) = t
    BY <2>1, TextParts
  <2> QED
    BY <2>1, <2>2 DEF x
<1> QED
  BY <1>9, <1>10, <1>11, <1>12, <1>13, ShiftsPart

LEMMA DropHeldText ==
    ASSUME TextInv, DropHeld, IInv'
    PROVE  TextInv' /\ Promised
<1>1. /\ IInv /\ buffers # <<>> /\ Top.use \in Outputs /\ ~Waits(Top) /\ adding = <<>> /\ held # <<>>
      /\ UNCHANGED <<buffers, adding, todo>> /\ held' = <<>>
  BY DEF DropHeld, InUse, TextInv, Writable, Waits, Outputs
<1>2. /\ Below \in Seq(BufferSet) /\ Top \in BufferSet /\ buffers = Append(Below, Top)
      /\ held \in Seq(StringSet)
  BY <1>1, StackFacts
<1> DEFINE m == Append(Starts(Below), Len(Flat(Below)))
           a == Flat(Below) \o Top.data
           r == Rest(held)
<1>3. TextInv'
  <2>1. Top' = Top /\ Top.use \notin {"indented", "escape"}
    BY <1>1 DEF Top, Outputs
  <2>2. Writes(Top, <<>>, <<>>, todo)
    BY <2>1 DEF Writes, Pending, Indents, Escapes
  <2>3. WasEscaped(<<>>)
    BY EmptySeq DEF WasEscaped
  <2> QED
    BY <1>1, <2>1, <2>2, <2>3 DEF TextInv
<1>4. AllText = a \o r /\ AllMarks = Append(m, Len(a))
  BY <1>1, <1>2, HeldText DEF AllText, AllMarks
<1>5. AllText' = a /\ AllMarks' = m
  BY <1>1, <1>2, WritingText DEF AllText, AllMarks
<1>6. a \in Seq(Chars) /\ r \in Seq(Chars) /\ m \in Seq(Nat) /\ Len(a) \in Nat
  <2>1. Flat(Below) \in Seq(Chars) /\ Starts(Below) \in Seq(Nat) /\ Len(Flat(Below)) \in Nat
    BY <1>2, FlatAppended, StartsAppended, LenProperties
  <2>2. Top.data \in Seq(Chars)
    BY <1>2 DEF BufferSet
  <2>3. a \in Seq(Chars) /\ m \in Seq(Nat)
    BY <2>1, <2>2, ConcatProperties, Added
  <2> QED
    BY <1>2, <2>3, RestTyped, LenProperties
<1> HIDE DEF a, m, r
<1>7. SubSeq(a \o r, 1, Len(a)) = a
  BY <1>6, TextParts
<1> QED
  BY <1>3, <1>4, <1>5, <1>6, <1>7, ClosesPart

LEMMA NoText == Flat(<<>>) = <<>> /\ Starts(<<>>) = <<>> /\ LiveOf(<<>>) = <<>>
<1>1. [i \in 1..0 |-> <<>>[i].data] = <<>> /\ Starts(<<>>) = <<>>
  BY EmptySeq DEF Starts
<1>2. Flat(<<>>) = <<>>
  BY <1>1, EmptySeq, FlattenEmpty DEF Flat
<1> QED
  BY <1>1, <1>2 DEF LiveOf

LEMMA ReturnText ==
    ASSUME TextInv, Return, IInv'
    PROVE  TextInv' /\ Promised
<1>1. /\ IInv /\ buffers # <<>> /\ Top.use = "render" /\ adding = <<>> /\ held = <<>>
      /\ UNCHANGED <<adding, todo>> /\ buffers' = <<>>
      /\ held' = <<String(Top)>> \/ held' = <<>>
  BY DEF Return, InUse, TextInv
<1>2. Below \in Seq(BufferSet) /\ Top \in BufferSet /\ buffers = Append(Below, Top)
  BY <1>1, StackFacts
<1>3. ~Waits(Top) /\ Len(buffers) = 1
  BY <1>1, TopFacts DEF Waits
<1>4. Below = <<>>
  BY <1>3, SubSeqEmpty DEF Below, Front
<1>5. Flat(Below) = <<>> /\ Starts(Below) = <<>> /\ Top.data \in Seq(Chars)
  BY <1>2, <1>4, NoText DEF BufferSet
<1>6. AllText = Top.data /\ AllMarks = Append(<<>>, 0)
  <2>1. AllText = <<>> \o Top.data /\ AllMarks = Append(<<>>, Len(<<>>))
    BY <1>1, <1>2, <1>3, <1>5, WritingText DEF AllText, AllMarks
  <2>2. <<>> \o Top.data = Top.data /\ Len(<<>>) = 0
    BY <1>5, ConcatEmptySeq, EmptySeq
  <2> QED
    BY <2>1, <2>2
<1>7. TextOf(<<>>, held') = <<>> \o Rest(held') /\ MarksOf(<<>>, held') = <<>> \o <<>>
  BY NoText DEF TextOf, MarksOf, Rest
<1>8. <<>> \o <<>> = <<>>
  BY EmptySeq, ConcatEmptySeq
<1>9. AllMarks' = <<>> /\ AllText' = <<>> \o Rest(held')
  BY <1>1, <1>7, <1>8 DEF AllText, AllMarks
<1>10. <<>> \in Seq(Nat) /\ 0 \in Nat
  BY EmptySeq
<1>11. CASE held' = <<String(Top)>>
  <2>1. /\ String(Top).use = "render" /\ Rest(held') = Top.data /\ Len(held') = 1
        /\ held'[1] = String(Top)
    BY <1>1, <1>11 DEF String, Rest, Last
  <2>2. TextInv'
    BY <1>1, <2>1 DEF TextInv, WasEscaped
  <2>3. AllText' = AllText
    BY <1>5, <1>6, <1>9, <2>1, ConcatEmptySeq
  <2> QED
    BY <1>6, <1>9, <1>10, <2>2, <2>3, ClosesPart
<1>12. CASE held' = <<>>
  <2>1. TextInv'
    BY <1>1, <1>12, EmptySeq DEF TextInv, WasEscaped
  <2>2. AllText' = <<>>
    BY <1>8, <1>9, <1>12 DEF Rest
  <2>3. SubSeq(AllText, 1, 0) = <<>>
    BY SubSeqEmpty
  <2> QED
    BY <1>6, <1>9, <1>10, <2>1, <2>2, <2>3, ClosesPart
<1> QED
  BY <1>1, <1>11, <1>12

LEMMA InitText == Init => TextInv /\ Promise!Init
<1> SUFFICES ASSUME Init PROVE TextInv /\ Promise!Init
  OBVIOUS
<1>1. IInv
  BY InitHolds
<1>2. PICK b : buffers = <<Buffer("render", <<>>, b)>>
  BY DEF Init
<1> DEFINE buf == Buffer("render", <<>>, b)
<1>3. /\ held = <<>> /\ adding = <<>> /\ buffers # <<>> /\ Top = buf /\ buf.use = "render"
      /\ buf.data = <<>>
  <2>1. buf.use = "render" /\ buf.data = <<>>
    BY DEF Buffer
  <2> HIDE DEF buf
  <2>2. buffers = <<buf>>
    BY <1>2 DEF buf
  <2>3. buffers # <<>> /\ Top = buf
    BY <2>2 DEF Top
  <2> QED
    BY <2>1, <2>3 DEF Init
<1>4. buf \in BufferSet /\ ~Waits(buf) /\ <<>> \in Seq(BufferSet)
  BY <1>1, <1>3, TopFacts, EmptySeq DEF Waits
<1>5. buffers = Append(<<>>, buf)
  BY <1>2
<1> HIDE DEF buf
<1>6. TextInv
  BY <1>1, <1>3, EmptySeq DEF TextInv, WasEscaped, Writes, Pending, Indents, Escapes
<1>7. AllText = <<>> \o <<>> /\ AllMarks = Append(<<>>, Len(<<>>))
  BY <1>3, <1>4, <1>5, NoText, WritingText DEF AllText, AllMarks
<1>8. AllText = <<>> /\ AllMarks = <<0>>
  BY <1>7, EmptySeq, ConcatEmptySeq
<1> QED
  BY <1>6, <1>8 DEF Promise!Init

LEMMA TextStep ==
    ASSUME TextInv, [Next]_vars
    PROVE  TextInv' /\ Promised
<1>1. IInv'
  BY StepHolds DEF TextInv
<1>2. CASE UNCHANGED vars
  <2>1. UNCHANGED <<buffers, held>> /\ Top' = Top
    BY <1>2 DEF vars, Top
  <2>2. TextInv'
    BY <1>1, <1>2, <2>1 DEF vars, TextInv
  <2>3. Promised
    BY <2>1, Unmoved
  <2> QED
    BY <2>2, <2>3
<1> QED
  BY <1>1, <1>2, GrowText, CopyText, WriteTextText, BeginText, DetachText, RestoreText,
     AppendHeldText, DropHeldText, BeginEscapeText, EscapeCharText, BeginIndentText,
     IndentCharText, EndIndentText, ReturnText
  DEF Next

(* What is still to be written of an escaped value or an indented partial  *)
(* is what is left of it to read.                                          *)
THEOREM TextInvariant == Spec => []TextInv
<1>1. Init => TextInv
  BY InitText
<1>2. TextInv /\ [Next]_vars => TextInv'
  BY TextStep
<1> QED
  BY <1>1, <1>2, PTL DEF Spec

(* The buffers of a render, saved, begun, detached, restored, escaped and  *)
(* indented as they are, write one text in order (render_partial,          *)
(* src/src/render.c; hbs_html_escape, src/src/utils.c), for every alphabet *)
(* and every nesting: each step of the buffers is a step of the promise,   *)
(* or none.                                                                *)
THEOREM OneText == Spec => ImplementsSink
<1>1. Init => Promise!Init
  BY InitText
<1>2. TextInv /\ [Next]_vars => [Promise!Next]_<<AllText, AllMarks>>
  BY TextStep DEF Promised
<1> QED
  BY <1>1, <1>2, TextInvariant, PTL DEF Spec, ImplementsSink, Promise!Spec

-----------------------------------------------------------------------------
(* What is escaped can be read back: the characters of an escaped text,    *)
(* each with what it stands for, as far as it was written.                 *)
ReadBack(t, k, s) ==
    /\ s \in Seq(Chars)
    /\ Len(s) >= 1 => s[Len(s)] # "&"
    /\ Len(s) >= 2 => s[Len(s) - 1] # "&"
    /\ \A i \in 1..Len(s) : DecodedChar(s, i) \in Seq(Chars)
    /\ Decoded(s) = SubSeq(t, 1, k)

(* Nothing that follows changes what was read.                             *)
LEMMA MoreWritten ==
    ASSUME NEW t, NEW k, NEW s, ReadBack(t, k, s), NEW w \in Seq(Chars), NEW i \in 1..Len(s)
    PROVE  DecodedChar(s \o w, i) = DecodedChar(s, i)
<1> DEFINE n == Len(s)
           u == s \o w
<1>1. n \in Nat /\ Len(w) \in Nat /\ s \in Seq(Chars)
  BY LenProperties DEF ReadBack
<1>2. \A j \in 1..n : u[j] = s[j]
  <2>1. \A j \in 1..(n + Len(w)) : u[j] = IF j <= n THEN s[j] ELSE w[j - n]
    BY <1>1, ConcatProperties
  <2> HIDE DEF u
  <2> QED
    BY <1>1, <2>1
<1>3. s[n] # "&"
  BY <1>1 DEF ReadBack
<1> HIDE DEF u, n
<1>4. i \in 1..n
  BY DEF n
<1>5. ASSUME s[i] = "&" PROVE DecodedChar(u, i) = DecodedChar(s, i)
  <2>1. i + 1 \in 1..n
    BY <1>1, <1>3, <1>4, <1>5
  <2> QED
    BY <1>2, <1>4, <1>5, <2>1 DEF DecodedChar
<1>6. ASSUME s[i] # "&" PROVE DecodedChar(u, i) = DecodedChar(s, i)
  <2>1. (i > 1 => u[i - 1] = s[i - 1]) /\ (i > 2 => u[i - 2] = s[i - 2])
    BY <1>1, <1>2, <1>4
  <2> QED
    BY <1>2, <1>4, <1>6, <2>1 DEF DecodedChar
<1> QED
  BY <1>5, <1>6 DEF u

LEMMA DecodedMore ==
    ASSUME NEW u, NEW m \in Nat, \A i \in 1..(m + 1) : DecodedChar(u, i) \in Seq(Chars)
    PROVE  /\ FlattenSeq([i \in 1..m |-> DecodedChar(u, i)]) \in Seq(Chars)
           /\ FlattenSeq([i \in 1..(m + 1) |-> DecodedChar(u, i)])
              = FlattenSeq([i \in 1..m |-> DecodedChar(u, i)]) \o DecodedChar(u, m + 1)
<1> DEFINE f == [i \in 1..(m + 1) |-> DecodedChar(u, i)]
<1>1. f \in [1..(m + 1) -> Seq(Chars)] /\ f[m + 1] = DecodedChar(u, m + 1)
  OBVIOUS
<1>2. [i \in 1..m |-> f[i]] = [i \in 1..m |-> DecodedChar(u, i)]
  OBVIOUS
<1> HIDE DEF f
<1>3. /\ FlattenSeq([i \in 1..m |-> f[i]]) \in Seq(Chars)
      /\ FlattenSeq(f) = FlattenSeq([i \in 1..m |-> f[i]]) \o f[m + 1]
  BY <1>1, FlattenMore
<1> QED
  BY <1>1, <1>2, <1>3 DEF f

(* A text is read back, then one more character of it.                     *)
LEMMA ReadBackMore ==
    ASSUME NEW t \in Seq(Chars), NEW k \in 0..Len(t), k # Len(t), NEW s, ReadBack(t, k, s)
    PROVE  ReadBack(t, k + 1, s \o Written(t[k + 1]))
<1> DEFINE c == t[k + 1]
           n == Len(s)
           w == Written(c)
           u == s \o w
<1>1. k \in Nat /\ k + 1 \in 1..Len(t) /\ c \in Chars
  BY LenProperties, ElementOfSeq
<1>2. s \in Seq(Chars) /\ n \in Nat /\ w \in Seq(Chars) /\ Len(w) \in Nat
  <2>1. w \in Seq(Chars)
    BY <1>1, WrittenFacts
  <2> QED
    BY <2>1, LenProperties DEF ReadBack
<1>3. u \in Seq(Chars) /\ Len(u) = n + Len(w) /\ \A i \in 1..(n + Len(w)) : u[i] = IF i <= n THEN s[i] ELSE w[i - n]
  BY <1>2, ConcatProperties
<1>4. (n >= 1 => u[n] # "&") /\ (n >= 2 => u[n - 1] # "&")
  <2>1. (n >= 1 => s[n] # "&") /\ (n >= 2 => s[n - 1] # "&")
    BY DEF ReadBack
  <2> HIDE DEF u, n, w
  <2>2. (n >= 1 => u[n] = s[n]) /\ (n >= 2 => u[n - 1] = s[n - 1])
    BY <1>2, <1>3
  <2> QED
    BY <2>1, <2>2
<1>5. ASSUME NEW i \in 1..n PROVE DecodedChar(u, i) = DecodedChar(s, i) /\ DecodedChar(u, i) \in Seq(Chars)
  <2>1. DecodedChar(u, i) = DecodedChar(s, i)
    BY <1>2, MoreWritten
  <2> QED
    BY <2>1 DEF ReadBack
<1>6. /\ FlattenSeq([i \in 1..n |-> DecodedChar(u, i)]) = SubSeq(t, 1, k)
      /\ SubSeq(t, 1, k) \o <<c>> = SubSeq(t, 1, k + 1)
  <2>1. [i \in 1..n |-> DecodedChar(u, i)] = [i \in 1..n |-> DecodedChar(s, i)]
    <3> HIDE DEF u
    <3> QED
      BY <1>5
  <2>2. SubSeq(t, 1, k + 1) = SubSeq(t, 1, k) \o <<c>>
    <3>1. 1 \in 1..Len(t) /\ k + 1 \in 1..Len(t) /\ (k + 1) - 1 = k
      BY <1>1
    <3> QED
      BY <3>1, SubSeqRecursiveSecond
  <2> QED
    BY <2>1, <2>2 DEF ReadBack, Decoded
<1> HIDE DEF c, n, w, u
<1>7. CASE c \notin DOMAIN Entity
  <2>1. w = <<c>> /\ c # "&" /\ Len(w) = 1 /\ w[1] = c
    BY <1>7, EntityShape DEF Written, w
  <2>2. Len(u) = n + 1 /\ u[n + 1] = c
    BY <1>2, <1>3, <2>1
  <2>3. DecodedChar(u, n + 1) = <<c>>
    <3>1. (n + 1 > 1 => u[(n + 1) - 1] # "&") /\ (n + 1 > 2 => u[(n + 1) - 2] # "&")
      BY <1>2, <1>4
    <3> QED
      BY <2>1, <2>2, <3>1 DEF DecodedChar
  <2>4. \A i \in 1..(n + 1) : DecodedChar(u, i) \in Seq(Chars)
    <3> TAKE i \in 1..(n + 1)
    <3>1. CASE i = n + 1
      <4>1. <<c>> \in Seq(Chars)
        BY <1>1 DEF c
      <4> QED
        BY <2>3, <3>1, <4>1
    <3>2. CASE i # n + 1
      BY <1>2, <1>5, <3>2
    <3> QED
      BY <3>1, <3>2
  <2>5. Decoded(u) = SubSeq(t, 1, k + 1)
    <3>1. FlattenSeq([i \in 1..(n + 1) |-> DecodedChar(u, i)])
          = FlattenSeq([i \in 1..n |-> DecodedChar(u, i)]) \o DecodedChar(u, n + 1)
      BY <1>2, <2>4, DecodedMore
    <3> QED
      BY <1>6, <2>2, <2>3, <3>1 DEF Decoded
  <2>6. u[Len(u)] # "&" /\ (Len(u) >= 2 => u[Len(u) - 1] # "&")
    BY <1>2, <1>4, <2>1, <2>2
  <2>7. ReadBack(t, k + 1, u)
    BY <1>3, <2>2, <2>4, <2>5, <2>6 DEF ReadBack
  <2> QED
    BY <2>7 DEF u, w, c
<1>8. CASE c \in DOMAIN Entity
  <2>1. PICK name \in Chars \ {"&"}, end \in Chars \ {"&"} :
           /\ Entity[c] = <<"&", name, end>>
           /\ \A d \in DOMAIN Entity : Entity[d][2] = name => d = c
    BY <1>8, EntityShape
  <2>2. w = <<"&", name, end>> /\ Len(w) = 3 /\ w[1] = "&" /\ w[2] = name /\ w[3] = end
    BY <1>8, <2>1 DEF Written, w
  <2>3. Len(u) = n + 3 /\ u[n + 1] = "&" /\ u[n + 2] = name /\ u[n + 3] = end
    BY <1>2, <1>3, <2>2
  <2>4. CharOf(name) = c
    <3>1. Entity[c][2] = name
      BY <2>1
    <3> QED
      BY <1>8, <2>1, <3>1 DEF CharOf
  <2>5. DecodedChar(u, n + 1) = <<c>>
    <3>1. (n + 1) + 1 = n + 2
      BY <1>2
    <3> QED
      BY <2>3, <2>4, <3>1 DEF DecodedChar
  <2>6. DecodedChar(u, n + 2) = <<>>
    <3>1. (n + 2) - 1 = n + 1 /\ n + 2 > 1
      BY <1>2
    <3> QED
      BY <2>1, <2>3, <3>1 DEF DecodedChar
  <2>7. DecodedChar(u, n + 3) = <<>>
    <3>1. (n + 3) - 2 = n + 1 /\ n + 3 > 2
      BY <1>2
    <3> QED
      BY <2>1, <2>3, <3>1 DEF DecodedChar
  <2>8. \A i \in 1..(n + 3) : DecodedChar(u, i) \in Seq(Chars)
    <3> TAKE i \in 1..(n + 3)
    <3>1. <<c>> \in Seq(Chars) /\ <<>> \in Seq(Chars)
      BY <1>1 DEF c
    <3>2. i = n + 1 \/ i = n + 2 \/ i = n + 3 \/ i \in 1..n
      BY <1>2
    <3> QED
      BY <1>5, <2>5, <2>6, <2>7, <3>1, <3>2
  <2> DEFINE f(m) == FlattenSeq([i \in 1..m |-> DecodedChar(u, i)])
  <2>9. /\ f(n + 1) = f(n) \o <<c>> /\ f(n + 2) = f(n + 1) \o <<>> /\ f(n + 3) = f(n + 2) \o <<>>
        /\ f(n + 1) \in Seq(Chars) /\ f(n + 2) \in Seq(Chars)
    <3>1. ASSUME NEW m \in n..(n + 2)
          PROVE  f(m) \in Seq(Chars) /\ f(m + 1) = f(m) \o DecodedChar(u, m + 1)
      <4>1. m \in Nat /\ \A i \in 1..(m + 1) : i \in 1..(n + 3)
        BY <1>2
      <4>2. \A i \in 1..(m + 1) : DecodedChar(u, i) \in Seq(Chars)
        BY <2>8, <4>1
      <4> QED
        BY <4>1, <4>2, DecodedMore
    <3> HIDE DEF f
    <3>2. n \in n..(n + 2) /\ n + 1 \in n..(n + 2) /\ n + 2 \in n..(n + 2)
          /\ (n + 1) + 1 = n + 2 /\ (n + 2) + 1 = n + 3
      BY <1>2
    <3>3. f(n + 1) = f(n) \o <<c>>
      BY <2>5, <3>1, <3>2
    <3>4. f(n + 2) = f(n + 1) \o <<>> /\ f(n + 1) \in Seq(Chars)
      BY <2>6, <3>1, <3>2
    <3>5. f(n + 3) = f(n + 2) \o <<>> /\ f(n + 2) \in Seq(Chars)
      BY <2>7, <3>1, <3>2
    <3> QED
      BY <3>3, <3>4, <3>5
  <2>10. Decoded(u) = SubSeq(t, 1, k + 1)
    <3>1. Decoded(u) = f(n + 3) /\ f(n) = SubSeq(t, 1, k)
      BY <1>6, <2>3 DEF Decoded
    <3> HIDE DEF f
    <3>2. f(n + 2) = f(n + 1) /\ f(n + 3) = f(n + 2)
      BY <2>9, ConcatEmptySeq
    <3> QED
      BY <1>6, <2>9, <3>1, <3>2
  <2>11. u[Len(u)] # "&" /\ u[Len(u) - 1] # "&"
    <3>1. (n + 3) - 1 = n + 2
      BY <1>2
    <3> QED
      BY <2>1, <2>3, <3>1
  <2>12. ReadBack(t, k + 1, u)
    BY <1>3, <2>3, <2>8, <2>10, <2>11 DEF ReadBack
  <2> QED
    BY <2>12 DEF u, w, c
<1> QED
  BY <1>7, <1>8

LEMMA EscapeReadBack ==
    ASSUME NEW t \in Seq(Chars)
    PROVE  Decoded(EscapedTo(t, Len(t))) = t
<1> DEFINE n == Len(t)
           S == {k \in 0..n : ReadBack(t, k, EscapedTo(t, k))}
<1>1. n \in Nat
  BY LenProperties
<1>2. 0 \in S
  <2>1. EscapedTo(t, 0) = <<>> /\ SubSeq(t, 1, 0) = <<>> /\ <<>> \in Seq(Chars) /\ Len(<<>>) = 0
    BY EscapedNone, SubSeqEmpty, EmptySeq
  <2>2. Decoded(<<>>) = <<>>
    <3>1. [i \in 1..0 |-> DecodedChar(<<>>, i)] = <<>>
      OBVIOUS
    <3> QED
      BY <2>1, <3>1, FlattenEmpty DEF Decoded
  <2>3. ReadBack(t, 0, <<>>)
    <3> DEFINE e == <<>>
    <3>1. e \in Seq(Chars) /\ Len(e) = 0 /\ Decoded(e) = SubSeq(t, 1, 0)
      BY <2>1, <2>2
    <3> HIDE DEF e
    <3>2. ReadBack(t, 0, e)
      BY <3>1 DEF ReadBack
    <3> QED
      BY <3>2 DEF e
  <2> QED
    BY <1>1, <2>1, <2>3
<1>3. ASSUME NEW k \in 0..(n - 1), k \in S
      PROVE  k + 1 \in S
  <2>1. k \in 0..Len(t) /\ k # Len(t) /\ k + 1 \in 0..n
    BY <1>1
  <2>2. ReadBack(t, k, EscapedTo(t, k))
    BY <1>3
  <2>3. ReadBack(t, k + 1, EscapedTo(t, k) \o Written(t[k + 1]))
    BY <2>1, <2>2, ReadBackMore
  <2>4. EscapedTo(t, k + 1) = EscapedTo(t, k) \o Written(t[k + 1])
    BY <2>1, EscapedMore
  <2> QED
    BY <2>1, <2>3, <2>4
<1> HIDE DEF S
<1>4. 0..n \subseteq S
  BY <1>1, <1>2, <1>3, Induction
<1>5. n \in S
  BY <1>1, <1>4
<1>6. Decoded(EscapedTo(t, n)) = SubSeq(t, 1, n)
  BY <1>5 DEF S, ReadBack
<1> QED
  BY <1>6, SubSeqFull

(* hbs_html_escape (src/src/utils.c:64) writes no character for another,   *)
(* and nothing that stands for itself looks like an entity: what was       *)
(* escaped, while other buffers grew and were detached, can be read back.  *)
THEOREM EscapesReadBack == Spec => []EscapeReversible
<1>1. ASSUME TextInv PROVE EscapeReversible
  <2> SUFFICES ASSUME NEW i \in 1..Len(held), held[i].use = "escape"
               PROVE  Decoded(held[i].data) = held[i].of
    BY DEF EscapeReversible
  <2>1. held[i] \in StringSet
    BY <1>1, ElementOfSeq DEF TextInv, IInv, MemoryOf, TypesOf
  <2>2. held[i].of \in Seq(Chars)
    BY <2>1 DEF StringSet
  <2>3. held[i].data = EscapedTo(held[i].of, Len(held[i].of))
    BY <1>1 DEF TextInv, WasEscaped
  <2> QED
    BY <2>2, <2>3, EscapeReadBack
<1> QED
  BY <1>1, TextInvariant, PTL

=============================================================================
