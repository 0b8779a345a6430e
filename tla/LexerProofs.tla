---------------------------- MODULE LexerProofs ----------------------------
(***************************************************************************)
(* Theorems about the tokenizer, for every template and every alphabet:    *)
(* nothing is read beyond the end of the source, the list of tokens it     *)
(* hands to the parser is bracketed by tags, and nothing of the source is  *)
(* missing in it.                                                          *)
(***************************************************************************)
EXTENDS Compile, FoldLemmas

TokenSet == [type : TokenTypes, value : Seq(Symbols), at : Nat, end : Nat]

(* A list of tokens that ends within a tag, in a text, with the end.       *)
EndsOpen(toks) == TagOpen(toks, Len(toks))
EndsWith(toks, type) == toks # <<>> /\ toks[Len(toks)].type = type
Ended(toks)      == EndsWith(toks, "EOF")
EndsInText(toks) == EndsWith(toks, "TEXT")

(* A list of tokens that more may follow.                                  *)
Unfinished(toks) == toks \in Seq(TokenSet) /\ Bracketed(toks) /\ ~Ended(toks)

-----------------------------------------------------------------------------
(* One more token.                                                         *)

(* A token is at one side of a tag only.                                   *)
LEMMA Sides ==
    /\ Opens \cap Endings = {} /\ "TEXT" \notin Opens \cup Endings /\ "EOF" \notin Opens \cup Endings
    /\ Opens \cup Endings \subseteq TokenTypes /\ {"TEXT", "EOF"} \subseteq TokenTypes
  BY DEF Opens, Endings, Closes, TokenTypes, Valued, Marks

(* What comes later does not change whether a tag is open.                 *)
LEMMA OpenBefore ==
    ASSUME NEW toks \in Seq(TokenSet), NEW t \in TokenSet
    PROVE  /\ \A k \in 0..Len(toks) : TagOpen(Append(toks, t), k) <=> TagOpen(toks, k)
           /\ EndsOpen(Append(toks, t)) <=> t.type \in Opens \/ (EndsOpen(toks) /\ t.type \notin Endings)
<1> DEFINE n == Len(toks)
           more == Append(toks, t)
<1>1. n \in Nat /\ Len(more) = n + 1 /\ more[n + 1] = t /\ \A i \in 1..n : more[i] = toks[i]
  BY AppendProperties
<1> HIDE DEF n, more
<1>2. \A k \in 0..n : TagOpen(more, k) <=> TagOpen(toks, k)
  <2> SUFFICES ASSUME NEW k \in 0..n PROVE TagOpen(more, k) <=> TagOpen(toks, k)
    OBVIOUS
  <2>1. \A i \in 1..k : more[i] = toks[i] /\ \A j \in (i + 1)..k : more[j] = toks[j]
    BY <1>1
  <2> QED
    BY <2>1 DEF TagOpen
<1>3. TagOpen(more, n + 1) <=> t.type \in Opens \/ (TagOpen(more, n) /\ t.type \notin Endings)
  <2>1. CASE t.type \in Opens
    BY <1>1, <2>1 DEF TagOpen
  <2>2. ASSUME TagOpen(more, n), t.type \notin Endings PROVE TagOpen(more, n + 1)
    BY <1>1, <2>2 DEF TagOpen
  <2>3. ASSUME TagOpen(more, n + 1), t.type \notin Opens PROVE TagOpen(more, n) /\ t.type \notin Endings
    <3>1. PICK i \in 1..(n + 1) : /\ more[i].type \in Opens
                                  /\ \A j \in (i + 1)..(n + 1) : more[j].type \notin Endings
      BY <2>3 DEF TagOpen
    <3>2. i \in 1..n
      BY <1>1, <2>3, <3>1
    <3> QED
      BY <1>1, <3>1, <3>2 DEF TagOpen
  <2> QED
    BY <2>1, <2>2, <2>3
<1> QED
  BY <1>1, <1>2, <1>3 DEF EndsOpen, n, more

(* A token that is in its place leaves the list bracketed.                 *)
Placed(toks, t) ==
    /\ t.type \in Opens \cup {"TEXT"} => ~EndsOpen(toks)
    /\ t.type = "TEXT" => ~EndsInText(toks)
    /\ t.type \notin Opens \cup {"TEXT", "EOF"} => EndsOpen(toks)

LEMMA OneMore ==
    ASSUME NEW toks, Unfinished(toks), NEW t \in TokenSet, Placed(toks, t)
    PROVE  /\ Append(toks, t) \in Seq(TokenSet) /\ Bracketed(Append(toks, t))
           /\ EndsOpen(Append(toks, t)) <=> t.type \in Opens \/ (EndsOpen(toks) /\ t.type \notin Endings)
           /\ \A type : EndsWith(Append(toks, t), type) <=> t.type = type
<1> DEFINE n == Len(toks)
           more == Append(toks, t)
<1>1. toks \in Seq(TokenSet) /\ Bracketed(toks) /\ ~Ended(toks)
  BY DEF Unfinished
<1>2. n \in Nat /\ Len(more) = n + 1 /\ more[n + 1] = t /\ (\A i \in 1..n : more[i] = toks[i])
      /\ more \in Seq(TokenSet) /\ more # <<>> /\ (toks = <<>> <=> n = 0)
  BY <1>1, AppendProperties, EmptySeq
<1>3. \A k \in 0..n : TagOpen(more, k) <=> TagOpen(toks, k)
  BY <1>1, OpenBefore
<1>4. EndsOpen(more) <=> t.type \in Opens \/ (EndsOpen(toks) /\ t.type \notin Endings)
  BY <1>1, OpenBefore
<1> HIDE DEF more
<1>5. Bracketed(more)
  <2> SUFFICES ASSUME NEW k \in 1..(n + 1) PROVE InPlace(more, k)
    BY <1>2 DEF Bracketed
  <2>1. CASE k = n + 1
    <3>1. TagOpen(more, k - 1) <=> EndsOpen(toks)
      BY <1>2, <1>3, <2>1 DEF EndsOpen
    <3>2. k > 1 => (more[k - 1].type = "TEXT" <=> EndsInText(toks))
      BY <1>2, <2>1 DEF EndsInText, EndsWith
    <3> QED
      BY <1>2, <2>1, <3>1, <3>2, Sides DEF Placed, InPlace
  <2>2. CASE k \in 1..n
    <3>1. /\ TagOpen(more, k - 1) <=> TagOpen(toks, k - 1)
          /\ more[k] = toks[k] /\ (k > 1 => more[k - 1] = toks[k - 1])
      BY <1>2, <1>3, <2>2
    <3>2. InPlace(toks, k)
      BY <1>1, <2>2 DEF Bracketed
    <3>3. toks[k].type # "EOF"
      BY <1>1, <1>2, <2>2, <3>2, Sides DEF Ended, EndsWith, InPlace
    <3> QED
      BY <1>2, <2>2, <3>1, <3>2, <3>3, Sides DEF InPlace
  <2> QED
    BY <1>2, <2>1, <2>2
<1> QED
  BY <1>2, <1>4, <1>5 DEF EndsWith, more

(* What is last when a tag is open is not a text.                          *)
LEMMA NotInText ==
    ASSUME NEW toks \in Seq(TokenSet), Bracketed(toks), EndsOpen(toks)
    PROVE  toks # <<>> /\ ~EndsInText(toks)
<1> DEFINE n == Len(toks)
<1>1. n \in Nat /\ (toks = <<>> <=> n = 0)
  BY EmptySeq
<1> HIDE DEF n
<1>2. PICK i \in 1..n : toks[i].type \in Opens /\ \A j \in (i + 1)..n : toks[j].type \notin Endings
  BY DEF EndsOpen, TagOpen, n
<1>3. ASSUME toks[n].type = "TEXT" PROVE FALSE
  <2>1. ~TagOpen(toks, n - 1)
    BY <1>1, <1>2, <1>3 DEF Bracketed, InPlace, n
  <2>2. i \in 1..(n - 1)
    BY <1>1, <1>2, <1>3, Sides
  <2> QED
    BY <1>1, <1>2, <2>1, <2>2 DEF TagOpen
<1> QED
  BY <1>1, <1>2, <1>3 DEF EndsInText, EndsWith, n

-----------------------------------------------------------------------------
(* Reading.                                                                *)

(* A character that is not the NUL is one of the source's.                 *)
LEMMA CharIn ==
    ASSUME source \in Seq(Symbols), NEW p \in Nat
    PROVE  /\ Char(p) # "NUL" => p < Len(source)
           /\ p < Len(source) => Char(p) \in Symbols
  BY DEF Char

LEMMA SliceIn ==
    ASSUME source \in Seq(Symbols), NEW from \in Nat, NEW to \in Nat, to <= Len(source)
    PROVE  Slice(from, to) \in Seq(Symbols)
<1> DEFINE a == from + 1
<1>1. a \in Int /\ to \in Int /\ \A i \in a..to : source[i] \in Symbols
  BY ElementOfSeq
<1> HIDE DEF a
<1>2. SubSeq(source, a, to) \in Seq(Symbols)
  BY <1>1, SubSeqProperties
<1> QED
  BY <1>2 DEF Slice, a

LEMMA LookingIn ==
    ASSUME source \in Seq(Symbols), NEW p \in Nat, NEW mark \in Seq(Symbols), Looking(p, mark)
    PROVE  Len(mark) \in Nat /\ p + Len(mark) <= Len(source)
  BY DEF Looking

(* A loop that reads on stops within the source, and where it says.        *)
LEMMA StopsAtMark ==
    ASSUME source \in Seq(Symbols), NEW from \in 0..Len(source), NEW mark
    PROVE  /\ UntilMark(from, mark) \in from..Len(source)
           /\ UntilMark(from, mark) = Len(source) \/ Looking(UntilMark(from, mark), mark)
<1> DEFINE n == Len(source)
           S == {p \in from..n : p = n \/ Looking(p, mark)}
<1>1. n \in Nat /\ from \in Nat /\ from <= n
  OBVIOUS
<1> HIDE DEF n
<1>2. S \in SUBSET Nat /\ n \in S
  BY <1>1
<1>3. PICK m \in S : \A k \in S : m <= k
  BY <1>2, LeastNatural
<1>4. \A q \in from..(m - 1) : ~Looking(q, mark)
  <2> SUFFICES ASSUME NEW q \in from..(m - 1), Looking(q, mark) PROVE FALSE
    OBVIOUS
  <2> QED
    BY <1>1, <1>3
<1>5. \E p \in from..n : /\ p = n \/ Looking(p, mark)
                         /\ \A q \in from..(p - 1) : ~Looking(q, mark)
  BY <1>3, <1>4
<1> QED
  BY <1>5 DEF UntilMark, n

LEMMA StopsPastChars ==
    ASSUME source \in Seq(Symbols), NEW from \in 0..Len(source), NEW chars
    PROVE  /\ PastChars(from, chars) \in from..Len(source)
           /\ \A q \in from..(PastChars(from, chars) - 1) : Char(q) \in chars
<1> DEFINE n == Len(source)
           S == {p \in from..n : p = n \/ Char(p) \notin chars}
<1>1. n \in Nat /\ from \in Nat /\ from <= n
  OBVIOUS
<1> HIDE DEF n
<1>2. S \in SUBSET Nat /\ n \in S
  BY <1>1
<1>3. PICK m \in S : \A k \in S : m <= k
  BY <1>2, LeastNatural
<1>4. \A q \in from..(m - 1) : Char(q) \in chars
  <2> SUFFICES ASSUME NEW q \in from..(m - 1), Char(q) \notin chars PROVE FALSE
    OBVIOUS
  <2> QED
    BY <1>1, <1>3
<1>5. \E p \in from..n : /\ p = n \/ Char(p) \notin chars
                         /\ \A q \in from..(p - 1) : Char(q) \in chars
  BY <1>3, <1>4
<1> QED
  BY <1>5 DEF PastChars, n

(* What tags begin and end with.                                           *)
LEMMA Marking ==
    /\ \A n \in Nat : Braces(n) \in Seq(Symbols) /\ Len(Braces(n)) = n
    /\ \A n \in Nat : EndBraces(n) \in Seq(Symbols) /\ Len(EndBraces(n)) = n
<1>1. "{" \in Symbols /\ "}" \in Symbols
  BY DEF Symbols, Signs
<1>2. ASSUME NEW n \in Nat, NEW c \in Symbols, NEW s, s = [i \in 1..n |-> c]
      PROVE  s \in Seq(Symbols) /\ Len(s) = n
  <2>1. s \in [1..n -> Symbols] /\ DOMAIN s = 1..n
    BY <1>2
  <2>2. s \in Seq(Symbols)
    BY <2>1, SeqDef
  <2>3. Len(s) \in Nat /\ 1..Len(s) = 1..n
    BY <2>1, <2>2, LenProperties
  <2> QED
    BY <2>2, <2>3
<1> QED
  BY <1>1, <1>2 DEF Braces, EndBraces

-----------------------------------------------------------------------------
(* The inductive invariant.                                                *)
Strings == {"string", "rawstring"}

(* Types, and what a loop that began knows of where it began.              *)
LexTypeOK ==
    /\ source \in Seq(Symbols) /\ tokens \in Seq(TokenSet)
    /\ pos \in Nat /\ inTag \in BOOLEAN /\ at \in Loops
    /\ buf \in [text : Seq(Symbols), from : Nat, quote : Quotes \cup {"NUL"}]

(* Only a string can take the NUL; then nothing but the end comes.         *)
Positions ==
    /\ pos <= Len(source) + 1
    /\ at = "text" => pos <= Len(source)
    /\ at \in {"rawtag", "rawstring", "raw"} =>
          \E k \in 1..Len(tokens) : tokens[k].type = "OPEN_RAW_BLOCK"

(* in_tag and the loop agree with the tokens; a tag that is left open is   *)
(* left at the end of the source, and a text ends at a tag or there.       *)
Brackets ==
    /\ Bracketed(tokens)
    /\ at = "end" <=> Ended(tokens)
    /\ at \in Tags \cup Strings => inTag /\ EndsOpen(tokens)
    /\ at \in {"outer", "text", "raw"} /\ ~inTag => ~EndsOpen(tokens)
    /\ at \in {"outer", "raw"} /\ inTag => pos >= Len(source)
    /\ at = "text" => ~inTag
    /\ at \in {"text", "raw"} => ~EndsInText(tokens)
    /\ at = "outer" /\ ~inTag /\ EndsInText(tokens) => pos >= Len(source) \/ Looking(pos, Braces(2))

LexInv == LexTypeOK /\ Positions /\ Brackets

LEMMA TokenIn ==
    ASSUME NEW type \in TokenTypes, NEW v \in Seq(Symbols), NEW from \in Nat, NEW end \in Nat
    PROVE  Token(type, v, from, end) \in TokenSet /\ Token(type, v, from, end).type = type
  BY DEF Token, TokenSet

LEMMA LexInitially == LexInit => LexInv
<1> SUFFICES ASSUME LexInit PROVE LexInv
  OBVIOUS
<1>1. LexTypeOK
  BY SourcesAssumption, EmptySeq DEF LexInit, LexTypeOK, Loops, Nothing
<1>2. Len(tokens) = 0 /\ tokens = <<>>
  BY EmptySeq DEF LexInit
<1>3. Brackets
  BY <1>2 DEF LexInit, Brackets, Bracketed, Ended, EndsInText, EndsWith, EndsOpen, TagOpen, Tags, Strings
<1> QED
  BY <1>1, <1>3 DEF LexInit, LexInv, Positions

LEMMA Rewritten ==
    ASSUME LexTypeOK, NEW text \in Seq(Symbols)
    PROVE  [buf EXCEPT !.text = text] \in [text : Seq(Symbols), from : Nat, quote : Quotes \cup {"NUL"}]
  BY DEF LexTypeOK

(* Steps that read on without a token.                                     *)
LEMMA ReadsOn ==
    ASSUME LexInv, pos' \in Nat, UNCHANGED <<source, tokens, inTag, at>>, at \notin {"outer", "raw"},
           pos' <= IF at \in Strings THEN Len(source) + 1 ELSE Len(source),
           buf' \in [text : Seq(Symbols), from : Nat, quote : Quotes \cup {"NUL"}]
    PROVE  LexInv'
<1>1. LexTypeOK'
  BY DEF LexInv, LexTypeOK
<1>2. Positions'
  <2>1. Len(source) \in Nat /\ source' = source /\ tokens' = tokens /\ at' = at /\ pos \in Nat
    BY DEF LexInv, LexTypeOK
  <2>2. pos' <= Len(source) + 1 /\ (at = "text" => pos' <= Len(source))
    BY <2>1 DEF Strings
  <2> QED
    BY <2>1, <2>2 DEF LexInv, Positions
<1>3. Brackets'
  BY DEF LexInv, Brackets
<1> QED
  BY <1>1, <1>2, <1>3 DEF LexInv

LEMMA ReadingOn ==
    ASSUME LexInv, TextEscape \/ TextChar \/ SkipWhite \/ SkipUnknown \/ StringChar
    PROVE  LexInv'
<1>1. LexTypeOK
  BY DEF LexInv
<1>2. CASE TextEscape
  <2>1. pos + 2 < Len(source)
    <3>1. Char(pos + 2) = "{"
      BY <1>2 DEF TextEscape, Escaping
    <3>2. pos + 2 \in Nat
      BY <1>1 DEF LexTypeOK
    <3> QED
      BY <1>1, <3>1, <3>2, CharIn DEF LexTypeOK
  <2>2. buf.text \o Braces(2) \in Seq(Symbols)
    BY <1>1, Marking, ConcatProperties DEF LexTypeOK
  <2>3. buf' = [buf EXCEPT !.text = buf.text \o Braces(2)] /\ pos' = pos + 3 /\ at = "text"
        /\ UNCHANGED <<source, tokens, inTag, at>>
    BY <1>2 DEF TextEscape
  <2>4. buf' \in [text : Seq(Symbols), from : Nat, quote : Quotes \cup {"NUL"}]
    BY <1>1, <2>2, <2>3, Rewritten
  <2> QED
    BY <1>1, <2>1, <2>3, <2>4, ReadsOn DEF LexTypeOK, Strings
<1>3. CASE TextChar
  <2>1. Append(buf.text, Char(pos)) \in Seq(Symbols)
    BY <1>1, <1>3, CharIn, AppendProperties DEF LexTypeOK, TextChar
  <2>2. buf' = [buf EXCEPT !.text = Append(buf.text, Char(pos))] /\ pos' = pos + 1 /\ at = "text"
        /\ pos < Len(source) /\ UNCHANGED <<source, tokens, inTag, at>>
    BY <1>3 DEF TextChar
  <2>3. buf' \in [text : Seq(Symbols), from : Nat, quote : Quotes \cup {"NUL"}]
    BY <1>1, <2>1, <2>2, Rewritten
  <2> QED
    BY <1>1, <2>2, <2>3, ReadsOn DEF LexTypeOK, Strings
<1>4. CASE SkipWhite
  <2>1. PastChars(pos, White) \in pos..Len(source)
    BY <1>1, <1>4, StopsPastChars DEF LexTypeOK, SkipWhite, Inside
  <2> QED
    BY <1>1, <1>4, <2>1, ReadsOn DEF LexTypeOK, SkipWhite, Inside, Tags, Strings
<1>5. CASE SkipUnknown
  <2>1. at \in Tags /\ pos < Len(source) /\ pos' = pos + 1 /\ UNCHANGED <<source, tokens, inTag, at, buf>>
    BY <1>5 DEF SkipUnknown, Inside
  <2> QED
    BY <1>1, <2>1, ReadsOn DEF LexTypeOK, Tags, Strings
<1>6. CASE StringChar
  BY <1>1, <1>6, ReadsOn DEF LexTypeOK, StringChar, InStringOf, StringGoesOn, Strings
<1> QED
  BY <1>2, <1>3, <1>4, <1>5, <1>6

-----------------------------------------------------------------------------
(* Steps within a tag that make a token.                                   *)
LEMMA InTag ==
    ASSUME LexInv, at \in Tags \cup Strings
    PROVE  /\ inTag /\ Unfinished(tokens) /\ EndsOpen(tokens) /\ ~EndsInText(tokens)
           /\ at \notin {"outer", "text", "raw", "end"}
<1>1. at \notin {"outer", "text", "raw", "end"}
  BY DEF Tags, Strings
<1> QED
  BY <1>1, NotInText DEF LexInv, LexTypeOK, Brackets, Unfinished

LEMMA TokenInTag ==
    ASSUME LexInv, at \in Tags \cup Strings, at' \in Tags \cup Strings,
           at = at' \/ (at = "string" /\ at' = "tag") \/ (at = "rawstring" /\ at' = "rawtag"),
           NEW tok \in TokenSet, tok.type \notin Opens \cup Endings \cup {"TEXT", "EOF"},
           tokens' = Append(tokens, tok), pos' \in Nat, pos' <= Len(source) + 1,
           UNCHANGED <<source, inTag>>,
           buf' \in [text : Seq(Symbols), from : Nat, quote : Quotes \cup {"NUL"}]
    PROVE  LexInv'
<1>1. /\ inTag /\ Unfinished(tokens) /\ EndsOpen(tokens)
      /\ at' \notin {"outer", "text", "raw", "end"} /\ at' \in Loops
  BY InTag DEF Tags, Strings, Loops
<1>2. Placed(tokens, tok)
  BY <1>1 DEF Placed
<1>3. tokens' \in Seq(TokenSet) /\ Bracketed(tokens') /\ EndsOpen(tokens') /\ ~Ended(tokens')
  BY <1>1, <1>2, OneMore DEF Ended
<1>4. LexTypeOK'
  BY <1>1, <1>3 DEF LexInv, LexTypeOK
<1>5. Positions'
  <2>1. ASSUME NEW k \in 1..Len(tokens) PROVE k \in 1..Len(tokens') /\ tokens'[k] = tokens[k]
    BY AppendProperties DEF LexInv, LexTypeOK
  <2>2. at' \in {"rawtag", "rawstring", "raw"} => at \in {"rawtag", "rawstring", "raw"}
    BY <1>1 DEF Tags, Strings
  <2> QED
    BY <1>1, <2>1, <2>2 DEF LexInv, Positions
<1>6. Brackets'
  BY <1>1, <1>3 DEF LexInv, Brackets
<1> QED
  BY <1>4, <1>5, <1>6 DEF LexInv

LEMMA InsideTag ==
    ASSUME LexInv, Inside
    PROVE  /\ source \in Seq(Symbols) /\ Len(source) \in Nat /\ pos \in Nat /\ pos < Len(source)
           /\ at \in Tags /\ LexTypeOK
  BY DEF LexInv, LexTypeOK, Inside

LEMMA Mark ==
    ASSUME NEW type \in {"STRIP", "DOT", "DOT_DOT", "SLASH", "EQUALS", "OPEN_PAREN", "CLOSE_PAREN", "PIPE",
                         "SEG_LITERAL", "NUMBER", "STRING", "ID", "BOOLEAN", "NULL", "UNDEFINED", "AS"}
    PROVE  type \in TokenTypes /\ type \notin Opens \cup Endings \cup {"TEXT", "EOF"}
  BY DEF TokenTypes, Opens, Endings, Closes, Valued, Marks

LEMMA MarkType ==
    ASSUME NEW c \in DOMAIN MarkTypes
    PROVE  MarkTypes[c] \in {"STRIP", "DOT", "SLASH", "EQUALS", "OPEN_PAREN", "CLOSE_PAREN", "PIPE"}
<1>1. c \in {"~", ".", "/", "=", "(", ")", "|"}
  BY DEF MarkTypes
<1> QED
  BY <1>1 DEF MarkTypes

LEMMA IdentifierType ==
    ASSUME NEW id PROVE IdType(id) \in {"ID", "BOOLEAN", "NULL", "UNDEFINED", "AS"}
  BY DEF IdType

LEMMA EmitsInTag ==
    ASSUME LexInv, Inside, NEW type, NEW v \in Seq(Symbols), NEW from \in Nat, NEW to \in Nat,
           type \in {"STRIP", "DOT", "DOT_DOT", "SLASH", "EQUALS", "OPEN_PAREN", "CLOSE_PAREN", "PIPE",
                     "SEG_LITERAL", "NUMBER", "STRING", "ID", "BOOLEAN", "NULL", "UNDEFINED", "AS"},
           to <= Len(source) + 1, Emit(Token(type, v, from, to), to), UNCHANGED <<source, inTag, at, buf>>
    PROVE  LexInv'
<1>1. Token(type, v, from, to) \in TokenSet /\ Token(type, v, from, to).type = type
  <2>1. type \in TokenTypes
    BY Mark
  <2> QED
    BY <2>1, TokenIn
<1>2. type \notin Opens \cup Endings \cup {"TEXT", "EOF"}
  BY Mark
<1>3. at \in Tags \cup Strings /\ at' = at
      /\ buf' \in [text : Seq(Symbols), from : Nat, quote : Quotes \cup {"NUL"}]
  BY InsideTag DEF LexTypeOK
<1> QED
  BY <1>1, <1>2, <1>3, TokenInTag DEF Emit

LEMMA ReadingMark == ASSUME LexInv, ReadMark PROVE LexInv'
<1>1. Inside /\ Char(pos) \in DOMAIN MarkTypes /\ UNCHANGED <<source, inTag, at, buf>>
  BY DEF ReadMark
<1>2. <<>> \in Seq(Symbols) /\ pos \in Nat /\ pos + 1 \in Nat /\ pos + 2 \in Nat
      /\ pos + 1 <= Len(source) + 1 /\ pos + 2 <= Len(source) + 1
  BY <1>1, InsideTag, EmptySeq
<1>3. CASE Emit(Token("DOT_DOT", <<>>, pos, pos + 2), pos + 2)
  BY <1>1, <1>2, <1>3, EmitsInTag
<1>4. CASE Emit(Token(MarkTypes[Char(pos)], <<>>, pos, pos + 1), pos + 1)
  <2>1. MarkTypes[Char(pos)] \in {"STRIP", "DOT", "SLASH", "EQUALS", "OPEN_PAREN", "CLOSE_PAREN", "PIPE"}
    BY <1>1, MarkType
  <2> DEFINE type == MarkTypes[Char(pos)]
  <2> HIDE DEF type
  <2>2. Emit(Token(type, <<>>, pos, pos + 1), pos + 1)
    BY <1>4 DEF type
  <2>3. type \in {"STRIP", "DOT", "SLASH", "EQUALS", "OPEN_PAREN", "CLOSE_PAREN", "PIPE"}
    BY <2>1 DEF type
  <2> QED
    BY <1>1, <1>2, <2>2, <2>3, EmitsInTag
<1> QED
  BY <1>3, <1>4 DEF ReadMark

LEMMA ReadingSegment == ASSUME LexInv, ReadSegment PROVE LexInv'
<1> DEFINE stop == UntilMark(pos + 1, <<"]">>)
           to   == IF stop < Len(source) THEN stop + 1 ELSE stop
<1>1. Inside /\ Emit(Token("SEG_LITERAL", Slice(pos + 1, stop), pos + 1, to), to)
      /\ UNCHANGED <<source, inTag, at, buf>>
  BY DEF ReadSegment
<1>2. stop \in (pos + 1)..Len(source)
  BY <1>1, InsideTag, StopsAtMark
<1> HIDE DEF stop
<1>3. to \in Nat /\ to <= Len(source) + 1 /\ pos + 1 \in Nat /\ stop \in Nat /\ stop <= Len(source)
  BY <1>1, <1>2, InsideTag
<1>4. Slice(pos + 1, stop) \in Seq(Symbols)
  BY <1>1, <1>3, InsideTag, SliceIn
<1> HIDE DEF to
<1> QED
  BY <1>1, <1>3, <1>4, EmitsInTag

LEMMA NumberStops ==
    ASSUME LexInv, Inside
    PROVE  LET whole == PastChars(pos + 1, Digits)
               to    == IF Char(whole) = "." THEN PastChars(whole + 1, Digits) ELSE whole
           IN  to \in (pos + 1)..Len(source) /\ pos <= to
<1> DEFINE whole == PastChars(pos + 1, Digits)
           to    == IF Char(whole) = "." THEN PastChars(whole + 1, Digits) ELSE whole
<1>1. Inside
  OBVIOUS
<1>2. whole \in (pos + 1)..Len(source)
  BY <1>1, InsideTag, StopsPastChars
<1> HIDE DEF whole
<1>3. to \in (pos + 1)..Len(source)
  <2>1. CASE Char(whole) = "."
    <3>1. whole + 1 \in 0..Len(source)
      BY <1>1, <1>2, <2>1, InsideTag, CharIn
    <3>2. PastChars(whole + 1, Digits) \in (whole + 1)..Len(source)
      BY <1>1, <3>1, InsideTag, StopsPastChars
    <3> QED
      BY <1>1, <1>2, <2>1, <3>2, InsideTag
  <2>2. CASE Char(whole) # "."
    BY <1>2, <2>2
  <2> QED
    BY <2>1, <2>2
<1> HIDE DEF to
<1>4. pos <= to
  BY <1>1, <1>3, InsideTag
<1> QED
  BY <1>3, <1>4 DEF to, whole

LEMMA ReadingNumber == ASSUME LexInv, ReadNumber PROVE LexInv'
<1> DEFINE whole == PastChars(pos + 1, Digits)
           to    == IF Char(whole) = "." THEN PastChars(whole + 1, Digits) ELSE whole
<1>1. Inside /\ Emit(Token("NUMBER", Slice(pos, to), pos, to), to) /\ UNCHANGED <<source, inTag, at, buf>>
  BY DEF ReadNumber
<1>2. to \in (pos + 1)..Len(source)
  BY <1>1, NumberStops
<1> HIDE DEF to
<1>3. to \in Nat /\ to <= Len(source) + 1 /\ Slice(pos, to) \in Seq(Symbols) /\ pos \in Nat
  BY <1>1, <1>2, InsideTag, SliceIn
<1> QED
  BY <1>1, <1>3, EmitsInTag

LEMMA ReadingIdentifier == ASSUME LexInv, ReadIdentifier PROVE LexInv'
<1> DEFINE to == PastChars(pos + 1, IdChars)
           id == Slice(pos, to)
<1>1. Inside /\ Emit(Token(IdType(id), id, pos, to), to) /\ UNCHANGED <<source, inTag, at, buf>>
  BY DEF ReadIdentifier
<1>2. to \in (pos + 1)..Len(source)
  BY <1>1, InsideTag, StopsPastChars
<1> HIDE DEF to
<1>3. to \in Nat /\ to <= Len(source) + 1 /\ id \in Seq(Symbols) /\ pos \in Nat
  BY <1>1, <1>2, InsideTag, SliceIn
<1> HIDE DEF id
<1> QED
  BY <1>1, <1>3, IdentifierType, EmitsInTag

LEMMA StartingString == ASSUME LexInv, StartString PROVE LexInv'
<1>1. Inside /\ pos' = pos + 1 /\ at' = InString(at) /\ Char(pos) \in Quotes
      /\ buf' = [Nothing EXCEPT !.from = pos + 1, !.quote = Char(pos)] /\ UNCHANGED <<source, tokens, inTag>>
  BY DEF StartString
<1>2. at \in Tags /\ at' \in Strings /\ at' \in Loops /\ (at' = "rawstring" <=> at = "rawtag")
      /\ at \notin {"outer", "text", "raw", "end"} /\ at' \notin {"outer", "text", "raw", "end"}
  BY <1>1 DEF InString, Strings, Tags, Loops, Inside
<1>3. LexTypeOK'
  <2>1. buf' = [text |-> <<>>, from |-> pos + 1, quote |-> Char(pos)]
    BY <1>1 DEF Nothing
  <2>2. buf' \in [text : Seq(Symbols), from : Nat, quote : Quotes \cup {"NUL"}]
    <3>1. <<>> \in Seq(Symbols) /\ pos + 1 \in Nat /\ Char(pos) \in Quotes \cup {"NUL"}
      BY <1>1, InsideTag, EmptySeq
    <3> QED
      BY <2>1, <3>1, Zenon
  <2> QED
    BY <1>1, <1>2, <2>2, InsideTag DEF LexTypeOK
<1>4. Positions'
  BY <1>1, <1>2, InsideTag DEF LexInv, Positions, Tags, Strings
<1>5. Brackets'
  BY <1>1, <1>2 DEF LexInv, Brackets
<1> QED
  BY <1>3, <1>4, <1>5 DEF LexInv

LEMMA EndingString == ASSUME LexInv, EndString PROVE LexInv'
<1> DEFINE stop == IF pos < Len(source) THEN pos ELSE Len(source)
           to   == IF pos < Len(source) THEN pos + 1 ELSE pos
           tok  == Token("STRING", Slice(buf.from, stop), buf.from, to)
<1>1. /\ at \in Strings /\ at' = (IF at = "rawstring" THEN "rawtag" ELSE "tag")
      /\ Emit(tok, to) /\ buf' = Nothing /\ UNCHANGED <<source, inTag>>
  BY DEF EndString, InStringOf, Strings
<1>2. source \in Seq(Symbols) /\ Len(source) \in Nat /\ pos \in Nat /\ pos <= Len(source) + 1 /\ buf.from \in Nat
  BY DEF LexInv, LexTypeOK, Positions
<1>3. stop \in Nat /\ stop <= Len(source) /\ to \in Nat /\ to <= Len(source) + 1
  BY <1>2
<1> HIDE DEF stop, to
<1>4. Slice(buf.from, stop) \in Seq(Symbols)
  BY <1>2, <1>3, SliceIn
<1>5. tok \in TokenSet /\ tok.type = "STRING"
  <2>1. "STRING" \in TokenTypes
    BY DEF TokenTypes, Valued
  <2> QED
    BY <1>2, <1>3, <1>4, <2>1, TokenIn
<1>6. tok.type \notin Opens \cup Endings \cup {"TEXT", "EOF"}
  BY <1>5, Mark
<1>7. at' \in Tags \cup Strings /\ ((at = "string" /\ at' = "tag") \/ (at = "rawstring" /\ at' = "rawtag"))
  BY <1>1 DEF Tags, Strings
<1>8. buf' \in [text : Seq(Symbols), from : Nat, quote : Quotes \cup {"NUL"}]
  BY <1>1, EmptySeq DEF Nothing
<1> HIDE DEF tok
<1> QED
  BY <1>1, <1>3, <1>5, <1>6, <1>7, <1>8, TokenInTag DEF Emit

(* The two ways out of a tag.                                              *)
LEMMA ClosingTag == ASSUME LexInv, CloseTag PROVE LexInv'
<1> DEFINE n   == CloseLen(pos)
           tok == Token(CloseTypes[n], <<>>, pos, pos + n)
<1>1. /\ Inside /\ n # 0 /\ Emit(tok, pos + n) /\ inTag' = FALSE /\ at' = After(at)
      /\ UNCHANGED <<source, buf>>
  BY DEF CloseTag
<1>2. n \in {2, 3, 4} /\ pos + n <= Len(source)
  <2>1. \A k \in {2, 3, 4} : Looking(pos, EndBraces(k)) => pos + k <= Len(source)
    BY <1>1, InsideTag, Marking, LookingIn
  <2> QED
    BY <1>1, <2>1 DEF CloseLen
<1> HIDE DEF n
<1>3. CloseTypes[n] \in Closes
  <2>1. CloseTypes[2] = "CLOSE" /\ CloseTypes[3] = "CLOSE_UNESC" /\ CloseTypes[4] = "CLOSE_RAW_BLOCK"
    BY DEF CloseTypes
  <2> QED
    BY <1>2, <2>1 DEF Closes
<1>4. tok \in TokenSet /\ tok.type \in Closes
  <2>1. CloseTypes[n] \in TokenTypes
    BY <1>3 DEF TokenTypes
  <2>2. pos \in Nat /\ pos + n \in Nat
    BY <1>1, <1>2, InsideTag
  <2> QED
    BY <1>3, <2>1, <2>2, EmptySeq, TokenIn
<1> HIDE DEF tok
<1>5. tok.type \in Endings /\ tok.type \notin Opens \cup {"TEXT", "EOF"}
  BY <1>4 DEF Endings, Opens, Closes
<1>6. at \in Tags /\ Unfinished(tokens) /\ EndsOpen(tokens)
  BY <1>1, InsideTag, InTag
<1>7. Placed(tokens, tok)
  BY <1>5, <1>6 DEF Placed
<1>8. tokens' = Append(tokens, tok) /\ pos' = pos + n
  BY <1>1 DEF Emit
<1>9. tokens' \in Seq(TokenSet) /\ Bracketed(tokens') /\ ~EndsOpen(tokens') /\ ~Ended(tokens') /\ ~EndsInText(tokens')
  <2>1. tok \in TokenSet /\ tok.type # "EOF" /\ tok.type # "TEXT"
    BY <1>4, <1>5
  <2>2. tokens' \in Seq(TokenSet) /\ Bracketed(tokens') /\ ~EndsOpen(tokens')
        /\ \A type : EndsWith(tokens', type) <=> tok.type = type
    BY <1>5, <1>6, <1>7, <1>8, <2>1, OneMore
  <2> QED
    BY <2>1, <2>2 DEF Ended, EndsInText
<1>10. at' \in {"outer", "raw"} /\ at' \in Loops /\ at' \notin Tags \cup Strings /\ (at' = "raw" => at = "rawtag")
  BY <1>1 DEF After, Loops, Tags, Strings
<1>11. LexTypeOK'
  <2>1. pos' \in Nat
    BY <1>1, <1>2, <1>8, InsideTag
  <2> QED
    BY <1>1, <1>9, <1>10, <2>1, InsideTag DEF LexTypeOK
<1>12. Positions'
  <2>1. ASSUME NEW k \in 1..Len(tokens) PROVE k \in 1..Len(tokens') /\ tokens'[k] = tokens[k]
    BY <1>1, <1>4, <1>8, InsideTag, AppendProperties DEF LexTypeOK
  <2> QED
    BY <1>1, <1>2, <1>8, <1>10, <2>1, InsideTag DEF LexInv, Positions
<1>13. Brackets'
  BY <1>1, <1>9, <1>10 DEF Brackets
<1> QED
  BY <1>11, <1>12, <1>13 DEF LexInv

LEMMA EndingSource == ASSUME LexInv, EndOfSource PROVE LexInv'
<1>1. at \in Tags /\ pos >= Len(source) /\ at' = After(at) /\ UNCHANGED <<source, tokens, pos, inTag, buf>>
  BY DEF EndOfSource
<1>2. at' \in {"outer", "raw"} /\ at' \in Loops /\ at' \notin Tags \cup Strings /\ (at' = "raw" => at = "rawtag")
  BY <1>1 DEF After, Loops, Tags, Strings
<1>3. inTag /\ ~Ended(tokens) /\ ~EndsInText(tokens)
  BY <1>1, InTag DEF Unfinished
<1>4. LexTypeOK' /\ Positions'
  BY <1>1, <1>2 DEF LexInv, LexTypeOK, Positions
<1>5. Brackets'
  BY <1>1, <1>2, <1>3 DEF LexInv, Brackets
<1> QED
  BY <1>4, <1>5 DEF LexInv

-----------------------------------------------------------------------------
(* Steps outside of tags.                                                  *)
LEMMA OutsideTag ==
    ASSUME LexInv, Outer
    PROVE  /\ source \in Seq(Symbols) /\ Len(source) \in Nat /\ pos \in Nat /\ pos < Len(source)
           /\ at = "outer" /\ ~inTag /\ Unfinished(tokens) /\ ~EndsOpen(tokens) /\ LexTypeOK
           /\ EndsInText(tokens) => Looking(pos, Braces(2))
  BY DEF LexInv, LexTypeOK, Brackets, Outer, Unfinished

LEMMA StartingText == ASSUME LexInv, StartText PROVE LexInv'
<1>1. /\ Outer /\ ~Looking(pos, Braces(2)) /\ at' = "text" /\ buf' = [Nothing EXCEPT !.from = pos]
      /\ UNCHANGED <<source, tokens, pos, inTag>>
  BY DEF StartText
<1>2. at' \in Loops /\ at' \notin Tags \cup Strings
  BY <1>1 DEF Loops, Tags, Strings
<1>3. buf' \in [text : Seq(Symbols), from : Nat, quote : Quotes \cup {"NUL"}]
  BY <1>1, OutsideTag, EmptySeq DEF Nothing
<1>4. LexTypeOK'
  BY <1>1, <1>2, <1>3, OutsideTag DEF LexTypeOK
<1>5. Positions'
  BY <1>1, OutsideTag DEF Positions
<1>6. ~EndsInText(tokens)
  BY <1>1, OutsideTag
<1>7. Brackets'
  BY <1>1, <1>2, <1>6, OutsideTag DEF Brackets, Unfinished
<1> QED
  BY <1>4, <1>5, <1>7 DEF LexInv

LEMMA EndingText == ASSUME LexInv, EndText PROVE LexInv'
<1> DEFINE tok == Token("TEXT", buf.text, buf.from, pos)
<1>1. /\ at = "text" /\ (pos >= Len(source) \/ Looking(pos, Braces(2))) /\ at' = "outer" /\ buf' = Nothing
      /\ tokens' = (IF buf.text = <<>> THEN tokens ELSE Append(tokens, tok))
      /\ UNCHANGED <<source, pos, inTag>>
  BY DEF EndText
<1>2. /\ at \notin Tags \cup Strings /\ at' \in Loops /\ at' \notin Tags \cup Strings
      /\ buf' \in [text : Seq(Symbols), from : Nat, quote : Quotes \cup {"NUL"}]
  BY <1>1, EmptySeq DEF Loops, Tags, Strings, Nothing
<1>3. ~inTag /\ Unfinished(tokens) /\ ~EndsOpen(tokens) /\ ~EndsInText(tokens)
  BY <1>1 DEF LexInv, LexTypeOK, Brackets, Unfinished
<1>4. tok \in TokenSet /\ tok.type = "TEXT"
  BY Sides, TokenIn DEF LexInv, LexTypeOK
<1> HIDE DEF tok
<1>5. tokens' \in Seq(TokenSet) /\ Bracketed(tokens') /\ ~EndsOpen(tokens') /\ ~Ended(tokens')
  <2>1. CASE buf.text = <<>>
    BY <1>1, <1>3, <2>1 DEF Unfinished
  <2>2. CASE buf.text # <<>>
    <3>1. Placed(tokens, tok)
      BY <1>3, <1>4 DEF Placed
    <3>2. /\ tokens' \in Seq(TokenSet) /\ Bracketed(tokens')
          /\ EndsOpen(tokens') <=> tok.type \in Opens \/ (EndsOpen(tokens) /\ tok.type \notin Endings)
          /\ \A type : EndsWith(tokens', type) <=> tok.type = type
      BY <1>1, <1>3, <1>4, <2>2, <3>1, OneMore
    <3> QED
      BY <1>3, <1>4, <3>2, Sides DEF Ended
  <2> QED
    BY <2>1, <2>2
<1>6. LexTypeOK' /\ Positions'
  BY <1>1, <1>2, <1>5 DEF LexInv, LexTypeOK, Positions
<1>7. Brackets'
  <2>1. (pos >= Len(source) \/ Looking(pos, Braces(2)))'
    BY <1>1 DEF Looking, Slice, Braces
  <2> QED
    BY <1>1, <1>2, <1>3, <1>5, <2>1 DEF Brackets
<1> QED
  BY <1>6, <1>7 DEF LexInv

LEMMA EndingTokens == ASSUME LexInv, EndOfTokens PROVE LexInv'
<1> DEFINE tok == Token("EOF", <<>>, pos, pos)
<1>1. at = "outer" /\ at' = "end" /\ tokens' = Append(tokens, tok) /\ UNCHANGED <<source, pos, inTag, buf>>
  BY DEF EndOfTokens
<1>2. at' \in Loops /\ at' \notin Tags \cup Strings
  BY <1>1 DEF Loops, Tags, Strings
<1>3. Unfinished(tokens) /\ pos \in Nat
  BY <1>1 DEF LexInv, LexTypeOK, Brackets, Unfinished
<1>4. tok \in TokenSet /\ tok.type = "EOF"
  BY <1>3, Sides, EmptySeq, TokenIn
<1> HIDE DEF tok
<1>5. Placed(tokens, tok)
  BY <1>4, Sides DEF Placed
<1>6. tokens' \in Seq(TokenSet) /\ Bracketed(tokens') /\ Ended(tokens')
  BY <1>1, <1>3, <1>4, <1>5, OneMore DEF Ended
<1>7. LexTypeOK' /\ Positions'
  BY <1>1, <1>2, <1>6 DEF LexInv, LexTypeOK, Positions
<1>8. Brackets'
  BY <1>1, <1>2, <1>6 DEF Brackets
<1> QED
  BY <1>7, <1>8 DEF LexInv

(* A tag is opened: by a token, by two with a tilde.                       *)
LEMMA TagOpened ==
    ASSUME LexInv, Outer, NEW type \in Opens, NEW to \in Nat, NEW tilde \in BOOLEAN
    PROVE  LET tok  == Token(type, <<>>, pos, to)
               toks == IF tilde THEN <<tok, Token("STRIP", <<>>, pos, to)>> ELSE <<tok>>
           IN  /\ Unfinished(tokens \o toks) /\ EndsOpen(tokens \o toks)
               /\ \E k \in 1..Len(tokens \o toks) : (tokens \o toks)[k].type = type
<1> DEFINE tok  == Token(type, <<>>, pos, to)
           strip == Token("STRIP", <<>>, pos, to)
           one  == Append(tokens, tok)
           two  == Append(one, strip)
<1>1. pos \in Nat /\ tokens \in Seq(TokenSet) /\ Unfinished(tokens) /\ ~EndsOpen(tokens)
  BY OutsideTag DEF LexTypeOK
<1>2. /\ tok \in TokenSet /\ tok.type = type /\ type # "TEXT" /\ type # "EOF" /\ type \notin Endings
      /\ strip \in TokenSet /\ strip.type = "STRIP"
  <2>1. type \in TokenTypes /\ type # "TEXT" /\ type # "EOF" /\ type \notin Endings
    BY Sides
  <2>2. "STRIP" \in TokenTypes /\ <<>> \in Seq(Symbols)
    BY Mark, EmptySeq
  <2> QED
    BY <1>1, <2>1, <2>2, TokenIn
<1> HIDE DEF tok, strip
<1>3. Placed(tokens, tok)
  BY <1>1, <1>2 DEF Placed
<1>4. Unfinished(one) /\ EndsOpen(one)
  BY <1>1, <1>2, <1>3, OneMore DEF Unfinished, Ended
<1>5. Len(tokens) + 1 \in 1..Len(one) /\ one[Len(tokens) + 1] = tok
  BY <1>1, <1>2, AppendProperties
<1> HIDE DEF one
<1>6. Len(tokens) + 1 \in 1..Len(two) /\ two[Len(tokens) + 1] = tok
  BY <1>2, <1>4, <1>5, AppendProperties DEF Unfinished
<1> HIDE DEF two
<1>7. Placed(one, strip)
  BY <1>2, <1>4, Mark DEF Placed
<1>8. Unfinished(two) /\ EndsOpen(two)
  BY <1>2, <1>4, <1>7, Mark, OneMore DEF Unfinished, Ended, two
<1>9. tokens \o <<tok>> = one /\ tokens \o <<tok, strip>> = two
  BY <1>1, <1>2, AppendIsConcat, ConcatProperties, AppendProperties DEF one, two
<1> QED
  BY <1>2, <1>4, <1>8, <1>9, <1>5, <1>6 DEF tok, strip

LEMMA TagStarted ==
    ASSUME LexInv, Outer, NEW type \in Opens, NEW to \in Nat, NEW tilde \in BOOLEAN, to <= Len(source),
           NEW loop \in Tags, loop = "rawtag" => type = "OPEN_RAW_BLOCK",
           StartTag(LET tok == Token(type, <<>>, pos, to)
                    IN  IF tilde THEN <<tok, Token("STRIP", <<>>, pos, to)>> ELSE <<tok>>, to, loop)
    PROVE  LexInv'
<1> DEFINE tok  == Token(type, <<>>, pos, to)
           toks == IF tilde THEN <<tok, Token("STRIP", <<>>, pos, to)>> ELSE <<tok>>
<1>1. tokens' = tokens \o toks /\ pos' = to /\ inTag' = TRUE /\ at' = loop /\ UNCHANGED <<source, buf>>
  BY DEF StartTag
<1>2. Unfinished(tokens') /\ EndsOpen(tokens') /\ \E k \in 1..Len(tokens') : tokens'[k].type = type
  <2>1. /\ Unfinished(tokens \o toks) /\ EndsOpen(tokens \o toks)
        /\ \E k \in 1..Len(tokens \o toks) : (tokens \o toks)[k].type = type
    BY TagOpened
  <2> QED
    BY <1>1, <2>1
<1>3. at' \in Loops /\ at' \notin {"outer", "text", "raw", "end", "rawstring"}
  BY <1>1 DEF Loops, Tags
<1>4. LexTypeOK'
  BY <1>1, <1>2, <1>3, OutsideTag DEF LexTypeOK, Unfinished
<1>5. Positions'
  <2>1. ASSUME loop = "rawtag" PROVE \E k \in 1..Len(tokens') : tokens'[k].type = "OPEN_RAW_BLOCK"
    BY <1>2, <2>1
  <2>2. pos' <= Len(source') + 1 /\ at' # "text" /\ (at' \in {"rawtag", "rawstring", "raw"} => loop = "rawtag")
    BY <1>1, <1>3, OutsideTag
  <2> QED
    BY <2>1, <2>2 DEF Positions
<1>6. Brackets'
  BY <1>1, <1>2, <1>3 DEF Brackets, Unfinished
<1> QED
  BY <1>4, <1>5, <1>6 DEF LexInv

LEMMA OpenedBy ==
    ASSUME LexInv, Outer, NEW n \in Nat, Looking(pos, Braces(n))
    PROVE  pos + n <= Len(source) /\ pos + n \in Nat
<1>1. pos \in Nat /\ source \in Seq(Symbols) /\ Braces(n) \in Seq(Symbols) /\ Len(Braces(n)) = n
  BY OutsideTag, Marking
<1> QED
  BY <1>1, LookingIn

LEMMA OpeningRaw == ASSUME LexInv, OpenRawBlock \/ OpenUnescaped PROVE LexInv'
<1>1. \A n \in Nat : Outer /\ Looking(pos, Braces(n)) => pos + n <= Len(source) /\ pos + n \in Nat
  BY OpenedBy
<1>2. CASE OpenRawBlock
  <2>1. /\ Outer /\ Looking(pos, Braces(4))
        /\ StartTag(<<Token("OPEN_RAW_BLOCK", <<>>, pos, pos + 4)>>, pos + 4, "rawtag")
    BY <1>2 DEF OpenRawBlock, RawOpens
  <2>2. "OPEN_RAW_BLOCK" \in Opens /\ "rawtag" \in Tags
    BY DEF Opens, Tags
  <2>3. pos + 4 <= Len(source) /\ pos + 4 \in Nat
    BY <1>1, <2>1
  <2> QED
    BY <2>1, <2>2, <2>3, TagStarted
<1>3. CASE OpenUnescaped
  <2>1. /\ Outer /\ Looking(pos, Braces(3))
        /\ StartTag(<<Token("OPEN_UNESC", <<>>, pos, pos + 3)>>, pos + 3, "tag")
    BY <1>3 DEF OpenUnescaped
  <2>2. "OPEN_UNESC" \in Opens /\ "tag" \in Tags /\ "tag" # "rawtag"
    BY DEF Opens, Tags
  <2>3. pos + 3 <= Len(source) /\ pos + 3 \in Nat
    BY <1>1, <2>1
  <2> QED
    BY <2>1, <2>2, <2>3, TagStarted
<1> QED
  BY <1>2, <1>3

(* The kind of tag takes no more characters than there are.                *)
LEMMA KindOfTag ==
    ASSUME source \in Seq(Symbols), NEW p \in Nat, p <= Len(source)
    PROVE  TagKind(p)[1] \in Opens /\ p + TagKind(p)[2] \in p..Len(source)
<1> DEFINE n == Len(source)
<1>1. n \in Nat /\ p <= n
  OBVIOUS
<1>2. \A c, d \in Symbols : Looking(p, <<c, d>>) => p + 2 <= n
  <2> SUFFICES ASSUME NEW c \in Symbols, NEW d \in Symbols, Looking(p, <<c, d>>) PROVE p + 2 <= n
    OBVIOUS
  <2>1. <<c, d>> \in Seq(Symbols) /\ Len(<<c, d>>) = 2
    OBVIOUS
  <2> QED
    BY <2>1, LookingIn
<1>3. {"#", ">", "*"} \subseteq Symbols
  BY DEF Symbols, Signs
<1>4. Char(p) \in DOMAIN TagTypes => p + 1 <= n /\ TagTypes[Char(p)] \in Opens
  <2> SUFFICES ASSUME Char(p) \in DOMAIN TagTypes PROVE p + 1 <= n /\ TagTypes[Char(p)] \in Opens
    OBVIOUS
  <2>1. Char(p) \in {"#", "/", ">", "!", "^", "&"}
    BY DEF TagTypes
  <2>2. TagTypes[Char(p)] \in {"OPEN_BLOCK", "OPEN_END_BLOCK", "OPEN_PARTIAL", "OPEN_COMMENT",
                               "OPEN_INVERSE", "OPEN_UNESC_AMP"}
    BY <2>1 DEF TagTypes
  <2>3. p < n
    BY <2>1, CharIn
  <2> QED
    BY <1>1, <2>2, <2>3 DEF Opens
<1> HIDE DEF n
<1>5. CASE Looking(p, <<"#", ">">>)
  <2>1. TagKind(p) = <<"OPEN_PARTIAL_BLOCK", 2>>
    BY <1>5 DEF TagKind
  <2>2. p + 2 <= n
    BY <1>2, <1>3, <1>5
  <2>3. TagKind(p)[1] = "OPEN_PARTIAL_BLOCK" /\ TagKind(p)[2] = 2
    BY <2>1
  <2> QED
    BY <1>1, <2>2, <2>3 DEF Opens, n
<1>6. CASE ~Looking(p, <<"#", ">">>) /\ Looking(p, <<"#", "*">>)
  <2>1. TagKind(p) = <<"OPEN_DECORATOR", 2>>
    BY <1>6 DEF TagKind
  <2>2. p + 2 <= n
    BY <1>2, <1>3, <1>6
  <2>3. TagKind(p)[1] = "OPEN_DECORATOR" /\ TagKind(p)[2] = 2
    BY <2>1
  <2> QED
    BY <1>1, <2>2, <2>3 DEF Opens, n
<1>7. CASE ~Looking(p, <<"#", ">">>) /\ ~Looking(p, <<"#", "*">>) /\ Char(p) \in DOMAIN TagTypes
  <2>1. TagKind(p) = <<TagTypes[Char(p)], 1>>
    BY <1>7 DEF TagKind
  <2>2. TagKind(p)[1] = TagTypes[Char(p)] /\ TagKind(p)[2] = 1
    BY <2>1
  <2>3. TagKind(p)[1] \in Opens
    BY <1>4, <1>7, <2>2
  <2> QED
    BY <1>1, <1>4, <1>7, <2>2, <2>3 DEF n
<1>8. CASE ~Looking(p, <<"#", ">">>) /\ ~Looking(p, <<"#", "*">>) /\ Char(p) \notin DOMAIN TagTypes
  <2>1. TagKind(p) = <<"OPEN", 0>>
    BY <1>8 DEF TagKind
  <2> QED
    BY <1>1, <2>1 DEF Opens
<1> QED
  BY <1>5, <1>6, <1>7, <1>8 DEF n

LEMMA OpeningKind ==
    ASSUME LexInv, OpensPlain
    PROVE  /\ Outer /\ Opening.type \in Opens /\ Opening.to \in Nat /\ Opening.to <= Len(source)
           /\ pos <= Opening.to
           /\ \E tilde \in BOOLEAN :
                 Opening.toks = LET tok == Token(Opening.type, <<>>, pos, Opening.to)
                                IN  IF tilde THEN <<tok, Token("STRIP", <<>>, pos, Opening.to)>> ELSE <<tok>>
<1> DEFINE tilde == Char(pos + 2) = "~"
           sign  == IF tilde THEN pos + 3 ELSE pos + 2
           to    == sign + TagKind(sign)[2]
           tok   == Token(TagKind(sign)[1], <<>>, pos, to)
           strip == Token("STRIP", <<>>, pos, to)
<1>1. Outer /\ Looking(pos, Braces(2))
  BY DEF OpensPlain
<1>2. pos + 2 \in Nat /\ pos + 2 <= Len(source) /\ source \in Seq(Symbols) /\ Len(source) \in Nat /\ pos \in Nat
  BY <1>1, OutsideTag, OpenedBy
<1>3. sign \in Nat /\ sign <= Len(source) /\ pos <= sign
  BY <1>2, CharIn
<1>4. Opening = [type |-> TagKind(sign)[1], to |-> to, toks |-> IF tilde THEN <<tok, strip>> ELSE <<tok>>]
  BY DEF Opening
<1> HIDE DEF sign
<1>5. TagKind(sign)[1] \in Opens /\ to \in sign..Len(source)
  BY <1>2, <1>3, KindOfTag
<1>6. Opening.type = TagKind(sign)[1] /\ Opening.to = to /\ Opening.toks = (IF tilde THEN <<tok, strip>> ELSE <<tok>>)
  BY <1>4
<1> HIDE DEF to
<1>7. to \in Nat /\ to <= Len(source) /\ pos <= to
  BY <1>2, <1>3, <1>5
<1> QED
  BY <1>1, <1>5, <1>6, <1>7

LEMMA OpeningTag == ASSUME LexInv, OpenTag PROVE LexInv'
<1>1. OpensPlain /\ StartTag(Opening.toks, Opening.to, "tag")
  BY DEF OpenTag
<1>2. PICK tilde \in BOOLEAN :
         Opening.toks = LET tok == Token(Opening.type, <<>>, pos, Opening.to)
                        IN  IF tilde THEN <<tok, Token("STRIP", <<>>, pos, Opening.to)>> ELSE <<tok>>
  BY <1>1, OpeningKind
<1>3. Outer /\ Opening.type \in Opens /\ Opening.to \in Nat /\ Opening.to <= Len(source)
      /\ "tag" \in Tags /\ "tag" # "rawtag"
  BY <1>1, OpeningKind DEF Tags
<1> QED
  BY <1>1, <1>2, <1>3, TagStarted

LEMMA Commenting ==
    ASSUME source \in Seq(Symbols), NEW p \in Nat, p <= Len(source)
    PROVE  /\ CommentBody(p).tok \in TokenSet /\ CommentBody(p).tok.type = "COMMENT_BODY"
           /\ CommentBody(p).to \in Nat /\ CommentBody(p).to <= Len(source) /\ p <= CommentBody(p).to
<1> DEFINE dashes == <<"-", "-">>
           long == Looking(p, dashes)
           mark == IF long THEN dashes \o EndBraces(2) ELSE EndBraces(2)
           from == IF long THEN p + 2 ELSE p
           stop == UntilMark(from, mark)
           to   == IF stop < Len(source) THEN stop + Len(mark) ELSE stop
           tok  == Token("COMMENT_BODY", Slice(from, stop), p, to)
<1>1. CommentBody(p) = [tok |-> tok, to |-> to]
  BY DEF CommentBody
<1>2. dashes \in Seq(Symbols) /\ Len(dashes) = 2
  <2>1. "-" \in Symbols
    BY DEF Symbols, Signs
  <2> QED
    BY <2>1
<1> HIDE DEF dashes
<1>3. mark \in Seq(Symbols)
  BY <1>2, Marking, ConcatProperties
<1>4. from \in 0..Len(source) /\ p <= from
  <2>1. long => p + 2 <= Len(source)
    BY <1>2, LookingIn
  <2>2. Len(source) \in Nat
    OBVIOUS
  <2> HIDE DEF long
  <2> QED
    BY <2>1, <2>2
<1> HIDE DEF mark, from
<1>5. stop \in from..Len(source) /\ (stop = Len(source) \/ Looking(stop, mark))
  BY <1>4, StopsAtMark
<1> HIDE DEF stop
<1>6. stop \in Nat /\ from \in Nat /\ stop <= Len(source) /\ Len(source) \in Nat
  BY <1>4, <1>5
<1>7. to \in Nat /\ to <= Len(source) /\ p <= to
  <2>1. p <= stop
    BY <1>4, <1>5, <1>6
  <2>2. stop # Len(source) => Len(mark) \in Nat /\ stop + Len(mark) <= Len(source)
    BY <1>3, <1>5, <1>6, LookingIn
  <2> QED
    BY <1>6, <2>1, <2>2
<1> HIDE DEF to
<1>8. tok \in TokenSet /\ tok.type = "COMMENT_BODY"
  <2>1. "COMMENT_BODY" \in TokenTypes
    BY DEF TokenTypes, Valued
  <2> QED
    BY <1>6, <1>7, <2>1, SliceIn, TokenIn
<1> QED
  BY <1>1, <1>7, <1>8

LEMMA OpeningComment == ASSUME LexInv, OpenComment PROVE LexInv'
<1> DEFINE body == CommentBody(Opening.to)
           opened == tokens \o Opening.toks
           tok == body.tok
<1>1. OpensPlain /\ tokens' = Append(opened, tok) /\ pos' = body.to /\ UNCHANGED <<source, inTag, at, buf>>
  BY DEF OpenComment
<1>2. PICK tilde \in BOOLEAN :
         Opening.toks = LET t == Token(Opening.type, <<>>, pos, Opening.to)
                        IN  IF tilde THEN <<t, Token("STRIP", <<>>, pos, Opening.to)>> ELSE <<t>>
  BY <1>1, OpeningKind
<1>3. Outer /\ Opening.type \in Opens /\ Opening.to \in Nat /\ Opening.to <= Len(source)
  BY <1>1, OpeningKind
<1>4. Unfinished(opened) /\ EndsOpen(opened)
  BY <1>2, <1>3, TagOpened
<1>5. tok \in TokenSet /\ tok.type = "COMMENT_BODY" /\ body.to \in Nat /\ body.to <= Len(source)
  BY <1>3, OutsideTag, Commenting
<1> HIDE DEF body, opened, tok
<1>6. tok.type \in Endings /\ tok.type \notin Opens \cup {"TEXT", "EOF"}
  BY <1>5 DEF Endings, Opens, Closes
<1>7. Placed(opened, tok)
  BY <1>4, <1>6 DEF Placed
<1>8. tokens' \in Seq(TokenSet) /\ Bracketed(tokens') /\ ~EndsOpen(tokens') /\ ~Ended(tokens') /\ ~EndsInText(tokens')
  <2>1. tokens' \in Seq(TokenSet) /\ Bracketed(tokens') /\ ~EndsOpen(tokens')
        /\ \A type : EndsWith(tokens', type) <=> tok.type = type
    BY <1>1, <1>4, <1>5, <1>6, <1>7, OneMore
  <2> QED
    BY <1>5, <2>1 DEF Ended, EndsInText
<1>9. at = "outer" /\ at' = "outer" /\ ~inTag /\ at' \notin Tags \cup Strings /\ Len(source) \in Nat
  BY <1>1, <1>3, OutsideTag DEF Tags, Strings
<1>10. LexTypeOK'
  BY <1>1, <1>3, <1>5, <1>8, OutsideTag DEF LexTypeOK
<1>11. Positions'
  BY <1>1, <1>5, <1>9 DEF Positions
<1>12. Brackets'
  BY <1>1, <1>8, <1>9 DEF Brackets
<1> QED
  BY <1>10, <1>11, <1>12 DEF LexInv

-----------------------------------------------------------------------------
(* The content of raw blocks.                                              *)
LEMMA HelperNamed == ASSUME LexInv, at = "raw" PROVE HelperName \in Seq(Symbols)
<1> DEFINE n == Len(tokens)
           Raw(k) == tokens[k].type = "OPEN_RAW_BLOCK"
           S == {m \in Nat : m < n /\ Raw(n - m)}
<1>1. tokens \in Seq(TokenSet) /\ n \in Nat /\ \A k \in 1..n : tokens[k] \in TokenSet
  BY ElementOfSeq DEF LexInv, LexTypeOK
<1>2. PICK k \in 1..n : Raw(k)
  BY DEF LexInv, Positions
<1> HIDE DEF n, Raw
<1>3. n - k \in S /\ S \in SUBSET Nat
  <2>1. n - (n - k) = k
    BY <1>1
  <2> QED
    BY <1>1, <1>2, <2>1
<1>4. PICK m \in S : \A x \in S : m <= x
  BY <1>3, LeastNatural
<1>5. n - m \in 1..n /\ Raw(n - m)
  BY <1>1, <1>4
<1>6. ASSUME NEW j \in (n - m + 1)..n, Raw(j) PROVE FALSE
  <2>1. n - j \in Nat /\ n - j < n /\ n - j < m /\ n - (n - j) = j
    BY <1>1, <1>4, <1>6
  <2> QED
    BY <1>1, <1>4, <1>6, <2>1
<1>7. \E i \in 1..n : Raw(i) /\ \A j \in (i + 1)..n : ~Raw(j)
  BY <1>5, <1>6
<1> DEFINE i == CHOOSE x \in 1..n : Raw(x) /\ \A j \in (x + 1)..n : ~Raw(j)
<1>8. i \in 1..n
  BY <1>7
<1>9. HelperName = IF i < n /\ tokens[i + 1].type = "ID" THEN tokens[i + 1].value ELSE <<>>
  BY DEF HelperName, n, Raw
<1> HIDE DEF i
<1>10. ASSUME i < n PROVE tokens[i + 1].value \in Seq(Symbols)
  BY <1>1, <1>8, <1>10 DEF TokenSet
<1> QED
  BY <1>9, <1>10, EmptySeq

(* Three tokens more are three times one token more.                       *)
LEMMA ThreeMore ==
    ASSUME NEW toks \in Seq(TokenSet), NEW a \in TokenSet, NEW b \in TokenSet, NEW c \in TokenSet
    PROVE  toks \o <<a, b, c>> = Append(Append(Append(toks, a), b), c)
  BY AppendIsConcat, ConcatProperties, AppendProperties

LEMMA InRaw ==
    ASSUME LexInv, at = "raw"
    PROVE  /\ LexTypeOK /\ Unfinished(tokens) /\ ~EndsInText(tokens) /\ pos <= Len(source) + 1
           /\ pos < Len(source) => ~inTag /\ ~EndsOpen(tokens)
<1>1. Len(source) \in Nat /\ pos \in Nat
  BY DEF LexInv, LexTypeOK
<1>2. pos < Len(source) => ~(pos >= Len(source))
  BY <1>1
<1> QED
  BY <1>2 DEF LexInv, Brackets, LexTypeOK, Unfinished, Positions

(* Whatever is read leaves the tokens bracketed outside of tags.           *)
LEMMA RawRead ==
    ASSUME LexInv, at = "raw", pos < Len(source), NEW name \in Seq(Symbols)
    PROVE  LET raw == RawContent(name) IN
           /\ Unfinished(tokens \o raw.toks) /\ ~EndsOpen(tokens \o raw.toks)
           /\ raw.to \in Nat /\ raw.to <= Len(source)
           /\ EndsInText(tokens \o raw.toks) => raw.to = Len(source)
<1> DEFINE mark  == Braces(4) \o <<"/">> \o name \o EndBraces(4)
           stop  == UntilMark(pos, mark)
           text  == Token("TEXT", Slice(pos, stop), pos, stop)
           content == IF stop > pos THEN <<text>> ELSE <<>>
           named == stop + 5 + Len(name)
           a     == Token("OPEN_END_BLOCK", <<>>, stop, stop + 5)
           b     == Token("ID", name, stop + 5, named)
           c     == Token("CLOSE_RAW_BLOCK", <<>>, named, named + 4)
           held  == tokens \o content
<1>1. RawContent(name) = IF pos >= Len(source) THEN [toks |-> <<>>, to |-> pos]
                         ELSE IF stop = Len(source) THEN [toks |-> content, to |-> stop]
                         ELSE [toks |-> content \o <<a, b, c>>, to |-> named + 4]
  BY DEF RawContent
<1>2. mark \in Seq(Symbols) /\ Len(mark) = 9 + Len(name) /\ Len(name) \in Nat
  <2>1. <<"/">> \in Seq(Symbols) /\ Len(<<"/">>) = 1
    <3>1. "/" \in Symbols
      BY DEF Symbols, Signs
    <3> QED
      BY <3>1
  <2>2. /\ Braces(4) \in Seq(Symbols) /\ Len(Braces(4)) = 4
        /\ EndBraces(4) \in Seq(Symbols) /\ Len(EndBraces(4)) = 4
    BY Marking
  <2>3. \A s, t \in Seq(Symbols) : s \o t \in Seq(Symbols) /\ Len(s \o t) = Len(s) + Len(t)
    BY ConcatProperties
  <2> DEFINE slash == <<"/">>
             x == Braces(4) \o slash
             y == x \o name
  <2>a. slash \in Seq(Symbols) /\ Len(slash) = 1
    BY <2>1
  <2> DEFINE four == Braces(4)
  <2>b. four \in Seq(Symbols) /\ Len(four) = 4 /\ x = four \o slash
    BY <2>2
  <2> HIDE DEF slash, four, x
  <2>4. x \in Seq(Symbols) /\ Len(x) = 4 + 1
    BY <2>3, <2>a, <2>b
  <2>5. y \in Seq(Symbols) /\ Len(y) = (4 + 1) + Len(name)
    BY <2>3, <2>4, Zenon
  <2> HIDE DEF y
  <2>6. y \o EndBraces(4) \in Seq(Symbols) /\ Len(y \o EndBraces(4)) = ((4 + 1) + Len(name)) + 4
    BY <2>2, <2>3, <2>5, Zenon
  <2>7. Len(name) \in Nat
    OBVIOUS
  <2>8. mark = y \o EndBraces(4)
    BY DEF slash, four, x, y
  <2> HIDE DEF mark
  <2> QED
    BY <2>6, <2>7, <2>8
<1>3. source \in Seq(Symbols) /\ Len(source) \in Nat /\ pos \in Nat /\ pos \in 0..Len(source)
      /\ ~(pos >= Len(source))
  BY InRaw DEF LexTypeOK
<1> HIDE DEF mark
<1>4. stop \in pos..Len(source) /\ (stop = Len(source) \/ Looking(stop, mark))
  BY <1>3, StopsAtMark
<1> HIDE DEF stop
<1>5. stop \in Nat /\ stop <= Len(source) /\ (stop # Len(source) => stop + (9 + Len(name)) <= Len(source))
  BY <1>2, <1>3, <1>4, LookingIn
<1>6. Unfinished(tokens) /\ ~EndsInText(tokens) /\ ~EndsOpen(tokens) /\ tokens \in Seq(TokenSet)
  BY InRaw DEF Unfinished
<1>7. /\ text \in TokenSet /\ text.type = "TEXT" /\ a \in TokenSet /\ a.type = "OPEN_END_BLOCK"
      /\ b \in TokenSet /\ b.type = "ID" /\ c \in TokenSet /\ c.type = "CLOSE_RAW_BLOCK"
  <2>1. {"TEXT", "OPEN_END_BLOCK", "ID", "CLOSE_RAW_BLOCK"} \subseteq TokenTypes /\ <<>> \in Seq(Symbols)
    BY EmptySeq DEF TokenTypes, Opens, Closes, Valued
  <2>2. stop + 5 \in Nat /\ named \in Nat /\ named + 4 \in Nat
    BY <1>2, <1>5
  <2>3. Slice(pos, stop) \in Seq(Symbols)
    BY <1>3, <1>5, SliceIn
  <2> HIDE DEF named
  <2>4. \A type \in TokenTypes, v \in Seq(Symbols), from \in Nat, end \in Nat :
           Token(type, v, from, end) \in TokenSet /\ Token(type, v, from, end).type = type
    BY TokenIn
  <2>5. text \in TokenSet /\ text.type = "TEXT"
    BY <1>3, <1>5, <2>1, <2>3, <2>4
  <2>6. a \in TokenSet /\ a.type = "OPEN_END_BLOCK"
    <3> DEFINE slashed == stop + 5
    <3>1. slashed \in Nat /\ a = Token("OPEN_END_BLOCK", <<>>, stop, slashed)
      BY <2>2
    <3> HIDE DEF slashed, a
    <3> QED
      BY <1>5, <2>1, <3>1, <2>4
  <2>7. b \in TokenSet /\ b.type = "ID"
    BY <2>1, <2>2, <2>4
  <2>8. c \in TokenSet /\ c.type = "CLOSE_RAW_BLOCK"
    BY <2>1, <2>2, <2>4
  <2> QED
    BY <2>5, <2>6, <2>7, <2>8
<1>8. /\ "OPEN_END_BLOCK" \in Opens /\ "ID" \notin Opens \cup Endings \cup {"TEXT", "EOF"}
      /\ "CLOSE_RAW_BLOCK" \in Endings /\ "CLOSE_RAW_BLOCK" \notin Opens \cup {"TEXT", "EOF"}
  BY DEF Opens, Endings, Closes
<1> HIDE DEF text, a, b, c
<1>9. Unfinished(held) /\ ~EndsOpen(held) /\ held \in Seq(TokenSet)
  <2>1. CASE stop > pos
    <3>1. held = Append(tokens, text)
      BY <1>6, <1>7, <2>1, AppendIsConcat
    <3>2. Placed(tokens, text)
      BY <1>6, <1>7, Sides DEF Placed
    <3> DEFINE more == Append(tokens, text)
    <3>3. /\ more \in Seq(TokenSet) /\ Bracketed(more)
          /\ EndsOpen(more) <=> text.type \in Opens \/ (EndsOpen(tokens) /\ text.type \notin Endings)
          /\ \A type : EndsWith(more, type) <=> text.type = type
      BY <1>6, <1>7, <3>2, OneMore
    <3> HIDE DEF more
    <3>4. Unfinished(more) /\ ~EndsOpen(more) /\ more \in Seq(TokenSet)
      BY <1>6, <1>7, <3>3, Sides DEF Unfinished, Ended
    <3> QED
      BY <3>1, <3>4 DEF more
  <2>2. CASE ~(stop > pos)
    <3>1. held = tokens
      BY <1>6, <2>2, ConcatEmptySeq
    <3> QED
      BY <1>6, <3>1
  <2> QED
    BY <2>1, <2>2
<1>10. content \in Seq(TokenSet)
  BY <1>7, EmptySeq
<1> HIDE DEF content
<1>11. CASE stop = Len(source)
  <2>1. RawContent(name).toks = content /\ RawContent(name).to = stop
    BY <1>1, <1>3, <1>11
  <2> QED
    BY <1>5, <1>9, <1>11, <2>1
<1>12. CASE stop # Len(source)
  <2>1. RawContent(name).toks = content \o <<a, b, c>> /\ RawContent(name).to = named + 4
    BY <1>1, <1>3, <1>12
  <2>2. named + 4 \in Nat /\ named + 4 <= Len(source)
    BY <1>2, <1>3, <1>5, <1>12
  <2> DEFINE one == Append(held, a)
             two == Append(one, b)
             all == Append(two, c)
  <2>3. tokens \o (content \o <<a, b, c>>) = all
    <3>1. <<a, b, c>> \in Seq(TokenSet)
      BY <1>7
    <3>2. tokens \o (content \o <<a, b, c>>) = held \o <<a, b, c>>
      <4>1. ThreeTexts(TokenSet, tokens, content, <<a, b, c>>)
        BY <1>6, <1>10, <3>1 DEF ThreeTexts
      <4>2. EitherOrder(tokens, content, <<a, b, c>>)
        BY <4>1, Associates
      <4> QED
        BY <4>2 DEF EitherOrder
    <3>3. held \in Seq(TokenSet)
      BY <1>9
    <3> HIDE DEF held
    <3>4. held \o <<a, b, c>> = all
      BY <1>7, <3>3, ThreeMore
    <3> QED
      BY <3>2, <3>4
  <2> HIDE DEF held, one, two
  <2>4. Unfinished(one) /\ EndsOpen(one)
    <3>1. Placed(held, a)
      BY <1>7, <1>8, <1>9, Sides DEF Placed
    <3> QED
      BY <1>7, <1>8, <1>9, <3>1, OneMore DEF Unfinished, Ended, one
  <2>5. Unfinished(two) /\ EndsOpen(two)
    <3>1. Placed(one, b)
      BY <1>7, <1>8, <2>4 DEF Placed
    <3> QED
      BY <1>7, <1>8, <2>4, <3>1, OneMore DEF Unfinished, Ended, two
  <2>6. Unfinished(all) /\ ~EndsOpen(all) /\ ~EndsInText(all)
    <3>1. Placed(two, c)
      BY <1>7, <1>8, <2>5 DEF Placed
    <3>2. /\ all \in Seq(TokenSet) /\ Bracketed(all) /\ ~EndsOpen(all)
          /\ \A type : EndsWith(all, type) <=> c.type = type
      BY <1>7, <1>8, <2>5, <3>1, OneMore
    <3> QED
      BY <1>7, <3>2 DEF Unfinished, Ended, EndsInText
  <2> QED
    BY <2>1, <2>2, <2>3, <2>6
<1> QED
  BY <1>11, <1>12

LEMMA ReadingRaw == ASSUME LexInv, ReadRawContent PROVE LexInv'
<1> DEFINE raw == RawContent(HelperName)
<1>1. at = "raw" /\ at' = "outer" /\ UNCHANGED <<source, inTag, buf>>
  BY DEF ReadRawContent
<1>2. at' \in Loops /\ at' \notin Tags \cup Strings /\ Len(source) \in Nat /\ pos \in Nat
  BY <1>1, InRaw DEF Loops, Tags, Strings, LexTypeOK
<1>3. CASE UNCHANGED <<tokens, pos>>
  <2>1. LexTypeOK' /\ Positions'
    BY <1>1, <1>2, <1>3, InRaw DEF LexTypeOK, Positions
  <2>2. Brackets'
    BY <1>1, <1>2, <1>3 DEF LexInv, Brackets
  <2> QED
    BY <2>1, <2>2 DEF LexInv
<1>4. CASE pos < Len(source) /\ tokens' = tokens \o raw.toks /\ pos' = raw.to
  <2>1. HelperName \in Seq(Symbols)
    BY <1>1, HelperNamed
  <2>2. /\ Unfinished(tokens') /\ ~EndsOpen(tokens') /\ pos' \in Nat /\ pos' <= Len(source)
        /\ EndsInText(tokens') => pos' >= Len(source)
    BY <1>1, <1>2, <1>4, <2>1, RawRead
  <2>3. ~inTag
    BY <1>1, <1>4, InRaw
  <2>4. LexTypeOK' /\ Positions'
    BY <1>1, <1>2, <2>2, InRaw DEF LexTypeOK, Positions, Unfinished
  <2>5. Brackets'
    BY <1>1, <1>2, <2>2, <2>3 DEF Brackets, Unfinished
  <2> QED
    BY <2>4, <2>5 DEF LexInv
<1>5. UNCHANGED <<tokens, pos>> \/ (pos < Len(source) /\ tokens' = tokens \o raw.toks /\ pos' = raw.to)
  <2>1. CASE HelperName = <<>>
    BY <2>1 DEF ReadRawContent
  <2>2. CASE HelperName # <<>> /\ pos < Len(source)
    BY <2>2 DEF ReadRawContent
  <2>3. CASE HelperName # <<>> /\ pos >= Len(source)
    <3>1. tokens' = tokens \o raw.toks /\ pos' = raw.to
      BY <2>3 DEF ReadRawContent
    <3>2. raw = [toks |-> <<>>, to |-> pos]
      BY <2>3 DEF RawContent
    <3>3. tokens \o <<>> = tokens
      BY InRaw, <1>1, ConcatEmptySeq DEF LexTypeOK
    <3> QED
      BY <3>1, <3>2, <3>3
  <2> QED
    BY <1>2, <2>1, <2>2, <2>3
<1> QED
  BY <1>3, <1>4, <1>5

-----------------------------------------------------------------------------
(* Every step of the tokenizer keeps the invariant.                        *)
LEMMA LexStep == ASSUME LexInv, [LexNext]_lexVars PROVE LexInv'
<1>1. CASE TextEscape \/ TextChar \/ SkipWhite \/ SkipUnknown \/ StringChar
  BY <1>1, ReadingOn
<1>2. CASE StartText \/ EndText
  BY <1>2, StartingText, EndingText
<1>3. CASE OpenRawBlock \/ OpenUnescaped
  BY <1>3, OpeningRaw
<1>4. CASE OpenTag \/ OpenComment
  BY <1>4, OpeningTag, OpeningComment
<1>5. CASE CloseTag \/ EndOfSource
  BY <1>5, ClosingTag, EndingSource
<1>6. CASE ReadMark \/ ReadSegment \/ ReadNumber \/ ReadIdentifier
  BY <1>6, ReadingMark, ReadingSegment, ReadingNumber, ReadingIdentifier
<1>7. CASE StartString \/ EndString
  BY <1>7, StartingString, EndingString
<1>8. CASE ReadRawContent \/ EndOfTokens
  BY <1>8, ReadingRaw, EndingTokens
<1>9. CASE UNCHANGED lexVars
  BY <1>9 DEF lexVars, LexInv, LexTypeOK, Positions, Brackets, Looking, Slice
<1> QED
  BY <1>1, <1>2, <1>3, <1>4, <1>5, <1>6, <1>7, <1>8, <1>9 DEF LexNext

LEMMA LexInvMeans == LexInv => StaysInside /\ TagsBracketed
<1> SUFFICES ASSUME LexInv PROVE StaysInside /\ TagsBracketed
  OBVIOUS
<1>1. Bracketed(tokens) /\ pos <= Len(source) + 1 /\ (at = "end" => Ended(tokens))
  BY DEF LexInv, Brackets, Positions
<1> QED
  BY <1>1 DEF StaysInside, TagsBracketed, Ended, EndsWith, Last

(* The tokenizer's invariant: in every state of hbs_lexer_tokenize the      *)
(* position, the flag in_tag, the loop that runs and the tokens made so    *)
(* far agree (LexInv), for every alphabet and every set of templates.      *)
THEOREM TokenizerInvariant == LexSpec => []LexInv
<1>1. LexInit => LexInv
  BY LexInitially
<1>2. LexInv /\ [LexNext]_lexVars => LexInv'
  BY LexStep
<1> QED
  BY <1>1, <1>2, PTL DEF LexSpec

LEMMA Compiling == Spec => []LexInv
<1>1. Init => LexInv
  BY LexInitially DEF Init
<1>2. LexInv /\ [Next]_vars => LexInv'
  <2> SUFFICES ASSUME LexInv, [Next]_vars PROVE [LexNext]_lexVars
    BY LexStep
  <2>1. CASE Tokenize
    BY <2>1 DEF Tokenize
  <2>2. CASE Parse \/ Report
    BY <2>2 DEF Parse, Report
  <2>3. CASE UNCHANGED vars
    BY <2>3 DEF vars
  <2> QED
    BY <2>1, <2>2, <2>3 DEF Next
<1> QED
  BY <1>1, <1>2, PTL DEF Spec

(* While hbs_compile runs the lexer never reads beyond the NUL that ends   *)
(* the template, not even in a string that breaks off after a backslash,   *)
(* and when it is done the last token is an EOF.                           *)
THEOREM NeverOutside == Spec => []StaysInside
  BY Compiling, LexInvMeans, PTL

(* What lex_tag_contents and its callers hand to the parser is bracketed:  *)
(* a tag closes before the next one opens, texts stand outside of tags and *)
(* are never neighbours, the EOF comes last; only the last tag of a        *)
(* template can be left open.                                              *)
THEOREM TokensBracketed == Spec => []TagsBracketed
  BY Compiling, LexInvMeans, PTL


-----------------------------------------------------------------------------
(* What is read of a text, as a matter of the source and nothing else.     *)
CharOf(src, p)      == IF p < Len(src) THEN src[p + 1] ELSE "NUL"
EscapingOf(src, p)  == CharOf(src, p) = "\\" /\ CharOf(src, p + 1) = "{" /\ CharOf(src, p + 2) = "{"
UnslashedOf(src, p) == IF EscapingOf(src, p) THEN <<>> ELSE <<CharOf(src, p)>>
ReadOf(src, from, to) == FlattenSeq([i \in 1..(to - from) |-> UnslashedOf(src, from + i - 1)])

LEMMA CharIs == ASSUME NEW p PROVE Char(p) = CharOf(source, p)
  BY DEF Char, CharOf

LEMMA EscapingIs == ASSUME NEW p PROVE Escaping(p) <=> EscapingOf(source, p)
  BY DEF Escaping, EscapingOf, Char, CharOf

LEMMA NotEscaping == ASSUME NEW p, Char(p) = "{" PROVE ~Escaping(p)
  BY DEF Escaping

LEMMA TextIs == ASSUME NEW from, NEW to PROVE TextRead(from, to) = ReadOf(source, from, to)
  BY DEF TextRead, ReadOf, Unslashed, UnslashedOf, Escaping, EscapingOf, Char, CharOf

LEMMA UnslashedIn ==
    ASSUME NEW src \in Seq(Symbols), NEW p \in Nat, p < Len(src)
    PROVE  UnslashedOf(src, p) \in Seq(Symbols)
<1>1. CharOf(src, p) \in Symbols
  BY ElementOfSeq DEF CharOf
<1> QED
  BY <1>1, EmptySeq DEF UnslashedOf

LEMMA NoText == ASSUME NEW src, NEW p \in Nat PROVE ReadOf(src, p, p) = <<>>
<1>1. p - p = 0
  OBVIOUS
<1>2. ReadOf(src, p, p) = FlattenSeq([i \in 1..0 |-> UnslashedOf(src, p + i - 1)])
  BY <1>1 DEF ReadOf
<1>3. [i \in 1..0 |-> UnslashedOf(src, p + i - 1)] = <<>>
  OBVIOUS
<1> QED
  BY <1>2, <1>3, FlattenEmpty

LEMMA TextOfMore ==
    ASSUME NEW src \in Seq(Symbols), NEW from \in Nat, NEW p \in Nat, from <= p, p < Len(src)
    PROVE  ReadOf(src, from, p + 1) = ReadOf(src, from, p) \o UnslashedOf(src, p)
<1> DEFINE n == p - from
           f == [i \in 1..(n + 1) |-> UnslashedOf(src, from + i - 1)]
<1>1. n \in Nat /\ Len(src) \in Nat /\ (p + 1) - from = n + 1 /\ from + (n + 1) - 1 = p
  OBVIOUS
<1>2. ASSUME NEW i \in 1..(n + 1) PROVE from + i - 1 \in Nat /\ from + i - 1 < Len(src)
  BY <1>1
<1>3. f \in [1..(n + 1) -> Seq(Symbols)]
  <2>1. ASSUME NEW i \in 1..(n + 1) PROVE UnslashedOf(src, from + i - 1) \in Seq(Symbols)
    BY <1>2, UnslashedIn
  <2> QED
    BY <2>1
<1>4. FlattenSeq(f) = FlattenSeq([i \in 1..n |-> f[i]]) \o f[n + 1]
  <2> HIDE DEF f, n
  <2> QED
    BY <1>1, <1>3, FlattenMore
<1>5. f[n + 1] = UnslashedOf(src, p)
  BY <1>1
<1>6. [i \in 1..n |-> f[i]] = [i \in 1..n |-> UnslashedOf(src, from + i - 1)]
  BY <1>1
<1>7. ReadOf(src, from, p) = FlattenSeq([i \in 1..n |-> UnslashedOf(src, from + i - 1)])
  BY DEF ReadOf
<1>8. ReadOf(src, from, p + 1) = FlattenSeq(f)
  BY <1>1 DEF ReadOf
<1> QED
  BY <1>4, <1>5, <1>6, <1>7, <1>8

(* A text token has what was read for it.                                  *)
SameOf(src, tok) == tok.value \in {ReadOf(src, tok.at, tok.end), SubSeq(src, tok.at + 1, tok.end)}

LEMMA SameIs == ASSUME NEW tok PROVE SameText(tok) <=> SameOf(source, tok)
  BY TextIs DEF SameText, SameOf, Slice

(* Nothing is lost: what was read is in a token or in what the loop that    *)
(* runs collects, a text that begins has what was read of it, and each     *)
(* text that ended has what was read for it.                               *)
Collecting == {"text"} \cup Strings

InToken(p, toks) == \E k \in 1..Len(toks) : toks[k].at <= p /\ p < toks[k].end
TagAt(toks, p) == \E k \in 1..Len(toks) :
                     /\ toks[k].type \in Opens /\ toks[k].at <= p
                     /\ \A j \in (k + 1)..Len(toks) : toks[j].type \in Endings => p < toks[j].at
Skipped(p)   == Char(p) \in Delimiters /\ TagAt(tokens, p)
Accounted(p) == p < Len(source) => Skipped(p) \/ InToken(p, tokens)

AllAccounted ==
    /\ at \in Collecting => buf.from <= pos
    /\ \A p \in 0..(pos - 1) : Accounted(p) \/ (at \in Collecting /\ buf.from <= p)

TextSoFar == at = "text" =>
    /\ buf.text = <<>> => buf.from = pos
    /\ buf.text = ReadOf(source, buf.from, pos)

TextsSame(toks) == \A k \in 1..Len(toks) : toks[k].type = "TEXT" => SameOf(source, toks[k])

(* The tokens begin by a place, and what ends a tag at a place or later.   *)
Behind(toks, p)    == \A k \in 1..Len(toks) : toks[k].at <= p
EndsAfter(toks, p) == \A k \in 1..Len(toks) : toks[k].type \in Endings => p <= toks[k].at

NoneLost ==
    /\ AllAccounted /\ TextSoFar /\ TextsSame(tokens) /\ Behind(tokens, pos)
    /\ at = "end" => pos >= Len(source)


(* A place that was read before the step or in it.                         *)
LEMMA ReadNow ==
    ASSUME NEW a \in Nat, NEW b \in Nat, NEW p \in 0..(b - 1)
    PROVE  p \in Nat /\ (p \in 0..(a - 1) \/ p \in a..(b - 1))
  OBVIOUS

(* A token that begins before a place begins before all later ones.        *)
LEMMA Placings ==
    ASSUME NEW toks \in Seq(TokenSet), NEW k \in 1..Len(toks)
    PROVE  toks[k] \in TokenSet /\ toks[k].at \in Nat
<1>1. toks[k] \in TokenSet
  BY ElementOfSeq
<1> QED
  BY <1>1 DEF TokenSet

LEMMA StillBehind ==
    ASSUME NEW toks \in Seq(TokenSet), NEW a \in Nat, NEW b \in Nat, a <= b, Behind(toks, a)
    PROVE  Behind(toks, b)
<1>1. \A k \in 1..Len(toks) : toks[k].at \in Nat
  BY Placings
<1> QED
  BY <1>1 DEF Behind

LEMMA ReadOne ==
    ASSUME NEW a \in Nat, NEW b \in Nat, NEW p \in 0..(b - 1)
    PROVE  p \in Nat /\ p + 1 <= b /\ (p < a => p + 1 <= a)
  OBVIOUS

(* Steps of the loops that collect: a text, a string.                      *)
LEMMA Collects ==
    ASSUME LexInv, NoneLost, at \in Collecting, pos' \in Nat, pos <= pos',
           UNCHANGED <<source, tokens, at>>, buf'.from = buf.from
    PROVE  AllAccounted' /\ TextsSame(tokens)' /\ Behind(tokens, pos)' /\ at' # "end"
<1>1. pos \in Nat /\ source' = source /\ tokens' = tokens /\ at' = at /\ buf.from \in Nat /\ buf.from <= pos
  BY DEF LexInv, LexTypeOK, NoneLost, AllAccounted
<1>2. ASSUME NEW p \in 0..(pos' - 1)
      PROVE  Accounted(p)' \/ buf.from <= p
  <2>1. p \in Nat /\ (p \in 0..(pos - 1) \/ p \in pos..(pos' - 1))
    BY <1>1, ReadNow
  <2>2. CASE p \in 0..(pos - 1)
    <3>1. Accounted(p) \/ buf.from <= p
      BY <2>2 DEF NoneLost, AllAccounted
    <3> QED
      BY <1>1, <3>1 DEF Accounted, Skipped, TagAt, InToken, Char
  <2>3. CASE p \in pos..(pos' - 1)
    BY <1>1, <2>3
  <2> QED
    BY <2>1, <2>2, <2>3
<1>3. AllAccounted'
  <2>1. at' \in Collecting => buf'.from <= pos'
    BY <1>1
  <2> QED
    BY <1>1, <1>2, <2>1 DEF AllAccounted
<1>4. TextsSame(tokens)'
  BY <1>1 DEF NoneLost, TextsSame
<1>5. at' # "end"
  BY <1>1 DEF Collecting, Strings
<1>6. Behind(tokens, pos)'
  <2>1. Behind(tokens, pos')
    BY <1>1, StillBehind DEF NoneLost, LexInv, LexTypeOK
  <2> QED
    BY <1>1, <2>1 DEF Behind
<1> QED
  BY <1>3, <1>4, <1>5, <1>6


LEMMA NotEmpty == ASSUME NEW s \in Seq(Symbols), NEW c \in Symbols PROVE Append(s, c) # <<>>
<1>1. Len(Append(s, c)) = Len(s) + 1 /\ Len(s) \in Nat
  BY AppendProperties
<1>2. Len(<<>>) = 0
  BY EmptySeq
<1> QED
  BY <1>1, <1>2

LEMMA TwoBraces == Braces(2) = <<"{", "{">>
<1>1. Braces(2) \in Seq(Symbols) /\ Len(Braces(2)) = 2 /\ \A i \in 1..2 : Braces(2)[i] = "{"
  BY Marking DEF Braces
<1>2. <<"{", "{">> \in Seq(Symbols) /\ Len(<<"{", "{">>) = 2 /\ \A i \in 1..2 : <<"{", "{">>[i] = "{"
  BY DEF Symbols, Signs
<1> DEFINE two == Braces(2)
<1> HIDE DEF two
<1> QED
  BY <1>1, <1>2, SeqEqual DEF two

LEMMA TwoMore ==
    ASSUME NEW s \in Seq(Symbols), NEW a \in Symbols, NEW b \in Symbols
    PROVE  s \o <<a, b>> = Append(Append(s, a), b)
  BY AppendIsConcat, ConcatProperties, AppendProperties

LEMMA CollectingOn ==
    ASSUME LexInv, NoneLost, TextChar \/ TextEscape \/ StringChar
    PROVE  NoneLost'
<1>1. /\ source \in Seq(Symbols) /\ Len(source) \in Nat /\ pos \in Nat /\ buf.from \in Nat
      /\ buf.text \in Seq(Symbols) /\ LexTypeOK
  BY DEF LexInv, LexTypeOK
<1>2. CASE TextChar
  <2>1. /\ at = "text" /\ pos < Len(source) /\ pos' = pos + 1 /\ UNCHANGED <<source, tokens, inTag, at>>
        /\ buf' = [buf EXCEPT !.text = Append(buf.text, Char(pos))]
    BY <1>2 DEF TextChar
  <2>2. buf'.from = buf.from /\ buf'.text = Append(buf.text, Char(pos)) /\ buf.from <= pos
    BY <1>1, <2>1 DEF LexTypeOK, NoneLost, AllAccounted, Collecting
  <2>3. AllAccounted' /\ TextsSame(tokens)' /\ Behind(tokens, pos)' /\ at' # "end"
    BY <1>1, <2>1, <2>2, Collects DEF Collecting
  <2>4. Char(pos) \in Symbols
    BY <1>1, <2>1, CharIn
  <2>5. buf'.text # <<>>
    BY <1>1, <2>2, <2>4, AppendProperties
  <2>6. buf.text = ReadOf(source, buf.from, pos)
    BY <2>1 DEF NoneLost, TextSoFar
  <2>7. buf'.text = ReadOf(source, buf.from, pos + 1)
    <3>1. ReadOf(source, buf.from, pos + 1) = buf.text \o UnslashedOf(source, pos)
      BY <1>1, <2>1, <2>2, <2>6, TextOfMore
    <3>2. UnslashedOf(source, pos) = <<Char(pos)>>
      BY <1>2, CharIs, EscapingIs DEF TextChar, UnslashedOf
    <3> QED
      BY <1>1, <2>2, <2>4, <3>1, <3>2, AppendIsConcat
  <2>8. TextSoFar'
    BY <2>1, <2>2, <2>5, <2>7 DEF TextSoFar
  <2> QED
    BY <2>3, <2>8 DEF NoneLost
<1>3. CASE TextEscape
  <2>1. /\ at = "text" /\ pos < Len(source) /\ Escaping(pos) /\ pos' = pos + 3
        /\ UNCHANGED <<source, tokens, inTag, at>> /\ buf' = [buf EXCEPT !.text = buf.text \o Braces(2)]
    BY <1>3 DEF TextEscape
  <2>2. buf'.from = buf.from /\ buf'.text = buf.text \o Braces(2) /\ buf.from <= pos
    BY <1>1, <2>1 DEF LexTypeOK, NoneLost, AllAccounted, Collecting
  <2>3. AllAccounted' /\ TextsSame(tokens)' /\ Behind(tokens, pos)' /\ at' # "end"
    BY <1>1, <2>1, <2>2, Collects DEF Collecting
  <2>4. Char(pos) = "\\" /\ Char(pos + 1) = "{" /\ Char(pos + 2) = "{" /\ pos + 1 < Len(source) /\ pos + 2 < Len(source)
    <3>1. Char(pos) = "\\" /\ Char(pos + 1) = "{" /\ Char(pos + 2) = "{"
      BY <2>1 DEF Escaping
    <3>2. pos + 1 \in Nat /\ pos + 2 \in Nat
      BY <1>1
    <3> QED
      BY <1>1, <3>1, <3>2, CharIn
  <2> DEFINE one == Append(buf.text, "{")
  <2>5. "{" \in Symbols /\ one \in Seq(Symbols)
    BY <1>1, AppendProperties DEF Symbols, Signs
  <2>6. buf'.text = Append(one, "{")
    <3>1. buf.text \o <<"{", "{">> = Append(one, "{")
      BY <1>1, <2>5, TwoMore
    <3> QED
      BY <2>2, <3>1, TwoBraces
  <2> HIDE DEF one
  <2>7. buf'.text # <<>>
    BY <2>5, <2>6, NotEmpty
  <2>8. buf.text = ReadOf(source, buf.from, pos)
    BY <2>1 DEF NoneLost, TextSoFar
  <2>9. UnslashedOf(source, pos) = <<>> /\ UnslashedOf(source, pos + 1) = <<"{">> /\ UnslashedOf(source, pos + 2) = <<"{">>
    BY <2>1, <2>4, CharIs, EscapingIs, NotEscaping DEF UnslashedOf
  <2>10. ReadOf(source, buf.from, pos + 3) = buf'.text
    <3>1. ReadOf(source, buf.from, pos + 1) = buf.text
      <4>1. ReadOf(source, buf.from, pos + 1) = buf.text \o <<>>
        BY <1>1, <2>1, <2>2, <2>8, <2>9, TextOfMore
      <4> QED
        BY <1>1, <4>1, ConcatEmptySeq
    <3>2. ReadOf(source, buf.from, (pos + 1) + 1) = buf.text \o <<"{">>
      <4>1. pos + 1 \in Nat /\ buf.from <= pos + 1
        BY <1>1, <2>2
      <4>2. ReadOf(source, buf.from, (pos + 1) + 1) = ReadOf(source, buf.from, pos + 1) \o <<"{">>
        BY <1>1, <2>4, <2>9, <4>1, TextOfMore
      <4> QED
        BY <3>1, <4>2
    <3>3. ReadOf(source, buf.from, (pos + 2) + 1) = ReadOf(source, buf.from, pos + 2) \o <<"{">>
      <4>1. pos + 2 \in Nat /\ buf.from <= pos + 2
        BY <1>1, <2>2
      <4> QED
        BY <1>1, <2>4, <2>9, <4>1, TextOfMore
    <3>4. (pos + 1) + 1 = pos + 2 /\ (pos + 2) + 1 = pos + 3
      BY <1>1
    <3>5. one = buf.text \o <<"{">>
      BY <1>1, <2>5, AppendIsConcat DEF one
    <3>6. ReadOf(source, buf.from, pos + 2) = one
      BY <3>2, <3>4, <3>5
    <3>7. ReadOf(source, buf.from, pos + 3) = one \o <<"{">>
      BY <3>3, <3>4, <3>6
    <3> QED
      BY <2>5, <2>6, <3>7, AppendIsConcat
  <2>11. TextSoFar'
    BY <2>1, <2>2, <2>7, <2>10 DEF TextSoFar
  <2> QED
    BY <2>3, <2>11 DEF NoneLost
<1>4. CASE StringChar
  <2>1. at \in Strings /\ pos' \in Nat /\ pos <= pos' /\ UNCHANGED <<source, tokens, at, buf>>
    BY <1>1, <1>4 DEF StringChar, InStringOf, Strings
  <2>2. AllAccounted' /\ TextsSame(tokens)' /\ Behind(tokens, pos)' /\ at' # "end"
    BY <2>1, Collects DEF Collecting
  <2>3. TextSoFar'
    BY <2>1 DEF TextSoFar, Strings
  <2> QED
    BY <2>2, <2>3 DEF NoneLost
<1> QED
  BY <1>2, <1>3, <1>4


(* Steps that make tokens.                                                 *)
LEMMA TokensJoined ==
    ASSUME NEW a \in Seq(TokenSet), NEW b \in Seq(TokenSet)
    PROVE  /\ a \o b \in Seq(TokenSet)
           /\ \A p : InToken(p, a) \/ InToken(p, b) => InToken(p, a \o b)
           /\ TextsSame(a) /\ TextsSame(b) => TextsSame(a \o b)
           /\ \A p : Behind(a, p) /\ Behind(b, p) => Behind(a \o b, p)
           /\ \A p : EndsAfter(a, p) /\ EndsAfter(b, p) => EndsAfter(a \o b, p)
           /\ \A p : TagAt(a, p) /\ EndsAfter(b, p + 1) /\ p \in Nat => TagAt(a \o b, p)
<1> DEFINE m == Len(a)
           n == Len(b)
           c == a \o b
<1>1. /\ m \in Nat /\ n \in Nat /\ c \in Seq(TokenSet) /\ Len(c) = m + n
      /\ \A i \in 1..(m + n) : c[i] = IF i <= m THEN a[i] ELSE b[i - m]
  BY ConcatProperties
<1> HIDE DEF m, n, c
<1>2. ASSUME NEW k \in 1..m PROVE k \in 1..(m + n) /\ c[k] = a[k]
  BY <1>1
<1>3. ASSUME NEW k \in 1..n PROVE k + m \in 1..(m + n) /\ c[k + m] = b[k]
  <2>1. k + m \in 1..(m + n) /\ ~(k + m <= m) /\ (k + m) - m = k
    BY <1>1
  <2> QED
    BY <1>1, <2>1
<1>4. ASSUME NEW k \in 1..(m + n) PROVE (k \in 1..m /\ c[k] = a[k]) \/ (k - m \in 1..n /\ c[k] = b[k - m])
  BY <1>1
<1>5. ASSUME NEW p, InToken(p, a) PROVE InToken(p, c)
  BY <1>1, <1>2, <1>5 DEF InToken, m
<1>6. ASSUME NEW p, InToken(p, b) PROVE InToken(p, c)
  BY <1>1, <1>3, <1>6 DEF InToken, n
<1>7. ASSUME TextsSame(a), TextsSame(b) PROVE TextsSame(c)
  BY <1>1, <1>4, <1>7 DEF TextsSame, m, n
<1>8. ASSUME NEW p, Behind(a, p), Behind(b, p) PROVE Behind(c, p)
  BY <1>1, <1>4, <1>8 DEF Behind, m, n
<1>9. ASSUME NEW p, EndsAfter(a, p), EndsAfter(b, p) PROVE EndsAfter(c, p)
  BY <1>1, <1>4, <1>9 DEF EndsAfter, m, n
<1>10. ASSUME NEW p \in Nat, TagAt(a, p), EndsAfter(b, p + 1) PROVE TagAt(c, p)
  <2>1. PICK k \in 1..m : /\ a[k].type \in Opens /\ a[k].at <= p
                          /\ \A j \in (k + 1)..m : a[j].type \in Endings => p < a[j].at
    BY <1>10 DEF TagAt, m
  <2>2. k \in 1..(m + n) /\ c[k] = a[k]
    BY <1>1, <1>2
  <2>3. ASSUME NEW j \in (k + 1)..(m + n), c[j].type \in Endings PROVE p < c[j].at
    <3>1. j \in 1..(m + n)
      BY <1>1, <2>2, <2>3
    <3>2. CASE j \in 1..m /\ c[j] = a[j]
      <4>1. j \in (k + 1)..m
        BY <1>1, <2>3, <3>2
      <4> QED
        BY <2>1, <2>3, <3>2, <4>1
    <3>3. CASE j - m \in 1..n /\ c[j] = b[j - m]
      <4>1. p + 1 <= b[j - m].at /\ b[j - m].at \in Nat
        BY <1>10, <2>3, <3>3, Placings DEF EndsAfter, n
      <4> QED
        BY <3>3, <4>1
    <3> QED
      BY <1>4, <3>1, <3>2, <3>3
  <2> QED
    BY <1>1, <2>1, <2>2, <2>3 DEF TagAt
<1> QED
  BY <1>1, <1>5, <1>6, <1>7, <1>8, <1>9, <1>10 DEF c

LEMMA Adds ==
    ASSUME LexInv, NoneLost, at' \notin Collecting, source' = source, pos' \in Nat, pos <= pos',
           NEW toks \in Seq(TokenSet), tokens' = tokens \o toks, TextsSame(toks),
           Behind(toks, pos'), EndsAfter(toks, pos),
           at' = "end" => pos' >= Len(source),
           \A p \in 0..(pos' - 1) : \/ Accounted(p) /\ (p < pos \/ EndsAfter(toks, pos'))
                                    \/ InToken(p, toks)
    PROVE  NoneLost'
<1>0. pos \in Nat /\ tokens \in Seq(TokenSet) /\ tokens' \in Seq(TokenSet)
  BY TokensJoined DEF LexInv, LexTypeOK
<1>1. /\ TextsSame(tokens') /\ Behind(tokens', pos')
      /\ \A p : InToken(p, tokens) \/ InToken(p, toks) => InToken(p, tokens')
      /\ \A p : TagAt(tokens, p) /\ EndsAfter(toks, p + 1) /\ p \in Nat => TagAt(tokens', p)
  <2>1. Behind(tokens, pos')
    BY <1>0, StillBehind DEF NoneLost
  <2> QED
    BY <1>0, <2>1, TokensJoined DEF NoneLost
<1>2. TextsSame(tokens)' /\ Behind(tokens, pos)'
  BY <1>1 DEF TextsSame, Behind
<1>3. ASSUME NEW p \in 0..(pos' - 1) PROVE Accounted(p)'
  <2>1. (Accounted(p) /\ (p < pos \/ EndsAfter(toks, pos'))) \/ InToken(p, toks)
    OBVIOUS
  <2>2. (p < Len(source))' <=> p < Len(source)
    OBVIOUS
  <2>3. (Char(p) \in Delimiters)' <=> Char(p) \in Delimiters
    BY DEF Char, Delimiters, White, Quotes
  <2>4. (InToken(p, tokens)' <=> InToken(p, tokens')) /\ (TagAt(tokens, p)' <=> TagAt(tokens', p))
    BY DEF InToken, TagAt
  <2>5. ASSUME p < pos \/ EndsAfter(toks, pos') PROVE EndsAfter(toks, p + 1)
    <3>1. p \in Nat /\ pos \in Nat /\ pos' \in Nat /\ p + 1 <= pos' /\ (p < pos => p + 1 <= pos)
      BY <1>0, ReadOne
    <3>2. \A k \in 1..Len(toks) : toks[k].at \in Nat
      BY Placings
    <3> QED
      BY <1>0, <2>5, <3>1, <3>2 DEF EndsAfter
  <2>6. p \in Nat
    OBVIOUS
  <2> QED
    BY <1>1, <2>1, <2>2, <2>3, <2>4, <2>5, <2>6 DEF Accounted, Skipped
<1>4. AllAccounted'
  BY <1>3 DEF AllAccounted
<1>5. TextSoFar'
  BY DEF TextSoFar, Collecting
<1> QED
  BY <1>2, <1>4, <1>5 DEF NoneLost

(* What a loop that does not collect has read before.                      *)
LEMMA ReadBefore ==
    ASSUME LexInv, NoneLost, at \notin Collecting
    PROVE  /\ pos \in Nat /\ Len(source) \in Nat /\ source \in Seq(Symbols) /\ tokens \in Seq(TokenSet)
           /\ \A p \in 0..(pos - 1) : Accounted(p)
  BY DEF LexInv, LexTypeOK, NoneLost, AllAccounted

LEMMA AddsNone ==
    ASSUME LexInv, NoneLost, at' \notin Collecting, source' = source, pos' \in Nat, pos <= pos',
           tokens' = tokens, at' = "end" => pos' >= Len(source),
           \A p \in 0..(pos' - 1) : Accounted(p)
    PROVE  NoneLost'
<1>1. /\ tokens \o <<>> = tokens /\ <<>> \in Seq(TokenSet) /\ TextsSame(<<>>)
      /\ Behind(<<>>, pos') /\ EndsAfter(<<>>, pos) /\ EndsAfter(<<>>, pos')
  BY ConcatEmptySeq, EmptySeq DEF TextsSame, Behind, EndsAfter, LexInv, LexTypeOK
<1> QED
  BY <1>1, Adds

LEMMA AddsOne ==
    ASSUME LexInv, NoneLost, LexTypeOK', at' \notin Collecting, source' = source, pos <= pos',
           NEW tok, tokens' = Append(tokens, tok), tok.type = "TEXT" => SameOf(source, tok),
           tok.at <= pos', tok.type \in Endings => pos <= tok.at,
           at' = "end" => pos' >= Len(source),
           \A p \in 0..(pos' - 1) : \/ Accounted(p) /\ (p < pos \/ tok.type \notin Endings)
                                    \/ tok.at <= p /\ p < tok.end
    PROVE  NoneLost'
<1> DEFINE n == Len(tokens)
           one == <<tok>>
<1>1. tokens \in Seq(TokenSet) /\ n \in Nat /\ tokens' \in Seq(TokenSet) /\ pos' \in Nat
  BY DEF LexInv, LexTypeOK
<1>2. Len(tokens') = n + 1 /\ tokens'[n + 1] = tok
  BY <1>1
<1>3. tok \in TokenSet
  <2>1. n + 1 \in 1..Len(tokens')
    BY <1>1, <1>2
  <2> QED
    BY <1>1, <1>2, <2>1, ElementOfSeq
<1>4. Len(one) = 1 /\ one[1] = tok /\ one \in Seq(TokenSet)
  BY <1>3
<1>5. tokens' = tokens \o one
  BY <1>1, <1>3, AppendIsConcat
<1> HIDE DEF one
<1>6. /\ TextsSame(one) /\ Behind(one, pos') /\ EndsAfter(one, pos)
      /\ tok.type \notin Endings => EndsAfter(one, pos')
  BY <1>4 DEF TextsSame, Behind, EndsAfter
<1>7. ASSUME NEW p \in 0..(pos' - 1)
      PROVE  \/ Accounted(p) /\ (p < pos \/ EndsAfter(one, pos'))
             \/ InToken(p, one)
  BY <1>4, <1>6 DEF InToken
<1> QED
  BY <1>1, <1>4, <1>5, <1>6, <1>7, Adds

-----------------------------------------------------------------------------
(* Each of the tokenizer's steps loses nothing.                            *)

(* The loop over a tag is in a tag, here and as far as it reads on.        *)
LEMMA HereInTag ==
    ASSUME LexInv, NoneLost, Inside
    PROVE  TagAt(tokens, pos) /\ \A p \in Nat : pos <= p => TagAt(tokens, p)
<1>1. EndsOpen(tokens) /\ pos \in Nat /\ tokens \in Seq(TokenSet) /\ Behind(tokens, pos)
  BY DEF Inside, LexInv, LexTypeOK, Brackets, NoneLost
<1>2. PICK k \in 1..Len(tokens) : /\ tokens[k].type \in Opens
                                  /\ \A j \in (k + 1)..Len(tokens) : tokens[j].type \notin Endings
  BY <1>1 DEF EndsOpen, TagOpen
<1>3. ASSUME NEW p \in Nat, pos <= p PROVE TagAt(tokens, p)
  <2>1. tokens[k].at <= p
    BY <1>1, <1>3, StillBehind DEF Behind
  <2> QED
    BY <1>2, <2>1 DEF TagAt
<1> QED
  BY <1>1, <1>3

LEMMA EmittingLoss ==
    ASSUME LexInv, LexTypeOK', NoneLost, Inside, source' = source, at' \notin Collecting \cup {"end"},
           NEW type, NEW v, NEW from, NEW to, Emit(Token(type, v, from, to), to), type # "TEXT",
           from <= to, from = pos \/ (from = pos + 1 /\ type \notin Endings /\ Char(pos) \in Delimiters)
    PROVE  NoneLost'
<1> DEFINE tok == Token(type, v, from, to)
<1>1. tokens' = Append(tokens, tok) /\ pos' = to /\ tok.type = type /\ tok.at = from /\ tok.end = to
  BY DEF Emit, Token
<1> HIDE DEF tok
<1>2. at \notin Collecting
  BY DEF Inside, Tags, Collecting, Strings
<1>3. pos \in Nat /\ to \in Nat
  BY <1>1, <1>2, ReadBefore DEF LexTypeOK
<1>4. ASSUME NEW p \in 0..(to - 1)
      PROVE  (Accounted(p) /\ (p < pos \/ type \notin Endings)) \/ (from <= p /\ p < to)
  <2>1. p \in Nat /\ (p \in 0..(pos - 1) \/ p \in pos..(to - 1))
    BY <1>3, ReadNow
  <2>2. CASE p \in 0..(pos - 1)
    BY <1>2, <1>3, <2>2, ReadBefore
  <2>3. CASE p \in pos..(to - 1)
    <3>1. from <= p \/ (p = pos /\ type \notin Endings /\ Char(pos) \in Delimiters)
      BY <1>3, <2>3
    <3>2. TagAt(tokens, pos)
      BY HereInTag
    <3> QED
      BY <1>3, <2>3, <3>1, <3>2 DEF Accounted, Skipped
  <2> QED
    BY <2>1, <2>2, <2>3
<1>5. pos <= pos' /\ tok.at <= pos' /\ (tok.type \in Endings => pos <= tok.at)
  BY <1>1, <1>3
<1>6. ASSUME NEW p \in 0..(pos' - 1)
      PROVE  (Accounted(p) /\ (p < pos \/ tok.type \notin Endings)) \/ (tok.at <= p /\ p < tok.end)
  BY <1>1, <1>4
<1>7. at' \notin Collecting /\ at' # "end" /\ tok.type # "TEXT"
  BY <1>1
<1>8. tokens' = Append(tokens, tok)
  BY <1>1
<1> QED
  BY <1>5, <1>6, <1>7, <1>8, AddsOne

LEMMA InTagLoss ==
    ASSUME LexInv, LexTypeOK', NoneLost, ReadMark \/ ReadSegment \/ ReadNumber \/ ReadIdentifier \/ CloseTag
    PROVE  NoneLost'
<1>1. Inside /\ source' = source
  BY DEF ReadMark, ReadSegment, ReadNumber, ReadIdentifier, CloseTag
<1>2. at' \notin Collecting \cup {"end"}
  <2>1. at' = at \/ at' = After(at)
    BY DEF ReadMark, ReadSegment, ReadNumber, ReadIdentifier, CloseTag
  <2> QED
    BY <1>1, <2>1 DEF Inside, Tags, Collecting, Strings, After
<1>3. CASE ReadMark
  <2>0. pos \in Nat /\ pos <= pos + 2 /\ pos <= pos + 1
    BY <1>1, InsideTag
  <2>1. CASE Emit(Token("DOT_DOT", <<>>, pos, pos + 2), pos + 2)
    BY <1>1, <1>2, <2>0, <2>1, EmittingLoss
  <2>2. CASE Emit(Token(MarkTypes[Char(pos)], <<>>, pos, pos + 1), pos + 1)
    <3>1. MarkTypes[Char(pos)] # "TEXT"
      BY <1>3, MarkType DEF ReadMark
    <3> QED
      BY <1>1, <1>2, <2>0, <2>2, <3>1, EmittingLoss
  <2> QED
    BY <1>3, <2>1, <2>2 DEF ReadMark
<1>4. CASE ReadSegment
  <2>1. Char(pos) \in Delimiters /\ "SEG_LITERAL" \notin Endings
    BY <1>4, Mark DEF ReadSegment, Delimiters
  <2> DEFINE stop == UntilMark(pos + 1, <<"]">>)
             to   == IF stop < Len(source) THEN stop + 1 ELSE stop
  <2>2. Emit(Token("SEG_LITERAL", Slice(pos + 1, stop), pos + 1, to), to)
    BY <1>4 DEF ReadSegment
  <2>3. stop \in (pos + 1)..Len(source)
    BY <1>1, InsideTag, StopsAtMark
  <2> HIDE DEF stop
  <2>4. pos + 1 <= to
    BY <1>1, <2>3, InsideTag
  <2> HIDE DEF to
  <2> QED
    BY <1>1, <1>2, <2>1, <2>2, <2>4, EmittingLoss
<1>5. CASE ReadNumber
  <2> DEFINE whole == PastChars(pos + 1, Digits)
             to    == IF Char(whole) = "." THEN PastChars(whole + 1, Digits) ELSE whole
  <2>1. Emit(Token("NUMBER", Slice(pos, to), pos, to), to)
    BY <1>5 DEF ReadNumber
  <2>2. pos <= to
    BY <1>1, NumberStops
  <2> HIDE DEF to
  <2> QED
    BY <1>1, <1>2, <2>1, <2>2, EmittingLoss
<1>6. CASE ReadIdentifier
  <2> DEFINE to == PastChars(pos + 1, IdChars)
             id == Slice(pos, to)
  <2>1. Emit(Token(IdType(id), id, pos, to), to)
    BY <1>6 DEF ReadIdentifier
  <2>2. IdType(id) # "TEXT"
    BY IdentifierType
  <2>3. to \in (pos + 1)..Len(source)
    BY <1>1, InsideTag, StopsPastChars
  <2> HIDE DEF to, id
  <2>4. pos <= to
    BY <1>1, <2>3, InsideTag
  <2> QED
    BY <1>1, <1>2, <2>1, <2>2, <2>4, EmittingLoss
<1>7. CASE CloseTag
  <2> DEFINE n == CloseLen(pos)
  <2>1. Emit(Token(CloseTypes[n], <<>>, pos, pos + n), pos + n) /\ n # 0
    BY <1>7 DEF CloseTag
  <2>2. n \in {2, 3, 4}
    BY <2>1 DEF CloseLen
  <2> HIDE DEF n
  <2>3. pos <= pos + n
    BY <1>1, <2>2, InsideTag
  <2>4. CloseTypes[n] # "TEXT"
    <3>1. CloseTypes[2] = "CLOSE" /\ CloseTypes[3] = "CLOSE_UNESC" /\ CloseTypes[4] = "CLOSE_RAW_BLOCK"
      BY DEF CloseTypes
    <3> QED
      BY <2>2, <3>1
  <2> QED
    BY <1>1, <1>2, <2>1, <2>3, <2>4, EmittingLoss
<1> QED
  BY <1>3, <1>4, <1>5, <1>6, <1>7


LEMMA SkippingLoss ==
    ASSUME LexInv, LexTypeOK', NoneLost, SkipWhite \/ SkipUnknown \/ EndOfSource \/ EndOfTokens
    PROVE  NoneLost'
<1>1. source' = source /\ at \notin Collecting /\ at' \notin Collecting
  BY DEF SkipWhite, SkipUnknown, EndOfSource, EndOfTokens, Inside, After, Tags, Collecting, Strings
<1>2. pos \in Nat /\ Len(source) \in Nat /\ pos' \in Nat /\ \A p \in 0..(pos - 1) : Accounted(p)
  BY <1>1, ReadBefore DEF LexTypeOK
<1>3. CASE EndOfTokens
  <2> DEFINE tok == Token("EOF", <<>>, pos, pos)
  <2>1. pos >= Len(source) /\ tokens' = Append(tokens, tok) /\ pos' = pos
    BY <1>3 DEF EndOfTokens
  <2>2. tok.type \notin Endings \cup {"TEXT"} /\ tok.at = pos
    BY Sides DEF Token
  <2> HIDE DEF tok
  <2> QED
    BY <1>1, <1>2, <2>1, <2>2, AddsOne
<1>4. CASE EndOfSource
  <2>1. tokens' = tokens /\ pos' = pos /\ at' # "end"
    BY <1>4 DEF EndOfSource, After
  <2> QED
    BY <1>1, <1>2, <2>1, AddsNone
<1>5. CASE SkipWhite \/ SkipUnknown
  <2>1. tokens' = tokens /\ at' # "end" /\ Inside
    BY <1>5 DEF SkipWhite, SkipUnknown, Inside, Tags
  <2>2. \A p \in pos..(pos' - 1) : Char(p) \in Delimiters
    <3>1. CASE SkipWhite
      <4>1. \A p \in pos..(pos' - 1) : Char(p) \in White
        BY <2>1, <3>1, InsideTag, StopsPastChars DEF SkipWhite
      <4> QED
        BY <4>1 DEF Delimiters
    <3>2. CASE SkipUnknown
      <4>1. Char(pos) \in Delimiters /\ pos' = pos + 1
        BY <3>2 DEF SkipUnknown, Delimiters
      <4>2. \A p \in pos..(pos' - 1) : p = pos
        BY <1>2, <4>1
      <4> QED
        BY <4>1, <4>2
    <3> QED
      BY <1>5, <3>1, <3>2
  <2>3. ASSUME NEW p \in 0..(pos' - 1) PROVE Accounted(p)
    <3>1. p \in Nat /\ (p \in 0..(pos - 1) \/ p \in pos..(pos' - 1))
      BY <1>2, ReadNow
    <3>2. CASE p \in pos..(pos' - 1)
      <4>1. TagAt(tokens, p)
        BY <1>2, <2>1, <3>1, <3>2, HereInTag
      <4> QED
        BY <2>2, <3>2, <4>1 DEF Accounted, Skipped
    <3> QED
      BY <1>2, <3>1, <3>2
  <2>4. pos <= pos'
    <3>1. CASE SkipWhite
      <4>1. pos' \in pos..Len(source)
        BY <2>1, <3>1, InsideTag, StopsPastChars DEF SkipWhite
      <4> QED
        BY <1>2, <4>1
    <3>2. CASE SkipUnknown
      <4>1. pos' = pos + 1
        BY <3>2, Zenon DEF SkipUnknown
      <4> QED
        BY <1>2, <4>1
    <3> QED
      BY <1>5, <3>1, <3>2
  <2> QED
    BY <1>1, <1>2, <2>1, <2>3, <2>4, AddsNone
<1> QED
  BY <1>3, <1>4, <1>5

(* A text or a string begins.                                              *)
LEMMA StartingLoss ==
    ASSUME LexInv, LexTypeOK', NoneLost, StartText \/ StartString
    PROVE  NoneLost'
<1>1. source' = source /\ tokens' = tokens /\ at \notin Collecting /\ at' \in Collecting /\ at' # "end"
  BY DEF StartText, StartString, Outer, Inside, InString, Tags, Collecting, Strings
<1>2. /\ pos \in Nat /\ pos' \in Nat /\ Len(source) \in Nat /\ source \in Seq(Symbols)
      /\ \A p \in 0..(pos - 1) : Accounted(p)
  BY <1>1, ReadBefore DEF LexTypeOK
<1>3. buf'.from = pos' /\ buf'.text = <<>>
  BY DEF StartText, StartString, Nothing
<1>4. ASSUME NEW p \in 0..(pos' - 1) PROVE Accounted(p)
  <2>1. CASE StartText
    BY <1>2, <2>1 DEF StartText
  <2>2. CASE StartString
    <3>1. Char(pos) \in Delimiters /\ pos' = pos + 1
      BY <2>2 DEF StartString, Delimiters
    <3>2. p \in 0..(pos - 1) \/ p = pos
      BY <1>2, <3>1
    <3>3. TagAt(tokens, pos)
      BY <2>2, HereInTag DEF StartString
    <3> QED
      BY <1>2, <3>1, <3>2, <3>3 DEF Accounted, Skipped
  <2> QED
    BY <2>1, <2>2
<1>5. AllAccounted'
  <2>1. ASSUME NEW p \in 0..(pos' - 1) PROVE Accounted(p)'
    BY <1>1, <1>4 DEF Accounted, Skipped, TagAt, InToken, Char
  <2>2. buf'.from <= pos'
    BY <1>2, <1>3
  <2> QED
    BY <2>1, <2>2 DEF AllAccounted
<1>6. TextSoFar'
  BY <1>1, <1>2, <1>3, NoText DEF TextSoFar
<1>7. TextsSame(tokens)'
  BY <1>1 DEF NoneLost, TextsSame
<1>8. Behind(tokens, pos)'
  <2>1. pos <= pos' /\ tokens \in Seq(TokenSet)
    BY <1>2 DEF StartText, StartString, LexInv, LexTypeOK
  <2>2. Behind(tokens, pos')
    BY <1>2, <2>1, StillBehind DEF NoneLost
  <2> QED
    BY <1>1, <2>2 DEF Behind
<1> QED
  BY <1>1, <1>5, <1>6, <1>7, <1>8 DEF NoneLost


(* A text or a string ends: what was collected becomes a token.            *)
LEMMA EndingLoss ==
    ASSUME LexInv, LexTypeOK', NoneLost, EndText \/ EndString
    PROVE  NoneLost'
<1>1. /\ source' = source /\ at \in Collecting /\ at' \notin Collecting /\ at' # "end"
  BY DEF EndText, EndString, InStringOf, Collecting, Strings
<1>2. /\ pos \in Nat /\ pos' \in Nat /\ Len(source) \in Nat /\ buf.from \in Nat /\ buf.from <= pos
      /\ \A p \in 0..(pos - 1) : Accounted(p) \/ buf.from <= p
  BY <1>1 DEF LexInv, LexTypeOK, NoneLost, AllAccounted
<1>3. CASE EndString
  <2> DEFINE stop == IF pos < Len(source) THEN pos ELSE Len(source)
             to   == IF pos < Len(source) THEN pos + 1 ELSE pos
             tok  == Token("STRING", Slice(buf.from, stop), buf.from, to)
  <2>1. tokens' = Append(tokens, tok) /\ pos' = to
    BY <1>3 DEF EndString, Emit
  <2>2. tok.type = "STRING" /\ "STRING" \notin Endings \cup {"TEXT"} /\ tok.at = buf.from /\ tok.end = to
    BY Mark DEF Token
  <2>3. pos <= to /\ buf.from <= to
    BY <1>2
  <2> HIDE DEF tok, to
  <2>4. ASSUME NEW p \in 0..(to - 1) PROVE Accounted(p) \/ (buf.from <= p /\ p < to)
    <3>1. to \in Nat /\ p \in Nat /\ p < to
      BY <1>2, <2>1
    <3>2. p \in 0..(pos - 1) \/ pos <= p
      BY <1>2, <3>1
    <3> QED
      BY <1>2, <3>1, <3>2
  <2> QED
    BY <1>1, <2>1, <2>2, <2>3, <2>4, AddsOne
<1>4. CASE EndText
  <2> DEFINE tok == Token("TEXT", buf.text, buf.from, pos)
  <2>1. at = "text" /\ pos' = pos /\ tokens' = (IF buf.text = <<>> THEN tokens ELSE Append(tokens, tok))
    BY <1>4 DEF EndText
  <2>2. tok.at = buf.from /\ tok.end = pos /\ tok.value = buf.text /\ tok.type \notin Endings /\ pos <= pos
    BY <1>2, Sides DEF Token
  <2> HIDE DEF tok
  <2>3. SameOf(source, tok)
    BY <2>1, <2>2 DEF SameOf, NoneLost, TextSoFar
  <2>4. CASE buf.text # <<>>
    <3>1. ASSUME NEW p \in 0..(pos - 1) PROVE Accounted(p) \/ (buf.from <= p /\ p < pos)
      BY <1>2
    <3> QED
      BY <1>1, <1>2, <2>1, <2>2, <2>3, <2>4, <3>1, AddsOne
  <2>5. CASE buf.text = <<>>
    <3>1. buf.from = pos
      BY <2>1, <2>5 DEF NoneLost, TextSoFar
    <3>2. ASSUME NEW p \in 0..(pos - 1) PROVE Accounted(p)
      BY <1>2, <3>1
    <3> QED
      BY <1>1, <1>2, <2>1, <2>2, <2>5, <3>2, AddsNone
  <2> QED
    BY <2>4, <2>5
<1> QED
  BY <1>3, <1>4

(* The tokens that open a tag are all the step reads.                      *)
LEMMA OpeningTokens ==
    ASSUME LexInv, Outer, NEW type \in Opens, NEW to \in Nat, NEW tilde \in BOOLEAN, pos <= to
    PROVE  LET tok  == Token(type, <<>>, pos, to)
               toks == IF tilde THEN <<tok, Token("STRIP", <<>>, pos, to)>> ELSE <<tok>>
           IN  /\ toks \in Seq(TokenSet) /\ TextsSame(toks) /\ Behind(toks, to)
               /\ \A p : EndsAfter(toks, p)
               /\ \A p \in pos..(to - 1) : InToken(p, toks)
<1> DEFINE tok   == Token(type, <<>>, pos, to)
           strip == Token("STRIP", <<>>, pos, to)
           toks  == IF tilde THEN <<tok, strip>> ELSE <<tok>>
<1>1. /\ tok \in TokenSet /\ tok.type \notin Endings \cup {"TEXT"}
      /\ strip \in TokenSet /\ strip.type \notin Endings \cup {"TEXT"}
  <2>1. /\ type \in TokenTypes /\ type \notin Endings \cup {"TEXT"}
        /\ "STRIP" \in TokenTypes /\ "STRIP" \notin Endings \cup {"TEXT"}
        /\ <<>> \in Seq(Symbols) /\ pos \in Nat
    BY Sides, Mark, EmptySeq, OutsideTag
  <2>2. tok \in TokenSet /\ tok.type = type
    BY <2>1, TokenIn
  <2>3. strip \in TokenSet /\ strip.type = "STRIP"
    BY <2>1, TokenIn
  <2> QED
    BY <2>1, <2>2, <2>3
<1>2. tok.at = pos /\ tok.end = to /\ strip.at = pos
  BY DEF Token
<1> HIDE DEF tok, strip
<1>3. toks \in Seq(TokenSet) /\ 1 \in 1..Len(toks) /\ toks[1] = tok /\ \A k \in 1..Len(toks) : toks[k] \in {tok, strip}
  BY <1>1
<1> HIDE DEF toks
<1>4. TextsSame(toks) /\ Behind(toks, to) /\ \A p : EndsAfter(toks, p)
  BY <1>1, <1>2, <1>3 DEF TextsSame, Behind, EndsAfter
<1>5. ASSUME NEW p \in pos..(to - 1) PROVE InToken(p, toks)
  <2>1. pos <= p /\ p < to
    BY OutsideTag
  <2> QED
    BY <1>2, <1>3, <2>1 DEF InToken
<1> QED
  BY <1>3, <1>4, <1>5 DEF tok, strip, toks

LEMMA StartTagLoss ==
    ASSUME LexInv, LexTypeOK', NoneLost, Outer, NEW type \in Opens, NEW to \in Nat, NEW tilde \in BOOLEAN,
           NEW loop \in Tags, pos <= to,
           StartTag(LET tok == Token(type, <<>>, pos, to)
                    IN  IF tilde THEN <<tok, Token("STRIP", <<>>, pos, to)>> ELSE <<tok>>, to, loop)
    PROVE  NoneLost'
<1> DEFINE tok  == Token(type, <<>>, pos, to)
           toks == IF tilde THEN <<tok, Token("STRIP", <<>>, pos, to)>> ELSE <<tok>>
<1>1. tokens' = tokens \o toks /\ pos' = to /\ source' = source /\ at' \notin Collecting /\ at' # "end" /\ at \notin Collecting
  BY DEF StartTag, Tags, Collecting, Strings, Outer
<1>2. /\ toks \in Seq(TokenSet) /\ TextsSame(toks) /\ Behind(toks, to)
      /\ \A p : EndsAfter(toks, p)
      /\ \A p \in pos..(to - 1) : InToken(p, toks)
  BY OpeningTokens
<1> HIDE DEF toks
<1>3. ASSUME NEW p \in 0..(to - 1) PROVE Accounted(p) \/ InToken(p, toks)
  <2>1. p \in 0..(pos - 1) \/ p \in pos..(to - 1)
    BY <1>1, ReadBefore, ReadNow
  <2> QED
    BY <1>1, <1>2, <2>1, ReadBefore
<1> QED
  BY <1>1, <1>2, <1>3, Adds


LEMMA OpeningLoss ==
    ASSUME LexInv, LexTypeOK', NoneLost, OpenRawBlock \/ OpenUnescaped \/ OpenTag
    PROVE  NoneLost'
<1>1. CASE OpenRawBlock
  <2>1. "OPEN_RAW_BLOCK" \in Opens /\ "rawtag" \in Tags
    BY DEF Opens, Tags
  <2>2. Outer /\ StartTag(<<Token("OPEN_RAW_BLOCK", <<>>, pos, pos + 4)>>, pos + 4, "rawtag")
    BY <1>1 DEF OpenRawBlock
  <2>3. pos + 4 \in Nat /\ pos <= pos + 4
    BY <2>2, OutsideTag
  <2> QED
    BY <2>1, <2>2, <2>3, StartTagLoss
<1>2. CASE OpenUnescaped
  <2>1. "OPEN_UNESC" \in Opens /\ "tag" \in Tags
    BY DEF Opens, Tags
  <2>2. Outer /\ StartTag(<<Token("OPEN_UNESC", <<>>, pos, pos + 3)>>, pos + 3, "tag")
    BY <1>2 DEF OpenUnescaped
  <2>3. pos + 3 \in Nat /\ pos <= pos + 3
    BY <2>2, OutsideTag
  <2> QED
    BY <2>1, <2>2, <2>3, StartTagLoss
<1>3. CASE OpenTag
  <2>1. OpensPlain /\ StartTag(Opening.toks, Opening.to, "tag")
    BY <1>3 DEF OpenTag
  <2>2. PICK tilde \in BOOLEAN :
           Opening.toks = LET tok == Token(Opening.type, <<>>, pos, Opening.to)
                          IN  IF tilde THEN <<tok, Token("STRIP", <<>>, pos, Opening.to)>> ELSE <<tok>>
    BY <2>1, OpeningKind
  <2>3. Outer /\ Opening.type \in Opens /\ Opening.to \in Nat /\ pos <= Opening.to /\ "tag" \in Tags
    BY <2>1, OpeningKind DEF Tags
  <2> QED
    BY <2>1, <2>2, <2>3, StartTagLoss
<1> QED
  BY <1>1, <1>2, <1>3

LEMMA CommentLoss ==
    ASSUME LexInv, LexTypeOK', NoneLost, OpenComment
    PROVE  NoneLost'
<1> DEFINE body == CommentBody(Opening.to)
           opened == Opening.toks
           to  == Opening.to
           tok == body.tok
           one == <<tok>>
<1>1. OpensPlain /\ tokens' = Append(tokens \o opened, tok) /\ pos' = body.to /\ UNCHANGED <<source, at>>
  BY DEF OpenComment
<1>2. PICK tilde \in BOOLEAN :
         Opening.toks = LET t == Token(Opening.type, <<>>, pos, Opening.to)
                        IN  IF tilde THEN <<t, Token("STRIP", <<>>, pos, Opening.to)>> ELSE <<t>>
  BY <1>1, OpeningKind
<1>3. Outer /\ Opening.type \in Opens /\ Opening.to \in Nat /\ Opening.to <= Len(source) /\ pos <= Opening.to
  BY <1>1, OpeningKind
<1>4. at = "outer" /\ pos \in Nat /\ source \in Seq(Symbols) /\ at \notin Collecting /\ at # "end"
      /\ tokens \in Seq(TokenSet)
  BY <1>3, OutsideTag DEF Collecting, Strings, LexTypeOK
<1>5. tok \in TokenSet /\ tok.type = "COMMENT_BODY" /\ body.to \in Nat /\ to <= body.to
  BY <1>3, <1>4, Commenting
<1>6. tok.at = to /\ tok.end = body.to
  BY DEF CommentBody, Token
<1>7. /\ opened \in Seq(TokenSet) /\ TextsSame(opened) /\ Behind(opened, to)
      /\ \A p : EndsAfter(opened, p)
      /\ \A p \in pos..(to - 1) : InToken(p, opened)
  BY <1>2, <1>3, OpeningTokens
<1> DEFINE end == body.to
<1>8. one \in Seq(TokenSet) /\ Len(one) = 1 /\ one[1] = tok
  BY <1>5
<1> HIDE DEF tok
<1>9. TextsSame(one) /\ Behind(one, body.to) /\ EndsAfter(one, pos)
  BY <1>3, <1>5, <1>6, <1>8 DEF TextsSame, Behind, EndsAfter
<1>10. tokens' = tokens \o (opened \o one)
  <2>1. tokens \o opened \in Seq(TokenSet)
    BY <1>4, <1>7, ConcatProperties
  <2>2. tokens' = (tokens \o opened) \o one
    BY <1>1, <1>5, <2>1, AppendIsConcat
  <2> HIDE DEF opened, one
  <2>3. (tokens \o opened) \o one = tokens \o (opened \o one)
    <3>1. ThreeTexts(TokenSet, tokens, opened, one)
      BY <1>4, <1>7, <1>8 DEF ThreeTexts
    <3>2. EitherOrder(tokens, opened, one)
      BY <3>1, Associates
    <3> QED
      BY <3>2 DEF EitherOrder
  <2> QED
    BY <2>2, <2>3
<1> HIDE DEF opened, one, end, body
<1>11. pos' = end /\ end \in Nat /\ to \in Nat /\ to <= end /\ pos <= end
  BY <1>1, <1>3, <1>4, <1>5 DEF end
<1>12. /\ opened \o one \in Seq(TokenSet) /\ TextsSame(opened \o one)
       /\ Behind(opened \o one, end) /\ EndsAfter(opened \o one, pos)
       /\ \A p : InToken(p, opened) \/ InToken(p, one) => InToken(p, opened \o one)
  <2>1. Behind(opened, end)
    BY <1>7, <1>11, StillBehind
  <2>2. Behind(one, end)
    BY <1>9 DEF end
  <2> QED
    BY <1>7, <1>8, <1>9, <2>1, <2>2, TokensJoined
<1>13. ASSUME NEW p \in 0..(end - 1) PROVE (Accounted(p) /\ p < pos) \/ InToken(p, opened \o one)
  <2>1. p \in Nat /\ p < end /\ (p \in 0..(pos - 1) \/ p \in pos..(to - 1) \/ to <= p)
    BY <1>4, <1>11
  <2>2. CASE p \in 0..(pos - 1)
    BY <1>4, <2>2, ReadBefore
  <2>3. CASE p \in pos..(to - 1)
    BY <1>7, <1>12, <2>3
  <2>4. CASE to <= p
    <3>1. InToken(p, one)
      BY <1>6, <1>8, <2>1, <2>4 DEF InToken, end
    <3> QED
      BY <1>12, <3>1
  <2> QED
    BY <2>1, <2>2, <2>3, <2>4
<1>14. source' = source /\ at' \notin Collecting /\ at' # "end" /\ pos' \in Nat
  BY <1>1, <1>4, <1>11
<1> QED
  BY <1>10, <1>11, <1>12, <1>13, <1>14, Adds


(* The content of a raw block is a text as it is written, its end three    *)
(* tokens; together they are all that is read.                             *)
LEMMA RawTokens ==
    ASSUME LexInv, at = "raw", pos < Len(source), NEW name \in Seq(Symbols)
    PROVE  LET raw == RawContent(name) IN
           /\ raw.toks \in Seq(TokenSet) /\ TextsSame(raw.toks) /\ pos <= raw.to
           /\ Behind(raw.toks, raw.to) /\ EndsAfter(raw.toks, pos)
           /\ \A p \in pos..(raw.to - 1) : InToken(p, raw.toks)
<1> DEFINE mark  == Braces(4) \o <<"/">> \o name \o EndBraces(4)
           stop  == UntilMark(pos, mark)
           text  == Token("TEXT", Slice(pos, stop), pos, stop)
           content == IF stop > pos THEN <<text>> ELSE <<>>
           named == stop + 5 + Len(name)
           a     == Token("OPEN_END_BLOCK", <<>>, stop, stop + 5)
           b     == Token("ID", name, stop + 5, named)
           c     == Token("CLOSE_RAW_BLOCK", <<>>, named, named + 4)
           close == <<a, b, c>>
<1>1. RawContent(name) = IF pos >= Len(source) THEN [toks |-> <<>>, to |-> pos]
                         ELSE IF stop = Len(source) THEN [toks |-> content, to |-> stop]
                         ELSE [toks |-> content \o close, to |-> named + 4]
  BY DEF RawContent
<1>2. source \in Seq(Symbols) /\ Len(source) \in Nat /\ pos \in 0..Len(source) /\ Len(name) \in Nat
  BY InRaw DEF LexTypeOK
<1> HIDE DEF mark
<1>3. stop \in pos..Len(source)
  BY <1>2, StopsAtMark
<1> HIDE DEF stop
<1>4. stop \in Nat /\ pos \in Nat /\ pos <= stop /\ stop <= Len(source) /\ named \in Nat /\ ~(pos >= Len(source))
  BY <1>2, <1>3
<1>5. text \in TokenSet /\ text.at = pos /\ text.end = stop /\ SameOf(source, text)
  <2>1. "TEXT" \in TokenTypes /\ Slice(pos, stop) \in Seq(Symbols)
    BY <1>2, <1>4, Sides, SliceIn
  <2>2. text \in TokenSet
    BY <1>4, <2>1, TokenIn
  <2>3. text.at = pos /\ text.end = stop /\ text.value = Slice(pos, stop)
    BY DEF Token
  <2> QED
    BY <2>2, <2>3 DEF SameOf, Slice
<1>6. /\ a \in TokenSet /\ a.type # "TEXT" /\ b \in TokenSet /\ b.type # "TEXT" /\ c \in TokenSet /\ c.type # "TEXT"
      /\ a.at = stop /\ a.end = stop + 5 /\ b.at = stop + 5 /\ b.end = named /\ c.at = named /\ c.end = named + 4
  <2>1. {"OPEN_END_BLOCK", "ID", "CLOSE_RAW_BLOCK"} \subseteq TokenTypes /\ <<>> \in Seq(Symbols)
    BY EmptySeq DEF TokenTypes, Opens, Closes, Valued
  <2> DEFINE slashed == stop + 5
             end     == named + 4
  <2>2. slashed \in Nat /\ end \in Nat
    BY <1>4
  <2> HIDE DEF slashed, named, end
  <2>3. Token("OPEN_END_BLOCK", <<>>, stop, slashed) \in TokenSet
    BY <1>4, <2>1, <2>2, TokenIn
  <2>4. Token("ID", name, slashed, named) \in TokenSet
    BY <1>4, <2>1, <2>2, TokenIn
  <2>5. Token("CLOSE_RAW_BLOCK", <<>>, named, end) \in TokenSet
    BY <1>4, <2>1, <2>2, TokenIn
  <2> QED
    BY <2>3, <2>4, <2>5 DEF slashed, end, Token
<1> HIDE DEF text, a, b, c, named
<1>7. /\ content \in Seq(TokenSet) /\ TextsSame(content)
      /\ Behind(content, stop) /\ EndsAfter(content, pos)
      /\ \A p \in pos..(stop - 1) : InToken(p, content)
  <2>1. CASE stop > pos
    <3>1. content \in Seq(TokenSet) /\ Len(content) = 1 /\ content[1] = text
      BY <1>5, <2>1
    <3> HIDE DEF content
    <3>2. ASSUME NEW p \in pos..(stop - 1) PROVE InToken(p, content)
      BY <1>4, <1>5, <3>1 DEF InToken
    <3> QED
      BY <1>4, <1>5, <3>1, <3>2 DEF TextsSame, Behind, EndsAfter
  <2>2. CASE ~(stop > pos)
    <3>1. content = <<>> /\ <<>> \in Seq(TokenSet) /\ Len(<<>>) = 0
      BY <2>2, EmptySeq
    <3> HIDE DEF content
    <3>2. ASSUME NEW p \in pos..(stop - 1) PROVE FALSE
      BY <1>4, <2>2
    <3> QED
      BY <3>1, <3>2 DEF TextsSame, Behind, EndsAfter
  <2> QED
    BY <2>1, <2>2
<1>8. close \in Seq(TokenSet) /\ Len(close) = 3 /\ close[1] = a /\ close[2] = b /\ close[3] = c
  BY <1>6
<1> HIDE DEF content, close
<1>9. TextsSame(close) /\ Behind(close, named + 4) /\ EndsAfter(close, pos)
  <2>1. \A k \in 1..3 : k = 1 \/ k = 2 \/ k = 3
    OBVIOUS
  <2>2. /\ stop <= named + 4 /\ stop + 5 <= named + 4 /\ named <= named + 4
        /\ pos <= stop + 5 /\ pos <= named
    BY <1>2, <1>4 DEF named
  <2>3. \A k \in 1..3 : close[k].type # "TEXT" /\ close[k].at <= named + 4 /\ pos <= close[k].at
    BY <1>4, <1>6, <1>8, <2>1, <2>2
  <2> QED
    BY <1>8, <2>3 DEF TextsSame, Behind, EndsAfter
<1>10. ASSUME NEW p \in Nat, stop <= p, p < named + 4 PROVE InToken(p, close)
  <2>1. 1 \in 1..Len(close) /\ 2 \in 1..Len(close) /\ 3 \in 1..Len(close)
    BY <1>8
  <2>2. p < stop + 5 \/ (stop + 5 <= p /\ p < named) \/ named <= p
    BY <1>4
  <2> QED
    BY <1>4, <1>6, <1>8, <1>10, <2>1, <2>2 DEF InToken
<1>11. CASE stop = Len(source)
  BY <1>1, <1>4, <1>7, <1>11
<1>12. CASE stop # Len(source)
  <2>1. RawContent(name).toks = content \o close /\ RawContent(name).to = named + 4
    BY <1>1, <1>4, <1>12
  <2>2. /\ content \o close \in Seq(TokenSet) /\ TextsSame(content \o close)
        /\ Behind(content \o close, named + 4) /\ EndsAfter(content \o close, pos)
        /\ \A p : InToken(p, content) \/ InToken(p, close) => InToken(p, content \o close)
    <3>1. named + 4 \in Nat /\ stop <= named + 4
      BY <1>2, <1>4 DEF named
    <3>2. Behind(content, named + 4)
      BY <1>4, <1>7, <3>1, StillBehind
    <3> QED
      BY <1>7, <1>8, <1>9, <3>2, TokensJoined
  <2>3. pos <= named + 4
    BY <1>2, <1>4 DEF named
  <2>4. ASSUME NEW p \in pos..((named + 4) - 1) PROVE InToken(p, content \o close)
    <3>1. p \in Nat /\ p < named + 4 /\ (p \in pos..(stop - 1) \/ stop <= p)
      BY <1>4
    <3> QED
      BY <1>7, <1>10, <2>2, <3>1
  <2> QED
    BY <2>1, <2>2, <2>3, <2>4
<1> QED
  BY <1>11, <1>12

LEMMA RawLoss ==
    ASSUME LexInv, LexTypeOK', NoneLost, ReadRawContent
    PROVE  NoneLost'
<1> DEFINE raw == RawContent(HelperName)
<1>1. at = "raw" /\ source' = source /\ at \notin Collecting /\ at' \notin Collecting /\ at' # "end"
  BY DEF ReadRawContent, Collecting, Strings
<1>2. /\ pos \in Nat /\ pos' \in Nat /\ tokens \in Seq(TokenSet) /\ Len(source) \in Nat
      /\ \A p \in 0..(pos - 1) : Accounted(p)
  BY <1>1, ReadBefore DEF LexTypeOK
<1>3. CASE tokens' = tokens /\ pos' = pos
  BY <1>1, <1>2, <1>3, AddsNone
<1>4. CASE pos < Len(source) /\ tokens' = tokens \o raw.toks /\ pos' = raw.to
  <2>1. /\ raw.toks \in Seq(TokenSet) /\ TextsSame(raw.toks) /\ pos <= raw.to
        /\ Behind(raw.toks, raw.to) /\ EndsAfter(raw.toks, pos)
        /\ \A p \in pos..(raw.to - 1) : InToken(p, raw.toks)
    BY <1>1, <1>4, HelperNamed, RawTokens
  <2> HIDE DEF raw
  <2>2. ASSUME NEW p \in 0..(pos' - 1) PROVE (Accounted(p) /\ p < pos) \/ InToken(p, raw.toks)
    <3>1. p \in 0..(pos - 1) \/ p \in pos..(pos' - 1)
      BY <1>2, ReadNow
    <3> QED
      BY <1>2, <1>4, <2>1, <3>1
  <2> QED
    BY <1>1, <1>2, <1>4, <2>1, <2>2, Adds
<1>5. (tokens' = tokens /\ pos' = pos) \/ (pos < Len(source) /\ tokens' = tokens \o raw.toks /\ pos' = raw.to)
  <2>1. CASE HelperName = <<>>
    BY <2>1 DEF ReadRawContent
  <2>2. CASE HelperName # <<>> /\ pos < Len(source)
    BY <2>2 DEF ReadRawContent
  <2>3. CASE HelperName # <<>> /\ pos >= Len(source)
    <3>1. tokens' = tokens \o raw.toks /\ pos' = raw.to
      BY <2>3 DEF ReadRawContent
    <3>2. raw = [toks |-> <<>>, to |-> pos]
      BY <2>3 DEF RawContent
    <3>3. tokens \o <<>> = tokens
      BY <1>2, ConcatEmptySeq
    <3> QED
      BY <3>1, <3>2, <3>3
  <2> QED
    BY <1>2, <2>1, <2>2, <2>3
<1> QED
  BY <1>3, <1>4, <1>5


LEMMA LossStep == ASSUME LexInv, NoneLost, [LexNext]_lexVars PROVE NoneLost'
<1>1. LexTypeOK'
  BY LexStep DEF LexInv
<1>2. CASE StartText \/ StartString
  BY <1>1, <1>2, StartingLoss
<1>3. CASE TextEscape \/ TextChar \/ StringChar
  BY <1>3, CollectingOn
<1>4. CASE EndText \/ EndString
  BY <1>1, <1>4, EndingLoss
<1>5. CASE OpenRawBlock \/ OpenUnescaped \/ OpenTag \/ OpenComment
  BY <1>1, <1>5, OpeningLoss, CommentLoss
<1>6. CASE SkipWhite \/ SkipUnknown \/ EndOfSource \/ EndOfTokens
  BY <1>1, <1>6, SkippingLoss
<1>7. CASE ReadMark \/ ReadSegment \/ ReadNumber \/ ReadIdentifier \/ CloseTag
  BY <1>1, <1>7, InTagLoss
<1>8. CASE ReadRawContent
  BY <1>1, <1>8, RawLoss
<1>9. CASE UNCHANGED lexVars
  BY <1>9 DEF lexVars, NoneLost, AllAccounted, Accounted, Skipped, TagAt, InToken, TextSoFar, TextsSame, Behind, Char
<1> QED
  BY <1>2, <1>3, <1>4, <1>5, <1>6, <1>7, <1>8, <1>9 DEF LexNext

(* The parser begins when the tokenizer is done, which then does nothing.  *)
ParsedAtEnd == ast # <<>> \/ result # "pending" => at = "end"

LEMMA EndIsEnd == ASSUME LexNext PROVE at # "end"
  BY DEF LexNext, StartText, TextEscape, TextChar, EndText, OpenRawBlock, OpenUnescaped, OpenTag, OpenComment,
         OpensPlain, SkipWhite, CloseTag, EndOfSource, ReadMark, ReadSegment, ReadNumber, ReadIdentifier,
         SkipUnknown, StartString, StringChar, EndString, InStringOf, ReadRawContent, EndOfTokens, Outer, Inside, Tags

LossInv == LexInv /\ NoneLost /\ ParsedAtEnd

LEMMA LossInitially == ASSUME Init PROVE LossInv
<1>1. LexInv /\ ast = <<>> /\ result = "pending"
  BY LexInitially DEF Init, ParseInit
<1>2. pos = 0 /\ at = "outer" /\ tokens = <<>> /\ Len(tokens) = 0
  BY EmptySeq DEF Init, LexInit
<1>3. NoneLost
  BY <1>2 DEF NoneLost, AllAccounted, TextSoFar, TextsSame, Behind, Collecting, Strings
<1> QED
  BY <1>1, <1>3 DEF LossInv, ParsedAtEnd

LEMMA LossInductive == ASSUME LossInv, [Next]_vars PROVE LossInv'
<1>1. LexInv /\ NoneLost /\ ParsedAtEnd
  BY DEF LossInv
<1>2. CASE Tokenize
  <2>1. LexNext /\ UNCHANGED <<ast, result>>
    BY <1>2 DEF Tokenize, parseVars
  <2>2. LexInv' /\ NoneLost'
    BY <1>1, <2>1, LexStep, LossStep
  <2>3. ParsedAtEnd'
    BY <1>1, <2>1, EndIsEnd DEF ParsedAtEnd
  <2> QED
    BY <2>2, <2>3 DEF LossInv
<1>3. CASE Parse \/ Report \/ UNCHANGED vars
  <2>1. UNCHANGED lexVars
    BY <1>3 DEF Parse, Report, vars
  <2>2. LexInv' /\ NoneLost'
    BY <1>1, <2>1, LexStep, LossStep
  <2>3. ParsedAtEnd'
    <3>1. at' = at
      BY <2>1 DEF lexVars
    <3>2. CASE Parse
      BY <3>1, <3>2 DEF Parse, ParsedAtEnd
    <3>3. CASE Report
      BY <1>1, <3>1, <3>3 DEF Report, ParsedAtEnd
    <3>4. CASE UNCHANGED vars
      BY <1>1, <3>1, <3>4 DEF vars, parseVars, ParsedAtEnd
    <3> QED
      BY <1>3, <3>2, <3>3, <3>4
  <2> QED
    BY <2>2, <2>3 DEF LossInv
<1> QED
  BY <1>2, <1>3 DEF Next

LEMMA LossInvMeans == ASSUME LossInv PROVE NothingLost
<1> SUFFICES ASSUME result = "ok"
             PROVE  /\ \A p \in 0..(Len(source) - 1) : Skipped(p) \/ InToken(p, tokens)
                    /\ TextsSame(tokens)
  BY SameIs DEF NothingLost, InToken, Skipped, WithinTag, TagAt, TextsSame
<1>1. LexInv /\ NoneLost /\ at = "end" /\ at \notin Collecting
  BY DEF LossInv, ParsedAtEnd, Collecting, Strings
<1>2. TextsSame(tokens) /\ pos >= Len(source)
  BY <1>1 DEF NoneLost
<1>3. ASSUME NEW p \in 0..(Len(source) - 1) PROVE Skipped(p) \/ InToken(p, tokens)
  <2>1. pos \in Nat /\ Len(source) \in Nat /\ \A q \in 0..(pos - 1) : Accounted(q)
    BY <1>1, ReadBefore
  <2>2. p \in 0..(pos - 1) /\ p < Len(source)
    BY <1>2, <2>1
  <2> QED
    BY <2>1, <2>2 DEF Accounted
<1> QED
  BY <1>2, <1>3

(* Nothing of a template is lost between its source and its tokens: when   *)
(* hbs_compile has answered, each character of the source is in a token or *)
(* is one the tokenizer skips in a tag, and each text has every character  *)
(* written there but for the backslashes that escape a tag, or, if it is   *)
(* the content of a raw block, every one.                                  *)
THEOREM KeepsAll == Spec => []NothingLost
<1>1. Init => LossInv
  BY LossInitially
<1>2. LossInv /\ [Next]_vars => LossInv'
  BY LossInductive
<1>3. LossInv => NothingLost
  BY LossInvMeans
<1> QED
  BY <1>1, <1>2, <1>3, PTL DEF Spec

=============================================================================
