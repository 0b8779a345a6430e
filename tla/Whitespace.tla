----------------------------- MODULE Whitespace -----------------------------
(***************************************************************************)
(* What hbs_compile does to the text of a parsed template before it is     *)
(* rendered (src/render.c): the pass over standalone tags, then the pass   *)
(* over the ~ flags.  Both edit the text nodes in place, so a decision may *)
(* read what an earlier one left.                                          *)
(*                                                                         *)
(* A template is the sequence of its items in source order: texts, tags    *)
(* and mustaches.  A block is an "open" item, its body, perhaps an "else"  *)
(* item and the inverse, and a "close" item.  An opening that is never     *)
(* closed is a block for the parser too: its close, without ~, stands      *)
(* where the parser ends its body.  A stray end is no item, since the      *)
(* parser skips it; two texts are adjacent only where it stood.            *)
(* "mustache" is every statement the first pass has no interest in:        *)
(* expressions, escaped or not, and, always without ~, raw blocks.  A      *)
(* character is "s" (space or tab), "r", "n" (newline) or "x" (any         *)
(* other).                                                                 *)
(***************************************************************************)
EXTENDS SequencesExt, Integers

CONSTANT Shapes   \* sets of templates, as parsed: those of one shape each

Blank == {"s"}
White == {"s", "r", "n"}

Kinds == {"text", "mustache", "comment", "partial", "inline", "endinline",
          "open", "else", "close"}

(* An item: its kind, its characters (a text), its ~ flags, and whether it *)
(* is written in the same tag as the item before it ("else if" is an else  *)
(* and the opening of a block; its close tag closes two blocks).           *)
Item == [kind : Kinds, chars : Seq(White \cup {"x"}),
         left : BOOLEAN, right : BOOLEAN, glued : BOOLEAN]

ASSUME ShapesAssumption == \A shape \in Shapes : shape \subseteq Seq(Item)

VARIABLES
    source,  \* the template, as parsed
    text,    \* text node values: the characters of each item now
    indent,  \* node->partial.indent of each item
    todo     \* the edits the two passes have still to try

vars == <<source, text, indent, todo>>

-----------------------------------------------------------------------------
(* The tree behind the items.                                              *)
Is(src, p, kinds) == p \in 1..Len(src) /\ src[p].kind \in kinds

Openers == {"open", "inline"}
Closers == {"close", "endinline"}

Depth(src, p) == Cardinality({q \in 1..(p - 1) : src[q].kind \in Openers})
                 - Cardinality({q \in 1..(p - 1) : src[q].kind \in Closers})

(* The items of the block opened at p, at the block's own level.           *)
Parts(src, p, kinds) == {q \in (p + 1)..Len(src) :
                            src[q].kind \in kinds /\ Depth(src, q) = Depth(src, p) + 1}

CloseOf(src, p) == Min(Parts(src, p, Closers))
ElsesOf(src, p) == {q \in Parts(src, p, {"else"}) : q < CloseOf(src, p)}

(* Each opening has its close, if only where the parser ends its body.     *)
ASSUME ClosedAssumption ==
    \A shape \in Shapes : \A src \in shape : \A p \in 1..Len(src) :
        Is(src, p, Openers) => Parts(src, p, Closers) # {}

(* How the parser forms blocks and tags: an end or an else belongs to an   *)
(* opening of its kind, only an expression and the ends of a block carry   *)
(* ~, and the tags written in one are "else if", the two ends its block    *)
(* shares with the block around it, and "^" (an open with nothing before   *)
(* its else).                                                              *)
Belongs(src, p, o) ==
    \/ Is(src, o, {"open"}) /\ Is(src, p, {"else"}) /\ p \in ElsesOf(src, o)
    \/ Is(src, o, {"open"}) /\ Is(src, p, {"close"}) /\ p = CloseOf(src, o)
    \/ Is(src, o, {"inline"}) /\ Is(src, p, {"endinline"}) /\ p = CloseOf(src, o)

Joint(src, p) ==
    \/ Is(src, p - 1, {"else"}) /\ Is(src, p, {"open"})
    \/ Is(src, p - 1, {"close"}) /\ Is(src, p, {"close"})
    \/ Is(src, p - 1, {"open"}) /\ Is(src, p, {"else"})

Formed(src, p) ==
    /\ Is(src, p, Openers) => Belongs(src, CloseOf(src, p), p)
    /\ Is(src, p, Closers \cup {"else"}) => \E o \in 1..(p - 1) : Belongs(src, p, o)
    /\ src[p].left \/ src[p].right => Is(src, p, {"mustache", "open", "close"})
    /\ src[p].glued => Joint(src, p)

ASSUME FormedAssumption ==
    \A shape \in Shapes : \A src \in shape : \A p \in 1..Len(src) : Formed(src, p)

(* Neither pass descends into the body of an inline partial.               *)
Hidden(src, p) == \E q \in 1..(p - 1) : /\ src[q].kind = "inline"
                                        /\ p <= CloseOf(src, q)

(* The first, the last statement of a program.                             *)
AtStart(src, p) == p = 1 \/ Is(src, p - 1, {"open", "else"})
AtEnd(src, p) == p = Len(src) \/ Is(src, p + 1, {"else", "close"})

-----------------------------------------------------------------------------
(* The order of the edits: a pass handles a statement of a program, then   *)
(* what is inside it, then the next statement.                             *)
Edit(op, at) == <<[op |-> op, at |-> at]>>

\* Slip: the else tag is forgotten.
AttemptsSlip(src, p) ==
    IF Hidden(src, p) THEN <<>> ELSE
    CASE Is(src, p, {"comment", "partial", "inline"}) -> Edit("simple", p)
      [] Is(src, p, {"open"}) -> Edit("open", p) \o Edit("close", CloseOf(src, p))
      [] OTHER -> <<>>

Attempts(src, p) ==
    IF Hidden(src, p) THEN <<>> ELSE
    CASE Is(src, p, {"comment", "partial", "inline"}) -> Edit("simple", p)
      [] Is(src, p, {"open"}) ->
            Edit("open", p)
            \o FlattenSeq([q \in 1..Len(src) |-> IF q \in ElsesOf(src, p)
                                                THEN Edit("else", q) ELSE <<>>])
            \o Edit("close", CloseOf(src, p))
      [] OTHER -> <<>>

Side(src, p, flag, op, at) ==
    IF flag /\ Is(src, at, {"text"}) THEN Edit(op, at) ELSE <<>>

Both(src, p) == Side(src, p, src[p].left, "trailing", p - 1)
                \o Side(src, p, src[p].right, "leading", p + 1)

Tildes(src, p) ==
    IF Hidden(src, p) THEN <<>> ELSE
    CASE Is(src, p, {"mustache"}) -> Both(src, p)
      [] Is(src, p, {"open"}) -> Both(src, p) \o Both(src, CloseOf(src, p))
      [] OTHER -> <<>>

FirstPass(src) == FlattenSeq([p \in 1..Len(src) |-> Attempts(src, p)])
SecondPass(src) == FlattenSeq([p \in 1..Len(src) |-> Tildes(src, p)])

Init ==
    /\ \E shape \in Shapes : source \in shape
    /\ text = [p \in 1..Len(source) |-> source[p].chars]
    /\ indent = [p \in 1..Len(source) |-> <<>>]
    /\ todo = FirstPass(source) \o SecondPass(source)

-----------------------------------------------------------------------------
(* Newlines of a text: where its first line ends, where its last begins.   *)
Newlines(t) == {i \in 1..Len(t) : t[i] = "n"}
Blanks(t, from, to) == \A i \in from..to : t[i] \in Blank

LastNewline(t) == IF Newlines(t) = {} THEN 0 ELSE Max(Newlines(t))
LineEnd(t) == IF Newlines(t) = {} THEN Len(t) ELSE Min(Newlines(t))

(* The text before (after) a tag ends (begins) with the rest of its line:  *)
(* blanks up to a newline, or all of it if it is the first (last)          *)
(* statement of its program.                                               *)
EndsLine(t, first) == /\ Newlines(t) # {} \/ first
                      /\ Blanks(t, LastNewline(t) + 1, Len(t))
\* Slip: whatever the last text holds is taken for the end of a line.
BeginsLineSlip(t, last) == IF Newlines(t) = {} THEN last
                                               ELSE Blanks(t, 1, LineEnd(t) - 1)
BeginsLine(t, last) == IF Newlines(t) = {} THEN last /\ Blanks(t, 1, Len(t))
                                           ELSE Blanks(t, 1, LineEnd(t) - 1)

Before(p) == p - 1
After(p) == IF source[p].kind = "inline" THEN CloseOf(source, p) + 1 ELSE p + 1

PrevOk(p) == IF Is(source, Before(p), {"text"})
             THEN EndsLine(text[Before(p)], AtStart(source, Before(p)))
             ELSE AtStart(source, p)
NextOk(p) == IF Is(source, After(p), {"text"})
             THEN BeginsLine(text[After(p)], AtEnd(source, After(p)))
             ELSE AtEnd(source, After(p) - 1)

Standalone(p) == PrevOk(p) /\ NextOk(p)

Kept(p) == LastNewline(text[Before(p)])
Skipped(p) == LineEnd(text[After(p)])

(* The texts once the rest of the tag's line is cut from both sides.       *)
Cut(p) == [q \in DOMAIN text |->
              IF q = Before(p) /\ Is(source, q, {"text"})
              THEN SubSeq(text[q], 1, Kept(p))
              ELSE IF q = After(p) /\ Is(source, q, {"text"})
              THEN SubSeq(text[q], Skipped(p) + 1, Len(text[q]))
              ELSE text[q]]

\* Slip: indentation from the start of the text, not of its last line.
IndentedSlip(p) == IF source[p].kind = "partial" /\ Is(source, Before(p), {"text"})
                   THEN [indent EXCEPT ![p] = text[Before(p)]]
                   ELSE indent

(* What stands before a standalone partial is the indentation of each line *)
(* it will produce.                                                        *)
Indented(p) == IF source[p].kind = "partial" /\ Is(source, Before(p), {"text"})
               THEN [indent EXCEPT ![p] = SubSeq(text[Before(p)], Kept(p) + 1,
                                                 Len(text[Before(p)]))]
               ELSE indent

(* One attempt of the first pass.                                          *)
Try(op) ==
    /\ todo # <<>> /\ Head(todo).op = op
    /\ LET p == Head(todo).at IN
          IF Standalone(p) THEN text' = Cut(p) /\ indent' = Indented(p)
                           ELSE UNCHANGED <<text, indent>>
    /\ todo' = Tail(todo)
    /\ UNCHANGED source

StripSimple == Try("simple")
StripOpen == Try("open")
StripElse == Try("else")
StripClose == Try("close")

-----------------------------------------------------------------------------
(* A text without the whitespace, newlines included, it begins (ends) with. *)
Solid(t) == {i \in 1..Len(t) : t[i] \notin White}
WithoutLeading(t) == IF Solid(t) = {} THEN <<>> ELSE SubSeq(t, Min(Solid(t)), Len(t))
WithoutTrailing(t) == IF Solid(t) = {} THEN <<>> ELSE SubSeq(t, 1, Max(Solid(t)))

(* One edit of the second pass.                                            *)
Trim(op, Trimmed(_)) ==
    /\ todo # <<>> /\ Head(todo).op = op
    /\ text' = [text EXCEPT ![Head(todo).at] = Trimmed(@)]
    /\ todo' = Tail(todo)
    /\ UNCHANGED <<source, indent>>

TrimLeading == Trim("leading", WithoutLeading)
TrimTrailing == Trim("trailing", WithoutTrailing)

Next == \/ StripSimple \/ StripOpen \/ StripElse \/ StripClose
        \/ TrimLeading \/ TrimTrailing

Spec == Init /\ [][Next]_vars

-----------------------------------------------------------------------------
(* The documented result (src/README.md:394-406), from the template as     *)
(* written: lines of the source, not statements of a program.  To what is  *)
(* outside of it, an inline partial is one tag from its opening to its     *)
(* close; in its body lines are lines as anywhere else.                    *)
LineTag(p) == p \in 1..Len(source) /\ source[p].kind \notin {"text", "mustache"}
TextNodes == {q \in 1..Len(source) : source[q].kind = "text"}
Texts == {q \in TextNodes : ~Hidden(source, q)}

(* p is in the body of the inline partial opened at o; an inline partial   *)
(* with p outside of its body covers item a.                               *)
Holds(o, p) == source[o].kind = "inline" /\ o < p /\ p < CloseOf(source, o)
Covered(a, p) == \E o \in 1..(a - 1) : /\ source[o].kind = "inline"
                                       /\ a <= CloseOf(source, o)
                                       /\ ~Holds(o, p)

TagStart(p) == Max({a \in 1..p : ~source[a].glued /\ ~Covered(a, p)})
TagEnd(p) == Min({b \in p..Len(source) : /\ ~(b < Len(source) /\ source[b + 1].glued)
                                         /\ ~Covered(b + 1, p)})

Original(q) == source[q].chars

(* The tag has its line to itself.                                         *)
Alone(p) ==
    /\ LineTag(p)
    /\ \/ TagStart(p) = 1
       \/ /\ Is(source, TagStart(p) - 1, {"text"})
          /\ EndsLine(Original(TagStart(p) - 1), TagStart(p) = 2)
    /\ \/ TagEnd(p) = Len(source)
       \/ /\ Is(source, TagEnd(p) + 1, {"text"})
          /\ BeginsLine(Original(TagEnd(p) + 1), TagEnd(p) = Len(source) - 1)

(* The tag before (after) a text takes its line away from it.              *)
TakesFront(q) == q > 1 /\ Alone(q - 1) /\ source[q - 1].kind # "inline"
TakesBack(q) == Alone(q + 1) /\ source[q + 1].kind # "endinline"

(* The text without what it holds of the lines of its neighbours.          *)
LinesCut(q) ==
    SubSeq(Original(q),
           IF TakesFront(q) THEN LineEnd(Original(q)) + 1 ELSE 1,
           IF TakesBack(q) THEN LastNewline(Original(q)) ELSE Len(Original(q)))

Documented(q) ==
    LET led == IF q > 1 /\ source[q - 1].right THEN WithoutLeading(LinesCut(q))
                                               ELSE LinesCut(q)
    IN IF q < Len(source) /\ source[q + 1].left THEN WithoutTrailing(led) ELSE led

(* Where the code departs from that document: the three limits of          *)
(* LinesAsDocumented.                                                      *)

(* Two tags on one line with nothing but blanks between them.              *)
Adjoin(p, r) == /\ LineTag(p) /\ LineTag(r)
                /\ \/ r = p + 1
                   \/ /\ r = p + 2 /\ source[p + 1].kind = "text"
                      /\ Blanks(Original(p + 1), 1, Len(Original(p + 1)))

(* The first is the end of a statement, the second begins one: of the same *)
(* program, if they follow one another.                                    *)
Siblings(p, r) == /\ Is(source, p, {"comment", "partial", "endinline", "close"})
                  /\ Is(source, r, {"comment", "partial", "inline", "open"})

(* A program begins or ends within a line: the passes take its start or    *)
(* end for that of a line (src/src/render.c:1242, 1277).                   *)
Abrupt == \E p, r \in 1..Len(source) :
              ~Hidden(source, r) /\ Adjoin(p, r) /\ ~Siblings(p, r)

(* Two statements of one program, each alone on its line, the second on    *)
(* the line after the first: see AloneLinesRemoved.                        *)
Crowded == \E q \in Texts :
    /\ Alone(q - 1) /\ Alone(q + 1) /\ Siblings(q - 1, q + 1)
    /\ Cardinality(Newlines(Original(q))) = 1 /\ Solid(Original(q)) = {}

(* A tag in the body of an inline partial has its line to itself, or ~:    *)
(* the passes do not descend there (src/src/render.c:1469, 1562).          *)
Embedded == \E o, p \in 1..Len(source) :
    Holds(o, p) /\ (Alone(p) \/ source[p].left \/ source[p].right)
-----------------------------------------------------------------------------
(* Every text node stays a string, every edit left is at an item of its    *)
(* template, and indentation is made of blanks.                            *)
WhitespaceTypeOK ==
    /\ source \in Seq(Item)
    /\ text \in [1..Len(source) -> Seq(White \cup {"x"})]
    /\ indent \in [1..Len(source) -> Seq(Blank)]
    /\ \A i \in DOMAIN todo : todo[i].at \in DOMAIN source

(* Neither pass ever loses a character that is not whitespace, whatever    *)
(* the earlier edits of the same text left of it: the positions the checks *)
(* return are applied to the text they were computed from                  *)
(* (check_prev_standalone, check_next_standalone, apply_strip, tilde_strip). *)
OnlyWhitespaceLost ==
    \A q \in DOMAIN text :
        Cardinality(Solid(text[q])) = Cardinality(Solid(Original(q)))

(* In a template without ~, what is left of the text before a partial and  *)
(* the partial's indentation are together the end of what was written:     *)
(* the blanks are moved to the indentation, neither lost nor doubled       *)
(* (try_strip_standalone, src/src/render.c:1329).                           *)
IndentFits ==
    (\A p \in DOMAIN source : ~source[p].left /\ ~source[p].right) =>
        \A p \in DOMAIN source :
            source[p].kind = "partial" /\ Is(source, p - 1, {"text"})
            => IsSuffix(text[p - 1] \o indent[p], Original(p - 1))

(* Although each decision reads texts that earlier decisions have cut, and *)
(* sees its own program only, the two passes leave of every text, those in *)
(* inline partials included, what the written lines say: each tag that has *)
(* its line to itself takes the line away, no other tag takes anything,    *)
(* then ~ strips its side.  Tags may share lines, with each other and with *)
(* text; excluded are the templates in which the code departs from its     *)
(* document: Abrupt, Crowded and Embedded ones.                            *)
LinesAsDocumented ==
    todo = <<>> /\ ~Abrupt /\ ~Crowded /\ ~Embedded =>
        \A q \in TextNodes : text[q] = Documented(q)

(* src/README.md:394: tags "that appear on a line by themselves (with only *)
(* whitespace) have their entire line removed".                            *)
AloneLinesRemoved ==
    todo = <<>> => \A q \in TextNodes : Len(text[q]) <= Len(LinesCut(q))

=============================================================================
