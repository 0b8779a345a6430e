------------------------------- MODULE Lexer -------------------------------
(***************************************************************************)
(* The tokenizer (src/lexer.c): hbs_lexer_tokenize and the functions it    *)
(* calls for text, tags, comments and raw blocks, each loop that reads a   *)
(* character at a time as one step per iteration where the next iteration  *)
(* depends on it, else as one step.                                        *)
(*                                                                         *)
(* The source is a sequence of symbols.  A symbol stands for one character *)
(* except a word, which stands for a run of letters.  Positions count from *)
(* 0; what C finds at the length of the source is the terminating "NUL".   *)
(* Lines and columns are left out: a token keeps the position.             *)
(***************************************************************************)
EXTENDS Tokens, FiniteSets

CONSTANTS
    Sources,   \* what hbs_compile may be given
    Words      \* runs of letters

Digits == {"0"}
White  == {" ", "nl"}
Quotes == {"dq", "sq"}
Signs  == {"{", "}", "~", "#", "/", ">", "*", "!", "^", "&", "\\", ".", "=", "(", ")",
           "|", "[", "]", "-", "_", "@"}
Symbols == Words \cup Digits \cup White \cup Quotes \cup Signs

ASSUME SourcesAssumption == Sources \subseteq Seq(Symbols)
ASSUME WordsAssumption == /\ Words \cap (Digits \cup White \cup Quotes \cup Signs) = {}
                          /\ "NUL" \notin Symbols

VARIABLES
    source,   \* lex->source: constant while it is read
    pos,      \* lex->pos
    inTag,    \* lex->in_tag
    at,       \* the loop being executed: see Loops
    buf       \* what a loop keeps between iterations: the text so far, and
              \* where it (or a string) began

lexVars == <<source, tokens, pos, inTag, at, buf>>

(* The loops of hbs_lexer_tokenize, lex_text, lex_tag_contents (of any tag *)
(* and of the open tag of a raw block) and lex_string; between the open    *)
(* tag of a raw block and its content; after the last token.               *)
Tags  == {"tag", "rawtag"}
Loops == {"outer", "text", "raw", "string", "rawstring", "end"} \cup Tags

-----------------------------------------------------------------------------
(* Reading.                                                                *)
Char(p) == IF p < Len(source) THEN source[p + 1] ELSE "NUL"
Slice(from, to) == SubSeq(source, from + 1, to)

(* match_str: a mark is a sequence of symbols.                             *)
Looking(p, mark) == p + Len(mark) <= Len(source) /\ Slice(p, p + Len(mark)) = mark

(* Where a loop that reads from a place on until one of these marks, or a  *)
(* character that is not in a set, comes or the source ends stops.         *)
UntilMark(from, mark) ==
    CHOOSE p \in from..Len(source) : /\ p = Len(source) \/ Looking(p, mark)
                                     /\ \A q \in from..(p - 1) : ~Looking(q, mark)
PastChars(from, chars) ==
    CHOOSE p \in from..Len(source) : /\ p = Len(source) \/ Char(p) \notin chars
                                     /\ \A q \in from..(p - 1) : Char(q) \in chars

Braces(n)    == [i \in 1..n |-> "{"]
EndBraces(n) == [i \in 1..n |-> "}"]

Emit(tok, to) == tokens' = Append(tokens, tok) /\ pos' = to
Nothing == [text |-> <<>>, from |-> 0, quote |-> "NUL"]

-----------------------------------------------------------------------------
(* Text, outside of tags.  A backslash before two braces is dropped and    *)
(* the braces are text.                                                    *)
Outer == at = "outer" /\ pos < Len(source) /\ ~inTag

StartText ==
    /\ Outer /\ ~Looking(pos, Braces(2))
    /\ at' = "text"
    /\ buf' = [Nothing EXCEPT !.from = pos]
    /\ UNCHANGED <<source, tokens, pos, inTag>>

Escaping(p) == Char(p) = "\\" /\ Char(p + 1) = "{" /\ Char(p + 2) = "{"

TextEscape ==
    /\ at = "text" /\ pos < Len(source) /\ Escaping(pos)
    /\ pos' = pos + 3
    /\ buf' = [buf EXCEPT !.text = @ \o Braces(2)]
    /\ UNCHANGED <<source, tokens, inTag, at>>

(* Slip: every backslash of a text is dropped.                             *)
TextCharSlip ==
    /\ at = "text" /\ pos < Len(source) /\ ~Escaping(pos)
    /\ ~Looking(pos, Braces(2))
    /\ pos' = pos + 1
    /\ buf' = IF Char(pos) = "\\" THEN buf ELSE [buf EXCEPT !.text = Append(@, Char(pos))]
    /\ UNCHANGED <<source, tokens, inTag, at>>

TextChar ==
    /\ at = "text" /\ pos < Len(source) /\ ~Escaping(pos)
    /\ ~Looking(pos, Braces(2))
    /\ pos' = pos + 1
    /\ buf' = [buf EXCEPT !.text = Append(@, Char(pos))]
    /\ UNCHANGED <<source, tokens, inTag, at>>

EndText ==
    /\ at = "text" /\ (pos >= Len(source) \/ Looking(pos, Braces(2)))
    /\ at' = "outer"
    /\ buf' = Nothing
    /\ tokens' = IF buf.text = <<>> THEN tokens
                 ELSE Append(tokens, Token("TEXT", buf.text, buf.from, pos))
    /\ UNCHANGED <<source, pos, inTag>>

-----------------------------------------------------------------------------
(* The start of a tag: the braces, perhaps a tilde, and the characters     *)
(* that say what kind of tag it is.                                        *)
RawOpens == Looking(pos, Braces(4)) /\ Char(pos + 4) # "/"

StartTag(toks, to, loop) ==
    /\ tokens' = tokens \o toks
    /\ pos' = to
    /\ inTag' = TRUE
    /\ at' = loop
    /\ UNCHANGED <<source, buf>>

OpenRawBlock ==
    /\ Outer /\ RawOpens
    /\ StartTag(<<Token("OPEN_RAW_BLOCK", <<>>, pos, pos + 4)>>, pos + 4, "rawtag")

OpenUnescaped ==
    /\ Outer /\ ~RawOpens /\ Looking(pos, Braces(3))
    /\ StartTag(<<Token("OPEN_UNESC", <<>>, pos, pos + 3)>>, pos + 3, "tag")

(* The kind of tag, and how many characters say so.                        *)
TagTypes == [c \in {"#", "/", ">", "!", "^", "&"} |->
    CASE c = "#" -> "OPEN_BLOCK"   [] c = "/" -> "OPEN_END_BLOCK" [] c = ">" -> "OPEN_PARTIAL"
      [] c = "!" -> "OPEN_COMMENT" [] c = "^" -> "OPEN_INVERSE"   [] c = "&" -> "OPEN_UNESC_AMP"]

TagKind(p) ==
    IF Looking(p, <<"#", ">">>) THEN <<"OPEN_PARTIAL_BLOCK", 2>>
    ELSE IF Looking(p, <<"#", "*">>) THEN <<"OPEN_DECORATOR", 2>>
    ELSE IF Char(p) \in DOMAIN TagTypes THEN <<TagTypes[Char(p)], 1>>
    ELSE <<"OPEN", 0>>

Opening == LET tilde  == Char(pos + 2) = "~"
               sign   == IF tilde THEN pos + 3 ELSE pos + 2
               to     == sign + TagKind(sign)[2]
               opened == Token(TagKind(sign)[1], <<>>, pos, to)
           IN  [type |-> TagKind(sign)[1], to |-> to,
                toks |-> IF tilde THEN <<opened, Token("STRIP", <<>>, pos, to)>> ELSE <<opened>>]

OpensPlain == Outer /\ Looking(pos, Braces(2)) /\ ~Looking(pos, Braces(3))

OpenTag ==
    /\ OpensPlain /\ Opening.type # "OPEN_COMMENT"
    /\ StartTag(Opening.toks, Opening.to, "tag")

(* A comment is read in one go: up to the next --}} when it begins with    *)
(* two dashes, else up to the next }}; its body loses the dashes.          *)
CommentBody(p) ==
    LET long  == Looking(p, <<"-", "-">>)
        mark  == IF long THEN <<"-", "-">> \o EndBraces(2) ELSE EndBraces(2)
        from  == IF long THEN p + 2 ELSE p
        stop  == UntilMark(from, mark)
        to    == IF stop < Len(source) THEN stop + Len(mark) ELSE stop
    IN  [tok |-> Token("COMMENT_BODY", Slice(from, stop), p, to), to |-> to]

OpenComment ==
    /\ OpensPlain /\ Opening.type = "OPEN_COMMENT"
    /\ LET body == CommentBody(Opening.to)
       IN  /\ tokens' = Append(tokens \o Opening.toks, body.tok)
           /\ pos' = body.to
    /\ UNCHANGED <<source, inTag, at, buf>>

-----------------------------------------------------------------------------
(* Inside of a tag.                                                        *)
Inside == at \in Tags /\ inTag /\ pos < Len(source)
After(loop) == IF loop = "rawtag" THEN "raw" ELSE "outer"

SkipWhite ==
    /\ Inside /\ Char(pos) \in White
    /\ pos' = PastChars(pos, White)
    /\ UNCHANGED <<source, tokens, inTag, at, buf>>

(* The longest run of up to four closing braces.                           *)
CloseTypes == <<"", "CLOSE", "CLOSE_UNESC", "CLOSE_RAW_BLOCK">>
CloseLen(p) == IF Looking(p, EndBraces(4)) THEN 4 ELSE IF Looking(p, EndBraces(3)) THEN 3
               ELSE IF Looking(p, EndBraces(2)) THEN 2 ELSE 0

(* Slip: the tokenizer stays in the tag.                                    *)
CloseTagSlip ==
    /\ Inside /\ CloseLen(pos) # 0
    /\ Emit(Token(CloseTypes[CloseLen(pos)], <<>>, pos, pos + CloseLen(pos)), pos + CloseLen(pos))
    /\ UNCHANGED <<source, inTag, at, buf>>

CloseTag ==
    /\ Inside /\ CloseLen(pos) # 0
    /\ Emit(Token(CloseTypes[CloseLen(pos)], <<>>, pos, pos + CloseLen(pos)), pos + CloseLen(pos))
    /\ inTag' = FALSE
    /\ at' = After(at)
    /\ UNCHANGED <<source, buf>>

(* The source ends in a tag: in_tag stays set.                             *)
EndOfSource ==
    /\ at \in Tags /\ inTag /\ pos >= Len(source)
    /\ at' = After(at)
    /\ UNCHANGED <<source, tokens, pos, inTag, buf>>

MarkTypes == [c \in {"~", ".", "/", "=", "(", ")", "|"} |->
    CASE c = "~" -> "STRIP" [] c = "." -> "DOT" [] c = "/" -> "SLASH" [] c = "=" -> "EQUALS"
      [] c = "(" -> "OPEN_PAREN" [] c = ")" -> "CLOSE_PAREN" [] c = "|" -> "PIPE"]

ReadMark ==
    /\ Inside /\ Char(pos) \in DOMAIN MarkTypes
    /\ IF Looking(pos, <<".", ".">>)
       THEN Emit(Token("DOT_DOT", <<>>, pos, pos + 2), pos + 2)
       ELSE Emit(Token(MarkTypes[Char(pos)], <<>>, pos, pos + 1), pos + 1)
    /\ UNCHANGED <<source, inTag, at, buf>>

(* [segment]: up to the bracket or the end.                                *)
ReadSegment ==
    /\ Inside /\ Char(pos) = "["
    /\ LET stop == UntilMark(pos + 1, <<"]">>)
           to   == IF stop < Len(source) THEN stop + 1 ELSE stop
       IN  Emit(Token("SEG_LITERAL", Slice(pos + 1, stop), pos + 1, to), to)
    /\ UNCHANGED <<source, inTag, at, buf>>

IsNumber(p) == Char(p) \in Digits \/ (Char(p) = "-" /\ Char(p + 1) \in Digits)

ReadNumber ==
    /\ Inside /\ IsNumber(pos)
    /\ LET whole == PastChars(pos + 1, Digits)
           to    == IF Char(whole) = "." THEN PastChars(whole + 1, Digits) ELSE whole
       IN  Emit(Token("NUMBER", Slice(pos, to), pos, to), to)
    /\ UNCHANGED <<source, inTag, at, buf>>

(* An identifier; what the keywords are, @ is only part of one at its      *)
(* start.                                                                  *)
IdType(id) == CASE id \in {<<"true">>, <<"false">>} -> "BOOLEAN"
                [] id = <<"null">>      -> "NULL"
                [] id = <<"undefined">> -> "UNDEFINED"
                [] id = <<"as">>        -> "AS"
                [] OTHER                -> "ID"
IdChars == Words \cup Digits \cup {"_", "-"}

ReadIdentifier ==
    /\ Inside /\ Char(pos) \in Words \cup {"_", "@"}
    /\ LET to == PastChars(pos + 1, IdChars)
       IN  Emit(Token(IdType(Slice(pos, to)), Slice(pos, to), pos, to), to)
    /\ UNCHANGED <<source, inTag, at, buf>>

(* Slip: what no tag knows is left to be read.                              *)
SkipUnknownSlip ==
    /\ Inside /\ CloseLen(pos) = 0 /\ ~IsNumber(pos)
    /\ Char(pos) \in {"{", "}", "#", ">", "*", "!", "^", "&", "\\", "]", "-"}
    /\ UNCHANGED lexVars

SkipUnknown ==
    /\ Inside /\ CloseLen(pos) = 0 /\ ~IsNumber(pos)
    /\ Char(pos) \in {"{", "}", "#", ">", "*", "!", "^", "&", "\\", "]", "-"}
    /\ pos' = pos + 1
    /\ UNCHANGED <<source, tokens, inTag, at, buf>>

-----------------------------------------------------------------------------
(* Strings.  A backslash and what follows it are taken together, even when *)
(* what follows is the end of the source.                                  *)
InString(loop) == IF loop = "rawtag" THEN "rawstring" ELSE "string"
InStringOf == at \in {"string", "rawstring"}
StringGoesOn == pos < Len(source) /\ Char(pos) # buf.quote

StartString ==
    /\ Inside /\ Char(pos) \in Quotes
    /\ pos' = pos + 1
    /\ at' = InString(at)
    /\ buf' = [Nothing EXCEPT !.from = pos + 1, !.quote = Char(pos)]
    /\ UNCHANGED <<source, tokens, inTag>>

(* Slip: two characters are skipped after a backslash.                      *)
StringCharSlip ==
    /\ InStringOf /\ StringGoesOn
    /\ pos' = IF Char(pos) = "\\" THEN pos + 3 ELSE pos + 1
    /\ UNCHANGED <<source, tokens, inTag, at, buf>>

StringChar ==
    /\ InStringOf /\ StringGoesOn
    /\ pos' = IF Char(pos) = "\\" THEN pos + 2 ELSE pos + 1
    /\ UNCHANGED <<source, tokens, inTag, at, buf>>

(* The terminating NUL, if it was taken, ends the value early.             *)
EndString ==
    /\ InStringOf /\ ~StringGoesOn
    /\ LET stop == IF pos < Len(source) THEN pos ELSE Len(source)
           to   == IF pos < Len(source) THEN pos + 1 ELSE pos
       IN  Emit(Token("STRING", Slice(buf.from, stop), buf.from, to), to)
    /\ at' = IF at = "rawstring" THEN "rawtag" ELSE "tag"
    /\ buf' = Nothing
    /\ UNCHANGED <<source, inTag>>

-----------------------------------------------------------------------------
(* The content of a raw block, up to its close tag; that of a raw block    *)
(* without a name is read like the rest of the template.                   *)
HelperName ==
    LET i == CHOOSE k \in 1..Len(tokens) :
                /\ tokens[k].type = "OPEN_RAW_BLOCK"
                /\ \A j \in (k + 1)..Len(tokens) : tokens[j].type # "OPEN_RAW_BLOCK"
    IN  IF i < Len(tokens) /\ tokens[i + 1].type = "ID" THEN tokens[i + 1].value ELSE <<>>

RawContent(name) ==
    LET mark    == Braces(4) \o <<"/">> \o name \o EndBraces(4)
        stop    == UntilMark(pos, mark)
        content == IF stop > pos THEN <<Token("TEXT", Slice(pos, stop), pos, stop)>> ELSE <<>>
        named   == stop + 5 + Len(name)
    IN  IF pos >= Len(source) THEN [toks |-> <<>>, to |-> pos]
        ELSE IF stop = Len(source) THEN [toks |-> content, to |-> stop]
        ELSE [toks |-> content \o <<Token("OPEN_END_BLOCK", <<>>, stop, stop + 5),
                                     Token("ID", name, stop + 5, named),
                                     Token("CLOSE_RAW_BLOCK", <<>>, named, named + 4)>>,
              to |-> named + 4]

ReadRawContent ==
    /\ at = "raw"
    /\ at' = "outer"
    /\ LET raw == RawContent(HelperName)
       IN  IF HelperName = <<>> THEN UNCHANGED <<tokens, pos>>
           ELSE tokens' = tokens \o raw.toks /\ pos' = raw.to
    /\ UNCHANGED <<source, inTag, buf>>

EndOfTokens ==
    /\ at = "outer" /\ pos >= Len(source)
    /\ at' = "end"
    /\ tokens' = Append(tokens, Token("EOF", <<>>, pos, pos))
    /\ UNCHANGED <<source, pos, inTag, buf>>

-----------------------------------------------------------------------------
LexInit ==
    /\ source \in Sources
    /\ tokens = <<>> /\ pos = 0 /\ inTag = FALSE /\ at = "outer" /\ buf = Nothing

LexNext ==
    \/ StartText \/ TextEscape \/ TextChar \/ EndText
    \/ OpenRawBlock \/ OpenUnescaped \/ OpenTag \/ OpenComment
    \/ SkipWhite \/ CloseTag \/ EndOfSource \/ ReadMark \/ ReadSegment \/ ReadNumber
    \/ ReadIdentifier \/ SkipUnknown
    \/ StartString \/ StringChar \/ EndString
    \/ ReadRawContent \/ EndOfTokens

LexSpec == LexInit /\ [][LexNext]_lexVars

-----------------------------------------------------------------------------
(* Nothing is read beyond the NUL that ends the source, whatever template  *)
(* breaks off where, and the list of tokens gets its end.                  *)
StaysInside ==
    /\ pos <= Len(source) + 1
    /\ at = "end" => tokens # <<>> /\ Last(tokens).type = "EOF"

(* What the parser takes for granted: in the list of tokens a tag is       *)
(* closed before the next one opens, a text is outside of tags and all     *)
(* else inside, and no two texts are neighbours.  Only the last tag of a   *)
(* template may be unclosed, and then nothing follows it.                  *)
Endings == Closes \cup {"COMMENT_BODY"}

TagOpen(toks, k) == \E i \in 1..k : /\ toks[i].type \in Opens
                                    /\ \A j \in (i + 1)..k : toks[j].type \notin Endings

InPlace(toks, k) ==
    /\ toks[k].type \in Opens \cup {"TEXT"} => ~TagOpen(toks, k - 1)
    /\ toks[k].type = "TEXT" /\ k > 1 => toks[k - 1].type # "TEXT"
    /\ toks[k].type = "EOF" => k = Len(toks)
    /\ toks[k].type \notin Opens \cup {"TEXT", "EOF"} => TagOpen(toks, k - 1)

Bracketed(toks) == \A k \in 1..Len(toks) : InPlace(toks, k)

TagsBracketed == Bracketed(tokens)

=============================================================================
