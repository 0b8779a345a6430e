------------------------------ MODULE Compile ------------------------------
(***************************************************************************)
(* hbs_compile (src/render.c) up to the whitespace passes: the lexer makes *)
(* all tokens of the source, then the parser makes the AST of the tokens.  *)
(* The same steps compile a registered partial each time it is called.     *)
(***************************************************************************)
EXTENDS Lexer, Parser

VARIABLE result   \* what hbs_compile reports: "pending", "ok" or "parse_error"

vars == <<lexVars, parseVars, result>>

(* parser->error is only set by parser_error, which nothing calls.         *)
ParserError == FALSE

Init == LexInit /\ ParseInit /\ result = "pending"

Tokenize == LexNext /\ UNCHANGED <<parseVars, result>>

Parse == /\ at = "end"
         /\ ParseNext
         /\ UNCHANGED <<lexVars, result>>

Report ==
    /\ ast # <<>> /\ result = "pending"
    /\ result' = IF ParserError THEN "parse_error" ELSE "ok"
    /\ UNCHANGED <<lexVars, parseVars>>

Next == Tokenize \/ Parse \/ Report

(* One thread, which goes on.                                              *)
Spec == Init /\ [][Next]_vars /\ WF_vars(Next)

-----------------------------------------------------------------------------
CompileTypeOK ==
    /\ source \in Sources
    /\ pos \in Nat /\ inTag \in BOOLEAN /\ at \in Loops
    /\ buf \in [text : Seq(Symbols), from : Nat, quote : Quotes \cup {"NUL"}]
    /\ tokens \in Seq([type : TokenTypes, value : Seq(Symbols), at : Nat, end : Nat])
    /\ cursor \in Nat /\ result \in {"pending", "ok", "parse_error"}
    /\ \A k \in 1..Len(stack) :
          /\ stack[k].role = "root" <=> k = 1
          /\ stack[k].role \in {"root", "body", "inverse", "chain", "only"}
          /\ k = Len(stack) => stack[k].role # "chain"

(* The EOF that ends the tokens is never taken, whatever tag, argument or   *)
(* block the tokens break off in: nothing is read beyond it.               *)
EndNotTaken == at = "end" => cursor <= Len(tokens)

(* The text read from a place to another: all that is written there but    *)
(* the backslashes that escape a tag.  The content of a raw block keeps    *)
(* these too.                                                              *)
Unslashed(p) == IF Escaping(p) THEN <<>> ELSE <<Char(p)>>
TextRead(from, to) == FlattenSeq([i \in 1..(to - from) |-> Unslashed(from + i - 1)])
SameText(tok) == tok.value \in {TextRead(tok.at, tok.end), Slice(tok.at, tok.end)}

(* A place in a tag: after a token that opens one, before the next token   *)
(* that ends one; and what is read there without making a token.           *)
WithinTag(p) == \E k \in 1..Len(tokens) :
                   /\ tokens[k].type \in Opens /\ tokens[k].at <= p
                   /\ \A j \in (k + 1)..Len(tokens) : tokens[j].type \in Endings => p < tokens[j].at
Delimiters == White \cup Quotes \cup {"[", "{", "}", "#", ">", "*", "!", "^", "&", "\\", "]", "-"}

(* Nothing of the source is lost: all that is read is in a token, or is in *)
(* a tag a blank, a delimiter or a character no tag knows.  A text has all *)
(* its characters, lone backslashes too, and in their order; only the      *)
(* backslashes that escape a tag may be missing.                           *)
NothingLost == result = "ok" =>
    /\ \A p \in 0..(Len(source) - 1) :
          \/ Char(p) \in Delimiters /\ WithinTag(p)
          \/ \E k \in 1..Len(tokens) : tokens[k].at <= p /\ p < tokens[k].end
    /\ \A k \in 1..Len(tokens) : tokens[k].type = "TEXT" => SameText(tokens[k])

-----------------------------------------------------------------------------
(* Every call of hbs_compile returns.                                      *)
Compiled == <>(result # "pending")

=============================================================================
