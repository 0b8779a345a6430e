------------------------------- MODULE Tokens -------------------------------
(***************************************************************************)
(* The tokens the lexer makes of a template's source (src/lexer.h), and    *)
(* the list that hbs_compile hands from the lexer to the parser.           *)
(***************************************************************************)
EXTENDS SequencesExt, Integers

VARIABLE tokens   \* lex->tokens: all made so far, in order

(* Tokens that open a tag, that close one, and that carry a value.         *)
Opens  == {"OPEN", "OPEN_UNESC", "OPEN_UNESC_AMP", "OPEN_BLOCK", "OPEN_END_BLOCK",
           "OPEN_PARTIAL", "OPEN_PARTIAL_BLOCK", "OPEN_COMMENT", "OPEN_RAW_BLOCK",
           "OPEN_INVERSE", "OPEN_DECORATOR"}
Closes == {"CLOSE", "CLOSE_UNESC", "CLOSE_RAW_BLOCK"}
Valued == {"TEXT", "ID", "STRING", "NUMBER", "BOOLEAN", "NULL", "UNDEFINED",
           "SEG_LITERAL", "AS", "COMMENT_BODY"}
Marks  == {"DOT", "DOT_DOT", "SLASH", "EQUALS", "OPEN_PAREN", "CLOSE_PAREN", "PIPE",
           "STRIP", "EOF"}

TokenTypes == Opens \cup Closes \cup Valued \cup Marks

(* A token's type, its value and the place it was read at, which the code  *)
(* keeps as line and column.  end is a history variable: the place up to   *)
(* which the source was read for it.                                       *)
Token(type, value, from, end) == [type |-> type, value |-> value, at |-> from, end |-> end]

=============================================================================
