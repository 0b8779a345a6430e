----------------------------- MODULE MCStrbuf -----------------------------
(***************************************************************************)
(* An instance of Strbuf: buffers of two bytes that double several times,  *)
(* four blocks of memory, texts that are empty, span lines, and look like  *)
(* what an escaped character is written as.                                *)
(***************************************************************************)
EXTENDS Strbuf

MCChars  == {"a", "nl", "&", "<", "amp", "lt", ";", " "}
MCEntity == [c \in {"&", "<"} |-> IF c = "&" THEN <<"&", "amp", ";">> ELSE <<"&", "lt", ";">>]
MCMargin == <<" ">>
MCTexts  == {<<>>, <<"a">>, <<"nl", "<", "nl">>, <<"&", "lt", ";">>}

=============================================================================
