----------------------------- MODULE MCCompile -----------------------------
(***************************************************************************)
(* Instances of Compile: everything three pieces can be put together to,   *)
(* whether that makes a template or breaks off anywhere; tags and ends of  *)
(* blocks in any order; templates cut short; the templates of Syntax.      *)
(***************************************************************************)
EXTENDS Syntax

MCWords == {"a", "b", "if", "else", "this", "as", "inline", "true", "null", "undefined"}

Pieces == {Braces(2), Braces(3), Braces(4), EndBraces(2), EndBraces(3), EndBraces(4),
           <<"#">>, <<"/">>, <<"^">>, <<">">>, <<"!">>, <<"-", "-">>, <<"dq">>, <<"\\">>,
           <<"a">>, <<"[">>, <<"(">>, <<".">>, <<"0">>, <<" ">>, <<"~">>}
Broken == {x \o y \o z : x, y, z \in Pieces}

BlockTags == {In(<<"#">>, <<"a">>, <<>>), In(<<"/">>, <<"a">>, <<>>), In(<<>>, <<"else">>, <<>>),
              In(<<>>, <<"else", " ", "if">>, <<>>), In(<<"^">>, <<>>, <<>>)}
OtherTags == {<<"b">>, In(<<>>, <<"a">>, <<>>), In(<<"#", ">">>, <<"a">>, <<>>),
              In(<<"#", "*">>, <<"inline">>, <<>>), Braces(4) \o <<"a">> \o EndBraces(4)}
Misnested == {x \o y \o z : x, y, z \in OtherTags \cup BlockTags}
             \cup {In(<<"#">>, <<"a">>, <<>>) \o x \o <<"b">> \o y \o z : x, y, z \in BlockTags}

Beginnings(S, m, n) == UNION {{SubSeq(t.src, 1, k) : k \in m..Min({n, Len(t.src)})} : t \in S}
CutShort == Beginnings(PartialBlocks(Inner), 1, 25) \cup Beginnings(Statements, 3, 8)

AllSources == Broken \cup Misnested \cup CutShort \cup Written
MCSources  == AllSources

DotSources   == {t.src : t \in DotArguments}
MCDotSources == DotSources

=============================================================================
