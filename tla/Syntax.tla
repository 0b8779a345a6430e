------------------------------- MODULE Syntax -------------------------------
(***************************************************************************)
(* The template language as README.md lists it (Handlebars Syntax), as     *)
(* pairs of what is written and what it means: a sequence of symbols and   *)
(* the path, expression, call or list of statements that hbs_compile has   *)
(* to make of it.  Lists of pairs are built from smaller ones, so that a   *)
(* template of several tags is one sequence and one list of statements.    *)
(***************************************************************************)
EXTENDS Compile

Spell(src, means) == [src |-> src, means |-> means]
Beside(A, B) == {Spell(x.src \o y.src, x.means \o y.means) : x \in A, y \in B}
None == {Spell(<<>>, <<>>)}
Blank(src) == <<" ">> \o src
In(open, src, close) == Braces(2) \o open \o src \o close \o EndBraces(2)

-----------------------------------------------------------------------------
(* Paths: the name, ../ for the parent, this for the context, @ for data,  *)
(* [ ] for names of any characters.                                        *)
Named(parts) == [NoPath EXCEPT !.parts = parts]
A == Spell(<<"a">>, Named(<< <<"a">> >>))
B == Spell(<<"b">>, Named(<< <<"b">> >>))

Paths == {
    A,
    Spell(<<"a", ".", "b">>, Named(<< <<"a">>, <<"b">> >>)),
    Spell(<<"a", ".", "[", "b", " ", "0", "]">>, Named(<< <<"a">>, <<"b", " ", "0">> >>)),
    Spell(<<"[", "a", "-", "b", "]">>, Named(<< <<"a", "-", "b">> >>)),
    Spell(<<"@", "a", ".", "b">>, Named(<< <<"@", "a">>, <<"b">> >>)),
    Spell(<<"this">>, [NoPath EXCEPT !.this = TRUE]),
    Spell(<<".">>, [NoPath EXCEPT !.this = TRUE]),
    Spell(<<"this", ".", "a">>, [Named(<< <<"a">> >>) EXCEPT !.this = TRUE]),
    Spell(<<".", "/", "a">>, [Named(<< <<"a">> >>) EXCEPT !.explicit = TRUE]),
    Spell(<<".", ".">>, [NoPath EXCEPT !.depth = 1]),
    Spell(<<".", ".", "/", "a">>, [Named(<< <<"a">> >>) EXCEPT !.depth = 1]),
    Spell(<<".", ".", "/", ".", ".", "/", "a", ".", "b">>,
          [Named(<< <<"a">>, <<"b">> >>) EXCEPT !.depth = 2]),
    Spell(<<"@", ".", ".", "/", "a">>, [Named(<< <<"@", "a">> >>) EXCEPT !.depth = 1])}

(* Arguments: literals, paths and subexpressions; key=value pairs.         *)
Literals == {
    Spell(<<"dq", "a", " ", "b", "dq">>, Literal("STRING", <<"a", " ", "b">>)),
    Spell(<<"sq", "}", "}", "sq">>, Literal("STRING", <<"}", "}">>)),
    Spell(<<"-", "0", ".", "0">>, Literal("NUMBER", <<"-", "0", ".", "0">>)),
    Spell(<<"true">>, Literal("BOOLEAN", <<"true">>)),
    Spell(<<"null">>, Literal("NULL", <<"null">>)),
    Spell(<<"undefined">>, Literal("UNDEFINED", <<"undefined">>))}

Refs(P)  == {Spell(p.src, Ref(p.means)) : p \in P}
Args(E)  == {Spell(Blank(e.src), <<e.means>>) : e \in E}
Hash(E)  == {Spell(Blank(<<"b", "=">>) \o e.src, << << <<"b">>, e.means>> >>) : e \in E}
Calls(P, As, Hs) == {Spell(p.src \o a.src \o h.src, SubExpr(p.means, a.means, h.means)) :
                        p \in P, a \in As, h \in Hs}

Zero  == {Spell(<<"0">>, Literal("NUMBER", <<"0">>))}
Dot   == {Spell(<<".">>, [NoPath EXCEPT !.this = TRUE])}
Some  == Args(Refs({B})) \cup None
Subexpressions ==
    {Spell(<<"(">> \o c.src \o <<")">>, c.means) :
        c \in Calls({A}, None \cup Beside(Args(Refs(Dot)), Args(Zero)), None \cup Hash(Zero))}
Values == Refs(Paths) \cup Literals \cup Subexpressions

(* Calls of every path, with every value as an argument or as a pair.  No  *)
(* name follows a path that ends in a dot: see DotArguments.               *)
AllCalls == Calls(Paths, None, None) \cup Calls({p \in Paths : Last(p.src) # "."}, Some, None)
            \cup Calls({A}, Args(Values), None) \cup Calls({A}, Beside(Some, Some), Hash(Values))
            \cup Calls({A}, Beside(Args(Subexpressions), Args(Zero)), Beside(Hash(Zero), Hash(Zero)))
FewCalls == Calls({A}, Some, None \cup Hash(Zero))

-----------------------------------------------------------------------------
(* Statements.                                                             *)
Tilded == {<<>>, <<"~">>}
Flag(tilde, flag) == IF tilde = <<>> THEN {} ELSE {flag}
Text(src, v) == {Spell(src, <<[Node("text") EXCEPT !.value = v]>>)}

Mustaches(C) ==
    {Spell(In(l, c.src, r), <<[Calling("mustache", c.means)
                EXCEPT !.tildes = Flag(l, "left") \cup Flag(r, "right")]>>) :
        c \in C, l \in Tilded, r \in Tilded}

Unescaped(C) ==
    LET node(c) == <<[Calling("mustache", c.means) EXCEPT !.escaped = FALSE]>>
    IN  {Spell(In(<<"{">>, c.src, <<"}">>), node(c)) : c \in C}
        \cup {Spell(In(<<"&">>, c.src, <<>>), node(c)) : c \in C}

Comments ==
    {Spell(In(<<"!">>, <<"a", " ", "{", "{">>, <<>>),
           <<[Node("comment") EXCEPT !.value = <<"a", " ", "{", "{">>]>>),
     Spell(In(<<"!", "-", "-">>, <<"a", "}", "}">>, <<"-", "-">>),
           <<[Node("comment") EXCEPT !.value = <<"a", "}", "}">>]>>)}

(* {{> name}}, {{> name context}}, {{> name key=value}}, {{> (helper)}}    *)
Partials(P, As, Hs) ==
    {Spell(In(<<">", " ">>, c.src, r), <<Calling("partial", c.means)>>) :
        c \in Calls(P, As, Hs), r \in Tilded}
    \cup {Spell(In(<<">", " ">>, s.src, <<>>), <<[Node("partial") EXCEPT !.value = <<s.means>>]>>) :
            s \in Subexpressions}
PartialBlock == Spell(<<"@", "a", "-", "b">>, Named(<< <<"@", "a", "-", "b">> >>))

RawBlocks ==
    {Spell(Braces(4) \o <<"a">> \o EndBraces(4) \o c \o Braces(4) \o <<"/", "a">> \o EndBraces(4),
           <<[Node("raw") EXCEPT !.path = A.means, !.value = c]>>) :
        c \in {<<>>, <<"b">>, In(<<"#">>, <<"if">>, <<"~">>)}}

Escaped == Text(<<"\\">> \o In(<<>>, <<"a">>, <<>>), In(<<>>, <<"a">>, <<>>))
Statements == Text(<<"b">>, <<"b">>) \cup Escaped \cup Mustaches(AllCalls) \cup Unescaped(FewCalls)
              \cup Comments \cup Partials({A, PartialBlock}, Some, None \cup Hash(Zero)) \cup RawBlocks

-----------------------------------------------------------------------------
(* Blocks.                                                                 *)
Params == None \cup {Spell(<<" ", "as", " ", "|", "a", " ", "b", "|">>, << <<"a">>, <<"b">> >>)}
Heads(C, Ps, T) ==
    {Spell(l \o c.src \o p.src \o r,
           [Calling("block", c.means) EXCEPT !.params = p.means,
                !.tildes = Flag(l, "openLeft") \cup Flag(r, "openRight")]) :
        c \in C, p \in Ps, l \in T, r \in T}
Ends(T) == {Spell(In(<<"/">>, l \o <<"a">>, r), Flag(l, "closeLeft") \cup Flag(r, "closeRight")) :
                l \in T, r \in T}

(* What follows {{else: nothing, or a block of its own.                    *)
Inverses(S) ==
    {Spell(e \o s.src, <<s.means>>) :
        e \in {In(<<"^">>, <<>>, <<>>), In(<<>>, <<"else">>, <<>>), In(<<>>, <<"else">>, <<"~">>)},
        s \in S}
Whole(open, head, body, inverse, end) ==
    Spell(open \o head.src \o EndBraces(2) \o body.src \o inverse.src \o end.src,
          <<[head.means EXCEPT !.body = body.means, !.inverse = inverse.means,
                               !.tildes = @ \cup end.means]>>)

Blocks(H, S, I, E) == {Whole(Braces(2) \o <<"#">>, h, s, i, e) : h \in H, s \in S, i \in I, e \in E}

(* {{else if}}: a block that the end tag of the first one ends.            *)
If == Spell(<<"if">>, Named(<< <<"if">> >>))
Chains(S, I, E) ==
    {Spell(Braces(2) \o <<"else", " ">> \o h.src \o EndBraces(2) \o s.src \o i.src \o e.src,
           << <<[h.means EXCEPT !.body = s.means, !.inverse = i.means, !.tildes = @ \cup e.means]>> >>) :
        h \in Heads(Calls({If}, Args(Refs({B})), None), None, {<<>>}), s \in S, i \in I, e \in E}
ChainedBlocks(H, S, I) == {Whole(Braces(2) \o <<"#">>, h, s, i, Spell(<<>>, {})) : h \in H, s \in S, i \in I}

(* {{^name}} at the root of the template: the branches change places.      *)
InverseBlocks(S) ==
    {Spell(In(<<"^">>, <<"a">>, <<>>) \o s.src \o In(<<"/">>, <<"a">>, <<>>),
           <<[Node("block") EXCEPT !.path = A.means, !.inverse = <<s.means>>]>>) : s \in S}

PartialBlocks(S) ==
    {Spell(In(<<"#", ">">>, c.src, <<>>) \o s.src \o In(<<"/">>, <<"a">>, <<>>),
           <<[Calling("pblock", c.means) EXCEPT !.body = s.means]>>) : c \in FewCalls, s \in S}

InlinePartials(S) ==
    {Spell(In(<<"#", "*">>, <<"inline", " ", "dq", "a", "dq">>, <<>>) \o s.src
               \o In(<<"/">>, <<"inline">>, <<>>),
           <<[Node("inline") EXCEPT !.value = <<"a">>, !.body = s.means]>>) : s \in S}

-----------------------------------------------------------------------------
(* Templates: each statement alone and between texts, each form of a block *)
(* around little, and blocks of each kind in one another.  No text begins  *)
(* with a brace: after a tag the tokenizer takes it as one of the tag's.   *)
Plain  == Mustaches(Calls({B}, None, None))
Bodies == None \cup Text(<<"nl">>, <<"nl">>) \cup Beside(Text(<<"b">>, <<"b">>), Unescaped(Calls({A}, None, None)))
PlainHead == Heads(Calls({A}, Args(Refs({B})), None), None, {<<>>})
PlainEnd  == Ends({<<>>})

Small == Blocks(Heads(FewCalls, Params, {<<>>}), None, None \cup Inverses(None), PlainEnd)
         \cup Blocks(Heads(Calls({A}, None, None), None, Tilded), Bodies, None \cup Inverses(Bodies), PlainEnd)
         \cup Blocks(PlainHead, None, Inverses(Bodies), Ends(Tilded))
         \cup ChainedBlocks(PlainHead, Bodies, Chains(Bodies, None, PlainEnd))
         \cup ChainedBlocks(PlainHead, None, Chains(Plain, None \cup Inverses(Bodies), Ends(Tilded)))
         \cup ChainedBlocks(PlainHead, None, {Spell(c.src, c.means) : c \in
                Chains(Plain, Chains(None, Inverses(Bodies), PlainEnd), {Spell(<<>>, {})})})
         \cup PartialBlocks(Bodies) \cup InlinePartials(Bodies)

Inner == Blocks(PlainHead, Text(<<"b">>, <<"b">>), Inverses(Text(<<"a">>, <<"a">>)), PlainEnd)
         \cup ChainedBlocks(PlainHead, None, Chains(Text(<<"b">>, <<"b">>), None, PlainEnd))
         \cup PartialBlocks(None) \cup InlinePartials(None) \cup RawBlocks
Nested == Blocks(PlainHead, Inner \cup Escaped, None \cup Inverses(Inner), PlainEnd)
          \cup ChainedBlocks(PlainHead, Inner, Chains(Inner, None, PlainEnd))
          \cup PartialBlocks(Inner) \cup InlinePartials(Inner)

Around(S) == Beside(Text(<<"a", " ">>, <<"a", " ">>), Beside(S, Text(<<"nl", "}", "}">>, <<"nl", "}", "}">>)))
Templates == Statements \cup Small \cup Nested \cup InverseBlocks(Bodies \cup Inner)
             \cup Around(Comments \cup RawBlocks \cup Plain \cup Inner)

Written == {t.src : t \in Templates}
Meaning == [s \in Written |-> (CHOOSE t \in Templates : t.src = s).means]

-----------------------------------------------------------------------------
(* Every text of the template is in the AST, once and in its place, however *)
(* badly the tags around it are nested.  (In a block that begins with {{^  *)
(* at the root, the two branches have changed places.)                     *)
RECURSIVE Texts(_)
Texts(stmts) ==
    FlattenSeq([i \in 1..Len(stmts) |->
        IF stmts[i].kind \in {"text", "raw"}
        THEN IF stmts[i].value = <<>> THEN <<>> ELSE <<stmts[i].value>>
        ELSE Texts(stmts[i].body) \o IF stmts[i].inverse = <<>> THEN <<>>
                                     ELSE Texts(stmts[i].inverse[1])])

Read == LET texts == SelectSeq(tokens, LAMBDA t : t.type = "TEXT")
        IN  [i \in 1..Len(texts) |-> texts[i].value]
Times(v, s)   == Cardinality({i \in 1..Len(s) : s[i] = v})
InverseAtRoot == \E k \in 1..Len(tokens) : tokens[k].type = "OPEN_INVERSE"

TextKept ==
    result = "ok" =>
        LET texts == Texts(ast[1])
        IN  IF InverseAtRoot
            THEN \A v \in ToSet(texts) \cup ToSet(Read) : Times(v, texts) = Times(v, Read)
            ELSE texts = Read

(* A template that is written as the README says compiles, to what it says *)
(* there: no tag, argument, branch or tilde is lost or ends up in another. *)
ParsesAsWritten == result = "ok" /\ source \in Written => ast = <<Meaning[source]>>

(* "." as an argument, alone, before a value, a name, or a pair.           *)
DotArguments == Mustaches(Calls({A}, Args(Refs(Dot)), None)
                          \cup Calls({A}, Beside(Args(Refs(Dot)), Args(Zero \cup Refs({B}))), None)
                          \cup Calls({A}, Args(Refs(Dot)), Hash(Zero)))

(* README.md shows {{> (lookup . "name")}}, and parser.c speaks of a       *)
(* standalone "." that is a reference to this: a dot that blanks set apart *)
(* is an argument of its own, whatever the next argument is.               *)
DotIsAnArgument ==
    result = "ok" => \A t \in DotArguments : t.src = source => ast = <<t.means>>

=============================================================================
