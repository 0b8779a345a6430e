----------------------------- MODULE Templates -----------------------------
(***************************************************************************)
(* Small templates, contexts and environments for the model-checked        *)
(* instances of Render, built the way the parser builds its nodes.         *)
(***************************************************************************)
EXTENDS Semantics

Path(depth, parts) == [depth |-> depth, explicit |-> FALSE, parts |-> parts]
Name(s) == Path(0, <<s>>)

Lit(v)      == [kind |-> "lit",  value |-> v]
Var(path)   == [kind |-> "path", path |-> path]
Lookup(o, k) == [kind |-> "lookup", obj |-> o, key |-> k]
Call(name)  == [kind |-> "call", name |-> name]

(* The fields every node has, at the values they have when not used.       *)
Plain(kind) ==
    [kind |-> kind, path |-> Path(0, <<>>), args |-> <<>>, hash |-> <<>>, body |-> <<>>,
     inverse |-> <<>>, params |-> <<>>, escaped |-> TRUE, indent |-> FALSE, text |-> <<>>,
     target |-> Lit(Null)]

Program(body)   == [Plain("program") EXCEPT !.body = body]
T(item)         == [Plain("text") EXCEPT !.text = << <<"text", item>> >>]
NewLine         == [Plain("text") EXCEPT !.text = << <<"nl">> >>]
Comment         == Plain("comment")
Show(path)      == [Plain("mustache") EXCEPT !.path = path]
Mustach(name, args) == [Show(Name(name)) EXCEPT !.args = args]
RawBlock(name)  == [Plain("raw") EXCEPT !.path = Name(name), !.text = << <<"raw">> >>]
BlockOf(name, args, body, inverse) ==
    [Plain("block") EXCEPT !.path = Name(name), !.args = args, !.body = body, !.inverse = inverse]
PartialOf(name, args, hash) ==
    [Plain("partial") EXCEPT !.target = Lit(Str(name)), !.args = args, !.hash = hash]
PartialBlockOf(name, body) == [Plain("pblock") EXCEPT !.path = Name(name), !.body = body]
InlineOf(name, body) == [Plain("decl") EXCEPT !.path = Name(name), !.body = body]
YieldHere == PartialOf("@partial-block", <<>>, <<>>)

-----------------------------------------------------------------------------
(* { v: "r", z: 0, list: [ {v: "a"}, {w: "b"} ], o: {v: "y", z: 0}, e: [] } *)
Ctx == Obj(<< <<"v", Str("r")>>, <<"z", Num(0)>>,
              <<"list", Arr(<< Obj(<< <<"v", Str("a")>> >>), Obj(<< <<"w", Str("b")>> >>) >>)>>,
              <<"o", Obj(<< <<"v", Str("y")>>, <<"z", Num(0)>> >>)>>,
              <<"e", Arr(<<>>)>> >>)

V     == Show(Name("v"))
List  == Var(Name("list"))
Inner == Var(Name("o"))

Branch(side, ctx, keep) == [side |-> side, ctx |-> ctx, keep |-> keep]
Helper(script, text, result) == [script |-> script, text |-> text, result |-> result]

(* h: a helper that returns text; hb: renders its block twice, in its own  *)
(* context and in its argument, and its else branch in between, unused.    *)
Helpers ==
    [h  |-> Helper(<<>>, << <<"text", "h">> >>, Str("v")),
     hb |-> Helper(<<Branch("fn", "this", TRUE), Branch("inverse", "this", FALSE),
                     Branch("fn", "param", TRUE)>>, << <<"text", "end">> >>, Null)]

Hooks ==
    [name \in {"h", "hb", "helperMissing", "blockHelperMissing"} |->
        CASE name = "h"  -> Helpers.h
          [] name = "hb" -> Helpers.hb
          [] name = "helperMissing" -> Helper(<<>>, << <<"text", "missing">> >>, Null)
          [] name = "blockHelperMissing" -> Helper(<<Branch("inverse", "this", TRUE)>>, <<>>, Null)]

(* What a render call is given.                                            *)
JobOf(main, partials, helpers, strict, compat, noEscape) ==
    [main |-> Program(main), partials |-> [p \in DOMAIN partials |-> Program(partials[p])],
     helpers |-> helpers, ctx |-> Ctx, strict |-> strict, compat |-> compat, noEscape |-> noEscape]

Programs(jobs) == {j.main : j \in jobs}
                  \cup UNION {{j.partials[p] : p \in DOMAIN j.partials} : j \in jobs}

(* Every node below the given ones.                                        *)
RECURSIVE Below(_)
Below(nodes) ==
    IF nodes = {} THEN {}
    ELSE nodes \cup Below(UNION {ToSet(n.body) \cup ToSet(n.inverse) : n \in nodes})

=============================================================================
