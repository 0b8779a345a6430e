----------------------------- MODULE Semantics -----------------------------
(***************************************************************************)
(* The meaning of a template: a denotational reference for Render, by      *)
(* recursion over the AST.  There is no control stack, no buffer and no    *)
(* render state here; a node means the text it produces in a chain of      *)
(* contexts.  Where the documentation and the code part, this follows the  *)
(* documentation (src/README.md): a variable a strict environment misses   *)
(* fails the call wherever it occurs, a yielded block sees the blocks of   *)
(* its own surroundings, and inline partials are gone with their scope.    *)
(*                                                                         *)
(* Only TLC uses this module: RECURSIVE operators are out of the provers'  *)
(* reach.                                                                  *)
(***************************************************************************)
EXTENDS Context

(* chain: the contexts when the text ends, which differ from those before  *)
(* it by the inline partials declared in the last of them.                 *)
Text(out, chain)  == [out |-> out, failed |-> FALSE, chain |-> chain]
Miss(chain)       == [out |-> <<>>, failed |-> TRUE, chain |-> chain]
Then(a, b)        == [out |-> a.out \o b.out, failed |-> a.failed \/ b.failed, chain |-> b.chain]

RECURSIVE Walk(_, _, _), Loop(_, _, _, _, _), Script(_, _, _, _, _)

Arg(n, i, chain, j) == IF i <= Len(n.args) THEN Evaluate(chain, n.args[i], j) ELSE Null

Literally(v, n, j) == IF v \in {Null, Str("")} THEN <<>>
                      ELSE << <<"value", v, n.escaped /\ ~j.noEscape>> >>

(* The code in a scope of its own, and in the surrounding one.             *)
Within(frame, code, chain, j) == [Walk(code, Append(chain, frame), j) EXCEPT !.chain = chain]

(* Which helper a statement calls, by priority.                            *)
Callee(n, j) ==
    LET parts == n.path.parts
        hook  == IF n.kind = "block" THEN "blockHelperMissing" ELSE "helperMissing"
        named == parts # <<>> /\ (n.kind = "block" \/ (Len(parts) = 1 /\ ~n.path.explicit))
        bare  == n.kind = "mustache" /\ n.args = <<>> /\ n.hash = <<>>
        own   == IF n.kind = "block" THEN {"if", "unless", "each", "with"} ELSE {"lookup", "log"}
    IN  IF ~named THEN "" ELSE
        IF Head(parts) \in own \cup DOMAIN j.helpers THEN Head(parts) ELSE
        IF hook \in DOMAIN j.helpers /\ ~bare THEN hook ELSE ""

Mustache(n, chain, j) ==
    LET value == Resolve(chain, n.path, j.compat) IN
    CASE Callee(n, j) = "lookup" ->
           Text(Literally(LookupIn(Arg(n, 1, chain, j), Arg(n, 2, chain, j)), n, j), chain)
      [] Callee(n, j) = "log" -> Text(<<>>, chain)
      [] Callee(n, j) = "" -> IF value = Null /\ j.strict THEN Miss(chain)
                              ELSE Text(Literally(value, n, j), chain)
      [] OTHER -> Text(j.helpers[Callee(n, j)].text, chain)

(* if and unless: what counts as false is false, 0, "", null and []; 0 may *)
(* be made to count as true.                                               *)
Holds(n, chain, j) ==
    LET v == Arg(n, 1, chain, j)
        zeroCounts == \E h \in ToSet(EvaluateHash(chain, n.hash, j)) : h = <<"includeZero", Bool(TRUE)>>
    IN  IF v = Num(0) THEN zeroCounts ELSE v \notin {Null, Bool(FALSE), Str(""), Arr(<<>>)}

(* The elements of a collection with the key each is found under.          *)
Elements(v) ==
    CASE IsArr(v) -> [i \in 1..Len(v[2]) |-> <<Num(i - 1), v[2][i]>>]
      [] IsObj(v) -> [i \in 1..Len(v[2]) |-> <<Str(v[2][i][1]), v[2][i][2]>>]
      [] OTHER    -> <<>>

(* The scope of a block that binds params to values.                       *)
Scope(data, params, values) ==
    [NewFrame(data) EXCEPT
       !.params = [i \in 1..(IF Len(params) < Len(values) THEN Len(params) ELSE Len(values))
                     |-> <<params[i], values[i]>>],
       !.slots  = Len(params)]

Loop(n, elements, i, chain, j) ==
    IF i > Len(elements) THEN Text(<<>>, chain)
    ELSE LET key  == elements[i][1]
             data == << <<"@index", Num(i - 1)>>, <<"@first", Bool(i = 1)>>,
                        <<"@last", Bool(i = Len(elements))>> >>
             item == [Scope(elements[i][2], n.params, <<elements[i][2], key>>)
                        EXCEPT !.private = Obj(IF key[1] = "str" THEN << <<"@key", key>> >> \o data
                                                                 ELSE data)]
         IN  Then(Within(item, n.body, chain, j), Loop(n, elements, i + 1, chain, j))

(* A user helper: the text of the branches it asks for and keeps.          *)
Script(n, calls, param, chain, j) ==
    IF calls = <<>> THEN Text(<<>>, chain)
    ELSE LET c      == Head(calls)
             ctx    == IF c.ctx = "param" THEN param ELSE chain[Len(chain)].data
             branch == Within(NewFrame(ctx), IF c.side = "fn" THEN n.body ELSE n.inverse, chain, j)
         IN  Then([branch EXCEPT !.out = IF c.keep THEN @ ELSE <<>>],
                  Script(n, Tail(calls), param, chain, j))

Block(n, chain, j) ==
    LET v == Arg(n, 1, chain, j) IN
    CASE n.path.parts = <<>>        -> Text(<<>>, chain)
      [] Callee(n, j) = "if"     -> Walk(IF Holds(n, chain, j) THEN n.body ELSE n.inverse, chain, j)
      [] Callee(n, j) = "unless" -> Walk(IF Holds(n, chain, j) THEN n.inverse ELSE n.body, chain, j)
      [] Callee(n, j) = "each"   -> IF Falsy(v) \/ v = Obj(<<>>) THEN Walk(n.inverse, chain, j)
                                    ELSE Loop(n, Elements(v), 1, chain, j)
      [] Callee(n, j) = "with"   -> IF Falsy(v) THEN Walk(n.inverse, chain, j)
                                    ELSE Within(Scope(v, n.params, <<v>>), n.body, chain, j)
      [] Callee(n, j) = "" /\ n.path.parts # <<>> -> Walk(n.body, chain, j)
      [] OTHER -> Then(Script(n, j.helpers[Callee(n, j)].script, v, chain, j),
                       Text(j.helpers[Callee(n, j)].text, chain))

-----------------------------------------------------------------------------
(* Partials.                                                               *)

(* Every line of a standalone partial's output is indented.                *)
Indent(n, r) ==
    LET lineStart(i) == i = 1 \/ r.out[i - 1] = <<"nl">>
    IN  IF ~n.indent THEN r
        ELSE [r EXCEPT !.out =
                IF @ = <<>> THEN << <<"indent">> >>
                ELSE FlattenSeq([i \in 1..Len(@) |->
                        IF lineStart(i) THEN << <<"indent">>, @[i]>> ELSE <<@[i]>>])]

(* What a name stands for: an inline partial in scope, else a registered   *)
(* partial; a set of at most one.                                          *)
Bodies(name, chain, j) ==
    LET inline == {ip.code : ip \in InScope(chain, name)}
    IN  IF inline # {} THEN inline
        ELSE IF name \in DOMAIN j.partials THEN {j.partials[name].body} ELSE {}

(* The block belongs to the code around {{#> }}: while it is rendered the  *)
(* partial that yields to it offers nothing.                               *)
Yield(chain, j) ==
    IF Yielding(chain) = {} THEN Text(<<>>, chain)
    ELSE LET i     == CHOOSE k \in Yielding(chain) : TRUE
             block == chain[i].block[1]
             ctx   == IF block.ctx = Null THEN chain[Len(chain)].data ELSE block.ctx
         IN  [Within(NewFrame(ctx), block.code, [chain EXCEPT ![i].block = <<>>], j)
                EXCEPT !.chain = chain]

Partial(n, chain, j) ==
    LET name   == Evaluate(chain, n.target, j)
        bodies == Bodies(AsString(name), chain, j)
        ctx    == IF Arg(n, 1, chain, j) = Null THEN chain[Len(chain)].data ELSE Arg(n, 1, chain, j)
        data   == IF n.hash = <<>> THEN ctx ELSE Extended(ctx, EvaluateHash(chain, n.hash, j))
        framed == n.args # <<>> \/ n.hash # <<>>
        call   == CHOOSE code \in bodies : TRUE
    IN  CASE name = Null -> Text(<<>>, chain)
          [] name = Str("@partial-block") -> Yield(chain, j)
          [] name \notin {Null, Str("@partial-block")} /\ bodies = {} -> Text(<<>>, chain)
          [] name \notin {Null, Str("@partial-block")} /\ bodies # {} ->
               Indent(n,
                 IF InScope(chain, AsString(name)) # {}
                 THEN [Within(NewFrame(data), call, Append(chain, NewFrame(data)), j)
                         EXCEPT !.chain = chain]
                 ELSE IF framed THEN Within(NewFrame(data), call, chain, j)
                 ELSE [Walk(call, chain, j) EXCEPT !.chain = chain])

PartialBlock(n, chain, j) ==
    LET bodies == Bodies(Head(n.path.parts), chain, j)
        here   == chain[Len(chain)].data
    IN  CASE n.path.parts = <<>> -> Text(<<>>, chain)
          [] n.path.parts # <<>> /\ bodies = {} -> Walk(n.body, chain, j)
          [] n.path.parts # <<>> /\ bodies # {} ->
               Within([NewFrame(here) EXCEPT !.block = <<[code |-> n.body, ctx |-> here, tmpl |-> 0]>>],
                      CHOOSE code \in bodies : TRUE, chain, j)

Raw(n, chain, j) ==
    LET name   == Head(n.path.parts)
        copies == [i \in 1..Len(j.helpers[name].script) |->
                     IF j.helpers[name].script[i].side = "fn" /\ j.helpers[name].script[i].keep
                     THEN n.text ELSE <<>>]
    IN  IF name \in DOMAIN j.helpers THEN Text(FlattenSeq(copies) \o j.helpers[name].text, chain)
        ELSE Text(n.text, chain)

Declare(n, chain) ==
    Text(<<>>, [chain EXCEPT ![Len(chain)].inlines =
                  <<[name |-> Head(n.path.parts), code |-> n.body, tmpl |-> 0]>> \o @])

One(n, chain, j) ==
    CASE n.kind = "text"     -> Text(n.text, chain)
      [] n.kind = "comment"  -> Text(<<>>, chain)
      [] n.kind = "mustache" -> Mustache(n, chain, j)
      [] n.kind = "block"    -> Block(n, chain, j)
      [] n.kind = "partial"  -> Partial(n, chain, j)
      [] n.kind = "pblock"   -> PartialBlock(n, chain, j)
      [] n.kind = "raw"      -> Raw(n, chain, j)
      [] n.kind = "decl"     -> Declare(n, chain)

Walk(code, chain, j) ==
    IF code = <<>> THEN Text(<<>>, chain)
    ELSE LET one == One(Head(code), chain, j)
         IN  Then(one, Walk(Tail(code), one.chain, j))

(* The result of rendering a job.                                          *)
Meaning(j) ==
    LET r == Walk(j.main.body, <<NewFrame(j.ctx)>>, j)
    IN  IF r.failed THEN [status |-> "error", out |-> <<>>]
                    ELSE [status |-> "ok",    out |-> r.out]

=============================================================================
