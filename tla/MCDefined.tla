----------------------------- MODULE MCDefined -----------------------------
(***************************************************************************)
(* Which templates are safe from undefined behaviour in the renderer: the  *)
(* ones with more block parameters than a helper fills, and the ones whose *)
(* partials declare inline partials, are rendered next to ones that do not. *)
(* And, for them and one template of each form, that a render ends.  No    *)
(* layout is in a layout here: such a render recurses without end.         *)
(***************************************************************************)
EXTENDS MCRender

Names3 == <<"p", "q", "s">>
Reads == {<<Show(Name(x)), T("t")>> : x \in {"p", "q", "s", "v"}}
         \cup {<<BlockOf("if", <<Var(Name("q"))>>, <<T("t")>>, <<>>)>>,
               <<BlockOf("each", <<Var(Name("s"))>>, <<T("t")>>, <<>>)>>,
               <<BlockOf("hb", <<Var(Name("p"))>>, <<Show(Name("q"))>>, <<>>)>>,
               <<PartialOf("P", <<Var(Name("q"))>>, <<>>)>>,
               <<Mustach("lookup", <<Var(Name("p")), Var(Name("q"))>>)>>,
               <<Mustach("h", <<Var(Name("q"))>>)>>}

(* A block that binds the first k of the names around a read.              *)
Bind(name, coll, k, read) ==
    [BlockOf(name, <<coll>>, read, <<>>) EXCEPT !.params = SubSeq(Names3, 1, k)]
BindUses == {<<<<Bind(b[1], b[2], k, r)>>, <<V>> >> :
                b \in {<<"with", Inner>>, <<"each", List>>, <<"each", Inner>>}, k \in 0..3, r \in Reads}

(* A partial that declares an inline partial, at its top, in a block       *)
(* without a frame and in one with; used with and without arguments.       *)
Decl    == InlineOf("D", <<V>>)
Bodies3 == {<<Decl>>, <<BlockOf("if", <<Lit(Bool(TRUE))>>, <<Decl, PartialOf("D", <<>>, <<>>)>>, <<>>)>>,
            <<BlockOf("with", <<Inner>>, <<Decl>>, <<>>)>>}
InlineUses == {<<<<use, then>>, b>> :
               use \in {PartialOf("P", <<>>, <<>>), PartialOf("P", <<Inner>>, <<>>), PartialBlockOf("P", <<T("t")>>)},
               then \in {PartialOf("D", <<>>, <<>>), PartialOf("D", <<Inner>>, <<>>), PartialBlockOf("D", <<T("t")>>), V},
               b \in Bodies3}

DefinedJobs  == {JobOf(t[1], [P |-> t[2]], Helpers, FALSE, FALSE, FALSE) : t \in BindUses \cup InlineUses}
                \cup LiveJobs
DefinedNodes == Below(Programs(DefinedJobs))
MCDefinedJob  == DefinedJobs
MCDefinedNode == DefinedNodes

(* The inline partials some code leaves in the frame it runs in.           *)
RECURSIVE Spills(_)
Spills(code) == \E n \in ToSet(code) : \/ n.kind = "decl"
                                       \/ /\ n.kind = "block"
                                          /\ n.path.parts \notin {<<"each">>, <<"with">>}
                                          /\ Spills(n.body) \/ Spills(n.inverse)

Fits(n) == n.kind # "block" \/ Len(n.params) <= (IF n.path.parts = <<"each">> THEN 2 ELSE 1)

(* Rendering is well defined for every template that declares no more      *)
(* block parameters than the helper has values for (one for with, two for  *)
(* each) and whose partials, where called without arguments, leave no      *)
(* inline partial behind.                                                  *)
DefinedWhenSafe ==
    LET frameless(n) == n.kind = "partial" /\ n.target = Lit(Str("P")) /\ n.args = <<>> /\ n.hash = <<>>
        safe == /\ \A n \in Below({job.main}) : Fits(n)
                /\ Spills(job.partials.P.body) => ~\E n \in Below({job.main}) : frameless(n)
    IN  status = "undefined" => ~safe

(* Partials call one another by their names, registered or declared        *)
(* inline; a name that is computed may be any.                             *)
BodiesOf(j, name) ==
    {j.partials[p] : p \in DOMAIN j.partials \cap {name}}
    \cup {n \in Below(Programs({j})) : n.kind = "decl" /\ n.path.parts = <<name>>}
Targets(n, names) ==
    CASE n.kind = "pblock"  -> {name \in names : n.path.parts = <<name>>}
      [] n.kind = "partial" -> {name \in names : n.target.kind = "lit" => n.target.value = Str(name)}
      [] OTHER -> {}
Unrecursive ==
    LET decls == {n \in Below(Programs({job})) : n.kind = "decl"}
        names == DOMAIN job.partials \cup {n.path.parts[1] : n \in decls}
        called == [a \in names |-> UNION {Targets(n, names) : n \in Below(BodiesOf(job, a))}]
    IN  ~\E cycle \in SUBSET names : cycle # {} /\ \A a \in cycle : called[a] \cap cycle # {}

(* The call returns, with an answer or where its behaviour is no longer    *)
(* defined (DefinedWhenSafe says when), unless its partials call one       *)
(* another in a circle or a block yields to itself on the way, as in a     *)
(* layout inside a layout: such a call recurses until the stack is full.   *)
AnswersOnce == Unrecursive /\ []YieldsToCaller => Promise!Answered

=============================================================================
