------------------------------ MODULE MCRender ------------------------------
(***************************************************************************)
(* Render on every nesting of two constructs around a leaf, directly and   *)
(* through a partial, and against the reference semantics.                 *)
(***************************************************************************)
EXTENDS Render, Templates

(* What the innermost block contains: every kind of reading of the context. *)
Leaf ==
    << V, Show(Path(1, <<"v">>)), Show(Path(0, <<"@root", "v">>)), Show(Name("@index")),
       Show(Path(1, <<"@index">>)), Show(Path(0, <<"p", "v">>)),
       [Mustach("lookup", <<List, Lit(Num(1))>>) EXCEPT !.escaped = FALSE] >>

(* Each construct around a body.                                           *)
Around(body) ==
    { <<BlockOf("if", <<Var(Name("v"))>>, body, <<T("else")>>)>>,
      <<BlockOf("each", <<List>>, body, <<>>)>>,
      <<[BlockOf("each", <<Inner>>, body, <<>>) EXCEPT !.params = <<"p", "k">>]>>,
      <<[BlockOf("with", <<Inner>>, body, <<T("else")>>) EXCEPT !.params = <<"p">>]>>,
      <<BlockOf("hb", <<Inner>>, body, <<V>>)>>,
      <<BlockOf("unknown", <<>>, body, <<T("else")>>)>>,
      <<PartialBlockOf("nowhere", body)>>,
      <<InlineOf("D", body), PartialOf("D", <<>>, <<>>),
        [PartialOf("D", <<Inner>>, << <<"v", Lit(Num(0))>> >>) EXCEPT !.indent = TRUE]>> }

Layout == <<T("("), YieldHere, NewLine, V, T(")")>>

(* A layout yields to its block: around bodies that do not yield.          *)
AroundLayout(body) == Around(body) \cup 
    {<<PartialBlockOf("layout", body)>>, <<InlineOf("E", Layout), PartialBlockOf("E", body)>>}

(* How a main template may use the partial "P".                            *)
Uses ==
    { <<[PartialOf("P", <<>>, <<>>) EXCEPT !.indent = TRUE]>>,
      <<PartialOf("P", <<Inner>>, << <<"v", Lit(Str("hash"))>> >>)>>,
      <<PartialOf("P", <<Var(Name("v"))>>, <<>>)>>,
      <<PartialBlockOf("P", <<V, T("block")>>)>> }

OneLevel == AroundLayout(Leaf)

(* <<main, partial P>>: two constructs around the leaf; a construct around *)
(* a use of a partial that has a construct around the leaf; and the same   *)
(* for a partial that yields.                                              *)
TwoLevels == UNION {AroundLayout(b) : b \in OneLevel}
Direct  == {<<b \o <<V>>, <<>> >> : b \in TwoLevels \cup UNION {AroundLayout(b) : b \in TwoLevels}}
Through == {<<u, b \o <<NewLine, V>> >> : b \in OneLevel, u \in Uses \cup UNION {AroundLayout(u) : u \in Uses}}
Yields  == {<<u, b>> : b \in Around(<<YieldHere>>), u \in Uses \cup UNION {Around(u) : u \in Uses}}

(* One of each remaining form.                                             *)
Zero == Var(Name("z"))
Forms ==
    { <<BlockOf("unless", <<Zero>>, <<V>>, <<T("else")>>)>>,
      <<[BlockOf("if", <<Zero>>, <<V>>, <<T("else")>>) EXCEPT !.hash = << <<"includeZero", Lit(Bool(TRUE))>> >>]>>,
      <<[BlockOf("if", <<Var(Name("e"))>>, <<V>>, <<T("else")>>) EXCEPT !.hash = << <<"includeZero", Lit(Bool(TRUE))>> >>]>>,
      <<BlockOf("if", <<>>, <<V>>, <<>>)>>,
      <<BlockOf("each", <<Var(Name("e"))>>, <<V>>, <<T("else")>>)>>,
      <<BlockOf("each", <<Lit(Obj(<<>>))>>, <<V>>, <<T("else")>>)>>,
      <<BlockOf("each", <<Var(Name("v"))>>, <<V>>, <<T("else")>>)>>,
      <<BlockOf("with", <<Var(Name("e"))>>, <<V>>, <<T("else")>>)>>,
      <<BlockOf("with", <<Lookup(List, Lit(Str("1")))>>, <<Show(Name("w"))>>, <<>>)>>,
      <<[Plain("block") EXCEPT !.body = <<V>>], [Plain("pblock") EXCEPT !.body = <<V>>]>>,
      <<Comment, RawBlock("raw"), Mustach("log", <<Inner>>), Mustach("h", <<>>), Mustach("nohelper", <<Inner>>)>>,
      <<RawBlock("hb"), Mustach("lookup", <<Inner>>), Mustach("lookup", <<Lit(Null), Lit(Str("v"))>>)>>,
      <<[Show(Name("h")) EXCEPT !.path.explicit = TRUE]>>,
      <<[Plain("partial") EXCEPT !.target = Lookup(Inner, Lit(Str("none")))]>>,
      <<[Plain("partial") EXCEPT !.target = Call("h")], [Plain("partial") EXCEPT !.target = Call("no")]>>,
      <<YieldHere, PartialOf("none", <<Inner>>, <<>>), PartialOf("P", <<Inner>>, <<>>)>>,
      <<InlineOf("D", <<T("old")>>), InlineOf("D", <<T("new")>>), PartialOf("D", <<>>, <<>>)>> }
Single == {<<f, <<V>> >> : f \in UNION {{f} \cup Around(f) : f \in Forms}}

(* Strict mode, where every render state is the call's own.                *)
StrictAround(body) ==
    {b \in AroundLayout(body) : b[1].kind # "decl" /\ b[1].path.parts \notin {<<"hb">>}}
StrictBodies == {<<Show(Name("w")), V>>, <<V, Show(Path(1, <<"w">>))>>}
Strict == {<<b \o <<V>>, <<>> >> : b \in UNION {StrictAround(b) : b \in UNION {StrictAround(b) : b \in StrictBodies}}}
          \cup {<<u, b>> : u \in Uses, b \in UNION {StrictAround(b) : b \in StrictBodies}}

Partials(p) == [layout |-> Layout, P |-> p, v |-> <<T("v")>>]
Plainly(ts) == {JobOf(t[1], Partials(t[2]), Helpers, FALSE, FALSE, FALSE) : t \in ts}
Hooked(ts)  == {JobOf(t[1], Partials(t[2]), Hooks, FALSE, TRUE, TRUE) : t \in ts}
Strictly(ts) == {JobOf(t[1], Partials(t[2]), Helpers, TRUE, FALSE, FALSE) : t \in ts}

Jobs  == Plainly(Direct \cup Through \cup Yields \cup Single) \cup Hooked(Through \cup Single) \cup Strictly(Strict)
Nodes == Below(Programs(Jobs))

LiveJobs  == Plainly(Single) \cup Hooked(Yields) \cup Strictly(Strict)

(* TLC evaluates these once, but each time anew what a cfg assigns.        *)
MCJob      == Jobs
MCNode     == Nodes

Promise == INSTANCE RenderCall WITH
              job    <- job,
              result <- IF status = "running" THEN [status |-> "running", out |-> <<>>]
                        ELSE [status |-> status, out |-> IF status = "ok" THEN outs[1] ELSE <<>>]

(* hbs_render does what it promises: the answer is the template's meaning, *)
(* nothing is lost or out of order in the buffers it is assembled in, and  *)
(* an error is reported exactly when a strict environment misses a         *)
(* variable.                                                               *)
RendersMeaning == Promise!SafeSpec

=============================================================================
