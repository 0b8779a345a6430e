----------------------------- MODULE MCFindings -----------------------------
(***************************************************************************)
(* Templates on which the code does not do what its documentation or its   *)
(* comments say, one family per run.                                       *)
(***************************************************************************)
EXTENDS Render, Templates

Plainly(main, partials) == JobOf(main, partials, Helpers, FALSE, FALSE, FALSE)
Strictly(main) == JobOf(main, [P |-> <<Show(Name("w"))>>], Helpers, TRUE, FALSE, FALSE)
W == Show(Name("w"))

(* A strict environment, and a variable missing in various places.         *)
StrictJobs == {Strictly(<<W>>), Strictly(<<PartialOf("P", <<>>, <<>>)>>),
               Strictly(<<BlockOf("if", <<Var(Name("v"))>>, <<W>>, <<>>)>>),
               Strictly(<<BlockOf("hb", <<Inner>>, <<V, W>>, <<>>), V>>)}

(* A partial that declares an inline partial.                              *)
InlineJobs == {Plainly(<<PartialOf("P", <<Inner>>, <<>>), V>>, [P |-> <<InlineOf("D", <<V>>)>>]),
               Plainly(<<PartialOf("P", <<>>, <<>>), V>>, [P |-> <<InlineOf("D", <<V>>)>>])}

(* A layout in a layout: the inner one's block yields to the outer's.      *)
NestedLayout == <<PartialBlockOf("base", <<T("["), YieldHere, T("]")>>)>>
YieldJobs == {Plainly(<<PartialBlockOf("layout", <<T("page")>>)>>,
                      [layout |-> NestedLayout, base |-> <<T("("), YieldHere, T(")")>>])}

StrictNodes == Below(Programs(StrictJobs))
InlineNodes == Below(Programs(InlineJobs))
YieldNodes  == Below(Programs(YieldJobs))

(* A variable that a strict environment misses makes hbs_render fail: once *)
(* a render state of the call has failed, the call does not return HBS_OK. *)
StrictReported == [](TRUE \in ToSet(errs) => [](status # "ok"))

=============================================================================
