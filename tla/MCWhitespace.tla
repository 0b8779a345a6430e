---------------------------- MODULE MCWhitespace ----------------------------
(***************************************************************************)
(* Templates for Whitespace: shapes, and short texts to choose from before *)
(* and after each of their tags.  An empty choice leaves the text out, so  *)
(* tags may touch and blocks be empty.                                     *)
(***************************************************************************)
EXTENDS Whitespace

Plain(kind) == [kind |-> kind, chars |-> <<>>, left |-> FALSE, right |-> FALSE,
                glued |-> FALSE]
Text(t) == IF t = <<>> THEN <<>> ELSE <<[Plain("text") EXCEPT !.chars = t]>>
Glued(kind) == [Plain(kind) EXCEPT !.glued = TRUE]
Tilde(kind, l, r) == [Plain(kind) EXCEPT !.left = l, !.right = r]
Plains(kinds) == [i \in 1..Len(kinds) |-> Plain(kinds[i])]

(* Short texts; "x" stands for any text without whitespace.                *)
Few == {<<>>, <<"n">>, <<"s">>, <<"x">>, <<"n", "s">>, <<"x", "n">>}
Many == Few \cup {<<"s", "n">>, <<"n", "x">>, <<"n", "n">>, <<"s", "x", "s">>,
                  <<"x", "n", "s">>, <<"s", "n", "s">>, <<"r", "n">>}

(* Where a text may stand: not inside of what is written as one tag.       *)
Gaps(tags) == {i \in 1..(Len(tags) + 1) : i <= Len(tags) => ~tags[i].glued}

Filled(tags, ts) ==
    FlattenSeq([i \in 1..(Len(tags) + 1) |->
                   (IF i \in Gaps(tags) THEN Text(ts[i]) ELSE <<>>)
                   \o (IF i <= Len(tags) THEN <<tags[i]>> ELSE <<>>)])

With(shapes, texts) ==
    {{Filled(tags, ts) : ts \in [Gaps(tags) -> texts]} : tags \in shapes}

(* {{#if a}} ... {{else if b}} ... {{/if}}                                 *)
Chain == <<Plain("open"), Plain("else"), Glued("open"), Plain("close"), Glued("close")>>

MCShapes ==
    With({Plains(<<"comment", "comment">>), Plains(<<"partial", "partial">>),
          Plains(<<"open", "close">>), Plains(<<"inline", "endinline">>),
          <<Tilde("open", TRUE, TRUE), Tilde("close", TRUE, TRUE)>>,
          <<Plain("partial"), Tilde("mustache", TRUE, TRUE)>>,
          <<Plain("open"), Glued("else"), Plain("close")>>}, Many)
    \cup
    With({Plains(<<"open", "else", "close">>),
          Plains(<<"open", "mustache", "close">>),
          Plains(<<"open", "partial", "close">>),
          Plains(<<"open", "open", "close", "close">>),
          Plains(<<"open", "inline", "endinline", "close">>),
          Plains(<<"inline", "comment", "endinline">>),
          <<Plain("inline"), Tilde("mustache", TRUE, TRUE), Plain("endinline")>>,
          Plains(<<"open", "close", "open", "close">>), Chain}, Few)

CommentShapes == With({Plains(<<"comment", "comment">>)},
                      {<<"n">>, <<"x", "n">>, <<"n", "x">>})

=============================================================================
