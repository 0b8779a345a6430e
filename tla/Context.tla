------------------------------ MODULE Context ------------------------------
(***************************************************************************)
(* The context frames of the renderer (hbs_context_frame_t) and what a     *)
(* template expression evaluates to in a chain of frames: resolve_path,    *)
(* evaluate_node and the search for inline partials.                       *)
(*                                                                         *)
(* A chain is a sequence of frames, the root frame first and the current   *)
(* one (state->frame) last; a frame's parent is its predecessor.           *)
(***************************************************************************)
EXTENDS Values

(* calloc'ed by frame_push, or zero-initialised on the C stack.            *)
(*   private  private_data, an object, Null when the frame has none        *)
(*   params   the block parameters that were filled in, <<name, value>>    *)
(*   slots    block_param_count: how many the template declares            *)
(*   block    @partial-block: empty or one [code, ctx, tmpl]               *)
(*   inlines  the inline partials registered here, [name, code, tmpl],     *)
(*            newest first                                                 *)
(*   refs     the json references the frame owns and frame_cleanup drops   *)
NewFrame(data) ==
    [data |-> data, private |-> Null, params |-> <<>>, slots |-> 0,
     block |-> <<>>, inlines |-> <<>>, refs |-> 0]

-----------------------------------------------------------------------------
(* The frame `depth` levels up; ../ stops at the root frame.               *)
Up(chain, depth) == IF depth < Len(chain) THEN Len(chain) - depth ELSE 1

Innermost(S) == CHOOSE i \in S : \A j \in S : j <= i

(* Block parameters are searched first, in every frame, whatever the       *)
(* path's depth.  A slot declared by the template that the helper did not  *)
(* fill holds an uninitialised name: the search of that frame reads it     *)
(* unless an earlier slot has the name.                                    *)
Names(frame)       == {frame.params[i][1] : i \in 1..Len(frame.params)}
Binders(chain, name) ==
    {i \in 1..Len(chain) : \/ name \in Names(chain[i])
                           \/ chain[i].slots > Len(chain[i].params)}

FirstNamed(params, name) ==
    CHOOSE i \in 1..Len(params) : params[i][1] = name /\ \A j \in 1..(i - 1) : params[j][1] # name

BlockParam(chain, parts) ==
    LET frame == chain[Innermost(Binders(chain, Head(parts)))]
    IN  IF Head(parts) \in Names(frame)
        THEN Descend(frame.params[FirstNamed(frame.params, Head(parts))][2], Tail(parts))
        ELSE Unset

(* The names that begin with '@'.                                          *)
DataNames == {"@root", "@partial-block", "@index", "@key", "@first", "@last"}

(* @root is the first frame's data; other data variables come from the     *)
(* innermost private_data that has them, from `depth` levels up outwards;  *)
(* what follows the first part is ignored for those.                       *)
DataVar(chain, path) ==
    LET name    == Head(path.parts)
        holders == {i \in 1..Up(chain, path.depth) : Has(chain[i].private, name)}
    IN  CASE name = "@root"          -> Descend(chain[1].data, Tail(path.parts))
          [] name = "@partial-block" -> Null
          [] OTHER -> IF holders = {} THEN Null
                      ELSE Member(chain[Innermost(holders)].private, name)

(* A path from the context; in compat mode, for a path without ../, from   *)
(* the nearest enclosing frame where the whole path leads somewhere.       *)
ContextPath(chain, path, compat) ==
    LET here    == Descend(chain[Up(chain, path.depth)].data, path.parts)
        holders == {i \in 1..(Len(chain) - 1) : Descend(chain[i].data, path.parts) # Null}
    IN  IF here = Null /\ compat /\ path.depth = 0 /\ path.parts # <<>> /\ holders # {}
        THEN Descend(chain[Innermost(holders)].data, path.parts)
        ELSE here

(* resolve_path.  A path without parts is `this` (or ..).                  *)
Resolve(chain, path, compat) ==
    CASE path.parts # <<>> /\ Binders(chain, Head(path.parts)) # {} ->
           BlockParam(chain, path.parts)
      [] path.parts # <<>> /\ Binders(chain, Head(path.parts)) = {}
                           /\ Head(path.parts) \in DataNames ->
           DataVar(chain, path)
      [] OTHER -> ContextPath(chain, path, compat)

-----------------------------------------------------------------------------
(* evaluate_node.  `env` has the render options and the helpers; a helper  *)
(* in a subexpression gets no callbacks, so all that shows of it is the    *)
(* value it returns.  Arguments of a lookup are paths and literals here.   *)
Operand(chain, e, env) ==
    CASE e.kind = "path" -> Resolve(chain, e.path, env.compat)
      [] e.kind = "lit"  -> e.value

Evaluate(chain, e, env) ==
    CASE e.kind = "lookup" -> LookupIn(Operand(chain, e.obj, env), Operand(chain, e.key, env))
      [] e.kind = "call"   -> IF e.name \in DOMAIN env.helpers
                              THEN env.helpers[e.name].result ELSE Null
      [] OTHER             -> Operand(chain, e, env)

EvaluateAll(chain, es, env) == [i \in 1..Len(es) |-> Evaluate(chain, es[i], env)]

(* Hash arguments, in order: <<key, value>>.                               *)
EvaluateHash(chain, hash, env) ==
    [i \in 1..Len(hash) |-> <<hash[i][1], Evaluate(chain, hash[i][2], env)>>]

-----------------------------------------------------------------------------
(* find_inline_partial: the inline partial a name denotes, the newest one   *)
(* of the innermost frame that has any.  A set of at most one.             *)
InScope(chain, name) ==
    LET at == {p \in UNION {{i} \X (1..Len(chain[i].inlines)) : i \in 1..Len(chain)} :
                  chain[p[1]].inlines[p[2]].name = name}
    IN  {chain[p[1]].inlines[p[2]] :
            p \in {q \in at : \A r \in at : \/ r[1] < q[1]
                                            \/ r[1] = q[1] /\ q[2] <= r[2]}}

(* The @partial-block a yield finds: the innermost frame's that has one,   *)
(* as a set of at most one frame index.                                    *)
Yielding(chain) ==
    {i \in 1..Len(chain) : /\ chain[i].block # <<>>
                           /\ \A j \in (i + 1)..Len(chain) : chain[j].block = <<>>}

=============================================================================
