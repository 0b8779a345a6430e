------------------------------- MODULE Render -------------------------------
(***************************************************************************)
(* One call of hbs_render (src/render.c): the tree walk over a compiled    *)
(* template as a machine that executes one statement, one callback or one  *)
(* return per step.                                                        *)
(*                                                                         *)
(* The C call stack is ctl: one activation per render_program that is      *)
(* running (or per user helper that is), with the local variables of the   *)
(* render_* function that called it.  frames is the context chain, outs    *)
(* the output buffers (state->output innermost; a saved_output, a helper's *)
(* own string and the outputs of enclosing render states below it), errs   *)
(* the has_error flag of each render state in existence.                   *)
(***************************************************************************)
EXTENDS Context

CONSTANTS
    Node,   \* AST nodes: statements, and programs (kind "program")
    Job     \* what a call may be given: template, context and environment

(* A program's statements are its body, and a block's body and inverse     *)
(* are programs; a missing inverse is <<>>.  Arguments and block           *)
(* parameters are finite lists.                                            *)
ASSUME NodeAssumption ==
    \A n \in Node : /\ n.body \in Seq(Node) /\ n.inverse \in Seq(Node)
                    /\ {Len(n.args), Len(n.params)} \subseteq Nat

ASSUME JobAssumption ==
    \A j \in Job : /\ j.main \in Node
                   /\ \A p \in DOMAIN j.partials : j.partials[p] \in Node

VARIABLES
    job,       \* the call's arguments and options: constant during the call
    ctl,       \* the activations, innermost last
    frames,    \* the context frames, state->frame last
    outs,      \* the output buffers, each a sequence of items
    errs,      \* has_error of each render state, the current one last
    compiled,  \* how many partials this call has compiled (hbs_compile)
    refs,      \* json references obtained and not yet put
    status     \* "running", then "ok", "error" or "undefined"

vars == <<job, ctl, frames, outs, errs, compiled, refs, status>>

-----------------------------------------------------------------------------
(* Activations.                                                            *)

Kinds == {"root", "block", "each", "with", "yield", "pblock", "partial",
          "inline", "helper", "fn"}

Top   == ctl[Len(ctl)]
Frame == frames[Len(frames)]
Stmt  == Top.code[Top.pc]

(* The call's own template is instance 0; the n-th partial compiled is     *)
(* instance n and lives until the activation that owns it returns.         *)
Live(tmpl) == tmpl = 0 \/ \E k \in 1..Len(ctl) : ctl[k].own = tmpl

(* A definition named ...Slip is a mutated form of the definition that      *)
(* follows it, a slip the code could contain.  No specification uses it:   *)
(* it is put in the definition's place to see that a property notices.     *)

(* Slip: the statements counted from 0.                                    *)
ActivationSlip(kind, node, code, tmpl) ==
    [kind |-> kind, node |-> node, code |-> code, pc |-> 0, tmpl |-> tmpl,
     own |-> 0, refs |-> 0, value |-> Null, iter |-> 1, calls |-> <<>>,
     base |-> [frames |-> Len(frames), outs |-> Len(outs), errs |-> Len(errs)]]

(* The activation that runs `code`, of template instance `tmpl`, for       *)
(* `node`.  value, iter and calls are the locals of the function for the   *)
(* node: the collection and index of an each, the first argument and the   *)
(* callbacks still to come of a user helper.  base is a history variable:  *)
(* the heights of the stacks when the function was entered.                *)
Activation(kind, node, code, tmpl) ==
    [kind |-> kind, node |-> node, code |-> code, pc |-> 1, tmpl |-> tmpl,
     own |-> 0, refs |-> 0, value |-> Null, iter |-> 1, calls |-> <<>>,
     base |-> [frames |-> Len(frames), outs |-> Len(outs), errs |-> Len(errs)]]

(* Code of the statement itself belongs to the template the statement is in. *)
Run(kind, code) == Activation(kind, Stmt, code, Top.tmpl)

Advanced    == [ctl EXCEPT ![Len(ctl)].pc = @ + 1]
Enter(act)  == ctl' = Append(Advanced, act)
Return      == ctl' = Front(ctl)
Write(items)    == outs' = [outs EXCEPT ![Len(outs)] = @ \o items]
HandUp(items)   == outs' = [Front(outs) EXCEPT ![Len(outs) - 1] = @ \o items]

Owned(v) == IF v = Null THEN 0 ELSE 1

(* A statement that does nothing but write.                                *)
Produce(items) ==
    /\ ctl' = Advanced
    /\ Write(items)
    /\ UNCHANGED <<job, frames, errs, compiled, refs, status>>

-----------------------------------------------------------------------------
(* What a statement evaluates and whom it calls.                           *)

Args(n) == EvaluateAll(frames, n.args, job)
Hash(n) == EvaluateHash(frames, n.hash, job)
Arg1(n) == IF n.args = <<>> THEN Null ELSE Evaluate(frames, Head(n.args), job)

NameOf(n) == Head(n.path.parts)

(* A mustache names a helper only when it is a single part without ./ ;    *)
(* a block by the first part of any path.                                  *)
NamesHelper(n) == \/ n.kind = "mustache" /\ Len(n.path.parts) = 1 /\ ~n.path.explicit
                  \/ n.kind = "block" /\ n.path.parts # <<>>

Builtins(n) == IF n.kind = "block" THEN {"if", "unless", "each", "with"}
                                   ELSE {"lookup", "log"}
Builtin(n, names) == NamesHelper(n) /\ NameOf(n) \in names

(* The hook for a helper that is not registered.  helperMissing is not for *)
(* a mustache that could be a plain variable.                              *)
Hook(n) == IF n.kind = "block" THEN <<"blockHelperMissing">>
           ELSE IF n.args # <<>> \/ n.hash # <<>> THEN <<"helperMissing">> ELSE <<>>

(* The user helper a mustache or block calls: empty or its name.           *)
HelperOf(n) ==
    IF ~NamesHelper(n) \/ NameOf(n) \in Builtins(n) THEN <<>>
    ELSE LET found == SelectSeq(<<NameOf(n)>> \o Hook(n),
                                LAMBDA h : h \in DOMAIN job.helpers)
         IN  IF found = <<>> THEN <<>> ELSE <<Head(found)>>

(* A value as output: null and "" leave nothing.                           *)
Shown(v, escaped) ==
    IF v \in {Null, Str("")} THEN <<>>
    ELSE << <<"value", v, escaped /\ ~job.noEscape>> >>

TargetOf(n) == Evaluate(frames, n.target, job)
IsYield(n)  == TargetOf(n) = Str("@partial-block")
PartialName(n) == IF n.kind = "pblock" THEN NameOf(n) ELSE AsString(TargetOf(n))
NeedsFrame(n)  == n.args # <<>> \/ n.hash # <<>>

(* The context of a partial: its argument, unless that is null; extended   *)
(* by hash arguments.                                                      *)
PartialData(n) ==
    LET ctx == IF Arg1(n) = Null THEN Frame.data ELSE Arg1(n)
    IN  IF n.hash = <<>> THEN ctx ELSE Extended(ctx, Hash(n))
PartialRefs(n) == Owned(Arg1(n)) + (IF n.hash = <<>> THEN 0 ELSE 1)

(* The expressions a statement evaluates before it calls anything.         *)
HashExprs(n, keys) == {n.hash[i][2] : i \in {k \in 1..Len(n.hash) : n.hash[k][1] \in keys}}
AllKeys(n) == {n.hash[i][1] : i \in 1..Len(n.hash)}
First(es, count) == SubSeq(es, 1, IF count < Len(es) THEN count ELSE Len(es))

Operands(n) ==
    CASE Builtin(n, {"lookup"} \cap Builtins(n)) -> IF Len(n.args) < 2 THEN {} ELSE ToSet(First(n.args, 2))
      [] Builtin(n, {"if", "unless"} \cap Builtins(n)) ->
           ToSet(First(n.args, 1)) \cup HashExprs(n, {"includeZero"})
      [] Builtin(n, {"each", "with"} \cap Builtins(n)) -> ToSet(First(n.args, 1))
      [] Builtin(n, {"log"} \cap Builtins(n)) \/ HelperOf(n) # <<>> -> ToSet(n.args) \cup HashExprs(n, AllKeys(n))
      [] n.kind = "partial" -> {n.target} \cup ToSet(n.args) \cup HashExprs(n, AllKeys(n))
      [] n.kind = "mustache" /\ ~Builtin(n, {"lookup", "log"}) /\ HelperOf(n) = <<>> ->
           {[kind |-> "path", path |-> n.path]}
      [] OTHER -> {}

(* A partial call that would run an inline partial whose template instance *)
(* has been destroyed.                                                     *)
CallsDangling(n) ==
    /\ \/ n.kind = "partial" /\ TargetOf(n) # Null /\ ~IsYield(n)
       \/ n.kind = "pblock" /\ n.path.parts # <<>>
    /\ \E ip \in InScope(frames, PartialName(n)) : ~Live(ip.tmpl)

(* What C leaves undefined.                                                *)
Illegal(n) == \/ \E e \in Operands(n) : Evaluate(frames, e, job) = Unset
              \/ CallsDangling(n)

(* Slip: the loop of render_program does not look at has_error.             *)
FinishedSlip == Top.pc > Len(Top.code)

(* The statement about to be rendered, unless render_program stops: at the *)
(* end of the program or because the render state has failed.              *)
Running  == status = "running" /\ Top.kind # "helper"
Finished == errs[Len(errs)] \/ Top.pc > Len(Top.code)
At(kind) == Running /\ ~Finished /\ Stmt.kind = kind /\ ~Illegal(Stmt)

-----------------------------------------------------------------------------
(* Text, comments, mustaches and raw blocks.                               *)

RenderText    == At("text")    /\ Produce(Stmt.text)
RenderComment == At("comment") /\ Produce(<<>>)

(* {{lookup obj key}}                                                      *)
RenderLookup ==
    /\ At("mustache") /\ Builtin(Stmt, {"lookup"})
    /\ Produce(IF Len(Stmt.args) < 2 THEN <<>>
               ELSE Shown(LookupIn(Args(Stmt)[1], Args(Stmt)[2]), Stmt.escaped))

(* {{log ...}} writes to stderr only.                                      *)
RenderLog == At("mustache") /\ Builtin(Stmt, {"log"}) /\ Produce(<<>>)

IsPath(n)  == ~Builtin(n, {"lookup", "log"}) /\ HelperOf(n) = <<>>
Missing(n) == Resolve(frames, n.path, job.compat) = Null

RenderValue ==
    /\ At("mustache") /\ IsPath(Stmt)
    /\ ~(Missing(Stmt) /\ job.strict)
    /\ Produce(Shown(Resolve(frames, Stmt.path, job.compat), Stmt.escaped))

(* Strict mode: the render state has failed.                               *)
RenderMissing ==
    /\ At("mustache") /\ IsPath(Stmt)
    /\ Missing(Stmt) /\ job.strict
    /\ ctl' = Advanced
    /\ errs' = [errs EXCEPT ![Len(errs)] = TRUE]
    /\ UNCHANGED <<job, frames, outs, compiled, refs, status>>

(* A raw block's helper gets the raw content from each call of fn.         *)
RenderRaw ==
    /\ At("raw")
    /\ LET name    == NameOf(Stmt)
           kept(h) == SelectSeq(h.script, LAMBDA c : c.side = "fn" /\ c.keep)
       IN  IF name \in DOMAIN job.helpers
           THEN Produce(FlattenSeq([i \in 1..Len(kept(job.helpers[name])) |-> Stmt.text])
                        \o job.helpers[name].text)
           ELSE Produce(Stmt.text)

-----------------------------------------------------------------------------
(* The built-in block helpers.                                             *)

(* A block that pushes no frame: its branch, with what it evaluated.       *)
EnterBlock(code, owned) ==
    /\ Enter([Run("block", code) EXCEPT !.refs = owned])
    /\ refs' = refs + owned
    /\ UNCHANGED <<job, frames, outs, errs, compiled, status>>

(* Slip: includeZero makes any falsy value truthy.                          *)
TruthySlip(n) ==
    \/ ~Falsy(Arg1(n))
    \/ \E i \in 1..Len(n.hash) : n.hash[i][1] = "includeZero" /\ AsBool(Hash(n)[i][2])

Truthy(n) ==
    LET zeroIncluded == \E i \in 1..Len(n.hash) :
                            n.hash[i][1] = "includeZero" /\ AsBool(Hash(n)[i][2])
    IN  ~Falsy(Arg1(n)) \/ (zeroIncluded /\ Arg1(n) = Num(0))

RenderIf ==
    /\ At("block") /\ Builtin(Stmt, {"if", "unless"})
    /\ EnterBlock(IF Truthy(Stmt) = (NameOf(Stmt) = "if") THEN Stmt.body ELSE Stmt.inverse,
                  Owned(Arg1(Stmt)))

(* Slip: only the first block parameter gets a value.                       *)
FilledSlip(names, values) ==
    [k \in 1..Len(First(names, 1)) |-> <<names[k], values[k]>>]

(* Block parameters are given values from left to right.                   *)
Filled(names, values) ==
    [k \in 1..Len(First(names, Len(values))) |-> <<names[k], values[k]>>]

EnterScope(kind, value, frame) ==
    /\ Enter([Run(kind, Stmt.body) EXCEPT !.value = value, !.refs = Owned(value)])
    /\ frames' = Append(frames, frame)
    /\ refs' = refs + Owned(value) + frame.refs
    /\ UNCHANGED <<job, outs, errs, compiled, status>>

RenderWith ==
    /\ At("block") /\ Builtin(Stmt, {"with"})
    /\ IF Falsy(Arg1(Stmt))
       THEN EnterBlock(Stmt.inverse, Owned(Arg1(Stmt)))
       ELSE EnterScope("with", Arg1(Stmt),
                       [NewFrame(Arg1(Stmt)) EXCEPT !.params = Filled(Stmt.params, <<Arg1(Stmt)>>),
                                                    !.slots  = Len(Stmt.params)])

(* Slip: @last is set an item early.                                        *)
LoopFrameSlip(n, coll, i) ==
    LET item == IF IsArr(coll) THEN coll[2][i] ELSE coll[2][i][2]
        key  == IF IsArr(coll) THEN <<>> ELSE << <<"@key", Str(coll[2][i][1])>> >>
    IN  [NewFrame(item) EXCEPT
           !.private = Obj(key \o << <<"@index", Num(i - 1)>>,
                                     <<"@first", Bool(i = 1)>>,
                                     <<"@last",  Bool(i = Len(coll[2]) - 1)>> >>),
           !.params  = Filled(n.params, <<item, IF IsArr(coll) THEN Num(i - 1)
                                                ELSE Str(coll[2][i][1])>>),
           !.slots   = Len(n.params),
           !.refs    = IF Len(n.params) >= 2 THEN 2 ELSE 1]

(* The frame of the i-th iteration.  It owns its private data and the      *)
(* value of the second block parameter.                                    *)
LoopFrame(n, coll, i) ==
    LET item == IF IsArr(coll) THEN coll[2][i] ELSE coll[2][i][2]
        key  == IF IsArr(coll) THEN <<>> ELSE << <<"@key", Str(coll[2][i][1])>> >>
    IN  [NewFrame(item) EXCEPT
           !.private = Obj(key \o << <<"@index", Num(i - 1)>>,
                                     <<"@first", Bool(i = 1)>>,
                                     <<"@last",  Bool(i = Len(coll[2]))>> >>),
           !.params  = Filled(n.params, <<item, IF IsArr(coll) THEN Num(i - 1)
                                                ELSE Str(coll[2][i][1])>>),
           !.slots   = Len(n.params),
           !.refs    = IF Len(n.params) >= 2 THEN 2 ELSE 1]

RenderEach ==
    /\ At("block") /\ Builtin(Stmt, {"each"})
    /\ LET coll  == Arg1(Stmt)
           empty == Falsy(coll) \/ (IsObj(coll) /\ coll[2] = <<>>)
       IN  \/ empty /\ EnterBlock(Stmt.inverse, Owned(coll))
           \/ ~empty /\ (IsArr(coll) \/ IsObj(coll))
                     /\ EnterScope("each", coll, LoopFrame(Stmt, coll, 1))
           \/ ~empty /\ ~IsArr(coll) /\ ~IsObj(coll) /\ Produce(<<>>)

(* Slips: an iteration that failed goes on before json_object_iter_next;    *)
(* the frame of the iteration that ends is dropped without putting what it *)
(* owns.                                                                   *)
NextItemRetrySlip ==
    /\ Running /\ Top.kind = "each" /\ Finished
    /\ Top.iter < Len(Top.value[2])
    /\ LET i    == IF errs[Len(errs)] THEN Top.iter ELSE Top.iter + 1
           next == LoopFrame(Top.node, Top.value, i)
       IN  /\ ctl' = [ctl EXCEPT ![Len(ctl)].iter = i, ![Len(ctl)].pc = 1]
           /\ frames' = Append(Front(frames), next)
           /\ refs' = refs - Frame.refs + next.refs
    /\ UNCHANGED <<job, outs, errs, compiled, status>>

NextItemLeakSlip ==
    /\ Running /\ Top.kind = "each" /\ Finished
    /\ Top.iter < Len(Top.value[2])
    /\ LET next == LoopFrame(Top.node, Top.value, Top.iter + 1)
       IN  /\ ctl' = [ctl EXCEPT ![Len(ctl)].iter = @ + 1, ![Len(ctl)].pc = 1]
           /\ frames' = Append(Front(frames), next)
           /\ refs' = refs + next.refs
    /\ UNCHANGED <<job, outs, errs, compiled, status>>

(* The next iteration: even after an error, which then renders nothing.    *)
NextItem ==
    /\ Running /\ Top.kind = "each" /\ Finished
    /\ Top.iter < Len(Top.value[2])
    /\ LET next == LoopFrame(Top.node, Top.value, Top.iter + 1)
       IN  /\ ctl' = [ctl EXCEPT ![Len(ctl)].iter = @ + 1, ![Len(ctl)].pc = 1]
           /\ frames' = Append(Front(frames), next)
           /\ refs' = refs - Frame.refs + next.refs
    /\ UNCHANGED <<job, outs, errs, compiled, status>>

(* A block whose helper is unknown renders its body in place; one without  *)
(* a name renders nothing.                                                 *)
RenderUnknown ==
    /\ At("block") /\ ~Builtin(Stmt, Builtins(Stmt)) /\ HelperOf(Stmt) = <<>>
    /\ IF Stmt.path.parts = <<>> THEN Produce(<<>>) ELSE EnterBlock(Stmt.body, 0)

-----------------------------------------------------------------------------
(* User helpers.  job.helpers[name] says what a helper does: script, the   *)
(* calls it makes of options->fn and options->inverse (each with the       *)
(* context it passes, and whether it keeps the result), text, what it      *)
(* appends to that, and result, what it is worth in a subexpression.  Any  *)
(* user code can be given as such a script; a helper of a mustache gets    *)
(* neither callback, and one of a block without {{else}} no inverse.       *)

HelperRefs(n) == Cardinality({i \in 1..Len(n.args) : Args(n)[i] # Null})
                 + (IF n.hash = <<>> THEN 0 ELSE 1)

RenderHelper ==
    /\ At("mustache") \/ At("block")
    /\ HelperOf(Stmt) # <<>>
    /\ LET script == job.helpers[HelperOf(Stmt)[1]].script
           given  == SelectSeq(script, LAMBDA c : /\ Stmt.kind = "block"
                                                  /\ c.side = "inverse" => Stmt.inverse # <<>>)
       IN  Enter([Run("helper", <<>>) EXCEPT !.value = Arg1(Stmt), !.calls = given,
                                             !.refs = HelperRefs(Stmt)])
    /\ outs' = Append(outs, <<>>)
    /\ refs' = refs + HelperRefs(Stmt)
    /\ UNCHANGED <<job, frames, errs, compiled, status>>

InHelper == status = "running" /\ Top.kind = "helper"

(* options->fn and options->inverse: render_program_to_string renders in a *)
(* render state of its own, with a frame of its own.                       *)
CallBack ==
    /\ InHelper /\ Top.calls # <<>>
    /\ LET call == Head(Top.calls)
           code == IF call.side = "fn" THEN Top.node.body ELSE Top.node.inverse
           ctx  == IF call.ctx = "param" THEN Top.value ELSE Frame.data
       IN  /\ ctl' = Append([ctl EXCEPT ![Len(ctl)].calls = Tail(@)],
                            [Activation("fn", Top.node, code, Top.tmpl) EXCEPT !.calls = <<call>>])
           /\ frames' = Append(frames, NewFrame(ctx))
    /\ outs' = Append(outs, <<>>)
    /\ errs' = Append(errs, FALSE)
    /\ UNCHANGED <<job, compiled, refs, status>>

ReturnHelper ==
    /\ InHelper /\ Top.calls = <<>>
    /\ Return
    /\ HandUp(outs[Len(outs)] \o job.helpers[HelperOf(Top.node)[1]].text)
    /\ refs' = refs - Top.refs
    /\ UNCHANGED <<job, frames, errs, compiled, status>>

-----------------------------------------------------------------------------
(* Partials.                                                               *)

Calls(n) == TargetOf(n) # Null /\ ~IsYield(n)

(* A partial whose name is null, that yields where there is no block, or   *)
(* that is not registered leaves nothing.                                  *)
RenderNoPartial ==
    /\ At("partial")
    /\ \/ TargetOf(Stmt) = Null
       \/ IsYield(Stmt) /\ Yielding(frames) = {}
       \/ /\ Calls(Stmt)
          /\ InScope(frames, PartialName(Stmt)) = {}
          /\ PartialName(Stmt) \notin DOMAIN job.partials
    /\ Produce(<<>>)

(* {{> @partial-block}}                                                    *)
RenderYield ==
    /\ At("partial") /\ IsYield(Stmt)
    /\ \E i \in Yielding(frames) :
          LET block == frames[i].block[1]
          IN  /\ Enter([Activation("yield", Stmt, block.code, block.tmpl) EXCEPT !.iter = i])
              /\ frames' = Append(frames, NewFrame(IF block.ctx = Null THEN Frame.data ELSE block.ctx))
    /\ UNCHANGED <<job, outs, errs, compiled, refs, status>>

(* {{> name}} of an inline partial: a frame for the call and, in           *)
(* render_program_to_string, a render state with a frame of its own.       *)
RenderInline ==
    /\ At("partial") /\ Calls(Stmt)
    /\ \E ip \in InScope(frames, PartialName(Stmt)) :
          Enter([Activation("inline", Stmt, ip.code, ip.tmpl) EXCEPT !.refs = PartialRefs(Stmt)])
    /\ frames' = frames \o <<NewFrame(PartialData(Stmt)), NewFrame(PartialData(Stmt))>>
    /\ outs' = Append(outs, <<>>)
    /\ errs' = Append(errs, FALSE)
    /\ refs' = refs + PartialRefs(Stmt)
    /\ UNCHANGED <<job, compiled, status>>

(* {{> name}} of a registered partial: compiled, rendered in the caller's  *)
(* render state into a fresh buffer, with a frame only if it has arguments. *)
RenderPartial ==
    /\ At("partial") /\ Calls(Stmt)
    /\ InScope(frames, PartialName(Stmt)) = {}
    /\ PartialName(Stmt) \in DOMAIN job.partials
    /\ Enter([Activation("partial", Stmt, job.partials[PartialName(Stmt)].body, compiled + 1)
                EXCEPT !.own = compiled + 1, !.refs = PartialRefs(Stmt)])
    /\ compiled' = compiled + 1
    /\ frames' = IF NeedsFrame(Stmt) THEN Append(frames, NewFrame(PartialData(Stmt))) ELSE frames
    /\ outs' = Append(outs, <<>>)
    /\ refs' = refs + PartialRefs(Stmt)
    /\ UNCHANGED <<job, errs, status>>

(* {{#> name}}: the partial runs in a frame that offers it the block; its  *)
(* arguments are ignored.                                                  *)
BlockFrame(n) ==
    [NewFrame(Frame.data) EXCEPT !.block = << [code |-> n.body, ctx |-> Frame.data, tmpl |-> Top.tmpl] >>]

(* Slip: the partial is destroyed before it is rendered.                   *)
EnterPartialBlockSlip(act) ==
    /\ Enter([act EXCEPT !.own = 0])
    /\ frames' = Append(frames, BlockFrame(Stmt))
    /\ compiled' = compiled + (IF act.own = 0 THEN 0 ELSE 1)
    /\ UNCHANGED <<job, outs, errs, refs, status>>

EnterPartialBlock(act) ==
    /\ Enter(act)
    /\ frames' = Append(frames, BlockFrame(Stmt))
    /\ compiled' = compiled + (IF act.own = 0 THEN 0 ELSE 1)
    /\ UNCHANGED <<job, outs, errs, refs, status>>

RenderPartialBlock ==
    /\ At("pblock") /\ Stmt.path.parts # <<>>
    /\ LET name  == NameOf(Stmt)
           found == InScope(frames, name)
       IN  \/ \E ip \in found :
                 EnterPartialBlock(Activation("pblock", Stmt, ip.code, ip.tmpl))
           \/ /\ found = {} /\ name \in DOMAIN job.partials
              /\ EnterPartialBlock(
                    [Activation("pblock", Stmt, job.partials[name].body, compiled + 1)
                       EXCEPT !.own = compiled + 1])
           \/ /\ found = {} /\ name \notin DOMAIN job.partials
              /\ EnterBlock(Stmt.body, 0)

RenderNamelessBlock == At("pblock") /\ Stmt.path.parts = <<>> /\ Produce(<<>>)

(* {{#*inline "name"}}: registered in the current frame.                   *)
RegisterInline ==
    /\ At("decl")
    /\ ctl' = Advanced
    /\ frames' = [frames EXCEPT ![Len(frames)].inlines =
                    <<[name |-> NameOf(Stmt), code |-> Stmt.body, tmpl |-> Top.tmpl]>> \o @]
    /\ UNCHANGED <<job, outs, errs, compiled, refs, status>>

-----------------------------------------------------------------------------
(* Returns: the frames are popped, what the function owned is put, its     *)
(* template instance is destroyed with the activation.                     *)

ReturnBlock ==
    /\ Running /\ Top.kind = "block" /\ Finished
    /\ Return
    /\ refs' = refs - Top.refs
    /\ UNCHANGED <<job, frames, outs, errs, compiled, status>>

ReturnScope ==
    /\ Running /\ Top.kind \in {"each", "with", "yield", "pblock"} /\ Finished
    /\ Top.kind = "each" => Top.iter = Len(Top.value[2])
    /\ Return
    /\ frames' = Front(frames)
    /\ refs' = refs - Top.refs - Frame.refs
    /\ UNCHANGED <<job, outs, errs, compiled, status>>

(* The output of a standalone partial is indented: its start and whatever  *)
(* follows a newline.                                                      *)
Indented(n, items) ==
    IF ~n.indent THEN items
    ELSE << <<"indent">> >> \o
         FlattenSeq([i \in 1..Len(items) |->
                       IF items[i] = <<"nl">> /\ i < Len(items)
                       THEN <<items[i], <<"indent">> >> ELSE <<items[i]>>])

ReturnPartial ==
    /\ Running /\ Top.kind = "partial" /\ Finished
    /\ Return
    /\ frames' = IF NeedsFrame(Top.node) THEN Front(frames) ELSE frames
    /\ HandUp(Indented(Top.node, outs[Len(outs)]))
    /\ refs' = refs - Top.refs
    /\ UNCHANGED <<job, errs, compiled, status>>

(* Slip: only the frame of the sub render state is popped.                  *)
ReturnInlineSlip ==
    /\ Running /\ Top.kind = "inline" /\ Finished
    /\ Return
    /\ frames' = Front(frames)
    /\ HandUp(Indented(Top.node, outs[Len(outs)]))
    /\ errs' = Front(errs)
    /\ refs' = refs - Top.refs
    /\ UNCHANGED <<job, compiled, status>>

(* The render state of an inline partial goes, and its has_error with it.  *)
ReturnInline ==
    /\ Running /\ Top.kind = "inline" /\ Finished
    /\ Return
    /\ frames' = Front(Front(frames))
    /\ HandUp(Indented(Top.node, outs[Len(outs)]))
    /\ errs' = Front(errs)
    /\ refs' = refs - Top.refs
    /\ UNCHANGED <<job, compiled, status>>

(* Back in the user's helper, which keeps the result or drops it.          *)
ReturnFn ==
    /\ Running /\ Top.kind = "fn" /\ Finished
    /\ Return
    /\ frames' = Front(frames)
    /\ HandUp(IF Head(Top.calls).keep THEN outs[Len(outs)] ELSE <<>>)
    /\ errs' = Front(errs)
    /\ UNCHANGED <<job, compiled, refs, status>>

(* hbs_render returns the output, or NULL and HBS_ERR_RENDER.              *)
ReturnRoot ==
    /\ Running /\ Top.kind = "root" /\ Finished
    /\ Return
    /\ frames' = Front(frames)
    /\ refs' = refs - Top.refs - Frame.refs
    /\ errs' = Front(errs)
    /\ outs' = IF errs[Len(errs)] THEN Front(outs) ELSE outs
    /\ status' = IF errs[Len(errs)] THEN "error" ELSE "ok"
    /\ UNCHANGED <<job, compiled>>

(* Undefined behaviour: what the build does then is not modelled.          *)
GoWrong ==
    /\ Running /\ ~Finished /\ Illegal(Stmt)
    /\ status' = "undefined"
    /\ UNCHANGED <<job, ctl, frames, outs, errs, compiled, refs>>

-----------------------------------------------------------------------------
Init ==
    /\ job \in Job
    /\ ctl = << [kind |-> "root", node |-> job.main, code |-> job.main.body, pc |-> 1, tmpl |-> 0,
                 own |-> 0, refs |-> 0, value |-> Null, iter |-> 1, calls |-> <<>>,
                 base |-> [frames |-> 0, outs |-> 0, errs |-> 0]] >>
    /\ frames = <<NewFrame(job.ctx)>>
    /\ outs = << <<>> >>
    /\ errs = <<FALSE>>
    /\ compiled = 0
    /\ refs = 0
    /\ status = "running"

Statement ==
    \/ RenderText \/ RenderComment \/ RenderLookup \/ RenderLog \/ RenderValue
    \/ RenderMissing \/ RenderRaw \/ RenderIf \/ RenderWith \/ RenderEach
    \/ RenderUnknown \/ RenderHelper \/ RenderNoPartial \/ RenderYield
    \/ RenderInline \/ RenderPartial \/ RenderPartialBlock
    \/ RenderNamelessBlock \/ RegisterInline \/ GoWrong

Resume ==
    \/ NextItem \/ CallBack \/ ReturnHelper \/ ReturnBlock \/ ReturnScope
    \/ ReturnPartial \/ ReturnInline \/ ReturnFn \/ ReturnRoot

Next == Statement \/ Resume

(* A call runs on the caller's thread until it returns.                    *)
Spec == Init /\ [][Next]_vars /\ WF_vars(Next)

-----------------------------------------------------------------------------
(* Properties.                                                             *)

(* A sequence, whatever its elements.                                      *)
Stack(s) == s \in Seq({s[i] : i \in DOMAIN s})

IsActivation(a) ==
    /\ DOMAIN a = {"kind", "node", "code", "pc", "tmpl", "own", "refs",
                   "value", "iter", "calls", "base"}
    /\ a.kind \in Kinds
    /\ a.node \in Node
    /\ a.code \in Seq(Node)
    /\ {a.pc, a.iter} \subseteq Nat \ {0}
    /\ {a.tmpl, a.own, a.refs} \subseteq Nat
    /\ a.base \in [frames : Nat, outs : Nat, errs : Nat]

IsFrame(f) ==
    /\ DOMAIN f = {"data", "private", "params", "slots", "block", "inlines", "refs"}
    /\ {f.slots, f.refs} \subseteq Nat
    /\ Stack(f.block) /\ Stack(f.inlines)
    /\ \A b \in {f.block[i] : i \in 1..Len(f.block)} \cup {f.inlines[i] : i \in 1..Len(f.inlines)} :
          b.code \in Seq(Node) /\ b.tmpl \in Nat

CallStack(c) == Stack(c) /\ \A k \in 1..Len(c) : IsActivation(c[k])
Chain(s)     == Stack(s) /\ \A i \in 1..Len(s) : IsFrame(s[i])

(* The types of the machine's state: what the C pointers may point to.     *)
TypeOK ==
    /\ job \in Job
    /\ CallStack(ctl)
    /\ Chain(frames)
    /\ Stack(outs)
    /\ errs \in Seq(BOOLEAN)
    /\ compiled \in Nat
    /\ refs \in Int
    /\ status \in {"running", "ok", "error", "undefined"}

(* What an activation holds on each stack while it runs.                   *)
FramesHeld(a) == CASE a.kind = "inline"               -> 2
                   [] a.kind = "partial"              -> IF NeedsFrame(a.node) THEN 1 ELSE 0
                   [] a.kind \in {"block", "helper"}  -> 0
                   [] OTHER                           -> 1
OutsHeld(a)   == IF a.kind \in {"root", "partial", "inline", "helper", "fn"} THEN 1 ELSE 0
StatesHeld(a) == IF a.kind \in {"root", "inline", "fn"} THEN 1 ELSE 0


(* The three stacks just above an activation's own part, and now.          *)
Above(a) == [frames |-> a.base.frames + FramesHeld(a),
             outs   |-> a.base.outs   + OutsHeld(a),
             errs   |-> a.base.errs   + StatesHeld(a)]
Heights  == [frames |-> Len(frames), outs |-> Len(outs), errs |-> Len(errs)]

(* Every function of the renderer leaves the context chain, the output     *)
(* buffers and the render states as high as it found them, however it and  *)
(* whatever it calls return: the frames and buffers on the stacks are      *)
(* exactly those of the calls in progress.  (frame_push/frame_pop and      *)
(* saved_output in src/render.c are paired by hand on every path.)         *)
StackDiscipline ==
    status \in {"running", "undefined"} =>
        /\ ctl # <<>>
        /\ ctl[1].base = [frames |-> 0, outs |-> 0, errs |-> 0]
        /\ \A k \in 1..(Len(ctl) - 1) : ctl[k + 1].base = Above(ctl[k])
        /\ Heights = Above(Top)

(* The references that the elements of a stack will put.                   *)
Owed(s) == FoldLeft(LAMBDA acc, x : acc + x.refs, 0, s)

(* No json reference leaks and none is put twice: those in existence are   *)
(* the ones the running functions and the live frames will put, and a      *)
(* call that returns, with or without an error, has put them all.          *)
RefsBalanced == refs = Owed(ctl) + Owed(frames)

(* @index, @first and @last are those of the innermost {{#each}} running,  *)
(* wherever in its body they are read: through ifs, partials, callbacks of *)
(* user helpers and yielded blocks.                                        *)
LoopVariables ==
    LET loops   == {k \in 1..Len(ctl) : ctl[k].kind = "each"}
        each    == ctl[Innermost(loops)]
        Data(x) == DataVar(frames, [depth |-> 0, parts |-> <<x>>])
    IN  status = "running" /\ loops # {} =>
            /\ Data("@index") = Num(each.iter - 1)
            /\ Data("@first") = Bool(each.iter = 1)
            /\ Data("@last")  = Bool(each.iter = Len(each.value[2]))

(* Once a render state has failed, nothing of it is rendered any more: no  *)
(* function is called and no partial compiled until it has returned.       *)
FailureStops ==
    [][errs # <<>> /\ errs[Len(errs)] => Len(ctl') <= Len(ctl) /\ compiled' = compiled]_vars

(* The inline partials in scope have a body: the template instance it is   *)
(* part of has not been destroyed.                                         *)
InlinesAlive ==
    \A i \in 1..Len(frames) : \A j \in 1..Len(frames[i].inlines) :
        Live(frames[i].inlines[j].tmpl)

(* The code that runs belongs to a template that has not been destroyed:   *)
(* a yielded block, the block of a helper, an inline partial or a partial  *)
(* called by any of these may run long after the statement that it is      *)
(* part of began, but not after its template has gone.                     *)
CodeAlive == \A k \in 1..Len(ctl) : Live(ctl[k].tmpl)

(* A block's {{> @partial-block}} yields to an enclosing caller's block,   *)
(* never to the block that is being yielded already.                       *)
YieldsToCaller ==
    \A k, l \in 1..Len(ctl) :
        k < l /\ ctl[k].kind = "yield" /\ ctl[l].kind = "yield" => ctl[k].iter # ctl[l].iter

=============================================================================
