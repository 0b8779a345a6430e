---------------------------- MODULE RenderProofs ----------------------------
(***************************************************************************)
(* Theorems about Render, for every set of nodes and jobs: the state is    *)
(* well typed, every function of the renderer leaves the stacks as high as *)
(* it found them, and a render state that has failed renders nothing more, *)
(* although its flag is only looked at between two statements of a program *)
(* (render_program, src/render.c).                                         *)
(***************************************************************************)
EXTENDS Render, SequenceTheorems, FiniteSetTheorems, TLAPS

-----------------------------------------------------------------------------
(* Sequences whose elements have no common type.                           *)

(* Any sequence is a stack.                                                *)
LEMMA SeqIsStack == ASSUME NEW S, NEW s \in Seq(S) PROVE Stack(s)
<1> DEFINE T == {s[i] : i \in DOMAIN s}
<1>1. /\ Len(s) \in Nat /\ s \in [1..Len(s) -> S] /\ DOMAIN s = 1..Len(s)
  BY LenProperties
<1>2. s \in [1..Len(s) -> T]
  BY <1>1
<1>3. s \in Seq(T)
  BY <1>1, <1>2, SeqDef
<1> QED
  BY <1>3 DEF Stack

(* Pushing (Append), popping (Front) and replacing an element.             *)
LEMMA Push ==
    ASSUME NEW s, Stack(s), NEW x
    PROVE  /\ Stack(Append(s, x))
           /\ Len(Append(s, x)) = Len(s) + 1
           /\ \A i \in 1..Len(s) : Append(s, x)[i] = s[i]
           /\ Append(s, x)[Len(s) + 1] = x
<1> DEFINE S == {s[i] : i \in DOMAIN s} \cup {x}
<1>1. s \in Seq(S) /\ x \in S
  BY SeqMonotonic DEF Stack
<1>2. Append(s, x) \in Seq(S)
  BY <1>1
<1>3. Stack(Append(s, x))
  BY <1>2, SeqIsStack
<1> QED
  BY <1>1, <1>3, AppendProperties

LEMMA Pop ==
    ASSUME NEW s, Stack(s), Len(s) # 0
    PROVE  /\ Stack(Front(s))
           /\ Len(Front(s)) = Len(s) - 1
           /\ \A i \in 1..(Len(s) - 1) : Front(s)[i] = s[i]
<1> DEFINE S == {s[i] : i \in DOMAIN s}
           n == Len(s)
           f == SubSeq(s, 1, n - 1)
<1>1. n \in Nat /\ n # 0 /\ \A i \in 1..n : s[i] \in S
  BY LenProperties DEF Stack
<1> HIDE DEF n, S
<1>2. 1 \in Int /\ n - 1 \in Int /\ \A i \in 1..(n - 1) : s[i] \in S
  BY <1>1
<1>3. /\ f \in Seq(S)
      /\ Len(f) = IF 1 <= n - 1 THEN n - 1 - 1 + 1 ELSE 0
      /\ \A i \in 1..(n - 1 - 1 + 1) : f[i] = s[1 + i - 1]
  BY <1>2, SubSeqProperties
<1> HIDE DEF f
<1>4. Len(f) = n - 1 /\ \A i \in 1..(n - 1) : f[i] = s[i]
  BY <1>1, <1>3
<1>5. Stack(f)
  BY <1>3, SeqIsStack
<1> QED
  BY <1>4, <1>5 DEF Front, f, n

LEMMA Replace ==
    ASSUME NEW s, Stack(s), NEW t, t = [i \in DOMAIN s |-> t[i]]
    PROVE  Stack(t) /\ Len(t) = Len(s)
<1> DEFINE n == Len(s)
           T == {t[i] : i \in DOMAIN t}
<1>1. n \in Nat /\ DOMAIN s = 1..n
  BY LenProperties DEF Stack
<1>2. DOMAIN t = DOMAIN s
  OBVIOUS
<1>3. t \in [1..n -> T]
  BY <1>1, <1>2
<1> HIDE DEF n, T
<1>4. t \in Seq(T)
  BY <1>1, <1>3, SeqDef
<1>5. Len(t) = n
  BY <1>1, <1>2, <1>4, LenProperties
<1> QED
  BY <1>4, <1>5, SeqIsStack DEF n

(* The length of a stack.                                                  *)
LEMMA Height == ASSUME NEW s, Stack(s) PROVE Len(s) \in Nat /\ DOMAIN s = 1..Len(s)
BY LenProperties DEF Stack


-----------------------------------------------------------------------------
(* The inductive invariant.                                                *)

(* All the calls in progress, the outermost first, are nested on the       *)
(* stacks of height h.  Beyond StackDiscipline: only the first is the      *)
(* call of hbs_render itself, so that all the others return to somebody    *)
(* and have something of their callers' below them on every stack.         *)
Base == Nat \ {0}
Nested(c, h) ==
    /\ Len(c) # 0
    /\ c[1].kind = "root"
    /\ c[1].base = [frames |-> 0, outs |-> 0, errs |-> 0]
    /\ \A k \in 2..Len(c) : /\ c[k].kind # "root"
                            /\ c[k].base \in [frames : Base, outs : Base, errs : Base]
    /\ \A k \in 1..(Len(c) - 1) : c[k + 1].base = Above(c[k])
    /\ h = Above(c[Len(c)])

IInv ==
    /\ TypeOK
    /\ status \in {"running", "undefined"} => Nested(ctl, Heights)

(* What Nested depends on in an activation does not change while it runs.  *)
Alike(a, b) == a.kind = b.kind /\ a.node = b.node /\ a.base = b.base

LEMMA AlikeAbove == ASSUME NEW a, NEW b, Alike(a, b) PROVE Above(a) = Above(b)
BY DEF Alike, Above, FramesHeld, OutsHeld, StatesHeld

LEMMA HeldNat ==
    ASSUME NEW a
    PROVE  /\ FramesHeld(a) \in Nat /\ OutsHeld(a) \in Nat /\ StatesHeld(a) \in Nat
           /\ a.kind = "root" => FramesHeld(a) = 1 /\ OutsHeld(a) = 1 /\ StatesHeld(a) = 1
BY DEF FramesHeld, OutsHeld, StatesHeld

(* The stacks are never empty while a call runs.                           *)
LEMMA HeightsPositive ==
    ASSUME NEW c, Stack(c), NEW h, Nested(c, h)
    PROVE  h \in [frames : Base, outs : Base, errs : Base]
<1> DEFINE n == Len(c)
<1>1. n \in Nat /\ n # 0
  BY Height DEF Nested
<1>2. h = Above(c[n])
  BY DEF Nested
<1>3. CASE n = 1
  <2>1. /\ c[1].kind = "root"
        /\ c[1].base = [frames |-> 0, outs |-> 0, errs |-> 0]
    BY DEF Nested
  <2> QED
    BY <1>2, <1>3, <2>1, HeldNat DEF Above, Base
<1>4. CASE n # 1
  <2>1. n \in 2..n
    <3> HIDE DEF n
    <3> QED
      BY <1>1, <1>4
  <2>2. c[n].base \in [frames : Base, outs : Base, errs : Base]
    BY <2>1 DEF Nested
  <2> HIDE DEF n
  <2> QED
    BY <1>2, <2>2, HeldNat DEF Above, Base
<1> QED
  BY <1>3, <1>4

(* The three ways the activations change.                                  *)
LEMMA NestedStay ==
    ASSUME NEW c, Stack(c), NEW h, Nested(c, h),
           NEW d, Len(d) = Len(c), \A k \in 1..Len(c) : Alike(d[k], c[k])
    PROVE  Nested(d, h)
<1> DEFINE n == Len(c)
<1>1. n \in Nat /\ n # 0
  BY Height DEF Nested
<1> HIDE DEF n
<1>2. \A k \in 1..n : Above(d[k]) = Above(c[k]) /\ d[k].base = c[k].base /\ d[k].kind = c[k].kind
  BY AlikeAbove DEF Alike, n
<1>3. Len(d) = n /\ Len(c) = n
  BY DEF n
<1> QED
  BY <1>1, <1>2, <1>3 DEF Nested

LEMMA NestedPush ==
    ASSUME NEW c, Stack(c), NEW h, Nested(c, h),
           NEW d, Len(d) = Len(c) + 1, \A k \in 1..Len(c) : Alike(d[k], c[k]),
           d[Len(d)].kind # "root", d[Len(d)].base = h
    PROVE  Nested(d, Above(d[Len(d)]))
<1> DEFINE n == Len(c)
<1>1. n \in Nat /\ n # 0
  BY Height DEF Nested
<1>2. h \in [frames : Base, outs : Base, errs : Base]
  BY HeightsPositive
<1> HIDE DEF n
<1>3. \A k \in 1..n : Above(d[k]) = Above(c[k]) /\ d[k].base = c[k].base /\ d[k].kind = c[k].kind
  BY AlikeAbove DEF Alike, n
<1>4. Len(d) = n + 1 /\ Len(c) = n
  BY DEF n
<1>5. \A k \in 2..(n + 1) : /\ d[k].kind # "root"
                            /\ d[k].base \in [frames : Base, outs : Base, errs : Base]
  BY <1>1, <1>2, <1>3, <1>4 DEF Nested
<1>6. \A k \in 1..n : d[k + 1].base = Above(d[k])
  BY <1>1, <1>3, <1>4 DEF Nested
<1> QED
  BY <1>1, <1>3, <1>4, <1>5, <1>6 DEF Nested

LEMMA NestedPop ==
    ASSUME NEW c, Stack(c), NEW h, Nested(c, h), c[Len(c)].kind # "root",
           NEW d, Len(d) = Len(c) - 1, \A k \in 1..(Len(c) - 1) : d[k] = c[k]
    PROVE  Nested(d, c[Len(c)].base)
<1> DEFINE n == Len(c)
<1>1. n \in Nat /\ n # 0 /\ n # 1
  BY Height DEF Nested
<1> HIDE DEF n
<1>2. Len(d) = n - 1 /\ Len(c) = n /\ \A k \in 1..(n - 1) : d[k] = c[k]
  BY DEF n
<1>3. c[n].base = Above(d[n - 1])
  BY <1>1, <1>2 DEF Nested
<1> QED
  BY <1>1, <1>2, <1>3 DEF Nested

-----------------------------------------------------------------------------
(* What holds of the state in which an action is taken.                    *)

LEMMA StateFacts ==
    ASSUME IInv, status = "running"
    PROVE  /\ Len(ctl) \in Nat /\ Len(ctl) # 0 /\ Len(ctl) \in 1..Len(ctl)
           /\ IsActivation(Top)
           /\ Nested(ctl, Heights)
           /\ Heights = Above(Top)
           /\ Len(frames) \in Base /\ Len(outs) \in Base /\ Len(errs) \in Base
           /\ Len(frames) \in 1..Len(frames) /\ Len(errs) \in 1..Len(errs)
           /\ IsFrame(Frame)
           /\ errs[Len(errs)] \in BOOLEAN
<1>1. Nested(ctl, Heights) /\ Stack(ctl) /\ Stack(frames)
  BY DEF IInv, TypeOK, CallStack, Chain
<1>2. Heights \in [frames : Base, outs : Base, errs : Base]
  BY <1>1, HeightsPositive
<1>3. Len(frames) \in Base /\ Len(outs) \in Base /\ Len(errs) \in Base
  BY <1>2 DEF Heights
<1>4. Len(ctl) \in Nat /\ Len(ctl) # 0
  BY <1>1, Height DEF Nested
<1>5. Len(ctl) \in 1..Len(ctl) /\ Len(frames) \in 1..Len(frames) /\ Len(errs) \in 1..Len(errs)
  <2> DEFINE n == Len(ctl)
             f == Len(frames)
             e == Len(errs)
  <2>1. n \in Nat /\ n # 0 /\ f \in Base /\ e \in Base
    BY <1>3, <1>4
  <2> HIDE DEF n, f, e
  <2>2. n \in 1..n /\ f \in 1..f /\ e \in 1..e
    BY <2>1 DEF Base
  <2> QED
    BY <2>2 DEF n, f, e
<1>6. IsActivation(Top) /\ IsFrame(Frame)
  BY <1>5 DEF IInv, TypeOK, CallStack, Chain, Top, Frame
<1>7. errs[Len(errs)] \in BOOLEAN
  BY <1>5, ElementOfSeq DEF IInv, TypeOK, CallStack, Chain
<1>8. Heights = Above(Top)
  BY <1>1 DEF Nested, Top
<1> QED
  BY <1>1, <1>3, <1>4, <1>5, <1>6, <1>7, <1>8

(* A statement is executed in a program that has it and has not failed.    *)
LEMMA StmtFacts ==
    ASSUME IInv, NEW kind, At(kind)
    PROVE  /\ status = "running"
           /\ Stmt \in Node
           /\ Stmt.kind = kind
           /\ ~errs[Len(errs)]
<1>1. status = "running" /\ Stmt.kind = kind /\ ~Finished
  BY DEF At, Running
<1>2. IsActivation(Top) /\ errs[Len(errs)] \in BOOLEAN
  BY <1>1, StateFacts
<1>3. Top.code \in Seq(Node) /\ Top.pc \in Nat \ {0}
  BY <1>2 DEF IsActivation
<1>4. ~errs[Len(errs)] /\ ~(Top.pc > Len(Top.code))
  BY <1>1, <1>2 DEF Finished
<1>5. Top.pc \in 1..Len(Top.code)
  BY <1>3, <1>4, LenProperties
<1>6. Stmt \in Node
  BY <1>3, <1>5, ElementOfSeq DEF Stmt
<1> QED
  BY <1>1, <1>4, <1>6

(* The activations while a statement is executed: the program counter      *)
(* moves on, nothing else.                                                 *)
LEMMA AdvancedFacts ==
    ASSUME IInv, status = "running"
    PROVE  /\ Stack(Advanced) /\ Len(Advanced) = Len(ctl)
           /\ \A k \in 1..Len(ctl) : IsActivation(Advanced[k]) /\ Alike(Advanced[k], ctl[k])
<1> DEFINE a == [Top EXCEPT !.pc = Top.pc + 1]
<1>1. IsActivation(Top) /\ Stack(ctl) /\ Len(ctl) \in 1..Len(ctl)
  BY StateFacts DEF IInv, TypeOK, CallStack, Chain
<1>2. IsActivation(a) /\ Alike(a, Top)
  BY <1>1 DEF IsActivation, Alike
<1>3. Advanced = [ctl EXCEPT ![Len(ctl)] = a]
  BY DEF Advanced, Top
<1>4. \A k \in 1..Len(ctl) : IsActivation(ctl[k])
  BY DEF IInv, TypeOK, CallStack, Chain
<1> HIDE DEF a
<1>5. /\ Stack(Advanced) /\ Len(Advanced) = Len(ctl)
      /\ \A k \in 1..Len(ctl) : Advanced[k] = IF k = Len(ctl) THEN a ELSE ctl[k]
  <2>1. Advanced = [i \in DOMAIN ctl |-> Advanced[i]]
    BY <1>3
  <2>2. Stack(Advanced) /\ Len(Advanced) = Len(ctl)
    BY <1>1, <2>1, Replace
  <2>3. \A k \in 1..Len(ctl) : Advanced[k] = IF k = Len(ctl) THEN a ELSE ctl[k]
    BY <1>1, <1>3, Height
  <2> QED
    BY <2>2, <2>3
<1> QED
  BY <1>2, <1>4, <1>5 DEF Alike, Top

(* A statement that calls nothing.                                         *)
LEMMA CtlAdvanced ==
    ASSUME IInv, status = "running", ctl' = Advanced
    PROVE  /\ CallStack(ctl')
           /\ Nested(ctl', Heights)
<1>1. Nested(ctl, Heights) /\ Stack(ctl)
  BY StateFacts DEF IInv, TypeOK, CallStack, Chain
<1> QED
  BY <1>1, AdvancedFacts, NestedStay DEF CallStack

(* A call.                                                                 *)
LEMMA CtlEntered ==
    ASSUME IInv, status = "running",
           NEW act, IsActivation(act), act.kind # "root", act.base = Heights, Enter(act)
    PROVE  /\ CallStack(ctl')
           /\ Nested(ctl', Above(act))
<1>1. Nested(ctl, Heights) /\ Stack(ctl) /\ Len(ctl) \in Nat
  BY StateFacts DEF IInv, TypeOK, CallStack, Chain
<1>2. /\ Stack(Advanced) /\ Len(Advanced) = Len(ctl)
      /\ \A k \in 1..Len(ctl) : IsActivation(Advanced[k]) /\ Alike(Advanced[k], ctl[k])
  BY AdvancedFacts
<1>3. /\ Stack(ctl') /\ Len(ctl') = Len(ctl) + 1
      /\ \A k \in 1..Len(ctl) : ctl'[k] = Advanced[k]
      /\ ctl'[Len(ctl) + 1] = act
  BY <1>2, Push DEF Enter
<1>4. \A k \in 1..Len(ctl) : Alike(ctl'[k], ctl[k]) /\ IsActivation(ctl'[k])
  BY <1>2, <1>3
<1>5. Nested(ctl', Above(ctl'[Len(ctl')]))
  BY <1>1, <1>3, <1>4, NestedPush
<1>6. \A k \in 1..Len(ctl') : IsActivation(ctl'[k])
  BY <1>1, <1>3, <1>4
<1> QED
  BY <1>3, <1>5, <1>6 DEF CallStack

(* A return.                                                               *)
LEMMA CtlReturned ==
    ASSUME IInv, status = "running", Top.kind # "root", Return
    PROVE  /\ CallStack(ctl')
           /\ Nested(ctl', Top.base)
<1>1. Nested(ctl, Heights) /\ Stack(ctl) /\ Len(ctl) \in Nat /\ Len(ctl) # 0
  BY StateFacts DEF IInv, TypeOK, CallStack, Chain
<1>2. /\ Stack(ctl') /\ Len(ctl') = Len(ctl) - 1
      /\ \A k \in 1..(Len(ctl) - 1) : ctl'[k] = ctl[k]
  BY <1>1, Pop DEF Return
<1>3. Nested(ctl', Top.base)
  BY <1>1, <1>2, NestedPop DEF Top
<1>4. \A k \in 1..Len(ctl') : IsActivation(ctl'[k])
  BY <1>1, <1>2 DEF IInv, TypeOK, CallStack, Chain
<1> QED
  BY <1>2, <1>3, <1>4 DEF CallStack

-----------------------------------------------------------------------------
(* What the actions build.                                                 *)

LEMMA ChainPush ==
    ASSUME NEW s, Chain(s), NEW f, IsFrame(f)
    PROVE  Chain(Append(s, f)) /\ Len(Append(s, f)) = Len(s) + 1
<1>1. Stack(s) /\ Len(s) \in Nat
  BY Height DEF Chain
<1> QED
  BY <1>1, Push DEF Chain

LEMMA ChainPop ==
    ASSUME NEW s, Chain(s), Len(s) # 0
    PROVE  Chain(Front(s)) /\ Len(Front(s)) = Len(s) - 1
<1>1. Stack(s) /\ Len(s) \in Nat
  BY Height DEF Chain
<1> QED
  BY <1>1, Pop DEF Chain

LEMMA EmptyStack == Stack(<<>>) /\ Len(<<>>) = 0
<1>1. <<>> \in Seq({})
  OBVIOUS
<1> QED
  BY <1>1, SeqIsStack

LEMMA SingleStack == ASSUME NEW x PROVE Stack(<<x>>) /\ Len(<<x>>) = 1 /\ <<x>>[1] = x
<1>1. <<x>> \in Seq({x})
  OBVIOUS
<1> QED
  BY <1>1, SeqIsStack

LEMMA FrameNew == ASSUME NEW data PROVE IsFrame(NewFrame(data))
<1> DEFINE f == NewFrame(data)
<1>1. /\ DOMAIN f = {"data", "private", "params", "slots", "block", "inlines", "refs"}
      /\ f.slots = 0 /\ f.refs = 0 /\ f.block = <<>> /\ f.inlines = <<>>
  BY DEF NewFrame
<1>2. Stack(f.block) /\ Stack(f.inlines) /\ Len(f.block) = 0 /\ Len(f.inlines) = 0
  BY <1>1, EmptyStack
<1>3. \A i : i \notin 1..0
  OBVIOUS
<1> HIDE DEF f
<1> QED
  BY <1>1, <1>2, <1>3 DEF IsFrame, f

(* A frame with other block parameters, private data and references.       *)
LEMMA FrameWith ==
    ASSUME NEW f, IsFrame(f),
           NEW g, DOMAIN g = DOMAIN f, g.block = f.block, g.inlines = f.inlines,
           g.slots \in Nat, g.refs \in Nat
    PROVE  IsFrame(g)
BY DEF IsFrame

LEMMA LoopFrameTyped ==
    ASSUME NEW n \in Node, NEW coll, NEW i PROVE IsFrame(LoopFrame(n, coll, i))
<1> DEFINE g == LoopFrame(n, coll, i)
<1>1. PICK data : /\ DOMAIN g = DOMAIN NewFrame(data)
                  /\ g.block = NewFrame(data).block /\ g.inlines = NewFrame(data).inlines
                  /\ g.slots = Len(n.params) /\ g.refs \in Nat
  BY DEF LoopFrame, NewFrame
<1>2. Len(n.params) \in Nat
  BY NodeAssumption
<1> HIDE DEF g
<1>3. IsFrame(g)
  BY <1>1, <1>2, FrameNew, FrameWith
<1> QED
  BY <1>3 DEF g

LEMMA ActivationTyped ==
    ASSUME IInv, status = "running",
           NEW kind \in Kinds, NEW node \in Node, NEW code \in Seq(Node), NEW tmpl \in Nat
    PROVE  /\ IsActivation(Activation(kind, node, code, tmpl))
           /\ Activation(kind, node, code, tmpl).kind = kind
           /\ Activation(kind, node, code, tmpl).node = node
           /\ Activation(kind, node, code, tmpl).base = Heights
<1>1. Len(frames) \in Nat /\ Len(outs) \in Nat /\ Len(errs) \in Nat
  BY StateFacts DEF Base
<1> QED
  BY <1>1 DEF Activation, IsActivation, Heights

(* Whatever locals a function starts with.                                 *)
LEMMA ActivationWith ==
    ASSUME NEW a, IsActivation(a),
           NEW b, DOMAIN b = DOMAIN a, b.kind = a.kind, b.node = a.node, b.code = a.code,
           b.pc = a.pc, b.tmpl = a.tmpl, b.base = a.base,
           b.own \in Nat, b.refs \in Nat, b.iter \in Nat \ {0}
    PROVE  IsActivation(b) /\ b.kind = a.kind /\ b.node = a.node /\ b.base = a.base
BY DEF IsActivation

-----------------------------------------------------------------------------
(* The actions, one lemma for each shape of step.                          *)

(* Replacing the last output buffer.                                       *)
LEMMA WriteFacts ==
    ASSUME IInv, NEW items, Write(items)
    PROVE  Stack(outs') /\ Len(outs') = Len(outs)
<1>1. outs' = [i \in DOMAIN outs |-> outs'[i]]
  BY DEF Write
<1> QED
  BY <1>1, Replace DEF IInv, TypeOK

(* Giving the last buffer to the one below it.                             *)
LEMMA HandUpFacts ==
    ASSUME IInv, status = "running", NEW items, HandUp(items)
    PROVE  Stack(outs') /\ Len(outs') = Len(outs) - 1
<1>1. Stack(Front(outs)) /\ Len(Front(outs)) = Len(outs) - 1
  BY StateFacts, Pop DEF IInv, TypeOK, Base
<1>2. outs' = [i \in DOMAIN Front(outs) |-> outs'[i]]
  BY DEF HandUp
<1> QED
  BY <1>1, <1>2, Replace

LEMMA ProduceStep ==
    ASSUME IInv, status = "running", NEW items, Produce(items)
    PROVE  IInv'
<1>1. CallStack(ctl') /\ Nested(ctl', Heights)
  BY CtlAdvanced DEF Produce
<1>2. Stack(outs') /\ Len(outs') = Len(outs)
  BY WriteFacts DEF Produce
<1>3. Heights' = Heights
  BY <1>2 DEF Produce, Heights
<1> QED
  BY <1>1, <1>2, <1>3 DEF IInv, TypeOK, Produce

LEMMA MissingStep == ASSUME IInv, RenderMissing PROVE IInv'
<1>1. status = "running"
  BY StmtFacts DEF RenderMissing
<1>2. CallStack(ctl') /\ Nested(ctl', Heights)
  BY <1>1, CtlAdvanced DEF RenderMissing
<1>3. errs' \in Seq(BOOLEAN) /\ Len(errs') = Len(errs)
  <2>1. errs \in Seq(BOOLEAN) /\ Len(errs) \in 1..Len(errs)
    BY <1>1, StateFacts DEF IInv, TypeOK
  <2> QED
    BY <2>1, ExceptSeq DEF RenderMissing
<1>4. Heights' = Heights
  BY <1>3 DEF RenderMissing, Heights
<1> QED
  BY <1>2, <1>3, <1>4 DEF IInv, TypeOK, RenderMissing

LEMMA OwnedNat == ASSUME NEW v PROVE Owned(v) \in Nat
BY DEF Owned

(* A statement's code runs in the template of the statement.               *)
LEMMA RunTyped ==
    ASSUME IInv, status = "running", Stmt \in Node, NEW kind \in Kinds, NEW code \in Seq(Node)
    PROVE  /\ IsActivation(Run(kind, code))
           /\ Run(kind, code).kind = kind /\ Run(kind, code).node = Stmt
           /\ Run(kind, code).base = Heights
<1>1. Top.tmpl \in Nat
  BY StateFacts DEF IsActivation
<1> QED
  BY <1>1, ActivationTyped DEF Run

(* A call that pushes one frame, or none.                                  *)
LEMMA AboveBlock ==
    ASSUME NEW a, a.base = Heights, a.kind = "block" PROVE Above(a) = Heights
<1>1. FramesHeld(a) = 0 /\ OutsHeld(a) = 0 /\ StatesHeld(a) = 0
  BY DEF FramesHeld, OutsHeld, StatesHeld
<1> QED
  BY <1>1 DEF Above, Heights

LEMMA AboveScope ==
    ASSUME NEW a, a.base = Heights, a.kind \in {"each", "with", "yield", "pblock"}
    PROVE  Above(a) = [frames |-> Len(frames) + 1, outs |-> Len(outs), errs |-> Len(errs)]
<1>1. FramesHeld(a) = 1 /\ OutsHeld(a) = 0 /\ StatesHeld(a) = 0
  BY DEF FramesHeld, OutsHeld, StatesHeld
<1> QED
  BY <1>1 DEF Above, Heights

LEMMA EnterBlockStep ==
    ASSUME IInv, status = "running", Stmt \in Node,
           NEW code \in Seq(Node), NEW owned \in Nat, EnterBlock(code, owned)
    PROVE  IInv'
<1> DEFINE r == Run("block", code)
           act == [r EXCEPT !.refs = owned]
<1>1. IsActivation(r) /\ r.kind = "block" /\ r.base = Heights
  BY RunTyped DEF Kinds
<1> HIDE DEF r
<1>2. IsActivation(act) /\ act.kind = "block" /\ act.base = Heights
  BY <1>1 DEF IsActivation
<1>3. Enter(act)
  BY DEF EnterBlock, r
<1> HIDE DEF act
<1>4. CallStack(ctl') /\ Nested(ctl', Above(act))
  BY <1>2, <1>3, CtlEntered
<1>5. Above(act) = Heights'
  BY <1>2, AboveBlock DEF EnterBlock, Heights
<1> QED
  BY <1>4, <1>5 DEF IInv, TypeOK, EnterBlock

LEMMA EnterScopeStep ==
    ASSUME IInv, status = "running", Stmt \in Node,
           NEW kind \in {"each", "with"}, NEW value, NEW frame, IsFrame(frame),
           EnterScope(kind, value, frame)
    PROVE  IInv'
<1> DEFINE r == Run(kind, Stmt.body)
           act == [r EXCEPT !.value = value, !.refs = Owned(value)]
<1>1. IsActivation(r) /\ r.kind = kind /\ r.base = Heights
  BY RunTyped, NodeAssumption DEF Kinds
<1> HIDE DEF r
<1>2. IsActivation(act) /\ act.kind = kind /\ act.base = Heights
  BY <1>1, OwnedNat DEF IsActivation
<1>3. Enter(act)
  BY DEF EnterScope, r
<1> HIDE DEF act
<1>4. CallStack(ctl') /\ Nested(ctl', Above(act))
  BY <1>2, <1>3, CtlEntered
<1>5. Chain(frames') /\ Len(frames') = Len(frames) + 1
  BY ChainPush DEF EnterScope, IInv, TypeOK
<1>6. Above(act) = Heights'
  BY <1>2, <1>5, AboveScope DEF EnterScope, Heights
<1>7. refs' \in Int
  BY OwnedNat DEF EnterScope, IInv, TypeOK, IsFrame
<1> QED
  BY <1>4, <1>5, <1>6, <1>7 DEF IInv, TypeOK, EnterScope

LEMMA IfStep == ASSUME IInv, RenderIf PROVE IInv'
<1> DEFINE code == IF Truthy(Stmt) = (NameOf(Stmt) = "if") THEN Stmt.body ELSE Stmt.inverse
<1>1. status = "running" /\ Stmt \in Node
  BY StmtFacts DEF RenderIf
<1>2. code \in Seq(Node) /\ Owned(Arg1(Stmt)) \in Nat
  BY <1>1, NodeAssumption, OwnedNat
<1>3. EnterBlock(code, Owned(Arg1(Stmt)))
  BY DEF RenderIf
<1> HIDE DEF code
<1> QED
  BY <1>1, <1>2, <1>3, EnterBlockStep

LEMMA WithStep == ASSUME IInv, RenderWith PROVE IInv'
<1> DEFINE v == Arg1(Stmt)
           f == [NewFrame(v) EXCEPT !.params = Filled(Stmt.params, <<v>>), !.slots = Len(Stmt.params)]
<1>1. status = "running" /\ Stmt \in Node
  BY StmtFacts DEF RenderWith
<1>2. Stmt.inverse \in Seq(Node) /\ Len(Stmt.params) \in Nat /\ Owned(v) \in Nat
  BY <1>1, NodeAssumption, OwnedNat
<1>3. CASE Falsy(v)
  <2>1. EnterBlock(Stmt.inverse, Owned(v))
    BY <1>3 DEF RenderWith
  <2> HIDE DEF v
  <2> QED
    BY <1>1, <1>2, <2>1, EnterBlockStep
<1>4. CASE ~Falsy(v)
  <2>1. EnterScope("with", v, f)
    BY <1>4 DEF RenderWith
  <2> HIDE DEF v
  <2>2. /\ DOMAIN f = DOMAIN NewFrame(v)
        /\ f.block = NewFrame(v).block /\ f.inlines = NewFrame(v).inlines
        /\ f.slots \in Nat /\ f.refs \in Nat
    BY <1>2 DEF NewFrame
  <2> HIDE DEF f
  <2>3. IsFrame(f)
    BY <2>2, FrameNew, FrameWith
  <2> QED
    BY <1>1, <2>1, <2>3, EnterScopeStep
<1> QED
  BY <1>3, <1>4

LEMMA EachStep == ASSUME IInv, RenderEach PROVE IInv'
<1> DEFINE coll == Arg1(Stmt)
<1>1. status = "running" /\ Stmt \in Node
  BY StmtFacts DEF RenderEach
<1>2. Stmt.inverse \in Seq(Node) /\ Owned(coll) \in Nat
  BY <1>1, NodeAssumption, OwnedNat
<1>3. \/ EnterBlock(Stmt.inverse, Owned(coll))
      \/ EnterScope("each", coll, LoopFrame(Stmt, coll, 1))
      \/ Produce(<<>>)
  BY DEF RenderEach
<1> HIDE DEF coll
<1>4. IsFrame(LoopFrame(Stmt, coll, 1))
  BY <1>1, LoopFrameTyped
<1> QED
  BY <1>1, <1>2, <1>3, <1>4, EnterBlockStep, EnterScopeStep, ProduceStep

LEMMA UnknownStep == ASSUME IInv, RenderUnknown PROVE IInv'
<1>1. status = "running" /\ Stmt \in Node
  BY StmtFacts DEF RenderUnknown
<1>2. Stmt.body \in Seq(Node)
  BY <1>1, NodeAssumption
<1>3. Produce(<<>>) \/ EnterBlock(Stmt.body, 0)
  BY DEF RenderUnknown
<1> QED
  BY <1>1, <1>2, <1>3, ProduceStep, EnterBlockStep

(* The next iteration replaces the frame of the loop.                      *)
LEMMA NextItemStep == ASSUME IInv, NextItem PROVE IInv'
<1> DEFINE next == LoopFrame(Top.node, Top.value, Top.iter + 1)
           a == [Top EXCEPT !.iter = Top.iter + 1, !.pc = 1]
<1>1. status = "running"
  BY DEF NextItem, Running
<1>2. IsActivation(Top) /\ IsFrame(Frame) /\ Len(frames) \in Base /\ Len(ctl) \in 1..Len(ctl)
      /\ Nested(ctl, Heights)
  BY <1>1, StateFacts
<1>3. IsFrame(next)
  BY <1>2, LoopFrameTyped DEF IsActivation
<1>4. IsActivation(a) /\ Alike(a, Top)
  BY <1>2 DEF IsActivation, Alike
<1>5. ctl' = [ctl EXCEPT ![Len(ctl)] = a]
  BY DEF NextItem, Top
<1> HIDE DEF a
<1>6. Stack(ctl') /\ Len(ctl') = Len(ctl)
  <2>1. ctl' = [i \in DOMAIN ctl |-> ctl'[i]]
    BY <1>5
  <2> QED
    BY <2>1, Replace DEF IInv, TypeOK, CallStack
<1>7. \A k \in 1..Len(ctl) : ctl'[k] = IF k = Len(ctl) THEN a ELSE ctl[k]
  BY <1>5, Height DEF IInv, TypeOK, CallStack
<1>8. \A k \in 1..Len(ctl) : IsActivation(ctl'[k]) /\ Alike(ctl'[k], ctl[k])
  BY <1>4, <1>7 DEF Alike, Top, IInv, TypeOK, CallStack
<1>9. CallStack(ctl')
  BY <1>6, <1>8 DEF CallStack
<1>10. Nested(ctl', Heights)
  BY <1>2, <1>6, <1>8, NestedStay DEF IInv, TypeOK, CallStack
<1>11. Chain(frames') /\ Len(frames') = Len(frames)
  <2>1. Chain(Front(frames)) /\ Len(Front(frames)) = Len(frames) - 1
    BY <1>2, ChainPop DEF IInv, TypeOK, Base
  <2>2. frames' = Append(Front(frames), next)
    BY DEF NextItem
  <2> HIDE DEF next
  <2> QED
    BY <1>2, <1>3, <2>1, <2>2, ChainPush DEF Base
<1>12. refs' \in Int
  <2>1. refs' = refs - Frame.refs + next.refs
    BY DEF NextItem
  <2> HIDE DEF next
  <2> QED
    BY <1>2, <1>3, <2>1 DEF IsFrame, IInv, TypeOK
<1>13. Heights' = Heights
  BY <1>11 DEF Heights, NextItem
<1> QED
  BY <1>9, <1>10, <1>11, <1>12, <1>13 DEF IInv, TypeOK, NextItem

(* User helpers and their callbacks.                                       *)
LEMMA HelperRefsNat == ASSUME NEW n \in Node PROVE HelperRefs(n) \in Nat
<1> DEFINE S == {i \in 1..Len(n.args) : Args(n)[i] # Null}
<1>1. Len(n.args) \in Nat
  BY NodeAssumption
<1>2. IsFiniteSet(1..Len(n.args))
  BY <1>1, FS_Interval
<1>3. IsFiniteSet(S)
  BY <1>2, FS_Subset
<1>4. Cardinality(S) \in Nat
  BY <1>3, FS_CardinalityType
<1> QED
  BY <1>4 DEF HelperRefs

LEMMA HelperStep == ASSUME IInv, RenderHelper PROVE IInv'
<1>1. status = "running" /\ Stmt \in Node
  BY StmtFacts DEF RenderHelper
<1> DEFINE r == Run("helper", <<>>)
<1>2. PICK given :
         Enter([r EXCEPT !.value = Arg1(Stmt), !.calls = given, !.refs = HelperRefs(Stmt)])
  BY DEF RenderHelper
<1> DEFINE act == [r EXCEPT !.value = Arg1(Stmt), !.calls = given, !.refs = HelperRefs(Stmt)]
<1>3. <<>> \in Seq(Node) /\ "helper" \in Kinds
  BY DEF Kinds
<1>4. IsActivation(r) /\ r.kind = "helper" /\ r.base = Heights
  BY <1>1, <1>3, RunTyped
<1> HIDE DEF r
<1>5. HelperRefs(Stmt) \in Nat
  BY <1>1, HelperRefsNat
<1>6. IsActivation(act) /\ act.kind = "helper" /\ act.base = Heights
  BY <1>4, <1>5 DEF IsActivation
<1>7. Enter(act)
  BY <1>2
<1> HIDE DEF act
<1>8. CallStack(ctl') /\ Nested(ctl', Above(act))
  BY <1>1, <1>6, <1>7, CtlEntered
<1>9. Stack(outs') /\ Len(outs') = Len(outs) + 1
  BY Push DEF RenderHelper, IInv, TypeOK
<1>10. Above(act) = Heights'
  <2>1. FramesHeld(act) = 0 /\ OutsHeld(act) = 1 /\ StatesHeld(act) = 0
    BY <1>6 DEF FramesHeld, OutsHeld, StatesHeld
  <2> QED
    BY <1>6, <1>9, <2>1 DEF Above, Heights, RenderHelper
<1>11. refs' \in Int
  BY <1>5 DEF RenderHelper, IInv, TypeOK
<1> QED
  BY <1>8, <1>9, <1>10, <1>11 DEF IInv, TypeOK, RenderHelper

LEMMA CallBackStep == ASSUME IInv, CallBack PROVE IInv'
<1> DEFINE call == Head(Top.calls)
           code == IF call.side = "fn" THEN Top.node.body ELSE Top.node.inverse
           ctx  == IF call.ctx = "param" THEN Top.value ELSE Frame.data
           a    == [Top EXCEPT !.calls = Tail(Top.calls)]
           r    == Activation("fn", Top.node, code, Top.tmpl)
           act  == [r EXCEPT !.calls = <<call>>]
           c    == [ctl EXCEPT ![Len(ctl)] = a]
<1>1. status = "running"
  BY DEF CallBack, InHelper
<1>2. IsActivation(Top) /\ Len(ctl) \in 1..Len(ctl) /\ Nested(ctl, Heights)
  BY <1>1, StateFacts
<1>3. /\ ctl' = Append(c, act)
      /\ frames' = Append(frames, NewFrame(ctx))
  BY DEF CallBack, Top
<1>4. code \in Seq(Node) /\ Top.node \in Node /\ Top.tmpl \in Nat
  BY <1>2, NodeAssumption DEF IsActivation
<1>5. IsActivation(a) /\ Alike(a, Top)
  BY <1>2 DEF IsActivation, Alike
<1> HIDE DEF code, a
<1>6. IsActivation(r) /\ r.kind = "fn" /\ r.base = Heights
  BY <1>1, <1>4, ActivationTyped DEF Kinds
<1> HIDE DEF r, call, ctx
<1>7. IsActivation(act) /\ act.kind = "fn" /\ act.base = Heights
  BY <1>6 DEF IsActivation
<1> HIDE DEF act
<1>8. Stack(c) /\ Len(c) = Len(ctl)
  <2>1. c = [i \in DOMAIN ctl |-> c[i]]
    OBVIOUS
  <2> HIDE DEF c
  <2> QED
    BY <2>1, Replace DEF IInv, TypeOK, CallStack
<1>9. \A k \in 1..Len(ctl) : c[k] = IF k = Len(ctl) THEN a ELSE ctl[k]
  BY Height DEF IInv, TypeOK, CallStack
<1> HIDE DEF c
<1>10. \A k \in 1..Len(ctl) : IsActivation(c[k]) /\ Alike(c[k], ctl[k])
  BY <1>5, <1>9 DEF Alike, Top, IInv, TypeOK, CallStack
<1>11. /\ Stack(ctl') /\ Len(ctl') = Len(ctl) + 1
       /\ \A k \in 1..Len(ctl) : ctl'[k] = c[k]
       /\ ctl'[Len(ctl) + 1] = act
  BY <1>3, <1>8, Push
<1>12. \A k \in 1..Len(ctl) : IsActivation(ctl'[k]) /\ Alike(ctl'[k], ctl[k])
  BY <1>10, <1>11
<1>13. CallStack(ctl')
  BY <1>2, <1>7, <1>11, <1>12 DEF CallStack
<1>14. Nested(ctl', Above(act))
  BY <1>2, <1>7, <1>11, <1>12, NestedPush DEF IInv, TypeOK, CallStack
<1>15. Chain(frames') /\ Len(frames') = Len(frames) + 1
  BY <1>3, FrameNew, ChainPush DEF IInv, TypeOK
<1>16. Stack(outs') /\ Len(outs') = Len(outs) + 1
  BY Push DEF CallBack, IInv, TypeOK
<1>17. errs' \in Seq(BOOLEAN) /\ Len(errs') = Len(errs) + 1
  BY DEF CallBack, IInv, TypeOK
<1>18. Above(act) = Heights'
  <2>1. FramesHeld(act) = 1 /\ OutsHeld(act) = 1 /\ StatesHeld(act) = 1
    BY <1>7 DEF FramesHeld, OutsHeld, StatesHeld
  <2> QED
    BY <1>7, <1>15, <1>16, <1>17, <2>1 DEF Above, Heights
<1> QED
  BY <1>13, <1>14, <1>15, <1>16, <1>17, <1>18 DEF IInv, TypeOK, CallBack

(* Partials.  What a search of the frames finds was put there with code    *)
(* and a template instance.                                                *)
LEMMA InScopeTyped ==
    ASSUME IInv, NEW name, NEW ip \in InScope(frames, name)
    PROVE  ip.code \in Seq(Node) /\ ip.tmpl \in Nat
<1>1. PICK i \in 1..Len(frames) : \E j \in 1..Len(frames[i].inlines) : ip = frames[i].inlines[j]
  BY DEF InScope
<1>2. IsFrame(frames[i])
  BY DEF IInv, TypeOK, Chain
<1> QED
  BY <1>1, <1>2 DEF IsFrame

LEMMA YieldingTyped ==
    ASSUME IInv, NEW i \in Yielding(frames)
    PROVE  /\ i \in Nat \ {0}
           /\ frames[i].block[1].code \in Seq(Node) /\ frames[i].block[1].tmpl \in Nat
<1>1. i \in 1..Len(frames) /\ frames[i].block # <<>>
  BY DEF Yielding
<1>2. IsFrame(frames[i])
  BY <1>1 DEF IInv, TypeOK, Chain
<1>3. 1 \in 1..Len(frames[i].block)
  <2> DEFINE b == frames[i].block
             n == Len(b)
  <2>1. Stack(b) /\ b # <<>>
    BY <1>1, <1>2 DEF IsFrame
  <2> HIDE DEF b
  <2>2. n \in Nat /\ n # 0
    BY <2>1, EmptySeq DEF Stack
  <2> HIDE DEF n
  <2>3. 1 \in 1..n
    BY <2>2
  <2> QED
    BY <2>3 DEF n, b
<1> QED
  BY <1>1, <1>2, <1>3 DEF IsFrame

LEMMA PartialRefsNat == ASSUME NEW n PROVE PartialRefs(n) \in Nat
BY OwnedNat DEF PartialRefs

LEMMA RegisteredTyped ==
    ASSUME IInv, NEW name \in DOMAIN job.partials
    PROVE  job.partials[name].body \in Seq(Node)
BY JobAssumption, NodeAssumption DEF IInv, TypeOK

LEMMA YieldStep == ASSUME IInv, RenderYield PROVE IInv'
<1>1. status = "running" /\ Stmt \in Node
  BY StmtFacts DEF RenderYield
<1>2. PICK i \in Yielding(frames) :
         LET block == frames[i].block[1]
         IN  /\ Enter([Activation("yield", Stmt, block.code, block.tmpl) EXCEPT !.iter = i])
             /\ frames' = Append(frames, NewFrame(IF block.ctx = Null THEN Frame.data ELSE block.ctx))
  BY DEF RenderYield
<1> DEFINE block == frames[i].block[1]
           data == IF block.ctx = Null THEN Frame.data ELSE block.ctx
           r   == Activation("yield", Stmt, block.code, block.tmpl)
           act == [r EXCEPT !.iter = i]
<1>3. i \in Nat \ {0} /\ block.code \in Seq(Node) /\ block.tmpl \in Nat
  BY YieldingTyped
<1>4. Enter(act) /\ frames' = Append(frames, NewFrame(data))
  BY <1>2
<1> HIDE DEF block, data
<1>5. IsActivation(r) /\ r.kind = "yield" /\ r.base = Heights
  BY <1>1, <1>3, ActivationTyped DEF Kinds
<1> HIDE DEF r
<1>6. IsActivation(act) /\ act.kind = "yield" /\ act.base = Heights
  BY <1>3, <1>5 DEF IsActivation
<1> HIDE DEF act
<1>7. CallStack(ctl') /\ Nested(ctl', Above(act))
  BY <1>1, <1>4, <1>6, CtlEntered
<1>8. Chain(frames') /\ Len(frames') = Len(frames) + 1
  BY <1>4, FrameNew, ChainPush DEF IInv, TypeOK
<1>9. Above(act) = Heights'
  BY <1>6, <1>8, AboveScope DEF RenderYield, Heights
<1> QED
  BY <1>7, <1>8, <1>9 DEF IInv, TypeOK, RenderYield

LEMMA InlineStep == ASSUME IInv, RenderInline PROVE IInv'
<1>1. status = "running" /\ Stmt \in Node
  BY StmtFacts DEF RenderInline
<1>2. PICK ip \in InScope(frames, PartialName(Stmt)) :
         Enter([Activation("inline", Stmt, ip.code, ip.tmpl) EXCEPT !.refs = PartialRefs(Stmt)])
  BY DEF RenderInline
<1> DEFINE r   == Activation("inline", Stmt, ip.code, ip.tmpl)
           act == [r EXCEPT !.refs = PartialRefs(Stmt)]
           f   == NewFrame(PartialData(Stmt))
<1>3. ip.code \in Seq(Node) /\ ip.tmpl \in Nat /\ PartialRefs(Stmt) \in Nat
  BY InScopeTyped, PartialRefsNat
<1>4. IsActivation(r) /\ r.kind = "inline" /\ r.base = Heights
  BY <1>1, <1>3, ActivationTyped DEF Kinds
<1>5. Enter(act)
  BY <1>2
<1> HIDE DEF r
<1>6. IsActivation(act) /\ act.kind = "inline" /\ act.base = Heights
  BY <1>3, <1>4 DEF IsActivation
<1> HIDE DEF act
<1>7. CallStack(ctl') /\ Nested(ctl', Above(act))
  BY <1>1, <1>5, <1>6, CtlEntered
<1>8. Chain(frames') /\ Len(frames') = Len(frames) + 2
  <2>1. frames' = frames \o <<f, f>>
    BY DEF RenderInline
  <2>2. IsFrame(f)
    BY FrameNew
  <2> HIDE DEF f
  <2>3. Chain(Append(frames, f)) /\ Len(Append(frames, f)) = Len(frames) + 1
    BY <2>2, ChainPush DEF IInv, TypeOK
  <2>4. frames' = Append(Append(frames, f), f)
    <3>1. frames \in Seq({frames[i] : i \in DOMAIN frames} \cup {f})
      BY SeqMonotonic DEF IInv, TypeOK, Chain, Stack
    <3> QED
      BY <2>1, <3>1
  <2> QED
    BY <2>2, <2>3, <2>4, ChainPush, <1>1, StateFacts DEF Base
<1>9. Stack(outs') /\ Len(outs') = Len(outs) + 1
  BY Push DEF RenderInline, IInv, TypeOK
<1>10. errs' \in Seq(BOOLEAN) /\ Len(errs') = Len(errs) + 1
  BY DEF RenderInline, IInv, TypeOK
<1>11. Above(act) = Heights'
  <2>1. FramesHeld(act) = 2 /\ OutsHeld(act) = 1 /\ StatesHeld(act) = 1
    BY <1>6 DEF FramesHeld, OutsHeld, StatesHeld
  <2> QED
    BY <1>6, <1>8, <1>9, <1>10, <2>1 DEF Above, Heights
<1>12. refs' \in Int
  BY <1>3 DEF RenderInline, IInv, TypeOK
<1> QED
  BY <1>7, <1>8, <1>9, <1>10, <1>11, <1>12 DEF IInv, TypeOK, RenderInline

LEMMA PartialStep == ASSUME IInv, RenderPartial PROVE IInv'
<1> DEFINE r   == Activation("partial", Stmt, job.partials[PartialName(Stmt)].body, compiled + 1)
           act == [r EXCEPT !.own = compiled + 1, !.refs = PartialRefs(Stmt)]
<1>1. status = "running" /\ Stmt \in Node /\ PartialName(Stmt) \in DOMAIN job.partials
  BY StmtFacts DEF RenderPartial
<1>2. /\ job.partials[PartialName(Stmt)].body \in Seq(Node)
      /\ compiled + 1 \in Nat /\ PartialRefs(Stmt) \in Nat
  BY <1>1, RegisteredTyped, PartialRefsNat DEF IInv, TypeOK
<1>3. IsActivation(r) /\ r.kind = "partial" /\ r.base = Heights /\ r.node = Stmt
  BY <1>1, <1>2, ActivationTyped DEF Kinds
<1>4. Enter(act)
  BY DEF RenderPartial
<1> HIDE DEF r
<1>5. IsActivation(act) /\ act.kind = "partial" /\ act.base = Heights /\ act.node = Stmt
  BY <1>2, <1>3 DEF IsActivation
<1> HIDE DEF act
<1>6. CallStack(ctl') /\ Nested(ctl', Above(act))
  BY <1>1, <1>4, <1>5, CtlEntered
<1>7. Chain(frames') /\ Len(frames') = Len(frames) + (IF NeedsFrame(Stmt) THEN 1 ELSE 0)
  <2>1. Len(frames) \in Nat
    BY <1>1, StateFacts DEF Base
  <2>2. Chain(frames)
    BY DEF IInv, TypeOK
  <2>3. frames' = IF NeedsFrame(Stmt) THEN Append(frames, NewFrame(PartialData(Stmt))) ELSE frames
    BY DEF RenderPartial
  <2> QED
    BY <2>1, <2>2, <2>3, FrameNew, ChainPush
<1>8. Stack(outs') /\ Len(outs') = Len(outs) + 1
  BY Push DEF RenderPartial, IInv, TypeOK
<1>9. Above(act) = Heights'
  <2>1. FramesHeld(act) = (IF NeedsFrame(Stmt) THEN 1 ELSE 0) /\ OutsHeld(act) = 1 /\ StatesHeld(act) = 0
    BY <1>5 DEF FramesHeld, OutsHeld, StatesHeld
  <2> QED
    BY <1>5, <1>7, <1>8, <2>1 DEF Above, Heights, RenderPartial
<1>10. refs' \in Int /\ compiled' \in Nat
  BY <1>2 DEF RenderPartial, IInv, TypeOK
<1> QED
  BY <1>6, <1>7, <1>8, <1>9, <1>10 DEF IInv, TypeOK, RenderPartial

LEMMA BlockFrameTyped ==
    ASSUME IInv, status = "running", NEW n \in Node PROVE IsFrame(BlockFrame(n))
<1> DEFINE b == [code |-> n.body, ctx |-> Frame.data, tmpl |-> Top.tmpl]
           f == BlockFrame(n)
<1>1. n.body \in Seq(Node) /\ Top.tmpl \in Nat
  BY NodeAssumption, StateFacts DEF IsActivation
<1>2. /\ DOMAIN f = {"data", "private", "params", "slots", "block", "inlines", "refs"}
      /\ f.slots = 0 /\ f.refs = 0 /\ f.block = <<b>> /\ f.inlines = <<>>
  BY DEF BlockFrame, NewFrame
<1>3. b.code \in Seq(Node) /\ b.tmpl \in Nat
  BY <1>1
<1> HIDE DEF b, f
<1>4. /\ Stack(f.block) /\ Len(f.block) = 1 /\ f.block[1] = b
      /\ Stack(f.inlines) /\ Len(f.inlines) = 0
  BY <1>2, SingleStack, EmptyStack
<1>5. \A i : (i \in 1..1 => i = 1) /\ i \notin 1..0
  OBVIOUS
<1>6. \A x \in {f.block[i] : i \in 1..Len(f.block)} \cup {f.inlines[i] : i \in 1..Len(f.inlines)} :
         x = b
  BY <1>4, <1>5
<1>7. IsFrame(f)
  BY <1>2, <1>3, <1>4, <1>6 DEF IsFrame
<1> QED
  BY <1>7 DEF f

LEMMA EnterPartialBlockStep ==
    ASSUME IInv, status = "running", Stmt \in Node,
           NEW act, IsActivation(act), act.kind = "pblock", act.base = Heights,
           EnterPartialBlock(act)
    PROVE  IInv'
<1>1. CallStack(ctl') /\ Nested(ctl', Above(act))
  BY CtlEntered DEF EnterPartialBlock
<1>2. IsFrame(BlockFrame(Stmt))
  BY BlockFrameTyped
<1>3. Chain(frames') /\ Len(frames') = Len(frames) + 1
  BY <1>2, ChainPush DEF EnterPartialBlock, IInv, TypeOK
<1>4. Above(act) = Heights'
  BY <1>3, AboveScope DEF EnterPartialBlock, Heights
<1>5. compiled' \in Nat
  BY DEF EnterPartialBlock, IInv, TypeOK
<1> QED
  BY <1>1, <1>3, <1>4, <1>5 DEF IInv, TypeOK, EnterPartialBlock

LEMMA PartialBlockStep == ASSUME IInv, RenderPartialBlock PROVE IInv'
<1> DEFINE name == NameOf(Stmt)
           found == InScope(frames, name)
           code == job.partials[name].body
           r   == Activation("pblock", Stmt, code, compiled + 1)
           act == [r EXCEPT !.own = compiled + 1]
<1>1. status = "running" /\ Stmt \in Node
  BY StmtFacts DEF RenderPartialBlock
<1>2. \/ \E ip \in found : EnterPartialBlock(Activation("pblock", Stmt, ip.code, ip.tmpl))
      \/ name \in DOMAIN job.partials /\ EnterPartialBlock(act)
      \/ EnterBlock(Stmt.body, 0)
  BY DEF RenderPartialBlock
<1>3. ASSUME NEW ip \in found, EnterPartialBlock(Activation("pblock", Stmt, ip.code, ip.tmpl))
      PROVE  IInv'
  <2> DEFINE a == Activation("pblock", Stmt, ip.code, ip.tmpl)
  <2>1. ip.code \in Seq(Node) /\ ip.tmpl \in Nat
    BY <1>3, InScopeTyped
  <2>2. IsActivation(a) /\ a.kind = "pblock" /\ a.base = Heights
    BY <1>1, <2>1, ActivationTyped DEF Kinds
  <2>3. EnterPartialBlock(a)
    BY <1>3
  <2> HIDE DEF a
  <2> QED
    BY <1>1, <2>2, <2>3, EnterPartialBlockStep
<1>4. ASSUME name \in DOMAIN job.partials, EnterPartialBlock(act) PROVE IInv'
  <2>1. code \in Seq(Node) /\ compiled + 1 \in Nat
    BY <1>4, RegisteredTyped DEF IInv, TypeOK
  <2>2. EnterPartialBlock(act)
    BY <1>4
  <2> HIDE DEF code
  <2>3. IsActivation(r) /\ r.kind = "pblock" /\ r.base = Heights
    BY <1>1, <2>1, ActivationTyped DEF Kinds
  <2> HIDE DEF r
  <2>4. IsActivation(act) /\ act.kind = "pblock" /\ act.base = Heights
    BY <2>1, <2>3 DEF IsActivation
  <2> HIDE DEF act
  <2> QED
    BY <1>1, <2>2, <2>4, EnterPartialBlockStep
<1>5. ASSUME EnterBlock(Stmt.body, 0) PROVE IInv'
  BY <1>1, <1>5, NodeAssumption, EnterBlockStep
<1> QED
  BY <1>2, <1>3, <1>4, <1>5

LEMMA RegisterStep == ASSUME IInv, RegisterInline PROVE IInv'
<1> DEFINE ip == [name |-> NameOf(Stmt), code |-> Stmt.body, tmpl |-> Top.tmpl]
           f  == [Frame EXCEPT !.inlines = <<ip>> \o Frame.inlines]
           n  == Len(frames)
<1>1. status = "running" /\ Stmt \in Node
  BY StmtFacts DEF RegisterInline
<1>2. CallStack(ctl') /\ Nested(ctl', Heights)
  BY <1>1, CtlAdvanced DEF RegisterInline
<1>3. ip.code \in Seq(Node) /\ ip.tmpl \in Nat
  BY <1>1, NodeAssumption, StateFacts DEF IsActivation
<1>4. IsFrame(Frame) /\ n \in 1..n
  BY <1>1, StateFacts
<1>5. frames' = [frames EXCEPT ![n] = f]
  BY DEF RegisterInline, Frame
<1> HIDE DEF ip
<1>6. IsFrame(f)
  <2> DEFINE old == Frame.inlines
             new == <<ip>> \o old
             S   == {old[i] : i \in DOMAIN old} \cup {ip}
  <2>1. old \in Seq(S) /\ <<ip>> \in Seq(S) /\ Len(old) \in Nat /\ Stack(old)
    BY <1>4, SeqMonotonic, Height DEF IsFrame, Stack
  <2>2. /\ new \in Seq(S) /\ Len(new) = 1 + Len(old)
    BY <2>1
  <2>3. \A i \in 1..Len(new) : new[i] \in S
    BY <2>2, ElementOfSeq
  <2>4. Stack(new)
    BY <2>2, SeqIsStack
  <2>5. \A x \in S : x.code \in Seq(Node) /\ x.tmpl \in Nat
    BY <1>3, <1>4, <2>1, Height DEF IsFrame
  <2>6. /\ DOMAIN f = DOMAIN Frame /\ f.slots = Frame.slots /\ f.refs = Frame.refs
        /\ f.block = Frame.block /\ f.inlines = new
    BY <1>4 DEF IsFrame
  <2> HIDE DEF new, S, f
  <2> QED
    BY <1>4, <2>3, <2>4, <2>5, <2>6 DEF IsFrame
<1> HIDE DEF f
<1>7. Stack(frames') /\ Len(frames') = Len(frames)
  <2>1. frames' = [i \in DOMAIN frames |-> frames'[i]]
    BY <1>5
  <2> QED
    BY <2>1, Replace DEF IInv, TypeOK, Chain
<1>8. \A i \in 1..Len(frames') : IsFrame(frames'[i])
  BY <1>5, <1>6, <1>7, Height DEF IInv, TypeOK, Chain
<1>9. Heights' = Heights
  BY <1>7 DEF Heights, RegisterInline
<1> QED
  BY <1>2, <1>7, <1>8, <1>9 DEF IInv, TypeOK, Chain, RegisterInline

(* Returns: what an activation held is exactly what is popped.             *)
LEMMA Below ==
    ASSUME IInv, status = "running"
    PROVE  /\ IsActivation(Top)
           /\ Len(frames) = Top.base.frames + FramesHeld(Top)
           /\ Len(outs) = Top.base.outs + OutsHeld(Top)
           /\ Len(errs) = Top.base.errs + StatesHeld(Top)
           /\ Top.base = [frames |-> Top.base.frames, outs |-> Top.base.outs, errs |-> Top.base.errs]
           /\ Top.base.frames \in Nat /\ Top.base.outs \in Nat /\ Top.base.errs \in Nat
           /\ Len(frames) # 0 /\ Len(outs) # 0 /\ Len(errs) # 0
           /\ Chain(frames) /\ Stack(outs) /\ errs \in Seq(BOOLEAN)
<1>1. IsActivation(Top) /\ Heights = Above(Top)
      /\ Len(frames) \in Base /\ Len(outs) \in Base /\ Len(errs) \in Base
  BY StateFacts
<1>2. Top.base \in [frames : Nat, outs : Nat, errs : Nat]
  BY <1>1 DEF IsActivation
<1> QED
  BY <1>1, <1>2 DEF Heights, Above, Base, IInv, TypeOK

(* The render state that ends takes its has_error with it.                 *)
LEMMA ErrsPopped ==
    ASSUME NEW s \in Seq(BOOLEAN), Len(s) # 0
    PROVE  Front(s) \in Seq(BOOLEAN) /\ Len(Front(s)) = Len(s) - 1
<1> DEFINE n == Len(s)
<1>1. n \in Nat /\ n # 0 /\ \A i \in 1..n : s[i] \in BOOLEAN
  BY LenProperties, ElementOfSeq
<1>2. Stack(s)
  BY SeqIsStack
<1>3. Len(Front(s)) = n - 1
  BY <1>2, Pop
<1> HIDE DEF n
<1>4. \A i \in 1..(n - 1) : s[i] \in BOOLEAN
  BY <1>1
<1>5. SubSeq(s, 1, n - 1) \in Seq(BOOLEAN)
  BY <1>1, <1>4, SubSeqProperties
<1> QED
  BY <1>3, <1>5 DEF Front, n

LEMMA ReturnHelperStep == ASSUME IInv, ReturnHelper PROVE IInv'
<1>1. status = "running" /\ Top.kind = "helper"
  BY DEF ReturnHelper, InHelper
<1>2. FramesHeld(Top) = 0 /\ OutsHeld(Top) = 1 /\ StatesHeld(Top) = 0
  BY <1>1 DEF FramesHeld, OutsHeld, StatesHeld
<1>3. CallStack(ctl') /\ Nested(ctl', Top.base)
  BY <1>1, CtlReturned DEF ReturnHelper
<1>4. Stack(outs') /\ Len(outs') = Len(outs) - 1
  BY <1>1, HandUpFacts DEF ReturnHelper
<1>5. Heights' = Top.base
  <2>1. /\ Len(frames') = Top.base.frames
        /\ Len(outs') = Top.base.outs
        /\ Len(errs') = Top.base.errs
    BY <1>1, <1>2, <1>4, Below DEF ReturnHelper
  <2> QED
    BY <1>1, <2>1, Below DEF Heights
<1>6. refs' \in Int
  BY <1>1, Below DEF ReturnHelper, IInv, TypeOK, IsActivation
<1> QED
  BY <1>3, <1>4, <1>5, <1>6 DEF IInv, TypeOK, ReturnHelper

LEMMA ReturnBlockStep == ASSUME IInv, ReturnBlock PROVE IInv'
<1>1. status = "running" /\ Top.kind = "block"
  BY DEF ReturnBlock, Running
<1>2. FramesHeld(Top) = 0 /\ OutsHeld(Top) = 0 /\ StatesHeld(Top) = 0
  BY <1>1 DEF FramesHeld, OutsHeld, StatesHeld
<1>3. CallStack(ctl') /\ Nested(ctl', Top.base)
  BY <1>1, CtlReturned DEF ReturnBlock
<1>4. Heights' = Top.base
  <2>1. /\ Len(frames') = Top.base.frames
        /\ Len(outs') = Top.base.outs
        /\ Len(errs') = Top.base.errs
    BY <1>1, <1>2, Below DEF ReturnBlock
  <2> QED
    BY <1>1, <2>1, Below DEF Heights
<1>5. refs' \in Int
  BY <1>1, Below DEF ReturnBlock, IInv, TypeOK, IsActivation
<1> QED
  BY <1>3, <1>4, <1>5 DEF IInv, TypeOK, ReturnBlock

LEMMA ReturnScopeStep == ASSUME IInv, ReturnScope PROVE IInv'
<1>1. status = "running" /\ Top.kind \in {"each", "with", "yield", "pblock"}
  BY DEF ReturnScope, Running
<1>2. FramesHeld(Top) = 1 /\ OutsHeld(Top) = 0 /\ StatesHeld(Top) = 0
  BY <1>1 DEF FramesHeld, OutsHeld, StatesHeld
<1>3. CallStack(ctl') /\ Nested(ctl', Top.base)
  BY <1>1, CtlReturned DEF ReturnScope
<1>4. Chain(frames') /\ Len(frames') = Len(frames) - 1
  BY <1>1, Below, ChainPop DEF ReturnScope
<1>5. Heights' = Top.base
  <2>1. /\ Len(frames') = Top.base.frames
        /\ Len(outs') = Top.base.outs
        /\ Len(errs') = Top.base.errs
    BY <1>1, <1>2, <1>4, Below DEF ReturnScope
  <2> QED
    BY <1>1, <2>1, Below DEF Heights
<1>6. refs' \in Int
  BY <1>1, Below, StateFacts DEF ReturnScope, IInv, TypeOK, IsActivation, IsFrame
<1> QED
  BY <1>3, <1>4, <1>5, <1>6 DEF IInv, TypeOK, ReturnScope

LEMMA ReturnPartialStep == ASSUME IInv, ReturnPartial PROVE IInv'
<1>1. status = "running" /\ Top.kind = "partial"
  BY DEF ReturnPartial, Running
<1>2. /\ FramesHeld(Top) = IF NeedsFrame(Top.node) THEN 1 ELSE 0
      /\ OutsHeld(Top) = 1 /\ StatesHeld(Top) = 0
  BY <1>1 DEF FramesHeld, OutsHeld, StatesHeld
<1>3. CallStack(ctl') /\ Nested(ctl', Top.base)
  BY <1>1, CtlReturned DEF ReturnPartial
<1>4. Chain(frames') /\ Len(frames') = Top.base.frames
  <2>1. frames' = IF NeedsFrame(Top.node) THEN Front(frames) ELSE frames
    BY DEF ReturnPartial
  <2>2. CASE NeedsFrame(Top.node)
    BY <1>1, <1>2, <2>1, <2>2, Below, ChainPop
  <2>3. CASE ~NeedsFrame(Top.node)
    BY <1>1, <1>2, <2>1, <2>3, Below
  <2> QED
    BY <2>2, <2>3
<1>5. Stack(outs') /\ Len(outs') = Len(outs) - 1
  BY <1>1, HandUpFacts DEF ReturnPartial
<1>6. Heights' = Top.base
  <2>1. /\ Len(frames') = Top.base.frames
        /\ Len(outs') = Top.base.outs
        /\ Len(errs') = Top.base.errs
    BY <1>1, <1>2, <1>4, <1>5, Below DEF ReturnPartial
  <2> QED
    BY <1>1, <2>1, Below DEF Heights
<1>7. refs' \in Int
  BY <1>1, Below DEF ReturnPartial, IInv, TypeOK, IsActivation
<1> QED
  BY <1>3, <1>4, <1>5, <1>6, <1>7 DEF IInv, TypeOK, ReturnPartial

LEMMA ReturnInlineStep == ASSUME IInv, ReturnInline PROVE IInv'
<1>1. status = "running" /\ Top.kind = "inline"
  BY DEF ReturnInline, Running
<1>2. FramesHeld(Top) = 2 /\ OutsHeld(Top) = 1 /\ StatesHeld(Top) = 1
  BY <1>1 DEF FramesHeld, OutsHeld, StatesHeld
<1>3. CallStack(ctl') /\ Nested(ctl', Top.base)
  BY <1>1, CtlReturned DEF ReturnInline
<1>4. Chain(frames') /\ Len(frames') = Len(frames) - 2
  <2>1. Chain(Front(frames)) /\ Len(Front(frames)) = Len(frames) - 1
    BY <1>1, Below, ChainPop
  <2>2. Len(Front(frames)) # 0
    <3>1. Top.base.frames # 0
      BY <1>3, HeightsPositive DEF CallStack, Base
    <3> QED
      BY <1>1, <1>2, <2>1, <3>1, Below
  <2>3. frames' = Front(Front(frames))
    BY DEF ReturnInline
  <2> QED
    BY <1>1, <1>2, <2>1, <2>2, <2>3, Below, ChainPop
<1>5. Stack(outs') /\ Len(outs') = Len(outs) - 1
  BY <1>1, HandUpFacts DEF ReturnInline
<1>6. errs' \in Seq(BOOLEAN) /\ Len(errs') = Len(errs) - 1
  BY <1>1, Below, ErrsPopped DEF ReturnInline
<1>7. Heights' = Top.base
  <2>1. /\ Len(frames') = Top.base.frames
        /\ Len(outs') = Top.base.outs
        /\ Len(errs') = Top.base.errs
    BY <1>1, <1>2, <1>4, <1>5, <1>6, Below
  <2> QED
    BY <1>1, <2>1, Below DEF Heights
<1>8. refs' \in Int
  BY <1>1, Below DEF ReturnInline, IInv, TypeOK, IsActivation
<1> QED
  BY <1>3, <1>4, <1>5, <1>6, <1>7, <1>8 DEF IInv, TypeOK, ReturnInline

LEMMA ReturnFnStep == ASSUME IInv, ReturnFn PROVE IInv'
<1>1. status = "running" /\ Top.kind = "fn"
  BY DEF ReturnFn, Running
<1>2. FramesHeld(Top) = 1 /\ OutsHeld(Top) = 1 /\ StatesHeld(Top) = 1
  BY <1>1 DEF FramesHeld, OutsHeld, StatesHeld
<1>3. CallStack(ctl') /\ Nested(ctl', Top.base)
  BY <1>1, CtlReturned DEF ReturnFn
<1>4. Chain(frames') /\ Len(frames') = Len(frames) - 1
  BY <1>1, Below, ChainPop DEF ReturnFn
<1>5. Stack(outs') /\ Len(outs') = Len(outs) - 1
  BY <1>1, HandUpFacts DEF ReturnFn
<1>6. errs' \in Seq(BOOLEAN) /\ Len(errs') = Len(errs) - 1
  BY <1>1, Below, ErrsPopped DEF ReturnFn
<1>7. Heights' = Top.base
  <2>1. /\ Len(frames') = Top.base.frames
        /\ Len(outs') = Top.base.outs
        /\ Len(errs') = Top.base.errs
    BY <1>1, <1>2, <1>4, <1>5, <1>6, Below
  <2> QED
    BY <1>1, <2>1, Below DEF Heights
<1> QED
  BY <1>3, <1>4, <1>5, <1>6, <1>7 DEF IInv, TypeOK, ReturnFn

(* After the outermost return there is nothing left to be nested.          *)
LEMMA ReturnRootStep == ASSUME IInv, ReturnRoot PROVE IInv'
<1>1. status = "running"
  BY DEF ReturnRoot, Running
<1>2. CallStack(ctl')
  <2>1. Stack(ctl) /\ Len(ctl) \in Nat /\ Len(ctl) # 0
    BY <1>1, StateFacts DEF IInv, TypeOK, CallStack
  <2>2. /\ Stack(ctl') /\ Len(ctl') = Len(ctl) - 1
        /\ \A k \in 1..(Len(ctl) - 1) : ctl'[k] = ctl[k]
    BY <2>1, Pop DEF ReturnRoot, Return
  <2> QED
    BY <2>1, <2>2 DEF IInv, TypeOK, CallStack
<1>3. Chain(frames')
  BY <1>1, Below, ChainPop DEF ReturnRoot
<1>4. Stack(outs')
  BY <1>1, Below, Pop DEF ReturnRoot
<1>5. errs' \in Seq(BOOLEAN)
  BY <1>1, Below, ErrsPopped DEF ReturnRoot
<1>6. refs' \in Int
  BY <1>1, Below, StateFacts DEF ReturnRoot, IInv, TypeOK, IsActivation, IsFrame
<1>7. status' \in {"ok", "error"}
  BY DEF ReturnRoot
<1> QED
  BY <1>2, <1>3, <1>4, <1>5, <1>6, <1>7 DEF IInv, TypeOK, ReturnRoot

LEMMA GoWrongStep == ASSUME IInv, GoWrong PROVE IInv'
<1>1. Nested(ctl, Heights)
  BY StateFacts DEF GoWrong, Running
<1>2. Heights' = Heights /\ ctl' = ctl
  BY DEF GoWrong, Heights
<1> QED
  BY <1>1, <1>2 DEF IInv, TypeOK, GoWrong

-----------------------------------------------------------------------------
(* The theorems.                                                           *)

LEMMA InitInvariant == Init => IInv
<1> SUFFICES ASSUME Init PROVE IInv
  OBVIOUS
<1> DEFINE a == [kind |-> "root", node |-> job.main, code |-> job.main.body, pc |-> 1, tmpl |-> 0,
                 own |-> 0, refs |-> 0, value |-> Null, iter |-> 1, calls |-> <<>>,
                 base |-> [frames |-> 0, outs |-> 0, errs |-> 0]]
           f == NewFrame(job.ctx)
<1>1. /\ job \in Job /\ ctl = <<a>> /\ frames = <<f>> /\ outs = << <<>> >> /\ errs = <<FALSE>>
      /\ compiled = 0 /\ refs = 0 /\ status = "running"
  BY DEF Init
<1>2. IsActivation(a) /\ a.kind = "root" /\ a.base = [frames |-> 0, outs |-> 0, errs |-> 0]
  BY <1>1, JobAssumption, NodeAssumption DEF IsActivation, Kinds
<1>3. IsFrame(f)
  BY FrameNew
<1> HIDE DEF a, f
<1>4. \A i : i \in 1..1 => i = 1
  OBVIOUS
<1>5. CallStack(ctl) /\ Chain(frames) /\ Stack(outs)
  BY <1>1, <1>2, <1>3, <1>4, SingleStack DEF CallStack, Chain
<1>6. errs \in Seq(BOOLEAN)
  BY <1>1
<1>7. /\ Len(ctl) = 1 /\ ctl[1] = a /\ Len(frames) = 1 /\ Len(outs) = 1 /\ Len(errs) = 1
  BY <1>1, SingleStack
<1>8. Above(a) = Heights
  BY <1>2, <1>7, HeldNat DEF Above, Heights
<1>9. Nested(ctl, Heights)
  BY <1>2, <1>7, <1>8 DEF Nested
<1> QED
  BY <1>1, <1>5, <1>6, <1>9 DEF IInv, TypeOK

LEMMA StatementStep == ASSUME IInv, Statement PROVE IInv'
<1>1. ASSUME NEW items, NEW kind, At(kind), Produce(items) PROVE IInv'
  BY <1>1, StmtFacts, ProduceStep
<1>2. CASE RenderText \/ RenderComment \/ RenderLookup \/ RenderLog \/ RenderValue
  BY <1>1, <1>2 DEF RenderText, RenderComment, RenderLookup, RenderLog, RenderValue
<1>3. CASE RenderRaw
  BY <1>1, <1>3 DEF RenderRaw
<1>4. CASE RenderNoPartial \/ RenderNamelessBlock
  BY <1>1, <1>4 DEF RenderNoPartial, RenderNamelessBlock
<1> QED
  BY <1>2, <1>3, <1>4, MissingStep, IfStep, WithStep, EachStep, UnknownStep, HelperStep,
     YieldStep, InlineStep, PartialStep, PartialBlockStep, RegisterStep, GoWrongStep
     DEF Statement

LEMMA ResumeStep == ASSUME IInv, Resume PROVE IInv'
BY NextItemStep, CallBackStep, ReturnHelperStep, ReturnBlockStep, ReturnScopeStep,
   ReturnPartialStep, ReturnInlineStep, ReturnFnStep, ReturnRootStep
   DEF Resume

(* IInv is inductive.                                                      *)
THEOREM Invariant == Spec => []IInv
<1>1. IInv /\ [Next]_vars => IInv'
  <2> SUFFICES ASSUME IInv, [Next]_vars PROVE IInv'
    OBVIOUS
  <2>1. CASE Next
    BY <2>1, StatementStep, ResumeStep DEF Next
  <2>2. CASE UNCHANGED vars
    BY <2>2 DEF vars, IInv, TypeOK, Heights
  <2> QED
    BY <2>1, <2>2
<1> QED
  BY InitInvariant, <1>1, PTL DEF Spec

(* In every call of hbs_render, for all templates, contexts, partials and  *)
(* helpers, the state of the renderer stays well typed: in particular a    *)
(* render_* function only ever runs code that belongs to the AST.          *)
THEOREM Typed == Spec => []TypeOK
<1>1. IInv => TypeOK
  BY DEF IInv
<1> QED
  BY Invariant, <1>1, PTL

(* In every call of hbs_render the frames, output buffers and render       *)
(* states in existence are exactly those of the calls in progress.         *)
THEOREM Disciplined == Spec => []StackDiscipline
<1>1. IInv => StackDiscipline
  BY DEF IInv, TypeOK, CallStack, Nested, StackDiscipline, Top
<1> QED
  BY Invariant, <1>1, PTL

-----------------------------------------------------------------------------
(* The invariant: only the innermost render state may have failed, and not *)
(* while a user's helper is in control.  It holds because what a helper is *)
(* called back with has a render state of its own.                         *)
Contained(c, e) ==
    /\ \A i \in 1..(Len(e) - 1) : ~e[i]
    /\ \A k \in 1..(Len(c) - 1) : c[k].kind = "helper" => c[k + 1].kind = "fn"
    /\ c[Len(c)].kind = "helper" => ~e[Len(e)]

FInv == status = "running" => Contained(ctl, errs)

Failed == errs[Len(errs)]

-----------------------------------------------------------------------------
(* What the changes of the calls and of the flags keep.                    *)
LEMMA KindsKept ==   \* the same calls
    ASSUME NEW c, Stack(c), Len(c) # 0, NEW e, Contained(c, e),
           NEW d, Len(d) = Len(c), \A k \in 1..Len(c) : d[k].kind = c[k].kind
    PROVE  Contained(d, e)
<1> DEFINE n == Len(c)
<1>1. n \in Nat /\ n # 0 /\ Len(d) = n
  BY Height
<1> HIDE DEF n
<1>2. n \in 1..n /\ \A k \in 1..(n - 1) : k \in 1..n /\ k + 1 \in 1..n
  BY <1>1
<1>3. \A k \in 1..n : d[k].kind = c[k].kind
  BY DEF n
<1>4. /\ \A k \in 1..(n - 1) : c[k].kind = "helper" => c[k + 1].kind = "fn"
      /\ c[n].kind = "helper" => ~e[Len(e)]
  BY DEF Contained, n
<1> QED
  BY <1>1, <1>2, <1>3, <1>4 DEF Contained

LEMMA CallPushed ==   \* a call, perhaps with a render state of its own
    ASSUME NEW c, Stack(c), Len(c) # 0, NEW e, Stack(e), Len(e) # 0, Contained(c, e), ~e[Len(e)],
           NEW d, Len(d) = Len(c) + 1, \A k \in 1..Len(c) : d[k].kind = c[k].kind,
           c[Len(c)].kind = "helper" => d[Len(d)].kind = "fn",
           NEW f, f = e \/ f = Append(e, FALSE)
    PROVE  Contained(d, f)
<1> DEFINE n == Len(c)
           m == Len(e)
<1>1. n \in Nat /\ n # 0 /\ m \in Nat /\ m # 0 /\ Len(d) = n + 1
  BY Height
<1>2. \/ Len(f) = m /\ \A i \in 1..m : f[i] = e[i]
      \/ Len(f) = m + 1 /\ f[m + 1] = FALSE /\ \A i \in 1..m : f[i] = e[i]
  <2> DEFINE g == Append(e, FALSE)
  <2>1. Len(g) = m + 1 /\ g[m + 1] = FALSE /\ \A i \in 1..m : g[i] = e[i]
    BY Push
  <2>2. f = e \/ f = g
    OBVIOUS
  <2> HIDE DEF g, m
  <2>3. CASE f = g
    BY <2>1, <2>3
  <2>4. CASE f = e
    BY <2>4 DEF m
  <2> QED
    BY <2>2, <2>3, <2>4
<1>3. /\ \A k \in 1..(n - 1) : c[k].kind = "helper" => c[k + 1].kind = "fn"
      /\ \A i \in 1..(m - 1) : ~e[i]
      /\ ~e[m]
  BY DEF Contained
<1>4. \A k \in 1..n : d[k].kind = c[k].kind
  OBVIOUS
<1>5. c[n].kind = "helper" => d[n + 1].kind = "fn"
  BY <1>1
<1> HIDE DEF n, m
<1>6. \A i \in 1..m : ~e[i]
  <2>1. \A i \in 1..m : i = m \/ i \in 1..(m - 1)
    BY <1>1
  <2> QED
    BY <1>3, <2>1
<1>7. ~f[Len(f)] /\ \A i \in 1..(Len(f) - 1) : ~f[i]
  <2>1. CASE Len(f) = m /\ \A i \in 1..m : f[i] = e[i]
    <3>1. m \in 1..m /\ \A i \in 1..(m - 1) : i \in 1..m
      BY <1>1
    <3> QED
      BY <1>6, <2>1, <3>1
  <2>2. CASE Len(f) = m + 1 /\ f[m + 1] = FALSE /\ \A i \in 1..m : f[i] = e[i]
    <3>1. (m + 1) - 1 = m
      BY <1>1
    <3> QED
      BY <1>6, <2>2, <3>1
  <2> QED
    BY <1>2, <2>1, <2>2
<1>8. ASSUME NEW k \in 1..n, d[k].kind = "helper"
      PROVE  d[k + 1].kind = "fn"
  <2>1. CASE k = n
    BY <1>1, <1>4, <1>5, <1>8, <2>1
  <2>2. CASE k # n
    <3>1. k \in 1..(n - 1) /\ k + 1 \in 1..n
      BY <1>1, <2>2
    <3> QED
      BY <1>3, <1>4, <1>8, <3>1
  <2> QED
    BY <2>1, <2>2
<1>9. (n + 1) - 1 = n
  BY <1>1
<1> QED
  BY <1>1, <1>7, <1>8, <1>9 DEF Contained

LEMMA CallPopped ==   \* a return, perhaps of a render state as well
    ASSUME NEW c, Stack(c), Len(c) > 1, NEW e, Stack(e), Len(e) # 0, Contained(c, e),
           NEW d, Len(d) = Len(c) - 1, \A k \in 1..(Len(c) - 1) : d[k] = c[k],
           NEW f, \/ f = Front(e) /\ Len(e) > 1
                  \/ f = e /\ (c[Len(c)].kind # "fn" \/ ~e[Len(e)])
    PROVE  Contained(d, f)
<1> DEFINE n == Len(c)
           m == Len(e)
<1>1. n \in Nat /\ n > 1 /\ m \in Nat /\ m # 0 /\ Len(d) = n - 1
  BY Height
<1>2. /\ \A k \in 1..(n - 1) : c[k].kind = "helper" => c[k + 1].kind = "fn"
      /\ \A i \in 1..(m - 1) : ~e[i]
  BY DEF Contained
<1>3. \A k \in 1..(n - 1) : d[k] = c[k]
  OBVIOUS
<1>4. \/ m > 1 /\ Len(f) = m - 1 /\ \A i \in 1..(m - 1) : f[i] = e[i]
      \/ f = e /\ (c[n].kind # "fn" \/ ~e[m])
  BY Pop
<1> HIDE DEF n, m
<1>5. \A k \in 1..(n - 1 - 1) : k \in 1..(n - 1) /\ k + 1 \in 1..(n - 1)
  BY <1>1
<1>6. \A k \in 1..(n - 1 - 1) : d[k].kind = "helper" => d[k + 1].kind = "fn"
  BY <1>2, <1>3, <1>5
<1>7. n - 1 \in 1..(n - 1) /\ (n - 1) + 1 = n
  BY <1>1
<1>8. d[n - 1].kind = "helper" => c[n].kind = "fn"
  BY <1>2, <1>3, <1>7
<1>9. CASE m > 1 /\ Len(f) = m - 1 /\ \A i \in 1..(m - 1) : f[i] = e[i]
  <2>1. m - 1 \in 1..(m - 1) /\ \A i \in 1..(m - 1 - 1) : i \in 1..(m - 1)
    BY <1>1, <1>9
  <2> QED
    BY <1>1, <1>2, <1>6, <1>9, <2>1 DEF Contained
<1>10. CASE f = e /\ (c[n].kind # "fn" \/ ~e[m])
  BY <1>1, <1>2, <1>6, <1>8, <1>10 DEF Contained, m
<1> QED
  BY <1>4, <1>9, <1>10

-----------------------------------------------------------------------------
(* The steps, by what they do to the calls and the flags.                  *)
LEMMA Facts ==
    ASSUME IInv, status = "running"
    PROVE  /\ Stack(ctl) /\ Len(ctl) # 0 /\ Stack(errs) /\ Len(errs) # 0
           /\ Top.kind # "root" => Len(ctl) > 1
           /\ Len(ctl) \in Nat /\ Len(errs) \in Nat
           /\ Top.base \in [frames : Nat, outs : Nat, errs : Nat]
           /\ Len(errs) = Top.base.errs + StatesHeld(Top)
           /\ Top.kind # "root" => Top.base.errs # 0
<1>1. Stack(ctl) /\ Stack(errs) /\ Nested(ctl, Heights) /\ Heights = Above(Top)
  BY StateFacts, SeqIsStack DEF IInv, TypeOK, CallStack
<1>2. Len(ctl) \in Nat /\ Len(ctl) # 0 /\ Len(errs) \in Nat /\ Len(errs) # 0
  BY StateFacts DEF Base
<1>3. ASSUME Top.kind # "root" PROVE Len(ctl) > 1
  <2> DEFINE n == Len(ctl)
  <2>1. n # 1
    BY <1>1, <1>3 DEF Nested, Top
  <2>2. n \in Nat /\ n # 0
    BY <1>2
  <2> HIDE DEF n
  <2>3. n > 1
    BY <2>1, <2>2
  <2> QED
    BY <2>3 DEF n
<1>4. Top.base \in [frames : Nat, outs : Nat, errs : Nat]
  BY StateFacts DEF IsActivation
<1>5. Len(errs) = Top.base.errs + StatesHeld(Top)
  BY <1>1 DEF Heights, Above
<1>6. ASSUME Top.kind # "root" PROVE Top.base.errs # 0
  <2> DEFINE n == Len(ctl)
  <2>1. n \in 2..n
    <3>1. n \in Nat /\ n > 1
      BY <1>2, <1>3, <1>6
    <3> HIDE DEF n
    <3> QED
      BY <3>1
  <2>2. ctl[n].base \in [frames : Base, outs : Base, errs : Base]
    BY <1>1, <2>1 DEF Nested
  <2> QED
    BY <2>2 DEF Top, Base
<1> QED
  BY <1>1, <1>2, <1>3, <1>4, <1>5, <1>6

LEMMA Quiet ==
    ASSUME IInv, FInv, status = "running", ctl' = Advanced, errs' = errs
    PROVE  FInv'
<1>1. Len(ctl') = Len(ctl) /\ \A k \in 1..Len(ctl) : ctl'[k].kind = ctl[k].kind
  BY AdvancedFacts DEF Alike
<1>2. Contained(ctl', errs)
  BY <1>1, Facts, KindsKept DEF FInv
<1> QED
  BY <1>2 DEF FInv

LEMMA Entering ==
    ASSUME IInv, FInv, status = "running", Top.kind # "helper", ~Failed,
           NEW act, Enter(act), errs' = errs \/ errs' = Append(errs, FALSE)
    PROVE  FInv'
<1>1. /\ Stack(Advanced) /\ Len(Advanced) = Len(ctl)
      /\ \A k \in 1..Len(ctl) : Advanced[k].kind = ctl[k].kind
  BY AdvancedFacts DEF Alike
<1>2. Len(ctl') = Len(ctl) + 1 /\ \A k \in 1..Len(ctl) : ctl'[k].kind = ctl[k].kind
  BY <1>1, Push DEF Enter
<1>3. Contained(ctl', errs')
  BY <1>2, Facts, CallPushed DEF FInv, Failed, Top
<1> QED
  BY <1>3 DEF FInv

LEMMA Returning ==
    ASSUME IInv, FInv, status = "running", Top.kind # "root", Return,
           \/ errs' = errs /\ (Top.kind # "fn" \/ ~Failed)
           \/ errs' = Front(errs) /\ Top.kind \in {"inline", "fn"}
    PROVE  FInv'
<1>1. /\ Stack(ctl) /\ Len(ctl) > 1 /\ Stack(errs) /\ Len(errs) # 0 /\ Contained(ctl, errs)
  BY Facts DEF FInv
<1>2. Len(ctl') = Len(ctl) - 1 /\ \A k \in 1..(Len(ctl) - 1) : ctl'[k] = ctl[k]
  BY <1>1, Facts, Pop DEF Return
<1>3. ASSUME Top.kind \in {"inline", "fn"} PROVE Len(errs) > 1
  <2>1. StatesHeld(Top) = 1
    BY <1>3 DEF StatesHeld
  <2> QED
    BY <1>3, <2>1, Facts
<1>4. Contained(ctl', errs')
  BY <1>1, <1>2, <1>3, CallPopped DEF Top, Failed
<1> QED
  BY <1>4 DEF FInv

(* A statement is rendered in a state that has not failed.                 *)
StatementEffect ==
    \/ ctl' = Advanced /\ errs' = errs
    \/ RenderMissing
    \/ \E act : Enter(act) /\ (errs' = errs \/ errs' = Append(errs, FALSE))
    \/ ctl' = ctl /\ status' = "undefined"

LEMMA StatementFacts ==
    ASSUME IInv, Statement
    PROVE  status = "running" /\ Top.kind # "helper" /\ ~Failed /\ StatementEffect
<1>1. ASSUME NEW kind, At(kind) PROVE status = "running" /\ Top.kind # "helper" /\ ~Failed
  BY <1>1, StmtFacts DEF At, Running, Failed
<1>2. CASE GoWrong
  <2>1. status = "running" /\ Top.kind # "helper" /\ ~Finished
    BY <1>2 DEF GoWrong, Running
  <2>2. Failed \in BOOLEAN
    BY <2>1, StateFacts DEF Failed
  <2> QED
    BY <1>2, <2>1, <2>2 DEF GoWrong, Finished, StatementEffect, Failed
<1>3. ASSUME NEW items, Produce(items) PROVE StatementEffect
  BY <1>3 DEF Produce, StatementEffect
<1>4. ASSUME NEW code, NEW owned, EnterBlock(code, owned) PROVE StatementEffect
  BY <1>4 DEF EnterBlock, StatementEffect
<1>5. ASSUME NEW kind, NEW value, NEW frame, EnterScope(kind, value, frame) PROVE StatementEffect
  BY <1>5 DEF EnterScope, StatementEffect
<1>6. ASSUME NEW act, EnterPartialBlock(act) PROVE StatementEffect
  BY <1>6 DEF EnterPartialBlock, StatementEffect
<1>7. CASE RenderText \/ RenderComment \/ RenderLookup \/ RenderLog \/ RenderValue
  BY <1>1, <1>3, <1>7 DEF RenderText, RenderComment, RenderLookup, RenderLog, RenderValue
<1>8. CASE RenderRaw \/ RenderNoPartial \/ RenderNamelessBlock
  BY <1>1, <1>3, <1>8 DEF RenderRaw, RenderNoPartial, RenderNamelessBlock
<1>9. CASE RenderMissing
  BY <1>1, <1>9 DEF RenderMissing, StatementEffect
<1>10. CASE RenderIf
  BY <1>1, <1>4, <1>10 DEF RenderIf
<1>11. CASE RenderWith
  BY <1>1, <1>4, <1>5, <1>11 DEF RenderWith
<1>12. CASE RenderEach
  BY <1>1, <1>3, <1>4, <1>5, <1>12 DEF RenderEach
<1>13. CASE RenderUnknown
  BY <1>1, <1>3, <1>4, <1>13 DEF RenderUnknown
<1>14. CASE RenderHelper
  BY <1>1, <1>14 DEF RenderHelper, StatementEffect
<1>15. CASE RenderYield
  BY <1>1, <1>15 DEF RenderYield, StatementEffect
<1>16. CASE RenderInline
  BY <1>1, <1>16 DEF RenderInline, StatementEffect
<1>17. CASE RenderPartial
  BY <1>1, <1>17 DEF RenderPartial, StatementEffect
<1>18. CASE RenderPartialBlock
  BY <1>1, <1>4, <1>6, <1>18 DEF RenderPartialBlock
<1>19. CASE RegisterInline
  BY <1>1, <1>19 DEF RegisterInline, StatementEffect
<1> QED
  BY <1>2, <1>7, <1>8, <1>9, <1>10, <1>11, <1>12, <1>13, <1>14, <1>15, <1>16, <1>17, <1>18, <1>19
     DEF Statement

(* A failure: of the innermost state, while no helper is in control.       *)
LEMMA Failing ==
    ASSUME IInv, FInv, RenderMissing, status = "running", Top.kind # "helper"
    PROVE  FInv'
<1> DEFINE n == Len(ctl)
           m == Len(errs)
           f == [errs EXCEPT ![m] = TRUE]
<1>1. n \in Nat /\ n # 0 /\ m \in Nat /\ m # 0 /\ Contained(ctl, errs)
  BY Facts DEF FInv
<1>2. ctl' = Advanced /\ errs' = f /\ status' = "running"
  BY DEF RenderMissing
<1>3. Len(ctl') = n /\ \A k \in 1..n : ctl'[k].kind = ctl[k].kind
  BY <1>2, AdvancedFacts DEF Alike
<1>4. DOMAIN errs = 1..m /\ Stack(errs)
  BY Facts, Height
<1>5. Len(f) = m
  <2>1. f = [i \in DOMAIN errs |-> f[i]]
    OBVIOUS
  <2> QED
    BY <1>4, <2>1, Replace
<1>6. \A i \in 1..(m - 1) : f[i] = errs[i]
  <2> HIDE DEF m
  <2>1. \A i \in 1..(m - 1) : i \in 1..m /\ i # m
    BY <1>1
  <2> QED
    BY <1>4, <2>1
<1>7. /\ \A i \in 1..(m - 1) : ~errs[i]
      /\ \A k \in 1..(n - 1) : ctl[k].kind = "helper" => ctl[k + 1].kind = "fn"
      /\ ctl[n].kind # "helper"
  BY <1>1 DEF Contained, Top
<1> HIDE DEF n, m, f
<1>8. n \in 1..n /\ \A k \in 1..(n - 1) : k \in 1..n /\ k + 1 \in 1..n
  BY <1>1
<1>9. Contained(ctl', f)
  BY <1>3, <1>5, <1>6, <1>7, <1>8 DEF Contained
<1> QED
  BY <1>2, <1>9 DEF FInv

-----------------------------------------------------------------------------
(* FInv is inductive, given IInv.                                          *)

LEMMA InitContained == Init => FInv
<1> SUFFICES ASSUME Init PROVE FInv
  OBVIOUS
<1>1. Len(ctl) = 1 /\ ctl[1].kind = "root" /\ Len(errs) = 1 /\ errs[1] = FALSE
  BY SingleStack DEF Init
<1>2. \A i : i \notin 1..(1 - 1)
  OBVIOUS
<1> QED
  BY <1>1, <1>2 DEF FInv, Contained

LEMMA StatementContained == ASSUME IInv, FInv, Statement PROVE FInv'
<1>1. status = "running" /\ Top.kind # "helper" /\ ~Failed /\ StatementEffect
  BY StatementFacts
<1>2. CASE ctl' = Advanced /\ errs' = errs
  BY <1>1, <1>2, Quiet
<1>3. CASE RenderMissing
  BY <1>1, <1>3, Failing
<1>4. CASE \E act : Enter(act) /\ (errs' = errs \/ errs' = Append(errs, FALSE))
  BY <1>1, <1>4, Entering
<1>5. CASE ctl' = ctl /\ status' = "undefined"
  BY <1>5 DEF FInv
<1> QED
  BY <1>1, <1>2, <1>3, <1>4, <1>5 DEF StatementEffect

LEMMA NextItemFacts ==
    ASSUME IInv, NextItem
    PROVE  /\ status = "running" /\ errs' = errs
           /\ Len(ctl') = Len(ctl) /\ \A k \in 1..Len(ctl) : ctl'[k].kind = ctl[k].kind
<1>1. status = "running" /\ errs' = errs
  BY DEF NextItem, Running
<1> DEFINE n == Len(ctl)
           mid == [ctl EXCEPT ![n].iter = @ + 1]
           new == [mid EXCEPT ![n].pc = 1]
<1>2. ctl' = new
  BY DEF NextItem
<1>3. Stack(ctl) /\ DOMAIN ctl = 1..n /\ IsActivation(Top) /\ n \in 1..n
  BY <1>1, StateFacts, Height DEF IInv, TypeOK, CallStack
<1>4. DOMAIN Top = {"kind", "node", "code", "pc", "tmpl", "own", "refs",
                    "value", "iter", "calls", "base"}
  BY <1>3 DEF IsActivation
<1>5. \A k \in 1..n : new[k].kind = ctl[k].kind
  BY <1>3, <1>4 DEF Top
<1>6. Len(new) = n
  <2>1. new = [k \in DOMAIN ctl |-> new[k]]
    OBVIOUS
  <2> HIDE DEF new
  <2> QED
    BY <1>3, <2>1, Replace
<1> QED
  BY <1>1, <1>2, <1>5, <1>6

LEMMA CallBackFacts ==
    ASSUME IInv, CallBack
    PROVE  /\ status = "running" /\ errs' = Append(errs, FALSE)
           /\ Top.kind = "helper"
           /\ Len(ctl') = Len(ctl) + 1 /\ \A k \in 1..Len(ctl) : ctl'[k].kind = ctl[k].kind
           /\ ctl'[Len(ctl')].kind = "fn"
<1>1. status = "running" /\ errs' = Append(errs, FALSE) /\ Top.kind = "helper"
  BY DEF CallBack, InHelper
<1> DEFINE n == Len(ctl)
           mid == [ctl EXCEPT ![n].calls = Tail(@)]
<1>2. PICK act : ctl' = Append(mid, act) /\ act.kind = "fn"
  BY DEF CallBack, Activation
<1>3. Stack(ctl) /\ DOMAIN ctl = 1..n /\ IsActivation(Top) /\ n \in 1..n
  BY <1>1, StateFacts, Height DEF IInv, TypeOK, CallStack
<1>4. DOMAIN Top = {"kind", "node", "code", "pc", "tmpl", "own", "refs",
                    "value", "iter", "calls", "base"}
  BY <1>3 DEF IsActivation
<1>5. \A k \in 1..n : mid[k].kind = ctl[k].kind
  BY <1>3, <1>4 DEF Top
<1>6. Stack(mid) /\ Len(mid) = n
  <2>1. mid = [k \in DOMAIN ctl |-> mid[k]]
    OBVIOUS
  <2> HIDE DEF mid
  <2> QED
    BY <1>3, <2>1, Replace
<1> HIDE DEF mid
<1>7. /\ Len(ctl') = n + 1 /\ ctl'[n + 1] = act
      /\ \A k \in 1..n : ctl'[k] = mid[k]
  BY <1>2, <1>6, Push
<1> QED
  BY <1>1, <1>2, <1>5, <1>7

LEMMA ResumeContained == ASSUME IInv, FInv, Resume PROVE FInv'
<1>1. CASE NextItem
  BY <1>1, NextItemFacts, Facts, KindsKept DEF FInv
<1>2. CASE CallBack
  <2>1. status = "running" /\ Contained(ctl, errs) /\ ~errs[Len(errs)]
    BY <1>2, CallBackFacts DEF FInv, Contained, Top
  <2>2. Contained(ctl', errs')
    BY <1>2, <2>1, CallBackFacts, Facts, CallPushed
  <2> QED
    BY <2>2 DEF FInv
<1>3. CASE ReturnHelper
  BY <1>3, Returning DEF ReturnHelper, InHelper
<1>4. CASE ReturnBlock \/ ReturnScope \/ ReturnPartial
  BY <1>4, Returning DEF ReturnBlock, ReturnScope, ReturnPartial, Running
<1>5. CASE ReturnInline \/ ReturnFn
  BY <1>5, Returning DEF ReturnInline, ReturnFn, Running
<1>6. CASE ReturnRoot
  BY <1>6 DEF ReturnRoot, FInv
<1> QED
  BY <1>1, <1>2, <1>3, <1>4, <1>5, <1>6 DEF Resume

(* A step of a failed render state.                                        *)
LEMMA FailedStep ==
    ASSUME IInv, FInv, Failed, status = "running", Next
    PROVE  Len(ctl') <= Len(ctl) /\ compiled' = compiled
<1>1. Resume
  BY StatementFacts DEF Next
<1>2. Stack(ctl) /\ Len(ctl) \in Nat /\ Len(ctl) # 0
  BY Facts
<1>3. Top.kind # "helper"
  BY DEF FInv, Contained, Failed, Top
<1>4. CASE NextItem
  <2>1. compiled' = compiled
    BY <1>4 DEF NextItem
  <2> QED
    BY <1>2, <1>4, <2>1, NextItemFacts
<1>5. ~CallBack /\ ~ReturnHelper
  BY <1>3 DEF CallBack, ReturnHelper, InHelper
<1>6. CASE \/ ReturnBlock \/ ReturnScope \/ ReturnPartial
           \/ ReturnInline \/ ReturnFn \/ ReturnRoot
  <2>1. Return /\ compiled' = compiled
    BY <1>6 DEF ReturnBlock, ReturnScope, ReturnPartial, ReturnInline, ReturnFn, ReturnRoot
  <2>2. Len(ctl') = Len(ctl) - 1
    BY <1>2, <2>1, Pop DEF Return
  <2> QED
    BY <1>2, <2>1, <2>2
<1> QED
  BY <1>1, <1>4, <1>5, <1>6 DEF Resume

(* In every call of hbs_render, for all templates, contexts, partials and  *)
(* helpers: once strict mode has made a render state fail, no function is  *)
(* called and no partial compiled until that state has returned.           *)
THEOREM Stops == Spec => FailureStops
<1>1. IInv /\ FInv /\ [Next]_vars => FInv'
  <2> SUFFICES ASSUME IInv, FInv, [Next]_vars PROVE FInv'
    OBVIOUS
  <2>1. CASE Next
    BY <2>1, StatementContained, ResumeContained DEF Next
  <2>2. CASE UNCHANGED vars
    BY <2>2 DEF vars, FInv
  <2> QED
    BY <2>1, <2>2
<1>2. IInv /\ FInv /\ [Next]_vars
        => [errs # <<>> /\ errs[Len(errs)] => Len(ctl') <= Len(ctl) /\ compiled' = compiled]_vars
  <2> SUFFICES ASSUME IInv, FInv, Next, errs # <<>>, Failed
               PROVE  Len(ctl') <= Len(ctl) /\ compiled' = compiled
    BY DEF Failed
  <2>1. status = "running"
    <3>1. Resume => status = "running"
      BY DEF Resume, NextItem, CallBack, ReturnHelper, ReturnBlock, ReturnScope, ReturnPartial,
             ReturnInline, ReturnFn, ReturnRoot, Running, InHelper
    <3> QED
      BY <3>1, StatementFacts DEF Next
  <2> QED
    BY <2>1, FailedStep
<1> QED
  BY Invariant, InitContained, <1>1, <1>2, PTL DEF Spec, FailureStops

=============================================================================
