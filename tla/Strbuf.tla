------------------------------- MODULE Strbuf -------------------------------
(***************************************************************************)
(* The string buffers of a render (src/utils.c, and their use in           *)
(* src/render.c): each output that is being written has a buffer; a        *)
(* partial, a helper's block, an escaped value and an indented partial     *)
(* have one of their own, whose text is detached and appended to the one   *)
(* below.  The loop that grows a buffer is one step per doubling.          *)
(*                                                                         *)
(* Memory is a set of blocks with their sizes.  realloc may keep the       *)
(* block: the model always does.  malloc does not fail here, and sizes do  *)
(* not wrap: size_t is far larger than memory.                             *)
(***************************************************************************)
EXTENDS SequencesExt, Integers

CONSTANTS
    INITIAL_CAP,   \* bytes of a new buffer
    Chars,         \* what a text is made of; a newline is "nl"
    Entity,        \* the sequence that &, <, ... is written as, by character
    Margin,        \* node->partial.indent
    Texts,         \* texts and values that are written
    Block, NULL,   \* blocks of memory; no block
    MaxOutput      \* bound on the text of one buffer

ASSUME CapAssumption == INITIAL_CAP \in Nat \ {0}
ASSUME BlockAssumption == Block # {} /\ NULL \notin Block
ASSUME TextsAssumption == Texts \subseteq Seq(Chars) /\ Margin \in Seq(Chars)
ASSUME EntityAssumption == DOMAIN Entity \subseteq Chars /\ \A c \in DOMAIN Entity : Entity[c] \in Seq(Chars)

(* A character is written as &, a name that no other has, and a semicolon; *)
(* & is one of them.                                                       *)
ASSUME EntityShape ==
    /\ "&" \in DOMAIN Entity
    /\ \A c \in DOMAIN Entity : \E name \in Chars \ {"&"}, end \in Chars \ {"&"} :
           /\ Entity[c] = <<"&", name, end>>
           /\ \A d \in DOMAIN Entity : Entity[d][2] = name => d = c

VARIABLES
    buffers,   \* the buffers that are being written, innermost last; of is a
               \* history variable: the value that is escaped
    held,      \* strings that were detached and are not freed yet, newest last
    heap,      \* allocated blocks, with their sizes
    adding,    \* hbs_strbuf_append's argument while it runs: empty or << text >>
    todo,      \* what hbs_html_escape, or the indenting of a partial, still reads
    status     \* "rendering", "returned" or "failed"

vars == <<buffers, held, heap, adding, todo, status>>

Uses == {"render", "partial", "block", "escape", "indented"}

Top      == buffers[Len(buffers)]
InUse(uses) == status = "rendering" /\ buffers # <<>> /\ adding = <<>> /\ Top.use \in uses
Writable == Top.block # NULL

-----------------------------------------------------------------------------
(* hbs_strbuf_init, detach and free.                                       *)
Malloc == CHOOSE b \in Block : b \notin DOMAIN heap
CanAllocate == Block \ DOMAIN heap # {}
With(b, size) == [x \in DOMAIN heap \cup {b} |-> IF x = b THEN size ELSE heap[x]]
Without(bs)   == [x \in DOMAIN heap \ bs |-> heap[x]]

Buffer(use, of, block) == [use |-> use, of |-> of, block |-> block, cap |-> INITIAL_CAP, data |-> <<>>]

Enter(use, of) ==
    /\ CanAllocate
    /\ buffers' = Append(buffers, Buffer(use, of, Malloc))
    /\ heap' = With(Malloc, INITIAL_CAP)

Set(buf) == [buffers EXCEPT ![Len(buffers)] = buf]

(* The string is the caller's; nothing is left in the buffer.              *)
Detached(buf) == [buf EXCEPT !.block = NULL, !.cap = 0, !.data = <<>>]
String(buf)   == [use |-> buf.use, of |-> buf.of, block |-> buf.block, data |-> buf.data]

-----------------------------------------------------------------------------
(* hbs_strbuf_append, of n bytes: room is made, then the text is copied    *)
(* with a NUL after it.                                                    *)
FitsSlip(buf, n) == Len(buf.data) + n <= buf.cap   \* Slip: no room for the NUL.

Fits(buf, n) == Len(buf.data) + n + 1 <= buf.cap

Grow ==
    /\ adding # <<>> /\ ~Fits(Top, Len(adding[1]))
    /\ buffers' = Set([Top EXCEPT !.cap = 2 * @])
    /\ UNCHANGED <<held, heap, adding, todo, status>>

(* The strings that were detached for this append are freed after it.      *)
FreedSlip == IF held = <<>> THEN {} ELSE {Last(held).block}   \* Slip: only the last one.

Freed == {held[i].block : i \in 1..Len(held)}

Copy ==
    /\ adding # <<>> /\ Fits(Top, Len(adding[1]))
    /\ buffers' = Set([Top EXCEPT !.data = @ \o adding[1]])
    /\ heap' = [x \in DOMAIN heap \ (IF Top.use = "indented" THEN {} ELSE Freed) |->
                   IF x = Top.block THEN Top.cap ELSE heap[x]]
    /\ held' = IF Top.use = "indented" THEN held ELSE <<>>
    /\ adding' = <<>>
    /\ UNCHANGED <<todo, status>>

-----------------------------------------------------------------------------
(* What a render writes: texts; partials (the output is saved, a new one   *)
(* begun, detached and the saved one restored); helpers' blocks            *)
(* (render_program_to_string).                                             *)
Outputs == {"render", "partial", "block"}

WriteText ==
    /\ InUse(Outputs) /\ held = <<>> /\ Len(Top.data) < MaxOutput
    /\ \E t \in Texts : adding' = <<t>>
    /\ UNCHANGED <<buffers, held, heap, todo, status>>

Begin ==
    /\ InUse(Outputs) /\ held = <<>> /\ Len(Top.data) < MaxOutput
    /\ \E use \in {"partial", "block"} : Enter(use, <<>>)
    /\ UNCHANGED <<held, adding, todo, status>>

Detach ==
    /\ InUse({"partial", "block", "escape"}) /\ Writable /\ held = <<>> /\ todo = <<>>
    /\ held' = <<String(Top)>>
    /\ buffers' = Set(Detached(Top))
    /\ UNCHANGED <<heap, adding, todo, status>>

Restore ==
    /\ InUse({"partial", "block", "escape"}) /\ ~Writable
    /\ buffers' = Front(buffers)
    /\ UNCHANGED <<held, heap, adding, todo, status>>

(* Slip: the result is appended before the saved output is restored.       *)
AppendHeldSlip ==
    /\ InUse(Outputs) /\ held # <<>>
    /\ adding' = <<Last(held).data>>
    /\ UNCHANGED <<buffers, held, heap, todo, status>>

AppendHeld ==
    /\ InUse(Outputs) /\ held # <<>> /\ Writable
    /\ adding' = <<Last(held).data>>
    /\ UNCHANGED <<buffers, held, heap, todo, status>>

(* A helper that was given its block's text may return nothing.            *)
DropHeld ==
    /\ InUse(Outputs) /\ held # <<>> /\ Writable /\ held[1].use = "block"
    /\ held' = <<>>
    /\ heap' = Without(Freed)
    /\ UNCHANGED <<buffers, adding, todo, status>>

-----------------------------------------------------------------------------
(* hbs_html_escape, character by character, into a buffer of its own.      *)
WrittenSlip(c) == IF c \in DOMAIN Entity \ {"&"} THEN Entity[c] ELSE <<c>>   \* Slip: & stays.

Written(c) == IF c \in DOMAIN Entity THEN Entity[c] ELSE <<c>>

BeginEscape ==
    /\ InUse(Outputs) /\ held = <<>> /\ Len(Top.data) < MaxOutput
    /\ \E t \in Texts : Enter("escape", t) /\ todo' = t
    /\ UNCHANGED <<held, adding, status>>

EscapeChar ==
    /\ InUse({"escape"}) /\ Writable /\ todo # <<>>
    /\ adding' = <<Written(Head(todo))>>
    /\ todo' = Tail(todo)
    /\ UNCHANGED <<buffers, held, heap, status>>

(* The lines of a partial's text that stands alone are indented: a margin  *)
(* at the start, and after each newline that is not the last character.    *)
IndentedChar(s, i) == <<s[i]>> \o IF s[i] = "nl" /\ i < Len(s) THEN Margin ELSE <<>>
Indented(s) == Margin \o FlattenSeq([i \in 1..Len(s) |-> IndentedChar(s, i)])

BeginIndentSlip ==   \* Slip: the first line is not indented.
    /\ InUse(Outputs) /\ Len(held) = 1 /\ Writable /\ held[1].use = "partial"
    /\ Enter("indented", <<>>)
    /\ todo' = held[1].data
    /\ UNCHANGED <<held, adding, status>>

BeginIndent ==
    /\ InUse(Outputs) /\ Len(held) = 1 /\ Writable /\ held[1].use = "partial"
    /\ Enter("indented", <<>>)
    /\ todo' = held[1].data
    /\ adding' = <<Margin>>
    /\ UNCHANGED <<held, status>>

IndentChar ==
    /\ InUse({"indented"}) /\ todo # <<>>
    /\ adding' = <<IndentedChar(todo, 1)>>
    /\ todo' = Tail(todo)
    /\ UNCHANGED <<buffers, held, heap, status>>

EndIndent ==
    /\ InUse({"indented"}) /\ todo = <<>>
    /\ held' = Append(held, String(Top))
    /\ buffers' = Front(buffers)
    /\ UNCHANGED <<heap, adding, todo, status>>

-----------------------------------------------------------------------------
(* The end of hbs_render: the text is the caller's, or freed when the      *)
(* render failed.                                                          *)
Return ==
    /\ InUse({"render"}) /\ held = <<>>
    /\ \/ /\ status' = "returned"
          /\ held' = <<String(Top)>>
          /\ UNCHANGED heap
       \/ /\ status' = "failed"
          /\ heap' = Without({Top.block})
          /\ UNCHANGED held
    /\ buffers' = <<>>
    /\ UNCHANGED <<adding, todo>>

Init ==
    /\ LET b == CHOOSE x \in Block : TRUE
       IN  heap = [x \in {b} |-> INITIAL_CAP] /\ buffers = <<Buffer("render", <<>>, b)>>
    /\ held = <<>> /\ adding = <<>> /\ todo = <<>> /\ status = "rendering"

Next ==
    \/ Grow \/ Copy
    \/ WriteText \/ Begin \/ Detach \/ Restore \/ AppendHeld \/ DropHeld
    \/ BeginEscape \/ EscapeChar \/ BeginIndent \/ IndentChar \/ EndIndent
    \/ Return

(* An append that began goes on: nothing else runs meanwhile.              *)
Spec == Init /\ [][Next]_vars /\ WF_vars(Grow \/ Copy)

-----------------------------------------------------------------------------
(* Types; and: escapes and indented texts are the innermost buffer, only   *)
(* the innermost one may be detached, and then nothing is added to it.     *)
StrbufTypeOK ==
    /\ buffers \in Seq([use : Uses, of : Seq(Chars), block : Block \cup {NULL}, cap : Nat, data : Seq(Chars)])
    /\ held \in Seq([use : Uses, of : Seq(Chars), block : Block, data : Seq(Chars)])
    /\ DOMAIN heap \subseteq Block /\ \A b \in DOMAIN heap : heap[b] \in Nat
    /\ adding \in Seq(Seq(Chars)) /\ Len(adding) <= 1
    /\ todo \in Seq(Chars)
    /\ status \in {"rendering", "returned", "failed"} /\ (status = "rendering" <=> buffers # <<>>)
    /\ Len(held) <= 2
    /\ \A i \in 1..Len(buffers) :
          /\ buffers[i].use = "render" <=> i = 1
          /\ buffers[i].use \notin Outputs \/ buffers[i].block = NULL => i = Len(buffers)
    /\ adding # <<>> => buffers # <<>> /\ Writable

(* Every text lies in an allocated block with room for the NUL behind it,  *)
(* and a buffer's capacity is never less than was allocated: while it      *)
(* grows, while it waits below others, and after it is detached.           *)
InBounds ==
    /\ \A i \in 1..Len(buffers) :
          buffers[i].block # NULL => /\ buffers[i].block \in DOMAIN heap
                                     /\ Len(buffers[i].data) < heap[buffers[i].block]
                                     /\ heap[buffers[i].block] <= buffers[i].cap
    /\ \A i \in 1..Len(held) : /\ held[i].block \in DOMAIN heap
                               /\ Len(held[i].data) < heap[held[i].block]

(* Every allocated block belongs to one buffer or one string: none is      *)
(* freed twice, used after it was freed, or lost, whichever partials,      *)
(* blocks and values have buffers at the same time; at the end there is    *)
(* only the string that is returned, and after an error nothing.           *)
Owners == [i \in 1..(Len(buffers) + Len(held)) |->
              IF i <= Len(buffers) THEN buffers[i].block ELSE held[i - Len(buffers)].block]

OneOwner ==
    /\ \A i, j \in DOMAIN Owners : Owners[i] = Owners[j] /\ Owners[i] # NULL => i = j
    /\ DOMAIN heap = {Owners[i] : i \in DOMAIN Owners} \ {NULL}

(* What was escaped can be read back: hbs_html_escape writes no character  *)
(* for another, and nothing that stands for itself looks like an entity.   *)
CharOf(name) == CHOOSE c \in DOMAIN Entity : Entity[c][2] = name
DecodedChar(s, i) ==
    IF s[i] = "&" THEN <<CharOf(s[i + 1])>>
    ELSE IF (i > 1 /\ s[i - 1] = "&") \/ (i > 2 /\ s[i - 2] = "&") THEN <<>>
    ELSE <<s[i]>>
Decoded(s) == FlattenSeq([i \in 1..Len(s) |-> DecodedChar(s, i)])

EscapeReversible ==
    \A i \in 1..Len(held) : held[i].use = "escape" => Decoded(held[i].data) = held[i].of

(* An append that began ends: the capacity that is doubled is never that   *)
(* of a buffer without memory.                                             *)
AppendsEnd == adding # <<>> ~> adding = <<>>

(* The buffers together are one text, written in order: whatever a partial,*)
(* a block or an escape writes comes after all that was written before it. *)
Flat(bs)   == FlattenSeq([i \in 1..Len(bs) |-> bs[i].data])
Starts(bs) == [i \in 1..Len(bs) |-> Len(Flat(SubSeq(bs, 1, i - 1)))]

(* A buffer whose string was detached, or is indented, has no text of its  *)
(* own: what was detached last stands for it.                              *)
LiveOf(bs) == IF bs # <<>> /\ (Last(bs).block = NULL \/ Last(bs).use = "indented")
              THEN Front(bs) ELSE bs
TextOf(bs, hs) == Flat(LiveOf(bs)) \o IF hs = <<>> THEN <<>> ELSE Last(hs).data
MarksOf(bs, hs) == Starts(LiveOf(bs)) \o IF hs = <<>> \/ bs = <<>> THEN <<>>
                                         ELSE <<Len(Flat(LiveOf(bs)))>>

AllText  == TextOf(buffers, held)
AllMarks == MarksOf(buffers, held)

Promise == INSTANCE Sink WITH Indent <- Indented, text <- AllText, marks <- AllMarks
ImplementsSink == Promise!Spec

=============================================================================
