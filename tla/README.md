# Formal verification of sindarin-template

sindarin-template is a Handlebars engine in C: a template is compiled to an
AST (`hbs_compile`), and rendered against a json-c value (`hbs_render`) in an
environment of helpers and partials (`hbs_env_t`). This directory holds TLA+
models of it, TLC configurations that check them on small instances, and proofs
checked by TLAPS. Source references are to `src/render.c` unless they name
another file.

## 1. The system

The library is single-threaded and keeps nothing on disk. What is hard about it
is nesting: seven functions of the renderer push and pop context frames, swap
output buffers and own references by hand, call each other through blocks,
partials, inline partials and yields, and call *user code* that calls back into
the renderer or into the environment's API.

| Component | State | Operations | Talks to |
|---|---|---|---|
| Render core | frame chain, output buffer, `has_error` of each render state | `hbs_render`, `render_program`, `render_node`, one `render_*` per construct | path resolution, registry, user helpers, template compiler |
| Path resolution, expressions | none (reads the frame chain) | `resolve_path`, `evaluate_node`, `is_falsy` | json-c, helpers in subexpressions |
| Partials | inline partials per frame, `@partial-block` per frame, AST of a running partial | `render_partial`, `render_partial_block`, declaration of inline partials | compiler, registry |
| Helpers | options block, callback closures | `render_custom_helper`, `options->fn`, `options->inverse`, `hbs_create_frame` | user code |
| Template call | `last_error` | `hbs_compile`, `hbs_render`, `hbs_template_destroy` | all of the above |
| Registry | two arrays (helpers, partials) | register, unregister, lookup | read by the renderer *while* user code may change it |
| String buffer (`src/utils.c`) | data, len, cap | init, append, detach, free | every output path |
| Whitespace passes | AST text nodes, in place | standalone lines, tilde | after the parser |
| Lexer, parser, AST | position, mode; token stream; tree | tokens, recursive descent | `hbs_compile` |
| json-c | values, reference counts | external | render core |

What makes each correct, in a sentence:

- **Render core**: the output is the template's meaning in its context, whatever
  the nesting; every function leaves the frame chain, buffers and references as
  it found them; nothing is rendered after a strict-mode error; it returns.
- **Path resolution**: `../`, block parameters, `@`-variables and compat lookup
  see the frames of the constructs around the expression and no others.
- **Partials**: code that runs belongs to a template that is still allocated; a
  yield goes to the caller's block.
- **Helpers**: callbacks nest; a helper's text and its blocks' text appear in
  the order it put them together.
- **Registry**: a name denotes what it was registered as, also during a render.
- **String buffer**: every write is inside the allocation, every append ends.
- **Lexer/parser/whitespace**: they end on every input, and what a tag's line
  loses depends on that line only.

## 2. Modules

| Module | What it is |
|---|---|
| `Values` | JSON values as `render.c` sees them through json-c: members, array items, conversions, falsiness, `lookup` |
| `Context` | a context frame, and what an expression evaluates to in a chain of frames (`resolve_path`, `evaluate_node`, search for inline partials and `@partial-block`) |
| `Render` | one call of `hbs_render` as a state machine, with its properties |
| `RenderCall` | abstract: what a call promises its caller |
| `Semantics` | reference: the meaning of a template, by recursion on its structure |
| `Templates` | nodes, contexts, helpers and environments for the instances |
| `MCRender`, `MCDefined`, `MCFindings` | instances for TLC |
| `RenderProofs`, `LoopProofs` | theorems about `Render`, proved by TLAPS |
| `NameTable` | abstract: the registrations of each name, served in their order |
| `Registry` | one table of the environment and the helper calls in progress while user code changes it |
| `MCRegistry` | its instance; the refinement mapping to `NameTable` is in `Registry` |
| `RegistryProofs` | theorems about `Registry`, proved by TLAPS |
| `Whitespace` | the two passes over the text of a parsed template, one edit at a time, and the documented result |
| `WhitespaceProofs` | theorems about `Whitespace`, proved by TLAPS |
| `MCWhitespace` | shapes of templates and short texts |
| `Sink` | abstract: one text that only grows at its end, with open parts |
| `Strbuf` | the string buffers of a render: blocks of memory, appends, saved outputs, escaping, indentation |
| `MCStrbuf` | its instance; the refinement mapping to `Sink` is in `Strbuf` |
| `StrbufProofs` | theorems about `Strbuf`, proved by TLAPS |
| `Tokens` | the tokens, which `Lexer` makes and `Parser` reads |
| `Lexer` | the tokenizer, one iteration of a loop per step |
| `Parser` | the recursive descent, one statement per step |
| `Compile` | `hbs_compile` up to the whitespace passes: `Lexer`, then `Parser` |
| `Syntax` | reference: the template language of `README.md` as pairs of source and tree |
| `MCCompile` | its instances |
| `LexerProofs` | theorems about `Lexer` within `Compile`, proved by TLAPS |
| `ParserProofs` | theorems about `Parser` within `Compile`, proved by TLAPS |
| `FoldLemmas` | lemmas about sequences, folds and induction that the proofs share |

`RenderCall` is implemented by `Render` (mapping: the result is the status and
the one buffer left), `NameTable` by `Registry` (mapping: the registrations of
a name are those of its live entries), `Sink` by `Strbuf` (mapping: the text is the
texts of all buffers in use, one after the other, and the string that waits to be
appended; a part is open where a buffer begins). `Compile` composes `Lexer` and
`Parser`, whose only common variable is the list of tokens.

The groups stand beside each other, each for one layer of the code. `Compile`
ends with the tree that `Whitespace` edits and `Render` walks; these two take
trees from `Templates` and `MCWhitespace` instead. `Render` writes items to
buffers whose memory is `Strbuf`'s subject. `Render` takes the tables as
constants of a call, `Registry` abstracts the render to the nesting of helper
calls.

### How `Render` corresponds to the code

The C stack is `ctl`, a sequence of *activations*: one for each `render_program`
in progress, with the locals of the `render_*` function that called it, and one
for each user helper in progress. `Top.pc` is the loop index of
`render_program`. `frames` is the chain that starts at `state->frame` (last) and
ends at the root frame (first); a callback's frame lies on the C stack in the
code and is in the chain like the others. `outs` has one buffer per
`hbs_strbuf_t` in use: the render state's output, the `saved_output` of each
partial around it, the string each helper is building, and the outputs of the
enclosing render states. `errs` is `has_error` of each `hbs_render_state_t`;
`render_program_to_string` pushes one and drops it.

A step renders one statement, makes one callback, starts one loop iteration, or
returns from one function. The order of effects inside a C function is the order
of the steps; what a function does without calling `render_program` is one step.

- *Output* is a sequence of items - a piece of text, a newline, a value with the
  flag whether it was escaped, an indentation - instead of characters. Escaping
  and number formatting work on one item and cannot change the order or the
  presence of another.
- *User helpers* are scripts (`Helpers` in `Templates`): a sequence of callbacks
  with the context passed and whether the result is kept, the text returned, and
  the value in a subexpression. Anything user code can do through `options->fn`
  and `options->inverse` is such a script; calls back into the API are not.
- *Compiling a partial* always succeeds and gives it a new instance number;
  `own` says which activation destroys it (`hbs_template_destroy`). `Live` is
  "not yet freed".
- *Undefined behaviour* - reading an uninitialised block parameter, calling an
  inline partial whose AST was freed - is the status `undefined`, entered by
  `GoWrong` before the statement that would do it; nothing is assumed of what
  happens next.
- `compiled` and `Activation.base` are history variables.

A definition named `...Slip` is a mutated form of the definition it precedes. No
specification uses one; each is put in the place of its original to see that a
property notices the slip.

### How `Registry` and `Whitespace` correspond to the code

`slots` is the allocation behind `env->helpers` (or `env->partials`): every
registration reallocates it to one more than `count` entries, so it may be longer
than the table after removals. A helper call in progress is an entry of `calls`:
the call from a statement keeps the function pointer it found
(`render_custom_helper`), the one from a subexpression keeps the *index* and reads
the array again after its arguments were evaluated (`evaluate_node`). `made`,
`found` and `shifts` are history. Reading outside the allocation is the status
`undefined`.

In `Whitespace` the tree is flattened: `source` is the sequence of texts, tags and
mustaches in source order, `text` the values of the text nodes, which both passes
edit in place. The code finds a tag's neighbours through its program (statement
before, first statement of the body, ...); these are the items next to it, and
"first (last) statement of its program" is "after an opening or an else (before
an else or a close)". `todo` is the order in which the two recursions reach the tags:
open, else and close of a block before anything inside it. A step is one call of a
`try_strip_*` or of an `ast_strip_text_*` function.

### How `Lexer`, `Parser` and `Compile` correspond to the code

The source is a sequence of symbols. A symbol is one character, except that a
run of letters is one symbol (`Words`): no decision of the tokenizer depends on a
single letter, and keywords and names are compared whole. `at` is the loop
that runs - `outer` for `hbs_lexer_tokenize`, `text` for `lex_text`, `tag` and
`string` for `lex_tag_contents` and `lex_string`, with `rawtag`, `rawstring` for the
same within the open tag of a raw block - `inTag` and `pos` are the lexer's own
fields, and `buf` what the loop keeps (the text so far, where it began, the
string's quote). A loop that only skips or collects is one step; one whose next
iteration depends on what was read (`lex_text`, `lex_string`, `lex_tag_contents`) is
one step per iteration. Where the code reads a character the model reads
`Char(pos)`, which at the end is the terminating NUL; nothing defines what is
beyond. A token keeps where it begins and ends instead of line and column.

`stack` is the stack of `parse_program` calls, the root's first, each with the
node it is called for and what it has collected. `role` says what the caller
does with the result: it is the block's `body` or `inverse`, the `only` program of a
partial block or an inline partial, or (`chain`) the caller is a `parse_block`
that waits for the block of its `{{else if}}`. A step is one iteration of
`parse_program`'s loop or one return from it; what a tag contains is parsed
within the step, by recursive functions from a position to a result and the
position after it, one per `parse_*` function, with the advance that each makes.

### How `Strbuf` corresponds to the code

`buffers` are the `hbs_strbuf_t` that are being written, the innermost last, with
the use each is made for: the render's output, the fresh output of a partial, of
`render_program_to_string`, of `hbs_html_escape`, or of the indenting of a
partial. `held` are the strings that `hbs_strbuf_detach` returned and the caller has
not freed. `heap` gives each allocated block its size. `hbs_strbuf_append` is
`Grow` for each doubling of the capacity and `Copy` for the rest; meanwhile `adding` is
its argument and no other action is enabled. `todo` is what the loop of
`hbs_html_escape`, or of the indentation, still has to read. Whether a partial, a
block, an escape or an indentation comes next is open: the nesting is the
renderer's, and every nesting is allowed.

## 3. Runs
| Run | Module, cfg | Properties | What it shows |
|---|---|---|---|
| `render` (pass) | `MCRender`, `MCRender.cfg` | `TypeOK`, `StackDiscipline`, `RefsBalanced`, `LoopVariables`, `FailureStops`, `RendersMeaning` | Every nesting of two or three constructs, directly and through partials, with hooks, compat, noEscape and strict environments: the stacks, references and loop data are in order at every step and the answer is the template's meaning. |
| `defined` (pass) | `MCDefined`, `MCDefined.cfg` | `DefinedWhenSafe`, `CodeAlive`, `AnswersOnce` | Block parameters of every number and partials that leave inline partials behind: undefined behaviour is reached only by templates with surplus block parameters or with such partials, what runs is always the code of a template that still exists, and every call returns, once, unless its partials call one another or a block yields to itself. |
| `strict_lost` (violation) | `MCFindings`, `MCStrict.cfg` | `StrictReported` | A missing variable inside a user helper's block does not make hbs_render fail in strict mode. |
| `inline_dangling` (violation) | `MCFindings`, `MCInline.cfg` | `InlinesAlive` | An inline partial declared by a partial called without arguments outlives the AST its body is in. |
| `yield_self` (violation) | `MCFindings`, `MCYield.cfg` | `YieldsToCaller` | A layout inside a layout yields to itself instead of its caller's block. |
| `registry` (pass) | `MCRegistry`, `MCRegistry.cfg` | `RegistryTypeOK`, `Ordered`, `DispatchedAsFound`, `ReadsInside`, `ImplementsTable` | Four registrations of two names and two nested helper calls, with user code changing the table at every point it can run: lookups find the oldest registration of a name, and a call goes astray only where its own arguments removed an entry at or below it. |
| `gone` (violation) | `MCRegistry`, `MCGone.cfg` | `GoneAfterUnregister` | A name that was registered twice is still there after it was unregistered. |
| `whitespace` (pass) | `MCWhitespace`, `MCWhitespace.cfg` | `WhitespaceTypeOK`, `OnlyWhitespaceLost`, `IndentFits`, `LinesAsDocumented` | Sixteen shapes of templates with every choice of short texts between their tags: the in-place passes leave of each text what the written lines say, but for the three kinds of template in which the code departs from src/README.md:394-406. |
| `lines` (violation) | `MCWhitespace`, `MCLines.cfg` | `AloneLinesRemoved` | Of two comments on consecutive lines of their own, the second leaves an empty line. |
| `compile` (pass) | `MCCompile`, `MCCompile.cfg` | `CompileTypeOK`, `StaysInside`, `TagsBracketed`, `EndNotTaken`, `NothingLost`, `TextKept`, `ParsesAsWritten`, `Compiled` | Everything three pieces of 21 can be put together to, tags and block ends in any order, templates cut off anywhere, and templates the README describes: the lexer and the parser stay inside what they read, lose no text, end, and make of a well-formed template the tree it says. |
| `dots` (violation) | `MCCompile`, `MCDots.cfg` | `DotIsAnArgument` | The argument . before another argument is glued to it, or to the name before it. |
| `buffer` (pass) | `MCStrbuf`, `MCStrbuf.cfg` | `StrbufTypeOK`, `InBounds`, `OneOwner`, `EscapeReversible`, `AppendsEnd`, `ImplementsSink` | Four blocks of memory and buffers of two bytes, with partials, helpers' blocks, escaped values and indented partials nested in every order: writes are in bounds, every block has one owner, appends end, and the buffers together are one text written in order. |

The properties in words:

- `TypeOK`, `RegistryTypeOK`, `WhitespaceTypeOK`, `CompileTypeOK`, `StrbufTypeOK`:
  the types of the state, one per machine.
- `StackDiscipline`: the frames, buffers and render states in existence are
  those of the calls in progress, at every step.
- `RefsBalanced`: the json references not yet put are those the running
  functions and the live frames will put; none is left when the call returns,
  also after an error.
- `LoopVariables`: `@index`, `@first`, `@last` are the innermost running
  `{{#each}}`'s, wherever they are read.
- `FailureStops`: a failed render state renders and compiles nothing more.
- `RendersMeaning`: the machine implements `RenderCall`: one answer, and it is
  what `Semantics` says the template means. `AnswersOnce`: and it comes, or the
  behaviour is undefined, unless the names of partials call one another in a
  circle (`Unrecursive`) or a block yields to itself on the way
  (`YieldsToCaller`), as a layout in a layout does. Both recurse without a bound
  in the code; run `yield_self` is the second, which no circle of names shows.
- `DefinedWhenSafe`: undefined behaviour is reached only by templates with
  surplus block parameters or with partials that leave an inline partial behind
  in their caller's frame.
- `CodeAlive`: the code that runs belongs to a template that has not been
  destroyed. A partial's AST is freed when its call is over, while its blocks are
  offered to further partials, given to helpers and yielded.
- `Ordered`, `DispatchedAsFound`, `ReadsInside`: the table during nested helper
  calls (below). `ImplementsTable`: the array implements `NameTable`.
- `OnlyWhitespaceLost`, `IndentFits`, `LinesAsDocumented`: what the whitespace
  passes take, character by character: nothing but whitespace; a partial's
  indentation is what was cut before it; and the result is that of a definition
  over the lines of the source, which knows no programs and no order of edits.
  The last is about every text node, those in the bodies of inline partials
  included, and leaves out three kinds of template, in which the code and
  src/README.md:394-406 disagree: `Crowded` (those of run `lines`), `Abrupt` and
  `Embedded` (section 5).
- `StaysInside`: the tokenizer reads nothing beyond the NUL and ends the list of
  tokens with an EOF. `TagsBracketed`: in that list, at every step, a tag closes
  before the next opens and texts are outside of tags; the parser takes this for
  granted. `EndNotTaken`: no `parse_*` function takes the EOF for a token of its
  own, wherever a tag breaks off. `Compiled`: both end on every input.
- `NothingLost`: each character of the source is in a token, or is skipped in a
  tag (a blank, a delimiter, a character no tag knows); and a text has all that
  is written where it was read, but for the backslashes that escape a tag.
  `TextKept`: all texts of the source
  are in the tree, in their order, also when tags of blocks do not match.
  `ParsesAsWritten`: a template of `Syntax` gets the tree that goes with it.
- `InBounds`: every text, with its NUL, is within the block it lies in, and a
  capacity is never less than was allocated. `OneOwner`: each allocated block has
  one owner, and when the call ends nothing is left but the result.
  `EscapeReversible`: what was escaped can be read back. `AppendsEnd`: an append
  that began ends (a detached buffer has capacity 0, which doubling leaves 0).
  `ImplementsSink`: what a partial, a block or an escape writes ends up after all
  that was written before it, and an indentation touches nothing else.

`Semantics` is written independently of the machine's structure - it has no
stacks, buffers or flags: it maps a statement, a chain of frames and an
environment to output and an error by recursion - but it shares `Context` and
`Values`, so what a path resolves to is not checked against a second definition
(planned, section 7).

### Bounds, and why they are enough

`MCRender` does not bound depth by a number: its templates are *every* nesting of
ten constructs (if, each over an array, each over an object with block
parameters, with, a user block helper that calls back three times, an unknown
block, a partial block without partial, an inline partial called plain and with
arguments, a layout that yields, an inline layout) around a leaf that reads the context in
seven ways, two and three deep, directly and through a registered partial used
in four ways. Each pair of constructs on the stack occurs in both orders, and a
third around them, which is what an unbalanced push or a wrong frame needs to
become visible; statements after each block (`V`) show what it left behind. The
remaining forms (`Forms`) occur once alone and once inside each construct. The
context has objects, an array of two (first and last differ), an empty array, a
zero and strings. Strict jobs are those in which every render state is the
call's own: elsewhere an error is lost (section 5), and `RendersMeaning` is
about the behaviour that is documented. Partials are not recursive: the code has
no limit on recursion, and neither has the model, so such an instance is
infinite.

`MCDefined` has up to three block parameters on `with` and `each`, read in
every kind of operand position, and partials that leave inline partials behind
in each way; it is run without any restriction to defined behaviour.

`MCRegistry` makes four registrations of two names with two helper calls
nested, at every point where user code runs. Three entries and a fourth
registration are the least in which an index ends up outside the allocation; two
names give a first and a second match, and a name that is registered twice.

`MCWhitespace` has sixteen shapes of templates: two comments, two partials, a block
with and without else, around a partial, a mustache, a block and an inline
partial, two blocks, an inline partial by itself and around a comment and a
mustache with `~`, an inverse block, an else-if chain, and `~` on a block and on
a mustache. Between their tags every choice from six to thirteen texts: none, a
blank, a newline with and without blanks or other characters on either side, two
newlines, a carriage return. An edit looks at one tag and its two neighbours, and
a text has at most two tags next to it, so a wrong decision needs no longer
template; nesting matters to the order of the edits, for which two levels give
each pair of open, else and close.

`MCCompile` reads about ten thousand templates: everything that three of 21
pieces can be put together to (openings and closings of two, three and four
braces, every sign that follows an opening, quotes, a backslash, brackets,
parentheses, dots, a digit, a blank, a tilde), which holds each pair of pieces
in both orders and breaks off after each; block tags, their ends and elses in
every order of three, and of four within a block; the statements and partial
blocks of `Syntax` cut off after every symbol; and the templates of `Syntax`: each
form of path, literal, subexpression, argument and pair, alone and in each place
it may stand, each statement with and without tildes, and blocks with each kind
of else around each statement and each block, two deep. A decision of the tokenizer looks at four
characters and `inTag`, one of the parser at two tokens and the top of the stack,
so three pieces and two levels reach each one; that a longer source behaves no
worse is, for the tokenizer, what `LexerProofs` proves.

`MCStrbuf` has buffers of two bytes instead of 256, so that a text of one
character fits, one of two or three makes them double once and an indented one
twice; four blocks, so that a partial in a helper's block in a partial still has
room for an escape; texts that are empty, that begin and end with a newline, and that look like
an entity; a buffer of three characters begins nothing new (`MaxOutput`).

### Fairness

`Spec` of `Render` and of `Compile` has weak fairness of `Next`: a call runs on its
caller's thread and executes until it returns. Nothing else is assumed; user
helpers return because a script is finite. `Spec` of `Strbuf` has weak fairness of
`Grow \/ Copy` only: an append that began goes on, while a render need not write
anything. `Registry` has no liveness property, since user code need not return;
`Whitespace` works off a list. Deadlock checking is off in all runs: a call
that has returned, or reached undefined behaviour, takes no more steps, an
environment may be destroyed, all blocks of memory may be in use, and the passes
of `Whitespace` come to an end.

## 4. What is proved

`RenderProofs` proves, for every set of nodes and of jobs (any template, context,
environment, any helper script, recursive partials included):

- `Typed`: `Spec => []TypeOK`;
- `Disciplined`: `Spec => []StackDiscipline` - the frames, buffers and render
  states are at every step exactly those of the calls in progress;
- `Invariant`: the inductive invariant both follow from.

`StackDiscipline` is not inductive on its own: it says that each activation was
entered at the height the one below it left, but a step also needs that all
three stacks and `ctl` are well-typed sequences and that what is popped is there. `IInv` adds the types and states the
nesting as a predicate `Nested(c, h)` of a call stack and three heights, for which three
lemmas do the work: it survives a change of the top activation that leaves its
`base` and kind alone (`NestedStay`), pushing an activation entered at the
current heights (`NestedPush`), and popping one together with what it held
(`NestedPop`). Each action is one step lemma (`...Step`) by one of the three.
Assumptions: `NodeAssumption` (a program's parts are nodes, lists are
finite) and `JobAssumption` (main and partials are nodes), both evaluated by TLC in
every run of `Render`.

`RegistryProofs` proves, for every set of names and every bound:

- `Dispatched`: `Spec => []DispatchedAsFound`;
- `Inside`: `Spec => []ReadsInside`: one removal at or below the kept index is not
  enough to read outside the allocation, two can be;
- `InOrder`: `Spec => []Ordered`;
- `TableInvariant`: the inductive invariant. It needs two facts the properties do
  not mention: the *whole* allocation, stale entries included, is sorted by age
  (`Rising`), because a kept index may point into the stale part; and how far a
  kept index can be off (`IndexOK`): after `s` removals at or below it the index
  exceeds the count by at most `s` and the allocation by at most `s - 1`, since
  only a registration shrinks the allocation and it leaves room for one more.

- `TableTyped`: `Spec => []RegistryTypeOK`;
- `Implements`: `Spec => ImplementsTable`, the refinement: every step of the array
  is a step of `NameTable` or none. The search stops at the oldest registration
  because the live entries are in order (`FirstIsOldest`, `NoneFound`), and a
  removal, which moves entries of other names too, takes exactly that one away
  (`UnregisterTable`).

`RenderProofs` also proves `Stops`: `Spec => FailureStops`. `has_error` is read by
`render_program` only, between two statements; that a failed state calls nothing
more also needs that a user's helper, which makes callbacks without looking at
the flag, is never in control of a failed state. `FInv` says so: of the render
states only the innermost may have failed, not while a helper is the innermost
call, and what is called from a helper is a callback with a state of its own. It
is inductive given `IInv`, with one lemma for each way the calls and flags change
(`KindsKept`, `CallPushed`, `CallPopped`).

`LoopProofs` proves `LoopsTold`: `Spec => []LoopVariables`. `@index` is read from
the innermost frame that has private data, the property speaks of the innermost
loop among the calls, and in between lie the frames of partials, callbacks and
yielded blocks. `LInv` ties the two stacks: a loop's call and the frame it pushed
tell the same item; every frame with private data is the frame of a loop in
progress; the frames of a later call lie above those of an earlier one. It is
inductive given `IInv` (without the heights of `Nested` a return could leave the
frame of a finished loop behind), with one lemma for each way calls and frames
change together (`LoopsStay`, `LoopsPush`, `LoopsPop`, `LoopsTurn`).

`LoopProofs` proves besides:

- `Balanced`: `Spec => []RefsBalanced`: the references obtained and not yet put
  are the sum of what the calls in progress and the live frames will put;
- `NothingOwed`: when the call has returned, with the output or with an error,
  that sum is zero. This one is stated in the theorem only: it is what
  `RefsBalanced` means to the caller.

Both rest on `LInv`, since what a return puts is what *its* frame and *its*
activation took. `Owed` is a fold; `OwedIsFold` equates it with a running sum,
from which the lemmas say what a push, a pop and a change of the last element do
to it, and each action is balanced by one of them (`...Balanced`). `NothingOwed`
needs one fact more, that the last call to return finds itself alone on the
stack.

And about the lifetime of the templates:

- `Allocated`: `Spec => []CodeAlive`, for every template, recursive partials and
  user helpers included;
- `InlinesKept`: `Spec => [](Framed => InlinesAlive)`: if every partial is called
  with arguments, no inline partial in scope outlives its template. The run
  `inline_dangling` shows that it does not hold without `Framed`, and so does the
  proof: it is needed in `SharesCalling` alone, where a call that pushes no frame
  has to run a template that its caller owns too.

A block is run long after the statement it is part of began, by calls of other
templates, so `CodeAlive` is not inductive. `HInv` adds an order: what a call, or
a frame up to the call's own, refers to is owned by that call or by one *before*
it, and so outlives it. `LInv` says that the frames of calls do not overlap, with
which a push and a return keep the order (`HousesPush`, `HousesPop`). For inline
partials, which are added to a frame that other calls may share, `VInv` says
besides that calls which share their frames may use each other's templates.
Each action is shown once to have one of three effects (`Staying`, `Calling`,
`Leaving`), and both invariants follow from these.

- `WellDefined`: `Spec => [](Sound => status # "undefined")`: a call of templates
  as the parser makes them (`WellFormed`: finite lists of paths, literals and
  calls), in a context and with helpers whose values are values, reads nothing
  that was never written and enters nothing that was freed, if `with` declares
  one block parameter at most and `each` two, and if no inline partial is declared
  or every partial has arguments. Both conditions are needed: the run `defined`
  reaches `undefined` with a third block parameter, `inline_dangling` without
  arguments. The hypothesis is about the templates only, whatever they are given.

A value is `Defined` if it belongs to a set that is `Sealed`: it has no
uninitialised value, and the items and members of its values are its own. That
way nothing is said of the depth of a value, and no induction over data is
needed: items, members, paths (`DescendDefined`, a fold) and the copy of an
object with hash arguments (`ExtendedDefined`) stay in a sealed set. The invariant
`DInv` says it of every frame's data, private data, block parameters and block
(`Told`), and of the first argument each call keeps for its callbacks or its
loop (`Sees`). That `GoWrong` is never enabled then follows from what each kind of
statement evaluates (`OperandsAre`) and, for inline partials, from `InlinesKept`.

`LexerProofs` proves, for every alphabet of words and every set of templates:

- `NeverOutside`: `Spec => []StaysInside`;
- `TokensBracketed`: `Spec => []TagsBracketed`;
- `TokenizerInvariant`: the inductive invariant. The tokens are bracketed because
  `inTag`, the loop that runs and the last token agree, and they agree only up to
  a point: when the source ends in a tag `inTag` stays set although no loop is in
  a tag any more, and what keeps the tokenizer from reading on is the position.
  The invariant ties the four together. `StaysInside` needs it too, since a
  string may end one place beyond the end and only a loop that then stops is
  safe;
- `KeepsAll`: `Spec => []NothingLost`. What the property says of the end is true
  of every step only if what the running loop has collected counts too:
  `NoneLost` says that what lies before `pos` is in a token, was skipped in a tag,
  or lies between `buf.from` and `pos`, and that a text so far is what
  `TextRead` makes of what was read since it began. That a place was in a tag when
  it was skipped stays true because a later token that ends a tag begins later
  (`EndsAfter`), and no token begins beyond `pos` (`Behind`).

`ParserProofs` proves, again for every template that the lexer makes tokens of:

- `StaysBeforeEnd`: `Spec => []EndNotTaken`;
- `CompileTyped`: `Spec => []CompileTypeOK`;
- `ParserInvariant`: the cursor is at one of the tokens, and the calls of
  `parse_program` nest as the grammar has it: a `parse_block` that waits for the
  block of its `{{else if}}` is never the innermost call.

The invariant is short; the work is in what is read of a tag. The functions of
`Parser` are recursive, so that their equations hold is not given: calls,
expressions, arguments and pairs call each other. They do so with a later place,
or with the same place and in one order; `Turn` numbers the pairs of rule and
place accordingly, and by induction on it the functions exist and end among the
tokens. That none takes the EOF is because it is of no type that is taken and
comes last (`Complete`, from `LexInv`). The proof found an error of the model:
in `PastAll` the condition that ends a run of tokens had become part of the
condition on each token in the run, so that for an empty run it said nothing.

`StrbufProofs` proves, for every initial capacity, memory, alphabet and set of
texts:

- `BuffersTyped`: `Spec => []StrbufTypeOK`; `WritesInside`: `Spec => []InBounds`;
  `Owned`: `Spec => []OneOwner`;
- `MemoryInvariant`: the inductive invariant, in four parts about buffers, strings
  and heap (types, places, bounds, owners). Places is what the properties do not
  say: what a buffer's position and use imply. A buffer without memory is the
  innermost and its string is held; the render's own and an indented one always
  have memory; while a partial is indented exactly one string is held. Without
  these, an append to a detached buffer and the loss of a held string could not
  be excluded;
- `OneText`: `Spec => ImplementsSink`, the refinement: every step appends to the
  text of `Sink`, opens or closes a part at its end, indents the last part, or
  changes nothing. The mapping leaves out a buffer whose string was detached and
  one that is being indented, for which the string counts (`LiveOf`, `TextOf`,
  `MarksOf`);
- `EscapesReadBack`: `Spec => []EscapeReversible`;
- `TextInvariant`: the invariant of both, which says what the last buffer holds
  while something is still to be written to it: of an escape, the escape of what
  has been read; of an indentation, the indentation of what has been read; an
  append, when it ends, adds all of its argument and nothing else.

Decoding looks at the two characters before the one it is at, so `EscapesReadBack`
goes by induction over the text with the last two characters written as part of
the hypothesis. It needs `EntityShape`, an assumption about the table of
entities: each is `&`, a name of its own and an end, and `&` is escaped.

`WhitespaceProofs` proves, for every set of templates of the form in which they
leave the parser. Each opening has its close (`ClosedAssumption`; the parser also
takes an opening that is never closed; where its body ends, usually at the end of
the template, counts as its close), and an end or an else belongs to an opening
of its kind, only expressions and the openings and ends of blocks carry `~`, and
the tags written as one are `else if`, the ends that its block shares with the
block around it, and `{{^x}}` (`FormedAssumption`; the parser reads and drops the
`~` of everything else):

- `Solidity`: `Spec => []OnlyWhitespaceLost`;
- `TextsTyped`: `Spec => []WhitespaceTypeOK`;
- `IndentKept`: `Spec => []IndentFits`;
- `LinesKept`: `Spec => []LinesAsDocumented`, the result of both passes.

As to `Solidity`, a cut may be made in a text that earlier cuts have changed, so the
invariant `TextsSolid` compares each text with what was written, and the lemmas
`KeptIsSolid`, `RestIsSolid` and `TrimmedIsSolid` say of any text, not only of an
original one, that what a check allows to cut off is whitespace. That two texts
have as many characters other than whitespace is shown by a bijection of their
positions (`PieceKeepsSolid`); that `Min` and `Max` exist comes from the
well-founded order of finite sets (`FirstIsMin`, `LastIsMax`). The order in which
the edits come plays no part in the proof, nor does what an edit is for. It does
for `IndentKept`: were a partial tried twice, the second try would replace the
indentation by what the first had left. The invariant `Indenting` says that the
partials come in order in what is left to try (`FirstPassOrdered`, by induction
over the list that the recursion through the tree makes), that one which is
still to be tried has no indentation, and that text and indentation together are
an end of what was written. A try of the partial moves blanks from one to the
other (`EndingMoved`), a try of a tag before the text takes from its beginning
(`EndingCut`), and no try of another tag reaches its end.

`LinesKept` says that the order of the edits does not show in the result, so its
invariant has to say what each decision sees of the original. During the first
pass that is `Cutting`, of three parts. `Orderly`: every tag outside inline
partials is tried once, an opening with its else and close before what is inside,
and nothing is trimmed before all have been tried. `AsCut`: a text is what was
written less the lines of those of its neighbours that are alone as written and
have been tried. `AllTrims`: what is left to trim is what the `~` flags say. From
`AsCut` follows `TriedAsWritten`: the tag that is tried next is found standalone
exactly if it is alone as written, although its two texts may already have been
cut at their other ends. This is where two limits of the property are needed:
in a text that is one blank line between two tags of a program the first takes the
newline that the second looks for (`Crowded`, the case of the run `lines`), and
of a tag that begins or ends a program within a line the passes see less than the
line (`Abrupt`; tags of one program may share a line: neither sees a newline, and
neither is cut). The third, `Embedded`, is for the texts in inline partials: `Shown`
says that no edit comes to them, and `UnseenAsWritten` that the written lines ask
for none. A step of the second
pass keeps `Trimming`: what the trims still to come will make of a text is the
documented text. That `Cutting` holds at first is a matter of the recursion alone
(`CuttingInit`): by induction over the template, the flattened lists are in the
order of the tags' openings (`FlattenSorted`) and hold each tag and flag.

`FoldLemmas` has what these proofs share: a set of natural numbers has a least
element, from the library's well-founded order of finite sets; induction
(`Induction`, stated for a set, since the library's theorem for a predicate is
out of the provers' reach); functions defined by recursion along a sequence, and
with them the folds and `FlattenSeq` (`FoldExists`, `FlattenAppend`,
`FlattenMore`).

Only model-checked: `RendersMeaning` (that `Render` implements `RenderCall`),
`DefinedWhenSafe`, `AnswersOnce`, `TextKept`, `ParsesAsWritten`, and the liveness properties `AppendsEnd` and `Compiled`.
Liveness under fairness and `ENABLED` are out of TLAPS's reach, and so is what
`RECURSIVE` operators compute: `RendersMeaning` is about `Semantics`,
`ParsesAsWritten` about `Syntax`; `DefinedWhenSafe` finds by recursion which inline
partials a template leaves behind, where `WellDefined` asks for arguments.
`TextKept` collects the texts of a tree by recursion through its nodes (`Texts` in
`Syntax`).

## 5. Disagreements between the code and its documentation

Each is a run in which TLC shows the documented property violated.

1. `strict_lost` (src/render.c:446): render_program_to_string renders in a render state of its own and drops its has_error, so a missing variable in the block of a user helper or in an inline partial only cuts that part of the output short and hbs_render returns HBS_OK; README.md:105 says "When enabled, referencing a missing variable in `{{expr}}` causes `hbs_render()` to return `NULL` with `HBS_ERR_RENDER`".
2. `inline_dangling` (src/render.c:927): An inline partial declared in a partial that got no frame of its own is registered in the caller's frame with its body in the partial's AST, which hbs_template_destroy frees at the end of the partial; the registration, src/render.h:8 "Inline partial registration (scoped)", outlives the scope it was made in and later calls of it read freed memory.
3. `yield_self` (src/render.c:814): The search for @partial-block starts at the frame of the block that is being yielded, which still lies above the frame that offered it, so {{> @partial-block}} inside a partial block finds the block it is in and recurses without end; README.md:328 says "A partial can yield back to its caller using `{{> @partial-block}}`" and the comment at src/render.c:810 "yield to the caller's block content".
4. `gone` (src/render.c:1656): hbs_register_helper and hbs_register_partial append without looking for the name, and hbs_unregister_* remove the first entry only, so after a second registration of a name the first one stays in force, and unregistering it with HBS_OK brings the second one back instead of making the name unknown; include/handlebars.h:65 says "Unregister a partial by name" and test/test_partials.c:285 "partial gone after unregister" (test/test_helpers.c:470 "helper gone after unregister").
5. `lines` (src/render.c:1246): standalone_strip decides about a tag from the text its neighbour has already been stripped of: after the first of two tags on consecutive lines (same program) took the newline between them, check_prev_standalone finds none before the second, whose line stays as an empty line - "A\n{{!a}}\n{{!b}}\nB" gives "A\n\nB"; README.md:394 says "Block tags, comments, partials, and inline partials that appear on a line by themselves (with only whitespace) have their entire line removed from the output".
6. `dots` (src/parser.c:145): the lexer drops the blanks between tokens and parse_path takes every dot that a name follows for a path separator, so in {{a . b}} the argument . and the argument b make the path a.b, and in {{a . k=0}} the path a.k; the comment at src/parser.c:107 says "Handle standalone "." (this reference)" and README.md:313 shows `{{> (lookup . "name")}}`, which works only because a string follows the dot.

Three more disagreements about whitespace have no run of their own, but are what
`LinesAsDocumented` leaves out; without the limit TLC shows it violated on
`MCShapes`.

- *Tags in the bodies of inline partials* (`Embedded`). standalone_strip
  (src/render.c:1469) and tilde_strip (src/render.c:1562) do not descend into an
  inline partial, so a comment, partial or block alone on its line there keeps its
  line, against README.md:394, and a `~` there strips nothing, against README.md:384
  "The `~` character strips whitespace on the corresponding side".
- *Programs that begin or end within a line* (`Abrupt`). check_prev_standalone
  (src/render.c:1242) and check_next_standalone (src/render.c:1277) take the start
  and the end of a program for those of a line: in `A{{#if x}} {{! c}}\nB` the comment
  loses the blank before it and the newline after it, although README.md:406 says
  "This does not apply to tags that share a line with other content".
- *`{{else if}}`* (also `Abrupt`, being two tags in one, with a program that begins
  between them). try_strip_block_else (src/render.c:1424) finds no text after the else
  and leaves what is before it, while try_strip_block_open (src/render.c:1345) takes
  the newline after the opening: the indentation of an `{{else if x}}` alone on its
  line stays, against README.md:394, and one that ends a line of text loses the
  newline, against README.md:406.

An inline partial is one tag to what is around it (README.md:394 names it as one);
its opening alone on a line is not taken to remove the line from its own body,
nor does the code do so.

## 6. Not modelled

- *The composition of `Render` and `Registry`*: a helper that registers partials
  changes what a later statement of the same render finds. `Registry` shows
  what each lookup finds; `Render` keeps the tables fixed during a call.
- *`opts.data`, `hbs_create_frame`*, and helpers that call `hbs_render` again.
- *`hbs_compile` failing*: inside a render the code skips the partial.
  `parser_error` is never called, so only the tokenizer can make it fail.
- *Memory exhaustion*: no allocation is checked in the code. When the memory of
  `Strbuf` is used up, no new buffer begins.
- *In the whitespace passes*: an inverse block with an else part
  (`{{^x}}..{{else}}..{{/x}}`), whose two programs the parser swaps, so that the
  passes see them in the other order than they are written; and `~` on partials,
  comments and else tags, which the parser reads and drops.
- *Lexer and parser*: lines and columns of tokens, and limits of recursion. Close
  tags of other names are accepted and `HBS_ERR_PARSE` is never reported: the
  model does the same, and `TextKept` says what remains true then. `{{~else}}` is
  not an else, and `~` on `{{~^}}`, partials and comments is read and dropped; both
  are in `Parser`, but nothing is documented to hold them against.
- *String buffer*: `hbs_trim_right` and `hbs_trim_left_buf`, which nothing calls;
  sizes that exceed `size_t`; a `realloc` that moves a block (nothing keeps a
  pointer into a buffer); a user's helper that holds several texts of its
  blocks at once - in the model it appends or drops one before the next begins,
  while in `Render` it may keep them.
- *The AST's destructors*: they free the tree a node at a time; when a tree dies
  is part of `Render` (`Live`).
- *json-c* is external: `Values` has the operations the renderer uses. Number
  formatting and the text of objects and arrays are left out.
- *Helper arguments of `{{lookup}}`*, and nested subexpressions: an operand is a
  path, a literal, a `lookup` or a helper's value.

## 7. Plan

What is left, in order of importance:

1. **Template API**: `last_error` across calls and re-entrant renders of one
   template; `Render` and `Registry` composed for the tables.
2. **Resolution** against an independent reference: `Resolve` compared with a
   definition over the nesting of constructs, over bounded chains.
3. **Whitespace**: inverse blocks with an else part, from the trees of `Parser`.
4. **Proofs**: `TextKept`; that a call gives one answer, the
   part of `RenderCall` that does not speak of `Semantics`.
