------------------------------- MODULE Parser -------------------------------
(***************************************************************************)
(* The parser (src/parser.c, src/ast.c): the recursive descent over the    *)
(* tokens as a machine, one step per statement and one per end of a        *)
(* program, with a stack of the parse_program calls that are running.      *)
(* What a tag contains is parsed within the step, by operators named for   *)
(* the functions: each takes the index p of its first token and returns    *)
(* what it parsed and the index of the first token after it.               *)
(*                                                                         *)
(* A name or value is the sequence of symbols the lexer read.  What C      *)
(* represents by a NULL name, content or list is the empty sequence.       *)
(***************************************************************************)
EXTENDS Tokens

VARIABLES
    cursor,   \* the next token: parser->pos, counted from 1
    stack,    \* the calls of parse_program that are running, innermost last
    ast       \* what hbs_parser_parse returned: empty, or the program

parseVars == <<cursor, stack, ast>>

-----------------------------------------------------------------------------
(* Nodes (ast.h).  A statement has the fields of every kind of statement;  *)
(* a block without an else has inverse <<>>, one with << program >>.       *)
(* tildes are the strip_ flags that are set; what the printer and the      *)
(* freeing of nodes need is left out.                                      *)
NoPath == [depth |-> 0, explicit |-> FALSE, this |-> FALSE, parts |-> <<>>]

Node(kind) ==
    [kind |-> kind, path |-> NoPath, args |-> <<>>, hash |-> <<>>, params |-> <<>>,
     body |-> <<>>, inverse |-> <<>>, escaped |-> TRUE, tildes |-> {}, value |-> <<>>]

Ref(path)           == [kind |-> "path", path |-> path]
Literal(type, v)    == [kind |-> "lit", type |-> type, value |-> v]
SubExpr(path, args, hash) == [kind |-> "call", path |-> path, args |-> args, hash |-> hash]

-----------------------------------------------------------------------------
(* Looking at the tokens: check, peek_token; and expect, which goes on     *)
(* without the token when it is another.                                   *)
Is(p, type)   == p \in 1..Len(tokens) /\ tokens[p].type = type
IsId(p, name) == Is(p, "ID") /\ tokens[p].value = name
Past[type \in TokenTypes] == [p \in Nat |-> IF Is(p, type) THEN p + 1 ELSE p]
Result(v, p)  == [val |-> v, to |-> p]

PastAll(p, types) ==
    CHOOSE q \in p..(Len(tokens) + 1) : /\ \A r \in p..(q - 1) : tokens[r].type \in types
                                        /\ q <= Len(tokens) => tokens[q].type \notin types

Tilde(p, flag) == IF Is(p, "STRIP") THEN {flag} ELSE {}

(* parse_path                                                              *)
IsPart(p) == Is(p, "ID") \/ Is(p, "SEG_LITERAL")

(* ../ any number of times: how often, and what comes after.               *)
Ups[p \in Nat] == IF Is(p, "DOT_DOT")
                  THEN LET rest == Ups[Past["SLASH"][p + 1]] IN Result(rest.val + 1, rest.to)
                  ELSE Result(0, p)

(* .b.c  A dot that no name follows is left.                               *)
Parts[p \in Nat] ==
    IF Is(p, "DOT") /\ IsPart(p + 1)
    THEN LET rest == Parts[p + 2] IN Result(<<tokens[p + 1].value>> \o rest.val, rest.to)
    ELSE Result(<<>>, p)

(* a.b.c, this, this.a.b                                                   *)
Chain(path, p) ==
    IF ~IsPart(p) THEN Result(path, p)
    ELSE LET this == IsId(p, <<"this">>)
             rest == Parts[p + 1]
         IN  Result([path EXCEPT !.this  = @ \/ this,
                                 !.parts = IF this THEN rest.val
                                           ELSE <<tokens[p].value>> \o rest.val],
                    IF this /\ rest.val = <<>> THEN Past["DOT"][p + 1] ELSE rest.to)

(* @../name                                                                *)
DataName(path, p) ==
    IF Is(p, "ID") THEN Result([path EXCEPT !.parts = << <<"@">> \o tokens[p].value >>], p + 1)
    ELSE Result(path, p)

Path[p \in Nat] ==
    LET explicit == Is(p, "DOT") /\ Is(p + 1, "SLASH")
        from == IF explicit THEN p + 2 ELSE p
        data == IsId(from, <<"@">>) /\ Is(from + 1, "DOT_DOT")
        ups  == Ups[IF data THEN from + 1 ELSE from]
        path == [NoPath EXCEPT !.explicit = explicit, !.depth = ups.val]
    IN  IF data THEN DataName(path, ups.to)
        ELSE Chain([path EXCEPT !.this = Is(ups.to, "DOT")], Past["DOT"][ups.to])

LiteralTypes == {"STRING", "NUMBER", "BOOLEAN", "NULL", "UNDEFINED"}
ExpressionStart(p) ==
    p \in 1..Len(tokens)
    /\ tokens[p].type \in LiteralTypes \cup {"ID", "DOT", "DOT_DOT", "SEG_LITERAL", "OPEN_PAREN"}
HashArg(p) == Is(p, "ID") /\ tokens[p].value[1] # "@" /\ Is(p + 1, "EQUALS")

(* What follows the opening of a mustache, block or subexpression: path,   *)
(* parse_params and parse_hash_args, which call parse_expression, which    *)
(* calls parse_subexpr.  A key=value pair is dropped when no value follows. *)
Phrase[rule \in {"call", "expression", "params", "hash"}] == [p \in Nat |->
    CASE rule = "call" ->
            LET path == Path[p]
                args == Phrase["params"][path.to]
                hash == Phrase["hash"][args.to]
            IN  Result(SubExpr(path.val, args.val, hash.val), hash.to)
      [] rule = "expression" ->
            IF Is(p, "OPEN_PAREN")
            THEN LET call == Phrase["call"][p + 1] IN Result(call.val, Past["CLOSE_PAREN"][call.to])
            ELSE IF tokens[p].type \in LiteralTypes
            THEN Result(Literal(tokens[p].type, tokens[p].value), p + 1)
            ELSE LET path == Path[p] IN Result(Ref(path.val), path.to)
      [] rule = "params" ->
            IF ~ExpressionStart(p) \/ HashArg(p) THEN Result(<<>>, p)
            ELSE LET first == Phrase["expression"][p]
                     rest  == Phrase["params"][first.to]
                 IN  Result(<<first.val>> \o rest.val, rest.to)
      [] rule = "hash" ->
            IF ~HashArg(p) THEN Result(<<>>, p)
            ELSE IF ~ExpressionStart(p + 2) THEN Phrase["hash"][p + 2]
            ELSE LET value == Phrase["expression"][p + 2]
                     rest  == Phrase["hash"][value.to]
                 IN  Result(<< <<tokens[p].value, value.val>> >> \o rest.val, rest.to)]

(* as |x y|                                                                *)
BlockParams[p \in Nat] ==
    IF ~Is(p, "AS") THEN Result(<<>>, p)
    ELSE LET from == Past["PIPE"][p + 1]
             to   == PastAll(from, {"ID"})
         IN  Result([i \in 1..(to - from) |-> tokens[from + i - 1].value], Past["PIPE"][to])

-----------------------------------------------------------------------------
(* Tags.  p is the token after the one that opens the tag.                 *)
Calling(kind, call) ==
    [Node(kind) EXCEPT !.path = call.path, !.args = call.args, !.hash = call.hash]

Mustache(p, escaped, close) ==
    LET call == Phrase["call"][Past["STRIP"][p]]
    IN  Result([Calling("mustache", call.val) EXCEPT
                  !.escaped = escaped, !.tildes = Tilde(p, "left") \cup Tilde(call.to, "right")],
               Past[close][Past["STRIP"][call.to]])

(* {{#call as |params|}}                                                   *)
BlockHead(p, call, params) ==
    Result([Calling("block", call.val) EXCEPT
              !.params = params.val,
              !.tildes = Tilde(p, "openLeft") \cup Tilde(params.to, "openRight")],
           Past["CLOSE"][Past["STRIP"][params.to]])

PartialBlockHead[p \in Nat] ==
    LET call == Phrase["call"][p]
    IN  Result(Calling("pblock", call.val), Past["CLOSE"][Past["STRIP"][call.to]])

(* {{#*inline "name"}}                                                     *)
InlineHead[p \in Nat] ==
    LET name == IF IsId(p, <<"inline">>) THEN p + 1 ELSE p
    IN  Result([Node("inline") EXCEPT !.value = IF Is(name, "STRING") THEN tokens[name].value ELSE <<>>],
               Past["CLOSE"][Past["STRIP"][Past["STRING"][name]]])

(* {{> name context key=value}}, with one context at most; a dynamic name, *)
(* {{> (helper ...)}}, is the node's value.                                *)
Partial[p \in Nat] ==
    LET dynamic == Is(p, "OPEN_PAREN")
        name    == IF dynamic THEN Phrase["expression"][p] ELSE Path[p]
        given   == ExpressionStart(name.to) /\ ~HashArg(name.to)
        context == IF given THEN Phrase["expression"][name.to] ELSE Result("none", name.to)
        hash    == Phrase["hash"][context.to]
    IN  Result([Node("partial") EXCEPT
                  !.path  = IF dynamic THEN NoPath ELSE name.val,
                  !.value = IF dynamic THEN <<name.val>> ELSE <<>>,
                  !.args  = IF given THEN <<context.val>> ELSE <<>>,
                  !.hash  = hash.val],
               Past["CLOSE"][Past["STRIP"][hash.to]])

Comment[p \in Nat] == Result([Node("comment") EXCEPT
                        !.value = IF Is(p, "COMMENT_BODY") THEN tokens[p].value ELSE <<>>],
                     Past["COMMENT_BODY"][p])

RawBlock[p \in Nat] ==
    LET content == Past["CLOSE_RAW_BLOCK"][Past["ID"][p]]
        close   == Past["TEXT"][content]
    IN  Result([Node("raw") EXCEPT
                  !.path.parts = IF Is(p, "ID") THEN <<tokens[p].value>> ELSE <<>>,
                  !.value = IF Is(content, "TEXT") THEN tokens[content].value ELSE <<>>],
               Past["CLOSE_RAW_BLOCK"][Past["ID"][Past["OPEN_END_BLOCK"][close]]])

(* {{/name}}, if that is what comes: the name is not looked at.            *)
EndTagSlip(p, names) ==   \* Slip: the closing braces are taken for granted.
    IF ~Is(p, "OPEN_END_BLOCK") THEN Result({}, p)
    ELSE Result({}, PastAll(p + 1, {"STRIP", "ID", "DOT"}) + 1)

EndTag(p, names) ==
    IF ~Is(p, "OPEN_END_BLOCK") THEN Result({}, p)
    ELSE LET name  == Past["STRIP"][p + 1]
             right == IF names = 1 THEN Past["ID"][name] ELSE PastAll(name, {"ID", "DOT"})
         IN  Result(Tilde(p + 1, "closeLeft") \cup Tilde(right, "closeRight"),
                    Past["CLOSE"][Past["STRIP"][right]])

-----------------------------------------------------------------------------
(* Calls of parse_program and of what called them: role says for which     *)
(* program of the node, stmts what has been added to it.  A call whose     *)
(* role is "chain" is a parse_block that waits for the block of its        *)
(* {{else if}}.  swap: the block began with {{^ at the root.               *)
Call(role, node, swap) == [role |-> role, node |-> node, stmts |-> <<>>, swap |-> swap]

Top     == stack[Len(stack)]
IsRoot  == Top.role = "root"
Else(p) == Is(p, "OPEN") /\ IsId(p + 1, <<"else">>)
Branch  == Is(cursor, "OPEN_INVERSE") \/ Else(cursor)

(* Where the loop of parse_program stops.                                  *)
Stops == \/ cursor > Len(tokens) \/ Is(cursor, "EOF")
         \/ ~IsRoot /\ (Is(cursor, "OPEN_END_BLOCK") \/ Branch)

Parsing   == stack # <<>>
At(types) == Parsing /\ ~Stops /\ tokens[cursor].type \in types

Add(outcome) ==
    /\ \E parsed \in {outcome} :
         /\ stack' = [stack EXCEPT ![Len(stack)].stmts = Append(@, parsed.val)]
         /\ cursor' = parsed.to
    /\ UNCHANGED ast

AddText ==
    /\ At({"TEXT"})
    /\ Add(Result([Node("text") EXCEPT !.value = tokens[cursor].value], cursor + 1))

AddMustache ==
    /\ At({"OPEN", "OPEN_UNESC", "OPEN_UNESC_AMP"})
    /\ LET type == tokens[cursor].type
       IN  Add(Mustache(cursor + 1, type = "OPEN", IF type = "OPEN_UNESC" THEN "CLOSE_UNESC" ELSE "CLOSE"))

AddComment == At({"OPEN_COMMENT"}) /\ Add(Comment[cursor + 1])
AddPartial == At({"OPEN_PARTIAL"}) /\ Add(Partial[cursor + 1])
AddRaw     == At({"OPEN_RAW_BLOCK"}) /\ Add(RawBlock[cursor + 1])

(* The start of parse_block, whose first token is p: the calls that run are *)
(* then those of outer and its own.                                        *)
EnterBlock(p, outer, swap) ==
    /\ \E call \in {Phrase["call"][Past["STRIP"][p]]} : \E params \in {BlockParams[call.to]} :
         \E head \in {BlockHead(p, call, params)} :
            /\ stack' = Append(outer, Call("body", head.val, swap))
            /\ cursor' = head.to
    /\ UNCHANGED ast

Enter(outcome, role) ==
    /\ \E head \in {outcome} :
         /\ stack' = Append(stack, Call(role, head.val, FALSE))
         /\ cursor' = head.to
    /\ UNCHANGED ast

OpenBlock ==
    /\ At({"OPEN_BLOCK", "OPEN_INVERSE"})
    /\ EnterBlock(cursor + 1, stack, Is(cursor, "OPEN_INVERSE"))

OpenPartialBlock == At({"OPEN_PARTIAL_BLOCK"}) /\ Enter(PartialBlockHead[cursor + 1], "only")
OpenInline       == At({"OPEN_DECORATOR"}) /\ Enter(InlineHead[cursor + 1], "only")

(* What no statement begins with.                                          *)
SkipToken ==
    /\ At(TokenTypes \ {"TEXT", "OPEN", "OPEN_UNESC", "OPEN_UNESC_AMP", "OPEN_COMMENT",
                        "OPEN_PARTIAL", "OPEN_RAW_BLOCK", "OPEN_BLOCK", "OPEN_INVERSE",
                        "OPEN_PARTIAL_BLOCK", "OPEN_DECORATOR"})
    /\ cursor' = cursor + 1
    /\ UNCHANGED <<stack, ast>>

-----------------------------------------------------------------------------
(* The ends of programs.                                                   *)
Chained == {<<"if">>, <<"unless">>, <<"each">>, <<"with">>}

(* {{else}}, {{^}}: the inverse begins.  {{else if ...}}: a block of its   *)
(* own, the inverse's only statement.                                      *)
BeginInverse ==
    /\ Parsing /\ Stops /\ Top.role = "body" /\ Branch
    /\ LET p       == IF Else(cursor) THEN cursor + 2 ELSE cursor + 1
           chained == \E name \in Chained : IsId(p, name)
           outer   == [Top EXCEPT !.role = IF chained THEN "chain" ELSE "inverse",
                                  !.node.body = Top.stmts, !.stmts = <<>>]
       IN  IF chained THEN EnterBlock(p, Append(Front(stack), outer), FALSE)
           ELSE /\ stack' = Append(Front(stack), outer)
                /\ cursor' = Past["CLOSE"][Past["STRIP"][p]]
                /\ UNCHANGED ast

(* The finished node of a call; for an inverse block at the root body and  *)
(* inverse change places.                                                  *)
FinishSlip(call, node) == node   \* Slip: the branches stay in their places.

Finish(call, node) ==
    IF ~call.swap THEN node
    ELSE [node EXCEPT !.body = IF node.inverse = <<>> THEN <<>> ELSE node.inverse[1],
                      !.inverse = <<node.body>>]

(* parse_block returns: to parse_program, which adds the block, or to the  *)
(* parse_block of the {{else if}}, which returns in its turn.              *)
DeliverSlip(calls, node) == [calls EXCEPT ![Len(calls)].stmts = Append(@, node)]   \* Slip: to the caller, always.

Deliver(calls, node) ==
    LET k == CHOOSE i \in 1..Len(calls) : /\ calls[i].role # "chain"
                                          /\ \A j \in (i + 1)..Len(calls) : calls[j].role = "chain"
        Return(caller, n) == Finish(caller, [caller.node EXCEPT !.inverse = << <<n>> >>])
        returned == FoldRight(Return, SubSeq(calls, k + 1, Len(calls)), node)
    IN  [SubSeq(calls, 1, k) EXCEPT ![k].stmts = Append(@, returned)]

(* Slip: the inverse is taken for the body.                                 *)
EndBlockSlip ==
    /\ Parsing /\ Stops /\ ~IsRoot /\ ~(Top.role = "body" /\ Branch)
    /\ LET end  == EndTag(cursor, IF Top.node.kind = "inline" THEN 1 ELSE 0)
           node == [Top.node EXCEPT !.body = Top.stmts,
                                    !.tildes = IF Top.node.kind = "block" THEN @ \cup end.val ELSE @]
       IN  stack' = Deliver(Front(stack), Finish(Top, node)) /\ cursor' = end.to
    /\ UNCHANGED ast

(* The block's end tag, if there is one, and the block returned.           *)
EndBlock ==
    /\ Parsing /\ Stops /\ ~IsRoot /\ ~(Top.role = "body" /\ Branch)
    /\ LET end  == EndTag(cursor, IF Top.node.kind = "inline" THEN 1 ELSE 0)
           full == IF Top.role = "inverse" THEN [Top.node EXCEPT !.inverse = <<Top.stmts>>]
                   ELSE [Top.node EXCEPT !.body = Top.stmts]
           node == IF full.kind = "block" THEN [full EXCEPT !.tildes = @ \cup end.val] ELSE full
       IN  stack' = Deliver(Front(stack), Finish(Top, node)) /\ cursor' = end.to
    /\ UNCHANGED ast

EndRoot ==
    /\ Parsing /\ Stops /\ IsRoot
    /\ ast' = <<Top.stmts>>
    /\ stack' = <<>>
    /\ UNCHANGED cursor

-----------------------------------------------------------------------------
ParseInit == cursor = 1 /\ stack = <<Call("root", Node("program"), FALSE)>> /\ ast = <<>>

ParseNext ==
    \/ AddText \/ AddMustache \/ AddComment \/ AddPartial \/ AddRaw
    \/ OpenBlock \/ OpenPartialBlock \/ OpenInline \/ SkipToken
    \/ BeginInverse \/ EndBlock \/ EndRoot

=============================================================================
