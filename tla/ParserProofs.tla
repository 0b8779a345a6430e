---------------------------- MODULE ParserProofs ----------------------------
(***************************************************************************)
(* Theorems about hbs_compile, for every template: the parser reads no     *)
(* token after the EOF, whatever the tokens break off in, and its calls    *)
(* nest as its functions do.                                               *)
(***************************************************************************)
EXTENDS LexerProofs

-----------------------------------------------------------------------------
(* The tokens the parser is given: the last one is the only EOF.           *)
Complete ==
    /\ tokens \in Seq(TokenSet) /\ tokens # <<>>
    /\ \A k \in 1..Len(tokens) : tokens[k].type = "EOF" <=> k = Len(tokens)

Places == 1..Len(tokens)

(* What may be taken.                                                      *)
Taken == TokenTypes \ {"EOF"}

LEMMA Ends ==
    ASSUME Complete
    PROVE  /\ Len(tokens) \in Nat /\ Len(tokens) \in Places
           /\ \A k \in Places : tokens[k] \in TokenSet /\ tokens[k].type \in TokenTypes
           /\ \A k \in Places : tokens[k].type # "EOF" => k + 1 \in Places
<1>1. Len(tokens) \in Nat /\ Len(tokens) # 0
  BY EmptySeq DEF Complete
<1>2. \A k \in Places : tokens[k] \in TokenSet
  BY ElementOfSeq DEF Complete, Places
<1> QED
  BY <1>1, <1>2 DEF Complete, Places, TokenSet

LEMMA PastIn ==
    ASSUME Complete, NEW p \in Places, NEW type \in Taken
    PROVE  /\ Past[type][p] \in p..Len(tokens)
           /\ Past[type][p] \in Places
           /\ Is(p, type) => Past[type][p] = p + 1
           /\ ~Is(p, type) => Past[type][p] = p
<1>1. p \in Nat /\ type \in TokenTypes
  BY DEF Places, Taken
<1>2. Past[type][p] = IF Is(p, type) THEN p + 1 ELSE p
  BY <1>1 DEF Past
<1>3. Is(p, type) => p + 1 \in Places
  BY Ends DEF Is, Places, Taken
<1> QED
  BY <1>2, <1>3, Ends DEF Places

LEMMA PastAllIn ==
    ASSUME Complete, NEW p \in Places, NEW types \in SUBSET Taken
    PROVE  PastAll(p, types) \in p..Len(tokens)
<1> DEFINE n == Len(tokens)
           S == {q \in p..n : tokens[q].type \notin types}
<1>1. n \in Nat /\ p \in 1..n /\ tokens[n].type = "EOF"
  BY Ends DEF Places, Complete
<1> HIDE DEF n
<1>2. S \in SUBSET Nat /\ n \in S
  BY <1>1 DEF Taken
<1>3. PICK m \in S : \A k \in S : m <= k
  BY <1>2, LeastNatural
<1>4. \A r \in p..(m - 1) : tokens[r].type \in types
  <2> SUFFICES ASSUME NEW r \in p..(m - 1), tokens[r].type \notin types PROVE FALSE
    OBVIOUS
  <2> QED
    BY <1>1, <1>3
<1>5. \E q \in p..(n + 1) : /\ \A r \in p..(q - 1) : tokens[r].type \in types
                            /\ q <= n => tokens[q].type \notin types
  BY <1>1, <1>3, <1>4
<1>6. /\ PastAll(p, types) \in p..(n + 1)
      /\ \A r \in p..(PastAll(p, types) - 1) : tokens[r].type \in types
  BY <1>5 DEF PastAll, n
<1> QED
  BY <1>1, <1>6 DEF n, Taken

-----------------------------------------------------------------------------
(* What reads on from place to place: that the functions are defined by    *)
(* their equations, and that they end among the tokens.                    *)
From(k) == {p \in Nat : p >= k}

(* ../                                                                     *)
UpsFrom(f, p) ==
    IF Is(p, "DOT_DOT")
    THEN LET rest == f[Past["SLASH"][p + 1]] IN Result(rest.val + 1, rest.to)
    ELSE Result(0, p)

LEMMA AfterUps ==
    ASSUME Complete, NEW p \in Nat, Is(p, "DOT_DOT")
    PROVE  /\ p \in Places /\ Past["SLASH"][p + 1] \in Places
           /\ Past["SLASH"][p + 1] \in (p + 1)..Len(tokens)
<1>1. p \in Places /\ p + 1 \in Places
  BY Ends DEF Is, Places
<1>2. "SLASH" \in Taken
  BY DEF Taken, TokenTypes, Marks
<1> QED
  BY <1>1, <1>2, PastIn

LEMMA UpsDefined == ASSUME Complete PROVE \A p \in Nat : Ups[p] = UpsFrom(Ups, p)
<1> DEFINE n == Len(tokens)
           Good(f, k) == f = [p \in From(k) |-> UpsFrom(f, p)]
           S == {j \in 0..(n + 1) : \E f : Good(f, n + 1 - j)}
<1>1. n \in Nat /\ n + 1 \in Nat /\ \A p \in Nat : Is(p, "DOT_DOT") => p <= n
  BY Ends DEF Is
<1> HIDE DEF n
<1>2. 0 \in S
  <2> DEFINE f == [p \in From(n + 1) |-> Result(0, p)]
  <2>1. \A p \in From(n + 1) : ~Is(p, "DOT_DOT")
    BY <1>1 DEF From
  <2>2. \A p \in From(n + 1) : UpsFrom(f, p) = Result(0, p)
    BY <2>1 DEF UpsFrom
  <2> HIDE DEF f
  <2>3. Good(f, n + 1)
    BY <2>2 DEF f
  <2> QED
    BY <1>1, <2>3
<1>3. \A j \in 0..((n + 1) - 1) : j \in S => j + 1 \in S
  <2> SUFFICES ASSUME NEW j \in 0..n, j \in S PROVE j + 1 \in S
    BY <1>1
  <2> DEFINE k == n - j
  <2>1. k \in Nat /\ n + 1 - (j + 1) = k /\ n + 1 - j = k + 1 /\ j + 1 \in 0..(n + 1)
    BY <1>1
  <2> HIDE DEF k
  <2>2. PICK f : Good(f, k + 1)
    BY <2>1
  <2> DEFINE g == [p \in From(k) |-> IF p = k THEN UpsFrom(f, k) ELSE f[p]]
  <2>3. ASSUME NEW p \in From(k) PROVE UpsFrom(g, p) = UpsFrom(f, p)
    <3>1. ASSUME Is(p, "DOT_DOT") PROVE g[Past["SLASH"][p + 1]] = f[Past["SLASH"][p + 1]]
      <4> DEFINE q == Past["SLASH"][p + 1]
      <4>1. q \in From(k) /\ q # k
        BY <2>1, <2>3, <3>1, AfterUps, Ends DEF From
      <4> HIDE DEF q
      <4>2. g[q] = f[q]
        BY <4>1
      <4> HIDE DEF g
      <4> QED
        BY <4>2 DEF q
    <3> HIDE DEF g
    <3> QED
      BY <3>1 DEF UpsFrom
  <2>4. \A p \in From(k) : g[p] = UpsFrom(f, p)
    <3> SUFFICES ASSUME NEW p \in From(k), p # k PROVE f[p] = UpsFrom(f, p)
      OBVIOUS
    <3>1. p \in From(k + 1)
      BY <2>1 DEF From
    <3> QED
      BY <2>2, <3>1
  <2>5. g = [p \in From(k) |-> g[p]]
    OBVIOUS
  <2> HIDE DEF g
  <2>6. Good(g, k)
    BY <2>3, <2>4, <2>5
  <2> QED
    BY <2>1, <2>6
<1> HIDE DEF S
<1>4. n + 1 \in S
  <2>1. 0..(n + 1) \subseteq S
    BY <1>1, <1>2, <1>3, Induction
  <2> QED
    BY <1>1, <2>1
<1>5. PICK f : f = [p \in Nat |-> UpsFrom(f, p)]
  <2>1. PICK f : Good(f, 0)
    BY <1>1, <1>4 DEF S
  <2>2. From(0) = Nat
    BY DEF From
  <2> QED
    BY <2>1, <2>2
<1>6. Ups = [p \in Nat |-> UpsFrom(Ups, p)]
  BY <1>5 DEF Ups, UpsFrom
<1> QED
  BY <1>6

LEMMA UpsIn ==
    ASSUME Complete, NEW p \in Places
    PROVE  /\ Ups[p].to \in p..Len(tokens) /\ Ups[p].to \in Places
           /\ Is(p, "DOT_DOT") => Ups[p].to # p
           /\ ~Is(p, "DOT_DOT") => Ups[p].to = p
<1> DEFINE n == Len(tokens)
           S == {q \in Places : Ups[q].to \in q..n /\ (Is(q, "DOT_DOT") => Ups[q].to # q)}
<1>1. n \in Nat /\ Places = 1..n
  BY Ends DEF Places
<1>2. ASSUME NEW q \in Places, ~Is(q, "DOT_DOT") PROVE Ups[q].to = q
  <2>1. Ups[q] = UpsFrom(Ups, q)
    BY UpsDefined DEF Places
  <2> QED
    BY <1>2, <2>1 DEF UpsFrom, Result
<1> HIDE DEF n
<1>3. \A q \in 1..n : (\A r \in (q + 1)..n : r \in S) => q \in S
  <2> SUFFICES ASSUME NEW q \in 1..n, \A r \in (q + 1)..n : r \in S PROVE q \in S
    OBVIOUS
  <2>1. CASE ~Is(q, "DOT_DOT")
    BY <1>1, <1>2, <2>1
  <2>2. CASE Is(q, "DOT_DOT")
    <3> DEFINE r == Past["SLASH"][q + 1]
    <3>1. r \in (q + 1)..n
      BY <2>2, AfterUps DEF n
    <3>2. Ups[q].to = Ups[r].to
      <4>1. Ups[q] = UpsFrom(Ups, q)
        BY UpsDefined
      <4> QED
        BY <2>2, <4>1 DEF UpsFrom, Result
    <3> HIDE DEF r
    <3>3. Ups[r].to \in r..n
      BY <3>1
    <3> QED
      BY <1>1, <3>1, <3>2, <3>3
  <2> QED
    BY <2>1, <2>2
<1> HIDE DEF S
<1>4. \A q \in 1..n : q \in S
  BY <1>1, <1>3, Downward
<1>5. p \in S
  BY <1>1, <1>4
<1> QED
  BY <1>1, <1>2, <1>5 DEF S, n

(* .b.c                                                                    *)
PartsFrom(f, p) ==
    IF Is(p, "DOT") /\ IsPart(p + 1)
    THEN LET rest == f[p + 2] IN Result(<<tokens[p + 1].value>> \o rest.val, rest.to)
    ELSE Result(<<>>, p)

LEMMA AfterPart ==
    ASSUME Complete, NEW p \in Nat, IsPart(p)
    PROVE  p \in Places /\ p + 1 \in Places
BY Ends DEF IsPart, Is, Places

LEMMA PartsDefined == ASSUME Complete PROVE \A p \in Nat : Parts[p] = PartsFrom(Parts, p)
<1> DEFINE n == Len(tokens)
           More(p) == Is(p, "DOT") /\ IsPart(p + 1)
           Good(f, k) == f = [p \in From(k) |-> PartsFrom(f, p)]
           S == {j \in 0..(n + 1) : \E f : Good(f, n + 1 - j)}
<1>1. n \in Nat /\ n + 1 \in Nat /\ \A p \in Nat : More(p) => p <= n
  BY Ends DEF Is
<1> HIDE DEF n
<1>2. 0 \in S
  <2> DEFINE f == [p \in From(n + 1) |-> Result(<<>>, p)]
  <2>1. \A p \in From(n + 1) : ~More(p)
    BY <1>1 DEF From
  <2>2. \A p \in From(n + 1) : PartsFrom(f, p) = Result(<<>>, p)
    BY <2>1 DEF PartsFrom
  <2> HIDE DEF f
  <2>3. Good(f, n + 1)
    BY <2>2 DEF f
  <2> QED
    BY <1>1, <2>3
<1>3. \A j \in 0..((n + 1) - 1) : j \in S => j + 1 \in S
  <2> SUFFICES ASSUME NEW j \in 0..n, j \in S PROVE j + 1 \in S
    BY <1>1
  <2> DEFINE k == n - j
  <2>1. k \in Nat /\ n + 1 - (j + 1) = k /\ n + 1 - j = k + 1 /\ j + 1 \in 0..(n + 1)
    BY <1>1
  <2> HIDE DEF k
  <2>2. PICK f : Good(f, k + 1)
    BY <2>1
  <2> DEFINE g == [p \in From(k) |-> IF p = k THEN PartsFrom(f, k) ELSE f[p]]
  <2>3. ASSUME NEW p \in From(k) PROVE PartsFrom(g, p) = PartsFrom(f, p)
    <3>1. p + 2 \in From(k) /\ p + 2 # k
      BY <2>1 DEF From
    <3>2. g[p + 2] = f[p + 2]
      BY <3>1
    <3> HIDE DEF g
    <3> QED
      BY <3>2 DEF PartsFrom
  <2>4. \A p \in From(k) : g[p] = PartsFrom(f, p)
    <3> SUFFICES ASSUME NEW p \in From(k), p # k PROVE f[p] = PartsFrom(f, p)
      OBVIOUS
    <3>1. p \in From(k + 1)
      BY <2>1 DEF From
    <3> QED
      BY <2>2, <3>1
  <2>5. g = [p \in From(k) |-> g[p]]
    OBVIOUS
  <2> HIDE DEF g
  <2>6. Good(g, k)
    BY <2>3, <2>4, <2>5
  <2> QED
    BY <2>1, <2>6
<1> HIDE DEF S
<1>4. n + 1 \in S
  <2>1. 0..(n + 1) \subseteq S
    BY <1>1, <1>2, <1>3, Induction
  <2> QED
    BY <1>1, <2>1
<1>5. PICK f : f = [p \in Nat |-> PartsFrom(f, p)]
  <2>1. PICK f : Good(f, 0)
    BY <1>1, <1>4 DEF S
  <2>2. From(0) = Nat
    BY DEF From
  <2> QED
    BY <2>1, <2>2
<1>6. Parts = [p \in Nat |-> PartsFrom(Parts, p)]
  BY <1>5 DEF Parts, PartsFrom
<1> QED
  BY <1>6

LEMMA PartsIn ==
    ASSUME Complete, NEW p \in Places
    PROVE  Parts[p].to \in p..Len(tokens)
<1> DEFINE n == Len(tokens)
           S == {q \in Places : Parts[q].to \in q..n}
<1>1. n \in Nat /\ Places = 1..n
  BY Ends DEF Places
<1> HIDE DEF n
<1>2. \A q \in 1..n : (\A r \in (q + 1)..n : r \in S) => q \in S
  <2> SUFFICES ASSUME NEW q \in 1..n, \A r \in (q + 1)..n : r \in S PROVE q \in S
    OBVIOUS
  <2>1. CASE ~(Is(q, "DOT") /\ IsPart(q + 1))
    <3>1. Parts[q].to = q
      <4>1. Parts[q] = PartsFrom(Parts, q)
        BY PartsDefined
      <4> QED
        BY <2>1, <4>1 DEF PartsFrom, Result
    <3> QED
      BY <1>1, <3>1
  <2>2. CASE Is(q, "DOT") /\ IsPart(q + 1)
    <3>1. q + 2 \in Places
      BY <2>2, AfterPart
    <3>2. Parts[q].to = Parts[q + 2].to
      <4>1. Parts[q] = PartsFrom(Parts, q)
        BY PartsDefined
      <4> QED
        BY <2>2, <4>1 DEF PartsFrom, Result
    <3>3. Parts[q + 2].to \in (q + 2)..n
      BY <1>1, <3>1
    <3> QED
      BY <1>1, <3>1, <3>2, <3>3
  <2> QED
    BY <2>1, <2>2
<1> HIDE DEF S
<1>3. \A q \in 1..n : q \in S
  BY <1>1, <1>2, Downward
<1> QED
  BY <1>1, <1>3 DEF S, n


(* A path.                                                                 *)
LEMMA Dots == {"DOT", "DOT_DOT", "SLASH", "STRIP", "EQUALS", "PIPE", "OPEN_PAREN", "CLOSE_PAREN", "ID",
               "STRING", "TEXT", "SEG_LITERAL", "AS", "COMMENT_BODY", "CLOSE", "CLOSE_UNESC",
               "CLOSE_RAW_BLOCK", "OPEN_END_BLOCK"} \subseteq Taken
  BY DEF Taken, TokenTypes, Marks, Valued, Closes, Opens

LEMMA ChainIn ==
    ASSUME Complete, NEW path, NEW p \in Places
    PROVE  Chain(path, p).to \in p..Len(tokens) /\ (IsPart(p) => Chain(path, p).to # p)
<1> DEFINE n == Len(tokens)
<1>1. n \in Nat /\ p \in 1..n
  BY Ends DEF Places
<1>2. CASE ~IsPart(p)
  BY <1>1, <1>2 DEF Chain, Result
<1>3. CASE IsPart(p)
  <2>1. p + 1 \in Places
    BY <1>3, AfterPart DEF Places
  <2>2. Parts[p + 1].to \in (p + 1)..n
    BY <2>1, PartsIn
  <2>3. Past["DOT"][p + 1] \in (p + 1)..n
    BY <2>1, PastIn, Dots
  <2>4. Chain(path, p).to \in {Parts[p + 1].to, Past["DOT"][p + 1]}
    BY <1>3 DEF Chain, Result
  <2> HIDE DEF n
  <2> QED
    BY <1>1, <2>2, <2>3, <2>4 DEF n
<1> QED
  BY <1>2, <1>3

LEMMA DataNameIn ==
    ASSUME Complete, NEW path, NEW p \in Places
    PROVE  DataName(path, p).to \in p..Len(tokens)
<1>1. Len(tokens) \in Nat /\ p \in 1..Len(tokens) /\ (Is(p, "ID") => p + 1 \in 1..Len(tokens))
  BY Ends DEF Places, Is
<1> QED
  BY <1>1 DEF DataName, Result

PathStart(p) == p \in Places /\ tokens[p].type \in {"ID", "DOT", "DOT_DOT", "SEG_LITERAL"}

LEMMA PathIn ==
    ASSUME Complete, NEW p \in Places
    PROVE  /\ Path[p].to \in p..Len(tokens) /\ Path[p].to \in Places
           /\ PathStart(p) => Path[p].to # p
<1> DEFINE n == Len(tokens)
           explicit == Is(p, "DOT") /\ Is(p + 1, "SLASH")
           from == IF explicit THEN p + 2 ELSE p
           data == IsId(from, <<"@">>) /\ Is(from + 1, "DOT_DOT")
           start == IF data THEN from + 1 ELSE from
           ups  == Ups[start]
           path == [NoPath EXCEPT !.explicit = explicit, !.depth = ups.val]
           dotted == [path EXCEPT !.this = Is(ups.to, "DOT")]
           name == Past["DOT"][ups.to]
<1>1. n \in Nat /\ Places = 1..n /\ p \in Nat
  BY Ends DEF Places
<1>2. from \in Places /\ (explicit => from = p + 2) /\ (~explicit => from = p)
  <2>1. explicit => p + 1 \in Places /\ (p + 1) + 1 \in Places
    BY Ends DEF Is, Places
  <2> QED
    BY <1>1, <2>1
<1>3. Path[p] = IF data THEN DataName(path, ups.to) ELSE Chain(dotted, name)
  BY <1>1 DEF Path
<1> HIDE DEF from
<1>4. start \in Places /\ (data => start = from + 1) /\ (~data => start = from)
  <2>1. data => from + 1 \in Places
    BY DEF Is, Places
  <2> QED
    BY <1>2, <2>1
<1> HIDE DEF data
<1> HIDE DEF start
<1>5. /\ ups.to \in start..n /\ ups.to \in Places
      /\ Is(start, "DOT_DOT") => ups.to # start
      /\ ~Is(start, "DOT_DOT") => ups.to = start
  BY <1>4, UpsIn
<1> DEFINE u == ups.to
<1>6. u \in start..n /\ u \in Places
  BY <1>5
<1>7. name \in u..n /\ name \in Places /\ (Is(u, "DOT") => name = u + 1) /\ (~Is(u, "DOT") => name = u)
  BY <1>6, PastIn, Dots
<1>8. Chain(dotted, name).to \in name..n /\ (IsPart(name) => Chain(dotted, name).to # name)
  BY <1>7, ChainIn
<1>9. DataName(path, u).to \in u..n
  BY <1>6, DataNameIn
<1> DEFINE to == Path[p].to
<1>10. ASSUME data PROVE to \in p..n /\ to # p
  <2>1. to = DataName(path, u).to
    BY <1>3, <1>10
  <2> HIDE DEF n, u, explicit, path, to
  <2> QED
    BY <1>1, <1>2, <1>4, <1>6, <1>9, <1>10, <2>1
<1>11. ASSUME ~data PROVE to \in p..n /\ (PathStart(p) => to # p)
  <2>1. to = Chain(dotted, name).to
    BY <1>3, <1>11
  <2> DEFINE c == Chain(dotted, name).to
  <2>2. c \in name..n /\ (IsPart(name) => c # name) /\ to = c
    BY <1>8, <2>1
  <2>3. PathStart(p) /\ ~explicit => name # p \/ IsPart(name)
    <3> SUFFICES ASSUME PathStart(p), ~explicit, name = p PROVE IsPart(name)
      OBVIOUS
    <3>1. start = p
      BY <1>2, <1>4, <1>11
    <3> HIDE DEF explicit
    <3>2. u = p
      <4> HIDE DEF n, u, name
      <4> QED
        BY <1>1, <1>6, <1>7, <3>1
    <3>3. ~Is(p, "DOT") /\ ~Is(p, "DOT_DOT")
      <4>1. ~Is(p, "DOT_DOT")
        BY <1>5, <3>1, <3>2
      <4>2. ~Is(p, "DOT")
        <5> HIDE DEF u, name
        <5> QED
          BY <1>1, <1>7, <3>2
      <4> QED
        BY <4>1, <4>2
    <3> HIDE DEF u, name
    <3> QED
      BY <3>3 DEF PathStart, IsPart, Is, Places
  <2> HIDE DEF n, u, explicit, path, name, c, to
  <2> QED
    BY <1>1, <1>2, <1>4, <1>6, <1>7, <1>11, <2>2, <2>3
<1> HIDE DEF to
<1>12. to \in p..n /\ (PathStart(p) => to # p)
  BY <1>10, <1>11
<1>13. to \in Places
  BY <1>1, <1>12
<1> QED
  BY <1>12, <1>13 DEF to, n


-----------------------------------------------------------------------------
(* Calls, expressions, arguments and pairs: four functions that call each  *)
(* other.  Each calls the others with a later place, or with the same one  *)
(* and in one order, so that a number tells which comes before which.      *)
Rules == {"call", "expression", "params", "hash"}

PhraseFrom(f, rule, p) ==
    CASE rule = "call" ->
            LET path == Path[p]
                args == f["params"][path.to]
                hash == f["hash"][args.to]
            IN  Result(SubExpr(path.val, args.val, hash.val), hash.to)
      [] rule = "expression" ->
            IF Is(p, "OPEN_PAREN")
            THEN LET call == f["call"][p + 1] IN Result(call.val, Past["CLOSE_PAREN"][call.to])
            ELSE IF tokens[p].type \in LiteralTypes
            THEN Result(Literal(tokens[p].type, tokens[p].value), p + 1)
            ELSE LET path == Path[p] IN Result(Ref(path.val), path.to)
      [] rule = "params" ->
            IF ~ExpressionStart(p) \/ HashArg(p) THEN Result(<<>>, p)
            ELSE LET first == f["expression"][p]
                     rest  == f["params"][first.to]
                 IN  Result(<<first.val>> \o rest.val, rest.to)
      [] rule = "hash" ->
            IF ~HashArg(p) THEN Result(<<>>, p)
            ELSE IF ~ExpressionStart(p + 2) THEN f["hash"][p + 2]
            ELSE LET value == f["expression"][p + 2]
                     rest  == f["hash"][value.to]
                 IN  Result(<< <<tokens[p].value, value.val>> >> \o rest.val, rest.to)

Rank(rule) == CASE rule = "expression" -> 0 [] rule = "params" -> 1
                [] rule = "hash" -> 2 [] rule = "call" -> 3
Turn(rule, p) == 4 * (Len(tokens) - p) + Rank(rule)

(* What is read ends among the tokens, and an expression is not empty.     *)
Advances(read, rule, p) ==
    /\ read.to \in p..Len(tokens)
    /\ rule = "expression" /\ ExpressionStart(p) => read.to # p

InRange(f, c)  == \A rule \in Rules : \A p \in Places : Turn(rule, p) < c => Advances(f[rule][p], rule, p)
Agree(f, g, c) == \A rule \in Rules : \A p \in Places : Turn(rule, p) < c => f[rule][p] = g[rule][p]

LEMMA Turns ==
    ASSUME Complete, NEW p \in Places
    PROVE  /\ \A rule \in Rules : Turn(rule, p) \in Nat /\ Turn(rule, p) < 4 * Len(tokens)
           /\ \A q \in p..Len(tokens) : /\ Turn("params", q) < Turn("call", p)
                                        /\ Turn("hash", q) < Turn("call", p)
           /\ Turn("expression", p) < Turn("params", p)
           /\ \A q \in (p + 1)..Len(tokens) : /\ Turn("call", q) < Turn("expression", p)
                                              /\ Turn("params", q) < Turn("params", p)
                                              /\ Turn("hash", q) < Turn("hash", p)
                                              /\ Turn("expression", q) < Turn("hash", p)
<1> DEFINE n == Len(tokens)
<1>1. n \in Nat /\ p \in 1..n
  BY Ends DEF Places
<1>2. Rank("expression") = 0 /\ Rank("params") = 1 /\ Rank("hash") = 2 /\ Rank("call") = 3
  BY DEF Rank
<1>3. \A rule \in Rules : Rank(rule) \in {0, 1, 2, 3}
  BY <1>2 DEF Rules
<1> HIDE DEF n
<1>4. \A rule \in Rules : 4 * (n - p) + Rank(rule) \in Nat /\ 4 * (n - p) + Rank(rule) < 4 * n
  BY <1>1, <1>3
<1>5. \A q \in p..n : 4 * (n - q) + 2 < 4 * (n - p) + 3
  BY <1>1
<1>6. \A q \in (p + 1)..n : 4 * (n - q) + 3 < 4 * (n - p)
  BY <1>1
<1> QED
  BY <1>1, <1>2, <1>4, <1>5, <1>6 DEF Turn, n

LEMMA AfterKey ==
    ASSUME Complete, NEW p \in Nat, HashArg(p)
    PROVE  p \in Places /\ p + 2 \in Places
<1>1. p \in Places /\ p + 1 \in Places /\ (p + 1) + 1 \in Places
  BY Ends DEF HashArg, Is, Places
<1> QED
  BY <1>1 DEF Places

LEMMA CallStep ==
    ASSUME Complete, NEW p \in Places, NEW f, NEW g,
           InRange(f, Turn("call", p)), Agree(f, g, Turn("call", p))
    PROVE  /\ PhraseFrom(f, "call", p) = PhraseFrom(g, "call", p)
           /\ Advances(PhraseFrom(f, "call", p), "call", p)
<1> DEFINE n == Len(tokens)
           a == Path[p].to
           args == f["params"][a]
           b == args.to
           hash == f["hash"][b]
<1>1. n \in Nat /\ Places = 1..n
  BY Ends DEF Places
<1>2. a \in p..n /\ a \in Places
  BY PathIn
<1>3. Advances(args, "params", a) /\ args = g["params"][a]
  BY <1>2, Turns DEF InRange, Agree, Rules
<1>4. b \in a..n
  BY <1>3 DEF Advances
<1> HIDE DEF n, a, args
<1>5. b \in p..n /\ b \in Places
  BY <1>1, <1>2, <1>4
<1>6. Advances(hash, "hash", b) /\ hash = g["hash"][b]
  BY <1>5, Turns DEF InRange, Agree, Rules, n
<1>7. PhraseFrom(f, "call", p) = Result(SubExpr(Path[p].val, args.val, hash.val), hash.to)
  BY DEF PhraseFrom, args, a
<1>8. PhraseFrom(g, "call", p) = Result(SubExpr(Path[p].val, args.val, hash.val), hash.to)
  <2> DEFINE h == g["params"][Path[p].to]
  <2>1. h = args
    BY <1>3 DEF a
  <2>2. PhraseFrom(g, "call", p) = Result(SubExpr(Path[p].val, h.val, g["hash"][h.to].val), g["hash"][h.to].to)
    BY DEF PhraseFrom
  <2> HIDE DEF h
  <2> QED
    BY <1>6, <2>1, <2>2
<1>9. hash.to \in b..n
  BY <1>6 DEF Advances, n
<1> HIDE DEF b, hash
<1>10. hash.to \in p..n
  BY <1>1, <1>5, <1>9
<1> QED
  BY <1>7, <1>8, <1>10 DEF Advances, Result, n


LEMMA ExpressionStep ==
    ASSUME Complete, NEW p \in Places, NEW f, NEW g,
           InRange(f, Turn("expression", p)), Agree(f, g, Turn("expression", p))
    PROVE  /\ PhraseFrom(f, "expression", p) = PhraseFrom(g, "expression", p)
           /\ Advances(PhraseFrom(f, "expression", p), "expression", p)
<1> DEFINE n == Len(tokens)
<1>1. n \in Nat /\ Places = 1..n
  BY Ends DEF Places
<1>2. CASE Is(p, "OPEN_PAREN")
  <2> DEFINE call == f["call"][p + 1]
             to == Past["CLOSE_PAREN"][call.to]
  <2>1. p + 1 \in Places /\ p + 1 \in (p + 1)..n
    BY <1>2, Ends DEF Is, Places
  <2>2. Advances(call, "call", p + 1) /\ call = g["call"][p + 1]
    BY <2>1, Turns DEF InRange, Agree, Rules
  <2>3. call.to \in (p + 1)..n
    BY <2>2 DEF Advances
  <2>4. call.to \in Places
    <3> HIDE DEF call, n
    <3> QED
      BY <1>1, <2>3
  <2>5. to \in (call.to)..n
    BY <2>4, PastIn, Dots
  <2>6. PhraseFrom(f, "expression", p) = Result(call.val, to)
    BY <1>2 DEF PhraseFrom
  <2>7. PhraseFrom(g, "expression", p) = Result(call.val, to)
    <3> DEFINE h == g["call"][p + 1]
    <3>1. PhraseFrom(g, "expression", p) = Result(h.val, Past["CLOSE_PAREN"][h.to])
      BY <1>2 DEF PhraseFrom
    <3>2. h = call
      BY <2>2
    <3> HIDE DEF h
    <3> QED
      BY <3>1, <3>2
  <2> DEFINE from == call.to
  <2> HIDE DEF to
  <2>8. to \in p..n /\ to # p
    <3>1. from \in (p + 1)..n /\ to \in from..n
      BY <2>3, <2>5
    <3> HIDE DEF from, n
    <3> QED
      BY <1>1, <3>1
  <2> QED
    BY <2>6, <2>7, <2>8 DEF Advances, Result
<1>3. CASE ~Is(p, "OPEN_PAREN") /\ tokens[p].type \in LiteralTypes
  <2>1. p + 1 \in p..n /\ p + 1 # p
    BY <1>1, <1>3, Ends DEF LiteralTypes, Places
  <2>2. PhraseFrom(f, "expression", p) = Result(Literal(tokens[p].type, tokens[p].value), p + 1)
    BY <1>3 DEF PhraseFrom
  <2>3. PhraseFrom(g, "expression", p) = Result(Literal(tokens[p].type, tokens[p].value), p + 1)
    BY <1>3 DEF PhraseFrom
  <2> QED
    BY <2>1, <2>2, <2>3 DEF Advances, Result
<1>4. CASE ~Is(p, "OPEN_PAREN") /\ tokens[p].type \notin LiteralTypes
  <2>1. PhraseFrom(f, "expression", p) = Result(Ref(Path[p].val), Path[p].to)
    BY <1>4 DEF PhraseFrom
  <2>2. PhraseFrom(g, "expression", p) = Result(Ref(Path[p].val), Path[p].to)
    BY <1>4 DEF PhraseFrom
  <2>3. ExpressionStart(p) => PathStart(p)
    BY <1>4 DEF ExpressionStart, PathStart, Is, Places
  <2> QED
    BY <2>1, <2>2, <2>3, PathIn DEF Advances, Result
<1> QED
  BY <1>2, <1>3, <1>4

LEMMA ParamsStep ==
    ASSUME Complete, NEW p \in Places, NEW f, NEW g,
           InRange(f, Turn("params", p)), Agree(f, g, Turn("params", p))
    PROVE  /\ PhraseFrom(f, "params", p) = PhraseFrom(g, "params", p)
           /\ Advances(PhraseFrom(f, "params", p), "params", p)
<1> DEFINE n == Len(tokens)
<1>1. n \in Nat /\ Places = 1..n
  BY Ends DEF Places
<1>2. CASE ~ExpressionStart(p) \/ HashArg(p)
  <2>1. PhraseFrom(f, "params", p) = Result(<<>>, p)
    BY <1>2 DEF PhraseFrom
  <2>2. PhraseFrom(g, "params", p) = Result(<<>>, p)
    BY <1>2 DEF PhraseFrom
  <2>3. p \in p..n
    BY <1>1
  <2> QED
    BY <2>1, <2>2, <2>3 DEF Advances, Result
<1>3. CASE ~(~ExpressionStart(p) \/ HashArg(p))
  <2> DEFINE first == f["expression"][p]
             a == first.to
             rest == f["params"][a]
             to == rest.to
  <2>1. Advances(first, "expression", p) /\ first = g["expression"][p]
    BY Turns DEF InRange, Agree, Rules
  <2>2. a \in p..n /\ a # p
    BY <1>3, <2>1 DEF Advances
  <2>3. PhraseFrom(f, "params", p) = Result(<<first.val>> \o rest.val, to)
    BY <1>3 DEF PhraseFrom
  <2>4. PhraseFrom(g, "params", p) = Result(<<first.val>> \o g["params"][a].val, g["params"][a].to)
    <3> DEFINE h == g["expression"][p]
    <3>1. PhraseFrom(g, "params", p) = Result(<<h.val>> \o g["params"][h.to].val, g["params"][h.to].to)
      BY <1>3 DEF PhraseFrom
    <3>2. h = first
      BY <2>1
    <3> HIDE DEF h
    <3> QED
      BY <3>1, <3>2
  <2> HIDE DEF a, first
  <2>5. a \in (p + 1)..n /\ a \in Places
    <3> HIDE DEF n
    <3> QED
      BY <1>1, <2>2
  <2>6. Advances(rest, "params", a) /\ rest = g["params"][a]
    BY <2>5, Turns DEF InRange, Agree, Rules
  <2>7. to \in a..n
    BY <2>6 DEF Advances
  <2>8. PhraseFrom(g, "params", p) = Result(<<first.val>> \o rest.val, to)
    BY <2>4, <2>6
  <2> HIDE DEF to
  <2>9. to \in p..n
    <3> HIDE DEF n
    <3> QED
      BY <1>1, <2>5, <2>7
  <2> DEFINE v == <<first.val>> \o rest.val
  <2>10. PhraseFrom(f, "params", p) = Result(v, to) /\ PhraseFrom(g, "params", p) = Result(v, to)
    BY <2>3, <2>8
  <2> HIDE DEF v
  <2> QED
    BY <2>9, <2>10 DEF Advances, Result
<1> QED
  BY <1>2, <1>3

LEMMA HashStep ==
    ASSUME Complete, NEW p \in Places, NEW f, NEW g,
           InRange(f, Turn("hash", p)), Agree(f, g, Turn("hash", p))
    PROVE  /\ PhraseFrom(f, "hash", p) = PhraseFrom(g, "hash", p)
           /\ Advances(PhraseFrom(f, "hash", p), "hash", p)
<1> DEFINE n == Len(tokens)
           q == p + 2
<1>1. n \in Nat /\ Places = 1..n
  BY Ends DEF Places
<1>2. CASE ~HashArg(p)
  <2>1. PhraseFrom(f, "hash", p) = Result(<<>>, p)
    BY <1>2 DEF PhraseFrom
  <2>2. PhraseFrom(g, "hash", p) = Result(<<>>, p)
    BY <1>2 DEF PhraseFrom
  <2>3. p \in p..n
    BY <1>1
  <2> QED
    BY <2>1, <2>2, <2>3 DEF Advances, Result
<1>3. HashArg(p) => q \in Places /\ q \in (p + 1)..n
  BY <1>1, AfterKey
<1>4. CASE HashArg(p) /\ ~ExpressionStart(q)
  <2> DEFINE rest == f["hash"][q]
  <2>1. Advances(rest, "hash", q) /\ rest = g["hash"][q]
    BY <1>3, <1>4, Turns DEF InRange, Agree, Rules
  <2>2. PhraseFrom(f, "hash", p) = rest
    BY <1>4 DEF PhraseFrom
  <2>3. PhraseFrom(g, "hash", p) = g["hash"][q]
    BY <1>4 DEF PhraseFrom
  <2>4. rest.to \in q..n
    BY <2>1 DEF Advances
  <2> HIDE DEF rest, n
  <2>5. rest.to \in p..n
    BY <1>1, <2>4
  <2> QED
    BY <2>1, <2>2, <2>3, <2>5 DEF Advances, n
<1>5. CASE HashArg(p) /\ ExpressionStart(q)
  <2> DEFINE value == f["expression"][q]
             a == value.to
             rest == f["hash"][a]
             to == rest.to
             pair(v) == << <<tokens[p].value, v>> >>
  <2>1. Advances(value, "expression", q) /\ value = g["expression"][q]
    BY <1>3, <1>5, Turns DEF InRange, Agree, Rules
  <2>2. a \in q..n
    BY <2>1 DEF Advances
  <2>3. PhraseFrom(f, "hash", p) = Result(pair(value.val) \o rest.val, to)
    BY <1>5 DEF PhraseFrom
  <2>4. PhraseFrom(g, "hash", p) = Result(pair(value.val) \o g["hash"][a].val, g["hash"][a].to)
    <3> DEFINE h == g["expression"][q]
    <3>1. PhraseFrom(g, "hash", p) = Result(pair(h.val) \o g["hash"][h.to].val, g["hash"][h.to].to)
      BY <1>5 DEF PhraseFrom
    <3>2. h = value
      BY <2>1
    <3> HIDE DEF h, pair
    <3> QED
      BY <3>1, <3>2
  <2> HIDE DEF a, value, pair
  <2>5. a \in (p + 1)..n /\ a \in Places
    <3> HIDE DEF n
    <3> QED
      BY <1>1, <2>2
  <2>6. Advances(rest, "hash", a) /\ rest = g["hash"][a]
    BY <2>5, Turns DEF InRange, Agree, Rules
  <2>7. to \in a..n
    BY <2>6 DEF Advances
  <2>8. PhraseFrom(g, "hash", p) = Result(pair(value.val) \o rest.val, to)
    BY <2>4, <2>6
  <2> HIDE DEF to
  <2>9. to \in p..n
    <3> HIDE DEF n
    <3> QED
      BY <1>1, <2>5, <2>7
  <2> DEFINE v == pair(value.val) \o rest.val
  <2>10. PhraseFrom(f, "hash", p) = Result(v, to) /\ PhraseFrom(g, "hash", p) = Result(v, to)
    BY <2>3, <2>8
  <2> HIDE DEF v
  <2> QED
    BY <2>9, <2>10 DEF Advances, Result
<1> QED
  BY <1>2, <1>4, <1>5

LEMMA PhraseStep ==
    ASSUME Complete, NEW rule \in Rules, NEW p \in Places, NEW f, NEW g,
           InRange(f, Turn(rule, p)), Agree(f, g, Turn(rule, p))
    PROVE  /\ PhraseFrom(f, rule, p) = PhraseFrom(g, rule, p)
           /\ Advances(PhraseFrom(f, rule, p), rule, p)
BY CallStep, ExpressionStep, ParamsStep, HashStep DEF Rules


(* After the end nothing is read.                                          *)
LEMMA OutsidePath ==
    ASSUME Complete, NEW p \in Nat \ Places
    PROVE  Path[p].to = p
<1>1. \A type : ~Is(p, type)
  BY DEF Is, Places
<1> DEFINE path == [NoPath EXCEPT !.explicit = FALSE, !.depth = Ups[p].val]
           dotted(u) == [path EXCEPT !.this = Is(u, "DOT")]
<1>2. Path[p] = Chain(dotted(Ups[p].to), Past["DOT"][Ups[p].to])
  BY <1>1 DEF Path, IsId
<1> HIDE DEF dotted
<1>3. Ups[p].to = p
  <2>1. Ups[p] = UpsFrom(Ups, p)
    BY UpsDefined
  <2> QED
    BY <1>1, <2>1 DEF UpsFrom, Result
<1>4. Past["DOT"][p] = p
  <2>1. "DOT" \in TokenTypes
    BY DEF TokenTypes, Marks
  <2> QED
    BY <1>1, <2>1 DEF Past
<1>5. Path[p] = Result(dotted(p), p)
  BY <1>1, <1>2, <1>3, <1>4 DEF Chain, IsPart
<1> QED
  BY <1>5 DEF Result

LEMMA Outside ==
    ASSUME Complete, NEW p \in Nat \ Places
    PROVE  /\ \A f : PhraseFrom(f, "params", p) = Result(<<>>, p) /\ PhraseFrom(f, "hash", p) = Result(<<>>, p)
           /\ \A f, g : (/\ f["params"][p] = Result(<<>>, p) /\ f["hash"][p] = Result(<<>>, p)
                         /\ g["params"][p] = Result(<<>>, p) /\ g["hash"][p] = Result(<<>>, p))
                        => \A rule \in Rules : PhraseFrom(f, rule, p) = PhraseFrom(g, rule, p)
<1>1. (\A type : ~Is(p, type)) /\ ~ExpressionStart(p) /\ ~HashArg(p)
  BY DEF Is, Places, ExpressionStart, HashArg
<1>2. ASSUME NEW f
      PROVE  PhraseFrom(f, "params", p) = Result(<<>>, p) /\ PhraseFrom(f, "hash", p) = Result(<<>>, p)
  BY <1>1 DEF PhraseFrom
<1>3. ASSUME NEW f, NEW g, NEW rule \in Rules,
             f["params"][p] = Result(<<>>, p) /\ f["hash"][p] = Result(<<>>, p),
             g["params"][p] = Result(<<>>, p) /\ g["hash"][p] = Result(<<>>, p)
      PROVE  PhraseFrom(f, rule, p) = PhraseFrom(g, rule, p)
  <2>1. CASE rule \in {"params", "hash"}
    BY <1>2, <2>1
  <2>2. CASE rule = "expression"
    BY <1>1, <2>2 DEF PhraseFrom
  <2>3. CASE rule = "call"
    <3>1. ASSUME NEW h, h["params"][p] = Result(<<>>, p), h["hash"][p] = Result(<<>>, p)
          PROVE  PhraseFrom(h, "call", p) = Result(SubExpr(Path[p].val, <<>>, <<>>), p)
      <4>1. h["params"][p].to = p /\ h["params"][p].val = <<>> /\ h["hash"][p].to = p /\ h["hash"][p].val = <<>>
        BY <3>1 DEF Result
      <4> QED
        BY <4>1, OutsidePath DEF PhraseFrom
    <3> QED
      BY <1>3, <2>3, <3>1
  <2> QED
    BY <2>1, <2>2, <2>3 DEF Rules
<1> QED
  BY <1>2, <1>3

(* A table that is right for all that comes before c, and after the end.   *)
Solved(f, c) ==
    /\ f = [rule \in Rules |-> [p \in Nat |-> f[rule][p]]]
    /\ InRange(f, c)
    /\ \A rule \in Rules : \A p \in Places : Turn(rule, p) < c => f[rule][p] = PhraseFrom(f, rule, p)
    /\ \A rule \in Rules : \A p \in Nat \ Places : f[rule][p] = PhraseFrom(f, rule, p)

LEMMA NothingSolved == ASSUME Complete PROVE \E f : Solved(f, 0)
<1> DEFINE e == [rule \in Rules |-> [p \in Nat |-> Result(<<>>, p)]]
           f == [rule \in Rules |-> [p \in Nat |-> PhraseFrom(e, rule, p)]]
<1>1. "params" \in Rules /\ "hash" \in Rules
  BY DEF Rules
<1>2. \A p \in Nat : e["params"][p] = Result(<<>>, p) /\ e["hash"][p] = Result(<<>>, p)
  BY <1>1
<1> HIDE DEF e
<1>3. \A rule \in Rules : \A p \in Nat : f[rule][p] = PhraseFrom(e, rule, p)
  OBVIOUS
<1>4. f = [rule \in Rules |-> [p \in Nat |-> f[rule][p]]]
  OBVIOUS
<1> HIDE DEF f
<1>5. ASSUME NEW p \in Nat \ Places
      PROVE  f["params"][p] = Result(<<>>, p) /\ f["hash"][p] = Result(<<>>, p)
  BY <1>1, <1>3, Outside
<1>6. ASSUME NEW rule \in Rules, NEW p \in Nat \ Places PROVE f[rule][p] = PhraseFrom(f, rule, p)
  <2>1. PhraseFrom(e, rule, p) = PhraseFrom(f, rule, p)
    BY <1>2, <1>5, Outside
  <2> QED
    BY <1>3, <2>1
<1>7. \A rule \in Rules : \A p \in Places : ~(Turn(rule, p) < 0)
  <2> SUFFICES ASSUME NEW rule \in Rules, NEW p \in Places PROVE ~(Turn(rule, p) < 0)
    OBVIOUS
  <2>1. Turn(rule, p) \in Nat
    BY Turns
  <2> HIDE DEF Turn
  <2> QED
    BY <2>1
<1> QED
  BY <1>4, <1>6, <1>7 DEF Solved, InRange

LEMMA OneMoreSolved ==
    ASSUME Complete, NEW c \in Nat, NEW f, Solved(f, c)
    PROVE  \E g : Solved(g, c + 1)
<1> DEFINE New(rule, p) == p \in Places /\ Turn(rule, p) = c
           g == [rule \in Rules |-> [p \in Nat |-> IF New(rule, p) THEN PhraseFrom(f, rule, p) ELSE f[rule][p]]]
<1>1. \A rule \in Rules : \A p \in Nat :
         g[rule][p] = IF New(rule, p) THEN PhraseFrom(f, rule, p) ELSE f[rule][p]
  OBVIOUS
<1>2. g = [rule \in Rules |-> [p \in Nat |-> g[rule][p]]]
  OBVIOUS
<1> HIDE DEF g
<1>3. ASSUME NEW rule \in Rules, NEW p \in Places, Turn(rule, p) < c + 1
      PROVE  /\ g[rule][p] = PhraseFrom(f, rule, p)
             /\ PhraseFrom(f, rule, p) = PhraseFrom(g, rule, p)
             /\ Advances(g[rule][p], rule, p)
  <2>1. Turn(rule, p) \in Nat /\ p \in Nat
    BY Turns DEF Places
  <2> DEFINE t == Turn(rule, p)
  <2>2. t \in Nat /\ (t = c \/ t < c)
    BY <1>3, <2>1
  <2>3. InRange(f, t) /\ Agree(f, g, t)
    <3> SUFFICES ASSUME NEW r \in Rules, NEW q \in Places, Turn(r, q) < t
                 PROVE  Advances(f[r][q], r, q) /\ f[r][q] = g[r][q]
      BY DEF InRange, Agree
    <3>1. Turn(r, q) \in Nat /\ q \in Nat
      BY Turns DEF Places
    <3>2. Turn(r, q) < c /\ Turn(r, q) # c
      <4> DEFINE u == Turn(r, q)
      <4> HIDE DEF t
      <4>1. u \in Nat /\ u < t
        BY <3>1
      <4> HIDE DEF u
      <4>2. u < c /\ u # c
        BY <2>2, <4>1
      <4> QED
        BY <4>2 DEF u
    <3> QED
      BY <1>1, <3>1, <3>2 DEF Solved, InRange
  <2>4. PhraseFrom(f, rule, p) = PhraseFrom(g, rule, p) /\ Advances(PhraseFrom(f, rule, p), rule, p)
    BY <2>3, PhraseStep
  <2>5. g[rule][p] = PhraseFrom(f, rule, p)
    BY <1>1, <2>1, <2>2 DEF Solved
  <2> QED
    BY <2>4, <2>5
<1>4. ASSUME NEW rule \in Rules, NEW p \in Nat \ Places PROVE g[rule][p] = PhraseFrom(g, rule, p)
  <2>1. "params" \in Rules /\ "hash" \in Rules
    BY DEF Rules
  <2>2. \A r \in Rules : g[r][p] = f[r][p] /\ f[r][p] = PhraseFrom(f, r, p)
    BY <1>1 DEF Solved
  <2>3. /\ f["params"][p] = Result(<<>>, p) /\ f["hash"][p] = Result(<<>>, p)
        /\ g["params"][p] = Result(<<>>, p) /\ g["hash"][p] = Result(<<>>, p)
    BY <2>1, <2>2, Outside
  <2>4. PhraseFrom(f, rule, p) = PhraseFrom(g, rule, p)
    BY <2>3, Outside
  <2> QED
    BY <2>2, <2>4
<1>5. Solved(g, c + 1)
  BY <1>2, <1>3, <1>4 DEF Solved, InRange
<1> QED
  BY <1>5

LEMMA PhraseDefined ==
    ASSUME Complete
    PROVE  \A rule \in Rules : \A p \in Nat : Phrase[rule][p] = PhraseFrom(Phrase, rule, p)
<1> DEFINE m == 4 * Len(tokens)
           S == {c \in 0..m : \E f : Solved(f, c)}
<1>1. m \in Nat
  BY Ends
<1> HIDE DEF m
<1>2. 0 \in S
  BY <1>1, NothingSolved
<1>3. \A c \in 0..(m - 1) : c \in S => c + 1 \in S
  <2> SUFFICES ASSUME NEW c \in 0..(m - 1), c \in S PROVE c + 1 \in S
    OBVIOUS
  <2>1. c \in Nat /\ c + 1 \in 0..m
    BY <1>1
  <2>2. PICK f : Solved(f, c)
    OBVIOUS
  <2>3. \E g : Solved(g, c + 1)
    BY <2>1, <2>2, OneMoreSolved
  <2> QED
    BY <2>1, <2>3
<1> HIDE DEF S
<1>4. 0..m \subseteq S
  BY <1>1, <1>2, <1>3, Induction
<1>5. PICK f : Solved(f, m)
  BY <1>1, <1>4 DEF S
<1>6. \A rule \in Rules : \A p \in Nat : f[rule][p] = PhraseFrom(f, rule, p)
  <2> SUFFICES ASSUME NEW rule \in Rules, NEW p \in Nat PROVE f[rule][p] = PhraseFrom(f, rule, p)
    OBVIOUS
  <2>1. CASE p \in Places
    BY <1>5, <2>1, Turns DEF Solved, m
  <2>2. CASE p \notin Places
    BY <1>5, <2>2 DEF Solved
  <2> QED
    BY <2>1, <2>2
<1>7. f = [rule \in Rules |-> [p \in Nat |-> f[rule][p]]]
  BY <1>5 DEF Solved
<1>8. f = [rule \in Rules |-> [p \in Nat |-> PhraseFrom(f, rule, p)]]
  BY <1>6, <1>7
<1>9. Phrase = [rule \in Rules |-> [p \in Nat |-> PhraseFrom(Phrase, rule, p)]]
  BY <1>8 DEF Phrase, PhraseFrom, Rules
<1> QED
  BY <1>9

LEMMA PhraseIn ==
    ASSUME Complete, NEW rule \in Rules, NEW p \in Places
    PROVE  /\ Phrase[rule][p].to \in p..Len(tokens) /\ Phrase[rule][p].to \in Places
<1> DEFINE m == 4 * Len(tokens)
           S == {c \in 0..m : InRange(Phrase, c)}
<1>1. m \in Nat
  BY Ends
<1> HIDE DEF m
<1>2. 0 \in S
  <2>1. ASSUME NEW r \in Rules, NEW q \in Places PROVE ~(Turn(r, q) < 0)
    <3>1. Turn(r, q) \in Nat
      BY Turns
    <3> QED
      BY <3>1
  <2> QED
    BY <1>1, <2>1 DEF InRange
<1>3. \A c \in 0..(m - 1) : c \in S => c + 1 \in S
  <2> SUFFICES ASSUME NEW c \in 0..(m - 1), c \in S,
                      NEW r \in Rules, NEW q \in Places, Turn(r, q) < c + 1
               PROVE  Advances(Phrase[r][q], r, q)
    BY <1>1 DEF InRange
  <2>1. Turn(r, q) \in Nat /\ q \in Nat
    BY Turns DEF Places
  <2>2. InRange(Phrase, Turn(r, q))
    <3> SUFFICES ASSUME NEW r2 \in Rules, NEW q2 \in Places, Turn(r2, q2) < Turn(r, q)
                 PROVE  Advances(Phrase[r2][q2], r2, q2)
      BY DEF InRange
    <3>1. Turn(r2, q2) \in Nat
      BY Turns
    <3>2. Turn(r2, q2) < c
      <4> DEFINE t == Turn(r, q)
                 u == Turn(r2, q2)
      <4>1. t \in Nat /\ u \in Nat /\ u < t /\ t < c + 1
        BY <2>1, <3>1
      <4> HIDE DEF t, u
      <4>2. u < c
        BY <4>1
      <4> QED
        BY <4>2 DEF u
    <3> QED
      BY <3>2 DEF InRange
  <2>3. Agree(Phrase, Phrase, Turn(r, q))
    BY DEF Agree
  <2>4. Advances(PhraseFrom(Phrase, r, q), r, q)
    BY <2>2, <2>3, PhraseStep
  <2> QED
    BY <2>1, <2>4, PhraseDefined
<1> HIDE DEF S
<1>4. 0..m \subseteq S
  BY <1>1, <1>2, <1>3, Induction
<1>5. InRange(Phrase, m)
  BY <1>1, <1>4 DEF S
<1>6. Phrase[rule][p].to \in p..Len(tokens)
  BY <1>5, Turns DEF InRange, Advances, m
<1> QED
  BY <1>6, Ends DEF Places


-----------------------------------------------------------------------------
(* What is read of a tag, from its second token on.                        *)
Onward(p, q) == q \in p..Len(tokens) /\ q \in Places

LEMMA Farther ==
    ASSUME Complete, NEW p \in Places, NEW q, Onward(p, q)
    PROVE  /\ \A r : Onward(q, r) => Onward(p, r)
           /\ \A type \in Taken : Onward(p, Past[type][q])
           /\ \A rule \in Rules : Onward(p, Phrase[rule][q].to)
           /\ Onward(p, Path[q].to)
           /\ \A types \in SUBSET Taken : Onward(p, PastAll(q, types))
<1>1. \A r : Onward(q, r) => Onward(p, r)
  BY Ends DEF Onward, Places
<1>2. \A type \in Taken : Onward(q, Past[type][q])
  BY PastIn DEF Onward
<1>3. \A rule \in Rules : Onward(q, Phrase[rule][q].to)
  BY PhraseIn DEF Onward
<1>4. Onward(q, Path[q].to)
  BY PathIn DEF Onward
<1>5. \A types \in SUBSET Taken : Onward(q, PastAll(q, types))
  <2> SUFFICES ASSUME NEW types \in SUBSET Taken PROVE Onward(q, PastAll(q, types))
    OBVIOUS
  <2>1. PastAll(q, types) \in q..Len(tokens)
    BY PastAllIn DEF Onward
  <2> QED
    BY <2>1, Ends DEF Onward, Places
<1> QED
  BY <1>1, <1>2, <1>3, <1>4, <1>5

LEMMA PastFarther ==
    ASSUME Complete, NEW p \in Places, NEW q, Onward(p, q), NEW type \in Taken
    PROVE  Onward(p, Past[type][q])
BY Farther

LEMMA PhraseFarther ==
    ASSUME Complete, NEW p \in Places, NEW q, Onward(p, q), NEW rule \in Rules
    PROVE  Onward(p, Phrase[rule][q].to)
BY Farther

LEMMA Here == ASSUME Complete, NEW p \in Places PROVE Onward(p, p)
BY Ends DEF Onward, Places

LEMMA Beyond ==
    ASSUME Complete, NEW p, NEW type \in Taken, Is(p, type)
    PROVE  p \in Places /\ p + 1 \in Places /\ Onward(p, p + 1)
BY Ends DEF Is, Places, Taken, Onward

LEMMA BlockParamsIn ==
    ASSUME Complete, NEW p \in Places
    PROVE  Onward(p, BlockParams[p].to)
<1>1. p \in Nat
  BY DEF Places
<1>2. CASE ~Is(p, "AS")
  <2>1. BlockParams[p] = Result(<<>>, p)
    BY <1>1, <1>2 DEF BlockParams
  <2> QED
    BY <2>1, Here DEF Result
<1>3. CASE Is(p, "AS")
  <2> DEFINE from == Past["PIPE"][p + 1]
             to == PastAll(from, {"ID"})
             names == [i \in 1..(to - from) |-> tokens[from + i - 1].value]
  <2>1. BlockParams[p] = Result(names, Past["PIPE"][to])
    BY <1>1, <1>3 DEF BlockParams
  <2> HIDE DEF names
  <2>2. Onward(p, p + 1)
    BY <1>3, Beyond, Dots
  <2>3. Onward(p, from)
    BY <2>2, PastFarther, Dots
  <2>4. Onward(p, to)
    BY <2>3, Farther, Dots
  <2>5. Onward(p, Past["PIPE"][to])
    BY <2>4, PastFarther, Dots
  <2> QED
    BY <2>1, <2>5 DEF Result
<1> QED
  BY <1>2, <1>3

LEMMA MustacheIn ==
    ASSUME Complete, NEW p \in Places, NEW escaped, NEW close \in {"CLOSE", "CLOSE_UNESC"}
    PROVE  Onward(p, Mustache(p, escaped, close).to)
<1> DEFINE strip == Past["STRIP"][p]
           call == Phrase["call"][strip]
           end == Past["STRIP"][call.to]
<1>1. Onward(p, strip)
  BY Here, PastFarther, Dots
<1>2. Onward(p, call.to)
  BY <1>1, PhraseFarther DEF Rules
<1>3. Mustache(p, escaped, close).to = Past[close][end]
  BY DEF Mustache, Result
<1> HIDE DEF call
<1>4. Onward(p, end)
  BY <1>2, PastFarther, Dots
<1>5. Onward(p, Past[close][end])
  BY <1>4, PastFarther, Dots
<1> QED
  BY <1>3, <1>5

LEMMA BlockHeadIn ==
    ASSUME Complete, NEW p \in Places, NEW call, NEW params, Onward(p, params.to)
    PROVE  Onward(p, BlockHead(p, call, params).to)
<1>1. Onward(p, Past["STRIP"][params.to])
  BY PastFarther, Dots
<1>2. Onward(p, Past["CLOSE"][Past["STRIP"][params.to]])
  BY <1>1, PastFarther, Dots
<1>3. BlockHead(p, call, params).to = Past["CLOSE"][Past["STRIP"][params.to]]
  BY DEF BlockHead, Result
<1> QED
  BY <1>2, <1>3

LEMMA PartialBlockHeadIn ==
    ASSUME Complete, NEW p \in Places
    PROVE  Onward(p, PartialBlockHead[p].to)
<1> DEFINE call == Phrase["call"][p]
<1>1. Onward(p, call.to)
  BY Here, PhraseFarther DEF Rules
<1> DEFINE a == Past["STRIP"][call.to]
<1>2. PartialBlockHead[p].to = Past["CLOSE"][a]
  <2>1. PartialBlockHead[p] = Result(Calling("pblock", call.val), Past["CLOSE"][a])
    BY DEF PartialBlockHead, Places
  <2> QED
    BY <2>1 DEF Result
<1> HIDE DEF call
<1>3. Onward(p, a)
  BY <1>1, PastFarther, Dots
<1>4. Onward(p, Past["CLOSE"][a])
  BY <1>3, PastFarther, Dots
<1> QED
  BY <1>2, <1>4

LEMMA InlineHeadIn ==
    ASSUME Complete, NEW p \in Places
    PROVE  Onward(p, InlineHead[p].to)
<1> DEFINE name == IF IsId(p, <<"inline">>) THEN p + 1 ELSE p
           a == Past["STRING"][name]
           b == Past["STRIP"][a]
           c == Past["CLOSE"][b]
<1>1. Onward(p, name)
  BY Here, Beyond, Dots DEF IsId
<1>2. InlineHead[p].to = c
  <2> DEFINE node == [Node("inline") EXCEPT
                        !.value = IF Is(name, "STRING") THEN tokens[name].value ELSE <<>>]
  <2>1. InlineHead[p] = Result(node, c)
    BY DEF InlineHead, Places
  <2> HIDE DEF node, c
  <2> QED
    BY <2>1 DEF Result
<1> HIDE DEF name
<1>3. Onward(p, a)
  BY <1>1, PastFarther, Dots
<1> HIDE DEF a
<1>4. Onward(p, b)
  BY <1>3, PastFarther, Dots
<1> HIDE DEF b
<1>5. Onward(p, c)
  BY <1>4, PastFarther, Dots
<1> QED
  BY <1>2, <1>5

LEMMA PartialIn ==
    ASSUME Complete, NEW p \in Places
    PROVE  Onward(p, Partial[p].to)
<1> DEFINE dynamic == Is(p, "OPEN_PAREN")
           name    == IF dynamic THEN Phrase["expression"][p] ELSE Path[p]
           given   == ExpressionStart(name.to) /\ ~HashArg(name.to)
           context == IF given THEN Phrase["expression"][name.to] ELSE Result("none", name.to)
           hash    == Phrase["hash"][context.to]
           a == Past["STRIP"][hash.to]
           b == Past["CLOSE"][a]
           node == [Node("partial") EXCEPT
                      !.path  = IF dynamic THEN NoPath ELSE name.val,
                      !.value = IF dynamic THEN <<name.val>> ELSE <<>>,
                      !.args  = IF given THEN <<context.val>> ELSE <<>>,
                      !.hash  = hash.val]
<1>1. Partial[p].to = b
  <2>1. p \in Nat
    BY DEF Places
  <2>2. Partial[p] = Result(node, b)
    BY <2>1, Zenon DEF Partial
  <2> HIDE DEF node, b
  <2> QED
    BY <2>2 DEF Result
<1> HIDE DEF node
<1>2. Onward(p, name.to)
  <2>1. Onward(p, Phrase["expression"][p].to) /\ Onward(p, Path[p].to)
    BY Here, Farther DEF Rules
  <2> QED
    BY <2>1
<1> HIDE DEF name
<1>3. Onward(p, context.to)
  <2>1. Onward(p, Phrase["expression"][name.to].to)
    BY <1>2, PhraseFarther DEF Rules
  <2> QED
    BY <1>2, <2>1 DEF Result
<1> HIDE DEF context
<1>4. Onward(p, hash.to)
  BY <1>3, PhraseFarther DEF Rules
<1> HIDE DEF hash
<1>5. Onward(p, a)
  BY <1>4, PastFarther, Dots
<1> HIDE DEF a
<1>6. Onward(p, b)
  BY <1>5, PastFarther, Dots
<1> QED
  BY <1>1, <1>6

LEMMA CommentIn ==
    ASSUME Complete, NEW p \in Places
    PROVE  Onward(p, Comment[p].to)
<1>1. Onward(p, Past["COMMENT_BODY"][p])
  BY Here, PastFarther, Dots
<1>2. Comment[p].to = Past["COMMENT_BODY"][p]
  BY DEF Comment, Result, Places
<1> QED
  BY <1>1, <1>2

LEMMA RawBlockIn ==
    ASSUME Complete, NEW p \in Places
    PROVE  Onward(p, RawBlock[p].to)
<1> DEFINE a == Past["ID"][p]
           b == Past["CLOSE_RAW_BLOCK"][a]
           c == Past["TEXT"][b]
           d == Past["OPEN_END_BLOCK"][c]
           e == Past["ID"][d]
           h == Past["CLOSE_RAW_BLOCK"][e]
           node == [Node("raw") EXCEPT
                      !.path.parts = IF Is(p, "ID") THEN <<tokens[p].value>> ELSE <<>>,
                      !.value = IF Is(b, "TEXT") THEN tokens[b].value ELSE <<>>]
<1>1. RawBlock[p].to = h
  <2>1. p \in Nat
    BY DEF Places
  <2>2. RawBlock[p] = Result(node, h)
    BY <2>1, Zenon DEF RawBlock
  <2> HIDE DEF node, h
  <2> QED
    BY <2>2 DEF Result
<1> HIDE DEF node
<1>2. Onward(p, a)
  BY Here, PastFarther, Dots
<1> HIDE DEF a
<1>3. Onward(p, b)
  BY <1>2, PastFarther, Dots
<1> HIDE DEF b
<1>4. Onward(p, c)
  BY <1>3, PastFarther, Dots
<1> HIDE DEF c
<1>5. Onward(p, d)
  BY <1>4, PastFarther, Dots
<1> HIDE DEF d
<1>6. Onward(p, e)
  BY <1>5, PastFarther, Dots
<1> HIDE DEF e
<1>7. Onward(p, h)
  BY <1>6, PastFarther, Dots
<1> QED
  BY <1>1, <1>7

LEMMA EndTagIn ==
    ASSUME Complete, NEW p \in Places, NEW names
    PROVE  Onward(p, EndTag(p, names).to)
<1>1. CASE ~Is(p, "OPEN_END_BLOCK")
  BY <1>1, Here DEF EndTag, Result
<1>2. CASE Is(p, "OPEN_END_BLOCK")
  <2> DEFINE name == Past["STRIP"][p + 1]
             right == IF names = 1 THEN Past["ID"][name] ELSE PastAll(name, {"ID", "DOT"})
             a == Past["STRIP"][right]
             b == Past["CLOSE"][a]
  <2>1. EndTag(p, names).to = b
    BY <1>2 DEF EndTag, Result
  <2>2. Onward(p, p + 1)
    BY <1>2, Beyond, Dots
  <2>3. Onward(p, name)
    BY <2>2, PastFarther, Dots
  <2> HIDE DEF name
  <2>4. Onward(p, right)
    <3>1. Onward(p, Past["ID"][name])
      BY <2>3, PastFarther, Dots
    <3>2. {"ID", "DOT"} \in SUBSET Taken
      BY Dots
    <3>3. Onward(p, PastAll(name, {"ID", "DOT"}))
      BY <2>3, <3>2, Farther
    <3> QED
      BY <3>1, <3>3
  <2> HIDE DEF right
  <2>5. Onward(p, a)
    BY <2>4, PastFarther, Dots
  <2>6. Onward(p, b)
    BY <2>5, PastFarther, Dots
  <2> QED
    BY <2>1, <2>6
<1> QED
  BY <1>1, <1>2


-----------------------------------------------------------------------------
(* The calls that run.  Nodes have no common type: a stack is a sequence   *)
(* of what it holds.                                                       *)
Elements(c) == {c[i] : i \in 1..Len(c)}
IsCall(x)   == x = [role |-> x.role, node |-> x.node, stmts |-> x.stmts, swap |-> x.swap]
Roles       == {"root", "body", "inverse", "chain", "only"}

Calls(c) ==
    /\ c \in Seq(Elements(c))
    /\ \A k \in 1..Len(c) : IsCall(c[k]) /\ c[k].role \in Roles /\ (c[k].role = "root" <=> k = 1)

(* A parse_block that waits for another is not the innermost call.         *)
Nesting(c) == Calls(c) /\ (c # <<>> => c[Len(c)].role # "chain")

LEMMA AnySeq ==
    ASSUME NEW S, NEW c \in Seq(S)
    PROVE  c \in Seq(Elements(c)) /\ Len(c) \in Nat /\ (c = <<>> <=> Len(c) = 0)
<1>1. Len(c) \in Nat /\ c \in [1..Len(c) -> S] /\ (c = <<>> <=> Len(c) = 0)
  BY LenProperties, EmptySeq
<1>2. c \in [1..Len(c) -> Elements(c)]
  BY <1>1 DEF Elements
<1> QED
  BY <1>1, <1>2, SeqDef

LEMMA CallIs ==
    ASSUME NEW role, NEW node, NEW swap
    PROVE  IsCall(Call(role, node, swap)) /\ Call(role, node, swap).role = role
BY DEF IsCall, Call

LEMMA Pushed ==
    ASSUME NEW c, Calls(c), NEW x, IsCall(x), x.role \in Roles, x.role = "root" <=> c = <<>>
    PROVE  /\ Calls(Append(c, x)) /\ Append(c, x) # <<>>
           /\ Append(c, x)[Len(Append(c, x))] = x
<1> DEFINE S == Elements(c) \cup {x}
           d == Append(c, x)
           n == Len(c)
<1>1. c \in Seq(S) /\ x \in S /\ n \in Nat /\ (c = <<>> <=> n = 0)
  <2>1. c \in Seq(Elements(c))
    BY DEF Calls
  <2> QED
    BY <2>1, AnySeq
<1> HIDE DEF S
<1>2. d \in Seq(S) /\ Len(d) = n + 1 /\ d[n + 1] = x /\ \A i \in 1..n : d[i] = c[i]
  BY <1>1, AppendProperties
<1> HIDE DEF d
<1>3. d \in Seq(Elements(d)) /\ (d = <<>> <=> Len(d) = 0)
  BY <1>2, AnySeq
<1>4. \A k \in 1..n : IsCall(c[k]) /\ c[k].role \in Roles /\ (c[k].role = "root" <=> k = 1)
  BY DEF Calls
<1> HIDE DEF n
<1>5. \A k \in 1..(n + 1) : IsCall(d[k]) /\ d[k].role \in Roles /\ (d[k].role = "root" <=> k = 1)
  <2> SUFFICES ASSUME NEW k \in 1..(n + 1)
               PROVE  IsCall(d[k]) /\ d[k].role \in Roles /\ (d[k].role = "root" <=> k = 1)
    OBVIOUS
  <2>1. CASE k \in 1..n
    BY <1>2, <1>4, <2>1
  <2>2. CASE k = n + 1
    BY <1>1, <1>2, <2>2
  <2> QED
    BY <1>1, <2>1, <2>2
<1> QED
  BY <1>1, <1>2, <1>3, <1>5 DEF Calls, d

LEMMA Cut ==
    ASSUME NEW c, Calls(c), NEW k \in 0..Len(c)
    PROVE  /\ Calls(SubSeq(c, 1, k)) /\ Len(SubSeq(c, 1, k)) = k
           /\ \A i \in 1..k : SubSeq(c, 1, k)[i] = c[i]
           /\ SubSeq(c, 1, k) = <<>> <=> k = 0
<1> DEFINE d == SubSeq(c, 1, k)
           S == Elements(c)
<1>1. c \in Seq(S)
  BY DEF Calls
<1>2. Len(c) \in Nat /\ k \in Nat /\ k <= Len(c) /\ \A i \in 1..Len(c) : c[i] \in S
  BY <1>1, AnySeq, ElementOfSeq
<1> HIDE DEF S
<1>3. d \in Seq(S) /\ Len(d) = k /\ \A i \in 1..k : d[i] = c[i]
  <2>1. 1 \in Int /\ k \in Int /\ \A i \in 1..k : c[i] \in S
    BY <1>2
  <2>2. /\ d \in Seq(S)
        /\ Len(d) = IF 1 <= k THEN k - 1 + 1 ELSE 0
        /\ \A i \in 1..(k - 1 + 1) : d[i] = c[1 + i - 1]
    BY <2>1, SubSeqProperties
  <2> HIDE DEF d
  <2>3. \A i \in 1..k : 1 + i - 1 = i
    BY <1>2
  <2> QED
    BY <1>2, <2>2, <2>3
<1> HIDE DEF d
<1>4. d \in Seq(Elements(d)) /\ (d = <<>> <=> Len(d) = 0)
  BY <1>3, AnySeq
<1>5. \A i \in 1..k : i \in 1..Len(c)
  BY <1>2
<1>6. Calls(d)
  BY <1>3, <1>4, <1>5 DEF Calls
<1> QED
  BY <1>3, <1>4, <1>6 DEF d

LEMMA Popped ==
    ASSUME NEW c, Calls(c), c # <<>>
    PROVE  /\ Calls(Front(c)) /\ Len(Front(c)) = Len(c) - 1
           /\ Len(c) \in Nat /\ Len(c) # 0 /\ Len(c) \in 1..Len(c) /\ Len(c) - 1 \in 0..Len(c)
           /\ \A i \in 1..(Len(c) - 1) : Front(c)[i] = c[i]
           /\ Front(c) = <<>> <=> Len(c) = 1
<1>1. Len(c) \in Nat /\ Len(c) # 0
  BY AnySeq DEF Calls
<1>2. Len(c) - 1 \in 0..Len(c)
  BY <1>1
<1> DEFINE k == Len(c) - 1
<1>3. Front(c) = SubSeq(c, 1, k)
  BY DEF Front
<1>4. k \in 0..Len(c) /\ (k = 0 <=> Len(c) = 1)
  BY <1>1, <1>2
<1> HIDE DEF k
<1>5. /\ Calls(SubSeq(c, 1, k)) /\ Len(SubSeq(c, 1, k)) = k
      /\ \A i \in 1..k : SubSeq(c, 1, k)[i] = c[i]
      /\ SubSeq(c, 1, k) = <<>> <=> k = 0
  BY <1>4, Cut
<1>6. /\ Calls(Front(c)) /\ Len(Front(c)) = k /\ (\A i \in 1..k : Front(c)[i] = c[i])
      /\ Front(c) = <<>> <=> Len(c) = 1
  BY <1>3, <1>4, <1>5
<1> QED
  BY <1>1, <1>2, <1>6 DEF k

(* The innermost call collects a statement.                                *)
With(c, k, v) == [c EXCEPT ![k].stmts = v]

LEMMA Collected ==
    ASSUME NEW c, Calls(c), c # <<>>, NEW v, NEW k, k = Len(c)
    PROVE  /\ Calls(With(c, k, v)) /\ With(c, k, v) # <<>> /\ Len(With(c, k, v)) = k
           /\ With(c, k, v)[k].role = c[k].role
<1> DEFINE x == [c[k] EXCEPT !.stmts = v]
           d == [c EXCEPT ![k] = x]
           S == Elements(c) \cup {x}
<1>1. k \in Nat /\ k # 0 /\ k \in 1..k /\ c \in Seq(S) /\ x \in S
  <2>1. c \in Seq(Elements(c))
    BY DEF Calls
  <2>2. Len(c) \in Nat /\ Len(c) # 0 /\ Len(c) \in 1..Len(c)
    BY Popped
  <2> QED
    BY <2>1, <2>2
<1>2. IsCall(c[k]) /\ c[k].role \in Roles /\ (c[k].role = "root" <=> k = 1)
  BY <1>1 DEF Calls
<1>3. IsCall(x) /\ x.role = c[k].role
  BY <1>2 DEF IsCall
<1> HIDE DEF x, S
<1>4. d \in Seq(S) /\ Len(d) = k /\ \A j \in 1..k : d[j] = IF j = k THEN x ELSE c[j]
  BY <1>1, ExceptSeq
<1> HIDE DEF d
<1>5. d \in Seq(Elements(d)) /\ (d = <<>> <=> Len(d) = 0)
  BY <1>4, AnySeq
<1>6. \A j \in 1..k : IsCall(d[j]) /\ d[j].role \in Roles /\ (d[j].role = "root" <=> j = 1)
  BY <1>2, <1>3, <1>4 DEF Calls
<1>7. Calls(d)
  BY <1>4, <1>5, <1>6 DEF Calls
<1>8. d # <<>> /\ d[k].role = c[k].role
  BY <1>1, <1>3, <1>4, <1>5
<1>9. With(c, k, v) = d
  BY DEF With, d, x
<1> QED
  BY <1>4, <1>7, <1>8, <1>9

(* A block is returned to the nearest call that does not wait for one.     *)
LEMMA Delivered ==
    ASSUME NEW c, Calls(c), c # <<>>, NEW node
    PROVE  Nesting(Deliver(c, node)) /\ Deliver(c, node) # <<>>
<1> DEFINE n == Len(c)
           Waits(i) == c[i].role = "chain"
           S == {i \in 1..n : ~Waits(i)}
           Nearest(i) == ~Waits(i) /\ \A j \in (i + 1)..n : Waits(j)
           k == CHOOSE i \in 1..n : Nearest(i)
<1>1. n \in Nat /\ 1 \in 1..n
  BY Popped
<1>2. c[1].role = "root"
  BY <1>1 DEF Calls
<1> HIDE DEF n
<1>3. S \in SUBSET (1..n) /\ 1 \in S
  BY <1>1, <1>2
<1>4. Max(S) \in S /\ \A j \in S : j <= Max(S)
  BY <1>1, <1>3, LastIsMax
<1>5. PICK m \in S : \A j \in S : j <= m
  BY <1>4
<1>6. \A j \in (m + 1)..n : Waits(j)
  <2> SUFFICES ASSUME NEW j \in (m + 1)..n, ~Waits(j) PROVE FALSE
    OBVIOUS
  <2>1. j \in S /\ ~(j <= m)
    BY <1>3
  <2> QED
    BY <1>5, <2>1
<1>7. \E i \in 1..n : Nearest(i)
  BY <1>3, <1>5, <1>6
<1>8. k \in 1..n /\ Nearest(k)
  BY <1>7
<1>9. \E v : Deliver(c, node) = With(SubSeq(c, 1, k), k, v)
  BY DEF Deliver, n, With
<1>10. PICK v : Deliver(c, node) = With(SubSeq(c, 1, k), k, v)
  BY <1>9
<1> HIDE DEF k
<1> DEFINE d == SubSeq(c, 1, k)
<1>11. Calls(d) /\ d # <<>> /\ k = Len(d) /\ d[k] = c[k]
  <2>1. k \in 0..Len(c) /\ k \in 1..k /\ k # 0
    BY <1>1, <1>8 DEF n
  <2> QED
    BY <2>1, Cut
<1> HIDE DEF d
<1> DEFINE e == With(d, k, v)
<1>12. Calls(e) /\ e # <<>> /\ Len(e) = k /\ e[k].role = d[k].role
  BY <1>11, Collected
<1>13. Deliver(c, node) = e
  BY <1>10 DEF d
<1> HIDE DEF e
<1> QED
  BY <1>8, <1>11, <1>12, <1>13 DEF Nesting


-----------------------------------------------------------------------------
(* The steps of the parser.                                                *)
LEMMA AtIn ==
    ASSUME Complete, cursor \in Places, NEW types, At(types)
    PROVE  /\ stack # <<>> /\ cursor + 1 \in Places
           /\ tokens[cursor].type \in types
BY Ends DEF At, Parsing, Stops, Is, Places

LEMMA Adding ==
    ASSUME Complete, cursor \in Places, Nesting(stack), stack # <<>>,
           NEW outcome, NEW p \in Places, Onward(p, outcome.to), Add(outcome)
    PROVE  cursor' \in Places /\ Nesting(stack')
<1> DEFINE v == Append(stack[Len(stack)].stmts, outcome.val)
<1>1. stack' = With(stack, Len(stack), v) /\ cursor' = outcome.to
  BY DEF Add, With
<1> HIDE DEF v
<1>2. /\ Calls(stack') /\ stack' # <<>> /\ Len(stack') = Len(stack)
      /\ stack'[Len(stack)].role = stack[Len(stack)].role
  BY <1>1, Collected DEF Nesting
<1> QED
  BY <1>1, <1>2 DEF Nesting, Onward

LEMMA AddingStatement ==
    ASSUME Complete, cursor \in Places, Nesting(stack),
           AddText \/ AddMustache \/ AddComment \/ AddPartial \/ AddRaw
    PROVE  cursor' \in Places /\ Nesting(stack')
<1> DEFINE p == cursor + 1
<1>1. stack # <<>> /\ p \in Places
  BY AtIn DEF AddText, AddMustache, AddComment, AddPartial, AddRaw
<1>2. CASE AddText
  <2> DEFINE outcome == Result([Node("text") EXCEPT !.value = tokens[cursor].value], p)
  <2>1. Add(outcome)
    BY <1>2 DEF AddText
  <2>2. outcome.to = p
    BY DEF Result
  <2> HIDE DEF outcome, p
  <2> QED
    BY <1>1, <2>1, <2>2, Adding, Here
<1>3. CASE AddMustache
  <2> DEFINE type == tokens[cursor].type
             close == IF type = "OPEN_UNESC" THEN "CLOSE_UNESC" ELSE "CLOSE"
             outcome == Mustache(p, type = "OPEN", close)
  <2>1. Add(outcome)
    BY <1>3 DEF AddMustache
  <2>2. close \in {"CLOSE", "CLOSE_UNESC"}
    OBVIOUS
  <2> HIDE DEF p, close
  <2>3. Onward(p, outcome.to)
    BY <1>1, <2>2, MustacheIn
  <2> HIDE DEF outcome
  <2> QED
    BY <1>1, <2>1, <2>3, Adding
<1>4. CASE AddComment
  <2>1. Add(Comment[p])
    BY <1>4 DEF AddComment
  <2> HIDE DEF p
  <2> QED
    BY <1>1, <2>1, CommentIn, Adding
<1>5. CASE AddPartial
  <2>1. Add(Partial[p])
    BY <1>5 DEF AddPartial
  <2> HIDE DEF p
  <2> QED
    BY <1>1, <2>1, PartialIn, Adding
<1>6. CASE AddRaw
  <2>1. Add(RawBlock[p])
    BY <1>6 DEF AddRaw
  <2> HIDE DEF p
  <2> QED
    BY <1>1, <2>1, RawBlockIn, Adding
<1> QED
  BY <1>2, <1>3, <1>4, <1>5, <1>6

LEMMA Entering ==
    ASSUME Complete, NEW p \in Places, NEW outer, Calls(outer), outer # <<>>, NEW swap,
           EnterBlock(p, outer, swap)
    PROVE  cursor' \in Places /\ Nesting(stack')
<1> DEFINE strip == Past["STRIP"][p]
           call == Phrase["call"][strip]
           params == BlockParams[call.to]
           head == BlockHead(p, call, params)
           x == Call("body", head.val, swap)
<1>1. stack' = Append(outer, x) /\ cursor' = head.to
  BY DEF EnterBlock
<1>2. Onward(p, strip)
  BY Here, PastFarther, Dots
<1>3. Onward(p, call.to)
  BY <1>2, PhraseFarther DEF Rules
<1> HIDE DEF call
<1>4. Onward(p, params.to)
  <2>1. call.to \in Places
    BY <1>3 DEF Onward
  <2>2. Onward(call.to, params.to)
    BY <2>1, BlockParamsIn
  <2> QED
    BY <1>3, <2>2, Farther
<1> HIDE DEF params
<1>5. Onward(p, head.to)
  BY <1>4, BlockHeadIn
<1> HIDE DEF head
<1>6. IsCall(x) /\ x.role = "body" /\ "body" \in Roles
  BY CallIs DEF Roles
<1> HIDE DEF x
<1>7. Calls(stack') /\ stack' # <<>> /\ stack'[Len(stack')] = x
  BY <1>1, <1>6, Pushed
<1> QED
  BY <1>1, <1>5, <1>6, <1>7 DEF Nesting, Onward

LEMMA OpeningOnly ==
    ASSUME Complete, Nesting(stack), stack # <<>>, NEW head, NEW p \in Places, Onward(p, head.to),
           Enter(head, "only")
    PROVE  cursor' \in Places /\ Nesting(stack')
<1> DEFINE x == Call("only", head.val, FALSE)
<1>1. stack' = Append(stack, x) /\ cursor' = head.to
  BY DEF Enter
<1>2. IsCall(x) /\ x.role = "only" /\ "only" \in Roles
  BY CallIs DEF Roles
<1> HIDE DEF x
<1>3. Calls(stack') /\ stack' # <<>> /\ stack'[Len(stack')] = x
  BY <1>1, <1>2, Pushed DEF Nesting
<1> QED
  BY <1>1, <1>2, <1>3 DEF Nesting, Onward

LEMMA Opened ==
    ASSUME Complete, cursor \in Places, Nesting(stack),
           OpenBlock \/ OpenPartialBlock \/ OpenInline \/ SkipToken
    PROVE  cursor' \in Places /\ Nesting(stack')
<1> DEFINE p == cursor + 1
<1>1. stack # <<>> /\ p \in Places
  BY AtIn DEF OpenBlock, OpenPartialBlock, OpenInline, SkipToken
<1>2. CASE OpenBlock
  <2>1. EnterBlock(p, stack, Is(cursor, "OPEN_INVERSE"))
    BY <1>2 DEF OpenBlock
  <2> HIDE DEF p
  <2> QED
    BY <1>1, <2>1, Entering DEF Nesting
<1>3. CASE OpenPartialBlock
  <2>1. Enter(PartialBlockHead[p], "only")
    BY <1>3 DEF OpenPartialBlock
  <2> HIDE DEF p
  <2> QED
    BY <1>1, <2>1, PartialBlockHeadIn, OpeningOnly
<1>4. CASE OpenInline
  <2>1. Enter(InlineHead[p], "only")
    BY <1>4 DEF OpenInline
  <2> HIDE DEF p
  <2> QED
    BY <1>1, <2>1, InlineHeadIn, OpeningOnly
<1>5. CASE SkipToken
  BY <1>1, <1>5 DEF SkipToken
<1> QED
  BY <1>2, <1>3, <1>4, <1>5

LEMMA BeginningInverse ==
    ASSUME Complete, cursor \in Places, Nesting(stack), BeginInverse
    PROVE  cursor' \in Places /\ Nesting(stack')
<1> DEFINE p == IF Else(cursor) THEN cursor + 2 ELSE cursor + 1
           chained == \E name \in Chained : IsId(p, name)
           role == IF chained THEN "chain" ELSE "inverse"
           outer == [Top EXCEPT !.role = role, !.node.body = Top.stmts, !.stmts = <<>>]
           below == Front(stack)
           end == Past["CLOSE"][Past["STRIP"][p]]
<1>1. stack # <<>> /\ Top.role = "body" /\ Branch
  BY DEF BeginInverse, Parsing
<1>2. p \in Places
  <2>1. CASE Else(cursor)
    <3>1. Is(cursor, "OPEN") /\ Is(cursor + 1, "ID") /\ "OPEN" \in Taken /\ "ID" \in Taken
      BY <2>1, Dots DEF Else, IsId, Taken, TokenTypes, Opens
    <3>2. (cursor + 1) + 1 \in Places
      BY <3>1, Beyond
    <3> QED
      BY <2>1, <3>2 DEF Places
  <2>2. CASE ~Else(cursor)
    <3>1. Is(cursor, "OPEN_INVERSE") /\ "OPEN_INVERSE" \in Taken
      BY <1>1, <2>2 DEF Branch, Taken, TokenTypes, Opens
    <3> QED
      BY <2>2, <3>1, Beyond
  <2> QED
    BY <2>1, <2>2
<1>3. IF chained THEN EnterBlock(p, Append(below, outer), FALSE)
      ELSE stack' = Append(below, outer) /\ cursor' = end
  BY DEF BeginInverse
<1>4. /\ Calls(below) /\ below # <<>>
      /\ IsCall(Top)
  <2>1. Len(stack) \in 1..Len(stack) /\ Calls(stack)
    BY <1>1, Popped DEF Nesting
  <2>2. IsCall(Top) /\ Len(stack) # 1
    BY <1>1, <2>1 DEF Calls, Top
  <2> QED
    BY <1>1, <2>1, <2>2, Popped
<1>5. IsCall(outer) /\ outer.role = role
  <2> DEFINE node == [Top.node EXCEPT !.body = Top.stmts]
             then == [role |-> role, node |-> node, stmts |-> <<>>, swap |-> Top.swap]
  <2>1. outer = [Top EXCEPT !.role = role, !.node = node, !.stmts = <<>>]
    OBVIOUS
  <2> HIDE DEF node, role, outer
  <2>2. ASSUME NEW r, NEW n, NEW s, NEW w
        PROVE  [[role |-> r, node |-> n, stmts |-> s, swap |-> w]
                  EXCEPT !.role = role, !.node = node, !.stmts = <<>>]
               = [role |-> role, node |-> node, stmts |-> <<>>, swap |-> w]
    <3> DEFINE x == [role |-> role, node |-> n, stmts |-> s, swap |-> w]
               y == [role |-> role, node |-> node, stmts |-> s, swap |-> w]
    <3>1. [[role |-> r, node |-> n, stmts |-> s, swap |-> w] EXCEPT !.role = role] = x
      OBVIOUS
    <3>2. [x EXCEPT !.node = node] = y
      OBVIOUS
    <3>3. [y EXCEPT !.stmts = <<>>] = [role |-> role, node |-> node, stmts |-> <<>>, swap |-> w]
      OBVIOUS
    <3> HIDE DEF x, y
    <3> QED
      BY <3>1, <3>2, <3>3
  <2>3. Top = [role |-> Top.role, node |-> Top.node, stmts |-> Top.stmts, swap |-> Top.swap]
    BY <1>4 DEF IsCall
  <2>4. outer = then
    BY <2>1, <2>2, <2>3
  <2>5. IsCall(then) /\ then.role = role
    BY DEF IsCall
  <2> QED
    BY <2>4, <2>5
<1>6. role \in Roles /\ role # "root" /\ (~chained => role # "chain")
  BY DEF Roles
<1> HIDE DEF outer, role, below, p
<1>7. /\ Calls(Append(below, outer)) /\ Append(below, outer) # <<>>
      /\ Append(below, outer)[Len(Append(below, outer))] = outer
  BY <1>4, <1>5, <1>6, Pushed
<1>8. CASE chained
  <2>1. EnterBlock(p, Append(below, outer), FALSE)
    BY <1>3, <1>8
  <2> QED
    BY <1>2, <1>7, <2>1, Entering
<1>9. CASE ~chained
  <2>1. stack' = Append(below, outer) /\ cursor' = end
    BY <1>3, <1>9
  <2>2. Onward(p, Past["STRIP"][p])
    BY <1>2, Here, PastFarther, Dots
  <2>3. Onward(p, end)
    BY <1>2, <2>2, PastFarther, Dots
  <2> QED
    BY <1>5, <1>6, <1>7, <1>9, <2>1, <2>3 DEF Nesting, Onward
<1> QED
  BY <1>8, <1>9

LEMMA EndingBlock ==
    ASSUME Complete, cursor \in Places, Nesting(stack), EndBlock
    PROVE  cursor' \in Places /\ Nesting(stack')
<1> DEFINE end == EndTag(cursor, IF Top.node.kind = "inline" THEN 1 ELSE 0)
<1>1. stack # <<>> /\ Top.role # "root"
  BY DEF EndBlock, Parsing, IsRoot
<1>2. \E node : stack' = Deliver(Front(stack), node) /\ cursor' = end.to
  BY DEF EndBlock
<1>3. PICK node : stack' = Deliver(Front(stack), node) /\ cursor' = end.to
  BY <1>2
<1>4. Calls(Front(stack)) /\ Front(stack) # <<>>
  <2>1. Len(stack) \in 1..Len(stack) /\ Calls(stack)
    BY <1>1, Popped DEF Nesting
  <2>2. Len(stack) # 1
    BY <1>1, <2>1 DEF Calls, Top
  <2> QED
    BY <1>1, <2>1, <2>2, Popped
<1>5. Nesting(stack')
  BY <1>3, <1>4, Delivered
<1>6. Onward(cursor, end.to)
  BY EndTagIn
<1> QED
  BY <1>3, <1>5, <1>6 DEF Onward

LEMMA EndingRoot ==
    ASSUME Complete, cursor \in Places, Nesting(stack), EndRoot
    PROVE  cursor' \in Places /\ Nesting(stack')
<1>1. stack' = <<>> /\ cursor' = cursor
  BY DEF EndRoot
<1>2. Len(<<>>) = 0 /\ <<>> \in Seq(Elements(<<>>))
  BY EmptySeq
<1> QED
  BY <1>1, <1>2 DEF Nesting, Calls

LEMMA ParseStep ==
    ASSUME Complete, cursor \in Places, Nesting(stack), ParseNext
    PROVE  cursor' \in Places /\ Nesting(stack')
BY AddingStatement, Opened, BeginningInverse, EndingBlock, EndingRoot DEF ParseNext

-----------------------------------------------------------------------------
(* The whole of hbs_compile.  The tokens are complete when the parser      *)
(* begins, and then do not change.                                         *)
ParseInv ==
    /\ result \in {"pending", "ok", "parse_error"}
    /\ at # "end" => cursor = 1
    /\ at = "end" => cursor \in Places
    /\ Nesting(stack)

LEMMA CompleteAtEnd == ASSUME LexInv, at = "end" PROVE Complete
<1>1. tokens \in Seq(TokenSet) /\ Bracketed(tokens) /\ Ended(tokens)
  BY DEF LexInv, LexTypeOK, Brackets
<1> QED
  BY <1>1 DEF Complete, Ended, EndsWith, Bracketed, InPlace

LEMMA ParseInitially == Init => ParseInv
<1> SUFFICES ASSUME Init PROVE ParseInv
  OBVIOUS
<1> DEFINE x == Call("root", Node("program"), FALSE)
<1>1. stack = <<x>> /\ cursor = 1 /\ at = "outer" /\ result = "pending"
  BY DEF Init, LexInit, ParseInit
<1>2. IsCall(x) /\ x.role = "root" /\ "root" \in Roles
  BY CallIs DEF Roles
<1> HIDE DEF x
<1>3. stack \in Seq({x}) /\ Len(stack) = 1 /\ stack[1] = x
  BY <1>1
<1>4. stack \in Seq(Elements(stack))
  BY <1>3, AnySeq
<1>5. Nesting(stack)
  BY <1>2, <1>3, <1>4 DEF Nesting, Calls
<1> QED
  BY <1>1, <1>5 DEF ParseInv

LEMMA CompileStep == ASSUME LexInv, LexInv', ParseInv, [Next]_vars PROVE ParseInv'
<1>1. CASE Tokenize
  <2>1. cursor' = cursor /\ stack' = stack /\ result' = result
    BY <1>1 DEF Tokenize, parseVars
  <2>2. at # "end"
    BY <1>1 DEF Tokenize, LexNext, StartText, TextEscape, TextChar, EndText, OpenRawBlock,
       OpenUnescaped, OpenTag, OpenComment, SkipWhite, CloseTag, EndOfSource, ReadMark, ReadSegment,
       ReadNumber, ReadIdentifier, SkipUnknown, StartString, StringChar, EndString, ReadRawContent,
       EndOfTokens, Outer, OpensPlain, Inside, InStringOf, Tags
  <2>3. at' = "end" => 1 \in Places'
    <3> SUFFICES ASSUME at' = "end" PROVE 1 \in Places'
      OBVIOUS
    <3>1. tokens' \in Seq(TokenSet) /\ tokens' # <<>>
      BY DEF LexInv, LexTypeOK, Brackets, Ended, EndsWith
    <3> QED
      BY <3>1, EmptySeq DEF Places
  <2> QED
    BY <2>1, <2>2, <2>3 DEF ParseInv, Nesting, Calls, Elements, IsCall
<1>2. CASE Parse
  <2>1. Complete /\ cursor \in Places /\ Nesting(stack)
    BY <1>2, CompleteAtEnd DEF Parse, ParseInv
  <2>2. cursor' \in Places /\ Nesting(stack')
    BY <1>2, <2>1, ParseStep DEF Parse
  <2>3. at' = at /\ at = "end" /\ tokens' = tokens /\ result' = result
    BY <1>2 DEF Parse, lexVars
  <2>4. Nesting(stack)' /\ Places' = Places
    BY <2>2, <2>3 DEF Nesting, Calls, Elements, IsCall, Places
  <2> QED
    BY <2>2, <2>3, <2>4 DEF ParseInv
<1>3. CASE Report \/ UNCHANGED vars
  <2>1. cursor' = cursor /\ stack' = stack /\ at' = at /\ tokens' = tokens
        /\ (result' = result \/ result' \in {"ok", "parse_error"})
    BY <1>3 DEF Report, vars, lexVars, parseVars
  <2> QED
    BY <2>1 DEF ParseInv, Nesting, Calls, Elements, IsCall, Places
<1> QED
  BY <1>1, <1>2, <1>3 DEF Next

(* In every call of hbs_compile, for every template, the parser's place is *)
(* one of the tokens and the calls of parse_program nest as the grammar    *)
(* has it: the inductive invariant.                                        *)
THEOREM ParserInvariant == Spec => []ParseInv
<1>1. LexInv /\ LexInv' /\ ParseInv /\ [Next]_vars => ParseInv'
  BY CompileStep
<1> QED
  BY ParseInitially, Compiling, <1>1, PTL DEF Spec

(* Whatever the tokens break off in - a tag, an argument, a block - the    *)
(* parser never takes the EOF and reads nothing after it.                  *)
THEOREM StaysBeforeEnd == Spec => []EndNotTaken
<1>1. ParseInv => EndNotTaken
  BY DEF ParseInv, EndNotTaken, Places
<1> QED
  BY ParserInvariant, <1>1, PTL

(* The tokenizer and the parser stay well typed, and of the calls of       *)
(* parse_program the first is the root's and the innermost one is not a    *)
(* parse_block that waits for another.                                     *)
THEOREM CompileTyped == Spec => []CompileTypeOK
<1>1. LexInv /\ ParseInv /\ source \in Sources => CompileTypeOK
  <2> SUFFICES ASSUME LexInv, ParseInv, source \in Sources PROVE CompileTypeOK
    OBVIOUS
  <2>1. cursor \in Nat
    BY DEF ParseInv, Places
  <2>2. \A k \in 1..Len(stack) :
          /\ stack[k].role = "root" <=> k = 1
          /\ stack[k].role \in {"root", "body", "inverse", "chain", "only"}
          /\ k = Len(stack) => stack[k].role # "chain"
    <3> SUFFICES ASSUME NEW k \in 1..Len(stack)
                 PROVE  /\ stack[k].role = "root" <=> k = 1
                        /\ stack[k].role \in Roles
                        /\ k = Len(stack) => stack[k].role # "chain"
      BY DEF Roles
    <3>1. stack # <<>>
      BY EmptySeq
    <3> QED
      BY <3>1 DEF ParseInv, Nesting, Calls
  <2>3. /\ pos \in Nat /\ inTag \in BOOLEAN /\ at \in Loops
        /\ buf \in [text : Seq(Symbols), from : Nat, quote : Quotes \cup {"NUL"}]
        /\ tokens \in Seq([type : TokenTypes, value : Seq(Symbols), at : Nat, end : Nat])
    BY DEF LexInv, LexTypeOK, TokenSet
  <2> QED
    BY <2>1, <2>2, <2>3 DEF CompileTypeOK, ParseInv
<1>2. Init => source \in Sources
  BY DEF Init, LexInit
<1>3. source \in Sources /\ [Next]_vars => (source \in Sources)'
  BY DEF Next, vars, Tokenize, Parse, Report, lexVars, LexNext, StartText, TextEscape, TextChar, EndText,
     OpenRawBlock, OpenUnescaped, OpenTag, OpenComment, SkipWhite, CloseTag, EndOfSource, ReadMark,
     ReadSegment, ReadNumber, ReadIdentifier, SkipUnknown, StartString, StringChar, EndString,
     ReadRawContent, EndOfTokens, StartTag
<1> QED
  BY <1>1, <1>2, <1>3, Compiling, ParserInvariant, PTL DEF Spec

=============================================================================
