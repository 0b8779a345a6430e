------------------------------- MODULE Values -------------------------------
(***************************************************************************)
(* The JSON values a template is rendered against, as src/render.c uses    *)
(* them through json-c (an external library).                              *)
(*                                                                         *)
(* A value is a tagged tuple.  json-c represents the JSON null by the NULL *)
(* pointer, so Null is both "null" and "no value".  An object is the       *)
(* sequence of its <<key, value>> members in insertion order (the order    *)
(* {{#each}} visits them in); keys are distinct.                           *)
(***************************************************************************)
EXTENDS Integers, Sequences, SequencesExt

Null == <<"null">>
Bool(b) == <<"bool", b>>
Num(n)  == <<"num", n>>
Str(s)  == <<"str", s>>
Arr(s)  == <<"arr", s>>
Obj(ms) == <<"obj", ms>>

(* The outcome of reading memory malloc'ed and never written.              *)
Unset == <<"unset">>

IsObj(v) == v[1] = "obj"
IsArr(v) == v[1] = "arr"

-----------------------------------------------------------------------------
(* json_object_object_get_ex: the test and the value it stores.            *)
Has(v, key) == IsObj(v) /\ \E i \in 1..Len(v[2]) : v[2][i][1] = key

(* One step of a dotted path: anything that is not an object has no        *)
(* members; a step from an uninitialised value stays undefined.            *)
Member(v, key) ==
    CASE v = Unset   -> Unset
      [] Has(v, key) -> v[2][CHOOSE i \in 1..Len(v[2]) : v[2][i][1] = key][2]
      [] OTHER       -> Null

Descend(v, keys) == FoldLeft(Member, v, keys)

(* json_object_object_add: replaces a member in place, else appends one.   *)
Add(v, member) ==
    IF Has(v, member[1])
    THEN Obj([i \in 1..Len(v[2]) |-> IF v[2][i][1] = member[1] THEN member
                                                               ELSE v[2][i]])
    ELSE Obj(Append(v[2], member))

(* json_object_array_get_idx: NULL outside the array, negative indices     *)
(* included (they become huge as size_t).                                  *)
ArrayItem(v, i) == IF i \in 0..(Len(v[2]) - 1) THEN v[2][i + 1] ELSE Null

(* json_object_get_int / _get_string / _get_boolean on the values a lookup *)
(* key, a partial name or includeZero can have.  Only one-digit numerals   *)
(* occur as strings in the instances.                                      *)
Numeral == [s \in {"0", "1", "2", "3"} |->
              CASE s = "0" -> 0 [] s = "1" -> 1 [] s = "2" -> 2 [] s = "3" -> 3]

AsInt(v) == CASE v[1] = "num"  -> v[2]
              [] v[1] = "bool" -> IF v[2] THEN 1 ELSE 0
              [] v[1] = "str"  -> IF v[2] \in DOMAIN Numeral THEN Numeral[v[2]] ELSE 0
              [] OTHER         -> 0

AsString(v) == CASE v[1] = "str"  -> v[2]
                 [] v[1] = "bool" -> IF v[2] THEN "true" ELSE "false"
                 [] OTHER         -> ToString(v[2])

AsBool(v) == CASE v[1] = "bool" -> v[2]
               [] v[1] = "num"  -> v[2] # 0
               [] v[1] = "str"  -> v[2] # ""
               [] OTHER         -> FALSE

-----------------------------------------------------------------------------
(* is_falsy: null, false, 0, "", [] -- an object is never falsy.           *)
Falsy(v) == \/ v = Null
            \/ v[1] = "bool" /\ ~v[2]
            \/ v[1] = "num"  /\ v[2] = 0
            \/ v[1] = "str"  /\ v[2] = ""
            \/ IsArr(v)      /\ v[2] = <<>>

(* The members {{lookup}} selects, as an expression and as a statement.    *)
LookupIn(obj, key) ==
    IF Unset \in {obj, key} THEN Unset
    ELSE CASE key # Null /\ IsArr(obj) -> ArrayItem(obj, AsInt(key))
           [] key # Null /\ IsObj(obj) -> Member(obj, AsString(key))
           [] OTHER                    -> Null

(* The context of a partial called with hash arguments: a copy of the      *)
(* partial's context when that is an object, extended by the arguments.    *)
Extended(ctx, hash) == FoldLeft(Add, IF IsObj(ctx) THEN ctx ELSE Obj(<<>>), hash)

=============================================================================
