------------------------------ MODULE Registry ------------------------------
(***************************************************************************)
(* One of the two tables of an environment (hbs_env_t in src/render.c),    *)
(* helpers or partials, and the calls of helpers the renderer has in       *)
(* progress.  A helper is user code: it may register and unregister while  *)
(* a template that uses the table is being rendered.                       *)
(*                                                                         *)
(* The table is an array that is reallocated to count + 1 entries by every *)
(* registration and never otherwise: entries beyond count are what earlier *)
(* removals left there.                                                    *)
(***************************************************************************)
EXTENDS Integers, Sequences

CONSTANTS
    Name,             \* names of helpers (or partials)
    MaxRegistrations, \* bound on the registrations made
    MaxDepth          \* bound on the helper calls in progress

ASSUME BoundAssumption == MaxRegistrations \in Nat /\ MaxDepth \in Nat

VARIABLES
    slots,   \* the allocated entries: [name, fn], fn the number of the registration
    count,   \* helper_count (partial_count)
    made,    \* the registrations made so far
    calls,   \* the helper calls in progress, innermost last
    answer,  \* the last operation and the registration it was about
    status   \* "live", "destroyed" or "undefined"

vars == <<slots, count, made, calls, answer, status>>

-----------------------------------------------------------------------------
(* The entry a search for a name stops at: the first one below count.      *)
First(n) == {i \in 1..count : /\ slots[i].name = n
                              /\ \A j \in 1..(i - 1) : slots[j].name # n}

Tell(op, n, about) == answer' = [op |-> op, name |-> n, about |-> about]

(* A call of a helper: a statement's (the function pointer is copied when  *)
(* the name is found) or a subexpression's (the index is kept, and the     *)
(* function read from the array after the arguments were evaluated).       *)
(*   phase  "args" while its arguments are evaluated, then "running"       *)
(*   found  history: the registration the name was found at                *)
(*   shifts history: removals at or below index since then                 *)
Call(form, i) ==
    [form |-> form, phase |-> "args", index |-> i, found |-> slots[i].fn,
     fn |-> IF form = "statement" THEN slots[i].fn ELSE 0, shifts |-> 0]

Top == calls[Len(calls)]

(* User code runs between renders and inside a helper.                     *)
UserCode == status = "live" /\ (calls # <<>> => Top.phase = "running")

-----------------------------------------------------------------------------
(* Slips: one entry too few is allocated; the new entry is put first.       *)
AddedShortSlip(n) == SubSeq(slots, 1, count)
AddedFirstSlip(n) == <<[name |-> n, fn |-> made + 1]>> \o SubSeq(slots, 1, count)

(* The entries after a registration: realloc keeps the first count.        *)
Added(n) == Append(SubSeq(slots, 1, count), [name |-> n, fn |-> made + 1])

Register(n) ==
    /\ UserCode /\ made < MaxRegistrations
    /\ slots' = Added(n)
    /\ count' = count + 1
    /\ made' = made + 1
    /\ Tell("register", <<n>>, <<made + 1>>)
    /\ UNCHANGED <<calls, status>>

(* Slips: the last entry is moved into the gap; the gap is closed one entry *)
(* late; the array is cut to the entries that are left.                    *)
ShiftedSwapSlip(i) == [slots EXCEPT ![i] = slots[count]]
ShiftedLateSlip(i) == [j \in 1..Len(slots) |-> IF i < j /\ j < count THEN slots[j + 1] ELSE slots[j]]
ShiftedCutSlip(i)  == [j \in 1..(count - 1) |-> IF i <= j THEN slots[j + 1] ELSE slots[j]]

(* The entries after a removal: those below count move down.               *)
Shifted(i) == [j \in 1..Len(slots) |-> IF i <= j /\ j < count THEN slots[j + 1] ELSE slots[j]]

(* History: the calls that are about to use an index the removal moves.    *)
Moved(i) == [k \in 1..Len(calls) |->
               IF calls[k].phase = "args" /\ i <= calls[k].index
               THEN [calls[k] EXCEPT !.shifts = @ + 1] ELSE calls[k]]

Unregister(n) ==
    /\ UserCode
    /\ \E i \in First(n) :
          /\ slots' = Shifted(i)
          /\ calls' = Moved(i)
          /\ Tell("unregister", <<n>>, <<slots[i].fn>>)
    /\ count' = count - 1
    /\ UNCHANGED <<made, status>>

UnregisterUnknown(n) ==
    /\ UserCode /\ First(n) = {}
    /\ Tell("unregister", <<n>>, <<>>)
    /\ UNCHANGED <<slots, count, made, calls, status>>

Destroy ==
    /\ status = "live" /\ calls = <<>>
    /\ slots' = <<>> /\ count' = 0
    /\ status' = "destroyed"
    /\ Tell("destroy", <<>>, <<>>)
    /\ UNCHANGED <<made, calls>>

-----------------------------------------------------------------------------
(* The renderer: a statement is rendered between helper calls or from the  *)
(* callbacks of a running one; a subexpression also as an argument of a    *)
(* call whose arguments are being evaluated.                               *)
MayCall(form) == /\ status = "live" /\ Len(calls) < MaxDepth
                 /\ form = "statement" => UserCode

Begin(form, n) ==
    /\ MayCall(form)
    /\ \E i \in First(n) :
          /\ calls' = Append(calls, Call(form, i))
          /\ Tell("lookup", <<n>>, <<slots[i].fn>>)
    /\ UNCHANGED <<slots, count, made, status>>

(* Also: any lookup of a partial, whose source is compiled on the spot.    *)
FindNone(n) ==
    /\ status = "live" /\ First(n) = {}
    /\ Tell("lookup", <<n>>, <<>>)
    /\ UNCHANGED <<slots, count, made, calls, status>>

Evaluated == status = "live" /\ calls # <<>> /\ Top.phase = "args"

(* The arguments are there: the helper is entered.                         *)
Invoke ==
    /\ Evaluated
    /\ \/ /\ Top.form = "statement"
          /\ calls' = [calls EXCEPT ![Len(calls)].phase = "running"]
       \/ /\ Top.form = "subexpression" /\ Top.index <= Len(slots)
          /\ calls' = [calls EXCEPT ![Len(calls)].phase = "running",
                                    ![Len(calls)].fn = slots[Top.index].fn]
    /\ UNCHANGED <<slots, count, made, answer, status>>

(* A function is read from beyond the end of the array.                    *)
InvokeOutside ==
    /\ Evaluated
    /\ Top.form = "subexpression" /\ Top.index > Len(slots)
    /\ status' = "undefined"
    /\ UNCHANGED <<slots, count, made, calls, answer>>

ReturnCall ==
    /\ status = "live" /\ calls # <<>> /\ Top.phase = "running"
    /\ calls' = SubSeq(calls, 1, Len(calls) - 1)
    /\ UNCHANGED <<slots, count, made, answer, status>>

-----------------------------------------------------------------------------
Init ==
    /\ slots = <<>> /\ count = 0 /\ made = 0
    /\ calls = <<>>
    /\ answer = [op |-> "create", name |-> <<>>, about |-> <<>>]
    /\ status = "live"

Next ==
    \/ \E n \in Name : \/ Register(n) \/ Unregister(n) \/ UnregisterUnknown(n)
                       \/ Begin("statement", n) \/ Begin("subexpression", n)
                       \/ FindNone(n)
    \/ Invoke \/ InvokeOutside \/ ReturnCall \/ Destroy

Spec == Init /\ [][Next]_vars

-----------------------------------------------------------------------------
(* Properties.                                                             *)

Entries == [name : Name, fn : Nat]
CallType == [form : {"statement", "subexpression"}, phase : {"args", "running"}, index : Nat,
           found : Nat, fn : Nat, shifts : Nat]

(* The types of the table and of the calls in progress.                    *)
RegistryTypeOK ==
    /\ slots \in Seq(Entries)
    /\ count \in 0..Len(slots)
    /\ made \in Nat
    /\ calls \in Seq(CallType)
    /\ status \in {"live", "destroyed", "undefined"}

(* The live entries are in the order of their registration, so none is     *)
(* there twice: the name of each is freed once, whatever was removed in    *)
(* between (hbs_unregister_helper, hbs_env_destroy).                       *)
Ordered == \A i, j \in 1..count : i < j => slots[i].fn < slots[j].fn

(* A subexpression's helper may be another one than its name was found at  *)
(* only if its arguments removed a registration at or below its own; then  *)
(* it is one that was registered later, never an earlier one.  Arguments   *)
(* that only register, or call helpers themselves, do no harm.             *)
DispatchedAsFound ==
    \A k \in 1..Len(calls) :
        calls[k].phase = "running" => /\ calls[k].shifts = 0 => calls[k].fn = calls[k].found
                                      /\ calls[k].fn >= calls[k].found

(* The array is only read outside its allocation by a subexpression during *)
(* whose arguments at least two removals were made at or below the index   *)
(* it keeps: of the entry found for it, of one before, or of one that      *)
(* moved to that index after the first of them.                            *)
ReadsInside == status = "undefined" => Top.shifts >= 2

(* Unregistering a helper (or partial) that is there makes its name        *)
(* unknown.                                                                *)
GoneAfterUnregister ==
    answer.op = "unregister" /\ answer.about # <<>> => First(answer.name[1]) = {}

-----------------------------------------------------------------------------
(* The registrations of a name: those of its entries, wherever they are.   *)
Registrations(n) == {slots[i].fn : i \in {j \in 1..count : slots[j].name = n}}

Table == INSTANCE NameTable WITH
            Registration <- 1..MaxRegistrations,
            table        <- [n \in Name |-> Registrations(n)],
            answer       <- answer

(* The array serves the registrations of a name in their order, also for   *)
(* what user code does while helpers are called (hbs_register_*,           *)
(* hbs_unregister_* and the searches of the renderer).                     *)
ImplementsTable == Table!Spec

=============================================================================
