----------------------------- MODULE NameTable -----------------------------
(***************************************************************************)
(* What an environment promises about one kind of name (helpers, or        *)
(* partials): the registrations of a name are served in their order.  A    *)
(* lookup finds the oldest of them, unregistering removes the oldest.      *)
(***************************************************************************)
EXTENDS Integers

CONSTANTS Name, Registration   \* registrations are numbered in their order

VARIABLES
    table,    \* the registrations of each name that were not removed
    answer    \* the last operation: what it was, on which name, and the
              \* registration it concerned (<<>> is HBS_ERR_NOT_FOUND)

Empty     == [n \in Name |-> {}]
Oldest(n) == {r \in table[n] : \A s \in table[n] : r <= s}

Tell(op, n, about) == answer' = [op |-> op, name |-> n, about |-> about]

Init == table = Empty /\ answer = [op |-> "create", name |-> <<>>, about |-> <<>>]

Register(n, r) ==
    /\ \A m \in Name : \A s \in table[m] : s < r
    /\ table' = [table EXCEPT ![n] = @ \cup {r}]
    /\ Tell("register", <<n>>, <<r>>)

Unregister(n) ==
    /\ \E r \in Oldest(n) : /\ table' = [table EXCEPT ![n] = @ \ {r}]
                            /\ Tell("unregister", <<n>>, <<r>>)

Lookup(n) ==
    /\ \E r \in Oldest(n) : Tell("lookup", <<n>>, <<r>>)
    /\ UNCHANGED table

(* Either of them on a name that has no registration.                      *)
NotFound(op, n) == table[n] = {} /\ Tell(op, <<n>>, <<>>) /\ UNCHANGED table

Destroy == table' = Empty /\ Tell("destroy", <<>>, <<>>)

Next ==
    \/ \E n \in Name : \/ \E r \in Registration : Register(n, r)
                       \/ Unregister(n) \/ Lookup(n)
                       \/ NotFound("unregister", n) \/ NotFound("lookup", n)
    \/ Destroy

Spec == Init /\ [][Next]_<<table, answer>>

=============================================================================
