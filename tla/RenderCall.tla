----------------------------- MODULE RenderCall -----------------------------
(***************************************************************************)
(* What a call of hbs_render promises its caller: it returns once, with    *)
(* the template's meaning in its context, or with an error when a strict   *)
(* environment misses a variable.                                          *)
(***************************************************************************)
CONSTANTS
    Job,          \* what a call may be given
    Meaning(_)    \* the result of a call

VARIABLES job, result

Pending == [status |-> "running", out |-> <<>>]

Init == job \in Job /\ result = Pending

Answer ==
    /\ result = Pending
    /\ result' # Pending
    /\ result' = Meaning(job)
    /\ UNCHANGED job

(* One answer, the right one.                                              *)
SafeSpec == Init /\ [][Answer]_<<job, result>>

(* Every call is answered.                                                 *)
Answered == <>(result # Pending)

Spec == SafeSpec /\ Answered

=============================================================================
