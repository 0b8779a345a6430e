----------------------------- MODULE MCRegistry -----------------------------
(***************************************************************************)
(* Registry on two names.                                                  *)
(***************************************************************************)
EXTENDS Registry

Names == {"p", "q"}

=============================================================================
