-------------------------------- MODULE Sink --------------------------------
(***************************************************************************)
(* What the buffers of a render promise: one text that only grows at its   *)
(* end.  Parts of it are open: the whole, and within it the output of a    *)
(* partial, of a helper's block or of an escaped value.  Of the innermost  *)
(* open part, and of nothing before it, the lines may be indented when it  *)
(* ends, or it may be given up.                                            *)
(***************************************************************************)
EXTENDS SequencesExt, Integers

CONSTANT Indent(_)   \* a text with its lines indented

VARIABLES text,        \* all that has been written
          marks        \* how long it was when each open part began

Prefix(n) == SubSeq(text, 1, n)
Part      == SubSeq(text, Last(marks) + 1, Len(text))

Init   == text = <<>> /\ marks = <<0>>
Write  == IsPrefix(text, text') /\ UNCHANGED marks
Open   == marks' = Append(marks, Len(text)) /\ UNCHANGED text
Close  == marks # <<>> /\ marks' = Front(marks) /\ UNCHANGED text
Shift  == marks # <<>> /\ text' = Prefix(Last(marks)) \o Indent(Part) /\ UNCHANGED marks
GiveUp == marks # <<>> /\ text' = Prefix(Last(marks)) /\ marks' = Front(marks)

Next == Write \/ Open \/ Close \/ Shift \/ GiveUp
Spec == Init /\ [][Next]_<<text, marks>>

=============================================================================
