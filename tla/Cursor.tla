------------------------------ MODULE Cursor ------------------------------
(***************************************************************************)
(* What an iterator over a list promises: the items come in their order,   *)
(* each once; the end is told after the last of them only; a failure       *)
(* leaves the position where it is, so that the caller may try again.      *)
(***************************************************************************)
EXTENDS Naturals, Sequences

VARIABLES
  items,    \* what is iterated over
  taken,    \* what has been delivered
  said      \* the last answer: "nothing", "item", "end" or "error"

vars == <<items, taken, said>>

Init == taken = <<>> /\ said = "nothing"

\* Iteration begins again.
Restart == taken' = <<>> /\ said' = "nothing" /\ UNCHANGED items

Deliver ==
  /\ Len(taken) < Len(items)
  /\ taken' = Append(taken, items[Len(taken) + 1])
  /\ said' = "item"
  /\ UNCHANGED items

End == taken = items /\ said' = "end" /\ UNCHANGED <<items, taken>>

Fail == said' = "error" /\ UNCHANGED <<items, taken>>

Next == Restart \/ Deliver \/ End \/ Fail

Spec == Init /\ [][Next]_vars
=============================================================================
