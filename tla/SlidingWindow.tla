---------------------------- MODULE SlidingWindow ----------------------------
(***************************************************************************)
(* What a decompressor with a window promises: each symbol it delivers is  *)
(* new, or repeats the one a fixed distance back, which may be a symbol    *)
(* that the same reference has delivered.  There is no buffer to wrap.     *)
(***************************************************************************)
EXTENDS Integers, Sequences

CONSTANTS
  Symbols,
  Window    \* the longest distance

VARIABLES
  history,  \* what was delivered, after the Window symbols agreed beforehand
  distance  \* of the reference in progress, 0 if there is none

Init == history \in Seq(Symbols) /\ Len(history) = Window /\ distance = 0

Literal ==
  /\ distance = 0
  /\ \E s \in Symbols : history' = Append(history, s)
  /\ UNCHANGED distance

Refer == distance = 0 /\ distance' \in 1..Window /\ UNCHANGED history

Repeat ==
  /\ distance # 0
  /\ history' = Append(history, history[Len(history) + 1 - distance])
  /\ UNCHANGED distance

EndReference == distance # 0 /\ distance' = 0 /\ UNCHANGED history

Next == Literal \/ Refer \/ Repeat \/ EndReference

Spec == Init /\ [][Next]_<<history, distance>>
=============================================================================
