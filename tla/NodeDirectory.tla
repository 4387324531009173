--------------------------- MODULE NodeDirectory ---------------------------
(***************************************************************************)
(* What opening a PST file promises its user: a directory from node        *)
(* identifiers to the data they refer to.  An opened file answers a lookup *)
(* with the content of the file.  What an open could not read is lost, and *)
(* may be missing from the answers; what it mistook is doubtful.  Neither  *)
(* changes while the file is open.                                         *)
(***************************************************************************)
CONSTANTS
  Id,         \* the identifiers looked up
  Content,    \* Content[id]: where the data of node id is
  NotFound,   \* the answer for an identifier the file does not have
  Anything    \* whatever may be answered at all

VARIABLES
  status,     \* "closed", "opening", "open" or "dead"
  answer,     \* the last lookup, <<id, answer>>, or <<>>
  lost,       \* identifiers whose entries were not read
  doubtful    \* identifiers for which something else was read

damage == <<lost, doubtful>>
vars == <<status, answer, damage>>

Init == status = "closed" /\ answer = <<>> /\ lost = {} /\ doubtful = {}

Open ==
  /\ status \in {"closed", "open"}
  /\ status' = "opening" /\ answer' = <<>>
  /\ UNCHANGED damage

\* Something is read, well or not.
Read ==
  /\ status = "opening"
  /\ lost' \subseteq Id /\ doubtful' \subseteq Id
  /\ UNCHANGED <<status, answer>>

Ends(label) == status = "opening" /\ status' = label /\ UNCHANGED <<answer, damage>>
Succeed == Ends("open")
Fail == Ends("closed")
Panic == Ends("dead")

Answers(id) ==
  IF id \in doubtful THEN Anything
  ELSE (IF id \in DOMAIN Content THEN {Content[id]} ELSE {NotFound})
         \cup (IF id \in lost THEN {NotFound} ELSE {})

Lookup(id) ==
  /\ status = "open"
  /\ \E a \in Answers(id) : answer' = <<id, a>>
  /\ UNCHANGED <<status, damage>>

Cleanup == status = "open" /\ status' = "closed" /\ UNCHANGED <<answer, damage>>

\* A crash in the middle of an open, or after its panic, may lose what was read so far.
Crash ==
  /\ status' = "closed"
  /\ IF status \in {"opening", "dead"} THEN lost' \subseteq Id ELSE UNCHANGED lost
  /\ UNCHANGED <<answer, doubtful>>

Next ==
  \/ Open \/ Read \/ Succeed \/ Fail \/ Panic
  \/ \E id \in Id : Lookup(id)
  \/ Cleanup \/ Crash

Spec == Init /\ [][Next]_vars
=============================================================================
