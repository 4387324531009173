---------------------------- MODULE Attachments ----------------------------
(***************************************************************************)
(* The attachments of one message (attachment.go).  The table that lists   *)
(* them is read when it is first needed and kept in the message; iterators *)
(* and the other calls go through it, and each may fail and be repeated.   *)
(*                                                                         *)
(* A file says                                                             *)
(*   flag    bit 0x10 of property 3591: "set", "clear", or no such property*)
(*   table   whether the table can be read: no descriptor 1649, no rows    *)
(*   rows    the attachment identifier in each row, 0 where there is none  *)
(*   sound   the identifiers that lead to an attachment                    *)
(***************************************************************************)
EXTENDS Integers, Sequences

CONSTANTS
  Files,      \* the files considered
  Iterators,  \* the iterators the user holds
  MaxFaults   \* bound on failing reads

Flags == {"set", "clear", "missing"}

File == [flag : Flags, table : BOOLEAN, rows : Seq(Nat), sound : SUBSET (Nat \ {0})]

ASSUME FilesAssumption == Files \subseteq File
ASSUME FaultsAssumption == MaxFaults \in Nat

VARIABLES
  file,
  open,     \* Cleanup has not cleared the b-trees
  cache,    \* message.AttachmentTableContext: whether it is set, and its rows
  it,       \* the iterators
  answer,   \* what the last call but Next returned
  faults

vars == <<file, open, cache, it, answer, faults>>

NoTable == [read |-> FALSE, rows |-> <<>>]

\* got and said are history: what Value returned after each Next that
\* succeeded, and what the last Next meant.
NoIterator == [ready |-> FALSE, index |-> 0, value |-> 0, err |-> FALSE,
               got |-> <<>>, said |-> "nothing"]

FreshIterator == [NoIterator EXCEPT !.ready = TRUE]

Answer(call, result, list) == [call |-> call, result |-> result, list |-> list]

Init ==
  /\ file \in Files
  /\ open = TRUE /\ cache = NoTable
  /\ it = [i \in Iterators |-> NoIterator]
  /\ answer = Answer("none", "ok", <<>>)
  /\ faults = 0

ReadOK == UNCHANGED faults
ReadFails == faults < MaxFaults /\ faults' = faults + 1

----------------------------------------------------------------------------
(* The table.                                                              *)

\* GetAttachmentTableContext: the flag comes first, then what is cached.
TableAvailable ==
  /\ file.flag = "set"
  /\ ~ cache.read => open /\ file.table

Rows == IF cache.read THEN cache.rows ELSE file.rows

\* Seeded fault: what was read before the error is kept.
TableFailsHalfRead ==
  /\ file.flag = "set" /\ ~ cache.read
  /\ ReadFails
  /\ cache' = [read |-> TRUE, rows |-> SubSeq(file.rows, 1, Len(file.rows) - 1)]

\* The table is set in the message only once it is complete.
Fetch == TableAvailable /\ cache' = [read |-> TRUE, rows |-> Rows]

TableFails ==
  /\ file.flag = "set" /\ ~ cache.read
  /\ \/ ReadFails
     \/ ReadOK /\ ~ TableAvailable
  /\ UNCHANGED cache

NoAttachments == file.flag = "clear" /\ ReadOK /\ UNCHANGED cache

FlagMissing == file.flag = "missing" /\ ReadOK /\ UNCHANGED cache

----------------------------------------------------------------------------
(* One attachment.                                                         *)

\* The identifier in the row, its local descriptor, and what that leads to.
Attachable(id) == id # 0 /\ id \in file.sound /\ open

\* GetAttachment of row k + 1 returns the attachment.
Delivers(k) ==
  /\ Fetch
  /\ k + 1 \in DOMAIN Rows /\ Attachable(Rows[k + 1])
  /\ ReadOK

\* The table is there, but row k + 1 leads to no attachment.
RowRefuses(k) ==
  /\ Fetch
  /\ \/ ReadOK /\ (k + 1 \in DOMAIN Rows => ~ Attachable(Rows[k + 1]))
     \/ ReadFails /\ k + 1 \in DOMAIN Rows /\ Rows[k + 1] # 0

\* GetAttachment of row k + 1 returns an error.
Refuses(k) == TableFails \/ NoAttachments \/ FlagMissing \/ RowRefuses(k)

----------------------------------------------------------------------------
(* The calls.                                                              *)

Replies(call, result, list) ==
  /\ answer' = Answer(call, result, list)
  /\ UNCHANGED <<file, open, it>>

\* GetAttachmentCount; the list stands for its length.
GetAttachmentCount ==
  \/ Fetch /\ ReadOK /\ Replies("count", "ok", Rows)
  \/ NoAttachments /\ Replies("count", "ok", <<>>)
  \/ (TableFails \/ FlagMissing) /\ Replies("count", "error", <<>>)

GetAttachment(k) ==
  \/ Delivers(k) /\ Replies("one", "ok", <<Rows[k + 1]>>)
  \/ Refuses(k) /\ Replies("one", "error", <<k>>)

\* Seeded fault: attachments that cannot be read are left out.
GetAllAttachmentsLenient ==
  \/ NoAttachments /\ Replies("all", "ok", <<>>)
  \/ /\ Fetch /\ ReadOK
     /\ Replies("all", "ok", SelectSeq(Rows, Attachable))
  \/ (TableFails \/ FlagMissing) /\ Replies("all", "error", <<>>)

\* The count, then GetAttachment of each row: all of them or an error.
GetAllAttachments ==
  \/ NoAttachments /\ Replies("all", "ok", <<>>)
  \/ /\ Fetch /\ ReadOK
     /\ \A k \in DOMAIN Rows : Attachable(Rows[k])
     /\ Replies("all", "ok", Rows)
  \/ /\ \/ TableFails \/ FlagMissing
        \/ \E k \in DOMAIN Rows :
             (\A j \in 1..(k - 1) : Attachable(Rows[j])) /\ RowRefuses(k - 1)
     /\ Replies("all", "error", <<>>)

\* File.GetAttachment of a node: the error of GetPropertyContext is not tested,
\* and Populate panics on what it returned.
GetAttachmentOfNode(id) ==
  /\ \/ ReadOK /\ Attachable(id) /\ Replies("node", "ok", <<id>>)
     \/ ReadOK /\ ~ Attachable(id) /\ Replies("node", "error", <<>>)
     \/ ReadOK /\ ~ Attachable(id) /\ open /\ Replies("node", "panic", <<>>)
     \/ ReadFails /\ open /\ \E r \in {"error", "panic"} : Replies("node", r, <<>>)
  /\ UNCHANGED cache

Cleanup ==
  /\ open /\ open' = FALSE
  /\ UNCHANGED <<file, cache, it, answer, faults>>

----------------------------------------------------------------------------
(* The iterator.                                                           *)

\* The user's loop over iterator i is in progress.
Looping(i) == it[i].ready /\ it[i].said \in {"nothing", "item"}

Begins(i, iterator, result) ==
  /\ it' = [it EXCEPT ![i] = iterator]
  /\ answer' = Answer("iterator", result, <<>>)
  /\ UNCHANGED <<file, open>>

\* A message without attachments gives ErrAttachmentsNotFound.
GetAttachmentIterator(i) ==
  /\ ~ Looping(i)
  /\ \/ Fetch /\ ReadOK /\ Rows # <<>> /\ Begins(i, FreshIterator, "ok")
     \/ Fetch /\ ReadOK /\ Rows = <<>> /\ Begins(i, NoIterator, "notfound")
     \/ NoAttachments /\ Begins(i, NoIterator, "notfound")
     \/ (TableFails \/ FlagMissing) /\ Begins(i, NoIterator, "error")

\* Seeded fault: the end is noticed one row late.
HasNextPastEnd(i) == it[i].index <= Len(cache.rows)

\* The end is tested against the cached table.
HasNext(i) == it[i].index < Len(cache.rows)

\* Seeded fault: the index is not moved.
NextDeliversInPlace(i) ==
  /\ it[i].ready /\ HasNext(i)
  /\ Delivers(it[i].index)
  /\ it' = [it EXCEPT ![i] = [@ EXCEPT !.value = Rows[it[i].index + 1], !.said = "item"]]
  /\ UNCHANGED <<file, open, answer>>

NextDelivers(i) ==
  /\ it[i].ready /\ HasNext(i)
  /\ Delivers(it[i].index)
  /\ LET next == it[i].index + 1
         id == Rows[next]
     IN  it' = [it EXCEPT ![i] = [@ EXCEPT !.index = next, !.value = id, !.said = "item",
                                           !.got = Append(it[i].got, id)]]
  /\ UNCHANGED <<file, open, answer>>

\* Seeded fault: the row that failed is not tried again.
NextFailsMoving(i) ==
  /\ it[i].ready /\ HasNext(i)
  /\ Refuses(it[i].index)
  /\ it' = [it EXCEPT ![i] = [@ EXCEPT !.err = TRUE, !.index = @ + 1, !.said = "error"]]
  /\ UNCHANGED <<file, open, answer>>

\* Index and value stay; the error stays too, even after a later success.
NextFails(i) ==
  /\ it[i].ready /\ HasNext(i)
  /\ Refuses(it[i].index)
  /\ it' = [it EXCEPT ![i] = [@ EXCEPT !.err = TRUE, !.said = "error"]]
  /\ UNCHANGED <<file, open, answer>>

NextEnds(i) ==
  /\ it[i].ready /\ ~ HasNext(i)
  /\ it' = [it EXCEPT ![i] = [@ EXCEPT !.said = "end"]]
  /\ UNCHANGED <<file, open, cache, answer, faults>>

NextCall(i) == NextDelivers(i) \/ NextFails(i) \/ NextEnds(i)

Alive == answer.result # "panic"

Next ==
  /\ Alive
  /\ \/ GetAttachmentCount
     \/ \E k \in 0..Len(file.rows) : GetAttachment(k)
     \/ GetAllAttachments
     \/ \E id \in file.sound \cup {0} : GetAttachmentOfNode(id)
     \/ \E i \in Iterators : GetAttachmentIterator(i) \/ NextCall(i)
     \/ Cleanup

\* A user in the loop of doc_test.go calls Next until it returns false.
Fairness == \A i \in Iterators : WF_vars(Alive /\ Looping(i) /\ NextCall(i))

Spec == Init /\ [][Next]_vars /\ Fairness

----------------------------------------------------------------------------
(* Properties.                                                             *)

Iterator ==
  [ready : BOOLEAN, index : Nat, value : Nat, err : BOOLEAN, got : Seq(Nat),
   said : {"nothing", "item", "end", "error"}]

\* The state variables have their types.
TypeOK ==
  /\ file \in Files /\ open \in BOOLEAN
  /\ cache \in [read : BOOLEAN, rows : Seq(Nat)]
  /\ it \in [Iterators -> Iterator]
  /\ answer \in [call : {"none", "count", "one", "all", "node", "iterator"},
                 result : {"ok", "notfound", "error", "panic"}, list : Seq(Nat)]
  /\ faults \in 0..MaxFaults

\* A table is kept in the message only whole, so a call repeated after a failed
\* one sees every row, and an iterator has a table to test its end against.
CacheWhole ==
  /\ cache.read => cache.rows = file.rows /\ file.flag = "set"
  /\ \A i \in Iterators : it[i].ready => cache.read

\* GetAllAttachments returns every attachment in the order of the rows, or an
\* error; a count is that of all rows.  No call leaves a damaged row out.
AllOrError ==
  answer.call \in {"count", "all"} /\ answer.result = "ok" =>
    answer.list = IF file.flag = "set" THEN file.rows ELSE <<>>

SoundFile ==
  /\ file.flag = "clear" \/ (file.flag = "set" /\ file.table)
  /\ \A k \in DOMAIN file.rows : file.rows[k] \in file.sound

\* On a sound open file whose reads succeed nothing fails, in whatever order the
\* calls come, but the request for a row or a node that is not there.
ErrorsExplained ==
  SoundFile /\ open /\ faults = 0 =>
    /\ \A i \in Iterators : ~ it[i].err
    /\ answer.result = "error" /\ answer.call # "node" =>
         answer.call = "one"
           /\ (file.flag = "clear" \/ answer.list[1] \notin 0..(Len(file.rows) - 1))

\* Each iterator delivers the attachments of all rows in order, whatever the
\* others do, and ends only after the last; a failed Next loses nothing.
IteratorCursor(i) ==
  INSTANCE Cursor WITH items <- file.rows, taken <- it[i].got, said <- it[i].said

\* \A i \in Iterators : IteratorCursor(i)!Spec, with the quantifier moved inside.
ImplementsCursor ==
  /\ \A i \in Iterators : IteratorCursor(i)!Init
  /\ [][\A i \in Iterators :
          IteratorCursor(i)!Next \/ UNCHANGED IteratorCursor(i)!vars]_vars

\* The user's loop ends, or the process does.
LoopEnds == \A i \in Iterators : Looping(i) ~> ~ (Looping(i) /\ Alive)

=============================================================================
