----------------------------- MODULE MailWalk -----------------------------
(***************************************************************************)
(* Walking the folders of an opened file and, in the callback, iterating   *)
(* over the messages of each (folder.go, message.go), as the example in    *)
(* doc_test.go does.  The user may also stop the walk, try a failed Next   *)
(* again, or call Cleanup in the middle; reads may fail.                   *)
(*                                                                         *)
(* WalkFolders hands the callback a pointer.  go.mod says go 1.20, where   *)
(* the variable of a range loop is one variable for the whole loop, so the *)
(* pointer is to the loop variable: cells holds what these point to.       *)
(***************************************************************************)
EXTENDS Integers, Sequences, SequencesExt

CONSTANTS
  Folder, RootFolder,
  Message,        \* the messages
  SubFolders,     \* SubFolders[f]: the rows of the sub-folders table of f
  HasSubFolders,  \* the folders whose row says they have sub-folders
  MessageCount,   \* MessageCount[f], of the row of f
  SearchFolder,   \* the folders with a search folder's identifier
  Rows,           \* Rows[f]: the rows of the message table, each the
                  \* identifiers it has (a row may lack the cell)
  Files,          \* the files considered: what can be read of them
  Walk,           \* Walk[f]: f and what is below it, depth first
  Rest,           \* Rest[f][i]: what is below f after its first i sub-folders
  MaxFaults       \* bound on failing reads

ASSUME FoldersAssumption ==
  /\ RootFolder \in HasSubFolders /\ HasSubFolders \subseteq Folder
  /\ MessageCount[RootFolder] = 0
  /\ \A f \in Folder :
       /\ SubFolders[f] \in Seq(Folder)
       /\ MessageCount[f] \in Nat
       /\ Rows[f] \in Seq(Seq(Message))

\* The folders that WalkFolders gets to below f.
Listed(f) == IF f \in HasSubFolders THEN SubFolders[f] ELSE <<>>

ASSUME WalkAssumption ==
  \A f \in Folder :
    /\ Walk[f] \in Seq(Folder)
    /\ Walk[f] = <<f>> \o Rest[f][0]
    /\ Rest[f][Len(Listed(f))] = <<>>
    /\ \A i \in 0..Len(Listed(f)) : Rest[f][i] \in Seq(Folder)
    /\ \A i \in 1..Len(Listed(f)) :
         Rest[f][i - 1] = Walk[Listed(f)[i]] \o Rest[f][i]

\* readable are the messages that GetMessage can read, folderRows and messageRows
\* the folders whose tables of sub-folders and of messages have a row matrix.
File ==
  [readable : SUBSET Message, folderRows : SUBSET Folder, messageRows : SUBSET Folder]

ASSUME FilesAssumption == Files \subseteq File

ASSUME BoundAssumption == MaxFaults \in Nat

VARIABLES
  file,
  open,      \* FALSE after Cleanup: every lookup fails
  pc,        \* "idle", "callback", "iterate", "stopped", "descend", "loop", "done"
  cells,     \* the Folder variables that pointers are handed out to
  stack,     \* the calls of WalkFolders in progress, innermost last
  index,     \* currentIndex of the message iterator
  err,       \* its err is set
  value,     \* currentMessage, <<>> for nil
  result,    \* "none", "nil" or "error": what WalkFolders returned
  faults,
  visited,   \* the folders the callback was called with (history)
  got,       \* what Value gave after each Next on this folder (history)
  culprit    \* why something failed last (history)

iterator == <<index, err, value>>
vars == <<file, open, pc, cells, stack, iterator, result, faults, visited, got, culprit>>

NoValue == <<>>

Init ==
  /\ file \in Files
  /\ open = TRUE /\ pc = "idle" /\ cells = <<>> /\ stack = <<>>
  /\ index = 0 /\ err = FALSE /\ value = NoValue
  /\ result = "none" /\ faults = 0
  /\ visited = <<>> /\ got = <<>> /\ culprit = "none"

Top == stack[Len(stack)]
\* The folder a call of WalkFolders works on is what its pointer points to.
Current == cells[Top.self]

\* A step that needs the file fails, and why.
Fails(damaged) ==
  \/ ~ open /\ culprit' = "cleanup" /\ UNCHANGED faults
  \/ open /\ damaged /\ culprit' = "file" /\ UNCHANGED faults
  \/ faults < MaxFaults /\ culprit' = "fault" /\ faults' = faults + 1

\* An error is returned through all the calls in progress.
Abort ==
  /\ pc' = "done" /\ result' = "error" /\ stack' = <<>>
  /\ UNCHANGED <<file, open, cells, iterator, got>>

\* WalkFolders is called with a pointer to the variable self.  folder is what
\* it held then and next the index of the next sub-folder.
CallWith(s, self, f) ==
  Append(s, [self |-> self, folder |-> f, subs |-> <<>>, cell |-> 0, next |-> 1])

----------------------------------------------------------------------------
(* File.WalkFolders.                                                       *)

GetRootFolder ==
  /\ pc = "idle"
  /\ UNCHANGED visited
  /\ \/ /\ open
        /\ cells' = <<RootFolder>> /\ stack' = CallWith(<<>>, 1, RootFolder)
        /\ pc' = "callback"
        /\ UNCHANGED <<file, open, iterator, result, faults, got, culprit>>
     \/ Fails(FALSE) /\ Abort

----------------------------------------------------------------------------
(* The callback.                                                           *)

\* GetMessageIterator asks the folder for a table of its messages.
HasMessages(f) == MessageCount[f] # 0 /\ f \notin SearchFolder

\* ErrMessagesNotFound lets the callback return nil.
NoMessages ==
  /\ pc = "callback" /\ ~ HasMessages(Current)
  /\ visited' = Append(visited, Current)
  /\ pc' = "descend" /\ got' = <<>>
  /\ UNCHANGED <<file, open, cells, stack, iterator, result, faults, culprit>>

\* GetMessageIterator
GetMessageIterator ==
  /\ pc = "callback" /\ HasMessages(Current)
  /\ visited' = Append(visited, Current)
  /\ \/ /\ open /\ Current \in file.messageRows
        /\ pc' = "iterate" /\ got' = <<>>
        /\ index' = 0 /\ err' = FALSE /\ value' = NoValue
        /\ UNCHANGED <<file, open, cells, stack, result, faults, culprit>>
     \/ Fails(Current \notin file.messageRows) /\ Abort

HasNext == pc = "iterate" /\ index < Len(Rows[Current])
Row == Rows[Current][index + 1]
RowReadable == \A i \in DOMAIN Row : Row[i] \in file.readable

\* Seeded fault: a row without an identifier is not moved past.
NextSucceedsOnMessage ==
  /\ HasNext /\ Row # <<>>
  /\ open /\ RowReadable
  /\ index' = index + 1
  /\ value' = <<Last(Row)>>
  /\ got' = Append(got, value')
  /\ UNCHANGED <<file, open, pc, cells, stack, err, result, faults, visited, culprit>>

\* Next reads the message of every identifier of the row and keeps the last.
NextSucceeds ==
  /\ HasNext
  /\ Row # <<>> => open /\ RowReadable
  /\ index' = index + 1
  /\ value' = IF Row = <<>> THEN NoValue ELSE <<Last(Row)>>
  /\ got' = Append(got, value')
  /\ UNCHANGED <<file, open, pc, cells, stack, err, result, faults, visited, culprit>>

\* Seeded fault: the index moves past the message that could not be read.
NextFailsMoving ==
  /\ HasNext /\ Row # <<>>
  /\ Fails(~ RowReadable)
  /\ err' = TRUE /\ pc' = "stopped" /\ index' = index + 1
  /\ UNCHANGED <<file, open, cells, stack, value, result, visited, got>>

\* Next returns false and sets err; index and value stay.
NextFails ==
  /\ HasNext /\ Row # <<>>
  /\ Fails(~ RowReadable)
  /\ err' = TRUE /\ pc' = "stopped"
  /\ UNCHANGED <<file, open, cells, stack, index, value, result, visited, got>>

\* Next returns false at the end.
NextEnds ==
  /\ pc = "iterate" /\ ~ HasNext
  /\ pc' = "stopped"
  /\ UNCHANGED <<file, open, cells, stack, iterator, result, faults, visited, got, culprit>>

\* The callback returns Err(), which is never reset.
CallbackReturns ==
  /\ pc = "stopped"
  /\ UNCHANGED <<faults, visited, culprit>>
  /\ \/ err /\ Abort
     \/ /\ ~ err
        /\ pc' = "descend"
        /\ UNCHANGED <<file, open, cells, stack, iterator, result, got>>

\* The user calls Next again after it has returned false.
UserRetries ==
  /\ pc = "stopped"
  /\ pc' = "iterate"
  /\ UNCHANGED <<file, open, cells, stack, iterator, result, faults, visited, got, culprit>>

\* The callback returns an error of the user.
UserStops ==
  /\ pc = "iterate"
  /\ culprit' = "user" /\ Abort
  /\ UNCHANGED <<faults, visited>>

\* The user calls Cleanup, before the walk or in the callback.
Cleanup ==
  /\ pc \in {"idle", "iterate"} /\ open
  /\ open' = FALSE
  /\ UNCHANGED <<file, pc, cells, stack, iterator, result, faults, visited, got, culprit>>

----------------------------------------------------------------------------
(* Folder.WalkFolders after its callback.                                  *)

\* Seeded fault: the error of GetSubFolders does not end the walk.
GetSubFoldersLenient ==
  /\ pc = "descend"
  /\ pc' = "loop"
  /\ cells' = Append(cells, Current)
  /\ stack' = [stack EXCEPT ![Len(stack)].subs =
                              IF Current \in file.folderRows THEN Listed(Current) ELSE <<>>,
                            ![Len(stack)].cell = Len(cells) + 1]
  /\ UNCHANGED <<file, open, iterator, result, faults, visited, got, culprit>>

\* GetSubFolders; the loop over its result has one variable, the new cell.
GetSubFolders ==
  /\ pc = "descend"
  /\ UNCHANGED visited
  /\ \/ /\ Current \in HasSubFolders => open /\ Current \in file.folderRows
        /\ pc' = "loop"
        /\ cells' = Append(cells, Current)
        /\ stack' = [stack EXCEPT ![Len(stack)].subs = Listed(Current),
                                  ![Len(stack)].cell = Len(cells) + 1]
        /\ UNCHANGED <<file, open, iterator, result, faults, got, culprit>>
     \/ /\ Current \in HasSubFolders
        /\ Fails(Current \notin file.folderRows) /\ Abort

\* Seeded fault: all loops of the walk share one variable.
NextSubFolderShared ==
  /\ pc = "loop" /\ Top.next <= Len(Top.subs)
  /\ cells' = [cells EXCEPT ![1] = Top.subs[Top.next]]
  /\ stack' = CallWith([stack EXCEPT ![Len(stack)].next = @ + 1], 1, Top.subs[Top.next])
  /\ pc' = "callback"
  /\ UNCHANGED <<file, open, iterator, result, faults, visited, got, culprit>>

\* Seeded fault: the walk begins with the second sub-folder.
NextSubFolderSkipping ==
  /\ pc = "loop" /\ Top.next < Len(Top.subs)
  /\ cells' = [cells EXCEPT ![Top.cell] = Top.subs[Top.next + 1]]
  /\ stack' = CallWith([stack EXCEPT ![Len(stack)].next = @ + 1], Top.cell,
                       Top.subs[Top.next + 1])
  /\ pc' = "callback"
  /\ UNCHANGED <<file, open, iterator, result, faults, visited, got, culprit>>

\* The loop turns: its variable is assigned and walked.
NextSubFolder ==
  /\ pc = "loop" /\ Top.next <= Len(Top.subs)
  /\ cells' = [cells EXCEPT ![Top.cell] = Top.subs[Top.next]]
  /\ stack' = CallWith([stack EXCEPT ![Len(stack)].next = @ + 1], Top.cell,
                       Top.subs[Top.next])
  /\ pc' = "callback"
  /\ UNCHANGED <<file, open, iterator, result, faults, visited, got, culprit>>

Return ==
  /\ pc = "loop" /\ Top.next > Len(Top.subs)
  /\ stack' = SubSeq(stack, 1, Len(stack) - 1)
  /\ IF Len(stack) = 1 THEN pc' = "done" /\ result' = "nil" ELSE UNCHANGED <<pc, result>>
  /\ UNCHANGED <<file, open, cells, iterator, faults, visited, got, culprit>>

Step ==
  \/ GetRootFolder \/ NoMessages \/ GetMessageIterator
  \/ NextSucceeds \/ NextFails \/ NextEnds
  \/ CallbackReturns \/ GetSubFolders \/ NextSubFolder \/ Return

Next == Step \/ UserRetries \/ UserStops \/ Cleanup

\* The walk runs on the caller's goroutine; the user does not call Next again
\* and again for ever.
Spec == Init /\ [][Next]_vars /\ WF_vars(Step) /\ SF_vars(CallbackReturns)

----------------------------------------------------------------------------
(* Properties.                                                             *)

Frame == [self : Nat, folder : Folder, subs : Seq(Folder), cell : Nat, next : Nat]

\* The state variables have their types.
TypeOK ==
  /\ file \in Files
  /\ open \in BOOLEAN
  /\ pc \in {"idle", "callback", "iterate", "stopped", "descend", "loop", "done"}
  /\ cells \in Seq(Folder) /\ stack \in Seq(Frame)
  /\ index \in Nat /\ err \in BOOLEAN
  /\ value = NoValue \/ value \in {<<m>> : m \in Message}
  /\ result \in {"none", "nil", "error"} /\ faults \in 0..MaxFaults
  /\ visited \in Seq(Folder)
  /\ culprit \in {"none", "cleanup", "file", "fault", "user"}

\* Every call of WalkFolders in progress still points to the folder it was
\* called with, though the variable pointed to belongs to its caller's loop.
PointersStable ==
  \A k \in DOMAIN stack : cells[stack[k].self] = stack[k].folder

\* The callback is called with the folders depth first, each once and none
\* left out, and WalkFolders returns nil only when it was called with all.
WalkInOrder ==
  /\ IsPrefix(visited, Walk[RootFolder])
  /\ result = "nil" => visited = Walk[RootFolder]

\* Value gives the message of each row once and in order, also when a failed
\* Next was tried again, and the walk goes on only when no row is left.
NothingLost ==
  pc \in {"iterate", "stopped", "descend"} /\ HasMessages(Current) =>
    /\ got = [i \in 1..index |-> IF Rows[Current][i] = <<>> THEN NoValue
                                 ELSE <<Last(Rows[Current][i])>>]
    /\ pc = "descend" => index = Len(Rows[Current])

\* A folder that the walk cannot get past.
Damaged(f) ==
  \/ HasMessages(f) /\ f \notin file.messageRows
  \/ HasMessages(f) /\ \E i \in DOMAIN Rows[f] :
                         \E m \in Range(Rows[f][i]) : m \notin file.readable
  \/ f \in HasSubFolders \ file.folderRows

\* WalkFolders returns an error only for a damaged folder, which is the last one
\* visited, a failed read, a Cleanup or the user; and nil only when no folder
\* is damaged.
ErrorsJustified ==
  /\ result = "error" =>
       CASE culprit = "cleanup" -> ~ open
         [] culprit = "fault" -> faults > 0
         [] culprit = "file" -> Damaged(Last(visited))
         [] OTHER -> culprit = "user"
  /\ result = "nil" => \A f \in Range(Walk[RootFolder]) : ~ Damaged(f)

\* The walk returns, whatever is damaged.
WalkReturns == pc = "callback" ~> pc = "done"

\* The comment on Next (message.go): "Next will ensure that Value returns the
\* next item".  A row without the identifier makes Value nil.
ValuePresent == pc = "iterate" /\ index > 0 => value # NoValue

============================================================================
