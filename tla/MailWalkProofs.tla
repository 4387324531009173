--------------------------- MODULE MailWalkProofs ---------------------------
(***************************************************************************)
(* Proofs about MailWalk.  The calls in progress are related by Frames:    *)
(* the variables their pointers point to lie one after the other, so the   *)
(* one a loop assigns is above all those in use.  Progress relates what    *)
(* was visited to what the calls still have to do, and Iteration what the  *)
(* iterator gave to the rows of its table.                                 *)
(***************************************************************************)
EXTENDS MailWalk, SequenceTheorems, TLAPS

\* What is left of a stack when its last element is taken.
LEMMA PopFacts ==
  ASSUME NEW S, NEW s \in Seq(S), s # <<>>
  PROVE  /\ SubSeq(s, 1, Len(s) - 1) \in Seq(S)
         /\ Len(SubSeq(s, 1, Len(s) - 1)) = Len(s) - 1 /\ Len(s) \in Nat
         /\ \A k \in 1..(Len(s) - 1) : SubSeq(s, 1, Len(s) - 1)[k] = s[k]
  <1>1. Len(s) \in Nat \ {0}
    BY EmptySeq
  <1>2. \A k \in 1..(Len(s) - 1) : s[k] \in S
    BY <1>1, ElementOfSeq
  <1>3. PICK n \in Nat : Len(s) = n + 1 /\ Len(s) - 1 = n
    BY <1>1
  <1>4. /\ SubSeq(s, 1, n) \in Seq(S) /\ Len(SubSeq(s, 1, n)) = n
        /\ \A k \in 1..n : SubSeq(s, 1, n)[k] = s[k]
    BY <1>2, <1>3, SubSeqProperties
  <1> QED BY <1>1, <1>3, <1>4

\* A function on 1..n is a sequence of length n.
LEMMA BuiltFacts ==
  ASSUME NEW S, NEW n \in Nat, NEW f \in [1..n -> S]
  PROVE  f \in Seq(S) /\ Len(f) = n
  OBVIOUS

Walking == {"callback", "iterate", "stopped", "descend", "loop"}
Iterating == {"iterate", "stopped", "descend"}

\* A frame whose loop runs.
LoopFrame(fr) ==
  /\ fr.self < fr.cell
  /\ fr.subs = Listed(fr.folder)
  /\ fr.next \in 1..(Len(fr.subs) + 1)

Frames ==
  /\ pc \in Walking => stack # <<>>
  /\ stack # <<>> => stack[1].folder = RootFolder
  /\ \A k \in 1..Len(stack) :
       /\ stack[k].self \in 1..Len(cells)
       /\ stack[k].cell \in 0..Len(cells)
       /\ k < Len(stack) \/ pc = "loop" => LoopFrame(stack[k])
       /\ cells[stack[k].self] = stack[k].folder
  /\ \A k \in 1..(Len(stack) - 1) :
       /\ stack[k].next > 1
       /\ stack[k + 1].folder = Listed(stack[k].folder)[stack[k].next - 1]
  /\ \A j, k \in 1..Len(stack) : j < k => stack[j].self < stack[k].self
  /\ pc \in Walking \ {"loop"} => Top.next = 1

\* What the calls below the innermost have to walk when it has returned.
Remainder(r) ==
  /\ r \in [1..Len(stack) -> Seq(Folder)]
  /\ r[1] = <<>>
  /\ \A k \in 1..(Len(stack) - 1) :
       r[k + 1] = Rest[stack[k].folder][stack[k].next - 1] \o r[k]

\* What the innermost has to walk.
Ahead == IF pc = "callback" THEN Walk[Top.folder] ELSE Rest[Top.folder][Top.next - 1]

Progress ==
  pc \in Walking =>
    \E r : Remainder(r) /\ visited \o (Ahead \o r[Len(stack)]) = Walk[RootFolder]

ValueOf(f, i) == IF Rows[f][i] = <<>> THEN NoValue ELSE <<Last(Rows[f][i])>>
Given(f, n) == [i \in 1..n |-> ValueOf(f, i)]
RowsReadable(f, n) ==
  \A i \in 1..n : \A m \in Range(Rows[f][i]) : m \in file.readable

\* The reason an error has.
Justified ==
  CASE culprit = "cleanup" -> ~ open
    [] culprit = "fault" -> faults > 0
    [] culprit = "file" -> Damaged(Last(visited))
    [] OTHER -> culprit = "user"

Iteration ==
  /\ pc \in {"iterate", "stopped"} => HasMessages(Current)
  /\ pc \in Iterating => visited # <<>> /\ Last(visited) = Current
  /\ pc \in Iterating /\ HasMessages(Current) =>
       /\ Current \in file.messageRows
       /\ index <= Len(Rows[Current])
       /\ got = Given(Current, index)
       /\ RowsReadable(Current, index)
       /\ pc = "descend" \/ (pc = "stopped" /\ ~ err) => index = Len(Rows[Current])
  /\ pc \in {"iterate", "stopped"} /\ err => Justified
  /\ result = "error" => Justified
  /\ pc # "done" => result = "none"
  /\ pc = "idle" => visited = <<>>

\* The folders behind the walk are not damaged.
Sound ==
  result # "error" =>
    \A i \in 1..Len(visited) :
      ~ Damaged(visited[i]) \/ (i = Len(visited) /\ pc \in Iterating)

IInv == TypeOK /\ Frames /\ Progress /\ WalkInOrder /\ Iteration /\ Sound

----------------------------------------------------------------------------
(* Facts about the constants and sequences.                                *)

LEMMA FolderFacts ==
  ASSUME NEW f \in Folder
  PROVE  /\ Listed(f) \in Seq(Folder) /\ Len(Listed(f)) \in Nat
         /\ Rows[f] \in Seq(Seq(Message)) /\ Len(Rows[f]) \in Nat
         /\ \A i \in 1..Len(Listed(f)) : Listed(f)[i] \in Folder
         /\ \A i \in 1..Len(Rows[f]) : Rows[f][i] \in Seq(Message)
         /\ RootFolder \in Folder
  <1>1. SubFolders[f] \in Seq(Folder) /\ Rows[f] \in Seq(Seq(Message))
    BY FoldersAssumption
  <1>2. Listed(f) \in Seq(Folder)
    BY <1>1 DEF Listed
  <1>3. RootFolder \in Folder
    BY FoldersAssumption
  <1> QED BY <1>1, <1>2, <1>3

LEMMA WalkFacts ==
  ASSUME NEW f \in Folder
  PROVE  /\ Walk[f] \in Seq(Folder) /\ Walk[f] = <<f>> \o Rest[f][0]
         /\ Rest[f][Len(Listed(f))] = <<>>
         /\ \A i \in 0..Len(Listed(f)) : Rest[f][i] \in Seq(Folder)
         /\ \A i \in 1..Len(Listed(f)) :
              Rest[f][i - 1] = Walk[Listed(f)[i]] \o Rest[f][i]
  BY WalkAssumption

LEMMA RootFacts ==
  /\ RootFolder \in Folder /\ Walk[RootFolder] \in Seq(Folder)
  /\ <<>> \in Seq(Folder)
  <1>1. RootFolder \in Folder
    BY FoldersAssumption
  <1>2. Walk[RootFolder] \in Seq(Folder)
    BY <1>1, WalkFacts
  <1> QED BY <1>1, <1>2, EmptySeq

LEMMA LastFacts ==
  ASSUME NEW S, NEW s \in Seq(S), s # <<>>
  PROVE  Last(s) = s[Len(s)] /\ Last(s) \in S /\ Len(s) \in 1..Len(s)
  <1>1. Len(s) \in Nat /\ Len(s) # 0
    BY EmptySeq
  <1> QED BY <1>1, ElementOfSeq DEF Last

LEMMA AppendLast ==
  ASSUME NEW S, NEW s \in Seq(S), NEW e \in S
  PROVE  /\ Append(s, e) \in Seq(S) /\ Append(s, e) # <<>>
         /\ Last(Append(s, e)) = e
         /\ Append(s, e) = s \o <<e>>
  BY AppendProperties, AppendIsConcat DEF Last

LEMMA PrefixFacts ==
  ASSUME NEW S, NEW s \in Seq(S), NEW t \in Seq(S)
  PROVE  IsPrefix(s, s \o t)
  <1>1. Len(s) \in Nat /\ Len(s) <= Len(s \o t)
    BY ConcatProperties, LenProperties
  <1>2. SubSeq(s \o t, 1, Len(s)) = SubSeq(s, 1, Len(s))
    <2>1. CASE Len(s) = 0
      BY <2>1, SubSeqEmpty
    <2>2. CASE Len(s) > 0
      BY <2>2, <1>1, SubSeqOfConcat1
    <2> QED BY <1>1, <2>1, <2>2
  <1> QED BY <1>1, <1>2 DEF IsPrefix

\* One row further.
LEMMA GivenFacts ==
  ASSUME NEW f \in Folder, NEW n \in Nat, n < Len(Rows[f])
  PROVE  Append(Given(f, n), ValueOf(f, n + 1)) = Given(f, n + 1)
  <1>1. \A i \in 1..Len(Rows[f]) : ValueOf(f, i) \in Seq(Message)
    <2>1. SUFFICES ASSUME NEW i \in 1..Len(Rows[f])
                   PROVE  ValueOf(f, i) \in Seq(Message)
      OBVIOUS
    <2>2. Rows[f][i] \in Seq(Message)
      BY FolderFacts
    <2>3. CASE Rows[f][i] = <<>>
      BY <2>3 DEF ValueOf, NoValue
    <2>4. CASE Rows[f][i] # <<>>
      BY <2>2, <2>4, LastFacts DEF ValueOf
    <2> QED BY <2>3, <2>4
  <1>2. /\ Given(f, n) \in [1..n -> Seq(Message)]
        /\ Given(f, n + 1) \in [1..(n + 1) -> Seq(Message)]
    BY <1>1, FolderFacts DEF Given
  <1>3. /\ Given(f, n) \in Seq(Seq(Message)) /\ Len(Given(f, n)) = n
        /\ Given(f, n + 1) \in Seq(Seq(Message)) /\ Len(Given(f, n + 1)) = n + 1
    BY <1>2, BuiltFacts
  <1>4. ValueOf(f, n + 1) \in Seq(Message)
    BY <1>1, FolderFacts
  <1> DEFINE a == Append(Given(f, n), ValueOf(f, n + 1))
  <1>5. /\ a \in Seq(Seq(Message)) /\ Len(a) = n + 1
        /\ a[n + 1] = ValueOf(f, n + 1)
        /\ \A k \in 1..n : a[k] = Given(f, n)[k]
    BY <1>3, <1>4, AppendProperties, LenProperties
  <1>6. \A k \in 1..(n + 1) : a[k] = Given(f, n + 1)[k]
    <2> HIDE DEF a
    <2>1. \A k \in 1..n : Given(f, n)[k] = ValueOf(f, k)
      BY DEF Given
    <2>2. \A k \in 1..(n + 1) : Given(f, n + 1)[k] = ValueOf(f, k)
      BY DEF Given
    <2> QED BY <1>5, <2>1, <2>2
  <1> HIDE DEF a
  <1>7. a = Given(f, n + 1)
    BY <1>3, <1>5, <1>6, SeqEqual
  <1> QED BY <1>7 DEF a

----------------------------------------------------------------------------
(* The state.                                                              *)

LEMMA FrameFacts ==
  ASSUME TypeOK
  PROVE  /\ stack \in Seq(Frame) /\ Len(stack) \in Nat
         /\ cells \in Seq(Folder) /\ Len(cells) \in Nat
         /\ \A k \in 1..Len(stack) :
              /\ stack[k] \in Frame /\ stack[k].self \in Nat
              /\ stack[k].folder \in Folder /\ stack[k].subs \in Seq(Folder)
              /\ stack[k].cell \in Nat /\ stack[k].next \in Nat
  <1>1. stack \in Seq(Frame) /\ cells \in Seq(Folder)
    BY DEF TypeOK
  <1>2. Len(stack) \in Nat /\ Len(cells) \in Nat
    BY <1>1
  <1>3. ASSUME NEW k \in 1..Len(stack)
        PROVE  /\ stack[k] \in Frame /\ stack[k].self \in Nat
               /\ stack[k].folder \in Folder /\ stack[k].subs \in Seq(Folder)
               /\ stack[k].cell \in Nat /\ stack[k].next \in Nat
    <2>1. stack[k] \in Frame
      BY <1>1
    <2> QED BY <2>1 DEF Frame
  <1> QED BY <1>1, <1>2, <1>3

LEMMA CurrentFacts ==
  ASSUME TypeOK, Frames, pc \in Walking
  PROVE  /\ stack # <<>> /\ Len(stack) \in 1..Len(stack) /\ Len(stack) \in Nat \ {0}
         /\ Top = stack[Len(stack)] /\ Top \in Frame
         /\ Current = Top.folder /\ Current \in Folder
         /\ Top.self \in Nat /\ Top.cell \in Nat /\ Top.next \in Nat
         /\ Top.subs \in Seq(Folder)
  <1>1. stack # <<>> /\ Len(stack) \in Nat \ {0}
    BY FrameFacts, EmptySeq DEF Frames
  <1>2. Len(stack) \in 1..Len(stack)
    BY <1>1
  <1>3. Top = stack[Len(stack)]
    BY DEF Top
  <1>4. Current = Top.folder
    BY <1>2, <1>3 DEF Frames, Current
  <1> QED BY <1>1, <1>2, <1>3, <1>4, FrameFacts

LEMMA FileFacts ==
  ASSUME TypeOK
  PROVE  file \in File
  BY FilesAssumption DEF TypeOK

LEMMA PointersFollow ==
  ASSUME TypeOK, Frames
  PROVE  PointersStable
  <1>1. DOMAIN stack = 1..Len(stack)
    BY FrameFacts
  <1> QED BY <1>1 DEF Frames, PointersStable

LEMMA NothingLostFollows ==
  ASSUME Iteration
  PROVE  NothingLost
  BY DEF Iteration, NothingLost, Iterating, Given, ValueOf

----------------------------------------------------------------------------
(* Steps that end the walk.                                                *)

Culprits == {"none", "cleanup", "file", "fault", "user"}

LEMMA FailsFacts ==
  ASSUME TypeOK, NEW damaged \in BOOLEAN, Fails(damaged),
         UNCHANGED <<file, open>>, damaged => Damaged(Last(visited))'
  PROVE  faults' \in 0..MaxFaults /\ culprit' \in Culprits /\ Justified'
  <1>1. CASE ~ open /\ culprit' = "cleanup" /\ UNCHANGED faults
    BY <1>1 DEF TypeOK, Culprits, Justified
  <1>2. CASE open /\ damaged /\ culprit' = "file" /\ UNCHANGED faults
    BY <1>2 DEF TypeOK, Culprits, Justified
  <1>3. CASE faults < MaxFaults /\ culprit' = "fault" /\ faults' = faults + 1
    BY <1>3, BoundAssumption DEF TypeOK, Culprits, Justified
  <1> QED BY <1>1, <1>2, <1>3 DEF Fails

LEMMA AbortStep ==
  ASSUME IInv, Abort, faults' \in 0..MaxFaults, culprit' \in Culprits, Justified',
         visited' \in Seq(Folder), IsPrefix(visited', Walk[RootFolder])
  PROVE  IInv'
  <1>1. /\ pc' = "done" /\ result' = "error" /\ stack' = <<>>
        /\ UNCHANGED <<file, open, cells, index, err, value, got>>
    BY DEF Abort, iterator
  <1>2. TypeOK'
    <2>1. stack' \in Seq(Frame)
      BY <1>1
    <2> QED BY <1>1, <2>1 DEF IInv, TypeOK, Culprits
  <1>3. Frames'
    BY <1>1 DEF Frames, Walking
  <1>4. Progress'
    BY <1>1 DEF Progress, Walking
  <1>5. WalkInOrder'
    BY <1>1 DEF WalkInOrder
  <1>6. Iteration'
    BY <1>1 DEF Iteration, Iterating
  <1>7. Sound'
    BY <1>1 DEF Sound
  <1> QED BY <1>2, <1>3, <1>4, <1>5, <1>6, <1>7 DEF IInv

----------------------------------------------------------------------------
(* What the walk has ahead.                                                *)

LEMMA AheadFacts ==
  ASSUME TypeOK, Frames, pc \in Walking
  PROVE  /\ Ahead \in Seq(Folder)
         /\ pc = "callback" => Ahead = <<Current>> \o Rest[Current][0]
         /\ pc \in Iterating => Ahead = Rest[Current][0]
         /\ Rest[Current][0] \in Seq(Folder)
         /\ pc = "loop" => Top.next - 1 \in 0..Len(Listed(Current))
  <1>1. Current = Top.folder /\ Current \in Folder /\ Top = stack[Len(stack)]
        /\ Len(stack) \in 1..Len(stack)
    BY CurrentFacts
  <1>2. /\ Walk[Current] \in Seq(Folder) /\ Walk[Current] = <<Current>> \o Rest[Current][0]
        /\ \A i \in 0..Len(Listed(Current)) : Rest[Current][i] \in Seq(Folder)
        /\ Len(Listed(Current)) \in Nat
    BY <1>1, WalkFacts, FolderFacts
  <1>3. Rest[Current][0] \in Seq(Folder)
    BY <1>2
  <1>4. CASE pc = "callback"
    BY <1>1, <1>2, <1>3, <1>4 DEF Ahead, Iterating
  <1>5. CASE pc \in Iterating
    <2>1. Top.next - 1 = 0
      BY <1>5 DEF Frames, Walking, Iterating
    <2> QED BY <1>1, <1>3, <1>5, <2>1 DEF Ahead, Iterating
  <1>6. CASE pc = "loop"
    <2>1. LoopFrame(Top)
      BY <1>1, <1>6 DEF Frames
    <2>2. Top.next - 1 \in 0..Len(Listed(Current))
      BY <1>1, <1>2, <2>1 DEF LoopFrame
    <2> QED BY <1>1, <1>2, <1>3, <1>6, <2>2 DEF Ahead, Iterating
  <1> QED BY <1>4, <1>5, <1>6 DEF Walking, Iterating

LEMMA RemainderFacts ==
  ASSUME TypeOK, NEW r, Remainder(r), NEW k \in 1..Len(stack)
  PROVE  r[k] \in Seq(Folder)
  BY DEF Remainder

\* The callback is called: the folder moves from what is ahead to what was
\* visited.
LEMMA EnterFacts ==
  ASSUME IInv, pc = "callback"
  PROVE  /\ Append(visited, Current) \in Seq(Folder)
         /\ Append(visited, Current) # <<>>
         /\ Last(Append(visited, Current)) = Current
         /\ IsPrefix(Append(visited, Current), Walk[RootFolder])
         /\ \E r : /\ Remainder(r)
                   /\ Append(visited, Current) \o (Rest[Current][0] \o r[Len(stack)])
                        = Walk[RootFolder]
  <1>1. TypeOK /\ Frames /\ pc \in Walking /\ visited \in Seq(Folder)
    BY DEF IInv, Walking, TypeOK
  <1>2. Current \in Folder /\ Len(stack) \in 1..Len(stack)
    BY <1>1, CurrentFacts
  <1>3. Append(visited, Current) \in Seq(Folder) /\ Append(visited, Current) # <<>>
        /\ Last(Append(visited, Current)) = Current
        /\ Append(visited, Current) = visited \o <<Current>>
    BY <1>1, <1>2, AppendLast
  <1>4. PICK r : Remainder(r) /\ visited \o (Ahead \o r[Len(stack)]) = Walk[RootFolder]
    BY <1>1 DEF IInv, Progress
  <1> DEFINE a == Append(visited, Current)
             c == <<Current>>
             q == Rest[Current][0]
             z == r[Len(stack)]
  <1>5. c \in Seq(Folder) /\ q \in Seq(Folder) /\ z \in Seq(Folder) /\ a \in Seq(Folder)
    BY <1>1, <1>2, <1>3, <1>4, RemainderFacts, AheadFacts
  <1>6. Ahead = c \o q /\ a = visited \o c /\ visited \o (Ahead \o z) = Walk[RootFolder]
    BY <1>1, <1>2, <1>3, <1>4, AheadFacts
  <1>v. visited \in Seq(Folder)
    BY <1>1
  <1> HIDE DEF a, c, q, z
  <1>7. (c \o q) \o z = c \o (q \o z)
    BY <1>5, ConcatAssociative
  <1> DEFINE t == q \o z
  <1>8. t \in Seq(Folder)
    BY <1>5, ConcatProperties
  <1>9. visited \o (c \o t) = Walk[RootFolder]
    BY <1>6, <1>7
  <1> HIDE DEF t
  <1>10. (visited \o c) \o t = visited \o (c \o t)
    BY <1>v, <1>5, <1>8, ConcatAssociative
  <1>11. a \o t = Walk[RootFolder]
    BY <1>6, <1>9, <1>10
  <1>12. IsPrefix(a, Walk[RootFolder])
    BY <1>5, <1>8, <1>11, PrefixFacts
  <1> QED BY <1>3, <1>4, <1>11, <1>12 DEF a, t, q, z

\* Steps inside the callback leave the calls alone.
LEMMA FramesSame ==
  ASSUME IInv, pc \in Walking \ {"loop"}, pc' \in Walking \ {"loop"},
         UNCHANGED <<cells, stack>>
  PROVE  Frames' /\ Current' = Current
  BY DEF IInv, Frames, Walking, Top, Current, LoopFrame

LEMMA ProgressSame ==
  ASSUME IInv, pc \in Iterating, pc' \in Iterating, UNCHANGED <<stack, visited>>
  PROVE  Progress'
  <1>1. pc \in Walking /\ pc # "callback" /\ pc' # "callback"
    BY DEF Walking, Iterating
  <1>2. Ahead' = Ahead
    BY <1>1 DEF Ahead, Top
  <1>3. PICK r : Remainder(r) /\ visited \o (Ahead \o r[Len(stack)]) = Walk[RootFolder]
    BY <1>1 DEF IInv, Progress
  <1>4. Remainder(r)'
    BY <1>3 DEF Remainder
  <1> QED BY <1>2, <1>3, <1>4 DEF Progress

LEMMA ProgressEnter ==
  ASSUME IInv, pc = "callback", pc' \in Iterating, visited' = Append(visited, Current),
         UNCHANGED <<stack, cells>>
  PROVE  Progress' /\ IsPrefix(visited', Walk[RootFolder]) /\ visited' \in Seq(Folder)
  <1>1. TypeOK /\ Frames /\ pc \in Walking \ {"loop"} /\ pc' # "callback"
    BY DEF IInv, Walking, Iterating
  <1>2. Current = Top.folder /\ Top.next = 1
    BY <1>1, CurrentFacts DEF Frames
  <1>3. Ahead' = Rest[Current][0]
    BY <1>1, <1>2 DEF Ahead, Top
  <1>4. PICK r : /\ Remainder(r)
                 /\ Append(visited, Current) \o (Rest[Current][0] \o r[Len(stack)])
                      = Walk[RootFolder]
    BY EnterFacts
  <1>5. Remainder(r)'
    BY <1>4 DEF Remainder
  <1>6. Progress'
    BY <1>3, <1>4, <1>5 DEF Progress
  <1> QED BY <1>6, EnterFacts

----------------------------------------------------------------------------
(* The steps up to the callback and in it.                                 *)

LEMMA InitInv == ASSUME Init PROVE IInv
  <1>1. file \in Files
    BY DEF Init
  <1>2. TypeOK
    <2>1. cells \in Seq(Folder) /\ stack \in Seq(Frame) /\ visited \in Seq(Folder)
      BY DEF Init
    <2>2. index \in Nat /\ faults \in 0..MaxFaults
      BY BoundAssumption DEF Init
    <2> QED BY <1>1, <2>1, <2>2 DEF Init, TypeOK
  <1>3. Frames
    BY DEF Init, Frames, Walking
  <1>4. Progress
    BY DEF Init, Progress, Walking
  <1>5. WalkInOrder
    <2>1. RootFolder \in Folder /\ Walk[RootFolder] \in Seq(Folder)
      BY RootFacts
    <2>2. <<>> \in Seq(Folder) /\ <<>> \o Walk[RootFolder] = Walk[RootFolder]
      BY <2>1, ConcatEmptySeq
    <2>3. IsPrefix(<<>>, Walk[RootFolder])
      BY <2>1, <2>2, PrefixFacts
    <2> QED BY <2>3 DEF Init, WalkInOrder
  <1>6. Iteration
    BY DEF Init, Iteration, Iterating
  <1>7. Sound
    BY DEF Init, Sound
  <1> QED BY <1>2, <1>3, <1>4, <1>5, <1>6, <1>7 DEF IInv

LEMMA RootStep ==
  ASSUME IInv, GetRootFolder
  PROVE  IInv'
  <1>1. RootFolder \in Folder /\ Walk[RootFolder] \in Seq(Folder) /\ <<>> \in Seq(Folder)
    BY RootFacts
  <1>v. visited = <<>>
    BY DEF IInv, Iteration, GetRootFolder
  <1>2. CASE Fails(FALSE) /\ Abort
    <2>1. UNCHANGED <<file, open, visited>>
      BY <1>2 DEF Abort, GetRootFolder
    <2>2. faults' \in 0..MaxFaults /\ culprit' \in Culprits /\ Justified'
      BY <1>2, <2>1, FailsFacts DEF IInv
    <2>3. visited' \in Seq(Folder) /\ IsPrefix(visited', Walk[RootFolder])
      <3>1. <<>> \o Walk[RootFolder] = Walk[RootFolder]
        BY <1>1, ConcatEmptySeq
      <3>2. IsPrefix(<<>>, Walk[RootFolder])
        BY <1>1, <3>1, PrefixFacts
      <3> QED BY <1>1, <1>v, <2>1, <3>2
    <2> QED BY <1>2, <2>2, <2>3, AbortStep
  <1>3. CASE /\ open
             /\ cells' = <<RootFolder>> /\ stack' = CallWith(<<>>, 1, RootFolder)
             /\ pc' = "callback"
             /\ UNCHANGED <<file, open, iterator, result, faults, got, culprit>>
    <2> DEFINE fr == [self |-> 1, folder |-> RootFolder, subs |-> <<>>, cell |-> 0, next |-> 1]
    <2>1. fr \in Frame /\ fr.self = 1 /\ fr.cell = 0 /\ fr.next = 1 /\ fr.folder = RootFolder
      BY <1>1 DEF Frame
    <2>2. stack' = Append(<<>>, fr)
      BY <1>3 DEF CallWith
    <2> HIDE DEF fr
    <2>3. stack' = <<fr>> /\ Len(stack') = 1 /\ stack'[1] = fr /\ stack' \in Seq(Frame)
      BY <2>1, <2>2
    <2>4. UNCHANGED <<file, open, index, err, value, result, faults, visited, got, culprit>>
      BY <1>3 DEF GetRootFolder, iterator
    <2>5. TypeOK'
      <3>1. cells' \in Seq(Folder)
        BY <1>1, <1>3
      <3> QED BY <1>3, <2>3, <2>4, <3>1 DEF IInv, TypeOK
    <2>6. Frames'
      <3>1. cells'[1] = RootFolder /\ Len(cells') = 1
        BY <1>3
      <3>2. stack' # <<>>
        BY <2>3
      <3> QED BY <1>3, <2>1, <2>3, <3>1, <3>2 DEF Frames, Walking, Top
    <2>7. Progress'
      <3> DEFINE r == [k \in 1..1 |-> <<>>]
      <3>1. Remainder(r)'
        BY <1>1, <2>3 DEF Remainder
      <3>2. r[1] = <<>>
        OBVIOUS
      <3>3. Ahead' = Walk[RootFolder]
        BY <1>3, <2>1, <2>3 DEF Ahead, Top
      <3>4. <<>> \o (Walk[RootFolder] \o <<>>) = Walk[RootFolder]
        BY <1>1, ConcatEmptySeq
      <3>5. visited' = <<>>
        BY <1>v, <2>4
      <3> HIDE DEF r
      <3>6. visited' \o (Ahead' \o r[Len(stack')]) = Walk[RootFolder]
        BY <2>3, <3>2, <3>3, <3>4, <3>5
      <3> QED BY <3>1, <3>6 DEF Progress
    <2>8. WalkInOrder'
      BY <2>4 DEF IInv, WalkInOrder
    <2>9. Iteration'
      BY <1>3, <2>4 DEF IInv, Iteration, Iterating, GetRootFolder, Justified, Damaged
    <2>10. Sound'
      BY <1>v, <2>4 DEF Sound
    <2> QED BY <2>5, <2>6, <2>7, <2>8, <2>9, <2>10 DEF IInv
  <1> QED BY <1>2, <1>3 DEF GetRootFolder

LEMMA TypeSame ==
  ASSUME TypeOK, UNCHANGED <<file, cells, stack, result>>, open' \in BOOLEAN,
         pc' \in Walking \cup {"idle", "done"}, index' \in Nat, err' \in BOOLEAN,
         value' = NoValue \/ value' \in {<<m>> : m \in Message},
         faults' \in 0..MaxFaults, visited' \in Seq(Folder), culprit' \in Culprits
  PROVE  TypeOK'
  BY DEF TypeOK, Walking, Culprits

LEMMA SoundEnter ==
  ASSUME IInv, pc = "callback", pc' \in Iterating, visited' = Append(visited, Current),
         UNCHANGED <<file, result>>
  PROVE  Sound'
  <1>1. visited \in Seq(Folder) /\ Current \in Folder /\ pc \in Walking /\ result = "none"
    BY CurrentFacts DEF IInv, TypeOK, Walking, Iteration
  <1>2. /\ Len(visited') = Len(visited) + 1 /\ Len(visited) \in Nat
        /\ \A k \in 1..Len(visited) : visited'[k] = visited[k]
    BY <1>1, AppendProperties, LenProperties
  <1>3. \A k \in 1..Len(visited) : ~ Damaged(visited[k])
    BY <1>1 DEF IInv, Sound, Iterating
  <1>4. \A k \in 1..Len(visited') : k \in 1..Len(visited) \/ k = Len(visited')
    BY <1>2
  <1>5. \A k \in 1..Len(visited) : ~ Damaged(visited[k])'
    BY <1>2, <1>3 DEF Damaged
  <1> QED BY <1>2, <1>4, <1>5 DEF Sound

LEMMA NoMessagesStep ==
  ASSUME IInv, NoMessages
  PROVE  IInv'
  <1>1. /\ pc = "callback" /\ pc' = "descend" /\ ~ HasMessages(Current)
        /\ visited' = Append(visited, Current)
        /\ UNCHANGED <<file, open, cells, stack, index, err, value, result, faults, culprit>>
    BY DEF NoMessages, iterator
  <1>2. pc \in Walking \ {"loop"} /\ pc' \in Walking \ {"loop"} /\ pc' \in Iterating
        /\ TypeOK
    BY <1>1 DEF Walking, Iterating, IInv
  <1>3. Progress' /\ IsPrefix(visited', Walk[RootFolder]) /\ visited' \in Seq(Folder)
    BY <1>1, <1>2, ProgressEnter
  <1>4. Frames' /\ Current' = Current
    BY <1>1, <1>2, FramesSame
  <1>5. TypeOK'
    BY <1>1, <1>2, <1>3, TypeSame DEF TypeOK, Culprits
  <1>6. result = "none"
    BY <1>1 DEF IInv, Iteration
  <1>7. WalkInOrder'
    BY <1>1, <1>3, <1>6 DEF WalkInOrder
  <1>8. Iteration'
    <2>1. visited' # <<>> /\ Last(visited') = Current
      BY <1>1, EnterFacts
    <2>2. pc' \notin {"iterate", "stopped", "idle", "done"} /\ result' = "none"
      BY <1>1, <1>6
    <2> HIDE DEF HasMessages
    <2> QED BY <1>1, <1>4, <2>1, <2>2 DEF Iteration
  <1>9. Sound'
    BY <1>1, <1>2, SoundEnter
  <1> QED BY <1>3, <1>4, <1>5, <1>7, <1>8, <1>9 DEF IInv

LEMMA IteratorStep ==
  ASSUME IInv, GetMessageIterator
  PROVE  IInv'
  <1>1. /\ pc = "callback" /\ HasMessages(Current) /\ visited' = Append(visited, Current)
        /\ TypeOK
    BY DEF GetMessageIterator, IInv
  <1>2. visited' \in Seq(Folder) /\ visited' # <<>> /\ Last(visited') = Current
        /\ IsPrefix(visited', Walk[RootFolder])
    BY <1>1, EnterFacts
  <1>3. CASE Fails(Current \notin file.messageRows) /\ Abort
    <2>1. UNCHANGED <<file, open>>
      BY <1>3 DEF Abort
    <2>2. Current \notin file.messageRows => Damaged(Last(visited))'
      BY <1>1, <1>2, <2>1 DEF Damaged
    <2>3. faults' \in 0..MaxFaults /\ culprit' \in Culprits /\ Justified'
      BY <1>1, <1>3, <2>1, <2>2, FailsFacts
    <2> QED BY <1>2, <1>3, <2>3, AbortStep
  <1>4. CASE /\ open /\ Current \in file.messageRows
             /\ pc' = "iterate" /\ got' = <<>>
             /\ index' = 0 /\ err' = FALSE /\ value' = NoValue
             /\ UNCHANGED <<file, open, cells, stack, result, faults, culprit>>
    <2>1. pc \in Walking \ {"loop"} /\ pc' \in Walking \ {"loop"} /\ pc' \in Iterating
      BY <1>1, <1>4 DEF Walking, Iterating
    <2>2. Progress'
      BY <1>1, <1>4, <2>1, ProgressEnter
    <2>3. Frames' /\ Current' = Current
      BY <1>4, <2>1, FramesSame
    <2>4. TypeOK'
      BY <1>1, <1>2, <1>4, <2>1, TypeSame DEF TypeOK, Culprits
    <2>5. result = "none" /\ Current \in Folder
      BY <1>1, <2>1, CurrentFacts DEF IInv, Iteration
    <2>6. WalkInOrder'
      BY <1>2, <1>4, <2>5 DEF WalkInOrder
    <2>7. Iteration'
      <3>1. Len(Rows[Current]) \in Nat
        BY <2>5, FolderFacts
      <3>2. Given(Current, 0) = <<>> /\ RowsReadable(Current, 0)'
        BY DEF Given, RowsReadable
      <3> QED BY <1>1, <1>2, <1>4, <2>3, <2>5, <3>1, <3>2 DEF Iteration
    <2>8. Sound'
      BY <1>1, <1>4, <2>1, SoundEnter
    <2> QED BY <2>2, <2>3, <2>4, <2>6, <2>7, <2>8 DEF IInv
  <1> QED BY <1>3, <1>4 DEF GetMessageIterator

\* The steps of the iterator leave what was visited alone.
LEMMA CallbackStep ==
  ASSUME IInv, pc \in {"iterate", "stopped"}, pc' \in Iterating,
         UNCHANGED <<file, cells, stack, result, visited>>
  PROVE  /\ Frames' /\ Progress' /\ WalkInOrder' /\ Sound'
         /\ Current' = Current /\ Current \in Folder /\ TypeOK
         /\ pc' # "idle" /\ pc' # "done" /\ result' = "none" /\ result = "none"
  <1>1. /\ pc \in Walking \ {"loop"} /\ pc' \in Walking \ {"loop"}
        /\ pc \in Iterating /\ TypeOK /\ Frames
    BY DEF Walking, Iterating, IInv
  <1>2. Frames' /\ Current' = Current /\ Progress'
    BY <1>1, FramesSame, ProgressSame
  <1>3. WalkInOrder'
    BY DEF IInv, WalkInOrder
  <1>4. Sound'
    BY <1>1 DEF IInv, Sound, Damaged
  <1>5. result = "none"
    BY DEF IInv, Iteration
  <1>6. Current \in Folder
    BY <1>1, CurrentFacts
  <1> QED BY <1>1, <1>2, <1>3, <1>4, <1>5, <1>6 DEF Iterating

LEMMA NextSucceedsStep ==
  ASSUME IInv, NextSucceeds
  PROVE  IInv'
  <1> DEFINE f == Current
  <1>1. /\ pc = "iterate" /\ pc' = "iterate" /\ index < Len(Rows[f])
        /\ Rows[f][index + 1] # <<>> =>
             \A i \in DOMAIN Rows[f][index + 1] : Rows[f][index + 1][i] \in file.readable
        /\ index' = index + 1 /\ value' = ValueOf(f, index + 1)
        /\ got' = Append(got, ValueOf(f, index + 1))
        /\ UNCHANGED <<file, open, cells, stack, err, result, faults, visited, culprit>>
    BY DEF NextSucceeds, HasNext, Row, RowReadable, ValueOf
  <1>2. pc \in {"iterate", "stopped"} /\ pc' \in Iterating
    BY <1>1 DEF Iterating
  <1>3. /\ Frames' /\ Progress' /\ WalkInOrder' /\ Sound'
        /\ Current' = f /\ f \in Folder /\ TypeOK
        /\ result' = "none"
    BY <1>1, <1>2, CallbackStep
  <1>4. index \in Nat /\ Len(Rows[f]) \in Nat /\ Rows[f][index + 1] \in Seq(Message)
    BY <1>1, <1>3, FolderFacts DEF TypeOK
  <1>5. TypeOK'
    <2>1. value' = NoValue \/ value' \in {<<m>> : m \in Message}
      BY <1>1, <1>4, LastFacts DEF ValueOf
    <2> HIDE DEF f
    <2> QED BY <1>1, <1>3, <1>4, <2>1, TypeSame DEF TypeOK, Walking, Culprits
  <1>6. /\ HasMessages(f) /\ visited # <<>> /\ Last(visited) = f /\ f \in file.messageRows
        /\ got = Given(f, index) /\ RowsReadable(f, index)
        /\ err => Justified
    BY <1>1 DEF IInv, Iteration, Iterating
  <1>7. got' = Given(f, index + 1)
    <2>1. Append(Given(f, index), ValueOf(f, index + 1)) = Given(f, index + 1)
      BY <1>1, <1>3, <1>4, GivenFacts
    <2> QED BY <1>1, <1>6, <2>1
  <1>8. RowsReadable(f, index + 1)
    <2>1. \A m \in Range(Rows[f][index + 1]) : m \in file.readable
      BY <1>1, <1>4 DEF Range
    <2>2. \A i \in 1..(index + 1) : i \in 1..index \/ i = index + 1
      BY <1>4
    <2> QED BY <1>6, <2>1, <2>2 DEF RowsReadable
  <1>9. /\ got' = Given(Current', index') /\ RowsReadable(Current, index)'
        /\ HasMessages(Current') /\ Last(visited') = Current' /\ visited' # <<>>
        /\ Current' \in file'.messageRows
    BY <1>1, <1>3, <1>6, <1>7, <1>8 DEF RowsReadable
  <1>j. err' => Justified'
    <2>1. UNCHANGED <<file, open, faults, visited, culprit, err>>
      BY <1>1
    <2>2. err => Justified
      BY <1>6
    <2> HIDE DEF f
    <2> QED BY <2>1, <2>2 DEF Justified, Damaged
  <1>10. index' <= Len(Rows[Current'])
    BY <1>1, <1>3, <1>4
  <1>11. Iteration'
    <2>1. pc' = "iterate" /\ result' = "none"
      BY <1>1, <1>3
    <2> HIDE DEF f
    <2> QED BY <2>1, <1>9, <1>j, <1>10 DEF Iteration
  <1> QED BY <1>3, <1>5, <1>11 DEF IInv

\* What the iterator has given stays when its index and its table do.
LEMMA IterationSame ==
  ASSUME IInv, pc \in {"iterate", "stopped"}, pc' \in {"iterate", "stopped"},
         UNCHANGED <<file, cells, stack, result, visited, index, got>>,
         pc' = "stopped" /\ ~ err' => index = Len(Rows[Current]),
         err' => Justified'
  PROVE  Iteration'
  <1>1. pc' \in Iterating /\ pc' # "descend" /\ pc' # "idle" /\ pc \in Iterating
    BY DEF Iterating
  <1>2. Current' = Current /\ result' = "none"
    BY <1>1, CallbackStep
  <1>3. /\ HasMessages(Current) /\ visited # <<>> /\ Last(visited) = Current
        /\ Current \in file.messageRows /\ index <= Len(Rows[Current])
        /\ got = Given(Current, index) /\ RowsReadable(Current, index)
    BY <1>1 DEF IInv, Iteration
  <1>4. RowsReadable(Current, index)'
    BY <1>2, <1>3 DEF RowsReadable
  <1> QED BY <1>1, <1>2, <1>3, <1>4 DEF Iteration

LEMMA NextFailsStep ==
  ASSUME IInv, NextFails
  PROVE  IInv'
  <1>1. /\ pc = "iterate" /\ pc' = "stopped" /\ err' = TRUE
        /\ index < Len(Rows[Current])
        /\ Fails(~ RowReadable)
        /\ UNCHANGED <<file, open, cells, stack, index, value, result, visited, got>>
    BY DEF NextFails, HasNext
  <1>2. pc \in {"iterate", "stopped"} /\ pc' \in Iterating
    BY <1>1 DEF Iterating
  <1>3. /\ Frames' /\ Progress' /\ WalkInOrder' /\ Sound'
        /\ Current' = Current /\ Current \in Folder /\ TypeOK
    BY <1>1, <1>2, CallbackStep
  <1>4. Last(visited) = Current /\ HasMessages(Current)
    BY <1>1, <1>2 DEF IInv, Iteration, Iterating
  <1>5. index \in Nat /\ index + 1 \in DOMAIN Rows[Current]
    BY <1>1, <1>3, FolderFacts DEF TypeOK
  <1>6. ~ RowReadable => Damaged(Last(visited))
    BY <1>4, <1>5 DEF RowReadable, Row, Damaged, Range
  <1>7. ~ RowReadable => Damaged(Last(visited))'
    BY <1>1, <1>6 DEF Damaged
  <1>8. faults' \in 0..MaxFaults /\ culprit' \in Culprits /\ Justified'
    BY <1>1, <1>3, <1>7, FailsFacts
  <1>9. TypeOK'
    BY <1>1, <1>3, <1>8, TypeSame DEF TypeOK, Walking
  <1>10. Iteration'
    BY <1>1, <1>2, <1>8, IterationSame
  <1> QED BY <1>3, <1>9, <1>10 DEF IInv

\* A step that leaves the iterator, what was visited and the faults alone.
LEMMA UserStep ==
  ASSUME IInv, pc \in {"iterate", "stopped"}, pc' \in {"iterate", "stopped"},
         UNCHANGED <<file, cells, stack, iterator, result, faults, visited, got, culprit>>,
         open' = open \/ open' = FALSE,
         pc' = "stopped" /\ ~ err => index = Len(Rows[Current])
  PROVE  IInv'
  <1>1. pc' \in Iterating /\ UNCHANGED <<index, err, value>>
    BY DEF Iterating, iterator
  <1>2. Frames' /\ Progress' /\ WalkInOrder' /\ Sound' /\ TypeOK
    BY <1>1, CallbackStep
  <1>3. err' => Justified'
    <2>1. err => Justified
      BY DEF IInv, Iteration
    <2> QED BY <1>1, <2>1 DEF Justified, Damaged
  <1>4. Iteration'
    BY <1>1, <1>3, IterationSame
  <1>5. TypeOK'
    BY <1>1, <1>2, TypeSame DEF TypeOK, Walking, Culprits
  <1> QED BY <1>2, <1>4, <1>5 DEF IInv

LEMMA NextEndsStep ==
  ASSUME IInv, NextEnds
  PROVE  IInv'
  <1>1. /\ pc = "iterate" /\ pc' = "stopped" /\ ~ (index < Len(Rows[Current]))
        /\ UNCHANGED <<file, open, cells, stack, iterator, result, faults, visited, got,
                       culprit>>
    BY DEF NextEnds, HasNext
  <1>2. index <= Len(Rows[Current]) /\ Current \in Folder /\ index \in Nat
    BY <1>1, CurrentFacts DEF IInv, Iteration, Iterating, Walking, TypeOK
  <1>3. index = Len(Rows[Current])
    BY <1>1, <1>2, FolderFacts
  <1> QED BY <1>1, <1>3, UserStep

LEMMA RetryStep ==
  ASSUME IInv, UserRetries
  PROVE  IInv'
  BY UserStep DEF UserRetries

LEMMA CleanupStep ==
  ASSUME IInv, Cleanup
  PROVE  IInv'
  <1>1. CASE pc = "iterate"
    <2>1. /\ open' = FALSE
          /\ UNCHANGED <<file, pc, cells, stack, iterator, result, faults, visited, got,
                         culprit>>
      BY DEF Cleanup
    <2> QED BY <1>1, <2>1, UserStep
  <1>2. CASE pc = "idle"
    <2>1. /\ open' = FALSE
          /\ UNCHANGED <<file, pc, cells, stack, index, err, value, result, faults, visited,
                         got, culprit>>
      BY DEF Cleanup, iterator
    <2>2. TypeOK'
      BY <1>2, <2>1, TypeSame DEF IInv, TypeOK, Culprits
    <2>3. Frames' /\ Progress' /\ WalkInOrder' /\ Sound'
      BY <1>2, <2>1 DEF IInv, Frames, Progress, WalkInOrder, Sound, Walking, LoopFrame,
                        Iterating, Damaged
    <2>4. Iteration'
      BY <1>2, <2>1 DEF IInv, Iteration, Iterating
    <2> QED BY <2>2, <2>3, <2>4 DEF IInv
  <1> QED BY <1>1, <1>2 DEF Cleanup

LEMMA StopStep ==
  ASSUME IInv, UserStops
  PROVE  IInv'
  <1>1. culprit' = "user" /\ Abort /\ UNCHANGED <<faults, visited, open>>
    BY DEF UserStops, Abort
  <1>2. visited \in Seq(Folder) /\ faults \in 0..MaxFaults /\ result = "none"
    BY DEF IInv, TypeOK, Iteration, UserStops
  <1>3. IsPrefix(visited, Walk[RootFolder])
    BY DEF IInv, WalkInOrder
  <1> QED BY <1>1, <1>2, <1>3, AbortStep DEF Justified, Culprits

LEMMA ReturnsStep ==
  ASSUME IInv, CallbackReturns
  PROVE  IInv'
  <1>1. pc = "stopped" /\ UNCHANGED <<file, open, faults, visited, culprit>>
    BY DEF CallbackReturns, Abort
  <1>2. /\ visited \in Seq(Folder) /\ faults \in 0..MaxFaults /\ culprit \in Culprits
        /\ IsPrefix(visited, Walk[RootFolder]) /\ err \in BOOLEAN
    BY DEF IInv, TypeOK, WalkInOrder, Culprits
  <1>3. CASE err /\ Abort
    <2>1. Justified
      BY <1>1, <1>3 DEF IInv, Iteration
    <2>2. Justified'
      BY <1>1, <2>1 DEF Justified, Damaged
    <2> QED BY <1>1, <1>2, <1>3, <2>2, AbortStep
  <1>4. CASE ~ err /\ pc' = "descend"
             /\ UNCHANGED <<file, open, cells, stack, iterator, result, got>>
    <2>1. pc \in {"iterate", "stopped"} /\ pc' \in Iterating /\ UNCHANGED <<index, err, value>>
      BY <1>1, <1>4 DEF Iterating, iterator
    <2>2. /\ Frames' /\ Progress' /\ WalkInOrder' /\ Sound'
          /\ Current' = Current /\ TypeOK /\ result' = "none"
      BY <1>1, <1>4, <2>1, CallbackStep
    <2>3. TypeOK'
      BY <1>1, <1>2, <1>4, <2>1, <2>2, TypeSame DEF TypeOK, Walking
    <2>4. /\ HasMessages(Current) /\ visited # <<>> /\ Last(visited) = Current
          /\ Current \in file.messageRows /\ index <= Len(Rows[Current])
          /\ got = Given(Current, index) /\ RowsReadable(Current, index)
          /\ index = Len(Rows[Current])
      BY <1>1, <1>4 DEF IInv, Iteration, Iterating
    <2>5. RowsReadable(Current, index)'
      BY <1>1, <2>1, <2>2, <2>4 DEF RowsReadable
    <2>6. Iteration'
      BY <1>1, <1>4, <2>1, <2>2, <2>4, <2>5 DEF Iteration
    <2> QED BY <2>2, <2>3, <2>6 DEF IInv
  <1> QED BY <1>3, <1>4 DEF CallbackReturns

----------------------------------------------------------------------------
(* The loop over the sub-folders.                                          *)

LEMMA SubFoldersStep ==
  ASSUME IInv, GetSubFolders
  PROVE  IInv'
  <1> DEFINE n == Len(stack)
             f == Current
  <1>1. /\ pc = "descend" /\ UNCHANGED visited /\ TypeOK /\ Frames
        /\ pc \in Walking \ {"loop"} /\ pc \in Iterating
    BY DEF GetSubFolders, IInv, Walking, Iterating
  <1>2. /\ stack # <<>> /\ n \in 1..n /\ n \in Nat \ {0}
        /\ Top = stack[n] /\ f = stack[n].folder /\ f \in Folder
        /\ stack[n].next = 1 /\ stack[n] \in Frame
    BY <1>1, CurrentFacts DEF Frames
  <1>3. /\ visited # <<>> /\ Last(visited) = f /\ visited \in Seq(Folder)
        /\ IsPrefix(visited, Walk[RootFolder])
        /\ result = "none"
        /\ HasMessages(f) => /\ f \in file.messageRows
                             /\ RowsReadable(f, Len(Rows[f]))
    BY <1>1 DEF IInv, Iteration, TypeOK, WalkInOrder
  <1>4. CASE f \in HasSubFolders /\ Fails(f \notin file.folderRows) /\ Abort
    <2>1. UNCHANGED <<file, open>>
      BY <1>4 DEF Abort
    <2>2. f \notin file.folderRows => Damaged(Last(visited))'
      BY <1>1, <1>3, <1>4, <2>1 DEF Damaged
    <2>3. faults' \in 0..MaxFaults /\ culprit' \in Culprits /\ Justified'
      BY <1>1, <1>4, <2>1, <2>2, FailsFacts
    <2> QED BY <1>1, <1>3, <1>4, <2>3, AbortStep
  <1>5. CASE /\ f \in HasSubFolders => open /\ f \in file.folderRows
             /\ pc' = "loop"
             /\ cells' = Append(cells, f)
             /\ stack' = [stack EXCEPT ![n].subs = Listed(f), ![n].cell = Len(cells) + 1]
             /\ UNCHANGED <<file, open, iterator, result, faults, got, culprit>>
    <2>1. /\ cells' \in Seq(Folder) /\ Len(cells') = Len(cells) + 1 /\ Len(cells) \in Nat
          /\ \A k \in 1..Len(cells) : cells'[k] = cells[k]
      BY <1>1, <1>2, <1>5, FrameFacts, AppendProperties, LenProperties
    <2> DEFINE fr == [stack[n] EXCEPT !.subs = Listed(f), !.cell = Len(cells) + 1]
    <2>2. /\ fr \in Frame /\ fr.self = stack[n].self /\ fr.folder = f
          /\ fr.subs = Listed(f) /\ fr.cell = Len(cells) + 1 /\ fr.next = 1
      <3>1. Listed(f) \in Seq(Folder) /\ Len(cells) + 1 \in Nat
        BY <1>2, <2>1, FolderFacts
      <3> HIDE DEF f
      <3> QED BY <1>2, <3>1 DEF Frame
    <2>3. stack' = [stack EXCEPT ![n] = fr]
      BY <1>2, <1>5
    <2> HIDE DEF fr
    <2>4. /\ stack' \in Seq(Frame) /\ Len(stack') = n
          /\ stack'[n] = fr
          /\ \A k \in 1..n : k # n => stack'[k] = stack[k]
      <3>1. stack \in Seq(Frame)
        BY <1>1, FrameFacts
      <3>2. stack' \in Seq(Frame) /\ Len(stack') = n
        BY <1>2, <2>2, <2>3, <3>1, ExceptSeq
      <3>3. DOMAIN stack = 1..n
        BY <3>1
      <3> QED BY <1>2, <2>3, <3>2, <3>3
    <2> HIDE DEF n, f
    <2>5. \A k \in 1..n : /\ stack'[k].self = stack[k].self
                          /\ stack'[k].folder = stack[k].folder
                          /\ stack'[k].next = stack[k].next
      BY <1>2, <2>2, <2>4
    <2>6. UNCHANGED <<file, open, index, err, value, result, faults, got, culprit>>
      BY <1>5 DEF iterator
    <2>7. TypeOK'
      BY <1>1, <1>5, <2>1, <2>4, <2>6 DEF TypeOK
    <2>8. Frames'
      <3>1. \A k \in 1..n :
              /\ stack[k].self \in 1..Len(cells) /\ stack[k].cell \in 0..Len(cells)
              /\ cells[stack[k].self] = stack[k].folder
              /\ k < n => LoopFrame(stack[k])
        BY <1>1 DEF Frames, n
      <3>2. \A k \in 1..n :
              /\ stack'[k].self \in 1..Len(cells') /\ stack'[k].cell \in 0..Len(cells')
              /\ cells'[stack'[k].self] = stack'[k].folder
        <4>1. SUFFICES ASSUME NEW k \in 1..n
                       PROVE  /\ stack'[k].self \in 1..Len(cells')
                              /\ stack'[k].cell \in 0..Len(cells')
                              /\ cells'[stack'[k].self] = stack'[k].folder
          OBVIOUS
        <4>2. stack'[k].cell \in 0..Len(cells')
          <5>1. CASE k = n
            BY <2>1, <2>2, <2>4, <5>1
          <5>2. CASE k # n
            BY <2>1, <2>4, <3>1, <5>2
          <5> QED BY <5>1, <5>2
        <4> QED BY <2>1, <2>5, <3>1, <4>2
      <3>3. LoopFrame(fr)
        <4>1. stack[n].self < Len(cells) + 1 /\ stack[n].self \in Nat
          BY <1>2, <2>1, <3>1
        <4>2. Len(Listed(f)) \in Nat
          BY <1>2, FolderFacts
        <4> QED BY <2>2, <4>1, <4>2 DEF LoopFrame
      <3>4. \A k \in 1..n : LoopFrame(stack'[k])
        <4>1. \A k \in 1..n : k < n \/ k = n
          BY <1>2
        <4> QED BY <2>4, <3>1, <3>3, <4>1
      <3>5. /\ \A k \in 1..(n - 1) :
                 /\ stack[k].next > 1
                 /\ stack[k + 1].folder = Listed(stack[k].folder)[stack[k].next - 1]
            /\ \A j, k \in 1..n : j < k => stack[j].self < stack[k].self
            /\ stack[1].folder = RootFolder
        BY <1>1, <1>2 DEF Frames, n
      <3>6. \A k \in 1..(n - 1) : k \in 1..n /\ k + 1 \in 1..n
        BY <1>2
      <3>7. stack' # <<>> /\ 1 \in 1..n
        BY <1>2, <2>4
      <3>8. /\ \A k \in 1..(n - 1) :
                 /\ stack'[k].next > 1
                 /\ stack'[k + 1].folder = Listed(stack'[k].folder)[stack'[k].next - 1]
            /\ \A j, k \in 1..n : j < k => stack'[j].self < stack'[k].self
            /\ stack'[1].folder = RootFolder
        BY <2>5, <3>5, <3>6, <3>7
      <3> QED BY <1>5, <2>4, <3>2, <3>4, <3>7, <3>8 DEF Frames, Walking
    <2>9. Progress'
      <3>1. PICK r : Remainder(r) /\ visited \o (Ahead \o r[n]) = Walk[RootFolder]
        BY <1>1 DEF IInv, Progress, n
      <3>2. Ahead = Rest[f][0]
        BY <1>1, AheadFacts DEF f
      <3>3. Ahead' = Rest[f][0]
        BY <1>2, <1>5, <2>2, <2>4 DEF Ahead, Top
      <3>4. Remainder(r)'
        <4>1. /\ r \in [1..n -> Seq(Folder)] /\ r[1] = <<>>
              /\ \A k \in 1..(n - 1) :
                   r[k + 1] = Rest[stack[k].folder][stack[k].next - 1] \o r[k]
          BY <3>1 DEF Remainder, n
        <4>2. \A k \in 1..(n - 1) : k \in 1..n
          BY <1>2
        <4> QED BY <2>4, <2>5, <4>1, <4>2 DEF Remainder
      <3> QED BY <1>1, <2>4, <3>1, <3>2, <3>3, <3>4 DEF Progress
    <2>10. WalkInOrder'
      BY <1>1, <1>3, <2>6 DEF WalkInOrder
    <2>11. Iteration'
      BY <1>3, <1>5, <2>6 DEF Iteration, Iterating
    <2>12. Sound'
      <3>1. ~ Damaged(f)
        <4>1. DOMAIN Rows[f] = 1..Len(Rows[f])
          BY <1>2, FolderFacts
        <4> QED BY <1>3, <1>5, <4>1 DEF Damaged, RowsReadable
      <3>2. visited[Len(visited)] = f
        BY <1>3, LastFacts
      <3>3. \A i \in 1..Len(visited) : ~ Damaged(visited[i])
        BY <1>3, <3>1, <3>2 DEF IInv, Sound
      <3> QED BY <1>1, <2>6, <3>3 DEF Sound, Damaged
    <2> QED BY <2>7, <2>8, <2>9, <2>10, <2>11, <2>12 DEF IInv
  <1> QED BY <1>4, <1>5 DEF GetSubFolders

LEMMA NextSubFolderStep ==
  ASSUME IInv, NextSubFolder
  PROVE  IInv'
  <1> DEFINE n == Len(stack)
             f == Current
             i == stack[n].next
             g == Listed(f)[i]
             c == stack[n].cell
  <1>1. /\ pc = "loop" /\ TypeOK /\ Frames /\ pc \in Walking /\ pc' = "callback"
        /\ UNCHANGED <<file, open, index, err, value, result, faults, visited, got, culprit>>
    BY DEF NextSubFolder, IInv, Walking, iterator
  <1>2. /\ stack # <<>> /\ n \in 1..n /\ n \in Nat \ {0}
        /\ Top = stack[n] /\ f = stack[n].folder /\ f \in Folder /\ stack[n] \in Frame
        /\ c \in Nat
    BY <1>1, CurrentFacts
  <1>3. LoopFrame(stack[n]) /\ c \in 1..Len(cells) /\ stack[n].subs = Listed(f)
    <2>1. LoopFrame(stack[n]) /\ c \in 0..Len(cells) /\ stack[n].self \in 1..Len(cells)
      BY <1>1, <1>2 DEF Frames
    <2> QED BY <1>2, <2>1, FrameFacts, <1>1 DEF LoopFrame
  <1>4. i \in 1..Len(Listed(f)) /\ g \in Folder /\ i \in Nat
    <2>1. Len(Listed(f)) \in Nat /\ i \in 1..(Len(Listed(f)) + 1) /\ i <= Len(Listed(f))
      BY <1>2, <1>3, FolderFacts DEF NextSubFolder, LoopFrame
    <2>2. i \in 1..Len(Listed(f)) /\ i \in Nat
      BY <2>1
    <2> QED BY <1>2, <2>2, FolderFacts
  <1> DEFINE up == [stack[n] EXCEPT !.next = i + 1]
             s == [stack EXCEPT ![n] = up]
             fr == [self |-> c, folder |-> g, subs |-> <<>>, cell |-> 0, next |-> 1]
  <1>5. stack' = Append(s, fr) /\ cells' = [cells EXCEPT ![c] = g]
    BY <1>2, <1>3 DEF NextSubFolder, CallWith
  <1>6. /\ up \in Frame /\ up.self = stack[n].self /\ up.folder = f /\ up.cell = c
        /\ up.subs = Listed(f) /\ up.next = i + 1
        /\ fr \in Frame /\ fr.self = c /\ fr.folder = g /\ fr.cell = 0 /\ fr.next = 1
    <2> HIDE DEF f, g, i, c
    <2>1. up.self = stack[n].self /\ up.folder = stack[n].folder /\ up.cell = stack[n].cell
          /\ up.subs = stack[n].subs /\ up.next = i + 1 /\ up \in Frame
      BY <1>2, <1>4 DEF Frame
    <2>2. fr \in Frame
      BY <1>2, <1>4 DEF Frame
    <2> QED BY <1>2, <1>3, <2>1, <2>2 DEF c
  <1> HIDE DEF up, fr
  <1>7. /\ s \in Seq(Frame) /\ Len(s) = n /\ s[n] = up
        /\ \A k \in 1..n : k # n => s[k] = stack[k]
    <2>1. stack \in Seq(Frame) /\ DOMAIN stack = 1..n
      BY <1>1, FrameFacts
    <2>2. s \in Seq(Frame) /\ Len(s) = n
      BY <1>2, <1>6, <2>1, ExceptSeq
    <2> QED BY <1>2, <2>1, <2>2
  <1> HIDE DEF s
  <1>8. /\ stack' \in Seq(Frame) /\ Len(stack') = n + 1 /\ stack'[n + 1] = fr
        /\ \A k \in 1..n : stack'[k] = s[k]
    BY <1>5, <1>6, <1>7, AppendProperties, LenProperties
  <1>9. /\ cells' \in Seq(Folder) /\ Len(cells') = Len(cells) /\ Len(cells) \in Nat
        /\ cells'[c] = g /\ \A k \in 1..Len(cells) : k # c => cells'[k] = cells[k]
    <2>1. cells \in Seq(Folder) /\ Len(cells) \in Nat /\ DOMAIN cells = 1..Len(cells)
      BY <1>1, FrameFacts
    <2> HIDE DEF c, g
    <2>2. cells' \in Seq(Folder) /\ Len(cells') = Len(cells)
      BY <1>3, <1>4, <1>5, <2>1, ExceptSeq
    <2> QED BY <1>3, <1>5, <2>1, <2>2
  <1> HIDE DEF n, f, g, i, c
  <1>10. \A k \in 1..n : /\ stack'[k].self = stack[k].self
                         /\ stack'[k].folder = stack[k].folder
                         /\ stack'[k].cell = stack[k].cell
                         /\ stack'[k].subs = stack[k].subs
                         /\ stack'[k].next = (IF k = n THEN i + 1 ELSE stack[k].next)
    <2>1. SUFFICES ASSUME NEW k \in 1..n
                   PROVE  /\ stack'[k].self = stack[k].self
                          /\ stack'[k].folder = stack[k].folder
                          /\ stack'[k].cell = stack[k].cell
                          /\ stack'[k].subs = stack[k].subs
                          /\ stack'[k].next = (IF k = n THEN i + 1 ELSE stack[k].next)
      OBVIOUS
    <2>2. CASE k = n
      BY <1>2, <1>3, <1>6, <1>7, <1>8, <2>2 DEF c
    <2>3. CASE k # n
      BY <1>7, <1>8, <2>3
    <2> QED BY <2>2, <2>3
  <1>11. TypeOK'
    BY <1>1, <1>8, <1>9 DEF TypeOK
  <1>12. Frames'
    <2>1. /\ \A k \in 1..n :
               /\ stack[k].self \in 1..Len(cells) /\ stack[k].cell \in 0..Len(cells)
               /\ cells[stack[k].self] = stack[k].folder
               /\ LoopFrame(stack[k])
          /\ \A k \in 1..(n - 1) :
               /\ stack[k].next > 1
               /\ stack[k + 1].folder = Listed(stack[k].folder)[stack[k].next - 1]
          /\ \A j, k \in 1..n : j < k => stack[j].self < stack[k].self
          /\ stack[1].folder = RootFolder
      BY <1>1, <1>2 DEF Frames, n
    <2>2. \A k \in 1..n : stack[k].self < c
      <3>1. stack[n].self < c /\ stack[n].self \in Nat
        BY <1>2, <1>9, <2>1 DEF LoopFrame, c
      <3>2. \A k \in 1..n : stack[k].self \in Nat /\ (k < n \/ k = n)
        BY <1>2, <1>9, <2>1
      <3> QED BY <1>2, <2>1, <3>1, <3>2
    <2>3. \A k \in 1..n :
            /\ stack'[k].self \in 1..Len(cells') /\ stack'[k].cell \in 0..Len(cells')
            /\ cells'[stack'[k].self] = stack'[k].folder
      <3>1. \A k \in 1..n : stack[k].self # c
        BY <1>9, <2>1, <2>2
      <3> QED BY <1>9, <1>10, <2>1, <3>1
    <2>4. \A k \in 1..n : LoopFrame(stack'[k])
      <3>1. SUFFICES ASSUME NEW k \in 1..n
                     PROVE  LoopFrame(stack'[k])
        OBVIOUS
      <3>2. LoopFrame(stack[k])
        BY <2>1
      <3>3. CASE k # n
        BY <1>10, <3>2, <3>3 DEF LoopFrame
      <3>4. CASE k = n
        <4>1. stack'[k].next = i + 1 /\ i + 1 \in 1..(Len(Listed(f)) + 1)
          <5>1. Len(Listed(f)) \in Nat
            BY <1>2, FolderFacts
          <5> QED BY <1>4, <1>10, <3>4, <5>1
        <4>2. stack'[k].subs = Listed(f)
          BY <1>3, <1>10, <3>4
        <4> QED BY <1>10, <3>2, <4>1, <4>2 DEF LoopFrame
      <3> QED BY <3>3, <3>4
    <2>5. /\ stack'[n + 1].self \in 1..Len(cells') /\ stack'[n + 1].cell \in 0..Len(cells')
          /\ cells'[stack'[n + 1].self] = stack'[n + 1].folder
      BY <1>3, <1>6, <1>8, <1>9
    <2>6. \A k \in 1..n : /\ stack'[k].next > 1
                          /\ stack'[k + 1].folder =
                               Listed(stack'[k].folder)[stack'[k].next - 1]
      <3>1. SUFFICES ASSUME NEW k \in 1..n
                     PROVE  /\ stack'[k].next > 1
                            /\ stack'[k + 1].folder =
                                 Listed(stack'[k].folder)[stack'[k].next - 1]
        OBVIOUS
      <3>2. CASE k # n
        <4>1. k \in 1..(n - 1) /\ k + 1 \in 1..n
          BY <1>2, <3>2
        <4> QED BY <1>10, <2>1, <3>2, <4>1
      <3>3. CASE k = n
        <4>1. stack'[k].next = i + 1 /\ stack'[k].folder = f /\ stack'[k + 1].folder = g
          BY <1>2, <1>6, <1>8, <1>10, <3>3
        <4>2. i + 1 > 1 /\ (i + 1) - 1 = i
          BY <1>4
        <4> QED BY <4>1, <4>2 DEF g
      <3> QED BY <3>2, <3>3
    <2>7. \A j, k \in 1..(n + 1) : j < k => stack'[j].self < stack'[k].self
      <3>1. SUFFICES ASSUME NEW j \in 1..(n + 1), NEW k \in 1..(n + 1), j < k
                     PROVE  stack'[j].self < stack'[k].self
        OBVIOUS
      <3>2. j \in 1..n
        BY <1>2, <3>1
      <3>3. CASE k \in 1..n
        BY <1>10, <2>1, <3>1, <3>2, <3>3
      <3>4. CASE k = n + 1
        BY <1>6, <1>8, <1>10, <2>2, <3>2, <3>4
      <3> QED BY <1>2, <3>3, <3>4
    <2>8. /\ stack' # <<>> /\ stack'[1].folder = RootFolder
          /\ stack'[Len(stack')].next = 1
      <3>1. 1 \in 1..n /\ Len(stack') # 0
        BY <1>2, <1>8
      <3>2. stack' # <<>>
        BY <3>1
      <3> QED BY <1>6, <1>8, <1>10, <2>1, <3>1, <3>2
    <2>9. \A k \in 1..(n + 1) : k \in 1..n \/ k = n + 1
      BY <1>2
    <2>10. (n + 1) - 1 = n /\ \A k \in 1..(n + 1) : k < n + 1 => k \in 1..n
      BY <1>2
    <2>11. \A k \in 1..(n + 1) :
             /\ stack'[k].self \in 1..Len(cells') /\ stack'[k].cell \in 0..Len(cells')
             /\ k < n + 1 => LoopFrame(stack'[k])
             /\ cells'[stack'[k].self] = stack'[k].folder
      BY <2>3, <2>4, <2>5, <2>9, <2>10
    <2>12. pc' # "loop"
      BY <1>1
    <2> QED BY <1>8, <2>6, <2>7, <2>8, <2>10, <2>11, <2>12 DEF Frames, Top
  <1>13. Progress'
    <2>1. PICK r : Remainder(r) /\ visited \o (Ahead \o r[n]) = Walk[RootFolder]
      BY <1>1 DEF IInv, Progress, n
    <2> DEFINE a == Walk[g]
               b == Rest[f][i]
               z == r[n]
    <2>2. a \in Seq(Folder) /\ b \in Seq(Folder) /\ z \in Seq(Folder)
      <3>1. i \in 0..Len(Listed(f))
        BY <1>4
      <3>2. z \in Seq(Folder)
        BY <1>1, <1>2, <2>1, RemainderFacts DEF n
      <3> QED BY <1>2, <1>4, <3>1, <3>2, WalkFacts
    <2>3. Ahead = a \o b
      <3>1. Ahead = Rest[f][i - 1]
        BY <1>1, <1>2 DEF Ahead, i
      <3>2. Rest[f][i - 1] = Walk[Listed(f)[i]] \o Rest[f][i]
        BY <1>2, <1>4, WalkFacts
      <3> QED BY <3>1, <3>2 DEF g
    <2>4. Ahead' = a
      <3>1. Len(stack') = n + 1 /\ stack'[n + 1].folder = g
        BY <1>6, <1>8
      <3> QED BY <1>1, <3>1 DEF Ahead, Top
    <2> DEFINE r2 == [k \in 1..(n + 1) |-> IF k = n + 1 THEN b \o z ELSE r[k]]
    <2>5. /\ r \in [1..n -> Seq(Folder)] /\ r[1] = <<>>
          /\ \A k \in 1..(n - 1) :
               r[k + 1] = Rest[stack[k].folder][stack[k].next - 1] \o r[k]
      BY <2>1 DEF Remainder, n
    <2> HIDE DEF a, b
    <2>6. b \o z \in Seq(Folder)
      BY <2>2, ConcatProperties
    <2>7. r2[n + 1] = b \o z /\ \A k \in 1..n : r2[k] = r[k]
      BY <1>2
    <2>8. r2 \in [1..(n + 1) -> Seq(Folder)]
      <3>1. \A k \in 1..(n + 1) : k = n + 1 \/ k \in 1..n
        BY <1>2
      <3> QED BY <2>5, <2>6, <3>1
    <2> HIDE DEF r2
    <2>9. \A k \in 1..n :
            r2[k + 1] = Rest[stack'[k].folder][stack'[k].next - 1] \o r2[k]
      <3>1. SUFFICES ASSUME NEW k \in 1..n
                     PROVE  r2[k + 1] = Rest[stack'[k].folder][stack'[k].next - 1] \o r2[k]
        OBVIOUS
      <3>2. CASE k # n
        <4>1. k \in 1..(n - 1) /\ k + 1 \in 1..n
          BY <1>2, <3>2
        <4>2. stack'[k].folder = stack[k].folder /\ stack'[k].next = stack[k].next
          BY <1>10, <3>2
        <4>3. r2[k + 1] = r[k + 1] /\ r2[k] = r[k]
          BY <2>7, <4>1
        <4> QED BY <2>5, <4>1, <4>2, <4>3
      <3>3. CASE k = n
        <4>1. stack'[k].folder = f /\ stack'[k].next - 1 = i
          BY <1>2, <1>4, <1>10, <3>3
        <4>2. r2[k + 1] = b \o z /\ r2[k] = z
          BY <1>2, <2>7, <3>3
        <4> QED BY <4>1, <4>2 DEF b
      <3> QED BY <3>2, <3>3
    <2>c. PICK rr : rr = r2
      OBVIOUS
    <2>10. Remainder(rr)'
      <3>1. (n + 1) - 1 = n /\ 1 \in 1..n
        BY <1>2
      <3>2. r2[1] = <<>>
        BY <2>5, <2>7, <3>1
      <3> QED BY <1>8, <2>8, <2>9, <2>c, <3>1, <3>2 DEF Remainder
    <2> HIDE DEF z
    <2>11. (a \o b) \o z = a \o (b \o z)
      BY <2>2, ConcatAssociative
    <2>12. visited \o ((a \o b) \o z) = Walk[RootFolder]
      BY <2>1, <2>3 DEF z
    <2>13. visited' \o (Ahead' \o rr[Len(stack')]) = Walk[RootFolder]
      BY <1>1, <1>8, <2>4, <2>7, <2>11, <2>12, <2>c
    <2> QED BY <2>10, <2>13 DEF Progress
  <1>14. WalkInOrder'
    BY <1>1 DEF IInv, WalkInOrder
  <1>15. Iteration'
    BY <1>1 DEF IInv, Iteration, Iterating
  <1>16. Sound'
    BY <1>1 DEF IInv, Sound, Iterating, Damaged
  <1> QED BY <1>11, <1>12, <1>13, <1>14, <1>15, <1>16 DEF IInv

LEMMA ResultFacts ==
  ASSUME IInv, pc = "loop"
  PROVE  result = "none"
  BY DEF IInv, Iteration

LEMMA ReturnStep ==
  ASSUME IInv, Return
  PROVE  IInv'
  <1> DEFINE n == Len(stack)
             f == Current
  <1>1. /\ pc = "loop" /\ TypeOK /\ Frames /\ pc \in Walking
        /\ UNCHANGED <<file, open, cells, index, err, value, faults, visited, got, culprit>>
        /\ stack' = SubSeq(stack, 1, n - 1)
        /\ IF n = 1 THEN pc' = "done" /\ result' = "nil" ELSE UNCHANGED <<pc, result>>
        /\ Top.next > Len(Top.subs)
        /\ visited \in Seq(Folder) /\ Walk[RootFolder] \in Seq(Folder)
    BY RootFacts DEF Return, IInv, Walking, iterator, TypeOK
  <1>2. /\ stack # <<>> /\ n \in 1..n /\ n \in Nat \ {0} /\ stack \in Seq(Frame)
        /\ Top = stack[n] /\ f = stack[n].folder /\ f \in Folder /\ stack[n] \in Frame
    BY <1>1, CurrentFacts, FrameFacts
  <1>3. /\ stack' \in Seq(Frame) /\ Len(stack') = n - 1 /\ n - 1 \in Nat
        /\ \A k \in 1..(n - 1) : stack'[k] = stack[k]
    BY <1>1, <1>2, PopFacts
  <1> HIDE DEF n, f
  <1>4. TypeOK'
    BY <1>1, <1>3 DEF TypeOK
  <1>5. Ahead = <<>>
    <2>1. LoopFrame(stack[n])
      BY <1>1, <1>2 DEF Frames, n
    <2>2. stack[n].next - 1 = Len(Listed(f)) /\ Len(Listed(f)) \in Nat
      <3>1. Len(Listed(f)) \in Nat
        BY <1>2, FolderFacts
      <3> QED BY <1>1, <1>2, <2>1, <3>1 DEF LoopFrame
    <2>3. Rest[f][Len(Listed(f))] = <<>>
      BY <1>2, WalkFacts
    <2> QED BY <1>1, <1>2, <2>2, <2>3 DEF Ahead
  <1>6. PICK r : Remainder(r) /\ visited \o (<<>> \o r[n]) = Walk[RootFolder]
    BY <1>1, <1>5 DEF IInv, Progress, n
  <1>7. r[n] \in Seq(Folder) /\ <<>> \o r[n] = r[n] /\ visited \o r[n] = Walk[RootFolder]
    <2>1. r[n] \in Seq(Folder)
      BY <1>1, <1>2, <1>6, RemainderFacts DEF n
    <2>2. <<>> \o r[n] = r[n]
      BY <2>1, ConcatEmptySeq
    <2> QED BY <1>6, <2>1, <2>2
  <1>8. CASE n = 1
    <2>1. stack' = <<>> /\ pc' = "done" /\ result' = "nil"
      BY <1>1, <1>3, <1>8, EmptySeq
    <2>2. visited = Walk[RootFolder]
      <3>1. r[n] = <<>>
        BY <1>6, <1>8 DEF Remainder
      <3>2. visited \o <<>> = visited
        BY <1>1, ConcatEmptySeq
      <3> QED BY <1>7, <3>1, <3>2
    <2>3. Frames' /\ Progress'
      BY <2>1 DEF Frames, Progress, Walking
    <2>4. WalkInOrder'
      BY <1>1, <2>1, <2>2 DEF IInv, WalkInOrder
    <2>5. Iteration'
      BY <2>1 DEF Iteration, Iterating
    <2>6. Sound'
      BY <1>1, <2>1, ResultFacts DEF IInv, Sound, Iterating, Damaged
    <2> QED BY <1>4, <2>3, <2>4, <2>5, <2>6 DEF IInv
  <1>9. CASE n # 1
    <2>1. pc' = "loop" /\ result' = result /\ result = "none"
      BY <1>1, <1>9, ResultFacts
    <2>2. /\ n - 1 \in 1..(n - 1) /\ n - 1 \in 1..n /\ 1 \in 1..(n - 1)
          /\ \A k \in 1..(n - 1) : k \in 1..n /\ k < n
          /\ \A k \in 1..((n - 1) - 1) : /\ k \in 1..(n - 1) /\ k + 1 \in 1..(n - 1)
          /\ (n - 1) + 1 = n
      BY <1>2, <1>9
    <2>3. stack' # <<>>
      BY <1>3, <2>2
    <2>4. Frames'
      <3>1. /\ \A k \in 1..n :
                 /\ stack[k].self \in 1..Len(cells) /\ stack[k].cell \in 0..Len(cells)
                 /\ cells[stack[k].self] = stack[k].folder
                 /\ LoopFrame(stack[k])
            /\ \A k \in 1..(n - 1) :
                 /\ stack[k].next > 1
                 /\ stack[k + 1].folder = Listed(stack[k].folder)[stack[k].next - 1]
            /\ \A j, k \in 1..n : j < k => stack[j].self < stack[k].self
            /\ stack[1].folder = RootFolder
        BY <1>1, <1>2 DEF Frames, n
      <3>2. \A k \in 1..(n - 1) :
                 /\ stack'[k].self \in 1..Len(cells') /\ stack'[k].cell \in 0..Len(cells')
                 /\ cells'[stack'[k].self] = stack'[k].folder
                 /\ LoopFrame(stack'[k])
        BY <1>1, <1>3, <2>2, <3>1
      <3>3. \A k \in 1..((n - 1) - 1) :
              /\ stack'[k].next > 1
              /\ stack'[k + 1].folder = Listed(stack'[k].folder)[stack'[k].next - 1]
        BY <1>3, <2>2, <3>1
      <3>4. \A j, k \in 1..(n - 1) : j < k => stack'[j].self < stack'[k].self
        BY <1>3, <2>2, <3>1
      <3>5. stack'[1].folder = RootFolder
        BY <1>3, <2>2, <3>1
      <3> QED BY <1>3, <2>1, <2>3, <3>2, <3>3, <3>4, <3>5 DEF Frames
    <2>5. Progress'
      <3> DEFINE r2 == [k \in 1..(n - 1) |-> r[k]]
      <3>1. /\ r \in [1..n -> Seq(Folder)] /\ r[1] = <<>>
            /\ \A k \in 1..(n - 1) :
                 r[k + 1] = Rest[stack[k].folder][stack[k].next - 1] \o r[k]
        BY <1>6 DEF Remainder, n
      <3>2. r2 \in [1..(n - 1) -> Seq(Folder)] /\ \A k \in 1..(n - 1) : r2[k] = r[k]
        BY <2>2, <3>1
      <3> HIDE DEF r2
      <3>3. PICK rr : rr = r2
        OBVIOUS
      <3>4. \A k \in 1..((n - 1) - 1) :
              rr[k + 1] = Rest[stack'[k].folder][stack'[k].next - 1] \o rr[k]
        BY <1>3, <2>2, <3>1, <3>2, <3>3
      <3>5. Remainder(rr)'
        BY <1>3, <2>2, <3>1, <3>2, <3>3, <3>4 DEF Remainder
      <3>6. Ahead' \o rr[n - 1] = r[n]
        <4>1. r[(n - 1) + 1] = Rest[stack[n - 1].folder][stack[n - 1].next - 1] \o r[n - 1]
          BY <2>2, <3>1
        <4>2. Ahead' = Rest[stack[n - 1].folder][stack[n - 1].next - 1]
          BY <1>3, <2>1, <2>2 DEF Ahead, Top
        <4> QED BY <2>2, <3>2, <3>3, <4>1, <4>2
      <3>7. visited' \o (Ahead' \o rr[Len(stack')]) = Walk[RootFolder]
        BY <1>1, <1>3, <1>7, <3>6
      <3> QED BY <3>5, <3>7 DEF Progress
    <2>6. WalkInOrder'
      BY <1>1, <2>1 DEF IInv, WalkInOrder
    <2>7. Iteration'
      BY <2>1 DEF Iteration, Iterating
    <2>8. Sound'
      BY <1>1, <2>1 DEF IInv, Sound, Iterating, Damaged
    <2> QED BY <1>4, <2>4, <2>5, <2>6, <2>7, <2>8 DEF IInv
  <1> QED BY <1>8, <1>9

----------------------------------------------------------------------------
(* The theorems.                                                           *)

LEMMA StepInv ==
  ASSUME IInv, [Next]_vars
  PROVE  IInv'
  <1>1. CASE UNCHANGED vars
    <2>1. UNCHANGED <<file, open, pc, cells, stack, index, err, value, result, faults,
                      visited, got, culprit>>
      BY <1>1 DEF vars, iterator
    <2>2. TypeOK'
      BY <2>1 DEF IInv, TypeOK
    <2>3. Frames' /\ WalkInOrder'
      BY <2>1 DEF IInv, Frames, LoopFrame, Top, WalkInOrder
    <2>4. Progress'
      BY <2>1 DEF IInv, Progress, Remainder, Ahead, Top
    <2>5. Sound'
      BY <2>1 DEF IInv, Sound, Damaged
    <2>6. Iteration'
      <3>1. Current' = Current
        BY <2>1 DEF Current, Top
      <3>2. Justified' = Justified
        BY <2>1 DEF Justified, Damaged
      <3>3. \A f, n : RowsReadable(f, n)' <=> RowsReadable(f, n)
        BY <2>1 DEF RowsReadable
      <3> QED BY <2>1, <3>1, <3>2, <3>3 DEF IInv, Iteration, RowsReadable
    <2> QED BY <2>2, <2>3, <2>4, <2>5, <2>6 DEF IInv
  <1>2. CASE Next
    BY <1>2, RootStep, NoMessagesStep, IteratorStep, NextSucceedsStep, NextFailsStep,
       NextEndsStep, ReturnsStep, SubFoldersStep, NextSubFolderStep, ReturnStep,
       RetryStep, StopStep, CleanupStep DEF Next, Step
  <1> QED BY <1>1, <1>2

LEMMA Inductive == Spec => []IInv
  <1>1. Init => IInv
    BY InitInv
  <1>2. IInv /\ [Next]_vars => IInv'
    BY StepInv
  <1> QED BY <1>1, <1>2, PTL DEF Spec

\* The state variables of the walk and its iterator have their types in every
\* state (folder.go, message.go).
THEOREM TypeCorrectness == Spec => []TypeOK
  <1>1. IInv => TypeOK
    BY DEF IInv
  <1> QED BY <1>1, Inductive, PTL

\* Every pointer handed to a call of WalkFolders keeps pointing to the folder
\* it was made for while that call runs, though the variable it points to is
\* shared by all turns of the caller's loop (folder.go, WalkFolders).
THEOREM PointersDoNotMove == Spec => []PointersStable
  <1>1. IInv => PointersStable
    BY PointersFollow DEF IInv
  <1> QED BY <1>1, Inductive, PTL

\* The folders are walked depth first, each once, and a walk that returns nil
\* was at all of them (folder.go, WalkFolders).
THEOREM WalkIsDepthFirst == Spec => []WalkInOrder
  <1>1. IInv => WalkInOrder
    BY DEF IInv
  <1> QED BY <1>1, Inductive, PTL

\* No message is skipped or repeated, also when a failed Next is tried again
\* (message.go, Next and Value).
THEOREM MessagesInOrder == Spec => []NothingLost
  <1>1. IInv => NothingLost
    BY NothingLostFollows DEF IInv
  <1> QED BY <1>1, Inductive, PTL

\* A walk that returns an error has a reason for it, and one that returns nil
\* met no damaged folder (folder.go, message.go).
THEOREM ErrorsAreJustified == Spec => []ErrorsJustified
  <1>1. IInv => ErrorsJustified
    <2>1. SUFFICES ASSUME IInv PROVE ErrorsJustified
      OBVIOUS
    <2>2. result = "error" => Justified
      BY <2>1 DEF IInv, Iteration
    <2>3. ASSUME result = "nil"
          PROVE  \A f \in Range(Walk[RootFolder]) : ~ Damaged(f)
      <3>1. visited = Walk[RootFolder] /\ visited \in Seq(Folder)
        BY <2>1, <2>3 DEF IInv, WalkInOrder, TypeOK
      <3>2. pc = "done"
        BY <2>1, <2>3 DEF IInv, Iteration
      <3>3. \A i \in 1..Len(visited) : ~ Damaged(visited[i])
        BY <2>1, <2>3, <3>2 DEF IInv, Sound, Iterating
      <3>4. DOMAIN visited = 1..Len(visited)
        BY <3>1
      <3> QED BY <3>1, <3>3, <3>4 DEF Range
    <2> QED BY <2>2, <2>3 DEF ErrorsJustified, Justified
  <1> QED BY <1>1, Inductive, PTL

============================================================================
