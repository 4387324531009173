-------------------------- MODULE DataTreeProofs --------------------------
(***************************************************************************)
(* Proofs about DataTree.  The loop invariant of the recursion is stated   *)
(* of all frames at once: what a frame has collected is what the           *)
(* identifiers it is done with stand for, and a frame that waits for a     *)
(* call waits for all that its identifier stands for.                      *)
(***************************************************************************)
EXTENDS DataTree, SequenceTheorems, TLAPS

IdsOf(b) == IF IsSLBlock(file, b) THEN <<>> ELSE file[b].ids

\* The block that frame f has last called for.
Target(f) == ClearLSB(file[f.block].ids[f.next - 1])

\* What frame f waits for is all of the block it has called for.
Waits(f) ==
  /\ f.next - 1 \in 1..Len(IdsOf(f.block))
  /\ Share(file, f.block, f.next - 1) = Whole(file, Target(f))

Progress(f, waiting) == IF waiting THEN f.next - 2 ELSE f.next - 1

Good(f, waiting) ==
  /\ f.block \in DOMAIN file /\ Accepted(f.block)
  /\ f.next \in 1..(Len(IdsOf(f.block)) + 1)
  /\ waiting => Waits(f)
  /\ f.acc = IF IsSLBlock(file, f.block) THEN file[f.block].slots
             ELSE Upto[file][f.block][Progress(f, waiting)]

\* The stack s is good; waiting says whether its top frame waits too.
Frames(s, waiting) ==
  \A k \in 1..Len(s) :
    /\ Good(s[k], k < Len(s) \/ waiting)
    /\ k < Len(s) => s[k + 1].block = Target(s[k])

Calling == pc \in {"header", "entries"}

StackInv == Frames(stack, Calling)

\* What ties the frames to the call.
CallInv ==
  /\ pc = "idle" => stack = <<>>
  /\ pc # "idle" =>
       root \in DOMAIN file /\ root # 0 /\ (op = "heap" => IsInternal(root))
  /\ stack # <<>> => stack[1].block = root
  /\ Calling => /\ node \in DOMAIN file
                /\ node = IF stack = <<>> THEN root ELSE Target(Top)
  /\ pc = "entries" => Accepted(node)
  /\ pc = "loop" => stack # <<>>
  /\ pc = "total" => stack = <<>> /\ op = "heap" /\ items = Whole(file, root)

IInv == TypeOK /\ CallInv /\ StackInv /\ AllInOrder

----------------------------------------------------------------------------
(* Facts about the files.                                                  *)

LEMMA FileFacts ==
  ASSUME file \in Files, NEW b \in DOMAIN file
  PROVE  /\ b \in Nat /\ b # 0
         /\ file[b] \in Content
         /\ file[b].ids \in Seq(Nat) /\ file[b].slots \in Seq(Nat)
         /\ IdsOf(b) \in Seq(Nat)
         /\ Upto[file][b][0] = <<>>
         /\ \A i \in 1..Len(file[b].ids) :
              Upto[file][b][i] = Upto[file][b][i - 1] \o Share(file, b, i)
  <1>1. file[b] \in Content
    BY FilesAssumption
  <1>2. file[b].ids \in Seq(Nat) /\ file[b].slots \in Seq(Nat)
    BY <1>1 DEF Content
  <1>3. IdsOf(b) \in Seq(Nat)
    BY <1>2 DEF IdsOf
  <1> QED BY <1>1, <1>2, <1>3, FilesAssumption

\* A product that fits in a word is its remainder.
LEMMA SmallRemainder ==
  ASSUME NEW p \in Nat, NEW W \in Nat \ {0}, p < W PROVE p % W = p
  OBVIOUS

LEMMA RemainderBelow ==
  ASSUME NEW p \in Nat, NEW W \in Nat \ {0} PROVE p % W < W
  OBVIOUS

LEMMA ProductType == ASSUME NEW c \in Nat, NEW s \in Nat PROVE c * s \in Nat
  OBVIOUS

LEMMA ProductGrows ==
  ASSUME NEW c \in Nat, NEW i \in Nat, i <= c, NEW s \in Nat
  PROVE  i * s <= c * s
  OBVIOUS

LEMMA EntryFacts ==
  ASSUME file \in Files, NEW b \in DOMAIN file
  PROVE  /\ EntryCount(file, b) \in Nat /\ EntrySize(file, b) \in Nat \ {0}
         /\ EntryCount(file, b) = IF IsSLBlock(file, b) THEN Len(file[b].slots)
                                                      ELSE Len(file[b].ids)
  <1>1. file[b].ids \in Seq(Nat) /\ file[b].slots \in Seq(Nat)
    BY FileFacts
  <1> QED BY <1>1, SizesAssumption DEF EntryCount, EntrySize

\* An entry is outside the buffer only if the size of all of them has wrapped.
LEMMA OutsideOversized ==
  ASSUME file \in Files, NEW b \in DOMAIN file, NEW i \in 1..EntryCount(file, b),
         Outside(file, b, i), op = "descriptors"
  PROVE  Oversized(op, file, b)
  <1> DEFINE c == EntryCount(file, b)
             s == EntrySize(file, b)
  <1>1. c \in Nat /\ s \in Nat /\ i \in Nat /\ i <= c /\ Word \in Nat \ {0}
    BY EntryFacts, SizesAssumption
  <1>2. i * s > (c * s) % Word
    BY DEF Outside, BufferLength
  <1> SUFFICES c * s >= Word
    BY DEF Oversized
  <1> HIDE DEF c, s
  <1>3. c * s \in Nat /\ i * s \in Nat /\ i * s <= c * s
    BY <1>1, ProductType, ProductGrows
  <1>4. c * s < Word => (c * s) % Word = c * s
    BY <1>1, <1>3, SmallRemainder
  <1> QED BY <1>1, <1>2, <1>3, <1>4

\* If no entry is outside the buffer, the size of all of them has not wrapped.
LEMMA InsideFits ==
  ASSUME file \in Files, NEW b \in DOMAIN file,
         \A i \in 1..EntryCount(file, b) : ~ Outside(file, b, i)
  PROVE  ~ Oversized(op, file, b)
  <1> DEFINE c == EntryCount(file, b)
             s == EntrySize(file, b)
  <1>1. c \in Nat /\ s \in Nat /\ Word \in Nat \ {0}
    BY EntryFacts, SizesAssumption
  <1>2. c # 0 => c * s <= (c * s) % Word
    <2>1. c * s \in Nat /\ (c * s) % Word \in Nat
      BY <1>1, ProductType
    <2> QED BY <1>1, <2>1 DEF Outside, BufferLength
  <1> SUFFICES c * s < Word
    BY <1>1, ProductType DEF Oversized
  <1> HIDE DEF c, s
  <1>3. c * s \in Nat /\ (c * s) % Word < Word /\ (c * s) % Word \in Nat
    BY <1>1, ProductType, RemainderBelow
  <1>4. c = 0 => c * s = 0
    BY <1>1
  <1> QED BY <1>1, <1>2, <1>3, <1>4

LEMMA ClearLSBType == \A id \in Nat : ClearLSB(id) \in Nat
  BY DEF ClearLSB

\* Goodness is about the file and the operation only.
LEMMA GoodStays ==
  ASSUME file' = file, op' = op
  PROVE  /\ \A f, w : Good(f, w)' <=> Good(f, w)
         /\ \A f : Target(f)' = Target(f)
         /\ \A b : Accepted(b)' <=> Accepted(b)
         /\ \A b : Whole(file, b)' = Whole(file, b)
  BY DEF Good, Target, Accepted, Whole, Waits, Progress, IdsOf, Share, IsSLBlock,
         IsXBlock, Exists

LEMMA FramesStay ==
  ASSUME file' = file, op' = op, NEW s, NEW w
  PROVE  Frames(s, w)' <=> Frames(s, w)
  BY GoodStays DEF Frames

----------------------------------------------------------------------------
(* What the steps do to a stack.                                           *)

\* The top frame changes, but not its block.
LEMMA AdvanceFrames ==
  ASSUME NEW s \in Seq(Frame), s # <<>>, NEW w, NEW v \in BOOLEAN, NEW g \in Frame,
         g.block = s[Len(s)].block, Frames(s, w), Good(g, v)
  PROVE  /\ [s EXCEPT ![Len(s)] = g] \in Seq(Frame)
         /\ [s EXCEPT ![Len(s)] = g] # <<>>
         /\ [s EXCEPT ![Len(s)] = g][1].block = s[1].block
         /\ Len([s EXCEPT ![Len(s)] = g]) = Len(s)
         /\ [s EXCEPT ![Len(s)] = g][Len(s)] = g
         /\ Frames([s EXCEPT ![Len(s)] = g], v)
  <1> DEFINE t == [s EXCEPT ![Len(s)] = g]
  <1>1. Len(s) \in Nat \ {0}
    BY EmptySeq
  <1>2. t \in Seq(Frame) /\ Len(t) = Len(s)
    BY <1>1
  <1>3. t[Len(s)] = g /\ \A k \in 1..Len(s) : k # Len(s) => t[k] = s[k]
    BY <1>1
  <1> HIDE DEF t
  <1>4. \A k \in 1..Len(s) : t[k].block = s[k].block
    BY <1>3
  <1>5. ASSUME NEW k \in 1..Len(s)
        PROVE  /\ Good(t[k], k < Len(s) \/ v)
               /\ k < Len(s) => t[k + 1].block = Target(t[k])
    <2>1. CASE k = Len(s)
      <3>1. (k < Len(s) \/ v) = v /\ ~ k < Len(s)
        BY <1>1, <2>1
      <3>2. Good(t[k], v)
        BY <1>3, <2>1
      <3> QED BY <3>1, <3>2
    <2>2. CASE k # Len(s)
      <3>1. k < Len(s) /\ k + 1 \in 1..Len(s) /\ t[k] = s[k]
        BY <1>1, <1>3, <2>2
      <3>2. Good(s[k], TRUE) /\ s[k + 1].block = Target(s[k])
        BY <3>1 DEF Frames
      <3> QED BY <3>1, <3>2, <1>4
    <2> QED BY <2>1, <2>2
  <1>6. Frames(t, v)
    BY <1>2, <1>5 DEF Frames
  <1>7. t # <<>>
    BY <1>1, <1>2
  <1>8. t[1].block = s[1].block
    BY <1>1, <1>4
  <1> QED BY <1>2, <1>3, <1>6, <1>7, <1>8, <1>1 DEF t

\* A call begins: the frame below it waits.
LEMMA PushFrames ==
  ASSUME NEW s \in Seq(Frame), NEW g \in Frame, Frames(s, TRUE), Good(g, FALSE),
         s # <<>> => g.block = Target(s[Len(s)])
  PROVE  /\ Append(s, g) \in Seq(Frame) /\ Append(s, g) # <<>>
         /\ Append(s, g)[1].block = IF s = <<>> THEN g.block ELSE s[1].block
         /\ Frames(Append(s, g), FALSE)
  <1> DEFINE t == Append(s, g)
  <1>1. /\ t \in Seq(Frame) /\ Len(t) = Len(s) + 1 /\ Len(s) \in Nat
        /\ t[Len(s) + 1] = g
        /\ \A k \in 1..Len(s) : t[k] = s[k]
    BY AppendProperties, LenProperties
  <1> HIDE DEF t
  <1>2. ASSUME NEW k \in 1..Len(t)
        PROVE  /\ Good(t[k], k < Len(t) \/ FALSE)
               /\ k < Len(t) => t[k + 1].block = Target(t[k])
    <2>1. CASE k = Len(s) + 1
      <3>1. (k < Len(t) \/ FALSE) = FALSE /\ ~ k < Len(t)
        BY <1>1, <2>1
      <3>2. Good(t[k], FALSE)
        BY <1>1, <2>1
      <3> QED BY <3>1, <3>2
    <2>2. CASE k # Len(s) + 1
      <3>1. k < Len(t) /\ k \in 1..Len(s) /\ t[k] = s[k]
        BY <1>1, <2>2
      <3>2. Good(s[k], TRUE)
        BY <3>1 DEF Frames
      <3>3. CASE k = Len(s)
        <4>1. s # <<>>
          BY <3>1, <3>3, <1>1
        <4> QED BY <3>1, <3>2, <3>3, <4>1, <1>1
      <3>4. CASE k # Len(s)
        <4>1. k < Len(s) /\ k + 1 \in 1..Len(s)
          BY <3>1, <3>4, <1>1
        <4> QED BY <3>1, <3>2, <4>1, <1>1 DEF Frames
      <3> QED BY <3>3, <3>4
    <2> QED BY <2>1, <2>2
  <1>3. Frames(t, FALSE)
    BY <1>2 DEF Frames
  <1>4. t # <<>>
    BY <1>1
  <1>5. t[1].block = IF s = <<>> THEN g.block ELSE s[1].block
    <2>1. CASE s = <<>>
      BY <1>1, <2>1
    <2>2. CASE s # <<>>
      BY <1>1, <2>2, EmptySeq
    <2> QED BY <2>1, <2>2
  <1> QED BY <1>1, <1>3, <1>4, <1>5 DEF t

\* A call returns: the frame below it goes on.
LEMMA PopFrames ==
  ASSUME NEW s \in Seq(Frame), Len(s) > 1, NEW w, Frames(s, w)
  PROVE  /\ SubSeq(s, 1, Len(s) - 1) \in Seq(Frame)
         /\ SubSeq(s, 1, Len(s) - 1) # <<>>
         /\ Len(SubSeq(s, 1, Len(s) - 1)) = Len(s) - 1 /\ Len(s) \in Nat
         /\ SubSeq(s, 1, Len(s) - 1)[1] = s[1]
         /\ SubSeq(s, 1, Len(s) - 1)[Len(s) - 1] = s[Len(s) - 1]
         /\ Frames(SubSeq(s, 1, Len(s) - 1), TRUE)
  <1> DEFINE t == SubSeq(s, 1, Len(s) - 1)
  <1>1. s # <<>>
    OBVIOUS
  <1>2. /\ t \in Seq(Frame) /\ Len(t) = Len(s) - 1 /\ Len(s) \in Nat
        /\ \A k \in 1..(Len(s) - 1) : t[k] = s[k]
    BY <1>1, SubSeqProperties, ElementOfSeq, EmptySeq
  <1> HIDE DEF t
  <1>3. ASSUME NEW k \in 1..Len(t)
        PROVE  /\ Good(t[k], k < Len(t) \/ TRUE)
               /\ k < Len(t) => t[k + 1].block = Target(t[k])
    <2>1. k \in 1..Len(s) /\ k < Len(s) /\ t[k] = s[k]
      BY <1>2
    <2>2. Good(s[k], TRUE) /\ s[k + 1].block = Target(s[k])
      BY <2>1 DEF Frames
    <2>3. k < Len(t) => t[k + 1] = s[k + 1]
      BY <1>2
    <2> QED BY <2>1, <2>2, <2>3
  <1>4. Frames(t, TRUE)
    BY <1>3 DEF Frames
  <1>5. t # <<>> /\ t[1] = s[1] /\ t[Len(s) - 1] = s[Len(s) - 1]
    BY <1>2
  <1> QED BY <1>2, <1>4, <1>5 DEF t

----------------------------------------------------------------------------
(* What the steps do to the top frame.                                     *)

LEMMA TopFacts ==
  ASSUME IInv, pc = "loop"
  PROVE  /\ stack \in Seq(Frame) /\ stack # <<>> /\ Len(stack) \in Nat \ {0}
         /\ Top \in Frame /\ Top = stack[Len(stack)]
         /\ Top.block \in Nat /\ Top.next \in Nat /\ Top.acc \in Seq(Nat)
         /\ Good(Top, FALSE)
         /\ Top.block \in DOMAIN file /\ Accepted(Top.block)
         /\ TopIds = IdsOf(Top.block) /\ TopIds \in Seq(Nat)
         /\ Frames(stack, FALSE)
  <1>1. stack \in Seq(Frame) /\ stack # <<>>
    BY DEF IInv, TypeOK, CallInv
  <1>2. Len(stack) \in Nat \ {0}
    BY <1>1, EmptySeq
  <1>3. Top \in Frame /\ Top = stack[Len(stack)]
    BY <1>1, <1>2 DEF Top
  <1>4. Frames(stack, FALSE)
    <2>1. Calling = FALSE
      BY DEF Calling
    <2> QED BY <2>1 DEF IInv, StackInv
  <1>5. Good(Top, FALSE)
    <2>1. Len(stack) \in 1..Len(stack) /\ (Len(stack) < Len(stack) \/ FALSE) = FALSE
      BY <1>2
    <2> QED BY <1>3, <1>4, <2>1 DEF Frames
  <1>6. Top.block \in DOMAIN file /\ Accepted(Top.block)
    BY <1>5 DEF Good
  <1>7. TopIds = IdsOf(Top.block) /\ TopIds \in Seq(Nat)
    BY <1>6, FileFacts DEF TopIds, IdsOf, IInv, TypeOK
  <1>8. Top.block \in Nat /\ Top.next \in Nat /\ Top.acc \in Seq(Nat)
    BY <1>3 DEF Frame
  <1> QED BY <1>1, <1>2, <1>3, <1>4, <1>5, <1>6, <1>7, <1>8

\* The identifier at hand.
LEMMA NextShare ==
  ASSUME IInv, InLoop
  PROVE  /\ ~ IsSLBlock(file, Top.block)
         /\ TopIds = file[Top.block].ids
         /\ Top.next \in 1..Len(TopIds) /\ TopId \in Nat
         /\ ClearLSB(TopId) \in Nat
         /\ Upto[file][Top.block][Top.next] = Top.acc \o Share(file, Top.block, Top.next)
  <1>1. pc = "loop" /\ Top.next <= Len(TopIds)
    BY DEF InLoop
  <1>2. Top.next \in 1..(Len(TopIds) + 1)
    BY <1>1, TopFacts DEF Good
  <1>3. ~ IsSLBlock(file, Top.block)
    BY <1>1, <1>2, EmptySeq DEF TopIds
  <1>4. TopIds = file[Top.block].ids
    BY <1>3 DEF TopIds
  <1>5. Top.next \in 1..Len(TopIds)
    BY <1>1, <1>2
  <1>6. TopId \in Nat /\ ClearLSB(TopId) \in Nat
    <2>1. TopIds \in Seq(Nat)
      BY <1>1, TopFacts
    <2>2. TopId \in Nat
      BY <1>5, <2>1 DEF TopId
    <2> QED BY <2>2, ClearLSBType
  <1>7. Top.acc = Upto[file][Top.block][Top.next - 1]
    BY <1>1, <1>3, TopFacts DEF Good, Progress
  <1>8. Upto[file][Top.block][Top.next] =
          Upto[file][Top.block][Top.next - 1] \o Share(file, Top.block, Top.next)
    BY <1>1, <1>4, <1>5, TopFacts, FileFacts DEF IInv, TypeOK
  <1> QED BY <1>3, <1>4, <1>5, <1>6, <1>7, <1>8

\* A frame whose loop has ended has collected the whole block.
LEMMA Finished ==
  ASSUME IInv, pc = "loop", Top.next > Len(TopIds)
  PROVE  Top.acc = Whole(file, Top.block)
  <1>1. CASE IsSLBlock(file, Top.block)
    BY <1>1, TopFacts DEF Good, Whole
  <1>2. CASE ~ IsSLBlock(file, Top.block)
    <2>1. TopIds = file[Top.block].ids
      BY <1>2 DEF TopIds
    <2>2. Len(TopIds) \in Nat /\ Top.next \in 1..(Len(TopIds) + 1)
      BY TopFacts DEF Good
    <2>3. Top.next - 1 = Len(file[Top.block].ids)
      BY <2>1, <2>2
    <2> QED BY <1>2, <2>3, TopFacts DEF Good, Progress, Whole
  <1> QED BY <1>1, <1>2

\* The top frame after its identifier at hand has given the sequence e.
Advanced(e) ==
  [block |-> Top.block, next |-> Top.next + 1, acc |-> Top.acc \o e]

\* Updated field by field, a frame is the record of its fields.
LEMMA NextUpdate ==
  ASSUME NEW t \in Frame, NEW n \in Nat
  PROVE  [t EXCEPT !.next = n] = [block |-> t.block, next |-> n, acc |-> t.acc]
  BY DEF Frame

LEMMA AccUpdate ==
  ASSUME NEW t \in Frame, NEW a \in Seq(Nat)
  PROVE  [t EXCEPT !.acc = a] = [block |-> t.block, next |-> t.next, acc |-> a]
  <1> USE DEF Frame
  <1> DEFINE u == [t EXCEPT !.acc = a]
  <1>1. u \in Frame /\ u.block = t.block /\ u.next = t.next /\ u.acc = a
    OBVIOUS
  <1> HIDE DEF u
  <1>2. u = [block |-> t.block, next |-> t.next, acc |-> a]
    BY <1>1
  <1> QED BY <1>2 DEF u

LEMMA BothUpdate ==
  ASSUME NEW t \in Frame, NEW n \in Nat, NEW a \in Seq(Nat)
  PROVE  [t EXCEPT !.next = n, !.acc = a] = [block |-> t.block, next |-> n, acc |-> a]
  <1> USE DEF Frame
  <1> DEFINE u == [t EXCEPT !.next = n, !.acc = a]
  <1>1. u \in Frame /\ u.block = t.block /\ u.next = n /\ u.acc = a
    OBVIOUS
  <1> HIDE DEF u
  <1>2. u = [block |-> t.block, next |-> n, acc |-> a]
    BY <1>1
  <1> QED BY <1>2 DEF u

LEMMA AdvancedGood ==
  ASSUME IInv, InLoop, NEW e \in Seq(Nat), e = Share(file, Top.block, Top.next)
  PROVE  /\ Advanced(e) \in Frame /\ Advanced(e).block = Top.block
         /\ Good(Advanced(e), FALSE)
  <1> DEFINE g == Advanced(e)
  <1>1. pc = "loop"
    BY DEF InLoop
  <1>2. Top \in Frame
    BY <1>1, TopFacts
  <1>3. /\ g \in Frame /\ g.block = Top.block /\ g.next = Top.next + 1
        /\ g.acc = Top.acc \o e
    <2>1. Top.acc \in Seq(Nat) /\ Top.acc \o e \in Seq(Nat)
      BY <1>2, ConcatProperties, LenProperties DEF Frame
    <2>2. Top.block \in Nat /\ Top.next + 1 \in Nat
      BY <1>2 DEF Frame
    <2> QED BY <2>1, <2>2 DEF Advanced, Frame
  <1> HIDE DEF g
  <1>4. g.next - 1 = Top.next /\ g.next \in 1..(Len(TopIds) + 1)
    BY <1>3, <1>1, NextShare, TopFacts
  <1>5. g.acc = Upto[file][g.block][g.next - 1]
    BY <1>3, <1>4, NextShare
  <1>6. Good(g, FALSE)
    BY <1>1, <1>3, <1>4, <1>5, TopFacts, NextShare DEF Good, Progress
  <1> QED BY <1>3, <1>6 DEF g

LEMMA AppendBlockStep ==
  ASSUME IInv, AppendBlock
  PROVE  \E e \in Seq(Nat) : /\ e = Share(file, Top.block, Top.next)
                             /\ stack' = [stack EXCEPT ![Len(stack)] = Advanced(e)]
  <1> DEFINE e == <<ClearLSB(TopId)>>
  <1>1. InLoop /\ pc = "loop" /\ op = "heap" /\ file[Top.block].level = XBlock
    BY DEF AppendBlock, InLoop
  <1>2. IsXBlock(file, Top.block)
    BY <1>1, TopFacts DEF Accepted, IsXBlock
  <1>3. e = Share(file, Top.block, Top.next)
    BY <1>1, <1>2, NextShare DEF Share, TopId
  <1>4. e \in Seq(Nat)
    BY <1>1, NextShare
  <1>5. Append(Top.acc, ClearLSB(TopId)) = Top.acc \o e
    <2>1. Top.acc \in Seq(Nat)
      BY <1>1, TopFacts DEF Frame
    <2> QED BY <1>1, <2>1, NextShare
  <1>6. stack' = [stack EXCEPT ![Len(stack)] = Advanced(e)]
    <2> DEFINE n == Top.next + 1
               a == Append(Top.acc, ClearLSB(TopId))
               k == Len(stack)
    <2>1. stack' = [stack EXCEPT ![k].next = n, ![k].acc = a]
      BY DEF AppendBlock, Top
    <2>2. n \in Nat /\ a \in Seq(Nat) /\ Top \in Frame
      BY <1>1, TopFacts, NextShare
    <2>3. k \in 1..k /\ stack \in Seq(Frame) /\ Top = stack[k]
      BY <1>1, TopFacts
    <2>4. a = Top.acc \o e
      BY <1>5
    <2> HIDE DEF n, a, k
    <2>5. [stack EXCEPT ![k].next = n, ![k].acc = a]
            = [stack EXCEPT ![k] = [stack[k] EXCEPT !.next = n, !.acc = a]]
      OBVIOUS
    <2>6. [Top EXCEPT !.next = n, !.acc = a] = [block |-> Top.block, next |-> n, acc |-> a]
      BY <2>2, BothUpdate, Zenon
    <2>7. [block |-> Top.block, next |-> n, acc |-> a] = Advanced(e)
      BY <2>4 DEF Advanced, n
    <2>8. [stack[k] EXCEPT !.next = n, !.acc = a] = Advanced(e)
      BY <2>3, <2>6, <2>7, Zenon
    <2>9. stack' = [stack EXCEPT ![k] = Advanced(e)]
      BY <2>1, <2>5, <2>8, Zenon
    <2> QED BY <2>9 DEF k
  <1> QED BY <1>3, <1>4, <1>6

LEMMA SkipChildStep ==
  ASSUME IInv, SkipChild
  PROVE  /\ <<>> = Share(file, Top.block, Top.next)
         /\ stack' = [stack EXCEPT ![Len(stack)] = Advanced(<<>>)]
  <1>1. InLoop /\ pc = "loop" /\ op = "descriptors" /\ TopId = 0
    BY DEF SkipChild, InLoop
  <1>2. file[Top.block].sig = 2 /\ ~ IsXBlock(file, Top.block)
    BY <1>1, TopFacts DEF Accepted, IsXBlock
  <1>3. <<>> = Share(file, Top.block, Top.next)
    BY <1>1, <1>2, NextShare DEF Share, TopId
  <1>4. Top.acc \o <<>> = Top.acc
    <2>1. Top.acc \in Seq(Nat)
      BY <1>1, TopFacts DEF Frame
    <2> QED BY <2>1
  <1>5. stack' = [stack EXCEPT ![Len(stack)] = Advanced(<<>>)]
    <2> DEFINE n == Top.next + 1
               k == Len(stack)
    <2>1. stack' = [stack EXCEPT ![k].next = n]
      BY DEF SkipChild, Top
    <2>2. n \in Nat /\ Top \in Frame /\ Top = stack[k]
      BY <1>1, TopFacts
    <2> HIDE DEF n, k
    <2>3. [stack EXCEPT ![k].next = n] = [stack EXCEPT ![k] = [stack[k] EXCEPT !.next = n]]
      OBVIOUS
    <2>4. [Top EXCEPT !.next = n] = [block |-> Top.block, next |-> n, acc |-> Top.acc]
      BY <2>2, NextUpdate, Zenon
    <2>5. [block |-> Top.block, next |-> n, acc |-> Top.acc] = Advanced(<<>>)
      BY <1>4 DEF Advanced, n
    <2>6. [stack[k] EXCEPT !.next = n] = Advanced(<<>>)
      BY <2>2, <2>4, <2>5, Zenon
    <2>7. stack' = [stack EXCEPT ![k] = Advanced(<<>>)]
      BY <2>1, <2>3, <2>6, Zenon
    <2> QED BY <2>7 DEF k
  <1> QED BY <1>3, <1>5

\* Before a child is read, its caller waits for all that the child stands for.
LEMMA DescendStep ==
  ASSUME IInv, Descend
  PROVE  \E g \in Frame : /\ g.block = Top.block /\ Good(g, TRUE)
                          /\ Target(g) = ClearLSB(TopId) /\ g.next = Top.next + 1
                          /\ stack' = [stack EXCEPT ![Len(stack)] = g]
  <1> DEFINE g == [Top EXCEPT !.next = Top.next + 1]
             k == Len(stack)
  <1>1. InLoop /\ pc = "loop" /\ Exists(file, TopId)
    BY DEF Descend, InLoop
  <1>2. stack' = [stack EXCEPT ![k].next = Top.next + 1]
    BY DEF Descend, Top
  <1>3. Top \in Frame /\ Top.next + 1 \in Nat /\ Top = stack[k]
    BY <1>1, TopFacts
  <1>4. g = [block |-> Top.block, next |-> Top.next + 1, acc |-> Top.acc]
    BY <1>3, NextUpdate, Zenon
  <1>5. /\ g \in Frame /\ g.block = Top.block /\ g.next = Top.next + 1
        /\ g.acc = Top.acc
    BY <1>1, <1>4, TopFacts DEF Frame
  <1> HIDE DEF g, k
  <1>6. stack' = [stack EXCEPT ![k] = g]
    <2>1. [stack EXCEPT ![k].next = Top.next + 1]
            = [stack EXCEPT ![k] = [stack[k] EXCEPT !.next = Top.next + 1]]
      OBVIOUS
    <2>2. [stack[k] EXCEPT !.next = Top.next + 1] = g
      BY <1>3, Zenon DEF g
    <2> QED BY <1>2, <2>1, <2>2, Zenon
  <1>7. g.next - 1 = Top.next /\ g.next - 2 = Top.next - 1
    BY <1>1, <1>5, TopFacts
  <1>8. Target(g) = ClearLSB(TopId)
    BY <1>1, <1>5, <1>7, NextShare DEF Target, TopId
  <1>9. Share(file, Top.block, Top.next) = Whole(file, Target(g))
    <2>1. file[Top.block].ids[Top.next] = TopId
      BY <1>1, NextShare DEF TopId
    <2>2. ~ IsXBlock(file, Top.block) /\ ~ (file[Top.block].sig = 2 /\ TopId = 0)
      <3>1. Accepted(Top.block) /\ op \in {"heap", "descriptors"}
        BY <1>1, TopFacts DEF IInv, TypeOK
      <3>2. CASE op = "heap"
        BY <3>1, <3>2 DEF Accepted, IsXBlock, Descend, XBlock, XXBlock
      <3>3. CASE op = "descriptors"
        BY <3>1, <3>3 DEF Accepted, IsXBlock, Descend
      <3> QED BY <3>1, <3>2, <3>3
    <2> QED BY <1>1, <1>8, <2>1, <2>2 DEF Share
  <1>10. IdsOf(Top.block) = TopIds /\ Top.next \in 1..Len(TopIds) /\ Len(TopIds) \in Nat
    BY <1>1, NextShare, TopFacts
  <1>11. Top.acc = Upto[file][Top.block][Top.next - 1]
    BY <1>1, NextShare, TopFacts DEF Good, Progress
  <1>12. Good(g, TRUE)
    <2>1. Waits(g)
      BY <1>5, <1>7, <1>9, <1>10 DEF Waits
    <2>2. g.block \in DOMAIN file /\ Accepted(g.block)
      BY <1>1, <1>5, TopFacts
    <2>3. g.next \in 1..(Len(IdsOf(g.block)) + 1)
      BY <1>5, <1>10
    <2>4. ~ IsSLBlock(file, g.block) /\ g.acc = Upto[file][g.block][g.next - 2]
      BY <1>1, <1>5, <1>7, <1>11, NextShare
    <2> QED BY <2>1, <2>2, <2>3, <2>4 DEF Good, Progress
  <1> QED BY <1>5, <1>6, <1>8, <1>12 DEF k

\* When a child returns, its caller has one identifier more behind it.
LEMMA ReturnStep ==
  ASSUME IInv, Return
  PROVE  /\ stack' \in Seq(Frame) /\ stack' # <<>>
         /\ stack'[1].block = stack[1].block
         /\ Frames(stack', FALSE)
         /\ Len(stack') = Len(stack) - 1
         /\ \A j \in 1..Len(stack') :
              stack'[j].block = stack[j].block /\ stack'[j].next = stack[j].next
         /\ Top.block = Target(stack[Len(stack) - 1])
  <1> DEFINE t == SubSeq(stack, 1, Len(stack) - 1)
             k == Len(stack) - 1
             p == stack[k]
             a == p.acc \o Top.acc
             g == [block |-> p.block, next |-> p.next, acc |-> a]
  <1>1. pc = "loop" /\ Top.next > Len(TopIds) /\ Len(stack) > 1
    BY DEF Return
  <1>2. /\ stack \in Seq(Frame) /\ Frames(stack, FALSE) /\ Len(stack) \in Nat
        /\ Top = stack[Len(stack)] /\ Top.acc \in Seq(Nat)
    BY <1>1, TopFacts
  <1>3. /\ t \in Seq(Frame) /\ t # <<>> /\ Len(t) = k
        /\ t[1] = stack[1] /\ t[k] = p /\ Frames(t, TRUE)
    BY <1>1, <1>2, PopFrames
  <1>4. k \in 1..Len(stack) /\ k < Len(stack) /\ k + 1 = Len(stack)
    BY <1>1, <1>2
  <1>5. p \in Frame /\ Good(p, TRUE) /\ Top.block = Target(p)
    <2>1. (k < Len(stack) \/ FALSE) = TRUE
      BY <1>4
    <2>2. /\ Good(stack[k], k < Len(stack) \/ FALSE)
          /\ stack[k + 1].block = Target(stack[k])
      BY <1>2, <1>4 DEF Frames
    <2>3. stack[k] \in Frame /\ stack[k + 1] = Top
      BY <1>2, <1>4
    <2> HIDE DEF k
    <2> QED BY <2>1, <2>2, <2>3
  <1>6. p.block \in Nat /\ p.next \in Nat /\ p.acc \in Seq(Nat)
    BY <1>5 DEF Frame
  <1>7. a \in Seq(Nat)
    BY <1>2, <1>6, ConcatProperties, LenProperties
  <1>8. stack' = [t EXCEPT ![k].acc = a]
    BY <1>3 DEF Return
  <1>15. \A j \in 1..k : t[j] = stack[j]
    BY <1>1, <1>2
  <1>16. Top.block = Target(stack[Len(stack) - 1])
    BY <1>5
  <1> HIDE DEF t, k, p, a
  <1>9. /\ g \in Frame /\ g.block = p.block /\ g.next = p.next /\ g.acc = a
    BY <1>6, <1>7 DEF Frame
  <1>10. stack' = [t EXCEPT ![k] = g]
    <2>1. [t EXCEPT ![k].acc = a] = [t EXCEPT ![k] = [t[k] EXCEPT !.acc = a]]
      OBVIOUS
    <2>2. [p EXCEPT !.acc = a] = g
      BY <1>5, <1>7, AccUpdate, Zenon
    <2>3. [t[k] EXCEPT !.acc = a] = g
      BY <1>3, <2>2, Zenon
    <2> QED BY <1>8, <2>1, <2>3, Zenon
  <1>11. Good(g, FALSE)
    <2> DEFINE i == p.next - 1
    <2>1. /\ p.block \in DOMAIN file /\ Accepted(p.block)
          /\ p.next \in 1..(Len(IdsOf(p.block)) + 1)
          /\ i \in 1..Len(IdsOf(p.block))
          /\ Share(file, p.block, i) = Whole(file, Target(p))
          /\ p.acc = IF IsSLBlock(file, p.block) THEN file[p.block].slots
                     ELSE Upto[file][p.block][p.next - 2]
      BY <1>5 DEF Good, Waits, Progress
    <2>2. ~ IsSLBlock(file, p.block) /\ IdsOf(p.block) = file[p.block].ids
      BY <2>1, EmptySeq DEF IdsOf
    <2>3. i - 1 = p.next - 2
      BY <1>6
    <2>4. Upto[file][p.block][i] = Upto[file][p.block][i - 1] \o Share(file, p.block, i)
      BY <2>1, <2>2, FileFacts DEF IInv, TypeOK
    <2>5. Top.acc = Share(file, p.block, i)
      BY <1>1, <1>5, <2>1, Finished
    <2>6. a = Upto[file][p.block][i]
      BY <2>1, <2>2, <2>3, <2>4, <2>5 DEF a
    <2> HIDE DEF g
    <2> QED BY <1>9, <2>1, <2>2, <2>6 DEF Good, Progress
  <1> HIDE DEF g
  <1>12. g.block = t[Len(t)].block
    BY <1>3, <1>9
  <1>13. stack' = [t EXCEPT ![Len(t)] = g]
    BY <1>3, <1>10
  <1>14. /\ [t EXCEPT ![Len(t)] = g] \in Seq(Frame) /\ [t EXCEPT ![Len(t)] = g] # <<>>
         /\ [t EXCEPT ![Len(t)] = g][1].block = t[1].block
         /\ Frames([t EXCEPT ![Len(t)] = g], FALSE)
    BY <1>3, <1>9, <1>11, <1>12, AdvanceFrames
  <1>17. Len(stack') = k
    BY <1>3, <1>10
  <1>18. ASSUME NEW j \in 1..k
         PROVE  stack'[j].block = stack[j].block /\ stack'[j].next = stack[j].next
    <2>1. stack'[j] = IF j = k THEN g ELSE t[j]
      BY <1>3, <1>10
    <2>2. t[j] = stack[j] /\ (j = k => stack[j] = p)
      BY <1>3, <1>15
    <2> QED BY <1>9, <2>1, <2>2
  <1> QED BY <1>3, <1>13, <1>14, <1>16, <1>17, <1>18 DEF k

----------------------------------------------------------------------------
(* The actions.                                                            *)

\* The stack invariant after a step, from the frames the step leaves.
LEMMA NewStack ==
  ASSUME file' = file, op' = op, NEW s, stack' = s, NEW w \in BOOLEAN, Calling' = w,
         Frames(s, w)
  PROVE  StackInv'
  <1> DEFINE Part(k, v) == /\ Good(s[k], k < Len(s) \/ v)
                           /\ k < Len(s) => s[k + 1].block = Target(s[k])
  <1>1. \A k \in 1..Len(s) : Part(k, w)
    BY DEF Frames
  <1>2. \A k : Part(k, w)' <=> Part(k, w)
    BY GoodStays
  <1>3. \A k \in 1..Len(s) : Part(k, w)'
    BY <1>1, <1>2, Zenon
  <1>4. Frames(s, w)'
    BY <1>3 DEF Frames
  <1>5. Frames(stack, Calling)' <=> Frames(s, w)'
    BY DEF Frames
  <1> QED BY <1>4, <1>5 DEF StackInv

LEMMA ReadsType ==
  ASSUME IInv, ReadOK \/ ReadFails
  PROVE  faults' \in 0..MaxFaults /\ failed' \in BOOLEAN
  <1>1. CASE ReadOK
    BY <1>1 DEF IInv, TypeOK, ReadOK
  <1>2. CASE ReadFails
    BY <1>2, BoundsAssumption DEF IInv, TypeOK, ReadFails
  <1> QED BY <1>1, <1>2

LEMMA GiveUpInv ==
  ASSUME IInv, ReadOK \/ ReadFails, GiveUp \/ Panic
  PROVE  IInv'
  <1>1. TypeOK'
    <2>1. pc' = "idle" /\ result' \in {"error", "panic"} /\ stack' = <<>>
          /\ UNCHANGED <<file, op, root, node, items, calls>>
      BY DEF GiveUp, Panic, Unwind, call
    <2>2. <<>> \in Seq(Frame)
      OBVIOUS
    <2> QED BY <2>1, <2>2, ReadsType DEF IInv, TypeOK
  <1>2. CallInv'
    BY DEF CallInv, GiveUp, Panic, Unwind, Calling
  <1>3. StackInv'
    BY DEF StackInv, Frames, GiveUp, Panic, Unwind
  <1>4. AllInOrder'
    BY DEF AllInOrder, GiveUp, Panic, Unwind
  <1> QED BY <1>1, <1>2, <1>3, <1>4 DEF IInv

\* A step of a loop that leaves the frames s.
LEMMA LoopInv ==
  ASSUME IInv, pc = "loop", pc' = "loop", ReadOK,
         UNCHANGED <<file, call, node, items, result, calls>>,
         NEW s \in Seq(Frame), stack' = s, s # <<>>, s[1].block = stack[1].block,
         Frames(s, FALSE)
  PROVE  IInv'
  <1>1. TypeOK'
    BY ReadsType DEF IInv, TypeOK, call
  <1>2. CallInv'
    BY DEF IInv, CallInv, Calling, call
  <1>3. StackInv'
    <2>1. Calling' = FALSE
      BY DEF Calling
    <2> QED BY <2>1, NewStack DEF call
  <1>4. AllInOrder'
    BY DEF AllInOrder
  <1> QED BY <1>1, <1>2, <1>3, <1>4 DEF IInv

\* What the loop replaces its top frame by.
LEMMA AdvanceInv ==
  ASSUME IInv, InLoop, ReadOK,
         UNCHANGED <<file, pc, call, node, items, result, calls>>,
         NEW e \in Seq(Nat), e = Share(file, Top.block, Top.next),
         stack' = [stack EXCEPT ![Len(stack)] = Advanced(e)]
  PROVE  IInv'
  <1> DEFINE s == [stack EXCEPT ![Len(stack)] = Advanced(e)]
  <1>1. pc = "loop" /\ pc' = "loop"
    BY DEF InLoop
  <1>2. s \in Seq(Frame) /\ s # <<>> /\ s[1].block = stack[1].block /\ Frames(s, FALSE)
    <2> DEFINE g == Advanced(e)
    <2>1. g \in Frame /\ g.block = Top.block /\ Good(g, FALSE)
      BY AdvancedGood
    <2>2. stack \in Seq(Frame) /\ stack # <<>> /\ Frames(stack, FALSE)
      BY <1>1, TopFacts
    <2>3. g.block = stack[Len(stack)].block
      BY <2>1 DEF Top
    <2> HIDE DEF g
    <2>4. /\ [stack EXCEPT ![Len(stack)] = g] \in Seq(Frame)
          /\ [stack EXCEPT ![Len(stack)] = g] # <<>>
          /\ [stack EXCEPT ![Len(stack)] = g][1].block = stack[1].block
          /\ Frames([stack EXCEPT ![Len(stack)] = g], FALSE)
      BY <2>1, <2>2, <2>3, AdvanceFrames
    <2> QED BY <2>4 DEF g
  <1>3. stack' = s
    OBVIOUS
  <1> HIDE DEF s
  <1> QED BY <1>1, <1>2, <1>3, LoopInv

LEMMA AppendBlockInv == ASSUME IInv, AppendBlock PROVE IInv'
  <1>1. PICK e \in Seq(Nat) : /\ e = Share(file, Top.block, Top.next)
                              /\ stack' = [stack EXCEPT ![Len(stack)] = Advanced(e)]
    BY AppendBlockStep
  <1> QED BY <1>1, AdvanceInv DEF AppendBlock

LEMMA SkipChildInv == ASSUME IInv, SkipChild PROVE IInv'
  <1>1. <<>> \in Seq(Nat)
    OBVIOUS
  <1> QED BY <1>1, SkipChildStep, AdvanceInv DEF SkipChild

LEMMA ReturnInv == ASSUME IInv, Return PROVE IInv'
  BY ReturnStep, LoopInv DEF Return

LEMMA DescendInv == ASSUME IInv, Descend PROVE IInv'
  <1>1. PICK g \in Frame : /\ g.block = Top.block /\ Good(g, TRUE)
                           /\ Target(g) = ClearLSB(TopId)
                           /\ stack' = [stack EXCEPT ![Len(stack)] = g]
    BY DescendStep
  <1> DEFINE s == [stack EXCEPT ![Len(stack)] = g]
  <1>2. InLoop /\ pc = "loop" /\ Exists(file, TopId)
    BY DEF Descend, InLoop
  <1>3. /\ s \in Seq(Frame) /\ s # <<>> /\ s[1].block = stack[1].block
        /\ Len(s) = Len(stack) /\ s[Len(stack)] = g /\ Frames(s, TRUE)
    <2>1. stack \in Seq(Frame) /\ stack # <<>> /\ Frames(stack, FALSE)
      BY <1>2, TopFacts
    <2>2. g.block = stack[Len(stack)].block /\ Good(g, TRUE)
      BY <1>1 DEF Top
    <2> QED BY <2>1, <2>2, AdvanceFrames
  <1>4. stack' = s
    BY <1>1
  <1> HIDE DEF s
  <1>5. node' = ClearLSB(TopId) /\ pc' = "header" /\ ReadOK
        /\ UNCHANGED <<file, op, root, items, result, calls>>
    BY DEF Descend, call
  <1>6. TypeOK'
    BY <1>2, <1>3, <1>4, <1>5, NextShare, ReadsType DEF IInv, TypeOK
  <1>7. CallInv'
    <2>1. Top' = g
      BY <1>3, <1>4 DEF Top
    <2>2. Target(g)' = Target(g)
      BY <1>5, GoodStays
    <2>3. node' \in DOMAIN file' /\ node' = Target(Top)'
      <3>1. Target(Top)' = Target(g)'
        BY <2>1 DEF Target
      <3> QED BY <1>1, <1>2, <1>5, <2>2, <3>1 DEF Exists
    <2> QED BY <1>2, <1>3, <1>4, <1>5, <2>3 DEF IInv, CallInv, Calling
  <1>8. StackInv'
    <2>1. Calling' = TRUE
      BY <1>5 DEF Calling
    <2> QED BY <1>3, <1>4, <1>5, <2>1, NewStack
  <1>9. AllInOrder'
    BY <1>5 DEF AllInOrder
  <1> QED BY <1>6, <1>7, <1>8, <1>9 DEF IInv

LEMMA ReadHeaderInv == ASSUME IInv, ReadHeader PROVE IInv'
  <1>1. CASE (ReadOK \/ ReadFails) /\ GiveUp
    BY <1>1, GiveUpInv
  <1>2. CASE /\ ReadOK /\ Accepted(node) /\ pc' = "entries"
             /\ UNCHANGED <<file, call, node, stack, items, result, calls>>
    <2>1. pc = "header" /\ UNCHANGED <<file, op, root, node, stack, items, result, calls>>
      BY <1>2 DEF ReadHeader, call
    <2>2. TypeOK'
      BY <1>2, <2>1, ReadsType DEF IInv, TypeOK
    <2>3. CallInv'
      <3>1. Accepted(node)'
        BY <1>2, <2>1 DEF Accepted
      <3>2. Top' = Top /\ Target(Top)' = Target(Top)
        BY <2>1 DEF Top, Target
      <3> QED BY <1>2, <2>1, <3>1, <3>2 DEF IInv, CallInv, Calling
    <2>4. StackInv'
      <3>1. Calling' = TRUE /\ Calling = TRUE
        BY <1>2, <2>1 DEF Calling
      <3>2. Frames(stack, TRUE)
        BY <3>1 DEF IInv, StackInv
      <3> QED BY <2>1, <3>1, <3>2, NewStack
    <2>5. AllInOrder'
      BY <1>2 DEF AllInOrder
    <2> QED BY <2>2, <2>3, <2>4, <2>5 DEF IInv
  <1> QED BY <1>1, <1>2 DEF ReadHeader

LEMMA ReadEntriesInv == ASSUME IInv, ReadEntries PROVE IInv'
  <1>1. CASE (ReadFails /\ GiveUp) \/ (ReadOK /\ Panic)
    BY <1>1, GiveUpInv
  <1> DEFINE acc == IF IsSLBlock(file, node) THEN file[node].slots ELSE <<>>
             g == [block |-> node, next |-> 1, acc |-> acc]
             s == Append(stack, g)
  <1>2. CASE /\ ReadOK /\ pc' = "loop" /\ stack' = s
             /\ UNCHANGED <<file, call, node, items, result, calls>>
    <2>1. pc = "entries" /\ UNCHANGED <<file, op, root, node, items, result, calls>>
      BY <1>2 DEF ReadEntries, call
    <2>2. file \in Files /\ node \in DOMAIN file /\ Accepted(node) /\ stack \in Seq(Frame)
      BY <2>1 DEF IInv, TypeOK, CallInv, Calling
    <2>3. acc \in Seq(Nat) /\ node \in Nat
      BY <2>2, FileFacts
    <2>4. /\ acc = IF IsSLBlock(file, node) THEN file[node].slots ELSE Upto[file][node][0]
          /\ IdsOf(node) \in Seq(Nat)
      BY <2>2, FileFacts
    <2> HIDE DEF acc
    <2>5. g \in Frame /\ g.block = node /\ g.next = 1 /\ g.acc = acc
      BY <2>3 DEF Frame
    <2> HIDE DEF g
    <2>6. Good(g, FALSE)
      <3>1. g.next - 1 = 0 /\ g.next \in 1..(Len(IdsOf(g.block)) + 1)
        BY <2>4, <2>5
      <3> QED BY <2>2, <2>4, <2>5, <3>1 DEF Good, Progress
    <2>7. Frames(stack, TRUE)
      <3>1. Calling = TRUE
        BY <2>1 DEF Calling
      <3> QED BY <3>1 DEF IInv, StackInv
    <2>8. stack # <<>> => g.block = Target(stack[Len(stack)])
      BY <2>1, <2>5 DEF IInv, CallInv, Calling, Top
    <2>9. /\ s \in Seq(Frame) /\ s # <<>> /\ Frames(s, FALSE)
          /\ s[1].block = IF stack = <<>> THEN g.block ELSE stack[1].block
      BY <2>2, <2>5, <2>6, <2>7, <2>8, PushFrames
    <2>10. s[1].block = root
      BY <2>1, <2>5, <2>9 DEF IInv, CallInv, Calling
    <2>11. stack' = s
      BY <1>2
    <2> HIDE DEF s
    <2>12. TypeOK'
      BY <1>2, <2>1, <2>9, <2>11, ReadsType DEF IInv, TypeOK
    <2>13. CallInv'
      BY <1>2, <2>1, <2>9, <2>10, <2>11 DEF IInv, CallInv, Calling
    <2>14. StackInv'
      <3>1. Calling' = FALSE
        BY <1>2 DEF Calling
      <3> QED BY <2>1, <2>9, <2>11, <3>1, NewStack
    <2>15. AllInOrder'
      BY <1>2 DEF AllInOrder
    <2> QED BY <2>12, <2>13, <2>14, <2>15 DEF IInv
  <1> QED BY <1>1, <1>2 DEF ReadEntries

LEMMA ReturnRootInv == ASSUME IInv, ReturnRoot PROVE IInv'
  <1>1. /\ pc = "loop" /\ Top.next > Len(TopIds) /\ Len(stack) = 1 /\ ReadOK
        /\ items' = Top.acc /\ stack' = <<>>
        /\ UNCHANGED <<file, op, root, node, calls>>
    BY DEF ReturnRoot, call
  <1>2. Top.block = root /\ Top.acc = Whole(file, root) /\ Top.acc \in Seq(Nat)
    <2>1. Top.block = root
      BY <1>1 DEF Top, IInv, CallInv
    <2> QED BY <1>1, <2>1, Finished, TopFacts
  <1>3. root # 0 /\ root \in DOMAIN file /\ (op = "heap" => IsInternal(root))
    BY <1>1 DEF IInv, CallInv
  <1>4. items' = Whole(file', root')
    BY <1>1, <1>2
  <1>5. \/ op = "heap" /\ pc' = "total" /\ result' = result
        \/ op = "descriptors" /\ pc' = "idle" /\ result' = "ok"
    BY DEF ReturnRoot, IInv, TypeOK
  <1>6. TypeOK'
    <2>1. <<>> \in Seq(Frame)
      OBVIOUS
    <2> QED BY <1>1, <1>2, <1>5, <2>1, ReadsType DEF IInv, TypeOK
  <1>7. CallInv'
    BY <1>1, <1>3, <1>4, <1>5 DEF CallInv, Calling, IsInternal
  <1>8. StackInv'
    BY <1>1 DEF StackInv, Frames
  <1>9. AllInOrder'
    BY <1>1, <1>3, <1>4, <1>5 DEF AllInOrder
  <1> QED BY <1>6, <1>7, <1>8, <1>9 DEF IInv

LEMMA CheckTotalInv == ASSUME IInv, CheckTotal PROVE IInv'
  <1>1. CASE (ReadOK \/ ReadFails) /\ GiveUp
    BY <1>1, GiveUpInv
  <1>2. CASE /\ ReadOK /\ pc' = "idle" /\ result' = "ok"
             /\ UNCHANGED <<file, call, node, stack, items, calls>>
    <2>1. pc = "total" /\ UNCHANGED <<file, op, root, node, stack, items, calls>>
      BY <1>2 DEF CheckTotal, call
    <2>2. /\ stack = <<>> /\ op = "heap" /\ items = Whole(file, root)
          /\ root # 0 /\ IsInternal(root)
      BY <2>1 DEF IInv, CallInv
    <2>3. TypeOK'
      BY <1>2, <2>1, ReadsType DEF IInv, TypeOK
    <2>4. CallInv'
      BY <1>2, <2>1, <2>2 DEF CallInv, Calling
    <2>5. StackInv'
      BY <2>1, <2>2 DEF StackInv, Frames
    <2>6. items' = Whole(file', root') /\ IsInternal(root') /\ op' = "heap"
      BY <2>1, <2>2
    <2>7. AllInOrder'
      BY <2>6 DEF AllInOrder
    <2> QED BY <2>3, <2>4, <2>5, <2>7 DEF IInv
  <1> QED BY <1>1, <1>2 DEF CheckTotal

\* A call that has begun, or ended at once.
LEMMA BeginInv ==
  ASSUME IInv, NEW o \in {"heap", "descriptors"}, NEW b \in Nat, Begin(o, b),
         NEW its \in Seq(Nat), items' = its,
         \/ /\ pc' = "header" /\ result' = "none" /\ b \in DOMAIN file
            /\ o = "heap" => IsInternal(b)
         \/ pc' = "idle" /\ result' = "error"
         \/ pc' = "idle" /\ result' = "ok" /\ o = "heap" /\ ~ IsInternal(b) /\ its = <<b>>
         \/ pc' = "idle" /\ result' = "ok" /\ o = "descriptors" /\ b = 0 /\ its = <<>>
  PROVE  IInv'
  <1>1. /\ pc = "idle" /\ calls < MaxCalls /\ calls' = calls + 1
        /\ op' = o /\ root' = b /\ node' = b /\ failed' = FALSE
        /\ UNCHANGED <<file, stack, faults>>
    BY DEF Begin
  <1>2. stack = <<>> /\ file \in Files
    BY <1>1 DEF IInv, CallInv, TypeOK
  <1>3. TypeOK'
    <2>1. calls' \in 0..MaxCalls
      BY <1>1, BoundsAssumption DEF IInv, TypeOK
    <2> QED BY <1>1, <2>1 DEF IInv, TypeOK
  <1>4. CallInv'
    <2>1. b \in DOMAIN file => b # 0
      BY <1>2, FileFacts
    <2> QED BY <1>1, <1>2, <2>1 DEF CallInv, Calling, IsInternal
  <1>5. StackInv'
    BY <1>1, <1>2 DEF StackInv, Frames
  <1>6. AllInOrder'
    BY <1>1 DEF AllInOrder, IsInternal
  <1> QED BY <1>3, <1>4, <1>5, <1>6 DEF IInv

LEMMA GetHeapOnNodeInv ==
  ASSUME IInv, NEW b \in DOMAIN file, GetHeapOnNode(b)
  PROVE  IInv'
  <1>1. b \in Nat /\ <<>> \in Seq(Nat) /\ <<b>> \in Seq(Nat)
    BY FileFacts DEF IInv, TypeOK
  <1>2. CASE IsInternal(b)
    BY <1>1, <1>2, BeginInv DEF GetHeapOnNode
  <1>3. CASE ~ IsInternal(b)
    BY <1>1, <1>3, BeginInv DEF GetHeapOnNode
  <1> QED BY <1>2, <1>3

LEMMA GetLocalDescriptorsInv ==
  ASSUME IInv, NEW id \in Nat, GetLocalDescriptors(id)
  PROVE  IInv'
  <1>1. Begin("descriptors", ClearLSB(id)) /\ items' = <<>> /\ <<>> \in Seq(Nat)
    BY DEF GetLocalDescriptors
  <1>2. ClearLSB(id) \in Nat /\ (id = 0 => ClearLSB(id) = 0)
    BY DEF ClearLSB
  <1>3. \/ id = 0 /\ pc' = "idle" /\ result' = "ok"
        \/ pc' = "idle" /\ result' = "error"
        \/ Exists(file, id) /\ pc' = "header" /\ result' = "none"
    BY DEF GetLocalDescriptors
  <1>4. Exists(file, id) => ClearLSB(id) \in DOMAIN file
    BY DEF Exists
  <1> QED BY <1>1, <1>2, <1>3, <1>4, BeginInv

LEMMA NextInv == ASSUME IInv, [Next]_vars PROVE IInv'
  <1>1. CASE \E b \in DOMAIN file : GetHeapOnNode(b)
    BY <1>1, GetHeapOnNodeInv
  <1>2. CASE \E id \in (UNION {DOMAIN f : f \in Files}) \cup {0} : GetLocalDescriptors(id)
    <2>1. (UNION {DOMAIN f : f \in Files}) \cup {0} \subseteq Nat
      BY FilesAssumption
    <2> QED BY <1>2, <2>1, GetLocalDescriptorsInv
  <1>3. CASE Step
    <2>1. CASE ReadHeader
      BY <2>1, ReadHeaderInv
    <2>2. CASE ReadEntries
      BY <2>2, ReadEntriesInv
    <2>3. CASE NotFound
      BY <2>3, GiveUpInv DEF NotFound
    <2>4. CASE AppendBlock
      BY <2>4, AppendBlockInv
    <2>5. CASE SkipChild
      BY <2>5, SkipChildInv
    <2>6. CASE Descend
      BY <2>6, DescendInv
    <2>7. CASE Return
      BY <2>7, ReturnInv
    <2>8. CASE ReturnRoot
      BY <2>8, ReturnRootInv
    <2>9. CASE CheckTotal
      BY <2>9, CheckTotalInv
    <2>10. CASE SlicePastBuffer
      BY <2>10, GiveUpInv DEF SlicePastBuffer
    <2> QED BY <1>3, <2>1, <2>2, <2>3, <2>4, <2>5, <2>6, <2>7, <2>8, <2>9, <2>10 DEF Step
  <1>4. CASE UNCHANGED vars
    <2>1. UNCHANGED <<file, pc, op, root, node, stack, items, result, calls, faults, failed>>
      BY <1>4 DEF vars, call
    <2>2. TypeOK'
      BY <2>1 DEF IInv, TypeOK
    <2>3. CallInv'
      <3>1. Accepted(node)' <=> Accepted(node)
        BY <2>1 DEF Accepted
      <3>2. Top' = Top /\ Target(Top)' = Target(Top)
        BY <2>1 DEF Top, Target
      <3>3. items' = items /\ Whole(file, root)' = Whole(file, root)
        BY <2>1
      <3> QED BY <2>1, <3>1, <3>2, <3>3 DEF IInv, CallInv, Calling, IsInternal
    <2>4. StackInv'
      <3>1. Calling \in BOOLEAN /\ Calling' = Calling
        BY <2>1 DEF Calling
      <3> QED BY <2>1, <3>1, NewStack DEF IInv, StackInv
    <2>5. AllInOrder'
      BY <2>1 DEF IInv, AllInOrder, IsInternal
    <2> QED BY <2>2, <2>3, <2>4, <2>5 DEF IInv
  <1> QED BY <1>1, <1>2, <1>3, <1>4 DEF Next

----------------------------------------------------------------------------
(* The verdict.                                                            *)

\* A block and all that the walk finds below it are without defect.
Clean(b) ==
  \A x \in Below[file][b] : ~ Defective(op, file, x) /\ ~ Oversized(op, file, x)

\* The i-th entry of block b is in the buffer it is sliced from.
Inside(b, i) == op = "descriptors" => ~ Outside(file, b, i)

\* The walk has got past the i-th identifier of block b.
Passed(b, i) ==
  LET id == file[b].ids[i]
  IN  /\ Inside(b, i)
      /\ \/ op = "descriptors" /\ id = 0
         \/ Exists(file, id) /\ (IsXBlock(file, b) \/ Clean(ClearLSB(id)))

\* The entries of an SLBLOCK are all in its buffer.
LeafInside(b) == IsSLBlock(file, b) => \A i \in DOMAIN file[b].slots : Inside(b, i)

\* The identifiers that frame f is done with are passed, and the one it waits for
\* was in the buffer.
PassedUpTo(f, waiting) ==
  /\ \A i \in 1..Progress(f, waiting) : Passed(f.block, i)
  /\ waiting => Inside(f.block, f.next - 1)

CheckedIn(s, waiting) ==
  \A k \in 1..Len(s) :
    /\ Below[file][s[k].block] \subseteq Below[file][root] /\ LeafInside(s[k].block)
    /\ PassedUpTo(s[k], k < Len(s) \/ waiting)

WalkInv ==
  /\ CheckedIn(stack, Calling)
  /\ Calling => Below[file][node] \subseteq Below[file][root]
  /\ pc = "total" => Clean(root)

LEMMA CleanStays ==
  ASSUME file' = file, op' = op, root' = root
  PROVE  /\ \A b : Clean(b)' <=> Clean(b)
         /\ \A b, i : Passed(b, i)' <=> Passed(b, i)
         /\ \A s, w : CheckedIn(s, w)' <=> CheckedIn(s, w)
  <1>1. \A b : Clean(b)' <=> Clean(b)
    BY DEF Clean
  <1>2. \A b, i : Passed(b, i)' <=> Passed(b, i)
    BY DEF Clean, Passed, Inside
  <1>3. \A f, w : PassedUpTo(f, w)' <=> PassedUpTo(f, w)
    BY <1>2 DEF PassedUpTo, Progress, Inside
  <1>4. ASSUME NEW s, NEW w PROVE CheckedIn(s, w)' <=> CheckedIn(s, w)
    BY <1>3 DEF CheckedIn, LeafInside, Inside
  <1> QED BY <1>1, <1>2, <1>4

\* The frames after a step, from the sequence they are.
LEMMA CheckedAfter ==
  ASSUME file' = file, op' = op, root' = root, NEW s, stack' = s, NEW w \in BOOLEAN,
         Calling' = w, CheckedIn(s, w)
  PROVE  CheckedIn(stack, Calling)'
  <1>1. CheckedIn(s, w)'
    BY CleanStays
  <1>2. CheckedIn(stack, Calling)' <=> CheckedIn(s, w)'
    BY DEF CheckedIn
  <1> QED BY <1>1, <1>2

LEMMA BelowFacts ==
  ASSUME IInv, NEW b \in DOMAIN file
  PROVE  /\ b \in Below[file][b]
         /\ \A c \in Children(file, b) : Below[file][c] \subseteq Below[file][b]
         /\ \A x \in Below[file][b] :
              x = b \/ \E c \in Children(file, b) : x \in Below[file][c]
  BY BelowAssumption DEF IInv, TypeOK

LEMMA OpCases == ASSUME IInv PROVE op = "heap" \/ op = "descriptors"
  BY DEF IInv, TypeOK

\* What the walk accepts is not defective as far as its first bytes go.
LEMMA DefectsOfIds ==
  ASSUME IInv, NEW b, Accepted(b), Defective(op, file, b)
  PROVE  /\ ~ IsSLBlock(file, b)
         /\ \E i \in DOMAIN file[b].ids :
              ~ Exists(file, file[b].ids[i]) /\ ~ (op = "descriptors" /\ file[b].ids[i] = 0)
  BY OpCases DEF Accepted, Defective

\* A loop that has ended leaves its block clean.
LEMMA FinishedClean ==
  ASSUME IInv, WalkInv, pc = "loop", Top.next > Len(TopIds)
  PROVE  Clean(Top.block)
  <1> DEFINE b == Top.block
  <1>1. b \in DOMAIN file /\ Accepted(b) /\ Len(stack) \in 1..Len(stack) /\ Top = stack[Len(stack)]
    BY TopFacts
  <1>2. ASSUME ~ IsSLBlock(file, b), NEW i \in DOMAIN file[b].ids
        PROVE  Passed(b, i)
    <2>1. TopIds = file[b].ids /\ TopIds \in Seq(Nat) /\ Len(TopIds) \in Nat
      BY <1>2, TopFacts DEF TopIds
    <2>2. Top.next \in 1..(Len(TopIds) + 1)
      BY TopFacts DEF Good
    <2>3. i \in 1..(Top.next - 1)
      BY <2>1, <2>2
    <2>4. ~ (Len(stack) < Len(stack) \/ Calling)
      BY <1>1 DEF Calling
    <2>5. PassedUpTo(Top, FALSE)
      BY <1>1, <2>4 DEF WalkInv, CheckedIn
    <2> QED BY <2>3, <2>5 DEF PassedUpTo, Progress
  <1>3. ~ Defective(op, file, b)
    <2> SUFFICES ASSUME Defective(op, file, b) PROVE FALSE
      OBVIOUS
    <2>1. /\ ~ IsSLBlock(file, b)
          /\ \E i \in DOMAIN file[b].ids :
               ~ Exists(file, file[b].ids[i]) /\ ~ (op = "descriptors" /\ file[b].ids[i] = 0)
      BY <1>1, DefectsOfIds
    <2> QED BY <1>2, <2>1 DEF Passed
  <1>5. ~ Oversized(op, file, b)
    <2>1. CASE op = "descriptors"
      <3>1. LeafInside(b)
        <4>1. (Len(stack) < Len(stack) \/ Calling) = FALSE
          BY <1>1 DEF Calling
        <4> QED BY <1>1 DEF WalkInv, CheckedIn
      <3>2. ASSUME NEW i \in 1..EntryCount(file, b) PROVE ~ Outside(file, b, i)
        <4>1. file \in Files /\ file[b].ids \in Seq(Nat) /\ file[b].slots \in Seq(Nat)
          BY <1>1, FileFacts DEF IInv, TypeOK
        <4>2. CASE IsSLBlock(file, b)
          BY <2>1, <3>1, <4>1, <4>2 DEF LeafInside, Inside, EntryCount
        <4>3. CASE ~ IsSLBlock(file, b)
          <5>1. i \in DOMAIN file[b].ids
            BY <4>1, <4>3 DEF EntryCount
          <5> QED BY <1>2, <2>1, <4>3, <5>1 DEF Passed, Inside
        <4> QED BY <4>2, <4>3
      <3> QED BY <1>1, <3>2, InsideFits DEF IInv, TypeOK
    <2> QED BY <2>1 DEF Oversized
  <1>4. ASSUME NEW c \in Children(file, b) PROVE Clean(c)
    <2>1. ~ IsXBlock(file, b) /\ ~ IsSLBlock(file, b) /\ c \in DOMAIN file
      BY <1>4 DEF Children
    <2>2. PICK i \in DOMAIN file[b].ids : c = ClearLSB(file[b].ids[i])
      BY <2>1 DEF Children
    <2>3. file[b].ids[i] # 0
      <3>1. c # 0
        BY <2>1, FileFacts DEF IInv, TypeOK
      <3> QED BY <2>2, <3>1 DEF ClearLSB
    <2> QED BY <1>2, <2>1, <2>2, <2>3 DEF Passed
  <1> QED BY <1>1, <1>3, <1>4, <1>5, BelowFacts DEF Clean

\* What a call that gives up, or panics, knows of the file.
LEMMA BlockBelow ==
  ASSUME IInv, NEW b \in DOMAIN file, Below[file][b] \subseteq Below[file][root]
  PROVE  b \in Below[file][root]
  BY BelowFacts

\* The frames while a loop runs.
LEMMA LoopChecked ==
  ASSUME IInv, WalkInv, pc = "loop"
  PROVE  /\ CheckedIn(stack, FALSE)
         /\ Below[file][Top.block] \subseteq Below[file][root] /\ LeafInside(Top.block)
         /\ PassedUpTo(Top, FALSE)
  <1>1. Calling = FALSE
    BY DEF Calling
  <1>2. CheckedIn(stack, FALSE)
    BY <1>1 DEF WalkInv
  <1>3. Len(stack) \in 1..Len(stack) /\ Top = stack[Len(stack)]
    BY TopFacts
  <1>4. (Len(stack) < Len(stack) \/ FALSE) = FALSE
    BY <1>3
  <1> QED BY <1>2, <1>3, <1>4 DEF CheckedIn

\* The top frame changes, but not its block.
LEMMA ReplaceChecked ==
  ASSUME NEW s \in Seq(Frame), s # <<>>, NEW w, NEW v \in BOOLEAN, NEW g \in Frame,
         g.block = s[Len(s)].block, CheckedIn(s, w), PassedUpTo(g, v)
  PROVE  CheckedIn([s EXCEPT ![Len(s)] = g], v)
  <1> DEFINE t == [s EXCEPT ![Len(s)] = g]
  <1>1. Len(s) \in Nat \ {0}
    BY EmptySeq
  <1>2. Len(t) = Len(s) /\ t[Len(s)] = g /\ \A k \in 1..Len(s) : k # Len(s) => t[k] = s[k]
    BY <1>1
  <1> HIDE DEF t
  <1>3. ASSUME NEW k \in 1..Len(s)
        PROVE  /\ Below[file][t[k].block] \subseteq Below[file][root] /\ LeafInside(t[k].block)
               /\ PassedUpTo(t[k], k < Len(s) \/ v)
    <2>1. CASE k = Len(s)
      <3>1. (k < Len(s) \/ v) = v /\ t[k].block = s[k].block
        BY <1>1, <1>2, <2>1
      <3> QED BY <1>2, <2>1, <3>1 DEF CheckedIn
    <2>2. CASE k # Len(s)
      <3>1. (k < Len(s) \/ v) = TRUE /\ (k < Len(s) \/ w) = TRUE /\ t[k] = s[k]
        BY <1>1, <1>2, <2>2
      <3> QED BY <3>1 DEF CheckedIn
    <2> QED BY <2>1, <2>2
  <1>4. CheckedIn(t, v)
    BY <1>2, <1>3 DEF CheckedIn
  <1> QED BY <1>4 DEF t

\* A step of a loop that is done with its identifier at hand.
LEMMA AdvanceWalk ==
  ASSUME IInv, WalkInv, InLoop, pc' = pc, UNCHANGED <<file, op, root>>,
         NEW e \in Seq(Nat), e = Share(file, Top.block, Top.next),
         stack' = [stack EXCEPT ![Len(stack)] = Advanced(e)],
         Passed(Top.block, Top.next)
  PROVE  WalkInv'
  <1> DEFINE g == Advanced(e)
             s == [stack EXCEPT ![Len(stack)] = g]
  <1>1. pc = "loop" /\ Calling' = FALSE /\ pc' = "loop"
    BY DEF InLoop, Calling
  <1>2. g \in Frame /\ g.block = Top.block /\ g.next = Top.next + 1
    BY AdvancedGood DEF Advanced
  <1>3. stack \in Seq(Frame) /\ stack # <<>> /\ Top = stack[Len(stack)] /\ Top.next \in Nat
    BY <1>1, TopFacts
  <1> HIDE DEF g
  <1>4. PassedUpTo(g, FALSE)
    <2>1. \A i \in 1..(Top.next - 1) : Passed(Top.block, i)
      BY <1>1, LoopChecked DEF PassedUpTo, Progress
    <2>2. \A i \in 1..Top.next : i = Top.next \/ i \in 1..(Top.next - 1)
      BY <1>3
    <2>3. Progress(g, FALSE) = Top.next
      BY <1>2, <1>3 DEF Progress
    <2> QED BY <1>2, <2>1, <2>2, <2>3 DEF PassedUpTo
  <1>5. CheckedIn(s, FALSE)
    BY <1>1, <1>2, <1>3, <1>4, LoopChecked, ReplaceChecked
  <1>6. stack' = s
    BY DEF g
  <1> HIDE DEF s
  <1> QED BY <1>1, <1>5, <1>6, CheckedAfter DEF WalkInv

LEMMA AppendBlockWalk == ASSUME IInv, WalkInv, AppendBlock PROVE WalkInv'
  <1>1. PICK e \in Seq(Nat) : /\ e = Share(file, Top.block, Top.next)
                              /\ stack' = [stack EXCEPT ![Len(stack)] = Advanced(e)]
    BY AppendBlockStep
  <1>2. /\ InLoop /\ pc = "loop" /\ pc' = pc /\ UNCHANGED <<file, op, root>>
        /\ op = "heap" /\ file[Top.block].level = XBlock /\ Exists(file, TopId)
    BY DEF AppendBlock, InLoop, call
  <1>3. IsXBlock(file, Top.block)
    BY <1>2, TopFacts DEF Accepted, IsXBlock
  <1>4. Passed(Top.block, Top.next)
    BY <1>2, <1>3, NextShare DEF Passed, Inside, TopId
  <1> QED BY <1>1, <1>2, <1>4, AdvanceWalk

LEMMA SkipChildWalk == ASSUME IInv, WalkInv, SkipChild PROVE WalkInv'
  <1>1. <<>> \in Seq(Nat)
    OBVIOUS
  <1>2. /\ InLoop /\ pc' = pc /\ UNCHANGED <<file, op, root>>
        /\ op = "descriptors" /\ TopId = 0
    BY DEF SkipChild, call
  <1>3. Passed(Top.block, Top.next)
    BY <1>2, NextShare DEF Passed, Inside, InLoop, OutsideBuffer, TopId
  <1> QED BY <1>1, <1>2, <1>3, SkipChildStep, AdvanceWalk

LEMMA DescendWalk == ASSUME IInv, WalkInv, Descend PROVE WalkInv'
  <1>1. PICK g \in Frame : /\ g.block = Top.block /\ g.next = Top.next + 1
                           /\ stack' = [stack EXCEPT ![Len(stack)] = g]
    BY DescendStep
  <1> DEFINE s == [stack EXCEPT ![Len(stack)] = g]
             c == ClearLSB(TopId)
  <1>2. /\ InLoop /\ pc = "loop" /\ pc' = "header" /\ node' = c /\ c \in DOMAIN file
        /\ UNCHANGED <<file, op, root>> /\ Calling' = TRUE
    BY DEF Descend, InLoop, call, Exists, Calling
  <1>3. stack \in Seq(Frame) /\ stack # <<>> /\ Top = stack[Len(stack)] /\ Top.next \in Nat
    BY <1>2, TopFacts
  <1>4. PassedUpTo(g, TRUE)
    <2>1. Progress(g, TRUE) = Progress(Top, FALSE)
      BY <1>1, <1>3 DEF Progress
    <2>2. g.next - 1 = Top.next /\ g.block = Top.block
      BY <1>1, <1>3
    <2>3. Inside(g.block, g.next - 1)
      BY <1>2, <2>2 DEF Inside, InLoop, OutsideBuffer
    <2> QED BY <1>1, <1>2, <2>1, <2>3, LoopChecked DEF PassedUpTo
  <1>5. CheckedIn(s, TRUE)
    BY <1>1, <1>2, <1>3, <1>4, LoopChecked, ReplaceChecked
  <1>6. c \in Children(file, Top.block) /\ Top.block \in DOMAIN file
    <2>1. ~ IsXBlock(file, Top.block)
      <3>1. Accepted(Top.block)
        BY <1>2, TopFacts
      <3> QED BY <3>1, OpCases DEF Accepted, IsXBlock, Descend, XBlock, XXBlock
    <2>2. Top.next \in DOMAIN file[Top.block].ids /\ TopId = file[Top.block].ids[Top.next]
      BY <1>2, NextShare DEF TopId
    <2> QED BY <1>2, <2>1, <2>2, NextShare, TopFacts DEF Children
  <1>7. Below[file][c] \subseteq Below[file][root]
    BY <1>2, <1>6, BelowFacts, LoopChecked
  <1>8. stack' = s
    BY <1>1
  <1> HIDE DEF s, c
  <1>9. CheckedIn(stack, Calling)'
    BY <1>2, <1>5, <1>8, CheckedAfter
  <1> QED BY <1>2, <1>7, <1>9 DEF WalkInv

\* When a clean child returns, its caller has passed its identifier.
LEMMA ReturnWalk == ASSUME IInv, WalkInv, Return PROVE WalkInv'
  <1>1. pc = "loop" /\ Top.next > Len(TopIds) /\ Len(stack) > 1
        /\ pc' = "loop" /\ Calling' = FALSE /\ UNCHANGED <<file, op, root>>
    BY DEF Return, call, Calling
  <1>2. Clean(Top.block) /\ Top.block \in DOMAIN file /\ Len(stack) \in Nat
    BY <1>1, FinishedClean, TopFacts
  <1>3. PICK s \in Seq(Frame) :
          /\ stack' = s /\ Len(s) = Len(stack) - 1
          /\ \A j \in 1..Len(s) : s[j].block = stack[j].block /\ s[j].next = stack[j].next
          /\ Top.block = Target(stack[Len(stack) - 1])
    BY ReturnStep
  <1>4. ASSUME NEW k \in 1..Len(s)
        PROVE  /\ Below[file][s[k].block] \subseteq Below[file][root] /\ LeafInside(s[k].block)
               /\ PassedUpTo(s[k], k < Len(s) \/ FALSE)
    <2>1. /\ k \in 1..Len(stack) /\ (k < Len(stack) \/ FALSE) = TRUE
          /\ s[k].block = stack[k].block /\ s[k].next = stack[k].next
          /\ s[k].next \in Nat
      <3>1. k \in 1..Len(stack) /\ k < Len(stack)
        BY <1>2, <1>3
      <3>2. s[k] \in Frame
        BY <1>3
      <3> QED BY <1>3, <3>1, <3>2 DEF Frame
    <2>2. /\ Below[file][stack[k].block] \subseteq Below[file][root]
          /\ LeafInside(stack[k].block) /\ PassedUpTo(stack[k], TRUE)
      BY <1>1, <2>1, LoopChecked DEF CheckedIn
    <2>3. /\ \A i \in 1..(s[k].next - 2) : Passed(s[k].block, i)
          /\ Inside(s[k].block, s[k].next - 1)
      BY <2>1, <2>2 DEF PassedUpTo, Progress
    <2>4. CASE k < Len(s)
      <3>1. (k < Len(s) \/ FALSE) = TRUE
        BY <2>4
      <3> QED BY <2>1, <2>2, <2>3, <3>1 DEF PassedUpTo, Progress
    <2>5. CASE ~ k < Len(s)
      <3>1. k = Len(stack) - 1 /\ (k < Len(s) \/ FALSE) = FALSE
        BY <1>2, <1>3, <2>5
      <3>2. Passed(s[k].block, s[k].next - 1)
        BY <1>2, <1>3, <2>1, <2>3, <3>1 DEF Passed, Target, Exists
      <3>3. \A i \in 1..(s[k].next - 1) : i = s[k].next - 1 \/ i \in 1..(s[k].next - 2)
        BY <2>1
      <3>4. PassedUpTo(s[k], FALSE)
        BY <2>3, <3>2, <3>3 DEF PassedUpTo, Progress
      <3> QED BY <2>1, <2>2, <3>1, <3>4
    <2> QED BY <2>4, <2>5
  <1>5. CheckedIn(s, FALSE)
    BY <1>4 DEF CheckedIn
  <1> QED BY <1>1, <1>3, <1>5, CheckedAfter DEF WalkInv

LEMMA ReadEntriesWalk == ASSUME IInv, WalkInv, ReadEntries, pc' = "loop" PROVE WalkInv'
  <1> DEFINE acc == IF IsSLBlock(file, node) THEN file[node].slots ELSE <<>>
             g == [block |-> node, next |-> 1, acc |-> acc]
             s == Append(stack, g)
  <1>1. /\ pc = "entries" /\ pc' = "loop" /\ stack' = s
        /\ UNCHANGED <<file, op, root>> /\ Calling = TRUE /\ Calling' = FALSE
    BY DEF ReadEntries, GiveUp, Panic, Unwind, call, Calling
  <1>2. file \in Files /\ node \in DOMAIN file /\ stack \in Seq(Frame)
    BY <1>1 DEF IInv, TypeOK, CallInv
  <1>9. LeafInside(node)
    BY DEF ReadEntries, GiveUp, Panic, Unwind, LeafInside, Inside
  <1>3. acc \in Seq(Nat) /\ node \in Nat
    BY <1>2, FileFacts
  <1> HIDE DEF acc
  <1>4. g \in Frame /\ g.block = node /\ g.next = 1
    BY <1>3 DEF Frame
  <1> HIDE DEF g
  <1>5. /\ Len(s) = Len(stack) + 1 /\ Len(stack) \in Nat /\ s[Len(stack) + 1] = g
        /\ \A k \in 1..Len(stack) : s[k] = stack[k]
    BY <1>2, <1>4, AppendProperties, LenProperties
  <1> HIDE DEF s
  <1>6. CheckedIn(stack, TRUE) /\ Below[file][node] \subseteq Below[file][root]
    BY <1>1 DEF WalkInv
  <1>7. ASSUME NEW k \in 1..Len(s)
        PROVE  /\ Below[file][s[k].block] \subseteq Below[file][root] /\ LeafInside(s[k].block)
               /\ PassedUpTo(s[k], k < Len(s) \/ FALSE)
    <2>1. CASE k = Len(stack) + 1
      <3>1. (k < Len(s) \/ FALSE) = FALSE /\ s[k] = g
        BY <1>5, <2>1
      <3>2. Progress(g, FALSE) = 0
        BY <1>4 DEF Progress
      <3>3. \A i \in 1..0 : Passed(g.block, i)
        OBVIOUS
      <3>4. PassedUpTo(g, FALSE)
        BY <3>2, <3>3, Zenon DEF PassedUpTo
      <3> QED BY <1>4, <1>6, <1>9, <3>1, <3>4
    <2>2. CASE k # Len(stack) + 1
      <3>1. /\ k \in 1..Len(stack) /\ s[k] = stack[k]
            /\ (k < Len(s) \/ FALSE) = TRUE /\ (k < Len(stack) \/ TRUE) = TRUE
        BY <1>5, <2>2
      <3> QED BY <1>6, <3>1 DEF CheckedIn
    <2> QED BY <2>1, <2>2
  <1>8. CheckedIn(s, FALSE)
    BY <1>7 DEF CheckedIn
  <1> QED BY <1>1, <1>8, CheckedAfter DEF WalkInv

\* A call that ends, or begins, has no frames.
LEMMA NoFrames ==
  ASSUME stack' = <<>>, pc' # "total" \/ Clean(root)', Calling' => node' = root'
  PROVE  WalkInv'
  BY DEF WalkInv, CheckedIn

LEMMA ReturnRootWalk == ASSUME IInv, WalkInv, ReturnRoot PROVE WalkInv' /\ Clean(root)'
  <1>1. /\ pc = "loop" /\ Top.next > Len(TopIds) /\ Len(stack) = 1 /\ stack' = <<>>
        /\ UNCHANGED <<file, op, root>> /\ Calling' = FALSE
    BY DEF ReturnRoot, call, Calling
  <1>2. Top.block = root
    BY <1>1 DEF IInv, CallInv, Top
  <1>3. Clean(root)
    BY <1>1, <1>2, FinishedClean
  <1>4. Clean(root)'
    BY <1>1, <1>3 DEF Clean
  <1> QED BY <1>1, <1>4, NoFrames

LEMMA BeginWalk ==
  ASSUME IInv, NEW o, NEW b, Begin(o, b), pc' # "total"
  PROVE  WalkInv'
  BY NoFrames DEF Begin, IInv, CallInv

LEMMA GiveUpWalk == ASSUME GiveUp \/ Panic PROVE WalkInv'
  BY NoFrames DEF GiveUp, Panic, Unwind, Calling

\* A step that leaves the frames and the call alone.
LEMMA StillWalk ==
  ASSUME WalkInv, UNCHANGED <<file, op, root, node, stack>>, Calling' = Calling, pc' # "total"
  PROVE  WalkInv'
  <1>1. CheckedIn(stack, Calling)'
    BY CleanStays DEF WalkInv, CheckedIn
  <1> QED BY <1>1 DEF WalkInv

LEMMA WalkStep == ASSUME IInv, WalkInv, [Next]_vars PROVE WalkInv'
  <1>1. ASSUME NEW b, GetHeapOnNode(b) PROVE WalkInv'
    BY <1>1, BeginWalk DEF GetHeapOnNode
  <1>2. ASSUME NEW id, GetLocalDescriptors(id) PROVE WalkInv'
    BY <1>2, BeginWalk DEF GetLocalDescriptors
  <1>3. CASE ReadHeader /\ ~ GiveUp
    <2>1. Calling = TRUE /\ Calling' = TRUE
      BY <1>3 DEF ReadHeader, Calling
    <2> QED BY <1>3, <2>1, StillWalk DEF ReadHeader, call
  <1>4. CASE GiveUp \/ Panic
    BY <1>4, GiveUpWalk
  <1>5. /\ NotFound => GiveUp
        /\ SlicePastBuffer => Panic
        /\ ReadEntries => GiveUp \/ Panic \/ pc' = "loop"
    BY DEF NotFound, SlicePastBuffer, ReadEntries
  <1>6. CASE CheckTotal /\ ~ GiveUp
    <2>1. Calling' = FALSE /\ stack' = <<>> /\ pc' = "idle"
      BY <1>6 DEF CheckTotal, Calling, IInv, CallInv
    <2> QED BY <2>1, NoFrames
  <1>7. CASE UNCHANGED vars
    <2>1. CheckedIn(stack, Calling)' <=> CheckedIn(stack, Calling)
      <3>1. UNCHANGED <<file, op, root, stack, pc>> /\ Calling' = Calling
        BY <1>7 DEF vars, call, Calling
      <3>2. CheckedIn(stack, Calling)' <=> CheckedIn(stack, Calling)
        BY <3>1, CleanStays DEF CheckedIn
      <3> QED BY <3>2
    <2>2. UNCHANGED <<file, op, root, node, pc>> /\ Calling' = Calling
      BY <1>7 DEF vars, call, Calling
    <2> QED BY <2>1, <2>2, CleanStays DEF WalkInv
  <1> QED BY <1>1, <1>2, <1>3, <1>4, <1>5, <1>6, <1>7, ReadEntriesWalk, AppendBlockWalk,
             SkipChildWalk, DescendWalk, ReturnWalk, ReturnRootWalk DEF Next, Step

\* A call that gives up has met a defect, unless a read has failed.
LEMMA GiveUpVerdict ==
  ASSUME GiveUp,
         \/ failed'
         \/ \E x \in Below[file][root] : Defective(op, file, x)
         \/ op = "heap" /\ file[root].total # TotalSize(file, Whole(file, root))
  PROVE  Verdict'
  BY DEF Verdict, GiveUp, Unwind, call

\* A call that panics has met a block whose size has wrapped.
LEMMA PanicVerdict ==
  ASSUME Panic, \E x \in Below[file][root] : Oversized(op, file, x)
  PROVE  Verdict'
  BY DEF Verdict, Panic, Unwind, call

LEMMA HeaderVerdict == ASSUME IInv, WalkInv, ReadHeader, GiveUp PROVE Verdict'
  <1>1. CASE failed'
    BY <1>1, GiveUpVerdict
  <1>2. CASE ~ failed'
    <2>1. pc = "header" /\ ~ Accepted(node)
      BY <1>2 DEF ReadHeader, GiveUp, Unwind, ReadFails
    <2>2. node \in DOMAIN file /\ Below[file][node] \subseteq Below[file][root]
      BY <2>1 DEF IInv, CallInv, WalkInv, Calling
    <2>3. Defective(op, file, node)
      BY <2>1, OpCases DEF Accepted, Defective
    <2> QED BY <2>2, <2>3, BlockBelow, GiveUpVerdict
  <1> QED BY <1>1, <1>2

LEMMA EntriesVerdict ==
  ASSUME IInv, WalkInv, ReadEntries, GiveUp \/ Panic
  PROVE  Verdict'
  <1>1. CASE ReadFails /\ GiveUp
    BY <1>1, GiveUpVerdict DEF ReadFails
  <1>2. CASE /\ Panic /\ IsSLBlock(file, node)
             /\ \E i \in DOMAIN file[node].slots : Outside(file, node, i)
    <2>1. /\ pc = "entries" /\ node \in DOMAIN file /\ file \in Files /\ Accepted(node)
          /\ Below[file][node] \subseteq Below[file][root]
      BY DEF ReadEntries, IInv, TypeOK, CallInv, WalkInv, Calling
    <2>2. op = "descriptors"
      BY <1>2, <2>1, OpCases DEF Accepted, IsSLBlock
    <2>3. PICK i \in DOMAIN file[node].slots : Outside(file, node, i)
      BY <1>2
    <2>4. i \in 1..EntryCount(file, node)
      BY <1>2, <2>1, FileFacts DEF EntryCount
    <2>5. Oversized(op, file, node)
      BY <2>1, <2>2, <2>3, <2>4, OutsideOversized
    <2> QED BY <1>2, <2>1, <2>5, BlockBelow, PanicVerdict
  <1>3. CASE pc' = "loop"
    BY <1>3 DEF GiveUp, Panic, Unwind
  <1> QED BY <1>1, <1>2, <1>3 DEF ReadEntries

LEMMA SliceVerdict == ASSUME IInv, WalkInv, SlicePastBuffer PROVE Verdict'
  <1>1. /\ pc = "loop" /\ Top.next <= Len(TopIds) /\ op = "descriptors"
        /\ Outside(file, Top.block, Top.next) /\ Panic
    BY DEF SlicePastBuffer, OutsideBuffer
  <1>2. /\ Top.block \in DOMAIN file /\ Below[file][Top.block] \subseteq Below[file][root]
        /\ Top.next \in 1..(Len(TopIds) + 1) /\ file \in Files
    BY <1>1, TopFacts, LoopChecked DEF Good, IInv, TypeOK
  <1>3. Top.next \in 1..EntryCount(file, Top.block)
    <2>1. TopIds \in Seq(Nat) /\ Len(TopIds) \in Nat
      BY <1>1, TopFacts
    <2>2. ~ IsSLBlock(file, Top.block)
      BY <1>1, <1>2 DEF TopIds
    <2> QED BY <1>1, <1>2, <2>1, <2>2 DEF TopIds, EntryCount
  <1>4. Oversized(op, file, Top.block)
    BY <1>1, <1>2, <1>3, OutsideOversized
  <1> QED BY <1>1, <1>2, <1>4, BlockBelow, PanicVerdict

LEMMA NotFoundVerdict == ASSUME IInv, WalkInv, NotFound PROVE Verdict'
  <1>1. /\ InLoop /\ pc = "loop" /\ GiveUp
        /\ ~ (op = "descriptors" /\ TopId = 0) /\ ~ Exists(file, TopId)
    BY DEF NotFound, InLoop
  <1>2. Top.block \in DOMAIN file /\ Below[file][Top.block] \subseteq Below[file][root]
    BY <1>1, TopFacts, LoopChecked
  <1>3. /\ ~ IsSLBlock(file, Top.block)
        /\ Top.next \in DOMAIN file[Top.block].ids /\ TopId = file[Top.block].ids[Top.next]
    BY <1>1, NextShare DEF TopId
  <1>4. Defective(op, file, Top.block)
    BY <1>1, <1>3 DEF Defective
  <1> QED BY <1>1, <1>2, <1>4, BlockBelow, GiveUpVerdict

LEMMA ReturnRootVerdict == ASSUME IInv, WalkInv, ReturnRoot PROVE Verdict'
  <1>1. pc = "loop" /\ UNCHANGED <<file, op, root>>
    BY DEF ReturnRoot, InLoop, call
  <1>2. root \in DOMAIN file
    BY <1>1 DEF IInv, CallInv
  <1>3. \A x \in Below[file'][root'] :
           ~ Defective(op', file', x) /\ ~ Oversized(op', file', x)
    BY ReturnRootWalk DEF Clean
  <1>4. CASE op = "heap"
    BY <1>4 DEF ReturnRoot, Verdict
  <1>5. CASE op = "descriptors"
    <2>1. Sound(op', file', root')
      BY <1>1, <1>2, <1>3, <1>5 DEF Sound
    <2>2. result' = "ok"
      BY <1>5 DEF ReturnRoot
    <2> QED BY <2>1, <2>2 DEF Verdict
  <1> QED BY <1>4, <1>5, OpCases

LEMMA CheckTotalVerdict == ASSUME IInv, WalkInv, CheckTotal PROVE Verdict'
  <1>1. pc = "total" /\ op = "heap" /\ items = Whole(file, root) /\ root \in DOMAIN file
        /\ Clean(root)
    BY DEF CheckTotal, IInv, CallInv, WalkInv
  <1>2. CASE ReadFails /\ GiveUp
    BY <1>2, GiveUpVerdict DEF ReadFails
  <1>3. CASE file[root].total # TotalSize(file, items) /\ GiveUp
    BY <1>1, <1>3, GiveUpVerdict
  <1>4. CASE /\ file[root].total = TotalSize(file, items) /\ result' = "ok"
             /\ UNCHANGED <<file, call, node, stack, items, calls>>
    <2>1. Sound(op, file, root)
      BY <1>1, <1>4 DEF Sound, Clean
    <2>2. UNCHANGED <<file, op, root>>
      BY <1>4 DEF call
    <2>3. Sound(op', file', root')
      BY <2>1, <2>2
    <2> QED BY <1>4, <2>3 DEF Verdict
  <1> QED BY <1>2, <1>3, <1>4 DEF CheckTotal

LEMMA VerdictStep == ASSUME IInv, WalkInv, Verdict, [Next]_vars PROVE Verdict'
  <1>1. ASSUME NEW b, GetHeapOnNode(b) PROVE Verdict'
    BY <1>1 DEF GetHeapOnNode, Begin, Verdict, IsInternal
  <1>2. ASSUME NEW id, GetLocalDescriptors(id) PROVE Verdict'
    <2>1. /\ op' = "descriptors" /\ root' = ClearLSB(id) /\ file' = file
          /\ \/ id = 0 /\ pc' = "idle" /\ result' = "ok"
             \/ ~ Exists(file, id) /\ pc' = "idle" /\ result' = "error"
             \/ pc' = "header"
      BY <1>2 DEF GetLocalDescriptors, Begin
    <2>2. CASE id = 0
      <3>1. root' = 0
        BY <2>1, <2>2 DEF ClearLSB
      <3> QED BY <3>1 DEF Verdict
    <2>3. CASE ~ Exists(file, id) /\ result' = "error"
      BY <2>1, <2>3 DEF Verdict, Exists
    <2>4. CASE pc' = "header"
      BY <2>4 DEF Verdict
    <2> QED BY <2>1, <2>2, <2>3, <2>4
  <1>3. CASE ReadHeader /\ ~ GiveUp
    BY <1>3 DEF ReadHeader, Verdict
  <1>4. CASE ReadEntries /\ ~ (GiveUp \/ Panic)
    BY <1>4 DEF ReadEntries, Verdict
  <1>5. CASE AppendBlock \/ SkipChild \/ Descend \/ Return
    BY <1>5 DEF AppendBlock, SkipChild, Descend, Return, InLoop, Verdict
  <1>6. CASE UNCHANGED vars
    BY <1>6 DEF vars, call, Verdict, IsInternal
  <1> QED BY <1>1, <1>2, <1>3, <1>4, <1>5, <1>6, HeaderVerdict, EntriesVerdict,
             NotFoundVerdict, SliceVerdict, ReturnRootVerdict, CheckTotalVerdict DEF Next, Step

----------------------------------------------------------------------------
(* The theorems.                                                           *)

\* The invariant of the two walks holds in every reachable state: every frame
\* of the recursion has collected what its loop has passed, and a frame that
\* waits is owed all that the child it called for stands for.
THEOREM Invariance == Spec => []IInv
  <1>1. ASSUME Init PROVE IInv
    <2>1. TypeOK
      <3>1. <<>> \in Seq(Frame) /\ <<>> \in Seq(Nat) /\ 0 \in 0..MaxCalls /\ 0 \in 0..MaxFaults
        BY BoundsAssumption
      <3> QED BY <1>1, <3>1 DEF Init, TypeOK
    <2>2. CallInv
      BY <1>1 DEF Init, CallInv, Calling
    <2>3. StackInv
      BY <1>1 DEF Init, StackInv, Frames
    <2>4. AllInOrder
      BY <1>1 DEF Init, AllInOrder
    <2> QED BY <2>1, <2>2, <2>3, <2>4 DEF IInv
  <1>2. IInv /\ [Next]_vars => IInv'
    BY NextInv
  <1> QED BY <1>1, <1>2, PTL DEF Spec

\* The state variables of the walks of blocks.go and local_descriptors.go keep
\* their types, whatever the files hold.
THEOREM TypeCorrectness == Spec => []TypeOK
  <1>1. IInv => TypeOK
    BY DEF IInv
  <1> QED BY <1>1, Invariance, PTL

\* At every moment each frame of the recursion holds what its finished
\* identifiers stand for, and the call below it is the one it asked for: the
\* loops of GetBlocks and of GetLocalDescriptorsFromIdentifier never drop,
\* repeat or mix up what a child returned, at any depth.
THEOREM CollectedAlways == Spec => []Collected
  <1>1. IInv => Collected
    BY DEF IInv, StackInv, Frames, Calling, Good, Progress, Target, Collected
  <1> QED BY <1>1, Invariance, PTL

\* GetHeapOnNode and GetLocalDescriptors succeed with all of the tree, in the
\* order of the file, for every file and every depth.
THEOREM CompleteAndInOrder == Spec => []AllInOrder
  <1>1. IInv => AllInOrder
    BY DEF IInv
  <1> QED BY <1>1, Invariance, PTL

\* GetHeapOnNode and GetLocalDescriptors succeed only on a tree that is sound in
\* every block they reach, fail only on a defective one or after a failed read,
\* and panic only where an entry count times the entry size wraps, for every file,
\* every depth and every word and entry size.
THEOREM VerdictIsRight == Spec => []Verdict
  <1>1. Init => WalkInv
    BY DEF Init, WalkInv, CheckedIn, Calling
  <1>2. Init => Verdict
    BY DEF Init, Verdict
  <1>3. IInv /\ WalkInv /\ [Next]_vars => WalkInv'
    BY WalkStep
  <1>4. IInv /\ WalkInv /\ Verdict /\ [Next]_vars => Verdict'
    BY VerdictStep
  <1> QED BY <1>1, <1>2, <1>3, <1>4, Invariance, PTL DEF Spec

=============================================================================
