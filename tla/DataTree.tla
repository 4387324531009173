----------------------------- MODULE DataTree -----------------------------
(***************************************************************************)
(* The two trees that hang off a node's entry (blocks.go, heap_on_node.go, *)
(* local_descriptors.go): the data tree, XXBLOCK over XBLOCK over data     *)
(* blocks, which GetHeapOnNode collects into one heap, and the local       *)
(* descriptors, SIBLOCK over SLBLOCK.  Both are read recursively; the call *)
(* stack is the variable stack.  Reads may fail, and files may be damaged. *)
(*                                                                         *)
(* A file maps the identifier of each block in its block b-tree to         *)
(*   [size, sig, level, total, ids, slots]                                 *)
(* where sig and level are the first two bytes, ids the identifiers an     *)
(* intermediate block holds and slots the entries of an SLBLOCK, as many of *)
(* either as the block's entry count says.                                 *)
(***************************************************************************)
EXTENDS Integers, Sequences, SequencesExt

CONSTANTS
  Word,       \* 2^16: the entry count and what it is multiplied by are uint16
  SIEntrySize, SLEntrySize,   \* bytes of an entry of a SIBLOCK and an SLBLOCK
  Files,      \* the files considered
  Upto,       \* Upto[f][b][i]: what the first i identifiers of block b stand for
  Below,      \* Below[f][b]: the intermediate blocks at or below b
  MaxCalls,   \* bound on calls
  MaxFaults   \* bound on failing reads

\* identifier & 0xfffffffe, by GetBlockBTreeNode
ClearLSB(id) == id - (id % 2)

Exists(f, id) == ClearLSB(id) \in DOMAIN f

\* Identifier & 0x02
IsInternal(id) == (id \div 2) % 2 = 1

XBlock == 1
XXBlock == 2

IsXBlock(f, b) == f[b].sig = 1 /\ f[b].level = XBlock
IsSLBlock(f, b) == f[b].sig = 2 /\ f[b].level = 0

EntrySize(f, b) == IF IsSLBlock(f, b) THEN SLEntrySize ELSE SIEntrySize
EntryCount(f, b) == IF IsSLBlock(f, b) THEN Len(f[b].slots) ELSE Len(f[b].ids)

\* Seeded fault: every buffer is made for the entries of a SIBLOCK.
BufferLengthSI(f, b) == (EntryCount(f, b) * SIEntrySize) % Word

\* The buffer for the entries of a SIBLOCK or SLBLOCK is made of
\* entryCount * entrySize bytes, a product of 16 bits.
BufferLength(f, b) == (EntryCount(f, b) * EntrySize(f, b)) % Word

\* The i-th entry is outside the buffer: slicing it panics.
Outside(f, b, i) == i * EntrySize(f, b) > BufferLength(f, b)

\* All that block b stands for.
Whole(f, b) == IF IsSLBlock(f, b) THEN f[b].slots ELSE Upto[f][b][Len(f[b].ids)]

\* What the i-th identifier of block b stands for.
Share(f, b, i) ==
  LET id == f[b].ids[i] IN
  IF IsXBlock(f, b) THEN <<ClearLSB(id)>>
  ELSE IF f[b].sig = 2 /\ id = 0 THEN <<>>
  ELSE IF Exists(f, id) THEN Whole(f, ClearLSB(id)) ELSE <<>>

Content ==
  [size : Nat, sig : Nat, level : Nat, total : Nat, ids : Seq(Nat), slots : Seq(Nat)]

\* Identifier 0 names no block.
ASSUME FilesAssumption ==
  \A f \in Files :
    /\ DOMAIN f \subseteq Nat \ {0}
    /\ \A b \in DOMAIN f :
         /\ f[b] \in Content
         /\ Upto[f][b][0] = <<>>
         /\ \A i \in 1..Len(f[b].ids) :
              Upto[f][b][i] = Upto[f][b][i - 1] \o Share(f, b, i)

\* The children of b that are read in turn.
Children(f, b) ==
  IF IsXBlock(f, b) \/ IsSLBlock(f, b) THEN {}
  ELSE {ClearLSB(f[b].ids[i]) : i \in DOMAIN f[b].ids} \cap DOMAIN f

ASSUME BelowAssumption ==
  \A f \in Files : \A b \in DOMAIN f :
    Below[f][b] = {b} \cup UNION {Below[f][c] : c \in Children(f, b)}

ASSUME BoundsAssumption == MaxCalls \in Nat /\ MaxFaults \in Nat

ASSUME SizesAssumption ==
  Word \in Nat \ {0} /\ SIEntrySize \in Nat \ {0} /\ SLEntrySize \in Nat \ {0}

VARIABLES
  file,
  pc,       \* "idle", "header", "entries", "loop", "total"
  op,       \* "heap" (GetHeapOnNode) or "descriptors" (GetLocalDescriptors)
  root,     \* the block the call began with
  node,     \* the block being read
  stack,    \* the calls in progress, innermost last
  items,    \* what the outermost call returned
  result,   \* "none", "ok", "error" or "panic"
  calls, faults,
  failed    \* a read of this call has failed (history)

call == <<op, root>>
vars == <<file, pc, call, node, stack, items, result, calls, faults, failed>>

Init ==
  /\ file \in Files
  /\ pc = "idle" /\ op = "heap" /\ root = 0 /\ node = 0
  /\ stack = <<>> /\ items = <<>> /\ result = "none"
  /\ calls = 0 /\ faults = 0 /\ failed = FALSE

ReadOK == UNCHANGED <<faults, failed>>
ReadFails == faults < MaxFaults /\ faults' = faults + 1 /\ failed' = TRUE

\* An error, or a panic, is passed up through all calls; what they collected is
\* dropped.
Unwind(r) ==
  /\ pc' = "idle" /\ result' = r /\ stack' = <<>>
  /\ UNCHANGED <<file, call, node, items, calls>>

GiveUp == Unwind("error")

Panic == Unwind("panic")

----------------------------------------------------------------------------
(* The calls.                                                              *)

Begin(o, b) ==
  /\ pc = "idle" /\ calls < MaxCalls
  /\ calls' = calls + 1
  /\ op' = o /\ root' = b /\ node' = b
  /\ failed' = FALSE
  /\ UNCHANGED <<file, stack, faults>>

\* GetHeapOnNode of a b-tree node: a data block is the whole heap.
GetHeapOnNode(b) ==
  /\ Begin("heap", b)
  /\ IF IsInternal(b)
     THEN pc' = "header" /\ items' = <<>> /\ result' = "none"
     ELSE pc' = "idle" /\ items' = <<b>> /\ result' = "ok"

\* GetLocalDescriptorsFromIdentifier
GetLocalDescriptors(id) ==
  /\ Begin("descriptors", ClearLSB(id))
  /\ items' = <<>>
  /\ IF id = 0 THEN pc' = "idle" /\ result' = "ok"
     ELSE IF ~ Exists(file, id) THEN pc' = "idle" /\ result' = "error"
     ELSE pc' = "header" /\ result' = "none"

----------------------------------------------------------------------------
(* The recursion.                                                          *)

Accepted(b) ==
  IF op = "heap" THEN file[b].sig = 1 /\ file[b].level \in {XBlock, XXBlock}
                 ELSE file[b].sig = 2

\* GetBlocks, GetLocalDescriptorsFromIdentifier: signature, level and count.
ReadHeader ==
  /\ pc = "header"
  /\ \/ ReadFails /\ GiveUp
     \/ ReadOK /\ ~ Accepted(node) /\ GiveUp
     \/ /\ ReadOK /\ Accepted(node)
        /\ pc' = "entries"
        /\ UNCHANGED <<file, call, node, stack, items, result, calls>>

\* The array of identifiers is read; that of an SLBLOCK is parsed at once.
ReadEntries ==
  /\ pc = "entries"
  /\ \/ ReadFails /\ GiveUp
     \/ /\ ReadOK /\ IsSLBlock(file, node)
        /\ \E i \in DOMAIN file[node].slots : Outside(file, node, i)
        /\ Panic
     \/ /\ ReadOK
        /\ IsSLBlock(file, node) =>
             \A i \in DOMAIN file[node].slots : ~ Outside(file, node, i)
        /\ pc' = "loop"
        /\ stack' = Append(stack,
             [block |-> node, next |-> 1,
              acc |-> IF IsSLBlock(file, node) THEN file[node].slots ELSE <<>>])
        /\ UNCHANGED <<file, call, node, items, result, calls>>

Top == stack[Len(stack)]
TopIds == IF IsSLBlock(file, Top.block) THEN <<>> ELSE file[Top.block].ids
TopId == TopIds[Top.next]

\* GetBlocks computes the length of its array as an int.
OutsideBuffer == op = "descriptors" /\ Outside(file, Top.block, Top.next)

\* The loop has an identifier at hand.
InLoop == pc = "loop" /\ Top.next <= Len(TopIds) /\ ~ OutsideBuffer

\* The loop of a SIBLOCK reaches past its buffer.
SlicePastBuffer ==
  /\ pc = "loop" /\ Top.next <= Len(TopIds) /\ OutsideBuffer
  /\ ReadOK /\ Panic

NotFound ==
  /\ InLoop
  /\ ~ (op = "descriptors" /\ TopId = 0)
  /\ ~ Exists(file, TopId)
  /\ ReadOK /\ GiveUp

\* The loop of an XBLOCK: the data block is looked up and added.
AppendBlock ==
  /\ InLoop /\ op = "heap" /\ file[Top.block].level = XBlock
  /\ Exists(file, TopId)
  /\ stack' = [stack EXCEPT ![Len(stack)].next = @ + 1,
                            ![Len(stack)].acc = Append(@, ClearLSB(TopId))]
  /\ ReadOK
  /\ UNCHANGED <<file, pc, call, node, items, result, calls>>

\* Seeded fault: the identifier is skipped but the loop does not move on.
SkipChildInPlace ==
  /\ InLoop /\ op = "descriptors" /\ TopId = 0
  /\ ReadOK
  /\ UNCHANGED <<file, pc, call, node, stack, items, result, calls>>

\* The loop of a SIBLOCK: an identifier 0 has no local descriptors.
SkipChild ==
  /\ InLoop /\ op = "descriptors" /\ TopId = 0
  /\ stack' = [stack EXCEPT ![Len(stack)].next = @ + 1]
  /\ ReadOK
  /\ UNCHANGED <<file, pc, call, node, items, result, calls>>

\* The loop of an XXBLOCK or SIBLOCK: the child is looked up and walked.
Descend ==
  /\ InLoop
  /\ op = "heap" => file[Top.block].level = XXBlock
  /\ op = "descriptors" => TopId # 0
  /\ Exists(file, TopId)
  /\ node' = ClearLSB(TopId)
  /\ stack' = [stack EXCEPT ![Len(stack)].next = @ + 1]
  /\ pc' = "header"
  /\ ReadOK
  /\ UNCHANGED <<file, call, items, result, calls>>

\* Seeded fault: what a child returned is put in front.
ReturnInFront ==
  /\ pc = "loop" /\ Top.next > Len(TopIds) /\ Len(stack) > 1
  /\ stack' = [SubSeq(stack, 1, Len(stack) - 1)
                 EXCEPT ![Len(stack) - 1].acc = Top.acc \o @]
  /\ ReadOK
  /\ UNCHANGED <<file, pc, call, node, items, result, calls>>

\* A call returns, and its caller appends what it got.
Return ==
  /\ pc = "loop" /\ Top.next > Len(TopIds) /\ Len(stack) > 1
  /\ stack' = [SubSeq(stack, 1, Len(stack) - 1)
                 EXCEPT ![Len(stack) - 1].acc = @ \o Top.acc]
  /\ ReadOK
  /\ UNCHANGED <<file, pc, call, node, items, result, calls>>

\* The outermost call returns.
ReturnRoot ==
  /\ pc = "loop" /\ Top.next > Len(TopIds) /\ Len(stack) = 1
  /\ items' = Top.acc /\ stack' = <<>>
  /\ IF op = "heap" THEN pc' = "total" /\ UNCHANGED result
                    ELSE pc' = "idle" /\ result' = "ok"
  /\ ReadOK
  /\ UNCHANGED <<file, call, node, calls>>

TotalSize(f, s) == FoldSeq(LAMBDA b, sum : f[b].size + sum, 0, s)

\* GetHeapOnNode compares the sizes with GetBlocksTotalSize.
CheckTotal ==
  /\ pc = "total"
  /\ \/ ReadFails /\ GiveUp
     \/ ReadOK /\ file[root].total # TotalSize(file, items) /\ GiveUp
     \/ /\ ReadOK /\ file[root].total = TotalSize(file, items)
        /\ pc' = "idle" /\ result' = "ok"
        /\ UNCHANGED <<file, call, node, stack, items, calls>>

Step ==
  \/ ReadHeader \/ ReadEntries \/ SlicePastBuffer \/ NotFound \/ AppendBlock
  \/ SkipChild \/ Descend \/ Return \/ ReturnRoot \/ CheckTotal

Next ==
  \/ \E b \in DOMAIN file : GetHeapOnNode(b)
  \/ \E id \in (UNION {DOMAIN f : f \in Files}) \cup {0} : GetLocalDescriptors(id)
  \/ Step

\* The recursion runs on the caller's goroutine.
Spec == Init /\ [][Next]_vars /\ WF_vars(Step)

----------------------------------------------------------------------------
(* Properties.                                                             *)

Frame == [block : Nat, next : Nat, acc : Seq(Nat)]

\* The state variables have their types.
TypeOK ==
  /\ file \in Files
  /\ pc \in {"idle", "header", "entries", "loop", "total"}
  /\ op \in {"heap", "descriptors"} /\ root \in Nat /\ node \in Nat
  /\ stack \in Seq(Frame)
  /\ items \in Seq(Nat) /\ result \in {"none", "ok", "error", "panic"}
  /\ calls \in 0..MaxCalls /\ faults \in 0..MaxFaults /\ failed \in BOOLEAN

\* The frame of every call in progress holds what the identifiers it is done
\* with stand for, and the call below it is the one for the identifier at hand.
Collected ==
  \A k \in 1..Len(stack) :
    LET frame == stack[k]
        waiting == k < Len(stack) \/ pc \in {"header", "entries"}
        done == IF waiting THEN frame.next - 2 ELSE frame.next - 1
    IN  /\ frame.acc = IF IsSLBlock(file, frame.block) THEN file[frame.block].slots
                       ELSE Upto[file][frame.block][done]
        /\ k < Len(stack) =>
             stack[k + 1].block = ClearLSB(file[frame.block].ids[frame.next - 1])

\* GetHeapOnNode and GetLocalDescriptors succeed with all of the tree, in the
\* order of the file, or they fail: a part of it is never returned.
AllInOrder ==
  pc = "idle" /\ result = "ok" =>
    items = IF op = "heap" /\ ~ IsInternal(root) THEN <<root>>
            ELSE IF op = "descriptors" /\ root = 0 THEN <<>>
            ELSE Whole(file, root)

\* A block that a walk of kind o cannot get past.
Defective(o, f, b) ==
  \/ o = "heap" /\ ~ (f[b].sig = 1 /\ f[b].level \in {XBlock, XXBlock})
  \/ o = "descriptors" /\ f[b].sig # 2
  \/ /\ ~ IsSLBlock(f, b)
     /\ \E i \in DOMAIN f[b].ids :
          /\ ~ Exists(f, f[b].ids[i])
          /\ ~ (o = "descriptors" /\ f[b].ids[i] = 0)

\* A block of local descriptors whose entries do not fit in a uint16.
Oversized(o, f, b) ==
  o = "descriptors" /\ EntryCount(f, b) * EntrySize(f, b) >= Word

\* The tree below b is what its format says.
Sound(o, f, b) ==
  /\ b \in DOMAIN f
  /\ \A x \in Below[f][b] : ~ Defective(o, f, x) /\ ~ Oversized(o, f, x)
  /\ o = "heap" => f[b].total = TotalSize(f, Whole(f, b))

\* A call succeeds only on a sound tree, however deep the damage of another is.
\* It fails only on a defective one or because a read of its own has failed, and
\* it panics only on one with a block whose entry count times the entry size is
\* beyond 16 bits.
Verdict ==
  pc = "idle" /\ root # 0 /\ (op = "heap" => IsInternal(root)) =>
    /\ result = "ok" => Sound(op, file, root)
    /\ result = "error" =>
         \/ failed \/ root \notin DOMAIN file
         \/ \E x \in Below[file][root] : Defective(op, file, x)
         \/ op = "heap" /\ file[root].total # TotalSize(file, Whole(file, root))
    /\ result = "panic" => \E x \in Below[file][root] : Oversized(op, file, x)

\* Every call returns.
CallReturns == pc # "idle" ~> pc = "idle"

============================================================================
