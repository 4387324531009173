------------------------------ MODULE HeapItem ------------------------------
(***************************************************************************)
(* From an HNID to data (heap_on_node.go, local_descriptors.go): a local   *)
(* descriptor with that identifier leads to a node of its own; otherwise   *)
(* the identifier is a HID, the number of a block of the heap and of an    *)
(* item in it.  Each block has a page map, an array of the offsets at      *)
(* which its items begin, with one more for the end of the last.           *)
(*                                                                         *)
(* The page map is read through the reader over all blocks, the item only  *)
(* from its own block.                                                     *)
(***************************************************************************)
EXTENDS Integers, Sequences

CONSTANTS
  Heaps, HNIDs,
  Descriptors,  \* the lists of local descriptors
  Garbage,      \* what a word that is no part of a page map may be
  MaxFaults     \* bound on failing reads

\* Block b has size bytes, its page map is at map and lists starts.
Block == [size : Nat, map : Nat, starts : Seq(Nat)]

\* A heap or node identifier; type 0 is that of a HID.
HNID == [type : 0..31, index : 0..2047, block : Nat]

\* What a local descriptor leads to: a node that is found, one that is not in the
\* block b-tree, one whose blocks do not give a heap.
Descriptor == [id : HNID, node : {"sound", "unknown", "damaged"}]

HeapItemAssumption ==
  /\ Heaps \subseteq Seq(Block) /\ HNIDs \subseteq HNID
  /\ Descriptors \subseteq Seq(Descriptor)
  /\ Garbage \subseteq Nat /\ Garbage # {} /\ MaxFaults \in Nat

VARIABLES
  heap, hnid, local,
  pc,          \* "hnid", "node", "hid", "map", "start", "end", "done"
  node,        \* the index of the local descriptor found, 0 for none
  blockOffset, pageMapOffset, startOffset, endOffset,
  result, faults

offsets == <<blockOffset, pageMapOffset, startOffset, endOffset>>
vars == <<heap, hnid, local, pc, node, offsets, result, faults>>

Init ==
  /\ heap \in Heaps /\ hnid \in HNIDs /\ local \in Descriptors
  /\ pc = "hnid" /\ node = 0
  /\ blockOffset = 0 /\ pageMapOffset = 0 /\ startOffset = 0 /\ endOffset = 0
  /\ result = "none" /\ faults = 0

ReadOK == UNCHANGED faults
ReadFails == faults < MaxFaults /\ faults' = faults + 1

Returns(r) ==
  /\ pc' = "done" /\ result' = r
  /\ UNCHANGED <<heap, hnid, local, node, offsets>>

----------------------------------------------------------------------------
(* The heap.                                                               *)

\* BlockOffsets of block b, counted from 0, and with Len(heap) the end of the last.
BlockOffsets[b \in 0..Len(heap)] == IF b = 0 THEN 0 ELSE BlockOffsets[b - 1] + heap[b].size

Size == BlockOffsets[Len(heap)]

\* The words that ReadAt may deliver at o.
Words(o) ==
  LET b == CHOOSE i \in DOMAIN heap : BlockOffsets[i - 1] <= o /\ o < BlockOffsets[i]
      at == o - BlockOffsets[b - 1]
      slot == (at - heap[b].map - 2) \div 2
  IN  IF at = 0 THEN {heap[b].map}
      ELSE IF at = heap[b].map + 2 + 2 * slot /\ slot \in DOMAIN heap[b].starts
           THEN {heap[b].starts[slot]} ELSE Garbage

\* A word is read at o into the variable named v.
ReadWord(o, v, label) ==
  \/ ReadFails /\ Returns("error")
  \/ ReadOK /\ o + 2 > Size /\ Returns("error")
  \/ /\ ReadOK /\ o + 2 <= Size
     /\ \E w \in Words(o) :
          /\ pageMapOffset' = IF v = "map" THEN w ELSE pageMapOffset
          /\ startOffset' = IF v = "start" THEN w ELSE startOffset
          /\ endOffset' = IF v = "end" THEN w ELSE endOffset
     /\ pc' = label
     /\ UNCHANGED <<heap, hnid, local, node, blockOffset, result>>

----------------------------------------------------------------------------
(* GetHeapOnNodeReaderFromHNID.                                            *)

Matches(n) == local[n].id = hnid

\* FindLocalDescriptor returns the first.
FindLocalDescriptor(n) == Matches(n) /\ \A m \in 1..(n - 1) : ~ Matches(m)

Find ==
  /\ pc = "hnid"
  /\ \/ /\ \E n \in DOMAIN local : FindLocalDescriptor(n) /\ node' = n
        /\ pc' = "node"
     \/ /\ \A n \in DOMAIN local : ~ Matches(n)
        /\ pc' = "hid" /\ UNCHANGED node
  /\ UNCHANGED <<heap, hnid, local, offsets, result, faults>>

\* GetHeapOnNodeFromLocalDescriptor: the block b-tree is in memory, the blocks of
\* the node are read.
GetNode ==
  /\ pc = "node"
  /\ \/ ReadOK /\ local[node].node # "sound" /\ Returns("error")
     \/ ReadFails /\ local[node].node # "unknown" /\ Returns("error")
     \/ ReadOK /\ local[node].node = "sound" /\ Returns("node")

----------------------------------------------------------------------------
(* GetHeapOnNodeReaderFromHID.                                             *)

BlockKnown == hnid.block = 0 \/ hnid.block <= Len(heap)

\* The test lets the number of blocks through, and the slices end there.
Panics == hnid.block > 0 /\ hnid.block = Len(heap)

GetBlock ==
  /\ pc = "hid"
  /\ \/ ReadOK /\ (hnid.type # 0 \/ ~ BlockKnown) /\ Returns("error")
     \/ ReadOK /\ hnid.type = 0 /\ BlockKnown /\ Panics /\ Returns("panic")
     \/ /\ ReadOK /\ hnid.type = 0 /\ BlockKnown /\ ~ Panics
        /\ pc' = "map" /\ blockOffset' = BlockOffsets[hnid.block]
        /\ UNCHANGED <<heap, hnid, local, node, pageMapOffset, startOffset, endOffset, result>>

ReadPageMapOffset == pc = "map" /\ ReadWord(blockOffset, "map", "start")

\* Seeded fault: the page map is looked for in the first block.
AllocationOffsetFirst == pageMapOffset + 2 * hnid.index + 2

\* Where the page map, past its two counts, has the start of the item.
AllocationOffset == blockOffset + pageMapOffset + 2 * hnid.index + 2

ReadStart == pc = "start" /\ ReadWord(AllocationOffset, "start", "end")

ReadEnd == pc = "end" /\ ReadWord(AllocationOffset + 2, "end", "item")

\* The offsets are those in the one block.
ReturnItem == pc = "item" /\ ReadOK /\ Returns("item")

Next ==
  Find \/ GetNode \/ GetBlock \/ ReadPageMapOffset \/ ReadStart \/ ReadEnd \/ ReturnItem

Spec == Init /\ [][Next]_vars

----------------------------------------------------------------------------
(* Properties.                                                             *)

\* The state variables have their types.
TypeOK ==
  /\ heap \in Heaps /\ hnid \in HNIDs /\ local \in Descriptors
  /\ pc \in {"hnid", "node", "hid", "map", "start", "end", "item", "done"}
  /\ node \in 0..Len(local) /\ (pc = "node" => node # 0)
  /\ blockOffset \in {0} \cup {BlockOffsets[b - 1] : b \in DOMAIN heap}
  /\ pageMapOffset \in Nat /\ startOffset \in Nat /\ endOffset \in Nat
  /\ result \in {"none", "item", "node", "error", "panic"} /\ faults \in 0..MaxFaults

\* The page maps lie in their blocks.
Sound ==
  \A b \in DOMAIN heap :
    /\ heap[b].starts # <<>> /\ heap[b].map >= 2
    /\ heap[b].map + 4 + 2 * Len(heap[b].starts) <= heap[b].size

\* The identifier is that of an item of the heap.
Addresses ==
  /\ hnid.type = 0 /\ hnid.block < Len(heap)
  /\ hnid.index \in 1..(Len(heap[hnid.block + 1].starts) - 1)

\* The identifier of an item gives exactly that item: its start and its end as
\* the page map of its own block has them, in whichever block that is.
ItemAddressed ==
  result = "item" /\ Sound /\ Addresses =>
    LET starts == heap[hnid.block + 1].starts
    IN  startOffset = starts[hnid.index] /\ endOffset = starts[hnid.index + 1]

\* A node with the identifier goes before an item, and nothing else does: an item
\* is never taken for a node or a node for an item.
NodeBeforeItem ==
  /\ result = "node" =>
       /\ local[node].id = hnid /\ local[node].node = "sound"
       /\ \A n \in 1..(node - 1) : local[n].id # hnid
  /\ result = "item" => hnid \notin {local[n].id : n \in DOMAIN local}

\* An identifier of an item or of a sound node gives no error unless a read
\* fails.  The only panic is that of a block index equal to the number of blocks,
\* which the test of heap_on_node.go:137 lets through, and then no item was at stake.
ErrorsExplained ==
  /\ result = "error" /\ Sound =>
       \/ faults > 0
       \/ (node # 0 /\ local[node].node # "sound")
       \/ (node = 0 /\ ~ Addresses)
  /\ result = "panic" => node = 0 /\ hnid.block = Len(heap)

=============================================================================
