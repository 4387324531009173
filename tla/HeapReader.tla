---------------------------- MODULE HeapReader ----------------------------
(***************************************************************************)
(* HeapOnNodeReader (heap_on_node_reader.go): one io.ReaderAt over the     *)
(* blocks that hold a Heap-on-Node.                                        *)
(*                                                                         *)
(* Block b has size[b] bytes; the byte at position l of block b is the     *)
(* pair <<b, l>>.  What decoding makes of a byte depends on that byte only *)
(* and is left out; an encryption the code does not know ends the read.    *)
(***************************************************************************)
EXTENDS Integers, Sequences

CONSTANTS
  BlockLists,  \* the lists of block sizes considered
  MaxOffset,   \* bound on the offsets read at
  MaxWant,     \* bound on the length of a read
  MaxReads,    \* bound on the number of reads
  Faulty       \* TRUE: a read of the file may fail

ASSUME HeapReaderAssumption ==
  /\ BlockLists \subseteq Seq(Nat)
  /\ MaxOffset \in Nat /\ MaxWant \in Nat /\ MaxReads \in Nat
  /\ Faulty \in BOOLEAN

Encryptions == {"none", "permute", "other"}

VARIABLES
  size,        \* the sizes of the blocks
  encryption,
  pc,          \* "new", "ready", "loop"
  offsets,     \* BlockOffsets, while "new" those of the blocks counted so far
  total,       \* TotalBlockSize, while "new" blockOffset
  off, want,   \* the read in progress: offset and length of the buffer
  part,        \* the index of parts[0]
  needSkip,
  out,         \* the bytes delivered; their number is the n that is returned
  result,      \* how the last read returned, "none" before that
  reads

vars == <<size, encryption, pc, offsets, total, off, want, part, needSkip, out,
          result, reads>>
reader == <<size, encryption, offsets, total>>

Init ==
  /\ size \in BlockLists /\ encryption \in Encryptions
  /\ pc = "new" /\ offsets = <<>> /\ total = 0
  /\ off = 0 /\ want = 0 /\ part = 1 /\ needSkip = 0 /\ out = <<>>
  /\ result = "none" /\ reads = 0

\* NewHeapOnNodeReader: one turn of the loop over the blocks.
CountBlock ==
  /\ pc = "new" /\ Len(offsets) < Len(size)
  /\ offsets' = Append(offsets, total)
  /\ total' = total + size[Len(offsets) + 1]
  /\ UNCHANGED <<size, encryption, pc, off, want, part, needSkip, out, result, reads>>

NewHeapOnNodeReader ==
  /\ pc = "new" /\ Len(offsets) = Len(size)
  /\ pc' = "ready"
  /\ UNCHANGED <<reader, off, want, part, needSkip, out, result, reads>>

\* Block i contributes bytes from offset o on.
Contributes(i, o) == offsets[i] + size[i] > o

\* What sort.Search may return: a place where the predicate turns true.
SearchResults(o) ==
  {s \in 1..(Len(size) + 1) :
     /\ s <= Len(size) => Contributes(s, o)
     /\ s > 1 => ~ Contributes(s - 1, o)}

\* ReadAt, up to its loop.
ReadAt(o, w) ==
  /\ pc = "ready" /\ reads < MaxReads
  /\ pc' = "loop" /\ off' = o /\ want' = w /\ out' = <<>> /\ result' = "none"
  /\ reads' = reads + 1
  /\ \E s \in SearchResults(o) :
       /\ part' = s
       /\ needSkip' = IF s <= Len(size) THEN o - offsets[s] ELSE o
  /\ UNCHANGED reader

\* Seeded fault: the loop does not end with the buffer.
LoopingOnFullBuffer == pc = "loop" /\ part <= Len(size)

Looping == pc = "loop" /\ part <= Len(size) /\ Len(out) < want

Smaller(a, b) == IF a < b THEN a ELSE b

ReadLengthUnskipped == Smaller(want - Len(out), size[part])

ReadLength == Smaller(want - Len(out), size[part] - needSkip)

Done(r) ==
  /\ pc' = "ready" /\ result' = r
  /\ UNCHANGED <<reader, off, want, part, needSkip, out, reads>>

\* The section reader of an empty block, and of one read from its end, says EOF.
PartEOF == Looping /\ needSkip >= size[part] /\ Done("EOF")

\* The file cannot be read, or ends before the block does.
PartFails == Looping /\ needSkip < size[part] /\ Faulty /\ Done("readError")

PartUnsupported ==
  /\ Looping /\ needSkip < size[part]
  /\ encryption = "other"
  /\ Done("unsupported")

\* A part is read, decoded in place, and the loop turns to the next.
ReadPart ==
  /\ Looping /\ needSkip < size[part]
  /\ encryption # "other"
  /\ out' = out \o [j \in 1..ReadLength |-> <<part, needSkip + j - 1>>]
  /\ part' = IF ReadLength + needSkip = size[part] THEN part + 1 ELSE part
  /\ needSkip' = 0
  /\ UNCHANGED <<reader, pc, off, want, result, reads>>

\* Seeded fault: a short read is not reported.
FinishSilently == pc = "loop" /\ ~ Looping /\ Done("nil")

Finish ==
  /\ pc = "loop" /\ ~ Looping
  /\ Done(IF Len(out) = want THEN "nil" ELSE "unexpectedEOF")

Construct == CountBlock \/ NewHeapOnNodeReader
Read == PartEOF \/ PartUnsupported \/ ReadPart \/ Finish

Next ==
  \/ Construct
  \/ \E o \in 0..MaxOffset, w \in 0..MaxWant : ReadAt(o, w)
  \/ Read
  \/ PartFails

\* The caller's goroutine runs; nothing is concluded from failing reads.
Spec == Init /\ [][Next]_vars /\ WF_vars(Construct) /\ WF_vars(Read)

----------------------------------------------------------------------------
(* Properties.                                                             *)

Cell == Nat \X Nat

\* The state variables have their types.
TypeOK ==
  /\ size \in Seq(Nat) /\ encryption \in Encryptions
  /\ pc \in {"new", "ready", "loop"}
  /\ offsets \in Seq(Nat) /\ Len(offsets) <= Len(size) /\ total \in Nat
  /\ off \in Nat /\ want \in Nat /\ part \in 1..(Len(size) + 1) /\ needSkip \in Nat
  /\ out \in Seq(Cell) /\ Len(out) <= want
  /\ result \in {"none", "nil", "EOF", "unexpectedEOF", "readError", "unsupported"}
  /\ reads \in 0..MaxReads

\* Position p of the Heap-on-Node is byte l of block b.
IsByte(p, b, l) == b \in 1..Len(size) /\ l \in 0..(size[b] - 1) /\ offsets[b] + l = p

\* Every byte a ReadAt delivers, on success and on failure, is the byte of the
\* concatenated blocks at its position, however the read spans the blocks.
BytesInPlace ==
  \A k \in 1..Len(out) : IsByte(off + k - 1, out[k][1], out[k][2])

\* A read fails for want of bytes exactly when it reaches past the last block;
\* it succeeds only with all bytes (the contract of io.ReaderAt).
EndOfHeap ==
  pc = "ready" =>
    /\ result = "nil" => Len(out) = want
    /\ result = "unexpectedEOF" => off + want > total
    /\ result = "nil" /\ want > 0 => off + want <= total

\* A plain EOF comes from an empty block only, never from a block's boundary.
EOFOnlyAtEmptyBlock ==
  pc = "ready" /\ result = "EOF" => \E b \in 1..Len(size) : size[b] = 0

\* ReadAt tells the end of the heap when, and only when, it is there.
EndReported == EndOfHeap /\ EOFOnlyAtEmptyBlock

\* A ReadAt returns.
ReadReturns == pc = "loop" ~> pc = "ready"

============================================================================
