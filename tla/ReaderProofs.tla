---------------------------- MODULE ReaderProofs ----------------------------
(***************************************************************************)
(* Theorems about what reads a file: HeapReader, for every list of block   *)
(* sizes and every read, and the two modules that Concurrency composes,    *)
(* AsyncReader and ParallelOpens, for any number of reads and of calls.    *)
(***************************************************************************)
EXTENDS HeapReader, Concurrency, FiniteSetTheorems, SequenceTheorems, TLAPS

----------------------------------------------------------------------------
(* HeapReader.                                                             *)

\* A function on 1..n is a sequence of length n.
LEMMA BuiltFacts ==
  ASSUME NEW S, NEW n \in Nat, NEW f \in [1..n -> S]
  PROVE  f \in Seq(S) /\ Len(f) = n
  OBVIOUS

\* BlockOffsets are the running sums of the block sizes.
OffsetInv ==
  /\ \A i \in 1..Len(offsets) :
       /\ i = 1 => offsets[i] = 0
       /\ i # 1 => offsets[i] = offsets[i - 1] + size[i - 1]
       /\ offsets[i] + size[i] <= total
  /\ Len(offsets) = 0 => total = 0
  /\ Len(offsets) # 0 => total = offsets[Len(offsets)] + size[Len(offsets)]
  /\ pc # "new" => Len(offsets) = Len(size)
  /\ pc = "new" => out = <<>> /\ result = "none"

\* Where the loop of ReadAt stands: the next byte of the current part is the
\* next byte wanted, and past the last part nothing is left.
LoopInv ==
  pc = "loop" /\ Len(out) < want =>
    /\ part <= Len(size) =>
         /\ offsets[part] + needSkip = off + Len(out)
         /\ needSkip = 0 \/ needSkip < size[part]
    /\ part > Len(size) => total <= off + Len(out)

IInv ==
  /\ TypeOK /\ OffsetInv /\ LoopInv
  /\ BytesInPlace /\ EndOfHeap /\ EOFOnlyAtEmptyBlock

LEMMA InitInv == Init => IInv
  BY HeapReaderAssumption
  DEF Init, IInv, TypeOK, OffsetInv, LoopInv, BytesInPlace, EndOfHeap,
      EOFOnlyAtEmptyBlock, Cell, Encryptions

LEMMA CountBlockInv == IInv /\ CountBlock => IInv'
  <1> SUFFICES ASSUME IInv, CountBlock PROVE IInv'
    OBVIOUS
  <1> DEFINE L == Len(offsets)
  <1>1. /\ pc = "new" /\ L < Len(size) /\ L \in Nat /\ offsets \in Seq(Nat) /\ total \in Nat
        /\ size \in Seq(Nat) /\ L + 1 \in 1..Len(size) /\ size[L + 1] \in Nat
        /\ out = <<>> /\ result = "none"
    BY DEF IInv, TypeOK, OffsetInv, CountBlock
  <1>2. /\ offsets' \in Seq(Nat) /\ Len(offsets') = L + 1 /\ offsets'[L + 1] = total
        /\ \A i \in 1..L : offsets'[i] = offsets[i]
        /\ total' = total + size[L + 1]
        /\ UNCHANGED <<size, encryption, pc, off, want, part, needSkip, out, result, reads>>
    BY <1>1, AppendProperties, LenProperties DEF CountBlock
  <1>3. TypeOK'
    BY <1>1, <1>2 DEF IInv, TypeOK
  <1>4. OffsetInv'
    <2>1. ASSUME NEW i \in 1..(L + 1)
          PROVE  /\ i = 1 => offsets'[i] = 0
                 /\ i # 1 => offsets'[i] = offsets'[i - 1] + size[i - 1]
                 /\ offsets'[i] + size[i] <= total'
      <3>1. CASE i \in 1..L
        <4>1. size[i] \in Nat /\ offsets[i] \in Nat /\ (i # 1 => i - 1 \in 1..L)
          BY <1>1, <3>1
        <4>2. /\ i = 1 => offsets[i] = 0
              /\ i # 1 => offsets[i] = offsets[i - 1] + size[i - 1]
              /\ offsets[i] + size[i] <= total
          BY <3>1 DEF IInv, OffsetInv
        <4>3. offsets'[i] = offsets[i] /\ (i # 1 => offsets'[i - 1] = offsets[i - 1])
          BY <1>2, <3>1, <4>1
        <4>4. total <= total' /\ total \in Nat /\ total' \in Nat
          BY <1>1, <1>2
        <4>5. offsets'[i] + size[i] <= total'
          BY <4>1, <4>2, <4>3, <4>4
        <4> QED BY <4>2, <4>3, <4>5
      <3>2. CASE i = L + 1
        <4>1. (L = 0 => total = 0) /\ (L # 0 => total = offsets[L] + size[L])
          BY DEF IInv, OffsetInv
        <4>2. offsets'[i] = total
          BY <1>2, <3>2
        <4>3. L # 0 => L \in 1..L
          BY <1>1
        <4>4. L # 0 => offsets'[L] = offsets[L]
          BY <1>2, <4>3
        <4>5. total + size[i] = total' /\ i - 1 = L /\ total' \in Nat
          BY <1>1, <1>2, <3>2
        <4>6. i = 1 <=> L = 0
          BY <1>1, <3>2
        <4> QED BY <4>1, <4>2, <4>4, <4>5, <4>6
      <3> QED BY <1>1, <3>1, <3>2
    <2> QED BY <1>1, <1>2, <2>1 DEF OffsetInv
  <1>5. LoopInv' /\ BytesInPlace' /\ EndOfHeap' /\ EOFOnlyAtEmptyBlock'
    BY <1>1, <1>2 DEF LoopInv, BytesInPlace, EndOfHeap, EOFOnlyAtEmptyBlock
  <1> QED BY <1>3, <1>4, <1>5 DEF IInv

LEMMA ReadAtInv ==
  ASSUME IInv, NEW o \in Nat, NEW w \in Nat, ReadAt(o, w)
  PROVE  IInv'
  <1> DEFINE N == Len(size)
  <1>1. /\ pc = "ready" /\ pc' = "loop" /\ off' = o /\ want' = w /\ out' = <<>>
        /\ result' = "none" /\ reads' = reads + 1 /\ reads < MaxReads
        /\ UNCHANGED <<size, encryption, offsets, total>>
        /\ N \in Nat /\ Len(offsets) = N /\ offsets \in Seq(Nat) /\ size \in Seq(Nat)
    BY DEF IInv, TypeOK, OffsetInv, ReadAt, reader
  <1>2. PICK s \in SearchResults(o) :
          part' = s /\ needSkip' = (IF s <= N THEN o - offsets[s] ELSE o)
    BY DEF ReadAt
  <1>3. s \in 1..(N + 1)
    BY DEF SearchResults
  <1>4. CASE s <= N
    <2>0. s \in 1..N
      BY <1>1, <1>3, <1>4
    <2>a. Contributes(s, o)
      BY <1>4 DEF SearchResults
    <2>b. offsets[s] \in Nat /\ size[s] \in Nat
      BY <1>1, <2>0
    <2>1. s \in 1..N /\ offsets[s] + size[s] > o /\ offsets[s] \in Nat /\ size[s] \in Nat
      BY <2>0, <2>a, <2>b DEF Contributes
    <2>2. offsets[s] <= o
      <3>1. CASE s = 1
        BY <1>1, <2>1, <3>1 DEF IInv, OffsetInv
      <3>2. CASE s # 1
        <4>1. s - 1 \in 1..N /\ ~ (offsets[s - 1] + size[s - 1] > o)
          BY <1>1, <1>3, <2>1, <3>2 DEF SearchResults, Contributes
        <4>2. offsets[s] = offsets[s - 1] + size[s - 1]
          BY <1>1, <2>1, <3>2 DEF IInv, OffsetInv
        <4>3. offsets[s - 1] \in Nat /\ size[s - 1] \in Nat
          BY <1>1, <4>1
        <4> QED BY <4>1, <4>2, <4>3
      <3> QED BY <3>1, <3>2
    <2>3. needSkip' \in Nat /\ offsets[s] + needSkip' = o /\ needSkip' < size[s]
      BY <1>2, <1>4, <2>1, <2>2
    <2>4. TypeOK'
      BY <1>1, <1>2, <1>3, <2>3, HeapReaderAssumption DEF IInv, TypeOK
    <2>5. LoopInv'
      BY <1>1, <1>2, <2>1, <2>3 DEF LoopInv
    <2> QED
      BY <1>1, <2>4, <2>5 DEF IInv, OffsetInv, BytesInPlace, EndOfHeap,
         EOFOnlyAtEmptyBlock
  <1>5. CASE s = N + 1
    <2>1. needSkip' = o
      BY <1>1, <1>2, <1>5
    <2>2. total <= o
      <3>1. CASE N = 0
        BY <1>1, <3>1 DEF IInv, OffsetInv
      <3>2. CASE N # 0
        <4>1. N \in 1..N /\ ~ (offsets[N] + size[N] > o)
          BY <1>1, <1>5, <3>2 DEF SearchResults, Contributes
        <4>2. offsets[N] \in Nat /\ size[N] \in Nat /\ total = offsets[N] + size[N]
          BY <1>1, <3>2, <4>1 DEF IInv, OffsetInv
        <4> QED BY <4>1, <4>2
      <3> QED BY <3>1, <3>2
    <2>3. TypeOK'
      BY <1>1, <1>2, <1>3, <2>1, HeapReaderAssumption DEF IInv, TypeOK
    <2>4. LoopInv'
      BY <1>1, <1>2, <1>5, <2>2 DEF LoopInv
    <2> QED
      BY <1>1, <2>3, <2>4 DEF IInv, OffsetInv, BytesInPlace, EndOfHeap,
         EOFOnlyAtEmptyBlock
  <1> QED BY <1>1, <1>3, <1>4, <1>5

\* A step that ends a read: it disturbs nothing but pc and result.
LEMMA DoneInv ==
  ASSUME IInv, NEW r, Done(r), pc = "loop",
         r \in {"nil", "EOF", "unexpectedEOF", "readError", "unsupported"},
         r = "nil" => Len(out) = want,
         r = "unexpectedEOF" => off + want > total,
         r = "EOF" => \E b \in 1..Len(size) : size[b] = 0
  PROVE  IInv'
  <1>1. /\ pc' = "ready" /\ result' = r /\ pc # "new"
        /\ UNCHANGED <<size, encryption, offsets, total, off, want, part, needSkip,
                       out, reads>>
    BY DEF Done, reader
  <1>2. TypeOK' /\ OffsetInv' /\ LoopInv'
    BY <1>1 DEF IInv, TypeOK, OffsetInv, LoopInv
  <1>3. BytesInPlace' /\ EOFOnlyAtEmptyBlock'
    BY <1>1 DEF IInv, BytesInPlace, IsByte, EOFOnlyAtEmptyBlock
  <1>4. r = "nil" /\ want > 0 => off + want <= total
    <2> SUFFICES ASSUME r = "nil", want > 0 PROVE off + want <= total
      OBVIOUS
    <2>1. want \in 1..Len(out) /\ off \in Nat /\ want \in Nat /\ total \in Nat
      BY DEF IInv, TypeOK
    <2>2. PICK b, l : IsByte(off + want - 1, b, l)
      BY <2>1 DEF IInv, BytesInPlace
    <2>3. b \in 1..Len(size) /\ l \in 0..(size[b] - 1) /\ offsets[b] + l = off + want - 1
      BY <2>2 DEF IsByte
    <2>4. b \in 1..Len(offsets) /\ offsets \in Seq(Nat) /\ size \in Seq(Nat)
      BY <1>1, <2>3 DEF IInv, TypeOK, OffsetInv
    <2>5. offsets[b] + size[b] <= total
      BY <2>4 DEF IInv, OffsetInv
    <2>6. offsets[b] \in Nat /\ size[b] \in Nat
      <3>1. b \in 1..Len(size)
        BY <2>3
      <3>2. offsets[b] \in Nat
        BY <2>4
      <3>3. size[b] \in Nat
        BY <2>4, <3>1
      <3> QED BY <3>2, <3>3
    <2> QED BY <2>1, <2>3, <2>5, <2>6
  <1>5. EndOfHeap'
    BY <1>1, <1>4 DEF EndOfHeap
  <1> QED BY <1>2, <1>3, <1>5 DEF IInv

LEMMA PartEOFInv == IInv /\ PartEOF => IInv'
  <1> SUFFICES ASSUME IInv, PartEOF PROVE IInv'
    OBVIOUS
  <1>1. /\ pc = "loop" /\ part \in 1..Len(size) /\ Len(out) < want
        /\ needSkip >= size[part] /\ needSkip \in Nat /\ size[part] \in Nat
    BY DEF IInv, TypeOK, PartEOF, Looping
  <1>2. needSkip = 0 \/ needSkip < size[part]
    BY <1>1 DEF IInv, LoopInv
  <1>3. size[part] = 0
    BY <1>1, <1>2
  <1> QED BY <1>1, <1>3, DoneInv DEF PartEOF

LEMMA PartFailsInv == IInv /\ (PartFails \/ PartUnsupported) => IInv'
  BY DoneInv DEF PartFails, PartUnsupported, Looping

LEMMA FinishInv == IInv /\ Finish => IInv'
  <1> SUFFICES ASSUME IInv, Finish PROVE IInv'
    OBVIOUS
  <1>1. /\ pc = "loop" /\ (part > Len(size) \/ Len(out) >= want)
        /\ Len(out) <= want /\ Len(out) \in Nat /\ want \in Nat /\ off \in Nat /\ total \in Nat
    BY DEF IInv, TypeOK, Finish, Looping
  <1>2. CASE Len(out) = want
    BY <1>1, <1>2, DoneInv DEF Finish
  <1>3. CASE Len(out) # want
    <2>1. total <= off + Len(out)
      BY <1>1, <1>3 DEF IInv, LoopInv
    <2>2. off + want > total
      BY <1>1, <1>3, <2>1
    <2> QED BY <1>1, <1>3, <2>2, DoneInv DEF Finish
  <1> QED BY <1>2, <1>3

LEMMA ReadPartInv == IInv /\ ReadPart => IInv'
  <1> SUFFICES ASSUME IInv, ReadPart PROVE IInv'
    OBVIOUS
  <1> DEFINE L == Len(out)
             S == size[part]
             r == ReadLength
             cell(j) == <<part, needSkip + j - 1>>
             chunk == [j \in 1..r |-> cell(j)]
  <1>1. /\ pc = "loop" /\ part \in 1..Len(size) /\ part \in Nat /\ L < want /\ L \in Nat
        /\ needSkip < S /\ needSkip \in Nat /\ want \in Nat /\ off \in Nat
        /\ size \in Seq(Nat) /\ out \in Seq(Cell)
        /\ Len(offsets) = Len(size) /\ offsets \in Seq(Nat)
    BY DEF IInv, TypeOK, OffsetInv, ReadPart, Looping
  <1>2. S \in Nat /\ offsets[part] \in Nat /\ Len(size) \in Nat
    BY <1>1
  <1>3. offsets[part] + needSkip = off + L
    BY <1>1 DEF IInv, LoopInv
  <1>4. /\ r \in Nat /\ r <= want - L /\ r <= S - needSkip
        /\ r = want - L \/ r = S - needSkip
    BY <1>1, <1>2 DEF ReadLength, Smaller
  <1>5. \A j \in 1..r : cell(j) \in Cell
    BY <1>1, <1>4 DEF Cell
  <1>6. /\ out' = out \o chunk /\ needSkip' = 0
        /\ part' = (IF r + needSkip = S THEN part + 1 ELSE part)
        /\ UNCHANGED <<size, encryption, offsets, total, pc, off, want, result, reads>>
    BY DEF ReadPart, reader
  <1>a. /\ L \in Nat /\ r \in Nat /\ S \in Nat /\ needSkip \in Nat /\ off \in Nat /\ want \in Nat
        /\ offsets[part] \in Nat /\ r <= want - L /\ r <= S - needSkip
        /\ offsets[part] + needSkip = off + L
    BY <1>1, <1>2, <1>3, <1>4
  <1> HIDE DEF r, S, L
  <1>7. chunk \in Seq(Cell) /\ Len(chunk) = r /\ \A j \in 1..r : chunk[j] = cell(j)
    <2>1. chunk \in [1..r -> Cell]
      BY <1>5
    <2> QED BY <1>4, <2>1, BuiltFacts
  <1>8. /\ out' \in Seq(Cell) /\ Len(out') = L + r
        /\ \A k \in 1..L : out'[k] = out[k]
        /\ \A k \in (L + 1)..(L + r) : out'[k] = cell(k - L)
    <2> HIDE DEF chunk, cell
    <2>1. \A k \in (L + 1)..(L + r) : k - L \in 1..r
      BY <1>1, <1>4
    <2>2. \A k \in (L + 1)..(L + r) : chunk[k - L] = cell(k - L)
      BY <1>7, <2>1
    <2>3. /\ out' \in Seq(Cell) /\ Len(out') = L + r
          /\ \A k \in 1..L : out'[k] = out[k]
          /\ \A k \in (L + 1)..(L + r) : out'[k] = chunk[k - L]
      <3> SUFFICES /\ out \o chunk \in Seq(Cell) /\ Len(out \o chunk) = L + r
                   /\ \A k \in 1..L : (out \o chunk)[k] = out[k]
                   /\ \A k \in (L + 1)..(L + r) : (out \o chunk)[k] = chunk[k - L]
        BY <1>6
      <3>1. out \in Seq(Cell) /\ chunk \in Seq(Cell) /\ Len(out) = L /\ Len(chunk) = r
        BY <1>1, <1>7 DEF L
      <3> HIDE DEF chunk
      <3>2. L \in Nat /\ r \in Nat
        BY <3>1, LenProperties
      <3>3. /\ out \o chunk \in Seq(Cell) /\ Len(out \o chunk) = L + r
            /\ \A k \in 1..(L + r) :
                 (out \o chunk)[k] = IF k <= L THEN out[k] ELSE chunk[k - L]
        BY <3>1, ConcatProperties
      <3> HIDE DEF L
      <3> QED BY <3>2, <3>3
    <2> QED BY <2>2, <2>3
  <1>b. Len(out') = L + r
    BY <1>8
  <1>9. TypeOK'
    <2>1. part' \in 1..(Len(size) + 1)
      BY <1>1, <1>2, <1>6
    <2>2. Len(out') <= want
      BY <1>1, <1>4, <1>8
    <2> QED BY <1>6, <1>8, <2>1, <2>2 DEF IInv, TypeOK
  <1>10. OffsetInv'
    BY <1>1, <1>6 DEF IInv, OffsetInv
  <1>11. LoopInv'
    <2> SUFFICES ASSUME Len(out') < want
                 PROVE  /\ part' <= Len(size) =>
                             offsets[part'] + needSkip' = off + Len(out') /\ needSkip' = 0
                        /\ part' > Len(size) => total <= off + Len(out')
      BY <1>6 DEF LoopInv
    <2>1. r = S - needSkip
      BY <1>1, <1>4, <1>8
    <2>2. part' = part + 1 /\ offsets[part] + S = off + Len(out')
      <3>1. r + needSkip = S
        BY <1>a, <2>1
      <3>2. part' = part + 1
        BY <1>6, <3>1
      <3>3. offsets[part] + S = off + Len(out')
        BY <1>a, <1>b, <3>1
      <3> QED BY <3>2, <3>3
    <2>3. ASSUME part + 1 <= Len(size) PROVE offsets[part + 1] = offsets[part] + S
      <3>1. part + 1 \in 1..Len(offsets) /\ part + 1 # 1 /\ (part + 1) - 1 = part
        BY <1>1, <1>2, <2>3
      <3> QED BY <3>1 DEF IInv, OffsetInv, S
    <2>4. ASSUME part + 1 > Len(size) PROVE total = offsets[part] + S
      <3>1. part = Len(offsets) /\ Len(offsets) # 0
        BY <1>1, <1>2, <2>4
      <3> QED BY <3>1 DEF IInv, OffsetInv, S
    <2>5. off + Len(out') \in Nat
      BY <1>1, <1>4, <1>8
    <2>6. needSkip' = 0
      BY <1>6
    <2>7. ASSUME part' <= Len(size) PROVE offsets[part'] + needSkip' = off + Len(out')
      BY <2>2, <2>3, <2>5, <2>6, <2>7
    <2>8. ASSUME part' > Len(size) PROVE total <= off + Len(out')
      BY <2>2, <2>4, <2>5, <2>8
    <2> QED BY <2>6, <2>7, <2>8
  <1>12. BytesInPlace'
    <2> SUFFICES ASSUME NEW k \in 1..(L + r)
                 PROVE  IsByte(off + k - 1, out'[k][1], out'[k][2])
      BY <1>6, <1>8 DEF BytesInPlace, IsByte
    <2>1. CASE k \in 1..L
      BY <1>8, <2>1 DEF IInv, BytesInPlace, L
    <2>2. CASE k \in (L + 1)..(L + r)
      <3> DEFINE l == needSkip + (k - L) - 1
      <3>0. out'[k] = cell(k - L)
        BY <1>8, <2>2
      <3>1. out'[k][1] = part /\ out'[k][2] = l
        BY <3>0
      <3>2. l \in 0..(S - 1) /\ offsets[part] + l = off + k - 1
        <4>1. k \in Int /\ k >= L + 1 /\ k <= L + r
          BY <1>a, <2>2
        <4>2. l \in Int /\ l >= 0 /\ l <= S - 1
          BY <1>a, <4>1
        <4>3. offsets[part] + l = off + k - 1
          BY <1>a, <4>1
        <4> QED BY <1>a, <4>2, <4>3
      <3> QED BY <1>1, <3>1, <3>2 DEF IsByte, S
    <2> QED BY <1>1, <1>4, <2>1, <2>2
  <1>14. EndOfHeap' /\ EOFOnlyAtEmptyBlock'
    BY <1>1, <1>6 DEF EndOfHeap, EOFOnlyAtEmptyBlock
  <1> QED BY <1>9, <1>10, <1>11, <1>12, <1>14 DEF IInv

LEMMA IdleInv == IInv /\ (NewHeapOnNodeReader \/ UNCHANGED vars) => IInv'
  BY DEF IInv, TypeOK, OffsetInv, LoopInv, BytesInPlace, IsByte,
     EndOfHeap, EOFOnlyAtEmptyBlock, NewHeapOnNodeReader, reader, vars

\* The conjunction of the properties below with OffsetInv and LoopInv is an
\* inductive invariant of the reader.
THEOREM Invariance == Spec => []IInv
  <1>1. IInv /\ [Next]_vars => IInv'
    <2> SUFFICES ASSUME IInv, [Next]_vars PROVE IInv'
      OBVIOUS
    <2>1. ASSUME NEW o \in 0..MaxOffset, NEW w \in 0..MaxWant, ReadAt(o, w) PROVE IInv'
      BY <2>1, ReadAtInv, HeapReaderAssumption
    <2> QED
      BY <2>1, CountBlockInv, PartEOFInv, PartFailsInv, FinishInv, ReadPartInv, IdleInv
      DEF Next, Construct, Read
  <1> QED BY <1>1, InitInv, PTL DEF Spec

\* The variables of the reader keep their types: no read delivers more bytes
\* than the buffer takes, and no offset is negative.
THEOREM TypeCorrectness == Spec => []TypeOK
  BY Invariance, PTL DEF IInv

\* Whatever the blocks, every delivered byte is the one at its position.
THEOREM BytesAreInPlace == Spec => []BytesInPlace
  BY Invariance, PTL DEF IInv

\* ReadAt reports the end of the heap exactly when the read crosses it, and
\* returns io.EOF only when there is an empty block.
THEOREM EndIsReported == Spec => []EndReported
  <1>1. IInv => EndReported
    BY DEF IInv, EndReported
  <1> QED BY Invariance, <1>1, PTL

----------------------------------------------------------------------------
(* AsyncReader.                                                            *)

\* What each step of NewReaderAsync holds, and that nothing runs before it is over.
AcquiredInv ==
  /\ opening = "open" => held = {}
  /\ opening = "ring" => held = {"file"}
  /\ opening = "reactor" => held = {"file", "ring"}
  /\ opening \in {"start", "reader", "walk", "file"} => held = {"file", "ring", "reactor"}
  /\ opening \in {"open", "ring", "reactor", "start"} => loop = "none"

Request ==
  [at : {"idle", "queued", "submitted", "ended"}, via : {"none", "ring", "blocking"},
   calls : 0..2, error : BOOLEAN]

\* A read of the ring has its one outcome; on its way it has called nobody and met
\* no error.
OutcomeOf(q) ==
  /\ q \in Request
  /\ q.via = "ring" /\ q.at = "ended" => q.calls = (IF q.error THEN 0 ELSE 1)
  /\ q.via = "ring" /\ q.at # "ended" => q.calls = 0
  /\ q.at \in {"queued", "submitted"} => q.via = "ring" /\ q.calls = 0 /\ q.error = FALSE

RingInv == Ring!TypeOK /\ AcquiredInv /\ \A r \in Reads : OutcomeOf(request[r])

LEMMA RingInit == InitParallel => RingInv
  <1>1. OutcomeOf(Ring!Idle)
    BY DEF OutcomeOf, Request, Ring!Idle
  <1> QED
    BY <1>1 DEF InitParallel, RingInv, AcquiredInv, OutcomeOf, Request, Ring!TypeOK, Ring!Ends,
       Ring!Init

LEMMA RingStep ==
  ASSUME RingInv, [NextParallel]_parallelVars
  PROVE  RingInv'
  <1>0. ASSUME NEW r \in Reads, NEW q, OutcomeOf(q), request' = [request EXCEPT ![r] = q],
               UNCHANGED <<opening, held, interrupted, loop, closing>>
        PROVE  RingInv'
    <2>1. request \in [Reads -> Request] /\ q \in Request
      BY <1>0 DEF RingInv, Ring!TypeOK, OutcomeOf, Request
    <2>2. request' \in [Reads -> Request] /\ \A x \in Reads : OutcomeOf(request'[x])
      BY <1>0, <2>1 DEF RingInv
    <2>3. AcquiredInv'
      BY <1>0 DEF RingInv, AcquiredInv
    <2>4. Ring!TypeOK'
      BY <1>0, <2>2 DEF RingInv, Ring!TypeOK, Request, Ring!Ends
    <2> QED BY <2>2, <2>3, <2>4 DEF RingInv
  <1>1. CASE OnStores(Stores!Next) \/ UNCHANGED parallelVars
    BY <1>1 DEF OnStores, parallelVars, ofRing, Ring!TypeOK, RingInv, AcquiredInv
  <1>2. CASE Ring!Opening
    BY <1>2 DEF Ring!Opening, Ring!OpenFile, Ring!NewRing, Ring!NewReactor, Ring!Acquire,
       Ring!StartEventLoop, Ring!EndWalk, Ring!TypeOK, Ring!Ends, RingInv, AcquiredInv
  <1>3. CASE Ring!NewAsync \/ Ring!EndEventLoop \/ Ring!Interrupt \/ Ring!Close \/ Ring!CloseDone
    BY <1>3 DEF Ring!NewAsync, Ring!EndEventLoop, Ring!Interrupt, Ring!Close, Ring!CloseDone,
       Ring!Owned, Ring!TypeOK, Ring!Ends, RingInv, AcquiredInv
  <1>4. ASSUME NEW r \in Reads, Ring!ReadPage(r)
        PROVE  RingInv'
    <2>1. PICK failure \in BOOLEAN :
            request' = [request EXCEPT ![r] =
              [at |-> "ended", via |-> "blocking",
               calls |-> IF failure THEN 2 ELSE 1, error |-> failure]]
      BY <1>4 DEF Ring!ReadPage
    <2>2. OutcomeOf([at |-> "ended", via |-> "blocking",
                     calls |-> IF failure THEN 2 ELSE 1, error |-> failure])
      BY DEF OutcomeOf, Request
    <2> QED BY <1>0, <1>4, <2>1, <2>2 DEF Ring!ReadPage
  <1>5. ASSUME NEW r \in Reads, Ring!ReadAtAsync(r)
        PROVE  RingInv'
    <2> DEFINE queued == [Ring!Idle EXCEPT !.at = "queued", !.via = "ring"]
               refused == [at |-> "ended", via |-> "ring", calls |-> 0, error |-> TRUE]
    <2>1. OutcomeOf(queued)
      <3>0. Ring!Idle \in Request /\ Ring!Idle.calls = 0 /\ Ring!Idle.error = FALSE
        BY DEF Request, Ring!Idle
      <3>1. PICK idle \in Request : idle = Ring!Idle /\ idle.calls = 0 /\ idle.error = FALSE
        BY <3>0
      <3>2. OutcomeOf([idle EXCEPT !.at = "queued", !.via = "ring"])
        BY <3>1 DEF OutcomeOf, Request
      <3> QED BY <3>1, <3>2
    <2>2. OutcomeOf(refused)
      BY DEF OutcomeOf, Request
    <2>3. request' = [request EXCEPT ![r] = IF Ring!Queued(r) THEN queued ELSE refused]
      BY <1>5 DEF Ring!ReadAtAsync
    <2> HIDE DEF queued, refused
    <2> QED BY <1>0, <1>5, <2>1, <2>2, <2>3 DEF Ring!ReadAtAsync
  <1>6. ASSUME NEW r \in Reads, Ring!Submit(r) \/ Ring!Complete(r)
        PROVE  RingInv'
    <2> DEFINE q == request[r]
    <2>1. OutcomeOf(q) /\ request \in [Reads -> Request]
      BY DEF RingInv, Ring!TypeOK, Request
    <2>2. CASE Ring!Submit(r)
      <3>1. OutcomeOf([q EXCEPT !.at = "submitted"])
        BY <2>1, <2>2 DEF OutcomeOf, Request, Ring!Submit
      <3>2. request' = [request EXCEPT ![r] = [q EXCEPT !.at = "submitted"]]
        BY <2>1, <2>2 DEF Ring!Submit
      <3> QED BY <1>0, <2>2, <3>1, <3>2 DEF Ring!Submit
    <2>3. CASE Ring!Complete(r)
      <3>1. OutcomeOf([q EXCEPT !.at = "ended", !.calls = @ + 1])
        BY <2>1, <2>3 DEF OutcomeOf, Request, Ring!Complete
      <3>2. request' = [request EXCEPT ![r] = [q EXCEPT !.at = "ended", !.calls = @ + 1]]
        BY <2>1, <2>3 DEF Ring!Complete
      <3> QED BY <1>0, <2>3, <3>1, <3>2 DEF Ring!Complete
    <2> QED BY <1>6, <2>2, <2>3
  <1> QED BY <1>1, <1>2, <1>3, <1>4, <1>5, <1>6 DEF NextParallel, OnRing, Ring!Next

\* Whatever reads, an interrupt and a Close do to each other, a read of the ring is
\* answered in one way and the loop runs only over what was taken (io_uring.go).
THEOREM EveryReadHasOneOutcome == SpecParallel => []OneOutcome
  <1>1. RingInv => OneOutcome
    BY DEF RingInv, OutcomeOf, OneOutcome, Ring!OneOutcome
  <1> QED BY RingInit, RingStep, <1>1, PTL DEF SpecParallel

----------------------------------------------------------------------------
(* ParallelOpens.                                                          *)

\* The first n nodes of a tree in the order of its walk.
First(t, n) == {WalkOrder[t][i] : i \in 1..n}

\* Nodes are equal in a store when identifier and level are.
LEMMA SameKeyMeans ==
  ASSUME NEW a, NEW b, a.id \in Nat, a.level \in Nat, b.id \in Nat, b.level \in Nat
  PROVE  Stores!SameKey(a, b) <=> a.id = b.id /\ a.level = b.level
  BY DEF Stores!SameKey, Stores!Less

LEMMA NodesDiffer ==
  ASSUME NEW t \in Stores!Trees
  PROVE  /\ Len(WalkOrder[t]) \in Nat \ {0}
         /\ \A i \in 1..Len(WalkOrder[t]) :
              WalkOrder[t][i].id \in Nat /\ WalkOrder[t][i].level \in Nat
         /\ \A i, j \in 1..Len(WalkOrder[t]) :
              Stores!SameKey(WalkOrder[t][i], WalkOrder[t][j]) <=> i = j
  <1>1. WalkOrder[t] \in Seq(Stores!Node) /\ WalkOrder[t] # <<>>
    BY StoresAssumptions DEF Stores!OrderAssumption
  <1>2. Len(WalkOrder[t]) \in Nat \ {0}
    BY <1>1, EmptySeq
  <1>3. \A i \in 1..Len(WalkOrder[t]) :
          WalkOrder[t][i].id \in Nat /\ WalkOrder[t][i].level \in Nat
    <2>1. \A i \in 1..Len(WalkOrder[t]) : WalkOrder[t][i] \in Stores!Node
      BY <1>1, ElementOfSeq
    <2> QED BY <2>1 DEF Stores!Node
  <1>4. \A i, j \in 1..Len(WalkOrder[t]) :
          i # j => ~ Stores!SameKey(WalkOrder[t][i], WalkOrder[t][j])
    BY StoresAssumptions DEF Stores!OrderAssumption
  <1>5. \A i \in 1..Len(WalkOrder[t]) : Stores!SameKey(WalkOrder[t][i], WalkOrder[t][i])
    BY <1>3 DEF Stores!SameKey, Stores!Less
  <1> QED BY <1>2, <1>3, <1>4, <1>5

\* Load of the node a walk comes to when the store has those before it.
LEMMA LoadNext ==
  ASSUME NEW t \in Stores!Trees, NEW n \in 1..Len(WalkOrder[t])
  PROVE  /\ ~ Stores!Exists(First(t, n - 1), WalkOrder[t][n])
         /\ Stores!Load(First(t, n - 1), WalkOrder[t][n]) = First(t, n)
  <1>1. \A i \in 1..(n - 1) : ~ Stores!SameKey(WalkOrder[t][i], WalkOrder[t][n])
    BY NodesDiffer
  <1>2. ~ Stores!Exists(First(t, n - 1), WalkOrder[t][n])
    BY <1>1 DEF Stores!Exists, First
  <1>3. Stores!Load(First(t, n - 1), WalkOrder[t][n]) = First(t, n - 1) \cup {WalkOrder[t][n]}
    BY <1>1 DEF Stores!Load, First
  <1>4. First(t, n - 1) \cup {WalkOrder[t][n]} = First(t, n)
    BY NodesDiffer DEF First
  <1> QED BY <1>2, <1>3, <1>4

\* Load of a node that the store has changes nothing.
LEMMA LoadAgain ==
  ASSUME NEW t \in Stores!Trees, NEW n \in 1..Len(WalkOrder[t]),
         NEW S, S \subseteq Stores!All(t), WalkOrder[t][n] \in S
  PROVE  Stores!Exists(S, WalkOrder[t][n]) /\ Stores!Load(S, WalkOrder[t][n]) = S
  <1>1. \A m \in S : Stores!SameKey(m, WalkOrder[t][n]) <=> m = WalkOrder[t][n]
    BY NodesDiffer DEF Stores!All
  <1> QED BY <1>1 DEF Stores!Exists, Stores!Load

\* In complete stores the name-to-ID map is found.
LEMMA CompleteFindsMap ==
  ASSUME store["node"] = Stores!All("node"), store["block"] = Stores!All("block")
  PROVE  Stores!MapFound
  <1> DEFINE key == [id |-> MapID, level |-> 0]
  <1>1. "node" \in Stores!Trees /\ "block" \in Stores!Trees
    BY DEF Stores!Trees
  <1>2. PICK i \in 1..Len(WalkOrder["node"]), j \in 1..Len(WalkOrder["block"]) :
          /\ WalkOrder["node"][i].id = MapID /\ WalkOrder["node"][i].level = 0
          /\ WalkOrder["block"][j].id = WalkOrder["node"][i].ref
          /\ WalkOrder["block"][j].level = 0
    BY StoresAssumptions DEF Stores!MapAssumption
  <1>3. \A m \in store["node"] : Stores!SameKey(m, key) <=> m = WalkOrder["node"][i]
    <2>1. ASSUME NEW k \in 1..Len(WalkOrder["node"])
          PROVE  Stores!SameKey(WalkOrder["node"][k], key) <=>
                   Stores!SameKey(WalkOrder["node"][k], WalkOrder["node"][i])
      <3>1. WalkOrder["node"][k].id \in Nat /\ WalkOrder["node"][k].level \in Nat
        BY <1>1, NodesDiffer
      <3>2. MapID \in Nat /\ 0 \in Nat /\ key.id = MapID /\ key.level = 0
        BY StoresAssumptions DEF Stores!MapAssumption
      <3> HIDE DEF key
      <3>3. Stores!SameKey(WalkOrder["node"][k], key) <=>
              WalkOrder["node"][k].id = MapID /\ WalkOrder["node"][k].level = 0
        BY <3>1, <3>2, SameKeyMeans
      <3>4. Stores!SameKey(WalkOrder["node"][k], WalkOrder["node"][i]) <=>
              WalkOrder["node"][k].id = MapID /\ WalkOrder["node"][k].level = 0
        BY <1>2, <3>1, <3>2, SameKeyMeans
      <3> QED BY <3>3, <3>4
    <2>2. \A k \in 1..Len(WalkOrder["node"]) :
            Stores!SameKey(WalkOrder["node"][k], WalkOrder["node"][i]) <=> k = i
      BY <1>1, NodesDiffer
    <2> HIDE DEF key
    <2>3. ASSUME NEW m \in store["node"]
          PROVE  Stores!SameKey(m, key) <=> m = WalkOrder["node"][i]
      <3>1. PICK k \in 1..Len(WalkOrder["node"]) : m = WalkOrder["node"][k]
        BY DEF Stores!All
      <3>2. Stores!SameKey(m, key) <=> k = i
        BY <2>1, <2>2, <3>1
      <3>3. m = WalkOrder["node"][i] => Stores!SameKey(m, key)
        BY <2>1, <2>2
      <3> QED BY <3>1, <3>2, <3>3
    <2> QED BY <2>3
  <1>4. WalkOrder["node"][i] \in store["node"]
    BY DEF Stores!All
  <1>5. Stores!Found(store["node"], MapID)
    BY <1>3, <1>4 DEF Stores!Found
  <1>6. Stores!Get(store["node"], MapID) = WalkOrder["node"][i]
    BY <1>3, <1>4 DEF Stores!Get
  <1>7. Stores!Found(store["block"], WalkOrder["node"][i].ref)
    <2>1. Stores!SameKey(WalkOrder["block"][j], [id |-> WalkOrder["node"][i].ref, level |-> 0])
      <3>1. WalkOrder["block"][j].id \in Nat
        BY <1>1, NodesDiffer
      <3> QED BY <1>2, <3>1 DEF Stores!SameKey, Stores!Less
    <2> QED BY <2>1 DEF Stores!Found, Stores!All
  <1> QED BY <1>5, <1>6, <1>7 DEF Stores!MapFound

\* The shape of the state, and where each call is.
PlaceInv ==
  /\ at \in [Openers -> {"idle", "test", "load", "map"} \cup Stores!Ended]
  /\ tree \in [Openers -> Stores!Trees]
  /\ next \in [Openers -> Nat]
  /\ skipped \in [Openers -> SUBSET Stores!Trees]
  /\ \A o \in Openers :
       /\ at[o] = "load" => next[o] \in 1..Len(WalkOrder[tree[o]])
       /\ at[o] = "idle" => tree[o] = "node"
       /\ at[o] \in {"map", "opened", "failed"} => tree[o] = "block"
       /\ at[o] = "panicked" => next[o] = 1

\* A tree is empty or complete and nobody is past its first node, or one call is and
\* has loaded exactly what comes before its next node.
TreeInv(t) ==
  \/ store[t] \in {{}, Stores!All(t)} /\ Stores!Past(t) = {}
  \/ \E o \in Openers :
       /\ Stores!Past(t) = {o} /\ store[t] = First(t, next[o] - 1)

\* A call that is through with a tree and has not skipped it left it complete.
ThroughInv ==
  \A o \in Openers :
    /\ tree[o] = "block" /\ "node" \notin skipped[o] => store["node"] = Stores!All("node")
    /\ at[o] \in {"map", "opened", "failed"} /\ "block" \notin skipped[o] =>
         store["block"] = Stores!All("block")
    /\ at[o] = "failed" => skipped[o] # {}

StoresInv ==
  /\ store \in [Stores!Trees -> SUBSET (Stores!All("node") \cup Stores!All("block"))]
  /\ PlaceInv /\ ThroughInv /\ \A t \in Stores!Trees : TreeInv(t)

LEMMA StoresInit == InitParallel => StoresInv
  <1> SUFFICES ASSUME Stores!Init PROVE StoresInv
    BY DEF InitParallel
  <1>1. /\ store = [t \in Stores!Trees |-> {}] /\ at = [o \in Openers |-> "idle"]
        /\ tree = [o \in Openers |-> "node"] /\ next = [o \in Openers |-> 1]
        /\ skipped = [o \in Openers |-> {}]
    BY DEF Stores!Init
  <1>2. PlaceInv
    BY <1>1 DEF PlaceInv, Stores!Trees, Stores!Ended
  <1>3. ThroughInv
    BY <1>1 DEF ThroughInv
  <1>4. \A t \in Stores!Trees : TreeInv(t)
    BY <1>1 DEF TreeInv, Stores!Past
  <1>5. store \in [Stores!Trees -> SUBSET (Stores!All("node") \cup Stores!All("block"))]
    BY <1>1
  <1> QED BY <1>2, <1>3, <1>4, <1>5 DEF StoresInv

\* A step of one call that leaves the stores alone and moves nobody past a first node.
LEMMA QuietStep ==
  ASSUME StoresInv, NEW o \in Openers, store' = store,
         \A p \in Openers \ {o} : at'[p] = at[p] /\ tree'[p] = tree[p] /\ next'[p] = next[p],
         ~ (at[o] = "load" /\ next[o] > 1), ~ (at'[o] = "load" /\ next'[o] > 1)
  PROVE  \A t \in Stores!Trees : TreeInv(t)'
  <1> TAKE t \in Stores!Trees
  <1>1. Stores!Past(t)' = Stores!Past(t)
    BY DEF Stores!Past
  <1>2. CASE store[t] \in {{}, Stores!All(t)} /\ Stores!Past(t) = {}
    BY <1>1, <1>2 DEF TreeInv, Stores!All
  <1>3. ASSUME NEW p \in Openers, Stores!Past(t) = {p}, store[t] = First(t, next[p] - 1)
        PROVE  TreeInv(t)'
    <2>1. p # o
      BY <1>3 DEF Stores!Past
    <2>2. next'[p] = next[p]
      BY <2>1
    <2> QED BY <1>1, <1>3, <2>2 DEF TreeInv, First
  <1> QED BY <1>2, <1>3 DEF StoresInv, TreeInv

\* What a walk finds when it comes to its next node: the nodes before it and no other
\* walk past its first, or, at the first node, a store that has it.
LEMMA WalkFinds ==
  ASSUME StoresInv, NEW o \in Openers, at[o] = "load"
  PROVE  LET t == tree[o] IN
         \/ store[t] = First(t, next[o] - 1) /\ Stores!Past(t) \subseteq {o}
         \/ next[o] = 1 /\ WalkOrder[t][1] \in store[t]
  <1> DEFINE t == tree[o]
  <1>1. t \in Stores!Trees /\ next[o] \in 1..Len(WalkOrder[t]) /\ next \in [Openers -> Nat]
    BY DEF StoresInv, PlaceInv
  <1>2. TreeInv(t)
    BY <1>1 DEF StoresInv
  <1>3. First(t, 0) = {}
    BY DEF First
  <1>4. Len(WalkOrder[t]) \in Nat \ {0}
    BY <1>1, NodesDiffer
  <1>5. CASE next[o] = 1
    <2>1. CASE store[t] = {} /\ Stores!Past(t) = {}
      BY <1>3, <1>5, <2>1
    <2>2. CASE store[t] = Stores!All(t)
      BY <1>4, <1>5, <2>2 DEF Stores!All
    <2>3. ASSUME NEW p \in Openers, Stores!Past(t) = {p}, store[t] = First(t, next[p] - 1)
          PROVE  WalkOrder[t][1] \in store[t]
      <3>1. next[p] > 1 /\ next[p] \in Nat
        BY <1>1, <2>3 DEF Stores!Past
      <3> QED BY <2>3, <3>1 DEF First
    <2> QED BY <1>2, <1>5, <2>1, <2>2, <2>3 DEF TreeInv
  <1>6. CASE next[o] # 1
    <2>1. o \in Stores!Past(t)
      BY <1>1, <1>6 DEF Stores!Past
    <2> QED BY <1>2, <2>1 DEF TreeInv
  <1> QED BY <1>5, <1>6

\* A walk loads the node it came to.
LEMMA LoadStep ==
  ASSUME StoresInv, NEW o \in Openers, Stores!LoadNode(o),
         store[tree[o]] = First(tree[o], next[o] - 1), Stores!Past(tree[o]) \subseteq {o}
  PROVE  StoresInv'
  <1> DEFINE t == tree[o]
             n == next[o]
  <1>1. /\ at[o] = "load" /\ t \in Stores!Trees /\ n \in 1..Len(WalkOrder[t])
        /\ store \in [Stores!Trees -> SUBSET (Stores!All("node") \cup Stores!All("block"))]
        /\ at \in [Openers -> {"idle", "test", "load", "map"} \cup Stores!Ended]
        /\ tree \in [Openers -> Stores!Trees]
        /\ next \in [Openers -> Nat]
        /\ skipped \in [Openers -> SUBSET Stores!Trees]
    BY DEF StoresInv, PlaceInv, Stores!LoadNode
  <1>2. /\ ~ Stores!Exists(store[t], WalkOrder[t][n])
        /\ Stores!Load(store[t], WalkOrder[t][n]) = First(t, n)
    BY <1>1, LoadNext
  <1>3. /\ store' = [store EXCEPT ![t] = First(t, n)]
        /\ skipped' = skipped
        /\ IF n < Len(WalkOrder[t])
           THEN next' = [next EXCEPT ![o] = n + 1] /\ at' = at /\ tree' = tree
           ELSE Stores!GoOn(o) /\ next' = next
    BY <1>1, <1>2 DEF Stores!LoadNode
  <1>4. Len(WalkOrder[t]) \in Nat
    BY <1>1, NodesDiffer
  <1>5. Stores!All(t) = First(t, Len(WalkOrder[t]))
    BY DEF Stores!All, First
  <1>6. store[t] # Stores!All(t)
    <2>1. WalkOrder[t][n] \in First(t, Len(WalkOrder[t]))
      BY <1>1 DEF First
    <2>2. Stores!SameKey(WalkOrder[t][n], WalkOrder[t][n])
      BY <1>1, NodesDiffer
    <2>3. Stores!Exists(First(t, Len(WalkOrder[t])), WalkOrder[t][n])
      BY <2>1, <2>2 DEF Stores!Exists
    <2> QED BY <1>2, <1>5, <2>3
  <1>7. First(t, n) \subseteq Stores!All(t) /\ First(t, n) # {}
    BY <1>1, <1>4 DEF First, Stores!All
  <1>8. store' \in [Stores!Trees -> SUBSET (Stores!All("node") \cup Stores!All("block"))]
    <2>1. First(t, n) \subseteq Stores!All("node") \cup Stores!All("block")
      BY <1>1, <1>7 DEF Stores!Trees
    <2> QED BY <1>1, <1>3, <2>1
  <1>9. \A x \in Stores!Trees \ {t} : store'[x] = store[x]
    BY <1>1, <1>3
  <1>10. store'[t] = First(t, n)
    BY <1>1, <1>3
  <1> HIDE DEF t, n
  <1>11. /\ store["node"] = Stores!All("node") => store'["node"] = Stores!All("node")
         /\ store["block"] = Stores!All("block") => store'["block"] = Stores!All("block")
    BY <1>1, <1>6, <1>9 DEF Stores!Trees
  <1>12. CASE n < Len(WalkOrder[t])
    <2>1. next' = [next EXCEPT ![o] = n + 1] /\ at' = at /\ tree' = tree
      BY <1>3, <1>12
    <2>2. PlaceInv'
      BY <1>1, <1>3, <1>4, <1>12, <2>1 DEF StoresInv, PlaceInv, t, n
    <2>3. \A x \in Stores!Trees : TreeInv(x)'
      <3>1. ASSUME NEW x \in Stores!Trees, x = t
            PROVE  Stores!Past(x)' = {o}
        BY <1>1, <2>1, <3>1 DEF Stores!Past, t, n
      <3>2. next'[o] - 1 = n
        BY <1>1, <2>1 DEF n
      <3>3. store'[t] = {WalkOrder[t][i] : i \in 1..(next'[o] - 1)}
        BY <1>10, <3>2 DEF First
      <3>4. ASSUME NEW x \in Stores!Trees, x = t
            PROVE  TreeInv(x)'
        BY <3>1, <3>3, <3>4 DEF TreeInv, First
      <3>5. ASSUME NEW x \in Stores!Trees \ {t}
            PROVE  TreeInv(x)'
        <4>1. Stores!Past(x)' = Stores!Past(x)
          BY <1>1, <2>1, <3>5 DEF Stores!Past, t
        <4>2. \A p \in Stores!Past(x) : next'[p] = next[p]
          BY <1>1, <2>1, <3>5 DEF Stores!Past, t
        <4> QED BY <1>9, <4>1, <4>2 DEF StoresInv, TreeInv, First, Stores!All
      <3> QED BY <3>4, <3>5
    <2>4. ThroughInv'
      BY <1>3, <1>11, <2>1 DEF StoresInv, ThroughInv, Stores!All
    <2> QED BY <1>8, <2>2, <2>3, <2>4 DEF StoresInv, Stores!All
  <1>13. CASE ~ (n < Len(WalkOrder[t]))
    <2>1. n = Len(WalkOrder[t])
      BY <1>1, <1>4, <1>13
    <2>2. /\ Stores!GoOn(o) /\ next' = next
          /\ store'[t] = Stores!All(t)
      BY <1>3, <1>5, <1>10, <1>13, <2>1
    <2>3. /\ at' = [at EXCEPT ![o] = IF t = "node" THEN "test" ELSE "map"]
          /\ tree' = [tree EXCEPT ![o] = "block"]
      BY <1>1, <2>2 DEF Stores!GoOn, Stores!Trees, t
    <2>4. PlaceInv'
      BY <1>1, <1>3, <2>2, <2>3 DEF StoresInv, PlaceInv, Stores!Trees, Stores!Ended, t
    <2>5. \A x \in Stores!Trees : TreeInv(x)'
      <3>1. ASSUME NEW x \in Stores!Trees, x = t
            PROVE  Stores!Past(x)' = {}
        BY <1>1, <2>2, <2>3, <3>1 DEF Stores!Past, t
      <3>2. ASSUME NEW x \in Stores!Trees, x = t
            PROVE  TreeInv(x)'
        BY <2>2, <3>1, <3>2 DEF TreeInv, Stores!All
      <3>3. ASSUME NEW x \in Stores!Trees \ {t}
            PROVE  TreeInv(x)'
        <4>1. Stores!Past(x)' = Stores!Past(x)
          BY <1>1, <2>2, <2>3, <3>3 DEF Stores!Past, t
        <4> QED BY <1>9, <2>2, <4>1 DEF StoresInv, TreeInv, First, Stores!All
      <3> QED BY <3>2, <3>3
    <2>6. ThroughInv'
      <3>1. ASSUME NEW p \in Openers \ {o}
            PROVE  at'[p] = at[p] /\ tree'[p] = tree[p] /\ skipped'[p] = skipped[p]
        BY <1>3, <2>3
      <3>2. tree[o] = "block" => store["node"] = Stores!All("node") \/ "node" \in skipped[o]
        BY DEF StoresInv, ThroughInv
      <3>3. /\ "node" \notin skipped'[o] => store'["node"] = Stores!All("node")
            /\ at'[o] = "map" => store'["block"] = Stores!All("block")
            /\ at'[o] # "failed" /\ at'[o] # "opened"
        BY <1>1, <1>3, <1>11, <2>2, <2>3, <3>2 DEF Stores!Trees, t
      <3> QED BY <1>11, <3>1, <3>3 DEF StoresInv, ThroughInv, Stores!All
    <2> QED BY <1>8, <2>4, <2>5, <2>6 DEF StoresInv, Stores!All
  <1> QED BY <1>12, <1>13

LEMMA StoresStep ==
  ASSUME StoresInv, [NextParallel]_parallelVars
  PROVE  StoresInv'
  <1>1. CASE OnRing(Ring!Next) \/ UNCHANGED parallelVars
    <2>1. UNCHANGED ofStores
      BY <1>1 DEF OnRing, parallelVars
    <2> QED BY <2>1 DEF ofStores, StoresInv, PlaceInv, ThroughInv, TreeInv, Stores!Past,
            Stores!All, First
  <1>2. ASSUME NEW o \in Openers, Stores!BeginOpen(o) \/ Stores!Walk(o)
        PROVE  StoresInv'
    <2>1. /\ UNCHANGED <<store, tree, skipped>>
          /\ at \in [Openers -> {"idle", "test", "load", "map"} \cup Stores!Ended]
          /\ next \in [Openers -> Nat] /\ tree \in [Openers -> Stores!Trees]
          /\ at[o] \in {"idle", "test"}
          /\ \/ at' = [at EXCEPT ![o] = "test"] /\ next' = next
             \/ at' = [at EXCEPT ![o] = "load"] /\ next' = [next EXCEPT ![o] = 1]
      BY <1>2 DEF StoresInv, PlaceInv, Stores!BeginOpen, Stores!Walk
    <2>2. \A x \in Stores!Trees : TreeInv(x)'
      BY <2>1, QuietStep
    <2>3. PlaceInv'
      <3>1. 1 \in 1..Len(WalkOrder[tree[o]])
        <4>1. Len(WalkOrder[tree[o]]) \in Nat \ {0}
          BY <2>1, NodesDiffer
        <4> QED BY <4>1
      <3>2. CASE at' = [at EXCEPT ![o] = "test"] /\ next' = next
        BY <2>1, <3>2 DEF StoresInv, PlaceInv, Stores!Ended
      <3>3. CASE at' = [at EXCEPT ![o] = "load"] /\ next' = [next EXCEPT ![o] = 1]
        BY <2>1, <3>1, <3>3 DEF StoresInv, PlaceInv, Stores!Ended
      <3> QED BY <2>1, <3>2, <3>3
    <2>4. ThroughInv'
      BY <2>1 DEF StoresInv, ThroughInv, Stores!All
    <2> QED BY <2>1, <2>2, <2>3, <2>4 DEF StoresInv, Stores!All
  <1>3. ASSUME NEW o \in Openers, Stores!Skip(o)
        PROVE  StoresInv'
    <2>1. /\ UNCHANGED <<store, next>>
          /\ at \in [Openers -> {"idle", "test", "load", "map"} \cup Stores!Ended]
          /\ tree \in [Openers -> Stores!Trees] /\ next \in [Openers -> Nat]
          /\ skipped \in [Openers -> SUBSET Stores!Trees]
          /\ at[o] = "test"
          /\ skipped' = [skipped EXCEPT ![o] = @ \cup {tree[o]}]
          /\ Stores!GoOn(o)
      BY <1>3 DEF StoresInv, PlaceInv, Stores!Skip
    <2>2. /\ at' = [at EXCEPT ![o] = IF tree[o] = "node" THEN "test" ELSE "map"]
          /\ tree' = [tree EXCEPT ![o] = "block"]
      BY <2>1 DEF Stores!GoOn, Stores!Trees
    <2>3. \A x \in Stores!Trees : TreeInv(x)'
      BY <2>1, <2>2, QuietStep
    <2>4. PlaceInv'
      BY <2>1, <2>2 DEF StoresInv, PlaceInv, Stores!Ended, Stores!Trees
    <2>5. ThroughInv'
      BY <2>1, <2>2 DEF StoresInv, ThroughInv, Stores!Trees, Stores!All
    <2> QED BY <2>1, <2>3, <2>4, <2>5 DEF StoresInv, Stores!All
  <1>4. ASSUME NEW o \in Openers, Stores!LoadNode(o)
        PROVE  StoresInv'
    <2>1. CASE store[tree[o]] = First(tree[o], next[o] - 1) /\ Stores!Past(tree[o]) \subseteq {o}
      BY <1>4, <2>1, LoadStep
    <2>2. CASE next[o] = 1 /\ WalkOrder[tree[o]][1] \in store[tree[o]]
      <3>1. /\ at[o] = "load" /\ tree[o] \in Stores!Trees
            /\ store \in [Stores!Trees -> SUBSET (Stores!All("node") \cup Stores!All("block"))]
            /\ at \in [Openers -> {"idle", "test", "load", "map"} \cup Stores!Ended]
            /\ next[o] \in 1..Len(WalkOrder[tree[o]])
        BY <1>4 DEF StoresInv, PlaceInv, Stores!LoadNode
      <3>2. store[tree[o]] \subseteq Stores!All(tree[o])
        <4>1. TreeInv(tree[o])
          BY <3>1 DEF StoresInv
        <4>2. ASSUME NEW p \in Openers, p \in Stores!Past(tree[o]),
                     store[tree[o]] = First(tree[o], next[p] - 1)
              PROVE  store[tree[o]] \subseteq Stores!All(tree[o])
          <5>1. next[p] \in 1..Len(WalkOrder[tree[o]])
            BY <4>2 DEF StoresInv, PlaceInv, Stores!Past
          <5>2. Len(WalkOrder[tree[o]]) \in Nat
            BY <3>1, NodesDiffer
          <5> QED BY <4>2, <5>1, <5>2 DEF First, Stores!All
        <4> QED BY <4>1, <4>2 DEF TreeInv
      <3>3. /\ Stores!Exists(store[tree[o]], WalkOrder[tree[o]][1])
            /\ Stores!Load(store[tree[o]], WalkOrder[tree[o]][1]) = store[tree[o]]
        BY <2>2, <3>1, <3>2, LoadAgain
      <3>4. /\ store' = store /\ UNCHANGED <<tree, next, skipped>>
            /\ at' = [at EXCEPT ![o] = "panicked"]
        BY <1>4, <2>2, <3>1, <3>3 DEF Stores!LoadNode
      <3>5. \A x \in Stores!Trees : TreeInv(x)'
        BY <2>2, <3>1, <3>4, QuietStep
      <3>6. PlaceInv'
        BY <2>2, <3>1, <3>4 DEF StoresInv, PlaceInv, Stores!Ended
      <3>7. ThroughInv'
        BY <3>1, <3>4 DEF StoresInv, ThroughInv, Stores!All
      <3> QED BY <3>4, <3>5, <3>6, <3>7 DEF StoresInv, Stores!All
    <2> QED BY <1>4, <2>1, <2>2, WalkFinds DEF Stores!LoadNode
  <1>5. ASSUME NEW o \in Openers, Stores!GetNameToIDMap(o)
        PROVE  StoresInv'
    <2>1. /\ UNCHANGED <<store, tree, next, skipped>>
          /\ at \in [Openers -> {"idle", "test", "load", "map"} \cup Stores!Ended]
          /\ at[o] = "map" /\ tree[o] = "block"
          /\ at' = [at EXCEPT ![o] = IF Stores!MapFound THEN "opened" ELSE "failed"]
      BY <1>5 DEF StoresInv, PlaceInv, Stores!GetNameToIDMap
    <2>2. \A x \in Stores!Trees : TreeInv(x)'
      BY <2>1, QuietStep
    <2>3. PlaceInv'
      BY <2>1 DEF StoresInv, PlaceInv, Stores!Ended
    <2>4. skipped[o] = {} => Stores!MapFound
      BY <2>1, CompleteFindsMap DEF StoresInv, ThroughInv
    <2>5. ThroughInv'
      BY <2>1, <2>4 DEF StoresInv, ThroughInv, Stores!All
    <2> QED BY <2>1, <2>2, <2>3, <2>5 DEF StoresInv, Stores!All
  <1> QED BY <1>1, <1>2, <1>3, <1>4, <1>5 DEF NextParallel, OnStores, Stores!Next, Stores!Step

\* Calls that open a file on the same stores do not spoil them: at most one is past
\* the first node of a tree and has loaded exactly what comes before its next node,
\* and a call fails on a sound file only if it skipped a tree (file.go and btree.go).
THEOREM OneCallFillsATree == SpecParallel => []OneWalkFills
  <1>1. StoresInv => OneWalkFills
    <2> SUFFICES ASSUME StoresInv PROVE OneWalkFills
      OBVIOUS
    <2>1. ASSUME NEW t \in Stores!Trees
          PROVE  /\ store[t] \subseteq Stores!All(t)
                 /\ \A o, p \in Stores!Past(t) : o = p
                 /\ store[t] # {} /\ store[t] # Stores!All(t) =>
                      \E o \in Stores!Past(t) :
                        store[t] = {WalkOrder[t][i] : i \in 1 .. next[o] - 1}
      <3>1. TreeInv(t)
        BY DEF StoresInv
      <3>2. CASE store[t] \in {{}, Stores!All(t)} /\ Stores!Past(t) = {}
        BY <3>2
      <3>3. ASSUME NEW o \in Openers, Stores!Past(t) = {o}, store[t] = First(t, next[o] - 1)
            PROVE  /\ store[t] \subseteq Stores!All(t)
                   /\ o \in Stores!Past(t)
                   /\ store[t] = {WalkOrder[t][i] : i \in 1 .. next[o] - 1}
        <4>1. next[o] \in 1..Len(WalkOrder[t])
          BY <3>3 DEF StoresInv, PlaceInv, Stores!Past
        <4>2. Len(WalkOrder[t]) \in Nat
          BY NodesDiffer
        <4> QED BY <3>3, <4>1, <4>2 DEF First, Stores!All
      <3> QED BY <3>1, <3>2, <3>3 DEF TreeInv
    <2>2. Stores!TypeOK
      BY <2>1 DEF StoresInv, PlaceInv, Stores!TypeOK
    <2>3. Stores!OneWalker
      BY <2>1 DEF StoresInv, PlaceInv, Stores!OneWalker
    <2>4. Stores!Filled
      BY <2>1 DEF Stores!Filled
    <2>5. Stores!FailureExplained
      BY DEF StoresInv, ThroughInv, Stores!FailureExplained
    <2> QED BY <2>2, <2>3, <2>4, <2>5 DEF OneWalkFills
  <1> QED BY StoresInit, StoresStep, <1>1, PTL DEF SpecParallel

=============================================================================
