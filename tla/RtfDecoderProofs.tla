-------------------------- MODULE RtfDecoderProofs --------------------------
(***************************************************************************)
(* Proofs about RtfDecoder: for every size of nibble, header and set of    *)
(* streams the ring is the recent end of what was delivered, so Decode     *)
(* implements the sliding window.  The arithmetic of the ring is confined  *)
(* to the first lemmas; after them only distances are compared.            *)
(***************************************************************************)
EXTENDS RtfDecoder, SequenceTheorems, TLAPS

\* A function on 1..n is a sequence of length n.
LEMMA BuiltFacts ==
  ASSUME NEW S, NEW n \in Nat, NEW f \in [1..n -> S]
  PROVE  f \in Seq(S) /\ Len(f) = n
  OBVIOUS

----------------------------------------------------------------------------
(* The arithmetic.                                                         *)

LEMMA SizeFacts ==
  /\ Nibble \in Nat /\ Nibble >= 2
  /\ RingSize \in Nat /\ RingSize >= 1 /\ 0 \in Byte
<1>1. Nibble \in Nat /\ Nibble >= 2
  BY NibbleAssumption
<1>2. Nibble * Nibble \in Nat /\ Nibble * Nibble >= 1
  BY <1>1
<1>3. (Nibble * Nibble) * Nibble \in Nat /\ (Nibble * Nibble) * Nibble >= 1
  BY <1>1, <1>2
<1> QED
  BY <1>1, <1>2, <1>3 DEF RingSize, Byte

LEMMA RefFacts ==
  ASSUME NEW hi \in Byte, NEW lo \in Byte
  PROVE  /\ RefOffset(hi, lo) \in 0..(RingSize - 1)
         /\ RefSize(lo) \in 0..(Nibble + 1)
<1>1. Nibble \in Nat /\ Nibble >= 2
  BY SizeFacts
<1>2. hi \in Nat /\ lo \in Nat /\ hi <= Nibble * Nibble - 1 /\ lo <= Nibble * Nibble - 1
  BY <1>1 DEF Byte
<1>3. lo % Nibble \in 0..(Nibble - 1)
  BY <1>1, <1>2
<1>4. lo \div Nibble \in 0..(Nibble - 1)
  BY <1>1, <1>2, SMTT(30)
<1>5. hi * Nibble \in Nat /\ hi * Nibble <= (Nibble * Nibble - 1) * Nibble
  BY <1>1, <1>2, SMTT(30)
<1>6. (Nibble * Nibble - 1) * Nibble = RingSize - Nibble
  BY <1>1, SMTT(30) DEF RingSize
<1>7. RingSize \in Nat
  BY SizeFacts
<1> QED
  BY <1>1, <1>3, <1>4, <1>5, <1>6, <1>7 DEF RefOffset, RefSize

LEMMA AdvanceFacts ==
  ASSUME NEW k \in 0..(RingSize - 1)
  PROVE  /\ Advance(k) \in 0..(RingSize - 1)
         /\ Advance(k) = IF k + 1 = RingSize THEN 0 ELSE k + 1
<1>1. RingSize \in Nat /\ RingSize >= 1
  BY SizeFacts
<1>2. (k + 1) % RingSize = IF k + 1 = RingSize THEN 0 ELSE k + 1
  BY <1>1, SMTT(30)
<1> QED
  BY <1>1, <1>2 DEF Advance

LEMMA HeaderFacts ==
  /\ Len(Header) \in Nat /\ Len(Header) < RingSize /\ Header \in Seq(Byte)
  /\ Before \in Seq(Byte) /\ Len(Before) = RingSize
  /\ \A k \in 1..(RingSize - Len(Header)) : Before[k] = 0
  /\ \A k \in 1..Len(Header) : Before[RingSize - Len(Header) + k] = Header[k]
<1> DEFINE zeros == [k \in 1..(RingSize - Len(Header)) |-> 0]
<1>1. Len(Header) \in Nat /\ Len(Header) < RingSize /\ Header \in Seq(Byte)
  BY HeaderAssumption
<1>2. RingSize \in Nat /\ 0 \in Byte /\ RingSize - Len(Header) \in Nat
  BY <1>1, SizeFacts
<1>3. zeros \in [1..(RingSize - Len(Header)) -> Byte]
  BY <1>2
<1>4. zeros \in Seq(Byte) /\ Len(zeros) = RingSize - Len(Header)
  BY <1>2, <1>3, BuiltFacts
<1>5. \A k \in 1..(RingSize - Len(Header)) : zeros[k] = 0
  OBVIOUS
<1>6. Before = zeros \o Header
  BY DEF Before
<1> HIDE DEF zeros
<1>7. /\ Before \in Seq(Byte) /\ Len(Before) = Len(zeros) + Len(Header)
      /\ \A k \in 1..Len(zeros) : Before[k] = zeros[k]
      /\ \A k \in (Len(zeros) + 1)..(Len(zeros) + Len(Header)) :
           Before[k] = Header[k - Len(zeros)]
  BY <1>1, <1>4, <1>6, ConcatProperties, LenProperties
<1>8. Len(Before) = RingSize
  BY <1>1, <1>2, <1>4, <1>7
<1>9. \A k \in 1..Len(Header) : Before[RingSize - Len(Header) + k] = Header[k]
  <2> TAKE k \in 1..Len(Header)
  <2> DEFINE j == RingSize - Len(Header) + k
  <2>1. j \in (Len(zeros) + 1)..(Len(zeros) + Len(Header)) /\ j - Len(zeros) = k
    BY <1>1, <1>2, <1>4
  <2> QED
    BY <1>7, <2>1
<1> QED
  BY <1>1, <1>4, <1>5, <1>7, <1>8, <1>9

\* Distances run over 1..RingSize, one index to each.
LEMMA DistanceFacts ==
  ASSUME NEW k \in 0..(RingSize - 1), bufferPosition \in 0..(RingSize - 1)
  PROVE  Distance(k) \in 1..RingSize
  BY SizeFacts DEF Distance

\* A copied byte leaves the distance as it is.
LEMMA DistanceKept ==
  ASSUME ref.offset \in 0..(RingSize - 1), bufferPosition \in 0..(RingSize - 1),
         ref.offset' = Advance(ref.offset), bufferPosition' = Advance(bufferPosition)
  PROVE  Distance(ref.offset)' = Distance(ref.offset)
  BY AdvanceFacts, SizeFacts DEF Distance

----------------------------------------------------------------------------
(* Quotients and remainders.                                               *)

LEMMA DivisionFacts ==
  ASSUME NEW S \in Nat \ {0}, NEW q \in Nat, NEW r \in 0..(S - 1)
  PROVE  (q * S + r) % S = r /\ (q * S + r) \div S = q
  BY SMTT(30)

LEMMA DivisionParts ==
  ASSUME NEW S \in Nat \ {0}, NEW a \in Nat
  PROVE  \E q \in Nat, r \in 0..(S - 1) : q = a \div S /\ r = a % S /\ a = q * S + r
<1>1. S > 0
  OBVIOUS
<1>2. PICK q \in Int : q = a \div S
  BY <1>1
<1>3. PICK r \in Int : r = a % S /\ r \in 0..(S - 1) /\ a = q * S + r
  BY <1>1, <1>2
<1>4. q \in Nat
  <2>1. SUFFICES ASSUME q < 0 PROVE FALSE
    BY <1>2
  <2>2. PICK m \in Nat : q = - m - 1
    <3>1. - q - 1 \in Nat /\ q = - (- q - 1) - 1
      BY <1>2, <2>1
    <3> QED
      BY <3>1
  <2>3. m * S \in Nat
    OBVIOUS
  <2>4. q * S = - (m * S) - S
    BY <2>2
  <2> QED
    BY <1>3, <2>3, <2>4
<1> QED
  BY <1>2, <1>3, <1>4

LEMMA RemainderNext ==
  ASSUME NEW S \in Nat \ {0}, NEW a \in Nat
  PROVE  /\ a % S \in 0..(S - 1)
         /\ (a + 1) % S = (IF (a % S) + 1 = S THEN 0 ELSE (a % S) + 1)
<1>1. PICK q \in Nat, r \in 0..(S - 1) : r = a % S /\ a = q * S + r
  BY DivisionParts
<1>2. CASE r + 1 = S
  <2>1. q + 1 \in Nat /\ 0 \in 0..(S - 1) /\ a + 1 = (q + 1) * S + 0
    BY <1>1, <1>2
  <2>2. ((q + 1) * S + 0) % S = 0
    BY <2>1, DivisionFacts
  <2> QED
    BY <1>1, <1>2, <2>1, <2>2
<1>3. CASE r + 1 # S
  <2>1. r + 1 \in 0..(S - 1) /\ q * S \in Nat /\ a + 1 = q * S + (r + 1)
    BY <1>1, <1>3
  <2>2. (q * S + (r + 1)) % S = r + 1
    BY <2>1, DivisionFacts
  <2> QED
    BY <1>1, <1>3, <2>1, <2>2
<1> QED
  BY <1>2, <1>3

LEMMA RemainderOnce ==
  ASSUME NEW S \in Nat \ {0}, NEW a \in 0..(2 * S - 1)
  PROVE  a % S = IF a < S THEN a ELSE a - S
  BY SMTT(30)

\* What a writer makes of a reference is read back (rtf.go, refOffset and refSize).
LEMMA ReferenceRead ==
  ASSUME NEW offset \in 0..(RingSize - 1), NEW size \in 2..(Nibble + 1)
  PROVE  /\ RefOffset(offset \div Nibble, (offset % Nibble) * Nibble + (size - 2)) = offset
         /\ RefSize((offset % Nibble) * Nibble + (size - 2)) = size
<1>1. Nibble \in Nat \ {0} /\ offset \in Nat /\ size - 2 \in 0..(Nibble - 1)
  BY NibbleAssumption, SizeFacts
<1>2. PICK q \in Nat, r \in 0..(Nibble - 1) :
        q = offset \div Nibble /\ r = offset % Nibble /\ offset = q * Nibble + r
  BY <1>1, DivisionParts
<1>3. PICK e \in 0..(Nibble - 1) : e = size - 2
  BY <1>1
<1>4. (r * Nibble + e) % Nibble = e /\ (r * Nibble + e) \div Nibble = r
  <2>1. r \in Nat /\ Nibble \in Nat \ {0}
    BY <1>1
  <2> QED
    BY <2>1, DivisionFacts
<1>5. e + 2 = size
  BY <1>3
<1> QED
  BY <1>2, <1>3, <1>4, <1>5 DEF RefOffset, RefSize

\* The ring index of a reference is as far back as its distance says.
LEMMA DistanceRead ==
  ASSUME NEW o \in 0..(RingSize - 1), NEW d \in 1..RingSize, NEW b \in 0..(RingSize - 1),
         (o + d) % RingSize = b
  PROVE  d = IF o < b THEN b - o ELSE b - o + RingSize
<1>1. RingSize \in Nat \ {0} /\ o + d \in 0..(2 * RingSize - 1)
  BY SizeFacts
<1>2. PICK a \in 0..(2 * RingSize - 1) : a = o + d
  BY <1>1
<1>3. a % RingSize = IF a < RingSize THEN a ELSE a - RingSize
  BY <1>1, RemainderOnce
<1> QED
  BY <1>1, <1>2, <1>3

----------------------------------------------------------------------------
(* Types.                                                                  *)

LEMMA DataFacts ==
  ASSUME TypeOK, NEW k \in Nat, k < Len(stream.body)
  PROVE  Data(k) \in Byte
<1>1. stream.body \in Seq(Byte)
  BY DEF TypeOK, Stream
<1> QED
  BY <1>1 DEF Data

\* Delivering a byte keeps the types of what it changes.
LEMMA DeliverTypes ==
  ASSUME TypeOK, NEW b \in Byte, Deliver(b)
  PROVE  /\ ring' \in [0..(RingSize - 1) -> Byte]
         /\ bufferPosition' \in 0..(RingSize - 1)
         /\ output' \in Seq(Byte)
<1>1. bufferPosition \in 0..(RingSize - 1)
  BY DEF TypeOK
<1> QED
  BY <1>1, AdvanceFacts DEF TypeOK, Deliver

LEMMA TypeInit ==
  ASSUME Init
  PROVE  TypeOK
<1>1. \A k \in 0..(RingSize - 1) : k < Len(Header) => Header[k + 1] \in Byte
  BY HeaderFacts, SizeFacts
<1>2. HeaderRing \in [0..(RingSize - 1) -> Byte]
  BY <1>1, SizeFacts DEF HeaderRing
<1>3. Len(Header) \in 0..(RingSize - 1)
  BY HeaderFacts, SizeFacts
<1>4. NoRef \in [offset : 0..(RingSize - 1), left : 0..(Nibble + 1)]
  BY SizeFacts DEF NoRef
<1> QED
  BY <1>2, <1>3, <1>4, StreamsAssumption, FlagBitsAssumption DEF Init, TypeOK

LEMMA ReturnsTypes ==
  ASSUME TypeOK, NEW kind \in {"ok", "error", "panic"}, NEW text \in Seq(Byte),
         Returns(kind, text)
  PROVE  TypeOK'
  BY DEF TypeOK, Returns, decoder

LEMMA TypeStep ==
  ASSUME TypeOK, Next
  PROVE  TypeOK'
<1>0. stream.body \in Seq(Byte) /\ stream.size \in Nat /\ position \in Nat /\ <<>> \in Seq(Byte)
  BY DEF TypeOK, Stream
<1>2. CASE GetBodyRTF
  <2>1. CASE stream.signature = "LZFu"
    <3>1. pc' = "group" /\ UNCHANGED <<stream, decoder, result>>
      BY <1>2, <2>1 DEF GetBodyRTF
    <3> QED
      BY <3>1 DEF TypeOK, decoder
  <2>2. CASE stream.signature \in {"absent", "unread", "other", "short"}
    <3>1. Returns("error", <<>>) \/ Returns("panic", <<>>)
      BY <1>2, <2>2 DEF GetBodyRTF
    <3> QED
      BY <1>0, <3>1, ReturnsTypes
  <2>3. CASE stream.signature = "MELA"
    BY <1>2, <2>3 DEF GetBodyRTF
  <2> QED
    BY <2>1, <2>2, <2>3 DEF TypeOK, Stream
<1>3. CASE Uncompressed
  <2> DEFINE n == Len(stream.body) - 16
  <2>1. n >= 0 => SubSeq(stream.body, 1, n) \in Seq(Byte)
    BY <1>0
  <2>2. (n >= 0 /\ Returns("ok", SubSeq(stream.body, 1, n))) \/ Returns("panic", <<>>)
    BY <1>3 DEF Uncompressed
  <2> QED
    BY <1>0, <2>1, <2>2, ReturnsTypes
<1>4. CASE ReadFlags
  <2>1. Data(position) \in Byte /\ Data(position) \in Nat
    BY <1>0, <1>4, DataFacts, SizeFacts DEF ReadFlags, MoreGroups, Byte
  <2> QED
    BY <1>0, <1>4, <2>1, FlagBitsAssumption DEF TypeOK, ReadFlags
<1>5. ASSUME MoreTokens, NextToken
      PROVE  flags' \in Nat /\ i' \in 0..FlagBits
  BY <1>5, FlagBitsAssumption DEF TypeOK, MoreTokens, NextToken
<1>6. CASE Literal
  <2>1. Data(position) \in Byte /\ Deliver(Data(position))
    BY <1>0, <1>6, DataFacts DEF Literal
  <2>2. flags' \in Nat /\ i' \in 0..FlagBits
    BY <1>5, <1>6 DEF Literal
  <2> QED
    BY <1>6, <2>1, <2>2, DeliverTypes DEF TypeOK, Literal
<1>7. CASE BeginRef
  <2>1. Data(position) \in Byte /\ Data(position + 1) \in Byte
    BY <1>0, <1>7, DataFacts DEF BeginRef
  <2>2. flags' \in Nat /\ i' \in 0..FlagBits
    BY <1>5, <1>7 DEF BeginRef
  <2>3. ref' \in [offset : 0..(RingSize - 1), left : 0..(Nibble + 1)]
    <3>1. ref' = [offset |-> RefOffset(Data(position), Data(position + 1)),
                  left |-> RefSize(Data(position + 1))]
      BY <1>7 DEF BeginRef
    <3> QED
      BY <2>1, <3>1, RefFacts
  <2>4. /\ pc' = "copy" /\ position' = position + 2
        /\ UNCHANGED <<stream, ring, bufferPosition, output, result>>
    BY <1>7 DEF BeginRef
  <2> QED
    BY <1>0, <2>2, <2>3, <2>4 DEF TypeOK
<1>8. CASE Overrun
  BY <1>0, <1>8, ReturnsTypes DEF Overrun
<1>9. CASE CopyByte
  <2>1. ring[ref.offset] \in Byte /\ Deliver(ring[ref.offset])
    BY <1>9 DEF TypeOK, CopyByte
  <2>2. ref' \in [offset : 0..(RingSize - 1), left : 0..(Nibble + 1)]
    BY <1>9, AdvanceFacts, SizeFacts DEF TypeOK, CopyByte, MoreBytes
  <2> QED
    BY <1>9, <2>1, <2>2, DeliverTypes DEF TypeOK, CopyByte
<1>10. CASE EndRef \/ EndGroup
  BY <1>10 DEF TypeOK, EndRef, EndGroup, decoder
<1>11. CASE Finish
  <2>1. Returns("ok", output) \/ Returns("error", <<>>)
    BY <1>11 DEF Finish
  <2> QED
    BY <1>0, <2>1, ReturnsTypes DEF TypeOK
<1> QED
  BY <1>2, <1>3, <1>4, <1>6, <1>7, <1>8, <1>9, <1>10, <1>11 DEF Next

LEMMA TypeStutter ==
  ASSUME TypeOK, UNCHANGED vars
  PROVE  TypeOK'
  BY DEF TypeOK, vars, decoder

\* Every index into the ring stays inside it, whatever a stream's references
\* say (rtf.go, Decode).
THEOREM TypeCorrectness == Spec => []TypeOK
<1>1. Init => TypeOK
  BY TypeInit
<1>2. TypeOK /\ [Next]_vars => TypeOK'
  BY TypeStep, TypeStutter
<1> QED
  BY <1>1, <1>2, PTL DEF Spec

----------------------------------------------------------------------------
(* The ring is the recent end of the history.                              *)

LEMMA HistoryFacts ==
  ASSUME TypeOK
  PROVE  /\ History \in Seq(Byte)
         /\ Len(History) = RingSize + Len(output)
         /\ Len(History) \in Nat /\ Len(History) >= RingSize
<1>1. output \in Seq(Byte) /\ Len(output) \in Nat
  BY DEF TypeOK
<1>2. Before \in Seq(Byte) /\ Len(Before) = RingSize
  BY HeaderFacts
<1>3. Before \o output \in Seq(Byte) /\ Len(Before \o output) = Len(Before) + Len(output)
  BY <1>1, <1>2, ConcatProperties, LenProperties
<1> QED
  BY <1>1, <1>2, <1>3, SizeFacts DEF History

\* Distances grow by one when the write position moves, but that of the index
\* just written, which becomes 1.
LEMMA DistanceAdvances ==
  ASSUME bufferPosition \in 0..(RingSize - 1), bufferPosition' = Advance(bufferPosition),
         NEW k \in 0..(RingSize - 1)
  PROVE  Distance(k)' = IF k = bufferPosition THEN 1 ELSE Distance(k) + 1
<1>1. bufferPosition' = IF bufferPosition + 1 = RingSize THEN 0 ELSE bufferPosition + 1
  BY AdvanceFacts
<1> QED
  BY <1>1, SizeFacts DEF Distance

\* A delivered byte is the next of the history, and the ring stays recent.
LEMMA DeliverWindow ==
  ASSUME TypeOK, WindowIsRecent, NEW b \in Byte, Deliver(b)
  PROVE  WindowIsRecent' /\ History' = Append(History, b)
<1>1. bufferPosition \in 0..(RingSize - 1) /\ ring \in [0..(RingSize - 1) -> Byte]
  BY DEF TypeOK
<1>2. History' = Append(History, b)
  <2>1. Before' = Before
    BY DEF Before
  <2>2. Before \in Seq(Byte) /\ output \in Seq(Byte) /\ output' = Append(output, b)
    BY HeaderFacts DEF TypeOK, Deliver
  <2>3. Before \o Append(output, b) = Append(Before \o output, b)
    BY <2>2
  <2> QED
    BY <2>1, <2>2, <2>3 DEF History
<1>3. WindowIsRecent'
  <2>1. SUFFICES ASSUME NEW k \in 0..(RingSize - 1)
                 PROVE  ring'[k] = History'[Len(History') + 1 - Distance(k)']
    BY SizeFacts DEF WindowIsRecent
  <2>2. Distance(k)' = IF k = bufferPosition THEN 1 ELSE Distance(k) + 1
    BY <1>1, DistanceAdvances DEF Deliver
  <2>3. /\ Len(History') = Len(History) + 1
        /\ History'[Len(History) + 1] = b
        /\ \A j \in 1..Len(History) : History'[j] = History[j]
    BY <1>2, HistoryFacts, AppendProperties, LenProperties
  <2>4. CASE k = bufferPosition
    BY <1>1, <2>2, <2>3, <2>4, HistoryFacts DEF Deliver
  <2>5. CASE k # bufferPosition
    <3>1. ring'[k] = ring[k]
      BY <1>1, <2>5 DEF Deliver
    <3>2. Distance(k) \in 1..RingSize
      BY <1>1, DistanceFacts
    <3>3. Len(History) + 1 - Distance(k) \in 1..Len(History)
      BY <3>2, HistoryFacts, SizeFacts
    <3>4. Len(History') + 1 - Distance(k)' = Len(History) + 1 - Distance(k)
      BY <2>2, <2>3, <2>5, <3>2, HistoryFacts, SizeFacts
    <3> QED
      BY <2>3, <3>1, <3>3, <3>4 DEF WindowIsRecent
  <2> QED
    BY <2>4, <2>5
<1> QED
  BY <1>2, <1>3

\* No other action touches the ring or the output.
LEMMA StillWindow ==
  ASSUME UNCHANGED <<ring, bufferPosition, output>>
  PROVE  History' = History /\ (WindowIsRecent => WindowIsRecent')
  BY DEF History, Before, WindowIsRecent, Distance

LEMMA StepKinds ==
  ASSUME TypeOK, Next
  PROVE  \/ UNCHANGED <<ring, bufferPosition, output>>
         \/ Literal /\ Data(position) \in Byte /\ Deliver(Data(position))
         \/ CopyByte /\ ring[ref.offset] \in Byte /\ Deliver(ring[ref.offset])
<1>1. Literal => Data(position) \in Byte /\ Deliver(Data(position))
  BY DataFacts DEF Literal, TypeOK
<1>2. CopyByte => ring[ref.offset] \in Byte /\ Deliver(ring[ref.offset])
  BY DEF CopyByte, TypeOK
<1> QED
  BY <1>1, <1>2 DEF Next, GetBodyRTF, Uncompressed, Returns, decoder, ReadFlags,
                    BeginRef, Overrun, EndRef, EndGroup, Finish

LEMMA WindowInit ==
  ASSUME Init
  PROVE  WindowIsRecent
<1>1. TypeOK /\ output = <<>> /\ bufferPosition = Len(Header) /\ ring = HeaderRing
  BY TypeInit DEF Init
<1>2. History = Before
  BY <1>1, HeaderFacts DEF History
<1>3. SUFFICES ASSUME NEW k \in 0..(RingSize - 1)
               PROVE  HeaderRing[k] = Before[RingSize + 1 - Distance(k)]
  BY <1>1, <1>2, HeaderFacts, SizeFacts DEF WindowIsRecent
<1>4. CASE k < Len(Header)
  <2>1. RingSize + 1 - Distance(k) = RingSize - Len(Header) + (k + 1)
    BY <1>1, <1>4, HeaderFacts, SizeFacts DEF Distance
  <2>2. k + 1 \in 1..Len(Header)
    BY <1>4, HeaderFacts, SizeFacts
  <2>3. Before[RingSize - Len(Header) + (k + 1)] = Header[k + 1]
    BY <2>2, HeaderFacts
  <2> QED
    BY <1>4, <2>1, <2>3 DEF HeaderRing
<1>5. CASE ~ (k < Len(Header))
  <2>1. RingSize + 1 - Distance(k) \in 1..(RingSize - Len(Header))
    BY <1>1, <1>5, HeaderFacts, SizeFacts DEF Distance
  <2> QED
    BY <1>5, <2>1, HeaderFacts DEF HeaderRing
<1> QED
  BY <1>4, <1>5

LEMMA WindowStep ==
  ASSUME TypeOK, WindowIsRecent, [Next]_vars
  PROVE  WindowIsRecent'
<1>1. CASE Next
  BY <1>1, StepKinds, StillWindow, DeliverWindow
<1>2. CASE UNCHANGED vars
  BY <1>2, StillWindow DEF vars, decoder
<1> QED
  BY <1>1, <1>2

\* The ring holds the last bytes delivered, each at its distance behind the
\* write position, however often that has gone round (rtf.go, lzBuffer).
THEOREM RingIsWindow == Spec => []WindowIsRecent
<1>1. Init => WindowIsRecent
  BY WindowInit
<1>2. TypeOK /\ WindowIsRecent /\ [Next]_vars => WindowIsRecent'
  BY WindowStep
<1> QED
  BY <1>1, <1>2, TypeCorrectness, PTL DEF Spec

----------------------------------------------------------------------------
(* Decode implements the sliding window.                                   *)

Away == IF pc = "copy" THEN Distance(ref.offset) ELSE 0

LEMMA RefinementInit ==
  ASSUME Init
  PROVE  Decompressor!Init
<1>1. TypeOK /\ Len(output) = 0 /\ pc = "idle"
  BY TypeInit DEF Init
<1> QED
  BY <1>1, HistoryFacts, SizeFacts DEF Decompressor!Init

LEMMA RefinementStep ==
  ASSUME TypeOK, WindowIsRecent, Next
  PROVE  Decompressor!Next \/ UNCHANGED <<History, Away>>
<1> USE DEF Away
<1>1. CASE Literal
  <2>1. Data(position) \in Byte /\ History' = Append(History, Data(position))
    BY <1>1, DataFacts, DeliverWindow DEF Literal, TypeOK
  <2>2. pc = "token" /\ pc' = "token"
    BY <1>1 DEF Literal
  <2> QED
    BY <2>1, <2>2 DEF Decompressor!Next, Decompressor!Literal
<1>2. CASE BeginRef
  <2>1. pc = "token" /\ pc' = "copy" /\ UNCHANGED <<ring, bufferPosition, output>>
    BY <1>2 DEF BeginRef
  <2>2. TypeOK'
    BY TypeStep
  <2>3. ref.offset' \in 0..(RingSize - 1) /\ bufferPosition' \in 0..(RingSize - 1)
    BY <2>2 DEF TypeOK
  <2>4. Distance(ref.offset)' \in 1..RingSize
    BY <2>3, SizeFacts DEF Distance
  <2>5. History' = History
    BY <2>1, StillWindow
  <2> QED
    BY <2>1, <2>4, <2>5 DEF Decompressor!Next, Decompressor!Refer
<1>3. CASE CopyByte
  <2> DEFINE d == Distance(ref.offset)
  <2>1. /\ pc = "copy" /\ pc' = "copy"
        /\ Deliver(ring[ref.offset]) /\ ring[ref.offset] \in Byte
        /\ ref.offset' = Advance(ref.offset)
    BY <1>3 DEF CopyByte, TypeOK
  <2>2. ref.offset \in 0..(RingSize - 1) /\ bufferPosition \in 0..(RingSize - 1)
    BY DEF TypeOK
  <2>3. History' = Append(History, History[Len(History) + 1 - d])
    BY <2>1, <2>2, DeliverWindow DEF WindowIsRecent
  <2>4. Distance(ref.offset)' = d
    <3>1. bufferPosition' = Advance(bufferPosition)
      BY <2>1 DEF Deliver
    <3> QED
      BY <2>1, <2>2, <3>1, DistanceKept
  <2>5. d # 0
    BY <2>2, DistanceFacts
  <2> QED
    BY <2>1, <2>3, <2>4, <2>5 DEF Decompressor!Next, Decompressor!Repeat
<1>4. CASE EndRef
  <2>1. pc = "copy" /\ pc' = "token" /\ UNCHANGED <<ring, bufferPosition, output>>
    BY <1>4 DEF EndRef, decoder
  <2>2. Distance(ref.offset) # 0
    BY DistanceFacts DEF TypeOK
  <2> QED
    BY <2>1, <2>2, StillWindow DEF Decompressor!Next, Decompressor!EndReference
<1>5. CASE GetBodyRTF \/ Uncompressed \/ ReadFlags \/ Overrun \/ EndGroup \/ Finish
  <2>1. pc # "copy" /\ pc' # "copy" /\ UNCHANGED <<ring, bufferPosition, output>>
    BY <1>5 DEF GetBodyRTF, Uncompressed, Returns, decoder, ReadFlags, Overrun,
                EndGroup, Finish
  <2> QED
    BY <2>1, StillWindow
<1> QED
  BY <1>1, <1>2, <1>3, <1>4, <1>5 DEF Next

\* Every byte Decode delivers is new or repeats the one a fixed distance back,
\* for every ring, header and stream (rtf.go, Decode).
THEOREM DecodeIsSlidingWindow == Spec => ImplementsWindow
<1>1. Init => Decompressor!Init
  BY RefinementInit
<1>2. TypeOK /\ WindowIsRecent /\ [Next]_vars => [Decompressor!Next]_<<History, Away>>
  <2>1. ASSUME UNCHANGED vars
        PROVE  UNCHANGED <<History, Away>>
    BY <2>1 DEF vars, decoder, History, Before, Away, Distance
  <2> QED
    BY <2>1, RefinementStep
<1> QED
  BY <1>1, <1>2, TypeCorrectness, RingIsWindow, PTL
     DEF Spec, ImplementsWindow, Decompressor!Spec, Away

----------------------------------------------------------------------------
(* The text.                                                               *)

Compressed == stream.sound /\ stream.signature = "LZFu"

\* The text that the first d tokens stand for is Upto(d) bytes long.
Upto(d) == IF d = 0 THEN 0 ELSE Through(stream.tokens[d])

\* Token d + 1 is the next, and comes now, or behind the flags that come now.
Ahead(d) ==
  \/ d = Len(stream.tokens)
  \/ /\ i < FlagBits /\ pc # "group"
     /\ stream.tokens[d + 1].place = i + 1
     /\ stream.tokens[d + 1].flags = flags /\ stream.tokens[d + 1].at = position
  \/ /\ i = FlagBits \/ pc = "group"
     /\ stream.tokens[d + 1].place = 1 /\ stream.tokens[d + 1].at = position + 1

\* The first d tokens are done.
Done(d) == Ahead(d) /\ Len(output) = Upto(d)

\* The last of the first d tokens is a reference, of which ref has what is left.
Copying(d) ==
  LET t == stream.tokens[d]
  IN  /\ t.ref /\ Distance(ref.offset) = t.distance
      /\ ref.left <= t.size /\ Len(output) = t.before + t.size - ref.left /\ Ahead(d)

\* What is delivered is the beginning of the text, and the loops stand between two
\* tokens or in a reference.
ProgressInv ==
  /\ Len(output) <= Len(stream.text)
  /\ \A k \in 1..Len(output) : output[k] = stream.text[k]
  /\ pc = "idle" => position = 0 /\ output = <<>>
  /\ pc \in {"group", "token"} => \E d \in 0..Len(stream.tokens) : Done(d)
  /\ pc = "copy" => \E d \in 1..Len(stream.tokens) : Copying(d)
  /\ pc = "done" => result = [kind |-> "ok", text |-> stream.text]

TextInv ==
  /\ bufferPosition = (Len(Header) + Len(output)) % RingSize
  /\ stream \in Streams
  /\ result.kind = "ok" /\ stream.signature = "LZFu" => Len(result.text) = stream.size
  /\ Compressed => ProgressInv

\* A sound stream's tokens lie one after the other.
LEMMA TokenFacts ==
  ASSUME stream \in Streams, Compressed
  PROVE  /\ Len(stream.tokens) \in Nat /\ Len(stream.text) \in Nat /\ stream.text \in Seq(Byte)
         /\ stream.size = Len(stream.text) /\ Upto(Len(stream.tokens)) = Len(stream.text)
         /\ stream.body \in Seq(Byte) /\ Len(stream.body) \in Nat
         /\ Len(stream.tokens) # 0 => stream.tokens[1].place = 1 /\ stream.tokens[1].at = 1
         /\ \A k \in 1..Len(stream.tokens) :
              LET t == stream.tokens[k]
              IN  /\ t \in Token /\ t.before = Upto(k - 1) /\ t.before + t.size = Upto(k)
                  /\ t.before + t.size <= Len(stream.text)
                  /\ After(t) + 2 <= Len(stream.body) /\ Encodes(stream, t)
                  /\ t.place = 1 => stream.body[t.at] = t.flags
                  /\ t.flags % 2 = (IF t.ref THEN 1 ELSE 0)
                  /\ k + 1 \in 1..Len(stream.tokens) => Follows(t, stream.tokens[k + 1])
<1>1. /\ stream.tokens \in Seq(Token) /\ stream.text \in Seq(Byte) /\ stream.body \in Seq(Byte)
      /\ Written(stream)
  BY StreamsAssumption, SoundAssumption DEF Stream, Compressed
<1>2. /\ Len(stream.tokens) \in Nat /\ Len(stream.text) \in Nat /\ Len(stream.body) \in Nat
      /\ \A k \in 1..Len(stream.tokens) : stream.tokens[k] \in Token
  BY <1>1
<1>3. /\ stream.size = Len(stream.text)
      /\ IF Len(stream.tokens) = 0 THEN stream.size = 0
         ELSE Through(stream.tokens[Len(stream.tokens)]) = stream.size
      /\ Len(stream.tokens) # 0 =>
           /\ stream.tokens[1].place = 1 /\ stream.tokens[1].at = 1
           /\ stream.tokens[1].before = 0
      /\ \A k \in 1..(Len(stream.tokens) - 1) : Follows(stream.tokens[k], stream.tokens[k + 1])
  BY <1>1 DEF Written
<1>4. ASSUME NEW k \in 1..Len(stream.tokens)
      PROVE  /\ stream.tokens[k].place = 1 => stream.body[stream.tokens[k].at] = stream.tokens[k].flags
             /\ stream.tokens[k].flags % 2 = (IF stream.tokens[k].ref THEN 1 ELSE 0)
             /\ Encodes(stream, stream.tokens[k])
             /\ Through(stream.tokens[k]) <= stream.size
             /\ After(stream.tokens[k]) + 2 <= Len(stream.body)
  BY <1>1 DEF Written
<1>5. Upto(Len(stream.tokens)) = Len(stream.text)
  BY <1>3 DEF Upto
<1>6. ASSUME NEW k \in 1..Len(stream.tokens)
      PROVE  stream.tokens[k].before = Upto(k - 1)
  <2>1. CASE k = 1
    BY <1>2, <1>3, <2>1 DEF Upto
  <2>2. CASE k # 1
    <3>1. k - 1 \in 1..(Len(stream.tokens) - 1) /\ (k - 1) + 1 = k /\ k - 1 # 0
      BY <1>2, <2>2
    <3>2. Follows(stream.tokens[k - 1], stream.tokens[k])
      BY <1>3, <3>1
    <3> QED
      BY <3>1, <3>2 DEF Follows, Upto
  <2> QED
    BY <2>1, <2>2
<1>7. ASSUME NEW k \in 1..Len(stream.tokens)
      PROVE  stream.tokens[k].before + stream.tokens[k].size = Upto(k)
  <2>1. k # 0
    BY <1>2
  <2> QED
    BY <2>1 DEF Upto, Through
<1>8. ASSUME NEW k \in 1..Len(stream.tokens), k + 1 \in 1..Len(stream.tokens)
      PROVE  Follows(stream.tokens[k], stream.tokens[k + 1])
  <2>1. k \in 1..(Len(stream.tokens) - 1)
    BY <1>2, <1>8
  <2> QED
    BY <1>3, <2>1
<1> QED
  BY <1>1, <1>2, <1>3, <1>4, <1>5, <1>6, <1>7, <1>8 DEF Through

LEMMA TokenTypes ==
  ASSUME NEW t \in Token
  PROVE  /\ t.ref \in BOOLEAN /\ t.offset \in 0..(RingSize - 1) /\ t.distance \in 1..RingSize
         /\ t.size \in 1..(Nibble + 1) /\ t.place \in 1..FlagBits /\ t.flags \in Nat
         /\ t.at \in Nat /\ t.before \in Nat /\ After(t) \in Nat
  BY SizeFacts DEF Token, Byte, After

\* Between two tokens the output is full only behind the last.
LEMMA FullAtEnd ==
  ASSUME stream \in Streams, Compressed, NEW d \in 0..Len(stream.tokens), Len(output) = Upto(d)
  PROVE  OutputFull <=> d = Len(stream.tokens)
<1>1. CASE d = Len(stream.tokens)
  <2>1. Len(output) = stream.size /\ stream.size \in Nat
    BY <1>1, TokenFacts
  <2> QED
    BY <1>1, <2>1 DEF OutputFull
<1>2. CASE d # Len(stream.tokens)
  <2>1. d + 1 \in 1..Len(stream.tokens) /\ (d + 1) - 1 = d
    BY <1>2, TokenFacts
  <2>2. PICK t \in Token : t = stream.tokens[d + 1]
    BY <2>1, TokenFacts
  <2>3. t.before = Len(output) /\ t.before + t.size <= stream.size /\ stream.size \in Nat
    BY <2>1, <2>2, TokenFacts
  <2>4. t.size \in Nat /\ t.size >= 1 /\ t.before \in Nat
    BY TokenTypes, SizeFacts
  <2> QED
    BY <1>2, <2>3, <2>4 DEF OutputFull
<1> QED
  BY <1>1, <1>2

\* Before a token that comes now there is nothing to do; behind it comes the next.
LEMMA TokenPassed ==
  ASSUME TypeOK, stream \in Streams, Compressed, NEW d \in 0..Len(stream.tokens), Ahead(d),
         d # Len(stream.tokens), MoreTokens, NextToken, pc = "token",
         position' = After(stream.tokens[d + 1]), pc' # "group", UNCHANGED stream
  PROVE  Ahead(d + 1)'
<1>1. d + 1 \in 1..Len(stream.tokens) /\ Len(stream.tokens) \in Nat
  BY TokenFacts
<1>2. PICK t \in Token : t = stream.tokens[d + 1]
  BY <1>1, TokenFacts
<1>3. t.place = i + 1 /\ t.flags = flags /\ i < FlagBits /\ i \in Nat /\ FlagBits \in Nat
  BY <1>2, FlagBitsAssumption DEF TypeOK, Ahead, MoreTokens
<1>4. i' = t.place /\ flags' = t.flags \div 2 /\ position' = After(t)
  BY <1>2, <1>3 DEF NextToken
<1>5. CASE d + 1 = Len(stream.tokens)
  BY <1>5 DEF Ahead
<1>6. CASE d + 1 # Len(stream.tokens)
  <2>1. (d + 1) + 1 \in 1..Len(stream.tokens)
    BY <1>1, <1>6
  <2>2. PICK u \in Token : u = stream.tokens[(d + 1) + 1] /\ Follows(t, u)
    BY <1>1, <1>2, <2>1, TokenFacts
  <2>3. t.place \in 1..FlagBits /\ After(t) \in Nat
    BY TokenTypes
  <2>4. CASE t.place < FlagBits
    <3>1. u.place = i' + 1 /\ u.at = position' /\ u.flags = flags' /\ i' < FlagBits
      BY <1>4, <2>2, <2>4 DEF Follows
    <3> QED
      BY <2>2, <3>1 DEF Ahead
  <2>5. CASE ~ (t.place < FlagBits)
    <3>1. u.place = 1 /\ u.at = position' + 1 /\ i' = FlagBits
      BY <1>3, <1>4, <2>2, <2>3, <2>5 DEF Follows
    <3> QED
      BY <2>2, <3>1 DEF Ahead
  <2> QED
    BY <2>4, <2>5
<1> QED
  BY <1>5, <1>6

\* A byte of the text delivered in its place.
LEMMA DeliverText ==
  ASSUME TypeOK, stream \in Streams, Compressed, NEW b \in Byte, Deliver(b), UNCHANGED stream,
         Len(output) < Len(stream.text), b = stream.text[Len(output) + 1],
         \A k \in 1..Len(output) : output[k] = stream.text[k]
  PROVE  /\ Len(output') = Len(output) + 1 /\ Len(output') <= Len(stream.text)
         /\ \A k \in 1..Len(output') : output'[k] = stream.text[k]
<1>1. output \in Seq(Byte) /\ Len(output) \in Nat /\ Len(stream.text) \in Nat
  BY TokenFacts DEF TypeOK
<1>2. /\ Len(output') = Len(output) + 1 /\ output'[Len(output) + 1] = b
      /\ \A k \in 1..Len(output) : output'[k] = output[k]
  BY <1>1, AppendProperties DEF Deliver
<1> QED
  BY <1>1, <1>2

\* The write position counts the bytes delivered.
LEMMA DeliverPosition ==
  ASSUME TypeOK, NEW b \in Byte, Deliver(b),
         bufferPosition = (Len(Header) + Len(output)) % RingSize
  PROVE  bufferPosition' = (Len(Header) + Len(output')) % RingSize
<1>1. PICK a \in Nat : a = Len(Header) + Len(output)
  BY HeaderFacts DEF TypeOK
<1>2. Len(Header) + Len(output') = a + 1
  <2>1. Len(output') = Len(output) + 1
    BY AppendProperties DEF TypeOK, Deliver
  <2>2. Len(Header) \in Nat /\ Len(output) \in Nat
    BY HeaderFacts DEF TypeOK
  <2> QED
    BY <1>1, <2>1, <2>2
<1>3. RingSize \in Nat \ {0}
  BY SizeFacts
<1>4. (a + 1) % RingSize = (IF (a % RingSize) + 1 = RingSize THEN 0 ELSE (a % RingSize) + 1)
  BY <1>3, RemainderNext
<1>5. bufferPosition' = IF bufferPosition + 1 = RingSize THEN 0 ELSE bufferPosition + 1
  BY AdvanceFacts DEF TypeOK, Deliver
<1> QED
  BY <1>1, <1>2, <1>4, <1>5

LEMMA TextInit ==
  ASSUME Init
  PROVE  TextInv
<1>1. TypeOK /\ Len(output) = 0 /\ output = <<>> /\ position = 0 /\ pc = "idle"
  BY TypeInit DEF Init
<1>2. Len(Header) + Len(output) = Len(Header) /\ Len(Header) \in 0..(RingSize - 1)
  BY <1>1, HeaderFacts, SizeFacts
<1>3. Len(Header) % RingSize = Len(Header)
  <2>1. RingSize \in Nat \ {0} /\ Len(Header) \in 0..(2 * RingSize - 1) /\ Len(Header) < RingSize
    BY <1>2, SizeFacts
  <2> QED
    BY <2>1, RemainderOnce
<1>4. bufferPosition = (Len(Header) + Len(output)) % RingSize
  BY <1>2, <1>3 DEF Init
<1>5. result.kind = "none" /\ stream \in Streams
  BY DEF Init
<1>6. Compressed => ProgressInv
  <2> SUFFICES ASSUME Compressed PROVE ProgressInv
    OBVIOUS
  <2>1. Len(stream.text) \in Nat
    BY <1>5, TokenFacts
  <2> QED
    BY <1>1, <2>1 DEF ProgressInv
<1> QED
  BY <1>4, <1>5, <1>6 DEF TextInv

\* Neither a token nor a byte is delivered: what is delivered stays the beginning.
LEMMA NothingDelivered ==
  ASSUME TypeOK, TextInv, UNCHANGED <<stream, output, bufferPosition>>,
         result' = result \/ (\E kind, text : Returns(kind, text) /\
            (kind = "ok" /\ stream.signature = "LZFu" => Len(text) = stream.size))
  PROVE  /\ bufferPosition' = (Len(Header) + Len(output')) % RingSize
         /\ stream' \in Streams
         /\ result'.kind = "ok" /\ stream'.signature = "LZFu" => Len(result'.text) = stream'.size
  BY DEF TextInv, Returns

LEMMA LiteralText ==
  ASSUME TypeOK, TextInv, Compressed, Literal
  PROVE  ProgressInv'
<1>1. PICK d \in 0..Len(stream.tokens) : Done(d)
  BY DEF Literal, TextInv, ProgressInv
<1>2. stream \in Streams /\ d # Len(stream.tokens)
  BY <1>1, FullAtEnd DEF TextInv, Done, Literal, MoreTokens
<1>3. d + 1 \in 1..Len(stream.tokens) /\ (d + 1) - 1 = d
  BY <1>2, TokenFacts
<1>4. PICK t \in Token : t = stream.tokens[d + 1]
  BY <1>2, <1>3, TokenFacts
<1>5. t.at = position /\ t.flags = flags /\ i < FlagBits
  <2>1. pc = "token" /\ i < FlagBits /\ i # FlagBits
    BY FlagBitsAssumption DEF Literal, MoreTokens, TypeOK
  <2> QED
    BY <1>1, <1>2, <1>4, <2>1 DEF Done, Ahead
<1>6. ~ t.ref
  <2>1. t.flags % 2 = 0
    BY <1>5 DEF Literal
  <2>2. t.flags % 2 = (IF t.ref THEN 1 ELSE 0)
    BY <1>2, <1>3, <1>4, TokenFacts
  <2> QED
    BY <2>1, <2>2
<1>7. /\ t.size = 1 /\ stream.body[t.at + 1] = stream.text[t.before + 1]
      /\ t.before = Len(output) /\ t.before + 1 = Upto(d + 1)
      /\ t.before + 1 <= Len(stream.text) /\ After(t) = position + 1
  BY <1>1, <1>2, <1>3, <1>4, <1>5, <1>6, TokenFacts DEF Encodes, Done, After
<1>8. /\ Data(position) \in Byte /\ Deliver(Data(position))
      /\ Data(position) = stream.text[Len(output) + 1]
  BY <1>5, <1>7, DataFacts DEF TypeOK, Literal, Data
<1>9. UNCHANGED stream /\ pc = "token" /\ pc' = "token" /\ position' = position + 1
      /\ MoreTokens /\ NextToken
  BY DEF Literal
<1>10. /\ Len(output') = Len(output) + 1 /\ Len(output') <= Len(stream.text)
       /\ \A k \in 1..Len(output') : output'[k] = stream.text[k]
  <2>1. Len(output) < Len(stream.text)
    BY <1>2, <1>7, TokenFacts DEF TypeOK
  <2>2. \A k \in 1..Len(output) : output[k] = stream.text[k]
    BY DEF TextInv, ProgressInv
  <2> QED
    BY <1>2, <1>8, <1>9, <2>1, <2>2, DeliverText
<1>11. Ahead(d + 1)'
  BY <1>1, <1>2, <1>4, <1>7, <1>9, TokenPassed DEF Done
<1>12. Len(output') = Upto(d + 1)'
  BY <1>7, <1>9, <1>10 DEF Upto
<1>13. d + 1 \in 0..Len(stream'.tokens) /\ Done(d + 1)'
  <2>1. d + 1 \in 0..Len(stream.tokens)
    BY <1>3
  <2> QED
    BY <1>9, <1>11, <1>12, <2>1 DEF Done
<1> QED
  BY <1>9, <1>10, <1>13 DEF ProgressInv

LEMMA BeginRefText ==
  ASSUME TypeOK, TextInv, Compressed, BeginRef
  PROVE  ProgressInv'
<1>1. PICK d \in 0..Len(stream.tokens) : Done(d)
  BY DEF BeginRef, TextInv, ProgressInv
<1>2. stream \in Streams /\ d # Len(stream.tokens)
  BY <1>1, FullAtEnd DEF TextInv, Done, BeginRef, MoreTokens
<1>3. d + 1 \in 1..Len(stream.tokens) /\ (d + 1) - 1 = d
  BY <1>2, TokenFacts
<1>4. PICK t \in Token : t = stream.tokens[d + 1]
  BY <1>2, <1>3, TokenFacts
<1>5. t.at = position /\ t.flags = flags /\ i < FlagBits
  <2>1. pc = "token" /\ i < FlagBits /\ i # FlagBits
    BY FlagBitsAssumption DEF BeginRef, MoreTokens, TypeOK
  <2> QED
    BY <1>1, <1>2, <1>4, <2>1 DEF Done, Ahead
<1>6. t.ref
  <2>1. t.flags % 2 = 1
    BY <1>5 DEF BeginRef
  <2>2. t.flags % 2 = (IF t.ref THEN 1 ELSE 0)
    BY <1>2, <1>3, <1>4, TokenFacts
  <2> QED
    BY <2>1, <2>2
<1>7. Encodes(stream, t) /\ t.before = Upto(d)
  BY <1>2, <1>3, <1>4, TokenFacts
<1>8. /\ Data(position) = t.offset \div Nibble
      /\ Data(position + 1) = (t.offset % Nibble) * Nibble + (t.size - 2)
      /\ t.size \in 2..(Nibble + 1) /\ t.offset \in 0..(RingSize - 1)
      /\ t.distance \in 1..RingSize
      /\ (t.offset + t.distance) % RingSize = (Len(Header) + t.before) % RingSize
  <2>1. /\ t.size >= 2 /\ stream.body[t.at + 1] = t.offset \div Nibble
        /\ stream.body[t.at + 2] = (t.offset % Nibble) * Nibble + (t.size - 2)
        /\ (t.offset + t.distance) % RingSize = (Len(Header) + t.before) % RingSize
    BY <1>6, <1>7 DEF Encodes
  <2>2. t.at \in Nat /\ (t.at + 1) + 1 = t.at + 2
    BY TokenTypes
  <2>3. Data(position) = stream.body[t.at + 1] /\ Data(position + 1) = stream.body[t.at + 2]
    BY <1>5, <2>2 DEF Data
  <2> QED
    BY <2>1, <2>3, TokenTypes, SizeFacts
<1>9. ref' = [offset |-> t.offset, left |-> t.size]
  <2>1. /\ RefOffset(Data(position), Data(position + 1)) = t.offset
        /\ RefSize(Data(position + 1)) = t.size
    BY <1>8, ReferenceRead
  <2> QED
    BY <2>1 DEF BeginRef
<1>10. /\ UNCHANGED <<stream, output, bufferPosition>> /\ pc = "token" /\ pc' = "copy"
       /\ position' = After(t) /\ MoreTokens /\ NextToken
  BY <1>5, <1>6 DEF BeginRef, After
<1>11. Distance(ref.offset)' = t.distance
  <2>1. bufferPosition = (Len(Header) + Len(output)) % RingSize
        /\ bufferPosition \in 0..(RingSize - 1) /\ t.before = Len(output)
    BY <1>1, <1>7 DEF TextInv, TypeOK, Done
  <2>2. (t.offset + t.distance) % RingSize = bufferPosition
    BY <1>8, <2>1
  <2>3. t.distance = IF t.offset < bufferPosition THEN bufferPosition - t.offset
                     ELSE bufferPosition - t.offset + RingSize
    BY <1>8, <2>1, <2>2, DistanceRead
  <2> QED
    BY <1>9, <1>10, <2>3 DEF Distance
<1>12. Ahead(d + 1)'
  BY <1>1, <1>2, <1>4, <1>10, TokenPassed DEF Done
<1>13. Copying(d + 1)'
  <2>1. /\ t.size <= t.size /\ Len(output') = t.before + t.size - t.size
        /\ stream'.tokens[d + 1] = t
    <3>1. Len(output) = t.before /\ t.before \in Nat /\ t.size \in Nat
      BY <1>1, <1>7, TokenTypes DEF Done
    <3>2. output' = output /\ stream' = stream
      BY <1>10
    <3>3. t.size <= t.size /\ t.before = t.before + t.size - t.size
      BY <3>1
    <3> QED
      BY <1>4, <3>1, <3>2, <3>3
  <2>2. ref'.left = t.size
    BY <1>9
  <2> QED
    BY <1>6, <1>11, <1>12, <2>1, <2>2 DEF Copying
<1>14. d + 1 \in 1..Len(stream'.tokens)
  BY <1>3, <1>10
<1>15. Len(output') <= Len(stream'.text) /\ \A k \in 1..Len(output') : output'[k] = stream'.text[k]
  BY <1>10 DEF TextInv, ProgressInv
<1> QED
  BY <1>10, <1>13, <1>14, <1>15 DEF ProgressInv



\* The next byte of a reference is the next of the text.
LEMMA CopyText ==
  ASSUME TypeOK, WindowIsRecent, TextInv, Compressed, CopyByte
  PROVE  ProgressInv'
<1>1. PICK d \in 1..Len(stream.tokens) : Copying(d)
  BY DEF CopyByte, TextInv, ProgressInv
<1>2. stream \in Streams /\ d # 0
  BY DEF TextInv
<1>3. PICK t \in Token : t = stream.tokens[d]
  BY <1>2, TokenFacts
<1>4. /\ t.ref /\ Distance(ref.offset) = t.distance /\ ref.left <= t.size
      /\ Len(output) = t.before + t.size - ref.left /\ Ahead(d)
  BY <1>1, <1>3 DEF Copying
<1>5. /\ ref.left \in Nat /\ ref.left > 0 /\ t.size \in Nat /\ t.before \in Nat
      /\ t.distance \in 1..RingSize /\ Len(output) \in Nat /\ RingSize \in Nat
  BY TokenTypes, SizeFacts DEF TypeOK, CopyByte, MoreBytes
<1>6. PICK y \in 1..t.size : y = t.size - ref.left + 1
  BY <1>4, <1>5
<1>7. t.before + y = Len(output) + 1 /\ t.before + t.size <= Len(stream.text)
      /\ Len(output) < Len(stream.text) /\ Len(stream.text) \in Nat
  <2>1. t.before + t.size <= Len(stream.text) /\ Len(stream.text) \in Nat
    BY <1>2, <1>3, TokenFacts
  <2> QED
    BY <1>4, <1>5, <1>6, <2>1
<1> DEFINE b == ring[ref.offset]
<1>8. b \in Byte /\ Deliver(b) /\ UNCHANGED stream /\ pc = "copy" /\ pc' = "copy"
      /\ ref'.left = ref.left - 1 /\ ref.offset' = Advance(ref.offset)
      /\ UNCHANGED <<position, flags, i>>
  BY DEF CopyByte, TypeOK
<1>9. b = stream.text[Len(output) + 1]
  <2>1. ref.offset \in 0..(RingSize - 1)
    BY DEF TypeOK
  <2>2. b = History[Len(History) + 1 - t.distance]
    BY <1>4, <2>1 DEF WindowIsRecent
  <2>3. PICK j \in Nat : j = RingSize + Len(output) + 1 - t.distance
    BY <1>5
  <2>4. j >= 1 /\ j <= RingSize + Len(output) /\ b = History[j]
    <3>1. Len(History) = RingSize + Len(output)
      BY HistoryFacts
    <3>2. Len(History) + 1 - t.distance = j
      BY <1>5, <2>3, <3>1
    <3> QED
      BY <1>5, <2>2, <2>3, <3>2
  <2>5. History[j] = (Before \o stream.text)[j]
    <3>1. /\ Before \in Seq(Byte) /\ Len(Before) = RingSize /\ output \in Seq(Byte)
          /\ stream.text \in Seq(Byte)
      BY <1>2, HeaderFacts, TokenFacts DEF TypeOK
    <3>2. CASE j <= RingSize
      BY <1>5, <1>7, <2>4, <3>1, <3>2, ConcatProperties DEF History
    <3>3. CASE ~ (j <= RingSize)
      <4>1. PICK k \in 1..Len(output) : j = RingSize + k
        <5>1. j - RingSize \in 1..Len(output) /\ j = RingSize + (j - RingSize)
          BY <1>5, <2>4, <3>3
        <5> QED
          BY <5>1
      <4>2. output[k] = stream.text[k] /\ k \in 1..Len(stream.text)
        BY <1>5, <1>7 DEF TextInv, ProgressInv
      <4>3. (Before \o output)[RingSize + k] = output[k]
        BY <1>5, <3>1, <4>1
      <4>4. (Before \o stream.text)[RingSize + k] = stream.text[k]
        <5>1. k \in 1..Len(stream.text)
          BY <4>2
        <5> QED
          BY <3>1, <5>1
      <4> QED
        BY <4>1, <4>2, <4>3, <4>4 DEF History
    <3> QED
      BY <3>2, <3>3
  <2>6. stream.text[t.before + y] = (Before \o stream.text)[RingSize + t.before + y - t.distance]
    <3>1. Encodes(stream, t)
      BY <1>2, <1>3, TokenFacts
    <3> QED
      BY <1>4, <3>1 DEF Encodes
  <2>7. RingSize + t.before + y - t.distance = j
    <3>1. PICK a \in Nat : a = t.before
      BY <1>5
    <3>2. PICK e \in Nat : e = t.distance
      BY <1>5
    <3>3. PICK o \in Nat : o = Len(output)
      BY <1>5
    <3>4. y \in Nat /\ a + y = o + 1 /\ j = RingSize + o + 1 - e
      BY <1>5, <1>6, <1>7, <2>3, <3>1, <3>2, <3>3
    <3>5. RingSize + a + y - e = j
      BY <1>5, <3>4
    <3> QED
      BY <3>1, <3>2, <3>5
  <2> QED
    BY <1>7, <2>4, <2>5, <2>6, <2>7
<1> HIDE DEF b
<1>10. /\ Len(output') = Len(output) + 1 /\ Len(output') <= Len(stream.text)
       /\ \A k \in 1..Len(output') : output'[k] = stream.text[k]
  <2>1. \A k \in 1..Len(output) : output[k] = stream.text[k]
    BY DEF TextInv, ProgressInv
  <2> QED
    BY <1>2, <1>7, <1>8, <1>9, <2>1, DeliverText
<1>11. Distance(ref.offset)' = t.distance
  <2>1. bufferPosition' = Advance(bufferPosition)
    BY <1>8 DEF Deliver
  <2>2. ref.offset \in 0..(RingSize - 1) /\ bufferPosition \in 0..(RingSize - 1)
    BY DEF TypeOK
  <2>3. Distance(ref.offset)' = Distance(ref.offset)
    BY <1>8, <2>1, <2>2, DistanceKept
  <2> QED
    BY <1>4, <2>3
<1>12. Copying(d)'
  <2>1. ref'.left <= t.size /\ Len(output') = t.before + t.size - ref'.left
    BY <1>4, <1>5, <1>8, <1>10
  <2>2. Ahead(d)'
    BY <1>4, <1>8 DEF Ahead
  <2> QED
    BY <1>3, <1>4, <1>8, <1>11, <2>1, <2>2 DEF Copying
<1> QED
  BY <1>8, <1>10, <1>12 DEF ProgressInv

\* A reference ends only when all of it is there.
LEMMA EndRefText ==
  ASSUME TypeOK, TextInv, Compressed, EndRef
  PROVE  ProgressInv'
<1>1. PICK d \in 1..Len(stream.tokens) : Copying(d)
  BY DEF EndRef, TextInv, ProgressInv
<1>2. stream \in Streams /\ pc' = "token" /\ UNCHANGED <<stream, decoder, result>> /\ pc = "copy"
  BY DEF TextInv, EndRef
<1>3. PICK t \in Token : t = stream.tokens[d]
  BY <1>2, TokenFacts
<1>4. /\ Len(output) = t.before + t.size - ref.left /\ Ahead(d)
      /\ t.before + t.size <= Len(stream.text) /\ t.before + t.size = Upto(d)
      /\ Len(stream.text) = stream.size /\ Len(stream.text) \in Nat
  BY <1>1, <1>2, <1>3, TokenFacts DEF Copying
<1>5. ref.left \in Nat /\ t.size \in Nat /\ t.before \in Nat
  BY TokenTypes, SizeFacts DEF TypeOK
<1>6. ref.left = 0
  <2>1. ref.left > 0 => Len(output) < stream.size
    BY <1>4, <1>5
  <2>2. ~ (ref.left > 0) \/ Len(output) >= stream.size
    BY DEF EndRef, MoreBytes, OutputFull
  <2> QED
    BY <1>4, <1>5, <2>1, <2>2
<1>7. Len(output) = Upto(d)
  BY <1>4, <1>5, <1>6
<1>8. Done(d)'
  <2>1. Ahead(d)'
    BY <1>2, <1>4 DEF Ahead, decoder
  <2>2. (Len(output) = Upto(d))'
    BY <1>2, <1>7 DEF Upto, decoder
  <2> QED
    BY <2>1, <2>2 DEF Done
<1>9. d \in 0..Len(stream'.tokens)
  BY <1>2, TokenFacts
<1>10. Len(output') <= Len(stream'.text) /\ \A k \in 1..Len(output') : output'[k] = stream'.text[k]
  BY <1>2 DEF TextInv, ProgressInv, decoder
<1> QED
  BY <1>2, <1>8, <1>9, <1>10 DEF ProgressInv

\* The flags of a group are followed by its first token.
LEMMA ReadFlagsText ==
  ASSUME TypeOK, TextInv, Compressed, ReadFlags
  PROVE  ProgressInv'
<1>1. PICK d \in 0..Len(stream.tokens) : Done(d)
  BY DEF ReadFlags, TextInv, ProgressInv
<1>2. /\ stream \in Streams /\ pc = "group" /\ pc' = "token" /\ i' = 0 /\ position' = position + 1
      /\ flags' = Data(position) /\ UNCHANGED <<stream, bufferPosition, output, ref, result>>
  BY DEF ReadFlags, TextInv
<1>3. d # Len(stream.tokens)
  BY <1>1, <1>2, FullAtEnd DEF Done, ReadFlags, MoreGroups
<1>4. d + 1 \in 1..Len(stream.tokens)
  BY <1>2, <1>3, TokenFacts
<1>5. PICK t \in Token : t = stream.tokens[d + 1]
  BY <1>2, <1>4, TokenFacts
<1>6. t.place = 1 /\ t.at = position + 1
  BY <1>1, <1>2, <1>3, <1>5 DEF Done, Ahead
<1>7. stream.body[t.at] = t.flags
  BY <1>2, <1>4, <1>5, <1>6, TokenFacts
<1>8. t.place = i' + 1 /\ t.flags = flags' /\ t.at = position' /\ i' < FlagBits
  BY <1>2, <1>6, <1>7, FlagBitsAssumption DEF Data
<1>9. Ahead(d)' /\ Len(output') = Upto(d)'
  BY <1>1, <1>2, <1>5, <1>8 DEF Ahead, Done, Upto
<1>10. Len(output') <= Len(stream'.text) /\ \A k \in 1..Len(output') : output'[k] = stream'.text[k]
  BY <1>2 DEF TextInv, ProgressInv
<1> QED
  BY <1>2, <1>9, <1>10 DEF ProgressInv, Done

\* A group ends behind its last token, or behind the last of all.
LEMMA EndGroupText ==
  ASSUME TypeOK, TextInv, Compressed, EndGroup
  PROVE  ProgressInv'
<1>1. PICK d \in 0..Len(stream.tokens) : Done(d)
  BY DEF EndGroup, TextInv, ProgressInv
<1>2. /\ stream \in Streams /\ pc = "token" /\ pc' = "group"
      /\ UNCHANGED <<stream, decoder, result>>
  BY DEF EndGroup, TextInv
<1>3. d = Len(stream.tokens) \/ ~ (i < FlagBits)
  BY <1>1, <1>2, FullAtEnd DEF Done, EndGroup, MoreTokens
<1>4. Ahead(d)'
  <2>1. \/ d = Len(stream.tokens)
        \/ stream.tokens[d + 1].place = 1 /\ stream.tokens[d + 1].at = position + 1
    BY <1>1, <1>3 DEF Done, Ahead
  <2> QED
    BY <1>2, <2>1 DEF Ahead, decoder
<1>5. Len(output') = Upto(d)'
  BY <1>1, <1>2 DEF Done, Upto, decoder
<1>6. Len(output') <= Len(stream'.text) /\ \A k \in 1..Len(output') : output'[k] = stream'.text[k]
  BY <1>2 DEF TextInv, ProgressInv, decoder
<1> QED
  BY <1>1, <1>2, <1>4, <1>5, <1>6 DEF ProgressInv, Done

\* The first group begins with the body.
LEMMA SignatureText ==
  ASSUME TypeOK, TextInv, Compressed, GetBodyRTF
  PROVE  ProgressInv'
<1>1. /\ stream \in Streams /\ pc = "idle" /\ pc' = "group" /\ UNCHANGED <<stream, decoder, result>>
      /\ position = 0 /\ output = <<>> /\ Len(output) = 0
  BY DEF GetBodyRTF, TextInv, ProgressInv, Compressed
<1>2. Ahead(0)'
  <2>1. \/ Len(stream.tokens) = 0
        \/ stream.tokens[1].place = 1 /\ stream.tokens[1].at = 1
    BY <1>1, TokenFacts
  <2>2. 0 + 1 = 1 /\ position' = 0
    BY <1>1 DEF decoder
  <2> QED
    BY <1>1, <2>1, <2>2 DEF Ahead
<1>3. Len(output') = Upto(0)'
  BY <1>1 DEF Upto, decoder
<1>4. 0 \in 0..Len(stream'.tokens)
  BY <1>1, TokenFacts
<1>5. Len(output') <= Len(stream'.text) /\ \A k \in 1..Len(output') : output'[k] = stream'.text[k]
  BY <1>1 DEF TextInv, ProgressInv, decoder
<1> QED
  BY <1>1, <1>2, <1>3, <1>4, <1>5 DEF ProgressInv, Done

\* The body of a sound stream does not end in the middle of a token.
LEMMA NoOverrun ==
  ASSUME TypeOK, TextInv, Compressed, Overrun
  PROVE  FALSE
<1>1. PICK d \in 0..Len(stream.tokens) : Done(d)
  BY DEF Overrun, TextInv, ProgressInv
<1>2. stream \in Streams /\ d # Len(stream.tokens)
  BY <1>1, FullAtEnd DEF TextInv, Done, Overrun, MoreTokens
<1>3. d + 1 \in 1..Len(stream.tokens)
  BY <1>2, TokenFacts
<1>4. PICK t \in Token : t = stream.tokens[d + 1]
  BY <1>2, <1>3, TokenFacts
<1>5. t.at = position /\ t.flags = flags
  <2>1. pc = "token" /\ i < FlagBits /\ i # FlagBits
    BY FlagBitsAssumption DEF Overrun, MoreTokens, TypeOK
  <2> QED
    BY <1>1, <1>2, <1>4, <2>1 DEF Done, Ahead
<1>6. After(t) + 2 <= Len(stream.body) /\ t.flags % 2 = (IF t.ref THEN 1 ELSE 0)
      /\ Len(stream.body) \in Nat
  BY <1>2, <1>3, <1>4, TokenFacts
<1>7. t.at \in Nat /\ position + (flags % 2) >= Len(stream.body)
  BY TokenTypes DEF Overrun
<1> QED
  BY <1>5, <1>6, <1>7 DEF After

\* The loop ends with the text.
LEMMA FinishText ==
  ASSUME TypeOK, TextInv, Compressed, Finish
  PROVE  ProgressInv'
<1>1. PICK d \in 0..Len(stream.tokens) : Done(d)
  BY DEF Finish, TextInv, ProgressInv
<1>2. stream \in Streams /\ pc = "group" /\ ~ MoreGroups
  BY DEF Finish, TextInv
<1>3. d = Len(stream.tokens)
  <2> SUFFICES ASSUME d # Len(stream.tokens) PROVE FALSE
    OBVIOUS
  <2>1. ~ OutputFull
    BY <1>1, <1>2, FullAtEnd DEF Done
  <2>2. d + 1 \in 1..Len(stream.tokens)
    BY <1>2, TokenFacts
  <2>3. PICK t \in Token : t = stream.tokens[d + 1]
    BY <1>2, <2>2, TokenFacts
  <2>4. t.at = position + 1
    BY <1>1, <1>2, <2>3 DEF Done, Ahead
  <2>5. After(t) + 2 <= Len(stream.body) /\ Len(stream.body) \in Nat
    BY <1>2, <2>2, <2>3, TokenFacts
  <2>6. After(t) >= t.at + 1 /\ After(t) \in Nat
    BY TokenTypes DEF After
  <2>7. position \in Nat /\ ~ (position < Len(stream.body) - 2)
    BY <1>2, <2>1 DEF MoreGroups, TypeOK
  <2> QED
    BY <2>4, <2>5, <2>6, <2>7
<1>4. Len(output) = Len(stream.text) /\ Len(output) = stream.size
  BY <1>1, <1>2, <1>3, TokenFacts DEF Done
<1>5. output = stream.text
  <2>1. output \in Seq(Byte) /\ stream.text \in Seq(Byte)
    BY <1>2, TokenFacts DEF TypeOK
  <2>2. \A k \in 1..Len(output) : output[k] = stream.text[k]
    BY DEF TextInv, ProgressInv
  <2> QED
    BY <1>4, <2>1, <2>2, SeqEqual
<1>6. Returns("ok", output)
  BY <1>4 DEF Finish
<1>7. pc' = "done" /\ result' = [kind |-> "ok", text |-> stream.text]
      /\ UNCHANGED <<stream, output>>
  BY <1>5, <1>6 DEF Returns, decoder
<1> QED
  BY <1>7 DEF TextInv, ProgressInv

\* What a step returns for a compressed stream has the size the stream declares.
LEMMA ResultText ==
  ASSUME TypeOK, TextInv, Next
  PROVE  result'.kind = "ok" /\ stream'.signature = "LZFu" => Len(result'.text) = stream'.size
<1>1. CASE GetBodyRTF
  BY <1>1 DEF GetBodyRTF, Returns, TextInv
<1>2. CASE Uncompressed
  BY <1>2 DEF Uncompressed, Returns
<1>3. CASE Overrun
  BY <1>3 DEF Overrun, Returns
<1>4. CASE Finish
  BY <1>4 DEF Finish, Returns
<1>5. CASE ReadFlags \/ Literal \/ BeginRef \/ CopyByte \/ EndRef \/ EndGroup
  BY <1>5 DEF ReadFlags, Literal, BeginRef, CopyByte, EndRef, EndGroup, TextInv
<1> QED
  BY <1>1, <1>2, <1>3, <1>4, <1>5 DEF Next

LEMMA TextStep ==
  ASSUME TypeOK, WindowIsRecent, TextInv, Next
  PROVE  TextInv'
<1>1. UNCHANGED stream
  BY DEF Next, GetBodyRTF, Uncompressed, Returns, ReadFlags, Literal, BeginRef, Overrun,
         CopyByte, EndRef, EndGroup, Finish
<1>2. bufferPosition' = (Len(Header) + Len(output')) % RingSize
  <2>1. CASE UNCHANGED <<ring, bufferPosition, output>>
    BY <2>1 DEF TextInv
  <2>2. CASE \E b \in Byte : Deliver(b)
    BY <2>2, DeliverPosition DEF TextInv
  <2> QED
    BY <2>1, <2>2, StepKinds
<1>3. Compressed => ProgressInv'
  <2> SUFFICES ASSUME Compressed PROVE ProgressInv'
    OBVIOUS
  <2>1. ~ Uncompressed
    BY DEF Compressed, Uncompressed
  <2> QED
    BY <2>1, SignatureText, ReadFlagsText, LiteralText, BeginRefText, NoOverrun, CopyText,
       EndRefText, EndGroupText, FinishText DEF Next
<1> QED
  BY <1>1, <1>2, <1>3, ResultText DEF TextInv, Compressed

LEMMA TextStutter ==
  ASSUME TextInv, UNCHANGED vars
  PROVE  TextInv'
  BY DEF TextInv, Compressed, ProgressInv, Done, Copying, Ahead, Upto, Distance, vars, decoder

LEMMA TextEnough == TextInv => TextReturned
  BY DEF TextInv, Compressed, ProgressInv, TextReturned

\* A sound stream decodes to the text its writer compressed, and what is returned for
\* any stream has the size that it declares (rtf.go, Decode).
THEOREM TextIsReturned == Spec => []TextReturned
<1>1. Init => TextInv
  BY TextInit
<1>2. TypeOK /\ WindowIsRecent /\ TextInv /\ [Next]_vars => TextInv'
  BY TextStep, TextStutter
<1> QED
  BY <1>1, <1>2, TextEnough, TypeCorrectness, RingIsWindow, PTL DEF Spec

=============================================================================
