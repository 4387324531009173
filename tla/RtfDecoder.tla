----------------------------- MODULE RtfDecoder -----------------------------
(***************************************************************************)
(* Decompression of the RTF body of a message (rtf.go), token by token and *)
(* byte by byte.  The ring lzBuffer is kept as the code keeps it; sizes    *)
(* follow from Nibble, which is 16 in the code: a byte has two nibbles, an *)
(* offset three and a length one.                                          *)
(*                                                                         *)
(* A stream is the property's data: its signature, the size it declares    *)
(* and the bytes after its 16-byte header.  text is what its writer        *)
(* compressed, and tokens how, if the stream is sound.  A message whose    *)
(* property is "absent", or "unread" because a read of it fails, has no    *)
(* stream to decode.                                                       *)
(***************************************************************************)
EXTENDS Integers, Sequences

CONSTANTS
  Nibble,
  FlagBits,  \* tokens announced by one byte of flags, 8 in the code
  Header,    \* LZFUHeader, the text the ring starts with
  Streams

Byte == 0..(Nibble * Nibble - 1)
RingSize == Nibble * Nibble * Nibble

\* A literal byte, or a reference size bytes long to a ring index, which is distance
\* behind the write position.  A token has a place in its group, before which there are
\* the flags from its own on; at counts the bytes before it in the body, before
\* those in the text.
Token ==
  [ref : BOOLEAN, offset : 0..(RingSize - 1), distance : 1..RingSize, size : 1..(Nibble + 1),
   place : 1..FlagBits, flags : Byte, at : Nat, before : Nat]

Stream ==
  [signature : {"LZFu", "MELA", "other", "short", "absent", "unread"}, size : Nat, body : Seq(Byte),
   sound : BOOLEAN, tokens : Seq(Token), text : Seq(Byte)]

\* What the ring holds at first, oldest byte first.
Before == [k \in 1..(RingSize - Len(Header)) |-> 0] \o Header

\* Where the next token begins, if no flags come first, in the body and in the text.
After(t) == t.at + (IF t.ref THEN 2 ELSE 1)
Through(t) == t.before + t.size

\* A literal is its byte; a reference is its offset and its size less 2, and stands for
\* the bytes at its distance, which may be its own.
Encodes(s, t) ==
  IF t.ref
  THEN /\ t.size >= 2
       /\ s.body[t.at + 1] = t.offset \div Nibble
       /\ s.body[t.at + 2] = (t.offset % Nibble) * Nibble + (t.size - 2)
       /\ (t.offset + t.distance) % RingSize = (Len(Header) + t.before) % RingSize
       /\ \A y \in 1..t.size :
            s.text[t.before + y] = (Before \o s.text)[RingSize + t.before + y - t.distance]
  ELSE t.size = 1 /\ s.body[t.at + 1] = s.text[t.before + 1]

\* Token u comes after t, in its group or behind the flags of the next.
Follows(t, u) ==
  /\ u.before = Through(t)
  /\ IF t.place < FlagBits
     THEN u.place = t.place + 1 /\ u.at = After(t) /\ u.flags = t.flags \div 2
     ELSE u.place = 1 /\ u.at = After(t) + 1

\* The tokens are those of the text, in groups behind a byte of flags, and the two bytes
\* of a last reference end the body ([MS-OXRTFCP], the compressed format).
Written(s) ==
  LET t == s.tokens
      n == Len(t)
  IN  /\ s.size = Len(s.text)
      /\ IF n = 0 THEN s.size = 0 ELSE Through(t[n]) = s.size
      /\ n # 0 => t[1].place = 1 /\ t[1].at = 1 /\ t[1].before = 0
      /\ \A k \in 1..(n - 1) : Follows(t[k], t[k + 1])
      /\ \A k \in 1..n :
           /\ t[k].place = 1 => s.body[t[k].at] = t[k].flags
           /\ t[k].flags % 2 = (IF t[k].ref THEN 1 ELSE 0)
           /\ Encodes(s, t[k])
           /\ Through(t[k]) <= s.size /\ After(t[k]) + 2 <= Len(s.body)

ASSUME NibbleAssumption == Nibble \in Nat \ {0, 1}
ASSUME FlagBitsAssumption == FlagBits \in Nat \ {0}
ASSUME HeaderAssumption == Header \in Seq(Byte) /\ Len(Header) < RingSize
ASSUME StreamsAssumption == Streams \subseteq Stream
ASSUME SoundAssumption ==
  \A s \in Streams : s.sound /\ s.signature = "LZFu" => Written(s)

VARIABLES
  pc,         \* "idle", "group", "token", "copy", "done"
  stream,
  position,   \* currentPosition - 16
  flags, i,   \* the flags left and the tokens of this group so far
  ring, bufferPosition,
  output,     \* outputBuffer up to outputPosition
  ref,        \* the reference in progress: refOffset and bytes left of refSize
  result

decoder == <<position, flags, i, ring, bufferPosition, output, ref>>
vars == <<pc, stream, decoder, result>>

NoRef == [offset |-> 0, left |-> 0]

\* Byte k of the body, counted from 0 as the code does.
Data(k) == stream.body[k + 1]

HeaderRing == [k \in 0..(RingSize - 1) |-> IF k < Len(Header) THEN Header[k + 1] ELSE 0]

Init ==
  /\ pc = "idle" /\ stream \in Streams
  /\ position = 0 /\ flags = 0 /\ i = 0
  /\ ring = HeaderRing /\ bufferPosition = Len(Header)
  /\ output = <<>> /\ ref = NoRef
  /\ result = [kind |-> "none", text |-> <<>>]

Returns(kind, text) ==
  /\ pc' = "done" /\ result' = [kind |-> kind, text |-> text]
  /\ UNCHANGED <<stream, decoder>>

\* Both ring counters: incremented modulo the size of the ring.
Advance(k) == (k + 1) % RingSize

OutputFull == Len(output) >= stream.size

\* Seeded fault: offset and length share the wrong bits.
RefSizeShort(lo) == (lo % Nibble) + 1

RefSize(lo) == (lo % Nibble) + 2
RefOffset(hi, lo) == hi * Nibble + (lo \div Nibble)

----------------------------------------------------------------------------
(* Decode.                                                                 *)

\* The property is looked up and read, and its errors are returned; then the signature
\* decides, and fewer than 16 bytes cannot be sliced.
GetBodyRTF ==
  /\ pc = "idle"
  /\ CASE stream.signature = "LZFu"  -> pc' = "group" /\ UNCHANGED <<stream, decoder, result>>
       [] stream.signature \in {"absent", "unread", "other"} -> Returns("error", <<>>)
       [] stream.signature = "short" -> Returns("panic", <<>>)
       [] OTHER -> FALSE

\* data[16 : len(data)-16] of an uncompressed body.
Uncompressed ==
  /\ pc = "idle" /\ stream.signature = "MELA"
  /\ LET n == Len(stream.body) - 16
     IN  IF n >= 0 THEN Returns("ok", SubSeq(stream.body, 1, n)) ELSE Returns("panic", <<>>)

MoreGroups == position < Len(stream.body) - 2 /\ ~ OutputFull

ReadFlags ==
  /\ pc = "group" /\ MoreGroups
  /\ pc' = "token" /\ flags' = Data(position) /\ i' = 0 /\ position' = position + 1
  /\ UNCHANGED <<stream, ring, bufferPosition, output, ref, result>>

MoreTokens == i < FlagBits /\ ~ OutputFull

NextToken == flags' = flags \div 2 /\ i' = i + 1

\* Seeded fault: the byte does not enter the ring.
DeliverUnrecorded(b) ==
  /\ bufferPosition' = Advance(bufferPosition)
  /\ output' = Append(output, b)
  /\ UNCHANGED ring

\* One byte is delivered and enters the ring.
Deliver(b) ==
  /\ ring' = [ring EXCEPT ![bufferPosition] = b]
  /\ bufferPosition' = Advance(bufferPosition)
  /\ output' = Append(output, b)

\* Seeded fault: the loop stays at a literal byte of value 0.
LiteralNotZero ==
  /\ pc = "token" /\ MoreTokens /\ flags % 2 = 0 /\ position < Len(stream.body)
  /\ Data(position) # 0
  /\ Deliver(Data(position))
  /\ position' = position + 1 /\ NextToken
  /\ UNCHANGED <<pc, stream, ref, result>>

Literal ==
  /\ pc = "token" /\ MoreTokens /\ flags % 2 = 0 /\ position < Len(stream.body)
  /\ Deliver(Data(position))
  /\ position' = position + 1 /\ NextToken
  /\ UNCHANGED <<pc, stream, ref, result>>

BeginRef ==
  /\ pc = "token" /\ MoreTokens /\ flags % 2 = 1 /\ position + 1 < Len(stream.body)
  /\ LET hi == Data(position)
         lo == Data(position + 1)
     IN  ref' = [offset |-> RefOffset(hi, lo), left |-> RefSize(lo)]
  /\ pc' = "copy" /\ position' = position + 2 /\ NextToken
  /\ UNCHANGED <<stream, ring, bufferPosition, output, result>>

\* data[currentPosition] beyond the end of the data.
Overrun ==
  /\ pc = "token" /\ MoreTokens
  /\ position + (flags % 2) >= Len(stream.body)
  /\ Returns("panic", <<>>)

MoreBytes == ref.left > 0 /\ ~ OutputFull

\* Seeded fault: the offset of the reference stays where it was.
CopyByteInPlace ==
  /\ pc = "copy" /\ MoreBytes
  /\ Deliver(ring[ref.offset])
  /\ ref' = [ref EXCEPT !.left = ref.left - 1]
  /\ UNCHANGED <<pc, stream, position, flags, i, result>>

CopyByte ==
  /\ pc = "copy" /\ MoreBytes
  /\ Deliver(ring[ref.offset])
  /\ ref' = [offset |-> Advance(ref.offset), left |-> ref.left - 1]
  /\ UNCHANGED <<pc, stream, position, flags, i, result>>

EndRef ==
  /\ pc = "copy" /\ ~ MoreBytes
  /\ pc' = "token"
  /\ UNCHANGED <<stream, decoder, result>>

EndGroup ==
  /\ pc = "token" /\ ~ MoreTokens
  /\ pc' = "group"
  /\ UNCHANGED <<stream, decoder, result>>

\* The whole buffer is the text, or too little of it was filled.
Finish ==
  /\ pc = "group" /\ ~ MoreGroups
  /\ IF Len(output) = stream.size THEN Returns("ok", output) ELSE Returns("error", <<>>)

Next ==
  \/ GetBodyRTF \/ Uncompressed \/ ReadFlags \/ Literal \/ BeginRef \/ Overrun
  \/ CopyByte \/ EndRef \/ EndGroup \/ Finish

Spec == Init /\ [][Next]_vars /\ WF_vars(Next)

----------------------------------------------------------------------------
(* Properties.                                                             *)

\* The state variables have their types; every index into the ring is inside it.
TypeOK ==
  /\ pc \in {"idle", "group", "token", "copy", "done"} /\ stream \in Stream
  /\ position \in Nat /\ flags \in Nat /\ i \in 0..FlagBits
  /\ ring \in [0..(RingSize - 1) -> Byte] /\ bufferPosition \in 0..(RingSize - 1)
  /\ output \in Seq(Byte)
  /\ ref \in [offset : 0..(RingSize - 1), left : 0..(Nibble + 1)]
  /\ result \in [kind : {"none", "ok", "error", "panic"}, text : Seq(Byte)]

\* What the ring held at first, and what was delivered.
History == Before \o output

\* How far back from the write position ring index k is.
Distance(k) == IF k < bufferPosition THEN bufferPosition - k ELSE bufferPosition - k + RingSize

\* The ring holds the last bytes of the history, the byte at distance d at
\* the index d behind the write position, also after that has wrapped round.
WindowIsRecent ==
  \A k \in 0..(RingSize - 1) : ring[k] = History[Len(History) + 1 - Distance(k)]

\* Decode delivers literals and repetitions at a fixed distance, also where a
\* reference reads what it has just written or runs over the end of the ring.
Decompressor ==
  INSTANCE SlidingWindow WITH
    Symbols <- Byte, Window <- RingSize, history <- History,
    distance <- IF pc = "copy" THEN Distance(ref.offset) ELSE 0

ImplementsWindow == Decompressor!Spec

\* A sound compressed stream gives the text its writer compressed; a stream
\* that ends too early, or says a wrong size, never passes for a sound one.
TextReturned ==
  pc = "done" /\ stream.signature = "LZFu" =>
    /\ stream.sound => result.kind = "ok" /\ result.text = stream.text
    /\ result.kind = "ok" => Len(result.text) = stream.size

\* Decode returns (or panics) on every stream.
DecodeReturns == <>(pc = "done")

=============================================================================
