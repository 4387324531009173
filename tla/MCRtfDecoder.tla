---------------------------- MODULE MCRtfDecoder ----------------------------
(***************************************************************************)
(* Streams with nibbles of one bit: a ring of 8 bytes, references of 2 or  *)
(* 3 bytes.  A writer's tokens are serialised as the format says, two to a *)
(* byte of flags and a reference to the write position at the end; the     *)
(* text they stand for is computed without a ring.                         *)
(***************************************************************************)
EXTENDS RtfDecoder, FiniteSetsExt, SequencesExt

MCHeader == <<1, 2, 3, 1, 2>>

Lit(b) == [ref |-> FALSE, bytes |-> <<b>>, offset |-> 0, size |-> 1]
Ref(o, s) ==
  [ref |-> TRUE, bytes |-> <<o \div 2, (o % 2) * 2 + s>>, offset |-> o, size |-> s + 2]

Tokens == {Lit(b) : b \in {0, 3}} \cup {Ref(o, s) : o \in 0..7, s \in {0, 1}}
\* Enough of them to go round the ring, before and after the write position.
Longer == {Lit(3), Ref(3, 1), Ref(4, 1), Ref(5, 1), Ref(7, 1), Ref(0, 0)}
TokenLists == [1..1 -> Tokens] \cup [1..2 -> Tokens] \cup [1..4 -> Longer]

\* How far ring index o is behind the write position after n bytes of text.
Behind(n, o) == CHOOSE d \in 1..RingSize : (o + d) % RingSize = (5 + n) % RingSize

\* h with s more bytes, each the one d before it.
Repeated(h, d, s) ==
  FoldLeftDomain(LAMBDA acc, k : Append(acc, acc[Len(acc) + 1 - d]), h, [k \in 1..s |-> 0])

Apply(h, t) ==
  IF ~ t.ref THEN h \o t.bytes
  ELSE Repeated(h, Behind(Len(h) - RingSize, t.offset), t.size)

TextOf(tokens) ==
  LET h == FoldLeft(Apply, Before, tokens) IN SubSeq(h, RingSize + 1, Len(h))

\* A reference to the write position ends the stream.
Marked(tokens) == Append(tokens, Ref((5 + Len(TextOf(tokens))) % 8, 0))

Group(s) ==
  <<(IF s[1].ref THEN 1 ELSE 0) + (IF Len(s) = 2 /\ s[2].ref THEN 2 ELSE 0)>>
    \o FlattenSeq([k \in DOMAIN s |-> s[k].bytes])

Serialised(tokens) ==
  LET n == Len(tokens)
  IN  FlattenSeq([g \in 1..((n + 1) \div 2) |->
        Group(SubSeq(tokens, 2 * g - 1, IF 2 * g <= n THEN 2 * g ELSE n))])

Bit(t) == IF t.ref THEN 1 ELSE 0

\* Where each of the tokens but the last lies.
Laid(tokens) ==
  LET Place(k) == ((k - 1) % FlagBits) + 1
      Lay(acc, k) ==
        LET t == tokens[k]
            last == acc[Len(acc)]
            before == IF k = 1 THEN 0 ELSE Through(last)
        IN  Append(acc,
              [ ref |-> t.ref, offset |-> t.offset, size |-> t.size, place |-> Place(k),
                distance |-> IF t.ref THEN Behind(before, t.offset) ELSE 1,
                flags |-> Bit(t) + (IF Place(k) = 1 THEN 2 * Bit(tokens[k + 1]) ELSE 0),
                at |-> IF k = 1 THEN 1 ELSE After(last) + (IF Place(k) = 1 THEN 1 ELSE 0),
                before |-> before ])
  IN  FoldLeftDomain(Lay, <<>>, Front(tokens))

S(signature, size, body, sound, tokens, text) ==
  [signature |-> signature, size |-> size, body |-> body, sound |-> sound,
   tokens |-> tokens, text |-> text]

Sound ==
  { S("LZFu", Len(TextOf(t)), Serialised(Marked(t)), TRUE, Laid(Marked(t)), TextOf(t)) :
      t \in TokenLists }

\* Cut short, or with a size that is not that of the text.
Damaged ==
  LET t == <<Lit(3), Ref(4, 1), Ref(6, 1)>>
      b == Serialised(Marked(t))
  IN  { S("LZFu", 7, SubSeq(b, 1, n), FALSE, <<>>, <<>>) : n \in 0..(Len(b) - 1) }
        \cup { S("LZFu", n, b, FALSE, <<>>, <<>>) : n \in {0, 3, 5, 12} }

Zeros(n) == [k \in 1..n |-> 0]

Others ==
  { S("other", 1, Zeros(3), FALSE, <<>>, <<>>), S("short", 0, <<>>, FALSE, <<>>, <<>>),
    S("absent", 0, <<>>, FALSE, <<>>, <<>>), S("unread", 0, Zeros(3), FALSE, <<>>, <<>>),
    S("MELA", 2, Zeros(2), TRUE, <<>>, Zeros(2)), S("MELA", 18, Zeros(18), TRUE, <<>>, Zeros(18)) }

MCStreams == Sound \cup Damaged \cup Others
=============================================================================
