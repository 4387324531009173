---------------------------- MODULE MCDataTree ----------------------------
(* DataTree on one sound file and one file per way of being damaged.  Words *)
(* have 6 bits instead of 16, so that few entries are too many.             *)
EXTENDS DataTree, TLC

Data(n) ==
  [size |-> n, sig |-> 0, level |-> 0, total |-> 0, ids |-> <<>>, slots |-> <<>>]
Data1(n) == [Data(n) EXCEPT !.sig = 1]
Inner(sig, level, total, ids) ==
  [size |-> 9, sig |-> sig, level |-> level, total |-> total, ids |-> ids,
   slots |-> <<>>]
Slots(s) ==
  [size |-> 9, sig |-> 2, level |-> 0, total |-> 0, ids |-> <<>>, slots |-> s]

\* 14 is an XXBLOCK over the XBLOCKs 6 and 10; 30 is a SIBLOCK over the SIBLOCK
\* 26 and the SLBLOCK 18, with an identifier 0 between them.
Good ==
  4 :> Data(3) @@ 8 :> Data(5) @@ 12 :> Data1(7) @@
  6 :> Inner(1, 1, 8, <<4, 9>>) @@ 10 :> Inner(1, 1, 7, <<12>>) @@
  14 :> Inner(1, 2, 15, <<6, 11>>) @@
  18 :> Slots(<<1, 2>>) @@ 22 :> Slots(<<3>>) @@
  26 :> Inner(2, 1, 0, <<22>>) @@ 30 :> Inner(2, 1, 0, <<26, 0, 19>>)

MCFiles ==
  {Good,
   [Good EXCEPT ![14].total = 14],
   [Good EXCEPT ![14].ids = <<6, 4>>],
   [Good EXCEPT ![14].ids = <<6, 12>>],
   [Good EXCEPT ![14].ids = <<6, 0, 10>>],
   [Good EXCEPT ![10].level = 3],
   [Good EXCEPT ![10].sig = 3],
   [Good EXCEPT ![10].ids = <<16>>],
   [Good EXCEPT ![22].sig = 1],
   [Good EXCEPT ![26].ids = <<22, 40>>],
   [Good EXCEPT ![18].slots = <<1, 2, 4>>],
   [Good EXCEPT ![26].ids = <<0, 22, 0, 0>>],
   [Good EXCEPT ![30].ids = <<26, 0, 19, 0, 0>>]}

RECURSIVE UptoOf(_, _, _)
UptoOf(f, b, i) ==
  IF i = 0 THEN <<>>
  ELSE LET id == f[b].ids[i]
           c == ClearLSB(id)
       IN  UptoOf(f, b, i - 1) \o
             (IF IsXBlock(f, b) THEN <<c>>
              ELSE IF (f[b].sig = 2 /\ id = 0) \/ c \notin DOMAIN f THEN <<>>
              ELSE IF IsSLBlock(f, c) THEN f[c].slots
              ELSE UptoOf(f, c, Len(f[c].ids)))
MCUpto ==
  [f \in MCFiles |-> [b \in DOMAIN f |-> [i \in 0..Len(f[b].ids) |-> UptoOf(f, b, i)]]]

RECURSIVE BelowOf(_, _)
BelowOf(f, b) == {b} \cup UNION {BelowOf(f, c) : c \in Children(f, b)}
MCBelow == [f \in MCFiles |-> [b \in DOMAIN f |-> BelowOf(f, b)]]
=============================================================================
