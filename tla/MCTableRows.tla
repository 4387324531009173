----------------------------- MODULE MCTableRows -----------------------------
(***************************************************************************)
(* Tables of up to seven rows of 5 bytes in blocks of 12: two rows and two *)
(* bytes of padding in each.  The bits of the columns are not in their     *)
(* order, and one table has a column whose bit is in the second byte.      *)
(***************************************************************************)
EXTENDS Integers

Col(id, type, offset, size, bit) ==
  [id |-> id, type |-> type, offset |-> offset, size |-> size, bit |-> bit]

FolderColumns ==
  << Col(12289, "string", 0, 4, 3), Col(7, "guid", 1, 16, 4), Col(26610, "integer", 2, 4, 0),
     Col(13834, "boolean", 3, 1, 1), Col(13826, "integer", 1, 4, 2) >>

Wide ==
  [i \in 1..9 |-> IF i <= 5 THEN [FolderColumns[i] EXCEPT !.bit = IF i = 1 THEN 8 ELSE @]
                  ELSE Col(i, "integer", 2, 4, i - 1)]

\* n rows in blocks of k.
Blocks(n, k) ==
  [b \in 1..((n + k - 1) \div k) |->
     [j \in 1..(IF b * k <= n THEN k ELSE n % k) |-> (b - 1) * k + j]]

T(n, present, name, tail) ==
  [ type |-> TRUE, signature |-> TRUE, hasRows |-> TRUE, columns |-> FolderColumns,
    rowSize |-> 5, bitmap |-> 4, matrix |-> Blocks(n, 2),
    size |-> IF n = 0 THEN 0 ELSE ((n - 1) \div 2) * 12 + (IF n % 2 = 1 THEN 5 ELSE 10) + tail,
    present |-> [r \in 1..n |-> present[r]], name |-> [r \in 1..n |-> name[r]] ]

All == [r \in 1..7 |-> 0..8]
Sound == [r \in 1..7 |-> "sound"]

MCTables ==
  {T(n, All, Sound, t) : n \in 0..7, t \in {0, 2}}
  \cup {T(3, p, Sound, 0) : p \in [1..3 -> {{}, {0, 3}, {1}, {4, 2}}]}
  \cup {T(3, [All EXCEPT ![2] = {0, 1}], s, 0) : s \in [1..3 -> {"sound", "empty", "subnode"}]}
  \cup LET t == T(3, All, Sound, 0)
       IN  { [t EXCEPT !.type = FALSE], [t EXCEPT !.signature = FALSE],
             [t EXCEPT !.hasRows = FALSE], [t EXCEPT !.columns = <<>>],
             [t EXCEPT !.columns = Wide], [t EXCEPT !.columns[3].bit = 8],
             [t EXCEPT !.rowSize = 0], [t EXCEPT !.rowSize = 13], [t EXCEPT !.rowSize = 6],
             [t EXCEPT !.rowSize = 12, !.matrix = <<<<1>>, <<2>>, <<3>>>>, !.size = 36],
             [t EXCEPT !.bitmap = 9] }

=============================================================================
