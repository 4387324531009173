------------------------------ MODULE TableRows ------------------------------
(***************************************************************************)
(* Reading a Table Context (table_context.go) and, from its rows, the      *)
(* sub-folders of a folder (folder.go).  The rows lie in the blocks of a   *)
(* row matrix, none of them across two blocks; the code computes where     *)
(* from the size of a block and of a row, for a matrix of any size.        *)
(*                                                                         *)
(* A read of the matrix delivers the place it read: the row and the        *)
(* position in that row, or Padding.  The rows are known by numbers.       *)
(***************************************************************************)
EXTENDS Integers, Sequences, SequencesExt

CONSTANTS
  Tables,
  BlockBytes,   \* block size less trailer size
  PropertyIDs,  \* propertyIDsToGet
  MaxFaults     \* bound on failing reads

BoundsAssumption == BlockBytes \in Nat \ {0} /\ MaxFaults \in Nat

\* What identifies the sub-folder's name, identifier, count and flag.
NameID == 12289
FolderIDs == {NameID, 26610, 13826, 13834}

Types == {"string", "integer", "boolean", "guid"}
Names == {"sound", "empty", "subnode"}

Uint16 == 0..65535

Column == [id : Nat, type : Types, offset : Nat, size : 0..255, bit : 0..255]

\* matrix is a sequence of blocks, each a sequence of rows; present[r] are the
\* bits set in the cell existence bitmap of row r, name[r] what its name's HNID
\* leads to.
Table ==
  [ type : BOOLEAN, signature : BOOLEAN, hasRows : BOOLEAN, columns : Seq(Column),
    rowSize : Uint16, bitmap : Nat, matrix : Seq(Seq(Nat)), size : Nat,
    present : Seq(SUBSET (0..255)), name : Seq(Names) ]

\* The number of columns is a byte.
TablesAssumption ==
  /\ Tables \subseteq Table
  /\ \A t \in Tables :
       /\ Len(t.columns) <= 255 /\ Len(t.name) = Len(t.present)
       /\ t.size <= Len(t.matrix) * BlockBytes
       /\ \A b \in DOMAIN t.matrix : t.matrix[b] \in Seq(DOMAIN t.present)

VARIABLES
  table,
  pc,       \* "info", "columns", "row", "cell", "folders", "done"
  column,   \* columns looked at
  wanted,   \* columnIndexesToGet
  bits,     \* cellExistenceBlock
  cell,     \* cells of the current row looked at
  rows,     \* tableContextItems, with the row in progress
  folders,  \* subFolders: the cells each was made of
  result, faults

vars == <<table, pc, column, wanted, bits, cell, rows, folders, result, faults>>

Init ==
  /\ table \in Tables
  /\ pc = "info" /\ column = 0 /\ wanted = <<>> /\ bits = {} /\ cell = 0
  /\ rows = <<>> /\ folders = <<>> /\ result = "none" /\ faults = 0

ReadOK == UNCHANGED faults
ReadFails == faults < MaxFaults /\ faults' = faults + 1

Returns(r) ==
  /\ pc' = "done" /\ result' = r
  /\ UNCHANGED <<table, column, wanted, bits, cell, rows, folders>>

----------------------------------------------------------------------------
(* The arithmetic of GetTableContext.                                      *)

RowsPerBlock == BlockBytes \div table.rowSize

RowCount ==
  (table.size \div BlockBytes) * RowsPerBlock + (table.size % BlockBytes) \div table.rowSize

\* Seeded fault: the rows are taken to follow each other without padding.
RowOffsetUnpadded(r) == r * table.rowSize

\* currentRowStartOffset of row r, counted from 0.
RowOffset(r) == (r \div RowsPerBlock) * BlockBytes + (r % RowsPerBlock) * table.rowSize

\* The bytes of cellExistenceBlock.
BitmapBytes == (Len(table.columns) + 7) \div 8

Padding == <<0, 0>>

\* The row that has byte o of the matrix, and where in the row that is.
Place(o) ==
  LET block == table.matrix[o \div BlockBytes + 1]
      inBlock == (o % BlockBytes) \div table.rowSize + 1
  IN  IF inBlock <= Len(block)
      THEN <<block[inBlock], (o % BlockBytes) % table.rowSize>> ELSE Padding

\* A read at o that finds bytes.
Inside(o) == o < table.size

----------------------------------------------------------------------------
(* GetTableContext.                                                        *)

GetTableInfo ==
  /\ pc = "info"
  /\ \/ ReadFails /\ Returns("error")
     \/ ReadOK /\ ~ (table.type /\ table.signature) /\ Returns("error")
     \/ ReadOK /\ (table.columns = <<>> \/ ~ table.hasRows) /\ Returns("error")
     \/ /\ ReadOK /\ table.type /\ table.signature
        /\ table.columns # <<>> /\ table.hasRows
        /\ pc' = "columns"
        /\ UNCHANGED <<table, column, wanted, bits, cell, rows, folders, result>>

\* Seeded fault: columns are remembered by the number before theirs.
GetColumnBefore ==
  /\ pc = "columns" /\ column < Len(table.columns)
  /\ ReadOK /\ column' = column + 1
  /\ wanted' = IF table.columns[column + 1].id \in PropertyIDs THEN Append(wanted, column) ELSE wanted
  /\ UNCHANGED <<table, pc, bits, cell, rows, folders, result>>

\* Without identifiers to get, every column is wanted.
GetColumn ==
  /\ pc = "columns" /\ column < Len(table.columns)
  /\ \/ ReadFails /\ Returns("error")
     \/ /\ ReadOK /\ column' = column + 1
        /\ wanted' = IF PropertyIDs = {} \/ table.columns[column + 1].id \in PropertyIDs
                     THEN Append(wanted, column + 1) ELSE wanted
        /\ UNCHANGED <<table, pc, bits, cell, rows, folders, result>>

\* The rows are counted: a row size of 0 divides by zero.
CountRows ==
  /\ pc = "columns" /\ column = Len(table.columns)
  /\ \/ ReadOK /\ table.rowSize = 0 /\ Returns("panic")
     \/ /\ ReadOK /\ table.rowSize # 0 /\ pc' = "row"
        /\ UNCHANGED <<table, column, wanted, bits, cell, rows, folders, result>>

\* What the bits may be that are read at o: those of a row, if they are its bitmap.
BitsAt(o) ==
  IF Place(o) # Padding /\ Place(o)[2] = table.bitmap THEN {table.present[Place(o)[1]]}
  ELSE {{}, 0..(8 * BitmapBytes - 1)}

\* The bitmap of the row is read.
BeginRow ==
  /\ pc = "row" /\ Len(rows) < RowCount
  /\ LET o == RowOffset(Len(rows)) + table.bitmap
     IN  \/ ReadFails /\ Returns("error")
         \/ ReadOK /\ ~ Inside(o) /\ Returns("error")
         \/ /\ ReadOK /\ Inside(o)
            /\ bits' \in BitsAt(o)
            /\ rows' = Append(rows, <<>>) /\ cell' = 0 /\ pc' = "cell"
            /\ UNCHANGED <<table, column, wanted, folders, result>>

\* The bit that cellExistenceBlock[b / 8] & (1 << (7 - b % 8)) tests: bits are
\* numbered from the most significant one of the first byte.
TestedBit(i) == table.columns[i].bit

\* GetTableContextProperty: data of up to 8 bytes is in the row.
Property(i, place) ==
  [ id |-> table.columns[i].id, place |-> place,
    data |-> table.columns[i].type # "string" /\ table.columns[i].size <= 8 ]

GetCell ==
  /\ pc = "cell" /\ cell < Len(wanted)
  /\ LET i == wanted[cell + 1]
         o == RowOffset(Len(rows) - 1) + table.columns[i].offset
     IN  \/ ReadOK /\ TestedBit(i) \div 8 >= BitmapBytes /\ Returns("panic")
         \/ /\ ReadOK /\ TestedBit(i) \div 8 < BitmapBytes /\ TestedBit(i) \notin bits
            /\ cell' = cell + 1
            /\ UNCHANGED <<table, pc, column, wanted, bits, rows, folders, result>>
         \/ /\ TestedBit(i) \div 8 < BitmapBytes /\ TestedBit(i) \in bits
            /\ \/ ReadFails /\ Returns("error")
               \/ ReadOK /\ ~ Inside(o) /\ Returns("error")
               \/ /\ ReadOK /\ Inside(o) /\ cell' = cell + 1
                  /\ rows' = [rows EXCEPT ![Len(rows)] = Append(@, Property(i, Place(o)))]
                  /\ UNCHANGED <<table, pc, column, wanted, bits, folders, result>>

EndRow ==
  /\ pc = "cell" /\ cell = Len(wanted)
  /\ pc' = "row"
  /\ UNCHANGED <<table, column, wanted, bits, cell, rows, folders, result, faults>>

EndTable ==
  /\ pc = "row" /\ Len(rows) = RowCount
  /\ pc' = "folders"
  /\ UNCHANGED <<table, column, wanted, bits, cell, rows, folders, result, faults>>

----------------------------------------------------------------------------
(* GetSubFolders.                                                          *)

\* What the HNID of a name may lead to: that of a row, if it was read in its place.
NameOf(p) ==
  IF p.place # Padding /\ \E c \in ToSet(table.columns) : c.id = NameID /\ c.offset = p.place[2]
  THEN {table.name[p.place[1]]} ELSE Names

\* GetPropertyReader passes no local descriptors: a name that is empty or in a
\* subnode gives no reader.
NameFails(row) == \E p \in ToSet(row) : p.id = NameID /\ NameOf(p) # {"sound"}
NamesSucceed(row) == \A p \in ToSet(row) : p.id = NameID => "sound" \in NameOf(p)

\* A row becomes a folder; one without a cell keeps the zero value.
MakeFolder ==
  /\ pc = "folders" /\ Len(folders) < Len(rows)
  /\ LET row == rows[Len(folders) + 1]
     IN  \/ ReadOK /\ NameFails(row) /\ Returns("error")
         \/ ReadFails /\ (\E p \in ToSet(row) : p.id = NameID) /\ Returns("error")
         \/ /\ ReadOK /\ NamesSucceed(row)
            /\ folders' = Append(folders, ToSet(row))
            /\ UNCHANGED <<table, pc, column, wanted, bits, cell, rows, result>>

EndFolders ==
  /\ pc = "folders" /\ Len(folders) = Len(rows)
  /\ ReadOK /\ Returns("ok")

Next ==
  \/ GetTableInfo \/ GetColumn \/ CountRows
  \/ BeginRow \/ GetCell \/ EndRow \/ EndTable
  \/ MakeFolder \/ EndFolders

Spec == Init /\ [][Next]_vars

----------------------------------------------------------------------------
(* Properties.                                                             *)

CellOf == [id : Nat, place : Nat \X Nat, data : BOOLEAN]

\* The state variables have their types.
TypeOK ==
  /\ table \in Tables
  /\ pc \in {"info", "columns", "row", "cell", "folders", "done"}
  /\ column \in 0..Len(table.columns)
  /\ wanted \in Seq(1..Len(table.columns))
  /\ bits \subseteq 0..255 /\ cell \in 0..Len(wanted)
  /\ rows \in Seq(Seq(CellOf)) /\ Len(folders) <= Len(rows)
  /\ result \in {"none", "ok", "error", "panic"} /\ faults \in 0..MaxFaults

BytesInLast == table.size - (Len(table.matrix) - 1) * BlockBytes
RowsInLast == BytesInLast \div table.rowSize

\* A table as the format lays it out: the rows in order, every block but the last
\* as full as whole rows can make it, and bitmap and columns inside the row.
LaidOut ==
  /\ table.rowSize \in 1..BlockBytes /\ table.bitmap < table.rowSize
  /\ \A b \in DOMAIN table.matrix :
       /\ Len(table.matrix[b]) = IF b < Len(table.matrix) THEN RowsPerBlock ELSE RowsInLast
       /\ \A j \in DOMAIN table.matrix[b] : table.matrix[b][j] = (b - 1) * RowsPerBlock + j
  /\ IF table.matrix = <<>>
     THEN table.size = 0 /\ table.present = <<>>
     ELSE /\ BytesInLast \in 1..BlockBytes
          /\ Len(table.present) = (Len(table.matrix) - 1) * RowsPerBlock + RowsInLast
  /\ \A c \in ToSet(table.columns) :
       c.offset < table.rowSize /\ c.bit < Len(table.columns)

\* The row has a cell in column c, which is wanted.
HasCell(r, c) == (PropertyIDs = {} \/ c.id \in PropertyIDs) /\ c.bit \in table.present[r]

CellIn(r, c) ==
  [id |-> c.id, place |-> <<r, c.offset>>, data |-> c.type # "string" /\ c.size <= 8]

\* The cells of row r in the first n columns, for every n.
Cells(r) ==
  LET cells[n \in 0..Len(table.columns)] ==
        IF n = 0 THEN <<>>
        ELSE IF HasCell(r, table.columns[n]) THEN Append(cells[n - 1], CellIn(r, table.columns[n]))
             ELSE cells[n - 1]
  IN  cells

CellsOf(r) == Cells(r)[Len(table.columns)]

\* The rows of the result are the rows of the table, each with the cells it has
\* and each cell read in its own row, wherever blocks end.
RowsAsStored ==
  LaidOut =>
    /\ pc = "folders" => Len(rows) = Len(table.present)
    /\ \A r \in DOMAIN rows :
         pc = "folders" \/ r < Len(rows) => rows[r] = CellsOf(r)

\* Only a row size of 0 and a bit that no column can have make it panic, also for
\* a table that is not laid out as it should be: a block that holds no row at all
\* is not divided by.
PanicsExplained ==
  result = "panic" =>
    table.rowSize = 0 \/ \E c \in ToSet(table.columns) : c.bit >= Len(table.columns)

\* A folder that has sub-folders is given all of them or an error, and the error
\* means that a table, a name or a read is at fault.
AllFoldersOrError ==
  LaidOut =>
    /\ result = "ok" => folders = [r \in 1..Len(table.present) |-> ToSet(CellsOf(r))]
    /\ result = "error" =>
         \/ faults > 0
         \/ ~ table.type \/ ~ table.signature \/ ~ table.hasRows \/ table.columns = <<>>
         \/ \E r \in DOMAIN table.present :
              /\ table.name[r] # "sound"
              /\ \E c \in ToSet(CellsOf(r)) : c.id = NameID

=============================================================================
