----------------------------- MODULE Procedures -----------------------------
(***************************************************************************)
(* Four procedures that run alone, from a call to its return: the way from *)
(* an identifier to a heap item, the rows of a table and its sub-folders,  *)
(* the name-to-ID map with the questions put to it, and the generator.     *)
(* A behaviour is one call of one of them; the variables of the others are *)
(* None.  pc, result and faults, and done of the map and the generator,    *)
(* are the running procedure's.                                            *)
(***************************************************************************)
EXTENDS Integers

CONSTANTS
  MaxFaults,                                             \* all but PropertyGenerator
  Heaps, HNIDs, Descriptors, Garbage,                    \* HeapItem
  Tables, BlockBytes, PropertyIDs,                       \* TableRows
  Word, Shift, PropertySets,                             \* NameToIdMap
  PropertySetMAPI, PropertySetPublicStrings, Maps,
  Documents, Damaged, MessageOf, FieldTypes, MaxIds,     \* PropertyGenerator
  Failures

VARIABLES
  call,   \* the procedure called: "item", "rows", "names" or "generate"
  pc, result, faults, done,
  heap, hnid, local, node, blockOffset, pageMapOffset, startOffset, endOffset,
  table, column, wanted, bits, cell, rows, folders,
  map, guidIndexes, nameToID, idToName, stringToID, idToString, answer,
  document, text, line, inside, property, properties, numbers, fields,
  files, list, partial, temporary, deferred, panicked, failed

ofItem == <<heap, hnid, local, node, blockOffset, pageMapOffset, startOffset, endOffset>>
ofRows == <<table, column, wanted, bits, cell, rows, folders>>
ofNames == <<map, guidIndexes, nameToID, idToName, stringToID, idToString, answer>>
ofGenerator ==
  <<document, text, line, inside, property, properties, numbers, fields,
    files, list, partial, temporary, deferred, panicked, failed>>

vars == <<call, pc, result, faults, done, ofItem, ofRows, ofNames, ofGenerator>>

Item == INSTANCE HeapItem
Rows == INSTANCE TableRows
Names == INSTANCE NameToIdMap
Generator == INSTANCE PropertyGenerator

ASSUME ItemAssumptions == Item!HeapItemAssumption
ASSUME RowsAssumptions == Rows!BoundsAssumption /\ Rows!TablesAssumption
ASSUME NamesAssumptions == Names!MapAssumption
ASSUME GeneratorAssumptions ==
  /\ Generator!DocumentsAssumption /\ Generator!MaxIdsAssumption
  /\ Generator!FieldTypesAssumption /\ Generator!FailuresAssumption

None == "none"

NoItem ==
  /\ heap = None /\ hnid = None /\ local = None /\ node = None
  /\ blockOffset = None /\ pageMapOffset = None /\ startOffset = None /\ endOffset = None

NoRows ==
  /\ table = None /\ column = None /\ wanted = None /\ bits = None
  /\ cell = None /\ rows = None /\ folders = None

NoNames ==
  /\ map = None /\ guidIndexes = None /\ nameToID = None /\ idToName = None
  /\ stringToID = None /\ idToString = None /\ answer = None

NoGenerator ==
  /\ document = None /\ text = None /\ line = None /\ inside = None /\ property = None
  /\ properties = None /\ numbers = None /\ fields = None /\ files = None
  /\ list = None /\ partial = None /\ temporary = None /\ deferred = None
  /\ panicked = None /\ failed = None

Init ==
  \/ call = "item" /\ Item!Init /\ done = None /\ NoRows /\ NoNames /\ NoGenerator
  \/ call = "rows" /\ Rows!Init /\ done = None /\ NoItem /\ NoNames /\ NoGenerator
  \/ call = "names" /\ Names!Init /\ NoItem /\ NoRows /\ NoGenerator
  \/ /\ call = "generate" /\ Generator!Init /\ result = None /\ faults = None
     /\ NoItem /\ NoRows /\ NoNames

GoesOn ==
  \/ /\ call = "item" /\ Item!Next
     /\ UNCHANGED <<call, done, ofRows, ofNames, ofGenerator>>
  \/ /\ call = "rows" /\ Rows!Next
     /\ UNCHANGED <<call, done, ofItem, ofNames, ofGenerator>>
  \/ /\ call = "names" /\ Names!Build
     /\ UNCHANGED <<call, ofItem, ofRows, ofGenerator>>
  \/ /\ call = "generate" /\ Generator!Next
     /\ UNCHANGED <<call, result, faults, ofItem, ofRows, ofNames>>

\* GetPropertyID on the finished map, by a user who need not ask.
Ask ==
  /\ call = "names" /\ Names!Ask
  /\ UNCHANGED <<call, ofItem, ofRows, ofGenerator>>

Next == GoesOn \/ Ask

Spec == Init /\ [][Next]_vars

----------------------------------------------------------------------------
(* The properties of the four modules, each of its own calls.              *)

\* The state variables have their types.
TypeOK ==
  /\ call = "item" => Item!TypeOK
  /\ call = "rows" => Rows!TypeOK
  /\ call = "names" => Names!TypeOK
  /\ call = "generate" => Generator!TypeOK

\* An identifier gives the node that has it, else the item of its own block that
\* it addresses, and fails only for a reason (heap_on_node.go,
\* GetHeapOnNodeReaderFromHNID).
ItemResolved ==
  call = "item" => Item!ItemAddressed /\ Item!NodeBeforeItem /\ Item!ErrorsExplained

\* The rows of a table come back with their cells wherever blocks end, a folder
\* gets all its sub-folders or an error that is justified, and only a row size of 0
\* and a bit that no column can have panic (table_context.go, GetTableContext, and
\* folder.go, GetSubFolders).
TableAsStored ==
  call = "rows" => Rows!RowsAsStored /\ Rows!AllFoldersOrError /\ Rows!PanicsExplained

\* A number in a property set gives the last entry that has it and no other, the
\* maps undo each other, and only an entry that names no place of a stream panics
\* (name_to_id_map.go, GetNameToIDMap and GetPropertyID).
NamesResolved ==
  call = "names" => Names!AnswersLastEntry /\ Names!MapsAgree /\ Names!PanicsExplained

\* The properties are those the lines describe, their identifiers with them, a message
\* has exactly the fields of its properties, nothing is written from a document that is
\* not valid, and a run that ends well has missed no failure but that of copying the
\* text and that of closing a file (generate.go, createProperties,
\* generateProtocolBuffers, unzip, createProtoFilesFromBuilders and main).
GeneratedAsWritten ==
  call = "generate" =>
    /\ Generator!PropertiesAsWritten
    /\ Generator!FieldsOfProperties
    /\ Generator!OutputJustified

=============================================================================
