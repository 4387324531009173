-------------------------- MODULE PropertyGenerator --------------------------
(***************************************************************************)
(* The generator of the property structures (cmd/properties/generate.go):  *)
(* it downloads a document, takes its text, reads the properties from it   *)
(* line by line, checks them and writes one .proto file for each message   *)
(* type and a list of all.  Any step may fail; main panics on the errors   *)
(* it sees, and its deferred functions remove the files that are not       *)
(* output.                                                                 *)
(*                                                                         *)
(* A document is the sequence of its lines, and may lack its text.  A line *)
(* has a kind and what createProperties finds in it: a word, the digits of *)
(* a number, types.  The text is what the generator copies of the document,*)
(* after a failed copy something else.                                     *)
(***************************************************************************)
EXTENDS Integers, Sequences

CONSTANTS
  Documents,
  Damaged,     \* the well-formed texts that a failed copy may leave
  MessageOf,   \* areaNameToProtocolBufferMessageType
  FieldTypes,  \* the domain of propertyTypeToProtocolBufferFieldType
  MaxIds,      \* the largest identifier of a prefix
  Failures     \* bound on failing: the sets of steps that may fail in one run

Kinds ==
  {"structures", "examples", "name", "set", "id", "types", "area", "other"}
Namespaces == {"", "Lid", "Tag", "Name"}

Line == [kind : Kinds, word : STRING, prefix : Namespaces, digits : Seq(Nat), types : Seq(Nat)]
Document == [lines : Seq(Line), found : BOOLEAN]

\* What follows "Canonical name: " is not empty: a line has no space at its end.
Texts == {d.lines : d \in Documents} \cup Damaged

DocumentsAssumption ==
  /\ Documents \subseteq Document /\ Damaged \subseteq Seq(Line)
  /\ \A t \in Texts : \A k \in DOMAIN t : t[k].kind = "name" => t[k].word # ""

\* The bits of a PidLid or a PidTag identifier.
IdBits == [Lid |-> 32, Tag |-> 16]
MaxIdsAssumption == MaxIds \in [DOMAIN IdBits -> Nat]
FieldTypesAssumption == FieldTypes \subseteq Nat
FailuresAssumption == {} \in Failures

VARIABLES
  pc,
  document, text,
  line, inside, property, properties,  \* getPropertiesFromXML
  done,        \* properties that generateProtocolBuffers is done with
  numbers,     \* protocolBufferMessageTypeToUniqueFieldID
  fields,      \* protocolBufferMessageTypeToBuilder: the fields written
  files, list, \* the .proto files created and the rows of properties.csv
  partial,     \* the .proto files that may lack a part
  temporary,   \* the other files that exist
  deferred,    \* those that a deferred function of main removes
  panicked, failed   \* whether main has panicked, and the steps that failed

parser == <<line, inside, property, properties>>
builders == <<done, numbers, fields>>
output == <<files, list, partial>>
vars == <<pc, document, text, parser, builders, output, temporary, deferred, panicked, failed>>

Messages == {MessageOf[a] : a \in DOMAIN MessageOf}

NoProperty == [name |-> "", prefix |-> "", set |-> "", id |-> 0, types |-> <<>>, area |-> ""]

Init ==
  /\ pc = "download" /\ document \in Documents /\ text = <<>>
  /\ line = 1 /\ inside = FALSE /\ property = NoProperty /\ properties = <<>>
  /\ done = 0 /\ numbers = [m \in Messages |-> 0] /\ fields = [m \in {} |-> <<>>]
  /\ files = {} /\ list = <<>> /\ partial = {}
  /\ temporary = {} /\ deferred = {} /\ panicked = FALSE /\ failed = {}

Succeeds == UNCHANGED failed
Fails(step) == failed' = failed \cup {step} /\ failed' \in Failures

GoOn(to) == pc' = to /\ UNCHANGED panicked

\* A panic of main still runs its deferred functions.
Panics == pc' = "exit" /\ panicked' = TRUE

----------------------------------------------------------------------------
(* The document.                                                           *)

\* A file that could not be filled or closed stays behind.
Download ==
  /\ pc = "download"
  /\ \/ Succeeds /\ temporary' = {"docx"} /\ deferred' = {"docx"} /\ GoOn("unzip")
     \/ Fails("get") /\ UNCHANGED <<temporary, deferred>> /\ Panics
     \/ Fails("save") /\ temporary' = {"docx"} /\ UNCHANGED deferred /\ Panics
  /\ UNCHANGED <<document, text, parser, builders, output>>

\* Once the file to copy to exists, the deferred functions of unzip, which test
\* err where errClosing is meant, replace an error by that of closing, nil.  A
\* failed copy, or a text beyond the limit of 10 MiB, gives the file as it is; a
\* document without word/document.xml gives the name "", which can be neither
\* opened nor removed.  Only the error of closing the document is told, and
\* then the file stays behind.
Unzip ==
  /\ pc = "unzip"
  /\ \/ Fails("open") /\ Panics /\ UNCHANGED <<text, temporary, deferred>>
     \/ /\ Fails("shut") /\ Panics /\ temporary' = temporary \cup {"xml"}
        /\ UNCHANGED <<text, deferred>>
     \/ /\ temporary' = temporary \cup {"xml"} /\ GoOn("parse")
        /\ \/ /\ document.found /\ deferred' = deferred \cup {"xml"}
              /\ \/ Succeeds /\ text' = document.lines
                 \/ Fails("copy") /\ text' \in Damaged
           \/ /\ (Succeeds /\ ~ document.found) \/ Fails("entry")
              /\ UNCHANGED <<text, deferred>>
  /\ UNCHANGED <<document, parser, builders, output>>

\* A text cut short is not well-formed XML; one with a wrong checksum, or that ends
\* where the limit is, may be.
ParseXML ==
  /\ pc = "parse"
  /\ \/ Succeeds /\ "xml" \in deferred /\ GoOn("lines")
     \/ Succeeds /\ ("xml" \notin deferred \/ "copy" \in failed) /\ Panics
     \/ Fails("read") /\ Panics
  /\ UNCHANGED <<document, text, parser, builders, output, temporary, deferred>>

----------------------------------------------------------------------------
(* The lines.                                                              *)

Value(digits, base) ==
  LET V[k \in 0..Len(digits)] == IF k = 0 THEN 0 ELSE V[k - 1] * base + digits[k]
  IN  V[Len(digits)]

\* getPropertyIDFromLine reads the digits in the base that is their width.
PropertyID(prefix, digits) == Value(digits, IdBits[prefix])

Parses(prefix, digits) ==
  /\ prefix \in DOMAIN IdBits /\ digits # <<>>
  /\ \A k \in DOMAIN digits : digits[k] < IdBits[prefix]
  /\ PropertyID(prefix, digits) <= MaxIds[prefix]

Readable(l) ==
  CASE l.kind = "set"   -> l.word # ""
    [] l.kind = "id"    -> Parses(property.prefix, l.digits)
    [] l.kind = "types" -> l.types # <<>>
    [] OTHER -> TRUE

\* Seeded fault: a property keeps what it does not set of the one before.
StartPropertyStale(l) ==
  /\ l.kind = "name"
  /\ properties' = IF property.name = "" THEN properties ELSE Append(properties, property)
  /\ property' = [property EXCEPT !.name = l.word, !.prefix = l.prefix]

\* A new name ends the property before it.
StartProperty(l) ==
  /\ l.kind = "name"
  /\ IF property.name = ""
     THEN property' = [property EXCEPT !.name = l.word, !.prefix = l.prefix]
          /\ UNCHANGED properties
     ELSE property' = [NoProperty EXCEPT !.name = l.word, !.prefix = l.prefix]
          /\ properties' = Append(properties, property)

SetField(l) ==
  /\ l.kind # "name"
  /\ property' =
       CASE l.kind = "set"   -> [property EXCEPT !.set = l.word]
         [] l.kind = "id"    -> [property EXCEPT !.id = PropertyID(property.prefix, l.digits)]
         [] l.kind = "types" -> [property EXCEPT !.types = property.types \o l.types]
         [] l.kind = "area"  -> [property EXCEPT !.area = l.word]
         [] OTHER -> property
  /\ UNCHANGED properties

ReadLine ==
  /\ pc = "lines" /\ line <= Len(text)
  /\ LET l == text[line]
     IN  /\ l.kind # "examples"
         /\ inside' = (inside \/ l.kind = "structures")
         /\ IF l.kind = "structures" \/ ~ inside
            THEN GoOn("lines") /\ UNCHANGED <<property, properties>>
            ELSE IF Readable(l)
                 THEN GoOn("lines") /\ (StartProperty(l) \/ SetField(l))
                 ELSE Panics /\ UNCHANGED <<property, properties>>
  /\ line' = line + 1
  /\ UNCHANGED <<document, text, builders, output, temporary, deferred, failed>>

\* The last property is added when there are no more lines.
EndLines ==
  /\ pc = "lines"
  /\ line <= Len(text) => text[line].kind = "examples"
  /\ properties' = Append(properties, property) /\ GoOn("validate")
  /\ UNCHANGED <<document, text, line, inside, property, builders, output, temporary,
                 deferred, failed>>

Valid(p) ==
  /\ p.name # ""
  /\ p.id # 0 \/ p.prefix = "Name"
  /\ p.area # ""
  /\ p.types # <<>> /\ \A k \in DOMAIN p.types : p.types[k] # 0

ValidateProperties ==
  /\ pc = "validate"
  /\ IF \A k \in DOMAIN properties : Valid(properties[k]) THEN GoOn("generate") ELSE Panics
  /\ UNCHANGED <<document, text, parser, builders, output, temporary, deferred, failed>>

----------------------------------------------------------------------------
(* The output.                                                             *)

Field(p, n) == [name |-> p.name, id |-> p.id, type |-> p.types[1], number |-> n]

\* Every property of a message takes a number, also one that gives no field.
NextNumber(m, p) == numbers[m] + 1

Builder(m) == IF m \in DOMAIN fields THEN fields[m] ELSE <<>>

\* A property whose area is not mapped is only named on the terminal; only the
\* first of its types counts, and it gives a field if it is of fixed size.
GenerateField ==
  /\ pc = "generate" /\ done < Len(properties)
  /\ done' = done + 1
  /\ LET p == properties[done + 1]
     IN  IF p.area \notin DOMAIN MessageOf
         THEN UNCHANGED <<numbers, fields>>
         ELSE LET m == MessageOf[p.area]
                  n == NextNumber(m, p)
                  new == IF p.types[1] \in FieldTypes THEN <<Field(p, n)>> ELSE <<>>
              IN  /\ numbers' = [numbers EXCEPT ![m] = n]
                  /\ fields' = [k \in DOMAIN fields \cup {m} |->
                                  IF k = m THEN Builder(m) \o new ELSE fields[k]]
  /\ UNCHANGED <<pc, document, text, parser, output, temporary, deferred, panicked, failed>>

\* The directory of the files is made first, also when there is none to write.
EndGenerate ==
  /\ pc = "generate" /\ done = Len(properties)
  /\ \/ Succeeds /\ GoOn("files")
     \/ Fails("mkdir") /\ Panics
  /\ UNCHANGED <<document, text, parser, builders, output, temporary, deferred>>

\* The files come in the order of a Go map, any order.  A file that fails to be
\* written stays behind as it is.  The error of closing a file is lost, and with it
\* what the file may lack: the deferred function wraps err, not errClosing.
WriteFile(m) ==
  /\ pc = "files" /\ m \in DOMAIN fields \ files
  /\ \/ Fails("create") /\ Panics /\ UNCHANGED <<files, partial>>
     \/ /\ files' = files \cup {m}
        /\ \/ Succeeds /\ GoOn("files") /\ UNCHANGED partial
           \/ Fails("write") /\ Panics /\ partial' = partial \cup {m}
           \/ Fails("close") /\ GoOn("files") /\ partial' = partial \cup {m}
  /\ UNCHANGED <<document, text, parser, builders, list, temporary, deferred>>

\* Named properties have no identifier and are left out.  A list that fails may have
\* its first rows.
WriteList ==
  /\ pc = "files" /\ DOMAIN fields \subseteq files
  /\ LET rows == SelectSeq(properties, LAMBDA p : p.id # 0)
     IN  \/ Succeeds /\ GoOn("exit") /\ list' = rows
         \/ Fails("list") /\ Panics /\ \E n \in 0..Len(rows) : list' = SubSeq(rows, 1, n)
  /\ UNCHANGED <<document, text, parser, builders, files, partial, temporary, deferred>>

\* The deferred functions of main, the last registered first.
Exit ==
  /\ pc = "exit" /\ pc' = "end"
  /\ \/ Succeeds /\ temporary' = temporary \ deferred /\ UNCHANGED panicked
     \/ \E f \in deferred :
          Fails("remove") /\ temporary' = temporary \ (deferred \ {f}) /\ panicked' = TRUE
  /\ UNCHANGED <<document, text, parser, builders, output, deferred>>

Next ==
  \/ Download \/ Unzip \/ ParseXML \/ ReadLine \/ EndLines \/ ValidateProperties
  \/ GenerateField \/ EndGenerate \/ (\E m \in Messages : WriteFile(m)) \/ WriteList \/ Exit

Spec == Init /\ [][Next]_vars

----------------------------------------------------------------------------
(* What the lines say, whatever is done with them.                         *)

Lines == text

InStructures(k) == \E j \in 1..(k - 1) : Lines[j].kind = "structures"

IsName(k) == Lines[k].kind = "name" /\ InStructures(k)

\* How many properties have been named by line k.
Named[k \in 0..Len(text)] ==
  IF k = 0 THEN 0 ELSE IF IsName(k) THEN Named[k - 1] + 1 ELSE Named[k - 1]

\* The property line k belongs to: what comes before the first name is the first's.
Owner(k) == IF Named[k] = 0 THEN 1 ELSE Named[k]

\* The lines of a kind that property p has.
OfKind(p, kind) ==
  {k \in 1..Len(Lines) : Lines[k].kind = kind /\ InStructures(k) /\ Owner(k) = p}

\* Those that have been read, and the one of them that wins.
ReadOf(p, kind) == {k \in OfKind(p, kind) : k < line}

Latest(S) == CHOOSE k \in S : \A j \in S : j <= k

WordOf(p, kind) ==
  IF ReadOf(p, kind) = {} THEN "" ELSE Lines[Latest(ReadOf(p, kind))].word

DigitsOf(p) ==
  IF ReadOf(p, "id") = {} THEN <<>> ELSE Lines[Latest(ReadOf(p, "id"))].digits

\* The types of all of its lines, one after the other, up to each line.
TypesTo(p) ==
  LET T[k \in 0..Len(Lines)] ==
        IF k = 0 THEN <<>>
        ELSE IF k \in OfKind(p, "types") THEN T[k - 1] \o Lines[k].types ELSE T[k - 1]
  IN  T

TypesOf(p) == TypesTo(p)[line - 1]

----------------------------------------------------------------------------
(* Properties.                                                             *)

\* The state variables have their types.
TypeOK ==
  /\ pc \in {"download", "unzip", "parse", "lines", "validate", "generate", "files",
            "exit", "end"}
  /\ document \in Document /\ text \in Seq(Line) /\ line \in 1..(Len(Lines) + 1) /\ inside \in BOOLEAN
  /\ DOMAIN property = DOMAIN NoProperty
  /\ done \in 0..Len(properties)
  /\ numbers \in [Messages -> Nat] /\ DOMAIN fields \subseteq Messages
  /\ files \subseteq DOMAIN fields /\ partial \subseteq files
  /\ deferred \subseteq {"docx", "xml"} /\ temporary \subseteq {"docx", "xml"}
  /\ panicked \in BOOLEAN /\ failed \in Failures

\* An identifier is the hexadecimal number of its line.  The long identifier of a
\* PidLid property is not: its digits are read in the base that is its width, 32.
IdentifierAsWritten(p, digits) ==
  \/ p.id = Value(digits, 16)
  \/ p.prefix = "Lid" /\ p.id = Value(digits, 32)

\* The properties read so far, the one in progress included, are those the
\* lines describe: none takes over a field of its neighbour and none is lost.
PropertiesAsWritten ==
  ~ panicked /\ pc \in {"lines", "validate", "generate", "files"} =>
    LET all == IF pc = "lines" THEN Append(properties, property) ELSE properties
    IN  /\ Len(all) = Owner(line - 1)
        /\ \A k \in 1..(line - 1) :
             IsName(k) => /\ all[Named[k]].name = Lines[k].word
                          /\ all[Named[k]].prefix = Lines[k].prefix
        /\ \A p \in DOMAIN all :
             /\ all[p].set = WordOf(p, "set") /\ all[p].area = WordOf(p, "area")
             /\ all[p].types = TypesOf(p)
             /\ IdentifierAsWritten(all[p], DigitsOf(p))

Gives(p, m) ==
  p.area \in DOMAIN MessageOf /\ MessageOf[p.area] = m /\ p.types[1] \in FieldTypes

\* The fields of message m, without their numbers, for the first d properties.
FieldsTo(m) ==
  LET F[d \in 0..Len(properties)] ==
        IF d = 0 THEN <<>>
        ELSE IF Gives(properties[d], m) THEN Append(F[d - 1], Field(properties[d], 0)) ELSE F[d - 1]
  IN  F

FieldsOf(m) == FieldsTo(m)[done]

\* A message has exactly the fields of its properties, in their order, each
\* with a number of its own.
FieldsOfProperties ==
  \A m \in Messages :
    /\ [n \in DOMAIN Builder(m) |-> [Builder(m)[n] EXCEPT !.number = 0]] = FieldsOf(m)
    /\ \A a, b \in DOMAIN Builder(m) : a < b => Builder(m)[a].number < Builder(m)[b].number

\* The two failures that a run goes on from without a word.
Unseen == {"copy", "close"}

\* Nothing is written from a document with a property that is not valid.  A run that
\* ends well has seen no failure but the two, has written all files and leaves only
\* its output; its text is the document's unless the copy failed, its files are whole
\* unless closing one failed.
OutputJustified ==
  /\ files # {} \/ list # <<>> => \A k \in DOMAIN properties : Valid(properties[k])
  /\ partial # {} => failed \cap {"write", "close"} # {}
  /\ pc = "end" /\ ~ panicked =>
       /\ failed \subseteq Unseen
       /\ files = {MessageOf[a] : a \in DOMAIN MessageOf
                                  \cap {properties[k].area : k \in DOMAIN properties}}
       /\ temporary = {}
       /\ "copy" \notin failed => text = document.lines
       /\ "close" \notin failed => partial = {}

=============================================================================
