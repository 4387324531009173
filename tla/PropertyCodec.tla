---------------------------- MODULE PropertyCodec ----------------------------
(***************************************************************************)
(* How the properties of a message become the fields of a Go structure:    *)
(* GetPropertyContext reads the records of the B-Tree-on-Heap, the message *)
(* class selects the structure, Populate writes the properties as a        *)
(* MessagePack map and the generated DecodeMsg reads that map.  Populate   *)
(* announces a pair for every property before it knows which of them give  *)
(* one, so the map it writes is too short and decoding ends at its end.    *)
(*                                                                         *)
(* A record's value stands for its data, inline or behind its HNID; item   *)
(* says of an HNID whether it is 0, leads to an item or to none.  records  *)
(* are the properties the context has; root is what the size bytes of the  *)
(* item at HIDRoot give when they are read as records: the properties only *)
(* if the B-Tree-on-Heap has no levels of index above them.                *)
(***************************************************************************)
EXTENDS Integers, Sequences

CONSTANTS
  Contexts,
  Values,       \* the values properties may have
  Structs,      \* structure -> the fields it declares -> their kinds
  SmallValues,  \* integers that take fewer than the 9 bytes of a float64
  MaxFaults     \* bound on failing reads

Items == {"none", "sound", "lost"}
Kinds == {"string", "int", "bool", "float"}
StructTypes == {"Message", "Appointment", "Contact", "Task", "Journal", "RSS", "AddressBook"}

Identifiers == 0..65535
Record == [id : Identifiers, type : Nat, value : Values, item : Items]
Context ==
  [table : BOOLEAN, keySize : 0..255, valueSize : 0..255, levels : Nat,
   records : Seq(Record), size : Nat, root : Seq(Record)]

\* The keys of a B-Tree-on-Heap are distinct.
Keyed(c) == \A a, b \in DOMAIN c.records : c.records[a].id = c.records[b].id => a = b

\* A record has 8 bytes; without an index the records lie at the root.
Rooted(c) ==
  /\ Len(c.root) = c.size \div 8
  /\ c.levels = 0 => c.root = c.records /\ c.size = 8 * Len(c.records)

\* A field is declared for an identifier and a type, one of those that
\* createProtoFileField has a field type for.  The identifiers of fields may be
\* larger than those of properties.
FieldTypes == {2, 3, 4, 5, 6, 7, 10, 11, 20, 30, 31, 64, 72, 251}
Field == [id : Nat, type : FieldTypes]

ASSUME ValuesAssumption == {"", "0"} \subseteq Values
ASSUME ContextsAssumption == Contexts \subseteq {c \in Context : Keyed(c) /\ Rooted(c)}
ASSUME StructsAssumption ==
  /\ DOMAIN Structs = StructTypes
  /\ \A s \in StructTypes :
       DOMAIN Structs[s] \subseteq Field /\ Structs[s] \in [DOMAIN Structs[s] -> Kinds]
\* The generated structures have no float32, whose tag could be that of a time, and
\* their only GUID has an identifier too large for its tag to be that of an integer.
ASSUME TagsAssumption ==
  \A s \in StructTypes : \A f \in DOMAIN Structs[s] :
    f.type # 4 /\ (f.type = 72 => f.id > 6553)
ASSUME FaultsAssumption == MaxFaults \in Nat

VARIABLES
  pc,          \* "context", "records", "class", "write", "decode", "done"
  context,
  count,       \* keyCount
  properties,  \* PropertyContext.Properties
  target,      \* the type of messageProperties
  k,           \* properties that Populate is done with
  pairs,       \* messagePackBuffer
  left, next,  \* pairs announced and not read, and the pair to be read
  fields,      \* the fields of messageProperties that are set
  result, faults

vars == <<pc, context, count, properties, target, k, pairs, left, next, fields, result, faults>>

Init ==
  /\ pc = "context" /\ context \in Contexts
  /\ count = 0 /\ properties = <<>> /\ target = "Message"
  /\ k = 0 /\ pairs = <<>> /\ left = 0 /\ next = 1
  /\ fields = [f \in {} |-> ""] /\ result = "none" /\ faults = 0

ReadOK == UNCHANGED faults
ReadFails == faults < MaxFaults /\ faults' = faults + 1

Returns(r) ==
  /\ pc' = "done" /\ result' = r
  /\ UNCHANGED <<context, count, properties, target, k, pairs, left, next, fields>>

----------------------------------------------------------------------------
(* The property context.                                                   *)

\* The sum of two bytes.
RecordSize == (context.keySize + context.valueSize) % 256

\* The records are counted by the sizes in the header, and looked for at the root:
\* the levels are not looked at.
GetPropertyContext ==
  /\ pc = "context"
  /\ \/ ReadFails /\ Returns("error")
     \/ ReadOK /\ ~ context.table /\ Returns("error")
     \/ ReadOK /\ context.table /\ RecordSize = 0 /\ Returns("panic")
     \/ /\ ReadOK /\ context.table /\ RecordSize # 0
        /\ count' = context.size \div RecordSize /\ pc' = "records"
        /\ UNCHANGED <<context, properties, target, k, pairs, left, next, fields, result>>

\* They are read 8 bytes apart.
ReadRecord ==
  /\ pc = "records" /\ Len(properties) < count
  /\ \/ ReadFails /\ Returns("error")
     \/ ReadOK /\ Len(properties) >= Len(context.root) /\ Returns("error")
     \/ /\ ReadOK /\ Len(properties) < Len(context.root)
        /\ properties' = Append(properties, context.root[Len(properties) + 1])
        /\ UNCHANGED <<pc, context, count, target, k, pairs, left, next, fields, result>>

EndRecords ==
  /\ pc = "records" /\ Len(properties) = count
  /\ pc' = "class"
  /\ UNCHANGED <<context, count, properties, target, k, pairs, left, next, fields, result, faults>>

----------------------------------------------------------------------------
(* The properties.                                                         *)

\* Types whose data GetDataSize puts into the record itself.
Inline(p) == p.type \in {2, 3, 4, 10, 11}

\* NewPropertyReader returns a reader, ErrPropertyNoData or another error.
HasReader(p) == Inline(p) \/ p.item = "sound"
HasNoData(p) == ~ Inline(p) /\ p.item = "none"

\* GetPropertyByID: the first property with that identifier.
IsFirst(n) == \A m \in 1..(n - 1) : properties[m].id # properties[n].id
Has(id) == \E n \in DOMAIN properties : properties[n].id = id
First(id) == properties[CHOOSE n \in DOMAIN properties : properties[n].id = id /\ IsFirst(n)]

StructOf(class) ==
  CASE class \in {"IPM.Appointment", "IPM.Schedule.Meeting", "IPM.Schedule.Meeting.Request",
                  "IPM.OLE.CLASS.{00061055-0000-0000-C000-000000000046}"} -> "Appointment"
    [] class \in {"IPM.Contact", "IPM.AbchPerson"} -> "Contact"
    [] class = "IPM.Task"     -> "Task"
    [] class = "IPM.Activity" -> "Journal"
    [] class = "IPM.Post.Rss" -> "RSS"
    [] class = "IPM.DistList" -> "AddressBook"
    [] OTHER -> "Message"

ClassID == 26

\* A message whose class cannot be read is a Message.
GetMessageClass ==
  /\ pc = "class"
  /\ \/ ReadFails /\ target' = "Message"
     \/ /\ ReadOK
        /\ target' = IF Has(ClassID) /\ HasReader(First(ClassID)) /\ First(ClassID).type = 31
                     THEN StructOf(First(ClassID).value) ELSE "Message"
  /\ pc' = "write"
  /\ UNCHANGED <<context, count, properties, k, pairs, left, next, fields, result>>

----------------------------------------------------------------------------
(* Populate.                                                               *)

\* Seeded fault: the identifier alone.
KeyOfIdentifier(id, type) == id

\* The decimal digits of the identifier, then those of the type.
Key(id, type) == id * (IF type < 10 THEN 10 ELSE IF type < 100 THEN 100 ELSE 1000) + type

\* The types WriteMessagePackValue writes, and how.
Wire ==
  [t \in {2, 3, 11, 20, 30, 31, 64} |->
     CASE t \in {30, 31} -> "string" [] t = 11 -> "bool" [] OTHER -> "int"]

Written(p) == p.type \in DOMAIN Wire /\ HasReader(p)

Pair(p) == [key |-> Key(p.id, p.type), value |-> p.value, wire |-> Wire[p.type]]

\* Seeded fault: Populate stops at a property without data.
WritePropertyStopping ==
  /\ pc = "write" /\ k < Len(properties)
  /\ LET p == First(properties[k + 1].id)
     IN  \/ ReadOK /\ Written(p) /\ pairs' = Append(pairs, Pair(p)) /\ k' = k + 1
         \/ ReadOK /\ ~ Written(p) /\ UNCHANGED pairs /\ k' = Len(properties)
  /\ UNCHANGED <<pc, context, count, properties, target, left, next, fields, result>>

\* Each property is looked up again by its identifier; one without data or of a
\* type that is not written is left out, any other error ends Populate.  Its HNID is
\* resolved, and blocks are read for that, before its type is looked at.
WriteProperty ==
  /\ pc = "write" /\ k < Len(properties)
  /\ LET p == First(properties[k + 1].id)
     IN  \/ ReadOK /\ ~ HasReader(p) /\ ~ HasNoData(p) /\ Returns("error")
         \/ ReadFails /\ ~ Inline(p) /\ ~ HasNoData(p) /\ Returns("error")
         \/ /\ ReadOK /\ (HasReader(p) \/ HasNoData(p))
            /\ pairs' = IF Written(p) THEN Append(pairs, Pair(p)) ELSE pairs
            /\ k' = k + 1
            /\ UNCHANGED <<pc, context, count, properties, target, left, next, fields, result>>

\* Written before the pairs.
MapHeader == Len(properties)

EndPopulate ==
  /\ pc = "write" /\ k = Len(properties)
  /\ pc' = "decode" /\ left' = MapHeader
  /\ UNCHANGED <<context, count, properties, target, k, pairs, next, fields, result, faults>>

----------------------------------------------------------------------------
(* DecodeMsg.                                                              *)

Fields == Structs[target]

\* The fields whose tag, joined like the key by createProtoFileField, is the key.
Tagged(key) == {f \in DOMAIN Fields : Key(f.id, f.type) = key}

Set(field, value) ==
  fields' = [f \in DOMAIN fields \cup {field} |-> IF f = field THEN value ELSE fields[f]]

Reads == left' = left - 1 /\ next' = next + 1

\* A key that is no field of the structure is skipped.
SkipPair ==
  /\ pc = "decode" /\ left > 0 /\ next <= Len(pairs)
  /\ Tagged(pairs[next].key) = {}
  /\ Reads
  /\ UNCHANGED <<pc, context, count, properties, target, k, pairs, fields, result, faults>>

DecodeField ==
  /\ pc = "decode" /\ left > 0 /\ next <= Len(pairs)
  /\ \E f \in Tagged(pairs[next].key) :
       Fields[f] = pairs[next].wire /\ Set(f, pairs[next].value)
  /\ Reads
  /\ UNCHANGED <<pc, context, count, properties, target, k, pairs, result, faults>>

\* A value of another kind is an error; if a float64 is expected and fewer than 9 bytes are
\* left, that error is io.EOF, and the field is 0.  A pair has at least 4 bytes, so
\* no more than one can be left.
DecodeMismatch ==
  /\ pc = "decode" /\ left > 0 /\ next <= Len(pairs)
  /\ \E f \in Tagged(pairs[next].key) :
       /\ Fields[f] # pairs[next].wire
       /\ \/ result' = "error" /\ UNCHANGED fields
          \/ /\ Fields[f] = "float" /\ pairs[next].value \in SmallValues
             /\ next + 1 >= Len(pairs)
             /\ result' = "ok" /\ Set(f, "0")
  /\ pc' = "done"
  /\ UNCHANGED <<context, count, properties, target, k, pairs, left, next, faults>>

\* Seeded fault: the io.EOF of a map that ends early counts as an error.
EndDecodeStrict ==
  /\ pc = "decode" /\ (left = 0 \/ next > Len(pairs))
  /\ ReadOK /\ Returns(IF left = 0 THEN "ok" ELSE "error")

\* The end of the map, or the io.EOF that Populate takes for it.
EndDecode ==
  /\ pc = "decode" /\ (left = 0 \/ next > Len(pairs))
  /\ ReadOK /\ Returns("ok")

Next ==
  \/ GetPropertyContext \/ ReadRecord \/ EndRecords \/ GetMessageClass
  \/ WriteProperty \/ EndPopulate
  \/ SkipPair \/ DecodeField \/ DecodeMismatch \/ EndDecode

Spec == Init /\ [][Next]_vars

----------------------------------------------------------------------------
(* Properties.                                                             *)

\* The state variables have their types.
TypeOK ==
  /\ pc \in {"context", "records", "class", "write", "decode", "done"}
  /\ context \in Context /\ count \in Nat /\ properties \in Seq(Record)
  /\ target \in StructTypes
  /\ k \in 0..Len(properties)
  /\ pairs \in Seq([key : Nat, value : Values, wire : Kinds])
  /\ left \in 0..Len(properties) /\ next \in 1..(Len(pairs) + 1)
  /\ fields \in [DOMAIN fields -> Values]
  /\ result \in {"none", "ok", "error", "panic"} /\ faults \in 0..MaxFaults

FieldOf(p) == [id |-> p.id, type |-> p.type]
HasField(p) == Written(p) /\ FieldOf(p) \in DOMAIN Fields

\* A property whose field has the kind the property is written as.
WellTyped(p) == HasField(p) => Fields[FieldOf(p)] = Wire[p.type]

AllWellTyped == \A n \in DOMAIN properties : WellTyped(properties[n])

\* No field ever has the value of another property: what is set is the field declared
\* for the identifier and the type of a property, although both travel as one number
\* without a separator, and to the value of that property.  The one exception is a
\* value for a field of another kind, which becomes 0.
FieldsOfTheirKeys ==
  \A f \in DOMAIN fields : \E n \in DOMAIN properties :
    LET p == properties[n]
    IN  /\ p.id = f.id /\ p.type = f.type /\ Written(p)
        /\ fields[f] = IF WellTyped(p) THEN p.value ELSE "0"

\* A property that has a field has set it, and none leads nowhere.
InMessage(p) ==
  /\ HasReader(p) \/ HasNoData(p)
  /\ HasField(p) => FieldOf(p) \in DOMAIN fields /\ fields[FieldOf(p)] = p.value

\* The three ways the code loses a property and reports success: a context with an
\* index, whose records are never reached; records said to be longer than they are,
\* so that the last ones are not counted; another value for a float64 that ends the
\* decoding at one of the last two pairs.
Unfollowed == context.levels # 0
Uncounted(n) == RecordSize > 8 /\ n > (8 * Len(context.records)) \div RecordSize
Undecoded(p) ==
  /\ next \in DOMAIN pairs /\ next + 1 >= Len(pairs)
  /\ \E f \in Tagged(pairs[next].key) : Fields[f] = "float" /\ pairs[next].wire # "float"
  /\ HasField(p) /\ Pair(p) \in {pairs[next], pairs[Len(pairs)]}

\* GetMessage succeeds only with every property of the context, however many pairs
\* before it were announced and left out, unless it is one of those three.
PopulatedWhole ==
  result = "ok" =>
    \A n \in DOMAIN context.records :
      LET p == context.records[n]
      IN  InMessage(p) \/ Unfollowed \/ Uncounted(n) \/ Undecoded(p)

Sound ==
  /\ context.table /\ context.keySize = 2 /\ context.valueSize = 6
  /\ \A n \in DOMAIN context.records :
       HasReader(context.records[n]) \/ HasNoData(context.records[n])

\* GetMessage fails for a reason: a record or a header that is not sound, an index
\* level (property_context.go reads Levels and does not follow it), a 64-bit integer
\* that WriteMessagePackValue writes for a field that is a float64, a failed read.
\* A map header that announces too many pairs is no such reason.
ErrorsExplained ==
  pc = "done" /\ result # "ok" =>
    faults > 0 \/ ~ Sound \/ context.levels # 0 \/ ~ AllWellTyped

=============================================================================
