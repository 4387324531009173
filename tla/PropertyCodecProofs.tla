------------------------- MODULE PropertyCodecProofs -------------------------
(***************************************************************************)
(* Proofs about PropertyCodec.  The invariant follows the data: the        *)
(* properties are the first of the records, the pairs are those of the     *)
(* properties done, the fields are those of the pairs read.  That a field  *)
(* has the value of its own property rests on the keys: identifiers and    *)
(* types are joined without a separator.  This loses nothing between types *)
(* that are written; against the tags it takes TagsAssumption.             *)
(***************************************************************************)
EXTENDS PropertyCodec, SequenceTheorems, TLAPS

\* A function on 1..n is a sequence of length n.
LEMMA BuiltFacts ==
  ASSUME NEW S, NEW n \in Nat, NEW f \in [1..n -> S]
  PROVE  f \in Seq(S) /\ Len(f) = n
  OBVIOUS

\* The properties read so far are the first of those at the root, and the one that
\* GetPropertyByID finds for each of them is the first with its identifier.
RootInv ==
  /\ Keyed(context) /\ Rooted(context)
  /\ Len(properties) <= Len(context.root)
  /\ \A n \in 1..Len(properties) : properties[n] = context.root[n]
  /\ \A n \in 1..Len(properties) :
       \E m \in 1..n : properties[m].id = properties[n].id /\ IsFirst(m)
  /\ (pc = "done") <=> (result # "none")

\* As many are read as the sizes in the header give.
CountInv ==
  /\ pc \in {"records", "class", "write", "decode"} \/ result = "ok" =>
       RecordSize # 0 /\ count = context.size \div RecordSize
  /\ pc \in {"class", "write", "decode"} \/ result = "ok" => Len(properties) = count

\* What Populate looks up for a property.
Found(n) == First(properties[n].id)

\* The pairs are those of the properties done that are written.
PairsInv ==
  /\ Len(pairs) <= k
  /\ \A n \in 1..k : HasReader(Found(n)) \/ HasNoData(Found(n))
  /\ \A n \in 1..k : Written(Found(n)) =>
       \E j \in 1..Len(pairs) : pairs[j] = Pair(Found(n))
  /\ \A j \in 1..Len(pairs) :
       \E n \in 1..k : Written(Found(n)) /\ pairs[j] = Pair(Found(n))
  /\ pc \in {"context", "records", "class"} => k = 0
  /\ pc = "decode" \/ result = "ok" => k = Len(properties)

\* The field of the pair at which decoding ended with io.EOF.
Ended(f) ==
  /\ result = "ok" /\ next \in 1..Len(pairs) /\ f \in Tagged(pairs[next].key)
  /\ Fields[f] # pairs[next].wire /\ fields[f] = "0"

\* A field is set by a pair that is read, and every pair that is read has set its
\* fields, which no later pair has set to something else.
ReadInv ==
  /\ \A f \in DOMAIN fields :
       /\ f \in DOMAIN Fields
       /\ \/ \E j \in 1..(next - 1) :
               /\ pairs[j].key = Key(f.id, f.type) /\ Fields[f] = pairs[j].wire
               /\ fields[f] = pairs[j].value
          \/ Ended(f)
  /\ \A j \in 1..(next - 1) : \A f \in Tagged(pairs[j].key) :
       f \in DOMAIN fields /\ fields[f] = pairs[j].value /\ Fields[f] = pairs[j].wire

\* Where a decoding that succeeds has stopped.
Stopped ==
  \/ next = Len(pairs) + 1
  \/ /\ next \in 1..Len(pairs) /\ next + 1 >= Len(pairs)
     /\ \E f \in Tagged(pairs[next].key) : Fields[f] = "float" /\ pairs[next].wire # "float"

FieldsInv ==
  /\ pc \in {"context", "records", "class", "write"} =>
       next = 1 /\ fields = [f \in {} |-> ""]
  /\ pc = "decode" => left = Len(properties) - (next - 1)
  /\ ReadInv
  /\ result = "ok" => Stopped

IInv == RootInv /\ CountInv /\ PairsInv /\ FieldsInv

----------------------------------------------------------------------------
(* Keys.                                                                   *)

LEMMA WireTypes == DOMAIN Wire = {2, 3, 11, 20, 30, 31, 64}
  BY DEF Wire

LEMMA WireKinds ==
  ASSUME NEW t \in DOMAIN Wire
  PROVE  Wire[t] \in Kinds
  BY WireTypes DEF Wire, Kinds

\* What property_reader.go relies on when it prints "%d%d": for the types that
\* are written, no two pairs of an identifier and a type have the same key.
THEOREM KeysAreInjective ==
  ASSUME NEW a \in Nat, NEW b \in Nat,
         NEW s \in DOMAIN Wire, NEW t \in DOMAIN Wire,
         Key(a, s) = Key(b, t)
  PROVE  a = b /\ s = t
<1>1. s \in {2, 3, 11, 20, 30, 31, 64} /\ t \in {2, 3, 11, 20, 30, 31, 64}
  BY WireTypes
<1>2. CASE s \in {2, 3} /\ t \in {2, 3}
  BY <1>2 DEF Key
<1>3. CASE s \in {11, 20, 30, 31, 64} /\ t \in {11, 20, 30, 31, 64}
  BY <1>3 DEF Key
<1>4. CASE s \in {2, 3} /\ t \in {11, 20, 30, 31, 64}
  <2>1. a * 10 + s = b * 100 + t
    BY <1>4 DEF Key
  <2> QED
    BY <1>4, <2>1
<1>5. CASE s \in {11, 20, 30, 31, 64} /\ t \in {2, 3}
  <2>1. a * 100 + s = b * 10 + t
    BY <1>5 DEF Key
  <2> QED
    BY <1>5, <2>1
<1> QED
  BY <1>1, <1>2, <1>3, <1>4, <1>5

\* Tags of one, two and three digits of type, against keys of one and two.
LEMMA ShortTags ==
  ASSUME NEW a \in Nat, NEW b \in Nat, NEW t \in {2, 3, 5, 6, 7}
  PROVE  /\ \A s \in {2, 3} : a * 10 + s = b * 10 + t => a = b /\ s = t
         /\ \A s \in {11, 20, 30, 31, 64} : a * 100 + s # b * 10 + t
  OBVIOUS

LEMMA MiddleTags ==
  ASSUME NEW a \in Nat, NEW b \in Nat, NEW t \in {10, 11, 20, 30, 31, 64}
  PROVE  /\ \A s \in {2, 3} : a * 10 + s # b * 100 + t
         /\ \A s \in {11, 20, 30, 31, 64} : a * 100 + s = b * 100 + t => a = b /\ s = t
  OBVIOUS

LEMMA GuidTags ==
  ASSUME NEW a \in Nat, NEW b \in Nat, a <= 65535, b > 6553
  PROVE  /\ \A s \in {2, 3} : a * 10 + s # b * 100 + 72
         /\ \A s \in {11, 20, 30, 31, 64} : a * 100 + s # b * 100 + 72
  OBVIOUS

LEMMA LongTags ==
  ASSUME NEW a \in Nat, NEW b \in Nat
  PROVE  /\ \A s \in {2, 3} : a * 10 + s # b * 1000 + 251
         /\ \A s \in {11, 20, 30, 31, 64} : a * 100 + s # b * 1000 + 251
  OBVIOUS

\* What the tags of the structures rely on: the key of a property that is written is
\* the tag of no field but the one declared for its identifier and its type.  It fails
\* for a float32, with the key of a time, and for a GUID of a small identifier, with
\* that of an integer, of which the generated structures have none.
THEOREM TagsAreOfTheirProperties ==
  ASSUME NEW a \in Identifiers, NEW s \in DOMAIN Wire, NEW f \in Field,
         f.type # 4, f.type = 72 => f.id > 6553,
         Key(a, s) = Key(f.id, f.type)
  PROVE  a = f.id /\ s = f.type
<1>1. s \in {2, 3} \/ s \in {11, 20, 30, 31, 64}
  BY WireTypes
<1> DEFINE b == f.id
           t == f.type
<1>a. a \in Nat /\ a <= 65535
  BY DEF Identifiers
<1>b. f.id \in Nat /\ f.type \in FieldTypes
  BY DEF Field
<1>c. t \in {2, 3, 5, 6, 7} \/ t \in {10, 11, 20, 30, 31, 64} \/ t = 72 \/ t = 251
  BY <1>b DEF FieldTypes
<1>2. a \in Nat /\ a <= 65535 /\ b \in Nat /\ (t = 72 => b > 6553)
  BY <1>a, <1>b
<1>3. Key(a, s) = Key(b, t)
  OBVIOUS
<1>4. SUFFICES a = b /\ s = t
  OBVIOUS
<1> HIDE DEF b, t
<1>5. CASE t \in {2, 3, 5, 6, 7}
  <2>1. Key(b, t) = b * 10 + t
    BY <1>5 DEF Key
  <2>2. CASE s \in {2, 3}
    <3>1. a * 10 + s = b * 10 + t
      BY <1>3, <2>1, <2>2 DEF Key
    <3> QED
      BY <1>2, <1>5, <2>2, <3>1, ShortTags
  <2>3. CASE s \in {11, 20, 30, 31, 64}
    <3>1. a * 100 + s = b * 10 + t
      BY <1>3, <2>1, <2>3 DEF Key
    <3> QED
      BY <1>2, <1>5, <2>3, <3>1, ShortTags
  <2> QED
    BY <1>1, <2>2, <2>3
<1>6. CASE t \in {10, 11, 20, 30, 31, 64}
  <2>1. Key(b, t) = b * 100 + t
    BY <1>6 DEF Key
  <2>2. CASE s \in {2, 3}
    <3>1. a * 10 + s = b * 100 + t
      BY <1>3, <2>1, <2>2 DEF Key
    <3> QED
      BY <1>2, <1>6, <2>2, <3>1, MiddleTags
  <2>3. CASE s \in {11, 20, 30, 31, 64}
    <3>1. a * 100 + s = b * 100 + t
      BY <1>3, <2>1, <2>3 DEF Key
    <3> QED
      BY <1>2, <1>6, <2>3, <3>1, MiddleTags
  <2> QED
    BY <1>1, <2>2, <2>3
<1>7. CASE t = 72
  <2>1. Key(b, t) = b * 100 + 72
    BY <1>7 DEF Key
  <2>2. CASE s \in {2, 3}
    <3>1. a * 10 + s = b * 100 + 72
      BY <1>3, <2>1, <2>2 DEF Key
    <3> QED
      BY <1>2, <1>7, <2>2, <3>1, GuidTags
  <2>3. CASE s \in {11, 20, 30, 31, 64}
    <3>1. a * 100 + s = b * 100 + 72
      BY <1>3, <2>1, <2>3 DEF Key
    <3> QED
      BY <1>2, <1>7, <2>3, <3>1, GuidTags
  <2> QED
    BY <1>1, <2>2, <2>3
<1>8. CASE t = 251
  <2>1. Key(b, t) = b * 1000 + 251
    BY <1>8 DEF Key
  <2>2. CASE s \in {2, 3}
    <3>1. a * 10 + s = b * 1000 + 251
      BY <1>3, <2>1, <2>2 DEF Key
    <3> QED
      BY <1>2, <1>8, <2>2, <3>1, LongTags
  <2>3. CASE s \in {11, 20, 30, 31, 64}
    <3>1. a * 100 + s = b * 1000 + 251
      BY <1>3, <2>1, <2>3 DEF Key
    <3> QED
      BY <1>2, <1>8, <2>3, <3>1, LongTags
  <2> QED
    BY <1>1, <2>2, <2>3
<1> QED
  BY <1>c, <1>5, <1>6, <1>7, <1>8

LEMMA IdentifierFacts == \A a \in Identifiers : a \in Nat
  BY DEF Identifiers

LEMMA KeyType ==
  ASSUME NEW p \in Record
  PROVE  Key(p.id, p.type) \in Nat
<1>1. p.id \in Nat /\ p.type \in Nat
  BY IdentifierFacts DEF Record
<1> QED
  BY <1>1 DEF Key

LEMMA ByteSum ==
  ASSUME NEW a \in 0..255, NEW b \in 0..255
  PROVE  (a + b) % 256 \in 0..255
  OBVIOUS

LEMMA Quotient ==
  ASSUME NEW a \in Nat, NEW b \in Nat, b # 0
  PROVE  a \div b \in Nat
  OBVIOUS

LEMMA ContextType ==
  ASSUME context \in Context
  PROVE  /\ context.root \in Seq(Record) /\ Len(context.root) \in Nat
         /\ context.records \in Seq(Record) /\ Len(context.records) \in Nat
         /\ DOMAIN context.records = 1..Len(context.records)
         /\ context.size \in Nat /\ RecordSize \in 0..255
<1>1. /\ context.records \in Seq(Record) /\ context.root \in Seq(Record)
      /\ context.size \in Nat /\ context.keySize \in 0..255 /\ context.valueSize \in 0..255
  BY DEF Context
<1>2. (context.keySize + context.valueSize) % 256 \in 0..255
  BY <1>1, ByteSum
<1>3. RecordSize \in 0..255
  BY <1>2 DEF RecordSize
<1>4. Len(context.root) \in Nat /\ Len(context.records) \in Nat
      /\ DOMAIN context.records = 1..Len(context.records)
  BY <1>1
<1> QED
  BY <1>1, <1>3, <1>4

\* What is looked up for a property is a property with its identifier.
LEMMA FoundFacts ==
  ASSUME TypeOK, RootInv, NEW n \in 1..Len(properties)
  PROVE  /\ Found(n) \in Record /\ Found(n).id = properties[n].id
         /\ \E m \in DOMAIN properties : Found(n) = properties[m]
<1> DEFINE id == properties[n].id
           c == CHOOSE m \in DOMAIN properties : properties[m].id = id /\ IsFirst(m)
<1>1. properties \in Seq(Record) /\ DOMAIN properties = 1..Len(properties)
      /\ Len(properties) \in Nat
  BY DEF TypeOK
<1>2. PICK m \in 1..n : properties[m].id = id /\ IsFirst(m)
  BY DEF RootInv
<1>3. m \in DOMAIN properties
  BY <1>1, <1>2
<1>4. c \in DOMAIN properties /\ properties[c].id = id
  BY <1>2, <1>3
<1>5. Found(n) = properties[c]
  BY DEF Found, First
<1> HIDE DEF c
<1> QED
  BY <1>1, <1>4, <1>5

\* Without an index it is the property itself, the identifiers being distinct.
LEMMA FoundItself ==
  ASSUME TypeOK, RootInv, context.levels = 0, NEW n \in 1..Len(properties)
  PROVE  /\ n \in DOMAIN context.records
         /\ properties[n] = context.records[n] /\ Found(n) = properties[n]
<1>1. /\ Len(properties) \in Nat /\ DOMAIN properties = 1..Len(properties)
      /\ context \in Context
  BY DEF TypeOK
<1>2. context.root = context.records /\ Len(properties) <= Len(context.records)
  BY DEF RootInv, Rooted
<1>3. \A m \in 1..Len(properties) :
        m \in DOMAIN context.records /\ properties[m] = context.records[m]
  BY <1>1, <1>2, ContextType DEF RootInv
<1>4. PICK m \in DOMAIN properties : Found(n) = properties[m]
  BY FoundFacts
<1>5. properties[m].id = properties[n].id
  BY <1>4, FoundFacts
<1>6. m = n
  BY <1>1, <1>3, <1>4, <1>5 DEF RootInv, Keyed
<1> QED
  BY <1>3, <1>4, <1>6

----------------------------------------------------------------------------
(* Types, and the properties against what is stored.                       *)

LEMMA ReturnsTypes ==
  ASSUME TypeOK, NEW r \in {"ok", "error", "panic"}, Returns(r), faults' \in 0..MaxFaults
  PROVE  TypeOK'
  BY DEF TypeOK, Returns

LEMMA Faults ==
  ASSUME TypeOK
  PROVE  /\ ReadOK => faults' = faults /\ faults' \in 0..MaxFaults
         /\ ReadFails => faults' \in 0..MaxFaults
  BY FaultsAssumption DEF TypeOK, ReadOK, ReadFails

LEMMA PairType ==
  ASSUME NEW p \in Record, Written(p)
  PROVE  Pair(p) \in [key : Nat, value : Values, wire : Kinds]
  BY KeyType, WireKinds DEF Pair, Written, Record

LEMMA TypeInit == Init => TypeOK
  BY ContextsAssumption, FaultsAssumption DEF Init, TypeOK, StructTypes

LEMMA SetTypes ==
  ASSUME TypeOK, NEW field, NEW value \in Values, Set(field, value)
  PROVE  /\ fields' \in [DOMAIN fields' -> Values]
         /\ DOMAIN fields' = DOMAIN fields \cup {field}
         /\ fields'[field] = value
         /\ \A f \in DOMAIN fields : f # field => fields'[f] = fields[f]
  BY DEF Set, TypeOK

LEMMA NextPair ==
  ASSUME TypeOK, next <= Len(pairs)
  PROVE  /\ next \in 1..Len(pairs)
         /\ pairs[next] \in [key : Nat, value : Values, wire : Kinds]
<1>1. /\ pairs \in Seq([key : Nat, value : Values, wire : Kinds])
      /\ next \in 1..(Len(pairs) + 1)
  BY DEF TypeOK
<1>4. Len(pairs) \in Nat
  BY <1>1
<1>2. next \in 1..Len(pairs)
  BY <1>1, <1>4
<1> DEFINE P == [key : Nat, value : Values, wire : Kinds]
<1>5. pairs \in Seq(P)
  BY <1>1
<1> HIDE DEF P
<1>3. pairs[next] \in P
  BY <1>2, <1>5
<1> QED
  BY <1>2, <1>3 DEF P

LEMMA TypeStep ==
  ASSUME TypeOK, RootInv, Next
  PROVE  TypeOK'
<1>0. context.root \in Seq(Record) /\ context.size \in Nat /\ RecordSize \in 0..255
      /\ properties \in Seq(Record) /\ Len(properties) \in Nat
      /\ pairs \in Seq([key : Nat, value : Values, wire : Kinds]) /\ Len(pairs) \in Nat
  BY ContextType DEF TypeOK
<1>1. CASE GetPropertyContext
  <2>1. CASE \E r \in {"error", "panic"} : Returns(r) /\ (ReadOK \/ ReadFails)
    BY <2>1, Faults, ReturnsTypes
  <2>2. CASE /\ ReadOK /\ RecordSize # 0
             /\ count' = context.size \div RecordSize /\ pc' = "records"
             /\ UNCHANGED <<context, properties, target, k, pairs, left, next, fields, result>>
    <3>1. PICK r \in Nat : r = RecordSize
      BY <1>0
    <3>2. count' \in Nat
      BY <1>0, <2>2, <3>1, Quotient
    <3> QED
      BY <2>2, <3>2, Faults DEF TypeOK
  <2> QED
    BY <1>1, <2>1, <2>2 DEF GetPropertyContext
<1>2. CASE ReadRecord
  <2>1. CASE Returns("error") /\ (ReadOK \/ ReadFails)
    BY <2>1, Faults, ReturnsTypes
  <2>2. CASE /\ ReadOK /\ Len(properties) < Len(context.root)
             /\ properties' = Append(properties, context.root[Len(properties) + 1])
             /\ UNCHANGED <<pc, context, count, target, k, pairs, left, next, fields, result>>
    <3>1. context.root[Len(properties) + 1] \in Record
      BY <1>0, <2>2
    <3>2. properties' \in Seq(Record) /\ Len(properties') = Len(properties) + 1
      BY <1>0, <2>2, <3>1, AppendProperties, LenProperties
    <3> QED
      BY <1>0, <2>2, <3>2, Faults DEF TypeOK
  <2> QED
    BY <1>2, <2>1, <2>2 DEF ReadRecord
<1>3. CASE EndRecords
  BY <1>3 DEF EndRecords, TypeOK
<1>4. CASE GetMessageClass
  <2>1. target' \in StructTypes
    BY <1>4 DEF GetMessageClass, StructOf, StructTypes
  <2> QED
    BY <1>4, <2>1, Faults DEF GetMessageClass, TypeOK
<1>5. CASE WriteProperty
  <2> DEFINE p == First(properties[k + 1].id)
  <2>1. CASE Returns("error") /\ (ReadOK \/ ReadFails)
    BY <2>1, Faults, ReturnsTypes
  <2>2. CASE /\ ReadOK
             /\ pairs' = IF Written(p) THEN Append(pairs, Pair(p)) ELSE pairs
             /\ k' = k + 1
             /\ UNCHANGED <<pc, context, count, properties, target, left, next, fields, result>>
    <3>1. k \in Nat /\ k + 1 \in 1..Len(properties)
      BY <1>0, <1>5 DEF WriteProperty, TypeOK
    <3>2. p \in Record
      BY <3>1, FoundFacts DEF Found
    <3> HIDE DEF p
    <3>3. /\ pairs' \in Seq([key : Nat, value : Values, wire : Kinds])
          /\ Len(pairs') >= Len(pairs) /\ Len(pairs') \in Nat
      <4>1. CASE Written(p)
        BY <1>0, <2>2, <3>2, <4>1, PairType, AppendProperties, LenProperties
      <4>2. CASE ~ Written(p)
        BY <1>0, <2>2, <4>2
      <4> QED
        BY <4>1, <4>2
    <3> QED
      BY <1>0, <2>2, <3>1, <3>3, Faults DEF TypeOK
  <2> QED
    BY <1>5, <2>1, <2>2 DEF WriteProperty
<1>6. CASE EndPopulate
  BY <1>0, <1>6 DEF EndPopulate, MapHeader, TypeOK
<1>7. CASE SkipPair
  BY <1>0, <1>7 DEF SkipPair, Reads, TypeOK
<1>8. CASE DecodeField
  <2>1. PICK f \in Tagged(pairs[next].key) : Set(f, pairs[next].value)
    BY <1>8 DEF DecodeField
  <2>2. fields' \in [DOMAIN fields' -> Values]
    BY <1>8, <2>1, NextPair, SetTypes DEF DecodeField
  <2>3. next \in 1..Len(pairs) /\ left > 0 /\ left' = left - 1 /\ next' = next + 1
    BY <1>8, NextPair DEF DecodeField, Reads
  <2>4. UNCHANGED <<pc, context, count, properties, target, k, pairs, result, faults>>
    BY <1>8 DEF DecodeField
  <2>5. left' \in 0..Len(properties) /\ next' \in 1..(Len(pairs) + 1)
    BY <1>0, <2>3 DEF TypeOK
  <2> QED
    BY <2>2, <2>4, <2>5 DEF TypeOK
<1>9. CASE DecodeMismatch
  <2>1. fields' \in [DOMAIN fields' -> Values]
    <3>1. CASE \E f \in Tagged(pairs[next].key) : Set(f, "0")
      <4>1. "0" \in Values
        BY ValuesAssumption
      <4> QED
        BY <3>1, <4>1, SetTypes
    <3>2. CASE UNCHANGED fields
      BY <3>2 DEF TypeOK
    <3> QED
      BY <1>9, <3>1, <3>2 DEF DecodeMismatch
  <2> QED
    BY <1>9, <2>1 DEF DecodeMismatch, TypeOK
<1>10. CASE EndDecode
  BY <1>10, Faults, ReturnsTypes DEF EndDecode
<1> QED
  BY <1>1, <1>2, <1>3, <1>4, <1>5, <1>6, <1>7, <1>8, <1>9, <1>10 DEF Next


----------------------------------------------------------------------------
(* The steps of the invariant.                                             *)

LEMMA ContextFixed ==
  ASSUME Next
  PROVE  /\ context' = context /\ RecordSize' = RecordSize
         /\ Keyed(context)' = Keyed(context) /\ Rooted(context)' = Rooted(context)
<1>1. context' = context
  BY DEF Next, GetPropertyContext, ReadRecord, EndRecords, GetMessageClass, WriteProperty,
         EndPopulate, SkipPair, DecodeField, DecodeMismatch, EndDecode, Returns
<1> QED
  BY <1>1 DEF RecordSize, Keyed, Rooted

\* Only ReadRecord adds to the properties, and it adds the next record.
LEMMA PropertiesSteps ==
  ASSUME Next
  PROVE  \/ properties' = properties
         \/ /\ ReadRecord /\ Len(properties) < Len(context.root)
            /\ properties' = Append(properties, context.root[Len(properties) + 1])
BY DEF Next, GetPropertyContext, ReadRecord, EndRecords, GetMessageClass, WriteProperty,
       EndPopulate, SkipPair, DecodeField, DecodeMismatch, EndDecode, Returns

LEMMA RootStep ==
  ASSUME TypeOK, RootInv, Next
  PROVE  RootInv'
<1>0. context.root \in Seq(Record) /\ Len(context.root) \in Nat
      /\ properties \in Seq(Record) /\ Len(properties) \in Nat
  BY ContextType DEF TypeOK
<1>1. Keyed(context)' /\ Rooted(context)' /\ context' = context
  BY ContextFixed DEF RootInv
<1>2. /\ Len(properties') <= Len(context.root)
      /\ \A n \in 1..Len(properties') : properties'[n] = context.root[n]
      /\ \A n \in 1..Len(properties') :
           \E m \in 1..n : properties'[m].id = properties'[n].id /\ IsFirst(m)'
  <2>1. CASE properties' = properties
    BY <2>1 DEF RootInv, IsFirst
  <2>2. CASE /\ ReadRecord /\ Len(properties) < Len(context.root)
             /\ properties' = Append(properties, context.root[Len(properties) + 1])
    <3> DEFINE new == Len(properties) + 1
    <3>1. context.root[new] \in Record
      BY <1>0, <2>2
    <3>2. /\ Len(properties') = new /\ properties'[new] = context.root[new]
          /\ \A n \in 1..Len(properties) : properties'[n] = properties[n]
      BY <1>0, <2>2, <3>1, AppendProperties, LenProperties
    <3>3. \A m \in 1..Len(properties) : IsFirst(m) => IsFirst(m)'
      <4> SUFFICES ASSUME NEW m \in 1..Len(properties), IsFirst(m),
                          NEW l \in 1..(m - 1)
                   PROVE  properties'[l].id # properties'[m].id
        BY DEF IsFirst
      <4>1. l \in 1..Len(properties)
        BY <1>0
      <4> QED
        BY <3>2, <4>1 DEF IsFirst
    <3>4. new \in Nat /\ new \in 1..new /\ 1..new = 1..Len(properties) \cup {new}
          /\ 1..(new - 1) = 1..Len(properties)
      BY <1>0
    <3> HIDE DEF new
    <3>5. ASSUME NEW n \in 1..Len(properties)
          PROVE  \E m \in 1..n : properties'[m].id = properties'[n].id /\ IsFirst(m)'
      <4>1. PICK m \in 1..n : properties[m].id = properties[n].id /\ IsFirst(m)
        BY DEF RootInv
      <4>2. m \in 1..Len(properties)
        BY <1>0
      <4> QED
        BY <3>2, <3>3, <4>1, <4>2
    <3>6. \E m \in 1..new : properties'[m].id = properties'[new].id /\ IsFirst(m)'
      <4>1. CASE \E n \in 1..Len(properties) : properties'[n].id = properties'[new].id
        <5>1. PICK n \in 1..Len(properties) : properties'[n].id = properties'[new].id
          BY <4>1
        <5>2. PICK m \in 1..n : properties'[m].id = properties'[n].id /\ IsFirst(m)'
          BY <3>5
        <5>3. m \in 1..new
          BY <1>0, <3>4
        <5> QED
          BY <5>1, <5>2, <5>3
      <4>2. CASE \A n \in 1..Len(properties) : properties'[n].id # properties'[new].id
        BY <3>4, <4>2 DEF IsFirst
      <4> QED
        BY <4>1, <4>2
    <3>7. Len(properties') <= Len(context.root)
      BY <1>0, <2>2, <3>2 DEF new
    <3>8. \A n \in 1..Len(properties') : properties'[n] = context.root[n]
      BY <3>2, <3>4 DEF RootInv
    <3> QED
      BY <3>2, <3>4, <3>5, <3>6, <3>7, <3>8
  <2> QED
    BY <2>1, <2>2, PropertiesSteps
<1>3. (pc' = "done") <=> (result' # "none")
  BY DEF RootInv, Next, GetPropertyContext, ReadRecord, EndRecords, GetMessageClass,
         WriteProperty, EndPopulate, SkipPair, DecodeField, DecodeMismatch, EndDecode, Returns
<1> QED
  BY <1>1, <1>2, <1>3 DEF RootInv

LEMMA CountStep ==
  ASSUME TypeOK, RootInv, CountInv, Next
  PROVE  CountInv'
<1>1. CASE GetPropertyContext
  <2>1. CASE Returns("error") \/ Returns("panic")
    BY <2>1 DEF Returns, CountInv
  <2>2. CASE /\ RecordSize # 0 /\ count' = context.size \div RecordSize /\ pc' = "records"
             /\ UNCHANGED <<context, properties, target, k, pairs, left, next, fields, result>>
    <3>1. result' # "ok"
      BY <1>1, <2>2 DEF GetPropertyContext, RootInv
    <3> QED
      BY <2>2, <3>1, ContextFixed DEF CountInv
  <2> QED
    BY <1>1, <2>1, <2>2 DEF GetPropertyContext
<1>2. CASE ReadRecord
  <2>1. CASE Returns("error")
    BY <2>1 DEF Returns, CountInv
  <2>2. CASE UNCHANGED <<pc, context, count, target, k, pairs, left, next, fields, result>>
    BY <1>2, <2>2, ContextFixed DEF ReadRecord, CountInv, RootInv
  <2> QED
    BY <1>2, <2>1, <2>2 DEF ReadRecord
<1>3. CASE EndRecords
  BY <1>3, ContextFixed DEF EndRecords, CountInv, RootInv
<1>4. CASE WriteProperty
  <2>1. CASE Returns("error")
    BY <2>1 DEF Returns, CountInv
  <2>2. CASE UNCHANGED <<pc, context, count, properties, target, left, next, fields, result>>
    BY <2>2, ContextFixed DEF CountInv
  <2> QED
    BY <1>4, <2>1, <2>2 DEF WriteProperty
<1>5. CASE /\ pc \in {"class", "write", "decode"} /\ UNCHANGED <<count, properties>>
  BY <1>5, ContextFixed DEF CountInv
<1> QED
  BY <1>1, <1>2, <1>3, <1>4, <1>5
  DEF Next, GetMessageClass, EndPopulate, SkipPair, DecodeField, DecodeMismatch, EndDecode, Returns

\* What has been looked up is looked up again while no property is added.
LEMMA FoundFixed ==
  ASSUME UNCHANGED properties
  PROVE  \A n : Found(n)' = Found(n)
  BY DEF Found, First, IsFirst

LEMMA PairsStep ==
  ASSUME TypeOK, RootInv, PairsInv, Next
  PROVE  PairsInv'
<1>0. /\ pairs \in Seq([key : Nat, value : Values, wire : Kinds]) /\ Len(pairs) \in Nat
      /\ properties \in Seq(Record) /\ Len(properties) \in Nat /\ k \in 0..Len(properties)
  BY DEF TypeOK
<1>1. CASE /\ pc \in {"context", "records", "class"} /\ UNCHANGED <<k, pairs>>
           /\ pc' # "decode" /\ result' # "ok"
  <2>1. k = 0 /\ Len(pairs) = 0
    BY <1>0, <1>1 DEF PairsInv
  <2>2. k' = 0 /\ Len(pairs') = 0 /\ 1..0 = {}
    BY <1>1, <2>1
  <2> QED
    BY <1>1, <2>2 DEF PairsInv
<1>2. CASE /\ pc \in {"write", "decode"} /\ UNCHANGED <<k, pairs, properties>>
           /\ pc' \in {"decode", "done"}
           /\ pc' = "decode" \/ result' = "ok" => k = Len(properties)
  BY <1>2, FoundFixed DEF PairsInv
<1>3. CASE WriteProperty
  <2> DEFINE p == First(properties[k + 1].id)
  <2>1. CASE Returns("error")
    <3>1. /\ UNCHANGED <<k, pairs, properties>> /\ pc' = "done" /\ result' = "error"
          /\ pc = "write"
      BY <1>3, <2>1 DEF Returns, WriteProperty
    <3> QED
      BY <1>2, <3>1
  <2>2. CASE /\ HasReader(p) \/ HasNoData(p)
             /\ pairs' = IF Written(p) THEN Append(pairs, Pair(p)) ELSE pairs
             /\ k' = k + 1
             /\ UNCHANGED <<pc, context, count, properties, target, left, next, fields, result>>
    <3>1. k \in Nat /\ k + 1 \in 1..Len(properties) /\ pc = "write" /\ result # "ok"
      BY <1>0, <1>3 DEF WriteProperty, RootInv
    <3>2. p = Found(k + 1) /\ p \in Record
      BY <3>1, FoundFacts DEF Found
    <3>0. \A n : Found(n)' = Found(n)
      BY <2>2, FoundFixed
    <3> HIDE DEF p
    <3>3. CASE Written(p)
      <4> DEFINE q == Pair(p)
      <4>1. /\ pairs' = Append(pairs, q) /\ Len(pairs') = Len(pairs) + 1
            /\ pairs'[Len(pairs) + 1] = q
            /\ \A j \in 1..Len(pairs) : pairs'[j] = pairs[j]
        BY <1>0, <2>2, <3>2, <3>3, PairType, AppendProperties, LenProperties
      <4>2. q = Pair(Found(k + 1))
        BY <3>2
      <4> HIDE DEF q
      <4>3. Len(pairs') <= k'
        BY <1>0, <2>2, <3>1, <4>1 DEF PairsInv
      <4>4. \A n \in 1..k' : HasReader(Found(n)) \/ HasNoData(Found(n))
        BY <2>2, <3>1, <3>2 DEF PairsInv
      <4>5. \A n \in 1..k' : Written(Found(n)) =>
              \E j \in 1..Len(pairs') : pairs'[j] = Pair(Found(n))
        <5> SUFFICES ASSUME NEW n \in 1..k', Written(Found(n))
                     PROVE  \E j \in 1..Len(pairs') : pairs'[j] = Pair(Found(n))
          OBVIOUS
        <5>1. CASE n = k + 1
          BY <1>0, <4>1, <4>2, <5>1
        <5>2. CASE n # k + 1
          <6>1. n \in 1..k
            BY <2>2, <3>1, <5>2
          <6>2. PICK j \in 1..Len(pairs) : pairs[j] = Pair(Found(n))
            BY <6>1 DEF PairsInv
          <6> QED
            BY <1>0, <4>1, <6>2
        <5> QED
          BY <5>1, <5>2
      <4>6. \A j \in 1..Len(pairs') :
              \E n \in 1..k' : Written(Found(n)) /\ pairs'[j] = Pair(Found(n))
        <5> SUFFICES ASSUME NEW j \in 1..Len(pairs')
                     PROVE  \E n \in 1..k' : Written(Found(n)) /\ pairs'[j] = Pair(Found(n))
          OBVIOUS
        <5>1. CASE j = Len(pairs) + 1
          BY <2>2, <3>1, <3>2, <3>3, <4>1, <4>2, <5>1
        <5>2. CASE j # Len(pairs) + 1
          <6>1. j \in 1..Len(pairs)
            BY <1>0, <4>1, <5>2
          <6>2. PICK n \in 1..k : Written(Found(n)) /\ pairs[j] = Pair(Found(n))
            BY <6>1 DEF PairsInv
          <6> QED
            BY <2>2, <3>1, <4>1, <6>1, <6>2
        <5> QED
          BY <5>1, <5>2
      <4> QED
        BY <2>2, <3>0, <3>1, <4>3, <4>4, <4>5, <4>6 DEF PairsInv
    <3>4. CASE ~ Written(p)
      <4>1. pairs' = pairs
        BY <2>2, <3>4
      <4>2. Len(pairs') <= k'
        BY <1>0, <2>2, <3>1, <4>1 DEF PairsInv
      <4>3. \A n \in 1..k' : n = k + 1 \/ n \in 1..k
        BY <2>2, <3>1
      <4>4. ~ Written(Found(k + 1))
            /\ (HasReader(Found(k + 1)) \/ HasNoData(Found(k + 1)))
        BY <2>2, <3>2, <3>4
      <4>5. 1..k \subseteq 1..k'
        BY <2>2, <3>1
      <4> QED
        BY <2>2, <3>0, <3>1, <4>1, <4>2, <4>3, <4>4, <4>5 DEF PairsInv
    <3> QED
      BY <3>3, <3>4
  <2> QED
    BY <1>3, <2>1, <2>2 DEF WriteProperty
<1>4. CASE GetPropertyContext \/ ReadRecord \/ EndRecords \/ GetMessageClass
  BY <1>1, <1>4
  DEF GetPropertyContext, ReadRecord, EndRecords, GetMessageClass, Returns, RootInv
<1>5. CASE EndPopulate
  BY <1>2, <1>5 DEF EndPopulate
<1>6. CASE SkipPair \/ DecodeField \/ DecodeMismatch \/ EndDecode
  BY <1>2, <1>6 DEF SkipPair, DecodeField, DecodeMismatch, EndDecode, Returns, PairsInv
<1> QED
  BY <1>3, <1>4, <1>5, <1>6 DEF Next

\* Two pairs with the same key are those of one property.
LEMMA KeysDecidePairs ==
  ASSUME TypeOK, RootInv, PairsInv,
         NEW i \in 1..Len(pairs), NEW j \in 1..Len(pairs), pairs[i].key = pairs[j].key
  PROVE  pairs[i] = pairs[j]
<1>0. properties \in Seq(Record) /\ k \in 0..Len(properties) /\ Len(properties) \in Nat
  BY DEF TypeOK
<1>1. PICK a \in 1..k : Written(Found(a)) /\ pairs[i] = Pair(Found(a))
  BY DEF PairsInv
<1>2. PICK b \in 1..k : Written(Found(b)) /\ pairs[j] = Pair(Found(b))
  BY DEF PairsInv
<1> DEFINE p == Found(a)
           q == Found(b)
<1>3. a \in 1..Len(properties) /\ b \in 1..Len(properties)
  BY <1>0
<1>4. /\ p \in Record /\ q \in Record
      /\ p.id = properties[a].id /\ q.id = properties[b].id
  BY <1>3, FoundFacts
<1>5. Key(p.id, p.type) = Key(q.id, q.type)
  BY <1>1, <1>2 DEF Pair
<1>6. p.id \in Nat /\ q.id \in Nat /\ p.type \in DOMAIN Wire /\ q.type \in DOMAIN Wire
  BY <1>1, <1>2, <1>4, IdentifierFacts DEF Record, Written
<1>7. p.id = q.id
  BY <1>5, <1>6, KeysAreInjective
<1>8. p = q
  BY <1>4, <1>7 DEF Found
<1> QED
  BY <1>1, <1>2, <1>8

\* A field that has the key of a pair as its tag is the one declared for the property
\* of that pair.
LEMMA TaggedIs ==
  ASSUME TypeOK, RootInv, PairsInv, NEW j \in 1..Len(pairs)
  PROVE  \E n \in 1..k :
           /\ n \in 1..Len(properties) /\ Found(n) \in Record
           /\ Written(Found(n)) /\ pairs[j] = Pair(Found(n))
           /\ \A f \in Tagged(pairs[j].key) :
                /\ f.id = Found(n).id /\ f.type = Found(n).type
                /\ FieldOf(Found(n)) = f /\ HasField(Found(n))
<1>1. PICK n \in 1..k : Written(Found(n)) /\ pairs[j] = Pair(Found(n))
  BY DEF PairsInv
<1>2. n \in 1..Len(properties)
  BY DEF TypeOK
<1> DEFINE p == Found(n)
<1>3. p \in Record
  BY <1>2, FoundFacts
<1> HIDE DEF p
<1>4. p.id \in Identifiers /\ p.type \in DOMAIN Wire
  BY <1>1, <1>3 DEF p, Record, Written
<1>5. ASSUME NEW f \in Tagged(pairs[j].key)
      PROVE  f.id = p.id /\ f.type = p.type /\ FieldOf(p) = f /\ HasField(p)
  <2>1. f \in DOMAIN Fields /\ Key(p.id, p.type) = Key(f.id, f.type)
    BY <1>1 DEF p, Tagged, Pair
  <2>2. f \in Field /\ f.type # 4 /\ (f.type = 72 => f.id > 6553)
    BY <2>1, StructsAssumption, TagsAssumption DEF TypeOK, Fields
  <2>3. p.id = f.id /\ p.type = f.type
    BY <1>4, <2>1, <2>2, TagsAreOfTheirProperties
  <2>4. f = [id |-> f.id, type |-> f.type]
    BY <2>2 DEF Field
  <2>5. FieldOf(p) = f
    BY <2>3, <2>4 DEF FieldOf
  <2>6. Written(p)
    BY <1>1 DEF p
  <2> QED
    BY <2>1, <2>3, <2>5, <2>6 DEF HasField
<1> QED
  BY <1>1, <1>2, <1>3, <1>5 DEF p

LEMMA TaggedOnce ==
  ASSUME TypeOK, RootInv, PairsInv, NEW j \in 1..Len(pairs),
         NEW f \in Tagged(pairs[j].key), NEW g \in Tagged(pairs[j].key)
  PROVE  f = g
<1>1. PICK n \in 1..k : \A h \in Tagged(pairs[j].key) : FieldOf(Found(n)) = h
  BY TaggedIs
<1> QED
  BY <1>1

LEMMA FieldsStep ==
  ASSUME TypeOK, RootInv, PairsInv, FieldsInv, Next, TypeOK', RootInv'
  PROVE  FieldsInv'
<1>0. /\ pairs \in Seq([key : Nat, value : Values, wire : Kinds]) /\ Len(pairs) \in Nat
      /\ next \in 1..(Len(pairs) + 1) /\ Len(properties) \in Nat
      /\ fields \in [DOMAIN fields -> Values]
  BY DEF TypeOK
<1>1. CASE /\ next' = 1 /\ fields' = [f \in {} |-> ""] /\ result' # "ok"
           /\ pc' = "decode" => left' = Len(properties')
  <2>1. 1..(next' - 1) = {} /\ DOMAIN fields' = {}
    BY <1>1
  <2>2. ReadInv'
    BY <2>1 DEF ReadInv
  <2>3. pc' = "decode" => left' = Len(properties') - (next' - 1)
    <3>1. Len(properties') \in Nat
      BY DEF TypeOK
    <3> QED
      BY <1>1, <3>1
  <2> QED
    BY <1>1, <2>2, <2>3 DEF FieldsInv
<1>2. CASE GetPropertyContext \/ ReadRecord \/ EndRecords \/ GetMessageClass \/ WriteProperty
  <2>1. /\ pc \in {"context", "records", "class", "write"} /\ UNCHANGED <<next, fields>>
        /\ pc' # "decode" /\ result' # "ok"
    BY <1>2 DEF GetPropertyContext, ReadRecord, EndRecords, GetMessageClass, WriteProperty,
                Returns, RootInv
  <2> QED
    BY <1>1, <2>1 DEF FieldsInv
<1>3. CASE EndPopulate
  BY <1>1, <1>3 DEF EndPopulate, MapHeader, FieldsInv, RootInv
<1>4. ASSUME UNCHANGED target
      PROVE  Fields' = Fields /\ \A key : Tagged(key)' = Tagged(key)
  BY <1>4 DEF Fields, Tagged
<1>5. pc = "decode" => result # "ok"
  BY DEF RootInv
<1>6. CASE SkipPair
  <2>1. /\ pc = "decode" /\ next \in 1..Len(pairs) /\ Tagged(pairs[next].key) = {}
        /\ next' = next + 1 /\ left' = left - 1
        /\ UNCHANGED <<pc, context, count, properties, target, k, pairs, fields, result, faults>>
    BY <1>6, NextPair DEF SkipPair, Reads
  <2>2. 1..(next' - 1) = 1..(next - 1) \cup {next}
    BY <1>0, <2>1
  <2>3. ReadInv'
    BY <1>4, <1>5, <2>1, <2>2 DEF FieldsInv, ReadInv, Ended
  <2>4. left' = Len(properties') - (next' - 1)
    BY <1>0, <2>1 DEF FieldsInv
  <2> QED
    BY <1>5, <2>1, <2>3, <2>4 DEF FieldsInv
<1>7. CASE DecodeField
  <2> DEFINE key == pairs[next].key
             value == pairs[next].value
  <2>1. /\ pc = "decode" /\ next \in 1..Len(pairs)
        /\ next' = next + 1 /\ left' = left - 1
        /\ UNCHANGED <<pc, context, count, properties, target, k, pairs, result, faults>>
    BY <1>7, NextPair DEF DecodeField, Reads
  <2>2. PICK f \in Tagged(key) : Fields[f] = pairs[next].wire /\ Set(f, value)
    BY <1>7 DEF DecodeField
  <2>3. /\ DOMAIN fields' = DOMAIN fields \cup {f}
        /\ fields'[f] = value
        /\ \A g \in DOMAIN fields : g # f => fields'[g] = fields[g]
    <3>1. value \in Values
      BY <2>1, NextPair
    <3> QED
      BY <2>2, <3>1, SetTypes
  <2>4. 1..(next' - 1) = 1..(next - 1) \cup {next}
    BY <1>0, <2>1
  <2>5. Fields' = Fields /\ \A x : Tagged(x)' = Tagged(x)
    BY <1>4, <2>1
  <2>6. f \in DOMAIN Fields /\ Key(f.id, f.type) = key
    BY <2>2 DEF Tagged
  <2>7. \A g \in Tagged(key) : g = f
    BY <2>1, <2>2, TaggedOnce
  <2>8. ASSUME NEW j \in 1..(next - 1), f \in Tagged(pairs[j].key)
        PROVE  pairs[j] = pairs[next]
    <3>1. j \in 1..Len(pairs) /\ pairs[j].key = pairs[next].key
      BY <1>0, <2>1, <2>6, <2>8 DEF Tagged
    <3> QED
      BY <2>1, <3>1, KeysDecidePairs
  <2>9. ASSUME NEW g \in DOMAIN fields'
        PROVE  /\ g \in DOMAIN Fields
               /\ \E j \in 1..(next' - 1) :
                    /\ pairs[j].key = Key(g.id, g.type) /\ Fields[g] = pairs[j].wire
                    /\ fields'[g] = pairs[j].value
    <3>1. CASE g = f
      BY <2>2, <2>3, <2>4, <2>6, <3>1
    <3>2. CASE g # f
      <4>1. g \in DOMAIN fields /\ fields'[g] = fields[g]
        BY <2>3, <3>2
      <4>2. /\ g \in DOMAIN Fields
            /\ \E j \in 1..(next - 1) :
                 /\ pairs[j].key = Key(g.id, g.type) /\ Fields[g] = pairs[j].wire
                 /\ fields[g] = pairs[j].value
        BY <1>5, <2>1, <4>1 DEF FieldsInv, ReadInv, Ended
      <4> QED
        BY <2>4, <4>1, <4>2
    <3> QED
      BY <3>1, <3>2
  <2>10. ASSUME NEW j \in 1..(next' - 1), NEW g \in Tagged(pairs[j].key)
         PROVE  /\ g \in DOMAIN fields' /\ fields'[g] = pairs[j].value
                /\ Fields[g] = pairs[j].wire
    <3>1. CASE j = next
      BY <2>2, <2>3, <2>7, <3>1
    <3>2. CASE j # next
      <4>1. j \in 1..(next - 1)
        BY <2>4, <3>2
      <4>2. g \in DOMAIN fields /\ fields[g] = pairs[j].value /\ Fields[g] = pairs[j].wire
        BY <4>1 DEF FieldsInv, ReadInv
      <4>3. g = f => fields'[g] = pairs[j].value
        BY <2>3, <2>8, <4>1
      <4> QED
        BY <2>3, <4>2, <4>3
    <3> QED
      BY <3>1, <3>2
  <2> HIDE DEF key, value
  <2>11. ReadInv'
    BY <2>1, <2>5, <2>9, <2>10 DEF ReadInv
  <2>12. left' = Len(properties') - (next' - 1)
    BY <1>0, <2>1 DEF FieldsInv
  <2> QED
    BY <1>5, <2>1, <2>11, <2>12 DEF FieldsInv
<1>8. CASE DecodeMismatch
  <2>1. /\ pc = "decode" /\ next \in 1..Len(pairs) /\ pc' = "done"
        /\ UNCHANGED <<context, count, properties, target, k, pairs, left, next, faults>>
    BY <1>8, NextPair DEF DecodeMismatch
  <2>2. PICK f \in Tagged(pairs[next].key) :
          /\ Fields[f] # pairs[next].wire
          /\ \/ result' = "error" /\ UNCHANGED fields
             \/ /\ Fields[f] = "float" /\ next + 1 >= Len(pairs)
                /\ result' = "ok" /\ Set(f, "0")
    BY <1>8 DEF DecodeMismatch
  <2>3. Fields' = Fields /\ \A x : Tagged(x)' = Tagged(x)
    BY <1>4, <2>1
  <2>4. CASE result' = "error" /\ UNCHANGED fields
    <3>1. ReadInv'
      BY <1>5, <2>1, <2>3, <2>4 DEF FieldsInv, ReadInv, Ended
    <3> QED
      BY <2>1, <2>4, <3>1 DEF FieldsInv
  <2>5. CASE /\ Fields[f] = "float" /\ next + 1 >= Len(pairs)
             /\ result' = "ok" /\ Set(f, "0")
    <3>1. /\ DOMAIN fields' = DOMAIN fields \cup {f}
          /\ fields'[f] = "0"
          /\ \A g \in DOMAIN fields : g # f => fields'[g] = fields[g]
      <4>1. "0" \in Values
        BY ValuesAssumption
      <4> QED
        BY <2>5, <4>1, SetTypes
    <3>2. f \in DOMAIN Fields /\ Key(f.id, f.type) = pairs[next].key
      BY <2>2 DEF Tagged
    <3>3. Ended(f)'
      BY <2>1, <2>2, <2>3, <2>5, <3>1 DEF Ended
    <3>4. ASSUME NEW j \in 1..(next - 1), NEW g \in Tagged(pairs[j].key)
          PROVE  /\ g \in DOMAIN fields /\ g # f /\ fields[g] = pairs[j].value
                 /\ Fields[g] = pairs[j].wire
      <4>1. g \in DOMAIN fields /\ fields[g] = pairs[j].value /\ Fields[g] = pairs[j].wire
        BY DEF FieldsInv, ReadInv
      <4>2. ASSUME g = f PROVE FALSE
        <5>1. j \in 1..Len(pairs) /\ pairs[j].key = pairs[next].key
          BY <1>0, <2>1, <3>2, <4>2 DEF Tagged
        <5>2. pairs[j] = pairs[next]
          BY <2>1, <5>1, KeysDecidePairs
        <5> QED
          BY <2>2, <4>1, <4>2, <5>2
      <4> QED
        BY <4>1, <4>2
    <3>5. ASSUME NEW g \in DOMAIN fields, g # f
          PROVE  /\ g \in DOMAIN Fields
                 /\ \E j \in 1..(next - 1) :
                      /\ pairs[j].key = Key(g.id, g.type) /\ Fields[g] = pairs[j].wire
                      /\ fields[g] = pairs[j].value
      BY <1>5, <2>1 DEF FieldsInv, ReadInv, Ended
    <3>6. ReadInv'
      BY <2>1, <2>3, <3>1, <3>2, <3>3, <3>4, <3>5 DEF ReadInv
    <3>7. Stopped'
      BY <2>1, <2>2, <2>3, <2>5 DEF Stopped
    <3> QED
      BY <2>1, <2>5, <3>6, <3>7 DEF FieldsInv
  <2> QED
    BY <2>2, <2>4, <2>5
<1>9. CASE EndDecode
  <2>1. /\ pc = "decode" /\ pc' = "done" /\ (left = 0 \/ next > Len(pairs))
        /\ UNCHANGED <<properties, target, pairs, next, fields>>
    BY <1>9 DEF EndDecode, Returns
  <2>2. next = Len(pairs) + 1
    <3>1. left = Len(properties) - (next - 1) /\ Len(pairs) <= k /\ k \in 0..Len(properties)
      BY <2>1 DEF FieldsInv, PairsInv, TypeOK
    <3> QED
      BY <1>0, <2>1, <3>1
  <2>3. ReadInv'
    BY <1>4, <1>5, <2>1 DEF FieldsInv, ReadInv, Ended
  <2>4. Stopped'
    BY <2>1, <2>2 DEF Stopped
  <2> QED
    BY <2>1, <2>3, <2>4 DEF FieldsInv
<1> QED
  BY <1>2, <1>3, <1>6, <1>7, <1>8, <1>9 DEF Next

----------------------------------------------------------------------------
(* Theorems.                                                               *)

LEMMA IInvInit == Init => IInv
<1> SUFFICES ASSUME Init PROVE IInv
  OBVIOUS
<1>1. properties = <<>> /\ pairs = <<>> /\ k = 0 /\ next = 1 /\ pc = "context"
      /\ fields = [f \in {} |-> ""] /\ result = "none"
  BY DEF Init
<1>2. context \in Context /\ Keyed(context) /\ Rooted(context)
  BY ContextsAssumption DEF Init
<1>3. Len(context.root) \in Nat
  BY <1>2, ContextType
<1>4. Len(properties) = 0 /\ Len(pairs) = 0 /\ 1..0 = {} /\ DOMAIN fields = {} /\ 1..(next - 1) = {}
  BY <1>1
<1> QED
  BY <1>1, <1>2, <1>3, <1>4 DEF IInv, RootInv, CountInv, PairsInv, FieldsInv, ReadInv

LEMMA IInvStep == TypeOK /\ IInv /\ [Next]_vars => (TypeOK /\ IInv)'
<1> SUFFICES ASSUME TypeOK, IInv, [Next]_vars PROVE (TypeOK /\ IInv)'
  OBVIOUS
<1>1. CASE Next
  BY <1>1, TypeStep, RootStep, CountStep, PairsStep, FieldsStep DEF IInv
<1>2. CASE UNCHANGED vars
  <2>1. TypeOK'
    BY <1>2 DEF vars, TypeOK
  <2>2. Fields' = Fields /\ (\A key : Tagged(key)' = Tagged(key)) /\ \A n : Found(n)' = Found(n)
    BY <1>2 DEF vars, Fields, Tagged, Found, First, IsFirst
  <2>3. RootInv'
    BY <1>2 DEF vars, IInv, RootInv, Keyed, Rooted, IsFirst
  <2>4. CountInv'
    BY <1>2 DEF vars, IInv, CountInv, RecordSize
  <2>5. PairsInv'
    BY <1>2, <2>2 DEF vars, IInv, PairsInv
  <2>6. ReadInv' /\ (Stopped' <=> Stopped)
    BY <1>2, <2>2 DEF vars, IInv, FieldsInv, ReadInv, Ended, Stopped
  <2>7. FieldsInv'
    BY <1>2, <2>6 DEF vars, IInv, FieldsInv
  <2> QED
    BY <2>1, <2>3, <2>4, <2>5, <2>7 DEF IInv
<1> QED
  BY <1>1, <1>2

\* The state variables always have their types.
THEOREM TypeCorrectness == Spec => []TypeOK
<1> QED
  BY TypeInit, IInvInit, IInvStep, PTL DEF Spec

\* Every field that DecodeMsg has set holds the value of the property of exactly that
\* identifier and that type, or 0 if it is of another kind, for all contexts and
\* structures, what an index is misread as included.
THEOREM FieldsAreTheirProperties == Spec => []FieldsOfTheirKeys
<1>1. TypeOK /\ IInv => FieldsOfTheirKeys
  <2> SUFFICES ASSUME TypeOK, IInv, NEW f \in DOMAIN fields
               PROVE  \E n \in DOMAIN properties :
                        /\ properties[n].id = f.id /\ properties[n].type = f.type
                        /\ Written(properties[n])
                        /\ fields[f] = IF WellTyped(properties[n]) THEN properties[n].value ELSE "0"
    BY DEF FieldsOfTheirKeys
  <2>1. PICK j \in 1..Len(pairs) :
          /\ f \in Tagged(pairs[j].key)
          /\ \/ Fields[f] = pairs[j].wire /\ fields[f] = pairs[j].value
             \/ Fields[f] # pairs[j].wire /\ fields[f] = "0"
    <3>1. CASE Ended(f)
      BY <3>1 DEF Ended
    <3>2. CASE ~ Ended(f)
      <4>1. PICK j \in 1..(next - 1) :
              /\ pairs[j].key = Key(f.id, f.type) /\ Fields[f] = pairs[j].wire
              /\ fields[f] = pairs[j].value
        BY <3>2 DEF IInv, FieldsInv, ReadInv
      <4>2. j \in 1..Len(pairs)
        BY DEF TypeOK
      <4>3. f \in Tagged(pairs[j].key)
        BY <4>1 DEF IInv, FieldsInv, ReadInv, Tagged
      <4> QED
        BY <4>1, <4>2, <4>3
    <3> QED
      BY <3>1, <3>2
  <2>2. PICK n \in 1..k :
          /\ n \in 1..Len(properties) /\ Written(Found(n)) /\ pairs[j] = Pair(Found(n))
          /\ f.id = Found(n).id /\ f.type = Found(n).type
          /\ FieldOf(Found(n)) = f /\ HasField(Found(n))
    BY <2>1, TaggedIs DEF IInv
  <2>3. PICK m \in DOMAIN properties : Found(n) = properties[m]
    BY <2>2, FoundFacts DEF IInv
  <2> DEFINE p == properties[m]
  <2>4. pairs[j].wire = Wire[p.type] /\ pairs[j].value = p.value
    BY <2>2, <2>3 DEF Pair
  <2>5. WellTyped(p) <=> Fields[f] = pairs[j].wire
    BY <2>2, <2>3, <2>4 DEF WellTyped
  <2> QED
    BY <2>1, <2>2, <2>3, <2>4, <2>5
<1> QED
  BY <1>1, TypeInit, IInvInit, IInvStep, PTL DEF Spec

\* Records of no more than 8 bytes are all counted.
LEMMA CountEnough ==
  ASSUME NEW n \in Nat, NEW r \in 1..8
  PROVE  n <= (8 * n) \div r
<1>1. r \in {1, 2, 3, 4, 5, 6, 7, 8}
  OBVIOUS
<1> QED
  BY <1>1

\* GetMessage returns no message that lacks a property of its context: the map
\* that is too short is read to its end, whatever was left out of it.  What a message
\* may lack is what the records of an index hide, what a size in the header keeps from
\* being counted, and the end of a decoding that met a float64.
THEOREM NoPropertyIsLost == Spec => []PopulatedWhole
<1>1. TypeOK /\ IInv => PopulatedWhole
  <2> SUFFICES ASSUME TypeOK, IInv, result = "ok", NEW n \in DOMAIN context.records,
                      ~ Unfollowed, ~ Uncounted(n)
               PROVE  InMessage(context.records[n]) \/ Undecoded(context.records[n])
    BY DEF PopulatedWhole
  <2> DEFINE p == context.records[n]
  <2>1. /\ RootInv /\ PairsInv /\ FieldsInv /\ context \in Context /\ context.levels = 0
        /\ Len(properties) = context.size \div RecordSize /\ RecordSize # 0
        /\ k = Len(properties)
    BY DEF TypeOK, IInv, CountInv, PairsInv, Unfollowed
  <2>2. PICK r \in Nat : r = RecordSize
    BY <2>1, ContextType
  <2>3. PICK l \in Nat : l = Len(context.records) /\ n \in 1..l
    BY <2>1, ContextType
  <2>4. context.size = 8 * l /\ Len(properties) = (8 * l) \div r
    <3>1. context.size = 8 * Len(context.records)
      BY <2>1 DEF RootInv, Rooted
    <3> QED
      BY <2>1, <2>2, <2>3, <3>1
  <2>5. PICK q \in Nat : q = (8 * l) \div r
    <3>1. 8 * l \in Nat /\ r # 0
      BY <2>1, <2>2, <2>3
    <3> QED
      BY <2>2, <3>1, Quotient
  <2>6. n <= q
    <3>1. CASE r > 8
      <4>1. ~ (n > q)
        BY <2>2, <2>3, <2>5, <3>1 DEF Uncounted
      <4> QED
        BY <2>3, <4>1
    <3>2. CASE r <= 8
      <4>1. r \in 1..8
        BY <2>1, <2>2, <3>2
      <4>2. l <= q
        BY <2>5, <4>1, CountEnough
      <4> QED
        BY <2>3, <4>2
    <3> QED
      BY <2>2, <3>1, <3>2
  <2>7. n \in 1..Len(properties) /\ n \in 1..k
    <3>1. Len(properties) = q /\ k = q
      BY <2>1, <2>4, <2>5
    <3> QED
      BY <2>3, <2>6, <3>1
  <2>8. properties[n] = p /\ Found(n) = p
    BY <2>1, <2>7, FoundItself
  <2>9. HasReader(p) \/ HasNoData(p)
    BY <2>1, <2>7, <2>8 DEF PairsInv
  <2> HIDE DEF p
  <2>10. ASSUME HasField(p), ~ Undecoded(p)
         PROVE  FieldOf(p) \in DOMAIN fields /\ fields[FieldOf(p)] = p.value
    <3>1. PICK j \in 1..Len(pairs) : pairs[j] = Pair(p)
      BY <2>1, <2>7, <2>8, <2>10 DEF PairsInv, HasField
    <3>2. FieldOf(p) \in Tagged(pairs[j].key) /\ pairs[j].value = p.value
      BY <2>10, <3>1 DEF Pair, FieldOf, Tagged, HasField
    <3>3. CASE j \in 1..(next - 1)
      BY <2>1, <3>2, <3>3 DEF FieldsInv, ReadInv
    <3>4. CASE j \notin 1..(next - 1)
      <4>1. Len(pairs) \in Nat /\ next \in 1..(Len(pairs) + 1) /\ DOMAIN pairs = 1..Len(pairs)
        BY DEF TypeOK
      <4>2. next \in 1..Len(pairs) /\ next <= j /\ next # Len(pairs) + 1
        BY <3>4, <4>1
      <4>3. /\ next + 1 >= Len(pairs)
            /\ \E f \in Tagged(pairs[next].key) : Fields[f] = "float" /\ pairs[next].wire # "float"
        BY <2>1, <4>2 DEF FieldsInv, Stopped
      <4>4. j = next \/ j = Len(pairs)
        <5>1. PICK m \in Nat : m = Len(pairs)
          BY <4>1
        <5>2. j \in 1..m /\ next \in 1..m /\ next <= j /\ next + 1 >= m
          BY <4>2, <4>3, <5>1
        <5> QED
          BY <5>1, <5>2
      <4>5. Pair(p) \in {pairs[next], pairs[Len(pairs)]}
        BY <3>1, <4>4
      <4> QED
        <5>1. next \in DOMAIN pairs
          BY <4>1, <4>2
        <5>2. Undecoded(p)
          BY <2>10, <4>3, <4>5, <5>1 DEF Undecoded
        <5> QED
          BY <2>10, <5>2
    <3> QED
      BY <3>3, <3>4
  <2> QED
    BY <2>9, <2>10 DEF InMessage, p
<1> QED
  BY <1>1, TypeInit, IInvInit, IInvStep, PTL DEF Spec

\* A record of a sound context is the one that Populate looks up.
LEMMA SoundRecord ==
  ASSUME TypeOK, IInv, Sound, context.levels = 0, NEW n \in 1..Len(properties)
  PROVE  /\ First(properties[n].id) = properties[n]
         /\ HasReader(properties[n]) \/ HasNoData(properties[n])
<1>1. n \in DOMAIN context.records /\ properties[n] = context.records[n] /\ Found(n) = properties[n]
  BY FoundItself DEF IInv
<1>2. HasReader(context.records[n]) \/ HasNoData(context.records[n])
  BY <1>1 DEF Sound
<1> QED
  BY <1>1, <1>2 DEF Found

\* Without any of the reasons no action ends the call but with success.
LEMMA NoErrorWithoutReason ==
  ASSUME TypeOK, IInv, Next, faults' = 0, Sound, context.levels = 0, AllWellTyped',
         pc' = "done", result' # "ok"
  PROVE  FALSE
<1>1. ~ ReadFails /\ RecordSize = 8 /\ context.table
  BY DEF TypeOK, ReadFails, Sound, RecordSize
<1>2. CASE GetPropertyContext
  BY <1>1, <1>2 DEF GetPropertyContext
<1>3. CASE ReadRecord
  <2>1. pc = "records" /\ Len(properties) < count /\ count = context.size \div 8
    BY <1>1, <1>3 DEF ReadRecord, IInv, CountInv
  <2>2. Len(context.root) = context.size \div 8
    BY DEF IInv, RootInv, Rooted
  <2>3. Len(properties) \in Nat /\ Len(context.root) \in Nat
    BY ContextType DEF TypeOK
  <2> QED
    BY <1>1, <1>3, <2>1, <2>2, <2>3 DEF ReadRecord
<1>4. CASE WriteProperty
  <2>1. k + 1 \in 1..Len(properties) /\ pc = "write"
    BY <1>4 DEF WriteProperty, TypeOK
  <2>2. /\ First(properties[k + 1].id) = properties[k + 1]
        /\ HasReader(properties[k + 1]) \/ HasNoData(properties[k + 1])
    BY <2>1, SoundRecord
  <2> QED
    BY <1>1, <1>4, <2>1, <2>2 DEF WriteProperty
<1>5. CASE DecodeMismatch
  <2>1. /\ next \in 1..Len(pairs)
        /\ \E f \in Tagged(pairs[next].key) : Fields[f] # pairs[next].wire
        /\ UNCHANGED <<properties, target>>
    BY <1>5, NextPair DEF DecodeMismatch
  <2>2. PICK f \in Tagged(pairs[next].key) : Fields[f] # pairs[next].wire
    BY <2>1
  <2>3. PICK n \in 1..k :
          /\ n \in 1..Len(properties) /\ pairs[next] = Pair(Found(n))
          /\ FieldOf(Found(n)) = f /\ HasField(Found(n))
    BY <2>1, TaggedIs DEF IInv
  <2>4. PICK m \in DOMAIN properties : Found(n) = properties[m]
    BY <2>3, FoundFacts DEF IInv
  <2>5. pairs[next].wire = Wire[properties[m].type]
    BY <2>3, <2>4 DEF Pair
  <2>6. AllWellTyped
    BY <2>1 DEF AllWellTyped, WellTyped, HasField, Fields
  <2> QED
    BY <2>2, <2>3, <2>4, <2>5, <2>6 DEF AllWellTyped, WellTyped
<1>6. CASE EndDecode
  BY <1>6 DEF EndDecode, Returns
<1> QED
  BY <1>2, <1>3, <1>4, <1>5, <1>6
  DEF Next, EndRecords, GetMessageClass, EndPopulate, SkipPair, DecodeField

LEMMA ErrorsExplainedStep ==
  ASSUME TypeOK, IInv, ErrorsExplained, [Next]_vars
  PROVE  ErrorsExplained'
<1>1. CASE Next
  <2>1. pc # "done"
    BY <1>1 DEF Next, GetPropertyContext, ReadRecord, EndRecords, GetMessageClass,
                WriteProperty, EndPopulate, SkipPair, DecodeField, DecodeMismatch, EndDecode
  <2>2. faults' \in Nat
    BY <1>1, FaultsAssumption
       DEF TypeOK, Next, GetPropertyContext, ReadRecord, EndRecords, GetMessageClass,
           WriteProperty, EndPopulate, SkipPair, DecodeField, DecodeMismatch, EndDecode,
           ReadOK, ReadFails
  <2>3. context' = context /\ (Sound' <=> Sound)
    BY <1>1, ContextFixed DEF Sound
  <2> QED
    BY <1>1, <2>2, <2>3, NoErrorWithoutReason DEF ErrorsExplained
<1>2. CASE UNCHANGED vars
  BY <1>2 DEF vars, ErrorsExplained, Sound, AllWellTyped, WellTyped, HasField, Fields
<1> QED
  BY <1>1, <1>2

\* GetMessage fails only after a failed read, on a context that is not sound or has
\* index levels, or for a 64-bit integer: never for a map header that announces more
\* pairs than follow, whatever was left out.
THEOREM ErrorsAreExplained == Spec => []ErrorsExplained
<1>1. Init => ErrorsExplained
  BY DEF Init, ErrorsExplained
<1> QED
  BY <1>1, TypeInit, IInvInit, IInvStep, ErrorsExplainedStep, PTL DEF Spec

=============================================================================
