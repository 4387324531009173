----------------------------- MODULE NameToIdMap -----------------------------
(***************************************************************************)
(* The Name-to-ID Map (name_to_id_map.go): named properties, each a number *)
(* in a property set or a string, and the identifiers they have in this    *)
(* file.  Three streams are read: the GUIDs of property sets, the entries, *)
(* the strings.                                                            *)
(*                                                                         *)
(* A property set is its index in PropertySets; a GUID that is not listed  *)
(* there is NoSet.  A string stream is what is found at each offset.       *)
(***************************************************************************)
EXTENDS Integers, Sequences, SequencesExt

CONSTANTS
  Word,             \* 2^16
  Shift,            \* 2^32, which moves a property set beside a number
  PropertySets,     \* their number
  PropertySetMAPI, PropertySetPublicStrings,
  Maps,             \* the maps considered
  MaxFaults         \* bound on failing reads

NoSet == -1
Sets == 0..(PropertySets - 1)

\* guid is wGuid, 1 and 2 for the two sets without a place in the stream.
Entry == [string : BOOLEAN, id : Nat, guid : Nat, index : 0..(Word - 1)]

\* What strings have at an offset: a name, "none" for a length that is 0 or too
\* long for the stream, "cut" for one past the end from there.  Behind the last
\* offset of strings there is nothing.
Map ==
  [streams : SUBSET (2..4), guids : Seq({NoSet} \cup Sets), entries : Seq(Entry), strings : Seq(STRING)]

MapAssumption ==
  /\ Word \in Nat \ {0} /\ Shift \in Nat /\ Shift >= Word /\ MaxFaults \in Nat
  /\ PropertySets \in Nat /\ {PropertySetMAPI, PropertySetPublicStrings} \subseteq Sets
  /\ Maps \subseteq Map

VARIABLES
  map,
  pc,           \* "GUIDs", "entries", "done"
  guidIndexes,
  done,         \* entries processed
  nameToID, idToName, stringToID, idToString,
  answer,       \* the last GetPropertyID
  result, faults

maps == <<nameToID, idToName, stringToID, idToString>>
vars == <<map, pc, guidIndexes, done, maps, answer, result, faults>>

Nothing == [x \in {} |-> 0]
NoAnswer == [set |-> 0, key |-> 0, id |-> -1]

Init ==
  /\ map \in Maps
  /\ pc = "GUIDs" /\ guidIndexes = <<>> /\ done = 0
  /\ nameToID = Nothing /\ idToName = Nothing /\ stringToID = Nothing /\ idToString = Nothing
  /\ answer = NoAnswer /\ result = "none" /\ faults = 0

ReadOK == UNCHANGED faults
ReadFails == faults < MaxFaults /\ faults' = faults + 1

Returns(r) ==
  /\ pc' = "done" /\ result' = r
  /\ UNCHANGED <<map, guidIndexes, done, maps, answer>>

Put(f, x, y) == [z \in DOMAIN f \cup {x} |-> IF z = x THEN y ELSE f[z]]

----------------------------------------------------------------------------
(* GetNameToIDMap.                                                         *)

\* Each GUID has a place in guidIndexes, known or not.
ReadGUID ==
  /\ pc = "GUIDs" /\ 2 \in map.streams /\ done < Len(map.guids)
  /\ \/ ReadFails /\ Returns("error")
     \/ /\ ReadOK /\ done' = done + 1
        /\ guidIndexes' = Append(guidIndexes, map.guids[done + 1])
        /\ UNCHANGED <<map, pc, maps, answer, result>>

\* The entries and the strings are read as a whole.  A property context without
\* one of the three streams is an error.
ReadStreams ==
  /\ pc = "GUIDs" /\ (2 \in map.streams => done = Len(map.guids))
  /\ \/ ReadFails /\ Returns("error")
     \/ ReadOK /\ map.streams # 2..4 /\ Returns("error")
     \/ /\ ReadOK /\ map.streams = 2..4
        /\ pc' = "entries" /\ done' = 0
        /\ UNCHANGED <<map, guidIndexes, maps, answer, result>>

Current == map.entries[done + 1]

\* wGuid of the first GUID of the stream.
FirstGUID == 3

HasSet(guid) == guid \in {1, 2} \/ (guid >= FirstGUID /\ guid - FirstGUID < Len(guidIndexes))

PropertySetIndex(guid) ==
  CASE guid = 1 -> PropertySetMAPI
    [] guid = 2 -> PropertySetPublicStrings
    [] OTHER    -> guidIndexes[guid - FirstGUID + 1]

\* The sum of two 16-bit numbers.
NPID(e) == (e.index + Word \div 2) % Word

\* The 16 bits that are read of the 32 of the identifier.
Identifier(e) == e.id % Word

\* Seeded fault: property sets are not kept apart.
KeyMixed(set, id) == set + id

\* int(id) | set << 32: the sum, as id is less than 2^32.
Key(set, id) == set * Shift + id

\* An index outside guidIndexes ends the process.
NumberEntry ==
  /\ pc = "entries" /\ done < Len(map.entries) /\ ~ Current.string
  /\ \/ ReadOK /\ ~ HasSet(Current.guid) /\ Returns("panic")
     \/ /\ ReadOK /\ HasSet(Current.guid)
        /\ nameToID' = Put(nameToID, Key(PropertySetIndex(Current.guid), Identifier(Current)),
                           NPID(Current))
        /\ idToName' = Put(idToName, NPID(Current), Identifier(Current))
        /\ done' = done + 1
        /\ UNCHANGED <<map, pc, guidIndexes, stringToID, idToString, answer, result>>

StringAt(o) == IF o + 1 \in DOMAIN map.strings THEN map.strings[o + 1] ELSE "cut"

StringEntry ==
  /\ pc = "entries" /\ done < Len(map.entries) /\ Current.string
  /\ LET name == StringAt(Identifier(Current))
     IN  \/ ReadOK /\ name = "cut" /\ Returns("panic")
         \/ /\ ReadOK /\ name # "cut" /\ done' = done + 1
            /\ \/ name = "none" /\ UNCHANGED <<stringToID, idToString>>
               \/ /\ name # "none"
                  /\ stringToID' = Put(stringToID, name, NPID(Current))
                  /\ idToString' = Put(idToString, NPID(Current), name)
            /\ UNCHANGED <<map, pc, guidIndexes, nameToID, idToName, answer, result>>

EndEntries ==
  /\ pc = "entries" /\ done = Len(map.entries)
  /\ ReadOK /\ Returns("ok")

----------------------------------------------------------------------------
(* NameToIDMap.GetPropertyID; numbers take less than 32 bits.              *)

GetPropertyID(set, key) ==
  /\ result = "ok"
  /\ answer' = [ set |-> set, key |-> key,
                 id |-> IF Key(set, key) \in DOMAIN nameToID THEN nameToID[Key(set, key)] ELSE -1 ]
  /\ UNCHANGED <<map, pc, guidIndexes, done, maps, result, faults>>

Build == ReadGUID \/ ReadStreams \/ NumberEntry \/ StringEntry \/ EndEntries

Ask == \E set \in Sets, key \in 0..(Shift - 1) : GetPropertyID(set, key)

Next == Build \/ Ask

Spec == Init /\ [][Next]_vars

----------------------------------------------------------------------------
(* Properties.                                                             *)

\* The state variables have their types.
TypeOK ==
  /\ map \in Map /\ pc \in {"GUIDs", "entries", "done"}
  /\ guidIndexes \in Seq({NoSet} \cup Sets)
  /\ done \in 0..(IF pc = "GUIDs" THEN Len(map.guids) ELSE Len(map.guids) + Len(map.entries))
  /\ \A k \in DOMAIN nameToID : nameToID[k] \in 0..(Word - 1)
  /\ \A n \in DOMAIN idToName : n \in 0..(Word - 1) /\ idToName[n] \in 0..(Word - 1)
  /\ \A n \in DOMAIN idToString : n \in 0..(Word - 1)
  /\ answer.id \in {-1} \cup 0..(Word - 1)
  /\ result \in {"none", "ok", "error", "panic"} /\ faults \in 0..MaxFaults

\* The property set that docs/README.md gives for wGuid.
SetOf(guid) ==
  CASE guid = 1 -> PropertySetMAPI
    [] guid = 2 -> PropertySetPublicStrings
    [] OTHER    -> map.guids[guid - 2]

Numbers(set, key) ==
  {n \in DOMAIN map.entries :
     ~ map.entries[n].string /\ SetOf(map.entries[n].guid) = set /\ map.entries[n].id = key}

Narrow == \A n \in DOMAIN map.entries : map.entries[n].id < Word

\* GetPropertyID finds the last entry with the number in the property set, and
\* none when there is none: not that of another set, of a set that is not known
\* or of a string.
AnswersLastEntry ==
  answer # NoAnswer /\ Narrow =>
    LET found == Numbers(answer.set, answer.key)
    IN  IF found = {} THEN answer.id = -1
        ELSE \E n \in found : (\A m \in found : m <= n) /\ answer.id = NPID(map.entries[n])

Ordinal ==
  \A n, m \in DOMAIN map.entries :
    /\ map.entries[n].index < Word \div 2
    /\ map.entries[n].index = map.entries[m].index => n = m

\* The maps of numbers undo each other, and no identifier is both a number's and
\* a string's.
MapsAgree ==
  Ordinal =>
    /\ \A k \in DOMAIN nameToID : idToName[nameToID[k]] = k % Shift
    /\ \A s \in DOMAIN stringToID : idToString[stringToID[s]] = s
    /\ DOMAIN idToName \cap DOMAIN idToString = {}
    /\ \A n \in DOMAIN idToName \cup DOMAIN idToString : n >= Word \div 2

\* Only an entry that names no place of a stream makes it panic.
PanicsExplained ==
  result = "panic" =>
    \E n \in DOMAIN map.entries :
      LET e == map.entries[n]
      IN  \/ ~ e.string /\ e.guid \notin 1..(Len(map.guids) + 2)
          \/ e.string /\ StringAt(e.id % Word) = "cut"

=============================================================================
