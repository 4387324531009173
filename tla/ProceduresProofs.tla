-------------------------- MODULE ProceduresProofs --------------------------
(***************************************************************************)
(* Theorems about the four components that the module Procedures composes. *)
(***************************************************************************)
EXTENDS Procedures, FiniteSetTheorems, SequenceTheorems, TLAPS

----------------------------------------------------------------------------
(* NameToIdMap.                                                            *)

\* f is a map into which val[n] was put at key[n] for every n of W in 1..d, in order.
LastWrites(f, W, key, val, d) ==
  /\ \A n \in W \cap (1..d) : key[n] \in DOMAIN f
  /\ \A x \in DOMAIN f : \E n \in W \cap (1..d) :
       /\ key[n] = x /\ f[x] = val[n]
       /\ \A m \in W \cap (1..d) : key[m] = x => m <= n

\* The entries that are numbers and those that give a string, and what is put for
\* them into the maps.
NumberSet == {n \in 1..Len(map.entries) : map.entries[n].string = FALSE}
StringSet == {n \in 1..Len(map.entries) : /\ map.entries[n].string = TRUE
                                         /\ Names!StringAt(Names!Identifier(map.entries[n])) # "none"}

KeyOf ==
  [n \in NumberSet |-> Names!Key(Names!SetOf(map.entries[n].guid), Names!Identifier(map.entries[n]))]
NumberOf == [n \in NumberSet |-> Names!Identifier(map.entries[n])]
StringOf == [n \in StringSet |-> Names!StringAt(Names!Identifier(map.entries[n]))]
NPIDOf == [n \in 1..Len(map.entries) |-> Names!NPID(map.entries[n])]

\* The entries that have been processed.
InEntries == pc = "entries" \/ result \in {"ok", "panic"}
Processed == IF InEntries THEN done ELSE 0

\* The GUIDs are read in order, and the entries only when all of them are.
ProgressInv ==
  /\ map \in Maps /\ pc \in {"GUIDs", "entries", "done"} /\ (pc = "done" <=> result # "none")
  /\ result \in {"none", "ok", "error", "panic"} /\ faults \in 0..MaxFaults /\ done \in Nat
  /\ guidIndexes \in Seq({Names!NoSet} \cup Names!Sets)
  /\ Len(guidIndexes) <= Len(map.guids)
  /\ \A i \in 1..Len(guidIndexes) : guidIndexes[i] = map.guids[i]
  /\ pc = "GUIDs" => Len(guidIndexes) = done /\ (2 \notin map.streams => done = 0)
  /\ result = "error" => done <= Len(map.guids)
  /\ InEntries => Len(guidIndexes) = Len(map.guids) /\ done <= Len(map.entries)
  /\ result = "ok" => done = Len(map.entries)

\* The maps have the last of the processed entries with each key, and each of those
\* has a property set.
MapsInv ==
  /\ LastWrites(nameToID, NumberSet, KeyOf, NPIDOf, Processed)
  /\ LastWrites(idToName, NumberSet, NPIDOf, NumberOf, Processed)
  /\ LastWrites(stringToID, StringSet, StringOf, NPIDOf, Processed)
  /\ LastWrites(idToString, StringSet, NPIDOf, StringOf, Processed)
  /\ \A n \in NumberSet \cap (1..Processed) : map.entries[n].guid \in 1..(Len(map.guids) + 2)

AnswerInv ==
  /\ answer = Names!NoAnswer \/
       /\ result = "ok" /\ answer.set \in Names!Sets /\ answer.key \in 0..(Shift - 1)
       /\ answer.id = IF Names!Key(answer.set, answer.key) \in DOMAIN nameToID
                      THEN nameToID[Names!Key(answer.set, answer.key)] ELSE -1

NamesInv == ProgressInv /\ MapsInv /\ AnswerInv /\ Names!PanicsExplained

\* A multiple of S between -S and S is 0.
LEMMA SmallMultiple ==
  ASSUME NEW S \in Nat, NEW d \in Int, NEW u \in Int, d * S = u, u < S, u > -S
  PROVE  d = 0
  <1>1. CASE d >= 1
    <2>1. PICK e \in Nat : d = e + 1
      <3>1. d - 1 \in Nat /\ d = (d - 1) + 1
        BY <1>1
      <3> QED BY <3>1
    <2>2. e * S \in Nat /\ u = e * S + S
      BY <2>1
    <2> QED BY <2>2
  <1>2. CASE d <= -1
    <2>1. PICK e \in Nat : d = - e - 1
      <3>1. - d - 1 \in Nat /\ d = - (- d - 1) - 1
        BY <1>2
      <3> QED BY <3>1
    <2>2. e * S \in Nat /\ u = - (e * S) - S
      BY <2>1
    <2> QED BY <2>2
  <1> QED BY <1>1, <1>2

\* Two numbers in property sets have the same key only if they are the same.
LEMMA KeyParts ==
  ASSUME NEW S \in Nat, NEW a \in Int, NEW b \in Int, NEW i \in 0..(S - 1), NEW j \in 0..(S - 1),
         a * S + i = b * S + j
  PROVE  a = b /\ i = j
  <1>1. (a - b) * S = j - i /\ j - i < S /\ j - i > -S
    OBVIOUS
  <1>2. PICK d \in Int, u \in Int : d = a - b /\ u = j - i
    OBVIOUS
  <1>3. d = 0
    BY <1>1, <1>2, SmallMultiple
  <1> QED BY <1>1, <1>2, <1>3

LEMMA KeyRemainder ==
  ASSUME NEW S \in Nat, NEW a \in Int, NEW i \in 0..(S - 1)
  PROVE  (a * S + i) % S = i
  <1>1. S > 0 /\ a * S \in Int
    OBVIOUS
  <1>2. PICK q \in Int : q = (a * S + i) \div S
    BY <1>1
  <1>3. PICK r \in Int : r = (a * S + i) % S /\ r \in 0..(S - 1) /\ a * S + i = q * S + r
    BY <1>1, <1>2
  <1>4. PICK d \in Int, u \in Int : d = a - q /\ u = r - i
    OBVIOUS
  <1>5. d * S = u /\ u < S /\ u > -S
    BY <1>3, <1>4
  <1>6. d = 0
    BY <1>5, SmallMultiple
  <1>7. u = 0
    BY <1>5, <1>6
  <1> QED BY <1>3, <1>4, <1>7

LEMMA SmallRemainder ==
  ASSUME NEW S \in Nat, NEW i \in 0..(S - 1)
  PROVE  i % S = i
  <1>1. 0 * S + i = i
    OBVIOUS
  <1> QED BY <1>1, KeyRemainder

LEMMA PutFacts ==
  ASSUME NEW f, NEW x, NEW y
  PROVE  /\ DOMAIN Names!Put(f, x, y) = DOMAIN f \cup {x}
         /\ Names!Put(f, x, y)[x] = y
         /\ \A z \in DOMAIN f : z # x => Names!Put(f, x, y)[z] = f[z]
  BY DEF Names!Put

\* One more entry put, and one more that is not of the set.
LEMMA PutWrites ==
  ASSUME NEW f, NEW W, NEW key, NEW val, NEW d \in Nat, LastWrites(f, W, key, val, d), d + 1 \in W
  PROVE  LastWrites(Names!Put(f, key[d + 1], val[d + 1]), W, key, val, d + 1)
  <1> DEFINE g == Names!Put(f, key[d + 1], val[d + 1])
  <1>1. /\ DOMAIN g = DOMAIN f \cup {key[d + 1]} /\ g[key[d + 1]] = val[d + 1]
        /\ \A z \in DOMAIN f : z # key[d + 1] => g[z] = f[z]
    BY DEF Names!Put
  <1>2. W \cap (1..(d + 1)) = (W \cap (1..d)) \cup {d + 1}
    <2>1. 1..(d + 1) = (1..d) \cup {d + 1}
      OBVIOUS
    <2> QED BY <2>1
  <1>3. \A n \in W \cap (1..d) : n <= d + 1 /\ n # d + 1
    OBVIOUS
  <1> HIDE DEF g
  <1>4. \A n \in W \cap (1..(d + 1)) : key[n] \in DOMAIN g
    BY <1>1, <1>2 DEF LastWrites
  <1>5. ASSUME NEW x \in DOMAIN g
        PROVE  \E n \in W \cap (1..(d + 1)) :
                 /\ key[n] = x /\ g[x] = val[n]
                 /\ \A m \in W \cap (1..(d + 1)) : key[m] = x => m <= n
    <2>1. CASE x = key[d + 1]
      <3>1. \A m \in W \cap (1..(d + 1)) : m <= d + 1
        OBVIOUS
      <3> QED BY <1>1, <1>2, <2>1, <3>1
    <2>2. CASE x # key[d + 1]
      <3>1. x \in DOMAIN f /\ g[x] = f[x]
        BY <1>1, <2>2
      <3>2. PICK n \in W \cap (1..d) :
              /\ key[n] = x /\ f[x] = val[n]
              /\ \A m \in W \cap (1..d) : key[m] = x => m <= n
        BY <3>1 DEF LastWrites
      <3> QED BY <1>2, <2>2, <3>1, <3>2
    <2> QED BY <2>1, <2>2
  <1> QED BY <1>4, <1>5 DEF LastWrites, g

LEMMA SkipWrites ==
  ASSUME NEW f, NEW W, NEW key, NEW val, NEW d \in Nat, LastWrites(f, W, key, val, d), d + 1 \notin W
  PROVE  LastWrites(f, W, key, val, d + 1)
  <1>1. W \cap (1..(d + 1)) = W \cap (1..d)
    OBVIOUS
  <1> QED BY <1>1 DEF LastWrites

LEMMA NoWrites ==
  ASSUME NEW W, NEW key, NEW val
  PROVE  LastWrites(Names!Nothing, W, key, val, 0)
  BY DEF LastWrites, Names!Nothing

\* What the assumptions and the types of maps give.
LEMMA NamesTypes ==
  ASSUME ProgressInv
  PROVE  /\ Word \in Nat \ {0} /\ Shift \in Nat /\ Shift >= Word /\ MaxFaults \in Nat
         /\ Len(map.guids) \in Nat /\ Len(map.entries) \in Nat
         /\ map.guids \in Seq({Names!NoSet} \cup Names!Sets)
         /\ \A n \in 1..Len(map.entries) :
              /\ map.entries[n] \in Names!Entry
              /\ map.entries[n].string \in BOOLEAN /\ map.entries[n].id \in Nat
              /\ map.entries[n].guid \in Nat /\ map.entries[n].index \in 0..(Word - 1)
         /\ \A i \in 1..Len(map.guids) : map.guids[i] \in {Names!NoSet} \cup Names!Sets
         /\ Names!NoSet = -1 /\ Names!Sets \subseteq Nat
         /\ {PropertySetMAPI, PropertySetPublicStrings} \subseteq Names!Sets
  <1>1. map \in Names!Map
    BY NamesAssumptions DEF ProgressInv, Names!MapAssumption
  <1>2. map.guids \in Seq({Names!NoSet} \cup Names!Sets) /\ map.entries \in Seq(Names!Entry)
    BY <1>1 DEF Names!Map
  <1>3. \A n \in 1..Len(map.entries) : map.entries[n] \in Names!Entry
    BY <1>2, ElementOfSeq
  <1>4. \A i \in 1..Len(map.guids) : map.guids[i] \in {Names!NoSet} \cup Names!Sets
    BY <1>2, ElementOfSeq
  <1>5. Word \in Nat \ {0} /\ Shift \in Nat /\ Shift >= Word /\ MaxFaults \in Nat
        /\ PropertySets \in Nat /\ {PropertySetMAPI, PropertySetPublicStrings} \subseteq Names!Sets
    BY NamesAssumptions DEF Names!MapAssumption
  <1>6. \A n \in 1..Len(map.entries) :
          /\ map.entries[n].string \in BOOLEAN /\ map.entries[n].id \in Nat
          /\ map.entries[n].guid \in Nat /\ map.entries[n].index \in 0..(Word - 1)
    BY <1>3 DEF Names!Entry
  <1>7. Names!NoSet = -1 /\ Names!Sets \subseteq Nat
    BY <1>5 DEF Names!NoSet, Names!Sets
  <1> QED BY <1>2, <1>3, <1>4, <1>5, <1>6, <1>7, LenProperties

\* Names!Current is an entry, and its set is that of the list of GUIDs.
LEMMA CurrentEntry ==
  ASSUME ProgressInv, pc = "entries", done < Len(map.entries)
  PROVE  /\ done + 1 \in 1..Len(map.entries) /\ Names!Current = map.entries[done + 1]
         /\ Processed = done /\ InEntries
         /\ \A guid \in Nat : Names!HasSet(guid) <=> guid \in 1..(Len(map.guids) + 2)
         /\ \A guid \in 1..(Len(map.guids) + 2) :
              Names!PropertySetIndex(guid) = Names!SetOf(guid)
  <1>1. /\ done \in Nat /\ Len(map.entries) \in Nat /\ Len(map.guids) \in Nat
        /\ Len(guidIndexes) = Len(map.guids)
        /\ \A i \in 1..Len(guidIndexes) : guidIndexes[i] = map.guids[i]
    BY NamesTypes DEF ProgressInv, InEntries
  <1>2. \A guid \in Nat : Names!HasSet(guid) <=> guid \in 1..(Len(map.guids) + 2)
    BY <1>1 DEF Names!HasSet, Names!FirstGUID
  <1>3. ASSUME NEW guid \in 1..(Len(map.guids) + 2)
        PROVE  Names!PropertySetIndex(guid) = Names!SetOf(guid)
    <2>1. CASE guid \in {1, 2}
      BY <2>1 DEF Names!PropertySetIndex, Names!SetOf
    <2>2. CASE guid \notin {1, 2}
      <3>1. guid - 3 + 1 = guid - 2 /\ guid - 2 \in 1..Len(guidIndexes)
        BY <1>1, <2>2
      <3> QED BY <1>1, <2>2, <3>1 DEF Names!PropertySetIndex, Names!SetOf, Names!FirstGUID
    <2> QED BY <2>1, <2>2
  <1> QED BY <1>1, <1>2, <1>3 DEF Names!Current, Processed, InEntries

LEMMA NamesInit ==
  ASSUME Init, call = "names"
  PROVE  NamesInv
  <1>1. Names!Init
    BY DEF Init
  <1>2. Processed = 0 /\ ~ InEntries
    BY <1>1 DEF Names!Init, Processed, InEntries
  <1>3. ProgressInv
    <2>1. MaxFaults \in Nat /\ map \in Names!Map
      BY <1>1, NamesAssumptions DEF Names!MapAssumption, Names!Init
    <2>2. Len(map.guids) \in Nat
      BY <2>1, LenProperties DEF Names!Map
    <2>3. guidIndexes = <<>> /\ guidIndexes \in Seq({Names!NoSet} \cup Names!Sets) /\ Len(guidIndexes) = 0
      BY <1>1, EmptySeq DEF Names!Init
    <2> QED BY <1>1, <1>2, <2>1, <2>2, <2>3 DEF ProgressInv, Names!Init
  <1>4. MapsInv
    <2>1. /\ nameToID = Names!Nothing /\ idToName = Names!Nothing
          /\ stringToID = Names!Nothing /\ idToString = Names!Nothing
      BY <1>1 DEF Names!Init
    <2> QED BY <1>2, <2>1, NoWrites DEF MapsInv
  <1>5. AnswerInv /\ Names!PanicsExplained
    BY <1>1 DEF Names!Init, AnswerInv, Names!PanicsExplained
  <1> QED BY <1>3, <1>4, <1>5 DEF NamesInv

\* What is read of the map is the same as long as the map is.
LEMMA SameMap ==
  ASSUME map' = map
  PROVE  /\ NumberSet' = NumberSet /\ StringSet' = StringSet
         /\ KeyOf' = KeyOf /\ NumberOf' = NumberOf /\ StringOf' = StringOf /\ NPIDOf' = NPIDOf
  BY DEF NumberSet, StringSet, KeyOf, NumberOf, StringOf, NPIDOf, Names!SetOf, Names!StringAt

LEMMA SameMaps ==
  ASSUME NamesInv, map' = map, UNCHANGED Names!maps, Processed' = Processed
  PROVE  MapsInv'
  BY SameMap DEF NamesInv, MapsInv, Names!maps, LastWrites

\* A step that returns, wherever it stops.
LEMMA NamesReturn ==
  ASSUME NamesInv, NEW r \in {"ok", "error", "panic"}, Names!Returns(r), pc # "done",
         faults' \in 0..MaxFaults,
         r = "error" => pc = "GUIDs",
         r # "error" => pc = "entries",
         r = "ok" => done = Len(map.entries),
         r = "panic" => Names!PanicsExplained'
  PROVE  NamesInv'
  <1>1. /\ map' = map /\ UNCHANGED Names!maps /\ answer' = answer /\ done' = done
        /\ guidIndexes' = guidIndexes /\ pc' = "done" /\ result' = r /\ result = "none"
    BY DEF Names!Returns, Names!maps, NamesInv, ProgressInv
  <1>2. Processed' = Processed /\ (InEntries' <=> InEntries)
    BY <1>1 DEF Processed, InEntries, NamesInv, ProgressInv
  <1>3. MapsInv'
    BY <1>1, <1>2, SameMaps
  <1>4. ProgressInv'
    BY <1>1, <1>2 DEF NamesInv, ProgressInv
  <1>5. AnswerInv'
    BY <1>1 DEF NamesInv, AnswerInv, Names!NoAnswer
  <1>6. Names!PanicsExplained'
    BY <1>1 DEF Names!PanicsExplained
  <1> QED BY <1>3, <1>4, <1>5, <1>6 DEF NamesInv

\* An entry that is processed.
LEMMA NamesEntry ==
  ASSUME NamesInv, pc = "entries", done < Len(map.entries),
         done' = done + 1, UNCHANGED <<map, pc, guidIndexes, answer, result, faults>>,
         LastWrites(nameToID', NumberSet, KeyOf, NPIDOf, done + 1),
         LastWrites(idToName', NumberSet, NPIDOf, NumberOf, done + 1),
         LastWrites(stringToID', StringSet, StringOf, NPIDOf, done + 1),
         LastWrites(idToString', StringSet, NPIDOf, StringOf, done + 1),
         done + 1 \in NumberSet => map.entries[done + 1].guid \in 1..(Len(map.guids) + 2)
  PROVE  NamesInv'
  <1>1. /\ done \in Nat /\ Len(map.entries) \in Nat /\ result = "none"
    BY NamesTypes DEF NamesInv, ProgressInv
  <1>2. Processed = done /\ Processed' = done + 1 /\ InEntries /\ InEntries'
    BY <1>1 DEF Processed, InEntries
  <1>3. MapsInv'
    <2>1. 1..(done + 1) = (1..done) \cup {done + 1}
      BY <1>1
    <2>2. \A n \in NumberSet \cap (1..(done + 1)) :
            map.entries[n].guid \in 1..(Len(map.guids) + 2)
      BY <1>2, <2>1 DEF NamesInv, MapsInv
    <2> QED BY <1>2, <2>2, SameMap DEF MapsInv
  <1>4. ProgressInv'
    BY <1>1, <1>2 DEF NamesInv, ProgressInv
  <1>5. AnswerInv' /\ Names!PanicsExplained'
    BY <1>1 DEF NamesInv, AnswerInv, Names!NoAnswer, Names!PanicsExplained
  <1> QED BY <1>3, <1>4, <1>5 DEF NamesInv

LEMMA NamesStep ==
  ASSUME NamesInv, call = "names", [Next]_vars
  PROVE  NamesInv'
  <1>0. ProgressInv /\ MapsInv /\ AnswerInv /\ Names!PanicsExplained
    BY DEF NamesInv
  <1>1. CASE UNCHANGED vars
    <2>1. UNCHANGED Names!vars
      BY <1>1 DEF vars, ofNames, Names!vars, Names!maps
    <2>2. Processed' = Processed /\ (InEntries' <=> InEntries)
      BY <2>1 DEF Processed, InEntries, Names!vars
    <2>3. MapsInv'
      BY <2>1, <2>2, SameMaps DEF Names!vars
    <2>4. ProgressInv'
      BY <1>0, <2>1, <2>2 DEF ProgressInv, Names!vars
    <2>5. AnswerInv' /\ Names!PanicsExplained'
      BY <1>0, <2>1
         DEF AnswerInv, Names!NoAnswer, Names!PanicsExplained, Names!vars, Names!maps, Names!StringAt
    <2> QED BY <2>3, <2>4, <2>5 DEF NamesInv
  <1>2. ASSUME NEW set \in Names!Sets, NEW key \in 0..(Shift - 1), Names!GetPropertyID(set, key)
        PROVE  NamesInv'
    <2>1. /\ UNCHANGED <<map, pc, guidIndexes, done, result, faults>> /\ UNCHANGED Names!maps
          /\ result = "ok"
          /\ answer' = [ set |-> set, key |-> key,
                         id |-> IF Names!Key(set, key) \in DOMAIN nameToID
                                THEN nameToID[Names!Key(set, key)] ELSE -1 ]
      BY <1>2 DEF Names!GetPropertyID, Names!maps
    <2>2. Processed' = Processed /\ (InEntries' <=> InEntries)
      BY <2>1 DEF Processed, InEntries
    <2>3. MapsInv'
      BY <2>1, <2>2, SameMaps
    <2>4. ProgressInv'
      BY <1>0, <2>1, <2>2 DEF ProgressInv
    <2>5. nameToID' = nameToID
      BY <2>1 DEF Names!maps
    <2>6. AnswerInv'
      BY <2>1, <2>5 DEF AnswerInv
    <2>7. Names!PanicsExplained'
      BY <2>1 DEF Names!PanicsExplained
    <2> QED BY <2>3, <2>4, <2>6, <2>7 DEF NamesInv
  <1>3. faults \in 0..MaxFaults /\ MaxFaults \in Nat
        /\ (Names!ReadFails => faults' \in 0..MaxFaults) /\ (Names!ReadOK => faults' = faults)
    BY <1>0, NamesTypes DEF ProgressInv, Names!ReadFails, Names!ReadOK
  <1>4. CASE Names!ReadGUID
    <2>1. CASE Names!ReadFails /\ Names!Returns("error")
      BY <1>3, <1>4, <2>1, NamesReturn DEF Names!ReadGUID
    <2>2. CASE /\ Names!ReadOK /\ done' = done + 1
               /\ guidIndexes' = Append(guidIndexes, map.guids[done + 1])
               /\ UNCHANGED <<map, pc, Names!maps, answer, result>>
      <3>1. /\ pc = "GUIDs" /\ 2 \in map.streams /\ done < Len(map.guids) /\ done \in Nat
            /\ Len(map.guids) \in Nat /\ Len(guidIndexes) = done /\ result = "none"
            /\ guidIndexes \in Seq({Names!NoSet} \cup Names!Sets)
        BY <1>0, <1>4, NamesTypes DEF Names!ReadGUID, ProgressInv
      <3>2. map.guids[done + 1] \in {Names!NoSet} \cup Names!Sets
        BY <1>0, <3>1, NamesTypes
      <3>3. /\ guidIndexes' \in Seq({Names!NoSet} \cup Names!Sets) /\ Len(guidIndexes') = done + 1
            /\ guidIndexes'[done + 1] = map.guids[done + 1]
            /\ \A i \in 1..done : guidIndexes'[i] = guidIndexes[i]
        BY <2>2, <3>1, <3>2, AppendProperties
      <3>4. \A i \in 1..(done + 1) : guidIndexes'[i] = map.guids[i]
        <4>1. 1..(done + 1) = (1..done) \cup {done + 1}
          BY <3>1
        <4> QED BY <1>0, <3>1, <3>3, <4>1 DEF ProgressInv
      <3>5. ~ InEntries /\ ~ InEntries' /\ Processed' = Processed
        BY <2>2, <3>1 DEF InEntries, Processed
      <3>6. ProgressInv'
        BY <1>0, <1>3, <2>2, <3>1, <3>3, <3>4, <3>5 DEF ProgressInv
      <3>7. MapsInv'
        BY <2>2, <3>5, SameMaps
      <3>8. AnswerInv' /\ Names!PanicsExplained'
        BY <1>0, <2>2, <3>1 DEF AnswerInv, Names!NoAnswer, Names!PanicsExplained
      <3> QED BY <3>6, <3>7, <3>8 DEF NamesInv
    <2> QED BY <1>4, <2>1, <2>2 DEF Names!ReadGUID
  <1>5. CASE Names!ReadStreams
    <2>1. CASE Names!ReadFails /\ Names!Returns("error")
      BY <1>3, <1>5, <2>1, NamesReturn DEF Names!ReadStreams
    <2>2. CASE Names!ReadOK /\ map.streams # 2..4 /\ Names!Returns("error")
      BY <1>3, <1>5, <2>2, NamesReturn DEF Names!ReadStreams
    <2>3. CASE /\ Names!ReadOK /\ map.streams = 2..4
               /\ pc' = "entries" /\ done' = 0
               /\ UNCHANGED <<map, guidIndexes, Names!maps, answer, result>>
      <3>1. /\ pc = "GUIDs" /\ done = Len(map.guids) /\ result = "none"
            /\ Len(map.guids) \in Nat /\ Len(map.entries) \in Nat
        <4>1. 2 \in map.streams
          BY <2>3
        <4> QED BY <1>0, <1>5, <4>1, NamesTypes DEF Names!ReadStreams, ProgressInv
      <3>2. ~ InEntries /\ InEntries' /\ Processed' = Processed
        BY <2>3, <3>1 DEF InEntries, Processed
      <3>3. ProgressInv'
        BY <1>0, <1>3, <2>3, <3>1, <3>2 DEF ProgressInv
      <3>4. MapsInv'
        BY <2>3, <3>2, SameMaps
      <3>5. AnswerInv' /\ Names!PanicsExplained'
        BY <1>0, <2>3, <3>1 DEF AnswerInv, Names!NoAnswer, Names!PanicsExplained
      <3> QED BY <3>3, <3>4, <3>5 DEF NamesInv
    <2> QED BY <1>5, <2>1, <2>2, <2>3 DEF Names!ReadStreams
  <1>6. CASE Names!NumberEntry
    <2> DEFINE e == map.entries[done + 1]
    <2>1. /\ pc = "entries" /\ done < Len(map.entries) /\ Names!Current = e
          /\ done \in Nat /\ e.string = FALSE /\ e.guid \in Nat
          /\ done + 1 \in NumberSet /\ done + 1 \notin StringSet
      <3>1. pc = "entries" /\ done < Len(map.entries) /\ ~ Names!Current.string
        BY <1>6 DEF Names!NumberEntry
      <3>2. Names!Current = e /\ done + 1 \in 1..Len(map.entries)
        BY <1>0, <3>1, CurrentEntry
      <3>3. e.string \in BOOLEAN /\ e.guid \in Nat
        BY <1>0, <3>2, NamesTypes
      <3>4. e.string = FALSE
        BY <3>1, <3>2, <3>3
      <3> QED BY <1>0, <3>1, <3>2, <3>3, <3>4 DEF NumberSet, StringSet, ProgressInv
    <2>2. Names!HasSet(e.guid) <=> e.guid \in 1..(Len(map.guids) + 2)
      BY <1>0, <2>1, CurrentEntry
    <2>3. CASE Names!ReadOK /\ ~ Names!HasSet(e.guid) /\ Names!Returns("panic")
      <3>1. Names!PanicsExplained'
        <4>1. map' = map
          BY <2>3 DEF Names!Returns
        <4>2. done + 1 \in 1..Len(map.entries) /\ DOMAIN map.entries = 1..Len(map.entries)
          BY <1>0, <2>1, CurrentEntry, NamesTypes, LenProperties
             DEF ProgressInv, NumberSet
        <4>3. ~ e.string /\ e.guid \notin 1..(Len(map.guids) + 2)
          BY <2>1, <2>2, <2>3
        <4> QED BY <4>1, <4>2, <4>3 DEF Names!PanicsExplained
      <3> QED BY <1>3, <2>1, <2>3, <3>1, NamesReturn
    <2>4. CASE /\ Names!ReadOK /\ Names!HasSet(e.guid)
               /\ nameToID' = Names!Put(nameToID,
                    Names!Key(Names!PropertySetIndex(e.guid), Names!Identifier(e)), Names!NPID(e))
               /\ idToName' = Names!Put(idToName, Names!NPID(e), Names!Identifier(e))
               /\ done' = done + 1
               /\ UNCHANGED <<map, pc, guidIndexes, stringToID, idToString, answer, result>>
      <3>1. e.guid \in 1..(Len(map.guids) + 2)
            /\ Names!PropertySetIndex(e.guid) = Names!SetOf(e.guid)
        BY <1>0, <2>1, <2>2, <2>4, CurrentEntry
      <3>2. /\ KeyOf[done + 1] = Names!Key(Names!SetOf(e.guid), Names!Identifier(e))
            /\ NumberOf[done + 1] = Names!Identifier(e) /\ NPIDOf[done + 1] = Names!NPID(e)
        BY <2>1 DEF KeyOf, NumberOf, NPIDOf, NumberSet
      <3>3. Processed = done
        BY <1>0, <2>1, CurrentEntry
      <3>4. /\ LastWrites(nameToID', NumberSet, KeyOf, NPIDOf, done + 1)
            /\ LastWrites(idToName', NumberSet, NPIDOf, NumberOf, done + 1)
        BY <1>0, <2>1, <2>4, <3>1, <3>2, <3>3, PutWrites DEF MapsInv
      <3>5. /\ LastWrites(stringToID', StringSet, StringOf, NPIDOf, done + 1)
            /\ LastWrites(idToString', StringSet, NPIDOf, StringOf, done + 1)
        BY <1>0, <2>1, <2>4, <3>3, SkipWrites DEF MapsInv
      <3> QED BY <1>3, <2>1, <2>4, <3>1, <3>4, <3>5, NamesEntry
    <2> QED BY <1>6, <2>1, <2>3, <2>4 DEF Names!NumberEntry
  <1>7. CASE Names!StringEntry
    <2> DEFINE e == map.entries[done + 1]
               name == Names!StringAt(Names!Identifier(e))
    <2>1. /\ pc = "entries" /\ done < Len(map.entries) /\ Names!Current = e
          /\ done \in Nat /\ e.string = TRUE /\ done + 1 \notin NumberSet
          /\ done + 1 \in 1..Len(map.entries)
      <3>1. pc = "entries" /\ done < Len(map.entries) /\ Names!Current.string
        BY <1>7 DEF Names!StringEntry
      <3>2. Names!Current = e /\ done + 1 \in 1..Len(map.entries)
        BY <1>0, <3>1, CurrentEntry
      <3>3. e.string \in BOOLEAN
        BY <1>0, <3>2, NamesTypes
      <3>4. e.string = TRUE
        BY <3>1, <3>2, <3>3
      <3> QED BY <1>0, <3>1, <3>2, <3>4 DEF NumberSet, ProgressInv
    <2>2. done + 1 \in StringSet <=> name # "none"
      BY <2>1 DEF StringSet
    <2>3. CASE Names!ReadOK /\ name = "cut" /\ Names!Returns("panic")
      <3>1. Names!PanicsExplained'
        <4>1. map' = map
          BY <2>3 DEF Names!Returns
        <4>2. DOMAIN map.entries = 1..Len(map.entries)
          BY <1>0, NamesTypes, LenProperties, NamesAssumptions DEF ProgressInv, Names!MapAssumption, Names!Map
        <4>3. Names!StringAt(e.id % Word) = "cut"
          BY <2>3 DEF Names!Identifier
        <4> HIDE DEF e
        <4> QED BY <2>1, <4>1, <4>2, <4>3 DEF Names!PanicsExplained, Names!StringAt, e
      <3> QED BY <1>3, <2>1, <2>3, <3>1, NamesReturn
    <2>4. CASE /\ Names!ReadOK /\ name # "cut" /\ done' = done + 1
               /\ \/ name = "none" /\ UNCHANGED <<stringToID, idToString>>
                  \/ /\ name # "none"
                     /\ stringToID' = Names!Put(stringToID, name, Names!NPID(e))
                     /\ idToString' = Names!Put(idToString, Names!NPID(e), name)
               /\ UNCHANGED <<map, pc, guidIndexes, nameToID, idToName, answer, result>>
      <3>1. Processed = done
        BY <1>0, <2>1, CurrentEntry
      <3>2. /\ LastWrites(nameToID', NumberSet, KeyOf, NPIDOf, done + 1)
            /\ LastWrites(idToName', NumberSet, NPIDOf, NumberOf, done + 1)
        BY <1>0, <2>1, <2>4, <3>1, SkipWrites DEF MapsInv
      <3>3. /\ LastWrites(stringToID', StringSet, StringOf, NPIDOf, done + 1)
            /\ LastWrites(idToString', StringSet, NPIDOf, StringOf, done + 1)
        <4>1. CASE name = "none"
          BY <1>0, <2>1, <2>2, <2>4, <3>1, <4>1, SkipWrites DEF MapsInv
        <4>2. CASE name # "none"
          <5>1. done + 1 \in StringSet /\ StringOf[done + 1] = name /\ NPIDOf[done + 1] = Names!NPID(e)
            BY <2>1, <2>2, <4>2 DEF StringOf, NPIDOf
          <5> QED BY <1>0, <2>1, <2>4, <3>1, <4>2, <5>1, PutWrites DEF MapsInv
        <4> QED BY <4>1, <4>2
      <3> QED BY <1>3, <2>1, <2>4, <3>2, <3>3, NamesEntry
    <2> QED BY <1>7, <2>1, <2>3, <2>4 DEF Names!StringEntry
  <1>8. CASE Names!EndEntries
    BY <1>3, <1>8, NamesReturn DEF Names!EndEntries
  <1>9. CASE Names!Ask
    BY <1>2, <1>9 DEF Names!Ask
  <1> QED BY <1>1, <1>4, <1>5, <1>6, <1>7, <1>8, <1>9 DEF Next, GoesOn, Ask, Names!Build

\* The ranges of what the entries have.
LEMMA EntryFacts ==
  ASSUME NamesInv
  PROVE  /\ Processed \in 0..Len(map.entries) /\ Len(map.entries) \in Nat
         /\ \A n \in 1..Len(map.entries) : NPIDOf[n] \in 0..(Word - 1)
         /\ \A n \in NumberSet : NumberOf[n] \in 0..(Word - 1)
         /\ \A n \in NumberSet \cap (1..Processed) :
              /\ Names!SetOf(map.entries[n].guid) \in Int
              /\ KeyOf[n] = Names!SetOf(map.entries[n].guid) * Shift + NumberOf[n]
              /\ KeyOf[n] % Shift = NumberOf[n]
  <1>0. ProgressInv /\ Word \in Nat \ {0} /\ Shift \in Nat /\ Shift >= Word
    BY NamesTypes DEF NamesInv
  <1>1. Processed \in 0..Len(map.entries) /\ Len(map.entries) \in Nat
    BY <1>0, NamesTypes DEF ProgressInv, Processed, InEntries
  <1>2. ASSUME NEW n \in 1..Len(map.entries)
        PROVE  NPIDOf[n] \in 0..(Word - 1)
    <2>1. map.entries[n].index \in 0..(Word - 1)
      BY <1>0, NamesTypes
    <2>2. map.entries[n].index + Word \div 2 \in Nat
      BY <1>0, <2>1
    <2>3. (map.entries[n].index + Word \div 2) % Word \in 0..(Word - 1)
      BY <1>0, <2>2
    <2> QED BY <2>3 DEF NPIDOf, Names!NPID
  <1>3. ASSUME NEW n \in NumberSet
        PROVE  NumberOf[n] \in 0..(Word - 1)
    <2>1. map.entries[n].id \in Nat
      BY <1>0, NamesTypes DEF NumberSet
    <2>2. map.entries[n].id % Word \in 0..(Word - 1)
      BY <1>0, <2>1
    <2> QED BY <2>2 DEF NumberOf, Names!Identifier
  <1>4. ASSUME NEW n \in NumberSet \cap (1..Processed)
        PROVE  /\ Names!SetOf(map.entries[n].guid) \in Int
               /\ KeyOf[n] = Names!SetOf(map.entries[n].guid) * Shift + NumberOf[n]
               /\ KeyOf[n] % Shift = NumberOf[n]
    <2> DEFINE guid == map.entries[n].guid
    <2>1. guid \in 1..(Len(map.guids) + 2) /\ Len(map.guids) \in Nat
      BY <1>0, NamesTypes DEF NamesInv, MapsInv
    <2> HIDE DEF guid
    <2>2. Names!SetOf(guid) \in Int
      <3>1. CASE guid \in {1, 2}
        BY <1>0, <3>1, NamesTypes DEF Names!SetOf
      <3>2. CASE guid \notin {1, 2}
        <4>1. guid - 2 \in 1..Len(map.guids)
          BY <2>1, <3>2
        <4>2. map.guids[guid - 2] \in Int
          BY <1>0, <4>1, NamesTypes
        <4> QED BY <3>2, <4>2 DEF Names!SetOf
      <3> QED BY <3>1, <3>2
    <2>3. KeyOf[n] = Names!SetOf(guid) * Shift + NumberOf[n]
      BY DEF KeyOf, NumberOf, Names!Key, guid
    <2>4. NumberOf[n] \in 0..(Shift - 1)
      BY <1>0, <1>3
    <2>5. KeyOf[n] % Shift = NumberOf[n]
      BY <1>0, <2>2, <2>3, <2>4, KeyRemainder
    <2> QED BY <2>2, <2>3, <2>5 DEF guid
  <1> QED BY <1>1, <1>2, <1>3, <1>4

LEMMA NamesTyped ==
  ASSUME NamesInv
  PROVE  Names!TypeOK
  <1>0. ProgressInv /\ MapsInv /\ AnswerInv
    BY DEF NamesInv
  <1>1. /\ \A k \in DOMAIN nameToID : nameToID[k] \in 0..(Word - 1)
        /\ \A n \in DOMAIN idToName : n \in 0..(Word - 1) /\ idToName[n] \in 0..(Word - 1)
        /\ \A n \in DOMAIN idToString : n \in 0..(Word - 1)
    <2>1. \A n \in NumberSet \cup StringSet : NPIDOf[n] \in 0..(Word - 1)
      BY EntryFacts DEF NumberSet, StringSet
    <2>2. \A n \in NumberSet : NumberOf[n] \in 0..(Word - 1)
      BY EntryFacts
    <2>3. ASSUME NEW k \in DOMAIN nameToID
          PROVE  nameToID[k] \in 0..(Word - 1)
      <3>1. PICK n \in NumberSet : nameToID[k] = NPIDOf[n]
        BY <1>0 DEF MapsInv, LastWrites
      <3> QED BY <2>1, <3>1
    <2>4. ASSUME NEW k \in DOMAIN idToName
          PROVE  k \in 0..(Word - 1) /\ idToName[k] \in 0..(Word - 1)
      <3>1. PICK n \in NumberSet : k = NPIDOf[n] /\ idToName[k] = NumberOf[n]
        BY <1>0 DEF MapsInv, LastWrites
      <3> QED BY <2>1, <2>2, <3>1
    <2>5. ASSUME NEW k \in DOMAIN idToString
          PROVE  k \in 0..(Word - 1)
      <3>1. PICK n \in StringSet : k = NPIDOf[n]
        BY <1>0 DEF MapsInv, LastWrites
      <3> QED BY <2>1, <3>1
    <2> QED BY <2>3, <2>4, <2>5
  <1>2. answer.id \in {-1} \cup 0..(Word - 1)
    <2>1. CASE answer = Names!NoAnswer
      BY <2>1 DEF Names!NoAnswer
    <2>2. CASE answer # Names!NoAnswer
      BY <1>0, <1>1, <2>2 DEF AnswerInv
    <2> QED BY <2>1, <2>2
  <1>3. done \in 0..(IF pc = "GUIDs" THEN Len(map.guids) ELSE Len(map.guids) + Len(map.entries))
    <2>1. Len(map.guids) \in Nat /\ Len(map.entries) \in Nat /\ done \in Nat
      BY <1>0, NamesTypes DEF ProgressInv
    <2>2. pc = "GUIDs" \/ result = "error" => done <= Len(map.guids)
      BY <1>0 DEF ProgressInv
    <2>3. InEntries => done <= Len(map.entries)
      BY <1>0 DEF ProgressInv
    <2>4. pc = "GUIDs" \/ result = "error" \/ InEntries
      BY <1>0 DEF ProgressInv, InEntries
    <2>5. PICK a \in Nat, b \in Nat, d \in Nat :
            a = Len(map.guids) /\ b = Len(map.entries) /\ d = done
      BY <2>1
    <2>6. d <= a \/ (pc # "GUIDs" /\ d <= b)
      BY <2>2, <2>3, <2>4, <2>5
    <2>7. d \in 0..(IF pc = "GUIDs" THEN a ELSE a + b)
      BY <2>6
    <2> QED BY <2>5, <2>7
  <1>4. map \in Names!Map
    BY <1>0, NamesAssumptions DEF ProgressInv, Names!MapAssumption
  <1> QED BY <1>0, <1>1, <1>2, <1>3, <1>4 DEF ProgressInv, Names!TypeOK

\* Numbers with 16 bits: the keys of the numbers are those of a question exactly if
\* they ask for that number in that set.
LEMMA NamesAnswer ==
  ASSUME NamesInv
  PROVE  Names!AnswersLastEntry
  <1> SUFFICES ASSUME answer # Names!NoAnswer, Names!Narrow
               PROVE  LET found == Names!Numbers(answer.set, answer.key)
                      IN  IF found = {} THEN answer.id = -1
                          ELSE \E n \in found : /\ \A m \in found : m <= n
                                                /\ answer.id = Names!NPID(map.entries[n])
    BY DEF Names!AnswersLastEntry
  <1> DEFINE k == Names!Key(answer.set, answer.key)
  <1>1. /\ result = "ok" /\ answer.set \in Nat /\ answer.key \in 0..(Shift - 1)
        /\ answer.id = IF k \in DOMAIN nameToID THEN nameToID[k] ELSE -1
        /\ Shift \in Nat /\ Shift >= Word /\ Word \in Nat \ {0}
        /\ Processed = Len(map.entries) /\ Len(map.entries) \in Nat
        /\ DOMAIN map.entries = 1..Len(map.entries)
    <2>1. map.entries \in Seq(Names!Entry)
      BY NamesAssumptions DEF NamesInv, ProgressInv, Names!MapAssumption, Names!Map
    <2> QED BY <2>1, NamesTypes, LenProperties
            DEF NamesInv, AnswerInv, ProgressInv, Processed, InEntries
  <1>2. \A n \in NumberSet : n \in 1..Processed /\ NumberSet \cap (1..Processed) = NumberSet
    BY <1>1 DEF NumberSet
  <1>3. ASSUME NEW n \in NumberSet
        PROVE  KeyOf[n] = k <=>
                 /\ Names!SetOf(map.entries[n].guid) = answer.set
                 /\ map.entries[n].id = answer.key
    <2>1. map.entries[n].id \in Nat /\ map.entries[n].id < Word
      <3>1. n \in 1..Len(map.entries)
        BY DEF NumberSet
      <3> QED BY <1>1, <3>1, NamesTypes DEF Names!Narrow, NamesInv
    <2>2. NumberOf[n] = map.entries[n].id
      <3>1. map.entries[n].id % Word = map.entries[n].id
        <4>1. map.entries[n].id \in 0..(Word - 1) /\ Word \in Nat
          BY <1>1, <2>1
        <4> QED BY <4>1, SmallRemainder
      <3> QED BY <3>1 DEF NumberOf, Names!Identifier
    <2>3. /\ Names!SetOf(map.entries[n].guid) \in Int
          /\ KeyOf[n] = Names!SetOf(map.entries[n].guid) * Shift + NumberOf[n]
      BY <1>2, EntryFacts
    <2>4. NumberOf[n] \in 0..(Shift - 1)
      BY <1>1, <2>1, <2>2
    <2>5. k = answer.set * Shift + answer.key
      BY DEF Names!Key
    <2>6. ASSUME KeyOf[n] = k
          PROVE  Names!SetOf(map.entries[n].guid) = answer.set /\ NumberOf[n] = answer.key
      <3> HIDE DEF k
      <3>1. PICK s \in Int, a \in Int, i \in 0..(Shift - 1), j \in 0..(Shift - 1) :
              /\ s = Names!SetOf(map.entries[n].guid) /\ a = answer.set
              /\ i = NumberOf[n] /\ j = answer.key
        BY <1>1, <2>3, <2>4
      <3>2. s * Shift + i = a * Shift + j
        BY <2>3, <2>5, <2>6, <3>1
      <3>3. s = a /\ i = j
        BY <1>1, <3>2, KeyParts
      <3> QED BY <3>1, <3>3
    <2> QED BY <2>2, <2>3, <2>5, <2>6
  <1>4. Names!Numbers(answer.set, answer.key) = {n \in NumberSet : KeyOf[n] = k}
    <2>1. ASSUME NEW n \in 1..Len(map.entries)
          PROVE  ~ map.entries[n].string <=> n \in NumberSet
      <3>1. map.entries[n].string \in BOOLEAN
        BY NamesTypes DEF NamesInv
      <3>2. ~ map.entries[n].string <=> map.entries[n].string = FALSE
        BY <3>1
      <3> QED BY <3>2 DEF NumberSet
    <2>2. NumberSet \subseteq 1..Len(map.entries)
      BY DEF NumberSet
    <2> HIDE DEF k
    <2> QED BY <1>1, <1>3, <2>1, <2>2 DEF Names!Numbers
  <1>5. LastWrites(nameToID, NumberSet, KeyOf, NPIDOf, Processed)
    BY DEF NamesInv, MapsInv
  <1> HIDE DEF k
  <1>6. CASE k \in DOMAIN nameToID
    <2>1. PICK n \in NumberSet :
            /\ KeyOf[n] = k /\ nameToID[k] = NPIDOf[n]
            /\ \A m \in NumberSet : KeyOf[m] = k => m <= n
      BY <1>2, <1>5, <1>6 DEF LastWrites
    <2>2. NPIDOf[n] = Names!NPID(map.entries[n])
      BY DEF NPIDOf, NumberSet
    <2> QED BY <1>1, <1>4, <1>6, <2>1, <2>2
  <1>7. CASE k \notin DOMAIN nameToID
    <2>1. \A n \in NumberSet : KeyOf[n] # k
      BY <1>2, <1>5, <1>7 DEF LastWrites
    <2> QED BY <1>1, <1>4, <1>7, <2>1
  <1> QED BY <1>6, <1>7

\* Each entry has an identifier of its own if the ordinals differ.
LEMMA NamesAgree ==
  ASSUME NamesInv
  PROVE  Names!MapsAgree
  <1> SUFFICES ASSUME Names!Ordinal
               PROVE  /\ \A k \in DOMAIN nameToID : idToName[nameToID[k]] = k % Shift
                      /\ \A s \in DOMAIN stringToID : idToString[stringToID[s]] = s
                      /\ DOMAIN idToName \cap DOMAIN idToString = {}
                      /\ \A n \in DOMAIN idToName \cup DOMAIN idToString : n >= Word \div 2
    BY DEF Names!MapsAgree
  <1>0. /\ ProgressInv /\ MapsInv /\ Word \in Nat \ {0}
        /\ DOMAIN map.entries = 1..Len(map.entries)
    <2>1. map.entries \in Seq(Names!Entry)
      BY NamesAssumptions DEF NamesInv, ProgressInv, Names!MapAssumption, Names!Map
    <2> QED BY <2>1, NamesTypes, LenProperties DEF NamesInv
  <1>1. ASSUME NEW n \in 1..Len(map.entries)
        PROVE  NPIDOf[n] = map.entries[n].index + Word \div 2 /\ map.entries[n].index \in Nat
    <2>1. map.entries[n].index \in Nat /\ map.entries[n].index < Word \div 2
      <3>1. map.entries[n].index < Word \div 2
        BY <1>0 DEF Names!Ordinal
      <3>2. map.entries[n].index \in 0..(Word - 1)
        BY <1>0, NamesTypes
      <3> QED BY <1>0, <3>1, <3>2
    <2>2. map.entries[n].index + Word \div 2 \in 0..(Word - 1)
      BY <1>0, <2>1
    <2>3. (map.entries[n].index + Word \div 2) % Word = map.entries[n].index + Word \div 2
      <3>1. Word \in Nat
        BY <1>0
      <3> QED BY <2>2, <3>1, SmallRemainder
    <2> QED BY <2>1, <2>3 DEF NPIDOf, Names!NPID
  <1>2. \A n, m \in 1..Len(map.entries) : NPIDOf[n] = NPIDOf[m] => n = m
    <2>1. Word \div 2 \in Nat
      BY <1>0
    <2>2. \A n, m \in 1..Len(map.entries) :
            map.entries[n].index = map.entries[m].index => n = m
      BY <1>0 DEF Names!Ordinal
    <2>3. ASSUME NEW n \in 1..Len(map.entries), NEW m \in 1..Len(map.entries),
                 NPIDOf[n] = NPIDOf[m]
          PROVE  n = m
      <3>1. PICK h \in Nat : h = Word \div 2
        BY <2>1
      <3>2. PICK a \in Nat : a = map.entries[n].index /\ NPIDOf[n] = a + h
        BY <1>1, <3>1
      <3>3. PICK b \in Nat : b = map.entries[m].index /\ NPIDOf[m] = b + h
        BY <1>1, <3>1
      <3>4. a + h = b + h
        BY <2>3, <3>2, <3>3
      <3>5. a = b
        BY <3>4
      <3> QED BY <2>2, <3>2, <3>3, <3>5
    <2> QED BY <2>3
  <1>3. \A n \in 1..Len(map.entries) : NPIDOf[n] >= Word \div 2
    BY <1>0, <1>1
  <1>4. NumberSet \subseteq 1..Len(map.entries) /\ StringSet \subseteq 1..Len(map.entries)
        /\ NumberSet \cap StringSet = {}
    BY DEF NumberSet, StringSet
  <1>5. ASSUME NEW k \in DOMAIN nameToID
        PROVE  idToName[nameToID[k]] = k % Shift
    <2>1. PICK n \in NumberSet \cap (1..Processed) : KeyOf[n] = k /\ nameToID[k] = NPIDOf[n]
      BY <1>0 DEF MapsInv, LastWrites
    <2>2. NPIDOf[n] \in DOMAIN idToName
      BY <1>0 DEF MapsInv, LastWrites
    <2>3. PICK m \in NumberSet \cap (1..Processed) :
            NPIDOf[m] = NPIDOf[n] /\ idToName[NPIDOf[n]] = NumberOf[m]
      <3>1. LastWrites(idToName, NumberSet, NPIDOf, NumberOf, Processed)
        BY <1>0 DEF MapsInv
      <3> QED BY <2>2, <3>1 DEF LastWrites
    <2>4. m = n
      BY <1>2, <1>4, <2>3
    <2> QED BY <2>1, <2>3, <2>4, EntryFacts
  <1>6. ASSUME NEW s \in DOMAIN stringToID
        PROVE  idToString[stringToID[s]] = s
    <2>1. PICK n \in StringSet \cap (1..Processed) : StringOf[n] = s /\ stringToID[s] = NPIDOf[n]
      BY <1>0 DEF MapsInv, LastWrites
    <2>2. NPIDOf[n] \in DOMAIN idToString
      BY <1>0 DEF MapsInv, LastWrites
    <2>3. PICK m \in StringSet \cap (1..Processed) :
            NPIDOf[m] = NPIDOf[n] /\ idToString[NPIDOf[n]] = StringOf[m]
      BY <1>0, <2>2 DEF MapsInv, LastWrites
    <2>4. m = n
      BY <1>2, <1>4, <2>3
    <2> QED BY <2>1, <2>3, <2>4
  <1>7. /\ \A x \in DOMAIN idToName : \E n \in NumberSet : NPIDOf[n] = x
        /\ \A x \in DOMAIN idToString : \E n \in StringSet : NPIDOf[n] = x
    BY <1>0 DEF MapsInv, LastWrites
  <1> QED BY <1>2, <1>3, <1>4, <1>5, <1>6, <1>7

\* A question to the name-to-ID map gives the last entry with that number in that
\* property set and no other, the maps undo each other, and only an entry that names
\* no place of a stream panics, for every map (name_to_id_map.go).
THEOREM NamesAreResolved == Spec => []NamesResolved
  <1> DEFINE Inv == call = "names" => NamesInv
  <1>1. Init => Inv
    BY NamesInit
  <1>2. Inv /\ [Next]_vars => Inv'
    <2>1. [Next]_vars => call' = call
      BY DEF Next, GoesOn, Ask, vars
    <2> QED BY <2>1, NamesStep
  <1>3. Inv => NamesResolved
    BY NamesAnswer, NamesAgree DEF NamesResolved, NamesInv
  <1> QED BY <1>1, <1>2, <1>3, PTL DEF Spec

----------------------------------------------------------------------------
(* HeapItem.                                                               *)

\* Where a call is, and what it has found out about its identifier.
PlaceOfItem ==
  /\ heap \in Heaps /\ hnid \in HNIDs /\ local \in Descriptors
  /\ pc \in {"hnid", "node", "hid", "map", "start", "end", "item", "done"}
  /\ (pc = "done" <=> result # "none")
  /\ result \in {"none", "item", "node", "error", "panic"} /\ faults \in 0..MaxFaults
  /\ node \in 0..Len(local)
  /\ blockOffset \in {0} \cup {Item!BlockOffsets[b - 1] : b \in DOMAIN heap}
  /\ pageMapOffset \in Nat /\ startOffset \in Nat /\ endOffset \in Nat
  /\ pc = "hnid" => node = 0
  /\ pc = "node" => node # 0 /\ Item!FindLocalDescriptor(node)
  /\ pc \in {"hid", "map", "start", "end", "item"} =>
       node = 0 /\ \A n \in DOMAIN local : ~ Item!Matches(n)
  /\ pc \in {"map", "start", "end", "item"} =>
       hnid.block \in 0..Len(heap) /\ blockOffset = Item!BlockOffsets[hnid.block]

\* What has been read of the page map, if the heap is sound and has the item.
WordsRead ==
  Item!Sound /\ Item!Addresses =>
    LET block == heap[hnid.block + 1]
    IN  /\ pc \in {"start", "end", "item"} => pageMapOffset = block.map
        /\ pc \in {"end", "item"} => startOffset = block.starts[hnid.index]
        /\ pc = "item" => endOffset = block.starts[hnid.index + 1]

ItemInv ==
  PlaceOfItem /\ WordsRead /\ Item!ItemAddressed /\ Item!NodeBeforeItem /\ Item!ErrorsExplained

\* Induction on natural numbers; T is the set of those that have the property.
LEMMA NatSetInduction ==
  ASSUME NEW T, 0 \in T, \A n \in Nat : n \in T => n + 1 \in T
  PROVE  Nat \subseteq T
  <1> SUFFICES ASSUME NEW m \in Nat, m \notin T
               PROVE  FALSE
    OBVIOUS
  <1> DEFINE Bad == {n \in Nat : n \notin T}
             Below == {1..n : n \in Bad}
  <1>1. Below \subseteq FiniteSubsetsOf(Nat)
    <2>1. \A n \in Nat : IsFiniteSet(1..n) /\ 1..n \subseteq Nat
      BY FS_Interval
    <2> QED BY <2>1 DEF FiniteSubsetsOf
  <1>2. Below # {}
    OBVIOUS
  <1> HIDE DEF Below
  <1>3. PICK B \in Below : \A C \in Below : <<C, B>> \notin StrictSubsetOrdering(Nat)
    BY <1>1, <1>2, FS_StrictSubsetOrderingWellFounded, WFMin
  <1>4. PICK k \in Bad : B = 1..k
    BY DEF Below
  <1>5. k # 0 /\ k - 1 \in Bad
    BY <1>4
  <1>6. 1..(k - 1) \in Below
    BY <1>5 DEF Below
  <1>7. <<1..(k - 1), B>> \in StrictSubsetOrdering(Nat)
    <2>1. /\ 1..(k - 1) \subseteq 1..k /\ k \in 1..k /\ k \notin 1..(k - 1)
          /\ 1..k \subseteq Nat /\ 1..(k - 1) \subseteq Nat
      BY <1>4, <1>5
    <2>2. 1..(k - 1) # 1..k
      BY <2>1
    <2> QED BY <1>4, <2>1, <2>2 DEF StrictSubsetOrdering
  <1> QED BY <1>3, <1>6, <1>7

\* The recursive function exists, on every initial segment.
LEMMA OffsetsExist ==
  ASSUME NEW h, NEW n \in Nat
  PROVE  \E f : f = [b \in 0..n |-> IF b = 0 THEN 0 ELSE f[b - 1] + h[b].size]
  <1> DEFINE T == {k \in Nat :
                    \E f : f = [b \in 0..k |-> IF b = 0 THEN 0 ELSE f[b - 1] + h[b].size]}
  <1>1. 0 \in T
    <2> DEFINE f == [b \in 0..0 |-> 0]
    <2>1. f = [b \in 0..0 |-> IF b = 0 THEN 0 ELSE f[b - 1] + h[b].size]
      OBVIOUS
    <2> QED BY <2>1
  <1>2. ASSUME NEW k \in Nat, k \in T
        PROVE  k + 1 \in T
    <2>1. PICK f : f = [b \in 0..k |-> IF b = 0 THEN 0 ELSE f[b - 1] + h[b].size]
      BY <1>2
    <2> DEFINE g == [b \in 0..(k + 1) |-> IF b = k + 1 THEN f[k] + h[k + 1].size ELSE f[b]]
    <2>2. ASSUME NEW b \in 0..(k + 1)
          PROVE  g[b] = IF b = 0 THEN 0 ELSE g[b - 1] + h[b].size
      <3>1. CASE b = k + 1
        BY <3>1
      <3>2. CASE b # k + 1
        <4>1. b \in 0..k /\ g[b] = f[b] /\ (b # 0 => b - 1 \in 0..k /\ g[b - 1] = f[b - 1])
          BY <3>2
        <4>2. f[b] = IF b = 0 THEN 0 ELSE f[b - 1] + h[b].size
          BY <2>1, <4>1
        <4> QED BY <4>1, <4>2
      <3> QED BY <3>1, <3>2
    <2>3. g = [b \in 0..(k + 1) |-> IF b = 0 THEN 0 ELSE g[b - 1] + h[b].size]
      <3>1. g = [b \in 0..(k + 1) |-> g[b]]
        OBVIOUS
      <3> HIDE DEF g
      <3> QED BY <2>2, <3>1
    <2> HIDE DEF g
    <2> QED BY <2>3
  <1> HIDE DEF T
  <1>3. Nat \subseteq T
    BY <1>1, <1>2, NatSetInduction
  <1> QED BY <1>3 DEF T

\* A heap is a sequence of blocks, each with a size and a page map.
LEMMA HeapTypes ==
  ASSUME heap \in Heaps
  PROVE  /\ Len(heap) \in Nat /\ DOMAIN heap = 1..Len(heap)
         /\ Garbage \subseteq Nat /\ Garbage # {} /\ MaxFaults \in Nat
         /\ \A b \in 1..Len(heap) :
              /\ heap[b].size \in Nat /\ heap[b].map \in Nat
              /\ heap[b].starts \in Seq(Nat) /\ Len(heap[b].starts) \in Nat
              /\ DOMAIN heap[b].starts = 1..Len(heap[b].starts)
              /\ \A i \in 1..Len(heap[b].starts) : heap[b].starts[i] \in Nat
  <1>1. heap \in Seq(Item!Block)
    BY ItemAssumptions DEF Item!HeapItemAssumption
  <1>2. ASSUME NEW b \in 1..Len(heap)
        PROVE  heap[b].size \in Nat /\ heap[b].map \in Nat /\ heap[b].starts \in Seq(Nat)
    <2>1. heap[b] \in Item!Block
      BY <1>1, ElementOfSeq
    <2> QED BY <2>1 DEF Item!Block
  <1>3. \A s \in Seq(Nat) : /\ Len(s) \in Nat /\ DOMAIN s = 1..Len(s)
                            /\ \A i \in 1..Len(s) : s[i] \in Nat
    BY LenProperties, ElementOfSeq
  <1>4. Garbage \subseteq Nat /\ Garbage # {} /\ MaxFaults \in Nat
    BY ItemAssumptions DEF Item!HeapItemAssumption
  <1> QED BY <1>1, <1>2, <1>3, <1>4, LenProperties

\* Where blocks begin, and that they lie one after the other.
LEMMA OffsetsEquation ==
  ASSUME heap \in Heaps
  PROVE  /\ Item!BlockOffsets[0] = 0
         /\ \A b \in 1..Len(heap) :
              Item!BlockOffsets[b] = Item!BlockOffsets[b - 1] + heap[b].size
  <1>1. Len(heap) \in Nat
    BY HeapTypes
  <1>2. Item!BlockOffsets =
          [b \in 0..Len(heap) |-> IF b = 0 THEN 0 ELSE Item!BlockOffsets[b - 1] + heap[b].size]
    BY <1>1, OffsetsExist DEF Item!BlockOffsets
  <1>3. \A b \in 0..Len(heap) :
          Item!BlockOffsets[b] = IF b = 0 THEN 0 ELSE Item!BlockOffsets[b - 1] + heap[b].size
    BY <1>2
  <1> QED BY <1>1, <1>3

LEMMA OffsetsTyped ==
  ASSUME heap \in Heaps
  PROVE  \A b \in 0..Len(heap) : Item!BlockOffsets[b] \in Nat
  <1> DEFINE T == {b \in Nat : b <= Len(heap) => Item!BlockOffsets[b] \in Nat}
  <1>1. 0 \in T
    BY OffsetsEquation
  <1>2. ASSUME NEW b \in Nat, b \in T
        PROVE  b + 1 \in T
    <2>1. CASE b + 1 <= Len(heap)
      <3>1. b + 1 \in 1..Len(heap) /\ Item!BlockOffsets[b] \in Nat /\ (b + 1) - 1 = b
        BY <1>2, <2>1, HeapTypes
      <3>2. Item!BlockOffsets[b + 1] = Item!BlockOffsets[b] + heap[b + 1].size
        BY <3>1, OffsetsEquation
      <3>3. heap[b + 1].size \in Nat
        BY <3>1, HeapTypes
      <3> QED BY <3>1, <3>2, <3>3
    <2>2. CASE ~ (b + 1 <= Len(heap))
      BY <2>2
    <2> QED BY <2>1, <2>2
  <1> HIDE DEF T
  <1>3. Nat \subseteq T
    BY <1>1, <1>2, NatSetInduction
  <1>4. Len(heap) \in Nat
    BY HeapTypes
  <1> QED BY <1>3, <1>4 DEF T

LEMMA OffsetsGrow ==
  ASSUME heap \in Heaps, NEW b \in 0..Len(heap), NEW c \in b..Len(heap)
  PROVE  Item!BlockOffsets[b] <= Item!BlockOffsets[c]
  <1> DEFINE T == {d \in Nat : b + d <= Len(heap) =>
                                 Item!BlockOffsets[b] <= Item!BlockOffsets[b + d]}
  <1>0. Len(heap) \in Nat /\ b \in Nat /\ \A x \in 0..Len(heap) : Item!BlockOffsets[x] \in Nat
    BY HeapTypes, OffsetsTyped
  <1>1. 0 \in T
    <2>1. Item!BlockOffsets[b] \in Nat /\ b + 0 = b
      BY <1>0
    <2> QED BY <2>1
  <1>2. ASSUME NEW d \in Nat, d \in T
        PROVE  d + 1 \in T
    <2>1. CASE b + (d + 1) <= Len(heap)
      <3> DEFINE e == b + (d + 1)
      <3>1. e \in 1..Len(heap) /\ e - 1 = b + d /\ b + d \in 0..Len(heap)
        BY <1>0, <2>1
      <3>2. Item!BlockOffsets[e] = Item!BlockOffsets[b + d] + heap[e].size
        BY <3>1, OffsetsEquation
      <3>3. heap[e].size \in Nat
        BY <3>1, HeapTypes
      <3>4. Item!BlockOffsets[b] <= Item!BlockOffsets[b + d]
        BY <1>0, <1>2, <3>1
      <3>5. Item!BlockOffsets[b] \in Nat /\ Item!BlockOffsets[b + d] \in Nat
        BY <1>0, <3>1
      <3> HIDE DEF e
      <3>6. Item!BlockOffsets[b] <= Item!BlockOffsets[e]
        BY <3>2, <3>3, <3>4, <3>5
      <3> QED BY <3>6 DEF e
    <2>2. CASE ~ (b + (d + 1) <= Len(heap))
      BY <2>2
    <2> QED BY <2>1, <2>2
  <1> HIDE DEF T
  <1>3. Nat \subseteq T
    BY <1>1, <1>2, NatSetInduction
  <1>4. PICK d \in Nat : c = b + d
    <2>1. c - b \in Nat /\ c = b + (c - b)
      BY <1>0
    <2> QED BY <2>1
  <1> QED BY <1>0, <1>3, <1>4 DEF T

\* Exactly one block has a place of the heap.
LEMMA BlockExists ==
  ASSUME heap \in Heaps, NEW o \in Nat, o < Item!Size
  PROVE  \E b \in DOMAIN heap : Item!BlockOffsets[b - 1] <= o /\ o < Item!BlockOffsets[b]
  <1> SUFFICES ASSUME \A b \in DOMAIN heap :
                        ~ (Item!BlockOffsets[b - 1] <= o /\ o < Item!BlockOffsets[b])
               PROVE  FALSE
    OBVIOUS
  <1>0. /\ Len(heap) \in Nat /\ DOMAIN heap = 1..Len(heap)
        /\ \A x \in 0..Len(heap) : Item!BlockOffsets[x] \in Nat
    BY HeapTypes, OffsetsTyped
  <1> DEFINE T == {b \in Nat : b <= Len(heap) => Item!BlockOffsets[b] <= o}
  <1>1. 0 \in T
    BY OffsetsEquation
  <1>2. ASSUME NEW b \in Nat, b \in T
        PROVE  b + 1 \in T
    <2>1. CASE b + 1 <= Len(heap)
      <3>1. b + 1 \in DOMAIN heap /\ (b + 1) - 1 = b /\ Item!BlockOffsets[b] <= o
        BY <1>0, <1>2, <2>1
      <3>2. ~ (o < Item!BlockOffsets[b + 1])
        BY <3>1
      <3>3. Item!BlockOffsets[b + 1] \in Nat
        BY <1>0, <3>1
      <3> QED BY <3>2, <3>3
    <2>2. CASE ~ (b + 1 <= Len(heap))
      BY <2>2
    <2> QED BY <2>1, <2>2
  <1> HIDE DEF T
  <1>3. Nat \subseteq T
    BY <1>1, <1>2, NatSetInduction
  <1>4. Item!BlockOffsets[Len(heap)] <= o
    BY <1>0, <1>3 DEF T
  <1> QED BY <1>0, <1>4 DEF Item!Size

\* A read at place x of block b delivers what the block has there.
LEMMA WordsOf ==
  ASSUME heap \in Heaps, NEW b \in 1..Len(heap), NEW x \in Nat, x < heap[b].size
  PROVE  LET slot == (x - heap[b].map - 2) \div 2
         IN  Item!Words(Item!BlockOffsets[b - 1] + x) =
               IF x = 0 THEN {heap[b].map}
               ELSE IF x = heap[b].map + 2 + 2 * slot /\ slot \in DOMAIN heap[b].starts
                    THEN {heap[b].starts[slot]} ELSE Garbage
  <1> DEFINE o == Item!BlockOffsets[b - 1] + x
  <1>0. /\ Len(heap) \in Nat /\ DOMAIN heap = 1..Len(heap) /\ b \in Nat
        /\ \A y \in 0..Len(heap) : Item!BlockOffsets[y] \in Nat
        /\ b - 1 \in 0..Len(heap) /\ b \in 0..Len(heap)
    BY HeapTypes, OffsetsTyped
  <1>1. /\ Item!BlockOffsets[b - 1] \in Nat /\ Item!BlockOffsets[b] \in Nat
        /\ Item!BlockOffsets[b] = Item!BlockOffsets[b - 1] + heap[b].size /\ heap[b].size \in Nat
    BY <1>0, OffsetsEquation, HeapTypes
  <1>2. Item!BlockOffsets[b - 1] <= o /\ o < Item!BlockOffsets[b] /\ o \in Nat
    BY <1>1
  <1> HIDE DEF o
  <1>3. ASSUME NEW i \in DOMAIN heap, Item!BlockOffsets[i - 1] <= o, o < Item!BlockOffsets[i]
        PROVE  i = b
    <2>0. i \in 0..Len(heap) /\ i - 1 \in 0..Len(heap)
      BY <1>0
    <2>1. /\ Item!BlockOffsets[i] \in Nat /\ Item!BlockOffsets[i - 1] \in Nat
      BY <1>0, <2>0
    <2>2. CASE i < b
      <3>1. b - 1 \in i..Len(heap)
        BY <1>0, <2>0, <2>2
      <3>2. Item!BlockOffsets[i] <= Item!BlockOffsets[b - 1]
        BY <2>0, <3>1, OffsetsGrow
      <3> QED BY <1>1, <1>2, <1>3, <2>1, <3>2
    <2>3. CASE i > b
      <3>1. i - 1 \in b..Len(heap)
        BY <1>0, <2>0, <2>3
      <3>2. Item!BlockOffsets[b] <= Item!BlockOffsets[i - 1]
        BY <1>0, <3>1, OffsetsGrow
      <3> QED BY <1>1, <1>2, <1>3, <2>1, <3>2
    <2> QED BY <1>0, <2>2, <2>3
  <1>4. (CHOOSE i \in DOMAIN heap : Item!BlockOffsets[i - 1] <= o /\ o < Item!BlockOffsets[i]) = b
    BY <1>0, <1>2, <1>3
  <1>5. o - Item!BlockOffsets[b - 1] = x
    BY <1>1, SMTT(30) DEF o
  <1>6. Item!Words(o) =
          LET slot == (x - heap[b].map - 2) \div 2
          IN  IF x = 0 THEN {heap[b].map}
              ELSE IF x = heap[b].map + 2 + 2 * slot /\ slot \in DOMAIN heap[b].starts
                   THEN {heap[b].starts[slot]} ELSE Garbage
    BY <1>4, <1>5, ZenonT(30) DEF Item!Words
  <1> QED BY <1>6 DEF o

\* A word is a number wherever it is read in the heap.
LEMMA WordsTyped ==
  ASSUME heap \in Heaps, NEW o \in Nat, o < Item!Size
  PROVE  Item!Words(o) \subseteq Nat
  <1>1. PICK b \in DOMAIN heap : Item!BlockOffsets[b - 1] <= o /\ o < Item!BlockOffsets[b]
    BY BlockExists
  <1>2. /\ b \in 1..Len(heap) /\ Len(heap) \in Nat /\ heap[b].size \in Nat
        /\ b - 1 \in 0..Len(heap)
    BY HeapTypes
  <1>3. Item!BlockOffsets[b - 1] \in Nat
    BY <1>2, OffsetsTyped
  <1>4. Item!BlockOffsets[b] = Item!BlockOffsets[b - 1] + heap[b].size
    BY <1>2, OffsetsEquation
  <1>5. PICK x \in Nat : o = Item!BlockOffsets[b - 1] + x /\ x < heap[b].size
    <2>1. /\ o - Item!BlockOffsets[b - 1] \in Nat
          /\ o = Item!BlockOffsets[b - 1] + (o - Item!BlockOffsets[b - 1])
          /\ o - Item!BlockOffsets[b - 1] < heap[b].size
      BY <1>1, <1>2, <1>3, <1>4
    <2> QED BY <2>1
  <1>6. /\ heap[b].map \in Nat /\ Garbage \subseteq Nat
        /\ \A i \in DOMAIN heap[b].starts : heap[b].starts[i] \in Nat
    BY <1>2, HeapTypes
  <1> DEFINE slot == (x - heap[b].map - 2) \div 2
  <1>7. Item!Words(o) =
          IF x = 0 THEN {heap[b].map}
          ELSE IF x = heap[b].map + 2 + 2 * slot /\ slot \in DOMAIN heap[b].starts
               THEN {heap[b].starts[slot]} ELSE Garbage
    BY <1>2, <1>5, WordsOf
  <1> HIDE DEF slot
  <1>8. CASE Item!Words(o) = {heap[b].map}
    BY <1>6, <1>8
  <1>9. CASE slot \in DOMAIN heap[b].starts /\ Item!Words(o) = {heap[b].starts[slot]}
    BY <1>6, <1>9
  <1>10. CASE Item!Words(o) = Garbage
    BY <1>6, <1>10
  <1> QED BY <1>7, <1>8, <1>9, <1>10


\* The three reads of an identifier that a sound heap has: they end in the heap, and
\* deliver the offset of the page map and the two entries of it.
LEMMA PageMapReads ==
  ASSUME heap \in Heaps, hnid \in HNIDs, Item!Sound, Item!Addresses
  PROVE  LET offset == Item!BlockOffsets[hnid.block]
             block == heap[hnid.block + 1]
             entry == offset + block.map + 2 * hnid.index + 2
         IN  /\ offset + 2 <= Item!Size /\ Item!Words(offset) = {block.map}
             /\ entry + 2 <= Item!Size /\ Item!Words(entry) = {block.starts[hnid.index]}
             /\ entry + 4 <= Item!Size
             /\ Item!Words(entry + 2) = {block.starts[hnid.index + 1]}
  <1> DEFINE b == hnid.block + 1
             i == hnid.index
             size == heap[b].size
             at == heap[b].map
             starts == heap[b].starts
             offset == Item!BlockOffsets[b - 1]
  <1>0. hnid \in Item!HNID
    BY ItemAssumptions DEF Item!HeapItemAssumption
  <1>1. /\ b \in 1..Len(heap) /\ b - 1 = hnid.block /\ i \in 1..(Len(starts) - 1) /\ i \in Nat
        /\ Len(heap) \in Nat
    BY <1>0, HeapTypes DEF Item!Addresses, Item!HNID
  <1>2. /\ size \in Nat /\ at \in Nat /\ Len(starts) \in Nat /\ DOMAIN starts = 1..Len(starts)
        /\ b \in DOMAIN heap
    BY <1>1, HeapTypes
  <1>3. at >= 2 /\ at + 4 + 2 * Len(starts) <= size
    BY <1>2 DEF Item!Sound
  <1>4. offset \in Nat /\ Item!BlockOffsets[b] = offset + size
        /\ Item!BlockOffsets[b] <= Item!Size /\ Item!Size \in Nat
    <2>1. b - 1 \in 0..Len(heap) /\ b \in 0..Len(heap) /\ Len(heap) \in b..Len(heap)
          /\ Len(heap) \in 0..Len(heap)
      BY <1>1
    <2> QED BY <1>1, <2>1, OffsetsTyped, OffsetsEquation, OffsetsGrow DEF Item!Size
  <1>5. Item!Words(offset) = {at}
    <2>1. 0 < size
      BY <1>2, <1>3
    <2>2. Item!Words(Item!BlockOffsets[b - 1] + 0) = {heap[b].map}
      BY <1>1, <2>1, WordsOf
    <2>3. offset + 0 = offset
      BY <1>4
    <2> QED BY <2>2, <2>3
  <1>6. ASSUME NEW j \in 1..Len(starts)
        PROVE  Item!Words(offset + (at + 2 * j + 2)) = {starts[j]}
    <2> DEFINE x == at + 2 * j + 2
               slot == (x - at - 2) \div 2
    <2>1. x \in Nat /\ x < size /\ x # 0 /\ x - at - 2 = 2 * j /\ j \in Nat
      <3> HIDE DEF size, at, starts
      <3>1. PICK l \in Nat : l = Len(starts)
        BY <1>2
      <3>2. j <= l /\ j \in Nat /\ at + 4 + 2 * l <= size
        BY <1>3, <3>1
      <3> QED BY <1>2, <3>2, SMTT(30)
    <2>2. slot = j
      BY <2>1
    <2>3. Item!Words(Item!BlockOffsets[b - 1] + x) =
            IF x = 0 THEN {heap[b].map}
            ELSE IF x = heap[b].map + 2 + 2 * slot /\ slot \in DOMAIN heap[b].starts
                 THEN {heap[b].starts[slot]} ELSE Garbage
      BY <1>1, <2>1, WordsOf
    <2>4. x = at + 2 + 2 * j /\ j \in DOMAIN starts
      BY <1>2
    <2> HIDE DEF x, slot
    <2>5. Item!Words(offset + x) = {starts[j]}
      BY <2>1, <2>2, <2>3, <2>4
    <2> QED BY <2>5 DEF x
  <1>7. /\ i \in 1..Len(starts) /\ i + 1 \in 1..Len(starts)
        /\ offset + at + 2 * i + 2 = offset + (at + 2 * i + 2)
        /\ offset + at + 2 * i + 2 + 2 = offset + (at + 2 * (i + 1) + 2)
        /\ offset + 2 <= Item!Size
        /\ offset + at + 2 * i + 2 + 4 <= Item!Size
        /\ offset + at + 2 * i + 2 + 2 <= Item!Size
    <2> HIDE DEF b, i, size, at, starts, offset
    <2>1. PICK l \in Nat, s \in Nat : l = Len(starts) /\ s = Item!Size
      BY <1>2, <1>4
    <2>2. i + 1 <= l /\ i >= 1 /\ i \in Nat
      BY <1>1, <1>2, <2>1
    <2>3. at + 4 + 2 * l <= size /\ offset + size <= s
      BY <1>3, <1>4, <2>1
    <2>4. offset \in Nat /\ at \in Nat /\ size \in Nat
      BY <1>1, <1>2, <1>4
    <2>5. i \in 1..l /\ i + 1 \in 1..l
      BY <2>1, <2>2
    <2>6. /\ offset + at + 2 * i + 2 = offset + (at + 2 * i + 2)
          /\ offset + at + 2 * i + 2 + 2 = offset + (at + 2 * (i + 1) + 2)
      BY <2>2, <2>4
    <2>7. /\ offset + 2 <= s
          /\ offset + at + 2 * i + 2 + 4 <= s
          /\ offset + at + 2 * i + 2 + 2 <= s
      BY <2>1, <2>2, <2>3, <2>4
    <2> QED BY <2>1, <2>5, <2>6, <2>7, SMTT(30)
  <1>8. /\ Item!Words(offset + at + 2 * i + 2) = {starts[i]}
        /\ Item!Words(offset + at + 2 * i + 2 + 2) = {starts[i + 1]}
    BY <1>6, <1>7
  <1> QED BY <1>1, <1>5, <1>7, <1>8

LEMMA IndexTyped ==
  ASSUME NEW h \in Item!HNID
  PROVE  h.index \in Nat
  <1> DEFINE i == h.index
  <1>1. i \in 0..2047
    BY DEF Item!HNID
  <1> HIDE DEF i
  <1>2. i \in Nat
    BY <1>1
  <1> QED BY <1>2 DEF i

LEMMA ItemInit ==
  ASSUME Init, call = "item"
  PROVE  ItemInv
  <1>1. Item!Init
    BY DEF Init
  <1>2. PlaceOfItem
    <2>1. heap \in Heaps /\ local \in Seq(Item!Descriptor) /\ MaxFaults \in Nat
      BY <1>1, ItemAssumptions DEF Item!Init, Item!HeapItemAssumption
    <2>2. Len(local) \in Nat
      BY <2>1, LenProperties
    <2> QED BY <1>1, <2>1, <2>2 DEF PlaceOfItem, Item!Init
  <1>3. WordsRead /\ Item!ItemAddressed /\ Item!NodeBeforeItem /\ Item!ErrorsExplained
    BY <1>1 DEF WordsRead, Item!ItemAddressed, Item!NodeBeforeItem, Item!ErrorsExplained, Item!Init
  <1> QED BY <1>2, <1>3 DEF ItemInv

\* The input of a call stays, and with it what is said of it.
LEMMA SameItem ==
  ASSUME UNCHANGED <<heap, hnid, local>>
  PROVE  /\ (Item!Sound <=> Item!Sound') /\ (Item!Addresses <=> Item!Addresses')
         /\ Item!BlockOffsets' = Item!BlockOffsets
         /\ \A n : Item!Matches(n)' <=> Item!Matches(n)
  BY DEF Item!Sound, Item!Addresses, Item!BlockOffsets, Item!Matches

\* A call that returns, wherever it is.
LEMMA ItemReturn ==
  ASSUME ItemInv, NEW r \in {"item", "node", "error", "panic"}, Item!Returns(r), pc # "done",
         faults' \in 0..MaxFaults,
         r = "item" => pc = "item",
         r = "node" => pc = "node" /\ local[node].node = "sound",
         r = "error" /\ Item!Sound =>
           \/ faults' > 0
           \/ (node # 0 /\ local[node].node # "sound")
           \/ (node = 0 /\ ~ Item!Addresses),
         r = "panic" => node = 0 /\ hnid.block = Len(heap)
  PROVE  ItemInv'
  <1>1. /\ UNCHANGED <<heap, hnid, local, node, blockOffset, pageMapOffset, startOffset, endOffset>>
        /\ pc' = "done" /\ result' = r
    BY DEF Item!Returns, Item!offsets
  <1>2. PlaceOfItem /\ WordsRead
    BY DEF ItemInv
  <1>3. PlaceOfItem'
    BY <1>1, <1>2, SameItem DEF PlaceOfItem
  <1>4. WordsRead'
    BY <1>1 DEF WordsRead
  <1>5. Item!ItemAddressed'
    <2> SUFFICES ASSUME r = "item", Item!Sound, Item!Addresses
                 PROVE  LET starts == heap[hnid.block + 1].starts
                        IN  /\ startOffset = starts[hnid.index]
                            /\ endOffset = starts[hnid.index + 1]
      BY <1>1, SameItem DEF Item!ItemAddressed
    <2> QED BY <1>2 DEF WordsRead
  <1>6. Item!NodeBeforeItem'
    <2>1. r = "node" => /\ local[node].id = hnid
                        /\ \A n \in 1..(node - 1) : local[n].id # hnid
      BY <1>2 DEF PlaceOfItem, Item!FindLocalDescriptor, Item!Matches
    <2>2. r = "item" => \A n \in DOMAIN local : local[n].id # hnid
      BY <1>2 DEF PlaceOfItem, Item!Matches
    <2> QED BY <1>1, <2>1, <2>2 DEF Item!NodeBeforeItem
  <1>7. Item!ErrorsExplained'
    BY <1>1, SameItem DEF Item!ErrorsExplained
  <1> QED BY <1>3, <1>4, <1>5, <1>6, <1>7 DEF ItemInv

\* The word of a block that the read named v is for.
Expected(v) ==
  LET block == heap[hnid.block + 1]
  IN  IF v = "map" THEN block.map
      ELSE IF v = "start" THEN block.starts[hnid.index] ELSE block.starts[hnid.index + 1]

\* A read of the page map.
LEMMA ItemRead ==
  ASSUME ItemInv, NEW o \in Nat, NEW v, NEW label, Item!ReadWord(o, v, label),
         \/ pc = "map" /\ v = "map" /\ label = "start"
         \/ pc = "start" /\ v = "start" /\ label = "end"
         \/ pc = "end" /\ v = "end" /\ label = "item",
         Item!Sound /\ Item!Addresses => o + 2 <= Item!Size /\ Item!Words(o) = {Expected(v)}
  PROVE  ItemInv'
  <1>1. PlaceOfItem /\ WordsRead
    BY DEF ItemInv
  <1>2. /\ pc \in {"map", "start", "end"} /\ node = 0 /\ heap \in Heaps
        /\ faults \in 0..MaxFaults /\ MaxFaults \in Nat /\ Item!Size \in Nat /\ result = "none"
    <2>1. heap \in Heaps
      BY <1>1 DEF PlaceOfItem
    <2>2. Len(heap) \in Nat /\ MaxFaults \in Nat
      BY <2>1, HeapTypes
    <2>3. Item!Size \in Nat
      BY <2>1, <2>2, OffsetsTyped DEF Item!Size
    <2> QED BY <1>1, <2>1, <2>2, <2>3 DEF PlaceOfItem
  <1>3. CASE Item!ReadFails /\ Item!Returns("error")
    <2>1. faults' \in 0..MaxFaults /\ faults' > 0
      BY <1>2, <1>3 DEF Item!ReadFails
    <2> QED BY <1>2, <1>3, <2>1, ItemReturn
  <1>4. CASE Item!ReadOK /\ o + 2 > Item!Size /\ Item!Returns("error")
    <2>1. faults' \in 0..MaxFaults
      BY <1>2, <1>4 DEF Item!ReadOK
    <2>2. ~ (Item!Sound /\ Item!Addresses)
      BY <1>2, <1>4
    <2> QED BY <1>2, <1>4, <2>1, <2>2, ItemReturn
  <1>5. ASSUME NEW w \in Item!Words(o), Item!ReadOK, o + 2 <= Item!Size,
               pageMapOffset' = IF v = "map" THEN w ELSE pageMapOffset,
               startOffset' = IF v = "start" THEN w ELSE startOffset,
               endOffset' = IF v = "end" THEN w ELSE endOffset,
               pc' = label, UNCHANGED <<heap, hnid, local, node, blockOffset, result>>
        PROVE  ItemInv'
    <2>1. w \in Nat
      BY <1>2, <1>5, WordsTyped
    <2>2. faults' = faults
      BY <1>5 DEF Item!ReadOK
    <2>3. PlaceOfItem'
      BY <1>1, <1>2, <1>5, <2>1, <2>2, SameItem DEF PlaceOfItem
    <2>4. WordsRead'
      <3> SUFFICES ASSUME Item!Sound, Item!Addresses
                   PROVE  LET block == heap[hnid.block + 1]
                          IN  /\ pc' \in {"start", "end", "item"} => pageMapOffset' = block.map
                              /\ pc' \in {"end", "item"} => startOffset' = block.starts[hnid.index]
                              /\ pc' = "item" => endOffset' = block.starts[hnid.index + 1]
        BY <1>5, SameItem DEF WordsRead
      <3>1. w = Expected(v)
        BY <1>5
      <3> QED BY <1>1, <1>5, <3>1 DEF WordsRead, Expected
    <2>5. Item!ItemAddressed' /\ Item!NodeBeforeItem' /\ Item!ErrorsExplained'
      BY <1>2, <1>5 DEF Item!ItemAddressed, Item!NodeBeforeItem, Item!ErrorsExplained
    <2> QED BY <2>3, <2>4, <2>5 DEF ItemInv
  <1> QED BY <1>3, <1>4, <1>5 DEF Item!ReadWord

LEMMA ItemStep ==
  ASSUME ItemInv, call = "item", [Next]_vars
  PROVE  ItemInv'
  <1>0. PlaceOfItem /\ WordsRead
    BY DEF ItemInv
  <1>a. /\ heap \in Heaps /\ hnid \in Item!HNID /\ MaxFaults \in Nat
        /\ Len(local) \in Nat /\ DOMAIN local = 1..Len(local)
        /\ Len(heap) \in Nat /\ DOMAIN heap = 1..Len(heap)
    <2>1. heap \in Heaps /\ hnid \in Item!HNID /\ local \in Seq(Item!Descriptor)
      BY <1>0, ItemAssumptions DEF PlaceOfItem, Item!HeapItemAssumption
    <2> QED BY <2>1, HeapTypes, LenProperties
  <1>1. CASE UNCHANGED vars
    <2>1. UNCHANGED Item!vars
      BY <1>1 DEF vars, ofItem, Item!vars, Item!offsets
    <2>2. PlaceOfItem'
      BY <1>0, <2>1, SameItem DEF PlaceOfItem, Item!FindLocalDescriptor, Item!vars, Item!offsets
    <2>3. WordsRead'
      BY <1>0, <2>1, SameItem DEF WordsRead, Item!vars, Item!offsets
    <2>4. Item!ItemAddressed' /\ Item!NodeBeforeItem' /\ Item!ErrorsExplained'
      BY <2>1, SameItem DEF ItemInv, Item!ItemAddressed, Item!NodeBeforeItem,
         Item!ErrorsExplained, Item!vars, Item!offsets
    <2> QED BY <2>2, <2>3, <2>4 DEF ItemInv
  <1>2. CASE Item!Find
    <2>1. /\ UNCHANGED <<heap, hnid, local, blockOffset, pageMapOffset, startOffset, endOffset,
                         result, faults>>
          /\ pc = "hnid" /\ result = "none"
          /\ \/ /\ pc' = "node" /\ node' \in DOMAIN local /\ Item!FindLocalDescriptor(node')
             \/ /\ pc' = "hid" /\ node' = node /\ \A n \in DOMAIN local : ~ Item!Matches(n)
      BY <1>0, <1>2 DEF Item!Find, PlaceOfItem, Item!offsets
    <2>2. pc' = "hid" => node' = 0
      <3> QED BY <1>0, <2>1 DEF ItemInv, PlaceOfItem
    <2>3. PlaceOfItem'
      <3>1. Item!FindLocalDescriptor(node') => Item!FindLocalDescriptor(node)'
        BY <2>1, SameItem DEF Item!FindLocalDescriptor, Item!Matches
      <3>2. node' \in 0..Len(local) /\ (pc' = "node" => node' # 0)
        BY <1>0, <1>a, <2>1 DEF PlaceOfItem
      <3> QED BY <1>0, <2>1, <2>2, <3>1, <3>2, SameItem DEF PlaceOfItem
    <2>4. WordsRead' /\ Item!ItemAddressed' /\ Item!NodeBeforeItem' /\ Item!ErrorsExplained'
      BY <2>1 DEF WordsRead, Item!ItemAddressed, Item!NodeBeforeItem, Item!ErrorsExplained
    <2> QED BY <2>3, <2>4 DEF ItemInv
  <1>3. CASE Item!GetNode
    <2>1. pc = "node" /\ node # 0 /\ faults \in 0..MaxFaults
      BY <1>0, <1>3 DEF Item!GetNode, PlaceOfItem
    <2>2. Item!ReadFails => faults' \in 0..MaxFaults /\ faults' > 0
      BY <1>a, <2>1 DEF Item!ReadFails
    <2>3. Item!ReadOK => faults' \in 0..MaxFaults
      BY <2>1 DEF Item!ReadOK
    <2> QED BY <1>3, <2>1, <2>2, <2>3, ItemReturn DEF Item!GetNode
  <1>4. CASE Item!GetBlock
    <2>1. /\ pc = "hid" /\ node = 0 /\ faults \in 0..MaxFaults /\ faults' = faults
          /\ result = "none"
      BY <1>0, <1>4 DEF Item!GetBlock, PlaceOfItem, Item!ReadOK
    <2>2. CASE (hnid.type # 0 \/ ~ Item!BlockKnown) /\ Item!Returns("error")
      <3>1. ~ Item!Addresses
        BY <1>a, <2>2 DEF Item!Addresses, Item!BlockKnown, Item!HNID
      <3> QED BY <2>1, <2>2, <3>1, ItemReturn
    <2>3. CASE Item!Panics /\ Item!Returns("panic")
      BY <2>1, <2>3, ItemReturn DEF Item!Panics
    <2>4. CASE /\ Item!BlockKnown /\ ~ Item!Panics
               /\ pc' = "map" /\ blockOffset' = Item!BlockOffsets[hnid.block]
               /\ UNCHANGED <<heap, hnid, local, node, pageMapOffset, startOffset, endOffset, result>>
      <3>1. hnid.block \in 0..Len(heap) /\ hnid.block \in Nat
            /\ (hnid.block # 0 => hnid.block + 1 \in DOMAIN heap)
        BY <1>a, <2>4 DEF Item!BlockKnown, Item!Panics, Item!HNID
      <3>2. blockOffset' \in {0} \cup {Item!BlockOffsets[b - 1] : b \in DOMAIN heap}
        <4>1. CASE hnid.block = 0
          BY <1>a, <2>4, <4>1, OffsetsEquation
        <4>2. CASE hnid.block # 0
          <5>1. (hnid.block + 1) - 1 = hnid.block
            BY <3>1
          <5> QED BY <2>4, <3>1, <4>2, <5>1
        <4> QED BY <4>1, <4>2
      <3>3. PlaceOfItem'
        BY <1>0, <2>1, <2>4, <3>1, <3>2, SameItem DEF PlaceOfItem
      <3>4. WordsRead' /\ Item!ItemAddressed' /\ Item!NodeBeforeItem' /\ Item!ErrorsExplained'
        BY <2>1, <2>4 DEF WordsRead, Item!ItemAddressed, Item!NodeBeforeItem, Item!ErrorsExplained
      <3> QED BY <3>3, <3>4 DEF ItemInv
    <2> QED BY <1>4, <2>2, <2>3, <2>4 DEF Item!GetBlock
  <1>5. CASE Item!ReadPageMapOffset \/ Item!ReadStart \/ Item!ReadEnd
    <2>1. /\ pc \in {"map", "start", "end"}
          /\ blockOffset = Item!BlockOffsets[hnid.block] /\ hnid.block \in 0..Len(heap)
          /\ pageMapOffset \in Nat /\ hnid.index \in Nat
      <3>1. pc \in {"map", "start", "end"}
        BY <1>5 DEF Item!ReadPageMapOffset, Item!ReadStart, Item!ReadEnd
      <3>2. hnid.index \in Nat
        BY <1>a, IndexTyped
      <3> QED BY <1>0, <3>1, <3>2 DEF PlaceOfItem
    <2>2. blockOffset \in Nat
      BY <1>a, <2>1, OffsetsTyped
    <2>3. Item!AllocationOffset \in Nat /\ Item!AllocationOffset + 2 \in Nat
      <3>1. PICK i \in Nat : i = hnid.index
        BY <2>1
      <3>2. PICK p \in Nat : p = pageMapOffset
        BY <2>1
      <3>3. PICK b \in Nat : b = blockOffset
        BY <2>2
      <3>4. Item!AllocationOffset = b + p + 2 * i + 2
        BY <3>1, <3>2, <3>3 DEF Item!AllocationOffset
      <3> QED BY <3>4
    <2>4. hnid \in HNIDs
      BY <1>0 DEF PlaceOfItem
    <2>5. CASE Item!ReadPageMapOffset
      <3>1. Item!Sound /\ Item!Addresses =>
              blockOffset + 2 <= Item!Size /\ Item!Words(blockOffset) = {Expected("map")}
        BY <1>a, <2>1, <2>4, PageMapReads DEF Expected
      <3> QED BY <2>2, <2>5, <3>1, ItemRead DEF Item!ReadPageMapOffset
    <2>6. CASE Item!ReadStart
      <3>1. Item!Sound /\ Item!Addresses =>
              /\ Item!AllocationOffset + 2 <= Item!Size
              /\ Item!Words(Item!AllocationOffset) = {Expected("start")}
        <4>1. Item!Sound /\ Item!Addresses => pageMapOffset = heap[hnid.block + 1].map
          BY <1>0, <2>6 DEF Item!ReadStart, WordsRead
        <4> QED BY <1>a, <2>1, <2>4, <4>1, PageMapReads DEF Expected, Item!AllocationOffset
      <3> QED BY <2>3, <2>6, <3>1, ItemRead DEF Item!ReadStart
    <2>7. CASE Item!ReadEnd
      <3>1. Item!Sound /\ Item!Addresses =>
              /\ Item!AllocationOffset + 2 + 2 <= Item!Size
              /\ Item!Words(Item!AllocationOffset + 2) = {Expected("end")}
        <4>1. Item!Sound /\ Item!Addresses => pageMapOffset = heap[hnid.block + 1].map
          BY <1>0, <2>7 DEF Item!ReadEnd, WordsRead
        <4>2. Item!AllocationOffset + 2 + 2 = Item!AllocationOffset + 4
          BY <2>3
        <4> QED BY <1>a, <2>1, <2>4, <4>1, <4>2, PageMapReads DEF Expected, Item!AllocationOffset
      <3> QED BY <2>3, <2>7, <3>1, ItemRead DEF Item!ReadEnd
    <2> QED BY <1>5, <2>5, <2>6, <2>7
  <1>6. CASE Item!ReturnItem
    <2>1. faults' \in 0..MaxFaults
      BY <1>0, <1>6 DEF Item!ReturnItem, PlaceOfItem, Item!ReadOK
    <2> QED BY <1>6, <2>1, ItemReturn DEF Item!ReturnItem
  <1> QED BY <1>1, <1>2, <1>3, <1>4, <1>5, <1>6 DEF Next, GoesOn, Ask, Item!Next

\* For every heap, list of descriptors and identifier: a node with the identifier goes
\* before an item, an item is the one its own block has at that index, and a call fails
\* only for a reason (heap_on_node.go, GetHeapOnNodeReaderFromHNID).
THEOREM ItemsAreResolved == Spec => []ItemResolved
  <1> DEFINE Inv == call = "item" => ItemInv
  <1>1. Init => Inv
    BY ItemInit
  <1>2. Inv /\ [Next]_vars => Inv'
    <2>1. [Next]_vars => call' = call
      BY DEF Next, GoesOn, Ask, vars
    <2> QED BY <2>1, ItemStep
  <1>3. Inv => ItemResolved
    BY DEF ItemResolved, ItemInv
  <1> QED BY <1>1, <1>2, <1>3, PTL DEF Spec

LEMMA ItemTyped ==
  ASSUME ItemInv
  PROVE  Item!TypeOK
  BY DEF ItemInv, PlaceOfItem, Item!TypeOK

----------------------------------------------------------------------------
(* TableRows.                                                              *)

\* Where a call is.
PlaceInTable ==
  /\ table \in Tables /\ pc \in {"info", "columns", "row", "cell", "folders", "done"}
  /\ result \in {"none", "ok", "error", "panic"} /\ (pc = "done" <=> result # "none")
  /\ faults \in 0..MaxFaults
  /\ column \in 0..Len(table.columns) /\ bits \subseteq 0..255
  /\ rows \in Seq(Seq(Rows!CellOf)) /\ folders \in Seq(SUBSET Rows!CellOf)
  /\ Len(folders) <= Len(rows) /\ cell \in 0..Len(wanted)
  /\ pc \in {"info", "columns"} => rows = <<>> /\ cell = 0
  /\ pc = "info" => column = 0
  /\ pc \in {"row", "cell", "folders"} => table.rowSize # 0 /\ column = Len(table.columns)
  /\ pc = "row" => Len(rows) <= Rows!RowCount
  /\ pc = "cell" => Len(rows) \in 1..Rows!RowCount
  /\ pc = "folders" \/ result = "ok" => Len(rows) = Rows!RowCount
  /\ pc \in {"info", "columns", "row", "cell"} => folders = <<>>
  /\ result = "ok" => Len(folders) = Len(rows)

\* The wanted columns, in order.
Wants(i) == PropertyIDs = {} \/ table.columns[i].id \in PropertyIDs

WantedInv ==
  /\ wanted \in Seq(1..Len(table.columns))
  /\ \A k \in 1..Len(wanted) : wanted[k] <= column /\ Wants(wanted[k])
  /\ \A j, k \in 1..Len(wanted) : j < k => wanted[j] < wanted[k]
  /\ \A i \in 1..column : Wants(i) => \E k \in 1..Len(wanted) : wanted[k] = i

\* The last column of which the current row has been given its cell.
LastColumn == IF cell = 0 THEN 0 ELSE wanted[cell]

\* What has been read of a table that is laid out.
RowsRead ==
  Rows!LaidOut =>
    /\ \A r \in 1..Len(rows) :
         pc \in {"row", "folders"} \/ result = "ok" \/ r < Len(rows) => rows[r] = Rows!CellsOf(r)
    /\ pc = "cell" =>
         /\ bits = table.present[Len(rows)]
         /\ rows[Len(rows)] = Rows!Cells(Len(rows))[LastColumn]

FoldersMade == \A k \in 1..Len(folders) : folders[k] = Rows!ToSet(rows[k])

\* Why a table that is laid out gives an error.
ErrorReasons ==
  \/ faults > 0
  \/ ~ table.type \/ ~ table.signature \/ ~ table.hasRows \/ table.columns = <<>>
  \/ \E r \in DOMAIN table.present :
       /\ table.name[r] # "sound"
       /\ \E c \in Rows!ToSet(Rows!CellsOf(r)) : c.id = Rows!NameID

ErrorJustified == Rows!LaidOut /\ result = "error" => ErrorReasons

RowsInv ==
  PlaceInTable /\ WantedInv /\ RowsRead /\ FoldersMade /\ ErrorJustified /\ Rows!PanicsExplained

\* What division by S > 0 gives.
LEMMA Quotient ==
  ASSUME NEW S \in Nat \ {0}, NEW o \in Nat
  PROVE  /\ o \div S \in Nat /\ o % S \in 0..(S - 1) /\ o % S \in Nat /\ o % S < S
         /\ o = (o \div S) * S + (o % S)
  <1>1. PICK q \in Int : q = o \div S
    OBVIOUS
  <1>2. PICK r \in Int : r = o % S /\ r \in 0..(S - 1) /\ o = q * S + r
    BY <1>1
  <1>3. q \in Nat
    <2> SUFFICES ASSUME q <= -1 PROVE FALSE
      OBVIOUS
    <2>1. PICK e \in Nat : q = - e - 1
      <3>1. - q - 1 \in Nat /\ q = - (- q - 1) - 1
        OBVIOUS
      <3> QED BY <3>1
    <2>2. e * S \in Nat /\ o = - (e * S) - S + r
      BY <1>2, <2>1
    <2> QED BY <1>2, <2>2
  <1>4. r \in Nat /\ r < S
    BY <1>2
  <1> QED BY <1>1, <1>2, <1>3, <1>4

LEMMA KeyQuotient ==
  ASSUME NEW S \in Nat \ {0}, NEW a \in Nat, NEW i \in 0..(S - 1)
  PROVE  (a * S + i) \div S = a /\ (a * S + i) % S = i
  <1>1. PICK o \in Nat : o = a * S + i
    <2>1. a * S \in Nat
      OBVIOUS
    <2> QED BY <2>1
  <1>2. PICK q \in Nat, r \in 0..(S - 1) : q = o \div S /\ r = o % S /\ o = q * S + r
    BY Quotient
  <1>3. q = a /\ r = i
    BY <1>1, <1>2, KeyParts
  <1>4. o \div S = a /\ o % S = i
    BY <1>2, <1>3
  <1> QED BY <1>1, <1>4

\* Multiples of S are ordered as their factors.
LEMMA MultiplesOrdered ==
  ASSUME NEW S \in Nat, NEW a \in Nat, NEW b \in Nat
  PROVE  /\ a * S \in Nat /\ (a + 1) * S = a * S + S
         /\ a <= b => a * S <= b * S
         /\ a * S < b * S => a < b
  <1>1. a * S \in Nat /\ b * S \in Nat /\ (a + 1) * S = a * S + S
    OBVIOUS
  <1>2. ASSUME a <= b
        PROVE  a * S <= b * S
    <2>1. PICK d \in Nat : b = a + d
      <3>1. b - a \in Nat /\ b = a + (b - a)
        BY <1>2
      <3> QED BY <3>1
    <2>2. d * S \in Nat /\ b * S = a * S + d * S
      BY <2>1
    <2> QED BY <1>1, <2>2
  <1>3. ASSUME b <= a
        PROVE  b * S <= a * S
    <2>1. PICK d \in Nat : a = b + d
      <3>1. a - b \in Nat /\ a = b + (a - b)
        BY <1>3
      <3> QED BY <3>1
    <2>2. d * S \in Nat /\ a * S = b * S + d * S
      BY <2>1
    <2> QED BY <1>1, <2>2
  <1>4. a * S < b * S => a < b
    <2> SUFFICES ASSUME a * S < b * S, ~ (a < b)
                 PROVE  FALSE
      OBVIOUS
    <2>1. b <= a
      OBVIOUS
    <2>2. PICK u \in Nat, v \in Nat : u = a * S /\ v = b * S
      BY <1>1
    <2>3. v <= u /\ u < v
      BY <1>3, <2>1, <2>2
    <2> QED BY <2>3
  <1> QED BY <1>1, <1>2, <1>4

\* A sequence can be built from the values at the numbers in W.
Selects(f, N, W, val) ==
  /\ f = [n \in 0..N |-> f[n]] /\ f[0] = <<>>
  /\ \A n \in 1..N : f[n] = IF n \in W THEN Append(f[n - 1], val[n]) ELSE f[n - 1]

LEMMA SelectionsExist ==
  ASSUME NEW N \in Nat, NEW W, NEW val
  PROVE  \E f : Selects(f, N, W, val)
  <1> DEFINE T == {k \in Nat : \E f : Selects(f, k, W, val)}
  <1>1. 0 \in T
    <2> DEFINE f == [n \in 0..0 |-> <<>>]
    <2>1. Selects(f, 0, W, val)
      BY DEF Selects
    <2> QED BY <2>1
  <1>2. ASSUME NEW k \in Nat, k \in T
        PROVE  k + 1 \in T
    <2>1. PICK f : Selects(f, k, W, val)
      BY <1>2
    <2> DEFINE last == IF k + 1 \in W THEN Append(f[k], val[k + 1]) ELSE f[k]
               g == [n \in 0..(k + 1) |-> IF n = k + 1 THEN last ELSE f[n]]
    <2>2. /\ \A n \in 0..k : g[n] = f[n]
          /\ g[k + 1] = last /\ g = [n \in 0..(k + 1) |-> g[n]]
      <3>1. \A n \in 0..k : n # k + 1 /\ n \in 0..(k + 1)
        OBVIOUS
      <3>2. k + 1 \in 0..(k + 1)
        OBVIOUS
      <3> QED BY <3>1, <3>2
    <2> HIDE DEF g
    <2>3. ASSUME NEW n \in 1..(k + 1)
          PROVE  g[n] = IF n \in W THEN Append(g[n - 1], val[n]) ELSE g[n - 1]
      <3>1. CASE n = k + 1
        <4>1. n - 1 = k /\ k \in 0..k
          BY <3>1
        <4> QED BY <2>2, <3>1, <4>1
      <3>2. CASE n # k + 1
        <4>1. n \in 1..k /\ n \in 0..k /\ n - 1 \in 0..k
          BY <3>2
        <4> QED BY <2>1, <2>2, <4>1 DEF Selects
      <3> QED BY <3>1, <3>2
    <2>4. g[0] = <<>>
      <3>1. 0 \in 0..k
        OBVIOUS
      <3> QED BY <2>1, <2>2, <3>1 DEF Selects
    <2>5. Selects(g, k + 1, W, val)
      BY <2>2, <2>3, <2>4 DEF Selects
    <2> QED BY <2>5
  <1> HIDE DEF T
  <1>3. Nat \subseteq T
    BY <1>1, <1>2, NatSetInduction
  <1> QED BY <1>3 DEF T

LEMMA CellsEquation ==
  ASSUME Len(table.columns) \in Nat, NEW r
  PROVE  /\ Rows!Cells(r)[0] = <<>>
         /\ \A n \in 1..Len(table.columns) :
              Rows!Cells(r)[n] =
                IF Rows!HasCell(r, table.columns[n])
                THEN Append(Rows!Cells(r)[n - 1], Rows!CellIn(r, table.columns[n]))
                ELSE Rows!Cells(r)[n - 1]
  <1> DEFINE N == Len(table.columns)
             W == {n \in 1..N : Rows!HasCell(r, table.columns[n])}
             val == [n \in 1..N |-> Rows!CellIn(r, table.columns[n])]
             Value(f, n) == IF n = 0 THEN <<>>
                            ELSE IF Rows!HasCell(r, table.columns[n])
                                 THEN Append(f[n - 1], Rows!CellIn(r, table.columns[n]))
                                 ELSE f[n - 1]
             Equation(f) == f = [n \in 0..N |-> Value(f, n)]
  <1>1. PICK f : Selects(f, N, W, val)
    BY SelectionsExist
  <1>2. Equation(f)
    <2>1. ASSUME NEW n \in 0..N
          PROVE  f[n] = Value(f, n)
      <3>1. n = 0 \/ n \in 1..N
        OBVIOUS
      <3> QED BY <1>1, <3>1 DEF Selects
    <2>2. f = [n \in 0..N |-> f[n]]
      BY <1>1 DEF Selects
    <2> HIDE DEF Value
    <2> QED BY <2>1, <2>2
  <1>3. Rows!Cells(r) = CHOOSE g : Equation(g)
    BY DEF Rows!Cells
  <1>4. Equation(Rows!Cells(r))
    <2> HIDE DEF Equation
    <2> QED BY <1>2, <1>3
  <1>5. PICK cells : cells = Rows!Cells(r) /\ Equation(cells)
    BY <1>4
  <1>6. cells[0] = <<>>
    BY <1>5
  <1>7. ASSUME NEW n \in 1..N
        PROVE  cells[n] = IF Rows!HasCell(r, table.columns[n])
                          THEN Append(cells[n - 1], Rows!CellIn(r, table.columns[n]))
                          ELSE cells[n - 1]
    <2>1. n \in 0..N /\ n # 0
      OBVIOUS
    <2> QED BY <1>5, <2>1
  <1> HIDE DEF Equation
  <1> QED BY <1>5, <1>6, <1>7

LEMMA CellsOfColumns ==
  ASSUME Len(table.columns) \in Nat, NEW r
  PROVE  \A n \in 0..Len(table.columns) :
           Rows!Cells(r)[n] \in
             Seq({Rows!CellIn(r, table.columns[i]) : i \in 1..Len(table.columns)})
  <1> DEFINE N == Len(table.columns)
             V == {Rows!CellIn(r, table.columns[i]) : i \in 1..N}
             T == {n \in Nat : n <= N => Rows!Cells(r)[n] \in Seq(V)}
  <1>1. 0 \in T
    <2> HIDE DEF V
    <2>1. <<>> \in Seq(V)
      BY EmptySeq
    <2> QED BY <2>1, CellsEquation
  <1>2. ASSUME NEW n \in Nat, n \in T
        PROVE  n + 1 \in T
    <2>1. CASE n + 1 <= N
      <3>1. n + 1 \in 1..N /\ (n + 1) - 1 = n /\ n <= N
        BY <2>1
      <3>2. Rows!CellIn(r, table.columns[n + 1]) \in V /\ Rows!Cells(r)[n] \in Seq(V)
        BY <1>2, <3>1
      <3> HIDE DEF V
      <3>3. Append(Rows!Cells(r)[n], Rows!CellIn(r, table.columns[n + 1])) \in Seq(V)
        BY <3>2, AppendProperties
      <3>4. Rows!Cells(r)[n + 1] = Append(Rows!Cells(r)[n], Rows!CellIn(r, table.columns[n + 1]))
            \/ Rows!Cells(r)[n + 1] = Rows!Cells(r)[n]
        BY <3>1, CellsEquation
      <3> QED BY <3>2, <3>3, <3>4, SMTT(30)
    <2>2. CASE ~ (n + 1 <= N)
      BY <2>2
    <2> QED BY <2>1, <2>2
  <1>3. \A n \in 0..N : n \in T
    <2> HIDE DEF T
    <2> QED BY <1>1, <1>2, NatSetInduction
  <1> QED BY <1>3

\* Columns in which the row has no cell add none.
LEMMA CellsSkip ==
  ASSUME Len(table.columns) \in Nat, NEW r, NEW a \in Nat, NEW b \in Nat,
         a <= b, b <= Len(table.columns),
         \A i \in (a + 1)..b : ~ Rows!HasCell(r, table.columns[i])
  PROVE  Rows!Cells(r)[b] = Rows!Cells(r)[a]
  <1> DEFINE T == {n \in Nat : a <= n /\ n <= b => Rows!Cells(r)[n] = Rows!Cells(r)[a]}
  <1>1. 0 \in T
    <2>1. a <= 0 => a = 0
      OBVIOUS
    <2> QED BY <2>1
  <1>2. ASSUME NEW n \in Nat, n \in T
        PROVE  n + 1 \in T
    <2>1. CASE a <= n /\ n + 1 <= b
      <3>1. n + 1 \in 1..Len(table.columns) /\ n + 1 \in (a + 1)..b /\ (n + 1) - 1 = n /\ n <= b
        BY <2>1
      <3> QED BY <1>2, <2>1, <3>1, CellsEquation
    <2>2. CASE n + 1 = a
      BY <2>2
    <2>3. CASE ~ (a <= n + 1 /\ n + 1 <= b)
      BY <2>3
    <2> QED BY <2>1, <2>2, <2>3
  <1>3. b \in T
    <2> HIDE DEF T
    <2> QED BY <1>1, <1>2, NatSetInduction
  <1> QED BY <1>3

\* What a table is made of.
LEMMA TableTypes ==
  ASSUME table \in Tables
  PROVE  /\ BlockBytes \in Nat \ {0} /\ MaxFaults \in Nat
         /\ table.bitmap \in Nat /\ table.size \in Nat
         /\ table.rowSize \in Nat
         /\ table.columns \in Seq(Rows!Column) /\ Len(table.columns) \in 0..255
         /\ DOMAIN table.columns = 1..Len(table.columns)
         /\ \A i \in 1..Len(table.columns) : table.columns[i] \in Rows!Column
         /\ table.present \in Seq(SUBSET (0..255)) /\ Len(table.present) \in Nat
         /\ DOMAIN table.present = 1..Len(table.present)
         /\ \A r \in 1..Len(table.present) : table.present[r] \subseteq 0..255
         /\ Len(table.matrix) \in Nat /\ DOMAIN table.matrix = 1..Len(table.matrix)
         /\ table.size <= Len(table.matrix) * BlockBytes
         /\ \A b \in 1..Len(table.matrix) :
              /\ Len(table.matrix[b]) \in Nat
              /\ DOMAIN table.matrix[b] = 1..Len(table.matrix[b])
              /\ \A j \in 1..Len(table.matrix[b]) :
                   table.matrix[b][j] \in 1..Len(table.present)
         /\ Len(table.name) = Len(table.present)
  <1>1. /\ table \in Rows!Table /\ BlockBytes \in Nat \ {0} /\ MaxFaults \in Nat
        /\ Len(table.columns) <= 255 /\ Len(table.name) = Len(table.present)
        /\ table.size <= Len(table.matrix) * BlockBytes
        /\ \A b \in DOMAIN table.matrix : table.matrix[b] \in Seq(DOMAIN table.present)
    BY RowsAssumptions DEF Rows!BoundsAssumption, Rows!TablesAssumption
  <1>a. table.rowSize \in Rows!Uint16
    BY <1>1 DEF Rows!Table
  <1>b. table.bitmap \in Nat
    BY <1>1 DEF Rows!Table
  <1>c. table.size \in Nat
    BY <1>1 DEF Rows!Table
  <1>d. table.columns \in Seq(Rows!Column)
    BY <1>1 DEF Rows!Table
  <1>e. table.present \in Seq(SUBSET (0..255))
    BY <1>1 DEF Rows!Table
  <1>f. table.matrix \in Seq(Seq(Nat))
    BY <1>1 DEF Rows!Table
  <1>3. table.rowSize \in Nat
    <2>1. \A n \in Rows!Uint16 : n \in Nat
      BY SMTT(30) DEF Rows!Uint16
    <2> QED BY <1>a, <2>1
  <1>4. /\ Len(table.columns) \in Nat /\ DOMAIN table.columns = 1..Len(table.columns)
        /\ \A i \in 1..Len(table.columns) : table.columns[i] \in Rows!Column
    BY <1>d, LenProperties, ElementOfSeq
  <1>5. Len(table.columns) \in 0..255
    <2>1. \A n \in Nat : n <= 255 => n \in 0..255
      OBVIOUS
    <2> QED BY <1>1, <1>4, <2>1
  <1>6. /\ Len(table.present) \in Nat /\ DOMAIN table.present = 1..Len(table.present)
        /\ \A r \in 1..Len(table.present) : table.present[r] \subseteq 0..255
    <2>1. Len(table.present) \in Nat /\ DOMAIN table.present = 1..Len(table.present)
      BY <1>e, LenProperties
    <2>2. \A r \in 1..Len(table.present) : table.present[r] \in SUBSET (0..255)
      BY <1>e, ElementOfSeq
    <2> QED BY <2>1, <2>2
  <1>7. Len(table.matrix) \in Nat /\ DOMAIN table.matrix = 1..Len(table.matrix)
    BY <1>f, LenProperties
  <1>8. ASSUME NEW b \in 1..Len(table.matrix)
        PROVE  /\ Len(table.matrix[b]) \in Nat
               /\ DOMAIN table.matrix[b] = 1..Len(table.matrix[b])
               /\ \A j \in 1..Len(table.matrix[b]) : table.matrix[b][j] \in 1..Len(table.present)
    <2>1. table.matrix[b] \in Seq(1..Len(table.present))
      BY <1>1, <1>6, <1>7
    <2> QED BY <2>1, LenProperties, ElementOfSeq
  <1> QED BY <1>1, <1>a, <1>b, <1>c, <1>d, <1>e, <1>f, <1>3, <1>4, <1>5, <1>6, <1>7, <1>8

\* A read of the matrix finds a row of the table, at a place in it, or padding.
LEMMA PlaceTyped ==
  ASSUME table \in Tables, table.rowSize # 0, NEW o \in Nat, o < table.size
  PROVE  \/ Rows!Place(o) = Rows!Padding
         \/ \E r \in 1..Len(table.present), n \in Nat : Rows!Place(o) = <<r, n>>
  <1> DEFINE R == table.rowSize
             L == Len(table.matrix)
  <1>1. PICK B \in Nat \ {0} : B = BlockBytes
    BY TableTypes
  <1>2. PICK q \in Nat, x \in Nat : q = o \div B /\ x = o % B /\ o = q * B + x
    <2>1. o \div B \in Nat /\ o % B \in Nat /\ o = (o \div B) * B + (o % B)
      BY Quotient
    <2> QED BY <2>1
  <1>3. PICK j \in Nat, n \in Nat : j = x \div R /\ n = x % R
    <2>1. R \in Nat \ {0}
      BY TableTypes
    <2> HIDE DEF R
    <2> QED BY <2>1, Quotient
  <1>4. q + 1 \in 1..L
    <2>1. PICK l \in Nat, s \in Nat : l = L /\ s = table.size /\ s <= l * B /\ o < s
      BY <1>1, TableTypes
    <2>2. q * B \in Nat /\ l * B \in Nat
      BY MultiplesOrdered
    <2>3. q * B < l * B
      BY <1>2, <2>1, <2>2
    <2>4. q < l
      BY <2>3, MultiplesOrdered
    <2> QED BY <2>1, <2>4
  <1>5. Rows!Place(o) = IF j + 1 <= Len(table.matrix[q + 1])
                        THEN <<table.matrix[q + 1][j + 1], n>> ELSE Rows!Padding
    BY <1>1, <1>2, <1>3 DEF Rows!Place
  <1>6. CASE j + 1 <= Len(table.matrix[q + 1])
    <2>1. j + 1 \in 1..Len(table.matrix[q + 1])
      BY <1>4, <1>6, TableTypes
    <2>2. table.matrix[q + 1][j + 1] \in 1..Len(table.present)
      BY <1>4, <2>1, TableTypes
    <2> QED BY <1>5, <1>6, <2>2
  <1> QED BY <1>5, <1>6

\* Rows of R bytes in B bytes: at least one if a row fits, and they end where B does.
LEMMA RowsFit ==
  ASSUME NEW B \in Nat, NEW R \in 1..B
  PROVE  /\ B \div R \in Nat \ {0} /\ (B \div R) * R <= B
         /\ \A n \in 0..B : n \div R \in 0..(B \div R) /\ (n \div R) * R <= n
  <1>1. PICK p \in Nat, x \in 0..(R - 1) : p = B \div R /\ B = p * R + x
    BY Quotient
  <1>2. p # 0
    <2> SUFFICES ASSUME p = 0 PROVE FALSE
      OBVIOUS
    <2>1. p * R = 0
      OBVIOUS
    <2> QED BY <1>1, <2>1
  <1>3. p * R \in Nat /\ p * R <= B
    BY <1>1, MultiplesOrdered
  <1>4. ASSUME NEW n \in 0..B
        PROVE  n \div R \in 0..p /\ (n \div R) * R <= n
    <2>1. PICK q \in Nat, y \in 0..(R - 1) : q = n \div R /\ n = q * R + y
      BY Quotient
    <2>2. q * R \in Nat /\ (p + 1) * R = p * R + R /\ (p + 1) * R \in Nat
      BY MultiplesOrdered
    <2>3. q * R < (p + 1) * R
      BY <1>1, <1>3, <2>1, <2>2
    <2>4. q < p + 1
      BY <2>3, MultiplesOrdered
    <2>5. q * R <= n
      BY <2>1, <2>2
    <2> QED BY <2>1, <2>4, <2>5
  <1> QED BY <1>1, <1>2, <1>3, <1>4

\* The sizes of a table that is laid out.
LEMMA Geometry ==
  ASSUME table \in Tables, Rows!LaidOut
  PROVE  /\ table.rowSize \in 1..BlockBytes /\ Rows!RowsPerBlock \in Nat \ {0}
         /\ Rows!RowsPerBlock * table.rowSize <= BlockBytes
         /\ Len(table.matrix) = 0 => table.size = 0 /\ Len(table.present) = 0
         /\ Len(table.matrix) # 0 =>
              /\ Rows!BytesInLast \in 1..BlockBytes
              /\ Rows!RowsInLast \in 0..Rows!RowsPerBlock
              /\ Rows!RowsInLast * table.rowSize <= Rows!BytesInLast
              /\ table.size = (Len(table.matrix) - 1) * BlockBytes + Rows!BytesInLast
              /\ Len(table.present) = (Len(table.matrix) - 1) * Rows!RowsPerBlock + Rows!RowsInLast
  <1>1. /\ BlockBytes \in Nat /\ Len(table.matrix) \in Nat /\ table.size \in Nat
        /\ table.rowSize \in 1..BlockBytes
    BY TableTypes DEF Rows!LaidOut
  <1>2. Rows!RowsPerBlock \in Nat \ {0} /\ Rows!RowsPerBlock * table.rowSize <= BlockBytes
    BY <1>1, RowsFit DEF Rows!RowsPerBlock
  <1>3. ASSUME Len(table.matrix) = 0
        PROVE  table.size = 0 /\ Len(table.present) = 0
    <2>1. table.matrix \in Seq(Seq(Nat))
      <3>1. table \in Rows!Table
        BY RowsAssumptions DEF Rows!TablesAssumption
      <3> QED BY <3>1 DEF Rows!Table
    <2>2. table.matrix = <<>>
      BY <1>3, <2>1, EmptySeq
    <2> QED BY <2>2, EmptySeq DEF Rows!LaidOut
  <1>4. ASSUME Len(table.matrix) # 0
        PROVE  /\ Rows!BytesInLast \in 1..BlockBytes
               /\ Rows!RowsInLast \in 0..Rows!RowsPerBlock
               /\ Rows!RowsInLast * table.rowSize <= Rows!BytesInLast
               /\ table.size = (Len(table.matrix) - 1) * BlockBytes + Rows!BytesInLast
               /\ Len(table.present) =
                    (Len(table.matrix) - 1) * Rows!RowsPerBlock + Rows!RowsInLast
    <2>1. table.matrix # <<>>
      BY <1>4, EmptySeq
    <2>2. /\ Rows!BytesInLast \in 1..BlockBytes
          /\ Len(table.present) = (Len(table.matrix) - 1) * Rows!RowsPerBlock + Rows!RowsInLast
      BY <2>1 DEF Rows!LaidOut
    <2>3. Rows!RowsInLast \in 0..Rows!RowsPerBlock
          /\ Rows!RowsInLast * table.rowSize <= Rows!BytesInLast
      <3>1. PICK n \in 0..BlockBytes : n = Rows!BytesInLast
        BY <1>1, <2>2
      <3>2. n \div table.rowSize \in 0..(BlockBytes \div table.rowSize)
            /\ (n \div table.rowSize) * table.rowSize <= n
        BY <1>1, RowsFit
      <3> QED BY <3>1, <3>2 DEF Rows!RowsInLast, Rows!RowsPerBlock
    <2>4. table.size = (Len(table.matrix) - 1) * BlockBytes + Rows!BytesInLast
      <3>1. PICK m \in Int : m = (Len(table.matrix) - 1) * BlockBytes
        BY <1>1
      <3>2. Rows!BytesInLast = table.size - m
        BY <3>1 DEF Rows!BytesInLast
      <3> QED BY <1>1, <3>1, <3>2
    <2> QED BY <2>2, <2>3, <2>4
  <1> QED BY <1>1, <1>2, <1>3, <1>4

\* The code counts the rows the table has.
LEMMA RowsCounted ==
  ASSUME table \in Tables, Rows!LaidOut
  PROVE  Rows!RowCount = Len(table.present)
  <1>1. PICK B \in Nat \ {0}, R \in Nat \ {0}, P \in Nat \ {0}, L \in Nat, size \in Nat :
          /\ R \in 1..B /\ B = BlockBytes /\ R = table.rowSize /\ P = Rows!RowsPerBlock
          /\ L = Len(table.matrix) /\ size = table.size /\ P = B \div R
    <2>1. /\ BlockBytes \in Nat \ {0} /\ table.rowSize \in 1..BlockBytes
          /\ table.rowSize \in Nat /\ Rows!RowsPerBlock \in Nat \ {0}
          /\ Len(table.matrix) \in Nat /\ table.size \in Nat
      BY Geometry, TableTypes
    <2>2. \A R \in Nat, B \in Nat : R \in 1..B => R # 0
      OBVIOUS
    <2>3. table.rowSize \in Nat \ {0} /\ Rows!RowsPerBlock = BlockBytes \div table.rowSize
      BY <2>1, <2>2 DEF Rows!RowsPerBlock
    <2> QED BY <2>1, <2>3
  <1>2. Rows!RowCount = (size \div B) * P + ((size % B) \div R)
    BY <1>1 DEF Rows!RowCount
  <1>3. R \in Nat \ {0} /\ 0 \div R = 0
    <2>1. R \in Nat \ {0} /\ 0 \in 0..(R - 1) /\ 0 * R + 0 = 0
      OBVIOUS
    <2>2. (0 * R + 0) \div R = 0
      BY <2>1, KeyQuotient
    <2> QED BY <2>1, <2>2
  <1>4. CASE L = 0
    <2>1. size = 0 * B + 0 /\ Len(table.present) = 0 /\ 0 \in 0..(B - 1)
      BY <1>1, <1>4, Geometry
    <2>2. size \div B = 0 /\ size % B = 0
      BY <2>1, KeyQuotient
    <2>3. 0 * P + 0 = 0
      OBVIOUS
    <2> QED BY <1>2, <1>3, <2>1, <2>2, <2>3
  <1>5. CASE L # 0
    <2>1. PICK m \in Nat : m = L - 1
      BY <1>5
    <2>2. PICK last \in 1..B, rl \in Nat :
            /\ last = Rows!BytesInLast /\ rl = Rows!RowsInLast
            /\ size = m * B + last /\ Len(table.present) = m * P + rl
      BY <1>1, <1>5, <2>1, Geometry
    <2>3. rl = last \div R
      BY <1>1, <2>2 DEF Rows!RowsInLast
    <2>4. CASE last < B
      <3>1. last \in 0..(B - 1)
        BY <2>4
      <3>2. size \div B = m /\ size % B = last
        BY <2>2, <3>1, KeyQuotient
      <3> QED BY <1>2, <2>2, <2>3, <3>2
    <2>5. CASE last = B
      <3>1. size = (m + 1) * B + 0 /\ 0 \in 0..(B - 1) /\ m + 1 \in Nat
        BY <2>2, <2>5, MultiplesOrdered
      <3>2. size \div B = m + 1 /\ size % B = 0
        BY <3>1, KeyQuotient
      <3>3. (m + 1) * P = m * P + P /\ m * P \in Nat
        BY MultiplesOrdered
      <3>4. rl = P
        BY <1>1, <2>3, <2>5
      <3>5. Rows!RowCount = (m + 1) * P + 0
        BY <1>2, <1>3, <3>2
      <3>6. PICK mp \in Nat : mp = m * P
        BY <3>3
      <3>7. Rows!RowCount = mp + P /\ Len(table.present) = mp + P
        BY <2>2, <3>3, <3>4, <3>5, <3>6
      <3> QED BY <3>7
    <2> QED BY <2>4, <2>5
  <1> QED BY <1>4, <1>5

\* Byte c of row k, counted from 0, is where the code looks for it.
LEMMA RowPlace ==
  ASSUME table \in Tables, Rows!LaidOut,
         NEW k \in Nat, k < Len(table.present), NEW c \in Nat, c < table.rowSize
  PROVE  /\ Rows!RowOffset(k) + c \in Nat /\ Rows!RowOffset(k) + c < table.size
         /\ Rows!Place(Rows!RowOffset(k) + c) = <<k + 1, c>>
  <1>1. PICK B \in Nat \ {0}, R \in Nat \ {0}, P \in Nat \ {0}, L \in Nat, size \in Nat :
          /\ R \in 1..B /\ B = BlockBytes /\ R = table.rowSize /\ P = Rows!RowsPerBlock
          /\ L = Len(table.matrix) /\ size = table.size /\ P * R <= B
    <2>1. /\ BlockBytes \in Nat \ {0} /\ table.rowSize \in 1..BlockBytes
          /\ table.rowSize \in Nat /\ Rows!RowsPerBlock \in Nat \ {0}
          /\ Len(table.matrix) \in Nat /\ table.size \in Nat
          /\ Rows!RowsPerBlock * table.rowSize <= BlockBytes
      BY Geometry, TableTypes
    <2>2. \A R \in Nat, B \in Nat : R \in 1..B => R # 0
      OBVIOUS
    <2>3. table.rowSize \in Nat \ {0}
      BY <2>1, <2>2
    <2> QED BY <2>1, <2>3
  <1>2. PICK q \in Nat, j \in Nat : /\ q = k \div P /\ j = k % P /\ j < P
                                    /\ k = q * P + j
    <2>1. k \div P \in Nat /\ k % P \in Nat /\ k % P < P /\ k = (k \div P) * P + (k % P)
      BY Quotient
    <2> QED BY <2>1
  <1>3. L # 0
    BY <1>1, Geometry
  <1>4. PICK m \in Nat : m + 1 = L /\ m = L - 1
    BY <1>3
  <1>5. PICK last \in 1..B, rl \in 0..P :
          /\ last = Rows!BytesInLast /\ rl = Rows!RowsInLast /\ rl * R <= last
          /\ size = m * B + last /\ Len(table.present) = m * P + rl
    BY <1>1, <1>3, <1>4, Geometry
  <1>6. q < m \/ (q = m /\ j < rl)
    <2>1. q * P \in Nat /\ m * P \in Nat /\ (m + 1) * P = m * P + P
      BY MultiplesOrdered
    <2>2. PICK qp \in Nat, mp \in Nat : qp = q * P /\ mp = m * P
      BY <2>1
    <2>3. qp + j < mp + rl
      BY <1>2, <1>5, <2>2
    <2>4. qp < mp + P
      BY <1>2, <2>3
    <2>5. q * P < (m + 1) * P
      BY <2>1, <2>2, <2>4
    <2>6. q < m + 1
      BY <2>5, MultiplesOrdered
    <2>7. q = m => qp = mp
      BY <2>2
    <2> QED BY <2>3, <2>6, <2>7
  <1>7. PICK x \in Nat : /\ x = j * R + c /\ x < B /\ (q = m => x < last)
                         /\ x \div R = j /\ x % R = c
    <2>1. R \in Nat \ {0} /\ c \in 0..(R - 1) /\ j + 1 \in Nat
      BY <1>1
    <2>2. PICK jr \in Nat : jr = j * R /\ (j + 1) * R = jr + R
      BY <2>1, MultiplesOrdered
    <2>3. (j * R + c) \div R = j /\ (j * R + c) % R = c
      BY <2>1, KeyQuotient
    <2>4. PICK pr \in Nat : pr = P * R
      BY <2>1, MultiplesOrdered
    <2>5. (j + 1) * R <= P * R
      BY <1>2, <2>1, MultiplesOrdered
    <2>6. jr + c < B
      <3>1. jr + R <= pr /\ pr <= B /\ c < R
        BY <1>1, <2>1, <2>2, <2>4, <2>5
      <3> QED BY <3>1
    <2>7. q = m => jr + c < last
      <3> SUFFICES ASSUME q = m PROVE jr + c < last
        OBVIOUS
      <3>1. PICK rr \in Nat : rr = rl * R
        BY <2>1, MultiplesOrdered
      <3>2. j + 1 <= rl
        BY <1>6
      <3>3. (j + 1) * R <= rl * R
        BY <2>1, <3>2, MultiplesOrdered
      <3> QED BY <1>5, <2>1, <2>2, <3>1, <3>3
    <2> QED BY <2>2, <2>3, <2>6, <2>7
  <1>8. PICK o \in Nat : o = q * B + x /\ o \div B = q /\ o % B = x
    <2>1. x \in 0..(B - 1)
      BY <1>7
    <2>2. q * B \in Nat
      BY MultiplesOrdered
    <2> QED BY <2>1, <2>2, KeyQuotient
  <1>9. Rows!RowOffset(k) + c = o
    <2>1. Rows!RowOffset(k) = q * B + j * R
      BY <1>1, <1>2 DEF Rows!RowOffset
    <2>2. PICK qb \in Nat, jr \in Nat : qb = q * B /\ jr = j * R
      BY MultiplesOrdered
    <2> QED BY <1>7, <1>8, <2>1, <2>2
  <1>10. o < size
    <2>1. q * B \in Nat /\ m * B \in Nat /\ (q + 1) * B = q * B + B
          /\ (q < m => (q + 1) * B <= m * B)
      BY MultiplesOrdered
    <2>2. PICK qb \in Nat, mb \in Nat : qb = q * B /\ mb = m * B
      BY <2>1
    <2>3. q < m => qb + B <= mb
      BY <2>1, <2>2
    <2>4. q = m => qb = mb
      BY <2>2
    <2>5. o = qb + x /\ size = mb + last
      BY <1>5, <1>8, <2>2
    <2> QED BY <1>6, <1>7, <2>3, <2>4, <2>5
  <1>11. Rows!Place(o) = <<k + 1, c>>
    <2>1. q + 1 \in 1..L /\ j + 1 \in Nat /\ (q + 1) - 1 = q
      BY <1>4, <1>6
    <2>2. Len(table.matrix[q + 1]) = IF q + 1 < L THEN P ELSE rl
      BY <1>1, <1>5, <2>1, TableTypes DEF Rows!LaidOut
    <2>3. j + 1 \in 1..Len(table.matrix[q + 1]) /\ j + 1 <= Len(table.matrix[q + 1])
      BY <1>2, <1>4, <1>6, <2>1, <2>2
    <2>4. table.matrix[q + 1][j + 1] = q * P + (j + 1)
      <3>1. /\ DOMAIN table.matrix = 1..Len(table.matrix) /\ q + 1 \in DOMAIN table.matrix
            /\ j + 1 \in DOMAIN table.matrix[q + 1]
        BY <1>1, <2>1, <2>3, TableTypes
      <3>2. table.matrix[q + 1][j + 1] = ((q + 1) - 1) * Rows!RowsPerBlock + (j + 1)
        BY <3>1 DEF Rows!LaidOut
      <3> QED BY <1>1, <2>1, <3>2
    <2>5. q * P + (j + 1) = k + 1
      <3>1. PICK qp \in Nat : qp = q * P
        BY MultiplesOrdered
      <3> QED BY <1>2, <3>1
    <2>6. Rows!Place(o) = IF j + 1 <= Len(table.matrix[q + 1])
                          THEN <<table.matrix[q + 1][j + 1], c>> ELSE Rows!Padding
      BY <1>1, <1>7, <1>8 DEF Rows!Place
    <2> QED BY <2>3, <2>4, <2>5, <2>6
  <1> QED BY <1>1, <1>8, <1>9, <1>10, <1>11

LEMMA SameTable ==
  ASSUME UNCHANGED table
  PROVE  /\ (Rows!LaidOut <=> Rows!LaidOut') /\ Rows!RowCount' = Rows!RowCount
         /\ \A i : Wants(i)' <=> Wants(i)
         /\ \A r : Rows!Cells(r)' = Rows!Cells(r) /\ Rows!CellsOf(r)' = Rows!CellsOf(r)
  <1>1. Rows!LaidOut <=> Rows!LaidOut'
    BY DEF Rows!LaidOut, Rows!RowsPerBlock, Rows!RowsInLast, Rows!BytesInLast
  <1>2. Rows!RowCount' = Rows!RowCount
    BY DEF Rows!RowCount, Rows!RowsPerBlock
  <1>3. \A i : Wants(i)' <=> Wants(i)
    BY DEF Wants
  <1>4. ASSUME NEW r
        PROVE  Rows!Cells(r)' = Rows!Cells(r) /\ Rows!CellsOf(r)' = Rows!CellsOf(r)
    BY DEF Rows!Cells, Rows!CellsOf, Rows!HasCell, Rows!CellIn
  <1> QED BY <1>1, <1>2, <1>3, <1>4

LEMMA RowsInit ==
  ASSUME Init, call = "rows"
  PROVE  RowsInv
  <1>1. Rows!Init
    BY DEF Init
  <1>2. table \in Tables /\ MaxFaults \in Nat /\ Len(table.columns) \in Nat
    BY <1>1, TableTypes DEF Rows!Init
  <1>3. \A S : <<>> \in Seq(S) /\ Len(<<>>) = 0
    BY EmptySeq
  <1>4. PlaceInTable
    <2>1. 0 \in 0..MaxFaults /\ 0 \in 0..Len(table.columns) /\ 0 \in 0..0
      BY <1>2
    <2>2. Len(rows) = 0 /\ Len(folders) = 0 /\ Len(wanted) = 0
      BY <1>1, <1>3 DEF Rows!Init
    <2>3. rows \in Seq(Seq(Rows!CellOf)) /\ folders \in Seq(SUBSET Rows!CellOf)
      BY <1>1, <1>3 DEF Rows!Init
    <2> QED BY <1>1, <2>1, <2>2, <2>3 DEF PlaceInTable, Rows!Init
  <1>5. WantedInv
    <2>1. wanted = <<>> /\ wanted \in Seq(1..Len(table.columns)) /\ Len(wanted) = 0 /\ column = 0
      BY <1>1, <1>3 DEF Rows!Init
    <2> QED BY <2>1 DEF WantedInv
  <1>6. RowsRead /\ FoldersMade /\ ErrorJustified /\ Rows!PanicsExplained
    <2>1. Len(rows) = 0 /\ Len(folders) = 0 /\ pc = "info" /\ result = "none"
      BY <1>1, <1>3 DEF Rows!Init
    <2> QED BY <2>1 DEF RowsRead, FoldersMade, ErrorJustified, Rows!PanicsExplained
  <1> QED BY <1>4, <1>5, <1>6 DEF RowsInv

\* A call that returns, wherever it is.
LEMMA RowsReturn ==
  ASSUME RowsInv, NEW r \in {"ok", "error", "panic"}, Rows!Returns(r), pc # "done",
         faults' \in 0..MaxFaults, faults > 0 => faults' > 0,
         r = "ok" => pc = "folders" /\ Len(folders) = Len(rows),
         r = "error" /\ Rows!LaidOut => ErrorReasons \/ faults' > 0,
         r = "panic" =>
           table.rowSize = 0 \/ \E c \in Rows!ToSet(table.columns) : c.bit >= Len(table.columns)
  PROVE  RowsInv'
  <1>1. /\ UNCHANGED <<table, column, wanted, bits, cell, rows, folders>>
        /\ pc' = "done" /\ result' = r
    BY DEF Rows!Returns
  <1>2. PlaceInTable /\ WantedInv /\ RowsRead /\ FoldersMade
    BY DEF RowsInv
  <1>3. PlaceInTable'
    BY <1>1, <1>2, SameTable DEF PlaceInTable
  <1>4. WantedInv'
    BY <1>1, <1>2, SameTable DEF WantedInv
  <1>5. RowsRead'
    BY <1>1, <1>2, SameTable DEF RowsRead
  <1>6. FoldersMade'
    BY <1>1, <1>2 DEF FoldersMade, Rows!ToSet
  <1>7. ErrorJustified'
    <2> SUFFICES ASSUME Rows!LaidOut, r = "error"
                 PROVE  ErrorReasons'
      BY <1>1, SameTable DEF ErrorJustified
    <2>1. CASE faults' > 0
      BY <2>1 DEF ErrorReasons
    <2>2. CASE ErrorReasons /\ ~ (faults' > 0)
      BY <1>1, <2>2, SameTable DEF ErrorReasons, Rows!ToSet
    <2> QED BY <2>1, <2>2
  <1>8. Rows!PanicsExplained'
    BY <1>1 DEF Rows!PanicsExplained, Rows!ToSet
  <1> QED BY <1>3, <1>4, <1>5, <1>6, <1>7, <1>8 DEF RowsInv

\* A read that fails and one that succeeds.
LEMMA RowsFaults ==
  ASSUME faults \in 0..MaxFaults, MaxFaults \in Nat
  PROVE  /\ Rows!ReadFails => faults' \in 0..MaxFaults /\ faults' > 0
         /\ UNCHANGED faults => faults' \in 0..MaxFaults /\ (faults > 0 => faults' > 0)
  BY DEF Rows!ReadFails

\* Where rows exist, they have a place.
LEMMA OffsetTyped ==
  ASSUME table \in Tables, table.rowSize # 0, NEW k \in Nat, Rows!RowCount \in Nat \ {0}
  PROVE  Rows!RowOffset(k) \in Nat
  <1>1. PICK B \in Nat \ {0}, R \in Nat \ {0}, size \in Nat :
          B = BlockBytes /\ R = table.rowSize /\ size = table.size
    BY TableTypes
  <1>2. PICK P \in Nat : P = B \div R /\ P = Rows!RowsPerBlock
    BY <1>1, Quotient DEF Rows!RowsPerBlock
  <1>3. P # 0
    <2> SUFFICES ASSUME P = 0 PROVE FALSE
      OBVIOUS
    <2>1. PICK x \in 0..(R - 1) : B = P * R + x
      BY <1>2, Quotient
    <2>2. P * R = 0
      OBVIOUS
    <2>3. B < R
      BY <1>1, <2>1, <2>2
    <2>4. PICK q \in Nat, y \in 0..(B - 1) : q = size \div B /\ y = size % B
      BY <1>1, Quotient
    <2>5. y \in 0..(R - 1) /\ y = 0 * R + y
      BY <1>1, <2>3, <2>4
    <2>6. y \div R = 0
      BY <2>5, KeyQuotient
    <2>7. q * P = 0
      OBVIOUS
    <2>8. Rows!RowCount = q * P + (y \div R)
      BY <1>1, <1>2, <2>4 DEF Rows!RowCount
    <2> QED BY <2>6, <2>7, <2>8
  <1>4. PICK q \in Nat, j \in Nat : q = k \div P /\ j = k % P
    <2>1. k \div P \in Nat /\ k % P \in Nat
      BY <1>3, Quotient
    <2> QED BY <2>1
  <1>5. q * B \in Nat /\ j * R \in Nat
    BY MultiplesOrdered
  <1>6. Rows!RowOffset(k) = q * B + j * R
    BY <1>1, <1>2, <1>4 DEF Rows!RowOffset
  <1> QED BY <1>5, <1>6

LEMMA CountTyped ==
  ASSUME table \in Tables, table.rowSize # 0
  PROVE  Rows!RowCount \in Nat
  <1>1. PICK B \in Nat \ {0}, R \in Nat \ {0}, size \in Nat :
          B = BlockBytes /\ R = table.rowSize /\ size = table.size
    BY TableTypes
  <1>2. PICK P \in Nat : P = Rows!RowsPerBlock
    BY <1>1, Quotient DEF Rows!RowsPerBlock
  <1>3. PICK q \in Nat, y \in Nat : q = size \div B /\ y = size % B
    <2>1. size \div B \in Nat /\ size % B \in Nat
      BY Quotient
    <2> QED BY <2>1
  <1>4. q * P \in Nat /\ y \div R \in Nat
    BY MultiplesOrdered, Quotient
  <1>5. Rows!RowCount = q * P + (y \div R)
    BY <1>1, <1>2, <1>3 DEF Rows!RowCount
  <1> QED BY <1>4, <1>5

\* A column is remembered if it is wanted.
LEMMA ColumnRead ==
  ASSUME RowsInv, Rows!GetColumn
  PROVE  RowsInv'
  <1>1. PlaceInTable /\ WantedInv /\ table \in Tables /\ pc = "columns"
        /\ column \in Nat /\ column < Len(table.columns) /\ Len(table.columns) \in Nat
        /\ faults \in 0..MaxFaults /\ MaxFaults \in Nat /\ Len(wanted) \in Nat
        /\ wanted \in Seq(1..Len(table.columns))
    <2>1. PlaceInTable /\ WantedInv /\ pc = "columns" /\ column < Len(table.columns)
      BY DEF RowsInv, Rows!GetColumn
    <2>2. table \in Tables /\ faults \in 0..MaxFaults /\ wanted \in Seq(1..Len(table.columns))
          /\ column \in 0..Len(table.columns)
      BY <2>1 DEF PlaceInTable, WantedInv
    <2>3. Len(table.columns) \in Nat /\ MaxFaults \in Nat
      BY <2>2, TableTypes
    <2> QED BY <2>1, <2>2, <2>3, LenProperties
  <1>2. CASE Rows!ReadFails /\ Rows!Returns("error")
    BY <1>1, <1>2, RowsFaults, RowsReturn
  <1>3. CASE /\ UNCHANGED faults /\ column' = column + 1
             /\ wanted' = IF Wants(column + 1) THEN Append(wanted, column + 1) ELSE wanted
             /\ UNCHANGED <<table, pc, bits, cell, rows, folders, result>>
    <2>1. Len(wanted') \in Nat /\ cell = 0 /\ column + 1 \in 1..Len(table.columns)
          /\ wanted' \in Seq(1..Len(table.columns))
      <3>1. cell = 0 /\ column + 1 \in 1..Len(table.columns)
        BY <1>1 DEF PlaceInTable
      <3>2. wanted' \in Seq(1..Len(table.columns))
        BY <1>1, <1>3, <3>1, AppendProperties
      <3> QED BY <3>1, <3>2, LenProperties
    <2>2. PlaceInTable'
      <3>1. cell' \in 0..Len(wanted') /\ column' \in 0..Len(table.columns)
        BY <1>1, <1>3, <2>1
      <3> QED BY <1>1, <1>3, <3>1, SameTable DEF PlaceInTable
    <2>3. WantedInv'
      <3>1. CASE Wants(column + 1)
        <4>1. /\ Len(wanted') = Len(wanted) + 1 /\ wanted'[Len(wanted) + 1] = column + 1
              /\ \A k \in 1..Len(wanted) : wanted'[k] = wanted[k]
          BY <1>1, <1>3, <2>1, <3>1, AppendProperties
        <4>2. \A k \in 1..Len(wanted') : k \in 1..Len(wanted) \/ k = Len(wanted) + 1
          BY <1>1, <4>1
        <4>3. \A k \in 1..Len(wanted) : wanted[k] \in 1..Len(table.columns) /\ wanted[k] <= column
          BY <1>1, ElementOfSeq DEF WantedInv
        <4>4. \A k \in 1..Len(wanted') : wanted'[k] <= column + 1 /\ Wants(wanted'[k])
          <5>1. ASSUME NEW k \in 1..Len(wanted')
                PROVE  wanted'[k] <= column + 1 /\ Wants(wanted'[k])
            <6>1. CASE k \in 1..Len(wanted)
              <7>1. wanted[k] <= column /\ Wants(wanted[k]) /\ wanted[k] \in Nat
                BY <1>1, <4>3, <6>1 DEF WantedInv
              <7> QED BY <1>1, <4>1, <6>1, <7>1
            <6>2. CASE k = Len(wanted) + 1
              BY <1>1, <3>1, <4>1, <6>2
            <6> QED BY <4>2, <6>1, <6>2
          <5> QED BY <5>1
        <4>5. ASSUME NEW j \in 1..Len(wanted'), NEW k \in 1..Len(wanted'), j < k
              PROVE  wanted'[j] < wanted'[k]
          <5>1. CASE k \in 1..Len(wanted)
            <6>1. j \in 1..Len(wanted)
              BY <1>1, <4>2, <4>5, <5>1
            <6> QED BY <1>1, <4>1, <4>5, <5>1, <6>1 DEF WantedInv
          <5>2. CASE k = Len(wanted) + 1
            <6>1. j \in 1..Len(wanted)
              BY <1>1, <4>2, <4>5, <5>2
            <6>2. wanted[j] \in Nat /\ wanted[j] <= column
              BY <4>3, <6>1
            <6> QED BY <1>1, <4>1, <5>2, <6>1, <6>2
          <5> QED BY <4>2, <5>1, <5>2
        <4>6. ASSUME NEW i \in 1..(column + 1), Wants(i)
              PROVE  \E k \in 1..Len(wanted') : wanted'[k] = i
          <5>1. CASE i = column + 1
            <6>1. Len(wanted) + 1 \in 1..Len(wanted')
              BY <1>1, <4>1
            <6> QED BY <4>1, <5>1, <6>1
          <5>2. CASE i \in 1..column
            <6>1. PICK k \in 1..Len(wanted) : wanted[k] = i
              BY <1>1, <4>6, <5>2 DEF WantedInv
            <6>2. k \in 1..Len(wanted')
              BY <1>1, <4>1
            <6> QED BY <4>1, <6>1, <6>2
          <5> QED BY <1>1, <5>1, <5>2
        <4> QED BY <1>3, <2>1, <4>4, <4>5, <4>6, SameTable DEF WantedInv
      <3>2. CASE ~ Wants(column + 1)
        <4>1. wanted' = wanted
          BY <1>3, <3>2
        <4>2. \A k \in 1..Len(wanted) : wanted[k] <= column + 1 /\ Wants(wanted[k])
          <5>1. \A k \in 1..Len(wanted) : wanted[k] \in 1..Len(table.columns)
            BY <1>1, ElementOfSeq
          <5>2. ASSUME NEW k \in 1..Len(wanted)
                PROVE  wanted[k] <= column + 1 /\ Wants(wanted[k])
            <6>1. wanted[k] \in Nat /\ wanted[k] <= column /\ Wants(wanted[k])
              BY <1>1, <5>1 DEF WantedInv
            <6> QED BY <1>1, <6>1
          <5> QED BY <5>2
        <4>3. ASSUME NEW i \in 1..(column + 1), Wants(i)
              PROVE  \E k \in 1..Len(wanted) : wanted[k] = i
          <5>1. i \in 1..column
            <6>1. i # column + 1
              BY <3>2, <4>3
            <6> QED BY <1>1, <6>1
          <5> QED BY <1>1, <4>3, <5>1 DEF WantedInv
        <4> QED BY <1>1, <1>3, <2>1, <4>1, <4>2, <4>3, SameTable DEF WantedInv
      <3> QED BY <3>1, <3>2
    <2>4. RowsRead' /\ FoldersMade'
      <3>1. Len(rows) = 0 /\ Len(folders) = 0
        BY <1>1, EmptySeq DEF PlaceInTable
      <3> QED BY <1>1, <1>3, <3>1 DEF RowsRead, FoldersMade
    <2>5. ErrorJustified' /\ Rows!PanicsExplained'
      BY <1>1, <1>3 DEF PlaceInTable, ErrorJustified, Rows!PanicsExplained
    <2> QED BY <2>2, <2>3, <2>4, <2>5 DEF RowsInv
  <1> QED BY <1>2, <1>3 DEF Rows!GetColumn, Rows!ReadOK, Wants

\* What the invariant says of a call that is among the rows.
LEMMA AmongRows ==
  ASSUME RowsInv, pc \in {"row", "cell", "folders"}
  PROVE  /\ table \in Tables /\ table.rowSize # 0 /\ Len(table.columns) \in 0..255
         /\ Len(table.columns) \in Nat /\ column = Len(table.columns)
         /\ Rows!RowCount \in Nat /\ Len(rows) \in Nat /\ Len(rows) <= Rows!RowCount
         /\ rows \in Seq(Seq(Rows!CellOf)) /\ Len(wanted) \in Nat /\ cell \in 0..Len(wanted)
         /\ wanted \in Seq(1..Len(table.columns))
         /\ \A k \in 1..Len(wanted) : wanted[k] \in 1..Len(table.columns)
         /\ faults \in 0..MaxFaults /\ MaxFaults \in Nat /\ result = "none"
         /\ PlaceInTable /\ WantedInv /\ RowsRead /\ FoldersMade
         /\ table.bitmap \in Nat
         /\ \A i \in 1..Len(table.columns) : table.columns[i] \in Rows!Column
         /\ pc = "cell" => Len(rows) \in 1..Rows!RowCount
  <1>1. PlaceInTable /\ WantedInv /\ RowsRead /\ FoldersMade
    BY DEF RowsInv
  <1>2. /\ table \in Tables /\ table.rowSize # 0 /\ column = Len(table.columns)
        /\ rows \in Seq(Seq(Rows!CellOf)) /\ cell \in 0..Len(wanted)
        /\ faults \in 0..MaxFaults /\ result = "none"
        /\ (pc = "cell" => Len(rows) \in 1..Rows!RowCount)
        /\ (pc = "row" => Len(rows) <= Rows!RowCount)
        /\ (pc = "folders" => Len(rows) = Rows!RowCount)
    BY <1>1 DEF PlaceInTable
  <1>3. wanted \in Seq(1..Len(table.columns))
    BY <1>1 DEF WantedInv
  <1>4. Rows!RowCount \in Nat /\ Len(rows) \in Nat /\ Len(wanted) \in Nat
    BY <1>2, <1>3, CountTyped, LenProperties
  <1>5. \A k \in 1..Len(wanted) : wanted[k] \in 1..Len(table.columns)
    BY <1>3, ElementOfSeq
  <1>6. /\ Len(table.columns) \in 0..255 /\ MaxFaults \in Nat /\ table.bitmap \in Nat
        /\ \A i \in 1..Len(table.columns) : table.columns[i] \in Rows!Column
    BY <1>2, TableTypes
  <1>7. Len(table.columns) \in Nat
    <2>1. \A n \in 0..255 : n \in Nat
      OBVIOUS
    <2> QED BY <1>6, <2>1
  <1>8. Len(rows) <= Rows!RowCount
    BY <1>2, <1>4
  <1> QED BY <1>1, <1>2, <1>3, <1>4, <1>5, <1>6, <1>7, <1>8

\* The columns between the last cell and the next wanted one are not wanted.
LEMMA NextWanted ==
  ASSUME RowsInv, pc = "cell"
  PROVE  /\ LastColumn \in 0..Len(table.columns)
         /\ cell < Len(wanted) =>
              /\ wanted[cell + 1] \in 1..Len(table.columns) /\ Wants(wanted[cell + 1])
              /\ LastColumn < wanted[cell + 1]
              /\ \A j \in (LastColumn + 1)..(wanted[cell + 1] - 1) : ~ Wants(j)
         /\ cell = Len(wanted) => \A j \in (LastColumn + 1)..Len(table.columns) : ~ Wants(j)
  <1>0. PICK N \in Nat, W \in Nat, c \in Nat :
          N = Len(table.columns) /\ W = Len(wanted) /\ c = cell /\ c <= W /\ column = N
    BY AmongRows
  <1>1. /\ \A k \in 1..W : wanted[k] \in 1..N /\ Wants(wanted[k])
        /\ \A j, k \in 1..W : j < k => wanted[j] < wanted[k]
        /\ \A i \in 1..N : Wants(i) => \E k \in 1..W : wanted[k] = i
    BY <1>0, AmongRows DEF WantedInv
  <1>2. LastColumn \in 0..N /\ (c # 0 => c \in 1..W /\ LastColumn = wanted[c])
        /\ (c = 0 => LastColumn = 0)
    BY <1>0, <1>1 DEF LastColumn
  <1>3. ASSUME NEW j \in 1..N, Wants(j), j > LastColumn
        PROVE  \E k \in 1..W : k > c /\ wanted[k] = j
    <2>1. PICK k \in 1..W : wanted[k] = j
      BY <1>1, <1>3
    <2>2. k > c
      <3> SUFFICES ASSUME k <= c PROVE FALSE
        OBVIOUS
      <3>1. c \in 1..W /\ LastColumn = wanted[c] /\ wanted[c] \in 1..N /\ wanted[k] \in 1..N
        BY <1>0, <1>1, <1>2
      <3>2. k = c \/ wanted[k] < wanted[c]
        BY <1>0, <1>1, <3>1
      <3> QED BY <1>3, <2>1, <3>1, <3>2
    <2> QED BY <2>1, <2>2
  <1>4. ASSUME c < W
        PROVE  /\ wanted[c + 1] \in 1..N /\ Wants(wanted[c + 1]) /\ LastColumn < wanted[c + 1]
               /\ \A j \in (LastColumn + 1)..(wanted[c + 1] - 1) : ~ Wants(j)
    <2>1. c + 1 \in 1..W
      BY <1>4
    <2>2. PICK w \in 1..N : w = wanted[c + 1] /\ Wants(w)
      BY <1>1, <2>1
    <2>3. LastColumn < w
      <3>1. CASE c = 0
        BY <1>2, <2>2, <3>1
      <3>2. CASE c # 0
        <4>1. c \in 1..W /\ c < c + 1
          BY <1>2, <3>2
        <4> QED BY <1>1, <1>2, <2>1, <2>2, <3>2, <4>1
      <3> QED BY <3>1, <3>2
    <2>4. ASSUME NEW j \in (LastColumn + 1)..(w - 1), Wants(j)
          PROVE  FALSE
      <3>1. j \in 1..N /\ j > LastColumn /\ j < w
        BY <1>2, <2>2
      <3>2. PICK k \in 1..W : k > c /\ wanted[k] = j
        BY <1>3, <2>4, <3>1
      <3>3. k = c + 1 \/ wanted[c + 1] < wanted[k]
        BY <1>1, <2>1, <3>2
      <3>4. wanted[k] \in 1..N
        BY <1>1
      <3> QED BY <2>2, <3>1, <3>2, <3>3, <3>4
    <2> QED BY <2>2, <2>3, <2>4
  <1>5. ASSUME c = W, NEW j \in (LastColumn + 1)..N, Wants(j)
        PROVE  FALSE
    <2>1. j \in 1..N /\ j > LastColumn
      BY <1>2
    <2>2. PICK k \in 1..W : k > c
      BY <1>3, <1>5, <2>1
    <2> QED BY <1>5, <2>2
  <1> QED BY <1>0, <1>2, <1>4, <1>5

\* A step that leaves the rows that are complete, and the folders.
LEMMA RowBegun ==
  ASSUME RowsInv, Rows!BeginRow
  PROVE  RowsInv'
  <1>0. pc = "row"
    BY DEF Rows!BeginRow
  <1>1. PICK n \in Nat : n = Len(rows) /\ n < Rows!RowCount /\ Rows!RowCount \in Nat \ {0}
    BY <1>0, AmongRows DEF Rows!BeginRow
  <1>2. PICK o \in Nat : o = Rows!RowOffset(n) + table.bitmap
    <2>1. Rows!RowOffset(n) \in Nat /\ table.bitmap \in Nat
      BY <1>0, <1>1, AmongRows, OffsetTyped
    <2> QED BY <2>1
  <1>3. CASE Rows!ReadFails /\ Rows!Returns("error")
    BY <1>0, <1>3, AmongRows, RowsFaults, RowsReturn
  <1>4. CASE UNCHANGED faults /\ ~ Rows!Inside(o) /\ Rows!Returns("error")
    <2>1. ~ Rows!LaidOut
      <3> SUFFICES ASSUME Rows!LaidOut PROVE FALSE
        OBVIOUS
      <3>1. table.bitmap \in Nat /\ table.bitmap < table.rowSize /\ n < Len(table.present)
        BY <1>0, <1>1, AmongRows, RowsCounted DEF Rows!LaidOut
      <3> QED BY <1>0, <1>1, <1>2, <1>4, <3>1, AmongRows, RowPlace DEF Rows!Inside
    <2> QED BY <1>0, <1>4, <2>1, AmongRows, RowsFaults, RowsReturn
  <1>5. CASE /\ UNCHANGED faults /\ Rows!Inside(o) /\ bits' \in Rows!BitsAt(o)
             /\ rows' = Append(rows, <<>>) /\ cell' = 0 /\ pc' = "cell"
             /\ UNCHANGED <<table, column, wanted, folders, result>>
    <2>1. /\ rows' \in Seq(Seq(Rows!CellOf)) /\ Len(rows') = n + 1 /\ rows'[n + 1] = <<>>
          /\ \A r \in 1..n : rows'[r] = rows[r]
      <3>1. <<>> \in Seq(Rows!CellOf)
        BY EmptySeq
      <3> QED BY <1>0, <1>1, <1>5, <3>1, AmongRows, AppendProperties
    <2>2. bits' \subseteq 0..255
      <3>1. o < table.size
        BY <1>5 DEF Rows!Inside
      <3>2. \A r \in 1..Len(table.present) : table.present[r] \subseteq 0..255
        BY <1>0, AmongRows, TableTypes
      <3>3. CASE bits' = {}
        BY <3>3
      <3>4. CASE bits' = 0..(8 * Rows!BitmapBytes - 1)
        <4>1. PICK k \in 0..255 : k = Len(table.columns)
          BY <1>0, AmongRows
        <4>2. 8 * ((k + 7) \div 8) - 1 <= 255
          OBVIOUS
        <4>3. Rows!BitmapBytes = (k + 7) \div 8
          BY <4>1 DEF Rows!BitmapBytes
        <4> QED BY <3>4, <4>2, <4>3
      <3>5. CASE Rows!Place(o) # Rows!Padding /\ bits' = table.present[Rows!Place(o)[1]]
        <4>1. PICK r \in 1..Len(table.present), m \in Nat : Rows!Place(o) = <<r, m>>
          BY <1>0, <3>1, <3>5, AmongRows, PlaceTyped
        <4>2. Rows!Place(o)[1] = r
          BY <4>1
        <4>3. table.present[r] \subseteq 0..255
          BY <3>2
        <4> QED BY <3>5, <4>2, <4>3
      <3> QED BY <1>5, <3>3, <3>4, <3>5 DEF Rows!BitsAt
    <2>3. PlaceInTable'
      <3>1. Len(rows') \in 1..Rows!RowCount /\ 0 \in 0..Len(wanted) /\ folders = <<>>
        BY <1>0, <1>1, <2>1, AmongRows DEF PlaceInTable
      <3>2. Len(folders) <= Len(rows')
        BY <1>1, <2>1, <3>1, EmptySeq
      <3> QED BY <1>0, <1>5, <2>1, <2>2, <3>1, <3>2, AmongRows, SameTable DEF PlaceInTable
    <2>4. WantedInv'
      BY <1>0, <1>5, AmongRows, SameTable DEF WantedInv
    <2>5. RowsRead'
      <3> SUFFICES ASSUME Rows!LaidOut
                   PROVE  /\ \A r \in 1..Len(rows') : r < Len(rows') => rows'[r] = Rows!CellsOf(r)
                          /\ bits' = table.present[Len(rows')]
                          /\ rows'[Len(rows')] = Rows!Cells(Len(rows'))[0]
        BY <1>0, <1>5, AmongRows, SameTable DEF RowsRead, LastColumn
      <3>1. \A r \in 1..n : rows[r] = Rows!CellsOf(r)
        BY <1>0, <1>1, AmongRows DEF RowsRead
      <3>2. \A r \in 1..(n + 1) : r < n + 1 => r \in 1..n
        BY <1>1
      <3>3. table.bitmap \in Nat /\ table.bitmap < table.rowSize /\ n < Len(table.present)
            /\ n + 1 \in Nat /\ n + 1 # 0
        BY <1>0, <1>1, AmongRows, RowsCounted DEF Rows!LaidOut
      <3>4. Rows!Place(o) = <<n + 1, table.bitmap>>
        BY <1>0, <1>1, <1>2, <3>3, AmongRows, RowPlace
      <3>5. bits' = table.present[n + 1]
        BY <1>5, <3>3, <3>4 DEF Rows!BitsAt, Rows!Padding
      <3>6. Rows!Cells(n + 1)[0] = <<>>
        BY <1>0, AmongRows, CellsEquation
      <3> QED BY <2>1, <3>1, <3>2, <3>5, <3>6
    <2>6. FoldersMade' /\ ErrorJustified' /\ Rows!PanicsExplained'
      <3>1. Len(folders) = 0 /\ result = "none"
        BY <1>0, AmongRows, EmptySeq DEF PlaceInTable
      <3> QED BY <1>5, <3>1 DEF FoldersMade, ErrorJustified, Rows!PanicsExplained
    <2> QED BY <2>3, <2>4, <2>5, <2>6 DEF RowsInv
  <1> QED BY <1>1, <1>2, <1>3, <1>4, <1>5 DEF Rows!BeginRow, Rows!ReadOK

\* A wanted column is looked at.
LEMMA CellRead ==
  ASSUME RowsInv, Rows!GetCell
  PROVE  RowsInv'
  <1>0. pc = "cell" /\ cell < Len(wanted)
    BY DEF Rows!GetCell
  <1>1. PICK n \in Nat \ {0}, c \in Nat :
          /\ n = Len(rows) /\ c = cell /\ n \in 1..Rows!RowCount /\ n - 1 \in Nat
          /\ c + 1 \in 1..Len(wanted) /\ c + 1 # 0
    <2>1. PICK n \in Nat, C \in Nat : n = Len(rows) /\ C = Rows!RowCount /\ n \in 1..C
      BY <1>0, AmongRows
    <2>2. PICK c \in Nat, W \in Nat : c = cell /\ W = Len(wanted) /\ c < W
      BY <1>0, AmongRows
    <2>3. n # 0 /\ n - 1 \in Nat /\ c + 1 \in 1..W /\ c + 1 # 0
      BY <2>1, <2>2
    <2> QED BY <2>1, <2>2, <2>3
  <1>2. PICK i \in 1..Len(table.columns) : i = wanted[cell + 1] /\ i \in Nat
    BY <1>0, <1>1, AmongRows
  <1>3. /\ table.columns[i] \in Rows!Column /\ table.columns[i].id \in Nat
        /\ table.columns[i].offset \in Nat /\ table.columns[i].bit \in 0..255
    <2>1. table.columns[i] \in Rows!Column
      BY <1>0, AmongRows
    <2> QED BY <2>1 DEF Rows!Column
  <1>4. PICK o \in Nat : o = Rows!RowOffset(n - 1) + table.columns[i].offset
    <2>1. Rows!RowCount \in Nat \ {0}
      BY <1>0, <1>1, AmongRows
    <2>2. Rows!RowOffset(n - 1) \in Nat
      BY <1>0, <1>1, <2>1, AmongRows, OffsetTyped
    <2> QED BY <1>3, <2>2
  <1>5. CASE UNCHANGED faults /\ Rows!TestedBit(i) \div 8 >= Rows!BitmapBytes /\ Rows!Returns("panic")
    <2>1. PICK b \in 0..255, k \in 0..255 : b = table.columns[i].bit /\ k = Len(table.columns)
      BY <1>0, <1>3, AmongRows, ZenonT(30)
    <2>2. b \div 8 >= (k + 7) \div 8
      BY <1>5, <2>1 DEF Rows!TestedBit, Rows!BitmapBytes
    <2>3. b >= k
      BY <2>2
    <2>4. table.columns[i] \in Rows!ToSet(table.columns)
      BY <1>0, AmongRows, TableTypes, ZenonT(30) DEF Rows!ToSet
    <2> QED BY <1>0, <1>5, <2>1, <2>3, <2>4, AmongRows, RowsFaults, RowsReturn
  <1>6. CASE Rows!ReadFails /\ Rows!Returns("error")
    BY <1>0, <1>6, AmongRows, RowsFaults, RowsReturn
  <1>7. Rows!LaidOut => /\ Rows!Inside(o) /\ Rows!Place(o) = <<n, table.columns[i].offset>>
                        /\ bits = table.present[n]
                        /\ rows[n] = Rows!Cells(n)[i - 1]
    <2> SUFFICES ASSUME Rows!LaidOut
                 PROVE  /\ Rows!Inside(o) /\ Rows!Place(o) = <<n, table.columns[i].offset>>
                        /\ bits = table.present[n]
                        /\ rows[n] = Rows!Cells(n)[i - 1]
      OBVIOUS
    <2>1. table.columns[i].offset < table.rowSize
      <3>1. table.columns[i] \in Rows!ToSet(table.columns)
        BY <1>0, AmongRows, TableTypes DEF Rows!ToSet
      <3> QED BY <3>1 DEF Rows!LaidOut
    <2>2. n - 1 < Len(table.present) /\ (n - 1) + 1 = n
      BY <1>0, <1>1, AmongRows, RowsCounted
    <2>3. Rows!Inside(o) /\ Rows!Place(o) = <<n, table.columns[i].offset>>
      BY <1>0, <1>1, <1>3, <1>4, <2>1, <2>2, AmongRows, RowPlace DEF Rows!Inside
    <2>4. bits = table.present[n] /\ rows[n] = Rows!Cells(n)[LastColumn]
      BY <1>0, <1>1, AmongRows DEF RowsRead
    <2>5. Rows!Cells(n)[i - 1] = Rows!Cells(n)[LastColumn]
      <3>1. PICK a \in Nat : a = LastColumn /\ a < i /\ \A j \in (a + 1)..(i - 1) : ~ Wants(j)
        BY <1>0, <1>2, NextWanted
      <3>2. i - 1 \in Nat /\ a <= i - 1 /\ i - 1 <= Len(table.columns)
        <4>1. PICK N \in Nat : N = Len(table.columns)
          BY <1>0, AmongRows
        <4> QED BY <1>2, <3>1, <4>1
      <3>3. \A j \in (a + 1)..(i - 1) : ~ Rows!HasCell(n, table.columns[j])
        BY <3>1 DEF Wants, Rows!HasCell
      <3> QED BY <1>0, <3>1, <3>2, <3>3, AmongRows, CellsSkip
    <2> QED BY <2>3, <2>4, <2>5
  <1>8. CASE UNCHANGED faults /\ ~ Rows!Inside(o) /\ Rows!Returns("error")
    BY <1>0, <1>7, <1>8, AmongRows, RowsFaults, RowsReturn
  <1>9. Rows!Cells(n)[i] = IF Rows!HasCell(n, table.columns[i])
                           THEN Append(Rows!Cells(n)[i - 1], Rows!CellIn(n, table.columns[i]))
                           ELSE Rows!Cells(n)[i - 1]
    BY <1>0, AmongRows, CellsEquation
  <1>10. Wants(i)
    BY <1>0, <1>2, NextWanted
  <1>11. ASSUME UNCHANGED <<table, pc, column, wanted, bits, folders, result>>, cell' = cell + 1,
                UNCHANGED faults,
                rows' \in Seq(Seq(Rows!CellOf)), Len(rows') = n,
                \A r \in 1..n : r < n => rows'[r] = rows[r],
                Rows!LaidOut => rows'[n] = Rows!Cells(n)[i]
         PROVE  RowsInv'
    <2>1. PlaceInTable'
      <3>1. c + 1 \in 0..Len(wanted) /\ folders = <<>> /\ Len(folders) <= n
        BY <1>0, <1>1, AmongRows, EmptySeq DEF PlaceInTable
      <3> QED BY <1>0, <1>1, <1>11, <3>1, AmongRows, SameTable DEF PlaceInTable
    <2>2. WantedInv'
      BY <1>0, <1>11, AmongRows, SameTable DEF WantedInv
    <2>3. RowsRead'
      <3> SUFFICES ASSUME Rows!LaidOut
                   PROVE  /\ \A r \in 1..n : r < n => rows'[r] = Rows!CellsOf(r)
                          /\ bits = table.present[n]
                          /\ rows'[n] = Rows!Cells(n)[LastColumn']
        BY <1>0, <1>11, AmongRows, SameTable DEF RowsRead
      <3>1. LastColumn' = i
        BY <1>1, <1>2, <1>11 DEF LastColumn
      <3>2. \A r \in 1..n : r < n => rows[r] = Rows!CellsOf(r)
        BY <1>0, <1>1, AmongRows DEF RowsRead
      <3> QED BY <1>7, <1>11, <3>1, <3>2
    <2>4. FoldersMade' /\ ErrorJustified' /\ Rows!PanicsExplained'
      <3>1. Len(folders) = 0 /\ result = "none"
        BY <1>0, AmongRows, EmptySeq DEF PlaceInTable
      <3> QED BY <1>11, <3>1 DEF FoldersMade, ErrorJustified, Rows!PanicsExplained
    <2> QED BY <2>1, <2>2, <2>3, <2>4 DEF RowsInv
  <1>12. CASE /\ UNCHANGED faults /\ Rows!TestedBit(i) \notin bits /\ cell' = cell + 1
              /\ UNCHANGED <<table, pc, column, wanted, bits, rows, folders, result>>
    <2>1. Rows!LaidOut => rows[n] = Rows!Cells(n)[i]
      BY <1>7, <1>9, <1>12 DEF Rows!HasCell, Rows!TestedBit
    <2> QED BY <1>0, <1>1, <1>11, <1>12, <2>1, AmongRows
  <1>13. CASE /\ UNCHANGED faults /\ Rows!TestedBit(i) \in bits /\ Rows!Inside(o) /\ cell' = cell + 1
              /\ rows' = [rows EXCEPT ![Len(rows)] = Append(@, Rows!Property(i, Rows!Place(o)))]
              /\ UNCHANGED <<table, pc, column, wanted, bits, folders, result>>
    <2> DEFINE p == Rows!Property(i, Rows!Place(o))
    <2>1. p \in Rows!CellOf
      <3>1. Rows!Place(o) \in Nat \X Nat
        <4>1. o < table.size
          BY <1>13 DEF Rows!Inside
        <4>2. CASE Rows!Place(o) = Rows!Padding
          BY <4>2 DEF Rows!Padding
        <4>3. ASSUME NEW r \in 1..Len(table.present), NEW m \in Nat, Rows!Place(o) = <<r, m>>
              PROVE  Rows!Place(o) \in Nat \X Nat
          <5>1. Len(table.present) \in Nat
            BY <1>0, AmongRows, TableTypes
          <5>2. r \in Nat
            BY <5>1
          <5> QED BY <4>3, <5>2
        <4> QED BY <1>0, <4>1, <4>2, <4>3, AmongRows, PlaceTyped
      <3> QED BY <1>3, <3>1 DEF Rows!Property, Rows!CellOf
    <2>2. Rows!LaidOut => p = Rows!CellIn(n, table.columns[i])
      BY <1>7 DEF Rows!Property, Rows!CellIn
    <2> HIDE DEF p
    <2>3. n \in 1..Len(rows) /\ rows[n] \in Seq(Rows!CellOf)
      BY <1>0, <1>1, AmongRows, ElementOfSeq
    <2>4. Append(rows[n], p) \in Seq(Rows!CellOf)
      BY <2>1, <2>3, AppendProperties
    <2>5. rows' = [rows EXCEPT ![n] = Append(rows[n], p)]
      BY <1>1, <1>13 DEF p
    <2>6. /\ rows' \in Seq(Seq(Rows!CellOf)) /\ Len(rows') = n
          /\ rows'[n] = Append(rows[n], p) /\ \A r \in 1..n : r < n => rows'[r] = rows[r]
      BY <1>0, <1>1, <2>3, <2>4, <2>5, AmongRows, ExceptSeq
    <2>7. Rows!LaidOut => rows'[n] = Rows!Cells(n)[i]
      BY <1>7, <1>9, <1>10, <1>13, <2>2, <2>6 DEF Rows!HasCell, Rows!TestedBit, Wants
    <2> QED BY <1>11, <1>13, <2>6, <2>7
  <1> QED BY <1>1, <1>2, <1>4, <1>5, <1>6, <1>8, <1>12, <1>13 DEF Rows!GetCell, Rows!ReadOK

\* A row becomes a folder.
LEMMA FolderMade ==
  ASSUME RowsInv, Rows!MakeFolder
  PROVE  RowsInv'
  <1>0. pc = "folders" /\ Len(folders) < Len(rows)
    BY DEF Rows!MakeFolder
  <1>1. PICK k \in Nat \ {0}, n \in Nat :
          /\ n = Len(rows) /\ k = Len(folders) + 1 /\ k \in 1..n /\ n = Rows!RowCount
          /\ folders \in Seq(SUBSET Rows!CellOf)
    <2>1. /\ folders \in Seq(SUBSET Rows!CellOf) /\ Len(folders) \in Nat /\ Len(rows) \in Nat
          /\ Len(rows) = Rows!RowCount
      BY <1>0, AmongRows, LenProperties DEF PlaceInTable
    <2>2. Len(folders) + 1 \in Nat \ {0} /\ Len(folders) + 1 \in 1..Len(rows)
      BY <1>0, <2>1
    <2> QED BY <2>1, <2>2
  <1>2. PICK row \in Seq(Rows!CellOf) : row = rows[k]
    BY <1>0, <1>1, AmongRows, ElementOfSeq
  <1>3. CASE UNCHANGED faults /\ Rows!NameFails(row) /\ Rows!Returns("error")
    <2>1. Rows!LaidOut => ErrorReasons
      <3> SUFFICES ASSUME Rows!LaidOut PROVE ErrorReasons
        OBVIOUS
      <3>1. row = Rows!CellsOf(k) /\ n = Len(table.present)
            /\ k \in DOMAIN table.present
        BY <1>0, <1>1, <1>2, AmongRows, RowsCounted, TableTypes DEF RowsRead
      <3>2. PICK p \in Rows!ToSet(row) : p.id = Rows!NameID /\ Rows!NameOf(p) # {"sound"}
        BY <1>3 DEF Rows!NameFails
      <3>3. PICK c \in 1..Len(table.columns) : p = Rows!CellIn(k, table.columns[c])
        <4>1. Len(table.columns) \in Nat /\ Len(table.columns) \in 0..Len(table.columns)
          BY <1>0, AmongRows
        <4>2. row \in Seq({Rows!CellIn(k, table.columns[i]) : i \in 1..Len(table.columns)})
          BY <3>1, <4>1, CellsOfColumns DEF Rows!CellsOf
        <4>3. \A j \in DOMAIN row :
                row[j] \in {Rows!CellIn(k, table.columns[i]) : i \in 1..Len(table.columns)}
          BY <4>2, ElementOfSeq, LenProperties
        <4> QED BY <3>2, <4>3 DEF Rows!ToSet
      <3>4. /\ p.place = <<k, table.columns[c].offset>> /\ table.columns[c].id = Rows!NameID
            /\ p.place[1] = k /\ p.place[2] = table.columns[c].offset
        BY <3>2, <3>3 DEF Rows!CellIn
      <3>5. p.place # Rows!Padding /\ table.columns[c] \in Rows!ToSet(table.columns)
        <4>1. p.place # Rows!Padding
          <5>1. Rows!Padding[1] = 0 /\ k # 0
            BY DEF Rows!Padding
          <5> QED BY <3>4, <5>1
        <4>2. table.columns[c] \in Rows!ToSet(table.columns)
          BY <1>0, AmongRows, TableTypes DEF Rows!ToSet
        <4> QED BY <4>1, <4>2
      <3>6. Rows!NameOf(p) = {table.name[k]}
        BY <3>4, <3>5 DEF Rows!NameOf
      <3>7. table.name[k] # "sound"
        BY <3>2, <3>6
      <3> QED BY <3>1, <3>2, <3>7 DEF ErrorReasons
    <2> QED BY <1>0, <1>3, <2>1, AmongRows, RowsFaults, RowsReturn
  <1>4. CASE Rows!ReadFails /\ Rows!Returns("error")
    BY <1>0, <1>4, AmongRows, RowsFaults, RowsReturn
  <1>5. CASE /\ UNCHANGED faults /\ folders' = Append(folders, Rows!ToSet(row))
             /\ UNCHANGED <<table, pc, column, wanted, bits, cell, rows, result>>
    <2>1. Rows!ToSet(row) \in SUBSET Rows!CellOf
      BY <1>2, ElementOfSeq, LenProperties DEF Rows!ToSet
    <2>2. /\ folders' \in Seq(SUBSET Rows!CellOf) /\ Len(folders') = k
          /\ folders'[k] = Rows!ToSet(row)
          /\ \A j \in 1..k : j # k => j \in 1..Len(folders) /\ folders'[j] = folders[j]
      <3>1. Len(folders) \in Nat
        BY <1>1, LenProperties
      <3> QED BY <1>1, <1>5, <2>1, <3>1, AppendProperties
    <2>3. PlaceInTable'
      <3>1. k <= n /\ result = "none"
        BY <1>0, <1>1, AmongRows
      <3>2. Len(folders') <= Len(rows)
        BY <1>1, <2>2, <3>1
      <3> QED BY <1>0, <1>5, <2>2, <3>1, <3>2, AmongRows, SameTable DEF PlaceInTable
    <2>4. WantedInv'
      BY <1>0, <1>5, AmongRows, SameTable DEF WantedInv
    <2>5. RowsRead'
      BY <1>0, <1>5, AmongRows, SameTable DEF RowsRead
    <2>6. FoldersMade'
      <3>1. \A j \in 1..Len(folders) : folders[j] = Rows!ToSet(rows[j])
        BY <1>0, AmongRows DEF FoldersMade
      <3>2. \A j \in 1..k : folders'[j] = Rows!ToSet(rows[j])
        BY <1>2, <2>2, <3>1
      <3>3. Len(folders') = k /\ rows' = rows
        BY <1>5, <2>2
      <3>4. \A j \in 1..Len(folders') : folders'[j] = Rows!ToSet(rows'[j])
        BY <3>2, <3>3
      <3> QED BY <3>4 DEF FoldersMade, Rows!ToSet
    <2>7. ErrorJustified' /\ Rows!PanicsExplained'
      BY <1>0, <1>5, AmongRows DEF ErrorJustified, Rows!PanicsExplained
    <2> QED BY <2>3, <2>4, <2>5, <2>6, <2>7 DEF RowsInv
  <1> QED BY <1>1, <1>2, <1>3, <1>4, <1>5 DEF Rows!MakeFolder, Rows!ReadOK

LEMMA RowsStep ==
  ASSUME RowsInv, call = "rows", [Next]_vars
  PROVE  RowsInv'
  <1>0. PlaceInTable /\ WantedInv /\ RowsRead /\ FoldersMade /\ table \in Tables
        /\ faults \in 0..MaxFaults /\ MaxFaults \in Nat
    <2>1. PlaceInTable /\ WantedInv /\ RowsRead /\ FoldersMade
      BY DEF RowsInv
    <2>2. table \in Tables /\ faults \in 0..MaxFaults
      BY <2>1 DEF PlaceInTable
    <2> QED BY <2>1, <2>2, TableTypes
  <1>1. CASE UNCHANGED vars
    <2>1. UNCHANGED Rows!vars
      BY <1>1 DEF vars, ofRows, Rows!vars
    <2>2. PlaceInTable' /\ WantedInv'
      BY <1>0, <2>1, SameTable DEF PlaceInTable, WantedInv, Rows!vars
    <2>3. RowsRead'
      BY <1>0, <2>1, SameTable DEF RowsRead, LastColumn, Rows!vars
    <2>4. FoldersMade'
      BY <1>0, <2>1 DEF FoldersMade, Rows!ToSet, Rows!vars
    <2>5. ErrorJustified'
      BY <2>1, SameTable DEF RowsInv, ErrorJustified, ErrorReasons, Rows!ToSet, Rows!vars
    <2>6. Rows!PanicsExplained'
      BY <2>1 DEF RowsInv, Rows!PanicsExplained, Rows!ToSet, Rows!vars
    <2> QED BY <2>2, <2>3, <2>4, <2>5, <2>6 DEF RowsInv
  <1>2. CASE Rows!GetTableInfo
    <2>0. pc = "info"
      BY <1>2 DEF Rows!GetTableInfo
    <2>1. CASE Rows!ReadFails /\ Rows!Returns("error")
      BY <1>0, <2>0, <2>1, RowsFaults, RowsReturn
    <2>2. CASE /\ UNCHANGED faults /\ Rows!Returns("error")
               /\ \/ ~ (table.type /\ table.signature)
                  \/ table.columns = <<>> \/ ~ table.hasRows
      <3>1. ErrorReasons
        BY <2>2 DEF ErrorReasons
      <3> QED BY <1>0, <2>0, <2>2, <3>1, RowsFaults, RowsReturn
    <2>3. CASE /\ UNCHANGED faults /\ pc' = "columns"
               /\ UNCHANGED <<table, column, wanted, bits, cell, rows, folders, result>>
      <3>1. PlaceInTable'
        BY <1>0, <2>0, <2>3, SameTable DEF PlaceInTable
      <3>2. WantedInv'
        BY <1>0, <2>3, SameTable DEF WantedInv
      <3>3. RowsRead' /\ FoldersMade'
        <4>1. Len(rows) = 0 /\ Len(folders) = 0
          BY <1>0, <2>0, EmptySeq DEF PlaceInTable
        <4> QED BY <2>3, <4>1 DEF RowsRead, FoldersMade
      <3>4. ErrorJustified' /\ Rows!PanicsExplained'
        BY <1>0, <2>0, <2>3 DEF PlaceInTable, ErrorJustified, Rows!PanicsExplained
      <3> QED BY <3>1, <3>2, <3>3, <3>4 DEF RowsInv
    <2> QED BY <1>2, <2>1, <2>2, <2>3 DEF Rows!GetTableInfo, Rows!ReadOK
  <1>3. CASE Rows!GetColumn
    BY <1>3, ColumnRead
  <1>4. CASE Rows!CountRows
    <2>0. pc = "columns" /\ column = Len(table.columns)
      BY <1>4 DEF Rows!CountRows
    <2>1. CASE UNCHANGED faults /\ table.rowSize = 0 /\ Rows!Returns("panic")
      BY <1>0, <2>0, <2>1, RowsFaults, RowsReturn
    <2>2. CASE /\ UNCHANGED faults /\ table.rowSize # 0 /\ pc' = "row"
               /\ UNCHANGED <<table, column, wanted, bits, cell, rows, folders, result>>
      <3>1. Len(rows) = 0 /\ Len(folders) = 0 /\ Len(rows) <= Rows!RowCount
        <4>1. Rows!RowCount \in Nat
          BY <1>0, <2>2, CountTyped
        <4>2. Len(rows) = 0 /\ Len(folders) = 0
          BY <1>0, <2>0, EmptySeq DEF PlaceInTable
        <4> QED BY <4>1, <4>2
      <3>2. PlaceInTable'
        BY <1>0, <2>0, <2>2, <3>1, SameTable DEF PlaceInTable
      <3>3. WantedInv'
        BY <1>0, <2>2, SameTable DEF WantedInv
      <3>4. RowsRead' /\ FoldersMade'
        BY <2>2, <3>1 DEF RowsRead, FoldersMade
      <3>5. ErrorJustified' /\ Rows!PanicsExplained'
        BY <1>0, <2>0, <2>2 DEF PlaceInTable, ErrorJustified, Rows!PanicsExplained
      <3> QED BY <3>2, <3>3, <3>4, <3>5 DEF RowsInv
    <2> QED BY <1>4, <2>1, <2>2 DEF Rows!CountRows, Rows!ReadOK
  <1>5. CASE Rows!BeginRow
    BY <1>5, RowBegun
  <1>6. CASE Rows!GetCell
    BY <1>6, CellRead
  <1>7. CASE Rows!EndRow
    <2>0. /\ pc = "cell" /\ cell = Len(wanted) /\ pc' = "row"
          /\ UNCHANGED <<table, column, wanted, bits, cell, rows, folders, result, faults>>
      BY <1>7 DEF Rows!EndRow
    <2>1. PlaceInTable'
      BY <1>0, <2>0, SameTable, AmongRows DEF PlaceInTable
    <2>2. WantedInv'
      BY <1>0, <2>0, SameTable DEF WantedInv
    <2>3. RowsRead'
      <3> SUFFICES ASSUME Rows!LaidOut, NEW r \in 1..Len(rows)
                   PROVE  rows[r] = Rows!CellsOf(r)
        BY <2>0, SameTable DEF RowsRead
      <3>1. PICK n \in Nat : n = Len(rows) /\ r <= n /\ r \in Nat
        BY <2>0, AmongRows
      <3>2. CASE r < n
        BY <1>0, <3>1, <3>2 DEF RowsRead
      <3>3. CASE r = n
        <4>1. rows[n] = Rows!Cells(n)[LastColumn]
          BY <1>0, <2>0, <3>1 DEF RowsRead
        <4>2. PICK a \in Nat, N \in Nat :
                /\ a = LastColumn /\ N = Len(table.columns) /\ a <= N
                /\ \A j \in (a + 1)..N : ~ Wants(j)
          <5>1. Len(table.columns) \in Nat /\ LastColumn \in 0..Len(table.columns)
                /\ \A j \in (LastColumn + 1)..Len(table.columns) : ~ Wants(j)
            BY <2>0, AmongRows, NextWanted
          <5>2. LastColumn \in Nat /\ LastColumn <= Len(table.columns)
            BY <5>1
          <5> QED BY <5>1, <5>2
        <4>3. \A j \in (a + 1)..N : ~ Rows!HasCell(n, table.columns[j])
          BY <4>2 DEF Wants, Rows!HasCell
        <4>4. Rows!Cells(n)[N] = Rows!Cells(n)[a]
          <5>1. N <= Len(table.columns) /\ Len(table.columns) \in Nat /\ N \in Nat
            BY <4>2
          <5> QED BY <4>2, <4>3, <5>1, CellsSkip
        <4> QED BY <3>3, <4>1, <4>2, <4>4 DEF Rows!CellsOf
      <3> QED BY <3>1, <3>2, <3>3
    <2>4. FoldersMade'
      BY <1>0, <2>0 DEF FoldersMade, Rows!ToSet
    <2>5. ErrorJustified' /\ Rows!PanicsExplained'
      BY <2>0, AmongRows DEF ErrorJustified, Rows!PanicsExplained
    <2> QED BY <2>1, <2>2, <2>3, <2>4, <2>5 DEF RowsInv
  <1>8. CASE Rows!EndTable
    <2>0. /\ pc = "row" /\ Len(rows) = Rows!RowCount /\ pc' = "folders"
          /\ UNCHANGED <<table, column, wanted, bits, cell, rows, folders, result, faults>>
      BY <1>8 DEF Rows!EndTable
    <2>1. PlaceInTable'
      BY <1>0, <2>0, SameTable, AmongRows DEF PlaceInTable
    <2>2. WantedInv'
      BY <1>0, <2>0, SameTable DEF WantedInv
    <2>3. RowsRead'
      BY <1>0, <2>0, SameTable DEF RowsRead
    <2>4. FoldersMade'
      BY <1>0, <2>0 DEF FoldersMade, Rows!ToSet
    <2>5. ErrorJustified' /\ Rows!PanicsExplained'
      BY <2>0, AmongRows DEF ErrorJustified, Rows!PanicsExplained
    <2> QED BY <2>1, <2>2, <2>3, <2>4, <2>5 DEF RowsInv
  <1>9. CASE Rows!MakeFolder
    BY <1>9, FolderMade
  <1>10. CASE Rows!EndFolders
    BY <1>0, <1>10, RowsFaults, RowsReturn DEF Rows!EndFolders, Rows!ReadOK
  <1> QED BY <1>1, <1>2, <1>3, <1>4, <1>5, <1>6, <1>7, <1>8, <1>9, <1>10
      DEF Next, GoesOn, Ask, Rows!Next

\* The state variables of a call for a table have their types.
LEMMA RowsTyped ==
  ASSUME RowsInv
  PROVE  Rows!TypeOK
  BY DEF RowsInv, PlaceInTable, WantedInv, Rows!TypeOK

LEMMA RowsStored ==
  ASSUME RowsInv
  PROVE  Rows!RowsAsStored /\ Rows!AllFoldersOrError /\ Rows!PanicsExplained
  <1>1. PlaceInTable /\ RowsRead /\ FoldersMade /\ table \in Tables
        /\ rows \in Seq(Seq(Rows!CellOf)) /\ DOMAIN rows = 1..Len(rows) /\ Len(rows) \in Nat
    <2>1. PlaceInTable /\ RowsRead /\ FoldersMade
      BY DEF RowsInv
    <2>2. table \in Tables /\ rows \in Seq(Seq(Rows!CellOf))
      BY <2>1 DEF PlaceInTable
    <2> QED BY <2>1, <2>2, LenProperties
  <1>2. Rows!RowsAsStored
    <2> SUFFICES ASSUME Rows!LaidOut
                 PROVE  /\ pc = "folders" => Len(rows) = Len(table.present)
                        /\ \A r \in DOMAIN rows :
                             pc = "folders" \/ r < Len(rows) => rows[r] = Rows!CellsOf(r)
      BY DEF Rows!RowsAsStored
    <2> QED BY <1>1, RowsCounted DEF PlaceInTable, RowsRead
  <1>3. Rows!AllFoldersOrError
    <2> SUFFICES ASSUME Rows!LaidOut
                 PROVE  /\ result = "ok" =>
                             folders = [r \in 1..Len(table.present) |->
                                          Rows!ToSet(Rows!CellsOf(r))]
                        /\ result = "error" => ErrorReasons
      BY DEF Rows!AllFoldersOrError, ErrorReasons
    <2>1. result = "error" => ErrorReasons
      BY DEF RowsInv, ErrorJustified
    <2>2. ASSUME result = "ok"
          PROVE  folders = [r \in 1..Len(table.present) |-> Rows!ToSet(Rows!CellsOf(r))]
      <3>1. /\ Len(folders) = Len(rows) /\ Len(rows) = Len(table.present)
            /\ folders \in Seq(SUBSET Rows!CellOf)
        BY <1>1, <2>2, RowsCounted DEF PlaceInTable
      <3>2. \A r \in 1..Len(rows) : rows[r] = Rows!CellsOf(r)
        BY <1>1, <2>2 DEF RowsRead
      <3>3. \A r \in 1..Len(rows) : folders[r] = Rows!ToSet(Rows!CellsOf(r))
        BY <1>1, <3>1, <3>2 DEF FoldersMade
      <3>4. folders = [r \in 1..Len(folders) |-> folders[r]]
        BY <3>1, LenProperties
      <3> QED BY <3>1, <3>3, <3>4
    <2> QED BY <2>1, <2>2
  <1> QED BY <1>2, <1>3 DEF RowsInv

\* For every table, block size and list of columns to get: the rows that come back
\* are those of the table with the cells they have, wherever blocks end; a folder
\* gets all its sub-folders or an error that is justified; and only a row size of 0
\* and a bit that no column can have panic (table_context.go, GetTableContext, and
\* folder.go, GetSubFolders).
THEOREM TablesAreAsStored == Spec => []TableAsStored
  <1> DEFINE Inv == call = "rows" => RowsInv
  <1>1. Init => Inv
    BY RowsInit
  <1>2. Inv /\ [Next]_vars => Inv'
    <2>1. [Next]_vars => call' = call
      BY DEF Next, GoesOn, Ask, vars
    <2> QED BY <2>1, RowsStep
  <1>3. Inv => TableAsStored
    BY RowsStored DEF TableAsStored
  <1> QED BY <1>1, <1>2, <1>3, PTL DEF Spec

----------------------------------------------------------------------------
(* PropertyGenerator.                                                      *)

\* That "" is a string is not known to the provers.
Words == STRING \cup {""}

PropertyRecord ==
  [name : Words, prefix : Generator!Namespaces, set : Words, id : Nat,
   types : Seq(Nat), area : Words]

FieldRecord == [name : Words, id : Nat, type : Nat, number : Nat]

\* The text is that of a document, a damaged one, or not there yet.
IsText == text \in {<<>>} \cup Generator!Texts

\* Where the generator is, and what it has by then.
PlaceInRun ==
  /\ pc \in {"download", "unzip", "parse", "lines", "validate", "generate", "files",
             "exit", "end"}
  /\ document \in Documents /\ IsText /\ failed \in Failures /\ panicked \in BOOLEAN
  /\ panicked => pc \in {"exit", "end"}
  /\ line \in 1..(Len(Generator!Lines) + 1)
  /\ inside \in BOOLEAN /\ (inside <=> Generator!InStructures(line))
  /\ property \in PropertyRecord /\ properties \in Seq(PropertyRecord)
  /\ pc \in {"download", "unzip", "parse"} =>
       line = 1 /\ property = Generator!NoProperty /\ properties = <<>>
  /\ pc \in {"download", "unzip", "parse", "lines", "validate"} => done = 0 /\ DOMAIN fields = {}

\* Property p as its lines describe it, but for its name.
Describes(q, p) ==
  /\ q.set = Generator!WordOf(p, "set") /\ q.area = Generator!WordOf(p, "area")
  /\ q.types = Generator!TypesOf(p)
  /\ Generator!IdentifierAsWritten(q, Generator!DigitsOf(p))

NamedBy(q, k) == q.name = Generator!Lines[k].word /\ q.prefix = Generator!Lines[k].prefix

\* While lines are read, property is the last and properties has those before it.
InProgress ==
  LET last == Generator!Owner(line - 1)
  IN  /\ Len(properties) = last - 1
      /\ \A p \in 1..(last - 1) : Describes(properties[p], p)
      /\ Describes(property, last)
      /\ \A k \in 1..(line - 1) : Generator!IsName(k) =>
           NamedBy(IF Generator!Named[k] = last THEN property ELSE properties[Generator!Named[k]], k)
      /\ property.name = "" <=> Generator!Named[line - 1] = 0
      /\ property.name = "" => property.prefix = ""

AllDescribed(all) ==
  /\ Len(all) = Generator!Owner(line - 1)
  /\ \A k \in 1..(line - 1) : Generator!IsName(k) => NamedBy(all[Generator!Named[k]], k)
  /\ \A p \in 1..Len(all) : Describes(all[p], p)

WrittenInv ==
  /\ pc = "lines" => InProgress
  /\ pc \in {"validate", "generate", "files"} => AllDescribed(properties)

\* Fields made: those that were to be, numbered upwards to a bound.
Numbered(made, of, bound) ==
  /\ made \in Seq(FieldRecord) /\ of \in Seq(FieldRecord) /\ Len(made) = Len(of)
  /\ \A n \in 1..Len(made) : [made[n] EXCEPT !.number = 0] = of[n] /\ made[n].number <= bound
  /\ \A a, b \in 1..Len(made) : a < b => made[a].number < made[b].number

BuildersInv ==
  /\ done \in 0..Len(properties) /\ numbers \in [Generator!Messages -> Nat]
  /\ \/ done = 0 /\ DOMAIN fields = {}
     \/ \A m \in Generator!Messages :
          Numbered(Generator!Builder(m), Generator!FieldsOf(m), numbers[m])
  /\ DOMAIN fields =
       {MessageOf[a] : a \in DOMAIN MessageOf \cap {properties[k].area : k \in 1..done}}

Passed == pc \in {"generate", "files"} \/ (pc \in {"exit", "end"} /\ ~ panicked)

FilesInv ==
  /\ Passed \/ files # {} \/ list # <<>> =>
       \A k \in 1..Len(properties) : Generator!Valid(properties[k])
  /\ pc \in {"files", "exit", "end"} \/ (files = {} /\ list = <<>>)
  /\ Passed /\ pc # "generate" => done = Len(properties)
  /\ files \subseteq DOMAIN fields
  /\ Passed /\ pc \in {"exit", "end"} => files = DOMAIN fields

TemporaryInv ==
  /\ temporary \subseteq {"docx", "xml"} /\ deferred \subseteq {"docx", "xml"}
  /\ pc = "unzip" => temporary = {"docx"} /\ deferred = {"docx"}
  /\ pc = "parse" => "docx" \in deferred
  /\ pc = "lines" \/ pc = "validate" \/ (Passed /\ pc # "end") => temporary \subseteq deferred
  /\ Passed /\ pc = "end" => temporary = {}

\* What the failures so far have led to, while main has not panicked.
FailuresInv ==
  /\ pc \in {"download", "unzip"} => failed = {}
  /\ ~ panicked => failed \subseteq {"copy", "close", "entry"}
  /\ ~ panicked /\ "xml" \in deferred => "entry" \notin failed
  /\ ~ panicked /\ pc \notin {"download", "unzip", "parse"} => "xml" \in deferred
  /\ "xml" \in deferred /\ "copy" \notin failed => text = document.lines
  /\ partial \subseteq files
  /\ partial # {} => "write" \in failed \/ "close" \in failed

RunInv == PlaceInRun /\ WrittenInv /\ BuildersInv /\ FilesInv /\ TemporaryInv

GeneratorInv == RunInv /\ FailuresInv

\* A recursive function of the numbers up to N exists, whatever the step from one
\* value to the next.
Recurs(f, N, first, step) ==
  /\ f = [n \in 0..N |-> f[n]] /\ f[0] = first
  /\ \A n \in 1..N : f[n] = step[n][f[n - 1]]

LEMMA RecursionExists ==
  ASSUME NEW N \in Nat, NEW first, NEW step
  PROVE  \E f : Recurs(f, N, first, step)
  <1> DEFINE T == {k \in Nat : \E f : Recurs(f, k, first, step)}
  <1>1. 0 \in T
    <2> DEFINE f == [n \in 0..0 |-> first]
    <2>1. Recurs(f, 0, first, step)
      BY DEF Recurs
    <2> QED BY <2>1
  <1>2. ASSUME NEW k \in Nat, k \in T
        PROVE  k + 1 \in T
    <2>1. PICK f : Recurs(f, k, first, step)
      BY <1>2
    <2> DEFINE last == step[k + 1][f[k]]
               g == [n \in 0..(k + 1) |-> IF n = k + 1 THEN last ELSE f[n]]
    <2>2. /\ \A n \in 0..k : g[n] = f[n]
          /\ g[k + 1] = last /\ g = [n \in 0..(k + 1) |-> g[n]]
      <3>1. \A n \in 0..k : n # k + 1 /\ n \in 0..(k + 1)
        OBVIOUS
      <3>2. k + 1 \in 0..(k + 1)
        OBVIOUS
      <3> QED BY <3>1, <3>2
    <2> HIDE DEF g
    <2>3. ASSUME NEW n \in 1..(k + 1)
          PROVE  g[n] = step[n][g[n - 1]]
      <3>1. CASE n = k + 1
        <4>1. n - 1 = k /\ k \in 0..k
          BY <3>1
        <4> QED BY <2>2, <3>1, <4>1
      <3>2. CASE n # k + 1
        <4>1. n \in 1..k /\ n \in 0..k /\ n - 1 \in 0..k
          BY <3>2
        <4> QED BY <2>1, <2>2, <4>1 DEF Recurs
      <3> QED BY <3>1, <3>2
    <2>4. g[0] = first
      <3>1. 0 \in 0..k
        OBVIOUS
      <3> QED BY <2>1, <2>2, <3>1 DEF Recurs
    <2>5. Recurs(g, k + 1, first, step)
      BY <2>2, <2>3, <2>4 DEF Recurs
    <2> QED BY <2>5
  <1> HIDE DEF T
  <1>3. Nat \subseteq T
    BY <1>1, <1>2, NatSetInduction
  <1> QED BY <1>3 DEF T

\* Its values are in every set that has the first and is closed under the step.
LEMMA RecursionTyped ==
  ASSUME NEW N \in Nat, NEW f, NEW S, f[0] \in S,
         \A n \in 1..N : f[n - 1] \in S => f[n] \in S
  PROVE  \A n \in 0..N : f[n] \in S
  <1> DEFINE T == {n \in Nat : n <= N => f[n] \in S}
  <1>1. 0 \in T
    OBVIOUS
  <1>2. ASSUME NEW n \in Nat, n \in T
        PROVE  n + 1 \in T
    <2>1. CASE n + 1 <= N
      <3>1. n + 1 \in 1..N /\ (n + 1) - 1 = n /\ n <= N
        BY <2>1
      <3> QED BY <1>2, <3>1
    <2>2. CASE ~ (n + 1 <= N)
      BY <2>2
    <2> QED BY <2>1, <2>2
  <1>3. \A n \in 0..N : n \in T
    <2> HIDE DEF T
    <2> QED BY <1>1, <1>2, NatSetInduction
  <1> QED BY <1>3

\* The value of digits is a number, and that of none is 0.
LEMMA ValueTyped ==
  ASSUME NEW digits \in Seq(Nat), NEW base \in Nat \ {0}
  PROVE  /\ Generator!Value(digits, base) \in Nat
         /\ digits = <<>> => Generator!Value(digits, base) = 0
  <1> DEFINE N == Len(digits)
             step == [n \in 1..N |-> [v \in Nat |-> v * base + digits[n]]]
             Of(f, n) == IF n = 0 THEN 0 ELSE f[n - 1] * base + digits[n]
             Equation(f) == f = [n \in 0..N |-> Of(f, n)]
  <1>0. N \in Nat /\ DOMAIN digits = 1..N /\ \A n \in 1..N : digits[n] \in Nat
    BY LenProperties, ElementOfSeq
  <1>1. \A v \in Nat, d \in Nat : v * base + d \in Nat
    OBVIOUS
  <1>3. PICK f : Recurs(f, N, 0, step)
    BY <1>0, RecursionExists
  <1>4. \A n \in 0..N : f[n] \in Nat
    <2>1. \A n \in 1..N : f[n - 1] \in Nat => f[n] \in Nat
      <3>1. ASSUME NEW n \in 1..N, f[n - 1] \in Nat
            PROVE  f[n] \in Nat
        <4>1. f[n] = step[n][f[n - 1]]
          BY <1>3 DEF Recurs
        <4>2. step[n][f[n - 1]] = f[n - 1] * base + digits[n]
          BY <3>1
        <4> QED BY <1>0, <1>1, <3>1, <4>1, <4>2
      <3> QED BY <3>1
    <2>2. f[0] \in Nat
      BY <1>3 DEF Recurs
    <2> HIDE DEF N
    <2> QED BY <1>0, <2>1, <2>2, RecursionTyped
  <1>5. Equation(f)
    <2>1. ASSUME NEW n \in 0..N
          PROVE  f[n] = Of(f, n)
      <3>1. CASE n = 0
        BY <1>3, <3>1 DEF Recurs
      <3>2. CASE n # 0
        <4>1. n \in 1..N /\ n - 1 \in 0..N
          BY <1>0, <3>2
        <4>2. f[n] = step[n][f[n - 1]] /\ f[n - 1] \in Nat
          BY <1>3, <1>4, <4>1 DEF Recurs
        <4>3. step[n][f[n - 1]] = f[n - 1] * base + digits[n]
          BY <4>1, <4>2
        <4> QED BY <3>2, <4>2, <4>3
      <3> QED BY <3>1, <3>2
    <2>2. f = [n \in 0..N |-> f[n]]
      BY <1>3 DEF Recurs
    <2> HIDE DEF Of, N
    <2> QED BY <2>1, <2>2
  <1>6. PICK V : Equation(V) /\ Generator!Value(digits, base) = V[N]
    <2> DEFINE V == CHOOSE g : Equation(g)
    <2>1. Generator!Value(digits, base) = V[N]
      BY DEF Generator!Value
    <2>2. Equation(V)
      <3> HIDE DEF Equation
      <3> QED BY <1>5
    <2> HIDE DEF V, Equation
    <2> QED BY <2>1, <2>2
  <1>7. V[0] = 0 /\ \A n \in 1..N : V[n] = V[n - 1] * base + digits[n]
    <2>1. V[0] = 0
      BY <1>0, <1>6
    <2>2. ASSUME NEW n \in 1..N
          PROVE  V[n] = V[n - 1] * base + digits[n]
      <3>1. n \in 0..N /\ n # 0
        BY <1>0
      <3> QED BY <1>6, <3>1
    <2> QED BY <2>1, <2>2
  <1>8. \A n \in 1..N : V[n - 1] \in Nat => V[n] \in Nat
    BY <1>0, <1>1, <1>7
  <1>9. V[N] \in Nat
    <2> HIDE DEF N
    <2>1. N \in 0..N /\ V[0] \in Nat
      BY <1>0, <1>7
    <2> QED BY <1>0, <1>8, <2>1, RecursionTyped
  <1>10. digits = <<>> => N = 0
    BY EmptySeq
  <1> QED BY <1>6, <1>7, <1>9, <1>10

LEMMA NoValue == Generator!Value(<<>>, 16) = 0
  <1>1. <<>> \in Seq(Nat) /\ 16 \in Nat \ {0}
    BY EmptySeq
  <1> QED BY <1>1, ValueTyped

\* A text is a sequence of lines.
LEMMA TextType ==
  ASSUME NEW t \in {<<>>} \cup Generator!Texts
  PROVE  t \in Seq(Generator!Line)
  <1>1. ASSUME NEW d \in Documents
        PROVE  d.lines \in Seq(Generator!Line)
    <2>1. d \in Generator!Document
      BY GeneratorAssumptions DEF Generator!DocumentsAssumption
    <2> QED BY <2>1 DEF Generator!Document
  <1>2. <<>> \in Seq(Generator!Line)
    BY EmptySeq
  <1>3. Damaged \subseteq Seq(Generator!Line)
    BY GeneratorAssumptions DEF Generator!DocumentsAssumption
  <1> QED BY <1>1, <1>2, <1>3 DEF Generator!Texts

\* What a text is made of.
LEMMA TextLines ==
  ASSUME IsText
  PROVE  /\ Len(Generator!Lines) \in Nat /\ DOMAIN Generator!Lines = 1..Len(Generator!Lines)
         /\ \A k \in 1..Len(Generator!Lines) :
              /\ Generator!Lines[k].kind \in Generator!Kinds
              /\ Generator!Lines[k].word \in STRING
              /\ Generator!Lines[k].prefix \in Generator!Namespaces
              /\ Generator!Lines[k].digits \in Seq(Nat)
              /\ Generator!Lines[k].types \in Seq(Nat)
              /\ Generator!Lines[k].kind = "name" => Generator!Lines[k].word # ""
  <1>1. text \in Seq(Generator!Line)
    BY TextType DEF IsText
  <1>2. Generator!Lines \in Seq(Generator!Line)
    BY <1>1 DEF Generator!Lines
  <1>3. Len(Generator!Lines) \in Nat /\ DOMAIN Generator!Lines = 1..Len(Generator!Lines)
    BY <1>2, LenProperties
  <1>4. ASSUME NEW k \in 1..Len(Generator!Lines)
        PROVE  /\ Generator!Lines[k] \in Generator!Line
               /\ Generator!Lines[k].kind = "name" => Generator!Lines[k].word # ""
    <2>1. Generator!Lines[k] \in Generator!Line
      BY <1>2, <1>4, ElementOfSeq
    <2>2. k \in DOMAIN text
      BY <1>3 DEF Generator!Lines
    <2>3. text # <<>>
      BY <2>2
    <2>4. text \in Generator!Texts
      BY <2>3 DEF IsText
    <2>5. Generator!Lines[k].kind = "name" => Generator!Lines[k].word # ""
      BY <2>2, <2>4, GeneratorAssumptions DEF Generator!DocumentsAssumption, Generator!Lines
    <2> QED BY <2>1, <2>5
  <1> QED BY <1>3, <1>4 DEF Generator!Line

\* How the names are counted.
LEMMA NamedEquation ==
  ASSUME IsText
  PROVE  /\ Generator!Named[0] = 0
         /\ \A k \in 1..Len(Generator!Lines) :
              Generator!Named[k] = IF Generator!IsName(k) THEN Generator!Named[k - 1] + 1
                                   ELSE Generator!Named[k - 1]
         /\ \A k \in 0..Len(Generator!Lines) : Generator!Named[k] \in Nat
  <1> DEFINE N == Len(Generator!Lines)
             Given(n) == Generator!IsName(n)
             step == [n \in 1..N |-> [v \in Nat |-> IF Given(n) THEN v + 1 ELSE v]]
             Of(f, n) == IF n = 0 THEN 0 ELSE IF Given(n) THEN f[n - 1] + 1 ELSE f[n - 1]
             Equation(f) == f = [n \in 0..N |-> Of(f, n)]
  <1>0. N \in Nat
    BY TextLines
  <1>1. PICK f : Recurs(f, N, 0, step)
    BY <1>0, RecursionExists
  <1> HIDE DEF Given
  <1>2. \A n \in 0..N : f[n] \in Nat
    <2>1. ASSUME NEW n \in 1..N, f[n - 1] \in Nat
          PROVE  f[n] \in Nat
      <3>1. f[n] = step[n][f[n - 1]]
        BY <1>1 DEF Recurs
      <3>2. step[n] = [v \in Nat |-> IF Given(n) THEN v + 1 ELSE v]
        OBVIOUS
      <3>3. \A v \in Nat : step[n][v] = IF Given(n) THEN v + 1 ELSE v
        BY <3>2
      <3>4. \A v \in Nat : (IF Given(n) THEN v + 1 ELSE v) \in Nat
        OBVIOUS
      <3> QED BY <2>1, <3>1, <3>3, <3>4
    <2>2. f[0] \in Nat
      BY <1>1 DEF Recurs
    <2> HIDE DEF N
    <2> QED BY <1>0, <2>1, <2>2, RecursionTyped
  <1>3. Equation(f)
    <2>1. ASSUME NEW n \in 0..N
          PROVE  f[n] = Of(f, n)
      <3>1. CASE n = 0
        BY <1>1, <3>1 DEF Recurs
      <3>2. CASE n # 0
        <4>1. n \in 1..N /\ n - 1 \in 0..N
          BY <1>0, <3>2
        <4>2. f[n] = step[n][f[n - 1]] /\ f[n - 1] \in Nat
          BY <1>1, <1>2, <4>1 DEF Recurs
        <4> QED BY <3>2, <4>1, <4>2
      <3> QED BY <3>1, <3>2
    <2>2. f = [n \in 0..N |-> f[n]]
      BY <1>1 DEF Recurs
    <2> HIDE DEF Of, N
    <2> QED BY <2>1, <2>2
  <1>4. PICK V : Equation(V) /\ Generator!Named = V
    <2>1. Generator!Named = CHOOSE g : Equation(g)
      BY DEF Generator!Named, Generator!Lines, Given
    <2>2. Equation(CHOOSE g : Equation(g))
      <3> HIDE DEF Equation
      <3> QED BY <1>3
    <2> HIDE DEF Equation
    <2> QED BY <2>1, <2>2
  <1>5. V[0] = 0 /\ \A n \in 1..N : V[n] = IF Given(n) THEN V[n - 1] + 1 ELSE V[n - 1]
    <2>1. V[0] = 0
      BY <1>0, <1>4
    <2>2. ASSUME NEW n \in 1..N
          PROVE  V[n] = IF Given(n) THEN V[n - 1] + 1 ELSE V[n - 1]
      <3>1. n \in 0..N /\ n # 0
        BY <1>0
      <3> QED BY <1>4, <3>1
    <2> QED BY <2>1, <2>2
  <1>6. \A n \in 0..N : V[n] \in Nat
    <2>1. \A n \in 1..N : V[n - 1] \in Nat => V[n] \in Nat
      BY <1>5
    <2>2. V[0] \in Nat
      BY <1>5
    <2> HIDE DEF N
    <2> QED BY <1>0, <2>1, <2>2, RecursionTyped
  <1> QED BY <1>4, <1>5, <1>6 DEF Given

\* The count never falls.
LEMMA NamedGrows ==
  ASSUME IsText, NEW a \in Nat, NEW b \in Nat,
         a <= b, b <= Len(Generator!Lines)
  PROVE  Generator!Named[a] <= Generator!Named[b]
  <1> DEFINE T == {n \in Nat : a <= n /\ n <= b => Generator!Named[a] <= Generator!Named[n]}
  <1>0. Len(Generator!Lines) \in Nat
    BY TextLines
  <1>1. 0 \in T
    <2>1. a <= 0 => a = 0 /\ 0 \in 0..Len(Generator!Lines)
      BY <1>0
    <2> QED BY <2>1, NamedEquation
  <1>2. ASSUME NEW n \in Nat, n \in T
        PROVE  n + 1 \in T
    <2>1. CASE a <= n /\ n + 1 <= b
      <3>1. n + 1 \in 1..Len(Generator!Lines) /\ (n + 1) - 1 = n /\ n <= b
            /\ n \in 0..Len(Generator!Lines) /\ a \in 0..Len(Generator!Lines)
        BY <1>0, <2>1
      <3>2. Generator!Named[n + 1] = Generator!Named[n] + 1
            \/ Generator!Named[n + 1] = Generator!Named[n]
        BY <3>1, NamedEquation
      <3>3. Generator!Named[a] <= Generator!Named[n]
        BY <1>2, <2>1, <3>1
      <3>4. Generator!Named[a] \in Nat /\ Generator!Named[n] \in Nat
        BY <3>1, NamedEquation
      <3> QED BY <3>2, <3>3, <3>4
    <2>2. CASE n + 1 = a
      <3>1. a \in 0..Len(Generator!Lines)
        BY <1>0
      <3>2. Generator!Named[a] \in Nat
        BY <3>1, NamedEquation
      <3> QED BY <2>2, <3>2
    <2>3. CASE ~ (a <= n + 1 /\ n + 1 <= b)
      BY <2>3
    <2> QED BY <2>1, <2>2, <2>3
  <1>3. b \in T
    <2> HIDE DEF T
    <2> QED BY <1>1, <1>2, NatSetInduction
  <1> QED BY <1>3

\* The lines of a step, what is named by them and who owns them.
LEMMA LineOwners ==
  ASSUME IsText, line \in 1..Len(Generator!Lines)
  PROVE  /\ line \in Nat /\ line - 1 \in 0..Len(Generator!Lines) /\ line \in 0..Len(Generator!Lines)
         /\ Generator!Named[line - 1] \in Nat /\ Generator!Named[line] \in Nat
         /\ Generator!Owner(line) \in Nat /\ Generator!Owner(line - 1) \in Nat
         /\ Generator!Owner(line - 1) >= 1
         /\ Generator!IsName(line) => Generator!Named[line] = Generator!Named[line - 1] + 1
         /\ ~ Generator!IsName(line) => Generator!Named[line] = Generator!Named[line - 1]
         /\ \A k \in 1..(line - 1) :
              /\ k \in 1..Len(Generator!Lines) /\ k < line /\ Generator!Named[k] \in Nat
              /\ Generator!Named[k] <= Generator!Named[line - 1]
              /\ Generator!Owner(k) \in Nat /\ Generator!Owner(k) <= Generator!Owner(line - 1)
         /\ \A k \in 1..line : Generator!IsName(k) => Generator!Named[k] >= 1
  <1>1. Len(Generator!Lines) \in Nat /\ line \in Nat
    <2>1. PICK N \in Nat : N = Len(Generator!Lines) /\ line \in 1..N
      BY TextLines
    <2> QED BY <2>1
  <1>2. line - 1 \in 0..Len(Generator!Lines) /\ line \in 0..Len(Generator!Lines)
    BY <1>1
  <1>3. /\ Generator!Named[line - 1] \in Nat /\ Generator!Named[line] \in Nat
        /\ Generator!IsName(line) => Generator!Named[line] = Generator!Named[line - 1] + 1
        /\ ~ Generator!IsName(line) => Generator!Named[line] = Generator!Named[line - 1]
    BY <1>2, NamedEquation
  <1>4. ASSUME NEW k \in 1..(line - 1)
        PROVE  /\ k \in 1..Len(Generator!Lines) /\ k < line /\ Generator!Named[k] \in Nat
               /\ Generator!Named[k] <= Generator!Named[line - 1]
    <2>1. k \in 1..Len(Generator!Lines) /\ k \in 0..Len(Generator!Lines) /\ k < line
          /\ k \in Nat /\ line - 1 \in Nat /\ k <= line - 1 /\ line - 1 <= Len(Generator!Lines)
      BY <1>1, <1>4
    <2> QED BY <2>1, NamedEquation, NamedGrows
  <1>5. ASSUME NEW k \in 1..line, Generator!IsName(k)
        PROVE  Generator!Named[k] >= 1
    <2>1. k \in 1..Len(Generator!Lines) /\ k - 1 \in 0..Len(Generator!Lines)
      BY <1>1
    <2>2. Generator!Named[k] = Generator!Named[k - 1] + 1 /\ Generator!Named[k - 1] \in Nat
      BY <1>5, <2>1, NamedEquation
    <2> QED BY <2>2
  <1> QED BY <1>1, <1>2, <1>3, <1>4, <1>5 DEF Generator!Owner

\* The last of some lines that are all before a line, and that line.
LEMMA LatestIs ==
  ASSUME NEW S, NEW n \in Nat, \A j \in S : j \in Nat /\ j < n
  PROVE  Generator!Latest(S \cup {n}) = n
  <1> DEFINE P(k) == k \in S \cup {n} /\ \A j \in S \cup {n} : j <= k
  <1>1. P(n)
    OBVIOUS
  <1>2. \A k : P(k) => k = n
    OBVIOUS
  <1>3. PICK k : k = Generator!Latest(S \cup {n}) /\ P(k)
    BY <1>1 DEF Generator!Latest
  <1> QED BY <1>2, <1>3

\* Reading does not change what the text says.
LEMMA SameText ==
  ASSUME text' = text
  PROVE  /\ IsText' <=> IsText
         /\ Generator!Lines' = Generator!Lines /\ Generator!Named' = Generator!Named
         /\ \A k : /\ Generator!InStructures(k)' <=> Generator!InStructures(k)
                   /\ Generator!IsName(k)' <=> Generator!IsName(k)
                   /\ Generator!Owner(k)' = Generator!Owner(k)
         /\ \A p, kind : Generator!OfKind(p, kind)' = Generator!OfKind(p, kind)
         /\ \A p : Generator!TypesTo(p)' = Generator!TypesTo(p)
  BY DEF IsText, Generator!Texts, Generator!Lines, Generator!InStructures, Generator!IsName,
         Generator!Named, Generator!Owner, Generator!OfKind, Generator!TypesTo

\* The types of a property, line by line.
LEMMA TypesEquation ==
  ASSUME IsText, NEW p
  PROVE  /\ Generator!TypesTo(p)[0] = <<>>
         /\ \A k \in 1..Len(Generator!Lines) :
              Generator!TypesTo(p)[k] =
                IF k \in Generator!OfKind(p, "types")
                THEN Generator!TypesTo(p)[k - 1] \o Generator!Lines[k].types
                ELSE Generator!TypesTo(p)[k - 1]
  <1> DEFINE N == Len(Generator!Lines)
             K == Generator!OfKind(p, "types")
             types(n) == Generator!Lines[n].types
             step == [n \in 1..N |-> [v \in Seq(Nat) |-> IF n \in K THEN v \o types(n) ELSE v]]
             Of(f, n) == IF n = 0 THEN <<>>
                         ELSE IF n \in K THEN f[n - 1] \o types(n) ELSE f[n - 1]
             Equation(f) == f = [n \in 0..N |-> Of(f, n)]
  <1>0. N \in Nat /\ \A n \in 1..N : types(n) \in Seq(Nat)
    BY TextLines
  <1>1. PICK f : Recurs(f, N, <<>>, step)
    BY <1>0, RecursionExists
  <1>2. \A n \in 1..N : \A v \in Seq(Nat) :
          /\ step[n][v] = IF n \in K THEN v \o types(n) ELSE v
          /\ step[n][v] \in Seq(Nat)
    <2>1. ASSUME NEW n \in 1..N, NEW v \in Seq(Nat)
          PROVE  step[n][v] = IF n \in K THEN v \o types(n) ELSE v
      <3> HIDE DEF N, K, types
      <3>1. step[n] = [w \in Seq(Nat) |-> IF n \in K THEN w \o types(n) ELSE w]
        OBVIOUS
      <3> HIDE DEF step
      <3>2. \A w \in Seq(Nat) : step[n][w] = IF n \in K THEN w \o types(n) ELSE w
        BY <3>1
      <3> QED BY <3>2
    <2>2. ASSUME NEW n \in 1..N, NEW v \in Seq(Nat)
          PROVE  v \o types(n) \in Seq(Nat)
      <3> HIDE DEF N, K, types
      <3> QED BY <1>0, ConcatProperties
    <2> HIDE DEF step, K, types, N
    <2> QED BY <2>1, <2>2
  <1>3. \A n \in 0..N : f[n] \in Seq(Nat)
    <2> HIDE DEF N, K, types, step
    <2>1. ASSUME NEW n \in 1..N, f[n - 1] \in Seq(Nat)
          PROVE  f[n] \in Seq(Nat)
      <3>1. f[n] = step[n][f[n - 1]]
        BY <1>1 DEF Recurs
      <3> QED BY <1>2, <2>1, <3>1
    <2>2. f[0] \in Seq(Nat)
      <3>1. f[0] = <<>>
        BY <1>1 DEF Recurs
      <3> QED BY <3>1, EmptySeq
    <2> QED BY <1>0, <2>1, <2>2, RecursionTyped
  <1> HIDE DEF K, types
  <1>4. Equation(f)
    <2> HIDE DEF step
    <2>1. ASSUME NEW n \in 0..N
          PROVE  f[n] = Of(f, n)
      <3>1. CASE n = 0
        BY <1>1, <3>1 DEF Recurs
      <3>2. CASE n # 0
        <4>1. n \in 1..N /\ n - 1 \in 0..N
          BY <1>0, <3>2
        <4>2. f[n] = step[n][f[n - 1]] /\ f[n - 1] \in Seq(Nat)
          BY <1>1, <1>3, <4>1 DEF Recurs
        <4>3. f[n] = IF n \in K THEN f[n - 1] \o types(n) ELSE f[n - 1]
          BY <1>2, <4>1, <4>2
        <4> QED BY <3>2, <4>3
      <3> QED BY <3>1, <3>2
    <2>2. f = [n \in 0..N |-> f[n]]
      BY <1>1 DEF Recurs
    <2> HIDE DEF Of, N
    <2> QED BY <2>1, <2>2
  <1>5. PICK V : Equation(V) /\ Generator!TypesTo(p) = V
    <2>1. Generator!TypesTo(p) = CHOOSE g : Equation(g)
      BY DEF Generator!TypesTo, K, types
    <2>2. Equation(CHOOSE g : Equation(g))
      <3> HIDE DEF Equation
      <3> QED BY <1>4
    <2> HIDE DEF Equation
    <2> QED BY <2>1, <2>2
  <1>6. V[0] = <<>>
    BY <1>0, <1>5
  <1>7. ASSUME NEW n \in 1..N
        PROVE  V[n] = IF n \in K THEN V[n - 1] \o types(n) ELSE V[n - 1]
    <2>1. n \in 0..N /\ n # 0
      BY <1>0
    <2> QED BY <1>5, <2>1
  <1> QED BY <1>5, <1>6, <1>7 DEF K, types

LEMMA TypesTyped ==
  ASSUME IsText, NEW p
  PROVE  \A k \in 0..Len(Generator!Lines) : Generator!TypesTo(p)[k] \in Seq(Nat)
  <1> DEFINE N == Len(Generator!Lines)
             f == Generator!TypesTo(p)
  <1>1. N \in Nat /\ f[0] \in Seq(Nat)
    BY TextLines, TypesEquation, EmptySeq
  <1>2. ASSUME NEW n \in 1..N, f[n - 1] \in Seq(Nat)
        PROVE  f[n] \in Seq(Nat)
    <2>1. Generator!Lines[n].types \in Seq(Nat)
      BY TextLines
    <2>2. f[n - 1] \o Generator!Lines[n].types \in Seq(Nat)
      <3> HIDE DEF f
      <3> QED BY <1>2, <2>1, ConcatProperties
    <2>3. f[n] = f[n - 1] \o Generator!Lines[n].types \/ f[n] = f[n - 1]
      BY TypesEquation
    <2> QED BY <1>2, <2>2, <2>3
  <1> HIDE DEF N, f
  <1>3. \A n \in 0..N : f[n] \in Seq(Nat)
    BY <1>1, <1>2, RecursionTyped
  <1> QED BY <1>3 DEF N, f

\* A property that has no line yet has no types.
LEMMA TypesNone ==
  ASSUME IsText, NEW p, NEW b \in 0..Len(Generator!Lines),
         \A k \in 1..b : k \notin Generator!OfKind(p, "types")
  PROVE  Generator!TypesTo(p)[b] = <<>>
  <1> DEFINE f == Generator!TypesTo(p)
  <1>1. Len(Generator!Lines) \in Nat /\ f[0] \in {<<>>} /\ b \in Nat
    <2>1. PICK N \in Nat : N = Len(Generator!Lines) /\ b \in 0..N
      BY TextLines
    <2> QED BY <2>1, TypesEquation, SMTT(30)
  <1>2. ASSUME NEW n \in 1..b, f[n - 1] \in {<<>>}
        PROVE  f[n] \in {<<>>}
    <2>1. n \in 1..Len(Generator!Lines)
      BY <1>1
    <2> QED BY <1>2, <2>1, TypesEquation
  <1> HIDE DEF f
  <1>3. \A n \in 0..b : f[n] \in {<<>>}
    BY <1>1, <1>2, RecursionTyped
  <1>4. b \in 0..b
    BY <1>1
  <1> QED BY <1>3, <1>4 DEF f

\* What a line adds to what has been read.
Adds(k, p, kind) ==
  Generator!Lines[k].kind = kind /\ Generator!InStructures(k) /\ Generator!Owner(k) = p

LEMMA LineRead ==
  ASSUME IsText, line \in 1..Len(Generator!Lines),
         text' = text, line' = line + 1
  PROVE  /\ \A p, kind : Generator!WordOf(p, kind)' =
              IF Adds(line, p, kind) THEN Generator!Lines[line].word
              ELSE Generator!WordOf(p, kind)
         /\ \A p : Generator!DigitsOf(p)' =
              IF Adds(line, p, "id") THEN Generator!Lines[line].digits ELSE Generator!DigitsOf(p)
         /\ \A p : Generator!TypesOf(p)' =
              IF Adds(line, p, "types") THEN Generator!TypesOf(p) \o Generator!Lines[line].types
              ELSE Generator!TypesOf(p)
  <1>0. line \in Nat /\ line + 1 \in Nat
    BY LineOwners
  <1>1. ASSUME NEW p, NEW kind
        PROVE  /\ \A j \in Generator!ReadOf(p, kind) : j \in Nat /\ j < line
               /\ Generator!ReadOf(p, kind)' = IF Adds(line, p, kind)
                                               THEN Generator!ReadOf(p, kind) \cup {line}
                                               ELSE Generator!ReadOf(p, kind)
               /\ line \in Generator!OfKind(p, kind) <=> Adds(line, p, kind)
    <2>1. line \in Generator!OfKind(p, kind) <=> Adds(line, p, kind)
      BY DEF Generator!OfKind, Adds
    <2>2. \A j \in Generator!OfKind(p, kind) : j \in Nat
      <3>1. PICK N \in Nat : N = Len(Generator!Lines)
        BY TextLines
      <3> QED BY <3>1, SMTT(30) DEF Generator!OfKind
    <2>3. Generator!ReadOf(p, kind)' = {k \in Generator!OfKind(p, kind) : k < line + 1}
      BY SameText DEF Generator!ReadOf
    <2>4. \A j \in Generator!OfKind(p, kind) : j < line + 1 <=> j < line \/ j = line
      BY <1>0, <2>2
    <2> QED BY <2>1, <2>2, <2>3, <2>4 DEF Generator!ReadOf
  <1>2. ASSUME NEW p, NEW kind, Adds(line, p, kind)
        PROVE  /\ Generator!ReadOf(p, kind)' # {}
               /\ Generator!Latest(Generator!ReadOf(p, kind))' = line
    <2>1. Generator!ReadOf(p, kind)' = Generator!ReadOf(p, kind) \cup {line}
      BY <1>1, <1>2
    <2>2. Generator!Latest(Generator!ReadOf(p, kind) \cup {line}) = line
      BY <1>0, <1>1, LatestIs
    <2>3. Generator!Latest(Generator!ReadOf(p, kind))' = Generator!Latest(Generator!ReadOf(p, kind)')
      BY DEF Generator!Latest
    <2> QED BY <2>1, <2>2, <2>3
  <1>3. ASSUME NEW p, NEW kind, ~ Adds(line, p, kind)
        PROVE  /\ Generator!ReadOf(p, kind)' = Generator!ReadOf(p, kind)
               /\ Generator!Latest(Generator!ReadOf(p, kind))' =
                    Generator!Latest(Generator!ReadOf(p, kind))
    BY <1>1, <1>3 DEF Generator!Latest
  <1>4. ASSUME NEW p, NEW kind
        PROVE  Generator!WordOf(p, kind)' = IF Adds(line, p, kind) THEN Generator!Lines[line].word
                                            ELSE Generator!WordOf(p, kind)
    BY <1>2, <1>3, SameText DEF Generator!WordOf
  <1>5. ASSUME NEW p
        PROVE  Generator!DigitsOf(p)' = IF Adds(line, p, "id") THEN Generator!Lines[line].digits
                                        ELSE Generator!DigitsOf(p)
    BY <1>2, <1>3, SameText DEF Generator!DigitsOf
  <1>6. ASSUME NEW p
        PROVE  Generator!TypesOf(p)' =
                 IF Adds(line, p, "types") THEN Generator!TypesOf(p) \o Generator!Lines[line].types
                 ELSE Generator!TypesOf(p)
    <2>1. (line + 1) - 1 = line
      BY <1>0
    <2>2. Generator!TypesOf(p)' = Generator!TypesTo(p)[line]
      BY <2>1, SameText DEF Generator!TypesOf
    <2> QED BY <1>1, <2>2, TypesEquation DEF Generator!TypesOf
  <1> QED BY <1>4, <1>5, <1>6

\* A line that names no property leaves those before the last as they were read.
LEMMA PartKept ==
  ASSUME IsText, line \in 1..Len(Generator!Lines), InProgress,
         text' = text, line' = line + 1, properties' = properties,
         ~ Generator!IsName(line), property'.name = property.name,
         property'.prefix = property.prefix,
         NEW last, last = Generator!Owner(line - 1), Describes(property, last)'
  PROVE  InProgress'
  <1>0. /\ line \in Nat /\ (line + 1) - 1 = line /\ last \in Nat
        /\ Generator!Owner(line) = last /\ Generator!Named[line] = Generator!Named[line - 1]
    BY LineOwners DEF Generator!Owner
  <1>2. Generator!Owner(line - 1)' = last
    <2>1. Generator!Named[line - 1]' = Generator!Named[line]
      BY <1>0, SameText
    <2> QED BY <1>0, <2>1 DEF Generator!Owner
  <1>3. Len(properties') = last - 1
    BY DEF InProgress
  <1>4. ASSUME NEW p \in 1..(last - 1)
        PROVE  Describes(properties[p], p)'
    <2>1. p # last
      BY <1>0
    <2>2. \A kind : ~ Adds(line, p, kind)
      BY <1>0, <2>1 DEF Adds
    <2>3. Describes(properties[p], p)
      BY DEF InProgress
    <2>4. /\ \A kind : Generator!WordOf(p, kind)' = Generator!WordOf(p, kind)
          /\ Generator!DigitsOf(p)' = Generator!DigitsOf(p)
          /\ Generator!TypesOf(p)' = Generator!TypesOf(p)
      BY <2>2, LineRead
    <2> QED BY <2>3, <2>4 DEF Describes
  <1>5. ASSUME NEW k \in 1..line, Generator!IsName(k)
        PROVE  NamedBy(IF Generator!Named[k] = last THEN property ELSE properties[Generator!Named[k]], k)'
    <2>1. k \in 1..(line - 1)
      BY <1>0, <1>5
    <2>2. NamedBy(IF Generator!Named[k] = last THEN property ELSE properties[Generator!Named[k]], k)
      BY <1>5, <2>1 DEF InProgress
    <2> QED BY <2>2, SameText DEF NamedBy
  <1>6. property'.name = "" <=> Generator!Named[line] = 0
    BY <1>0 DEF InProgress
  <1>7. line' - 1 = line /\ Generator!Named[line - 1]' = Generator!Named[line]
    BY <1>0, SameText
  <1> QED BY <1>2, <1>3, <1>4, <1>5, <1>6, <1>7, SameText DEF InProgress

\* A line outside the structures, and one of another kind, changes nothing.
LEMMA QuietLine ==
  ASSUME IsText, line \in 1..Len(Generator!Lines), InProgress,
         text' = text, line' = line + 1, UNCHANGED <<property, properties>>,
         ~ Generator!InStructures(line)
           \/ Generator!Lines[line].kind \notin {"name", "set", "id", "types", "area"}
  PROVE  InProgress'
  <1>1. PICK last : last = Generator!Owner(line - 1)
    OBVIOUS
  <1>2. /\ ~ Generator!IsName(line)
        /\ \A kind \in {"set", "id", "types", "area"} : ~ Adds(line, last, kind)
    BY DEF Generator!IsName, Adds
  <1>3. /\ \A kind \in {"set", "area"} : Generator!WordOf(last, kind)' = Generator!WordOf(last, kind)
        /\ Generator!DigitsOf(last)' = Generator!DigitsOf(last)
        /\ Generator!TypesOf(last)' = Generator!TypesOf(last)
    BY <1>2, LineRead
  <1>4. Describes(property, last)
    BY <1>1 DEF InProgress
  <1>5. Describes(property, last)'
    BY <1>3, <1>4 DEF Describes
  <1> QED BY <1>1, <1>2, <1>5, PartKept

\* What a line can set, and its effect on what the lines of the property say.
LEMMA FieldSet ==
  ASSUME IsText, line \in 1..Len(Generator!Lines), InProgress,
         property \in PropertyRecord,
         text' = text, line' = line + 1, Generator!InStructures(line),
         Generator!Readable(Generator!Lines[line]), Generator!SetField(Generator!Lines[line])
  PROVE  InProgress' /\ property' \in PropertyRecord /\ properties' = properties
  <1> DEFINE l == Generator!Lines[line]
  <1>1. PICK last : last = Generator!Owner(line - 1)
    OBVIOUS
  <1>2. /\ ~ Generator!IsName(line) /\ properties' = properties
        /\ \A kind : Adds(line, last, kind) <=> l.kind = kind
    <2>1. ~ Generator!IsName(line) /\ properties' = properties
      BY DEF Generator!IsName, Generator!SetField
    <2>2. Generator!Owner(line) = last
      BY <1>1, <2>1, LineOwners DEF Generator!Owner
    <2> QED BY <2>1, <2>2 DEF Adds
  <1>3. /\ \A kind : Generator!WordOf(last, kind)' =
                       IF l.kind = kind THEN l.word ELSE Generator!WordOf(last, kind)
        /\ Generator!DigitsOf(last)' = IF l.kind = "id" THEN l.digits ELSE Generator!DigitsOf(last)
        /\ Generator!TypesOf(last)' = IF l.kind = "types" THEN Generator!TypesOf(last) \o l.types
                                      ELSE Generator!TypesOf(last)
    BY <1>2, LineRead
  <1>4. Describes(property, last)
    BY <1>1 DEF InProgress
  <1>5. l.word \in Words /\ l.digits \in Seq(Nat) /\ l.types \in Seq(Nat)
    BY TextLines DEF Words
  <1>6. property' =
          CASE l.kind = "set"   -> [property EXCEPT !.set = l.word]
            [] l.kind = "id"    -> [property EXCEPT !.id = Generator!PropertyID(property.prefix, l.digits)]
            [] l.kind = "types" -> [property EXCEPT !.types = property.types \o l.types]
            [] l.kind = "area"  -> [property EXCEPT !.area = l.word]
            [] OTHER -> property
    BY DEF Generator!SetField
  <1> HIDE DEF l
  <1>7. /\ property' \in PropertyRecord /\ Describes(property, last)'
        /\ property'.name = property.name /\ property'.prefix = property.prefix
    <2>1. CASE l.kind = "set"
      <3>1. property' = [property EXCEPT !.set = l.word]
        BY <1>6, <2>1
      <3> QED BY <1>3, <1>4, <1>5, <2>1, <3>1
          DEF Describes, PropertyRecord, Generator!IdentifierAsWritten
    <2>2. CASE l.kind = "id"
      <3>1. property' = [property EXCEPT !.id = Generator!PropertyID(property.prefix, l.digits)]
        BY <1>6, <2>2
      <3>2. property.prefix \in {"Lid", "Tag"}
        BY <2>2 DEF Generator!Readable, Generator!Parses, Generator!IdBits, l
      <3>3. /\ Generator!IdBits[property.prefix] \in Nat \ {0}
            /\ \/ Generator!IdBits[property.prefix] = 16
               \/ property.prefix = "Lid" /\ Generator!IdBits[property.prefix] = 32
        BY <3>2 DEF Generator!IdBits
      <3>4. PICK v \in Nat :
              /\ v = Generator!PropertyID(property.prefix, l.digits)
              /\ \/ v = Generator!Value(l.digits, 16)
                 \/ property.prefix = "Lid" /\ v = Generator!Value(l.digits, 32)
        BY <1>5, <3>3, ValueTyped DEF Generator!PropertyID
      <3>5. property' = [property EXCEPT !.id = v]
        BY <3>1, <3>4
      <3>6. property' \in PropertyRecord
        BY <3>5 DEF PropertyRecord
      <3>7. /\ property'.id = v /\ property'.set = property.set /\ property'.area = property.area
            /\ property'.types = property.types /\ property'.name = property.name
            /\ property'.prefix = property.prefix
        BY <3>5 DEF PropertyRecord
      <3>8. Describes(property, last)'
        BY <1>3, <1>4, <2>2, <3>4, <3>7 DEF Describes, Generator!IdentifierAsWritten
      <3> QED BY <3>6, <3>7, <3>8
    <2>3. CASE l.kind = "types"
      <3>1. property' = [property EXCEPT !.types = property.types \o l.types]
        BY <1>6, <2>3
      <3>2. property.types \in Seq(Nat)
        BY DEF PropertyRecord
      <3>3. PICK both \in Seq(Nat) : both = property.types \o l.types
        BY <1>5, <3>2, ConcatProperties
      <3>4. property' = [property EXCEPT !.types = both]
        BY <3>1, <3>3
      <3>5. property' \in PropertyRecord
        BY <3>4 DEF PropertyRecord
      <3>6. /\ property'.id = property.id /\ property'.set = property.set
            /\ property'.area = property.area /\ property'.types = both
            /\ property'.name = property.name /\ property'.prefix = property.prefix
        BY <3>4 DEF PropertyRecord
      <3>7. Describes(property, last)'
        BY <1>3, <1>4, <2>3, <3>3, <3>6 DEF Describes, Generator!IdentifierAsWritten
      <3> QED BY <3>5, <3>6, <3>7
    <2>4. CASE l.kind = "area"
      <3>1. property' = [property EXCEPT !.area = l.word]
        BY <1>6, <2>4
      <3> QED BY <1>3, <1>4, <1>5, <2>4, <3>1
          DEF Describes, PropertyRecord, Generator!IdentifierAsWritten
    <2>5. CASE l.kind \notin {"set", "id", "types", "area"}
      <3>1. property' = property
        BY <1>6, <2>5
      <3> QED BY <1>3, <1>4, <2>5, <3>1 DEF Describes, Generator!IdentifierAsWritten
    <2> QED BY <2>1, <2>2, <2>3, <2>4, <2>5
  <1> QED BY <1>1, <1>2, <1>7, PartKept

\* A property that no line has been read of is described by NoProperty.
LEMMA NothingRead ==
  ASSUME IsText, line \in 1..(Len(Generator!Lines) + 1), NEW p,
         \A kind \in {"set", "id", "types", "area"} :
           \A k \in 1..(line - 1) : k \notin Generator!OfKind(p, kind)
  PROVE  /\ Generator!WordOf(p, "set") = "" /\ Generator!WordOf(p, "area") = ""
         /\ Generator!DigitsOf(p) = <<>> /\ Generator!TypesOf(p) = <<>>
  <1>1. PICK N \in Nat, n \in Nat : N = Len(Generator!Lines) /\ line = n + 1 /\ n <= N
    <2>1. PICK N \in Nat : N = Len(Generator!Lines) /\ line \in 1..(N + 1)
      BY TextLines
    <2>2. line - 1 \in Nat /\ line = (line - 1) + 1 /\ line - 1 <= N
      BY <2>1
    <2> QED BY <2>1, <2>2
  <1>2. ASSUME NEW kind \in {"set", "id", "types", "area"}
        PROVE  Generator!ReadOf(p, kind) = {}
    <2>1. \A k \in 1..N : k < line => k \in 1..(line - 1)
      BY <1>1
    <2> QED BY <1>1, <2>1 DEF Generator!ReadOf, Generator!OfKind
  <1>3. Generator!TypesOf(p) = <<>>
    <2>1. n \in 0..Len(Generator!Lines) /\ line - 1 = n
      BY <1>1
    <2> QED BY <2>1, TypesNone DEF Generator!TypesOf
  <1> QED BY <1>2, <1>3 DEF Generator!WordOf, Generator!DigitsOf

\* A name is the first, or ends the property before it.
LEMMA NameRead ==
  ASSUME IsText, line \in 1..Len(Generator!Lines), InProgress,
         property \in PropertyRecord, properties \in Seq(PropertyRecord),
         text' = text, line' = line + 1, Generator!InStructures(line),
         Generator!StartProperty(Generator!Lines[line])
  PROVE  InProgress' /\ property' \in PropertyRecord /\ properties' \in Seq(PropertyRecord)
  <1> DEFINE l == Generator!Lines[line]
  <1>0. line \in Nat /\ (line + 1) - 1 = line /\ line' - 1 = line
    <2>1. line \in Nat
      BY LineOwners
    <2> QED BY <2>1
  <1>a. l.kind = "name" /\ Generator!IsName(line)
    BY DEF Generator!StartProperty, Generator!IsName
  <1>b. l.word \in Words /\ l.word # "" /\ l.prefix \in Generator!Namespaces
    BY <1>a, TextLines DEF Words
  <1>1. PICK last \in Nat, n \in Nat :
          /\ last = Generator!Owner(line - 1) /\ n = Generator!Named[line - 1] /\ last >= 1
          /\ Generator!Named[line] = n + 1 /\ Generator!Owner(line) = n + 1
          /\ last = IF n = 0 THEN 1 ELSE n
    <2>1. /\ Generator!Owner(line - 1) \in Nat /\ Generator!Owner(line - 1) >= 1
          /\ Generator!Named[line - 1] \in Nat
          /\ Generator!Named[line] = Generator!Named[line - 1] + 1
      BY <1>a, LineOwners
    <2>2. \A n \in Nat : n + 1 # 0
      OBVIOUS
    <2> QED BY <2>1, <2>2 DEF Generator!Owner
  <1>2. /\ Generator!Owner(line - 1)' = n + 1 /\ Generator!Named[line - 1]' = n + 1
        /\ Generator!Named' = Generator!Named
        /\ \A k : Generator!IsName(k)' <=> Generator!IsName(k)
    <2>1. Generator!Named[line - 1]' = n + 1
      BY <1>0, <1>1, SameText
    <2>2. Generator!Owner(line - 1)' = n + 1
      BY <1>1, <2>1 DEF Generator!Owner
    <2> QED BY <2>1, <2>2, SameText
  <1>3. \A p : \A kind \in {"set", "id", "types", "area"} : ~ Adds(line, p, kind)
    BY <1>a DEF Adds
  <1>4. \A p : /\ \A kind \in {"set", "area"} : Generator!WordOf(p, kind)' = Generator!WordOf(p, kind)
               /\ Generator!DigitsOf(p)' = Generator!DigitsOf(p)
               /\ Generator!TypesOf(p)' = Generator!TypesOf(p)
    BY <1>3, LineRead
  <1>5. \A q, p : Describes(q, p) => /\ q.set = Generator!WordOf(p, "set")'
                                     /\ q.area = Generator!WordOf(p, "area")'
                                     /\ q.types = Generator!TypesOf(p)'
                                     /\ Generator!IdentifierAsWritten(q, Generator!DigitsOf(p)')
    BY <1>4 DEF Describes
  <1>6. /\ Len(properties) = last - 1 /\ \A p \in 1..(last - 1) : Describes(properties[p], p)
        /\ Describes(property, last) /\ (property.name = "" <=> n = 0)
        /\ property.name = "" => property.prefix = ""
    BY <1>1 DEF InProgress
  <1>7. ASSUME NEW k \in 1..(line - 1), Generator!IsName(k)
        PROVE  /\ Generator!Named[k] \in 1..n
               /\ NamedBy(IF Generator!Named[k] = last THEN property
                          ELSE properties[Generator!Named[k]], k)
    <2>1. Generator!Named[k] \in Nat /\ Generator!Named[k] <= n /\ Generator!Named[k] >= 1
      <3>1. k \in 1..line
        <4> HIDE DEF l
        <4> QED BY <1>0
      <3> QED BY <1>1, <1>7, <3>1, LineOwners
    <2>2. NamedBy(IF Generator!Named[k] = last THEN property ELSE properties[Generator!Named[k]], k)
      BY <1>1, <1>7 DEF InProgress
    <2> QED BY <2>1, <2>2
  <1>8. \A k \in 1..line : k = line \/ k \in 1..(line - 1)
    <2> HIDE DEF l
    <2> QED BY <1>0
  <1>9. \A q, k : NamedBy(q, k) => q.name = Generator!Lines'[k].word /\ q.prefix = Generator!Lines'[k].prefix
    BY SameText DEF NamedBy
  <1> HIDE DEF l
  <1>10. CASE n = 0
    <2>1. /\ property' = [property EXCEPT !.name = l.word, !.prefix = l.prefix]
          /\ properties' = properties /\ last = 1 /\ Len(properties') = 0
      <3>1. property.name = ""
        BY <1>6, <1>10
      <3>2. last = 1
        BY <1>1, <1>10
      <3>3. Len(properties) = 0
        <4>1. Len(properties) = 1 - 1
          BY <1>6, <3>2
        <4> QED BY <4>1
      <3> QED BY <3>1, <3>2, <3>3 DEF Generator!StartProperty, l
    <2>2. property' \in PropertyRecord
      BY <1>b, <2>1 DEF PropertyRecord
    <2>3. /\ property'.name = l.word /\ property'.prefix = l.prefix
          /\ property'.set = property.set /\ property'.area = property.area
          /\ property'.types = property.types /\ property'.id = property.id
      BY <2>1 DEF PropertyRecord
    <2>4. Describes(property, 1)'
      <3>1. /\ property.set = Generator!WordOf(1, "set")' /\ property.area = Generator!WordOf(1, "area")'
            /\ property.types = Generator!TypesOf(1)'
            /\ property.id = Generator!Value(Generator!DigitsOf(1)', 16)
        <4>1. Describes(property, 1) /\ property.prefix = ""
          BY <1>6, <1>10, <2>1
        <4> QED BY <1>5, <4>1 DEF Generator!IdentifierAsWritten
      <3> QED BY <2>3, <3>1 DEF Describes, Generator!IdentifierAsWritten
    <2>5. ASSUME NEW k \in 1..line, Generator!IsName(k)
          PROVE  k = line
      BY <1>7, <1>8, <1>10, <2>5
    <2>6. property'.name = Generator!Lines'[line].word /\ property'.prefix = Generator!Lines'[line].prefix
      BY <2>3, SameText DEF l
    <2>7. InProgress'
      <3>1. Generator!Owner(line - 1)' = 1 /\ Generator!Named[line - 1]' = 1 /\ Len(properties') = 1 - 1
        BY <1>2, <1>10, <2>1
      <3>2. \A p \in 1..(1 - 1) : FALSE
        OBVIOUS
      <3>3. \A k \in 1..line : Generator!IsName(k)' =>
              NamedBy(IF Generator!Named[k] = 1 THEN property ELSE properties[Generator!Named[k]], k)'
        <4>1. Generator!Named'[line] = 1
          BY <1>1, <1>2, <1>10
        <4> QED BY <1>2, <2>5, <2>6, <4>1 DEF NamedBy
      <3>4. property'.name # ""
        BY <1>b, <2>3
      <3>5. \A p \in 1..(Generator!Owner(line - 1)' - 1) : Describes(properties[p], p)'
        BY <3>1, <3>2
      <3>6. Describes(property, Generator!Owner(line - 1))'
        BY <2>4, <3>1 DEF Describes
      <3>7. \A k \in 1..(line' - 1) : Generator!IsName(k)' =>
              NamedBy(IF Generator!Named[k] = Generator!Owner(line - 1) THEN property
                      ELSE properties[Generator!Named[k]], k)'
        BY <1>0, <3>1, <3>3 DEF NamedBy
      <3>8. Len(properties') = Generator!Owner(line - 1)' - 1
            /\ (property'.name = "" <=> Generator!Named[line - 1]' = 0)
        <4>1. Generator!Named[line - 1]' # 0
          BY <3>1
        <4> QED BY <3>1, <3>4, <4>1
      <3> QED BY <3>4, <3>5, <3>6, <3>7, <3>8 DEF InProgress
    <2> QED BY <2>1, <2>2, <2>7
  <1>11. CASE n # 0
    <2>1. /\ property' = [Generator!NoProperty EXCEPT !.name = l.word, !.prefix = l.prefix]
          /\ properties' = Append(properties, property) /\ last = n
      BY <1>1, <1>6, <1>11 DEF Generator!StartProperty, l
    <2>2. /\ property'.name = l.word /\ property'.prefix = l.prefix
          /\ property'.set = "" /\ property'.area = ""
          /\ property'.types = <<>> /\ property'.id = 0 /\ property' \in PropertyRecord
      <3>1. <<>> \in Seq(Nat)
        BY EmptySeq
      <3>2. property' = [name |-> l.word, prefix |-> l.prefix, set |-> "", id |-> 0,
                         types |-> <<>>, area |-> ""]
        BY <2>1 DEF Generator!NoProperty
      <3>3. property' \in PropertyRecord
        <4>1. \A s, w \in Words, a \in Generator!Namespaces, t \in Seq(Nat), i \in Nat :
                [name |-> w, prefix |-> a, set |-> s, id |-> i, types |-> t, area |-> s]
                  \in PropertyRecord
          BY DEF PropertyRecord
        <4>2. "" \in Words /\ 0 \in Nat
          BY DEF Words
        <4> QED BY <1>b, <3>1, <3>2, <4>1, <4>2
      <3> QED BY <3>2, <3>3
    <2>3. /\ properties' \in Seq(PropertyRecord) /\ Len(properties') = n
          /\ \A p \in 1..(n - 1) : properties'[p] = properties[p]
          /\ properties'[n] = property
      <3>1. /\ Append(properties, property) \in Seq(PropertyRecord)
            /\ Len(Append(properties, property)) = Len(properties) + 1
            /\ \A p \in 1..Len(properties) : Append(properties, property)[p] = properties[p]
            /\ Append(properties, property)[Len(properties) + 1] = property
        BY AppendProperties
      <3>2. Len(properties) = n - 1 /\ (n - 1) + 1 = n
        <4>1. Len(properties) = n - 1
          BY <1>6, <2>1
        <4> QED BY <4>1
      <3> HIDE DEF l
      <3> QED BY <2>1, <3>1, <3>2
    <2>4. ASSUME NEW p \in 1..n
          PROVE  Describes(properties[p], p)'
      <3>1. Describes(properties'[p], p)
        <4>1. CASE p = n
          BY <1>6, <2>1, <2>3, <4>1
        <4>2. CASE p # n
          <5>1. p \in 1..(n - 1)
            BY <4>2
          <5> QED BY <1>6, <2>1, <2>3, <5>1
        <4> QED BY <4>1, <4>2
      <3> QED BY <1>5, <3>1 DEF Describes
    <2>5. Describes(property, n + 1)'
      <3>1. ASSUME NEW kind \in {"set", "id", "types", "area"}, NEW k \in 1..(line' - 1)
            PROVE  k \notin Generator!OfKind(n + 1, kind)
        <4>1. CASE k = line
          BY <1>3, <4>1 DEF Generator!OfKind, Adds
        <4>2. CASE k # line
          <5>1. k \in 1..(line - 1)
            BY <1>0, <1>8, <4>2
          <5>2. Generator!Owner(k) \in Nat /\ Generator!Owner(k) <= n
            BY <1>1, <2>1, <5>1, LineOwners
          <5>3. Generator!Owner(k) # n + 1
            BY <5>2
          <5> QED BY <5>3 DEF Generator!OfKind
        <4> QED BY <4>1, <4>2
      <3>2. \A kind \in {"set", "id", "types", "area"} :
              \A k \in 1..(line - 1) : k \notin Generator!OfKind(n + 1, kind)
        <4>1. \A k \in 1..(line - 1) : k \in 1..line
          BY <1>0
        <4> QED BY <1>0, <3>1, <4>1
      <3>3. line \in 1..(Len(Generator!Lines) + 1)
        <4>1. PICK N \in Nat : N = Len(Generator!Lines) /\ line \in 1..N
          BY TextLines
        <4> QED BY <4>1
      <3>4. /\ Generator!WordOf(n + 1, "set") = "" /\ Generator!WordOf(n + 1, "area") = ""
            /\ Generator!DigitsOf(n + 1) = <<>> /\ Generator!TypesOf(n + 1) = <<>>
        BY <3>2, <3>3, NothingRead
      <3>5. /\ Generator!WordOf(n + 1, "set")' = "" /\ Generator!WordOf(n + 1, "area")' = ""
            /\ Generator!DigitsOf(n + 1)' = <<>> /\ Generator!TypesOf(n + 1)' = <<>>
        BY <1>4, <3>4
      <3>6. Generator!Value(Generator!DigitsOf(n + 1)', 16) = 0
        BY <3>5, NoValue
      <3> QED BY <2>2, <3>5, <3>6 DEF Describes, Generator!IdentifierAsWritten
    <2>6. ASSUME NEW k \in 1..line, Generator!IsName(k)
          PROVE  NamedBy(IF Generator!Named[k] = n + 1 THEN property
                         ELSE properties[Generator!Named[k]], k)'
      <3>1. CASE k = line
        <4>1. property'.name = Generator!Lines'[line].word
              /\ property'.prefix = Generator!Lines'[line].prefix
          BY <2>2, SameText DEF l
        <4>2. Generator!Named'[k] = n + 1
          BY <1>1, <1>2, <3>1
        <4> QED BY <3>1, <4>1, <4>2 DEF NamedBy
      <3>2. CASE k # line
        <4>1. k \in 1..(line - 1)
          BY <1>8, <3>2
        <4>2. PICK p \in 1..n : p = Generator!Named[k]
          BY <1>7, <2>6, <4>1
        <4>3. NamedBy(properties'[p], k)
          <5>1. CASE p = n
            BY <1>7, <2>1, <2>3, <2>6, <4>1, <4>2, <5>1
          <5>2. CASE p # n
            <6>1. p \in 1..(n - 1)
              BY <5>2
            <6> QED BY <1>7, <2>1, <2>3, <2>6, <4>1, <4>2, <5>2, <6>1
          <5> QED BY <5>1, <5>2
        <4>4. p # n + 1 /\ Generator!Named'[k] = p
          BY <1>2, <4>2
        <4> QED BY <1>9, <4>3, <4>4 DEF NamedBy
      <3> QED BY <3>1, <3>2
    <2>7. InProgress'
      <3>1. n + 1 # 0 /\ (n + 1) - 1 = n
        OBVIOUS
      <3>2. property'.name # ""
        BY <1>b, <2>2
      <3> QED BY <1>0, <1>2, <2>2, <2>3, <2>4, <2>5, <2>6, <3>1, <3>2 DEF InProgress
    <2> QED BY <2>2, <2>3, <2>7
  <1> QED BY <1>10, <1>11

\* The property in progress is the last of all.
LEMMA AllAreDescribed ==
  ASSUME IsText, line \in 1..(Len(Generator!Lines) + 1), InProgress,
         property \in PropertyRecord, properties \in Seq(PropertyRecord)
  PROVE  AllDescribed(Append(properties, property))
  <1>1. PICK N \in Nat, b \in Nat : N = Len(Generator!Lines) /\ b = line - 1 /\ b <= N
    <2>1. PICK N \in Nat : N = Len(Generator!Lines) /\ line \in 1..(N + 1)
      BY TextLines
    <2>2. line - 1 \in Nat /\ line - 1 <= N
      BY <2>1
    <2> QED BY <2>1, <2>2
  <1>2. \A k \in 0..b : k \in 0..Len(Generator!Lines) /\ Generator!Named[k] \in Nat
    <2>1. \A k \in 0..b : k \in 0..Len(Generator!Lines)
      BY <1>1
    <2> QED BY <2>1, NamedEquation
  <1>3. PICK last \in Nat, n \in Nat :
          /\ last = Generator!Owner(b) /\ last >= 1
          /\ n = Generator!Named[b] /\ last = IF n = 0 THEN 1 ELSE n
    <2>1. b \in 0..b
      BY <1>1
    <2>2. Generator!Named[b] \in Nat
      BY <1>2, <2>1
    <2> QED BY <2>2 DEF Generator!Owner
  <1>4. /\ Len(properties) = last - 1 /\ \A p \in 1..(last - 1) : Describes(properties[p], p)
        /\ Describes(property, last)
        /\ \A k \in 1..b : Generator!IsName(k) =>
             NamedBy(IF Generator!Named[k] = last THEN property ELSE properties[Generator!Named[k]], k)
    BY <1>1, <1>3 DEF InProgress
  <1> DEFINE all == Append(properties, property)
  <1>5. /\ Len(all) = last /\ \A p \in 1..(last - 1) : all[p] = properties[p]
        /\ all[last] = property
    <2>1. /\ Len(all) = Len(properties) + 1 /\ all[Len(properties) + 1] = property
          /\ \A p \in 1..Len(properties) : all[p] = properties[p]
      BY AppendProperties
    <2>2. Len(properties) + 1 = last
      BY <1>4
    <2> QED BY <1>4, <2>1, <2>2
  <1> HIDE DEF all
  <1>6. ASSUME NEW k \in 1..b, Generator!IsName(k)
        PROVE  NamedBy(all[Generator!Named[k]], k)
    <2>1. PICK p \in 1..last : p = Generator!Named[k]
      <3>1. /\ k \in 1..Len(Generator!Lines) /\ k \in 0..b /\ k - 1 \in 0..b /\ k \in Nat /\ k <= b
            /\ b <= Len(Generator!Lines)
        BY <1>1
      <3>2. Generator!Named[k] = Generator!Named[k - 1] + 1
        BY <1>6, <3>1, NamedEquation
      <3>3. Generator!Named[k] \in Nat /\ Generator!Named[k - 1] \in Nat
        BY <1>2, <3>1
      <3>4. Generator!Named[k] <= n
        BY <1>3, <3>1, NamedGrows
      <3> QED BY <1>3, <3>2, <3>3, <3>4
    <2>2. CASE p = last
      BY <1>4, <1>5, <1>6, <2>1, <2>2
    <2>3. CASE p # last
      <3>1. p \in 1..(last - 1)
        BY <2>3
      <3> QED BY <1>4, <1>5, <1>6, <2>1, <2>3, <3>1
    <2> QED BY <2>2, <2>3
  <1>7. ASSUME NEW p \in 1..last
        PROVE  Describes(all[p], p)
    <2>1. CASE p = last
      BY <1>4, <1>5, <2>1
    <2>2. CASE p # last
      <3>1. p \in 1..(last - 1)
        BY <2>2
      <3> QED BY <1>4, <1>5, <3>1
    <2> QED BY <2>1, <2>2
  <1> QED BY <1>1, <1>3, <1>5, <1>6, <1>7 DEF AllDescribed, all

LEMMA FieldsEquation ==
  ASSUME Len(properties) \in Nat, NEW m
  PROVE  /\ Generator!FieldsTo(m)[0] = <<>>
         /\ \A n \in 1..Len(properties) :
              Generator!FieldsTo(m)[n] =
                IF Generator!Gives(properties[n], m)
                THEN Append(Generator!FieldsTo(m)[n - 1], Generator!Field(properties[n], 0))
                ELSE Generator!FieldsTo(m)[n - 1]
  <1> DEFINE N == Len(properties)
             W == {n \in 1..N : Generator!Gives(properties[n], m)}
             val == [n \in 1..N |-> Generator!Field(properties[n], 0)]
             Of(f, n) == IF n = 0 THEN <<>>
                         ELSE IF Generator!Gives(properties[n], m)
                              THEN Append(f[n - 1], Generator!Field(properties[n], 0))
                              ELSE f[n - 1]
             Equation(f) == f = [n \in 0..N |-> Of(f, n)]
  <1>1. PICK f : Selects(f, N, W, val)
    BY SelectionsExist
  <1>2. Equation(f)
    <2>1. ASSUME NEW n \in 0..N
          PROVE  f[n] = Of(f, n)
      <3>1. n = 0 \/ n \in 1..N
        OBVIOUS
      <3> QED BY <1>1, <3>1 DEF Selects
    <2>2. f = [n \in 0..N |-> f[n]]
      BY <1>1 DEF Selects
    <2> HIDE DEF Of
    <2> QED BY <2>1, <2>2
  <1>3. PICK F : Equation(F) /\ Generator!FieldsTo(m) = F
    <2>1. Generator!FieldsTo(m) = CHOOSE g : Equation(g)
      BY DEF Generator!FieldsTo
    <2>2. Equation(CHOOSE g : Equation(g))
      <3> HIDE DEF Equation
      <3> QED BY <1>2
    <2> HIDE DEF Equation
    <2> QED BY <2>1, <2>2
  <1>4. F[0] = <<>>
    BY <1>3
  <1>5. ASSUME NEW n \in 1..N
        PROVE  F[n] = IF Generator!Gives(properties[n], m)
                      THEN Append(F[n - 1], Generator!Field(properties[n], 0)) ELSE F[n - 1]
    <2>1. n \in 0..N /\ n # 0
      OBVIOUS
    <2> QED BY <1>3, <2>1
  <1> QED BY <1>3, <1>4, <1>5

LEMMA AllNumbered ==
  ASSUME BuildersInv, properties \in Seq(PropertyRecord)
  PROVE  \A m \in Generator!Messages :
           Numbered(Generator!Builder(m), Generator!FieldsOf(m), numbers[m])
  <1>1. CASE done = 0 /\ DOMAIN fields = {}
    <2>1. ASSUME NEW m \in Generator!Messages
          PROVE  Numbered(Generator!Builder(m), Generator!FieldsOf(m), numbers[m])
      <3>1. Generator!Builder(m) = <<>>
        BY <1>1 DEF Generator!Builder
      <3>2. Generator!FieldsOf(m) = <<>>
        <4>1. Len(properties) \in Nat
          BY LenProperties
        <4> QED BY <1>1, <4>1, FieldsEquation DEF Generator!FieldsOf
      <3>3. <<>> \in Seq(FieldRecord) /\ Len(<<>>) = 0 /\ \A n \in 1..0 : FALSE
        BY EmptySeq
      <3> QED BY <3>1, <3>2, <3>3 DEF Numbered
    <2> QED BY <2>1
  <1> QED BY <1>1 DEF BuildersInv

\* A bound that grows, and a field with a number above it.
LEMMA NumbersBounded ==
  ASSUME NEW made, NEW of, NEW b \in Nat, Numbered(made, of, b)
  PROVE  Numbered(made, of, b + 1)
  <1>1. ASSUME NEW n \in 1..Len(made)
        PROVE  made[n].number <= b + 1
    <2>1. made[n] \in FieldRecord
      BY ElementOfSeq DEF Numbered
    <2>2. PICK k \in Nat : k = made[n].number
      BY <2>1 DEF FieldRecord
    <2>3. k <= b
      BY <2>2 DEF Numbered
    <2> QED BY <2>2, <2>3
  <1> QED BY <1>1 DEF Numbered

LEMMA FieldNumbered ==
  ASSUME NEW made, NEW of, NEW b \in Nat, Numbered(made, of, b),
         NEW f \in FieldRecord, f.number = b + 1, NEW g \in FieldRecord,
         g = [f EXCEPT !.number = 0]
  PROVE  Numbered(Append(made, f), Append(of, g), b + 1)
  <1>1. made \in Seq(FieldRecord) /\ of \in Seq(FieldRecord) /\ Len(made) = Len(of)
    BY DEF Numbered
  <1>2. PICK N \in Nat : N = Len(made) /\ N = Len(of)
    BY <1>1, LenProperties
  <1> DEFINE made2 == Append(made, f)
             of2 == Append(of, g)
  <1>3. /\ made2 \in Seq(FieldRecord) /\ of2 \in Seq(FieldRecord)
        /\ Len(made2) = N + 1 /\ Len(of2) = N + 1
        /\ made2[N + 1] = f /\ of2[N + 1] = g
        /\ \A n \in 1..N : made2[n] = made[n] /\ of2[n] = of[n]
    BY <1>1, <1>2, AppendProperties
  <1> HIDE DEF made2, of2
  <1>4. \A n \in 1..N : /\ [made[n] EXCEPT !.number = 0] = of[n]
                        /\ made[n].number \in Nat /\ made[n].number <= b
    <2>1. ASSUME NEW n \in 1..N
          PROVE  made[n].number \in Nat
      <3>1. made[n] \in FieldRecord
        BY <1>1, <1>2, ElementOfSeq
      <3> QED BY <3>1 DEF FieldRecord
    <2> QED BY <1>2, <2>1 DEF Numbered
  <1>5. \A n \in 1..(N + 1) : n = N + 1 \/ n \in 1..N
    OBVIOUS
  <1>6. ASSUME NEW n \in 1..(N + 1)
        PROVE  [made2[n] EXCEPT !.number = 0] = of2[n] /\ made2[n].number <= b + 1
    <2>1. CASE n = N + 1
      BY <1>3, <2>1
    <2>2. CASE n \in 1..N
      <3>1. PICK k \in Nat : k = made[n].number /\ k <= b
        BY <1>4, <2>2
      <3>2. k <= b + 1
        BY <3>1
      <3> QED BY <1>3, <1>4, <2>2, <3>1, <3>2
    <2> QED BY <1>5, <2>1, <2>2
  <1>7. ASSUME NEW x \in 1..(N + 1), NEW y \in 1..(N + 1), x < y
        PROVE  made2[x].number < made2[y].number
    <2>1. x \in 1..N
      BY <1>7
    <2>2. CASE y = N + 1
      <3>1. PICK k \in Nat : k = made[x].number /\ k <= b
        BY <1>4, <2>1
      <3>2. k < b + 1
        BY <3>1
      <3> QED BY <1>3, <2>1, <2>2, <3>1, <3>2
    <2>3. CASE y \in 1..N
      BY <1>2, <1>3, <1>7, <2>1, <2>3 DEF Numbered
    <2> QED BY <1>5, <2>2, <2>3
  <1>8. Numbered(made2, of2, b + 1)
    BY <1>3, <1>6, <1>7 DEF Numbered
  <1> QED BY <1>8 DEF made2, of2

\* One property is done with.
LEMMA FieldGenerated ==
  ASSUME PlaceInRun, BuildersInv, FilesInv, Generator!GenerateField
  PROVE  BuildersInv'
  <1>0. /\ pc = "generate" /\ done < Len(properties) /\ done' = done + 1
        /\ properties' = properties /\ properties \in Seq(PropertyRecord)
        /\ numbers \in [Generator!Messages -> Nat]
    BY DEF Generator!GenerateField, Generator!parser, PlaceInRun, BuildersInv
  <1>1. PICK N \in Nat, d \in Nat :
          N = Len(properties) /\ d = done /\ d + 1 \in 1..N /\ d \in 0..N /\ done' = d + 1
    <2>1. Len(properties) \in Nat
      BY <1>0, LenProperties
    <2> QED BY <1>0, <2>1 DEF BuildersInv
  <1>2. PICK p \in PropertyRecord : p = properties[d + 1]
    BY <1>0, <1>1, ElementOfSeq
  <1>3. p.types \in Seq(Nat) /\ p.types[1] \in Nat
    <2>1. Generator!Valid(p)
      BY <1>0, <1>1, <1>2 DEF FilesInv, Passed
    <2>2. p.types \in Seq(Nat) /\ p.types # <<>>
      BY <2>1 DEF Generator!Valid, PropertyRecord
    <2>3. 1 \in 1..Len(p.types)
      <3>1. Len(p.types) \in Nat /\ Len(p.types) # 0
        BY <2>2, LenProperties, EmptySeq
      <3> QED BY <3>1
    <2> QED BY <2>2, <2>3, ElementOfSeq
  <1>4. \A n \in Nat : /\ Generator!Field(p, n) \in FieldRecord
                       /\ Generator!Field(p, n).number = n
                       /\ Generator!Field(p, 0) = [Generator!Field(p, n) EXCEPT !.number = 0]
    <2>1. p.name \in Words /\ p.id \in Nat
      BY DEF PropertyRecord
    <2> QED BY <1>3, <2>1 DEF Generator!Field, FieldRecord
  <1>5. ASSUME NEW m
        PROVE  /\ Generator!FieldsOf(m) = Generator!FieldsTo(m)[d]
               /\ Generator!FieldsOf(m)' =
                    IF Generator!Gives(p, m)
                    THEN Append(Generator!FieldsOf(m), Generator!Field(p, 0))
                    ELSE Generator!FieldsOf(m)
    <2>1. Generator!FieldsTo(m)' = Generator!FieldsTo(m)
      BY <1>0 DEF Generator!FieldsTo, Generator!Gives, Generator!Field
    <2>2. Generator!FieldsOf(m) = Generator!FieldsTo(m)[d]
          /\ Generator!FieldsOf(m)' = Generator!FieldsTo(m)[d + 1]
      BY <1>1, <2>1 DEF Generator!FieldsOf
    <2>3. (d + 1) - 1 = d
      OBVIOUS
    <2> QED BY <1>1, <1>2, <2>2, <2>3, FieldsEquation
  <1>6. \A m \in Generator!Messages :
          /\ Numbered(Generator!Builder(m), Generator!FieldsOf(m), numbers[m])
          /\ numbers[m] \in Nat
    BY <1>0, AllNumbered
  <1>7. done' \in 0..Len(properties')
    BY <1>0, <1>1
  <1>8. \A k \in 1..(d + 1) : k = d + 1 \/ k \in 1..d
    OBVIOUS
  <1>9. {properties[k].area : k \in 1..(d + 1)} = {properties[k].area : k \in 1..d} \cup {p.area}
    <2>1. \A k \in 1..d : k \in 1..(d + 1)
      OBVIOUS
    <2>2. d + 1 \in 1..(d + 1)
      OBVIOUS
    <2> QED BY <1>2, <1>8, <2>1, <2>2
  <1>10. DOMAIN fields =
           {MessageOf[a] : a \in DOMAIN MessageOf \cap {properties[k].area : k \in 1..d}}
    BY <1>1 DEF BuildersInv
  <1>11. CASE p.area \notin DOMAIN MessageOf
    <2>1. numbers' = numbers /\ fields' = fields
      BY <1>0, <1>1, <1>2, <1>11 DEF Generator!GenerateField
    <2>2. \A m : ~ Generator!Gives(p, m)
      BY <1>11 DEF Generator!Gives
    <2>3. \A m \in Generator!Messages :
            Numbered(Generator!Builder(m), Generator!FieldsOf(m), numbers[m])'
      <3>1. \A m : Generator!Builder(m)' = Generator!Builder(m)
                   /\ Generator!FieldsOf(m)' = Generator!FieldsOf(m)
        BY <1>5, <2>1, <2>2 DEF Generator!Builder
      <3> QED BY <1>6, <2>1, <3>1 DEF Numbered
    <2>4. DOMAIN fields' =
            {MessageOf[a] : a \in DOMAIN MessageOf \cap {properties[k].area : k \in 1..(d + 1)}}
      BY <1>9, <1>10, <1>11, <2>1
    <2> QED BY <1>0, <1>1, <1>7, <2>1, <2>3, <2>4 DEF BuildersInv, Generator!Messages
  <1>12. CASE p.area \in DOMAIN MessageOf
    <2>1. PICK m \in Generator!Messages : m = MessageOf[p.area]
      BY <1>12 DEF Generator!Messages
    <2>2. PICK n \in Nat : n = numbers[m]
      BY <1>6
    <2> DEFINE new == IF p.types[1] \in FieldTypes THEN <<Generator!Field(p, n + 1)>> ELSE <<>>
    <2>3. /\ numbers' = [numbers EXCEPT ![m] = n + 1]
          /\ fields' = [k \in DOMAIN fields \cup {m} |->
                          IF k = m THEN Generator!Builder(m) \o new ELSE fields[k]]
      BY <1>0, <1>1, <1>2, <1>12, <2>1, <2>2 DEF Generator!GenerateField, Generator!NextNumber
    <2>4. /\ numbers' \in [Generator!Messages -> Nat] /\ numbers'[m] = n + 1
          /\ \A k \in Generator!Messages : k # m => numbers'[k] = numbers[k]
      BY <1>0, <2>3
    <2>5. /\ Generator!Builder(m)' = Generator!Builder(m) \o new
          /\ \A k : k # m => Generator!Builder(k)' = Generator!Builder(k)
      BY <2>3 DEF Generator!Builder
    <2>6. ASSUME NEW k \in Generator!Messages, k # m
          PROVE  Numbered(Generator!Builder(k), Generator!FieldsOf(k), numbers[k])'
      <3>1. ~ Generator!Gives(p, k)
        BY <2>1, <2>6 DEF Generator!Gives
      <3>2. Generator!FieldsOf(k)' = Generator!FieldsOf(k)
        BY <1>5, <3>1
      <3>3. Generator!Builder(k)' = Generator!Builder(k) /\ numbers'[k] = numbers[k]
        BY <2>4, <2>5, <2>6
      <3>4. Numbered(Generator!Builder(k), Generator!FieldsOf(k), numbers[k])
        BY <1>6
      <3> HIDE DEF new
      <3> QED BY <3>2, <3>3, <3>4 DEF Numbered
    <2>7. Numbered(Generator!Builder(m), Generator!FieldsOf(m), n)
      BY <1>6, <2>2
    <2>8. Generator!Builder(m) \in Seq(FieldRecord)
      BY <2>7 DEF Numbered
    <2>9. Numbered(Generator!Builder(m)', Generator!FieldsOf(m)', n + 1)
      <3>1. CASE p.types[1] \in FieldTypes
        <4>1. Generator!Gives(p, m)
          BY <1>12, <2>1, <3>1 DEF Generator!Gives
        <4>2. Generator!FieldsOf(m)' = Append(Generator!FieldsOf(m), Generator!Field(p, 0))
          BY <1>5, <4>1
        <4>3. Generator!Builder(m)' = Append(Generator!Builder(m), Generator!Field(p, n + 1))
          BY <2>5, <2>8, <3>1, AppendIsConcat
        <4>4. Numbered(Append(Generator!Builder(m), Generator!Field(p, n + 1)),
                       Append(Generator!FieldsOf(m), Generator!Field(p, 0)), n + 1)
          <5>1. n + 1 \in Nat /\ 0 \in Nat
            OBVIOUS
          <5> HIDE DEF new
          <5> QED BY <1>4, <2>7, <5>1, FieldNumbered
        <4> QED BY <4>2, <4>3, <4>4
      <3>2. CASE p.types[1] \notin FieldTypes
        <4>1. ~ Generator!Gives(p, m)
          BY <3>2 DEF Generator!Gives
        <4>2. Generator!FieldsOf(m)' = Generator!FieldsOf(m)
          BY <1>5, <4>1
        <4>3. Generator!Builder(m)' = Generator!Builder(m)
          BY <2>5, <2>8, <3>2, ConcatEmptySeq
        <4> QED BY <2>7, <4>2, <4>3, NumbersBounded
      <3> QED BY <3>1, <3>2
    <2> HIDE DEF new
    <2>10. \A k \in Generator!Messages :
             Numbered(Generator!Builder(k), Generator!FieldsOf(k), numbers[k])'
      <3>1. Numbered(Generator!Builder(m), Generator!FieldsOf(m), numbers[m])'
        BY <2>4, <2>9 DEF Numbered
      <3> QED BY <2>6, <3>1
    <2>11. DOMAIN fields' =
             {MessageOf[a] : a \in DOMAIN MessageOf \cap {properties[k].area : k \in 1..(d + 1)}}
      <3>1. DOMAIN fields' = DOMAIN fields \cup {m}
        BY <2>3
      <3> QED BY <1>9, <1>10, <1>12, <2>1, <3>1
    <2> QED BY <1>0, <1>1, <1>7, <2>4, <2>10, <2>11 DEF BuildersInv, Generator!Messages
  <1> QED BY <1>11, <1>12

LEMMA GeneratorInit ==
  ASSUME Init, call = "generate"
  PROVE  GeneratorInv
  <1>1. Generator!Init
    BY DEF Init
  <1>2. document \in Documents /\ IsText /\ Len(Generator!Lines) \in Nat /\ {} \in Failures
    BY <1>1, TextLines, GeneratorAssumptions DEF IsText, Generator!Init, Generator!FailuresAssumption
  <1>3. \A S : <<>> \in Seq(S) /\ Len(<<>>) = 0
    BY EmptySeq
  <1>4. Generator!NoProperty \in PropertyRecord
    <2>1. \A s, w \in Words, a \in Generator!Namespaces, t \in Seq(Nat), i \in Nat :
            [name |-> w, prefix |-> a, set |-> s, id |-> i, types |-> t, area |-> s]
              \in PropertyRecord
      BY DEF PropertyRecord
    <2>2. "" \in Words /\ 0 \in Nat
      BY DEF Words
    <2>3. "" \in Generator!Namespaces
      BY DEF Generator!Namespaces
    <2> QED BY <1>3, <2>1, <2>2, <2>3 DEF Generator!NoProperty
  <1>5. PlaceInRun
    <2>1. 1 \in 1..(Len(Generator!Lines) + 1)
      BY <1>2
    <2>2. ~ Generator!InStructures(1)
      <3>1. \A j \in 1..(1 - 1) : FALSE
        OBVIOUS
      <3> QED BY <3>1 DEF Generator!InStructures
    <2>3. DOMAIN fields = {}
      BY <1>1 DEF Generator!Init
    <2> QED BY <1>1, <1>2, <1>3, <1>4, <2>1, <2>2, <2>3 DEF PlaceInRun, Generator!Init
  <1>6. WrittenInv
    BY <1>1 DEF WrittenInv, Generator!Init
  <1>7. BuildersInv
    <2>1. /\ done = 0 /\ properties = <<>> /\ numbers = [m \in Generator!Messages |-> 0]
          /\ DOMAIN fields = {} /\ 0 \in 0..0 /\ \A k \in 1..0 : FALSE
      BY <1>1 DEF Generator!Init
    <2>2. Len(properties) = 0
      BY <1>3, <2>1
    <2>4. {MessageOf[a] : a \in DOMAIN MessageOf \cap {properties[k].area : k \in 1..done}} = {}
      BY <2>1
    <2>5. numbers \in [Generator!Messages -> Nat]
      BY <2>1
    <2>6. done \in 0..Len(properties)
      BY <2>1, <2>2
    <2> QED BY <2>1, <2>4, <2>5, <2>6 DEF BuildersInv
  <1>8. FilesInv /\ TemporaryInv /\ FailuresInv
    <2>1. /\ pc = "download" /\ files = {} /\ list = <<>> /\ temporary = {} /\ deferred = {}
          /\ DOMAIN fields = {} /\ partial = {} /\ failed = {}
      BY <1>1 DEF Generator!Init
    <2> QED BY <2>1 DEF FilesInv, TemporaryInv, FailuresInv, Passed
  <1> QED BY <1>5, <1>6, <1>7, <1>8 DEF GeneratorInv, RunInv

\* Steps before the output: the fields are as they were.
LEMMA BuildersKept ==
  ASSUME BuildersInv, UNCHANGED <<properties, done, numbers, fields>>
  PROVE  BuildersInv'
  <1>1. \A m : Generator!Builder(m)' = Generator!Builder(m)
               /\ Generator!FieldsOf(m)' = Generator!FieldsOf(m)
    BY DEF Generator!Builder, Generator!FieldsOf, Generator!FieldsTo, Generator!Gives,
           Generator!Field
  <1>2. (\A m \in Generator!Messages :
           Numbered(Generator!Builder(m), Generator!FieldsOf(m), numbers[m])) =>
        \A m \in Generator!Messages :
          Numbered(Generator!Builder(m), Generator!FieldsOf(m), numbers[m])'
    BY <1>1 DEF Numbered
  <1> QED BY <1>2 DEF BuildersInv, Generator!Messages

\* Steps before the properties are known to be valid.
LEMMA BuildersNone ==
  ASSUME BuildersInv, done = 0, DOMAIN fields = {}, properties' \in Seq(PropertyRecord),
         UNCHANGED <<done, numbers, fields>>
  PROVE  BuildersInv'
  <1>1. /\ done' \in 0..Len(properties') /\ numbers' \in [Generator!Messages -> Nat]
        /\ \A k \in 1..0 : FALSE
    <2>1. Len(properties') \in Nat
      BY LenProperties
    <2> QED BY <2>1 DEF BuildersInv
  <1>2. DOMAIN fields' =
          {MessageOf[a] : a \in DOMAIN MessageOf \cap {properties'[k].area : k \in 1..done'}}
    BY <1>1
  <1> QED BY <1>1, <1>2 DEF BuildersInv, Generator!Messages

LEMMA WrittenSame ==
  ASSUME UNCHANGED <<document, text, line, property, properties>>
  PROVE  /\ InProgress => InProgress'
         /\ AllDescribed(properties) => AllDescribed(properties)'
  <1>1. /\ \A p : /\ \A kind : Generator!WordOf(p, kind)' = Generator!WordOf(p, kind)
                  /\ Generator!DigitsOf(p)' = Generator!DigitsOf(p)
                  /\ Generator!TypesOf(p)' = Generator!TypesOf(p)
    <2>1. \A p, kind : Generator!ReadOf(p, kind)' = Generator!ReadOf(p, kind)
      BY SameText DEF Generator!ReadOf
    <2>2. \A p, kind : Generator!Latest(Generator!ReadOf(p, kind))' =
                        Generator!Latest(Generator!ReadOf(p, kind))
      BY <2>1 DEF Generator!Latest
    <2>3. \A p, kind : Generator!WordOf(p, kind)' = Generator!WordOf(p, kind)
      BY <2>1, <2>2, SameText DEF Generator!WordOf
    <2>4. \A p : Generator!DigitsOf(p)' = Generator!DigitsOf(p)
      BY <2>1, <2>2, SameText DEF Generator!DigitsOf
    <2>5. \A p : Generator!TypesOf(p)' = Generator!TypesOf(p)
      BY SameText DEF Generator!TypesOf
    <2> QED BY <2>3, <2>4, <2>5
  <1>2. \A p : /\ Describes(property, p) <=> Describes(property, p)'
               /\ Describes(properties[p], p) <=> Describes(properties[p], p)'
    BY <1>1 DEF Describes
  <1>3. \A k : /\ NamedBy(property, k) <=> NamedBy(property, k)'
               /\ \A p : NamedBy(properties[p], k) <=> NamedBy(properties[p], k)'
    BY SameText DEF NamedBy
  <1>4. InProgress => InProgress'
    BY <1>2, <1>3, SameText, ZenonT(30) DEF InProgress, NamedBy
  <1>5. AllDescribed(properties) => AllDescribed(properties)'
    BY <1>2, <1>3, SameText DEF AllDescribed
  <1> QED BY <1>4, <1>5

Early == {"download", "unzip", "parse", "lines", "validate"}

LEMMA PlaceKept ==
  ASSUME PlaceInRun, UNCHANGED <<document, text, line, inside, property, properties>>,
         pc' \in Early \cup {"generate", "files", "exit", "end"},
         failed' \in Failures, panicked' \in BOOLEAN, panicked' => pc' \in {"exit", "end"},
         pc' \in {"download", "unzip", "parse"} => pc \in {"download", "unzip", "parse"},
         pc' \in Early => pc \in Early /\ UNCHANGED <<done, fields>>
  PROVE  PlaceInRun'
  BY SameText DEF PlaceInRun, Early

\* Before the properties are known to be valid there is no output.
LEMMA FilesNone ==
  ASSUME FilesInv, pc \notin {"files", "exit", "end"}, UNCHANGED <<files, list>>, ~ Passed'
  PROVE  FilesInv'
  BY DEF FilesInv

\* A run that ends early.
LEMMA NotPassed ==
  /\ pc' = "exit" /\ panicked' = TRUE => ~ Passed'
  /\ pc' \in Early => ~ Passed'
  BY DEF Passed, Early

LEMMA DocumentStep ==
  ASSUME RunInv, Generator!Download \/ Generator!Unzip \/ Generator!ParseXML
  PROVE  RunInv'
  <1>0. PlaceInRun /\ WrittenInv /\ BuildersInv /\ FilesInv /\ TemporaryInv
    BY DEF RunInv
  <1>1. /\ pc \in {"download", "unzip", "parse"} /\ panicked = FALSE
        /\ UNCHANGED <<document, line, inside, property, properties, done, numbers, fields,
                       files, list, partial>>
        /\ IsText' /\ (pc' = "lines" => text' = text)
    <2>1. IsText'
      <3>1. text' \in {text, document.lines} \cup Damaged
        BY DEF Generator!Download, Generator!Unzip, Generator!ParseXML
      <3>2. IsText /\ document \in Documents
        BY <1>0 DEF PlaceInRun
      <3> QED BY <3>1, <3>2 DEF IsText, Generator!Texts
    <2>2. pc' = "lines" => text' = text
      BY DEF Generator!Download, Generator!Unzip, Generator!ParseXML, Generator!GoOn,
             Generator!Panics
    <2> QED BY <1>0, <2>1, <2>2
        DEF PlaceInRun, Generator!Download, Generator!Unzip, Generator!ParseXML,
            Generator!parser, Generator!builders, Generator!output
  <1>2. done = 0 /\ DOMAIN fields = {} /\ line = 1 /\ property = Generator!NoProperty
        /\ properties = <<>>
    BY <1>0, <1>1 DEF PlaceInRun
  <1>3. /\ failed' \in Failures
        /\ \/ pc' \in {"unzip", "parse", "lines"} /\ panicked' = FALSE
           \/ pc' = "exit" /\ panicked' = TRUE
    BY <1>0, <1>1 DEF PlaceInRun, Generator!Download, Generator!Unzip, Generator!ParseXML,
       Generator!Succeeds, Generator!Fails, Generator!GoOn, Generator!Panics
  <1>4. pc' \in {"unzip", "parse"} => pc \in {"download", "unzip", "parse"}
    BY <1>1
  <1>5. PlaceInRun'
    <2>1. /\ document' \in Documents /\ inside' \in BOOLEAN /\ ~ inside'
          /\ property' \in PropertyRecord /\ properties' \in Seq(PropertyRecord)
      <3>1. \A j \in 1..(line - 1) : FALSE
        BY <1>2
      <3> QED BY <1>0, <1>1, <3>1 DEF PlaceInRun, Generator!InStructures
    <2>2. line' \in 1..(Len(Generator!Lines') + 1) /\ ~ Generator!InStructures(line)'
      <3>1. Generator!Lines' \in Seq(Generator!Line)
        <4>1. text' \in {<<>>} \cup Generator!Texts
          BY <1>1 DEF IsText, Generator!Texts
        <4> QED BY <4>1, TextType DEF Generator!Lines
      <3>2. Len(Generator!Lines') \in Nat /\ line' = 1 /\ \A j \in 1..(line' - 1) : FALSE
        BY <1>1, <1>2, <3>1, LenProperties
      <3> QED BY <3>2 DEF Generator!InStructures
    <2> QED BY <1>1, <1>2, <1>3, <2>1, <2>2 DEF PlaceInRun
  <1>6. WrittenInv'
    <2>1. ASSUME pc' = "lines"
          PROVE  InProgress
      <3>1. Generator!Owner(0) = 1 /\ Generator!Named[0] = 0 /\ line - 1 = 0
        <4>1. IsText
          BY <1>0 DEF PlaceInRun
        <4> QED BY <1>2, <4>1, NamedEquation DEF Generator!Owner
      <3>2. Len(properties) = 1 - 1 /\ (\A p \in 1..(1 - 1) : FALSE) /\ \A k \in 1..0 : FALSE
        BY <1>2, EmptySeq
      <3>3. Describes(property, 1)
        <4>1. /\ Generator!WordOf(1, "set") = "" /\ Generator!WordOf(1, "area") = ""
              /\ Generator!DigitsOf(1) = <<>> /\ Generator!TypesOf(1) = <<>>
          <5>1. IsText /\ line \in 1..(Len(Generator!Lines) + 1)
            BY <1>0 DEF PlaceInRun
          <5>2. \A k \in 1..(line - 1) : FALSE
            BY <1>2
          <5> QED BY <5>1, <5>2, NothingRead
        <4> QED BY <1>2, <4>1, NoValue DEF Describes, Generator!NoProperty, Generator!IdentifierAsWritten
      <3>4. property.name = "" /\ property.prefix = ""
        BY <1>2 DEF Generator!NoProperty
      <3> QED BY <3>1, <3>2, <3>3, <3>4 DEF InProgress
    <2>2. pc' \notin {"validate", "generate", "files"}
      BY <1>3
    <2> QED BY <1>1, <2>1, <2>2, WrittenSame DEF WrittenInv
  <1>7. BuildersInv'
    BY <1>0, <1>1, BuildersKept
  <1>8. ~ Passed'
    BY <1>3, NotPassed DEF Early
  <1>9. FilesInv'
    BY <1>0, <1>1, <1>8, FilesNone
  <1>10. TemporaryInv'
    <2>1. CASE Generator!Download
      BY <1>0, <1>8, <2>1 DEF TemporaryInv, Generator!Download, Generator!GoOn, Generator!Panics
    <2>2. CASE Generator!Unzip
      <3>0. pc = "unzip" /\ temporary = {"docx"} /\ deferred = {"docx"}
        BY <1>0, <2>2 DEF TemporaryInv, Generator!Unzip
      <3>1. CASE /\ Generator!Panics /\ UNCHANGED deferred
                 /\ temporary' = temporary \/ temporary' = temporary \cup {"xml"}
        BY <1>8, <3>0, <3>1 DEF TemporaryInv, Generator!Panics
      <3>2. CASE /\ temporary' = temporary \cup {"xml"} /\ Generator!GoOn("parse")
                 /\ deferred' = deferred \cup {"xml"} \/ deferred' = deferred
        BY <1>8, <3>0, <3>2 DEF TemporaryInv, Generator!GoOn
      <3> QED BY <2>2, <3>1, <3>2 DEF Generator!Unzip
    <2>3. CASE Generator!ParseXML
      <3>0. pc = "parse" /\ UNCHANGED <<temporary, deferred>> /\ "docx" \in deferred
            /\ temporary \subseteq {"docx", "xml"} /\ deferred \subseteq {"docx", "xml"}
        BY <1>0, <2>3 DEF TemporaryInv, Generator!ParseXML
      <3>1. pc' = "exit" \/ (pc' = "lines" /\ "xml" \in deferred)
        <4>1. CASE "xml" \in deferred /\ Generator!GoOn("lines")
          BY <4>1 DEF Generator!GoOn
        <4>2. CASE Generator!Panics
          BY <4>2 DEF Generator!Panics
        <4> QED BY <2>3, <4>1, <4>2 DEF Generator!ParseXML
      <3> QED BY <1>8, <3>0, <3>1 DEF TemporaryInv
    <2> QED BY <2>1, <2>2, <2>3
  <1> QED BY <1>5, <1>6, <1>7, <1>9, <1>10 DEF RunInv

LEMMA LinesStep ==
  ASSUME RunInv, Generator!ReadLine
  PROVE  RunInv'
  <1>0. PlaceInRun /\ WrittenInv /\ BuildersInv /\ FilesInv /\ TemporaryInv
    BY DEF RunInv
  <1>1. /\ pc = "lines" /\ line' = line + 1 /\ line <= Len(Generator!Lines)
        /\ UNCHANGED <<document, text, done, numbers, fields, files, list, partial, temporary, deferred, failed>>
    BY DEF Generator!ReadLine, Generator!builders, Generator!output, Generator!Lines
  <1>2. /\ IsText /\ panicked = FALSE /\ done = 0 /\ DOMAIN fields = {}
        /\ property \in PropertyRecord /\ properties \in Seq(PropertyRecord)
        /\ (inside <=> Generator!InStructures(line)) /\ inside \in BOOLEAN
        /\ failed \in Failures
    BY <1>0, <1>1 DEF PlaceInRun
  <1>3. line \in 1..Len(Generator!Lines) /\ line \in Nat /\ Len(Generator!Lines) \in Nat
    <2>1. PICK N \in Nat : N = Len(Generator!Lines) /\ line \in 1..(N + 1)
      BY <1>0, <1>2, TextLines DEF PlaceInRun
    <2> QED BY <1>1, <2>1, SMTT(30)
  <1>4. InProgress
    BY <1>0, <1>1 DEF WrittenInv
  <1> DEFINE l == Generator!Lines[line]
  <1>5. /\ inside' = (inside \/ l.kind = "structures")
        /\ \/ /\ l.kind = "structures" \/ ~ inside
              /\ Generator!GoOn("lines") /\ UNCHANGED <<property, properties>>
           \/ /\ l.kind # "structures" /\ inside /\ Generator!Readable(l)
              /\ Generator!GoOn("lines") /\ (Generator!StartProperty(l) \/ Generator!SetField(l))
           \/ Generator!Panics /\ UNCHANGED <<property, properties>>
    BY DEF Generator!ReadLine, Generator!Lines
  <1> HIDE DEF l
  <1>6. inside' \in BOOLEAN /\ (inside' <=> Generator!InStructures(line)')
    <2>1. Generator!InStructures(line)' <=> Generator!InStructures(line) \/ l.kind = "structures"
      <3>1. /\ \A j \in 1..line : j = line \/ j \in 1..(line - 1)
            /\ \A j \in 1..(line - 1) : j \in 1..line
            /\ line \in 1..line
        BY <1>3
      <3>2. line' - 1 = line
        BY <1>1, <1>3
      <3>3. Generator!InStructures(line)' <=> \E j \in 1..line : Generator!Lines[j].kind = "structures"
        BY <1>1, <3>2, SameText DEF Generator!InStructures
      <3> QED BY <3>1, <3>3 DEF Generator!InStructures, l
    <2> QED BY <1>2, <1>5, <2>1
  <1>7. line' \in 1..(Len(Generator!Lines') + 1)
    <2>1. PICK N \in Nat : N = Len(Generator!Lines) /\ line \in 1..N
      BY <1>3
    <2>2. Len(Generator!Lines') = N
      BY <1>1, <2>1, SameText
    <2> QED BY <1>1, <2>1, <2>2
  <1>8. /\ property' \in PropertyRecord /\ properties' \in Seq(PropertyRecord)
        /\ \/ pc' = "lines" /\ panicked' = FALSE /\ InProgress'
           \/ pc' = "exit" /\ panicked' = TRUE
    <2>1. CASE /\ l.kind = "structures" \/ ~ inside
               /\ Generator!GoOn("lines") /\ UNCHANGED <<property, properties>>
      <3>1. ~ Generator!InStructures(line)
             \/ Generator!Lines[line].kind \notin {"name", "set", "id", "types", "area"}
        BY <1>2, <2>1 DEF l
      <3>2. InProgress'
        BY <1>1, <1>2, <1>3, <1>4, <2>1, <3>1, QuietLine
      <3> QED BY <1>2, <2>1, <3>2 DEF Generator!GoOn
    <2>2. CASE inside /\ Generator!GoOn("lines") /\ Generator!StartProperty(l)
      <3>1. Generator!InStructures(line) /\ Generator!StartProperty(Generator!Lines[line])
        BY <1>2, <2>2 DEF l
      <3>2. InProgress' /\ property' \in PropertyRecord /\ properties' \in Seq(PropertyRecord)
        BY <1>1, <1>2, <1>3, <1>4, <3>1, NameRead
      <3> QED BY <1>2, <2>2, <3>2 DEF Generator!GoOn
    <2>3. CASE /\ inside /\ Generator!GoOn("lines") /\ Generator!Readable(l)
               /\ Generator!SetField(l)
      <3>1. /\ Generator!InStructures(line) /\ Generator!Readable(Generator!Lines[line])
            /\ Generator!SetField(Generator!Lines[line])
        BY <1>2, <2>3 DEF l
      <3>2. InProgress' /\ property' \in PropertyRecord /\ properties' = properties
        BY <1>1, <1>2, <1>3, <1>4, <3>1, FieldSet
      <3> QED BY <1>2, <2>3, <3>2 DEF Generator!GoOn
    <2>4. CASE Generator!Panics /\ UNCHANGED <<property, properties>>
      BY <1>2, <2>4 DEF Generator!Panics
    <2> QED BY <1>5, <2>1, <2>2, <2>3, <2>4
  <1>9. PlaceInRun'
    <2>1. pc' \in {"lines", "exit"} /\ (panicked' => pc' \in {"exit", "end"}) /\ panicked' \in BOOLEAN
      BY <1>8
    <2>2. document' \in Documents /\ IsText'
      BY <1>0, <1>1, <1>2, SameText DEF PlaceInRun
    <2> QED BY <1>1, <1>2, <1>6, <1>7, <1>8, <2>1, <2>2 DEF PlaceInRun
  <1>10. WrittenInv'
    BY <1>8 DEF WrittenInv
  <1>11. BuildersInv'
    BY <1>0, <1>1, <1>2, <1>8, BuildersNone
  <1>12. ~ Passed'
    BY <1>8, NotPassed DEF Early
  <1>13. FilesInv'
    BY <1>0, <1>1, <1>12, FilesNone
  <1>14. TemporaryInv'
    BY <1>0, <1>1, <1>8, <1>12 DEF TemporaryInv
  <1> QED BY <1>9, <1>10, <1>11, <1>13, <1>14 DEF RunInv

LEMMA EndStep ==
  ASSUME RunInv, Generator!EndLines
  PROVE  RunInv'
  <1>0. PlaceInRun /\ WrittenInv /\ BuildersInv /\ FilesInv /\ TemporaryInv
    BY DEF RunInv
  <1>1. /\ pc = "lines" /\ pc' = "validate" /\ properties' = Append(properties, property)
        /\ UNCHANGED <<document, text, line, inside, property, done, numbers, fields, files, list,
                       temporary, deferred, failed, panicked>>
    BY DEF Generator!EndLines, Generator!GoOn, Generator!builders, Generator!output
  <1>2. /\ IsText /\ done = 0 /\ DOMAIN fields = {}
        /\ property \in PropertyRecord /\ properties \in Seq(PropertyRecord)
        /\ line \in 1..(Len(Generator!Lines) + 1)
    BY <1>0, <1>1 DEF PlaceInRun
  <1>3. properties' \in Seq(PropertyRecord)
    BY <1>1, <1>2, AppendProperties
  <1>4. AllDescribed(properties)'
    <2>1. AllDescribed(properties')
      BY <1>0, <1>1, <1>2, AllAreDescribed DEF WrittenInv
    <2>3. \A p : /\ \A kind : Generator!ReadOf(p, kind)' = Generator!ReadOf(p, kind)
                 /\ Generator!TypesOf(p)' = Generator!TypesOf(p)
      BY <1>1, SameText DEF Generator!ReadOf, Generator!TypesOf
    <2>4. \A p, kind : Generator!Latest(Generator!ReadOf(p, kind))' =
                         Generator!Latest(Generator!ReadOf(p, kind))
      BY <2>3 DEF Generator!Latest
    <2>5. \A p : /\ \A kind : Generator!WordOf(p, kind)' = Generator!WordOf(p, kind)
                 /\ Generator!DigitsOf(p)' = Generator!DigitsOf(p)
      BY <1>1, <2>3, <2>4, SameText DEF Generator!WordOf, Generator!DigitsOf
    <2>6. \A p : Describes(properties'[p], p) => Describes(properties[p], p)'
      BY <2>3, <2>5 DEF Describes
    <2>7. \A p, k : NamedBy(properties'[p], k) => NamedBy(properties[p], k)'
      BY <1>1, SameText DEF NamedBy
    <2> QED BY <1>1, <2>1, <2>6, <2>7, SameText DEF AllDescribed
  <1>5. PlaceInRun'
    BY <1>0, <1>1, <1>3, SameText DEF PlaceInRun
  <1>6. WrittenInv'
    BY <1>1, <1>4 DEF WrittenInv
  <1>7. BuildersInv'
    BY <1>0, <1>1, <1>2, <1>3, BuildersNone
  <1>8. ~ Passed'
    BY <1>1, NotPassed DEF Early
  <1>9. FilesInv'
    BY <1>0, <1>1, <1>8, FilesNone
  <1>10. TemporaryInv'
    BY <1>0, <1>1, <1>8 DEF TemporaryInv
  <1> QED BY <1>5, <1>6, <1>7, <1>9, <1>10 DEF RunInv

LEMMA ValidateStep ==
  ASSUME RunInv, Generator!ValidateProperties
  PROVE  RunInv'
  <1>0. PlaceInRun /\ WrittenInv /\ BuildersInv /\ FilesInv /\ TemporaryInv
    BY DEF RunInv
  <1>1. /\ pc = "validate"
        /\ UNCHANGED <<document, text, line, inside, property, properties, done, numbers, fields,
                       files, list, partial, temporary, deferred, failed>>
        /\ \/ /\ \A k \in DOMAIN properties : Generator!Valid(properties[k])
              /\ pc' = "generate" /\ UNCHANGED panicked
           \/ pc' = "exit" /\ panicked' = TRUE
    BY DEF Generator!ValidateProperties, Generator!GoOn, Generator!Panics, Generator!parser,
           Generator!builders, Generator!output
  <1>2. panicked = FALSE /\ failed \in Failures /\ properties \in Seq(PropertyRecord)
    BY <1>0, <1>1 DEF PlaceInRun
  <1>3. PlaceInRun'
    <2>1. /\ pc' \in {"generate", "exit"} /\ panicked' \in BOOLEAN
          /\ (panicked' => pc' \in {"exit", "end"}) /\ pc' \notin Early
      BY <1>1, <1>2 DEF Early
    <2> QED BY <1>0, <1>1, <1>2, <2>1, PlaceKept DEF Early
  <1>4. WrittenInv'
    <2>1. AllDescribed(properties)
      BY <1>0, <1>1 DEF WrittenInv
    <2> QED BY <1>1, <2>1, WrittenSame DEF WrittenInv
  <1>5. BuildersInv'
    BY <1>0, <1>1, BuildersKept
  <1>6. files = {} /\ list = <<>> /\ files \subseteq DOMAIN fields
    BY <1>0, <1>1 DEF FilesInv
  <1>7. FilesInv' /\ TemporaryInv'
    <2>1. CASE pc' = "generate" /\ \A k \in DOMAIN properties : Generator!Valid(properties[k])
      <3>1. \A k \in 1..Len(properties) : Generator!Valid(properties[k])
        BY <1>2, <2>1, LenProperties
      <3>2. \A k \in 1..Len(properties') : Generator!Valid(properties'[k])
        BY <1>1, <3>1
      <3>3. FilesInv'
        BY <1>1, <1>6, <2>1, <3>2 DEF FilesInv, Passed, Generator!Valid
      <3>4. TemporaryInv'
        BY <1>0, <1>1, <2>1 DEF TemporaryInv
      <3> QED BY <3>3, <3>4
    <2>2. CASE pc' = "exit" /\ panicked' = TRUE
      <3>1. ~ Passed'
        BY <2>2, NotPassed
      <3>2. FilesInv'
        BY <1>0, <1>1, <3>1, FilesNone
      <3>3. TemporaryInv'
        BY <1>0, <1>1, <2>2, <3>1 DEF TemporaryInv
      <3> QED BY <3>2, <3>3
    <2> QED BY <1>1, <2>1, <2>2
  <1> QED BY <1>3, <1>4, <1>5, <1>7 DEF RunInv

LEMMA GenerateStep ==
  ASSUME RunInv, Generator!GenerateField \/ Generator!EndGenerate
  PROVE  RunInv'
  <1>0. PlaceInRun /\ WrittenInv /\ BuildersInv /\ FilesInv /\ TemporaryInv
    BY SMTT(30) DEF RunInv
  <1>1. /\ pc = "generate"
        /\ UNCHANGED <<document, text, line, inside, property, properties,
                       files, list, partial, temporary, deferred>>
        /\ \/ Generator!GenerateField /\ pc' = "generate" /\ UNCHANGED <<failed, panicked>>
           \/ /\ UNCHANGED <<done, numbers, fields>> /\ done = Len(properties)
              /\ \/ pc' = "files" /\ UNCHANGED <<failed, panicked>>
                 \/ pc' = "exit" /\ panicked' = TRUE /\ failed' \in Failures
    BY ZenonT(30) DEF Generator!GenerateField, Generator!EndGenerate, Generator!GoOn,
           Generator!Panics, Generator!Succeeds, Generator!Fails, Generator!parser,
           Generator!builders, Generator!output
  <1>2. panicked = FALSE /\ failed \in Failures /\ failed' \in Failures
    BY <1>0, <1>1 DEF PlaceInRun
  <1>3. PlaceInRun'
    <2>1. /\ pc' \in {"generate", "files", "exit"} /\ pc' \notin Early /\ panicked' \in BOOLEAN
          /\ panicked' => pc' \in {"exit", "end"}
      BY <1>1, <1>2 DEF Early
    <2> QED BY <1>0, <1>1, <1>2, <2>1, PlaceKept DEF Early
  <1>4. WrittenInv'
    <2>1. AllDescribed(properties)
      BY <1>0, <1>1 DEF WrittenInv
    <2>2. pc' # "lines"
      BY <1>1
    <2> QED BY <1>1, <2>1, <2>2, WrittenSame DEF WrittenInv
  <1>5. BuildersInv'
    BY <1>0, <1>1, FieldGenerated, BuildersKept
  <1>6. files = {} /\ list = <<>>
    BY <1>0, <1>1 DEF FilesInv
  <1>7. FilesInv'
    <2>1. \A k \in 1..Len(properties) : Generator!Valid(properties[k])
      BY <1>0, <1>1 DEF FilesInv, Passed
    <2>2. \A k \in 1..Len(properties') : Generator!Valid(properties'[k])
      BY <1>1, <2>1
    <2>3. pc' # "generate" => done' = Len(properties')
      BY <1>1
    <2>4. /\ pc' \in {"generate", "files", "exit"} /\ files' = {} /\ list' = <<>>
          /\ pc' = "exit" => ~ Passed'
      BY <1>1, <1>6 DEF Passed
    <2> QED BY <2>2, <2>3, <2>4 DEF FilesInv, Generator!Valid
  <1>8. TemporaryInv'
    <2>1. temporary \subseteq deferred
      BY <1>0, <1>1 DEF TemporaryInv, Passed
    <2>2. pc' \in {"generate", "files", "exit"}
      BY <1>1
    <2> QED BY <1>0, <1>1, <2>1, <2>2 DEF TemporaryInv
  <1> QED BY <1>3, <1>4, <1>5, <1>7, <1>8 DEF RunInv

LEMMA OutputStep ==
  ASSUME RunInv,
         (\E m \in Generator!Messages : Generator!WriteFile(m)) \/ Generator!WriteList
  PROVE  RunInv'
  <1>0. PlaceInRun /\ WrittenInv /\ BuildersInv /\ FilesInv /\ TemporaryInv
    BY DEF RunInv
  <1>1. /\ pc = "files"
        /\ UNCHANGED <<document, text, line, inside, property, properties, done, numbers, fields,
                       temporary, deferred>>
    BY DEF Generator!WriteFile, Generator!WriteList, Generator!parser, Generator!builders
  <1>2. panicked = FALSE /\ failed \in Failures
    BY <1>0, <1>1 DEF PlaceInRun
  <1>3. /\ failed' \in Failures /\ files' \subseteq DOMAIN fields
        /\ \/ pc' = "files" /\ panicked' = FALSE
           \/ pc' = "exit" /\ panicked' = FALSE /\ files' = DOMAIN fields
           \/ pc' = "exit" /\ panicked' = TRUE
    <2>1. files \subseteq DOMAIN fields
      BY <1>0 DEF FilesInv
    <2>3. ASSUME NEW m \in Generator!Messages, Generator!WriteFile(m)
          PROVE  /\ failed' \in Failures /\ files' \subseteq DOMAIN fields
                 /\ \/ pc' = "files" /\ panicked' = FALSE
                    \/ pc' = "exit" /\ panicked' = TRUE
      <3>1. m \in DOMAIN fields
        BY <2>3 DEF Generator!WriteFile
      <3>2. files' = files \/ files' = files \cup {m}
        BY <2>3 DEF Generator!WriteFile
      <3>3. failed' \in Failures
        BY <1>2, <2>3 DEF Generator!WriteFile, Generator!Succeeds, Generator!Fails
      <3>4. \/ pc' = "files" /\ panicked' = FALSE
            \/ pc' = "exit" /\ panicked' = TRUE
        BY <1>2, <2>3 DEF Generator!WriteFile, Generator!GoOn, Generator!Panics
      <3> QED BY <2>1, <3>1, <3>2, <3>3, <3>4
    <2>4. ASSUME Generator!WriteList
          PROVE  /\ failed' \in Failures /\ files' = files /\ DOMAIN fields \subseteq files
                 /\ pc' = "exit" /\ panicked' \in BOOLEAN
      <3>1. CASE UNCHANGED failed /\ Generator!GoOn("exit")
        BY <1>2, <2>4, <3>1 DEF Generator!WriteList, Generator!GoOn
      <3>2. CASE failed' \in Failures /\ Generator!Panics
        BY <2>4, <3>2 DEF Generator!WriteList, Generator!Panics
      <3> QED BY <2>4, <3>1, <3>2 DEF Generator!WriteList, Generator!Succeeds, Generator!Fails
    <2> QED BY <2>1, <2>3, <2>4
  <1>4. PlaceInRun'
    <2>1. /\ pc' \in {"files", "exit"} /\ panicked' \in BOOLEAN
          /\ (panicked' => pc' \in {"exit", "end"}) /\ pc' \notin Early
      BY <1>3 DEF Early
    <2> QED BY <1>0, <1>1, <1>3, <2>1, PlaceKept DEF Early
  <1>5. WrittenInv'
    <2>1. AllDescribed(properties)
      BY <1>0, <1>1 DEF WrittenInv
    <2>2. pc' # "lines"
      BY <1>3
    <2> QED BY <1>1, <2>1, <2>2, WrittenSame DEF WrittenInv
  <1>6. BuildersInv'
    BY <1>0, <1>1, BuildersKept
  <1>7. FilesInv'
    <2>1. (\A k \in 1..Len(properties) : Generator!Valid(properties[k])) /\ done = Len(properties)
      BY <1>0, <1>1 DEF FilesInv, Passed
    <2>2. /\ \A k \in 1..Len(properties') : Generator!Valid(properties'[k])
          /\ done' = Len(properties')
      BY <1>1, <2>1
    <2>3. files' \subseteq DOMAIN fields' /\ pc' \in {"files", "exit"}
      BY <1>1, <1>3
    <2>4. Passed' /\ pc' \in {"exit", "end"} => files' = DOMAIN fields'
      BY <1>1, <1>3 DEF Passed
    <2> QED BY <2>2, <2>3, <2>4 DEF FilesInv, Generator!Valid
  <1>8. TemporaryInv'
    <2>1. temporary \subseteq deferred
      BY <1>0, <1>1 DEF TemporaryInv, Passed
    <2>2. pc' \in {"files", "exit"}
      BY <1>3
    <2> QED BY <1>0, <1>1, <2>1, <2>2 DEF TemporaryInv
  <1> QED BY <1>4, <1>5, <1>6, <1>7, <1>8 DEF RunInv

LEMMA ExitStep ==
  ASSUME RunInv, Generator!Exit
  PROVE  RunInv'
  <1>0. PlaceInRun /\ WrittenInv /\ BuildersInv /\ FilesInv /\ TemporaryInv
    BY DEF RunInv
  <1>1. /\ pc = "exit" /\ pc' = "end"
        /\ UNCHANGED <<document, text, line, inside, property, properties, done, numbers, fields,
                       files, list, partial, deferred>>
        /\ failed' \in Failures /\ temporary' \subseteq temporary
        /\ \/ temporary' = temporary \ deferred /\ UNCHANGED panicked
           \/ panicked' = TRUE
    BY <1>0 DEF PlaceInRun, Generator!Exit, Generator!Succeeds, Generator!Fails,
       Generator!parser, Generator!builders, Generator!output
  <1>2. panicked \in BOOLEAN
    BY <1>0 DEF PlaceInRun
  <1>3. PlaceInRun'
    <2>1. panicked' \in BOOLEAN /\ pc' \notin Early
      BY <1>1, <1>2 DEF Early
    <2> QED BY <1>0, <1>1, <2>1, PlaceKept DEF Early
  <1>4. WrittenInv'
    BY <1>1 DEF WrittenInv
  <1>5. BuildersInv'
    BY <1>0, <1>1, BuildersKept
  <1>6. Passed' => Passed
    BY <1>1, <1>2 DEF Passed
  <1>7. FilesInv'
    <2>1. \A k : Generator!Valid(properties[k]) => Generator!Valid(properties'[k])
      BY <1>1
    <2> QED BY <1>0, <1>1, <1>6, <2>1 DEF FilesInv, Generator!Valid
  <1>8. TemporaryInv'
    <2>1. Passed' => temporary' = {}
      <3>1. ASSUME Passed'
            PROVE  temporary' = {}
        <4>1. temporary \subseteq deferred
          BY <1>0, <1>1, <1>6, <3>1 DEF TemporaryInv
        <4>2. temporary' = temporary \ deferred
          BY <1>1, <3>1 DEF Passed
        <4> QED BY <4>1, <4>2
      <3> QED BY <3>1
    <2> QED BY <1>0, <1>1, <2>1 DEF TemporaryInv
  <1> QED BY <1>3, <1>4, <1>5, <1>7, <1>8 DEF RunInv

\* What has failed, and what is left of it.
LEMMA FailuresStep ==
  ASSUME GeneratorInv, Generator!Next
  PROVE  FailuresInv'
  <1>0. /\ FailuresInv /\ panicked \in BOOLEAN
        /\ panicked => pc \in {"exit", "end"}
        /\ pc = "unzip" => deferred = {"docx"}
    BY DEF GeneratorInv, RunInv, PlaceInRun, TemporaryInv
  <1>1. CASE Generator!Download
    <2>0. pc = "download" /\ failed = {} /\ panicked = FALSE
      BY <1>0, <1>1 DEF FailuresInv, Generator!Download
    <2>1. /\ UNCHANGED <<document, text, files, partial>> /\ partial = {}
          /\ \/ pc' = "unzip" /\ failed' = {} /\ deferred' = {"docx"} /\ panicked' = FALSE
             \/ /\ pc' = "exit" /\ panicked' = TRUE /\ UNCHANGED deferred
                /\ failed' \in {{"get"}, {"save"}}
      BY <1>0, <1>1, <2>0 DEF FailuresInv, Generator!Download, Generator!Succeeds, Generator!Fails,
         Generator!GoOn, Generator!Panics, Generator!output
    <2> QED BY <1>0, <2>0, <2>1 DEF FailuresInv
  <1>2. CASE Generator!Unzip
    <2>0. pc = "unzip" /\ failed = {} /\ panicked = FALSE /\ deferred = {"docx"}
      BY <1>0, <1>2 DEF FailuresInv, Generator!Unzip
    <2>1. /\ UNCHANGED <<document, files, partial>> /\ partial = {}
          /\ \/ pc' = "exit" /\ panicked' = TRUE /\ UNCHANGED <<text, deferred>>
             \/ /\ pc' = "parse" /\ panicked' = FALSE /\ deferred' = {"docx", "xml"}
                /\ \/ failed' = {} /\ text' = document.lines
                   \/ failed' = {"copy"}
             \/ /\ pc' = "parse" /\ panicked' = FALSE /\ deferred' = {"docx"}
                /\ failed' \in {{}, {"entry"}}
      BY <1>0, <1>2, <2>0 DEF FailuresInv, Generator!Unzip, Generator!Succeeds, Generator!Fails,
         Generator!GoOn, Generator!Panics, Generator!output
    <2> QED BY <1>0, <2>0, <2>1 DEF FailuresInv
  <1>3. CASE Generator!ParseXML
    <2>1. /\ pc = "parse" /\ UNCHANGED <<document, text, files, partial, deferred>>
          /\ failed \subseteq failed'
          /\ \/ pc' = "exit" /\ panicked' = TRUE
             \/ pc' = "lines" /\ UNCHANGED <<panicked, failed>> /\ "xml" \in deferred
      BY <1>3 DEF Generator!ParseXML, Generator!Succeeds, Generator!Fails,
         Generator!GoOn, Generator!Panics, Generator!output
    <2> QED BY <1>0, <2>1 DEF FailuresInv
  <1>4. CASE Generator!ReadLine \/ Generator!EndLines \/ Generator!ValidateProperties
             \/ Generator!GenerateField \/ Generator!EndGenerate
    <2>1. /\ pc \in {"lines", "validate", "generate"}
          /\ UNCHANGED <<document, text, files, partial, deferred>>
          /\ failed \subseteq failed'
          /\ \/ pc' = "exit" /\ panicked' = TRUE
             \/ pc' \in {"lines", "validate", "generate", "files"} /\ UNCHANGED <<panicked, failed>>
      BY <1>4 DEF Generator!ReadLine, Generator!EndLines, Generator!ValidateProperties,
         Generator!GenerateField, Generator!EndGenerate, Generator!Succeeds, Generator!Fails,
         Generator!GoOn, Generator!Panics, Generator!output
    <2> QED BY <1>0, <2>1 DEF FailuresInv
  <1>5. ASSUME NEW m \in Generator!Messages, Generator!WriteFile(m)
        PROVE  FailuresInv'
    <2>1. /\ pc = "files" /\ UNCHANGED <<document, text, deferred>>
          /\ \/ pc' = "exit" /\ panicked' = TRUE /\ UNCHANGED <<files, partial>>
                /\ failed \subseteq failed'
             \/ pc' = "files" /\ UNCHANGED <<panicked, failed, partial>> /\ files' = files \cup {m}
             \/ /\ pc' = "exit" /\ panicked' = TRUE
                /\ failed' = failed \cup {"write"}
                /\ files' = files \cup {m} /\ partial' = partial \cup {m}
             \/ /\ pc' = "files" /\ UNCHANGED panicked
                /\ failed' = failed \cup {"close"}
                /\ files' = files \cup {m} /\ partial' = partial \cup {m}
      BY <1>5 DEF Generator!WriteFile, Generator!Succeeds, Generator!Fails,
         Generator!GoOn, Generator!Panics
    <2> QED BY <1>0, <2>1 DEF FailuresInv
  <1>6. CASE Generator!WriteList \/ Generator!Exit
    <2>1. /\ pc \in {"files", "exit"} /\ pc' \in {"exit", "end"}
          /\ UNCHANGED <<document, text, files, partial, deferred>>
          /\ failed \subseteq failed'
          /\ panicked' = TRUE \/ UNCHANGED <<panicked, failed>>
      BY <1>6 DEF Generator!WriteList, Generator!Exit, Generator!Succeeds, Generator!Fails,
         Generator!GoOn, Generator!Panics, Generator!output
    <2> QED BY <1>0, <2>1 DEF FailuresInv
  <1> QED BY <1>1, <1>2, <1>3, <1>4, <1>5, <1>6 DEF Generator!Next

LEMMA GeneratorStep ==
  ASSUME GeneratorInv, call = "generate", [Next]_vars
  PROVE  GeneratorInv'
  <1>1. CASE UNCHANGED vars
    <2>0. PlaceInRun /\ WrittenInv /\ BuildersInv /\ FilesInv /\ TemporaryInv /\ FailuresInv
      BY DEF GeneratorInv, RunInv
    <2>1. UNCHANGED <<pc, done, document, text, line, inside, property, properties, numbers, fields,
                      files, list, partial, temporary, deferred, panicked, failed>>
      BY <1>1 DEF vars, ofGenerator
    <2>2. PlaceInRun'
      BY <2>0, <2>1, SameText DEF PlaceInRun
    <2>3. WrittenInv'
      BY <2>0, <2>1, WrittenSame DEF WrittenInv
    <2>4. BuildersInv'
      BY <2>0, <2>1, BuildersKept
    <2>5. FilesInv'
      BY <2>0, <2>1 DEF FilesInv, Passed, Generator!Valid
    <2>6. TemporaryInv'
      BY <2>0, <2>1 DEF TemporaryInv, Passed
    <2>7. FailuresInv'
      BY <2>0, <2>1 DEF FailuresInv
    <2> QED BY <2>2, <2>3, <2>4, <2>5, <2>6, <2>7 DEF GeneratorInv, RunInv
  <1>2. CASE Generator!Next
    <2>1. RunInv'
      BY <1>2, DocumentStep, LinesStep, EndStep, ValidateStep, GenerateStep, OutputStep, ExitStep
      DEF Generator!Next, GeneratorInv
    <2> QED BY <1>2, <2>1, FailuresStep DEF GeneratorInv
  <1> QED BY <1>1, <1>2 DEF Next, GoesOn, Ask

\* The state variables of a run of the generator have their types.
LEMMA GeneratorTyped ==
  ASSUME GeneratorInv
  PROVE  Generator!TypeOK
  <1>0. PlaceInRun /\ BuildersInv /\ FilesInv /\ TemporaryInv /\ FailuresInv
    BY DEF GeneratorInv, RunInv
  <1>1. document \in Generator!Document /\ text \in Seq(Generator!Line)
    <2>1. document \in Documents /\ text \in {<<>>} \cup Generator!Texts
      BY <1>0 DEF PlaceInRun, IsText
    <2> QED BY <2>1, TextType, GeneratorAssumptions DEF Generator!DocumentsAssumption
  <1>2. DOMAIN property = DOMAIN Generator!NoProperty
    <2>1. property \in PropertyRecord
      BY <1>0 DEF PlaceInRun
    <2>2. DOMAIN property = {"name", "prefix", "set", "id", "types", "area"}
      BY <2>1 DEF PropertyRecord
    <2>3. DOMAIN Generator!NoProperty = {"name", "prefix", "set", "id", "types", "area"}
      BY DEF Generator!NoProperty
    <2> QED BY <2>2, <2>3
  <1>3. DOMAIN fields \subseteq Generator!Messages
    BY <1>0 DEF BuildersInv, Generator!Messages
  <1> QED BY <1>0, <1>1, <1>2, <1>3
      DEF PlaceInRun, BuildersInv, FilesInv, TemporaryInv, FailuresInv, Generator!TypeOK

LEMMA GeneratedWell ==
  ASSUME GeneratorInv
  PROVE  Generator!PropertiesAsWritten /\ Generator!FieldsOfProperties /\ Generator!OutputJustified
  <1>0. PlaceInRun /\ WrittenInv /\ BuildersInv /\ FilesInv /\ TemporaryInv /\ FailuresInv
        /\ properties \in Seq(PropertyRecord) /\ property \in PropertyRecord
    BY DEF GeneratorInv, RunInv, PlaceInRun
  <1>1. DOMAIN properties = 1..Len(properties) /\ Len(properties) \in Nat
    BY <1>0, LenProperties
  <1>2. Generator!PropertiesAsWritten
    <2>1. ASSUME NEW all \in Seq(PropertyRecord), AllDescribed(all)
          PROVE  /\ Len(all) = Generator!Owner(line - 1)
                 /\ \A k \in 1..(line - 1) : Generator!IsName(k) =>
                      /\ all[Generator!Named[k]].name = Generator!Lines[k].word
                      /\ all[Generator!Named[k]].prefix = Generator!Lines[k].prefix
                 /\ \A p \in DOMAIN all :
                      /\ all[p].set = Generator!WordOf(p, "set")
                      /\ all[p].area = Generator!WordOf(p, "area")
                      /\ all[p].types = Generator!TypesOf(p)
                      /\ Generator!IdentifierAsWritten(all[p], Generator!DigitsOf(p))
      <3>1. DOMAIN all = 1..Len(all)
        BY LenProperties
      <3> QED BY <2>1, <3>1 DEF AllDescribed, Describes, NamedBy
    <2>2. pc = "lines" => AllDescribed(Append(properties, property))
      BY <1>0, AllAreDescribed DEF WrittenInv, PlaceInRun
    <2>3. pc \in {"validate", "generate", "files"} => AllDescribed(properties)
      BY <1>0 DEF WrittenInv
    <2>4. Append(properties, property) \in Seq(PropertyRecord)
      BY <1>0, AppendProperties
    <2>5. CASE pc = "lines"
      BY <2>1, <2>2, <2>4, <2>5 DEF Generator!PropertiesAsWritten
    <2>6. CASE pc \in {"validate", "generate", "files"}
      BY <1>0, <2>1, <2>3, <2>6 DEF Generator!PropertiesAsWritten
    <2>7. CASE pc \notin {"lines", "validate", "generate", "files"}
      BY <2>7 DEF Generator!PropertiesAsWritten
    <2> QED BY <2>5, <2>6, <2>7
  <1>3. Generator!FieldsOfProperties
    <2>1. ASSUME NEW m \in Generator!Messages
          PROVE  /\ [n \in DOMAIN Generator!Builder(m) |->
                       [Generator!Builder(m)[n] EXCEPT !.number = 0]] = Generator!FieldsOf(m)
                 /\ \A a, b \in DOMAIN Generator!Builder(m) :
                      a < b => Generator!Builder(m)[a].number < Generator!Builder(m)[b].number
      <3>1. PICK made, of : made = Generator!Builder(m) /\ of = Generator!FieldsOf(m)
        OBVIOUS
      <3>2. Numbered(made, of, numbers[m])
        BY <1>0, <3>1, AllNumbered
      <3>3. DOMAIN made = 1..Len(made) /\ of = [n \in 1..Len(made) |-> of[n]]
        BY <3>2, LenProperties DEF Numbered
      <3>4. [n \in DOMAIN made |-> [made[n] EXCEPT !.number = 0]] = of
        <4>1. \A n \in 1..Len(made) : [made[n] EXCEPT !.number = 0] = of[n]
          BY <3>2 DEF Numbered
        <4> QED BY <3>3, <4>1
      <3>5. \A a, b \in DOMAIN made : a < b => made[a].number < made[b].number
        BY <3>2, <3>3 DEF Numbered
      <3> QED BY <3>1, <3>4, <3>5
    <2> QED BY <2>1 DEF Generator!FieldsOfProperties
  <1>4. Generator!OutputJustified
    <2>1. files # {} \/ list # <<>> => \A k \in DOMAIN properties : Generator!Valid(properties[k])
      BY <1>0, <1>1 DEF FilesInv
    <2>2. ASSUME pc = "end", ~ panicked
          PROVE  /\ files = {MessageOf[a] : a \in DOMAIN MessageOf
                                            \cap {properties[k].area : k \in DOMAIN properties}}
                 /\ temporary = {}
      <3>1. Passed
        BY <2>2 DEF Passed
      <3>2. done = Len(properties) /\ files = DOMAIN fields /\ temporary = {}
        BY <1>0, <2>2, <3>1 DEF FilesInv, TemporaryInv
      <3> QED BY <1>0, <1>1, <3>2 DEF BuildersInv
    <2>3. partial # {} => "write" \in failed \/ "close" \in failed
      BY <1>0 DEF FailuresInv
    <2>4. ASSUME pc = "end", ~ panicked
          PROVE  failed \subseteq {"copy", "close"} /\ "xml" \in deferred
      BY <1>0, <2>4 DEF FailuresInv
    <2>5. ASSUME pc = "end", ~ panicked
          PROVE  /\ "copy" \notin failed => text = document.lines
                 /\ "close" \notin failed => partial = {}
      BY <1>0, <2>3, <2>4, <2>5 DEF FailuresInv
    <2> QED BY <2>1, <2>2, <2>3, <2>4, <2>5 DEF Generator!OutputJustified, Generator!Unseen
  <1> QED BY <1>2, <1>3, <1>4

\* For every document, damaged text, mapping and failure of the steps: the properties
\* read are those the lines describe, the identifier of a tag the hexadecimal number of
\* its line (that of a PidLid property may be its digits in base 32); a message has
\* exactly the fields of its properties with a number each; nothing is written from a
\* text that is not valid; and a run that ends well has missed no failure but a failed
\* copy, without which the text is the document's, and a failed close, without which
\* every file is whole (generate.go, createProperties, generateProtocolBuffers, unzip,
\* createProtoFilesFromBuilders and main).
THEOREM FilesAreAsWritten == Spec => []GeneratedAsWritten
  <1> DEFINE Inv == call = "generate" => GeneratorInv
  <1>1. Init => Inv
    BY GeneratorInit
  <1>2. Inv /\ [Next]_vars => Inv'
    <2>1. [Next]_vars => call' = call
      BY DEF Next, GoesOn, Ask, vars
    <2> QED BY <2>1, GeneratorStep
  <1>3. Inv => GeneratedAsWritten
    BY GeneratedWell DEF GeneratedAsWritten
  <1> QED BY <1>1, <1>2, <1>3, PTL DEF Spec

----------------------------------------------------------------------------
(* The four procedures.                                                    *)

CallInv ==
  /\ call = "item" => ItemInv
  /\ call = "rows" => RowsInv
  /\ call = "names" => NamesInv
  /\ call = "generate" => GeneratorInv

\* The state variables of each of the four procedures have their types, for every
\* heap, table, map and document (heap_on_node_reader.go, table_context.go,
\* name_to_id_map.go and generate.go).
THEOREM CallsAreTyped == Spec => []TypeOK
  <1>1. Init => CallInv
    BY ItemInit, RowsInit, NamesInit, GeneratorInit DEF CallInv
  <1>2. CallInv /\ [Next]_vars => CallInv'
    <2>1. [Next]_vars => call' = call
      BY DEF Next, GoesOn, Ask, vars
    <2> QED BY <2>1, ItemStep, RowsStep, NamesStep, GeneratorStep DEF CallInv
  <1>3. CallInv => TypeOK
    BY ItemTyped, RowsTyped, NamesTyped, GeneratorTyped DEF CallInv, TypeOK
  <1> QED BY <1>1, <1>2, <1>3, PTL DEF Spec

=============================================================================
