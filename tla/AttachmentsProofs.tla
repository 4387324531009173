------------------------- MODULE AttachmentsProofs -------------------------
(***************************************************************************)
(* Proofs about Attachments.  What makes the properties inductive is that  *)
(* an iterator has delivered the rows before its index.                    *)
(***************************************************************************)
EXTENDS Attachments, SequenceTheorems, TLAPS

Delivered ==
  \A i \in Iterators :
    /\ it[i].index = Len(it[i].got) /\ it[i].index <= Len(file.rows)
    /\ \A k \in 1..it[i].index : it[i].got[k] = file.rows[k]

IInv == TypeOK /\ CacheWhole /\ Delivered

LEMMA FileFacts ==
  ASSUME TypeOK
  PROVE  /\ file \in File /\ file.rows \in Seq(Nat) /\ Len(file.rows) \in Nat
         /\ file.sound \subseteq Nat \ {0} /\ file.flag \in Flags
         /\ \A k \in DOMAIN file.rows : file.rows[k] \in Nat
         /\ DOMAIN file.rows = 1..Len(file.rows)
  <1>1. file \in File
    BY FilesAssumption DEF TypeOK
  <1> QED BY <1>1 DEF File

\* What a call has of the table.
LEMMA RowsFacts ==
  ASSUME IInv
  PROVE  Rows = file.rows
  BY DEF IInv, CacheWhole, Rows

LEMMA IteratorFacts ==
  ASSUME TypeOK, NEW i \in Iterators
  PROVE  /\ it[i] \in Iterator /\ it \in [Iterators -> Iterator]
         /\ it[i].index \in Nat /\ it[i].got \in Seq(Nat) /\ it[i].value \in Nat
         /\ it[i].err \in BOOLEAN /\ it[i].ready \in BOOLEAN
  BY DEF TypeOK, Iterator

\* The table after a call is the one before, or is the file's.
LEMMA CacheStep ==
  ASSUME IInv, file' = file,
         Fetch \/ TableFails \/ NoAttachments \/ FlagMissing \/ UNCHANGED cache
  PROVE  /\ cache' \in [read : BOOLEAN, rows : Seq(Nat)]
         /\ cache'.read => cache'.rows = file.rows /\ file.flag = "set"
         /\ cache.read => cache'.read
         /\ Fetch => cache'.read
  <1>1. CASE Fetch
    <2>1. cache' = [read |-> TRUE, rows |-> file.rows] /\ file.flag = "set"
      BY <1>1, RowsFacts DEF Fetch, TableAvailable
    <2>2. file.rows \in Seq(Nat)
      BY FileFacts DEF IInv
    <2> QED BY <2>1, <2>2
  <1>2. CASE UNCHANGED cache
    <2>1. Fetch => cache'.read
      BY DEF Fetch
    <2> QED BY <1>2, <2>1 DEF IInv, TypeOK, CacheWhole
  <1> QED BY <1>1, <1>2 DEF TableFails, NoAttachments, FlagMissing

LEMMA FaultStep ==
  ASSUME IInv, ReadOK \/ ReadFails
  PROVE  faults' \in 0..MaxFaults
  <1>1. CASE ReadOK
    BY <1>1 DEF IInv, TypeOK, ReadOK
  <1>2. CASE ReadFails
    BY <1>2, FaultsAssumption DEF IInv, TypeOK, ReadFails
  <1> QED BY <1>1, <1>2

\* The outcomes of the calls that go through the table.
Outcome == Fetch \/ TableFails \/ NoAttachments \/ FlagMissing \/ UNCHANGED cache

Results == {"ok", "notfound", "error", "panic"}
Calls == {"none", "count", "one", "all", "node", "iterator"}

\* A call that leaves the iterators alone.
LEMMA ReplyInv ==
  ASSUME IInv, Outcome, ReadOK \/ ReadFails,
         NEW c \in Calls, NEW r \in Results, NEW l \in Seq(Nat), Replies(c, r, l)
  PROVE  IInv'
  <1>1. /\ answer' = [call |-> c, result |-> r, list |-> l]
        /\ UNCHANGED <<file, open, it>>
    BY DEF Replies, Answer
  <1>2. /\ cache' \in [read : BOOLEAN, rows : Seq(Nat)]
        /\ cache'.read => cache'.rows = file.rows /\ file.flag = "set"
        /\ cache.read => cache'.read
    BY <1>1, CacheStep DEF Outcome
  <1>3. TypeOK'
    BY <1>1, <1>2, FaultStep DEF IInv, TypeOK, Calls, Results
  <1>4. CacheWhole'
    BY <1>1, <1>2 DEF IInv, CacheWhole
  <1>5. Delivered'
    BY <1>1 DEF IInv, Delivered
  <1> QED BY <1>3, <1>4, <1>5 DEF IInv

\* A step of one iterator, which becomes v.
LEMMA IteratorInv ==
  ASSUME IInv, Outcome, ReadOK \/ ReadFails, UNCHANGED <<file, open>>,
         answer' \in [call : Calls, result : Results, list : Seq(Nat)],
         NEW i \in Iterators, NEW v \in Iterator, it' = [it EXCEPT ![i] = v],
         v.ready => cache'.read,
         v.index = Len(v.got), v.index <= Len(file.rows),
         \A k \in 1..v.index : v.got[k] = file.rows[k]
  PROVE  IInv'
  <1>1. /\ cache' \in [read : BOOLEAN, rows : Seq(Nat)]
        /\ cache'.read => cache'.rows = file.rows /\ file.flag = "set"
        /\ cache.read => cache'.read
    BY CacheStep DEF Outcome
  <1>2. /\ it' \in [Iterators -> Iterator] /\ it'[i] = v
        /\ \A j \in Iterators : j # i => it'[j] = it[j]
    BY IteratorFacts DEF IInv, TypeOK
  <1>3. TypeOK'
    BY <1>1, <1>2, FaultStep DEF IInv, TypeOK, Calls, Results
  <1>4. CacheWhole'
    <2>1. ASSUME NEW j \in Iterators PROVE it'[j].ready => cache'.read
      BY <1>1, <1>2 DEF IInv, CacheWhole
    <2> QED BY <1>1, <2>1 DEF CacheWhole
  <1>5. Delivered'
    <2>1. ASSUME NEW j \in Iterators
          PROVE  /\ it'[j].index = Len(it'[j].got) /\ it'[j].index <= Len(file.rows)
                 /\ \A k \in 1..it'[j].index : it'[j].got[k] = file.rows[k]
      BY <1>2 DEF IInv, Delivered
    <2> QED BY <2>1 DEF Delivered
  <1> QED BY <1>3, <1>4, <1>5 DEF IInv

LEMMA NewIterators ==
  /\ NoIterator \in Iterator /\ NoIterator.index = 0 /\ NoIterator.got = <<>>
  /\ FreshIterator \in Iterator /\ FreshIterator.index = 0 /\ FreshIterator.got = <<>>
  /\ ~ NoIterator.ready
  /\ NoIterator.said = "nothing" /\ FreshIterator.said = "nothing"
  <1>1. /\ NoIterator \in Iterator /\ NoIterator.index = 0 /\ NoIterator.got = <<>>
        /\ ~ NoIterator.ready /\ NoIterator.said = "nothing" /\ ~ NoIterator.err
    BY DEF NoIterator, Iterator
  <1>2. FreshIterator \in Iterator
    BY <1>1 DEF FreshIterator, Iterator
  <1>3. FreshIterator.index = 0 /\ FreshIterator.got = <<>> /\ FreshIterator.said = "nothing"
    BY <1>1 DEF FreshIterator, Iterator
  <1> QED BY <1>1, <1>2, <1>3

LEMMA GetAttachmentIteratorInv ==
  ASSUME IInv, NEW i \in Iterators, GetAttachmentIterator(i)
  PROVE  IInv'
  <1>1. PICK v \in {NoIterator, FreshIterator}, r \in Results :
          Begins(i, v, r) /\ (v = NoIterator \/ (v = FreshIterator /\ Fetch))
    BY DEF GetAttachmentIterator, Results
  <1>2. Outcome /\ (ReadOK \/ ReadFails)
    BY DEF GetAttachmentIterator, Outcome, TableFails, NoAttachments, FlagMissing
  <1>3. /\ it' = [it EXCEPT ![i] = v] /\ UNCHANGED <<file, open>>
        /\ answer' = [call |-> "iterator", result |-> r, list |-> <<>>]
    BY <1>1 DEF Begins, Answer
  <1>4. answer' \in [call : Calls, result : Results, list : Seq(Nat)]
    BY <1>3 DEF Calls
  <1>5. v \in Iterator /\ v.index = 0 /\ v.got = <<>> /\ (v.ready => v # NoIterator)
    BY NewIterators
  <1>6. v.ready => cache'.read
    BY <1>1, <1>3, <1>5, CacheStep
  <1>7. v.index = Len(v.got) /\ v.index <= Len(file.rows) /\ 1..v.index = {}
    BY <1>5, FileFacts DEF IInv
  <1> QED BY <1>2, <1>3, <1>4, <1>5, <1>6, <1>7, IteratorInv

\* What NextDelivers makes of its iterator.
LEMMA Delivery ==
  ASSUME IInv, NEW i \in Iterators, NextDelivers(i)
  PROVE  \E v \in Iterator :
           /\ it' = [it EXCEPT ![i] = v]
           /\ it[i].index + 1 \in 1..Len(file.rows)
           /\ v.ready = it[i].ready /\ v.err = it[i].err
           /\ v.index = it[i].index + 1
           /\ v.got = Append(it[i].got, file.rows[it[i].index + 1])
           /\ v.said = "item"
  <1> DEFINE r == it[i]
             n == r.index + 1
             id == Rows[n]
             g == Append(r.got, id)
             v == [r EXCEPT !.index = n, !.value = id, !.said = "item", !.got = g]
  <1>1. n \in 1..Len(file.rows) /\ id \in Nat /\ id = file.rows[n]
    BY RowsFacts, FileFacts, IteratorFacts DEF NextDelivers, Delivers, IInv
  <1>2. it' = [it EXCEPT ![i] = v]
    BY DEF NextDelivers
  <1>3. r \in Iterator /\ n \in Nat /\ g \in Seq(Nat)
    BY <1>1, IteratorFacts DEF IInv
  <1> HIDE DEF r, n, id, g
  <1>4. /\ v \in Iterator /\ v.ready = r.ready /\ v.err = r.err /\ v.index = n
        /\ v.got = g /\ v.said = "item"
    BY <1>1, <1>3 DEF Iterator
  <1> HIDE DEF v
  <1> QED BY <1>1, <1>2, <1>4 DEF r, n, id, g

\* What NextFails and NextEnds make of theirs.
LEMMA Refusal ==
  ASSUME IInv, NEW i \in Iterators, NextFails(i) \/ NextEnds(i)
  PROVE  \E v \in Iterator :
           /\ it' = [it EXCEPT ![i] = v]
           /\ v.ready = it[i].ready /\ v.index = it[i].index /\ v.got = it[i].got
           /\ NextFails(i) => v.said = "error"
           /\ NextEnds(i) => v.said = "end" /\ v.err = it[i].err
           /\ ~ (NextFails(i) /\ NextEnds(i))
  <1> DEFINE r == it[i]
  <1>1. r \in Iterator
    BY IteratorFacts DEF IInv
  <1>2. ~ (NextFails(i) /\ NextEnds(i))
    BY DEF NextFails, NextEnds
  <1>3. CASE NextFails(i)
    <2> DEFINE v == [r EXCEPT !.err = TRUE, !.said = "error"]
    <2>1. it' = [it EXCEPT ![i] = v]
      BY <1>3 DEF NextFails
    <2> HIDE DEF r
    <2>2. /\ v \in Iterator /\ v.ready = r.ready /\ v.index = r.index /\ v.got = r.got
          /\ v.said = "error"
      BY <1>1 DEF Iterator
    <2> HIDE DEF v
    <2> QED BY <1>2, <1>3, <2>1, <2>2 DEF r
  <1>4. CASE NextEnds(i)
    <2> DEFINE v == [r EXCEPT !.said = "end"]
    <2>1. it' = [it EXCEPT ![i] = v]
      BY <1>4 DEF NextEnds
    <2> HIDE DEF r
    <2>2. /\ v \in Iterator /\ v.ready = r.ready /\ v.index = r.index /\ v.got = r.got
          /\ v.said = "end" /\ v.err = r.err
      BY <1>1 DEF Iterator
    <2> HIDE DEF v
    <2> QED BY <1>2, <1>4, <2>1, <2>2 DEF r
  <1> QED BY <1>3, <1>4

LEMMA NextCallInv ==
  ASSUME IInv, NEW i \in Iterators, NextCall(i)
  PROVE  IInv'
  <1>1. /\ UNCHANGED <<file, open>>
        /\ answer' \in [call : Calls, result : Results, list : Seq(Nat)]
        /\ Outcome /\ (ReadOK \/ ReadFails) /\ it[i].ready
    BY DEF NextCall, NextDelivers, NextFails, NextEnds, Delivers, Refuses, RowRefuses,
           TableFails, NoAttachments, FlagMissing, Outcome, ReadOK, IInv, TypeOK, Calls,
           Results
  <1>2. cache'.read
    BY <1>1, CacheStep DEF Outcome, IInv, CacheWhole
  <1>3. /\ it[i].index = Len(it[i].got) /\ it[i].index <= Len(file.rows)
        /\ \A k \in 1..it[i].index : it[i].got[k] = file.rows[k]
        /\ it[i].got \in Seq(Nat) /\ it[i].index \in Nat
    BY IteratorFacts DEF IInv, Delivered
  <1>4. CASE NextDelivers(i)
    <2>1. PICK v \in Iterator :
            /\ it' = [it EXCEPT ![i] = v]
            /\ it[i].index + 1 \in 1..Len(file.rows)
            /\ v.ready = it[i].ready /\ v.err = it[i].err
            /\ v.index = it[i].index + 1
            /\ v.got = Append(it[i].got, file.rows[it[i].index + 1])
            /\ v.said = "item"
      BY <1>4, Delivery
    <2>2. file.rows[it[i].index + 1] \in Nat /\ Len(file.rows) \in Nat
      BY <2>1, FileFacts DEF IInv
    <2>3. /\ Len(v.got) = Len(it[i].got) + 1
          /\ v.got[Len(it[i].got) + 1] = file.rows[it[i].index + 1]
          /\ \A k \in 1..Len(it[i].got) : v.got[k] = it[i].got[k]
      BY <1>3, <2>1, <2>2, AppendProperties, LenProperties
    <2>4. v.index = Len(v.got) /\ v.index <= Len(file.rows)
      BY <1>3, <2>1, <2>2, <2>3
    <2>5. \A k \in 1..v.index : v.got[k] = file.rows[k]
      BY <1>3, <2>1, <2>3
    <2> QED BY <1>1, <1>2, <2>1, <2>4, <2>5, IteratorInv
  <1>5. CASE NextFails(i) \/ NextEnds(i)
    <2>1. PICK v \in Iterator :
            /\ it' = [it EXCEPT ![i] = v]
            /\ v.ready = it[i].ready /\ v.index = it[i].index /\ v.got = it[i].got
      BY <1>5, Refusal
    <2> QED BY <1>1, <1>2, <1>3, <2>1, IteratorInv
  <1> QED BY <1>4, <1>5 DEF NextCall

\* The calls that answer at once.
Ask ==
  \/ GetAttachmentCount \/ GetAllAttachments
  \/ \E k \in 0..Len(file.rows) : GetAttachment(k)
  \/ \E id \in file.sound \cup {0} : GetAttachmentOfNode(id)

LEMMA AskReplies ==
  ASSUME IInv, Ask
  PROVE  /\ Outcome /\ (ReadOK \/ ReadFails)
         /\ \E c \in Calls, r \in Results, l \in Seq(Nat) : Replies(c, r, l)
  <1> USE DEF Outcome, Calls, Results, TableFails, NoAttachments, FlagMissing
  <1>1. Rows \in Seq(Nat) /\ <<>> \in Seq(Nat) /\ \A n \in Nat : <<n>> \in Seq(Nat)
    BY RowsFacts, FileFacts DEF IInv
  <1>2. CASE GetAttachmentCount
    BY <1>1, <1>2 DEF GetAttachmentCount
  <1>3. CASE GetAllAttachments
    BY <1>1, <1>3 DEF GetAllAttachments, RowRefuses
  <1>4. CASE \E k \in 0..Len(file.rows) : GetAttachment(k)
    <2>1. PICK k \in Nat : GetAttachment(k)
      BY <1>4, FileFacts DEF IInv
    <2>2. k + 1 \in DOMAIN Rows => Rows[k + 1] \in Nat
      BY RowsFacts, FileFacts DEF IInv
    <2> QED BY <1>1, <2>1, <2>2 DEF GetAttachment, Delivers, Refuses, RowRefuses
  <1>5. CASE \E id \in file.sound \cup {0} : GetAttachmentOfNode(id)
    <2>1. PICK id \in Nat : GetAttachmentOfNode(id)
      BY <1>5, FileFacts DEF IInv
    <2> QED BY <1>1, <2>1 DEF GetAttachmentOfNode
  <1> QED BY <1>2, <1>3, <1>4, <1>5 DEF Ask

LEMMA NextInv == ASSUME IInv, [Next]_vars PROVE IInv'
  <1>1. CASE Ask
    BY <1>1, AskReplies, ReplyInv
  <1>2. CASE \E i \in Iterators : GetAttachmentIterator(i) \/ NextCall(i)
    BY <1>2, GetAttachmentIteratorInv, NextCallInv
  <1>3. CASE Cleanup
    BY <1>3 DEF Cleanup, IInv, TypeOK, CacheWhole, Delivered
  <1>4. CASE UNCHANGED vars
    BY <1>4 DEF vars, IInv, TypeOK, CacheWhole, Delivered
  <1> QED BY <1>1, <1>2, <1>3, <1>4 DEF Next, Ask

LEMMA InitInv == ASSUME Init PROVE IInv
  <1>1. TypeOK
    BY NewIterators, FaultsAssumption DEF Init, TypeOK, NoTable, Answer
  <1>2. CacheWhole
    BY NewIterators DEF Init, CacheWhole, NoTable
  <1>3. Delivered
    BY <1>1, NewIterators, FileFacts DEF Init, Delivered
  <1> QED BY <1>1, <1>2, <1>3 DEF IInv

----------------------------------------------------------------------------
(* The iterator is a cursor.                                               *)

LEMMA CursorStep ==
  ASSUME IInv, [Next]_vars, NEW j \in Iterators
  PROVE  IteratorCursor(j)!Next \/ UNCHANGED IteratorCursor(j)!vars
  <1> USE DEF IteratorCursor!vars, IteratorCursor!Next
  <1>1. CASE UNCHANGED <<file, it>>
    BY <1>1
  <1>2. ASSUME NEW i \in Iterators, GetAttachmentIterator(i)
        PROVE  IteratorCursor(j)!Next \/ UNCHANGED IteratorCursor(j)!vars
    <2>1. PICK v \in {NoIterator, FreshIterator} :
            it' = [it EXCEPT ![i] = v] /\ file' = file
      BY <1>2 DEF GetAttachmentIterator, Begins
    <2>2. v.got = <<>> /\ v.said = "nothing"
      BY NewIterators
    <2>3. it'[i] = v /\ (j # i => it'[j] = it[j])
      BY <2>1, IteratorFacts DEF IInv
    <2> QED BY <2>1, <2>2, <2>3 DEF IteratorCursor!Restart
  <1>3. ASSUME NEW i \in Iterators, NextCall(i)
        PROVE  IteratorCursor(j)!Next \/ UNCHANGED IteratorCursor(j)!vars
    <2>1. file' = file
      BY <1>3 DEF NextCall, NextDelivers, NextFails, NextEnds
    <2>2. /\ it[i].index = Len(it[i].got) /\ it[i].index <= Len(file.rows)
          /\ \A k \in 1..it[i].index : it[i].got[k] = file.rows[k]
          /\ it[i].got \in Seq(Nat) /\ it[i].index \in Nat
          /\ file.rows \in Seq(Nat) /\ Len(file.rows) \in Nat
      BY IteratorFacts, FileFacts DEF IInv, Delivered
    <2>3. CASE NextDelivers(i)
      <3>1. PICK v \in Iterator :
              /\ it' = [it EXCEPT ![i] = v]
              /\ it[i].index + 1 \in 1..Len(file.rows)
              /\ v.got = Append(it[i].got, file.rows[it[i].index + 1])
              /\ v.said = "item"
        BY <2>3, Delivery
      <3>2. it'[i] = v /\ (j # i => it'[j] = it[j])
        BY <3>1, IteratorFacts DEF IInv
      <3> QED BY <2>1, <2>2, <3>1, <3>2 DEF IteratorCursor!Deliver
    <2>4. CASE NextFails(i) \/ NextEnds(i)
      <3>1. PICK v \in Iterator :
              /\ it' = [it EXCEPT ![i] = v] /\ v.got = it[i].got
              /\ NextFails(i) => v.said = "error"
              /\ NextEnds(i) => v.said = "end"
        BY <2>4, Refusal
      <3>2. it'[i] = v /\ (j # i => it'[j] = it[j])
        BY <3>1, IteratorFacts DEF IInv
      <3>3. NextEnds(i) => it[i].got = file.rows
        <4>1. ASSUME NextEnds(i) PROVE it[i].index = Len(file.rows)
          BY <2>2, <4>1 DEF NextEnds, HasNext, IInv, CacheWhole
        <4> QED BY <2>2, <4>1, SeqEqual
      <3> QED BY <2>1, <2>4, <3>1, <3>2, <3>3 DEF IteratorCursor!Fail, IteratorCursor!End
    <2> QED BY <1>3, <2>3, <2>4 DEF NextCall
  <1>4. CASE Ask \/ Cleanup \/ UNCHANGED vars
    BY <1>1, <1>4, AskReplies DEF Replies, Cleanup, vars
  <1> QED BY <1>2, <1>3, <1>4 DEF Next, Ask

----------------------------------------------------------------------------
(* What the calls answer.                                                  *)

\* Next and Cleanup leave the last answer, and no call changes the file.
LEMMA SameFile ==
  ASSUME IInv, [Next]_vars
  PROVE  /\ file' = file
         /\ open' => open
         /\ faults' = 0 => faults = 0
         /\ (Cleanup \/ UNCHANGED vars \/ \E i \in Iterators : NextCall(i)) => answer' = answer
  <1>1. faults \in Nat
    BY FaultsAssumption DEF IInv, TypeOK
  <1>2. ASSUME Ask PROVE file' = file /\ open' = open /\ (faults' = 0 => faults = 0)
    BY <1>1, <1>2, AskReplies DEF Replies, ReadOK, ReadFails
  <1>3. ASSUME NEW i \in Iterators, GetAttachmentIterator(i)
        PROVE  file' = file /\ open' = open /\ (faults' = 0 => faults = 0)
    BY <1>1, <1>3 DEF GetAttachmentIterator, Begins, ReadOK, ReadFails, TableFails,
                      NoAttachments, FlagMissing
  <1>4. ASSUME NEW i \in Iterators, NextCall(i)
        PROVE  file' = file /\ open' = open /\ answer' = answer /\ (faults' = 0 => faults = 0)
    BY <1>1, <1>4 DEF NextCall, NextDelivers, NextFails, NextEnds, Delivers, Refuses, RowRefuses,
                      TableFails, NoAttachments, FlagMissing, ReadOK, ReadFails
  <1>5. ASSUME Cleanup \/ UNCHANGED vars
        PROVE  file' = file /\ (open' => open) /\ answer' = answer /\ (faults' = 0 => faults = 0)
    BY <1>5 DEF Cleanup, vars
  <1> QED BY <1>2, <1>3, <1>4, <1>5 DEF Next, Ask

LEMMA AllOrErrorStep == ASSUME IInv, AllOrError, [Next]_vars PROVE AllOrError'
  <1>1. file' = file /\ Rows = file.rows
    BY SameFile, RowsFacts
  <1>2. CASE GetAttachmentCount
    BY <1>1, <1>2 DEF GetAttachmentCount, Replies, Answer, AllOrError, Fetch, TableAvailable,
                      NoAttachments
  <1>3. CASE GetAllAttachments
    BY <1>1, <1>3 DEF GetAllAttachments, Replies, Answer, AllOrError, Fetch, TableAvailable,
                      NoAttachments
  <1>4. CASE \E k \in 0..Len(file.rows) : GetAttachment(k)
    BY <1>4 DEF GetAttachment, Replies, Answer, AllOrError
  <1>5. CASE \E id \in file.sound \cup {0} : GetAttachmentOfNode(id)
    BY <1>5 DEF GetAttachmentOfNode, Replies, Answer, AllOrError
  <1>6. CASE \E i \in Iterators : GetAttachmentIterator(i)
    BY <1>6 DEF GetAttachmentIterator, Begins, Answer, AllOrError
  <1>7. CASE Cleanup \/ UNCHANGED vars \/ \E i \in Iterators : NextCall(i)
    BY <1>1, <1>7, SameFile DEF AllOrError
  <1> QED BY <1>2, <1>3, <1>4, <1>5, <1>6, <1>7 DEF Next

\* Nothing is wrong with the file and its reading.
Quiet == SoundFile /\ open /\ faults = 0

LEMMA QuietBefore == ASSUME IInv, [Next]_vars, Quiet' PROVE Quiet /\ faults' = 0
  BY SameFile DEF Quiet, SoundFile

\* Then the table is there, and every row of it leads to an attachment.
LEMMA QuietTable ==
  ASSUME IInv, Quiet, faults' = 0
  PROVE  /\ ~ TableFails /\ ~ FlagMissing
         /\ \A k \in Nat : RowRefuses(k) => k + 1 \notin 1..Len(file.rows)
  <1>1. ~ ReadFails
    BY DEF Quiet, ReadFails
  <1>2. ~ FlagMissing
    BY DEF Quiet, SoundFile, FlagMissing
  <1>3. ~ TableFails
    BY <1>1 DEF Quiet, SoundFile, TableFails, TableAvailable
  <1>4. ASSUME NEW k \in Nat, RowRefuses(k), k + 1 \in 1..Len(file.rows) PROVE FALSE
    <2>1. Rows = file.rows /\ k + 1 \in DOMAIN file.rows
      BY <1>4, RowsFacts, FileFacts DEF IInv
    <2>2. file.rows[k + 1] \in file.sound
      BY <2>1 DEF Quiet, SoundFile
    <2>3. Attachable(Rows[k + 1])
      BY <2>1, <2>2, FileFacts DEF Attachable, Quiet, IInv
    <2> QED BY <1>1, <1>4, <2>1, <2>3 DEF RowRefuses
  <1> QED BY <1>2, <1>3, <1>4

\* What an answer may be while nothing is wrong.
AnswerExplained ==
  answer.result = "error" /\ answer.call # "node" =>
    answer.call = "one"
      /\ (file.flag = "clear" \/ answer.list[1] \notin 0..(Len(file.rows) - 1))

LEMMA AnswerExplainedStep ==
  ASSUME IInv, [Next]_vars, Quiet, faults' = 0, AnswerExplained
  PROVE  AnswerExplained'
  <1>1. file' = file /\ Rows = file.rows /\ DOMAIN file.rows = 1..Len(file.rows)
    BY SameFile, RowsFacts, FileFacts DEF IInv
  <1>2. CASE GetAttachmentCount
    BY <1>2, QuietTable DEF GetAttachmentCount, Replies, Answer, AnswerExplained
  <1>3. CASE GetAllAttachments
    <2>1. ASSUME NEW k \in DOMAIN Rows PROVE ~ RowRefuses(k - 1)
      <3>1. k \in 1..Len(file.rows) /\ k - 1 \in Nat /\ (k - 1) + 1 = k
        BY <1>1, <2>1, FileFacts DEF IInv
      <3> QED BY <3>1, QuietTable
    <2> QED BY <1>3, <2>1, QuietTable DEF GetAllAttachments, Replies, Answer, AnswerExplained
  <1>4. CASE \E k \in 0..Len(file.rows) : GetAttachment(k)
    <2>1. PICK k \in Nat : GetAttachment(k)
      BY <1>4, FileFacts DEF IInv
    <2>2. CASE Delivers(k) /\ Replies("one", "ok", <<Rows[k + 1]>>)
      BY <2>2 DEF Replies, Answer, AnswerExplained
    <2>3. CASE Refuses(k) /\ Replies("one", "error", <<k>>)
      <3>1. file.flag = "clear" \/ k + 1 \notin 1..Len(file.rows)
        BY <2>3, QuietTable DEF Refuses, NoAttachments
      <3>2. file.flag = "clear" \/ k \notin 0..(Len(file.rows) - 1)
        BY <3>1, FileFacts DEF IInv
      <3>3. answer' = [call |-> "one", result |-> "error", list |-> <<k>>] /\ <<k>>[1] = k
        BY <2>3 DEF Replies, Answer
      <3> QED BY <1>1, <3>2, <3>3 DEF AnswerExplained
    <2> QED BY <2>1, <2>2, <2>3 DEF GetAttachment
  <1>5. CASE \E id \in file.sound \cup {0} : GetAttachmentOfNode(id)
    BY <1>5 DEF GetAttachmentOfNode, Replies, Answer, AnswerExplained
  <1>6. CASE \E i \in Iterators : GetAttachmentIterator(i)
    BY <1>6, QuietTable DEF GetAttachmentIterator, Begins, Answer, AnswerExplained
  <1>7. CASE Cleanup \/ UNCHANGED vars \/ \E i \in Iterators : NextCall(i)
    BY <1>1, <1>7, SameFile DEF AnswerExplained
  <1> QED BY <1>2, <1>3, <1>4, <1>5, <1>6, <1>7 DEF Next

\* While nothing is wrong, no row that an iterator asks for refuses.
LEMMA QuietNext ==
  ASSUME IInv, Quiet, faults' = 0, NEW i \in Iterators
  PROVE  ~ NextFails(i)
  <1> SUFFICES ASSUME NextFails(i) PROVE FALSE
    OBVIOUS
  <1>1. /\ it[i].ready /\ cache.read /\ cache.rows = file.rows /\ file.flag = "set"
        /\ Refuses(it[i].index) /\ it[i].index < Len(cache.rows)
    BY DEF NextFails, HasNext, IInv, CacheWhole
  <1>2. it[i].index \in Nat /\ it[i].index + 1 \in 1..Len(file.rows)
    BY <1>1, IteratorFacts, FileFacts DEF IInv
  <1>3. ~ RowRefuses(it[i].index) /\ ~ TableFails /\ ~ FlagMissing
    BY <1>2, QuietTable
  <1> QED BY <1>1, <1>3 DEF Refuses, NoAttachments

LEMMA NoErrorStep ==
  ASSUME IInv, [Next]_vars, Quiet, faults' = 0, \A i \in Iterators : ~ it[i].err,
         NEW j \in Iterators
  PROVE  ~ it'[j].err
  <1>1. ASSUME NEW i \in Iterators, GetAttachmentIterator(i)
        PROVE  ~ it'[j].err
    <2>1. PICK v \in {NoIterator, FreshIterator} : it' = [it EXCEPT ![i] = v]
      BY <1>1 DEF GetAttachmentIterator, Begins
    <2>2. ~ v.err
      BY <2>1 DEF NoIterator, FreshIterator
    <2> QED BY <2>1, <2>2, IteratorFacts DEF IInv
  <1>2. ASSUME NEW i \in Iterators, NextCall(i)
        PROVE  ~ it'[j].err
    <2>1. NextDelivers(i) \/ NextEnds(i)
      BY <1>2, QuietNext DEF NextCall
    <2>2. CASE NextDelivers(i)
      <3>1. PICK v \in Iterator : it' = [it EXCEPT ![i] = v] /\ v.err = it[i].err
        BY <2>2, Delivery
      <3> QED BY <3>1, IteratorFacts DEF IInv
    <2>3. CASE NextEnds(i)
      <3>1. PICK v \in Iterator : it' = [it EXCEPT ![i] = v] /\ v.err = it[i].err
        BY <2>3, Refusal
      <3> QED BY <3>1, IteratorFacts DEF IInv
    <2> QED BY <2>1, <2>2, <2>3
  <1>3. CASE Ask \/ Cleanup \/ UNCHANGED vars
    BY <1>3, AskReplies DEF Replies, Cleanup, vars
  <1> QED BY <1>1, <1>2, <1>3 DEF Next, Ask

LEMMA ErrorsExplainedStep == ASSUME IInv, ErrorsExplained, [Next]_vars PROVE ErrorsExplained'
  <1> SUFFICES ASSUME Quiet'
               PROVE  (\A i \in Iterators : ~ it[i].err)' /\ AnswerExplained'
    BY DEF ErrorsExplained, Quiet, AnswerExplained
  <1>1. Quiet /\ faults' = 0
    BY QuietBefore
  <1>2. (\A i \in Iterators : ~ it[i].err) /\ AnswerExplained
    BY <1>1 DEF ErrorsExplained, Quiet, AnswerExplained
  <1> QED BY <1>1, <1>2, NoErrorStep, AnswerExplainedStep

----------------------------------------------------------------------------
(* The theorems.                                                           *)

\* In every reachable state a kept table is whole and every iterator has
\* delivered the rows before its index.
THEOREM Invariance == Spec => []IInv
  <1>1. Init => IInv
    BY InitInv
  <1>2. IInv /\ [Next]_vars => IInv'
    BY NextInv
  <1> QED BY <1>1, <1>2, PTL DEF Spec

\* The state of a message and of its iterators keeps its types.
THEOREM TypeCorrectness == Spec => []TypeOK
  <1>1. IInv => TypeOK
    BY DEF IInv
  <1> QED BY <1>1, Invariance, PTL

\* message.AttachmentTableContext is set only to the whole table, however often
\* reading it fails before, and every iterator finds it set.
THEOREM CacheIsWhole == Spec => []CacheWhole
  <1>1. IInv => CacheWhole
    BY DEF IInv
  <1> QED BY <1>1, Invariance, PTL

\* GetAllAttachments and GetAttachmentCount never leave a row out without an error,
\* whatever failed before and whoever read the table.
THEOREM NoRowIsLeftOut == Spec => []AllOrError
  <1>1. Init => AllOrError
    BY DEF Init, Answer, AllOrError
  <1>2. IInv /\ AllOrError /\ [Next]_vars => AllOrError'
    BY AllOrErrorStep
  <1> QED BY <1>1, <1>2, Invariance, PTL DEF Spec

\* On a sound open file without failing reads no iterator and no call fails, but a
\* request for what is not there.
THEOREM ErrorsAreExplained == Spec => []ErrorsExplained
  <1>1. Init => ErrorsExplained
    BY DEF Init, Answer, NoIterator, ErrorsExplained
  <1>2. IInv /\ ErrorsExplained /\ [Next]_vars => ErrorsExplained'
    BY ErrorsExplainedStep
  <1> QED BY <1>1, <1>2, Invariance, PTL DEF Spec

\* AttachmentIterator implements Cursor: any number of iterators on one message,
\* with other calls, failing reads and Cleanup between them, each deliver the
\* attachments in order, repeat a failed one and end only after the last.
THEOREM IteratorsAreCursors == Spec => ImplementsCursor
  <1>1. Init => \A i \in Iterators : IteratorCursor(i)!Init
    BY NewIterators DEF Init, IteratorCursor!Init
  <1>2. IInv /\ [Next]_vars =>
          [\A i \in Iterators :
             IteratorCursor(i)!Next \/ UNCHANGED IteratorCursor(i)!vars]_vars
    BY CursorStep
  <1> QED BY <1>1, <1>2, Invariance, PTL DEF Spec, ImplementsCursor

=============================================================================
