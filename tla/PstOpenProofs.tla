-------------------------- MODULE PstOpenProofs --------------------------
(***************************************************************************)
(* The safety properties of PstOpen and that it implements NodeDirectory,  *)
(* for every file with well-formed trees and every bound.  IInv is the     *)
(* inductive invariant: what is known of the stack of page loops and of    *)
(* the store while a tree is walked.                                       *)
(***************************************************************************)
EXTENDS PstOpen, SequenceTheorems, TLAPS

\* What is left of a stack when its last element is taken.
LEMMA PopFacts ==
  ASSUME NEW S, NEW s \in Seq(S), s # <<>>
  PROVE  /\ SubSeq(s, 1, Len(s) - 1) \in Seq(S)
         /\ Len(SubSeq(s, 1, Len(s) - 1)) = Len(s) - 1 /\ Len(s) \in Nat
         /\ \A k \in 1..(Len(s) - 1) : SubSeq(s, 1, Len(s) - 1)[k] = s[k]
  <1>1. Len(s) \in Nat \ {0}
    BY EmptySeq
  <1>2. \A k \in 1..(Len(s) - 1) : s[k] \in S
    BY <1>1, ElementOfSeq
  <1>3. PICK n \in Nat : Len(s) = n + 1 /\ Len(s) - 1 = n
    BY <1>1
  <1>4. /\ SubSeq(s, 1, n) \in Seq(S) /\ Len(SubSeq(s, 1, n)) = n
        /\ \A k \in 1..n : SubSeq(s, 1, n)[k] = s[k]
    BY <1>2, <1>3, SubSeqProperties
  <1> QED BY <1>1, <1>3, <1>4

----------------------------------------------------------------------------
(* The order of the store.                                                 *)

Key == [id : Int, level : Int]

\* BTreeNodeLessFunc is a strict weak ordering, as tidwall/btree requires: it is
\* irreflexive and transitive, and so is incomparability (btree.go:149).
THEOREM LessStrictWeakOrdering ==
  \A a, b, c \in Key :
    /\ ~ Less(a, a)
    /\ Less(a, b) /\ Less(b, c) => Less(a, c)
    /\ SameKey(a, b) /\ SameKey(b, c) => SameKey(a, c)
  BY DEF Key, Less, SameKey

\* Two nodes are one to the store when identifier and level agree.
LEMMA SameKeyIff ==
  ASSUME NEW a, NEW b, a.id \in Int, b.id \in Int, a.level \in Int, b.level \in Int
  PROVE  SameKey(a, b) <=> a.id = b.id /\ a.level = b.level
  BY DEF SameKey, Less

----------------------------------------------------------------------------
(* The inductive invariant.                                                *)

\* What the i-th entry of a page stands for: a subtree or a single leaf entry.
EntrySpan(p, i) == IF PageLevel[p] > 0 THEN Span[Child[p][i]] ELSE {Ids[p][i]}
EntryKeys(p, i) == IF PageLevel[p] > 0 THEN Keys[Child[p][i]] ELSE {Ids[p][i]}

Pending(f) == {i \in DOMAIN Ids[f.page] : f.next <= i}

Active == pc \in {"level", "entries", "load"}
Visiting == pc \in {"level", "entries"}

\* Outside the walk the stack is empty.
StackInv == Active \/ pc \in {"panicked", "conflict"} \/ frames = <<>>

\* A level is the page's own, or 0 because it could not be read.
LevelInv ==
  /\ pc = "entries" =>
       \/ level = PageLevel[page]
       \/ level = 0 /\ page \in misread[tree]
  /\ Active => \A k \in 1..Len(frames) :
       \/ frames[k].level = PageLevel[frames[k].page]
       \/ frames[k].level = 0 /\ frames[k].page \in misread[tree]

\* The page or loop inside another loop is below that loop's current entry.
Within(f, p) ==
  /\ f.next - 1 \in DOMAIN Ids[f.page]
  /\ Span[p] \subseteq EntrySpan(f.page, f.next - 1)

NestedInv ==
  /\ Active => \A k, m \in 1..Len(frames) :
       k < m => Within(frames[k], frames[m].page)
  /\ Visiting => \A k \in 1..Len(frames) : Within(frames[k], page)

\* What the store already has of a subtree still to be walked are nodes of
\* higher levels: the branch entries on the way to it.
FreshInv ==
  /\ Active => \A k \in 1..Len(frames) : \A i \in Pending(frames[k]) :
       \A n \in store[tree] :
         n.id \in EntrySpan(frames[k].page, i) => n.level > frames[k].level
  /\ Visiting => \A n \in store[tree] :
       n.id \in Span[page] => n.level > PageLevel[page]

\* The walk stays in the tree.
RootInv ==
  /\ Active => \A k \in 1..Len(frames) :
       Keys[frames[k].page] \subseteq Keys[Root[tree]]
  /\ Visiting => Keys[page] \subseteq Keys[Root[tree]]

\* Every leaf entry of a tree is stored, lost to a failed read, or still ahead.
Ahead(id) ==
  \/ Visiting /\ id \in Keys[page]
  \/ \E k \in 1..Len(frames) : \E i \in Pending(frames[k]) :
       id \in EntryKeys(frames[k].page, i)

Passed(t) ==
  \/ pc \in {"map", "opened"}
  \/ t = "node" /\ tree = "block" /\ pc \in {"init", "level", "entries", "load"}

AheadInv ==
  Active => \A id \in Keys[Root[tree]] :
    tree \in cut \/ Found(store[tree], id) \/ Damaged(tree, id) \/ Ahead(id)

Complete(t) == \A id \in Keys[Root[t]] : Found(store[t], id) \/ Damaged(t, id)

\* A filled store that is not being walked is complete, whatever became of the
\* attempt that filled it, and so is the store of a tree this attempt is past.
DoneInv ==
  \A t \in Trees \ cut :
    /\ ~ (Walking /\ t = tree)
    /\ ~ IsEmpty(store[t]) \/ Passed(t)
    => Complete(t)

\* The node b-tree comes first.
HeaderInv == pc \in {"signature", "format", "content", "encryption"} => tree = "node"

OrderInv == StackInv /\ LevelInv /\ NestedInv /\ FreshInv /\ NoConflict
ContentInv == RootInv /\ AheadInv /\ DoneInv /\ LeafGenuine
IInv == TypeOK /\ HeaderInv /\ OrderInv /\ ContentInv

----------------------------------------------------------------------------
(* Facts about well-formed trees.                                          *)

LEMMA PageFacts ==
  ASSUME NEW p \in Page
  PROVE  /\ PageLevel[p] \in Nat /\ Ids[p] \in Seq(Nat)
         /\ Keys[p] \subseteq Span[p] /\ Span[p] \subseteq Nat
         /\ PageLevel[p] = 0 => WellFormedLeaf(p)
         /\ PageLevel[p] > 0 => WellFormedBranch(p)
  BY WellFormedTrees

\* An entry lies in its span, and its span within that of its page.
LEMMA EntryFacts ==
  ASSUME NEW p \in Page, NEW i \in DOMAIN Ids[p]
  PROVE  /\ Ids[p][i] \in Nat
         /\ Ids[p][i] \in EntrySpan(p, i)
         /\ EntrySpan(p, i) \subseteq Span[p]
         /\ EntryKeys(p, i) \subseteq Keys[p]
         /\ PageLevel[p] > 0 =>
              /\ Child[p][i] \in Page
              /\ PageLevel[Child[p][i]] = PageLevel[p] - 1
  <1>1. CASE PageLevel[p] = 0
    BY <1>1, PageFacts DEF WellFormedLeaf, EntrySpan, EntryKeys
  <1>2. CASE PageLevel[p] > 0
    BY <1>2, PageFacts DEF WellFormedBranch, EntrySpan, EntryKeys
  <1> QED BY <1>1, <1>2, PageFacts

\* Two entries of a page share no identifier.
LEMMA SpansDisjoint ==
  ASSUME NEW p \in Page, NEW i \in DOMAIN Ids[p], NEW j \in DOMAIN Ids[p], i # j
  PROVE  EntrySpan(p, i) \cap EntrySpan(p, j) = {}
  <1>1. CASE PageLevel[p] = 0
    BY <1>1, PageFacts DEF WellFormedLeaf, EntrySpan
  <1>2. CASE PageLevel[p] > 0
    BY <1>2, PageFacts DEF WellFormedBranch, EntrySpan
  <1> QED BY <1>1, <1>2, PageFacts

\* The leaf entries below a page are those below its entries.
LEMMA KeysOfEntries ==
  ASSUME NEW p \in Page, NEW id \in Keys[p]
  PROVE  \E i \in DOMAIN Ids[p] : id \in EntryKeys(p, i)
  <1>1. CASE PageLevel[p] = 0
    BY <1>1, PageFacts DEF WellFormedLeaf, EntryKeys
  <1>2. CASE PageLevel[p] > 0
    BY <1>2, PageFacts DEF WellFormedBranch, EntryKeys
  <1> QED BY <1>1, <1>2, PageFacts

----------------------------------------------------------------------------
(* Initial states.                                                         *)

LEMMA InitInv == Init => IInv
  <1> SUFFICES ASSUME Init PROVE IInv
    OBVIOUS
  <1>1. TypeOK
    BY WellFormedTrees DEF Init, TypeOK, Empty, NoPages, Trees, Labels, Frame
  <1>2. OrderInv
    BY DEF Init, OrderInv, StackInv, LevelInv, NestedInv, FreshInv, NoConflict,
           Active, Visiting
  <1>3. ContentInv
    BY DEF Init, ContentInv, RootInv, AheadInv, DoneInv, LeafGenuine, Active, Visiting,
           Walking, Passed, IsEmpty, Empty, Trees
  <1>4. HeaderInv
    BY DEF Init, HeaderInv
  <1> QED BY <1>1, <1>2, <1>3, <1>4 DEF IInv

----------------------------------------------------------------------------
(* Type correctness.                                                       *)

\* The loop whose turn it is.
LEMMA TopFacts ==
  ASSUME TypeOK, LevelInv, pc = "load", frames # <<>>
  PROVE  /\ Len(frames) \in 1..Len(frames)
         /\ Top \in Frame
         /\ \/ Top.level = PageLevel[Top.page]
            \/ Top.level = 0 /\ Top.page \in misread[tree]
  BY DEF TypeOK, LevelInv, Active, Top

LEMMA LoadType ==
  ASSUME TypeOK, LevelInv, LoadEntry
  PROVE  TypeOK'
  <1> DEFINE f == Top
             n == EntryNode(f, f.next)
  <1>1. f \in Frame /\ (f.level > 0 => PageLevel[f.page] > 0)
    BY TopFacts, PageFacts DEF LoadEntry, Frame
  <1>2. f.next \in DOMAIN Ids[f.page]
    BY <1>1, PageFacts DEF LoadEntry, Frame
  <1>3. n.id \in Nat /\ n.level \in Nat /\ (f.level > 0 => n.ref \in Page)
    BY <1>1, <1>2, EntryFacts DEF EntryNode, Frame
  <1>4. store' = [store EXCEPT ![tree] = Load(@, n)]
    BY DEF LoadEntry
  <1>5. DOMAIN store' = Trees
        /\ \A t \in Trees : \A m \in store'[t] : m.id \in Nat /\ m.level \in Nat
    <2>1. \A m \in Load(store[tree], n) : m \in store[tree] \/ m = n
      BY DEF Load
    <2> QED BY <1>3, <1>4, <2>1 DEF TypeOK
  <1>6. page' \in Page
    BY <1>3 DEF LoadEntry, TypeOK
  <1>7. frames' \in Seq(Frame)
    <2>1. CASE frames' = frames
      BY <2>1 DEF TypeOK
    <2>2. CASE frames' = [frames EXCEPT ![Len(frames)].next = @ + 1]
      <3>1. frames' = [frames EXCEPT ![Len(frames)] = [f EXCEPT !.next = @ + 1]]
        BY <2>2 DEF Top
      <3>2. [f EXCEPT !.next = @ + 1] \in Frame
        BY <1>1 DEF Frame
      <3> QED BY <3>1, <3>2, TopFacts DEF LoadEntry, TypeOK
    <2> QED BY <2>1, <2>2 DEF LoadEntry
  <1>8. pc' \in Labels
    BY DEF LoadEntry, TypeOK, Labels
  <1> QED BY <1>5, <1>6, <1>7, <1>8 DEF LoadEntry, TypeOK, bounds, history

LEMMA NextType == TypeOK /\ LevelInv /\ [Next]_vars => TypeOK'
  <1> SUFFICES ASSUME TypeOK, LevelInv, [Next]_vars PROVE TypeOK'
    OBVIOUS
  <1> USE DEF TypeOK, Labels, Trees
  <1>1. CASE New \/ NewFromReaderWithBTrees
    <2>1. opens' \in Nat
      BY <1>1 DEF New, NewFromReaderWithBTrees, BeginOpen
    <2>2. DOMAIN store' = Trees /\ \A t \in Trees : \A n \in store'[t] :
            n.id \in Nat /\ n.level \in Nat
      BY <1>1 DEF New, NewFromReaderWithBTrees, Empty
    <2> QED
      BY <1>1, <2>1, <2>2 DEF New, NewFromReaderWithBTrees, BeginOpen, history
  <1>2. ASSUME NEW next \in Labels, NEW label, NEW accepts, HeaderCheck(label, accepts, next)
        PROVE  TypeOK'
    <2>1. faults' \in Nat
      BY <1>2 DEF HeaderCheck, ReadOK, ReadFails
    <2>2. pc' \in Labels /\ UNCHANGED <<tree, page, level, frames>>
      BY <1>2 DEF HeaderCheck, Goto
    <2> QED
      BY <1>2, <2>1, <2>2 DEF HeaderCheck, history
  <1>3. CASE SkipBTree
    BY <1>3 DEF SkipBTree, AfterInit, history, bounds
  <1>4. CASE InitBTree
    <2>1. faults' \in Nat
      BY <1>4 DEF InitBTree, ReadOK, ReadFails
    <2>2. page' \in Page /\ pc' \in Labels /\ UNCHANGED <<tree, level, frames>>
      BY <1>4, WellFormedTrees DEF InitBTree, Goto
    <2>3. /\ unread' \in [Trees -> SUBSET Page] /\ misread' \in [Trees -> SUBSET Page]
          /\ cut' \subseteq Trees
      BY <1>4 DEF InitBTree, history
    <2> QED
      BY <1>4, <2>1, <2>2, <2>3 DEF InitBTree
  <1>5. CASE GetParentBTreeNodeLevel
    BY <1>5, PageFacts DEF GetParentBTreeNodeLevel, ReadOK, ReadFails
  <1>6. CASE GetBTreeNodeEntries
    <2>1. faults' \in Nat
      BY <1>6 DEF GetBTreeNodeEntries, ReadOK, ReadFails
    <2>2. frames' \in Seq(Frame)
      <3>1. [page |-> page, level |-> level, next |-> 1] \in Frame
        BY DEF Frame
      <3>2. frames' = frames
            \/ frames' = Append(frames, [page |-> page, level |-> level, next |-> 1])
        BY <1>6 DEF GetBTreeNodeEntries
      <3>3. frames \in Seq(Frame)
        OBVIOUS
      <3> QED BY <3>1, <3>2, <3>3, AppendProperties, LenProperties
    <2>3. unread' \in [Trees -> SUBSET Page]
      <3>1. unread' = unread \/ unread' = [unread EXCEPT ![tree] = @ \cup {page}]
        BY <1>6 DEF GetBTreeNodeEntries
      <3> QED BY <3>1
    <2>4. /\ pc' \in Labels
          /\ UNCHANGED <<header, store, tree, page, level, opens, crashes, misread, cut>>
      BY <1>6 DEF GetBTreeNodeEntries
    <2> QED
      BY <2>1, <2>2, <2>3, <2>4
  <1>7. CASE LoadEntry
    BY <1>7, LoadType
  <1>8. CASE Return
    BY <1>8 DEF Return, history, bounds
  <1>9. CASE WalkDone
    BY <1>9 DEF WalkDone, AfterInit, history, bounds
  <1>10. CASE GetNameToIDMap
    BY <1>10 DEF GetNameToIDMap, ReadOK, ReadFails, Goto, history
  <1>11. CASE \E id \in Span[Root["node"]] : Lookup(id)
    BY <1>11 DEF Lookup, attempt, history, bounds
  <1>12. CASE Cleanup
    BY <1>12 DEF Cleanup, Goto, Empty, history, bounds
  <1>13. CASE Crash
    BY <1>13 DEF Crash, Empty
  <1>14. CASE UNCHANGED vars
    BY <1>14 DEF vars, attempt, history, bounds
  <1> QED
    BY <1>1, <1>2, <1>3, <1>4, <1>5, <1>6, <1>7, <1>8, <1>9, <1>10, <1>11, <1>12,
       <1>13, <1>14 DEF Next, Open, IsValidSignature, GetFormatType,
       GetContentType, GetEncryptionType

----------------------------------------------------------------------------
(* The order of the walk.                                                  *)

\* What the loop that loads its next entry knows of it.
LEMMA NextEntry ==
  ASSUME TypeOK, LevelInv, LoadEntry
  PROVE  /\ Len(frames) \in 1..Len(frames) /\ frames[Len(frames)] = Top
         /\ Top \in Frame /\ Top.page \in Page /\ Top.level \in Nat
         /\ Top.next \in DOMAIN Ids[Top.page] /\ Top.next \in Pending(Top)
         /\ Top.level > 0 => Top.level = PageLevel[Top.page]
         /\ EntryNode(Top, Top.next).id = Ids[Top.page][Top.next]
         /\ EntryNode(Top, Top.next).level = Top.level
         /\ Top.level > 0 => EntryNode(Top, Top.next).ref = Child[Top.page][Top.next]
  <1>1. Top \in Frame /\ Len(frames) \in 1..Len(frames) /\ frames[Len(frames)] = Top
    BY TopFacts DEF LoadEntry, Top
  <1>2. Top.next \in DOMAIN Ids[Top.page]
    BY <1>1, PageFacts DEF LoadEntry, Frame
  <1>3. Top.level > 0 => Top.level = PageLevel[Top.page]
    BY TopFacts DEF LoadEntry
  <1> QED BY <1>1, <1>2, <1>3 DEF EntryNode, Pending, Frame

\* Load never replaces a node: the branch of the panic is not taken.
LEMMA LoadIsNew ==
  ASSUME TypeOK, LevelInv, FreshInv, LoadEntry
  PROVE  /\ ~ Exists(store[tree], EntryNode(Top, Top.next))
         /\ store'[tree] = store[tree] \cup {EntryNode(Top, Top.next)}
         /\ \A t \in Trees : t # tree => store'[t] = store[t]
         /\ frames' = [frames EXCEPT ![Len(frames)].next = @ + 1]
  <1> DEFINE n == EntryNode(Top, Top.next)
  <1>1. n.id \in EntrySpan(Top.page, Top.next) /\ n.id \in Nat /\ n.level = Top.level
    BY NextEntry, EntryFacts
  <1>2. ASSUME NEW m \in store[tree] PROVE ~ SameKey(m, n)
    <2>1. m.id \in Nat /\ m.level \in Nat
      BY DEF TypeOK
    <2>2. m.id = n.id => m.level > Top.level
      BY <1>1, NextEntry DEF FreshInv, Active, LoadEntry
    <2>3. SameKey(m, n) => m.id = n.id /\ m.level = n.level
      BY <1>1, <2>1, NextEntry, SameKeyIff
    <2> QED BY <1>1, <2>1, <2>2, <2>3, NextEntry
  <1>3. ~ Exists(store[tree], n)
    BY <1>2 DEF Exists
  <1>4. store'[tree] = store[tree] \cup {n} /\ \A t \in Trees : t # tree => store'[t] = store[t]
    <2>1. Load(store[tree], n) = store[tree] \cup {n}
      BY <1>2 DEF Load
    <2> QED BY <2>1 DEF LoadEntry, TypeOK
  <1> QED BY <1>3, <1>4 DEF LoadEntry

\* The frames after the load: only the innermost loop advances.
LEMMA FramesAfterLoad ==
  ASSUME TypeOK, LevelInv, FreshInv, LoadEntry
  PROVE  /\ Len(frames') = Len(frames)
         /\ \A k \in 1..Len(frames) : k # Len(frames) => frames'[k] = frames[k]
         /\ \A k \in 1..Len(frames) :
              frames'[k].page = frames[k].page /\ frames'[k].level = frames[k].level
         /\ frames'[Len(frames)].next = Top.next + 1
  <1> DEFINE g == [Top EXCEPT !.next = @ + 1]
  <1>1. frames \in Seq(Frame)
    BY DEF TypeOK
  <1>2. frames' = [frames EXCEPT ![Len(frames)] = g]
    BY LoadIsNew DEF Top
  <1>3. g.page = Top.page /\ g.level = Top.level /\ g.next = Top.next + 1
    BY NextEntry DEF Frame
  <1> HIDE DEF g
  <1> QED BY <1>1, <1>2, <1>3, NextEntry

LEMMA LoadOrder ==
  ASSUME TypeOK, OrderInv, LoadEntry
  PROVE  OrderInv'
  <1> USE DEF OrderInv
  <1> DEFINE n == EntryNode(Top, Top.next)
             L == Len(frames)
             span == EntrySpan(Top.page, Top.next)
  <1>1. /\ pc = "load" /\ tree' = tree /\ misread' = misread /\ level' = level
        /\ \/ Top.level > 0 /\ pc' = "level" /\ page' = Child[Top.page][Top.next]
           \/ Top.level = 0 /\ pc' = "load" /\ page' = page
    BY LoadIsNew, NextEntry DEF LoadEntry, history
  <1>2. /\ n.id \in span /\ n.id \in Nat /\ n.level = Top.level
        /\ span \subseteq Span[Top.page]
    BY NextEntry, EntryFacts
  <1>3. \A m \in store'[tree] : m \in store[tree] \/ m = n
    BY LoadIsNew
  <1>4. StackInv' /\ NoConflict'
    BY <1>1 DEF StackInv, Active, NoConflict
  <1>5. LevelInv'
    BY <1>1, FramesAfterLoad DEF LevelInv, Active
  <1>6. \A k \in 1..L : k # L =>
          Within(frames[k], Top.page) /\ span \subseteq EntrySpan(frames[k].page, frames[k].next - 1)
    <2>1. ASSUME NEW k \in 1..L, k # L
          PROVE  Within(frames[k], Top.page)
      <3>1. k < L /\ L \in 1..L /\ frames[L].page = Top.page
        BY <2>1, NextEntry
      <3> QED BY <1>1, <3>1 DEF NestedInv, Active
    <2> QED BY <1>2, <2>1 DEF Within
  <1>7. NestedInv'
    <2>1. ASSUME NEW k \in 1..L, NEW m \in 1..L, k < m
          PROVE  Within(frames[k], frames[m].page)' 
      BY <1>1, <2>1, FramesAfterLoad DEF NestedInv, Active, Within, EntrySpan
    <2>2. ASSUME NEW k \in 1..L, pc' = "level"
          PROVE  Within(frames[k], page)'
      <3>1. Span[page'] = span
        BY <1>1, <2>2, NextEntry DEF EntrySpan
      <3>2. CASE k # L
        BY <1>6, <3>1, <3>2, FramesAfterLoad DEF Within, EntrySpan
      <3>3. CASE k = L
        <4>1. Top.next \in Nat /\ frames'[k].next = Top.next + 1
          BY <3>3, NextEntry, FramesAfterLoad DEF Frame
        <4>2. frames'[k].page = Top.page
          BY <3>3, NextEntry, FramesAfterLoad
        <4> QED BY <3>1, <4>1, <4>2, NextEntry DEF Within, EntrySpan
      <3> QED BY <3>2, <3>3
    <2> QED BY <1>1, <2>1, <2>2, FramesAfterLoad DEF NestedInv, Active, Visiting
  <1>8. FreshInv'
    <2>1. ASSUME NEW k \in 1..L, NEW i \in Pending(frames[k])', NEW m \in store'[tree],
                 m.id \in EntrySpan(frames[k].page, i)
          PROVE  m.level > frames[k].level
      <3>1. i \in Pending(frames[k]) /\ i \in DOMAIN Ids[frames[k].page]
        <4>1. CASE k # L
          BY <4>1, FramesAfterLoad DEF Pending
        <4>2. CASE k = L
          BY <4>2, FramesAfterLoad, NextEntry, PageFacts DEF Pending, Frame
        <4> QED BY <4>1, <4>2
      <3>2. CASE m \in store[tree]
        BY <1>1, <2>1, <3>1, <3>2 DEF FreshInv, Active
      <3>3. CASE m = n
        <4>1. CASE k # L
          <5>1. n.id \in EntrySpan(frames[k].page, frames[k].next - 1)
                /\ frames[k].next - 1 \in DOMAIN Ids[frames[k].page]
            BY <1>2, <1>6, <4>1 DEF Within
          <5>2. frames[k] \in Frame
            BY DEF TypeOK
          <5>3. i # frames[k].next - 1
            BY <3>1, <5>2 DEF Pending, Frame
          <5> QED BY <2>1, <3>1, <3>3, <5>1, <5>2, <5>3, SpansDisjoint DEF Frame
        <4>2. CASE k = L
          <5>1. i # Top.next
            BY <4>2, FramesAfterLoad, NextEntry, PageFacts DEF Pending, Frame
          <5> QED BY <1>2, <2>1, <3>1, <3>3, <4>2, <5>1, NextEntry, SpansDisjoint
        <4> QED BY <4>1, <4>2
      <3> QED BY <1>3, <3>2, <3>3
    <2>2. ASSUME NEW m \in store'[tree], pc' = "level", m.id \in Span[page']
          PROVE  m.level > PageLevel[page']
      <3>1. Span[page'] = span /\ PageLevel[page'] = Top.level - 1
        BY <1>1, <2>2, NextEntry, EntryFacts DEF EntrySpan
      <3>2. CASE m \in store[tree]
        <4>1. m.level > Top.level
          BY <1>1, <2>2, <3>1, <3>2, NextEntry DEF FreshInv, Active
        <4> QED BY <3>1, <3>2, <4>1, NextEntry DEF TypeOK
      <3>3. CASE m = n
        BY <1>2, <3>1, <3>3, NextEntry
      <3> QED BY <1>3, <3>2, <3>3
    <2> QED
      BY <1>1, <2>1, <2>2, FramesAfterLoad DEF FreshInv, Active, Visiting
  <1> QED BY <1>4, <1>5, <1>7, <1>8

\* A step of the attempt that ends, skips or does not reach the walk.
LEMMA QuietOrder ==
  ASSUME OrderInv, ~ Active', pc' # "conflict",
         pc' = "panicked" \/ frames' = <<>>
  PROVE  OrderInv'
  BY DEF OrderInv, StackInv, LevelInv, NestedInv, FreshInv, NoConflict, Visiting, Active

LEMMA EntriesOrder ==
  ASSUME TypeOK, OrderInv, GetBTreeNodeEntries
  PROVE  OrderInv'
  <1> USE DEF OrderInv
  <1> DEFINE f == [page |-> page, level |-> level, next |-> 1]
             L == Len(frames)
  <1>1. CASE pc' = "panicked"
    BY <1>1, QuietOrder DEF Active
  <1>2. CASE pc' = "load" /\ frames' = frames
    <2>1. pc = "entries" /\ UNCHANGED <<store, tree, frames, misread>>
      BY <1>2 DEF GetBTreeNodeEntries
    <2> QED
      BY <1>2, <2>1 DEF StackInv, LevelInv, NestedInv, FreshInv, NoConflict, Visiting,
         Active, Within
  <1>3. CASE pc' = "load" /\ frames' = Append(frames, f)
    <2>1. pc = "entries" /\ UNCHANGED <<store, tree, misread>>
      BY <1>3 DEF GetBTreeNodeEntries
    <2>2. /\ Len(frames') = L + 1 /\ L \in Nat /\ frames'[L + 1] = f
          /\ \A k \in 1..L : frames'[k] = frames[k]
      <3>1. frames \in Seq(Frame) /\ f \in Frame
        BY DEF TypeOK, Frame
      <3> HIDE DEF f
      <3> QED BY <1>3, <3>1, AppendProperties, LenProperties
    <2>3. \A k \in 1..Len(frames') : k \in 1..L \/ (k = L + 1 /\ frames'[k] = f)
      BY <2>2
    <2>4. LevelInv'
      BY <1>3, <2>1, <2>2, <2>3 DEF LevelInv, Active
    <2>5. NestedInv'
      <3>1. ASSUME NEW k \in 1..Len(frames'), NEW m \in 1..Len(frames'), k < m
            PROVE  Within(frames'[k], frames'[m].page)
        <4>1. k \in 1..L /\ frames'[k] = frames[k]
          BY <2>2, <3>1
        <4>2. CASE m \in 1..L
          BY <2>1, <2>2, <3>1, <4>1, <4>2 DEF NestedInv, Active
        <4>3. CASE m = L + 1
          <5>1. frames'[m].page = page
            BY <2>2, <4>3
          <5> QED BY <2>1, <4>1, <5>1 DEF NestedInv, Visiting
        <4> QED BY <2>3, <4>2, <4>3
      <3> QED BY <1>3, <3>1 DEF NestedInv, Visiting, Within
    <2>6. FreshInv'
      <3>1. ASSUME NEW k \in 1..Len(frames'), NEW i \in Pending(frames'[k]),
                   NEW n \in store[tree], n.id \in EntrySpan(frames'[k].page, i)
            PROVE  n.level > frames'[k].level
        <4>1. CASE k \in 1..L
          BY <2>1, <2>2, <3>1, <4>1 DEF FreshInv, Active
        <4>2. CASE k = L + 1
          <5>1. i \in DOMAIN Ids[page] /\ n.id \in EntrySpan(page, i)
            BY <2>2, <3>1, <4>2 DEF Pending
          <5>2. n.id \in Span[page]
            BY <5>1, EntryFacts DEF TypeOK
          <5>3. n.level > PageLevel[page]
            BY <2>1, <5>2 DEF FreshInv, Visiting
          <5>4. level = PageLevel[page] \/ level = 0
            BY <2>1 DEF LevelInv
          <5>5. n.level \in Nat /\ PageLevel[page] \in Nat
            BY PageFacts DEF TypeOK
          <5> QED BY <2>2, <4>2, <5>3, <5>4, <5>5
        <4> QED BY <2>3, <4>1, <4>2
      <3> QED BY <1>3, <2>1, <3>1 DEF FreshInv, Visiting, Pending
    <2> QED BY <1>3, <2>4, <2>5, <2>6 DEF StackInv, NoConflict, Active
  <1> QED BY <1>1, <1>2, <1>3 DEF GetBTreeNodeEntries

LEMMA ReturnOrder ==
  ASSUME TypeOK, OrderInv, Return
  PROVE  OrderInv'
  <1> USE DEF OrderInv
  <1>1. pc = "load" /\ UNCHANGED <<pc, store, tree, page, level, misread>>
    BY DEF Return, history
  <1>2. /\ Len(frames') = Len(frames) - 1 /\ Len(frames) \in Nat
        /\ \A k \in 1..Len(frames') : k \in 1..Len(frames) /\ frames'[k] = frames[k]
    <2>1. frames \in Seq(Frame) /\ frames # <<>>
      BY DEF Return, TypeOK
    <2>2. frames' = SubSeq(frames, 1, Len(frames) - 1)
      BY DEF Return
    <2>3. \A k \in 1..(Len(frames) - 1) : k \in 1..Len(frames)
      BY <2>1
    <2> QED BY <2>1, <2>2, <2>3, PopFacts
  <1>3. StackInv' /\ NoConflict' /\ LevelInv'
    BY <1>1, <1>2 DEF StackInv, NoConflict, LevelInv, Active
  <1>4. NestedInv'
    BY <1>1, <1>2 DEF NestedInv, Active, Visiting, Within
  <1>5. FreshInv'
    BY <1>1, <1>2 DEF FreshInv, Active, Visiting, Pending
  <1> QED BY <1>3, <1>4, <1>5

LEMMA NextOrder == TypeOK /\ OrderInv /\ [Next]_vars => OrderInv'
  <1> SUFFICES ASSUME TypeOK, OrderInv, [Next]_vars PROVE OrderInv'
    OBVIOUS
  <1>0. ~ Active /\ pc # "panicked" => frames = <<>>
    BY DEF OrderInv, StackInv, NoConflict
  <1>1. CASE New \/ NewFromReaderWithBTrees
    BY <1>0, <1>1, QuietOrder DEF New, NewFromReaderWithBTrees, BeginOpen, Quiet, Active
  <1>2. ASSUME NEW next \in {"format", "content", "encryption", "init"},
               NEW label \in {"signature", "format", "content", "encryption"},
               NEW accepts, HeaderCheck(label, accepts, next)
        PROVE  OrderInv'
    BY <1>0, <1>2, QuietOrder DEF HeaderCheck, Goto, Active
  <1>3. CASE SkipBTree
    BY <1>0, <1>3, QuietOrder DEF SkipBTree, AfterInit, Active
  <1>4. CASE InitBTree
    <2>1. frames = <<>> /\ frames' = frames
      BY <1>0, <1>4 DEF InitBTree, Goto, Active
    <2>2. CASE pc' = "failed"
      BY <2>1, <2>2, QuietOrder DEF Active
    <2>3. CASE pc' = "level"
      <3>1. store'[tree'] = {}
        BY <1>4, <2>3 DEF InitBTree, IsEmpty, Goto
      <3> QED
        BY <2>1, <2>3, <3>1 DEF OrderInv, StackInv, LevelInv, NestedInv, FreshInv,
           NoConflict, Active, Visiting
    <2> QED BY <1>4, <2>2, <2>3 DEF InitBTree, Goto
  <1>5. CASE GetParentBTreeNodeLevel
    <2>1. /\ pc = "level" /\ pc' = "entries" /\ UNCHANGED <<store, tree, page, frames>>
          /\ misread[tree] \subseteq misread'[tree]
          /\ \/ level' = PageLevel[page]
             \/ level' = 0 /\ page \in misread'[tree]
      <3>1. \/ misread' = misread
            \/ misread' = [misread EXCEPT ![tree] = @ \cup {page}]
        BY <1>5 DEF GetParentBTreeNodeLevel
      <3>2. misread[tree] \subseteq misread'[tree]
        BY <3>1 DEF TypeOK
      <3>3. level' = PageLevel[page] \/ (level' = 0 /\ page \in misread'[tree])
        <4>1. \/ level' = PageLevel[page]
              \/ level' = 0 /\ PageLevel[page] = 0
              \/ level' = 0 /\ misread' = [misread EXCEPT ![tree] = @ \cup {page}]
          BY <1>5 DEF GetParentBTreeNodeLevel
        <4> QED BY <4>1 DEF TypeOK
      <3> QED BY <1>5, <3>2, <3>3 DEF GetParentBTreeNodeLevel
    <2>2. LevelInv'
      BY <2>1 DEF OrderInv, LevelInv, Active
    <2>3. NestedInv' /\ FreshInv'
      BY <2>1 DEF OrderInv, NestedInv, FreshInv, Active, Visiting, Within, Pending
    <2> QED BY <2>1, <2>2, <2>3 DEF OrderInv, StackInv, NoConflict, Active
  <1>6. CASE GetBTreeNodeEntries
    BY <1>6, EntriesOrder
  <1>7. CASE LoadEntry
    BY <1>7, LoadOrder
  <1>8. CASE Return
    BY <1>8, ReturnOrder
  <1>9. CASE WalkDone
    BY <1>9, QuietOrder DEF WalkDone, AfterInit, Active
  <1>10. CASE GetNameToIDMap
    BY <1>0, <1>10, QuietOrder DEF GetNameToIDMap, Goto, Active
  <1>11. CASE \E id \in Span[Root["node"]] : Lookup(id)
    BY <1>0, <1>11, QuietOrder DEF Lookup, attempt, Active
  <1>12. CASE Cleanup
    BY <1>0, <1>12, QuietOrder DEF Cleanup, Goto, Active
  <1>13. CASE Crash
    BY <1>13, QuietOrder DEF Crash, Active
  <1>14. CASE UNCHANGED vars
    BY <1>14 DEF vars, attempt, history, OrderInv, StackInv, LevelInv, NestedInv,
       FreshInv, NoConflict, Active, Visiting, Within, Pending
  <1> QED
    BY <1>1, <1>2, <1>3, <1>4, <1>5, <1>6, <1>7, <1>8, <1>9, <1>10, <1>11, <1>12,
       <1>13, <1>14 DEF Next, Open, IsValidSignature, GetFormatType,
       GetContentType, GetEncryptionType

----------------------------------------------------------------------------
(* The content of the stores.                                              *)

LEMMA KeysAreInt == \A t \in Trees : Root[t] \in Page /\ Keys[Root[t]] \subseteq Int
  BY WellFormedTrees

LEMMA FoundIff ==
  ASSUME TypeOK, NEW t \in Trees, NEW id \in Int
  PROVE  Found(store[t], id) <=> \E m \in store[t] : m.id = id /\ m.level = 0
  BY SameKeyIff DEF Found, TypeOK

LEMMA LoadContent ==
  ASSUME TypeOK, TypeOK', OrderInv, ContentInv, LoadEntry
  PROVE  ContentInv'
  <1> USE DEF OrderInv, ContentInv
  <1> DEFINE n == EntryNode(Top, Top.next)
             L == Len(frames)
  <1>1. /\ pc = "load" /\ tree \in Trees /\ UNCHANGED <<tree, level, unread, misread, cut>>
        /\ \/ Top.level > 0 /\ pc' = "level" /\ page' = Child[Top.page][Top.next]
           \/ Top.level = 0 /\ pc' = "load" /\ page' = page
    BY LoadIsNew, NextEntry DEF LoadEntry, history, TypeOK
  <1>2. n.id \in Span[Top.page] /\ n.level = Top.level
    BY NextEntry, EntryFacts
  <1>3. /\ Keys[Top.page] \subseteq Keys[Root[tree]]
        /\ EntryKeys(Top.page, Top.next) \subseteq Keys[Top.page]
        /\ Keys[Top.page] \subseteq Span[Top.page]
    BY <1>1, NextEntry, EntryFacts, PageFacts DEF RootInv, Active
  <1>4. RootInv'
    <2>1. pc' = "level" => Keys[page'] \subseteq Keys[Root[tree]]
      BY <1>1, <1>3, NextEntry DEF EntryKeys
    <2> QED BY <1>1, <2>1, FramesAfterLoad DEF RootInv, Active, Visiting
  <1>5. \A id : Damaged(tree, id)' <=> Damaged(tree, id)
    BY <1>1 DEF Damaged
  <1>6. AheadInv'
    <2> SUFFICES ASSUME NEW id \in Keys[Root[tree]], tree \notin cut
                 PROVE  Found(store[tree], id)' \/ Damaged(tree, id) \/ Ahead(id)'
      BY <1>1, <1>5 DEF AheadInv
    <2>0. id \in Int
      BY <1>1, KeysAreInt
    <2>1. CASE Found(store[tree], id)
      <3>1. store[tree] \subseteq store'[tree]
        BY LoadIsNew
      <3> QED BY <1>1, <2>1, <3>1 DEF Found
    <2>2. CASE Damaged(tree, id)
      BY <2>2
    <2>3. CASE Ahead(id)
      <3>1. PICK k \in 1..L : \E i \in Pending(frames[k]) : id \in EntryKeys(frames[k].page, i)
        BY <1>1, <2>3 DEF Ahead, Visiting
      <3>2. PICK i \in Pending(frames[k]) : id \in EntryKeys(frames[k].page, i)
        BY <3>1
      <3>3. CASE k # L
        <4>1. k \in 1..Len(frames') /\ frames'[k] = frames[k]
          BY <3>3, FramesAfterLoad
        <4> QED BY <3>2, <4>1 DEF Ahead, Pending
      <3>4. CASE k = L /\ i # Top.next
        <4>1. k \in 1..Len(frames') /\ frames'[k].page = frames[k].page
              /\ frames'[k].next = Top.next + 1 /\ frames[k] = Top
          BY <3>4, FramesAfterLoad, NextEntry
        <4>2. i \in DOMAIN Ids[Top.page] /\ i >= Top.next /\ i \in Nat /\ Top.next \in Nat
          BY <3>2, <4>1, NextEntry, PageFacts DEF Pending, Frame
        <4>3. i \in Pending(frames'[k])
          BY <3>4, <4>1, <4>2 DEF Pending
        <4> QED BY <3>2, <4>1, <4>3 DEF Ahead, Pending
      <3>5. CASE k = L /\ i = Top.next
        <4>0. id \in EntryKeys(Top.page, Top.next)
          BY <3>2, <3>5, NextEntry
        <4>1. CASE Top.level > 0
          <5>1. pc' = "level" /\ page' = Child[Top.page][Top.next] /\ PageLevel[Top.page] > 0
            BY <1>1, <4>1, NextEntry
          <5> QED BY <4>0, <5>1 DEF Ahead, Visiting, EntryKeys
        <4>2. CASE Top.level = 0 /\ PageLevel[Top.page] = 0
          <5>1. id = n.id /\ n.level = 0
            BY <1>2, <4>0, <4>2, NextEntry DEF EntryKeys
          <5>2. n \in store'[tree]
            BY LoadIsNew
          <5>3. SameKey(n, [id |-> id, level |-> 0])
            BY <2>0, <5>1, SameKeyIff
          <5> QED BY <1>1, <5>2, <5>3 DEF Found
        <4>3. CASE Top.level = 0 /\ PageLevel[Top.page] # 0
          <5>1. Top.page \in misread[tree]
            BY <4>3, TopFacts DEF LoadEntry
          <5> QED BY <1>3, <4>0, <5>1 DEF Damaged
        <4> QED BY <4>1, <4>2, <4>3, NextEntry
      <3> QED BY <3>3, <3>4, <3>5
    <2> QED BY <1>1, <2>1, <2>2, <2>3 DEF AheadInv, Active
  <1>7. DoneInv'
    <2> SUFFICES ASSUME NEW t \in Trees \ cut, t # tree,
                        (~ IsEmpty(store[t]) \/ Passed(t))'
                 PROVE  Complete(t)'
      BY <1>1 DEF DoneInv, Walking
    <2>1. store'[t] = store[t]
      BY LoadIsNew
    <2>2. Complete(t)
      BY <1>1, <2>1 DEF DoneInv, Passed
    <2> QED BY <1>1, <2>1, <2>2 DEF Complete, Damaged
  <1>8. LeafGenuine'
    <2> SUFFICES ASSUME NEW t \in Trees, NEW m \in store'[t], m.level = 0
                 PROVE  \/ m.id \in DOMAIN Payload[t] /\ m.ref = Payload[t][m.id]
                        \/ \E p \in misread[t] : m.id \in Span[p]
      BY <1>1 DEF LeafGenuine
    <2>1. CASE m \in store[t]
      BY <2>1 DEF LeafGenuine
    <2>2. CASE t = tree /\ m = n
      <3>1. Top.level = 0
        BY <1>2, <2>2
      <3>2. CASE PageLevel[Top.page] = 0
        <4>1. n.ref = Payload[tree][n.id] /\ n.id \in EntryKeys(Top.page, Top.next)
          BY <3>1, <3>2, NextEntry DEF EntryNode, EntryKeys
        <4> QED BY <1>1, <1>3, <2>2, <4>1, WellFormedTrees
      <3>3. CASE PageLevel[Top.page] # 0
        BY <1>2, <2>2, <3>1, <3>3, TopFacts DEF LoadEntry
      <3> QED BY <3>2, <3>3
    <2> QED BY <2>1, <2>2, LoadIsNew
  <1> QED BY <1>4, <1>6, <1>7, <1>8

LEMMA EntriesContent ==
  ASSUME TypeOK, TypeOK', OrderInv, ContentInv, GetBTreeNodeEntries
  PROVE  ContentInv'
  <1> USE DEF ContentInv
  <1> DEFINE f == [page |-> page, level |-> level, next |-> 1]
             L == Len(frames)
  <1>1. /\ pc = "entries" /\ tree \in Trees /\ UNCHANGED <<store, tree, page, misread, cut>>
        /\ pc' \in {"load", "panicked"}
        /\ unread' = unread \/ unread' = [unread EXCEPT ![tree] = @ \cup {page}]
    BY DEF GetBTreeNodeEntries, TypeOK
  <1>2. /\ \A t \in Trees : unread[t] \subseteq unread'[t]
        /\ \A t \in Trees \ {tree} : unread'[t] = unread[t]
    BY <1>1 DEF TypeOK
  <1>3. \A t \in Trees : \A id : Damaged(t, id) => Damaged(t, id)'
    BY <1>1, <1>2 DEF Damaged
  <1>4. LeafGenuine'
    BY <1>1 DEF LeafGenuine
  <1>5. DoneInv'
    <2> SUFFICES ASSUME NEW t \in Trees \ cut, t # tree, (~ IsEmpty(store[t]) \/ Passed(t))'
                 PROVE  Complete(t)'
      BY <1>1 DEF DoneInv, Walking
    <2>1. Complete(t)
      BY <1>1 DEF DoneInv, Passed
    <2> QED BY <1>1, <1>3, <2>1 DEF Complete
  <1>6. CASE pc' = "panicked"
    BY <1>4, <1>5, <1>6 DEF RootInv, AheadInv, Active, Visiting
  <1>7. CASE pc' = "load" /\ frames' = frames /\ unread' = [unread EXCEPT ![tree] = @ \cup {page}]
    <2>1. \A id \in Keys[page] : Damaged(tree, id)'
      <3>1. page \in unread'[tree] /\ Keys[page] \subseteq Span[page]
        BY <1>1, <1>7, PageFacts DEF TypeOK
      <3> QED BY <1>1, <3>1 DEF Damaged
    <2>2. AheadInv'
      BY <1>1, <1>3, <1>7, <2>1 DEF AheadInv, Ahead, Active, Visiting, Pending
    <2> QED BY <1>1, <1>4, <1>5, <1>7, <2>2 DEF RootInv, Active, Visiting
  <1>8. CASE pc' = "load" /\ frames' = Append(frames, f)
    <2>1. /\ Len(frames') = L + 1 /\ L \in Nat /\ frames'[L + 1] = f
          /\ \A k \in 1..L : frames'[k] = frames[k]
      <3>1. frames \in Seq(Frame) /\ f \in Frame
        BY DEF TypeOK, Frame
      <3> HIDE DEF f
      <3> QED BY <1>8, <3>1, AppendProperties, LenProperties
    <2>2. RootInv'
      <3>1. \A k \in 1..Len(frames') : k \in 1..L \/ (k = L + 1 /\ frames'[k].page = page)
        BY <2>1
      <3> QED BY <1>1, <1>8, <2>1, <3>1 DEF RootInv, Active, Visiting
    <2>3. \A id : Ahead(id) => Ahead(id)'
      <3> SUFFICES ASSUME NEW id, Ahead(id) PROVE Ahead(id)'
        OBVIOUS
      <3>1. CASE id \in Keys[page]
        <4>1. PICK i \in DOMAIN Ids[page] : id \in EntryKeys(page, i)
          BY <3>1, KeysOfEntries DEF TypeOK
        <4>2. i \in Nat /\ i >= 1
          BY PageFacts DEF TypeOK
        <4>3. L + 1 \in 1..Len(frames') /\ frames'[L + 1].page = page /\ frames'[L + 1].next = 1
          BY <2>1
        <4>4. i \in Pending(frames'[L + 1])
          BY <4>1, <4>2, <4>3 DEF Pending
        <4> QED BY <4>1, <4>3, <4>4 DEF Ahead, Pending
      <3>2. ASSUME NEW k \in 1..L, NEW i \in Pending(frames[k]),
                   id \in EntryKeys(frames[k].page, i)
            PROVE  Ahead(id)'
        <4>1. k \in 1..Len(frames') /\ frames'[k] = frames[k]
          BY <2>1
        <4> QED BY <3>2, <4>1 DEF Ahead, Pending
      <3> QED BY <3>1, <3>2 DEF Ahead
    <2>4. AheadInv'
      BY <1>1, <1>3, <1>8, <2>3 DEF AheadInv, Active
    <2> QED BY <1>4, <1>5, <2>2, <2>4
  <1> QED BY <1>6, <1>7, <1>8 DEF GetBTreeNodeEntries

LEMMA ReturnContent ==
  ASSUME TypeOK, ContentInv, Return
  PROVE  ContentInv'
  <1> USE DEF ContentInv
  <1>1. pc = "load" /\ UNCHANGED <<pc, store, tree, page, unread, misread, cut>>
    BY DEF Return, history
  <1>2. /\ Len(frames') = Len(frames) - 1 /\ Len(frames) \in Nat
        /\ \A k \in 1..Len(frames') : k \in 1..Len(frames) /\ frames'[k] = frames[k]
        /\ \A k \in 1..Len(frames) : k \in 1..Len(frames') \/ k = Len(frames)
    <2>1. frames \in Seq(Frame) /\ frames # <<>>
      BY DEF Return, TypeOK
    <2>2. frames' = SubSeq(frames, 1, Len(frames) - 1)
      BY DEF Return
    <2>3. Len(frames') = Len(frames) - 1 /\ Len(frames) \in Nat
          /\ \A k \in 1..(Len(frames) - 1) : frames'[k] = frames[k]
      BY <2>1, <2>2, PopFacts
    <2> QED BY <2>3
  <1>3. Pending(frames[Len(frames)]) = {}
    <2>1. Top \in Frame
      BY TopFacts DEF Return, TypeOK, Top
    <2> QED BY <2>1, PageFacts DEF Return, Pending, Top, Frame
  <1>4. \A id : Ahead(id) => Ahead(id)'
    BY <1>1, <1>2, <1>3 DEF Ahead, Visiting, Pending
  <1>5. AheadInv'
    BY <1>1, <1>4 DEF AheadInv, Active, Damaged
  <1>6. DoneInv' /\ LeafGenuine'
    BY <1>1 DEF DoneInv, LeafGenuine, Walking, Passed, Complete, Damaged
  <1>7. RootInv'
    BY <1>1, <1>2 DEF RootInv, Active, Visiting
  <1> QED BY <1>5, <1>6, <1>7

\* A step outside the walk that changes no store.
LEMMA QuietContent ==
  ASSUME ContentInv, ~ Active', UNCHANGED <<store, unread, misread, cut>>,
         \A t \in Trees \ cut :
           ~ (Walking /\ t = tree)' /\ (~ IsEmpty(store[t]) \/ Passed(t)') => Complete(t)
  PROVE  ContentInv'
  <1>1. RootInv' /\ AheadInv'
    BY DEF RootInv, AheadInv, Active, Visiting
  <1>2. LeafGenuine'
    BY DEF ContentInv, LeafGenuine
  <1>3. DoneInv'
    BY DEF DoneInv, Complete, Damaged
  <1> QED BY <1>1, <1>2, <1>3 DEF ContentInv

LEMMA NextHeader == TypeOK /\ HeaderInv /\ [Next]_vars => HeaderInv'
  <1> SUFFICES ASSUME TypeOK, HeaderInv, [Next]_vars PROVE HeaderInv'
    OBVIOUS
  <1> USE DEF HeaderInv
  <1>1. CASE New \/ NewFromReaderWithBTrees
    BY <1>1 DEF New, NewFromReaderWithBTrees, BeginOpen
  <1>2. CASE IsValidSignature \/ GetFormatType \/ GetContentType \/ GetEncryptionType
    BY <1>2 DEF IsValidSignature, GetFormatType, GetContentType, GetEncryptionType,
       HeaderCheck, Goto
  <1>3. CASE SkipBTree \/ WalkDone
    BY <1>3 DEF SkipBTree, WalkDone, AfterInit
  <1>4. CASE InitBTree \/ GetNameToIDMap \/ Cleanup
    BY <1>4 DEF InitBTree, GetNameToIDMap, Cleanup, Goto
  <1>5. CASE GetParentBTreeNodeLevel \/ GetBTreeNodeEntries \/ LoadEntry \/ Return
    BY <1>5 DEF GetParentBTreeNodeLevel, GetBTreeNodeEntries, LoadEntry, Return
  <1>6. CASE \E id \in Span[Root["node"]] : Lookup(id)
    BY <1>6 DEF Lookup, attempt
  <1>7. CASE Crash
    BY <1>7 DEF Crash
  <1>8. CASE UNCHANGED vars
    BY <1>8 DEF vars, attempt
  <1> QED BY <1>1, <1>2, <1>3, <1>4, <1>5, <1>6, <1>7, <1>8 DEF Next, Open

LEMMA NextContent ==
  TypeOK /\ TypeOK' /\ HeaderInv /\ OrderInv /\ ContentInv /\ [Next]_vars => ContentInv'
  <1> SUFFICES ASSUME TypeOK, TypeOK', HeaderInv, OrderInv, ContentInv, [Next]_vars
               PROVE  ContentInv'
    OBVIOUS
  <1>0. ~ Active /\ pc # "panicked" => frames = <<>>
    BY DEF OrderInv, StackInv, NoConflict
  <1>e. ASSUME store' = Empty, UNCHANGED <<unread, misread, cut>>, ~ Active',
               pc' \notin {"init", "map", "opened"}
        PROVE  ContentInv'
    BY <1>e DEF ContentInv, RootInv, AheadInv, LeafGenuine, DoneInv, Active, Visiting,
       Passed, IsEmpty, Empty
  <1>1. CASE New
    BY <1>1, <1>e DEF New, BeginOpen, history, Active
  <1>2. CASE NewFromReaderWithBTrees
    <2>1. /\ UNCHANGED <<store, unread, misread, cut>> /\ pc' = "signature"
          /\ pc \notin {"level", "entries", "load", "panicked", "conflict"}
      BY <1>2 DEF NewFromReaderWithBTrees, BeginOpen, Quiet, history
    <2> QED BY <2>1, QuietContent DEF ContentInv, DoneInv, Active, Walking, Passed
  <1>3. ASSUME NEW next \in {"format", "content", "encryption", "init"},
               NEW label \in {"signature", "format", "content", "encryption"},
               NEW accepts, HeaderCheck(label, accepts, next)
        PROVE  ContentInv'
    <2>1. /\ UNCHANGED <<store, unread, misread, cut>> /\ pc = label /\ tree = "node"
          /\ tree' = tree /\ pc' \in {next, "failed"}
      BY <1>3 DEF HeaderCheck, Goto, history, HeaderInv
    <2>2. pc' \notin {"level", "entries", "load", "panicked", "conflict", "map", "opened"}
      BY <2>1
    <2> QED
      BY <2>1, <2>2, QuietContent DEF ContentInv, DoneInv, Active, Walking, Passed
  <1>4. CASE SkipBTree
    <2>1. /\ UNCHANGED <<store, unread, misread, cut>> /\ pc = "init" /\ tree' = "block"
          /\ pc' = AfterInit(tree) /\ ~ IsEmpty(store[tree]) /\ tree \in Trees
      BY <1>4 DEF SkipBTree, history, TypeOK
    <2> QED
      BY <2>1, QuietContent DEF ContentInv, DoneInv, Active, Walking, Passed, AfterInit, Trees
  <1>5. CASE InitBTree /\ pc' = "failed"
    <2>1. UNCHANGED <<store, unread, misread, cut>> /\ pc = "init"
      BY <1>5 DEF InitBTree, history
    <2> QED BY <1>5, <2>1, QuietContent DEF ContentInv, DoneInv, Active, Walking, Passed
  <1>6. CASE InitBTree /\ pc' = "level"
    <2>1. /\ pc = "init" /\ page' = Root[tree] /\ UNCHANGED <<store, tree, frames>>
          /\ store[tree] = {} /\ cut' = cut \ {tree}
          /\ \A t \in Trees : t # tree => unread'[t] = unread[t] /\ misread'[t] = misread[t]
      BY <1>6 DEF InitBTree, IsEmpty, Goto, TypeOK
    <2>2. frames' = <<>>
      BY <1>0, <2>1 DEF Active
    <2>3. RootInv' /\ AheadInv'
      BY <1>6, <2>1, <2>2 DEF RootInv, AheadInv, Ahead, Visiting, Active
    <2>4. DoneInv'
      BY <1>6, <2>1 DEF ContentInv, DoneInv, Complete, Damaged, Walking, Passed
    <2>5. LeafGenuine'
      BY <2>1 DEF ContentInv, LeafGenuine
    <2> QED BY <2>3, <2>4, <2>5 DEF ContentInv
  <1>7. CASE GetParentBTreeNodeLevel
    <2>1. /\ pc = "level" /\ pc' = "entries"
          /\ UNCHANGED <<store, tree, page, frames, unread, cut>>
          /\ misread' = misread \/ misread' = [misread EXCEPT ![tree] = @ \cup {page}]
      BY <1>7 DEF GetParentBTreeNodeLevel
    <2>2. \A t \in Trees : misread[t] \subseteq misread'[t]
      BY <2>1 DEF TypeOK
    <2>3. \A t \in Trees : \A id : Damaged(t, id) => Damaged(t, id)'
      BY <2>1, <2>2 DEF Damaged
    <2>4. RootInv'
      BY <2>1 DEF ContentInv, RootInv, Active, Visiting
    <2>5. AheadInv'
      BY <2>1, <2>3 DEF ContentInv, AheadInv, Ahead, Active, Visiting, Pending, TypeOK
    <2>6. DoneInv'
      BY <2>1, <2>3 DEF ContentInv, DoneInv, Complete, Walking, Passed
    <2>7. LeafGenuine'
      BY <2>1, <2>2 DEF ContentInv, LeafGenuine
    <2> QED BY <2>4, <2>5, <2>6, <2>7 DEF ContentInv
  <1>8. CASE GetBTreeNodeEntries
    BY <1>8, EntriesContent
  <1>9. CASE LoadEntry
    BY <1>9, LoadContent
  <1>10. CASE Return
    BY <1>10, ReturnContent
  <1>11. CASE WalkDone
    <2>1. /\ UNCHANGED <<store, unread, misread, cut>> /\ pc = "load" /\ frames = <<>>
          /\ tree' = "block" /\ pc' = AfterInit(tree) /\ tree \in Trees
      BY <1>11 DEF WalkDone, history, TypeOK
    <2>2. ~ \E id : Ahead(id)
      BY <2>1 DEF Ahead, Visiting
    <2>3. tree \notin cut => Complete(tree)
      BY <2>1, <2>2 DEF ContentInv, AheadInv, Active, Complete
    <2>4. ~ Active' /\ ~ Walking'
      BY <2>1 DEF AfterInit, Active, Walking
    <2>5. \A t \in Trees \ cut : ~ IsEmpty(store[t]) \/ Passed(t)' => Complete(t)
      BY <2>1, <2>3 DEF ContentInv, DoneInv, Walking, Passed, AfterInit, Trees
    <2> QED BY <2>1, <2>4, <2>5, QuietContent
  <1>12. CASE GetNameToIDMap
    <2>1. UNCHANGED <<store, unread, misread, cut>> /\ pc = "map"
          /\ pc' \in {"failed", "opened", "panicked"}
      BY <1>12 DEF GetNameToIDMap, Goto, history
    <2> QED BY <2>1, QuietContent DEF ContentInv, DoneInv, Active, Walking, Passed
  <1>13. CASE \E id \in Span[Root["node"]] : Lookup(id)
    <2>1. UNCHANGED <<store, unread, misread, cut, pc, tree>> /\ pc = "opened"
      BY <1>13 DEF Lookup, attempt, history
    <2> QED BY <2>1, QuietContent DEF ContentInv, DoneInv, Active, Walking, Passed
  <1>14. CASE Cleanup
    BY <1>14, <1>e DEF Cleanup, Goto, history, Active
  <1>15. CASE Crash
    <2>1. UNCHANGED <<unread, misread>> /\ pc' = "idle" /\ cut \subseteq cut'
      BY <1>15 DEF Crash
    <2>2. CASE ~ Durable
      BY <1>15, <1>e, <2>1, <2>2 DEF Crash, Active
    <2>3. CASE Durable
      <3>1. store' = store /\ (Walking => tree \in cut')
        BY <1>15, <2>3 DEF Crash
      <3>2. RootInv' /\ AheadInv' /\ LeafGenuine'
        BY <2>1, <3>1 DEF ContentInv, RootInv, AheadInv, LeafGenuine, Active, Visiting
      <3>3. DoneInv'
        BY <2>1, <3>1 DEF ContentInv, DoneInv, Complete, Damaged, Walking, Passed
      <3> QED BY <3>2, <3>3 DEF ContentInv
    <2> QED BY <2>2, <2>3
  <1>16. CASE UNCHANGED vars
    BY <1>16 DEF vars, attempt, history, ContentInv, RootInv, AheadInv, DoneInv, Complete,
       LeafGenuine, Active, Visiting, Walking, Passed, Damaged, Ahead, Pending
  <1>17. InitBTree => pc' \in {"failed", "level"}
    BY DEF InitBTree, Goto
  <1> QED
    BY <1>1, <1>2, <1>3, <1>4, <1>5, <1>6, <1>7, <1>8, <1>9, <1>10, <1>11, <1>12,
       <1>13, <1>14, <1>15, <1>16, <1>17 DEF Next, Open, IsValidSignature, GetFormatType,
       GetContentType, GetEncryptionType

----------------------------------------------------------------------------
(* The theorems.                                                           *)

LEMMA NextInv == IInv /\ [Next]_vars => IInv'
  BY NextType, NextHeader, NextOrder, NextContent DEF IInv, OrderInv

\* IInv, the strengthening of the properties that the steps of an open attempt
\* preserve (file.go, btree.go), holds in every state.
THEOREM Invariance == Spec => []IInv
  <1>1. Init => IInv
    BY InitInv
  <1>2. IInv /\ [Next]_vars => IInv'
    BY NextInv
  <1> QED BY <1>1, <1>2, PTL DEF Spec

\* The state variables keep their types.
THEOREM TypeCorrectness == Spec => []TypeOK
  <1>1. IInv => TypeOK
    BY DEF IInv
  <1> QED BY <1>1, Invariance, PTL

\* WalkAndCreateBTree never panics with ErrBTreeNodeConflict, for any well-formed
\* pair of trees and any failing reads, crashes and reuse of stores.
THEOREM ConflictFree == Spec => []NoConflict
  <1>1. IInv => NoConflict
    BY DEF IInv, OrderInv
  <1> QED BY <1>1, Invariance, PTL

\* Every leaf node in a store is the file's, unless its page was misread.
THEOREM LeavesGenuine == Spec => []LeafGenuine
  <1>1. IInv => LeafGenuine
    BY DEF IInv, ContentInv
  <1> QED BY <1>1, Invariance, PTL

\* An opened file misses only what failed reads and cut walks account for.
THEOREM DamageIsConfined == Spec => []DamageConfined
  <1>1. IInv => DamageConfined
    BY DEF IInv, ContentInv, DoneInv, DamageConfined, Complete, Walking, Passed
  <1> QED BY <1>1, Invariance, PTL

LEMMA GetFacts ==
  ASSUME TypeOK, NEW t \in Trees, NEW id \in Int, Found(store[t], id)
  PROVE  /\ Get(store[t], id) \in store[t]
         /\ Get(store[t], id).id = id /\ Get(store[t], id).level = 0
  <1>1. PICK m \in store[t] : SameKey(m, [id |-> id, level |-> 0])
    BY DEF Found
  <1>2. /\ Get(store[t], id) \in store[t]
        /\ SameKey(Get(store[t], id), [id |-> id, level |-> 0])
    BY <1>1 DEF Get
  <1> QED BY <1>2, SameKeyIff DEF TypeOK

\* What is stored undamaged is found, and is what the file says.
LEMMA Undamaged ==
  ASSUME IInv, NEW t \in Trees, NEW id \in Keys[Root[t]], pc = "opened", cut = {},
         ~ Damaged(t, id)
  PROVE  Found(store[t], id) /\ Get(store[t], id).ref = Payload[t][id]
  <1>1. id \in Int
    BY KeysAreInt
  <1>2. Found(store[t], id)
    BY DEF IInv, ContentInv, DoneInv, Complete, Walking, Passed
  <1>3. /\ Get(store[t], id) \in store[t]
        /\ Get(store[t], id).id = id /\ Get(store[t], id).level = 0
    BY <1>1, <1>2, GetFacts DEF IInv
  <1>4. ~ \E p \in misread[t] : id \in Span[p]
    BY DEF Damaged
  <1> QED BY <1>2, <1>3, <1>4 DEF IInv, ContentInv, LeafGenuine

LEMMA UndamagedData ==
  ASSUME IInv, pc = "opened", cut = {},
         NEW id \in Keys[Root["node"]], BlockOf(id) \in Keys[Root["block"]],
         ~ Damaged("node", id), ~ Damaged("block", BlockOf(id))
  PROVE  HasData(id) /\ GetDataBTreeNode(id).ref = Payload["block"][BlockOf(id)]
<1>1. Found(store["node"], id) /\ Get(store["node"], id).ref = Payload["node"][id]
  BY Undamaged DEF Trees
<1>2. /\ Found(store["block"], BlockOf(id))
      /\ Get(store["block"], BlockOf(id)).ref = Payload["block"][BlockOf(id)]
  BY Undamaged DEF Trees
<1>3. Payload["node"][id].data \in Nat
  BY WellFormedTrees, PayloadAssumption DEF Trees
<1>4. ClearLSB(Payload["node"][id].data) = BlockOf(id)
  BY <1>3 DEF ClearLSB, BlockOf
<1> QED
  BY <1>1, <1>2, <1>4 DEF HasData, HasBlock, GetDataBTreeNode, GetBlockBTreeNode

\* GetDataBTreeNode answers what the file says for every undamaged node.
THEOREM DataIsResolved == Spec => []DataResolves
  <1>1. IInv => DataResolves
    BY UndamagedData DEF DataResolves
  <1> QED BY <1>1, Invariance, PTL

----------------------------------------------------------------------------
(* PstOpen implements NodeDirectory.                                       *)

\* What a leaf node carries is some leaf entry's, or garbage.
LeafSource ==
  \A t \in Trees : \A n \in store[t] :
    n.level = 0 =>
      n.ref = Garbage[t] \/ \E id \in DOMAIN Payload[t] : n.ref = Payload[t][id]

LEMMA LoadSource ==
  ASSUME IInv, LeafSource, LoadEntry
  PROVE  LeafSource'
<1> DEFINE n == EntryNode(Top, Top.next)
<1>1. TypeOK /\ LevelInv /\ FreshInv /\ RootInv
  BY DEF IInv, OrderInv, ContentInv
<1>2. n.level = 0 =>
        n.ref = Garbage[tree] \/ \E id \in DOMAIN Payload[tree] : n.ref = Payload[tree][id]
  <2> SUFFICES ASSUME n.level = 0, PageLevel[Top.page] = 0
               PROVE  \E id \in DOMAIN Payload[tree] : n.ref = Payload[tree][id]
    BY <1>1, NextEntry DEF EntryNode
  <2>1. n.ref = Payload[tree][Ids[Top.page][Top.next]]
    BY <1>1, NextEntry DEF EntryNode
  <2>2. Ids[Top.page][Top.next] \in Keys[Top.page]
    BY <1>1, NextEntry, EntryFacts DEF EntryKeys
  <2>3. Keys[Top.page] \subseteq Keys[Root[tree]]
    BY <1>1, NextEntry DEF RootInv, Active, LoadEntry
  <2> QED BY <1>1, <2>1, <2>2, <2>3, WellFormedTrees DEF TypeOK
<1>3. /\ store'[tree] = store[tree] \cup {n}
      /\ \A t \in Trees : t # tree => store'[t] = store[t]
  BY <1>1, LoadIsNew
<1> QED BY <1>2, <1>3 DEF LeafSource

LEMMA SourceStep ==
  ASSUME IInv, LeafSource, [Next]_vars
  PROVE  LeafSource'
<1>1. CASE store' = store
  BY <1>1 DEF LeafSource
<1>2. CASE store' = Empty
  BY <1>2 DEF LeafSource, Empty
<1>3. CASE LoadEntry
  BY <1>3, LoadSource
<1>4. store' = store \/ store' = Empty \/ LoadEntry
  BY DEF Next, New, NewFromReaderWithBTrees, Open, IsValidSignature, GetFormatType,
     GetContentType, GetEncryptionType, HeaderCheck, SkipBTree, InitBTree,
     GetParentBTreeNodeLevel, GetBTreeNodeEntries, Return, WalkDone, GetNameToIDMap,
     Lookup, Cleanup, Crash, vars
<1> QED BY <1>1, <1>2, <1>3, <1>4

Opening ==
  {"signature", "format", "content", "encryption", "init", "level", "entries", "load",
   "map"}

LEMMA StatusFacts ==
  /\ pc \in {"idle", "failed", "cleaned"} => Status = "closed"
  /\ pc = "opened" => Status = "open"
  /\ pc \in {"panicked", "conflict"} => Status = "dead"
  /\ pc \in Opening => Status = "opening"
  BY DEF Status, Opening

LEMMA NextStatusFacts ==
  /\ pc' \in {"idle", "failed", "cleaned"} => Status' = "closed"
  /\ pc' = "opened" => Status' = "open"
  /\ pc' \in {"panicked", "conflict"} => Status' = "dead"
  /\ pc' \in Opening => Status' = "opening"
  BY DEF Status, Opening

LEMMA DamageFacts == Lost' \subseteq Span[Root["node"]] /\ Doubtful' \subseteq Span[Root["node"]]
  BY DEF Lost, Doubtful, Affected

LEMMA DamageStands ==
  ASSUME UNCHANGED history
  PROVE  UNCHANGED <<Lost, Doubtful>>
  BY DEF history, Lost, Doubtful, Affected

\* A step of the attempt that leaves the history alone continues or ends it.
LEMMA AttemptStep ==
  ASSUME UNCHANGED <<answer, history>>, pc \in Opening,
         pc' \in Opening \cup {"opened", "failed", "panicked", "conflict"}
  PROVE  Directory!Next \/ UNCHANGED Directory!vars
<1>1. UNCHANGED <<Answered, Lost, Doubtful>>
  BY DamageStands DEF Answered
<1>2. Status = "opening" /\ Status' \in {"opening", "open", "closed", "dead"}
  BY StatusFacts, NextStatusFacts
<1> QED
  BY <1>1, <1>2 DEF Directory!Next, Directory!Succeed, Directory!Fail, Directory!Panic,
     Directory!Ends, Directory!vars, Directory!damage

\* A step of the attempt that reads something.
LEMMA ReadStep ==
  ASSUME UNCHANGED answer, pc \in Opening, pc' \in Opening
  PROVE  Directory!Next
<1>1. UNCHANGED Answered
  BY DEF Answered
<1>2. Status = "opening" /\ Status' = "opening"
  BY StatusFacts, NextStatusFacts
<1> QED
  BY <1>1, <1>2, DamageFacts DEF Directory!Next, Directory!Read

\* What a lookup finds is what the file says, garbage of a misread page, or nothing.
LEMMA AnswerIsAllowed ==
  ASSUME IInv, LeafSource, pc = "opened", NEW id \in Span[Root["node"]]
  PROVE  (IF HasData(id) THEN GetDataBTreeNode(id).ref ELSE "none") \in Directory!Answers(id)
<1> DEFINE found == IF HasData(id) THEN GetDataBTreeNode(id).ref ELSE "none"
<1>0. TypeOK /\ LeafGenuine /\ id \in Int /\ Root["node"] \in Page
  BY WellFormedTrees DEF IInv, ContentInv, Trees
<1> DEFINE node == Get(store["node"], id)
           data == ClearLSB(node.ref.data)
           block == Get(store["block"], data)
<1>f. ASSUME HasData(id)
      PROVE  /\ node \in store["node"] /\ node.id = id /\ node.level = 0
             /\ data \in Int
             /\ block \in store["block"] /\ block.id = data /\ block.level = 0
             /\ GetDataBTreeNode(id).ref = block.ref
  <2>1. /\ Found(store["node"], id) /\ Found(store["block"], data)
        /\ GetDataBTreeNode(id).ref = block.ref
    BY <1>f DEF HasData, HasBlock, GetDataBTreeNode, GetBlockBTreeNode
  <2>2. node \in store["node"] /\ node.id = id /\ node.level = 0
    BY <1>0, <2>1, GetFacts DEF Trees
  <2>3. node.ref.data \in Nat
    BY <2>2, PayloadAssumption DEF LeafSource, Trees
  <2>4. data \in Int
    BY <2>3 DEF ClearLSB
  <2>5. block \in store["block"] /\ block.id = data /\ block.level = 0
    BY <1>0, <2>1, <2>4, GetFacts DEF Trees
  <2> QED BY <2>1, <2>2, <2>4, <2>5
<1> HIDE DEF node, data, block
<1>1. CASE id \in Doubtful
  <2> SUFFICES ASSUME HasData(id) PROVE GetDataBTreeNode(id).ref \in AnyAnswer
    BY <1>1 DEF AnyAnswer, Directory!Answers
  <2> QED BY <1>f DEF LeafSource, AnyAnswer, Trees
<1>2. CASE id \notin Doubtful /\ HasData(id)
  <2>1. ~ \E p \in misread["node"] : id \in Span[p]
    BY <1>2 DEF Doubtful, Affected
  <2>2. id \in Keys[Root["node"]] /\ node.ref = Payload["node"][id]
    <3>1. id \in DOMAIN Payload["node"] /\ node.ref = Payload["node"][id]
      BY <1>0, <1>2, <1>f, <2>1 DEF LeafGenuine, Trees
    <3> QED BY <3>1, WellFormedTrees DEF Trees
  <2>3. data = BlockOf(id)
    <3>1. Payload["node"][id].data \in Nat
      BY <2>2, WellFormedTrees, PayloadAssumption DEF Trees
    <3> QED BY <2>2, <3>1 DEF data, ClearLSB, BlockOf
  <2>4. ~ \E p \in misread["block"] : data \in Span[p]
    BY <1>2, <2>2, <2>3 DEF Doubtful, Affected
  <2>5. data \in Keys[Root["block"]] /\ block.ref = Payload["block"][data]
    <3>1. data \in DOMAIN Payload["block"] /\ block.ref = Payload["block"][data]
      BY <1>0, <1>2, <1>f, <2>4 DEF LeafGenuine, Trees
    <3> QED BY <3>1, WellFormedTrees DEF Trees
  <2>6. id \in DOMAIN FileContent /\ FileContent[id] = GetDataBTreeNode(id).ref
    BY <1>2, <1>f, <2>2, <2>3, <2>5 DEF FileContent
  <2> QED BY <1>2, <2>6 DEF Directory!Answers
<1>3. CASE id \notin Doubtful /\ ~ HasData(id)
  <2> SUFFICES ASSUME id \in DOMAIN FileContent, id \notin Lost PROVE FALSE
    BY <1>3 DEF Directory!Answers
  <2>1. id \in Keys[Root["node"]] /\ BlockOf(id) \in Keys[Root["block"]]
    BY DEF FileContent
  <2>2. cut = {} /\ ~ Damaged("node", id) /\ ~ Damaged("block", BlockOf(id))
    BY <1>3, <2>1 DEF Lost, Doubtful, Affected, Damaged
  <2> QED BY <1>3, <2>1, <2>2, UndamagedData
<1> QED BY <1>1, <1>2, <1>3

LEMMA LookupStep ==
  ASSUME IInv, LeafSource, NEW id \in Span[Root["node"]], Lookup(id)
  PROVE  Directory!Lookup(id)
<1> DEFINE found == HasData(id)
           ref == IF HasData(id) THEN GetDataBTreeNode(id).ref ELSE "none"
<1>1. pc = "opened" /\ pc' = "opened" /\ UNCHANGED history
      /\ answer' = [id |-> id, found |-> found, ref |-> ref]
  BY DEF Lookup, attempt
<1>2. ref \in Directory!Answers(id)
  BY <1>1, AnswerIsAllowed
<1>3. ~ found => ref = "none"
  OBVIOUS
<1> HIDE DEF found, ref
<1>4. /\ answer' # NoAnswer /\ answer'.id = id
      /\ answer'.ref = ref /\ (~ answer'.found => ref = "none")
  BY <1>1, <1>3 DEF NoAnswer
<1>5. Answered' = <<id, ref>>
  BY <1>4 DEF Answered
<1>6. Status = "open" /\ Status' = "open" /\ UNCHANGED <<Lost, Doubtful>>
  BY <1>1, StatusFacts, NextStatusFacts, DamageStands
<1> QED
  BY <1>2, <1>5, <1>6 DEF Directory!Lookup, Directory!damage

LEMMA DirectoryInit == Init => Directory!Init
<1> SUFFICES ASSUME Init PROVE Directory!Init
  OBVIOUS
<1>1. Status = "closed" /\ Answered = <<>>
  BY DEF Init, Status, Answered
<1>2. Lost = {} /\ Doubtful = {}
  BY DEF Init, NoPages, Lost, Doubtful, Affected, Trees
<1> QED BY <1>1, <1>2 DEF Directory!Init

LEMMA DirectoryStep ==
  ASSUME IInv, LeafSource, [Next]_vars
  PROVE  Directory!Next \/ UNCHANGED Directory!vars
<1> USE DEF Opening
<1>1. CASE New \/ NewFromReaderWithBTrees
  <2>1. Quiet /\ pc' = "signature" /\ answer' = NoAnswer /\ UNCHANGED history
    BY <1>1 DEF New, NewFromReaderWithBTrees, BeginOpen
  <2>2. Answered' = <<>> /\ UNCHANGED <<Lost, Doubtful>>
    BY <2>1, DamageStands DEF Answered
  <2>3. Status \in {"closed", "open"} /\ Status' = "opening"
    BY <2>1, StatusFacts, NextStatusFacts DEF Quiet
  <2> QED
    BY <2>2, <2>3 DEF Directory!Next, Directory!Open, Directory!damage
<1>2. CASE IsValidSignature \/ GetFormatType \/ GetContentType \/ GetEncryptionType
  BY <1>2, AttemptStep DEF IsValidSignature, GetFormatType, GetContentType,
     GetEncryptionType, HeaderCheck, Goto
<1>3. CASE SkipBTree \/ LoadEntry \/ Return \/ WalkDone
  BY <1>3, AttemptStep DEF SkipBTree, LoadEntry, Return, WalkDone, AfterInit
<1>4. CASE InitBTree
  <2>1. CASE pc' = "level"
    BY <1>4, <2>1, ReadStep DEF InitBTree
  <2>2. CASE pc' # "level"
    BY <1>4, <2>2, AttemptStep DEF InitBTree, Goto
  <2> QED BY <2>1, <2>2
<1>5. CASE GetParentBTreeNodeLevel
  BY <1>5, ReadStep DEF GetParentBTreeNodeLevel
<1>6. CASE GetBTreeNodeEntries
  <2>1. CASE pc' = "load"
    BY <1>6, <2>1, ReadStep DEF GetBTreeNodeEntries
  <2>2. CASE pc' # "load"
    BY <1>6, <2>2, AttemptStep DEF GetBTreeNodeEntries, history
  <2> QED BY <2>1, <2>2
<1>7. CASE GetNameToIDMap
  BY <1>7, AttemptStep DEF GetNameToIDMap, Goto
<1>8. CASE \E id \in Span[Root["node"]] : Lookup(id)
  BY <1>8, LookupStep DEF Directory!Next
<1>9. CASE Cleanup
  <2>1. pc = "opened" /\ pc' = "cleaned" /\ UNCHANGED <<answer, history>>
    BY <1>9 DEF Cleanup, Goto
  <2>2. Status = "open" /\ Status' = "closed" /\ UNCHANGED <<Answered, Lost, Doubtful>>
    BY <2>1, StatusFacts, NextStatusFacts, DamageStands DEF Answered
  <2> QED
    BY <2>2 DEF Directory!Next, Directory!Cleanup, Directory!damage
<1>10. CASE Crash
  <2>1. pc' = "idle" /\ UNCHANGED <<answer, unread, misread>> /\ (~ Walking => cut' = cut)
    BY <1>10 DEF Crash
  <2>2. Status' = "closed" /\ UNCHANGED <<Answered, Doubtful>>
    BY <2>1, NextStatusFacts DEF Answered, Doubtful, Affected
  <2>3. CASE Walking
    <3>1. Status \in {"opening", "dead"}
      BY <2>3, StatusFacts DEF Walking
    <3> QED
      BY <2>2, <3>1, DamageFacts DEF Directory!Next, Directory!Crash
  <2>4. CASE ~ Walking
    <3>1. UNCHANGED Lost
      BY <2>1, <2>4 DEF Lost, Affected
    <3> QED
      BY <2>2, <3>1, DamageFacts DEF Directory!Next, Directory!Crash
  <2> QED BY <2>3, <2>4
<1>11. CASE UNCHANGED vars
  <2>1. pc' = pc /\ UNCHANGED <<answer, history>>
    BY <1>11 DEF vars, attempt
  <2>2. UNCHANGED <<Status, Answered, Lost, Doubtful>>
    BY <2>1, DamageStands DEF Status, Answered
  <2> QED BY <2>2 DEF Directory!vars, Directory!damage
<1> QED
  BY <1>1, <1>2, <1>3, <1>4, <1>5, <1>6, <1>7, <1>8, <1>9, <1>10, <1>11 DEF Next, Open

\* Opening a file implements NodeDirectory: an open file answers a lookup with what
\* the file says, short only of what failed reads and cut walks account for, for
\* every pair of trees and every number of opens, failed reads and crashes.
THEOREM OpenIsDirectory == Spec => ImplementsDirectory
<1>1. Init => LeafSource
  BY DEF Init, Empty, LeafSource
<1>2. IInv /\ LeafSource /\ [Next]_vars => LeafSource'
  BY SourceStep
<1>3. IInv /\ LeafSource /\ [Next]_vars => [Directory!Next]_(Directory!vars)
  BY DirectoryStep
<1> QED
  BY <1>1, <1>2, <1>3, DirectoryInit, Invariance, PTL
     DEF Spec, ImplementsDirectory, Directory!Spec

============================================================================
