---------------------------- MODULE BTreeStore ----------------------------
(***************************************************************************)
(* The BTreeStore interface and its comparison function (btree_store.go,   *)
(* btree.go).  A store is the set of its nodes.  A node is                 *)
(* [id, level, ref]: the identifier, the level of the page it was read     *)
(* from, and everything else the entry carries.                            *)
(*                                                                         *)
(* tidwall/btree, the in-memory implementation, keeps one item per class   *)
(* of items that are equal under BTreeNodeLessFunc.                        *)
(***************************************************************************)
EXTENDS Integers

\* Seeded fault: the level is left out of the comparison.
LessByIdentifier(a, b) == a.id < b.id

\* BTreeNodeLessFunc: by identifier, and leaf before branch.
Less(a, b) == IF a.id = b.id THEN a.level < b.level ELSE a.id < b.id

\* What the store takes for equality.
SameKey(a, b) == ~ Less(a, b) /\ ~ Less(b, a)

\* Seeded fault: a node whose identifier is known is not stored.
LoadFirstOnly(S, n) == IF \E m \in S : m.id = n.id THEN S ELSE S \cup {n}

\* Load reports whether an equal node is replaced ...
Exists(S, n) == \E m \in S : SameKey(m, n)

\* ... and stores the new node in either case.
Load(S, n) == {m \in S : ~ SameKey(m, n)} \cup {n}

\* Len() == 0
IsEmpty(S) == S = {}

\* Get(BTreeNode{Identifier: id}): the zero NodeLevel selects the leaf entry.
Found(S, id) == \E m \in S : SameKey(m, [id |-> id, level |-> 0])
Get(S, id) == CHOOSE m \in S : SameKey(m, [id |-> id, level |-> 0])

============================================================================
