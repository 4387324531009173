--------------------------- MODULE ParallelOpens ---------------------------
(***************************************************************************)
(* Several calls of NewFromReaderWithBTrees that run in parallel on the    *)
(* same two stores (file.go), over a file without faults; PstOpen models   *)
(* one call at a time and the faults.                                      *)
(*                                                                         *)
(* A walk loads the nodes of its tree in one order, a branch entry before  *)
(* what is below it, and panics when Load replaces a node.  Load and Get   *)
(* are atomic: the in-memory store locks them.  Len is not ordered with    *)
(* them: a call may read the length 0 that a store had before another call *)
(* began to fill it.  Nobody recovers the panic: it ends the program, with *)
(* every call in it, and what the stores hold then is what they keep.      *)
(***************************************************************************)
EXTENDS BTreeStore, Sequences

CONSTANTS Openers,      \* the calls
          WalkOrder,    \* per tree, the nodes in the order the walk loads them
          MapID         \* IdentifierNameToIDMap

Trees == {"node", "block"}
Node == [id : Nat, level : Nat, ref : Nat]

OrderAssumption ==
  /\ WalkOrder \in [Trees -> Seq(Node)]
  /\ \A t \in Trees :
       /\ WalkOrder[t] # <<>>
       /\ \A i, j \in 1 .. Len(WalkOrder[t]) :
            i # j => ~ SameKey(WalkOrder[t][i], WalkOrder[t][j])

\* The file is sound: its name-to-ID map is there and has data.
MapAssumption ==
  /\ MapID \in Nat
  /\ \E i \in 1 .. Len(WalkOrder["node"]), j \in 1 .. Len(WalkOrder["block"]) :
       LET node == WalkOrder["node"][i]  data == WalkOrder["block"][j] IN
         node.id = MapID /\ node.level = 0 /\ data.id = node.ref /\ data.level = 0

VARIABLES store,        \* the stores the calls share
          pc,           \* where each call is; "panicked": it ended the program
          tree,         \* the tree it is at
          next,         \* the node its walk loads next
          skipped       \* the trees whose walk it skipped

vars == <<store, pc, tree, next, skipped>>

All(t) == {WalkOrder[t][i] : i \in 1 .. Len(WalkOrder[t])}

Running == \A o \in Openers : pc[o] # "panicked"

Init ==
  /\ store = [t \in Trees |-> {}]
  /\ pc = [o \in Openers |-> "idle"]
  /\ tree = [o \in Openers |-> "node"]
  /\ next = [o \in Openers |-> 1]
  /\ skipped = [o \in Openers |-> {}]

----------------------------------------------------------------------------
\* The header checks succeed and the call reaches the first test of Len().
BeginOpen(o) ==
  /\ pc[o] = "idle"
  /\ pc' = [pc EXCEPT ![o] = "test"]
  /\ UNCHANGED <<store, tree, next, skipped>>

\* From the node b-tree on to the block b-tree, then to the name-to-ID map.
GoOn(o) ==
  IF tree[o] = "node"
  THEN pc' = [pc EXCEPT ![o] = "test"] /\ tree' = [tree EXCEPT ![o] = "block"]
  ELSE pc' = [pc EXCEPT ![o] = "map"] /\ UNCHANGED tree

\* Len() = 0, or read as it was.
Walk(o) ==
  /\ pc[o] = "test"
  /\ pc' = [pc EXCEPT ![o] = "load"]
  /\ next' = [next EXCEPT ![o] = 1]
  /\ UNCHANGED <<store, tree, skipped>>

\* Seeded fault: the test is made of the other store.
SkipOther(o) ==
  /\ pc[o] = "test" /\ ~ IsEmpty(store["node"])
  /\ skipped' = [skipped EXCEPT ![o] = @ \cup {tree[o]}]
  /\ GoOn(o)
  /\ UNCHANGED <<store, next>>

\* Len() > 0.
Skip(o) ==
  /\ pc[o] = "test" /\ ~ IsEmpty(store[tree[o]])
  /\ skipped' = [skipped EXCEPT ![o] = @ \cup {tree[o]}]
  /\ GoOn(o)
  /\ UNCHANGED <<store, next>>

\* Seeded fault: the first page is not tested for nodes already loaded.
LoadNodeLate(o) ==
  /\ pc[o] = "load"
  /\ LET t == tree[o]  n == WalkOrder[t][next[o]] IN
       /\ store' = [store EXCEPT ![t] = Load(@, n)]
       /\ IF next[o] > 1 /\ Exists(store[t], n)
          THEN pc' = [pc EXCEPT ![o] = "panicked"] /\ UNCHANGED <<tree, next>>
          ELSE IF next[o] < Len(WalkOrder[t])
               THEN next' = [next EXCEPT ![o] = @ + 1] /\ UNCHANGED <<pc, tree>>
               ELSE GoOn(o) /\ UNCHANGED next
  /\ UNCHANGED skipped

\* One Load of WalkAndCreateBTree: the node is stored in either case, and
\* one that was there is a panic with ErrBTreeNodeConflict.
LoadNode(o) ==
  /\ pc[o] = "load"
  /\ LET t == tree[o]  n == WalkOrder[t][next[o]] IN
       /\ store' = [store EXCEPT ![t] = Load(@, n)]
       /\ IF Exists(store[t], n)
          THEN pc' = [pc EXCEPT ![o] = "panicked"] /\ UNCHANGED <<tree, next>>
          ELSE IF next[o] < Len(WalkOrder[t])
               THEN next' = [next EXCEPT ![o] = @ + 1] /\ UNCHANGED <<pc, tree>>
               ELSE GoOn(o) /\ UNCHANGED next
  /\ UNCHANGED skipped

\* GetNameToIDMap: its node and then its data must be in the stores.
MapFound ==
  /\ Found(store["node"], MapID)
  /\ Found(store["block"], Get(store["node"], MapID).ref)

GetNameToIDMap(o) ==
  /\ pc[o] = "map"
  /\ pc' = [pc EXCEPT ![o] = IF MapFound THEN "opened" ELSE "failed"]
  /\ UNCHANGED <<store, tree, next, skipped>>

Step(o) ==
  /\ Running
  /\ BeginOpen(o) \/ Walk(o) \/ Skip(o) \/ LoadNode(o) \/ GetNameToIDMap(o)

Next == \E o \in Openers : Step(o)

\* A call goes on while it can and the program runs.
Spec == Init /\ [][Next]_vars /\ \A o \in Openers : WF_vars(Step(o))

----------------------------------------------------------------------------
\* Properties

Ended == {"opened", "failed", "panicked"}

\* The shape of the state; the stores hold nodes of the file only.
TypeOK ==
  /\ \A t \in Trees : store[t] \subseteq All(t)
  /\ pc \in [Openers -> {"idle", "test", "load", "map"} \cup Ended]
  /\ tree \in [Openers -> Trees]
  /\ \A o \in Openers : next[o] \in 1 .. Len(WalkOrder[tree[o]]) \/ pc[o] # "load"
  /\ skipped \in [Openers -> SUBSET Trees]

\* The calls that have loaded the first node of a tree and go on.
Past(t) == {o \in Openers : pc[o] = "load" /\ tree[o] = t /\ next[o] > 1}

\* The call that loads the first node of a tree is not disturbed by the
\* others: whoever panics meets that first node, and so of the calls in a
\* tree at most one is past it (btree.go, WalkAndCreateBTree).
OneWalker ==
  /\ \A t \in Trees : \A o, p \in Past(t) : o = p
  /\ \A o \in Openers : pc[o] = "panicked" => next[o] = 1

\* A tree is loaded completely, or one call is still in it and has loaded exactly
\* the nodes before its next: also where a panic stops it for good (file.go, the
\* tests of Len()).
Filled ==
  \A t \in Trees : store[t] # {} /\ store[t] # All(t) =>
    \E o \in Past(t) :
      store[t] = {WalkOrder[t][i] : i \in 1 .. next[o] - 1}

\* A call fails although the file is sound only because it skipped a tree
\* that another was still loading (file.go, NewFromReaderWithBTrees).
FailureExplained ==
  \A o \in Openers : pc[o] = "failed" => skipped[o] # {}

\* Whatever the calls do to each other, they end and leave both stores complete,
\* unless one of them panics: then the program is over, and a store may stay as
\* the panic found it (file.go, NewFromReaderWithBTrees).
CompleteUnlessPanic ==
  <>[](\/ ~ Running
       \/ /\ \A o \in Openers : pc[o] \in Ended
          /\ \A t \in Trees : store[t] = All(t))

============================================================================
