----------------------------- MODULE PstOpen -----------------------------
(***************************************************************************)
(* Opening a PST file (file.go, btree.go): the header checks, the walk     *)
(* that copies the node and the block b-tree into their stores, the name   *)
(* to ID map that every open reads, lookups on the opened file and         *)
(* Cleanup.  The caller may open again on the same stores, reads may fail  *)
(* and the process may crash.                                              *)
(*                                                                         *)
(* The file is data: two trees of pages, known by the constants below.     *)
(* The walk is recursive in the code (WalkAndCreateBTree calls itself      *)
(* from the callback of GetBTreeNodeEntries); its call stack is frames.    *)
(***************************************************************************)
EXTENDS Integers, Sequences, BTreeStore

CONSTANTS
  Page,        \* the pages of the two b-trees
  Root,        \* Root[t]: the page the header names as the root of tree t
  PageLevel,   \* PageLevel[p]: the level byte of page p, 0 for a leaf
  Ids,         \* Ids[p]: the identifiers of the entries of page p
  Child,       \* Child[p]: the pages the entries of the branch p point to
  Span,        \* Span[p]: the identifiers that belong at or below page p
  Keys,        \* Keys[p]: the identifiers of the leaf entries at or below p
  Payload,     \* Payload[t][id]: what the leaf entry of id in tree t carries
  Garbage,     \* Garbage[t]: a branch entry's bytes taken for a leaf of t
  Headers,     \* the file headers considered
  MaxOpens,    \* bound on open attempts
  MaxFaults,   \* bound on failing reads
  FaultKinds,  \* the reads that may fail: "header", "level", "raw", "map"
  MaxCrashes,  \* bound on crashes of the process
  Durable      \* TRUE: every Load and Clear of a store survives a crash

Trees == {"node", "block"}
IdentifierNameToIDMap == 97

WellFormedLeaf(p) ==
  /\ Keys[p] = {Ids[p][i] : i \in DOMAIN Ids[p]}
  /\ \A i, j \in DOMAIN Ids[p] : i # j => Ids[p][i] # Ids[p][j]

WellFormedBranch(p) ==
  /\ Child[p] \in Seq(Page)
  /\ DOMAIN Child[p] = DOMAIN Ids[p]
  /\ Keys[p] = UNION {Keys[Child[p][i]] : i \in DOMAIN Ids[p]}
  /\ \A i \in DOMAIN Ids[p] :
       /\ PageLevel[Child[p][i]] = PageLevel[p] - 1
       /\ Ids[p][i] \in Span[Child[p][i]]
       /\ Span[Child[p][i]] \subseteq Span[p]
       /\ \A j \in DOMAIN Ids[p] :
            i # j => Span[Child[p][i]] \cap Span[Child[p][j]] = {}

(* The trees of the file are sound: it is their reading that may go wrong. *)
ASSUME WellFormedTrees ==
  /\ \A t \in Trees : Root[t] \in Page /\ DOMAIN Payload[t] = Keys[Root[t]]
  /\ \A p \in Page :
       /\ PageLevel[p] \in Nat
       /\ Ids[p] \in Seq(Nat)
       /\ Keys[p] \subseteq Span[p]
       /\ Span[p] \subseteq Nat
       /\ IF PageLevel[p] = 0 THEN WellFormedLeaf(p) ELSE WellFormedBranch(p)

ASSUME PayloadAssumption ==
  /\ \A id \in DOMAIN Payload["node"] :
       Payload["node"][id] \in [data : Nat, local : Nat]
  /\ Garbage["node"] \in [data : Nat, local : Nat]

ASSUME BoundsAssumption ==
  /\ MaxOpens \in Nat /\ MaxFaults \in Nat /\ MaxCrashes \in Nat
  /\ Durable \in BOOLEAN

VARIABLES
  header,   \* the header of the file
  store,    \* store[t]: the nodes in the store of tree t
  pc,       \* where the open attempt is
  tree,     \* the tree being initialised
  page,     \* the page being visited
  level,    \* the level GetParentBTreeNodeLevel gave for it
  frames,   \* the loops over page entries in progress, innermost last
  answer,   \* the last lookup on the opened file
  opens, faults, crashes,
  \* History, for the properties only:
  unread,   \* unread[t]: pages of t whose entries could not be read
  misread,  \* misread[t]: branch pages of t taken for leaves
  cut       \* the trees whose walk ended halfway, leaving a filled store

attempt == <<pc, tree, page, level, frames>>
history == <<unread, misread, cut>>
bounds == <<opens, faults, crashes>>
vars == <<header, store, attempt, answer, bounds, history>>

NoAnswer == [id |-> 0, found |-> FALSE, ref |-> "not asked"]
Empty == [t \in Trees |-> {}]
NoPages == [t \in Trees |-> {}]

Init ==
  /\ header \in Headers
  /\ store = Empty
  /\ pc = "idle" /\ tree = "node" /\ page = Root["node"] /\ level = 0
  /\ frames = <<>>
  /\ answer = NoAnswer
  /\ opens = 0 /\ faults = 0 /\ crashes = 0
  /\ unread = NoPages /\ misread = NoPages /\ cut = {}

----------------------------------------------------------------------------
(* Reads.  A read either succeeds or uses up one of the allowed faults.    *)

ReadOK == UNCHANGED faults
ReadFails(kind) ==
  /\ kind \in FaultKinds
  /\ faults < MaxFaults
  /\ faults' = faults + 1

Goto(label) == pc' = label /\ UNCHANGED <<tree, page, level, frames>>

Quiet == pc \in {"idle", "opened", "failed", "cleaned"}

----------------------------------------------------------------------------
(* The constructors.                                                       *)

BeginOpen ==
  /\ Quiet
  /\ opens < MaxOpens
  /\ opens' = opens + 1
  /\ pc' = "signature" /\ tree' = "node"
  /\ answer' = NoAnswer
  /\ UNCHANGED <<header, page, level, frames, faults, crashes, history>>

\* New: a pair of new in-memory stores.
New == BeginOpen /\ store' = Empty

\* NewFromReaderWithBTrees: the caller's stores, as an earlier use left them.
NewFromReaderWithBTrees == BeginOpen /\ UNCHANGED store

----------------------------------------------------------------------------
(* The header checks, in the order of the code.                            *)

HeaderCheck(label, accepts, next) ==
  /\ pc = label
  /\ \/ ReadOK /\ Goto(IF accepts THEN next ELSE "failed")
     \/ ReadFails("header") /\ Goto("failed")
  /\ UNCHANGED <<header, store, answer, opens, crashes, history>>

FormatType ==
  CASE header.version \in {14, 15} -> "ANSI"
    [] header.version \in {21, 23} -> "Unicode"
    [] header.version = 36 -> "Unicode4k"
    [] OTHER -> "unsupported"

IsValidSignature == HeaderCheck("signature", header.magic = "!BDN", "format")
GetFormatType == HeaderCheck("format", FormatType # "unsupported", "content")
GetContentType ==
  HeaderCheck("content", header.client \in {"SM", "SO", "AB"}, "encryption")
GetEncryptionType ==
  HeaderCheck("encryption", header.crypt \in {0, 1}, "init")

----------------------------------------------------------------------------
(* The b-trees.                                                            *)

\* Seeded fault: the caller tests the stores again after each walk.
AfterInitTestsAgain(t) == "init"

\* Initialisation of a store is skipped if the store is not empty.
AfterInit(t) == IF t = "node" THEN "init" ELSE "map"

SkipBTree ==
  /\ pc = "init"
  /\ ~ IsEmpty(store[tree])
  /\ pc' = AfterInit(tree)
  /\ tree' = "block"
  /\ UNCHANGED <<header, store, page, level, frames, answer, bounds, history>>

\* GetNodeBTreeOffset or GetBlockBTreeOffset, then WalkAndCreateBTree begins.
InitBTree ==
  /\ pc = "init"
  /\ IsEmpty(store[tree])
  /\ \/ /\ ReadOK
        /\ pc' = "level" /\ page' = Root[tree]
        /\ UNCHANGED <<tree, level, frames>>
        /\ unread' = [unread EXCEPT ![tree] = {}]
        /\ misread' = [misread EXCEPT ![tree] = {}]
        /\ cut' = cut \ {tree}
     \/ ReadFails("header") /\ Goto("failed") /\ UNCHANGED history
  /\ UNCHANGED <<header, store, answer, opens, crashes>>

\* GetParentBTreeNodeLevel, called by GetBTreeNodeEntries.  When its read fails
\* the callback is told, which does nothing, and the level counts as 0.
GetParentBTreeNodeLevel ==
  /\ pc = "level"
  /\ pc' = "entries"
  /\ \/ ReadOK /\ level' = PageLevel[page] /\ UNCHANGED misread
     \/ /\ ReadFails("level")
        /\ level' = 0
        /\ misread' = IF PageLevel[page] = 0 THEN misread
                      ELSE [misread EXCEPT ![tree] = @ \cup {page}]
  /\ UNCHANGED <<header, store, tree, page, frames, answer, opens, crashes,
                 unread, cut>>

\* GetBTreeNodeRawEntries.  The callback parses the page and starts the loop
\* over its entries; a 4k page is always indexed past its buffer.  When the
\* read fails the callback gets the error (twice) and drops it.
GetBTreeNodeEntries ==
  /\ pc = "entries"
  /\ \/ /\ ReadOK /\ FormatType # "Unicode4k"
        /\ pc' = "load"
        /\ frames' = Append(frames, [page |-> page, level |-> level, next |-> 1])
        /\ UNCHANGED unread
     \/ /\ ReadOK /\ FormatType = "Unicode4k"
        /\ pc' = "panicked"
        /\ UNCHANGED <<frames, unread>>
     \/ /\ ReadFails("raw")
        /\ pc' = "load"
        /\ unread' = [unread EXCEPT ![tree] = @ \cup {page}]
        /\ UNCHANGED frames
  /\ UNCHANGED <<header, store, tree, page, level, answer, opens, crashes,
                 misread, cut>>

Top == frames[Len(frames)]

\* Seeded fault: every leaf entry is read at the offset of the first.
EntryNodeFirst(f, i) ==
  [id |-> Ids[f.page][i],
   level |-> f.level,
   ref |-> IF f.level > 0 THEN Child[f.page][i]
           ELSE IF PageLevel[f.page] = 0 THEN Payload[tree][Ids[f.page][1]]
           ELSE Garbage[tree]]

\* The BTreeNode that GetBTreeNodeEntries makes of the i-th entry.
EntryNode(f, i) ==
  [id |-> Ids[f.page][i],
   level |-> f.level,
   ref |-> IF f.level > 0 THEN Child[f.page][i]
           ELSE IF PageLevel[f.page] = 0 THEN Payload[tree][Ids[f.page][i]]
           ELSE Garbage[tree]]

\* One turn of the loop of WalkAndCreateBTree: load the entry and, if it is a
\* branch entry, walk the page it points to.
LoadEntry ==
  /\ pc = "load" /\ frames # <<>>
  /\ Top.next <= Len(Ids[Top.page])
  /\ LET node == EntryNode(Top, Top.next) IN
       /\ store' = [store EXCEPT ![tree] = Load(@, node)]
       /\ IF Exists(store[tree], node)
          THEN pc' = "conflict" /\ UNCHANGED <<page, frames>>
          ELSE /\ frames' = [frames EXCEPT ![Len(frames)].next = @ + 1]
               /\ IF Top.level > 0
                  THEN pc' = "level" /\ page' = node.ref
                  ELSE UNCHANGED <<pc, page>>
  /\ UNCHANGED <<header, tree, level, answer, bounds, history>>

\* The loop over a page ends and its WalkAndCreateBTree returns.
Return ==
  /\ pc = "load" /\ frames # <<>>
  /\ Top.next > Len(Ids[Top.page])
  /\ frames' = SubSeq(frames, 1, Len(frames) - 1)
  /\ UNCHANGED <<header, store, pc, tree, page, level, answer, bounds, history>>

\* The outermost WalkAndCreateBTree returns.  It reports no error, and the err
\* tested after it is the one of the offset read, which is nil.
WalkDone ==
  /\ pc = "load" /\ frames = <<>>
  /\ pc' = AfterInit(tree)
  /\ tree' = "block"
  /\ UNCHANGED <<header, store, page, level, frames, answer, bounds, history>>

----------------------------------------------------------------------------
(* Lookups.                                                                *)

\* Seeded fault: identifier & 0xfffffff8
ClearLowBits(id) == id - (id % 8)

\* identifier & 0xfffffffe
ClearLSB(id) == id - (id % 2)

HasBlock(id) == Found(store["block"], ClearLSB(id))
GetBlockBTreeNode(id) == Get(store["block"], ClearLSB(id))

HasData(id) ==
  /\ Found(store["node"], id)
  /\ HasBlock(Get(store["node"], id).ref.data)
GetDataBTreeNode(id) == GetBlockBTreeNode(Get(store["node"], id).ref.data)

\* GetNameToIDMap looks up the node, its local descriptors if it has any and
\* its data.  What it reads of them may fail, and is arbitrary when one of the
\* entries was garbage.
NameToIDMapFound ==
  /\ HasData(IdentifierNameToIDMap)
  /\ LET local == Get(store["node"], IdentifierNameToIDMap).ref.local
     IN  local = 0 \/ HasBlock(local)

NameToIDMapGarbage ==
  LET node == Get(store["node"], IdentifierNameToIDMap).ref
  IN  \/ node = Garbage["node"]
      \/ GetDataBTreeNode(IdentifierNameToIDMap).ref = Garbage["block"]
      \/ node.local # 0 /\ GetBlockBTreeNode(node.local).ref = Garbage["block"]

GetNameToIDMap ==
  /\ pc = "map"
  /\ IF ~ NameToIDMapFound
     THEN ReadOK /\ Goto("failed")
     ELSE \/ ReadOK /\ Goto("opened")
          \/ ReadOK /\ NameToIDMapGarbage /\ pc' \in {"failed", "panicked"}
                    /\ UNCHANGED <<tree, page, level, frames>>
          \/ ReadFails("map") /\ Goto("failed")
  /\ UNCHANGED <<header, store, answer, opens, crashes, history>>

\* GetDataBTreeNode by the user of the opened file.
Lookup(id) ==
  /\ pc = "opened"
  /\ answer' = [id |-> id, found |-> HasData(id),
                ref |-> IF HasData(id) THEN GetDataBTreeNode(id).ref ELSE "none"]
  /\ UNCHANGED <<header, store, attempt, bounds, history>>

Cleanup ==
  /\ pc = "opened"
  /\ store' = Empty
  /\ Goto("cleaned")
  /\ UNCHANGED <<header, answer, bounds, history>>

----------------------------------------------------------------------------
(* The process dies; the stores survive if the caller made them durable.   *)

Walking == pc \in {"level", "entries", "load", "panicked", "conflict"}

Crash ==
  /\ pc # "idle"
  /\ crashes < MaxCrashes
  /\ crashes' = crashes + 1
  /\ pc' = "idle" /\ tree' = "node" /\ frames' = <<>>
  /\ store' = IF Durable THEN store ELSE Empty
  /\ cut' = IF Durable /\ Walking THEN cut \cup {tree} ELSE cut
  /\ UNCHANGED <<header, page, level, answer, opens, faults, unread, misread>>

----------------------------------------------------------------------------
Open ==
  \/ IsValidSignature \/ GetFormatType \/ GetContentType \/ GetEncryptionType
  \/ SkipBTree \/ InitBTree
  \/ GetParentBTreeNodeLevel \/ GetBTreeNodeEntries
  \/ LoadEntry \/ Return \/ WalkDone
  \/ GetNameToIDMap

Next ==
  \/ New \/ NewFromReaderWithBTrees
  \/ Open
  \/ \E id \in Span[Root["node"]] : Lookup(id)
  \/ Cleanup
  \/ Crash

\* An open attempt runs on the caller's goroutine, which is scheduled.
Spec == Init /\ [][Next]_vars /\ WF_vars(Open)

----------------------------------------------------------------------------
(* Properties.                                                             *)

Labels ==
  {"idle", "signature", "format", "content", "encryption", "init", "level",
   "entries", "load", "map", "opened", "failed", "panicked", "conflict",
   "cleaned"}

Frame == [page : Page, level : Nat, next : Nat \ {0}]

\* The state variables have their types.
TypeOK ==
  /\ header \in Headers
  /\ DOMAIN store = Trees
  /\ \A t \in Trees : \A n \in store[t] : n.id \in Nat /\ n.level \in Nat
  /\ pc \in Labels /\ tree \in Trees /\ page \in Page /\ level \in Nat
  /\ frames \in Seq(Frame)
  /\ opens \in Nat /\ faults \in Nat /\ crashes \in Nat
  /\ unread \in [Trees -> SUBSET Page] /\ misread \in [Trees -> SUBSET Page]
  /\ cut \subseteq Trees

\* The panic with ErrBTreeNodeConflict (btree.go, WalkAndCreateBTree) is never
\* reached: no well-formed tree makes Load replace a node, although one
\* identifier names a leaf entry and branch entries of several levels, and
\* whichever reads fail, levels are misread, walks are cut and stores reused.
NoConflict == pc # "conflict"

\* A leaf node of a store is what the file says of its identifier, unless it
\* belongs to a branch page whose level could not be read, which
\* GetBTreeNodeEntries then parses as a leaf page (btree.go, the missing return).
LeafGenuine ==
  \A t \in Trees : \A n \in store[t] :
    n.level = 0 =>
      \/ n.id \in DOMAIN Payload[t] /\ n.ref = Payload[t][n.id]
      \/ \E p \in misread[t] : n.id \in Span[p]

\* What the failed reads of the attempt that filled the store of t account for.
Damaged(t, id) == \E p \in unread[t] \cup misread[t] : id \in Span[p]

\* An opened file has every leaf entry of both trees, but for those at or below
\* a page that could not be read, and for a tree whose walk a crash has cut.
DamageConfined ==
  pc = "opened" =>
    \A t \in Trees \ cut : \A id \in Keys[Root[t]] :
      Found(store[t], id) \/ Damaged(t, id)

\* The block that node id of the file refers to: bit 0 of a block identifier is
\* reserved and readers ignore it (docs/README.md, "A - r").
BlockOf(id) == 2 * (Payload["node"][id].data \div 2)

\* GetDataBTreeNode finds the block of every node that no failed read touches,
\* whether or not the reserved bit of the data identifier is set.
DataResolves ==
  pc = "opened" /\ cut = {} =>
    \A id \in Keys[Root["node"]] :
      LET block == BlockOf(id) IN
      block \in Keys[Root["block"]] =>
        \/ Damaged("node", id) \/ Damaged("block", block)
        \/ HasData(id) /\ GetDataBTreeNode(id).ref = Payload["block"][block]

\* Every open attempt comes to an end (NewFromReaderWithBTrees returns, the
\* process panics or crashes): the walk of a well-formed tree terminates.
Settled == pc \in {"idle", "opened", "failed", "panicked", "cleaned"}
Settles == [](~ Settled => <>Settled)

\* An opened file is complete unless a read failed or a crash cut a walk.  The
\* err test after each walk (file.go:110, file.go:124) means more: that no file
\* is opened whose walk met a read error.
NoOpenAfterReadError ==
  pc = "opened" => \A t \in Trees : unread[t] = {}

----------------------------------------------------------------------------
(* The abstract specification.                                             *)

Status ==
  CASE pc \in {"idle", "failed", "cleaned"} -> "closed"
    [] pc = "opened" -> "open"
    [] pc \in {"panicked", "conflict"} -> "dead"
    [] OTHER -> "opening"

Answered ==
  IF answer = NoAnswer THEN <<>>
  ELSE <<answer.id, IF answer.found THEN answer.ref ELSE "none">>

\* What the file itself says.
FileContent ==
  [id \in {i \in Keys[Root["node"]] : BlockOf(i) \in Keys[Root["block"]]} |->
     Payload["block"][BlockOf(id)]]

\* The identifiers for which an entry at or below one of the pages, or the block
\* entry it leads to, matters: pages[t] are pages of tree t.
Affected(pages) ==
  {id \in Span[Root["node"]] :
     \/ \E p \in pages["node"] : id \in Span[p]
     \/ /\ id \in Keys[Root["node"]]
        /\ \E p \in pages["block"] : BlockOf(id) \in Span[p]}

\* A walk that was cut may have missed any entry.
Lost == IF cut = {} THEN Affected(unread) ELSE Span[Root["node"]]
Doubtful == Affected(misread)

\* All that a lookup may answer: no data, a block of the file, or garbage.
AnyAnswer ==
  {"none", Garbage["block"]}
    \cup {Payload["block"][b] : b \in DOMAIN Payload["block"]}

Directory ==
  INSTANCE NodeDirectory WITH
    Id <- Span[Root["node"]], Content <- FileContent, NotFound <- "none",
    Anything <- AnyAnswer, status <- Status, answer <- Answered,
    lost <- Lost, doubtful <- Doubtful

\* An opened file answers exactly what the file contains, also after a Cleanup
\* and a second open, but for the nodes on a page that could not be read or
\* mistaken for a leaf (GetBTreeNodeEntries), and for a tree whose walk a crash
\* has cut in a durable store, which may miss entries but never has a wrong one
\* (NewFromReaderWithBTrees, the test of Len()).
ImplementsDirectory == Directory!Spec

============================================================================
