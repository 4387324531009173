# A verification project for go-pst

go-pst reads Outlook's Personal Storage Table (PST) files.  This directory holds
TLA+ specifications of its core, TLC configurations that check them on small
files, and TLAPS proofs of the properties that matter most, for every file.

* [The system](#the-system): parts, state, operations, interaction, hazards
* [The specifications](#the-specifications): which module models what, and how
* [The runs](#the-runs): what TLC checks, bounds, fairness
* [The proofs](#the-proofs)
* [Findings](#findings)
* [What is not modelled](#what-is-not-modelled) and [the plan](#the-plan)

## The system

A PST file is three layers (`docs/README.md`): pages that form two b-trees (the
*node* b-tree from node identifiers to data and local descriptor identifiers, the
*block* b-tree from block identifiers to file offsets); blocks, heaps and tables
built on them; and folders, messages and attachments built on those.

| Component | State | Operations | Needs |
|---|---|---|---|
| Open (`file.go`, `btree.go`) | `File`: reader, format, encryption, two stores, name-to-ID map | `New`, `NewFromReaderWithBTrees`, header checks, `WalkAndCreateBTree`, lookups, `Cleanup` | stores, reader |
| Stores (`btree_store.go`) | the nodes, ordered by `BTreeNodeLessFunc` | `Load`, `Get`, `Len`, `Clear` | tidwall/btree |
| Reader (`file.go` `DefaultReader`, `io_uring.go`) | the file; the ring and its event loop | `ReadAt`, `ReadAtAsync` with a callback, `Close` | - |
| Data trees (`blocks.go`, `heap_on_node.go`) | none: recursion | `GetBlocks`, `GetBlocksTotalSize`, `GetHeapOnNode`, heap items by HID | block b-tree |
| Local descriptors (`local_descriptors.go`) | none: recursion | `GetLocalDescriptorsFromIdentifier`, `FindLocalDescriptor` | block b-tree |
| Heap reader (`heap_on_node_reader.go`) | blocks, their offsets, encryption | `NewHeapOnNodeReader`, `ReadAt` | reader |
| Property and table contexts (`property_context.go`, `property_reader.go`, `table_context.go`, `btree_on_heap.go`) | the properties or rows read | `GetPropertyContext`, `Populate`, `GetTableContext`, typed getters | heap, local descriptors |
| Name-to-ID map (`name_to_id_map.go`) | the map, in `File` | read by every open | node 97 |
| Folders (`folder.go`) | `Folder` values | `GetRootFolder`, `GetSubFolders`, `WalkFolders` with a callback | tables |
| Messages (`message.go`) | `MessageIterator`: index, err, value | `GetMessageIterator`, `Next`, `Value`, `Err`, `GetMessage` | tables |
| Attachments (`attachment.go`) | table cached in the message, iterator | `GetAttachment...`, `Next` | message |
| RTF (`rtf.go`), charsets, code pages | a ring buffer; tables | `Decode` | - |
| Generator (`cmd/properties`) | the properties read, numbers and builders per message type, temporary files | `download`, `unzip`, `getPropertiesFromXML`, `validateProperties`, `generateProtocolBuffers` | network, file system |

How they interact: the caller holds a `File`; everything above the b-trees asks it
for nodes and blocks and reads the file through its reader.  Control comes back to
the user in two places, the callback of `WalkFolders` and the iterators, where the
user may read on, stop, retry or call `Cleanup`.  Several callers may open one
file on the same stores.  Inside, the walk of the b-trees
goes through callbacks (`GetBTreeNodeEntries` calls back for a page and
`WalkAndCreateBTree` calls itself from there), a relic of asynchronous reading:
`NewFromReaderWithBTrees` wraps every reader in `DefaultReader`, so the callbacks
run synchronously.  The reader of `io_uring.go` has a goroutine of its own, the
event loop, which calls back in the order in which reads complete.

What is hard here:

* *partial failure*: a page, block or message that cannot be read in the middle of
  a recursive collection, with errors that travel through callbacks;
* *reuse and restart*: the stores are the caller's and may be durable, so an open
  may begin with what a crash or an earlier open left;
* *order and keys*: one identifier names several nodes of a b-tree, and a heap is
  addressed by position in the concatenation of its blocks;
* *pointers to loop variables* handed to user callbacks under go 1.20;
* *iterators* that are retried after an error;
* arithmetic at the borders of blocks, rows and pages, in-place decoding, a ring
  buffer that is read and written by the same loop;
* *concurrency*: opens that share stores, and reads, an interrupt and a `Close` that
  race on the ring;
* *dropped errors*: deferred functions and callbacks that overwrite or swallow them.

`PROJECT.json` lists each hazard at its line, with the properties that would catch
it, or the reason why none does.

What makes the components correct, in a sentence each: an opened file answers
what the file says; a store never loses one of two nodes with the same identifier;
a heap is all its blocks in order or an error; a read of a heap returns the bytes at
its offset; a walk visits every folder once in depth-first order
or tells why not; an iterator neither skips nor repeats a message; an identifier
leads to its own item, row, name and field and to no other; a decompressed text is
the one that was compressed; a read through the ring is answered once; what is generated
describes exactly the properties of the text it was read from.  That text need not be the
document's, nor the files whole: the generator overlooks a failed copy of the one and a
failed close of the others, and nothing else.

## The specifications

| Module | What it is |
|---|---|
| `BTreeStore` | a store as a set of nodes under `BTreeNodeLessFunc`: `Load`, `Get`, `IsEmpty` |
| `PstOpen` | the open, EXTENDS `BTreeStore` |
| `NodeDirectory` | what an open promises, abstractly, with what failures and crashes may take from it; `PstOpen` instantiates it |
| `HeapReader` | `HeapOnNodeReader` |
| `DataTree` | the recursion of `GetBlocks`/`GetHeapOnNode` and of the local descriptors |
| `MailWalk` | folder walk, message iterator and the user's callback |
| `Cursor` | what an iterator over a list promises, abstractly |
| `Attachments` | a message's attachment table, its calls and iterators; instantiates `Cursor` |
| `HeapItem` | from an HNID to a local descriptor's node or a heap item |
| `TableRows` | `GetTableContext` and the sub-folders made of its rows |
| `PropertyCodec` | `GetPropertyContext`, the message class, `Populate` and the generated `DecodeMsg` |
| `NameToIdMap` | `GetNameToIDMap` and `GetPropertyID` |
| `SlidingWindow` | what a decompressor with a window promises, abstractly |
| `RtfDecoder` | `RTFDecoder.Decode`, instantiates `SlidingWindow` |
| `AsyncReader` | the io_uring reader and what `NewAsync` makes of it |
| `ParallelOpens` | several opens on the same stores, EXTENDS `BTreeStore` |
| `PropertyGenerator` | `cmd/properties` |
| `Procedures` | one call of `HeapItem`, `TableRows`, `NameToIdMap` or `PropertyGenerator`, the four procedures that run alone |
| `Concurrency` | `AsyncReader` or `ParallelOpens`, the two places where calls run in parallel |
| `MCPstOpen`, `MCHeapReader`, `MCDataTree`, `MCMailWalk`, `MCAttachments`, `MCRtfDecoder`, `MCPropertyCodec`, `MCConcurrency` | instances for TLC |
| `MCHeapItem`, `MCTableRows`, `MCNameToIdMap`, `MCPropertyGenerator` | heaps, tables, maps and documents for `MCProcedures`, the instance of `Procedures` |
| `PstOpenProofs`, `DataTreeProofs`, `MailWalkProofs`, `AttachmentsProofs`, `PropertyCodecProofs`, `RtfDecoderProofs` | theorems and proofs about the module they are named after |
| `ReaderProofs` | those about `HeapReader` and `Concurrency` |
| `ProceduresProofs` | those about `Procedures` |

Common to all: a recursive procedure is a stack of frames in a variable, with one
action per step of the procedure; a read of the file is a step that may fail while
`faults < MaxFaults` (`MaxFaults`, `MaxCalls`, `MaxOpens`, `MaxReads` and `MaxCrashes`
are bounds of the model, everything else is of the code).  `PropertyGenerator` instead
chooses beforehand which steps fail, one of the sets in `Failures`; in the instance
these are the sets of at most two steps.  Variables marked
*history* are not in the code; only properties read them.  Definitions after the
comment `Seeded fault` are wrong on purpose: no action uses them, they are what the
properties must be able to tell from the code.

**PstOpen.** The file is constant: pages with levels, entries and the leaf entries
below them, constrained by `WellFormedTrees` (a sound file; what goes wrong is its
reading).  `New` and `NewFromReaderWithBTrees` begin an attempt with fresh or reused
stores; `IsValidSignature`, `GetFormatType`, `GetContentType` and
`GetEncryptionType` are the header checks in their order; `SkipBTree`/`InitBTree` the
test of `Len()`; `GetParentBTreeNodeLevel`, `GetBTreeNodeEntries`, `LoadEntry`,
`Return`, `WalkDone` the walk, with `frames` as the stack of
`WalkAndCreateBTree`; `GetNameToIDMap` the last step of every open, reduced to
whether its lookups succeed and whether it reads garbage; `Lookup` is
`GetDataBTreeNode` by the user; `Crash` kills the process anywhere, and the stores
survive when `Durable`.  The level that a failed read leaves at 0, the entries of a
branch page then taken for leaf entries (`Garbage`) and the error that no one
returns are modelled as the code has them.

**HeapReader.** A block is its size, a byte the pair of block and position;
what decoding makes of it depends on that byte alone and is left out, but for an encryption that
the code does not know.
`CountBlock` is the loop of the constructor; `ReadAt` chooses what `sort.Search` may
return; `ReadPart`, `PartEOF`, `PartFails`, `PartUnsupported` are the turns of the
loop and `Finish` its end.  Sections of a block that end at its boundary give `io.EOF`
only when they are empty.

**DataTree.** A file maps block identifiers to what their first bytes say, and may
be damaged anywhere: wrong signature or level, missing blocks, wrong total, children
of the wrong level.  `Upto` and `Below` are tables of what subtrees stand for,
constrained by `FilesAssumption` and `BelowAssumption` to be the unfolding of the
file, so the module needs no recursive operator and can be proved about.  Both
recursions share the actions: `ReadHeader`, `ReadEntries`, the loop bodies
(`AppendBlock` for an XBLOCK, `Descend` for an XXBLOCK or SIBLOCK, `SkipChild` for
an identifier 0, `NotFound`), `Return`, `ReturnRoot` and the comparison of the total
size.  The buffer for the entries of local descriptors has the length of a product of 16 bits
(`BufferLength`, modulo `Word`): a count that is too large makes it short, and `ReadEntries`
or `SlicePastBuffer` panics, which drops the whole stack.  Trees are finite: a block that leads back to itself makes the code recurse
for ever and has no content to compare with.  Sizes stay far below 2^32.

**MailWalk.** The user is the program in `doc_test.go`, who may in addition stop,
retry a failed `Next` and call `Cleanup`.  `cells` are the `Folder` variables that
pointers are made to: the root's, and one per loop of `WalkFolders`, since `go.mod`
says go 1.20.  Each call works on `cells[self]`, whatever that holds at the time.
The `file` says which messages can be read and which tables have rows; TLC tries
every combination.  `Walk` and `Rest` are tables of the depth-first order below a
folder and behind its first sub-folders, constrained by `WalkAssumption`.
`GetAllMessages` makes the iterator's steps with nobody between them.

**Attachments.** One message, any number of iterators over it.  `cache` is
`message.AttachmentTableContext`: each call that needs the table goes through `Fetch`
or `TableFails` (`GetAttachmentTableContext`), so one call's success or failure is
what the next finds.  `GetAttachment`, `GetAttachmentCount`, `GetAllAttachments` and
`GetAttachmentIterator` are single actions, since nothing runs between their reads;
`NextDelivers`, `NextFails` and `NextEnds` are the three ways through `Next`.  A row is
the identifier in it; the file says which identifiers lead to an attachment.
`GetAttachmentOfNode` is `File.GetAttachment`, whose untested error lets it panic.
An iterator that was returned with an error has no message and is not used, an index is not negative.
`got` and `said` are history, the refinement mapping to `Cursor`.

**HeapItem.** A heap is blocks of sizes with a page map each; an HNID is its type, block
and item.  `Find` is `FindLocalDescriptor`, `GetNode` the way to another node,
`GetBlock`, `ReadPageMapOffset`, `ReadStart`, `ReadEnd` the steps of
`GetHeapOnNodeReaderFromHID`.  A word that is read where no page map is gives any of
`Garbage`, so that a wrong address shows.

**TableRows.** The row matrix is blocks of numbered rows; a read delivers the place it
read, a row and a position in it or `Padding`.  `GetTableInfo`, `GetColumn`,
`CountRows`, `BeginRow`, `GetCell`, `EndRow`, `EndTable` are `GetTableContext`, with the
arithmetic of the code in `RowsPerBlock`, `RowCount` and `RowOffset`; `MakeFolder` and
`EndFolders` are the loop of `GetSubFolders`, which asks for names without local
descriptors.

**PropertyCodec.** A context is the header of its B-Tree-on-Heap, its records, whose
value stands for their data, and `root`, what the `size` bytes of the item at the root
give when they are read as records: the records themselves, or what index records are
misread as.  `GetPropertyContext`/`ReadRecord` read the root,
`GetMessageClass` chooses the structure, `WriteProperty` is a turn of `Populate` with the
lookup, the resolving of the HNID, which may fail for a property of any type, the typed
getter and `WriteMessagePackValue`, and `SkipPair`, `DecodeField`,
`DecodeMismatch`, `EndDecode` are the loop that the generator writes into every
`DecodeMsg`.  The fields of the structures are the constant `Structs`, each declared for an
identifier and a type (`Field`); the tag that leads to it is joined of the two like the key
of a property (`Tagged`), so that two that should differ may be one number.  `PopulatedWhole`
speaks of all records of the context and names the three losses the code does not report:
`Unfollowed`, `Uncounted`, `Undecoded`.

**NameToIdMap.** A map is its three streams: the property sets of the GUIDs, entries
and what is found at each offset of the strings.  `Word` and `Shift` are 2^16 and 2^32
in the code, so that numbers wrap within the bounds.  `ReadGUID` and `ReadStreams`
are the reads, `NumberEntry` and `StringEntry` the turns of the loop, and an index
outside a table ends the process.

**RtfDecoder.** Sizes follow from `Nibble`, 16 in the code: the ring has `Nibble`^3
bytes.  `GetBodyRTF` reads the property or returns
the error of looking it up or reading it; `ReadFlags`, `Literal`, `BeginRef`, `CopyByte` and the ends of the three
loops are actions, `Overrun` the index past the data, `Finish` the comparison of the
size.  A stream is bytes, sound or not.  What makes one sound is `Written`, a relation
between the bytes, the `tokens` the writer chose and the text, which says nothing of
how to decode: a literal is its byte, a reference stands for the bytes at its distance.
Decoding is the code's alone, so that `TextReturned` compares two descriptions of the
format.  `SlidingWindow` has no ring: it repeats symbols at a distance.

**AsyncReader.** `OpenFile`, `NewRing`, `NewReactor` and `StartEventLoop` are
`NewReaderAsync`, each of the first three with its failure; `ReadAtAsync` queues or is
refused, `Submit` and `Complete` are the external loop and kernel, `Interrupt` ends
the context, `Close` waits for that and only then cancels it.  `NewAsync`, `ReadPage` and `EndWalk` are the path of
a `File`, whose reads block.

**ParallelOpens.** Each call is at its header checks, a test of `Len()`, a `Load` of the
walk or the name-to-ID map.  The file is sound: no two nodes of a tree have the same
identifier and level, and node 97 and its data are there (`OrderAssumption`,
`MapAssumption`).  A store's methods lock; two calls of them are two
steps.  `Walk` does not ask that the store is empty now: `Len()` may have been read
before another call began.  Nobody recovers the panic of a conflict: it ends the program and
every call in it (`Running`), and what the stores hold then is what a durable one keeps.

**PropertyGenerator.** A document is its lines with what `createProperties` finds in
them.  One action per stage and per line, property and file, each with its failures;
`deferred` are the files that `main` will remove, and the errors that deferred
functions replace are replaced.  `text` is what `unzip` leaves: the document's lines, or after a
failed copy one of `Damaged`, the well-formed texts such a copy may leave (a cut one is mostly no
XML, and `ParseXML` panics).  `partial` are the files that may lack a part.  An identifier is a
number of digits: `PropertyID` reads them in the base that is the width of the identifier, as
`getPropertyIDFromLine` does.  The XML, the formatting of names and the scanner's
longest line are left out.

**How they fit together.** `DataTree` and `MailWalk` use lookups that `PstOpen`
provides; they take an opened file whose lookups answer correctly, or a damaged one,
which is what `ImplementsDirectory` says: an answer is the file's, but for the
identifiers that are `lost`, which may be missing (a `NotFound`, an unreadable message
or a table without rows), or `doubtful`.  `HeapReader` reads the list of blocks that
`AllInOrder` describes, and `HeapItem` finds items in it; `TableRows` and
`PropertyCodec` read what `HeapItem` returns, an item or none.  `MailWalk` takes the
sub-folders that `TableRows` makes and a message that `PropertyCodec` populates as
there or failed.

## The runs

Deadlock is not checked: every system here may stop (the bounds on calls are used
up, or the walk is over).  `call` in `Procedures` and `system` in `Concurrency`
say which of the modules composed there a behaviour runs; the others' variables
stay as they begin, and a property of a module is one of its own behaviours.

| Run | Instance | Shows |
|---|---|---|
| `open_faults` | a node b-tree of three levels and a block b-tree of two, eight headers, 3 opens, 2 faults, 1 crash, durable stores | `NoConflict`, `LeafGenuine`, `DamageConfined`, that `PstOpen` implements `NodeDirectory`, `Settles` |
| `heap_reader` | up to three blocks of 0 to 3 bytes, all offsets and lengths to beyond the end | `BytesInPlace`, `EndReported`, `ReadReturns` |
| `data_tree` | a sound file with both trees two deep and twelve files with a kind of damage each, counts of entries too large for a word of 64 in place of 2^16 among them; 2 calls, 1 fault | `AllInOrder`, `Verdict`, `CallReturns` |
| `mail_walk` | six folders three deep, every combination of unreadable messages and missing tables, 2 faults | `PointersStable`, `WalkInOrder`, `NothingLost`, `ErrorsJustified`, `WalkReturns` |
| `attachments` | eight messages, sound, without rows or damaged in one place; two iterators, all other calls, 2 faults, `Cleanup` anywhere | `CacheWhole`, `AllOrError`, `ErrorsExplained`, `ImplementsCursor`, `LoopEnds` |
| `rtf` | a ring of 8 bytes; streams of one, two and four tokens, and damaged ones | `WindowIsRecent`, `TextReturned`, `ImplementsWindow`, `DecodeReturns` |
| `codec` | all contexts of up to three of thirteen kinds of record, odd headers, indexes of up to four records with every misreading, 1 fault | `FieldsOfTheirKeys`, `PopulatedWhole`, `ErrorsExplained` |
| `procedures` | *item*: four heaps of one to three blocks, every item and block index to beyond the end, local descriptors with the same and other identifiers, 1 fault | `ItemResolved`: `ItemAddressed`, `NodeBeforeItem`, `ErrorsExplained` |
| | *rows*: up to seven rows of 5 bytes in blocks of 12, so two rows and padding in each; other row sizes, missing cells, bits without a byte, lost names, 1 fault | `TableAsStored`: `RowsAsStored`, `AllFoldersOrError`, `PanicsExplained` |
| | *names*: up to three entries, words of three bits, missing streams, 1 fault; any question afterwards | `NamesResolved`: `AnswersLastEntry`, `MapsAgree`, `PanicsExplained` |
| | *generate*: documents of two and three properties, sound, invalid or without text, copies that leave another text, 2 faults | `GeneratedAsWritten`: `PropertiesAsWritten`, `FieldsOfProperties`, `OutputJustified`; for all four `TypeOK` |
| `concurrency` | *ring*: three reads, a queue of two, any step failing, interrupt and `Close` anywhere | `OneOutcome`, `ReadsAnswered` |
| | *stores*: three calls, a node b-tree of two levels and a block b-tree of one | `OneWalkFills`: `OneWalker`, `Filled`, `FailureExplained`; `CompleteUnlessPanic` |
| `open_read_error`, `ring_close`, `mail_value` | the smallest instance | the [findings](#findings) |

Why the bounds are enough.  `open_faults`: three levels are the least at which an inner
branch entry shares its identifier with a leaf entry and with another branch entry;
two faults allow a misread level and an unread page in one walk; a cut walk, its
reuse and an open after that take three opens and a crash.  `heap_reader`: a read across three
blocks has a first, a middle and a last part, and size 0 gives empty ones; one read
suffices, since `ReadAt` starts by setting all its state.  `data_tree`: one level of
intermediate blocks below the root gives siblings on both sides of a descent, and a
second call after a failed one; a word of 64 is passed by a SIBLOCK of four or five entries of 16 bytes and by an
SLBLOCK of three of 24, whose buffers then hold no entry or one.  `mail_walk`: two loops are live at once, a folder
follows one that was descended into, and rows have zero, one and two identifiers.
`attachments`: two iterators are enough to stand at different rows of one table that
either may have read, three rows give a first, a middle and a last with one identifier
twice, and two faults hit the table and then a row.  *item*: the number of
blocks and one beyond it are both indices, and three blocks have a middle one.
*rows*: seven rows fill three blocks and begin a fourth, with and without bytes
behind the last row, and the sizes 0, more than a block and exactly a block are there.
`codec`: three records are a first that is left out, one that is written behind it and
the class; a number for a float64 comes first, in the middle and last; index records of
6 bytes are read as records of 8, with one identifier twice.  *names*: three entries
allow one to overwrite another's number and identifier with a third between, and
0x8000 wraps.  `rtf`: four tokens of up to three bytes go round the ring and refer
to both sides of the write position.  *ring*: the third read meets a full queue.
*stores*: a third call meets a store that the second has found filled or half
filled.  *generate*: two properties have a neighbour each way, three have a first, a
middle and a last, and the second fault falls into the handling of the first.

Fairness.  All code but the ring's runs on the caller's goroutine, so an operation in
progress goes on: weak fairness of the step disjunctions (`Open`, `Read`, `Construct`,
`Step`, `Next`).  `Procedures` and `PropertyCodec` assume none, since no property of theirs
needs it.  In `ParallelOpens` each call has it of its own while the program runs: goroutines are
scheduled fairly, and no call holds a lock between two steps.  After a panic there is nothing to
go on with, which is why `CompleteUnlessPanic` promises nothing then.  In `AsyncReader` the
event loop submits and the kernel completes every read it has taken.  The
user is not obliged to anything, not even to interrupt a `Close` that waits, with two exceptions.  In `MailWalk` strong fairness
of `CallbackReturns` says that the user does not retry `Next` for ever.  In `Attachments`
the loop of the documented example calls `Next` until it returns false.

## The proofs

Every safety property that a run checks, and every refinement, is a theorem, for all
constants that satisfy the modules' assumptions.  `TypeOK` of the components that have a
run of their own, `DataResolves` and `Collected` are steps of the arguments, proved and
not among the properties TLC is given.

* `PstOpenProofs`: `BTreeNodeLessFunc` is a strict weak ordering, and
  `TypeOK`, `NoConflict`, `LeafGenuine`, `DamageConfined` and `DataResolves` are
  invariants, for every well-formed pair of trees and any number of opens, faults
  and crashes.  `NoConflict` is not inductive: that `Load` meets no equal node needs
  to know that the frames of the walk are nested (`NestedInv`: each is a child page
  of the entry the frame below is at), have the levels of their pages or 0
  (`LevelInv`), and that no node in the store has an identifier and level that the
  rest of a frame's entries will have (`FreshInv`); the spans of siblings are
  disjoint, so a page's nodes cannot meet those of another page of its level.  `DamageConfined`
  rests on a promise carried through the walk: every key below the root is stored,
  still ahead in some frame, or damaged (`AheadInv`), which at the end leaves the first and the
  last (`DoneInv`).  `IInv` is their conjunction.  From it follows `ImplementsDirectory`,
  the refinement of `NodeDirectory`: each step of an attempt is a `Read`, an end or a
  stutter of the directory, a lookup answers what `LeafGenuine` and `DoneInv` allow, and
  what a misread page put in the store is garbage or an entry of the file (`LeafSource`).
* `ReaderProofs`, of `HeapReader`: `TypeOK`, `BytesInPlace` and
  `EndReported`, for every list of block sizes.  The inductive invariant adds
  that the offsets are the running sums of the sizes (`OffsetInv`) and that the next
  byte the loop will deliver is the one at position `off + Len(out)` (`LoopInv`).
  Of `AsyncReader`: `OneOutcome`, for any set of reads and any size of queue.  A read
  on its way has called nobody and met no error (`OutcomeOf`), and what `NewReaderAsync`
  holds is what its last step acquired, with no loop running before (`AcquiredInv`).
  Of `ParallelOpens`: `OneWalkFills`, for any set of calls.  A store is empty or complete,
  or exactly one call is past the first node and has loaded exactly what comes before
  its next (`TreeInv`); any other is refused there by the first node.  A call that is
  through with a tree and has not skipped it leaves it complete (`ThroughInv`).
* `DataTreeProofs`: `TypeOK`, `Collected`, `AllInOrder` and `Verdict`, for every set of files.
  `Collected` is the loop invariant of the recursion, stated of all frames at once;
  it becomes inductive once a waiting frame is known to wait for all that its
  child stands for (`StackInv`) and the frames are tied to the root of the call
  and to the block being read (`CallInv`).  `Verdict` needs that every identifier the
  loops are past leads to blocks without a defect and inside their buffer, and that all that is visited lies
  below the root (`WalkInv`).  A buffer that was never left is one whose count did not wrap
  (`InsideFits`): a wrapped product is smaller than the last entry needs.
* `AttachmentsProofs`: `TypeOK`, `CacheWhole`, `AllOrError`, `ErrorsExplained` and the
  refinement `ImplementsCursor`, for any messages and any number of iterators.  The invariant adds that an iterator has
  delivered exactly the rows before its index (`Delivered`); with the whole cache this
  makes the row `Next` reads the next item of the cursor.
* `MailWalkProofs`: `TypeOK`, `PointersStable`, `WalkInOrder`, `NothingLost` and
  `ErrorsJustified`, for every tree of folders.  `PointersStable` needs that the
  variables pointed to lie one after the other on the stack of loops (`Frames`); the
  order needs a potential: what was visited, then what the iterator and the loops
  still have ahead, is the whole depth-first order of the root (`Progress`), which
  each step of the walk keeps by the equations of `Walk` and `Rest`.
* `PropertyCodecProofs`: `KeysAreInjective`, that the decimal digits of an identifier
  followed by those of one of the types that are written are never those of another
  pair; `TagsAreOfTheirProperties`, that such a key is the tag of a field of the same identifier and type
  only, if the structures have no float32 and no GUID with a small identifier, which is so of
  the generated ones (`TagsAssumption`); and from them `TypeOK`, `FieldsOfTheirKeys`, `PopulatedWhole` and `ErrorsExplained`,
  for all contexts and structures.  The invariant relates the pairs written to the properties before `k`
  and the fields set to the pairs before `next`.
* `RtfDecoderProofs`: `TypeOK`, `WindowIsRecent`, the refinement of `SlidingWindow` and
  `TextReturned`, for every size of nibble, header and set of streams.  That a reference
  which overlaps what it writes repeats at one distance is `WindowIsRecent` and modular
  arithmetic.  `TextReturned` takes of a sound stream only that it is `Written`.  Its
  invariant (`TextInv`) says that the output is the beginning of the text and that the
  loops stand between two tokens (`Done`) or in a reference with so much left
  (`Copying`), with the place in the group, the flags and the position that the next
  token has (`Ahead`); that a reference reads the right bytes is then
  `WindowIsRecent` at its distance.
* `ProceduresProofs`, one inductive invariant for each procedure, and `TypeOK` from all four.
  `ItemResolved` (`ItemInv`): the words read of a page map are the item's bounds, for every
  heap, identifier and list of local descriptors; the sums of block sizes are monotonic, so an
  offset belongs to one block.  `TableAsStored` (`RowsInv`): row `r` starts in block
  `r \div RowsPerBlock`, and the row read so far is what the columns up to the last one give
  (`RowsRead`), for every size of rows and blocks and at most 255 columns, the width of the
  count in the file.  `NamesResolved` (`NamesInv`): each of the three maps has for each key
  what the last entry with it put there (`LastWrites`), for every width of words.
  `GeneratedAsWritten` (`GeneratorInv`): the failures a run has gone on from are those of copying,
  of closing and of finding the entry, of which the last does not get past the parsing (`FailuresInv`); the property being read and those before it are
  what their lines describe (`InProgress`), each builder has the fields of its message in
  rising numbers (`Numbered`), a temporary file is one that `main` will remove
  (`TemporaryInv`), for every document, whatever fails; a name in it is not empty.
  The sums, cells and names are recursive functions of the numbers up to a bound.  That
  such functions exist and obey their equations is proved first, by induction as the
  well-foundedness of strict inclusion of the finite sets `1..n` (`NatSetInduction`), since
  the library's induction takes an operator.

Only model-checked: the liveness properties (`Settles`, `ReadReturns`, `CallReturns`,
`WalkReturns`, `LoopEnds`, `DecodeReturns`, `ReadsAnswered`, `CompleteUnlessPanic`),
since fairness and ENABLED are beyond the prover.
The tables `Upto`, `Below`, `Walk` and `Rest` are
assumed to satisfy their recursion equations; TLC evaluates these on the instances,
where they are computed recursively.

## Findings

Three have a run that TLC must find violated, with the counterexample as evidence:

1. `open_read_error`: a page that cannot be read during the walk does not fail the
   open.  The errors tested after the walks (`file.go:110`, `:124`) are those of
   reading the offsets.
2. `ring_close`: "Close closes the event loop" (`io_uring.go:99`), but it waits for the end of
   the loop's context before it cancels that context: without an interrupt it never returns.
3. `mail_value`: `Next` returns true with a nil `Value` for a row without identifier.

The others were met while modelling.  The models have what the code does, at the
definition named:

* the header checks accept the 4k format (`file.go:212`), whose page buffer ends before the
  entry count that is read from it: every open panics at its first page (`GetBTreeNodeEntries`);
* when the level of a page cannot be read, the function goes on after telling the
  callback (`btree.go:189`) and parses the page as a leaf (`misread`, `doubtful`);
* a durable store cut by a crash is taken for an initialised one (`cut`, `lost`);
* a block index equal to the number of blocks passes the test (`heap_on_node.go:137`)
  and panics (`GetBlock`, `HeapItem!ErrorsExplained`);
* an entry count of local descriptors times the size of an entry wraps at 16 bits, and the
  loop slices past the short buffer (`local_descriptors.go:115`, `:160`, `BufferLength`);
* 64-bit integers are written as integers and their generated fields are float64, so a
  message with such a field cannot be read, or loses that property and the one after it
  without an error (`DecodeMismatch`, `Undecoded`);
* the levels of a B-Tree-on-Heap are read and ignored, and the properties below an index are
  lost (`GetPropertyContext`, `Unfollowed`);
* the tags of the structures are joined like the keys: a float32 field, or a GUID field with a small
  identifier, would take the value of another property.  The generated structures have neither
  (`TagsAssumption`);
* 16 of the 32 bits of a string's offset are read (`StringEntry`, `Word`);
* an uncompressed body loses its last 16 bytes (`rtf.go:118`, `Uncompressed`);
* a file opened with `NewAsync` never reads through the ring (`ReadPage`);
* a panic in one of two parallel opens ends the program and may leave a durable store half
  filled, which the next open takes for complete (`LoadNode`, `Running`);
* a failed copy of the document's text is not reported, nor a failed close of a generated file
  (`Unzip`, `WriteFile`);
* the hexadecimal digits of 32-bit identifiers are read in base 32, so 0x8214 becomes 264228, which
  `properties.csv` shows (`generate.go:396`, `PropertyID`, `IdentifierAsWritten`);
* the mapping by reference, "preferred", is not used: a field goes to the message of its area
  (`MessageOf`).

## What is not modelled

* The data of properties: decoding of text by charset, of dates, of code pages
  (`charsets.go` and `codepage.go` are tables around golang.org/x/text).
* `message_store.go`: one lookup and one property context, in sequence.
* Most of `pkg/properties`, by far the largest part of the repository (about 57,000
  generated lines): each structure has the same `DecodeMsg` loop with its own fields,
  which `PropertyCodec` has once with the fields as a constant; `EncodeMsg`, `Msgsize` and
  the protobuf accessors are never called by this package.  A definition per
  structure would repeat that loop and tell nothing more.
* `tidwall/btree` and go-uring themselves: a store is a set with the equality its order
  defines, the ring a bounded queue that completes in any order.
* Parallel use of one `File`: all its methods but the stores' are unsynchronised and
  no document promises it.  Parallel opens with failing reads: `ParallelOpens` takes a
  sound file, `PstOpen` one open at a time.
* `WriteTo`: copies one property of an attachment to a writer.
* Cyclic block trees, which have no content to compare with.

## The plan

What would come next, in this order:

1. a read-only string of bytes as the abstract specification of `HeapReader`, and `Cursor`
   for `MessageIterator` as well, with their refinements proved;
2. what no step may do, as action properties: a delivered byte, row or identifier is
   never taken back;
3. parallel opens of which one fails, which now takes two modules.
