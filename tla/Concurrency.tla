---------------------------- MODULE Concurrency ----------------------------
(***************************************************************************)
(* The two places of the package where calls run in parallel: reads that   *)
(* race on the ring with an interrupt and a Close, and opens that share    *)
(* their stores.  A behaviour is one of the two.  The names of the         *)
(* specification are such that a module can extend HeapReader as well.     *)
(***************************************************************************)
EXTENDS Integers

CONSTANTS
  Reads, QueueSlots,          \* AsyncReader
  Openers, WalkOrder, MapID   \* ParallelOpens

VARIABLES
  system,   \* "ring" or "stores"
  opening, held, interrupted, loop, request, closing,
  store,
  at,       \* pc of ParallelOpens
  tree, next, skipped

ofRing == <<opening, held, interrupted, loop, request, closing>>
ofStores == <<store, at, tree, next, skipped>>
parallelVars == <<system, ofRing, ofStores>>

Ring == INSTANCE AsyncReader
Stores == INSTANCE ParallelOpens WITH pc <- at

ASSUME RingAssumptions == Ring!SlotsAssumption
ASSUME StoresAssumptions == Stores!OrderAssumption /\ Stores!MapAssumption

\* The system that does not run stays as it begins.
InitParallel == system \in {"ring", "stores"} /\ Ring!Init /\ Stores!Init

OnRing(action) == system = "ring" /\ action /\ UNCHANGED <<system, ofStores>>
OnStores(action) == system = "stores" /\ action /\ UNCHANGED <<system, ofRing>>

NextParallel == OnRing(Ring!Next) \/ OnStores(Stores!Next)

\* As in the two modules: the event loop and the kernel go on, and so does each
\* open; nobody is obliged to read, to close or to interrupt.
SpecParallel ==
  /\ InitParallel /\ [][NextParallel]_parallelVars
  /\ WF_parallelVars(OnRing(Ring!Opening))
  /\ WF_parallelVars(OnRing(Ring!EndEventLoop))
  /\ WF_parallelVars(OnRing(Ring!CloseDone))
  /\ \A r \in Reads :
       WF_parallelVars(OnRing(Ring!Submit(r))) /\ WF_parallelVars(OnRing(Ring!Complete(r)))
  /\ \A o \in Openers : WF_parallelVars(OnStores(Stores!Step(o)))

----------------------------------------------------------------------------
(* The properties of the two modules.                                      *)

\* A read of the ring is answered in one way, by an error or by one call of its
\* callback, and a loop runs only over what was taken (io_uring.go, ReadAtAsync and
\* NewReaderAsync).
OneOutcome == Ring!TypeOK /\ Ring!OneOutcome

\* The loop calls back for every read it took unless it is interrupted first, also
\* while a Close waits (io_uring.go, the goroutine of NewReaderAsync).
ReadsAnswered == Ring!Answered

\* Close closes the event loop (io_uring.go:99).
CloseReturns == Ring!CloseReturns

\* A tree is loaded completely, or exactly one call is past its first node and still
\* loads what is missing; a call fails on a sound file only if it skipped a tree
\* (file.go, the tests of Len(), and btree.go, WalkAndCreateBTree).
OneWalkFills ==
  Stores!TypeOK /\ Stores!OneWalker /\ Stores!Filled /\ Stores!FailureExplained

\* The calls end and leave both stores complete, unless a panic ends the program
\* (file.go, NewFromReaderWithBTrees).
CompleteUnlessPanic == (system = "stores") => Stores!CompleteUnlessPanic

=============================================================================
