---------------------------- MODULE AsyncReader ----------------------------
(***************************************************************************)
(* The io_uring reader (io_uring.go) and the reader a File makes of it     *)
(* (file.go, DefaultReader).                                               *)
(*                                                                         *)
(* NewReaderAsync opens the file, a ring and a reactor and starts the      *)
(* event loop in a goroutine of its own.  Its caller either reads through  *)
(* the ring and closes the reader, or is NewAsync, which hands the reader  *)
(* to New: New wraps it twice in a DefaultReader, so the walk of the       *)
(* b-trees, the one place that asks for an asynchronous read, ends in a    *)
(* blocking ReadAt that calls back before it returns.                      *)
(*                                                                         *)
(* The ring and the reactor are external (go-uring): Queue takes an entry  *)
(* while the submission queue has room, the loop submits the entries, the  *)
(* kernel completes them in any order and the loop calls back, until the   *)
(* context ends.  An interrupt (os.Interrupt) ends the context.            *)
(***************************************************************************)
EXTENDS Integers, FiniteSets

CONSTANTS Reads,        \* the reads there may be
          QueueSlots    \* the entries of the submission queue, 8 in the code

SlotsAssumption == QueueSlots \in Nat \ {0}

VARIABLES opening,      \* the step NewReaderAsync or NewAsync is at
          held,         \* the resources of the system it has taken
          interrupted,  \* the context of the event loop has ended
          loop,         \* the goroutine of the event loop
          request,      \* per read, how it was made and what came of it
          closing       \* Close: "no", "waiting" or "closed"

vars == <<opening, held, interrupted, loop, request, closing>>

Ends == {"reader", "file", "error"}
Idle == [at |-> "idle", via |-> "none", calls |-> 0, error |-> FALSE]

Init ==
  /\ opening = "open"
  /\ held = {}
  /\ interrupted = FALSE
  /\ loop = "none"
  /\ request = [r \in Reads |-> Idle]
  /\ closing = "no"

----------------------------------------------------------------------------
\* Opening

\* A step of NewReaderAsync: it takes its resource and goes on, or returns
\* the error and keeps what the steps before it have taken.
Acquire(from, resource, to) ==
  /\ opening = from
  /\ \/ held' = held \cup {resource} /\ opening' = to
     \/ opening' = "error" /\ UNCHANGED held
  /\ UNCHANGED <<interrupted, loop, request, closing>>

OpenFile == Acquire("open", "file", "ring")
NewRing == Acquire("ring", "ring", "reactor")
NewReactor == Acquire("reactor", "reactor", "start")

\* Seeded fault: the reader is returned and its loop never run.
NoEventLoop ==
  /\ opening = "start"
  /\ opening' = "reader"
  /\ UNCHANGED <<held, interrupted, loop, request, closing>>

\* signal.NotifyContext and go eventLoop.Run: the reader is returned.
StartEventLoop ==
  /\ opening = "start"
  /\ loop' = "running"
  /\ opening' = "reader"
  /\ UNCHANGED <<held, interrupted, request, closing>>

\* NewAsync gives the reader to New, which reads the headers and walks.
NewAsync ==
  /\ opening = "reader" /\ closing = "no"
  /\ \A r \in Reads : request[r] = Idle
  /\ opening' = "walk"
  /\ UNCHANGED <<held, interrupted, loop, request, closing>>

\* A page of the walk: DefaultReader.ReadAtAsync reads through both wrappers,
\* calls back with the outcome and returns it.  On an error
\* GetBTreeNodeRawEntries calls back once more.
ReadPage(r) ==
  /\ opening = "walk" /\ request[r] = Idle
  /\ \E failed \in BOOLEAN :
       request' = [request EXCEPT ![r] =
         [at |-> "ended", via |-> "blocking",
          calls |-> IF failed THEN 2 ELSE 1, error |-> failed]]
  /\ UNCHANGED <<opening, held, interrupted, loop, closing>>

EndWalk ==
  /\ opening = "walk"
  /\ opening' \in {"file", "error"}
  /\ UNCHANGED <<held, interrupted, loop, request, closing>>

----------------------------------------------------------------------------
\* Reading through the ring

\* Only the caller of NewReaderAsync has the reader.
Owned == opening = "reader"
Waiting == {r \in Reads : request[r].at = "queued"}

\* Reactor.Queue refuses an entry when the submission queue is full.
Queued(r) == Cardinality(Waiting) < QueueSlots

\* Seeded fault: a refused read calls back as well, as the fall-back does.
ReadAtAsyncCalling(r) ==
  /\ Owned /\ closing # "closed" /\ request[r] = Idle
  /\ request' = [request EXCEPT ![r] =
       IF Queued(r) THEN [Idle EXCEPT !.at = "queued", !.via = "ring"]
       ELSE [at |-> "ended", via |-> "ring", calls |-> 1, error |-> TRUE]]
  /\ UNCHANGED <<opening, held, interrupted, loop, closing>>

\* ReadAtAsync: the entry is queued with the callback, or the error returned.
ReadAtAsync(r) ==
  /\ Owned /\ closing # "closed" /\ request[r] = Idle
  /\ request' = [request EXCEPT ![r] =
       IF Queued(r) THEN [Idle EXCEPT !.at = "queued", !.via = "ring"]
       ELSE [at |-> "ended", via |-> "ring", calls |-> 0, error |-> TRUE]]
  /\ UNCHANGED <<opening, held, interrupted, loop, closing>>

\* The event loop submits an entry.
Submit(r) ==
  /\ loop = "running" /\ request[r].at = "queued"
  /\ request' = [request EXCEPT ![r].at = "submitted"]
  /\ UNCHANGED <<opening, held, interrupted, loop, closing>>

\* It is completed, in any order, and called back with event.Error().
Complete(r) ==
  /\ loop = "running" /\ request[r].at = "submitted"
  /\ request' = [request EXCEPT ![r].at = "ended", ![r].calls = @ + 1]
  /\ UNCHANGED <<opening, held, interrupted, loop, closing>>

\* Run returns at some point after the end of its context.
EndEventLoop ==
  /\ loop = "running" /\ interrupted
  /\ loop' = "ended"
  /\ UNCHANGED <<opening, held, interrupted, request, closing>>

----------------------------------------------------------------------------
\* Interrupt and Close

\* NotifyContext: the signal ends the context.
Interrupt ==
  /\ opening \in Ends \cup {"walk"} /\ loop = "running" /\ ~ interrupted
  /\ interrupted' = TRUE
  /\ UNCHANGED <<opening, held, loop, request, closing>>

Close ==
  /\ Owned /\ closing = "no"
  /\ closing' = "waiting"
  /\ UNCHANGED <<opening, held, interrupted, loop, request>>

\* <-eventLoopContext.Done(), then eventLoopCancel().
CloseDone ==
  /\ closing = "waiting" /\ interrupted
  /\ closing' = "closed"
  /\ UNCHANGED <<opening, held, interrupted, loop, request>>

Opening ==
  OpenFile \/ NewRing \/ NewReactor \/ StartEventLoop \/ EndWalk

Next ==
  \/ Opening \/ NewAsync
  \/ \E r \in Reads :
       ReadPage(r) \/ ReadAtAsync(r) \/ Submit(r) \/ Complete(r)
  \/ EndEventLoop \/ Interrupt \/ Close \/ CloseDone

\* The loop and the kernel go on, a call that can return does; nobody is
\* obliged to read, to close or to interrupt.
Spec ==
  /\ Init /\ [][Next]_vars
  /\ WF_vars(Opening) /\ WF_vars(EndEventLoop) /\ WF_vars(CloseDone)
  /\ \A r \in Reads : WF_vars(Submit(r)) /\ WF_vars(Complete(r))

----------------------------------------------------------------------------
\* Properties

\* The shape of the state; a loop runs only over a ring and a reactor that
\* were taken (io_uring.go, NewReaderAsync).
TypeOK ==
  /\ opening \in Ends \cup {"open", "ring", "reactor", "start", "walk"}
  /\ held \in SUBSET {"file", "ring", "reactor"}
  /\ interrupted \in BOOLEAN
  /\ loop \in {"none", "running", "ended"}
  /\ request \in [Reads -> [at : {"idle", "queued", "submitted", "ended"},
                            via : {"none", "ring", "blocking"},
                            calls : 0 .. 2, error : BOOLEAN]]
  /\ closing \in {"no", "waiting", "closed"}
  /\ loop # "none" => held = {"file", "ring", "reactor"}

\* A read of the ring is answered in one way: by the error ReadAtAsync
\* returns or by one call of its callback (io_uring.go, ReadAtAsync); the
\* buffer of a refused read belongs to the caller again.
OneOutcome ==
  \A r \in Reads : LET q == request[r] IN
    q.via = "ring" =>
      /\ q.at = "ended" => q.calls = (IF q.error THEN 0 ELSE 1)
      /\ q.at # "ended" => q.calls = 0

\* The loop calls back for every read it took, unless its context ends
\* first (io_uring.go, the goroutine of NewReaderAsync).
Answered ==
  \A r \in Reads :
    (request[r].at = "queued") ~> (request[r].at = "ended" \/ interrupted)

\* "Close closes the event loop" (io_uring.go:99): a Close that was called ends the
\* context of the loop, and returns.
CloseReturns == (closing = "waiting") ~> (closing = "closed")

============================================================================
