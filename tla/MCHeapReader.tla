--------------------------- MODULE MCHeapReader ---------------------------
(* Readers over up to three blocks of up to three bytes, empty ones included. *)
EXTENDS HeapReader
MCBlockLists == UNION {[1..n -> 0..3] : n \in 0..3}
=============================================================================
