--------------------------- MODULE MCConcurrency ---------------------------
(***************************************************************************)
(* One read more than the submission queue takes.  Three calls open a file *)
(* whose node b-tree has two levels, with a branch entry that has the      *)
(* identifier of its first leaf entry, and whose block b-tree is one leaf; *)
(* the data of the name-to-ID map is the last block loaded.                *)
(***************************************************************************)
EXTENDS Concurrency

CONSTANTS r1, r2, r3,  \* reads
          o1, o2, o3   \* opens

MCWalkOrder ==
  [ node |-> << [id |-> 33, level |-> 1, ref |-> 0],
                [id |-> 33, level |-> 0, ref |-> 4],
                [id |-> 97, level |-> 0, ref |-> 6] >>,
    block |-> << [id |-> 4, level |-> 0, ref |-> 0],
                 [id |-> 6, level |-> 0, ref |-> 0] >> ]

=============================================================================
