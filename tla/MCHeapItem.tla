----------------------------- MODULE MCHeapItem -----------------------------
(* Heaps of one to three blocks with up to three items each.               *)
EXTENDS Integers

B(size, map, starts) == [size |-> size, map |-> map, starts |-> starts]
MCHeaps ==
  { << B(30, 10, <<2, 4, 7, 10>>) >>,
    << B(30, 10, <<2, 4, 7, 10>>), B(20, 6, <<2, 3, 6>>) >>,
    << B(24, 12, <<4, 9, 12>>), B(12, 4, <<2, 4>>), B(30, 14, <<2, 2, 8, 14>>) >>,
    << B(8, 6, <<2, 3>>), B(12, 8, <<2, 3>>) >> }

H(type, index, block) == [type |-> type, index |-> index, block |-> block]
MCHNIDs == {H(0, i, b) : i \in 0..4, b \in 0..4} \cup {H(t, 1, 0) : t \in {1, 31}}

D(id, leads) == [id |-> id, node |-> leads]
MCDescriptors ==
  { <<>>, << D(H(1, 1, 0), "sound"), D(H(1, 1, 0), "sound") >>,
    << D(H(31, 1, 0), "unknown"), D(H(1, 1, 0), "sound"), D(H(1, 1, 0), "damaged") >>,
    << D(H(1, 1, 0), "damaged"), D(H(0, 2, 1), "sound") >> }

=============================================================================
