---------------------------- MODULE MCPstOpen ----------------------------
(* PstOpen on a file of eight pages.  The node b-tree has a root of level 2 *)
(* over two branch pages; the first entry of every branch page has the      *)
(* identifier of the leftmost leaf below it, so that 33 is the identifier   *)
(* of a leaf and of two branch entries.  The block b-tree has level 1.  The *)
(* data identifier of 97 has its reserved least significant bit set.        *)
EXTENDS PstOpen, TLC

MCPage == {"n0", "n1", "n2", "n3", "n4", "n5", "b0", "b1", "b2"}
MCRoot == [t \in Trees |-> IF t = "node" THEN "n0" ELSE "b0"]
MCPageLevel ==
  [p \in MCPage |-> CASE p = "n0" -> 2 [] p \in {"n1", "n2", "b0"} -> 1 [] OTHER -> 0]
MCIds ==
  [n0 |-> <<33, 290>>, n1 |-> <<33, 97>>, n2 |-> <<290>>,
   n3 |-> <<33, 40>>, n4 |-> <<97>>, n5 |-> <<290>>,
   b0 |-> <<4, 10>>, b1 |-> <<4, 8>>, b2 |-> <<12>>]
MCChild ==
  [p \in MCPage |-> CASE p = "n0" -> <<"n1", "n2">> [] p = "n1" -> <<"n3", "n4">>
                      [] p = "n2" -> <<"n5">> [] p = "b0" -> <<"b1", "b2">>
                      [] OTHER -> <<>>]
MCSpan ==
  [n0 |-> {33, 40, 97, 98, 290}, n1 |-> {33, 40, 97, 98}, n2 |-> {290},
   n3 |-> {33, 40}, n4 |-> {97, 98}, n5 |-> {290},
   b0 |-> {4, 8, 10, 12}, b1 |-> {4, 8}, b2 |-> {10, 12}]
MCKeys ==
  [n0 |-> {33, 40, 97, 290}, n1 |-> {33, 40, 97}, n2 |-> {290},
   n3 |-> {33, 40}, n4 |-> {97}, n5 |-> {290},
   b0 |-> {4, 8, 12}, b1 |-> {4, 8}, b2 |-> {12}]
MCPayload ==
  [t \in Trees |->
     IF t = "node"
     THEN (33 :> [data |-> 4, local |-> 0] @@ 40 :> [data |-> 16, local |-> 0] @@
           97 :> [data |-> 9, local |-> 12] @@ 290 :> [data |-> 12, local |-> 0])
     ELSE (4 :> "at4" @@ 8 :> "at8" @@ 12 :> "at12")]
MCGarbage ==
  [t \in Trees |-> IF t = "node" THEN [data |-> 4, local |-> 0] ELSE "junk"]

Good == [magic |-> "!BDN", version |-> 23, client |-> "SM", crypt |-> 1]
OneHeader == {Good}
\* Every header a check can refuse, one per check, and one per format.
AllHeaders ==
  {Good, [Good EXCEPT !.version = 14], [Good EXCEPT !.client = "AB"],
   [Good EXCEPT !.magic = "else"], [Good EXCEPT !.version = 20],
   [Good EXCEPT !.client = "else"], [Good EXCEPT !.crypt = 2],
   [Good EXCEPT !.version = 36]}
AllFaults == {"header", "level", "raw", "map"}
RawFaults == {"header", "raw", "map"}
NoFaults == {}
=============================================================================
