---------------------------- MODULE MCNameToIdMap ----------------------------
(***************************************************************************)
(* Words of 3 bits and three property sets: MAPI, public strings and one   *)
(* more; up to three entries.                                              *)
(***************************************************************************)
EXTENDS Integers

N(id, guid, index) == [string |-> FALSE, id |-> id, guid |-> guid, index |-> index]
S(id, index) == [string |-> TRUE, id |-> id, guid |-> 0, index |-> index]
M(streams, guids, entries) ==
  [ streams |-> streams, guids |-> guids, entries |-> entries,
    strings |-> <<"none", "name", "cut", "title", "cut", "cut", "cut", "cut", "cut", "far">> ]

GUIDs == { <<>>, <<-1, 2>>, <<2, -1, 0>> }

\* An entry without its index.
Pool == { N(3, 1, 0), N(3, 2, 0), N(3, 3, 0), N(3, 4, 0), N(2, 5, 0), S(1, 0), S(3, 0) }
Odd == { N(3, 0, 0), N(3, 6, 0), S(2, 0), N(11, 1, 0), S(0, 0) }

Lists ==
  {<<>>} \cup
  {[n \in 1..3 |-> [e[n] EXCEPT !.index = i[n]]] :
     e \in [1..3 -> Pool], i \in {<<2, 0, 1>>, <<1, 1, 5>>}} \cup
  {<<a, [b EXCEPT !.index = 1]>> : a \in Odd, b \in Pool}

MCMaps ==
  {M(2..4, g, e) : g \in GUIDs, e \in Lists} \cup
  {M(s, <<2>>, <<N(3, 3, 0)>>) : s \in SUBSET (2..4)}

=============================================================================
