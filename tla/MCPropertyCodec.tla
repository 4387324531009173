--------------------------- MODULE MCPropertyCodec ---------------------------
(***************************************************************************)
(* Contexts of up to three of these records: inline, strings of both       *)
(* kinds, a time, one of a type that is not written, the message class.    *)
(***************************************************************************)
EXTENDS PropertyCodec

R(id, type, value, item) == [id |-> id, type |-> type, value |-> value, item |-> item]
C(records) ==
  [table |-> TRUE, keySize |-> 2, valueSize |-> 6, levels |-> 0, records |-> records,
   size |-> 8 * Len(records), root |-> records]

Pool ==
  { R(3, 3, "a", "sound"), R(33, 11, "true", "none"), R(3, 31, "b", "sound"),
    R(3, 31, "", "none"), R(4, 30, "c", "lost"), R(5, 258, "d", "sound"), R(6, 258, "d", "lost"),
    R(4, 31, "g", "sound"), R(5, 64, "e", "sound"), R(9, 2, "f", "sound"),
    R(26, 31, "IPM.Task", "sound"), R(26, 31, "IPM.Task", "lost"), R(26, 30, "IPM.Task", "sound") }

Built ==
  {c \in {C(r) : r \in UNION {[1..n -> Pool] : n \in 0..3}} : Keyed(c)}

Odd ==
  LET r == <<R(3, 3, "a", "sound"), R(5, 64, "e", "sound")>>
  IN  { [C(r) EXCEPT !.table = FALSE], [C(r) EXCEPT !.valueSize = 2],
        [C(r) EXCEPT !.keySize = 250], [C(r) EXCEPT !.valueSize = 14],
        [C(<<R(7, 20, "small", "sound")>> \o r) EXCEPT !.keySize = 2],
        C(<<R(7, 20, "small", "sound")>> \o r),
        C(<<r[1], R(7, 20, "small", "sound"), r[2]>>),
        C(r \o <<R(7, 20, "small", "sound")>>), C(r \o <<R(7, 20, "large", "sound")>>) }

\* Index records of 6 bytes, read as records of 8: what they give depends on the
\* bytes of keys and identifiers, an identifier twice among them.
Misread == {R(3, 3, "a", "none"), R(3, 31, "b", "sound"), R(1, 0, "", "lost"), R(0, 0, "", "none")}

Indexed ==
  UNION { {[C(<<R(3, 3, "c", "sound"), R(5, 64, "e", "sound")>>) EXCEPT
              !.levels = 1, !.size = 6 * n, !.root = root] : root \in [1..((6 * n) \div 8) -> Misread]} :
            n \in 1..4 }

MCValues == {"", "0", "a", "b", "c", "d", "e", "f", "g", "true", "small", "large", "IPM.Task"}
MCContexts == Built \cup Odd \cup Indexed

F(id, type) == [id |-> id, type |-> type]

Declared ==
  [f \in {F(3, 3), F(3, 31), F(4, 30), F(33, 11), F(5, 64), F(7, 20), F(262600, 72)} |->
     CASE f.type \in {30, 31} -> "string" [] f.type = 11 -> "bool" [] f.type = 20 -> "float"
       [] OTHER -> "int"]

MCStructs ==
  [s \in StructTypes |->
     CASE s = "Message" -> Declared
       [] s = "Task"    -> [f \in {F(9, 2)} |-> "int"]
       [] OTHER         -> [f \in {} |-> "int"]]
=============================================================================
