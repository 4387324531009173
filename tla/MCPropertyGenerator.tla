------------------------- MODULE MCPropertyGenerator -------------------------
(***************************************************************************)
(* Documents of up to three properties, and four texts that a failed copy  *)
(* may leave.  The largest identifier of 32 bits is the largest integer    *)
(* that TLC has.                                                           *)
(***************************************************************************)
EXTENDS Integers, SequencesExt

L(kind) == [kind |-> kind, word |-> "", prefix |-> "", digits |-> <<>>, types |-> <<>>]
Worded(kind, w) == [L(kind) EXCEPT !.word = w]
NameLine(prefix, w) == [L("name") EXCEPT !.word = w, !.prefix = prefix]
Id(digits) == [L("id") EXCEPT !.digits = digits]
Types(ts) == [L("types") EXCEPT !.types = ts]

Begin == <<L("other"), Worded("area", "Email"), L("structures")>>
End == <<L("examples"), NameLine("Tag", "after")>>

P(prefix, w, id, types, area) == <<NameLine(prefix, w), Id(id), Types(types), Worded("area", area)>>
Named(w, types, area) ==
  <<NameLine("Name", w), Worded("set", "guid"), Types(types), Worded("area", area)>>

\* Tag identifiers 0x0E and 0x37, LID 0x8B; type 258 is of variable size.
A1 == P("Tag", "A1", <<0, 14>>, <<31, 30>>, "Email")
A2 == P("Tag", "A2", <<3, 7>>, <<258>>, "Archive")
A3 == Named("A3", <<11>>, "Email")
A4 == P("Lid", "A4", <<8, 11>>, <<3>>, "Tasks")
A6 == P("Tag", "A6", <<5>>, <<3>>, "Unheard")

Bad ==
  { <<NameLine("Tag", "B1"), Types(<<3>>), Worded("area", "Email")>>,
    P("Tag", "B2", <<1, 16>>, <<3>>, "Email"),
    P("Tag", "B3", <<1, 0, 0, 0, 0>>, <<3>>, "Email"),
    P("Name", "B4", <<1>>, <<3>>, "Email"),
    P("Tag", "B5", <<1>>, <<>>, "Email"),
    P("Tag", "B6", <<1>>, <<0>>, "Email"),
    <<NameLine("Tag", "B7"), Id(<<1>>), Worded("set", ""), Types(<<3>>)>>,
    <<NameLine("Tag", "B8"), Id(<<1>>), Types(<<3>>)>> }

Doc(parts, end) == [lines |-> Begin \o FlattenSeq(parts) \o end, found |-> TRUE]

Good == {A1, A2, A3, A4, A6}

MCDocuments ==
  { Doc(<<x, y>>, End) : x \in Good, y \in Good \cup Bad }
    \cup { Doc(<<A1, A2, A4>>, <<>>), Doc(<<A1, A2, A1>>, End), Doc(<<A3, A4, A2>>, <<>>),
           Doc(<<<<Types(<<3>>)>>, A1, <<L("structures")>>, A2>>, End), Doc(<<>>, End),
           [Doc(<<A1>>, End) EXCEPT !.found = FALSE] }

\* Other texts: one with a property of its own, one that is not valid, an empty one.
MCDamaged == {Begin \o A6 \o End, Begin \o A4 \o A1, Begin, <<>>}

MCMessageOf ==
  [a \in {"Email", "Archive", "Tasks"} |-> IF a = "Tasks" THEN "Task" ELSE "Message"]
MCSteps ==
  {"get", "save", "open", "shut", "copy", "entry", "read", "mkdir", "create", "write",
   "close", "list", "remove"}
MCFailures == {s \in SUBSET MCSteps : Cardinality(s) <= 2}
MCMaxIds == [p \in {"Lid", "Tag"} |-> IF p = "Lid" THEN 2147483647 ELSE 65535]

=============================================================================
