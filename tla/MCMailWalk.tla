---------------------------- MODULE MCMailWalk ----------------------------
(* MailWalk on a tree of folders three deep.                               *)
EXTENDS MailWalk, TLC

CONSTANTS f1, f2, f3, f4, f5, f6, m1, m2, m3

MCFolder == {f1, f2, f3, f4, f5, f6}
MCMessage == {m1, m2, m3}

\* f1 is the root; f6 is listed below f5, which says it has no sub-folders, and
\* f4 is a search folder.
MCSubFolders ==
  f1 :> <<f2, f5>> @@ f2 :> <<f3, f4>> @@ f3 :> <<>> @@ f4 :> <<>> @@
  f5 :> <<f6>> @@ f6 :> <<>>
MCHasSubFolders == {f1, f2, f3}
MCMessageCount ==
  f1 :> 0 @@ f2 :> 0 @@ f3 :> 2 @@ f4 :> 1 @@ f5 :> 3 @@ f6 :> 1
MCSearchFolder == {f4}
MCRows ==
  f1 :> <<>> @@ f2 :> <<>> @@ f3 :> << <<m1>>, <<m2>> >> @@ f4 :> <<>> @@
  f5 :> << <<m3>>, <<>>, <<m1, m2>> >> @@ f6 :> << <<m1>> >>

\* Whatever can be damaged is, in some file.
MCFiles ==
  [readable : SUBSET MCMessage, folderRows : SUBSET MCHasSubFolders,
   messageRows : SUBSET {f3, f5}]
Undamaged ==
  {[readable |-> MCMessage, folderRows |-> MCFolder, messageRows |-> MCFolder]}

RECURSIVE RestOf(_, _)
RestOf(f, i) ==
  IF i = Len(Listed(f)) THEN <<>>
  ELSE LET c == Listed(f)[i + 1] IN <<c>> \o RestOf(c, 0) \o RestOf(f, i + 1)
MCRest == [f \in MCFolder |-> [i \in 0..Len(Listed(f)) |-> RestOf(f, i)]]
MCWalk == [f \in MCFolder |-> <<f>> \o RestOf(f, 0)]
=============================================================================
