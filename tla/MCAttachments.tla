--------------------------- MODULE MCAttachments ---------------------------
(* Attachments of a sound message and of messages damaged in one place.    *)
EXTENDS Attachments

F(flag, table, rows, sound) ==
  [flag |-> flag, table |-> table, rows |-> rows, sound |-> sound]

MCFiles ==
  { F("set", TRUE, <<1, 2>>, {1, 2}),
    F("set", TRUE, <<1, 2, 1>>, {1, 2}),
    F("set", TRUE, <<>>, {}),
    F("set", FALSE, <<1>>, {1}),
    F("set", TRUE, <<1, 0>>, {1}),
    F("set", TRUE, <<2, 1>>, {1}),
    F("clear", TRUE, <<1>>, {1}),
    F("missing", TRUE, <<1>>, {1}) }
=============================================================================
