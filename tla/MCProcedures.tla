---------------------------- MODULE MCProcedures ----------------------------
(* The four procedures on the heaps, tables, maps and documents of the     *)
(* modules extended; Word and Shift are 3 bits wide, and a block of 12     *)
(* bytes takes two rows.                                                   *)
EXTENDS Procedures, MCHeapItem, MCTableRows, MCNameToIdMap, MCPropertyGenerator

=============================================================================
