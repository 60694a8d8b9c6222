----------------------------- MODULE MCGuestDump -----------------------------
(***************************************************************************)
(* GuestDump with three groups of two pages: a group of each kind in front *)
(* of, between and behind the others.                                      *)
(***************************************************************************)
EXTENDS GuestDump

Entries(a, b, c) == [g \in Groups |-> <<a, b, c>>[g + 1]]

MCTables ==
  {[upper |-> Entries("table", "huge", "table"), present |-> {1, 4, 5}],
   [upper |-> Entries("none", "table", "table"), present |-> {2, 3, 4}],
   [upper |-> Entries("huge", "none", "table"), present |-> {5}]}
=============================================================================
