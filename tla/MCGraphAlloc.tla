---------------------------- MODULE MCGraphAlloc -----------------------------
(* An instance of GraphAlloc for TLC.                                       *)
EXTENDS GraphAlloc

MCSizes == <<{3}, {3}, {1, 3}, {1}, {3}>>
==============================================================================
