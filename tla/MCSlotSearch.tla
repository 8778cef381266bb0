---------------------------- MODULE MCSlotSearch -----------------------------
(* Small instance of SlotSearch for TLC; the constants are in the .cfg file. *)
EXTENDS SlotSearch
==============================================================================
