----------------------------- MODULE MCVPagePool -----------------------------
(* Small instances of VPagePool for TLC; the constants are in the .cfg       *)
(* files.                                                                   *)
EXTENDS VPagePool
==============================================================================
