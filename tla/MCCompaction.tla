--------------------------- MODULE MCCompaction ---------------------------
(* Finite instances of Compaction.                                         *)
EXTENDS Compaction, TLC
===========================================================================
