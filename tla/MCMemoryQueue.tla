---------------------------- MODULE MCMemoryQueue ----------------------------
(* MemoryQueue for TLC: the ids are alike, and so are the slots of the       *)
(* loops.  That Init chooses one of each for the jobs not sent and for the   *)
(* timer not set makes no difference: neither is looked at.                  *)
EXTENDS MemoryQueue, TLC

Symmetry == Permutations(Ids) \cup Permutations(Loops)
=============================================================================
