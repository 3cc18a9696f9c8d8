----------------------------- MODULE MCCLibrary -----------------------------
(* Instance of CLibrary for TLC.  Blocks are interchangeable, and so are the *)
(* threads.                                                                  *)
EXTENDS CLibrary, TLC

CONSTANTS b1, b2, b3, b4, t1, t2, r1, r2, k1

Symmetry == 
  Permutations(Blocks) \cup Permutations(Threads) \cup Permutations(Results)
=============================================================================
