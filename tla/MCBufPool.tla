------------------------------ MODULE MCBufPool ------------------------------
(* Instance of BufPool for TLC: capacities for four arrays of the default     *)
(* size and two that are one unit larger.  How callers behave is chosen in    *)
(* the .cfg files.                                                            *)
EXTENDS BufPool, TLC

CONSTANTS w1, w2, r1, a1, a2, a3, a4, b1, b2

MCDefault == {a1, a2, a3, a4}
MCLarge == {b1, b2}
MCCapOf == [a \in MCDefault \cup MCLarge |-> IF a \in MCLarge THEN PoolCap + 1 ELSE PoolCap]

MCSymmetry ==
  Permutations({w1, w2}) \cup Permutations(MCDefault) \cup Permutations(MCLarge)
=============================================================================
