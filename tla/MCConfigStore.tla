---------------------------- MODULE MCConfigStore ----------------------------
(* Instance of ConfigStore for TLC: a valid configuration that is given      *)
(* without a version, and one that Save takes and Load refuses.              *)
EXTENDS ConfigStore, TLC

CONSTANTS p1, p2, f1, f2, f3, f4

MCUnversioned == [version |-> 0, memory |-> 131072, time |-> 3, threads |-> 2]
MCWeak == [version |-> 1, memory |-> 65536, time |-> 3, threads |-> 2]

MCParams == {MCUnversioned, MCWeak}

MCSymmetry == Permutations({p1, p2}) \cup Permutations({f1, f2, f3, f4})
=============================================================================
