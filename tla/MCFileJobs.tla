------------------------------ MODULE MCFileJobs ------------------------------
(* Instance of FileJobs for TLC, in which every read and write may fail.  Two  *)
(* encryptions, of the command line and of the library, write the path that a *)
(* decryption reads; or one does, and two decryptions read it, one with an    *)
(* identity that does not match; or an encryption and a decryption each have  *)
(* one path for both files, while a decryption reads the first.  The first    *)
(* input and the common path may be missing at first.                         *)
EXTENDS FileJobs

CONSTANTS e1, e2, e3, d1, d2, d3, d4

MCOldPlain == <<Plain(3)>>

MCJob ==
  (e1 :> [api |-> "cli", op |-> "encrypt", in |-> "a", out |-> "b", match |-> TRUE])
  @@ (e2 :> [api |-> "lib", op |-> "encrypt", in |-> "x", out |-> "b", match |-> TRUE])
  @@ (d1 :> [api |-> "lib", op |-> "decrypt", in |-> "b", out |-> "c", match |-> TRUE])
  @@ (e3 :> [api |-> "lib", op |-> "encrypt", in |-> "y", out |-> "y", match |-> TRUE])
  @@ (d3 :> [api |-> "cli", op |-> "decrypt", in |-> "y", out |-> "v", match |-> TRUE])
  @@ (d4 :> [api |-> "cli", op |-> "decrypt", in |-> "w", out |-> "w", match |-> TRUE])
  @@ (d2 :> [api |-> "cli", op |-> "decrypt", in |-> "b", out |-> "z", match |-> FALSE])

MCPlans == {{e1, e2, d1}, {e1, d1, d2}, {e3, d3, d4}}

MCSealed == <<HeaderOf(Old), Seal(Old, 0, Plain(3)), Marker(Old, 1)>>

MCFiles ==
  [a |-> <<Plain(1), Plain(2)>>, b |-> MCSealed, c |-> <<Plain(9)>>, v |-> <<Plain(9)>>,
   w |-> MCSealed, x |-> <<Plain(4)>>, y |-> <<Plain(5), Plain(6), Plain(7), Plain(8)>>,
   z |-> <<Plain(9)>>]

MCMissing == {"a", "b"}
=============================================================================
