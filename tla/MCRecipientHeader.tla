-------------------------- MODULE MCRecipientHeader --------------------------
(* Instance of RecipientHeader for TLC: two key pairs and a weak one, a       *)
(* count byte that holds 2, chunk sizes of up to 2.                           *)
EXTENDS RecipientHeader

CONSTANTS a, b, weak

MCChunkArgs == {-1, 1, 2, 3}
=============================================================================
