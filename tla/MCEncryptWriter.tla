--------------------------- MODULE MCEncryptWriter ---------------------------
(* Instance of EncryptWriter for TLC: bounds are in MCEncryptWriter.cfg.     *)
EXTENDS EncryptWriter
=============================================================================
