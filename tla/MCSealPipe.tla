----------------------------- MODULE MCSealPipe -----------------------------
(* Instance of SealPipe for TLC: bounds are in MCSealPipe.cfg.               *)
EXTENDS SealPipe
=============================================================================
