----------------------------- MODULE MCFrostDkg -----------------------------
(* The instance of FrostDkg for TLC; its constants are plain model values. *)
EXTENDS FrostDkg
=============================================================================
