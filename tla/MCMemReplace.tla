---------------------------- MODULE MCMemReplace ----------------------------
(***************************************************************************)
(* MemReplace.tla for TLC; the constants are numbers, given in the .cfg.   *)
(***************************************************************************)
EXTENDS MemReplace

=============================================================================
