------------------------------- MODULE MCSocket -------------------------------
(***************************************************************************)
(* Socket.tla for TLC; the bound on the signals is given in the .cfg.      *)
(***************************************************************************)
EXTENDS Socket

=============================================================================
