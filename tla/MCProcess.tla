------------------------------ MODULE MCProcess ------------------------------
(***************************************************************************)
(* Process.tla for TLC: the constants are numbers and given in the .cfg.   *)
(***************************************************************************)
EXTENDS Process

=============================================================================
