------------------------------ MODULE MCTicTacToe ------------------------------
(***************************************************************************)
(* TicTacToe.tla for TLC, on the 3 x 3 grid; the depth does not change the *)
(* moves, and is kept small.                                               *)
(***************************************************************************)
EXTENDS TicTacToe

=============================================================================
