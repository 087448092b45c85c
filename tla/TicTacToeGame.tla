---------------------------- MODULE TicTacToeGame ----------------------------
(***************************************************************************)
(* The rules of the game, whoever keeps the board: the player and the      *)
(* computer mark free cells of an N x N board in turn, the player first;   *)
(* whoever fills a line wins, and a full board without a line is a draw.   *)
(* TicTacToe.tla is shown to keep these rules.                             *)
(***************************************************************************)
EXTENDS Integers

CONSTANTS N   \* the side of the board

VARIABLES board,   \* who marked each cell
          turn,    \* who marks the next one
          outcome  \* "none" until the game is over

Cell == 0..(N * N - 1)
Side == {"player", "computer"}

Row(c) == c \div N
Column(c) == c % N

Line ==
  {{c \in Cell : Row(c) = k} : k \in 0..(N - 1)} \cup
  {{c \in Cell : Column(c) = k} : k \in 0..(N - 1)} \cup
  {{c \in Cell : Row(c) = Column(c)}, {c \in Cell : Row(c) + Column(c) = N - 1}}

Wins(side, b) == \E line \in Line : \A c \in line : b[c] = side

Outcome(b) ==
  IF \E side \in Side : Wins(side, b)
  THEN CHOOSE side \in Side : Wins(side, b)
  ELSE IF \E c \in Cell : b[c] = "free" THEN "none" ELSE "draw"

GInit ==
  /\ board = [c \in Cell |-> "free"]
  /\ turn = "player"
  /\ outcome = "none"

Mark(c) ==
  /\ outcome = "none"
  /\ board[c] = "free"
  /\ board' = [board EXCEPT ![c] = turn]
  /\ outcome' = Outcome(board')
  /\ turn' = CHOOSE side \in Side : side # turn

Game == GInit /\ [][\E c \in Cell : Mark(c)]_<<board, turn, outcome>>

=============================================================================
