------------------------------ MODULE TicTacToe ------------------------------
(***************************************************************************)
(* The game of lab02 and its pipes of lab03: a game manager that keeps the *)
(* grid and plays for the computer, and the process it forks, which reads  *)
(* the moves of the user.  They share nothing but two pipes; each command  *)
(* is written and read whole (CMD_SIZE bytes), and a pipe never reports    *)
(* its end, because both processes keep both ends of it.                   *)
(*                                                                         *)
(* tictactoe.h and the pipes of the kernel are outside the repository.     *)
(* parse_line() takes the nine numbers 1 to 9, whatever the grid.          *)
(***************************************************************************)
EXTENDS Integers, Sequences, FiniteSetsExt

CONSTANTS N,         \* GRID_WIDTH = GRID_HEIGHT, tested at the start of main()
          MaxDepth   \* MAX_DEPTH, how far the computer looks ahead

ASSUME GridAssumption == N \in Nat \ {0}
ASSUME DepthAssumption == MaxDepth \in Nat \ {0}

VARIABLES
  gmPc,       \* where the game manager is
  playerPc,   \* where the process of the player is
  grid,       \* game.grid
  turn,       \* player, in game_manager(): whose turn it is
  toPlayer,   \* pipe2: commands to the player
  toGm,       \* pipe1: moves to the game manager
  sent,       \* the result the game manager has sent, the last if several
  told        \* the command that ended the process of the player

vars == <<gmPc, playerPc, grid, turn, toPlayer, toGm, sent, told>>

EMPTY_ID == 0
PLAYER_ID == 1
AI_ID == -1

Index == 0..(N - 1)
Cell == 0..(N * N - 1)
Side == {PLAYER_ID, AI_ID}
Grid == [Cell -> Side \cup {EMPTY_ID}]

Result == {"YOU_WIN", "YOU_LOSE", "NO_WINNER"}
Cmd == Result \cup {"GAME_START", "YOU_CAN_PLAY", "MOVE_REJECTED", "GAME_END"}

TypeOK ==
  /\ gmPc \in {"init", "fork", "start", "turn", "get", "end", "wait", "done"}
  /\ playerPc \in {"none", "exec", "loop", "input", "done"}
  /\ grid \in Grid
  /\ turn \in Side
  /\ toPlayer \in Seq(Cmd)
  /\ toGm \in Seq(0..8)
  /\ sent \in Result \cup {"none"}
  /\ told \in Result \cup {"none", "GAME_END"}

Init ==
  /\ gmPc = "init"
  /\ playerPc = "none"
  /\ grid = [c \in Cell |-> EMPTY_ID]
  /\ turn = PLAYER_ID
  /\ toPlayer = <<>> /\ toGm = <<>>
  /\ sent = "none" /\ told = "none"

-----------------------------------------------------------------------------
(* Who has won, by sums of a line *)

Rows == {{i * N + j : j \in Index} : i \in Index}
Columns == {{N * j + i : j \in Index} : i \in Index}

\* Mutant: the second diagonal starts at cell 0.
FirstCellTwice == {{(N + 1) * i : i \in Index}, {(N - 1) * i : i \in Index}}

Diagonals == {{(N + 1) * i : i \in Index}, {(N - 1) * (i + 1) : i \in Index}}

win(g) ==
  LET sum(line) == MapThenSumSet(LAMBDA c : g[c], line)
  IN IF \E line \in Rows \cup Columns \cup Diagonals :
          sum(line) \in {AI_ID * N, PLAYER_ID * N}
     THEN "STATE_WIN"
     ELSE IF \E c \in Cell : g[c] = EMPTY_ID THEN "STATE_PROGRESS"
     ELSE "STATE_DRAW"

-----------------------------------------------------------------------------
(* The move of the computer *)

Free(g) == {c \in Cell : g[c] = EMPTY_ID}

\* minmax[depth][g][player]: it looks at no line, so that the only score at
\* the bottom is 0; the search stops at the first cell that scores more.
minmax[depth \in 0..MaxDepth] ==
  [g \in Grid |-> [player \in Side |->
     LET score(c) == -minmax[depth - 1][[g EXCEPT ![c] = player]][-player]
         good == {c \in Free(g) : score(c) > 0}
     IN IF depth = 0 \/ Free(g) = {} THEN 0
        ELSE IF good # {} THEN score(Min(good))
        ELSE Max({score(c) : c \in Free(g)})]]

\* The first of the best free cells; 0 when there is none.
computers_turn(g) ==
  LET score(c) == -minmax[MaxDepth - 1][[g EXCEPT ![c] = AI_ID]][AI_ID]
      best == {c \in Free(g) : \A d \in Free(g) : score(d) <= score(c)}
  IN IF best = {} THEN 0 ELSE Min(best) + 1

-----------------------------------------------------------------------------
(* The pipes: read_cmd() blocks on an empty one *)

gm_send_cmd(cmd) == toPlayer' = Append(toPlayer, cmd)

gm_get_cmd(move) ==
  /\ toGm # <<>>
  /\ move = Head(toGm)
  /\ toGm' = Tail(toGm)

player_send_cmd(move) == toGm' = Append(toGm, move)

player_get_cmd(cmd) ==
  /\ toPlayer # <<>>
  /\ cmd = Head(toPlayer)
  /\ toPlayer' = Tail(toPlayer)

-----------------------------------------------------------------------------
(* The game manager *)

\* ipc_init()
IpcInit ==
  /\ gmPc = "init"
  /\ gmPc' = "fork"
  /\ UNCHANGED <<playerPc, grid, turn, toPlayer, toGm, sent, told>>

\* pipe() fails: exit(-1).
IpcError ==
  /\ gmPc = "init"
  /\ gmPc' = "done"
  /\ UNCHANGED <<playerPc, grid, turn, toPlayer, toGm, sent, told>>

Fork ==
  /\ gmPc = "fork"
  /\ gmPc' = "start"
  /\ playerPc' = "exec"
  /\ UNCHANGED <<grid, turn, toPlayer, toGm, sent, told>>

\* The result -1 is taken for a child: the game starts without a player.
ForkFails ==
  /\ gmPc = "fork"
  /\ gmPc' = "start"
  /\ UNCHANGED <<playerPc, grid, turn, toPlayer, toGm, sent, told>>

GameStart ==
  /\ gmPc = "start"
  /\ gm_send_cmd("GAME_START")
  /\ gmPc' = "turn"
  /\ UNCHANGED <<playerPc, grid, turn, toGm, sent, told>>

\* get_player_move(), up to the first read.
AskMove ==
  /\ gmPc = "turn"
  /\ turn = PLAYER_ID
  /\ gm_send_cmd("YOU_CAN_PLAY")
  /\ gmPc' = "get"
  /\ UNCHANGED <<playerPc, grid, turn, toGm, sent, told>>

\* Mutant: the result is sent after player has changed hands.
ResultOfNext(state, id) ==
  IF state = "STATE_DRAW" THEN "NO_WINNER"
  ELSE IF id = AI_ID THEN "YOU_WIN" ELSE "YOU_LOSE"

ResultOf(state, id) ==
  IF state = "STATE_DRAW" THEN "NO_WINNER"
  ELSE IF id = PLAYER_ID THEN "YOU_WIN" ELSE "YOU_LOSE"

\* Mutant: only a draw sets game.over.
OverOnDraw(state) == state = "STATE_DRAW"

\* game.over
Over(state) == state # "STATE_PROGRESS"

\* A move is written on the grid, check_game_state() sends the result if there
\* is one, and the turn passes.
Apply(move) ==
  /\ grid' = [grid EXCEPT ![move] = turn]
  /\ LET state == win(grid')
         result == ResultOf(state, turn)
     IN /\ IF state = "STATE_PROGRESS" THEN UNCHANGED <<toPlayer, sent>>
           ELSE gm_send_cmd(result) /\ sent' = result
        /\ gmPc' = IF Over(state) THEN "end" ELSE "turn"
  /\ turn' = -turn
  /\ UNCHANGED <<playerPc, told>>

Legal(move) == move \in Cell /\ grid[move] = EMPTY_ID

\* One turn of the loop of get_player_move().
GetMove ==
  /\ gmPc = "get"
  /\ \E move \in 0..8 :
       /\ gm_get_cmd(move)
       /\ IF Legal(move) THEN Apply(move)
          ELSE /\ gm_send_cmd("MOVE_REJECTED")
               /\ UNCHANGED <<gmPc, playerPc, grid, turn, sent, told>>

ComputersTurn ==
  /\ gmPc = "turn"
  /\ turn = AI_ID
  /\ Apply(computers_turn(grid) - 1)
  /\ UNCHANGED toGm

GameEnd ==
  /\ gmPc = "end"
  /\ gm_send_cmd("GAME_END")
  /\ gmPc' = "wait"
  /\ UNCHANGED <<playerPc, grid, turn, toGm, sent, told>>

\* waitpid(), ipc_close() and the end of main().
Waitpid ==
  /\ gmPc = "wait"
  /\ playerPc = "done"
  /\ gmPc' = "done"
  /\ UNCHANGED <<playerPc, grid, turn, toPlayer, toGm, sent, told>>

-----------------------------------------------------------------------------
(* The player *)

Exec ==
  /\ playerPc = "exec"
  /\ playerPc' = "loop"
  /\ UNCHANGED <<gmPc, grid, turn, toPlayer, toGm, sent, told>>

\* execl() returns: the child closes the pipes and ends.
ExecFails ==
  /\ playerPc = "exec"
  /\ playerPc' = "done"
  /\ UNCHANGED <<gmPc, grid, turn, toPlayer, toGm, sent, told>>

\* Mutant: a rejected move is not asked for again.
AsksFirst(cmd) == cmd = "YOU_CAN_PLAY"

\* The commands that make the player ask the user for a move.
AsksMove(cmd) == cmd \in {"YOU_CAN_PLAY", "MOVE_REJECTED"}

\* The commands that set game_over.
Ends(cmd) == cmd \in Result \cup {"GAME_END"}

GetCmd ==
  /\ playerPc = "loop"
  /\ \E cmd \in Cmd :
       /\ player_get_cmd(cmd)
       /\ playerPc' = IF AsksMove(cmd) THEN "input"
                      ELSE IF Ends(cmd) THEN "done" ELSE "loop"
       /\ told' = IF Ends(cmd) THEN cmd ELSE told
  /\ UNCHANGED <<gmPc, grid, turn, toGm, sent>>

\* Mutant: the number is not turned into an index.
SameNumber(number) == number

\* parse_line(): (*index)--
IndexOf(number) == number - 1

\* get_input_move() asks until the user types a number from 1 to 9.
InputMove(number) ==
  /\ playerPc = "input"
  /\ player_send_cmd(IndexOf(number))
  /\ playerPc' = "loop"
  /\ UNCHANGED <<gmPc, grid, turn, toPlayer, sent, told>>

-----------------------------------------------------------------------------

GmStep ==
  \/ IpcInit \/ IpcError \/ Fork \/ ForkFails \/ GameStart \/ AskMove
  \/ GetMove \/ ComputersTurn \/ GameEnd \/ Waitpid

PlayerStep == Exec \/ ExecFails \/ GetCmd

Next ==
  \/ GmStep
  \/ PlayerStep
  \/ \E number \in 1..9 : InputMove(number)

\* The system schedules both processes; the user need not type anything.
Spec == Init /\ [][Next]_vars /\ WF_vars(GmStep) /\ WF_vars(PlayerStep)

-----------------------------------------------------------------------------
(* Properties *)

Board == [c \in Cell |-> CASE grid[c] = PLAYER_ID -> "player"
                          [] grid[c] = AI_ID -> "computer"
                          [] grid[c] = EMPTY_ID -> "free"]

\* The rules, with what the grid and the result sent stand for.
Game == INSTANCE TicTacToeGame WITH
  board <- Board,
  turn <- IF turn = PLAYER_ID THEN "player" ELSE "computer",
  outcome <- CASE sent = "YOU_WIN" -> "player"
               [] sent = "YOU_LOSE" -> "computer"
               [] sent = "NO_WINNER" -> "draw"
               [] sent = "none" -> "none"

\* The game manager keeps the rules: turns alternate, a cell is marked once,
\* and the result it sends, with the sums of win(), is that of the full line.
ImplementsGame == Game!Game

\* Whatever the order of the commands in the pipes, the player learns how the
\* game really ended, and never that it "ended unexpectedly" (GAME_END).
OutcomeTold ==
  told # "none" =>
    Game!Outcome(Board) = CASE told = "YOU_WIN" -> "player"
                                 [] told = "YOU_LOSE" -> "computer"
                                 [] told = "NO_WINNER" -> "draw"
                                 [] told = "GAME_END" -> "unexpected"

Occurrences(cmds, pipe) == {i \in 1..Len(pipe) : pipe[i] \in cmds}

\* One request for a move is under way when the game manager waits for one,
\* and none otherwise: it is in the pipe, with the user, or answered.  Neither
\* process reads a command meant for another turn.
OneRequestOutstanding ==
  Cardinality(Occurrences({"YOU_CAN_PLAY", "MOVE_REJECTED"}, toPlayer))
    + (IF playerPc = "input" THEN 1 ELSE 0) + Len(toGm)
  = IF gmPc = "get" THEN 1 ELSE 0

\* Once a result is sent both processes end, the game manager after collecting
\* the player.
OverEnds == sent # "none" ~> gmPc = "done" /\ playerPc = "done"

=============================================================================
