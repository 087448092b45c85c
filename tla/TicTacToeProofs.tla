--------------------------- MODULE TicTacToeProofs ---------------------------
(***************************************************************************)
(* Proofs about TicTacToe.tla, for every width of the grid and every depth *)
(* of the search.                                                          *)
(*                                                                         *)
(* The sums of win() and the scores of minmax() are recursive.  Each is    *)
(* computed by naming a function that obeys the equation of the recursion  *)
(* and showing, with a smallest counterexample, that no other does.        *)
(***************************************************************************)
EXTENDS TicTacToe, TLAPS, FiniteSetTheorems, SequenceTheorems,
        WellFoundedInduction

\* Among some subsets of a finite set one has no other of them below it: the
\* principle of induction on finite sets, in a form the provers can use.
LEMMA SmallestSet ==
  ASSUME NEW S, IsFiniteSet(S), NEW T, T \subseteq SUBSET S, T # {}
  PROVE  \E x \in T : \A y \in T : ~ (y \subseteq x /\ y # x)
<1>1. T \subseteq FiniteSubsetsOf(S)
  BY FS_Subset DEF FiniteSubsetsOf
<1>2. IsWellFoundedOn(StrictSubsetOrdering(S), FiniteSubsetsOf(S))
  BY FS_StrictSubsetOrderingWellFounded
<1>3. \E x \in T : \A y \in T : ~ (<<y, x>> \in StrictSubsetOrdering(S))
  BY <1>1, <1>2, WFMin
<1> QED
  BY <1>3 DEF StrictSubsetOrdering

\* A set of numbers that is not empty has a least one, and Min() gives it.
LEMMA SmallestNat ==
  ASSUME NEW T, T \subseteq Nat, T # {}
  PROVE  /\ Min(T) \in T
         /\ \A y \in T : Min(T) <= y
<1>1. PICK n \in T : TRUE
  OBVIOUS
<1> DEFINE Below == {0..k : k \in {k \in T : k <= n}}
<1>2. PICK x \in Below : \A y \in Below : ~ (y \subseteq x /\ y # x)
  <2> DEFINE All == 0..n
  <2>1. Below \subseteq SUBSET All /\ Below # {}
    BY <1>1
  <2>2. IsFiniteSet(All)
    BY <1>1, FS_Interval
  <2> HIDE DEF Below, All
  <2> QED
    BY <2>1, <2>2, SmallestSet
<1>3. PICK m \in T : m <= n /\ x = 0..m
  BY <1>2
<1>4. ASSUME NEW k \in T
      PROVE  m <= k
  <2>1. SUFFICES ASSUME k < m PROVE FALSE
    BY <1>3
  <2>2. 0..k \in Below
    BY <1>1, <1>3, <2>1
  <2>3. 0..k \subseteq x /\ 0..k # x
    <3>1. m \in 0..m /\ m \notin 0..k
      BY <2>1
    <3>2. 0..k \subseteq 0..m
      BY <2>1
    <3> QED
      BY <1>3, <3>1, <3>2
  <2> QED
    BY <1>2, <2>2, <2>3
<1> QED
  BY <1>4 DEF Min

\* What win() adds up of a line.
LineSum(g, line) == MapThenSumSet(LAMBDA c : g[c], line)

\* The cell the fold takes next.
OneOf(s) == CHOOSE x \in s : TRUE
\* f is the fold of the marks of g, on every part of S.
Adds(f, g, S) ==
  f = [s \in SUBSET S |-> IF s = {} THEN 0
                          ELSE g[OneOf(s)] + f[s \ {OneOf(s)}]]

\* LineSum obeys the equation of the fold, as soon as some function does.
LEMMA SumRecursive ==
  ASSUME NEW g, NEW S, NEW h, Adds(h, g, S)
  PROVE  \E f : Adds(f, g, S) /\ LineSum(g, S) = f[S]
<1> DEFINE F == CHOOSE f : Adds(f, g, S)
<1>1. LineSum(g, S) = F[S]
  BY DEF LineSum, MapThenSumSet, MapThenFoldSet, Adds, OneOf
<1>2. Adds(F, g, S)
  OBVIOUS
<1> QED
  BY <1>1, <1>2

\* How many cells of s bear the mark of id.
Marks(g, s, id) == Cardinality({c \in s : g[c] = id})

\* A sum of marks is the marks of the player less those of the computer: this
\* function obeys the equation of the fold, and no other does.
LEMMA SumOfMarks ==
  ASSUME NEW S, IsFiniteSet(S), NEW g,
         \A c \in S : g[c] \in Side \cup {EMPTY_ID}
  PROVE  LineSum(g, S) = Marks(g, S, PLAYER_ID) - Marks(g, S, AI_ID)
<1> DEFINE m(s) == Marks(g, s, PLAYER_ID) - Marks(g, s, AI_ID)
<1>1. \A s \in SUBSET S, id \in Side :
        /\ IsFiniteSet({c \in s : g[c] = id})
        /\ Marks(g, s, id) \in Nat
  <2> TAKE s \in SUBSET S, id \in Side
  <2>1. {c \in s : g[c] = id} \in SUBSET S
    OBVIOUS
  <2> QED
    BY <2>1, FS_Subset, FS_CardinalityType DEF Marks
<1>2. m({}) = 0
  <2>1. {c \in {} : g[c] = PLAYER_ID} = {} /\ {c \in {} : g[c] = AI_ID} = {}
    OBVIOUS
  <2> QED
    BY <2>1, FS_EmptySet DEF Marks
<1>3. ASSUME NEW s \in SUBSET S, s # {}
      PROVE  /\ OneOf(s) \in s
             /\ m(s) = g[OneOf(s)] + m(s \ {OneOf(s)})
  <2> DEFINE x == OneOf(s)
  <2>1. x \in s
    BY <1>3 DEF OneOf
  <2> HIDE DEF x
  <2>2. ASSUME NEW id \in Side
        PROVE  Marks(g, s \ {x}, id) =
                 IF g[x] = id THEN Marks(g, s, id) - 1 ELSE Marks(g, s, id)
    <3>1. {c \in s \ {x} : g[c] = id} = {c \in s : g[c] = id} \ {x}
      OBVIOUS
    <3>2. x \in {c \in s : g[c] = id} <=> g[x] = id
      BY <2>1
    <3>3. IsFiniteSet({c \in s : g[c] = id})
      BY <1>1
    <3> HIDE DEF x
    <3>4. Cardinality({c \in s : g[c] = id} \ {x}) =
            IF x \in {c \in s : g[c] = id}
            THEN Cardinality({c \in s : g[c] = id}) - 1
            ELSE Cardinality({c \in s : g[c] = id})
      BY <3>3, FS_RemoveElement
    <3> QED
      BY <3>1, <3>2, <3>4 DEF Marks
  <2>3. g[x] \in Side \cup {EMPTY_ID}
    BY <2>1
  <2>4. s \ {x} \in SUBSET S
    OBVIOUS
  <2>5. m(s) = g[x] + m(s \ {x})
    <3>1. PLAYER_ID \in Side /\ AI_ID \in Side
      BY DEF Side
    <3>2. /\ Marks(g, s, PLAYER_ID) \in Nat /\ Marks(g, s, AI_ID) \in Nat
      BY <1>1, <3>1
    <3>3. /\ Marks(g, s \ {x}, PLAYER_ID) =
               IF g[x] = PLAYER_ID THEN Marks(g, s, PLAYER_ID) - 1
               ELSE Marks(g, s, PLAYER_ID)
          /\ Marks(g, s \ {x}, AI_ID) =
               IF g[x] = AI_ID THEN Marks(g, s, AI_ID) - 1
               ELSE Marks(g, s, AI_ID)
      BY <2>2, <3>1
    <3> QED
      BY <2>3, <3>2, <3>3 DEF Side, PLAYER_ID, AI_ID, EMPTY_ID
  <2> QED
    BY <2>1, <2>5 DEF x
<1> HIDE DEF m
<1>4. Adds([s \in SUBSET S |-> m(s)], g, S)
  BY <1>2, <1>3 DEF Adds
<1>5. PICK f : Adds(f, g, S) /\ LineSum(g, S) = f[S]
  BY <1>4, SumRecursive
<1>6. \A s \in SUBSET S : f[s] = m(s)
  <2> DEFINE Bad == {s \in SUBSET S : f[s] # m(s)}
  <2>1. SUFFICES ASSUME Bad # {} PROVE FALSE
    OBVIOUS
  <2>2. PICK s \in Bad : \A y \in Bad : ~ (y \subseteq s /\ y # s)
    <3> HIDE DEF Bad
    <3>1. Bad \subseteq SUBSET S
      BY DEF Bad
    <3> QED
      BY <2>1, <3>1, SmallestSet
  <2>3. CASE s = {}
    BY <2>2, <2>3, <1>2, <1>5 DEF Adds
  <2>4. CASE s # {}
    <3>1. OneOf(s) \in s /\ m(s) = g[OneOf(s)] + m(s \ {OneOf(s)})
      BY <2>2, <2>4, <1>3
    <3>2. f[s \ {OneOf(s)}] = m(s \ {OneOf(s)})
      BY <2>2, <3>1
    <3>3. f[s] = g[OneOf(s)] + f[s \ {OneOf(s)}]
      BY <2>2, <2>4, <1>5 DEF Adds
    <3> QED
      BY <2>2, <3>1, <3>2, <3>3
  <2> QED
    BY <2>3, <2>4
<1> QED
  BY <1>5, <1>6 DEF m

\* A number is given by its quotient and its remainder.
LEMMA DivMod ==
  ASSUME NEW a \in Int, NEW b \in Int, b > 0
  PROVE  /\ a = b * (a \div b) + (a % b)
         /\ a % b \in 0..(b - 1)
         /\ a \div b \in Int
<1>1. a = b * (a \div b) + (a % b)
  OBVIOUS
<1>2. a % b \in 0..(b - 1)
  OBVIOUS
<1>3. a \div b \in Int
  OBVIOUS
<1> QED
  BY <1>1, <1>2, <1>3

\* The cell of row i and column j is N * i + j.
LEMMA Division ==
  ASSUME NEW i \in Index, NEW j \in Index
  PROVE  /\ N * i + j \in Cell
         /\ (N * i + j) \div N = i
         /\ (N * i + j) % N = j
<1> DEFINE c == N * i + j
<1>1. N \in Nat /\ N > 0 /\ i \in 0..(N - 1) /\ j \in 0..(N - 1)
  BY GridAssumption DEF Index
<1>2. c \in Cell
  BY <1>1 DEF Cell
<1>3. c \div N = i
  BY <1>1
<1>4. c \in Int /\ N \in Int
  BY <1>1
<1>5. c = N * i + j
  OBVIOUS
<1> HIDE DEF c
<1>6. c = N * (c \div N) + (c % N) /\ c % N \in Int
  BY <1>1, <1>4, DivMod
<1>7. c % N = j
  BY <1>1, <1>3, <1>5, <1>6
<1> QED
  BY <1>2, <1>3, <1>7 DEF c

\* Every cell is that of its row and column.
LEMMA RowAndColumn ==
  ASSUME NEW c \in Cell
  PROVE  /\ c \div N \in Index
         /\ c % N \in Index
         /\ c = N * (c \div N) + (c % N)
<1>1. N \in Nat /\ N > 0 /\ c \in Nat /\ c < N * N
  BY GridAssumption DEF Cell
<1>2. c = N * (c \div N) + (c % N) /\ c % N \in 0..(N - 1) /\ c \div N \in Int
  BY <1>1, DivMod
<1>3. c \div N \in Index
  BY <1>1 DEF Index
<1> QED
  BY <1>2, <1>3 DEF Index

\* The lines win() adds up, computed from indices, are the rows, the columns
\* and the two diagonals of the rules.
LEMMA SameLines == Rows \cup Columns \cup Diagonals = Game!Line
<1>1. N \in Nat /\ N > 0
  BY GridAssumption
<1>2. \A i \in Index : {i * N + j : j \in Index} = {c \in Cell : c \div N = i}
  <2> TAKE i \in Index
  <2>1. \A j \in Index : i * N + j = N * i + j
    BY <1>1 DEF Index
  <2>2. \A j \in Index : i * N + j \in Cell /\ (i * N + j) \div N = i
    BY <2>1, Division
  <2>3. \A c \in Cell : c \div N = i => \E j \in Index : c = i * N + j
    BY <2>1, RowAndColumn
  <2> QED
    BY <2>2, <2>3
<1>3. \A i \in Index : {N * j + i : j \in Index} = {c \in Cell : c % N = i}
  <2> TAKE i \in Index
  <2>1. \A j \in Index : N * j + i \in Cell /\ (N * j + i) % N = i
    BY Division
  <2>2. \A c \in Cell : c % N = i => \E j \in Index : c = N * j + i
    BY RowAndColumn
  <2> QED
    BY <2>1, <2>2
<1>4. {(N + 1) * i : i \in Index} = {c \in Cell : c \div N = c % N}
  <2>1. \A i \in Index : (N + 1) * i = N * i + i
    BY <1>1 DEF Index
  <2>2. \A i \in Index : (N + 1) * i \in Cell
                         /\ ((N + 1) * i) \div N = ((N + 1) * i) % N
    BY <2>1, Division
  <2>3. \A c \in Cell : c \div N = c % N => \E i \in Index : c = (N + 1) * i
    BY <2>1, RowAndColumn
  <2> QED
    BY <2>2, <2>3
<1>5. {(N - 1) * (i + 1) : i \in Index} =
        {c \in Cell : (c \div N) + (c % N) = N - 1}
  <2>1. \A i \in Index : /\ (N - 1) * (i + 1) = N * i + (N - 1 - i)
                         /\ N - 1 - i \in Index
                         /\ i + (N - 1 - i) = N - 1
    BY <1>1 DEF Index
  <2>2. \A i \in Index :
          /\ (N - 1) * (i + 1) \in Cell
          /\ (((N - 1) * (i + 1)) \div N) + (((N - 1) * (i + 1)) % N) = N - 1
    BY <2>1, Division
  <2>3. ASSUME NEW c \in Cell, (c \div N) + (c % N) = N - 1
        PROVE  \E i \in Index : c = (N - 1) * (i + 1)
    <3>1. c \div N \in Index /\ c % N \in Index /\ c = N * (c \div N) + (c % N)
      BY RowAndColumn
    <3>2. c % N = N - 1 - (c \div N)
      BY <1>1, <2>3, <3>1 DEF Index
    <3> QED
      BY <2>1, <3>1, <3>2
  <2> QED
    BY <2>2, <2>3
<1>6. Rows = {{c \in Cell : c \div N = k} : k \in 0..(N - 1)}
  BY <1>2 DEF Rows, Index
<1>7. Columns = {{c \in Cell : c % N = k} : k \in 0..(N - 1)}
  BY <1>3 DEF Columns, Index
<1>8. Diagonals = {{c \in Cell : c \div N = c % N},
                   {c \in Cell : (c \div N) + (c % N) = N - 1}}
  BY <1>4, <1>5 DEF Diagonals
<1> QED
  BY <1>6, <1>7, <1>8 DEF Game!Line, Game!Row, Game!Column, Game!Cell, Cell

\* A line has N different cells, all on the grid.
LEMMA LineOfN ==
  ASSUME NEW line \in Rows \cup Columns \cup Diagonals
  PROVE  /\ line \subseteq Cell
         /\ IsFiniteSet(line)
         /\ Cardinality(line) = N
<1>1. N \in Nat /\ N > 0
  BY GridAssumption
<1>2. PICK h \in [Index -> Index \X Index] :
        /\ \A i, j \in Index : i # j => h[i] # h[j]
        /\ line = {N * h[i][1] + h[i][2] : i \in Index}
  <2>1. CASE line \in Rows
    <3>1. PICK k \in Index : line = {k * N + j : j \in Index}
      BY <2>1 DEF Rows
    <3>2. \A j \in Index : k * N + j = N * k + j
      BY <1>1 DEF Index
    <3> WITNESS [j \in Index |-> <<k, j>>] \in [Index -> Index \X Index]
    <3> QED
      BY <3>1, <3>2
  <2>2. CASE line \in Columns
    <3>1. PICK k \in Index : line = {N * j + k : j \in Index}
      BY <2>2 DEF Columns
    <3> WITNESS [j \in Index |-> <<j, k>>] \in [Index -> Index \X Index]
    <3> QED
      BY <3>1
  <2>3. CASE line = {(N + 1) * i : i \in Index}
    <3>1. \A i \in Index : (N + 1) * i = N * i + i
      BY <1>1 DEF Index
    <3> WITNESS [i \in Index |-> <<i, i>>] \in [Index -> Index \X Index]
    <3> QED
      BY <2>3, <3>1
  <2>4. CASE line = {(N - 1) * (i + 1) : i \in Index}
    <3>1. \A i \in Index : /\ (N - 1) * (i + 1) = N * i + (N - 1 - i)
                           /\ N - 1 - i \in Index
      BY <1>1 DEF Index
    <3> USE <3>1
    <3> WITNESS [i \in Index |-> <<i, N - 1 - i>>] \in [Index -> Index \X Index]
    <3> QED
      BY <2>4, <3>1
  <2> QED
    BY <2>1, <2>2, <2>3, <2>4 DEF Diagonals
<1> DEFINE f == [i \in Index |-> N * h[i][1] + h[i][2]]
<1>3. \A i \in Index : f[i] \in Cell
  BY <1>2, Division
<1>4. ASSUME NEW i \in Index, NEW j \in Index, f[i] = f[j]
      PROVE  i = j
  <2>1. /\ h[i][1] \in Index /\ h[i][2] \in Index
        /\ h[j][1] \in Index /\ h[j][2] \in Index
        /\ h[i] = <<h[i][1], h[i][2]>> /\ h[j] = <<h[j][1], h[j][2]>>
    BY <1>2
  <2>2. /\ f[i] \div N = h[i][1] /\ f[i] % N = h[i][2]
        /\ f[j] \div N = h[j][1] /\ f[j] % N = h[j][2]
    BY <2>1, Division
  <2> QED
    BY <1>2, <1>4, <2>1, <2>2
<1>5. f \in [Index -> line] /\ \A c \in line : \E i \in Index : f[i] = c
  BY <1>2
<1> HIDE DEF f
<1>6. f \in Bijection(Index, line)
  BY <1>4, <1>5 DEF Bijection, Injection, Surjection, IsInjective
<1>7. IsFiniteSet(Index) /\ Cardinality(Index) = N
  BY <1>1, FS_Interval DEF Index
<1>8. IsFiniteSet(line) /\ Cardinality(line) = Cardinality(Index)
  BY <1>6, <1>7, FS_Bijection DEF ExistsBijection
<1> QED
  BY <1>3, <1>5, <1>7, <1>8

\* A line of the grid bears only the mark of id.
FullLine(g, id) ==
  \E line \in Rows \cup Columns \cup Diagonals : \A c \in line : g[c] = id

\* The test of win() on a line: its sum is N or -N exactly when one side has
\* the whole line. The marks cannot add up to it in another way.
LEMMA SumOfLine ==
  ASSUME NEW g \in Grid, NEW line \in Rows \cup Columns \cup Diagonals
  PROVE  LineSum(g, line) \in {AI_ID * N, PLAYER_ID * N}
           <=> \E id \in Side : \A c \in line : g[c] = id
<1>1. N \in Nat /\ N > 0
  BY GridAssumption
<1>2. line \subseteq Cell /\ IsFiniteSet(line) /\ Cardinality(line) = N
  BY LineOfN
<1>3. \A c \in line : g[c] \in Side \cup {EMPTY_ID}
  BY <1>2 DEF Grid
<1>4. LineSum(g, line) = Marks(g, line, PLAYER_ID) - Marks(g, line, AI_ID)
  BY <1>2, <1>3, SumOfMarks
<1>5. ASSUME NEW id \in Side
      PROVE  /\ Marks(g, line, id) \in 0..N
             /\ Marks(g, line, id) = N <=> \A c \in line : g[c] = id
  <2> DEFINE M == {c \in line : g[c] = id}
  <2>1. M \in SUBSET line
    OBVIOUS
  <2>2. M = line <=> \A c \in line : g[c] = id
    OBVIOUS
  <2> HIDE DEF M
  <2>3. /\ IsFiniteSet(M) /\ Cardinality(M) <= N
        /\ Cardinality(M) = N => M = line
    BY <1>2, <2>1, FS_Subset
  <2>4. Cardinality(M) \in Nat
    BY <2>3, FS_CardinalityType
  <2>5. Marks(g, line, id) = Cardinality(M)
    BY DEF Marks, M
  <2> QED
    BY <1>1, <1>2, <2>2, <2>3, <2>4, <2>5
<1>6. \E c \in line : TRUE
  <2>1. line # {}
    BY <1>1, <1>2, FS_EmptySet
  <2> QED
    BY <2>1
<1>7. /\ Marks(g, line, PLAYER_ID) \in 0..N
      /\ Marks(g, line, AI_ID) \in 0..N
      /\ Marks(g, line, PLAYER_ID) = N <=> \A c \in line : g[c] = PLAYER_ID
      /\ Marks(g, line, AI_ID) = N <=> \A c \in line : g[c] = AI_ID
  BY <1>5 DEF Side
<1>8. ASSUME NEW id \in Side, NEW other \in Side, id # other,
             \A c \in line : g[c] = id
      PROVE  Marks(g, line, other) = 0
  <2>1. {c \in line : g[c] = other} = {}
    BY <1>8
  <2> QED
    BY <2>1, FS_EmptySet DEF Marks
<1>9. CASE \A c \in line : g[c] = PLAYER_ID
  BY <1>1, <1>4, <1>7, <1>8, <1>9 DEF Side, PLAYER_ID, AI_ID
<1>10. CASE \A c \in line : g[c] = AI_ID
  BY <1>1, <1>4, <1>7, <1>8, <1>10 DEF Side, PLAYER_ID, AI_ID
<1>11. CASE /\ ~ \A c \in line : g[c] = PLAYER_ID
            /\ ~ \A c \in line : g[c] = AI_ID
  <2>1. /\ Marks(g, line, PLAYER_ID) \in 0..(N - 1)
        /\ Marks(g, line, AI_ID) \in 0..(N - 1)
    BY <1>1, <1>7, <1>11
  <2> QED
    BY <1>1, <1>4, <1>11, <2>1 DEF Side, PLAYER_ID, AI_ID
<1> QED
  BY <1>9, <1>10, <1>11

\* The state of the game that win() gives.
LEMMA WinIsFullLine ==
  ASSUME NEW g \in Grid
  PROVE  win(g) = IF \E id \in Side : FullLine(g, id) THEN "STATE_WIN"
                  ELSE IF Free(g) # {} THEN "STATE_PROGRESS"
                  ELSE "STATE_DRAW"
<1>1. win(g) = IF \E line \in Rows \cup Columns \cup Diagonals :
                    LineSum(g, line) \in {AI_ID * N, PLAYER_ID * N}
               THEN "STATE_WIN"
               ELSE IF \E c \in Cell : g[c] = EMPTY_ID THEN "STATE_PROGRESS"
               ELSE "STATE_DRAW"
  BY DEF win, LineSum
<1>2. (\E line \in Rows \cup Columns \cup Diagonals :
         LineSum(g, line) \in {AI_ID * N, PLAYER_ID * N})
        <=> \E id \in Side : FullLine(g, id)
  BY SumOfLine DEF FullLine
<1>3. (\E c \in Cell : g[c] = EMPTY_ID) <=> Free(g) # {}
  BY DEF Free
<1> QED
  BY <1>1, <1>2, <1>3

\* The side of the rules that id stands for.
Named(id) == IF id = PLAYER_ID THEN "player" ELSE "computer"

\* The board of the rules that a grid stands for.
BoardOf(g) == [c \in Cell |-> CASE g[c] = PLAYER_ID -> "player"
                                [] g[c] = AI_ID -> "computer"
                                [] g[c] = EMPTY_ID -> "free"]

\* A cell of that board is marked as on the grid.
LEMMA MarkOf ==
  ASSUME NEW g \in Grid, NEW c \in Cell
  PROVE  /\ \A id \in Side : BoardOf(g)[c] = Named(id) <=> g[c] = id
         /\ BoardOf(g)[c] = "free" <=> g[c] = EMPTY_ID
<1>1. g[c] \in {PLAYER_ID, AI_ID, EMPTY_ID}
  BY DEF Grid, Side
<1>2. PLAYER_ID # AI_ID /\ PLAYER_ID # EMPTY_ID /\ AI_ID # EMPTY_ID
  BY DEF PLAYER_ID, AI_ID, EMPTY_ID
<1> QED
  BY <1>1, <1>2 DEF BoardOf, Named, Side

\* A side wins by the rules when the grid has a line of it.
LEMMA WinsIsFullLine ==
  ASSUME NEW g \in Grid, NEW id \in Side
  PROVE  Game!Wins(Named(id), BoardOf(g)) <=> FullLine(g, id)
<1>1. \A line \in Game!Line : line \subseteq Cell
  BY SameLines, LineOfN
<1>2. \A line \in Game!Line :
        (\A c \in line : BoardOf(g)[c] = Named(id))
          <=> (\A c \in line : g[c] = id)
  BY <1>1, MarkOf
<1> QED
  BY <1>2, SameLines DEF Game!Wins, FullLine

\* When the other side has no line, win() gives the outcome of the rules.
LEMMA OutcomeOfGrid ==
  ASSUME NEW g \in Grid, NEW id \in Side, ~ FullLine(g, -id)
  PROVE  Game!Outcome(BoardOf(g)) = IF win(g) = "STATE_WIN" THEN Named(id)
                                    ELSE IF win(g) = "STATE_DRAW" THEN "draw"
                                    ELSE "none"
<1>1. Game!Side = {Named(id), Named(-id)} /\ Side = {id, -id}
  BY DEF Game!Side, Named, Side, PLAYER_ID, AI_ID
<1>2. -id \in Side
  BY <1>1
<1>3. Game!Wins(Named(id), BoardOf(g)) <=> FullLine(g, id)
  BY WinsIsFullLine
<1>4. ~ Game!Wins(Named(-id), BoardOf(g))
  BY <1>2, WinsIsFullLine
<1>5. (\E c \in Game!Cell : BoardOf(g)[c] = "free") <=> Free(g) # {}
  BY MarkOf DEF Game!Cell, Cell, Free
<1>6. (\E side \in Game!Side : Game!Wins(side, BoardOf(g)))
        <=> \E p \in Side : FullLine(g, p)
  BY <1>1, <1>3, <1>4
<1>7. CASE FullLine(g, id)
  <2>1. win(g) = "STATE_WIN"
    BY <1>7, WinIsFullLine
  <2>2. (CHOOSE side \in Game!Side : Game!Wins(side, BoardOf(g))) = Named(id)
    BY <1>1, <1>3, <1>4, <1>7
  <2> QED
    BY <1>6, <1>7, <2>1, <2>2 DEF Game!Outcome
<1>8. CASE ~ FullLine(g, id)
  <2>1. ~ \E p \in Side : FullLine(g, p)
    BY <1>1, <1>8
  <2>2. win(g) = IF Free(g) # {} THEN "STATE_PROGRESS" ELSE "STATE_DRAW"
    BY <2>1, WinIsFullLine
  <2> QED
    BY <1>5, <1>6, <2>1, <2>2 DEF Game!Outcome
<1> QED
  BY <1>7, <1>8

\* A move on a free cell gives no line to the other side.
LEMMA MoveWins ==
  ASSUME NEW g \in Grid, NEW c \in Free(g), NEW id \in Side,
         \A p \in Side : ~ FullLine(g, p)
  PROVE  /\ [g EXCEPT ![c] = id] \in Grid
         /\ ~ FullLine([g EXCEPT ![c] = id], -id)
<1> DEFINE h == [g EXCEPT ![c] = id]
<1>1. c \in Cell /\ h \in Grid
  BY DEF Free, Grid
<1>2. id # -id /\ -id \in Side
  BY DEF Side, PLAYER_ID, AI_ID
<1>3. ASSUME NEW line \in Rows \cup Columns \cup Diagonals,
             \A d \in line : h[d] = -id
      PROVE  \A d \in line : g[d] = -id
  <2>1. line \subseteq Cell
    BY LineOfN
  <2>2. c \notin line
    BY <1>1, <1>2, <1>3 DEF Grid
  <2> QED
    BY <1>3, <2>1, <2>2 DEF Grid
<1> QED
  BY <1>1, <1>2, <1>3 DEF FullLine
\* The score of cell c at this depth, with f for the depths below.
Score(f, depth, g, player, c) ==
  -f[depth - 1][[g EXCEPT ![c] = player]][-player]

\* One level of minmax(), with f for the levels below.
Search(f, depth, g, player) ==
  LET score(c) == Score(f, depth, g, player, c)
      good == {c \in Free(g) : score(c) > 0}
  IN IF depth = 0 \/ Free(g) = {} THEN 0
     ELSE IF good # {} THEN score(Min(good))
     ELSE Max({score(c) : c \in Free(g)})

\* The equation of minmax.
Searches(f) ==
  f = [depth \in 0..MaxDepth |-> [g \in Grid |-> [player \in Side |->
         Search(f, depth, g, player)]]]

\* If every score below is 0, so is the score of this level.
LEMMA SearchOfZero ==
  ASSUME NEW f, NEW depth \in 0..MaxDepth, NEW g \in Grid, NEW player \in Side,
         \/ depth = 0
         \/ \A h \in Grid, p \in Side : f[depth - 1][h][p] = 0
  PROVE  Search(f, depth, g, player) = 0
<1>1. CASE depth = 0 \/ Free(g) = {}
  BY <1>1 DEF Search
<1>2. CASE depth # 0 /\ Free(g) # {}
  <2>1. -player \in Side
    BY DEF Side, PLAYER_ID, AI_ID
  <2>2. \A c \in Free(g) : [g EXCEPT ![c] = player] \in Grid
    BY DEF Free, Grid
  <2>3. \A c \in Free(g) : Score(f, depth, g, player, c) = 0
    BY <1>2, <2>1, <2>2 DEF Score
  <2>4. {c \in Free(g) : Score(f, depth, g, player, c) > 0} = {}
    BY <2>3
  <2>5. {Score(f, depth, g, player, c) : c \in Free(g)} = {0}
    BY <1>2, <2>3
  <2>6. Max({0}) = 0
    BY DEF Max
  <2> QED
    BY <1>2, <2>4, <2>5, <2>6 DEF Search
<1> QED
  BY <1>1, <1>2

\* minmax obeys its equation: the function that is 0 everywhere does.
LEMMA MinmaxSearches == Searches(minmax)
<1> DEFINE Zero == [depth \in 0..MaxDepth |->
                   [g \in Grid |-> [player \in Side |-> 0]]]
<1>1. \A depth \in 0..MaxDepth, g \in Grid, player \in Side :
        Search(Zero, depth, g, player) = 0
  <2> TAKE depth \in 0..MaxDepth, g \in Grid, player \in Side
  <2>1. depth # 0 => depth - 1 \in 0..MaxDepth
    BY DepthAssumption
  <2>2. \/ depth = 0
        \/ \A h \in Grid, p \in Side : Zero[depth - 1][h][p] = 0
    BY <2>1
  <2> HIDE DEF Zero
  <2> QED
    BY <2>2, SearchOfZero
<1>2. Searches(Zero)
  BY <1>1 DEF Searches
<1>3. minmax = CHOOSE f : Searches(f)
  BY DEF minmax, Searches, Search, Score
<1> HIDE DEF Zero
<1> QED
  BY <1>2, <1>3

\* minmax() scores every position 0, at every depth: it never looks at a line.
LEMMA MinmaxIsZero ==
  ASSUME NEW depth \in 0..MaxDepth, NEW g \in Grid, NEW player \in Side
  PROVE  minmax[depth][g][player] = 0
<1> DEFINE Bad == {d \in 0..MaxDepth :
                     \E h \in Grid, p \in Side : minmax[d][h][p] # 0}
<1>1. \A d \in 0..MaxDepth, h \in Grid, p \in Side :
        minmax[d][h][p] = Search(minmax, d, h, p)
  <2> DEFINE R == [e \in 0..MaxDepth |-> [k \in Grid |-> [q \in Side |->
                     Search(minmax, e, k, q)]]]
  <2>1. minmax = R
    BY MinmaxSearches DEF Searches
  <2>2. \A d \in 0..MaxDepth, h \in Grid, p \in Side :
          R[d][h][p] = Search(minmax, d, h, p)
    OBVIOUS
  <2> HIDE DEF R
  <2> QED
    BY <2>1, <2>2
<1>2. Bad = {}
  <2>1. SUFFICES ASSUME Bad # {} PROVE FALSE
    OBVIOUS
  <2>2. Bad \subseteq Nat
    OBVIOUS
  <2> DEFINE d == Min(Bad)
  <2>3. d \in Bad /\ \A e \in Bad : d <= e
    <3> HIDE DEF Bad
    <3> QED
      BY <2>1, <2>2, SmallestNat
  <2> HIDE DEF d
  <2>4. PICK h \in Grid, p \in Side : minmax[d][h][p] # 0
    BY <2>3
  <2>5. \/ d = 0
        \/ \A k \in Grid, q \in Side : minmax[d - 1][k][q] = 0
    <3>1. d # 0 => d - 1 \in 0..MaxDepth /\ d - 1 \notin Bad
      BY <2>3, DepthAssumption
    <3> QED
      BY <3>1
  <2>6. d \in 0..MaxDepth
    BY <2>3
  <2>7. minmax[d][h][p] = 0
    BY <1>1, <2>5, <2>6, SearchOfZero
  <2> QED
    BY <2>4, <2>7
<1> QED
  BY <1>2

\* The computer always plays on the first free cell, however far it looks
\* ahead (MAX_DEPTH); when there is a free cell, it plays on one.
THEOREM FirstFreeCell ==
  ASSUME NEW g \in Grid, Free(g) # {}
  PROVE  /\ computers_turn(g) = Min(Free(g)) + 1
         /\ computers_turn(g) - 1 \in Free(g)
<1>1. MaxDepth - 1 \in 0..MaxDepth
  BY DepthAssumption
<1>2. \A c \in Free(g) : [g EXCEPT ![c] = AI_ID] \in Grid
  BY DEF Free, Grid, Side
<1>3. \A c \in Free(g) : minmax[MaxDepth - 1][[g EXCEPT ![c] = AI_ID]][AI_ID] = 0
  BY <1>1, <1>2, MinmaxIsZero DEF Side
<1>4. {c \in Free(g) : \A d \in Free(g) :
         -minmax[MaxDepth - 1][[g EXCEPT ![d] = AI_ID]][AI_ID]
           <= -minmax[MaxDepth - 1][[g EXCEPT ![c] = AI_ID]][AI_ID]} = Free(g)
  BY <1>3
<1>5. computers_turn(g) = Min(Free(g)) + 1
  BY <1>4 DEF computers_turn
<1>6. Free(g) \subseteq Nat
  BY GridAssumption DEF Free, Cell
<1>7. Min(Free(g)) \in Free(g)
  BY <1>6, SmallestNat
<1> QED
  BY <1>5, <1>6, <1>7

-----------------------------------------------------------------------------
(* The inductive invariant *)

\* The commands that ask the player for a move.
Asks == {"YOU_CAN_PLAY", "MOVE_REJECTED"}
\* No command of the pipe asks for a move.
NoRequest(pipe) == \A i \in 1..Len(pipe) : pipe[i] \notin Asks
\* Exactly one command of the pipe asks for a move.
OneRequest(pipe) ==
  \E k \in 1..Len(pipe) :
    pipe[k] \in Asks /\ \A i \in 1..Len(pipe) : pipe[i] \in Asks => i = k

\* The one request for a move is nowhere, or in the pipe, or with the user, or
\* answered: the last three only while the game manager waits for a move.
RequestInv ==
  \/ /\ gmPc # "get" /\ playerPc # "input"
     /\ NoRequest(toPlayer) /\ toGm = <<>>
  \/ /\ gmPc = "get" /\ playerPc # "input"
     /\ OneRequest(toPlayer) /\ toGm = <<>>
  \/ /\ gmPc = "get" /\ playerPc = "input"
     /\ NoRequest(toPlayer) /\ toGm = <<>>
  \/ /\ gmPc = "get" /\ playerPc # "input"
     /\ NoRequest(toPlayer) /\ Len(toGm) = 1

\* Only the result sent is in the pipe, GAME_END only after it; and a result
\* that is sent is in the pipe until it ends the player.
PipeInv(pipe, result, ended) ==
  /\ \A i \in 1..Len(pipe) :
       /\ pipe[i] \in Result => pipe[i] = result
       /\ pipe[i] = "GAME_END" =>
            ended # "none" \/ \E j \in 1..(i - 1) : pipe[j] \in Result
  /\ result # "none" /\ ended = "none" =>
       \E i \in 1..Len(pipe) : pipe[i] \in Result

\* The player has been told the result sent, or nothing, and reads no more
\* once it has.
ResultInv ==
  /\ PipeInv(toPlayer, sent, told)
  /\ told \in {"none", sent}
  /\ told # "none" => playerPc = "done"

\* The outcome of the rules that a result stands for.
OutcomeOf(result) ==
  CASE result = "YOU_WIN" -> "player"
    [] result = "YOU_LOSE" -> "computer"
    [] result = "NO_WINNER" -> "draw"
    [] result = "none" -> "none"

\* A result is sent when the game is over by the rules, and it is the right
\* one; until then there is a free cell and no full line.
GameInv ==
  /\ gmPc \in {"init", "fork", "start", "turn", "get"} => sent = "none"
  /\ gmPc \in {"end", "wait"} => sent # "none"
  /\ sent = "none" =>
       Free(grid) # {} /\ \A p \in Side : ~ FullLine(grid, p)
  /\ Game!Outcome(BoardOf(grid)) = OutcomeOf(sent)

\* The inductive invariant.
Inv == TypeOK /\ RequestInv /\ ResultInv /\ GameInv

\* The inductive invariant holds at the start.
LEMMA InitInv == Init => Inv
<1> SUFFICES ASSUME Init PROVE Inv
  OBVIOUS
<1>1. N \in Nat /\ N > 0 /\ 0 \in Cell
  BY GridAssumption DEF Cell
<1>2. TypeOK
  BY DEF Init, TypeOK, Grid, Side, Cmd
<1>3. RequestInv /\ ResultInv
  BY DEF Init, RequestInv, ResultInv, PipeInv, NoRequest
<1>4. Free(grid) # {}
  BY <1>1 DEF Init, Free
<1>5. \A p \in Side : ~ FullLine(grid, p)
  <2>1. SUFFICES ASSUME NEW p \in Side, FullLine(grid, p) PROVE FALSE
    OBVIOUS
  <2>2. PICK line \in Rows \cup Columns \cup Diagonals :
          \A c \in line : grid[c] = p
    BY <2>1 DEF FullLine
  <2>3. line \subseteq Cell /\ IsFiniteSet(line) /\ Cardinality(line) = N
    BY LineOfN
  <2>4. line # {}
    BY <1>1, <2>3, FS_EmptySet
  <2> QED
    BY <2>2, <2>3, <2>4 DEF Init, Side, PLAYER_ID, AI_ID, EMPTY_ID
<1>6. Game!Outcome(BoardOf(grid)) = "none"
  <2>1. grid \in Grid /\ PLAYER_ID \in Side /\ -PLAYER_ID \in Side
    BY <1>2 DEF TypeOK, Side, PLAYER_ID, AI_ID
  <2>2. win(grid) = "STATE_PROGRESS"
    BY <1>4, <1>5, <2>1, WinIsFullLine
  <2> QED
    BY <1>5, <2>1, <2>2, OutcomeOfGrid
<1>7. GameInv
  BY <1>4, <1>5, <1>6 DEF Init, GameInv, OutcomeOf
<1> QED
  BY <1>2, <1>3, <1>7 DEF Inv

\* What Apply() does to the grid, and to the result if there is one.
\* What a move on a free cell does to the grid, and to the result if it ends
\* the game.
LEMMA ApplyOutcome ==
  ASSUME TypeOK, NEW move \in Free(grid),
         \A p \in Side : ~ FullLine(grid, p), sent = "none", Apply(move)
  PROVE  /\ grid' \in Grid /\ turn' \in Side
         /\ Game!Outcome(BoardOf(grid')) = OutcomeOf(sent')
         /\ \/ /\ sent' = "none" /\ gmPc' = "turn" /\ toPlayer' = toPlayer
               /\ Free(grid') # {} /\ \A p \in Side : ~ FullLine(grid', p)
            \/ /\ sent' \in Result /\ gmPc' = "end"
               /\ toPlayer' = Append(toPlayer, sent')
         /\ UNCHANGED <<playerPc, told>>
<1>1. grid \in Grid /\ turn \in Side /\ -turn \in Side
  BY DEF TypeOK, Side, PLAYER_ID, AI_ID
<1>2. grid' = [grid EXCEPT ![move] = turn]
  BY DEF Apply
<1>3. grid' \in Grid /\ ~ FullLine(grid', -turn)
  BY <1>1, <1>2, MoveWins
<1>4. PICK g \in Grid : g = grid'
  BY <1>3
<1>5. PICK id \in Side : id = turn
  BY <1>1
<1>6. Game!Outcome(BoardOf(g)) = IF win(g) = "STATE_WIN" THEN Named(id)
                                 ELSE IF win(g) = "STATE_DRAW" THEN "draw"
                                 ELSE "none"
  BY <1>3, <1>4, <1>5, OutcomeOfGrid
<1>7. win(g) = IF \E p \in Side : FullLine(g, p) THEN "STATE_WIN"
               ELSE IF Free(g) # {} THEN "STATE_PROGRESS"
               ELSE "STATE_DRAW"
  BY WinIsFullLine
<1>8. /\ IF win(g) = "STATE_PROGRESS" THEN UNCHANGED <<toPlayer, sent>>
         ELSE /\ toPlayer' = Append(toPlayer, ResultOf(win(g), id))
              /\ sent' = ResultOf(win(g), id)
      /\ gmPc' = IF win(g) # "STATE_PROGRESS" THEN "end" ELSE "turn"
      /\ turn' = -turn /\ UNCHANGED <<playerPc, told>>
  BY <1>4, <1>5 DEF Apply, gm_send_cmd, Over
<1>9. ResultOf(win(g), id) \in Result
  BY DEF ResultOf, Result
<1>10. OutcomeOf(ResultOf("STATE_WIN", id)) = Named(id)
  BY DEF ResultOf, OutcomeOf, Named
<1>11. OutcomeOf(ResultOf("STATE_DRAW", id)) = "draw" /\ OutcomeOf("none") = "none"
  BY DEF ResultOf, OutcomeOf
<1>12. CASE win(g) = "STATE_PROGRESS"
  BY <1>1, <1>3, <1>4, <1>6, <1>7, <1>8, <1>11, <1>12
<1>13. CASE win(g) = "STATE_WIN"
  BY <1>1, <1>3, <1>4, <1>6, <1>8, <1>9, <1>10, <1>13
<1>14. CASE win(g) = "STATE_DRAW"
  BY <1>1, <1>3, <1>4, <1>6, <1>8, <1>9, <1>11, <1>14
<1> QED
  BY <1>7, <1>12, <1>13, <1>14

\* ComputersTurn plays on a free cell.
\* The computer's move is one on a free cell.
LEMMA ComputerPlays ==
  ASSUME Inv, ComputersTurn
  PROVE  \E move \in Free(grid) : Apply(move)
<1>1. PICK g \in Grid : g = grid
  BY DEF Inv, TypeOK
<1>2. Free(g) # {}
  BY <1>1 DEF Inv, GameInv, ComputersTurn
<1>3. computers_turn(g) - 1 \in Free(g)
  BY <1>2, FirstFreeCell
<1> QED
  BY <1>1, <1>3 DEF ComputersTurn

\* What a command written does to a pipe.
LEMMA Sends ==
  ASSUME NEW pipe \in Seq(Cmd), NEW cmd \in Cmd
  PROVE  /\ Append(pipe, cmd) \in Seq(Cmd)
         /\ Len(pipe) \in Nat
         /\ Len(Append(pipe, cmd)) = Len(pipe) + 1
         /\ \A i \in 1..Len(pipe) : Append(pipe, cmd)[i] = pipe[i]
         /\ Append(pipe, cmd)[Len(pipe) + 1] = cmd
  OBVIOUS

\* What a command read does to a pipe.
LEMMA Receives ==
  ASSUME NEW pipe \in Seq(Cmd), pipe # <<>>
  PROVE  /\ Tail(pipe) \in Seq(Cmd)
         /\ Len(pipe) \in Nat \ {0}
         /\ Head(pipe) = pipe[1]
         /\ Head(pipe) \in Cmd
         /\ Len(Tail(pipe)) = Len(pipe) - 1
         /\ \A i \in 1..Len(Tail(pipe)) : Tail(pipe)[i] = pipe[i + 1]
  OBVIOUS

\* The requests of a pipe after a command is written.
LEMMA SendsRequest ==
  ASSUME NEW pipe \in Seq(Cmd), NEW cmd \in Cmd, NoRequest(pipe)
  PROVE  /\ cmd \in Asks => OneRequest(Append(pipe, cmd))
         /\ cmd \notin Asks => NoRequest(Append(pipe, cmd))
<1> DEFINE new == Append(pipe, cmd)
<1>1. /\ Len(pipe) \in Nat
      /\ Len(new) = Len(pipe) + 1
      /\ \A i \in 1..Len(pipe) : new[i] = pipe[i]
      /\ new[Len(pipe) + 1] = cmd
  BY Sends
<1> HIDE DEF new
<1>2. \A i \in 1..Len(new) : i \in 1..Len(pipe) \/ i = Len(pipe) + 1
  BY <1>1
<1>3. cmd \in Asks => OneRequest(new)
  <2>1. Len(pipe) + 1 \in 1..Len(new)
    BY <1>1
  <2> QED
    BY <1>1, <1>2, <2>1 DEF NoRequest, OneRequest
<1>4. cmd \notin Asks => NoRequest(new)
  BY <1>1, <1>2 DEF NoRequest
<1> QED
  BY <1>3, <1>4 DEF new

\* The requests of a pipe after a command is read.
LEMMA ReceivesRequest ==
  ASSUME NEW pipe \in Seq(Cmd), pipe # <<>>
  PROVE  /\ NoRequest(pipe) =>
              Head(pipe) \notin Asks /\ NoRequest(Tail(pipe))
         /\ OneRequest(pipe) => IF Head(pipe) \in Asks
                                THEN NoRequest(Tail(pipe))
                                ELSE OneRequest(Tail(pipe))
<1> DEFINE rest == Tail(pipe)
<1>1. /\ Len(pipe) \in Nat \ {0}
      /\ Head(pipe) = pipe[1]
      /\ Len(rest) = Len(pipe) - 1
      /\ \A i \in 1..Len(rest) : rest[i] = pipe[i + 1]
  BY Receives
<1> HIDE DEF rest
<1>2. \A i \in 1..Len(rest) : i + 1 \in 1..Len(pipe) /\ i + 1 # 1
  BY <1>1
<1>3. 1 \in 1..Len(pipe)
  BY <1>1
<1>4. ASSUME NoRequest(pipe)
      PROVE  Head(pipe) \notin Asks /\ NoRequest(rest)
  BY <1>1, <1>2, <1>3, <1>4 DEF NoRequest
<1>5. ASSUME OneRequest(pipe), Head(pipe) \in Asks
      PROVE  NoRequest(rest)
  BY <1>1, <1>2, <1>3, <1>5 DEF NoRequest, OneRequest
<1>6. ASSUME OneRequest(pipe), Head(pipe) \notin Asks
      PROVE  OneRequest(rest)
  <2>1. PICK k \in 1..Len(pipe) :
          pipe[k] \in Asks /\ \A i \in 1..Len(pipe) : pipe[i] \in Asks => i = k
    BY <1>6 DEF OneRequest
  <2>2. k # 1
    BY <1>1, <1>6, <2>1
  <2>3. k - 1 \in 1..Len(rest) /\ rest[k - 1] = pipe[k]
    <3>1. k - 1 \in 1..Len(rest) /\ (k - 1) + 1 = k
      BY <1>1, <2>2
    <3> QED
      BY <1>1, <3>1
  <2>4. \A i \in 1..Len(rest) : rest[i] \in Asks => i = k - 1
    BY <1>1, <1>2, <2>1
  <2> QED
    BY <2>1, <2>3, <2>4 DEF OneRequest
<1> QED
  BY <1>4, <1>5, <1>6 DEF rest

\* Any command but a result can be written, GAME_END after the result.
LEMMA SendsOther ==
  ASSUME NEW pipe \in Seq(Cmd), NEW cmd \in Cmd \ Result, NEW result, NEW ended,
         PipeInv(pipe, result, ended),
         cmd = "GAME_END" => result # "none"
  PROVE  PipeInv(Append(pipe, cmd), result, ended)
<1> DEFINE new == Append(pipe, cmd)
<1>1. /\ Len(pipe) \in Nat
      /\ Len(new) = Len(pipe) + 1
      /\ \A i \in 1..Len(pipe) : new[i] = pipe[i]
      /\ new[Len(pipe) + 1] = cmd
  BY Sends
<1> HIDE DEF new
<1>2. \A i \in 1..Len(new) : i \in 1..Len(pipe) \/ i = Len(pipe) + 1
  BY <1>1
<1>3. \A i \in 1..Len(new) : new[i] \in Result => new[i] = result
  BY <1>1, <1>2 DEF PipeInv
<1>4. ASSUME NEW i \in 1..Len(new), new[i] = "GAME_END", ended = "none"
      PROVE  \E j \in 1..(i - 1) : new[j] \in Result
  <2>1. CASE i \in 1..Len(pipe)
    <3>1. \A j \in 1..(i - 1) : j \in 1..Len(pipe)
      BY <1>1, <2>1
    <3> QED
      BY <1>1, <1>4, <2>1, <3>1 DEF PipeInv
  <2>2. CASE i = Len(pipe) + 1
    <3>1. PICK j \in 1..Len(pipe) : pipe[j] \in Result
      BY <1>1, <1>4, <2>2 DEF PipeInv
    <3>2. j \in 1..(i - 1)
      BY <1>1, <2>2
    <3> QED
      BY <1>1, <3>1, <3>2
  <2> QED
    BY <1>2, <2>1, <2>2
<1>5. result # "none" /\ ended = "none" =>
        \E i \in 1..Len(new) : new[i] \in Result
  BY <1>1 DEF PipeInv
<1>6. PipeInv(new, result, ended)
  BY <1>3, <1>4, <1>5 DEF PipeInv
<1> QED
  BY <1>6 DEF new

\* The result can be written when none was.
LEMMA SendsResult ==
  ASSUME NEW pipe \in Seq(Cmd), NEW result \in Result,
         PipeInv(pipe, "none", "none")
  PROVE  PipeInv(Append(pipe, result), result, "none")
<1> DEFINE new == Append(pipe, result)
<1>1. /\ Len(pipe) \in Nat
      /\ Len(new) = Len(pipe) + 1
      /\ \A i \in 1..Len(pipe) : new[i] = pipe[i]
      /\ new[Len(pipe) + 1] = result
  BY Sends DEF Cmd
<1> HIDE DEF new
<1>2. \A i \in 1..Len(new) : i \in 1..Len(pipe) \/ i = Len(pipe) + 1
  BY <1>1
<1>3. \A i \in 1..Len(pipe) : pipe[i] \notin Result
  BY DEF PipeInv, Result
<1>4. \A i \in 1..Len(pipe) : pipe[i] # "GAME_END"
  <2>1. SUFFICES ASSUME NEW i \in 1..Len(pipe), pipe[i] = "GAME_END"
                 PROVE  FALSE
    OBVIOUS
  <2>2. PICK j \in 1..(i - 1) : pipe[j] \in Result
    BY <2>1 DEF PipeInv
  <2>3. j \in 1..Len(pipe)
    BY <1>1
  <2> QED
    BY <1>3, <2>2, <2>3
<1>5. result # "GAME_END"
  BY DEF Result
<1>6. Len(pipe) + 1 \in 1..Len(new)
  BY <1>1
<1>7. PipeInv(new, result, "none")
  BY <1>1, <1>2, <1>3, <1>4, <1>5, <1>6 DEF PipeInv
<1> QED
  BY <1>7 DEF new

\* The first command that ends the player is the result.
LEMMA ReceivesResult ==
  ASSUME NEW pipe \in Seq(Cmd), pipe # <<>>, NEW result,
         PipeInv(pipe, result, "none")
  PROVE  IF Ends(Head(pipe))
         THEN Head(pipe) = result /\ PipeInv(Tail(pipe), result, result)
         ELSE PipeInv(Tail(pipe), result, "none")
<1> DEFINE rest == Tail(pipe)
<1>1. /\ Len(pipe) \in Nat \ {0}
      /\ Head(pipe) = pipe[1]
      /\ Len(rest) = Len(pipe) - 1
      /\ \A i \in 1..Len(rest) : rest[i] = pipe[i + 1]
  BY Receives
<1> HIDE DEF rest
<1>2. \A i \in 1..Len(rest) : i + 1 \in 1..Len(pipe)
  BY <1>1
<1>3. 1 \in 1..Len(pipe)
  BY <1>1
<1>4. \A i \in 1..Len(rest) : rest[i] \in Result => rest[i] = result
  BY <1>1, <1>2 DEF PipeInv
<1>5. CASE Ends(Head(pipe))
  <2>1. Head(pipe) \in Result
    <3>1. ~ \E j \in 1..(1 - 1) : pipe[j] \in Result
      OBVIOUS
    <3>2. pipe[1] # "GAME_END"
      BY <1>3, <3>1 DEF PipeInv
    <3> QED
      BY <1>1, <1>5, <3>2 DEF Ends
  <2>2. Head(pipe) = result /\ result # "none"
    BY <1>1, <1>3, <2>1 DEF PipeInv, Result
  <2>3. PipeInv(rest, result, result)
    BY <1>4, <2>2 DEF PipeInv
  <2> QED
    BY <1>5, <2>2, <2>3 DEF rest
<1>6. CASE ~ Ends(Head(pipe))
  <2>1. pipe[1] \notin Result
    BY <1>1, <1>6 DEF Ends
  <2>2. ASSUME NEW i \in 1..Len(pipe), pipe[i] \in Result
        PROVE  i - 1 \in 1..Len(rest) /\ rest[i - 1] = pipe[i]
    <3>1. i # 1
      BY <2>1, <2>2
    <3>2. i - 1 \in 1..Len(rest) /\ (i - 1) + 1 = i
      BY <1>1, <3>1
    <3> QED
      BY <1>1, <3>2
  <2>3. ASSUME NEW i \in 1..Len(rest), rest[i] = "GAME_END"
        PROVE  \E j \in 1..(i - 1) : rest[j] \in Result
    <3>1. i + 1 \in 1..Len(pipe) /\ pipe[i + 1] = "GAME_END"
      BY <1>1, <1>2, <2>3
    <3>2. PICK j \in 1..((i + 1) - 1) : pipe[j] \in Result
      BY <3>1 DEF PipeInv
    <3>3. j \in 1..Len(pipe) /\ j - 1 < i
      BY <1>1
    <3>4. j - 1 \in 1..Len(rest) /\ rest[j - 1] \in Result
      BY <2>2, <3>2, <3>3
    <3>5. j - 1 \in 1..(i - 1)
      BY <3>3, <3>4
    <3> QED
      BY <3>4, <3>5
  <2>4. result # "none" => \E i \in 1..Len(rest) : rest[i] \in Result
    BY <2>2 DEF PipeInv
  <2>5. PipeInv(rest, result, "none")
    BY <1>4, <2>3, <2>4 DEF PipeInv
  <2> QED
    BY <1>6, <2>5 DEF rest
<1> QED
  BY <1>5, <1>6

\* A move on a free cell keeps the invariant.
LEMMA ApplyInv ==
  ASSUME Inv, NEW move \in Free(grid), gmPc \in {"get", "turn"}, Apply(move),
         NoRequest(toPlayer), playerPc # "input", toGm' = <<>>
  PROVE  Inv'
<1>1. sent = "none" /\ told = "none" /\ \A p \in Side : ~ FullLine(grid, p)
  BY DEF Inv, GameInv, ResultInv
<1>2. /\ grid' \in Grid /\ turn' \in Side
      /\ Game!Outcome(BoardOf(grid')) = OutcomeOf(sent')
      /\ \/ /\ sent' = "none" /\ gmPc' = "turn" /\ toPlayer' = toPlayer
            /\ Free(grid') # {} /\ \A p \in Side : ~ FullLine(grid', p)
         \/ /\ sent' \in Result /\ gmPc' = "end"
            /\ toPlayer' = Append(toPlayer, sent')
      /\ UNCHANGED <<playerPc, told>>
  BY <1>1, ApplyOutcome DEF Inv
<1>3. toPlayer \in Seq(Cmd)
  BY DEF Inv, TypeOK
<1>4. CASE sent' = "none"
  <2>1. /\ gmPc' = "turn" /\ toPlayer' = toPlayer
        /\ Free(grid') # {} /\ \A p \in Side : ~ FullLine(grid', p)
    BY <1>2, <1>4 DEF Result
  <2>2. TypeOK'
    BY <1>2, <1>4, <2>1 DEF Inv, TypeOK
  <2>3. RequestInv'
    BY <1>2, <2>1 DEF RequestInv
  <2>4. ResultInv'
    BY <1>1, <1>2, <1>4, <2>1 DEF Inv, ResultInv
  <2>5. GameInv'
    BY <1>2, <1>4, <2>1 DEF GameInv
  <2> QED
    BY <2>2, <2>3, <2>4, <2>5 DEF Inv
<1>5. CASE sent' # "none"
  <2>1. PICK r \in Result : r = sent'
    BY <1>2, <1>5
  <2>2. gmPc' = "end" /\ toPlayer' = Append(toPlayer, r) /\ r \in Cmd \ Asks
    BY <1>2, <1>5, <2>1 DEF Result, Cmd, Asks
  <2>3. TypeOK'
    BY <1>2, <1>3, <2>1, <2>2, Sends DEF Inv, TypeOK
  <2>4. RequestInv'
    BY <1>2, <1>3, <2>2, SendsRequest DEF RequestInv
  <2>5. ResultInv'
    <3>1. PipeInv(Append(toPlayer, r), r, "none")
      BY <1>1, <1>3, SendsResult DEF Inv, ResultInv
    <3> QED
      BY <1>1, <1>2, <2>1, <2>2, <3>1 DEF Inv, ResultInv
  <2>6. GameInv'
    BY <1>2, <1>5, <2>2 DEF GameInv
  <2> QED
    BY <2>3, <2>4, <2>5, <2>6 DEF Inv
<1> QED
  BY <1>4, <1>5

\* What gm_send_cmd() does to the pipe of the player.
LEMMA SendInv ==
  ASSUME Inv, NEW cmd \in Cmd \ Result, gm_send_cmd(cmd)
  PROVE  /\ toPlayer' \in Seq(Cmd)
         /\ NoRequest(toPlayer) =>
              IF cmd \in Asks THEN OneRequest(toPlayer') ELSE NoRequest(toPlayer')
         /\ (cmd = "GAME_END" => sent # "none") => PipeInv(toPlayer', sent, told)
<1>1. toPlayer \in Seq(Cmd) /\ toPlayer' = Append(toPlayer, cmd)
  BY DEF Inv, TypeOK, gm_send_cmd
<1> QED
  BY <1>1, Sends, SendsRequest, SendsOther DEF Inv, ResultInv

\* Every step keeps the inductive invariant.
LEMMA NextInv == Inv /\ [Next]_vars => Inv'
<1> SUFFICES ASSUME Inv, [Next]_vars PROVE Inv'
  OBVIOUS
<1>1. ASSUME NEW move \in 0..8, toGm # <<>>, gmPc = "get"
      PROVE  /\ NoRequest(toPlayer) /\ playerPc # "input"
             /\ Tail(toGm) = <<>>
  <2>1. NoRequest(toPlayer) /\ playerPc # "input" /\ Len(toGm) = 1
    BY <1>1 DEF Inv, RequestInv
  <2>2. toGm \in Seq(0..8)
    BY DEF Inv, TypeOK
  <2>3. Tail(toGm) \in Seq(0..8) /\ Len(Tail(toGm)) = 0
    BY <1>1, <2>1, <2>2
  <2>4. Tail(toGm) = <<>>
    BY <2>3, EmptySeq
  <2> QED
    BY <2>1, <2>4
<1>2. CASE IpcInit
  BY <1>2 DEF IpcInit, Inv, TypeOK, RequestInv, ResultInv, GameInv
<1>3. CASE IpcError
  BY <1>3 DEF IpcError, Inv, TypeOK, RequestInv, ResultInv, GameInv
<1>4. CASE Fork
  BY <1>4 DEF Fork, Inv, TypeOK, RequestInv, ResultInv, GameInv
<1>5. CASE ForkFails
  BY <1>5 DEF ForkFails, Inv, TypeOK, RequestInv, ResultInv, GameInv
<1>6. CASE GameStart
  <2>1. "GAME_START" \in (Cmd \ Result) \ Asks
    BY DEF Cmd, Result, Asks
  <2>2. /\ toPlayer' \in Seq(Cmd)
        /\ NoRequest(toPlayer) => NoRequest(toPlayer')
        /\ PipeInv(toPlayer', sent, told)
    BY <1>6, <2>1, SendInv DEF GameStart
  <2> QED
    BY <1>6, <2>2 DEF GameStart, Inv, TypeOK, RequestInv, ResultInv, GameInv
<1>7. CASE AskMove
  <2>1. "YOU_CAN_PLAY" \in Cmd \ Result /\ "YOU_CAN_PLAY" \in Asks
    BY DEF Cmd, Result, Asks
  <2>2. /\ toPlayer' \in Seq(Cmd)
        /\ NoRequest(toPlayer) => OneRequest(toPlayer')
        /\ PipeInv(toPlayer', sent, told)
    BY <1>7, <2>1, SendInv DEF AskMove
  <2> QED
    BY <1>7, <2>2 DEF AskMove, Inv, TypeOK, RequestInv, ResultInv, GameInv
<1>8. CASE GetMove
  <2>1. PICK move \in 0..8 :
          /\ gm_get_cmd(move)
          /\ IF Legal(move) THEN Apply(move)
             ELSE /\ gm_send_cmd("MOVE_REJECTED")
                  /\ UNCHANGED <<gmPc, playerPc, grid, turn, sent, told>>
    BY <1>8 DEF GetMove
  <2>2. gmPc = "get" /\ NoRequest(toPlayer) /\ playerPc # "input" /\ toGm' = <<>>
    BY <1>1, <1>8, <2>1 DEF GetMove, gm_get_cmd
  <2>3. CASE Legal(move)
    <3>1. move \in Free(grid)
      BY <2>3 DEF Legal, Free
    <3> QED
      BY <2>1, <2>2, <2>3, <3>1, ApplyInv
  <2>4. CASE ~ Legal(move)
    <3>1. "MOVE_REJECTED" \in Cmd \ Result /\ "MOVE_REJECTED" \in Asks
      BY DEF Cmd, Result, Asks
    <3>2. /\ toPlayer' \in Seq(Cmd)
          /\ OneRequest(toPlayer')
          /\ PipeInv(toPlayer', sent, told)
      BY <2>1, <2>2, <2>4, <3>1, SendInv
    <3> QED
      BY <2>1, <2>2, <2>4, <3>2
      DEF Inv, TypeOK, RequestInv, ResultInv, GameInv
  <2> QED
    BY <2>3, <2>4
<1>9. CASE ComputersTurn
  <2>1. PICK move \in Free(grid) : Apply(move)
    BY <1>9, ComputerPlays
  <2>2. /\ gmPc = "turn" /\ NoRequest(toPlayer) /\ playerPc # "input"
        /\ toGm' = <<>>
    BY <1>9 DEF ComputersTurn, Inv, RequestInv
  <2> QED
    BY <2>1, <2>2, ApplyInv
<1>10. CASE GameEnd
  <2>1. "GAME_END" \in (Cmd \ Result) \ Asks
    BY DEF Cmd, Result, Asks
  <2>2. sent # "none"
    BY <1>10 DEF GameEnd, Inv, GameInv
  <2>3. /\ toPlayer' \in Seq(Cmd)
        /\ NoRequest(toPlayer) => NoRequest(toPlayer')
        /\ PipeInv(toPlayer', sent, told)
    BY <1>10, <2>1, <2>2, SendInv DEF GameEnd
  <2> QED
    BY <1>10, <2>2, <2>3
    DEF GameEnd, Inv, TypeOK, RequestInv, ResultInv, GameInv
<1>11. CASE Waitpid
  BY <1>11 DEF Waitpid, Inv, TypeOK, RequestInv, ResultInv, GameInv
<1>12. CASE Exec
  BY <1>12 DEF Exec, Inv, TypeOK, RequestInv, ResultInv, GameInv
<1>13. CASE ExecFails
  BY <1>13 DEF ExecFails, Inv, TypeOK, RequestInv, ResultInv, GameInv
<1>14. CASE GetCmd
  <2>1. PICK cmd \in Cmd :
          /\ player_get_cmd(cmd)
          /\ playerPc' = IF AsksMove(cmd) THEN "input"
                         ELSE IF Ends(cmd) THEN "done" ELSE "loop"
          /\ told' = IF Ends(cmd) THEN cmd ELSE told
    BY <1>14 DEF GetCmd
  <2>2. /\ playerPc = "loop"
        /\ UNCHANGED <<gmPc, grid, turn, toGm, sent>>
    BY <1>14 DEF GetCmd
  <2>3. /\ toPlayer \in Seq(Cmd) /\ toPlayer # <<>>
        /\ cmd = Head(toPlayer) /\ toPlayer' = Tail(toPlayer)
    BY <2>1 DEF player_get_cmd, Inv, TypeOK
  <2>4. told = "none" /\ PipeInv(toPlayer, sent, "none")
    BY <2>2 DEF Inv, ResultInv
  <2>5. IF Ends(cmd) THEN cmd = sent /\ PipeInv(toPlayer', sent, sent)
        ELSE PipeInv(toPlayer', sent, "none")
    BY <2>3, <2>4, ReceivesResult
  <2>6. TypeOK'
    <3>1. toPlayer' \in Seq(Cmd)
      BY <2>3, Receives
    <3>2. told' \in Result \cup {"none", "GAME_END"}
      BY <2>1, <2>4 DEF Ends
    <3> QED
      BY <2>1, <2>2, <3>1, <3>2 DEF Inv, TypeOK
  <2>7. RequestInv'
    <3>1. AsksMove(cmd) <=> cmd \in Asks
      BY DEF AsksMove, Asks
    <3>2. /\ NoRequest(toPlayer) => cmd \notin Asks /\ NoRequest(toPlayer')
          /\ OneRequest(toPlayer) => IF cmd \in Asks THEN NoRequest(toPlayer')
                                     ELSE OneRequest(toPlayer')
      BY <2>3, ReceivesRequest
    <3> QED
      BY <2>1, <2>2, <3>1, <3>2 DEF Inv, RequestInv
  <2>8. ResultInv'
    <3>1. CASE Ends(cmd)
      <4>1. ~ AsksMove(cmd)
        BY <3>1 DEF Ends, AsksMove, Result
      <4> QED
        BY <2>1, <2>2, <2>5, <3>1, <4>1 DEF ResultInv
    <3>2. CASE ~ Ends(cmd)
      BY <2>1, <2>2, <2>4, <2>5, <3>2 DEF ResultInv
    <3> QED
      BY <3>1, <3>2
  <2>9. GameInv'
    BY <2>2 DEF Inv, GameInv
  <2> QED
    BY <2>6, <2>7, <2>8, <2>9 DEF Inv
<1>15. ASSUME NEW number \in 1..9, InputMove(number)
       PROVE  Inv'
  <2>1. toGm = <<>> /\ NoRequest(toPlayer) /\ gmPc = "get"
    BY <1>15 DEF InputMove, Inv, RequestInv
  <2>2. toGm' = <<number - 1>> /\ number - 1 \in 0..8
    BY <1>15, <2>1 DEF InputMove, player_send_cmd, IndexOf
  <2>3. toGm' \in Seq(0..8) /\ Len(toGm') = 1
    BY <2>2
  <2> QED
    BY <1>15, <2>1, <2>3
    DEF InputMove, Inv, TypeOK, RequestInv, ResultInv, GameInv
<1>16. CASE UNCHANGED vars
  BY <1>16 DEF vars, Inv, TypeOK, RequestInv, ResultInv, GameInv
<1> QED
  BY <1>2, <1>3, <1>4, <1>5, <1>6, <1>7, <1>8, <1>9, <1>10, <1>11, <1>12,
     <1>13, <1>14, <1>15, <1>16 DEF Next, GmStep, PlayerStep

-----------------------------------------------------------------------------
(* The theorems *)

\* The inductive invariant holds in every behaviour, for every width of the
\* grid and every depth of the search.
THEOREM InvHolds == Spec => []Inv
<1>1. Init => Inv
  BY InitInv
<1>2. Inv /\ [Next]_vars => Inv'
  BY NextInv
<1> QED
  BY <1>1, <1>2, PTL DEF Spec

\* Every variable of the game and of its pipes keeps its type; in particular
\* both sides write only on the cells of the grid.
THEOREM TypeCorrect == Spec => []TypeOK
<1>1. Inv => TypeOK
  BY DEF Inv
<1> QED
  BY <1>1, InvHolds, PTL

\* One request for a move is under way exactly when the game manager waits for
\* one (get_player_move() and the loop of the player), on every grid.
THEOREM OneRequestAtATime == Spec => []OneRequestOutstanding
<1>1. ASSUME Inv PROVE OneRequestOutstanding
  <2> DEFINE Requests == Occurrences({"YOU_CAN_PLAY", "MOVE_REJECTED"}, toPlayer)
  <2>1. NoRequest(toPlayer) => Cardinality(Requests) = 0
    <3>1. NoRequest(toPlayer) => Requests = {}
      BY DEF NoRequest, Asks, Occurrences
    <3> QED
      BY <3>1, FS_EmptySet
  <2>2. OneRequest(toPlayer) => Cardinality(Requests) = 1
    <3>1. OneRequest(toPlayer) => \E k : Requests = {k}
      BY DEF OneRequest, Asks, Occurrences
    <3> QED
      BY <3>1, FS_Singleton
  <2>3. toGm = <<>> => Len(toGm) = 0
    OBVIOUS
  <2> HIDE DEF Requests
  <2>4. Cardinality(Requests) + (IF playerPc = "input" THEN 1 ELSE 0) + Len(toGm)
          = IF gmPc = "get" THEN 1 ELSE 0
    <3>1. CASE gmPc # "get"
      BY <1>1, <2>1, <2>3, <3>1 DEF Inv, RequestInv
    <3>2. CASE gmPc = "get" /\ playerPc = "input"
      BY <1>1, <2>1, <2>3, <3>2 DEF Inv, RequestInv
    <3>3. CASE gmPc = "get" /\ playerPc # "input" /\ OneRequest(toPlayer)
               /\ toGm = <<>>
      BY <2>2, <2>3, <3>3
    <3>4. CASE gmPc = "get" /\ playerPc # "input" /\ NoRequest(toPlayer)
               /\ Len(toGm) = 1
      BY <2>1, <3>4
    <3> QED
      BY <1>1, <3>1, <3>2, <3>3, <3>4 DEF Inv, RequestInv
  <2> QED
    BY <2>4 DEF OneRequestOutstanding, Requests
<1> QED
  BY <1>1, InvHolds, PTL

\* The board of the properties is that of the grid.
LEMMA BoardOfTheGrid == Board = BoardOf(grid)
BY DEF Board, BoardOf

\* Whatever the interleaving of the two processes, the player ends with the
\* result that the grid has by the rules and never with GAME_END first: the sums
\* of win() and the order of the pipe, on every grid.
THEOREM RightOutcomeTold == Spec => []OutcomeTold
<1>1. ASSUME Inv PROVE OutcomeTold
  <2>1. told \in {"none", sent} /\ sent \in Result \cup {"none"}
    BY <1>1 DEF Inv, TypeOK, ResultInv
  <2>2. Game!Outcome(Board) = OutcomeOf(sent)
    BY <1>1, BoardOfTheGrid DEF Inv, GameInv
  <2> QED
    BY <2>1, <2>2 DEF OutcomeTold, OutcomeOf, Result
<1> QED
  BY <1>1, InvHolds, PTL

\* Every step of the game manager is a move allowed by the rules, with the
\* outcome of the rules, or leaves the board alone; on every grid.
THEOREM KeepsTheRules == Spec => ImplementsGame
<1> DEFINE outcome == CASE sent = "YOU_WIN" -> "player"
                        [] sent = "YOU_LOSE" -> "computer"
                        [] sent = "NO_WINNER" -> "draw"
                        [] sent = "none" -> "none"
           side == IF turn = PLAYER_ID THEN "player" ELSE "computer"
<1>1. Init => Game!GInit
  <2> SUFFICES ASSUME Init PROVE Game!GInit
    OBVIOUS
  <2>1. Board = [c \in Cell |-> "free"]
    BY DEF Init, Board, EMPTY_ID, PLAYER_ID, AI_ID
  <2> QED
    BY <2>1 DEF Init, Game!GInit, Game!Cell, Cell
<1>2. ASSUME Inv, NEW c \in Free(grid), sent = "none", Apply(c)
      PROVE  Game!Mark(c)
  <2>1. /\ grid \in Grid /\ grid' \in Grid /\ turn \in Side
        /\ Game!Outcome(BoardOf(grid')) = OutcomeOf(sent')
        /\ grid' = [grid EXCEPT ![c] = turn] /\ turn' = -turn
    BY <1>2, ApplyOutcome DEF Inv, TypeOK, GameInv, Apply
  <2>2. c \in Cell /\ grid[c] = EMPTY_ID
    BY DEF Free
  <2>3. Board[c] = "free"
    BY <2>2 DEF Board, EMPTY_ID, PLAYER_ID, AI_ID
  <2>4. Board' = [Board EXCEPT ![c] = side]
    <3>1. \A d \in Cell : Board'[d] = IF d = c THEN side ELSE Board[d]
      BY <2>1, <2>2 DEF Board, Grid, Side, EMPTY_ID, PLAYER_ID, AI_ID
    <3>2. /\ Board = [d \in Cell |-> Board[d]]
          /\ Board' = [d \in Cell |-> Board'[d]]
      <4> DEFINE mark(id) == CASE id = PLAYER_ID -> "player"
                               [] id = AI_ID -> "computer"
                               [] id = EMPTY_ID -> "free"
      <4>1. Board = [d \in Cell |-> mark(grid[d])]
        BY DEF Board
      <4>2. Board' = [d \in Cell |-> mark(grid'[d])]
        BY DEF Board
      <4> HIDE DEF mark
      <4> QED
        BY <4>1, <4>2
    <3> HIDE DEF side
    <3> QED
      BY <3>1, <3>2
  <2>5. Board' = BoardOf(grid')
    BY DEF Board, BoardOf
  <2>6. Game!Outcome(Board') = outcome'
    BY <2>1, <2>5 DEF OutcomeOf
  <2>7. side' = CHOOSE s \in Game!Side : s # side
    BY <2>1 DEF Game!Side, Side, PLAYER_ID, AI_ID
  <2> QED
    BY <1>2, <2>2, <2>3, <2>4, <2>6, <2>7 DEF Game!Mark
<1>3. ASSUME Inv, [Next]_vars
      PROVE  [\E c \in Game!Cell : Game!Mark(c)]_<<Board, side, outcome>>
  <2>1. ASSUME NEW c \in Free(grid), gmPc \in {"get", "turn"}, Apply(c)
        PROVE  \E d \in Game!Cell : Game!Mark(d)
    BY <1>2, <1>3, <2>1 DEF Inv, GameInv, Free, Game!Cell, Cell
  <2>2. CASE UNCHANGED <<grid, turn, sent>>
    BY <2>2 DEF Board
  <2>3. CASE GetMove
    <3>1. PICK move \in 0..8 :
            IF Legal(move) THEN Apply(move) ELSE UNCHANGED <<grid, turn, sent>>
      BY <2>3 DEF GetMove
    <3> QED
      BY <2>1, <2>2, <2>3, <3>1 DEF GetMove, Legal, Free
  <2>4. CASE ComputersTurn
    BY <1>3, <2>1, <2>4, ComputerPlays DEF ComputersTurn
  <2>5. CASE /\ ~ GetMove /\ ~ ComputersTurn
    <3>1. UNCHANGED <<grid, turn, sent>>
      BY <1>3, <2>5
      DEF Next, GmStep, PlayerStep, vars, IpcInit, IpcError, Fork, ForkFails,
          GameStart, AskMove, GameEnd, Waitpid, Exec, ExecFails, GetCmd,
          InputMove
    <3> QED
      BY <2>2, <3>1
  <2> QED
    BY <2>3, <2>4, <2>5
<1> QED
  BY <1>1, <1>3, InvHolds, PTL
  DEF Spec, ImplementsGame, Game!Game

=============================================================================
