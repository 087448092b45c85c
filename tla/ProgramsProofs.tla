--------------------------- MODULE ProgramsProofs ---------------------------
(***************************************************************************)
(* Proofs about Programs.tla, for any number of pids, any loop count N and *)
(* any set of commands.                                                    *)
(*                                                                         *)
(* The inductive invariant has five parts.  KernelInv is what the programs *)
(* rely on in the PCBs; LocalsInv and ThreadInv tie the locals of a        *)
(* program to the line it is at.  OwnInv says that the pids a program      *)
(* keeps are those of its own uncollected children, once each, as long as  *)
(* count.elf is there.  CleanInv holds without it too: it says where every *)
(* process that is not loose is expected by its parent.  For the last      *)
(* theorem, about the programs and the kernel together, JoinInv and        *)
(* RootInv add that whoever blocks waits for a thread that will end, and   *)
(* that the root process is there for good.                                *)
(***************************************************************************)
EXTENDS Programs, FiniteSetTheorems, WellFoundedInduction, TLAPS

Alive == {"user", "exiting", "joining", "woken"}

\* Inside a waitpid() that blocked, or about to return from it.
Asked(p) == pc[p] \in {"joining", "woken"}

\* The fields of a PCB, as far as the programs rely on them.
PcbInv ==
  /\ \A p \in Pid :
       /\ p >= pid_current => /\ pc[p] = "none" /\ p \notin procList
                              /\ joinQueue[p] = {} /\ mainThread[p] = "none"
       /\ p < pid_current => pc[p] # "none"
       /\ pc[p] \in Alive <=> mainThread[p] = "live"
       /\ mainThread[p] = "zombie" => pc[p] = "dead"
       /\ mainThread[p] # "none" => p \in procList
       /\ p \in procList /\ p # Root => parent[p] \in Pid /\ parent[p] < p
  /\ parent[Root] = NULL

\* Who is on a join queue is blocked there, and awaits a process that exists.
QueueInv ==
  /\ \A p, q \in Pid : q \in joinQueue[p] => pc[q] = "joining" /\ child[q] = p
  /\ \A p \in Pid : Asked(p) => child[p] \in Pid /\ child[p] < pid_current
  /\ \A p \in Pid : pc[p] = "woken" => mainThread[child[p]] # "live"

KernelInv == K!TypeOK /\ PcbInv /\ QueueInv

\* Where a program stands says what it has in its locals, and whether it may
\* be inside waitpid().
LocalsOf(p) ==
  /\ p >= pid_current => at[p] = "none" /\ prog[p] = "none" /\ toWait[p] = <<>>
  /\ at[p] = "wait" => toWait[p] # <<>> /\ ~IsThreads(p)
  /\ at[p] = "exec" => id[p] < N /\ IsCount(p)
  /\ at[p] \notin {"wait", "loop", "exec"} => toWait[p] = <<>>
  /\ at[p] = "loop" => (prog[p] = "count_p" /\ id[p] < N) \/ toWait[p] = <<>>
  /\ Asked(p) => at[p] \in {"prompt", "wait", "loop"}
  /\ \A i \in 1..Len(toWait[p]) : toWait[p][i] < pid_current

LocalsInv == \A p \in Pid : LocalsOf(p)

\* The threads of "threads" exist only in its loop and its joins, at most one
\* in mode s, and each with its own argument.
ThreadsOf(p) ==
  /\ ~(IsThreads(p) /\ at[p] \in {"loop", "join"}) => Unjoined(p) = {}
  /\ prog[p] = "threads_p" /\ at[p] = "loop" => id[p] < N
  /\ prog[p] = "threads_s" /\ at[p] = "loop" => Unjoined(p) = {}
  /\ prog[p] = "threads_s" /\ at[p] = "join" => id[p] < N /\ Unjoined(p) \subseteq {id[p]}
  /\ \A i \in Number : threads[p][i] # "wrong"

ThreadInv == \A p \in Pid : ThreadsOf(p)

\* With count.elf, a program lists its own uncollected children, once each,
\* and not the one it waits for.  Between fork and exec a child of
\* count_parallel still has the list of its parent.
OwnOf(p) ==
  /\ \A i \in 1..Len(toWait[p]) :
       /\ toWait[p][i] \in Pid /\ parent[toWait[p][i]] = p
       /\ mainThread[toWait[p][i]] # "none"
       /\ \A j \in 1..Len(toWait[p]) : toWait[p][i] = toWait[p][j] => i = j
  /\ Asked(p) => /\ parent[child[p]] = p /\ mainThread[child[p]] # "none"
                 /\ \A i \in 1..Len(toWait[p]) : toWait[p][i] # child[p]

OwnInv == Installed => \A p \in Pid : at[p] = "exec" \/ OwnOf(p)

\* The pids a program has still to wait for.
Listed(p) == {toWait[p][i] : i \in 1..Len(toWait[p])}

\* p has still to wait for c, or does so now.
Expects(p, c) == c \in Listed(p) \/ (Asked(p) /\ child[p] = c)

Mine(c) == c \in procList \ {Root} /\ ~loose[c]

\* A process that is not loose is expected by its parent, which has not begun
\* to exit, until somebody collects it.
Expected ==
  \A c \in Pid : Mine(c) /\ mainThread[c] # "none" =>
    pc[parent[c]] \in {"user", "joining", "woken"} /\ Expects(parent[c], c)

\* From then on it is kept for a child that is loose, or collected itself.
KeptForLoose ==
  \A c \in Pid : Mine(c) /\ mainThread[c] = "none" =>
    \E d \in procList \ {Root} : parent[d] = c /\ (loose[d] \/ mainThread[d] = "none")

\* Nobody expects a background command or the left side of a pipe, and what
\* these start is loose like them.
LooseInv ==
  /\ \A c \in procList \ {Root} : loose[c] /\ ~loose[parent[c]] =>
       \A q \in Pid : ~Expects(q, c)
  /\ \A c \in procList \ {Root} : loose[parent[c]] => loose[c]
  /\ ~loose[Root]

NoChildAtExec == \A c \in procList \ {Root} : at[parent[c]] # "exec"

CleanInv ==
  panic = "no" => Expected /\ KeptForLoose /\ LooseInv /\ NoChildAtExec

-----------------------------------------------------------------------------
(* The kernel: what its steps keep of the PCBs, whoever calls. *)

\* Every step of the kernel that some action of a program takes.
KernelStep(p) ==
  \/ K!Fork(p) \/ K!Exec(p) \/ K!ExecAsserts(p)
  \/ K!BeginExit(p) \/ K!FinishExit(p)
  \/ \E c \in Pid \cup {NULL} : Waits(p, c)
  \/ K!WaitReturn(p) \/ K!WaitStale(p)

LEMMA PidFacts ==
  /\ Pid = 1..MaxPid /\ K!Pid = 1..MaxPid /\ MaxPid \in Nat /\ MaxPid >= 1
  /\ Root = 1 /\ NULL = 0 /\ K!Root = 1 /\ K!NULL = 0
  /\ Root \in Pid /\ NULL \notin Pid
BY MaxPidAssumption DEF Pid, Root, NULL, K!Pid, K!Root, K!NULL

LEMMA InitKernel == K!Init => KernelInv
BY PidFacts
DEF K!Init, KernelInv, K!TypeOK, PcbInv, QueueInv, Alive, Asked, K!PcbState,
    K!Pc, K!Panic

\* A call that stops the kernel, or changes nothing but what it returns.
LEMMA QuietKernel ==
  ASSUME KernelInv,
         UNCHANGED <<procList, pid_current, parent, state, mainThread, pgtable,
                     joinQueue, pc, child>>,
         panic' \in K!Panic,
         ret' \in [by : Pid \cup {NULL}, call : {"none", "fork", "waitpid"},
                   arg : Int, val : Int]
  PROVE  KernelInv'
BY PidFacts DEF KernelInv, K!TypeOK, PcbInv, QueueInv, Alive, Asked

LEMMA StopKernel ==
  ASSUME KernelInv, NEW why \in K!Panic, K!Stop(why) PROVE KernelInv'
<1>1. ret' \in [by : Pid \cup {NULL}, call : {"none", "fork", "waitpid"},
                arg : Int, val : Int]
  BY PidFacts DEF KernelInv, K!TypeOK, K!Stop
<1> QED
  BY <1>1, QuietKernel DEF K!Stop

LEMMA ForkKernel ==
  ASSUME KernelInv, NEW p \in Pid, K!Fork(p) PROVE KernelInv'
<1> USE PidFacts DEF KernelInv
<1> DEFINE new == pid_current
<1>0. /\ new \in Pid /\ new > 1 /\ pc[new] = "none" /\ new \notin procList
      /\ joinQueue[new] = {} /\ p # new /\ p \in procList /\ p < new
  BY DEF K!Fork, K!Running, K!TypeOK, PcbInv, Alive
<1>1. K!TypeOK'
  <2>1. ret' \in [by : Pid \cup {NULL}, call : {"none", "fork", "waitpid"},
                  arg : Int, val : Int]
    BY <1>0 DEF K!Fork, K!Returns
  <2> QED
    BY <1>0, <2>1 DEF K!Fork, K!TypeOK, K!NextPid, K!Pc, K!PcbState
<1>2. PcbInv'
  BY <1>0 DEF K!Fork, K!NextPid, K!TypeOK, PcbInv, Alive
<1>3. QueueInv'
  <2>1. ASSUME NEW a \in Pid, NEW b \in Pid, (b \in joinQueue[a])'
        PROVE (pc[b] = "joining" /\ child[b] = a)'
    BY <1>0, <2>1 DEF K!Fork, K!TypeOK, QueueInv
  <2>2. ASSUME NEW b \in Pid, Asked(b)'
        PROVE (child[b] \in Pid /\ child[b] < pid_current)'
    BY <1>0, <2>2 DEF K!Fork, K!NextPid, K!TypeOK, QueueInv, Asked
  <2>3. ASSUME NEW b \in Pid, (pc[b] = "woken")'
        PROVE (mainThread[child[b]] # "live")'
    BY <1>0, <2>3 DEF K!Fork, K!TypeOK, QueueInv, Asked
  <2> QED
    BY <2>1, <2>2, <2>3 DEF QueueInv
<1> QED
  BY <1>1, <1>2, <1>3

\* The waiter of the old main thread is moved to the new one.
LEMMA ExecSame ==
  ASSUME KernelInv, NEW p \in Pid, K!Exec(p) PROVE UNCHANGED kernel
BY PidFacts DEF K!Exec, K!Migrated, KernelInv, K!TypeOK, kernel

LEMMA ExitKernel ==
  ASSUME KernelInv, NEW p \in Pid, K!BeginExit(p) PROVE KernelInv'
<1> USE PidFacts DEF KernelInv
<1>1. K!TypeOK'
  BY DEF K!BeginExit, K!TypeOK, K!Pc
<1>2. PcbInv'
  BY DEF K!BeginExit, K!Running, K!TypeOK, PcbInv, Alive
<1>3. QueueInv'
  BY DEF K!BeginExit, K!Running, K!TypeOK, QueueInv, Asked
<1> QED
  BY <1>1, <1>2, <1>3

LEMMA FinishExitKernel ==
  ASSUME KernelInv, NEW p \in Pid, K!FinishExit(p) PROVE KernelInv'
<1> USE PidFacts DEF KernelInv
<1>0. /\ mainThread[p] = "live" /\ p < pid_current
      /\ \A q \in joinQueue[p] : /\ q \in Pid /\ q # p /\ pc[q] = "joining"
                                 /\ child[q] = p
  BY DEF K!FinishExit, K!TypeOK, PcbInv, QueueInv, Alive
<1>1. K!TypeOK'
  BY DEF K!FinishExit, K!TypeOK, K!Woken, K!Pc, K!PcbState
<1>2. PcbInv'
  <2>1. \A q \in Pid : pc'[q] \in Alive <=> (q # p /\ pc[q] \in Alive)
    BY <1>0 DEF K!FinishExit, K!Woken, K!TypeOK, Alive
  <2>2. \A q \in Pid : /\ pc'[q] = "none" <=> pc[q] = "none"
                       /\ pc'[q] = "dead" <=> (q = p \/ pc[q] = "dead")
    BY <1>0 DEF K!FinishExit, K!Woken, K!TypeOK
  <2> QED
    BY <1>0, <2>1, <2>2 DEF K!FinishExit, K!TypeOK, PcbInv
<1>3. QueueInv'
  <2>1. ASSUME NEW a \in Pid, NEW b \in Pid, (b \in joinQueue[a])'
        PROVE (pc[b] = "joining" /\ child[b] = a)'
    BY <1>0, <2>1 DEF K!FinishExit, K!Woken, K!TypeOK, QueueInv
  <2>2. ASSUME NEW b \in Pid, Asked(b)'
        PROVE (child[b] \in Pid /\ child[b] < pid_current)'
    BY <1>0, <2>2 DEF K!FinishExit, K!Woken, K!TypeOK, QueueInv, Asked
  <2>3. ASSUME NEW b \in Pid, (pc[b] = "woken")'
        PROVE (mainThread[child[b]] # "live")'
    BY <1>0, <2>3 DEF K!FinishExit, K!Woken, K!TypeOK, QueueInv, Asked
  <2> QED
    BY <2>1, <2>2, <2>3 DEF QueueInv
<1> QED
  BY <1>1, <1>2, <1>3

\* p reaps c and is back in user mode.
LEMMA ReapKernel ==
  ASSUME KernelInv, NEW c \in Pid, mainThread[c] # "live", K!Reap(c),
         NEW p \in Pid, pc[p] \in {"user", "woken"},
         pc' = [pc EXCEPT ![p] = "user"],
         child' \in [Pid -> Pid \cup {NULL}],
         \A q \in Pid : q # p => child'[q] = child[q],
         ret' \in [by : Pid \cup {NULL}, call : {"none", "fork", "waitpid"},
                   arg : Int, val : Int]
  PROVE  KernelInv'
<1> USE PidFacts DEF KernelInv
<1>1. K!TypeOK'
  BY DEF K!Reap, K!TypeOK, K!Pc
<1>2. PcbInv'
  BY DEF K!Reap, K!TypeOK, PcbInv, Alive
<1>3. QueueInv'
  <2>1. ASSUME NEW a \in Pid, NEW b \in Pid, (b \in joinQueue[a])'
        PROVE (pc[b] = "joining" /\ child[b] = a)'
    BY <2>1 DEF K!Reap, K!TypeOK, QueueInv
  <2>2. ASSUME NEW b \in Pid, Asked(b)'
        PROVE (child[b] \in Pid /\ child[b] < pid_current)'
    BY <2>2 DEF K!Reap, K!TypeOK, QueueInv, Asked
  <2>3. ASSUME NEW b \in Pid, (pc[b] = "woken")'
        PROVE (mainThread[child[b]] # "live")'
    BY <2>3 DEF K!Reap, K!TypeOK, QueueInv, Asked
  <2> QED
    BY <2>1, <2>2, <2>3 DEF QueueInv
<1> QED
  BY <1>1, <1>2, <1>3

LEMMA WaitsKernel ==
  ASSUME KernelInv, NEW p \in Pid, NEW c \in Pid \cup {NULL}, Waits(p, c)
  PROVE  KernelInv'
<1> USE PidFacts
<1>1. CASE c = NULL \/ K!WaitNotFound(p, c)
  <2>1. ret' \in [by : Pid \cup {NULL}, call : {"none", "fork", "waitpid"},
                  arg : Int, val : Int]
    BY <1>1 DEF Waits, K!WaitNotFound, K!Returns
  <2>2. UNCHANGED <<procList, pid_current, parent, state, mainThread, pgtable,
                    joinQueue, pc, child, panic>>
    BY <1>1 DEF Waits, K!WaitNotFound
  <2> QED
    BY <2>1, <2>2, QuietKernel DEF KernelInv, K!TypeOK
<1>2. CASE c # NULL /\ K!WaitBlock(p, c)
  <2> USE <1>2 DEF KernelInv
  <2>1. K!TypeOK'
    BY DEF K!WaitBlock, K!TypeOK, K!Pc
  <2>2. PcbInv'
    BY DEF K!WaitBlock, K!Running, K!TypeOK, PcbInv, Alive
  <2>3. QueueInv'
    <3>1. ASSUME NEW a \in Pid, NEW b \in Pid, (b \in joinQueue[a])'
          PROVE (pc[b] = "joining" /\ child[b] = a)'
      BY <3>1 DEF K!WaitBlock, K!Running, K!TypeOK, QueueInv
    <3>2. ASSUME NEW b \in Pid, Asked(b)'
          PROVE (child[b] \in Pid /\ child[b] < pid_current)'
      BY <3>2 DEF K!WaitBlock, K!Running, K!TypeOK, QueueInv, PcbInv, Asked
    <3>3. ASSUME NEW b \in Pid, (pc[b] = "woken")'
          PROVE (mainThread[child[b]] # "live")'
      BY <3>3 DEF K!WaitBlock, K!Running, K!TypeOK, QueueInv, Asked
    <3> QED
      BY <3>1, <3>2, <3>3 DEF QueueInv
  <2> QED
    BY <2>1, <2>2, <2>3
<1>3. CASE c # NULL /\ K!WaitZombie(p, c)
  <2>1. ret' \in [by : Pid \cup {NULL}, call : {"none", "fork", "waitpid"},
                  arg : Int, val : Int]
    BY <1>3 DEF K!WaitZombie, K!Returns
  <2>2. /\ c \in Pid /\ K!Reap(c) /\ mainThread[c] # "live" /\ pc[p] = "user"
        /\ child' = child /\ pc' = [pc EXCEPT ![p] = "user"]
    BY <1>3 DEF K!WaitZombie, K!Running, KernelInv, K!TypeOK
  <2> QED
    BY <2>1, <2>2, ReapKernel DEF KernelInv, K!TypeOK
<1>4. CASE c # NULL /\ K!WaitNullJoin(p, c)
  BY <1>4, StopKernel DEF K!WaitNullJoin, K!Panic
<1> QED
  BY <1>1, <1>2, <1>3, <1>4 DEF Waits

LEMMA WaitReturnKernel ==
  ASSUME KernelInv, NEW p \in Pid, K!WaitReturn(p) PROVE KernelInv'
<1> USE PidFacts
<1>1. /\ child[p] \in Pid /\ mainThread[child[p]] # "live" /\ K!Reap(child[p])
      /\ pc[p] \in {"user", "woken"} /\ pc' = [pc EXCEPT ![p] = "user"]
      /\ child' \in [Pid -> Pid \cup {NULL}]
      /\ \A q \in Pid : q # p => child'[q] = child[q]
  BY DEF K!WaitReturn, KernelInv, K!TypeOK, QueueInv, Asked
<1>2. ret' \in [by : Pid \cup {NULL}, call : {"none", "fork", "waitpid"},
                arg : Int, val : Int]
  BY <1>1 DEF K!WaitReturn, K!Returns
<1> QED
  BY <1>1, <1>2, ReapKernel

LEMMA StepKernel ==
  ASSUME KernelInv, NEW p \in Pid, KernelStep(p) \/ UNCHANGED kernel
  PROVE  KernelInv'
<1>1. CASE UNCHANGED kernel
  BY <1>1 DEF kernel, KernelInv, K!TypeOK, PcbInv, QueueInv, Asked
<1>2. CASE K!ExecAsserts(p) \/ K!WaitStale(p)
  BY <1>2, StopKernel DEF K!ExecAsserts, K!WaitStale, K!Panic
<1> QED
  BY <1>1, <1>2, ForkKernel, ExecSame, ExitKernel, FinishExitKernel, WaitsKernel,
     WaitReturnKernel DEF KernelStep

-----------------------------------------------------------------------------
(* The locals of the programs. *)

\* What holds whether or not count.elf is there.
BaseInv == TypeOK /\ KernelInv /\ LocalsInv /\ ThreadInv

LEMMA InitBase == Init => BaseInv
<1> SUFFICES ASSUME Init PROVE BaseInv
  OBVIOUS
<1> USE PidFacts, NAssumption
<1>1. KernelInv
  BY InitKernel DEF Init
<1>2. TypeOK
  BY <1>1 DEF Init, TypeOK, KernelInv, File, Jobs, Loops, Number, End
<1>3. LocalsInv
  BY DEF Init, K!Init, LocalsInv, LocalsOf, Asked, IsThreads, IsCount
<1>4. ThreadInv
  BY DEF Init, ThreadInv, ThreadsOf, IsThreads, Unjoined
<1> QED
  BY <1>1, <1>2, <1>3, <1>4 DEF BaseInv

\* A process whose program does nothing.
LEMMA IdleBase ==
  ASSUME BaseInv, KernelInv', NEW q \in Pid,
         at'[q] = at[q], prog'[q] = prog[q], toWait'[q] = toWait[q],
         id'[q] = id[q], threads'[q] = threads[q],
         Asked(q)' => Asked(q), pid_current' >= pid_current
  PROVE  LocalsOf(q)' /\ ThreadsOf(q)'
<1> USE PidFacts, NAssumption DEF BaseInv
<1>1. LocalsOf(q) /\ ThreadsOf(q)
  BY DEF LocalsInv, ThreadInv
<1>2. pid_current \in Int /\ pid_current' \in Int
  BY DEF KernelInv, K!TypeOK
<1>3. ThreadsOf(q)'
  BY <1>1 DEF ThreadsOf, Unjoined, IsThreads
<1>4. \A i \in 1..Len(toWait[q]) : toWait[q][i] \in Int
  BY DEF TypeOK
<1>5. LocalsOf(q)'
  BY <1>1, <1>2, <1>4 DEF LocalsOf, IsThreads, IsCount, Asked
<1> QED
  BY <1>3, <1>5

\* A process with an empty list and no threads, at a line that asks nothing
\* more.
LEMMA PlainBase ==
  ASSUME KernelInv', NEW q \in Pid, q < pid_current',
         toWait'[q] = <<>>, Unjoined(q)' = {}, ~Asked(q)',
         at'[q] \notin {"wait", "exec"},
         at'[q] \in {"loop", "join"} => id'[q] = 0,
         \A i \in Number : threads'[q][i] # "wrong"
  PROVE  LocalsOf(q)' /\ ThreadsOf(q)'
<1> USE PidFacts, NAssumption
<1>1. pid_current' \in Int
  BY DEF KernelInv, K!TypeOK
<1>2. LocalsOf(q)'
  BY <1>1 DEF LocalsOf
<1>3. ThreadsOf(q)'
  BY DEF ThreadsOf
<1> QED
  BY <1>2, <1>3

\* exit() from a line where no thread is left.
LEMMA ExitsBase ==
  ASSUME BaseInv, NEW p \in Pid, Exits(p), Unjoined(p) = {}
  PROVE  BaseInv'
<1> USE PidFacts, NAssumption DEF BaseInv
<1>1. KernelInv' /\ pid_current' = pid_current
  BY ExitKernel DEF Exits, K!BeginExit
<1>2. TypeOK'
  BY <1>1 DEF Exits, TypeOK, KernelInv
<1>3. \A q \in Pid : pc'[q] = IF q = p THEN "exiting" ELSE pc[q]
  BY DEF Exits, K!BeginExit, KernelInv, K!TypeOK
<1>4. ASSUME NEW q \in Pid PROVE LocalsOf(q)' /\ ThreadsOf(q)'
  <2>1. CASE q = p
    <3>1. q < pid_current'
      BY <1>1, <2>1 DEF Exits, K!BeginExit, K!Running, KernelInv, K!TypeOK, PcbInv
    <3>2. /\ toWait'[q] = <<>> /\ at'[q] = "exit" /\ ~Asked(q)' /\ Unjoined(q)' = {}
          /\ threads' = threads
      BY <1>3, <2>1 DEF Exits, TypeOK, Asked, Unjoined
    <3> QED
      BY <1>1, <3>1, <3>2, PlainBase DEF ThreadInv, ThreadsOf
  <2>2. CASE q # p
    <3>1. /\ at'[q] = at[q] /\ prog'[q] = prog[q] /\ toWait'[q] = toWait[q]
          /\ id'[q] = id[q] /\ threads'[q] = threads[q]
          /\ Asked(q)' => Asked(q)
      BY <1>3, <2>2 DEF Exits, TypeOK, Asked
    <3>2. pid_current' >= pid_current
      BY <1>1 DEF KernelInv, K!TypeOK
    <3> QED
      BY <1>1, <3>1, <3>2, IdleBase
  <2> QED
    BY <2>1, <2>2
<1> QED
  BY <1>1, <1>2, <1>4 DEF LocalsInv, ThreadInv

\* A fresh program after execve(), in a process without threads.
LEMMA BecomesBase ==
  ASSUME BaseInv, NEW p \in Pid, NEW f \in File, NEW kept \in SUBSET End,
         Becomes(p, f, kept), Unjoined(p) = {}
  PROVE  BaseInv'
<1> USE PidFacts, NAssumption DEF BaseInv
<1>1. /\ KernelInv' /\ pid_current' = pid_current /\ pc' = pc /\ pc[p] = "user"
  <2>1. KernelInv'
    BY StepKernel DEF Becomes, KernelStep
  <2>2. pid_current' = pid_current /\ pc' = pc
    BY ExecSame DEF Becomes, K!ExecAsserts, K!Stop, kernel
  <2> QED
    BY <2>1, <2>2 DEF Becomes, K!Exec, K!ExecAsserts, K!Running
<1>2. TypeOK'
  BY <1>1 DEF Becomes, TypeOK, KernelInv
<1>3. ASSUME NEW q \in Pid PROVE LocalsOf(q)' /\ ThreadsOf(q)'
  <2>1. CASE q = p
    <3>1. q < pid_current'
      BY <1>1, <2>1 DEF KernelInv, K!TypeOK, PcbInv
    <3>2. /\ toWait'[q] = <<>> /\ ~Asked(q)' /\ Unjoined(q)' = {} /\ id'[q] = 0
          /\ threads' = threads
      BY <1>1, <2>1 DEF Becomes, TypeOK, Asked, Unjoined
    <3>3. at'[q] \in {"prompt", "loop", "run"}
      BY <2>1 DEF Becomes, TypeOK
    <3> QED
      BY <1>1, <3>1, <3>2, <3>3, PlainBase DEF ThreadInv, ThreadsOf
  <2>2. CASE q # p
    <3>1. /\ at'[q] = at[q] /\ prog'[q] = prog[q] /\ toWait'[q] = toWait[q]
          /\ id'[q] = id[q] /\ threads'[q] = threads[q]
          /\ Asked(q)' => Asked(q)
      BY <1>1, <2>2 DEF Becomes, TypeOK, Asked
    <3>2. pid_current' >= pid_current
      BY <1>1 DEF KernelInv, K!TypeOK
    <3> QED
      BY <1>1, <3>1, <3>2, IdleBase
  <2> QED
    BY <2>1, <2>2
<1> QED
  BY <1>1, <1>2, <1>3 DEF LocalsInv, ThreadInv

\* The new process is a pid not seen before.
LEMMA ForkFresh ==
  ASSUME BaseInv, NEW p \in Pid, K!Fork(p)
  PROVE  /\ KernelInv'
         /\ pid_current \in Pid /\ pid_current > p /\ pid_current # Root
         /\ pid_current' = pid_current + 1
         /\ pc[p] = "user" /\ p \in procList /\ panic = "no" /\ mainThread[p] = "live"
         /\ pc[pid_current] = "none" /\ pid_current \notin procList
         /\ mainThread[pid_current] = "none"
         /\ at[pid_current] = "none" /\ prog[pid_current] = "none"
         /\ toWait[pid_current] = <<>>
         /\ Unjoined(pid_current) = {}
         /\ \A q \in Pid : pc'[q] = IF q = pid_current THEN "user" ELSE pc[q]
         /\ child' = child
<1>1. KernelInv'
  BY ForkKernel DEF BaseInv
<1>2. /\ pid_current \in Pid /\ pid_current > p /\ pid_current # Root
      /\ pid_current' = pid_current + 1
      /\ pc[p] = "user" /\ p \in procList /\ panic = "no" /\ mainThread[p] = "live"
      /\ pc[pid_current] = "none" /\ pid_current \notin procList
      /\ mainThread[pid_current] = "none"
      /\ \A q \in Pid : pc'[q] = IF q = pid_current THEN "user" ELSE pc[q]
      /\ child' = child
  BY PidFacts DEF BaseInv, K!Fork, K!NextPid, K!Running, K!TypeOK, KernelInv,
                  PcbInv, Alive
<1>3. LocalsOf(pid_current) /\ ThreadsOf(pid_current)
  BY <1>2 DEF BaseInv, LocalsInv, ThreadInv
<1> QED
  BY <1>1, <1>2, <1>3, PidFacts DEF LocalsOf, ThreadsOf

\* After a fork, who is neither of the two goes on as before.
LEMMA ForkOthers ==
  ASSUME BaseInv, NEW p \in Pid, K!Fork(p), NEW q \in Pid,
         at'[q] = at[q], prog'[q] = prog[q], toWait'[q] = toWait[q],
         id'[q] = id[q], threads'[q] = threads[q], q # pid_current
  PROVE  LocalsOf(q)' /\ ThreadsOf(q)'
<1>1. Asked(q)' => Asked(q)
  BY ForkFresh DEF Asked
<1>2. KernelInv' /\ pid_current' >= pid_current
  BY ForkFresh, PidFacts
<1> QED
  BY <1>1, <1>2, IdleBase

LEMMA CostIsNat ==
  ASSUME NEW c \in Commands
  PROVE  CostOf(c) \in Nat
<1>1. CountForks \in Nat
  <2>1. IsFiniteSet(Number)
    BY FS_Interval, NAssumption DEF Number
  <2>2. IsFiniteSet(SUBSET Number \ {{}})
    BY <2>1, FS_SUBSET, FS_Difference
  <2> QED
    BY <2>2, FS_CardinalityType, NAssumption DEF CountForks
<1> HIDE DEF CountForks
<1> QED
  BY <1>1 DEF CostOf, Cost

LEMMA RunCommandBase ==
  ASSUME BaseInv, NEW p \in Pid, NEW c \in Commands, RunCommand(p, c)
  PROVE  BaseInv'
<1> USE PidFacts, NAssumption DEF BaseInv
<1> DEFINE new == pid_current
<1>0. K!Fork(p) /\ KernelInv' /\ new \in Pid /\ p # new
  BY ForkFresh DEF RunCommand
<1>1. budget' \in 0..(MaxPid - 1)
  BY CostIsNat DEF RunCommand, TypeOK
<1>2. c.files \in Seq(File)
  BY CommandsAssumption
<1>3. /\ WaitsFor(c, new) \in Seq(Pid \cup {NULL})
      /\ \A i \in 1..Len(WaitsFor(c, new)) : WaitsFor(c, new)[i] = new
  <2>1. /\ <<new>> \in Seq(Pid \cup {NULL}) /\ <<>> \in Seq(Pid \cup {NULL})
        /\ \A i \in 1..Len(<<new>>) : <<new>>[i] = new
    BY <1>0
  <2>2. \A i \in 1..Len(<<>>) : <<>>[i] = new
    OBVIOUS
  <2> QED
    BY <2>1, <2>2 DEF WaitsFor
<1>4. TypeOK'
  <2> DEFINE list == WaitsFor(c, new)
             next == IF list = <<>> THEN "prompt" ELSE "wait"
  <2>1. /\ toWait' = [toWait EXCEPT ![p] = list]
        /\ at' = [at EXCEPT ![new] = "launch", ![p] = next]
        /\ next \in {"prompt", "wait"}
    BY DEF RunCommand
  <2> HIDE DEF list, next
  <2>2. toWait' \in [Pid -> Seq(Pid \cup {NULL})] /\ list \in Seq(Pid \cup {NULL})
    BY <1>3, <2>1 DEF TypeOK, list
  <2>3. at' \in [Pid -> {"none", "prompt", "launch", "left", "right", "wait",
                        "loop", "join", "exec", "run", "exit"}]
    BY <1>0, <2>1 DEF TypeOK
  <2>4. prog' \in [Pid -> File \cup {"none"}] /\ files' \in [Pid -> Seq(File)]
    BY <1>0, <1>2 DEF RunCommand, TypeOK, File
  <2>5. ends' \in [Pid -> SUBSET End] /\ loose' \in [Pid -> BOOLEAN]
    <3>1. c.background \in BOOLEAN
      BY CommandsAssumption
    <3>2. (loose[p] \/ c.background) \in BOOLEAN
      OBVIOUS
    <3> QED
      BY <1>0, <3>2 DEF RunCommand, TypeOK
  <2>6. UNCHANGED <<missing, id, threads>>
    BY DEF RunCommand
  <2> QED
    BY <1>0, <1>1, <2>2, <2>3, <2>4, <2>5, <2>6 DEF TypeOK, KernelInv
<1>5. ASSUME NEW q \in Pid PROVE LocalsOf(q)' /\ ThreadsOf(q)'
  <2>1. CASE q = p
    <3>1. /\ toWait'[p] = WaitsFor(c, new) /\ prog'[p] = "sh" /\ threads' = threads
          /\ at'[p] = IF WaitsFor(c, new) = <<>> THEN "prompt" ELSE "wait"
      BY <1>0 DEF RunCommand, TypeOK
    <3>2. p < pid_current' /\ ~Asked(p)' /\ new < pid_current' /\ pid_current' \in Int
      BY <1>0, ForkFresh DEF Asked
    <3>3. LocalsOf(p)'
      BY <1>3, <3>1, <3>2 DEF LocalsOf, IsThreads
    <3>4. ThreadsOf(p)'
      BY <3>1 DEF ThreadInv, ThreadsOf, IsThreads, Unjoined, RunCommand
    <3> QED
      BY <2>1, <3>3, <3>4
  <2>2. CASE q = new
    <3>1. toWait[q] = <<>> /\ Unjoined(q) = {} /\ pc'[q] = "user" /\ q < pid_current'
      BY <1>0, <2>2, ForkFresh
    <3>2. toWait'[q] = <<>> /\ at'[q] = "launch" /\ threads' = threads
      BY <1>0, <2>2, <3>1 DEF RunCommand, TypeOK
    <3>3. Unjoined(q)' = {} /\ ~Asked(q)'
      BY <3>1, <3>2 DEF Unjoined, Asked
    <3> QED
      BY <1>0, <3>1, <3>2, <3>3, PlainBase DEF ThreadInv, ThreadsOf
  <2>3. CASE q # p /\ q # new
    <3>1. /\ at'[q] = at[q] /\ prog'[q] = prog[q] /\ toWait'[q] = toWait[q]
          /\ id'[q] = id[q] /\ threads'[q] = threads[q]
      BY <2>3 DEF RunCommand, TypeOK
    <3> QED
      BY <1>0, <2>3, <3>1, ForkOthers
  <2> QED
    BY <2>1, <2>2, <2>3
<1> QED
  BY <1>0, <1>4, <1>5 DEF LocalsInv, ThreadInv

LEMMA LaunchPipeBase ==
  ASSUME BaseInv, NEW p \in Pid, LaunchPipe(p)
  PROVE  BaseInv'
<1> USE PidFacts, NAssumption DEF BaseInv
<1> DEFINE new == pid_current
<1>0. K!Fork(p) /\ KernelInv' /\ new \in Pid /\ p # new
  BY ForkFresh DEF LaunchPipe
<1>1. TypeOK'
  <2>1. /\ files[p][1] \in File /\ files[p][2] \in File
        /\ <<files[p][1]>> \in Seq(File) /\ <<files[p][2]>> \in Seq(File)
    <3>1. files[p] \in Seq(File) /\ Len(files[p]) = 2
      BY DEF LaunchPipe, TypeOK
    <3>2. files[p][1] \in File /\ files[p][2] \in File
      BY <3>1
    <3> QED
      BY <3>2
  <2>2. ends[p] \cup {<<p, "read">>, <<p, "write">>} \in SUBSET End
    BY DEF TypeOK, End
  <2> QED
    BY <1>0, <2>1, <2>2 DEF LaunchPipe, TypeOK, KernelInv, File
<1>2. ASSUME NEW q \in Pid PROVE LocalsOf(q)' /\ ThreadsOf(q)'
  <2>1. CASE q = p \/ q = new
    <3>1. LocalsOf(p) /\ ThreadsOf(p) /\ at[p] = "launch"
      BY DEF LocalsInv, ThreadInv, LaunchPipe
    <3>2. toWait[p] = <<>> /\ Unjoined(p) = {}
      BY <3>1 DEF LocalsOf, ThreadsOf
    <3>3. toWait[q] = <<>> /\ Unjoined(q) = {} /\ pc'[q] = "user" /\ q < pid_current'
      BY <1>0, <2>1, <3>2, ForkFresh
    <3>4. toWait' = toWait /\ at'[q] \in {"left", "right"} /\ threads' = threads
      BY <1>0, <2>1 DEF LaunchPipe, TypeOK
    <3>5. toWait'[q] = <<>> /\ Unjoined(q)' = {} /\ ~Asked(q)'
      BY <3>3, <3>4 DEF Unjoined, Asked
    <3> QED
      BY <1>0, <3>3, <3>4, <3>5, PlainBase DEF ThreadInv, ThreadsOf
  <2>2. CASE q # p /\ q # new
    <3>1. /\ at'[q] = at[q] /\ prog'[q] = prog[q] /\ toWait'[q] = toWait[q]
          /\ id'[q] = id[q] /\ threads'[q] = threads[q]
      BY <2>2 DEF LaunchPipe, TypeOK
    <3> QED
      BY <1>0, <2>2, <3>1, ForkOthers
  <2> QED
    BY <2>1, <2>2
<1> QED
  BY <1>0, <1>1, <1>2 DEF LocalsInv, ThreadInv

LEMMA LaunchBase ==
  ASSUME BaseInv, NEW p \in Pid, Launch(p) \/ LaunchFails(p)
  PROVE  BaseInv'
<1> USE DEF BaseInv
<1>1. Unjoined(p) = {}
  BY DEF Launch, LaunchFails, Launches, ThreadInv, ThreadsOf
<1>2. files[p][1] \in File /\ Kept(p) \in SUBSET End
  <2>1. files[p] \in Seq(File) /\ Len(files[p]) = 1
    BY DEF Launch, LaunchFails, Launches, TypeOK
  <2>2. files[p][1] \in File
    BY <2>1
  <2>3. Kept(p) \in SUBSET End
    BY DEF Launch, LaunchFails, Launches, TypeOK, Kept
  <2> QED
    BY <2>2, <2>3
<1> QED
  BY <1>1, <1>2, ExitsBase, BecomesBase DEF Launch, LaunchFails

LEMMA CountForkBase ==
  ASSUME BaseInv, NEW p \in Pid, CountFork(p)
  PROVE  BaseInv'
<1> USE PidFacts, NAssumption DEF BaseInv
<1> DEFINE new == pid_current
<1>0. K!Fork(p) /\ KernelInv' /\ new \in Pid /\ p # new
  BY ForkFresh DEF CountFork
<1>1. /\ IsCount(p) /\ at[p] = "loop" /\ id[p] \in 0..N /\ id[p] < N
      /\ toWait[p] \in Seq(Pid \cup {NULL})
  BY DEF CountFork, TypeOK
<1>2. /\ \A q \in Pid : id'[q] = IF q = p THEN id[p] + 1
                               ELSE IF q = new THEN id[p] ELSE id[q]
      /\ DOMAIN id' = Pid
  BY <1>0 DEF CountFork, TypeOK
<1>3. /\ \A q \in Pid : toWait'[q] = IF q = p THEN Append(toWait[p], new)
                                   ELSE IF q = new THEN toWait[p] ELSE toWait[q]
      /\ toWait' \in [Pid -> Seq(Pid \cup {NULL})]
  <2>1. Append(toWait[p], new) \in Seq(Pid \cup {NULL})
    BY <1>0, <1>1
  <2> DEFINE longer == Append(toWait[p], new)
  <2>2. toWait' = [toWait EXCEPT ![p] = longer, ![new] = toWait[p]]
    BY DEF CountFork
  <2> HIDE DEF longer
  <2>3. /\ \A q \in Pid : toWait'[q] = IF q = new THEN toWait[p]
                                     ELSE IF q = p THEN longer ELSE toWait[q]
        /\ toWait' \in [Pid -> Seq(Pid \cup {NULL})]
    BY <1>0, <2>1, <2>2 DEF TypeOK, longer
  <2> QED
    BY <1>0, <2>3 DEF longer
<1>4. TypeOK'
  <2>1. id' \in [Pid -> 0..N]
    <3>1. \A q \in Pid : id[q] \in 0..N
      BY DEF TypeOK
    <3>2. \A q \in Pid : id'[q] \in 0..N
      <4>1. id[p] + 1 \in 0..N /\ id[p] \in 0..N
        BY <1>1
      <4> HIDE DEF new
      <4> QED
        BY <1>2, <3>1, <4>1
    <3> QED
      BY <1>2, <3>2 DEF CountFork
  <2>2. AtNext(p, id[p] + 1) \in {"wait", "loop"}
    BY DEF AtNext
  <2> QED
    BY <1>0, <1>3, <2>1, <2>2 DEF CountFork, TypeOK, KernelInv, File
<1>5. LocalsOf(p) /\ ThreadsOf(p)
  BY DEF LocalsInv, ThreadInv
<1>6. ASSUME NEW q \in Pid PROVE LocalsOf(q)' /\ ThreadsOf(q)'
  <2>0. p < pid_current' /\ pid_current' = new + 1
    BY <1>0, ForkFresh
  <2>1. CASE q = p
    <3>1. prog'[p] = prog[p] /\ at'[p] = AtNext(p, id[p] + 1) /\ threads' = threads
      BY <1>0 DEF CountFork, TypeOK
    <3>2. ~Asked(p)' /\ ~IsThreads(p)' /\ ~IsThreads(p)
      BY <1>0, <1>1, <3>1, ForkFresh DEF Asked, IsCount, IsThreads
    <3>3. toWait'[p] = Append(toWait[p], new)
      BY <1>3
    <3>4. toWait'[p] # <<>>
      BY <1>1, <3>3
    <3>5. \A i \in 1..Len(toWait'[p]) : toWait'[p][i] < pid_current'
      <4> SUFFICES ASSUME NEW i \in 1..Len(toWait'[p]) PROVE toWait'[p][i] < pid_current'
        OBVIOUS
      <4>1. CASE i \in 1..Len(toWait[p])
        <5>1. toWait'[p][i] = toWait[p][i] /\ toWait[p][i] \in Int
          BY <1>1, <3>3, <4>1
        <5>2. toWait[p][i] < new
          BY <1>5, <4>1 DEF LocalsOf
        <5> QED
          BY <1>0, <2>0, <5>1, <5>2
      <4>2. CASE i = Len(toWait[p]) + 1
        BY <1>0, <1>1, <2>0, <3>3, <4>2
      <4> QED
        BY <1>1, <3>3, <4>1, <4>2
    <3>6. at'[p] = "loop" => prog'[p] = "count_p" /\ id'[p] < N
      BY <1>1, <1>2, <3>1 DEF AtNext, IsCount
    <3>7. at'[p] \in {"wait", "loop"}
      BY <3>1 DEF AtNext
    <3>8. LocalsOf(p)'
      <4>1. pid_current' \in Int
        BY <1>0, <2>0
      <4> HIDE DEF new
      <4> QED
        BY <2>0, <3>2, <3>4, <3>5, <3>6, <3>7, <4>1 DEF LocalsOf
    <3>9. ThreadsOf(p)'
      BY <1>5, <3>1, <3>2 DEF ThreadsOf, IsThreads, Unjoined
    <3> QED
      BY <2>1, <3>8, <3>9
  <2>2. CASE q = new
    <3>1. /\ prog'[q] = prog[p] /\ at'[q] = "exec" /\ threads' = threads
          /\ id'[q] = id[p] /\ toWait'[q] = toWait[p]
      BY <1>0, <1>2, <1>3, <2>2 DEF CountFork, TypeOK
    <3>2. Unjoined(q) = {} /\ pc'[q] = "user"
      BY <1>0, <2>2, ForkFresh
    <3>3. ~Asked(q)' /\ IsCount(q)' /\ Unjoined(q)' = {} /\ q < pid_current'
      BY <1>0, <1>1, <2>0, <2>2, <3>1, <3>2 DEF Asked, IsCount, Unjoined
    <3>4. \A i \in 1..Len(toWait'[q]) : toWait'[q][i] < pid_current'
      BY <1>0, <1>1, <1>5, <2>0, <3>1 DEF LocalsOf
    <3>5. LocalsOf(q)'
      BY <1>1, <2>0, <3>1, <3>3, <3>4 DEF LocalsOf
    <3>6. ThreadsOf(q)'
      BY <3>1, <3>3 DEF ThreadInv, ThreadsOf
    <3> QED
      BY <3>5, <3>6
  <2>3. CASE q # p /\ q # new
    <3>1. /\ at'[q] = at[q] /\ prog'[q] = prog[q] /\ toWait'[q] = toWait[q]
          /\ id'[q] = id[q] /\ threads'[q] = threads[q]
      BY <1>2, <1>3, <2>3 DEF CountFork, TypeOK
    <3> QED
      BY <1>0, <2>3, <3>1, ForkOthers
  <2> QED
    BY <2>1, <2>2, <2>3
<1> QED
  BY <1>0, <1>4, <1>6 DEF LocalsInv, ThreadInv

LEMMA CountExecBase ==
  ASSUME BaseInv, NEW p \in Pid, CountExec(p)
  PROVE  BaseInv'
<1>1. Unjoined(p) = {} /\ "count" \in File /\ ends[p] \in SUBSET End
  BY DEF CountExec, BaseInv, ThreadInv, ThreadsOf, File, Jobs, TypeOK
<1> QED
  BY <1>1, BecomesBase DEF CountExec

\* A process whose step is not seen by the kernel, the others idle.
LEMMA AloneBase ==
  ASSUME BaseInv, UNCHANGED kernel, NEW p \in Pid, TypeOK',
         LocalsOf(p)', ThreadsOf(p)',
         \A q \in Pid : q # p =>
           /\ at'[q] = at[q] /\ prog'[q] = prog[q] /\ toWait'[q] = toWait[q]
           /\ id'[q] = id[q] /\ threads'[q] = threads[q]
  PROVE  BaseInv'
<1>1. /\ KernelInv' /\ pid_current' >= pid_current
      /\ \A q \in Pid : Asked(q)' => Asked(q)
  BY StepKernel DEF BaseInv, KernelInv, K!TypeOK, kernel, Asked
<1>2. ASSUME NEW q \in Pid PROVE LocalsOf(q)' /\ ThreadsOf(q)'
  BY <1>1, IdleBase
<1> QED
  BY <1>1, <1>2 DEF BaseInv, LocalsInv, ThreadInv

LEMMA CountExecFailsBase ==
  ASSUME BaseInv, NEW p \in Pid, CountExecFails(p)
  PROVE  BaseInv'
<1> USE PidFacts, NAssumption DEF BaseInv
<1>1. LocalsOf(p) /\ ThreadsOf(p) /\ at[p] = "exec" /\ pc[p] = "user"
  BY DEF LocalsInv, ThreadInv, CountExecFails, K!Running
<1>2. /\ IsCount(p) /\ id[p] \in 0..N /\ id[p] < N
      /\ toWait[p] \in Seq(Pid \cup {NULL}) /\ p < pid_current
      /\ pid_current > 1 /\ pid_current \in Int
  BY <1>1 DEF LocalsOf, TypeOK, KernelInv, K!TypeOK, PcbInv
<1>3. /\ toWait'[p] = Append(toWait[p], NULL) /\ id'[p] = id[p] + 1
      /\ at'[p] = AtNext(p, id[p] + 1) /\ prog' = prog /\ threads' = threads
      /\ UNCHANGED kernel
      /\ \A q \in Pid : q # p =>
           /\ at'[q] = at[q] /\ toWait'[q] = toWait[q] /\ id'[q] = id[q]
  BY DEF CountExecFails, TypeOK
<1>4. TypeOK'
  <2>1. Append(toWait[p], NULL) \in Seq(Pid \cup {NULL})
    BY <1>2
  <2>2. AtNext(p, id[p] + 1) \in {"wait", "loop"} /\ id[p] + 1 \in 0..N
    BY <1>2 DEF AtNext
  <2>3. KernelInv'
    BY <1>3, StepKernel
  <2> QED
    BY <2>1, <2>2, <2>3 DEF CountExecFails, TypeOK, KernelInv
<1>5. LocalsOf(p)'
  <2>1. toWait'[p] # <<>> /\ \A i \in 1..Len(toWait'[p]) : toWait'[p][i] < pid_current'
    BY <1>1, <1>2, <1>3 DEF LocalsOf, kernel
  <2>2. /\ at'[p] = "loop" => prog'[p] = "count_p" /\ id'[p] < N
        /\ at'[p] \in {"wait", "loop"}
    BY <1>2, <1>3 DEF AtNext, IsCount
  <2>3. ~Asked(p)' /\ ~IsThreads(p)' /\ p < pid_current' /\ pid_current' \in Int
    BY <1>1, <1>2, <1>3 DEF Asked, IsThreads, IsCount, kernel
  <2> QED
    BY <2>1, <2>2, <2>3 DEF LocalsOf
<1>6. ThreadsOf(p)'
  BY <1>1, <1>2, <1>3 DEF ThreadsOf, IsCount, IsThreads, Unjoined
<1> QED
  BY <1>3, <1>4, <1>5, <1>6, AloneBase

LEMMA EndsBase ==
  ASSUME BaseInv, NEW p \in Pid,
         CountEnds(p) \/ ThreadsEnd(p) \/ JobEnds(p) \/ ShellExit(p)
  PROVE  BaseInv'
<1>1. Exits(p)
  BY DEF CountEnds, ThreadsEnd, JobEnds, ShellExit
<1>2. ThreadsOf(p) /\ id[p] \in 0..N
  BY DEF BaseInv, ThreadInv, TypeOK
<1>3. CASE ~IsThreads(p)
  BY <1>1, <1>2, <1>3, ExitsBase DEF ThreadsOf
<1>4. CASE IsThreads(p)
  <2>1. ThreadsEnd(p)
    BY <1>4 DEF CountEnds, JobEnds, ShellExit, IsThreads, IsCount, Jobs
  <2>2. Unjoined(p) = {}
    BY <1>2, <2>1, NAssumption DEF ThreadsEnd, ThreadsOf, IsThreads
  <2> QED
    BY <1>1, <2>2, ExitsBase
<1> QED
  BY <1>3, <1>4

LEMMA ThreadCreateBase ==
  ASSUME BaseInv, NEW p \in Pid, ThreadCreate(p) \/ ThreadCreateFails(p)
  PROVE  BaseInv'
<1> USE PidFacts, NAssumption DEF BaseInv
<1>1. /\ LocalsOf(p) /\ ThreadsOf(p) /\ at[p] = "loop" /\ pc[p] = "user"
      /\ IsThreads(p) /\ id[p] < N /\ id[p] \in 0..N
  BY DEF LocalsInv, ThreadInv, ThreadCreate, ThreadCreateFails, K!Running, TypeOK
<1>2. /\ p < pid_current /\ pid_current \in Int /\ id[p] \in Number
  BY <1>1 DEF KernelInv, K!TypeOK, PcbInv, Number
<1>3. UNCHANGED OutsideThreads
  BY DEF ThreadCreate, ThreadCreateFails
<1>4. /\ KernelInv' /\ UNCHANGED kernel /\ toWait[p] = <<>>
  BY <1>1, <1>3, StepKernel DEF OutsideThreads, LocalsOf, IsThreads
<1>5. CASE ThreadCreate(p)
  <2> DEFINE last == prog[p] = "threads_s" \/ id[p] + 1 = N
  <2>1. /\ at' = [at EXCEPT ![p] = IF last THEN "join" ELSE "loop"]
        /\ id' = IF prog[p] = "threads_p" THEN [id EXCEPT ![p] = id[p] + 1] ELSE id
    BY <1>5 DEF ThreadCreate
  <2>2. /\ threads' \in [Pid -> [Number -> {"none", "created", "ended", "wrong"}]]
        /\ \A i \in Number : threads'[p][i] = IF i = id[p] THEN "created" ELSE threads[p][i]
        /\ \A q \in Pid : q # p => threads'[q] = threads[q]
    BY <1>2, <1>5 DEF ThreadCreate, TypeOK
  <2>3. TypeOK'
    <3>1. at' \in [Pid -> {"none", "prompt", "launch", "left", "right", "wait",
                          "loop", "join", "exec", "run", "exit"}]
      <4> DEFINE next == IF last THEN "join" ELSE "loop"
      <4>1. next \in {"join", "loop"} /\ at' = [at EXCEPT ![p] = next]
        BY <2>1
      <4> HIDE DEF next
      <4> QED
        BY <4>1 DEF TypeOK
    <3>2. id' \in [Pid -> 0..N]
      <4>1. id[p] + 1 \in 0..N /\ id \in [Pid -> 0..N]
        BY <1>1 DEF TypeOK
      <4>2. id' = [id EXCEPT ![p] = id[p] + 1] \/ id' = id
        BY <2>1
      <4> QED
        BY <4>1, <4>2
    <3> QED
      BY <1>3, <1>4, <2>2, <3>1, <3>2 DEF TypeOK, KernelInv, OutsideThreads
  <2>4. LocalsOf(p)'
    <3>1. at'[p] \in {"join", "loop"} /\ toWait'[p] = <<>> /\ ~Asked(p)' /\ p < pid_current'
      BY <1>1, <1>2, <1>3, <1>4, <2>1 DEF TypeOK, OutsideThreads, kernel, Asked
    <3>2. pid_current' \in Int
      BY <1>2, <1>4 DEF kernel
    <3> QED
      BY <3>1, <3>2 DEF LocalsOf
  <2>5. ThreadsOf(p)'
    <3>1. prog' = prog /\ at'[p] \in {"join", "loop"}
      BY <1>3, <2>1 DEF OutsideThreads, TypeOK
    <3>2. CASE prog[p] = "threads_p"
      <4>1. at'[p] = "loop" => id'[p] < N
        BY <1>1, <2>1, <3>2 DEF TypeOK
      <4> QED
        BY <1>1, <2>2, <3>1, <3>2, <4>1 DEF ThreadsOf, IsThreads
    <3>3. CASE prog[p] = "threads_s"
      <4>1. at'[p] = "join" /\ id' = id /\ Unjoined(p) = {}
        BY <1>1, <2>1, <3>3 DEF TypeOK, ThreadsOf
      <4>2. Unjoined(p)' \subseteq {id'[p]}
        BY <2>2, <4>1 DEF Unjoined
      <4> QED
        BY <1>1, <2>2, <3>1, <3>3, <4>1, <4>2 DEF ThreadsOf, IsThreads
    <3> QED
      BY <1>1, <3>2, <3>3 DEF IsThreads
  <2>6. \A q \in Pid : q # p =>
           /\ at'[q] = at[q] /\ prog'[q] = prog[q] /\ toWait'[q] = toWait[q]
           /\ id'[q] = id[q] /\ threads'[q] = threads[q]
    BY <1>3, <2>1, <2>2 DEF OutsideThreads, TypeOK
  <2> QED
    BY <1>4, <2>3, <2>4, <2>5, <2>6, AloneBase
<1>6. CASE ThreadCreateFails(p)
  <2>1. at' = [at EXCEPT ![p] = "join"] /\ id' = id /\ threads' = threads
    BY <1>6 DEF ThreadCreateFails
  <2>2. TypeOK'
    BY <1>3, <1>4, <2>1 DEF TypeOK, KernelInv, OutsideThreads
  <2>3. LocalsOf(p)'
    <3>1. at'[p] = "join" /\ toWait'[p] = <<>> /\ ~Asked(p)' /\ p < pid_current'
      BY <1>1, <1>2, <1>3, <1>4, <2>1 DEF TypeOK, OutsideThreads, kernel, Asked
    <3>2. pid_current' \in Int
      BY <1>2, <1>4 DEF kernel
    <3> QED
      BY <3>1, <3>2 DEF LocalsOf
  <2>4. ThreadsOf(p)'
    <3>1. prog' = prog /\ at'[p] = "join"
      BY <1>3, <2>1 DEF OutsideThreads, TypeOK
    <3> QED
      BY <1>1, <2>1, <3>1 DEF ThreadsOf, IsThreads, Unjoined
  <2>5. \A q \in Pid : q # p =>
           /\ at'[q] = at[q] /\ prog'[q] = prog[q] /\ toWait'[q] = toWait[q]
           /\ id'[q] = id[q] /\ threads'[q] = threads[q]
    BY <1>3, <2>1 DEF OutsideThreads, TypeOK
  <2> QED
    BY <1>4, <2>2, <2>3, <2>4, <2>5, AloneBase
<1> QED
  BY <1>5, <1>6

\* A thread finds its own number in its argument.
LEMMA ThreadRunsBase ==
  ASSUME BaseInv, NEW p \in Pid, NEW i \in Number, ThreadRuns(p, i)
  PROVE  BaseInv'
<1> USE PidFacts, NAssumption DEF BaseInv
<1>1. /\ LocalsOf(p) /\ ThreadsOf(p) /\ threads[p][i] = "created"
  BY DEF LocalsInv, ThreadInv, ThreadRuns
<1>2. i \in Unjoined(p)
  BY <1>1 DEF Unjoined
<1>3. Argument(p, i) = i
  BY <1>1, <1>2 DEF Argument, ThreadsOf, IsThreads
<1>4. /\ UNCHANGED OutsideThreads /\ UNCHANGED kernel /\ at' = at /\ id' = id
  BY DEF ThreadRuns, OutsideThreads
<1>5. /\ threads' \in [Pid -> [Number -> {"none", "created", "ended", "wrong"}]]
      /\ \A j \in Number : threads'[p][j] = IF j = i THEN "ended" ELSE threads[p][j]
      /\ \A q \in Pid : q # p => threads'[q] = threads[q]
  BY <1>3 DEF ThreadRuns, TypeOK
<1>6. KernelInv'
  BY <1>4, StepKernel
<1>7. TypeOK'
  BY <1>4, <1>5, <1>6 DEF TypeOK, KernelInv, OutsideThreads
<1>8. LocalsOf(p)'
  BY <1>1, <1>4 DEF LocalsOf, OutsideThreads, kernel, Asked, IsThreads, IsCount
<1>9. ThreadsOf(p)'
  <2>1. Unjoined(p)' = Unjoined(p)
    BY <1>1, <1>5 DEF Unjoined
  <2>2. prog' = prog
    BY <1>4 DEF OutsideThreads
  <2> QED
    BY <1>1, <1>4, <1>5, <2>1, <2>2 DEF ThreadsOf, IsThreads
<1>10. \A q \in Pid : q # p =>
           /\ at'[q] = at[q] /\ prog'[q] = prog[q] /\ toWait'[q] = toWait[q]
           /\ id'[q] = id[q] /\ threads'[q] = threads[q]
  BY <1>4, <1>5 DEF OutsideThreads
<1> QED
  BY <1>4, <1>7, <1>8, <1>9, <1>10, AloneBase

LEMMA ThreadJoinBase ==
  ASSUME BaseInv, NEW p \in Pid, NEW i \in Number, ThreadJoin(p, i)
  PROVE  BaseInv'
<1> USE PidFacts, NAssumption DEF BaseInv
<1>1. /\ LocalsOf(p) /\ ThreadsOf(p) /\ at[p] = "join" /\ pc[p] = "user"
      /\ i \in Unjoined(p) /\ id[p] \in 0..N
  BY DEF LocalsInv, ThreadInv, ThreadJoin, K!Running, TypeOK
<1>2. /\ p < pid_current /\ pid_current \in Int /\ IsThreads(p) /\ toWait[p] = <<>>
  BY <1>1 DEF KernelInv, K!TypeOK, PcbInv, LocalsOf, ThreadsOf
<1>3. UNCHANGED OutsideThreads /\ UNCHANGED kernel
  BY DEF ThreadJoin, OutsideThreads
<1>4. /\ threads' \in [Pid -> [Number -> {"none", "created", "ended", "wrong"}]]
      /\ \A j \in Number : threads'[p][j] = IF j = i THEN "none" ELSE threads[p][j]
      /\ \A q \in Pid : q # p => threads'[q] = threads[q]
  BY DEF ThreadJoin, TypeOK
<1>5. KernelInv'
  BY <1>3, StepKernel
<1>6. prog[p] = "threads_s" =>
        /\ at' = [at EXCEPT ![p] = "loop"] /\ id' = [id EXCEPT ![p] = id[p] + 1]
        /\ id[p] < N /\ Unjoined(p)' = {}
  <2> SUFFICES ASSUME prog[p] = "threads_s"
      PROVE  /\ at' = [at EXCEPT ![p] = "loop"] /\ id' = [id EXCEPT ![p] = id[p] + 1]
             /\ id[p] < N /\ Unjoined(p)' = {}
    OBVIOUS
  <2>1. at' = [at EXCEPT ![p] = "loop"] /\ id' = [id EXCEPT ![p] = id[p] + 1]
    BY DEF ThreadJoin
  <2>2. id[p] < N /\ Unjoined(p) \subseteq {i}
    BY <1>1 DEF ThreadsOf
  <2>3. Unjoined(p)' = {}
    BY <1>4, <2>2 DEF Unjoined
  <2> QED
    BY <2>1, <2>2, <2>3
<1>7. prog[p] # "threads_s" => at' = at /\ id' = id
  BY DEF ThreadJoin
<1>8. TypeOK'
  <2>1. at' \in [Pid -> {"none", "prompt", "launch", "left", "right", "wait",
                        "loop", "join", "exec", "run", "exit"}]
    BY <1>6, <1>7 DEF TypeOK
  <2>2. id' \in [Pid -> 0..N]
    <3>1. id \in [Pid -> 0..N] /\ (prog[p] = "threads_s" => id[p] + 1 \in 0..N)
      BY <1>1, <1>6 DEF TypeOK
    <3>2. (id' = [id EXCEPT ![p] = id[p] + 1] /\ prog[p] = "threads_s") \/ id' = id
      BY <1>6, <1>7
    <3> QED
      BY <3>1, <3>2
  <2> QED
    BY <1>3, <1>4, <1>5, <2>1, <2>2 DEF TypeOK, KernelInv, OutsideThreads
<1>9. LocalsOf(p)'
  <2>1. at'[p] \in {"join", "loop"} /\ toWait'[p] = <<>> /\ ~Asked(p)'
    BY <1>1, <1>2, <1>3, <1>6, <1>7 DEF TypeOK, OutsideThreads, kernel, Asked
  <2>2. p < pid_current' /\ pid_current' \in Int
    BY <1>2, <1>3 DEF kernel
  <2> QED
    BY <2>1, <2>2 DEF LocalsOf
<1>10. ThreadsOf(p)'
  <2>1. prog' = prog
    BY <1>3 DEF OutsideThreads
  <2>2. CASE prog[p] = "threads_s"
    <3>1. at'[p] = "loop" /\ Unjoined(p)' = {}
      BY <1>6, <2>2 DEF TypeOK
    <3> QED
      BY <1>1, <1>4, <2>1, <2>2, <3>1 DEF ThreadsOf
  <2>3. CASE prog[p] = "threads_p"
    <3>1. at'[p] = "join"
      BY <1>1, <1>7, <2>3
    <3> QED
      BY <1>1, <1>4, <2>1, <2>3, <3>1 DEF ThreadsOf, IsThreads
  <2> QED
    BY <1>2, <2>2, <2>3 DEF IsThreads
<1>11. \A q \in Pid : q # p =>
           /\ at'[q] = at[q] /\ prog'[q] = prog[q] /\ toWait'[q] = toWait[q]
           /\ id'[q] = id[q] /\ threads'[q] = threads[q]
  BY <1>3, <1>4, <1>6, <1>7 DEF OutsideThreads, TypeOK
<1> QED
  BY <1>3, <1>8, <1>9, <1>10, <1>11, AloneBase

\* What a call of waitpid() does whichever way it goes.
LEMMA WaitsEffect ==
  ASSUME KernelInv, NEW p \in Pid, NEW c \in Pid \cup {NULL}, Waits(p, c)
  PROVE  /\ pid_current' = pid_current /\ parent' = parent
         /\ pc[p] = "user" /\ panic = "no"
         /\ pc'[p] \in {"user", "joining"}
         /\ \A q \in Pid : q # p => pc'[q] = pc[q] /\ child'[q] = child[q]
<1>1. CASE c = NULL
  BY <1>1 DEF Waits, K!Running
<1>2. CASE c # NULL /\ K!WaitNotFound(p, c)
  BY <1>2 DEF K!WaitNotFound, K!Running
<1>3. CASE c # NULL /\ K!WaitBlock(p, c)
  BY <1>3, PidFacts DEF K!WaitBlock, K!Running, KernelInv, K!TypeOK
<1>4. CASE c # NULL /\ K!WaitZombie(p, c)
  BY <1>4 DEF K!WaitZombie, K!Running, K!Reap
<1>5. CASE c # NULL /\ K!WaitNullJoin(p, c)
  BY <1>5 DEF K!WaitNullJoin, K!Running, K!Stop
<1> QED
  BY <1>1, <1>2, <1>3, <1>4, <1>5 DEF Waits

\* The head of the list is a pid, and what is left is a list.
LEMMA WaitList ==
  ASSUME BaseInv, NEW p \in Pid, at[p] = "wait"
  PROVE  /\ toWait[p] \in Seq(Pid \cup {NULL}) /\ toWait[p] # <<>>
         /\ Head(toWait[p]) \in Pid \cup {NULL} /\ Head(toWait[p]) = toWait[p][1]
         /\ Len(toWait[p]) \in Nat /\ Len(toWait[p]) >= 1
         /\ Tail(toWait[p]) \in Seq(Pid \cup {NULL})
         /\ Len(Tail(toWait[p])) = Len(toWait[p]) - 1
         /\ \A i \in 1..Len(Tail(toWait[p])) :
              i + 1 \in 1..Len(toWait[p]) /\ Tail(toWait[p])[i] = toWait[p][i + 1]
<1>1. toWait[p] \in Seq(Pid \cup {NULL}) /\ toWait[p] # <<>>
  BY DEF BaseInv, TypeOK, LocalsInv, LocalsOf
<1> DEFINE s == toWait[p]
<1> HIDE DEF s
<1>2. s \in Seq(Pid \cup {NULL}) /\ s # <<>>
  BY <1>1 DEF s
<1>3. /\ Head(s) \in Pid \cup {NULL} /\ Head(s) = s[1]
      /\ Len(s) \in Nat /\ Len(s) >= 1
      /\ Tail(s) \in Seq(Pid \cup {NULL}) /\ Len(Tail(s)) = Len(s) - 1
      /\ \A i \in 1..Len(Tail(s)) : i + 1 \in 1..Len(s) /\ Tail(s)[i] = s[i + 1]
  BY <1>2
<1> QED
  BY <1>2, <1>3 DEF s

LEMMA WaitBase ==
  ASSUME BaseInv, NEW p \in Pid, Wait(p)
  PROVE  BaseInv'
<1> USE PidFacts, NAssumption DEF BaseInv
<1>1. /\ LocalsOf(p) /\ ThreadsOf(p) /\ at[p] = "wait"
      /\ Waits(p, Head(toWait[p]))
      /\ toWait' = [toWait EXCEPT ![p] = Tail(toWait[p])]
      /\ at' = [at EXCEPT ![p] = IF Len(toWait[p]) = 1 THEN AtAfterWait(p) ELSE "wait"]
      /\ UNCHANGED <<missing, prog, files, id, threads, ends, loose, budget>>
  BY DEF Wait, LeftToWait, LocalsInv, ThreadInv
<1>2. KernelInv'
  BY <1>1, WaitList, StepKernel DEF KernelStep
<1>3. TypeOK'
  <2>1. Tail(toWait[p]) \in Seq(Pid \cup {NULL})
    BY <1>1, WaitList
  <2>2. (IF Len(toWait[p]) = 1 THEN AtAfterWait(p) ELSE "wait") \in {"prompt", "loop", "wait"}
    BY DEF AtAfterWait
  <2> QED
    BY <1>1, <1>2, <2>1, <2>2 DEF TypeOK, KernelInv
<1>4. /\ pid_current' = pid_current /\ pid_current \in Int /\ pc[p] = "user"
      /\ \A q \in Pid : q # p => pc'[q] = pc[q]
  <2>1. Head(toWait[p]) \in Pid \cup {NULL}
    BY <1>1, WaitList
  <2>2. PICK c \in Pid \cup {NULL} : c = Head(toWait[p])
    BY <2>1
  <2>3. Waits(p, c)
    BY <1>1, <2>2
  <2>4. pid_current \in Int
    BY DEF KernelInv, K!TypeOK
  <2> QED
    BY <2>3, <2>4, WaitsEffect
<1>5. ASSUME NEW q \in Pid PROVE LocalsOf(q)' /\ ThreadsOf(q)'
  <2>1. CASE q = p
    <3>1. /\ at'[p] = IF Len(toWait[p]) = 1 THEN AtAfterWait(p) ELSE "wait"
          /\ toWait'[p] = Tail(toWait[p])
      BY <1>1 DEF TypeOK
    <3>2. /\ toWait'[p] = <<>> <=> Len(toWait[p]) = 1
          /\ \A i \in 1..Len(toWait'[p]) : toWait'[p][i] < pid_current'
      <4>1. /\ Len(Tail(toWait[p])) = Len(toWait[p]) - 1 /\ Len(toWait[p]) \in Nat
            /\ Tail(toWait[p]) \in Seq(Pid \cup {NULL})
            /\ \A i \in 1..Len(Tail(toWait[p])) :
                 i + 1 \in 1..Len(toWait[p]) /\ Tail(toWait[p])[i] = toWait[p][i + 1]
        BY <1>1, WaitList
      <4>2. \A i \in 1..Len(toWait[p]) : toWait[p][i] < pid_current
        BY <1>1 DEF LocalsOf
      <4>3. toWait'[p] = <<>> <=> Len(toWait'[p]) = 0
        <5>1. PICK t \in Seq(Pid \cup {NULL}) : t = Tail(toWait[p])
          BY <4>1
        <5>2. t = <<>> <=> Len(t) = 0
          OBVIOUS
        <5> QED
          BY <3>1, <5>1, <5>2
      <4> QED
        BY <1>4, <3>1, <4>1, <4>2, <4>3
    <3>3. ~IsThreads(p) /\ ~IsThreads(p)' /\ p < pid_current'
      BY <1>1, <1>4 DEF LocalsOf, IsThreads, KernelInv, PcbInv
    <3>4. LocalsOf(p)'
      BY <1>4, <3>1, <3>2, <3>3 DEF LocalsOf, AtAfterWait
    <3>5. ThreadsOf(p)'
      BY <1>1, <3>3 DEF ThreadsOf, IsThreads, Unjoined
    <3> QED
      BY <2>1, <3>4, <3>5
  <2>2. CASE q # p
    <3>1. /\ at'[q] = at[q] /\ prog'[q] = prog[q] /\ toWait'[q] = toWait[q]
          /\ id'[q] = id[q] /\ threads'[q] = threads[q]
      BY <1>1, <2>2 DEF TypeOK
    <3>2. (Asked(q)' => Asked(q)) /\ pid_current' >= pid_current
      BY <1>4, <2>2 DEF Asked
    <3> QED
      BY <1>2, <3>1, <3>2, IdleBase
  <2> QED
    BY <2>1, <2>2
<1> QED
  BY <1>2, <1>3, <1>5 DEF LocalsInv, ThreadInv

LEMMA InKernelBase ==
  ASSUME BaseInv, NEW p \in Pid, InKernel(p)
  PROVE  BaseInv'
<1> USE PidFacts DEF BaseInv
<1>1. KernelInv'
  BY StepKernel DEF InKernel, KernelStep
<1>2. TypeOK'
  BY <1>1 DEF InKernel, locals, TypeOK, KernelInv
<1>3. pid_current' = pid_current /\ pid_current \in Int
  <2>1. pid_current \in Int
    BY DEF KernelInv, K!TypeOK
  <2>2. pid_current' = pid_current
    BY DEF InKernel, K!FinishExit, K!WaitReturn, K!WaitStale, K!Reap, K!Stop
  <2> QED
    BY <2>1, <2>2
<1>4. ASSUME NEW q \in Pid PROVE Asked(q)' => Asked(q)
  <2>1. CASE K!FinishExit(p)
    BY <2>1 DEF K!FinishExit, K!Woken, Asked, KernelInv, K!TypeOK, QueueInv
  <2>2. CASE K!WaitReturn(p) \/ K!WaitStale(p)
    BY <2>2 DEF K!WaitReturn, K!WaitStale, K!Stop, Asked, KernelInv, K!TypeOK
  <2> QED
    BY <2>1, <2>2 DEF InKernel
<1>5. ASSUME NEW q \in Pid PROVE LocalsOf(q)' /\ ThreadsOf(q)'
  BY <1>1, <1>3, <1>4, IdleBase DEF InKernel, locals
<1> QED
  BY <1>1, <1>2, <1>5 DEF LocalsInv, ThreadInv

LEMMA NextBase == BaseInv /\ [Next]_vars => BaseInv'
<1> SUFFICES ASSUME BaseInv, [Next]_vars PROVE BaseInv'
  OBVIOUS
<1>1. CASE UNCHANGED vars
  <2>1. UNCHANGED kernel /\ UNCHANGED locals
    BY <1>1 DEF vars
  <2>2. KernelInv'
    BY <2>1, PidFacts, StepKernel DEF BaseInv
  <2>3. TypeOK'
    BY <2>1, <2>2 DEF BaseInv, locals, TypeOK, KernelInv
  <2>4. LocalsInv' /\ ThreadInv'
    BY <2>1 DEF BaseInv, kernel, locals, LocalsInv, LocalsOf, ThreadInv, ThreadsOf,
                Asked, IsThreads, IsCount, Unjoined
  <2> QED
    BY <2>2, <2>3, <2>4 DEF BaseInv
<1>2. ASSUME NEW p \in Pid, Runs(p) PROVE BaseInv'
  BY <1>2, LaunchPipeBase, LaunchBase, CountForkBase, CountExecBase, CountExecFailsBase,
     EndsBase, ThreadCreateBase, ThreadRunsBase, ThreadJoinBase, WaitBase, InKernelBase
  DEF Runs
<1>3. ASSUME NEW p \in Pid, User(p) PROVE BaseInv'
  BY <1>3, EndsBase, RunCommandBase DEF User
<1> QED
  BY <1>1, <1>2, <1>3 DEF Next

\* The kernel and the locals of every program keep their types, whatever is
\* typed and whichever exec or pthread_create() fails.
THEOREM TypeCorrect == Spec => []TypeOK
<1>1. BaseInv => TypeOK
  BY DEF BaseInv
<1> QED
  BY <1>1, InitBase, NextBase, PTL DEF Spec

\* Each thread of "threads" reads its own number, and none is left when its
\* process exits, in both modes and wherever a pthread_create() fails.
THEOREM ThreadsStaySound == Spec => []ThreadsSound
<1>1. BaseInv => ThreadsSound
  <2> SUFFICES ASSUME BaseInv, NEW p \in Pid, NEW i \in Number
      PROVE  threads[p][i] # "wrong" /\ (at[p] = "exit" => threads[p][i] = "none")
    BY DEF ThreadsSound
  <2>1. ThreadsOf(p)
    BY DEF BaseInv, ThreadInv
  <2> QED
    BY <2>1 DEF ThreadsOf, Unjoined
<1> QED
  BY <1>1, InitBase, NextBase, PTL DEF Spec

-----------------------------------------------------------------------------
(* Programs wait for their own children, as long as count.elf is there. *)

\* An uncollected child of q stays one.
Safe(q) ==
  \A x \in Pid : parent[x] = q /\ mainThread[x] # "none" =>
                  parent'[x] = q /\ mainThread'[x] # "none"

LEMMA ReapSafe ==
  ASSUME KernelInv, NEW c \in Pid, K!Reap(c), NEW q \in Pid, parent[c] # q
  PROVE  Safe(q)
BY PidFacts DEF K!Reap, KernelInv, K!TypeOK, Safe

\* Only the second half of waitpid(), and waitpid() of a zombie, collect.
LEMMA StepSafe ==
  ASSUME KernelInv, NEW p \in Pid,
         \/ K!Fork(p) \/ K!Exec(p) \/ K!ExecAsserts(p) \/ K!BeginExit(p)
         \/ K!FinishExit(p) \/ K!WaitStale(p) \/ UNCHANGED kernel
         \/ \E c \in Pid : \/ K!WaitNotFound(p, c) \/ K!WaitBlock(p, c)
                          \/ K!WaitNullJoin(p, c),
         NEW q \in Pid
  PROVE  Safe(q)
<1> USE PidFacts DEF KernelInv
<1>1. CASE K!Fork(p)
  BY <1>1, ForkKernel DEF K!Fork, K!TypeOK, PcbInv, Safe
<1>2. CASE K!FinishExit(p)
  BY <1>2 DEF K!FinishExit, K!TypeOK, Safe
<1>3. CASE parent' = parent /\ mainThread' = mainThread
  BY <1>3 DEF Safe
<1> QED
  BY <1>1, <1>2, <1>3
  DEF K!Exec, K!ExecAsserts, K!BeginExit, K!WaitStale, K!Stop, kernel,
      K!WaitNotFound, K!WaitBlock, K!WaitNullJoin

\* A process whose program does nothing.
LEMMA IdleOwn ==
  ASSUME BaseInv, NEW q \in Pid, OwnOf(q), toWait'[q] = toWait[q],
         Asked(q)' => Asked(q) /\ child'[q] = child[q],
         Safe(q)
  PROVE  OwnOf(q)'
<1>1. Asked(q) => child[q] \in Pid
  BY DEF BaseInv, KernelInv, QueueInv
<1> QED
  BY <1>1 DEF OwnOf, Safe

LEMMA EmptyOwn ==
  ASSUME NEW q \in Pid, toWait'[q] = <<>>, ~Asked(q)'
  PROVE  OwnOf(q)'
BY DEF OwnOf

\* A process p that forks, exits or execs, and all that are not at work.
LEMMA OthersOwn ==
  ASSUME BaseInv, OwnInv, Installed, NEW q \in Pid,
         toWait'[q] = toWait[q], at'[q] = at[q],
         Asked(q)' => Asked(q) /\ child'[q] = child[q],
         Safe(q)
  PROVE  at'[q] = "exec" \/ OwnOf(q)'
<1>1. at[q] = "exec" \/ OwnOf(q)
  BY DEF OwnInv
<1> QED
  BY <1>1, IdleOwn

LEMMA ExitsOwn ==
  ASSUME BaseInv, OwnInv, Installed, NEW p \in Pid, Exits(p), NEW q \in Pid
  PROVE  at'[q] = "exec" \/ OwnOf(q)'
<1>1. /\ \A r \in Pid : pc'[r] = IF r = p THEN "exiting" ELSE pc[r]
      /\ child' = child
  BY PidFacts DEF Exits, K!BeginExit, BaseInv, KernelInv, K!TypeOK
<1>2. CASE q = p
  <2>1. toWait'[q] = <<>> /\ ~Asked(q)'
    BY <1>1, <1>2 DEF Exits, BaseInv, TypeOK, Asked
  <2> QED
    BY <2>1, EmptyOwn
<1>3. CASE q # p
  <2>1. toWait'[q] = toWait[q] /\ at'[q] = at[q]
    BY <1>3 DEF Exits, BaseInv, TypeOK
  <2>2. Asked(q)' => Asked(q) /\ child'[q] = child[q]
    BY <1>1, <1>3 DEF Asked
  <2>3. Safe(q)
    BY StepSafe DEF Exits, BaseInv
  <2> QED
    BY <2>1, <2>2, <2>3, OthersOwn
<1> QED
  BY <1>2, <1>3

LEMMA BecomesOwn ==
  ASSUME BaseInv, OwnInv, Installed, NEW p \in Pid, NEW f \in File,
         NEW kept \in SUBSET End, Becomes(p, f, kept), NEW q \in Pid
  PROVE  at'[q] = "exec" \/ OwnOf(q)'
<1>1. pc' = pc /\ child' = child /\ pc[p] = "user"
  <2>1. pc' = pc /\ child' = child
    BY ExecSame DEF Becomes, K!ExecAsserts, K!Stop, kernel, BaseInv
  <2> QED
    BY <2>1 DEF Becomes, K!Exec, K!ExecAsserts, K!Running
<1>2. CASE q = p
  <2>1. toWait'[q] = <<>> /\ ~Asked(q)'
    BY <1>1, <1>2 DEF Becomes, BaseInv, TypeOK, Asked
  <2> QED
    BY <2>1, EmptyOwn
<1>3. CASE q # p
  <2>1. toWait'[q] = toWait[q] /\ at'[q] = at[q]
    BY <1>3 DEF Becomes, BaseInv, TypeOK
  <2>2. Asked(q)' => Asked(q) /\ child'[q] = child[q]
    BY <1>1 DEF Asked
  <2>3. Safe(q)
    BY StepSafe DEF Becomes, BaseInv
  <2> QED
    BY <2>1, <2>2, <2>3, OthersOwn
<1> QED
  BY <1>2, <1>3

LEMMA RunCommandOwn ==
  ASSUME BaseInv, OwnInv, Installed, NEW p \in Pid, NEW c \in Commands,
         RunCommand(p, c), NEW q \in Pid
  PROVE  at'[q] = "exec" \/ OwnOf(q)'
<1> DEFINE new == pid_current
<1>0. K!Fork(p) /\ new \in Pid /\ p # new
  BY ForkFresh DEF RunCommand
<1>1. Safe(q)
  BY <1>0, StepSafe DEF BaseInv
<1>2. /\ Asked(q)' => Asked(q) /\ child'[q] = child[q]
      /\ ~Asked(p)' /\ pc'[new] = "user" /\ toWait[new] = <<>>
  BY <1>0, ForkFresh DEF Asked
<1>3. CASE q = p
  <2>1. toWait'[p] = WaitsFor(c, new)
    BY <1>0 DEF RunCommand, BaseInv, TypeOK
  <2>2. CASE c.background
    BY <1>2, <1>3, <2>1, <2>2, EmptyOwn DEF WaitsFor
  <2>3. CASE ~c.background
    <3>1. toWait'[p] = <<new>>
      BY <2>1, <2>3 DEF WaitsFor
    <3>2. parent'[new] = p /\ mainThread'[new] = "live"
      BY <1>0, PidFacts DEF K!Fork, BaseInv, KernelInv, K!TypeOK
    <3>3. Len(toWait'[p]) = 1 /\ toWait'[p][1] = new
      BY <3>1
    <3> QED
      BY <1>0, <1>2, <1>3, <3>2, <3>3 DEF OwnOf
  <2> QED
    BY <2>2, <2>3
<1>4. CASE q # p
  <2>1. toWait'[q] = toWait[q]
    BY <1>4 DEF RunCommand, BaseInv, TypeOK
  <2>2. CASE q = new
    BY <1>2, <2>1, <2>2, EmptyOwn DEF Asked
  <2>3. CASE q # new
    <3>1. at'[q] = at[q]
      BY <1>4, <2>3 DEF RunCommand, BaseInv, TypeOK
    <3> QED
      BY <1>1, <1>2, <2>1, <3>1, OthersOwn
  <2> QED
    BY <2>2, <2>3
<1> QED
  BY <1>3, <1>4

LEMMA LaunchPipeOwn ==
  ASSUME BaseInv, OwnInv, Installed, NEW p \in Pid, LaunchPipe(p), NEW q \in Pid
  PROVE  at'[q] = "exec" \/ OwnOf(q)'
<1> DEFINE new == pid_current
<1>0. K!Fork(p) /\ new \in Pid /\ p # new
  BY ForkFresh DEF LaunchPipe
<1>1. Safe(q) /\ toWait' = toWait
  BY <1>0, StepSafe DEF BaseInv, LaunchPipe
<1>2. /\ Asked(q)' => Asked(q) /\ child'[q] = child[q]
      /\ ~Asked(p)' /\ pc'[new] = "user" /\ toWait[new] = <<>>
  BY <1>0, ForkFresh DEF Asked
<1>3. CASE q = p \/ q = new
  <2>1. toWait[p] = <<>>
    BY DEF LaunchPipe, BaseInv, LocalsInv, LocalsOf
  <2> QED
    BY <1>1, <1>2, <1>3, <2>1, EmptyOwn DEF Asked
<1>4. CASE q # p /\ q # new
  <2>1. at'[q] = at[q]
    BY <1>4 DEF LaunchPipe, BaseInv, TypeOK
  <2> QED
    BY <1>1, <1>2, <2>1, OthersOwn
<1> QED
  BY <1>3, <1>4

LEMMA CountForkOwn ==
  ASSUME BaseInv, OwnInv, Installed, NEW p \in Pid, CountFork(p), NEW q \in Pid
  PROVE  at'[q] = "exec" \/ OwnOf(q)'
<1> DEFINE new == pid_current
<1>0. K!Fork(p) /\ new \in Pid /\ p # new /\ mainThread[new] = "none"
  BY ForkFresh DEF CountFork
<1>1. Safe(q) /\ Safe(p)
  BY <1>0, StepSafe DEF BaseInv
<1>2. /\ Asked(q)' => Asked(q) /\ child'[q] = child[q]
      /\ ~Asked(p)'
  BY <1>0, ForkFresh DEF Asked
<1>3. CASE q = p
  <2>1. toWait'[p] = Append(toWait[p], new)
    BY <1>0 DEF CountFork, BaseInv, TypeOK
  <2>2. parent'[new] = p /\ mainThread'[new] = "live"
    BY <1>0, PidFacts DEF K!Fork, BaseInv, KernelInv, K!TypeOK
  <2>3. OwnOf(p) /\ toWait[p] \in Seq(Pid \cup {NULL})
    BY DEF CountFork, OwnInv, BaseInv, TypeOK
  <2> DEFINE n == Len(toWait[p])
  <2>4. /\ n \in Nat /\ Len(toWait'[p]) = n + 1 /\ toWait'[p][n + 1] = new
        /\ \A i \in 1..n : toWait'[p][i] = toWait[p][i]
    BY <2>1, <2>3
  <2>5. \A i \in 1..n : /\ toWait[p][i] \in Pid /\ toWait[p][i] # new
                        /\ parent[toWait[p][i]] = p
                        /\ mainThread[toWait[p][i]] # "none"
    BY <1>0, <2>3 DEF OwnOf
  <2>6. \A i \in 1..n : /\ parent'[toWait[p][i]] = p
                        /\ mainThread'[toWait[p][i]] # "none"
    BY <1>1, <2>5 DEF Safe
  <2>7. \A i, j \in 1..n : toWait[p][i] = toWait[p][j] => i = j
    BY <2>3 DEF OwnOf
  <2> HIDE DEF n
  <2>8. \A i \in 1..Len(toWait'[p]) :
          /\ toWait'[p][i] \in Pid /\ parent'[toWait'[p][i]] = p
          /\ mainThread'[toWait'[p][i]] # "none"
    <3> SUFFICES ASSUME NEW i \in 1..(n + 1)
        PROVE  /\ toWait'[p][i] \in Pid /\ parent'[toWait'[p][i]] = p
               /\ mainThread'[toWait'[p][i]] # "none"
      BY <2>4
    <3>1. CASE i \in 1..n
      BY <2>4, <2>5, <2>6, <3>1
    <3>2. CASE i = n + 1
      BY <1>0, <2>2, <2>4, <3>2
    <3> QED
      BY <2>4, <3>1, <3>2
  <2>9. \A i, j \in 1..Len(toWait'[p]) : toWait'[p][i] = toWait'[p][j] => i = j
    BY <2>4, <2>5, <2>7
  <2> QED
    BY <1>2, <1>3, <2>8, <2>9 DEF OwnOf
<1>4. CASE q = new
  BY <1>0, <1>4 DEF CountFork, BaseInv, TypeOK
<1>5. CASE q # p /\ q # new
  <2>1. toWait'[q] = toWait[q] /\ at'[q] = at[q]
    BY <1>5 DEF CountFork, BaseInv, TypeOK
  <2> QED
    BY <1>1, <1>2, <2>1, OthersOwn
<1> QED
  BY <1>3, <1>4, <1>5

\* waitpid() of the head of the list: what is left is others.
LEMMA WaitOwn ==
  ASSUME BaseInv, OwnInv, Installed, NEW p \in Pid, Wait(p), NEW q \in Pid
  PROVE  at'[q] = "exec" \/ OwnOf(q)'
<1> DEFINE c == Head(toWait[p])
<1>1. /\ at[p] = "wait" /\ Waits(p, c) /\ c = toWait[p][1]
      /\ toWait' = [toWait EXCEPT ![p] = Tail(toWait[p])]
      /\ \A r \in Pid : r # p => at'[r] = at[r]
      /\ 1 \in 1..Len(toWait[p])
  BY WaitList DEF Wait, LeftToWait, BaseInv, TypeOK
<1>2. OwnOf(p)
  BY <1>1 DEF OwnInv
<1>3. c \in Pid /\ parent[c] = p /\ mainThread[c] # "none"
  BY <1>1, <1>2 DEF OwnOf
<1>4. \A r \in Pid : r # p => pc'[r] = pc[r] /\ child'[r] = child[r]
  <2>1. PICK d \in Pid \cup {NULL} : d = c
    BY <1>3
  <2> QED
    BY <1>1, <2>1, WaitsEffect DEF BaseInv
<1>5. \/ K!WaitNotFound(p, c) \/ K!WaitBlock(p, c)
      \/ K!WaitZombie(p, c) \/ K!WaitNullJoin(p, c)
  BY <1>1, <1>3, PidFacts DEF Waits
<1> HIDE DEF c
<1>6. CASE q # p
  <2>1. Safe(q)
    <3>1. CASE K!WaitZombie(p, c)
      BY <1>3, <1>6, <3>1, ReapSafe DEF K!WaitZombie, BaseInv
    <3>2. CASE ~K!WaitZombie(p, c)
      BY <1>3, <1>5, <3>2, StepSafe DEF BaseInv
    <3> QED
      BY <3>1, <3>2
  <2>2. toWait'[q] = toWait[q]
    BY <1>1, <1>6 DEF BaseInv, TypeOK
  <2>3. Asked(q)' => Asked(q) /\ child'[q] = child[q]
    BY <1>4, <1>6 DEF Asked
  <2> QED
    BY <1>1, <1>6, <2>1, <2>2, <2>3, OthersOwn
<1>7. CASE q = p
  <2> DEFINE left == Tail(toWait[p])
  <2>1. /\ toWait'[p] = left /\ Len(left) \in Nat
        /\ Len(toWait[p]) = Len(left) + 1
        /\ \A i \in 1..Len(left) : i + 1 \in 1..Len(toWait[p]) /\ left[i] = toWait[p][i + 1]
    BY <1>1, WaitList DEF BaseInv, TypeOK
  <2> HIDE DEF left
  <2>2. \A i \in 1..Len(left) :
          /\ left[i] \in Pid /\ parent[left[i]] = p /\ mainThread[left[i]] # "none"
    BY <1>2, <2>1 DEF OwnOf
  <2>3. \A i, j \in 1..Len(left) : left[i] = left[j] => i = j
    <3> SUFFICES ASSUME NEW i \in 1..Len(left), NEW j \in 1..Len(left), left[i] = left[j]
        PROVE i = j
      OBVIOUS
    <3>0. \A a, b \in 1..Len(toWait[p]) : toWait[p][a] = toWait[p][b] => a = b
      BY <1>2 DEF OwnOf
    <3>1. i + 1 = j + 1
      BY <2>1, <3>0
    <3> QED
      BY <3>1, <2>1
  <2>4. \A i \in 1..Len(left) : left[i] # c
    <3> SUFFICES ASSUME NEW i \in 1..Len(left), left[i] = c PROVE FALSE
      OBVIOUS
    <3>1. i + 1 = 1
      BY <1>1, <1>2, <2>1 DEF OwnOf
    <3> QED
      BY <2>1, <3>1
  <2>5. \A x \in Pid : x # c /\ parent[x] = p /\ mainThread[x] # "none" =>
                        parent'[x] = p /\ mainThread'[x] # "none"
    <3>1. CASE K!WaitZombie(p, c)
      BY <1>3, <3>1, PidFacts DEF K!WaitZombie, K!Reap, BaseInv, KernelInv, K!TypeOK
    <3>2. CASE ~K!WaitZombie(p, c)
      BY <1>3, <1>5, <3>2, StepSafe DEF Safe, BaseInv
    <3> QED
      BY <3>1, <3>2
  <2>6. Asked(p)' => child'[p] = c /\ parent'[c] = p /\ mainThread'[c] # "none"
    <3>1. CASE K!WaitBlock(p, c)
      BY <1>3, <3>1, PidFacts DEF K!WaitBlock, BaseInv, KernelInv, K!TypeOK
    <3>2. CASE ~K!WaitBlock(p, c)
      BY <1>3, <1>5, <3>2
      DEF K!WaitNotFound, K!WaitZombie, K!WaitNullJoin, K!Stop, K!Running, Asked
    <3> QED
      BY <3>1, <3>2
  <2>7. \A i \in 1..Len(left) : /\ left[i] \in Pid /\ parent'[left[i]] = p
                                /\ mainThread'[left[i]] # "none"
    BY <2>2, <2>4, <2>5
  <2> QED
    BY <1>7, <2>1, <2>3, <2>4, <2>6, <2>7 DEF OwnOf
<1> QED
  BY <1>6, <1>7

\* The second halves of exit() and of waitpid().
LEMMA InKernelOwn ==
  ASSUME BaseInv, OwnInv, Installed, NEW p \in Pid, InKernel(p), NEW q \in Pid
  PROVE  at'[q] = "exec" \/ OwnOf(q)'
<1> USE PidFacts
<1>0. toWait' = toWait /\ at' = at
  BY DEF InKernel, locals
<1>1. CASE K!FinishExit(p) \/ K!WaitStale(p)
  <2>1. Asked(q)' => Asked(q) /\ child'[q] = child[q]
    <3>1. CASE K!FinishExit(p)
      <4>1. \A r \in joinQueue[p] : pc[r] = "joining"
        BY DEF BaseInv, KernelInv, K!TypeOK, QueueInv
      <4> QED
        BY <3>1, <4>1 DEF K!FinishExit, K!Woken, Asked
    <3>2. CASE K!WaitStale(p)
      BY <3>2 DEF K!WaitStale, K!Stop, Asked
    <3> QED
      BY <1>1, <3>1, <3>2
  <2>2. Safe(q)
    BY <1>1, StepSafe DEF BaseInv
  <2> QED
    BY <1>0, <2>1, <2>2, OthersOwn
<1>2. CASE K!WaitReturn(p)
  <2> DEFINE c == child[p]
  <2>1. /\ c \in Pid /\ Asked(p) /\ K!Reap(c)
        /\ pc' = [pc EXCEPT ![p] = "user"] /\ child' = [child EXCEPT ![p] = NULL]
    BY <1>2 DEF K!WaitReturn, Asked, BaseInv, KernelInv, QueueInv
  <2>2. OwnOf(p)
    BY <2>1 DEF OwnInv, BaseInv, LocalsInv, LocalsOf
  <2>3. parent[c] = p
    BY <2>1, <2>2 DEF OwnOf
  <2>4. CASE q # p
    <3>1. Asked(q)' => Asked(q) /\ child'[q] = child[q]
      BY <2>1, <2>4 DEF Asked, BaseInv, KernelInv, K!TypeOK
    <3>2. Safe(q)
      BY <2>1, <2>3, <2>4, ReapSafe DEF BaseInv
    <3> QED
      BY <1>0, <3>1, <3>2, OthersOwn
  <2>5. CASE q = p
    <3>1. ~Asked(p)'
      BY <2>1 DEF Asked, BaseInv, KernelInv, K!TypeOK
    <3>2. \A x \in Pid : x # c => parent'[x] = parent[x] /\ mainThread'[x] = mainThread[x]
      BY <2>1 DEF K!Reap, BaseInv, KernelInv, K!TypeOK
    <3>3. \A i \in 1..Len(toWait[p]) : toWait[p][i] # c
      BY <2>1, <2>2 DEF OwnOf
    <3> QED
      BY <1>0, <2>2, <2>5, <3>1, <3>2, <3>3 DEF OwnOf
  <2> QED
    BY <2>4, <2>5
<1> QED
  BY <1>1, <1>2 DEF InKernel

\* The steps of "threads", in which the kernel has no part.
LEMMA ThreadsOwn ==
  ASSUME BaseInv, OwnInv, Installed, NEW p \in Pid,
         \/ ThreadCreate(p) \/ ThreadCreateFails(p)
         \/ \E i \in Number : ThreadRuns(p, i) \/ ThreadJoin(p, i),
         NEW q \in Pid
  PROVE  at'[q] = "exec" \/ OwnOf(q)'
<1>1. UNCHANGED kernel /\ toWait' = toWait
  BY DEF ThreadCreate, ThreadCreateFails, ThreadRuns, ThreadJoin, OutsideThreads
<1>2. at'[q] = at[q] \/ at[q] \in {"loop", "join"}
  BY DEF ThreadCreate, ThreadCreateFails, ThreadRuns, ThreadJoin, BaseInv, TypeOK
<1>3. at'[q] = "exec" \/ OwnOf(q)
  BY <1>2 DEF OwnInv
<1> QED
  BY <1>1, <1>3 DEF kernel, OwnOf, Asked

LEMMA InitOwn == Init => OwnInv
<1> SUFFICES ASSUME Init, NEW p \in Pid PROVE OwnOf(p)
  BY DEF OwnInv
<1>1. toWait[p] = <<>> /\ pc[p] \in {"user", "none"}
  BY PidFacts DEF Init, K!Init
<1> QED
  BY <1>1 DEF OwnOf, Asked

\* No program changes what is on the disk.
LEMMA DiskStays == [Next]_vars => missing' = missing
BY DEF vars, locals, Next, Runs, User, LaunchPipe, Launch, LaunchFails, CountFork,
       CountExec, CountExecFails, CountEnds, ThreadCreate, ThreadCreateFails,
       ThreadsEnd, ThreadRuns, ThreadJoin, OutsideThreads, Wait, JobEnds, InKernel,
       ShellExit, RunCommand, Exits, Becomes

LEMMA NextOwn ==
  ASSUME BaseInv, OwnInv, [Next]_vars
  PROVE  OwnInv'
<1> SUFFICES ASSUME Installed, NEW q \in Pid PROVE at'[q] = "exec" \/ OwnOf(q)'
  BY DiskStays DEF OwnInv, Installed
<1>1. CASE UNCHANGED vars
  BY <1>1 DEF vars, kernel, locals, OwnInv, OwnOf, Asked
<1>2. ASSUME NEW p \in Pid, Runs(p) PROVE at'[q] = "exec" \/ OwnOf(q)'
  <2>1. CASE Launch(p) \/ CountExec(p)
    <3>1. PICK f \in File, kept \in SUBSET End : Becomes(p, f, kept)
      <4>1. CASE Launch(p)
        <5>1. files[p] \in Seq(File) /\ Len(files[p]) = 1
          BY <4>1 DEF Launch, Launches, BaseInv, TypeOK
        <5>2. files[p][1] \in File
          BY <5>1
        <5>3. Kept(p) \in SUBSET End
          BY <4>1 DEF Launch, Launches, Kept, BaseInv, TypeOK
        <5> QED
          BY <4>1, <5>2, <5>3 DEF Launch
      <4>2. CASE CountExec(p)
        BY <4>2 DEF CountExec, BaseInv, TypeOK, File, Jobs
      <4> QED
        BY <2>1, <4>1, <4>2
    <3> QED
      BY <3>1, BecomesOwn
  <2>2. CASE LaunchFails(p) \/ CountEnds(p) \/ ThreadsEnd(p) \/ JobEnds(p)
    BY <2>2, ExitsOwn DEF LaunchFails, CountEnds, ThreadsEnd, JobEnds
  <2>3. ~CountExecFails(p)
    BY DEF CountExecFails, Installed
  <2> QED
    BY <1>2, <2>1, <2>2, <2>3, LaunchPipeOwn, CountForkOwn, ThreadsOwn, WaitOwn,
       InKernelOwn DEF Runs
<1>3. ASSUME NEW p \in Pid, User(p) PROVE at'[q] = "exec" \/ OwnOf(q)'
  BY <1>3, ExitsOwn, RunCommandOwn DEF User, ShellExit
<1> QED
  BY <1>1, <1>2, <1>3 DEF Next

\* What does not depend on what programs may pass to waitpid() is the same
\* step of both kernels.
LEMMA SameSteps ==
  ASSUME NEW p \in Pid
  PROVE  /\ K!Fork(p) => Own!Fork(p)
         /\ K!Exec(p) => Own!Exec(p)
         /\ K!ExecAsserts(p) => Own!ExecAsserts(p)
         /\ K!BeginExit(p) => Own!BeginExit(p)
         /\ K!FinishExit(p) => Own!FinishExit(p)
         /\ K!WaitReturn(p) => Own!WaitReturn(p)
         /\ K!WaitStale(p) => Own!WaitStale(p)
<1>1. K!Fork(p) => Own!Fork(p)
  BY DEF K!Fork, Own!Fork, K!Running, Own!Running, K!NextPid, Own!NextPid,
         K!Returns, Own!Returns, K!NULL, Own!NULL
<1>2. K!Exec(p) => Own!Exec(p)
  BY DEF K!Exec, Own!Exec, K!Running, Own!Running, K!OnlyParentWaitsOn,
         Own!OnlyParentWaitsOn, K!Migrated, Own!Migrated, K!Pid, Own!Pid
<1>3. K!ExecAsserts(p) => Own!ExecAsserts(p)
  BY DEF K!ExecAsserts, Own!ExecAsserts, K!Running, Own!Running, K!Stop, Own!Stop,
         K!OnlyParentWaitsOn, Own!OnlyParentWaitsOn
<1>4. K!BeginExit(p) => Own!BeginExit(p)
  BY DEF K!BeginExit, Own!BeginExit, K!Running, Own!Running, K!NULL, Own!NULL
<1>5. K!FinishExit(p) => Own!FinishExit(p)
  BY DEF K!FinishExit, Own!FinishExit, K!Woken, Own!Woken, K!Pid, Own!Pid
<1>6. K!WaitReturn(p) => Own!WaitReturn(p)
  BY DEF K!WaitReturn, Own!WaitReturn, K!Reap, Own!Reap, K!Removable, Own!Removable,
         K!HasChild, Own!HasChild, K!Returns, Own!Returns, K!NULL, Own!NULL
<1>7. K!WaitStale(p) => Own!WaitStale(p)
  BY DEF K!WaitStale, Own!WaitStale, K!Stop, Own!Stop
<1> QED
  BY <1>1, <1>2, <1>3, <1>4, <1>5, <1>6, <1>7

\* waitpid() for an own uncollected child.
LEMMA SameWaits ==
  ASSUME NEW p \in Pid, NEW c \in Pid, parent[c] = p, mainThread[c] # "none"
  PROVE  /\ K!WaitNotFound(p, c) => Own!WaitNotFound(p, c)
         /\ K!WaitBlock(p, c) => Own!WaitBlock(p, c)
         /\ K!WaitZombie(p, c) => Own!WaitZombie(p, c)
         /\ ~K!WaitNullJoin(p, c)
<1>1. K!WaitNotFound(p, c) => Own!WaitNotFound(p, c)
  BY DEF K!WaitNotFound, Own!WaitNotFound, K!Running, Own!Running, Own!MayWaitFor,
         K!Returns, Own!Returns
<1>2. K!WaitBlock(p, c) => Own!WaitBlock(p, c)
  BY DEF K!WaitBlock, Own!WaitBlock, K!Running, Own!Running, Own!MayWaitFor
<1>3. K!WaitZombie(p, c) => Own!WaitZombie(p, c)
  BY DEF K!WaitZombie, Own!WaitZombie, K!Running, Own!Running, Own!MayWaitFor,
         K!Reap, Own!Reap, K!Removable, Own!Removable, K!HasChild, Own!HasChild,
         K!Returns, Own!Returns
<1>4. ~K!WaitNullJoin(p, c)
  BY DEF K!WaitNullJoin
<1> QED
  BY <1>1, <1>2, <1>3, <1>4

LEMMA OwnSteps ==
  ASSUME BaseInv, OwnInv, [Next]_vars
  PROVE  [Installed => Own!Next]_kernel
<1> SUFFICES ASSUME Installed, ~UNCHANGED kernel PROVE Own!Next
  OBVIOUS
<1>1. ~UNCHANGED vars
  BY DEF vars
<1>2. ASSUME NEW p \in Pid,
             \/ K!Fork(p) \/ K!Exec(p) \/ K!ExecAsserts(p) \/ K!BeginExit(p)
             \/ K!FinishExit(p) \/ K!WaitReturn(p) \/ K!WaitStale(p)
      PROVE  Own!Next
  BY <1>2, SameSteps DEF Own!Next, Own!Pid, Pid, K!Pid
<1>3. ASSUME NEW p \in Pid, Wait(p) PROVE Own!Next
  <2> DEFINE c == Head(toWait[p])
  <2>1. at[p] = "wait" /\ Waits(p, c) /\ c = toWait[p][1] /\ 1 \in 1..Len(toWait[p])
    BY <1>3, WaitList DEF Wait
  <2>2. c \in Pid /\ parent[c] = p /\ mainThread[c] # "none"
    BY <2>1 DEF OwnInv, OwnOf
  <2>3. \/ K!WaitNotFound(p, c) \/ K!WaitBlock(p, c)
        \/ K!WaitZombie(p, c) \/ K!WaitNullJoin(p, c)
    BY <2>1, <2>2, PidFacts DEF Waits
  <2> HIDE DEF c
  <2>4. Own!WaitNotFound(p, c) \/ Own!WaitBlock(p, c) \/ Own!WaitZombie(p, c)
    BY <2>2, <2>3, SameWaits
  <2>5. Own!Waitpid(p)
    BY <2>2, <2>4 DEF Own!Waitpid, Own!Pid, Pid, K!Pid
  <2> QED
    BY <2>5 DEF Own!Next, Own!Pid, Pid, K!Pid
<1>4. ASSUME NEW p \in Pid, Runs(p) PROVE Own!Next
  <2>1. ~CountExecFails(p)
    BY DEF CountExecFails
  <2>2. ~ThreadCreate(p) /\ ~ThreadCreateFails(p)
    BY DEF ThreadCreate, ThreadCreateFails, OutsideThreads
  <2>3. \A i \in Number : ~ThreadRuns(p, i) /\ ~ThreadJoin(p, i)
    BY DEF ThreadRuns, ThreadJoin, OutsideThreads
  <2>4. CASE LaunchPipe(p) \/ CountFork(p)
    BY <1>2, <2>4 DEF LaunchPipe, CountFork
  <2>5. CASE Launch(p) \/ CountExec(p)
    BY <1>2, <2>5 DEF Launch, CountExec, Becomes
  <2>6. CASE LaunchFails(p) \/ CountEnds(p) \/ ThreadsEnd(p) \/ JobEnds(p)
    BY <1>2, <2>6 DEF LaunchFails, CountEnds, ThreadsEnd, JobEnds, Exits
  <2>7. CASE InKernel(p)
    BY <1>2, <2>7 DEF InKernel
  <2> QED
    BY <1>3, <1>4, <2>1, <2>2, <2>3, <2>4, <2>5, <2>6, <2>7 DEF Runs
<1>5. ASSUME NEW p \in Pid, User(p) PROVE Own!Next
  BY <1>2, <1>5 DEF User, ShellExit, Exits, RunCommand
<1> QED
  BY <1>1, <1>4, <1>5 DEF Next

\* The programs of usr/src wait for their own uncollected children and for
\* nobody else, as long as count.elf is there: what the theorems about
\* Process.tla with AnyPid = FALSE assume of programs.
THEOREM ProgramsWaitForTheirOwn == Spec => OwnChildrenOnly
<1>1. Init => Own!Init
  BY DEF Init, K!Init, Own!Init, K!Root, Own!Root, K!NULL, Own!NULL, K!Pid, Own!Pid
<1>2. Init => BaseInv /\ OwnInv
  BY InitBase, InitOwn
<1>3. BaseInv /\ OwnInv /\ [Next]_vars => (BaseInv /\ OwnInv)'
  BY NextBase, NextOwn
<1>4. BaseInv /\ OwnInv /\ [Next]_vars => [Installed => Own!Next]_kernel
  BY OwnSteps
<1> QED
  BY <1>1, <1>2, <1>3, <1>4, PTL DEF Spec, OwnChildrenOnly

-----------------------------------------------------------------------------
(* A foreground command leaves nothing behind, with or without count.elf. *)

LEMMA InitClean == Init => CleanInv
BY PidFacts
DEF Init, K!Init, CleanInv, Expected, KeptForLoose, LooseInv, NoChildAtExec, Mine

\* A listed process has a parent, older than itself.
LEMMA ListedParent ==
  ASSUME KernelInv, NEW c \in procList \ {Root}
  PROVE  c \in Pid /\ parent[c] \in Pid /\ parent[c] < c /\ c < pid_current
BY PidFacts DEF KernelInv, K!TypeOK, PcbInv

\* Whom the parent of c expects, with a name for that parent.
LEMMA ExpectsAt ==
  ASSUME NEW c \in Pid, NEW q \in Pid, parent'[c] = q, Expects(q, c)'
  PROVE  Expects(parent[c], c)'
BY DEF Expects, Listed, Asked

\* Steps that neither fork nor collect.
LEMMA QuietClean ==
  ASSUME BaseInv, CleanInv, panic = "no",
         procList' = procList, parent' = parent, loose' = loose,
         \A c \in Pid : mainThread'[c] = "none" <=> mainThread[c] = "none",
         \A q, c \in Pid : c \in procList /\ Expects(q, c)' => Expects(q, c),
         \A q, c \in Pid :
           /\ c \in procList \ {Root} /\ parent[c] = q /\ Expects(q, c)
           /\ pc[q] \in {"user", "joining", "woken"}
           => pc'[q] \in {"user", "joining", "woken"} /\ Expects(q, c)',
         \A q \in Pid : at'[q] = "exec" => at[q] = "exec"
  PROVE  CleanInv'
<1> USE DEF CleanInv
<1>0. \A c \in procList \ {Root} : c \in Pid /\ parent[c] \in Pid
  BY ListedParent DEF BaseInv
<1>1. \A c \in Pid : Mine(c)' <=> Mine(c)
  BY DEF Mine
<1>2. Expected'
  <2> SUFFICES ASSUME NEW c \in Pid, Mine(c), mainThread'[c] # "none"
      PROVE pc'[parent'[c]] \in {"user", "joining", "woken"} /\ Expects(parent[c], c)'
    BY <1>1 DEF Expected
  <2>1. mainThread[c] # "none" /\ c \in procList \ {Root} /\ parent[c] \in Pid
    BY <1>0 DEF Mine
  <2>2. pc[parent[c]] \in {"user", "joining", "woken"} /\ Expects(parent[c], c)
    BY <2>1 DEF Expected
  <2>3. PICK q \in Pid : q = parent[c]
    BY <2>1
  <2>4. pc'[q] \in {"user", "joining", "woken"} /\ Expects(q, c)'
    BY <2>1, <2>2, <2>3
  <2> QED
    BY <2>3, <2>4 DEF Expects, Listed, Asked
<1>3. KeptForLoose'
  BY <1>0, <1>1 DEF KeptForLoose
<1>4. LooseInv'
  BY <1>0 DEF LooseInv
<1>5. NoChildAtExec'
  BY <1>0 DEF NoChildAtExec
<1> QED
  BY <1>2, <1>3, <1>4, <1>5

\* A fork: the child is loose, or its parent expects it.
LEMMA ForkClean ==
  ASSUME BaseInv, CleanInv, NEW p \in Pid, K!Fork(p),
         NEW new \in Pid, new = pid_current,
         \A c \in Pid : c # new => loose'[c] = loose[c],
         loose[p] => loose'[new],
         ~loose'[new] => Expects(p, new)',
         loose'[new] /\ ~loose[p] => \A q \in Pid : ~Expects(q, new)',
         \A q, c \in Pid : c # new /\ Expects(q, c)' =>
                           Expects(q, c) \/ Expects(p, c),
         \A q, c \in Pid : c # new /\ Expects(q, c) => Expects(q, c)',
         \A q \in Pid : at'[q] = "exec" => at[q] = "exec" \/ q = new,
         at[p] # "exec"
  PROVE  CleanInv'
<1> USE PidFacts
<1>0. /\ panic = "no" /\ p # new /\ new # Root /\ new \notin procList
      /\ p \in procList /\ pc[p] = "user" /\ mainThread[p] = "live"
      /\ \A q \in Pid : pc'[q] = IF q = new THEN "user" ELSE pc[q]
  BY ForkFresh
<1>1. /\ procList' = procList \cup {new}
      /\ parent' = [parent EXCEPT ![new] = p]
      /\ mainThread' = [mainThread EXCEPT ![new] = "live"]
  BY DEF K!Fork
<1>2. /\ parent'[new] = p /\ mainThread'[new] = "live"
      /\ \A c \in Pid : c # new => parent'[c] = parent[c] /\ mainThread'[c] = mainThread[c]
  BY <1>1 DEF BaseInv, KernelInv, K!TypeOK
<1>3. \A c \in procList \ {Root} :
        c \in Pid /\ c # new /\ parent[c] \in Pid /\ parent[c] # new
  BY <1>0, ListedParent DEF BaseInv, KernelInv
<1>4. Expected /\ KeptForLoose /\ LooseInv /\ NoChildAtExec
  BY <1>0 DEF CleanInv
<1>5. Expected'
  <2> SUFFICES ASSUME NEW c \in Pid, c \in procList' \ {Root}, ~loose'[c],
                      mainThread'[c] # "none"
      PROVE pc'[parent'[c]] \in {"user", "joining", "woken"} /\ Expects(parent[c], c)'
    BY DEF Expected, Mine
  <2>1. CASE c = new
    <3>1. parent'[c] = p /\ pc'[p] = "user" /\ Expects(p, c)'
      BY <1>0, <1>2, <2>1
    <3> QED
      BY <3>1 DEF Expects, Listed, Asked
  <2>2. CASE c # new
    <3>1. Mine(c) /\ mainThread[c] # "none" /\ parent[c] \in Pid /\ parent[c] # new
          /\ parent'[c] = parent[c]
      BY <1>1, <1>2, <1>3, <2>2 DEF Mine
    <3>2. pc[parent[c]] \in {"user", "joining", "woken"} /\ Expects(parent[c], c)
      BY <1>4, <3>1 DEF Expected
    <3>3. PICK q \in Pid : q = parent[c]
      BY <3>1
    <3>4. Expects(q, c)' /\ pc'[q] = pc[q]
      BY <1>0, <2>2, <3>1, <3>2, <3>3
    <3> QED
      BY <3>1, <3>2, <3>3, <3>4 DEF Expects, Listed, Asked
  <2> QED
    BY <2>1, <2>2
<1>6. KeptForLoose'
  <2> SUFFICES ASSUME NEW c \in Pid, c \in procList' \ {Root}, ~loose'[c],
                      mainThread'[c] = "none"
      PROVE \E d \in procList' \ {Root} :
              parent'[d] = c /\ (loose'[d] \/ mainThread'[d] = "none")
    BY DEF KeptForLoose, Mine
  <2>1. c # new /\ Mine(c) /\ mainThread[c] = "none"
    BY <1>1, <1>2 DEF Mine
  <2>2. PICK d \in procList \ {Root} : parent[d] = c /\ (loose[d] \/ mainThread[d] = "none")
    BY <1>4, <2>1 DEF KeptForLoose
  <2>3. d \in procList' \ {Root} /\ d # new /\ d \in Pid
    BY <1>1, <1>3
  <2> QED
    BY <1>2, <2>2, <2>3
<1>7. LooseInv'
  <2>1. ASSUME NEW c \in procList' \ {Root}, loose'[c], ~loose'[parent'[c]], NEW q \in Pid
        PROVE ~Expects(q, c)'
    <3>1. CASE c = new
      <4>1. ~loose[p]
        BY <1>0, <1>2, <2>1, <3>1
      <4> QED
        BY <2>1, <3>1, <4>1
    <3>2. CASE c # new
      <4>1. c \in procList \ {Root} /\ c \in Pid /\ parent[c] \in Pid /\ parent[c] # new
            /\ parent'[c] = parent[c]
        BY <1>1, <1>2, <1>3, <3>2
      <4>2. loose[c] /\ ~loose[parent[c]]
        BY <2>1, <3>2, <4>1
      <4>3. ~Expects(q, c) /\ ~Expects(p, c)
        BY <1>4, <4>1, <4>2 DEF LooseInv
      <4> QED
        BY <3>2, <4>1, <4>3
    <3> QED
      BY <3>1, <3>2
  <2>2. ASSUME NEW c \in procList' \ {Root}, loose'[parent'[c]]
        PROVE loose'[c]
    <3>1. CASE c = new
      BY <1>0, <1>2, <2>2, <3>1
    <3>2. CASE c # new
      <4>1. c \in procList \ {Root} /\ c \in Pid /\ parent[c] \in Pid /\ parent[c] # new
            /\ parent'[c] = parent[c]
        BY <1>1, <1>2, <1>3, <3>2
      <4> QED
        BY <1>4, <2>2, <3>2, <4>1 DEF LooseInv
    <3> QED
      BY <3>1, <3>2
  <2>3. ~loose'[Root]
    BY <1>0, <1>4 DEF LooseInv
  <2> QED
    BY <2>1, <2>2, <2>3 DEF LooseInv
<1>8. NoChildAtExec'
  <2> SUFFICES ASSUME NEW c \in procList' \ {Root} PROVE at'[parent'[c]] # "exec"
    BY DEF NoChildAtExec
  <2>1. CASE c = new
    BY <1>0, <1>2, <2>1
  <2>2. CASE c # new
    <3>1. c \in procList \ {Root} /\ c \in Pid /\ parent[c] \in Pid /\ parent[c] # new
          /\ parent'[c] = parent[c]
      BY <1>1, <1>2, <1>3, <2>2
    <3> QED
      BY <1>4, <3>1 DEF NoChildAtExec
  <2> QED
    BY <2>1, <2>2
<1> QED
  BY <1>5, <1>6, <1>7, <1>8 DEF CleanInv

\* p collects x, which it expects.
LEMMA ReapClean ==
  ASSUME BaseInv, CleanInv, panic = "no", NEW p \in Pid, NEW x \in Pid,
         K!Reap(x), mainThread[x] = "zombie", Expects(p, x), loose' = loose,
         \A q \in Pid : pc'[q] = IF q = p THEN "user" ELSE pc[q],
         \A q, c \in Pid : Expects(q, c)' => Expects(q, c),
         \A q, c \in Pid : c # x /\ Expects(q, c) => Expects(q, c)',
         \A q \in Pid : at'[q] = "exec" => at[q] = "exec"
  PROVE  CleanInv'
<1> USE PidFacts
<1>1. /\ parent' = parent
      /\ procList' = IF K!HasChild(x) THEN procList ELSE procList \ {x}
      /\ \A c \in Pid : mainThread'[c] = IF c = x THEN "none" ELSE mainThread[c]
  BY DEF K!Reap, K!Removable, BaseInv, KernelInv, K!TypeOK
<1>2. Expected /\ KeptForLoose /\ LooseInv /\ NoChildAtExec
  BY DEF CleanInv
<1>3. \A c \in procList \ {Root} : c \in Pid /\ parent[c] \in Pid /\ parent[c] # c
  BY ListedParent DEF BaseInv
<1>4. procList' \subseteq procList /\ \A c \in procList : c # x => c \in procList'
  BY <1>1
<1>5. Expected'
  <2> SUFFICES ASSUME NEW c \in Pid, c \in procList' \ {Root}, ~loose'[c],
                      mainThread'[c] # "none"
      PROVE pc'[parent'[c]] \in {"user", "joining", "woken"} /\ Expects(parent[c], c)'
    BY DEF Expected, Mine
  <2>1. /\ Mine(c) /\ c # x /\ mainThread[c] # "none" /\ parent[c] \in Pid
        /\ parent'[c] = parent[c]
    BY <1>1, <1>3, <1>4 DEF Mine
  <2>2. pc[parent[c]] \in {"user", "joining", "woken"} /\ Expects(parent[c], c)
    BY <1>2, <2>1 DEF Expected
  <2>3. PICK q \in Pid : q = parent[c]
    BY <2>1
  <2>4. Expects(q, c)' /\ pc'[q] \in {"user", "joining", "woken"}
    BY <2>1, <2>2, <2>3
  <2> QED
    BY <2>1, <2>3, <2>4, ExpectsAt
<1>6. KeptForLoose'
  <2> SUFFICES ASSUME NEW c \in Pid, c \in procList' \ {Root}, ~loose[c],
                      mainThread'[c] = "none"
      PROVE \E d \in procList' \ {Root} :
              parent[d] = c /\ (loose[d] \/ mainThread'[d] = "none")
    BY <1>1 DEF KeptForLoose, Mine
  <2>1. CASE c = x
    <3>1. K!HasChild(x)
      BY <1>1, <2>1
    <3>2. PICK d \in procList : parent[d] = x
      BY <3>1 DEF K!HasChild
    <3>3. d \in procList \ {Root} /\ d # x /\ d \in Pid
      BY <1>3, <3>2 DEF BaseInv, KernelInv, PcbInv
    <3>4. pc[x] \notin {"user", "joining", "woken"}
      BY DEF BaseInv, KernelInv, PcbInv, Alive
    <3>5. loose[d] \/ mainThread[d] = "none"
      BY <1>2, <3>2, <3>3, <3>4 DEF Expected, Mine
    <3> QED
      BY <1>1, <1>4, <2>1, <3>2, <3>3, <3>5
  <2>2. CASE c # x
    <3>1. Mine(c) /\ mainThread[c] = "none"
      BY <1>1, <1>4, <2>2 DEF Mine
    <3>2. PICK d \in procList \ {Root} : parent[d] = c /\ (loose[d] \/ mainThread[d] = "none")
      BY <1>2, <3>1 DEF KeptForLoose
    <3>3. d # x
      <4>1. CASE loose[d]
        <5>1. ~Expects(p, d)
          BY <1>2, <3>2, <4>1 DEF LooseInv
        <5> QED
          BY <5>1
      <4>2. CASE ~loose[d]
        BY <3>2, <4>2
      <4> QED
        BY <4>1, <4>2
    <3> QED
      BY <1>1, <1>3, <1>4, <3>2, <3>3
  <2> QED
    BY <2>1, <2>2
<1>7. LooseInv'
  BY <1>1, <1>2, <1>3, <1>4 DEF LooseInv
<1>8. NoChildAtExec'
  BY <1>1, <1>2, <1>3, <1>4 DEF NoChildAtExec
<1> QED
  BY <1>5, <1>6, <1>7, <1>8 DEF CleanInv

LEMMA ExpectsSame ==
  ASSUME NEW q \in Pid, NEW c \in Pid, toWait'[q] = toWait[q],
         Asked(q)' <=> Asked(q), Asked(q) => child'[q] = child[q]
  PROVE  Expects(q, c)' <=> Expects(q, c)
BY DEF Expects, Listed

LEMMA ExpectsNone ==
  ASSUME NEW q \in Pid, NEW c \in Pid, toWait[q] = <<>>, ~Asked(q)
  PROVE  ~Expects(q, c)
BY DEF Expects, Listed

LEMMA ExpectsNoneNext ==
  ASSUME NEW q \in Pid, NEW c \in Pid, toWait'[q] = <<>>, ~Asked(q)'
  PROVE  ~Expects(q, c)'
BY DEF Expects, Listed

\* The list of a program is empty where it exits.
LEMMA ExitsClean ==
  ASSUME BaseInv, CleanInv, NEW p \in Pid, Exits(p), toWait[p] = <<>>
  PROVE  CleanInv'
<1> USE PidFacts
<1>1. /\ panic = "no" /\ pc[p] = "user" /\ procList' = procList /\ parent' = parent
      /\ mainThread' = mainThread /\ child' = child /\ loose' = loose
      /\ \A q \in Pid : pc'[q] = IF q = p THEN "exiting" ELSE pc[q]
      /\ \A q \in Pid : toWait'[q] = IF q = p THEN <<>> ELSE toWait[q]
      /\ \A q \in Pid : at'[q] = IF q = p THEN "exit" ELSE at[q]
  BY DEF Exits, K!BeginExit, K!Running, BaseInv, KernelInv, K!TypeOK, TypeOK
<1>2. \A c \in Pid : ~Expects(p, c) /\ ~Expects(p, c)'
  <2>1. ~Asked(p) /\ ~Asked(p)' /\ toWait'[p] = <<>>
    BY <1>1 DEF Asked
  <2> QED
    BY <2>1, ExpectsNone, ExpectsNoneNext
<1>3. \A q, c \in Pid : q # p => (Expects(q, c)' <=> Expects(q, c))
  BY <1>1, ExpectsSame DEF Asked
<1>4. \A c \in procList : c \in Pid
  BY DEF BaseInv, KernelInv, K!TypeOK
<1> QED
  BY <1>1, <1>2, <1>3, <1>4, QuietClean

\* So is that of a program that execs, but for a child of count_parallel,
\* which has no child yet.
LEMMA BecomesClean ==
  ASSUME BaseInv, CleanInv, NEW p \in Pid, NEW f \in File, NEW kept \in SUBSET End,
         Becomes(p, f, kept), toWait[p] = <<>> \/ at[p] = "exec"
  PROVE  CleanInv'
<1> USE PidFacts
<1>1. CASE K!ExecAsserts(p)
  BY <1>1 DEF K!ExecAsserts, K!Stop, CleanInv
<1>2. CASE K!Exec(p)
  <2>1. /\ panic = "no" /\ pc[p] = "user" /\ UNCHANGED kernel /\ loose' = loose
        /\ \A q \in Pid : toWait'[q] = IF q = p THEN <<>> ELSE toWait[q]
        /\ \A q \in Pid : q # p => at'[q] = at[q]
        /\ at'[p] # "exec"
    BY <1>2, ExecSame DEF Becomes, K!Exec, K!Running, BaseInv, TypeOK
  <2>2. \A c \in Pid : ~Expects(p, c)'
    <3>1. ~Asked(p)' /\ toWait'[p] = <<>>
      BY <2>1 DEF Asked, kernel
    <3> QED
      BY <3>1, ExpectsNoneNext
  <2>3. \A c \in procList \ {Root} : parent[c] = p => ~Expects(p, c)
    <3>1. CASE toWait[p] = <<>>
      <4>1. ~Asked(p) /\ \A c \in procList : c \in Pid
        BY <2>1 DEF Asked, BaseInv, KernelInv, K!TypeOK
      <4> QED
        BY <3>1, <4>1, ExpectsNone
    <3>2. CASE at[p] = "exec"
      BY <2>1, <3>2 DEF CleanInv, NoChildAtExec
    <3> QED
      BY <3>1, <3>2
  <2>4. \A q, c \in Pid : q # p => (Expects(q, c)' <=> Expects(q, c))
    BY <2>1, ExpectsSame DEF Asked, kernel
  <2>5. /\ procList' = procList /\ parent' = parent /\ mainThread' = mainThread /\ pc' = pc
        /\ \A c \in procList : c \in Pid
    BY <2>1 DEF kernel, BaseInv, KernelInv, K!TypeOK
  <2>6. \A q, c \in Pid :
           /\ c \in procList \ {Root} /\ parent[c] = q /\ Expects(q, c)
           /\ pc[q] \in {"user", "joining", "woken"}
           => pc'[q] \in {"user", "joining", "woken"} /\ Expects(q, c)'
    BY <2>3, <2>4, <2>5
  <2>7. \A q, c \in Pid : c \in procList /\ Expects(q, c)' => Expects(q, c)
    BY <2>2, <2>4
  <2>8. \A q \in Pid : at'[q] = "exec" => at[q] = "exec"
    BY <2>1
  <2> QED
    BY <2>1, <2>5, <2>6, <2>7, <2>8, QuietClean
<1> QED
  BY <1>1, <1>2 DEF Becomes

\* A new process is expected by nobody before the fork.
LEMMA NewUnexpected ==
  ASSUME BaseInv, NEW new \in Pid, new = pid_current, NEW q \in Pid
  PROVE  ~Expects(q, new)
<1>1. new \notin Listed(q)
  BY DEF BaseInv, LocalsInv, LocalsOf, Listed, KernelInv, K!TypeOK
<1>2. Asked(q) => child[q] # new
  BY DEF BaseInv, KernelInv, QueueInv, K!TypeOK
<1> QED
  BY <1>1, <1>2 DEF Expects

LEMMA RunCommandClean ==
  ASSUME BaseInv, CleanInv, NEW p \in Pid, NEW c \in Commands, RunCommand(p, c)
  PROVE  CleanInv'
<1> USE PidFacts
<1>1. PICK new \in Pid : new = pid_current
  BY ForkFresh DEF RunCommand
<1>2. /\ K!Fork(p) /\ p # new /\ toWait[new] = <<>> /\ child' = child
      /\ ~Asked(p) /\ ~Asked(p)' /\ ~Asked(new) /\ ~Asked(new)'
      /\ \A q \in Pid : q # new => pc'[q] = pc[q]
  BY <1>1, ForkFresh DEF RunCommand, Asked
<1>3. /\ toWait[p] = <<>> /\ at[p] = "prompt"
  BY DEF RunCommand, BaseInv, LocalsInv, LocalsOf
<1>4. /\ toWait'[p] = WaitsFor(c, new)
      /\ \A q \in Pid : q # p => toWait'[q] = toWait[q]
      /\ \A q \in Pid : q # p /\ q # new => at'[q] = at[q]
      /\ at'[p] # "exec"
      /\ loose'[new] = (loose[p] \/ c.background)
      /\ \A q \in Pid : q # new => loose'[q] = loose[q]
  BY <1>1, <1>2 DEF RunCommand, BaseInv, TypeOK
<1>5. \A q, d \in Pid : q # p => (Expects(q, d)' <=> Expects(q, d))
  <2>1. \A q \in Pid : q # p => (Asked(q)' <=> Asked(q))
    BY <1>2 DEF Asked
  <2> QED
    BY <1>2, <1>4, <2>1, ExpectsSame
<1>6. \A d \in Pid : ~Expects(p, d)
  BY <1>2, <1>3, ExpectsNone
<1>7. CASE c.background
  <2>1. \A d \in Pid : ~Expects(p, d)'
    BY <1>2, <1>4, <1>7, ExpectsNoneNext DEF WaitsFor
  <2>2. \A q \in Pid : ~Expects(q, new)
    BY <1>1, NewUnexpected
  <2>3. loose'[new]
    BY <1>4, <1>7
  <2>4. \A q \in Pid : ~Expects(q, new)'
    BY <1>5, <2>1, <2>2
  <2> QED
    BY <1>1, <1>2, <1>3, <1>4, <1>5, <1>6, <2>1, <2>3, <2>4, ForkClean
<1>8. CASE ~c.background
  <2>1. toWait'[p] = <<new>>
    BY <1>4, <1>8 DEF WaitsFor
  <2>2. \A d \in Pid : Expects(p, d)' <=> d = new
    <3>1. \A d \in Pid : d \in Listed(p)' <=> d = new
      BY <2>1 DEF Listed
    <3> QED
      BY <1>2, <3>1 DEF Expects
  <2>3. loose'[new] <=> loose[p]
    BY <1>4, <1>8
  <2> QED
    BY <1>1, <1>2, <1>3, <1>4, <1>5, <1>6, <2>2, <2>3, ForkClean
<1> QED
  BY <1>7, <1>8

LEMMA LaunchPipeClean ==
  ASSUME BaseInv, CleanInv, NEW p \in Pid, LaunchPipe(p)
  PROVE  CleanInv'
<1> USE PidFacts
<1>1. PICK new \in Pid : new = pid_current
  BY ForkFresh DEF LaunchPipe
<1>2. /\ K!Fork(p) /\ p # new /\ child' = child
      /\ \A q \in Pid : Asked(q)' <=> Asked(q)
  BY <1>1, ForkFresh DEF LaunchPipe, Asked
<1>3. /\ toWait' = toWait /\ at[p] = "launch"
      /\ \A q \in Pid : q # p /\ q # new => at'[q] = at[q]
      /\ at'[p] # "exec" /\ loose'[new]
      /\ \A q \in Pid : q # new => loose'[q] = loose[q]
  BY <1>1, <1>2 DEF LaunchPipe, BaseInv, TypeOK
<1>4. \A q, d \in Pid : Expects(q, d)' <=> Expects(q, d)
  BY <1>2, <1>3, ExpectsSame
<1>5. \A q \in Pid : ~Expects(q, new)'
  BY <1>1, <1>4, NewUnexpected
<1> QED
  BY <1>1, <1>2, <1>3, <1>4, <1>5, ForkClean

\* The child takes over the list of its parent, which lists the child too.
LEMMA CountForkClean ==
  ASSUME BaseInv, CleanInv, NEW p \in Pid, CountFork(p)
  PROVE  CleanInv'
<1> USE PidFacts
<1>1. PICK new \in Pid : new = pid_current
  BY ForkFresh DEF CountFork
<1>2. /\ K!Fork(p) /\ p # new /\ child' = child /\ toWait[new] = <<>>
      /\ \A q \in Pid : Asked(q)' <=> Asked(q)
      /\ ~Asked(p) /\ ~Asked(new)
  BY <1>1, ForkFresh DEF CountFork, Asked
<1>3. /\ toWait'[p] = Append(toWait[p], new) /\ toWait'[new] = toWait[p]
      /\ \A q \in Pid : q # p /\ q # new => toWait'[q] = toWait[q]
      /\ at[p] = "loop" /\ at'[p] # "exec"
      /\ \A q \in Pid : q # p /\ q # new => at'[q] = at[q]
      /\ loose'[new] = loose[p]
      /\ \A q \in Pid : q # new => loose'[q] = loose[q]
  <2>1. at' = [at EXCEPT ![p] = AtNext(p, id[p] + 1), ![new] = "exec"]
    BY <1>1 DEF CountFork
  <2>2. AtNext(p, id[p] + 1) # "exec"
    BY DEF AtNext
  <2>3. /\ toWait'[p] = Append(toWait[p], new) /\ toWait'[new] = toWait[p]
        /\ \A q \in Pid : q # p /\ q # new => toWait'[q] = toWait[q]
    BY <1>1, <1>2 DEF CountFork, BaseInv, TypeOK
  <2>4. loose' = [loose EXCEPT ![new] = loose[p]] /\ at[p] = "loop"
    BY <1>1 DEF CountFork
  <2> QED
    BY <1>2, <2>1, <2>2, <2>3, <2>4 DEF BaseInv, TypeOK
<1>4. \A d \in Pid : /\ Expects(p, d) <=> d \in Listed(p)
                     /\ Expects(p, d)' <=> d \in Listed(p)'
                     /\ Expects(new, d)' <=> d \in Listed(new)'
                     /\ ~Expects(new, d)
  BY <1>2, ExpectsNone DEF Expects
<1>5. Listed(p)' = Listed(p) \cup {new}
  <2>1. toWait[p] \in Seq(Pid \cup {NULL})
    BY DEF BaseInv, TypeOK
  <2>2. \A d : d \in Listed(p)' <=> d \in Listed(p) \/ d = new
    BY <1>3, <2>1 DEF Listed
  <2> QED
    BY <2>2
<1>6. {toWait'[new][i] : i \in 1..Len(toWait'[new])} = Listed(p)
  BY <1>3 DEF Listed
<1>7. \A q, d \in Pid : q # p /\ q # new => (Expects(q, d)' <=> Expects(q, d))
  BY <1>2, <1>3, ExpectsSame
<1>8. ~loose'[new] => Expects(p, new)'
  <2>1. Expects(p, new)'
    BY <1>4, <1>5
  <2> QED
    BY <2>1 DEF Expects, Listed, Asked
<1>9. \A q, d \in Pid : d # new /\ Expects(q, d)' => Expects(q, d) \/ Expects(p, d)
  <2> SUFFICES ASSUME NEW q \in Pid, NEW d \in Pid, d # new, Expects(q, d)'
      PROVE Expects(q, d) \/ Expects(p, d)
    OBVIOUS
  <2>1. CASE q = p
    <3>1. Expects(p, d)'
      BY <2>1 DEF Expects, Listed, Asked
    <3> QED
      BY <1>4, <1>5, <3>1
  <2>2. CASE q = new
    <3>1. d \in {toWait'[q][i] : i \in 1..Len(toWait'[q])} \/ Asked(q)'
      BY DEF Expects, Listed
    <3>2. d \in Listed(p)
      BY <1>2, <1>6, <2>2, <3>1
    <3> QED
      BY <1>4, <3>2
  <2>3. CASE q # p /\ q # new
    BY <1>7, <2>3
  <2> QED
    BY <2>1, <2>2, <2>3
<1>10. \A q, d \in Pid : d # new /\ Expects(q, d) => Expects(q, d)'
  <2> SUFFICES ASSUME NEW q \in Pid, NEW d \in Pid, d # new, Expects(q, d)
      PROVE Expects(q, d)'
    OBVIOUS
  <2>1. CASE q = p
    <3>1. Expects(p, d)'
      BY <1>4, <1>5, <2>1
    <3> QED
      BY <2>1, <3>1 DEF Expects, Listed, Asked
  <2>2. CASE q = new
    BY <1>4, <2>2
  <2>3. CASE q # p /\ q # new
    BY <1>7, <2>3
  <2> QED
    BY <2>1, <2>2, <2>3
<1>11. /\ loose[p] => loose'[new]
       /\ loose'[new] /\ ~loose[p] => \A q \in Pid : ~Expects(q, new)'
       /\ \A q \in Pid : at'[q] = "exec" => at[q] = "exec" \/ q = new
       /\ at[p] # "exec" /\ \A q \in Pid : q # new => loose'[q] = loose[q]
  BY <1>3
<1> QED
  BY <1>1, <1>2, <1>8, <1>9, <1>10, <1>11, ForkClean

\* execl() came back: one more entry, 0, which is no process.
LEMMA CountExecFailsClean ==
  ASSUME BaseInv, CleanInv, NEW p \in Pid, CountExecFails(p)
  PROVE  CleanInv'
<1> USE PidFacts
<1>1. /\ panic = "no" /\ UNCHANGED kernel /\ loose' = loose
      /\ toWait[p] \in Seq(Pid \cup {NULL}) /\ toWait'[p] = Append(toWait[p], NULL)
      /\ \A q \in Pid : q # p => toWait'[q] = toWait[q] /\ at'[q] = at[q]
      /\ at'[p] # "exec"
  BY DEF CountExecFails, K!Running, AtNext, BaseInv, TypeOK
<1>2. Listed(p)' = Listed(p) \cup {NULL}
  <2>1. \A d : d \in Listed(p)' <=> d \in Listed(p) \/ d = NULL
    BY <1>1 DEF Listed
  <2> QED
    BY <2>1
<1>3. \A d \in Pid : Expects(p, d)' <=> Expects(p, d)
  BY <1>1, <1>2 DEF Expects, Asked, kernel
<1>4. \A q, d \in Pid : q # p => (Expects(q, d)' <=> Expects(q, d))
  BY <1>1, ExpectsSame DEF Asked, kernel
<1>5. \A q, d \in Pid : Expects(q, d)' <=> Expects(q, d)
  <2> SUFFICES ASSUME NEW q \in Pid, NEW d \in Pid PROVE Expects(q, d)' <=> Expects(q, d)
    OBVIOUS
  <2>1. CASE q = p
    <3>1. Expects(p, d)' <=> Expects(p, d)
      BY <1>3
    <3> QED
      BY <2>1, <3>1 DEF Expects, Listed, Asked
  <2> QED
    BY <1>4, <2>1
<1>6. /\ procList' = procList /\ parent' = parent /\ mainThread' = mainThread /\ pc' = pc
      /\ \A q \in Pid : at'[q] = "exec" => at[q] = "exec"
  BY <1>1 DEF kernel
<1> QED
  BY <1>1, <1>5, <1>6, QuietClean

LEMMA ThreadsClean ==
  ASSUME BaseInv, CleanInv, NEW p \in Pid,
         \/ ThreadCreate(p) \/ ThreadCreateFails(p)
         \/ \E i \in Number : ThreadRuns(p, i) \/ ThreadJoin(p, i)
  PROVE  CleanInv'
<1>1. UNCHANGED kernel /\ toWait' = toWait /\ loose' = loose
  BY DEF ThreadCreate, ThreadCreateFails, ThreadRuns, ThreadJoin, OutsideThreads
<1>2. panic = "no"
  BY DEF ThreadCreate, ThreadCreateFails, ThreadRuns, ThreadJoin, K!Running
<1>3. \A q \in Pid : at'[q] = "exec" => at[q] = "exec"
  BY DEF ThreadCreate, ThreadCreateFails, ThreadRuns, ThreadJoin, BaseInv, TypeOK
<1>4. \A q, d \in Pid : Expects(q, d)' <=> Expects(q, d)
  BY <1>1, ExpectsSame DEF Asked, kernel
<1>5. procList' = procList /\ parent' = parent /\ mainThread' = mainThread /\ pc' = pc
  BY <1>1 DEF kernel
<1> QED
  BY <1>1, <1>2, <1>3, <1>4, <1>5, QuietClean

\* The process at the head of the list is collected, or waited for from now
\* on, or it is no longer there.
LEMMA WaitClean ==
  ASSUME BaseInv, CleanInv, NEW p \in Pid, Wait(p)
  PROVE  CleanInv'
<1> USE PidFacts
<1>1. /\ at[p] = "wait" /\ Waits(p, Head(toWait[p])) /\ loose' = loose
      /\ toWait'[p] = Tail(toWait[p])
      /\ \A q \in Pid : q # p => toWait'[q] = toWait[q] /\ at'[q] = at[q]
      /\ at'[p] # "exec"
  BY DEF Wait, LeftToWait, AtAfterWait, BaseInv, TypeOK
<1>2. PICK c \in Pid \cup {NULL} : c = Head(toWait[p])
  BY <1>1, WaitList
<1>3. Waits(p, c)
  BY <1>1, <1>2
<1>4. /\ parent' = parent /\ pc[p] = "user" /\ panic = "no" /\ pc'[p] \in {"user", "joining"}
      /\ \A q \in Pid : q # p => pc'[q] = pc[q] /\ child'[q] = child[q]
  BY <1>3, WaitsEffect DEF BaseInv
<1>5. /\ c \in Listed(p)
      /\ \A d : d \in Listed(p)' => d \in Listed(p)
      /\ \A d : d \in Listed(p) /\ d # c => d \in Listed(p)'
  <2> DEFINE s == toWait[p]
             t == Tail(toWait[p])
  <2>1. /\ Len(s) \in Nat /\ Len(s) >= 1 /\ c = s[1] /\ Len(t) = Len(s) - 1
        /\ \A i \in 1..Len(t) : i + 1 \in 1..Len(s) /\ t[i] = s[i + 1]
    BY <1>1, <1>2, WaitList
  <2>2. Listed(p) = {s[i] : i \in 1..Len(s)} /\ Listed(p)' = {t[i] : i \in 1..Len(t)}
    BY <1>1 DEF Listed
  <2> HIDE DEF s, t
  <2>3. ASSUME NEW d, d \in Listed(p), d # c PROVE d \in Listed(p)'
    <3>1. PICK i \in 1..Len(s) : d = s[i]
      BY <2>2, <2>3
    <3>2. i # 1
      BY <2>1, <2>3, <3>1
    <3>3. i - 1 \in 1..Len(t) /\ (i - 1) + 1 = i
      BY <2>1, <3>2
    <3>4. t[i - 1] = d
      BY <2>1, <3>1, <3>3
    <3> QED
      BY <2>2, <3>3, <3>4
  <2>4. 1 \in 1..Len(s)
    BY <2>1
  <2> QED
    BY <2>1, <2>2, <2>3, <2>4
<1>6. \A q, d \in Pid : q # p => (Expects(q, d)' <=> Expects(q, d))
  BY <1>1, <1>4, ExpectsSame DEF Asked
<1>7. \A d \in Pid : Expects(p, d) <=> d \in Listed(p)
  BY <1>4 DEF Expects, Asked
<1>8. \A q \in Pid : at'[q] = "exec" => at[q] = "exec"
  BY <1>1
<1>9. CASE c # NULL /\ K!WaitBlock(p, c)
  <2>1. /\ pc'[p] = "joining" /\ child'[p] = c /\ procList' = procList
        /\ mainThread' = mainThread
    BY <1>9 DEF K!WaitBlock, BaseInv, KernelInv, K!TypeOK
  <2>2. \A d \in Pid : Expects(p, d)' <=> d \in Listed(p)' \/ d = c
    BY <2>1 DEF Expects, Asked
  <2>3. \A d \in Pid : Expects(p, d)' <=> Expects(p, d)
    BY <1>5, <1>7, <2>2
  <2>4. ASSUME NEW q \in Pid, NEW d \in Pid PROVE Expects(q, d)' <=> Expects(q, d)
    <3>1. CASE q = p
      <4>1. Expects(p, d)' <=> Expects(p, d)
        BY <2>3
      <4> QED
        BY <3>1, <4>1 DEF Expects, Listed, Asked
    <3> QED
      BY <1>6, <3>1
  <2>5. \A q \in Pid : pc[q] \in {"user", "joining", "woken"} =>
                         pc'[q] \in {"user", "joining", "woken"}
    BY <1>4
  <2> QED
    BY <1>1, <1>4, <1>8, <2>1, <2>4, <2>5, QuietClean
<1>10. CASE c = NULL \/ K!WaitNotFound(p, c)
  <2>1. /\ procList' = procList /\ mainThread' = mainThread /\ pc' = pc
        /\ c \notin procList /\ \A d \in procList : d \in Pid
    BY <1>3, <1>10 DEF Waits, K!WaitNotFound, BaseInv, KernelInv, K!TypeOK
  <2>2. \A d \in Pid : Expects(p, d)' <=> d \in Listed(p)'
    BY <1>4, <2>1 DEF Expects, Asked
  <2>3. ASSUME NEW q \in Pid, NEW d \in Pid
        PROVE /\ Expects(q, d)' => Expects(q, d)
              /\ d \in procList /\ Expects(q, d) => Expects(q, d)'
    <3>1. CASE q = p
      <4>1. /\ Expects(p, d)' => Expects(p, d)
            /\ d \in procList /\ Expects(p, d) => Expects(p, d)'
        BY <1>5, <1>7, <2>1, <2>2
      <4> QED
        BY <3>1, <4>1 DEF Expects, Listed, Asked
    <3> QED
      BY <1>6, <3>1
  <2> QED
    BY <1>1, <1>4, <1>8, <2>1, <2>3, QuietClean
<1>11. CASE c # NULL /\ K!WaitZombie(p, c)
  <2>1. /\ c \in Pid /\ K!Reap(c) /\ mainThread[c] = "zombie" /\ pc' = pc
    BY <1>11 DEF K!WaitZombie
  <2>2. \A d \in Pid : Expects(p, d)' <=> d \in Listed(p)'
    BY <1>4, <2>1 DEF Expects, Asked
  <2>3. Expects(p, c) /\ \A q \in Pid : pc'[q] = IF q = p THEN "user" ELSE pc[q]
    BY <1>4, <1>5, <1>7, <2>1
  <2>4. ASSUME NEW q \in Pid, NEW d \in Pid
        PROVE /\ Expects(q, d)' => Expects(q, d)
              /\ d # c /\ Expects(q, d) => Expects(q, d)'
    <3>1. CASE q = p
      <4>1. /\ Expects(p, d)' => Expects(p, d)
            /\ d # c /\ Expects(p, d) => Expects(p, d)'
        BY <1>5, <1>7, <2>2
      <4> QED
        BY <3>1, <4>1 DEF Expects, Listed, Asked
    <3> QED
      BY <1>6, <3>1
  <2> QED
    BY <1>1, <1>4, <1>8, <2>1, <2>3, <2>4, ReapClean
<1>12. CASE c # NULL /\ K!WaitNullJoin(p, c)
  BY <1>12 DEF K!WaitNullJoin, K!Stop, CleanInv
<1> QED
  BY <1>3, <1>9, <1>10, <1>11, <1>12 DEF Waits

\* The second halves of exit() and of waitpid().
LEMMA InKernelClean ==
  ASSUME BaseInv, CleanInv, NEW p \in Pid, InKernel(p)
  PROVE  CleanInv'
<1> USE PidFacts
<1>0. toWait' = toWait /\ at' = at /\ loose' = loose
  BY DEF InKernel, locals
<1>1. CASE K!FinishExit(p)
  <2>1. /\ \A r \in joinQueue[p] : r \in Pid /\ pc[r] = "joining"
        /\ pc[p] = "exiting" /\ mainThread[p] = "live"
    BY <1>1 DEF K!FinishExit, BaseInv, KernelInv, K!TypeOK, PcbInv, QueueInv, Alive
  <2>2. /\ panic = "no" /\ procList' = procList /\ parent' = parent /\ child' = child
        /\ mainThread'[p] = "zombie"
        /\ \A q \in Pid : q # p => mainThread'[q] = mainThread[q]
    BY <1>1 DEF K!FinishExit, BaseInv, KernelInv, K!TypeOK
  <2>3. \A q \in Pid : pc'[q] = IF q = p THEN "dead"
                                ELSE IF q \in joinQueue[p] THEN "woken" ELSE pc[q]
    BY <1>1 DEF K!FinishExit, K!Woken
  <2>4. \A q \in Pid : Asked(q)' <=> Asked(q)
    BY <2>1, <2>3 DEF Asked
  <2>5. \A q, d \in Pid : Expects(q, d)' <=> Expects(q, d)
    BY <1>0, <2>2, <2>4, ExpectsSame
  <2>6. \A q \in Pid : pc[q] \in {"user", "joining", "woken"} =>
                         pc'[q] \in {"user", "joining", "woken"}
    BY <2>1, <2>3
  <2>7. \A q \in Pid : mainThread'[q] = "none" <=> mainThread[q] = "none"
    BY <2>1, <2>2
  <2> QED
    BY <1>0, <2>2, <2>5, <2>6, <2>7, QuietClean
<1>2. CASE K!WaitReturn(p)
  <2>1. /\ panic = "no" /\ pc[p] = "woken" /\ mainThread[child[p]] # "none"
        /\ child[p] \in Pid /\ mainThread[child[p]] # "live"
    BY <1>2 DEF K!WaitReturn, Asked, BaseInv, KernelInv, QueueInv
  <2>2. PICK x \in Pid : x = child[p]
    BY <2>1
  <2>3. /\ K!Reap(x) /\ mainThread[x] = "zombie" /\ Expects(p, x)
    BY <1>2, <2>1, <2>2 DEF K!WaitReturn, Expects, Asked, BaseInv, KernelInv, K!TypeOK
  <2>4. /\ \A q \in Pid : pc'[q] = IF q = p THEN "user" ELSE pc[q]
        /\ \A q \in Pid : q # p => child'[q] = child[q]
    BY <1>2 DEF K!WaitReturn, BaseInv, KernelInv, K!TypeOK
  <2>5. \A d \in Pid : /\ Expects(p, d)' <=> d \in Listed(p)
                       /\ Expects(p, d) <=> d \in Listed(p) \/ d = x
    BY <1>0, <2>1, <2>2, <2>4 DEF Expects, Asked, Listed
  <2>6. \A q, d \in Pid : q # p => (Expects(q, d)' <=> Expects(q, d))
    BY <1>0, <2>4, ExpectsSame DEF Asked
  <2>7. ASSUME NEW q \in Pid, NEW d \in Pid
        PROVE /\ Expects(q, d)' => Expects(q, d)
              /\ d # x /\ Expects(q, d) => Expects(q, d)'
    <3>1. CASE q = p
      <4>1. /\ Expects(p, d)' => Expects(p, d)
            /\ d # x /\ Expects(p, d) => Expects(p, d)'
        BY <2>5
      <4> QED
        BY <3>1, <4>1 DEF Expects, Listed, Asked
    <3> QED
      BY <2>6, <3>1
  <2> QED
    BY <1>0, <2>1, <2>3, <2>4, <2>7, ReapClean
<1>3. CASE K!WaitStale(p)
  BY <1>3 DEF K!WaitStale, K!Stop, CleanInv
<1> QED
  BY <1>1, <1>2, <1>3 DEF InKernel

LEMMA NextClean ==
  ASSUME BaseInv, CleanInv, [Next]_vars
  PROVE  CleanInv'
<1>1. CASE UNCHANGED vars
  BY <1>1 DEF vars, kernel, locals, CleanInv, Expected, KeptForLoose, LooseInv,
              NoChildAtExec, Mine, Expects, Listed, Asked
<1>2. ASSUME NEW p \in Pid, \/ LaunchFails(p) \/ CountEnds(p) \/ ThreadsEnd(p)
                             \/ JobEnds(p) \/ ShellExit(p)
      PROVE CleanInv'
  <2>1. Exits(p)
    BY <1>2 DEF LaunchFails, CountEnds, ThreadsEnd, JobEnds, ShellExit
  <2>2. toWait[p] = <<>>
    BY <1>2, NAssumption
    DEF LaunchFails, Launches, CountEnds, ThreadsEnd, JobEnds, ShellExit,
        IsCount, IsThreads, BaseInv, LocalsInv, LocalsOf
  <2> QED
    BY <2>1, <2>2, ExitsClean
<1>3. ASSUME NEW p \in Pid, Launch(p) PROVE CleanInv'
  <2>1. files[p] \in Seq(File) /\ Len(files[p]) = 1
    BY <1>3 DEF Launch, Launches, BaseInv, TypeOK
  <2>2. files[p][1] \in File
    BY <2>1
  <2>3. Kept(p) \in SUBSET End
    BY <1>3 DEF Launch, Launches, Kept, BaseInv, TypeOK
  <2>4. toWait[p] = <<>>
    BY <1>3 DEF Launch, Launches, BaseInv, LocalsInv, LocalsOf
  <2> QED
    BY <1>3, <2>2, <2>3, <2>4, BecomesClean DEF Launch
<1>4. ASSUME NEW p \in Pid, CountExec(p) PROVE CleanInv'
  <2>1. ends[p] \in SUBSET End /\ "count" \in File
    BY DEF BaseInv, TypeOK, File, Jobs
  <2> QED
    BY <1>4, <2>1, BecomesClean DEF CountExec
<1>5. ASSUME NEW p \in Pid, Runs(p) PROVE CleanInv'
  BY <1>2, <1>3, <1>4, <1>5, LaunchPipeClean, CountForkClean, CountExecFailsClean,
     ThreadsClean, WaitClean, InKernelClean DEF Runs
<1>6. ASSUME NEW p \in Pid, User(p) PROVE CleanInv'
  BY <1>2, <1>6, RunCommandClean DEF User
<1> QED
  BY <1>1, <1>5, <1>6 DEF Next

\* At the prompt of the root shell the oldest process left that is not loose,
\* and that nobody has collected, would be expected by the shell, which has
\* nothing to wait for, or by one that is older.
LEMMA OldestIsLoose == BaseInv /\ CleanInv => PromptClean
<1> SUFFICES ASSUME BaseInv, CleanInv, panic = "no", pc[Root] = "user",
                    at[Root] = "prompt", NEW p \in procList \ {Root}, ~loose[p]
    PROVE K!HasChild(p)
  BY DEF PromptClean
<1> USE PidFacts
<1>1. Expected /\ KeptForLoose /\ LooseInv
  BY DEF CleanInv
<1> DEFINE Left == {c \in procList \ {Root} : ~loose[c] /\ mainThread[c] # "none"}
<1>2. Left = {}
  <2> SUFFICES ASSUME Left # {} PROVE FALSE
    OBVIOUS
  <2>1. Left \in SUBSET Nat
    <3>1. procList \subseteq 1..MaxPid
      BY DEF BaseInv, KernelInv, K!TypeOK
    <3>2. ASSUME NEW c \in Left PROVE c \in Nat
      <4>1. c \in 1..MaxPid
        BY <3>1, <3>2
      <4> HIDE DEF Left
      <4> QED
        BY <4>1
    <3> HIDE DEF Left
    <3> QED
      BY <3>2
  <2>2. PICK c \in Left : \A d \in Left : c <= d
    <3> DEFINE Less == {ss \in Nat \X Nat : ss[1] < ss[2]}
    <3>1. IsWellFoundedOn(Less, Nat)
      BY NatLessThanWellFounded DEF OpToRel
    <3>2. PICK c \in Left : \A d \in Left : <<d, c>> \notin Less
      <4> HIDE DEF Left, Less
      <4> QED
        BY <2>1, <3>1, WFMin
    <3>3. ASSUME NEW d \in Left PROVE c <= d
      <4>1. c \in Nat /\ d \in Nat
        BY <2>1, <3>2
      <4>2. ~(d < c)
        BY <3>2, <4>1
      <4> QED
        BY <4>1, <4>2
    <3> QED
      BY <3>3
  <2>3. /\ c \in Pid /\ parent[c] \in Pid /\ parent[c] < c
        /\ Mine(c) /\ mainThread[c] # "none"
    BY <2>2, ListedParent DEF BaseInv, Mine
  <2>4. pc[parent[c]] \in {"user", "joining", "woken"} /\ Expects(parent[c], c)
    BY <1>1, <2>3 DEF Expected
  <2>5. ~loose[parent[c]]
    BY <1>1, <2>3 DEF LooseInv, Mine
  <2>6. PICK q \in Pid : q = parent[c]
    BY <2>3
  <2>7. q \in procList /\ mainThread[q] # "none"
    BY <2>4, <2>6 DEF BaseInv, KernelInv, PcbInv, Alive
  <2>8. q = Root
    <3>1. q \notin Left
      BY <2>2, <2>3, <2>6
    <3> QED
      BY <2>5, <2>6, <2>7, <3>1
  <2>9. ~Expects(Root, c)
    <3>1. toWait[Root] = <<>> /\ ~Asked(Root)
      BY DEF BaseInv, LocalsInv, LocalsOf, Asked
    <3> QED
      BY <2>3, <3>1, ExpectsNone
  <2> QED
    BY <2>4, <2>6, <2>8, <2>9
<1>3. Mine(p) /\ p \in Pid
  BY ListedParent DEF BaseInv, Mine
<1>4. mainThread[p] = "none"
  BY <1>2, <1>3 DEF Mine
<1> QED
  BY <1>1, <1>3, <1>4 DEF KeptForLoose, K!HasChild

\* Whenever the root shell is back at its prompt, only background commands,
\* left sides of pipes and what these started are left on the list: sh.c gets
\* away with waiting for pid_child only, even when an exec fails on the way.
THEOREM PromptStaysClean == Spec => []PromptClean
<1>1. Init => BaseInv /\ CleanInv
  BY InitBase, InitClean
<1>2. BaseInv /\ CleanInv /\ [Next]_vars => (BaseInv /\ CleanInv)'
  BY NextBase, NextClean
<1> QED
  BY <1>1, <1>2, OldestIsLoose, PTL DEF Spec

-----------------------------------------------------------------------------
(* The programs and the kernel together. *)

\* The programs never make the kernel stop, and never all wait for each other.
KernelKeepsGoing == panic = "no" /\ K!NotAllBlocked

\* A process that blocks in waitpid() is queued on a thread that will end.
JoinInv ==
  \A p \in Pid : pc[p] = "joining" =>
     p \in joinQueue[child[p]] /\ mainThread[child[p]] = "live"

LEMMA InitJoin == Init => JoinInv
BY PidFacts DEF Init, K!Init, JoinInv

LEMMA WaitsJoin ==
  ASSUME KernelInv, JoinInv, NEW p \in Pid, NEW c \in Pid \cup {NULL}, Waits(p, c)
  PROVE  JoinInv'
<1> USE PidFacts
<1>1. CASE c = NULL \/ K!WaitNotFound(p, c)
  BY <1>1 DEF Waits, K!WaitNotFound, JoinInv
<1>2. CASE c # NULL /\ K!WaitBlock(p, c)
  BY <1>2 DEF K!WaitBlock, KernelInv, K!TypeOK, QueueInv, Asked, JoinInv
<1>3. CASE c # NULL /\ K!WaitZombie(p, c)
  BY <1>3 DEF K!WaitZombie, K!Reap, KernelInv, K!TypeOK, QueueInv, Asked, JoinInv
<1>4. CASE c # NULL /\ K!WaitNullJoin(p, c)
  BY <1>4 DEF K!WaitNullJoin, K!Stop, JoinInv
<1> QED
  BY <1>1, <1>2, <1>3, <1>4 DEF Waits

LEMMA StepJoin ==
  ASSUME KernelInv, JoinInv, NEW p \in Pid, KernelStep(p) \/ UNCHANGED kernel
  PROVE  JoinInv'
<1> USE PidFacts
<1>1. CASE UNCHANGED kernel
  BY <1>1 DEF kernel, JoinInv
<1>2. CASE K!ExecAsserts(p) \/ K!WaitStale(p)
  BY <1>2 DEF K!ExecAsserts, K!WaitStale, K!Stop, JoinInv
<1>3. CASE K!Exec(p)
  BY <1>3, ExecSame DEF kernel, JoinInv
<1>4. CASE K!Fork(p)
  <2>1. /\ pid_current \in Pid /\ pc[pid_current] = "none"
        /\ mainThread[pid_current] = "none"
    BY <1>4 DEF K!Fork, K!Running, KernelInv, K!TypeOK, PcbInv
  <2> QED
    BY <1>4, <2>1 DEF K!Fork, KernelInv, K!TypeOK, QueueInv, Asked, JoinInv
<1>5. CASE K!BeginExit(p)
  BY <1>5 DEF K!BeginExit, K!Running, KernelInv, K!TypeOK, JoinInv
<1>6. CASE K!FinishExit(p)
  BY <1>6 DEF K!FinishExit, K!Woken, KernelInv, K!TypeOK, QueueInv, Asked, JoinInv
<1>7. CASE K!WaitReturn(p)
  <2>1. child[p] \in Pid /\ mainThread[child[p]] # "live"
    BY <1>7 DEF K!WaitReturn, KernelInv, QueueInv, Asked
  <2> QED
    BY <1>7, <2>1 DEF K!WaitReturn, K!Reap, KernelInv, K!TypeOK, QueueInv, Asked, JoinInv
<1> QED
  BY <1>1, <1>2, <1>3, <1>4, <1>5, <1>6, <1>7, WaitsJoin DEF KernelStep

\* The root process never exits.
RootInv == mainThread[Root] = "live" /\ pc[Root] # "exiting"

LEMMA InitRoot == Init => RootInv
BY PidFacts DEF Init, K!Init, RootInv

LEMMA WaitsRoot ==
  ASSUME KernelInv, RootInv, NEW p \in Pid, NEW c \in Pid \cup {NULL}, Waits(p, c)
  PROVE  RootInv'
<1> USE PidFacts
<1>1. pc'[Root] # "exiting"
  BY WaitsEffect DEF RootInv
<1>2. mainThread'[Root] = "live"
  BY DEF Waits, K!WaitNotFound, K!WaitBlock, K!WaitZombie, K!WaitNullJoin, K!Stop,
         K!Reap, KernelInv, K!TypeOK, RootInv
<1> QED
  BY <1>1, <1>2 DEF RootInv

LEMMA StepRoot ==
  ASSUME KernelInv, RootInv, NEW p \in Pid, KernelStep(p) \/ UNCHANGED kernel
  PROVE  RootInv'
<1> USE PidFacts
<1>1. CASE UNCHANGED kernel
  BY <1>1 DEF kernel, RootInv
<1>2. CASE K!ExecAsserts(p) \/ K!WaitStale(p)
  BY <1>2 DEF K!ExecAsserts, K!WaitStale, K!Stop, RootInv
<1>3. CASE K!Exec(p)
  BY <1>3, ExecSame DEF kernel, RootInv
<1>4. CASE K!Fork(p)
  BY <1>4 DEF K!Fork, KernelInv, K!TypeOK, RootInv
<1>5. CASE K!BeginExit(p)
  BY <1>5 DEF K!BeginExit, KernelInv, K!TypeOK, PcbInv, RootInv
<1>6. CASE K!FinishExit(p)
  BY <1>6 DEF K!FinishExit, KernelInv, K!TypeOK, RootInv
<1>7. CASE K!WaitReturn(p)
  <2>1. child[p] \in Pid /\ mainThread[child[p]] # "live"
    BY <1>7 DEF K!WaitReturn, KernelInv, QueueInv, Asked
  <2> QED
    BY <1>7, <2>1 DEF K!WaitReturn, K!Reap, KernelInv, K!TypeOK, RootInv
<1> QED
  BY <1>1, <1>2, <1>3, <1>4, <1>5, <1>6, <1>7, WaitsRoot DEF KernelStep

\* What each action of a program is for the kernel.
LEMMA RunsIsKernelStep ==
  ASSUME BaseInv, NEW p \in Pid, Runs(p) \/ User(p)
  PROVE  KernelStep(p) \/ UNCHANGED kernel
<1>1. CASE Wait(p)
  <2>1. PICK c \in Pid \cup {NULL} : c = Head(toWait[p])
    BY <1>1, WaitList DEF Wait
  <2> QED
    BY <1>1, <2>1 DEF Wait, KernelStep
<1>2. CASE ThreadCreate(p) \/ ThreadCreateFails(p)
           \/ \E i \in Number : ThreadRuns(p, i) \/ ThreadJoin(p, i)
  BY <1>2 DEF ThreadCreate, ThreadCreateFails, ThreadRuns, ThreadJoin, OutsideThreads
<1>3. CASE LaunchPipe(p) \/ CountFork(p) \/ \E c \in Commands : RunCommand(p, c)
  BY <1>3 DEF LaunchPipe, CountFork, RunCommand, KernelStep
<1>4. CASE Launch(p) \/ CountExec(p)
  BY <1>4 DEF Launch, CountExec, Becomes, KernelStep
<1>5. CASE LaunchFails(p) \/ CountEnds(p) \/ ThreadsEnd(p) \/ JobEnds(p) \/ ShellExit(p)
  BY <1>5 DEF LaunchFails, CountEnds, ThreadsEnd, JobEnds, ShellExit, Exits, KernelStep
<1>6. CASE CountExecFails(p)
  BY <1>6 DEF CountExecFails
<1>7. CASE InKernel(p)
  BY <1>7 DEF InKernel, KernelStep
<1> QED
  BY <1>1, <1>2, <1>3, <1>4, <1>5, <1>6, <1>7 DEF Runs, User

LEMMA NextJoin ==
  ASSUME BaseInv, JoinInv, RootInv, [Next]_vars PROVE JoinInv' /\ RootInv'
<1>1. CASE UNCHANGED vars
  BY <1>1 DEF vars, kernel, JoinInv, RootInv
<1>2. ASSUME NEW p \in Pid, Runs(p) \/ User(p) PROVE JoinInv' /\ RootInv'
  <2>1. KernelStep(p) \/ UNCHANGED kernel
    BY <1>2, RunsIsKernelStep
  <2> QED
    BY <2>1, StepJoin, StepRoot DEF BaseInv
<1> QED
  BY <1>1, <1>2 DEF Next

\* The three ways to stop the kernel: each needs a wait for somebody who is not
\* an uncollected child of the caller.
LEMMA NeverStops ==
  ASSUME BaseInv, OwnInv, Installed, panic = "no", [Next]_vars
  PROVE  panic' = "no"
<1> USE PidFacts
<1>1. CASE UNCHANGED vars
  BY <1>1 DEF vars, kernel
<1>2. ASSUME NEW q \in Pid, Asked(q) PROVE OwnOf(q)
  BY <1>2 DEF OwnInv, BaseInv, LocalsInv, LocalsOf
<1>3. ASSUME NEW p \in Pid PROVE ~K!ExecAsserts(p)
  <2>1. ASSUME NEW q \in joinQueue[p] PROVE q = parent[p]
    <3>1. q \in Pid /\ Asked(q) /\ child[q] = p
      BY DEF BaseInv, KernelInv, K!TypeOK, QueueInv, Asked
    <3> QED
      BY <1>2, <3>1 DEF OwnOf
  <2> QED
    BY <2>1 DEF K!ExecAsserts, K!OnlyParentWaitsOn
<1>4. ASSUME NEW p \in Pid PROVE ~K!WaitStale(p)
  BY <1>2 DEF K!WaitStale, Asked, OwnOf
<1>5. ASSUME NEW p \in Pid, Wait(p) PROVE panic' = "no"
  <2>1. PICK c \in Pid \cup {NULL} : c = Head(toWait[p])
    BY <1>5, WaitList DEF Wait
  <2>2. /\ Waits(p, c) /\ c = toWait[p][1] /\ 1 \in 1..Len(toWait[p]) /\ at[p] = "wait"
    BY <1>5, <2>1, WaitList DEF Wait
  <2>3. mainThread[c] # "none"
    BY <2>2 DEF OwnInv, OwnOf
  <2> QED
    BY <2>2, <2>3
    DEF Waits, K!WaitNotFound, K!WaitBlock, K!WaitZombie, K!WaitNullJoin, K!Reap
<1>6. ASSUME NEW p \in Pid, Runs(p) \/ User(p), ~Wait(p) PROVE panic' = "no"
  <2>1. KernelStep(p) \/ UNCHANGED kernel
    BY <1>6, RunsIsKernelStep
  <2>2. CASE Launch(p) \/ CountExec(p)
    BY <1>3, <2>2 DEF Launch, CountExec, Becomes, K!Exec
  <2>3. CASE InKernel(p)
    BY <1>4, <2>3 DEF InKernel, K!FinishExit, K!WaitReturn, K!Reap
  <2>4. CASE ~(Launch(p) \/ CountExec(p) \/ InKernel(p))
    BY <1>6, <2>4
    DEF Runs, User, LaunchPipe, LaunchFails, CountFork, CountExecFails, CountEnds,
        ThreadCreate, ThreadCreateFails, ThreadRuns, ThreadJoin, ThreadsEnd,
        OutsideThreads, kernel, JobEnds, ShellExit, RunCommand, Exits, K!Fork,
        K!BeginExit
  <2> QED
    BY <2>2, <2>3, <2>4
<1> QED
  BY <1>1, <1>5, <1>6 DEF Next

\* The youngest process that lives cannot be blocked: it would wait for a child
\* that lives, which is younger.
LEMMA YoungestGoesOn ==
  ASSUME BaseInv, OwnInv, JoinInv, RootInv, Installed, panic = "no"
  PROVE  K!NotAllBlocked
<1> USE PidFacts
<1> DEFINE Living == {p \in Pid : mainThread[p] = "live"}
           Age    == {MaxPid - p : p \in Living}
<1>1. Root \in Living
  BY DEF RootInv
<1>2. Age \in SUBSET Nat /\ Age # {}
  <2>1. ASSUME NEW p \in Pid PROVE MaxPid - p \in Nat
    OBVIOUS
  <2>2. MaxPid - Root \in Age
    BY <1>1
  <2> QED
    BY <2>1, <2>2
<1>3. PICK a \in Age : \A b \in Age : a <= b
  <2> DEFINE Less == {ss \in Nat \X Nat : ss[1] < ss[2]}
  <2>1. IsWellFoundedOn(Less, Nat)
    BY NatLessThanWellFounded DEF OpToRel
  <2>2. PICK a \in Age : \A b \in Age : <<b, a>> \notin Less
    <3> HIDE DEF Age, Less
    <3> QED
      BY <1>2, <2>1, WFMin
  <2>3. ASSUME NEW b \in Age PROVE a <= b
    <3>1. a \in Nat /\ b \in Nat
      BY <1>2, <2>2, <2>3
    <3>2. ~(b < a)
      BY <2>2, <2>3, <3>1
    <3> QED
      BY <3>1, <3>2
  <2> QED
    BY <2>3
<1>4. PICK p \in Living : a = MaxPid - p
  BY <1>3
<1>5. \A q \in Living : q <= p
  <2> SUFFICES ASSUME NEW q \in Living PROVE q <= p
    OBVIOUS
  <2>1. MaxPid - q \in Age
    OBVIOUS
  <2>2. MaxPid - p <= MaxPid - q
    BY <1>3, <1>4, <2>1
  <2>3. p \in Int /\ q \in Int
    OBVIOUS
  <2> QED
    BY <2>2, <2>3
<1>6. pc[p] # "joining"
  <2> SUFFICES ASSUME pc[p] = "joining" PROVE FALSE
    OBVIOUS
  <2>1. PICK c \in Pid : c = child[p]
    BY DEF BaseInv, KernelInv, QueueInv, Asked
  <2>2. mainThread[c] = "live"
    BY <2>1 DEF JoinInv
  <2>3. parent[c] = p
    BY <2>1 DEF OwnInv, OwnOf, BaseInv, LocalsInv, LocalsOf, Asked
  <2>4. c \in procList /\ p # NULL
    BY <2>2 DEF BaseInv, KernelInv, PcbInv
  <2>5. p < c
    BY <2>3, <2>4 DEF BaseInv, KernelInv, PcbInv
  <2>6. c <= p
    BY <1>5, <2>2
  <2> QED
    BY <2>5, <2>6
<1>7. p \in Pid /\ pc[p] \in {"user", "exiting", "woken"}
  BY <1>6 DEF BaseInv, KernelInv, PcbInv, Alive
<1> QED
  BY <1>7 DEF K!NotAllBlocked

\* As long as exec finds count.elf, no command the shell is given makes the
\* kernel fail an ASSERT of do_execve(), join a NULL thread or use a PCB that is
\* gone, and the processes never all wait for each other.
THEOREM KernelIsSafeWithPrograms == Spec => [](Installed => KernelKeepsGoing)
<1> DEFINE Inv == /\ BaseInv /\ OwnInv /\ JoinInv /\ RootInv
                  /\ Installed => panic = "no"
<1>1. Init => Inv
  <2>1. Init => panic = "no"
    BY DEF Init, K!Init
  <2> QED
    BY <2>1, InitBase, InitOwn, InitJoin, InitRoot
<1>2. Inv /\ [Next]_vars => Inv'
  <2> SUFFICES ASSUME Inv, [Next]_vars PROVE Inv'
    OBVIOUS
  <2>1. BaseInv' /\ OwnInv' /\ JoinInv' /\ RootInv'
    BY NextBase, NextOwn, NextJoin
  <2>2. Installed' => Installed
    BY DiskStays DEF Installed
  <2>3. Installed' => panic' = "no"
    BY <2>2, NeverStops
  <2> QED
    BY <2>1, <2>3
<1>3. Inv => (Installed => KernelKeepsGoing)
  BY YoungestGoesOn DEF KernelKeepsGoing
<1> QED
  BY <1>1, <1>2, <1>3, PTL DEF Spec

=============================================================================
