------------------------------ MODULE Programs ------------------------------
(***************************************************************************)
(* The programs of usr/src that start and collect processes or threads,    *)
(* running on the kernel of Process.tla: the shell (sh.c) with foreground, *)
(* background and piped commands, count_parallel.c and threads.c in their  *)
(* two modes.  Every other program is one that ends by itself (hello,      *)
(* count), or that reads its standard input to the end ("filter").         *)
(*                                                                         *)
(* Each action is a system call made by a program: its effect on the       *)
(* kernel is the action of Process.tla, and its effect on the program is   *)
(* here.  What a program keeps in its locals between two calls is at,      *)
(* files, id and toWait, forgotten when it exits.  pthread_create() and    *)
(* pthread_join() are modelled from the way threads.c uses them.  Built-in *)
(* commands of the shell change nothing here and are left out, with the    *)
(* signals of "kill".                                                      *)
(***************************************************************************)
EXTENDS Integers, Sequences, FiniteSets

CONSTANTS MaxPid,    \* bound: pids 1..MaxPid are ever handed out
          N,         \* the first argument of count_parallel and of threads
          Commands   \* the lines typed at a prompt: [files, background]

\* Names of executables.  count_s and count_p are count_parallel with the
\* arguments <N s> and <N p>, threads_s and threads_p threads with the same;
\* there is no file for "typo".
Jobs    == {"hello", "count", "filter"}
Loops   == {"count_s", "count_p", "threads_s", "threads_p"}
File    == Jobs \cup Loops \cup {"sh", "typo"}

ASSUME MaxPidAssumption == MaxPid \in Nat /\ MaxPid >= 1
ASSUME NAssumption == N \in Nat \ {0}
ASSUME CommandsAssumption ==
  \A c \in Commands : /\ DOMAIN c = {"files", "background"}
                      /\ c.files \in Seq(File) /\ Len(c.files) \in {1, 2}
                      /\ c.background \in BOOLEAN

VARIABLES procList, pid_current, parent, state, mainThread, pgtable,
          joinQueue, pc, child, panic, ret

kernel == <<procList, pid_current, parent, state, mainThread, pgtable,
            joinQueue, pc, child, panic, ret>>

\* The kernel: waitpid() takes whatever a program passes.
K == INSTANCE Process WITH AnyPid <- TRUE

\* The kernel used by programs that wait for their own children only.
Own == INSTANCE Process WITH AnyPid <- FALSE

Pid  == K!Pid
Root == K!Root
NULL == K!NULL

VARIABLES
  missing,  \* the executables that are not on the disk
  prog,     \* the program of each process
  at,       \* what it does next when it has the CPU
  files,    \* what a child of the shell has still to launch
  id,       \* count_parallel, threads: the loop counter
  threads,  \* the threads started by "threads": none (or joined), created
            \* or ended, or "wrong" after reading the argument of another
  toWait,   \* the pids it has still to wait for, in order (pid_child, pid_list)
  ends,     \* the ends of pipes it holds, as <<pipe, "read" or "write">>
  loose,    \* it descends from a background command or a left side of a pipe
  budget    \* bound: the pids not yet promised to a command

locals == <<missing, prog, at, files, id, threads, toWait, ends, loose,
            budget>>
vars   == <<kernel, locals>>

\* The turns of the loops.
Number == 0..(N - 1)

\* A pipe is named by the process that calls pipe(), which calls it once.
End == Pid \X {"read", "write"}

TypeOK ==
  /\ K!TypeOK
  /\ missing \subseteq File
  /\ prog \in [Pid -> File \cup {"none"}]
  /\ at \in [Pid -> {"none", "prompt", "launch", "left", "right", "wait",
                     "loop", "join", "exec", "run", "exit"}]
  /\ files \in [Pid -> Seq(File)]
  /\ id \in [Pid -> 0..N]
  /\ threads \in [Pid -> [Number -> {"none", "created", "ended", "wrong"}]]
  /\ toWait \in [Pid -> Seq(Pid \cup {NULL})]
  /\ ends \in [Pid -> SUBSET End]
  /\ loose \in [Pid -> BOOLEAN]
  /\ budget \in 0..(MaxPid - 1)

\* The root process runs the shell.
Init ==
  /\ K!Init
  /\ missing \in {{"typo"}, {"typo", "count"}}
  /\ prog = [p \in Pid |-> IF p = Root THEN "sh" ELSE "none"]
  /\ at = [p \in Pid |-> IF p = Root THEN "prompt" ELSE "none"]
  /\ files = [p \in Pid |-> <<>>]
  /\ id = [p \in Pid |-> 0]
  /\ threads = [p \in Pid |-> [i \in Number |-> "none"]]
  /\ toWait = [p \in Pid |-> <<>>]
  /\ ends = [p \in Pid |-> {}]
  /\ loose = [p \in Pid |-> FALSE]
  /\ budget = MaxPid - 1

IsCount(p)   == prog[p] \in {"count_s", "count_p"}
IsThreads(p) == prog[p] \in {"threads_s", "threads_p"}

\* exit(), or the return from main(): do_exit() closes every descriptor.
Exits(p) ==
  /\ K!BeginExit(p)
  /\ at' = [at EXCEPT ![p] = "exit"]
  /\ files' = [files EXCEPT ![p] = <<>>]
  /\ id' = [id EXCEPT ![p] = 0]
  /\ toWait' = [toWait EXCEPT ![p] = <<>>]
  /\ ends' = [ends EXCEPT ![p] = {}]
  /\ UNCHANGED <<missing, prog, threads, loose, budget>>

\* execve() finds the file: a fresh program that keeps the descriptors kept.
Becomes(p, f, kept) ==
  /\ K!Exec(p) \/ K!ExecAsserts(p)
  /\ prog' = [prog EXCEPT ![p] = f]
  /\ at' = [at EXCEPT ![p] = CASE f = "sh" -> "prompt"
                               [] f \in Loops -> "loop"
                               [] OTHER -> "run"]
  /\ files' = [files EXCEPT ![p] = <<>>]
  /\ id' = [id EXCEPT ![p] = 0]
  /\ toWait' = [toWait EXCEPT ![p] = <<>>]
  /\ ends' = [ends EXCEPT ![p] = kept]
  /\ UNCHANGED <<missing, threads, loose, budget>>

-----------------------------------------------------------------------------
(* The shell *)

\* The processes count_parallel makes: N with count.elf; without it one for
\* each nonempty set of turns, those in which its ancestors and it were forked.
CountForks == IF "count" \in missing THEN Cardinality(SUBSET Number \ {{}}) ELSE N

Cost(f) == IF f \in {"count_s", "count_p"} THEN 1 + CountForks ELSE 1

CostOf(c) == Cost(c.files[1]) + IF Len(c.files) = 2 THEN Cost(c.files[2]) ELSE 0

\* Mutant: waitpid(-1), whoever ends first.
WaitsForAny(c, new) == IF c.background THEN <<>> ELSE <<-1>>

\* Mutant: the test on background inverted.
WaitsInBackground(c, new) == IF c.background THEN <<new>> ELSE <<>>

\* The shell waits for its child unless the command ends with "&".
WaitsFor(c, new) == IF c.background THEN <<>> ELSE <<new>>

\* process_cmd(), the general case, up to the fork.
RunCommand(p, c) ==
  LET new == pid_current IN
  /\ prog[p] = "sh" /\ at[p] = "prompt"
  /\ CostOf(c) <= budget
  /\ K!Fork(p)
  /\ budget' = budget - CostOf(c)
  /\ prog' = [prog EXCEPT ![new] = "sh"]
  /\ at' = [at EXCEPT ![new] = "launch",
                      ![p] = IF WaitsFor(c, new) = <<>> THEN "prompt" ELSE "wait"]
  /\ files' = [files EXCEPT ![new] = c.files]
  /\ toWait' = [toWait EXCEPT ![p] = WaitsFor(c, new)]
  /\ ends' = [ends EXCEPT ![new] = ends[p]]
  /\ loose' = [loose EXCEPT ![new] = loose[p] \/ c.background]
  /\ UNCHANGED <<missing, id, threads>>

\* The command "exit"; the root shell refuses it.
ShellExit(p) ==
  /\ prog[p] = "sh" /\ at[p] = "prompt"
  /\ p # Root
  /\ Exits(p)

\* pipe() and the second fork: both processes hold both ends.
LaunchPipe(p) ==
  LET new == pid_current
      both == ends[p] \cup {<<p, "read">>, <<p, "write">>} IN
  /\ at[p] = "launch" /\ Len(files[p]) = 2
  /\ K!Fork(p)
  /\ prog' = [prog EXCEPT ![new] = "sh"]
  /\ at' = [at EXCEPT ![new] = "left", ![p] = "right"]
  /\ files' = [files EXCEPT ![new] = <<files[p][1]>>, ![p] = <<files[p][2]>>]
  /\ ends' = [ends EXCEPT ![new] = both, ![p] = both]
  /\ loose' = [loose EXCEPT ![new] = TRUE]
  /\ UNCHANGED <<missing, id, threads, toWait, budget>>

\* Mutant: the reader keeps the write end of its own pipe.
ReaderKeepsWriteEnd(p) ==
  IF at[p] = "left" THEN ends[p] \ {<<parent[p], "read">>} ELSE ends[p]

\* close() of the end it does not use, then dup2() of the other.
Kept(p) ==
  CASE at[p] = "left"   -> ends[p] \ {<<parent[p], "read">>}
    [] at[p] = "right"  -> ends[p] \ {<<p, "write">>}
    [] at[p] = "launch" -> ends[p]

Launches(p) == at[p] \in {"launch", "left", "right"} /\ Len(files[p]) = 1

\* execv() in a child of the shell.
Launch(p) ==
  /\ Launches(p)
  /\ files[p][1] \notin missing
  /\ Becomes(p, files[p][1], Kept(p))

\* "exec failed": exit(-1).
LaunchFails(p) ==
  /\ Launches(p)
  /\ files[p][1] \in missing
  /\ Exits(p)

-----------------------------------------------------------------------------
(* count_parallel *)

\* After a fork: in mode s the child is waited for at once, in mode p all of
\* them are after the loop.
AtNext(p, i) == IF prog[p] = "count_s" \/ i = N THEN "wait" ELSE "loop"

CountFork(p) ==
  LET new == pid_current IN
  /\ IsCount(p) /\ at[p] = "loop" /\ id[p] < N
  /\ K!Fork(p)
  /\ prog' = [prog EXCEPT ![new] = prog[p]]
  /\ id' = [id EXCEPT ![p] = @ + 1, ![new] = id[p]]
  /\ toWait' = [toWait EXCEPT ![p] = Append(@, new), ![new] = toWait[p]]
  /\ at' = [at EXCEPT ![p] = AtNext(p, id[p] + 1), ![new] = "exec"]
  /\ ends' = [ends EXCEPT ![new] = ends[p]]
  /\ loose' = [loose EXCEPT ![new] = loose[p]]
  /\ UNCHANGED <<missing, files, threads, budget>>

CountExec(p) ==
  /\ at[p] = "exec"
  /\ "count" \notin missing
  /\ Becomes(p, "count", ends[p])

\* execl() returns: the child goes on with the loop of its parent, in which
\* child_pid is 0.
CountExecFails(p) ==
  /\ K!Running(p)
  /\ at[p] = "exec"
  /\ "count" \in missing
  /\ id' = [id EXCEPT ![p] = @ + 1]
  /\ toWait' = [toWait EXCEPT ![p] = Append(@, NULL)]
  /\ at' = [at EXCEPT ![p] = AtNext(p, id[p] + 1)]
  /\ UNCHANGED <<kernel, missing, prog, files, threads, ends, loose, budget>>

CountEnds(p) ==
  /\ IsCount(p) /\ at[p] = "loop" /\ id[p] = N
  /\ Exits(p)

-----------------------------------------------------------------------------
(* threads *)

\* What a step of "threads" leaves alone.
OutsideThreads == <<kernel, missing, prog, files, toWait, ends, loose, budget>>

\* Mode s joins each thread at once; mode p joins all after the loop.
ThreadCreate(p) ==
  LET last == prog[p] = "threads_s" \/ id[p] + 1 = N IN
  /\ K!Running(p)
  /\ IsThreads(p) /\ at[p] = "loop" /\ id[p] < N
  /\ threads' = [threads EXCEPT ![p][id[p]] = "created"]
  /\ id' = IF prog[p] = "threads_p" THEN [id EXCEPT ![p] = @ + 1] ELSE id
  /\ at' = [at EXCEPT ![p] = IF last THEN "join" ELSE "loop"]
  /\ UNCHANGED OutsideThreads

\* pthread_create() fails: no more threads, those created are joined.
ThreadCreateFails(p) ==
  /\ K!Running(p)
  /\ IsThreads(p) /\ at[p] = "loop" /\ id[p] < N
  /\ at' = [at EXCEPT ![p] = "join"]
  /\ UNCHANGED <<OutsideThreads, id, threads>>

\* Mutant: one buffer for the arguments of all threads.
LastArgument(p, i) == IF prog[p] = "threads_p" THEN id[p] - 1 ELSE id[p]

\* What the argument of thread i holds: in mode p each has its own buffer,
\* in mode s there is one, written again for the next.
Argument(p, i) == IF prog[p] = "threads_p" THEN i ELSE id[p]

\* count(), which reads its argument first.
ThreadRuns(p, i) ==
  /\ panic = "no"
  /\ threads[p][i] = "created"
  /\ threads' = [threads EXCEPT ![p][i] = IF Argument(p, i) = i THEN "ended"
                                                              ELSE "wrong"]
  /\ UNCHANGED <<OutsideThreads, at, id>>

Unjoined(p) == {i \in Number : threads[p][i] # "none"}

\* pthread_join(), in the order of creation.
ThreadJoin(p, i) ==
  /\ K!Running(p)
  /\ at[p] = "join"
  /\ i \in Unjoined(p) /\ \A j \in Unjoined(p) : i <= j
  /\ threads[p][i] # "created"
  /\ threads' = [threads EXCEPT ![p][i] = "none"]
  /\ IF prog[p] = "threads_s"
     THEN at' = [at EXCEPT ![p] = "loop"] /\ id' = [id EXCEPT ![p] = @ + 1]
     ELSE UNCHANGED <<at, id>>
  /\ UNCHANGED OutsideThreads

ThreadsEnd(p) ==
  /\ IsThreads(p)
  /\ \/ at[p] = "join" /\ Unjoined(p) = {}
     \/ at[p] = "loop" /\ id[p] = N
  /\ Exits(p)

-----------------------------------------------------------------------------
(* Any program *)

\* The call waitpid(pid, NULL, 0).  No process has the pid 0.
Waits(p, c) ==
  IF c = NULL
  THEN /\ K!Running(p)
       /\ K!Returns(p, "waitpid", NULL, -1)
       /\ UNCHANGED <<procList, pid_current, parent, state, mainThread,
                      pgtable, joinQueue, pc, child, panic>>
  ELSE \/ K!WaitNotFound(p, c) \/ K!WaitBlock(p, c)
       \/ K!WaitZombie(p, c) \/ K!WaitNullJoin(p, c)

\* Where the program goes on once it has waited for all of them.
AtAfterWait(p) == IF prog[p] = "sh" THEN "prompt" ELSE "loop"

\* Mutant: the index into pid_list stays.
SameToWait(pids) == pids

\* The pids after the one just waited for.
LeftToWait(pids) == Tail(pids)

Wait(p) ==
  /\ at[p] = "wait"
  /\ Waits(p, Head(toWait[p]))
  /\ toWait' = [toWait EXCEPT ![p] = LeftToWait(@)]
  /\ at' = [at EXCEPT ![p] = IF Len(toWait[p]) = 1 THEN AtAfterWait(p) ELSE "wait"]
  /\ UNCHANGED <<missing, prog, files, id, threads, ends, loose, budget>>

\* read() gives 0 once nobody holds the write end.
EndOfInput(p) ==
  \A k, q \in Pid : <<k, "read">> \in ends[p] => <<k, "write">> \notin ends[q]

JobEnds(p) ==
  /\ prog[p] \in Jobs /\ at[p] = "run"
  /\ prog[p] = "filter" => EndOfInput(p)
  /\ Exits(p)

\* The second halves of exit and waitpid are the kernel's.
InKernel(p) ==
  /\ K!FinishExit(p) \/ K!WaitReturn(p) \/ K!WaitStale(p)
  /\ UNCHANGED locals

-----------------------------------------------------------------------------

\* What a process does once it has the CPU, without anything typed.
Runs(p) ==
  \/ LaunchPipe(p) \/ Launch(p) \/ LaunchFails(p)
  \/ CountFork(p) \/ CountExec(p) \/ CountExecFails(p) \/ CountEnds(p)
  \/ ThreadCreate(p) \/ ThreadCreateFails(p) \/ ThreadsEnd(p)
  \/ \E i \in Number : ThreadRuns(p, i) \/ ThreadJoin(p, i)
  \/ Wait(p) \/ JobEnds(p) \/ InKernel(p)

User(p) == ShellExit(p) \/ \E c \in Commands : RunCommand(p, c)

Next == \E p \in Pid : Runs(p) \/ User(p)

\* Round robin: every process that can run gets the CPU.  The user need not
\* type anything.
Fairness == \A p \in Pid : WF_vars(Runs(p))

Spec == Init /\ [][Next]_vars /\ Fairness

-----------------------------------------------------------------------------
(* Properties *)

Installed == "count" \notin missing

\* What Process.tla assumes of the programs of usr/src when AnyPid is FALSE
\* is what they do: as long as exec finds its file, each of them waits for
\* its own children that it has not collected, and for nobody else.
OwnChildrenOnly == Own!Init /\ [][Installed => Own!Next]_kernel

\* Whenever the root shell is back at its prompt, the processes left on the
\* list are background commands, left sides of pipes, what these started, and
\* PCBs kept for one of them: a foreground command, however it went and
\* whatever it forked, leaves nothing behind (sh.c waits for pid_child only).
PromptClean ==
  panic = "no" /\ pc[Root] = "user" /\ at[Root] = "prompt" =>
    \A p \in procList \ {Root} : K!HasChild(p) \/ loose[p]

\* The shell comes back from a foreground command of programs that end: exec
\* failures, the waits of count_parallel and a reader that needs the end of
\* its input included.  Only a nested shell may keep it waiting, for its user.
ShellReturns ==
  at[Root] = "prompt" /\ pc[Root] = "joining"
    ~> \/ pc[Root] = "user" \/ panic # "no"
       \/ \E p \in Pid \ {Root} : at[p] = "prompt" /\ ~loose[p]

\* A background command is collected once it is dead: the comment in
\* process_cmd() says that waitpid() is called when SIGCHLD comes.
BackgroundCollected ==
  \A p \in Pid : pc[p] = "dead" /\ parent[p] = Root
                   ~> pc[p] = "dead" /\ mainThread[p] = "none"

\* Every thread counts under its own number, read from a buffer of the thread
\* that made it, and none is left when its process exits, whether or not a
\* pthread_create() failed on the way.
ThreadsSound ==
  \A p \in Pid : \A i \in Number :
     /\ threads[p][i] # "wrong"
     /\ at[p] = "exit" => threads[p][i] = "none"

=============================================================================
