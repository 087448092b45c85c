------------------------------- MODULE Process -------------------------------
(***************************************************************************)
(* Processes of the SO3 kernel (so3/kernel/process.c): fork, exec, exit    *)
(* and waitpid on the list of PCBs.                                        *)
(*                                                                         *)
(* The kernel runs on one CPU and each of these system calls runs with the *)
(* interrupts off, so a call is one step, up to the points where the       *)
(* running thread can lose the CPU: do_exit() closes the descriptors with  *)
(* the interrupts on, and thread_join() blocks inside do_waitpid().  The   *)
(* thread layer (thread.c) is not in the repository; thread_join() and     *)
(* thread_exit() are modelled from the way process.c uses them.            *)
(*                                                                         *)
(* A PCB is identified by its pid, since pids are never reused.  Threads   *)
(* other than the main one, signals, ptrace stops (nothing under src/      *)
(* places a ptrace request), names and exit codes are left out.            *)
(***************************************************************************)
EXTENDS Integers

CONSTANTS MaxPid,   \* bound: pids 1..MaxPid are ever handed out
          AnyPid    \* FALSE: programs wait for their own uncollected children
                    \* only, by pid, as those of usr/src do (Programs.tla);
                    \* TRUE: waitpid() gets any argument, -1 included

ASSUME MaxPidAssumption == MaxPid \in Nat /\ MaxPid >= 1
ASSUME AnyPidAssumption == AnyPid \in BOOLEAN

Pid  == 1..MaxPid
Root == 1           \* root_process, the first one create_process() makes
NULL == 0

VARIABLES
  procList,    \* pids of the PCBs on proc_list
  pid_current, \* the next pid to hand out
  parent,      \* pcb->parent
  state,       \* pcb->state
  mainThread,  \* pcb->main_thread: none (NULL), live, or zombie (finished)
  pgtable,     \* the L1 page table: none yet, live, or freed
  joinQueue,   \* processes whose thread is queued on this main thread
  pc,          \* where the main thread of a process is
  child,       \* the local variable "child" of a blocked do_waitpid()
  panic,       \* "no", or what stopped the kernel
  ret          \* who last returned from fork or waitpid, and with what

vars == <<procList, pid_current, parent, state, mainThread, pgtable,
          joinQueue, pc, child, panic, ret>>

PcbState == {"new", "ready", "zombie"}
Pc == {"none", "user", "exiting", "joining", "woken", "dead"}
Panic == {"no", "root exit", "assert", "null join", "stale join"}

TypeOK ==
  /\ procList \subseteq Pid
  /\ pid_current \in 2..(MaxPid + 1)
  /\ parent \in [Pid -> Pid \cup {NULL}]
  /\ state \in [Pid -> PcbState]
  /\ mainThread \in [Pid -> {"none", "live", "zombie"}]
  /\ pgtable \in [Pid -> {"none", "live", "freed"}]
  /\ joinQueue \in [Pid -> SUBSET Pid]
  /\ pc \in [Pid -> Pc]
  /\ child \in [Pid -> Pid \cup {NULL}]
  /\ panic \in Panic
  /\ ret \in [by : Pid \cup {NULL}, call : {"none", "fork", "waitpid"},
              arg : Int, val : Int]

\* create_process(): the root process is the only one made without a fork.
Init ==
  /\ procList = {Root}
  /\ pid_current = 2
  /\ parent = [p \in Pid |-> NULL]
  /\ state = [p \in Pid |-> IF p = Root THEN "ready" ELSE "new"]
  /\ mainThread = [p \in Pid |-> IF p = Root THEN "live" ELSE "none"]
  /\ pgtable = [p \in Pid |-> IF p = Root THEN "live" ELSE "none"]
  /\ joinQueue = [p \in Pid |-> {}]
  /\ pc = [p \in Pid |-> IF p = Root THEN "user" ELSE "none"]
  /\ child = [p \in Pid |-> NULL]
  /\ panic = "no"
  /\ ret = [by |-> NULL, call |-> "none", arg |-> NULL, val |-> 0]

Running(p) == panic = "no" /\ pc[p] = "user"

Returns(p, call, arg, val) ==
  ret' = [by |-> p, call |-> call, arg |-> arg, val |-> val]

Stop(why) ==
  /\ panic' = why
  /\ UNCHANGED <<procList, pid_current, parent, state, mainThread, pgtable,
                 joinQueue, pc, child, ret>>

-----------------------------------------------------------------------------
(* fork *)

\* Mutant: a pid is skipped at each fork.
SkippingPid(n) == n + 2

\* pid_current++
NextPid(n) == n + 1

\* do_fork() and do_fork2(), with duplicate_process() and new_process().
Fork(p) ==
  LET new == pid_current IN
  /\ Running(p)
  /\ new <= MaxPid
  /\ pid_current' = NextPid(pid_current)
  /\ procList' = procList \cup {new}
  /\ parent' = [parent EXCEPT ![new] = p]
  /\ state' = [state EXCEPT ![new] = "ready"]
  /\ mainThread' = [mainThread EXCEPT ![new] = "live"]
  /\ pgtable' = [pgtable EXCEPT ![new] = "live"]
  /\ pc' = [pc EXCEPT ![new] = "user"]
  /\ Returns(p, "fork", NULL, new)
  /\ UNCHANGED <<joinQueue, child, panic>>

-----------------------------------------------------------------------------
(* exec *)

\* Mutant: the second ASSERT without the migration of the parent's entry.
NobodyWaitsOn(p) == joinQueue[p] = {}

\* The two ASSERTs: the first waiter is the parent, and it is the only one.
OnlyParentWaitsOn(p) == joinQueue[p] \subseteq {parent[p]}

\* Mutant: the waiter stays on the join queue of the old main thread.
NoneMigrated(p) == {}

\* The entry list_move() takes from the old main thread to the new one.
Migrated(p) == joinQueue[p]

\* do_execve(): the process gets a new main thread.  The old one ends in
\* thread_exit(), which wakes whoever is still on its join queue.
Exec(p) ==
  /\ Running(p)
  /\ OnlyParentWaitsOn(p)
  /\ joinQueue' = [joinQueue EXCEPT ![p] = Migrated(p)]
  /\ pc' = [q \in Pid |-> IF q \in joinQueue[p] \ Migrated(p)
                          THEN "woken" ELSE pc[q]]
  /\ UNCHANGED <<procList, pid_current, parent, state, mainThread, pgtable,
                 child, panic, ret>>

ExecAsserts(p) ==
  /\ Running(p)
  /\ ~OnlyParentWaitsOn(p)
  /\ Stop("assert")

-----------------------------------------------------------------------------
(* exit *)

ExitRoot(p) ==
  /\ Running(p)
  /\ parent[p] = NULL
  /\ Stop("root exit")

\* do_exit() up to the loop that closes the descriptors, interrupts on.
BeginExit(p) ==
  /\ Running(p)
  /\ parent[p] # NULL
  /\ pc' = [pc EXCEPT ![p] = "exiting"]
  /\ UNCHANGED <<procList, pid_current, parent, state, mainThread, pgtable,
                 joinQueue, child, panic, ret>>

\* Mutant: thread_exit() wakes nobody.
NoneWoken(p) == {}

\* The waiters thread_exit() makes ready: every thread on the join queue.
Woken(p) == joinQueue[p]

\* The rest of do_exit(), interrupts off.  The page tables stay until the
\* process is reaped; thread_exit() wakes the threads on the join queue.
FinishExit(p) ==
  /\ panic = "no"
  /\ pc[p] = "exiting"
  /\ state' = [state EXCEPT ![p] = "zombie"]
  /\ mainThread' = [mainThread EXCEPT ![p] = "zombie"]
  /\ pc' = [q \in Pid |-> IF q = p THEN "dead"
                          ELSE IF q \in Woken(p) THEN "woken"
                          ELSE pc[q]]
  /\ joinQueue' = [joinQueue EXCEPT ![p] = {}]
  /\ UNCHANGED <<procList, pid_current, parent, pgtable, child, panic, ret>>

-----------------------------------------------------------------------------
(* waitpid *)

\* find_proc_by_parent() finds one.
HasChild(p) == \E c \in procList : parent[c] = p

\* Mutant: the PCB goes whether or not it has children.
AlwaysRemovable(c) == TRUE

\* Mutant: the test on find_proc_by_parent() inverted.
RemovableWithChild(c) == HasChild(c)

\* remove_proc() is called.
Removable(c) == ~HasChild(c)

\* After the join: free the page tables, and the PCB unless it has children.
Reap(c) ==
  /\ mainThread' = [mainThread EXCEPT ![c] = "none"]
  /\ pgtable' = [pgtable EXCEPT ![c] = "freed"]
  /\ procList' = IF Removable(c) THEN procList \ {c} ELSE procList
  /\ UNCHANGED <<pid_current, parent, state, joinQueue, panic>>

\* What the caller may pass as a positive pid.
MayWaitFor(p, c) == AnyPid \/ (parent[c] = p /\ mainThread[c] # "none")

\* find_proc_by_pid() finds nothing: ECHILD.
WaitNotFound(p, c) ==
  /\ Running(p)
  /\ MayWaitFor(p, c)
  /\ c \notin procList
  /\ Returns(p, "waitpid", c, -1)
  /\ UNCHANGED <<procList, pid_current, parent, state, mainThread, pgtable,
                 joinQueue, pc, child, panic>>

\* WNOHANG and the child did not change state.
WaitNoHang(p, c) ==
  /\ Running(p)
  /\ MayWaitFor(p, c)
  /\ c \in procList
  /\ state[c] # "zombie"
  /\ Returns(p, "waitpid", c, 0)
  /\ UNCHANGED <<procList, pid_current, parent, state, mainThread, pgtable,
                 joinQueue, pc, child, panic>>

\* thread_join() on a thread still alive: the caller is queued and blocks.
WaitBlock(p, c) ==
  /\ Running(p)
  /\ MayWaitFor(p, c)
  /\ c \in procList
  /\ mainThread[c] = "live"
  /\ joinQueue' = [joinQueue EXCEPT ![c] = @ \cup {p}]
  /\ pc' = [pc EXCEPT ![p] = "joining"]
  /\ child' = [child EXCEPT ![p] = c]
  /\ UNCHANGED <<procList, pid_current, parent, state, mainThread, pgtable,
                 panic, ret>>

\* thread_join() on a finished thread returns at once.
WaitZombie(p, c) ==
  /\ Running(p)
  /\ MayWaitFor(p, c)
  /\ c \in procList
  /\ mainThread[c] = "zombie"
  /\ Reap(c)
  /\ Returns(p, "waitpid", c, c)
  /\ UNCHANGED <<pc, child>>

\* The PCB was kept for its children after its main thread was joined:
\* thread_join(NULL).
WaitNullJoin(p, c) ==
  /\ Running(p)
  /\ MayWaitFor(p, c)
  /\ c \in procList
  /\ mainThread[c] = "none"
  /\ Stop("null join")

\* find_proc_zombie_to_clean(): the list is in the order of the pids.
IsFirstZombie(c) ==
  LET ToClean == {d \in procList : state[d] = "zombie" /\ mainThread[d] # "none"}
  IN c \in ToClean /\ \A d \in ToClean : c <= d

WaitAnyReaps(p, c) ==
  /\ Running(p)
  /\ AnyPid
  /\ IsFirstZombie(c)
  /\ Reap(c)
  /\ Returns(p, "waitpid", -1, c)
  /\ UNCHANGED <<pc, child>>

WaitAnyNone(p) ==
  /\ Running(p)
  /\ AnyPid
  /\ ~\E c \in Pid : IsFirstZombie(c)
  /\ Returns(p, "waitpid", -1, -1)
  /\ UNCHANGED <<procList, pid_current, parent, state, mainThread, pgtable,
                 joinQueue, pc, child, panic>>

\* The second half of do_waitpid(), after a join that blocked.  Whatever the
\* state of the child is by then, both branches of the code reap it.
WaitReturn(p) ==
  /\ panic = "no"
  /\ pc[p] = "woken"
  /\ mainThread[child[p]] # "none"
  /\ Reap(child[p])
  /\ Returns(p, "waitpid", child[p], child[p])
  /\ pc' = [pc EXCEPT ![p] = "user"]
  /\ child' = [child EXCEPT ![p] = NULL]

\* The thread was joined by another waiter first: its TCB, and the PCB when
\* it has no children, are gone, and the code uses them all the same.
WaitStale(p) ==
  /\ panic = "no"
  /\ pc[p] = "woken"
  /\ mainThread[child[p]] = "none"
  /\ Stop("stale join")

-----------------------------------------------------------------------------

Waitpid(p) ==
  \/ \E c \in Pid : \/ WaitNotFound(p, c) \/ WaitNoHang(p, c)
                    \/ WaitBlock(p, c) \/ WaitZombie(p, c)
                    \/ WaitNullJoin(p, c) \/ WaitAnyReaps(p, c)
  \/ WaitAnyNone(p)

Next ==
  \E p \in Pid : \/ Fork(p) \/ Exec(p) \/ ExecAsserts(p)
                 \/ ExitRoot(p) \/ BeginExit(p) \/ FinishExit(p)
                 \/ Waitpid(p) \/ WaitReturn(p) \/ WaitStale(p)

\* The timer preempts the running thread (round robin), so a thread inside the
\* kernel gets the CPU again.  Nothing is assumed of what programs decide.
Fairness == \A p \in Pid : WF_vars(FinishExit(p)) /\ WF_vars(WaitReturn(p))

Spec == Init /\ [][Next]_vars /\ Fairness

-----------------------------------------------------------------------------
(* Properties *)

\* Every PCB on the list has its parent's PCB on the list: do_exit() follows
\* pcb->parent to signal it, and find_proc_by_parent() compares with it.
ParentOnList ==
  \A c \in procList : parent[c] # NULL => parent[c] \in procList

\* A process that can still run has its page table: no waitpid() frees the
\* tables of a process that went on under a new main thread after exec.
LiveHasPageTable ==
  \A p \in Pid : pc[p] \notin {"none", "dead"} => pgtable[p] = "live"

\* No lost wake-up: a process blocked in waitpid() is queued on the current
\* main thread of its child, and that thread has not finished, across any
\* number of exec and whichever of wait and exec came first.
NoLostWakeup ==
  \A p \in Pid : pc[p] = "joining" =>
     p \in joinQueue[child[p]] /\ mainThread[child[p]] = "live"

\* Programs that wait for their own children never trip an ASSERT of
\* do_execve(), join a NULL thread or touch a PCB already freed.
KernelSafe == panic \in {"no", "root exit"}

\* The processes never all wait for each other: somebody can take a step.
NotAllBlocked ==
  panic = "no" => \E p \in Pid : pc[p] \in {"user", "exiting", "woken"}

\* A PCB that outlives its main thread does so for its children only, as the
\* comment above find_proc_zombie_to_clean() explains.
KeptPcbHasChild ==
  \A p \in procList : mainThread[p] = "none" => HasChild(p)

\* Whoever comes back from waitpid() with a pid, after however many exec of
\* that process and with whoever else waits for it, finds it dead and its
\* main thread collected; it is still on the list for its children only.
ReapedIsDead ==
  ret.call = "waitpid" /\ ret.val > 0 =>
    /\ pc[ret.val] = "dead"
    /\ mainThread[ret.val] = "none"
    /\ ret.arg \in {-1, ret.val}

\* The states of the contract, seen in the PCBs.
LifeOf(p) ==
  IF pc[p] = "none" THEN "unborn"
  ELSE IF pc[p] # "dead" THEN "alive"
  ELSE IF mainThread[p] = "zombie" THEN "zombie" ELSE "collected"

C == INSTANCE WaitContract WITH
       Process <- Pid, Nobody <- NULL,
       life <- [p \in Pid |-> LifeOf(p)],
       creator <- parent, awaits <- child, halted <- panic # "no"

\* The kernel keeps the contract of fork, exit and waitpid: each death is
\* collected once, by the parent, and a waiting parent comes back with it.
ImplementsWaitContract == C!Contract

=============================================================================
