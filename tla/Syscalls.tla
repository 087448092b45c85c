------------------------------ MODULE Syscalls ------------------------------
(***************************************************************************)
(* System calls and errno: the stubs of the C library (crt0.S) and the     *)
(* dispatch in the kernel (so3/kernel/syscalls.c).                         *)
(*                                                                         *)
(* A stub clears errno, a variable of the program, and passes its address  *)
(* to the kernel, which keeps it in errno_addr, one variable for all       *)
(* threads, until the call fails and set_errno() stores through it.  The   *)
(* address is virtual: it is used in the address space of the process that *)
(* fails, whatever process it came from.  A thread may lose the CPU at any *)
(* point between two of the steps below, by preemption or because the      *)
(* call blocks.  An error number is the thread whose call gave it.         *)
(***************************************************************************)
EXTENDS Integers

CONSTANTS Process, Thread,
          Owner,      \* the process of each thread
          Main,       \* main_thread of each process
          Addr        \* where the programs on the disk have their errno

ASSUME OwnerAssumption == Owner \in [Thread -> Process]
ASSUME MainAssumption ==
  Main \in [Process -> Thread] /\ \A p \in Process : Owner[Main[p]] = p
ASSUME ValuesAssumption == Thread \cap {"0", "data"} = {} /\ Addr # {}

NULL == "null"
ASSUME NullAssumption == NULL \notin Addr

\* What the kernel does with a call, by its number:
\*   "fork"     fork, fork2: refused to all threads but the main one
\*   "exec"     execve: the kernel stops unless it is the main thread
\*   "handled"  another result = do_...(), which fails with set_errno() and -1
\*   "dropped"  close, symlink: called for their effect, result = 0
\*   "nosys"    settimeofday: always set_errno() and -1
\*   "noErrno"  procname, sigreturn, the numbers of no case, and what do_...()
\*              returns as it is without having called set_errno(): -1
Call == {"fork", "exec", "handled", "dropped", "nosys", "noErrno"}

VARIABLES
  errno_addr, \* the static variable of syscalls.c
  image,      \* the address of errno in the program of each process
  word,       \* the word at each of these addresses in each address space
  pc,         \* "user", "trapped", "kernel" or "back" from the call
  call,       \* the call of each thread
  result,     \* r0 when it is back
  foreign,    \* since it is in the kernel, a call has come from a program
              \* with its errno elsewhere
  sibling     \* since its stub, another thread of its process has been in a
              \* call

vars == <<errno_addr, image, word, pc, call, result, foreign, sibling>>

TypeOK ==
  /\ errno_addr \in Addr \cup {NULL}
  /\ image \in [Process -> Addr]
  /\ word \in [Process -> [Addr -> Thread \cup {"0", "data"}]]
  /\ pc \in [Thread -> {"user", "trapped", "kernel", "back"}]
  /\ call \in [Thread -> Call]
  /\ result \in [Thread -> {0, -1}]
  /\ foreign \in [Thread -> BOOLEAN]
  /\ sibling \in [Thread -> BOOLEAN]

\* The words of a program just loaded: errno is 0 ("0").
Loaded(addr) == [a \in Addr |-> IF a = addr THEN "0" ELSE "data"]

Init ==
  /\ errno_addr = NULL
  /\ image \in [Process -> Addr]
  /\ word = [p \in Process |-> Loaded(image[p])]
  /\ pc = [t \in Thread |-> "user"]
  /\ call = [t \in Thread |-> "handled"]
  /\ result = [t \in Thread |-> 0]
  /\ foreign = [t \in Thread |-> FALSE]
  /\ sibling = [t \in Thread |-> FALSE]

Siblings(t) == {u \in Thread \ {t} : Owner[u] = Owner[t]}
InCall(t) == pc[t] # "user"

IsMain(t) == t = Main[Owner[t]]

\* If this call fails, it is with -1 and without set_errno().
Silent(t) == call[t] = "noErrno" \/ (call[t] = "fork" /\ ~IsMain(t))

errno(t) == word[Owner[t]][image[Owner[t]]]

\* A step of t in a call, seen by those of its siblings that are in one.
Met(t) ==
  sibling' = [u \in Thread |->
                \/ sibling[u]
                \/ u \in Siblings(t) /\ InCall(u)
                \/ u = t /\ \E v \in Siblings(t) : InCall(v)]

\* Mutant: the stub does not clear errno.
KeepErrno(t) == errno(t)

\* The value the stub stores before the trap.
Cleared(t) == "0"

\* SYSCALLSTUB, up to swi.
Stub(t, c) ==
  /\ pc[t] = "user"
  /\ pc' = [pc EXCEPT ![t] = "trapped"]
  /\ call' = [call EXCEPT ![t] = c]
  /\ word' = [word EXCEPT ![Owner[t]][image[Owner[t]]] = Cleared(t)]
  /\ Met(t)
  /\ UNCHANGED <<errno_addr, image, result, foreign>>

\* Mutant: the address is taken from the first call only.
FirstErrnoAddr(addr) == IF errno_addr = NULL THEN addr ELSE errno_addr

\* set_errno_addr()
NewErrnoAddr(addr) == addr

\* syscall_handle() up to the switch: the address comes from r10.
Enter(t) ==
  /\ pc[t] = "trapped"
  /\ pc' = [pc EXCEPT ![t] = "kernel"]
  /\ errno_addr' = NewErrnoAddr(image[Owner[t]])
  /\ foreign' = [u \in Thread |->
                   u # t /\ (foreign[u] \/ (pc[u] = "kernel"
                                  /\ image[Owner[u]] # image[Owner[t]]))]
  /\ UNCHANGED <<image, word, call, result, sibling>>

\* The call ends, with r0 = r; an error number e # "0" goes through set_errno().
Ends(t, r, e) ==
  /\ pc[t] = "kernel"
  /\ pc' = [pc EXCEPT ![t] = "back"]
  /\ result' = [result EXCEPT ![t] = r]
  /\ word' = IF e = "0" \/ errno_addr = NULL THEN word
             ELSE [word EXCEPT ![Owner[t]][errno_addr] = e]
  /\ Met(t)
  /\ UNCHANGED <<errno_addr, image, call, foreign>>

\* Mutant: the error number itself, negative, as other kernels do.
NegativeErrno(c) == -2

\* r0 of a call that failed.
ResultOfFailure(c) == IF c = "dropped" THEN 0 ELSE -1

Succeed(t) ==
  /\ \/ call[t] \in {"handled", "dropped"}
     \/ call[t] = "fork" /\ IsMain(t)
  /\ Ends(t, 0, "0")

\* The failures that store an error number.
Fail(t) ==
  /\ \/ call[t] \in {"handled", "dropped", "nosys"}
     \/ call[t] = "exec" /\ IsMain(t)
  /\ Ends(t, ResultOfFailure(call[t]), t)

\* do_fork() and do_fork2() of a secondary thread, and the result -1 that
\* syscall_handle() starts with.
FailSilently(t) == Silent(t) /\ Ends(t, -1, "0")

\* do_execve() finds the file, in a process of one thread: another program,
\* and another main thread that starts in it.  A secondary thread in exec
\* has no further step: it is the ASSERT, which stops the others as well.
Exec(t) ==
  /\ pc[t] = "kernel"
  /\ call[t] = "exec"
  /\ IsMain(t)
  /\ Siblings(t) = {}
  /\ pc' = [pc EXCEPT ![t] = "user"]
  /\ \E a \in Addr : /\ image' = [image EXCEPT ![Owner[t]] = a]
                     /\ word' = [word EXCEPT ![Owner[t]] = Loaded(a)]
  /\ foreign' = [foreign EXCEPT ![t] = FALSE]
  /\ UNCHANGED <<errno_addr, call, result, sibling>>

\* The program has looked at the result and at errno.
Resume(t) ==
  /\ pc[t] = "back"
  /\ pc' = [pc EXCEPT ![t] = "user"]
  /\ call' = [call EXCEPT ![t] = "handled"]
  /\ result' = [result EXCEPT ![t] = 0]
  /\ foreign' = [foreign EXCEPT ![t] = FALSE]
  /\ sibling' = [sibling EXCEPT ![t] = FALSE]
  /\ UNCHANGED <<errno_addr, image, word>>

Next ==
  \E t \in Thread : \/ \E c \in Call : Stub(t, c)
                    \/ Enter(t)
                    \/ Succeed(t) \/ Fail(t) \/ FailSilently(t)
                    \/ Exec(t)
                    \/ Resume(t)

Spec == Init /\ [][Next]_vars

-----------------------------------------------------------------------------
(* Properties *)

\* When no program with its errno elsewhere has entered the kernel since and
\* no other thread of the process has been in a call, a program that gets -1
\* finds the number of this very call in errno, and 0 after a success,
\* whatever the other processes did and however they interleave.  The calls
\* that fail silently leave 0 there: a fork of a secondary thread is refused
\* with -1 and no error number, and nobody else's number is taken for it.
ErrnoDelivered ==
  \A t \in Thread : pc[t] = "back" /\ ~foreign[t] /\ ~sibling[t] =>
     /\ result[t] = -1 => errno(t) = IF Silent(t) THEN "0" ELSE t
     /\ result[t] = 0 /\ call[t] # "dropped" => errno(t) = "0"

\* A store of set_errno() outside errno needs a call of another program in
\* between: as long as errno has one address in all programs that make
\* calls, no data of a program is overwritten.
NoStrayStore ==
  [][\A t \in Thread, a \in Addr :
        Fail(t) /\ a # image[Owner[t]] /\ word'[Owner[t]][a] # word[Owner[t]][a]
          => foreign[t]]_vars

\* The comment above set_errno_addr(): errno keeps the error number of a
\* system call that failed.  Threads of one process share it, so they are
\* not counted, nor are the calls that give no number to keep.
ErrnoKept ==
  \A t \in Thread :
     pc[t] = "back" /\ result[t] = -1 /\ ~Silent(t) /\ ~sibling[t]
       => errno(t) = t

=============================================================================
