# SYE labs: formal models

TLA+ models, model-checking runs and machine-checked proofs for the system
programming labs in this repository: the process layer of the SO3 kernel, its
user memory management, and the programs of `usr/src` that communicate, wait or
keep counters. Paths below are relative to `src/`.

## 1. The system

The labs share one kernel, SO3 (a small ARM kernel with processes, threads,
pipes and an MMU). Each `labNN` directory holds the files that lab changed: the
thread layer, scheduler, frame allocator, file system, C library and most
headers are not in the repository. They are modelled from the way the files
that are here use them, and are marked external in the map of `PROJECT.json`.

| component | state | operations | how it interacts |
|---|---|---|---|
| Process lifecycle, `lab02/so3/kernel/process.c` | PCB list, next pid, parents, states, main threads, join queues | `do_fork`, `do_fork2`, `do_execve`, `do_exit`, `do_waitpid` | called by programs; blocks and wakes threads; `do_waitpid` frees the page tables |
| User memory, `lab05/so3/kernel/process.c`, `lab05/so3/arch/arm32/mmu.c` | L1/L2 page tables, page lists, reference counts, program break, TLB | `duplicate_user_space`, `setup_proc_image_replace`, `do_sbrk`, `mmu_switch`, release on exit and on reaping | called by fork, exec, exit and the scheduler |
| Socket client and server, `lab04/usr/src` | `message_to_send`, `greetings`, `counter`, buffers | signal handlers, send loop, answer loop | TCP connection; signals from the shell |
| Tic-tac-toe, `lab02/usr/src`, `lab03/usr/src/tictactoe_ipc.c` | the grid, whose turn, two pipes | game loop, `win`, `minmax`, player loop, pipe commands | fork, exec, waitpid; two pipes |
| Page replacement simulator, `lab07/usr/src/memreplace.c` | page table bits, LRU counters, virtual time | hit and fault for LRU and WSClock | none |
| Memory simulator, `lab06/usr/src/memsim.c` | page table, memory, loop variables of the self tests | translate, read, write, test | none |
| System calls, `lab02/usr/lib/libc/crt0.S`, `lab02/so3/kernel/syscalls.c` | `errno` of each program, `errno_addr`, one variable for all processes | stub, dispatch, `set_errno` | every program; preemption between any two steps |
| Priorities (`renice`), `lab05/so3/kernel/process.c` | one field | store it | an external scheduler |
| Counting programs, `lab02/usr/src/count_parallel.c`, `lab03/usr/src/threads.c` | the list of pids or threads, the loop counter, thread arguments | fork, exec and wait for N children; create and join N threads | `waitpid`, pthread |
| Shell, `lab01/usr/src/sh.c` | the current command, ends of pipes | fork, pipe, exec and wait for a command | `waitpid`, pipes |
| Boot and timer, `lab01/so3` | device registers | straight-line initialisation | none |
| `ls`, `ln`, `hello`, `memory` | none | input and output | none |

### What is hard in it

- Concurrency: a system call that blocks, while another process enters the
  kernel and moves `errno_addr`; a parent may call `waitpid` before or after its child calls
  `exec`, which gives the process another main thread; `do_exit` runs with
  interrupts on while it closes descriptors; a signal handler of the client
  stores into the variable its loop reads twice; two processes of the game share
  two pipes and a waitpid.
- Staleness: translations left in the TLB by the page copied before, or by the
  process that ran before; the local `child` of `do_waitpid` after it slept.
- Resources: frames shared out by reference counts across fork, exec and exit in
  any order; PCBs kept only for their children.
- Networks: a message read in two parts, a peer that is gone.
- Arithmetic: a counter of eight bits, an `int` in `sbrk`, a terminator written
  at the length of a buffer.

### What makes each part correct

- Process lifecycle: a death is collected once and by the parent; a wait for a
  child that dies comes back; no PCB, thread or page table is used after it was
  freed; the kernel does not stop on its own assertions.
- User memory: no frame is shared between processes, lost, or free while mapped;
  no stale translation is used; a program finds what it wrote; the heap is
  mapped up to the break and areas do not overlap.
- Sockets: a reply answers the message sent; the client does not stay in `read`;
  the server ends once the client is gone.
- Game: the two processes keep the rules of the game and stay in step; both end,
  and the player learns the right result.
- Page replacement: three pages in memory, none lost; the page that leaves is the
  one the algorithm is named for.
- System calls: the error number of a call reaches the program that made it, and
  no other word of memory.
- Programs on the kernel: they wait for their own children, a foreground command
  leaves nothing behind and ends, a thread reads its own argument.
- Memory simulator: it is a flat memory, whatever the page table.

The `hazards` of `PROJECT.json` list, line by line, where each of these could go
wrong, with the properties that cover it.

## 2. Modules

| module | what it is |
|---|---|
| `WaitContract` | abstract: what fork, exit and waitpid promise, whatever the kernel |
| `Process` | `lab02/so3/kernel/process.c`, one action per system call and per half of a call that can lose the CPU |
| `ProcessProofs` | inductive invariants and safety theorems of `Process`, which implements the safety part of `WaitContract` |
| `Programs` | composition: the shell, `count_parallel` and `threads` calling the actions of `Process` |
| `ProgramsProofs` | what these programs wait for, what they leave behind, and that the kernel never stops under them |
| `AddressSpace` | page tables, frames, TLB and heap |
| `AddressSpaceProofs` | frames, isolation, translations, memory and heap of `AddressSpace`, for any sizes |
| `Syscalls` | the stubs of the C library, the dispatch and errno |
| `SyscallsProofs` | who gets whose errno, for any processes and threads |
| `Socket` | client, server, connection and signals |
| `SocketProofs` | the conversation, for any number of signals |
| `TicTacToeGame` | abstract: the rules of the game |
| `TicTacToe` | game manager, player, pipes |
| `TicTacToeProofs` | the pipes, `win`, `minmax` and the rules, for any grid and depth |
| `FlatMemory` | abstract: a byte per address |
| `MemSim` | the memory simulator, which implements `FlatMemory` |
| `MemSimProofs` | the self tests and the refinement, for any sizes |
| `MemReplace` | LRU and WSClock |
| `MemReplaceProofs` | the page table and LRU, for any sizes |
| `MC...` | one per run's module: small instances for TLC |

### Process

A PCB is its pid, since pids are never reused; the fields of `pcb_t` the code
reads or writes are functions of the pid, and `procList` is the set of those on
`proc_list` (in pid order, which is the order of insertion). A system call runs
with interrupts off on the only CPU, so it is one action, with two exceptions:
`do_exit` turns the interrupts on while it closes descriptors (`BeginExit`,
`FinishExit`), and `thread_join` blocks inside `do_waitpid` (`WaitBlock`, then
`WaitReturn` or `WaitStale` with the local variable `child` kept from before).
`Exec` moves the waiter of the old main thread to the new one, as `list_move`
does; `ExecAsserts` is a failed ASSERT of the same function. `Reap` is what
follows the join. `panic` records what stopped the kernel. `AnyPid` distinguishes
two worlds: programs that wait, by pid, for children of theirs they have not
collected (those of `usr/src`), and programs that
pass anything to `waitpid`.

Left out: secondary threads, signals, descriptors, exit codes, and the
`ptrace` stops (nothing in the repository places a request). `ps` changes no
state.

### Programs

The composition of the user programs with the kernel. `K == INSTANCE Process`
gives the system calls: an action of `Programs` is an action of `Process`
conjoined with what the program does, so every ASSERT, block and wake-up of
`do_waitpid` is there. `at` is where a program stands, `toWait` its `pid_child` or
`pid_list`, `files` what a child of the shell has still to launch. The shell forks
(`RunCommand`), its child opens the pipe and forks the left side (`LaunchPipe`),
each side closes the end it does not use, duplicates the other (`Kept`) and
executes (`Launch`, `LaunchFails`). A pipe is its two ends and who holds them, not
its content: a program that filters ends when nobody holds the write end
(`EndOfInput`). `CountExecFails` is the missing `exit` behind `execl`: the child
goes on with the loop of its parent. Threads made by `threads.c` live in the
process that made them; pthread is outside the repository.

`Own` is a second instance of the kernel, the one that takes waits for one's own
children only. `OwnChildrenOnly` says that each step of the composition is a step
of it: the assumption `AnyPid = FALSE`, under which the stronger theorems about
`Process` are proved, is what the programs of `usr/src` do. It holds as long as
`count.elf` is on the disk. Without it `count_parallel` N creates 2^N - 1
processes, one for each nonempty set of turns of the loop (`CountForks`), which wait for siblings and for pid 0; with N = 2 two of them join the
same main thread and the kernel goes on with freed memory (`panic` "stale join").

Left out: parsing (a command is chosen from a set), built-in commands, `kill` and
the SIGINT handler, and what goes through a pipe.

### Syscalls

A stub clears `errno` and traps (`Stub`); the handler stores the address it got
into `errno_addr` (`Enter`); the call ends well (`Succeed`), fails through
`set_errno`, which stores through `errno_addr` in the address space of the caller
(`Fail`), or fails with -1 and no error number (`FailSilently`); `Exec` loads
another program. Calls are told apart by what they do with errno (`Call`):

- `fork` and `fork2` are refused to every thread but the main one, with -1 and
  without `set_errno` (`Silent`); in the main thread they do not fail.
- `execve` stops the kernel in a secondary thread (ASSERT; the model stops that
  thread only, which leaves more behaviours). In the main thread it fails with
  ENOENT, or returns what `setup_proc_image_replace` returned: -1, after
  `preserve_args_and_env` has called `set_errno` on each of its error paths
  (`process.c:373`, `447`, `472`).
- `waitpid` and `sbrk` set ECHILD, ESRCH or ENOMEM whenever they return -1. The
  `do_...()` of files, sockets, signals and threads are not in the repository:
  those that call `set_errno` are "handled" like these two, those that do not are
  "noErrno", like `procname`, `sigreturn` and the numbers of no case, for which
  `syscall_handle` returns the -1 it started with. Each call that fails is one or the other.

Threads interleave between any two steps, since calls
block and the timer preempts. `image` is where each program has its `errno`: it
depends on how the program was linked. `foreign` and `sibling` remember the two
events that can spoil the result. Argument passing and the table of numbers are
left out; in `exec` the new program is taken to be in a process of one thread.

### AddressSpace

Addresses are page numbers, the content of a page is the pid of its last writer.
`create_mapping` and the release of a mapping act on `l2`/`pte` of one process
and on the one TLB. `fork` copies page by page through a transitional mapping in
the kernel area of the *current* table: `ForkStart`, `ForkSkip`/`ForkPage` for each
page, `ForkEnd`. `exec` is `ExecStart`, `ExecPage` for each page, `ExecEnd`; with
no frame left, `OutOfFrames` is the BUG_ON of `allocate_page`. Only steps of the
call in progress are taken meanwhile, because interrupts are off. `written` is the
memory each program believes it has, updated by its stores and copied by fork.
Assumptions: `LayoutAssumption` and `StackFitsAssumption` say what link-time
sizes ensure (an image linked at 0x1000, small enough for heap and stack to be
apart), which the code does not test. Sections (1 MB mappings), the kernel area
and the configuration at boot are left out.

### Socket

`message_to_send` is the variable the three handlers store to, at any point
(`Signal`). The client's loop is `Prepare` (first switch), `Write`,
`AnswerExpected`/`NoAnswer` (second switch, on what the variable holds by then),
`Read`/`ReadEof`/`ReadError`. The server's is `ServerRead` and `ServerWrite`. A
message travels as two halves; `whole` chooses whether reads may be short. A
write to a peer that is gone resets the connection, then fails. Three choices in
`Init` stand for what the build decides: `hoisted` (the idle loop keeps
`message_to_send` in a register, since it is not volatile), and `behind` (what lies
behind `receiveBuff` and is hit by its terminator; limited to nothing of use,
`greetings` or `running`). Signals before the handlers are installed, and EINTR
(`signal()` restarts `read`), are left out.

### TicTacToe

`gmPc` and `playerPc` follow the two `main` functions; the pipes are sequences.
One action is what a process does between two commands: `GetMove` reads a move,
and either rejects it or writes it on the grid, computes `win()` and sends the
result. `minmax` and `computers_turn` are translated as they are: as `minmax` asks
nothing of `win()`, all its scores are 0 and the computer plays the first free
cell. `ForkFails` and `ExecFails` leave the game manager without a player: it
asks for a move and waits for ever, since it holds the write end of the pipe it
reads. The constants of `tictactoe.h` are external; -1, 0 and 1 for computer,
free and player are what `minmax(-player)` and `grid[move] != 0` require.

### MemSim

A page table entry is the number the code computes, with the attributes in its
low bits; one step is one call of `get_byte` or `store_byte`. `Init` chooses whether
the attributes are compiled in. `Fill`, `TestMem` and `TestMem2` are the loops of
`main()` and of the self tests, early returns included; after them any access
may come (`Get`, `Store`), in the place of "ADD your code here". An address may be
wider than the 16 bits `virt_to_pte` takes (`Cut`). The refinement to `FlatMemory`
sees only the memory through the page table.

### MemReplace

One step is one access typed by the user. A page table entry is the set of its
bits; `counters`, `globalCounter`, `tvc` and `tdu` wrap at `CounterRange` and
`TimeRange`, the number of values of a `uint8_t` and a `uint16_t` in the code.
`lastUse` and `accesses` are there for the properties.

## 3. Runs

| run | question | bounds | result |
|---|---|---|---|
| `process_children` | all of fork/exec/exit/waitpid with programs that wait for their own children | 4 pids | no failed ASSERT, no deadlock, `ImplementsWaitContract` (liveness included) holds |
| `process_any_pid` | what is left when `waitpid` gets any argument | 4 pids | PCBs never dangle, no running process loses its tables, no lost wake-up, a returned pid is dead |
| `programs` | do the programs use the kernel as it expects, and does the prompt come back, to a clean list? | 5 pids, N = 2, 14 commands | holds |
| `programs_background` | is a background command collected, as the comment says? | 3 pids, N = 1 | violated |
| `address_space` | is memory private, counted and current? | 3 pids, 10 frames, 8 user pages, 2 pages per L2 table, 4-bit `int` | holds |
| `syscalls` | what can keep an errno from its program, or send it elsewhere? | 3 threads of 2 processes, 2 addresses | a number given to `set_errno` is lost only to a call from a program with another address, or of a sibling thread; a call that fails without it leaves 0 |
| `syscalls_errno` | is errno kept whatever the others do? | same | violated |
| `memsim` | do the self tests pass, and is it a flat memory? | 4 pages of 8 bytes, bytes of 2 values, 2 stores, one bit above the address | holds |
| `memreplace` | does the page table stay consistent, and is LRU LRU before the wrap? | 5 pages, 9 accesses, counters of 8 values | holds |
| `memreplace_tdu` | does the time of last use move? | same | violated by the first access |
| `socket` | replies, termination, with signals and lost connections | 4 signals | holds |
| `tictactoe` | do two processes and two pipes play by the rules, and end? | 3 x 3, depth 3 | holds |

Why the bounds are enough:

- Four pids give a parent with several children, grandchildren, a PCB kept for
  its children and a stranger that waits; the theorems remove this bound. In
  `programs` five pids are a shell, a `count_parallel` with its two children
  and one more command, before or after, or a pipe with a nested shell. A command
  is typed only when the pids it will need are left (`budget`), so that no program
  meets a fork that fails.
- Ten frames hold two programs but not three, so that `OutOfFrames` and reuse of
  freed frames occur; two pages per L2 table make tables empty and fill; the
  increments include one that overflows the `int`.
- Three threads in two processes give a sibling, a secondary thread that is
  refused a fork, and a stranger; the theorems remove the bound. The main thread
  differs from the other one, so there is no symmetry set.
- Eight bytes per page are the least with room for the attribute bits; one page
  each is read-only and invalid, two are neither. Two stores tell apart the order
  and two pages on one frame. One bit above the address makes every address
  alias.
- Four signals allow a message, one between the two switches, one during `read`
  and SIGINT.
- On the 3 x 3 grid all games against this computer are explored, with rejected
  moves (any number 1 to 9 at any time). `minmax` gives 0 at any depth; 3
  exercises its recursion.
- With counters of eight values the wrap comes within nine accesses; with five
  pages there are two to bring in. The code has 16 pages and 8 and 16 bits: the
  same wraps happen after 256 and 65536 accesses.

`CHECK_DEADLOCK FALSE` is set where the system does stop: the exit of the root
panics the kernel, programs end, accesses are bounded, BUG_ON stops.

### Fairness

- `Process`: weak fairness of `FinishExit` and `WaitReturn`, threads that are
  inside the kernel and ready. The round-robin scheduler of lab02 preempts on the
  timer, so each ready thread gets the CPU. With the priority scheduler of lab05
  this holds among equal priorities only if they yield (`lab05/rapport_lab05.md`);
  the liveness results are about lab02. Nothing is assumed of programs: they need
  not exit or wait.
- `Programs`: weak fairness of each process (`Runs`), for the same reason. What the
  user types is not fair: a nested shell may wait for ever, and `ShellReturns`
  says so. It counts a kernel that has stopped as a return: the "stale join" of
  `count_parallel` without `count.elf` is not what it excludes.
- `Socket`: weak fairness of the client's steps and of the server's. Both are
  processes scheduled by the host, and TCP delivers or fails. Signals need not
  come.
- `TicTacToe`: weak fairness of each process; the user need not type, so that
  only what follows the last move is guaranteed.

### Disagreements found

By runs:

1. The comment of `process_cmd` says that `waitpid` is called on SIGCHLD for a
   background process (`lab01/usr/src/sh.c:217`); no handler is installed
   (`programs_background`).
2. `errno_addr` is one variable for all processes (`lab02/so3/kernel/syscalls.c:57`):
   a call from a program with its `errno` elsewhere diverts the error number of a
   call that has not ended, into a word of the caller's data (`syscalls_errno`).
3. `updateTDU` tests `entry & REF_BIT_MASK & VALID_BIT_MASK`, always 0, so that
   the time of last use stays 0 (`lab07/usr/src/memreplace.c:93`, `memreplace_tdu`).

Seen in the models, and stated by no run:

- `waitpid(-1)` returns -1 with no child to report, where its comment says 0
  (`lab02/so3/kernel/process.c:963`, comment at 949).
- A PCB kept for its children stays on the list when somebody else collects the
  last of them with `waitpid(-1)` (`process.c:1015`).
- LRU evicts the page used last once the 8-bit counter has wrapped
  (`memreplace.c:60`); `LRUUntilWrap` says how long it is right.
- The client stores a terminator one byte behind its buffer
  (`lab04/usr/src/socket_client.c:137`); the properties of `socket` hold when it
  lands on `greetings`, on `running` or on nothing of use. What it does to another
  variable, `sockfd` for one, is not modelled.
- `fork` and `fork2` of a secondary thread return -1 with errno 0, and with the
  interrupts off (`lab02/so3/kernel/process.c:784`, `841`), where the library
  promises a fork "according to the standard UNIX fork system call"
  (`lab02/usr/lib/libc/include/syscall.h:204`).
- Once its idle loop is compiled with `message_to_send` in a register, the client
  spins for ever (`socket_client.c:119`); `ReadReturns` and `ServerEnds` hold of it
  for want of a read and of an end.
- A SIGINT between the two switches makes the client leave without the reply it
  is owed (`socket_client.c:128`).
- `minmax` scores every position 0 (`lab02/usr/src/tictactoe_gm.c:50`).
- `count_parallel` lets a child whose `execl` failed run the loop of its parent
  (`lab02/usr/src/count_parallel.c:38`), see `Programs` above.
- The self test of the simulator cannot see two pages mapped to one frame
  (`lab06/usr/src/memsim.c:243`); `ImplementsFlatMemory` can.
- The comment of `init_page_table` says that "physical 0x0000 is equal to virtual
  0xFFFF" (`lab06/usr/src/memsim.c:312`); the code inverts the number of the page
  only and keeps the offset, so that physical 0x0000 is the first byte of the last
  virtual page.

## 4. Proofs

Every type invariant, every safety property and the safety part of every
refinement that the passing runs check is also a theorem, for any number of
processes, threads, frames, pages, signals, cells and accesses, and any set of
commands typed at the shell. Assumptions, all named in the modules: sizes and
numbers are natural, most of them not 0 (`MaxPidAssumption`, `NAssumption`,
`SizesAssumption`, `SizeAssumption`, `GridAssumption`, `DepthAssumption`,
`MaxSignalsAssumption`); `AnyPid` is a Boolean; a command has one or two files
(`CommandsAssumption`); each thread has an owner, error numbers are no addresses
(`OwnerAssumption`, `ValuesAssumption`, `NullAssumption`) and each process a main
thread (`MainAssumption`); a page of the simulator
is a multiple of the 8 values of the attributes, and none is both read-only and
invalid (`SizeAssumption`, `PagesAssumption`); heap and stack are apart, which the
linker ensures and exec does not test (`LayoutAssumption`, `StackFitsAssumption`).

### Process, for any use of `waitpid`

- `TypeCorrect`, from `NextTypeOK`, one step per action.
- `ParentsStayListed`, `RunnableKeepsPageTable`, `WakeupsNotLost`. None of the
  three is inductive by itself. The inductive invariant is `IInv`, which is
  `TypeOK` and `Shape`: `PcbShape` ties `pc`, `state`, `mainThread`, `pgtable` and
  membership of the list together (what is not yet forked, live, dead, reaped);
  `QueueShape` says that a process is on a join queue exactly when it blocks in
  `waitpid` for that child and that the child's main thread is still alive. That
  last part is what makes `Exec` and `FinishExit` preserve the absence of lost
  wake-ups, and what keeps `Reap` from meeting a live process.
- `ReturnedPidsAreDead`: `ReapedIsDead` follows from `RetInv`, since a dead process
  stays dead.

### Process, for programs that wait for their own children

- `OwnWaitsAreSafe`, `KeptForChildren`, `WaitsNeverDeadlock`. `ChildrenInv` adds
  `OwnChild` (a process inside `waitpid` has there an uncollected child of its
  own, so that it alone will reap it). Deadlock freedom descends along the waits:
  a blocked process waits for a child with a greater pid (`CallShape`), and pids
  are bounded. That the programs of `usr/src` satisfy the assumption is
  `ProgramsWaitForTheirOwn`, below.
- `KernelKeepsContract`: `Spec => C!ContractSafety`. A step maps to `Spawn`,
  `Die`, `Await`, `Collect`, `Halt` or a stutter, under `RInv`, which is
  `ChildrenInv` and `CallShape` (outside `waitpid` the local variable `child` is
  NULL, the root never starts to exit, parents are older than children).

### Programs

`BaseInv` is inductive by itself: the types; `KernelInv`, what the programs rely on
in the PCBs; `LocalsInv`, which says at which line of a program its list of pids
may be filled and at which it may be inside `waitpid`; `ThreadInv`, which confines
threads to the loop and the joins of `threads`. `TypeCorrect` and `ThreadsStaySound`
follow from it.

- `ProgramsWaitForTheirOwn`. `OwnInv` says that, as long as `count.elf` is there, a
  program lists uncollected children of its own, each once, and not the one it
  waits for. A child of `count_parallel` has the list of its parent between fork
  and exec: there nothing is said of it, and nothing waits there. The theorem
  closes the assumption `AnyPid = FALSE` of the theorems about `Process`.
- `PromptStaysClean`, with or without `count.elf`. `CleanInv` says that whoever is not
  `loose` and not collected is expected by its parent, which has not begun to
  exit (`Expected`); that a PCB kept after its collection is kept for a child that
  is loose or kept likewise (`KeptForLoose`); and that nobody expects a background
  command or the left side of a pipe (`LooseInv`). At the prompt of the root shell
  the process with the smallest pid that is not loose would then be expected by
  the shell, whose list is empty, or by an older one.
- `KernelIsSafeWithPrograms`: as long as `count.elf` is there, the kernel never stops
  and the processes never all wait for each other. `OwnInv` rules out the three
  ways to stop it (`NeverStops`); the youngest living process is not blocked, since
  it would wait for a child (`JoinInv`, `YoungestGoesOn`). No run checks this one.

### AddressSpace

`SpaceInv` is inductive and implies `TypeOK`, `FramesCounted`, `Isolated`,
`TranslationsSound` and `MemoryAsWritten`, none of which is by itself:

- `FramesOwned`: a frame is free with count 0, or on one page list with count 1.
  The counts never reach 2, although the code is written for it, so that
  `release_proc_pages` frees the whole list.
- `TablesOwn`: the user entries of a process that is live *or under construction*
  point into its own page list, to each frame once. With `FramesOwned`, isolation
  follows. A zombie is left out: its entries stay until it is reaped, when its
  frames already belong to others.
- `TlbShape`: the TLB is empty throughout an exec, which is what makes it current
  at the end; in a fork nothing is said of it, since each page flushes it.
- `L1Match`: only the process that forks has the transitional page.
- `MemInv`: a child under construction holds what its parent believes
  (`ChildMatches`), so that the copy of `written` at `ForkEnd` is right.

`HeapStaysSound` needs `HeapInv` besides: that the heap is mapped up to the break
depends on which pages an exec has mapped after each round of its loops
(`ExecProgress`), which pages of the parent a fork has copied so far
(`ForkProgress`). That the areas are apart is counted: every frame of a page list is
mapped (`ListMapped`), to one page (`MapsOwn`), and `setup_proc_image_replace` never
comes back to a page (`PagesApart`), so there are as many frames as pages asked for.

### Syscalls

`ErrnoInv` adds to `ErrnoDelivered` that `errno_addr` is the caller's until a
program with its errno elsewhere calls (`AddrKnown`), and that errno stays cleared
until another thread of the process calls (`StillCleared`). `ErrnoReachesCaller`
and `StoresStayInErrno` follow: a number given to `set_errno` reaches the caller, and
a call that fails without it (`Silent`: a fork of a secondary thread, the calls
outside the switch) leaves the 0 of the stub. `OneAddressKeepsNumbers` says what
would make the comment in `syscalls.c` true of all numbers: errno at one address in
all programs. That is no help to a fork that is refused; with programs of one
thread as well (`OneThreadOneAddress`), every -1 comes with its number, but for the
calls that have none.

### MemReplace

`TableInv` adds to `TableConsistent` that LRU sets no reference bit
(`LRUHasNoRef`): it does not clear that of the page it puts out, so without it
`ReferencedIsResident` would not be kept. `CountersAreDates` says that before the
wrap the counter of a page is the number of its last access; `LRUBeforeWrap`
follows.

### Socket

`Conversation` says that, as long as reads are whole, one message is under way, in
one of four places (not yet read by the server, read, answered, or nowhere), and
that the counters of both sides then agree; `ClientInv` ties it to the line the
client is at. `RepliesAreMatched` follows. `SignalInv` and `CountInv` hold with short
reads as well: each `COMPTEUR` sent has a signal of its own, and the server counts
only those that were sent, however the bytes are cut (`CounterSound`).

### TicTacToe

`RequestInv` gives the four places of the one request for a move, `ResultInv` that
of the result, `GameInv` what a result says of the grid. `OneRequestAtATime`,
`RightOutcomeTold` and the refinement `KeepsTheRules` follow. `GameInv` needs that
`win()`, a sum along a line that is compared with the length of the line, sees a
full line exactly when there is one. That is induction over a recursive
definition, done here without an induction theorem: a function that obeys the
equation is named, and a smallest counterexample shows that there is no other
(`SmallestSet`, `SmallestNat`). In the same way `minmax` is 0 for every position at
every depth, and `FirstFreeCell` says that the computer plays the first free cell.

### MemSim

Arithmetic. `DividedOnce`: quotient and remainder are the only ones, so that an
address is a page and an offset (`AddressApart`), the shifts of `init_page_table` and
`get_byte` undo each other with the attributes in between (`EntryDoes`), and no two
pages share a frame (`FramesApart`). A store then reaches one address
(`StoreReaches`), which gives `IsFlatMemory`. `TestsPass` needs `TestInv`: how much of
the memory the loops have filled.

### Model-checked only

Liveness: the fairness part of `ImplementsWaitContract`, `ShellReturns`, `ReadReturns`,
`ServerEnds` and `OverEnds`, since the prover handles neither fairness nor ENABLED.
The three properties of runs that expect a violation are false. No module uses a
RECURSIVE operator.

The theorems of `ProcessProofs` cannot be cited about the instances `K` and `Own` of
`Programs`, which the prover does not support for theorems of an instantiated
module; this is why `KernelIsSafeWithPrograms` is proved in `ProgramsProofs` from its
own invariant.

## 5. Plan

Done: `Process` with its contract, `Programs` on top of it, `AddressSpace`, `Syscalls`,
`MemReplace`, `Socket`, `TicTacToe` and `MemSim`, with their abstract specifications
where they have one; theorems for all their safety properties.

Next, in this order:

1. What `ParentOnList`, `LiveHasPageTable` and `ReapedIsDead` say, for the kernel under
   `Programs` and without `count.elf`: that the waits for siblings and for pid 0
   stop the kernel at worst, and corrupt nothing before.
2. The invariants behind the liveness properties, as theorems: what enables the
   next step of each process that is not done (`ShellReturns`, `ServerEnds`).
3. The pages of `AddressSpace` as what the processes of `Process` keep until they
   are reaped: one module that composes the two.

Not modelled, and why: `renice` stores one field for a scheduler that is not
here; boot and timer are straight-line device code; `ls`, `ln`, `hello` and
`memory` are input and output; the built-in commands of the shell, `kill` and signals
to it start no process; the content of pipes, exit codes and the checks of
arguments carry nothing the properties tell apart; the table of numbers of the
system calls is a constant. Whether an early return of a system call leaves the
interrupts off depends on the return path in the assembly code (`context.S`),
which is not in the repository. The `lab07` and `lab08` kernels are not in the
repository either.
