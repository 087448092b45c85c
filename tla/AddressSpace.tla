----------------------------- MODULE AddressSpace -----------------------------
(***************************************************************************)
(* User memory of the SO3 processes: the page tables of mmu.c, the page    *)
(* lists of process.c, the frames they share out and the TLB in front of   *)
(* them (lab05/so3).  fork copies the user space page by page through a    *)
(* transitional mapping in the current page table; exec drops the old      *)
(* image and maps a new one; exit gives the frames back and leaves the     *)
(* page tables to waitpid.                                                 *)
(*                                                                         *)
(* fork and exec run with the interrupts off: while one is in progress     *)
(* (op.kind) only its own steps are taken.  They are split into one step   *)
(* per page because what a store hits depends on the TLB left by the page  *)
(* before.  Addresses are page numbers, the content of a page is the pid   *)
(* of its last writer (0: the program image).  The frame allocator and the *)
(* TLB operations are outside the repository.                              *)
(***************************************************************************)
EXTENDS Integers, FiniteSets

CONSTANTS
  MaxPid,      \* bound: processes 1..MaxPid
  NFrames,     \* physical frames 1..NFrames
  L2Entries,   \* pages mapped by one L2 page table (TTB_L2_ENTRIES)
  KernelPage,  \* the page at CONFIG_KERNEL_VIRT_ADDR
  StackPages,  \* PROC_STACK_SIZE in pages
  HeapPages,   \* HEAP_SIZE in pages
  ImageSizes,  \* segment_page_count of the programs there are
  StorePages,  \* bound: the pages programs store to
  Increments,  \* arguments of sbrk, in pages
  IntRange     \* the number of values of an int

ASSUME SizesAssumption ==
  /\ MaxPid \in Nat \ {0} /\ NFrames \in Nat \ {0} /\ L2Entries \in Nat \ {0}
  /\ StackPages \in Nat \ {0} /\ HeapPages \in Nat \ {0}
  /\ ImageSizes \subseteq Nat \ {0} /\ Increments \subseteq Int
  /\ StorePages \subseteq 0..(KernelPage - 1)
  /\ IntRange \in Nat \ {0}
  /\ KernelPage \in Nat
\* What the linker script and the link-time sizes ensure: the code of exec
\* does not check that heap and stack are apart.
ASSUME LayoutAssumption ==
  \A n \in ImageSizes : StackPages + n + 1 + HeapPages <= KernelPage - 1 - StackPages
ASSUME StackFitsAssumption == StackPages + 1 < KernelPage

Pid == 1..MaxPid
Root == 1
Frame == 1..NFrames
None == 0
UserPage == 0..(KernelPage - 1)
Transitional == KernelPage     \* TRANSITIONAL_MAPPING, in the kernel area
Page == UserPage \cup {Transitional}
L1 == {v \div L2Entries : v \in Page}

VARIABLES
  free,      \* frames get_free_page() can give
  refcount,  \* page->refcount
  mem,       \* the content of each frame
  mode,      \* none, live, zombie (waiting to be reaped) or reaped
  pageList,  \* pcb->page_list
  l2,        \* L1 entries that point to an L2 page table
  pte,       \* the L2 entries: a frame, or None
  image,     \* segment_page_count of the last exec; 0 before the first
  brk,       \* heap_pointer - heap_base
  cur,       \* the running process, whose page table is current_pgtable()
  tlb,       \* translations the CPU holds
  op,        \* the call in progress with interrupts off
  written    \* the memory each program believes it has

vars == <<free, refcount, mem, mode, pageList, l2, pte, image, brk, cur, tlb,
          op, written>>
tables == <<l2, pte, tlb>>

Content == 0..MaxPid
NoTlb == [v \in Page |-> None]
NoPte == [v \in Page |-> None]
Idle == [kind |-> "user", child |-> None, at |-> 0]
\* The loop of fork or exec goes to its next page.
Onward == [kind |-> op.kind, child |-> op.child, at |-> op.at + 1]

TypeOK ==
  /\ free \subseteq Frame
  /\ refcount \in [Frame -> Nat]
  /\ mem \in [Frame -> Content]
  /\ mode \in [Pid -> {"none", "live", "zombie", "reaped"}]
  /\ pageList \in [Pid -> SUBSET Frame]
  /\ l2 \in [Pid -> SUBSET L1]
  /\ pte \in [Pid -> [Page -> Frame \cup {None}]]
  /\ image \in [Pid -> Nat]
  /\ brk \in [Pid -> Int]
  /\ cur \in Pid
  /\ tlb \in [Page -> Frame \cup {None}]
  /\ op \in [kind : {"user", "fork", "exec", "panic"},
             child : Pid \cup {None}, at : Nat]
  /\ written \in [Pid -> [UserPage -> Content]]

-----------------------------------------------------------------------------
(* Page tables and TLB *)

\* Mutant: the flush leaves the translations in the TLB.
KeepTlb(t) == t

\* mmu_page_table_flush(): cleans the cached table, invalidates the TLB.
mmu_page_table_flush(t) == NoTlb

\* Mutant: some entry is always "found".
NeverEmpty(entries, i) == FALSE

\* free_l2_mapping() found no entry left in the L2 table of L1 entry i.
IsEmptyL2(entries, i) == \A v \in Page : v \div L2Entries = i => entries[v] = None

\* create_mapping() of one page in the table of p.
create_mapping(p, v, f) ==
  /\ l2' = [l2 EXCEPT ![p] = @ \cup {v \div L2Entries}]
  /\ pte' = [pte EXCEPT ![p][v] = f]
  /\ tlb' = mmu_page_table_flush(tlb)

\* reset_l1pgtable(): the user area of the table of p, L2 tables freed.
UserAreaCleared(p) ==
  [v \in Page |-> IF v \in UserPage THEN None ELSE pte[p][v]]

reset_l1pgtable(p) ==
  /\ pte' = [pte EXCEPT ![p] = UserAreaCleared(p)]
  /\ l2' = [l2 EXCEPT ![p] = @ \ {v \div L2Entries : v \in UserPage}]
  /\ tlb' = mmu_page_table_flush(tlb)

\* What the CPU uses for page v of the current process.
Translate(table, v) == IF tlb[v] # None THEN tlb[v] ELSE table[v]

-----------------------------------------------------------------------------
(* Frames *)

\* get_free_page(): outside the repository; which free frame does not matter.
get_free_page(f) == f \in free /\ \A g \in free : f <= g

NoFreePage == free = {}

\* add_page_to_proc(), after get_free_page() took f off the free list.
TakePage(p, f) ==
  /\ free' = free \ {f}
  /\ refcount' = [refcount EXCEPT ![f] = @ + 1]
  /\ pageList' = [pageList EXCEPT ![p] = @ \cup {f}]

\* Mutant: the count is tested before it is decremented.
ReleasedNothing(p) == {}

\* release_proc_pages() frees these: nobody else holds a reference.
Released(p) == {f \in pageList[p] : refcount[f] = 1}

\* Mutant: list_del() is forgotten.
ListKept(p) == pageList[p]

\* The page list once every entry has gone through list_del().
ListAfterRelease(p) == {}

release_proc_pages(p) ==
  /\ free' = free \cup Released(p)
  /\ refcount' = [f \in Frame |-> IF f \in pageList[p] THEN refcount[f] - 1
                                  ELSE refcount[f]]
  /\ pageList' = [pageList EXCEPT ![p] = ListAfterRelease(p)]

-----------------------------------------------------------------------------
(* The image of a program *)

StackTop == KernelPage - 1
StackArea == (StackTop - StackPages)..(StackTop - 1)
ArgsPage == KernelPage - 1
\* The linker script puts the entry point, the start of the image, at 0x1000.
ImageArea(n) == 1..n

\* Mutant: the stack is not counted, nor the page 0.
HeapAfterImage(n) == n

\* heap_base = (page_count + 1) * PAGE_SIZE, page_count being stack + image.
HeapBase(n) == StackPages + n + 1

ProgramPages(n) == StackPages + n + HeapPages + 1

\* The k-th page setup_proc_image_replace() maps: stack, image, heap, args.
PageAt(k, n) ==
  IF k < StackPages THEN StackTop - StackPages + k
  ELSE IF k < StackPages + n THEN k - StackPages + 1
  ELSE IF k < StackPages + n + HeapPages THEN HeapBase(n) + k - StackPages - n
  ELSE ArgsPage

-----------------------------------------------------------------------------

\* create_process() for the root: a stack; the program comes with an exec.
Init ==
  /\ \E m \in [StackArea -> Frame] :
       /\ \A v \in StackArea : m[v] = v - (StackTop - StackPages) + 1
       /\ LET used == {m[v] : v \in StackArea}
          IN /\ free = Frame \ used
             /\ refcount = [f \in Frame |-> IF f \in used THEN 1 ELSE 0]
             /\ pageList = [p \in Pid |-> IF p = Root THEN used ELSE {}]
       /\ pte = [p \in Pid |-> [v \in Page |->
                   IF p = Root /\ v \in StackArea THEN m[v] ELSE None]]
  /\ l2 = [p \in Pid |-> IF p = Root
                         THEN {v \div L2Entries : v \in StackArea} ELSE {}]
  /\ mem = [f \in Frame |-> 0]
  /\ mode = [p \in Pid |-> IF p = Root THEN "live" ELSE "none"]
  /\ image = [p \in Pid |-> 0]
  /\ brk = [p \in Pid |-> 0]
  /\ cur = Root
  /\ tlb = NoTlb
  /\ op = Idle
  /\ written = [p \in Pid |-> [v \in UserPage |-> 0]]

InUser == op.kind = "user"

Panic ==
  /\ op' = [kind |-> "panic", child |-> op.child, at |-> op.at]
  /\ UNCHANGED <<free, refcount, mem, mode, pageList, l2, pte, image, brk, cur,
                 tlb, written>>

\* The program stores to one of its pages; the CPU keeps the translation.
Store(v) ==
  /\ InUser
  /\ pte[cur][v] # None
  /\ mem' = [mem EXCEPT ![Translate(pte[cur], v)] = cur]
  /\ tlb' = [tlb EXCEPT ![v] = Translate(pte[cur], v)]
  /\ written' = [written EXCEPT ![cur][v] = cur]
  /\ UNCHANGED <<free, refcount, mode, pageList, l2, pte, image, brk, cur, op>>

\* A context switch: mmu_switch() invalidates the TLB.
Switch(p) ==
  /\ InUser
  /\ mode[p] = "live"
  /\ p # cur
  /\ cur' = p
  /\ tlb' = NoTlb
  /\ UNCHANGED <<free, refcount, mem, mode, pageList, l2, pte, image, brk, op,
                 written>>

-----------------------------------------------------------------------------
(* fork *)

\* do_fork() up to the loops of duplicate_user_space().
ForkStart(c) ==
  /\ InUser
  /\ mode[c] = "none"
  /\ \A p \in Pid : p < c => mode[p] # "none"
  /\ op' = [kind |-> "fork", child |-> c, at |-> 0]
  /\ image' = [image EXCEPT ![c] = image[cur]]
  /\ brk' = [brk EXCEPT ![c] = brk[cur]]
  /\ UNCHANGED <<free, refcount, mem, mode, pageList, l2, pte, cur, tlb,
                 written>>

InFork == op.kind = "fork" /\ op.at \in UserPage

ForkSkip ==
  /\ InFork
  /\ pte[cur][op.at] = None
  /\ op' = Onward
  /\ UNCHANGED <<free, refcount, mem, mode, pageList, l2, pte, image, brk, cur,
                 tlb, written>>

\* Mutant: the L2 entry is copied as it is.
SharedFrame(v, f) == pte[cur][v]

\* What the L2 entry of the child gets for page v.
ChildFrame(v, f) == f

\* One page: map a free frame at the transitional address of the current
\* process, copy through it, and enter the frame in the table of the child.
ForkPage(f) ==
  LET v == op.at
      c == op.child
      flushed == mmu_page_table_flush(tlb)
      target == IF flushed[Transitional] # None THEN flushed[Transitional] ELSE f
      source == IF flushed[v] # None THEN flushed[v] ELSE pte[cur][v]
  IN
  /\ InFork
  /\ pte[cur][v] # None
  /\ get_free_page(f)
  /\ TakePage(c, f)
  /\ pte' = [pte EXCEPT ![cur][Transitional] = f, ![c][v] = ChildFrame(v, f)]
  /\ l2' = [l2 EXCEPT ![cur] = @ \cup {Transitional \div L2Entries},
                      ![c] = @ \cup {v \div L2Entries}]
  /\ mem' = [mem EXCEPT ![target] = mem[source]]
  /\ tlb' = [flushed EXCEPT ![Transitional] = target, ![v] = source]
  /\ op' = Onward
  /\ UNCHANGED <<mode, image, brk, cur, written>>

\* The loops are over: drop the transitional mapping; the child is ready.
ForkEnd ==
  /\ op.kind = "fork"
  /\ op.at = KernelPage
  /\ LET entries == [pte[cur] EXCEPT ![Transitional] = None]
         i == Transitional \div L2Entries
     IN /\ pte' = [pte EXCEPT ![cur] = entries]
        /\ l2' = IF IsEmptyL2(entries, i) THEN [l2 EXCEPT ![cur] = @ \ {i}] ELSE l2
  /\ tlb' = mmu_page_table_flush(tlb)
  /\ mode' = [mode EXCEPT ![op.child] = "live"]
  /\ written' = [written EXCEPT ![op.child] = written[cur]]
  /\ op' = Idle
  /\ UNCHANGED <<free, refcount, mem, pageList, image, brk, cur>>

-----------------------------------------------------------------------------
(* exec *)

\* setup_proc_image_replace() up to the first allocate_page().
ExecStart(n) ==
  /\ InUser
  /\ n \in ImageSizes
  /\ reset_l1pgtable(cur)
  /\ release_proc_pages(cur)
  /\ image' = [image EXCEPT ![cur] = n]
  /\ op' = [kind |-> "exec", child |-> None, at |-> 0]
  /\ UNCHANGED <<mem, mode, brk, cur, written>>

\* allocate_page(): one page of the new program.
ExecPage(f) ==
  /\ op.kind = "exec"
  /\ op.at < ProgramPages(image[cur])
  /\ get_free_page(f)
  /\ TakePage(cur, f)
  /\ create_mapping(cur, PageAt(op.at, image[cur]), f)
  /\ op' = Onward
  /\ UNCHANGED <<mem, mode, image, brk, cur, written>>

\* load_process(): the image is written; the rest holds what was in the frames.
ExecEnd ==
  LET loaded == {pte[cur][v] : v \in ImageArea(image[cur])} IN
  /\ op.kind = "exec"
  /\ op.at = ProgramPages(image[cur])
  /\ mem' = [f \in Frame |-> IF f \in loaded THEN 0 ELSE mem[f]]
  /\ brk' = [brk EXCEPT ![cur] = 0]
  /\ written' = [written EXCEPT ![cur] =
       [v \in UserPage |-> IF pte[cur][v] # None THEN mem'[pte[cur][v]] ELSE 0]]
  /\ op' = Idle
  /\ UNCHANGED <<free, refcount, mode, pageList, l2, pte, image, cur, tlb>>

\* BUG_ON(!page): out of frames in fork or exec.
OutOfFrames ==
  /\ NoFreePage
  /\ \/ InFork /\ pte[cur][op.at] # None
     \/ op.kind = "exec" /\ op.at < ProgramPages(image[cur])
  /\ Panic

-----------------------------------------------------------------------------
(* exit, waitpid, sbrk *)

\* do_exit() and the switch to another process.
Exit(p) ==
  /\ InUser
  /\ cur # Root
  /\ p # cur /\ mode[p] = "live"
  /\ mode' = [mode EXCEPT ![cur] = "zombie"]
  /\ release_proc_pages(cur)
  /\ cur' = p
  /\ tlb' = NoTlb
  /\ UNCHANGED <<mem, l2, pte, image, brk, op, written>>

\* do_waitpid(): the tables of the dead process, L1 included.
Reap(c) ==
  /\ InUser
  /\ mode[c] = "zombie"
  /\ reset_l1pgtable(c)
  /\ mode' = [mode EXCEPT ![c] = "reaped"]
  /\ UNCHANGED <<free, refcount, mem, pageList, image, brk, cur, op, written>>

\* Addition of two ints: wraps.
PlusInt(a, b) ==
  LET half == IntRange \div 2
  IN ((a + b + half) % IntRange) - half

\* Mutant: the program break may reach the end of the heap.
FitsWithEnd(size) == size <= HeapPages /\ size >= 0

\* do_sbrk() accepts the new size of the heap.
Fits(size) == ~(size >= HeapPages \/ size < 0)

Sbrk(increment) ==
  /\ InUser
  /\ image[cur] # 0
  /\ Fits(PlusInt(brk[cur], increment))
  /\ brk' = [brk EXCEPT ![cur] = PlusInt(@, increment)]
  /\ UNCHANGED <<free, refcount, mem, mode, pageList, l2, pte, image, cur, tlb,
                 op, written>>

Next ==
  \/ \E v \in StorePages : Store(v)
  \/ \E p \in Pid : Switch(p) \/ ForkStart(p) \/ Exit(p) \/ Reap(p)
  \/ \E f \in Frame : ForkPage(f) \/ ExecPage(f)
  \/ \E n \in ImageSizes : ExecStart(n)
  \/ \E increment \in Increments : Sbrk(increment)
  \/ ForkSkip \/ ForkEnd \/ ExecEnd \/ OutOfFrames

Spec == Init /\ [][Next]_vars

-----------------------------------------------------------------------------
(* Properties *)

\* Reference counting: a frame is free exactly when no process lists it, and
\* its count is the number of processes that do.
FramesCounted ==
  \A f \in Frame :
    /\ refcount[f] = Cardinality({p \in Pid : f \in pageList[p]})
    /\ f \in free <=> refcount[f] = 0

\* A live process maps only frames it owns, each at one page: nobody writes
\* to the memory of another, or to a frame on the free list.
Isolated ==
  \A p \in Pid : mode[p] = "live" =>
    \A v \in UserPage : pte[p][v] # None =>
      /\ pte[p][v] \in pageList[p]
      /\ \A q \in Pid, w \in UserPage :
           mode[q] = "live" /\ pte[q][w] = pte[p][v] => q = p /\ w = v

\* The TLB holds no translation the running process no longer has.
TlbCurrent ==
  InUser => \A v \in Page : tlb[v] # None => tlb[v] = pte[cur][v]

\* Every program finds in its memory what it wrote there, or what its parent
\* had there at the fork, whatever the others did since.
MemoryAsWritten ==
  \A p \in Pid : mode[p] = "live" /\ (InUser \/ p # cur) =>
    \A v \in UserPage : pte[p][v] # None => mem[pte[p][v]] = written[p][v]

\* The L1 entries are those of the mapped pages, in a zombie too.
TablesMatch ==
  \A p \in Pid : mode[p] \in {"live", "zombie"} =>
    l2[p] = {v \div L2Entries : v \in {w \in Page : pte[p][w] # None}}

\* What the CPU translates with is what the process maps, across fork, exec,
\* switches and exit: it holds no translation gone from the page table, and
\* no L2 page table is kept without an entry or used after it was freed.
TranslationsSound == TlbCurrent /\ TablesMatch

\* The heap up to the program break is mapped.
HeapMapped ==
  InUser => \A p \in Pid : mode[p] = "live" /\ image[p] # 0 =>
    \A i \in 0..brk[p] : pte[p][HeapBase(image[p]) + i] # None

\* Each frame of a program is at a page, and there are as many as it asked for.
AreasApart ==
  InUser => \A p \in Pid : mode[p] = "live" /\ image[p] # 0 =>
    Cardinality(pageList[p]) = ProgramPages(image[p])
      /\ \A f \in pageList[p] : \E v \in UserPage : pte[p][v] = f

\* A program can use its heap up to the break, whatever the calls of sbrk()
\* before, overflows included, and heap, image, stack and arguments do not
\* run into each other.
HeapSound == HeapMapped /\ AreasApart

=============================================================================
