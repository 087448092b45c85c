------------------------------- MODULE MemSim -------------------------------
(***************************************************************************)
(* The memory simulator (lab06/usr/src/memsim.c): a page table of 16-bit   *)
(* entries over an array of pages, read and written a byte at a time, with *)
(* access rights in the low bits of an entry when they are compiled in.    *)
(*                                                                         *)
(* main() runs one of two tests; "ADD your code here" behind them is any   *)
(* sequence of accesses.  The sizes are parameters: in the code addresses  *)
(* have 8|8 or 6|10 bits, bytes have 8.  An address is an int, wider than  *)
(* the 16 bits virt_to_pte() takes.  print_page() only reads.              *)
(***************************************************************************)
EXTENDS Integers

CONSTANTS
  MEMORY_PAGE_NUM,   \* the number of pages, and of frames
  MEMORY_PAGE_SIZE,  \* bytes of a page; a shift by SHIFT_RIGHT divides by it
  ByteRange,         \* the number of values of uint8_t
  ReadOnly,          \* the pages init_page_table() makes read-only: 10 to 12
  Invalid,           \* the pages it makes invalid: 5 to 8
  MaxStores          \* bound: stores after the tests

Page   == 0..(MEMORY_PAGE_NUM - 1)
Offset == 0..(MEMORY_PAGE_SIZE - 1)
Byte   == 0..(ByteRange - 1)

\* uint16_t vaddr
Address == 0..(MEMORY_PAGE_NUM * MEMORY_PAGE_SIZE - 1)

\* bound: one of the bits of an int above the 16 that are used
WideAddress == 0..(2 * MEMORY_PAGE_NUM * MEMORY_PAGE_SIZE - 1)

\* The attributes need three bits below the page number; the sizes of the
\* code are powers of two.
ASSUME SizeAssumption ==
  /\ MEMORY_PAGE_NUM \in Nat \ {0}
  /\ MEMORY_PAGE_SIZE \in Nat \ {0} /\ MEMORY_PAGE_SIZE % 8 = 0
  /\ ByteRange \in Nat /\ ByteRange > 1
ASSUME PagesAssumption == ReadOnly \subseteq Page /\ Invalid \subseteq Page \ ReadOnly

VARIABLES
  attributes,  \* MEMORY_PTE_ATTRIBUTES_ACTIVE
  page_table,  \* an entry for each page
  main_mem,    \* a byte for each frame and offset
  pc,          \* "fill", "test", "test2", or "debug": the code to be added
  step,        \* the loop variables of main() or of a test, as an address
  failed,      \* the test has reported an error
  stores,      \* stores made after the tests
  answer       \* of the last access: return code and byte

vars == <<attributes, page_table, main_mem, pc, step, failed, stores, answer>>

-----------------------------------------------------------------------------
(* Page table entries *)

RWX_PATTERN == 0
R_PATTERN   == 1
W_PATTERN   == 2
X_PATTERN   == 3

\* Mutant: pages in pairs on one frame, which the test does not notice.
PairedFrame(i) == (MEMORY_PAGE_NUM - 1) - 2 * (i \div 2)

\* The virtual pages are the frames in the opposite order.
FrameOf(i) == (MEMORY_PAGE_NUM - 1) - i

Attributes(i) ==
  (IF i \in ReadOnly THEN 2 * R_PATTERN ELSE 0) + (IF i \in Invalid THEN 0 ELSE 1)

init_page_table(active) ==
  [i \in Page |-> FrameOf(i) * MEMORY_PAGE_SIZE
                    + IF active THEN Attributes(i) ELSE 0]

Valid(pte)   == pte % 2 = 1
Pattern(pte) == (pte \div 2) % 4
Frame(pte)   == pte \div MEMORY_PAGE_SIZE

\* The test of get_byte() on an entry.
MayGet(pte) ==
  attributes => Valid(pte) /\ Pattern(pte) \in {RWX_PATTERN, R_PATTERN, X_PATTERN}

\* Mutant: the valid bit alone.
MayStoreIfValid(pte) == attributes => Valid(pte)

\* The test of store_byte() on an entry.
MayStore(pte) ==
  attributes => Valid(pte) /\ Pattern(pte) \in {RWX_PATTERN, W_PATTERN}

\* The argument of virt_to_pte() is a uint16_t: what does not fit is cut, and
\* the page number is never too large for its range check.
Cut(vaddr) == vaddr % (MEMORY_PAGE_NUM * MEMORY_PAGE_SIZE)
virt_to_pte(vaddr) == page_table[Cut(vaddr) \div MEMORY_PAGE_SIZE]
OffsetOf(vaddr) == vaddr % MEMORY_PAGE_SIZE

-----------------------------------------------------------------------------
(* Accesses *)

ByteAt(vaddr) == main_mem[Frame(virt_to_pte(vaddr))][OffsetOf(vaddr)]

get_byte(vaddr) ==
  IF MayGet(virt_to_pte(vaddr)) THEN [rc |-> 0, byte |-> ByteAt(vaddr)]
                                ELSE [rc |-> -1, byte |-> 0]

StoreCode(vaddr) == IF MayStore(virt_to_pte(vaddr)) THEN 0 ELSE -1

store_byte(vaddr, byte) ==
  /\ answer' = [rc |-> StoreCode(vaddr), byte |-> 0]
  /\ main_mem' =
       IF StoreCode(vaddr) = 0
       THEN [main_mem EXCEPT ![Frame(virt_to_pte(vaddr))][OffsetOf(vaddr)] = byte]
       ELSE main_mem

Init ==
  /\ attributes \in BOOLEAN
  /\ page_table = init_page_table(attributes)
  /\ main_mem = [f \in Page |-> [o \in Offset |-> 0]]
  /\ pc = IF attributes THEN "test2" ELSE "fill"
  /\ step = 0
  /\ failed = FALSE
  /\ stores = 0
  /\ answer = [rc |-> 0, byte |-> 0]

\* The end of a loop over all addresses, or its next turn.
Turn(next) ==
  IF step + 1 \in Address THEN step' = step + 1 /\ pc' = pc
                          ELSE step' = 0 /\ pc' = next

\* main(), without attributes: "Puts data into memory".
Fill ==
  /\ pc = "fill"
  /\ store_byte(step, step % ByteRange)
  /\ Turn("test")
  /\ UNCHANGED <<attributes, page_table, failed, stores>>

\* A failed test returns at once.
Fails == failed' = TRUE /\ pc' = "debug" /\ step' = 0

\* test_mem(): reads everything back, and counts the bytes that differ.
TestMem ==
  LET got == get_byte(step) IN
  /\ pc = "test"
  /\ answer' = got
  /\ IF got.rc < 0 THEN Fails
     ELSE /\ failed' = (failed \/ got.byte # step % ByteRange)
          /\ Turn("debug")
  /\ UNCHANGED <<attributes, page_table, main_mem, stores>>

\* What test_mem_2() expects of the store on page i.
Expected(i) == IF i \in ReadOnly THEN -1 ELSE 0

\* test_mem_2(): the turn j on page i, with the attributes.
TestMem2 ==
  LET i == step \div MEMORY_PAGE_SIZE
      j == step % MEMORY_PAGE_SIZE
      vaddr == i * MEMORY_PAGE_SIZE + ((8 * j) % MEMORY_PAGE_SIZE)
      got == get_byte(vaddr)
      stops == i \in Invalid \/ got.rc < 0 IN
  /\ pc = "test2"
  /\ IF stops THEN answer' = got /\ main_mem' = main_mem
              ELSE store_byte(vaddr, 1)
  /\ IF \/ i \in Invalid /\ got.rc # -1
        \/ i \notin Invalid /\ (got.rc < 0 \/ StoreCode(vaddr) # Expected(i))
     THEN Fails
     ELSE failed' = failed /\ Turn("debug")
  /\ UNCHANGED <<attributes, page_table, stores>>

Get(vaddr) ==
  /\ pc = "debug"
  /\ answer' = get_byte(vaddr)
  /\ UNCHANGED <<attributes, page_table, main_mem, pc, step, failed, stores>>

Store(vaddr, byte) ==
  /\ pc = "debug"
  /\ stores < MaxStores
  /\ store_byte(vaddr, byte)
  /\ stores' = stores + 1
  /\ UNCHANGED <<attributes, page_table, pc, step, failed>>

Next ==
  \/ Fill \/ TestMem \/ TestMem2
  \/ \E vaddr \in WideAddress : Get(vaddr) \/ \E byte \in Byte : Store(vaddr, byte)

Spec == Init /\ [][Next]_vars

-----------------------------------------------------------------------------
(* Properties *)

\* The tests of main(), test_mem() and test_mem_2(), report success.
SelfTestsPass == ~failed

M == INSTANCE FlatMemory WITH
       content <- [a \in Address |-> ByteAt(a)],
       readable <- {a \in Address : MayGet(virt_to_pte(a))},
       writable <- {a \in Address : MayStore(virt_to_pte(a))}

\* Through the page table the simulator is a flat memory of 16-bit addresses:
\* a byte read is the last one stored at that address, no store shows at
\* another, and a refused access changes nothing.  The tests cannot tell
\* this: they store the same bytes in every page.  Above 16 bits an address
\* is the one its low bits give, and no error.
ImplementsFlatMemory == M!FlatSpec

=============================================================================
