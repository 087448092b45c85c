---------------------------- MODULE MemSimProofs ----------------------------
(***************************************************************************)
(* Proofs about MemSim.tla, for any number of pages, any size of a page    *)
(* that leaves the attributes room and any pages with attributes.          *)
(*                                                                         *)
(* They are about arithmetic: quotient and remainder make an address a     *)
(* page and an offset (AddressApart), the shifts of init_page_table() and  *)
(* get_byte() undo each other although the attributes are in between       *)
(* (EntryDoes), and no two pages have the same frame (FramesApart).  So a  *)
(* store reaches one address and no other (StoreReaches), which is what a  *)
(* flat memory promises; the self tests of main() need in addition how     *)
(* much of the memory has been filled (TestInv).                           *)
(***************************************************************************)
EXTENDS MemSim, TLAPS

-----------------------------------------------------------------------------
(* Division *)

\* Division by a positive number.
LEMMA Divided ==
  ASSUME NEW a \in Int, NEW b \in Int, b > 0
  PROVE  /\ a = b * (a \div b) + (a % b) /\ a \div b \in Int
         /\ a % b \in 0..(b - 1)
OBVIOUS

\* Two numbers whose quotients differ are a divisor apart.
LEMMA ProductGrows ==
  ASSUME NEW d \in Int, NEW b \in Int, b > 0, d > 0 PROVE b * d >= b
OBVIOUS

\* Quotient and remainder are the only ones.
LEMMA DividedOnce ==
  ASSUME NEW b \in Int, b > 0, NEW q \in Int, NEW r \in 0..(b - 1)
  PROVE  (b * q + r) \div b = q /\ (b * q + r) % b = r
<1> DEFINE a == b * q + r
           x == a \div b
           y == a % b
<1>1. a \in Int
  OBVIOUS
<1>2. a = b * x + y /\ x \in Int /\ y \in 0..(b - 1)
  BY <1>1, Divided
<1>3. a = b * q + r
  OBVIOUS
<1> HIDE DEF a, x, y
<1>4. b * (q - x) = y - r /\ b * (x - q) = r - y
  BY <1>2, <1>3
<1>5. q - x \in Int /\ x - q \in Int
  BY <1>2
<1>6. ~(q - x > 0)
  <2>1. q - x > 0 => b * (q - x) >= b
    BY <1>5, ProductGrows
  <2> QED
    BY <1>2, <1>4, <2>1
<1>7. ~(x - q > 0)
  <2>1. x - q > 0 => b * (x - q) >= b
    BY <1>5, ProductGrows
  <2> QED
    BY <1>2, <1>4, <2>1
<1>8. x = q
  BY <1>2, <1>5, <1>6, <1>7
<1>9. y = r
  BY <1>2, <1>3, <1>8
<1> QED
  BY <1>8, <1>9 DEF a, x, y

\* The bounds of a quotient.
LEMMA QuotientBound ==
  ASSUME NEW a \in Nat, NEW b \in Int, b > 0, NEW c \in Nat, a < c * b
  PROVE  a \div b \in 0..(c - 1)
<1> DEFINE q == a \div b
           r == a % b
<1>1. a = b * q + r /\ q \in Int /\ r \in 0..(b - 1)
  BY Divided
<1> HIDE DEF q, r
<1>2. q >= 0
  <2>1. -q > 0 => b * (-q) >= b
    BY <1>1, ProductGrows
  <2>2. b * (-q) = -(b * q)
    BY <1>1
  <2> QED
    BY <1>1, <2>1, <2>2
<1>3. q < c
  <2>1. SUFFICES ASSUME q >= c PROVE FALSE
    BY <1>1
  <2>2. b * q >= b * c
    <3>1. q - c > 0 => b * (q - c) >= b
      BY <1>1, ProductGrows
    <3>2. b * (q - c) = b * q - b * c
      BY <1>1
    <3>3. q = c => b * q = b * c
      OBVIOUS
    <3> QED
      BY <1>1, <2>1, <3>1, <3>2, <3>3
  <2>3. c * b = b * c
    OBVIOUS
  <2> QED
    BY <1>1, <2>2, <2>3
<1> QED
  BY <1>1, <1>2, <1>3 DEF q

-----------------------------------------------------------------------------
(* Addresses *)

\* The types of the sizes; neither the memory nor a byte is empty.
LEMMA SizeTypes ==
  /\ MEMORY_PAGE_NUM \in Int /\ MEMORY_PAGE_NUM > 0
  /\ MEMORY_PAGE_SIZE \in Int /\ MEMORY_PAGE_SIZE > 0
  /\ MEMORY_PAGE_NUM * MEMORY_PAGE_SIZE \in Nat
  /\ MEMORY_PAGE_NUM * MEMORY_PAGE_SIZE > 0
  /\ 0 \in Address /\ 0 \in Byte /\ 1 \in Byte /\ ByteRange > 0 /\ ByteRange \in Int
<1>1. /\ MEMORY_PAGE_NUM \in Int /\ MEMORY_PAGE_NUM > 0
      /\ MEMORY_PAGE_SIZE \in Int /\ MEMORY_PAGE_SIZE > 0
      /\ ByteRange > 1 /\ ByteRange \in Int
  BY SizeAssumption
<1>2. MEMORY_PAGE_NUM * MEMORY_PAGE_SIZE >= MEMORY_PAGE_NUM
  BY <1>1, ProductGrows
<1>3. MEMORY_PAGE_NUM * MEMORY_PAGE_SIZE \in Int
  BY <1>1
<1> DEFINE all == MEMORY_PAGE_NUM * MEMORY_PAGE_SIZE
<1>4. all \in Nat /\ all > 0 /\ 0 \in 0..(all - 1)
  <2> HIDE DEF all
  <2> SUFFICES all \in Int /\ all >= MEMORY_PAGE_NUM
    BY <1>1
  <2> QED
    BY <1>2, <1>3 DEF all
<1> QED
  BY <1>1, <1>4 DEF Address, Byte

\* virt_to_pte() finds an entry for every address, however wide.
LEMMA CutType ==
  ASSUME NEW a \in Nat
  PROVE  /\ Cut(a) \in Address
         /\ Cut(a) \div MEMORY_PAGE_SIZE \in Page
         /\ OffsetOf(a) \in Offset
<1> DEFINE all == MEMORY_PAGE_NUM * MEMORY_PAGE_SIZE
           r == a % all
<1>1. all \in Int /\ all > 0
  BY SizeTypes
<1>2. r \in 0..(all - 1)
  <2> HIDE DEF all
  <2> QED
    BY <1>1, Divided DEF r
<1>3. r \in Nat /\ r < all
  <2> HIDE DEF all, r
  <2> QED
    BY <1>1, <1>2
<1>4. r \div MEMORY_PAGE_SIZE \in 0..(MEMORY_PAGE_NUM - 1)
  <2> HIDE DEF r
  <2> QED
    BY <1>3, SizeTypes, QuotientBound
<1>5. a % MEMORY_PAGE_SIZE \in 0..(MEMORY_PAGE_SIZE - 1)
  BY SizeTypes, Divided
<1> QED
  BY <1>2, <1>4, <1>5 DEF Cut, Address, Page, OffsetOf, Offset

\* Nothing is cut off an address that fits.
LEMMA CutAddress == ASSUME NEW a \in Address PROVE Cut(a) = a /\ a \in Nat
<1> DEFINE all == MEMORY_PAGE_NUM * MEMORY_PAGE_SIZE
<1>1. all \in Int /\ all > 0 /\ a \in 0..(all - 1)
  BY SizeTypes DEF Address
<1>2. a % all = a
  <2> HIDE DEF all
  <2>1. (all * 0 + a) % all = a
    BY <1>1, DividedOnce
  <2>2. all * 0 + a = a
    BY <1>1
  <2> QED
    BY <2>1, <2>2
<1> QED
  BY <1>1, <1>2 DEF Cut

\* What is cut off an address is a number of whole pages.
LEMMA CutOffset == ASSUME NEW a \in Nat PROVE OffsetOf(Cut(a)) = OffsetOf(a)
<1> DEFINE n == MEMORY_PAGE_NUM
           s == MEMORY_PAGE_SIZE
           r == a % (n * s)
           q == a \div (n * s)
           x == r \div s
           y == r % s
<1>1. n * s \in Int /\ n * s > 0 /\ n \in Int /\ s \in Int /\ s > 0
  BY SizeTypes
<1>2. a = (n * s) * q + r /\ q \in Int /\ r \in Int
  <2> DEFINE all == n * s
  <2> HIDE DEF all
  <2>1. all \in Int /\ all > 0
    BY <1>1 DEF all
  <2>2. a = all * (a \div all) + (a % all) /\ a \div all \in Int /\ a % all \in 0..(all - 1)
    BY <2>1, Divided
  <2>3. a % all \in Int
    BY <2>1, <2>2
  <2> QED
    BY <2>2, <2>3 DEF all
<1> HIDE DEF r, q
<1>3. r = s * x + y /\ x \in Int /\ y \in 0..(s - 1)
  <2> HIDE DEF s
  <2> QED
    BY <1>1, <1>2, Divided
<1> HIDE DEF x, y, n, s
<1>4. a = s * (n * q + x) + y
  BY <1>1, <1>2, <1>3
<1>5. n * q + x \in Int
  BY <1>1, <1>2, <1>3
<1>6. a % s = y
  BY <1>1, <1>3, <1>4, <1>5, DividedOnce
<1> QED
  BY <1>6 DEF OffsetOf, Cut, n, s, y, r

\* An address is its page and its offset.
LEMMA AddressApart ==
  ASSUME NEW a \in Address, NEW b \in Address,
         a \div MEMORY_PAGE_SIZE = b \div MEMORY_PAGE_SIZE, OffsetOf(a) = OffsetOf(b)
  PROVE  a = b
<1>1. a \in Int /\ b \in Int
  BY CutAddress
<1> DEFINE s == MEMORY_PAGE_SIZE
<1>2. s \in Int /\ s > 0
  BY SizeTypes
<1> HIDE DEF s
<1>3. a = s * (a \div s) + (a % s) /\ b = s * (b \div s) + (b % s)
  BY <1>1, <1>2, Divided
<1>4. a \div s = b \div s /\ a % s = b % s
  BY DEF s, OffsetOf
<1> QED
  BY <1>3, <1>4

-----------------------------------------------------------------------------
(* Page table entries *)

\* The attributes are below the page number, which a shift gives back; pages
\* are aligned so that the attributes can be read from their bits.
LEMMA EntryDoes ==
  ASSUME NEW active \in BOOLEAN, NEW i \in Page
  PROVE  LET pte == init_page_table(active)[i]
         IN /\ Frame(pte) = FrameOf(i) /\ FrameOf(i) \in Page
            /\ active => /\ Valid(pte) <=> i \notin Invalid
                         /\ Pattern(pte) = IF i \in ReadOnly THEN R_PATTERN ELSE RWX_PATTERN
<1> DEFINE s == MEMORY_PAGE_SIZE
           k == s \div 8
           r == IF active THEN Attributes(i) ELSE 0
           pte == init_page_table(active)[i]
<1>1. s \in Int /\ s > 0 /\ s % 8 = 0
  BY SizeAssumption
<1>2. s = 8 * k /\ k \in Int /\ k > 0
  <2> HIDE DEF s
  <2> QED
    BY <1>1
<1>3. FrameOf(i) \in Page /\ FrameOf(i) \in Int
  BY SizeAssumption DEF FrameOf, Page
<1>4. r \in 0..3 /\ (active => r = Attributes(i))
  BY DEF Attributes, R_PATTERN
<1> DEFINE f == FrameOf(i)
<1>5. pte = f * s + r
  BY DEF init_page_table
<1> HIDE DEF s, r, pte, f, k
<1>6. f \in Int
  BY <1>3 DEF f
<1>7. f * s = s * f /\ f * s = 8 * (k * f) /\ k * f \in Int
  BY <1>2, <1>6
<1>8. pte \div s = f
  <2>1. r \in 0..(s - 1)
    BY <1>1, <1>2, <1>4
  <2>2. pte = s * f + r
    BY <1>5, <1>7
  <2> QED
    BY <1>1, <1>6, <2>1, <2>2, DividedOnce
<1> DEFINE g == k * f
<1>9. pte = 8 * g + r /\ g \in Int
  BY <1>5, <1>7
<1> HIDE DEF g
<1>10. pte % 2 = r % 2 /\ (pte \div 2) % 4 = r \div 2
  BY <1>4, <1>9
<1>11. active => /\ r % 2 = 1 <=> i \notin Invalid
                 /\ r \div 2 = IF i \in ReadOnly THEN R_PATTERN ELSE RWX_PATTERN
  <2>1. i \in ReadOnly => i \notin Invalid
    BY PagesAssumption
  <2> QED
    BY <1>4, <2>1 DEF Attributes, R_PATTERN, RWX_PATTERN
<1> QED
  BY <1>3, <1>8, <1>10, <1>11 DEF pte, s, f, Frame, Valid, Pattern

\* Two pages never share a frame.
LEMMA FramesApart ==
  ASSUME NEW i \in Page, NEW j \in Page, FrameOf(i) = FrameOf(j) PROVE i = j
BY SizeAssumption DEF FrameOf, Page

-----------------------------------------------------------------------------
(* Accesses *)

MemType ==
  /\ attributes \in BOOLEAN
  /\ page_table = init_page_table(attributes)
  /\ main_mem \in [Page -> [Offset -> Byte]]

PageOf(a) == Cut(a) \div MEMORY_PAGE_SIZE

\* What an access finds in the page table: the frame of the page, and the
\* rights its attributes give.
LEMMA Translates ==
  ASSUME MemType, NEW a \in Nat
  PROVE  /\ PageOf(a) \in Page /\ FrameOf(PageOf(a)) \in Page /\ OffsetOf(a) \in Offset
         /\ ByteAt(a) = main_mem[FrameOf(PageOf(a))][OffsetOf(a)]
         /\ Frame(virt_to_pte(a)) = FrameOf(PageOf(a))
         /\ MayGet(virt_to_pte(a)) <=> (attributes => PageOf(a) \notin Invalid)
         /\ MayStore(virt_to_pte(a)) <=>
              (attributes => PageOf(a) \notin Invalid /\ PageOf(a) \notin ReadOnly)
<1>1. PageOf(a) \in Page /\ OffsetOf(a) \in Offset
  BY CutType DEF PageOf
<1>2. PICK i \in Page : i = PageOf(a)
  BY <1>1
<1>3. virt_to_pte(a) = init_page_table(attributes)[i]
  BY <1>2 DEF MemType, virt_to_pte, PageOf
<1>4. attributes \in BOOLEAN
  BY DEF MemType
<1> DEFINE pte == virt_to_pte(a)
<1>5. /\ Frame(pte) = FrameOf(i) /\ FrameOf(i) \in Page
      /\ attributes => /\ Valid(pte) <=> i \notin Invalid
                       /\ Pattern(pte) = IF i \in ReadOnly THEN R_PATTERN ELSE RWX_PATTERN
  BY <1>3, <1>4, EntryDoes
<1>6. MayGet(pte) <=> (attributes => i \notin Invalid)
  BY <1>4, <1>5 DEF MayGet
<1>7. MayStore(pte) <=> (attributes => i \notin Invalid /\ i \notin ReadOnly)
  BY <1>4, <1>5 DEF MayStore, R_PATTERN, RWX_PATTERN, W_PATTERN
<1> QED
  BY <1>1, <1>2, <1>5, <1>6, <1>7 DEF ByteAt

\* An address and the one its low bits give are the same to every access.
LEMMA CutSame ==
  ASSUME NEW a \in Nat
  PROVE  /\ Cut(a) \in Address
         /\ virt_to_pte(Cut(a)) = virt_to_pte(a)
         /\ ByteAt(Cut(a)) = ByteAt(a)
<1>1. Cut(a) \in Address
  BY CutType
<1>2. Cut(Cut(a)) = Cut(a)
  BY <1>1, CutAddress
<1> QED
  BY <1>1, <1>2, CutOffset DEF virt_to_pte, ByteAt

\* A store reaches the byte of its address and no other.
LEMMA StoreReaches ==
  ASSUME MemType, NEW a \in Nat, NEW byte \in Byte, store_byte(a, byte),
         UNCHANGED <<attributes, page_table>>
  PROVE  /\ MemType'
         /\ \A c \in Address :
              ByteAt(c)' = IF MayStore(virt_to_pte(a)) /\ c = Cut(a)
                           THEN byte ELSE ByteAt(c)
<1> DEFINE stores1 == MayStore(virt_to_pte(a))
<1>1. PICK f \in Page, o \in Offset :
        f = Frame(virt_to_pte(a)) /\ f = FrameOf(PageOf(a)) /\ o = OffsetOf(a)
  BY Translates
<1>2. main_mem' = IF stores1 THEN [main_mem EXCEPT ![f][o] = byte] ELSE main_mem
  BY <1>1 DEF store_byte, StoreCode
<1>3. main_mem' \in [Page -> [Offset -> Byte]]
  BY <1>1, <1>2 DEF MemType
<1>4. MemType'
  BY <1>3 DEF MemType
<1>5. \A g \in Page, p \in Offset :
        main_mem'[g][p] = IF stores1 /\ g = f /\ p = o THEN byte ELSE main_mem[g][p]
  BY <1>1, <1>2 DEF MemType
<1> HIDE DEF stores1
<1>6. ASSUME NEW c \in Address
      PROVE  ByteAt(c)' = IF stores1 /\ c = Cut(a) THEN byte ELSE ByteAt(c)
  <2>1. c \in Nat /\ Cut(c) = c
    BY CutAddress
  <2>2. PICK g \in Page, p \in Offset :
          /\ g = FrameOf(PageOf(c)) /\ p = OffsetOf(c)
          /\ ByteAt(c) = main_mem[g][p]
          /\ Frame(virt_to_pte(c)) = g
    BY <2>1, Translates
  <2>3. ByteAt(c)' = main_mem'[g][p]
    BY <2>2 DEF ByteAt, virt_to_pte
  <2>4. g = f /\ p = o => c = Cut(a)
    <3> SUFFICES ASSUME g = f, p = o PROVE c = Cut(a)
      OBVIOUS
    <3>1. PageOf(c) = PageOf(a)
      <4>1. PageOf(c) \in Page /\ PageOf(a) \in Page
        BY <2>1, CutType DEF PageOf
      <4> QED
        BY <1>1, <2>2, <4>1, FramesApart
    <3>2. c \div MEMORY_PAGE_SIZE = Cut(a) \div MEMORY_PAGE_SIZE
      BY <2>1, <3>1 DEF PageOf
    <3>3. OffsetOf(c) = OffsetOf(Cut(a))
      BY <1>1, <2>2, CutOffset
    <3> QED
      BY <3>2, <3>3, CutType, AddressApart
  <2>5. c = Cut(a) => g = f /\ p = o
    BY <1>1, <2>1, <2>2, CutOffset DEF PageOf
  <2> QED
    BY <1>5, <2>2, <2>3, <2>4, <2>5
<1> QED
  BY <1>4, <1>6 DEF stores1

-----------------------------------------------------------------------------
(* The flat memory *)

\* get_byte() is a load of the flat memory.
LEMMA LoadIsFlat ==
  ASSUME NEW a \in Nat, answer' = get_byte(a),
         UNCHANGED <<attributes, page_table, main_mem>>
  PROVE  M!Load(Cut(a))
<1> USE CutSame DEF get_byte
<1>1. answer' = IF Cut(a) \in {c \in Address : MayGet(virt_to_pte(c))}
                THEN [rc |-> 0, byte |-> [c \in Address |-> ByteAt(c)][Cut(a)]]
                ELSE [rc |-> -1, byte |-> 0]
  OBVIOUS
<1>2. UNCHANGED [c \in Address |-> ByteAt(c)]
  BY DEF ByteAt, virt_to_pte
<1>3. UNCHANGED <<{c \in Address : MayGet(virt_to_pte(c))},
                  {c \in Address : MayStore(virt_to_pte(c))}>>
  BY DEF MayGet, MayStore, virt_to_pte
<1> QED
  BY <1>1, <1>2, <1>3 DEF M!Load

\* store_byte() is a store of the flat memory.
LEMMA StoreIsFlat ==
  ASSUME MemType, NEW a \in Nat, NEW byte \in Byte, store_byte(a, byte),
         UNCHANGED <<attributes, page_table>>
  PROVE  M!Store(Cut(a), byte)
<1> DEFINE content == [c \in Address |-> ByteAt(c)]
           writable == {c \in Address : MayStore(virt_to_pte(c))}
           stores1 == MayStore(virt_to_pte(a))
<1>1. Cut(a) \in Address /\ (stores1 <=> Cut(a) \in writable)
  BY CutSame
<1>2. answer' = [rc |-> IF Cut(a) \in writable THEN 0 ELSE -1, byte |-> 0]
  BY <1>1 DEF store_byte, StoreCode
<1>3. \A c \in Address :
        ByteAt(c)' = IF stores1 /\ c = Cut(a) THEN byte ELSE ByteAt(c)
  BY StoreReaches
<1> HIDE DEF stores1
<1>4. content' = IF stores1 THEN [content EXCEPT ![Cut(a)] = byte] ELSE content
  <2>1. content' = [c \in Address |-> ByteAt(c)']
    OBVIOUS
  <2>2. CASE stores1
    BY <1>1, <1>3, <2>1, <2>2
  <2>3. CASE ~stores1
    BY <1>3, <2>1, <2>3
  <2> QED
    BY <2>2, <2>3
<1>5. UNCHANGED <<{c \in Address : MayGet(virt_to_pte(c))}, writable>>
  BY DEF MayGet, MayStore, virt_to_pte
<1>6. content' = IF Cut(a) \in writable THEN [content EXCEPT ![Cut(a)] = byte]
                                        ELSE content
  BY <1>1, <1>4
<1> QED
  BY <1>2, <1>5, <1>6 DEF M!Store

-----------------------------------------------------------------------------
(* The self tests *)

\* The tests find what main() has put into the memory.
TestInv ==
  /\ failed = FALSE /\ step \in Address
  /\ pc \in {"fill", "test"} => ~attributes
  /\ pc = "test2" => attributes
  /\ pc = "fill" => \A a \in Address : a < step => ByteAt(a) = a % ByteRange
  /\ pc = "test" => \A a \in Address : ByteAt(a) = a % ByteRange

SimInv == MemType /\ TestInv

\* The byte main() stores and test_mem() expects.
LEMMA LowBits == ASSUME NEW a \in Nat PROVE a % ByteRange \in Byte
BY SizeTypes, Divided DEF Byte

\* The turns of test_mem_2() stay on their page.
LEMMA TestAddress ==
  ASSUME NEW i \in Page, NEW r \in Offset
  PROVE  /\ i * MEMORY_PAGE_SIZE + r \in Address
         /\ PageOf(i * MEMORY_PAGE_SIZE + r) = i
<1> DEFINE n == MEMORY_PAGE_NUM
           s == MEMORY_PAGE_SIZE
           a == i * s + r
<1>1. n \in Int /\ n > 0 /\ s \in Int /\ s > 0 /\ i \in 0..(n - 1) /\ r \in 0..(s - 1)
  BY SizeTypes DEF Page, Offset
<1> HIDE DEF n, s
<1>2. a = s * i + r /\ a \in Int
  BY <1>1
<1>3. a >= 0
  <2>1. i > 0 => s * i >= s
    BY <1>1, ProductGrows
  <2>2. i = 0 => s * i = 0
    BY <1>1
  <2> QED
    BY <1>1, <1>2, <2>1, <2>2
<1>4. a <= n * s - 1
  <2>1. s * (n - i) >= s
    BY <1>1, ProductGrows
  <2>2. s * (n - i) = n * s - s * i
    BY <1>1
  <2> QED
    BY <1>1, <1>2, <2>1, <2>2
<1>5. a \div s = i
  BY <1>1, <1>2, DividedOnce
<1>6. a \in 0..(n * s - 1)
  <2>1. n * s \in Int
    BY <1>1
  <2> QED
    BY <1>2, <1>3, <1>4, <2>1
<1>7. a \in Address
  BY <1>6 DEF Address, n, s
<1> HIDE DEF a
<1>8. Cut(a) = a
  BY <1>7, CutAddress
<1> QED
  BY <1>5, <1>7, <1>8 DEF PageOf, a, s

\* What a turn of test_mem_2() works on.
LEMMA TestTurn ==
  ASSUME MemType, NEW i \in Page, NEW r \in Offset
  PROVE  LET vaddr == i * MEMORY_PAGE_SIZE + r
         IN /\ vaddr \in Nat /\ vaddr \in Address
            /\ attributes => /\ get_byte(vaddr).rc = IF i \in Invalid THEN -1 ELSE 0
                             /\ i \notin Invalid => StoreCode(vaddr) = Expected(i)
<1> DEFINE vaddr == i * MEMORY_PAGE_SIZE + r
<1>1. vaddr \in Address /\ PageOf(vaddr) = i
  BY TestAddress
<1>2. vaddr \in Nat
  BY <1>1, CutAddress
<1> HIDE DEF vaddr
<1>3. attributes => /\ MayGet(virt_to_pte(vaddr)) <=> i \notin Invalid
                    /\ MayStore(virt_to_pte(vaddr)) <=> i \notin Invalid /\ i \notin ReadOnly
  BY <1>1, <1>2, Translates
<1>4. attributes => get_byte(vaddr).rc = IF i \in Invalid THEN -1 ELSE 0
  BY <1>3 DEF get_byte
<1>5. attributes /\ i \notin Invalid => StoreCode(vaddr) = Expected(i)
  BY <1>3 DEF StoreCode, Expected
<1> QED
  BY <1>1, <1>2, <1>4, <1>5 DEF vaddr

\* A turn of test_mem_2() has a page and an offset.
LEMMA StepPage ==
  ASSUME NEW a \in Address
  PROVE  /\ a \div MEMORY_PAGE_SIZE \in Page
         /\ (8 * (a % MEMORY_PAGE_SIZE)) % MEMORY_PAGE_SIZE \in Offset
<1>1. Cut(a) = a /\ a \in Nat
  BY CutAddress
<1>2. a \div MEMORY_PAGE_SIZE \in Page
  BY <1>1, CutType
<1> DEFINE s == MEMORY_PAGE_SIZE
<1>3. s \in Int /\ s > 0
  BY SizeTypes
<1> HIDE DEF s
<1>4. a % s \in Int
  BY <1>1, <1>3, Divided
<1>5. 8 * (a % s) \in Int
  BY <1>4
<1>6. (8 * (a % s)) % s \in 0..(s - 1)
  BY <1>3, <1>5, Divided
<1> QED
  BY <1>2, <1>6 DEF s, Offset

\* The page table is set, and no test has begun.
LEMMA InitSimInv == Init => SimInv
<1> SUFFICES ASSUME Init PROVE SimInv
  OBVIOUS
<1>1. MemType
  BY SizeTypes DEF Init, MemType
<1>2. pc \in {"fill", "test2"} /\ (pc = "fill" <=> ~attributes) /\ step = 0 /\ failed = FALSE
  BY DEF Init
<1>3. \A a \in Address : ~(a < 0)
  BY CutAddress
<1>4. TestInv
  BY <1>2, <1>3, SizeTypes DEF TestInv
<1> QED
  BY <1>1, <1>4 DEF SimInv

\* The end of a loop: no address is left, or the next one is.
LEMMA TurnDoes ==
  ASSUME step \in Address, NEW next, Turn(next)
  PROVE  /\ step' \in Address
         /\ \/ pc' = pc /\ step' = step + 1
            \/ pc' = next /\ \A a \in Address : a < step + 1
BY SizeTypes DEF Turn, Address

\* A turn of the loop of main(): one more byte is what test_mem() expects.
LEMMA FillTests ==
  ASSUME SimInv, Fill PROVE SimInv'
<1> USE DEF SimInv, TestInv
<1>1. step \in Nat /\ Cut(step) = step /\ step \in Address
  BY CutAddress
<1>2. step % ByteRange \in Byte
  BY <1>1, LowBits
<1>3. pc = "fill" /\ ~attributes /\ store_byte(step, step % ByteRange) /\ Turn("test")
      /\ UNCHANGED <<attributes, page_table, failed>>
  BY DEF Fill
<1>4. MayStore(virt_to_pte(step))
  BY <1>3 DEF MayStore
<1>5. /\ MemType'
      /\ \A a \in Address : ByteAt(a)' = IF a = step THEN step % ByteRange ELSE ByteAt(a)
  BY <1>1, <1>2, <1>3, <1>4, StoreReaches
<1>6. \A a \in Address : a < step + 1 => ByteAt(a)' = a % ByteRange
  <2>1. \A a \in Address : a < step + 1 => a = step \/ a < step
    BY <1>1, CutAddress
  <2> QED
    BY <1>3, <1>5, <2>1
<1>7. /\ step' \in Address
      /\ \/ pc' = "fill" /\ step' = step + 1
         \/ pc' = "test" /\ \A a \in Address : a < step + 1
  BY <1>1, <1>3, TurnDoes
<1>8. TestInv'
  BY <1>3, <1>6, <1>7
<1> QED
  BY <1>5, <1>8

\* A turn of test_mem() finds what main() stored.
LEMMA TestMemTests ==
  ASSUME SimInv, TestMem PROVE SimInv'
<1> USE DEF SimInv, TestInv
<1>1. pc = "test" /\ ~attributes /\ UNCHANGED <<attributes, page_table, main_mem>>
  BY DEF TestMem
<1>2. get_byte(step).rc = 0 /\ get_byte(step).byte = step % ByteRange
  BY <1>1 DEF get_byte, MayGet
<1>3. failed' = FALSE /\ Turn("debug")
  <2>1. Turn("debug") /\ failed' = (failed \/ get_byte(step).byte # step % ByteRange)
    BY <1>2 DEF TestMem
  <2>2. failed = FALSE /\ ~(get_byte(step).byte # step % ByteRange)
    BY <1>2
  <2>3. (failed \/ get_byte(step).byte # step % ByteRange) = FALSE
    BY <2>2
  <2> QED
    BY <2>1, <2>3
<1>4. step' \in Address /\ pc' \in {"test", "debug"}
  BY <1>1, <1>3, TurnDoes
<1>5. \A a \in Address : ByteAt(a)' = ByteAt(a)
  BY <1>1 DEF ByteAt, virt_to_pte
<1>6. MemType'
  BY <1>1 DEF MemType
<1>7. TestInv'
  BY <1>1, <1>3, <1>4, <1>5
<1> QED
  BY <1>6, <1>7

\* A turn of test_mem_2(): it reads or stores at one address, and succeeds.
TestMem2Effect(vaddr) ==
  /\ \/ answer' = get_byte(vaddr) /\ main_mem' = main_mem
     \/ store_byte(vaddr, 1)
  /\ failed' = FALSE /\ Turn("debug")
  /\ UNCHANGED <<attributes, page_table>>

\* A turn of test_mem_2() gets the answers it expects.
LEMMA TestMem2Does ==
  ASSUME SimInv, TestMem2 PROVE \E vaddr \in Nat : TestMem2Effect(vaddr)
<1> USE DEF SimInv, TestInv
<1>1. pc = "test2" /\ attributes /\ step \in Address /\ MemType
  BY DEF TestMem2
<1>2. PICK i \in Page : i = step \div MEMORY_PAGE_SIZE
  BY <1>1, StepPage
<1>3. PICK r \in Offset : r = (8 * (step % MEMORY_PAGE_SIZE)) % MEMORY_PAGE_SIZE
  BY <1>1, StepPage
<1> DEFINE vaddr == i * MEMORY_PAGE_SIZE + r
           got == get_byte(vaddr)
           stops == i \in Invalid \/ got.rc < 0
<1>4. /\ IF stops THEN answer' = got /\ main_mem' = main_mem
                  ELSE store_byte(vaddr, 1)
      /\ IF \/ i \in Invalid /\ got.rc # -1
            \/ i \notin Invalid /\ (got.rc < 0 \/ StoreCode(vaddr) # Expected(i))
         THEN Fails
         ELSE failed' = failed /\ Turn("debug")
      /\ UNCHANGED <<attributes, page_table>>
  BY <1>2, <1>3 DEF TestMem2
<1>5. /\ vaddr \in Nat
      /\ got.rc = IF i \in Invalid THEN -1 ELSE 0
      /\ i \notin Invalid => StoreCode(vaddr) = Expected(i)
  BY <1>1, TestTurn
<1> HIDE DEF vaddr, got
<1>6. failed' = FALSE /\ Turn("debug")
  BY <1>4, <1>5
<1>7. \/ answer' = got /\ main_mem' = main_mem
      \/ store_byte(vaddr, 1)
  BY <1>4
<1>8. TestMem2Effect(vaddr)
  BY <1>4, <1>6, <1>7 DEF TestMem2Effect, got
<1> QED
  BY <1>5, <1>8

\* A turn of test_mem_2() keeps the invariant.
LEMMA TestMem2Tests ==
  ASSUME SimInv, TestMem2 PROVE SimInv'
<1> USE DEF SimInv
<1>1. PICK vaddr \in Nat : TestMem2Effect(vaddr)
  BY TestMem2Does
<1>2. pc = "test2" /\ attributes /\ step \in Address
  BY DEF TestInv, TestMem2
<1>3. failed' = FALSE /\ step' \in Address /\ pc' \in {"test2", "debug"} /\ attributes'
  BY <1>1, <1>2, TurnDoes DEF TestMem2Effect
<1>4. MemType'
  <2>1. CASE main_mem' = main_mem
    BY <1>1, <2>1 DEF MemType, TestMem2Effect
  <2>2. CASE store_byte(vaddr, 1)
    BY <1>1, <2>2, SizeTypes, StoreReaches DEF TestMem2Effect
  <2> QED
    BY <1>1, <2>1, <2>2 DEF TestMem2Effect
<1>5. TestInv'
  BY <1>3 DEF TestInv
<1> QED
  BY <1>4, <1>5

\* Every step keeps the invariant.
LEMMA NextSimInv == SimInv /\ [Next]_vars => SimInv'
<1> SUFFICES ASSUME SimInv, [Next]_vars PROVE SimInv'
  OBVIOUS
<1> USE DEF SimInv
<1>1. CASE UNCHANGED vars
  BY <1>1 DEF vars, MemType, TestInv, ByteAt, virt_to_pte
<1>2. CASE Fill
  BY <1>2, FillTests
<1>3. CASE TestMem
  BY <1>3, TestMemTests
<1>4. CASE TestMem2
  BY <1>4, TestMem2Tests
<1>5. ASSUME NEW vaddr \in WideAddress, Get(vaddr) PROVE SimInv'
  BY <1>5 DEF Get, MemType, TestInv
<1>6. ASSUME NEW vaddr \in WideAddress, NEW byte \in Byte, Store(vaddr, byte) PROVE SimInv'
  <2>1. vaddr \in Nat
    BY SizeTypes DEF WideAddress
  <2>2. MemType'
    BY <1>6, <2>1, StoreReaches DEF Store
  <2>3. TestInv'
    BY <1>6 DEF Store, TestInv
  <2> QED
    BY <2>2, <2>3
<1> QED
  BY <1>1, <1>2, <1>3, <1>4, <1>5, <1>6 DEF Next

-----------------------------------------------------------------------------

\* All bytes are 0 at first.
LEMMA InitIsFlat == Init => M!FInit
<1> SUFFICES ASSUME Init PROVE M!FInit
  OBVIOUS
<1>1. MemType
  BY InitSimInv DEF SimInv
<1>2. \A f \in Page, o \in Offset : main_mem[f][o] = 0
  BY DEF Init
<1>3. \A a \in Address : ByteAt(a) = 0
  BY <1>1, <1>2, CutAddress, Translates
<1>4. [a \in Address |-> ByteAt(a)] = [a \in Address |-> 0]
  BY <1>3
<1> QED
  BY <1>4 DEF M!FInit, Init

\* Every access is one of the flat memory.
LEMMA NextIsFlat == SimInv /\ [Next]_vars => [M!FNext]_(M!fvars)
<1> SUFFICES ASSUME SimInv, [Next]_vars PROVE M!FNext \/ UNCHANGED M!fvars
  OBVIOUS
<1>0. MemType /\ step \in Address
  BY DEF SimInv, TestInv
<1>1. ASSUME NEW a \in Nat, answer' = get_byte(a),
             UNCHANGED <<attributes, page_table, main_mem>>
      PROVE  M!FNext
  BY <1>1, LoadIsFlat, CutSame DEF M!FNext
<1>2. ASSUME NEW a \in Nat, NEW byte \in Byte, store_byte(a, byte),
             UNCHANGED <<attributes, page_table>>
      PROVE  M!FNext
  BY <1>0, <1>2, StoreIsFlat, CutSame DEF M!FNext
<1>3. CASE UNCHANGED vars
  BY <1>3 DEF vars, M!fvars, ByteAt, virt_to_pte, MayGet, MayStore
<1>4. CASE Fill
  <2>1. step \in Nat /\ step % ByteRange \in Byte
    BY <1>0, CutAddress, LowBits
  <2> QED
    BY <1>2, <1>4, <2>1 DEF Fill
<1>5. CASE TestMem
  <2>1. step \in Nat
    BY <1>0, CutAddress
  <2> QED
    BY <1>1, <1>5, <2>1 DEF TestMem
<1>6. CASE TestMem2
  <2>1. PICK vaddr \in Nat : TestMem2Effect(vaddr)
    BY <1>6, TestMem2Does
  <2> QED
    BY <1>1, <1>2, <2>1, SizeTypes DEF TestMem2Effect
<1>7. ASSUME NEW vaddr \in WideAddress, Get(vaddr) PROVE M!FNext
  <2>1. vaddr \in Nat
    BY SizeTypes DEF WideAddress
  <2> QED
    BY <1>1, <1>7, <2>1 DEF Get
<1>8. ASSUME NEW vaddr \in WideAddress, NEW byte \in Byte, Store(vaddr, byte) PROVE M!FNext
  <2>1. vaddr \in Nat
    BY SizeTypes DEF WideAddress
  <2> QED
    BY <1>2, <1>8, <2>1 DEF Store
<1> QED
  BY <1>3, <1>4, <1>5, <1>6, <1>7, <1>8 DEF Next

\* test_mem() and test_mem_2() report success, whatever the size of the memory
\* and the pages with attributes.
THEOREM TestsPass == Spec => []SelfTestsPass
<1>1. SimInv => SelfTestsPass
  BY DEF SimInv, TestInv, SelfTestsPass
<1> QED
  BY <1>1, InitSimInv, NextSimInv, PTL DEF Spec

\* get_byte() and store_byte() go through the page table to a flat memory: no
\* two addresses share a byte, and a refused access changes nothing.
THEOREM IsFlatMemory == Spec => ImplementsFlatMemory
BY InitIsFlat, InitSimInv, NextIsFlat, NextSimInv, PTL
DEF Spec, ImplementsFlatMemory, M!FlatSpec

=============================================================================
