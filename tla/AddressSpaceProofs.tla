------------------------- MODULE AddressSpaceProofs -------------------------
(***************************************************************************)
(* Proofs about AddressSpace.tla, for any number of processes and frames,  *)
(* any layout that fits and any size of the tables.                        *)
(*                                                                         *)
(* None of the properties is inductive.  Reference counts, which the code  *)
(* keeps for sharing, never exceed 1: a frame is free or on one page list  *)
(* (FramesOwned).  Isolation then follows from page tables that point into *)
(* the page list of their own process (MapsOwn), that of a child under     *)
(* construction included.  That the heap is there up to the break needs to *)
(* know at every page of an exec and of a fork which pages are mapped      *)
(* (ExecProgress, ForkProgress).                                           *)
(***************************************************************************)
EXTENDS AddressSpace, FiniteSetTheorems, TLAPS

\* What holds of the call in progress, and of the process that makes it.
CallShape ==
  /\ mode[cur] = "live"
  /\ op.kind = "exec" => image[cur] \in ImageSizes
  /\ op.kind = "fork" => op.child \in Pid /\ mode[op.child] = "none"

\* A frame is free, or on the list of one process, once.
FramesOwned ==
  /\ \A f \in Frame : /\ f \in free <=> \A p \in Pid : f \notin pageList[p]
                      /\ refcount[f] = IF f \in free THEN 0 ELSE 1
  /\ \A p, q \in Pid : \A f \in pageList[p] : f \in pageList[q] => p = q

\* The table of p points into the page list of p, to each frame once.
MapsOwn(p) ==
  \A v \in UserPage : pte[p][v] # None =>
    /\ pte[p][v] \in pageList[p]
    /\ \A w \in UserPage : pte[p][w] = pte[p][v] => w = v

TablesOwn == \A p \in Pid : mode[p] \in {"none", "live"} => MapsOwn(p)

-----------------------------------------------------------------------------
(* Types *)

LEMMA PageAtType ==
  ASSUME NEW n \in ImageSizes, NEW k \in Nat, k < ProgramPages(n)
  PROVE  PageAt(k, n) \in UserPage
BY SizesAssumption, LayoutAssumption, StackFitsAssumption
DEF PageAt, ProgramPages, UserPage, StackTop, HeapBase, ArgsPage

LEMMA PageTypes ==
  /\ UserPage \subseteq Page /\ Transitional \in Page /\ Transitional \notin UserPage
  /\ Page \subseteq Nat /\ None \notin Frame /\ Frame \subseteq Nat
  /\ \A v \in Page : v \div L2Entries \in L1
BY SizesAssumption DEF UserPage, Page, Transitional, L1, Frame, None

LEMMA StackInUserPage == StackArea \subseteq UserPage
BY SizesAssumption, StackFitsAssumption DEF StackArea, StackTop, UserPage

LEMMA ImageInUserPage ==
  ASSUME NEW n \in ImageSizes PROVE ImageArea(n) \subseteq UserPage
<1>1. n \in Nat /\ StackPages \in Nat /\ HeapPages \in Nat /\ KernelPage \in Nat
  BY SizesAssumption
<1>2. StackPages + n + 1 + HeapPages <= KernelPage - 1 - StackPages
  BY LayoutAssumption
<1>3. n <= KernelPage - 1
  BY <1>1, <1>2
<1> QED
  BY <1>1, <1>3 DEF ImageArea, UserPage

LEMMA PlusIntType ==
  ASSUME NEW a \in Int, NEW b \in Int PROVE PlusInt(a, b) \in Int
BY SizesAssumption DEF PlusInt

LEMMA InitType == Init => TypeOK /\ CallShape
<1> SUFFICES ASSUME Init PROVE TypeOK /\ CallShape
  OBVIOUS
<1>1. PICK m \in [StackArea -> Frame] :
        LET used == {m[v] : v \in StackArea}
        IN /\ free = Frame \ used
           /\ refcount = [f \in Frame |-> IF f \in used THEN 1 ELSE 0]
           /\ pageList = [p \in Pid |-> IF p = Root THEN used ELSE {}]
           /\ pte = [p \in Pid |-> [v \in Page |->
                       IF p = Root /\ v \in StackArea THEN m[v] ELSE None]]
  BY DEF Init
<1>2. Root \in Pid
  BY SizesAssumption DEF Root, Pid
<1>3. l2 \in [Pid -> SUBSET L1]
  BY PageTypes, StackInUserPage DEF Init
<1>4. pageList \in [Pid -> SUBSET Frame] /\ refcount \in [Frame -> Nat] /\ free \subseteq Frame
  BY <1>1
<1>5. pte \in [Pid -> [Page -> Frame \cup {None}]]
  BY <1>1
<1>6. mem \in [Frame -> Content] /\ written \in [Pid -> [UserPage -> Content]]
  BY SizesAssumption DEF Init, Content
<1>7. tlb \in [Page -> Frame \cup {None}]
  BY DEF Init, NoTlb
<1>8. op \in [kind : {"user", "fork", "exec", "panic"}, child : Pid \cup {None}, at : Nat]
      /\ op.kind = "user"
  BY DEF Init, Idle
<1>9. image \in [Pid -> Nat] /\ brk \in [Pid -> Int]
  BY DEF Init
<1>10. cur \in Pid /\ mode \in [Pid -> {"none", "live", "zombie", "reaped"}] /\ mode[cur] = "live"
  BY <1>2 DEF Init
<1> QED
  BY <1>3, <1>4, <1>5, <1>6, <1>7, <1>8, <1>9, <1>10 DEF TypeOK, CallShape

LEMMA TakeType ==
  ASSUME TypeOK, NEW p \in Pid, NEW f \in Frame, TakePage(p, f)
  PROVE  /\ free' \subseteq Frame /\ refcount' \in [Frame -> Nat]
         /\ pageList' \in [Pid -> SUBSET Frame]
BY DEF TypeOK, TakePage

LEMMA ReleaseType ==
  ASSUME TypeOK, FramesOwned, NEW p \in Pid, release_proc_pages(p)
  PROVE  /\ free' \subseteq Frame /\ refcount' \in [Frame -> Nat]
         /\ pageList' \in [Pid -> SUBSET Frame]
<1>1. \A f \in pageList[p] : f \in Frame /\ refcount[f] = 1
  BY DEF TypeOK, FramesOwned
<1>2. refcount' \in [Frame -> Nat]
  BY <1>1 DEF TypeOK, release_proc_pages
<1> QED
  BY <1>2 DEF TypeOK, release_proc_pages, Released, ListAfterRelease

LEMMA ResetType ==
  ASSUME TypeOK, NEW p \in Pid, reset_l1pgtable(p)
  PROVE  /\ l2' \in [Pid -> SUBSET L1]
         /\ pte' \in [Pid -> [Page -> Frame \cup {None}]]
         /\ tlb' \in [Page -> Frame \cup {None}]
<1>1. UserAreaCleared(p) \in [Page -> Frame \cup {None}]
  BY DEF TypeOK, UserAreaCleared
<1> QED
  BY <1>1 DEF TypeOK, reset_l1pgtable, mmu_page_table_flush, NoTlb

LEMMA MapType ==
  ASSUME TypeOK, NEW p \in Pid, NEW v \in Page, NEW f \in Frame, create_mapping(p, v, f)
  PROVE  /\ l2' \in [Pid -> SUBSET L1]
         /\ pte' \in [Pid -> [Page -> Frame \cup {None}]]
         /\ tlb' \in [Page -> Frame \cup {None}]
BY PageTypes DEF TypeOK, create_mapping, mmu_page_table_flush, NoTlb

\* What a step of fork does to one page: the frame f gets the copy of frame
\* pte[cur][op.at].
ForkPageEffect(f) ==
  LET v == op.at
      c == op.child
  IN /\ v \in UserPage /\ c \in Pid \ {cur} /\ pte[cur][v] \in Frame /\ f \in free
     /\ TakePage(c, f)
     /\ pte' = [pte EXCEPT ![cur][Transitional] = f, ![c][v] = f]
     /\ l2' = [l2 EXCEPT ![cur] = @ \cup {Transitional \div L2Entries},
                         ![c] = @ \cup {v \div L2Entries}]
     /\ mem' = [mem EXCEPT ![f] = mem[pte[cur][v]]]
     /\ tlb' = [NoTlb EXCEPT ![Transitional] = f, ![v] = pte[cur][v]]
     /\ op' = Onward
     /\ UNCHANGED <<mode, image, brk, cur, written>>

LEMMA ForkPageDoes ==
  ASSUME TypeOK, CallShape, NEW f \in Frame, ForkPage(f) PROVE ForkPageEffect(f)
<1>1. NoTlb[Transitional] = None /\ NoTlb[op.at] = None
  BY PageTypes DEF NoTlb, ForkPage, InFork
<1>2. pte[cur][op.at] \in Frame
  BY PageTypes DEF TypeOK, ForkPage, InFork
<1>3. op.child \in Pid \ {cur} /\ op.at \in UserPage
  BY DEF CallShape, ForkPage, InFork
<1> QED
  BY <1>1, <1>2, <1>3
  DEF ForkPage, ForkPageEffect, InFork, mmu_page_table_flush, ChildFrame, get_free_page

LEMMA ForkPageTables ==
  ASSUME TypeOK, NEW f \in Frame, ForkPageEffect(f)
  PROVE  /\ pte' \in [Pid -> [Page -> Frame \cup {None}]]
         /\ \A p \in Pid, w \in Page :
              pte'[p][w] = IF \/ p = cur /\ w = Transitional
                              \/ p = op.child /\ w = op.at
                           THEN f ELSE pte[p][w]
         /\ l2' \in [Pid -> SUBSET L1]
         /\ l2'[cur] = l2[cur] \cup {Transitional \div L2Entries}
         /\ l2'[op.child] = l2[op.child] \cup {op.at \div L2Entries}
         /\ \A p \in Pid \ {cur, op.child} : l2'[p] = l2[p]
<1> DEFINE table == [pte EXCEPT ![cur][Transitional] = f]
<1>1. op.at \in Page /\ op.child \in Pid \ {cur} /\ cur \in Pid /\ Transitional \in Page
  BY PageTypes DEF ForkPageEffect, TypeOK
<1>2. table \in [Pid -> [Page -> Frame \cup {None}]]
  BY <1>1, PageTypes DEF TypeOK
<1>3. \A p \in Pid, w \in Page :
        table[p][w] = IF p = cur /\ w = Transitional THEN f ELSE pte[p][w]
  BY <1>1 DEF TypeOK
<1>4. pte' = [table EXCEPT ![op.child][op.at] = f]
  BY DEF ForkPageEffect
<1>5. /\ l2' \in [Pid -> SUBSET L1]
      /\ l2'[cur] = l2[cur] \cup {Transitional \div L2Entries}
      /\ l2'[op.child] = l2[op.child] \cup {op.at \div L2Entries}
      /\ \A p \in Pid \ {cur, op.child} : l2'[p] = l2[p]
  BY <1>1, PageTypes DEF ForkPageEffect, TypeOK
<1> HIDE DEF table
<1>6. /\ pte' \in [Pid -> [Page -> Frame \cup {None}]]
      /\ \A p \in Pid, w \in Page :
           pte'[p][w] = IF p = op.child /\ w = op.at THEN f ELSE table[p][w]
  BY <1>1, <1>2, <1>4
<1> QED
  BY <1>3, <1>5, <1>6

LEMMA NextType == TypeOK /\ CallShape /\ FramesOwned /\ [Next]_vars => TypeOK'
<1> SUFFICES ASSUME TypeOK, CallShape, FramesOwned, [Next]_vars PROVE TypeOK'
  OBVIOUS
<1>1. CASE UNCHANGED vars
  BY <1>1 DEF vars, TypeOK
<1>2. ASSUME NEW v \in StorePages, Store(v) PROVE TypeOK'
  <2>1. v \in UserPage /\ v \in Page
    BY SizesAssumption, PageTypes DEF UserPage
  <2>2. Translate(pte[cur], v) \in Frame
    BY <1>2, <2>1, PageTypes DEF Store, Translate, TypeOK
  <2>3. cur \in Content
    BY SizesAssumption DEF TypeOK, Pid, Content
  <2> QED
    BY <1>2, <2>1, <2>2, <2>3 DEF Store, TypeOK
<1>3. ASSUME NEW p \in Pid, Switch(p) PROVE TypeOK'
  BY <1>3 DEF Switch, TypeOK, NoTlb
<1>4. ASSUME NEW p \in Pid, ForkStart(p) PROVE TypeOK'
  BY <1>4 DEF ForkStart, TypeOK
<1>5. ASSUME NEW p \in Pid, Exit(p) PROVE TypeOK'
  <2>1. mode' \in [Pid -> {"none", "live", "zombie", "reaped"}] /\ tlb' \in [Page -> Frame \cup {None}]
    BY <1>5 DEF Exit, TypeOK, NoTlb
  <2>2. cur \in Pid /\ release_proc_pages(cur)
    BY <1>5 DEF Exit, TypeOK
  <2> QED
    BY <1>5, <2>1, <2>2, ReleaseType DEF Exit, TypeOK
<1>6. ASSUME NEW p \in Pid, Reap(p) PROVE TypeOK'
  BY <1>6, ResetType DEF Reap, TypeOK
<1>7. ASSUME NEW f \in Frame, ForkPage(f) PROVE TypeOK'
  <2>1. ForkPageEffect(f)
    BY <1>7, ForkPageDoes
  <2>2. free' \subseteq Frame /\ refcount' \in [Frame -> Nat] /\ pageList' \in [Pid -> SUBSET Frame]
    BY <2>1, TakeType DEF ForkPageEffect
  <2>3. op.at \in Page /\ op.at \in Nat
    BY <2>1, PageTypes DEF ForkPageEffect
  <2>4. pte' \in [Pid -> [Page -> Frame \cup {None}]] /\ l2' \in [Pid -> SUBSET L1]
    BY <2>1, ForkPageTables
  <2>5. mem' \in [Frame -> Content] /\ tlb' \in [Page -> Frame \cup {None}]
    BY <2>1, <2>3, PageTypes DEF ForkPageEffect, TypeOK, NoTlb
  <2>6. op' \in [kind : {"user", "fork", "exec", "panic"}, child : Pid \cup {None}, at : Nat]
    BY <2>1, <2>3 DEF ForkPageEffect, TypeOK, Onward
  <2> QED
    BY <2>1, <2>2, <2>4, <2>5, <2>6 DEF ForkPageEffect, TypeOK
<1>8. ASSUME NEW f \in Frame, ExecPage(f) PROVE TypeOK'
  <2>1. PageAt(op.at, image[cur]) \in Page
    BY <1>8, PageAtType, PageTypes DEF ExecPage, CallShape, TypeOK
  <2>2. op' \in [kind : {"user", "fork", "exec", "panic"}, child : Pid \cup {None}, at : Nat]
    BY <1>8 DEF ExecPage, TypeOK, Onward
  <2> QED
    BY <1>8, <2>1, <2>2, TakeType, MapType DEF ExecPage, TypeOK
<1>9. ASSUME NEW n \in ImageSizes, ExecStart(n) PROVE TypeOK'
  <2>1. image' \in [Pid -> Nat]
    BY <1>9, SizesAssumption DEF ExecStart, TypeOK
  <2> QED
    BY <1>9, <2>1, ResetType, ReleaseType DEF ExecStart, TypeOK
<1>10. ASSUME NEW increment \in Increments, Sbrk(increment) PROVE TypeOK'
  <2>1. increment \in Int
    BY SizesAssumption
  <2> QED
    BY <1>10, <2>1, PlusIntType DEF Sbrk, TypeOK
<1>11. CASE ForkSkip
  <2>1. op' \in [kind : {"user", "fork", "exec", "panic"}, child : Pid \cup {None}, at : Nat]
    BY <1>11 DEF ForkSkip, TypeOK, Onward
  <2> QED
    BY <1>11, <2>1 DEF ForkSkip, TypeOK
<1>12. CASE ForkEnd
  <2>1. pte' \in [Pid -> [Page -> Frame \cup {None}]]
    BY <1>12 DEF ForkEnd, TypeOK
  <2>2. l2' \in [Pid -> SUBSET L1]
    BY <1>12 DEF ForkEnd, TypeOK
  <2>3. written' \in [Pid -> [UserPage -> Content]]
    BY <1>12 DEF ForkEnd, TypeOK
  <2> QED
    BY <1>12, <2>1, <2>2, <2>3 DEF ForkEnd, TypeOK, Idle, mmu_page_table_flush, NoTlb
<1>13. CASE ExecEnd
  <2>1. mem' \in [Frame -> Content]
    BY <1>13, SizesAssumption DEF ExecEnd, TypeOK, Content
  <2>2. \A v \in UserPage : pte[cur][v] # None => pte[cur][v] \in Frame
    BY PageTypes DEF TypeOK
  <2>3. [v \in UserPage |-> IF pte[cur][v] # None THEN mem'[pte[cur][v]] ELSE 0]
          \in [UserPage -> Content]
    BY <2>1, <2>2, SizesAssumption DEF Content
  <2>4. written' \in [Pid -> [UserPage -> Content]]
    BY <1>13, <2>3 DEF ExecEnd, TypeOK
  <2>5. brk' \in [Pid -> Int]
    BY <1>13 DEF ExecEnd, TypeOK
  <2>6. op' \in [kind : {"user", "fork", "exec", "panic"}, child : Pid \cup {None}, at : Nat]
    BY <1>13 DEF ExecEnd, Idle
  <2>7. UNCHANGED <<free, refcount, mode, pageList, l2, pte, image, cur, tlb>>
    BY <1>13 DEF ExecEnd
  <2> QED
    BY <2>1, <2>4, <2>5, <2>6, <2>7 DEF TypeOK
<1>14. CASE OutOfFrames
  BY <1>14 DEF OutOfFrames, Panic, TypeOK
<1> QED
  BY <1>1, <1>2, <1>3, <1>4, <1>5, <1>6, <1>7, <1>8, <1>9, <1>10, <1>11, <1>12,
     <1>13, <1>14 DEF Next

LEMMA NextCallShape == TypeOK /\ CallShape /\ [Next]_vars => CallShape'
<1> SUFFICES ASSUME TypeOK, CallShape, [Next]_vars PROVE CallShape'
  OBVIOUS
<1> USE DEF CallShape, TypeOK
<1>1. CASE UNCHANGED vars
  BY <1>1 DEF vars
<1>2. ASSUME NEW v \in StorePages, Store(v) PROVE CallShape'
  BY <1>2 DEF Store, InUser
<1>3. ASSUME NEW p \in Pid, Switch(p) PROVE CallShape'
  BY <1>3 DEF Switch, InUser
<1>4. ASSUME NEW p \in Pid, ForkStart(p) PROVE CallShape'
  BY <1>4 DEF ForkStart, InUser
<1>5. ASSUME NEW p \in Pid, Exit(p) PROVE CallShape'
  BY <1>5 DEF Exit, InUser
<1>6. ASSUME NEW p \in Pid, Reap(p) PROVE CallShape'
  BY <1>6 DEF Reap, InUser
<1>7. ASSUME NEW f \in Frame, ForkPage(f) PROVE CallShape'
  BY <1>7 DEF ForkPage, InFork, Onward
<1>8. ASSUME NEW f \in Frame, ExecPage(f) PROVE CallShape'
  BY <1>8 DEF ExecPage, Onward
<1>9. ASSUME NEW n \in ImageSizes, ExecStart(n) PROVE CallShape'
  BY <1>9 DEF ExecStart
<1>10. ASSUME NEW increment \in Increments, Sbrk(increment) PROVE CallShape'
  BY <1>10 DEF Sbrk, InUser
<1>11. CASE ForkSkip
  BY <1>11 DEF ForkSkip, InFork, Onward
<1>12. CASE ForkEnd
  BY <1>12 DEF ForkEnd, Idle
<1>13. CASE ExecEnd
  BY <1>13 DEF ExecEnd, Idle
<1>14. CASE OutOfFrames
  BY <1>14 DEF OutOfFrames, Panic
<1> QED
  BY <1>1, <1>2, <1>3, <1>4, <1>5, <1>6, <1>7, <1>8, <1>9, <1>10, <1>11, <1>12,
     <1>13, <1>14 DEF Next

-----------------------------------------------------------------------------
(* Frames *)

LEMMA TakeOwned ==
  ASSUME TypeOK, FramesOwned, NEW p \in Pid, NEW f \in free, TakePage(p, f)
  PROVE  FramesOwned'
<1>1. f \in Frame /\ refcount[f] = 0 /\ \A q \in Pid : f \notin pageList[q]
  BY DEF TypeOK, FramesOwned
<1>2. \A q \in Pid : pageList'[q] = IF q = p THEN pageList[q] \cup {f} ELSE pageList[q]
  BY DEF TakePage, TypeOK
<1>3. \A g \in Frame : refcount'[g] = IF g = f THEN 1 ELSE refcount[g]
  BY <1>1 DEF TakePage, TypeOK
<1>4. free' = free \ {f}
  BY DEF TakePage
<1>5. ASSUME NEW g \in Frame
      PROVE  /\ g \in free' <=> \A q \in Pid : g \notin pageList'[q]
             /\ refcount'[g] = IF g \in free' THEN 0 ELSE 1
  BY <1>1, <1>2, <1>3, <1>4 DEF FramesOwned
<1>6. ASSUME NEW q \in Pid, NEW r \in Pid, NEW g \in pageList'[q], g \in pageList'[r]
      PROVE  q = r
  <2>1. CASE g = f
    BY <1>1, <1>2, <1>6, <2>1
  <2>2. CASE g # f
    <3>1. g \in pageList[q]
      BY <1>2, <2>2
    <3>2. g \in pageList[r]
      BY <1>2, <1>6, <2>2
    <3> QED
      BY <3>1, <3>2 DEF FramesOwned
  <2> QED
    BY <2>1, <2>2
<1> QED
  BY <1>5, <1>6 DEF FramesOwned

LEMMA ReleaseOwned ==
  ASSUME TypeOK, FramesOwned, NEW p \in Pid, release_proc_pages(p)
  PROVE  /\ FramesOwned' /\ free' = free \cup pageList[p]
         /\ \A q \in Pid : pageList'[q] = IF q = p THEN {} ELSE pageList[q]
<1>1. \A f \in pageList[p] : f \in Frame /\ f \notin free /\ refcount[f] = 1
  BY DEF TypeOK, FramesOwned
<1>2. free' = free \cup pageList[p]
  BY <1>1 DEF release_proc_pages, Released
<1>3. \A q \in Pid : pageList'[q] = IF q = p THEN {} ELSE pageList[q]
  BY DEF release_proc_pages, ListAfterRelease, TypeOK
<1>4. \A f \in Frame : refcount'[f] = IF f \in pageList[p] THEN 0 ELSE refcount[f]
  BY <1>1 DEF release_proc_pages
<1>5. ASSUME NEW f \in Frame
      PROVE  /\ f \in free' <=> \A q \in Pid : f \notin pageList'[q]
             /\ refcount'[f] = IF f \in free' THEN 0 ELSE 1
  BY <1>2, <1>3, <1>4 DEF FramesOwned
<1> QED
  BY <1>2, <1>3, <1>5 DEF FramesOwned

LEMMA InitOwned == Init => FramesOwned
<1> SUFFICES ASSUME Init PROVE FramesOwned
  OBVIOUS
<1> PICK m \in [StackArea -> Frame] :
        LET used == {m[v] : v \in StackArea}
        IN /\ free = Frame \ used
           /\ refcount = [f \in Frame |-> IF f \in used THEN 1 ELSE 0]
           /\ pageList = [p \in Pid |-> IF p = Root THEN used ELSE {}]
  BY DEF Init
<1> DEFINE used == {m[v] : v \in StackArea}
<1>1. /\ free = Frame \ used /\ used \subseteq Frame
      /\ refcount = [f \in Frame |-> IF f \in used THEN 1 ELSE 0]
      /\ pageList = [p \in Pid |-> IF p = Root THEN used ELSE {}]
  OBVIOUS
<1> HIDE DEF used
<1>2. Root \in Pid
  BY SizesAssumption DEF Root, Pid
<1> QED
  BY <1>1, <1>2 DEF FramesOwned

LEMMA NextOwned == TypeOK /\ CallShape /\ FramesOwned /\ [Next]_vars => FramesOwned'
<1> SUFFICES ASSUME TypeOK, CallShape, FramesOwned, [Next]_vars PROVE FramesOwned'
  OBVIOUS
<1>1. ASSUME UNCHANGED <<free, refcount, pageList>> PROVE FramesOwned'
  BY <1>1 DEF FramesOwned
<1>2. ASSUME NEW p \in Pid, Exit(p) PROVE FramesOwned'
  BY <1>2, ReleaseOwned DEF Exit, TypeOK
<1>3. ASSUME NEW n \in ImageSizes, ExecStart(n) PROVE FramesOwned'
  BY <1>3, ReleaseOwned DEF ExecStart, TypeOK
<1>4. ASSUME NEW f \in Frame, ForkPage(f) PROVE FramesOwned'
  BY <1>4, ForkPageDoes, TakeOwned DEF ForkPageEffect
<1>5. ASSUME NEW f \in Frame, ExecPage(f) PROVE FramesOwned'
  BY <1>5, TakeOwned DEF ExecPage, get_free_page, TypeOK
<1>6. ASSUME NEW v \in StorePages, Store(v) PROVE FramesOwned'
  BY <1>1, <1>6 DEF Store
<1>7. ASSUME NEW p \in Pid, Switch(p) \/ ForkStart(p) \/ Reap(p) PROVE FramesOwned'
  BY <1>1, <1>7 DEF Switch, ForkStart, Reap
<1>8. ASSUME NEW increment \in Increments, Sbrk(increment) PROVE FramesOwned'
  BY <1>1, <1>8 DEF Sbrk
<1>9. CASE ForkSkip \/ ForkEnd \/ ExecEnd \/ OutOfFrames \/ UNCHANGED vars
  BY <1>1, <1>9 DEF ForkSkip, ForkEnd, ExecEnd, OutOfFrames, Panic, vars
<1> QED
  BY <1>2, <1>3, <1>4, <1>5, <1>6, <1>7, <1>8, <1>9 DEF Next

LEMMA OwnedCounted == TypeOK /\ FramesOwned => FramesCounted
<1> SUFFICES ASSUME TypeOK, FramesOwned, NEW f \in Frame
             PROVE  /\ refcount[f] = Cardinality({p \in Pid : f \in pageList[p]})
                    /\ f \in free <=> refcount[f] = 0
  BY DEF FramesCounted
<1> DEFINE Owners == {p \in Pid : f \in pageList[p]}
<1>1. CASE f \in free
  <2>1. Owners = {}
    BY <1>1 DEF FramesOwned
  <2> QED
    BY <1>1, <2>1, FS_EmptySet DEF FramesOwned
<1>2. CASE f \notin free
  <2>1. PICK p \in Pid : f \in pageList[p]
    BY <1>2 DEF FramesOwned
  <2>2. Owners = {p}
    BY <2>1 DEF FramesOwned
  <2>3. Cardinality(Owners) = 1
    BY <2>2, FS_Singleton
  <2> QED
    BY <1>2, <2>3 DEF FramesOwned
<1> QED
  BY <1>1, <1>2

-----------------------------------------------------------------------------
(* Isolation *)

\* A process whose user entries and page list have not changed.
LEMMA KeepsMapsOwn ==
  ASSUME NEW p \in Pid, MapsOwn(p), pageList[p] \subseteq pageList'[p],
         \A v \in UserPage : pte'[p][v] = pte[p][v]
  PROVE  MapsOwn(p)'
BY DEF MapsOwn

\* One more page, in a frame that was on nobody's list.
LEMMA MapsFree ==
  ASSUME TypeOK, FramesOwned, NEW p \in Pid, MapsOwn(p), NEW f \in free, NEW v \in UserPage,
         pageList'[p] = pageList[p] \cup {f},
         \A w \in UserPage : pte'[p][w] = IF w = v THEN f ELSE pte[p][w]
  PROVE  MapsOwn(p)'
<1>1. f \in Frame /\ f \notin pageList[p]
  BY DEF TypeOK, FramesOwned
<1>2. \A w \in UserPage : pte[p][w] # f
  BY <1>1, PageTypes DEF MapsOwn
<1> QED
  BY <1>2 DEF MapsOwn

IsoInv == TypeOK /\ CallShape /\ FramesOwned /\ TablesOwn

LEMMA InitTablesOwn == Init => TablesOwn
<1> SUFFICES ASSUME Init, NEW p \in Pid PROVE MapsOwn(p)
  BY DEF TablesOwn
<1> USE PageTypes, StackInUserPage
<1> PICK m \in [StackArea -> Frame] :
      /\ \A v \in StackArea : m[v] = v - (StackTop - StackPages) + 1
      /\ pageList = [q \in Pid |-> IF q = Root THEN {m[v] : v \in StackArea} ELSE {}]
      /\ pte = [q \in Pid |-> [v \in Page |->
                  IF q = Root /\ v \in StackArea THEN m[v] ELSE None]]
  BY DEF Init
<1>1. \A v \in UserPage : pte[p][v] = IF p = Root /\ v \in StackArea THEN m[v] ELSE None
  OBVIOUS
<1>2. \A v, w \in StackArea : m[v] = m[w] => v = w
  BY SizesAssumption DEF StackArea, StackTop
<1>3. p = Root => pageList[p] = {m[v] : v \in StackArea}
  OBVIOUS
<1>4. \A v \in StackArea : m[v] \in Frame
  OBVIOUS
<1> QED
  BY <1>1, <1>2, <1>3, <1>4 DEF MapsOwn

LEMMA NextTablesOwn == IsoInv /\ [Next]_vars => TablesOwn'
<1> SUFFICES ASSUME IsoInv, [Next]_vars PROVE TablesOwn'
  OBVIOUS
<1> USE DEF IsoInv
<1>1. ASSUME UNCHANGED <<pageList, pte>>,
             \A p \in Pid : mode'[p] \in {"none", "live"} => mode[p] \in {"none", "live"}
      PROVE  TablesOwn'
  BY <1>1 DEF TablesOwn, MapsOwn
<1>2. ASSUME NEW p \in Pid, Exit(p) PROVE TablesOwn'
  <2>1. \A q \in Pid : mode'[q] \in {"none", "live"} => q # cur /\ mode[q] \in {"none", "live"}
    BY <1>2 DEF Exit, TypeOK
  <2>2. \A q \in Pid \ {cur} : pageList'[q] = pageList[q] /\ pte'[q] = pte[q]
    BY <1>2, ReleaseOwned DEF Exit, TypeOK
  <2> QED
    BY <2>1, <2>2, KeepsMapsOwn DEF TablesOwn
<1>3. ASSUME NEW p \in Pid, Reap(p) PROVE TablesOwn'
  <2>1. \A q \in Pid : mode'[q] \in {"none", "live"} => q # p /\ mode[q] \in {"none", "live"}
    BY <1>3 DEF Reap, TypeOK
  <2>2. \A q \in Pid \ {p} : pageList'[q] = pageList[q] /\ pte'[q] = pte[q]
    BY <1>3 DEF Reap, reset_l1pgtable, TypeOK
  <2> QED
    BY <2>1, <2>2, KeepsMapsOwn DEF TablesOwn
<1>4. ASSUME NEW n \in ImageSizes, ExecStart(n) PROVE TablesOwn'
  <2>1. \A q \in Pid \ {cur} : pageList'[q] = pageList[q] /\ pte'[q] = pte[q] /\ mode'[q] = mode[q]
    BY <1>4, ReleaseOwned DEF ExecStart, reset_l1pgtable, TypeOK
  <2>2. \A v \in UserPage : pte'[cur][v] = None
    BY <1>4, PageTypes DEF ExecStart, reset_l1pgtable, UserAreaCleared, TypeOK
  <2>3. SUFFICES ASSUME NEW q \in Pid, mode'[q] \in {"none", "live"} PROVE MapsOwn(q)'
    BY DEF TablesOwn
  <2>4. CASE q = cur
    BY <2>2, <2>4 DEF MapsOwn
  <2>5. CASE q # cur
    BY <2>1, <2>3, <2>5, KeepsMapsOwn DEF TablesOwn
  <2> QED
    BY <2>4, <2>5
<1>5. ASSUME NEW f \in Frame, ForkPage(f) PROVE TablesOwn'
  <2>1. ForkPageEffect(f)
    BY <1>5, ForkPageDoes
  <2>2. /\ f \in free /\ op.child \in Pid /\ op.at \in UserPage
        /\ mode' = mode /\ mode[op.child] = "none"
    BY <1>5, <2>1 DEF ForkPageEffect, CallShape, ForkPage, InFork
  <2>3. \A q \in Pid, w \in Page :
          pte'[q][w] = IF \/ q = cur /\ w = Transitional
                          \/ q = op.child /\ w = op.at
                       THEN f ELSE pte[q][w]
    BY <2>1, ForkPageTables
  <2>4. \A q \in Pid :
          pageList'[q] = IF q = op.child THEN pageList[q] \cup {f} ELSE pageList[q]
    BY <2>1 DEF ForkPageEffect, TakePage, TypeOK
  <2>5. PICK v \in UserPage : v = op.at
    BY <2>2
  <2>6. SUFFICES ASSUME NEW q \in Pid, mode'[q] \in {"none", "live"} PROVE MapsOwn(q)'
    BY DEF TablesOwn
  <2>7. MapsOwn(q)
    BY <2>2, <2>6 DEF TablesOwn
  <2>8. CASE q = op.child
    <3>1. \A w \in UserPage : pte'[q][w] = IF w = v THEN f ELSE pte[q][w]
      BY <2>3, <2>5, <2>8, PageTypes
    <3> QED
      BY <2>2, <2>4, <2>7, <2>8, <3>1, MapsFree
  <2>9. CASE q # op.child
    <3>1. \A w \in UserPage : pte'[q][w] = pte[q][w]
      BY <2>3, <2>9, PageTypes
    <3> QED
      BY <2>4, <2>7, <2>9, <3>1, KeepsMapsOwn
  <2> QED
    BY <2>8, <2>9
<1>6. ASSUME NEW f \in Frame, ExecPage(f) PROVE TablesOwn'
  <2>1. PICK v \in UserPage : v = PageAt(op.at, image[cur])
    BY <1>6, PageAtType DEF ExecPage, CallShape, TypeOK
  <2>2. \A q \in Pid, w \in UserPage :
          pte'[q][w] = IF q = cur /\ w = v THEN f ELSE pte[q][w]
    BY <1>6, <2>1, PageTypes DEF ExecPage, create_mapping, TypeOK
  <2>3. \A q \in Pid : pageList'[q] = IF q = cur THEN pageList[q] \cup {f} ELSE pageList[q]
    BY <1>6 DEF ExecPage, TakePage, TypeOK
  <2>4. f \in free /\ mode' = mode
    BY <1>6 DEF ExecPage, get_free_page
  <2>5. SUFFICES ASSUME NEW q \in Pid, mode'[q] \in {"none", "live"} PROVE MapsOwn(q)'
    BY DEF TablesOwn
  <2>6. MapsOwn(q)
    BY <2>4, <2>5 DEF TablesOwn
  <2>7. CASE q = cur
    BY <2>2, <2>3, <2>4, <2>6, <2>7, MapsFree
  <2>8. CASE q # cur
    BY <2>2, <2>3, <2>6, <2>8, KeepsMapsOwn
  <2> QED
    BY <2>7, <2>8
<1>7. CASE ForkEnd
  <2>1. \A q \in Pid, w \in UserPage : pte'[q][w] = pte[q][w]
    BY <1>7, PageTypes DEF ForkEnd, TypeOK
  <2>2. \A q \in Pid : mode'[q] \in {"none", "live"} => mode[q] \in {"none", "live"}
    BY <1>7 DEF ForkEnd, CallShape, TypeOK
  <2>3. pageList' = pageList
    BY <1>7 DEF ForkEnd
  <2> QED
    BY <2>1, <2>2, <2>3, KeepsMapsOwn DEF TablesOwn
<1>8. ASSUME NEW v \in StorePages, Store(v) PROVE TablesOwn'
  BY <1>1, <1>8 DEF Store
<1>9. ASSUME NEW p \in Pid, Switch(p) \/ ForkStart(p) PROVE TablesOwn'
  BY <1>1, <1>9 DEF Switch, ForkStart
<1>10. ASSUME NEW increment \in Increments, Sbrk(increment) PROVE TablesOwn'
  BY <1>1, <1>10 DEF Sbrk
<1>11. CASE ForkSkip \/ ExecEnd \/ OutOfFrames \/ UNCHANGED vars
  BY <1>1, <1>11 DEF ForkSkip, ExecEnd, OutOfFrames, Panic, vars
<1> QED
  BY <1>2, <1>3, <1>4, <1>5, <1>6, <1>7, <1>8, <1>9, <1>10, <1>11 DEF Next

LEMMA InitIsoInv == Init => IsoInv
BY InitType, InitOwned, InitTablesOwn DEF IsoInv

LEMMA NextIsoInv == IsoInv /\ [Next]_vars => IsoInv'
BY NextType, NextCallShape, NextOwned, NextTablesOwn DEF IsoInv

LEMMA OwnedIsolated == IsoInv => Isolated
<1> SUFFICES ASSUME IsoInv, NEW p \in Pid, mode[p] = "live",
                    NEW v \in UserPage, pte[p][v] # None
             PROVE  /\ pte[p][v] \in pageList[p]
                    /\ \A q \in Pid, w \in UserPage :
                         mode[q] = "live" /\ pte[q][w] = pte[p][v] => q = p /\ w = v
  BY DEF Isolated
<1>1. \A q \in Pid : mode[q] = "live" => MapsOwn(q)
  BY DEF IsoInv, TablesOwn
<1>2. pte[p][v] \in pageList[p]
  BY <1>1 DEF MapsOwn
<1>3. ASSUME NEW q \in Pid, NEW w \in UserPage, mode[q] = "live", pte[q][w] = pte[p][v]
      PROVE  q = p /\ w = v
  <2>1. pte[p][v] \in pageList[q]
    BY <1>1, <1>3 DEF MapsOwn
  <2>2. q = p
    BY <1>2, <2>1 DEF IsoInv, FramesOwned
  <2> QED
    BY <1>1, <1>3, <2>2 DEF MapsOwn
<1> QED
  BY <1>2, <1>3

-----------------------------------------------------------------------------
(* Translations *)

\* The TLB is empty throughout an exec, and current between two calls.
TlbShape == TlbCurrent /\ (op.kind = "exec" => tlb = NoTlb)

MappedPages(p) == {w \in Page : pte[p][w] # None}

\* Only a fork maps the transitional page, in the table of its caller; the L1
\* entries are those of the mapped pages, whatever the state of the process.
L1Match ==
  \A p \in Pid :
    /\ l2[p] = {v \div L2Entries : v \in MappedPages(p)}
    /\ pte[p][Transitional] # None => op.kind \in {"fork", "panic"} /\ p = cur

TransInv == TypeOK /\ CallShape /\ TlbShape /\ L1Match

LEMMA InitTransInv == Init => TlbShape /\ L1Match
<1> SUFFICES ASSUME Init PROVE TlbShape /\ L1Match
  OBVIOUS
<1>1. TlbShape
  BY DEF Init, TlbShape, TlbCurrent, Idle, NoTlb
<1>2. ASSUME NEW p \in Pid, NEW w \in Page
      PROVE  pte[p][w] # None <=> p = Root /\ w \in StackArea
  BY PageTypes DEF Init
<1>3. ASSUME NEW p \in Pid
      PROVE  MappedPages(p) = IF p = Root THEN StackArea ELSE {}
  BY <1>2, PageTypes, StackInUserPage DEF MappedPages
<1>4. ASSUME NEW p \in Pid PROVE l2[p] = {v \div L2Entries : v \in MappedPages(p)}
  BY <1>3 DEF Init
<1> QED
  BY <1>1, <1>2, <1>4, PageTypes, StackInUserPage DEF L1Match

LEMMA NextTlbShape == TransInv /\ [Next]_vars => TlbShape'
<1> SUFFICES ASSUME TransInv, [Next]_vars PROVE TlbShape'
  OBVIOUS
<1> USE DEF TransInv, TlbShape, TlbCurrent, InUser
<1>1. ASSUME tlb' = NoTlb PROVE TlbShape'
  BY <1>1 DEF NoTlb
<1>2. CASE UNCHANGED vars
  BY <1>2 DEF vars
<1>3. ASSUME NEW v \in StorePages, Store(v) PROVE TlbShape'
  <2>1. v \in Page /\ v \in UserPage
    BY SizesAssumption, PageTypes DEF UserPage
  <2>2. Translate(pte[cur], v) = pte[cur][v]
    BY <1>3, <2>1 DEF Store, Translate
  <2>3. \A w \in Page : tlb'[w] = IF w = v THEN pte[cur][v] ELSE tlb[w]
    BY <1>3, <2>1, <2>2 DEF Store, TypeOK
  <2> QED
    BY <1>3, <2>3 DEF Store
<1>4. ASSUME NEW p \in Pid, Switch(p) \/ Exit(p) PROVE TlbShape'
  BY <1>1, <1>4 DEF Switch, Exit
<1>5. ASSUME NEW p \in Pid, Reap(p) PROVE TlbShape'
  BY <1>1, <1>5 DEF Reap, reset_l1pgtable, mmu_page_table_flush
<1>6. ASSUME NEW n \in ImageSizes, ExecStart(n) PROVE TlbShape'
  BY <1>1, <1>6 DEF ExecStart, reset_l1pgtable, mmu_page_table_flush
<1>7. ASSUME NEW f \in Frame, ExecPage(f) PROVE TlbShape'
  BY <1>1, <1>7 DEF ExecPage, create_mapping, mmu_page_table_flush
<1>8. ASSUME NEW p \in Pid, ForkStart(p) PROVE TlbShape'
  BY <1>8 DEF ForkStart
<1>9. ASSUME NEW f \in Frame, ForkPage(f) PROVE TlbShape'
  BY <1>9 DEF ForkPage, InFork, Onward
<1>10. ASSUME NEW increment \in Increments, Sbrk(increment) PROVE TlbShape'
  BY <1>10 DEF Sbrk
<1>11. CASE ForkSkip
  BY <1>11 DEF ForkSkip, InFork, Onward
<1>12. CASE ForkEnd
  BY <1>1, <1>12 DEF ForkEnd, mmu_page_table_flush
<1>13. CASE ExecEnd
  BY <1>1, <1>13 DEF ExecEnd
<1>14. CASE OutOfFrames
  BY <1>14 DEF OutOfFrames, Panic
<1> QED
  BY <1>2, <1>3, <1>4, <1>5, <1>6, <1>7, <1>8, <1>9, <1>10, <1>11, <1>12, <1>13,
     <1>14 DEF Next

\* A process whose page table does not change.
LEMMA KeepsL1 ==
  ASSUME NEW p \in Pid, l2[p] = {v \div L2Entries : v \in MappedPages(p)},
         l2'[p] = l2[p], pte'[p] = pte[p]
  PROVE  l2'[p] = {v \div L2Entries : v \in MappedPages(p)'}
BY DEF MappedPages

\* One more page in the table of p.
LEMMA MapsL1 ==
  ASSUME NEW p \in Pid, NEW v \in Page, NEW f \in Frame,
         l2[p] = {w \div L2Entries : w \in MappedPages(p)},
         \A w \in Page : pte'[p][w] = IF w = v THEN f ELSE pte[p][w],
         l2'[p] = l2[p] \cup {v \div L2Entries}
  PROVE  l2'[p] = {w \div L2Entries : w \in MappedPages(p)'}
<1>1. MappedPages(p)' = MappedPages(p) \cup {v}
  BY PageTypes DEF MappedPages
<1> QED
  BY <1>1

\* reset_l1pgtable() of a process without transitional page.
LEMMA ResetL1 ==
  ASSUME TypeOK, L1Match, NEW p \in Pid, reset_l1pgtable(p), pte[p][Transitional] = None
  PROVE  /\ l2'[p] = {w \div L2Entries : w \in MappedPages(p)'}
         /\ pte'[p][Transitional] = None
         /\ \A q \in Pid \ {p} : l2'[q] = l2[q] /\ pte'[q] = pte[q]
<1>1. \A w \in Page : pte'[p][w] = None
  BY PageTypes DEF reset_l1pgtable, UserAreaCleared, TypeOK, Page
<1>2. MappedPages(p)' = {}
  BY <1>1 DEF MappedPages
<1>3. MappedPages(p) \subseteq UserPage
  BY DEF MappedPages, Page
<1>4. l2'[p] = l2[p] \ {v \div L2Entries : v \in UserPage}
  BY DEF reset_l1pgtable, TypeOK
<1>5. l2[p] \subseteq {v \div L2Entries : v \in UserPage}
  BY <1>3 DEF L1Match
<1>6. \A q \in Pid \ {p} : l2'[q] = l2[q] /\ pte'[q] = pte[q]
  BY DEF reset_l1pgtable, TypeOK
<1> QED
  BY <1>1, <1>2, <1>4, <1>5, <1>6, PageTypes

LEMMA NextL1Match == TransInv /\ [Next]_vars => L1Match'
<1> SUFFICES ASSUME TransInv, [Next]_vars, NEW p \in Pid
             PROVE  /\ l2'[p] = {v \div L2Entries : v \in MappedPages(p)'}
                    /\ pte'[p][Transitional] # None =>
                         op'.kind \in {"fork", "panic"} /\ p = cur'
  BY DEF L1Match
<1> DEFINE Goal == /\ l2'[p] = {v \div L2Entries : v \in MappedPages(p)'}
                   /\ pte'[p][Transitional] # None =>
                        op'.kind \in {"fork", "panic"} /\ p = cur'
<1> USE DEF TransInv
<1>0. /\ l2[p] = {v \div L2Entries : v \in MappedPages(p)}
      /\ pte[p][Transitional] # None => op.kind \in {"fork", "panic"} /\ p = cur
      /\ op.kind \in {"user", "exec"} => pte[p][Transitional] = None
  BY DEF L1Match
<1>1. ASSUME UNCHANGED <<l2, pte>>,
             pte[p][Transitional] # None =>
               op'.kind \in {"fork", "panic"} /\ cur' = cur
      PROVE  Goal
  BY <1>0, <1>1, KeepsL1
<1>2. CASE UNCHANGED vars
  BY <1>0, <1>1, <1>2 DEF vars
<1>3. ASSUME NEW v \in StorePages, Store(v) PROVE Goal
  BY <1>0, <1>1, <1>3 DEF Store, InUser
<1>4. ASSUME NEW q \in Pid, Switch(q) \/ ForkStart(q) \/ Exit(q) PROVE Goal
  BY <1>0, <1>1, <1>4 DEF Switch, ForkStart, Exit, InUser
<1>5. ASSUME NEW q \in Pid, Reap(q) PROVE Goal
  <2>1. CASE q = p
    BY <1>0, <1>5, <2>1, ResetL1 DEF Reap, InUser
  <2>2. CASE q # p
    <3>1. pte[q][Transitional] = None
      BY <1>5 DEF Reap, InUser, L1Match
    <3> QED
      BY <1>0, <1>5, <2>2, <3>1, ResetL1, KeepsL1 DEF Reap, InUser
  <2> QED
    BY <2>1, <2>2
<1>6. ASSUME NEW n \in ImageSizes, ExecStart(n) PROVE Goal
  <2>1. PICK q \in Pid : q = cur
    BY DEF TypeOK
  <2>2. reset_l1pgtable(q) /\ pte[q][Transitional] = None
    BY <1>6, <2>1 DEF ExecStart, InUser, L1Match
  <2>3. CASE q = p
    BY <2>2, <2>3, ResetL1
  <2>4. CASE q # p
    BY <1>0, <1>6, <2>2, <2>4, ResetL1, KeepsL1 DEF ExecStart, InUser
  <2> QED
    BY <2>3, <2>4
<1>7. ASSUME NEW f \in Frame, ExecPage(f) PROVE Goal
  <2>1. PICK v \in UserPage : v = PageAt(op.at, image[cur])
    BY <1>7, PageAtType DEF ExecPage, CallShape, TypeOK
  <2>2. v \in Page /\ v # Transitional
    BY PageTypes
  <2>3. \A w \in Page :
          pte'[p][w] = IF p = cur /\ w = v THEN f ELSE pte[p][w]
    BY <1>7, <2>1, <2>2 DEF ExecPage, create_mapping, TypeOK
  <2>4. l2'[p] = IF p = cur THEN l2[p] \cup {v \div L2Entries} ELSE l2[p]
    BY <1>7, <2>1 DEF ExecPage, create_mapping, TypeOK
  <2>5. pte'[p][Transitional] = None
    BY <1>0, <1>7, <2>2, <2>3, PageTypes DEF ExecPage
  <2>6. CASE p = cur
    BY <1>0, <2>2, <2>3, <2>4, <2>5, <2>6, MapsL1
  <2>7. CASE p # cur
    <3>1. pte'[p] = pte[p]
      BY <1>7, <2>7 DEF ExecPage, create_mapping, TypeOK
    <3> QED
      BY <1>0, <2>4, <2>5, <2>7, <3>1, KeepsL1
  <2> QED
    BY <2>6, <2>7
<1>8. ASSUME NEW f \in Frame, ForkPage(f) PROVE Goal
  <2>1. ForkPageEffect(f)
    BY <1>8, ForkPageDoes
  <2>2. \A w \in Page :
          pte'[p][w] = IF \/ p = cur /\ w = Transitional
                          \/ p = op.child /\ w = op.at
                       THEN f ELSE pte[p][w]
    BY <2>1, ForkPageTables
  <2>3. /\ p = cur => l2'[p] = l2[p] \cup {Transitional \div L2Entries}
        /\ p = op.child => l2'[p] = l2[p] \cup {op.at \div L2Entries}
        /\ p \notin {cur, op.child} => l2'[p] = l2[p]
    BY <2>1, ForkPageTables
  <2>4. PICK v \in UserPage : v = op.at
    BY <2>1 DEF ForkPageEffect
  <2>5. v \in Page /\ v # Transitional /\ Transitional \in Page
    BY PageTypes
  <2>6. op.child # cur /\ op'.kind = "fork" /\ op.kind = "fork" /\ cur' = cur
    BY <1>8, <2>1 DEF ForkPageEffect, Onward, ForkPage, InFork
  <2>7. CASE p = cur
    <3>1. \A w \in Page : pte'[p][w] = IF w = Transitional THEN f ELSE pte[p][w]
      BY <2>2, <2>6, <2>7
    <3> QED
      BY <1>0, <2>3, <2>5, <2>6, <2>7, <3>1, MapsL1
  <2>8. CASE p = op.child
    <3>1. \A w \in Page : pte'[p][w] = IF w = v THEN f ELSE pte[p][w]
      BY <2>2, <2>4, <2>6, <2>8
    <3> QED
      BY <1>0, <2>3, <2>4, <2>5, <2>6, <2>8, <3>1, MapsL1
  <2>9. CASE p \notin {cur, op.child}
    <3>1. \A w \in Page : pte'[p][w] = pte[p][w]
      BY <2>2, <2>9
    <3>2. MappedPages(p)' = MappedPages(p)
      BY <3>1 DEF MappedPages
    <3> QED
      BY <1>0, <2>3, <2>5, <2>6, <2>9, <3>1, <3>2
  <2> QED
    BY <2>7, <2>8, <2>9
<1>9. ASSUME NEW increment \in Increments, Sbrk(increment) PROVE Goal
  BY <1>0, <1>1, <1>9 DEF Sbrk, InUser
<1>10. CASE ForkSkip
  BY <1>0, <1>1, <1>10 DEF ForkSkip, InFork, Onward
<1>11. CASE ForkEnd
  <2> DEFINE i == Transitional \div L2Entries
             entries == [pte[cur] EXCEPT ![Transitional] = None]
  <2>1. pte' = [pte EXCEPT ![cur] = entries]
        /\ l2' = IF IsEmptyL2(entries, i) THEN [l2 EXCEPT ![cur] = @ \ {i}] ELSE l2
    BY <1>11 DEF ForkEnd
  <2>2. \A w \in Page : entries[w] = IF w = Transitional THEN None ELSE pte[cur][w]
    BY DEF TypeOK
  <2>3. CASE p # cur
    <3>1. pte'[p] = pte[p] /\ l2'[p] = l2[p]
      BY <2>1, <2>3 DEF TypeOK
    <3> QED
      BY <1>0, <2>3, <3>1, KeepsL1
  <2>4. CASE p = cur
    <3>1. \A w \in Page : pte'[p][w] = IF w = Transitional THEN None ELSE pte[p][w]
      BY <2>1, <2>2, <2>4 DEF TypeOK
    <3>2. MappedPages(p)' = MappedPages(p) \ {Transitional}
      BY <3>1 DEF MappedPages
    <3>3. IsEmptyL2(entries, i) <=> \A w \in MappedPages(p)' : w \div L2Entries # i
      BY <2>2, <2>4, <3>1 DEF IsEmptyL2, MappedPages
    <3>4. l2'[p] = IF IsEmptyL2(entries, i) THEN l2[p] \ {i} ELSE l2[p]
      BY <2>1, <2>4 DEF TypeOK
    <3> HIDE DEF entries
    <3> DEFINE Index(w) == w \div L2Entries
    <3>5. /\ l2[p] = {Index(v) : v \in MappedPages(p)} /\ i = Index(Transitional)
          /\ IsEmptyL2(entries, i) <=> \A w \in MappedPages(p)' : Index(w) # i
      BY <1>0, <3>3
    <3> HIDE DEF i, Index
    <3>6. ASSUME NEW e \in l2'[p] PROVE \E w \in MappedPages(p)' : e = Index(w)
      BY <3>2, <3>4, <3>5
    <3>7. ASSUME NEW w \in MappedPages(p)' PROVE Index(w) \in l2'[p]
      BY <3>2, <3>4, <3>5
    <3>8. l2'[p] = {Index(v) : v \in MappedPages(p)'}
      BY <3>6, <3>7
    <3>9. pte'[p][Transitional] = None
      BY <3>1, PageTypes
    <3> QED
      BY <3>8, <3>9 DEF Index
  <2> QED
    BY <2>3, <2>4
<1>12. CASE ExecEnd
  BY <1>0, <1>1, <1>12 DEF ExecEnd
<1>13. CASE OutOfFrames
  BY <1>0, <1>1, <1>13 DEF OutOfFrames, Panic
<1> QED
  BY <1>2, <1>3, <1>4, <1>5, <1>6, <1>7, <1>8, <1>9, <1>10, <1>11, <1>12, <1>13
  DEF Next

LEMMA TransSound == TransInv => TranslationsSound
BY DEF TransInv, TlbShape, L1Match, TranslationsSound, TablesMatch, MappedPages

-----------------------------------------------------------------------------
(* The memory of a program *)

\* In the frames of p is what program q believes to have.
Matches(p, q) ==
  \A v \in UserPage : pte[p][v] # None => mem[pte[p][v]] = written[q][v]

\* Program p believes right, unless its image is being replaced.
LiveMatches ==
  \A p \in Pid : mode[p] = "live" /\ (op.kind \in {"user", "fork"} \/ p # cur)
                   => Matches(p, p)

\* A child under construction has what its parent has.
ChildMatches ==
  \A p, q \in Pid : op.kind = "fork" /\ p = op.child /\ q = cur => Matches(p, q)

\* A process not yet forked, or under construction, maps nothing else.
NoneUnmapped ==
  \A p \in Pid : mode[p] = "none" /\ ~(op.kind \in {"fork", "panic"} /\ p = op.child)
                   => \A v \in UserPage : pte[p][v] = None

MemInv == LiveMatches /\ ChildMatches /\ NoneUnmapped

SpaceInv == IsoInv /\ TransInv /\ MemInv

LEMMA InitMemInv == Init => MemInv
<1> SUFFICES ASSUME Init PROVE MemInv
  OBVIOUS
<1>1. op.kind = "user"
  BY DEF Init, Idle
<1>2. \A p \in Pid, v \in UserPage : written[p][v] = 0
  BY DEF Init
<1>3. \A f \in Frame : mem[f] = 0
  BY DEF Init
<1>4. \A p \in Pid, v \in UserPage : pte[p][v] # None => pte[p][v] \in Frame
  BY InitType, PageTypes DEF TypeOK
<1>5. \A p \in Pid, v \in UserPage : p # Root => pte[p][v] = None
  BY PageTypes DEF Init
<1>6. \A p \in Pid : mode[p] = "none" => p # Root
  BY DEF Init
<1>7. LiveMatches
  BY <1>2, <1>3, <1>4 DEF LiveMatches, Matches
<1>8. ChildMatches
  BY <1>1 DEF ChildMatches
<1>9. NoneUnmapped
  BY <1>5, <1>6 DEF NoneUnmapped
<1> QED
  BY <1>7, <1>8, <1>9 DEF MemInv

\* Stores elsewhere do not disturb p.
LEMMA KeepsMatch ==
  ASSUME NEW p \in Pid, NEW q \in Pid, Matches(p, q), MapsOwn(p),
         \A v \in UserPage : pte'[p][v] = pte[p][v],
         written'[q] = written[q],
         \A f \in pageList[p] : mem'[f] = mem[f]
  PROVE  Matches(p, q)'
BY DEF Matches, MapsOwn

\* Calls that touch the memory of no program that goes on.
LEMMA QuietMem ==
  ASSUME MemInv, op.kind = "user", UNCHANGED <<op, mem, written>>,
         \A p \in Pid : mode'[p] \in {"none", "live"} =>
                         mode'[p] = mode[p] /\ pte'[p] = pte[p]
  PROVE  MemInv'
<1>1. LiveMatches'
  BY DEF MemInv, LiveMatches, Matches
<1>2. ChildMatches'
  BY DEF ChildMatches
<1>3. NoneUnmapped'
  BY DEF MemInv, NoneUnmapped
<1> QED
  BY <1>1, <1>2, <1>3 DEF MemInv

LEMMA StoreMem ==
  ASSUME SpaceInv, NEW v \in StorePages, Store(v) PROVE MemInv'
<1>1. v \in UserPage /\ v \in Page
  BY SizesAssumption, PageTypes DEF UserPage
<1>2. op.kind = "user" /\ op' = op /\ mode' = mode /\ pte' = pte /\ cur' = cur
  BY DEF Store, InUser
<1>3. Translate(pte[cur], v) = pte[cur][v]
  BY <1>1, <1>2 DEF Translate, SpaceInv, TransInv, TlbShape, TlbCurrent, InUser
<1>4. PICK g \in Frame : g = pte[cur][v]
  BY <1>1 DEF Store, SpaceInv, TransInv, TypeOK
<1>5. /\ \A f \in Frame : mem'[f] = IF f = g THEN cur ELSE mem[f]
      /\ \A p \in Pid, w \in UserPage :
           written'[p][w] = IF p = cur /\ w = v THEN cur ELSE written[p][w]
      /\ \A p \in Pid : p # cur => written'[p] = written[p]
  BY <1>1, <1>3, <1>4 DEF Store, SpaceInv, TransInv, TypeOK
<1>6. ASSUME NEW p \in Pid, mode[p] = "live" PROVE Matches(p, p)'
  <2>1. Matches(p, p) /\ MapsOwn(p)
    BY <1>2, <1>6 DEF SpaceInv, MemInv, LiveMatches, IsoInv, TablesOwn
  <2>2. pageList[p] \subseteq Frame
    BY DEF SpaceInv, TransInv, TypeOK
  <2>3. CASE p = cur
    <3>1. \A w \in UserPage : pte[p][w] = g => w = v
      BY <1>1, <1>4, <2>1, <2>3, PageTypes DEF MapsOwn
    <3>2. \A w \in UserPage : pte[p][w] # None => pte[p][w] \in Frame
      BY <2>1, <2>2 DEF MapsOwn
    <3> QED
      BY <1>2, <1>4, <1>5, <2>1, <2>3, <3>1, <3>2 DEF Matches
  <2>4. CASE p # cur
    <3>1. g \in pageList[cur] /\ cur \in Pid
      BY <1>1, <1>4, PageTypes DEF SpaceInv, IsoInv, TablesOwn, CallShape, MapsOwn, TypeOK
    <3>2. g \notin pageList[p]
      BY <2>4, <3>1 DEF SpaceInv, IsoInv, FramesOwned
    <3> QED
      BY <1>2, <1>5, <2>1, <2>2, <2>4, <3>2, KeepsMatch
  <2> QED
    BY <2>3, <2>4
<1>7. LiveMatches'
  BY <1>2, <1>6 DEF LiveMatches
<1>8. ChildMatches'
  BY <1>2 DEF ChildMatches
<1>9. NoneUnmapped'
  BY <1>2 DEF SpaceInv, MemInv, NoneUnmapped
<1> QED
  BY <1>7, <1>8, <1>9 DEF MemInv

LEMMA ForkPageMem ==
  ASSUME SpaceInv, NEW f \in Frame, ForkPage(f) PROVE MemInv'
<1> USE DEF SpaceInv, IsoInv
<1>1. ForkPageEffect(f) /\ op.kind = "fork"
  BY ForkPageDoes DEF ForkPage, InFork
<1>2. PICK v \in UserPage : v = op.at
  BY <1>1 DEF ForkPageEffect
<1>3. PICK c \in Pid : c = op.child /\ c # cur /\ mode[c] = "none"
  BY <1>1 DEF ForkPageEffect, CallShape
<1>4. PICK s \in Pid : s = cur /\ mode[s] = "live"
  BY DEF CallShape, TypeOK
<1>5. /\ op'.kind = "fork" /\ op'.child = c
      /\ mode' = mode /\ written' = written /\ cur' = cur
  BY <1>1, <1>3 DEF ForkPageEffect, Onward
<1>6. \A p \in Pid, w \in UserPage :
        pte'[p][w] = IF p = c /\ w = v THEN f ELSE pte[p][w]
  <2>1. \A p \in Pid, w \in Page :
          pte'[p][w] = IF \/ p = cur /\ w = Transitional
                          \/ p = op.child /\ w = op.at
                       THEN f ELSE pte[p][w]
    BY <1>1, ForkPageTables
  <2> QED
    BY <1>2, <1>3, <2>1, PageTypes
<1>7. \A g \in Frame : mem'[g] = IF g = f THEN mem[pte[s][v]] ELSE mem[g]
  BY <1>1, <1>2, <1>4 DEF ForkPageEffect, TypeOK
<1>8. \A p \in Pid : f \notin pageList[p] /\ pageList[p] \subseteq Frame
  BY <1>1 DEF ForkPageEffect, FramesOwned, TypeOK
<1>9. ASSUME NEW p \in Pid, mode[p] = "live" PROVE Matches(p, p)'
  <2>1. Matches(p, p) /\ MapsOwn(p)
    BY <1>1, <1>9 DEF MemInv, LiveMatches, TablesOwn
  <2> QED
    BY <1>3, <1>5, <1>6, <1>7, <1>8, <1>9, <2>1, KeepsMatch
<1>10. Matches(c, s)'
  <2>1. Matches(c, s) /\ MapsOwn(c) /\ Matches(s, s)
    BY <1>1, <1>3, <1>4 DEF MemInv, LiveMatches, ChildMatches, TablesOwn
  <2>2. pte[s][v] # None
    BY <1>2, <1>4 DEF ForkPage
  <2>3. ASSUME NEW w \in UserPage, w # v, pte'[c][w] # None
        PROVE  mem'[pte'[c][w]] = written'[s][w]
    <3>1. pte'[c][w] = pte[c][w] /\ pte[c][w] \in pageList[c]
      BY <1>6, <2>1, <2>3 DEF MapsOwn
    <3> QED
      BY <1>5, <1>7, <1>8, <2>1, <2>3, <3>1 DEF Matches
  <2>4. mem'[pte'[c][v]] = written'[s][v]
    BY <1>5, <1>6, <1>7, <2>1, <2>2 DEF Matches
  <2> QED
    BY <2>3, <2>4 DEF Matches
<1>11. LiveMatches'
  BY <1>5, <1>9 DEF LiveMatches
<1>12. ChildMatches'
  BY <1>4, <1>5, <1>10 DEF ChildMatches
<1>13. NoneUnmapped'
  BY <1>1, <1>3, <1>5, <1>6 DEF MemInv, NoneUnmapped
<1> QED
  BY <1>11, <1>12, <1>13 DEF MemInv

LEMMA ForkEndMem ==
  ASSUME SpaceInv, ForkEnd PROVE MemInv'
<1> USE DEF SpaceInv, IsoInv
<1>1. PICK c \in Pid : c = op.child /\ mode[c] = "none"
  BY DEF ForkEnd, CallShape
<1>2. PICK s \in Pid : s = cur /\ mode[s] = "live"
  BY DEF CallShape, TypeOK
<1>3. /\ op.kind = "fork" /\ op'.kind = "user" /\ mem' = mem
      /\ \A p \in Pid, w \in UserPage : pte'[p][w] = pte[p][w]
      /\ \A p \in Pid : mode'[p] = IF p = c THEN "live" ELSE mode[p]
      /\ \A p \in Pid : written'[p] = IF p = c THEN written[s] ELSE written[p]
  BY <1>1, <1>2, PageTypes DEF ForkEnd, Idle, TypeOK
<1>4. Matches(c, s) /\ \A p \in Pid : mode[p] = "live" => Matches(p, p)
  BY <1>1, <1>2, <1>3 DEF MemInv, LiveMatches, ChildMatches
<1>5. LiveMatches'
  BY <1>1, <1>2, <1>3, <1>4 DEF LiveMatches, Matches
<1>6. ChildMatches'
  BY <1>3 DEF ChildMatches
<1>7. NoneUnmapped'
  BY <1>1, <1>3 DEF MemInv, NoneUnmapped
<1> QED
  BY <1>5, <1>6, <1>7 DEF MemInv

\* Steps of exec, which leaves the other processes alone.
LEMMA ExecMem ==
  ASSUME SpaceInv, op'.kind = "exec", UNCHANGED <<mem, mode, cur, written>>,
         op.kind \in {"user", "exec"},
         \A p \in Pid \ {cur} : \A w \in UserPage : pte'[p][w] = pte[p][w]
  PROVE  MemInv'
<1> USE DEF SpaceInv, IsoInv
<1>1. LiveMatches'
  BY DEF MemInv, LiveMatches, Matches
<1>2. ChildMatches'
  BY DEF ChildMatches
<1>3. NoneUnmapped'
  BY DEF MemInv, NoneUnmapped, CallShape
<1> QED
  BY <1>1, <1>2, <1>3 DEF MemInv

LEMMA ExecEndMem ==
  ASSUME SpaceInv, ExecEnd PROVE MemInv'
<1> USE DEF SpaceInv, IsoInv
<1> DEFINE loaded == {pte[cur][v] : v \in ImageArea(image[cur])}
<1>1. /\ op.kind = "exec" /\ op'.kind = "user"
      /\ UNCHANGED <<mode, pte, cur, pageList>>
      /\ \A f \in Frame : mem'[f] = IF f \in loaded THEN 0 ELSE mem[f]
  BY DEF ExecEnd, Idle
<1>2. /\ \A v \in UserPage :
           written'[cur][v] = IF pte[cur][v] # None THEN mem'[pte[cur][v]] ELSE 0
      /\ \A p \in Pid \ {cur} : written'[p] = written[p]
  BY DEF ExecEnd, TypeOK
<1>3. ImageArea(image[cur]) \subseteq UserPage
  <2>1. image[cur] \in ImageSizes
    BY <1>1 DEF CallShape
  <2> QED
    BY <2>1, ImageInUserPage
<1>4. cur \in Pid /\ mode[cur] = "live" /\ MapsOwn(cur)
  BY DEF CallShape, TypeOK, TablesOwn
<1>5. \A f \in loaded : f = None \/ f \in pageList[cur]
  BY <1>3, <1>4 DEF MapsOwn
<1> HIDE DEF loaded
<1>6. ASSUME NEW p \in Pid, mode[p] = "live" PROVE Matches(p, p)'
  <2>1. CASE p = cur
    BY <1>1, <1>2, <2>1 DEF Matches
  <2>2. CASE p # cur
    <3>1. Matches(p, p) /\ MapsOwn(p) /\ pageList[p] \subseteq Frame
      BY <1>6, <2>2 DEF MemInv, LiveMatches, TablesOwn, TypeOK
    <3>2. \A f \in pageList[p] : f \notin loaded
      BY <1>4, <1>5, <2>2, <3>1, PageTypes DEF FramesOwned
    <3> QED
      BY <1>1, <1>2, <2>2, <3>1, <3>2, KeepsMatch
  <2> QED
    BY <2>1, <2>2
<1>7. LiveMatches'
  BY <1>1, <1>6 DEF LiveMatches
<1>8. ChildMatches'
  BY <1>1 DEF ChildMatches
<1>9. NoneUnmapped'
  BY <1>1 DEF MemInv, NoneUnmapped
<1> QED
  BY <1>7, <1>8, <1>9 DEF MemInv

LEMMA NextMemInv == SpaceInv /\ [Next]_vars => MemInv'
<1> SUFFICES ASSUME SpaceInv, [Next]_vars PROVE MemInv'
  OBVIOUS
<1>1. MemInv /\ TypeOK /\ CallShape
  BY DEF SpaceInv, TransInv
<1>2. CASE UNCHANGED vars
  BY <1>1, <1>2 DEF vars, MemInv, LiveMatches, ChildMatches, NoneUnmapped, Matches
<1>3. ASSUME NEW v \in StorePages, Store(v) PROVE MemInv'
  BY <1>3, StoreMem
<1>4. ASSUME NEW p \in Pid, Switch(p) PROVE MemInv'
  BY <1>1, <1>4, QuietMem DEF Switch, InUser
<1>5. ASSUME NEW p \in Pid, Exit(p) PROVE MemInv'
  <2>1. \A q \in Pid : mode'[q] \in {"none", "live"} => mode'[q] = mode[q]
    BY <1>1, <1>5 DEF Exit, TypeOK
  <2> QED
    BY <1>1, <1>5, <2>1, QuietMem DEF Exit, InUser
<1>6. ASSUME NEW p \in Pid, Reap(p) PROVE MemInv'
  <2>1. \A q \in Pid : mode'[q] \in {"none", "live"} =>
                         mode'[q] = mode[q] /\ pte'[q] = pte[q]
    BY <1>1, <1>6 DEF Reap, reset_l1pgtable, TypeOK
  <2> QED
    BY <1>1, <1>6, <2>1, QuietMem DEF Reap, InUser
<1>7. ASSUME NEW increment \in Increments, Sbrk(increment) PROVE MemInv'
  BY <1>1, <1>7, QuietMem DEF Sbrk, InUser
<1>8. ASSUME NEW p \in Pid, ForkStart(p) PROVE MemInv'
  <2>1. /\ op.kind = "user" /\ op'.kind = "fork" /\ op'.child = p /\ mode[p] = "none"
        /\ UNCHANGED <<mem, mode, pte, cur, written>>
    BY <1>8 DEF ForkStart, InUser
  <2>2. \A v \in UserPage : pte[p][v] = None
    BY <1>1, <2>1 DEF MemInv, NoneUnmapped
  <2>3. LiveMatches'
    BY <1>1, <2>1 DEF MemInv, LiveMatches, Matches
  <2>4. ChildMatches'
    BY <2>1, <2>2 DEF ChildMatches, Matches
  <2>5. NoneUnmapped'
    BY <1>1, <2>1 DEF MemInv, NoneUnmapped
  <2> QED
    BY <2>3, <2>4, <2>5 DEF MemInv
<1>9. CASE ForkSkip
  <2>1. /\ op.kind = "fork" /\ op'.kind = "fork" /\ op'.child = op.child
        /\ UNCHANGED <<mem, mode, pte, cur, written>>
    BY <1>9 DEF ForkSkip, InFork, Onward
  <2>2. LiveMatches'
    BY <1>1, <2>1 DEF MemInv, LiveMatches, Matches
  <2>3. ChildMatches'
    BY <1>1, <2>1 DEF MemInv, ChildMatches, Matches
  <2>4. NoneUnmapped'
    BY <1>1, <2>1 DEF MemInv, NoneUnmapped
  <2> QED
    BY <2>2, <2>3, <2>4 DEF MemInv
<1>10. ASSUME NEW f \in Frame, ForkPage(f) PROVE MemInv'
  BY <1>10, ForkPageMem
<1>11. CASE ForkEnd
  BY <1>11, ForkEndMem
<1>12. ASSUME NEW n \in ImageSizes, ExecStart(n) PROVE MemInv'
  <2>1. /\ op.kind = "user" /\ op'.kind = "exec" /\ UNCHANGED <<mem, mode, cur, written>>
    BY <1>12 DEF ExecStart, InUser
  <2>2. \A p \in Pid \ {cur} : \A w \in UserPage : pte'[p][w] = pte[p][w]
    BY <1>1, <1>12 DEF ExecStart, reset_l1pgtable, TypeOK
  <2> QED
    BY <2>1, <2>2, ExecMem
<1>13. ASSUME NEW f \in Frame, ExecPage(f) PROVE MemInv'
  <2>1. /\ op.kind = "exec" /\ op'.kind = "exec" /\ UNCHANGED <<mem, mode, cur, written>>
    BY <1>13 DEF ExecPage, Onward
  <2>2. \A p \in Pid \ {cur} : \A w \in UserPage : pte'[p][w] = pte[p][w]
    BY <1>1, <1>13 DEF ExecPage, create_mapping, TypeOK
  <2> QED
    BY <2>1, <2>2, ExecMem
<1>14. CASE ExecEnd
  BY <1>14, ExecEndMem
<1>15. CASE OutOfFrames
  <2>1. /\ op.kind \in {"fork", "exec"} /\ op'.kind = "panic" /\ op'.child = op.child
        /\ UNCHANGED <<mem, mode, pte, cur, written>>
    BY <1>15 DEF OutOfFrames, Panic, InFork
  <2>2. LiveMatches'
    BY <1>1, <2>1 DEF MemInv, LiveMatches, Matches
  <2>3. ChildMatches'
    BY <2>1 DEF ChildMatches
  <2>4. NoneUnmapped'
    BY <1>1, <2>1 DEF MemInv, NoneUnmapped
  <2> QED
    BY <2>2, <2>3, <2>4 DEF MemInv
<1> QED
  BY <1>2, <1>3, <1>4, <1>5, <1>6, <1>7, <1>8, <1>9, <1>10, <1>11, <1>12, <1>13,
     <1>14, <1>15 DEF Next

-----------------------------------------------------------------------------

LEMMA InitSpaceInv == Init => SpaceInv
BY InitIsoInv, InitTransInv, InitMemInv DEF SpaceInv, IsoInv, TransInv

LEMMA NextSpaceInv == SpaceInv /\ [Next]_vars => SpaceInv'
BY NextIsoInv, NextTlbShape, NextL1Match, NextMemInv DEF SpaceInv, IsoInv, TransInv

\* The types of tables, frames and sizes.
THEOREM TypeCorrect == Spec => []TypeOK
<1>1. SpaceInv => TypeOK
  BY DEF SpaceInv, TransInv
<1> QED
  BY <1>1, InitSpaceInv, NextSpaceInv, PTL DEF Spec

\* release_proc_pages() and add_page_to_proc() keep the counts: no frame is
\* lost, and none is free that a process lists.
THEOREM FramesStayCounted == Spec => []FramesCounted
<1>1. SpaceInv => FramesCounted
  BY OwnedCounted DEF SpaceInv, IsoInv
<1> QED
  BY <1>1, InitSpaceInv, NextSpaceInv, PTL DEF Spec

\* No live process maps a frame of another, whatever fork, exec and exit did.
THEOREM ProcessesIsolated == Spec => []Isolated
<1>1. SpaceInv => Isolated
  BY OwnedIsolated DEF SpaceInv
<1> QED
  BY <1>1, InitSpaceInv, NextSpaceInv, PTL DEF Spec

\* The TLB and the L1 entries agree with the page table.
THEOREM TranslationsStaySound == Spec => []TranslationsSound
<1>1. SpaceInv => TranslationsSound
  BY TransSound DEF SpaceInv
<1> QED
  BY <1>1, InitSpaceInv, NextSpaceInv, PTL DEF Spec

\* A program finds what it wrote, and a child what its parent had.
THEOREM MemoryKept == Spec => []MemoryAsWritten
<1>1. SpaceInv => MemoryAsWritten
  BY DEF SpaceInv, MemInv, LiveMatches, Matches, MemoryAsWritten, InUser
<1> QED
  BY <1>1, InitSpaceInv, NextSpaceInv, PTL DEF Spec

-----------------------------------------------------------------------------
(* The heap and the areas of a program *)

PagesOf(p) == {v \in UserPage : pte[p][v] # None}

\* What an exec has mapped after k rounds of its loop.
FirstPages(n, k) == {PageAt(i, n) : i \in 0..(k - 1)}

HeapSizes ==
  \A p \in Pid : image[p] \in ImageSizes \cup {0} /\ brk[p] \in 0..(HeapPages - 1)

\* No frame is on a page list without being mapped.
ListMapped ==
  op.kind # "panic" => \A p \in Pid : mode[p] \in {"none", "live"} =>
    \A f \in pageList[p] : \E v \in UserPage : pte[p][v] = f

\* A program has all its areas, unless it is being replaced.
ImageMapped ==
  op.kind # "panic" =>
    \A p \in Pid : mode[p] = "live" /\ image[p] # 0 /\ ~(op.kind = "exec" /\ p = cur)
      => PagesOf(p) = FirstPages(image[p], ProgramPages(image[p]))

ExecProgress ==
  op.kind = "exec" => /\ op.at <= ProgramPages(image[cur])
                      /\ PagesOf(cur) = FirstPages(image[cur], op.at)

\* A child has the pages of its parent, up to the one the loops are at.
ForkProgress ==
  op.kind = "fork" => /\ image[op.child] = image[cur] /\ op.at <= KernelPage
                      /\ PagesOf(op.child) = {v \in PagesOf(cur) : v < op.at}

HeapInv == HeapSizes /\ ListMapped /\ ImageMapped /\ ExecProgress /\ ForkProgress

\* setup_proc_image_replace() never comes back to a page: stack, image, heap
\* and arguments are apart.
LEMMA PagesApart ==
  ASSUME NEW n \in ImageSizes, NEW j \in 0..(ProgramPages(n) - 1),
         NEW k \in 0..(ProgramPages(n) - 1), j # k
  PROVE  PageAt(j, n) # PageAt(k, n)
<1>1. n \in Nat /\ StackPages \in Nat /\ HeapPages \in Nat /\ KernelPage \in Nat
  BY SizesAssumption
<1>2. StackPages + n + 1 + HeapPages <= KernelPage - 1 - StackPages
  BY LayoutAssumption
<1> QED
  BY <1>1, <1>2 DEF PageAt, ProgramPages, StackTop, HeapBase, ArgsPage

LEMMA ProgramPagesType ==
  ASSUME NEW n \in ImageSizes PROVE ProgramPages(n) \in Nat
BY SizesAssumption DEF ProgramPages

\* The heap begins after stack and image.
LEMMA HeapPageAt ==
  ASSUME NEW n \in ImageSizes, NEW i \in 0..(HeapPages - 1)
  PROVE  HeapBase(n) + i \in FirstPages(n, ProgramPages(n))
<1> DEFINE k == StackPages + n + i
<1>1. n \in Nat /\ StackPages \in Nat /\ HeapPages \in Nat
  BY SizesAssumption
<1>2. k \in 0..(ProgramPages(n) - 1)
  BY <1>1 DEF ProgramPages
<1>3. PageAt(k, n) = HeapBase(n) + i
  BY <1>1 DEF PageAt, HeapBase
<1> HIDE DEF k
<1> QED
  BY <1>2, <1>3 DEF FirstPages

LEMMA FirstPagesGrow ==
  ASSUME NEW n \in ImageSizes, NEW k \in Nat, k < ProgramPages(n)
  PROVE  /\ FirstPages(n, k + 1) = FirstPages(n, k) \cup {PageAt(k, n)}
         /\ PageAt(k, n) \notin FirstPages(n, k)
<1>1. ProgramPages(n) \in Nat
  BY ProgramPagesType
<1>2. \A i : i \in 0..(k + 1 - 1) <=> i \in 0..(k - 1) \/ i = k
  OBVIOUS
<1>3. FirstPages(n, k + 1) = FirstPages(n, k) \cup {PageAt(k, n)}
  BY <1>2 DEF FirstPages
<1>4. \A i \in 0..(k - 1) : PageAt(i, n) # PageAt(k, n)
  BY <1>1, PagesApart
<1> QED
  BY <1>3, <1>4 DEF FirstPages

LEMMA FirstPagesNone == ASSUME NEW n PROVE FirstPages(n, 0) = {}
BY DEF FirstPages

\* As many pages as rounds.
LEMMA FirstPagesCount ==
  ASSUME NEW n \in ImageSizes
  PROVE  /\ IsFiniteSet(FirstPages(n, ProgramPages(n)))
         /\ Cardinality(FirstPages(n, ProgramPages(n))) = ProgramPages(n)
<1> DEFINE K == 0..(ProgramPages(n) - 1)
           S == FirstPages(n, ProgramPages(n))
           at == [k \in K |-> PageAt(k, n)]
<1>1. ProgramPages(n) \in Nat
  BY ProgramPagesType
<1>2. IsFiniteSet(K) /\ Cardinality(K) = ProgramPages(n)
  BY <1>1, FS_Interval
<1>3. at \in [K -> S]
  BY DEF FirstPages
<1>4. \A a, b \in K : at[a] = at[b] => a = b
  BY PagesApart
<1>5. \A t \in S : \E s \in K : at[s] = t
  BY DEF FirstPages
<1>6. ExistsBijection(K, S)
  <2> HIDE DEF K, S, at
  <2> QED
    BY <1>3, <1>4, <1>5
    DEF ExistsBijection, Bijection, Injection, Surjection, IsInjective
<1> HIDE DEF K, S
<1>7. IsFiniteSet(S) /\ Cardinality(S) = Cardinality(K)
  BY <1>2, <1>6, FS_Bijection
<1> QED
  BY <1>2, <1>7 DEF S

LEMMA InitHeapInv == Init => HeapInv
<1> SUFFICES ASSUME Init PROVE HeapInv
  OBVIOUS
<1> USE PageTypes, StackInUserPage
<1>1. PICK m \in [StackArea -> Frame] :
      /\ pageList = [q \in Pid |-> IF q = Root THEN {m[v] : v \in StackArea} ELSE {}]
      /\ pte = [q \in Pid |-> [v \in Page |->
                  IF q = Root /\ v \in StackArea THEN m[v] ELSE None]]
  BY DEF Init
<1>2. \A p \in Pid : image[p] = 0 /\ brk[p] = 0
  BY DEF Init
<1>3. op.kind = "user"
  BY DEF Init, Idle
<1>4. HeapSizes
  BY <1>2, SizesAssumption DEF HeapSizes
<1>5. ASSUME NEW p \in Pid, NEW f \in pageList[p] PROVE \E v \in UserPage : pte[p][v] = f
  BY <1>1, <1>5
<1>6. ListMapped
  BY <1>5 DEF ListMapped
<1> QED
  BY <1>2, <1>3, <1>4, <1>6 DEF HeapInv, ImageMapped, ExecProgress, ForkProgress

\* Steps that leave page lists and user pages alone, outside fork and exec.
LEMMA QuietHeap ==
  ASSUME HeapInv, op.kind = "user", op' = op, UNCHANGED image, HeapSizes',
         \A p \in Pid : mode'[p] \in {"none", "live"} =>
           mode'[p] = mode[p] /\ pte'[p] = pte[p] /\ pageList'[p] = pageList[p]
  PROVE  HeapInv'
<1>1. ListMapped'
  BY DEF HeapInv, ListMapped
<1>2. ImageMapped'
  BY DEF HeapInv, ImageMapped, PagesOf
<1>3. ExecProgress' /\ ForkProgress'
  BY DEF ExecProgress, ForkProgress
<1> QED
  BY <1>1, <1>2, <1>3 DEF HeapInv

\* One more frame, at a page that had none.
LEMMA MapsListed ==
  ASSUME NEW p \in Pid, NEW f, NEW v \in UserPage, pte[p][v] = None,
         \A w \in UserPage : pte'[p][w] = IF w = v THEN f ELSE pte[p][w],
         pageList'[p] = pageList[p] \cup {f}, None \notin pageList[p],
         \A g \in pageList[p] : \E w \in UserPage : pte[p][w] = g
  PROVE  \A g \in pageList'[p] : \E w \in UserPage : pte'[p][w] = g
<1> SUFFICES ASSUME NEW g \in pageList'[p] PROVE \E w \in UserPage : pte'[p][w] = g
  OBVIOUS
<1>1. CASE g = f
  BY <1>1
<1>2. CASE g # f
  <2>1. PICK w \in UserPage : pte[p][w] = g /\ g \in pageList[p]
    BY <1>2
  <2>2. w # v
    BY <2>1
  <2> QED
    BY <2>1, <2>2
<1> QED
  BY <1>1, <1>2

LEMMA ForkStartHeap ==
  ASSUME SpaceInv, HeapInv, NEW c \in Pid, ForkStart(c) PROVE HeapInv'
<1> USE DEF SpaceInv, IsoInv
<1>1. /\ op.kind = "user" /\ op'.kind = "fork" /\ op'.child = c /\ op'.at = 0
      /\ mode[c] = "none" /\ UNCHANGED <<mode, pageList, pte, cur>>
  BY DEF ForkStart, InUser
<1>2. cur \in Pid /\ c # cur /\ KernelPage \in Nat
  BY <1>1, SizesAssumption DEF CallShape, TypeOK
<1>3. \A p \in Pid : /\ image'[p] = IF p = c THEN image[cur] ELSE image[p]
                     /\ brk'[p] = IF p = c THEN brk[cur] ELSE brk[p]
  BY DEF ForkStart, TypeOK
<1>4. HeapSizes'
  BY <1>2, <1>3 DEF HeapInv, HeapSizes
<1>5. ListMapped'
  BY <1>1 DEF HeapInv, ListMapped
<1>6. ImageMapped'
  BY <1>1, <1>2, <1>3 DEF HeapInv, ImageMapped, PagesOf
<1>7. \A v \in UserPage : pte[c][v] = None
  BY <1>1 DEF MemInv, NoneUnmapped
<1>8. PagesOf(c)' = {} /\ {v \in PagesOf(cur)' : v < 0} = {}
  BY <1>1, <1>7 DEF PagesOf, UserPage
<1>9. ForkProgress'
  BY <1>1, <1>2, <1>3, <1>8 DEF ForkProgress, PagesOf
<1> QED
  BY <1>1, <1>4, <1>5, <1>6, <1>9 DEF HeapInv, ExecProgress

LEMMA ForkSkipHeap ==
  ASSUME SpaceInv, HeapInv, ForkSkip PROVE HeapInv'
<1>1. /\ op.kind = "fork" /\ op'.kind = "fork" /\ op'.child = op.child
      /\ op'.at = op.at + 1 /\ op.at \in UserPage /\ pte[cur][op.at] = None
      /\ UNCHANGED <<mode, pageList, pte, cur, image, brk>>
  BY DEF ForkSkip, InFork, Onward
<1>2. op.at \in 0..(KernelPage - 1) /\ KernelPage \in Nat
  BY <1>1, SizesAssumption DEF UserPage
<1>3. {v \in PagesOf(cur) : v < op.at + 1} = {v \in PagesOf(cur) : v < op.at}
  BY <1>1, <1>2 DEF PagesOf, UserPage
<1>4. ForkProgress'
  BY <1>1, <1>2, <1>3 DEF HeapInv, ForkProgress, PagesOf
<1>5. HeapSizes' /\ ListMapped' /\ ImageMapped' /\ ExecProgress'
  BY <1>1 DEF HeapInv, HeapSizes, ListMapped, ImageMapped, ExecProgress, PagesOf
<1> QED
  BY <1>4, <1>5 DEF HeapInv

LEMMA ForkPageHeap ==
  ASSUME SpaceInv, HeapInv, NEW f \in Frame, ForkPage(f) PROVE HeapInv'
<1> USE DEF SpaceInv, IsoInv
<1>1. ForkPageEffect(f) /\ op.kind = "fork"
  BY ForkPageDoes DEF ForkPage, InFork
<1>2. PICK v \in UserPage : v = op.at
  BY <1>1 DEF ForkPageEffect
<1>3. PICK c \in Pid : c = op.child /\ c # cur /\ mode[c] = "none"
  BY <1>1 DEF ForkPageEffect, CallShape
<1>4. /\ op'.kind = "fork" /\ op'.child = c /\ op'.at = v + 1
      /\ mode' = mode /\ image' = image /\ brk' = brk /\ cur' = cur /\ cur \in Pid
  BY <1>1, <1>2, <1>3 DEF ForkPageEffect, Onward, TypeOK
<1>5. \A p \in Pid, w \in UserPage :
        pte'[p][w] = IF p = c /\ w = v THEN f ELSE pte[p][w]
  <2>1. \A p \in Pid, w \in Page :
          pte'[p][w] = IF \/ p = cur /\ w = Transitional
                          \/ p = op.child /\ w = op.at
                       THEN f ELSE pte[p][w]
    BY <1>1, ForkPageTables
  <2> QED
    BY <1>2, <1>3, <2>1, PageTypes
<1>6. \A p \in Pid :
        pageList'[p] = IF p = c THEN pageList[p] \cup {f} ELSE pageList[p]
  BY <1>1, <1>3 DEF ForkPageEffect, TakePage, TypeOK
<1>7. f # None /\ \A p \in Pid : None \notin pageList[p]
  BY PageTypes DEF TypeOK
<1>8. PagesOf(c) = {w \in PagesOf(cur) : w < v} /\ v \in PagesOf(cur)
  BY <1>1, <1>2, <1>3 DEF HeapInv, ForkProgress, ForkPage, PagesOf
<1>9. v \in Nat /\ v < KernelPage /\ KernelPage \in Nat /\ UserPage \subseteq Nat
  BY SizesAssumption DEF UserPage
<1>10. \A p \in Pid : p # c => PagesOf(p)' = PagesOf(p)
  BY <1>5 DEF PagesOf
<1>11. PagesOf(c)' = PagesOf(c) \cup {v}
  BY <1>5, <1>7 DEF PagesOf
<1>12. pte[c][v] = None
  <2>1. v \notin PagesOf(c)
    BY <1>8, <1>9
  <2> QED
    BY <2>1 DEF PagesOf
<1>13. {w \in PagesOf(cur) : w < v + 1} = {w \in PagesOf(cur) : w < v} \cup {v}
  <2>1. PagesOf(cur) \subseteq Nat
    BY <1>9 DEF PagesOf
  <2>2. \A w \in PagesOf(cur) : w < v + 1 <=> w < v \/ w = v
    BY <1>9, <2>1
  <2> QED
    BY <1>8, <2>2
<1>14. ForkProgress'
  <2>1. image[c] = image[cur]
    BY <1>1, <1>3 DEF HeapInv, ForkProgress
  <2>2. PagesOf(c)' = {w \in PagesOf(cur)' : w < v + 1}
    BY <1>3, <1>4, <1>8, <1>10, <1>11, <1>13
  <2>3. v + 1 <= KernelPage
    BY <1>9
  <2> QED
    BY <1>4, <2>1, <2>2, <2>3 DEF ForkProgress, PagesOf
<1>15. ImageMapped'
  BY <1>1, <1>3, <1>4, <1>10 DEF HeapInv, ImageMapped
<1>16. ListMapped'
  <2>1. SUFFICES ASSUME NEW p \in Pid, mode[p] \in {"none", "live"}
                 PROVE  \A g \in pageList'[p] : \E w \in UserPage : pte'[p][w] = g
    BY <1>4 DEF ListMapped
  <2>2. \A g \in pageList[p] : \E w \in UserPage : pte[p][w] = g
    BY <1>1, <2>1 DEF HeapInv, ListMapped
  <2>3. CASE p = c
    <3>1. /\ \A w \in UserPage : pte'[p][w] = IF w = v THEN f ELSE pte[p][w]
          /\ pageList'[p] = pageList[p] \cup {f} /\ None \notin pageList[p]
          /\ pte[p][v] = None
      BY <1>5, <1>6, <1>7, <1>12, <2>3
    <3> QED
      BY <2>2, <3>1, MapsListed
  <2>4. CASE p # c
    BY <1>5, <1>6, <2>2, <2>4
  <2> QED
    BY <2>3, <2>4
<1>17. HeapSizes' /\ ExecProgress'
  BY <1>4 DEF HeapInv, HeapSizes, ExecProgress
<1> QED
  BY <1>14, <1>15, <1>16, <1>17 DEF HeapInv

LEMMA ForkEndHeap ==
  ASSUME SpaceInv, HeapInv, ForkEnd PROVE HeapInv'
<1> USE DEF SpaceInv, IsoInv
<1>1. op.kind = "fork" /\ op.at = KernelPage /\ op'.kind = "user"
      /\ UNCHANGED <<pageList, image, brk, cur>>
  BY DEF ForkEnd, Idle
<1>2. PICK c \in Pid : c = op.child /\ mode[c] = "none" /\ c # cur
  BY <1>1 DEF CallShape
<1>3. \A p \in Pid, w \in UserPage : pte'[p][w] = pte[p][w]
  BY PageTypes DEF ForkEnd, TypeOK
<1>4. \A p \in Pid : mode'[p] = IF p = c THEN "live" ELSE mode[p]
  BY <1>2 DEF ForkEnd, TypeOK
<1>5. \A p \in Pid : PagesOf(p)' = PagesOf(p)
  BY <1>3 DEF PagesOf
<1>6. cur \in Pid /\ mode[cur] = "live"
  BY DEF CallShape, TypeOK
<1>7. image[c] = image[cur] /\ PagesOf(c) = {v \in PagesOf(cur) : v < KernelPage}
  BY <1>1, <1>2 DEF HeapInv, ForkProgress
<1>8. PagesOf(c) = PagesOf(cur)
  BY <1>7, SizesAssumption DEF PagesOf, UserPage
<1>9. ImageMapped'
  BY <1>1, <1>2, <1>4, <1>5, <1>6, <1>7, <1>8 DEF HeapInv, ImageMapped
<1>10. ListMapped'
  BY <1>1, <1>2, <1>3, <1>4 DEF HeapInv, ListMapped
<1>11. HeapSizes' /\ ExecProgress' /\ ForkProgress'
  BY <1>1 DEF HeapInv, HeapSizes, ExecProgress, ForkProgress
<1> QED
  BY <1>9, <1>10, <1>11 DEF HeapInv

LEMMA ExecStartHeap ==
  ASSUME SpaceInv, HeapInv, NEW n \in ImageSizes, ExecStart(n) PROVE HeapInv'
<1> USE DEF SpaceInv, IsoInv
<1>1. op.kind = "user" /\ op'.kind = "exec" /\ op'.at = 0
      /\ UNCHANGED <<mode, brk, cur>> /\ cur \in Pid
  BY DEF ExecStart, InUser, TypeOK
<1>2. \A p \in Pid : image'[p] = IF p = cur THEN n ELSE image[p]
  BY DEF ExecStart, TypeOK
<1>3. \A p \in Pid \ {cur} : pte'[p] = pte[p]
  BY <1>1 DEF ExecStart, reset_l1pgtable, TypeOK
<1>4. \A v \in UserPage : pte'[cur][v] = None
  BY <1>1, PageTypes DEF ExecStart, reset_l1pgtable, UserAreaCleared, TypeOK
<1>5. \A p \in Pid : pageList'[p] = IF p = cur THEN {} ELSE pageList[p]
  BY <1>1, ReleaseOwned DEF ExecStart
<1>6. ListMapped'
  BY <1>1, <1>3, <1>5 DEF HeapInv, ListMapped
<1>7. ImageMapped'
  BY <1>1, <1>2, <1>3 DEF HeapInv, ImageMapped, PagesOf
<1>8. ExecProgress'
  <2>1. PagesOf(cur)' = {}
    BY <1>1, <1>4 DEF PagesOf
  <2>2. 0 <= ProgramPages(n)
    BY ProgramPagesType
  <2> QED
    BY <1>1, <1>2, <2>1, <2>2, FirstPagesNone DEF ExecProgress
<1>9. HeapSizes' /\ ForkProgress'
  BY <1>1, <1>2 DEF HeapInv, HeapSizes, ForkProgress
<1> QED
  BY <1>6, <1>7, <1>8, <1>9 DEF HeapInv

LEMMA ExecPageHeap ==
  ASSUME SpaceInv, HeapInv, NEW f \in Frame, ExecPage(f) PROVE HeapInv'
<1> USE DEF SpaceInv, IsoInv
<1>1. op.kind = "exec" /\ op'.kind = "exec" /\ op'.at = op.at + 1 /\ op.at \in Nat
      /\ UNCHANGED <<mode, image, brk, cur>> /\ cur \in Pid /\ mode[cur] = "live"
  BY DEF ExecPage, Onward, TypeOK, CallShape
<1>2. PICK n \in ImageSizes : n = image[cur]
  BY <1>1 DEF CallShape
<1>3. op.at < ProgramPages(n) /\ ProgramPages(n) \in Nat
  BY <1>2, ProgramPagesType DEF ExecPage
<1>4. PICK v \in UserPage : v = PageAt(op.at, n)
  BY <1>1, <1>3, PageAtType
<1>5. \A q \in Pid, w \in UserPage :
        pte'[q][w] = IF q = cur /\ w = v THEN f ELSE pte[q][w]
  BY <1>2, <1>4, PageTypes DEF ExecPage, create_mapping, TypeOK
<1>6. \A q \in Pid : pageList'[q] = IF q = cur THEN pageList[q] \cup {f} ELSE pageList[q]
  BY DEF ExecPage, TakePage, TypeOK
<1>7. f # None /\ \A p \in Pid : None \notin pageList[p]
  BY PageTypes DEF TypeOK
<1>8. PagesOf(cur) = FirstPages(n, op.at)
  BY <1>1, <1>2 DEF HeapInv, ExecProgress
<1>9. FirstPages(n, op.at + 1) = FirstPages(n, op.at) \cup {v} /\ v \notin FirstPages(n, op.at)
  BY <1>1, <1>3, <1>4, FirstPagesGrow
<1>10. \A p \in Pid : p # cur => PagesOf(p)' = PagesOf(p)
  BY <1>5 DEF PagesOf
<1>11. PagesOf(cur)' = PagesOf(cur) \cup {v}
  BY <1>1, <1>5, <1>7 DEF PagesOf
<1>12. pte[cur][v] = None
  BY <1>8, <1>9 DEF PagesOf
<1>13. ExecProgress'
  BY <1>1, <1>2, <1>3, <1>8, <1>9, <1>11 DEF ExecProgress
<1>14. ImageMapped'
  BY <1>1, <1>10 DEF HeapInv, ImageMapped
<1>15. ListMapped'
  <2>1. SUFFICES ASSUME NEW p \in Pid, mode[p] \in {"none", "live"}
                 PROVE  \A g \in pageList'[p] : \E w \in UserPage : pte'[p][w] = g
    BY <1>1 DEF ListMapped
  <2>2. \A g \in pageList[p] : \E w \in UserPage : pte[p][w] = g
    BY <1>1, <2>1 DEF HeapInv, ListMapped
  <2>3. CASE p = cur
    <3>1. /\ \A w \in UserPage : pte'[p][w] = IF w = v THEN f ELSE pte[p][w]
          /\ pageList'[p] = pageList[p] \cup {f} /\ None \notin pageList[p]
          /\ pte[p][v] = None
      BY <1>5, <1>6, <1>7, <1>12, <2>3
    <3> QED
      BY <2>2, <3>1, MapsListed
  <2>4. CASE p # cur
    BY <1>5, <1>6, <2>2, <2>4
  <2> QED
    BY <2>3, <2>4
<1>16. HeapSizes' /\ ForkProgress'
  BY <1>1 DEF HeapInv, HeapSizes, ForkProgress
<1> QED
  BY <1>13, <1>14, <1>15, <1>16 DEF HeapInv

LEMMA ExecEndHeap ==
  ASSUME SpaceInv, HeapInv, ExecEnd PROVE HeapInv'
<1> USE DEF SpaceInv, IsoInv
<1>1. op.kind = "exec" /\ op.at = ProgramPages(image[cur]) /\ op'.kind = "user"
      /\ UNCHANGED <<mode, pageList, pte, image, cur>> /\ cur \in Pid
  BY DEF ExecEnd, Idle, TypeOK
<1>2. \A p \in Pid : brk'[p] = IF p = cur THEN 0 ELSE brk[p]
  BY DEF ExecEnd, TypeOK
<1>3. HeapSizes'
  BY <1>1, <1>2, SizesAssumption DEF HeapInv, HeapSizes
<1>4. PagesOf(cur) = FirstPages(image[cur], ProgramPages(image[cur]))
  BY <1>1 DEF HeapInv, ExecProgress
<1>5. ImageMapped'
  BY <1>1, <1>4 DEF HeapInv, ImageMapped, PagesOf
<1>6. ListMapped' /\ ExecProgress' /\ ForkProgress'
  BY <1>1 DEF HeapInv, ListMapped, ExecProgress, ForkProgress
<1> QED
  BY <1>3, <1>5, <1>6 DEF HeapInv

\* do_sbrk() accepts a size inside the heap only, whatever the sum wrapped to.
LEMMA SbrkHeap ==
  ASSUME SpaceInv, HeapInv, NEW increment \in Increments, Sbrk(increment) PROVE HeapInv'
<1> USE DEF SpaceInv, IsoInv
<1> DEFINE size == PlusInt(brk[cur], increment)
<1>1. cur \in Pid /\ increment \in Int /\ brk[cur] \in Int /\ HeapPages \in Nat
  BY SizesAssumption DEF TypeOK
<1>2. size \in Int /\ Fits(size)
  BY <1>1, PlusIntType DEF Sbrk
<1>3. \A p \in Pid : brk'[p] = IF p = cur THEN size ELSE brk[p]
  BY DEF Sbrk, TypeOK
<1> HIDE DEF size
<1>4. size \in 0..(HeapPages - 1)
  BY <1>1, <1>2 DEF Fits
<1>5. UNCHANGED image
  BY DEF Sbrk
<1>6. HeapSizes'
  BY <1>3, <1>4, <1>5 DEF HeapInv, HeapSizes
<1> QED
  BY <1>6, QuietHeap DEF Sbrk, InUser

LEMMA NextHeapInv == SpaceInv /\ HeapInv /\ [Next]_vars => HeapInv'
<1> SUFFICES ASSUME SpaceInv, HeapInv, [Next]_vars PROVE HeapInv'
  OBVIOUS
<1>1. TypeOK /\ FramesOwned /\ HeapSizes
  BY DEF SpaceInv, TransInv, IsoInv, HeapInv
<1>2. UNCHANGED <<image, brk>> => HeapSizes'
  BY <1>1 DEF HeapSizes
<1>3. CASE UNCHANGED vars
  BY <1>3 DEF vars, HeapInv, HeapSizes, ListMapped, ImageMapped, ExecProgress,
              ForkProgress, PagesOf
<1>4. ASSUME NEW v \in StorePages, Store(v) PROVE HeapInv'
  BY <1>2, <1>4, QuietHeap DEF Store, InUser
<1>5. ASSUME NEW p \in Pid, Switch(p) PROVE HeapInv'
  BY <1>2, <1>5, QuietHeap DEF Switch, InUser
<1>6. ASSUME NEW p \in Pid, ForkStart(p) PROVE HeapInv'
  BY <1>6, ForkStartHeap
<1>7. ASSUME NEW p \in Pid, Exit(p) PROVE HeapInv'
  <2>1. \A q \in Pid : mode'[q] \in {"none", "live"} => q # cur /\ mode'[q] = mode[q]
    BY <1>1, <1>7 DEF Exit, TypeOK
  <2>2. \A q \in Pid \ {cur} : pageList'[q] = pageList[q]
    BY <1>1, <1>7, ReleaseOwned DEF Exit, TypeOK
  <2>3. UNCHANGED <<image, brk, op, pte>> /\ op.kind = "user"
    BY <1>7 DEF Exit, InUser
  <2> QED
    BY <1>2, <2>1, <2>2, <2>3, QuietHeap
<1>8. ASSUME NEW p \in Pid, Reap(p) PROVE HeapInv'
  <2>1. \A q \in Pid : mode'[q] \in {"none", "live"} =>
                         mode'[q] = mode[q] /\ pte'[q] = pte[q]
    BY <1>1, <1>8 DEF Reap, reset_l1pgtable, TypeOK
  <2>2. UNCHANGED <<image, brk, op, pageList>> /\ op.kind = "user"
    BY <1>8 DEF Reap, InUser
  <2> QED
    BY <1>2, <2>1, <2>2, QuietHeap
<1>9. ASSUME NEW f \in Frame, ForkPage(f) PROVE HeapInv'
  BY <1>9, ForkPageHeap
<1>10. ASSUME NEW f \in Frame, ExecPage(f) PROVE HeapInv'
  BY <1>10, ExecPageHeap
<1>11. ASSUME NEW n \in ImageSizes, ExecStart(n) PROVE HeapInv'
  BY <1>11, ExecStartHeap
<1>12. ASSUME NEW increment \in Increments, Sbrk(increment) PROVE HeapInv'
  BY <1>12, SbrkHeap
<1>13. CASE ForkSkip
  BY <1>13, ForkSkipHeap
<1>14. CASE ForkEnd
  BY <1>14, ForkEndHeap
<1>15. CASE ExecEnd
  BY <1>15, ExecEndHeap
<1>16. CASE OutOfFrames
  BY <1>2, <1>16 DEF OutOfFrames, Panic, HeapInv, ListMapped, ImageMapped,
                     ExecProgress, ForkProgress
<1> QED
  BY <1>3, <1>4, <1>5, <1>6, <1>7, <1>8, <1>9, <1>10, <1>11, <1>12, <1>13, <1>14,
     <1>15, <1>16 DEF Next

\* A page list is as long as there are pages, each with a frame of its own.
LEMMA ListCount ==
  ASSUME SpaceInv, NEW p \in Pid, MapsOwn(p), IsFiniteSet(PagesOf(p)),
         \A f \in pageList[p] : \E v \in UserPage : pte[p][v] = f
  PROVE  Cardinality(pageList[p]) = Cardinality(PagesOf(p))
<1> DEFINE S == PagesOf(p)
           at == [v \in S |-> pte[p][v]]
<1>1. None \notin pageList[p]
  BY PageTypes DEF SpaceInv, TransInv, TypeOK
<1>2. at \in [S -> pageList[p]]
  BY DEF PagesOf, MapsOwn
<1>3. \A v, w \in S : at[v] = at[w] => v = w
  BY DEF PagesOf, MapsOwn
<1>4. \A f \in pageList[p] : \E v \in S : at[v] = f
  BY <1>1 DEF PagesOf
<1> HIDE DEF S, at
<1>5. ExistsBijection(S, pageList[p])
  BY <1>2, <1>3, <1>4
  DEF ExistsBijection, Bijection, Injection, Surjection, IsInjective
<1>6. IsFiniteSet(S)
  BY DEF S
<1>7. Cardinality(pageList[p]) = Cardinality(S)
  BY <1>5, <1>6, FS_Bijection
<1> QED
  BY <1>7 DEF S

LEMMA HeapInvSound == SpaceInv /\ HeapInv => HeapSound
<1> SUFFICES ASSUME SpaceInv, HeapInv, op.kind = "user",
                    NEW p \in Pid, mode[p] = "live", image[p] # 0
             PROVE  /\ \A i \in 0..brk[p] : pte[p][HeapBase(image[p]) + i] # None
                    /\ Cardinality(pageList[p]) = ProgramPages(image[p])
                    /\ \A f \in pageList[p] : \E v \in UserPage : pte[p][v] = f
  BY DEF HeapSound, HeapMapped, AreasApart, InUser
<1>1. PICK n \in ImageSizes : n = image[p]
  BY DEF HeapInv, HeapSizes
<1>2. PagesOf(p) = FirstPages(n, ProgramPages(n))
  BY <1>1 DEF HeapInv, ImageMapped
<1>3. ASSUME NEW i \in 0..brk[p] PROVE pte[p][HeapBase(image[p]) + i] # None
  <2>1. i \in 0..(HeapPages - 1)
    BY SizesAssumption DEF HeapInv, HeapSizes
  <2> QED
    BY <1>1, <1>2, <2>1, HeapPageAt DEF PagesOf
<1>4. \A f \in pageList[p] : \E v \in UserPage : pte[p][v] = f
  BY DEF HeapInv, ListMapped
<1>5. MapsOwn(p)
  BY DEF SpaceInv, IsoInv, TablesOwn
<1>6. Cardinality(pageList[p]) = ProgramPages(n)
  BY <1>2, <1>4, <1>5, FirstPagesCount, ListCount
<1> QED
  BY <1>1, <1>3, <1>4, <1>6

\* A program can use its heap up to the break, and each area has the frames it
\* asked for: heap, image, stack and arguments never meet.
THEOREM HeapStaysSound == Spec => []HeapSound
<1>1. Init => SpaceInv /\ HeapInv
  BY InitSpaceInv, InitHeapInv
<1>2. SpaceInv /\ HeapInv /\ [Next]_vars => (SpaceInv /\ HeapInv)'
  BY NextSpaceInv, NextHeapInv
<1> QED
  BY <1>1, <1>2, HeapInvSound, PTL DEF Spec

=============================================================================
