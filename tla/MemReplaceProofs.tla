-------------------------- MODULE MemReplaceProofs --------------------------
(***************************************************************************)
(* Proofs about MemReplace.tla, for any number of pages, any width of the  *)
(* counters and any number of accesses.                                    *)
(*                                                                         *)
(* TableConsistent is inductive together with LRUHasNoRef, since LRU does  *)
(* not clear the reference bit of the page it puts out.  That LRU deserves *)
(* its name rests on CountersAreDates: until it wraps, the counter of a    *)
(* page is the number of its last access.                                  *)
(***************************************************************************)
EXTENDS MemReplace, FiniteSetTheorems, TLAPS

LRUHasNoRef == algo = "LRU" => \A i \in Page : ~Referenced(i)

\* Date n of an access fits a counter while n < CounterRange.
CountersAreDates ==
  algo = "LRU" /\ accesses < CounterRange =>
    globalCounter = accesses /\ counters = lastUse

TableInv == TypeOK /\ IsFiniteSet(RAM) /\ TableConsistent /\ LRUHasNoRef

-----------------------------------------------------------------------------
(* Wrap: arithmetic of an unsigned integer. *)

LEMMA WrapType ==
  ASSUME NEW n \in Nat, NEW range \in Nat \ {0} PROVE Wrap(n, range) \in 0..(range - 1)
BY DEF Wrap

LEMMA WrapSmall ==
  ASSUME NEW range \in Nat \ {0}, NEW n \in 0..(range - 1) PROVE Wrap(n, range) = n
BY DEF Wrap

-----------------------------------------------------------------------------
(* One page comes in for one that leaves. *)

LEMMA OneForOne ==
  ASSUME NEW S, IsFiniteSet(S), Cardinality(S) = 3, NEW v \in S, NEW i, i \notin S
  PROVE  IsFiniteSet((S \ {v}) \cup {i}) /\ Cardinality((S \ {v}) \cup {i}) = 3
<1>1. IsFiniteSet(S \ {v}) /\ Cardinality(S \ {v}) = 2
  BY FS_RemoveElement
<1>2. i \notin S \ {v}
  OBVIOUS
<1> QED
  BY <1>1, <1>2, FS_AddElement

LEMMA InitTableInv == Init => TableInv
<1> SUFFICES ASSUME Init PROVE TableInv
  OBVIOUS
<1> USE SizesAssumption
<1>1. TypeOK
  BY DEF Init, TypeOK, Page, Bits, VALID_BIT_MASK, SWAP_BIT_MASK
<1>2. RAM = 0..2
  <2>1. \A i \in Page : Resident(i) <=> i < 3
    BY DEF Init, Resident, VALID_BIT_MASK, SWAP_BIT_MASK
  <2>2. \A i : i \in Page /\ i < 3 <=> i \in 0..2
    BY DEF Page
  <2> QED
    BY <2>1, <2>2 DEF RAM
<1>3. IsFiniteSet(RAM) /\ ThreeResident
  <2>1. 0..2 = ({0} \cup {1}) \cup {2}
    OBVIOUS
  <2>2. IsFiniteSet({0}) /\ Cardinality({0}) = 1
    BY FS_Singleton
  <2>3. IsFiniteSet({0} \cup {1}) /\ Cardinality({0} \cup {1}) = 2
    BY <2>2, FS_AddElement
  <2>4. IsFiniteSet(({0} \cup {1}) \cup {2}) /\ Cardinality(({0} \cup {1}) \cup {2}) = 3
    BY <2>3, FS_AddElement
  <2> QED
    BY <1>2, <2>1, <2>4 DEF ThreeResident
<1>4. OneHome /\ ReferencedIsResident /\ LRUHasNoRef
  BY DEF Init, OneHome, ReferencedIsResident, LRUHasNoRef, Referenced, Resident,
         REF_BIT_MASK, VALID_BIT_MASK, SWAP_BIT_MASK
<1> QED
  BY <1>1, <1>3, <1>4 DEF TableInv, TableConsistent

LEMMA CountType ==
  ASSUME TypeOK, NEW i \in Page, Count(i)
  PROVE  /\ algo' = algo
         /\ accesses' = accesses + 1 /\ accesses' \in 0..MaxAccesses
         /\ lastUse' = [lastUse EXCEPT ![i] = accesses']
         /\ lastUse' \in [Page -> 0..MaxAccesses]
BY SizesAssumption DEF TypeOK, Count

LEMMA CounterType ==
  ASSUME TypeOK, NEW i \in Page, incCompteur(i)
  PROVE  /\ globalCounter' \in 0..(CounterRange - 1)
         /\ counters' \in [Page -> 0..(CounterRange - 1)]
<1>1. Wrap(globalCounter + 1, CounterRange) \in 0..(CounterRange - 1)
  BY SizesAssumption, WrapType DEF TypeOK
<1> QED
  BY <1>1 DEF incCompteur, TypeOK

LEMMA TouchType ==
  ASSUME TypeOK, NEW table \in [Page -> SUBSET Bits], NEW i \in Page, Touch(table, i)
  PROVE  /\ page_table' \in [Page -> SUBSET Bits]
         /\ tvc' \in 0..(TimeRange - 1)
         /\ tdu' \in [Page -> 0..(TimeRange - 1)]
<1>1. Wrap(tvc + 1, TimeRange) \in 0..(TimeRange - 1)
  BY SizesAssumption, WrapType DEF TypeOK
<1>2. page_table' \in [Page -> SUBSET Bits]
  BY DEF Touch, Bits
<1> QED
  BY <1>1, <1>2 DEF Touch, updateTDU, TypeOK

\* The table a page fault of WSClock hands to Touch.
WSCTable(v, i) ==
  [j \in Page |-> IF j = v THEN SwapOut(AfterSweep(j))
                  ELSE IF j = i THEN AfterSweep(j) \ SWAP_BIT_MASK
                  ELSE AfterSweep(j)]

LEMMA WSCTableType ==
  ASSUME TypeOK, NEW v \in Page, NEW i \in Page
  PROVE  WSCTable(v, i) \in [Page -> SUBSET Bits]
BY DEF TypeOK, WSCTable, AfterSweep, SwapOut, Bits

LEMMA NextTypeOK == TypeOK /\ [Next]_vars => TypeOK'
<1> SUFFICES ASSUME TypeOK, [Next]_vars PROVE TypeOK'
  OBVIOUS
<1>1. CASE UNCHANGED vars
  BY <1>1 DEF vars, TypeOK
<1>2. ASSUME NEW i \in Page, HitLRU(i) PROVE TypeOK'
  BY <1>2, CountType, CounterType DEF HitLRU, TypeOK
<1>3. ASSUME NEW i \in Page, FaultLRU(i) PROVE TypeOK'
  <2>1. page_table' \in [Page -> SUBSET Bits]
    BY <1>3 DEF FaultLRU, TypeOK, SwapOut, SwapIn, Bits
  <2> QED
    BY <1>3, <2>1, CountType, CounterType DEF FaultLRU, TypeOK
<1>4. ASSUME NEW i \in Page, HitWSC(i) PROVE TypeOK'
  <2>1. page_table \in [Page -> SUBSET Bits]
    BY DEF TypeOK
  <2> QED
    BY <1>4, <2>1, CountType, TouchType DEF HitWSC, TypeOK
<1>5. ASSUME NEW i \in Page, FaultWSC(i) PROVE TypeOK'
  <2>1. PICK v \in Page : Touch(WSCTable(v, i), i)
    BY <1>5 DEF FaultWSC, WSCTable
  <2> QED
    BY <1>5, <2>1, WSCTableType, CountType, TouchType DEF FaultWSC, TypeOK
<1> QED
  BY <1>1, <1>2, <1>3, <1>4, <1>5 DEF Next

-----------------------------------------------------------------------------
(* The page table, one lemma per kind of access. *)

\* What is to be shown of a page fault: v leaves, i comes in.
Swaps(v, i) ==
  /\ v \in Page /\ Resident(v) /\ ~Resident(i)
  /\ "valid" \notin page_table'[v] /\ "valid" \in page_table'[i]
  /\ "swap" \notin page_table'[i]
  /\ \A j \in Page \ {v, i} : /\ "valid" \in page_table'[j] <=> "valid" \in page_table[j]
                              /\ "swap" \in page_table'[j] => "swap" \in page_table[j]

LEMMA FaultRAM ==
  ASSUME TableInv, NEW v, NEW i \in Page, Swaps(v, i)
  PROVE  IsFiniteSet(RAM)' /\ ThreeResident' /\ OneHome'
<1> USE DEF VALID_BIT_MASK, SWAP_BIT_MASK
<1>1. v \in RAM /\ i \notin RAM
  BY DEF Swaps, RAM
<1>2. RAM' = (RAM \ {v}) \cup {i}
  BY <1>1 DEF Swaps, RAM, Resident
<1>3. IsFiniteSet(RAM) /\ Cardinality(RAM) = 3
  BY DEF TableInv, TableConsistent, ThreeResident
<1>4. IsFiniteSet(RAM') /\ Cardinality(RAM') = 3
  BY <1>1, <1>2, <1>3, OneForOne
<1>5. OneHome'
  BY DEF Swaps, OneHome, Resident, TableInv, TableConsistent
<1> QED
  BY <1>4, <1>5 DEF ThreeResident

LEMMA FaultLRUTable ==
  ASSUME TableInv, NEW i \in Page, FaultLRU(i)
  PROVE  IsFiniteSet(RAM)' /\ TableConsistent' /\ LRUHasNoRef'
<1> USE DEF REF_BIT_MASK, VALID_BIT_MASK, SWAP_BIT_MASK
<1>1. PICK v \in Page :
        /\ IsLRUVictim(v)
        /\ page_table' = [page_table EXCEPT ![v] = SwapOut(@), ![i] = SwapIn(@)]
  BY DEF FaultLRU
<1>2. Swaps(v, i)
  BY <1>1 DEF FaultLRU, IsLRUVictim, Swaps, SwapOut, SwapIn, Resident, TableInv, TypeOK
<1>3. \A j \in Page : ~Referenced(j)'
  BY <1>1 DEF FaultLRU, LRUHasNoRef, Referenced, SwapOut, SwapIn, TableInv, TypeOK
<1> QED
  BY <1>2, <1>3, FaultRAM DEF TableConsistent, ReferencedIsResident, LRUHasNoRef

\* The page WSClock puts out has no reference bit after the sweep.
LEMMA VictimSwept ==
  ASSUME TableInv, NEW v \in Page, IsWSCVictim(v)
  PROVE  Resident(v) /\ "ref" \notin AfterSweep(v)
<1> USE DEF REF_BIT_MASK, VALID_BIT_MASK
<1>1. CASE \E j \in Page : IsOld(j)
  <2>1. IsOld(v)
    BY <1>1 DEF IsWSCVictim, FirstIn
  <2> QED
    BY <2>1 DEF IsOld, Resident, Referenced, AfterSweep
<1>2. CASE \A j \in Page : ~IsOld(j)
  <2>1. v \in RAM /\ v \in Swept
    BY <1>2 DEF IsWSCVictim, FirstIn, Swept
  <2> QED
    BY <2>1 DEF RAM, Resident, AfterSweep
<1> QED
  BY <1>1, <1>2

LEMMA FaultWSCTable ==
  ASSUME TableInv, NEW i \in Page, FaultWSC(i)
  PROVE  IsFiniteSet(RAM)' /\ TableConsistent' /\ LRUHasNoRef'
<1> USE DEF REF_BIT_MASK, VALID_BIT_MASK, SWAP_BIT_MASK
<1>1. PICK v \in Page : IsWSCVictim(v) /\ Touch(WSCTable(v, i), i)
  BY DEF FaultWSC, WSCTable
<1>2. Resident(v) /\ "ref" \notin AfterSweep(v) /\ v # i
  BY <1>1, VictimSwept DEF FaultWSC
<1>3. page_table' = [WSCTable(v, i) EXCEPT ![i] = @ \cup {"ref"} \cup {"valid"}]
  BY <1>1 DEF Touch
<1>4. \A j \in Page :
        page_table'[j] = IF j = v THEN SwapOut(AfterSweep(j))
                         ELSE IF j = i THEN (AfterSweep(j) \ {"swap"}) \cup {"ref", "valid"}
                         ELSE AfterSweep(j)
  BY <1>2, <1>3 DEF WSCTable
<1>5. \A j \in Page : /\ "valid" \in AfterSweep(j) <=> "valid" \in page_table[j]
                      /\ "swap" \in AfterSweep(j) <=> "swap" \in page_table[j]
                      /\ "ref" \in AfterSweep(j) => "ref" \in page_table[j]
  BY DEF AfterSweep
<1>6. Swaps(v, i)
  BY <1>2, <1>4, <1>5 DEF FaultWSC, Swaps, SwapOut
<1>7. ReferencedIsResident'
  BY <1>2, <1>4, <1>5
  DEF ReferencedIsResident, Referenced, Resident, SwapOut, TableInv, TableConsistent
<1>8. algo' = "WSC"
  BY DEF FaultWSC, Count
<1> QED
  BY <1>6, <1>7, <1>8, FaultRAM DEF TableConsistent, LRUHasNoRef

LEMMA HitWSCTable ==
  ASSUME TableInv, NEW i \in Page, HitWSC(i)
  PROVE  IsFiniteSet(RAM)' /\ TableConsistent' /\ LRUHasNoRef'
<1> USE DEF REF_BIT_MASK, VALID_BIT_MASK, SWAP_BIT_MASK
<1>1. page_table' = [page_table EXCEPT ![i] = @ \cup {"ref"} \cup {"valid"}]
  BY DEF HitWSC, Touch
<1>2. \A j \in Page : /\ Resident(j)' <=> Resident(j)
                      /\ "swap" \in page_table'[j] <=> "swap" \in page_table[j]
                      /\ Referenced(j)' => Referenced(j) \/ j = i
  BY <1>1 DEF HitWSC, Resident, Referenced, TableInv, TypeOK
<1>3. RAM' = RAM
  BY <1>2 DEF RAM
<1>4. OneHome' /\ ReferencedIsResident'
  BY <1>2 DEF HitWSC, OneHome, ReferencedIsResident, TableInv, TableConsistent
<1> QED
  BY <1>3, <1>4 DEF HitWSC, Count, TableInv, TableConsistent, ThreeResident, LRUHasNoRef

LEMMA NextTableInv == TableInv /\ [Next]_vars => TableInv'
<1> SUFFICES ASSUME TableInv, [Next]_vars PROVE TableInv'
  OBVIOUS
<1>1. TypeOK'
  BY NextTypeOK DEF TableInv
<1>2. ASSUME UNCHANGED <<page_table, algo>> PROVE TableInv'
  BY <1>1, <1>2 DEF TableInv, TableConsistent, ThreeResident, OneHome,
                    ReferencedIsResident, LRUHasNoRef, Referenced, Resident, RAM
<1>3. ASSUME NEW i \in Page, HitLRU(i) PROVE UNCHANGED <<page_table, algo>>
  BY <1>3 DEF HitLRU, Count
<1> QED
  BY <1>1, <1>2, <1>3, FaultLRUTable, FaultWSCTable, HitWSCTable DEF Next, vars, TableInv

-----------------------------------------------------------------------------
(* LRU *)

LEMMA NextDates ==
  ASSUME TypeOK, CountersAreDates, [Next]_vars PROVE CountersAreDates'
<1>1. CASE UNCHANGED vars
  BY <1>1 DEF vars, CountersAreDates
<1>2. ASSUME NEW i \in Page, HitLRU(i) \/ FaultLRU(i) PROVE CountersAreDates'
  <2> SUFFICES ASSUME accesses' < CounterRange
               PROVE  globalCounter' = accesses' /\ counters' = lastUse'
    BY DEF CountersAreDates
  <2>1. incCompteur(i) /\ Count(i) /\ algo = "LRU"
    BY <1>2 DEF HitLRU, FaultLRU
  <2>2. accesses \in Nat /\ accesses' = accesses + 1 /\ CounterRange \in Nat \ {0}
    BY <2>1, CountType, SizesAssumption DEF TypeOK
  <2>3. globalCounter = accesses /\ counters = lastUse
    BY <2>1, <2>2 DEF CountersAreDates
  <2>4. accesses + 1 \in 0..(CounterRange - 1)
    BY <2>2
  <2>5. Wrap(accesses + 1, CounterRange) = accesses + 1
    BY <2>2, <2>4, WrapSmall
  <2> QED
    BY <2>1, <2>2, <2>3, <2>5 DEF incCompteur, Count
<1>3. ASSUME NEW i \in Page, HitWSC(i) \/ FaultWSC(i) PROVE CountersAreDates'
  BY <1>3 DEF HitWSC, FaultWSC, Count, CountersAreDates
<1> QED
  BY <1>1, <1>2, <1>3 DEF Next

LEMMA VictimIsLeastRecent ==
  ASSUME TypeOK, CountersAreDates, [Next]_vars, algo = "LRU",
         accesses < CounterRange, NEW v \in Page, LeavesNow(v)
  PROVE  LeastRecent(v)
<1> USE DEF VALID_BIT_MASK, SWAP_BIT_MASK
<1>1. PICK i \in Page : FaultLRU(i)
  BY DEF Next, vars, LeavesNow, HitLRU, HitWSC, FaultWSC, RAM, Resident
<1>2. PICK u \in Page :
        /\ IsLRUVictim(u)
        /\ page_table' = [page_table EXCEPT ![u] = SwapOut(@), ![i] = SwapIn(@)]
  BY <1>1 DEF FaultLRU
<1>3. u = v
  BY <1>2 DEF LeavesNow, RAM, Resident, SwapIn, TypeOK
<1>4. counters = lastUse
  BY DEF CountersAreDates
<1>5. RAM \subseteq Page
  BY DEF RAM
<1> QED
  BY <1>2, <1>3, <1>4, <1>5, SizesAssumption DEF IsLRUVictim, LeastRecent, TypeOK

-----------------------------------------------------------------------------

\* The unsigned counters and the bits of the entries keep their ranges.
THEOREM TypeCorrect == Spec => []TypeOK
<1>1. Init => TypeOK
  BY InitTableInv DEF TableInv
<1> QED
  BY <1>1, NextTypeOK, PTL DEF Spec

\* The page table of the simulator stays consistent with both algorithms.
THEOREM TableStaysConsistent == Spec => []TableConsistent
<1>1. TableInv => TableConsistent
  BY DEF TableInv
<1> QED
  BY <1>1, InitTableInv, NextTableInv, PTL DEF Spec

\* replaceLRU() is LRU for as many accesses as globalCounter has values.
THEOREM LRUBeforeWrap == Spec => LRUUntilWrap
<1>1. Init => TypeOK /\ CountersAreDates
  BY InitTableInv DEF TableInv, Init, CountersAreDates
<1>2. TypeOK /\ CountersAreDates /\ [Next]_vars => (TypeOK /\ CountersAreDates)'
  BY NextTypeOK, NextDates
<1>3. TypeOK /\ CountersAreDates /\ [Next]_vars =>
        [algo = "LRU" /\ accesses < CounterRange
           => \A v \in Page : LeavesNow(v) => LeastRecent(v)]_vars
  BY VictimIsLeastRecent
<1> QED
  BY <1>1, <1>2, <1>3, PTL DEF Spec, LRUUntilWrap

=============================================================================
