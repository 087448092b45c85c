------------------------------ MODULE MemReplace ------------------------------
(***************************************************************************)
(* The page replacement simulator lab07/usr/src/memreplace.c: sixteen      *)
(* pages, three frames, and LRU or WSClock to choose the page that leaves. *)
(* One step is one access typed by the user (one turn of main()'s loop).   *)
(* A page table entry is the set of its bits.                              *)
(***************************************************************************)
EXTENDS Integers, FiniteSets

CONSTANTS NB_PAGES,
          CounterRange, \* values of counters[] and globalCounter (2 ^ 8 in the code)
          TimeRange,    \* values of tvc and tdu[] (2 ^ 16 in the code)
          MaxAccesses   \* bound on the accesses of a run

ASSUME SizesAssumption ==
  /\ NB_PAGES \in Nat /\ NB_PAGES > 3
  /\ CounterRange \in Nat \ {0} /\ TimeRange \in Nat \ {0} /\ MaxAccesses \in Nat

DELTA == 2
Page == 0..(NB_PAGES - 1)
REF_BIT_MASK == {"ref"}
SWAP_BIT_MASK == {"swap"}
VALID_BIT_MASK == {"valid"}
Bits == REF_BIT_MASK \cup SWAP_BIT_MASK \cup VALID_BIT_MASK

VARIABLES
  algo,          \* the argument of the program: "LRU" or "WSC"
  page_table, counters, globalCounter, tvc, tdu,
  accesses,      \* how many accesses so far
  lastUse        \* lastUse[i]: the last access to page i, 0 if none

vars == <<algo, page_table, counters, globalCounter, tvc, tdu, accesses,
          lastUse>>

Resident(i) == page_table[i] \cap VALID_BIT_MASK # {}
Referenced(i) == page_table[i] \cap REF_BIT_MASK # {}
RAM == {i \in Page : Resident(i)}

TypeOK ==
  /\ algo \in {"LRU", "WSC"}
  /\ page_table \in [Page -> SUBSET Bits]
  /\ counters \in [Page -> 0..(CounterRange - 1)]
  /\ globalCounter \in 0..(CounterRange - 1)
  /\ tvc \in 0..(TimeRange - 1)
  /\ tdu \in [Page -> 0..(TimeRange - 1)]
  /\ accesses \in 0..MaxAccesses
  /\ lastUse \in [Page -> 0..MaxAccesses]

Init ==
  /\ algo \in {"LRU", "WSC"}
  /\ page_table = [i \in Page |-> IF i < 3 THEN VALID_BIT_MASK
                                  ELSE IF i = 3 THEN SWAP_BIT_MASK ELSE {}]
  /\ counters = [i \in Page |-> 0]
  /\ globalCounter = 0
  /\ tvc = 0
  /\ tdu = [i \in Page |-> 0]
  /\ accesses = 0
  /\ lastUse = [i \in Page |-> 0]

-----------------------------------------------------------------------------

\* Mutant: a counter with no width.
Unbounded(n, range) == n

\* Arithmetic of an unsigned integer of so many values.
Wrap(n, range) == n % range

\* Mutant: the page that leaves keeps its VALID bit.
OnlySwapSet(entry) == entry \cup SWAP_BIT_MASK

\* The end of both replacement functions: the victim goes to the swap.
SwapOut(entry) == (entry \ VALID_BIT_MASK) \cup SWAP_BIT_MASK

\* Mutant: SWAP is not cleared.
OnlyValidSet(entry) == entry \cup VALID_BIT_MASK

\* main(): the page accessed comes in.
SwapIn(entry) == (entry \ SWAP_BIT_MASK) \cup VALID_BIT_MASK

\* What every access ends with, for the properties.
Count(i) ==
  /\ accesses < MaxAccesses
  /\ accesses' = accesses + 1
  /\ lastUse' = [lastUse EXCEPT ![i] = accesses + 1]
  /\ UNCHANGED algo

\* Mutant: the comparison the other way round.
IsMostRecent(v) == Resident(v) /\ \A w \in RAM : counters[w] <= counters[v]

\* replaceLRU(): the smallest counter, the first of equals.
IsLRUVictim(v) ==
  /\ Resident(v)
  /\ \A w \in RAM : counters[v] < counters[w]
                      \/ (counters[v] = counters[w] /\ v <= w)

\* incCompteur()
incCompteur(i) ==
  /\ globalCounter' = Wrap(globalCounter + 1, CounterRange)
  /\ counters' = [counters EXCEPT ![i] = Wrap(globalCounter + 1, CounterRange)]

HitLRU(i) ==
  /\ algo = "LRU"
  /\ Resident(i)
  /\ incCompteur(i)
  /\ Count(i)
  /\ UNCHANGED <<page_table, tvc, tdu>>

FaultLRU(i) ==
  /\ algo = "LRU"
  /\ ~Resident(i)
  /\ \E v \in Page :
       /\ IsLRUVictim(v)
       /\ page_table' = [page_table EXCEPT ![v] = SwapOut(@), ![i] = SwapIn(@)]
  /\ incCompteur(i)
  /\ Count(i)
  /\ UNCHANGED <<tvc, tdu>>

-----------------------------------------------------------------------------

\* replaceWSC() stops the sweep at such a page.
IsOld(i) == Resident(i) /\ ~Referenced(i) /\ tvc - tdu[i] > DELTA

\* The pages the sweep goes through: all of them, or up to the first old one.
Swept == {i \in Page : \A j \in Page : j < i => ~IsOld(j)}

FirstIn(S, v) == v \in S /\ \A w \in S : v <= w

\* Mutant: the reference bit stays.
KeepRef(i) == page_table[i]

\* The entry of page i after the sweep.
AfterSweep(i) ==
  IF i \in Swept /\ Resident(i) THEN page_table[i] \ REF_BIT_MASK
  ELSE page_table[i]

\* The first old page, or for want of one the first resident page.
IsWSCVictim(v) ==
  LET old == {i \in Page : IsOld(i)}
  IN IF old # {} THEN FirstIn(old, v) ELSE FirstIn(RAM, v)

\* updateTDU(): page_table[i] & REF_BIT_MASK & VALID_BIT_MASK.
updateTDU(table, now) ==
  tdu' = [i \in Page |-> IF table[i] \cap REF_BIT_MASK \cap VALID_BIT_MASK # {}
                         THEN now ELSE tdu[i]]

\* The end of the turn: mark the page referenced, advance the virtual time.
Touch(table, i) ==
  LET after == [table EXCEPT ![i] = @ \cup REF_BIT_MASK \cup VALID_BIT_MASK]
  IN /\ page_table' = after
     /\ tvc' = Wrap(tvc + 1, TimeRange)
     /\ updateTDU(after, Wrap(tvc + 1, TimeRange))

HitWSC(i) ==
  /\ algo = "WSC"
  /\ Resident(i)
  /\ Touch(page_table, i)
  /\ Count(i)
  /\ UNCHANGED <<counters, globalCounter>>

FaultWSC(i) ==
  /\ algo = "WSC"
  /\ ~Resident(i)
  /\ \E v \in Page :
       /\ IsWSCVictim(v)
       /\ Touch([j \in Page |-> IF j = v THEN SwapOut(AfterSweep(j))
                                ELSE IF j = i THEN AfterSweep(j) \ SWAP_BIT_MASK
                                ELSE AfterSweep(j)], i)
  /\ Count(i)
  /\ UNCHANGED <<counters, globalCounter>>

Next ==
  \E i \in Page : HitLRU(i) \/ FaultLRU(i) \/ HitWSC(i) \/ FaultWSC(i)

Spec == Init /\ [][Next]_vars

-----------------------------------------------------------------------------
(* Properties *)

\* The three frames stay in use.
ThreeResident == Cardinality(RAM) = 3

\* A page is in memory or in the swap, never in both.
OneHome == \A i \in Page : ~(Resident(i) /\ page_table[i] \cap SWAP_BIT_MASK # {})

\* A page that leaves has lost its reference bit.
ReferencedIsResident == \A i \in Page : Referenced(i) => Resident(i)

\* After any accesses with either algorithm: a fault brings one page in and
\* puts one out, so the "valid page not found" exits of both functions are
\* never reached, none is in both places, and none comes back from the swap
\* as recently used.
TableConsistent == ThreeResident /\ OneHome /\ ReferencedIsResident

LeavesNow(v) == Resident(v) /\ v \notin RAM'

LeastRecent(v) == \A w \in RAM : lastUse[v] <= lastUse[w]

\* Until the 8-bit counter wraps, replaceLRU() takes out the page whose last
\* access is the oldest.
LRUUntilWrap ==
  [][algo = "LRU" /\ accesses < CounterRange
       => \A v \in Page : LeavesNow(v) => LeastRecent(v)]_vars

\* The time of last use of WSClock: after an access the page has the current
\* virtual time.
TDUFollowsUse ==
  algo = "WSC" =>
    \A i \in Page : accesses > 0 /\ lastUse[i] = accesses => tdu[i] = tvc

=============================================================================
