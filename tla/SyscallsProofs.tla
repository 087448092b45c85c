--------------------------- MODULE SyscallsProofs ---------------------------
(***************************************************************************)
(* Proofs about Syscalls.tla, for any number of processes and threads and  *)
(* any places of errno.                                                    *)
(*                                                                         *)
(* ErrnoDelivered is not inductive: AddrKnown follows errno_addr while the *)
(* call is in the kernel, and StillCleared the variable errno since the    *)
(* stub, both up to the two events the property makes an exception of.     *)
(***************************************************************************)
EXTENDS Syscalls, TLAPS

\* errno_addr is that of the last program that entered the kernel.
AddrKnown ==
  \A t \in Thread :
     pc[t] = "kernel" /\ ~foreign[t] => errno_addr = image[Owner[t]]

\* Nobody but the threads of a process touches its errno.
StillCleared ==
  \A t \in Thread :
     pc[t] \in {"trapped", "kernel"} /\ ~sibling[t] => errno(t) = "0"

ErrnoInv == TypeOK /\ AddrKnown /\ StillCleared /\ ErrnoDelivered

-----------------------------------------------------------------------------

LEMMA InitErrnoInv == Init => ErrnoInv
BY OwnerAssumption
DEF Init, Loaded, ErrnoInv, TypeOK, AddrKnown, StillCleared, ErrnoDelivered, Call

\* The fields keep their types; errno_addr is NULL until the first call.
LEMMA NextTypeOK == TypeOK /\ [Next]_vars => TypeOK'
<1> SUFFICES ASSUME TypeOK, [Next]_vars PROVE TypeOK'
  OBVIOUS
<1> USE OwnerAssumption DEF TypeOK, Call
<1>1. CASE UNCHANGED vars
  BY <1>1 DEF vars
<1>2. ASSUME NEW t \in Thread, NEW c \in Call, Stub(t, c) PROVE TypeOK'
  BY <1>2 DEF Stub, Cleared, Met
<1>3. ASSUME NEW t \in Thread, Enter(t) PROVE TypeOK'
  BY <1>3 DEF Enter, NewErrnoAddr
<1>4. ASSUME NEW t \in Thread, NEW r \in {0, -1}, NEW e \in {"0", t}, Ends(t, r, e)
      PROVE TypeOK'
  BY <1>4 DEF Ends, Met
<1>5. ASSUME NEW t \in Thread, Succeed(t) \/ Fail(t) \/ FailSilently(t) PROVE TypeOK'
  BY <1>4, <1>5 DEF Succeed, Fail, FailSilently, ResultOfFailure
<1>6. ASSUME NEW t \in Thread, Exec(t) PROVE TypeOK'
  BY <1>6 DEF Exec, Loaded
<1>7. ASSUME NEW t \in Thread, Resume(t) PROVE TypeOK'
  BY <1>7 DEF Resume
<1> QED
  BY <1>1, <1>2, <1>3, <1>5, <1>6, <1>7 DEF Next

-----------------------------------------------------------------------------
(* One lemma per kind of step. *)

LEMMA StubErrno ==
  ASSUME ErrnoInv, NEW t \in Thread, NEW c \in Call, Stub(t, c)
  PROVE  AddrKnown' /\ StillCleared' /\ ErrnoDelivered'
<1> USE OwnerAssumption DEF ErrnoInv, TypeOK
<1>1. AddrKnown'
  BY DEF Stub, AddrKnown
<1>2. \A u \in Thread : errno(u)' = IF Owner[u] = Owner[t] THEN "0" ELSE errno(u)
  BY DEF Stub, Cleared, errno
<1>3. StillCleared'
  BY <1>2 DEF Stub, StillCleared, Met, InCall, Siblings
<1>4. \A u \in Thread \ {t} : Owner[u] = Owner[t] /\ pc[u] = "back" => sibling'[u]
  BY DEF Stub, Met, InCall, Siblings
<1>5. ErrnoDelivered'
  BY <1>2, <1>4 DEF Stub, ErrnoDelivered, Silent, IsMain, Met
<1> QED
  BY <1>1, <1>3, <1>5

LEMMA EnterErrno ==
  ASSUME ErrnoInv, NEW t \in Thread, Enter(t)
  PROVE  AddrKnown' /\ StillCleared' /\ ErrnoDelivered'
<1> USE OwnerAssumption DEF ErrnoInv, TypeOK
<1>1. AddrKnown'
  BY DEF Enter, NewErrnoAddr, AddrKnown
<1>2. StillCleared'
  BY DEF Enter, StillCleared, errno
<1>3. ErrnoDelivered'
  BY DEF Enter, ErrnoDelivered, Silent, IsMain, errno
<1> QED
  BY <1>1, <1>2, <1>3

\* set_errno() hits errno of the caller, or an address of another program.
LEMMA EndsErrno ==
  ASSUME ErrnoInv, NEW t \in Thread, NEW r \in {0, -1}, NEW e \in {"0", t},
         Ends(t, r, e),
         r = -1 => e = IF Silent(t) THEN "0" ELSE t,
         r = 0 /\ call[t] # "dropped" => e = "0"
  PROVE  AddrKnown' /\ StillCleared' /\ ErrnoDelivered'
<1> USE OwnerAssumption DEF ErrnoInv, TypeOK
<1>1. AddrKnown'
  BY DEF Ends, AddrKnown
<1>2. \A u \in Thread : Owner[u] # Owner[t] => errno(u)' = errno(u)
  BY DEF Ends, errno
<1>3. \A u \in Thread \ {t} :
        Owner[u] = Owner[t] /\ pc[u] # "user" => sibling'[u]
  BY DEF Ends, Met, InCall, Siblings
<1>4. StillCleared'
  BY <1>2, <1>3 DEF Ends, StillCleared, Met
<1>5. ASSUME ~foreign[t], ~sibling[t] PROVE errno(t)' = e
  <2>1. errno_addr = image[Owner[t]] /\ errno(t) = "0"
    BY <1>5 DEF Ends, AddrKnown, StillCleared
  <2>2. errno_addr # NULL
    BY <2>1, NullAssumption
  <2> QED
    BY <2>1, <2>2 DEF Ends, errno
<1>6. ErrnoDelivered'
  <2> SUFFICES ASSUME NEW u \in Thread, pc'[u] = "back", ~foreign'[u], ~sibling'[u]
               PROVE  /\ result'[u] = -1 =>
                            errno(u)' = IF Silent(u)' THEN "0" ELSE u
                      /\ result'[u] = 0 /\ call'[u] # "dropped" => errno(u)' = "0"
    BY DEF ErrnoDelivered
  <2>1. ~foreign[u] /\ ~sibling[u] /\ (Silent(u)' <=> Silent(u))
    BY DEF Ends, Met, Silent, IsMain
  <2>2. CASE u = t
    BY <1>5, <2>1, <2>2 DEF Ends
  <2>3. CASE u # t
    <3>1. pc[u] = "back" /\ Owner[u] # Owner[t]
      BY <1>3, <2>3 DEF Ends
    <3> QED
      BY <1>2, <2>1, <2>3, <3>1 DEF Ends, ErrnoDelivered
  <2> QED
    BY <2>2, <2>3
<1> QED
  BY <1>1, <1>4, <1>6

LEMMA ExecErrno ==
  ASSUME ErrnoInv, NEW t \in Thread, Exec(t)
  PROVE  AddrKnown' /\ StillCleared' /\ ErrnoDelivered'
<1> USE OwnerAssumption DEF ErrnoInv, TypeOK
<1>1. \A u \in Thread \ {t} : Owner[u] # Owner[t]
  BY DEF Exec, Siblings
<1>2. \A u \in Thread \ {t} : image'[Owner[u]] = image[Owner[u]] /\ errno(u)' = errno(u)
  BY <1>1 DEF Exec, errno
<1> QED
  BY <1>2 DEF Exec, AddrKnown, StillCleared, ErrnoDelivered, Silent, IsMain

LEMMA ResumeErrno ==
  ASSUME ErrnoInv, NEW t \in Thread, Resume(t)
  PROVE  AddrKnown' /\ StillCleared' /\ ErrnoDelivered'
BY OwnerAssumption
DEF Resume, ErrnoInv, TypeOK, AddrKnown, StillCleared, ErrnoDelivered, Silent, IsMain, errno

LEMMA NextErrnoInv == ErrnoInv /\ [Next]_vars => ErrnoInv'
<1> SUFFICES ASSUME ErrnoInv, [Next]_vars PROVE ErrnoInv'
  OBVIOUS
<1>1. TypeOK'
  BY NextTypeOK DEF ErrnoInv
<1>2. CASE UNCHANGED vars
  BY <1>1, <1>2 DEF vars, ErrnoInv, AddrKnown, StillCleared, ErrnoDelivered, Silent, IsMain, errno
<1>3. ASSUME NEW t \in Thread, Succeed(t) \/ Fail(t) \/ FailSilently(t)
      PROVE AddrKnown' /\ StillCleared' /\ ErrnoDelivered'
  BY <1>3, EndsErrno DEF Succeed, Fail, FailSilently, Silent, ResultOfFailure
<1> QED
  BY <1>1, <1>2, <1>3, StubErrno, EnterErrno, ExecErrno, ResumeErrno
  DEF Next, ErrnoInv

-----------------------------------------------------------------------------

\* The types of the variables of crt0.S and syscalls.c.
THEOREM TypeCorrect == Spec => []TypeOK
<1>1. Init => TypeOK
  BY InitErrnoInv DEF ErrnoInv
<1> QED
  BY <1>1, NextTypeOK, PTL DEF Spec

\* Unless another program has called meanwhile or another thread of the
\* process, errno is right: 0 after a success, the number of this call after
\* a failure, and 0 after the failures that have no number, a fork of a
\* secondary thread among them.
THEOREM ErrnoReachesCaller == Spec => []ErrnoDelivered
<1>1. ErrnoInv => ErrnoDelivered
  BY DEF ErrnoInv
<1> QED
  BY <1>1, InitErrnoInv, NextErrnoInv, PTL DEF Spec

\* set_errno() stores outside errno only after such a call.
THEOREM StoresStayInErrno == Spec => NoStrayStore
<1>1. ASSUME ErrnoInv, NEW t \in Thread, NEW a \in Addr,
             Fail(t), a # image[Owner[t]], word'[Owner[t]][a] # word[Owner[t]][a]
      PROVE  foreign[t]
  <2>1. errno_addr # image[Owner[t]]
    BY <1>1, OwnerAssumption DEF Fail, Ends, ErrnoInv, TypeOK
  <2> QED
    BY <1>1, <2>1 DEF Fail, Ends, ErrnoInv, AddrKnown
<1>2. ErrnoInv /\ [Next]_vars =>
        [\A t \in Thread, a \in Addr :
           Fail(t) /\ a # image[Owner[t]] /\ word'[Owner[t]][a] # word[Owner[t]][a]
             => foreign[t]]_vars
  BY <1>1
<1> QED
  BY <1>2, InitErrnoInv, NextErrnoInv, PTL DEF Spec, NoStrayStore

-----------------------------------------------------------------------------
(* What would be needed for more: errno at one address in all programs, so *)
(* that no call is foreign, and no second thread.                          *)

OneAddress == \A a, b \in Addr : a = b
OneThread == \A t, u \in Thread : Owner[t] = Owner[u] => t = u

NoneForeign == \A t \in Thread : ~foreign[t]
NoSibling == \A t \in Thread : ~sibling[t]

LEMMA NoneForeignKept ==
  ASSUME OneAddress, ErrnoInv, NoneForeign, [Next]_vars
  PROVE  NoneForeign'
<1> USE OwnerAssumption DEF ErrnoInv, TypeOK, NoneForeign
<1>1. CASE UNCHANGED vars
  BY <1>1 DEF vars
<1>2. ASSUME NEW t \in Thread, Enter(t) PROVE NoneForeign'
  <2>1. \A u \in Thread : image[Owner[u]] = image[Owner[t]]
    BY DEF OneAddress
  <2> QED
    BY <1>2, <2>1 DEF Enter
<1>3. ASSUME NEW t \in Thread, NEW c \in Call, Stub(t, c) PROVE NoneForeign'
  BY <1>3 DEF Stub
<1>4. ASSUME NEW t \in Thread,
             Succeed(t) \/ Fail(t) \/ FailSilently(t) \/ Exec(t) \/ Resume(t)
      PROVE NoneForeign'
  BY <1>4 DEF Succeed, Fail, FailSilently, Ends, Exec, Resume
<1> QED
  BY <1>1, <1>2, <1>3, <1>4 DEF Next

LEMMA NoSiblingKept ==
  ASSUME OneThread, ErrnoInv, NoSibling, [Next]_vars
  PROVE  NoSibling'
<1> USE OwnerAssumption DEF ErrnoInv, TypeOK, NoSibling
<1>1. \A t \in Thread : Siblings(t) = {}
  BY DEF Siblings, OneThread
<1>2. ASSUME NEW t \in Thread, Met(t) PROVE NoSibling'
  BY <1>1, <1>2 DEF Met
<1>3. CASE UNCHANGED vars
  BY <1>3 DEF vars
<1>4. ASSUME NEW t \in Thread, NEW c \in Call, Stub(t, c) PROVE NoSibling'
  BY <1>2, <1>4 DEF Stub
<1>5. ASSUME NEW t \in Thread, Succeed(t) \/ Fail(t) \/ FailSilently(t)
      PROVE NoSibling'
  BY <1>2, <1>5 DEF Succeed, Fail, FailSilently, Ends
<1>6. ASSUME NEW t \in Thread, Enter(t) \/ Exec(t) \/ Resume(t) PROVE NoSibling'
  BY <1>6 DEF Enter, Exec, Resume
<1> QED
  BY <1>3, <1>4, <1>5, <1>6 DEF Next

\* If all programs had errno at one address, the one errno_addr of the kernel
\* would do for every number set_errno() is called with: it reaches the
\* process whose call failed.  It helps none of the calls that fail silently.
THEOREM OneAddressKeepsNumbers ==
  ASSUME OneAddress PROVE Spec => []ErrnoKept
<1>1. Init => NoneForeign
  BY DEF Init, NoneForeign
<1>2. ErrnoInv /\ NoneForeign /\ [Next]_vars => NoneForeign'
  BY NoneForeignKept
<1>3. ErrnoInv /\ NoneForeign => ErrnoKept
  BY DEF ErrnoInv, ErrnoDelivered, ErrnoKept, NoneForeign
<1> QED
  BY <1>1, <1>2, <1>3, InitErrnoInv, NextErrnoInv, PTL DEF Spec

\* With programs of one thread as well, the only -1 without its own number in
\* errno is that of a call in which nobody calls set_errno(): fork is then
\* never refused.
THEOREM OneThreadOneAddress ==
  ASSUME OneAddress, OneThread
  PROVE  Spec => [](\A t \in Thread : pc[t] = "back" /\ result[t] = -1 =>
                      errno(t) = IF call[t] = "noErrno" THEN "0" ELSE t)
<1> DEFINE Told == \A t \in Thread : pc[t] = "back" /\ result[t] = -1 =>
                     errno(t) = IF call[t] = "noErrno" THEN "0" ELSE t
<1>1. Init => NoneForeign /\ NoSibling
  BY DEF Init, NoneForeign, NoSibling
<1>2. ErrnoInv /\ NoneForeign /\ NoSibling /\ [Next]_vars
        => NoneForeign' /\ NoSibling'
  BY NoneForeignKept, NoSiblingKept
<1>3. \A t \in Thread : IsMain(t)
  BY OwnerAssumption, MainAssumption DEF OneThread, IsMain
<1>4. ErrnoInv /\ NoneForeign /\ NoSibling => Told
  BY <1>3 DEF ErrnoInv, ErrnoDelivered, NoneForeign, NoSibling, Silent
<1> HIDE DEF Told
<1>5. Spec => []Told
  BY <1>1, <1>2, <1>4, InitErrnoInv, NextErrnoInv, PTL DEF Spec
<1> QED
  BY <1>5 DEF Told

=============================================================================
