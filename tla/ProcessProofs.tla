---------------------------- MODULE ProcessProofs ----------------------------
(***************************************************************************)
(* Proofs about Process.tla, for every MaxPid, and for both values of      *)
(* AnyPid unless a theorem says otherwise.                                 *)
(*                                                                         *)
(* None of the invariants is inductive alone.  PcbShape ties the fields of *)
(* a PCB to where its thread is; QueueShape ties the join queues to the    *)
(* blocked callers of waitpid(), in both directions; OwnChild says what    *)
(* the discipline of the programs (wait for one's own children) adds.      *)
(*                                                                         *)
(* The last section shows that with such programs every behaviour is one   *)
(* of WaitContract.tla, its fairness aside.                                *)
(***************************************************************************)
EXTENDS Process, WellFoundedInduction, TLAPS

InKernelOrUser == {"user", "exiting", "joining", "woken"}

\* What the fields of a PCB say about each other.
PcbShape ==
  \A p \in Pid :
    /\ p >= pid_current => /\ pc[p] = "none" /\ p \notin procList
                           /\ joinQueue[p] = {}
    /\ p < pid_current => pc[p] # "none"
    /\ pc[p] \in InKernelOrUser <=> mainThread[p] = "live"
    /\ pc[p] = "dead" <=> state[p] = "zombie"
    /\ mainThread[p] # "none" => p \in procList /\ pgtable[p] = "live"

\* The queues and the blocked callers are the same fact seen twice.
QueueShape ==
  /\ \A p, q \in Pid : q \in joinQueue[p] =>
       pc[q] = "joining" /\ child[q] = p /\ mainThread[p] = "live"
  /\ \A q \in Pid : pc[q] = "joining" =>
       child[q] \in Pid /\ q \in joinQueue[child[q]]
  /\ \A q \in Pid : pc[q] = "woken" =>
       child[q] \in Pid /\ child[q] < pid_current
                        /\ mainThread[child[q]] # "live"

\* With programs that wait for their own uncollected children only.
OwnChild ==
  /\ \A q \in Pid : pc[q] \in {"joining", "woken"} => parent[child[q]] = q
  /\ \A q \in Pid : pc[q] = "woken" => mainThread[child[q]] = "zombie"
  /\ KernelSafe

Shape == PcbShape /\ QueueShape /\ ParentOnList

IInv == TypeOK /\ Shape

ChildrenInv == IInv /\ OwnChild /\ KeptPcbHasChild

-----------------------------------------------------------------------------

LEMMA InitTypeOK == Init => TypeOK
BY MaxPidAssumption
DEF Init, TypeOK, Pid, Root, NULL, PcbState, Pc, Panic

RetType == [by : Pid \cup {NULL}, call : {"none", "fork", "waitpid"},
            arg : Int, val : Int]

LEMMA WaitRetType ==
  ASSUME NEW p \in Pid, NEW c \in Pid,
         \/ WaitNotFound(p, c) \/ WaitNoHang(p, c) \/ WaitZombie(p, c)
         \/ WaitAnyReaps(p, c) \/ WaitAnyNone(p)
  PROVE  ret' \in RetType
BY MaxPidAssumption DEF WaitNotFound, WaitNoHang, WaitZombie, WaitAnyReaps,
                        WaitAnyNone, Returns, RetType, Pid, NULL

LEMMA WaitReturnRetType ==
  ASSUME NEW p \in Pid, child \in [Pid -> Pid \cup {NULL}], WaitReturn(p)
  PROVE  ret' \in RetType
BY MaxPidAssumption DEF WaitReturn, Returns, RetType, Pid, NULL

\* Every field keeps its type at every step of process.c.
LEMMA NextTypeOK == TypeOK /\ [Next]_vars => TypeOK'
<1> SUFFICES ASSUME TypeOK, [Next]_vars PROVE TypeOK'
  OBVIOUS
<1> USE MaxPidAssumption DEF TypeOK, Pid, PcbState, Pc, Panic, NULL
<1>1. CASE UNCHANGED vars
  BY <1>1 DEF vars
<1>2. ASSUME NEW p \in Pid, Fork(p) PROVE TypeOK'
  BY <1>2 DEF Fork, Running, Returns, NextPid
<1>3. ASSUME NEW p \in Pid, Exec(p) PROVE TypeOK'
  BY <1>3 DEF Exec, Migrated
<1>4. ASSUME NEW p \in Pid, ExecAsserts(p) PROVE TypeOK'
  BY <1>4 DEF ExecAsserts, Stop
<1>5. ASSUME NEW p \in Pid, ExitRoot(p) PROVE TypeOK'
  BY <1>5 DEF ExitRoot, Stop
<1>6. ASSUME NEW p \in Pid, BeginExit(p) PROVE TypeOK'
  BY <1>6 DEF BeginExit
<1>7. ASSUME NEW p \in Pid, FinishExit(p) PROVE TypeOK'
  BY <1>7 DEF FinishExit, Woken
<1>8. ASSUME NEW p \in Pid, Waitpid(p) PROVE TypeOK'
  <2>1. ASSUME NEW c \in Pid, WaitNotFound(p, c) \/ WaitNoHang(p, c)
        PROVE TypeOK'
    <3>1. ret' \in RetType
      BY <2>1, WaitRetType
    <3> QED
      BY <2>1, <3>1 DEF WaitNotFound, WaitNoHang, RetType
  <2>2. ASSUME NEW c \in Pid, WaitBlock(p, c) PROVE TypeOK'
    BY <2>2 DEF WaitBlock
  <2>3. ASSUME NEW c \in Pid, WaitZombie(p, c) PROVE TypeOK'
    <3>1. ret' \in RetType
      BY <2>3, WaitRetType
    <3> QED
      BY <2>3, <3>1 DEF WaitZombie, Reap, Removable, RetType
  <2>4. ASSUME NEW c \in Pid, WaitNullJoin(p, c) PROVE TypeOK'
    BY <2>4 DEF WaitNullJoin, Stop
  <2>5. ASSUME NEW c \in Pid, WaitAnyReaps(p, c) PROVE TypeOK'
    <3>1. ret' \in RetType
      BY <2>5, WaitRetType
    <3> QED
      BY <2>5, <3>1 DEF WaitAnyReaps, Reap, Removable, RetType
  <2>6. ASSUME WaitAnyNone(p) PROVE TypeOK'
    <3>1. ret' \in RetType
      BY <2>6, WaitRetType
    <3> QED
      BY <2>6, <3>1 DEF WaitAnyNone, RetType
  <2> QED
    BY <1>8, <2>1, <2>2, <2>3, <2>4, <2>5, <2>6 DEF Waitpid
<1>9. ASSUME NEW p \in Pid, WaitReturn(p) PROVE TypeOK'
  <2>1. ret' \in RetType
    BY <1>9, WaitReturnRetType
  <2> QED
    BY <1>9, <2>1 DEF WaitReturn, Reap, Removable, RetType
<1>10. ASSUME NEW p \in Pid, WaitStale(p) PROVE TypeOK'
  BY <1>10 DEF WaitStale, Stop
<1> QED
  BY <1>1, <1>2, <1>3, <1>4, <1>5, <1>6, <1>7, <1>8, <1>9, <1>10 DEF Next

\* The PCB fields always have their types, whatever arguments waitpid() gets.
THEOREM TypeCorrect == Spec => []TypeOK
<1>1. Init => TypeOK
  BY InitTypeOK
<1>2. TypeOK /\ [Next]_vars => TypeOK'
  BY NextTypeOK
<1> QED
  BY <1>1, <1>2, PTL DEF Spec

-----------------------------------------------------------------------------
(* The shape of the PCBs and of the join queues is inductive. *)

LEMMA InitShape == Init => PcbShape /\ QueueShape /\ ParentOnList
BY MaxPidAssumption
DEF Init, PcbShape, QueueShape, ParentOnList, InKernelOrUser, Pid, Root, NULL

LEMMA StopShape ==
  ASSUME Shape, NEW why, Stop(why) PROVE Shape'
BY DEF Shape, Stop, PcbShape, QueueShape, ParentOnList, HasChild

LEMMA ForkShape ==
  ASSUME TypeOK, Shape, NEW p \in Pid, Fork(p) PROVE Shape'
<1> USE MaxPidAssumption DEF TypeOK, Shape, Pid, NULL
<1> DEFINE new == pid_current
<1>0. /\ new \in Pid /\ pc[new] = "none" /\ new \notin procList
      /\ joinQueue[new] = {} /\ p # new /\ p \in procList
  BY DEF Fork, Running, PcbShape, InKernelOrUser
<1>1. PcbShape'
  BY <1>0 DEF Fork, NextPid, PcbShape, InKernelOrUser
<1>2. QueueShape'
  <2>1. ASSUME NEW a \in Pid, NEW b \in Pid, (b \in joinQueue[a])'
        PROVE (pc[b] = "joining" /\ child[b] = a /\ mainThread[a] = "live")'
    BY <1>0, <2>1 DEF Fork, QueueShape
  <2>2. ASSUME NEW b \in Pid, (pc[b] = "joining")'
        PROVE (child[b] \in Pid /\ b \in joinQueue[child[b]])'
    BY <1>0, <2>2 DEF Fork, QueueShape
  <2>3. ASSUME NEW b \in Pid, (pc[b] = "woken")'
        PROVE (child[b] \in Pid /\ child[b] < pid_current
                 /\ mainThread[child[b]] # "live")'
    BY <1>0, <2>3 DEF Fork, NextPid, QueueShape
  <2> QED
    BY <2>1, <2>2, <2>3 DEF QueueShape
<1>3. ParentOnList'
  BY <1>0 DEF Fork, ParentOnList
<1> QED
  BY <1>1, <1>2, <1>3

LEMMA ExecShape ==
  ASSUME TypeOK, Shape, NEW p \in Pid, Exec(p) PROVE Shape'
<1>1. pc' = pc /\ joinQueue' = joinQueue
  BY DEF Exec, Migrated, TypeOK
<1> QED
  BY <1>1 DEF Exec, Shape, PcbShape, QueueShape, ParentOnList

LEMMA BeginExitShape ==
  ASSUME TypeOK, Shape, NEW p \in Pid, BeginExit(p) PROVE Shape'
<1> USE DEF TypeOK, Shape
<1>1. PcbShape'
  BY DEF BeginExit, Running, PcbShape, InKernelOrUser
<1>2. QueueShape'
  BY DEF BeginExit, Running, QueueShape
<1>3. ParentOnList'
  BY DEF BeginExit, ParentOnList
<1> QED
  BY <1>1, <1>2, <1>3

LEMMA FinishExitShape ==
  ASSUME TypeOK, Shape, NEW p \in Pid, FinishExit(p) PROVE Shape'
<1> USE DEF TypeOK, Shape
<1>0. /\ mainThread[p] = "live" /\ p < pid_current
      /\ \A q \in joinQueue[p] : q \in Pid /\ q # p /\ pc[q] = "joining"
                                 /\ child[q] = p
  BY MaxPidAssumption DEF FinishExit, PcbShape, QueueShape, InKernelOrUser, Pid
<1>1. PcbShape'
  <2>1. \A q \in Pid : pc'[q] \in InKernelOrUser
                         <=> (q # p /\ pc[q] \in InKernelOrUser)
    BY <1>0 DEF FinishExit, Woken, InKernelOrUser
  <2>2. \A q \in Pid : /\ pc'[q] = "none" <=> pc[q] = "none"
                       /\ pc'[q] = "dead" <=> (q = p \/ pc[q] = "dead")
    BY <1>0 DEF FinishExit, Woken
  <2> QED
    BY <1>0, <2>1, <2>2 DEF FinishExit, PcbShape
<1>2. QueueShape'
  <2>1. ASSUME NEW a \in Pid, NEW b \in Pid, (b \in joinQueue[a])'
        PROVE (pc[b] = "joining" /\ child[b] = a /\ mainThread[a] = "live")'
    BY <1>0, <2>1 DEF FinishExit, Woken, QueueShape
  <2>2. ASSUME NEW b \in Pid, (pc[b] = "joining")'
        PROVE (child[b] \in Pid /\ b \in joinQueue[child[b]])'
    BY <1>0, <2>2 DEF FinishExit, Woken, QueueShape
  <2>3. ASSUME NEW b \in Pid, (pc[b] = "woken")'
        PROVE (child[b] \in Pid /\ child[b] < pid_current
                 /\ mainThread[child[b]] # "live")'
    BY <1>0, <2>3 DEF FinishExit, Woken, QueueShape
  <2> QED
    BY <2>1, <2>2, <2>3 DEF QueueShape
<1>3. ParentOnList'
  BY DEF FinishExit, ParentOnList
<1> QED
  BY <1>1, <1>2, <1>3

\* Reaping c, by a caller that is not on any queue afterwards.
LEMMA ReapShape ==
  ASSUME TypeOK, Shape, NEW c \in Pid, mainThread[c] # "live",
         c < pid_current, Reap(c),
         NEW p \in Pid, pc[p] \in {"user", "woken"},
         pc' = [pc EXCEPT ![p] = "user"],
         child' \in [Pid -> Pid \cup {NULL}],
         \A q \in Pid : q # p => child'[q] = child[q]
  PROVE  Shape'
<1> USE DEF TypeOK, Shape
<1>1. PcbShape'
  BY DEF Reap, PcbShape, InKernelOrUser
<1>2. QueueShape'
  <2>1. ASSUME NEW a \in Pid, NEW b \in Pid, (b \in joinQueue[a])'
        PROVE (pc[b] = "joining" /\ child[b] = a /\ mainThread[a] = "live")'
    BY <2>1 DEF Reap, QueueShape
  <2>2. ASSUME NEW b \in Pid, (pc[b] = "joining")'
        PROVE (child[b] \in Pid /\ b \in joinQueue[child[b]])'
    BY <2>2 DEF Reap, QueueShape
  <2>3. ASSUME NEW b \in Pid, (pc[b] = "woken")'
        PROVE (child[b] \in Pid /\ child[b] < pid_current
                 /\ mainThread[child[b]] # "live")'
    BY <2>3 DEF Reap, QueueShape
  <2> QED
    BY <2>1, <2>2, <2>3 DEF QueueShape
<1>3. ParentOnList'
  BY DEF Reap, Removable, HasChild, ParentOnList
<1> QED
  BY <1>1, <1>2, <1>3

LEMMA WaitBlockShape ==
  ASSUME TypeOK, Shape, NEW p \in Pid, NEW c \in Pid, WaitBlock(p, c)
  PROVE  Shape'
<1> USE DEF TypeOK, Shape
<1>1. PcbShape'
  BY DEF WaitBlock, Running, PcbShape, InKernelOrUser
<1>2. QueueShape'
  <2>1. ASSUME NEW a \in Pid, NEW b \in Pid, (b \in joinQueue[a])'
        PROVE (pc[b] = "joining" /\ child[b] = a /\ mainThread[a] = "live")'
    BY <2>1 DEF WaitBlock, Running, QueueShape
  <2>2. ASSUME NEW b \in Pid, (pc[b] = "joining")'
        PROVE (child[b] \in Pid /\ b \in joinQueue[child[b]])'
    BY <2>2 DEF WaitBlock, Running, QueueShape
  <2>3. ASSUME NEW b \in Pid, (pc[b] = "woken")'
        PROVE (child[b] \in Pid /\ child[b] < pid_current
                 /\ mainThread[child[b]] # "live")'
    BY <2>3 DEF WaitBlock, Running, QueueShape
  <2> QED
    BY <2>1, <2>2, <2>3 DEF QueueShape
<1>3. ParentOnList'
  BY DEF WaitBlock, ParentOnList
<1> QED
  BY <1>1, <1>2, <1>3

LEMMA WaitpidShape ==
  ASSUME TypeOK, Shape, NEW p \in Pid, Waitpid(p) PROVE Shape'
<1>1. ASSUME NEW c \in Pid,
             WaitNotFound(p, c) \/ WaitNoHang(p, c) \/ WaitAnyNone(p)
      PROVE Shape'
  BY <1>1 DEF WaitNotFound, WaitNoHang, WaitAnyNone, Shape, PcbShape,
              QueueShape, ParentOnList
<1>2. ASSUME NEW c \in Pid, WaitBlock(p, c) PROVE Shape'
  BY <1>2, WaitBlockShape
<1>3. ASSUME NEW c \in Pid, WaitZombie(p, c) \/ WaitAnyReaps(p, c)
      PROVE Shape'
  <2>1. /\ mainThread[c] # "live" /\ c < pid_current /\ Reap(c)
        /\ pc[p] = "user" /\ pc' = pc /\ child' = child
    <3>1. c \in procList /\ mainThread[c] # "none"
      BY <1>3 DEF WaitZombie, WaitAnyReaps, IsFirstZombie
    <3>2. mainThread[c] # "live"
      BY <1>3 DEF WaitZombie, WaitAnyReaps, IsFirstZombie, Shape, PcbShape,
                  InKernelOrUser
    <3>3. c < pid_current
      BY <3>1, MaxPidAssumption DEF TypeOK, Shape, PcbShape, Pid
    <3> QED
      BY <1>3, <3>2, <3>3 DEF WaitZombie, WaitAnyReaps, Running
  <2>2. pc' = [pc EXCEPT ![p] = "user"]
    BY <2>1 DEF TypeOK
  <2> QED
    BY <2>1, <2>2, ReapShape DEF TypeOK
<1>4. ASSUME NEW c \in Pid, WaitNullJoin(p, c) PROVE Shape'
  BY <1>4, StopShape DEF WaitNullJoin
<1> QED
  BY <1>1, <1>2, <1>3, <1>4, MaxPidAssumption DEF Waitpid, Pid

LEMMA WaitReturnShape ==
  ASSUME TypeOK, Shape, NEW p \in Pid, WaitReturn(p) PROVE Shape'
<1>1. /\ child[p] \in Pid /\ child[p] < pid_current
      /\ mainThread[child[p]] # "live"
  BY DEF WaitReturn, Shape, QueueShape
<1>2. /\ child' \in [Pid -> Pid \cup {NULL}]
      /\ \A q \in Pid : q # p => child'[q] = child[q]
      /\ pc[p] \in {"user", "woken"} /\ pc' = [pc EXCEPT ![p] = "user"]
      /\ Reap(child[p])
  BY DEF WaitReturn, TypeOK
<1> QED
  BY <1>1, <1>2, ReapShape

LEMMA NextShape == TypeOK /\ Shape /\ [Next]_vars => Shape'
<1> SUFFICES ASSUME TypeOK, Shape, [Next]_vars PROVE Shape'
  OBVIOUS
<1>1. CASE UNCHANGED vars
  BY <1>1 DEF vars, Shape, PcbShape, QueueShape, ParentOnList
<1>2. ASSUME NEW p \in Pid,
             ExecAsserts(p) \/ ExitRoot(p) \/ WaitStale(p)
      PROVE Shape'
  BY <1>2, StopShape DEF ExecAsserts, ExitRoot, WaitStale
<1> QED
  BY <1>1, <1>2, ForkShape, ExecShape, BeginExitShape, FinishExitShape,
     WaitpidShape, WaitReturnShape DEF Next

\* The parent of every listed process is listed, so pcb->parent never dangles,
\* whatever arguments programs give to waitpid().
THEOREM ParentsStayListed == Spec => []ParentOnList
<1>1. Init => IInv
  BY InitTypeOK, InitShape DEF IInv, Shape
<1>2. IInv /\ [Next]_vars => IInv'
  BY NextTypeOK, NextShape DEF IInv
<1>3. IInv => ParentOnList
  BY DEF IInv, Shape
<1> QED
  BY <1>1, <1>2, <1>3, PTL DEF Spec

\* No process that can still run loses its page table to a waitpid().
THEOREM RunnableKeepsPageTable == Spec => []LiveHasPageTable
<1>1. Init => IInv
  BY InitTypeOK, InitShape DEF IInv, Shape
<1>2. IInv /\ [Next]_vars => IInv'
  BY NextTypeOK, NextShape DEF IInv
<1>3. IInv => LiveHasPageTable
  BY DEF IInv, TypeOK, Pc, Shape, PcbShape, InKernelOrUser, LiveHasPageTable
<1> QED
  BY <1>1, <1>2, <1>3, PTL DEF Spec

\* A blocked waitpid() is queued on a thread that has yet to finish.
THEOREM WakeupsNotLost == Spec => []NoLostWakeup
<1>1. Init => IInv
  BY InitTypeOK, InitShape DEF IInv, Shape
<1>2. IInv /\ [Next]_vars => IInv'
  BY NextTypeOK, NextShape DEF IInv
<1>3. IInv => NoLostWakeup
  BY DEF IInv, Shape, QueueShape, NoLostWakeup
<1> QED
  BY <1>1, <1>2, <1>3, PTL DEF Spec

\* With what ret keeps from before: a pid that was returned.
RetInv == ReapedIsDead /\ (ret.val > 0 => ret.val \in Pid)

\* A process once dead stays so, and its main thread is joined once.
LEMMA DeadStays ==
  ASSUME IInv, [Next]_vars, NEW c \in Pid, pc[c] = "dead", mainThread[c] = "none"
  PROVE  pc'[c] = "dead" /\ mainThread'[c] = "none"
<1> USE DEF IInv, TypeOK
<1>1. CASE UNCHANGED vars
  BY <1>1 DEF vars
<1>2. ASSUME NEW p \in Pid, Fork(p) PROVE pc'[c] = "dead" /\ mainThread'[c] = "none"
  BY <1>2 DEF Fork, Shape, PcbShape, Pid
<1>3. ASSUME NEW p \in Pid, Exec(p) PROVE pc'[c] = "dead" /\ mainThread'[c] = "none"
  BY <1>3 DEF Exec, Migrated
<1>4. ASSUME NEW p \in Pid,
             \/ ExecAsserts(p) \/ ExitRoot(p) \/ BeginExit(p) \/ WaitStale(p)
      PROVE pc'[c] = "dead" /\ mainThread'[c] = "none"
  BY <1>4 DEF ExecAsserts, ExitRoot, BeginExit, WaitStale, Stop, Running
<1>5. ASSUME NEW p \in Pid, FinishExit(p) PROVE pc'[c] = "dead" /\ mainThread'[c] = "none"
  <2>1. c # p /\ c \notin joinQueue[p]
    BY <1>5 DEF FinishExit, Shape, QueueShape
  <2> QED
    BY <1>5, <2>1 DEF FinishExit, Woken
<1>6. ASSUME NEW p \in Pid, Waitpid(p) PROVE pc'[c] = "dead" /\ mainThread'[c] = "none"
  BY <1>6 DEF Waitpid, WaitNotFound, WaitNoHang, WaitBlock, WaitZombie, WaitNullJoin,
              WaitAnyReaps, WaitAnyNone, Reap, Stop, Running
<1>7. ASSUME NEW p \in Pid, WaitReturn(p) PROVE pc'[c] = "dead" /\ mainThread'[c] = "none"
  BY <1>7 DEF WaitReturn, Reap
<1> QED
  BY <1>1, <1>2, <1>3, <1>4, <1>5, <1>6, <1>7 DEF Next

\* A main thread that has finished is that of a dead process.
LEMMA ZombieIsDead ==
  ASSUME IInv, NEW c \in Pid, mainThread[c] = "zombie" PROVE pc[c] = "dead"
BY DEF IInv, TypeOK, Shape, PcbShape, InKernelOrUser, Pc, Pid

\* The steps that return from fork or waitpid, and those that do not.
LEMMA NextRetInv ==
  ASSUME IInv, RetInv, [Next]_vars PROVE RetInv'
<1> USE DEF IInv, TypeOK
<1>1. CASE UNCHANGED ret
  BY <1>1, DeadStays DEF RetInv, ReapedIsDead
<1>2. ASSUME NEW p \in Pid, Fork(p) PROVE RetInv'
  BY <1>2 DEF Fork, Returns, RetInv, ReapedIsDead, Pid
<1>3. ASSUME NEW p \in Pid, NEW c \in Pid, WaitNotFound(p, c) \/ WaitNoHang(p, c)
      PROVE RetInv'
  BY <1>3 DEF WaitNotFound, WaitNoHang, Returns, RetInv, ReapedIsDead
<1>4. ASSUME NEW p \in Pid, WaitAnyNone(p) PROVE RetInv'
  BY <1>4 DEF WaitAnyNone, Returns, RetInv, ReapedIsDead
<1>5. ASSUME NEW p \in Pid, NEW c \in Pid, WaitZombie(p, c) \/ WaitAnyReaps(p, c)
      PROVE RetInv'
  <2>1. mainThread[c] = "zombie"
    BY <1>5 DEF WaitZombie, WaitAnyReaps, IsFirstZombie, Shape, PcbShape, InKernelOrUser
  <2> QED
    BY <1>5, <2>1, ZombieIsDead
    DEF WaitZombie, WaitAnyReaps, Returns, Reap, RetInv, ReapedIsDead
<1>6. ASSUME NEW p \in Pid, WaitReturn(p) PROVE RetInv'
  <2>1. child[p] \in Pid /\ mainThread[child[p]] = "zombie"
    BY <1>6 DEF WaitReturn, Shape, QueueShape
  <2>2. pc[child[p]] = "dead"
    BY <2>1, ZombieIsDead
  <2> QED
    BY <1>6, <2>1, <2>2 DEF WaitReturn, Returns, Reap, RetInv, ReapedIsDead
<1>7. ASSUME NEW p \in Pid,
             \/ Exec(p) \/ ExecAsserts(p) \/ ExitRoot(p) \/ BeginExit(p)
             \/ FinishExit(p) \/ WaitStale(p)
      PROVE UNCHANGED ret
  BY <1>7 DEF Exec, ExecAsserts, ExitRoot, BeginExit, FinishExit, WaitStale, Stop
<1>8. ASSUME NEW p \in Pid, NEW c \in Pid, WaitBlock(p, c) \/ WaitNullJoin(p, c)
      PROVE UNCHANGED ret
  BY <1>8 DEF WaitBlock, WaitNullJoin, Stop
<1> QED
  BY <1>1, <1>2, <1>3, <1>4, <1>5, <1>6, <1>7, <1>8 DEF Next, Waitpid, vars

\* A pid that waitpid() returned is that of a process dead and joined,
\* whatever arguments programs give to it.
THEOREM ReturnedPidsAreDead == Spec => []ReapedIsDead
<1>1. Init => IInv /\ RetInv
  BY InitTypeOK, InitShape, MaxPidAssumption DEF IInv, Shape, Init, RetInv, ReapedIsDead
<1>2. IInv /\ RetInv /\ [Next]_vars => (IInv /\ RetInv)'
  BY NextTypeOK, NextShape, NextRetInv DEF IInv
<1>3. RetInv => ReapedIsDead
  BY DEF RetInv
<1> QED
  BY <1>1, <1>2, <1>3, PTL DEF Spec

-----------------------------------------------------------------------------
(* Programs that wait for their own uncollected children only. *)

LEMMA InitChildren == Init => OwnChild /\ KeptPcbHasChild
BY MaxPidAssumption
DEF Init, OwnChild, KeptPcbHasChild, KernelSafe, Pid, Root, NULL

\* No step of such programs stops the kernel, but the exit of the root.
LEMMA NoBadStop ==
  ASSUME AnyPid = FALSE, ChildrenInv, NEW p \in Pid
  PROVE  /\ ~ExecAsserts(p)
         /\ ~WaitStale(p)
         /\ \A c \in Pid : ~WaitNullJoin(p, c) /\ ~WaitAnyReaps(p, c)
<1> USE DEF ChildrenInv, IInv, TypeOK
<1>1. OnlyParentWaitsOn(p)
  <2> SUFFICES ASSUME NEW q \in joinQueue[p] PROVE q = parent[p]
    BY DEF OnlyParentWaitsOn
  <2>1. q \in Pid
    OBVIOUS
  <2> QED
    BY <2>1 DEF Shape, QueueShape, OwnChild
<1>2. ~WaitStale(p)
  BY DEF WaitStale, OwnChild
<1> QED
  BY <1>1, <1>2 DEF ExecAsserts, WaitNullJoin, WaitAnyReaps, MayWaitFor

LEMMA ForkChildren ==
  ASSUME ChildrenInv, NEW p \in Pid, Fork(p)
  PROVE  (OwnChild /\ KeptPcbHasChild)'
<1> USE MaxPidAssumption DEF ChildrenInv, IInv, TypeOK, Pid, NULL
<1> DEFINE new == pid_current
<1>0. /\ new \in Pid /\ pc[new] = "none" /\ new \notin procList
      /\ mainThread[new] = "none" /\ p \in procList
  BY DEF Fork, Running, Shape, PcbShape, InKernelOrUser
<1>1. \A q \in Pid : pc[q] \in {"joining", "woken"} =>
                       child[q] \in Pid /\ child[q] # new
  BY <1>0 DEF Shape, QueueShape
<1>2. OwnChild'
  BY <1>0, <1>1 DEF Fork, OwnChild, KernelSafe
<1>3. KeptPcbHasChild'
  BY <1>0 DEF Fork, KeptPcbHasChild, HasChild
<1> QED
  BY <1>2, <1>3

LEMMA ExitChildren ==
  ASSUME ChildrenInv, NEW p \in Pid, BeginExit(p) \/ FinishExit(p)
  PROVE  (OwnChild /\ KeptPcbHasChild)'
<1> USE DEF ChildrenInv, IInv, TypeOK
<1>1. CASE BeginExit(p)
  BY <1>1 DEF BeginExit, OwnChild, KernelSafe, KeptPcbHasChild, HasChild
<1>2. CASE FinishExit(p)
  <2>1. \A q \in joinQueue[p] : q \in Pid /\ pc[q] = "joining" /\ child[q] = p
    BY DEF Shape, QueueShape
  <2>2. OwnChild'
    BY <1>2, <2>1 DEF FinishExit, Woken, OwnChild, KernelSafe
  <2>3. KeptPcbHasChild'
    BY <1>2 DEF FinishExit, KeptPcbHasChild, HasChild
  <2> QED
    BY <2>2, <2>3
<1> QED
  BY <1>1, <1>2

\* A parent reaps its child c: nobody else was to return with c, and the only
\* PCB that loses a child is the parent's, which has a thread.
LEMMA ReapChildren ==
  ASSUME ChildrenInv, NEW p \in Pid, NEW c \in Pid, Reap(c),
         parent[c] = p, mainThread[p] = "live", mainThread[c] = "zombie",
         pc[p] = "user" \/ (pc[p] = "woken" /\ child[p] = c),
         pc' = [pc EXCEPT ![p] = "user"],
         \A q \in Pid : q # p => child'[q] = child[q]
  PROVE  (OwnChild /\ KeptPcbHasChild)'
<1> USE DEF ChildrenInv, IInv, TypeOK
<1>1. \A q \in Pid : pc[q] = "woken" /\ q # p => child[q] # c
  BY DEF OwnChild
<1>2. OwnChild'
  <2>1. \A q \in Pid : pc'[q] = IF q = p THEN "user" ELSE pc[q]
    OBVIOUS
  <2>2. \A q \in Pid : pc[q] = "woken" => child[q] \in Pid
    BY DEF Shape, QueueShape
  <2>3. \A q \in Pid : pc'[q] \in {"joining", "woken"} =>
                         q # p /\ pc[q] = pc'[q] /\ child'[q] = child[q]
    BY <2>1
  <2>4. \A d \in Pid : mainThread'[d] = IF d = c THEN "none" ELSE mainThread[d]
    BY DEF Reap
  <2>5. parent' = parent /\ panic' = panic
    BY DEF Reap
  <2> QED
    <3>1. \A q \in Pid : pc'[q] \in {"joining", "woken"}
                         => parent'[child'[q]] = q
      BY <2>3, <2>5 DEF OwnChild
    <3>2. ASSUME NEW q \in Pid, pc'[q] = "woken"
          PROVE mainThread'[child'[q]] = "zombie"
      <4>1. pc[q] = "woken" /\ child'[q] = child[q] /\ q # p
        BY <2>3, <3>2
      <4>2. child[q] \in Pid /\ child[q] # c /\ mainThread[child[q]] = "zombie"
        BY <1>1, <2>2, <4>1 DEF OwnChild
      <4> QED
        BY <2>4, <4>1, <4>2
    <3>3. KernelSafe'
      BY <2>5 DEF OwnChild, KernelSafe
    <3> QED
      BY <3>1, <3>2, <3>3 DEF OwnChild
<1>3. KeptPcbHasChild'
  <2> SUFFICES ASSUME NEW k \in procList', mainThread'[k] = "none"
               PROVE HasChild(k)'
    BY DEF KeptPcbHasChild
  <2>1. k \in procList /\ k \in Pid /\ k # p
    BY DEF Reap, Removable
  <2>2. CASE k = c
    <3>1. HasChild(c) /\ procList' = procList /\ parent' = parent
      BY <2>2 DEF Reap, Removable
    <3> QED
      BY <2>2, <3>1 DEF HasChild
  <2>3. CASE k # c
    <3>1. HasChild(k)
      BY <2>1, <2>3 DEF Reap, KeptPcbHasChild
    <3>2. PICK d \in procList : parent[d] = k
      BY <3>1 DEF HasChild
    <3>3. d # c
      BY <2>1, <3>2
    <3>4. d \in procList' /\ parent'[d] = k
      BY <3>2, <3>3 DEF Reap
    <3> QED
      BY <3>4 DEF HasChild
  <2> QED
    BY <2>2, <2>3
<1> QED
  BY <1>2, <1>3

LEMMA WaitpidChildren ==
  ASSUME AnyPid = FALSE, ChildrenInv, NEW p \in Pid, Waitpid(p)
  PROVE  (OwnChild /\ KeptPcbHasChild)'
<1> USE DEF ChildrenInv
<1>1. ASSUME NEW c \in Pid,
             WaitNotFound(p, c) \/ WaitNoHang(p, c) \/ WaitAnyNone(p)
      PROVE (OwnChild /\ KeptPcbHasChild)'
  BY <1>1 DEF WaitNotFound, WaitNoHang, WaitAnyNone, OwnChild, KernelSafe,
              KeptPcbHasChild, HasChild
<1> USE DEF IInv, TypeOK
<1>2. ASSUME NEW c \in Pid, WaitBlock(p, c)
      PROVE (OwnChild /\ KeptPcbHasChild)'
  <2>1. parent[c] = p /\ mainThread[c] = "live"
    BY <1>2 DEF WaitBlock, MayWaitFor
  <2>2. \A q \in Pid : /\ pc'[q] = IF q = p THEN "joining" ELSE pc[q]
                       /\ child'[q] = IF q = p THEN c ELSE child[q]
    BY <1>2 DEF WaitBlock
  <2>3. OwnChild'
    BY <1>2, <2>1, <2>2 DEF WaitBlock, OwnChild, KernelSafe
  <2>4. KeptPcbHasChild'
    BY <1>2 DEF WaitBlock, KeptPcbHasChild, HasChild
  <2> QED
    BY <2>3, <2>4
<1>3. ASSUME NEW c \in Pid, WaitZombie(p, c)
      PROVE (OwnChild /\ KeptPcbHasChild)'
  <2>1. /\ Reap(c) /\ parent[c] = p /\ pc[p] = "user"
        /\ mainThread[c] = "zombie"
        /\ pc' = pc /\ child' = child
    BY <1>3 DEF WaitZombie, MayWaitFor, Running
  <2>2. mainThread[p] = "live"
    BY <2>1 DEF Shape, PcbShape, InKernelOrUser
  <2>3. pc' = [pc EXCEPT ![p] = "user"]
    BY <2>1
  <2> QED
    BY <2>1, <2>2, <2>3, ReapChildren
<1> QED
  BY <1>1, <1>2, <1>3, NoBadStop, MaxPidAssumption DEF Waitpid, Pid

LEMMA WaitReturnChildren ==
  ASSUME ChildrenInv, NEW p \in Pid, WaitReturn(p)
  PROVE  (OwnChild /\ KeptPcbHasChild)'
<1> USE DEF ChildrenInv, IInv, TypeOK
<1>1. /\ pc[p] = "woken" /\ child[p] \in Pid /\ parent[child[p]] = p
      /\ mainThread[p] = "live" /\ mainThread[child[p]] = "zombie"
  BY DEF WaitReturn, OwnChild, Shape, QueueShape, PcbShape, InKernelOrUser
<1>2. /\ Reap(child[p]) /\ pc' = [pc EXCEPT ![p] = "user"]
      /\ \A q \in Pid : q # p => child'[q] = child[q]
  BY DEF WaitReturn
<1> QED
  BY <1>1, <1>2, ReapChildren

LEMMA NextChildren ==
  ASSUME AnyPid = FALSE
  PROVE  ChildrenInv /\ [Next]_vars => ChildrenInv'
<1> SUFFICES ASSUME ChildrenInv, [Next]_vars PROVE ChildrenInv'
  OBVIOUS
<1>1. IInv'
  BY NextTypeOK, NextShape DEF ChildrenInv, IInv
<1>2. (OwnChild /\ KeptPcbHasChild)'
  <2>1. CASE UNCHANGED vars
    BY <2>1 DEF vars, ChildrenInv, OwnChild, KernelSafe, KeptPcbHasChild,
                HasChild
  <2>2. ASSUME NEW p \in Pid, Exec(p)
        PROVE (OwnChild /\ KeptPcbHasChild)'
    <3>1. pc' = pc
      BY <2>2 DEF Exec, Migrated, ChildrenInv, IInv, TypeOK
    <3> QED
      BY <2>2, <3>1 DEF Exec, ChildrenInv, OwnChild, KernelSafe,
                        KeptPcbHasChild, HasChild
  <2>3. ASSUME NEW p \in Pid, ExitRoot(p)
        PROVE (OwnChild /\ KeptPcbHasChild)'
    BY <2>3 DEF ExitRoot, Stop, ChildrenInv, OwnChild, KernelSafe,
                KeptPcbHasChild, HasChild
  <2> QED
    BY <2>1, <2>2, <2>3, NoBadStop, ForkChildren, ExitChildren,
       WaitpidChildren, WaitReturnChildren DEF Next
<1> QED
  BY <1>1, <1>2 DEF ChildrenInv

\* With programs that wait for their own children only, no ASSERT of
\* do_execve() fails, no NULL thread is joined and no freed PCB is used.
THEOREM OwnWaitsAreSafe ==
  ASSUME AnyPid = FALSE PROVE Spec => []KernelSafe
<1>1. Init => ChildrenInv
  BY InitTypeOK, InitShape, InitChildren DEF ChildrenInv, IInv, Shape
<1>2. ChildrenInv /\ [Next]_vars => ChildrenInv'
  BY NextChildren
<1>3. ChildrenInv => KernelSafe
  BY DEF ChildrenInv, OwnChild
<1> QED
  BY <1>1, <1>2, <1>3, PTL DEF Spec

\* With such programs, a PCB kept without a main thread still has children.
THEOREM KeptForChildren ==
  ASSUME AnyPid = FALSE PROVE Spec => []KeptPcbHasChild
<1>1. Init => ChildrenInv
  BY InitTypeOK, InitShape, InitChildren DEF ChildrenInv, IInv, Shape
<1>2. ChildrenInv /\ [Next]_vars => ChildrenInv'
  BY NextChildren
<1>3. ChildrenInv => KeptPcbHasChild
  BY DEF ChildrenInv
<1> QED
  BY <1>1, <1>2, <1>3, PTL DEF Spec

-----------------------------------------------------------------------------
(* Nobody left to run. *)

\* Who is not in waitpid() awaits nobody, the root never starts to exit, and
\* a parent is older than its children.
CallShape ==
  /\ \A q \in Pid : pc[q] \notin {"joining", "woken"} => child[q] = NULL
  /\ pc[Root] \notin {"exiting", "dead"} /\ parent[Root] = NULL
  /\ \A c \in Pid : parent[c] < c

LEMMA InitCallShape == Init => CallShape
BY MaxPidAssumption DEF Init, CallShape, Pid, Root, NULL

LEMMA NextCallShape ==
  ASSUME IInv, CallShape, [Next]_vars PROVE CallShape'
<1> USE DEF CallShape
<1>0. Root \in Pid
  BY MaxPidAssumption DEF Root, Pid
<1>1. CASE UNCHANGED vars
  BY <1>1 DEF vars
<1>2. ASSUME NEW p \in Pid, ExecAsserts(p) \/ ExitRoot(p) \/ WaitStale(p)
      PROVE CallShape'
  BY <1>2 DEF ExecAsserts, ExitRoot, WaitStale, Stop
<1>3. ASSUME NEW p \in Pid, Fork(p) PROVE CallShape'
  BY <1>0, <1>3, MaxPidAssumption
  DEF Fork, Running, IInv, TypeOK, Shape, PcbShape, Pid, Root, NULL
<1>4. ASSUME NEW p \in Pid, Exec(p) PROVE CallShape'
  BY <1>0, <1>4 DEF Exec, Migrated, IInv, TypeOK
<1>5. ASSUME NEW p \in Pid, BeginExit(p) PROVE CallShape'
  BY <1>0, <1>5 DEF BeginExit, Running, IInv, TypeOK
<1>6. ASSUME NEW p \in Pid, FinishExit(p) PROVE CallShape'
  <2>1. \A q \in joinQueue[p] : q \in Pid /\ pc[q] = "joining"
    BY <1>6 DEF IInv, TypeOK, Shape, QueueShape
  <2> QED
    BY <1>0, <1>6, <2>1 DEF FinishExit, Woken, IInv, TypeOK
<1>7. ASSUME NEW p \in Pid, Waitpid(p) PROVE CallShape'
  <2>1. ASSUME NEW c \in Pid, WaitBlock(p, c) PROVE CallShape'
    BY <1>0, <2>1 DEF WaitBlock, Running, IInv, TypeOK
  <2>2. ASSUME NEW c \in Pid,
               \/ WaitNotFound(p, c) \/ WaitNoHang(p, c) \/ WaitAnyNone(p)
               \/ WaitZombie(p, c) \/ WaitNullJoin(p, c) \/ WaitAnyReaps(p, c)
        PROVE pc' = pc /\ child' = child /\ parent' = parent
    BY <2>2 DEF WaitNotFound, WaitNoHang, WaitAnyNone, WaitZombie,
                WaitNullJoin, WaitAnyReaps, Reap, Stop
  <2> QED
    BY <1>0, <1>7, <2>1, <2>2 DEF Waitpid
<1>8. ASSUME NEW p \in Pid, WaitReturn(p) PROVE CallShape'
  BY <1>0, <1>8 DEF WaitReturn, Reap, IInv, TypeOK
<1> QED
  BY <1>1, <1>2, <1>3, <1>4, <1>5, <1>6, <1>7, <1>8 DEF Next

RInv == ChildrenInv /\ CallShape

LEMMA InitRInv == Init => RInv
BY InitTypeOK, InitShape, InitChildren, InitCallShape
DEF RInv, ChildrenInv, IInv, Shape

LEMMA NextRInv ==
  ASSUME AnyPid = FALSE PROVE RInv /\ [Next]_vars => RInv'
BY NextChildren, NextCallShape DEF RInv, ChildrenInv

\* The youngest process with a thread cannot be blocked: it would wait for a
\* younger one.
LEMMA YoungestRuns == RInv => NotAllBlocked
<1> SUFFICES ASSUME RInv PROVE NotAllBlocked
  OBVIOUS
<1> USE DEF RInv, ChildrenInv, IInv
<1> DEFINE Live == {p \in Pid : mainThread[p] = "live"}
           Age  == {MaxPid - p : p \in Live}
<1>1. Root \in Live
  BY MaxPidAssumption
  DEF CallShape, Shape, PcbShape, InKernelOrUser, TypeOK, Pc, Pid, Root
<1>2. Age \in SUBSET Nat /\ Age # {}
  BY <1>1, MaxPidAssumption DEF Pid
<1>3. PICK a \in Age : \A b \in Age : a <= b
  <2> DEFINE Less == {ss \in Nat \X Nat : ss[1] < ss[2]}
  <2>1. IsWellFoundedOn(Less, Nat)
    BY NatLessThanWellFounded DEF OpToRel
  <2>2. PICK a \in Age : \A b \in Age : <<b, a>> \notin Less
    <3> HIDE DEF Age, Less
    <3> QED
      BY <1>2, <2>1, WFMin
  <2>3. ASSUME NEW b \in Age PROVE a <= b
    <3>1. a \in Nat /\ b \in Nat
      BY <1>2, <2>2, <2>3
    <3>2. ~(b < a)
      BY <2>2, <2>3, <3>1
    <3> QED
      BY <3>1, <3>2
  <2> QED
    BY <2>3
<1>4. PICK p \in Live : a = MaxPid - p
  BY <1>3
<1>5. \A q \in Live : q <= p
  <2> SUFFICES ASSUME NEW q \in Live PROVE q <= p
    OBVIOUS
  <2>1. MaxPid - q \in Age
    OBVIOUS
  <2>2. MaxPid - p <= MaxPid - q
    BY <1>3, <1>4, <2>1
  <2>3. p \in Int /\ q \in Int
    BY DEF Pid
  <2> QED
    BY <2>2, <2>3, MaxPidAssumption
<1>6. pc[p] # "joining"
  <2> SUFFICES ASSUME pc[p] = "joining" PROVE FALSE
    OBVIOUS
  <2>1. child[p] \in Live /\ parent[child[p]] = p
    BY DEF Shape, QueueShape, OwnChild
  <2>2. p < child[p]
    BY <2>1 DEF CallShape
  <2> QED
    BY <1>5, <2>1, <2>2, MaxPidAssumption DEF Pid
<1> QED
  BY <1>4, <1>6 DEF NotAllBlocked, Shape, PcbShape, InKernelOrUser

\* Programs that wait for their own children never all block in waitpid().
THEOREM WaitsNeverDeadlock ==
  ASSUME AnyPid = FALSE PROVE Spec => []NotAllBlocked
<1>1. Init => RInv
  BY InitRInv
<1>2. RInv /\ [Next]_vars => RInv'
  BY NextRInv
<1>3. RInv => NotAllBlocked
  BY YoungestRuns
<1> QED
  BY <1>1, <1>2, <1>3, PTL DEF Spec

-----------------------------------------------------------------------------
(* Process implements WaitContract: initial states map to initial states, and *)
(* each step to a step of the contract or a stutter; one lemma per kind of     *)
(* step.  The fairness part of the contract is left to TLC.                    *)

LEMMA InitMaps == Init => C!CInit
BY MaxPidAssumption
DEF Init, C!CInit, LifeOf, Pid, Root, NULL

LEMMA StutterMaps ==
  ASSUME UNCHANGED <<pc, mainThread, parent, child, panic>>
  PROVE  UNCHANGED C!cvars
BY DEF C!cvars, LifeOf

LEMMA ActiveMaps ==
  ASSUME RInv, NEW p \in Pid, Running(p) \/ (panic = "no" /\ pc[p] = "exiting")
  PROVE  C!Active(p)
BY DEF RInv, CallShape, Running, C!Active, LifeOf

LEMMA ForkMaps ==
  ASSUME RInv, NEW p \in Pid, Fork(p)
  PROVE  C!Spawn(p, pid_current)
<1> DEFINE new == pid_current
<1>1. new \in Pid /\ pc[new] = "none"
  BY DEF Fork, RInv, ChildrenInv, IInv, TypeOK, Shape, PcbShape, Pid
<1>2. C!Active(p)
  BY ActiveMaps DEF Fork
<1>3. \A q \in Pid : LifeOf(q)' = IF q = new THEN "alive" ELSE LifeOf(q)
  BY <1>1 DEF Fork, LifeOf, RInv, ChildrenInv, IInv, TypeOK
<1>4. LifeOf(new) = "unborn"
  BY <1>1 DEF LifeOf
<1> QED
  BY <1>1, <1>2, <1>3, <1>4 DEF C!Spawn, Fork

LEMMA FinishExitMaps ==
  ASSUME RInv, NEW p \in Pid, FinishExit(p)
  PROVE  C!Die(p)
<1>1. C!Active(p)
  BY ActiveMaps DEF FinishExit
<1>2. p # Root
  BY DEF FinishExit, RInv, CallShape
<1>3. \A q \in joinQueue[p] : q \in Pid /\ pc[q] = "joining"
  BY DEF RInv, ChildrenInv, IInv, TypeOK, Shape, QueueShape
<1>4. \A q \in Pid : LifeOf(q)' = IF q = p THEN "zombie" ELSE LifeOf(q)
  BY <1>3 DEF FinishExit, Woken, LifeOf, RInv, ChildrenInv, IInv, TypeOK
<1> QED
  BY <1>1, <1>2, <1>4 DEF C!Die, FinishExit

LEMMA WaitBlockMaps ==
  ASSUME AnyPid = FALSE, RInv, NEW p \in Pid, NEW c \in Pid, WaitBlock(p, c)
  PROVE  C!Await(p, c)
<1>1. C!Active(p)
  BY ActiveMaps DEF WaitBlock
<1>2. parent[c] = p /\ pc[c] \in InKernelOrUser
  BY DEF WaitBlock, MayWaitFor, RInv, ChildrenInv, IInv, Shape, PcbShape
<1>3. LifeOf(c) = "alive"
  BY <1>2 DEF LifeOf, InKernelOrUser
<1>4. \A q \in Pid : LifeOf(q)' = LifeOf(q)
  BY DEF WaitBlock, Running, LifeOf, RInv, ChildrenInv, IInv, TypeOK
<1> QED
  BY <1>1, <1>2, <1>3, <1>4 DEF C!Await, WaitBlock

LEMMA ReapMaps ==
  ASSUME RInv, NEW p \in Pid, NEW c \in Pid, panic = "no",
         pc[p] \in {"user", "woken"}, child[p] \in {NULL, c},
         parent[c] = p, mainThread[c] = "zombie", Reap(c),
         pc' = [pc EXCEPT ![p] = "user"],
         child' = [child EXCEPT ![p] = NULL]
  PROVE  C!Collect(p, c)
<1>1. pc[c] = "dead"
  BY MaxPidAssumption
  DEF RInv, ChildrenInv, IInv, TypeOK, Shape, PcbShape, InKernelOrUser, Pc, Pid
<1>2. LifeOf(c) = "zombie" /\ LifeOf(p) = "alive"
  BY <1>1 DEF LifeOf
<1>3. \A q \in Pid : LifeOf(q)' = IF q = c THEN "collected" ELSE LifeOf(q)
  BY <1>1 DEF Reap, LifeOf, RInv, ChildrenInv, IInv, TypeOK
<1> QED
  BY <1>2, <1>3 DEF C!Collect, Reap

LEMMA WaitpidMaps ==
  ASSUME AnyPid = FALSE, RInv, NEW p \in Pid, Waitpid(p)
  PROVE  [C!CNext]_(C!cvars)
<1>1. ASSUME NEW c \in Pid,
             WaitNotFound(p, c) \/ WaitNoHang(p, c) \/ WaitAnyNone(p)
      PROVE UNCHANGED C!cvars
  BY <1>1, StutterMaps DEF WaitNotFound, WaitNoHang, WaitAnyNone
<1>2. ASSUME NEW c \in Pid, WaitBlock(p, c) PROVE C!CNext
  BY <1>2, WaitBlockMaps DEF C!CNext
<1>3. ASSUME NEW c \in Pid, WaitZombie(p, c) PROVE C!CNext
  <2>1. /\ panic = "no" /\ pc[p] = "user" /\ parent[c] = p
        /\ mainThread[c] = "zombie" /\ Reap(c) /\ pc' = pc /\ child' = child
    BY <1>3 DEF WaitZombie, MayWaitFor, Running
  <2>2. child[p] = NULL
    BY <2>1 DEF RInv, CallShape
  <2>3. pc' = [pc EXCEPT ![p] = "user"] /\ child' = [child EXCEPT ![p] = NULL]
    BY <2>1, <2>2 DEF RInv, ChildrenInv, IInv, TypeOK
  <2> QED
    BY <2>1, <2>2, <2>3, ReapMaps DEF C!CNext
<1>4. \A c \in Pid : ~WaitNullJoin(p, c) /\ ~WaitAnyReaps(p, c)
  BY NoBadStop DEF RInv
<1> QED
  BY <1>1, <1>2, <1>3, <1>4, MaxPidAssumption DEF Waitpid, Pid

LEMMA NextMaps ==
  ASSUME AnyPid = FALSE, RInv, [Next]_vars
  PROVE  [C!CNext]_(C!cvars)
<1>1. CASE UNCHANGED vars
  BY <1>1, StutterMaps DEF vars
<1>2. ASSUME NEW p \in Pid, Fork(p) PROVE C!CNext
  <2>1. pid_current \in Pid
    BY <1>2 DEF Fork, RInv, ChildrenInv, IInv, TypeOK, Pid
  <2> QED
    BY <1>2, <2>1, ForkMaps DEF C!CNext
<1>3. ASSUME NEW p \in Pid, Exec(p) PROVE UNCHANGED C!cvars
  <2>1. pc' = pc
    BY <1>3 DEF Exec, Migrated, RInv, ChildrenInv, IInv, TypeOK
  <2> QED
    BY <1>3, <2>1, StutterMaps DEF Exec
<1>4. ASSUME NEW p \in Pid, ExitRoot(p) PROVE C!CNext
  BY <1>4 DEF ExitRoot, Running, Stop, C!CNext, C!Halt, LifeOf
<1>5. ASSUME NEW p \in Pid, BeginExit(p) PROVE UNCHANGED C!cvars
  <2>1. \A q \in Pid : LifeOf(q)' = LifeOf(q)
    BY <1>5 DEF BeginExit, Running, LifeOf, RInv, ChildrenInv, IInv, TypeOK
  <2> QED
    BY <1>5, <2>1 DEF BeginExit, C!cvars
<1>6. ASSUME NEW p \in Pid, FinishExit(p) PROVE C!CNext
  BY <1>6, FinishExitMaps DEF C!CNext
<1>7. ASSUME NEW p \in Pid, WaitReturn(p) PROVE C!CNext
  <2>1. /\ panic = "no" /\ pc[p] = "woken" /\ child[p] \in Pid
        /\ parent[child[p]] = p /\ mainThread[child[p]] = "zombie"
    BY <1>7 DEF WaitReturn, RInv, ChildrenInv, OwnChild, IInv, Shape, QueueShape
  <2>2. /\ Reap(child[p]) /\ pc' = [pc EXCEPT ![p] = "user"]
        /\ child' = [child EXCEPT ![p] = NULL]
    BY <1>7 DEF WaitReturn
  <2> QED
    BY <2>1, <2>2, ReapMaps DEF C!CNext
<1> QED
  BY <1>1, <1>2, <1>3, <1>4, <1>5, <1>6, <1>7, WaitpidMaps, NoBadStop
  DEF Next, RInv

\* The kernel keeps the safety part of the contract: a death is collected at
\* most once, by the parent, and a blocked parent returns only with the child.
THEOREM KernelKeepsContract ==
  ASSUME AnyPid = FALSE PROVE Spec => C!ContractSafety
<1>1. Init => RInv
  BY InitRInv
<1>2. RInv /\ [Next]_vars => RInv'
  BY NextRInv
<1>3. Init => C!CInit
  BY InitMaps
<1>4. RInv /\ [Next]_vars => [C!CNext]_(C!cvars)
  BY NextMaps
<1> QED
  BY <1>1, <1>2, <1>3, <1>4, PTL DEF Spec, C!ContractSafety

=============================================================================
