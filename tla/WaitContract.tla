---------------------------- MODULE WaitContract ----------------------------
(***************************************************************************)
(* What fork(), exit() and waitpid() promise to the programs, whatever     *)
(* kernel is behind them: a child lives, dies, and its death is collected  *)
(* exactly once, by the process that forked it; a process that waits for   *)
(* a child comes back from the wait once the child is dead, by collecting  *)
(* it.  Process.tla is shown to implement this specification.              *)
(***************************************************************************)
EXTENDS Naturals

CONSTANTS Process,  \* the processes there may ever be
          Root,     \* the first one, one of them
          Nobody    \* not one of them

VARIABLES life,     \* life[p]: where p is between its fork and its collection
          creator,  \* creator[p]: the process that forked p
          awaits,   \* awaits[p]: the child p is blocked on
          halted    \* the whole system has stopped

cvars == <<life, creator, awaits, halted>>

Life == {"unborn", "alive", "zombie", "collected"}

ContractTypeOK ==
  /\ life \in [Process -> Life]
  /\ creator \in [Process -> Process \cup {Nobody}]
  /\ awaits \in [Process -> Process \cup {Nobody}]
  /\ halted \in BOOLEAN

CInit ==
  /\ life = [p \in Process |-> IF p = Root THEN "alive" ELSE "unborn"]
  /\ creator = [p \in Process |-> Nobody]
  /\ awaits = [p \in Process |-> Nobody]
  /\ halted = FALSE

Active(p) == ~halted /\ life[p] = "alive" /\ awaits[p] = Nobody

Spawn(p, c) ==
  /\ Active(p)
  /\ life[c] = "unborn"
  /\ life' = [life EXCEPT ![c] = "alive"]
  /\ creator' = [creator EXCEPT ![c] = p]
  /\ UNCHANGED <<awaits, halted>>

Die(p) ==
  /\ Active(p)
  /\ p # Root
  /\ life' = [life EXCEPT ![p] = "zombie"]
  /\ UNCHANGED <<creator, awaits, halted>>

Await(p, c) ==
  /\ Active(p)
  /\ creator[c] = p
  /\ life[c] = "alive"
  /\ awaits' = [awaits EXCEPT ![p] = c]
  /\ UNCHANGED <<life, creator, halted>>

\* Both a wait that finds the child dead and one that was blocked end here.
Collect(p, c) ==
  /\ ~halted
  /\ life[p] = "alive"
  /\ awaits[p] \in {Nobody, c}
  /\ creator[c] = p
  /\ life[c] = "zombie"
  /\ life' = [life EXCEPT ![c] = "collected"]
  /\ awaits' = [awaits EXCEPT ![p] = Nobody]
  /\ UNCHANGED <<creator, halted>>

CollectAwaited(p) == awaits[p] # Nobody /\ Collect(p, awaits[p])

Halt == ~halted /\ halted' = TRUE /\ UNCHANGED <<life, creator, awaits>>

CNext ==
  \/ \E p, c \in Process : Spawn(p, c) \/ Await(p, c) \/ Collect(p, c)
  \/ \E p \in Process : Die(p)
  \/ Halt

ContractSafety == CInit /\ [][CNext]_cvars

\* A blocked process whose child is dead does come back.
Contract == ContractSafety /\ \A p \in Process : WF_cvars(CollectAwaited(p))

=============================================================================
