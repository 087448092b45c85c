----------------------------- MODULE MCSyscalls -----------------------------
(***************************************************************************)
(* Syscalls.tla for TLC: a process of two threads, of which t1 is the main *)
(* one, and a process of one thread.                                       *)
(***************************************************************************)
EXTENDS Syscalls, TLC

CONSTANTS p1, p2, t1, t2, t3

MCOwner == t1 :> p1 @@ t2 :> p1 @@ t3 :> p2
MCMain == p1 :> t1 @@ p2 :> t3

=============================================================================
