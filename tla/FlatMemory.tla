----------------------------- MODULE FlatMemory -----------------------------
(***************************************************************************)
(* What a paged memory promises: a byte for each address, read and written *)
(* one at a time, where an access that is not allowed changes nothing.     *)
(* MemSim.tla is shown to implement it.                                    *)
(***************************************************************************)
EXTENDS Integers

CONSTANTS Address, Byte

VARIABLES content,   \* the byte at each address
          readable,  \* the addresses that may be read
          writable,  \* the addresses that may be written
          answer     \* of the last access: return code and byte

fvars == <<content, readable, writable, answer>>

FInit ==
  /\ content = [a \in Address |-> 0]
  /\ readable \subseteq Address
  /\ writable \subseteq Address
  /\ answer = [rc |-> 0, byte |-> 0]

Load(a) ==
  /\ answer' = IF a \in readable THEN [rc |-> 0, byte |-> content[a]]
                                 ELSE [rc |-> -1, byte |-> 0]
  /\ UNCHANGED <<content, readable, writable>>

Store(a, b) ==
  /\ answer' = [rc |-> IF a \in writable THEN 0 ELSE -1, byte |-> 0]
  /\ content' = IF a \in writable THEN [content EXCEPT ![a] = b] ELSE content
  /\ UNCHANGED <<readable, writable>>

FNext == \E a \in Address : Load(a) \/ \E b \in Byte : Store(a, b)

FlatSpec == FInit /\ [][FNext]_fvars

=============================================================================
