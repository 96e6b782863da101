--------------------------- MODULE MirroredMemory ---------------------------
(***************************************************************************)
(* What a program may rely on of a memory that is wired to more addresses  *)
(* than it has cells: it reads at every address of a cell what was written *)
(* last at any of them, and a write changes nothing else.  The board says  *)
(* which addresses share a cell, and is not changed while it runs.         *)
(***************************************************************************)
CONSTANTS
  Address,
  Value,
  Wired(_, _, _)  \* Wired(board, a, b): a write at a is seen at b

VARIABLES board, mem

Init == mem \in [Address -> Value]

Write(a, v) ==
  /\ mem' = [b \in Address |-> IF Wired(board, a, b) THEN v ELSE mem[b]]
  /\ UNCHANGED board

Next == \E a \in Address, v \in Value : Write(a, v)

Spec == Init /\ [][Next]_<<board, mem>>
=============================================================================
