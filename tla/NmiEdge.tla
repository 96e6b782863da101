------------------------------ MODULE NmiEdge ------------------------------
(***************************************************************************)
(* What the PPU promises the CPU about non-maskable interrupts.  The PPU   *)
(* drives a line; the CPU sees an edge-triggered latch: the interrupt is   *)
(* requested when the line rises, exactly then, stays requested however    *)
(* the line moves, and is withdrawn only by the CPU taking it.             *)
(***************************************************************************)
VARIABLES
  line,    \* the level of the interrupt line
  pending  \* the request the CPU has not taken yet

vars == <<line, pending>>

TypeOK == line \in BOOLEAN /\ pending \in BOOLEAN

Init == line = FALSE /\ pending = FALSE

Rise == line = FALSE /\ line' = TRUE /\ pending' = TRUE

Fall == line = TRUE /\ line' = FALSE /\ UNCHANGED pending

Acknowledge == pending = TRUE /\ pending' = FALSE /\ UNCHANGED line

Next == Rise \/ Fall \/ Acknowledge

Spec == Init /\ [][Next]_vars
=============================================================================
