-------------------------------- MODULE Lifo --------------------------------
(***************************************************************************)
(* What a hardware stack promises its program: what is pushed comes back,  *)
(* last in first out, as long as there is room.                            *)
(***************************************************************************)
EXTENDS Integers, Sequences

CONSTANTS Byte, MaxPush   \* at most so many bytes are moved in one step

VARIABLE contents   \* top first

Init == contents = <<>>

Below(n, s) == SubSeq(s, n + 1, Len(s))

Push ==
  /\ contents' \in Seq(Byte)
  /\ LET n == Len(contents') - Len(contents)
     IN  n \in 1 .. MaxPush /\ Below(n, contents') = contents

Pop ==
  LET n == Len(contents) - Len(contents')
  IN  n \in 1 .. MaxPush /\ contents' = Below(n, contents)

Next == Push \/ Pop

Spec == Init /\ [][Next]_contents
=============================================================================
