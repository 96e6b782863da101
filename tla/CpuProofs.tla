----------------------------- MODULE CpuProofs -----------------------------
(***************************************************************************)
(* Proofs about the three kinds of program that MCCpu runs together, for   *)
(* every size of byte and of page:                                         *)
(*                                                                         *)
(*  - CpuStack: what a program keeps on the stack comes back, and the page *)
(*    implements a stack of bytes (Lifo).  The frames kept on the page lie *)
(*    on top of each other, each at the end of the one below it: that is   *)
(*    Laid, the invariant every push and pull is proved to keep.           *)
(*  - RunInstruction: the 256 entries of the table agree with the encoding *)
(*    of Mos6502 (TableFits, proved entry by entry), and then every run of *)
(*    an instruction does too, at any address and with any index.          *)
(*  - CpuAddressing: a pointer is followed to where it was stored.         *)
(***************************************************************************)
EXTENDS MCCpu, CpuAluProofs, SequenceTheorems, WellFoundedInduction, TLAPS

(* Sets of naturals by induction: a set that holds 0 and every successor.  *)

LEMMA SetInduction ==
  ASSUME NEW S, S \subseteq Nat, 0 \in S, \A n \in S : n + 1 \in S
  PROVE  S = Nat
<1> SUFFICES ASSUME S # Nat PROVE FALSE
  OBVIOUS
<1> DEFINE rest == Nat \ S
<1>1. rest \subseteq Nat /\ rest # {}
  OBVIOUS
<1>2. PICK x \in rest : \A y \in rest : ~(<<y, x>> \in OpToRel(<, Nat))
  BY <1>1, NatLessThanWellFounded, WFMin
<1>3. x \in Nat /\ x # 0 /\ x \notin S
  OBVIOUS
<1>4. x - 1 \in Nat /\ x - 1 < x /\ (x - 1) + 1 = x
  BY <1>3
<1>5. x - 1 \in S
  BY <1>2, <1>4, Zenon DEF OpToRel
<1> QED
  BY <1>3, <1>4, <1>5

LEMMA WordDigits ==
  ASSUME NEW a \in Word
  PROVE  High(a) \in ByteValue /\ Low(a) \in ByteValue /\ assemble_word(High(a), Low(a)) = a
<1>1. Radix \in Nat \ {0}
  BY RadixAssumption
<1>2. a \in Nat /\ a < Radix * Radix
  BY <1>1 DEF Word, WordSpace
<1>3. a = Radix * (a \div Radix) + (a % Radix) /\ a % Radix \in 0 .. Radix - 1 /\ a \div Radix \in Nat
  BY <1>1, <1>2, SMT
<1>4. a \div Radix < Radix
  BY <1>1, <1>2, <1>3, SMT
<1> QED
  BY <1>1, <1>3, <1>4 DEF High, Low, assemble_word, ByteValue


LEMMA StackFacts ==
  /\ Last \in Nat /\ Last > 1 /\ StackSize = Last + 1 /\ StackSize \in Nat
  /\ Radix \in Nat /\ Radix >= 4 /\ Bits \subseteq ByteValue
BY StackAssumption, RadixAssumption DEF Last, Bits, ByteValue

LEMMA PushedCells ==
  ASSUME SP \in 0 .. Last, stack \in [0 .. Last -> ByteValue],
         NEW bytes, NEW n \in Nat, Len(bytes) = n, n <= SP,
         \A i \in 1 .. n : bytes[i] \in ByteValue,
         PushBytes(bytes)
  PROVE  /\ SP' = SP - n /\ SP' \in 0 .. Last
         /\ stack' \in [0 .. Last -> ByteValue]
         /\ \A i \in 1 .. n : stack'[SP - n + i] = bytes[n + 1 - i]
         /\ \A c \in SP + 1 .. Last : stack'[c] = stack[c]
<1> DEFINE f == [i \in 0 .. n |-> SP - i]
           g == CHOOSE g : g = [i \in 0 .. n |-> IF i = 0 THEN SP ELSE PushSP(g[i - 1])]
           cells == {PushCell(g[i - 1]) : i \in 1 .. n}
<1>1. \A sp \in 1 .. Last : PushCell(sp) = sp /\ PushSP(sp) = sp - 1
  BY StackFacts DEF PushCell, PushSP
<1>2. f = [i \in 0 .. n |-> IF i = 0 THEN SP ELSE PushSP(f[i - 1])]
  <2>1. \A i \in 0 .. n : f[i] = IF i = 0 THEN SP ELSE PushSP(f[i - 1])
    <3>1. f[0] = SP
      BY StackFacts
    <3>2. ASSUME NEW i \in 1 .. n PROVE f[i] = PushSP(f[i - 1])
      <4>1. i - 1 \in 0 .. n /\ SP - (i - 1) \in 1 .. Last
        BY StackFacts
      <4>2. f[i] = SP - i /\ f[i - 1] = SP - (i - 1)
        BY <4>1
      <4> QED
        BY <1>1, <4>1, <4>2
    <3> QED
      BY <3>1, <3>2
  <2> QED
    BY <2>1
<1>3. g = [i \in 0 .. n |-> IF i = 0 THEN SP ELSE PushSP(g[i - 1])]
  BY <1>2, Zenon
<1> HIDE DEF g
<1>4. \A i \in 0 .. n : g[i] = SP - i
  <2> DEFINE S == {i \in Nat : i <= n => g[i] = SP - i}
  <2>1. 0 \in S
    BY <1>3, StackFacts
  <2>2. ASSUME NEW i \in S PROVE i + 1 \in S
    <3>1. CASE i + 1 <= n
      <4>1. g[i + 1] = PushSP(g[i]) /\ g[i] = SP - i /\ SP - i \in 1 .. Last
        BY <1>3, <2>2, <3>1, StackFacts
      <4> QED
        BY <1>1, <4>1, <2>2, StackFacts
    <3>2. CASE ~(i + 1 <= n)
      BY <3>2
    <3> QED
      BY <3>1, <3>2
  <2>3. S = Nat
    <3> HIDE DEF S
    <3>1. S \subseteq Nat
      BY DEF S
    <3> QED
      BY <2>1, <2>2, <3>1, SetInduction
  <2> QED
    BY <2>3
<1>5. \A i \in 1 .. n : PushCell(g[i - 1]) = SP - i + 1
  <2>1. SUFFICES ASSUME NEW i \in 1 .. n PROVE PushCell(g[i - 1]) = SP - i + 1
    OBVIOUS
  <2>2. i - 1 \in 0 .. n /\ SP - (i - 1) \in 1 .. Last
    BY <2>1, StackFacts
  <2> QED
    BY <1>1, <1>4, <2>2
<1>6. SP' = g[n]
  BY DEF PushBytes, g
<1>7. stack' = [c \in 0 .. Last |->
                  IF c \in cells
                  THEN bytes[CHOOSE i \in 1 .. n : PushCell(g[i - 1]) = c]
                  ELSE stack[c]]
  BY DEF PushBytes, g
<1>8. SP' = SP - n /\ SP' \in 0 .. Last
  BY <1>4, <1>6, StackFacts
<1>9. ASSUME NEW c \in 0 .. Last, NEW i \in 1 .. n, c = SP - i + 1
      PROVE  stack'[c] = bytes[i]
  <2>1. c \in cells
    BY <1>5, <1>9
  <2>2. \A j \in 1 .. n : PushCell(g[j - 1]) = c => j = i
    BY <1>5, <1>9, StackFacts
  <2>3. (CHOOSE j \in 1 .. n : PushCell(g[j - 1]) = c) = i
    BY <1>5, <1>9, <2>2
  <2> QED
    BY <1>7, <2>1, <2>3
<1>10. ASSUME NEW c \in 0 .. Last, \A i \in 1 .. n : c # SP - i + 1
       PROVE  stack'[c] = stack[c]
  BY <1>5, <1>7, <1>10
<1>11. \A c \in 0 .. Last : stack'[c] \in ByteValue
  BY <1>9, <1>10
<1>12. stack' \in [0 .. Last -> ByteValue]
  BY <1>7, <1>11
<1>13. ASSUME NEW i \in 1 .. n PROVE stack'[SP - n + i] = bytes[n + 1 - i]
  <2>1. /\ n + 1 - i \in 1 .. n /\ SP - n + i \in 0 .. Last
        /\ SP - n + i = SP - (n + 1 - i) + 1
    BY StackFacts
  <2> QED
    BY <1>9, <2>1
<1>14. ASSUME NEW c \in SP + 1 .. Last PROVE stack'[c] = stack[c]
  BY <1>10, StackFacts
<1> QED
  BY <1>8, <1>12, <1>13, <1>14

LEMMA PoppedCells ==
  ASSUME SP \in 0 .. Last, NEW n \in Nat, SP + n < Last
  PROVE  NthCell(n) = SP + n /\ Popped(n) = stack[SP + n]
<1> DEFINE f == [i \in 0 .. n |-> SP + i]
           g == CHOOSE g : g = [i \in 0 .. n |-> IF i = 0 THEN SP ELSE PopCell(g[i - 1])]
<1>1. \A sp \in 0 .. Last : sp + 1 < Last => PopCell(sp) = sp + 1
  BY StackFacts DEF PopCell
<1>2. f = [i \in 0 .. n |-> IF i = 0 THEN SP ELSE PopCell(f[i - 1])]
  <2>1. f[0] = SP
    BY StackFacts
  <2>2. ASSUME NEW i \in 1 .. n PROVE f[i] = PopCell(f[i - 1])
    <3>1. i - 1 \in 0 .. n /\ SP + (i - 1) \in 0 .. Last /\ SP + (i - 1) + 1 < Last
      BY StackFacts
    <3>2. f[i] = SP + i /\ f[i - 1] = SP + (i - 1)
      BY <3>1
    <3> QED
      BY <1>1, <3>1, <3>2
  <2>3. \A i \in 0 .. n : f[i] = IF i = 0 THEN SP ELSE PopCell(f[i - 1])
    <3> HIDE DEF f
    <3> QED
      BY <2>1, <2>2
  <2> QED
    BY <2>3
<1>3. g = [i \in 0 .. n |-> IF i = 0 THEN SP ELSE PopCell(g[i - 1])]
  BY <1>2, Zenon
<1> HIDE DEF g
<1>4. \A i \in 0 .. n : g[i] = SP + i
  <2> DEFINE S == {i \in Nat : i <= n => g[i] = SP + i}
  <2>1. 0 \in S
    BY <1>3, StackFacts
  <2>2. ASSUME NEW i \in S PROVE i + 1 \in S
    <3>1. CASE i + 1 <= n
      <4>1. /\ g[i + 1] = PopCell(g[i]) /\ g[i] = SP + i
            /\ SP + i \in 0 .. Last /\ SP + i + 1 < Last
        BY <1>3, <2>2, <3>1, StackFacts
      <4> QED
        BY <1>1, <4>1, <2>2, StackFacts
    <3>2. CASE ~(i + 1 <= n)
      BY <3>2
    <3> QED
      BY <3>1, <3>2
  <2>3. S = Nat
    <3> HIDE DEF S
    <3>1. S \subseteq Nat
      BY DEF S
    <3> QED
      BY <2>1, <2>2, <3>1, SetInduction
  <2> QED
    BY <2>3
<1>5. NthCell(n) = g[n]
  BY DEF NthCell, g
<1>6. NthCell(n) = SP + n
  BY <1>4, <1>5
<1> QED
  BY <1>6 DEF Popped

----------------------------------------------------------------------------
(* The frames and the cells they are in.                                   *)

\* In a memory, the cells behind a pointer give a frame back.
Holds(page, frame, at) ==
  /\ frame.kind = "call" => Plus(assemble_word(page[at + 2], page[at + 1]), 1) = frame.pc
  /\ frame.kind \in {"interrupt", "status"} => frame.byte \in Bits
  /\ frame.kind = "interrupt" =>
       /\ ClearB(page[at + 1]) = ClearB(frame.byte)
       /\ assemble_word(page[at + 3], page[at + 2]) = frame.pc
  /\ frame.kind = "data" => page[at + 1] = frame.byte
  /\ frame.kind = "status" => ClearB(page[at + 1]) = ClearB(frame.byte)

\* Frames lie one behind the other: pos[i] is where the pointer was before the
\* i-th of them was pushed.
Laid(pos, kept, page, low, high) ==
  /\ pos \in [1 .. Len(kept) + 1 -> low .. high]
  /\ pos[1] = low /\ pos[Len(kept) + 1] = high
  /\ \A i \in 1 .. Len(kept) :
       pos[i + 1] = pos[i] + Size(kept[i]) /\ Holds(page, kept[i], pos[i])
  /\ \A i, j \in 1 .. Len(kept) + 1 : i < j => pos[i] < pos[j]

StackInv ==
  /\ pc \in Word /\ A \in ByteValue /\ STATUS \in Bits
  /\ SP \in 0 .. Last /\ top \in 0 .. Last /\ top < Last
  /\ stack \in [0 .. Last -> ByteValue] /\ frames \in Seq(Frame)
  /\ \E pos : Laid(pos, frames, stack, SP, top)

LEMMA SizeFacts == \A frame \in Frame : Size(frame) \in 1 .. 3
BY DEF Frame, Size

LEMMA HeldAbove ==
  ASSUME NEW page, NEW later, NEW frame \in Frame, NEW at \in Nat, Holds(page, frame, at),
         \A c \in at + 1 .. at + Size(frame) : later[c] = page[c]
  PROVE  Holds(later, frame, at)
<1>1. frame.kind \in {"call", "interrupt", "data", "status"}
  BY DEF Frame
<1>2. CASE frame.kind = "call"
  <2>1. at + 1 \in at + 1 .. at + Size(frame) /\ at + 2 \in at + 1 .. at + Size(frame)
    BY <1>2 DEF Size
  <2> QED
    BY <1>2, <2>1 DEF Holds
<1>3. CASE frame.kind = "interrupt"
  <2>1. /\ at + 1 \in at + 1 .. at + Size(frame) /\ at + 2 \in at + 1 .. at + Size(frame)
        /\ at + 3 \in at + 1 .. at + Size(frame)
    BY <1>3 DEF Size
  <2> QED
    BY <1>3, <2>1 DEF Holds
<1>4. CASE frame.kind \in {"data", "status"}
  <2>1. at + 1 \in at + 1 .. at + Size(frame)
    BY <1>4 DEF Size
  <2> QED
    BY <1>4, <2>1 DEF Holds
<1> QED
  BY <1>1, <1>2, <1>3, <1>4

LEMMA HeadLies ==
  ASSUME StackInv, frames # <<>>
  PROVE  /\ Head(frames) \in Frame /\ Holds(stack, Head(frames), SP)
         /\ Size(Head(frames)) \in 1 .. 3 /\ SP + Size(Head(frames)) <= top
<1>1. PICK pos : Laid(pos, frames, stack, SP, top)
  BY DEF StackInv
<1>2. /\ Head(frames) \in Frame /\ Head(frames) = frames[1]
      /\ Len(frames) \in Nat /\ Len(frames) >= 1
  BY HeadTailProperties, EmptySeq, LenProperties DEF StackInv
<1>3. pos[2] = pos[1] + Size(frames[1]) /\ Holds(stack, frames[1], pos[1]) /\ pos[1] = SP
  BY <1>1, <1>2 DEF Laid
<1>4. pos[2] \in SP .. top
  BY <1>1, <1>2 DEF Laid
<1> QED
  BY <1>2, <1>3, <1>4, SizeFacts DEF StackInv

\* A frame is laid on top of others in cells that they do not have.
LEMMA LaysOnTop ==
  ASSUME NEW page, NEW later, NEW low \in Nat, NEW high \in Nat, low <= high,
         NEW kept \in Seq(Frame), NEW pos, Laid(pos, kept, page, low, high),
         NEW frame \in Frame, Size(frame) <= low, Holds(later, frame, low - Size(frame)),
         \A c \in low + 1 .. high : later[c] = page[c]
  PROVE  \E laid : Laid(laid, <<frame>> \o kept, later, low - Size(frame), high)
<1> DEFINE n    == Size(frame)
           m    == Len(kept)
           more == <<frame>> \o kept
           laid == [i \in 1 .. m + 2 |-> IF i = 1 THEN low - n ELSE pos[i - 1]]
<1>1. n \in 1 .. 3 /\ m \in Nat
  BY SizeFacts, LenProperties
<1>2. /\ Len(more) = m + 1 /\ more[1] = frame
      /\ \A i \in 1 .. m : more[i + 1] = kept[i] /\ kept[i] \in Frame
  <2>1. <<frame>> \in Seq(Frame) /\ Len(<<frame>>) = 1 /\ <<frame>>[1] = frame
    OBVIOUS
  <2>2. /\ Len(more) = 1 + m
        /\ \A i \in 1 .. 1 + m : more[i] = IF i <= 1 THEN <<frame>>[i] ELSE kept[i - 1]
    BY <2>1, ConcatProperties
  <2>3. \A i \in 1 .. m : kept[i] \in Frame
    BY ElementOfSeq
  <2> QED
    BY <1>1, <2>1, <2>2, <2>3
<1>3. /\ \A i \in 1 .. m + 1 : pos[i] \in low .. high
      /\ \A i, j \in 1 .. m + 1 : i < j => pos[i] < pos[j]
      /\ pos[1] = low /\ pos[m + 1] = high
      /\ \A i \in 1 .. m : pos[i + 1] = pos[i] + Size(kept[i]) /\ Holds(page, kept[i], pos[i])
  BY DEF Laid
<1> HIDE DEF n, m, more
<1>4. /\ laid[1] = low - n
      /\ \A i \in 1 .. m + 1 : laid[i + 1] = pos[i]
  BY <1>1
<1>5. laid \in [1 .. m + 2 -> low - n .. high]
  <2>1. \A i \in 1 .. m + 2 : laid[i] \in low - n .. high
    BY <1>1, <1>3, <1>4
  <2> QED
    BY <2>1
<1>6. laid[m + 2] = high
  BY <1>1, <1>3, <1>4
<1> HIDE DEF laid
<1>7. ASSUME NEW i \in 1 .. m + 1
      PROVE  laid[i + 1] = laid[i] + Size(more[i]) /\ Holds(later, more[i], laid[i])
  <2>1. CASE i = 1
    <3>1. laid[2] = low /\ laid[1] = low - n
      BY <1>1, <1>3, <1>4
    <3> QED
      BY <1>1, <1>2, <2>1, <3>1 DEF n
  <2>2. CASE i # 1
    <3> DEFINE k == i - 1
    <3>1. /\ k \in 1 .. m /\ i = k + 1 /\ laid[i] = pos[k] /\ laid[i + 1] = pos[k + 1]
          /\ more[i] = kept[k]
      <4>1. k \in 1 .. m /\ i = k + 1 /\ k \in 1 .. m + 1 /\ i \in 1 .. m + 1
        BY <1>1, <2>2
      <4>2. laid[k + 1] = pos[k]
        BY <1>4, <4>1
      <4>3. laid[i + 1] = pos[i]
        BY <1>4, <4>1
      <4>4. more[k + 1] = kept[k]
        BY <1>2, <4>1
      <4> QED
        BY <4>1, <4>2, <4>3, <4>4
    <3>2. /\ pos[k + 1] = pos[k] + Size(kept[k]) /\ Holds(page, kept[k], pos[k])
          /\ pos[k] \in low .. high /\ pos[k + 1] \in low .. high
          /\ kept[k] \in Frame /\ pos[k] \in Nat
      BY <1>1, <1>2, <1>3, <3>1
    <3>3. \A c \in pos[k] + 1 .. pos[k] + Size(kept[k]) : later[c] = page[c]
      BY <3>2, SizeFacts
    <3>4. Holds(later, kept[k], pos[k])
      BY <3>2, <3>3, HeldAbove
    <3> QED
      BY <3>1, <3>2, <3>4
  <2> QED
    BY <2>1, <2>2
<1>8. ASSUME NEW i \in 1 .. m + 2, NEW j \in 1 .. m + 2, i < j
      PROVE  laid[i] < laid[j]
  <2>1. CASE i = 1
    <3>1. j - 1 \in 1 .. m + 1 /\ laid[j] = pos[j - 1] /\ laid[i] = low - n
      BY <1>1, <1>4, <1>8, <2>1
    <3> QED
      BY <1>1, <1>3, <3>1
  <2>2. CASE i # 1
    <3>1. /\ i - 1 \in 1 .. m + 1 /\ j - 1 \in 1 .. m + 1 /\ i - 1 < j - 1
          /\ (i - 1) + 1 = i /\ (j - 1) + 1 = j
      BY <1>1, <1>8, <2>2
    <3>2. laid[i] = pos[i - 1] /\ laid[j] = pos[j - 1]
      BY <1>4, <3>1
    <3> QED
      BY <1>3, <3>1, <3>2
  <2> QED
    BY <2>1, <2>2
<1>9. Laid(laid, more, later, low - n, high)
  <2>1. (m + 1) + 1 = m + 2
    BY <1>1
  <2> QED
    BY <1>2, <1>4, <1>5, <1>6, <1>7, <1>8, <2>1 DEF Laid
<1> QED
  BY <1>9 DEF n, more

\* Without the frame on top the others lie as they did.
LEMMA LiesBelow ==
  ASSUME NEW page, NEW low \in Nat, NEW high \in Nat,
         NEW kept \in Seq(Frame), kept # <<>>, NEW pos, Laid(pos, kept, page, low, high)
  PROVE  \E laid : Laid(laid, Tail(kept), page, low + Size(Head(kept)), high)
<1> DEFINE m    == Len(kept)
           less == Tail(kept)
           laid == [i \in 1 .. m |-> pos[i + 1]]
<1>1. /\ m \in Nat /\ m >= 1 /\ Len(less) = m - 1 /\ Head(kept) = kept[1]
      /\ \A i \in 1 .. m - 1 : less[i] = kept[i + 1]
  BY HeadTailProperties, EmptySeq, LenProperties
<1>2. /\ \A i \in 1 .. m + 1 : pos[i] \in low .. high
      /\ \A i, j \in 1 .. m + 1 : i < j => pos[i] < pos[j]
      /\ pos[1] = low /\ pos[m + 1] = high
      /\ \A i \in 1 .. m : pos[i + 1] = pos[i] + Size(kept[i]) /\ Holds(page, kept[i], pos[i])
  BY DEF Laid
<1> HIDE DEF m, less
<1>3. \A i \in 1 .. m : laid[i] = pos[i + 1]
  OBVIOUS
<1>4. laid[1] = low + Size(Head(kept)) /\ laid[m] = high
  BY <1>1, <1>2, <1>3
<1>5. \A i \in 1 .. m : laid[i] \in pos[2] .. high
  <2>1. SUFFICES ASSUME NEW i \in 1 .. m PROVE pos[i + 1] \in pos[2] .. high
    BY <1>3
  <2>2. pos[i + 1] \in low .. high /\ pos[2] \in low .. high
    BY <1>1, <1>2
  <2>3. i + 1 = 2 \/ pos[2] < pos[i + 1]
    BY <1>1, <1>2
  <2> QED
    BY <2>2, <2>3
<1>6. laid \in [1 .. (m - 1) + 1 -> low + Size(Head(kept)) .. high]
  <2>1. pos[2] = low + Size(Head(kept)) /\ (m - 1) + 1 = m
    BY <1>1, <1>2
  <2> QED
    BY <1>5, <2>1
<1> HIDE DEF laid
<1>7. ASSUME NEW i \in 1 .. m - 1
      PROVE  laid[i + 1] = laid[i] + Size(less[i]) /\ Holds(page, less[i], laid[i])
  <2>1. i + 1 \in 1 .. m /\ i \in 1 .. m
    BY <1>1
  <2> QED
    BY <1>1, <1>2, <1>3, <2>1
<1>8. ASSUME NEW i \in 1 .. m, NEW j \in 1 .. m, i < j
      PROVE  laid[i] < laid[j]
  BY <1>1, <1>2, <1>3, <1>8
<1>9. Laid(laid, less, page, low + Size(Head(kept)), high)
  <2>1. (m - 1) + 1 = m
    BY <1>1
  <2> QED
    BY <1>1, <1>4, <1>6, <1>7, <1>8, <2>1 DEF Laid
<1> QED
  BY <1>9 DEF less

----------------------------------------------------------------------------
(* Every step pushes a frame, pops one, or leaves them alone.              *)

LEMMA PushStep ==
  ASSUME StackInv, NEW bytes, NEW frame \in Frame, Len(bytes) = Size(frame),
         RoomFor(Size(frame)), \A i \in 1 .. Size(frame) : bytes[i] \in ByteValue,
         PushBytes(bytes), frames' = <<frame>> \o frames, top' = top,
         (\A i \in 1 .. Size(frame) : stack'[SP - Size(frame) + i] = bytes[Size(frame) + 1 - i])
           => Holds(stack', frame, SP - Size(frame)),
         pc' \in Word, A' \in ByteValue, STATUS' \in Bits
  PROVE  StackInv'
<1>1. PICK pos : Laid(pos, frames, stack, SP, top)
  BY DEF StackInv
<1>2. /\ SP' = SP - Size(frame) /\ SP' \in 0 .. Last /\ stack' \in [0 .. Last -> ByteValue]
      /\ \A i \in 1 .. Size(frame) : stack'[SP - Size(frame) + i] = bytes[Size(frame) + 1 - i]
      /\ \A c \in SP + 1 .. Last : stack'[c] = stack[c]
  <2>1. Size(frame) \in Nat
    BY SizeFacts
  <2> QED
    BY <2>1, PushedCells DEF StackInv, RoomFor
<1>3. frames' \in Seq(Frame)
  BY ConcatProperties DEF StackInv
<1>4. SP \in Nat /\ top \in Nat /\ SP <= top /\ top < Last
  BY <1>1, LenProperties, StackFacts DEF StackInv, Laid
<1>5. \A c \in SP + 1 .. top : stack'[c] = stack[c]
  BY <1>2, <1>4, StackFacts
<1>6. \E laid : Laid(laid, frames', stack', SP', top')
  BY <1>1, <1>2, <1>4, <1>5, LaysOnTop DEF StackInv, RoomFor
<1> QED
  BY <1>2, <1>3, <1>4, <1>6 DEF StackInv

LEMMA PopStep ==
  ASSUME StackInv, frames # <<>>, SP' = SP + Size(Head(frames)), Drops,
         UNCHANGED <<stack, top>>,
         pc' \in Word, A' \in ByteValue, STATUS' \in Bits
  PROVE  StackInv'
<1>1. PICK pos : Laid(pos, frames, stack, SP, top)
  BY DEF StackInv
<1>2. frames' \in Seq(Frame)
  BY HeadTailProperties DEF StackInv, Drops
<1>3. SP' \in 0 .. Last
  BY HeadLies, StackFacts DEF StackInv
<1>4. \E laid : Laid(laid, frames', stack', SP', top')
  BY <1>1, LiesBelow, StackFacts DEF StackInv, Drops
<1> QED
  BY <1>2, <1>3, <1>4 DEF StackInv

LEMMA QuietStep ==
  ASSUME StackInv, UNCHANGED <<SP, stack, top, frames>>,
         pc' \in Word, A' \in ByteValue, STATUS' \in Bits
  PROVE  StackInv'
BY DEF StackInv

LEMMA WordFacts ==
  /\ WordSpace \in Nat /\ WordSpace > 3 /\ ByteValue \subseteq Nat /\ Word \subseteq Nat
  /\ \A h, l \in ByteValue : assemble_word(h, l) \in Word
  /\ \A a \in Word, n \in Nat : Plus(a, n) \in Word
<1>1. WordSpace \in Nat /\ WordSpace > 3
  <2>1. Radix * Radix \in Nat /\ Radix * Radix >= 4 * Radix
    BY StackFacts, SMT
  <2> QED
    BY <2>1, StackFacts DEF WordSpace
<1>2. ASSUME NEW h \in ByteValue, NEW l \in ByteValue PROVE assemble_word(h, l) \in Word
  <2>1. h \in Nat /\ l \in Nat /\ h <= Radix - 1 /\ l < Radix
    BY <1>2, StackFacts DEF ByteValue
  <2>2. h * Radix <= (Radix - 1) * Radix /\ h * Radix \in Nat
    BY <2>1, StackFacts, SMT
  <2>3. (Radix - 1) * Radix = Radix * Radix - Radix
    BY StackFacts, SMT
  <2> DEFINE square == Radix * Radix
             shifted == h * Radix
  <2>4. square \in Nat /\ shifted \in Nat /\ shifted <= square - Radix
    BY <2>2, <2>3, StackFacts
  <2> HIDE DEF square, shifted
  <2>5. shifted + l \in 0 .. square - 1
    BY <2>1, <2>4, StackFacts
  <2> QED
    BY <2>5 DEF square, shifted, assemble_word, Word, WordSpace
<1>3. ASSUME NEW a \in Word, NEW n \in Nat PROVE Plus(a, n) \in Word
  BY <1>1, <1>3, SMT DEF Plus, Word
<1> QED
  BY <1>1, <1>2, <1>3, StackFacts DEF Word, ByteValue

LEMMA PlusTwice ==
  ASSUME NEW a \in Word
  PROVE  Plus(Plus(a, 2), 1) = Plus(a, 3)
<1>1. a \in Nat /\ a < WordSpace /\ WordSpace \in Nat /\ WordSpace > 3
  BY WordFacts DEF Word
<1>2. CASE a + 2 < WordSpace
  <2>1. (a + 2) % WordSpace = a + 2
    BY <1>1, <1>2, SMT
  <2> QED
    BY <1>1, <2>1 DEF Plus
<1>3. CASE a + 2 >= WordSpace
  <2>1. /\ (a + 2) % WordSpace = a + 2 - WordSpace
        /\ (a + 3) % WordSpace = a + 3 - WordSpace
        /\ (a + 3 - WordSpace) % WordSpace = a + 3 - WordSpace
    BY <1>1, <1>3, SMT
  <2> QED
    BY <1>1, <2>1 DEF Plus
<1> QED
  BY <1>1, <1>2, <1>3

LEMMA StatusBits ==
  ASSUME NEW status \in Bits
  PROVE  /\ {ClearI(status), SetI(status), ClearB(status), SetB(status),
              SetI(ClearB(status))} \subseteq Bits
         /\ ClearB(SetB(status)) = ClearB(status)
<1>1. status \in {0, 1, 2, 3}
  BY DEF Bits
<1>2. status % 2 \in {0, 1} /\ (status % 2 = 1 <=> status \in {1, 3})
  BY <1>1
<1> QED
  BY <1>1, <1>2 DEF Bits, ClearI, SetI, ClearB, SetB

LEMMA NextPush ==
  ASSUME StackInv, JSR \/ nmi \/ irq \/ BRK \/ PHA \/ PHP
  PROVE  StackInv'
<1>1. /\ pc \in Word /\ A \in ByteValue /\ STATUS \in Bits /\ STATUS \in ByteValue
      /\ Sites \subseteq Word /\ 0 \in Word /\ 0 \in ByteValue
  BY StackAssumption, StackFacts, WordFacts DEF StackInv, Word, ByteValue
<1>2. \A n \in {1, 2, 3} : Plus(pc, n) \in Word
  BY <1>1, WordFacts
<1>3. CASE JSR
  <2> DEFINE back  == Plus(pc, 2)
             bytes == <<High(back), Low(back)>>
             frame == [kind |-> "call", pc |-> Plus(pc, 3), byte |-> 0]
  <2>1. frame \in Frame /\ Size(frame) = 2 /\ Len(bytes) = 2
    BY <1>1, <1>2 DEF Frame, Size
  <2>2. /\ High(back) \in ByteValue /\ Low(back) \in ByteValue
        /\ assemble_word(High(back), Low(back)) = back /\ Plus(back, 1) = Plus(pc, 3)
    BY <1>1, <1>2, WordDigits, PlusTwice
  <2>3. \A i \in 1 .. 2 : bytes[i] \in ByteValue
    BY <2>2
  <2>4. ASSUME \A i \in 1 .. 2 : stack'[SP - 2 + i] = bytes[2 + 1 - i]
        PROVE  Holds(stack', frame, SP - 2)
    <3>1. stack'[SP - 2 + 1] = Low(back) /\ stack'[SP - 2 + 2] = High(back)
      BY <2>4
    <3> QED
      BY <2>2, <3>1 DEF Holds
  <2>5. /\ RoomFor(2) /\ PushBytes(bytes) /\ frames' = <<frame>> \o frames /\ top' = top
        /\ pc' \in Word /\ A' = A /\ STATUS' = STATUS
    BY <1>1, <1>3 DEF JSR, Keeps
  <2> HIDE DEF frame, bytes
  <2> QED
    BY <1>1, <2>1, <2>3, <2>4, <2>5, PushStep
<1>4. ASSUME NEW back \in Word, NEW status \in Bits,
             RoomFor(3), PushBytes(<<High(back), Low(back), status>>),
             ClearB(status) = ClearB(STATUS), Keeps("interrupt", back, STATUS),
             STATUS' \in Bits, pc' \in Sites, UNCHANGED <<A, top>>
      PROVE  StackInv'
  <2> DEFINE bytes == <<High(back), Low(back), status>>
             frame == [kind |-> "interrupt", pc |-> back, byte |-> STATUS]
  <2>1. frame \in Frame /\ Size(frame) = 3 /\ Len(bytes) = 3
    BY <1>1, <1>4 DEF Frame, Size
  <2>2. /\ High(back) \in ByteValue /\ Low(back) \in ByteValue
        /\ assemble_word(High(back), Low(back)) = back
    BY WordDigits
  <2>3. \A i \in 1 .. 3 : bytes[i] \in ByteValue
    BY <2>2, StackFacts
  <2>4. ASSUME \A i \in 1 .. 3 : stack'[SP - 3 + i] = bytes[3 + 1 - i]
        PROVE  Holds(stack', frame, SP - 3)
    <3>1. /\ stack'[SP - 3 + 1] = status /\ stack'[SP - 3 + 2] = Low(back)
          /\ stack'[SP - 3 + 3] = High(back)
      BY <2>4
    <3> QED
      BY <1>1, <1>4, <2>2, <3>1 DEF Holds
  <2>5. /\ RoomFor(3) /\ PushBytes(bytes) /\ frames' = <<frame>> \o frames /\ top' = top
        /\ pc' \in Word /\ A' = A /\ STATUS' \in Bits
    BY <1>1, <1>4 DEF Keeps
  <2> HIDE DEF frame, bytes
  <2> QED
    BY <1>1, <2>1, <2>3, <2>4, <2>5, PushStep
<1>5. CASE nmi \/ irq
  BY <1>1, <1>4, <1>5, StatusBits DEF nmi, irq, Interrupted
<1>6. CASE BRK
  BY <1>1, <1>2, <1>4, <1>6, StatusBits DEF BRK
<1>7. ASSUME NEW byte \in ByteValue, NEW frame \in Frame, Size(frame) = 1,
             frame.kind = "data" => byte = frame.byte,
             frame.kind = "status" => frame.byte \in Bits /\ ClearB(byte) = ClearB(frame.byte),
             frame.kind \in {"data", "status"},
             RoomFor(1), PushBytes(<<byte>>), frames' = <<frame>> \o frames,
             Steps, UNCHANGED <<A, STATUS, top>>
      PROVE  StackInv'
  <2> DEFINE bytes == <<byte>>
  <2>1. Len(bytes) = 1 /\ \A i \in 1 .. 1 : bytes[i] \in ByteValue
    OBVIOUS
  <2>2. ASSUME \A i \in 1 .. 1 : stack'[SP - 1 + i] = bytes[1 + 1 - i]
        PROVE  Holds(stack', frame, SP - 1)
    <3>1. stack'[SP - 1 + 1] = byte
      BY <2>2
    <3> QED
      BY <1>7, <3>1 DEF Holds
  <2>3. pc' \in Word
    BY <1>2, <1>7 DEF Steps
  <2> HIDE DEF bytes
  <2>4. PushBytes(bytes)
    BY <1>7 DEF bytes
  <2> QED
    BY <1>1, <1>7, <2>1, <2>2, <2>3, <2>4, PushStep
<1>8. CASE PHA
  <2>1. /\ [kind |-> "data", pc |-> 0, byte |-> A] \in Frame
        /\ Size([kind |-> "data", pc |-> 0, byte |-> A]) = 1
    BY <1>1 DEF Frame, Size
  <2> QED
    BY <1>1, <1>7, <1>8, <2>1 DEF PHA, Keeps
<1>9. CASE PHP
  <2>1. /\ [kind |-> "status", pc |-> 0, byte |-> STATUS] \in Frame
        /\ Size([kind |-> "status", pc |-> 0, byte |-> STATUS]) = 1
    BY <1>1 DEF Frame, Size
  <2>2. SetB(STATUS) \in ByteValue /\ ClearB(SetB(STATUS)) = ClearB(STATUS)
    BY <1>1, StatusBits, StackFacts
  <2> QED
    BY <1>1, <1>7, <1>9, <2>1, <2>2 DEF PHP, Keeps
<1> QED
  BY <1>3, <1>5, <1>6, <1>8, <1>9

\* What the cells behind the pointer hold when a frame is expected.
LEMMA PopsHead ==
  ASSUME StackInv, frames # <<>>
  PROVE  LET frame == Head(frames) IN
         /\ frame \in Frame
         /\ \A n \in 1 .. Size(frame) : NthCell(n) = SP + n /\ Popped(n) = stack[SP + n]
         /\ \A n \in 1 .. Size(frame) : Popped(n) \in ByteValue
         /\ frame.kind = "call" =>
              Size(frame) = 2 /\ Plus(assemble_word(Popped(2), Popped(1)), 1) = frame.pc
         /\ frame.kind = "interrupt" =>
              /\ Size(frame) = 3 /\ assemble_word(Popped(3), Popped(2)) = frame.pc
              /\ frame.byte \in Bits /\ ClearB(Popped(1)) = ClearB(frame.byte)
         /\ frame.kind = "data" => Size(frame) = 1 /\ Popped(1) = frame.byte
         /\ frame.kind = "status" =>
              /\ Size(frame) = 1
              /\ frame.byte \in Bits /\ ClearB(Popped(1)) = ClearB(frame.byte)
<1> DEFINE frame == Head(frames)
<1>1. /\ frame \in Frame /\ Holds(stack, frame, SP)
      /\ Size(frame) \in 1 .. 3 /\ SP + Size(frame) <= top
      /\ SP \in Nat /\ SP \in 0 .. Last /\ top \in Nat /\ top < Last
  BY HeadLies, StackFacts DEF StackInv
<1> HIDE DEF frame
<1>2. ASSUME NEW n \in 1 .. Size(frame)
      PROVE  NthCell(n) = SP + n /\ Popped(n) = stack[SP + n]
  <2>1. n \in Nat /\ SP + n < Last
    BY <1>1, StackFacts
  <2> QED
    BY <1>1, <2>1, PoppedCells
<1>3. ASSUME NEW n \in 1 .. Size(frame) PROVE Popped(n) \in ByteValue
  BY <1>1, <1>2, StackFacts DEF StackInv
<1>4. frame.kind = "call" =>
        Size(frame) = 2 /\ Plus(assemble_word(Popped(2), Popped(1)), 1) = frame.pc
  BY <1>1, <1>2 DEF Holds, Size
<1>5. frame.kind = "interrupt" =>
        /\ Size(frame) = 3 /\ assemble_word(Popped(3), Popped(2)) = frame.pc
        /\ frame.byte \in Bits /\ ClearB(Popped(1)) = ClearB(frame.byte)
  BY <1>1, <1>2 DEF Holds, Size
<1>6. frame.kind = "data" => Size(frame) = 1 /\ Popped(1) = frame.byte
  BY <1>1, <1>2 DEF Holds, Size
<1>7. frame.kind = "status" =>
        /\ Size(frame) = 1
        /\ frame.byte \in Bits /\ ClearB(Popped(1)) = ClearB(frame.byte)
  BY <1>1, <1>2 DEF Holds, Size
<1> QED
  BY <1>1, <1>2, <1>3, <1>4, <1>5, <1>6, <1>7 DEF frame

LEMMA NextPop ==
  ASSUME StackInv, RTS \/ RTI \/ PLA \/ PLP
  PROVE  StackInv'
<1>0. frames # <<>> /\ Drops /\ UNCHANGED <<stack, top>>
  BY DEF RTS, RTI, PLA, PLP, Expects
<1> DEFINE frame == Head(frames)
<1>1. /\ pc \in Word /\ A \in ByteValue /\ STATUS \in Bits /\ frame \in Frame
      /\ frame.pc \in Word /\ Plus(pc, 1) \in Word
  BY <1>0, PopsHead, WordFacts DEF StackInv, Frame
<1>2. CASE RTS
  <2>1. frame.kind = "call"
    BY <1>2 DEF RTS, Expects
  <2>2. SP' = SP + Size(frame) /\ pc' = frame.pc
    BY <1>0, <1>2, <2>1, PopsHead DEF RTS
  <2> QED
    BY <1>0, <1>1, <1>2, <2>2, PopStep DEF RTS
<1>3. CASE RTI
  <2>1. frame.kind = "interrupt"
    BY <1>3 DEF RTI, Expects
  <2>2. /\ SP' = SP + Size(frame) /\ pc' = frame.pc
        /\ STATUS' = ClearB(frame.byte) /\ frame.byte \in Bits
    BY <1>0, <1>3, <2>1, PopsHead DEF RTI
  <2>3. STATUS' \in Bits
    BY <2>2, StatusBits
  <2> QED
    BY <1>0, <1>1, <1>3, <2>2, <2>3, PopStep DEF RTI
<1>4. CASE PLA
  <2>1. frame.kind = "data"
    BY <1>4 DEF PLA, Expects
  <2>2. SP' = SP + Size(frame) /\ A' \in ByteValue
    BY <1>0, <1>4, <2>1, PopsHead DEF PLA
  <2> QED
    BY <1>0, <1>1, <1>4, <2>2, PopStep DEF PLA, Steps
<1>5. CASE PLP
  <2>1. frame.kind = "status"
    BY <1>5 DEF PLP, Expects
  <2>2. /\ SP' = SP + Size(frame)
        /\ STATUS' = ClearB(frame.byte) /\ frame.byte \in Bits
    BY <1>0, <1>5, <2>1, PopsHead DEF PLP
  <2>3. STATUS' \in Bits
    BY <2>2, StatusBits
  <2> QED
    BY <1>0, <1>1, <1>5, <2>2, <2>3, PopStep DEF PLP, Steps
<1> QED
  BY <1>2, <1>3, <1>4, <1>5

\* The pointer stays below the last cell of the page, which the code skips.
TopsBelowLast == ResetTop < Last /\ \A t \in Tops : t < Last

LEMMA InitStackInv == TopsBelowLast /\ StackInit => StackInv
<1> SUFFICES ASSUME TopsBelowLast, StackInit PROVE StackInv
  OBVIOUS
<1>1. /\ pc \in Word /\ A \in ByteValue /\ STATUS \in Bits
      /\ SP \in 0 .. Last /\ top = SP /\ top < Last
      /\ stack \in [0 .. Last -> ByteValue] /\ frames = <<>>
  BY StackAssumption, StackFacts DEF StackInit, TopsBelowLast, ByteValue
<1>2. frames \in Seq(Frame) /\ Len(frames) = 0
  BY <1>1
<1>3. Laid([i \in 1 .. 1 |-> SP], frames, stack, SP, top)
  BY <1>1, <1>2, StackFacts DEF Laid
<1> QED
  BY <1>1, <1>2, <1>3 DEF StackInv

LEMMA NextStackInv ==
  TopsBelowLast /\ StackInv /\ [StackNext]_stack_vars => StackInv'
<1> SUFFICES ASSUME TopsBelowLast, StackInv, [StackNext]_stack_vars PROVE StackInv'
  OBVIOUS
<1>1. pc \in Word /\ A \in ByteValue /\ STATUS \in Bits /\ Plus(pc, 1) \in Word
  BY WordFacts DEF StackInv
<1>2. CASE Run
  <2>1. pc' \in Word /\ A' \in ByteValue /\ STATUS' \in Bits
    BY <1>1, <1>2, StackAssumption, StatusBits DEF Run
  <2> QED
    BY <1>2, <2>1, QuietStep DEF Run
<1>3. CASE TXS
  <2>1. /\ SP' \in 0 .. Last /\ top' = SP' /\ top' < Last /\ frames' = <<>>
        /\ pc' \in Word /\ UNCHANGED <<A, STATUS, stack>>
    BY <1>1, <1>3, StackAssumption DEF TXS, TopsBelowLast, Steps
  <2>2. frames' \in Seq(Frame) /\ Len(frames') = 0
    BY <2>1
  <2>3. \E laid : Laid(laid, frames', stack', SP', top')
    <3>1. Laid([i \in 1 .. 1 |-> SP'], frames', stack', SP', top')
      BY <2>1, <2>2, StackFacts DEF Laid
    <3> QED
      BY <3>1
  <2> QED
    BY <1>1, <2>1, <2>2, <2>3 DEF StackInv
<1>4. CASE UNCHANGED stack_vars
  BY <1>4 DEF StackInv, stack_vars
<1> QED
  BY <1>2, <1>3, <1>4, NextPush, NextPop DEF StackNext

LEMMA StackInvariant ==
  ASSUME TopsBelowLast
  PROVE  StackSpec => []StackInv
<1>1. StackInit => StackInv
  BY InitStackInv
<1>2. StackInv /\ [StackNext]_stack_vars => StackInv'
  BY NextStackInv
<1> QED
  BY <1>1, <1>2, PTL DEF StackSpec

\* Registers keep to the widths of their C types, and what the program keeps on
\* the stack to those of addresses and bytes.
THEOREM StackTypes ==
  ASSUME TopsBelowLast
  PROVE  StackSpec => []StackTypeOK
<1>1. StackInv => StackTypeOK
  BY LenProperties, ElementOfSeq DEF StackInv, StackTypeOK
<1> QED
  BY <1>1, StackInvariant, PTL

----------------------------------------------------------------------------
(* What the program gets back.                                             *)

\* Adding up the sizes of the frames leads from the pointer to the top.
LEMMA PointerCounts == StackInv => PointerCountsFrames
<1> SUFFICES ASSUME StackInv PROVE PointerCountsFrames
  OBVIOUS
<1>1. PICK pos : Laid(pos, frames, stack, SP, top)
  BY DEF StackInv
<1> DEFINE m == Len(frames)
           f == [i \in 0 .. m |-> pos[i + 1] - SP]
           g == CHOOSE g : g = [i \in 0 .. m |-> IF i = 0 THEN 0 ELSE g[i - 1] + Size(frames[i])]
<1>2. /\ m \in Nat /\ SP \in Nat /\ top \in Nat
      /\ \A i \in 1 .. m : frames[i] \in Frame /\ Size(frames[i]) \in 1 .. 3
  BY LenProperties, ElementOfSeq, SizeFacts, StackFacts DEF StackInv
<1>3. /\ \A i \in 1 .. m + 1 : pos[i] \in SP .. top
      /\ pos[1] = SP /\ pos[m + 1] = top
      /\ \A i \in 1 .. m : pos[i + 1] = pos[i] + Size(frames[i])
  BY <1>1 DEF Laid
<1> HIDE DEF m
<1>4. f = [i \in 0 .. m |-> IF i = 0 THEN 0 ELSE f[i - 1] + Size(frames[i])]
  <2>1. f[0] = 0
    BY <1>2, <1>3
  <2>2. ASSUME NEW i \in 1 .. m PROVE f[i] = f[i - 1] + Size(frames[i])
    <3>1. /\ i - 1 \in 0 .. m /\ i \in 0 .. m /\ i \in 1 .. m + 1 /\ i + 1 \in 1 .. m + 1
          /\ (i - 1) + 1 = i
      BY <1>2
    <3>2. /\ f[i] = pos[i + 1] - SP /\ f[i - 1] = pos[i] - SP
          /\ pos[i + 1] = pos[i] + Size(frames[i]) /\ pos[i] \in Int /\ Size(frames[i]) \in Int
      BY <1>2, <1>3, <3>1
    <3> QED
      BY <1>2, <3>2
  <2>3. \A i \in 0 .. m : f[i] = IF i = 0 THEN 0 ELSE f[i - 1] + Size(frames[i])
    <3> HIDE DEF f
    <3> QED
      BY <2>1, <2>2
  <2> QED
    BY <2>3
<1>5. g = [i \in 0 .. m |-> IF i = 0 THEN 0 ELSE g[i - 1] + Size(frames[i])]
  BY <1>4, Zenon
<1> HIDE DEF g
<1>6. \A i \in 0 .. m : g[i] = pos[i + 1] - SP
  <2> DEFINE S == {i \in Nat : i <= m => g[i] = pos[i + 1] - SP}
  <2>1. 0 \in S
    BY <1>2, <1>3, <1>5
  <2>2. ASSUME NEW i \in S PROVE i + 1 \in S
    <3>1. CASE i + 1 <= m
      <4>1. i \in Nat /\ i + 1 \in 1 .. m /\ i + 1 \in 1 .. m + 1 /\ i <= m /\ (i + 1) - 1 = i
        BY <1>2, <2>2, <3>1
      <4>2. g[i + 1] = g[i] + Size(frames[i + 1]) /\ g[i] = pos[i + 1] - SP
        BY <1>2, <1>5, <2>2, <4>1
      <4>3. /\ pos[(i + 1) + 1] = pos[i + 1] + Size(frames[i + 1])
            /\ pos[i + 1] \in Int /\ Size(frames[i + 1]) \in Int
        BY <1>2, <1>3, <4>1
      <4>4. g[i + 1] = pos[(i + 1) + 1] - SP
        BY <1>2, <4>2, <4>3
      <4> QED
        BY <4>1, <4>4
    <3>2. CASE ~(i + 1 <= m)
      BY <2>2, <3>2
    <3> QED
      BY <3>1, <3>2
  <2>3. S = Nat
    <3> HIDE DEF S
    <3>1. S \subseteq Nat
      BY DEF S
    <3> QED
      BY <2>1, <2>2, <3>1, SetInduction
  <2> QED
    BY <1>2, <2>3
<1>7. top - SP = g[m]
  BY <1>2, <1>3, <1>6
<1> QED
  BY <1>7 DEF PointerCountsFrames, g, m

LEMMA PopComesBack ==
  ASSUME StackInv
  PROVE  LET frame == Head(frames) IN
         /\ RTS => pc' = frame.pc
         /\ RTI => pc' = frame.pc /\ STATUS' = ClearB(frame.byte)
         /\ PLA => A' = frame.byte
         /\ PLP => STATUS' = ClearB(frame.byte)
<1> DEFINE frame == Head(frames)
<1>1. ASSUME RTS PROVE pc' = frame.pc
  <2>1. frames # <<>> /\ frame.kind = "call"
    BY <1>1 DEF RTS, Expects
  <2> QED
    BY <1>1, <2>1, PopsHead DEF RTS
<1>2. ASSUME RTI PROVE pc' = frame.pc /\ STATUS' = ClearB(frame.byte)
  <2>1. frames # <<>> /\ frame.kind = "interrupt"
    BY <1>2 DEF RTI, Expects
  <2> QED
    BY <1>2, <2>1, PopsHead DEF RTI
<1>3. ASSUME PLA PROVE A' = frame.byte
  <2>1. frames # <<>> /\ frame.kind = "data"
    BY <1>3 DEF PLA, Expects
  <2> QED
    BY <1>3, <2>1, PopsHead DEF PLA
<1>4. ASSUME PLP PROVE STATUS' = ClearB(frame.byte)
  <2>1. frames # <<>> /\ frame.kind = "status"
    BY <1>4 DEF PLP, Expects
  <2> QED
    BY <1>4, <2>1, PopsHead DEF PLP
<1> QED
  BY <1>1, <1>2, <1>3, <1>4

\* In every program that pops what it pushed and keeps the pointer off the last
\* cell of the page, subroutines, interrupts and pulled registers come back as
\* they were left, in every nesting and for every size of page and byte.
THEOREM FramesReturn ==
  ASSUME TopsBelowLast
  PROVE  StackSpec => FramesComeBack
<1>1. StackInv => PointerCountsFrames
  BY PointerCounts
<1>2. ASSUME StackInv, [StackNext]_stack_vars
      PROVE  [LET frame == Head(frames) IN
              /\ RTS => pc' = frame.pc
              /\ RTI => pc' = frame.pc /\ STATUS' = ClearB(frame.byte)
              /\ PLA => A' = frame.byte
              /\ PLP => STATUS' = ClearB(frame.byte)]_stack_vars
  BY <1>2, PopComesBack
<1> QED
  BY <1>1, <1>2, StackInvariant, PTL DEF StackSpec, FramesComeBack, ComesBack

----------------------------------------------------------------------------
(* The page as a stack of bytes.                                           *)

\* The cells above one pointer up to another.
Slice(page, low, high) == [i \in 1 .. high - low |-> page[low + i]]

LEMMA SliceType ==
  ASSUME NEW page \in [0 .. Last -> ByteValue], NEW low \in Nat, NEW high \in Nat,
         low <= high, high < Last
  PROVE  Slice(page, low, high) \in Seq(ByteValue) /\ Len(Slice(page, low, high)) = high - low
<1>1. high - low \in Nat
  OBVIOUS
<1>2. \A i \in 1 .. high - low : page[low + i] \in ByteValue
  BY StackFacts
<1>3. Slice(page, low, high) \in [1 .. high - low -> ByteValue]
  BY <1>2 DEF Slice
<1> QED
  BY <1>1, <1>3

\* Without its first cells the slice is the one from a higher pointer.
LEMMA SliceBelow ==
  ASSUME NEW page \in [0 .. Last -> ByteValue], NEW later \in [0 .. Last -> ByteValue],
         NEW low \in Nat, NEW mid \in Nat, NEW high \in Nat,
         low <= mid, mid <= high, high < Last,
         \A c \in mid + 1 .. high : later[c] = page[c]
  PROVE  Stack!Below(mid - low, Slice(later, low, high)) = Slice(page, mid, high)
<1> DEFINE long  == Slice(later, low, high)
           short == Slice(page, mid, high)
           n     == mid - low
           below == SubSeq(long, n + 1, high - low)
<1>1. /\ long \in Seq(ByteValue) /\ Len(long) = high - low
      /\ short \in Seq(ByteValue) /\ Len(short) = high - mid
  <2>1. low <= high
    OBVIOUS
  <2>2. long \in Seq(ByteValue) /\ Len(long) = high - low
    BY <2>1, SliceType
  <2>3. short \in Seq(ByteValue) /\ Len(short) = high - mid
    BY SliceType
  <2> HIDE DEF long, short
  <2> QED
    BY <2>2, <2>3
<1>2. /\ \A i \in 1 .. high - low : long[i] = later[low + i]
      /\ \A i \in 1 .. high - mid : short[i] = page[mid + i]
  BY DEF Slice
<1>3. n \in Nat /\ mid = low + n
  OBVIOUS
<1> HIDE DEF long, short, n
<1>4. \A i \in n + 1 .. high - low : long[i] \in ByteValue
  BY <1>1, <1>3, ElementOfSeq
<1>5. /\ below \in Seq(ByteValue)
      /\ Len(below) = IF n + 1 <= high - low THEN (high - low) - (n + 1) + 1 ELSE 0
      /\ \A i \in 1 .. (high - low) - (n + 1) + 1 : below[i] = long[(n + 1) + i - 1]
  BY <1>3, <1>4, SubSeqProperties
<1> HIDE DEF below
<1>6. Len(below) = high - mid
  BY <1>3, <1>5
<1>7. ASSUME NEW i \in 1 .. high - mid PROVE below[i] = short[i]
  <2>1. below[i] = long[n + i] /\ n + i \in 1 .. high - low
    BY <1>3, <1>5
  <2>2. long[n + i] = later[mid + i] /\ mid + i \in mid + 1 .. high
    BY <1>2, <1>3, <2>1
  <2> QED
    BY <1>2, <2>1, <2>2
<1>8. below = short
  BY <1>1, <1>5, <1>6, <1>7, SeqEqual
<1>9. Stack!Below(n, long) = below
  BY <1>1 DEF Stack!Below, below
<1> QED
  BY <1>8, <1>9 DEF long, short, n

LEMMA ContentsAre ==
  /\ Contents = Slice(stack, SP, top) /\ Contents' = Slice(stack', SP', top')
BY DEF Contents, Depth, Slice

LEMMA PointerBelowTop == StackInv => SP \in Nat /\ top \in Nat /\ SP <= top /\ top < Last
<1> SUFFICES ASSUME StackInv PROVE SP \in Nat /\ top \in Nat /\ SP <= top /\ top < Last
  OBVIOUS
<1>1. PICK pos : Laid(pos, frames, stack, SP, top)
  BY DEF StackInv
<1> QED
  BY <1>1, LenProperties, StackFacts DEF StackInv, Laid

\* A lower pointer has the bytes of the higher one behind it.
LEMMA CellsBehindPush ==
  ASSUME NEW low \in Nat, NEW later, later \in [0 .. Last -> ByteValue],
         stack \in [0 .. Last -> ByteValue],
         SP \in Nat, top \in Nat, low <= SP, SP <= top, top < Last,
         \A c \in SP + 1 .. top : later[c] = stack[c]
  PROVE  Stack!Below(SP - low, Slice(later, low, top)) = Slice(stack, SP, top)
<1>1. SP \in Nat /\ low \in Nat /\ top \in Nat
  OBVIOUS
<1> QED
  BY <1>1, SliceBelow, Zenon

\* A push grows the stack of bytes by what it pushed.
LEMMA PushGrows ==
  ASSUME StackInv, StackInv', top' = top, NEW n \in 1 .. 3, n <= SP, SP' = SP - n,
         \A c \in SP + 1 .. Last : stack'[c] = stack[c]
  PROVE  Stack!Push
<1> DEFINE after  == Slice(stack', SP', top)
           before == Slice(stack, SP, top)
<1>1. /\ SP \in Nat /\ top \in Nat /\ SP <= top /\ top < Last /\ n \in Nat
      /\ SP' \in Nat /\ SP' <= SP /\ SP' <= top /\ SP' + n = SP
  BY PointerBelowTop
<1>2. stack \in [0 .. Last -> ByteValue] /\ stack' \in [0 .. Last -> ByteValue]
  BY DEF StackInv
<1>3. after \in Seq(ByteValue) /\ Len(after) = top - SP'
  BY <1>1, <1>2, SliceType
<1>4. Len(before) = top - SP
  BY <1>1, <1>2, SliceType
<1>5. \A c \in SP + 1 .. top : stack'[c] = stack[c]
  BY <1>1, StackFacts
<1>6. Stack!Below(SP - SP', after) = before
  BY <1>1, <1>2, <1>5, CellsBehindPush, Zenon
<1>7. Stack!Below(n, after) = before
  <2>1. SP - SP' = n
    BY <1>1
  <2> QED
    BY <1>6, <2>1
<1>8. Contents = before /\ Contents' = after
  BY ContentsAre
<1> HIDE DEF before, after
<1>9. Len(after) - Len(before) = n
  BY <1>1, <1>3, <1>4
<1> QED
  BY <1>3, <1>7, <1>8, <1>9 DEF Stack!Push

\* A pull takes from the stack of bytes what a frame is made of.
LEMMA PopShrinks ==
  ASSUME StackInv, top' = top, stack' = stack, NEW n \in 1 .. 3, SP + n <= top, SP' = SP + n
  PROVE  Stack!Pop
<1> DEFINE after  == Slice(stack, SP + n, top)
           before == Slice(stack, SP, top)
<1>1. /\ SP \in Nat /\ top \in Nat /\ SP <= top /\ top < Last /\ n \in Nat
      /\ SP + n \in Nat
  BY PointerBelowTop
<1>2. stack \in [0 .. Last -> ByteValue]
  BY DEF StackInv
<1>3. Len(after) = top - (SP + n)
  BY <1>1, <1>2, SliceType
<1>4. Len(before) = top - SP
  BY <1>1, <1>2, SliceType
<1>5. Stack!Below(n, before) = after
  <2>1. (SP + n) - SP = n
    BY <1>1
  <2>2. Stack!Below((SP + n) - SP, before) = after
    BY <1>1, <1>2, SliceBelow
  <2> QED
    BY <2>1, <2>2
<1>6. Contents = before /\ Contents' = after
  BY ContentsAre
<1> HIDE DEF before, after
<1>7. Len(before) - Len(after) = n
  BY <1>1, <1>3, <1>4
<1> QED
  BY <1>5, <1>6, <1>7 DEF Stack!Pop

\* A push moves the pointer by what it pushed and changes nothing above it.
LEMMA PushMoves ==
  ASSUME StackInv, NEW bytes, NEW n \in 1 .. 3, Len(bytes) = n, RoomFor(n),
         \A i \in 1 .. n : bytes[i] \in ByteValue, PushBytes(bytes)
  PROVE  /\ n <= SP /\ SP' = SP - n
         /\ \A c \in SP + 1 .. Last : stack'[c] = stack[c]
BY PushedCells DEF StackInv, RoomFor

LEMMA PushesAreLifo ==
  ASSUME StackInv, StackInv', JSR \/ nmi \/ irq \/ BRK \/ PHA \/ PHP
  PROVE  Stack!Push
<1>1. /\ pc \in Word /\ A \in ByteValue /\ STATUS \in Bits /\ STATUS \in ByteValue
      /\ SetB(STATUS) \in ByteValue
  BY StatusBits, StackFacts DEF StackInv
<1>2. \A n \in {0, 1, 2, 3} : Plus(pc, n) \in Word
  BY <1>1, WordFacts
<1>3. \A a \in Word : High(a) \in ByteValue /\ Low(a) \in ByteValue
  BY WordDigits
<1>4. CASE JSR
  <2> DEFINE bytes == <<High(Plus(pc, 2)), Low(Plus(pc, 2))>>
  <2>1. Len(bytes) = 2 /\ \A i \in 1 .. 2 : bytes[i] \in ByteValue
    BY <1>2, <1>3
  <2>2. RoomFor(2) /\ PushBytes(bytes) /\ top' = top
    BY <1>4 DEF JSR
  <2> HIDE DEF bytes
  <2> QED
    BY <2>1, <2>2, PushMoves, PushGrows
<1>5. ASSUME NEW back \in Word, NEW status \in ByteValue, RoomFor(3),
             PushBytes(<<High(back), Low(back), status>>), top' = top
      PROVE  Stack!Push
  <2> DEFINE bytes == <<High(back), Low(back), status>>
  <2>1. Len(bytes) = 3 /\ \A i \in 1 .. 3 : bytes[i] \in ByteValue
    BY <1>3
  <2>2. PushBytes(bytes)
    BY <1>5
  <2> HIDE DEF bytes
  <2> QED
    BY <1>5, <2>1, <2>2, PushMoves, PushGrows
<1>6. CASE nmi \/ irq
  BY <1>1, <1>5, <1>6 DEF nmi, irq, Interrupted
<1>7. CASE BRK
  BY <1>1, <1>2, <1>5, <1>7 DEF BRK
<1>8. ASSUME NEW byte \in ByteValue, RoomFor(1), PushBytes(<<byte>>), top' = top
      PROVE  Stack!Push
  <2> DEFINE bytes == <<byte>>
  <2>1. Len(bytes) = 1 /\ \A i \in 1 .. 1 : bytes[i] \in ByteValue
    OBVIOUS
  <2>2. PushBytes(bytes)
    BY <1>8
  <2> HIDE DEF bytes
  <2> QED
    BY <1>8, <2>1, <2>2, PushMoves, PushGrows
<1>9. CASE PHA
  BY <1>1, <1>8, <1>9 DEF PHA
<1>10. CASE PHP
  BY <1>1, <1>8, <1>10 DEF PHP
<1> QED
  BY <1>4, <1>6, <1>7, <1>9, <1>10

LEMMA PopsAreLifo ==
  ASSUME StackInv, RTS \/ RTI \/ PLA \/ PLP
  PROVE  Stack!Pop
<1>1. frames # <<>> /\ UNCHANGED <<stack, top>>
  BY DEF RTS, RTI, PLA, PLP, Expects
<1> DEFINE n == Size(Head(frames))
<1>2. n \in 1 .. 3 /\ SP + n <= top
  BY <1>1, HeadLies
<1>3. SP' = SP + n
  <2>1. CASE RTS
    BY <1>1, <2>1, PopsHead DEF RTS, Expects
  <2>2. CASE RTI
    BY <1>1, <2>2, PopsHead DEF RTI, Expects
  <2>3. CASE PLA
    BY <1>1, <2>3, PopsHead DEF PLA, Expects
  <2>4. CASE PLP
    BY <1>1, <2>4, PopsHead DEF PLP, Expects
  <2> QED
    BY <2>1, <2>2, <2>3, <2>4
<1> HIDE DEF n
<1> QED
  BY <1>1, <1>2, <1>3, PopShrinks

\* Without frames there are no bytes.
LEMMA NothingKept == StackInv /\ frames = <<>> => Contents = <<>>
<1> SUFFICES ASSUME StackInv, frames = <<>> PROVE Contents = <<>>
  OBVIOUS
<1>1. PICK pos : Laid(pos, frames, stack, SP, top)
  BY DEF StackInv
<1>2. SP = top
  BY <1>1 DEF Laid
<1>3. Contents = [i \in {} |-> stack[SP + i]]
  BY <1>2, StackFacts DEF Contents, Depth, StackInv
<1> QED
  BY <1>3

LEMMA NothingKeptNext == (StackInv /\ frames = <<>> => Contents = <<>>)'
BY NothingKept, PTL

\* To the program the page is a stack of bytes, whatever was left in it below
\* the pointer: no push and no pull touches what lies behind the bytes it moves.
THEOREM PageIsLifo ==
  ASSUME TopsBelowLast
  PROVE  StackSpec => IsLifo
<1>1. StackInit => Contents = <<>>
  BY InitStackInv, NothingKept DEF StackInit
<1>2. ASSUME StackInv, [StackNext]_stack_vars
      PROVE  Stack!Push \/ Stack!Pop \/ Contents' = Contents
  <2>1. StackInv'
    BY <1>2, NextStackInv
  <2>2. CASE Run \/ UNCHANGED stack_vars
    BY <2>2 DEF Run, stack_vars, Contents, Depth
  <2>3. CASE TXS
    <3>1. frames = <<>> /\ frames' = <<>>
      BY <2>3 DEF TXS
    <3>2. Contents = <<>>
      BY <1>2, <3>1, NothingKept
    <3>3. Contents' = <<>>
      BY <2>1, <3>1, NothingKeptNext
    <3> QED
      BY <3>2, <3>3
  <2> QED
    BY <1>2, <2>1, <2>2, <2>3, PushesAreLifo, PopsAreLifo DEF StackNext
<1>3. ASSUME StackInv, [StackNext]_stack_vars PROVE  [Stack!Push \/ Stack!Pop]_Contents
  BY <1>2, <1>3
<1> QED
  BY <1>1, <1>3, StackInvariant, PTL DEF StackSpec, IsLifo, Stack!Spec, Stack!Init, Stack!Next

----------------------------------------------------------------------------
(* The instruction table against the encoding.                             *)

\* The entry of an opcode: the instruction that its bits encode, as long as its
\* operand calls for, in the cycles of its bus accesses when it crosses no page
\* and takes no branch.  Where the index can cross a page, a read pays for it
\* by the penalty and a store by its base cycles.  And whatever the operation
\* reads, its addressing mode has written.
EntryFits(instr, op) ==
  /\ IF Mos!Decoded(op) # Mos!Nothing
     THEN /\ <<instr.name, instr.mode>> = Mos!Decoded(op)
          /\ instr.cycles = Mos!BusCycles(instr.name, instr.mode, FALSE, FALSE, FALSE)
          /\ instr.name = "BRK" \/ instr.length = 1 + Mos!OperandBytes(instr.mode)
          /\ instr.name \in Mos!Branches <=> instr.mode = "REL"
          /\ ReportsCrossing(instr.mode) =>
               (instr.name \in TakesPenalty <=> instr.name \notin Mos!Stores \cup Mos!Rewrites)
          /\ ReportsCrossing(instr.mode) => instr.name \notin Mos!StackUsers \cup {"JMP"}
     ELSE instr.name \in {"ILLEGAL", "NULL"} /\ instr.mode \in {"IMP", "NULL"}
  /\ instr.cycles \in 0 .. 7 /\ instr.length \in 0 .. 3
  /\ ReportsCrossing(instr.mode) /\ instr.name \in TakesPenalty => instr.cycles <= 6
  /\ instr.name \in BranchNames => instr.cycles <= 5 /\ instr.name \notin TakesPenalty
  /\ Reads(instr.name, instr.mode) \subseteq Writes(instr.mode)

FourFit(row, op, i) ==
  /\ EntryFits(row[i], op)         /\ EntryFits(row[i + 1], op + 1)
  /\ EntryFits(row[i + 2], op + 2) /\ EntryFits(row[i + 3], op + 3)

USE DEF FourFit, EntryFits, Op, Illegal, Unassigned,
        Mos!Decoded, Mos!Nothing, Mos!Groups, Mos!Flow, Mos!Arithmetic,
        Mos!ReadModifyWrite, Mos!In, Mos!Indexed, Mos!Memory, Mos!Accumulator, Mos!BusCycles,
        Mos!AddressCycles, Mos!DataCycles, Mos!OperandBytes, Mos!Branches,
        Mos!Stores, Mos!StackUsers, Mos!Rewrites,
        Reads, Writes, TakesPenalty, BranchNames, Shifts, HasAddress,
        ReportsCrossing, ZeroPageModes, PointerModes

LEMMA FitsRow0 == /\ FourFit(Row0, 0, 1) /\ FourFit(Row0, 4, 5)
                /\ FourFit(Row0, 8, 9) /\ FourFit(Row0, 12, 13)
<1>1. FourFit(Row0, 0, 1)
  BY SMTT(30) DEF Row0
<1>2. FourFit(Row0, 4, 5)
  BY SMTT(30) DEF Row0
<1>3. FourFit(Row0, 8, 9)
  BY SMTT(30) DEF Row0
<1>4. FourFit(Row0, 12, 13)
  BY SMTT(30) DEF Row0
<1> HIDE DEF FourFit
<1> QED
  BY <1>1, <1>2, <1>3, <1>4

LEMMA FitsRow1 == /\ FourFit(Row1, 16, 1) /\ FourFit(Row1, 20, 5)
                /\ FourFit(Row1, 24, 9) /\ FourFit(Row1, 28, 13)
<1>1. FourFit(Row1, 16, 1)
  BY SMTT(30) DEF Row1
<1>2. FourFit(Row1, 20, 5)
  BY SMTT(30) DEF Row1
<1>3. FourFit(Row1, 24, 9)
  BY SMTT(30) DEF Row1
<1>4. FourFit(Row1, 28, 13)
  BY SMTT(30) DEF Row1
<1> HIDE DEF FourFit
<1> QED
  BY <1>1, <1>2, <1>3, <1>4

LEMMA FitsRow2 == /\ FourFit(Row2, 32, 1) /\ FourFit(Row2, 36, 5)
                /\ FourFit(Row2, 40, 9) /\ FourFit(Row2, 44, 13)
<1>1. FourFit(Row2, 32, 1)
  BY SMTT(30) DEF Row2
<1>2. FourFit(Row2, 36, 5)
  BY SMTT(30) DEF Row2
<1>3. FourFit(Row2, 40, 9)
  BY SMTT(30) DEF Row2
<1>4. FourFit(Row2, 44, 13)
  BY SMTT(30) DEF Row2
<1> HIDE DEF FourFit
<1> QED
  BY <1>1, <1>2, <1>3, <1>4

LEMMA FitsRow3 == /\ FourFit(Row3, 48, 1) /\ FourFit(Row3, 52, 5)
                /\ FourFit(Row3, 56, 9) /\ FourFit(Row3, 60, 13)
<1>1. FourFit(Row3, 48, 1)
  BY SMTT(30) DEF Row3
<1>2. FourFit(Row3, 52, 5)
  BY SMTT(30) DEF Row3
<1>3. FourFit(Row3, 56, 9)
  BY SMTT(30) DEF Row3
<1>4. FourFit(Row3, 60, 13)
  BY SMTT(30) DEF Row3
<1> HIDE DEF FourFit
<1> QED
  BY <1>1, <1>2, <1>3, <1>4

LEMMA FitsRow4 == /\ FourFit(Row4, 64, 1) /\ FourFit(Row4, 68, 5)
                /\ FourFit(Row4, 72, 9) /\ FourFit(Row4, 76, 13)
<1>1. FourFit(Row4, 64, 1)
  BY SMTT(30) DEF Row4
<1>2. FourFit(Row4, 68, 5)
  BY SMTT(30) DEF Row4
<1>3. FourFit(Row4, 72, 9)
  BY SMTT(30) DEF Row4
<1>4. FourFit(Row4, 76, 13)
  BY SMTT(30) DEF Row4
<1> HIDE DEF FourFit
<1> QED
  BY <1>1, <1>2, <1>3, <1>4

LEMMA FitsRow5 == /\ FourFit(Row5, 80, 1) /\ FourFit(Row5, 84, 5)
                /\ FourFit(Row5, 88, 9) /\ FourFit(Row5, 92, 13)
<1>1. FourFit(Row5, 80, 1)
  BY SMTT(30) DEF Row5
<1>2. FourFit(Row5, 84, 5)
  BY SMTT(30) DEF Row5
<1>3. FourFit(Row5, 88, 9)
  BY SMTT(30) DEF Row5
<1>4. FourFit(Row5, 92, 13)
  BY SMTT(30) DEF Row5
<1> HIDE DEF FourFit
<1> QED
  BY <1>1, <1>2, <1>3, <1>4

LEMMA FitsRow6 == /\ FourFit(Row6, 96, 1) /\ FourFit(Row6, 100, 5)
                /\ FourFit(Row6, 104, 9) /\ FourFit(Row6, 108, 13)
<1>1. FourFit(Row6, 96, 1)
  BY SMTT(30) DEF Row6
<1>2. FourFit(Row6, 100, 5)
  BY SMTT(30) DEF Row6
<1>3. FourFit(Row6, 104, 9)
  BY SMTT(30) DEF Row6
<1>4. FourFit(Row6, 108, 13)
  BY SMTT(30) DEF Row6
<1> HIDE DEF FourFit
<1> QED
  BY <1>1, <1>2, <1>3, <1>4

LEMMA FitsRow7 == /\ FourFit(Row7, 112, 1) /\ FourFit(Row7, 116, 5)
                /\ FourFit(Row7, 120, 9) /\ FourFit(Row7, 124, 13)
<1>1. FourFit(Row7, 112, 1)
  BY SMTT(30) DEF Row7
<1>2. FourFit(Row7, 116, 5)
  BY SMTT(30) DEF Row7
<1>3. FourFit(Row7, 120, 9)
  BY SMTT(30) DEF Row7
<1>4. FourFit(Row7, 124, 13)
  BY SMTT(30) DEF Row7
<1> HIDE DEF FourFit
<1> QED
  BY <1>1, <1>2, <1>3, <1>4

LEMMA FitsRow8 == /\ FourFit(Row8, 128, 1) /\ FourFit(Row8, 132, 5)
                /\ FourFit(Row8, 136, 9) /\ FourFit(Row8, 140, 13)
<1>1. FourFit(Row8, 128, 1)
  BY SMTT(30) DEF Row8
<1>2. FourFit(Row8, 132, 5)
  BY SMTT(30) DEF Row8
<1>3. FourFit(Row8, 136, 9)
  BY SMTT(30) DEF Row8
<1>4. FourFit(Row8, 140, 13)
  BY SMTT(30) DEF Row8
<1> HIDE DEF FourFit
<1> QED
  BY <1>1, <1>2, <1>3, <1>4

LEMMA FitsRow9 == /\ FourFit(Row9, 144, 1) /\ FourFit(Row9, 148, 5)
                /\ FourFit(Row9, 152, 9) /\ FourFit(Row9, 156, 13)
<1>1. FourFit(Row9, 144, 1)
  BY SMTT(30) DEF Row9
<1>2. FourFit(Row9, 148, 5)
  BY SMTT(30) DEF Row9
<1>3. FourFit(Row9, 152, 9)
  BY SMTT(30) DEF Row9
<1>4. FourFit(Row9, 156, 13)
  BY SMTT(30) DEF Row9
<1> HIDE DEF FourFit
<1> QED
  BY <1>1, <1>2, <1>3, <1>4

LEMMA FitsRowA == /\ FourFit(RowA, 160, 1) /\ FourFit(RowA, 164, 5)
                /\ FourFit(RowA, 168, 9) /\ FourFit(RowA, 172, 13)
<1>1. FourFit(RowA, 160, 1)
  BY SMTT(30) DEF RowA
<1>2. FourFit(RowA, 164, 5)
  BY SMTT(30) DEF RowA
<1>3. FourFit(RowA, 168, 9)
  BY SMTT(30) DEF RowA
<1>4. FourFit(RowA, 172, 13)
  BY SMTT(30) DEF RowA
<1> HIDE DEF FourFit
<1> QED
  BY <1>1, <1>2, <1>3, <1>4

LEMMA FitsRowB == /\ FourFit(RowB, 176, 1) /\ FourFit(RowB, 180, 5)
                /\ FourFit(RowB, 184, 9) /\ FourFit(RowB, 188, 13)
<1>1. FourFit(RowB, 176, 1)
  BY SMTT(30) DEF RowB
<1>2. FourFit(RowB, 180, 5)
  BY SMTT(30) DEF RowB
<1>3. FourFit(RowB, 184, 9)
  BY SMTT(30) DEF RowB
<1>4. FourFit(RowB, 188, 13)
  BY SMTT(30) DEF RowB
<1> HIDE DEF FourFit
<1> QED
  BY <1>1, <1>2, <1>3, <1>4

LEMMA FitsRowC == /\ FourFit(RowC, 192, 1) /\ FourFit(RowC, 196, 5)
                /\ FourFit(RowC, 200, 9) /\ FourFit(RowC, 204, 13)
<1>1. FourFit(RowC, 192, 1)
  BY SMTT(30) DEF RowC
<1>2. FourFit(RowC, 196, 5)
  BY SMTT(30) DEF RowC
<1>3. FourFit(RowC, 200, 9)
  BY SMTT(30) DEF RowC
<1>4. FourFit(RowC, 204, 13)
  BY SMTT(30) DEF RowC
<1> HIDE DEF FourFit
<1> QED
  BY <1>1, <1>2, <1>3, <1>4

LEMMA FitsRowD == /\ FourFit(RowD, 208, 1) /\ FourFit(RowD, 212, 5)
                /\ FourFit(RowD, 216, 9) /\ FourFit(RowD, 220, 13)
<1>1. FourFit(RowD, 208, 1)
  BY SMTT(30) DEF RowD
<1>2. FourFit(RowD, 212, 5)
  BY SMTT(30) DEF RowD
<1>3. FourFit(RowD, 216, 9)
  BY SMTT(30) DEF RowD
<1>4. FourFit(RowD, 220, 13)
  BY SMTT(30) DEF RowD
<1> HIDE DEF FourFit
<1> QED
  BY <1>1, <1>2, <1>3, <1>4

LEMMA FitsRowE == /\ FourFit(RowE, 224, 1) /\ FourFit(RowE, 228, 5)
                /\ FourFit(RowE, 232, 9) /\ FourFit(RowE, 236, 13)
<1>1. FourFit(RowE, 224, 1)
  BY SMTT(30) DEF RowE
<1>2. FourFit(RowE, 228, 5)
  BY SMTT(30) DEF RowE
<1>3. FourFit(RowE, 232, 9)
  BY SMTT(30) DEF RowE
<1>4. FourFit(RowE, 236, 13)
  BY SMTT(30) DEF RowE
<1> HIDE DEF FourFit
<1> QED
  BY <1>1, <1>2, <1>3, <1>4

LEMMA FitsRowF == /\ FourFit(RowF, 240, 1) /\ FourFit(RowF, 244, 5)
                /\ FourFit(RowF, 248, 9) /\ FourFit(RowF, 252, 13)
<1>1. FourFit(RowF, 240, 1)
  BY SMTT(30) DEF RowF
<1>2. FourFit(RowF, 244, 5)
  BY SMTT(30) DEF RowF
<1>3. FourFit(RowF, 248, 9)
  BY SMTT(30) DEF RowF
<1>4. FourFit(RowF, 252, 13)
  BY SMTT(30) DEF RowF
<1> HIDE DEF FourFit
<1> QED
  BY <1>1, <1>2, <1>3, <1>4

HIDE DEF FourFit, EntryFits, Op, Illegal, Unassigned,
         Mos!Decoded, Mos!Nothing, Mos!Groups, Mos!Flow, Mos!Arithmetic,
         Mos!ReadModifyWrite, Mos!In, Mos!Indexed, Mos!Memory, Mos!Accumulator,
         Mos!BusCycles, Mos!AddressCycles, Mos!DataCycles, Mos!OperandBytes,
         Mos!Branches, Mos!Stores, Mos!StackUsers, Mos!Rewrites,
         Reads, Writes, TakesPenalty, BranchNames, Shifts, HasAddress,
         ReportsCrossing, ZeroPageModes, PointerModes

\* What the four quarters of a row say, for each of its opcodes.
LEMMA RowFits ==
  ASSUME NEW row, NEW first \in Nat, FourFit(row, first, 1), FourFit(row, first + 4, 5),
         FourFit(row, first + 8, 9), FourFit(row, first + 12, 13)
  PROVE  \A i \in 0 .. 15 : EntryFits(row[i + 1], first + i)
<1>1. \A i \in 0 .. 15 : i \in {0, 1, 2, 3, 4, 5, 6, 7, 8, 9, 10, 11, 12, 13, 14, 15}
  OBVIOUS
<1> QED
  BY <1>1 DEF FourFit

LEMMA TableFits == \A op \in Opcodes : EntryFits(Table[op], op)
<1> DEFINE RowOf(r) == \A i \in 0 .. 15 : EntryFits(Matrix[r + 1][i + 1], 16 * r + i)
<1>0. RowOf(0)
  BY FitsRow0, RowFits DEF Matrix
<1>1. RowOf(1)
  BY FitsRow1, RowFits DEF Matrix
<1>2. RowOf(2)
  BY FitsRow2, RowFits DEF Matrix
<1>3. RowOf(3)
  BY FitsRow3, RowFits DEF Matrix
<1>4. RowOf(4)
  BY FitsRow4, RowFits DEF Matrix
<1>5. RowOf(5)
  BY FitsRow5, RowFits DEF Matrix
<1>6. RowOf(6)
  BY FitsRow6, RowFits DEF Matrix
<1>7. RowOf(7)
  BY FitsRow7, RowFits DEF Matrix
<1>8. RowOf(8)
  BY FitsRow8, RowFits DEF Matrix
<1>9. RowOf(9)
  BY FitsRow9, RowFits DEF Matrix
<1>10. RowOf(10)
  BY FitsRowA, RowFits DEF Matrix
<1>11. RowOf(11)
  BY FitsRowB, RowFits DEF Matrix
<1>12. RowOf(12)
  BY FitsRowC, RowFits DEF Matrix
<1>13. RowOf(13)
  BY FitsRowD, RowFits DEF Matrix
<1>14. RowOf(14)
  BY FitsRowE, RowFits DEF Matrix
<1>15. RowOf(15)
  BY FitsRowF, RowFits DEF Matrix
<1>16. ASSUME NEW r \in 0 .. 15 PROVE RowOf(r)
  <2>1. r \in {0, 1, 2, 3, 4, 5, 6, 7, 8, 9, 10, 11, 12, 13, 14, 15}
    OBVIOUS
  <2> HIDE DEF RowOf
  <2> QED
    BY <1>0, <1>1, <1>2, <1>3, <1>4, <1>5, <1>6, <1>7, <1>8, <1>9, <1>10, <1>11, <1>12,
       <1>13, <1>14, <1>15, <2>1
<1> SUFFICES ASSUME NEW op \in Opcodes PROVE EntryFits(Table[op], op)
  OBVIOUS
<1>17. op \div 16 \in 0 .. 15 /\ op % 16 \in 0 .. 15 /\ op = 16 * (op \div 16) + (op % 16)
  BY DEF Opcodes
<1>18. Table[op] = Matrix[(op \div 16) + 1][(op % 16) + 1]
  BY DEF Table
<1> QED
  BY <1>16, <1>17, <1>18

----------------------------------------------------------------------------
(* An instruction runs as it is encoded.                                   *)

LEMMA Wraps ==
  /\ \A n \in Int : n % WordSpace \in Word
  /\ \A n \in Int : n % Radix \in ByteValue
  /\ ByteValue \subseteq Word /\ Word \subseteq Int /\ ByteValue \subseteq Int
  /\ WordSpace \in Nat \ {0} /\ Radix \in Nat \ {0, 1}
  /\ Offsets \subseteq Int /\ 0 \in Offsets /\ 0 \in Word
<1>1. Radix \in Nat \ {0, 1}
  BY RadixAssumption
<1>2. Radix * Radix \in Nat /\ Radix * Radix >= Radix
  BY <1>1, SMT
<1>3. WordSpace \in Nat \ {0} /\ WordSpace >= Radix
  BY <1>1, <1>2 DEF WordSpace
<1>4. ByteValue \subseteq Word /\ Word \subseteq Int /\ ByteValue \subseteq Int /\ 0 \in Word
  BY <1>1, <1>3 DEF ByteValue, Word
<1>5. Radix \div 2 \in Nat \ {0}
  BY <1>1, MemoryAssumption, SMT DEF MemoryAssumption
<1>6. Offsets \subseteq Int /\ 0 \in Offsets
  BY <1>5 DEF Offsets
<1>7. ASSUME NEW n \in Int, NEW w \in Nat \ {0} PROVE n % w \in 0 .. w - 1
  BY SMT
<1>8. \A n \in Int : n % WordSpace \in Word
  BY <1>3, <1>7 DEF Word
<1>9. \A n \in Int : n % Radix \in ByteValue
  BY <1>1, <1>7 DEF ByteValue
<1> QED
  BY <1>1, <1>3, <1>4, <1>6, <1>8, <1>9

\* Between data_fetch and execute, the globals and the crossing are those of the
\* instruction's own mode.
InstructionInv ==
  /\ InstructionTypeOK
  /\ phase = "execute" =>
       LET mode == Table[current_opcode].mode IN
       /\ written = Writes(mode)
       /\ page_crossed <=> ReportsCrossing(mode) /\ Page(base) # Page(address)

LEMMA InitInstructionInv == InstructionInit => InstructionInv
<1> SUFFICES ASSUME InstructionInit PROVE InstructionInv
  OBVIOUS
<1>1. phase = "fetch" /\ PC \in Word /\ current_opcode \in Opcodes
  BY DEF InstructionInit, Opcodes
<1>2. base \in Word /\ address \in Word /\ address_rel \in Offsets
  BY Wraps DEF InstructionInit
<1>3. page_crossed \in BOOLEAN /\ condition \in BOOLEAN
  BY DEF InstructionInit
<1>4. written \subseteq Globals /\ spent \in 0 .. 7
  BY DEF InstructionInit
<1> QED
  BY <1>1, <1>2, <1>3, <1>4 DEF InstructionInv, InstructionTypeOK

LEMMA NextDataFetch ==
  ASSUME InstructionInv, DataFetch
  PROVE  InstructionInv'
<1> DEFINE mode == Table[current_opcode'].mode
<1>1. /\ phase' = "execute" /\ current_opcode' \in Opcodes
      /\ PC' \in Word /\ spent' \in 0 .. 7 /\ written' = Writes(mode)
  BY DEF DataFetch, InstructionInv, InstructionTypeOK
<1>2. base' \in Word /\ address' \in Word
  <2>1. CASE HasAddress(mode)
    <3>1. Resolve(mode)
      BY <2>1 DEF DataFetch
    <3>2. PICK b \in IF mode \in ZeroPageModes THEN ByteValue ELSE Word, i \in ByteValue :
            /\ base' = b
            /\ address' = CASE mode \in {"ABX", "ABY", "IZY"} -> (b + i) % WordSpace
                            [] mode \in {"ZPX", "ZPY"}        -> (b + i) % Radix
                            [] OTHER                          -> b
      BY <3>1 DEF Resolve
    <3>3. b \in Word /\ b \in Int /\ i \in Int /\ b + i \in Int
      BY <3>2, Wraps
    <3>4. (b + i) % WordSpace \in Word /\ (b + i) % Radix \in Word
      BY <3>3, Wraps
    <3> HIDE DEF mode
    <3> QED
      BY <3>2, <3>3, <3>4
  <2>2. CASE ~HasAddress(mode)
    BY <2>2 DEF DataFetch, InstructionInv, InstructionTypeOK
  <2> QED
    BY <2>1, <2>2
<1>3. address_rel' \in Offsets /\ condition' \in BOOLEAN
  BY DEF DataFetch, InstructionInv, InstructionTypeOK
<1>4. page_crossed' = (ReportsCrossing(mode) /\ crosses_page(base', address'))
  BY DEF DataFetch
<1>5. /\ page_crossed' \in BOOLEAN
      /\ page_crossed' <=> ReportsCrossing(mode) /\ Page(base') # Page(address')
  BY <1>4, Zenon DEF crosses_page
<1>6. written' \subseteq Globals
  BY <1>1 DEF Writes, Globals
<1> HIDE DEF mode
<1>7. InstructionTypeOK'
  BY <1>1, <1>2, <1>3, <1>5, <1>6 DEF InstructionTypeOK
<1> QED
  BY <1>1, <1>5, <1>7 DEF InstructionInv, mode

\* What an instruction costs beyond its base cycles.
LEMMA ExtraCycles ==
  ASSUME InstructionInv, phase = "execute"
  PROVE  LET instr == Table[current_opcode]
         IN  instr.cycles + BranchCycles(instr.name) + PenaltyCycles(instr.name) \in 0 .. 7
<1> DEFINE instr == Table[current_opcode]
<1>1. EntryFits(instr, current_opcode)
  BY TableFits DEF InstructionInv, InstructionTypeOK
<1>2. instr.cycles \in 0 .. 7
  BY <1>1 DEF EntryFits
<1>3. CASE instr.name \in BranchNames
  <2>1. PenaltyCycles(instr.name) = 0 /\ instr.cycles <= 5
    BY <1>1, <1>3 DEF EntryFits, PenaltyCycles
  <2>2. BranchCycles(instr.name) \in 0 .. 2
    BY DEF BranchCycles
  <2> QED
    BY <1>2, <2>1, <2>2
<1>4. CASE instr.name \notin BranchNames
  <2>1. BranchCycles(instr.name) = 0
    BY <1>4 DEF BranchCycles, Takes
  <2>2. CASE page_crossed /\ instr.name \in TakesPenalty
    <3>1. ReportsCrossing(instr.mode)
      BY <2>2 DEF InstructionInv
    <3>2. instr.cycles <= 6 /\ PenaltyCycles(instr.name) = 1
      BY <1>1, <2>2, <3>1 DEF EntryFits, PenaltyCycles
    <3> QED
      BY <1>2, <2>1, <3>2
  <2>3. CASE ~(page_crossed /\ instr.name \in TakesPenalty)
    <3>1. PenaltyCycles(instr.name) = 0
      BY <2>3 DEF PenaltyCycles
    <3> QED
      BY <1>2, <2>1, <3>1
  <2> QED
    BY <2>2, <2>3
<1> QED
  BY <1>3, <1>4

LEMMA NextExecute ==
  ASSUME InstructionInv, Execute
  PROVE  InstructionInv'
<1> DEFINE instr == Table[current_opcode]
<1>1. /\ phase = "execute" /\ current_opcode \in Opcodes
      /\ PC \in Word /\ PC \in Int /\ address \in Word /\ address_rel \in Int
      /\ page_crossed \in BOOLEAN /\ condition \in BOOLEAN
  BY Wraps DEF Execute, InstructionInv, InstructionTypeOK
<1>2. instr.length \in Int
  <2>1. EntryFits(instr, current_opcode)
    BY <1>1, TableFits
  <2> QED
    BY <2>1 DEF EntryFits
<1>3. PC' \in Word
  <2>1. Goes(instr.name, instr.length)
    BY DEF Execute
  <2>2. Target \in Word /\ (PC + instr.length) % WordSpace \in Word
    <3>1. PC + 2 + address_rel \in Int /\ PC + instr.length \in Int
      BY <1>1, <1>2
    <3> QED
      BY <3>1, Wraps DEF Target
  <2>3. instr.name \in BranchNames => instr.name \notin {"JMP", "JSR", "RTS", "RTI", "BRK"}
    BY DEF BranchNames
  <2> HIDE DEF instr
  <2> QED
    BY <1>1, <2>1, <2>2, <2>3 DEF Goes, Takes
<1>4. spent' \in 0 .. 7
  BY <1>1, ExtraCycles DEF Execute
<1>5. /\ phase' = "fetch" /\ current_opcode' \in Opcodes /\ base' \in Word /\ address' \in Word
      /\ address_rel' \in Offsets /\ written' \subseteq Globals
  BY Wraps DEF Execute, Opcodes
<1>6. page_crossed' \in BOOLEAN /\ condition' \in BOOLEAN
  BY DEF Execute
<1> QED
  BY <1>3, <1>4, <1>5, <1>6 DEF InstructionInv, InstructionTypeOK

LEMMA InstructionInvariant == InstructionSpec => []InstructionInv
<1>1. InstructionInv /\ [InstructionNext]_instruction_vars => InstructionInv'
  <2> SUFFICES ASSUME InstructionInv, [InstructionNext]_instruction_vars
               PROVE  InstructionInv'
    OBVIOUS
  <2>1. CASE UNCHANGED instruction_vars
    BY <2>1 DEF InstructionInv, InstructionTypeOK, instruction_vars
  <2> QED
    BY <2>1, NextDataFetch, NextExecute DEF InstructionNext
<1> QED
  BY <1>1, InitInstructionInv, PTL DEF InstructionSpec

\* No instruction costs more than seven cycles, and every register and global
\* keeps the width of its C type, wherever the program counter and indices wrap.
THEOREM InstructionTypes == InstructionSpec => []InstructionTypeOK
<1>1. InstructionInv => InstructionTypeOK
  BY DEF InstructionInv
<1> QED
  BY <1>1, InstructionInvariant, PTL

\* No operation reads a global that an earlier instruction, or an addressing
\* mode of another kind, left there.
THEOREM FreshOperands == InstructionSpec => []OperandsAreFresh
<1>1. InstructionInv => OperandsAreFresh
  BY TableFits DEF InstructionInv, InstructionTypeOK, OperandsAreFresh, EntryFits
<1> QED
  BY <1>1, InstructionInvariant, PTL

\* What a crossed page and a taken branch add to the bus accesses.
LEMMA BusCyclesSplit ==
  ASSUME NEW name, NEW mode, NEW crossed \in BOOLEAN, NEW taken \in BOOLEAN,
         NEW far \in BOOLEAN, name \in Mos!Branches <=> mode = "REL",
         ReportsCrossing(mode) => name \notin Mos!StackUsers \cup {"JMP"}
  PROVE  Mos!BusCycles(name, mode, crossed, taken, far) =
           Mos!BusCycles(name, mode, FALSE, FALSE, FALSE)
             + (IF name \in Mos!Branches /\ taken THEN IF far THEN 2 ELSE 1 ELSE 0)
             + (IF crossed /\ ReportsCrossing(mode) /\ name \notin Mos!Stores \cup Mos!Rewrites
                THEN 1 ELSE 0)
<1> USE DEF Mos!BusCycles, Mos!AddressCycles, Mos!DataCycles, Mos!OperandBytes,
            Mos!StackUsers, Mos!Branches, ReportsCrossing
<1>1. CASE name \in Mos!Branches
  BY <1>1
<1>2. CASE name \notin Mos!Branches /\ ~ReportsCrossing(mode)
  BY <1>2
<1>3. CASE ReportsCrossing(mode)
  BY <1>3
<1> QED
  BY <1>1, <1>2, <1>3

LEMMA SpendsWhatItAccesses ==
  ASSUME InstructionInv, Execute, Mos!Documented(current_opcode)
  PROVE  spent' = Mos!BusCycles(Name, Mode, Page(base) # Page(address), condition,
                    Page((PC + 2) % WordSpace)
                      # Page((PC + 2 + address_rel) % WordSpace))
<1> DEFINE instr   == Table[current_opcode]
           crossed == Page(base) # Page(address)
           far     == Page((PC + 2) % WordSpace) # Page((PC + 2 + address_rel) % WordSpace)
<1>1. /\ current_opcode \in Opcodes /\ phase = "execute"
      /\ page_crossed \in BOOLEAN /\ condition \in BOOLEAN
      /\ page_crossed <=> ReportsCrossing(instr.mode) /\ crossed
  BY DEF Execute, InstructionInv, InstructionTypeOK
<1>2. EntryFits(instr, current_opcode) /\ Mos!Decoded(current_opcode) # Mos!Nothing
  BY <1>1, TableFits DEF Mos!Documented
<1>3. /\ Name = instr.name /\ Mode = instr.mode
      /\ instr.cycles = Mos!BusCycles(Name, Mode, FALSE, FALSE, FALSE)
      /\ Name \in Mos!Branches <=> Mode = "REL"
      /\ ReportsCrossing(Mode) =>
           (Name \in TakesPenalty <=> Name \notin Mos!Stores \cup Mos!Rewrites)
      /\ ReportsCrossing(Mode) => Name \notin Mos!StackUsers \cup {"JMP"}
      /\ instr.cycles \in 0 .. 7
  <2>1. <<instr.name, instr.mode>> = Mos!Decoded(current_opcode)
    BY <1>2 DEF EntryFits
  <2>2. Name = instr.name /\ Mode = instr.mode
    <3> HIDE DEF instr
    <3> QED
      BY <2>1 DEF Name, Mode
  <2> QED
    BY <1>2, <2>2 DEF EntryFits
<1>4. BranchCycles(Name) =
        IF Name \in Mos!Branches /\ condition THEN IF far THEN 2 ELSE 1 ELSE 0
  BY DEF BranchCycles, Takes, Target, crosses_page, BranchNames, Mos!Branches
<1>5. PenaltyCycles(Name) =
        IF crossed /\ ReportsCrossing(Mode) /\ Name \notin Mos!Stores \cup Mos!Rewrites
        THEN 1 ELSE 0
  BY <1>1, <1>3 DEF PenaltyCycles
<1>6. spent' = instr.cycles + BranchCycles(Name) + PenaltyCycles(Name)
  BY <1>3 DEF Execute
<1> HIDE DEF instr, crossed, far
<1>7. Mos!BusCycles(Name, Mode, crossed, condition, far) =
        Mos!BusCycles(Name, Mode, FALSE, FALSE, FALSE)
          + (IF Name \in Mos!Branches /\ condition THEN IF far THEN 2 ELSE 1 ELSE 0)
          + (IF crossed /\ ReportsCrossing(Mode) /\ Name \notin Mos!Stores \cup Mos!Rewrites
             THEN 1 ELSE 0)
  <2>1. crossed \in BOOLEAN /\ far \in BOOLEAN
    BY DEF crossed, far
  <2>2. \A c, t, f \in BOOLEAN :
          Mos!BusCycles(Name, Mode, c, t, f) =
            Mos!BusCycles(Name, Mode, FALSE, FALSE, FALSE)
              + (IF Name \in Mos!Branches /\ t THEN IF f THEN 2 ELSE 1 ELSE 0)
              + (IF c /\ ReportsCrossing(Mode) /\ Name \notin Mos!Stores \cup Mos!Rewrites
                 THEN 1 ELSE 0)
    <3>1. /\ Name \in Mos!Branches <=> Mode = "REL"
          /\ ReportsCrossing(Mode) => Name \notin Mos!StackUsers \cup {"JMP"}
      BY <1>3
    <3> SUFFICES ASSUME NEW c \in BOOLEAN, NEW t \in BOOLEAN, NEW f \in BOOLEAN
          PROVE  Mos!BusCycles(Name, Mode, c, t, f) =
            Mos!BusCycles(Name, Mode, FALSE, FALSE, FALSE)
              + (IF Name \in Mos!Branches /\ t THEN IF f THEN 2 ELSE 1 ELSE 0)
              + (IF c /\ ReportsCrossing(Mode) /\ Name \notin Mos!Stores \cup Mos!Rewrites
                 THEN 1 ELSE 0)
      OBVIOUS
    <3> QED
      BY <3>1, BusCyclesSplit
  <2> QED
    BY <1>1, <2>1, <2>2
<1>8. spent' = Mos!BusCycles(Name, Mode, crossed, condition, far)
  BY <1>3, <1>4, <1>5, <1>6, <1>7
<1> QED
  BY <1>8 DEF crossed, far

\* A sum taken modulo a width twice.
LEMMA WrapsTwice ==
  ASSUME NEW a \in Int, NEW r \in Int, NEW w \in Nat \ {0}
  PROVE  ((a % w) + r) % w = (a + r) % w
<1> DEFINE q == a \div w
           m == a % w
           s == m + r
<1>1. q \in Int /\ m \in 0 .. w - 1 /\ a = w * q + m
  BY SMT
<1>2. s \in Int /\ s \div w \in Int /\ s % w \in 0 .. w - 1 /\ s = w * (s \div w) + (s % w)
  BY <1>1, SMT
<1>3. a + r = w * (q + (s \div w)) + (s % w)
  <2>1. w * (q + (s \div w)) = w * q + w * (s \div w)
    BY <1>1, <1>2, SMT
  <2> QED
    BY <1>1, <1>2, <2>1
<1>4. q + (s \div w) \in Int
  BY <1>1, <1>2
<1>5. (w * (q + (s \div w)) + (s % w)) % w = s % w
  BY <1>2, <1>4, RemainderOfMultiple
<1> QED
  BY <1>3, <1>5

LEMMA LandsWhereItShould ==
  ASSUME InstructionInv, Execute, Mos!Documented(current_opcode)
  PROVE  LET behind == (PC + 1 + Mos!OperandBytes(Mode)) % WordSpace IN
         CASE Name \in {"JMP", "JSR"} -> PC' = address
           [] Name \in {"RTS", "RTI", "BRK"} -> TRUE
           [] Name \in Mos!Branches /\ condition -> PC' = (behind + address_rel) % WordSpace
           [] OTHER -> PC' = behind
<1> DEFINE instr  == Table[current_opcode]
           behind == (PC + 1 + Mos!OperandBytes(Mode)) % WordSpace
<1>1. current_opcode \in Opcodes /\ PC \in Int /\ address_rel \in Int /\ condition \in BOOLEAN
  BY Wraps DEF Execute, InstructionInv, InstructionTypeOK
<1>2. EntryFits(instr, current_opcode) /\ Mos!Decoded(current_opcode) # Mos!Nothing
  BY <1>1, TableFits DEF Mos!Documented
<1>3. /\ Name = instr.name /\ Mode = instr.mode
      /\ Name = "BRK" \/ instr.length = 1 + Mos!OperandBytes(Mode)
      /\ Name \in Mos!Branches => Mode = "REL"
  BY <1>2 DEF EntryFits, Name, Mode
<1>4. Goes(Name, instr.length)
  BY <1>3 DEF Execute
<1>5. Mos!Branches = BranchNames /\ Mos!OperandBytes(Mode) \in 0 .. 2
  BY DEF Mos!Branches, BranchNames, Mos!OperandBytes
<1>6. BranchNames \cap {"JMP", "JSR", "RTS", "RTI", "BRK"} = {}
  BY DEF BranchNames
<1> DEFINE Lands == CASE Name \in {"JMP", "JSR"} -> PC' = address
                       [] Name \in {"RTS", "RTI", "BRK"} -> TRUE
                       [] Name \in Mos!Branches /\ condition ->
                            PC' = (behind + address_rel) % WordSpace
                       [] OTHER -> PC' = behind
<1> SUFFICES Lands
  OBVIOUS
<1> HIDE DEF instr
<1>7. CASE Name \in {"JMP", "JSR"}
  BY <1>4, <1>5, <1>6, <1>7 DEF Goes, Takes
<1>8. CASE Name \in {"RTS", "RTI", "BRK"}
  BY <1>5, <1>6, <1>8
<1>9. CASE Name \in Mos!Branches /\ condition
  <2>1. PC' = (PC + 2 + address_rel) % WordSpace
    BY <1>4, <1>5, <1>6, <1>9 DEF Goes, Takes, Target
  <2>2. behind = (PC + 2) % WordSpace
    <3>1. Mos!OperandBytes(Mode) = 1
      BY <1>3, <1>9 DEF Mos!OperandBytes
    <3>2. PC + 1 + 1 = PC + 2
      BY <1>1
    <3> QED
      BY <3>1, <3>2
  <2>3. PC' = (behind + address_rel) % WordSpace
    <3>1. PC + 2 \in Int /\ WordSpace \in Nat \ {0}
      BY <1>1, Wraps
    <3>2. (((PC + 2) % WordSpace) + address_rel) % WordSpace = (PC + 2 + address_rel) % WordSpace
      BY <1>1, <3>1, WrapsTwice, Zenon
    <3> QED
      BY <2>1, <2>2, <3>2
  <2> HIDE DEF behind
  <2> QED
    BY <1>5, <1>6, <1>9, <2>3
<1>10. CASE /\ Name \notin {"JMP", "JSR", "RTS", "RTI", "BRK"}
            /\ ~(Name \in Mos!Branches /\ condition)
  <2>1. PC' = (PC + instr.length) % WordSpace
    BY <1>4, <1>5, <1>10 DEF Goes, Takes
  <2>2. PC + instr.length = PC + 1 + Mos!OperandBytes(Mode)
    BY <1>1, <1>3, <1>5, <1>10
  <2>3. PC' = behind
    BY <2>1, <2>2
  <2> HIDE DEF behind
  <2> QED
    BY <1>10, <2>3
<1> QED
  BY <1>7, <1>8, <1>9, <1>10

\* Every opcode runs as the instruction its bits encode and in exactly the
\* cycles of that instruction's bus accesses, with the page penalty and what a
\* taken branch adds, at every address and for every size of page.
THEOREM EncodedRuns == InstructionSpec => RunsAsEncoded
<1>1. InstructionInv => RunsWhatIsEncoded
  <2> SUFFICES ASSUME InstructionInv, phase = "execute"
               PROVE  IF Mos!Documented(current_opcode)
                      THEN <<Table[current_opcode].name, Table[current_opcode].mode>>
                             = Mos!Decoded(current_opcode)
                      ELSE Table[current_opcode].name \in {"ILLEGAL", "NULL"}
    BY DEF RunsWhatIsEncoded
  <2>1. EntryFits(Table[current_opcode], current_opcode)
    BY TableFits DEF InstructionInv, InstructionTypeOK
  <2> QED
    BY <2>1 DEF EntryFits, Mos!Documented
<1>2. ASSUME InstructionInv, [InstructionNext]_instruction_vars
      PROVE  [Runs /\ Mos!Documented(current_opcode) =>
                spent' = Mos!BusCycles(Name, Mode, Page(base) # Page(address), condition,
                           Page((PC + 2) % WordSpace)
                             # Page((PC + 2 + address_rel) % WordSpace))]_instruction_vars
  <2>1. Runs => Execute \/ UNCHANGED instruction_vars
    BY <1>2 DEF Runs, InstructionNext, DataFetch
  <2> QED
    BY <1>2, <2>1, SpendsWhatItAccesses
<1> QED
  BY <1>1, <1>2, InstructionInvariant, PTL DEF InstructionSpec, RunsAsEncoded, SpendsBusCycles

\* The program counter lands behind the operand the encoding calls for, or on
\* the target counted from there, also round the end of the address space.
THEOREM LandsRight == InstructionSpec => LandsOnInstruction
<1>1. ASSUME InstructionInv, [InstructionNext]_instruction_vars
      PROVE  [Runs /\ Mos!Documented(current_opcode) =>
                LET behind == (PC + 1 + Mos!OperandBytes(Mode)) % WordSpace IN
                CASE Name \in {"JMP", "JSR"} -> PC' = address
                  [] Name \in {"RTS", "RTI", "BRK"} -> TRUE
                  [] Name \in Mos!Branches /\ condition ->
                       PC' = (behind + address_rel) % WordSpace
                  [] OTHER -> PC' = behind]_instruction_vars
  <2>1. Runs => Execute \/ UNCHANGED instruction_vars
    BY <1>1 DEF Runs, InstructionNext, DataFetch
  <2> QED
    BY <1>1, <2>1, LandsWhereItShould
<1> QED
  BY <1>1, InstructionInvariant, PTL DEF InstructionSpec, LandsOnInstruction

----------------------------------------------------------------------------
(* A pointer is followed to where it was set.                              *)

LEMMA NextRemainder ==
  ASSUME NEW a \in Int, NEW w \in Nat \ {0, 1}
  PROVE  (a + 1) % w # a % w /\ (a % w # w - 1 => (a + 1) % w = (a % w) + 1)
<1> DEFINE m == a % w
<1>1. m \in 0 .. w - 1
  BY RemainderInRange
<1>2. (a + 1) % w = (m + 1) % w
  <2>1. a \in Int /\ 1 \in Int /\ w \in Nat \ {0}
    OBVIOUS
  <2> QED
    BY <2>1, WrapsTwice
<1> HIDE DEF m
<1>3. CASE m = w - 1
  <2>1. m + 1 = w * 1 + 0 /\ 0 \in 0 .. w - 1
    BY <1>3
  <2>2. (m + 1) % w = 0
    BY <2>1, RemainderOfMultiple
  <2> QED
    BY <1>2, <1>3, <2>2 DEF m
<1>4. CASE m # w - 1
  <2>1. m + 1 \in 0 .. w - 1
    BY <1>1, <1>4
  <2>2. (m + 1) % w = m + 1
    BY <2>1, RemainderSmall
  <2> QED
    BY <1>1, <1>2, <2>2 DEF m
<1> QED
  BY <1>3, <1>4

\* The two cells of a pointer, as the mode that stores into them reaches them.
LEMMA PointerCells ==
  ASSUME PointerTypeOK
  PROVE  /\ Cell(0) \in Word /\ Cell(1) \in Word /\ Cell(0) # Cell(1)
         /\ pointer_mode = "IZX" =>
              Cell(0) = (operand + X) % Radix /\ Cell(1) = (operand + X + 1) % Radix
         /\ pointer_mode = "IZY" =>
              Cell(0) = operand % Radix /\ Cell(1) = (operand + 1) % Radix
         /\ pointer_mode = "IND" =>
              /\ Cell(0) = operand /\ Cell(1) = (operand + 1) % WordSpace
              /\ operand % Radix # Radix - 1 => Cell(1) = operand + 1
<1>1. /\ operand \in Int /\ X \in Int /\ operand + 0 = operand
      /\ operand + 1 \in Int /\ operand + X \in Int
      /\ Radix \in Nat \ {0, 1} /\ WordSpace \in Nat \ {0, 1}
  BY Wraps, WordFacts DEF PointerTypeOK
<1>2. CASE pointer_mode = "IZX"
  <2>1. Cell(0) = ((operand % Radix) + X) % Radix
    BY <1>1, <1>2 DEF Cell, ZPX
  <2>2. Cell(1) = (((operand + 1) % Radix) + X) % Radix
    BY <1>2 DEF Cell, ZPX
  <2>3. Cell(0) = (operand + X) % Radix
    BY <1>1, <2>1, WrapsTwice
  <2>4. Cell(1) = (operand + X + 1) % Radix
    <3>1. (((operand + 1) % Radix) + X) % Radix = (operand + 1 + X) % Radix
      BY <1>1, WrapsTwice
    <3>2. operand + 1 + X = operand + X + 1
      BY <1>1
    <3> QED
      BY <2>2, <3>1, <3>2
  <2>5. Cell(0) # Cell(1)
    BY <1>1, <2>3, <2>4, NextRemainder
  <2>6. Cell(0) \in Word /\ Cell(1) \in Word
    <3>1. operand + X \in Int /\ operand + X + 1 \in Int
      BY <1>1
    <3>2. (operand + X) % Radix \in ByteValue /\ (operand + X + 1) % Radix \in ByteValue
      BY <3>1, Wraps
    <3> QED
      BY <2>3, <2>4, <3>2, Wraps
  <2> QED
    BY <1>2, <2>3, <2>4, <2>5, <2>6
<1>3. CASE pointer_mode = "IZY"
  <2>1. Cell(0) = (operand % Radix) % Radix /\ Cell(1) = ((operand + 1) % Radix) % Radix
    BY <1>1, <1>3 DEF Cell, ZP0
  <2>2. \A n \in Int : (n % Radix) % Radix = n % Radix
    BY <1>1, RemainderInRange, RemainderSmall
  <2>3. Cell(0) = operand % Radix /\ Cell(1) = (operand + 1) % Radix
    BY <1>1, <2>1, <2>2
  <2>4. Cell(0) # Cell(1)
    BY <1>1, <2>3, NextRemainder
  <2> QED
    BY <1>1, <1>3, <2>3, <2>4, Wraps
<1>4. CASE pointer_mode = "IND"
  <2>1. Cell(0) = operand % WordSpace /\ Cell(1) = (operand + 1) % WordSpace
    BY <1>1, <1>4 DEF Cell, ABS
  <2>2. operand \in Word
    BY Wraps, <1>4 DEF PointerTypeOK
  <2>3. operand % WordSpace = operand
    BY <1>1, <2>2, RemainderSmall DEF Word
  <2>4. ASSUME operand % Radix # Radix - 1 PROVE Cell(1) = operand + 1
    <3>1. operand # WordSpace - 1
      <4> DEFINE q == Radix - 1
      <4>1. q \in Int /\ q \in 0 .. Radix - 1 /\ Radix \in Nat \ {0}
        BY <1>1
      <4>2. (Radix * q + q) % Radix = q
        BY <4>1, RemainderOfMultiple
      <4>3. WordSpace - 1 = Radix * q + q
        BY <1>1, SMT DEF WordSpace
      <4>4. ASSUME operand = WordSpace - 1 PROVE FALSE
        <5>1. operand % Radix = q
          BY <4>2, <4>3, <4>4
        <5> QED
          BY <2>4, <5>1
      <4> QED
        BY <4>4
    <3>2. operand + 1 \in 0 .. WordSpace - 1
      BY <1>1, <2>2, <3>1 DEF Word
    <3> QED
      BY <1>1, <2>1, <3>2, RemainderSmall
  <2>5. Cell(0) # Cell(1)
    BY <1>1, <2>1, NextRemainder
  <2> QED
    BY <1>1, <1>4, <2>1, <2>2, <2>3, <2>4, <2>5, Wraps
<1> QED
  BY <1>2, <1>3, <1>4 DEF PointerTypeOK

\* Each byte of the pointer, once it is stored, is where the mode stored it.
PointerInv ==
  /\ PointerTypeOK
  /\ step # "low" => mem[Cell(0)] = target % Radix
  /\ step \notin {"low", "high"} => mem[Cell(1)] = target \div Radix
  /\ PointersAreFollowed

LEMMA InitPointerInv == PointerInit => PointerInv
<1> SUFFICES ASSUME PointerInit PROVE PointerInv
  OBVIOUS
<1>1. step = "low" /\ pointed \in Word /\ operand \in Word
  BY Wraps DEF PointerInit
<1>2. mem \in [Word -> ByteValue]
  BY DEF PointerInit
<1> QED
  BY <1>1, <1>2 DEF PointerInit, PointerInv, PointerTypeOK, PointersAreFollowed

LEMMA NextStore ==
  ASSUME PointerInv, StoreLow \/ StoreHigh
  PROVE  PointerInv'
<1>1. /\ PointerTypeOK
      /\ UNCHANGED <<pointer_mode, operand, X, Y, target, pointed>>
  BY DEF PointerInv, StoreLow, StoreHigh
<1>2. /\ Cell(0) \in Word /\ Cell(1) \in Word /\ Cell(0) # Cell(1)
  BY <1>1, PointerCells
<1>3. target % Radix \in ByteValue /\ target \div Radix \in ByteValue
  BY <1>1, WordDigits DEF PointerTypeOK, High, Low
<1>4. Cell(0)' = Cell(0) /\ Cell(1)' = Cell(1)
  BY <1>1 DEF Cell, ZPX, ZP0, ABS
<1>5. mem \in [Word -> ByteValue]
  BY <1>1 DEF PointerTypeOK
<1>6. CASE StoreLow
  <2>1. /\ step' = "high" /\ mem' \in [Word -> ByteValue]
        /\ mem'[Cell(0)] = target % Radix
    BY <1>2, <1>3, <1>5, <1>6 DEF StoreLow
  <2> QED
    BY <1>1, <1>4, <2>1 DEF PointerInv, PointerTypeOK, PointersAreFollowed
<1>7. CASE StoreHigh
  <2>1. /\ step' = "follow" /\ mem' \in [Word -> ByteValue]
        /\ mem'[Cell(0)] = mem[Cell(0)] /\ mem'[Cell(1)] = target \div Radix
        /\ mem[Cell(0)] = target % Radix
    BY <1>2, <1>3, <1>5, <1>7 DEF StoreHigh, PointerInv
  <2> QED
    BY <1>1, <1>4, <2>1 DEF PointerInv, PointerTypeOK, PointersAreFollowed
<1> QED
  BY <1>6, <1>7

LEMMA NextFollow ==
  ASSUME PointerInv, Follow
  PROVE  PointerInv'
<1>1. /\ PointerTypeOK /\ step' = "done"
      /\ mem[Cell(0)] = target % Radix /\ mem[Cell(1)] = target \div Radix
      /\ UNCHANGED <<pointer_mode, operand, X, Y, target, mem>>
  BY DEF PointerInv, Follow
<1>2. assemble_word(target \div Radix, target % Radix) = target
  BY <1>1, WordDigits DEF PointerTypeOK, High, Low
<1>3. /\ target \in Word /\ operand \in Word /\ Y \in Int /\ target + Y \in Int
      /\ Radix \in Nat \ {0, 1}
  BY <1>1, Wraps DEF PointerTypeOK
<1> DEFINE goal == CASE Straddles -> assemble_word(mem[operand + 1 - Radix], target % Radix)
                     [] pointer_mode = "IZY" -> (target + Y) % WordSpace
                     [] OTHER -> target
<1>4. pointed' \in Word /\ pointed' = goal
  <2>1. CASE pointer_mode = "IZX"
    <3>1. pointed' = assemble_word(mem[Cell(1)], mem[Cell(0)])
      BY <1>1, <2>1, PointerCells DEF Follow, IZX
    <3> QED
      BY <1>1, <1>2, <1>3, <2>1, <3>1 DEF Straddles
  <2>2. CASE pointer_mode = "IZY"
    <3>1. pointed' = (assemble_word(mem[Cell(1)], mem[Cell(0)]) + Y) % WordSpace
      BY <1>1, <2>2, PointerCells DEF Follow, IZY
    <3>2. pointed' = (target + Y) % WordSpace
      BY <1>1, <1>2, <3>1
    <3> QED
      BY <1>3, <2>2, <3>2, Wraps DEF Straddles
  <2>3. CASE pointer_mode = "IND" /\ operand % Radix # Radix - 1
    <3>1. pointed' = assemble_word(mem[Cell(1)], mem[Cell(0)])
      BY <1>1, <2>3, PointerCells DEF Follow, IND
    <3> QED
      BY <1>1, <1>2, <1>3, <2>3, <3>1 DEF Straddles
  <2>4. CASE pointer_mode = "IND" /\ operand % Radix = Radix - 1
    <3>1. operand - (operand % Radix) = operand + 1 - Radix /\ Cell(0) = operand
      BY <1>1, <1>3, <2>4, PointerCells, Wraps
    <3>2. pointed' = assemble_word(mem[operand + 1 - Radix], target % Radix)
      BY <1>1, <2>4, <3>1 DEF Follow, IND
    <3>3. operand + 1 - Radix \in Word
      <4>1. Radix \in Nat \ {0} /\ operand \in Nat
        BY <1>3, Wraps DEF Word
      <4>2. operand \div Radix \in Nat /\ operand = Radix * (operand \div Radix) + (operand % Radix)
        BY <4>1, SMT
      <4>3. Radix * (operand \div Radix) \in Nat
        BY <4>1, <4>2, SMT
      <4>4. operand + 1 - Radix \in Nat /\ operand + 1 - Radix <= operand
        BY <1>3, <2>4, <4>1, <4>2, <4>3
      <4> QED
        BY <1>3, <4>1, <4>4, WordFacts DEF Word
    <3>4. mem[operand + 1 - Radix] \in ByteValue /\ target % Radix \in ByteValue
      BY <1>1, <1>3, <3>3, WordDigits DEF PointerTypeOK, Low
    <3>5. pointed' \in Word
      BY <3>2, <3>4, WordFacts
    <3> QED
      BY <2>4, <3>2, <3>5 DEF Straddles
  <2> QED
    BY <1>1, <2>1, <2>2, <2>3, <2>4 DEF PointerTypeOK
<1>5. goal' = goal
  BY <1>1 DEF Straddles
<1>6. Cell(0)' = Cell(0) /\ Cell(1)' = Cell(1)
  BY <1>1 DEF Cell, ZPX, ZP0, ABS
<1> QED
  BY <1>1, <1>4, <1>5, <1>6 DEF PointerInv, PointerTypeOK, PointersAreFollowed

LEMMA PointerInvariant == PointerSpec => []PointerInv
<1>1. PointerInv /\ [PointerNext]_pointer_vars => PointerInv'
  <2> SUFFICES ASSUME PointerInv, [PointerNext]_pointer_vars PROVE PointerInv'
    OBVIOUS
  <2>1. CASE UNCHANGED pointer_vars
    BY <2>1 DEF PointerInv, PointerTypeOK, PointersAreFollowed, Straddles, pointer_vars,
                Cell, ZPX, ZP0, ABS
  <2> QED
    BY <2>1, NextStore, NextFollow DEF PointerNext
<1> QED
  BY <1>1, InitPointerInv, PTL DEF PointerSpec

\* A pointer that a program stores byte by byte is followed to where it points,
\* round the end of the zero page and of the address space and with every index,
\* except by JMP across the end of a page, for every size of page.
THEOREM PointersFollowed == PointerSpec => []PointersAreFollowed
<1>1. PointerInv => PointersAreFollowed
  BY DEF PointerInv
<1> QED
  BY <1>1, PointerInvariant, PTL

----------------------------------------------------------------------------
(* All programs of a run together.                                         *)

\* A run of the four kinds of programs is a run of each of them.
LEMMA EachProgram ==
  ProgramsSpec => InstructionSpec /\ StackSpec /\ PointerSpec /\ Spec
<1>1. ProgramsInit => InstructionInit /\ StackInit /\ PointerInit /\ Init
  BY DEF ProgramsInit
<1>2. [ProgramsNext]_program_vars =>
        /\ [InstructionNext]_instruction_vars /\ [StackNext]_stack_vars
        /\ [PointerNext]_pointer_vars /\ [Next]_vars
  BY DEF ProgramsNext, program_vars
<1> QED
  BY <1>1, <1>2, PTL DEF ProgramsSpec, InstructionSpec, StackSpec, PointerSpec, Spec

\* In the run that checks them together, every register, global and cell of each
\* kind of program keeps the width of its C type.
THEOREM ProgramTypes ==
  ASSUME TopsBelowLast
  PROVE  ProgramsSpec => []ProgramsTypeOK
<1>1. PointerInv => PointerTypeOK
  BY DEF PointerInv
<1> QED
  BY <1>1, EachProgram, InstructionTypes, StackTypes, PointerInvariant, TypeCorrect, PTL
     DEF ProgramsTypeOK
=============================================================================
