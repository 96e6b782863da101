--------------------------- MODULE CpuAddressing ---------------------------
(***************************************************************************)
(* The pointers of cpu.c: a program stores an address in memory, low byte  *)
(* first, and an instruction in one of the modes IZX, IZY and IND goes     *)
(* where it points.  The pointer's two bytes, the index and the operand    *)
(* all wrap, each at a boundary of its own; RunInstruction leaves the      *)
(* pointer open.                                                           *)
(***************************************************************************)
EXTENDS CpuWord

VARIABLES
  pointer_mode,  \* the mode that the program uses
  step,      \* "low" and "high", to store the pointer; "follow"; "done"
  operand,   \* what follows the opcode
  X, Y,
  target,    \* the address that the program stores
  mem,
  pointed    \* the code's global address

pointer_vars == <<pointer_mode, step, operand, X, Y, target, mem, pointed>>

\* Memory is filled with one byte, to tell a stray access by.
PointerInit ==
  /\ pointer_mode \in {"IZX", "IZY", "IND"} /\ step = "low"
  /\ operand \in (IF pointer_mode = "IND" THEN Word ELSE ByteValue)
  /\ X \in ByteValue /\ Y \in ByteValue /\ target \in Word
  /\ \E fill \in ByteValue : mem = [a \in Word |-> fill]
  /\ pointed = 0

----------------------------------------------------------------------------
ZP0(op) == op % Radix
ABS(op) == op

ZPX(op) == (op + X) % Radix

\* Mutant: the high byte follows the low one out of the zero page.
IZXUnmasked(op) == assemble_word(mem[(op + X + 1) % WordSpace], mem[(op + X) % Radix])

IZX(op) == assemble_word(mem[(op + X + 1) % Radix], mem[(op + X) % Radix])

IZY(op) == (assemble_word(mem[(op + 1) % Radix], mem[op % Radix]) + Y) % WordSpace

\* A pointer at the end of a page takes its high byte from the page's start.
IND(op) ==
  LET high == IF op % Radix = Radix - 1 THEN op - (op % Radix) ELSE op + 1
  IN  assemble_word(mem[high], mem[op])

\* STA to the cell of the pointer's i'th byte, in the mode that reaches what
\* the pointer's mode reads; operands are assembled modulo their width.
Cell(i) ==
  CASE pointer_mode = "IZX" -> ZPX((operand + i) % Radix)
    [] pointer_mode = "IZY" -> ZP0((operand + i) % Radix)
    [] pointer_mode = "IND" -> ABS((operand + i) % WordSpace)

StoreLow ==
  /\ step = "low" /\ step' = "high"
  /\ mem' = [mem EXCEPT ![Cell(0)] = target % Radix]
  /\ UNCHANGED <<pointer_mode, operand, X, Y, target, pointed>>

StoreHigh ==
  /\ step = "high" /\ step' = "follow"
  /\ mem' = [mem EXCEPT ![Cell(1)] = target \div Radix]
  /\ UNCHANGED <<pointer_mode, operand, X, Y, target, pointed>>

Follow ==
  /\ step = "follow" /\ step' = "done"
  /\ pointed' = CASE pointer_mode = "IZX" -> IZX(operand)
                  [] pointer_mode = "IZY" -> IZY(operand)
                  [] pointer_mode = "IND" -> IND(operand)
  /\ UNCHANGED <<pointer_mode, operand, X, Y, target, mem>>

PointerNext == StoreLow \/ StoreHigh \/ Follow

PointerSpec == PointerInit /\ [][PointerNext]_pointer_vars

----------------------------------------------------------------------------
PointerTypeOK ==
  /\ pointer_mode \in {"IZX", "IZY", "IND"}
  /\ step \in {"low", "high", "follow", "done"}
  /\ operand \in Word /\ X \in ByteValue /\ Y \in ByteValue /\ target \in Word
  /\ mem \in [Word -> ByteValue]
  /\ pointed \in Word

\* A pointer across the end of a page, in the mode that knows no zero page.
Straddles == pointer_mode = "IND" /\ operand % Radix = Radix - 1

\* A pointer is followed to where it was set to point, also when it lies across
\* the end of the zero page or the index goes round it; IZY adds its index after
\* that, through all pages.  Only JMP does not carry into the next page, as the
\* 6502 does not: it finds there what is at the start of its own.
PointersAreFollowed ==
  step = "done" =>
    pointed = CASE Straddles     -> assemble_word(mem[operand + 1 - Radix], target % Radix)
                [] pointer_mode = "IZY"  -> (target + Y) % WordSpace
                [] OTHER         -> target

=============================================================================
