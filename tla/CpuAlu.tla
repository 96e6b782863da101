------------------------------- MODULE CpuAlu -------------------------------
(***************************************************************************)
(* The arithmetic of cpu.c: what ADC, SBC, the shifts and rotates, INC,    *)
(* DEC and the compares make of their operands and the flags.              *)
(*                                                                         *)
(* A byte of a 6502 is one digit of a program's numbers, and the flags     *)
(* carry the calculation from one digit to the next.  So the steps here    *)
(* are those of the usual programs on numbers of several bytes, one digit  *)
(* at a time: the operands and the result are kept beside the registers as *)
(* the numbers they stand for.                                             *)
(***************************************************************************)
EXTENDS Integers

CONSTANTS
  Half,      \* 0x80: the top bit of a byte
  MaxDigits  \* bytes of the longest number

ASSUME AluAssumption == Half \in Nat \ {0} /\ MaxDigits \in Nat \ {0}

Base == 2 * Half
Byte == 0 .. Base - 1
Bit  == 0 .. 1

\* Flags are bits here, because the arithmetic adds them.
set_flag(condition) == IF condition THEN 1 ELSE 0

Negative(b) == b >= Half

----------------------------------------------------------------------------
(* The operations: operands and the carry to the result and the flags.     *)

\* Mutant: overflow is taken from the carry.
AdcOverflowIsCarry(a, value, c) ==
  LET result == a + value + c
  IN  [r |-> result % Base, c |-> set_flag(result > Base - 1),
       z |-> set_flag(result % Base = 0), n |-> set_flag(Negative(result % Base)),
       v |-> set_flag(result > Base - 1)]

ADC(a, value, c) ==
  LET result == a + value + c
  IN  [r |-> result % Base, c |-> set_flag(result > Base - 1),
       z |-> set_flag(result % Base = 0), n |-> set_flag(Negative(result % Base)),
       v |-> set_flag(/\ Negative(a) = Negative(value)
                      /\ Negative(a) # Negative(result % Base))]

\* The difference is taken in a word, and borrows when it leaves the byte.
SBC(a, value, c) ==
  LET result == (a - value - (1 - c)) % (Base * Base)
  IN  [r |-> result % Base, c |-> set_flag(result < Base),
       z |-> set_flag(result % Base = 0), n |-> set_flag(Negative(result % Base)),
       v |-> set_flag(/\ Negative(a) # Negative(value)
                      /\ Negative(a) # Negative(result % Base))]

\* ASL is ROL with nothing to take in.
ROL(value, c) == [r |-> ((2 * value) % Base) + c, c |-> set_flag(Negative(value))]
ASL(value)    == [r |-> (2 * value) % Base,     c |-> set_flag(Negative(value))]

ROR(value, c) == [r |-> (value \div 2) + c * Half, c |-> value % 2]
LSR(value)    == [r |-> value \div 2,            c |-> value % 2]

\* CMP, CPX, CPY.
Compare(register, value) ==
  [c |-> set_flag(register >= value),
   z |-> set_flag((register - value) % Base = 0),
   n |-> set_flag(Negative((register - value) % Base))]

\* INC, INX, INY; DEC, DEX, DEY.
INC(value) ==
  LET r == (value + 1) % Base IN [r |-> r, z |-> set_flag(r = 0), n |-> set_flag(Negative(r))]

\* Mutant: DEC goes below 0.
DecUnwrapped(value) ==
  LET r == value - 1 IN [r |-> r, z |-> set_flag(r = 0), n |-> set_flag(Negative(r))]

DEC(value) ==
  LET r == (value - 1) % Base IN [r |-> r, z |-> set_flag(r = 0), n |-> set_flag(Negative(r))]

----------------------------------------------------------------------------
VARIABLES
  program,          \* what is being calculated
  digits, weight,   \* digits done, and Base to that power
  left, right,      \* the operands, as far as they have been read
  result,           \* the digits stored
  carry_in,         \* the carry before the first digit
  C, Z, N, V

flags == <<C, Z, N, V>>
vars  == <<program, digits, weight, left, right, result, carry_in, flags>>

Programs == {"add", "subtract", "compare", "double", "halve", "increment",
             "countdown"}

\* The flags are as some other program left them.
Init ==
  /\ program \in Programs
  /\ digits = 0 /\ weight = 1 /\ left = 0 /\ right = 0 /\ result = 0
  /\ carry_in \in Bit /\ C = carry_in
  /\ Z = 0 /\ N = 0 /\ V = 0

More == digits < MaxDigits /\ digits' = digits + 1 /\ weight' = weight * Base
          /\ UNCHANGED <<program, carry_in>>

\* LDA, ADC or SBC, STA: from the lowest digit up.
Chain(a, m, alu) ==
  /\ More
  /\ left' = left + a * weight /\ right' = right + m * weight
  /\ result' = result + alu.r * weight
  /\ C' = alu.c /\ Z' = alu.z /\ N' = alu.n /\ V' = alu.v

AddDigit ==
  program = "add" /\ \E a, m \in Byte : Chain(a, m, ADC(a, m, C))

SubtractDigit ==
  program = "subtract" /\ \E a, m \in Byte : Chain(a, m, SBC(a, m, C))

\* LDA, CMP, and on while the digits are equal: from the highest digit down.
CompareDigit ==
  /\ program = "compare" /\ More
  /\ digits = 0 \/ Z = 1
  /\ \E a, m \in Byte :
       LET alu == Compare(a, m)
       IN  /\ left' = left * Base + a /\ right' = right * Base + m
           /\ C' = alu.c /\ Z' = alu.z /\ N' = alu.n
  /\ UNCHANGED <<result, V>>

\* ASL of the lowest digit, ROL of the others, in memory or in A.
DoubleDigit ==
  /\ program = "double" /\ More
  /\ \E value \in Byte :
       LET alu == IF digits = 0 THEN ASL(value) ELSE ROL(value, C)
       IN  /\ left' = left + value * weight /\ result' = result + alu.r * weight
           /\ C' = alu.c /\ Z' = set_flag(alu.r = 0) /\ N' = set_flag(Negative(alu.r))
  /\ UNCHANGED <<right, V>>

\* LSR of the highest digit, ROR of the others.
HalveDigit ==
  /\ program = "halve" /\ More
  /\ \E value \in Byte :
       LET alu == IF digits = 0 THEN LSR(value) ELSE ROR(value, C)
       IN  /\ left' = left * Base + value /\ result' = result * Base + alu.r
           /\ C' = alu.c /\ Z' = set_flag(alu.r = 0) /\ N' = set_flag(Negative(alu.r))
  /\ UNCHANGED <<right, V>>

\* INC, and BNE over the next digit's: a digit is left alone once one below it
\* did not become 0.
IncrementDigit ==
  /\ program = "increment" /\ More
  /\ \E value \in Byte :
       LET alu == IF digits = 0 \/ Z = 1 THEN INC(value)
                  ELSE [r |-> value, z |-> Z, n |-> N]
       IN  /\ left' = left + value * weight /\ result' = result + alu.r * weight
           /\ Z' = alu.z /\ N' = alu.n
  /\ UNCHANGED <<right, C, V>>

\* LDX, and then DEX and BNE until X is 0; right is X, and result counts the
\* passes.
LoadCounter ==
  /\ program = "countdown" /\ digits = 0 /\ digits' = 1
  /\ \E x \in Byte :
       left' = x /\ right' = x /\ Z' = set_flag(x = 0) /\ N' = set_flag(Negative(x))
  /\ UNCHANGED <<program, weight, result, carry_in, C, V>>

CountDown ==
  /\ program = "countdown" /\ digits = 1
  /\ result = 0 \/ Z = 0
  /\ LET alu == DEC(right) IN right' = alu.r /\ Z' = alu.z /\ N' = alu.n
  /\ result' = result + 1
  /\ UNCHANGED <<program, digits, weight, left, carry_in, C, V>>

Next ==
  \/ AddDigit \/ SubtractDigit \/ CompareDigit
  \/ DoubleDigit \/ HalveDigit
  \/ IncrementDigit
  \/ LoadCounter \/ CountDown

Spec == Init /\ [][Next]_vars

----------------------------------------------------------------------------
TypeOK ==
  /\ program \in Programs /\ digits \in 0 .. MaxDigits /\ weight \in Nat \ {0}
  /\ left \in Nat /\ right \in Nat /\ result \in Nat
  /\ carry_in \in Bit /\ C \in Bit /\ Z \in Bit /\ N \in Bit /\ V \in Bit

\* The numbers as two's complement of the digits so far.
Signed(n) == IF 2 * n >= weight THEN n - weight ELSE n
Fits(n)   == -weight <= 2 * n /\ 2 * n < weight

\* A chain of ADC adds two numbers of any length: the digits stored and the
\* last carry are the sum.
AddsNumbers ==
  program = "add" => left + right + carry_in = result + C * weight

\* A chain of SBC subtracts: a clear carry is the borrow.
SubtractsNumbers ==
  program = "subtract" =>
    left - right - (1 - carry_in) = result - (1 - C) * weight

\* After the last ADC or SBC, V says whether the signed result has room, and
\* where it has N is its sign; BPL, BVC and the signed comparisons rest on it.
OverflowIsSigned ==
  digits > 0 =>
    /\ program = "add" =>
         LET sum == Signed(left) + Signed(right) + carry_in
         IN  /\ (V = 0) <=> Fits(sum)
             /\ V = 0 => Signed(result) = sum /\ ((N = 1) <=> sum < 0)
    /\ program = "subtract" =>
         LET difference == Signed(left) - Signed(right) - (1 - carry_in)
         IN  /\ (V = 0) <=> Fits(difference)
             /\ (N # V) <=> difference < 0

\* BCC, BEQ and BCS after the last compare tell the order of the numbers.
ComparesNumbers ==
  program = "compare" /\ digits > 0 =>
    /\ (C = 1) <=> left >= right
    /\ (Z = 1) <=> left = right

\* ASL and ROL double a number, LSR and ROR halve it, and the carry is the bit
\* that fell out.
ShiftsNumbers ==
  /\ program = "double" /\ digits > 0 => 2 * left = result + C * weight
  /\ program = "halve" /\ digits > 0 => left = 2 * result + C

\* INC with BNE counts through every digit, and a loop of DEX and BNE runs as
\* often as X says, 0 standing for all the values of a byte.
CountsNumbers ==
  /\ program = "increment" /\ digits > 0 => result = (left + 1) % weight
  /\ program = "countdown" /\ result > 0 =>
       /\ right = (left - result) % Base
       /\ (Z = 1) <=> result = (IF left = 0 THEN Base ELSE left)

\* The programs compute what numbers of that many bytes do, signed and unsigned.
ComputesNumbers ==
  /\ AddsNumbers /\ SubtractsNumbers /\ OverflowIsSigned
  /\ ComparesNumbers /\ ShiftsNumbers /\ CountsNumbers
=============================================================================
