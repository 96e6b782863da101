------------------------------ MODULE Mos6502 ------------------------------
(***************************************************************************)
(* What a 6502 is, written without looking at the instruction table: the   *)
(* encoding of its 151 documented opcodes as bit fields aaabbbcc, and the  *)
(* cycles of an instruction as the bus accesses it makes.                  *)
(***************************************************************************)
EXTENDS Naturals, Sequences

Nothing == <<"NONE", "NONE">>

In(mode, names) ==
  [i \in 1 .. 8 |-> IF names[i] = "NONE" THEN Nothing ELSE <<names[i], mode>>]

\* One line for each (cc, bbb); in it, one name for each aaa.
Flow == \* cc = 0
 <<<<<<"BRK","IMP">>, <<"JSR","ABS">>, <<"RTI","IMP">>, <<"RTS","IMP">>,
     Nothing, <<"LDY","IMM">>, <<"CPY","IMM">>, <<"CPX","IMM">>>>,
   In("ZP0", <<"NONE", "BIT", "NONE", "NONE", "STY", "LDY", "CPY", "CPX">>),
   In("IMP", <<"PHP", "PLP", "PHA", "PLA", "DEY", "TAY", "INY", "INX">>),
   [In("ABS", <<"NONE", "BIT", "JMP", "JMP", "STY", "LDY", "CPY", "CPX">>)
      EXCEPT ![4] = <<"JMP", "IND">>],
   In("REL", <<"BPL", "BMI", "BVC", "BVS", "BCC", "BCS", "BNE", "BEQ">>),
   In("ZPX", <<"NONE", "NONE", "NONE", "NONE", "STY", "LDY", "NONE", "NONE">>),
   In("IMP", <<"CLC", "SEC", "CLI", "SEI", "TYA", "CLV", "CLD", "SED">>),
   In("ABX", <<"NONE", "NONE", "NONE", "NONE", "NONE", "LDY", "NONE", "NONE">>)>>

Accumulator == <<"ORA", "AND", "EOR", "ADC", "STA", "LDA", "CMP", "SBC">>

Arithmetic == \* cc = 1; there is no store to an immediate
  <<In("IZX", Accumulator), In("ZP0", Accumulator),
    In("IMM", [Accumulator EXCEPT ![5] = "NONE"]), In("ABS", Accumulator),
    In("IZY", Accumulator), In("ZPX", Accumulator),
    In("ABY", Accumulator), In("ABX", Accumulator)>>

Memory == <<"ASL", "ROL", "LSR", "ROR", "STX", "LDX", "DEC", "INC">>

\* X is loaded and stored with the index Y.
Indexed(byX, byY) ==
 <<<<"ASL", byX>>, <<"ROL", byX>>, <<"LSR", byX>>, <<"ROR", byX>>,
   <<"STX", byY>>, <<"LDX", byY>>, <<"DEC", byX>>, <<"INC", byX>>>>

ReadModifyWrite == \* cc = 2
 <<In("IMM", <<"NONE", "NONE", "NONE", "NONE", "NONE", "LDX", "NONE", "NONE">>),
   In("ZP0", Memory),
   <<<<"ASL","ACC">>, <<"ROL","ACC">>, <<"LSR","ACC">>, <<"ROR","ACC">>,
     <<"TXA","IMP">>, <<"TAX","IMP">>, <<"DEX","IMP">>, <<"NOP","IMP">>>>,
   In("ABS", Memory),
   [i \in 1 .. 8 |-> Nothing],
   Indexed("ZPX", "ZPY"),
   In("IMP", <<"NONE", "NONE", "NONE", "NONE", "TXS", "TSX", "NONE", "NONE">>),
   [Indexed("ABX", "ABY") EXCEPT ![5] = Nothing]>>

Groups == <<Flow, Arithmetic, ReadModifyWrite>>

\* The name and the addressing mode that the bits of an opcode mean.
Decoded(op) ==
  LET aaa == op \div 32
      bbb == (op \div 4) % 8
      cc  == op % 4
  IN IF cc = 3 THEN Nothing ELSE Groups[cc + 1][bbb + 1][aaa + 1]

Documented(op) == Decoded(op) # Nothing

----------------------------------------------------------------------------
OperandBytes(mode) ==
  CASE mode \in {"IMP", "ACC"}                 -> 0
    [] mode \in {"ABS", "ABX", "ABY", "IND"} -> 2
    [] OTHER                                 -> 1

Branches   == {"BPL", "BMI", "BVC", "BVS", "BCC", "BCS", "BNE", "BEQ"}
Stores     == {"STA", "STX", "STY"}
StackUsers == {"BRK", "JSR", "RTS", "RTI", "PHA", "PHP", "PLA", "PLP"}
Rewrites   == {"ASL", "ROL", "LSR", "ROR", "INC", "DEC"}

\* Cycles spent on forming the address, beyond reading the operand: pointer
\* reads, the zero page index, and the carry into the high byte, which a read
\* can skip when there is none.
AddressCycles(name, mode, crossed) ==
  LET carry == IF crossed \/ name \in Stores \cup Rewrites THEN 1 ELSE 0
  IN CASE mode \in {"ZPX", "ZPY"} -> 1
       [] mode \in {"ABX", "ABY"} -> carry
       [] mode = "IZY"            -> 2 + carry
       [] mode = "IZX"            -> 3
       [] OTHER                   -> 0

DataCycles(name) == IF name \in Rewrites THEN 3 ELSE 1

\* Cycles of an instruction.  One without operand still reads the byte after
\* it; a taken branch adds its offset, and once more for the high byte.
BusCycles(name, mode, crossed, taken, far) ==
  CASE name = "BRK"               -> 7
    [] name \in {"JSR", "RTS", "RTI"} -> 6
    [] name \in {"PHA", "PHP"}    -> 3
    [] name \in {"PLA", "PLP"}    -> 4
    [] name = "JMP"               -> IF mode = "IND" THEN 5 ELSE 3
    [] name \in Branches          -> 2 + (IF taken THEN 1 ELSE 0)
                                       + (IF taken /\ far THEN 1 ELSE 0)
    [] name \notin StackUsers /\ mode \in {"IMP", "ACC", "IMM"} -> 2
    [] OTHER -> 1 + OperandBytes(mode) + AddressCycles(name, mode, crossed)
                  + DataCycles(name)
=============================================================================
