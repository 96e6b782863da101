---------------------------- MODULE OpcodeTable ----------------------------
(***************************************************************************)
(* The instruction table that init_instruction_table of cpu.c fills in,    *)
(* as the sixteen rows of the opcode matrix the source follows.            *)
(*                                                                         *)
(* An entry is the operation that execute points to, the addressing mode   *)
(* that data_fetch points to, the base cycles and the length.              *)
(***************************************************************************)
EXTENDS Naturals

Op(name, mode, cycles, length) ==
  [name |-> name, mode |-> mode, cycles |-> cycles, length |-> length]

\* The entry given to an undocumented opcode of UNDEFINED_OPCODES.
Illegal == Op("ILLEGAL", "IMP", 2, 1)

\* The entry of an opcode to which init_instruction_table assigns nothing:
\* static storage, so no function to call, no cycles and no length.
Unassigned == Op("NULL", "NULL", 0, 0)

Row0 ==
 <<Op("BRK","IMP",7,2), Op("ORA","IZX",6,2), Illegal, Illegal,
   Illegal, Op("ORA","ZP0",3,2), Op("ASL","ZP0",5,2), Illegal,
   Op("PHP","IMP",3,1), Op("ORA","IMM",2,2), Op("ASL","ACC",2,1), Illegal,
   Illegal, Op("ORA","ABS",4,3), Op("ASL","ABS",6,3), Illegal>>

Row1 ==
 <<Op("BPL","REL",2,2), Op("ORA","IZY",5,2), Illegal, Illegal,
   Illegal, Op("ORA","ZPX",4,2), Op("ASL","ZPX",6,2), Illegal,
   Op("CLC","IMP",2,1), Op("ORA","ABY",4,3), Illegal, Illegal,
   Illegal, Op("ORA","ABX",4,3), Op("ASL","ABX",7,3), Illegal>>

Row2 ==
 <<Op("JSR","ABS",6,3), Op("AND","IZX",6,2), Illegal, Illegal,
   Op("BIT","ZP0",3,2), Op("AND","ZP0",3,2), Op("ROL","ZP0",5,2), Illegal,
   Op("PLP","IMP",4,1), Op("AND","IMM",2,2), Op("ROL","ACC",2,1), Illegal,
   Op("BIT","ABS",4,3), Op("AND","ABS",4,3), Op("ROL","ABS",6,3), Illegal>>

Row3 ==
 <<Op("BMI","REL",2,2), Op("AND","IZY",5,2), Illegal, Illegal,
   Unassigned, Op("AND","ZPX",4,2), Op("ROL","ZPX",6,2), Illegal,
   Op("SEC","IMP",2,1), Op("AND","ABY",4,3), Illegal, Illegal,
   Unassigned, Op("AND","ABX",4,3), Op("ROL","ABX",7,3), Illegal>>

Row4 ==
 <<Op("RTI","IMP",6,1), Op("EOR","IZX",6,2), Illegal, Illegal,
   Unassigned, Op("EOR","ZP0",3,2), Op("LSR","ZP0",5,2), Illegal,
   Op("PHA","IMP",3,1), Op("EOR","IMM",2,2), Op("LSR","ACC",2,1), Illegal,
   Op("JMP","ABS",3,3), Op("EOR","ABS",4,3), Op("LSR","ABS",6,3), Illegal>>

Row5 ==
 <<Op("BVC","REL",2,2), Op("EOR","IZY",5,2), Illegal, Illegal,
   Unassigned, Op("EOR","ZPX",4,2), Op("LSR","ZPX",6,2), Illegal,
   Op("CLI","IMP",2,1), Op("EOR","ABY",4,3), Illegal, Illegal,
   Unassigned, Op("EOR","ABX",4,3), Op("LSR","ABX",7,3), Illegal>>

Row6 ==
 <<Op("RTS","IMP",6,1), Op("ADC","IZX",6,2), Illegal, Illegal,
   Illegal, Op("ADC","ZP0",3,2), Op("ROR","ZP0",5,2), Illegal,
   Op("PLA","IMP",4,1), Op("ADC","IMM",2,2), Op("ROR","ACC",2,1), Illegal,
   Op("JMP","IND",5,3), Op("ADC","ABS",4,3), Op("ROR","ABS",6,3), Illegal>>

Row7 ==
 <<Op("BVS","REL",2,2), Op("ADC","IZY",5,2), Illegal, Illegal,
   Illegal, Op("ADC","ZPX",4,2), Op("ROR","ZPX",6,2), Illegal,
   Op("SEI","IMP",2,1), Op("ADC","ABY",4,3), Illegal, Illegal,
   Illegal, Op("ADC","ABX",4,3), Op("ROR","ABX",7,3), Illegal>>

Row8 ==
 <<Unassigned, Op("STA","IZX",6,2), Illegal, Unassigned,
   Op("STY","ZP0",3,2), Op("STA","ZP0",3,2), Op("STX","ZP0",3,2), Illegal,
   Op("DEY","IMP",2,1), Illegal, Op("TXA","IMP",2,1), Illegal,
   Op("STY","ABS",4,3), Op("STA","ABS",4,3), Op("STX","ABS",4,3), Illegal>>

\* Mutant: the indexed store of A costed like an indexed load.
Row9LoadCycles ==
 <<Op("BCC","REL",2,2), Op("STA","IZY",6,2), Illegal, Illegal,
   Op("STY","ZPX",4,2), Op("STA","ZPX",4,2), Op("STX","ZPY",4,2), Illegal,
   Op("TYA","IMP",2,1), Op("STA","ABY",4,3), Op("TXS","IMP",2,1), Illegal,
   Illegal, Op("STA","ABX",5,3), Illegal, Illegal>>

Row9 ==
 <<Op("BCC","REL",2,2), Op("STA","IZY",6,2), Illegal, Illegal,
   Op("STY","ZPX",4,2), Op("STA","ZPX",4,2), Op("STX","ZPY",4,2), Illegal,
   Op("TYA","IMP",2,1), Op("STA","ABY",5,3), Op("TXS","IMP",2,1), Illegal,
   Illegal, Op("STA","ABX",5,3), Illegal, Illegal>>

RowA ==
 <<Op("LDY","IMM",2,2), Op("LDA","IZX",6,2), Op("LDX","IMM",2,2), Illegal,
   Op("LDY","ZP0",3,2), Op("LDA","ZP0",3,2), Op("LDX","ZP0",3,2), Illegal,
   Op("TAY","IMP",2,1), Op("LDA","IMM",2,2), Op("TAX","IMP",2,1), Illegal,
   Op("LDY","ABS",4,3), Op("LDA","ABS",4,3), Op("LDX","ABS",4,3), Illegal>>

RowB ==
 <<Op("BCS","REL",2,2), Op("LDA","IZY",5,2), Illegal, Illegal,
   Op("LDY","ZPX",4,2), Op("LDA","ZPX",4,2), Op("LDX","ZPY",4,2), Illegal,
   Op("CLV","IMP",2,1), Op("LDA","ABY",4,3), Op("TSX","IMP",2,1), Illegal,
   Op("LDY","ABX",4,3), Op("LDA","ABX",4,3), Op("LDX","ABY",4,3), Illegal>>

RowC ==
 <<Op("CPY","IMM",2,2), Op("CMP","IZX",6,2), Illegal, Illegal,
   Op("CPY","ZP0",3,2), Op("CMP","ZP0",3,2), Op("DEC","ZP0",5,2), Illegal,
   Op("INY","IMP",2,1), Op("CMP","IMM",2,2), Op("DEX","IMP",2,1), Illegal,
   Op("CPY","ABS",4,3), Op("CMP","ABS",4,3), Op("DEC","ABS",6,3), Illegal>>

RowD ==
 <<Op("BNE","REL",2,2), Op("CMP","IZY",5,2), Illegal, Illegal,
   Unassigned, Op("CMP","ZPX",4,2), Op("DEC","ZPX",6,2), Illegal,
   Op("CLD","IMP",2,1), Op("CMP","ABY",4,3), Illegal, Illegal,
   Unassigned, Op("CMP","ABX",4,3), Op("DEC","ABX",7,3), Illegal>>

RowE ==
 <<Op("CPX","IMM",2,2), Op("SBC","IZX",6,2), Illegal, Illegal,
   Op("CPX","ZP0",3,2), Op("SBC","ZP0",3,2), Op("INC","ZP0",5,2), Illegal,
   Op("INX","IMP",2,1), Op("SBC","IMM",2,2), Op("NOP","IMP",2,1), Illegal,
   Op("CPX","ABS",4,3), Op("SBC","ABS",4,3), Op("INC","ABS",6,3), Illegal>>

RowF ==
 <<Op("BEQ","REL",2,2), Op("SBC","IZY",5,2), Illegal, Illegal,
   Unassigned, Op("SBC","ZPX",4,2), Op("INC","ZPX",6,2), Illegal,
   Op("SED","IMP",2,1), Op("SBC","ABY",4,3), Illegal, Illegal,
   Unassigned, Op("SBC","ABX",4,3), Op("INC","ABX",7,3), Illegal>>

Matrix == <<Row0, Row1, Row2, Row3, Row4, Row5, Row6, Row7,
            Row8, Row9, RowA, RowB, RowC, RowD, RowE, RowF>>

Opcodes == 0 .. 255

\* cpu->table[opcode]
Table == [op \in Opcodes |-> Matrix[(op \div 16) + 1][(op % 16) + 1]]

\* is_illegal_opcode: execute == ILLEGAL.
IsIllegal(op) == Table[op].name = "ILLEGAL"
=============================================================================
