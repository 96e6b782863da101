--------------------------- MODULE RunInstruction ---------------------------
(***************************************************************************)
(* run_instruction of cpu.c: fetch an opcode, let its addressing mode form *)
(* the address, execute it, add its cycles and move the program counter.   *)
(*                                                                         *)
(* Memory, the registers and the flags are left open: the opcode, the      *)
(* operand, the index and the outcome of a branch's test are any.          *)
(***************************************************************************)
EXTENDS OpcodeTable, CpuWord, Integers

\* The operand of a branch is a signed byte.
ASSUME MemoryAssumption == Radix % 2 = 0

VARIABLES
  phase,           \* "fetch" outside run_instruction, "execute" after data_fetch
  PC,
  current_opcode,
  base,            \* the address before the index register is added
  address,         \* the address the mode formed
  address_rel,     \* the signed operand of a branch
  page_crossed,    \* what data_fetch returned
  condition,       \* the flag that a branch tests has the value it wants
  written,         \* the globals that this instruction's data_fetch wrote
  spent            \* cycles that the last instruction added to cpu->cycles

instruction_vars == <<phase, PC, current_opcode, base, address, address_rel,
                      page_crossed, condition, written, spent>>

Page(a)   == a \div Radix
Offsets   == -(Radix \div 2) .. Radix \div 2 - 1

crosses_page(a, b) == Page(a) # Page(b)

ZeroPageModes == {"ZP0", "ZPX", "ZPY"}
PointerModes  == {"IND", "IZX"}

InstructionInit ==
  /\ phase = "fetch" /\ PC \in Word
  /\ current_opcode = 0 /\ base = 0 /\ address = 0 /\ address_rel = 0
  /\ page_crossed = FALSE /\ condition = FALSE
  /\ written = {} /\ spent = 0

----------------------------------------------------------------------------
\* What the addressing modes make of the operand: base and index any, except
\* that a zero page operand is a byte.  IND and IZX take the address from a
\* pointer, IZY the base.  Modes without an address leave the globals alone.
Resolve(mode) ==
  \E b \in IF mode \in ZeroPageModes THEN ByteValue ELSE Word, i \in ByteValue :
    /\ base' = b
    /\ address' = CASE mode \in {"ABX", "ABY", "IZY"} -> (b + i) % WordSpace
                    [] mode \in {"ZPX", "ZPY"}        -> (b + i) % Radix
                    [] OTHER                          -> b

HasAddress(mode) ==
  mode \in ZeroPageModes \cup PointerModes \cup {"ABS", "ABX", "ABY", "IZY"}

\* The modes that return whether the index moved the address to another page.
ReportsCrossing(mode) == mode \in {"ABX", "ABY", "IZY"}

\* Mutant: IZY forgets to say so.
ReportsCrossingNotIndirect(mode) == mode \in {"ABX", "ABY"}

Globals == {"value", "address", "address_rel", "acc_mode"}

\* Mutant: ACC only says that it is the accumulator that is meant.
WritesAccLate(mode) ==
  (IF mode = "NULL" THEN {} ELSE {"acc_mode"})
    \cup (IF mode = "IMM" \/ HasAddress(mode) THEN {"value"} ELSE {})
    \cup (IF HasAddress(mode) THEN {"address"} ELSE {})
    \cup (IF mode = "REL" THEN {"address_rel"} ELSE {})

\* The globals that the addressing modes leave for execute.
Writes(mode) ==
  (IF mode = "NULL" THEN {} ELSE {"acc_mode"})
    \cup (IF mode \in {"ACC", "IMM"} \/ HasAddress(mode) THEN {"value"} ELSE {})
    \cup (IF HasAddress(mode) THEN {"address"} ELSE {})
    \cup (IF mode = "REL" THEN {"address_rel"} ELSE {})

DataFetch ==
  /\ phase = "fetch" /\ phase' = "execute"
  /\ current_opcode' \in Opcodes
  /\ LET mode == Table[current_opcode'].mode IN
     /\ IF HasAddress(mode) THEN Resolve(mode) ELSE UNCHANGED <<base, address>>
     /\ IF mode = "REL" THEN address_rel' \in Offsets /\ condition' \in BOOLEAN
                        ELSE UNCHANGED <<address_rel, condition>>
     /\ written' = Writes(mode)
     /\ page_crossed' = (ReportsCrossing(mode) /\ crosses_page(base', address'))
  /\ UNCHANGED <<PC, spent>>

----------------------------------------------------------------------------
BranchNames == {"BPL", "BMI", "BVC", "BVS", "BCC", "BCS", "BNE", "BEQ"}

\* Operations that return 1, and so pay for a crossed page.
TakesPenalty == {"ORA", "AND", "EOR", "ADC", "SBC", "LDA", "LDX", "LDY", "CMP"}

Takes(name) == name \in BranchNames /\ condition

\* Mutant: the offset counts from the branch itself.
TargetFromBranch == (PC + address_rel) % WordSpace
Target == (PC + 2 + address_rel) % WordSpace

\* branch_on_flag adds to cpu->cycles by itself.
BranchCycles(name) ==
  IF ~Takes(name) THEN 0
  ELSE IF crosses_page((PC + 2) % WordSpace, Target) THEN 2 ELSE 1

PenaltyCycles(name) == IF page_crossed /\ name \in TakesPenalty THEN 1 ELSE 0

\* Where the instruction goes: an instruction that does not set pc_changed
\* goes on behind itself.  RTS, RTI and BRK take the address from memory.
Goes(name, length) ==
  CASE Takes(name)                     -> PC' = Target
    [] name \in {"JMP", "JSR"}         -> PC' = address
    [] name \in {"RTS", "RTI", "BRK"}  -> PC' \in Word
    [] OTHER                           -> PC' = (PC + length) % WordSpace

Shifts == {"ASL", "ROL", "LSR", "ROR"}

\* The globals that an operation reads.  A shift writes back to A or to the
\* address, as acc_mode says.
Reads(name, mode) ==
  (IF name \in TakesPenalty \cup Shifts \cup {"BIT", "CPX", "CPY", "INC", "DEC"}
     THEN {"value"} ELSE {})
    \cup (IF name \in Shifts THEN {"acc_mode"} ELSE {})
    \cup (IF name \in {"STA", "STX", "STY", "INC", "DEC", "JMP", "JSR"}
               \/ (name \in Shifts /\ mode # "ACC")
             THEN {"address"} ELSE {})
    \cup (IF name \in BranchNames THEN {"address_rel"} ELSE {})

\* The code's globals keep their values; OperandsAreFresh says that no
\* instruction reads one that its own mode did not write, so the model
\* forgets them.
Execute ==
  /\ phase = "execute" /\ phase' = "fetch"
  /\ LET instr == Table[current_opcode] IN
     /\ Goes(instr.name, instr.length)
     /\ spent' = instr.cycles + BranchCycles(instr.name) + PenaltyCycles(instr.name)
  /\ current_opcode' = 0 /\ base' = 0 /\ address' = 0 /\ address_rel' = 0
  /\ page_crossed' = FALSE /\ condition' = FALSE /\ written' = {}

InstructionNext == DataFetch \/ Execute

InstructionSpec == InstructionInit /\ [][InstructionNext]_instruction_vars

----------------------------------------------------------------------------
Mos == INSTANCE Mos6502

Runs == phase = "execute" /\ phase' = "fetch"

\* The encoded name and mode of the opcode being run, and not the table's.
Name == Mos!Decoded(current_opcode)[1]
Mode == Mos!Decoded(current_opcode)[2]

\* Every variable keeps to the width of its C type, and no instruction costs
\* more than seven cycles: the interval of ticks that nes_step then owes.
InstructionTypeOK ==
  /\ phase \in {"fetch", "execute"}
  /\ PC \in Word /\ current_opcode \in Opcodes
  /\ base \in Word /\ address \in Word
  /\ address_rel \in Offsets
  /\ page_crossed \in BOOLEAN /\ condition \in BOOLEAN
  /\ written \subseteq Globals
  /\ spent \in 0 .. 7

\* The instruction that runs is the one the opcode's bits encode, and nothing
\* runs as a documented instruction that is none (init_instruction_table).
RunsWhatIsEncoded ==
  phase = "execute" =>
    IF Mos!Documented(current_opcode)
    THEN <<Table[current_opcode].name, Table[current_opcode].mode>>
           = Mos!Decoded(current_opcode)
    ELSE Table[current_opcode].name \in {"ILLEGAL", "NULL"}

\* address, value, address_rel and acc_mode are shared by all instructions: an
\* operation finds there what its own addressing mode put, and never what an
\* earlier instruction or an addressing mode of another kind left.
OperandsAreFresh ==
  phase = "execute" =>
    LET instr == Table[current_opcode] IN Reads(instr.name, instr.mode) \subseteq written

\* A documented instruction spends one cycle for each access a 6502 makes on
\* its bus: the table's base cycles, the page penalty and what branch_on_flag
\* adds by itself come together to that, in every mode.
SpendsBusCycles ==
  [][Runs /\ Mos!Documented(current_opcode) =>
       spent' = Mos!BusCycles(Name, Mode, Page(base) # Page(address), condition,
                  Page((PC + 2) % WordSpace)
                    # Page((PC + 2 + address_rel) % WordSpace))]_instruction_vars

\* The program counter lands behind the operand the encoding calls for, on the
\* target counted from there, or on the address the operand formed: table
\* lengths and the PC moves inside execute never add up or get lost.
LandsOnInstruction ==
  [][Runs /\ Mos!Documented(current_opcode) =>
       LET behind == (PC + 1 + Mos!OperandBytes(Mode)) % WordSpace IN
       CASE Name \in {"JMP", "JSR"} -> PC' = address
         [] Name \in {"RTS", "RTI", "BRK"} -> TRUE
         [] Name \in Mos!Branches /\ condition ->
              PC' = (behind + address_rel) % WordSpace
         [] OTHER -> PC' = behind]_instruction_vars

\* An undocumented opcode is skipped and the program continues behind it.
UndocumentedContinue ==
  [][Runs /\ ~Mos!Documented(current_opcode) => PC' # PC]_instruction_vars

\* Every entry of the table is the instruction its opcode encodes, and runs in
\* that instruction's time.
RunsAsEncoded == []RunsWhatIsEncoded /\ SpendsBusCycles
=============================================================================
