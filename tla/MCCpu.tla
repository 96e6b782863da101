------------------------------- MODULE MCCpu -------------------------------
(* Four kinds of programs that have nothing to say to each other: any      *)
(* instructions, for what the table makes of them, and programs on the     *)
(* stack, on numbers and on pointers.  A behaviour runs one of them, and   *)
(* the others stay in one of their initial states.                         *)
EXTENDS RunInstruction, CpuStack, CpuAddressing, CpuAlu

VARIABLE kind  \* of the program that runs

program_vars == <<kind, instruction_vars, stack_vars, pointer_vars, vars>>

\* The stack: a page of seven cells, addresses of two digits to the base 4.
\* From here one-byte instructions reach every address, and with them every
\* carry between the two digits.
MCSites == {13}
MCLoads == {0, 3}
MCTops  == {5}

IdleStack   == pc = 13 /\ STATUS = 0
IdleTable   == PC = 0
IdlePointer == /\ pointer_mode = "IND" /\ operand = 0 /\ X = 0 /\ Y = 0
               /\ target = 0 /\ mem[0] = 0
IdleNumbers == program = "add" /\ carry_in = 0

ProgramsInit ==
  /\ kind \in {"instruction", "stack", "pointer", "numbers"}
  /\ InstructionInit /\ (kind # "instruction" => IdleTable)
  /\ StackInit /\ (kind # "stack" => IdleStack)
  /\ PointerInit /\ (kind # "pointer" => IdlePointer)
  /\ Init /\ (kind # "numbers" => IdleNumbers)

ProgramsNext ==
  /\ UNCHANGED kind
  /\ \/ /\ kind = "instruction" /\ InstructionNext
        /\ UNCHANGED <<stack_vars, pointer_vars, vars>>
     \/ /\ kind = "stack" /\ StackNext
        /\ UNCHANGED <<instruction_vars, pointer_vars, vars>>
     \/ /\ kind = "pointer" /\ PointerNext
        /\ UNCHANGED <<instruction_vars, stack_vars, vars>>
     \/ /\ kind = "numbers" /\ Next
        /\ UNCHANGED <<instruction_vars, stack_vars, pointer_vars>>

ProgramsSpec == ProgramsInit /\ [][ProgramsNext]_program_vars

\* Registers and addresses keep the widths of their C types, for every kind.
ProgramsTypeOK == InstructionTypeOK /\ StackTypeOK /\ PointerTypeOK /\ TypeOK
=============================================================================
