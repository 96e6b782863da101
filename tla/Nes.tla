-------------------------------- MODULE Nes --------------------------------
(***************************************************************************)
(* nes_step of nes.c: one CPU instruction, three PPU ticks for each of its *)
(* cycles, then the interrupt request and the end of the frame.  The       *)
(* program is one thread, so the steps below interleave with nothing; they *)
(* are the places where the PPU changes under the instruction's feet.      *)
(*                                                                         *)
(* An instruction is what it does to the PPU: the register its data_fetch  *)
(* reads, the register its execute writes, and its cycles.  Which one runs *)
(* next is left open, as the game is.  A store reads the address it stores *)
(* to, because every memory addressing mode of cpu.c loads the operand.    *)
(***************************************************************************)
EXTENDS Ppu

CONSTANT Instructions

\* Registers whose access changes the PPU state of Ppu; an instruction that
\* touches no such register has "NONE".
ReadEffects  == {"NONE", "STATUS", "DATA"}
WriteEffects == {"NONE", "CTRL", "MASK", "SCROLL", "ADDR", "DATA"}

\* The longest instruction of the table, branch and page penalties included:
\* RunInstruction's InstructionTypeOK.
MaxCycles == 7

Instruction == [read : ReadEffects, write : WriteEffects, cycles : 0 .. MaxCycles]

ASSUME NesInstructions == Instructions \subseteq Instruction

VARIABLES
  phase,      \* how far nes_step has got
  instr,      \* the instruction being run; Idle outside run_instruction
  ticks_left  \* ppu_cycles - i, ticks of the loop still to come

nesVars == <<ppuVars, phase, instr, ticks_left>>

Idle == [read |-> "NONE", write |-> "NONE", cycles |-> 0]

NesInit == Init /\ phase = "fetch" /\ instr = Idle /\ ticks_left = 0

----------------------------------------------------------------------------
(* bus_read and bus_write into the PPU's registers.                        *)

Read(register) ==
  \/ register = "STATUS" /\ ReadStatus
  \/ register = "DATA"   /\ AccessData
  \/ register = "NONE"   /\ UNCHANGED ppuVars

Write(register) ==
  \/ register = "CTRL"   /\ WriteCtrl
  \/ register = "MASK"   /\ WriteMask
  \/ register = "SCROLL" /\ WriteScroll
  \/ register = "ADDR"   /\ WriteAddr
  \/ register = "DATA"   /\ AccessData
  \/ register = "NONE"   /\ UNCHANGED ppuVars

----------------------------------------------------------------------------
\* run_instruction: fetch the opcode, then the operand.
DataFetch ==
  /\ phase = "fetch" /\ phase' = "execute"
  /\ instr' \in Instructions
  /\ Read(instr'.read)
  /\ UNCHANGED ticks_left

\* run_instruction: execute, and count the cycles.
Execute ==
  /\ phase = "execute" /\ phase' = "tick"
  /\ Write(instr.write)
  /\ ticks_left' = 3 * instr.cycles
  /\ instr' = Idle

\* Mutant: i <= ppu_cycles.
TickPpuOnceMore ==
  /\ phase = "tick" /\ ticks_left >= 0
  /\ Tick
  /\ ticks_left' = ticks_left - 1
  /\ UNCHANGED <<phase, instr>>

TickPpu ==
  /\ phase = "tick" /\ ticks_left > 0
  /\ Tick
  /\ ticks_left' = ticks_left - 1
  /\ UNCHANGED <<phase, instr>>

\* Mutant: nobody collects the interrupt request.
InterruptNever ==
  /\ phase = "tick" /\ ticks_left = 0 /\ phase' = "report"
  /\ UNCHANGED <<ppuVars, instr, ticks_left>>

\* The interrupt's own cycles are added to the CPU after cpu_cycles was
\* computed: no tick is owed for them.
Interrupt ==
  /\ phase = "tick" /\ ticks_left = 0 /\ phase' = "report"
  /\ TakeNmi \/ (~nmi_pending /\ UNCHANGED ppuVars)
  /\ UNCHANGED <<instr, ticks_left>>

\* Mutant: nobody collects the end of the frame.
ReportNever ==
  /\ phase = "report" /\ phase' = "fetch"
  /\ UNCHANGED <<ppuVars, instr, ticks_left>>

\* STEP_RESULT_FRAME_COMPLETE, or not.
Report ==
  /\ phase = "report" /\ phase' = "fetch"
  /\ TakeFrame \/ (~frame_complete /\ UNCHANGED ppuVars)
  /\ UNCHANGED <<instr, ticks_left>>

NesNext == DataFetch \/ Execute \/ TickPpu \/ Interrupt \/ Report

NesSpec == NesInit /\ [][NesNext]_nesVars

\* The caller loops on nes_step, and nothing in it waits for anything.
FairNesSpec == NesSpec /\ WF_nesVars(NesNext)

----------------------------------------------------------------------------
\* The loop of ticks runs down to 0 and not past it, and an instruction is only
\* kept from its fetch to its end.
LoopTypeOK ==
  /\ phase \in {"fetch", "execute", "tick", "report"}
  /\ instr \in Instructions \cup {Idle}
  /\ ticks_left \in 0 .. 3 * MaxCycles

NesTypeOK == TypeOK /\ LoopTypeOK

\* Between two calls of nes_step no event is left in the PPU: the caller is
\* told of a frame by the very step that finished it, and an interrupt is
\* taken before the next instruction, also one that the instruction itself
\* requested by enabling NMI inside vblank.
EventsDrained == phase = "fetch" => ~nmi_pending /\ ~frame_complete

\* Both events are single flags: a second one raised before the first was
\* collected would be lost.  It never is: a frame is longer than any
\* instruction, and within one instruction the line rises at most once.
EventsNotMerged ==
  [][/\ ~NmiLine /\ NmiLine' => ~nmi_pending
     /\ cycle' # cycle /\ VBlankStarts(scanline', cycle') => ~frame_complete]_nesVars

\* Whatever the program does with the registers, pictures keep coming out.
FramesKeepComing == []<>(phase = "report" /\ frame_complete)

\* A program that leaves NMI enabled is interrupted in every frame, also when
\* its main loop keeps reading PPUSTATUS and so keeps clearing the flag.
NmiKeepsComing == <>[]nmi_enable => []<>(phase = "tick" /\ nmi_pending)

\* Neither kind of event ever stops coming.
EventsKeepComing == FramesKeepComing /\ NmiKeepsComing
=============================================================================
