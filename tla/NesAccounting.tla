--------------------------- MODULE NesAccounting ---------------------------
(***************************************************************************)
(* Nes with the two sums that the code and its documentation make of a     *)
(* run: where one store leaves the video address, and how many PPU dots    *)
(* have gone by for the cycles the CPU has counted.                        *)
(***************************************************************************)
EXTENDS Nes

CONSTANT MaxCpuCycles   \* the run stops when the counter gets there

VARIABLES
  cpu_cycles,  \* cpu->cycles, which cpu_init starts at 7
  dots,        \* calls of ppu_tick since ppu_init
  interrupts,  \* calls of nmi since cpu_init
  entry_addr   \* vram_addr when the current instruction was fetched

accountVars == <<nesVars, cpu_cycles, dots, interrupts, entry_addr>>

InterruptCycles == 7   \* what nmi() adds to cpu->cycles
ResetCycles     == 7   \* where cpu_init starts cpu->cycles

AccountInit ==
  NesInit /\ cpu_cycles = ResetCycles /\ dots = 0 /\ interrupts = 0 /\ entry_addr = vram_addr

AccountNext ==
  /\ cpu_cycles < MaxCpuCycles
  /\ \/ /\ DataFetch /\ entry_addr' = vram_addr
        /\ UNCHANGED <<cpu_cycles, dots, interrupts>>
     \/ /\ Execute /\ cpu_cycles' = cpu_cycles + instr.cycles
        /\ UNCHANGED <<dots, interrupts, entry_addr>>
     \/ TickPpu /\ dots' = dots + 1 /\ UNCHANGED <<cpu_cycles, interrupts, entry_addr>>
     \/ /\ Interrupt
        /\ IF nmi_pending
             THEN cpu_cycles' = cpu_cycles + InterruptCycles /\ interrupts' = interrupts + 1
             ELSE UNCHANGED <<cpu_cycles, interrupts>>
        /\ UNCHANGED <<dots, entry_addr>>
     \/ Report /\ UNCHANGED <<cpu_cycles, dots, interrupts, entry_addr>>

AccountSpec == AccountInit /\ [][AccountNext]_accountVars

----------------------------------------------------------------------------
\* "VRAM increment (0: +1, 1: +32)": a store to PPUDATA leaves the address one
\* increment past where the instruction found it.
StoreStepsOnce ==
  [][Execute /\ instr.write = "DATA"
       => vram_addr' = StepAddress(entry_addr, by_row)]_accountVars

\* "cycle-accurate": at every instruction boundary the PPU has run three dots
\* for each cycle that the CPU has counted since power-up.
ThreeDotsPerCycle == phase = "fetch" => dots = 3 * (cpu_cycles - ResetCycles)

----------------------------------------------------------------------------
(* What holds instead of the two.                                          *)

\* The operand of a PPUDATA store is read from PPUDATA before the store, so the
\* address ends two increments past where the instruction found it
\* (data_fetch and execute of run_instruction, nes_step).
StoreStepsTwice ==
  [][Execute /\ instr.read = "DATA" /\ instr.write = "DATA"
       => vram_addr' = StepAddress(StepAddress(entry_addr, by_row), by_row)]_accountVars

\* At every instruction boundary the PPU is behind by three dots for each of
\* the seven cycles of each interrupt that nmi() has taken, and by nothing else:
\* it never runs ahead, and no instruction loses or gains a dot (nes_step).
DriftIsInterrupts ==
  phase = "fetch" =>
    3 * (cpu_cycles - ResetCycles) = dots + 3 * InterruptCycles * interrupts
=============================================================================
