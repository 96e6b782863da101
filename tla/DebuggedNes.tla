---------------------------- MODULE DebuggedNes ----------------------------
(***************************************************************************)
(* The console as debugger.c runs it.  debugger_run does not call          *)
(* nes_step: execute_with_ppu runs an instruction and its ticks, the burst *)
(* collects the end of the frame, and nobody collects the interrupt.       *)
(* Between two bursts the debugger draws, and its memory view reads what   *)
(* it shows through bus_read.                                              *)
(*                                                                         *)
(* The keys are taken at one point of the loop and are free here; Debugger *)
(* has the ways they combine.                                              *)
(***************************************************************************)
EXTENDS Nes, Sequences

CONSTANTS
  BurstLength,  \* max_instructions
  ViewReads     \* registers read, in order, to show $2000-$3FFF

ASSUME DebuggedAssumption ==
  BurstLength \in Nat \ {0} /\ ViewReads \in Seq({"STATUS", "DATA"})

VARIABLES
  paused, stepping,  \* the keys: nothing, a step, or a burst is run
  viewing,           \* the memory view shows the PPU's registers
  burst,             \* instructions left to run
  draw_left          \* reads left to do

loopVars     == <<paused, stepping, viewing, burst, draw_left>>
debuggedVars == <<nesVars, loopVars>>

DebuggedInit ==
  /\ Init /\ phase = "keys" /\ instr = Idle /\ ticks_left = 0
  /\ paused \in BOOLEAN /\ stepping = FALSE /\ viewing = FALSE
  /\ burst = 0 /\ draw_left = 0

----------------------------------------------------------------------------
\* Mutant: the registers are read whatever memory is shown.
ReadsOfAnyView == Len(ViewReads)

\* What the memory view will read of the PPU.
ReadsOfView == IF viewing THEN Len(ViewReads) ELSE 0

TakeKeys ==
  /\ phase = "keys"
  /\ paused' \in BOOLEAN /\ viewing' \in BOOLEAN
  /\ stepping' \in {FALSE, paused'}
  /\ IF paused' /\ ~stepping'
       THEN phase' = "draw" /\ burst' = 0 /\ draw_left' = ReadsOfView'
       ELSE /\ phase' = "fetch" /\ UNCHANGED draw_left
            /\ burst' = IF stepping' THEN 1 ELSE BurstLength
  /\ UNCHANGED <<ppuVars, instr, ticks_left>>

\* run_instruction and the ticks of execute_with_ppu.
RunInstruction == (DataFetch \/ Execute \/ TickPpu) /\ UNCHANGED loopVars

\* Mutant: a step takes the frame, the burst leaves it.
CollectFrameOfSteps ==
  /\ phase = "tick" /\ ticks_left = 0
  /\ IF stepping /\ frame_complete THEN TakeFrame ELSE UNCHANGED ppuVars
  /\ burst' = burst - 1
  /\ IF burst' = 0
       THEN phase' = "draw" /\ draw_left' = ReadsOfView
       ELSE phase' = "fetch" /\ UNCHANGED draw_left
  /\ UNCHANGED <<instr, ticks_left, paused, stepping, viewing>>

\* A burst ends with the frame; a step does not look at it.
CollectFrame ==
  /\ phase = "tick" /\ ticks_left = 0
  /\ LET ends == frame_complete /\ ~stepping
     IN  /\ IF ends THEN TakeFrame ELSE UNCHANGED ppuVars
         /\ burst' = IF ends THEN 0 ELSE burst - 1
  /\ IF burst' = 0
       THEN phase' = "draw" /\ draw_left' = ReadsOfView
       ELSE phase' = "fetch" /\ UNCHANGED draw_left
  /\ UNCHANGED <<instr, ticks_left, paused, stepping, viewing>>

\* draw_memory: a row of sixteen bytes reads each register twice, and once
\* more each for the characters; the other registers do not answer.
DrawMemory ==
  /\ phase = "draw" /\ draw_left > 0
  /\ Read(ViewReads[Len(ViewReads) + 1 - draw_left])
  /\ draw_left' = draw_left - 1
  /\ UNCHANGED <<phase, instr, ticks_left, paused, stepping, viewing, burst>>

Present ==
  /\ phase = "draw" /\ draw_left = 0 /\ phase' = "keys"
  /\ UNCHANGED <<ppuVars, instr, ticks_left, loopVars>>

DebuggedNext ==
  TakeKeys \/ RunInstruction \/ CollectFrame \/ DrawMemory \/ Present

DebuggedSpec == DebuggedInit /\ [][DebuggedNext]_debuggedVars

\* As for Debugger: the loop waits for nothing.
FairDebuggedSpec == DebuggedSpec /\ WF_debuggedVars(DebuggedNext)

----------------------------------------------------------------------------
\* A burst has no more instructions than max_instructions, and an instruction no
\* more ticks than its cycles.
DebuggedTypeOK ==
  /\ phase \in {"keys", "fetch", "execute", "tick", "draw"}
  /\ instr \in Instructions \cup {Idle}
  /\ ticks_left \in 0 .. 3 * MaxCycles
  /\ paused \in BOOLEAN /\ stepping \in BOOLEAN /\ viewing \in BOOLEAN
  /\ burst \in 0 .. BurstLength /\ draw_left \in 0 .. Len(ViewReads)

\* The end of a frame is not seen late: only the first instruction of a burst
\* can find one already over, and then a step finished it.
FrameFoundInTime ==
  phase = "fetch" /\ frame_complete => stepping \/ burst = BurstLength

\* A program that is left running keeps drawing pictures, whatever it does with
\* the registers and whatever the debugger shows of them.
PicturesKeepComing ==
  <>[]~paused => []<>(phase = "tick" /\ ticks_left = 0 /\ frame_complete)

\* A program that waits for vblank by polling PPUSTATUS finds the flag up in frame
\* after frame under the debugger too, while the memory view shows other memory.
\* While it shows PPUSTATUS the program finds it up no more: the burst ends with
\* the instruction that raises the flag, and the drawing that follows is the
\* first to read it (CollectFrame, DrawMemory).
OnlyPolls == phase = "execute" => instr.read = "STATUS"

PollsFindVBlank ==
  /\ <>[](~paused /\ ~viewing /\ OnlyPolls) => []<><<DataFetch /\ vblank>>_debuggedVars
  /\ <>[]viewing => <>[](phase = "fetch" => ~vblank)

\* "Generate NMI on vblank": an interrupt that was requested is taken, if the
\* program is left running.
InterruptsAreTaken == <>[]~paused => (nmi_pending ~> ~nmi_pending)
=============================================================================
