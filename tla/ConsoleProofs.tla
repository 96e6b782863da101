--------------------------- MODULE ConsoleProofs ---------------------------
(***************************************************************************)
(* The console, for every raster and every set of instructions, run by     *)
(* nes_step and run by the debugger, whose bursts have any length and      *)
(* whose memory view reads anything.  Both drive the PPU only in ways that *)
(* Ppu allows, so that every theorem about the PPU holds of them.          *)
(* nes_step leaves no event behind and merges no two; the debugger finds a *)
(* finished frame at the next instruction it runs in a burst, and a view   *)
(* that shows PPUSTATUS takes the vblank flag from the program.  Last come *)
(* the sums of NesAccounting.                                              *)
(***************************************************************************)
EXTENDS DebuggedNes, NesAccounting, PpuProofs

----------------------------------------------------------------------------
(* The console as one environment of the PPU.                              *)

\* A register access by an instruction is an access of the PPU, or none.
LEMMA AccessesPpu ==
  ASSUME NEW register, Read(register) \/ Write(register)
  PROVE  [Next]_ppuVars
BY DEF Read, Write, Next, Access

LEMMA StepsPpu == [NesNext]_nesVars => [Next]_ppuVars
<1> SUFFICES ASSUME [NesNext]_nesVars PROVE [Next]_ppuVars
  OBVIOUS
<1>1. CASE DataFetch
  BY <1>1, AccessesPpu DEF DataFetch
<1>2. CASE Execute
  BY <1>2, AccessesPpu DEF Execute
<1>3. CASE TickPpu
  BY <1>3 DEF TickPpu, Next
<1>4. CASE Interrupt
  BY <1>4 DEF Interrupt, Next, Access
<1>5. CASE Report
  BY <1>5 DEF Report, Next, Access
<1>6. CASE UNCHANGED nesVars
  BY <1>6 DEF nesVars
<1> QED
  BY <1>1, <1>2, <1>3, <1>4, <1>5, <1>6 DEF NesNext

\* nes_step is written with the PPU's own actions, so what is proved of the PPU
\* holds of the console.
LEMMA ConsoleDrivesPpu == NesSpec => Spec
<1>1. NesInit => Init
  BY DEF NesInit
<1>2. [NesNext]_nesVars => [Next]_ppuVars
  BY StepsPpu
<1> QED
  BY <1>1, <1>2, PTL DEF NesSpec, Spec

\* Whatever a program stores, while the vblank flag is up no tick of its
\* instructions moves the address it uploads to.
THEOREM ConsoleUploads == NesSpec => UploadWindow
BY ConsoleDrivesPpu, UploadsUndisturbed, PTL

\* The CPU's interrupt request is that of an edge-triggered latch also when
\* it is nes_step that acknowledges it.
THEOREM ConsoleNmi == NesSpec => NmiFollowsEdges
BY ConsoleDrivesPpu, NmiRefinement, PTL

----------------------------------------------------------------------------
(* No event is left for the next instruction.                              *)

\* The request is taken before the frame is reported, and nothing between
\* the two raises it again.
Collected == EventsDrained /\ (phase = "report" => ~nmi_pending)

LEMMA NextCollected == Collected /\ [NesNext]_nesVars => Collected'
<1> SUFFICES ASSUME Collected, [NesNext]_nesVars PROVE Collected'
  OBVIOUS
<1> USE DEF Collected, EventsDrained
<1>1. CASE DataFetch \/ Execute
  BY <1>1 DEF DataFetch, Execute
<1>2. CASE TickPpu
  BY <1>2 DEF TickPpu
<1>3. CASE Interrupt
  BY <1>3 DEF Interrupt, TakeNmi, ppuVars, events
<1>4. CASE Report
  BY <1>4 DEF Report, TakeFrame, ppuVars, events
<1>5. CASE UNCHANGED nesVars
  BY <1>5 DEF nesVars, ppuVars, events
<1> QED
  BY <1>1, <1>2, <1>3, <1>4, <1>5 DEF NesNext

\* Between two calls of nes_step neither event flag is up: whoever calls it
\* learns of a frame, and the CPU of an interrupt, in the step that raised it.
THEOREM NoEventLeft == NesSpec => []EventsDrained
<1>1. NesInit => Collected
  BY DEF NesInit, Init, Collected, EventsDrained
<1>2. Collected /\ [NesNext]_nesVars => Collected'
  BY NextCollected
<1>3. Collected => EventsDrained
  BY DEF Collected
<1> QED
  BY <1>1, <1>2, <1>3, PTL DEF NesSpec

----------------------------------------------------------------------------
(* Types.                                                                  *)

LEMMA NesInitTypes == NesInit => LoopTypeOK
BY DEF NesInit, LoopTypeOK, MaxCycles

LEMMA NesNextTypes == LoopTypeOK /\ [NesNext]_nesVars => LoopTypeOK'
<1> SUFFICES ASSUME LoopTypeOK, [NesNext]_nesVars PROVE LoopTypeOK'
  OBVIOUS
<1> USE DEF LoopTypeOK, MaxCycles
<1>1. CASE DataFetch
  BY <1>1 DEF DataFetch
<1>2. CASE Execute
  <2>1. instr.cycles \in 0 .. 7
    BY NesInstructions DEF Instruction, Idle
  <2> QED
    BY <1>2, <2>1 DEF Execute
<1>3. CASE TickPpu
  BY <1>3 DEF TickPpu
<1>4. CASE Interrupt
  BY <1>4 DEF Interrupt
<1>5. CASE Report
  BY <1>5 DEF Report
<1>6. CASE UNCHANGED nesVars
  BY <1>6 DEF nesVars
<1> QED
  BY <1>1, <1>2, <1>3, <1>4, <1>5, <1>6 DEF NesNext

\* nes_step's loop of ticks runs down to 0 and not past it, whatever the
\* instructions and however long each of them takes.
THEOREM ConsoleTypes == NesSpec => []NesTypeOK
<1>1. NesSpec => []LoopTypeOK
  BY NesInitTypes, NesNextTypes, PTL DEF NesSpec
<1>2. NesSpec => []TypeOK
  BY ConsoleDrivesPpu, TypeCorrect, PTL
<1>3. TypeOK /\ LoopTypeOK => NesTypeOK
  BY DEF NesTypeOK
<1> QED
  BY <1>1, <1>2, <1>3, PTL
----------------------------------------------------------------------------
(* No two events in one instruction.                                       *)

\* Where the clock may be while a flag waits for the end of the instruction:
\* inside vblank, or so few dots behind it that the ticks which are left end
\* far above the next one.  21 dots are less than two lines of any raster, and
\* a frame has more than eight of them before vblank.
FarFromVBlank ==
  \/ InVBlank
  \/ scanline = PrerenderScanline /\ cycle >= 1 /\ cycle + ticks_left <= 3 * MaxCycles
  \/ scanline = 0 /\ CyclesPerScanline + cycle + ticks_left <= 3 * MaxCycles

\* A flag that is up was raised by this instruction.
RaisedNow ==
  /\ phase \in {"fetch", "execute"} => ~nmi_pending /\ ~frame_complete
  /\ phase = "tick" /\ (nmi_pending \/ frame_complete) => FarFromVBlank

\* A register access raises the interrupt request inside vblank only, and never
\* ends a frame or moves the clock.
LEMMA AccessesRaise ==
  ASSUME NEW register, Read(register) \/ Write(register)
  PROVE  /\ cycle' = cycle /\ scanline' = scanline /\ frame_complete' = frame_complete
         /\ nmi_pending' => nmi_pending \/ vblank
         /\ Read(register) => nmi_pending' = nmi_pending
<1> USE DEF ReadStatus, AccessData, WriteCtrl, WriteMask, WriteScroll, WriteAddr,
            ppuVars, clock, events
<1>1. /\ cycle' = cycle /\ scanline' = scanline /\ frame_complete' = frame_complete
      /\ WriteCtrl \/ nmi_pending' = nmi_pending
  BY Zenon DEF Read, Write
<1>2. WriteCtrl => (nmi_pending' => nmi_pending \/ vblank)
  BY Zenon
<1>3. Read(register) => nmi_pending' = nmi_pending
  BY DEF Read
<1> QED
  BY <1>1, <1>2, <1>3

\* A tick out of such a place neither starts vblank nor leaves it.
LEMMA TicksStayFar ==
  ASSUME TypeOK, LoopTypeOK, TickPpu, FarFromVBlank
  PROVE  FarFromVBlank' /\ ~VBlankStarts(scanline', cycle')
<1>1. /\ cycle \in Nat /\ cycle < CyclesPerScanline
      /\ scanline \in Nat /\ scanline < ScanlinesPerFrame
      /\ ticks_left \in 1 .. 21 /\ ticks_left' = ticks_left - 1
  BY Geometry DEF TypeOK, LoopTypeOK, TickPpu, MaxCycles
<1>2. CyclesPerScanline \in Nat /\ CyclesPerScanline > 10 /\ VBlankScanline > 7
  BY Geometry, VramAddressAssumption DEF TileSize, HCopyDot
<1>3. AdvanceClock
  BY DEF TickPpu, Tick
<1>4. CASE InVBlank
  BY <1>1, <1>2, <1>3, <1>4, Geometry
     DEF AdvanceClock, InVBlank, FarFromVBlank, VBlankStarts, MaxCycles
<1>5. CASE scanline = PrerenderScanline /\ cycle >= 1 /\ cycle + ticks_left <= 21
  BY <1>1, <1>2, <1>3, <1>5, Geometry
     DEF AdvanceClock, FarFromVBlank, VBlankStarts, MaxCycles
<1>6. CASE scanline = 0 /\ CyclesPerScanline + cycle + ticks_left <= 21
  BY <1>1, <1>2, <1>3, <1>6, Geometry
     DEF AdvanceClock, FarFromVBlank, VBlankStarts, MaxCycles
<1> QED
  BY <1>4, <1>5, <1>6 DEF FarFromVBlank, MaxCycles

LEMMA NextRaisedNow ==
  TypeOK /\ VBlankInWindow /\ LoopTypeOK /\ Collected /\ RaisedNow /\ [NesNext]_nesVars
    => RaisedNow'
<1> SUFFICES ASSUME TypeOK, VBlankInWindow, LoopTypeOK, Collected, RaisedNow,
                    [NesNext]_nesVars
             PROVE  RaisedNow'
  OBVIOUS
<1>1. CASE DataFetch
  BY <1>1, AccessesRaise DEF DataFetch, RaisedNow
<1>2. CASE Execute
  <2>1. ~frame_complete' /\ (nmi_pending' => vblank) /\ UNCHANGED <<cycle, scanline>>
    BY <1>2, AccessesRaise DEF Execute, RaisedNow
  <2>2. nmi_pending' => InVBlank'
    BY <2>1 DEF VBlankInWindow, InVBlank
  <2> QED
    BY <1>2, <2>1, <2>2 DEF Execute, RaisedNow, FarFromVBlank
<1>3. CASE TickPpu
  <2>1. phase = "tick" /\ phase' = "tick" /\ Tick
    BY <1>3 DEF TickPpu
  <2>2. CASE VBlankStarts(scanline', cycle')
    BY <2>1, <2>2 DEF VBlankStarts, RaisedNow, FarFromVBlank, InVBlank
  <2>3. CASE ~VBlankStarts(scanline', cycle')
    BY <1>3, <2>1, <2>3, TicksStayFar DEF Tick, RaisedNow
  <2> QED
    BY <2>2, <2>3
<1>4. CASE Interrupt
  BY <1>4 DEF Interrupt, RaisedNow
<1>5. CASE Report
  <2>1. phase = "report" /\ phase' = "fetch" /\ ~nmi_pending /\ ~frame_complete'
        /\ nmi_pending' = nmi_pending
    BY <1>5 DEF Report, TakeFrame, Collected, ppuVars, events
  <2> QED
    BY <2>1 DEF RaisedNow
<1>6. CASE UNCHANGED nesVars
  BY <1>6 DEF nesVars, ppuVars, clock, events, RaisedNow, FarFromVBlank, InVBlank
<1> QED
  BY <1>1, <1>2, <1>3, <1>4, <1>5, <1>6 DEF NesNext

\* Whenever the interrupt line rises no earlier request is waiting, and
\* whenever a frame ends the one before it was reported: both events need only
\* one flag, for every raster and every mix of instructions of up to seven
\* cycles.
THEOREM NoEventMerged == NesSpec => EventsNotMerged
<1>1. NesInit => RaisedNow
  BY DEF NesInit, Init, RaisedNow
<1>2. NesInit => Collected
  BY DEF NesInit, Init, Collected, EventsDrained
<1>3. NesSpec => [](TypeOK /\ VBlankInWindow)
  BY ConsoleDrivesPpu, TypeCorrect, VBlankWindow, PTL
<1>4. NesSpec => []LoopTypeOK
  BY NesInitTypes, NesNextTypes, PTL DEF NesSpec
<1>5. NesSpec => []Collected
  BY <1>2, NextCollected, PTL DEF NesSpec
<1>6. NesSpec => []RaisedNow
  BY <1>1, <1>3, <1>4, <1>5, NextRaisedNow, PTL DEF NesSpec
<1>7. ASSUME TypeOK, LoopTypeOK, RaisedNow, [NesNext]_nesVars
      PROVE  /\ ~NmiLine /\ NmiLine' => ~nmi_pending
             /\ cycle' # cycle /\ VBlankStarts(scanline', cycle') => ~frame_complete
  <2>1. CASE DataFetch \/ Execute
    BY <1>7, <2>1, AccessesRaise DEF DataFetch, Execute, RaisedNow
  <2>2. CASE TickPpu
    <3>1. Tick /\ (~NmiLine /\ NmiLine' => VBlankStarts(scanline', cycle'))
      BY <2>2 DEF TickPpu, Tick, control, NmiLine
    <3>2. nmi_pending \/ frame_complete => ~VBlankStarts(scanline', cycle')
      BY <1>7, <2>2, TicksStayFar DEF RaisedNow, TickPpu
    <3> QED
      BY <3>1, <3>2
  <2>3. CASE Interrupt \/ Report \/ UNCHANGED nesVars
    BY <2>3 DEF Interrupt, Report, TakeNmi, TakeFrame, NmiLine, nesVars, ppuVars, clock,
       control, events
  <2> QED
    BY <1>7, <2>1, <2>2, <2>3 DEF NesNext
<1> QED
  BY <1>3, <1>4, <1>6, <1>7, PTL DEF NesSpec, EventsNotMerged

----------------------------------------------------------------------------
(* The debugger as another environment of the PPU.                         *)

LEMMA DebuggerStepsPpu == [DebuggedNext]_debuggedVars => [Next]_ppuVars
<1> SUFFICES ASSUME [DebuggedNext]_debuggedVars PROVE [Next]_ppuVars
  OBVIOUS
<1>1. CASE TakeKeys
  BY <1>1 DEF TakeKeys
<1>2. CASE RunInstruction
  <2>1. CASE DataFetch
    BY <2>1, AccessesPpu DEF DataFetch
  <2>2. CASE Execute
    BY <2>2, AccessesPpu DEF Execute
  <2>3. CASE TickPpu
    BY <2>3 DEF TickPpu, Next
  <2> QED
    BY <1>2, <2>1, <2>2, <2>3 DEF RunInstruction
<1>3. CASE CollectFrame
  BY <1>3 DEF CollectFrame, Next, Access
<1>4. CASE DrawMemory
  BY <1>4, AccessesPpu DEF DrawMemory
<1>5. CASE Present
  BY <1>5 DEF Present
<1>6. CASE UNCHANGED debuggedVars
  BY <1>6 DEF debuggedVars, nesVars
<1> QED
  BY <1>1, <1>2, <1>3, <1>4, <1>5, <1>6 DEF DebuggedNext

\* So is the debugger's loop, and the same holds of it.
LEMMA DebuggerDrivesPpu == DebuggedSpec => Spec
<1>1. DebuggedInit => Init
  BY DEF DebuggedInit
<1>2. [DebuggedNext]_debuggedVars => [Next]_ppuVars
  BY DebuggerStepsPpu
<1> QED
  BY <1>1, <1>2, PTL DEF DebuggedSpec, Spec

\* Also when the memory view reads PPUDATA between two instructions, no tick
\* moves the video address while the vblank flag is up.
THEOREM DebuggedUploads == DebuggedSpec => UploadWindow
BY DebuggerDrivesPpu, UploadsUndisturbed, PTL

\* Also when the memory view reads PPUSTATUS, the flag is up only in vblank.
THEOREM DebuggedVBlank == DebuggedSpec => []VBlankInWindow
BY DebuggerDrivesPpu, VBlankWindow, PTL

\* The registers of which a row of the view is made include PPUSTATUS, as every
\* sixteen addresses of $2000-$3FFF do.
ShowsStatus == \E i \in 1 .. Len(ViewReads) : ViewReads[i] = "STATUS"

\* What the drawing has read by now it has also taken.
FlagTaken ==
  /\ draw_left \in 0 .. Len(ViewReads)
  /\ phase = "draw" /\ viewing =>
       \A i \in 1 .. Len(ViewReads) - draw_left : ViewReads[i] = "STATUS" => ~vblank
  /\ phase = "keys" /\ viewing => ~vblank

\* A memory view that shows PPUSTATUS leaves no vblank flag for the program: it
\* is down whenever the loop is back at its keys, and the next burst begins so.
THEOREM LookingTakesVBlank ==
  ASSUME ShowsStatus
  PROVE  DebuggedSpec => [](phase = "keys" /\ viewing => ~vblank)
<1> Len(ViewReads) \in Nat
  BY DebuggedAssumption
<1>1. DebuggedInit => FlagTaken
  BY DEF DebuggedInit, FlagTaken
<1>2. ASSUME FlagTaken, [DebuggedNext]_debuggedVars PROVE FlagTaken'
  <2> USE <1>2 DEF FlagTaken
  <2>1. CASE TakeKeys
    <3>1. CASE paused' /\ ~stepping'
      BY <2>1, <3>1 DEF TakeKeys, ReadsOfView
    <3>2. CASE ~(paused' /\ ~stepping')
      BY <2>1, <3>2 DEF TakeKeys
    <3> QED
      BY <3>1, <3>2
  <2>2. CASE RunInstruction
    <3>1. phase' \in {"execute", "tick"} /\ draw_left' = draw_left
      BY <2>2 DEF RunInstruction, DataFetch, Execute, TickPpu, loopVars
    <3> QED
      BY <3>1
  <2>3. CASE CollectFrame
    <3>1. CASE burst' = 0
      BY <2>3, <3>1 DEF CollectFrame, ReadsOfView
    <3>2. CASE burst' # 0
      BY <2>3, <3>2 DEF CollectFrame
    <3> QED
      BY <3>1, <3>2
  <2>4. CASE DrawMemory
    <3> DEFINE next == Len(ViewReads) + 1 - draw_left
    <3>1. /\ phase = "draw" /\ phase' = "draw" /\ viewing' = viewing
          /\ draw_left \in 1 .. Len(ViewReads) /\ draw_left' = draw_left - 1
          /\ Read(ViewReads[next])
      BY <2>4 DEF DrawMemory
    <3>2. vblank' => vblank
      BY <3>1, Zenon DEF Read, ReadStatus, AccessData, ppuVars, events
    <3>3. ViewReads[next] = "STATUS" => ~vblank'
      BY <3>1 DEF Read, ReadStatus
    <3>4. \A i \in 1 .. Len(ViewReads) - draw_left' :
            i = next \/ i \in 1 .. Len(ViewReads) - draw_left
      BY <3>1
    <3> HIDE DEF next
    <3> QED
      BY <3>1, <3>2, <3>3, <3>4
  <2>5. CASE Present
    <3>1. /\ phase = "draw" /\ phase' = "keys" /\ draw_left = 0
          /\ UNCHANGED <<draw_left, viewing, vblank>>
      BY <2>5 DEF Present, loopVars, ppuVars, events
    <3>2. 1 .. Len(ViewReads) = 1 .. Len(ViewReads) - draw_left
      BY <3>1
    <3> QED
      BY <3>1, <3>2 DEF ShowsStatus
  <2>6. CASE UNCHANGED debuggedVars
    <3>1. UNCHANGED <<phase, draw_left, viewing, vblank>>
      BY <2>6 DEF debuggedVars, nesVars, loopVars, ppuVars, events
    <3> QED
      BY <3>1
  <2> QED
    BY <2>1, <2>2, <2>3, <2>4, <2>5, <2>6 DEF DebuggedNext
<1>3. FlagTaken => (phase = "keys" /\ viewing => ~vblank)
  BY DEF FlagTaken
<1> QED
  BY <1>1, <1>2, <1>3, PTL DEF DebuggedSpec

----------------------------------------------------------------------------
(* Finding the end of a frame.                                             *)

\* While keys are taken and things are drawn a step may have left the flag up,
\* and within a burst's first instruction so may the step before it; else the
\* flag is found by the instruction that raised it.
FrameIsFresh ==
  /\ burst \in Nat
  /\ phase \in {"fetch", "execute", "tick"} => burst > 0 /\ (stepping => burst = 1)
  /\ phase \in {"fetch", "execute"} /\ frame_complete => stepping \/ burst = BurstLength

\* A register access does not raise the flag of a finished frame.
LEMMA AccessesNoFrame ==
  ASSUME NEW register, Read(register) \/ Write(register)
  PROVE  frame_complete' = frame_complete
BY DEF Read, Write, ReadStatus, AccessData, WriteCtrl, WriteMask, WriteScroll,
       WriteAddr, ppuVars, events

LEMMA NextFrameIsFresh == FrameIsFresh /\ [DebuggedNext]_debuggedVars => FrameIsFresh'
<1> SUFFICES ASSUME FrameIsFresh, [DebuggedNext]_debuggedVars PROVE FrameIsFresh'
  OBVIOUS
<1> USE DebuggedAssumption DEF FrameIsFresh
<1>1. CASE TakeKeys
  <2>1. CASE paused' /\ ~stepping'
    BY <1>1, <2>1 DEF TakeKeys
  <2>2. CASE ~(paused' /\ ~stepping')
    BY <1>1, <2>2 DEF TakeKeys
  <2> QED
    BY <2>1, <2>2
<1>2. CASE RunInstruction
  <2>1. CASE DataFetch \/ Execute
    <3>1. phase \in {"fetch", "execute"} /\ phase' \in {"execute", "tick"}
      BY <2>1 DEF DataFetch, Execute
    <3>2. frame_complete' = frame_complete
      BY <2>1, AccessesNoFrame DEF DataFetch, Execute, ppuVars, events
    <3> QED
      BY <1>2, <3>1, <3>2 DEF RunInstruction, loopVars
  <2>2. CASE TickPpu
    BY <1>2, <2>2 DEF RunInstruction, TickPpu, loopVars
  <2> QED
    BY <1>2, <2>1, <2>2 DEF RunInstruction
<1>3. CASE CollectFrame
  <2>1. CASE frame_complete /\ ~stepping
    BY <1>3, <2>1 DEF CollectFrame
  <2>2. CASE ~(frame_complete /\ ~stepping)
    <3>1. CASE burst = 1
      BY <1>3, <2>2, <3>1 DEF CollectFrame
    <3>2. CASE burst # 1
      BY <1>3, <2>2, <3>2 DEF CollectFrame, ppuVars, events
    <3> QED
      BY <3>1, <3>2
  <2> QED
    BY <2>1, <2>2
<1>4. CASE DrawMemory
  BY <1>4 DEF DrawMemory
<1>5. CASE Present
  BY <1>5 DEF Present, loopVars
<1>6. CASE UNCHANGED debuggedVars
  BY <1>6 DEF debuggedVars, nesVars, ppuVars, events, loopVars
<1> QED
  BY <1>1, <1>2, <1>3, <1>4, <1>5, <1>6 DEF DebuggedNext

\* A burst never runs past the end of a frame: an instruction of it that finds
\* the flag up is the first one, and a step before it finished that frame.
THEOREM FrameFound == DebuggedSpec => []FrameFoundInTime
<1>1. DebuggedInit => FrameIsFresh
  BY DEF DebuggedInit, FrameIsFresh
<1>2. FrameIsFresh /\ [DebuggedNext]_debuggedVars => FrameIsFresh'
  BY NextFrameIsFresh
<1>3. FrameIsFresh => FrameFoundInTime
  BY DEF FrameIsFresh, FrameFoundInTime
<1> QED
  BY <1>1, <1>2, <1>3, PTL DEF DebuggedSpec

----------------------------------------------------------------------------
(* Types.                                                                  *)

\* An instruction of a burst is counted in it until its frame is looked at, and
\* the reads of a view are those of the sequence.
DebuggedTypes ==
  /\ DebuggedTypeOK
  /\ phase \in {"fetch", "execute", "tick"} => burst > 0

LEMMA DebuggedInitTypes == DebuggedInit => DebuggedTypes
<1> SUFFICES ASSUME DebuggedInit PROVE DebuggedTypes
  OBVIOUS
<1>1. paused \in BOOLEAN /\ stepping \in BOOLEAN /\ viewing \in BOOLEAN
  BY DEF DebuggedInit
<1>2. phase = "keys" /\ instr = Idle
  BY DEF DebuggedInit
<1>3. ticks_left \in 0 .. 3 * MaxCycles
  BY DEF DebuggedInit, MaxCycles
<1>4. burst \in 0 .. BurstLength /\ draw_left \in 0 .. Len(ViewReads)
  <2>1. Len(ViewReads) \in Nat
    BY DebuggedAssumption
  <2> QED
    BY <2>1, DebuggedAssumption DEF DebuggedInit
<1> QED
  BY <1>1, <1>2, <1>3, <1>4 DEF DebuggedTypes, DebuggedTypeOK

LEMMA DebuggedNextTypes ==
  DebuggedTypes /\ [DebuggedNext]_debuggedVars => DebuggedTypes'
<1> SUFFICES ASSUME DebuggedTypes, [DebuggedNext]_debuggedVars PROVE DebuggedTypes'
  OBVIOUS
<1> USE DebuggedAssumption DEF DebuggedTypes, DebuggedTypeOK, MaxCycles
<1>0. Len(ViewReads) \in Nat
  BY DebuggedAssumption
<1>1. CASE TakeKeys
  <2>1. paused' \in BOOLEAN /\ stepping' \in BOOLEAN /\ viewing' \in BOOLEAN
    BY <1>1 DEF TakeKeys
  <2>2. CASE paused' /\ ~stepping'
    BY <1>0, <1>1, <2>1, <2>2 DEF TakeKeys, ReadsOfView
  <2>3. CASE ~(paused' /\ ~stepping')
    BY <1>0, <1>1, <2>1, <2>3 DEF TakeKeys
  <2> QED
    BY <2>2, <2>3
<1>2. CASE RunInstruction
  <2>1. CASE DataFetch
    BY <1>2, <2>1 DEF RunInstruction, loopVars, DataFetch
  <2>2. CASE Execute
    <3>1. instr.cycles \in 0 .. 7
      BY NesInstructions DEF Instruction, Idle
    <3> QED
      BY <1>2, <2>2, <3>1 DEF RunInstruction, loopVars, Execute
  <2>3. CASE TickPpu
    BY <1>2, <2>3 DEF RunInstruction, loopVars, TickPpu
  <2> QED
    BY <1>2, <2>1, <2>2, <2>3 DEF RunInstruction
<1>3. CASE CollectFrame
  <2>1. burst' \in 0 .. BurstLength
    BY <1>3 DEF CollectFrame
  <2>2. CASE burst' = 0
    BY <1>0, <1>3, <2>1, <2>2 DEF CollectFrame, ReadsOfView
  <2>3. CASE burst' # 0
    BY <1>3, <2>1, <2>3 DEF CollectFrame
  <2> QED
    BY <2>2, <2>3
<1>4. CASE DrawMemory
  BY <1>0, <1>4 DEF DrawMemory
<1>5. CASE Present
  BY <1>5 DEF Present, loopVars
<1>6. CASE UNCHANGED debuggedVars
  BY <1>6 DEF debuggedVars, nesVars, loopVars
<1> QED
  BY <1>1, <1>2, <1>3, <1>4, <1>5, <1>6 DEF DebuggedNext

\* No burst runs more instructions than it was given, and no drawing of the
\* memory view reads more than it shows.
THEOREM DebuggedTypesHold == DebuggedSpec => []DebuggedTypeOK
<1>1. DebuggedTypes => DebuggedTypeOK
  BY DEF DebuggedTypes
<1> QED
  BY <1>1, DebuggedInitTypes, DebuggedNextTypes, PTL DEF DebuggedSpec

----------------------------------------------------------------------------
(* The two sums of a run.                                                  *)

\* Counting changes nothing of what is counted: every theorem about NesSpec
\* holds of AccountSpec.
LEMMA AccountsOfNes == AccountSpec => NesSpec
<1>1. AccountInit => NesInit
  BY DEF AccountInit
<1>2. [AccountNext]_accountVars => [NesNext]_nesVars
  BY DEF AccountNext, NesNext, accountVars
<1> QED
  BY <1>1, <1>2, PTL DEF AccountSpec, NesSpec

\* What the instruction being run has made of the address it found.
FetchedOnce ==
  phase = "execute" =>
    vram_addr = IF instr.read = "DATA" THEN StepAddress(entry_addr, by_row)
                                       ELSE entry_addr

LEMMA NextFetchedOnce == FetchedOnce /\ [AccountNext]_accountVars => FetchedOnce'
<1> SUFFICES ASSUME FetchedOnce, [AccountNext]_accountVars PROVE FetchedOnce'
  OBVIOUS
<1> USE DEF FetchedOnce
<1>1. CASE DataFetch /\ entry_addr' = vram_addr
  <2>1. CASE instr'.read = "DATA"
    BY <1>1, <2>1 DEF DataFetch, Read, AccessData, control
  <2>2. CASE instr'.read # "DATA"
    BY <1>1, <2>2 DEF DataFetch, Read, ReadStatus, ppuVars, scroll
  <2> QED
    BY <2>1, <2>2
<1>2. CASE Execute
  BY <1>2 DEF Execute
<1>3. CASE TickPpu
  BY <1>3 DEF TickPpu
<1>4. CASE Interrupt
  BY <1>4 DEF Interrupt
<1>5. CASE Report
  BY <1>5 DEF Report
<1>6. CASE UNCHANGED accountVars
  BY <1>6 DEF accountVars, nesVars, ppuVars, scroll, control
<1> QED
  BY <1>1, <1>2, <1>3, <1>4, <1>5, <1>6 DEF AccountNext

\* A store to PPUDATA leaves the address two increments past where the
\* instruction found it: the operand was read there first.
THEOREM StoresTwice == AccountSpec => StoreStepsTwice
<1>1. AccountInit => FetchedOnce
  BY DEF AccountInit, NesInit, FetchedOnce
<1>2. FetchedOnce /\ [AccountNext]_accountVars => FetchedOnce'
  BY NextFetchedOnce
<1>3. ASSUME FetchedOnce, Execute, instr.read = "DATA", instr.write = "DATA"
      PROVE  vram_addr' = StepAddress(StepAddress(entry_addr, by_row), by_row)
  BY <1>3 DEF FetchedOnce, Execute, Write, AccessData
<1>4. FetchedOnce /\ [AccountNext]_accountVars
        => [Execute /\ instr.read = "DATA" /\ instr.write = "DATA"
              => vram_addr' = StepAddress(StepAddress(entry_addr, by_row), by_row)]_accountVars
  BY <1>3
<1> QED
  BY <1>1, <1>2, <1>4, PTL DEF AccountSpec, StoreStepsTwice

\* The cycles counted, the dots run and the ticks still owed differ by those of
\* the interrupts taken.
Balanced ==
  /\ cpu_cycles \in Nat /\ dots \in Nat /\ interrupts \in Nat
  /\ phase # "tick" => ticks_left = 0
  /\ 3 * (cpu_cycles - ResetCycles) = dots + ticks_left + 3 * InterruptCycles * interrupts

LEMMA NextBalanced ==
  Balanced /\ LoopTypeOK /\ [AccountNext]_accountVars => Balanced'
<1> SUFFICES ASSUME Balanced, LoopTypeOK, [AccountNext]_accountVars PROVE Balanced'
  OBVIOUS
<1> USE DEF Balanced, ResetCycles, InterruptCycles
<1>1. ticks_left \in Nat /\ instr.cycles \in Nat
  BY NesInstructions DEF LoopTypeOK, Instruction, Idle, MaxCycles
<1>2. CASE DataFetch /\ UNCHANGED <<cpu_cycles, dots, interrupts>>
  BY <1>2 DEF DataFetch
<1>3. CASE Execute /\ cpu_cycles' = cpu_cycles + instr.cycles /\ UNCHANGED <<dots, interrupts>>
  <2>1. /\ phase' = "tick" /\ ticks_left = 0 /\ ticks_left' = 3 * instr.cycles
        /\ cpu_cycles' = cpu_cycles + instr.cycles /\ dots' = dots /\ interrupts' = interrupts
    BY <1>3 DEF Execute
  <2> QED
    BY <1>1, <2>1
<1>4. CASE TickPpu /\ dots' = dots + 1 /\ UNCHANGED <<cpu_cycles, interrupts>>
  <2>1. /\ phase' = phase /\ phase = "tick" /\ ticks_left' = ticks_left - 1
        /\ dots' = dots + 1 /\ cpu_cycles' = cpu_cycles /\ interrupts' = interrupts
    BY <1>4 DEF TickPpu
  <2> QED
    BY <1>1, <2>1
<1>5. CASE /\ Interrupt /\ UNCHANGED dots
           /\ IF nmi_pending
                THEN cpu_cycles' = cpu_cycles + InterruptCycles /\ interrupts' = interrupts + 1
                ELSE UNCHANGED <<cpu_cycles, interrupts>>
  <2>1. ticks_left' = 0 /\ ticks_left = 0 /\ dots' = dots
    BY <1>5 DEF Interrupt
  <2>2. CASE cpu_cycles' = cpu_cycles + InterruptCycles /\ interrupts' = interrupts + 1
    BY <2>1, <2>2
  <2>3. CASE UNCHANGED <<cpu_cycles, interrupts>>
    BY <2>1, <2>3
  <2> QED
    BY <1>5, <2>2, <2>3
<1>6. CASE Report /\ UNCHANGED <<cpu_cycles, dots, interrupts>>
  BY <1>6 DEF Report
<1>7. CASE UNCHANGED accountVars
  <2>1. UNCHANGED <<phase, ticks_left, cpu_cycles, dots, interrupts>>
    BY <1>7 DEF accountVars, nesVars
  <2> QED
    BY <2>1
<1> QED
  BY <1>2, <1>3, <1>4, <1>5, <1>6, <1>7 DEF AccountNext

\* nes_step runs three dots for each cycle of its instructions, whatever they
\* are and however often they are interrupted.  It owes none for the cycles of
\* the interrupts, and the two clocks differ by exactly seven cycles for each
\* interrupt that was taken.
THEOREM ClocksDiffer == AccountSpec => []DriftIsInterrupts
<1>1. AccountInit => Balanced
  BY DEF AccountInit, NesInit, Balanced, ResetCycles, InterruptCycles
<1>2. AccountSpec => []LoopTypeOK
  BY AccountsOfNes, NesInitTypes, NesNextTypes, PTL DEF NesSpec
<1>3. Balanced /\ LoopTypeOK /\ [AccountNext]_accountVars => Balanced'
  BY NextBalanced
<1>4. Balanced => DriftIsInterrupts
  BY DEF Balanced, DriftIsInterrupts, ResetCycles, InterruptCycles
<1> QED
  BY <1>1, <1>2, <1>3, <1>4, PTL DEF AccountSpec
=============================================================================
