-------------------------------- MODULE Ppu --------------------------------
(***************************************************************************)
(* The picture processing unit of ppu.c: its raster clock, the scroll      *)
(* registers it moves while it renders, the vblank flag and the interrupt  *)
(* and end-of-frame events, and the registers through which the CPU        *)
(* disturbs all of them between two ticks.                                 *)
(*                                                                         *)
(* What is drawn and what the video memories hold is not modelled here.    *)
(***************************************************************************)
EXTENDS VramAddress

CONSTANTS
  CyclesPerScanline,  \* PPU_CYCLES_PER_SCANLINE, 341
  ScanlinesPerFrame,  \* PPU_SCANLINES_PER_FRAME, 262
  VBlankScanline,     \* PPU_VBLANK_SCANLINE, 241
  PrerenderScanline,  \* PPU_PRERENDER_SCANLINE, 261
  VCopyFirst,         \* first dot of the vertical reload, 280
  VCopyLast,          \* last dot of the vertical reload, 304
  CtrlValues,         \* what the program writes to PPUCTRL
  MaskValues,         \* what the program writes to PPUMASK
  ScrollValues,       \* what the program writes, in halves, to PPUSCROLL
  AddrValues,         \* what the program writes, in halves, to PPUADDR
  DataUsed            \* whether it reads or writes PPUDATA

ScreenWidth  == TileSize * Cols   \* PPU_SCREEN_WIDTH, 256
ScreenHeight == TileSize * Rows   \* PPU_SCREEN_HEIGHT, 240
HCopyDot     == ScreenWidth + 1   \* dot of the horizontal reload, 257

\* The pre-render line is the last of the frame; vblank begins after the
\* picture and ends there; the reloads follow the picture on their line.
ASSUME PpuGeometry ==
  /\ CyclesPerScanline \in Nat
  /\ ScanlinesPerFrame \in Nat
  /\ VBlankScanline \in Nat
  /\ VCopyFirst \in Nat
  /\ VCopyLast \in Nat
  /\ ScreenHeight <= VBlankScanline
  /\ VBlankScanline < PrerenderScanline
  /\ PrerenderScanline = ScanlinesPerFrame - 1
  /\ HCopyDot < VCopyFirst
  /\ VCopyFirst <= VCopyLast
  /\ VCopyLast < CyclesPerScanline

\* The two enable bits of PPUMASK that the address logic looks at, and the
\* bits of PPUCTRL other than the pattern-table and sprite-size selections.
MaskFlags == {"BG", "SPRITE"}
Ctrl == [nmi : BOOLEAN, byRow : BOOLEAN, nx : {0, 1}, ny : {0, 1}]

ASSUME PpuInputs ==
  /\ CtrlValues \subseteq Ctrl
  /\ MaskValues \subseteq SUBSET MaskFlags
  /\ ScrollValues \subseteq Scroll
  /\ AddrValues \subseteq BusAddress
  /\ DataUsed \in BOOLEAN

VARIABLES
  cycle, scanline,                \* the raster clock
  nmi_enable, by_row, mask,       \* ctrl_register and mask_register
  write_latch,                    \* the next PPUSCROLL/PPUADDR is the second
  vram_addr, temp_addr, fine_x,   \* where the PPU is, and where it starts
  vblank,                         \* status_register
  nmi_pending, frame_complete     \* events for the console to collect

clock   == <<cycle, scanline>>
control == <<nmi_enable, by_row, mask>>
scroll  == <<write_latch, vram_addr, temp_addr, fine_x>>
events  == <<vblank, nmi_pending, frame_complete>>
ppuVars == <<clock, control, scroll, events>>

Rendering == mask # {}

Init ==
  /\ cycle = 0 /\ scanline = PrerenderScanline
  /\ nmi_enable = FALSE /\ by_row = FALSE /\ mask = {}
  /\ write_latch = FALSE
  /\ vram_addr = ZeroAddress /\ temp_addr = ZeroAddress /\ fine_x = 0
  /\ vblank = FALSE /\ nmi_pending = FALSE /\ frame_complete = FALSE

----------------------------------------------------------------------------
(* ppu_tick: the clock moves, then the dot it has reached does its work.   *)

AdvanceClock ==
  IF cycle + 1 < CyclesPerScanline
    THEN cycle' = cycle + 1 /\ UNCHANGED scanline
    ELSE /\ cycle' = 0
         /\ scanline' = IF scanline + 1 < ScanlinesPerFrame THEN scanline + 1 ELSE 0

\* The address after dot c of a line of the picture.
VisibleScroll(c) ==
  LET across == IncrementScrollX(vram_addr)
  IN  CASE c = ScreenWidth -> IncrementScrollY(across)
        [] c \in 1 .. ScreenWidth - 1 /\ c % TileSize = 0 -> across
        [] c = HCopyDot -> CopyHorizontalBits(vram_addr, temp_addr)
        [] OTHER -> vram_addr

\* Mutant: the vertical reload runs from the start of the line.
PrerenderScrollEarly(c) ==
  CASE c \in 1 .. VCopyLast -> CopyVerticalBits(vram_addr, temp_addr)
    [] OTHER -> vram_addr

\* The address after dot c of the pre-render line.
PrerenderScroll(c) ==
  CASE c \in VCopyFirst .. VCopyLast -> CopyVerticalBits(vram_addr, temp_addr)
    [] c = HCopyDot -> CopyHorizontalBits(vram_addr, temp_addr)
    [] OTHER -> vram_addr

\* The address after dot c of line s.
ScrollAt(s, c) ==
  CASE Rendering /\ s < ScreenHeight      -> VisibleScroll(c)
    [] Rendering /\ s = PrerenderScanline -> PrerenderScroll(c)
    [] OTHER                              -> vram_addr

\* Mutant: the dot before the line, which the clock never shows.
VBlankStartsNever(s, c) == s = VBlankScanline /\ c = CyclesPerScanline
\* Mutant: the flag is lowered by the picture, not by the pre-render line.
VBlankEndsLate(s, c) == s = 0 /\ c = 1

VBlankStarts(s, c) == s = VBlankScanline /\ c = 1
VBlankEnds(s, c)   == s = PrerenderScanline /\ c = 1

Tick ==
  /\ AdvanceClock
  /\ vram_addr' = ScrollAt(scanline', cycle')
  /\ IF VBlankStarts(scanline', cycle')
       THEN /\ vblank' = TRUE
            /\ frame_complete' = TRUE
            /\ nmi_pending' = (nmi_pending \/ nmi_enable)
       ELSE /\ vblank' = (vblank /\ ~VBlankEnds(scanline', cycle'))
            /\ UNCHANGED <<frame_complete, nmi_pending>>
  /\ UNCHANGED <<control, write_latch, temp_addr, fine_x>>

----------------------------------------------------------------------------
(* ppu_read and ppu_write, as far as they change the state above.          *)

ReadStatus ==
  /\ vblank' = FALSE
  /\ write_latch' = FALSE
  /\ UNCHANGED <<clock, control, vram_addr, temp_addr, fine_x,
                 nmi_pending, frame_complete>>

\* Mutant: every write that has the bit set requests, whatever it was before.
WriteCtrlByLevel ==
  /\ \E c \in CtrlValues :
       /\ nmi_enable' = c.nmi
       /\ by_row' = c.byRow
       /\ temp_addr' = SelectNameTable(temp_addr, c.nx, c.ny)
       /\ nmi_pending' = (nmi_pending \/ (c.nmi /\ vblank))
  /\ UNCHANGED <<clock, mask, write_latch, vram_addr, fine_x,
                 vblank, frame_complete>>

\* Enabling NMI while the vblank flag is up requests one at once.
WriteCtrl ==
  /\ \E c \in CtrlValues :
       /\ nmi_enable' = c.nmi
       /\ by_row' = c.byRow
       /\ temp_addr' = SelectNameTable(temp_addr, c.nx, c.ny)
       /\ nmi_pending' = (nmi_pending \/ (~nmi_enable /\ c.nmi /\ vblank))
  /\ UNCHANGED <<clock, mask, write_latch, vram_addr, fine_x,
                 vblank, frame_complete>>

WriteMask ==
  /\ mask' \in MaskValues
  /\ UNCHANGED <<clock, nmi_enable, by_row, scroll, events>>

WriteScroll ==
  /\ \E s \in ScrollValues :
       IF write_latch
         THEN temp_addr' = ScrollSecond(temp_addr, s) /\ UNCHANGED fine_x
         ELSE temp_addr' = ScrollFirst(temp_addr, s) /\ fine_x' = s.fx
  /\ write_latch' = ~write_latch
  /\ UNCHANGED <<clock, control, vram_addr, events>>

WriteAddr ==
  /\ \E a \in AddrValues :
       IF write_latch
         THEN /\ temp_addr' = AddrSecond(temp_addr, a)
              /\ vram_addr' = temp_addr'
         ELSE /\ temp_addr' = AddrFirst(temp_addr, a)
              /\ UNCHANGED vram_addr
  /\ write_latch' = ~write_latch
  /\ UNCHANGED <<clock, control, fine_x, events>>

\* A read and a write of PPUDATA move the address alike.
AccessData ==
  /\ DataUsed
  /\ vram_addr' = StepAddress(vram_addr, by_row)
  /\ UNCHANGED <<clock, control, write_latch, temp_addr, fine_x, events>>

----------------------------------------------------------------------------
(* The console's side: nes_step takes the interrupt request, and           *)
(* ppu_frame_complete reports the end of the frame once.                   *)

TakeNmi ==
  /\ nmi_pending
  /\ nmi_pending' = FALSE
  /\ UNCHANGED <<clock, control, scroll, vblank, frame_complete>>

TakeFrame ==
  /\ frame_complete
  /\ frame_complete' = FALSE
  /\ UNCHANGED <<clock, control, scroll, vblank, nmi_pending>>

Access == \/ ReadStatus \/ WriteCtrl \/ WriteMask
          \/ WriteScroll \/ WriteAddr \/ AccessData
          \/ TakeNmi \/ TakeFrame

Next == Tick \/ Access

Spec == Init /\ [][Next]_ppuVars

----------------------------------------------------------------------------
\* Every field keeps its width; in particular neither address register ever
\* leaves its fifteen bits and the raster clock never leaves the frame.
TypeOK ==
  /\ cycle \in 0 .. CyclesPerScanline - 1
  /\ scanline \in 0 .. ScanlinesPerFrame - 1
  /\ nmi_enable \in BOOLEAN /\ by_row \in BOOLEAN
  /\ mask \in SUBSET MaskFlags
  /\ write_latch \in BOOLEAN
  /\ vram_addr \in Address /\ temp_addr \in Address
  /\ fine_x \in 0 .. TileSize - 1
  /\ vblank \in BOOLEAN /\ nmi_pending \in BOOLEAN /\ frame_complete \in BOOLEAN

\* The raster clock is between the dot that raises vblank and the one that
\* lowers it.
InVBlank ==
  \/ scanline = VBlankScanline /\ cycle >= 1
  \/ scanline > VBlankScanline /\ scanline < PrerenderScanline
  \/ scanline = PrerenderScanline /\ cycle = 0

\* The vblank flag is up only inside the vertical blank, whatever the program
\* reads and writes: code that has seen it has the rest of the blank, and no
\* flag is carried into the next picture (ppu_tick, ppu_read of PPUSTATUS).
VBlankInWindow == vblank => InVBlank

\* While the flag is up the renderer is idle: no tick moves the address that
\* the program is uploading through, whether rendering is enabled or not, up
\* to and including the tick that lowers the flag (ppu_tick).
UploadWindow == [][vblank /\ Tick => UNCHANGED vram_addr]_ppuVars

\* The interrupt line of the PPU is the AND of the flag and its enable bit.
NmiLine == vblank /\ nmi_enable

Nmi == INSTANCE NmiEdge WITH line <- NmiLine, pending <- nmi_pending

\* The interrupt request follows the edges of the line: the two places that
\* raise it (the tick that starts vblank, a PPUCTRL write that enables NMI
\* inside vblank) and the four that move the line (those two, the PPUSTATUS
\* read, the pre-render dot) never lose, repeat or invent a request.
NmiFollowsEdges == Nmi!Spec
=============================================================================
