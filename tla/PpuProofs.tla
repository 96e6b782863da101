----------------------------- MODULE PpuProofs -----------------------------
(***************************************************************************)
(* Proofs about Ppu for every size of the name table and of the raster     *)
(* that satisfies VramAddressAssumption and PpuGeometry, and for every     *)
(* choice of register values; at the end, about PpuRaster's position.      *)
(* RasterInv is inductive because each tick that enters a dot of the       *)
(* picture moves vram_addr by exactly the tile or the row that ColumnsDone *)
(* and LinesDone gain there.                                               *)
(***************************************************************************)
EXTENDS PpuRaster, TLAPS

----------------------------------------------------------------------------
(* The address operators keep an address an address.                       *)

\* A record of the five fields, each within its width, is an address.
LEMMA AddressFields ==
  ASSUME NEW w,
         w = [cx |-> w.cx, cy |-> w.cy, nx |-> w.nx, ny |-> w.ny, fy |-> w.fy],
         w.cx \in 0 .. Cols - 1, w.cy \in 0 .. RowCodes - 1,
         w.nx \in {0, 1}, w.ny \in {0, 1}, w.fy \in 0 .. TileSize - 1
  PROVE  w \in Address
BY DEF Address

\* Scrolling and copying keep every field within its width.
LEMMA ScrollType ==
  ASSUME NEW v \in Address, NEW t \in Address
  PROVE  /\ IncrementScrollX(v) \in Address
         /\ IncrementScrollY(v) \in Address
         /\ CopyHorizontalBits(v, t) \in Address
         /\ CopyVerticalBits(v, t) \in Address
<1> USE VramAddressAssumption
<1>1. ASSUME NEW w, w = IncrementScrollX(v) PROVE w \in Address
  <2>1. w = [cx |-> w.cx, cy |-> w.cy, nx |-> w.nx, ny |-> w.ny, fy |-> w.fy]
    BY <1>1 DEF IncrementScrollX, Address
  <2>2. /\ w.cx \in 0 .. Cols - 1 /\ w.cy \in 0 .. RowCodes - 1
        /\ w.nx \in {0, 1} /\ w.ny \in {0, 1} /\ w.fy \in 0 .. TileSize - 1
    BY <1>1 DEF IncrementScrollX, Address
  <2> QED
    BY <2>1, <2>2, AddressFields
<1>2. ASSUME NEW u \in Address, NEW w, w = NextCoarseY(u)
      PROVE  w \in Address
  <2>1. w = [cx |-> w.cx, cy |-> w.cy, nx |-> w.nx, ny |-> w.ny, fy |-> w.fy]
    BY <1>2 DEF NextCoarseY, Address
  <2>2. /\ w.cx \in 0 .. Cols - 1 /\ w.cy \in 0 .. RowCodes - 1
        /\ w.nx \in {0, 1} /\ w.ny \in {0, 1} /\ w.fy \in 0 .. TileSize - 1
    BY <1>2 DEF NextCoarseY, Address
  <2> QED
    BY <2>1, <2>2, AddressFields
<1>3. IncrementScrollY(v) \in Address
  <2>1. ASSUME NEW u, u = [v EXCEPT !.fy = 0] PROVE NextCoarseY(u) \in Address
    <3>1. u \in Address
      BY <2>1 DEF Address, TileSize
    <3> QED
      BY <1>2, <3>1
  <2> QED
    BY <2>1 DEF IncrementScrollY, Address, TileSize
<1>4. \A w : w = CopyHorizontalBits(v, t) => w \in Address
  BY DEF CopyHorizontalBits, Address
<1>5. \A w : w = CopyVerticalBits(v, t) => w \in Address
  BY DEF CopyVerticalBits, Address
<1> QED
  BY <1>1, <1>3, <1>4, <1>5

\* So does stepping an address through PPUDATA.
LEMMA StepType ==
  ASSUME NEW v \in Address, NEW byRow \in BOOLEAN
  PROVE  StepAddress(v, byRow) \in Address
<1> USE VramAddressAssumption
<1>1. ASSUME NEW u \in Address, NEW w, w = AddRow(u) PROVE w \in Address
  <2> DEFINE endOfTable == u.cy = RowCodes - 1
             endOfPair  == endOfTable /\ u.nx = 1
             endOfRam   == endOfPair /\ u.ny = 1
  <2>1. w = [cx |-> w.cx, cy |-> w.cy, nx |-> w.nx, ny |-> w.ny, fy |-> w.fy]
    BY <1>1 DEF AddRow, Address
  <2>2. /\ w.cx = u.cx
        /\ w.cy = (IF endOfTable THEN 0 ELSE u.cy + 1)
    BY <1>1 DEF AddRow, Address
  <2>3. /\ w.nx = (IF endOfTable THEN 1 - u.nx ELSE u.nx)
        /\ w.ny = (IF endOfPair THEN 1 - u.ny ELSE u.ny)
    BY <1>1 DEF AddRow, Address
  <2>4. w.fy = (u.fy + (IF endOfRam THEN 1 ELSE 0)) % 4
    BY <1>1 DEF AddRow, Address
  <2>5. w.cx \in 0 .. Cols - 1 /\ w.cy \in 0 .. RowCodes - 1
    BY <2>2 DEF Address
  <2>6. w.nx \in {0, 1} /\ w.ny \in {0, 1}
    BY <2>3 DEF Address
  <2>7. w.fy \in 0 .. TileSize - 1
    BY <2>4 DEF Address, TileSize
  <2> QED
    BY <2>1, <2>5, <2>6, <2>7, AddressFields
<1>2. ASSUME NEW w, w = AddColumn(v) PROVE w \in Address
  <2>1. ASSUME NEW u, u = [v EXCEPT !.cx = 0] PROVE u \in Address
    BY <2>1 DEF Address
  <2>2. CASE v.cx = Cols - 1
    BY <1>1, <1>2, <2>1, <2>2 DEF AddColumn
  <2>3. CASE v.cx # Cols - 1
    <3>1. w = [v EXCEPT !.cx = v.cx + 1, !.fy = v.fy % 4]
      BY <1>2, <2>3 DEF AddColumn
    <3>2. v.cx + 1 \in 0 .. Cols - 1 /\ v.fy % 4 \in 0 .. TileSize - 1
      BY <2>3 DEF Address, TileSize
    <3> QED
      BY <3>1, <3>2 DEF Address
  <2> QED
    BY <2>2, <2>3
<1> QED
  BY <1>1, <1>2 DEF StepAddress

\* So does every register write into temp_addr.
LEMMA WriteType ==
  ASSUME NEW t \in Address
  PROVE  /\ \A nx, ny \in {0, 1} : SelectNameTable(t, nx, ny) \in Address
         /\ \A s \in Scroll : /\ ScrollFirst(t, s) \in Address
                              /\ ScrollSecond(t, s) \in Address
         /\ \A a \in BusAddress : /\ AddrFirst(t, a) \in Address
                                  /\ AddrSecond(t, a) \in Address
<1>1. ASSUME NEW nx \in {0, 1}, NEW ny \in {0, 1},
             NEW w, w = SelectNameTable(t, nx, ny)
      PROVE  w \in Address
  BY <1>1 DEF SelectNameTable, Address
<1>2. ASSUME NEW s \in Scroll,
             NEW w, w = ScrollFirst(t, s) \/ w = ScrollSecond(t, s)
      PROVE  w \in Address
  BY <1>2 DEF ScrollFirst, ScrollSecond, Scroll, Address
<1>3. ASSUME NEW a \in BusAddress,
             NEW w, w = AddrFirst(t, a) \/ w = AddrSecond(t, a)
      PROVE  w \in Address
  <2>1. ASSUME NEW i \in 0 .. RowCodes - 1, NEW j \in 0 .. RowCodes - 1
        PROVE  8 * (i \div 8) + (j % 8) \in 0 .. RowCodes - 1
    BY VramAddressAssumption
  <2>2. a \in Address
    BY DEF BusAddress
  <2>3. /\ 8 * (a.cy \div 8) + (t.cy % 8) \in 0 .. RowCodes - 1
        /\ 8 * (t.cy \div 8) + (a.cy % 8) \in 0 .. RowCodes - 1
    BY <2>1, <2>2 DEF Address
  <2>4. a.cx \in 0 .. Cols - 1 /\ a.nx \in {0, 1} /\ a.ny \in {0, 1}
        /\ a.fy \in 0 .. TileSize - 1
    BY <2>2 DEF Address
  <2> DEFINE high == 8 * (a.cy \div 8) + (t.cy % 8)
             low  == 8 * (t.cy \div 8) + (a.cy % 8)
  <2>5. CASE w = AddrFirst(t, a)
    <3>1. w = [t EXCEPT !.fy = a.fy, !.ny = a.ny, !.nx = a.nx, !.cy = high]
      BY <2>5 DEF AddrFirst
    <3>2. high \in 0 .. RowCodes - 1
      BY <2>3
    <3> HIDE DEF high
    <3> QED
      BY <3>1, <3>2, <2>4 DEF Address
  <2>6. CASE w = AddrSecond(t, a)
    <3>1. w = [t EXCEPT !.cx = a.cx, !.cy = low]
      BY <2>6 DEF AddrSecond
    <3>2. low \in 0 .. RowCodes - 1
      BY <2>3
    <3> HIDE DEF low
    <3> QED
      BY <3>1, <3>2, <2>4 DEF Address
  <2> QED
    BY <1>3, <2>5, <2>6
<1> QED
  BY <1>1, <1>2, <1>3

----------------------------------------------------------------------------
(* Type correctness.                                                       *)

\* The renderer leaves an address in vram_addr at every dot.
LEMMA ScrollAtType ==
  ASSUME TypeOK, NEW s, NEW c
  PROVE  ScrollAt(s, c) \in Address
<1>1. vram_addr \in Address /\ temp_addr \in Address
  BY DEF TypeOK
<1>2. /\ IncrementScrollX(vram_addr) \in Address
      /\ CopyHorizontalBits(vram_addr, temp_addr) \in Address
      /\ CopyVerticalBits(vram_addr, temp_addr) \in Address
  BY <1>1, ScrollType
<1>3. IncrementScrollY(IncrementScrollX(vram_addr)) \in Address
  BY <1>2, ScrollType
<1>4. VisibleScroll(c) \in Address
  BY <1>1, <1>2, <1>3 DEF VisibleScroll
<1>5. PrerenderScroll(c) \in Address
  BY <1>1, <1>2 DEF PrerenderScroll
<1> QED
  BY <1>1, <1>4, <1>5 DEF ScrollAt

\* The constants the geometry is built from are natural numbers.
LEMMA Geometry ==
  /\ ScreenWidth \in Nat /\ ScreenHeight \in Nat /\ HCopyDot \in Nat
  /\ ScreenWidth >= TileSize /\ ScreenHeight >= TileSize
  /\ ScreenHeight <= VBlankScanline /\ VBlankScanline < PrerenderScanline
  /\ PrerenderScanline = ScanlinesPerFrame - 1
  /\ PrerenderScanline \in Nat /\ ScanlinesPerFrame \in Nat
  /\ HCopyDot < VCopyFirst /\ VCopyFirst <= VCopyLast
  /\ VCopyLast < CyclesPerScanline /\ CyclesPerScanline \in Nat
  /\ VBlankScanline \in Nat /\ VCopyFirst \in Nat /\ VCopyLast \in Nat
BY VramAddressAssumption, PpuGeometry
   DEF ScreenWidth, ScreenHeight, HCopyDot, TileSize

LEMMA InitTypeOK == Init => TypeOK
<1>1. ZeroAddress \in Address
  BY VramAddressAssumption DEF ZeroAddress, Address, TileSize
<1>2. 0 \in 0 .. TileSize - 1 /\ 0 \in 0 .. CyclesPerScanline - 1
  BY Geometry DEF TileSize
<1>3. PrerenderScanline \in 0 .. ScanlinesPerFrame - 1
  BY Geometry
<1> QED
  BY <1>1, <1>2, <1>3 DEF Init, TypeOK

LEMMA NextTypeOK == TypeOK /\ [Next]_ppuVars => TypeOK'
<1> SUFFICES ASSUME TypeOK, [Next]_ppuVars PROVE TypeOK'
  OBVIOUS
<1> USE DEF TypeOK
<1>1. CASE Tick
  <2>1. cycle' \in 0 .. CyclesPerScanline - 1 /\ scanline' \in 0 .. ScanlinesPerFrame - 1
    BY <1>1, Geometry DEF Tick, AdvanceClock
  <2>2. vram_addr' \in Address
    BY <1>1, ScrollAtType DEF Tick
  <2>3. vblank' \in BOOLEAN /\ nmi_pending' \in BOOLEAN /\ frame_complete' \in BOOLEAN
    BY <1>1 DEF Tick
  <2> QED
    BY <1>1, <2>1, <2>2, <2>3 DEF Tick, control
<1>2. CASE ReadStatus
  BY <1>2 DEF ReadStatus, clock, control
<1>3. CASE WriteCtrl
  <2>1. PICK c \in CtrlValues :
          /\ nmi_enable' = c.nmi
          /\ by_row' = c.byRow
          /\ temp_addr' = SelectNameTable(temp_addr, c.nx, c.ny)
          /\ nmi_pending' = (nmi_pending \/ (~nmi_enable /\ c.nmi /\ vblank))
    BY <1>3 DEF WriteCtrl
  <2>2. c.nmi \in BOOLEAN /\ c.byRow \in BOOLEAN /\ c.nx \in {0, 1} /\ c.ny \in {0, 1}
    BY PpuInputs DEF Ctrl
  <2>3. temp_addr' \in Address
    BY <2>1, <2>2, WriteType
  <2>4. nmi_pending' \in BOOLEAN
    BY <2>1, <2>2
  <2> QED
    BY <1>3, <2>1, <2>2, <2>3, <2>4 DEF WriteCtrl, clock
<1>4. CASE WriteMask
  BY <1>4, PpuInputs DEF WriteMask, clock, scroll, events
<1>5. CASE WriteScroll
  <2>1. PICK s \in ScrollValues :
          IF write_latch
            THEN temp_addr' = ScrollSecond(temp_addr, s) /\ UNCHANGED fine_x
            ELSE temp_addr' = ScrollFirst(temp_addr, s) /\ fine_x' = s.fx
    BY <1>5 DEF WriteScroll
  <2>2. s \in Scroll /\ s.fx \in 0 .. TileSize - 1
    BY PpuInputs DEF Scroll
  <2>3. temp_addr' \in Address /\ fine_x' \in 0 .. TileSize - 1
    BY <2>1, <2>2, WriteType
  <2> QED
    BY <1>5, <2>3 DEF WriteScroll, clock, control, events
<1>6. CASE WriteAddr
  <2>1. PICK a \in AddrValues :
          IF write_latch
            THEN temp_addr' = AddrSecond(temp_addr, a) /\ vram_addr' = temp_addr'
            ELSE temp_addr' = AddrFirst(temp_addr, a) /\ UNCHANGED vram_addr
    BY <1>6 DEF WriteAddr
  <2>2. temp_addr' \in Address /\ vram_addr' \in Address
    BY <2>1, PpuInputs, WriteType
  <2> QED
    BY <1>6, <2>2 DEF WriteAddr, clock, control, events
<1>7. CASE AccessData
  BY <1>7, StepType DEF AccessData, clock, control, events
<1>8. CASE TakeNmi
  BY <1>8 DEF TakeNmi, clock, control, scroll
<1>9. CASE TakeFrame
  BY <1>9 DEF TakeFrame, clock, control, scroll
<1>10. CASE UNCHANGED ppuVars
  BY <1>10 DEF ppuVars, clock, control, scroll, events
<1> QED
  BY <1>1, <1>2, <1>3, <1>4, <1>5, <1>6, <1>7, <1>8, <1>9, <1>10
     DEF Next, Access

\* No sequence of ticks and register accesses takes a PPU field out of its
\* width (ppu_s, ppu_tick, ppu_read, ppu_write).
THEOREM TypeCorrect == Spec => []TypeOK
<1>1. Init => TypeOK
  BY InitTypeOK
<1>2. TypeOK /\ [Next]_ppuVars => TypeOK'
  BY NextTypeOK
<1> QED
  BY <1>1, <1>2, PTL DEF Spec

----------------------------------------------------------------------------
(* The vblank flag and the interrupt request.                              *)

\* A tick into vblank's first dot, or while inside and short of its end,
\* lands inside; nothing else raises the flag or moves the clock.
LEMMA NextWindow == TypeOK /\ VBlankInWindow /\ [Next]_ppuVars => VBlankInWindow'
<1> SUFFICES ASSUME TypeOK, VBlankInWindow, [Next]_ppuVars PROVE VBlankInWindow'
  OBVIOUS
<1> USE DEF VBlankInWindow
<1>1. CASE Tick
  <2>1. vblank' => \/ VBlankStarts(scanline', cycle')
                   \/ InVBlank /\ ~VBlankEnds(scanline', cycle')
    BY <1>1 DEF Tick
  <2>2. VBlankStarts(scanline', cycle') => InVBlank'
    BY DEF VBlankStarts, InVBlank
  <2>3. InVBlank /\ ~VBlankEnds(scanline', cycle') => InVBlank'
    <3>1. cycle \in 0 .. CyclesPerScanline - 1 /\ scanline \in 0 .. ScanlinesPerFrame - 1
      BY DEF TypeOK
    <3> QED
      BY <1>1, <3>1, Geometry DEF Tick, AdvanceClock, InVBlank, VBlankEnds
  <2> QED
    BY <2>1, <2>2, <2>3
<1>2. CASE ReadStatus
  BY <1>2 DEF ReadStatus
<1>3. CASE UNCHANGED <<clock, vblank>>
  BY <1>3 DEF clock, InVBlank
<1>4. WriteCtrl \/ WriteMask \/ WriteScroll \/ WriteAddr \/ AccessData
      \/ TakeNmi \/ TakeFrame \/ UNCHANGED ppuVars => UNCHANGED <<clock, vblank>>
  BY DEF WriteCtrl, WriteMask, WriteScroll, WriteAddr, AccessData, TakeNmi,
         TakeFrame, ppuVars, events
<1> QED
  BY <1>1, <1>2, <1>3, <1>4 DEF Next, Access

\* The vblank flag is never up outside the vertical blank.
THEOREM VBlankWindow == Spec => []VBlankInWindow
<1>1. Init => VBlankInWindow
  BY DEF Init, VBlankInWindow
<1>2. TypeOK /\ VBlankInWindow /\ [Next]_ppuVars => VBlankInWindow'
  BY NextWindow
<1> QED
  BY <1>1, <1>2, TypeCorrect, PTL DEF Spec

\* While the vblank flag is up no tick moves the address.
THEOREM UploadsUndisturbed == Spec => UploadWindow
<1>1. ASSUME TypeOK, VBlankInWindow, vblank, Tick PROVE UNCHANGED vram_addr
  <2>1. /\ cycle \in 0 .. CyclesPerScanline - 1 /\ scanline \in 0 .. ScanlinesPerFrame - 1
        /\ InVBlank
    BY <1>1 DEF TypeOK, VBlankInWindow
  <2>2. /\ scanline' >= ScreenHeight
        /\ scanline' = PrerenderScanline => cycle' \in {0, 1}
    BY <1>1, <2>1, Geometry DEF Tick, AdvanceClock, InVBlank
  <2>3. cycle' \in {0, 1} => PrerenderScroll(cycle') = vram_addr
    BY Geometry DEF PrerenderScroll, HCopyDot, TileSize
  <2>4. vram_addr' = ScrollAt(scanline', cycle')
    BY <1>1 DEF Tick
  <2>5. scanline' \in Nat
    BY <1>1, <2>1, Geometry DEF Tick, AdvanceClock
  <2> QED
    BY <2>2, <2>3, <2>4, <2>5, Geometry DEF ScrollAt
<1>2. TypeOK /\ VBlankInWindow /\ [Next]_ppuVars
        => [vblank /\ Tick => UNCHANGED vram_addr]_ppuVars
  BY <1>1
<1> QED
  BY <1>2, TypeCorrect, VBlankWindow, PTL DEF Spec, UploadWindow

\* Every step of the PPU is a step of the edge-triggered latch or leaves it
\* alone.  The tick that starts vblank rises the line only because the window
\* invariant says the flag was down before it.
LEMMA StepRefines == TypeOK /\ VBlankInWindow /\ [Next]_ppuVars => [Nmi!Next]_(Nmi!vars)
<1> SUFFICES ASSUME TypeOK, VBlankInWindow, [Next]_ppuVars
             PROVE  Nmi!Next \/ UNCHANGED <<NmiLine, nmi_pending>>
  BY DEF Nmi!vars
<1> USE DEF Nmi!Next, Nmi!Rise, Nmi!Fall, Nmi!Acknowledge, NmiLine
<1>0. vblank \in BOOLEAN /\ nmi_enable \in BOOLEAN /\ nmi_pending \in BOOLEAN
  BY DEF TypeOK
<1>1. CASE Tick
  <2>1. UNCHANGED nmi_enable
    BY <1>1 DEF Tick, control
  <2>2. CASE VBlankStarts(scanline', cycle')
    <3>1. ~vblank
      <4>1. cycle \in 0 .. CyclesPerScanline - 1 /\ scanline \in 0 .. ScanlinesPerFrame - 1
        BY DEF TypeOK
      <4>2. ~InVBlank
        BY <1>1, <2>2, <4>1, Geometry DEF Tick, AdvanceClock, InVBlank, VBlankStarts
      <4> QED
        BY <4>2 DEF VBlankInWindow
    <3>2. vblank' = TRUE /\ nmi_pending' = (nmi_pending \/ nmi_enable)
      BY <1>1, <2>2 DEF Tick
    <3> QED
      BY <1>0, <2>1, <3>1, <3>2
  <2>3. CASE ~VBlankStarts(scanline', cycle')
    <3>1. /\ vblank' = (vblank /\ ~VBlankEnds(scanline', cycle'))
          /\ UNCHANGED nmi_pending
      BY <1>1, <2>3 DEF Tick
    <3> QED
      BY <1>0, <2>1, <3>1
  <2> QED
    BY <2>2, <2>3
<1>2. CASE ReadStatus
  BY <1>0, <1>2 DEF ReadStatus, control
<1>3. CASE WriteCtrl
  <2>1. PICK c \in CtrlValues :
          /\ nmi_enable' = c.nmi
          /\ nmi_pending' = (nmi_pending \/ (~nmi_enable /\ c.nmi /\ vblank))
    BY <1>3 DEF WriteCtrl
  <2>2. c.nmi \in BOOLEAN
    BY PpuInputs DEF Ctrl
  <2>3. UNCHANGED vblank
    BY <1>3 DEF WriteCtrl
  <2> QED
    BY <1>0, <2>1, <2>2, <2>3
<1>4. CASE TakeNmi
  BY <1>4 DEF TakeNmi, control
<1>5. WriteMask \/ WriteScroll \/ WriteAddr \/ AccessData \/ TakeFrame \/ UNCHANGED ppuVars
        => UNCHANGED <<nmi_enable, vblank, nmi_pending>>
  BY DEF WriteMask, WriteScroll, WriteAddr, AccessData, TakeFrame, ppuVars, control, events
<1>6. CASE UNCHANGED <<nmi_enable, vblank, nmi_pending>>
  BY <1>6
<1> HIDE DEF Nmi!Next, NmiLine
<1> QED
  BY <1>1, <1>2, <1>3, <1>4, <1>5, <1>6 DEF Next, Access

\* The PPU implements the edge-triggered interrupt request of NmiEdge.
THEOREM NmiRefinement == Spec => NmiFollowsEdges
<1>1. Init => Nmi!Init
  BY DEF Init, Nmi!Init, NmiLine
<1>2. TypeOK /\ VBlankInWindow /\ [Next]_ppuVars => [Nmi!Next]_(Nmi!vars)
  BY StepRefines
<1> QED
  BY <1>1, <1>2, TypeCorrect, VBlankWindow, PTL DEF Spec, NmiFollowsEdges, Nmi!Spec

----------------------------------------------------------------------------
(* One increment is one column, or one row.                                *)

\* Moving right is one column further, and a line is too short to wrap twice.
LEMMA ColumnStep ==
  ASSUME NEW v \in Address, NEW t \in Address, NEW n \in 0 .. Cols - 1,
         AtColumn(v, t, n), NEW w, w = IncrementScrollX(v)
  PROVE  /\ AtColumn(w, t, n + 1)
         /\ w.cy = v.cy /\ w.ny = v.ny /\ w.fy = v.fy
<1>1. /\ w.cx = (IF v.cx = Cols - 1 THEN 0 ELSE v.cx + 1)
      /\ w.nx = (IF v.cx = Cols - 1 THEN 1 - v.nx ELSE v.nx)
      /\ w.cy = v.cy /\ w.ny = v.ny /\ w.fy = v.fy
  BY DEF IncrementScrollX, Address
<1>2. /\ v.cx \in 0 .. Cols - 1 /\ t.cx \in 0 .. Cols - 1
      /\ v.nx \in {0, 1} /\ t.nx \in {0, 1}
  BY DEF Address
<1> QED
  BY <1>1, <1>2, VramAddressAssumption DEF AtColumn

\* Moving down is one row further, and a picture is too short to wrap twice.
LEMMA RowStep ==
  ASSUME NEW v \in Address, NEW t \in Address, NEW n \in 0 .. ScreenHeight - 1,
         AtRow(v, t, n), NEW w, w = IncrementScrollY(v)
  PROVE  /\ AtRow(w, t, n + 1)
         /\ w.cx = v.cx /\ w.nx = v.nx
<1>1. CASE v.fy < TileSize - 1
  <2>1. /\ w.fy = v.fy + 1 /\ w.cy = v.cy /\ w.ny = v.ny
        /\ w.cx = v.cx /\ w.nx = v.nx
    BY <1>1 DEF IncrementScrollY, Address
  <2>2. v.fy \in Nat /\ t.fy \in Nat /\ v.cy \in Nat /\ t.cy \in Nat
    BY DEF Address, TileSize
  <2> QED
    BY <2>1, <2>2, VramAddressAssumption DEF AtRow, TileSize
<1>2. CASE v.fy = TileSize - 1
  <2>1. PICK u : u = [v EXCEPT !.fy = 0]
    OBVIOUS
  <2>2. w = NextCoarseY(u)
    BY <1>2, <2>1 DEF IncrementScrollY, TileSize
  <2>3. /\ u \in Address
        /\ u.cx = v.cx /\ u.cy = v.cy /\ u.nx = v.nx /\ u.ny = v.ny /\ u.fy = 0
    BY <2>1 DEF Address, TileSize
  <2>4. /\ w.cy = (IF v.cy \in {Rows - 1, RowCodes - 1} THEN 0 ELSE v.cy + 1)
        /\ w.ny = (IF v.cy = Rows - 1 THEN 1 - v.ny ELSE v.ny)
        /\ w.cx = v.cx /\ w.nx = v.nx /\ w.fy = 0
    BY <2>2, <2>3, VramAddressAssumption DEF NextCoarseY, Address
  <2>5. /\ v.cy \in 0 .. RowCodes - 1 /\ t.cy \in 0 .. RowCodes - 1
        /\ t.fy \in 0 .. 7 /\ v.ny \in {0, 1} /\ t.ny \in {0, 1} /\ v.fy = 7
    BY <1>2 DEF Address, TileSize
  <2>6. n \in 0 .. 8 * Rows - 1
    BY DEF ScreenHeight, TileSize
  <2>7. CASE v.cy = Rows - 1
    BY <2>4, <2>5, <2>6, <2>7, VramAddressAssumption DEF AtRow, TileSize
  <2>8. CASE v.cy = RowCodes - 1
    <3>1. v.cy # Rows - 1 /\ w.cy = 0 /\ w.ny = v.ny
      BY <2>4, <2>8, VramAddressAssumption
    <3> QED
      BY <2>4, <2>5, <2>6, <2>8, <3>1, VramAddressAssumption DEF AtRow, TileSize
  <2>9. CASE v.cy \notin {Rows - 1, RowCodes - 1}
    <3>1. w.cy = v.cy + 1 /\ w.ny = v.ny
      BY <2>4, <2>9
    <3> QED
      BY <2>4, <2>5, <2>6, <2>9, <3>1, VramAddressAssumption DEF AtRow, TileSize
  <2> QED
    BY <2>7, <2>8, <2>9
<1> QED
  BY <1>1, <1>2 DEF Address, TileSize

----------------------------------------------------------------------------
(* The reloads.                                                            *)

\* The horizontal reload goes back to the start column and keeps the row.
LEMMA HorizontalReload ==
  ASSUME NEW v \in Address, NEW t \in Address, NEW w, w = CopyHorizontalBits(v, t)
  PROVE  /\ AtColumn(w, t, 0)
         /\ \A n : AtRow(v, t, n) => AtRow(w, t, n)
<1>1. /\ w.cx = t.cx /\ w.nx = t.nx
      /\ w.cy = v.cy /\ w.ny = v.ny /\ w.fy = v.fy
  BY DEF CopyHorizontalBits, Address
<1>2. t.cx + 0 = t.cx
  BY DEF Address
<1> QED
  BY <1>1, <1>2 DEF AtColumn, AtRow

\* The vertical reload goes to the start row and keeps the column.
LEMMA VerticalReload ==
  ASSUME NEW v \in Address, NEW t \in Address, NEW w, w = CopyVerticalBits(v, t)
  PROVE  /\ AtRow(w, t, 0)
         /\ \A n : AtColumn(v, t, n) => AtColumn(w, t, n)
<1>1. /\ w.cx = v.cx /\ w.nx = v.nx
      /\ w.cy = t.cy /\ w.ny = t.ny /\ w.fy = t.fy
  BY DEF CopyVerticalBits, Address
<1>2. /\ t.cy \in 0 .. RowCodes - 1 /\ t.fy \in 0 .. 7
  BY DEF Address, TileSize
<1>3. AtRow(w, t, 0)
  BY <1>1, <1>2, VramAddressAssumption DEF AtRow, TileSize
<1> QED
  BY <1>1, <1>3 DEF AtColumn

----------------------------------------------------------------------------
(* A tick in the picture.                                                  *)

\* Each dot of a picture line moves the address to where the next one must be.
LEMMA PictureDot ==
  ASSUME TypeOK, Rendering, NEW s \in 0 .. ScreenHeight - 1,
         NEW c \in 0 .. CyclesPerScanline - 2,
         AtColumn(vram_addr, temp_addr, IF c <= ScreenWidth THEN c \div TileSize ELSE 0),
         AtRow(vram_addr, temp_addr, IF c < ScreenWidth THEN s ELSE s + 1),
         NEW w, w = VisibleScroll(c + 1)
  PROVE  /\ AtColumn(w, temp_addr,
                     IF c + 1 <= ScreenWidth THEN (c + 1) \div TileSize ELSE 0)
         /\ AtRow(w, temp_addr, IF c + 1 < ScreenWidth THEN s ELSE s + 1)
<1> DEFINE v == vram_addr
           t == temp_addr
           across == IncrementScrollX(v)
<1>1. v \in Address /\ t \in Address
  BY DEF TypeOK
<1>2. /\ ScreenWidth = 8 * Cols /\ Cols \in Nat \ {0} /\ HCopyDot = ScreenWidth + 1
      /\ TileSize = 8 /\ c \in Nat /\ s \in Nat
  BY Geometry, VramAddressAssumption DEF ScreenWidth, TileSize, HCopyDot
<1>3. ASSUME c + 1 <= ScreenWidth, (c + 1) % 8 = 0
      PROVE  /\ AtColumn(across, t, (c + 1) \div 8)
             /\ AtRow(across, t, s)
             /\ across \in Address
  <2>1. c \div 8 \in 0 .. Cols - 1 /\ (c + 1) \div 8 = c \div 8 + 1
    BY <1>2, <1>3
  <2>2. AtColumn(v, t, c \div 8) /\ AtRow(v, t, s)
    BY <1>2, <1>3
  <2>3. PICK a : a = across
    OBVIOUS
  <2>4. /\ AtColumn(a, t, c \div 8 + 1)
        /\ a.cy = v.cy /\ a.ny = v.ny /\ a.fy = v.fy
    BY <1>1, <2>1, <2>2, <2>3, ColumnStep
  <2>5. AtRow(a, t, s)
    BY <2>2, <2>4 DEF AtRow
  <2> QED
    BY <1>1, <2>1, <2>3, <2>4, <2>5, ScrollType
<1>4. CASE c + 1 = ScreenWidth
  <2>1. w = IncrementScrollY(across)
    BY <1>2, <1>4 DEF VisibleScroll
  <2>2. (c + 1) % 8 = 0
    BY <1>2, <1>4
  <2>3. /\ AtRow(w, t, s + 1)
        /\ w.cx = across.cx /\ w.nx = across.nx
    <3>1. AtRow(across, t, s) /\ across \in Address
      BY <1>3, <1>4, <2>2, <1>2
    <3> HIDE DEF across
    <3> QED
      BY <1>1, <2>1, <3>1, RowStep
  <2>4. AtColumn(w, t, (c + 1) \div 8)
    BY <1>2, <1>3, <1>4, <2>2, <2>3 DEF AtColumn
  <2> QED
    BY <1>2, <1>4, <2>3, <2>4
<1>5. CASE c + 1 < ScreenWidth /\ (c + 1) % 8 = 0
  <2>1. w = across
    BY <1>2, <1>5 DEF VisibleScroll
  <2> QED
    BY <1>2, <1>3, <1>5, <2>1
<1>6. CASE c + 1 < ScreenWidth /\ (c + 1) % 8 # 0
  <2>1. w = v
    BY <1>2, <1>6 DEF VisibleScroll
  <2>2. (c + 1) \div 8 = c \div 8
    BY <1>2, <1>6
  <2> QED
    BY <1>2, <1>6, <2>1, <2>2
<1>7. CASE c + 1 = HCopyDot
  <2>1. w = CopyHorizontalBits(v, t)
    BY <1>2, <1>7 DEF VisibleScroll
  <2>2. AtColumn(w, t, 0) /\ AtRow(w, t, s + 1)
    BY <1>1, <1>2, <1>7, <2>1, HorizontalReload
  <2> QED
    BY <1>2, <1>7, <2>2
<1>8. CASE c + 1 > HCopyDot
  <2>1. w = v
    BY <1>2, <1>8 DEF VisibleScroll
  <2> QED
    BY <1>2, <1>8, <2>1
<1> QED
  BY <1>2, <1>4, <1>5, <1>6, <1>7, <1>8

----------------------------------------------------------------------------
(* The invariant.                                                          *)

\* A tick enters the next dot of its line, or the first dot of the next line.
LEMMA ClockStep ==
  ASSUME TypeOK, Tick
  PROVE  /\ cycle' \in 0 .. CyclesPerScanline - 1
         /\ scanline' \in 0 .. ScanlinesPerFrame - 1
         /\ \/ cycle' = cycle + 1 /\ scanline' = scanline
            \/ /\ cycle = CyclesPerScanline - 1 /\ cycle' = 0
               /\ \/ scanline' = scanline + 1
                  \/ scanline = PrerenderScanline /\ scanline' = 0
BY Geometry DEF TypeOK, Tick, AdvanceClock

\* RasterInv survives every tick.
LEMMA TickRasterInv ==
  ASSUME TypeOK, RasterInv, RasterTick
  PROVE  RasterInv'
<1> SUFFICES ASSUME steady' PROVE Rendering' /\ InPosition'
  BY DEF RasterInv
<1> DEFINE v == vram_addr
           t == temp_addr
           w == vram_addr'
<1>1. /\ v \in Address /\ t \in Address
      /\ cycle \in 0 .. CyclesPerScanline - 1 /\ scanline \in 0 .. ScanlinesPerFrame - 1
  BY DEF TypeOK
<1>2. /\ temp_addr' = t /\ Rendering' = Rendering
      /\ w = ScrollAt(scanline', cycle')
  BY DEF RasterTick, Tick, control, Rendering
<1>3. Rendering
  BY DEF RasterTick, RasterInv
<1>4. ~(scanline' = PrerenderScanline /\ cycle' = HCopyDot) => InPosition
  BY DEF RasterTick, RasterInv
<1>5. /\ cycle' \in 0 .. CyclesPerScanline - 1
      /\ scanline' \in 0 .. ScanlinesPerFrame - 1
      /\ \/ cycle' = cycle + 1 /\ scanline' = scanline
         \/ /\ cycle = CyclesPerScanline - 1 /\ cycle' = 0
            /\ \/ scanline' = scanline + 1
               \/ scanline = PrerenderScanline /\ scanline' = 0
  BY ClockStep DEF RasterTick
<1>6. CASE scanline' = PrerenderScanline
  <2>1. w = PrerenderScroll(cycle') /\ ~(scanline' < ScreenHeight)
    BY <1>2, <1>3, <1>6, Geometry DEF ScrollAt
  <2>2. CASE cycle' < HCopyDot
    BY <1>5, <1>6, <2>1, <2>2, <1>2, <1>3, Geometry DEF InPosition
  <2>3. CASE cycle' = HCopyDot
    <3>1. w = CopyHorizontalBits(v, t)
      BY <2>1, <2>3, Geometry DEF PrerenderScroll
    <3>2. AtColumn(w, t, 0)
      BY <1>1, <3>1, HorizontalReload
    <3> QED
      BY <1>2, <1>3, <2>1, <2>3, <3>2, Geometry DEF InPosition
  <2>4. CASE cycle' > HCopyDot
    <3>1. scanline = PrerenderScanline /\ cycle' = cycle + 1 /\ cycle >= HCopyDot
      <4>1. cycle' # 0
        BY <2>4, Geometry
      <4> QED
        BY <1>1, <1>5, <1>6, <2>4, <4>1, Geometry
    <3>2. /\ AtColumn(v, t, 0)
          /\ cycle >= VCopyFirst => AtRow(v, t, 0)
      BY <1>4, <2>4, <3>1, Geometry DEF InPosition
    <3>3. CASE cycle' \in VCopyFirst .. VCopyLast
      <4>1. w = CopyVerticalBits(v, t)
        BY <2>1, <2>4, <3>3, Geometry DEF PrerenderScroll
      <4>2. AtRow(w, t, 0) /\ AtColumn(w, t, 0)
        BY <1>1, <3>2, <4>1, VerticalReload
      <4> QED
        BY <1>2, <1>3, <2>1, <4>2 DEF InPosition
    <3>4. CASE cycle' \notin VCopyFirst .. VCopyLast
      <4>1. w = v
        BY <2>1, <2>4, <3>4, Geometry DEF PrerenderScroll
      <4>2. cycle' >= VCopyFirst => cycle >= VCopyFirst
        <5>1. cycle' >= VCopyFirst => cycle' > VCopyLast
          BY <1>5, <3>4, Geometry
        <5> QED
          BY <1>1, <3>1, <5>1, Geometry
      <4> QED
        BY <1>2, <1>3, <2>1, <3>2, <4>1, <4>2 DEF InPosition
    <3> QED
      BY <3>3, <3>4
  <2> QED
    BY <1>5, <2>2, <2>3, <2>4, Geometry
<1>7. CASE scanline' < ScreenHeight
  <2>1. w = VisibleScroll(cycle') /\ scanline' # PrerenderScanline
    BY <1>2, <1>3, <1>7, Geometry DEF ScrollAt
  <2>2. InPosition
    BY <1>4, <2>1
  <2>3. CASE cycle' = 0
    <3>1. w = v
      BY <2>1, <2>3, Geometry DEF VisibleScroll, HCopyDot, TileSize
    <3>2. AtColumn(v, t, 0) /\ AtRow(v, t, scanline')
      <4>1. CASE scanline = PrerenderScanline
        BY <1>1, <1>5, <1>7, <2>1, <2>2, <2>3, <4>1, Geometry DEF InPosition
      <4>2. CASE scanline # PrerenderScanline
        <5>1. scanline' = scanline + 1 /\ cycle = CyclesPerScanline - 1
          BY <1>1, <1>5, <2>3, <4>2
        <5>2. scanline < ScreenHeight /\ cycle > ScreenWidth
          BY <1>1, <1>7, <5>1, Geometry DEF HCopyDot
        <5>3. ColumnsDone = 0 /\ LinesDone = scanline'
          BY <1>1, <5>1, <5>2, Geometry DEF ColumnsDone, LinesDone
        <5> QED
          BY <2>2, <5>2, <5>3 DEF InPosition
      <4> QED
        BY <4>1, <4>2
    <3>3. ColumnsDone' = 0 /\ LinesDone' = scanline'
      BY <2>3, Geometry DEF ColumnsDone, LinesDone, TileSize
    <3> QED
      BY <1>2, <1>3, <2>1, <3>1, <3>2, <3>3 DEF InPosition
  <2>4. CASE cycle' # 0
    <3>1. /\ cycle' = cycle + 1 /\ scanline' = scanline
          /\ cycle \in 0 .. CyclesPerScanline - 2
          /\ scanline \in 0 .. ScreenHeight - 1
      BY <1>1, <1>5, <1>7, <2>4, Geometry
    <3>2. /\ AtColumn(v, t, IF cycle <= ScreenWidth THEN cycle \div TileSize ELSE 0)
          /\ AtRow(v, t, IF cycle < ScreenWidth THEN scanline ELSE scanline + 1)
      BY <1>7, <2>2, <3>1 DEF InPosition, ColumnsDone, LinesDone
    <3>3. w = VisibleScroll(cycle + 1)
      BY <2>1, <3>1
    <3>4. /\ AtColumn(w, t, IF cycle + 1 <= ScreenWidth THEN (cycle + 1) \div TileSize ELSE 0)
          /\ AtRow(w, t, IF cycle + 1 < ScreenWidth THEN scanline ELSE scanline + 1)
      BY <1>3, <3>1, <3>2, <3>3, PictureDot
    <3> QED
      BY <1>2, <1>3, <2>1, <3>1, <3>4 DEF InPosition, ColumnsDone, LinesDone
  <2> QED
    BY <2>3, <2>4
<1>8. CASE scanline' # PrerenderScanline /\ ~(scanline' < ScreenHeight)
  BY <1>2, <1>3, <1>8 DEF InPosition
<1> QED
  BY <1>6, <1>7, <1>8

\* No register access, and nothing the console does, moves the raster clock.
LEMMA AccessKeepsClock == Access => UNCHANGED <<cycle, scanline>>
BY DEF Access, ReadStatus, WriteCtrl, WriteMask, WriteScroll, WriteAddr,
       AccessData, TakeNmi, TakeFrame, clock

\* RasterInv survives every access: one that disturbs the scroll clears steady.
LEMMA AccessRasterInv ==
  ASSUME RasterInv, RasterAccess
  PROVE  RasterInv'
<1> SUFFICES ASSUME steady' PROVE Rendering' /\ InPosition'
  BY DEF RasterInv
<1>1. /\ steady /\ Rendering'
      /\ UNCHANGED <<vram_addr, temp_addr, cycle, scanline>>
  BY AccessKeepsClock DEF RasterAccess
<1>2. InPosition
  BY <1>1 DEF RasterInv
<1> QED
  BY <1>1, <1>2 DEF InPosition, ColumnsDone, LinesDone

\* At every dot of every picture the scroll of which is left alone, the PPU
\* is at the tile and the row of that dot, for every size of the name tables.
THEOREM RasterCorrect == RasterSpec => []RasterPosition
<1>1. RasterInit => RasterInv /\ TypeOK
  BY InitTypeOK DEF RasterInit, RasterInv
<1>2. TypeOK /\ [RasterNext]_rasterVars => TypeOK'
  BY NextTypeOK DEF RasterNext, RasterTick, RasterAccess, Next, rasterVars
<1>3. TypeOK /\ RasterInv /\ [RasterNext]_rasterVars => RasterInv'
  <2> SUFFICES ASSUME TypeOK, RasterInv, [RasterNext]_rasterVars PROVE RasterInv'
    OBVIOUS
  <2>1. CASE UNCHANGED rasterVars
    BY <2>1 DEF rasterVars, ppuVars, clock, control, scroll, RasterInv,
                InPosition, ColumnsDone, LinesDone, Rendering
  <2> QED
    BY <2>1, TickRasterInv, AccessRasterInv DEF RasterNext
<1>4. RasterInv => RasterPosition
  BY DEF RasterInv, RasterPosition
<1> QED
  BY <1>1, <1>2, <1>3, <1>4, PTL DEF RasterSpec
=============================================================================
