----------------------------- MODULE PpuMemory -----------------------------
(***************************************************************************)
(* The video memories behind PPUDATA: ppu_vram_read, ppu_vram_write and    *)
(* the DATA cases of ppu_read and ppu_write, with the read buffer.  The    *)
(* address is a number here; how PPUADDR and PPUSCROLL assemble it, and    *)
(* how the picture moves it, is Ppu's.                                     *)
(***************************************************************************)
EXTENDS VideoMap, FiniteSets

CONSTANTS
  Value,      \* bytes
  ChrRom,     \* the cartridge's pattern bytes, a function; empty: it has none
  ByRowStep,  \* 32
  Starts,     \* addresses the program sets; steps take it to the others
  MaxWrites   \* bound on the writes of a behaviour

ASSUME PpuMemoryAssumption ==
  /\ 0 \in Value
  /\ ByRowStep \in 1 .. VideoSpace /\ MaxWrites \in Nat
  /\ Starts \subseteq VideoAddress
  /\ \E size \in 0 .. PatternSpace : ChrRom \in [0 .. size - 1 -> Value]

VARIABLES
  mirroring, vram, palette,
  vram_addr, by_row, data_buffer,
  data,     \* what the latest PPUDATA read returned
  primed,   \* that read was at the address before this one, nothing written since
  writes    \* writes so far

vars == <<mirroring, vram, palette, vram_addr, by_row, data_buffer,
          data, primed, writes>>

ChrSize == Cardinality(DOMAIN ChrRom)

\* ppu_init zeroes everything; bus_attach_cart sets the mirroring.
Init ==
  /\ mirroring \in Mirroring
  /\ vram = [i \in 0 .. 2 * TableSize - 1 |-> 0]
  /\ palette = [i \in 0 .. 2 * PaletteHalf - 1 |-> 0]
  /\ vram_addr = 0 /\ by_row = FALSE /\ data_buffer = 0
  /\ data = 0 /\ primed = FALSE /\ writes = 0

----------------------------------------------------------------------------
ppu_vram_read(a) ==
  CASE a < PatternSpace -> IF ChrSize > 0 THEN ChrRom[a % ChrSize] ELSE 0
    [] IsTable(a)       -> vram[mirror_nametable_addr(mirroring, nametable_addr(a))]
    [] IsPalette(a)     -> palette[palette_addr(a)]

\* Writes to the pattern tables are dropped.
ppu_vram_write(a, v) ==
  /\ vram' = (IF IsTable(a)
                THEN [vram EXCEPT ![mirror_nametable_addr(mirroring, nametable_addr(a))] = v]
                ELSE vram)
  /\ palette' = (IF IsPalette(a)
                   THEN [palette EXCEPT ![palette_addr(a)] = v] ELSE palette)

NextAddress == (vram_addr + (IF by_row THEN ByRowStep ELSE 1)) % VideoSpace

\* Mutant: a palette read leaves the buffer as it is.
ReadDataPaletteOnly ==
  /\ IF IsPalette(vram_addr)
       THEN data' = ppu_vram_read(vram_addr) /\ UNCHANGED data_buffer
       ELSE data' = data_buffer /\ data_buffer' = ppu_vram_read(vram_addr)
  /\ primed' = TRUE
  /\ vram_addr' = NextAddress
  /\ UNCHANGED <<mirroring, vram, palette, by_row, writes>>

\* The palette answers at once, and leaves in the buffer the name table byte
\* that lies under it; everything else answers one read late.
ReadData ==
  /\ IF IsPalette(vram_addr)
       THEN /\ data' = ppu_vram_read(vram_addr)
            /\ data_buffer' = ppu_vram_read(vram_addr - 4 * TableSize)
       ELSE data' = data_buffer /\ data_buffer' = ppu_vram_read(vram_addr)
  /\ primed' = TRUE
  /\ vram_addr' = NextAddress
  /\ UNCHANGED <<mirroring, vram, palette, by_row, writes>>

WriteData(v) ==
  /\ writes < MaxWrites /\ writes' = writes + 1
  /\ ppu_vram_write(vram_addr, v)
  /\ primed' = FALSE
  /\ vram_addr' = NextAddress
  /\ UNCHANGED <<mirroring, by_row, data_buffer, data>>

\* Two PPUADDR writes.
SetAddress ==
  /\ vram_addr' \in Starts /\ primed' = FALSE
  /\ UNCHANGED <<mirroring, vram, palette, by_row, data_buffer, data, writes>>

\* A PPUCTRL write.
SetIncrement ==
  /\ by_row' = ~by_row /\ primed' = FALSE
  /\ UNCHANGED <<mirroring, vram, palette, vram_addr, data_buffer, data, writes>>

Next == \/ ReadData \/ SetAddress \/ SetIncrement
        \/ \E v \in Value : WriteData(v)

Spec == Init /\ [][Next]_vars

----------------------------------------------------------------------------
TypeOK ==
  /\ mirroring \in Mirroring
  /\ vram \in [0 .. 2 * TableSize - 1 -> Value]
  /\ palette \in [0 .. 2 * PaletteHalf - 1 -> Value]
  /\ vram_addr \in VideoAddress
  /\ by_row \in BOOLEAN /\ primed \in BOOLEAN
  /\ data_buffer \in Value /\ data \in Value
  /\ writes \in 0 .. MaxWrites

Mirrored == INSTANCE MirroredMemory WITH
  Address <- VideoAddress,
  Wired   <- WiredTo,
  board   <- mirroring,
  mem     <- [a \in VideoAddress |-> ppu_vram_read(a)]

\* The video address space is a mirrored memory: whatever mode the board has,
\* what a step changes are all the addresses of one cell, those above $3000 and
\* the shared colours included, and a read changes none.
SpaceIsMirrored == Mirrored!Spec

\* A byte written through PPUDATA is seen at every address of its cell: no
\* write above the pattern tables is lost, and none goes to an alias nobody reads.
WritesReachMirrors ==
  [][\A v \in Value : WriteData(v) => Mirrored!Write(vram_addr, v)]_vars

\* The video memory is a memory of its board's images, and PPUDATA reaches it.
IsMirrored == SpaceIsMirrored /\ WritesReachMirrors

\* The address of the previous read of a run.
PreviousAddress ==
  (vram_addr + VideoSpace - (IF by_row THEN ByRowStep ELSE 1)) % VideoSpace

\* A program that sets the address, throws one read away and then reads on
\* gets every byte below the palette, in order, down a row or down a column,
\* also when the run goes through the palette and round to the start.
DownloadIsInOrder ==
  [][ReadData /\ primed /\ ~IsPalette(vram_addr)
       => data' = ppu_vram_read(IF IsPalette(PreviousAddress)
                                  THEN PreviousAddress - 4 * TableSize
                                  ELSE PreviousAddress)]_vars
=============================================================================
