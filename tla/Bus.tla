-------------------------------- MODULE Bus --------------------------------
(***************************************************************************)
(* The CPU's address space, bus.c: the console's RAM and its mirrors, the  *)
(* page of PPU registers, the cartridge's RAM and ROM, the sprite memory   *)
(* behind OAMADDR and OAMDATA, and the copy into it that a write to $4014  *)
(* starts.  The copy is one loop in the code; a step here is one byte of   *)
(* it, because each byte is a bus_read of its own.                         *)
(*                                                                         *)
(* Of the PPU's other registers PPUSTATUS is kept, for what a read of it   *)
(* clears; PpuMemory and Ppu have the rest.                                *)
(***************************************************************************)
EXTENDS Naturals, FiniteSets

CONSTANTS
  RamSize,    \* BUS_RAM_SIZE, 0x800; the other areas are multiples of it
  PageSize,   \* 256: bytes of a page, and of the sprite memory
  Byte,       \* bytes
  Roms,       \* program ROMs of cartridges, functions on 0 .. size - 1
  Targets,    \* addresses the program loads from and stores to
  Pages,      \* pages the program copies
  MaxStores   \* bound on the stores of a behaviour

RegStart    == 4 * RamSize
IoStart     == 8 * RamSize
PrgRamStart == 12 * RamSize
PrgRomStart == 16 * RamSize
AddressEnd  == 32 * RamSize
CpuAddress  == 0 .. AddressEnd - 1

\* Which part of the console answers.
\* Mutant: RAM has three images, not four.
IsRamShort(a) == a < RegStart - RamSize

IsRam(a)      == a < RegStart
IsRegister(a) == RegStart <= a /\ a < IoStart
IsPrgRam(a)   == PrgRamStart <= a /\ a < PrgRomStart
IsPrgRom(a)   == PrgRomStart <= a

RomSize(rom) == Cardinality(DOMAIN rom)

ASSUME BusAssumption ==
  /\ RamSize \in Nat \ {0} /\ PageSize \in Nat \ {0}
  /\ \E pages \in 1 .. RamSize : RamSize = pages * PageSize
  /\ (4 * RamSize) % 8 = 0
  /\ Byte \subseteq Nat /\ 0 \in Byte /\ 1 \in Byte
  /\ \A rom \in Roms : \E n \in 1 .. 16 * RamSize : rom \in [0 .. n - 1 -> Byte]
  /\ Targets \subseteq 0 .. 32 * RamSize - 1
  /\ \A page \in Pages : page \in Nat /\ (page + 1) * PageSize <= AddressEnd
  /\ MaxStores \in Nat

None == AddressEnd   \* no page

VARIABLES
  ram, prg_ram, prg_rom,
  oam, oam_addr,
  vblank,            \* PPUSTATUS
  dma_page, dma_i,   \* the copy under way, or None
  oam_dma_cycles,
  copied,            \* page that the sprite memory is a copy of, or None
  stores

memory  == <<ram, prg_ram, prg_rom>>
sprites == <<oam, oam_addr>>
dma     == <<dma_page, dma_i, oam_dma_cycles>>
bus_vars == <<memory, sprites, vblank, dma, copied, stores>>

\* bus_init, ppu_init, and a cartridge attached.  RAM is random: one choice.
BusInit ==
  /\ ram = [i \in 0 .. RamSize - 1 |-> 0]
  /\ prg_ram = [i \in 0 .. 4 * RamSize - 1 |-> 0]
  /\ prg_rom \in Roms
  /\ oam = [i \in 0 .. PageSize - 1 |-> 0] /\ oam_addr = 0
  /\ vblank = FALSE
  /\ dma_page = None /\ dma_i = 0 /\ oam_dma_cycles = 0
  /\ copied = None /\ stores = 0

----------------------------------------------------------------------------
(* bus_read: what memory and registers answer, and what a register read    *)
(* changes.                                                                *)

\* Of a bus with a loaded cartridge that has a program: the branches that answer
\* 0 without a cartridge, its RAM or its ROM are left out.
ReadMemory(a) ==
  CASE IsRam(a)    -> ram[a % RamSize]
    [] IsPrgRam(a) -> prg_ram[a - PrgRamStart]
    [] IsPrgRom(a) -> prg_rom[(a - PrgRomStart) % RomSize(prg_rom)]
    [] OTHER       -> 0

\* PPUDATA answers what the video memory holds: anything.
RegisterAnswers(a) ==
  CASE a % 8 = 2 -> {IF vblank THEN 1 ELSE 0}
    [] a % 8 = 4 -> {oam[oam_addr]}
    [] a % 8 = 7 -> Byte
    [] OTHER     -> {0}

Answers(a) == IF IsRegister(a) THEN RegisterAnswers(a) ELSE {ReadMemory(a)}

ReadEffect(a) == vblank' = (vblank /\ ~(IsRegister(a) /\ a % 8 = 2))

Idle == dma_page = None

\* A read by an instruction.
Read(a) ==
  /\ Idle /\ ReadEffect(a)
  /\ UNCHANGED <<memory, sprites, dma, copied, stores>>

----------------------------------------------------------------------------
(* bus_write.                                                              *)

\* Every other address takes no data: ROM, the expansion area, the APU.
WriteMemory(a, v) ==
  /\ ram' = (IF IsRam(a) THEN [ram EXCEPT ![a % RamSize] = v] ELSE ram)
  /\ prg_ram' = (IF IsPrgRam(a) THEN [prg_ram EXCEPT ![a - PrgRamStart] = v] ELSE prg_ram)

\* Mutant: OAMADDR does not wrap.
WriteSpritesUnwrapped(a, v) ==
  CASE IsRegister(a) /\ a % 8 = 3 -> oam_addr' = v % PageSize /\ UNCHANGED oam
    [] IsRegister(a) /\ a % 8 = 4 -> /\ oam' = [oam EXCEPT ![oam_addr] = v]
                                     /\ oam_addr' = oam_addr + 1
    [] OTHER                      -> UNCHANGED sprites

\* OAMADDR and OAMDATA.
WriteSprites(a, v) ==
  CASE IsRegister(a) /\ a % 8 = 3 -> oam_addr' = v % PageSize /\ UNCHANGED oam
    [] IsRegister(a) /\ a % 8 = 4 -> /\ oam' = [oam EXCEPT ![oam_addr] = v]
                                     /\ oam_addr' = (oam_addr + 1) % PageSize
    [] OTHER                      -> UNCHANGED sprites

Write(a, v) ==
  /\ Idle /\ stores < MaxStores /\ stores' = stores + 1
  /\ WriteMemory(a, v) /\ WriteSprites(a, v)
  /\ copied' = None
  /\ UNCHANGED <<prg_rom, vblank, dma>>

\* $4014: bus_oam_dma.
StartDma(page) ==
  /\ Idle /\ dma_page' = page /\ dma_i' = 0 /\ copied' = None
  /\ UNCHANGED <<memory, sprites, vblank, oam_dma_cycles, stores>>

\* Mutant: one byte of the page is left out.
CopyByteShort ==
  /\ dma_page # None
  /\ LET a == dma_page * PageSize + dma_i
     IN  /\ \E v \in Answers(a) : oam' = [oam EXCEPT ![dma_i] = v]
         /\ ReadEffect(a)
         /\ IF dma_i + 2 >= PageSize
              THEN dma_page' = None /\ oam_dma_cycles' = 513 /\ copied' = dma_page
              ELSE UNCHANGED <<dma_page, oam_dma_cycles, copied>>
  /\ dma_i' = (dma_i + 1) % PageSize
  /\ UNCHANGED <<memory, oam_addr, stores>>

\* oam_addr is neither used nor changed.
CopyByte ==
  /\ dma_page # None
  /\ LET a == dma_page * PageSize + dma_i
     IN  /\ \E v \in Answers(a) : oam' = [oam EXCEPT ![dma_i] = v]
         /\ ReadEffect(a)
  /\ IF dma_i + 1 = PageSize
       THEN dma_page' = None /\ oam_dma_cycles' = 513 /\ copied' = dma_page
       ELSE UNCHANGED <<dma_page, oam_dma_cycles, copied>>
  /\ dma_i' = (dma_i + 1) % PageSize
  /\ UNCHANGED <<memory, oam_addr, stores>>

\* The PPU raises the flag between two instructions.
RaiseVBlank ==
  /\ Idle /\ vblank' = TRUE
  /\ UNCHANGED <<memory, sprites, dma, copied, stores>>

BusNext ==
  \/ \E a \in Targets : Read(a)
  \/ \E a \in Targets, v \in Byte : Write(a, v)
  \/ \E page \in Pages : StartDma(page)
  \/ CopyByte
  \/ RaiseVBlank

BusSpec == BusInit /\ [][BusNext]_bus_vars

----------------------------------------------------------------------------
BusTypeOK ==
  /\ ram \in [0 .. RamSize - 1 -> Byte]
  /\ prg_ram \in [0 .. 4 * RamSize - 1 -> Byte]
  /\ prg_rom \in Roms
  /\ oam \in [0 .. PageSize - 1 -> Byte] /\ oam_addr \in 0 .. PageSize - 1
  /\ vblank \in BOOLEAN
  /\ dma_page \in Pages \cup {None} /\ copied \in Pages \cup {None}
  /\ dma_i \in 0 .. PageSize - 1
  /\ oam_dma_cycles \in {0, 513}
  /\ stores \in 0 .. MaxStores

\* The wiring, for reference: the four images of RAM, and the cartridge's RAM
\* byte for byte.
SharesCell(rom, a, b) ==
  \/ a < 4 * RamSize /\ b < 4 * RamSize /\ a % RamSize = b % RamSize
  \/ 12 * RamSize <= a /\ a < 16 * RamSize /\ a = b

BusMirror == INSTANCE MirroredMemory WITH
  Address <- CpuAddress,
  Value   <- Byte,
  Wired   <- SharesCell,
  board   <- prg_rom,
  mem     <- [a \in CpuAddress |-> ReadMemory(a)]

\* What the program keeps in memory is disturbed by nothing but its own writes:
\* not by a copy, whatever page it reads, and not by register accesses.
MemoryIsMirrored == BusMirror!Spec

\* A write is seen at every image of its cell, and at no other address.
StoresReachMirrors ==
  [][\A a \in Targets, v \in Byte : Write(a, v) => BusMirror!Write(a, v)]_bus_vars

\* After a copy the sprite memory is the page, from its first byte on, wherever
\* OAMADDR stood; a page of registers has no content to compare.
CopyIsComplete ==
  copied # None /\ ~IsRegister(copied * PageSize) =>
    \A i \in 0 .. PageSize - 1 : oam[i] = ReadMemory(copied * PageSize + i)

\* The program ROM answers everywhere above $8000: a small one repeats, so that
\* the vectors at the end of the address space are those at the end of the ROM.
VectorsAreInRom ==
  \A i \in 1 .. 6 : ReadMemory(AddressEnd - i) = prg_rom[RomSize(prg_rom) - i]

\* Programs may rely on the images of RAM and of the program ROM, whatever is
\* read, stored or copied in between.
BusIsMirrored == MemoryIsMirrored /\ StoresReachMirrors /\ []VectorsAreInRom
=============================================================================
