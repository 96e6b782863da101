----------------------------- MODULE MemoryProofs -----------------------------
(***************************************************************************)
(* The two address spaces, for memories of every size and cartridges with  *)
(* programs and patterns of every size.  Nothing is read or written        *)
(* outside a memory; each space is a memory of its board's images, which   *)
(* nothing but a store changes; a sprite copy is the whole page, although  *)
(* its loop reads registers and memory through the same function; and a    *)
(* run of reads through PPUDATA comes out in order.                        *)
(***************************************************************************)
EXTENDS MemorySpaces, Integers, FiniteSetTheorems, TLAPS

LEMMA Sizes ==
  /\ RamSize \in Nat /\ RamSize > 0
  /\ PageSize \in Nat /\ PageSize > 0
  /\ PrgRamStart = 12 * RamSize /\ PrgRomStart = 16 * RamSize
  /\ AddressEnd = 32 * RamSize
BY BusAssumption DEF PrgRamStart, PrgRomStart, AddressEnd

----------------------------------------------------------------------------
(* What memory answers is a byte.                                          *)

LEMMA RomBytes ==
  ASSUME NEW rom \in Roms, NEW i \in Nat
  PROVE  rom[i % RomSize(rom)] \in Byte
<1>1. PICK n \in 1 .. 16 * RamSize : rom \in [0 .. n - 1 -> Byte]
  BY BusAssumption
<1>2. n \in Nat /\ n > 0
  BY <1>1, Sizes
<1>3. RomSize(rom) = n
  <2>1. DOMAIN rom = 0 .. n - 1
    BY <1>1
  <2>2. Cardinality(0 .. n - 1) = n
    BY <1>2, FS_Interval
  <2> QED
    BY <2>1, <2>2 DEF RomSize
<1>4. i % n \in 0 .. n - 1
  BY <1>2
<1> QED
  BY <1>1, <1>3, <1>4

Memories ==
  /\ ram \in [0 .. RamSize - 1 -> Byte]
  /\ prg_ram \in [0 .. 4 * RamSize - 1 -> Byte]
  /\ prg_rom \in Roms

LEMMA MemoryBytes ==
  ASSUME Memories, NEW a \in CpuAddress
  PROVE  ReadMemory(a) \in Byte
<1>0. a \in Nat /\ a < 32 * RamSize /\ 0 \in Byte
  BY Sizes, BusAssumption DEF CpuAddress
<1>1. CASE IsRam(a)
  <2>1. a % RamSize \in 0 .. RamSize - 1
    BY <1>0, Sizes
  <2>2. ~IsPrgRam(a) /\ ~IsPrgRom(a)
    BY <1>0, <1>1, Sizes DEF IsRam, RegStart, IsPrgRam, IsPrgRom
  <2>3. ram[a % RamSize] \in Byte
    BY <2>1 DEF Memories
  <2> QED
    BY <1>1, <2>2, <2>3 DEF ReadMemory
<1>2. CASE ~IsRam(a) /\ IsPrgRam(a)
  <2>1. a - PrgRamStart \in 0 .. 4 * RamSize - 1
    BY <1>0, <1>2, Sizes DEF IsPrgRam
  <2>2. ~IsPrgRom(a)
    BY <1>0, <1>2, Sizes DEF IsPrgRam, IsPrgRom
  <2>3. prg_ram[a - PrgRamStart] \in Byte
    BY <2>1 DEF Memories
  <2> QED
    BY <1>2, <2>2, <2>3 DEF ReadMemory
<1>3. CASE ~IsRam(a) /\ ~IsPrgRam(a) /\ IsPrgRom(a)
  <2>1. a - PrgRomStart \in Nat
    BY <1>0, <1>3, Sizes DEF IsPrgRom
  <2>2. prg_rom[(a - PrgRomStart) % RomSize(prg_rom)] \in Byte
    BY <2>1, RomBytes DEF Memories
  <2> QED
    BY <1>3, <2>2 DEF ReadMemory
<1>4. CASE ~IsRam(a) /\ ~IsPrgRam(a) /\ ~IsPrgRom(a)
  BY <1>0, <1>4 DEF ReadMemory
<1> QED
  BY <1>1, <1>2, <1>3, <1>4

LEMMA AnswersBytes ==
  ASSUME Memories, oam \in [0 .. PageSize - 1 -> Byte], oam_addr \in 0 .. PageSize - 1,
         NEW a \in CpuAddress
  PROVE  Answers(a) \subseteq Byte
<1>1. {0, 1} \subseteq Byte
  BY BusAssumption
<1>2. RegisterAnswers(a) \subseteq Byte
  BY <1>1 DEF RegisterAnswers
<1> QED
  BY <1>2, MemoryBytes DEF Answers

----------------------------------------------------------------------------
(* Pages.                                                                  *)

LEMMA PageAddress ==
  ASSUME NEW page \in Pages, NEW i \in 0 .. PageSize - 1
  PROVE  page \in Nat /\ page * PageSize + i \in CpuAddress
<1>1. page \in Nat /\ (page + 1) * PageSize <= AddressEnd
  BY BusAssumption
<1>2. (page + 1) * PageSize = page * PageSize + PageSize /\ page * PageSize \in Nat
  BY <1>1, Sizes
<1> QED
  BY <1>1, <1>2, Sizes DEF CpuAddress

\* Multiples of the page's size are not stepped over inside a page.
LEMMA PageBoundary ==
  ASSUME NEW size \in Nat, NEW p \in Nat, NEW q \in Nat, NEW i \in 0 .. size - 1,
         q * size <= p * size + i
  PROVE  q * size <= p * size
<1>1. CASE q <= p
  <2>1. PICK d \in Nat : p = q + d
    <3>1. p - q \in Nat /\ p = q + (p - q)
      BY <1>1
    <3> QED
      BY <3>1
  <2>2. p * size = q * size + d * size /\ d * size >= 0
    BY <2>1
  <2> QED
    BY <2>2
<1>2. CASE ~(q <= p)
  <2>1. PICK d \in Nat : q = p + 1 + d
    <3>1. q - p - 1 \in Nat /\ q = p + 1 + (q - p - 1)
      BY <1>2
    <3> QED
      BY <3>1
  <2>2. q * size = p * size + size + d * size /\ d * size >= 0
    BY <2>1
  <2> QED
    BY <2>2
<1> QED
  BY <1>1, <1>2

\* A page that does not begin among the registers has none.
LEMMA PageIsWhole ==
  ASSUME NEW page \in Pages, NEW i \in 0 .. PageSize - 1,
         IsRegister(page * PageSize + i)
  PROVE  IsRegister(page * PageSize)
<1>1. PICK k \in 1 .. RamSize : RamSize = k * PageSize
  BY BusAssumption
<1>2. page \in Nat /\ page * PageSize \in Nat
  BY PageAddress, Sizes
<1>3. 4 * RamSize <= page * PageSize + i /\ page * PageSize + i < 8 * RamSize
  BY DEF IsRegister, RegStart, IoStart
<1>4. 4 * k \in Nat /\ 4 * RamSize = (4 * k) * PageSize
  BY <1>1, Sizes
<1>5. (4 * k) * PageSize <= page * PageSize + i
  BY <1>3, <1>4
<1>6. 4 * RamSize <= page * PageSize
  <2> DEFINE q == 4 * k
  <2>1. q \in Nat /\ q * PageSize <= page * PageSize + i
    BY <1>4, <1>5
  <2>2. 4 * RamSize = q * PageSize
    BY <1>4
  <2> HIDE DEF q
  <2>3. q * PageSize <= page * PageSize
    BY <1>2, <2>1, PageBoundary, Sizes
  <2> QED
    BY <2>2, <2>3
<1>7. page * PageSize < 8 * RamSize
  BY <1>2, <1>3, Sizes
<1> QED
  BY <1>6, <1>7 DEF IsRegister, RegStart, IoStart

----------------------------------------------------------------------------
(* Types.                                                                  *)

\* A read by an instruction changes the vblank flag and nothing else.
LEMMA ReadEffectType ==
  ASSUME NEW a, ReadEffect(a)
  PROVE  vblank' \in BOOLEAN
BY Zenon DEF ReadEffect

LEMMA WriteMemoryType ==
  ASSUME Memories, NEW a \in CpuAddress, NEW v \in Byte, WriteMemory(a, v),
         UNCHANGED prg_rom
  PROVE  Memories'
<1>1. a \in Nat
  BY Sizes DEF CpuAddress
<1>2. ram' \in [0 .. RamSize - 1 -> Byte]
  <2>1. a % RamSize \in 0 .. RamSize - 1
    BY <1>1, Sizes
  <2> QED
    BY <2>1 DEF WriteMemory, Memories
<1>3. prg_ram' \in [0 .. 4 * RamSize - 1 -> Byte]
  BY DEF WriteMemory, Memories
<1> QED
  BY <1>2, <1>3 DEF Memories

LEMMA WriteSpritesType ==
  ASSUME oam \in [0 .. PageSize - 1 -> Byte], oam_addr \in 0 .. PageSize - 1,
         NEW a \in CpuAddress, NEW v \in Byte, WriteSprites(a, v)
  PROVE  oam' \in [0 .. PageSize - 1 -> Byte] /\ oam_addr' \in 0 .. PageSize - 1
<1> DEFINE AtAddr == IsRegister(a) /\ a % 8 = 3
           AtData == IsRegister(a) /\ a % 8 = 4
<1>1. v \in Nat
  BY BusAssumption
<1>2. v % PageSize \in 0 .. PageSize - 1 /\ (oam_addr + 1) % PageSize \in 0 .. PageSize - 1
  BY <1>1, Sizes
<1>3. CASE AtAddr
  BY <1>2, <1>3 DEF WriteSprites
<1>4. CASE ~AtAddr /\ AtData
  BY <1>2, <1>4 DEF WriteSprites
<1>5. CASE ~AtAddr /\ ~AtData
  BY <1>5 DEF WriteSprites, sprites
<1> QED
  BY <1>3, <1>4, <1>5

\* A turn of the copy's loop, as far as its bytes go.
LEMMA CopyByteType ==
  ASSUME BusTypeOK, CopyByte
  PROVE  BusTypeOK'
<1> DEFINE a == dma_page * PageSize + dma_i
<1>1. dma_page \in Pages /\ dma_i \in 0 .. PageSize - 1
  BY DEF BusTypeOK, CopyByte
<1>2. a \in CpuAddress
  BY <1>1, PageAddress
<1>3. Answers(a) \subseteq Byte
  BY <1>2, AnswersBytes DEF BusTypeOK, Memories
<1>4. oam' \in [0 .. PageSize - 1 -> Byte]
  <2>1. PICK v \in Answers(a) : oam' = [oam EXCEPT ![dma_i] = v]
    BY DEF CopyByte
  <2> QED
    BY <1>3, <2>1 DEF BusTypeOK
<1>5. vblank' \in BOOLEAN
  BY ReadEffectType DEF CopyByte
<1>6. dma_i' \in 0 .. PageSize - 1
  BY <1>1, Sizes DEF CopyByte
<1>7. dma_page' \in Pages \cup {None} /\ copied' \in Pages \cup {None} /\ oam_dma_cycles' \in {0, 513}
  BY <1>1 DEF CopyByte, BusTypeOK
<1>8. UNCHANGED <<ram, prg_ram, prg_rom, oam_addr, stores>>
  BY DEF CopyByte, memory
<1> QED
  BY <1>4, <1>5, <1>6, <1>7, <1>8 DEF BusTypeOK

\* Nothing is read or written outside a memory, and every byte is one.
THEOREM BusTypeCorrect == BusSpec => []BusTypeOK
<1>1. BusInit => BusTypeOK
  <2> SUFFICES ASSUME BusInit PROVE BusTypeOK
    OBVIOUS
  <2> USE DEF BusInit
  <2>1. 0 \in Byte /\ MaxStores \in Nat
    BY BusAssumption
  <2>2. Memories
    BY <2>1 DEF Memories
  <2>3. oam \in [0 .. PageSize - 1 -> Byte] /\ oam_addr \in 0 .. PageSize - 1
    BY <2>1, Sizes
  <2>4. vblank \in BOOLEAN
    OBVIOUS
  <2>5. dma_i \in 0 .. PageSize - 1 /\ stores \in 0 .. MaxStores
    BY <2>1, Sizes
  <2>6. dma_page = None /\ copied = None /\ oam_dma_cycles \in {0, 513}
    OBVIOUS
  <2> QED
    BY <2>2, <2>3, <2>4, <2>5, <2>6 DEF BusTypeOK, Memories
<1>2. BusTypeOK /\ [BusNext]_bus_vars => BusTypeOK'
  <2> SUFFICES ASSUME BusTypeOK, [BusNext]_bus_vars PROVE BusTypeOK'
    OBVIOUS
  <2> USE DEF BusTypeOK
  <2>0. Targets \subseteq CpuAddress
    BY BusAssumption, Sizes DEF CpuAddress
  <2>1. ASSUME NEW a \in Targets, Read(a) PROVE BusTypeOK'
    <3>1. vblank' \in BOOLEAN
      BY <2>1, ReadEffectType DEF Read
    <3> QED
      BY <2>1, <3>1 DEF Read, memory, sprites, dma
  <2>2. ASSUME NEW a \in Targets, NEW v \in Byte, Write(a, v) PROVE BusTypeOK'
    <3>1. Memories'
      BY <2>0, <2>2, WriteMemoryType DEF Write, Memories
    <3>2. oam' \in [0 .. PageSize - 1 -> Byte] /\ oam_addr' \in 0 .. PageSize - 1
      BY <2>0, <2>2, WriteSpritesType DEF Write
    <3>3. stores' \in 0 .. MaxStores
      BY <2>2, BusAssumption DEF Write
    <3> QED
      BY <2>2, <3>1, <3>2, <3>3 DEF Write, Memories, dma
  <2>3. ASSUME NEW page \in Pages, StartDma(page) PROVE BusTypeOK'
    BY <2>3, Sizes DEF StartDma, memory, sprites
  <2>4. ASSUME CopyByte PROVE BusTypeOK'
    BY <2>4, CopyByteType
  <2>5. ASSUME RaiseVBlank PROVE BusTypeOK'
    BY <2>5 DEF RaiseVBlank, memory, sprites, dma
  <2>6. ASSUME UNCHANGED bus_vars PROVE BusTypeOK'
    BY <2>6 DEF bus_vars, memory, sprites, dma
  <2> QED
    BY <2>1, <2>2, <2>3, <2>4, <2>5, <2>6 DEF BusNext
<1> QED
  BY <1>1, <1>2, PTL DEF BusSpec

----------------------------------------------------------------------------
(* The copy.  While it runs, the sprite memory before dma_i is the page's. *)

Copied(page, n) ==
  ~IsRegister(page * PageSize) =>
    \A i \in 0 .. n - 1 : oam[i] = ReadMemory(page * PageSize + i)

CopyInv ==
  /\ dma_page # None => copied = None /\ Copied(dma_page, dma_i)
  /\ copied # None => Copied(copied, PageSize)

LEMMA MemoryStays ==
  ASSUME UNCHANGED memory, NEW a
  PROVE  ReadMemory(a)' = ReadMemory(a)
BY Zenon DEF memory, ReadMemory, IsRam, IsPrgRam, IsPrgRom, RomSize

LEMMA CopyStays ==
  ASSUME UNCHANGED <<memory, oam>>, NEW page, NEW n, Copied(page, n)
  PROVE  Copied(page, n)'
<1> SUFFICES ASSUME ~IsRegister(page * PageSize), NEW i \in 0 .. n - 1
             PROVE  oam'[i] = ReadMemory(page * PageSize + i)'
  BY DEF Copied, IsRegister
<1>1. oam[i] = ReadMemory(page * PageSize + i)
  BY DEF Copied
<1>2. ReadMemory(page * PageSize + i)' = ReadMemory(page * PageSize + i)
  BY MemoryStays
<1> QED
  BY <1>1, <1>2

\* The bytes that are there stay, and what comes is the page's next byte.
LEMMA CopyGrows ==
  ASSUME BusTypeOK, CopyByte,
         NEW page \in Pages, dma_page = page,
         NEW n \in 0 .. PageSize - 1, dma_i = n,
         Copied(page, n)
  PROVE  Copied(page, n + 1)'
<1> DEFINE a == page * PageSize + n
<1> SUFFICES ASSUME ~IsRegister(page * PageSize), NEW i \in 0 .. n
             PROVE  oam'[i] = ReadMemory(page * PageSize + i)'
  BY DEF Copied, IsRegister
<1>1. ReadMemory(page * PageSize + i)' = ReadMemory(page * PageSize + i)
  BY MemoryStays DEF CopyByte
<1>2. oam' = [oam EXCEPT ![n] = ReadMemory(a)]
  <2>1. ~IsRegister(a)
    BY PageIsWhole
  <2>2. PICK b : b = dma_page * PageSize + dma_i /\ b = a
    OBVIOUS
  <2>3. PICK v \in Answers(b) : oam' = [oam EXCEPT ![dma_i] = v]
    BY <2>2 DEF CopyByte
  <2>4. ~IsRegister(b)
    BY <2>1, <2>2
  <2> HIDE DEF a
  <2>5. v = ReadMemory(b)
    BY <2>3, <2>4 DEF Answers
  <2>6. oam' = [oam EXCEPT ![n] = v]
    BY <2>3
  <2>7. ReadMemory(b) = ReadMemory(a)
    BY <2>2
  <2>8. v = ReadMemory(a)
    BY <2>5, <2>7
  <2> QED
    BY <2>6, <2>8
<1>3. n \in DOMAIN oam /\ i \in DOMAIN oam
  <2>1. DOMAIN oam = 0 .. PageSize - 1
    BY DEF BusTypeOK
  <2>2. i \in 0 .. PageSize - 1
    BY Sizes
  <2> QED
    BY <2>1, <2>2
<1>4. CASE i = n
  BY <1>1, <1>2, <1>3, <1>4
<1>5. CASE i # n
  <2>1. oam[i] = ReadMemory(page * PageSize + i)
    BY <1>5 DEF Copied
  <2> QED
    BY <1>1, <1>2, <1>3, <1>5, <2>1
<1> QED
  BY <1>4, <1>5

LEMMA CopyByteInv ==
  ASSUME BusTypeOK, CopyInv, CopyByte
  PROVE  CopyInv'
<1>1. PICK page \in Pages : page = dma_page
  BY DEF BusTypeOK, CopyByte
<1>2. PICK n \in 0 .. PageSize - 1 : n = dma_i
  BY DEF BusTypeOK
<1>3. Copied(page, n) /\ copied = None /\ page # None
  BY <1>1, <1>2 DEF CopyInv, CopyByte
<1>4. Copied(page, n + 1)'
  BY <1>1, <1>2, <1>3, CopyGrows
<1>5. CASE n + 1 = PageSize
  <2>1. dma_page' = None /\ copied' = page
    BY <1>1, <1>2, <1>5 DEF CopyByte
  <2>2. Copied(page, PageSize)'
    BY <1>4, <1>5
  <2> QED
    BY <2>1, <2>2 DEF CopyInv, Copied, IsRegister
<1>6. CASE n + 1 # PageSize
  <2>1. dma_page' = page /\ copied' = None
    BY <1>1, <1>2, <1>3, <1>6 DEF CopyByte
  <2>2. dma_i' = n + 1
    <3>1. n + 1 \in 0 .. PageSize - 1
      BY <1>6, Sizes
    <3>2. (n + 1) % PageSize = n + 1
      BY <3>1, Sizes
    <3> QED
      BY <1>2, <3>2 DEF CopyByte
  <2> QED
    BY <1>4, <2>1, <2>2 DEF CopyInv, Copied, IsRegister
<1> QED
  BY <1>5, <1>6

\* Everything but the copy leaves the sprite memory and the memory alone, or
\* forgets that there was a copy.
LEMMA CopyInvStays ==
  ASSUME BusTypeOK, CopyInv, UNCHANGED <<memory, oam, dma_page, dma_i, copied>>
  PROVE  CopyInv'
<1>1. ASSUME dma_page' # None
      PROVE  copied' = None /\ Copied(dma_page, dma_i)'
  <2>1. PICK page : page = dma_page
    OBVIOUS
  <2>2. PICK n : n = dma_i
    OBVIOUS
  <2>3. copied = None /\ Copied(page, n)
    BY <1>1, <2>1, <2>2 DEF CopyInv
  <2>4. Copied(page, n)'
    BY <2>3, CopyStays
  <2> QED
    BY <2>1, <2>2, <2>3, <2>4 DEF Copied, IsRegister
<1>2. ASSUME copied' # None
      PROVE  Copied(copied, PageSize)'
  <2>1. PICK page : page = copied
    OBVIOUS
  <2>2. Copied(page, PageSize)
    BY <1>2, <2>1 DEF CopyInv
  <2>3. Copied(page, PageSize)'
    BY <2>2, CopyStays
  <2> QED
    BY <2>1, <2>3 DEF Copied, IsRegister
<1> QED
  BY <1>1, <1>2 DEF CopyInv, None, AddressEnd

\* After a copy the sprite memory is the page, as long as the program writes
\* nothing: whatever the copy's reads did to the registers on the way.
THEOREM CopyComplete == BusSpec => []CopyIsComplete
<1>1. BusInit => CopyInv
  BY DEF BusInit, CopyInv
<1>2. BusTypeOK /\ CopyInv /\ [BusNext]_bus_vars => CopyInv'
  <2> SUFFICES ASSUME BusTypeOK, CopyInv, [BusNext]_bus_vars PROVE CopyInv'
    OBVIOUS
  <2>1. ASSUME NEW a \in Targets, Read(a) PROVE CopyInv'
    BY <2>1, CopyInvStays DEF Read, sprites, dma
  <2>2. ASSUME NEW a \in Targets, NEW v \in Byte, Write(a, v) PROVE CopyInv'
    BY <2>2 DEF Write, Idle, dma, CopyInv
  <2>3. ASSUME NEW page \in Pages, StartDma(page) PROVE CopyInv'
    BY <2>3 DEF StartDma, CopyInv, Copied
  <2>4. ASSUME CopyByte PROVE CopyInv'
    BY <2>4, CopyByteInv
  <2>5. ASSUME RaiseVBlank PROVE CopyInv'
    BY <2>5, CopyInvStays DEF RaiseVBlank, sprites, dma
  <2>6. ASSUME UNCHANGED bus_vars PROVE CopyInv'
    BY <2>6, CopyInvStays DEF bus_vars, sprites, dma
  <2> QED
    BY <2>1, <2>2, <2>3, <2>4, <2>5, <2>6 DEF BusNext
<1>3. CopyInv => CopyIsComplete
  BY DEF CopyInv, Copied, CopyIsComplete
<1> QED
  BY <1>1, <1>2, <1>3, BusTypeCorrect, PTL DEF BusSpec

----------------------------------------------------------------------------
(* Memory as a program sees it, from one end of the address space to the   *)
(* other: what a step of the bus does to it is a write of MirroredMemory,  *)
(* or nothing.                                                             *)

\* What a write leaves at each address.
LEMMA WriteSeen ==
  ASSUME BusTypeOK, NEW a \in CpuAddress, NEW v \in Byte, WriteMemory(a, v), UNCHANGED prg_rom,
         NEW b \in CpuAddress
  PROVE  ReadMemory(b)' = IF SharesCell(prg_rom, a, b) THEN v ELSE ReadMemory(b)
<1>1. a \in Nat /\ a < 32 * RamSize /\ b \in Nat /\ b < 32 * RamSize
  BY Sizes DEF CpuAddress
<1>2. a % RamSize \in 0 .. RamSize - 1 /\ b % RamSize \in 0 .. RamSize - 1
  BY <1>1, Sizes
<1>3. /\ IsRam(a) <=> a < 4 * RamSize
      /\ IsRam(b) <=> b < 4 * RamSize
      /\ IsPrgRam(a) <=> 12 * RamSize <= a /\ a < 16 * RamSize
      /\ IsPrgRam(b) <=> 12 * RamSize <= b /\ b < 16 * RamSize
      /\ IsPrgRom(b) <=> 16 * RamSize <= b
  BY DEF IsRam, RegStart, IsPrgRam, IsPrgRom, PrgRamStart, PrgRomStart
<1>4. /\ ram \in [0 .. RamSize - 1 -> Byte] /\ prg_ram \in [0 .. 4 * RamSize - 1 -> Byte]
  BY DEF BusTypeOK
<1>5. CASE IsRam(b)
  <2>0. ~IsPrgRam(b) /\ ~IsPrgRom(b)
    BY <1>1, <1>3, <1>5, Sizes
  <2>1. ReadMemory(b) = ram[b % RamSize] /\ ReadMemory(b)' = ram'[b % RamSize]
    BY <1>5, <2>0
       DEF ReadMemory, IsRam, RegStart, IsPrgRam, IsPrgRom, PrgRamStart, PrgRomStart
  <2>2. SharesCell(prg_rom, a, b) <=> IsRam(a) /\ a % RamSize = b % RamSize
    BY <1>1, <1>3, <1>5, Sizes DEF SharesCell
  <2>3. ram' = IF IsRam(a) THEN [ram EXCEPT ![a % RamSize] = v] ELSE ram
    BY DEF WriteMemory
  <2>4. CASE IsRam(a)
    BY <1>2, <1>4, <2>1, <2>2, <2>3, <2>4
  <2>5. CASE ~IsRam(a)
    BY <2>1, <2>2, <2>3, <2>5
  <2> QED
    BY <2>4, <2>5
<1>6. CASE IsPrgRam(b)
  <2>1. ~IsRam(b) /\ ~IsPrgRom(b)
    BY <1>1, <1>3, <1>6, Sizes
  <2>2. ReadMemory(b) = prg_ram[b - PrgRamStart] /\ ReadMemory(b)' = prg_ram'[b - PrgRamStart]
    BY <1>6, <2>1 DEF ReadMemory, IsRam, RegStart, IsPrgRam, IsPrgRom, PrgRamStart, PrgRomStart
  <2>3. SharesCell(prg_rom, a, b) <=> IsPrgRam(a) /\ a = b
    BY <1>1, <1>3, <1>6, <2>1, Sizes DEF SharesCell
  <2>4. prg_ram' = IF IsPrgRam(a) THEN [prg_ram EXCEPT ![a - PrgRamStart] = v] ELSE prg_ram
    BY DEF WriteMemory
  <2>5. b - PrgRamStart \in 0 .. 4 * RamSize - 1
    BY <1>1, <1>3, <1>6, Sizes
  <2>6. CASE IsPrgRam(a)
    <3>1. a - PrgRamStart \in 0 .. 4 * RamSize - 1
      BY <1>1, <1>3, <2>6, Sizes
    <3>2. a - PrgRamStart = b - PrgRamStart <=> a = b
      BY <1>1, Sizes
    <3> QED
      BY <1>4, <2>2, <2>3, <2>4, <2>5, <2>6, <3>1, <3>2
  <2>7. CASE ~IsPrgRam(a)
    BY <2>2, <2>3, <2>4, <2>7
  <2> QED
    BY <2>6, <2>7
<1>7. CASE ~IsRam(b) /\ ~IsPrgRam(b)
  <2>1. ~SharesCell(prg_rom, a, b)
    BY <1>1, <1>3, <1>7, Sizes DEF SharesCell
  <2>2. ReadMemory(b)' = ReadMemory(b)
    BY <1>7, Zenon DEF ReadMemory, IsRam, RegStart, IsPrgRam, IsPrgRom, PrgRamStart, PrgRomStart, RomSize
  <2> QED
    BY <2>1, <2>2
<1> QED
  BY <1>5, <1>6, <1>7

LEMMA StoreIsMirrored ==
  ASSUME BusTypeOK, NEW a \in Targets, NEW v \in Byte, Write(a, v)
  PROVE  BusMirror!Write(a, v)
<1>1. a \in CpuAddress /\ WriteMemory(a, v) /\ UNCHANGED prg_rom
  BY BusAssumption, Sizes DEF CpuAddress, Write
<1>2. \A b \in CpuAddress :
        ReadMemory(b)' = IF SharesCell(prg_rom, a, b) THEN v ELSE ReadMemory(b)
  BY <1>1, WriteSeen
<1>3. [b \in CpuAddress |-> ReadMemory(b)]'
        = [b \in CpuAddress |-> IF SharesCell(prg_rom, a, b)
                                  THEN v ELSE [c \in CpuAddress |-> ReadMemory(c)][b]]
  BY <1>2 DEF CpuAddress, AddressEnd
<1> QED
  BY <1>1, <1>3 DEF BusMirror!Write

\* RAM's images, the cartridge's RAM and its ROM are a mirrored memory: reads,
\* copies of pages and what they do to the registers change nothing of it, and a
\* store is seen at the images of its cell and nowhere else.
THEOREM BusMirrors == BusSpec => MemoryIsMirrored /\ StoresReachMirrors
<1>1. BusInit => BusMirror!Init
  <2> SUFFICES ASSUME BusInit PROVE BusMirror!Init
    OBVIOUS
  <2>1. Memories
    BY BusAssumption, Sizes DEF BusInit, Memories
  <2>2. \A a \in CpuAddress : ReadMemory(a) \in Byte
    BY <2>1, MemoryBytes
  <2> QED
    BY <2>2 DEF BusMirror!Init
<1>2. ASSUME BusTypeOK, [BusNext]_bus_vars
      PROVE  [BusMirror!Next]_<<prg_rom, [a \in CpuAddress |-> ReadMemory(a)]>>
  <2>1. ASSUME NEW a \in Targets, NEW v \in Byte, Write(a, v) PROVE BusMirror!Next
    <3>1. a \in CpuAddress
      BY BusAssumption, Sizes DEF CpuAddress
    <3> QED
      BY <1>2, <2>1, <3>1, StoreIsMirrored DEF BusMirror!Next
  <2>2. ASSUME UNCHANGED memory
        PROVE  UNCHANGED <<prg_rom, [a \in CpuAddress |-> ReadMemory(a)]>>
    <3>1. \A a \in CpuAddress : ReadMemory(a)' = ReadMemory(a)
      BY <2>2, MemoryStays
    <3>2. [a \in CpuAddress |-> ReadMemory(a)]' = [a \in CpuAddress |-> ReadMemory(a)]
      BY <3>1 DEF CpuAddress, AddressEnd
    <3> QED
      BY <2>2, <3>2 DEF memory
  <2>3. UNCHANGED memory \/ \E a \in Targets, v \in Byte : Write(a, v)
    BY <1>2, Zenon DEF BusNext, Read, StartDma, CopyByte, RaiseVBlank, bus_vars
  <2> QED
    BY <2>1, <2>2, <2>3
<1>3. ASSUME BusTypeOK
      PROVE  [\A a \in Targets, v \in Byte : Write(a, v) => BusMirror!Write(a, v)]_bus_vars
  BY <1>3, StoreIsMirrored
<1> QED
  BY <1>1, <1>2, <1>3, BusTypeCorrect, PTL
     DEF BusSpec, MemoryIsMirrored, BusMirror!Spec, StoresReachMirrors

\* A program ROM that fills its space, or repeats in it without a rest, as
\* cartridges of one and two banks do.
WholeRoms ==
  /\ 6 <= 16 * RamSize
  /\ \A rom \in Roms : 6 <= RomSize(rom) /\ \E k \in Nat : 16 * RamSize = RomSize(rom) * k

LEMMA LastBytes ==
  ASSUME NEW n \in Nat, NEW k \in Nat, NEW i \in 1 .. 6, 6 <= n, 6 <= n * k
  PROVE  (n * k - i) % n = n - i
<1>1. k - 1 \in Nat /\ n * k - i = n * (k - 1) + (n - i)
  <2>1. k # 0
    BY SMT
  <2>2. k - 1 \in Nat
    BY <2>1
  <2>3. n * k = n * (k - 1) + n
    BY <2>2, SMT
  <2> QED
    BY <2>2, <2>3
<1> DEFINE q == k - 1
           r == n - i
<1>2. r \in 0 .. n - 1 /\ q \in Nat /\ n \in Nat \ {0}
  BY <1>1
<1>3. ASSUME NEW b \in Nat \ {0}, NEW x \in Int, NEW y \in 0 .. b - 1
      PROVE  (b * x + y) % b = y
  BY SMT
<1>4. n * k - i = n * q + r
  BY <1>1
<1> HIDE DEF q, r
<1>5. (n * q + r) % n = r
  BY <1>2, <1>3
<1> QED
  BY <1>4, <1>5 DEF r

\* With such a ROM the interrupt vectors at the end of the address space are
\* those at the end of the program, whatever its size, and all three facts hold
\* of the bus together.
THEOREM BusMirrorsRom ==
  ASSUME WholeRoms
  PROVE  BusSpec => BusIsMirrored
<1>1. BusTypeOK => VectorsAreInRom
  <2> SUFFICES ASSUME BusTypeOK, NEW i \in 1 .. 6
               PROVE  ReadMemory(AddressEnd - i) = prg_rom[RomSize(prg_rom) - i]
    BY DEF VectorsAreInRom
  <2> DEFINE n == RomSize(prg_rom)
  <2>1. PICK k \in Nat : 6 <= n /\ 16 * RamSize = n * k
    BY DEF WholeRoms, BusTypeOK
  <2>2. n \in Nat
    <3>1. PICK m \in 1 .. 16 * RamSize : prg_rom \in [0 .. m - 1 -> Byte]
      BY BusAssumption DEF BusTypeOK
    <3>2. m \in Nat /\ 0 <= m - 1 /\ DOMAIN prg_rom = 0 .. m - 1
      BY <3>1, Sizes
    <3>3. Cardinality(0 .. m - 1) = m
      BY <3>2, FS_Interval
    <3> QED
      BY <3>2, <3>3 DEF RomSize
  <2>3. /\ 6 <= 16 * RamSize /\ AddressEnd - i = 32 * RamSize - i
        /\ AddressEnd - i - PrgRomStart = 16 * RamSize - i
        /\ ~IsRam(AddressEnd - i) /\ ~IsPrgRam(AddressEnd - i) /\ IsPrgRom(AddressEnd - i)
    BY Sizes DEF WholeRoms, IsRam, IsPrgRam, IsPrgRom, RegStart
  <2>4. ReadMemory(AddressEnd - i) = prg_rom[(AddressEnd - i - PrgRomStart) % n]
    BY <2>3 DEF ReadMemory
  <2> HIDE DEF n
  <2>5. (n * k - i) % n = n - i
    BY <2>1, <2>2, <2>3, LastBytes
  <2> QED
    BY <2>1, <2>3, <2>4, <2>5 DEF n
<1> QED
  BY <1>1, BusMirrors, BusTypeCorrect, PTL DEF BusIsMirrored

----------------------------------------------------------------------------
(* The video memories.  A name table address is a page, of four, and a     *)
(* place in it: the cell it leads to is the place, in the page of the two  *)
(* that the board wires to it.                                             *)

LEMMA VideoSizes ==
  /\ TableSize \in Nat /\ TableSize > 0
  /\ PatternSpace = 8 * TableSize /\ MirrorStart = 12 * TableSize
  /\ VideoSpace = 16 * TableSize /\ VideoSpace \in Nat /\ PaletteStart \in Nat
  /\ 12 * TableSize <= PaletteStart /\ PaletteStart < VideoSpace
  /\ PaletteHalf \in Nat /\ PaletteHalf > 0
  /\ VideoAddress = 0 .. VideoSpace - 1
BY VideoMapAssumption
   DEF PatternSpace, MirrorStart, VideoSpace, PaletteStart, VideoAddress

LEMMA EitherPage ==
  ASSUME NEW m \in Mirroring, NEW k \in 0 .. 3
  PROVE  Page(m, k) \in {0, 1}
<1>1. k \in {0, 1, 2, 3}
  OBVIOUS
<1> QED
  BY <1>1 DEF Mirroring, Page

LEMMA TableCell ==
  ASSUME NEW m \in Mirroring, NEW a \in VideoAddress, IsTable(a)
  PROVE  /\ (a \div TableSize) % 4 \in 0 .. 3 /\ a % TableSize \in 0 .. TableSize - 1
         /\ mirror_nametable_addr(m, nametable_addr(a))
              = TableSize * Page(m, (a \div TableSize) % 4) + (a % TableSize)
<1> DEFINE q == a \div TableSize
           r == a % TableSize
           T == TableSize
<1>1. a \in Nat /\ 8 * T <= a /\ a < 16 * T /\ T \in Nat \ {0}
  BY VideoSizes DEF IsTable
<1>2. q \in Nat /\ r \in 0 .. T - 1 /\ a = T * q + r
  BY <1>1, SMT
<1> HIDE DEF q, r
<1>3. q \in 8 .. 15
  <2>1. T * q < T * 16 /\ T * 7 < T * q
    BY <1>1, <1>2
  <2>2. ASSUME NEW i \in Nat, NEW j \in Nat, T * i < T * j PROVE i < j
    <3>1. CASE j <= i
      <4>1. i - j \in Nat /\ T * (i - j) >= 0 /\ T * (i - j) = T * i - T * j
        BY <1>1, <3>1, SMT
      <4>2. T * i \in Int /\ T * j \in Int
        BY <1>1, SMT
      <4> QED
        BY <2>2, <4>1, <4>2
    <3> QED
      BY <3>1
  <2>3. q < 16 /\ 7 < q
    BY <1>2, <2>1, <2>2
  <2> QED
    BY <1>2, <2>3
<1> DEFINE k == q % 4
           n == T * k + r
<1>4. k \in 0 .. 3 /\ (q = 8 + k \/ q = 12 + k)
  BY <1>3
<1>5. n \in 0 .. 4 * T - 1 /\ (nametable_addr(a) = 4 * T * 2 + n)
  <2>1. k \in {0, 1, 2, 3}
    BY <1>4
  <2>2. q \in {8, 9, 10, 11, 12, 13, 14, 15}
    BY <1>3
  <2> HIDE DEF k
  <2>3. a = 8 * T + n \/ a = 12 * T + n
    BY <1>1, <1>2, <1>4, <2>1
  <2>4. n \in 0 .. 4 * T - 1
    BY <1>1, <1>2, <2>1
  <2> HIDE DEF n
  <2> QED
    BY <1>1, <2>3, <2>4, VideoSizes DEF nametable_addr
<1>6. nametable_addr(a) % (4 * T) = n
  <2>1. ASSUME NEW b \in Nat \ {0}, NEW s \in 0 .. b - 1 PROVE (b * 2 + s) % b = s
    BY SMT
  <2>2. 4 * T \in Nat \ {0} /\ n \in 0 .. (4 * T) - 1
    BY <1>1, <1>5
  <2> HIDE DEF n
  <2> QED
    BY <1>5, <2>1, <2>2
<1>7. n % T = r
  <2>1. ASSUME NEW b \in Nat \ {0}, NEW x \in Int, NEW s \in 0 .. b - 1 PROVE (b * x + s) % b = s
    BY SMT
  <2> QED
    BY <1>1, <1>2, <1>4, <2>1
<1>8. n % (2 * T) = T * (k % 2) + r
  <2>1. ASSUME NEW b \in Nat \ {0}, NEW x \in Int, NEW s \in 0 .. b - 1 PROVE (b * x + s) % b = s
    BY SMT
  <2>2. k \in {0, 1, 2, 3}
    BY <1>4
  <2> HIDE DEF k
  <2> DEFINE x == IF k < 2 THEN 0 ELSE 1
             s == T * (k % 2) + r
  <2>3. x \in Int /\ s \in 0 .. (2 * T) - 1 /\ n = 2 * T * x + s /\ 2 * T \in Nat \ {0}
    BY <1>1, <1>2, <2>2
  <2> HIDE DEF x, s, n
  <2>4. (2 * T * x + s) % (2 * T) = s
    BY <2>1, <2>3
  <2> QED
    BY <2>3, <2>4 DEF s
<1>9. n < 2 * T <=> k < 2
  <2>1. k \in {0, 1, 2, 3}
    BY <1>4
  <2> HIDE DEF k
  <2> QED
    BY <1>1, <1>2, <2>1
<1>10. mirror_nametable_addr(m, nametable_addr(a)) = T * Page(m, k) + r
  <2>1. k \in {0, 1, 2, 3} /\ r \in Int /\ T \in Int
    BY <1>1, <1>2, <1>4
  <2> HIDE DEF k, n
  <2>2. CASE m = "HORIZONTAL"
    <3>1. k \div 2 = IF k < 2 THEN 0 ELSE 1
      BY <2>1
    <3> QED
      BY <1>6, <1>7, <1>9, <2>1, <2>2, <3>1 DEF mirror_nametable_addr, Page
  <2>3. CASE m = "VERTICAL"
    BY <1>6, <1>8, <2>1, <2>3 DEF mirror_nametable_addr, Page
  <2>4. CASE m = "SINGLE_LOW"
    BY <1>6, <1>7, <2>1, <2>4 DEF mirror_nametable_addr, Page
  <2>5. CASE m = "SINGLE_HIGH"
    BY <1>6, <1>7, <2>1, <2>5 DEF mirror_nametable_addr, Page
  <2> QED
    BY <2>2, <2>3, <2>4, <2>5 DEF Mirroring
<1> QED
  BY <1>2, <1>4, <1>10 DEF q, r

\* Two name table addresses lead to one cell if the board says so, and only then.
LEMMA TablesShare ==
  ASSUME NEW m \in Mirroring, NEW a \in VideoAddress, NEW b \in VideoAddress,
         IsTable(a), IsTable(b)
  PROVE  /\ mirror_nametable_addr(m, nametable_addr(a)) \in 0 .. 2 * TableSize - 1
         /\ (mirror_nametable_addr(m, nametable_addr(a))
               = mirror_nametable_addr(m, nametable_addr(b))) <=> WiredTo(m, a, b)
<1> DEFINE x == Page(m, (a \div TableSize) % 4)
           y == Page(m, (b \div TableSize) % 4)
           r == a % TableSize
           s == b % TableSize
<1>1. /\ x \in {0, 1} /\ y \in {0, 1}
      /\ r \in 0 .. TableSize - 1 /\ s \in 0 .. TableSize - 1
      /\ mirror_nametable_addr(m, nametable_addr(a)) = TableSize * x + r
      /\ mirror_nametable_addr(m, nametable_addr(b)) = TableSize * y + s
  BY TableCell, EitherPage
<1>2. WiredTo(m, a, b) <=> r = s /\ x = y
  <2>1. ~IsPalette(a)
    BY VideoSizes DEF IsTable, IsPalette
  <2> QED
    BY <2>1, Zenon DEF WiredTo
<1> HIDE DEF x, y, r, s
<1>3. TableSize * x + r \in 0 .. 2 * TableSize - 1 /\ (TableSize * x + r = TableSize * y + s <=> r = s /\ x = y)
  BY <1>1, VideoSizes
<1> QED
  BY <1>1, <1>2, <1>3

LEMMA PalettesShare ==
  ASSUME NEW m \in Mirroring, NEW a \in VideoAddress, NEW b \in VideoAddress,
         IsPalette(a), IsPalette(b)
  PROVE  /\ palette_addr(a) \in 0 .. 2 * PaletteHalf - 1
         /\ palette_addr(a) = palette_addr(b) <=> WiredTo(m, a, b)
<1> DEFINE H == PaletteHalf
           p == (a - PaletteStart) % (2 * PaletteHalf)
           q == (b - PaletteStart) % (2 * PaletteHalf)
<1>1. p \in 0 .. 2 * H - 1 /\ q \in 0 .. 2 * H - 1 /\ H \in Nat \ {0} /\ H % 4 = 0
  <2>1. a - PaletteStart \in Nat /\ b - PaletteStart \in Nat
    BY VideoSizes DEF IsPalette
  <2>2. ASSUME NEW n \in Nat, NEW w \in Nat \ {0} PROVE n % w \in 0 .. w - 1
    BY SMT
  <2>3. 2 * H \in Nat \ {0}
    BY VideoSizes
  <2> QED
    BY <2>1, <2>2, <2>3, VideoSizes, VideoMapAssumption
<1>2. WiredTo(m, a, b) <=> SharedColour(p, q)
  <2>1. ~IsTable(a)
    BY VideoSizes DEF IsTable, IsPalette
  <2> QED
    BY <2>1, Zenon DEF WiredTo
<1>3. /\ palette_addr(a) = IF p >= H /\ p % 4 = 0 THEN p - H ELSE p
      /\ palette_addr(b) = IF q >= H /\ q % 4 = 0 THEN q - H ELSE q
  BY DEF palette_addr
<1> HIDE DEF H, p, q
<1>4. p % H = (IF p < H THEN p ELSE p - H) /\ q % H = (IF q < H THEN q ELSE q - H)
  <2>1. ASSUME NEW w \in Nat \ {0}, NEW n \in 0 .. 2 * w - 1
        PROVE  n % w = IF n < w THEN n ELSE n - w
    BY SMT
  <2> QED
    BY <1>1, <2>1
<1>5. /\ p >= H => ((p - H) % 4 = 0 <=> p % 4 = 0)
      /\ q >= H => ((q - H) % 4 = 0 <=> q % 4 = 0)
  BY <1>1
<1>6. SharedColour(p, q) <=>
        (p = q \/ (p % 4 = 0 /\ q % 4 = 0 /\ p % H = q % H))
  BY DEF SharedColour, H
<1> QED
  BY <1>1, <1>2, <1>3, <1>4, <1>5, <1>6 DEF H

----------------------------------------------------------------------------
(* What the video memory answers is a byte, from the part that an address  *)
(* is in.                                                                  *)

VideoBytes ==
  /\ mirroring \in Mirroring
  /\ vram \in [0 .. 2 * TableSize - 1 -> Value]
  /\ palette \in [0 .. 2 * PaletteHalf - 1 -> Value]

LEMMA VideoParts ==
  ASSUME NEW a \in VideoAddress
  PROVE  \/ a < PatternSpace /\ ~IsTable(a) /\ ~IsPalette(a)
         \/ ~(a < PatternSpace) /\ IsTable(a) /\ ~IsPalette(a)
         \/ ~(a < PatternSpace) /\ ~IsTable(a) /\ IsPalette(a)
BY VideoSizes DEF IsTable, IsPalette

LEMMA VideoReads ==
  ASSUME VideoBytes, NEW a \in VideoAddress
  PROVE  ppu_vram_read(a) \in Value
<1>1. CASE a < PatternSpace /\ ~IsTable(a) /\ ~IsPalette(a)
  <2>1. PICK size \in 0 .. PatternSpace : ChrRom \in [0 .. size - 1 -> Value]
    BY PpuMemoryAssumption
  <2>2. size \in Nat /\ a \in Nat /\ 0 \in Value
    BY <2>1, VideoSizes, PpuMemoryAssumption
  <2>3. ChrSize = size
    <3>1. DOMAIN ChrRom = 0 .. size - 1
      BY <2>1
    <3>2. Cardinality(0 .. size - 1) = size
      <4>1. CASE size = 0
        <5>1. 0 .. size - 1 = {}
          BY <4>1
        <5> QED
          BY <4>1, <5>1, FS_EmptySet
      <4>2. CASE size # 0
        BY <2>2, <4>2, FS_Interval
      <4> QED
        BY <4>1, <4>2
    <3> QED
      BY <3>1, <3>2 DEF ChrSize
  <2>4. size > 0 => a % size \in 0 .. size - 1
    BY <2>2
  <2>5. (IF ChrSize > 0 THEN ChrRom[a % ChrSize] ELSE 0) \in Value
    BY <2>1, <2>2, <2>3, <2>4
  <2> QED
    BY <1>1, <2>5 DEF ppu_vram_read
<1>2. CASE ~(a < PatternSpace) /\ IsTable(a) /\ ~IsPalette(a)
  <2>1. vram[mirror_nametable_addr(mirroring, nametable_addr(a))] \in Value
    BY <1>2, TablesShare DEF VideoBytes
  <2> QED
    BY <1>2, <2>1 DEF ppu_vram_read
<1>3. CASE ~(a < PatternSpace) /\ ~IsTable(a) /\ IsPalette(a)
  <2>1. palette[palette_addr(a)] \in Value
    BY <1>3, PalettesShare DEF VideoBytes
  <2> QED
    BY <1>3, <2>1 DEF ppu_vram_read
<1> QED
  BY <1>1, <1>2, <1>3, VideoParts

LEMMA VideoStays ==
  ASSUME UNCHANGED <<mirroring, vram, palette>>, NEW a
  PROVE  ppu_vram_read(a)' = ppu_vram_read(a)
BY Zenon DEF ppu_vram_read

\* What a write leaves at each address.
LEMMA VideoWriteSeen ==
  ASSUME VideoBytes, NEW a \in VideoAddress, NEW v \in Value, ppu_vram_write(a, v),
         UNCHANGED mirroring, NEW b \in VideoAddress
  PROVE  ppu_vram_read(b)' = IF WiredTo(mirroring, a, b) THEN v ELSE ppu_vram_read(b)
<1>1. CASE b < PatternSpace /\ ~IsTable(b) /\ ~IsPalette(b)
  <2>1. ~WiredTo(mirroring, a, b)
    BY <1>1, Zenon DEF WiredTo
  <2>2. ppu_vram_read(b)' = ppu_vram_read(b)
    BY <1>1, Zenon DEF ppu_vram_read
  <2> QED
    BY <2>1, <2>2
<1>2. CASE ~(b < PatternSpace) /\ IsTable(b) /\ ~IsPalette(b)
  <2> DEFINE at(c) == mirror_nametable_addr(mirroring, nametable_addr(c))
  <2>1. ppu_vram_read(b) = vram[at(b)] /\ ppu_vram_read(b)' = vram'[at(b)]
    BY <1>2, Zenon DEF ppu_vram_read
  <2>2. CASE IsTable(a)
    <3>1. at(a) \in 0 .. 2 * TableSize - 1 /\ at(b) \in 0 .. 2 * TableSize - 1
      BY <1>2, <2>2, TablesShare DEF VideoBytes
    <3>2. at(a) = at(b) <=> WiredTo(mirroring, a, b)
      BY <1>2, <2>2, TablesShare DEF VideoBytes
    <3>3. vram' = [vram EXCEPT ![at(a)] = v]
      BY <2>2 DEF ppu_vram_write
    <3> HIDE DEF at
    <3> QED
      BY <2>1, <3>1, <3>2, <3>3 DEF VideoBytes
  <2>3. CASE ~IsTable(a)
    <3>1. vram' = vram /\ ~WiredTo(mirroring, a, b)
      BY <1>2, <2>3, Zenon DEF ppu_vram_write, WiredTo
    <3> QED
      BY <2>1, <3>1
  <2> QED
    BY <2>2, <2>3
<1>3. CASE ~(b < PatternSpace) /\ ~IsTable(b) /\ IsPalette(b)
  <2>1. ppu_vram_read(b) = palette[palette_addr(b)]
        /\ ppu_vram_read(b)' = palette'[palette_addr(b)]
    BY <1>3, Zenon DEF ppu_vram_read
  <2>2. CASE IsPalette(a)
    <3>1. /\ palette_addr(a) \in 0 .. 2 * PaletteHalf - 1
          /\ palette_addr(b) \in 0 .. 2 * PaletteHalf - 1
      BY <1>3, <2>2, PalettesShare DEF VideoBytes
    <3>2. palette_addr(a) = palette_addr(b) <=> WiredTo(mirroring, a, b)
      BY <1>3, <2>2, PalettesShare DEF VideoBytes
    <3>3. palette' = [palette EXCEPT ![palette_addr(a)] = v]
      BY <2>2 DEF ppu_vram_write
    <3> QED
      BY <2>1, <3>1, <3>2, <3>3 DEF VideoBytes
  <2>3. CASE ~IsPalette(a)
    <3>1. palette' = palette /\ ~WiredTo(mirroring, a, b)
      BY <1>3, <2>3, Zenon DEF ppu_vram_write, WiredTo
    <3> QED
      BY <2>1, <3>1
  <2> QED
    BY <2>2, <2>3
<1> QED
  BY <1>1, <1>2, <1>3, VideoParts

----------------------------------------------------------------------------
(* PPUDATA.                                                                *)

Increment == IF by_row THEN ByRowStep ELSE 1

\* Where the address came from is found from where it is, also round the end.
LEMMA StepBack ==
  ASSUME NEW n \in Nat, NEW a \in 0 .. n - 1, NEW s \in 1 .. n
  PROVE  (a + s) % n \in 0 .. n - 1 /\ (((a + s) % n) + n - s) % n = a
<1>1. ASSUME NEW b \in Nat \ {0}, NEW x \in 0 .. 2 * b - 1
      PROVE  x % b = IF x < b THEN x ELSE x - b
  BY SMT
<1>2. n \in Nat \ {0} /\ a + s \in 0 .. 2 * n - 1
  OBVIOUS
<1>3. (a + s) % n = IF a + s < n THEN a + s ELSE a + s - n
  <2> DEFINE x == a + s
  <2>1. n \in Nat \ {0} /\ x \in 0 .. 2 * n - 1
    BY <1>2
  <2> HIDE DEF x
  <2>2. x % n = IF x < n THEN x ELSE x - n
    BY <1>1, <2>1
  <2> QED
    BY <2>2 DEF x
<1> DEFINE c == (a + s) % n
           y == c + n - s
<1>4. c \in 0 .. n - 1 /\ y \in 0 .. 2 * n - 1
  BY <1>3
<1>5. y % n = IF y < n THEN y ELSE y - n
  <2> HIDE DEF y
  <2> QED
    BY <1>1, <1>2, <1>4
<1>6. y % n = a
  <2>1. c = IF a + s < n THEN a + s ELSE a + s - n
    BY <1>3
  <2> HIDE DEF c
  <2>2. y = c + n - s /\ y \in Int
    BY <1>4
  <2> HIDE DEF y
  <2> QED
    BY <1>4, <1>5, <2>1, <2>2
<1> QED
  BY <1>4, <1>6

\* The byte that the read before this one left in the buffer.
Fetched(a) == ppu_vram_read(IF IsPalette(a) THEN a - 4 * TableSize ELSE a)

\* The buffer is one read behind: it holds what lies at the address before the
\* one that is next, under the palette if that was a colour.
VideoInv ==
  /\ TypeOK
  /\ primed => data_buffer = Fetched(PreviousAddress)

LEMMA FetchedIsByte ==
  ASSUME VideoBytes, NEW a \in VideoAddress
  PROVE  Fetched(a) \in Value
<1>1. IsPalette(a) => a - 4 * TableSize \in VideoAddress
  BY VideoSizes DEF IsPalette
<1> QED
  BY <1>1, VideoReads DEF Fetched

LEMMA StepsInSpace ==
  ASSUME vram_addr \in VideoAddress
  PROVE  /\ Increment \in 1 .. VideoSpace /\ NextAddress \in VideoAddress
         /\ (NextAddress + VideoSpace - Increment) % VideoSpace = vram_addr
<1>1. Increment \in 1 .. VideoSpace
  BY PpuMemoryAssumption, VideoSizes DEF Increment
<1>2. NextAddress = (vram_addr + Increment) % VideoSpace
  BY DEF NextAddress, Increment
<1> QED
  BY <1>1, <1>2, StepBack, VideoSizes

LEMMA ReadKeepsVideo ==
  ASSUME VideoInv, ReadData
  PROVE  VideoInv'
<1>1. /\ vram_addr \in VideoAddress /\ VideoBytes
      /\ UNCHANGED <<mirroring, vram, palette, by_row, writes>>
      /\ vram_addr' = NextAddress /\ primed' = TRUE
  BY DEF VideoInv, TypeOK, VideoBytes, ReadData
<1>2. data_buffer' = Fetched(vram_addr)
  BY DEF ReadData, Fetched
<1>3. data' \in Value
  BY <1>1, VideoReads DEF ReadData, VideoInv, TypeOK
<1>4. PreviousAddress' = vram_addr
  <2>1. PreviousAddress' = (vram_addr' + VideoSpace - Increment) % VideoSpace
    BY <1>1 DEF PreviousAddress, Increment
  <2> QED
    BY <1>1, <2>1, StepsInSpace
<1>5. \A a : Fetched(a)' = Fetched(a)
  BY <1>1, VideoStays DEF Fetched
<1>6. Fetched(PreviousAddress)' = Fetched(vram_addr)
  <2>1. PICK a : a = vram_addr
    OBVIOUS
  <2>2. Fetched(PreviousAddress)' = Fetched(a)'
    BY <1>4, <2>1 DEF Fetched, IsPalette, ppu_vram_read, IsTable
  <2> QED
    BY <1>5, <2>1, <2>2
<1>7. data_buffer' \in Value
  BY <1>1, <1>2, FetchedIsByte
<1> QED
  BY <1>1, <1>2, <1>3, <1>6, <1>7, StepsInSpace DEF VideoInv, TypeOK

LEMMA WriteKeepsVideo ==
  ASSUME VideoInv, NEW v \in Value, WriteData(v)
  PROVE  VideoInv'
<1>1. /\ vram_addr \in VideoAddress /\ VideoBytes /\ ppu_vram_write(vram_addr, v)
      /\ UNCHANGED <<mirroring, by_row, data_buffer, data>>
      /\ vram_addr' = NextAddress /\ primed' = FALSE
      /\ writes < MaxWrites /\ writes' = writes + 1
  BY DEF VideoInv, TypeOK, VideoBytes, WriteData
<1>2. vram' \in [0 .. 2 * TableSize - 1 -> Value] /\ palette' \in [0 .. 2 * PaletteHalf - 1 -> Value]
  BY <1>1 DEF ppu_vram_write, VideoBytes
<1>3. writes' \in 0 .. MaxWrites
  BY <1>1, PpuMemoryAssumption DEF VideoInv, TypeOK
<1> QED
  BY <1>1, <1>2, <1>3, StepsInSpace DEF VideoInv, TypeOK

LEMMA VideoInvariant == Spec => []VideoInv
<1>1. Init => VideoInv
  <2> SUFFICES ASSUME Init PROVE VideoInv
    OBVIOUS
  <2>1. 0 \in Value /\ 0 \in VideoAddress /\ 0 \in 0 .. MaxWrites
    BY VideoSizes, PpuMemoryAssumption
  <2>2. /\ vram \in [0 .. 2 * TableSize - 1 -> Value]
        /\ palette \in [0 .. 2 * PaletteHalf - 1 -> Value]
    BY <2>1 DEF Init
  <2>3. by_row \in BOOLEAN /\ primed \in BOOLEAN /\ ~primed
    BY Zenon DEF Init
  <2> QED
    BY <2>1, <2>2, <2>3 DEF Init, VideoInv, TypeOK
<1>2. VideoInv /\ [Next]_vars => VideoInv'
  <2> SUFFICES ASSUME VideoInv, [Next]_vars PROVE VideoInv'
    OBVIOUS
  <2>1. ASSUME SetAddress PROVE VideoInv'
    BY <2>1, PpuMemoryAssumption DEF SetAddress, VideoInv, TypeOK
  <2>2. ASSUME SetIncrement PROVE VideoInv'
    BY <2>2 DEF SetIncrement, VideoInv, TypeOK
  <2>3. ASSUME UNCHANGED vars PROVE VideoInv'
    <3>1. UNCHANGED <<mirroring, vram, palette, vram_addr, by_row, data_buffer, data,
                      primed, writes>>
      BY <2>3 DEF vars
    <3>2. Fetched(PreviousAddress)' = Fetched(PreviousAddress)
      BY <3>1, Zenon DEF Fetched, PreviousAddress, ppu_vram_read
    <3> QED
      BY <3>1, <3>2 DEF VideoInv, TypeOK
  <2> QED
    BY <2>1, <2>2, <2>3, ReadKeepsVideo, WriteKeepsVideo DEF Next
<1> QED
  BY <1>1, <1>2, PTL DEF Spec

LEMMA DataIsMirrored ==
  ASSUME VideoInv, NEW v \in Value, WriteData(v)
  PROVE  Mirrored!Write(vram_addr, v)
<1>1. VideoBytes /\ vram_addr \in VideoAddress /\ ppu_vram_write(vram_addr, v)
      /\ UNCHANGED mirroring
  BY DEF VideoInv, TypeOK, VideoBytes, WriteData
<1>2. \A b \in VideoAddress :
        ppu_vram_read(b)' = IF WiredTo(mirroring, vram_addr, b) THEN v ELSE ppu_vram_read(b)
  BY <1>1, VideoWriteSeen
<1>3. [b \in VideoAddress |-> ppu_vram_read(b)]'
        = [b \in VideoAddress |-> IF WiredTo(mirroring, vram_addr, b)
                                    THEN v ELSE [c \in VideoAddress |-> ppu_vram_read(c)][b]]
  BY <1>2 DEF VideoAddress, VideoSpace
<1> QED
  BY <1>1, <1>3 DEF Mirrored!Write

\* The video memory is a memory of its board's images, for name tables and
\* palettes of every size and in the four modes of Mirroring: a byte written
\* through PPUDATA is seen at every address the board wires to its cell, and at
\* no other.
THEOREM VideoMirrors == Spec => IsMirrored
<1>1. Init => Mirrored!Init
  <2> SUFFICES ASSUME Init PROVE Mirrored!Init
    OBVIOUS
  <2>1. VideoBytes
    BY VideoSizes, PpuMemoryAssumption DEF Init, VideoBytes
  <2>2. \A a \in VideoAddress : ppu_vram_read(a) \in Value
    BY <2>1, VideoReads
  <2> QED
    BY <2>2 DEF Mirrored!Init
<1>2. ASSUME VideoInv, [Next]_vars
      PROVE  [Mirrored!Next]_<<mirroring, [a \in VideoAddress |-> ppu_vram_read(a)]>>
  <2>1. ASSUME NEW v \in Value, WriteData(v) PROVE Mirrored!Next
    BY <1>2, <2>1, DataIsMirrored DEF Mirrored!Next, VideoInv, TypeOK
  <2>2. ASSUME UNCHANGED <<mirroring, vram, palette>>
        PROVE  UNCHANGED <<mirroring, [a \in VideoAddress |-> ppu_vram_read(a)]>>
    <3>1. \A a \in VideoAddress : ppu_vram_read(a)' = ppu_vram_read(a)
      BY <2>2, VideoStays
    <3>2. [a \in VideoAddress |-> ppu_vram_read(a)]' = [a \in VideoAddress |-> ppu_vram_read(a)]
      BY <3>1 DEF VideoAddress, VideoSpace
    <3> QED
      BY <2>2, <3>2
  <2>3. UNCHANGED <<mirroring, vram, palette>> \/ \E v \in Value : WriteData(v)
    BY <1>2, Zenon DEF Next, ReadData, SetAddress, SetIncrement, vars
  <2> QED
    BY <2>1, <2>2, <2>3
<1>3. ASSUME VideoInv
      PROVE  [\A v \in Value : WriteData(v) => Mirrored!Write(vram_addr, v)]_vars
  BY <1>3, DataIsMirrored
<1> QED
  BY <1>1, <1>2, <1>3, VideoInvariant, PTL
     DEF Spec, IsMirrored, SpaceIsMirrored, Mirrored!Spec, WritesReachMirrors

\* After one read that is thrown away a run of reads gets every byte below the
\* palette, in order: the buffer is one read behind, over the palette too.
THEOREM DownloadInOrder == Spec => DownloadIsInOrder
<1>1. ASSUME VideoInv, ReadData, primed, ~IsPalette(vram_addr)
      PROVE  data' = ppu_vram_read(IF IsPalette(PreviousAddress)
                                     THEN PreviousAddress - 4 * TableSize ELSE PreviousAddress)
  <2>1. data' = data_buffer
    BY <1>1 DEF ReadData
  <2> QED
    BY <1>1, <2>1 DEF VideoInv, Fetched
<1>2. ASSUME VideoInv
      PROVE  [ReadData /\ primed /\ ~IsPalette(vram_addr)
                => data' = ppu_vram_read(IF IsPalette(PreviousAddress)
                                           THEN PreviousAddress - 4 * TableSize
                                           ELSE PreviousAddress)]_vars
  BY <1>1, <1>2
<1> QED
  BY <1>2, VideoInvariant, PTL DEF Spec, DownloadIsInOrder

----------------------------------------------------------------------------
(* Both address spaces.                                                    *)

\* Nothing is read or written outside a memory of the console, through either
\* address space.
THEOREM MemoriesTypes == SpacesSpec => []MemoriesTypeOK
<1>1. SpacesInit => BusInit /\ Init
  BY DEF SpacesInit
<1>2. [SpacesNext]_spaces_vars => [BusNext]_bus_vars /\ [Next]_vars
  BY DEF SpacesNext, BusWorks, VideoWorks, spaces_vars
<1>3. SpacesSpec => BusSpec /\ Spec
  BY <1>1, <1>2, PTL DEF SpacesSpec, BusSpec, Spec
<1>4. BusTypeOK /\ VideoInv => MemoriesTypeOK
  BY DEF MemoriesTypeOK, VideoInv
<1> QED
  BY <1>3, <1>4, BusTypeCorrect, VideoInvariant, PTL
=============================================================================
