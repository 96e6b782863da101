# A verification development for the 6502/NES emulator

This directory models the emulator in `src/` in TLA+: its PPU and video memory,
its CPU, bus, cartridge and console loop, and the two programs around them, the
debugger and the trace tool, with the TLC runs that check them on small
instances and the TLAPS proofs that hold for every size. Paths below are
those of the repository (`src/ppu.c`, `README.md`).

## The system

The program is one thread. `nes_step` runs one CPU instruction, then three PPU
dots for each cycle of it, then collects what the PPU has raised: an interrupt
request and the end of a frame. Nothing runs in parallel, but the CPU and the
PPU share state through registers, and *when* in the frame an instruction
touches a register is up to the game. Most difficulties of the code come from
there, from state machines packed into bit fields, and from tables too long to
read. The two executables do not use `nes_step`: the debugger has a loop of its
own around `run_instruction` and `ppu_tick`, in which a user's keys come at any
time, and the trace tool steps the CPU beside a log, with files that may be
missing and a user who may not be there.

| component | state it keeps | operations | what makes it correct | modules |
|---|---|---|---|---|
| PPU timing, scroll, events (`ppu.c`) | raster clock, control and mask, write latch, two address registers, fine X, vblank flag, two event flags | `ppu_tick`, `ppu_read`, `ppu_write`, `ppu_frame_complete` | every dot is fetched from the right tile and row; vblank flag only in vblank; one interrupt request per rise of the line; no tick disturbs an upload | `VramAddress`, `BitWord`, `VramWord`, `Ppu`, `NmiEdge`, `PpuRaster` |
| PPU memory and pixels (`ppu.c`) | name tables, palette, read buffer | `ppu_vram_read/write`, PPUDATA, `render_pixel` | one cell per address in four of the five mirroring modes; palette aliases both ways; a run of reads comes out in order; a pixel's bits are those of its tile and square | `VideoMap`, `MirroredMemory`, `PpuMemory`, `PixelFetch` |
| console step (`nes.c`) | none of its own | `nes_step` | each event collected once, in the step that raised it; pictures and interrupts keep coming | `Nes`, `NesAccounting` |
| CPU table and timing (`cpu.c`, `cpu_defs.h`) | 256 entries, PC, cycle counter | `run_instruction`, addressing modes, branches | decodes, spends cycles and moves the PC as a 6502 does | `CpuWord`, `OpcodeTable`, `Mos6502`, `RunInstruction` |
| CPU stack and interrupts (`cpu.c`) | SP, page 1, STATUS | push, pop, JSR, RTS, BRK, NMI, RTI, PHA, PLA, PHP, PLP, TXS | what is pushed comes back in every nesting | `CpuWord`, `CpuStack`, `Lifo` |
| CPU arithmetic and operand fetch (`cpu.c`) | A, X, Y, flags, four globals | 56 operations, 13 modes | results and flags of a 6502 over numbers of several bytes; pointers wrap where a 6502's do; no operation reads a stale global | `CpuAlu`, `CpuWord`, `CpuAddressing`, `RunInstruction` |
| bus and OAM DMA (`bus.c`) | RAM, cartridge pointer, sprite memory, DMA cycles | `bus_read`, `bus_write`, `bus_oam_dma` | each store is seen at every image and nowhere else; a copy is the whole page; vectors come from the end of the ROM | `Bus`, `MirroredMemory` |
| loader (`ines.c`, `gamecart.c`) | the ROM's buffers | load, free | `ines_load` leaves a whole ROM or nothing; a cartridge owns what is allocated, also one refused for want of RAM, which keeps its ROM | `CartLoader` |
| debugger (`debugger.c`) | run, pause, step, quit and overlay flags; view positions | key handler, main loop, drawing | a paused program runs one instruction for each request, which may be answered late; keys stay alive whatever the program does | `Debugger`, `DebuggerView`, `DebuggedNes` |
| trace tool (`cpu_trace.c`) | options, files and buffers, counts of differences | `main` | with an error log, a verdict of success means that no line compared differed; every run ends; all that a run on a loaded cartridge opened is released | `CpuTrace` |

Interaction: `nes.c` calls the CPU and the PPU; the CPU reads and writes
through the bus, which calls `ppu_read`/`ppu_write` for $2000-$3FFF (their
effects included, also when the debugger draws memory) and the cartridge above
$6000; the PPU tells the console of events by two flags.

## The modules

### PPU

`VramAddress` is the video address as a record (coarse X and Y, two nametable
bits, fine Y) and everything that moves it: the increments with their wraps,
the two reloads, the register writes, and the PPUDATA step. Sizes are
constants: `Cols` and `Rows` tiles in a name table (32 and 30 in the code),
`RowCodes` values of coarse Y (32, so that rows 30 and 31 are the attribute
rows). `BusAddress` is the 14-bit subset PPUADDR can write.

`VramWord` writes the same moves as the C code does, with masks and shifts on
words. It walks all 2^15 words at the real sizes (`FirstWord`, `FollowingWord`;
before the walk there is `NoWord`) and shows the record operators equal to them
(`WordsAgree`: `MovesAgree` and `WritesAgree`), so everything else can be said of the records.
The operators `&`, `|`, `^` and `~` of C come from `BitWord`: a word is four
hexadecimal digits, a digit is four bits. The community module Bitwise computes
the same by recursion over the number of bits, which the prover cannot follow;
`BitWordAgrees`, an assumption that TLC evaluates in `MCMemories`, compares the
two on words with every digit in every place and on others that mix them.

`Ppu` has one variable per field of `ppu_s` that timing depends on. `Tick` is
`ppu_tick`: the clock, then what the dot it reached does. `ReadStatus`,
`WriteCtrl`, `WriteMask`, `WriteScroll`, `WriteAddr`, `AccessData` are the
cases of `ppu_read` and `ppu_write`; `TakeNmi` and `TakeFrame` are what the
console does to the event flags. Any access may come between any two ticks.
That is more than the code allows, where accesses come between instructions:
what holds here holds there. `NmiEdge` is the abstract specification of the
interrupt request, an edge-triggered latch on a line, and `NmiFollowsEdges`
says that `Ppu` implements it, the line being the NMI enable bit and the vblank
flag.

`PpuRaster` adds a history variable, `steady`: rendering has been on and the
scroll registers untouched since the last horizontal reload of the pre-render
line. `RasterPosition` then says where the renderer must be on every dot of the
picture, a position the code never computes.

### Video memory

`VideoMap` is the decoding: what cell of name table or palette an address
means, in four of the five mirroring modes (all but `MIRROR_FOUR_SCREEN`, and
the default of the switch, `ppu.c:114`; `gamecart.c:10` only ever sets the first
two), and what the hardware's wiring is, stated
separately as a relation (`WiredTo`). `PpuMemory` has the contents, the video
address, and PPUDATA's reads and writes with the read buffer.
`MirroredMemory` is the abstract specification of a memory with images: a step
changes all the addresses of one cell, to one value, or nothing. `PpuMemory`
implements it with its address space read through `ppu_vram_read`, `Bus` with
its own read through `bus_read`.

`PixelFetch` computes, for a dot of a background tile, the addresses that
`render_pixel` reads and the bits it takes. It has no variable of its own: it
looks at the word that `VramWord`'s walk has come to. Its properties compare the
addresses with the tile's and the square's coordinates.

### Bus

`Bus` decodes reads and writes as the `if` chains of `bus.c` do, with RAM of
`RamSize` and pages of `PageSize`. It has a loaded cartridge with a program: the
branches that answer 0 without one (`bus.c:48-70`) are left out. The PPU behind
the registers is reduced to the vblank flag and the sprite memory, which is what
the bus tells apart. `CopyByte` is one turn of `bus_oam_dma`'s loop; the loop is
not interruptible, so no other action is enabled during a copy. `MaxStores`
bounds the stores of a behaviour, `MaxWrites` those of `PpuMemory`.

`MemorySpaces` puts the CPU's address space and the PPU's side by side.

### Console

`Nes` extends `Ppu` with the program counter of `nes_step`: `DataFetch` (the
operand is read), `Execute` (the result is written), `TickPpu`, `Interrupt`,
`Report`. An instruction is the register it reads, the register it writes and
its cycles; which one comes next is left open. Stores read the register they
store to, as every memory addressing mode of `cpu.c` does. `NesAccounting` adds
counters, of cycles, dots and calls of `nmi`, for two statements of the
documentation.

`DebuggedNes` is the same console under `debugger_run`: the burst with its end
at a frame, the single step, and the memory view whose drawing reads PPU
registers. It reuses `DataFetch`, `Execute` and `TickPpu` of `Nes` and has its
own collection of events, which is where the two loops of the repository
differ. `PollsFindVBlank` says what the drawing does to the program: one that
polls PPUSTATUS finds vblank in frame after frame, and finds it no more while the
memory view shows PPUSTATUS.

### CPU

`CpuWord` is what the CPU's modules share: bytes that are digits to the base
`Radix` (256 in the code), and addresses of two of them.

`OpcodeTable` is `init_instruction_table`, entry by entry, in the sixteen rows
of the opcode matrix. `Mos6502` is written from the processor's encoding and
bus behaviour instead: what the bit fields of an opcode mean, and one cycle for
each access. `RunInstruction` is `run_instruction`: `DataFetch` takes an opcode
and lets its mode form the address, `Execute` is the rest. Operands, indices
and outcomes of branch tests are any; values and flags are left out. It also
keeps which of the four shared operand variables are of this instruction
(`OperandsAreFresh`).

`CpuAlu` has the arithmetic with its flags, on bytes of `2 * Half` values. It is
run as the short programs a 6502 is used with: an addition of several bytes
starts with CLC and chains ADC through the carry, and so on. What each program
must compute is then plain arithmetic on numbers, and a flag that is wrong for
one byte in a chain shows in the next. `CpuAddressing` stores a pointer byte by
byte and follows it with IND, IZX or IZY, on a memory of `Radix` pages.

`CpuStack` is the stack page with the two functions that move SP, and all
instructions that use them, `nmi`, and `irq`, which nothing raises yet. The
program is any program that pops what it pushed and has room for what it pushes
(`RoomFor`); `frames` is what it expects back. It starts as a reset leaves it,
and whenever its stack is empty it may load SP with one of `Tops`. `Lifo` is
what a stack promises; `IsLifo` says that the cells between
SP and the top implement it.

### Debugger, trace tool, loader

`Debugger` is one iteration of `debugger_run` after another: a batch of events
(`PressKey` under the overlay or outside it, `CloseWindow`), a burst or a step,
`Render`. The
program is only what its next opcode is: legal, illegal, or one of those that
the table leaves out, which neither move nor spend a cycle. Two history
variables: `last_key` is what the user pressed before, `answers` how often the
latest request for a step has been answered, by an instruction or by the
overlay. `DebuggerView` has the keys
that move the views and what the next drawing shows.

`CpuTrace` is `main` of `cpu_trace.c` after the options. It extends `CartLoader`,
because it is the loader's caller: the load and its failure, the question, the
other files and buffers one by one, the loop, the verdict, what is freed, the
exit status. A line of the log is "same", "different" or "unreadable"; `held` is
what is open or allocated.

`CartLoader` is `gamecart_load` with `ines_load_file` below it, one action for
each call that can fail, and `gamecart_free` of a cartridge in any condition.

## What the runs show

| run | module, cfg | checks | result |
|---|---|---|---|
| ppu_raster | `MCPpuRaster` | `RasterPosition` | holds |
| nes | `MCNes` | types, `VBlankInWindow`, `EventsDrained`, `NmiFollowsEdges`, `UploadWindow`, `EventsNotMerged`, `EventsKeepComing` (pictures and interrupts) | holds |
| debugged_nes | `MCDebuggedNes` | types, `FrameFoundInTime`, `PicturesKeepComing`, `PollsFindVBlank` | holds |
| cpu | `MCCpu` | types; table: `RunsAsEncoded` (instruction and cycles), `LandsOnInstruction`, `OperandsAreFresh`; stack: `FramesComeBack`, `IsLifo`; numbers: `ComputesNumbers` (sums, differences, signed overflow, order, shifts, counts); pointers: `PointersAreFollowed` | holds |
| memories | `MCMemories` | types; bus: `CopyIsComplete`, `BusIsMirrored` (images of RAM and ROM, stores); video: `IsMirrored`, `DownloadIsInOrder`; words: `WordsAgree`, `FetchesAreOfTile` | holds |
| debugger_loop | `MCDebugger` | types; loop: `OverlayHoldsProgram`, `StepsAreAskedFor`, `QuitRequestIsFresh`, `KeysAreHeeded`; views: `ViewsKeepRows` | holds |
| cpu_trace | `MCCpuTrace` | types; tool: `VerdictIsOfFirst`, `NothingLeftOpen`, `StopsAtDifference`, `PassedIsCompared`, `TraceEnds`; loader: `InesLoadsAllOrNothing` | holds |
| nes_store_twice | `MCNesAccounting`, `NesStore.cfg` | `StoreStepsOnce` | violated |
| nes_clock_drift | `MCNesAccounting`, `NesClock.cfg` | `ThreeDotsPerCycle` | violated |
| run_undocumented | `RunInstruction`, `RunUndocumented.cfg` | `UndocumentedContinue` | violated |
| cpu_stack_top | `CpuStack`, `StackTop.cfg` | `SubroutinesReturn` | violated |
| debugged_nmi | `MCDebuggedNes`, `DebuggedNmi.cfg` | `InterruptsAreTaken` | violated |

Several runs look at systems that have nothing to say to each other, side by
side: a behaviour chooses one of them in its first state and the others stay in
one initial state. `kind` chooses among the CPU's four kinds of programs,
`space` among the two memories and the words, `exercised` between the debugger's
loop and its views, `client` between the trace tool and any other caller of the
loader, and `repertoire` between programs that poll or take interrupts and
programs that upload. The states are those of the parts added up, and no part
loses any; what is checked of a part in the behaviours of another is its initial
state only.

The five violations are disagreements between the code and what the
repository says of it:

- A store to PPUDATA moves the address by two increments (`cpu.c`: `ABS`,
  `ABX` and the others read the effective address of stores too). `ppu.h:38`
  and `ppu_tests.c:653-670` expect one; the test calls `ppu_write` directly.
- The seven cycles of an NMI never reach the PPU (`nes.c:48`), so after each
  interrupt it is 21 dots further behind the cycle counter. `README.md:5` and
  `ARCHITECTURE.md:178` say cycle-accurate.
- Eleven undocumented opcodes have no entry in the table, no length and no
  cycles: the program stops there for ever, without the warning, and the PPU
  with it. `README.md:10` says that they log a warning and continue.
- `pop_byte` never reads $01FF (`cpu.c:2342`), `push_byte_to_stack` writes it:
  after `LDX #$FF, TXS` the first JSR does not return. `cpu_init` starts at
  $FD, where this does not show.
- Under the debugger, the only program of the build with a picture
  (`CMakeLists.txt:31`; the `emulator_main` of `README.md:26` is no target), no
  interrupt is ever taken: only `nes_step` collects `nmi_pending` and nothing calls it
  (`debugger.c:1234-1248`). `ppu.h:43` says "Generate NMI on vblank".

Seen while modelling, not run:

- SPACE and P in one batch of events leave `step_requested` set
  (`debugger.c:892`): the instruction runs at the next pause, when its user has
  long let the program go, and even after the overlay and its restart. No
  document says how long a request lasts; `StepsAreAskedFor` says that it is
  answered once.
- A paused console changes when the memory view shows $2000-$3FFF: it is drawn
  by `bus_read` (`debugger.c:587`). A running one never sees vblank then: the
  burst ends with the frame, and the drawing is the first to read the flag, so
  that a game which polls for it hangs as long as the view is open
  (`PollsFindVBlank`, second half).
- `debugger.c:1417` prints "CHR ROM: None (uses CHR RAM)"; there is none, and
  `ppu_vram_write` drops the writes (`ppu.c:162`).
- Nothing consumes the 513 cycles of a sprite copy (`bus.c:153`).
- Without its error log the trace tool compares nothing and prints PASSED
  (`cpu_trace.c:436`), and an empty log is PASSED as well; `PassedIsCompared` is
  about runs that have an error log, and about the lines that they compared.
- When the cartridge's RAM cannot be had (`gamecart.c:13`), `gamecart_load` fails
  and leaves the ROM allocated. `cpu_trace.c` then exits without
  `gamecart_free`, so `NothingLeftOpen` exempts that cartridge.
- It prints "PASSED: All opcodes (official + unofficial) correct" also when the
  run stopped inside the official part (`cpu_trace.c:522`), as with `-n 5003`.
- Its question is asked for ever when standard input is at its end
  (`cpu_trace.c:339`), so `./test` hangs where there is no terminal.

BRK pushes the address after its opcode, not the one after its padding byte;
`cpu_tests.c:102` expects that, so the model takes it as what the code means,
and `ComesBack` returns RTI there.

### Bounds

- `MCNes`: a table of 1 x 1 tiles, 11 dots a line, 11 lines a frame. vblank
  lasts two lines, 22 dots, every window has an inside and an outside, and a
  frame wraps. Instructions last 4 or 7 cycles with the stores' and loads'
  effects at the start, and an NMI no time, so that an instruction takes 12 or
  21 dots of the 121 and its end may fall on any dot of the frame: it may hold
  almost all of a vblank, and never two. A real frame is longer against an
  instruction, not shorter. Single ticks with accesses between any two of them,
  which the code does not have, are the theorems' business.
- `MCPpuRaster`: 2 x 1 tiles and seven attribute rows, 19 dots a line, 10 lines
  a frame. Both wraps of X, the wrap of Y out of the tiles and the wrap out of
  the attribute rows happen inside a picture.
- `MCCpu`: four pages of four bytes. The table, with all opcodes: offsets
  -2 .. 1 and indices 0 .. 3, so that every mode and branch crosses a page, or
  not, and the address space wraps. The stack: seven cells, room for five
  bytes: a call inside an interrupt and an interrupt inside a call; addresses
  of two digits with carries between them. Numbers: bytes of four bits, every
  pair of numbers of two of them: carries into, through and out of a byte, and
  both signs, occur. Pointers: all operands, indices and targets.
- `MCMemories`: words and pixels at the real sizes, none left out; the register
  bytes $5A and $A5, whose bits are complementary, so that each bit is written
  both ways; the first and the last pattern. Video memory: name tables of three
  cells, the smallest in which a run crosses one, and a palette of two times
  four; a run starts before a name table's end, before the palette and at the
  last address. The bus: RAM and a page of two bytes, so that the address space
  has the real proportions; targets and pages in every region and at its ends.
  `MaxStores` and `MaxWrites` bound the stores and so the contents.
- `MCDebuggedNes`: the frame of `MCNes`; a burst of three instructions, which is
  shorter than a frame and sometimes meets its end.
- `MCDebugger`: `MaxBatch` of two events, so that one may undo another, and
  bursts of two instructions; a view of 32 rows, of which three are shown.
- `MCCpuTrace`: two official lines and two others; `-n` inside, at and behind
  the log. The loader's file has up to two banks of each kind, units of
  different sizes, and every length up to one byte more than the largest header
  asks for; the trace tool's own file has two banks and one, and is whole or
  ends where the last bank would begin.
- `MCNesAccounting`: `MaxCpuCycles` ends the run, after the first vblank.
- `StackTop.cfg`: the pointer is loaded with the top of the page.

All of these bounds are lifted by the proofs, but for what only TLC checks: the
properties with fairness, and words and pixels, which are checked at their real
sizes.

### Fairness

Weak fairness only, and only of what the program does by itself:
`ProgramSpec` (the console), `FairDebuggedSpec`, `DebuggerSpec` (of the loop)
and `ClientSpec` (of the trace tool) have it of the whole next-state relation of
their loop. All four are loops that wait for nothing but a user, and each phase
has an enabled action, so this says only that the emulator is not switched off.
It does not say that a key is ever pressed: `Responsive` is about the loop
coming back to its keys. Nothing is assumed of the views or of another client
of the loader.

`NmiKeepsComing` asks besides that the program leaves NMI enabled from some
point on, `PicturesKeepComing` and `InterruptsAreTaken` that it is left
running, the first half of `PollsFindVBlank` that it also does nothing but poll
and that other memory is viewed. `TraceEnds` is about the tool once its question is answered. No
fairness is assumed of what the program under test does.

### Deadlock

Not checked where the system stops: in `MCMemories.cfg` the walk over all words
ends, in `MCCpu.cfg` the programs on numbers and pointers are done, and in
`MCDebugger.cfg` and `MCCpuTrace.cfg` the debugger, the trace tool and the
loader return. In `NesStore.cfg` and `NesClock.cfg` the violation is found
before the counter meets its bound.

## What is proved

The theorems about the PPU hold for every geometry that satisfies `PpuGeometry` and
`VramAddressAssumption` (any table size, any raster with the windows in the
order the code has them) and for every set of register values of the right
types (`PpuInputs`), the others for every value that the assumption of their
module allows (`NesInstructions`, `DebuggedAssumption`, `RadixAssumption`,
`MemoryAssumption`, `StackAssumption`, `AluAssumption`, `BusAssumption`,
`VideoMapAssumption`, `PpuMemoryAssumption`, `DebuggerAssumption`,
`ViewAssumption`, `CartAssumption`, `TraceAssumption`), all of them ranges of
sizes. A few theorems have a hypothesis of their own besides, `TopsBelowLast`,
`WholeRoms` or `RealSizes`, explained below.

`PpuProofs`:

- `TypeCorrect`, `Spec => []TypeOK`. The work is in `vram_addr`: lemmas
  `ScrollType`, `StepType` and `WriteType` say that each address operator stays
  inside the record type, `ScrollAtType` puts those of a tick together.
- `VBlankWindow`, `Spec => []VBlankInWindow`. Inductive with `TypeOK`: the flag
  rises only on the first dot of the window, and the clock cannot leave the
  window but through the dot that lowers the flag. `Geometry` gives the order of
  the lines.
- `UploadsUndisturbed`, `Spec => UploadWindow`: with the flag up the clock is
  in the window (previous theorem), and a tick from there reaches no line that
  moves the address.
- `NmiRefinement`, `Spec => NmiFollowsEdges`: initial states map to initial
  states, and `StepRefines` maps every step to one of `NmiEdge` or a stutter,
  one case for each action. It needs `VBlankInWindow`: otherwise the start of
  vblank might find the line already up, and request without an edge.
- `RasterCorrect`, `RasterSpec => []RasterPosition`. `RasterPosition` alone is
  not inductive: a steady program could have rendering off. `RasterInv` adds
  that it is on. `ColumnStep` and `RowStep` say that an increment is one column
  or one row of the ideal position (with the wraps), `HorizontalReload` and
  `VerticalReload` that the reloads put it back, `PictureDot` combines them for
  a dot of the picture, and `TickRasterInv` follows the clock.

`VramWordProofs`, about the words themselves, for every byte:

- `AddressArithmetic` and `AddressWordsAgree`, `WordSpec => []WordsAgree`, at the
  sizes the masks of `ppu.c` are written for (`RealSizes`: 32 by 30 tiles). The
  walk of the run pairs each word with one other; the first theorem holds for
  every two. The operators work digit by digit (`WordsMeet`), and the fields of an
  address lie within its digits, but for the two coarse ones, which straddle two
  (`Parts`, `PartsAreDigits`). From this each mask of the code is shown to keep the
  fields it is meant to (`PartsMasks`), an `|` of words without a common field to
  add them (`PartsJoin`), an `^` to flip a name table (`PartsFlip`). On the other
  side, one lemma for each operator of `VramAddress` says what fields it leaves
  (`MovedRight` to `AddressedSecond`), and one for each C expression that they are
  the same (`IncrementXAgrees` to `AddrAgrees`). Of the walk, only that it stays
  among the words an address register can hold is needed (`WordInv`).
- `AttributeIsOfPair` and `PixelFetches`, `WordSpec => []FetchesAreOfTile`, for
  every set of tile numbers. `NameAddress`, `AttributeAddress` and
  `AttributeShift` turn the masks and shifts of `render_pixel` into sums of fields,
  which are one-to-one; the attribute's is not a disjoint join of fields but of
  bits (0x23C0 and the square's row both have some of coarse y's). The first
  theorem is again for every two words, where the run compares those of fine y 0
  with seventeen others.

`ConsoleProofs`, for every set of instructions of up to seven cycles, run by
`nes_step`:

- `ConsoleUploads` and `ConsoleNmi`: two of the theorems above, of the console.
  They hold of it because `Nes` is made of `Ppu`'s actions (lemmas `StepsPpu` and
  `ConsoleDrivesPpu`, which say nothing about the code by themselves).
- `NoEventLeft`, `NesSpec => []EventsDrained`. Inductive once it is added that
  no request is left when the frame is reported (`Collected`).
- `NoEventMerged`, `NesSpec => EventsNotMerged`: one flag is enough for either
  event. While a request or a finished frame waits, the clock is still so far
  from the next vblank that the ticks left of the instruction do not reach it
  (`FarFromVBlank`); a raster has more dots in vblank, and outside it, than the
  longest instruction has ticks.
- `StoresTwice`, `AccountSpec => StoreStepsTwice`, and `ClocksDiffer`,
  `AccountSpec => []DriftIsInterrupts`: what holds instead of the two statements
  that `nes_store_twice` and `nes_clock_drift` refute. A store to `PPUDATA` that
  reads its operand there first, as the code's stores do, leaves the address two
  increments on (invariant `FetchedOnce`). The PPU is behind the cycles counted
  by three dots for each of the seven cycles of every call of `nmi`, counted by
  the history variable `interrupts`, and by nothing else; the invariant
  `Balanced` adds the ticks still owed inside an instruction. `AccountsOfNes`
  shows that counting changes nothing of what is counted.
- `ConsoleTypes`, `NesSpec => []NesTypeOK`: the PPU's types, and the countdown of
  ticks ends at 0.

and run by the debugger, for every length of a burst and content of the memory
view:

- `DebuggedUploads` and `DebuggedVBlank`: what the PPU's theorems say under this
  loop, in the same way.
- `LookingTakesVBlank`, of every view that reads PPUSTATUS: whenever the loop is
  back at its keys with the view open the flag is down, so that each burst begins
  without it. The invariant `FlagTaken` follows the drawing read by read: once
  PPUSTATUS was among the reads the flag is down, and no dot is run before the
  keys. This is the safety half of why `PollsFindVBlank` fails with the view
  open.
- `FrameFound`, `DebuggedSpec => []FrameFoundInTime`. The property looks at one
  phase; `FrameIsFresh` says for each phase of the loop which instruction a
  frame that is over can be from, and is inductive.
- `DebuggedTypesHold`, `DebuggedSpec => []DebuggedTypeOK`: no burst is longer
  than it was asked to be, and no instruction has more ticks than its cycles.

`DebuggerProofs`, for every `BurstLength` and `MaxBatch`, and every size of
memory that is a whole number of rows:

- `TypeCorrect`, `OverlayHolds`, `QuitRequestFresh` and `StepsAsked` of the
  loop. The first three are inductive with the type invariant, once a lemma each
  says what any one key does (`KeysKeepTypes`, `KeysKeepOverlay`,
  `KeysKeepQuitRequest`). `StepsAreAskedFor` is not: `StepInv` adds that a request
  which is still up has had no answer, and `KeysAndSteps` that a key asks afresh
  or leaves both alone.
- `ViewsStayInRows`, `ViewSpec => ViewsKeepRows`, which is not inductive: a view
  that stood inside a row could be drawn over the end of memory. `ViewInv` adds
  that the address is the start of a row (`RowStarts`); every key moves it by
  whole rows (`RowsAway`), and rows that wrap at the end of memory are still
  rows, each another (`RowsWrap`, `RowsDrawn`).
- `DebuggerTypes` and `DebuggerViews` say the same of the loop and the views
  together (`EachPart`).

`CpuAluProofs`, for every even number of values of a byte and any number of bytes:

- `Adds`, `Subtracts`, `Compares`, `ShiftsDigits`, with `TypeCorrect`. Lemmas such as
  `AddOne` and `SubtractOne` say what one operation does to one digit, an
  identity of remainders; `PlaceDigit` and `PlaceDifference` carry it to the
  digit's place. `Numbers`, the invariant, is the equations of all programs
  with the bounds that keep a digit out of the places before it.
- `OverflowSigned` and `CountsRight` need `SignedNumbers` besides: the sign of a
  number is that of its last digit (`DigitDecides`), and whether a signed result
  fits is decided there too (`FitsByDigit`).
- `Computes` is all of them together.

`CpuProofs`, for every size of byte and page:

- The table. `EntryFits` says what an entry must have: name, mode and length as
  the bits of its opcode say, base cycles equal to its bus accesses, the page
  penalty where a read can cross a page and nowhere else, and no operand read
  that the mode does not write. The lemmas `FitsRow0` to `FitsRowF` prove it of
  the entries, sixteen to a row, and `TableFits` of all 256. These are the only
  proofs by cases over data.
- `EncodedRuns`, `LandsRight`, `FreshOperands` and `InstructionTypes`, of every
  run of an instruction. `InstructionInv` is the type invariant with what
  `data_fetch` leaves to `execute`: the globals of the opcode's own mode, and a
  crossing exactly when the mode reports one and the pages differ. Then
  `SpendsWhatItAccesses` adds base cycles, branch and penalty
  (`BusCyclesSplit` splits the accesses the same way), and `LandsWhereItShould`
  shows that the program counter, moved in two steps and reduced each time, is
  the sum reduced once (`WrapsTwice`).
- `FramesReturn`, `PageIsLifo` and `StackTypes`. The property that what is
  popped is what was pushed is far from inductive. `StackInv` says where the
  frames are: there are positions (`Laid`), from SP to the top, between which
  the page holds one frame after the other (`Holds`). A push lays a frame on top
  (`LaysOnTop`) and disturbs none below (`HeldAbove`); a pop takes the head's
  cells (`HeadLies`, `LiesBelow`). That SP counts the frames needs an induction
  over the positions, which the provers cannot do by the library's rule; it is
  made of a set that holds 0 and every successor (`SetInduction`, from a
  well-founded minimum). `PageIsLifo` maps the cells between SP and the top
  (`Slice`) to `Lifo`, one byte a step.
- These three have the hypothesis `TopsBelowLast`: the program does not load the
  pointer with the last cell of the page, nor does reset. It is needed: the run
  `cpu_stack_top` shows a subroutine that does not return without it. The code's
  own reset value, $FD, satisfies it.
- `PointersFollowed`. The invariant `PointerInv` keeps each byte that is stored
  where the mode will look for it; `PointerCells` says which cells these are and
  that they are two (`NextRemainder`), whichever end they wrap round.
- `ProgramTypes`, of the four kinds of program together (`EachProgram`).

`MemoryProofs`, for every size of RAM that is a whole number of pages, every
program ROM that fits its area, and every size of name table, palette and
pattern ROM:

- `BusTypeCorrect`, `BusSpec => []BusTypeOK`. `MemoryBytes` says that whatever
  address is decoded, the index lies inside the memory that it selects;
  `WriteMemoryType` and `WriteSpritesType` say it of the stores.
- `CopyComplete`, `BusSpec => []CopyIsComplete`. `CopyInv` adds what a copy
  under way has done: the sprite memory before `dma_i` is the page's. A step of
  the copy adds one byte (`CopyGrows`), and it is memory's, not a register's,
  because a page that does not begin among the registers has none
  (`PageIsWhole`); the rest leaves both memories alone (`CopyStays`) or starts
  anew.
- `BusMirrors`, `BusSpec => MemoryIsMirrored /\ StoresReachMirrors`: initial
  states map to those of `MirroredMemory`, stores to its writes (`WriteSeen`,
  one case for each memory a reader may find), and every other step to a stutter
  (`MemoryStays`). `BusMirrorsRom` adds the vectors, for ROMs that repeat a whole
  number of times (`WholeRoms`; one bank and two do).
- `VideoMirrors`, `Spec => IsMirrored`. `TableCell` is what the masks amount to:
  a name table address leads to its place in the page that the board wires it
  to, so two addresses share a cell exactly when the board says so
  (`TablesShare`; `PalettesShare` for the colours), and the rest is as for the
  bus (`VideoWriteSeen`, `VideoStays`).
- `DownloadInOrder`, `Spec => DownloadIsInOrder`. `VideoInv` says what is in the
  read buffer: the byte at the address before the one that is next, or under it
  if that was a colour (`Fetched`). `StepBack` undoes the increment, also round
  the end of the space.
- `MemoriesTypes`, of both address spaces together.

`CpuTraceProofs`, for every size of header, trainer and bank, every number of
banks and every length of file:

- `TypeCorrect`, `PointersRight`, `LoadsWhole` and `FailsClean`, and the last
  three as `AllOrNothing`: `ines_load` leaves a whole ROM or nothing. That is not
  so of `gamecart_load`, which leaves the ROM when it finds no RAM; of that the
  theorem says that the ROM is whole, without RAM, and that the cartridge points
  to it. `LoaderInv` says for each phase what it has behind it: which blocks
  exist, whether the file is open, where in the file the parser stands and what
  it has checked against the file's length; `ParsedIsWhole` gathers it once the
  file is closed, and `KeptIsWhole` carries it over the failure.

and of the tool, the loader's caller, for every log, range, mode and answer:

- `FirstDecides`, `AllReleased`, `StopsThere`, `PassedDiffersNowhere` and
  `TraceTypes`, from one invariant. `TraceInv` says what is held in each phase
  (`HeldByPhase`), where the cartridge is (`CartBehind`), that the lines which
  differed lie behind the count (`DifferingBehind`) with the first of them
  remembered (`FirstKept`), and that the loop has not gone on behind a
  difference that ends it (`Undecided`). `StepsLoader` says that the tool uses
  the loader as `CartLoader` allows, so that its theorems hold here too.

Only model-checked, because it is out of the prover's reach: everything temporal
with fairness (`EventsKeepComing`, `PicturesKeepComing`, `PollsFindVBlank`,
`KeysAreHeeded`, `TraceEnds`). Every invariant and every step property of a run
that holds is a theorem. That `BitWord`'s operators are those of the recursive
Bitwise is evaluated on samples. The five violations are the runs' business; a
theorem has nothing to add to a counterexample.

## What is not modelled

- AND, ORA, EOR and BIT, which are one operator of C each, and transfers: a
  model would restate them.
- Colours, the frame buffer, and what the debugger draws with SDL, the texture
  it takes a picture over into and when (`debugger.c:1304`) included; names and log
  lines; the parsing of options and of the text of the log.
- `MIRROR_FOUR_SCREEN`, the fifth mirroring mode, which nothing selects.
- Sprites: the code does not draw them, and never sets sprite 0 hit or overflow.
- The pixel inside a tile: `(x + fine_x) % 8` (`ppu.c:358`) rotates a tile
  instead of moving into the next one. No doc or test says what it should be.
- Banks: the code accepts every mapper and every size of ROM and reaches the
  first 32K of program and 8K of tiles; there is no state to model.
- `reset` in the middle of a program, which only the debugger's R key does: what
  is on the stack then is not expected back.
- A stack that overflows its page: `RoomFor` excludes it.
- Reads of files that succeed in part and are tried again: the code does not.
- Unit tests and scripts.

## Plan

1. Done: all components named above, and a theorem for every property of a run
   that holds and that the prover can reach.
2. Left: nothing that the prover can reach is known to be missing; the five
   liveness properties stay with TLC.
