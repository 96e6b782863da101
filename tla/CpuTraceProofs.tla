--------------------------- MODULE CpuTraceProofs ---------------------------
(***************************************************************************)
(* What CartLoader says of every header, every length of file and every    *)
(* size of bank: the cartridge owns exactly what is allocated, a failure   *)
(* of the parser leaves nothing, and behind the parser there is a whole    *)
(* ROM, also when the cartridge is then refused its RAM.  Then what        *)
(* CpuTrace, the loader's caller, says of every log, every range of it and *)
(* every answer: its verdict is about the first difference, nothing runs   *)
(* behind one that decides it, and all that it opened is closed.           *)
(***************************************************************************)
EXTENDS CpuTrace, FiniteSetTheorems, TLAPS

Start == HeaderSize + (IF trainer THEN TrainerSize ELSE 0)

----------------------------------------------------------------------------
(* The inductive invariant: what each phase has behind it.                 *)

FileOpenWhileParsing ==
  file_open <=> phase \in {"header", "prg", "chr", "close"}

NothingYet == phase \in {"open", "header", "prg"} => heap = {}

HeaderAccepted == phase \in {"prg", "chr", "close", "ram", "loaded"} => magic

AtProgram == phase = "prg" => position = Start

ProgramRead ==
  phase \in {"chr", "close", "ram", "loaded"} =>
    /\ ("prg" \in heap) <=> prg_banks > 0
    /\ prg_banks > 0 => prg_from = Start /\ Start + prg_rom_bytes <= length

AtCharacters ==
  phase = "chr" => "chr" \notin heap /\ "ram" \notin heap /\ position = Start + prg_rom_bytes

CharactersRead ==
  phase \in {"close", "ram", "loaded"} =>
    /\ ("chr" \in heap) <=> chr_banks > 0
    /\ chr_banks > 0 => /\ chr_from = Start + prg_rom_bytes
                        /\ Start + prg_rom_bytes + chr_rom_bytes <= length

NoRamYet == phase \in {"close", "ram"} => "ram" \notin heap

\* What a failure left is what the want of RAM left.
KeptIsWhole == phase = "failed" /\ heap # {} => RomIsWhole /\ "ram" \notin heap

LoaderInv ==
  /\ TypeOK /\ PointersOwnBlocks /\ NoRamYet /\ KeptIsWhole
  /\ FileOpenWhileParsing /\ NothingYet /\ HeaderAccepted
  /\ AtProgram /\ ProgramRead /\ AtCharacters /\ CharactersRead

----------------------------------------------------------------------------
(* Sizes.                                                                  *)

LEMMA Products ==
  ASSUME NEW n \in Nat, NEW max \in Nat, n <= max, NEW unit \in Nat \ {0}
  PROVE  /\ n * unit \in Nat /\ (n * unit > 0 <=> n > 0)
         /\ n * unit <= max * unit
<1>1. n * unit \in Nat /\ (n = 0 => n * unit = 0) /\ (n > 0 => n * unit > 0)
  BY SMT
<1>2. PICK rest \in Nat : max = n + rest
  <2> max - n \in Nat /\ max = n + (max - n)
    OBVIOUS
  <2> QED
    OBVIOUS
<1>3. max * unit = n * unit + rest * unit /\ rest * unit \in Nat
  BY <1>2
<1> QED
  BY <1>1, <1>3

LEMMA SizeTypes ==
  ASSUME TypeOK
  PROVE  /\ prg_rom_bytes \in Nat /\ (prg_rom_bytes > 0 <=> prg_banks > 0)
         /\ chr_rom_bytes \in Nat /\ (chr_rom_bytes > 0 <=> chr_banks > 0)
         /\ Start \in Nat
         /\ Start + prg_rom_bytes + chr_rom_bytes
              <= HeaderSize + TrainerSize + MaxBanks * (PrgUnit + ChrUnit)
         /\ HeaderSize + TrainerSize + MaxBanks * (PrgUnit + ChrUnit) \in Nat
<1> USE CartAssumption DEF TypeOK
<1>1. /\ prg_rom_bytes \in Nat /\ (prg_rom_bytes > 0 <=> prg_banks > 0)
      /\ prg_rom_bytes <= MaxBanks * PrgUnit
  BY Products DEF prg_rom_bytes
<1>2. /\ chr_rom_bytes \in Nat /\ (chr_rom_bytes > 0 <=> chr_banks > 0)
      /\ chr_rom_bytes <= MaxBanks * ChrUnit
  BY Products DEF chr_rom_bytes
<1>3. MaxBanks * (PrgUnit + ChrUnit) = MaxBanks * PrgUnit + MaxBanks * ChrUnit
      /\ MaxBanks * PrgUnit \in Nat /\ MaxBanks * ChrUnit \in Nat
  OBVIOUS
<1>4. Start \in Nat /\ Start <= HeaderSize + TrainerSize
  BY DEF Start
<1> QED
  BY <1>1, <1>2, <1>3, <1>4

----------------------------------------------------------------------------
(* Each step.                                                              *)

LEMMA InitLoaderInv == Init => LoaderInv
<1> SUFFICES ASSUME Init PROVE LoaderInv
  OBVIOUS
<1>1. HeaderSize + TrainerSize + MaxBanks * (PrgUnit + ChrUnit) \in Nat
  BY CartAssumption
<1>2. 0 \in 0 .. HeaderSize + TrainerSize + MaxBanks * (PrgUnit + ChrUnit)
  BY <1>1
<1>3. 0 \in 0 .. MaxLength
  BY CartAssumption
<1>4. TypeOK
  BY <1>2, <1>3, Zenon DEF Init, TypeOK, Blocks
<1> QED
  BY <1>4 DEF Init, LoaderInv, PointersOwnBlocks, NoRamYet, KeptIsWhole,
     FileOpenWhileParsing, NothingYet, HeaderAccepted, AtProgram, ProgramRead, AtCharacters,
     CharactersRead

\* A failure that releases all there is.
LEMMA FailureLoaderInv ==
  ASSUME LoaderInv, NEW released, FailAndClose(released), heap \subseteq released
  PROVE  LoaderInv' /\ heap' = {} /\ file_open' = FALSE
<1>1. heap' = {} /\ pointer' = {}
  BY DEF FailAndClose, LoaderInv, PointersOwnBlocks
<1>2. TypeOK'
  BY <1>1 DEF FailAndClose, LoaderInv, TypeOK, header, contents
<1> QED
  BY <1>1, <1>2 DEF FailAndClose, LoaderInv, PointersOwnBlocks, NoRamYet, KeptIsWhole,
     FileOpenWhileParsing, NothingYet, HeaderAccepted, AtProgram, ProgramRead, AtCharacters,
     CharactersRead

LEMMA OpenLoaderInv == LoaderInv /\ OpenFile => LoaderInv'
<1> SUFFICES ASSUME LoaderInv, OpenFile PROVE LoaderInv'
  OBVIOUS
<1>1. heap = {} /\ pointer = {}
  BY DEF LoaderInv, OpenFile, NothingYet, PointersOwnBlocks
<1>2. ~file_open
  BY DEF LoaderInv, OpenFile, FileOpenWhileParsing
<1>3. TypeOK'
  BY DEF LoaderInv, OpenFile, TypeOK, header, contents
<1>4. FileOpenWhileParsing'
  <2>1. CASE phase' = "header" /\ file_open' = TRUE
    BY <2>1 DEF FileOpenWhileParsing
  <2>2. CASE phase' = "failed" /\ UNCHANGED file_open
    BY <1>2, <2>2 DEF FileOpenWhileParsing
  <2> QED
    BY <2>1, <2>2 DEF OpenFile
<1> QED
  BY <1>1, <1>3, <1>4 DEF OpenFile, LoaderInv, PointersOwnBlocks, NoRamYet, KeptIsWhole,
     NothingYet, HeaderAccepted, AtProgram, ProgramRead, AtCharacters, CharactersRead

LEMMA HeaderLoaderInv == LoaderInv /\ ReadHeader => LoaderInv'
<1> SUFFICES ASSUME LoaderInv, ReadHeader PROVE LoaderInv'
  OBVIOUS
<1>1. heap = {} /\ pointer = {}
  BY DEF LoaderInv, ReadHeader, NothingYet, PointersOwnBlocks
<1>2. CASE length < HeaderSize \/ ~magic
  BY <1>1, <1>2, FailureLoaderInv DEF ReadHeader
<1>3. CASE ~(length < HeaderSize \/ ~magic)
  <2>1. /\ phase' = "prg" /\ position' = Start /\ heap' = {} /\ pointer' = {}
        /\ magic' /\ UNCHANGED <<header, file_open, contents>>
    BY <1>1, <1>3 DEF ReadHeader, Start, header
  <2>2. position' \in 0 .. HeaderSize + TrainerSize + MaxBanks * (PrgUnit + ChrUnit)
    BY <2>1, SizeTypes DEF LoaderInv
  <2>3. TypeOK'
    BY <2>1, <2>2, CartAssumption DEF LoaderInv, TypeOK, header, contents
  <2>4. Start' = Start
    BY <2>1 DEF Start, header
  <2>5. FileOpenWhileParsing'
    BY <2>1 DEF LoaderInv, ReadHeader, FileOpenWhileParsing
  <2> QED
    BY <2>1, <2>3, <2>4, <2>5 DEF LoaderInv, PointersOwnBlocks, NoRamYet, KeptIsWhole,
       NothingYet, HeaderAccepted, AtProgram, ProgramRead, AtCharacters, CharactersRead
<1> QED
  BY <1>2, <1>3

LEMMA PrgLoaderInv == LoaderInv /\ ReadPrg => LoaderInv'
<1> SUFFICES ASSUME LoaderInv, ReadPrg PROVE LoaderInv'
  OBVIOUS
<1>1. /\ phase = "prg" /\ heap = {} /\ pointer = {} /\ magic /\ file_open
      /\ position = Start
  BY DEF LoaderInv, ReadPrg, NothingYet, PointersOwnBlocks, HeaderAccepted, AtProgram,
     FileOpenWhileParsing, TypeOK
<1>2. CASE FailAndClose({})
  BY <1>1, <1>2, FailureLoaderInv
<1>3. ASSUME phase' = "chr", UNCHANGED <<header, file_open>>, pointer' = heap',
             heap' = IF prg_banks > 0 THEN {"prg"} ELSE {},
             position' = Start + prg_rom_bytes, chr_from' = chr_from,
             prg_banks > 0 => prg_from' = Start /\ Start + prg_rom_bytes <= length,
             prg_banks = 0 => prg_from' = prg_from
      PROVE  LoaderInv'
  <2>1. Start' = Start /\ prg_rom_bytes' = prg_rom_bytes
    BY <1>3 DEF Start, prg_rom_bytes, header
  <2>2. position' \in 0 .. HeaderSize + TrainerSize + MaxBanks * (PrgUnit + ChrUnit)
    BY <1>3, SizeTypes DEF LoaderInv
  <2>3. prg_from' \in 0 .. MaxLength
    BY <1>3, SizeTypes, CartAssumption DEF LoaderInv, TypeOK
  <2>4. TypeOK'
    BY <1>3, <2>2, <2>3 DEF LoaderInv, TypeOK, header, Blocks
  <2>5. FileOpenWhileParsing' /\ HeaderAccepted'
    BY <1>1, <1>3 DEF LoaderInv, FileOpenWhileParsing, HeaderAccepted, header
  <2>6. ProgramRead'
    BY <1>3, <2>1 DEF ProgramRead, header
  <2> QED
    BY <1>3, <2>1, <2>4, <2>5, <2>6 DEF LoaderInv, PointersOwnBlocks, NoRamYet, KeptIsWhole,
       NothingYet, AtProgram, AtCharacters, CharactersRead
<1>4. CASE /\ prg_rom_bytes = 0 /\ phase' = "chr"
           /\ UNCHANGED <<header, position, file_open, heap, pointer, contents>>
  <2>1. prg_banks = 0
    BY <1>4, SizeTypes DEF LoaderInv, TypeOK
  <2>2. position' = Start + prg_rom_bytes
    BY <1>1, <1>4, SizeTypes DEF LoaderInv
  <2> QED
    BY <1>1, <1>3, <1>4, <2>1, <2>2 DEF contents
<1>5. CASE /\ prg_rom_bytes > 0 /\ position + prg_rom_bytes <= length
           /\ phase' = "chr" /\ position' = position + prg_rom_bytes
           /\ heap' = heap \cup {"prg"} /\ pointer' = pointer \cup {"prg"}
           /\ prg_from' = position
           /\ UNCHANGED <<header, file_open, chr_from>>
  <2>1. prg_banks > 0 /\ prg_banks # 0
    BY <1>5, SizeTypes DEF LoaderInv, TypeOK
  <2> QED
    BY <1>1, <1>3, <1>5, <2>1
<1> QED
  BY <1>2, <1>4, <1>5 DEF ReadPrg

LEMMA ChrLoaderInv == LoaderInv /\ ReadChr => LoaderInv'
<1> SUFFICES ASSUME LoaderInv, ReadChr PROVE LoaderInv'
  OBVIOUS
<1>1. /\ phase = "chr" /\ pointer = heap /\ magic /\ file_open
      /\ position = Start + prg_rom_bytes
      /\ heap = IF prg_banks > 0 THEN {"prg"} ELSE {}
  <2>1. heap \subseteq {"prg"} /\ ("prg" \in heap <=> prg_banks > 0)
    BY DEF LoaderInv, ReadChr, TypeOK, Blocks, ProgramRead, AtCharacters
  <2>2. heap = IF prg_banks > 0 THEN {"prg"} ELSE {}
    BY <2>1
  <2>3. phase = "chr" /\ pointer = heap /\ magic /\ position = Start + prg_rom_bytes
    BY DEF LoaderInv, ReadChr, PointersOwnBlocks, HeaderAccepted, AtCharacters
  <2>4. file_open
    BY <2>3 DEF LoaderInv, FileOpenWhileParsing
  <2> QED
    BY <2>2, <2>3, <2>4
<1>2. CASE FailAndClose({"prg"})
  BY <1>1, <1>2, FailureLoaderInv
<1>3. ASSUME phase' = "close", UNCHANGED <<header, file_open>>, pointer' = heap',
             heap' = heap \cup (IF chr_banks > 0 THEN {"chr"} ELSE {}),
             position' \in {position, position + chr_rom_bytes}, prg_from' = prg_from,
             chr_banks > 0 => /\ chr_from' = Start + prg_rom_bytes
                              /\ Start + prg_rom_bytes + chr_rom_bytes <= length,
             chr_banks = 0 => chr_from' = chr_from
      PROVE  LoaderInv'
  <2>1. Start' = Start /\ prg_rom_bytes' = prg_rom_bytes /\ chr_rom_bytes' = chr_rom_bytes
    BY <1>3 DEF Start, prg_rom_bytes, chr_rom_bytes, header
  <2>2. position' \in 0 .. HeaderSize + TrainerSize + MaxBanks * (PrgUnit + ChrUnit)
    BY <1>1, <1>3, SizeTypes DEF LoaderInv
  <2>3. chr_from' \in 0 .. MaxLength
    BY <1>3, SizeTypes, CartAssumption DEF LoaderInv, TypeOK
  <2>4. heap' \subseteq Blocks
    BY <1>3 DEF LoaderInv, TypeOK, Blocks
  <2>5. TypeOK'
    BY <1>3, <2>2, <2>3, <2>4 DEF LoaderInv, TypeOK, header
  <2>6. FileOpenWhileParsing' /\ HeaderAccepted'
    BY <1>1, <1>3 DEF LoaderInv, FileOpenWhileParsing, HeaderAccepted, header
  <2>7. ProgramRead'
    BY <1>1, <1>3, <2>1 DEF LoaderInv, ProgramRead, header
  <2>8. CharactersRead'
    BY <1>1, <1>3, <2>1 DEF CharactersRead, header
  <2> QED
    BY <1>1, <1>3, <2>5, <2>6, <2>7, <2>8 DEF LoaderInv, PointersOwnBlocks, NoRamYet, KeptIsWhole,
       NothingYet, AtProgram, AtCharacters
<1>4. CASE /\ chr_rom_bytes = 0 /\ phase' = "close"
           /\ UNCHANGED <<header, position, file_open, heap, pointer, contents>>
  <2>1. chr_banks = 0
    BY <1>4, SizeTypes DEF LoaderInv, TypeOK
  <2> QED
    BY <1>1, <1>3, <1>4, <2>1 DEF contents
<1>5. CASE /\ chr_rom_bytes > 0 /\ position + chr_rom_bytes <= length
           /\ phase' = "close" /\ position' = position + chr_rom_bytes
           /\ heap' = heap \cup {"chr"} /\ pointer' = pointer \cup {"chr"}
           /\ chr_from' = position
           /\ UNCHANGED <<header, file_open, prg_from>>
  <2>1. chr_banks > 0 /\ chr_banks # 0
    BY <1>5, SizeTypes DEF LoaderInv, TypeOK
  <2> QED
    BY <1>1, <1>3, <1>5, <2>1
<1> QED
  BY <1>2, <1>4, <1>5 DEF ReadChr

LEMMA CloseLoaderInv == LoaderInv /\ CloseFile => LoaderInv'
<1> SUFFICES ASSUME LoaderInv, CloseFile PROVE LoaderInv'
  OBVIOUS
<1>1. TypeOK'
  BY DEF LoaderInv, CloseFile, TypeOK, header, contents
<1>2. Start' = Start /\ prg_rom_bytes' = prg_rom_bytes /\ chr_rom_bytes' = chr_rom_bytes
  BY DEF CloseFile, Start, prg_rom_bytes, chr_rom_bytes, header
<1>3. ProgramRead' /\ CharactersRead'
  BY <1>2 DEF LoaderInv, CloseFile, ProgramRead, CharactersRead, header, contents
<1> QED
  BY <1>1, <1>3 DEF LoaderInv, CloseFile, PointersOwnBlocks, NoRamYet, KeptIsWhole,
     FileOpenWhileParsing, NothingYet, HeaderAccepted, AtProgram, AtCharacters, header

\* Once the parser has closed its file there is a whole ROM.
LEMMA ParsedIsWhole ==
  ASSUME LoaderInv, phase \in {"ram", "loaded"}
  PROVE  RomIsWhole
<1>1. magic /\ ~file_open /\ pointer = heap
  BY DEF LoaderInv, HeaderAccepted, FileOpenWhileParsing, PointersOwnBlocks
<1>2. /\ ("prg" \in heap) <=> prg_banks > 0
      /\ prg_banks > 0 => prg_from = Start /\ Start + prg_rom_bytes <= length
      /\ ("chr" \in heap) <=> chr_banks > 0
      /\ chr_banks > 0 => /\ chr_from = Start + prg_rom_bytes
                          /\ Start + prg_rom_bytes + chr_rom_bytes <= length
  BY DEF LoaderInv, ProgramRead, CharactersRead
<1>3. prg_banks + chr_banks > 0 => Start + prg_rom_bytes + chr_rom_bytes <= length
  <2>1. CASE chr_banks > 0
    BY <1>2, <2>1
  <2>2. CASE chr_banks = 0
    BY <1>2, <2>2, SizeTypes DEF LoaderInv, TypeOK
  <2> QED
    BY <2>1, <2>2 DEF LoaderInv, TypeOK
<1> QED
  BY <1>1, <1>2, <1>3 DEF RomIsWhole, Start

LEMMA RamLoaderInv == LoaderInv /\ AllocatePrgRam => LoaderInv'
<1> SUFFICES ASSUME LoaderInv, AllocatePrgRam PROVE LoaderInv'
  OBVIOUS
<1>1. phase = "ram" /\ phase' \in {"failed", "loaded"}
      /\ heap' \in {heap, heap \cup {"ram"}} /\ pointer' = heap'
  BY DEF LoaderInv, AllocatePrgRam, PointersOwnBlocks
<1>2. TypeOK'
  BY <1>1 DEF LoaderInv, AllocatePrgRam, TypeOK, Blocks, header, contents
<1>3. Start' = Start /\ prg_rom_bytes' = prg_rom_bytes /\ chr_rom_bytes' = chr_rom_bytes
  BY DEF AllocatePrgRam, Start, prg_rom_bytes, chr_rom_bytes, header
<1>4. ("prg" \in heap' <=> "prg" \in heap) /\ ("chr" \in heap' <=> "chr" \in heap)
  BY <1>1
<1>5. ProgramRead' /\ CharactersRead'
  BY <1>1, <1>3, <1>4 DEF LoaderInv, AllocatePrgRam, ProgramRead, CharactersRead, header, contents
<1>6. FileOpenWhileParsing' /\ HeaderAccepted'
  BY <1>1 DEF LoaderInv, AllocatePrgRam, FileOpenWhileParsing, HeaderAccepted, header
<1>7. KeptIsWhole'
  <2>1. CASE phase' = "failed" /\ UNCHANGED <<heap, pointer>>
    <3>1. RomIsWhole /\ "ram" \notin heap
      BY <1>1, ParsedIsWhole DEF LoaderInv, NoRamYet
    <3>2. UNCHANGED <<header, file_open, contents, heap, pointer>>
      BY <2>1 DEF AllocatePrgRam
    <3>3. RomIsWhole' /\ "ram" \notin heap'
      BY <1>3, <3>1, <3>2 DEF RomIsWhole, header, contents
    <3> QED
      BY <3>3 DEF KeptIsWhole
  <2>2. CASE phase' = "loaded"
    BY <2>2 DEF KeptIsWhole
  <2> QED
    BY <2>1, <2>2 DEF AllocatePrgRam
<1> QED
  BY <1>1, <1>2, <1>5, <1>6, <1>7 DEF LoaderInv, PointersOwnBlocks, NoRamYet, NothingYet,
     AtProgram, AtCharacters

LEMMA FreeLoaderInv == LoaderInv /\ Free => LoaderInv'
<1> SUFFICES ASSUME LoaderInv, Free PROVE LoaderInv'
  OBVIOUS
<1>1. phase' = "freed" /\ heap' = {} /\ pointer' = {} /\ ~file_open /\ file_open' = file_open
  BY DEF LoaderInv, Free, PointersOwnBlocks, FileOpenWhileParsing
<1>2. TypeOK'
  BY <1>1 DEF LoaderInv, Free, TypeOK, header, contents
<1>3. FileOpenWhileParsing'
  BY <1>1 DEF FileOpenWhileParsing
<1> QED
  BY <1>1, <1>2, <1>3 DEF LoaderInv, PointersOwnBlocks, NoRamYet, KeptIsWhole,
     NothingYet, HeaderAccepted, AtProgram, ProgramRead, AtCharacters, CharactersRead

LEMMA StutterLoaderInv == LoaderInv /\ UNCHANGED vars => LoaderInv'
<1> SUFFICES ASSUME LoaderInv, UNCHANGED vars PROVE LoaderInv'
  OBVIOUS
<1>1. Start' = Start /\ prg_rom_bytes' = prg_rom_bytes /\ chr_rom_bytes' = chr_rom_bytes
  BY DEF vars, header, Start, prg_rom_bytes, chr_rom_bytes
<1>2. NoRamYet' /\ KeptIsWhole'
  BY <1>1 DEF LoaderInv, vars, header, contents, NoRamYet, KeptIsWhole, RomIsWhole
<1> QED
  BY <1>1, <1>2 DEF LoaderInv, vars, header, contents, TypeOK, PointersOwnBlocks,
     FileOpenWhileParsing, NothingYet, HeaderAccepted, AtProgram, ProgramRead, AtCharacters,
     CharactersRead

LEMMA NextLoaderInv == LoaderInv /\ [Next]_vars => LoaderInv'
BY OpenLoaderInv, HeaderLoaderInv, PrgLoaderInv, ChrLoaderInv, CloseLoaderInv,
   RamLoaderInv, FreeLoaderInv, StutterLoaderInv DEF Next

LEMMA LoaderInvariant == Spec => []LoaderInv
BY NextLoaderInv, InitLoaderInv, PTL DEF Spec

----------------------------------------------------------------------------
(* The theorems.                                                           *)

\* The cartridge keeps its types, for every header and every length of file:
\* the position in the file stays within what a header can name.
THEOREM TypeCorrect == Spec => []TypeOK
<1>1. LoaderInv => TypeOK
  BY DEF LoaderInv
<1> QED
  BY <1>1, LoaderInvariant, PTL

\* Whatever fails, and in whatever order gamecart_load and gamecart_free meet,
\* the pointers of the cartridge are the blocks that are allocated.
THEOREM PointersRight == Spec => []PointersOwnBlocks
<1>1. LoaderInv => PointersOwnBlocks
  BY DEF LoaderInv
<1> QED
  BY <1>1, LoaderInvariant, PTL

\* Behind ines_load the cartridge has the banks of its header, from the places
\* in the file where they are; and if a load that failed has left anything, it is
\* that, and no RAM.
THEOREM LoadsWhole == Spec => []RomIsAllOrNothing
<1>1. ASSUME LoaderInv PROVE RomIsAllOrNothing
  BY <1>1, ParsedIsWhole DEF LoaderInv, KeptIsWhole, RomIsAllOrNothing
<1> QED
  BY <1>1, LoaderInvariant, PTL

\* A load that fails before the cartridge's own RAM is asked for leaves the
\* file closed and no block, from every place where it can fail.
THEOREM FailsClean == Spec => FailureLeavesNothing
<1>1. ASSUME LoaderInv, Next, phase' = "failed", phase # "ram"
      PROVE  heap' = {} /\ ~file_open'
  <2>1. CASE OpenFile
    BY <1>1, <2>1 DEF LoaderInv, OpenFile, NothingYet, FileOpenWhileParsing
  <2>2. CASE ReadHeader
    BY <1>1, <2>2 DEF LoaderInv, ReadHeader, FailAndClose, NothingYet
  <2>3. CASE ReadPrg
    BY <1>1, <2>3 DEF LoaderInv, ReadPrg, FailAndClose, NothingYet
  <2>4. CASE ReadChr
    <3>1. FailAndClose({"prg"})
      BY <1>1, <2>4 DEF ReadChr
    <3>2. heap \subseteq {"prg"}
      BY <1>1, <2>4 DEF LoaderInv, ReadChr, TypeOK, Blocks, AtCharacters
    <3> QED
      BY <3>1, <3>2 DEF FailAndClose
  <2> QED
    BY <1>1, <2>1, <2>2, <2>3, <2>4 DEF Next, CloseFile, AllocatePrgRam, Free
<1>2. LoaderInv /\ [Next]_vars =>
        [phase' = "failed" /\ phase # "ram" => heap' = {} /\ ~file_open']_vars
  BY <1>1
<1> QED
  BY <1>2, LoaderInvariant, PTL DEF Spec, FailureLeavesNothing

----------------------------------------------------------------------------
\* Whatever of a file is missing, ines_load loads the whole ROM or leaves
\* nothing; and gamecart_load, which keeps the ROM of a cartridge it refuses for
\* want of RAM, keeps it whole and has a pointer to all of it.
THEOREM AllOrNothing == Spec => InesLoadsAllOrNothing
BY PointersRight, LoadsWhole, FailsClean, PTL DEF InesLoadsAllOrNothing
----------------------------------------------------------------------------
(* The trace tool: its invariant.                                          *)

InLoop    == {"compare", "step", "run"}
Preparing == {"load", "ask", "drain", "open", "open_log", "allocate", "open_errors"}

\* The tool works on a loaded cartridge, and lets go of no other.
CartBehind ==
  /\ trace_phase \notin {"load", "done"} => phase = "loaded"
  /\ trace_phase = "load" => phase # "freed"
  /\ trace_phase = "done" => phase \in {"failed", "freed"}
  /\ phase = "freed" => heap = {}

\* What is held is what the steps so far may have opened.
HeldByPhase ==
  /\ trace_phase \in {"load", "ask", "drain", "open", "done"} => held = {}
  /\ trace_phase = "open_log" => held \subseteq {"output"}
  /\ trace_phase = "allocate" => held \subseteq {"output", "log"}
  /\ trace_phase = "open_errors" => held \subseteq {"output", "log", "trace"}
  /\ "errors" \in held => "log" \in held

\* Nothing is counted before the loop.
NothingCounted ==
  trace_phase \in Preparing =>
    instruction_count = 0 /\ running /\ differing = {} /\ mismatches = 0

\* Only of nestest is it asked which part to run.
AskedOfNestest == official_only \/ trace_phase \in {"ask", "drain"} => nestest_mode

\* The loop's bounds, and that the official test does not leave its range.
InRange ==
  /\ instruction_count \in 0 .. max_instructions
  /\ trace_phase \in {"step", "run"} => running /\ instruction_count < max_instructions
  /\ official_only /\ running /\ trace_phase \in InLoop => instruction_count < OfficialEnd

\* The lines that differed lie behind the loop, the current one included once
\* it was compared.
DifferingBehind ==
  /\ differing \subseteq 1 .. max_instructions
  /\ trace_phase = "compare" => differing \subseteq 1 .. instruction_count
  /\ trace_phase \in {"step", "run"} => differing \subseteq 1 .. Line
  /\ official_only => \A n \in differing : n <= OfficialEnd

\* With an error log to write to, every difference is counted; without, none.
\* The first is remembered.
FirstKept ==
  /\ mismatches \in {0, Cardinality(differing)}
  /\ trace_phase # "done" =>
       mismatches = IF "errors" \in held THEN Cardinality(differing) ELSE 0
  /\ IF mismatches = 0 THEN first_mismatch_line = 0
     ELSE first_mismatch_line \in differing /\ \A n \in differing : first_mismatch_line <= n

\* The loop does not go on behind a difference that decides the verdict.
Undecided ==
  trace_phase \in InLoop /\ mismatches > 0 =>
    ~official_only /\ first_mismatch_line <= OfficialEnd

\* The exit status is that of the first difference.
ExitOfFirst ==
  /\ verdict \in Verdicts /\ exit_code \in 0 .. 1
  /\ trace_phase = "done" /\ mismatches > 0 =>
       ((exit_code = 1) <=> (nestest_mode => first_mismatch_line <= OfficialEnd))

ToolTypes ==
  /\ trace_phase \in {"load", "ask", "drain", "open", "open_log", "allocate", "open_errors",
                      "compare", "step", "run", "verdict", "done"}
  /\ nestest_mode \in BOOLEAN /\ official_only \in BOOLEAN /\ stepping \in BOOLEAN
  /\ max_instructions \in MaxChoices /\ comparing \in BOOLEAN
  /\ held \subseteq {"output", "log", "trace", "errors"}
  /\ stdin_closed \in BOOLEAN /\ log_ended \in BOOLEAN /\ running \in BOOLEAN

TraceInv ==
  /\ LoaderInv
  /\ ToolTypes /\ CartBehind /\ AskedOfNestest /\ HeldByPhase /\ NothingCounted /\ InRange
  /\ DifferingBehind /\ FirstKept /\ Undecided /\ ExitOfFirst

LEMMA InitTraceInv == TraceInit => TraceInv
<1> SUFFICES ASSUME TraceInit PROVE TraceInv
  OBVIOUS
<1>1. LoaderInv
  BY InitLoaderInv DEF TraceInit
<1>2. max_instructions \in Nat \ {0}
  BY TraceAssumption DEF TraceInit
<1>3. ToolTypes /\ AskedOfNestest /\ HeldByPhase /\ NothingCounted
  BY DEF TraceInit, ToolTypes, AskedOfNestest, HeldByPhase, NothingCounted, Preparing
<1>4. CartBehind
  BY DEF TraceInit, Init, CartBehind
<1>5. InRange /\ DifferingBehind /\ Undecided /\ ExitOfFirst
  BY <1>2 DEF TraceInit, InRange, DifferingBehind, Undecided, ExitOfFirst, InLoop, Verdicts
<1>6. FirstKept
  BY FS_EmptySet DEF TraceInit, FirstKept
<1> QED
  BY <1>1, <1>3, <1>4, <1>5, <1>6 DEF TraceInv

\* To the cartridge, each step of the tool is one of the loader or none.
LEMMA StepsLoader == [TraceNext]_trace_vars => [Next]_vars
<1> SUFFICES ASSUME [TraceNext]_trace_vars PROVE [Next]_vars
  OBVIOUS
<1>1. CASE LoadCart
  BY <1>1 DEF LoadCart, Next
<1>2. CASE CartIsMissing \/ CartIsLoaded
  BY <1>2 DEF CartIsMissing, CartIsLoaded
<1>3. ASSUME NEW released, GiveUp(released) PROVE [Next]_vars
  BY <1>3 DEF GiveUp, Next
<1>4. ASSUME NEW next_phase, NEW acquired, GoOn(next_phase, acquired) PROVE [Next]_vars
  BY <1>4 DEF GoOn
<1>5. CASE OpenOutput \/ OpenLog \/ AllocateTrace \/ OpenErrors
  BY <1>3, <1>4, <1>5 DEF OpenOutput, OpenLog, AllocateTrace, OpenErrors
<1>6. CASE Conclude
  BY <1>6 DEF Conclude, Next
<1>7. CASE UNCHANGED vars
  BY <1>7
<1>8. CASE UNCHANGED trace_vars
  BY <1>8 DEF trace_vars
<1> QED
  BY <1>1, <1>2, <1>5, <1>6, <1>7, <1>8 DEF TraceNext

----------------------------------------------------------------------------
(* Each step of the tool.                                                  *)

ToolInv ==
  /\ ToolTypes /\ AskedOfNestest /\ HeldByPhase /\ NothingCounted /\ InRange
  /\ DifferingBehind /\ FirstKept /\ Undecided /\ ExitOfFirst

\* Steps that neither count nor compare, before the loop.
Prepares ==
  /\ trace_phase \in Preparing
  /\ trace_phase' \in (Preparing \ {"load"}) \cup {"compare", "done"}
  /\ max_instructions' = max_instructions /\ instruction_count' = instruction_count
  /\ running' = running /\ mismatches' = mismatches /\ differing' = differing
  /\ first_mismatch_line' = first_mismatch_line /\ verdict' = verdict

LEMMA PreparesToolInv ==
  ASSUME ToolInv, Prepares, HeldByPhase', ToolTypes',
         AskedOfNestest', exit_code' \in 0 .. 1
  PROVE  ToolInv'
<1> USE DEF ToolInv, Prepares, Preparing
<1>1. instruction_count = 0 /\ running /\ differing = {} /\ mismatches = 0
  BY DEF NothingCounted
<1>2. Cardinality(differing) = 0
  BY <1>1, FS_EmptySet
<1>3. OfficialEnd > 0 /\ max_instructions \in Nat \ {0}
  BY TraceAssumption DEF ToolTypes
<1>4. NothingCounted'
  BY <1>1 DEF NothingCounted
<1>5. InRange'
  BY <1>1, <1>3, TraceAssumption DEF InRange, InLoop
<1>6. DifferingBehind'
  BY <1>1 DEF DifferingBehind
<1>7. FirstKept'
  BY <1>1, <1>2 DEF FirstKept
<1>8. Undecided'
  BY <1>1 DEF Undecided
<1>9. ExitOfFirst'
  <2>1. ~(mismatches' > 0) /\ verdict' = verdict
    BY <1>1
  <2> QED
    BY <2>1 DEF ExitOfFirst
<1> QED
  BY <1>4, <1>5, <1>6, <1>7, <1>8, <1>9

LEMMA CartSteps ==
  ASSUME ToolInv, CartIsMissing \/ CartIsLoaded
  PROVE  ToolInv'
<1>1. Prepares
  BY DEF CartIsMissing, CartIsLoaded, Prepares, Preparing, options, tally
<1>2. held' = {} /\ trace_phase' \in {"ask", "open", "done"}
  BY DEF CartIsMissing, CartIsLoaded, ToolInv, HeldByPhase
<1>3. HeldByPhase'
  BY <1>2 DEF HeldByPhase
<1>4. ToolTypes'
  BY <1>2 DEF CartIsMissing, CartIsLoaded, ToolInv, ToolTypes, options
<1>5. exit_code' \in 0 .. 1 /\ AskedOfNestest'
  BY DEF CartIsMissing, CartIsLoaded, ToolInv, ExitOfFirst, AskedOfNestest, options
<1> QED
  BY <1>1, <1>3, <1>4, <1>5, PreparesToolInv

LEMMA AskSteps ==
  ASSUME ToolInv, Ask \/ Drain
  PROVE  ToolInv'
<1>1. Prepares
  BY DEF Ask, Drain, Prepares, Preparing, options, tally
<1>2. held' = {} /\ trace_phase' \in {"drain", "open"}
  BY DEF Ask, Drain, ToolInv, HeldByPhase
<1>3. HeldByPhase'
  BY <1>2 DEF HeldByPhase
<1>4. official_only' \in BOOLEAN /\ stdin_closed' \in BOOLEAN
  BY DEF Ask, Drain, GetChar, ToolInv, ToolTypes
<1>5. ToolTypes'
  BY <1>2, <1>4 DEF Ask, Drain, ToolInv, ToolTypes, options
<1>6. exit_code' \in 0 .. 1 /\ AskedOfNestest'
  BY DEF Ask, Drain, ToolInv, ExitOfFirst, AskedOfNestest, options
<1> QED
  BY <1>1, <1>3, <1>5, <1>6, PreparesToolInv

\* A step that opens something, or gives up.
LEMMA OpenSteps ==
  ASSUME ToolInv, OpenOutput \/ OpenLog \/ AllocateTrace \/ OpenErrors
  PROVE  ToolInv'
<1> USE DEF OpenOutput, OpenLog, AllocateTrace, OpenErrors
<1>1. Prepares
  BY DEF Prepares, Preparing, GiveUp, GoOn, options, loopVars, tally
<1>2. HeldByPhase' /\ held' \subseteq {"output", "log", "trace", "errors"}
  <2>1. CASE OpenOutput
    BY <2>1 DEF GiveUp, GoOn, ToolInv, HeldByPhase
  <2>2. CASE OpenLog
    BY <2>2 DEF GoOn, ToolInv, HeldByPhase
  <2>3. CASE AllocateTrace
    BY <2>3 DEF GiveUp, GoOn, ToolInv, HeldByPhase
  <2>4. CASE OpenErrors
    BY <2>4 DEF GoOn, ToolInv, HeldByPhase
  <2> QED
    BY <2>1, <2>2, <2>3, <2>4
<1>3. ToolTypes'
  BY <1>2 DEF GiveUp, GoOn, ToolInv, ToolTypes, options, loopVars
<1>4. exit_code' \in 0 .. 1 /\ AskedOfNestest'
  BY DEF GiveUp, GoOn, ToolInv, ExitOfFirst, AskedOfNestest, options, loopVars
<1> QED
  BY <1>1, <1>2, <1>3, <1>4, PreparesToolInv

LEMMA DifferingFinite ==
  ASSUME ToolTypes, DifferingBehind
  PROVE  /\ IsFiniteSet(differing) /\ Cardinality(differing) \in Nat
         /\ Cardinality(differing) <= max_instructions
<1>1. max_instructions \in Nat
  BY TraceAssumption DEF ToolTypes
<1>2. /\ IsFiniteSet(1 .. max_instructions)
      /\ Cardinality(1 .. max_instructions) = max_instructions
  BY <1>1, FS_Interval
<1>3. /\ IsFiniteSet(differing) /\ Cardinality(differing) <= Cardinality(1 .. max_instructions)
  BY <1>2, FS_Subset DEF DifferingBehind
<1> QED
  BY <1>2, <1>3, FS_CardinalityType

\* A line that differs is behind all that differed before it; it is counted, and
\* remembered when it is the first.
LEMMA CompareDifferent ==
  ASSUME ToolInv, CompareLine("different")
  PROVE  ToolInv'
<1>1. /\ trace_phase = "compare" /\ running /\ instruction_count < max_instructions
      /\ "log" \in held /\ Line = instruction_count + 1
      /\ differing' = differing \cup {Line}
  BY DEF CompareLine, Looping, Line
<1>2. /\ max_instructions' = max_instructions /\ instruction_count' = instruction_count
      /\ held' = held /\ running' = running /\ official_only' = official_only
      /\ nestest_mode' = nestest_mode /\ Line' = Line
      /\ trace_phase' \in {"step", "verdict"}
      /\ verdict' = verdict /\ exit_code' = exit_code
  BY DEF CompareLine, options, Line
<1>3. /\ instruction_count \in Nat /\ max_instructions \in Nat /\ Line \in 1 .. max_instructions
      /\ OfficialEnd \in Nat
  BY <1>1, TraceAssumption DEF ToolInv, ToolTypes, InRange
<1>4. /\ Line \notin differing /\ \A n \in differing : n < Line /\ n \in 1 .. instruction_count
  BY <1>1, <1>3 DEF ToolInv, DifferingBehind
<1>5. /\ IsFiniteSet(differing) /\ Cardinality(differing) \in Nat
      /\ Cardinality(differing') = Cardinality(differing) + 1
  BY <1>1, <1>4, DifferingFinite, FS_AddElement DEF ToolInv
<1>6. ToolTypes'
  BY <1>2 DEF CompareLine, ToolInv, ToolTypes, options
<1>7. AskedOfNestest' /\ HeldByPhase' /\ NothingCounted' /\ InRange'
  BY <1>1, <1>2 DEF ToolInv, AskedOfNestest, HeldByPhase, NothingCounted, Preparing, InRange, InLoop
<1>8. official_only => Line <= OfficialEnd
  BY <1>1, <1>3 DEF ToolInv, InRange, InLoop
<1>9. DifferingBehind'
  BY <1>1, <1>2, <1>3, <1>4, <1>8 DEF ToolInv, DifferingBehind
<1>10. CASE "errors" \in held
  <2>1. mismatches' = mismatches + 1 /\ mismatches = Cardinality(differing)
    BY <1>1, <1>10 DEF CompareLine, Tally, ToolInv, FirstKept
  <2>2. first_mismatch_line' = IF first_mismatch_line = 0 THEN Line ELSE first_mismatch_line
    BY <1>10 DEF CompareLine, Tally
  <2>3. FirstKept'
    <3>1. CASE mismatches = 0
      <4>1. differing = {} /\ first_mismatch_line' = Line
        BY <1>5, <2>1, <2>2, <3>1, FS_EmptySet DEF ToolInv, FirstKept
      <4> QED
        BY <1>1, <1>2, <1>3, <1>5, <1>10, <2>1, <4>1 DEF FirstKept
    <3>2. CASE mismatches # 0
      <4>1. first_mismatch_line \in differing /\ \A n \in differing : first_mismatch_line <= n
        BY <3>2 DEF ToolInv, FirstKept
      <4>2. first_mismatch_line # 0 /\ first_mismatch_line <= Line
        BY <1>3, <1>4, <4>1
      <4> QED
        BY <1>1, <1>2, <1>5, <1>10, <2>1, <2>2, <4>1, <4>2 DEF FirstKept
    <3> QED
      BY <3>1, <3>2
  <2>4. first_mismatch_line' \in differing'
    BY <1>5, <2>1, <2>3 DEF FirstKept
  <2>5. first_mismatch_line' \in Nat /\ (official_only => first_mismatch_line' <= OfficialEnd)
    BY <1>2, <1>3, <1>9, <2>4 DEF DifferingBehind
  <2>6. Undecided'
    BY <1>2, <1>3, <1>10, <2>5 DEF CompareLine, StopsTheRun, Undecided, InLoop
  <2>7. ExitOfFirst'
    BY <1>2 DEF ToolInv, ExitOfFirst
  <2> QED
    BY <1>6, <1>7, <1>9, <2>3, <2>6, <2>7 DEF ToolInv
<1>11. CASE "errors" \notin held
  <2>1. /\ mismatches' = mismatches /\ mismatches = 0
        /\ first_mismatch_line' = first_mismatch_line
    BY <1>1, <1>11 DEF CompareLine, ToolInv, FirstKept
  <2>2. FirstKept' /\ Undecided' /\ ExitOfFirst'
    BY <1>2, <1>11, <2>1 DEF ToolInv, FirstKept, Undecided, ExitOfFirst
  <2> QED
    BY <1>6, <1>7, <1>9, <2>2 DEF ToolInv
<1> QED
  BY <1>10, <1>11

\* A step of the loop that counts nothing: to the next step of the iteration, or
\* out of the loop.
Passes ==
  /\ \/ trace_phase = "compare" /\ trace_phase' = "step" /\ running
          /\ instruction_count < max_instructions
     \/ trace_phase = "step" /\ trace_phase' = "run" /\ running'
     \/ trace_phase \in {"compare", "step"} /\ trace_phase' = "verdict"
  /\ running' \in BOOLEAN /\ (running' => running)
  /\ trace_phase' = "step" => running' = running
  /\ max_instructions' = max_instructions /\ instruction_count' = instruction_count
  /\ official_only' = official_only /\ nestest_mode' = nestest_mode /\ held' = held
  /\ mismatches' = mismatches /\ first_mismatch_line' = first_mismatch_line
  /\ differing' = differing /\ verdict' = verdict /\ exit_code' = exit_code

LEMMA PassesToolInv ==
  ASSUME ToolInv, Passes, ToolTypes'
  PROVE  ToolInv'
<1> USE DEF ToolInv, Passes
<1>1. AskedOfNestest' /\ HeldByPhase' /\ NothingCounted'
  BY DEF AskedOfNestest, HeldByPhase, NothingCounted, Preparing
<1>2. InRange'
  BY DEF InRange, InLoop
<1>3. DifferingBehind'
  <2>1. instruction_count \in Nat /\ Line = instruction_count + 1 /\ Line' = Line
    BY TraceAssumption DEF Line, InRange, ToolTypes
  <2>2. 1 .. instruction_count \subseteq 1 .. Line
    BY <2>1
  <2> QED
    BY <2>1, <2>2 DEF DifferingBehind
<1>4. FirstKept'
  BY DEF FirstKept
<1>5. Undecided'
  BY DEF Undecided, InLoop
<1>6. ExitOfFirst'
  BY DEF ExitOfFirst
<1> QED
  BY <1>1, <1>2, <1>3, <1>4, <1>5, <1>6

LEMMA QuietSteps ==
  ASSUME ToolInv,
         \/ \E line \in Lines : CompareLine(line) /\ line # "different"
         \/ NothingToCompare \/ StepInput \/ LoopEnds
  PROVE  ToolInv'
<1> USE DEF options, tally
<1>1. ASSUME NEW line \in Lines, CompareLine(line), line # "different"
      PROVE  ToolInv'
  <2>1. Passes
    BY <1>1 DEF CompareLine, Passes, Looping, ToolInv, ToolTypes
  <2>2. ToolTypes'
    BY <1>1 DEF CompareLine, ToolInv, ToolTypes
  <2> QED
    BY <2>1, <2>2, PassesToolInv
<1>2. CASE NothingToCompare
  <2>1. Passes
    BY <1>2 DEF NothingToCompare, Passes, Looping, ToolInv, ToolTypes
  <2>2. ToolTypes'
    BY <1>2 DEF NothingToCompare, ToolInv, ToolTypes
  <2> QED
    BY <2>1, <2>2, PassesToolInv
<1>3. CASE StepInput
  <2>1. /\ trace_phase = "step" /\ running /\ running \in BOOLEAN
    BY <1>3 DEF StepInput, ToolInv, InRange, ToolTypes
  <2>2. Passes
    BY <1>3, <2>1 DEF StepInput, Passes
  <2>3. ToolTypes'
    BY <1>3, <2>1 DEF StepInput, ToolInv, ToolTypes
  <2> QED
    BY <2>2, <2>3, PassesToolInv
<1>4. CASE LoopEnds
  <2>1. Passes
    BY <1>4 DEF LoopEnds, Passes, ToolInv, ToolTypes
  <2>2. ToolTypes'
    BY <1>4 DEF LoopEnds, ToolInv, ToolTypes
  <2> QED
    BY <2>1, <2>2, PassesToolInv
<1> QED
  BY <1>1, <1>2, <1>3, <1>4

\* The next line is behind all that differed; nestest's official part ends.
LEMMA RunStep ==
  ASSUME ToolInv, Run
  PROVE  ToolInv'
<1> USE DEF ToolInv, Run, options, tally
<1>1. /\ instruction_count \in Nat /\ max_instructions \in Nat
      /\ instruction_count < max_instructions /\ OfficialEnd \in Nat
  BY TraceAssumption DEF InRange, ToolTypes
<1>2. ToolTypes'
  BY DEF ToolTypes
<1>3. AskedOfNestest' /\ HeldByPhase' /\ NothingCounted'
  BY DEF AskedOfNestest, HeldByPhase, NothingCounted, Preparing
<1>4. InRange'
  <2>1. official_only /\ running' => instruction_count' < OfficialEnd
    <3> SUFFICES ASSUME official_only, running' PROVE instruction_count' < OfficialEnd
      OBVIOUS
    <3>1. ~(instruction_count' >= OfficialEnd)
      BY Zenon DEF AskedOfNestest
    <3> QED
      BY <1>1, <3>1
  <2> QED
    BY <1>1, <2>1 DEF InRange
<1>5. DifferingBehind'
  BY <1>1 DEF DifferingBehind, Line
<1>6. FirstKept' /\ Undecided' /\ ExitOfFirst'
  BY DEF FirstKept, Undecided, ExitOfFirst, InLoop
<1> QED
  BY <1>2, <1>3, <1>4, <1>5, <1>6

\* The verdict, and the exit status with it, is made of the count and the first
\* difference; then everything is let go.
LEMMA VerdictOfFirst ==
  ASSUME ToolInv, Conclude
  PROVE  /\ verdict' \in Verdicts /\ exit_code' \in 0 .. 1
         /\ mismatches > 0 =>
              ((exit_code' = 1) <=> (nestest_mode => first_mismatch_line <= OfficialEnd))
         /\ mismatches = 0 => verdict' \in Verdicts \ {"official_mismatch", "mismatches"}
         /\ mismatches > 0 => verdict' \notin {"all_official_correct", "all_correct", "no_mismatches"}
<1>0. mismatches \in Nat /\ OfficialEnd \in Nat
  BY DifferingFinite, TraceAssumption DEF ToolInv, FirstKept
<1>1. mismatches > 0 =>
        /\ "log" \in held /\ first_mismatch_line \in Nat
        /\ official_only => nestest_mode /\ first_mismatch_line <= OfficialEnd
  <2> SUFFICES ASSUME mismatches > 0
               PROVE  /\ "log" \in held /\ first_mismatch_line \in Nat
                      /\ official_only => nestest_mode /\ first_mismatch_line <= OfficialEnd
    OBVIOUS
  <2>1. "errors" \in held /\ first_mismatch_line \in differing
    BY <1>0 DEF ToolInv, FirstKept, Conclude
  <2>2. max_instructions \in Nat
    BY TraceAssumption DEF ToolInv, ToolTypes
  <2> QED
    BY <2>1, <2>2 DEF ToolInv, HeldByPhase, DifferingBehind, AskedOfNestest
<1>2. exit_code' = IF verdict' \in {"official_mismatch", "mismatches"} THEN 1 ELSE 0
  BY DEF Conclude
<1>3. CASE "log" \notin held
  <2>1. mismatches = 0
    BY <1>0, <1>1, <1>3
  <2>2. verdict' = "none"
    BY <1>3 DEF Conclude
  <2> QED
    BY <1>2, <2>1, <2>2 DEF Verdicts
<1>4. CASE "log" \in held /\ nestest_mode
  <2>1. verdict' = NestestVerdict
    BY <1>4 DEF Conclude
  <2>2. CASE mismatches = 0
    <3>1. verdict' = IF official_only THEN "all_official_correct" ELSE "all_correct"
      BY <2>1, <2>2 DEF NestestVerdict
    <3> QED
      BY <1>2, <2>2, <3>1 DEF Verdicts
  <2>3. CASE mismatches > 0 /\ ~official_only /\ first_mismatch_line > OfficialEnd
    <3>1. verdict' = "unofficial_mismatch"
      BY <1>0, <2>1, <2>3 DEF NestestVerdict
    <3> QED
      BY <1>0, <1>1, <1>2, <1>4, <2>3, <3>1 DEF Verdicts
  <2>4. CASE mismatches > 0 /\ ~(~official_only /\ first_mismatch_line > OfficialEnd)
    <3>1. verdict' = "official_mismatch"
      BY <1>0, <2>1, <2>4 DEF NestestVerdict
    <3>2. first_mismatch_line <= OfficialEnd
      BY <1>0, <1>1, <2>4
    <3> QED
      BY <1>0, <1>2, <1>4, <2>4, <3>1, <3>2 DEF Verdicts
  <2> QED
    BY <1>0, <2>2, <2>3, <2>4
<1>5. CASE "log" \in held /\ ~nestest_mode
  <2>1. verdict' = OtherVerdict
    BY <1>5 DEF Conclude
  <2> QED
    BY <1>0, <1>2, <1>5, <2>1 DEF OtherVerdict, Verdicts
<1> QED
  BY <1>3, <1>4, <1>5

LEMMA ConcludeStep ==
  ASSUME ToolInv, Conclude
  PROVE  ToolInv'
<1>1. /\ trace_phase' = "done" /\ nestest_mode' = nestest_mode /\ stepping' = stepping
      /\ max_instructions' = max_instructions /\ comparing' = comparing
      /\ official_only' = official_only /\ stdin_closed' = stdin_closed
      /\ log_ended' = log_ended /\ running' = running /\ differing' = differing
      /\ instruction_count' = instruction_count /\ mismatches' = mismatches
      /\ first_mismatch_line' = first_mismatch_line
      /\ held' = held \ {"errors", "log", "trace", "output"}
  BY DEF Conclude, options, tally
<1>2. held' = {}
  BY <1>1 DEF ToolInv, ToolTypes
<1>3. ToolTypes' /\ HeldByPhase' /\ AskedOfNestest' /\ NothingCounted'
  BY <1>1, <1>2 DEF ToolInv, ToolTypes, HeldByPhase, AskedOfNestest, NothingCounted, Preparing
<1>4. InRange' /\ DifferingBehind' /\ FirstKept' /\ Undecided'
  BY <1>1 DEF ToolInv, InRange, DifferingBehind, FirstKept, Undecided, InLoop
<1>5. ExitOfFirst'
  BY <1>1, VerdictOfFirst DEF ExitOfFirst
<1> QED
  BY <1>3, <1>4, <1>5 DEF ToolInv

----------------------------------------------------------------------------
(* The invariant of the tool.                                              *)

LEMMA NextToolInv == TraceInv /\ [TraceNext]_trace_vars => ToolInv'
<1> SUFFICES ASSUME TraceInv, [TraceNext]_trace_vars PROVE ToolInv'
  OBVIOUS
<1>1. ToolInv
  BY DEF TraceInv, ToolInv
<1>2. CASE LoadCart \/ UNCHANGED trace_vars
  <2>1. /\ trace_phase' = trace_phase /\ nestest_mode' = nestest_mode
        /\ official_only' = official_only /\ max_instructions' = max_instructions
        /\ stepping' = stepping /\ comparing' = comparing /\ held' = held
        /\ stdin_closed' = stdin_closed /\ log_ended' = log_ended
        /\ instruction_count' = instruction_count /\ running' = running
        /\ mismatches' = mismatches /\ first_mismatch_line' = first_mismatch_line
        /\ differing' = differing /\ verdict' = verdict /\ exit_code' = exit_code
    BY <1>2 DEF LoadCart, trace_vars, own, options, tally
  <2>2. ToolTypes' /\ AskedOfNestest' /\ HeldByPhase' /\ NothingCounted'
    BY <1>1, <2>1 DEF ToolInv, ToolTypes, AskedOfNestest, HeldByPhase, NothingCounted
  <2>3. InRange' /\ DifferingBehind'
    BY <1>1, <2>1 DEF ToolInv, InRange, DifferingBehind, Line
  <2>4. FirstKept' /\ Undecided' /\ ExitOfFirst'
    BY <1>1, <2>1 DEF ToolInv, FirstKept, Undecided, ExitOfFirst
  <2> QED
    BY <2>2, <2>3, <2>4 DEF ToolInv
<1>3. CASE CartIsMissing \/ CartIsLoaded
  BY <1>1, <1>3, CartSteps
<1>4. CASE OpenOutput \/ OpenLog \/ AllocateTrace \/ OpenErrors
  BY <1>1, <1>4, OpenSteps
<1>5. CASE Conclude
  BY <1>1, <1>5, ConcludeStep
<1>6. CASE Ask \/ Drain
  BY <1>1, <1>6, AskSteps
<1>7. ASSUME NEW line \in Lines, CompareLine(line) PROVE ToolInv'
  <2>1. CASE line = "different"
    BY <1>1, <1>7, <2>1, CompareDifferent
  <2>2. CASE line # "different"
    BY <1>1, <1>7, <2>2, QuietSteps
  <2> QED
    BY <2>1, <2>2
<1>8. CASE NothingToCompare \/ StepInput \/ LoopEnds
  BY <1>1, <1>8, QuietSteps
<1>9. CASE Run
  BY <1>1, <1>9, RunStep
<1> QED
  BY <1>2, <1>3, <1>4, <1>5, <1>6, <1>7, <1>8, <1>9 DEF TraceNext

\* The loader finishes before the tool goes on, and only the tool's end frees.
LEMMA NextCartBehind == TraceInv /\ [TraceNext]_trace_vars => CartBehind'
<1> SUFFICES ASSUME TraceInv, [TraceNext]_trace_vars PROVE CartBehind'
  OBVIOUS
<1>1. CartBehind /\ PointersOwnBlocks /\ trace_phase \in Preparing \cup InLoop \cup {"verdict", "done"}
  BY DEF TraceInv, LoaderInv, ToolTypes, Preparing, InLoop
<1>2. CASE LoadCart
  <2>1. phase' # "freed" /\ trace_phase = "load" /\ trace_phase' = "load"
    BY <1>2 DEF LoadCart, OpenFile, ReadHeader, ReadPrg, ReadChr, CloseFile, AllocatePrgRam,
       FailAndClose, own
  <2> QED
    BY <2>1 DEF CartBehind
<1>3. CASE CartIsMissing \/ CartIsLoaded
  BY <1>1, <1>3 DEF CartIsMissing, CartIsLoaded, CartBehind, vars
<1>4. ASSUME Free, trace_phase' = "done" PROVE CartBehind'
  BY <1>1, <1>4 DEF Free, PointersOwnBlocks, CartBehind
<1>5. ASSUME UNCHANGED vars, trace_phase \notin {"load", "done"},
             trace_phase' \notin {"load", "done"}
      PROVE  CartBehind'
  BY <1>1, <1>5 DEF CartBehind, vars
<1>6. CASE OpenOutput \/ OpenLog \/ AllocateTrace \/ OpenErrors
  BY <1>4, <1>5, <1>6 DEF OpenOutput, OpenLog, AllocateTrace, OpenErrors, GiveUp, GoOn
<1>7. CASE Conclude
  BY <1>4, <1>7 DEF Conclude
<1>8. CASE UNCHANGED vars /\ (Ask \/ Drain)
  BY <1>5, <1>8 DEF Ask, Drain
<1>9. CASE UNCHANGED vars /\ \E line \in Lines : CompareLine(line)
  BY <1>5, <1>9 DEF CompareLine
<1>10. CASE UNCHANGED vars /\ (NothingToCompare \/ StepInput \/ Run \/ LoopEnds)
  BY <1>5, <1>10 DEF NothingToCompare, StepInput, Run, LoopEnds
<1>11. CASE UNCHANGED trace_vars
  BY <1>1, <1>11 DEF trace_vars, own, vars, CartBehind
<1> QED
  BY <1>2, <1>3, <1>6, <1>7, <1>8, <1>9, <1>10, <1>11 DEF TraceNext

LEMMA TraceInvariant == TraceSpec => []TraceInv
<1>1. LoaderInv /\ [Next]_vars => LoaderInv'
  BY NextLoaderInv
<1>2. TraceInv /\ [TraceNext]_trace_vars => TraceInv'
  BY <1>1, StepsLoader, NextToolInv, NextCartBehind DEF TraceInv, ToolInv
<1> QED
  BY <1>2, InitTraceInv, PTL DEF TraceSpec

----------------------------------------------------------------------------
(* The theorems about the tool.                                            *)

\* Counters stay within the range of the log that was asked for, and what is
\* held among what the tool can open, for every log, answer and failure.
THEOREM TraceTypes == TraceSpec => []TraceTypeOK
<1>1. ASSUME TraceInv PROVE TraceTypeOK
  <2>1. TypeOK /\ ToolTypes /\ InRange /\ DifferingBehind /\ FirstKept /\ ExitOfFirst
    BY <1>1 DEF TraceInv, LoaderInv
  <2>2. max_instructions \in MaxChoices /\ max_instructions \in Nat
    BY <2>1, TraceAssumption DEF ToolTypes
  <2>3. instruction_count \in 0 .. max_instructions /\ differing \subseteq 1 .. max_instructions
    BY <2>1 DEF InRange, DifferingBehind
  <2>4. mismatches \in 0 .. max_instructions
    BY <2>1, <2>2, DifferingFinite DEF FirstKept
  <2>5. first_mismatch_line \in 0 .. max_instructions
    <3>1. CASE mismatches = 0
      BY <2>1, <2>2, <3>1 DEF FirstKept
    <3>2. CASE mismatches # 0
      <4>1. first_mismatch_line \in differing
        BY <2>1, <3>2 DEF FirstKept
      <4>2. first_mismatch_line \in 1 .. max_instructions
        BY <2>3, <4>1
      <4> QED
        BY <2>2, <4>2
    <3> QED
      BY <3>1, <3>2
  <2> QED
    BY <2>1, <2>2, <2>3, <2>4, <2>5 DEF TraceTypeOK, ToolTypes, ExitOfFirst
<1> QED
  BY <1>1, TraceInvariant, PTL

LEMMA FirstIsRemembered ==
  ASSUME TraceInv, mismatches > 0
  PROVE  /\ mismatches = Cardinality(differing)
         /\ first_mismatch_line = First(differing)
<1>1. /\ mismatches \in {0, Cardinality(differing)} /\ first_mismatch_line \in differing
      /\ \A n \in differing : first_mismatch_line <= n
  BY DEF TraceInv, FirstKept
<1>2. differing \subseteq Nat
  BY TraceAssumption DEF TraceInv, ToolTypes, DifferingBehind
<1>3. \A n \in differing : (\A m \in differing : n <= m) => n = first_mismatch_line
  BY <1>1, <1>2
<1> QED
  BY <1>1, <1>3 DEF First

\* The verdict and the exit status are those of the first line that differed,
\* whatever was met behind it and however the loop was left.
THEOREM FirstDecides == TraceSpec => []VerdictIsOfFirst
<1>1. TraceInv => VerdictIsOfFirst
  BY FirstIsRemembered DEF TraceInv, ExitOfFirst, VerdictIsOfFirst
<1> QED
  BY <1>1, TraceInvariant, PTL

\* Whatever could not be opened or allocated, and wherever the loop was left, at
\* the end nothing is held and the cartridge is freed.
THEOREM AllReleased == TraceSpec => []NothingLeftOpen
<1>1. TraceInv => NothingLeftOpen
  BY DEF TraceInv, LoaderInv, FileOpenWhileParsing, CartBehind, HeldByPhase, NothingLeftOpen
<1> QED
  BY <1>1, TraceInvariant, PTL

\* No instruction runs behind a difference that decides the verdict.
THEOREM StopsThere == TraceSpec => StopsAtDifference
<1>1. TraceInv /\ [TraceNext]_trace_vars =>
        [Run /\ mismatches > 0 => ~official_only /\ First(differing) <= OfficialEnd]_trace_vars
  BY FirstIsRemembered DEF Run, TraceInv, Undecided, InLoop
<1> QED
  BY <1>1, TraceInvariant, PTL DEF TraceSpec, StopsAtDifference

\* Of a run that had its error log "PASSED" is printed only when no line that it
\* compared differed; of a run without one the theorem says nothing.
THEOREM PassedDiffersNowhere == TraceSpec => PassedIsCompared
<1>1. ASSUME TraceInv, Conclude, "errors" \in held,
             verdict' \in {"all_official_correct", "all_correct", "no_mismatches"}
      PROVE  differing = {}
  <2>1. ToolInv /\ mismatches = Cardinality(differing) /\ IsFiniteSet(differing)
    BY <1>1, DifferingFinite DEF TraceInv, ToolInv, FirstKept, Conclude
  <2>2. mismatches \in Nat /\ ~(mismatches > 0)
    BY <1>1, <2>1, VerdictOfFirst, DifferingFinite DEF ToolInv
  <2> QED
    BY <2>1, <2>2, FS_EmptySet
<1>2. TraceInv /\ [TraceNext]_trace_vars =>
        [Conclude /\ "errors" \in held
           /\ verdict' \in {"all_official_correct", "all_correct", "no_mismatches"}
         => differing = {}]_trace_vars
  BY <1>1
<1> QED
  BY <1>2, TraceInvariant, PTL DEF TraceSpec, PassedIsCompared
=============================================================================
