----------------------------- MODULE CartLoader -----------------------------
(***************************************************************************)
(* gamecart_load and gamecart_free with the parser of ines.c below them:   *)
(* which steps of loading a cartridge can fail, what each failure releases *)
(* and what the cartridge then points to.                                  *)
(*                                                                         *)
(* A file is its header and the bytes behind it, by position; a byte that  *)
(* was loaded is the position it came from.                                *)
(***************************************************************************)
EXTENDS Naturals

CONSTANTS
  HeaderSize, TrainerSize, PrgUnit, ChrUnit,  \* the INES_ sizes of ines.h
  MaxBanks,  \* banks that a header names, of each kind
  MaxLength  \* bytes of the longest file

ASSUME CartAssumption ==
  /\ {HeaderSize, TrainerSize, PrgUnit, ChrUnit} \subseteq Nat \ {0}
  /\ MaxBanks \in Nat /\ MaxLength \in Nat

Blocks == {"prg", "chr", "ram"}

VARIABLES
  phase,
  magic, trainer, prg_banks, chr_banks,   \* the header
  length,                                 \* of the file; it may be cut anywhere
  position,                               \* in the file
  file_open,
  heap,                                   \* blocks that are allocated
  pointer,                                \* pointers of the cartridge that are not NULL
  prg_from, chr_from                      \* position of the first byte loaded

header   == <<magic, trainer, prg_banks, chr_banks, length>>
contents == <<prg_from, chr_from>>
vars     == <<phase, header, position, file_open, heap, pointer, contents>>

prg_rom_bytes == prg_banks * PrgUnit
chr_rom_bytes == chr_banks * ChrUnit

\* gamecart_load clears the cartridge.
Init ==
  /\ magic \in BOOLEAN /\ trainer \in BOOLEAN
  /\ prg_banks \in 0 .. MaxBanks /\ chr_banks \in 0 .. MaxBanks
  /\ length \in 0 .. MaxLength
  /\ phase = "open" /\ position = 0 /\ file_open = FALSE
  /\ heap = {} /\ pointer = {} /\ prg_from = 0 /\ chr_from = 0

----------------------------------------------------------------------------
(* ines_load and ines_load_file.                                           *)

\* Each way out of ines_load_file goes through ines_load's fclose.
FailAndClose(released) ==
  /\ phase' = "failed" /\ file_open' = FALSE
  /\ heap' = heap \ released /\ pointer' = pointer \ released
  /\ UNCHANGED <<header, position, contents>>

OpenFile ==
  /\ phase = "open"
  /\ \/ phase' = "header" /\ file_open' = TRUE
     \/ phase' = "failed" /\ UNCHANGED file_open
  /\ UNCHANGED <<header, position, heap, pointer, contents>>

\* The header, and fseek over the trainer, also past the end of the file.
ReadHeader ==
  /\ phase = "header"
  /\ IF length < HeaderSize \/ ~magic THEN FailAndClose({})
     ELSE /\ phase' = "prg"
          /\ position' = HeaderSize + (IF trainer THEN TrainerSize ELSE 0)
          /\ UNCHANGED <<header, file_open, heap, pointer, contents>>

ReadPrg ==
  /\ phase = "prg"
  /\ \/ prg_rom_bytes = 0 /\ phase' = "chr"
        /\ UNCHANGED <<header, position, file_open, heap, pointer, contents>>
     \/ prg_rom_bytes > 0 /\ FailAndClose({})    \* malloc, or fread and free
     \/ /\ prg_rom_bytes > 0 /\ position + prg_rom_bytes <= length
        /\ phase' = "chr" /\ position' = position + prg_rom_bytes
        /\ heap' = heap \cup {"prg"} /\ pointer' = pointer \cup {"prg"}
        /\ prg_from' = position
        /\ UNCHANGED <<header, file_open, chr_from>>

\* Mutant: a failure leaves the program's block allocated.
ReadChrLeaks ==
  /\ phase = "chr"
  /\ \/ chr_rom_bytes = 0 /\ phase' = "close"
        /\ UNCHANGED <<header, position, file_open, heap, pointer, contents>>
     \/ chr_rom_bytes > 0 /\ FailAndClose({})
     \/ /\ chr_rom_bytes > 0 /\ position + chr_rom_bytes <= length
        /\ phase' = "close" /\ position' = position + chr_rom_bytes
        /\ heap' = heap \cup {"chr"} /\ pointer' = pointer \cup {"chr"}
        /\ chr_from' = position
        /\ UNCHANGED <<header, file_open, prg_from>>

ReadChr ==
  /\ phase = "chr"
  /\ \/ chr_rom_bytes = 0 /\ phase' = "close"
        /\ UNCHANGED <<header, position, file_open, heap, pointer, contents>>
     \/ chr_rom_bytes > 0 /\ FailAndClose({"prg"})
     \/ /\ chr_rom_bytes > 0 /\ position + chr_rom_bytes <= length
        /\ phase' = "close" /\ position' = position + chr_rom_bytes
        /\ heap' = heap \cup {"chr"} /\ pointer' = pointer \cup {"chr"}
        /\ chr_from' = position
        /\ UNCHANGED <<header, file_open, prg_from>>

CloseFile ==
  /\ phase = "close" /\ phase' = "ram" /\ file_open' = FALSE
  /\ UNCHANGED <<header, position, heap, pointer, contents>>

----------------------------------------------------------------------------
(* The rest of gamecart_load, and gamecart_free.                           *)

\* Without memory the cartridge keeps what was loaded.
AllocatePrgRam ==
  /\ phase = "ram"
  /\ \/ phase' = "failed" /\ UNCHANGED <<heap, pointer>>
     \/ /\ phase' = "loaded"
        /\ heap' = heap \cup {"ram"} /\ pointer' = pointer \cup {"ram"}
  /\ UNCHANGED <<header, position, file_open, contents>>

\* Of a cartridge in any condition, also of one that failed or was freed.
Free ==
  /\ phase \in {"loaded", "failed", "freed"} /\ phase' = "freed"
  /\ heap' = heap \ pointer /\ pointer' = {}
  /\ UNCHANGED <<header, position, file_open, contents>>

Next ==
  \/ OpenFile \/ ReadHeader \/ ReadPrg \/ ReadChr \/ CloseFile
  \/ AllocatePrgRam \/ Free

Spec == Init /\ [][Next]_vars

----------------------------------------------------------------------------
TypeOK ==
  /\ phase \in {"open", "header", "prg", "chr", "close", "ram", "loaded", "failed", "freed"}
  /\ magic \in BOOLEAN /\ trainer \in BOOLEAN /\ file_open \in BOOLEAN
  /\ prg_banks \in 0 .. MaxBanks /\ chr_banks \in 0 .. MaxBanks
  /\ length \in 0 .. MaxLength
  /\ position \in 0 .. HeaderSize + TrainerSize + MaxBanks * (PrgUnit + ChrUnit)
  /\ heap \subseteq Blocks /\ pointer \subseteq Blocks
  /\ prg_from \in 0 .. MaxLength /\ chr_from \in 0 .. MaxLength

\* Whatever failed, every pointer that is not NULL points to a block that is
\* allocated, and every block has its pointer: gamecart_free may be called once,
\* twice or on a cartridge that failed, frees nothing twice and forgets nothing.
PointersOwnBlocks == pointer = heap

\* A file that is cut short, is no iNES file or cannot be held leaves nothing
\* behind: the file is closed, and no block outlives a failure of ines_load.
\* (The failure of gamecart_load that comes after it, in phase "ram", does leave
\* blocks: see RomIsAllOrNothing.)
FailureLeavesNothing ==
  [][phase' = "failed" /\ phase # "ram" => heap' = {} /\ ~file_open']_vars

\* All the banks that the header names, program first and behind the trainer,
\* and a NULL pointer where it names none.
RomIsWhole ==
  LET start == HeaderSize + (IF trainer THEN TrainerSize ELSE 0)
  IN  /\ magic /\ ~file_open
      /\ ("prg" \in pointer) <=> prg_banks > 0
      /\ ("chr" \in pointer) <=> chr_banks > 0
      /\ prg_banks > 0 => prg_from = start
      /\ chr_banks > 0 => chr_from = start + prg_rom_bytes
      /\ prg_banks + chr_banks > 0 => start + prg_rom_bytes + chr_rom_bytes <= length

\* Behind ines_load a cartridge has the whole of its ROM or none of it.  That
\* includes the cartridge that is refused for want of RAM: gamecart_load fails
\* and leaves it with a whole ROM, which only gamecart_free gives back.
RomIsAllOrNothing ==
  /\ phase \in {"ram", "loaded"} => RomIsWhole
  /\ phase = "failed" => heap = {} \/ (RomIsWhole /\ "ram" \notin heap)

\* ines_load is all or nothing, and gamecart_load, which is not, loses nothing:
\* whatever it leaves allocated is a whole ROM to which the cartridge points.
InesLoadsAllOrNothing ==
  [](PointersOwnBlocks /\ RomIsAllOrNothing) /\ FailureLeavesNothing
=============================================================================
