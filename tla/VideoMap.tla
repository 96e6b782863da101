------------------------------ MODULE VideoMap ------------------------------
(***************************************************************************)
(* Where ppu.c keeps a byte of the video address space: the pattern tables *)
(* of the cartridge, two pages of name tables that appear as four, and the *)
(* palette.  All sizes are multiples of TableSize, 1024 in the code, but   *)
(* for the palette's.                                                      *)
(***************************************************************************)
EXTENDS Naturals

CONSTANTS
  TableSize,    \* bytes of a name table, 0x400
  PaletteHalf,  \* bytes of the background palettes, 0x10
  PaletteSpan   \* addresses the palette answers to, 0x100

PatternSpace == 8 * TableSize
MirrorStart  == 12 * TableSize
VideoSpace   == 16 * TableSize
PaletteStart == VideoSpace - PaletteSpan
VideoAddress == 0 .. VideoSpace - 1

ASSUME VideoMapAssumption ==
  /\ TableSize \in Nat \ {0}
  /\ PaletteHalf \in Nat \ {0} /\ PaletteHalf % 4 = 0
  /\ PaletteSpan \in Nat /\ PaletteSpan % (2 * PaletteHalf) = 0
  /\ 0 < PaletteSpan /\ PaletteSpan <= 4 * TableSize

\* Four of the enum's five modes: MIRROR_FOUR_SCREEN and the default of the
\* switch are left out, and nothing gives them to ppu_set_mirroring.  A cartridge
\* has one of the first two (gamecart.c).
Mirroring == {"HORIZONTAL", "VERTICAL", "SINGLE_LOW", "SINGLE_HIGH"}

\* Mutant: the fourth table falls back to the first page.
mirror_nametable_addr_low(mirroring, a) ==
  LET n == a % (4 * TableSize)
  IN  CASE mirroring = "HORIZONTAL"  -> IF n < 2 * TableSize \/ n >= 3 * TableSize
                                          THEN n % TableSize
                                          ELSE TableSize + (n % TableSize)
        [] mirroring = "VERTICAL"    -> n % (2 * TableSize)
        [] mirroring = "SINGLE_LOW"  -> n % TableSize
        [] mirroring = "SINGLE_HIGH" -> TableSize + (n % TableSize)

mirror_nametable_addr(mirroring, a) ==
  LET n == a % (4 * TableSize)
  IN  CASE mirroring = "HORIZONTAL"  -> IF n < 2 * TableSize
                                          THEN n % TableSize
                                          ELSE TableSize + (n % TableSize)
        [] mirroring = "VERTICAL"    -> n % (2 * TableSize)
        [] mirroring = "SINGLE_LOW"  -> n % TableSize
        [] mirroring = "SINGLE_HIGH" -> TableSize + (n % TableSize)

\* (p & 0x13) == 0x10: the sprite palettes have no colour 0 of their own.
palette_addr(a) ==
  LET p == (a - PaletteStart) % (2 * PaletteHalf)
  IN  IF p >= PaletteHalf /\ p % 4 = 0 THEN p - PaletteHalf ELSE p

\* The name tables answer a second time above MirrorStart.
nametable_addr(a) == IF a >= MirrorStart THEN a - 4 * TableSize ELSE a

----------------------------------------------------------------------------
(* The board's wiring, for reference: which of the two pages each of the   *)
(* four tables is, by number.                                              *)
Page(mirroring, table) ==
  CASE mirroring = "HORIZONTAL"  -> table \div 2
    [] mirroring = "VERTICAL"    -> table % 2
    [] mirroring = "SINGLE_LOW"  -> 0
    [] mirroring = "SINGLE_HIGH" -> 1

IsTable(a)   == PatternSpace <= a /\ a < PaletteStart
IsPalette(a) == PaletteStart <= a

\* The colours whose two low bits are 0 are shared by background and sprites.
SharedColour(p, q) ==
  p = q \/ (p % 4 = 0 /\ q % 4 = 0 /\ p % PaletteHalf = q % PaletteHalf)

\* A write at a is seen at b.  The pattern tables are the cartridge's ROM.
WiredTo(mirroring, a, b) ==
  \/ /\ IsTable(a) /\ IsTable(b)
     /\ a % TableSize = b % TableSize
     /\ Page(mirroring, (a \div TableSize) % 4) = Page(mirroring, (b \div TableSize) % 4)
  \/ /\ IsPalette(a) /\ IsPalette(b)
     /\ SharedColour((a - PaletteStart) % (2 * PaletteHalf),
                     (b - PaletteStart) % (2 * PaletteHalf))
=============================================================================
