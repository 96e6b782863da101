----------------------------- MODULE PixelFetch -----------------------------
(***************************************************************************)
(* What render_pixel of ppu.c reads for one background pixel: the tile's   *)
(* number, two bytes of its pattern, two bits of an attribute byte and a   *)
(* palette entry.  The state is VramWord's: one word, that walks through   *)
(* all an address register can hold.  Which word belongs to which dot is   *)
(* PpuRaster's.                                                            *)
(***************************************************************************)
EXTENDS VramWord

CONSTANT TileNumbers  \* what the name tables hold, among 0 .. 255

ASSUME PixelAssumption == TileNumbers \subseteq 0 .. 255

----------------------------------------------------------------------------
CoarseX(w)   == w & 31
CoarseY(w)   == (w \div 32) & 31
FineY(w)     == (w \div 4096) & 7
Nametable(w) == (w \div 1024) & 3

nt_addr(w) == 8192 | (Nametable(w) * 1024) | (CoarseY(w) * 32) | CoarseX(w)

\* The low and the high plane of the tile's row.
pattern_addrs(bgTable, tile, w) ==
  LET base == (IF bgTable THEN 4096 ELSE 0) + tile * 16 + FineY(w) IN {base, base + 8}

attr_addr(w) ==
  9152 | (Nametable(w) * 1024) | ((CoarseY(w) \div 4) * 8) | (CoarseX(w) \div 4)

\* Mutant: the attribute bits change with every tile row.
attr_shift_rows(w) == ((CoarseY(w) & 1) * 4) | (CoarseX(w) & 2)

attr_shift(w) == ((CoarseY(w) & 2) * 2) | (CoarseX(w) & 2)

----------------------------------------------------------------------------
\* The sixteen tiles of word's attribute byte, and one elsewhere.
Companions ==
  {Other} \cup {nt_addr(word) - 8192 - (CoarseX(word) % 4) - 32 * (CoarseY(word) % 4) + x + 32 * y :
                  x \in 0 .. 3, y \in 0 .. 3}

SameSquare(w, u) ==
  /\ Nametable(w) = Nametable(u)
  /\ CoarseX(w) \div 2 = CoarseX(u) \div 2
  /\ CoarseY(w) \div 2 = CoarseY(u) \div 2

\* Two tiles take their colours from the same two bits exactly when they are in
\* the same square of two by two tiles: the shifts and masks of the attribute
\* address and of attr_shift neither join two squares nor split one.  The walk
\* compares the words of fine y 0 with others of any fine y.
AttributeIsOfSquare ==
  word # NoWord /\ FineY(word) = 0 => \A u \in Companions :
    (attr_addr(u) = attr_addr(word) /\ attr_shift(u) = attr_shift(word)) <=> SameSquare(word, u)

\* The tile's number is read from the rows, its colours from the last 64 bytes
\* of the name table that the address selects, and its pattern from one tile of
\* the table PPUCTRL selects: two planes of eight rows, each row in one place.
FetchesStayInTables ==
  word # NoWord =>
  LET table == 8192 + 1024 * ((word \div 1024) % 4)
  IN  /\ nt_addr(word) = table + (word % 1024)
      /\ attr_addr(word) \in table + 960 .. table + 1023
      /\ attr_shift(word) \in {0, 2, 4, 6}
      /\ \A bgTable \in BOOLEAN, tile \in TileNumbers :
           LET start == (IF bgTable THEN 4096 ELSE 0) + 16 * tile
               row   == (word \div 4096) % 8
           IN  pattern_addrs(bgTable, tile, word) = {start + row, start + 8 + row}

\* Every fetch of a dot is of its tile, and its colours are those of its square.
FetchesAreOfTile == AttributeIsOfSquare /\ FetchesStayInTables
=============================================================================
