---------------------------- MODULE VramAddress ----------------------------
(***************************************************************************)
(* The PPU's two 15-bit address registers, vram_addr and temp_addr, and    *)
(* the arithmetic ppu.c does on them.                                      *)
(*                                                                         *)
(* ppu.c keeps an address as one word and masks its fields out of it:      *)
(*                                                                         *)
(*     bit  14-12  11  10  9-5  4-0                                        *)
(*           fy    ny  nx   cy   cx                                        *)
(*                                                                         *)
(* Here an address is the record of its fields, and the widths of the two  *)
(* coarse fields are parameters, so that one page of the name table can be *)
(* made small.  VramWord relates the two views at the sizes of the code.   *)
(***************************************************************************)
EXTENDS Naturals

CONSTANTS
  Cols,     \* values of coarse x: tile columns of one name table (32)
  Rows,     \* tile rows of one name table that hold tiles (30)
  RowCodes  \* values of coarse y: rows plus attribute rows (32)

\* PPUADDR splits coarse y after its third bit, so RowCodes is a multiple of
\* eight.  At least one row code lies past the tiles, the attribute rows.
ASSUME VramAddressAssumption ==
  /\ Cols \in Nat \ {0}
  /\ Rows \in Nat \ {0}
  /\ RowCodes \in Nat
  /\ Rows < RowCodes
  /\ RowCodes % 8 = 0

TileSize == 8   \* pixels in a tile, both ways: the width of fy and of fine_x

Address == [cx : 0 .. Cols - 1, cy : 0 .. RowCodes - 1,
            nx : {0, 1}, ny : {0, 1}, fy : 0 .. TileSize - 1]

\* What two writes to PPUADDR can spell: 14 bits, so fy keeps two of its three.
BusAddress == {a \in Address : a.fy < 4}

\* What two writes to PPUSCROLL can spell.
Scroll == [cx : 0 .. Cols - 1, fx : 0 .. TileSize - 1,
           cy : 0 .. RowCodes - 1, fy : 0 .. TileSize - 1]

ZeroAddress == [cx |-> 0, cy |-> 0, nx |-> 0, ny |-> 0, fy |-> 0]

----------------------------------------------------------------------------
(* Scrolling, as the renderer moves over the name tables.                  *)

\* Mutant: the wrap forgets to switch name tables.
IncrementScrollXSameTable(v) ==
  [v EXCEPT !.cx = IF v.cx = Cols - 1 THEN 0 ELSE @ + 1]

IncrementScrollX(v) ==
  IF v.cx = Cols - 1
    THEN [v EXCEPT !.cx = 0, !.nx = 1 - @]
    ELSE [v EXCEPT !.cx = @ + 1]

\* Mutant: one tile row too many before the other table.
NextCoarseYLate(v) ==
  CASE v.cy = Rows         -> [v EXCEPT !.cy = 0, !.ny = 1 - @]
    [] v.cy = RowCodes - 1 -> [v EXCEPT !.cy = 0]
    [] OTHER               -> [v EXCEPT !.cy = @ + 1]

\* The last tile row leads into the other name table; the last attribute row
\* wraps within its own.
NextCoarseY(v) ==
  CASE v.cy = Rows - 1     -> [v EXCEPT !.cy = 0, !.ny = 1 - @]
    [] v.cy = RowCodes - 1 -> [v EXCEPT !.cy = 0]
    [] OTHER               -> [v EXCEPT !.cy = @ + 1]

IncrementScrollY(v) ==
  IF v.fy < TileSize - 1
    THEN [v EXCEPT !.fy = @ + 1]
    ELSE NextCoarseY([v EXCEPT !.fy = 0])

CopyHorizontalBits(v, t) == [v EXCEPT !.cx = t.cx, !.nx = t.nx]

CopyVerticalBits(v, t) == [v EXCEPT !.cy = t.cy, !.ny = t.ny, !.fy = t.fy]

----------------------------------------------------------------------------
(* PPUDATA steps the address as a 14-bit number: a field that overflows    *)
(* carries into the next, and the top bit of fy is cut off.                *)

AddRow(v) ==
  LET endOfTable == v.cy = RowCodes - 1
      endOfPair  == endOfTable /\ v.nx = 1
      endOfRam   == endOfPair /\ v.ny = 1
  IN  [v EXCEPT !.cy = IF endOfTable THEN 0 ELSE @ + 1,
                !.nx = IF endOfTable THEN 1 - @ ELSE @,
                !.ny = IF endOfPair THEN 1 - @ ELSE @,
                !.fy = (v.fy + (IF endOfRam THEN 1 ELSE 0)) % 4]

AddColumn(v) ==
  IF v.cx = Cols - 1
    THEN AddRow([v EXCEPT !.cx = 0])
    ELSE [v EXCEPT !.cx = @ + 1, !.fy = v.fy % 4]

StepAddress(v, byRow) == IF byRow THEN AddRow(v) ELSE AddColumn(v)

----------------------------------------------------------------------------
(* Register writes into temp_addr.  A byte written to PPUADDR is one half  *)
(* of a bus address a, a byte written to PPUSCROLL one half of a scroll s: *)
(* which half is the write latch's business.                               *)

SelectNameTable(t, nx, ny) == [t EXCEPT !.nx = nx, !.ny = ny]

ScrollFirst(t, s)  == [t EXCEPT !.cx = s.cx]
ScrollSecond(t, s) == [t EXCEPT !.cy = s.cy, !.fy = s.fy]

AddrFirst(t, a) ==
  [t EXCEPT !.fy = a.fy, !.ny = a.ny, !.nx = a.nx,
            !.cy = 8 * (a.cy \div 8) + (t.cy % 8)]
AddrSecond(t, a) ==
  [t EXCEPT !.cx = a.cx, !.cy = 8 * (t.cy \div 8) + (a.cy % 8)]
=============================================================================
