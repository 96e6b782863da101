----------------------------- MODULE PpuRaster -----------------------------
(***************************************************************************)
(* Ppu with a history variable, to say where on the name tables the        *)
(* renderer is at every dot of the picture.  ppu.c never computes that     *)
(* position: it is what eight increments, a reload at each line's end and  *)
(* a reload before the picture leave in vram_addr.                         *)
(***************************************************************************)
EXTENDS Ppu

\* The program has left the scroll registers and the rendering enables alone
\* since the horizontal reload of the pre-render line, and that reload was
\* not suppressed.
VARIABLE steady

rasterVars == <<ppuVars, steady>>

RasterInit == Init /\ steady = FALSE

RasterTick ==
  /\ Tick
  /\ steady' = IF scanline' = PrerenderScanline /\ cycle' = HCopyDot
                 THEN Rendering
                 ELSE steady

RasterAccess ==
  /\ Access
  /\ steady' = (steady /\ Rendering' /\ UNCHANGED <<vram_addr, temp_addr>>)

RasterNext == RasterTick \/ RasterAccess

RasterSpec == RasterInit /\ [][RasterNext]_rasterVars

----------------------------------------------------------------------------
(* A position v against a start t, counted in tile columns and in pixel    *)
(* rows: at the end of a name table it wraps into the other of the pair.   *)

\* n columns right of the start.
AtColumn(v, t, n) ==
  \/ v.cx = t.cx + n /\ v.nx = t.nx
  \/ v.cx + Cols = t.cx + n /\ v.nx = 1 - t.nx

\* n rows below the start.  A start among the attribute rows walks off their
\* end into the same table; one among the tiles never gets to them.
AtRow(v, t, n) ==
  LET row   == TileSize * v.cy + v.fy
      below == TileSize * t.cy + t.fy + n
  IN  \/ t.cy < Rows /\ v.cy < Rows /\ row = below /\ v.ny = t.ny
      \/ t.cy < Rows /\ v.cy < Rows /\ row + TileSize * Rows = below /\ v.ny = 1 - t.ny
      \/ t.cy >= Rows /\ row = below /\ v.ny = t.ny
      \/ t.cy >= Rows /\ row + TileSize * RowCodes = below /\ v.ny = t.ny

ColumnsDone == IF cycle <= ScreenWidth THEN cycle \div TileSize ELSE 0
LinesDone   == IF cycle < ScreenWidth THEN scanline ELSE scanline + 1

\* The renderer is at its start once the pre-render line has reloaded each
\* half of the address, and from there one tile further every eight dots and
\* one row further every line.  Nothing is said of the lines between the
\* picture and the next pre-render line.
InPosition ==
  /\ scanline = PrerenderScanline /\ cycle >= HCopyDot =>
       AtColumn(vram_addr, temp_addr, 0)
  /\ scanline = PrerenderScanline /\ cycle >= VCopyFirst =>
       AtRow(vram_addr, temp_addr, 0)
  /\ scanline < ScreenHeight =>
       /\ AtColumn(vram_addr, temp_addr, ColumnsDone)
       /\ AtRow(vram_addr, temp_addr, LinesDone)

\* Once the program leaves the scroll alone, every dot of the picture is
\* fetched from the tile its screen position asks for: no increment is lost
\* or doubled at a line end, a tile edge or a table edge, over a whole frame
\* and across frames, and a picture that starts among the tiles never takes
\* an attribute row for tiles (increment_scroll_x/y, copy_*_bits, ppu_tick).
RasterPosition == steady => InPosition

\* RasterPosition is inductive once it is known that a steady program renders.
RasterInv == steady => Rendering /\ InPosition
=============================================================================
