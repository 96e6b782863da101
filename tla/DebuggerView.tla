---------------------------- MODULE DebuggerView ----------------------------
(***************************************************************************)
(* The keys of debugger.c that move its views, and what draw_memory and    *)
(* draw_oam make of them.  Keys are taken in batches between two frames;   *)
(* Debugger has the loop, and the other keys.                              *)
(***************************************************************************)
EXTENDS Naturals

CONSTANTS
  Words,      \* addresses, 2^16
  RowBytes,   \* bytes_per_row, 16
  Rows,       \* mem_rows, 7
  MaxScroll,  \* 54: the largest first sprite of the list
  FirstSpeed, MaxSpeed   \* run_speed, 100 and 1000

ASSUME ViewAssumption ==
  /\ {Words, RowBytes, Rows, MaxSpeed} \subseteq Nat \ {0}
  /\ Words % RowBytes = 0 /\ RowBytes * Rows <= Words /\ 16 * RowBytes < Words
  /\ MaxScroll \in Nat /\ FirstSpeed \in 0 .. MaxSpeed

Page   == Rows * RowBytes   \* 0x70
Stack  == 16 * RowBytes     \* 0x0100

VARIABLES
  debug_view_mode, mem_view_mode, mem_view_addr, oam_scroll_offset,
  ppu_palette_select,
  run_speed,   \* that nothing reads
  shown        \* addresses of the rows on the screen

view_vars == <<debug_view_mode, mem_view_mode, mem_view_addr, oam_scroll_offset,
          ppu_palette_select, run_speed, shown>>

ViewInit ==
  /\ debug_view_mode = "CPU" /\ mem_view_mode = "ZERO_PAGE" /\ mem_view_addr = 0
  /\ oam_scroll_offset = 0 /\ ppu_palette_select = 0 /\ run_speed = FirstSpeed
  /\ shown = [row \in 0 .. Rows - 1 |-> row * RowBytes]

----------------------------------------------------------------------------
Look(a) ==
  /\ mem_view_addr' = a /\ mem_view_mode' = "CUSTOM"
  /\ UNCHANGED <<debug_view_mode, oam_scroll_offset, ppu_palette_select, run_speed, shown>>

Scroll(offset) ==
  /\ oam_scroll_offset' = offset
  /\ UNCHANGED <<debug_view_mode, mem_view_mode, mem_view_addr, ppu_palette_select,
                 run_speed, shown>>

\* Z and T: the address follows when the view is drawn.
PressRegion(mode) ==
  /\ mem_view_mode' = mode
  /\ UNCHANGED <<debug_view_mode, mem_view_addr, oam_scroll_offset, ppu_palette_select,
                 run_speed, shown>>

PressUp ==
  IF debug_view_mode = "PPU" THEN oam_scroll_offset > 0 /\ Scroll(oam_scroll_offset - 1)
  ELSE mem_view_addr >= RowBytes /\ Look(mem_view_addr - RowBytes)

PressDown ==
  IF debug_view_mode = "PPU"
  THEN oam_scroll_offset < MaxScroll /\ Scroll(oam_scroll_offset + 1)
  ELSE mem_view_addr < Words - RowBytes /\ Look(mem_view_addr + RowBytes)

\* The page keys move the memory view, whichever view is shown.
PageUp == Look(IF mem_view_addr >= Page THEN mem_view_addr - Page ELSE 0)

\* Mutant: the last page is pinned to the end of memory.
PageDownClamped ==
  Look(IF mem_view_addr < Words - Page THEN mem_view_addr + Page ELSE Words - 1)

PageDown == mem_view_addr < Words - Page /\ Look(mem_view_addr + Page)

PressView ==
  /\ debug_view_mode' = IF debug_view_mode = "CPU" THEN "PPU" ELSE "CPU"
  /\ UNCHANGED <<mem_view_mode, mem_view_addr, oam_scroll_offset, ppu_palette_select,
                 run_speed, shown>>

\* 1 to 8, + and -.
PressDigit ==
  /\ ppu_palette_select' \in 0 .. 7
  /\ UNCHANGED <<debug_view_mode, mem_view_mode, mem_view_addr, oam_scroll_offset,
                 run_speed, shown>>

PressFaster ==
  /\ run_speed < MaxSpeed
  /\ run_speed' = IF run_speed = 0 THEN 1 ELSE run_speed * 2
  /\ UNCHANGED <<debug_view_mode, mem_view_mode, mem_view_addr, oam_scroll_offset,
                 ppu_palette_select, shown>>

PressSlower ==
  /\ run_speed' = IF run_speed > 1 THEN run_speed \div 2 ELSE 0
  /\ UNCHANGED <<debug_view_mode, mem_view_mode, mem_view_addr, oam_scroll_offset,
                 ppu_palette_select, shown>>

\* draw_memory sets the address of a region, and counts rows in a word_t.
DrawMemory ==
  /\ debug_view_mode = "CPU"
  /\ mem_view_addr' = CASE mem_view_mode = "ZERO_PAGE" -> 0
                        [] mem_view_mode = "STACK"     -> Stack
                        [] mem_view_mode = "CUSTOM"    -> mem_view_addr
  /\ shown' = [row \in 0 .. Rows - 1 |-> (mem_view_addr' + row * RowBytes) % Words]
  /\ UNCHANGED <<debug_view_mode, mem_view_mode, oam_scroll_offset, ppu_palette_select,
                 run_speed>>

ViewNext ==
  \/ PressRegion("ZERO_PAGE") \/ PressRegion("STACK")
  \/ PressUp \/ PressDown \/ PageUp \/ PageDown
  \/ PressView \/ PressDigit \/ PressFaster \/ PressSlower
  \/ DrawMemory

ViewSpec == ViewInit /\ [][ViewNext]_view_vars

----------------------------------------------------------------------------
\* Doubling stops from MaxSpeed on, which is not the largest speed.
ViewTypeOK ==
  /\ debug_view_mode \in {"CPU", "PPU"}
  /\ mem_view_mode \in {"ZERO_PAGE", "STACK", "CUSTOM"}
  /\ mem_view_addr \in 0 .. Words - 1
  /\ oam_scroll_offset \in 0 .. MaxScroll
  /\ ppu_palette_select \in 0 .. 7
  /\ run_speed \in 0 .. 2 * MaxSpeed
  /\ shown \in [0 .. Rows - 1 -> 0 .. Words - 1]

\* However rows and pages are mixed, each row on the screen is RowBytes
\* addresses in one piece: the bytes behind its label never run over the end of
\* memory, and no two rows show the same.
RowsInOnePiece ==
  \A row \in 0 .. Rows - 1 :
    /\ shown[row] + RowBytes <= Words
    /\ \A other \in 0 .. Rows - 1 : shown[row] = shown[other] => row = other

\* A page up takes a page down back, and lines up with the rows again.
PagesAreUndone ==
  [][PageDown => mem_view_addr' >= Page /\ mem_view_addr' - Page = mem_view_addr
                   /\ mem_view_addr' % RowBytes = 0]_view_vars

\* Whatever keys move it, the memory view stays in whole rows and can go back.
ViewsKeepRows == []RowsInOnePiece /\ PagesAreUndone
=============================================================================
