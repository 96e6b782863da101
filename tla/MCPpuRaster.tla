---------------------------- MODULE MCPpuRaster ----------------------------
(* PpuRaster with scrolls that start inside, at the edge of and below the  *)
(* tiles of both name tables, set by PPUSCROLL, PPUADDR and PPUCTRL, and   *)
(* with PPUDATA accesses that move the address behind the renderer's back. *)
EXTENDS PpuRaster

MCCtrlValues   == [nmi : {FALSE}, byRow : {FALSE}, nx : {0}, ny : {0}]
MCMaskValues   == {{}, {"SPRITE"}}
MCScrollValues == {[cx |-> 1, fx |-> 0, cy |-> 0, fy |-> 3]}
MCAddrValues   == {[cx |-> 0, cy |-> 7, nx |-> 1, ny |-> 1, fy |-> 3]}
=============================================================================
