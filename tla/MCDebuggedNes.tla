--------------------------- MODULE MCDebuggedNes ---------------------------
(* DebuggedNes with a long instruction, a PPUSTATUS load and a PPUCTRL     *)
(* store, on the small raster of MCNes.                                    *)
EXTENDS DebuggedNes

Op(read, write, cycles) == [read |-> read, write |-> write, cycles |-> cycles]

MCInstructions ==
  {Op("NONE", "NONE", 7), Op("STATUS", "NONE", 4), Op("NONE", "CTRL", 4)}

MCView       == <<"STATUS">>
MCCtrlValues == [nmi : BOOLEAN, byRow : {FALSE}, nx : {0}, ny : {0}]
=============================================================================
