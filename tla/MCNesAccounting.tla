-------------------------- MODULE MCNesAccounting --------------------------
(* NesAccounting with an idle instruction, a PPUCTRL store that enables    *)
(* NMI, and a PPUDATA store.                                               *)
EXTENDS NesAccounting

Op(read, write, cycles) == [read |-> read, write |-> write, cycles |-> cycles]

MCInstructions ==
  {Op("NONE", "NONE", 7), Op("NONE", "CTRL", 4), Op("DATA", "DATA", 4)}

MCCtrlValues == {[nmi |-> TRUE, byRow |-> FALSE, nx |-> 0, ny |-> 0]}
=============================================================================
