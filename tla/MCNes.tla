------------------------------- MODULE MCNes -------------------------------
(* Nes with a handful of instructions: loads and stores of the registers,  *)
(* and a short and a long instruction that leave the PPU alone.            *)
EXTENDS Nes

Op(read, write, cycles) == [read |-> read, write |-> write, cycles |-> cycles]

\* STA reads the register it stores to; reading the others has no effect.
Waits   == {Op("NONE", "NONE", 7), Op("NONE", "MASK", 4)}
Polls   == Waits \cup {Op("STATUS", "NONE", 4), Op("NONE", "CTRL", 4)}
Uploads == Waits \cup {Op("NONE", "SCROLL", 4), Op("NONE", "ADDR", 4),
                       Op("DATA", "DATA", 4)}

MCInstructions == Polls \cup Uploads

\* A program polls PPUSTATUS or takes interrupts, or it uploads pictures.
VARIABLE repertoire

programVars == <<nesVars, repertoire>>

ProgramInit == NesInit /\ repertoire \in {Polls, Uploads}

ProgramNext == NesNext /\ instr' \in repertoire \cup {Idle} /\ UNCHANGED repertoire

ProgramSpec ==
  ProgramInit /\ [][ProgramNext]_programVars /\ WF_programVars(ProgramNext)

MCCtrlValues   == [nmi : BOOLEAN, byRow : {FALSE}, nx : {0}, ny : {0}]
MCMaskValues   == {{}, {"BG"}}
MCScrollValues == {[cx |-> 0, fx |-> 0, cy |-> 0, fy |-> 0]}
MCAddrValues   == {ZeroAddress}
=============================================================================
