----------------------------- MODULE MCCpuTrace -----------------------------
(* CpuTrace, and CartLoader under any other client: a file of every shape, *)
(* and gamecart_free at any time and again.                                *)
EXTENDS CpuTrace

VARIABLE client  \* of gamecart_load

client_vars == <<client, trace_vars>>

\* The cartridges that the trace tool is given have two banks and one; their
\* file may be cut in front of the last.
ClientInit ==
  /\ client \in {"trace", "other"}
  /\ TraceInit
  /\ client = "trace" =>
       magic /\ ~trainer /\ prg_banks = 2 /\ chr_banks = 1
       /\ length \in {HeaderSize + prg_rom_bytes, MaxLength}
  /\ client = "other" =>
       ~nestest_mode /\ ~comparing /\ ~stepping /\ max_instructions = 1

TraceMoves == client = "trace" /\ TraceNext /\ UNCHANGED client
OtherMoves == client = "other" /\ Next /\ UNCHANGED <<client, own>>

ClientNext == TraceMoves \/ OtherMoves

\* The trace tool's FairTraceSpec; the other client owes nothing.
ClientSpec == ClientInit /\ [][ClientNext]_client_vars /\ WF_client_vars(TraceMoves)
=============================================================================
