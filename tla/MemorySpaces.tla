---------------------------- MODULE MemorySpaces ----------------------------
(* The two address spaces of the console, the CPU's and the PPU's.  Neither *)
(* is stored in the other, so a behaviour works on one of them, and the     *)
(* other stays as it begins.                                                *)
EXTENDS Bus, PpuMemory

VARIABLE space  \* that the program works on

spaces_vars == <<space, bus_vars, vars>>

SpacesInit == BusInit /\ Init

BusWorks   == space = "bus" /\ BusNext /\ UNCHANGED <<space, vars>>
VideoWorks == space = "video" /\ Next /\ UNCHANGED <<space, bus_vars>>

SpacesNext == BusWorks \/ VideoWorks

SpacesSpec == SpacesInit /\ [][SpacesNext]_spaces_vars

\* Nothing is read or written outside a memory, and every cell is a byte.
MemoriesTypeOK == BusTypeOK /\ TypeOK
=============================================================================
