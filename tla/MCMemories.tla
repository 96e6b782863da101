----------------------------- MODULE MCMemories -----------------------------
(* The two address spaces of the console, and the words that address the   *)
(* second.  The words are stored in neither, so a behaviour on one of the   *)
(* spaces leaves them in one of their initial states, and the other way.    *)
EXTENDS MemorySpaces, PixelFetch

\* Every digit in every place, and words that mix them.
Samples == {d * p : d \in Digit, p \in {1, 16, 256, 4096}} \cup {w \in 0 .. 65535 : w % 2053 = 0}

Community == INSTANCE Bitwise

ASSUME BitWordAgrees ==
  \A x, y \in Samples :
    /\ x & y = Community!&(x, y)
    /\ x | y = Community!|(x, y)
    /\ x ^^ y = Community!^^(x, y)

memories_vars == <<spaces_vars, word_vars>>

\* A program ROM that fills its space, and one that repeats in it.
Pattern(n) == [i \in 0 .. n - 1 |-> IF i % 3 = 0 THEN 1 ELSE 0]
MCRoms     == {Pattern(16 * RamSize), Pattern(8 * RamSize)}

\* RAM and its last image; PPUSTATUS, OAMADDR, OAMDATA; the APU; the cartridge's
\* RAM, its first and last byte, and ROM.
MCTargets == {0, 1, 7, 10, 11, 12, 20, 24, 31, 40}

\* RAM, its last image, registers, the APU, the cartridge's RAM and ROM.
MCPages == {0, 3, 4, 5, 6, 9, 12, 30}

\* A cartridge whose pattern bytes alternate, in half of their space.
MCChrRom == [i \in 0 .. PatternSpace \div 2 - 1 |-> i % 2]

MemoriesInit ==
  /\ space \in {"bus", "video", "words"}
  /\ SpacesInit /\ WordInit
  /\ space # "bus" => prg_rom = Pattern(16 * RamSize)
  /\ space # "video" => mirroring = "HORIZONTAL"
  /\ space # "words" => byte = 90

MemoriesNext ==
  \/ SpacesNext /\ UNCHANGED word_vars
  \/ space = "words" /\ WordNext /\ UNCHANGED spaces_vars

MemoriesSpec == MemoriesInit /\ [][MemoriesNext]_memories_vars
=============================================================================
