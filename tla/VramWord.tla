------------------------------ MODULE VramWord ------------------------------
(***************************************************************************)
(* The address arithmetic of ppu.c as the C source writes it, on 16-bit    *)
(* words with masks and shifts, next to the field-wise operators of        *)
(* VramAddress.  The state is one word and one byte; the walk goes through *)
(* every 15-bit word.                                                      *)
(***************************************************************************)
EXTENDS VramAddress, BitWord

CONSTANT Bytes   \* the register values tried with every word

ASSUME BytesAssumption == Bytes \subseteq 0 .. 255

VARIABLES word, byte

word_vars == <<word, byte>>

WordLimit == 32768   \* bit 15 of either register is never set
Stride    == 128     \* words between two starting points of the walk

NoWord == WordLimit  \* before the walk

----------------------------------------------------------------------------
(* The C expressions.                                                      *)

WordIncrementX(v) ==
  IF v & 31 = 31 THEN (v & Not16(31)) ^^ 1024 ELSE v + 1

WordIncrementY(v) ==
  IF v & 28672 # 28672
    THEN v + 4096
    ELSE LET w      == v & Not16(28672)
             coarse == (w \div 32) & 31
             u      == IF coarse = 29 THEN w ^^ 2048 ELSE w
             next   == IF coarse \in {29, 31} THEN 0 ELSE coarse + 1
         IN  (u & Not16(992)) | (next * 32)

WordCopyHorizontal(v, t) == (v & Not16(1055)) | (t & 1055)
WordCopyVertical(v, t)   == (v & Not16(31712)) | (t & 31712)

WordStep(v, byRow) == ((v + (IF byRow THEN 32 ELSE 1)) % 65536) & 16383

WordCtrl(t, b)         == (t & 62463) | ((b & 3) * 1024)
WordScrollFirst(t, b)  == (t & 65504) | (b \div 8)
WordScrollSecond(t, b) == (t & 35871) | ((b & 7) * 4096) | ((b \div 8) * 32)
WordAddrFirst(t, b)    == (t & 255) | ((b & 63) * 256)
WordAddrSecond(t, b)   == (t & 65280) | b

----------------------------------------------------------------------------
(* The fields of a word, and of a byte as each register reads it.          *)

Fields(w) == [cx |-> w % 32, cy |-> (w \div 32) % 32, nx |-> (w \div 1024) % 2,
              ny |-> (w \div 2048) % 2, fy |-> (w \div 4096) % 8]

HighByteOf(b) == [cx |-> 0, cy |-> 8 * (b % 4), nx |-> (b \div 4) % 2,
                  ny |-> (b \div 8) % 2, fy |-> (b \div 16) % 4]
LowByteOf(b)  == [ZeroAddress EXCEPT !.cx = b % 32, !.cy = b \div 32]
ScrollOf(b)   == [cx |-> b \div 8, fx |-> b % 8, cy |-> b \div 8, fy |-> b % 8]

----------------------------------------------------------------------------
WordInit == byte \in Bytes /\ word = NoWord

FirstWord ==
  /\ word = NoWord /\ word' \in {w \in 0 .. WordLimit - 1 : w % Stride = 0}
  /\ UNCHANGED byte

FollowingWord ==
  /\ word # NoWord /\ (word + 1) % Stride # 0 /\ word' = word + 1
  /\ UNCHANGED byte

WordNext == FirstWord \/ FollowingWord

WordSpec == WordInit /\ [][WordNext]_word_vars

----------------------------------------------------------------------------
\* A second word, far from the first, for the operations on two words.
Other == (word * 5 + 10923) % WordLimit

\* The moves of the renderer (increment_scroll_x/y, copy_*_bits) and of
\* PPUDATA: masking, shifting and carrying the word does to its fields
\* exactly what VramAddress says, for every word either register can hold.
MovesAgree ==
  word # NoWord =>
  LET v == Fields(word)
      t == Fields(Other)
  IN  /\ Fields(WordIncrementX(word)) = IncrementScrollX(v)
      /\ Fields(WordIncrementY(word)) = IncrementScrollY(v)
      /\ Fields(WordCopyHorizontal(word, Other)) = CopyHorizontalBits(v, t)
      /\ Fields(WordCopyVertical(word, Other)) = CopyVerticalBits(v, t)
      /\ \A byRow \in BOOLEAN :
           Fields(WordStep(word, byRow)) = StepAddress(v, byRow)

\* The register writes (PPUCTRL, PPUSCROLL, PPUADDR): each masks its own
\* bits of temp_addr and no other, and no register can grow a sixteenth bit.
WritesAgree ==
  word # NoWord =>
  LET t == Fields(word)
  IN  /\ Fields(WordCtrl(word, byte)) =
           SelectNameTable(t, byte % 2, (byte \div 2) % 2)
      /\ Fields(WordScrollFirst(word, byte)) = ScrollFirst(t, ScrollOf(byte))
      /\ Fields(WordScrollSecond(word, byte)) = ScrollSecond(t, ScrollOf(byte))
      /\ Fields(WordAddrFirst(word, byte)) = AddrFirst(t, HighByteOf(byte))
      /\ Fields(WordAddrSecond(word, byte)) = AddrSecond(t, LowByteOf(byte))
      /\ \A w \in {WordCtrl(word, byte), WordScrollFirst(word, byte),
                   WordScrollSecond(word, byte), WordAddrFirst(word, byte),
                   WordAddrSecond(word, byte), WordIncrementX(word),
                   WordIncrementY(word)} : w < WordLimit

\* Both, for every word: the packed address is the record, whatever moves it.
WordsAgree == MovesAgree /\ WritesAgree
=============================================================================
