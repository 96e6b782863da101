--------------------------- MODULE VramWordProofs ---------------------------
(***************************************************************************)
(* The bit arithmetic of ppu.c, for every word: what the C expressions of  *)
(* VramWord do to the fields of an address, and what the fetches of        *)
(* PixelFetch make of them.  A word is taken apart twice: into the four    *)
(* hexadecimal digits that BitWord works on, and into the fields of an     *)
(* address, each within one digit but for coarse x and coarse y, which     *)
(* straddle two.                                                           *)
(***************************************************************************)
EXTENDS PixelFetch, TLAPS

----------------------------------------------------------------------------
(* Digits of words.                                                        *)

\* The word of four digits, least first.
Hex(a, b, c, d) == a + 16 * b + 256 * c + 4096 * d

AreDigits(a, b, c, d) == a \in Digit /\ b \in Digit /\ c \in Digit /\ d \in Digit

Word == {x \in Nat : x < 65536}

\* What a mask of each kind leaves of one digit.
LEMMA DigitMasks ==
  ASSUME NEW a \in Digit
  PROVE  /\ And4(a, 0) = 0 /\ And4(a, 15) = a
         /\ And4(a, 1) = a % 2 /\ And4(a, 14) = 2 * (a \div 2)
         /\ And4(a, 3) = a % 4 /\ And4(a, 12) = 4 * (a \div 4)
         /\ And4(a, 7) = a % 8 /\ And4(a, 2) = 2 * ((a \div 2) % 2)
<1>1. And4(a, 0) = 0 /\ And4(a, 15) = a
  BY DEF And4, OfBits, Bit, Digit
<1>2. And4(a, 1) = a % 2 /\ And4(a, 14) = 2 * (a \div 2)
  BY DEF And4, OfBits, Bit, Digit
<1>3. And4(a, 3) = a % 4 /\ And4(a, 12) = 4 * (a \div 4)
  BY DEF And4, OfBits, Bit, Digit
<1>4. And4(a, 7) = a % 8 /\ And4(a, 2) = 2 * ((a \div 2) % 2)
  BY DEF And4, OfBits, Bit, Digit
<1> QED
  BY <1>1, <1>2, <1>3, <1>4

\* DigitOf takes the digits out again.
LEMMA DigitsOf ==
  ASSUME NEW a, NEW b, NEW c, NEW d, AreDigits(a, b, c, d)
  PROVE  /\ DigitOf(Hex(a, b, c, d), 1) = a /\ DigitOf(Hex(a, b, c, d), 16) = b
         /\ DigitOf(Hex(a, b, c, d), 256) = c /\ DigitOf(Hex(a, b, c, d), 4096) = d
<1>1. a \in Digit /\ b \in Digit /\ c \in Digit /\ d \in Digit
  BY DEF AreDigits
<1> QED
  BY <1>1 DEF DigitOf, Digit, Hex

\* Every word has digits.
LEMMA HasDigits ==
  \A x \in Word : \E a, b, c, d : AreDigits(a, b, c, d) /\ x = Hex(a, b, c, d)
<1> SUFFICES ASSUME NEW x \in Word
             PROVE  \E a, b, c, d : AreDigits(a, b, c, d) /\ x = Hex(a, b, c, d)
  OBVIOUS
<1>0. x \in Nat /\ x < 65536
  BY DEF Word
<1> DEFINE a == x % 16
           b == (x \div 16) % 16
           c == (x \div 256) % 16
           d == x \div 4096
<1>1. a \in Digit /\ b \in Digit /\ c \in Digit
  BY <1>0 DEF Digit
<1>2. d \in Digit
  BY <1>0 DEF Digit
<1>3. x = a + 16 * (x \div 16)
  BY <1>0
<1>4. x \div 16 = b + 16 * (x \div 256)
  BY <1>0
<1>5. x \div 256 = c + 16 * d
  BY <1>0
<1>6. x = Hex(a, b, c, d)
  BY <1>0, <1>1, <1>2, <1>3, <1>4, <1>5 DEF Digit, Hex
<1> HIDE DEF a, b, c, d
<1> QED
  BY <1>1, <1>2, <1>6 DEF AreDigits

\* The operators work digit by digit.
LEMMA WordsMeet ==
  ASSUME NEW a, NEW b, NEW c, NEW d, AreDigits(a, b, c, d),
         NEW e, NEW f, NEW g, NEW h, AreDigits(e, f, g, h)
  PROVE  /\ Hex(a, b, c, d) & Hex(e, f, g, h)
              = Hex(And4(a, e), And4(b, f), And4(c, g), And4(d, h))
         /\ (Hex(a, b, c, d) | Hex(e, f, g, h))
              = Hex(Or4(a, e), Or4(b, f), Or4(c, g), Or4(d, h))
         /\ Hex(a, b, c, d) ^^ Hex(e, f, g, h)
              = Hex(Xor4(a, e), Xor4(b, f), Xor4(c, g), Xor4(d, h))
<1> DEFINE x == Hex(a, b, c, d)
           y == Hex(e, f, g, h)
<1>1. /\ DigitOf(x, 1) = a /\ DigitOf(x, 16) = b
      /\ DigitOf(x, 256) = c /\ DigitOf(x, 4096) = d
  BY DigitsOf
<1>2. /\ DigitOf(y, 1) = e /\ DigitOf(y, 16) = f
      /\ DigitOf(y, 256) = g /\ DigitOf(y, 4096) = h
  BY DigitsOf
<1> HIDE DEF x, y
<1>3. /\ x & y = Hex(And4(a, e), And4(b, f), And4(c, g), And4(d, h))
      /\ (x | y) = Hex(Or4(a, e), Or4(b, f), Or4(c, g), Or4(d, h))
      /\ x ^^ y = Hex(Xor4(a, e), Xor4(b, f), Xor4(c, g), Xor4(d, h))
  BY <1>1, <1>2 DEF &, |, ^^, OfDigits, Hex
<1> QED
  BY <1>3 DEF x, y

\* Masks of the lowest bits are remainders.
LEMMA Remainders ==
  ASSUME NEW x \in Word
  PROVE  /\ x & 3 = x % 4 /\ x & 7 = x % 8 /\ x & 31 = x % 32 /\ x & 63 = x % 64
         /\ x & 255 = x % 256 /\ x & 16383 = x % 16384
         /\ x & 2 = 2 * ((x \div 2) % 2)
<1>1. PICK a, b, c, d : AreDigits(a, b, c, d) /\ x = Hex(a, b, c, d)
  BY HasDigits
<1>2. a \in Digit /\ b \in Digit /\ c \in Digit /\ d \in Digit
  BY <1>1 DEF AreDigits
<1>3. x & 3 = x % 4
  <2>1. 3 = Hex(3, 0, 0, 0) /\ AreDigits(3, 0, 0, 0)
    BY DEF Hex, AreDigits, Digit
  <2>2. x & Hex(3, 0, 0, 0) = Hex(And4(a, 3), And4(b, 0), And4(c, 0), And4(d, 0))
    BY <1>1, <2>1, WordsMeet
  <2>3. x & 3 = a % 4
    BY <1>2, <2>1, <2>2, DigitMasks DEF Hex, Digit
  <2>4. x % 4 = a % 4
    BY <1>1, <1>2 DEF Hex, Digit
  <2> QED
    BY <2>3, <2>4
<1>4. x & 7 = x % 8
  <2>1. 7 = Hex(7, 0, 0, 0) /\ AreDigits(7, 0, 0, 0)
    BY DEF Hex, AreDigits, Digit
  <2>2. x & Hex(7, 0, 0, 0) = Hex(And4(a, 7), And4(b, 0), And4(c, 0), And4(d, 0))
    BY <1>1, <2>1, WordsMeet
  <2>3. x & 7 = a % 8
    BY <1>2, <2>1, <2>2, DigitMasks DEF Hex, Digit
  <2>4. x % 8 = a % 8
    BY <1>1, <1>2 DEF Hex, Digit
  <2> QED
    BY <2>3, <2>4
<1>5. x & 31 = x % 32
  <2>1. 31 = Hex(15, 1, 0, 0) /\ AreDigits(15, 1, 0, 0)
    BY DEF Hex, AreDigits, Digit
  <2>2. x & Hex(15, 1, 0, 0) = Hex(And4(a, 15), And4(b, 1), And4(c, 0), And4(d, 0))
    BY <1>1, <2>1, WordsMeet
  <2>3. x & 31 = a + 16 * (b % 2)
    BY <1>2, <2>1, <2>2, DigitMasks DEF Hex, Digit
  <2>4. x % 32 = a + 16 * (b % 2)
    BY <1>1, <1>2 DEF Hex, Digit
  <2> QED
    BY <2>3, <2>4
<1>6. x & 63 = x % 64
  <2>1. 63 = Hex(15, 3, 0, 0) /\ AreDigits(15, 3, 0, 0)
    BY DEF Hex, AreDigits, Digit
  <2>2. x & Hex(15, 3, 0, 0) = Hex(And4(a, 15), And4(b, 3), And4(c, 0), And4(d, 0))
    BY <1>1, <2>1, WordsMeet
  <2>3. x & 63 = a + 16 * (b % 4)
    BY <1>2, <2>1, <2>2, DigitMasks DEF Hex, Digit
  <2>4. x % 64 = a + 16 * (b % 4)
    BY <1>1, <1>2 DEF Hex, Digit
  <2> QED
    BY <2>3, <2>4
<1>7. x & 255 = x % 256
  <2>1. 255 = Hex(15, 15, 0, 0) /\ AreDigits(15, 15, 0, 0)
    BY DEF Hex, AreDigits, Digit
  <2>2. x & Hex(15, 15, 0, 0) = Hex(And4(a, 15), And4(b, 15), And4(c, 0), And4(d, 0))
    BY <1>1, <2>1, WordsMeet
  <2>3. x & 255 = a + 16 * b
    BY <1>2, <2>1, <2>2, DigitMasks DEF Hex, Digit
  <2>4. x % 256 = a + 16 * b
    BY <1>1, <1>2 DEF Hex, Digit
  <2> QED
    BY <2>3, <2>4
<1>8. x & 16383 = x % 16384
  <2>1. 16383 = Hex(15, 15, 15, 3) /\ AreDigits(15, 15, 15, 3)
    BY DEF Hex, AreDigits, Digit
  <2>2. x & Hex(15, 15, 15, 3) = Hex(And4(a, 15), And4(b, 15), And4(c, 15), And4(d, 3))
    BY <1>1, <2>1, WordsMeet
  <2>3. x & 16383 = a + 16 * b + 256 * c + 4096 * (d % 4)
    <3>1. And4(a, 15) = a /\ And4(b, 15) = b /\ And4(c, 15) = c /\ And4(d, 3) = d % 4
      BY <1>2, DigitMasks
    <3> QED
      BY <2>1, <2>2, <3>1 DEF Hex
  <2>4. x % 16384 = a + 16 * b + 256 * c + 4096 * (d % 4)
    BY <1>1, <1>2 DEF Hex, Digit
  <2> QED
    BY <2>3, <2>4
<1>9. x & 2 = 2 * ((x \div 2) % 2)
  <2>1. 2 = Hex(2, 0, 0, 0) /\ AreDigits(2, 0, 0, 0)
    BY DEF Hex, AreDigits, Digit
  <2>2. x & Hex(2, 0, 0, 0) = Hex(And4(a, 2), And4(b, 0), And4(c, 0), And4(d, 0))
    BY <1>1, <2>1, WordsMeet
  <2>3. x & 2 = 2 * ((a \div 2) % 2)
    BY <1>2, <2>1, <2>2, DigitMasks DEF Hex, Digit
  <2>4. 2 * ((x \div 2) % 2) = 2 * ((a \div 2) % 2)
    BY <1>1, <1>2 DEF Hex, Digit
  <2> QED
    BY <2>3, <2>4
<1> QED
  BY <1>3, <1>4, <1>5, <1>6, <1>7, <1>8, <1>9

----------------------------------------------------------------------------
(* The moves and the writes, field by field, at the sizes of the PPU.      *)

\* A name table of 32 by 30 tiles.
RealSizes == Cols = 32 /\ Rows = 30 /\ RowCodes = 32

FieldsAre(f, cx, cy, nx, ny, fy) ==
  /\ cx \in 0 .. 31 /\ cy \in 0 .. 31 /\ nx \in {0, 1} /\ ny \in {0, 1} /\ fy \in 0 .. 7
  /\ f = [cx |-> cx, cy |-> cy, nx |-> nx, ny |-> ny, fy |-> fy]

\* The values determine the record.
LEMMA SameFields ==
  ASSUME NEW cx, NEW cy, NEW nx, NEW ny, NEW fy,
         NEW f, FieldsAre(f, cx, cy, nx, ny, fy), NEW g, FieldsAre(g, cx, cy, nx, ny, fy)
  PROVE  f = g
BY DEF FieldsAre

\* A record of five fields, each shown to have its value.
LEMMA FieldByField ==
  ASSUME NEW f, f = [cx |-> f.cx, cy |-> f.cy, nx |-> f.nx, ny |-> f.ny, fy |-> f.fy],
         f.cx \in 0 .. 31, f.cy \in 0 .. 31, f.nx \in {0, 1}, f.ny \in {0, 1}, f.fy \in 0 .. 7
  PROVE  FieldsAre(f, f.cx, f.cy, f.nx, f.ny, f.fy)
BY DEF FieldsAre

\* One column to the right, and into the other table from the last one.
LEMMA MovedRight ==
  ASSUME RealSizes, NEW cx, NEW cy, NEW nx, NEW ny, NEW fy,
         NEW f, FieldsAre(f, cx, cy, nx, ny, fy)
  PROVE  FieldsAre(IncrementScrollX(f),
                   (IF cx = 31 THEN 0 ELSE cx + 1), cy,
                   (IF cx = 31 THEN 1 - nx ELSE nx), ny, fy)
<1>1. PICK w : w = IncrementScrollX(f)
  OBVIOUS
<1>2. w = [cx |-> w.cx, cy |-> w.cy, nx |-> w.nx, ny |-> w.ny, fy |-> w.fy]
  BY <1>1 DEF IncrementScrollX, FieldsAre
<1>3. w.cx = (IF cx = 31 THEN 0 ELSE cx + 1) /\ w.cx \in 0 .. 31
  BY <1>1 DEF IncrementScrollX, RealSizes, FieldsAre
<1>4. w.cy = cy /\ w.cy \in 0 .. 31
  BY <1>1 DEF IncrementScrollX, RealSizes, FieldsAre
<1>5. w.nx = (IF cx = 31 THEN 1 - nx ELSE nx) /\ w.nx \in {0, 1}
  BY <1>1 DEF IncrementScrollX, RealSizes, FieldsAre
<1>6. w.ny = ny /\ w.ny \in {0, 1}
  BY <1>1 DEF IncrementScrollX, RealSizes, FieldsAre
<1>7. w.fy = fy /\ w.fy \in 0 .. 7
  BY <1>1 DEF IncrementScrollX, RealSizes, FieldsAre
<1> QED
  BY <1>1, <1>2, <1>3, <1>4, <1>5, <1>6, <1>7, FieldByField

\* One row down: from the last tile row into the other table, from the last attribute
\* row to the top of its own.
LEMMA NextRow ==
  ASSUME RealSizes, NEW cx, NEW cy, NEW nx, NEW ny, NEW fy,
         NEW f, FieldsAre(f, cx, cy, nx, ny, fy)
  PROVE  FieldsAre(NextCoarseY(f),
                   cx, (IF cy \in {29, 31} THEN 0 ELSE cy + 1),
                   nx, (IF cy = 29 THEN 1 - ny ELSE ny), fy)
<1>1. PICK w : w = NextCoarseY(f)
  OBVIOUS
<1>2. w = [cx |-> w.cx, cy |-> w.cy, nx |-> w.nx, ny |-> w.ny, fy |-> w.fy]
  BY <1>1 DEF NextCoarseY, FieldsAre
<1>3. w.cx = cx /\ w.cx \in 0 .. 31
  BY <1>1 DEF NextCoarseY, RealSizes, FieldsAre
<1>4. w.cy = (IF cy \in {29, 31} THEN 0 ELSE cy + 1) /\ w.cy \in 0 .. 31
  BY <1>1 DEF NextCoarseY, RealSizes, FieldsAre
<1>5. w.nx = nx /\ w.nx \in {0, 1}
  BY <1>1 DEF NextCoarseY, RealSizes, FieldsAre
<1>6. w.ny = (IF cy = 29 THEN 1 - ny ELSE ny) /\ w.ny \in {0, 1}
  BY <1>1 DEF NextCoarseY, RealSizes, FieldsAre
<1>7. w.fy = fy /\ w.fy \in 0 .. 7
  BY <1>1 DEF NextCoarseY, RealSizes, FieldsAre
<1> QED
  BY <1>1, <1>2, <1>3, <1>4, <1>5, <1>6, <1>7, FieldByField

\* One line down, within the tile or into the next row.
LEMMA DroppedLine ==
  ASSUME RealSizes, NEW cx, NEW cy, NEW nx, NEW ny, NEW fy,
         NEW f, FieldsAre(f, cx, cy, nx, ny, fy), fy # 7
  PROVE  FieldsAre(IncrementScrollY(f), cx, cy, nx, ny, fy + 1)
<1>1. IncrementScrollY(f) = [f EXCEPT !.fy = fy + 1]
  BY DEF IncrementScrollY, TileSize, FieldsAre
<1> QED
  BY <1>1 DEF FieldsAre

\* From the bottom line of a tile to the top one of the next row.
LEMMA MovedDown ==
  ASSUME RealSizes, NEW cx, NEW cy, NEW nx, NEW ny, NEW f, FieldsAre(f, cx, cy, nx, ny, 7)
  PROVE  FieldsAre(IncrementScrollY(f),
                   cx, (IF cy \in {29, 31} THEN 0 ELSE cy + 1),
                   nx, (IF cy = 29 THEN 1 - ny ELSE ny), 0)
<1>1. PICK g : g = [f EXCEPT !.fy = 0]
  OBVIOUS
<1>2. IncrementScrollY(f) = NextCoarseY(g)
  BY <1>1 DEF IncrementScrollY, TileSize, FieldsAre
<1>3. FieldsAre(g, cx, cy, nx, ny, 0)
  BY <1>1 DEF FieldsAre
<1> QED
  BY <1>2, <1>3, NextRow

\* PPUDATA steps by a row: each field that overflows carries into the next.
LEMMA RowAdded ==
  ASSUME RealSizes, NEW cx, NEW cy, NEW nx, NEW ny, NEW fy,
         NEW f, FieldsAre(f, cx, cy, nx, ny, fy)
  PROVE  FieldsAre(AddRow(f),
                   cx, (IF cy = 31 THEN 0 ELSE cy + 1),
                   (IF cy = 31 THEN 1 - nx ELSE nx),
                   (IF cy = 31 /\ nx = 1 THEN 1 - ny ELSE ny),
                   (fy + (IF cy = 31 /\ nx = 1 /\ ny = 1 THEN 1 ELSE 0)) % 4)
<1>1. PICK w : w = AddRow(f)
  OBVIOUS
<1>2. w = [cx |-> w.cx, cy |-> w.cy, nx |-> w.nx, ny |-> w.ny, fy |-> w.fy]
  BY <1>1 DEF AddRow, FieldsAre
<1>3. w.cx = cx /\ w.cx \in 0 .. 31
  BY <1>1 DEF AddRow, RealSizes, FieldsAre
<1>4. w.cy = (IF cy = 31 THEN 0 ELSE cy + 1) /\ w.cy \in 0 .. 31
  BY <1>1 DEF AddRow, RealSizes, FieldsAre
<1>5. w.nx = (IF cy = 31 THEN 1 - nx ELSE nx) /\ w.nx \in {0, 1}
  BY <1>1 DEF AddRow, RealSizes, FieldsAre
<1>6. w.ny = (IF cy = 31 /\ nx = 1 THEN 1 - ny ELSE ny) /\ w.ny \in {0, 1}
  BY <1>1 DEF AddRow, RealSizes, FieldsAre
<1>7. w.fy = (fy + (IF cy = 31 /\ nx = 1 /\ ny = 1 THEN 1 ELSE 0)) % 4 /\ w.fy \in 0 .. 7
  BY <1>1 DEF AddRow, RealSizes, FieldsAre
<1> QED
  BY <1>1, <1>2, <1>3, <1>4, <1>5, <1>6, <1>7, FieldByField

\* PPUDATA steps by a column, short of the last one.
LEMMA ColumnAdded ==
  ASSUME RealSizes, NEW cx, NEW cy, NEW nx, NEW ny, NEW fy,
         NEW f, FieldsAre(f, cx, cy, nx, ny, fy), cx # 31
  PROVE  FieldsAre(AddColumn(f), cx + 1, cy, nx, ny, fy % 4)
<1>1. PICK w : w = [f EXCEPT !.cx = cx + 1, !.fy = fy % 4]
  OBVIOUS
<1>2. AddColumn(f) = w
  BY <1>1 DEF AddColumn, RealSizes, FieldsAre
<1>3. w = [cx |-> w.cx, cy |-> w.cy, nx |-> w.nx, ny |-> w.ny, fy |-> w.fy]
  BY <1>1 DEF FieldsAre
<1>4. w.cx = cx + 1 /\ w.cx \in 0 .. 31 /\ w.cy = cy /\ w.cy \in 0 .. 31
  BY <1>1 DEF FieldsAre
<1>5. w.nx = nx /\ w.nx \in {0, 1} /\ w.ny = ny /\ w.ny \in {0, 1}
  BY <1>1 DEF FieldsAre
<1>6. w.fy = fy % 4 /\ w.fy \in 0 .. 7
  BY <1>1 DEF FieldsAre
<1> QED
  BY <1>2, <1>3, <1>4, <1>5, <1>6, FieldByField

\* copy_horizontal_bits.
LEMMA CopiedAcross ==
  ASSUME RealSizes, NEW cx, NEW cy, NEW nx, NEW ny, NEW fy,
         NEW f, FieldsAre(f, cx, cy, nx, ny, fy),
         NEW cx1, NEW cy1, NEW nx1, NEW ny1, NEW fy1,
         NEW t, FieldsAre(t, cx1, cy1, nx1, ny1, fy1)
  PROVE  FieldsAre(CopyHorizontalBits(f, t),
                   cx1, cy, nx1, ny, fy)
<1>1. PICK w : w = CopyHorizontalBits(f, t)
  OBVIOUS
<1>2. w = [cx |-> w.cx, cy |-> w.cy, nx |-> w.nx, ny |-> w.ny, fy |-> w.fy]
  BY <1>1 DEF CopyHorizontalBits, FieldsAre
<1>3. w.cx = cx1 /\ w.cx \in 0 .. 31
  BY <1>1 DEF CopyHorizontalBits, RealSizes, FieldsAre
<1>4. w.cy = cy /\ w.cy \in 0 .. 31
  BY <1>1 DEF CopyHorizontalBits, RealSizes, FieldsAre
<1>5. w.nx = nx1 /\ w.nx \in {0, 1}
  BY <1>1 DEF CopyHorizontalBits, RealSizes, FieldsAre
<1>6. w.ny = ny /\ w.ny \in {0, 1}
  BY <1>1 DEF CopyHorizontalBits, RealSizes, FieldsAre
<1>7. w.fy = fy /\ w.fy \in 0 .. 7
  BY <1>1 DEF CopyHorizontalBits, RealSizes, FieldsAre
<1> QED
  BY <1>1, <1>2, <1>3, <1>4, <1>5, <1>6, <1>7, FieldByField

\* copy_vertical_bits.
LEMMA CopiedDown ==
  ASSUME RealSizes, NEW cx, NEW cy, NEW nx, NEW ny, NEW fy,
         NEW f, FieldsAre(f, cx, cy, nx, ny, fy),
         NEW cx1, NEW cy1, NEW nx1, NEW ny1, NEW fy1,
         NEW t, FieldsAre(t, cx1, cy1, nx1, ny1, fy1)
  PROVE  FieldsAre(CopyVerticalBits(f, t),
                   cx, cy1, nx, ny1, fy1)
<1>1. PICK w : w = CopyVerticalBits(f, t)
  OBVIOUS
<1>2. w = [cx |-> w.cx, cy |-> w.cy, nx |-> w.nx, ny |-> w.ny, fy |-> w.fy]
  BY <1>1 DEF CopyVerticalBits, FieldsAre
<1>3. w.cx = cx /\ w.cx \in 0 .. 31
  BY <1>1 DEF CopyVerticalBits, RealSizes, FieldsAre
<1>4. w.cy = cy1 /\ w.cy \in 0 .. 31
  BY <1>1 DEF CopyVerticalBits, RealSizes, FieldsAre
<1>5. w.nx = nx /\ w.nx \in {0, 1}
  BY <1>1 DEF CopyVerticalBits, RealSizes, FieldsAre
<1>6. w.ny = ny1 /\ w.ny \in {0, 1}
  BY <1>1 DEF CopyVerticalBits, RealSizes, FieldsAre
<1>7. w.fy = fy1 /\ w.fy \in 0 .. 7
  BY <1>1 DEF CopyVerticalBits, RealSizes, FieldsAre
<1> QED
  BY <1>1, <1>2, <1>3, <1>4, <1>5, <1>6, <1>7, FieldByField

\* A byte b written to PPUCTRL: its two bits of the name table.
LEMMA Selected ==
  ASSUME RealSizes, NEW cx, NEW cy, NEW nx, NEW ny, NEW fy,
         NEW f, FieldsAre(f, cx, cy, nx, ny, fy), NEW b \in 0 .. 255
  PROVE  FieldsAre(SelectNameTable(f, b % 2, (b \div 2) % 2),
                   cx, cy, b % 2, (b \div 2) % 2, fy)
<1>1. PICK w : w = SelectNameTable(f, b % 2, (b \div 2) % 2)
  OBVIOUS
<1>2. w = [cx |-> w.cx, cy |-> w.cy, nx |-> w.nx, ny |-> w.ny, fy |-> w.fy]
  BY <1>1 DEF SelectNameTable, FieldsAre
<1>3. w.cx = cx /\ w.cx \in 0 .. 31
  BY <1>1 DEF SelectNameTable, RealSizes, FieldsAre
<1>4. w.cy = cy /\ w.cy \in 0 .. 31
  BY <1>1 DEF SelectNameTable, RealSizes, FieldsAre
<1>5. w.nx = b % 2 /\ w.nx \in {0, 1}
  BY <1>1 DEF SelectNameTable, RealSizes, FieldsAre
<1>6. w.ny = (b \div 2) % 2 /\ w.ny \in {0, 1}
  BY <1>1 DEF SelectNameTable, RealSizes, FieldsAre
<1>7. w.fy = fy /\ w.fy \in 0 .. 7
  BY <1>1 DEF SelectNameTable, RealSizes, FieldsAre
<1> QED
  BY <1>1, <1>2, <1>3, <1>4, <1>5, <1>6, <1>7, FieldByField

\* PPUSCROLL, first write: coarse x.
LEMMA ScrolledFirst ==
  ASSUME RealSizes, NEW cx, NEW cy, NEW nx, NEW ny, NEW fy,
         NEW f, FieldsAre(f, cx, cy, nx, ny, fy), NEW b \in 0 .. 255
  PROVE  FieldsAre(ScrollFirst(f, ScrollOf(b)),
                   b \div 8, cy, nx, ny, fy)
<1>1. PICK w : w = ScrollFirst(f, ScrollOf(b))
  OBVIOUS
<1>2. w = [cx |-> w.cx, cy |-> w.cy, nx |-> w.nx, ny |-> w.ny, fy |-> w.fy]
  BY <1>1 DEF ScrollFirst, ScrollOf, FieldsAre
<1>3. w.cx = b \div 8 /\ w.cx \in 0 .. 31
  BY <1>1 DEF ScrollFirst, ScrollOf, RealSizes, FieldsAre
<1>4. w.cy = cy /\ w.cy \in 0 .. 31
  BY <1>1 DEF ScrollFirst, ScrollOf, RealSizes, FieldsAre
<1>5. w.nx = nx /\ w.nx \in {0, 1}
  BY <1>1 DEF ScrollFirst, ScrollOf, RealSizes, FieldsAre
<1>6. w.ny = ny /\ w.ny \in {0, 1}
  BY <1>1 DEF ScrollFirst, ScrollOf, RealSizes, FieldsAre
<1>7. w.fy = fy /\ w.fy \in 0 .. 7
  BY <1>1 DEF ScrollFirst, ScrollOf, RealSizes, FieldsAre
<1> QED
  BY <1>1, <1>2, <1>3, <1>4, <1>5, <1>6, <1>7, FieldByField

\* PPUSCROLL, second write: coarse and fine y.
LEMMA ScrolledSecond ==
  ASSUME RealSizes, NEW cx, NEW cy, NEW nx, NEW ny, NEW fy,
         NEW f, FieldsAre(f, cx, cy, nx, ny, fy), NEW b \in 0 .. 255
  PROVE  FieldsAre(ScrollSecond(f, ScrollOf(b)),
                   cx, b \div 8, nx, ny, b % 8)
<1>1. PICK w : w = ScrollSecond(f, ScrollOf(b))
  OBVIOUS
<1>2. w = [cx |-> w.cx, cy |-> w.cy, nx |-> w.nx, ny |-> w.ny, fy |-> w.fy]
  BY <1>1 DEF ScrollSecond, ScrollOf, FieldsAre
<1>3. w.cx = cx /\ w.cx \in 0 .. 31
  BY <1>1 DEF ScrollSecond, ScrollOf, RealSizes, FieldsAre
<1>4. w.cy = b \div 8 /\ w.cy \in 0 .. 31
  BY <1>1 DEF ScrollSecond, ScrollOf, RealSizes, FieldsAre
<1>5. w.nx = nx /\ w.nx \in {0, 1}
  BY <1>1 DEF ScrollSecond, ScrollOf, RealSizes, FieldsAre
<1>6. w.ny = ny /\ w.ny \in {0, 1}
  BY <1>1 DEF ScrollSecond, ScrollOf, RealSizes, FieldsAre
<1>7. w.fy = b % 8 /\ w.fy \in 0 .. 7
  BY <1>1 DEF ScrollSecond, ScrollOf, RealSizes, FieldsAre
<1> QED
  BY <1>1, <1>2, <1>3, <1>4, <1>5, <1>6, <1>7, FieldByField

\* PPUADDR, first write: fine y, the table and the upper half of coarse y.
LEMMA AddressedFirst ==
  ASSUME RealSizes, NEW cx, NEW cy, NEW nx, NEW ny, NEW fy,
         NEW f, FieldsAre(f, cx, cy, nx, ny, fy), NEW b \in 0 .. 255
  PROVE  FieldsAre(AddrFirst(f, HighByteOf(b)),
                   cx, 8 * (b % 4) + (cy % 8), (b \div 4) % 2, (b \div 8) % 2, (b \div 16) % 4)
<1>1. PICK w : w = AddrFirst(f, HighByteOf(b))
  OBVIOUS
<1>2. w = [cx |-> w.cx, cy |-> w.cy, nx |-> w.nx, ny |-> w.ny, fy |-> w.fy]
  BY <1>1 DEF AddrFirst, HighByteOf, FieldsAre
<1>3. w.cx = cx /\ w.cx \in 0 .. 31
  BY <1>1 DEF AddrFirst, HighByteOf, RealSizes, FieldsAre
<1>4. w.cy = 8 * (b % 4) + (cy % 8) /\ w.cy \in 0 .. 31
  BY <1>1 DEF AddrFirst, HighByteOf, RealSizes, FieldsAre
<1>5. w.nx = (b \div 4) % 2 /\ w.nx \in {0, 1}
  BY <1>1 DEF AddrFirst, HighByteOf, RealSizes, FieldsAre
<1>6. w.ny = (b \div 8) % 2 /\ w.ny \in {0, 1}
  BY <1>1 DEF AddrFirst, HighByteOf, RealSizes, FieldsAre
<1>7. w.fy = (b \div 16) % 4 /\ w.fy \in 0 .. 7
  BY <1>1 DEF AddrFirst, HighByteOf, RealSizes, FieldsAre
<1> QED
  BY <1>1, <1>2, <1>3, <1>4, <1>5, <1>6, <1>7, FieldByField

\* PPUADDR, second write: the lower half of coarse y, and coarse x.
LEMMA AddressedSecond ==
  ASSUME RealSizes, NEW cx, NEW cy, NEW nx, NEW ny, NEW fy,
         NEW f, FieldsAre(f, cx, cy, nx, ny, fy), NEW b \in 0 .. 255
  PROVE  FieldsAre(AddrSecond(f, LowByteOf(b)),
                   b % 32, 8 * (cy \div 8) + (b \div 32), nx, ny, fy)
<1>1. PICK w : w = AddrSecond(f, LowByteOf(b))
  OBVIOUS
<1>2. w = [cx |-> w.cx, cy |-> w.cy, nx |-> w.nx, ny |-> w.ny, fy |-> w.fy]
  BY <1>1 DEF AddrSecond, LowByteOf, ZeroAddress, FieldsAre
<1>3. w.cx = b % 32 /\ w.cx \in 0 .. 31
  BY <1>1 DEF AddrSecond, LowByteOf, ZeroAddress, RealSizes, FieldsAre
<1>4. w.cy = 8 * (cy \div 8) + (b \div 32) /\ w.cy \in 0 .. 31
  BY <1>1 DEF AddrSecond, LowByteOf, ZeroAddress, RealSizes, FieldsAre
<1>5. w.nx = nx /\ w.nx \in {0, 1}
  BY <1>1 DEF AddrSecond, LowByteOf, ZeroAddress, RealSizes, FieldsAre
<1>6. w.ny = ny /\ w.ny \in {0, 1}
  BY <1>1 DEF AddrSecond, LowByteOf, ZeroAddress, RealSizes, FieldsAre
<1>7. w.fy = fy /\ w.fy \in 0 .. 7
  BY <1>1 DEF AddrSecond, LowByteOf, ZeroAddress, RealSizes, FieldsAre
<1> QED
  BY <1>1, <1>2, <1>3, <1>4, <1>5, <1>6, <1>7, FieldByField

----------------------------------------------------------------------------
(* Fields of words.  Coarse x is a + 16 i, over two digits of the word, and *)
(* coarse y is l + 8 h, where PPUADDR splits it too.                       *)

Parts(a, i, l, h, nx, ny, fy) ==
  a + 16 * i + 32 * l + 256 * h + 1024 * nx + 2048 * ny + 4096 * fy

AreParts(a, i, l, h, nx, ny, fy) ==
  /\ a \in Digit /\ i \in {0, 1} /\ l \in 0 .. 7 /\ h \in 0 .. 3
  /\ nx \in {0, 1} /\ ny \in {0, 1} /\ fy \in 0 .. 7

\* What either address register can hold.
AddressWord == {x \in Nat : x < WordLimit}

\* The digits of a word from its fields: the second and the third are shared by several.
LEMMA PartsAreDigits ==
  ASSUME NEW a, NEW i, NEW l, NEW h, NEW nx, NEW ny, NEW fy, AreParts(a, i, l, h, nx, ny, fy)
  PROVE  /\ AreDigits(a, i + 2 * l, h + 4 * nx + 8 * ny, fy)
         /\ Parts(a, i, l, h, nx, ny, fy) = Hex(a, i + 2 * l, h + 4 * nx + 8 * ny, fy)
<1>1. AreDigits(a, i + 2 * l, h + 4 * nx + 8 * ny, fy)
  BY DEF AreDigits, AreParts, Digit
<1>2. Parts(a, i, l, h, nx, ny, fy) = Hex(a, i + 2 * l, h + 4 * nx + 8 * ny, fy)
  BY DEF AreParts, Digit, Parts, Hex
<1> QED
  BY <1>1, <1>2

\* Every word an address register can hold has fields.
LEMMA HasParts ==
  \A x \in AddressWord : \E a, i, l, h, nx, ny, fy :
    AreParts(a, i, l, h, nx, ny, fy) /\ x = Parts(a, i, l, h, nx, ny, fy)
<1> SUFFICES ASSUME NEW x \in AddressWord
             PROVE  \E a, i, l, h, nx, ny, fy :
                      AreParts(a, i, l, h, nx, ny, fy) /\ x = Parts(a, i, l, h, nx, ny, fy)
  OBVIOUS
<1> DEFINE a == x % 16
           i == (x \div 16) % 2
           l == (x \div 32) % 8
           h == (x \div 256) % 4
           nx == (x \div 1024) % 2
           ny == (x \div 2048) % 2
           fy == x \div 4096
<1>0. x \in Nat /\ x < 32768
  BY DEF AddressWord, WordLimit
<1>1. a \in Digit /\ i \in {0, 1} /\ l \in 0 .. 7 /\ h \in 0 .. 3
  BY <1>0 DEF Digit
<1>2. nx \in {0, 1} /\ ny \in {0, 1} /\ fy \in 0 .. 7
  BY <1>0
<1>3. x = a + 16 * (x \div 16) /\ x \div 16 = i + 2 * (x \div 32)
  BY <1>0
<1>4. x \div 32 = l + 8 * (x \div 256) /\ x \div 256 = h + 4 * (x \div 1024)
  BY <1>0
<1>5. x \div 1024 = nx + 2 * (x \div 2048) /\ x \div 2048 = ny + 2 * fy
  BY <1>0
<1>6. x = Parts(a, i, l, h, nx, ny, fy)
  BY <1>0, <1>1, <1>2, <1>3, <1>4, <1>5 DEF Digit, Parts
<1>7. AreParts(a, i, l, h, nx, ny, fy)
  BY <1>1, <1>2 DEF AreParts
<1> HIDE DEF a, i, l, h, nx, ny, fy
<1> QED
  BY <1>6, <1>7

\* A word and the record of its fields.
LEMMA PartsAreFields ==
  ASSUME NEW a, NEW i, NEW l, NEW h, NEW nx, NEW ny, NEW fy, AreParts(a, i, l, h, nx, ny, fy)
  PROVE  /\ Parts(a, i, l, h, nx, ny, fy) \in AddressWord
         /\ FieldsAre(Fields(Parts(a, i, l, h, nx, ny, fy)), a + 16 * i, l + 8 * h, nx, ny, fy)
<1> DEFINE x == Parts(a, i, l, h, nx, ny, fy)
<1>1. x \in Nat /\ x <= 32767
  BY DEF AreParts, Digit, Parts
<1>2. x % 32 = a + 16 * i
  BY DEF AreParts, Digit, Parts
<1>3. (x \div 32) % 32 = l + 8 * h
  BY DEF AreParts, Digit, Parts
<1>4. (x \div 1024) % 2 = nx
  BY DEF AreParts, Digit, Parts
<1>5. (x \div 2048) % 2 = ny
  BY DEF AreParts, Digit, Parts
<1>6. (x \div 4096) % 8 = fy
  BY DEF AreParts, Digit, Parts
<1> HIDE DEF x
<1>7. x \in AddressWord
  BY <1>1, SMT DEF AddressWord, WordLimit
<1>8. Fields(x) = [cx |-> a + 16 * i, cy |-> l + 8 * h, nx |-> nx, ny |-> ny, fy |-> fy]
  BY <1>2, <1>3, <1>4, <1>5, <1>6 DEF Fields
<1>9. /\ a + 16 * i \in 0 .. 31 /\ l + 8 * h \in 0 .. 31
      /\ nx \in {0, 1} /\ ny \in {0, 1} /\ fy \in 0 .. 7
  BY DEF AreParts, Digit
<1> QED
  BY <1>7, <1>8, <1>9 DEF x, FieldsAre

\* What is left of the digits when a mask cuts a field out of them.
LEMMA CutDigits ==
  ASSUME NEW a, NEW i, NEW l, NEW h, NEW nx, NEW ny, NEW fy, AreParts(a, i, l, h, nx, ny, fy)
  PROVE  /\ And4(a, 0) = 0 /\ And4(a, 15) = a
         /\ And4(i + 2 * l, 0) = 0 /\ And4(i + 2 * l, 15) = i + 2 * l
         /\ And4(i + 2 * l, 1) = i /\ And4(i + 2 * l, 14) = 2 * l
         /\ And4(h + 4 * nx + 8 * ny, 0) = 0
         /\ And4(h + 4 * nx + 8 * ny, 15) = h + 4 * nx + 8 * ny
         /\ And4(h + 4 * nx + 8 * ny, 3) = h
         /\ And4(h + 4 * nx + 8 * ny, 12) = 4 * nx + 8 * ny
         /\ And4(h + 4 * nx + 8 * ny, 4) = 4 * nx
         /\ And4(h + 4 * nx + 8 * ny, 11) = h + 8 * ny
         /\ And4(fy, 0) = 0 /\ And4(fy, 15) = fy
         /\ And4(fy, 7) = fy /\ And4(fy, 8) = 0
<1>0. /\ i \in {0, 1} /\ l \in 0 .. 7 /\ h \in 0 .. 3
      /\ nx \in {0, 1} /\ ny \in {0, 1} /\ fy \in 0 .. 7
      /\ a \in Digit /\ i + 2 * l \in Digit /\ h + 4 * nx + 8 * ny \in Digit /\ fy \in Digit
  BY DEF AreParts, Digit
<1>1. And4(i + 2 * l, 1) = i /\ And4(i + 2 * l, 14) = 2 * l
  BY <1>0 DEF And4, OfBits, Bit
<1>2. And4(h + 4 * nx + 8 * ny, 3) = h /\ And4(h + 4 * nx + 8 * ny, 12) = 4 * nx + 8 * ny
  BY <1>0 DEF And4, OfBits, Bit
<1>3. And4(h + 4 * nx + 8 * ny, 4) = 4 * nx /\ And4(h + 4 * nx + 8 * ny, 11) = h + 8 * ny
  BY <1>0 DEF And4, OfBits, Bit
<1>4. And4(fy, 7) = fy /\ And4(fy, 8) = 0
  BY <1>0 DEF And4, OfBits, Bit
<1>5. /\ And4(a, 0) = 0 /\ And4(a, 15) = a
      /\ And4(i + 2 * l, 0) = 0 /\ And4(i + 2 * l, 15) = i + 2 * l
      /\ And4(h + 4 * nx + 8 * ny, 0) = 0
      /\ And4(h + 4 * nx + 8 * ny, 15) = h + 4 * nx + 8 * ny
      /\ And4(fy, 0) = 0 /\ And4(fy, 15) = fy
  BY <1>0, DigitMasks
<1> QED
  BY <1>1, <1>2, <1>3, <1>4, <1>5

\* Each mask of the code keeps the fields it is written for.
LEMMA PartsMasks ==
  ASSUME NEW a, NEW i, NEW l, NEW h, NEW nx, NEW ny, NEW fy, AreParts(a, i, l, h, nx, ny, fy)
  PROVE  /\ Parts(a, i, l, h, nx, ny, fy) & 31 = Parts(a, i, 0, 0, 0, 0, 0)
         /\ Parts(a, i, l, h, nx, ny, fy) & 65504 = Parts(0, 0, l, h, nx, ny, fy)
         /\ Parts(a, i, l, h, nx, ny, fy) & 28672 = Parts(0, 0, 0, 0, 0, 0, fy)
         /\ Parts(a, i, l, h, nx, ny, fy) & 36863 = Parts(a, i, l, h, nx, ny, 0)
         /\ Parts(a, i, l, h, nx, ny, fy) & 64543 = Parts(a, i, 0, 0, nx, ny, fy)
         /\ Parts(a, i, l, h, nx, ny, fy) & 1055 = Parts(a, i, 0, 0, nx, 0, 0)
         /\ Parts(a, i, l, h, nx, ny, fy) & 64480 = Parts(0, 0, l, h, 0, ny, fy)
         /\ Parts(a, i, l, h, nx, ny, fy) & 31712 = Parts(0, 0, l, h, 0, ny, fy)
         /\ Parts(a, i, l, h, nx, ny, fy) & 33823 = Parts(a, i, 0, 0, nx, 0, 0)
         /\ Parts(a, i, l, h, nx, ny, fy) & 62463 = Parts(a, i, l, h, 0, 0, fy)
         /\ Parts(a, i, l, h, nx, ny, fy) & 35871 = Parts(a, i, 0, 0, nx, ny, 0)
         /\ Parts(a, i, l, h, nx, ny, fy) & 255 = Parts(a, i, l, 0, 0, 0, 0)
         /\ Parts(a, i, l, h, nx, ny, fy) & 65280 = Parts(0, 0, 0, h, nx, ny, fy)
<1> DEFINE x == Parts(a, i, l, h, nx, ny, fy)
<1>1. /\ AreDigits(a, i + 2 * l, h + 4 * nx + 8 * ny, fy)
      /\ x = Hex(a, i + 2 * l, h + 4 * nx + 8 * ny, fy)
  BY PartsAreDigits
<1>2. /\ i \in Nat /\ l \in Nat /\ h \in Nat /\ nx \in Nat /\ ny \in Nat /\ fy \in Nat /\ a \in Nat
  BY DEF AreParts, Digit
<1> HIDE DEF x
<1>3. x & 31 = Parts(a, i, 0, 0, 0, 0, 0)
  <2>1. 31 = Hex(15, 1, 0, 0) /\ AreDigits(15, 1, 0, 0)
    BY DEF Hex, AreDigits, Digit
  <2>2. x & Hex(15, 1, 0, 0) = Hex(And4(a, 15), And4(i + 2 * l, 1),
                          And4(h + 4 * nx + 8 * ny, 0), And4(fy, 0))
    BY <1>1, <2>1, WordsMeet
  <2> QED
    BY <1>2, <2>1, <2>2, CutDigits DEF Hex, Parts
<1>4. x & 65504 = Parts(0, 0, l, h, nx, ny, fy)
  <2>1. 65504 = Hex(0, 14, 15, 15) /\ AreDigits(0, 14, 15, 15)
    BY DEF Hex, AreDigits, Digit
  <2>2. x & Hex(0, 14, 15, 15) = Hex(And4(a, 0), And4(i + 2 * l, 14),
                          And4(h + 4 * nx + 8 * ny, 15), And4(fy, 15))
    BY <1>1, <2>1, WordsMeet
  <2> QED
    BY <1>2, <2>1, <2>2, CutDigits DEF Hex, Parts
<1>5. x & 28672 = Parts(0, 0, 0, 0, 0, 0, fy)
  <2>1. 28672 = Hex(0, 0, 0, 7) /\ AreDigits(0, 0, 0, 7)
    BY DEF Hex, AreDigits, Digit
  <2>2. x & Hex(0, 0, 0, 7) = Hex(And4(a, 0), And4(i + 2 * l, 0),
                          And4(h + 4 * nx + 8 * ny, 0), And4(fy, 7))
    BY <1>1, <2>1, WordsMeet
  <2> QED
    BY <1>2, <2>1, <2>2, CutDigits DEF Hex, Parts
<1>6. x & 36863 = Parts(a, i, l, h, nx, ny, 0)
  <2>1. 36863 = Hex(15, 15, 15, 8) /\ AreDigits(15, 15, 15, 8)
    BY DEF Hex, AreDigits, Digit
  <2>2. x & Hex(15, 15, 15, 8) = Hex(And4(a, 15), And4(i + 2 * l, 15),
                          And4(h + 4 * nx + 8 * ny, 15), And4(fy, 8))
    BY <1>1, <2>1, WordsMeet
  <2> QED
    BY <1>2, <2>1, <2>2, CutDigits DEF Hex, Parts
<1>7. x & 64543 = Parts(a, i, 0, 0, nx, ny, fy)
  <2>1. 64543 = Hex(15, 1, 12, 15) /\ AreDigits(15, 1, 12, 15)
    BY DEF Hex, AreDigits, Digit
  <2>2. x & Hex(15, 1, 12, 15) = Hex(And4(a, 15), And4(i + 2 * l, 1),
                          And4(h + 4 * nx + 8 * ny, 12), And4(fy, 15))
    BY <1>1, <2>1, WordsMeet
  <2> QED
    BY <1>2, <2>1, <2>2, CutDigits DEF Hex, Parts
<1>8. x & 1055 = Parts(a, i, 0, 0, nx, 0, 0)
  <2>1. 1055 = Hex(15, 1, 4, 0) /\ AreDigits(15, 1, 4, 0)
    BY DEF Hex, AreDigits, Digit
  <2>2. x & Hex(15, 1, 4, 0) = Hex(And4(a, 15), And4(i + 2 * l, 1),
                          And4(h + 4 * nx + 8 * ny, 4), And4(fy, 0))
    BY <1>1, <2>1, WordsMeet
  <2> QED
    BY <1>2, <2>1, <2>2, CutDigits DEF Hex, Parts
<1>9. x & 64480 = Parts(0, 0, l, h, 0, ny, fy)
  <2>1. 64480 = Hex(0, 14, 11, 15) /\ AreDigits(0, 14, 11, 15)
    BY DEF Hex, AreDigits, Digit
  <2>2. x & Hex(0, 14, 11, 15) = Hex(And4(a, 0), And4(i + 2 * l, 14),
                          And4(h + 4 * nx + 8 * ny, 11), And4(fy, 15))
    BY <1>1, <2>1, WordsMeet
  <2> QED
    BY <1>2, <2>1, <2>2, CutDigits DEF Hex, Parts
<1>10. x & 31712 = Parts(0, 0, l, h, 0, ny, fy)
  <2>1. 31712 = Hex(0, 14, 11, 7) /\ AreDigits(0, 14, 11, 7)
    BY DEF Hex, AreDigits, Digit
  <2>2. x & Hex(0, 14, 11, 7) = Hex(And4(a, 0), And4(i + 2 * l, 14),
                          And4(h + 4 * nx + 8 * ny, 11), And4(fy, 7))
    BY <1>1, <2>1, WordsMeet
  <2> QED
    BY <1>2, <2>1, <2>2, CutDigits DEF Hex, Parts
<1>11. x & 33823 = Parts(a, i, 0, 0, nx, 0, 0)
  <2>1. 33823 = Hex(15, 1, 4, 8) /\ AreDigits(15, 1, 4, 8)
    BY DEF Hex, AreDigits, Digit
  <2>2. x & Hex(15, 1, 4, 8) = Hex(And4(a, 15), And4(i + 2 * l, 1),
                          And4(h + 4 * nx + 8 * ny, 4), And4(fy, 8))
    BY <1>1, <2>1, WordsMeet
  <2> QED
    BY <1>2, <2>1, <2>2, CutDigits DEF Hex, Parts
<1>12. x & 62463 = Parts(a, i, l, h, 0, 0, fy)
  <2>1. 62463 = Hex(15, 15, 3, 15) /\ AreDigits(15, 15, 3, 15)
    BY DEF Hex, AreDigits, Digit
  <2>2. x & Hex(15, 15, 3, 15) = Hex(And4(a, 15), And4(i + 2 * l, 15),
                          And4(h + 4 * nx + 8 * ny, 3), And4(fy, 15))
    BY <1>1, <2>1, WordsMeet
  <2> QED
    BY <1>2, <2>1, <2>2, CutDigits DEF Hex, Parts
<1>13. x & 35871 = Parts(a, i, 0, 0, nx, ny, 0)
  <2>1. 35871 = Hex(15, 1, 12, 8) /\ AreDigits(15, 1, 12, 8)
    BY DEF Hex, AreDigits, Digit
  <2>2. x & Hex(15, 1, 12, 8) = Hex(And4(a, 15), And4(i + 2 * l, 1),
                          And4(h + 4 * nx + 8 * ny, 12), And4(fy, 8))
    BY <1>1, <2>1, WordsMeet
  <2> QED
    BY <1>2, <2>1, <2>2, CutDigits DEF Hex, Parts
<1>14. x & 255 = Parts(a, i, l, 0, 0, 0, 0)
  <2>1. 255 = Hex(15, 15, 0, 0) /\ AreDigits(15, 15, 0, 0)
    BY DEF Hex, AreDigits, Digit
  <2>2. x & Hex(15, 15, 0, 0) = Hex(And4(a, 15), And4(i + 2 * l, 15),
                          And4(h + 4 * nx + 8 * ny, 0), And4(fy, 0))
    BY <1>1, <2>1, WordsMeet
  <2> QED
    BY <1>2, <2>1, <2>2, CutDigits DEF Hex, Parts
<1>15. x & 65280 = Parts(0, 0, 0, h, nx, ny, fy)
  <2>1. 65280 = Hex(0, 0, 15, 15) /\ AreDigits(0, 0, 15, 15)
    BY DEF Hex, AreDigits, Digit
  <2>2. x & Hex(0, 0, 15, 15) = Hex(And4(a, 0), And4(i + 2 * l, 0),
                          And4(h + 4 * nx + 8 * ny, 15), And4(fy, 15))
    BY <1>1, <2>1, WordsMeet
  <2> QED
    BY <1>2, <2>1, <2>2, CutDigits DEF Hex, Parts
<1> QED
  BY <1>3, <1>4, <1>5, <1>6, <1>7, <1>8, <1>9, <1>10, <1>11, <1>12, <1>13, <1>14, <1>15 DEF x

\* Joining words that have no field in common adds them.
LEMMA PartsJoin ==
  ASSUME NEW a, NEW i, NEW l, NEW h, NEW nx, NEW ny, NEW fy, AreParts(a, i, l, h, nx, ny, fy),
         NEW a1, NEW i1, NEW l1, NEW h1, NEW nx1, NEW ny1, NEW fy1,
         AreParts(a1, i1, l1, h1, nx1, ny1, fy1),
         a = 0 \/ a1 = 0, i = 0 \/ i1 = 0, l = 0 \/ l1 = 0, h = 0 \/ h1 = 0,
         nx = 0 \/ nx1 = 0, ny = 0 \/ ny1 = 0, fy = 0 \/ fy1 = 0
  PROVE  (Parts(a, i, l, h, nx, ny, fy) | Parts(a1, i1, l1, h1, nx1, ny1, fy1))
           = Parts(a + a1, i + i1, l + l1, h + h1, nx + nx1, ny + ny1, fy + fy1)
<1>1. /\ AreDigits(a, i + 2 * l, h + 4 * nx + 8 * ny, fy)
      /\ Parts(a, i, l, h, nx, ny, fy) = Hex(a, i + 2 * l, h + 4 * nx + 8 * ny, fy)
  BY PartsAreDigits
<1>2. /\ AreDigits(a1, i1 + 2 * l1, h1 + 4 * nx1 + 8 * ny1, fy1)
      /\ Parts(a1, i1, l1, h1, nx1, ny1, fy1) = Hex(a1, i1 + 2 * l1, h1 + 4 * nx1 + 8 * ny1, fy1)
  BY PartsAreDigits
<1>3. (Parts(a, i, l, h, nx, ny, fy) | Parts(a1, i1, l1, h1, nx1, ny1, fy1))
        = Hex(Or4(a, a1), Or4(i + 2 * l, i1 + 2 * l1),
              Or4(h + 4 * nx + 8 * ny, h1 + 4 * nx1 + 8 * ny1), Or4(fy, fy1))
  BY <1>1, <1>2, WordsMeet
<1>4. /\ a \in Digit /\ i \in {0, 1} /\ l \in 0 .. 7 /\ h \in 0 .. 3
      /\ nx \in {0, 1} /\ ny \in {0, 1} /\ fy \in 0 .. 7
      /\ a1 \in Digit /\ i1 \in {0, 1} /\ l1 \in 0 .. 7 /\ h1 \in 0 .. 3
      /\ nx1 \in {0, 1} /\ ny1 \in {0, 1} /\ fy1 \in 0 .. 7
  BY DEF AreParts
<1>5. Or4(a, a1) = a + a1
  BY <1>4 DEF Or4, OfBits, Bit, Digit
<1>6. Or4(i + 2 * l, i1 + 2 * l1) = i + i1 + 2 * l + 2 * l1
  BY <1>4 DEF Or4, OfBits, Bit
<1>7. Or4(h + 4 * nx + 8 * ny, h1 + 4 * nx1 + 8 * ny1)
        = h + h1 + 4 * nx + 4 * nx1 + 8 * ny + 8 * ny1
  BY <1>4 DEF Or4, OfBits, Bit
<1>8. Or4(fy, fy1) = fy + fy1
  BY <1>4 DEF Or4, OfBits, Bit
<1> QED
  BY <1>3, <1>4, <1>5, <1>6, <1>7, <1>8 DEF Digit, Hex, Parts

\* The two flips of a name table.
LEMMA PartsFlip ==
  ASSUME NEW a, NEW i, NEW l, NEW h, NEW nx, NEW ny, NEW fy, AreParts(a, i, l, h, nx, ny, fy)
  PROVE  /\ Parts(a, i, l, h, nx, ny, fy) ^^ 1024 = Parts(a, i, l, h, 1 - nx, ny, fy)
         /\ Parts(a, i, l, h, nx, ny, fy) ^^ 2048 = Parts(a, i, l, h, nx, 1 - ny, fy)
<1> DEFINE x == Parts(a, i, l, h, nx, ny, fy)
<1>1. /\ AreDigits(a, i + 2 * l, h + 4 * nx + 8 * ny, fy)
      /\ x = Hex(a, i + 2 * l, h + 4 * nx + 8 * ny, fy)
  BY PartsAreDigits
<1>2. /\ a \in Digit /\ i \in {0, 1} /\ l \in 0 .. 7 /\ h \in 0 .. 3
      /\ nx \in {0, 1} /\ ny \in {0, 1} /\ fy \in 0 .. 7 /\ fy \in Digit /\ i + 2 * l \in Digit
  BY DEF AreParts, Digit
<1>3. \A d \in Digit : Xor4(d, 0) = d
  BY DEF Xor4, OfBits, Bit, Digit
<1>4. /\ Xor4(h + 4 * nx + 8 * ny, 4) = h + 4 * (1 - nx) + 8 * ny
      /\ Xor4(h + 4 * nx + 8 * ny, 8) = h + 4 * nx + 8 * (1 - ny)
  BY <1>2 DEF Xor4, OfBits, Bit
<1>5. Xor4(a, 0) = a /\ Xor4(i + 2 * l, 0) = i + 2 * l /\ Xor4(fy, 0) = fy
  BY <1>2, <1>3
<1> HIDE DEF x
<1>6. x ^^ 1024 = Parts(a, i, l, h, 1 - nx, ny, fy)
  <2>1. 1024 = Hex(0, 0, 4, 0) /\ AreDigits(0, 0, 4, 0)
    BY DEF Hex, AreDigits, Digit
  <2>2. x ^^ Hex(0, 0, 4, 0)
          = Hex(Xor4(a, 0), Xor4(i + 2 * l, 0), Xor4(h + 4 * nx + 8 * ny, 4), Xor4(fy, 0))
    BY <1>1, <2>1, WordsMeet
  <2> QED
    BY <1>2, <1>4, <1>5, <2>1, <2>2 DEF Hex, Parts, Digit
<1>7. x ^^ 2048 = Parts(a, i, l, h, nx, 1 - ny, fy)
  <2>1. 2048 = Hex(0, 0, 8, 0) /\ AreDigits(0, 0, 8, 0)
    BY DEF Hex, AreDigits, Digit
  <2>2. x ^^ Hex(0, 0, 8, 0)
          = Hex(Xor4(a, 0), Xor4(i + 2 * l, 0), Xor4(h + 4 * nx + 8 * ny, 8), Xor4(fy, 0))
    BY <1>1, <2>1, WordsMeet
  <2> QED
    BY <1>2, <1>4, <1>5, <2>1, <2>2 DEF Hex, Parts, Digit
<1> QED
  BY <1>6, <1>7 DEF x

----------------------------------------------------------------------------
(* Each C expression does to the fields what its operator does.            *)

\* increment_scroll_x: with all of coarse x set it is cleared and the table
\* flipped, otherwise the addition stays within it.
LEMMA IncrementXAgrees ==
  ASSUME RealSizes, NEW v \in AddressWord
  PROVE  /\ WordIncrementX(v) \in AddressWord
         /\ Fields(WordIncrementX(v)) = IncrementScrollX(Fields(v))
<1>1. PICK a, i, l, h, nx, ny, fy :
        AreParts(a, i, l, h, nx, ny, fy) /\ v = Parts(a, i, l, h, nx, ny, fy)
  BY HasParts
<1>2. /\ a \in 0 .. 15 /\ i \in {0, 1} /\ l \in 0 .. 7 /\ h \in 0 .. 3
      /\ nx \in {0, 1} /\ ny \in {0, 1} /\ fy \in 0 .. 7
  BY <1>1 DEF AreParts, Digit
<1>3. FieldsAre(Fields(v), a + 16 * i, l + 8 * h, nx, ny, fy)
  BY <1>1, PartsAreFields
<1>4. v & 31 = a + 16 * i
  BY <1>1, <1>2, PartsMasks DEF Parts
<1>5. CASE a + 16 * i = 31
  <2>1. WordIncrementX(v) = (v & 65504) ^^ 1024
    BY <1>4, <1>5 DEF WordIncrementX, Not16
  <2>2. AreParts(0, 0, l, h, nx, ny, fy) /\ AreParts(0, 0, l, h, 1 - nx, ny, fy)
    BY <1>2 DEF AreParts, Digit
  <2>3. WordIncrementX(v) = Parts(0, 0, l, h, 1 - nx, ny, fy)
    BY <1>1, <2>1, <2>2, PartsMasks, PartsFlip
  <2>4. /\ WordIncrementX(v) \in AddressWord
        /\ FieldsAre(Fields(WordIncrementX(v)), 0, l + 8 * h, 1 - nx, ny, fy)
    BY <2>2, <2>3, PartsAreFields
  <2>5. FieldsAre(IncrementScrollX(Fields(v)), 0, l + 8 * h, 1 - nx, ny, fy)
    BY <1>3, <1>5, MovedRight
  <2> QED
    BY <2>4, <2>5, SameFields
<1>6. CASE a + 16 * i # 31
  <2> DEFINE a1 == IF a = 15 THEN 0 ELSE a + 1
             i1 == IF a = 15 THEN 1 ELSE i
  <2>1. AreParts(a1, i1, l, h, nx, ny, fy) /\ a1 + 16 * i1 = a + 16 * i + 1
    BY <1>2, <1>6 DEF AreParts, Digit
  <2>2. WordIncrementX(v) = v + 1
    BY <1>4, <1>6 DEF WordIncrementX
  <2>3. WordIncrementX(v) = Parts(a1, i1, l, h, nx, ny, fy)
    BY <1>1, <1>2, <2>1, <2>2 DEF Parts
  <2> HIDE DEF a1, i1
  <2>4. /\ WordIncrementX(v) \in AddressWord
        /\ FieldsAre(Fields(WordIncrementX(v)), a + 16 * i + 1, l + 8 * h, nx, ny, fy)
    BY <2>1, <2>3, PartsAreFields
  <2>5. FieldsAre(IncrementScrollX(Fields(v)), a + 16 * i + 1, l + 8 * h, nx, ny, fy)
    BY <1>3, <1>6, MovedRight
  <2> QED
    BY <2>4, <2>5, SameFields
<1> QED
  BY <1>5, <1>6

\* A coarse y in its place, as increment_scroll_y and PPUSCROLL write it.
LEMMA RowParts ==
  ASSUME NEW n \in 0 .. 31
  PROVE  /\ AreParts(0, 0, n % 8, n \div 8, 0, 0, 0)
         /\ n * 32 = Parts(0, 0, n % 8, n \div 8, 0, 0, 0)
         /\ (n % 8) + 8 * (n \div 8) = n
<1>1. n % 8 \in 0 .. 7 /\ n \div 8 \in 0 .. 3 /\ (n % 8) + 8 * (n \div 8) = n
  OBVIOUS
<1>2. AreParts(0, 0, n % 8, n \div 8, 0, 0, 0)
  BY <1>1 DEF AreParts, Digit
<1>3. n * 32 = Parts(0, 0, n % 8, n \div 8, 0, 0, 0)
  BY <1>1 DEF Parts
<1> QED
  BY <1>1, <1>2, <1>3

\* increment_scroll_y: fine y is stepped, or cleared and coarse y stepped.
LEMMA IncrementYAgrees ==
  ASSUME RealSizes, NEW v \in AddressWord
  PROVE  /\ WordIncrementY(v) \in AddressWord
         /\ Fields(WordIncrementY(v)) = IncrementScrollY(Fields(v))
<1>1. PICK a, i, l, h, nx, ny, fy :
        AreParts(a, i, l, h, nx, ny, fy) /\ v = Parts(a, i, l, h, nx, ny, fy)
  BY HasParts
<1>2. /\ a \in 0 .. 15 /\ i \in {0, 1} /\ l \in 0 .. 7 /\ h \in 0 .. 3
      /\ nx \in {0, 1} /\ ny \in {0, 1} /\ fy \in 0 .. 7
  BY <1>1 DEF AreParts, Digit
<1>3. FieldsAre(Fields(v), a + 16 * i, l + 8 * h, nx, ny, fy)
  BY <1>1, PartsAreFields
<1>4. v & 28672 = 4096 * fy
  BY <1>1, <1>2, PartsMasks DEF Parts
<1>5. CASE fy # 7
  <2>1. v & 28672 # 28672
    BY <1>2, <1>4, <1>5
  <2>2. WordIncrementY(v) = v + 4096
    BY <2>1 DEF WordIncrementY
  <2>3. AreParts(a, i, l, h, nx, ny, fy + 1)
    BY <1>2, <1>5 DEF AreParts, Digit
  <2>4. WordIncrementY(v) = Parts(a, i, l, h, nx, ny, fy + 1)
    BY <1>1, <1>2, <2>2 DEF Parts
  <2>5. /\ WordIncrementY(v) \in AddressWord
        /\ FieldsAre(Fields(WordIncrementY(v)), a + 16 * i, l + 8 * h, nx, ny, fy + 1)
    BY <2>3, <2>4, PartsAreFields
  <2>6. FieldsAre(IncrementScrollY(Fields(v)), a + 16 * i, l + 8 * h, nx, ny, fy + 1)
    BY <1>3, <1>5, DroppedLine
  <2> QED
    BY <2>5, <2>6, SameFields
<1>6. CASE fy = 7
  <2> DEFINE w      == v & Not16(28672)
             coarse == (w \div 32) & 31
             u      == IF coarse = 29 THEN w ^^ 2048 ELSE w
             next   == IF coarse \in {29, 31} THEN 0 ELSE coarse + 1
             ny1    == IF l + 8 * h = 29 THEN 1 - ny ELSE ny
  <2>1. v & 28672 = 28672
    BY <1>4, <1>6
  <2>2. WordIncrementY(v) = (u & Not16(992)) | (next * 32)
    BY <2>1 DEF WordIncrementY
  <2>3. AreParts(a, i, l, h, nx, ny, 0) /\ w = Parts(a, i, l, h, nx, ny, 0)
    <3>1. AreParts(a, i, l, h, nx, ny, 0)
      BY <1>2 DEF AreParts, Digit
    <3>2. Not16(28672) = 36863
      BY DEF Not16
    <3> QED
      BY <1>1, <3>1, <3>2, PartsMasks
  <2> HIDE DEF w
  <2>4. coarse = l + 8 * h
    <3>1. w \in Nat /\ w < 32768
      BY <2>3, PartsAreFields, SMT DEF AddressWord, WordLimit
    <3>2. w \div 32 \in Word
      BY <3>1 DEF Word
    <3>3. coarse = (w \div 32) % 32
      BY <3>2, Remainders
    <3>4. FieldsAre(Fields(w), a + 16 * i, l + 8 * h, nx, ny, 0)
      BY <2>3, PartsAreFields
    <3> QED
      BY <3>3, <3>4 DEF Fields, FieldsAre
  <2> HIDE DEF coarse
  <2>5. AreParts(a, i, l, h, nx, ny1, 0) /\ u = Parts(a, i, l, h, nx, ny1, 0)
    <3>1. AreParts(a, i, l, h, nx, ny1, 0)
      BY <1>2 DEF AreParts, Digit
    <3>2. CASE l + 8 * h = 29
      BY <2>3, <2>4, <3>1, <3>2, PartsFlip
    <3>3. CASE l + 8 * h # 29
      BY <2>3, <2>4, <3>1, <3>3
    <3> QED
      BY <3>2, <3>3
  <2>6. next \in 0 .. 31 /\ next = (IF l + 8 * h \in {29, 31} THEN 0 ELSE l + 8 * h + 1)
    BY <1>2, <2>4
  <2>7. ny1 \in {0, 1} /\ ny1 = (IF l + 8 * h = 29 THEN 1 - ny ELSE ny)
    BY <1>2
  <2> HIDE DEF u, next, ny1
  <2>8. u & Not16(992) = Parts(a, i, 0, 0, nx, ny1, 0)
    <3>1. Not16(992) = 64543
      BY DEF Not16
    <3> QED
      BY <2>5, <3>1, PartsMasks
  <2>9. AreParts(a, i, 0, 0, nx, ny1, 0)
    BY <1>2, <2>7 DEF AreParts, Digit
  <2>10. /\ AreParts(0, 0, next % 8, next \div 8, 0, 0, 0)
         /\ next * 32 = Parts(0, 0, next % 8, next \div 8, 0, 0, 0)
         /\ (next % 8) + 8 * (next \div 8) = next
    BY <2>6, RowParts
  <2>11. next % 8 \in 0 .. 7 /\ next \div 8 \in 0 .. 3
    BY <2>6
  <2>12. WordIncrementY(v)
           = Parts(a + 0, i + 0, 0 + (next % 8), 0 + (next \div 8), nx + 0, ny1 + 0, 0 + 0)
    BY <2>2, <2>8, <2>9, <2>10, PartsJoin
  <2>13. /\ WordIncrementY(v) = Parts(a, i, next % 8, next \div 8, nx, ny1, 0)
         /\ AreParts(a, i, next % 8, next \div 8, nx, ny1, 0)
    BY <1>2, <2>7, <2>11, <2>12 DEF AreParts, Digit
  <2>14. /\ WordIncrementY(v) \in AddressWord
         /\ FieldsAre(Fields(WordIncrementY(v)), a + 16 * i, next, nx, ny1, 0)
    BY <2>10, <2>13, PartsAreFields
  <2>15. FieldsAre(IncrementScrollY(Fields(v)), a + 16 * i, next, nx, ny1, 0)
    BY <1>3, <1>6, <2>6, <2>7, MovedDown
  <2> QED
    BY <2>14, <2>15, SameFields
<1> QED
  BY <1>5, <1>6

\* The copies put the fields of one word among those of another.
LEMMA CopiesAgree ==
  ASSUME RealSizes, NEW v \in AddressWord, NEW t \in AddressWord
  PROVE  /\ Fields(WordCopyHorizontal(v, t)) = CopyHorizontalBits(Fields(v), Fields(t))
         /\ Fields(WordCopyVertical(v, t)) = CopyVerticalBits(Fields(v), Fields(t))
<1>1. PICK a, i, l, h, nx, ny, fy :
        AreParts(a, i, l, h, nx, ny, fy) /\ v = Parts(a, i, l, h, nx, ny, fy)
  BY HasParts
<1>2. PICK a1, i1, l1, h1, nx1, ny1, fy1 :
        AreParts(a1, i1, l1, h1, nx1, ny1, fy1) /\ t = Parts(a1, i1, l1, h1, nx1, ny1, fy1)
  BY HasParts
<1>3. /\ AreParts(0, 0, l, h, 0, ny, fy) /\ AreParts(a1, i1, 0, 0, nx1, 0, 0)
      /\ AreParts(a, i, 0, 0, nx, 0, 0) /\ AreParts(0, 0, l1, h1, 0, ny1, fy1)
      /\ AreParts(a1, i1, l, h, nx1, ny, fy) /\ AreParts(a, i, l1, h1, nx, ny1, fy1)
  BY <1>1, <1>2 DEF AreParts, Digit
<1>4. /\ FieldsAre(Fields(v), a + 16 * i, l + 8 * h, nx, ny, fy)
      /\ FieldsAre(Fields(t), a1 + 16 * i1, l1 + 8 * h1, nx1, ny1, fy1)
  BY <1>1, <1>2, PartsAreFields
<1>5. Not16(1055) = 64480 /\ Not16(31712) = 33823
  BY DEF Not16
<1>6. Fields(WordCopyHorizontal(v, t)) = CopyHorizontalBits(Fields(v), Fields(t))
  <2>1. /\ v & Not16(1055) = Parts(0, 0, l, h, 0, ny, fy)
        /\ t & 1055 = Parts(a1, i1, 0, 0, nx1, 0, 0)
    BY <1>1, <1>2, <1>5, PartsMasks
  <2>2. WordCopyHorizontal(v, t)
          = Parts(0 + a1, 0 + i1, l + 0, h + 0, 0 + nx1, ny + 0, fy + 0)
    BY <1>3, <2>1, PartsJoin DEF WordCopyHorizontal
  <2>3. WordCopyHorizontal(v, t) = Parts(a1, i1, l, h, nx1, ny, fy)
    BY <1>3, <2>2 DEF AreParts, Digit
  <2>4. FieldsAre(Fields(WordCopyHorizontal(v, t)), a1 + 16 * i1, l + 8 * h, nx1, ny, fy)
    BY <1>3, <2>3, PartsAreFields
  <2>5. FieldsAre(CopyHorizontalBits(Fields(v), Fields(t)),
                  a1 + 16 * i1, l + 8 * h, nx1, ny, fy)
    BY <1>4, CopiedAcross
  <2> QED
    BY <2>4, <2>5, SameFields
<1>7. Fields(WordCopyVertical(v, t)) = CopyVerticalBits(Fields(v), Fields(t))
  <2>1. /\ v & Not16(31712) = Parts(a, i, 0, 0, nx, 0, 0)
        /\ t & 31712 = Parts(0, 0, l1, h1, 0, ny1, fy1)
    BY <1>1, <1>2, <1>5, PartsMasks
  <2>2. WordCopyVertical(v, t)
          = Parts(a + 0, i + 0, 0 + l1, 0 + h1, nx + 0, 0 + ny1, 0 + fy1)
    BY <1>3, <2>1, PartsJoin DEF WordCopyVertical
  <2>3. WordCopyVertical(v, t) = Parts(a, i, l1, h1, nx, ny1, fy1)
    BY <1>3, <2>2 DEF AreParts, Digit
  <2>4. FieldsAre(Fields(WordCopyVertical(v, t)), a + 16 * i, l1 + 8 * h1, nx, ny1, fy1)
    BY <1>3, <2>3, PartsAreFields
  <2>5. FieldsAre(CopyVerticalBits(Fields(v), Fields(t)),
                  a + 16 * i, l1 + 8 * h1, nx, ny1, fy1)
    BY <1>4, CopiedDown
  <2> QED
    BY <2>4, <2>5, SameFields
<1> QED
  BY <1>6, <1>7

\* PPUDATA: the carries run through the fields of the word by themselves, and
\* the mask cuts the top bit of fine y off.
LEMMA RowStepAgrees ==
  ASSUME RealSizes, NEW u \in AddressWord
  PROVE  Fields((u + 32) % 16384) = AddRow(Fields(u))
<1>1. PICK a, i, l, h, nx, ny, fy :
        AreParts(a, i, l, h, nx, ny, fy) /\ u = Parts(a, i, l, h, nx, ny, fy)
  BY HasParts
<1>2. /\ a \in 0 .. 15 /\ i \in {0, 1} /\ l \in 0 .. 7 /\ h \in 0 .. 3
      /\ nx \in {0, 1} /\ ny \in {0, 1} /\ fy \in 0 .. 7
  BY <1>1 DEF AreParts, Digit
<1> DEFINE last == l = 7 /\ h = 3
           l1  == IF l = 7 THEN 0 ELSE l + 1
           h1  == IF last THEN 0 ELSE IF l = 7 THEN h + 1 ELSE h
           nx1 == IF last THEN 1 - nx ELSE nx
           ny1 == IF last /\ nx = 1 THEN 1 - ny ELSE ny
           fy0 == IF last /\ nx = 1 /\ ny = 1 THEN fy + 1 ELSE fy
           fy1 == fy0 % 4
           more == 4 * (fy0 \div 4)
<1>3. AreParts(a, i, l1, h1, nx1, ny1, fy1)
  BY <1>2 DEF AreParts, Digit
<1>4. u + 32 = a + 16 * i + 32 * l1 + 256 * h1 + 1024 * nx1 + 2048 * ny1 + 4096 * fy0
  BY <1>1, <1>2 DEF Parts
<1>5. fy0 = fy1 + more /\ more \in {0, 4, 8}
  BY <1>2
<1>6. /\ l1 + 8 * h1 = (IF l + 8 * h = 31 THEN 0 ELSE l + 8 * h + 1)
      /\ nx1 = (IF l + 8 * h = 31 THEN 1 - nx ELSE nx)
      /\ ny1 = (IF l + 8 * h = 31 /\ nx = 1 THEN 1 - ny ELSE ny)
      /\ fy1 = (fy + (IF l + 8 * h = 31 /\ nx = 1 /\ ny = 1 THEN 1 ELSE 0)) % 4
  BY <1>2
<1> HIDE DEF last, l1, h1, nx1, ny1, fy0, fy1, more
<1>7. /\ Parts(a, i, l1, h1, nx1, ny1, fy1) \in Nat
      /\ Parts(a, i, l1, h1, nx1, ny1, fy1) < 16384
      /\ u + 32 = Parts(a, i, l1, h1, nx1, ny1, fy1) + 4096 * more
  <2>1. fy1 \in 0 .. 3
    BY <1>2 DEF fy1, fy0
  <2> QED
    BY <1>3, <1>4, <1>5, <2>1 DEF AreParts, Digit, Parts
<1>8. (u + 32) % 16384 = Parts(a, i, l1, h1, nx1, ny1, fy1)
  BY <1>5, <1>7
<1>9. FieldsAre(Fields((u + 32) % 16384), a + 16 * i, l1 + 8 * h1, nx1, ny1, fy1)
  BY <1>3, <1>8, PartsAreFields
<1>10. FieldsAre(Fields(u), a + 16 * i, l + 8 * h, nx, ny, fy)
  BY <1>1, PartsAreFields
<1>11. FieldsAre(AddRow(Fields(u)), a + 16 * i, l1 + 8 * h1, nx1, ny1, fy1)
  BY <1>6, <1>10, RowAdded
<1> QED
  BY <1>9, <1>11, SameFields

\* Both steps of PPUDATA: a column from the last one is a row from the first.
LEMMA StepsAgree ==
  ASSUME RealSizes, NEW v \in AddressWord, NEW byRow \in BOOLEAN
  PROVE  Fields(WordStep(v, byRow)) = StepAddress(Fields(v), byRow)
<1>1. v \in Nat /\ v < 32768
  BY SMT DEF AddressWord, WordLimit
<1>2. \A n \in {1, 32} : ((v + n) % 65536) & 16383 = (v + n) % 16384
  <2>1. TAKE n \in {1, 32}
  <2>2. (v + n) % 65536 = v + n
    BY <1>1
  <2>3. v + n \in Word
    BY <1>1 DEF Word
  <2> QED
    BY <2>2, <2>3, Remainders
<1>3. CASE byRow
  <2>1. WordStep(v, byRow) = (v + 32) % 16384
    BY <1>2, <1>3 DEF WordStep
  <2>2. StepAddress(Fields(v), byRow) = AddRow(Fields(v))
    BY <1>3, Zenon DEF StepAddress
  <2> QED
    BY <2>1, <2>2, RowStepAgrees
<1>4. CASE ~byRow
  <2>1. WordStep(v, byRow) = (v + 1) % 16384
    BY <1>2, <1>4 DEF WordStep
  <2>2. PICK a, i, l, h, nx, ny, fy :
          AreParts(a, i, l, h, nx, ny, fy) /\ v = Parts(a, i, l, h, nx, ny, fy)
    BY HasParts
  <2>3. /\ a \in 0 .. 15 /\ i \in {0, 1} /\ l \in 0 .. 7 /\ h \in 0 .. 3
        /\ nx \in {0, 1} /\ ny \in {0, 1} /\ fy \in 0 .. 7
    BY <2>2 DEF AreParts, Digit
  <2>4. FieldsAre(Fields(v), a + 16 * i, l + 8 * h, nx, ny, fy)
    BY <2>2, PartsAreFields
  <2>5. CASE a + 16 * i = 31
    <3>1. AreParts(0, 0, l, h, nx, ny, fy)
      BY <2>3 DEF AreParts, Digit
    <3>2. v + 1 = Parts(0, 0, l, h, nx, ny, fy) + 32
      BY <2>2, <2>3, <2>5 DEF Parts
    <3>3. /\ Parts(0, 0, l, h, nx, ny, fy) \in AddressWord
          /\ FieldsAre(Fields(Parts(0, 0, l, h, nx, ny, fy)), 0, l + 8 * h, nx, ny, fy)
      BY <3>1, PartsAreFields
    <3>4. Fields(WordStep(v, byRow)) = AddRow(Fields(Parts(0, 0, l, h, nx, ny, fy)))
      BY <2>1, <3>2, <3>3, RowStepAgrees
    <3>5. Fields(Parts(0, 0, l, h, nx, ny, fy)) = [Fields(v) EXCEPT !.cx = 0]
      BY <2>4, <3>3 DEF FieldsAre
    <3>6. AddColumn(Fields(v)) = AddRow([Fields(v) EXCEPT !.cx = 0])
      BY <2>4, <2>5 DEF AddColumn, FieldsAre, RealSizes
    <3> QED
      BY <1>4, <3>4, <3>5, <3>6 DEF StepAddress
  <2>6. CASE a + 16 * i # 31
    <3> DEFINE a1  == IF a = 15 THEN 0 ELSE a + 1
               i1  == IF a = 15 THEN 1 ELSE i
               fy1 == fy % 4
    <3>1. AreParts(a1, i1, l, h, nx, ny, fy1) /\ a1 + 16 * i1 = a + 16 * i + 1
      BY <2>3, <2>6 DEF AreParts, Digit
    <3>2. fy = fy1 + 4 * (fy \div 4) /\ fy \div 4 \in {0, 1} /\ fy1 \in 0 .. 3
      BY <2>3
    <3> HIDE DEF a1, i1, fy1
    <3>3. /\ v + 1 = Parts(a1, i1, l, h, nx, ny, fy1) + 16384 * (fy \div 4)
          /\ Parts(a1, i1, l, h, nx, ny, fy1) \in Nat
          /\ Parts(a1, i1, l, h, nx, ny, fy1) < 16384
      BY <2>2, <2>3, <3>1, <3>2 DEF AreParts, Digit, Parts
    <3>4. WordStep(v, byRow) = Parts(a1, i1, l, h, nx, ny, fy1)
      <4>1. CASE fy \div 4 = 0
        BY <2>1, <3>3, <4>1
      <4>2. CASE fy \div 4 = 1
        BY <2>1, <3>3, <4>2
      <4> QED
        BY <3>2, <4>1, <4>2
    <3>5. FieldsAre(Fields(WordStep(v, byRow)), a + 16 * i + 1, l + 8 * h, nx, ny, fy % 4)
      BY <3>1, <3>4, PartsAreFields DEF fy1
    <3>6. FieldsAre(AddColumn(Fields(v)), a + 16 * i + 1, l + 8 * h, nx, ny, fy % 4)
      BY <2>4, <2>6, ColumnAdded
    <3> QED
      BY <1>4, <3>5, <3>6, SameFields DEF StepAddress
  <2> QED
    BY <2>5, <2>6
<1> QED
  BY <1>3, <1>4

\* The register writes: each byte read as the fields its register holds, and
\* joined to what its mask leaves of temp_addr.
LEMMA CtrlAgrees ==
  ASSUME RealSizes, NEW t \in AddressWord, NEW b \in 0 .. 255
  PROVE  /\ WordCtrl(t, b) \in AddressWord
         /\ Fields(WordCtrl(t, b)) = SelectNameTable(Fields(t), b % 2, (b \div 2) % 2)
<1>1. PICK a, i, l, h, nx, ny, fy :
        AreParts(a, i, l, h, nx, ny, fy) /\ t = Parts(a, i, l, h, nx, ny, fy)
  BY HasParts
<1> DEFINE x == b % 2
           y == (b \div 2) % 2
<1>2. x \in {0, 1} /\ y \in {0, 1} /\ b % 4 = x + 2 * y
  OBVIOUS
<1>3. b & 3 = b % 4
  <2>1. b \in Word
    BY SMT DEF Word
  <2> QED
    BY <2>1, Remainders
<1> HIDE DEF x, y
<1>4. /\ AreParts(a, i, l, h, 0, 0, fy) /\ AreParts(0, 0, 0, 0, x, y, 0)
      /\ AreParts(a, i, l, h, x, y, fy)
  BY <1>1, <1>2 DEF AreParts, Digit
<1>5. t & 62463 = Parts(a, i, l, h, 0, 0, fy) /\ (b & 3) * 1024 = Parts(0, 0, 0, 0, x, y, 0)
  <2>1. (b & 3) * 1024 = Parts(0, 0, 0, 0, x, y, 0)
    BY <1>2, <1>3 DEF Parts
  <2> QED
    BY <1>1, <2>1, PartsMasks
<1>6. WordCtrl(t, b) = Parts(a + 0, i + 0, l + 0, h + 0, 0 + x, 0 + y, fy + 0)
  BY <1>4, <1>5, PartsJoin DEF WordCtrl
<1>7. WordCtrl(t, b) = Parts(a, i, l, h, x, y, fy)
  BY <1>4, <1>6 DEF AreParts, Digit
<1>8. /\ WordCtrl(t, b) \in AddressWord
      /\ FieldsAre(Fields(WordCtrl(t, b)), a + 16 * i, l + 8 * h, x, y, fy)
  BY <1>4, <1>7, PartsAreFields
<1>9. FieldsAre(Fields(t), a + 16 * i, l + 8 * h, nx, ny, fy)
  BY <1>1, PartsAreFields
<1>10. FieldsAre(SelectNameTable(Fields(t), x, y), a + 16 * i, l + 8 * h, x, y, fy)
  BY <1>9, Selected DEF x, y
<1> QED
  BY <1>8, <1>10, SameFields DEF x, y

\* Both writes to PPUSCROLL.
LEMMA ScrollAgrees ==
  ASSUME RealSizes, NEW t \in AddressWord, NEW b \in 0 .. 255
  PROVE  /\ WordScrollFirst(t, b) \in AddressWord
         /\ Fields(WordScrollFirst(t, b)) = ScrollFirst(Fields(t), ScrollOf(b))
         /\ WordScrollSecond(t, b) \in AddressWord
         /\ Fields(WordScrollSecond(t, b)) = ScrollSecond(Fields(t), ScrollOf(b))
<1>1. PICK a, i, l, h, nx, ny, fy :
        AreParts(a, i, l, h, nx, ny, fy) /\ t = Parts(a, i, l, h, nx, ny, fy)
  BY HasParts
<1>2. FieldsAre(Fields(t), a + 16 * i, l + 8 * h, nx, ny, fy)
  BY <1>1, PartsAreFields
<1> DEFINE n == b \div 8
           a1 == n % 16
           i1 == n \div 16
           l1 == n % 8
           h1 == n \div 8
           fy1 == b % 8
<1>3. n \in 0 .. 31 /\ fy1 \in 0 .. 7
  OBVIOUS
<1> HIDE DEF n
<1>4. a1 \in 0 .. 15 /\ i1 \in {0, 1} /\ a1 + 16 * i1 = n
  BY <1>3
<1>5. AreParts(0, 0, l1, h1, 0, 0, 0) /\ n * 32 = Parts(0, 0, l1, h1, 0, 0, 0) /\ l1 + 8 * h1 = n
  BY <1>3, RowParts
<1>6. b & 7 = fy1
  <2>1. b \in Word
    BY SMT DEF Word
  <2> QED
    BY <2>1, Remainders
<1> HIDE DEF a1, i1, l1, h1, fy1
<1>7. /\ WordScrollFirst(t, b) \in AddressWord
      /\ Fields(WordScrollFirst(t, b)) = ScrollFirst(Fields(t), ScrollOf(b))
  <2>1. /\ AreParts(0, 0, l, h, nx, ny, fy) /\ AreParts(a1, i1, 0, 0, 0, 0, 0)
        /\ AreParts(a1, i1, l, h, nx, ny, fy)
    BY <1>1, <1>4 DEF AreParts, Digit
  <2>2. b \div 8 = Parts(a1, i1, 0, 0, 0, 0, 0)
    BY <1>4 DEF Parts, n
  <2>3. t & 65504 = Parts(0, 0, l, h, nx, ny, fy)
    BY <1>1, PartsMasks
  <2>4. WordScrollFirst(t, b) = Parts(0 + a1, 0 + i1, l + 0, h + 0, nx + 0, ny + 0, fy + 0)
    BY <2>1, <2>2, <2>3, PartsJoin DEF WordScrollFirst
  <2>5. WordScrollFirst(t, b) = Parts(a1, i1, l, h, nx, ny, fy)
    BY <2>1, <2>4 DEF AreParts, Digit
  <2>6. /\ WordScrollFirst(t, b) \in AddressWord
        /\ FieldsAre(Fields(WordScrollFirst(t, b)), n, l + 8 * h, nx, ny, fy)
    BY <1>4, <2>1, <2>5, PartsAreFields
  <2>7. FieldsAre(ScrollFirst(Fields(t), ScrollOf(b)), n, l + 8 * h, nx, ny, fy)
    BY <1>2, ScrolledFirst DEF n
  <2> QED
    BY <2>6, <2>7, SameFields
<1>8. /\ WordScrollSecond(t, b) \in AddressWord
      /\ Fields(WordScrollSecond(t, b)) = ScrollSecond(Fields(t), ScrollOf(b))
  <2>1. l1 \in 0 .. 7 /\ h1 \in 0 .. 3
    BY <1>5 DEF AreParts
  <2>2. /\ AreParts(a, i, 0, 0, nx, ny, 0) /\ AreParts(0, 0, 0, 0, 0, 0, fy1)
        /\ AreParts(a, i, 0, 0, nx, ny, fy1) /\ AreParts(a, i, l1, h1, nx, ny, fy1)
    BY <1>1, <1>3, <2>1 DEF AreParts, Digit
  <2>3. (b & 7) * 4096 = Parts(0, 0, 0, 0, 0, 0, fy1)
    BY <1>3, <1>6 DEF Parts
  <2>4. t & 35871 = Parts(a, i, 0, 0, nx, ny, 0)
    BY <1>1, PartsMasks
  <2>5. ((t & 35871) | ((b & 7) * 4096))
          = Parts(a + 0, i + 0, 0 + 0, 0 + 0, nx + 0, ny + 0, 0 + fy1)
    BY <2>2, <2>3, <2>4, PartsJoin
  <2>6. ((t & 35871) | ((b & 7) * 4096)) = Parts(a, i, 0, 0, nx, ny, fy1)
    BY <2>2, <2>5 DEF AreParts, Digit
  <2>7. (b \div 8) * 32 = Parts(0, 0, l1, h1, 0, 0, 0)
    BY <1>5 DEF n
  <2>8. WordScrollSecond(t, b)
          = Parts(a + 0, i + 0, 0 + l1, 0 + h1, nx + 0, ny + 0, fy1 + 0)
    BY <1>5, <2>2, <2>6, <2>7, PartsJoin DEF WordScrollSecond
  <2>9. WordScrollSecond(t, b) = Parts(a, i, l1, h1, nx, ny, fy1)
    BY <2>2, <2>8 DEF AreParts, Digit
  <2>10. /\ WordScrollSecond(t, b) \in AddressWord
         /\ FieldsAre(Fields(WordScrollSecond(t, b)), a + 16 * i, n, nx, ny, fy1)
    BY <1>5, <2>2, <2>9, PartsAreFields
  <2>11. FieldsAre(ScrollSecond(Fields(t), ScrollOf(b)), a + 16 * i, n, nx, ny, fy1)
    BY <1>2, ScrolledSecond DEF n, fy1
  <2> QED
    BY <2>10, <2>11, SameFields
<1> QED
  BY <1>7, <1>8

\* Both writes to PPUADDR.
LEMMA AddrAgrees ==
  ASSUME RealSizes, NEW t \in AddressWord, NEW b \in 0 .. 255
  PROVE  /\ WordAddrFirst(t, b) \in AddressWord
         /\ Fields(WordAddrFirst(t, b)) = AddrFirst(Fields(t), HighByteOf(b))
         /\ WordAddrSecond(t, b) \in AddressWord
         /\ Fields(WordAddrSecond(t, b)) = AddrSecond(Fields(t), LowByteOf(b))
<1>1. PICK a, i, l, h, nx, ny, fy :
        AreParts(a, i, l, h, nx, ny, fy) /\ t = Parts(a, i, l, h, nx, ny, fy)
  BY HasParts
<1>2. FieldsAre(Fields(t), a + 16 * i, l + 8 * h, nx, ny, fy)
  BY <1>1, PartsAreFields
<1>3. l \in 0 .. 7 /\ h \in 0 .. 3 /\ (l + 8 * h) % 8 = l /\ (l + 8 * h) \div 8 = h
  BY <1>1 DEF AreParts
<1>4. /\ WordAddrFirst(t, b) \in AddressWord
      /\ Fields(WordAddrFirst(t, b)) = AddrFirst(Fields(t), HighByteOf(b))
  <2> DEFINE h1 == b % 4
             nx1 == (b \div 4) % 2
             ny1 == (b \div 8) % 2
             fy1 == (b \div 16) % 4
  <2>1. h1 \in 0 .. 3 /\ nx1 \in {0, 1} /\ ny1 \in {0, 1} /\ fy1 \in 0 .. 3
    OBVIOUS
  <2>2. b & 63 = h1 + 4 * nx1 + 8 * ny1 + 16 * fy1
    <3>1. b \in Word
      BY SMT DEF Word
    <3>2. b & 63 = b % 64
      BY <3>1, Remainders
    <3>3. b % 64 = h1 + 4 * nx1 + 8 * ny1 + 16 * fy1
      OBVIOUS
    <3> QED
      BY <3>2, <3>3
  <2> HIDE DEF h1, nx1, ny1, fy1
  <2>3. /\ AreParts(a, i, l, 0, 0, 0, 0) /\ AreParts(0, 0, 0, h1, nx1, ny1, fy1)
        /\ AreParts(a, i, l, h1, nx1, ny1, fy1)
    BY <1>1, <2>1 DEF AreParts, Digit
  <2>4. (b & 63) * 256 = Parts(0, 0, 0, h1, nx1, ny1, fy1)
    BY <2>1, <2>2 DEF Parts
  <2>5. t & 255 = Parts(a, i, l, 0, 0, 0, 0)
    BY <1>1, PartsMasks
  <2>6. WordAddrFirst(t, b) = Parts(a + 0, i + 0, l + 0, 0 + h1, 0 + nx1, 0 + ny1, 0 + fy1)
    BY <2>3, <2>4, <2>5, PartsJoin DEF WordAddrFirst
  <2>7. WordAddrFirst(t, b) = Parts(a, i, l, h1, nx1, ny1, fy1)
    BY <2>3, <2>6 DEF AreParts, Digit
  <2>8. /\ WordAddrFirst(t, b) \in AddressWord
        /\ FieldsAre(Fields(WordAddrFirst(t, b)), a + 16 * i, l + 8 * h1, nx1, ny1, fy1)
    BY <2>3, <2>7, PartsAreFields
  <2>9. FieldsAre(AddrFirst(Fields(t), HighByteOf(b)),
                  a + 16 * i, 8 * h1 + ((l + 8 * h) % 8), nx1, ny1, fy1)
    BY <1>2, AddressedFirst DEF h1, nx1, ny1, fy1
  <2>10. FieldsAre(AddrFirst(Fields(t), HighByteOf(b)), a + 16 * i, l + 8 * h1, nx1, ny1, fy1)
    BY <1>3, <2>1, <2>9
  <2> QED
    BY <2>8, <2>10, SameFields
<1>5. /\ WordAddrSecond(t, b) \in AddressWord
      /\ Fields(WordAddrSecond(t, b)) = AddrSecond(Fields(t), LowByteOf(b))
  <2> DEFINE a1 == b % 16
             i1 == (b \div 16) % 2
             l1 == b \div 32
  <2>1. a1 \in 0 .. 15 /\ i1 \in {0, 1} /\ l1 \in 0 .. 7
    OBVIOUS
  <2>2. b = a1 + 16 * i1 + 32 * l1 /\ b % 32 = a1 + 16 * i1
    OBVIOUS
  <2> HIDE DEF a1, i1, l1
  <2>3. /\ AreParts(0, 0, 0, h, nx, ny, fy) /\ AreParts(a1, i1, l1, 0, 0, 0, 0)
        /\ AreParts(a1, i1, l1, h, nx, ny, fy)
    BY <1>1, <2>1 DEF AreParts, Digit
  <2>4. b = Parts(a1, i1, l1, 0, 0, 0, 0)
    BY <2>1, <2>2 DEF Parts
  <2>5. t & 65280 = Parts(0, 0, 0, h, nx, ny, fy)
    BY <1>1, PartsMasks
  <2>6. WordAddrSecond(t, b) = Parts(0 + a1, 0 + i1, 0 + l1, h + 0, nx + 0, ny + 0, fy + 0)
    BY <2>3, <2>4, <2>5, PartsJoin DEF WordAddrSecond
  <2>7. WordAddrSecond(t, b) = Parts(a1, i1, l1, h, nx, ny, fy)
    BY <2>3, <2>6 DEF AreParts, Digit
  <2>8. /\ WordAddrSecond(t, b) \in AddressWord
        /\ FieldsAre(Fields(WordAddrSecond(t, b)), a1 + 16 * i1, l1 + 8 * h, nx, ny, fy)
    BY <2>3, <2>7, PartsAreFields
  <2>9. FieldsAre(AddrSecond(Fields(t), LowByteOf(b)),
                  b % 32, 8 * ((l + 8 * h) \div 8) + l1, nx, ny, fy)
    BY <1>2, AddressedSecond DEF l1
  <2>10. FieldsAre(AddrSecond(Fields(t), LowByteOf(b)), a1 + 16 * i1, l1 + 8 * h, nx, ny, fy)
    BY <1>3, <2>1, <2>2, <2>9
  <2> QED
    BY <2>8, <2>10, SameFields
<1> QED
  BY <1>4, <1>5

\* For every two words the address registers can hold and every byte, not only the
\* pairs of the walk: the masks, shifts, carries and flips of ppu.c are the
\* operators of VramAddress on the fields, and a fifteen-bit word stays one.
THEOREM AddressArithmetic ==
  ASSUME RealSizes
  PROVE  \A v \in AddressWord, t \in AddressWord, b \in 0 .. 255 :
           /\ Fields(WordIncrementX(v)) = IncrementScrollX(Fields(v))
           /\ Fields(WordIncrementY(v)) = IncrementScrollY(Fields(v))
           /\ Fields(WordCopyHorizontal(v, t)) = CopyHorizontalBits(Fields(v), Fields(t))
           /\ Fields(WordCopyVertical(v, t)) = CopyVerticalBits(Fields(v), Fields(t))
           /\ \A byRow \in BOOLEAN : Fields(WordStep(v, byRow)) = StepAddress(Fields(v), byRow)
           /\ Fields(WordCtrl(t, b)) = SelectNameTable(Fields(t), b % 2, (b \div 2) % 2)
           /\ Fields(WordScrollFirst(t, b)) = ScrollFirst(Fields(t), ScrollOf(b))
           /\ Fields(WordScrollSecond(t, b)) = ScrollSecond(Fields(t), ScrollOf(b))
           /\ Fields(WordAddrFirst(t, b)) = AddrFirst(Fields(t), HighByteOf(b))
           /\ Fields(WordAddrSecond(t, b)) = AddrSecond(Fields(t), LowByteOf(b))
           /\ {WordIncrementX(v), WordIncrementY(v), WordCtrl(t, b),
               WordScrollFirst(t, b), WordScrollSecond(t, b),
               WordAddrFirst(t, b), WordAddrSecond(t, b)} \subseteq AddressWord
<1> TAKE v \in AddressWord, t \in AddressWord, b \in 0 .. 255
<1>1. /\ Fields(WordIncrementX(v)) = IncrementScrollX(Fields(v))
      /\ Fields(WordIncrementY(v)) = IncrementScrollY(Fields(v))
      /\ WordIncrementX(v) \in AddressWord /\ WordIncrementY(v) \in AddressWord
  BY IncrementXAgrees, IncrementYAgrees
<1>2. /\ Fields(WordCopyHorizontal(v, t)) = CopyHorizontalBits(Fields(v), Fields(t))
      /\ Fields(WordCopyVertical(v, t)) = CopyVerticalBits(Fields(v), Fields(t))
  BY CopiesAgree
<1>3. \A byRow \in BOOLEAN : Fields(WordStep(v, byRow)) = StepAddress(Fields(v), byRow)
  BY StepsAgree, Zenon
<1>4. /\ Fields(WordCtrl(t, b)) = SelectNameTable(Fields(t), b % 2, (b \div 2) % 2)
      /\ WordCtrl(t, b) \in AddressWord
  BY CtrlAgrees
<1>5. /\ Fields(WordScrollFirst(t, b)) = ScrollFirst(Fields(t), ScrollOf(b))
      /\ Fields(WordScrollSecond(t, b)) = ScrollSecond(Fields(t), ScrollOf(b))
      /\ WordScrollFirst(t, b) \in AddressWord /\ WordScrollSecond(t, b) \in AddressWord
  BY ScrollAgrees
<1>6. /\ Fields(WordAddrFirst(t, b)) = AddrFirst(Fields(t), HighByteOf(b))
      /\ Fields(WordAddrSecond(t, b)) = AddrSecond(Fields(t), LowByteOf(b))
      /\ WordAddrFirst(t, b) \in AddressWord /\ WordAddrSecond(t, b) \in AddressWord
  BY AddrAgrees
<1> QED
  BY <1>1, <1>2, <1>3, <1>4, <1>5, <1>6, Zenon

----------------------------------------------------------------------------
(* The walk of VramWord.                                                   *)

WordInv == word \in AddressWord \cup {NoWord} /\ byte \in 0 .. 255

\* The walk starts before any word.
LEMMA WordInitOK == WordInit => WordInv
BY BytesAssumption DEF WordInit, WordInv

\* The walk ends each stretch before the next multiple of Stride, so it never
\* leaves the words an address register can hold.
LEMMA WordNextOK == WordInv /\ [WordNext]_word_vars => WordInv'
<1> SUFFICES ASSUME WordInv, [WordNext]_word_vars PROVE WordInv'
  OBVIOUS
<1>1. CASE FirstWord
  <2>1. word' \in 0 .. WordLimit - 1 /\ byte' = byte
    BY <1>1 DEF FirstWord
  <2>2. word' \in AddressWord
    BY <2>1, SMT DEF AddressWord, WordLimit
  <2> QED
    BY <2>1, <2>2 DEF WordInv
<1>2. CASE FollowingWord
  <2>1. word \in Nat /\ word < 32768 /\ word' = word + 1 /\ (word + 1) % 128 # 0
    BY <1>2, SMT DEF FollowingWord, WordInv, AddressWord, WordLimit, NoWord, Stride
  <2>2. word + 1 # 32768
    <3>1. 32768 % 128 = 0
      BY SMT
    <3> QED
      BY <2>1, <3>1
  <2>3. word' \in AddressWord
    BY <2>1, <2>2, SMT DEF AddressWord, WordLimit
  <2> QED
    BY <1>2, <2>3 DEF FollowingWord, WordInv
<1>3. CASE UNCHANGED word_vars
  BY <1>3 DEF word_vars, WordInv
<1> QED
  BY <1>1, <1>2, <1>3 DEF WordNext

\* The second word is one an address register can hold.
LEMMA OtherIsAddress ==
  ASSUME word \in AddressWord
  PROVE  Other \in AddressWord
BY SMT DEF Other, AddressWord, WordLimit

\* The lemmas above, at the two words and the byte of a state.
LEMMA WordsAgreeHolds ==
  ASSUME RealSizes, WordInv
  PROVE  WordsAgree
<1>1. SUFFICES ASSUME word # NoWord PROVE WordsAgree
  BY DEF WordsAgree, MovesAgree, WritesAgree
<1>2. word \in AddressWord /\ byte \in 0 .. 255 /\ Other \in AddressWord
  BY <1>1, OtherIsAddress DEF WordInv
<1>3. MovesAgree
  BY <1>2, IncrementXAgrees, IncrementYAgrees, CopiesAgree, StepsAgree, Zenon DEF MovesAgree
<1>4. \A w \in AddressWord : w < WordLimit
  BY DEF AddressWord
<1>5. WritesAgree
  <2>1. /\ WordCtrl(word, byte) \in AddressWord
        /\ WordScrollFirst(word, byte) \in AddressWord
        /\ WordScrollSecond(word, byte) \in AddressWord
        /\ WordAddrFirst(word, byte) \in AddressWord
        /\ WordAddrSecond(word, byte) \in AddressWord
        /\ WordIncrementX(word) \in AddressWord
        /\ WordIncrementY(word) \in AddressWord
    BY <1>2, CtrlAgrees, ScrollAgrees, AddrAgrees, IncrementXAgrees, IncrementYAgrees, Zenon
  <2> DEFINE t == Fields(word)
  <2>2. /\ Fields(WordCtrl(word, byte)) = SelectNameTable(t, byte % 2, (byte \div 2) % 2)
        /\ Fields(WordScrollFirst(word, byte)) = ScrollFirst(t, ScrollOf(byte))
        /\ Fields(WordScrollSecond(word, byte)) = ScrollSecond(t, ScrollOf(byte))
        /\ Fields(WordAddrFirst(word, byte)) = AddrFirst(t, HighByteOf(byte))
        /\ Fields(WordAddrSecond(word, byte)) = AddrSecond(t, LowByteOf(byte))
    BY <1>2, CtrlAgrees, ScrollAgrees, AddrAgrees, Zenon
  <2>3. \A w \in {WordCtrl(word, byte), WordScrollFirst(word, byte),
                  WordScrollSecond(word, byte), WordAddrFirst(word, byte),
                  WordAddrSecond(word, byte), WordIncrementX(word),
                  WordIncrementY(word)} : w < WordLimit
    BY <1>4, <2>1
  <2> QED
    BY <2>2, <2>3, Zenon DEF WritesAgree
<1> QED
  BY <1>3, <1>5 DEF WordsAgree

\* The masks and shifts of ppu.c do to a 15-bit word exactly what the operators
\* on fields do to its record, and never grow a sixteenth bit, for every word
\* and every byte; the sizes are the ones the C masks are written for.
THEOREM AddressWordsAgree ==
  ASSUME RealSizes
  PROVE  WordSpec => []WordsAgree
<1>1. WordInv => WordsAgree
  BY WordsAgreeHolds
<1> QED
  BY <1>1, WordInitOK, WordNextOK, PTL DEF WordSpec

----------------------------------------------------------------------------
(* The fetches of a pixel.                                                 *)

\* The fields render_pixel masks out are those of the word.
LEMMA FetchedFields ==
  ASSUME NEW u \in AddressWord
  PROVE  /\ CoarseX(u) = u % 32 /\ CoarseY(u) = (u \div 32) % 32
         /\ FineY(u) = (u \div 4096) % 8 /\ Nametable(u) = (u \div 1024) % 4
         /\ CoarseX(u) \in 0 .. 31 /\ CoarseY(u) \in 0 .. 31
         /\ FineY(u) \in 0 .. 7 /\ Nametable(u) \in 0 .. 3
<1>1. u \in Nat /\ u < 32768
  BY SMT DEF AddressWord, WordLimit
<1>2. u \in Word /\ u \div 32 \in Word /\ u \div 4096 \in Word /\ u \div 1024 \in Word
  <2>1. \A x \in Nat : x < 32768 => x \in Word
    BY DEF Word
  <2>2. u \div 32 \in Nat /\ u \div 32 < 32768 /\ u \div 1024 \in Nat /\ u \div 1024 < 32768
    BY <1>1
  <2>3. u \div 4096 \in Nat /\ u \div 4096 < 32768
    BY <1>1
  <2> QED
    BY <1>1, <2>1, <2>2, <2>3
<1>3. /\ CoarseX(u) = u % 32 /\ CoarseY(u) = (u \div 32) % 32
      /\ FineY(u) = (u \div 4096) % 8 /\ Nametable(u) = (u \div 1024) % 4
  BY <1>2, Remainders DEF CoarseX, CoarseY, FineY, Nametable
<1>4. /\ u % 32 \in 0 .. 31 /\ (u \div 32) % 32 \in 0 .. 31
      /\ (u \div 4096) % 8 \in 0 .. 7 /\ (u \div 1024) % 4 \in 0 .. 3
  BY <1>1
<1> QED
  BY <1>3, <1>4

\* The digits of the masks and bits that a fetch address is joined from.
LEMMA JoinedDigits ==
  /\ \A d \in Digit : Or4(d, 0) = d /\ Or4(0, d) = d
  /\ \A x \in {0, 1}, y \in {0, 1} : Or4(3, 4 * x + 8 * y) = 3 + 4 * x + 8 * y
  /\ \A q \in 0 .. 3 : Or4(12, q) = 12 + q
  /\ \A x \in {0, 1}, p \in 0 .. 7 : Or4(8 * x, p) = 8 * x + p
  /\ \A x \in {0, 1}, y \in {0, 1} : Or4(4 * x, 2 * y) = 4 * x + 2 * y
<1>1. \A d \in Digit : Or4(d, 0) = d /\ Or4(0, d) = d
  BY DEF Or4, OfBits, Bit, Digit
<1>2. \A x \in {0, 1}, y \in {0, 1} : Or4(3, 4 * x + 8 * y) = 3 + 4 * x + 8 * y
  BY DEF Or4, OfBits, Bit
<1>3. \A q \in 0 .. 3 : Or4(12, q) = 12 + q
  BY DEF Or4, OfBits, Bit
<1>4. \A x \in {0, 1}, p \in 0 .. 7 : Or4(8 * x, p) = 8 * x + p
  BY DEF Or4, OfBits, Bit
<1>5. \A x \in {0, 1}, y \in {0, 1} : Or4(4 * x, 2 * y) = 4 * x + 2 * y
  BY DEF Or4, OfBits, Bit
<1> QED
  BY <1>1, <1>2, <1>3, <1>4, <1>5

\* The name table address is the table's base and the word's low ten bits.
LEMMA NameAddress ==
  ASSUME NEW u \in AddressWord
  PROVE  nt_addr(u) = 8192 + 1024 * Nametable(u) + 32 * CoarseY(u) + CoarseX(u)
<1> DEFINE cx == CoarseX(u)
           cy == CoarseY(u)
           n  == Nametable(u)
           a == cx % 16
           i == cx \div 16
           l == cy % 8
           h == cy \div 8
           nx == n % 2
           ny == n \div 2
<1>1. cx \in 0 .. 31 /\ cy \in 0 .. 31 /\ n \in 0 .. 3
  BY FetchedFields
<1>2. nt_addr(u) = (((8192 | (n * 1024)) | (cy * 32)) | cx)
  BY DEF nt_addr
<1> HIDE DEF cx, cy, n
<1>3. /\ a \in 0 .. 15 /\ i \in {0, 1} /\ cx = a + 16 * i
      /\ nx \in {0, 1} /\ ny \in {0, 1} /\ n = nx + 2 * ny
  BY <1>1
<1>4. /\ AreParts(0, 0, l, h, 0, 0, 0) /\ cy * 32 = Parts(0, 0, l, h, 0, 0, 0)
      /\ l + 8 * h = cy
  BY <1>1, RowParts
<1> HIDE DEF a, i, l, h, nx, ny
<1>5. l \in 0 .. 7 /\ h \in 0 .. 3
  BY <1>4 DEF AreParts
<1>6. /\ AreParts(0, 0, 0, 0, 0, 0, 2) /\ AreParts(0, 0, 0, 0, nx, ny, 0)
      /\ AreParts(0, 0, 0, 0, nx, ny, 2) /\ AreParts(0, 0, l, h, nx, ny, 2)
      /\ AreParts(a, i, 0, 0, 0, 0, 0)
  BY <1>3, <1>5 DEF AreParts, Digit
<1>7. 8192 = Parts(0, 0, 0, 0, 0, 0, 2)
  BY DEF Parts
<1>8. n * 1024 = Parts(0, 0, 0, 0, nx, ny, 0)
  BY <1>3 DEF Parts
<1>9. cx = Parts(a, i, 0, 0, 0, 0, 0)
  BY <1>3 DEF Parts
<1>10. (8192 | (n * 1024)) = Parts(0, 0, 0, 0, nx, ny, 2)
  <2>1. (8192 | (n * 1024)) = Parts(0 + 0, 0 + 0, 0 + 0, 0 + 0, 0 + nx, 0 + ny, 2 + 0)
    BY <1>6, <1>7, <1>8, PartsJoin
  <2> QED
    BY <1>3, <2>1
<1>11. ((8192 | (n * 1024)) | (cy * 32)) = Parts(0, 0, l, h, nx, ny, 2)
  <2>1. ((8192 | (n * 1024)) | (cy * 32))
          = Parts(0 + 0, 0 + 0, 0 + l, 0 + h, nx + 0, ny + 0, 2 + 0)
    BY <1>4, <1>6, <1>10, PartsJoin
  <2> QED
    BY <1>3, <1>5, <2>1
<1>12. nt_addr(u) = Parts(0 + a, 0 + i, l + 0, h + 0, nx + 0, ny + 0, 2 + 0)
  BY <1>2, <1>6, <1>9, <1>11, PartsJoin
<1>13. nt_addr(u) = 8192 + 1024 * n + 32 * cy + cx
  BY <1>3, <1>4, <1>5, <1>12 DEF Parts
<1> QED
  BY <1>13 DEF n, cy, cx

\* The attribute address is the table's base, past its tiles, one byte for each
\* square of four by four tiles.
LEMMA AttributeAddress ==
  ASSUME NEW u \in AddressWord
  PROVE  attr_addr(u)
           = 9152 + 1024 * Nametable(u) + 8 * (CoarseY(u) \div 4) + CoarseX(u) \div 4
<1> DEFINE p == CoarseX(u) \div 4
           q == CoarseY(u) \div 4
           n == Nametable(u)
           nx == n % 2
           ny == n \div 2
           low == q % 2
           high == q \div 2
<1>1. p \in 0 .. 7 /\ q \in 0 .. 7 /\ n \in 0 .. 3
  BY FetchedFields
<1>2. attr_addr(u) = (((9152 | (n * 1024)) | (q * 8)) | p)
  BY DEF attr_addr
<1> HIDE DEF p, q, n
<1>3. /\ nx \in {0, 1} /\ ny \in {0, 1} /\ n = nx + 2 * ny
      /\ low \in {0, 1} /\ high \in 0 .. 3 /\ q = low + 2 * high
  BY <1>1
<1> HIDE DEF nx, ny, low, high
<1>4. /\ AreDigits(0, 12, 3, 2) /\ AreDigits(0, 0, 4 * nx + 8 * ny, 0)
      /\ AreDigits(0, 12, 3 + 4 * nx + 8 * ny, 2) /\ AreDigits(8 * low, high, 0, 0)
      /\ AreDigits(8 * low, 12 + high, 3 + 4 * nx + 8 * ny, 2) /\ AreDigits(p, 0, 0, 0)
  BY <1>1, <1>3 DEF AreDigits, Digit
<1>5. 9152 = Hex(0, 12, 3, 2)
  BY DEF Hex
<1>6. /\ n * 1024 = Hex(0, 0, 4 * nx + 8 * ny, 0) /\ q * 8 = Hex(8 * low, high, 0, 0)
      /\ p = Hex(p, 0, 0, 0)
  BY <1>1, <1>3 DEF Hex
<1>7. (9152 | (n * 1024)) = Hex(0, 12, 3 + 4 * nx + 8 * ny, 2)
  <2>1. (9152 | (n * 1024))
          = Hex(Or4(0, 0), Or4(12, 0), Or4(3, 4 * nx + 8 * ny), Or4(2, 0))
    BY <1>4, <1>5, <1>6, WordsMeet
  <2> QED
    BY <1>3, <2>1, JoinedDigits DEF Digit
<1>8. ((9152 | (n * 1024)) | (q * 8)) = Hex(8 * low, 12 + high, 3 + 4 * nx + 8 * ny, 2)
  <2>1. ((9152 | (n * 1024)) | (q * 8))
          = Hex(Or4(0, 8 * low), Or4(12, high), Or4(3 + 4 * nx + 8 * ny, 0), Or4(2, 0))
    BY <1>4, <1>6, <1>7, WordsMeet
  <2> QED
    BY <1>3, <2>1, JoinedDigits DEF Digit
<1>9. attr_addr(u) = Hex(8 * low + p, 12 + high, 3 + 4 * nx + 8 * ny, 2)
  <2>1. attr_addr(u)
          = Hex(Or4(8 * low, p), Or4(12 + high, 0), Or4(3 + 4 * nx + 8 * ny, 0), Or4(2, 0))
    BY <1>2, <1>4, <1>6, <1>8, WordsMeet
  <2> QED
    BY <1>1, <1>3, <2>1, JoinedDigits DEF Digit
<1>10. attr_addr(u) = 9152 + 1024 * n + 8 * q + p
  BY <1>1, <1>3, <1>9 DEF Hex
<1> QED
  BY <1>10 DEF n, q, p

\* The shift picks one of the four squares of two by two tiles of the byte.
LEMMA AttributeShift ==
  ASSUME NEW u \in AddressWord
  PROVE  attr_shift(u)
           = 4 * ((CoarseY(u) \div 2) % 2) + 2 * ((CoarseX(u) \div 2) % 2)
<1> DEFINE x == (CoarseX(u) \div 2) % 2
           y == (CoarseY(u) \div 2) % 2
<1>1. x \in {0, 1} /\ y \in {0, 1}
  BY FetchedFields
<1>2. CoarseX(u) & 2 = 2 * x /\ CoarseY(u) & 2 = 2 * y
  <2>1. CoarseX(u) \in Word /\ CoarseY(u) \in Word
    BY FetchedFields, SMT DEF Word
  <2> QED
    BY <2>1, Remainders
<1> HIDE DEF x, y
<1>3. attr_shift(u) = ((4 * y) | (2 * x))
  BY <1>1, <1>2 DEF attr_shift
<1>4. 4 * y = Hex(4 * y, 0, 0, 0) /\ 2 * x = Hex(2 * x, 0, 0, 0)
  BY <1>1 DEF Hex
<1>5. AreDigits(4 * y, 0, 0, 0) /\ AreDigits(2 * x, 0, 0, 0)
  BY <1>1 DEF AreDigits, Digit
<1>6. attr_shift(u) = Hex(Or4(4 * y, 2 * x), Or4(0, 0), Or4(0, 0), Or4(0, 0))
  BY <1>3, <1>4, <1>5, WordsMeet
<1>7. attr_shift(u) = 4 * y + 2 * x
  BY <1>1, <1>6, JoinedDigits DEF Hex, Digit
<1> QED
  BY <1>7 DEF x, y

\* Two words have the same attribute bits when, and only when, their tiles are in
\* the same square.
THEOREM AttributeIsOfPair ==
  ASSUME NEW w \in AddressWord, NEW u \in AddressWord
  PROVE  (attr_addr(u) = attr_addr(w) /\ attr_shift(u) = attr_shift(w)) <=> SameSquare(w, u)
<1>1. /\ CoarseX(w) \in 0 .. 31 /\ CoarseY(w) \in 0 .. 31 /\ Nametable(w) \in 0 .. 3
      /\ CoarseX(u) \in 0 .. 31 /\ CoarseY(u) \in 0 .. 31 /\ Nametable(u) \in 0 .. 3
  BY FetchedFields
<1>2. attr_addr(u) = attr_addr(w)
        <=> /\ Nametable(w) = Nametable(u) /\ CoarseX(w) \div 4 = CoarseX(u) \div 4
            /\ CoarseY(w) \div 4 = CoarseY(u) \div 4
  <2>1. \A m \in 0 .. 3, n \in 0 .. 3, p \in 0 .. 7, q \in 0 .. 7, r \in 0 .. 7, s \in 0 .. 7 :
          9152 + 1024 * m + 8 * p + r = 9152 + 1024 * n + 8 * q + s
            <=> m = n /\ p = q /\ r = s
    OBVIOUS
  <2>2. /\ CoarseX(w) \div 4 \in 0 .. 7 /\ CoarseY(w) \div 4 \in 0 .. 7
        /\ CoarseX(u) \div 4 \in 0 .. 7 /\ CoarseY(u) \div 4 \in 0 .. 7
    BY <1>1
  <2>3. /\ attr_addr(w)
             = 9152 + 1024 * Nametable(w) + 8 * (CoarseY(w) \div 4) + CoarseX(w) \div 4
        /\ attr_addr(u)
             = 9152 + 1024 * Nametable(u) + 8 * (CoarseY(u) \div 4) + CoarseX(u) \div 4
    BY AttributeAddress
  <2> QED
    BY <1>1, <2>1, <2>2, <2>3
<1>3. attr_shift(u) = attr_shift(w)
        <=> /\ (CoarseX(w) \div 2) % 2 = (CoarseX(u) \div 2) % 2
            /\ (CoarseY(w) \div 2) % 2 = (CoarseY(u) \div 2) % 2
  BY <1>1, AttributeShift
<1>4. \A x \in 0 .. 31, y \in 0 .. 31 :
        x \div 2 = y \div 2 <=> x \div 4 = y \div 4 /\ (x \div 2) % 2 = (y \div 2) % 2
  OBVIOUS
<1> QED
  BY <1>1, <1>2, <1>3, <1>4 DEF SameSquare

\* The other tiles of an attribute byte are addresses too.
LEMMA CompanionsAreAddresses ==
  ASSUME word \in AddressWord
  PROVE  Companions \subseteq AddressWord
<1>1. Other \in AddressWord
  BY OtherIsAddress
<1>2. ASSUME NEW x \in 0 .. 3, NEW y \in 0 .. 3
      PROVE  nt_addr(word) - 8192 - (CoarseX(word) % 4) - 32 * (CoarseY(word) % 4) + x + 32 * y
               \in AddressWord
  <2>1. /\ CoarseX(word) \in 0 .. 31 /\ CoarseY(word) \in 0 .. 31 /\ Nametable(word) \in 0 .. 3
    BY FetchedFields
  <2>2. nt_addr(word) - 8192 = 1024 * Nametable(word) + 32 * CoarseY(word) + CoarseX(word)
    BY <2>1, NameAddress
  <2> DEFINE c == nt_addr(word) - 8192 - (CoarseX(word) % 4) - 32 * (CoarseY(word) % 4) + x + 32 * y
  <2>3. c = 1024 * Nametable(word) + 32 * (CoarseY(word) - (CoarseY(word) % 4))
              + (CoarseX(word) - (CoarseX(word) % 4)) + x + 32 * y
    BY <2>1, <2>2
  <2>4. c \in Nat /\ c < 32768
    <3> DEFINE f == CoarseX(word) - (CoarseX(word) % 4)
               g == CoarseY(word) - (CoarseY(word) % 4)
               n == Nametable(word)
    <3>1. f \in Nat /\ f <= 28
      BY <2>1
    <3>2. g \in Nat /\ g <= 28
      BY <2>1
    <3>3. c = 1024 * n + 32 * g + f + x + 32 * y
      BY <2>3
    <3>4. n \in 0 .. 3
      BY <2>1
    <3> HIDE DEF c, f, g, n
    <3> QED
      BY <3>1, <3>2, <3>3, <3>4
  <2> HIDE DEF c
  <2>5. c \in AddressWord
    BY <2>4, SMT DEF AddressWord, WordLimit
  <2> QED
    BY <2>5 DEF c
<1> QED
  BY <1>1, <1>2 DEF Companions

\* The fetches of any word, from the values of their addresses.
LEMMA StayInTables ==
  ASSUME word \in AddressWord
  PROVE  FetchesStayInTables
<1> DEFINE table == 8192 + 1024 * ((word \div 1024) % 4)
<1>1. word \in Nat /\ word < 32768
  BY SMT DEF AddressWord, WordLimit
<1>2. /\ CoarseX(word) \in 0 .. 31 /\ CoarseY(word) \in 0 .. 31
      /\ FineY(word) \in 0 .. 7 /\ Nametable(word) \in 0 .. 3
      /\ CoarseX(word) = word % 32 /\ CoarseY(word) = (word \div 32) % 32
      /\ FineY(word) = (word \div 4096) % 8 /\ Nametable(word) = (word \div 1024) % 4
  BY FetchedFields
<1>3. nt_addr(word) = table + (word % 1024)
  <2>1. word % 1024 = 32 * CoarseY(word) + CoarseX(word)
    BY <1>1, <1>2
  <2>2. nt_addr(word) = 8192 + 1024 * Nametable(word) + 32 * CoarseY(word) + CoarseX(word)
    BY NameAddress
  <2>3. table = 8192 + 1024 * Nametable(word)
    BY <1>2
  <2> HIDE DEF table
  <2> QED
    BY <1>2, <2>1, <2>2, <2>3
<1>4. attr_addr(word) \in table + 960 .. table + 1023
  BY <1>2, AttributeAddress
<1>5. attr_shift(word) \in {0, 2, 4, 6}
  BY <1>2, AttributeShift
<1>6. ASSUME NEW bgTable \in BOOLEAN, NEW tile \in TileNumbers
      PROVE  pattern_addrs(bgTable, tile, word)
               = {(IF bgTable THEN 4096 ELSE 0) + 16 * tile + ((word \div 4096) % 8),
                  (IF bgTable THEN 4096 ELSE 0) + 16 * tile + 8 + ((word \div 4096) % 8)}
  <2>1. tile \in Nat
    BY PixelAssumption
  <2> DEFINE base == IF bgTable THEN 4096 ELSE 0
             row  == (word \div 4096) % 8
  <2>2. base \in Nat /\ row \in Nat /\ FineY(word) = row
    BY <1>1, <1>2
  <2>3. pattern_addrs(bgTable, tile, word)
          = {base + tile * 16 + FineY(word), (base + tile * 16 + FineY(word)) + 8}
    BY DEF pattern_addrs
  <2> HIDE DEF base, row
  <2>4. /\ base + tile * 16 + FineY(word) = base + 16 * tile + row
        /\ (base + tile * 16 + FineY(word)) + 8 = base + 16 * tile + 8 + row
    BY <2>1, <2>2
  <2>5. pattern_addrs(bgTable, tile, word) = {base + 16 * tile + row, base + 16 * tile + 8 + row}
    BY <2>3, <2>4
  <2> QED
    BY <2>5 DEF base, row
<1> QED
  BY <1>3, <1>4, <1>5, <1>6 DEF FetchesStayInTables

\* For every word an address register can hold: the colours of two tiles come from
\* the same bits exactly when the tiles share a square, and every fetch stays in the
\* table it is meant for.  No constant is restricted.
THEOREM PixelFetches == WordSpec => []FetchesAreOfTile
<1>1. WordInv => FetchesAreOfTile
  <2> SUFFICES ASSUME WordInv PROVE FetchesAreOfTile
    OBVIOUS
  <2>1. SUFFICES ASSUME word # NoWord PROVE FetchesAreOfTile
    BY DEF FetchesAreOfTile, AttributeIsOfSquare, FetchesStayInTables
  <2>2. word \in AddressWord
    BY <2>1 DEF WordInv
  <2>3. AttributeIsOfSquare
    BY <2>2, CompanionsAreAddresses, AttributeIsOfPair, Zenon DEF AttributeIsOfSquare
  <2> QED
    BY <2>2, <2>3, StayInTables DEF FetchesAreOfTile
<1> QED
  BY <1>1, WordInitOK, WordNextOK, PTL DEF WordSpec
=============================================================================
