------------------------------ MODULE BitWord ------------------------------
(***************************************************************************)
(* The bitwise operators of C on 16-bit words: a word is four hexadecimal  *)
(* digits, and a digit is four bits, each with the operator of its own.    *)
(* The community module Bitwise says the same by recursion over the number *)
(* of bits, about which nothing can be proved; MCMemories compares the two.*)
(***************************************************************************)
EXTENDS Naturals

Digit == 0 .. 15

\* The bit of digit d whose place value is p.
Bit(d, p) == (d \div p) % 2

OfBits(B(_)) == B(1) + 2 * B(2) + 4 * B(4) + 8 * B(8)

And4(a, b) == LET both(p) == IF Bit(a, p) = 1 /\ Bit(b, p) = 1 THEN 1 ELSE 0 IN OfBits(both)
Or4(a, b)  == LET some(p) == IF Bit(a, p) = 1 \/ Bit(b, p) = 1 THEN 1 ELSE 0 IN OfBits(some)
Xor4(a, b) == LET one(p) == IF Bit(a, p) # Bit(b, p) THEN 1 ELSE 0 IN OfBits(one)

\* The digit of word x whose place value is p.
DigitOf(x, p) == (x \div p) % 16

OfDigits(D(_)) == D(1) + 16 * D(16) + 256 * D(256) + 4096 * D(4096)

x & y  == LET digit(p) == And4(DigitOf(x, p), DigitOf(y, p)) IN OfDigits(digit)
x | y  == LET digit(p) == Or4(DigitOf(x, p), DigitOf(y, p)) IN OfDigits(digit)
x ^^ y == LET digit(p) == Xor4(DigitOf(x, p), DigitOf(y, p)) IN OfDigits(digit)

\* ~x, cut to a word.
Not16(x) == 65535 - x
=============================================================================
