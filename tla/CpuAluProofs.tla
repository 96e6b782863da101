---------------------------- MODULE CpuAluProofs ----------------------------
(***************************************************************************)
(* The arithmetic for bytes of every width and numbers of every length.    *)
(* One digit is a matter of remainders: what an operation stores, and its  *)
(* flag times the base, are what was calculated.  One more digit of a      *)
(* number is then an identity of products, the same for every operation    *)
(* that is chained through its carry.                                      *)
(***************************************************************************)
EXTENDS CpuAlu, TLAPS

----------------------------------------------------------------------------
(* Remainders and products.                                                *)

LEMMA RemainderOfMultiple ==
  ASSUME NEW b \in Nat \ {0}, NEW q \in Int, NEW r \in 0 .. b - 1
  PROVE  (b * q + r) % b = r
BY SMT

LEMMA RemainderSmall ==
  ASSUME NEW b \in Nat \ {0}, NEW n \in 0 .. b - 1
  PROVE  n % b = n
BY SMT

LEMMA RemainderNegative ==
  ASSUME NEW b \in Nat \ {0}, NEW n \in Int, -b <= n, n < 0
  PROVE  n % b = n + b
BY SMT

LEMMA RemainderInRange ==
  ASSUME NEW b \in Nat \ {0}, NEW n \in Int
  PROVE  n % b \in 0 .. b - 1
BY SMT

LEMMA Halves ==
  ASSUME NEW n \in Nat
  PROVE  n = 2 * (n \div 2) + (n % 2) /\ n % 2 \in 0 .. 1 /\ n \div 2 \in Nat
BY SMT

LEMMA ProductOfNaturals ==
  ASSUME NEW x \in Nat, NEW y \in Nat
  PROVE  x * y \in Nat /\ (x > 0 /\ y > 0 => x * y > 0)
BY SMT

\* A digit of the sum, in its place.
LEMMA PlaceDigit ==
  ASSUME NEW x \in Int, NEW r \in Int, NEW c \in Int, NEW b \in Int, NEW w \in Int,
         x = r + c * b
  PROVE  x * w = r * w + c * (w * b)
BY SMT

LEMMA ThreeInPlace ==
  ASSUME NEW x \in Int, NEW y \in Int, NEW z \in Int, NEW w \in Int
  PROVE  (x + y + z) * w = x * w + y * w + z * w
BY SMT

LEMMA PlaceDifference ==
  ASSUME NEW x \in Int, NEW y \in Int, NEW z \in Int, NEW r \in Int, NEW c \in Int,
         NEW b \in Int, NEW w \in Int, x - y - z = r - c * b
  PROVE  x * w - y * w - z * w = r * w - c * (w * b)
<1>1. (x - y - z) * w = (r - c * b) * w
  OBVIOUS
<1>2. (x - y - z) * w = x * w - y * w - z * w
  BY SMT
<1>3. (r - c * b) * w = r * w - c * (w * b)
  BY SMT
<1> QED
  BY <1>1, <1>2, <1>3

LEMMA BaseFacts == Base \in Nat \ {0} /\ Base >= 2 /\ Base = 2 * Half /\ Half \in Nat \ {0}
BY AluAssumption DEF AluAssumption, Base

----------------------------------------------------------------------------
(* One digit of each operation.                                            *)

LEMMA BytesAreNaturals == Byte \subseteq Nat
BY BaseFacts DEF Byte

LEMMA FlagIsBit == \A condition : set_flag(condition) \in Bit
BY DEF set_flag, Bit

LEMMA AddOne ==
  ASSUME NEW a \in Byte, NEW m \in Byte, NEW c \in Bit
  PROVE  /\ ADC(a, m, c).r \in Byte
         /\ {ADC(a, m, c).c, ADC(a, m, c).z, ADC(a, m, c).n, ADC(a, m, c).v} \subseteq Bit
         /\ a + m + c = ADC(a, m, c).r + ADC(a, m, c).c * Base
<1> DEFINE sum == a + m + c
<1> USE BaseFacts
<1>1. sum \in 0 .. 2 * Base - 1
  BY DEF Byte, Bit
<1>2. ADC(a, m, c).r = sum % Base /\ ADC(a, m, c).c = set_flag(sum > Base - 1)
  BY DEF ADC
<1>3. {ADC(a, m, c).c, ADC(a, m, c).z, ADC(a, m, c).n, ADC(a, m, c).v} \subseteq Bit
  BY DEF ADC, set_flag, Bit
<1> HIDE DEF sum
<1>4. ADC(a, m, c).r \in Byte
  BY <1>1, <1>2, RemainderInRange DEF Byte
<1>5. sum = (sum % Base) + set_flag(sum > Base - 1) * Base
  <2>1. CASE sum < Base
    <3>1. sum % Base = sum /\ set_flag(sum > Base - 1) = 0
      BY <1>1, <2>1, RemainderSmall DEF set_flag
    <3> QED
      BY <1>1, <3>1
  <2>2. CASE sum >= Base
    <3>1. sum = Base * 1 + (sum - Base) /\ sum - Base \in 0 .. Base - 1
      BY <1>1, <2>2
    <3>2. sum % Base = sum - Base
      BY <1>1, <3>1, RemainderOfMultiple
    <3>3. set_flag(sum > Base - 1) = 1
      BY <1>1, <2>2 DEF set_flag
    <3> QED
      BY <1>1, <3>2, <3>3
  <2> QED
    BY <1>1, <2>1, <2>2
<1> QED
  BY <1>2, <1>3, <1>4, <1>5 DEF sum

\* The difference is negative by no more than a byte, so that in the word it
\* leaves the byte exactly when it borrows.
LEMMA SubtractOne ==
  ASSUME NEW a \in Byte, NEW m \in Byte, NEW c \in Bit
  PROVE  /\ SBC(a, m, c).r \in Byte
         /\ {SBC(a, m, c).c, SBC(a, m, c).z, SBC(a, m, c).n, SBC(a, m, c).v} \subseteq Bit
         /\ a - m - (1 - c) = SBC(a, m, c).r - (1 - SBC(a, m, c).c) * Base
<1> DEFINE difference == a - m - (1 - c)
           word       == Base * Base
<1> USE BaseFacts
<1>1. difference \in -Base .. Base - 1
  BY DEF Byte, Bit
<1>2. word \in Nat \ {0} /\ word >= 2 * Base /\ word = Base * (Base - 1) + Base
  BY SMT
<1>3. /\ SBC(a, m, c).r = (difference % word) % Base
      /\ SBC(a, m, c).c = set_flag(difference % word < Base)
  BY DEF SBC
<1>4. {SBC(a, m, c).c, SBC(a, m, c).z, SBC(a, m, c).n, SBC(a, m, c).v} \subseteq Bit
  BY DEF SBC, set_flag, Bit
<1> HIDE DEF difference, word
<1>5. SBC(a, m, c).r \in Byte
  <2>1. difference % word \in Int
    BY <1>1, <1>2, RemainderInRange
  <2> QED
    BY <1>3, <2>1, RemainderInRange DEF Byte
<1>6. difference = ((difference % word) % Base) - (1 - set_flag(difference % word < Base)) * Base
  <2>1. CASE difference >= 0
    <3>1. difference % word = difference /\ difference % Base = difference
      BY <1>1, <1>2, <2>1, RemainderSmall
    <3>2. set_flag(difference < Base) = 1
      BY <1>1, <2>1 DEF set_flag
    <3> QED
      BY <1>1, <3>1, <3>2
  <2>2. CASE difference < 0
    <3>1. difference % word = difference + word
      BY <1>1, <1>2, <2>2, RemainderNegative
    <3>2. /\ difference + word = Base * (Base - 1) + (difference + Base)
          /\ difference + Base \in 0 .. Base - 1
      BY <1>1, <1>2, <2>2
    <3>3. (difference + word) % Base = difference + Base
      <4> DEFINE q == Base - 1
                 r == difference + Base
      <4>1. q \in Int /\ r \in 0 .. Base - 1 /\ difference + word = Base * q + r
        BY <3>2
      <4> HIDE DEF q, r
      <4>2. (Base * q + r) % Base = r
        BY <4>1, RemainderOfMultiple
      <4> QED
        BY <4>1, <4>2 DEF r
    <3>4. set_flag(difference + word < Base) = 0
      BY <1>1, <1>2, <2>2 DEF set_flag
    <3> QED
      BY <1>1, <3>1, <3>3, <3>4
  <2> QED
    BY <1>1, <2>1, <2>2
<1> QED
  BY <1>3, <1>4, <1>5, <1>6 DEF difference

\* ROL takes a bit in below and lets one out above; ASL takes in a 0.
LEMMA DoubleOne ==
  ASSUME NEW value \in Byte, NEW c \in Bit
  PROVE  /\ ROL(value, c).r \in Nat /\ ROL(value, c).c \in Bit
         /\ 2 * value + c = ROL(value, c).r + ROL(value, c).c * Base
         /\ ASL(value).r \in Nat /\ ASL(value).c \in Bit
         /\ 2 * value = ASL(value).r + ASL(value).c * Base
<1> DEFINE out == (2 * value) % Base
           top == set_flag(Negative(value))
<1> USE BaseFacts
<1>1. out \in Nat /\ top \in Bit /\ 2 * value = out + top * Base
  <2>1. CASE value < Half
    <3>1. (2 * value) % Base = 2 * value
      BY <2>1, RemainderSmall DEF Byte
    <3>2. top = 0
      BY <2>1 DEF set_flag, Negative, Byte
    <3> QED
      BY <3>1, <3>2 DEF Byte, Bit
  <2>2. CASE value >= Half
    <3>1. 2 * value = Base * 1 + (2 * value - Base) /\ 2 * value - Base \in 0 .. Base - 1
      BY <2>2 DEF Byte
    <3>2. (2 * value) % Base = 2 * value - Base
      BY <3>1, RemainderOfMultiple
    <3>3. top = 1
      BY <2>2 DEF set_flag, Negative, Byte
    <3> QED
      BY <3>1, <3>2, <3>3 DEF Byte, Bit
  <2> QED
    BY <2>1, <2>2 DEF Byte
<1>2. ROL(value, c) = [r |-> out + c, c |-> top] /\ ASL(value) = [r |-> out, c |-> top]
  BY DEF ROL, ASL
<1> HIDE DEF out, top
<1> QED
  BY <1>1, <1>2 DEF Byte, Bit

\* ROR takes a bit in above and lets one out below; LSR takes in a 0.
LEMMA HalveOne ==
  ASSUME NEW value \in Byte, NEW c \in Bit
  PROVE  /\ ROR(value, c).r \in Nat /\ ROR(value, c).c \in Bit
         /\ c * Base + value = 2 * ROR(value, c).r + ROR(value, c).c
         /\ LSR(value).r \in Nat /\ LSR(value).c \in Bit
         /\ value = 2 * LSR(value).r + LSR(value).c
<1> USE BaseFacts
<1>1. /\ value = 2 * (value \div 2) + (value % 2)
      /\ value % 2 \in 0 .. 1 /\ value \div 2 \in Nat
  BY Halves DEF Byte
<1>2. /\ ROR(value, c) = [r |-> (value \div 2) + c * Half, c |-> value % 2]
      /\ LSR(value) = [r |-> value \div 2, c |-> value % 2]
  BY DEF ROR, LSR
<1>3. c * Half \in Nat /\ c * Base = 2 * (c * Half)
  BY DEF Bit
<1> QED
  BY <1>1, <1>2, <1>3 DEF Byte, Bit

LEMMA CompareOne ==
  ASSUME NEW a \in Byte, NEW m \in Byte
  PROVE  /\ {Compare(a, m).c, Compare(a, m).z, Compare(a, m).n} \subseteq Bit
         /\ (Compare(a, m).c = 1) <=> a >= m
         /\ (Compare(a, m).z = 1) <=> a = m
<1> USE BaseFacts
<1>1. ((a - m) % Base = 0) <=> a = m
  <2>1. CASE a >= m
    <3>1. (a - m) % Base = a - m
      BY <2>1, RemainderSmall DEF Byte
    <3> QED
      BY <3>1 DEF Byte
  <2>2. CASE a < m
    <3>1. (a - m) % Base = (a - m) + Base
      BY <2>2, RemainderNegative DEF Byte
    <3> QED
      BY <2>2, <3>1 DEF Byte
  <2> QED
    BY <2>1, <2>2 DEF Byte
<1> QED
  BY <1>1 DEF Compare, set_flag, Bit

LEMMA CountOne ==
  ASSUME NEW value \in Nat
  PROVE  /\ INC(value).r \in Nat /\ {INC(value).z, INC(value).n} \subseteq Bit
         /\ DEC(value).r \in Nat /\ {DEC(value).z, DEC(value).n} \subseteq Bit
<1>1. (value + 1) % Base \in 0 .. Base - 1 /\ (value - 1) % Base \in 0 .. Base - 1
  BY BaseFacts, RemainderInRange DEF Byte
<1> QED
  BY <1>1, BaseFacts DEF INC, DEC, set_flag, Bit

----------------------------------------------------------------------------
(* One more digit of a number.                                             *)

\* The invariant: before the first digit there is no number yet, and then each
\* program has calculated what it stands for.
Numbers ==
  /\ TypeOK
  /\ digits = 0 => weight = 1 /\ left = 0 /\ right = 0 /\ result = 0 /\ C = carry_in
  /\ AddsNumbers /\ SubtractsNumbers /\ ComparesNumbers /\ ShiftsNumbers

LEMMA MoreDigits ==
  ASSUME TypeOK, More
  PROVE  /\ digits' \in 1 .. MaxDigits /\ weight' = weight * Base
         /\ weight' \in Nat \ {0} /\ carry_in' = carry_in /\ program' = program
<1>1. weight * Base \in Nat /\ weight * Base > 0
  BY BaseFacts, ProductOfNaturals DEF TypeOK
<1> QED
  BY <1>1, AluAssumption DEF AluAssumption, TypeOK, More

LEMMA StoresDigit ==
  ASSUME TypeOK, NEW r \in Nat
  PROVE  r * weight \in Nat
BY ProductOfNaturals DEF TypeOK

LEMMA NextAddDigit == Numbers /\ AddDigit => Numbers'
<1> SUFFICES ASSUME Numbers, AddDigit PROVE Numbers'
  OBVIOUS
<1>1. PICK a \in Byte, m \in Byte : Chain(a, m, ADC(a, m, C))
  BY DEF AddDigit
<1>2. program = "add" /\ TypeOK /\ C \in Bit /\ a \in Nat /\ m \in Nat
  BY BaseFacts DEF AddDigit, Numbers, TypeOK, Byte
<1> DEFINE alu == ADC(a, m, C)
<1>3. /\ alu.r \in Nat /\ alu.c \in Bit /\ alu.z \in Bit /\ alu.n \in Bit /\ alu.v \in Bit
      /\ a + m + C = alu.r + alu.c * Base
  BY <1>2, BaseFacts, AddOne DEF Byte
<1>4. /\ left' = left + a * weight /\ right' = right + m * weight
      /\ result' = result + alu.r * weight /\ C' = alu.c
      /\ Z' = alu.z /\ N' = alu.n /\ V' = alu.v /\ More
  BY <1>1 DEF Chain
<1> HIDE DEF alu
<1>5. a * weight \in Nat /\ m * weight \in Nat /\ alu.r * weight \in Nat
  BY <1>2, <1>3, StoresDigit
<1>6. TypeOK'
  BY <1>2, <1>3, <1>4, <1>5, MoreDigits DEF TypeOK
<1>7. left' + right' + carry_in' = result' + C' * weight'
  <2>1. left + right + carry_in = result + C * weight
    BY <1>2 DEF Numbers, AddsNumbers
  <2>2. (a + m + C) * weight = alu.r * weight + alu.c * (weight * Base)
    BY <1>2, <1>3, BaseFacts, PlaceDigit DEF TypeOK, Bit
  <2>3. (a + m + C) * weight = a * weight + m * weight + C * weight
    BY <1>2, ThreeInPlace DEF TypeOK, Bit
  <2>4. {C * weight, alu.c * (weight * Base)} \subseteq Int
    BY <1>2, <1>3, BaseFacts DEF TypeOK, Bit
  <2> QED
    BY <1>2, <1>4, <1>5, <2>1, <2>2, <2>3, <2>4, MoreDigits DEF TypeOK, Bit
<1> QED
  BY <1>2, <1>4, <1>6, <1>7, MoreDigits
     DEF Numbers, AddsNumbers, SubtractsNumbers, ComparesNumbers, ShiftsNumbers

LEMMA NextSubtractDigit == Numbers /\ SubtractDigit => Numbers'
<1> SUFFICES ASSUME Numbers, SubtractDigit PROVE Numbers'
  OBVIOUS
<1>1. PICK a \in Byte, m \in Byte : Chain(a, m, SBC(a, m, C))
  BY DEF SubtractDigit
<1>2. program = "subtract" /\ TypeOK /\ C \in Bit /\ a \in Nat /\ m \in Nat
  BY BaseFacts DEF SubtractDigit, Numbers, TypeOK, Byte
<1> DEFINE alu == SBC(a, m, C)
<1>3. /\ alu.r \in Nat /\ alu.c \in Bit /\ alu.z \in Bit /\ alu.n \in Bit /\ alu.v \in Bit
      /\ a - m - (1 - C) = alu.r - (1 - alu.c) * Base
  BY <1>2, BaseFacts, SubtractOne DEF Byte
<1>4. /\ left' = left + a * weight /\ right' = right + m * weight
      /\ result' = result + alu.r * weight /\ C' = alu.c
      /\ Z' = alu.z /\ N' = alu.n /\ V' = alu.v /\ More
  BY <1>1 DEF Chain
<1> HIDE DEF alu
<1>5. a * weight \in Nat /\ m * weight \in Nat /\ alu.r * weight \in Nat
  BY <1>2, <1>3, StoresDigit
<1>6. TypeOK'
  BY <1>2, <1>3, <1>4, <1>5, MoreDigits DEF TypeOK
<1>7. left' - right' - (1 - carry_in') = result' - (1 - C') * weight'
  <2> DEFINE borrow == 1 - alu.c
             owed   == 1 - C
  <2>1. left - right - (1 - carry_in) = result - owed * weight
    BY <1>2 DEF Numbers, SubtractsNumbers
  <2>2. borrow \in Int /\ owed \in Int
    BY <1>2, <1>3 DEF Bit
  <2>3. a - m - owed = alu.r - borrow * Base
    BY <1>3
  <2>4. C' = alu.c /\ 1 - C' = borrow
    BY <1>4
  <2> HIDE DEF borrow, owed
  <2>5. /\ a \in Int /\ m \in Int /\ owed \in Int /\ alu.r \in Int /\ borrow \in Int
        /\ Base \in Int /\ weight \in Int
    BY <1>2, <1>3, <2>2, BaseFacts DEF TypeOK
  <2>6. a * weight - m * weight - owed * weight = alu.r * weight - borrow * (weight * Base)
    BY <2>3, <2>5, PlaceDifference
  <2>7. owed * weight \in Int /\ borrow * (weight * Base) \in Int
    BY <2>5
  <2>8. (1 - C') * weight' = borrow * (weight * Base) /\ carry_in' = carry_in
    BY <1>2, <1>4, <2>4, MoreDigits
  <2> DEFINE lend == owed * weight
             want == borrow * (weight * Base)
  <2>9. /\ left - right - (1 - carry_in) = result - lend
        /\ a * weight - m * weight - lend = alu.r * weight - want
        /\ lend \in Int /\ want \in Int /\ (1 - C') * weight' = want
    BY <2>1, <2>6, <2>7, <2>8
  <2> HIDE DEF lend, want
  <2> QED
    BY <1>2, <1>4, <1>5, <2>8, <2>9 DEF TypeOK, Bit
<1> QED
  BY <1>2, <1>4, <1>6, <1>7, MoreDigits
     DEF Numbers, AddsNumbers, SubtractsNumbers, ComparesNumbers, ShiftsNumbers

LEMMA NextCompareDigit == Numbers /\ CompareDigit => Numbers'
<1> SUFFICES ASSUME Numbers, CompareDigit PROVE Numbers'
  OBVIOUS
<1>1. PICK a \in Byte, m \in Byte :
        /\ left' = left * Base + a /\ right' = right * Base + m
        /\ C' = Compare(a, m).c /\ Z' = Compare(a, m).z /\ N' = Compare(a, m).n
  BY DEF CompareDigit
<1>2. /\ program = "compare" /\ TypeOK /\ More /\ a \in Nat /\ m \in Nat
      /\ UNCHANGED <<result, V>>
  BY BaseFacts DEF CompareDigit, Numbers, Byte
<1>3. left * Base \in Nat /\ right * Base \in Nat
  BY <1>2, BaseFacts, ProductOfNaturals DEF TypeOK
<1>4. TypeOK'
  BY <1>1, <1>2, <1>3, CompareOne, MoreDigits DEF TypeOK
\* So far the numbers agree.
<1>5. left = right
  BY <1>2 DEF CompareDigit, Numbers, ComparesNumbers, TypeOK
<1>6. ((C' = 1) <=> left' >= right') /\ ((Z' = 1) <=> left' = right')
  <2>1. left' = left * Base + a /\ right' = left * Base + m
    BY <1>1, <1>5
  <2> QED
    BY <1>1, <1>2, <1>3, <2>1, CompareOne
<1> QED
  BY <1>2, <1>4, <1>6, MoreDigits
     DEF Numbers, AddsNumbers, SubtractsNumbers, ComparesNumbers, ShiftsNumbers

LEMMA NextDoubleDigit == Numbers /\ DoubleDigit => Numbers'
<1> SUFFICES ASSUME Numbers, DoubleDigit PROVE Numbers'
  OBVIOUS
<1>1. PICK value \in Byte :
        LET alu == IF digits = 0 THEN ASL(value) ELSE ROL(value, C)
        IN  /\ left' = left + value * weight /\ result' = result + alu.r * weight
            /\ C' = alu.c /\ Z' = set_flag(alu.r = 0) /\ N' = set_flag(Negative(alu.r))
  BY DEF DoubleDigit
<1>2. /\ program = "double" /\ TypeOK /\ More /\ value \in Nat /\ C \in Bit
      /\ UNCHANGED <<right, V>>
  BY BaseFacts DEF DoubleDigit, Numbers, TypeOK, Byte
\* ASL of the first digit is ROL with the bit that no number has below it.
<1> DEFINE alu == IF digits = 0 THEN ASL(value) ELSE ROL(value, C)
           c   == IF digits = 0 THEN 0 ELSE C
<1>3. /\ alu.r \in Nat /\ alu.c \in Bit /\ c \in Bit
      /\ 2 * value + c = alu.r + alu.c * Base
  BY <1>2, DoubleOne DEF Bit
<1>4. /\ left' = left + value * weight /\ result' = result + alu.r * weight /\ C' = alu.c
      /\ Z' \in Bit /\ N' \in Bit
  BY <1>1 DEF set_flag, Bit
<1>5. 2 * left = result + c * weight
  BY <1>2 DEF Numbers, ShiftsNumbers, TypeOK
<1> HIDE DEF alu, c
<1>6. value * weight \in Nat /\ alu.r * weight \in Nat
  BY <1>2, <1>3, StoresDigit
<1>7. TypeOK'
  BY <1>2, <1>3, <1>4, <1>6, MoreDigits DEF TypeOK
<1>8. 2 * left' = result' + C' * weight'
  <2>1. /\ value \in Int /\ c \in Int /\ weight \in Int /\ alu.r \in Int /\ alu.c \in Int
        /\ Base \in Int /\ 2 * value + c \in Int
    BY <1>2, <1>3, BaseFacts DEF TypeOK, Bit
  <2>2. (2 * value + c) * weight = alu.r * weight + alu.c * (weight * Base)
    <3> DEFINE x == 2 * value + c
    <3>1. x \in Int /\ x = alu.r + alu.c * Base
      BY <1>3, <2>1
    <3> HIDE DEF x
    <3>2. x * weight = alu.r * weight + alu.c * (weight * Base)
      BY <2>1, <3>1, PlaceDigit
    <3> QED
      BY <3>2 DEF x
  <2>3. (2 * value + c) * weight = 2 * (value * weight) + c * weight
    BY <2>1
  <2>4. C' * weight' = alu.c * (weight * Base)
    BY <1>2, <1>4, MoreDigits
  <2> DEFINE place == value * weight
             low   == alu.r * weight
             high  == alu.c * (weight * Base)
             in    == c * weight
  <2>5. /\ left' = left + place /\ result' = result + low /\ C' * weight' = high
        /\ 2 * place + in = low + high /\ 2 * left = result + in
        /\ place \in Int /\ low \in Int /\ high \in Int /\ in \in Int
    BY <1>4, <1>5, <2>1, <2>2, <2>3, <2>4
  <2> HIDE DEF place, low, high, in
  <2> QED
    BY <1>2, <2>5 DEF TypeOK
<1> QED
  BY <1>2, <1>7, <1>8, MoreDigits
     DEF Numbers, AddsNumbers, SubtractsNumbers, ComparesNumbers, ShiftsNumbers

LEMMA NextHalveDigit == Numbers /\ HalveDigit => Numbers'
<1> SUFFICES ASSUME Numbers, HalveDigit PROVE Numbers'
  OBVIOUS
<1>1. PICK value \in Byte :
        LET alu == IF digits = 0 THEN LSR(value) ELSE ROR(value, C)
        IN  /\ left' = left * Base + value /\ result' = result * Base + alu.r
            /\ C' = alu.c /\ Z' = set_flag(alu.r = 0) /\ N' = set_flag(Negative(alu.r))
  BY DEF HalveDigit
<1>2. /\ program = "halve" /\ TypeOK /\ More /\ value \in Nat /\ C \in Bit
      /\ UNCHANGED <<right, V>>
  BY BaseFacts DEF HalveDigit, Numbers, TypeOK, Byte
<1> DEFINE alu == IF digits = 0 THEN LSR(value) ELSE ROR(value, C)
           c   == IF digits = 0 THEN 0 ELSE C
<1>3. /\ alu.r \in Nat /\ alu.c \in Bit /\ c \in Bit
      /\ c * Base + value = 2 * alu.r + alu.c
  BY <1>2, BaseFacts, HalveOne DEF Bit
<1>4. /\ left' = left * Base + value /\ result' = result * Base + alu.r /\ C' = alu.c
      /\ Z' \in Bit /\ N' \in Bit
  BY <1>1 DEF set_flag, Bit
<1>5. left = 2 * result + c
  <2>1. CASE digits = 0
    BY <2>1 DEF Numbers
  <2>2. CASE digits # 0
    BY <1>2, <2>2 DEF Numbers, ShiftsNumbers, TypeOK
  <2> QED
    BY <2>1, <2>2
<1> HIDE DEF alu, c
<1>6. left * Base \in Nat /\ result * Base \in Nat
  BY <1>2, BaseFacts, ProductOfNaturals DEF TypeOK
<1>7. TypeOK'
  BY <1>2, <1>3, <1>4, <1>6, MoreDigits DEF TypeOK
<1>8. left' = 2 * result' + C'
  <2>1. left * Base = 2 * (result * Base) + c * Base
    <3>1. result \in Int /\ c \in Int /\ Base \in Int
      BY <1>2, <1>3, BaseFacts DEF TypeOK, Bit
    <3>2. (2 * result + c) * Base = 2 * (result * Base) + c * Base
      BY <3>1
    <3> QED
      BY <1>5, <3>2
  <2>2. c * Base \in Int
    BY <1>3, BaseFacts DEF Bit
  <2> QED
    BY <1>2, <1>3, <1>4, <1>6, <2>1, <2>2 DEF Bit
<1> QED
  BY <1>2, <1>7, <1>8, MoreDigits
     DEF Numbers, AddsNumbers, SubtractsNumbers, ComparesNumbers, ShiftsNumbers

\* The programs that count only keep their types here; what they count is below.
LEMMA NextCount ==
  Numbers /\ (IncrementDigit \/ LoadCounter \/ CountDown) => Numbers'
<1> SUFFICES ASSUME Numbers, IncrementDigit \/ LoadCounter \/ CountDown PROVE Numbers'
  OBVIOUS
<1>0. TypeOK
  BY DEF Numbers
<1>1. TypeOK' /\ digits' # 0 /\ program' = program /\ program \in {"increment", "countdown"}
  <2>1. CASE IncrementDigit
    <3>1. PICK value \in Byte :
            LET alu == IF digits = 0 \/ Z = 1 THEN INC(value)
                       ELSE [r |-> value, z |-> Z, n |-> N]
            IN  /\ left' = left + value * weight /\ result' = result + alu.r * weight
                /\ Z' = alu.z /\ N' = alu.n
      BY <2>1 DEF IncrementDigit
    <3> DEFINE alu == IF digits = 0 \/ Z = 1 THEN INC(value)
                      ELSE [r |-> value, z |-> Z, n |-> N]
    <3>2. value \in Nat /\ alu.r \in Nat /\ alu.z \in Bit /\ alu.n \in Bit
      BY <1>0, BaseFacts, CountOne DEF Byte, TypeOK
    <3>3. /\ left' = left + value * weight /\ result' = result + alu.r * weight
          /\ Z' = alu.z /\ N' = alu.n /\ More /\ UNCHANGED <<right, C, V>>
          /\ program = "increment"
      BY <2>1, <3>1 DEF IncrementDigit
    <3> HIDE DEF alu
    <3>4. value * weight \in Nat /\ alu.r * weight \in Nat
      BY <1>0, <3>2, StoresDigit
    <3> QED
      BY <1>0, <3>2, <3>3, <3>4, MoreDigits DEF TypeOK
  <2>2. CASE LoadCounter
    <3>1. PICK x \in Byte : /\ left' = x /\ right' = x /\ Z' = set_flag(x = 0)
                            /\ N' = set_flag(Negative(x))
      BY <2>2 DEF LoadCounter
    <3>2. x \in Nat /\ Z' \in Bit /\ N' \in Bit
      BY <3>1, BaseFacts, Zenon, FlagIsBit, BytesAreNaturals
    <3>3. digits' = 1 /\ program = "countdown"
      BY <2>2 DEF LoadCounter
    <3>4. program' = program /\ weight' = weight /\ result' = result
          /\ carry_in' = carry_in /\ C' = C /\ V' = V
      BY <2>2 DEF LoadCounter
    <3>5. 1 \in 0 .. MaxDigits
      BY AluAssumption DEF AluAssumption
    <3>6. left' \in Nat /\ right' \in Nat
      BY <3>1, <3>2
    <3>7. TypeOK'
      BY <1>0, <3>2, <3>3, <3>4, <3>5, <3>6 DEF TypeOK
    <3> QED
      BY <3>3, <3>4, <3>7
  <2>3. CASE CountDown
    <3>1. right' = DEC(right).r /\ Z' = DEC(right).z /\ N' = DEC(right).n
      BY <2>3 DEF CountDown
    <3>2. right' \in Nat /\ Z' \in Bit /\ N' \in Bit
      BY <1>0, <3>1, CountOne DEF TypeOK
    <3>3. /\ program = "countdown" /\ digits = 1 /\ result' = result + 1
          /\ program' = program /\ digits' = digits /\ weight' = weight /\ left' = left
          /\ carry_in' = carry_in /\ C' = C /\ V' = V
      BY <2>3 DEF CountDown
    <3>4. TypeOK'
      BY <1>0, <3>2, <3>3 DEF TypeOK
    <3> QED
      BY <3>3, <3>4
  <2> QED
    BY <2>1, <2>2, <2>3
<1> QED
  BY <1>1 DEF Numbers, AddsNumbers, SubtractsNumbers, ComparesNumbers, ShiftsNumbers

----------------------------------------------------------------------------
(* Signed numbers: only the last digit has a sign.                         *)

SignedDigit(a) == IF Negative(a) THEN a - Base ELSE a

LEMMA Monotone ==
  ASSUME NEW x \in Int, NEW y \in Int, NEW w \in Nat, x <= y
  PROVE  x * w <= y * w
BY SMT

\* What is below a digit never changes on which side of a multiple it lies.
LEMMA DigitDecides ==
  ASSUME NEW w \in Nat \ {0}, NEW n \in 0 .. w - 1, NEW k \in Int, NEW h \in Int
  PROVE  n + k * w < h * w <=> k < h
<1> DEFINE kw == k * w
           hw == h * w
<1>0. kw \in Int /\ hw \in Int
  OBVIOUS
<1>1. CASE k < h
  <2>1. (k + 1) * w <= h * w
    BY <1>1, Monotone
  <2>2. (k + 1) * w = k * w + w
    OBVIOUS
  <2>3. kw + w <= hw
    BY <2>1, <2>2
  <2> HIDE DEF kw, hw
  <2>4. n + kw < hw
    BY <1>0, <2>3
  <2> QED
    BY <1>1, <2>4 DEF kw, hw
<1>2. CASE h <= k
  <2>1. hw <= kw
    BY <1>2, Monotone
  <2> HIDE DEF kw, hw
  <2>2. ~(n + kw < hw)
    BY <1>0, <2>1
  <2> QED
    BY <1>2, <2>2 DEF kw, hw
<1> QED
  BY <1>1, <1>2

\* The sign of a number is that of its last digit.
LEMMA SignedNumber ==
  ASSUME NEW w \in Nat \ {0}, NEW n \in 0 .. w - 1, NEW a \in Byte
  PROVE  (IF 2 * (n + a * w) >= w * Base THEN (n + a * w) - w * Base ELSE n + a * w)
           = n + SignedDigit(a) * w
<1> USE BaseFacts
<1>1. a \in Int /\ a * w \in Int /\ Half * w \in Int /\ w * Base = 2 * (Half * w)
  BY DEF Byte
<1>2. (n + a * w < Half * w) <=> a < Half
  BY <1>1, DigitDecides
<1>3. (a - Base) * w = a * w - w * Base
  BY <1>1
<1> QED
  BY <1>1, <1>2, <1>3 DEF SignedDigit, Negative

\* A signed number has room exactly when its last digit has.
LEMMA FitsByDigit ==
  ASSUME NEW w \in Nat \ {0}, NEW n \in 0 .. w - 1, NEW k \in Int
  PROVE  /\ (-(w * Base) <= 2 * (n + k * w) /\ 2 * (n + k * w) < w * Base)
               <=> (-Half <= k /\ k < Half)
         /\ n + k * w < 0 <=> k < 0
<1> USE BaseFacts
<1>1. k * w \in Int /\ Half * w \in Int /\ w * Base = 2 * (Half * w)
  OBVIOUS
<1>2. (n + k * w < Half * w) <=> k < Half
  BY DigitDecides
<1>3. (n + k * w < (-Half) * w) <=> k < -Half
  BY DigitDecides
<1>4. (-Half) * w = -(Half * w)
  OBVIOUS
<1>5. (n + k * w < 0 * w) <=> k < 0
  BY DigitDecides
<1> QED
  BY <1>1, <1>2, <1>3, <1>4, <1>5

LEMMA AddSigned ==
  ASSUME NEW a \in Byte, NEW m \in Byte, NEW c \in Bit
  PROVE  LET k == SignedDigit(a) + SignedDigit(m) + c
         IN  /\ (ADC(a, m, c).v = 0) <=> (-Half <= k /\ k < Half)
             /\ ADC(a, m, c).v = 0 =>
                  /\ SignedDigit(ADC(a, m, c).r) = k
                  /\ (ADC(a, m, c).n = 1) <=> k < 0
<1> DEFINE r   == ADC(a, m, c).r
           out == ADC(a, m, c).c
<1>1. r \in Byte /\ out \in Bit /\ a + m + c = r + out * Base
  BY AddOne
<1>2. /\ ADC(a, m, c).v = set_flag(Negative(a) = Negative(m) /\ Negative(a) # Negative(r))
      /\ ADC(a, m, c).n = set_flag(Negative(r))
  BY DEF ADC
<1>3. /\ (ADC(a, m, c).v = 0) <=> ~(Negative(a) = Negative(m) /\ Negative(a) # Negative(r))
      /\ (ADC(a, m, c).n = 1) <=> Negative(r)
  BY <1>2 DEF set_flag
<1> HIDE DEF r, out
<1>4. out * Base = (IF out = 0 THEN 0 ELSE Base)
  BY <1>1, BaseFacts DEF Bit
<1> QED
  BY <1>1, <1>3, <1>4, BaseFacts DEF SignedDigit, Negative, Byte, Bit, r

LEMMA SubtractSigned ==
  ASSUME NEW a \in Byte, NEW m \in Byte, NEW c \in Bit
  PROVE  LET k == SignedDigit(a) - SignedDigit(m) - (1 - c)
         IN  /\ (SBC(a, m, c).v = 0) <=> (-Half <= k /\ k < Half)
             /\ (SBC(a, m, c).n # SBC(a, m, c).v) <=> k < 0
<1> DEFINE r   == SBC(a, m, c).r
           out == SBC(a, m, c).c
<1>1. r \in Byte /\ out \in Bit /\ a - m - (1 - c) = r - (1 - out) * Base
  BY SubtractOne
<1>2. /\ SBC(a, m, c).v = set_flag(Negative(a) # Negative(m) /\ Negative(a) # Negative(r))
      /\ SBC(a, m, c).n = set_flag(Negative(r))
  BY DEF SBC
<1>3. /\ SBC(a, m, c).v = (IF Negative(a) # Negative(m) /\ Negative(a) # Negative(r)
                           THEN 1 ELSE 0)
      /\ SBC(a, m, c).n = (IF Negative(r) THEN 1 ELSE 0)
  BY <1>2 DEF set_flag
<1> HIDE DEF r, out
<1>4. (1 - out) * Base = (IF out = 1 THEN 0 ELSE Base)
  BY <1>1, BaseFacts DEF Bit
<1> QED
  BY <1>1, <1>3, <1>4, BaseFacts DEF SignedDigit, Negative, Byte, Bit, r

----------------------------------------------------------------------------
LEMMA NumbersKept == Spec => []Numbers
<1>1. Init => Numbers
  <2> SUFFICES ASSUME Init PROVE Numbers
    OBVIOUS
  <2>1. TypeOK /\ digits = 0
    BY AluAssumption DEF AluAssumption, Init, TypeOK, Bit
  <2>2. C * weight = C /\ (1 - C) * weight = 1 - C
    BY DEF Init, Bit
  <2>3. AddsNumbers /\ SubtractsNumbers
    BY <2>1, <2>2 DEF Init, Bit, AddsNumbers, SubtractsNumbers
  <2> QED
    BY <2>1, <2>3 DEF Init, Numbers, ComparesNumbers, ShiftsNumbers
<1>2. Numbers /\ [Next]_vars => Numbers'
  <2>1. Numbers /\ UNCHANGED vars => Numbers'
    BY DEF vars, flags, Numbers, TypeOK, AddsNumbers, SubtractsNumbers, ComparesNumbers,
           ShiftsNumbers
  <2> QED
    BY <2>1, NextAddDigit, NextSubtractDigit, NextCompareDigit, NextDoubleDigit,
       NextHalveDigit, NextCount DEF Next
<1> QED
  BY <1>1, <1>2, PTL DEF Spec

\* No chain of operations takes a register or a flag out of its type.
THEOREM TypeCorrect == Spec => []TypeOK
BY NumbersKept, PTL DEF Numbers

\* ADC adds numbers of every length, on bytes of every width.
THEOREM Adds == Spec => []AddsNumbers
BY NumbersKept, PTL DEF Numbers

\* SBC subtracts them, and the complement of the last carry is the borrow.
THEOREM Subtracts == Spec => []SubtractsNumbers
BY NumbersKept, PTL DEF Numbers

\* CMP from the highest digit down finds their order.
THEOREM Compares == Spec => []ComparesNumbers
BY NumbersKept, PTL DEF Numbers

\* ASL and ROL double a number, LSR and ROR halve it, and lose no bit.
THEOREM ShiftsDigits == Spec => []ShiftsNumbers
BY NumbersKept, PTL DEF Numbers

----------------------------------------------------------------------------
(* Signed sums and counts, on top of Numbers.                              *)

\* No number has more digits than have been calculated.
Bounded ==
  program \in {"add", "subtract", "increment"} =>
    left < weight /\ right < weight /\ result < weight

\* Z says whether every digit so far became 0, or whether X did.
Counts ==
  /\ program = "increment" =>
       /\ digits = 0 \/ Z = 1 => left + 1 = weight /\ result = 0
       /\ digits > 0 /\ Z = 0 => result = left + 1
  /\ program = "countdown" /\ digits > 0 =>
       /\ left < Base /\ digits = 1
       /\ result = 0 => right = left
       /\ result > 0 =>
            LET all == IF left = 0 THEN Base ELSE left
            IN  result <= all /\ right = all - result /\ ((Z = 1) <=> result = all)

SignedNumbers == Bounded /\ Counts /\ OverflowIsSigned

\* One more digit of a bounded number.
LEMMA BoundedDigit ==
  ASSUME NEW w \in Nat \ {0}, NEW n \in 0 .. w - 1, NEW a \in Byte
  PROVE  n + a * w \in Nat /\ n + a * w < w * Base
<1> USE BaseFacts
<1>1. a \in Int /\ a < Base /\ a >= 0
  BY DEF Byte
<1>2. n + a * w < Base * w
  BY <1>1, DigitDecides
<1>3. a * w \in Nat
  BY <1>1, ProductOfNaturals
<1> QED
  BY <1>2, <1>3

LEMMA ChainSigned ==
  ASSUME Numbers, Bounded, NEW a \in Byte, NEW m \in Byte, NEW r \in Byte,
         program \in {"add", "subtract"}, More,
         left' = left + a * weight, right' = right + m * weight,
         result' = result + r * weight
  PROVE  /\ Bounded'
         /\ Signed(left)' = left + SignedDigit(a) * weight
         /\ Signed(right)' = right + SignedDigit(m) * weight
         /\ Signed(result)' = result + SignedDigit(r) * weight
<1>1. /\ weight \in Nat \ {0} /\ left \in 0 .. weight - 1 /\ right \in 0 .. weight - 1
      /\ result \in 0 .. weight - 1
  BY DEF Numbers, TypeOK, Bounded
<1>2. weight' = weight * Base
  BY MoreDigits DEF Numbers
<1>3. Bounded'
  BY <1>1, <1>2, BoundedDigit DEF Bounded
<1>4. /\ Signed(left)' = left + SignedDigit(a) * weight
      /\ Signed(right)' = right + SignedDigit(m) * weight
      /\ Signed(result)' = result + SignedDigit(r) * weight
  BY <1>1, <1>2, SignedNumber DEF Signed
<1> QED
  BY <1>3, <1>4

LEMMA NextAddSigned == Numbers /\ SignedNumbers /\ AddDigit => SignedNumbers'
<1> SUFFICES ASSUME Numbers, SignedNumbers, AddDigit PROVE SignedNumbers'
  OBVIOUS
<1>1. PICK a \in Byte, m \in Byte : Chain(a, m, ADC(a, m, C))
  BY DEF AddDigit
<1> DEFINE alu == ADC(a, m, C)
           k   == SignedDigit(a) + SignedDigit(m) + C
<1>2. /\ program = "add" /\ program' = program /\ C \in Bit /\ weight \in Nat \ {0}
      /\ left \in 0 .. weight - 1 /\ right \in 0 .. weight - 1 /\ result \in 0 .. weight - 1
      /\ carry_in \in Bit /\ carry_in' = carry_in /\ weight' = weight * Base
  BY <1>1, MoreDigits DEF AddDigit, Chain, Numbers, TypeOK, SignedNumbers, Bounded
<1>3. /\ alu.r \in Byte
      /\ (alu.v = 0) <=> (-Half <= k /\ k < Half)
      /\ alu.v = 0 => SignedDigit(alu.r) = k /\ ((alu.n = 1) <=> k < 0)
  BY <1>2, AddOne, AddSigned
<1>4. /\ left' = left + a * weight /\ right' = right + m * weight
      /\ result' = result + alu.r * weight /\ N' = alu.n /\ V' = alu.v /\ More
  BY <1>1 DEF Chain
<1> HIDE DEF alu
<1>5. /\ Bounded'
      /\ Signed(left)' = left + SignedDigit(a) * weight
      /\ Signed(right)' = right + SignedDigit(m) * weight
      /\ Signed(result)' = result + SignedDigit(alu.r) * weight
  BY <1>2, <1>3, <1>4, ChainSigned DEF SignedNumbers
<1>6. SignedDigit(a) \in Int /\ SignedDigit(m) \in Int /\ C \in Int /\ k \in Int
  BY <1>2, BaseFacts DEF SignedDigit, Byte, Bit
<1>7. Signed(left)' + Signed(right)' + carry_in' = result + k * weight
  <2>1. k * weight = SignedDigit(a) * weight + SignedDigit(m) * weight + C * weight
    BY <1>2, <1>6, ThreeInPlace
  <2>2. left + right + carry_in = result + C * weight
    BY <1>2 DEF Numbers, AddsNumbers
  <2>3. /\ SignedDigit(a) * weight \in Int /\ SignedDigit(m) * weight \in Int
        /\ C * weight \in Int
    BY <1>2, <1>6
  <2> HIDE DEF k
  <2> QED
    BY <1>2, <1>5, <2>1, <2>2, <2>3 DEF Bit
<1> HIDE DEF k
<1>8. /\ (-weight' <= 2 * (result + k * weight) /\ 2 * (result + k * weight) < weight')
           <=> (-Half <= k /\ k < Half)
      /\ result + k * weight < 0 <=> k < 0
  BY <1>2, <1>6, FitsByDigit
<1>9. OverflowIsSigned'
  <2> DEFINE sum == Signed(left)' + Signed(right)' + carry_in'
  <2>1. /\ (V' = 0) <=> (-weight' <= 2 * sum /\ 2 * sum < weight')
        /\ V' = 0 => Signed(result)' = sum /\ ((N' = 1) <=> sum < 0)
    BY <1>3, <1>4, <1>5, <1>7, <1>8
  <2> QED
    BY <1>2, <2>1 DEF OverflowIsSigned, Fits
<1> QED
  BY <1>2, <1>5, <1>9 DEF SignedNumbers, Counts

LEMMA NextSubtractSigned == Numbers /\ SignedNumbers /\ SubtractDigit => SignedNumbers'
<1> SUFFICES ASSUME Numbers, SignedNumbers, SubtractDigit PROVE SignedNumbers'
  OBVIOUS
<1>1. PICK a \in Byte, m \in Byte : Chain(a, m, SBC(a, m, C))
  BY DEF SubtractDigit
<1> DEFINE alu == SBC(a, m, C)
           owe == 1 - C
           k   == SignedDigit(a) - SignedDigit(m) - owe
<1>2. /\ program = "subtract" /\ program' = program /\ C \in Bit /\ weight \in Nat \ {0}
      /\ left \in 0 .. weight - 1 /\ right \in 0 .. weight - 1 /\ result \in 0 .. weight - 1
      /\ carry_in \in Bit /\ carry_in' = carry_in /\ weight' = weight * Base
  BY <1>1, MoreDigits DEF SubtractDigit, Chain, Numbers, TypeOK, SignedNumbers, Bounded
<1>3. /\ alu.r \in Byte
      /\ (alu.v = 0) <=> (-Half <= k /\ k < Half)
      /\ (alu.n # alu.v) <=> k < 0
  BY <1>2, SubtractOne, SubtractSigned
<1>4. /\ left' = left + a * weight /\ right' = right + m * weight
      /\ result' = result + alu.r * weight /\ N' = alu.n /\ V' = alu.v /\ More
  BY <1>1 DEF Chain
<1> HIDE DEF alu
<1>5. /\ Bounded'
      /\ Signed(left)' = left + SignedDigit(a) * weight
      /\ Signed(right)' = right + SignedDigit(m) * weight
  BY <1>2, <1>3, <1>4, ChainSigned DEF SignedNumbers
<1>6. /\ SignedDigit(a) \in Int /\ SignedDigit(m) \in Int /\ owe \in Int /\ k \in Int
  BY <1>2, BaseFacts DEF SignedDigit, Byte, Bit
<1>7. Signed(left)' - Signed(right)' - (1 - carry_in') = result + k * weight
  <2>1. left - right - (1 - carry_in) = result - owe * weight
    BY <1>2 DEF Numbers, SubtractsNumbers
  <2> HIDE DEF owe
  <2>2. k * weight = SignedDigit(a) * weight - SignedDigit(m) * weight - owe * weight
    BY <1>2, <1>6
  <2>3. /\ SignedDigit(a) * weight \in Int /\ SignedDigit(m) * weight \in Int
        /\ owe * weight \in Int
    BY <1>2, <1>6
  <2> HIDE DEF k
  <2> QED
    BY <1>2, <1>5, <2>1, <2>2, <2>3 DEF Bit
<1> HIDE DEF k, owe
<1>8. /\ (-weight' <= 2 * (result + k * weight) /\ 2 * (result + k * weight) < weight')
           <=> (-Half <= k /\ k < Half)
      /\ result + k * weight < 0 <=> k < 0
  BY <1>2, <1>6, FitsByDigit
<1>9. OverflowIsSigned'
  <2> DEFINE difference == Signed(left)' - Signed(right)' - (1 - carry_in')
  <2>1. /\ (V' = 0) <=> (-weight' <= 2 * difference /\ 2 * difference < weight')
        /\ (N' # V') <=> difference < 0
    BY <1>3, <1>4, <1>7, <1>8
  <2> QED
    BY <1>2, <2>1 DEF OverflowIsSigned, Fits
<1> QED
  BY <1>2, <1>5, <1>9 DEF SignedNumbers, Counts

LEMMA NextIncrementSigned == Numbers /\ SignedNumbers /\ IncrementDigit => SignedNumbers'
<1> SUFFICES ASSUME Numbers, SignedNumbers, IncrementDigit PROVE SignedNumbers'
  OBVIOUS
<1>1. PICK value \in Byte :
        LET alu == IF digits = 0 \/ Z = 1 THEN INC(value) ELSE [r |-> value, z |-> Z, n |-> N]
        IN  /\ left' = left + value * weight /\ result' = result + alu.r * weight
            /\ Z' = alu.z /\ N' = alu.n
  BY DEF IncrementDigit
<1>2. /\ program = "increment" /\ program' = program /\ weight \in Nat \ {0} /\ Z \in Bit
      /\ left \in 0 .. weight - 1 /\ right \in 0 .. weight - 1 /\ result \in 0 .. weight - 1
      /\ weight' = weight * Base /\ right' = right /\ digits \in Nat /\ digits' \in Nat \ {0}
  BY MoreDigits DEF IncrementDigit, Numbers, TypeOK, SignedNumbers, Bounded
<1>3. value * weight \in Nat /\ value \in Nat /\ Base * weight = weight * Base
      /\ weight <= weight * Base
  BY <1>2, BaseFacts, BytesAreNaturals, ProductOfNaturals
<1>4. left' \in Nat /\ left' < weight' /\ right' < weight'
  BY <1>1, <1>2, <1>3, BoundedDigit
\* What is left to show: the result, and what Z says of it.
<1>8. ASSUME result' < weight',
             Z' = 1 => left' + 1 = weight' /\ result' = 0,
             Z' = 0 => result' = left' + 1
      PROVE  SignedNumbers'
  <2>1. Bounded'
    BY <1>2, <1>4, <1>8 DEF Bounded
  <2>2. digits' # 0 /\ program' = "increment"
    BY <1>2
  <2>3. Counts'
    BY <1>8, <2>2 DEF Counts
  <2>4. OverflowIsSigned'
    BY <2>2 DEF OverflowIsSigned
  <2> QED
    BY <2>1, <2>3, <2>4 DEF SignedNumbers
<1>5. CASE (digits = 0 \/ Z = 1) /\ value < Base - 1
  <2>1. (value + 1) % Base = value + 1
    BY <1>3, <1>5, BaseFacts, RemainderSmall
  <2>2. INC(value).r = value + 1 /\ INC(value).z = 0
    BY <1>3, <2>1 DEF INC, set_flag
  <2>3. result' = result + (value + 1) * weight /\ Z' = 0
    BY <1>1, <1>5, <2>2
  <2>4. left + 1 = weight /\ result = 0
    BY <1>2, <1>5 DEF SignedNumbers, Counts
  <2>5. value + 1 \in Byte
    BY <1>3, <1>5, BaseFacts DEF Byte
  <2>6. (value + 1) * weight = value * weight + weight
    BY <1>2, <1>3
  <2>7. 0 + (value + 1) * weight < weight * Base
    BY <1>2, <2>5, BoundedDigit
  <2>8. result' = left' + 1 /\ result' < weight'
    BY <1>1, <1>2, <1>3, <2>3, <2>4, <2>6, <2>7
  <2> QED
    BY <1>8, <2>3, <2>8
<1>6. CASE (digits = 0 \/ Z = 1) /\ value = Base - 1
  <2>1. (value + 1) % Base = 0
    BY <1>6, BaseFacts, RemainderOfMultiple
  <2>2. INC(value).r = 0 /\ INC(value).z = 1
    BY <2>1 DEF INC, set_flag
  <2>3. result' = result + 0 * weight /\ Z' = 1
    BY <1>1, <1>6, <2>2
  <2>4. left + 1 = weight /\ result = 0
    BY <1>2, <1>6 DEF SignedNumbers, Counts
  <2>5. value * weight = weight * Base - weight
    BY <1>2, <1>6, BaseFacts
  <2>6. left' + 1 = weight' /\ result' = 0
    BY <1>1, <1>2, <1>3, <2>3, <2>4, <2>5
  <2> QED
    <3>1. result' < weight'
      BY <1>2, <1>4, <2>6
    <3>2. Z' # 0
      BY <2>3
    <3> QED
      BY <1>8, <2>6, <3>1, <3>2
<1>7. CASE ~(digits = 0 \/ Z = 1)
  <2>1. result' = result + value * weight /\ Z' = 0 /\ result = left + 1
    BY <1>1, <1>2, <1>7 DEF SignedNumbers, Counts, Bit
  <2>2. result' = left' + 1 /\ result' < weight'
    BY <1>1, <1>2, <1>3, <2>1, BoundedDigit
  <2> QED
    BY <1>8, <2>1, <2>2
<1> QED
  BY <1>3, <1>5, <1>6, <1>7, BaseFacts DEF Byte

LEMMA NextLoadSigned == Numbers /\ SignedNumbers /\ LoadCounter => SignedNumbers'
<1> SUFFICES ASSUME Numbers, SignedNumbers, LoadCounter PROVE SignedNumbers'
  OBVIOUS
<1>1. PICK x \in Byte : left' = x /\ right' = x
  BY DEF LoadCounter
<1>2. /\ program' = "countdown" /\ digits' = 1 /\ result' = 0 /\ x \in Nat /\ x < Base
  BY BaseFacts, BytesAreNaturals DEF LoadCounter, Numbers, Byte
<1> QED
  BY <1>1, <1>2 DEF SignedNumbers, Bounded, Counts, OverflowIsSigned

LEMMA NextCountSigned == Numbers /\ SignedNumbers /\ CountDown => SignedNumbers'
<1> SUFFICES ASSUME Numbers, SignedNumbers, CountDown PROVE SignedNumbers'
  OBVIOUS
<1>1. /\ right' = DEC(right).r /\ Z' = DEC(right).z /\ program = "countdown" /\ digits = 1
      /\ program' = program /\ digits' = digits /\ left' = left /\ result' = result + 1
      /\ result = 0 \/ Z = 0
  BY DEF CountDown
<1>2. DEC(right).r = (right - 1) % Base /\ DEC(right).z = set_flag((right - 1) % Base = 0)
  BY DEF DEC
<1> DEFINE all == IF left = 0 THEN Base ELSE left
<1>3. /\ left \in Nat /\ right \in Nat /\ result \in Nat /\ left < Base /\ Z \in Bit
  BY <1>1 DEF Numbers, TypeOK, SignedNumbers, Counts
\* Only the first pass can find X at 0, and then there are Base of them.
<1>4. /\ result < all /\ (result = 0 => right = left)
      /\ right = 0 => result = 0 /\ left = 0
      /\ right # 0 => right = all - result
  BY <1>1, <1>3, BaseFacts DEF SignedNumbers, Counts, Bit
<1>5. right < Base
  BY <1>3, <1>4, BaseFacts
<1>6. (right - 1) % Base = all - (result + 1)
  <2>1. CASE right = 0
    <3>1. (right - 1) % Base = (right - 1) + Base
      BY <2>1, BaseFacts, RemainderNegative
    <3> QED
      BY <1>3, <1>4, <2>1, <3>1, BaseFacts
  <2>2. CASE right # 0
    <3>1. (right - 1) % Base = right - 1
      BY <1>3, <1>5, <2>2, BaseFacts, RemainderSmall
    <3> QED
      BY <1>3, <1>4, <2>2, <3>1, BaseFacts
  <2> QED
    BY <2>1, <2>2
<1>7. all \in Nat
  BY <1>3, BaseFacts
<1>8. Counts'
  <2> HIDE DEF all
  <2>1. /\ result' <= all /\ right' = all - result' /\ ((Z' = 1) <=> result' = all)
        /\ result' > 0
    BY <1>1, <1>2, <1>3, <1>4, <1>6, <1>7 DEF set_flag
  <2> QED
    BY <1>1, <1>3, <2>1 DEF Counts, all
<1> QED
  BY <1>1, <1>8 DEF SignedNumbers, Bounded, OverflowIsSigned

LEMMA NextOtherSigned ==
  Numbers /\ SignedNumbers /\ (CompareDigit \/ DoubleDigit \/ HalveDigit) => SignedNumbers'
<1> SUFFICES ASSUME CompareDigit \/ DoubleDigit \/ HalveDigit PROVE SignedNumbers'
  OBVIOUS
<1>1. program' \in {"compare", "double", "halve"}
  BY DEF CompareDigit, DoubleDigit, HalveDigit, More
<1> QED
  BY <1>1 DEF SignedNumbers, Bounded, Counts, OverflowIsSigned

LEMMA SignedNumbersKept == Spec => []SignedNumbers
<1>1. Init => SignedNumbers
  <2> SUFFICES ASSUME Init PROVE SignedNumbers
    OBVIOUS
  <2> QED
    BY DEF Init, SignedNumbers, Bounded, Counts, OverflowIsSigned
<1>2. Numbers /\ SignedNumbers /\ [Next]_vars => SignedNumbers'
  <2>1. SignedNumbers /\ UNCHANGED vars => SignedNumbers'
    BY DEF vars, flags, SignedNumbers, Bounded, Counts, OverflowIsSigned, Fits, Signed
  <2> QED
    BY <2>1, NextAddSigned, NextSubtractSigned, NextIncrementSigned, NextLoadSigned,
       NextCountSigned, NextOtherSigned DEF Next
<1> QED
  BY <1>1, <1>2, NumbersKept, PTL DEF Spec

\* After the last digit V says whether a signed sum or difference has room, and
\* N, or N with V, which sign it has.
THEOREM OverflowSigned == Spec => []OverflowIsSigned
BY SignedNumbersKept, PTL DEF SignedNumbers

\* INC with BNE counts through every digit, and DEX with BNE runs X times.
THEOREM CountsRight == Spec => []CountsNumbers
<1>1. Numbers /\ SignedNumbers => CountsNumbers
  <2> SUFFICES ASSUME Numbers, SignedNumbers PROVE CountsNumbers
    OBVIOUS
  <2>0. /\ left \in Nat /\ right \in Nat /\ result \in Nat /\ weight \in Nat \ {0}
        /\ Z \in Bit /\ digits \in Nat
    BY DEF Numbers, TypeOK
  <2>1. ASSUME program = "increment", digits > 0
        PROVE  result = (left + 1) % weight
    <3>1. CASE Z = 1
      <4>1. left + 1 = weight * 1 + 0 /\ result = 0
        BY <2>0, <2>1, <3>1 DEF SignedNumbers, Counts
      <4> QED
        BY <2>0, <4>1, RemainderOfMultiple
    <3>2. CASE Z = 0
      <4>1. result = left + 1 /\ result < weight
        BY <2>0, <2>1, <3>2 DEF SignedNumbers, Counts, Bounded
      <4> QED
        BY <2>0, <4>1, RemainderSmall
    <3> QED
      BY <2>0, <3>1, <3>2 DEF Bit
  <2>2. ASSUME program = "countdown", result > 0
        PROVE  /\ right = (left - result) % Base
               /\ (Z = 1) <=> result = (IF left = 0 THEN Base ELSE left)
    <3> DEFINE all == IF left = 0 THEN Base ELSE left
    <3>1. digits > 0
      BY <2>0, <2>2 DEF Numbers
    <3>2. left < Base /\ result <= all /\ right = all - result /\ ((Z = 1) <=> result = all)
      BY <2>2, <3>1 DEF SignedNumbers, Counts
    <3>3. (left - result) % Base = all - result
      <4>1. CASE left = 0
        BY <2>0, <2>2, <3>2, <4>1, BaseFacts, RemainderNegative
      <4>2. CASE left # 0
        BY <2>0, <3>2, <4>2, BaseFacts, RemainderSmall
      <4> QED
        BY <4>1, <4>2
    <3> QED
      BY <3>2, <3>3
  <2> QED
    BY <2>1, <2>2 DEF CountsNumbers
<1> QED
  BY <1>1, NumbersKept, SignedNumbersKept, PTL

----------------------------------------------------------------------------
\* Every program at once.
THEOREM Computes == Spec => []ComputesNumbers
<1>1. /\ AddsNumbers /\ SubtractsNumbers /\ OverflowIsSigned
      /\ ComparesNumbers /\ ShiftsNumbers /\ CountsNumbers
      => ComputesNumbers
  BY DEF ComputesNumbers
<1> QED
  BY <1>1, Adds, Subtracts, Compares, ShiftsDigits, OverflowSigned, CountsRight, PTL
=============================================================================
