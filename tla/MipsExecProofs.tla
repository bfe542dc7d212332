--------------------------- MODULE MipsExecProofs ---------------------------
(* Words: every operation of MipsWord yields a value of its width; the        *)
(* arithmetic of division, of powers of two and of bits.  Instructions: what  *)
(* each keeps, whatever its operands: the shape of the state, the pc pair,    *)
(* register 0, all it does not name as its result and, when it fails,         *)
(* everything.                                                                *)
EXTENDS MipsExec, WellFoundedInduction, TLAPS

----------------------------------------------------------------------------
(* Induction: a set with 0 and all the successors of its numbers is Nat.  The *)
(* library's theorem has the property as an operator; this one has it as a    *)
(* set, and follows from the well-foundedness of <.                           *)

LEMMA LeastElement ==
  ASSUME NEW T, T \subseteq Nat, T # {}
  PROVE  \E m \in T : \A n \in T : ~(n < m)
<1> DEFINE R == OpToRel(<, Nat)
<1>1. IsWellFoundedOn(R, Nat)
  BY NatLessThanWellFounded
<1>2. R = {ss \in Nat \X Nat : ss[1] < ss[2]}
  BY DEF OpToRel
<1> HIDE DEF R
<1>3. PICK m \in T : \A n \in T : ~(<< n, m >> \in R)
  BY <1>1, WFMin
<1>4. \A n \in T : ~(n < m)
  <2> SUFFICES ASSUME NEW n \in T, n < m PROVE FALSE
    OBVIOUS
  <2>1. << n, m >> \in R
    BY <1>2
  <2> QED BY <1>3, <2>1
<1> QED BY <1>4

LEMMA SetInduction ==
  ASSUME NEW S, 0 \in S, \A n \in Nat : n \in S => n + 1 \in S
  PROVE  Nat \subseteq S
<1> DEFINE T == Nat \ S
<1> SUFFICES ASSUME T # {} PROVE FALSE
  OBVIOUS
<1>1. PICK m \in T : \A n \in T : ~(n < m)
  <2>1. T \subseteq Nat
    OBVIOUS
  <2> QED BY <2>1, LeastElement
<1>2. m # 0 /\ m - 1 \in Nat /\ m - 1 \notin T
  BY <1>1
<1>3. (m - 1) + 1 \in S
  BY <1>2
<1> QED BY <1>1, <1>2, <1>3

----------------------------------------------------------------------------
(* The powers of two, and the widths they make.                               *)

LEMMA BitCounts == ByteBits \in Nat /\ ByteBits >= 2 /\ WordBits = 4 * ByteBits
BY WidthAssumption DEF WordBits

LEMMA PowerType == \A k \in 0 .. WordBits + 1 : 2 ^ k \in Nat \ {0}
<1> DEFINE S == {k \in Nat : k <= WordBits + 1 => 2 ^ k \in Nat \ {0}}
<1>1. WordBits \in Nat
  BY BitCounts
<1>2. 0 \in S
  BY PowerAssumption
<1>3. ASSUME NEW n \in Nat, n \in S
      PROVE  n + 1 \in S
  <2> SUFFICES ASSUME n + 1 <= WordBits + 1
               PROVE  2 ^ (n + 1) \in Nat \ {0}
    OBVIOUS
  <2>1. n \in 0 .. WordBits /\ 2 ^ n \in Nat \ {0}
    BY <1>1, <1>3
  <2>2. 2 ^ (n + 1) = 2 * 2 ^ n
    BY <2>1, PowerAssumption
  <2> QED BY <2>1, <2>2
<1> HIDE DEF S
<1>4. Nat \subseteq S
  BY <1>2, <1>3, SetInduction
<1> QED BY <1>1, <1>4 DEF S

LEMMA PowerSum ==
  ASSUME NEW j \in Nat, NEW k \in Nat, j + k <= WordBits + 1
  PROVE  2 ^ (j + k) = 2 ^ j * 2 ^ k
<1> DEFINE S == {n \in Nat : j + n <= WordBits + 1 => 2 ^ (j + n) = 2 ^ j * 2 ^ n}
<1>1. WordBits \in Nat
  BY BitCounts
<1>2. 0 \in S
  <2> SUFFICES ASSUME j <= WordBits + 1
               PROVE  2 ^ (j + 0) = 2 ^ j * 2 ^ 0
    OBVIOUS
  <2>1. 2 ^ j \in Nat
    BY <1>1, PowerType
  <2>2. j + 0 = j
    OBVIOUS
  <2> QED BY <2>1, <2>2, PowerAssumption
<1>3. ASSUME NEW n \in Nat, n \in S
      PROVE  n + 1 \in S
  <2> SUFFICES ASSUME j + (n + 1) <= WordBits + 1
               PROVE  2 ^ (j + (n + 1)) = 2 ^ j * 2 ^ (n + 1)
    OBVIOUS
  <2>1. 2 ^ (j + n) = 2 ^ j * 2 ^ n
    BY <1>1, <1>3
  <2>2. j + n \in 0 .. WordBits /\ n \in 0 .. WordBits
    BY <1>1
  <2>3. 2 ^ ((j + n) + 1) = 2 * 2 ^ (j + n) /\ 2 ^ (n + 1) = 2 * 2 ^ n
    BY <2>2, PowerAssumption
  <2>4. j + (n + 1) = (j + n) + 1
    OBVIOUS
  <2>5. 2 ^ j \in Nat /\ 2 ^ n \in Nat
    BY <1>1, <2>2, PowerType
  <2>6. 2 * (2 ^ j * 2 ^ n) = 2 ^ j * (2 * 2 ^ n)
    BY <2>5
  <2> QED BY <2>1, <2>3, <2>4, <2>6
<1> HIDE DEF S
<1>4. Nat \subseteq S
  BY <1>2, <1>3, SetInduction
<1> QED BY <1>4 DEF S

LEMMA ByteMultiple == \E m \in Nat \ {0} : ByteSize = 4 * m
<1> DEFINE c == ByteBits - 2
<1>1. c \in Nat /\ c + 2 = ByteBits /\ c + 2 <= WordBits + 1 /\ c + 1 <= WordBits
  BY BitCounts
<1>2. c \in 0 .. WordBits /\ c + 1 \in 0 .. WordBits /\ c \in 0 .. WordBits + 1
  BY <1>1, BitCounts
<1>3. 2 ^ (c + 1) = 2 * 2 ^ c /\ 2 ^ ((c + 1) + 1) = 2 * 2 ^ (c + 1)
  BY <1>2, PowerAssumption
<1>4. (c + 1) + 1 = ByteBits /\ 2 ^ c \in Nat \ {0}
  BY <1>1, <1>2, PowerType
<1>5. ByteSize = 4 * 2 ^ c
  BY <1>3, <1>4 DEF ByteSize
<1> QED BY <1>4, <1>5

LEMMA SizeFacts ==
  /\ ByteSize \in Nat /\ ByteSize >= 4
  /\ HalfSize \in Nat /\ HalfSize >= 4 * ByteSize
  /\ WordSize \in Nat /\ WordSize >= 4 * HalfSize
  /\ WordBits \in Nat \ {0}
<1>1. ByteSize \in Nat /\ ByteSize >= 4
  BY ByteMultiple
<1>2. HalfSize \in Nat /\ HalfSize >= 4 * ByteSize
  BY <1>1 DEF HalfSize
<1>3. WordSize \in Nat /\ WordSize >= 4 * HalfSize
  <2>1. HalfSize >= 4
    BY <1>1, <1>2
  <2> QED BY <1>2, <2>1 DEF WordSize
<1>4. WordBits \in Nat \ {0}
  BY BitCounts
<1> QED BY <1>1, <1>2, <1>3, <1>4

LEMMA WordMultiple == \E w \in Nat \ {0} : WordSize = 256 * w
<1>1. PICK m \in Nat \ {0} : ByteSize = 4 * m
  BY ByteMultiple
<1> DEFINE a == m * m
<1>2. HalfSize = 16 * a /\ a \in Nat \ {0}
  BY <1>1 DEF HalfSize
<1> HIDE DEF a
<1>3. WordSize = 256 * (a * a) /\ a * a \in Nat \ {0}
  BY <1>2 DEF WordSize
<1> QED BY <1>3

LEMMA WordIsInt == \A x \in Word : x \in Int /\ x >= 0 /\ x < WordSize
BY SizeFacts DEF Word

LEMMA ToWordType == ASSUME NEW v \in Int PROVE ToWord(v) \in Word
BY SizeFacts DEF ToWord, Word

LEMMA PlusType == ASSUME NEW x \in Int, NEW y \in Int PROVE Plus(x, y) \in Word
BY SizeFacts DEF Plus, Word

LEMMA MinusType == ASSUME NEW x \in Int, NEW y \in Int PROVE Minus(x, y) \in Word
BY SizeFacts DEF Minus, Word

LEMMA SignedType == ASSUME NEW x \in Word PROVE Signed(x) \in Int
BY SizeFacts DEF Signed, IsNegative, Word

LEMMA SignExtendType ==
  /\ \A h \in Half : SignExtendHalf(h) \in Word
  /\ \A b \in Byte : SignExtendByte(b) \in Word
BY SizeFacts DEF SignExtendHalf, SignExtendByte, Half, Byte, Word

LEMMA ByteOfType == ASSUME NEW x \in Word, NEW k \in 0 .. 3 PROVE ByteOf(x, k) \in Byte
<1>1. ByteWeight[4 - k] \in Nat \ {0}
  BY SizeFacts DEF ByteWeight
<1>2. x \div ByteWeight[4 - k] \in Int
  BY <1>1 DEF Word
<1> QED BY <1>2, SizeFacts DEF ByteOf, Byte

LEMMA JoinHalfType == ASSUME NEW a \in Byte, NEW b \in Byte PROVE JoinHalf(a, b) \in Half
<1>1. a * ByteSize + b \in 0 .. ByteSize * ByteSize - 1
  BY SizeFacts DEF Byte
<1> QED BY <1>1 DEF JoinHalf, Half, HalfSize

LEMMA JoinWordType ==
  ASSUME NEW a \in Byte, NEW b \in Byte, NEW c \in Byte, NEW d \in Byte
  PROVE  JoinWord(a, b, c, d) \in Word
<1> DEFINE h == JoinHalf(a, b)
           l == JoinHalf(c, d)
<1>1. h \in Half /\ l \in Half
  BY JoinHalfType
<1> HIDE DEF h, l
<1>2. h * HalfSize + l \in 0 .. HalfSize * HalfSize - 1
  BY <1>1, SizeFacts DEF Half
<1> QED BY <1>2 DEF JoinWord, Word, WordSize, h, l

LEMMA HalfIsWord == Byte \subseteq Half /\ Half \subseteq Word
BY SizeFacts DEF Byte, Half, Word

LEMMA FromBytesType ==
  ASSUME NEW b, \A k \in 0 .. 3 : b[k] \in Byte
  PROVE  FromBytes(b) \in Word
BY JoinWordType DEF FromBytes

LEMMA BitwiseType ==
  ASSUME NEW x \in Word, NEW y \in Word
  PROVE  /\ AndWord(x, y) \in Word
         /\ OrWord(x, y) \in Word
         /\ XorWord(x, y) \in Word
         /\ NotWord(x) \in Word
<1>1. \A k \in 0 .. 3 : ByteOf(x, k) \in Byte /\ ByteOf(y, k) \in Byte
  BY ByteOfType
<1>2. AndWord(x, y) \in Word
  BY <1>1, BitwiseAssumption, JoinWordType DEF AndWord, Bytewise
<1>3. OrWord(x, y) \in Word
  BY <1>1, BitwiseAssumption, JoinWordType DEF OrWord, Bytewise
<1>4. XorWord(x, y) \in Word
  BY <1>1, BitwiseAssumption, JoinWordType DEF XorWord, Bytewise
<1>5. NotWord(x) \in Word
  BY SizeFacts DEF NotWord, Word
<1> QED BY <1>2, <1>3, <1>4, <1>5

LEMMA ShiftType ==
  ASSUME NEW x \in Word, NEW k \in 0 .. WordBits - 1
  PROVE  /\ ShiftLeft(x, k) \in Word
         /\ ShiftRight(x, k) \in Word
         /\ ShiftRightArithmetic(x, k) \in Word
<1> DEFINE p == 2 ^ k
<1>1. p \in Nat \ {0}
  <2>1. k \in 0 .. WordBits + 1
    BY SizeFacts
  <2> QED BY <2>1, PowerType
<1> HIDE DEF p
<1>2. (x * p) % WordSize \in Word
  <2>1. x * p \in Int
    BY <1>1 DEF Word
  <2> QED BY <2>1, SizeFacts DEF Word
<1>3. x \div p \in Word
  BY <1>1, SizeFacts DEF Word
<1>4. Signed(x) \div p \in Int
  BY <1>1, SignedType
<1> QED BY <1>2, <1>3, <1>4, ToWordType DEF ShiftLeft, ShiftRight, ShiftRightArithmetic, p

LEMMA QuotientType ==
  ASSUME NEW v \in Int, NEW w \in Int \ {0}
  PROVE  Quotient(v, w) \in Int /\ Remainder(v, w) \in Int
<1>1. Magnitude(v) \in Nat /\ Magnitude(w) \in Nat \ {0}
  BY DEF Magnitude
<1>2. Magnitude(v) \div Magnitude(w) \in Int
  BY <1>1
<1>3. Quotient(v, w) \in Int
  BY <1>2 DEF Quotient
<1> QED BY <1>3 DEF Remainder
----------------------------------------------------------------------------
(* Division, as the integers' \div and % do it.                               *)

LEMMA DivMod ==
  ASSUME NEW w \in Nat \ {0}, NEW q \in Int, NEW r \in 0 .. w - 1
  PROVE  (q * w + r) \div w = q /\ (q * w + r) % w = r
<1> DEFINE n == q * w + r
           p == n \div w
           s == n % w
<1>1. n = (w * p) + s /\ p \in Int /\ s \in 0 .. w - 1
  OBVIOUS
<1>2. n = q * w + r
  OBVIOUS
<1> HIDE DEF n, p, s
<1> DEFINE t == q - p
<1>3. s - r = w * t /\ t \in Int
  BY <1>1, <1>2
<1>4. s - r < w /\ s - r > -w
  BY <1>1
<1> HIDE DEF t
<1>5. CASE t >= 1
  <2>1. w * t >= w
    BY <1>3, <1>5
  <2> QED BY <1>1, <1>3, <1>4, <2>1
<1>6. CASE t <= -1
  <2>1. w * t <= -w
    BY <1>3, <1>6
  <2> QED BY <1>1, <1>3, <1>4, <2>1
<1>7. CASE t = 0
  <2>1. q = p
    BY <1>1, <1>7 DEF t
  <2>2. s = r
    BY <1>1, <1>3, <1>7
  <2> QED BY <2>1, <2>2 DEF n, p, s
<1> QED BY <1>3, <1>5, <1>6, <1>7

(* The quotient and the remainder, and that no others fit.                    *)
LEMMA DivModOf ==
  ASSUME NEW w \in Nat \ {0}, NEW n \in Int
  PROVE  /\ n \div w \in Int /\ n % w \in 0 .. w - 1
         /\ n = (n \div w) * w + (n % w)
OBVIOUS

(* A quotient lies no further from zero than what is divided.                 *)
LEMMA DivRange ==
  ASSUME NEW w \in Nat \ {0}, NEW h \in Nat \ {0}, NEW n \in -h .. h - 1
  PROVE  n \div w \in -h .. h - 1
<1> DEFINE q == n \div w
           r == n % w
<1>1. q \in Int /\ r \in 0 .. w - 1 /\ n = (q * w) + r
  BY DivModOf
<1> HIDE DEF q, r
<1>2. q < h
  <2> SUFFICES ASSUME q >= h PROVE FALSE
    BY <1>1
  <2>1. q * w >= q
    BY <1>1
  <2> QED BY <1>1, <2>1
<1>3. q >= -h
  <2> SUFFICES ASSUME q + 1 <= -h PROVE FALSE
    BY <1>1
  <2>1. (q + 1) * w <= q + 1
    BY <1>1
  <2> QED BY <1>1, <2>1
<1> QED BY <1>1, <1>2, <1>3 DEF q

(* C's quotient rounds towards zero: the remainder is smaller than the        *)
(* divisor and has the sign of the dividend.                                  *)
LEMMA QuotientExact ==
  ASSUME NEW v \in Int, NEW w \in Int \ {0}
  PROVE  LET q == Quotient(v, w)
             r == Remainder(v, w)
         IN  /\ q \in Int /\ r \in Int
             /\ q * w + r = v
             /\ Magnitude(r) < Magnitude(w)
             /\ r = 0 \/ (r < 0) = (v < 0)
             /\ Magnitude(q) <= Magnitude(v)
             /\ Magnitude(q) = Magnitude(v) => v = 0 \/ Magnitude(w) = 1
<1> DEFINE m == Magnitude(v)
           n == Magnitude(w)
           a == m \div n
           b == m % n
<1>1. m \in Nat /\ n \in Nat \ {0}
  BY DEF Magnitude
<1>2. /\ m = IF v < 0 THEN -v ELSE v
      /\ n = IF w < 0 THEN -w ELSE w
  BY DEF Magnitude
<1>3. Quotient(v, w) = IF (v < 0) = (w < 0) THEN a ELSE -a
  BY DEF Quotient
<1>4. Remainder(v, w) = v - w * Quotient(v, w)
  BY DEF Remainder
<1> HIDE DEF m, n
<1>5. a \in Int /\ b \in 0 .. n - 1 /\ m = (a * n) + b
  BY <1>1, DivModOf
<1> HIDE DEF a, b
<1>6. a >= 0
  <2> SUFFICES ASSUME a <= -1 PROVE FALSE
    BY <1>5
  <2>1. a * n <= -n
    BY <1>1, <1>5
  <2> QED BY <1>1, <1>5, <2>1
<1>7. a <= m /\ (a = m => m = 0 \/ n = 1)
  <2>1. a * n >= a
    BY <1>1, <1>5, <1>6
  <2>2. n >= 2 /\ a >= 1 => a * n > a
    BY <1>1, <1>5
  <2> QED BY <1>1, <1>5, <1>6, <2>1, <2>2
<1>8. Remainder(v, w) = IF v < 0 THEN -b ELSE b
  <2>1. CASE v >= 0 /\ w > 0
    BY <1>2, <1>3, <1>4, <1>5, <2>1
  <2>2. CASE v >= 0 /\ w < 0
    <3>1. Remainder(v, w) = v - w * (-a) /\ v = m /\ w = -n
      BY <1>2, <1>3, <1>4, <2>2
    <3>2. w * (-a) = a * n
      BY <1>1, <1>5, <3>1
    <3> QED BY <1>1, <1>5, <2>2, <3>1, <3>2
  <2>3. CASE v < 0 /\ w > 0
    <3>1. Remainder(v, w) = v - w * (-a) /\ v = -m /\ w = n
      BY <1>2, <1>3, <1>4, <2>3
    <3>2. w * (-a) = -(a * n)
      BY <1>1, <1>5, <3>1
    <3> QED BY <1>1, <1>5, <2>3, <3>1, <3>2
  <2>4. CASE v < 0 /\ w < 0
    <3>1. Remainder(v, w) = v - w * a /\ v = -m /\ w = -n
      BY <1>2, <1>3, <1>4, <2>4
    <3>2. w * a = -(a * n)
      BY <1>1, <1>5, <3>1
    <3> QED BY <1>1, <1>5, <2>4, <3>1, <3>2
  <2> QED BY <2>1, <2>2, <2>3, <2>4
<1>9. Magnitude(Quotient(v, w)) = a /\ Quotient(v, w) \in Int
  BY <1>3, <1>5, <1>6 DEF Magnitude
<1>10. Magnitude(Remainder(v, w)) = b /\ Remainder(v, w) \in Int
  BY <1>5, <1>8 DEF Magnitude
<1>11. Quotient(v, w) * w + Remainder(v, w) = v
  BY <1>4, <1>9
<1>12. Remainder(v, w) = 0 \/ (Remainder(v, w) < 0) = (v < 0)
  BY <1>5, <1>8
<1>13. b < n /\ (m = 0 => v = 0)
  BY <1>2, <1>5
<1> QED BY <1>7, <1>9, <1>10, <1>11, <1>12, <1>13 DEF m, n

----------------------------------------------------------------------------
(* The bits of a word are those of its bytes.                                 *)

LEMMA DivDiv ==
  ASSUME NEW n \in Int, NEW a \in Nat \ {0}, NEW b \in Nat \ {0}
  PROVE  (n \div a) \div b = n \div (a * b)
<1> DEFINE q == n \div a
           r == n % a
           s == q \div b
           t == q % b
           m == t * a + r
<1>1. q \in Int /\ r \in 0 .. a - 1 /\ n = q * a + r
  BY DivModOf
<1> HIDE DEF q, r
<1>2. s \in Int /\ t \in 0 .. b - 1 /\ q = s * b + t
  BY <1>1, DivModOf
<1> HIDE DEF s, t
<1>3. n = s * (a * b) + m
  BY <1>1, <1>2
<1>4. m \in 0 .. (a * b) - 1
  <2>1. t * a >= 0 /\ (b - 1 - t) * a >= 0
    BY <1>1, <1>2
  <2>2. (b - 1 - t) * a = a * b - a - t * a
    BY <1>1, <1>2
  <2>3. t * a \in Int /\ a * b \in Int
    BY <1>1, <1>2
  <2> QED BY <1>1, <2>1, <2>2, <2>3
<1> HIDE DEF m
<1>5. a * b \in Nat \ {0}
  OBVIOUS
<1>6. n \div (a * b) = s
  BY <1>2, <1>3, <1>4, <1>5, DivMod
<1> QED BY <1>6 DEF s, q

LEMMA WeightPower ==
  ASSUME NEW j \in 0 .. 3
  PROVE  /\ ByteWeight[4 - j] = 2 ^ (j * ByteBits)
         /\ ByteWeight[4 - j] \in Nat \ {0}
<1>1. ByteBits \in Nat /\ WordBits = 4 * ByteBits
  BY BitCounts
<1>2. ByteSize = 2 ^ ByteBits
  BY DEF ByteSize
<1>3. HalfSize = 2 ^ (2 * ByteBits)
  <2>1. 2 ^ (ByteBits + ByteBits) = 2 ^ ByteBits * 2 ^ ByteBits
    BY <1>1, PowerSum
  <2>2. ByteBits + ByteBits = 2 * ByteBits
    BY <1>1
  <2> QED BY <1>2, <2>1, <2>2 DEF HalfSize
<1>4. ByteSize * HalfSize = 2 ^ (3 * ByteBits)
  <2>1. 2 ^ (ByteBits + 2 * ByteBits) = 2 ^ ByteBits * 2 ^ (2 * ByteBits)
    BY <1>1, PowerSum
  <2>2. ByteBits + 2 * ByteBits = 3 * ByteBits
    BY <1>1
  <2> QED BY <1>2, <1>3, <2>1, <2>2
<1>5. /\ ByteWeight[4] = 1 /\ ByteWeight[3] = ByteSize
      /\ ByteWeight[2] = HalfSize /\ ByteWeight[1] = ByteSize * HalfSize
  BY DEF ByteWeight
<1>6. ByteWeight[4 - j] = 2 ^ (j * ByteBits)
  <2>1. CASE j = 0
    <3>1. j * ByteBits = 0 /\ 4 - j = 4
      BY <1>1, <2>1
    <3>2. 2 ^ 0 = 1
      BY PowerAssumption
    <3> QED BY <1>5, <3>1, <3>2
  <2>2. CASE j = 1
    <3>1. 1 * ByteBits = ByteBits
      BY <1>1
    <3> QED BY <1>2, <1>5, <2>2, <3>1
  <2>3. CASE j = 2
    BY <1>3, <1>5, <2>3
  <2>4. CASE j = 3
    BY <1>4, <1>5, <2>4
  <2> QED BY <2>1, <2>2, <2>3, <2>4
<1>7. j * ByteBits \in 0 .. WordBits + 1
  <2>1. CASE j = 0
    BY <1>1, <2>1
  <2>2. CASE j = 1
    BY <1>1, <2>2
  <2>3. CASE j = 2
    BY <1>1, <2>3
  <2>4. CASE j = 3
    BY <1>1, <2>4
  <2> QED BY <2>1, <2>2, <2>3, <2>4
<1> QED BY <1>6, <1>7, PowerType

LEMMA WordSizePower == WordSize = 2 ^ WordBits
<1>1. ByteBits \in Nat /\ WordBits = 4 * ByteBits
  BY BitCounts
<1>2. 2 ^ (ByteBits + ByteBits) = HalfSize
  BY <1>1, PowerSum DEF HalfSize, ByteSize
<1>3. 2 ^ ((ByteBits + ByteBits) + (ByteBits + ByteBits)) = WordSize
  BY <1>1, <1>2, PowerSum DEF WordSize
<1>4. (ByteBits + ByteBits) + (ByteBits + ByteBits) = WordBits
  BY <1>1
<1> QED BY <1>3, <1>4

(* 2^k below 2^n divides it an even number of times.                          *)
LEMMA EvenPower ==
  ASSUME NEW n \in 0 .. WordBits, NEW k \in 0 .. n - 1
  PROVE  \E e \in Nat \ {0} : 2 ^ n = 2 ^ k * (2 * e)
<1> DEFINE m == n - k - 1
<1>1. m \in Nat /\ k \in Nat /\ k + (m + 1) = n /\ m \in 0 .. WordBits /\ WordBits \in Nat
  BY BitCounts
<1> HIDE DEF m
<1>2. 2 ^ n = 2 ^ k * 2 ^ (m + 1)
  BY <1>1, PowerSum
<1>3. 2 ^ (m + 1) = 2 * 2 ^ m
  BY <1>1, PowerAssumption
<1>4. 2 ^ m \in Nat \ {0}
  BY <1>1, PowerType
<1> QED BY <1>2, <1>3, <1>4

LEMMA BitIsBit ==
  ASSUME NEW v \in Int, NEW k \in 0 .. WordBits
  PROVE  Bit(v, k) \in 0 .. 1
<1> DEFINE p == 2 ^ k
<1>1. p \in Nat \ {0}
  <2>1. k \in 0 .. WordBits + 1
    BY BitCounts
  <2> QED BY <2>1, PowerType
<1> HIDE DEF p
<1>2. v \div p \in Int
  BY <1>1, DivModOf
<1>3. (v \div p) % 2 \in 0 .. 1
  BY <1>2
<1> QED BY <1>3 DEF Bit, p

LEMMA BitOfByte ==
  ASSUME NEW x \in Word, NEW j \in 0 .. 3, NEW i \in 0 .. ByteBits - 1
  PROVE  Bit(x, (j * ByteBits) + i) = Bit(ByteOf(x, j), i)
<1> DEFINE w == ByteWeight[4 - j]
           p == 2 ^ i
           q == x \div w
           b == q % ByteSize
           c == q \div ByteSize
           u == b \div p
           v == b % p
<1>1. w \in Nat \ {0} /\ w = 2 ^ (j * ByteBits)
  BY WeightPower
<1>2. p \in Nat \ {0}
  <2>1. i \in 0 .. WordBits + 1
    BY BitCounts
  <2> QED BY <2>1, PowerType
<1>3. 2 ^ ((j * ByteBits) + i) = w * p
  <2>1. j * ByteBits \in Nat /\ i \in Nat /\ (j * ByteBits) + i <= WordBits + 1
    <3>1. CASE j = 0
      BY <3>1, BitCounts
    <3>2. CASE j = 1
      BY <3>2, BitCounts
    <3>3. CASE j = 2
      BY <3>3, BitCounts
    <3>4. CASE j = 3
      BY <3>4, BitCounts
    <3> QED BY <3>1, <3>2, <3>3, <3>4
  <2> QED BY <1>1, <2>1, PowerSum
<1>4. PICK e \in Nat \ {0} : ByteSize = p * (2 * e)
  <2>1. ByteBits \in 0 .. WordBits
    BY BitCounts
  <2> QED BY <2>1, EvenPower DEF ByteSize
<1>5. x \in Int
  BY WordIsInt
<1> HIDE DEF w, p
<1>6. q \in Int
  BY <1>1, <1>5, DivModOf
<1>7. x \div (w * p) = q \div p
  BY <1>1, <1>2, <1>5, DivDiv
<1> HIDE DEF q
<1>8. ByteSize \in Nat \ {0}
  BY SizeFacts
<1>9. b \in Int /\ c \in Int /\ q = c * ByteSize + b
  <2>1. /\ q \div ByteSize \in Int /\ q % ByteSize \in 0 .. ByteSize - 1
        /\ q = (q \div ByteSize) * ByteSize + (q % ByteSize)
    BY <1>6, <1>8, DivModOf
  <2> QED BY <1>8, <2>1
<1> HIDE DEF b, c
<1>10. u \in Int /\ v \in 0 .. p - 1 /\ b = u * p + v
  BY <1>2, <1>9, DivModOf
<1> HIDE DEF u, v
<1>11. q = (2 * (c * e) + u) * p + v
  BY <1>2, <1>4, <1>9, <1>10
<1>12. 2 * (c * e) + u \in Int
  BY <1>4, <1>9, <1>10
<1>13. q \div p = 2 * (c * e) + u
  BY <1>2, <1>10, <1>11, <1>12, DivMod
<1>14. (2 * (c * e) + u) % 2 = u % 2
  <2>1. c * e \in Int
    BY <1>4, <1>9
  <2> QED BY <1>10, <2>1
<1> QED BY <1>3, <1>7, <1>13, <1>14 DEF Bit, ByteOf, p, q, b, u, w

(* Every bit of a word is a bit of one of its bytes.                          *)
LEMMA BitPlace ==
  ASSUME NEW k \in 0 .. WordBits - 1
  PROVE  \E j \in 0 .. 3, i \in 0 .. ByteBits - 1 : k = (j * ByteBits) + i
<1>1. ByteBits \in Nat /\ ByteBits >= 2 /\ k \in 0 .. (4 * ByteBits) - 1
  BY BitCounts
<1>2. CASE k < ByteBits
  BY <1>1, <1>2
<1>3. CASE k >= ByteBits /\ k < 2 * ByteBits
  <2>1. k = (1 * ByteBits) + (k - ByteBits) /\ k - ByteBits \in 0 .. ByteBits - 1 /\ 1 \in 0 .. 3
    BY <1>1, <1>3
  <2> QED BY <2>1
<1>4. CASE k >= 2 * ByteBits /\ k < 3 * ByteBits
  <2>1. /\ k = (2 * ByteBits) + (k - 2 * ByteBits)
        /\ k - 2 * ByteBits \in 0 .. ByteBits - 1 /\ 2 \in 0 .. 3
    BY <1>1, <1>4
  <2> QED BY <2>1
<1>5. CASE k >= 3 * ByteBits
  <2>1. /\ k = (3 * ByteBits) + (k - 3 * ByteBits)
        /\ k - 3 * ByteBits \in 0 .. ByteBits - 1 /\ 3 \in 0 .. 3
    BY <1>1, <1>5
  <2> QED BY <2>1
<1> QED BY <1>1, <1>2, <1>3, <1>4, <1>5

----------------------------------------------------------------------------
(* Bytes and words.                                                           *)

(* The bytes of a joined word are the ones that were joined.                  *)
LEMMA ByteOfJoin ==
  ASSUME NEW a \in Byte, NEW b \in Byte, NEW c \in Byte, NEW d \in Byte
  PROVE  LET w == JoinWord(a, b, c, d)
         IN  /\ ByteOf(w, 3) = a /\ ByteOf(w, 2) = b
             /\ ByteOf(w, 1) = c /\ ByteOf(w, 0) = d
<1> DEFINE w == JoinWord(a, b, c, d)
           p == a * ByteSize + b
           q == p * ByteSize + c
<1>1. /\ ByteSize \in Nat \ {0} /\ HalfSize \in Nat \ {0}
      /\ a \in 0 .. ByteSize - 1 /\ b \in 0 .. ByteSize - 1
      /\ c \in 0 .. ByteSize - 1 /\ d \in 0 .. ByteSize - 1
  BY SizeFacts DEF Byte
<1>2. p \in Int /\ q \in Int
  BY <1>1
<1>3. w = p * HalfSize + (c * ByteSize + d)
  BY DEF JoinWord, JoinHalf
<1>4. w = q * ByteSize + d
  <2>1. w = p * (ByteSize * ByteSize) + (c * ByteSize + d)
    BY <1>3 DEF HalfSize
  <2>2. q * ByteSize = p * (ByteSize * ByteSize) + c * ByteSize
    BY <1>1, <1>2
  <2> HIDE DEF w, p, q
  <2>3. p * (ByteSize * ByteSize) \in Int /\ c * ByteSize \in Int
    BY <1>1, <1>2
  <2> QED BY <1>1, <2>1, <2>2, <2>3
<1>5. w \in Int
  BY <1>1, <1>2, <1>4
<1> HIDE DEF w
<1>6. w \div ByteSize = q /\ w % ByteSize = d
  BY <1>1, <1>2, <1>4, DivMod
<1>7. q \div ByteSize = p /\ q % ByteSize = c
  BY <1>1, <1>2, DivMod
<1>8. p \div ByteSize = a /\ p % ByteSize = b
  <2>1. a \in Int /\ ByteSize \in Nat \ {0} /\ b \in 0 .. ByteSize - 1
    BY <1>1
  <2> HIDE DEF q
  <2> QED BY <2>1, DivMod
<1> HIDE DEF p, q
<1>9. w \div HalfSize = p
  BY <1>1, <1>5, <1>6, <1>7, DivDiv DEF HalfSize
<1>10. w \div (ByteSize * HalfSize) = a
  <2>1. w \div (HalfSize * ByteSize) = a
    BY <1>1, <1>5, <1>8, <1>9, DivDiv
  <2>2. HalfSize * ByteSize = ByteSize * HalfSize
    BY <1>1
  <2> QED BY <2>1, <2>2
<1>11. w \div 1 = w
  BY <1>5
<1>12. a % ByteSize = a
  BY <1>1
<1>13. /\ ByteWeight[4] = 1 /\ ByteWeight[3] = ByteSize
       /\ ByteWeight[2] = HalfSize /\ ByteWeight[1] = ByteSize * HalfSize
  BY DEF ByteWeight
<1>14. /\ ByteOf(w, 0) = (w \div ByteWeight[4]) % ByteSize
       /\ ByteOf(w, 1) = (w \div ByteWeight[3]) % ByteSize
       /\ ByteOf(w, 2) = (w \div ByteWeight[2]) % ByteSize
       /\ ByteOf(w, 3) = (w \div ByteWeight[1]) % ByteSize
  BY DEF ByteOf
<1> QED BY <1>6, <1>7, <1>8, <1>9, <1>10, <1>11, <1>12, <1>13, <1>14 DEF w

(* And a word is its bytes, joined.                                           *)
LEMMA JoinOfBytes ==
  ASSUME NEW x \in Word
  PROVE  x = JoinWord(ByteOf(x, 3), ByteOf(x, 2), ByteOf(x, 1), ByteOf(x, 0))
<1> DEFINE S == ByteSize
           q == x \div S
           p == q \div S
           a == p \div S
<1>1. S \in Nat \ {0} /\ x \in 0 .. WordSize - 1 /\ x \in Int /\ HalfSize \in Nat \ {0}
  BY SizeFacts DEF Word
<1>2. q \in Int /\ x % S \in 0 .. S - 1 /\ x = q * S + (x % S)
  BY <1>1, DivModOf
<1>3. p \in Int /\ q % S \in 0 .. S - 1 /\ q = p * S + (q % S)
  BY <1>1, <1>2, DivModOf
<1>4. a \in Int /\ p % S \in 0 .. S - 1 /\ p = a * S + (p % S)
  BY <1>1, <1>3, DivModOf
<1>5. p = x \div HalfSize
  BY <1>1, DivDiv DEF HalfSize
<1>6. a = x \div (ByteSize * HalfSize)
  <2>1. a = x \div (HalfSize * ByteSize)
    BY <1>1, <1>5, DivDiv
  <2>2. HalfSize * ByteSize = ByteSize * HalfSize
    BY <1>1
  <2> QED BY <2>1, <2>2
<1>7. a \in 0 .. S - 1
  <2> DEFINE m == x \div HalfSize
             r == x % HalfSize
  <2>1. m \in Int /\ r \in 0 .. HalfSize - 1 /\ x = m * HalfSize + r
    BY <1>1, DivModOf
  <2>2. x >= 0 /\ x < HalfSize * HalfSize
    BY <1>1, SizeFacts DEF WordSize
  <2>3. m = p
    BY <1>5
  <2> HIDE DEF m, r
  <2>4. m >= 0
    <3> SUFFICES ASSUME m <= -1 PROVE FALSE
      BY <2>1
    <3>1. m * HalfSize <= -HalfSize
      BY <1>1, <2>1
    <3> QED BY <1>1, <2>1, <2>2, <3>1
  <2>5. m < HalfSize
    <3> SUFFICES ASSUME m >= HalfSize PROVE FALSE
      BY <1>1, <2>1
    <3>1. m * HalfSize >= HalfSize * HalfSize
      BY <1>1, <2>1
    <3> QED BY <1>1, <2>1, <2>2, <3>1
  <2>6. p >= 0 /\ p < S * S
    BY <2>3, <2>4, <2>5 DEF HalfSize
  <2> DEFINE r2 == p % S
  <2>7. a \in Int /\ r2 \in 0 .. S - 1 /\ p = a * S + r2 /\ p \in Int
    BY <1>3, <1>4
  <2> HIDE DEF S, p, a, r2
  <2>8. a >= 0
    <3> SUFFICES ASSUME a <= -1 PROVE FALSE
      BY <2>7
    <3>1. a * S <= -S
      BY <1>1, <2>7
    <3> QED BY <1>1, <2>6, <2>7, <3>1
  <2>9. a < S
    <3> SUFFICES ASSUME a >= S PROVE FALSE
      BY <1>1, <2>7
    <3>1. a * S >= S * S
      BY <1>1, <2>7
    <3> QED BY <1>1, <2>6, <2>7, <3>1
  <2> QED BY <1>1, <2>7, <2>8, <2>9
<1>8. a % S = a
  BY <1>1, <1>7
<1>9. x \div 1 = x
  BY <1>1
<1>10. /\ ByteWeight[4] = 1 /\ ByteWeight[3] = ByteSize
       /\ ByteWeight[2] = HalfSize /\ ByteWeight[1] = ByteSize * HalfSize
  BY DEF ByteWeight
<1>11. /\ ByteOf(x, 0) = (x \div ByteWeight[4]) % ByteSize
       /\ ByteOf(x, 1) = (x \div ByteWeight[3]) % ByteSize
       /\ ByteOf(x, 2) = (x \div ByteWeight[2]) % ByteSize
       /\ ByteOf(x, 3) = (x \div ByteWeight[1]) % ByteSize
  BY DEF ByteOf
<1>12. /\ ByteOf(x, 3) = a /\ ByteOf(x, 2) = p % S
       /\ ByteOf(x, 1) = q % S /\ ByteOf(x, 0) = x % S
  BY <1>5, <1>6, <1>8, <1>9, <1>10, <1>11
<1> DEFINE r1 == x % S
           r2 == q % S
           r3 == p % S
<1>13. r1 \in Int /\ r2 \in Int /\ r3 \in Int /\ x = q * S + r1 /\ q = p * S + r2 /\ p = a * S + r3
  BY <1>1, <1>2, <1>3, <1>4
<1>14. JoinWord(a, r3, r2, r1) = (a * S + r3) * (S * S) + (r2 * S + r1)
  BY DEF JoinWord, JoinHalf, HalfSize
<1> HIDE DEF S, q, p, a, r1, r2, r3
<1>15. x = p * (S * S) + (r2 * S + r1)
  <2>1. q * S = p * (S * S) + r2 * S
    BY <1>1, <1>2, <1>3, <1>13
  <2>2. p * (S * S) \in Int /\ r2 * S \in Int
    BY <1>1, <1>3, <1>13
  <2> QED BY <1>1, <1>13, <2>1, <2>2
<1> QED BY <1>12, <1>13, <1>14, <1>15 DEF r1, r2, r3

----------------------------------------------------------------------------
(* What &, |, ^ and ~ make of each bit.                                       *)

LEMMA BitwiseBits ==
  ASSUME NEW x \in Word, NEW y \in Word, NEW k \in 0 .. WordBits - 1
  PROVE  /\ Bit(AndWord(x, y), k) = AndBit(Bit(x, k), Bit(y, k))
         /\ Bit(OrWord(x, y), k) = OrBit(Bit(x, k), Bit(y, k))
         /\ Bit(XorWord(x, y), k) = XorBit(Bit(x, k), Bit(y, k))
<1>1. PICK j \in 0 .. 3, i \in 0 .. ByteBits - 1 : k = (j * ByteBits) + i
  BY BitPlace
<1>2. \A z \in Word : Bit(z, k) = Bit(ByteOf(z, j), i)
  BY <1>1, BitOfByte
<1>3. \A n \in 0 .. 3 : ByteOf(x, n) \in Byte /\ ByteOf(y, n) \in Byte
  BY ByteOfType
<1>4. /\ ByteOf(AndWord(x, y), j) = BitAnd(ByteOf(x, j), ByteOf(y, j))
      /\ ByteOf(OrWord(x, y), j) = BitOr(ByteOf(x, j), ByteOf(y, j))
      /\ ByteOf(XorWord(x, y), j) = BitXor(ByteOf(x, j), ByteOf(y, j))
  <2>1. \A n \in 0 .. 3 : /\ BitAnd(ByteOf(x, n), ByteOf(y, n)) \in Byte
                          /\ BitOr(ByteOf(x, n), ByteOf(y, n)) \in Byte
                          /\ BitXor(ByteOf(x, n), ByteOf(y, n)) \in Byte
    BY <1>3, BitwiseAssumption
  <2>2. ByteOf(AndWord(x, y), j) = BitAnd(ByteOf(x, j), ByteOf(y, j))
    BY <2>1, ByteOfJoin DEF AndWord, Bytewise
  <2>3. ByteOf(OrWord(x, y), j) = BitOr(ByteOf(x, j), ByteOf(y, j))
    BY <2>1, ByteOfJoin DEF OrWord, Bytewise
  <2>4. ByteOf(XorWord(x, y), j) = BitXor(ByteOf(x, j), ByteOf(y, j))
    BY <2>1, ByteOfJoin DEF XorWord, Bytewise
  <2> QED BY <2>2, <2>3, <2>4
<1>5. AndWord(x, y) \in Word /\ OrWord(x, y) \in Word /\ XorWord(x, y) \in Word
  BY BitwiseType
<1>6. ByteOf(x, j) \in Byte /\ ByteOf(y, j) \in Byte
  BY <1>3
<1> QED BY <1>2, <1>4, <1>5, <1>6, BitwiseAssumption

LEMMA NotBits ==
  ASSUME NEW x \in Word, NEW k \in 0 .. WordBits - 1
  PROVE  Bit(NotWord(x), k) = 1 - Bit(x, k)
<1> DEFINE p == 2 ^ k
           u == x \div p
           v == x % p
<1>1. p \in Nat \ {0}
  <2>1. k \in 0 .. WordBits + 1
    BY BitCounts
  <2> QED BY <2>1, PowerType
<1>2. PICK e \in Nat \ {0} : WordSize = p * (2 * e)
  <2>1. WordBits \in 0 .. WordBits
    BY BitCounts
  <2> QED BY <2>1, EvenPower, WordSizePower
<1> HIDE DEF p
<1>3. x \in Int
  BY WordIsInt
<1>4. u \in Int /\ v \in 0 .. p - 1 /\ x = u * p + v
  BY <1>1, <1>3, DivModOf
<1> HIDE DEF u, v
<1>5. NotWord(x) = (2 * e - 1 - u) * p + (p - 1 - v)
  <2>1. (2 * e - 1 - u) * p = p * (2 * e) - p - u * p
    BY <1>1, <1>2, <1>4
  <2>2. u * p \in Int /\ p * (2 * e) \in Int
    BY <1>1, <1>2, <1>4
  <2> QED BY <1>1, <1>2, <1>4, <2>1, <2>2 DEF NotWord
<1>6. 2 * e - 1 - u \in Int /\ p - 1 - v \in 0 .. p - 1
  BY <1>1, <1>2, <1>4
<1>7. NotWord(x) \div p = 2 * e - 1 - u
  BY <1>1, <1>5, <1>6, DivMod
<1>8. (2 * e - 1 - u) % 2 = 1 - (u % 2)
  BY <1>2, <1>4
<1> QED BY <1>7, <1>8 DEF Bit, p, u

----------------------------------------------------------------------------
(* Instructions.                                                              *)

(* The results an instruction may have: a register, or HI and LO.             *)
OneRegister(st, st2) == \E r \in Reg : \A q \in Reg \ {r} : st2.regs[q] = st.regs[q]
OneResultOf(st, st2) ==
  \/ st2.regs = st.regs
  \/ st2.hi = st.hi /\ st2.lo = st.lo /\ OneRegister(st, st2)

(* st2 is what one instruction may make of st.                                *)
Kept(st, st2) ==
  /\ st2 \in mips_cpu_impl
  /\ st2.pc = st.pc /\ st2.nPC = st.nPC /\ st2.mem = st.mem
  /\ st2.regs[0] = st.regs[0]
  /\ OneResultOf(st, st2)
  /\ \/ st2.delay_slot = st.delay_slot /\ st2.jPC = st.jPC
     \/ st2.delay_slot = 1

Outcomes == mips_error \cup {Killed}

GoodReturn(st, r) ==
  /\ r.err \in Outcomes
  /\ Kept(st, r.state)
  /\ r.err # Success => r.state = st

LEMMA KeptItself == ASSUME NEW st \in mips_cpu_impl PROVE Kept(st, st)
BY DEF Kept, OneResultOf

LEMMA SetRegKept ==
  ASSUME NEW st \in mips_cpu_impl, NEW r \in Reg \ {0}, NEW v \in Word
  PROVE  /\ Kept(st, SetReg(st, r, v))
         /\ SetReg(st, r, v).delay_slot = st.delay_slot
         /\ SetReg(st, r, v).jPC = st.jPC
BY DEF Kept, OneResultOf, OneRegister, SetReg, mips_cpu_impl, Reg

LEMMA ReturnGood ==
  ASSUME NEW st \in mips_cpu_impl, NEW st2, Kept(st, st2)
  PROVE  /\ GoodReturn(st, Return(st2, Success))
         /\ \A e \in Outcomes : GoodReturn(st, Return(st, e))
BY KeptItself DEF GoodReturn, Return, Outcomes, mips_error

LEMMA SetRegGood ==
  ASSUME NEW st \in mips_cpu_impl, NEW r \in Reg \ {0}, NEW v \in Word
  PROVE  GoodReturn(st, Return(SetReg(st, r, v), Success))
BY SetRegKept, ReturnGood

LEMMA ErrorGood ==
  ASSUME NEW st \in mips_cpu_impl, NEW e \in Outcomes
  PROVE  GoodReturn(st, Return(st, e))
BY KeptItself, ReturnGood

LEMMA FieldTypes ==
  ASSUME NEW st \in mips_cpu_impl
  PROVE  /\ \A r \in Reg : st.regs[r] \in Word
         /\ st.pc \in Word /\ st.nPC \in Word /\ st.hi \in Word /\ st.lo \in Word
         /\ Plus(st.pc, 8) \in Word
<1>1. /\ \A r \in Reg : st.regs[r] \in Word
      /\ st.pc \in Word /\ st.nPC \in Word /\ st.hi \in Word /\ st.lo \in Word
  BY DEF mips_cpu_impl
<1>2. Plus(st.pc, 8) \in Word
  <2>1. st.pc \in Int
    BY <1>1, WordIsInt
  <2>2. 8 \in Int
    OBVIOUS
  <2> QED BY <2>1, <2>2, PlusType
<1> QED BY <1>1, <1>2

LEMMA JumpKept ==
  ASSUME NEW st \in mips_cpu_impl, NEW target \in Word, NEW link \in Reg
  PROVE  Kept(st, mips_cpu_jump(target, link, st))
<1> DEFINE linked == IF link = 0 THEN st ELSE SetReg(st, link, Plus(st.pc, 8))
<1>1. Kept(st, linked)
  BY FieldTypes, KeptItself, SetRegKept
<1>2. mips_cpu_jump(target, link, st) = [linked EXCEPT !.delay_slot = 1, !.jPC = target]
  BY DEF mips_cpu_jump
<1>3. linked.hi = st.hi /\ linked.lo = st.lo /\ OneRegister(st, linked)
  BY FieldTypes DEF SetReg, OneRegister, mips_cpu_impl, Reg
<1> HIDE DEF linked
<1> DEFINE jumped == [linked EXCEPT !.delay_slot = 1, !.jPC = target]
<1>4. linked \in mips_cpu_impl
  BY <1>1 DEF Kept
<1>5. /\ jumped \in mips_cpu_impl /\ jumped.delay_slot = 1
      /\ jumped.pc = linked.pc /\ jumped.nPC = linked.nPC /\ jumped.mem = linked.mem
      /\ jumped.regs = linked.regs /\ jumped.hi = linked.hi /\ jumped.lo = linked.lo
  BY <1>4 DEF mips_cpu_impl
<1> HIDE DEF jumped
<1> QED BY <1>1, <1>2, <1>3, <1>5 DEF Kept, OneResultOf, OneRegister, jumped

LEMMA BranchTargetType ==
  ASSUME NEW st \in mips_cpu_impl, NEW i \in Half
  PROVE  BranchTarget(i, st) \in Word
<1>1. SignExtendHalf(i) \in Int /\ st.pc \in Int
  BY SignExtendType, SizeFacts DEF Word, mips_cpu_impl
<1> QED BY <1>1, ToWordType DEF BranchTarget

LEMMA RtGood ==
  ASSUME NEW st \in mips_cpu_impl, NEW src \in Reg, NEW fn_code, NEW i \in Half
  PROVE  GoodReturn(st, cpu_execute_rt(src, fn_code, i, st))
<1> DEFINE link == IF fn_code \in {\h10, \h11} THEN 31 ELSE 0
<1>1. GoodReturn(st, Return(st, InvalidArgument))
  BY ErrorGood DEF Outcomes, mips_error
<1>2. GoodReturn(st, Return(mips_cpu_jump(BranchTarget(i, st), link, st), Success))
  BY JumpKept, BranchTargetType, ReturnGood DEF Reg
<1>3. GoodReturn(st, Return(st, Success))
  BY KeptItself, ReturnGood
<1>4. GoodReturn(st, Return(SetReg(st, 31, Plus(st.pc, 8)), Success))
  BY FieldTypes, SetRegGood DEF Reg
<1> QED BY <1>1, <1>2, <1>3, <1>4 DEF cpu_execute_rt

LEMMA JGood ==
  ASSUME NEW st \in mips_cpu_impl, NEW j \in 0 .. WordSize \div 64 - 1, NEW opcode
  PROVE  GoodReturn(st, cpu_execute_j(j, opcode, st))
<1> DEFINE target == (st.nPC \div JumpRegion) * JumpRegion + 4 * j
<1>1. target \in Word
  <2>1. PICK w \in Nat \ {0} : WordSize = 256 * w
    BY WordMultiple
  <2>2. WordSize \div 16 = 16 * w /\ WordSize \div 64 = 4 * w
    BY <2>1
  <2> DEFINE region == 16 * w
  <2>3. PICK q \in 0 .. 15 : st.nPC \div region = q
    <3>1. st.nPC \in Int /\ st.nPC >= 0 /\ st.nPC < 16 * region
      BY <2>1, FieldTypes, WordIsInt
    <3>2. region \in Nat \ {0}
      OBVIOUS
    <3> HIDE DEF region
    <3>3. st.nPC \div region \in 0 .. 15
      BY <3>1, <3>2
    <3> QED BY <3>3
  <2>4. target = q * (16 * w) + 4 * j
    BY <2>2, <2>3 DEF JumpRegion
  <2>5. q * (16 * w) <= 15 * (16 * w) /\ q * (16 * w) >= 0 /\ q * (16 * w) \in Int
    OBVIOUS
  <2>6. j \in Int /\ j >= 0 /\ 4 * j <= 16 * w - 4
    BY <2>2
  <2> QED BY <2>1, <2>4, <2>5, <2>6 DEF Word
<1>2. Kept(st, mips_cpu_jump(target, IF opcode = \h3 THEN 31 ELSE 0, st))
  BY <1>1, JumpKept DEF Reg
<1> QED BY <1>2, ReturnGood DEF cpu_execute_j

LEMMA ShiftGood ==
  ASSUME NEW st \in mips_cpu_impl, NEW src1 \in Reg, NEW src2 \in Reg, NEW dest \in Reg,
         NEW shift_amt \in 0 .. WordBits - 1, NEW fn_code
  PROVE  GoodReturn(st, r_shift(src1, src2, dest, shift_amt, fn_code, st))
<1> DEFINE x == st.regs[src2]
           amount == IF fn_code \in {\h0, \h2, \h3} THEN shift_amt
                     ELSE VariableAmount(st.regs[src1])
           value == CASE fn_code \in {\h0, \h4} -> ShiftLeft(x, amount)
                      [] fn_code \in {\h2, \h6} -> ShiftRight(x, amount)
                      [] fn_code \in {\h3, \h7} -> ShiftRightArithmetic(x, amount)
                      [] OTHER -> st.regs[dest]
<1>1. amount \in 0 .. WordBits - 1
  <2>1. st.regs[src1] \in Int
    BY FieldTypes, WordIsInt
  <2> QED BY <2>1, SizeFacts DEF VariableAmount
<1>2. x \in Word /\ st.regs[dest] \in Word
  BY FieldTypes
<1>3. value \in Word
  <2> HIDE DEF amount, x
  <2> QED BY <1>1, <1>2, ShiftType
<1>4. dest # 0 => GoodReturn(st, Return(SetReg(st, dest, value), Success))
  <2> HIDE DEF value
  <2> QED BY <1>3, SetRegGood
<1>5. /\ GoodReturn(st, Return(st, Success))
      /\ GoodReturn(st, Return(st, InvalidInstruction))
  BY ErrorGood DEF Outcomes, mips_error
<1> QED BY <1>4, <1>5 DEF r_shift

LEMMA HiLoKept ==
  ASSUME NEW st \in mips_cpu_impl, NEW hi \in Word, NEW lo \in Word
  PROVE  /\ Kept(st, [st EXCEPT !.hi = hi])
         /\ Kept(st, [st EXCEPT !.lo = lo])
         /\ Kept(st, [st EXCEPT !.hi = hi, !.lo = lo])
BY DEF Kept, OneResultOf, mips_cpu_impl

LEMMA MoveGood ==
  ASSUME NEW st \in mips_cpu_impl, NEW src1 \in Reg, NEW dest \in Reg,
         NEW fn_code \in \h10 .. \h13
  PROVE  GoodReturn(st, move_hilo(fn_code, src1, dest, st))
<1> DEFINE value == IF fn_code = \h10 THEN st.hi ELSE st.lo
<1>1. value \in Word /\ st.regs[src1] \in Word
  BY FieldTypes
<1>2. dest # 0 => GoodReturn(st, Return(SetReg(st, dest, value), Success))
  <2> HIDE DEF value
  <2> QED BY <1>1, SetRegGood
<1>3. /\ GoodReturn(st, Return([st EXCEPT !.hi = st.regs[src1]], Success))
      /\ GoodReturn(st, Return([st EXCEPT !.lo = st.regs[src1]], Success))
  BY <1>1, HiLoKept, ReturnGood
<1>4. /\ GoodReturn(st, Return(st, Success))
      /\ GoodReturn(st, Return(st, InvalidInstruction))
  BY ErrorGood DEF Outcomes, mips_error
<1>5. fn_code \in {\h10, \h11, \h12, \h13}
  OBVIOUS
<1> QED BY <1>2, <1>3, <1>4, <1>5 DEF move_hilo

LEMMA SetHiLoGood ==
  ASSUME NEW st \in mips_cpu_impl, NEW hi \in Int, NEW lo \in Int
  PROVE  GoodReturn(st, SetHiLo(st, hi, lo))
<1>1. ToWord(hi) \in Word /\ ToWord(lo) \in Word
  BY ToWordType
<1> QED BY <1>1, HiLoKept, ReturnGood DEF SetHiLo

LEMMA MultDivGood ==
  ASSUME NEW st \in mips_cpu_impl, NEW src1 \in Reg, NEW src2 \in Reg,
         NEW fn_code \in \h18 .. \h1b
  PROVE  GoodReturn(st, mult_div(src1, src2, fn_code, st))
<1> DEFINE x == st.regs[src1]
           y == st.regs[src2]
           product == IF fn_code = \h18 THEN Signed(x) * Signed(y) ELSE x * y
<1>1. x \in Int /\ y \in Int /\ Signed(x) \in Int /\ Signed(y) \in Int
  BY FieldTypes, WordIsInt, SignedType
<1>2. GoodReturn(st, SetHiLo(st, product \div WordSize, product))
  <2>1. product \in Int
    <3> HIDE DEF x, y
    <3> QED BY <1>1
  <2> HIDE DEF product
  <2>2. product \div WordSize \in Int
    BY <2>1, SizeFacts
  <2> QED BY <2>1, <2>2, SetHiLoGood
<1>3. y # 0 =>
        GoodReturn(st, SetHiLo(st, Remainder(Signed(x), Signed(y)), Quotient(Signed(x), Signed(y))))
  <2>1. y # 0 => Signed(y) # 0
    <3>1. y \in Int /\ y < WordSize
      BY FieldTypes, WordIsInt
    <3> HIDE DEF y
    <3> QED BY <3>1, SizeFacts DEF Signed, IsNegative
  <2> HIDE DEF x, y
  <2>2. y # 0 => /\ Quotient(Signed(x), Signed(y)) \in Int
                 /\ Remainder(Signed(x), Signed(y)) \in Int
    BY <1>1, <2>1, QuotientType
  <2> QED BY <2>2, SetHiLoGood
<1>4. y # 0 => GoodReturn(st, SetHiLo(st, x % y, x \div y))
  <2>1. x >= 0 /\ y >= 0
    BY FieldTypes, WordIsInt
  <2> HIDE DEF x, y
  <2>2. y # 0 => x % y \in Int /\ x \div y \in Int
    BY <1>1, <2>1
  <2> QED BY <2>2, SetHiLoGood
<1>5. /\ GoodReturn(st, Return(st, Success))
      /\ GoodReturn(st, Return(st, Killed))
  BY ErrorGood DEF Outcomes, mips_error
<1>6. fn_code \in {\h18, \h19, \h1a, \h1b}
  OBVIOUS
<1> QED BY <1>2, <1>3, <1>4, <1>5, <1>6 DEF mult_div

LEMMA AddSubGood ==
  ASSUME NEW st \in mips_cpu_impl, NEW src1 \in Reg, NEW src2 \in Reg, NEW dest \in Reg,
         NEW fn_code \in \h20 .. \h27
  PROVE  GoodReturn(st, add_sub_bitwise(src1, src2, dest, fn_code, st))
<1> DEFINE x == st.regs[src1]
           y == st.regs[src2]
           value == CASE fn_code \in {\h20, \h21} -> Plus(x, y)
                      [] fn_code \in {\h22, \h23} -> Minus(x, y)
                      [] fn_code = \h24 -> AndWord(x, y)
                      [] fn_code = \h25 -> OrWord(x, y)
                      [] fn_code = \h26 -> XorWord(x, y)
                      [] fn_code = \h27 -> NotWord(OrWord(x, y))
<1>1. x \in Word /\ y \in Word /\ x \in Int /\ y \in Int
  BY FieldTypes, WordIsInt
<1>2. value \in Word
  <2> HIDE DEF x, y
  <2>1. Plus(x, y) \in Word /\ Minus(x, y) \in Word
    BY <1>1, PlusType, MinusType
  <2>2. OrWord(x, y) \in Word /\ AndWord(x, y) \in Word /\ XorWord(x, y) \in Word
    BY <1>1, BitwiseType
  <2>3. NotWord(OrWord(x, y)) \in Word
    BY <2>2, BitwiseType
  <2>4. fn_code \in {\h20, \h21, \h22, \h23, \h24, \h25, \h26, \h27}
    OBVIOUS
  <2> QED BY <2>1, <2>2, <2>3, <2>4
<1>3. dest # 0 => GoodReturn(st, Return(SetReg(st, dest, value), Success))
  <2> HIDE DEF value
  <2> QED BY <1>2, SetRegGood
<1>4. /\ GoodReturn(st, Return(st, Success))
      /\ GoodReturn(st, Return(st, ArithmeticOverflow))
  BY ErrorGood DEF Outcomes, mips_error
<1> QED BY <1>3, <1>4 DEF add_sub_bitwise

LEMMA LessThanGood ==
  ASSUME NEW st \in mips_cpu_impl, NEW src1 \in Reg, NEW src2 \in Reg, NEW dest \in Reg,
         NEW fn_code
  PROVE  GoodReturn(st, less_than(src1, src2, dest, fn_code, st))
<1>1. 0 \in Word /\ 1 \in Word
  BY SizeFacts DEF Word
<1>2. dest # 0 => /\ GoodReturn(st, Return(SetReg(st, dest, 0), Success))
                  /\ GoodReturn(st, Return(SetReg(st, dest, 1), Success))
  BY <1>1, SetRegGood
<1>3. GoodReturn(st, Return(st, Success))
  BY KeptItself, ReturnGood
<1> QED BY <1>2, <1>3 DEF less_than

LEMMA RGood ==
  ASSUME NEW st \in mips_cpu_impl, NEW ins \in Instr
  PROVE  GoodReturn(st, cpu_execute_r(ins, st))
<1>1. /\ ins.s \in Reg /\ ins.t \in Reg /\ ins.d \in Reg
      /\ ins.sh \in 0 .. WordBits - 1 /\ ins.fn \in 0 .. 63
  BY DEF Instr
<1>2. CASE Reserved(ins)
  BY <1>2, ErrorGood DEF cpu_execute_r, Outcomes, mips_error
<1>3. CASE ~Reserved(ins)
  <2>1. \/ ins.fn \in \h0 .. \h7
        \/ ins.fn \in {\h8, \h9}
        \/ ins.fn \in \h10 .. \h13
        \/ ins.fn \in \h18 .. \h1b
        \/ ins.fn \in \h20 .. \h27
        \/ ins.fn \in \h2a .. \h2b
    BY <1>1, <1>3 DEF Reserved
  <2>2. CASE ins.fn \in \h0 .. \h7
    <3>1. cpu_execute_r(ins, st) = r_shift(ins.s, ins.t, ins.d, ins.sh, ins.fn, st)
      BY <1>1, <1>3, <2>2 DEF cpu_execute_r
    <3> QED BY <1>1, <3>1, ShiftGood
  <2>3. CASE ins.fn \in {\h8, \h9}
    <3>1. \A link \in Reg :
            GoodReturn(st, Return(mips_cpu_jump(st.regs[ins.s], link, st), Success))
      BY <1>1, FieldTypes, JumpKept, ReturnGood
    <3>2. \E link \in Reg :
            cpu_execute_r(ins, st) = Return(mips_cpu_jump(st.regs[ins.s], link, st), Success)
      BY <1>1, <1>3, <2>3 DEF cpu_execute_r, Reg
    <3> QED BY <3>1, <3>2
  <2>4. CASE ins.fn \in \h10 .. \h13
    <3>1. cpu_execute_r(ins, st) = move_hilo(ins.fn, ins.s, ins.d, st)
      BY <1>1, <1>3, <2>4 DEF cpu_execute_r
    <3> QED BY <1>1, <2>4, <3>1, MoveGood
  <2>5. CASE ins.fn \in \h18 .. \h1b
    <3>1. cpu_execute_r(ins, st) = mult_div(ins.s, ins.t, ins.fn, st)
      BY <1>1, <1>3, <2>5 DEF cpu_execute_r
    <3> QED BY <1>1, <2>5, <3>1, MultDivGood
  <2>6. CASE ins.fn \in \h20 .. \h27
    <3>1. cpu_execute_r(ins, st) = add_sub_bitwise(ins.s, ins.t, ins.d, ins.fn, st)
      BY <1>1, <1>3, <2>6 DEF cpu_execute_r
    <3> QED BY <1>1, <2>6, <3>1, AddSubGood
  <2>7. CASE ins.fn \in \h2a .. \h2b
    <3>1. cpu_execute_r(ins, st) = less_than(ins.s, ins.t, ins.d, ins.fn, st)
      BY <1>1, <1>3, <2>7 DEF cpu_execute_r
    <3> QED BY <1>1, <3>1, LessThanGood
  <2> QED BY <2>1, <2>2, <2>3, <2>4, <2>5, <2>6, <2>7
<1> QED BY <1>2, <1>3

----------------------------------------------------------------------------
(* The instructions that reach memory also return its bytes.                  *)
OneWord(data, data2) ==
  \E w : \A a \in RamAddress : data2[a] # data[a] => a \div 4 = w

GoodOutcome(st, data, o) ==
  /\ GoodReturn(st, o)
  /\ o.data \in RamData
  /\ o.err # Success => o.data = data
  /\ o.data = data \/ (o.state = st /\ OneWord(data, o.data))

(* "A subtle bug here, maybe?" (mips_mem_ram.cpp): no.  The RAM accepts a     *)
(* transaction exactly if it is aligned and all its bytes exist, although     *)
(* address + length wraps around in the comparison that says so.              *)
THEOREM RamCheckExact ==
  ASSUME NEW mem \in Handle, NEW address \in Word, NEW length \in Word
  PROVE  mips_mem_read_write(mem, CbMem, address, length) = Success
           <=> /\ mem # NULL
               /\ length \in {1, 2, 4}
               /\ address % length = 0
               /\ address + length <= CbMem
<1>1. CASE mem = NULL \/ length \notin {1, 2, 4} \/ address % length # 0
  BY <1>1 DEF mips_mem_read_write, Success, InvalidHandle, InvalidLength, InvalidAlignment
<1>2. CASE mem # NULL /\ length \in {1, 2, 4} /\ address % length = 0
  <2>1. address \in Int /\ address >= 0 /\ address < WordSize /\ WordSize \in Nat
    BY SizeFacts DEF Word
  <2>2. CbMem \in Nat /\ CbMem < WordSize
    <3>1. WordSize \div 8 < WordSize /\ WordSize \div 8 \in Nat
      BY <2>1
    <3> QED BY <2>1, <3>1, RamAssumption
  <2>3. CASE address + length >= WordSize
    <3>1. address > WordSize - 1 - length /\ ~(address + length <= CbMem)
      BY <1>2, <2>1, <2>2, <2>3
    <3> QED BY <1>2, <3>1 DEF mips_mem_read_write, Success, InvalidAddress
  <2>4. CASE address + length < WordSize
    <3>1. Plus(address, length) = address + length /\ ~(address > WordSize - 1 - length)
      BY <1>2, <2>1, <2>4 DEF Plus
    <3>2. mips_mem_read_write(mem, CbMem, address, length) =
            IF address + length > CbMem THEN InvalidAddress ELSE Success
      BY <1>2, <3>1 DEF mips_mem_read_write
    <3>3. address + length > CbMem <=> ~(address + length <= CbMem)
      BY <1>2, <2>1, <2>2
    <3> QED BY <1>2, <3>2, <3>3 DEF Success, InvalidAddress
  <2> QED BY <1>2, <2>1, <2>3, <2>4
<1> QED BY <1>1, <1>2

LEMMA MemReadType ==
  ASSUME NEW data \in RamData, NEW mem, NEW address \in Word, NEW length \in {1, 2, 4},
         mips_mem_read_write(mem, CbMem, address, length) = Success
  PROVE  \A k \in 0 .. length - 1 : mips_mem_read(data, address, length)[k] \in Byte
<1>1. address + length <= CbMem
  <2>1. /\ Plus(address, length) <= CbMem
        /\ address <= WordSize - 1 - length
    <3>1. address \in Int /\ Plus(address, length) \in Int
      BY WordIsInt, PlusType
    <3> QED BY <3>1, SizeFacts, RamAssumption
         DEF mips_mem_read_write, Success, InvalidHandle, InvalidLength, InvalidAlignment,
             InvalidAddress
  <2>2. Plus(address, length) = address + length
    BY <2>1, WordIsInt, SizeFacts DEF Plus
  <2> QED BY <2>1, <2>2
<1>2. \A k \in 0 .. length - 1 : address + k \in RamAddress
  BY <1>1, WordIsInt, RamAssumption DEF RamAddress
<1> QED BY <1>2 DEF mips_mem_read, RamData

LEMMA MemWriteType ==
  ASSUME NEW data \in RamData, NEW address \in Word, NEW length \in {1, 2, 4}, NEW bytes,
         \A k \in 0 .. length - 1 : bytes[k] \in Byte
  PROVE  mips_mem_write(data, address, length, bytes) \in RamData
<1>1. \A a \in RamAddress :
        a \in address .. address + length - 1 => a - address \in 0 .. length - 1
  BY WordIsInt, RamAssumption DEF RamAddress
<1> QED BY <1>1 DEF mips_mem_write, RamData

(* An aligned transaction does not reach into a second word.                  *)
LEMMA WriteOneWord ==
  ASSUME NEW data \in RamData, NEW address \in Word, NEW length \in {1, 2, 4}, NEW bytes,
         address % length = 0
  PROVE  OneWord(data, mips_mem_write(data, address, length, bytes))
<1> DEFINE data2 == mips_mem_write(data, address, length, bytes)
<1>1. ASSUME NEW a \in RamAddress, data2[a] # data[a]
      PROVE  a \div 4 = address \div 4
  <2>1. a \in address .. address + length - 1
    BY <1>1 DEF mips_mem_write, RamData
  <2>2. address \in Int /\ a \in Int
    BY WordIsInt, RamAssumption DEF RamAddress
  <2> QED BY <2>1, <2>2
<1> QED BY <1>1 DEF OneWord

LEMMA MemErrorType ==
  ASSUME NEW mem, NEW address, NEW length
  PROVE  mips_mem_read_write(mem, CbMem, address, length) \in mips_error
BY DEF mips_mem_read_write, mips_error

LEMMA StoredBytesType ==
  ASSUME NEW x \in Word, NEW length \in {1, 2, 4}
  PROVE  \A k \in 0 .. length - 1 : StoredBytes(x, length)[k] \in Byte
<1>1. \A k \in 0 .. length - 1 : length - 1 - k \in 0 .. 3
  OBVIOUS
<1> QED BY <1>1, ByteOfType DEF StoredBytes

LEMMA LoadedWordType ==
  ASSUME NEW opcode \in Loads, NEW b, NEW old, NEW lsbs \in 0 .. 3,
         \A k \in 0 .. TransferLength(opcode) - 1 : b[k] \in Byte,
         \A k \in 0 .. 3 : old[k] \in Byte
  PROVE  LoadedWord(opcode, b, old, lsbs) \in Word
<1>1. CASE opcode \in {\h20, \h24}
  <2>1. b[0] \in Byte
    BY <1>1 DEF TransferLength
  <2> QED BY <1>1, <2>1, SignExtendType, HalfIsWord DEF LoadedWord
<1>2. CASE opcode \in {\h21, \h25}
  <2>1. b[0] \in Byte /\ b[1] \in Byte
    BY <1>2 DEF TransferLength
  <2>2. JoinHalf(b[0], b[1]) \in Half
    BY <2>1, JoinHalfType
  <2> QED BY <1>2, <2>2, SignExtendType, HalfIsWord DEF LoadedWord
<1>3. CASE opcode \in {\h22, \h23, \h26}
  <2>1. \A k \in 0 .. 3 : b[k] \in Byte
    BY <1>3 DEF TransferLength
  <2> DEFINE left == [k \in 0 .. 3 |-> IF k + lsbs <= 3 THEN b[k + lsbs] ELSE old[k]]
             right == [k \in 0 .. 3 |-> IF k + lsbs >= 3 THEN b[k + lsbs - 3] ELSE old[k]]
  <2>2. \A k \in 0 .. 3 : left[k] \in Byte
    <3> TAKE k \in 0 .. 3
    <3>1. k + lsbs <= 3 => k + lsbs \in 0 .. 3
      OBVIOUS
    <3> QED BY <2>1, <3>1
  <2>3. \A k \in 0 .. 3 : right[k] \in Byte
    <3> TAKE k \in 0 .. 3
    <3>1. k + lsbs >= 3 => k + lsbs - 3 \in 0 .. 3
      OBVIOUS
    <3> QED BY <2>1, <3>1
  <2> HIDE DEF left, right
  <2>4. FromBytes(b) \in Word /\ FromBytes(left) \in Word /\ FromBytes(right) \in Word
    BY <2>1, <2>2, <2>3, FromBytesType
  <2> QED BY <1>3, <2>4 DEF LoadedWord, left, right
<1> QED BY <1>1, <1>2, <1>3 DEF Loads

LEMMA MemoryGood ==
  ASSUME NEW st \in mips_cpu_impl, NEW data \in RamData, NEW opcode \in 0 .. 63,
         NEW s \in Reg, NEW t \in Reg, NEW si \in Word
  PROVE  GoodOutcome(st, data, cpu_memory_funcs(opcode, s, t, si, st, data))
<1> DEFINE eff_adr == Plus(st.regs[s], si)
           length == TransferLength(opcode)
           address == TransferAddress(opcode, eff_adr)
           access == mips_mem_read_write(st.mem, CbMem, address, length)
           err == IF opcode \in {\h21, \h23} /\ eff_adr % length # 0 THEN InvalidAlignment
                  ELSE access
           b == mips_mem_read(data, address, length)
           old == ToBytes(st.regs[t])
           loaded == LoadedWord(opcode, b, old, eff_adr % 4)
           bytes == StoredBytes(st.regs[t], length)
           o == cpu_memory_funcs(opcode, s, t, si, st, data)
<1>1. eff_adr \in Word
  BY FieldTypes, WordIsInt, PlusType
<1>2. length \in {1, 2, 4}
  BY DEF TransferLength
<1>3. address \in Word /\ eff_adr % 4 \in 0 .. 3
  <2> HIDE DEF eff_adr
  <2>1. eff_adr \in Int /\ eff_adr >= 0 /\ eff_adr < WordSize
    BY <1>1, WordIsInt
  <2>2. eff_adr - (eff_adr % 4) \in 0 .. WordSize - 1
    BY <2>1, SizeFacts
  <2> QED BY <1>1, <2>1, <2>2 DEF TransferAddress, Word
<1>4. err \in mips_error
  BY MemErrorType DEF mips_error
<1>5. \A k \in 0 .. 3 : old[k] \in Byte
  <2>1. \A k \in 0 .. 3 : 3 - k \in 0 .. 3
    OBVIOUS
  <2> QED BY <2>1, FieldTypes, ByteOfType DEF ToBytes
<1>6. opcode \in Loads /\ t # 0 /\ err = Success => GoodReturn(st, Return(SetReg(st, t, loaded), Success))
  <2> SUFFICES ASSUME opcode \in Loads, t # 0, err = Success
               PROVE  GoodReturn(st, Return(SetReg(st, t, loaded), Success))
    OBVIOUS
  <2>1. access = Success
    BY DEF Success, InvalidAlignment
  <2> HIDE DEF eff_adr, length, address
  <2>2. \A k \in 0 .. length - 1 : b[k] \in Byte
    BY <1>2, <1>3, <2>1, MemReadType
  <2> HIDE DEF b, old
  <2>3. loaded \in Word
    BY <1>3, <1>5, <2>2, LoadedWordType DEF length
  <2> HIDE DEF loaded
  <2> QED BY <2>3, SetRegGood
<1>7. mips_mem_write(data, address, length, bytes) \in RamData
  <2>1. \A k \in 0 .. length - 1 : bytes[k] \in Byte
    BY <1>2, FieldTypes, StoredBytesType
  <2> HIDE DEF eff_adr, length, address, bytes
  <2> QED BY <1>2, <1>3, <2>1, MemWriteType
<1>8. \A e \in mips_error : GoodReturn(st, Return(st, e))
  BY ErrorGood DEF Outcomes
<1>9. err = Success => OneWord(data, mips_mem_write(data, address, length, bytes))
  <2> SUFFICES ASSUME err = Success
               PROVE  OneWord(data, mips_mem_write(data, address, length, bytes))
    OBVIOUS
  <2>1. access = Success
    BY DEF Success, InvalidAlignment
  <2> HIDE DEF eff_adr, length, address, bytes
  <2>2. address % length = 0
    BY <2>1 DEF mips_mem_read_write, Success, InvalidHandle, InvalidLength, InvalidAlignment
  <2> QED BY <1>2, <1>3, <2>2, WriteOneWord
<1>10. Success \in mips_error
  BY DEF mips_error
<1> HIDE DEF eff_adr, length, address, access, b, old, loaded, bytes
<1>11. \/ /\ opcode \in Loads /\ t # 0 /\ err = Success
           /\ o = [state |-> SetReg(st, t, loaded), data |-> data, err |-> err]
       \/ /\ err = Success
           /\ o = [state |-> st, data |-> mips_mem_write(data, address, length, bytes), err |-> err]
       \/ o = [state |-> st, data |-> data, err |-> err]
       \/ o = [state |-> st, data |-> data, err |-> Success]
  BY DEF cpu_memory_funcs, eff_adr, length, address, access, b, old, loaded, bytes
<1> HIDE DEF err, o
<1>12. GoodOutcome(st, data, o)
  BY <1>4, <1>6, <1>7, <1>8, <1>9, <1>10, <1>11 DEF GoodOutcome, GoodReturn, Return
<1> QED BY <1>12 DEF o

LEMMA ImmediateGood ==
  ASSUME NEW st \in mips_cpu_impl, NEW s \in Reg, NEW t \in Reg, NEW i \in Half,
         NEW opcode \in \h4 .. \hf
  PROVE  GoodReturn(st, cpu_execute_immediate(s, t, i, opcode, st))
<1> DEFINE x == st.regs[s]
           simm == SignExtendHalf(i)
           value == CASE opcode \in {\h8, \h9} -> Plus(x, simm)
                      [] opcode = \ha -> IF Signed(x) < Signed(simm) THEN 1 ELSE 0
                      [] opcode = \hb -> IF x < simm THEN 1 ELSE 0
                      [] opcode = \hc -> AndWord(x, i)
                      [] opcode = \hd -> OrWord(x, i)
                      [] opcode = \he -> XorWord(x, i)
                      [] opcode = \hf -> i * HalfSize
<1>1. x \in Word /\ simm \in Word /\ i \in Word
  BY FieldTypes, SignExtendType, HalfIsWord
<1>2. opcode >= \h8 => value \in Word
  <2> HIDE DEF x, simm
  <2>1. Plus(x, simm) \in Word
    BY <1>1, WordIsInt, PlusType
  <2>2. AndWord(x, i) \in Word /\ OrWord(x, i) \in Word /\ XorWord(x, i) \in Word
    BY <1>1, BitwiseType
  <2>3. i * HalfSize \in Word
    <3>1. i \in Int /\ i >= 0 /\ i <= HalfSize - 1 /\ HalfSize \in Nat
      BY SizeFacts DEF Half
    <3>2. i * HalfSize <= (HalfSize - 1) * HalfSize /\ i * HalfSize >= 0 /\ i * HalfSize \in Int
      BY <3>1
    <3>3. (HalfSize - 1) * HalfSize = WordSize - HalfSize
      BY <3>1 DEF WordSize
    <3> QED BY <3>2, <3>3, SizeFacts DEF Word
  <2>4. 0 \in Word /\ 1 \in Word
    BY SizeFacts DEF Word
  <2>5. opcode >= \h8 => opcode \in {\h8, \h9, \ha, \hb, \hc, \hd, \he, \hf}
    OBVIOUS
  <2> QED BY <2>1, <2>2, <2>3, <2>4, <2>5
<1>3. opcode >= \h8 /\ t # 0 => GoodReturn(st, Return(SetReg(st, t, value), Success))
  <2> HIDE DEF value
  <2> QED BY <1>2, SetRegGood
<1>4. GoodReturn(st, Return(mips_cpu_jump(BranchTarget(i, st), 0, st), Success))
  BY JumpKept, BranchTargetType, ReturnGood DEF Reg
<1>5. /\ GoodReturn(st, Return(st, Success))
      /\ GoodReturn(st, Return(st, ArithmeticOverflow))
  BY ErrorGood DEF Outcomes, mips_error
<1>6. opcode < \h8 \/ opcode >= \h8
  OBVIOUS
<1> QED BY <1>3, <1>4, <1>5, <1>6 DEF cpu_execute_immediate

(* Whatever the RAM holds at the pc, executing it is a good outcome.          *)
THEOREM ExecuteGood ==
  ASSUME NEW st \in mips_cpu_impl, NEW data \in RamData
  PROVE  GoodOutcome(st, data, Execute(st, data))
<1> DEFINE fetch == mips_mem_read_write(st.mem, CbMem, st.pc, 4)
           word == FromBytes(mips_mem_read(data, st.pc, 4))
           ins == Decode(word)
           With(r) == [state |-> r.state, data |-> data, err |-> r.err]
<1>1. \A r : GoodReturn(st, r) => GoodOutcome(st, data, With(r))
  BY DEF GoodReturn, GoodOutcome
<1>2. \A e \in Outcomes : GoodOutcome(st, data, With(Return(st, e)))
  BY <1>1, ErrorGood
<1>3. CASE fetch # Success
  <2>1. fetch \in Outcomes
    BY MemErrorType DEF Outcomes
  <2>2. Execute(st, data) = With(Return(st, fetch))
    BY <1>3 DEF Execute
  <2> QED BY <1>2, <2>1, <2>2
<1>4. CASE fetch = Success
  <2>1. ins \in Instr
    <3>1. \A k \in 0 .. 4 - 1 : mips_mem_read(data, st.pc, 4)[k] \in Byte
      BY <1>4, FieldTypes, MemReadType
    <3>2. word \in Word
      BY <3>1, FromBytesType
    <3> HIDE DEF word
    <3> QED BY <3>2, DecodeAssumption
  <2>2. /\ ins.opcode \in 0 .. 63 /\ ins.s \in Reg /\ ins.t \in Reg /\ ins.i \in Half
        /\ ins.j \in 0 .. WordSize \div 64 - 1
    BY <2>1 DEF Instr
  <2>3. Execute(st, data) =
          CASE ins.opcode \notin opcode_to_str -> With(Return(st, Killed))
            [] ins.opcode \in Unimplemented -> With(Return(st, NotImplemented))
            [] ins.opcode = \h0 -> With(cpu_execute_r(ins, st))
            [] ins.opcode = \h1 -> With(cpu_execute_rt(ins.s, ins.t, ins.i, st))
            [] ins.opcode \in \h2 .. \h3 -> With(cpu_execute_j(ins.j, ins.opcode, st))
            [] ins.opcode \in \h4 .. \hf ->
                 With(cpu_execute_immediate(ins.s, ins.t, ins.i, ins.opcode, st))
            [] ins.opcode \in Loads \cup \h28 .. \h2b \cup {\h2e} ->
                 cpu_memory_funcs(ins.opcode, ins.s, ins.t, SignExtendHalf(ins.i), st, data)
    BY <1>4 DEF Execute
  <2> HIDE DEF word, ins, fetch
  <2>4. /\ GoodOutcome(st, data, With(Return(st, Killed)))
        /\ GoodOutcome(st, data, With(Return(st, NotImplemented)))
    BY <1>2 DEF Outcomes, mips_error
  <2>5. /\ GoodOutcome(st, data, With(cpu_execute_r(ins, st)))
        /\ GoodOutcome(st, data, With(cpu_execute_rt(ins.s, ins.t, ins.i, st)))
        /\ GoodOutcome(st, data, With(cpu_execute_j(ins.j, ins.opcode, st)))
    BY <1>1, <2>1, <2>2, RGood, RtGood, JGood
  <2>6. ins.opcode \in \h4 .. \hf =>
          GoodOutcome(st, data,
            With(cpu_execute_immediate(ins.s, ins.t, ins.i, ins.opcode, st)))
    BY <1>1, <2>2, ImmediateGood
  <2>7. GoodOutcome(st, data,
          cpu_memory_funcs(ins.opcode, ins.s, ins.t, SignExtendHalf(ins.i), st, data))
    BY <2>2, SignExtendType, MemoryGood
  <2>8. \/ ins.opcode \notin opcode_to_str
        \/ ins.opcode \in Unimplemented
        \/ ins.opcode \in {\h0, \h1}
        \/ ins.opcode \in \h2 .. \h3
        \/ ins.opcode \in \h4 .. \hf
        \/ ins.opcode \in Loads \cup \h28 .. \h2b \cup {\h2e}
    BY <2>2 DEF opcode_to_str
  <2> HIDE DEF With
  <2> QED BY <2>3, <2>4, <2>5, <2>6, <2>7, <2>8
<1> QED BY <1>3, <1>4

LEMMA IncrementType ==
  ASSUME NEW st \in mips_cpu_impl
  PROVE  LET st2 == mips_cpu_increment_pc(st)
         IN  /\ st2 \in mips_cpu_impl
             /\ st2.pc = st.nPC
             /\ st2.delay_slot = 0
             /\ st2.regs = st.regs /\ st2.mem = st.mem
             /\ st2.hi = st.hi /\ st2.lo = st.lo
             /\ st.delay_slot = 0 => st2.nPC = Plus(st.nPC, 4) /\ st2.jPC = st.jPC
             /\ st.delay_slot = 1 => st2.nPC = st.jPC /\ st2.jPC = 0
<1>1. Plus(st.nPC, 4) \in Word
  <2>1. st.nPC \in Int /\ 4 \in Int
    BY FieldTypes, WordIsInt
  <2> QED BY <2>1, PlusType
<1>2. 0 \in Word
  BY SizeFacts DEF Word
<1>3. st.nPC \in Word /\ st.jPC \in Word /\ st.delay_slot \in {0, 1}
  BY DEF mips_cpu_impl
<1>4. CASE st.delay_slot = 0
  <2> DEFINE st2 == [st EXCEPT !.pc = st.nPC, !.nPC = Plus(st.nPC, 4)]
  <2>1. mips_cpu_increment_pc(st) = st2
    BY <1>4 DEF mips_cpu_increment_pc
  <2>2. st2 \in mips_cpu_impl
    BY <1>1, <1>3 DEF mips_cpu_impl
  <2>3. /\ st2.pc = st.nPC /\ st2.nPC = Plus(st.nPC, 4)
        /\ st2.delay_slot = st.delay_slot /\ st2.jPC = st.jPC
        /\ st2.regs = st.regs /\ st2.mem = st.mem
        /\ st2.hi = st.hi /\ st2.lo = st.lo
    BY DEF mips_cpu_impl
  <2> HIDE DEF st2
  <2> QED BY <1>4, <2>1, <2>2, <2>3
<1>5. CASE st.delay_slot = 1
  <2> DEFINE st2 == [st EXCEPT !.pc = st.nPC, !.delay_slot = 0, !.nPC = st.jPC, !.jPC = 0]
  <2>1. mips_cpu_increment_pc(st) = st2
    BY <1>5 DEF mips_cpu_increment_pc
  <2>2. st2 \in mips_cpu_impl
    BY <1>2, <1>3 DEF mips_cpu_impl
  <2>3. /\ st2.pc = st.nPC /\ st2.nPC = st.jPC
        /\ st2.delay_slot = 0 /\ st2.jPC = 0
        /\ st2.regs = st.regs /\ st2.mem = st.mem
        /\ st2.hi = st.hi /\ st2.lo = st.lo
    BY DEF mips_cpu_impl
  <2> HIDE DEF st2
  <2> QED BY <1>5, <2>1, <2>2, <2>3
<1> QED BY <1>3, <1>4, <1>5

----------------------------------------------------------------------------
(* Where an instruction may jump to: only JR and JALR to an address that is   *)
(* no multiple of four, since the others scale theirs.                        *)
Aligned(r) == r.state.jPC % 4 = 0

LEMMA WordAligned ==
  ASSUME NEW v \in Int, v % 4 = 0
  PROVE  ToWord(v) % 4 = 0
<1>1. PICK w \in Nat \ {0} : WordSize = 256 * w
  BY WordMultiple
<1> DEFINE n == 64 * w
           q == v \div (4 * n)
           r == v % (4 * n)
<1>2. WordSize = 4 * n /\ n \in Nat \ {0}
  BY <1>1
<1> HIDE DEF n
<1>3. 4 * n \in Nat \ {0}
  BY <1>2
<1>4. v = (4 * n) * q + r /\ q \in Int /\ r \in Int
  BY <1>2, <1>3
<1> HIDE DEF q, r
<1> DEFINE p == n * q
<1>5. r = v - 4 * p /\ p \in Int
  BY <1>2, <1>4
<1> HIDE DEF p
<1>6. r % 4 = 0
  BY <1>5
<1> QED BY <1>2, <1>6 DEF ToWord, r

LEMMA JumpAligned ==
  ASSUME NEW st \in mips_cpu_impl, NEW target \in Int, target % 4 = 0, NEW link \in Reg
  PROVE  Aligned(Return(mips_cpu_jump(target, link, st), Success))
<1> DEFINE linked == IF link = 0 THEN st ELSE SetReg(st, link, Plus(st.pc, 8))
<1>1. linked \in mips_cpu_impl
  BY FieldTypes, SetRegKept DEF Kept
<1>2. mips_cpu_jump(target, link, st) = [linked EXCEPT !.delay_slot = 1, !.jPC = target]
  BY DEF mips_cpu_jump
<1> HIDE DEF linked
<1> QED BY <1>1, <1>2 DEF Aligned, Return, mips_cpu_impl

LEMMA BranchAligned ==
  ASSUME NEW st \in mips_cpu_impl, NEW i \in Half, st.pc % 4 = 0
  PROVE  BranchTarget(i, st) \in Int /\ BranchTarget(i, st) % 4 = 0
<1>1. SignExtendHalf(i) \in Int /\ st.pc \in Int
  BY SignExtendType, WordIsInt, FieldTypes
<1> DEFINE v == 4 * SignExtendHalf(i) + st.pc + 4
<1>2. v \in Int /\ v % 4 = 0
  BY <1>1
<1> HIDE DEF v
<1>3. ToWord(v) % 4 = 0
  BY <1>2, WordAligned
<1> QED BY <1>3, BranchTargetType, WordIsInt DEF BranchTarget, v

LEMMA RtAligned ==
  ASSUME NEW st \in mips_cpu_impl, st.jPC % 4 = 0, st.pc % 4 = 0,
         NEW src \in Reg, NEW fn_code, NEW i \in Half
  PROVE  Aligned(cpu_execute_rt(src, fn_code, i, st))
<1> DEFINE link == IF fn_code \in {\h10, \h11} THEN 31 ELSE 0
<1>1. Aligned(Return(mips_cpu_jump(BranchTarget(i, st), link, st), Success))
  BY BranchAligned, JumpAligned DEF Reg
<1>2. \A e : Aligned(Return(st, e))
  BY DEF Aligned, Return
<1>3. Aligned(Return(SetReg(st, 31, Plus(st.pc, 8)), Success))
  BY FieldTypes, SetRegKept DEF Aligned, Return, Reg
<1> QED BY <1>1, <1>2, <1>3 DEF cpu_execute_rt

LEMMA JAligned ==
  ASSUME NEW st \in mips_cpu_impl, NEW j \in 0 .. WordSize \div 64 - 1, NEW opcode
  PROVE  Aligned(cpu_execute_j(j, opcode, st))
<1> DEFINE target == (st.nPC \div JumpRegion) * JumpRegion + 4 * j
<1>1. target \in Int /\ target % 4 = 0
  <2>1. PICK w \in Nat \ {0} : WordSize = 256 * w
    BY WordMultiple
  <2>2. WordSize \div 16 = 16 * w
    BY <2>1
  <2> DEFINE q == st.nPC \div JumpRegion
  <2>3. q \in Int
    BY <2>1, <2>2, FieldTypes, WordIsInt DEF JumpRegion
  <2> HIDE DEF q
  <2> DEFINE p == q * (4 * w)
  <2>4. target = 4 * p + 4 * j /\ p \in Int /\ j \in Int
    BY <2>1, <2>2, <2>3 DEF JumpRegion, q
  <2> HIDE DEF p, target
  <2> QED BY <2>4
<1> HIDE DEF target
<1>2. Aligned(Return(mips_cpu_jump(target, IF opcode = \h3 THEN 31 ELSE 0, st), Success))
  BY <1>1, JumpAligned DEF Reg
<1> QED BY <1>2 DEF cpu_execute_j, target

LEMMA ImmediateAligned ==
  ASSUME NEW st \in mips_cpu_impl, st.jPC % 4 = 0, st.pc % 4 = 0,
         NEW s \in Reg, NEW t \in Reg, NEW i \in Half, NEW opcode \in \h4 .. \hf
  PROVE  Aligned(cpu_execute_immediate(s, t, i, opcode, st))
<1>1. Aligned(Return(mips_cpu_jump(BranchTarget(i, st), 0, st), Success))
  BY BranchAligned, JumpAligned DEF Reg
<1>2. \A e : Aligned(Return(st, e))
  BY DEF Aligned, Return
<1>3. \A v : Aligned(Return(SetReg(st, t, v), Success))
  BY DEF Aligned, Return, SetReg, mips_cpu_impl
<1>4. opcode < \h8 \/ opcode >= \h8
  OBVIOUS
<1> QED BY <1>1, <1>2, <1>3, <1>4 DEF cpu_execute_immediate

LEMMA RAligned ==
  ASSUME NEW st \in mips_cpu_impl, st.jPC % 4 = 0, NEW ins \in Instr,
         ins.fn \notin {\h8, \h9}
  PROVE  Aligned(cpu_execute_r(ins, st))
<1>1. ins.fn \in 0 .. 63
  BY DEF Instr
<1>2. \A e : Aligned(Return(st, e))
  BY DEF Aligned, Return
<1>3. \A r, v : Aligned(Return(SetReg(st, r, v), Success))
  BY DEF Aligned, Return, SetReg, mips_cpu_impl
<1>4. \A hi, lo : Aligned(SetHiLo(st, hi, lo))
  BY DEF Aligned, SetHiLo, Return, mips_cpu_impl
<1>5. \A v : /\ Aligned(Return([st EXCEPT !.hi = v], Success))
             /\ Aligned(Return([st EXCEPT !.lo = v], Success))
  BY DEF Aligned, Return, mips_cpu_impl
<1>6. CASE Reserved(ins)
  BY <1>2, <1>6 DEF cpu_execute_r
<1>7. CASE ~Reserved(ins) /\ ins.fn \in \h0 .. \h7
  <2>1. cpu_execute_r(ins, st) = r_shift(ins.s, ins.t, ins.d, ins.sh, ins.fn, st)
    BY <1>7 DEF cpu_execute_r
  <2> QED BY <1>2, <1>3, <2>1 DEF r_shift
<1>8. CASE ~Reserved(ins) /\ ins.fn \in \h10 .. \h13
  <2>1. cpu_execute_r(ins, st) = move_hilo(ins.fn, ins.s, ins.d, st)
    BY <1>8 DEF cpu_execute_r
  <2>2. ins.fn \in {\h10, \h11, \h12, \h13}
    BY <1>8
  <2> QED BY <1>2, <1>3, <1>5, <2>1, <2>2 DEF move_hilo
<1>9. CASE ~Reserved(ins) /\ ins.fn \in \h18 .. \h1b
  <2>1. cpu_execute_r(ins, st) = mult_div(ins.s, ins.t, ins.fn, st)
    BY <1>9 DEF cpu_execute_r
  <2>2. ins.fn \in {\h18, \h19, \h1a, \h1b}
    BY <1>9
  <2> QED BY <1>2, <1>4, <2>1, <2>2 DEF mult_div
<1>10. CASE ~Reserved(ins) /\ ins.fn \in \h20 .. \h27
  <2>1. cpu_execute_r(ins, st) = add_sub_bitwise(ins.s, ins.t, ins.d, ins.fn, st)
    BY <1>10 DEF cpu_execute_r
  <2> QED BY <1>2, <1>3, <2>1 DEF add_sub_bitwise
<1>11. CASE ~Reserved(ins) /\ ins.fn \in \h2a .. \h2b
  <2>1. cpu_execute_r(ins, st) = less_than(ins.s, ins.t, ins.d, ins.fn, st)
    BY <1>11 DEF cpu_execute_r
  <2> QED BY <1>2, <1>3, <2>1 DEF less_than
<1>12. Reserved(ins) \/ ins.fn \in \h0 .. \h7 \/ ins.fn \in \h10 .. \h13
       \/ ins.fn \in \h18 .. \h1b \/ ins.fn \in \h20 .. \h27 \/ ins.fn \in \h2a .. \h2b
  BY <1>1 DEF Reserved
<1> QED BY <1>6, <1>7, <1>8, <1>9, <1>10, <1>11, <1>12

LEMMA MemoryAligned ==
  ASSUME NEW st \in mips_cpu_impl, st.jPC % 4 = 0, NEW opcode, NEW s, NEW t, NEW si, NEW data
  PROVE  Aligned(cpu_memory_funcs(opcode, s, t, si, st, data))
<1> DEFINE o == cpu_memory_funcs(opcode, s, t, si, st, data)
<1>1. \E v : o.state = SetReg(st, t, v) \/ o.state = st
  BY DEF cpu_memory_funcs
<1>2. \A v : SetReg(st, t, v).jPC = st.jPC
  BY DEF SetReg, mips_cpu_impl
<1> QED BY <1>1, <1>2 DEF Aligned

(* No instruction but JR and JALR leaves a target that is not aligned.        *)
LEMMA ExecuteAligned ==
  ASSUME NEW st \in mips_cpu_impl, NEW data \in RamData, st.jPC = 0,
         LET ins == Decode(FromBytes(mips_mem_read(data, st.pc, 4)))
         IN  ~(ins.opcode = \h0 /\ ins.fn \in {\h8, \h9})
  PROVE  Aligned(Execute(st, data))
<1> DEFINE fetch == mips_mem_read_write(st.mem, CbMem, st.pc, 4)
           word == FromBytes(mips_mem_read(data, st.pc, 4))
           ins == Decode(word)
           With(r) == [state |-> r.state, data |-> data, err |-> r.err]
<1>1. \A r : Aligned(r) => Aligned(With(r))
  BY DEF Aligned
<1>2. \A e : Aligned(With(Return(st, e)))
  BY DEF Aligned, Return
<1>3. CASE fetch # Success
  <2>1. Execute(st, data) = With(Return(st, fetch))
    BY <1>3 DEF Execute
  <2> QED BY <1>2, <2>1
<1>4. CASE fetch = Success
  <2>1. ins \in Instr
    <3>1. \A k \in 0 .. 4 - 1 : mips_mem_read(data, st.pc, 4)[k] \in Byte
      BY <1>4, FieldTypes, MemReadType
    <3>2. word \in Word
      BY <3>1, FromBytesType
    <3> HIDE DEF word
    <3> QED BY <3>2, DecodeAssumption
  <2>2. /\ ins.opcode \in 0 .. 63 /\ ins.s \in Reg /\ ins.t \in Reg /\ ins.i \in Half
        /\ ins.j \in 0 .. WordSize \div 64 - 1
        /\ ~(ins.opcode = \h0 /\ ins.fn \in {\h8, \h9})
    BY <2>1 DEF Instr
  <2>3. st.pc % 4 = 0 /\ st.jPC % 4 = 0
    BY <1>4 DEF mips_mem_read_write, Success, InvalidHandle, InvalidLength, InvalidAlignment
  <2>4. Execute(st, data) =
          CASE ins.opcode \notin opcode_to_str -> With(Return(st, Killed))
            [] ins.opcode \in Unimplemented -> With(Return(st, NotImplemented))
            [] ins.opcode = \h0 -> With(cpu_execute_r(ins, st))
            [] ins.opcode = \h1 -> With(cpu_execute_rt(ins.s, ins.t, ins.i, st))
            [] ins.opcode \in \h2 .. \h3 -> With(cpu_execute_j(ins.j, ins.opcode, st))
            [] ins.opcode \in \h4 .. \hf ->
                 With(cpu_execute_immediate(ins.s, ins.t, ins.i, ins.opcode, st))
            [] ins.opcode \in Loads \cup \h28 .. \h2b \cup {\h2e} ->
                 cpu_memory_funcs(ins.opcode, ins.s, ins.t, SignExtendHalf(ins.i), st, data)
    BY <1>4 DEF Execute
  <2> HIDE DEF word, ins, fetch
  <2>5. ins.opcode = \h0 => Aligned(With(cpu_execute_r(ins, st)))
    BY <1>1, <2>1, <2>2, <2>3, RAligned
  <2>6. /\ Aligned(With(cpu_execute_rt(ins.s, ins.t, ins.i, st)))
        /\ Aligned(With(cpu_execute_j(ins.j, ins.opcode, st)))
    BY <1>1, <2>2, <2>3, RtAligned, JAligned
  <2>7. ins.opcode \in \h4 .. \hf =>
          Aligned(With(cpu_execute_immediate(ins.s, ins.t, ins.i, ins.opcode, st)))
    BY <1>1, <2>2, <2>3, ImmediateAligned
  <2>8. Aligned(cpu_memory_funcs(ins.opcode, ins.s, ins.t, SignExtendHalf(ins.i), st, data))
    BY <2>3, MemoryAligned
  <2>9. \/ ins.opcode \notin opcode_to_str
        \/ ins.opcode \in Unimplemented
        \/ ins.opcode \in {\h0, \h1}
        \/ ins.opcode \in \h2 .. \h3
        \/ ins.opcode \in \h4 .. \hf
        \/ ins.opcode \in Loads \cup \h28 .. \h2b \cup {\h2e}
    BY <2>2 DEF opcode_to_str
  <2> HIDE DEF With
  <2> QED BY <1>2, <2>4, <2>5, <2>6, <2>7, <2>8, <2>9
<1> QED BY <1>3, <1>4

=============================================================================
