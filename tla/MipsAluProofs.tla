--------------------------- MODULE MipsAluProofs ---------------------------
(* The arithmetic, the shifts, the comparisons and the bitwise instructions   *)
(* are those of the integers, for every width of byte and every pair of       *)
(* operands.                                                                  *)
EXTENDS MipsAlu, MipsExecProofs

----------------------------------------------------------------------------
(* Words and the integers they stand for.                                     *)

LEMMA HalfWord == \E h \in Nat \ {0} : WordSize = 2 * h /\ MinInt = -h /\ MaxInt = h - 1
<1>1. PICK w \in Nat \ {0} : WordSize = 256 * w
  BY WordMultiple
<1>2. 128 * w \in Nat \ {0} /\ WordSize = 2 * (128 * w) /\ WordSize \div 2 = 128 * w
  BY <1>1
<1> HIDE DEF WordSize
<1> QED BY <1>2 DEF MinInt, MaxInt

LEMMA SignedRange ==
  ASSUME NEW v \in Word
  PROVE  Signed(v) \in MinInt .. MaxInt /\ Signed(v) % WordSize = v
<1>1. PICK h \in Nat \ {0} : WordSize = 2 * h /\ MinInt = -h /\ MaxInt = h - 1
  BY HalfWord
<1>2. v \in 0 .. WordSize - 1 /\ WordSize \div 2 = h
  BY <1>1 DEF Word
<1>3. CASE v >= h
  <2>1. Signed(v) = v - WordSize
    BY <1>2, <1>3 DEF Signed, IsNegative
  <2>2. (v - WordSize) % WordSize = v
    BY <1>1, <1>2
  <2> QED BY <1>1, <1>2, <1>3, <2>1, <2>2
<1>4. CASE v < h
  <2>1. Signed(v) = v
    BY <1>1, <1>2, <1>4 DEF Signed, IsNegative
  <2>2. v % WordSize = v
    BY <1>1, <1>2
  <2> QED BY <1>1, <1>2, <1>4, <2>1, <2>2
<1> QED BY <1>1, <1>2, <1>3, <1>4

(* Two integers of one range of length size that agree modulo size are equal. *)
LEMMA Residue ==
  ASSUME NEW size \in Nat \ {0}, NEW low \in Int,
         NEW m \in low .. low + size - 1, NEW n \in low .. low + size - 1,
         m % size = n % size
  PROVE  m = n
<1>1. /\ m = (size * (m \div size)) + (m % size)
      /\ n = (size * (n \div size)) + (n % size)
  OBVIOUS
<1> DEFINE p == m \div size
           q == n \div size
<1>2. p \in Int /\ q \in Int /\ m - n = size * (p - q)
  BY <1>1
<1>3. m - n < size /\ m - n > -size
  OBVIOUS
<1> HIDE DEF p, q
<1>4. p - q = 0
  <2>1. CASE p - q >= 1
    <3>1. size * (p - q) >= size
      BY <1>2, <2>1
    <3> QED BY <1>2, <1>3, <3>1
  <2>2. CASE p - q <= -1
    <3>1. size * (p - q) <= -size
      BY <1>2, <2>2
    <3> QED BY <1>2, <1>3, <3>1
  <2> QED BY <1>2, <2>1, <2>2
<1> QED BY <1>2, <1>4

(* What the properties call the value of a word is what int32_t reads in it.  *)
LEMMA ValueOfWord == ASSUME NEW v \in Word PROVE Value(v, WordSize) = Signed(v)
<1>1. PICK h \in Nat \ {0} : WordSize = 2 * h /\ MinInt = -h /\ MaxInt = h - 1
  BY HalfWord
<1> DEFINE range == -(WordSize \div 2) .. WordSize \div 2 - 1
<1>2. range = -h .. -h + WordSize - 1 /\ range = MinInt .. MaxInt
  BY <1>1
<1> HIDE DEF range
<1>3. Signed(v) \in range /\ Signed(v) % WordSize = v
  BY <1>2, SignedRange
<1>4. \A n \in range : n % WordSize = v => n = Signed(v)
  <2> SUFFICES ASSUME NEW n \in range, n % WordSize = v
               PROVE  n = Signed(v)
    OBVIOUS
  <2>1. WordSize \in Nat \ {0} /\ -h \in Int
    BY <1>1
  <2> QED BY <1>2, <1>3, <2>1, Residue
<1> QED BY <1>3, <1>4 DEF Value, range

----------------------------------------------------------------------------
(* The test of the sign bits in overflow finds exactly the sums that do not   *)
(* fit in an int32_t.                                                         *)
THEOREM OverflowExact ==
  ASSUME NEW a \in Word, NEW b \in Word
  PROVE  overflow(a, b) = (Signed(a) + Signed(b) \notin MinInt .. MaxInt)
<1>1. PICK h \in Nat \ {0} : WordSize = 2 * h /\ MinInt = -h /\ MaxInt = h - 1
  BY HalfWord
<1>2. a \in 0 .. (2 * h) - 1 /\ b \in 0 .. (2 * h) - 1 /\ WordSize \div 2 = h
  BY <1>1 DEF Word
<1> DEFINE sum == (a + b) % (2 * h)
<1>3. sum = IF a + b < 2 * h THEN a + b ELSE a + b - (2 * h)
  BY <1>2
<1>4. overflow(a, b) = ((a >= h) = (b >= h) /\ (sum >= h) # (a >= h))
  BY <1>1, <1>2 DEF overflow, Plus, IsNegative
<1>5. /\ Signed(a) = IF a >= h THEN a - (2 * h) ELSE a
      /\ Signed(b) = IF b >= h THEN b - (2 * h) ELSE b
  BY <1>1, <1>2 DEF Signed, IsNegative
<1> HIDE DEF sum
<1> QED BY <1>1, <1>2, <1>3, <1>4, <1>5

(* A sum that fits is the one the wrapping addition yields.                   *)
LEMMA SumOfValues ==
  ASSUME NEW a \in Word, NEW b \in Word
  PROVE  /\ Signed(a) + Signed(b) \in MinInt .. MaxInt
              => Signed(Plus(a, b)) = Signed(a) + Signed(b)
         /\ (Signed(Plus(a, b)) - (Signed(a) + Signed(b))) % WordSize = 0
<1>1. PICK h \in Nat \ {0} : WordSize = 2 * h /\ MinInt = -h /\ MaxInt = h - 1
  BY HalfWord
<1>2. a \in 0 .. (2 * h) - 1 /\ b \in 0 .. (2 * h) - 1 /\ WordSize \div 2 = h
  BY <1>1 DEF Word
<1> DEFINE sum == Plus(a, b)
<1>3. sum = IF a + b < 2 * h THEN a + b ELSE a + b - (2 * h)
  BY <1>1, <1>2 DEF Plus
<1>4. /\ Signed(a) = IF a >= h THEN a - (2 * h) ELSE a
      /\ Signed(b) = IF b >= h THEN b - (2 * h) ELSE b
      /\ Signed(sum) = IF sum >= h THEN sum - (2 * h) ELSE sum
  BY <1>1, <1>2 DEF Signed, IsNegative
<1> HIDE DEF sum
<1>5. Signed(a) + Signed(b) \in MinInt .. MaxInt => Signed(sum) = Signed(a) + Signed(b)
  BY <1>1, <1>2, <1>3, <1>4
<1>6. \/ Signed(sum) - (Signed(a) + Signed(b)) = 0
      \/ Signed(sum) - (Signed(a) + Signed(b)) = 2 * h
      \/ Signed(sum) - (Signed(a) + Signed(b)) = -(2 * h)
  BY <1>2, <1>3, <1>4
<1>7. (Signed(sum) - (Signed(a) + Signed(b))) % (2 * h) = 0
  BY <1>6
<1> QED BY <1>1, <1>5, <1>7 DEF sum

(* So a register or the immediate that is added, whichever way, has a value.  *)
LEMMA ValueOfHalf ==
  ASSUME NEW i \in Half
  PROVE  Value(i, HalfSize) = Signed(SignExtendHalf(i))
<1>1. PICK h \in Nat \ {0} : WordSize = 2 * h /\ MinInt = -h /\ MaxInt = h - 1
  BY HalfWord
<1>2. PICK k \in Nat \ {0} : HalfSize = 2 * k
  <2>1. PICK m \in Nat \ {0} : ByteSize = 4 * m
    BY ByteMultiple
  <2>2. HalfSize = 2 * (8 * (m * m)) /\ 8 * (m * m) \in Nat \ {0}
    BY <2>1 DEF HalfSize
  <2> QED BY <2>2
<1>3. h >= 4 * k /\ i \in 0 .. (2 * k) - 1 /\ HalfSize \div 2 = k /\ WordSize \div 2 = h
  BY <1>1, <1>2, SizeFacts DEF Half
<1> DEFINE n == IF i >= k THEN i - (2 * k) ELSE i
<1>4. Signed(SignExtendHalf(i)) = n
  BY <1>1, <1>2, <1>3 DEF SignExtendHalf, Signed, IsNegative
<1>5. n \in -k .. -k + (2 * k) - 1 /\ n % (2 * k) = i
  BY <1>2, <1>3
<1> HIDE DEF n
<1>6. \A m \in -k .. k - 1 : m % (2 * k) = i => m = n
  <2> SUFFICES ASSUME NEW m \in -k .. k - 1, m % (2 * k) = i
               PROVE  m = n
    OBVIOUS
  <2>1. 2 * k \in Nat \ {0} /\ -k \in Int /\ m \in -k .. -k + (2 * k) - 1
    BY <1>2
  <2> QED BY <1>5, <2>1, Residue
<1>7. n \in -k .. k - 1
  BY <1>2, <1>5
<1>8. Value(i, HalfSize) = CHOOSE m \in -k .. k - 1 : m % (2 * k) = i
  BY <1>2, <1>3 DEF Value
<1> QED BY <1>4, <1>5, <1>6, <1>7, <1>8

----------------------------------------------------------------------------
(* What each instruction leaves in the observed registers.                    *)

LEMMA OperandsType ==
  ASSUME x \in Word, y \in Word
  PROVE  /\ Operands \in mips_cpu_impl
         /\ Operands.regs[1] = x /\ Operands.regs[2] = y /\ Operands.regs[3] = 0
         /\ Operands.hi = 0 /\ Operands.lo = 0
<1>1. 0 \in Word /\ 4 \in Word
  BY SizeFacts DEF Word
<1>2. Operands.regs = [r \in Reg |-> CASE r = 1 -> x [] r = 2 -> y [] OTHER -> 0]
  BY DEF Operands
<1>3. Operands.regs \in [Reg -> Word]
  BY <1>1, <1>2
<1>4. Operands.regs[1] = x /\ Operands.regs[2] = y /\ Operands.regs[3] = 0
  BY <1>2 DEF Reg
<1> QED BY <1>1, <1>3, <1>4 DEF Operands, mips_cpu_impl, Handle

(* Register 3 after it was the destination, or after it was not written.      *)
LEMMA ResultOf ==
  ASSUME x \in Word, y \in Word
  PROVE  /\ \A v : Result(Return(SetReg(Operands, 3, v), Success)) =
                     [err |-> Success, d |-> v, hi |-> 0, lo |-> 0]
         /\ \A e : Result(Return(Operands, e)) = [err |-> e, d |-> 0, hi |-> 0, lo |-> 0]
BY OperandsType DEF Result, Return, SetReg, mips_cpu_impl, Reg

(* The instructions proved about, without the other cases of their functions. *)
LEMMA AddSubReturn ==
  ASSUME NEW st, NEW src1, NEW src2, NEW dest, dest # 0, NEW fn \in \h20 .. \h23
  PROVE  LET a == st.regs[src1]
             b == st.regs[src2]
             traps == \/ fn = \h20 /\ overflow(a, b)
                      \/ fn = \h22 /\ overflow(a, Minus(0, b))
             value == IF fn \in {\h20, \h21} THEN Plus(a, b) ELSE Minus(a, b)
         IN  add_sub_bitwise(src1, src2, dest, fn, st) =
               IF traps THEN Return(st, ArithmeticOverflow)
               ELSE Return(SetReg(st, dest, value), Success)
<1>1. CASE fn = \h20
  BY <1>1 DEF add_sub_bitwise
<1>2. CASE fn = \h21
  BY <1>2 DEF add_sub_bitwise
<1>3. CASE fn = \h22
  BY <1>3 DEF add_sub_bitwise
<1>4. CASE fn = \h23
  BY <1>4 DEF add_sub_bitwise
<1> QED BY <1>1, <1>2, <1>3, <1>4

LEMMA AddiReturn ==
  ASSUME NEW st, NEW s, NEW t, t # 0, NEW i, NEW opcode \in {\h8, \h9}
  PROVE  LET a == st.regs[s]
             simm == SignExtendHalf(i)
         IN  cpu_execute_immediate(s, t, i, opcode, st) =
               IF opcode = \h8 /\ overflow(a, simm) THEN Return(st, ArithmeticOverflow)
               ELSE Return(SetReg(st, t, Plus(a, simm)), Success)
<1>1. CASE opcode = \h8
  BY <1>1 DEF cpu_execute_immediate
<1>2. CASE opcode = \h9
  BY <1>2 DEF cpu_execute_immediate
<1> QED BY <1>1, <1>2

LEMMA AddSubResult ==
  ASSUME x \in Word, y \in Word, NEW fn \in \h20 .. \h23, ExecuteR(fn)
  PROVE  /\ op' = [format |-> "R", code |-> fn]
         /\ x' = x /\ y' = y
         /\ IF (fn = \h20 /\ overflow(x, y)) \/ (fn = \h22 /\ overflow(x, Minus(0, y)))
            THEN out'.err = ArithmeticOverflow /\ out'.d = 0
            ELSE /\ out'.err = Success
                 /\ out'.d = IF fn \in {\h20, \h21} THEN Plus(x, y) ELSE Minus(x, y)
<1> DEFINE ins == [opcode |-> 0, fn |-> fn, i |-> 0, j |-> 0, s |-> 1, t |-> 2,
                   d |-> 3, sh |-> 0]
           traps == \/ fn = \h20 /\ overflow(x, y)
                    \/ fn = \h22 /\ overflow(x, Minus(0, y))
           value == IF fn \in {\h20, \h21} THEN Plus(x, y) ELSE Minus(x, y)
<1>1. /\ op' = [format |-> "R", code |-> fn]
      /\ x' = x /\ y' = y
      /\ out' = Result(cpu_execute_r(ins, Operands))
  BY DEF ExecuteR
<1>2. cpu_execute_r(ins, Operands) = add_sub_bitwise(1, 2, 3, fn, Operands)
  BY DEF cpu_execute_r, Reserved
<1>3. add_sub_bitwise(1, 2, 3, fn, Operands) =
        IF traps THEN Return(Operands, ArithmeticOverflow)
        ELSE Return(SetReg(Operands, 3, value), Success)
  BY OperandsType, AddSubReturn
<1> HIDE DEF ins, traps, value
<1>4. out' = IF traps THEN [err |-> ArithmeticOverflow, d |-> 0, hi |-> 0, lo |-> 0]
             ELSE [err |-> Success, d |-> value, hi |-> 0, lo |-> 0]
  BY <1>1, <1>2, <1>3, ResultOf
<1> QED BY <1>1, <1>4 DEF traps, value

LEMMA AddiResult ==
  ASSUME x \in Word, y \in Word, NEW opcode \in {\h8, \h9}, ExecuteI(opcode)
  PROVE  LET simm == SignExtendHalf(y % HalfSize)
         IN  /\ op' = [format |-> "I", code |-> opcode]
             /\ x' = x /\ y' = y
             /\ opcode = \h8 /\ overflow(x, simm) =>
                  out'.err = ArithmeticOverflow /\ out'.d = 0
             /\ ~(opcode = \h8 /\ overflow(x, simm)) =>
                  out'.err = Success /\ out'.d = Plus(x, simm)
<1> DEFINE simm == SignExtendHalf(y % HalfSize)
           traps == opcode = \h8 /\ overflow(x, simm)
<1>1. /\ op' = [format |-> "I", code |-> opcode]
      /\ x' = x /\ y' = y
      /\ out' = Result(cpu_execute_immediate(1, 3, y % HalfSize, opcode, Operands))
  BY DEF ExecuteI
<1>2. cpu_execute_immediate(1, 3, y % HalfSize, opcode, Operands) =
        IF traps THEN Return(Operands, ArithmeticOverflow)
        ELSE Return(SetReg(Operands, 3, Plus(x, simm)), Success)
  BY OperandsType, AddiReturn
<1> HIDE DEF simm, traps
<1>3. out' = IF traps THEN [err |-> ArithmeticOverflow, d |-> 0, hi |-> 0, lo |-> 0]
             ELSE [err |-> Success, d |-> Plus(x, simm), hi |-> 0, lo |-> 0]
  BY <1>1, <1>2, ResultOf
<1> QED BY <1>1, <1>3 DEF traps, simm

----------------------------------------------------------------------------
(* Adding and subtracting, read as integers.                                  *)

LEMMA IntegerOfWord == \A v \in Word : Signed(v) \in Int /\ v \in Int
BY SignedType, WordIsInt

(* An addition of a to the word b that traps leaves error e and word d.       *)
TrappingAdd(a, b, e, d) ==
  IF overflow(a, b) THEN e = ArithmeticOverflow /\ d = 0
                    ELSE e = Success /\ d = Plus(a, b)

LEMMA TrappingAddExact ==
  ASSUME NEW a \in Word, NEW b \in Word, NEW e, NEW d, TrappingAdd(a, b, e, d)
  PROVE  LET n == Signed(a) + Signed(b)
         IN  IF n \in MinInt .. MaxInt THEN e = Success /\ Value(d, WordSize) = n
                                       ELSE e = ArithmeticOverflow /\ d = 0
<1>1. Plus(a, b) \in Word
  BY PlusType, WordIsInt
<1>2. Value(Plus(a, b), WordSize) = Signed(Plus(a, b))
  BY <1>1, ValueOfWord
<1> QED BY <1>2, OverflowExact, SumOfValues DEF TrappingAdd

LEMMA WrappingAddExact ==
  ASSUME NEW a \in Word, NEW b \in Word
  PROVE  /\ Value(Plus(a, b), WordSize) \in Int
         /\ (Value(Plus(a, b), WordSize) - (Signed(a) + Signed(b))) % WordSize = 0
<1>1. Plus(a, b) \in Word
  BY PlusType, WordIsInt
<1>2. Value(Plus(a, b), WordSize) = Signed(Plus(a, b))
  BY <1>1, ValueOfWord
<1> QED BY <1>1, <1>2, SumOfValues, SignedType

(* One turn around the word is no difference.                                 *)
LEMMA OneTurn ==
  ASSUME NEW z \in Int, NEW w \in Nat \ {0}, z % w = 0
  PROVE  (z - w) % w = 0
<1> DEFINE q == z \div w
           p == (z - w) \div w
           r == (z - w) % w
<1>1. z = w * q /\ q \in Int
  OBVIOUS
<1>2. z - w = (w * p) + r /\ p \in Int /\ r \in 0 .. w - 1
  OBVIOUS
<1> HIDE DEF q, p, r
<1> DEFINE t == q - 1 - p
<1>3. r = w * t /\ t \in Int
  BY <1>1, <1>2
<1> HIDE DEF t
<1>4. CASE t >= 1
  <2>1. w * t >= w
    BY <1>3, <1>4
  <2> QED BY <1>2, <1>3, <2>1
<1>5. CASE t <= -1
  <2>1. w * t <= -w
    BY <1>3, <1>5
  <2> QED BY <1>2, <1>3, <2>1
<1>6. CASE t = 0
  BY <1>3, <1>6 DEF r
<1> QED BY <1>3, <1>4, <1>5, <1>6

(* The negation that SUB adds, and the one subtrahend that has none.          *)
LEMMA Negated ==
  ASSUME NEW a \in Word, NEW b \in Word
  PROVE  /\ Minus(0, b) \in Word
         /\ Minus(a, b) = Plus(a, Minus(0, b))
         /\ Signed(b) # MinInt => Signed(Minus(0, b)) = -Signed(b)
         /\ \/ Signed(Minus(0, b)) = -Signed(b)
            \/ Signed(Minus(0, b)) = -Signed(b) - WordSize
<1>1. PICK h \in Nat \ {0} : WordSize = 2 * h /\ MinInt = -h /\ MaxInt = h - 1
  BY HalfWord
<1>2. a \in 0 .. (2 * h) - 1 /\ b \in 0 .. (2 * h) - 1 /\ WordSize \div 2 = h
  BY <1>1 DEF Word
<1> DEFINE m == Minus(0, b)
<1>3. m = IF b = 0 THEN 0 ELSE (2 * h) - b
  BY <1>1, <1>2 DEF Minus
<1>4. /\ Minus(a, b) = IF a >= b THEN a - b ELSE a - b + (2 * h)
      /\ Plus(a, m) = IF a + m < 2 * h THEN a + m ELSE a + m - (2 * h)
  BY <1>1, <1>2, <1>3 DEF Minus, Plus
<1>5. /\ Signed(b) = IF b >= h THEN b - (2 * h) ELSE b
      /\ Signed(m) = IF m >= h THEN m - (2 * h) ELSE m
  BY <1>1, <1>2 DEF Signed, IsNegative
<1> HIDE DEF m
<1>6. m \in Word
  BY <1>1, <1>2, <1>3 DEF Word
<1>7. Minus(a, b) = Plus(a, m)
  BY <1>1, <1>2, <1>3, <1>4
<1>8. /\ Signed(b) # MinInt => Signed(m) = -Signed(b)
      /\ Signed(m) = -Signed(b) \/ Signed(m) = -Signed(b) - WordSize
  BY <1>1, <1>2, <1>3, <1>5
<1> QED BY <1>6, <1>7, <1>8 DEF m

LEMMA AddStep ==
  ASSUME x \in Word, y \in Word, NEW fn \in {\h20, \h21}, ExecuteR(fn)
  PROVE  AddIsExact'
<1>1. /\ op' = [format |-> "R", code |-> fn] /\ x' = x /\ y' = y
      /\ fn = \h20 => TrappingAdd(x, y, out'.err, out'.d)
      /\ fn = \h21 => out'.err = Success /\ out'.d = Plus(x, y)
  BY AddSubResult DEF TrappingAdd
<1>2. /\ X' = Signed(x) /\ Y' = Signed(y) /\ D' = Value(out'.d, WordSize)
  BY <1>1, ValueOfWord DEF X, Y, D
<1>3. CASE fn = \h20
  <2>1. IsOrTraps(X + Y)'
    BY <1>1, <1>2, <1>3, TrappingAddExact DEF IsOrTraps, Fits
  <2> QED BY <1>1, <1>3, <2>1 DEF AddIsExact, Executed
<1>4. CASE fn = \h21
  <2>1. out'.err = Success /\ (D' - (X' + Y')) % WordSize = 0
    BY <1>1, <1>2, <1>4, WrappingAddExact
  <2> QED BY <1>1, <1>4, <2>1 DEF AddIsExact, Executed
<1> QED BY <1>3, <1>4

LEMMA AddiStep ==
  ASSUME x \in Word, y \in Word, NEW opcode \in {\h8, \h9}, ExecuteI(opcode)
  PROVE  AddIsExact'
<1> DEFINE i == y % HalfSize
           b == SignExtendHalf(i)
<1>1. /\ op' = [format |-> "I", code |-> opcode] /\ x' = x /\ y' = y
      /\ opcode = \h8 => TrappingAdd(x, b, out'.err, out'.d)
      /\ opcode = \h9 => out'.err = Success /\ out'.d = Plus(x, b)
  BY AddiResult DEF TrappingAdd
<1>2. i \in Half
  BY SizeFacts DEF Half, Word
<1>3. b \in Word /\ Value(i, HalfSize) = Signed(b)
  BY <1>2, SignExtendType, ValueOfHalf
<1>4. /\ X' = Signed(x) /\ Y' = Signed(b) /\ D' = Value(out'.d, WordSize)
  BY <1>1, <1>3, ValueOfWord DEF X, Y, D
<1> HIDE DEF i, b
<1>5. CASE opcode = \h8
  <2>1. IsOrTraps(X + Y)'
    BY <1>1, <1>3, <1>4, <1>5, TrappingAddExact DEF IsOrTraps, Fits
  <2> QED BY <1>1, <1>5, <2>1 DEF AddIsExact, Executed
<1>6. CASE opcode = \h9
  <2>1. out'.err = Success /\ (D' - (X' + Y')) % WordSize = 0
    BY <1>1, <1>3, <1>4, <1>6, WrappingAddExact
  <2> QED BY <1>1, <1>6, <2>1 DEF AddIsExact, Executed
<1> QED BY <1>5, <1>6

LEMMA SubStep ==
  ASSUME x \in Word, y \in Word, NEW fn \in {\h22, \h23}, ExecuteR(fn)
  PROVE  SubIsExact'
<1> DEFINE b == Minus(0, y)
<1>1. b \in Word /\ Minus(x, y) = Plus(x, b)
  BY Negated
<1>2. /\ op' = [format |-> "R", code |-> fn] /\ x' = x /\ y' = y
      /\ fn = \h22 => TrappingAdd(x, b, out'.err, out'.d)
      /\ fn = \h23 => out'.err = Success /\ out'.d = Plus(x, b)
  BY <1>1, AddSubResult DEF TrappingAdd
<1>3. /\ X' = Signed(x) /\ Y' = Signed(y) /\ D' = Value(out'.d, WordSize)
  BY <1>2, ValueOfWord DEF X, Y, D
<1>4. /\ Signed(y) # MinInt => Signed(b) = -Signed(y)
      /\ Signed(b) = -Signed(y) \/ Signed(b) = -Signed(y) - WordSize
  BY Negated
<1> HIDE DEF b
<1>5. Signed(x) \in Int /\ Signed(y) \in Int /\ Signed(b) \in Int
  BY <1>1, IntegerOfWord
<1>6. CASE fn = \h22
  <2>1. ASSUME Signed(y) # MinInt
        PROVE  IsOrTraps(X - Y)'
    <3>1. Signed(x) + Signed(b) = X' - Y'
      BY <1>3, <1>4, <1>5, <2>1
    <3> QED BY <1>1, <1>2, <1>3, <1>6, <3>1, TrappingAddExact DEF IsOrTraps, Fits
  <2> QED BY <1>2, <1>3, <1>6, <2>1 DEF SubIsExact, Executed
<1>7. CASE fn = \h23
  <2> DEFINE n == Signed(x) + Signed(b)
             z == D' - n
  <2>1. out'.err = Success /\ D' \in Int /\ z % WordSize = 0
    BY <1>1, <1>2, <1>3, <1>7, WrappingAddExact
  <2>2. z \in Int /\ WordSize \in Nat \ {0}
    BY <1>5, <2>1, SizeFacts
  <2>3. D' - (X' - Y') = z \/ D' - (X' - Y') = z - WordSize
    BY <1>3, <1>4, <1>5, <2>1, <2>2
  <2> HIDE DEF z
  <2>4. (z - WordSize) % WordSize = 0
    BY <2>1, <2>2, OneTurn
  <2> QED BY <1>2, <1>7, <2>1, <2>3, <2>4 DEF SubIsExact, Executed
<1> QED BY <1>6, <1>7

----------------------------------------------------------------------------
(* Comparing.                                                                 *)

LEMMA LessThanResult ==
  ASSUME x \in Word, y \in Word, NEW fn \in {\h2a, \h2b}, ExecuteR(fn)
  PROVE  /\ op' = [format |-> "R", code |-> fn]
         /\ x' = x /\ y' = y
         /\ fn = \h2a => (out'.d = 1) = (Signed(x) < Signed(y))
         /\ fn = \h2b => (out'.d = 1) = (x < y)
<1> DEFINE ins == [opcode |-> 0, fn |-> fn, i |-> 0, j |-> 0, s |-> 1, t |-> 2,
                   d |-> 3, sh |-> 0]
           less == IF fn = \h2a THEN Signed(x) < Signed(y) ELSE x < y
           flag == IF less THEN 1 ELSE 0
<1>1. /\ op' = [format |-> "R", code |-> fn]
      /\ x' = x /\ y' = y
      /\ out' = Result(cpu_execute_r(ins, Operands))
  BY DEF ExecuteR
<1>2. cpu_execute_r(ins, Operands) = less_than(1, 2, 3, fn, Operands)
  BY DEF cpu_execute_r, Reserved
<1>3. less_than(1, 2, 3, fn, Operands) = Return(SetReg(Operands, 3, flag), Success)
  BY OperandsType DEF less_than
<1>4. out'.d = flag
  BY <1>1, <1>2, <1>3, ResultOf
<1> QED BY <1>1, <1>4

LEMMA SetLessImmediateReturn ==
  ASSUME NEW st, NEW s, NEW t, t # 0, NEW i, NEW opcode \in {\ha, \hb}
  PROVE  LET a == st.regs[s]
             simm == SignExtendHalf(i)
             less == IF opcode = \ha THEN Signed(a) < Signed(simm) ELSE a < simm
         IN  cpu_execute_immediate(s, t, i, opcode, st) =
               Return(SetReg(st, t, IF less THEN 1 ELSE 0), Success)
<1>1. CASE opcode = \ha
  BY <1>1 DEF cpu_execute_immediate
<1>2. CASE opcode = \hb
  BY <1>2 DEF cpu_execute_immediate
<1> QED BY <1>1, <1>2

LEMMA SetLessImmediateResult ==
  ASSUME x \in Word, y \in Word, NEW opcode \in {\ha, \hb}, ExecuteI(opcode)
  PROVE  LET simm == SignExtendHalf(y % HalfSize)
         IN  /\ op' = [format |-> "I", code |-> opcode]
             /\ x' = x /\ y' = y
             /\ opcode = \ha => (out'.d = 1) = (Signed(x) < Signed(simm))
             /\ opcode = \hb => (out'.d = 1) = (x < simm)
<1> DEFINE simm == SignExtendHalf(y % HalfSize)
           less == IF opcode = \ha THEN Signed(x) < Signed(simm) ELSE x < simm
           flag == IF less THEN 1 ELSE 0
<1>1. /\ op' = [format |-> "I", code |-> opcode]
      /\ x' = x /\ y' = y
      /\ out' = Result(cpu_execute_immediate(1, 3, y % HalfSize, opcode, Operands))
  BY DEF ExecuteI
<1>2. cpu_execute_immediate(1, 3, y % HalfSize, opcode, Operands) =
        Return(SetReg(Operands, 3, flag), Success)
  BY OperandsType, SetLessImmediateReturn
<1>3. out'.d = flag
  BY <1>1, <1>2, ResultOf
<1> QED BY <1>1, <1>3

(* The immediate, extended to a word, is the integer the properties read in it. *)
LEMMA ImmediateValue ==
  ASSUME y \in Word
  PROVE  LET simm == SignExtendHalf(y % HalfSize)
         IN  /\ simm \in Word
             /\ Value(y % HalfSize, HalfSize) = Signed(simm)
             /\ Signed(simm) % WordSize = simm
<1>1. y % HalfSize \in Half
  BY SizeFacts DEF Half, Word
<1> QED BY <1>1, SignExtendType, ValueOfHalf, SignedRange

LEMMA CompareStep ==
  ASSUME x \in Word, y \in Word
  PROVE  /\ \A fn \in {\h2a, \h2b} : ExecuteR(fn) => CompareIsExact'
         /\ \A opcode \in {\ha, \hb} : ExecuteI(opcode) => CompareIsExact'
<1>1. ASSUME NEW fn \in {\h2a, \h2b}, ExecuteR(fn)
      PROVE  CompareIsExact'
  <2>1. /\ op' = [format |-> "R", code |-> fn]
        /\ x' = x /\ y' = y
        /\ fn = \h2a => (out'.d = 1) = (Signed(x) < Signed(y))
        /\ fn = \h2b => (out'.d = 1) = (x < y)
    BY <1>1, LessThanResult
  <2>2. X' = Signed(x) /\ Y' = Signed(y)
    BY <2>1, ValueOfWord DEF X, Y
  <2> QED BY <2>1, <2>2 DEF CompareIsExact, Executed
<1>2. ASSUME NEW opcode \in {\ha, \hb}, ExecuteI(opcode)
      PROVE  CompareIsExact'
  <2> DEFINE simm == SignExtendHalf(y % HalfSize)
  <2>1. /\ op' = [format |-> "I", code |-> opcode]
        /\ x' = x /\ y' = y
        /\ opcode = \ha => (out'.d = 1) = (Signed(x) < Signed(simm))
        /\ opcode = \hb => (out'.d = 1) = (x < simm)
    BY <1>2, SetLessImmediateResult
  <2>2. X' = Signed(x) /\ Y' = Signed(simm) /\ Signed(simm) % WordSize = simm
    BY <2>1, ValueOfWord, ImmediateValue DEF X, Y
  <2> HIDE DEF simm
  <2> QED BY <2>1, <2>2 DEF CompareIsExact, Executed
<1> QED BY <1>1, <1>2

----------------------------------------------------------------------------
(* Shifting.                                                                  *)

(* An integer that fits in a word is the one its word stands for.             *)
LEMMA WordOfInteger ==
  ASSUME NEW n \in MinInt .. MaxInt
  PROVE  ToWord(n) \in Word /\ Signed(ToWord(n)) = n /\ Value(ToWord(n), WordSize) = n
<1>1. PICK h \in Nat \ {0} : WordSize = 2 * h /\ MinInt = -h /\ MaxInt = h - 1
  BY HalfWord
<1>2. n \in -h .. -h + WordSize - 1 /\ n \in Int
  BY <1>1
<1>3. ToWord(n) \in Word
  BY <1>2, ToWordType
<1>4. /\ Signed(ToWord(n)) \in -h .. -h + WordSize - 1
      /\ Signed(ToWord(n)) % WordSize = n % WordSize
  BY <1>1, <1>3, SignedRange DEF ToWord
<1>5. WordSize \in Nat \ {0} /\ -h \in Int
  BY <1>1
<1>6. Signed(ToWord(n)) = n
  BY <1>2, <1>4, <1>5, Residue
<1> QED BY <1>3, <1>6, ValueOfWord

(* What function fn makes of v when it shifts by k.                           *)
Shifted(fn, v, k) ==
  CASE fn \in {\h0, \h4} -> ShiftLeft(v, k)
    [] fn \in {\h2, \h6} -> ShiftRight(v, k)
    [] fn \in {\h3, \h7} -> ShiftRightArithmetic(v, k)

LEMMA ShiftResult ==
  ASSUME x \in Word, y \in Word, NEW fn \in {\h0, \h2, \h3, \h4, \h6, \h7}, ExecuteR(fn)
  PROVE  LET amount == x % WordBits
         IN  /\ op' = [format |-> "R", code |-> fn]
             /\ x' = x /\ y' = y
             /\ fn \in {\h0, \h4} => out'.d = ShiftLeft(y, amount)
             /\ fn \in {\h2, \h6} => out'.d = ShiftRight(y, amount)
             /\ fn \in {\h3, \h7} => out'.d = ShiftRightArithmetic(y, amount)
<1> DEFINE immediate == fn \in {\h0, \h2, \h3}
           s == IF immediate THEN 0 ELSE 1
           sh == IF immediate THEN x % WordBits ELSE 0
           ins == [opcode |-> 0, fn |-> fn, i |-> 0, j |-> 0, s |-> s, t |-> 2,
                   d |-> 3, sh |-> sh]
           amount == x % WordBits
           value == Shifted(fn, y, amount)
<1>1. /\ op' = [format |-> "R", code |-> fn]
      /\ x' = x /\ y' = y
      /\ out' = Result(cpu_execute_r(ins, Operands))
  BY DEF ExecuteR
<1>2. cpu_execute_r(ins, Operands) = r_shift(s, 2, 3, sh, fn, Operands)
  <2>1. ins.fn = fn /\ ins.s = s /\ ins.t = 2 /\ ins.d = 3 /\ ins.sh = sh
    OBVIOUS
  <2>2. ~Reserved(ins)
    BY <2>1 DEF Reserved
  <2> HIDE DEF ins
  <2> QED BY <2>1, <2>2 DEF cpu_execute_r
<1>3. /\ fn \in {\h0, \h2, \h3} => s = 0 /\ amount = sh
      /\ fn \in {\h4, \h6, \h7} => sh = 0 /\ amount = VariableAmount(Operands.regs[s])
  BY OperandsType DEF VariableAmount
<1>4. Operands.regs[2] = y /\ s \in Int /\ sh \in Int /\ amount \in Int
  BY OperandsType, SizeFacts DEF Word
<1> HIDE DEF s, sh, amount, immediate
<1>5. r_shift(s, 2, 3, sh, fn, Operands) = Return(SetReg(Operands, 3, value), Success)
  <2> HIDE DEF ins
  <2>1. CASE fn = \h0
    BY <1>3, <1>4, <2>1 DEF r_shift, Shifted
  <2>2. CASE fn = \h2
    BY <1>3, <1>4, <2>2 DEF r_shift, Shifted
  <2>3. CASE fn = \h3
    BY <1>3, <1>4, <2>3 DEF r_shift, Shifted
  <2>4. CASE fn = \h4
    BY <1>3, <1>4, <2>4 DEF r_shift, Shifted
  <2>5. CASE fn = \h6
    BY <1>3, <1>4, <2>5 DEF r_shift, Shifted
  <2>6. CASE fn = \h7
    BY <1>3, <1>4, <2>6 DEF r_shift, Shifted
  <2> QED BY <2>1, <2>2, <2>3, <2>4, <2>5, <2>6
<1> HIDE DEF ins
<1>6. out'.d = value
  BY <1>1, <1>2, <1>5, ResultOf
<1> QED BY <1>1, <1>6 DEF amount, Shifted

LEMMA ShiftExact ==
  ASSUME NEW v \in Word, NEW k \in 0 .. WordBits - 1
  PROVE  LET p == 2 ^ k
             n == Signed(v)
         IN  /\ (ShiftLeft(v, k) - v * p) % WordSize = 0
             /\ ShiftRight(v, k) * p \in v - p + 1 .. v
             /\ Value(ShiftRightArithmetic(v, k), WordSize) * p \in n - p + 1 .. n
<1> DEFINE p == 2 ^ k
           n == Signed(v)
<1>1. p \in Nat \ {0}
  <2>1. k \in 0 .. WordBits + 1
    BY SizeFacts
  <2> QED BY <2>1, PowerType
<1>2. PICK h \in Nat \ {0} : WordSize = 2 * h /\ MinInt = -h /\ MaxInt = h - 1
  BY HalfWord
<1>3. v \in Int /\ n \in -h .. h - 1
  BY <1>2, WordIsInt, SignedRange
<1> HIDE DEF p, n
<1>4. (((v * p) % WordSize) - v * p) % WordSize = 0
  <2> DEFINE m == v * p
             q == m \div WordSize
             r == m % WordSize
  <2>1. m \in Int
    BY <1>1, <1>3
  <2>2. WordSize \in Nat \ {0}
    BY <1>2
  <2> HIDE DEF m
  <2>3. q \in Int /\ m = q * WordSize + r /\ r \in 0 .. WordSize - 1
    BY <2>1, <2>2, DivModOf
  <2> HIDE DEF q, r
  <2>4. r - m = (-q) * WordSize + 0
    BY <2>2, <2>3
  <2>5. 0 \in 0 .. WordSize - 1 /\ -q \in Int
    BY <2>2, <2>3
  <2>6. (r - m) % WordSize = 0
    BY <2>2, <2>4, <2>5, DivMod
  <2> QED BY <2>6 DEF m, r
<1>5. (v \div p) * p \in v - p + 1 .. v
  BY <1>1, <1>3, DivModOf
<1>6. n \div p \in MinInt .. MaxInt
  BY <1>1, <1>2, <1>3, DivRange
<1>7. Value(ToWord(n \div p), WordSize) = n \div p
  BY <1>6, WordOfInteger
<1>8. (n \div p) * p \in n - p + 1 .. n
  <2>1. n \in Int
    BY <1>2, <1>3
  <2> QED BY <1>1, <2>1, DivModOf
<1> QED BY <1>4, <1>5, <1>7, <1>8 DEF ShiftLeft, ShiftRight, ShiftRightArithmetic, p, n

LEMMA ShiftStep ==
  ASSUME x \in Word, y \in Word, NEW fn \in {\h0, \h2, \h3, \h4, \h6, \h7}, ExecuteR(fn)
  PROVE  ShiftIsExact'
<1> DEFINE k == x % WordBits
<1>1. k \in 0 .. WordBits - 1
  BY SizeFacts DEF Word
<1>2. /\ op' = [format |-> "R", code |-> fn]
      /\ x' = x /\ y' = y
      /\ fn \in {\h0, \h4} => out'.d = ShiftLeft(y, k)
      /\ fn \in {\h2, \h6} => out'.d = ShiftRight(y, k)
      /\ fn \in {\h3, \h7} => out'.d = ShiftRightArithmetic(y, k)
  BY ShiftResult
<1>3. /\ (ShiftLeft(y, k) - y * 2 ^ k) % WordSize = 0
      /\ ShiftRight(y, k) * 2 ^ k \in y - 2 ^ k + 1 .. y
      /\ Value(ShiftRightArithmetic(y, k), WordSize) * 2 ^ k \in Signed(y) - 2 ^ k + 1 .. Signed(y)
  BY <1>1, ShiftExact
<1>4. Y' = Signed(y) /\ D' = Value(out'.d, WordSize) /\ 2 ^ (x' % WordBits) = 2 ^ k
  BY <1>2, ValueOfWord DEF Y, D
<1> HIDE DEF k
<1>5. CASE fn \in {\h0, \h4}
  BY <1>2, <1>3, <1>4, <1>5 DEF ShiftIsExact, Executed
<1>6. CASE fn \in {\h2, \h6}
  BY <1>2, <1>3, <1>4, <1>6 DEF ShiftIsExact, Executed
<1>7. CASE fn \in {\h3, \h7}
  BY <1>2, <1>3, <1>4, <1>7 DEF ShiftIsExact, Executed
<1> QED BY <1>5, <1>6, <1>7

----------------------------------------------------------------------------
(* Multiplying and dividing.                                                  *)

LEMMA HiLoResult ==
  ASSUME x \in Word, y \in Word, NEW h, NEW l
  PROVE  Result(SetHiLo(Operands, h, l)) =
           [err |-> Success, d |-> 0, hi |-> ToWord(h), lo |-> ToWord(l)]
<1>1. Operands \in mips_cpu_impl /\ Operands.regs[3] = 0
  BY OperandsType
<1> QED BY <1>1 DEF Result, SetHiLo, Return, mips_cpu_impl

LEMMA MultDivStep ==
  ASSUME x \in Word, y \in Word, NEW fn \in \h18 .. \h1b, ExecuteR(fn)
  PROVE  /\ op' = [format |-> "R", code |-> fn]
         /\ x' = x /\ y' = y
         /\ out' = Result(mult_div(1, 2, fn, Operands))
         /\ Operands.regs[1] = x /\ Operands.regs[2] = y
<1> DEFINE ins == [opcode |-> 0, fn |-> fn, i |-> 0, j |-> 0, s |-> 1, t |-> 2,
                   d |-> 0, sh |-> 0]
<1>1. /\ op' = [format |-> "R", code |-> fn]
      /\ x' = x /\ y' = y
      /\ out' = Result(cpu_execute_r(ins, Operands))
  BY DEF ExecuteR
<1>2. cpu_execute_r(ins, Operands) = mult_div(1, 2, fn, Operands)
  BY DEF cpu_execute_r, Reserved
<1> QED BY <1>1, <1>2, OperandsType

(* The half of a signed product that goes to HI fits there.                   *)
LEMMA HighHalf ==
  ASSUME NEW a \in MinInt .. MaxInt, NEW b \in MinInt .. MaxInt
  PROVE  (a * b) \div WordSize \in MinInt .. MaxInt
<1>1. PICK h \in Nat \ {0} : WordSize = 2 * h /\ MinInt = -h /\ MaxInt = h - 1
  BY HalfWord
<1> DEFINE p == a * b
           q == p \div WordSize
           r == p % WordSize
<1>2. a \in Int /\ b \in Int /\ Magnitude(a) \in 0 .. h /\ Magnitude(b) \in 0 .. h
  BY <1>1 DEF Magnitude
<1>3. p \in Int /\ p <= h * h /\ p >= -(h * h)
  <2>1. a \in -h .. h /\ b \in -h .. h
    BY <1>1
  <2>2. /\ (h - a) * (h - b) >= 0 /\ (h + a) * (h + b) >= 0
        /\ (h - a) * (h + b) >= 0 /\ (h + a) * (h - b) >= 0
    BY <1>1, <2>1
  <2>3. /\ (h - a) * (h - b) = h * h - h * a - h * b + p
        /\ (h + a) * (h + b) = h * h + h * a + h * b + p
        /\ (h - a) * (h + b) = h * h - h * a + h * b - p
        /\ (h + a) * (h - b) = h * h + h * a - h * b - p
    BY <1>1, <2>1
  <2> HIDE DEF p
  <2>4. p \in Int /\ h * h \in Int /\ h * a \in Int /\ h * b \in Int
    BY <1>1, <1>2 DEF p
  <2> QED BY <2>2, <2>3, <2>4
<1> HIDE DEF p
<1>4. q \in Int /\ r \in 0 .. WordSize - 1 /\ p = q * WordSize + r
  <2>1. WordSize \in Nat \ {0}
    BY <1>1
  <2> QED BY <1>3, <2>1, DivModOf
<1> HIDE DEF q, r
<1>5. h * h \in Nat \ {0} /\ q * WordSize = 2 * (q * h)
  BY <1>1, <1>4
<1>6. q < h
  <2> SUFFICES ASSUME q >= h PROVE FALSE
    BY <1>1, <1>4
  <2>1. q * h >= h * h
    BY <1>1, <1>4
  <2> QED BY <1>1, <1>3, <1>4, <1>5, <2>1
<1>7. q >= -h
  <2> SUFFICES ASSUME q + 1 <= -h PROVE FALSE
    BY <1>1, <1>4
  <2>1. (q + 1) * h <= -(h * h)
    BY <1>1, <1>4
  <2>2. (q + 1) * h = q * h + h /\ q * h \in Int
    BY <1>1, <1>4
  <2> QED BY <1>1, <1>3, <1>4, <1>5, <2>1, <2>2
<1> QED BY <1>1, <1>4, <1>6, <1>7 DEF q, p

LEMMA HighHalfUnsigned ==
  ASSUME NEW a \in Word, NEW b \in Word
  PROVE  (a * b) \div WordSize \in Word
<1> DEFINE p == a * b
           q == p \div WordSize
           r == p % WordSize
<1>1. a \in Int /\ b \in Int /\ a >= 0 /\ b >= 0 /\ a < WordSize /\ b < WordSize
  BY WordIsInt
<1>2. WordSize \in Nat \ {0}
  BY SizeFacts
<1>3. p \in Nat /\ p <= a * WordSize
  BY <1>1, <1>2
<1> HIDE DEF p
<1>4. q \in Int /\ r \in 0 .. WordSize - 1 /\ p = q * WordSize + r
  BY <1>2, <1>3, DivModOf
<1> HIDE DEF q, r
<1>5. q >= 0
  <2> SUFFICES ASSUME q <= -1 PROVE FALSE
    BY <1>4
  <2>1. q * WordSize <= -WordSize
    BY <1>2, <1>4
  <2> QED BY <1>2, <1>3, <1>4, <2>1
<1>6. q <= a
  <2> SUFFICES ASSUME q - a >= 1 PROVE FALSE
    BY <1>1, <1>4
  <2>1. (q - a) * WordSize >= WordSize
    BY <1>1, <1>2, <1>4
  <2>2. (q - a) * WordSize = q * WordSize - a * WordSize
    BY <1>1, <1>2, <1>4
  <2>3. q * WordSize \in Int /\ a * WordSize \in Int
    BY <1>1, <1>2, <1>4
  <2> QED BY <1>2, <1>3, <1>4, <2>1, <2>2, <2>3
<1>7. q \in 0 .. WordSize - 1
  BY <1>1, <1>2, <1>4, <1>5, <1>6
<1> QED BY <1>7 DEF q, p, Word

LEMMA ToWordOfWord == ASSUME NEW v \in Word PROVE ToWord(v) = v
<1>1. v \in 0 .. WordSize - 1 /\ WordSize \in Nat \ {0}
  BY SizeFacts DEF Word
<1>2. v % WordSize = v
  BY <1>1
<1> QED BY <1>2 DEF ToWord

LEMMA ProductStep ==
  ASSUME x \in Word, y \in Word, NEW fn \in {\h18, \h19}, ExecuteR(fn)
  PROVE  ProductIsExact'
<1> DEFINE p == IF fn = \h18 THEN Signed(x) * Signed(y) ELSE x * y
<1>1. /\ op' = [format |-> "R", code |-> fn]
      /\ x' = x /\ y' = y
      /\ out' = Result(mult_div(1, 2, fn, Operands))
      /\ Operands.regs[1] = x /\ Operands.regs[2] = y
  BY MultDivStep
<1>2. mult_div(1, 2, fn, Operands) = SetHiLo(Operands, p \div WordSize, p)
  BY <1>1 DEF mult_div
<1>3. X' = Signed(x) /\ Y' = Signed(y)
  BY <1>1, ValueOfWord DEF X, Y
<1>4. p \in Int
  BY WordIsInt, SignedType
<1>5. /\ fn = \h18 => p \div WordSize \in MinInt .. MaxInt
      /\ fn = \h19 => p \div WordSize \in Word
  BY SignedRange, HighHalf, HighHalfUnsigned
<1>6. /\ fn = \h18 => p = X' * Y'
      /\ fn = \h19 => p = x' * y'
  BY <1>1, <1>3
<1> HIDE DEF p
<1>7. out'.hi = ToWord(p \div WordSize) /\ out'.lo = p % WordSize
  BY <1>1, <1>2, HiLoResult DEF ToWord
<1>8. p = (p \div WordSize) * WordSize + (p % WordSize)
  <2>1. WordSize \in Nat \ {0}
    BY SizeFacts
  <2> QED BY <1>4, <2>1, DivModOf
<1>9. CASE fn = \h18
  <2>1. Value(out'.hi, WordSize) = p \div WordSize
    BY <1>5, <1>7, <1>9, WordOfInteger
  <2> QED BY <1>1, <1>6, <1>7, <1>8, <1>9, <2>1 DEF ProductIsExact, Executed
<1>10. CASE fn = \h19
  <2>1. out'.hi = p \div WordSize
    BY <1>5, <1>7, <1>10, ToWordOfWord
  <2> QED BY <1>1, <1>6, <1>7, <1>8, <1>10, <2>1 DEF ProductIsExact, Executed
<1> QED BY <1>9, <1>10

(* But for MinInt / -1 the quotient and the remainder fit in a word.          *)
LEMMA QuotientFits ==
  ASSUME NEW a \in MinInt .. MaxInt, NEW b \in MinInt .. MaxInt, b # 0,
         ~(a = MinInt /\ b = -1)
  PROVE  Quotient(a, b) \in MinInt .. MaxInt /\ Remainder(a, b) \in MinInt .. MaxInt
<1>1. PICK h \in Nat \ {0} : WordSize = 2 * h /\ MinInt = -h /\ MaxInt = h - 1
  BY HalfWord
<1> DEFINE q == Quotient(a, b)
           r == Remainder(a, b)
<1>2. /\ q \in Int /\ r \in Int
      /\ Magnitude(r) < Magnitude(b)
      /\ Magnitude(q) <= Magnitude(a)
      /\ Magnitude(q) = Magnitude(a) => a = 0 \/ Magnitude(b) = 1
      /\ a \in -h .. h - 1 /\ b \in -h .. h - 1
  <2>1. a \in Int /\ b \in Int \ {0}
    BY <1>1
  <2> QED BY <1>1, <2>1, QuotientExact
<1>3. q > 0 => (a < 0) = (b < 0)
  <2>1. Magnitude(a) \div Magnitude(b) >= 0
    BY <1>2 DEF Magnitude
  <2>2. Magnitude(a) \div Magnitude(b) \in Int
    BY <1>2 DEF Magnitude
  <2> QED BY <2>1, <2>2 DEF Quotient
<1> HIDE DEF q, r
<1>4. r \in -h .. h - 1
  BY <1>2 DEF Magnitude
<1>5. q \in -h .. h - 1
  <2>1. q \in -h .. h
    BY <1>2 DEF Magnitude
  <2>2. ASSUME q = h PROVE FALSE
    <3>1. Magnitude(a) = h /\ Magnitude(q) = h
      BY <1>2, <2>2 DEF Magnitude
    <3>2. a = -h
      BY <1>2, <3>1 DEF Magnitude
    <3>3. b = -1
      BY <1>2, <1>3, <2>2, <3>1, <3>2 DEF Magnitude
    <3> QED BY <1>1, <3>2, <3>3
  <2> QED BY <2>1, <2>2
<1> QED BY <1>1, <1>4, <1>5 DEF q, r

(* ... and only that quotient is too large.                                   *)
LEMMA QuotientTooLarge ==
  ASSUME NEW a \in MinInt .. MaxInt, NEW b \in MinInt .. MaxInt, b # 0
  PROVE  (a < 0) = (b < 0) /\ Magnitude(a) \div Magnitude(b) > MaxInt
           <=> a = MinInt /\ b = -1
<1>1. PICK h \in Nat \ {0} : WordSize = 2 * h /\ MinInt = -h /\ MaxInt = h - 1
  BY HalfWord
<1>2. ASSUME a = MinInt, b = -1
      PROVE  (a < 0) = (b < 0) /\ Magnitude(a) \div Magnitude(b) > MaxInt
  <2>1. Magnitude(a) = h /\ Magnitude(b) = 1 /\ a < 0 /\ b < 0
    <3>1. a = -h /\ b = -1 /\ h \in Int /\ h > 0
      BY <1>1, <1>2
    <3>2. \A n \in Int : n < 0 => Magnitude(n) = 0 - n
      BY DEF Magnitude
    <3> QED BY <3>1, <3>2
  <2>2. h \div 1 = h
    <3>1. h % 1 \in 0 .. 0 /\ h \div 1 \in Int /\ h = (h \div 1) * 1 + (h % 1)
      BY DivModOf
    <3> QED BY <3>1
  <2> QED BY <1>1, <2>1, <2>2
<1>3. ASSUME (a < 0) = (b < 0), Magnitude(a) \div Magnitude(b) > MaxInt, ~(a = MinInt /\ b = -1)
      PROVE  FALSE
  <2>1. Quotient(a, b) = Magnitude(a) \div Magnitude(b)
    BY <1>3 DEF Quotient
  <2>2. Quotient(a, b) \in MinInt .. MaxInt
    BY <1>3, QuotientFits
  <2> DEFINE q == Magnitude(a) \div Magnitude(b)
  <2>3. q \in MinInt .. MaxInt /\ q > MaxInt
    BY <1>3, <2>1, <2>2
  <2> HIDE DEF q
  <2> QED BY <1>1, <2>3
<1> DEFINE Large == (a < 0) = (b < 0) /\ Magnitude(a) \div Magnitude(b) > MaxInt
<1>4. a = MinInt /\ b = -1 => Large
  BY <1>2
<1>5. Large => a = MinInt /\ b = -1
  BY <1>3
<1> HIDE DEF Large
<1>6. Large <=> a = MinInt /\ b = -1
  BY <1>4, <1>5
<1> QED BY <1>6 DEF Large

LEMMA SignedDivisionStep ==
  ASSUME x \in Word, y \in Word, y # 0, ExecuteR(\h1a),
         ~(Signed(x) = MinInt /\ Signed(y) = -1)
  PROVE  LET q == Value(out'.lo, WordSize)
             r == Value(out'.hi, WordSize)
         IN  /\ out'.err = Success
             /\ q = Quotient(Signed(x), Signed(y)) /\ r = Remainder(Signed(x), Signed(y))
<1>1. /\ out' = Result(mult_div(1, 2, \h1a, Operands))
      /\ Operands.regs[1] = x /\ Operands.regs[2] = y
  BY MultDivStep
<1>3. mult_div(1, 2, \h1a, Operands) =
        SetHiLo(Operands, Remainder(Signed(x), Signed(y)), Quotient(Signed(x), Signed(y)))
  BY <1>1 DEF mult_div
<1>4. /\ out'.err = Success
      /\ out'.hi = ToWord(Remainder(Signed(x), Signed(y)))
      /\ out'.lo = ToWord(Quotient(Signed(x), Signed(y)))
  BY <1>1, <1>3, HiLoResult
<1>5. Signed(x) \in MinInt .. MaxInt /\ Signed(y) \in MinInt .. MaxInt /\ Signed(y) # 0
  BY SignedRange, SizeFacts DEF Signed, IsNegative, Word
<1>6. /\ Quotient(Signed(x), Signed(y)) \in MinInt .. MaxInt
      /\ Remainder(Signed(x), Signed(y)) \in MinInt .. MaxInt
  BY <1>5, QuotientFits
<1> QED BY <1>4, <1>6, WordOfInteger

LEMMA DivisionStep ==
  ASSUME x \in Word, y \in Word, NEW fn \in {\h1a, \h1b}, ExecuteR(fn)
  PROVE  DivisionIsExact'
<1>1. /\ op' = [format |-> "R", code |-> fn]
      /\ x' = x /\ y' = y
      /\ out' = Result(mult_div(1, 2, fn, Operands))
      /\ Operands.regs[1] = x /\ Operands.regs[2] = y
  BY MultDivStep
<1>2. X' = Signed(x) /\ Y' = Signed(y)
  BY <1>1, ValueOfWord DEF X, Y
<1>3. Signed(x) \in Int /\ Signed(y) \in Int /\ (Signed(y) = 0 <=> y = 0)
  BY SignedType, SizeFacts DEF Signed, IsNegative, Word
<1>4. ASSUME y = 0
      PROVE  out' = [err |-> Success, d |-> 0, hi |-> 0, lo |-> 0]
  <2>1. mult_div(1, 2, fn, Operands) = Return(Operands, Success)
    BY <1>1, <1>4 DEF mult_div
  <2> QED BY <1>1, <2>1, ResultOf
<1>9. y # 0 => (TooLarge' <=> Signed(x) = MinInt /\ Signed(y) = -1)
  <2>1. Signed(x) \in MinInt .. MaxInt /\ Signed(y) \in MinInt .. MaxInt
    BY SignedRange
  <2> QED BY <1>2, <1>3, <2>1, QuotientTooLarge DEF TooLarge
<1>5. ASSUME fn = \h1a, y # 0, ~TooLarge'
      PROVE  LET q == Value(out'.lo, WordSize)
                 r == Value(out'.hi, WordSize)
             IN  /\ out'.err = Success
                 /\ q * Y' + r = X'
                 /\ Magnitude(r) < Magnitude(Y')
                 /\ r = 0 \/ (r < 0) = (X' < 0)
  <2>1. /\ out'.err = Success
        /\ Value(out'.lo, WordSize) = Quotient(X', Y')
        /\ Value(out'.hi, WordSize) = Remainder(X', Y')
    BY <1>2, <1>9, <1>5, SignedDivisionStep
  <2>2. X' \in Int /\ Y' \in Int \ {0}
    BY <1>2, <1>3, <1>5
  <2> QED BY <2>1, <2>2, QuotientExact
<1>10. ASSUME fn = \h1a, y # 0, TooLarge'
       PROVE  out'.err = Killed
  <2>1. mult_div(1, 2, \h1a, Operands) = Return(Operands, Killed)
    BY <1>1, <1>9, <1>10 DEF mult_div
  <2> QED BY <1>1, <1>10, <2>1, ResultOf
<1>6. ASSUME fn = \h1b, y # 0
      PROVE  out'.err = Success /\ out'.lo * y + out'.hi = x /\ out'.hi < y
  <2>1. mult_div(1, 2, fn, Operands) = SetHiLo(Operands, x % y, x \div y)
    BY <1>1, <1>6 DEF mult_div
  <2>2. out'.err = Success /\ out'.hi = ToWord(x % y) /\ out'.lo = ToWord(x \div y)
    BY <1>1, <2>1, HiLoResult
  <2>3. y \in Nat \ {0} /\ x \in Nat /\ x < WordSize /\ y < WordSize
    BY <1>6, WordIsInt
  <2>4. x % y \in 0 .. y - 1 /\ x \div y \in Int /\ x = (x \div y) * y + (x % y)
    <3>1. x \in Int
      BY <2>3
    <3> QED BY <2>3, <3>1, DivModOf
  <2>5. x \div y >= 0
    BY <2>3
  <2>6. x \div y <= x
    <3>1. (x \div y) * y >= x \div y
      BY <2>3, <2>4, <2>5
    <3> QED BY <2>3, <2>4, <3>1
  <2>7. x % y \in Word /\ x \div y \in Word
    BY <2>3, <2>4, <2>5, <2>6, SizeFacts DEF Word
  <2>8. out'.hi = x % y /\ out'.lo = x \div y
    BY <2>2, <2>7, ToWordOfWord
  <2> DEFINE r == x % y
             q == x \div y
  <2>9. q * y + r = x /\ r < y /\ out'.hi = r /\ out'.lo = q
    BY <2>3, <2>4, <2>8
  <2> HIDE DEF q, r
  <2> QED BY <2>2, <2>9
<1>7. CASE fn = \h1a
  <2>1. Executed("R", {\h1a})' /\ ~Executed("R", {\h1b})'
    BY <1>1, <1>7 DEF Executed
  <2>2. Y' # 0 <=> y # 0
    BY <1>2, <1>3
  <2> QED BY <1>1, <1>4, <1>5, <1>10, <1>7, <2>1, <2>2 DEF DivisionIsExact
<1>8. CASE fn = \h1b
  <2>1. Executed("R", {\h1b})' /\ ~Executed("R", {\h1a})'
    BY <1>1, <1>8 DEF Executed
  <2> QED BY <1>1, <1>4, <1>6, <1>8, <2>1 DEF DivisionIsExact
<1> QED BY <1>7, <1>8

----------------------------------------------------------------------------
(* Bits.                                                                      *)

LEMMA BitwiseResult ==
  ASSUME x \in Word, y \in Word, NEW fn \in \h24 .. \h27, ExecuteR(fn)
  PROVE  /\ op' = [format |-> "R", code |-> fn]
         /\ x' = x /\ y' = y
         /\ fn = \h24 => out'.d = AndWord(x, y)
         /\ fn = \h25 => out'.d = OrWord(x, y)
         /\ fn = \h26 => out'.d = XorWord(x, y)
         /\ fn = \h27 => out'.d = NotWord(OrWord(x, y))
<1> DEFINE ins == [opcode |-> 0, fn |-> fn, i |-> 0, j |-> 0, s |-> 1, t |-> 2,
                   d |-> 3, sh |-> 0]
<1>1. /\ op' = [format |-> "R", code |-> fn]
      /\ x' = x /\ y' = y
      /\ out' = Result(cpu_execute_r(ins, Operands))
  BY DEF ExecuteR
<1>2. cpu_execute_r(ins, Operands) = add_sub_bitwise(1, 2, 3, fn, Operands)
  BY DEF cpu_execute_r, Reserved
<1>3. Operands.regs[1] = x /\ Operands.regs[2] = y
  BY OperandsType
<1> HIDE DEF ins
<1>4. CASE fn = \h24
  <2>1. add_sub_bitwise(1, 2, 3, fn, Operands) =
          Return(SetReg(Operands, 3, AndWord(x, y)), Success)
    BY <1>3, <1>4 DEF add_sub_bitwise
  <2> QED BY <1>1, <1>2, <1>4, <2>1, ResultOf
<1>5. CASE fn = \h25
  <2>1. add_sub_bitwise(1, 2, 3, fn, Operands) =
          Return(SetReg(Operands, 3, OrWord(x, y)), Success)
    BY <1>3, <1>5 DEF add_sub_bitwise
  <2> QED BY <1>1, <1>2, <1>5, <2>1, ResultOf
<1>6. CASE fn = \h26
  <2>1. add_sub_bitwise(1, 2, 3, fn, Operands) =
          Return(SetReg(Operands, 3, XorWord(x, y)), Success)
    BY <1>3, <1>6 DEF add_sub_bitwise
  <2> QED BY <1>1, <1>2, <1>6, <2>1, ResultOf
<1>7. CASE fn = \h27
  <2>1. add_sub_bitwise(1, 2, 3, fn, Operands) =
          Return(SetReg(Operands, 3, NotWord(OrWord(x, y))), Success)
    BY <1>3, <1>7 DEF add_sub_bitwise
  <2> QED BY <1>1, <1>2, <1>7, <2>1, ResultOf
<1> QED BY <1>1, <1>4, <1>5, <1>6, <1>7

LEMMA BitwiseImmediateResult ==
  ASSUME x \in Word, y \in Word, NEW opcode \in \hc .. \hf, ExecuteI(opcode)
  PROVE  LET z == y % HalfSize
         IN  /\ op' = [format |-> "I", code |-> opcode]
             /\ x' = x /\ y' = y
             /\ opcode = \hc => out'.d = AndWord(x, z)
             /\ opcode = \hd => out'.d = OrWord(x, z)
             /\ opcode = \he => out'.d = XorWord(x, z)
             /\ opcode = \hf => out'.d = z * HalfSize
<1> DEFINE z == y % HalfSize
<1>1. /\ op' = [format |-> "I", code |-> opcode]
      /\ x' = x /\ y' = y
      /\ out' = Result(cpu_execute_immediate(1, 3, z, opcode, Operands))
  BY DEF ExecuteI
<1>2. Operands.regs[1] = x
  BY OperandsType
<1> HIDE DEF z
<1>3. CASE opcode = \hc
  <2>1. cpu_execute_immediate(1, 3, z, opcode, Operands) =
          Return(SetReg(Operands, 3, AndWord(x, z)), Success)
    BY <1>2, <1>3 DEF cpu_execute_immediate
  <2> QED BY <1>1, <1>3, <2>1, ResultOf DEF z
<1>4. CASE opcode = \hd
  <2>1. cpu_execute_immediate(1, 3, z, opcode, Operands) =
          Return(SetReg(Operands, 3, OrWord(x, z)), Success)
    BY <1>2, <1>4 DEF cpu_execute_immediate
  <2> QED BY <1>1, <1>4, <2>1, ResultOf DEF z
<1>5. CASE opcode = \he
  <2>1. cpu_execute_immediate(1, 3, z, opcode, Operands) =
          Return(SetReg(Operands, 3, XorWord(x, z)), Success)
    BY <1>2, <1>5 DEF cpu_execute_immediate
  <2> QED BY <1>1, <1>5, <2>1, ResultOf DEF z
<1>6. CASE opcode = \hf
  <2>1. cpu_execute_immediate(1, 3, z, opcode, Operands) =
          Return(SetReg(Operands, 3, z * HalfSize), Success)
    BY <1>2, <1>6 DEF cpu_execute_immediate
  <2> QED BY <1>1, <1>6, <2>1, ResultOf DEF z
<1> QED BY <1>1, <1>3, <1>4, <1>5, <1>6 DEF z

LEMMA NorBits ==
  ASSUME NEW a \in Word, NEW b \in Word, NEW k \in 0 .. WordBits - 1
  PROVE  Bit(NotWord(OrWord(a, b)), k) = 1 - OrBit(Bit(a, k), Bit(b, k))
<1>1. OrWord(a, b) \in Word
  BY BitwiseType
<1> QED BY <1>1, BitwiseBits, NotBits

LEMMA BitwiseStep ==
  ASSUME x \in Word, y \in Word
  PROVE  /\ \A fn \in \h24 .. \h27 : ExecuteR(fn) => BitwiseIsExact'
         /\ \A opcode \in \hc .. \hf : ExecuteI(opcode) => BitwiseIsExact'
<1>1. ASSUME NEW fn \in \h24 .. \h27, ExecuteR(fn)
      PROVE  BitwiseIsExact'
  <2>1. /\ op' = [format |-> "R", code |-> fn]
        /\ x' = x /\ y' = y
        /\ fn = \h24 => out'.d = AndWord(x, y)
        /\ fn = \h25 => out'.d = OrWord(x, y)
        /\ fn = \h26 => out'.d = XorWord(x, y)
        /\ fn = \h27 => out'.d = NotWord(OrWord(x, y))
    BY <1>1, BitwiseResult
  <2>2. \A k \in 0 .. WordBits - 1 :
          /\ fn = \h24 => Bit(out'.d, k) = AndBit(Bit(x, k), Bit(y, k))
          /\ fn = \h25 => Bit(out'.d, k) = OrBit(Bit(x, k), Bit(y, k))
          /\ fn = \h26 => Bit(out'.d, k) = XorBit(Bit(x, k), Bit(y, k))
          /\ fn = \h27 => Bit(out'.d, k) = 1 - OrBit(Bit(x, k), Bit(y, k))
    BY <2>1, BitwiseBits, NorBits
  <2> QED BY <2>1, <2>2 DEF BitwiseIsExact, Executed
<1>2. ASSUME NEW opcode \in \hc .. \hf, ExecuteI(opcode)
      PROVE  BitwiseIsExact'
  <2> DEFINE z == y % HalfSize
  <2>1. /\ op' = [format |-> "I", code |-> opcode]
        /\ x' = x /\ y' = y
        /\ opcode = \hc => out'.d = AndWord(x, z)
        /\ opcode = \hd => out'.d = OrWord(x, z)
        /\ opcode = \he => out'.d = XorWord(x, z)
        /\ opcode = \hf => out'.d = z * HalfSize
    BY <1>2, BitwiseImmediateResult
  <2>2. z \in Half /\ z \in Word
    BY SizeFacts, HalfIsWord DEF Half, Word
  <2>3. z' = z
    BY <2>1
  <2> HIDE DEF z
  <2>4. \A k \in 0 .. WordBits - 1 :
          /\ opcode = \hc => Bit(out'.d, k) = AndBit(Bit(x, k), Bit(z, k))
          /\ opcode = \hd => Bit(out'.d, k) = OrBit(Bit(x, k), Bit(z, k))
          /\ opcode = \he => Bit(out'.d, k) = XorBit(Bit(x, k), Bit(z, k))
    BY <2>1, <2>2, BitwiseBits
  <2>5. opcode = \hf => out'.d \div HalfSize = z /\ out'.d % HalfSize = 0
    <3> SUFFICES ASSUME opcode = \hf
                 PROVE  out'.d \div HalfSize = z /\ out'.d % HalfSize = 0
      OBVIOUS
    <3>1. HalfSize \in Nat \ {0} /\ z \in Int /\ 0 \in 0 .. HalfSize - 1
      BY <2>2, SizeFacts DEF Half
    <3>2. (z * HalfSize + 0) \div HalfSize = z /\ (z * HalfSize + 0) % HalfSize = 0
      BY <3>1, DivMod
    <3>3. z * HalfSize + 0 = z * HalfSize
      BY <3>1
    <3> QED BY <2>1, <3>2, <3>3
  <2>6. (IF op'.format = "I" THEN y' % HalfSize ELSE y') = z
    BY <2>1 DEF z
  <2> QED BY <2>1, <2>4, <2>5, <2>6 DEF BitwiseIsExact, Executed
<1> QED BY <1>1, <1>2

----------------------------------------------------------------------------
(* The operands stay what they were; every property of the result is          *)
(* established by the one step there is.                                      *)
Exact ==
  /\ AddIsExact /\ SubIsExact /\ ProductIsExact /\ DivisionIsExact
  /\ ShiftIsExact /\ CompareIsExact /\ BitwiseIsExact

AluInv == x \in Word /\ y \in Word /\ Exact

(* The other instructions say nothing of the results of these.                *)
LEMMA OtherR ==
  ASSUME NEW fn, op' = [format |-> "R", code |-> fn]
  PROVE  /\ fn \notin {\h20, \h21} => AddIsExact'
         /\ fn \notin {\h22, \h23} => SubIsExact'
         /\ fn \notin {\h18, \h19} => ProductIsExact'
         /\ fn \notin {\h1a, \h1b} => DivisionIsExact'
         /\ fn \notin {\h0, \h2, \h3, \h4, \h6, \h7} => ShiftIsExact'
         /\ fn \notin {\h2a, \h2b} => CompareIsExact'
         /\ fn \notin \h24 .. \h27 => BitwiseIsExact'
<1>1. op'.format = "R" /\ op'.code = fn /\ "R" # "I"
  OBVIOUS
<1> QED BY <1>1 DEF AddIsExact, SubIsExact, ProductIsExact, DivisionIsExact, ShiftIsExact,
                    CompareIsExact, BitwiseIsExact, Executed

LEMMA OtherI ==
  ASSUME NEW opcode, op' = [format |-> "I", code |-> opcode]
  PROVE  /\ opcode \notin {\h8, \h9} => AddIsExact'
         /\ opcode \notin {\ha, \hb} => CompareIsExact'
         /\ opcode \notin \hc .. \hf => BitwiseIsExact'
         /\ SubIsExact' /\ ProductIsExact' /\ DivisionIsExact' /\ ShiftIsExact'
<1>1. op'.format = "I" /\ op'.code = opcode /\ "R" # "I"
  OBVIOUS
<1> QED BY <1>1 DEF AddIsExact, SubIsExact, ProductIsExact, DivisionIsExact, ShiftIsExact,
                    CompareIsExact, BitwiseIsExact, Executed

LEMMA InitAluInv == Init => AluInv
<1> SUFFICES ASSUME Init PROVE AluInv
  OBVIOUS
<1>1. \A format \in {"R", "I"} : \A codes : ~Executed(format, codes)
  BY DEF Init, Idle, Executed
<1>2. Exact
  BY <1>1 DEF Exact, AddIsExact, SubIsExact, ProductIsExact, DivisionIsExact,
              ShiftIsExact, CompareIsExact, BitwiseIsExact
<1> QED BY <1>2, OperandAssumption DEF Init, AluInv

LEMMA RStep ==
  ASSUME x \in Word, y \in Word, NEW fn \in RFunctions, ExecuteR(fn)
  PROVE  Exact'
<1>1. op' = [format |-> "R", code |-> fn]
  BY DEF ExecuteR
<1>2. AddIsExact'
  BY <1>1, AddStep, OtherR
<1>3. SubIsExact'
  BY <1>1, SubStep, OtherR
<1>4. ProductIsExact'
  BY <1>1, ProductStep, OtherR
<1>5. DivisionIsExact'
  BY <1>1, DivisionStep, OtherR
<1>6. ShiftIsExact'
  BY <1>1, ShiftStep, OtherR
<1>7. CompareIsExact'
  BY <1>1, CompareStep, OtherR
<1>8. BitwiseIsExact'
  BY <1>1, BitwiseStep, OtherR
<1> QED BY <1>2, <1>3, <1>4, <1>5, <1>6, <1>7, <1>8 DEF Exact

LEMMA IStep ==
  ASSUME x \in Word, y \in Word, NEW opcode \in IOpcodes, ExecuteI(opcode)
  PROVE  Exact'
<1>1. op' = [format |-> "I", code |-> opcode]
  BY DEF ExecuteI
<1>2. AddIsExact'
  BY <1>1, AddiStep, OtherI
<1>3. CompareIsExact'
  BY <1>1, CompareStep, OtherI
<1>4. BitwiseIsExact'
  BY <1>1, BitwiseStep, OtherI
<1>5. SubIsExact' /\ ProductIsExact' /\ DivisionIsExact' /\ ShiftIsExact'
  BY <1>1, OtherI
<1> QED BY <1>2, <1>3, <1>4, <1>5 DEF Exact

LEMMA NextAluInv == AluInv /\ [Next]_vars => AluInv'
<1> SUFFICES ASSUME AluInv, [Next]_vars PROVE AluInv'
  OBVIOUS
<1>0. x \in Word /\ y \in Word
  BY DEF AluInv
<1>1. ASSUME NEW fn \in RFunctions, ExecuteR(fn)
      PROVE  AluInv'
  <2>1. x' = x /\ y' = y
    BY <1>1 DEF ExecuteR
  <2>2. Exact'
    BY <1>0, <1>1, RStep
  <2> QED BY <1>0, <2>1, <2>2 DEF AluInv
<1>2. ASSUME NEW opcode \in IOpcodes, ExecuteI(opcode)
      PROVE  AluInv'
  <2>1. x' = x /\ y' = y
    BY <1>2 DEF ExecuteI
  <2>2. Exact'
    BY <1>0, <1>2, IStep
  <2> QED BY <1>0, <2>1, <2>2 DEF AluInv
<1>3. CASE UNCHANGED vars
  <2>1. UNCHANGED << x, y, op, out >>
    BY <1>3 DEF vars
  <2>2. AddIsExact' /\ SubIsExact'
    BY <2>1 DEF AluInv, Exact, AddIsExact, SubIsExact, Executed, IsOrTraps, Fits, X, Y, D
  <2>3. ProductIsExact'
    BY <2>1 DEF AluInv, Exact, ProductIsExact, Executed, X, Y
  <2>4. DivisionIsExact'
    BY <2>1 DEF AluInv, Exact, DivisionIsExact, TooLarge, Executed, X, Y
  <2>5. ShiftIsExact' /\ CompareIsExact'
    BY <2>1 DEF AluInv, Exact, ShiftIsExact, CompareIsExact, Executed, X, Y, D
  <2>6. BitwiseIsExact'
    BY <2>1 DEF AluInv, Exact, BitwiseIsExact, Executed
  <2> QED BY <2>1, <2>2, <2>3, <2>4, <2>5, <2>6 DEF AluInv, Exact
<1> QED BY <1>1, <1>2, <1>3 DEF Next

LEMMA AluInvariance == Spec => []AluInv
BY InitAluInv, NextAluInv, PTL DEF Spec

(* ADD and ADDI trap exactly on the sums that do not fit, and otherwise yield *)
(* them; ADDU and ADDIU yield them modulo the width.                          *)
THEOREM AddCorrect == Spec => []AddIsExact
<1>1. AluInv => AddIsExact
  BY DEF AluInv, Exact
<1> QED BY <1>1, AluInvariance, PTL

(* SUB does the same for differences, for every subtrahend that has a         *)
(* negation, and SUBU for every subtrahend.                                   *)
THEOREM SubCorrect == Spec => []SubIsExact
<1>1. AluInv => SubIsExact
  BY DEF AluInv, Exact
<1> QED BY <1>1, AluInvariance, PTL

(* MULT and MULTU leave the whole product of any two words in HI and LO.      *)
THEOREM ProductCorrect == Spec => []ProductIsExact
<1>1. AluInv => ProductIsExact
  BY DEF AluInv, Exact
<1> QED BY <1>1, AluInvariance, PTL

(* DIV and DIVU leave the quotient that is rounded towards zero and its       *)
(* remainder, whenever they return, and nothing when the divisor is zero.     *)
THEOREM DivisionCorrect == Spec => []DivisionIsExact
<1>1. AluInv => DivisionIsExact
  BY DEF AluInv, Exact
<1> QED BY <1>1, AluInvariance, PTL

(* Every shift, immediate or variable, multiplies or divides by a power of    *)
(* two; the arithmetic ones round down for negative numbers too.              *)
THEOREM ShiftCorrect == Spec => []ShiftIsExact
<1>1. AluInv => ShiftIsExact
  BY DEF AluInv, Exact
<1> QED BY <1>1, AluInvariance, PTL

(* The set-less-than instructions compare as their names say; SLTIU does so   *)
(* without a sign after extending its immediate with one.                     *)
THEOREM CompareCorrect == Spec => []CompareIsExact
<1>1. AluInv => CompareIsExact
  BY DEF AluInv, Exact
<1> QED BY <1>1, AluInvariance, PTL

(* AND, OR, XOR and NOR are right in every bit of a word, from what &, | and  *)
(* ^ do to the bits of a byte; LUI moves its immediate to the upper half.     *)
THEOREM BitwiseCorrect == Spec => []BitwiseIsExact
<1>1. AluInv => BitwiseIsExact
  BY DEF AluInv, Exact
<1> QED BY <1>1, AluInvariance, PTL
=============================================================================
