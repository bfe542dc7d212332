------------------------------ MODULE MipsAlu ------------------------------
(* The arithmetic of single instructions against the integers they stand for. *)
(* Each behaviour picks two operands and executes one instruction on them,    *)
(* through the same functions as mips_cpu_step; the properties read the       *)
(* operands and results as mathematical integers, with no wrapping, casts or  *)
(* sign bits, and compare.                                                    *)
EXTENDS MipsExec

CONSTANTS Xs, Ys                   \* operands to try

ASSUME OperandAssumption == Xs \subseteq Word /\ Ys \subseteq Word

VARIABLES x, y, op, out

vars == << x, y, op, out >>

Idle == [format |-> "none", code |-> 0]
RFunctions == {\h0, \h2, \h3, \h4, \h6, \h7} \cup \h18 .. \h1b \cup \h20 .. \h27 \cup \h2a .. \h2b
IOpcodes == \h8 .. \hf

(* A CPU with the operands in $1 and $2 and nothing in $3, HI and LO.         *)
Operands ==
  [pc |-> 0, nPC |-> 4, jPC |-> 0, delay_slot |-> 0,
   regs |-> [r \in Reg |-> CASE r = 1 -> x [] r = 2 -> y [] OTHER -> 0],
   hi |-> 0, lo |-> 0, mem |-> NULL]

Init ==
  /\ x \in Xs
  /\ y \in Ys
  /\ op = Idle
  /\ out = [err |-> Success, d |-> 0, hi |-> 0, lo |-> 0]

Result(r) == [err |-> r.err, d |-> r.state.regs[3], hi |-> r.state.hi, lo |-> r.state.lo]

(* fn $3, $1, $2; fn $1, $2 for MULT and DIV; fn $3, $2, x mod 32 for shifts. *)
ExecuteR(fn) ==
  LET immediate == fn \in {\h0, \h2, \h3}
      ins == [opcode |-> 0, fn |-> fn, i |-> 0, j |-> 0,
              s |-> IF immediate THEN 0 ELSE 1, t |-> 2,
              d |-> IF fn \in \h18 .. \h1b THEN 0 ELSE 3,
              sh |-> IF immediate THEN x % WordBits ELSE 0]
  IN  /\ op = Idle
      /\ op' = [format |-> "R", code |-> fn]
      /\ out' = Result(cpu_execute_r(ins, Operands))
      /\ UNCHANGED << x, y >>

(* opcode $3, $1, y, with as much of y as an immediate holds.                 *)
ExecuteI(opcode) ==
  /\ op = Idle
  /\ op' = [format |-> "I", code |-> opcode]
  /\ out' = Result(cpu_execute_immediate(1, 3, y % HalfSize, opcode, Operands))
  /\ UNCHANGED << x, y >>

Next ==
  \/ \E fn \in RFunctions : ExecuteR(fn)
  \/ \E opcode \in IOpcodes : ExecuteI(opcode)

Spec == Init /\ [][Next]_vars
----------------------------------------------------------------------------
(* The integer whose two's complement in size values is v.                    *)
Value(v, size) == CHOOSE n \in -(size \div 2) .. size \div 2 - 1 : n % size = v

Executed(format, codes) == op.format = format /\ op.code \in codes

X == Value(x, WordSize)
Y == IF op.format = "I" THEN Value(y % HalfSize, HalfSize) ELSE Value(y, WordSize)
D == Value(out.d, WordSize)
Fits(n) == n \in MinInt .. MaxInt

(* What "add with overflow" means for a result n: n itself or the exception,  *)
(* and then no register written.                                              *)
IsOrTraps(n) ==
  IF Fits(n) THEN out.err = Success /\ D = n
             ELSE out.err = ArithmeticOverflow /\ out.d = 0

(* ADD and ADDI trap exactly when the sum does not fit (overflow's sign-bit   *)
(* test); ADDU and ADDIU wrap.                                                *)
AddIsExact ==
  /\ Executed("R", {\h20}) \/ Executed("I", {\h8}) => IsOrTraps(X + Y)
  /\ Executed("R", {\h21}) \/ Executed("I", {\h9}) =>
       out.err = Success /\ (D - (X + Y)) % WordSize = 0

(* SUB negates and adds, which is right for every subtrahend with a negation. *)
SubIsExact ==
  /\ Executed("R", {\h22}) /\ Y # MinInt => IsOrTraps(X - Y)
  /\ Executed("R", {\h23}) => out.err = Success /\ (D - (X - Y)) % WordSize = 0

(* "SUB - Will trap on overflow" (mips_cpu.cpp), and only then: for every     *)
(* subtrahend.                                                                *)
SubTrapsOnOverflow == Executed("R", {\h22}) => IsOrTraps(X - Y)

(* MULT and MULTU leave the whole product in HI and LO.                       *)
ProductIsExact ==
  /\ Executed("R", {\h18}) => Value(out.hi, WordSize) * WordSize + out.lo = X * Y
  /\ Executed("R", {\h19}) => out.hi * WordSize + out.lo = x * y

(* DIV and DIVU leave a quotient rounded towards zero and the remainder that  *)
(* belongs to it; a zero divisor changes nothing.  The one thing that takes   *)
(* the simulator down is a signed quotient that is too large for a word.      *)
TooLarge == (X < 0) = (Y < 0) /\ Magnitude(X) \div Magnitude(Y) > MaxInt
DivisionIsExact ==
  LET q == Value(out.lo, WordSize)
      r == Value(out.hi, WordSize)
  IN  /\ Executed("R", {\h1a}) /\ Y # 0 /\ TooLarge => out.err = Killed
      /\ Executed("R", {\h1a}) /\ Y # 0 /\ ~TooLarge =>
           /\ out.err = Success
           /\ q * Y + r = X
           /\ Magnitude(r) < Magnitude(Y)
           /\ r = 0 \/ (r < 0) = (X < 0)
      /\ Executed("R", {\h1b}) /\ y # 0 =>
           out.err = Success /\ out.lo * y + out.hi = x /\ out.hi < y
      /\ Executed("R", {\h1a, \h1b}) /\ y = 0 =>
           out = [err |-> Success, d |-> 0, hi |-> 0, lo |-> 0]

(* Shifts multiply and divide by a power of two, SRA and SRAV rounding down.  *)
ShiftIsExact ==
  LET power == 2 ^ (x % WordBits)
  IN  /\ Executed("R", {\h0, \h4}) => (out.d - y * power) % WordSize = 0
      /\ Executed("R", {\h2, \h6}) => out.d * power \in y - power + 1 .. y
      /\ Executed("R", {\h3, \h7}) => D * power \in Y - power + 1 .. Y

(* SLT and SLTI compare as signed numbers; SLTU as unsigned ones, and so does *)
(* SLTIU after sign-extending its immediate.                                  *)
CompareIsExact ==
  /\ Executed("R", {\h2a}) \/ Executed("I", {\ha}) => (out.d = 1) = (X < Y)
  /\ Executed("R", {\h2b}) => (out.d = 1) = (x < y)
  /\ Executed("I", {\hb}) => (out.d = 1) = (x < Y % WordSize)

(* AND, OR, XOR and NOR act on each bit; their immediate forms are not sign-  *)
(* extended, and LUI moves the immediate to the upper half.                   *)
BitwiseIsExact ==
  LET z == IF op.format = "I" THEN y % HalfSize ELSE y
      Each(Op(_, _)) == \A k \in 0 .. WordBits - 1 : Bit(out.d, k) = Op(Bit(x, k), Bit(z, k))
  IN  /\ Executed("R", {\h24}) \/ Executed("I", {\hc}) => Each(AndBit)
      /\ Executed("R", {\h25}) \/ Executed("I", {\hd}) => Each(OrBit)
      /\ Executed("R", {\h26}) \/ Executed("I", {\he}) => Each(XorBit)
      /\ Executed("R", {\h27}) => Each(LAMBDA a, b : 1 - OrBit(a, b))
      /\ Executed("I", {\hf}) => out.d \div HalfSize = z /\ out.d % HalfSize = 0
=============================================================================
