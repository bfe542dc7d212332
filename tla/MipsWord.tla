------------------------------ MODULE MipsWord ------------------------------
(* The fixed-width integers of the simulator: the uint8_t, uint16_t and       *)
(* uint32_t it stores and the int32_t and int64_t it converts them to.  The   *)
(* code has 8-bit bytes; ByteBits scales them down (a half is always two      *)
(* bytes and a word four), so that a whole word fits TLC's integers and all   *)
(* the wrap-around cases stay within reach.                                   *)
EXTENDS Integers

CONSTANTS
  ByteBits,                                     \* 8 in the code
  BitAnd(_, _), BitOr(_, _), BitXor(_, _)       \* &, | and ^ of two bytes

WordBits == 4 * ByteBits
ByteSize == 2 ^ ByteBits
HalfSize == ByteSize * ByteSize
WordSize == HalfSize * HalfSize

Byte == 0 .. ByteSize - 1
Half == 0 .. HalfSize - 1
Word == 0 .. WordSize - 1

ASSUME WidthAssumption == ByteBits \in Nat /\ ByteBits >= 2

(* Bit k of v, and what &, | and ^ make of two bits.                          *)
Bit(v, k) == (v \div 2 ^ k) % 2
AndBit(a, b) == a * b
OrBit(a, b) == a + b - a * b
XorBit(a, b) == (a + b) % 2

ASSUME BitwiseAssumption ==
  \A x, y \in Byte :
    /\ BitAnd(x, y) \in Byte /\ BitOr(x, y) \in Byte /\ BitXor(x, y) \in Byte
    /\ \A k \in 0 .. ByteBits - 1 :
         /\ Bit(BitAnd(x, y), k) = AndBit(Bit(x, k), Bit(y, k))
         /\ Bit(BitOr(x, y), k) = OrBit(Bit(x, k), Bit(y, k))
         /\ Bit(BitXor(x, y), k) = XorBit(Bit(x, k), Bit(y, k))

(* The meaning of ^, which proofs cannot look up.                             *)
ASSUME PowerAssumption ==
  /\ 2 ^ 0 = 1
  /\ \A k \in 0 .. WordBits : 2 ^ (k + 1) = 2 * 2 ^ k

----------------------------------------------------------------------------
(* Unsigned arithmetic wraps; a cast to int32_t reads two's complement.       *)

Plus(x, y) == (x + y) % WordSize
Minus_Swapped(x, y) == (y - x) % WordSize
Minus(x, y) == (x - y) % WordSize
ToWord(v) == v % WordSize
IsNegative(x) == x >= WordSize \div 2
Signed(x) == IF IsNegative(x) THEN x - WordSize ELSE x

MinInt == -(WordSize \div 2)
MaxInt == WordSize \div 2 - 1

(* (int32_t)(int16_t)i and (int32_t)(int8_t)b, as the word they widen to.     *)
SignExtendHalf(h) == IF h >= HalfSize \div 2 THEN h + (WordSize - HalfSize) ELSE h
SignExtendByte_Zeros(b) == b
SignExtendByte(b) == IF b >= ByteSize \div 2 THEN b + (WordSize - ByteSize) ELSE b

(* C's / and % truncate towards zero, unlike \div and %.                      *)
Magnitude(v) == IF v < 0 THEN -v ELSE v
Quotient_Floor(v, w) ==
  IF (v < 0) = (w < 0) THEN Magnitude(v) \div Magnitude(w)
  ELSE -((Magnitude(v) + Magnitude(w) - 1) \div Magnitude(w))
Quotient(v, w) ==
  LET q == Magnitude(v) \div Magnitude(w)
  IN  IF (v < 0) = (w < 0) THEN q ELSE -q
Remainder(v, w) == v - w * Quotient(v, w)

(* <<, >> on uint32_t and >> on int32_t by less than the width.               *)
ShiftLeft(x, k) == (x * 2 ^ k) % WordSize
ShiftRight(x, k) == x \div 2 ^ k
ShiftRightArithmetic_Logical(x, k) == x \div 2 ^ k
ShiftRightArithmetic(x, k) == ToWord(Signed(x) \div 2 ^ k)

----------------------------------------------------------------------------
(* Words in a big-endian memory: the byte of weight k of a word (3 is the     *)
(* most significant), and the half and word that consecutive bytes spell.     *)

ByteWeight == << ByteSize * HalfSize, HalfSize, ByteSize, 1 >>
ByteOf(x, k) == (x \div ByteWeight[4 - k]) % ByteSize

JoinHalf(b0, b1) == b0 * ByteSize + b1
JoinWord(b0, b1, b2, b3) == JoinHalf(b0, b1) * HalfSize + JoinHalf(b2, b3)

(* bytes[0] is the byte at the lowest address.                                *)
FromBytes(bytes) == JoinWord(bytes[0], bytes[1], bytes[2], bytes[3])
ToBytes(x) == [k \in 0 .. 3 |-> ByteOf(x, 3 - k)]

----------------------------------------------------------------------------
(* &, |, ^ and ~ of words, byte by byte.                                      *)

Bytewise(Op(_, _), x, y) ==
  JoinWord(Op(ByteOf(x, 3), ByteOf(y, 3)), Op(ByteOf(x, 2), ByteOf(y, 2)),
           Op(ByteOf(x, 1), ByteOf(y, 1)), Op(ByteOf(x, 0), ByteOf(y, 0)))

AndWord(x, y) == Bytewise(BitAnd, x, y)
OrWord(x, y) == Bytewise(BitOr, x, y)
XorWord(x, y) == Bytewise(BitXor, x, y)
NotWord_Identity(x) == x
NotWord(x) == WordSize - 1 - x
=============================================================================
