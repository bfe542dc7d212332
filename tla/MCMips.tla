------------------------------- MODULE MCMips -------------------------------
(* What the model-checking modules share: 2-bit bytes (so 8-bit words), their *)
(* bitwise operations, instructions by name, and memory images.               *)
EXTENDS Integers, Sequences

LOCAL INSTANCE Bitwise

MCByteBits == 2
Bytes == 0 .. 3
Bits == 0 .. 255

AndTable == [x, y \in Bytes |-> x & y]
OrTable == [x, y \in Bytes |-> x | y]
XorTable == [x, y \in Bytes |-> x ^^ y]

MCBitAnd(x, y) == AndTable[x, y]
MCBitOr(x, y) == OrTable[x, y]
MCBitXor(x, y) == XorTable[x, y]

----------------------------------------------------------------------------
(* Instructions; the fields a format lacks overlap others and are never used. *)
RType(fn, s, t, d, sh) ==
  [opcode |-> 0, s |-> s, t |-> t, d |-> d, sh |-> sh, fn |-> fn, i |-> 0, j |-> 0]
IType(opcode, s, t, i) ==
  [opcode |-> opcode, s |-> s, t |-> t, d |-> 0, sh |-> 0, fn |-> 0, i |-> i, j |-> 0]
JType(opcode, j) ==
  [opcode |-> opcode, s |-> 0, t |-> 0, d |-> 0, sh |-> 0, fn |-> 0, i |-> 0, j |-> j]

NOP == RType(\h0, 0, 0, 0, 0)
Absent == IType(\h3f, 0, 0, 0)

(* A word stands for an instruction by its place in a listing that begins     *)
(* with NOP: the code's NOP is the word 0.                                    *)

(* The bytes of cbMem addresses that hold these words, and zeros after them.  *)
Image(words, cbMem) ==
  [a \in 0 .. cbMem - 1 |->
     IF a \div 4 < Len(words)
     THEN (words[a \div 4 + 1] \div <<64, 16, 4, 1>>[(a % 4) + 1]) % 4
     ELSE 0]
=============================================================================
