------------------------------ MODULE MCRunner ------------------------------
(* The binaries of the repository, instruction by instruction as in the .diss *)
(* files, on words of 16 bits and a RAM with no byte to spare: 104 for the    *)
(* program, and six frames of 32 for the stack.                               *)
EXTENDS MipsRunner

LOCAL INSTANCE Bitwise

MCByteBits == 4
Bytes == 0 .. 15
AndTable == [x, y \in Bytes |-> x & y]
OrTable == [x, y \in Bytes |-> x | y]
XorTable == [x, y \in Bytes |-> x ^^ y]
MCBitAnd(x, y) == AndTable[x, y]
MCBitOr(x, y) == OrTable[x, y]
MCBitXor(x, y) == XorTable[x, y]

Listing == << Nop >> \o f_fibonacci \o f_addu
Binary(code) ==
  [k \in DOMAIN code |-> (CHOOSE n \in DOMAIN Listing : Listing[n] = code[k]) - 1]
MCDecode(w) == IF w < Len(Listing) THEN Listing[w + 1] ELSE IIns(\h3f, 0, 0, 0)

MCCbMem == 104 + 6 * 32
MCRamHandles == {NULL, "ram"}
MCFreshRam == [a \in 0 .. MCCbMem - 1 |-> 0]
TooLong == [k \in 1 .. 75 |-> 0]
MCFibonacciFiles == {Binary(f_fibonacci), << >>}
MCAdduFiles == {Binary(f_addu), TooLong}
MCFibonacciInputs == 0 .. 6
MCAdduInputs == {<< 63, 45, 10000, 34239 >>, << 0, 65535, 65535, 65535 >>}
MCStackTop == MCCbMem
MCSentinelPC == 4096

ASSUME MadeForItAssumption == MadeForIt
=============================================================================
