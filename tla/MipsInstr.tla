----------------------------- MODULE MipsInstr -----------------------------
(* An instruction on its way from a row of the test specification into the    *)
(* CPU: test_construct_bitstream, the RAM, cpu_decode_instr, at full width.   *)
(* A word is the set of its bits that are one.                                *)
EXTENDS Integers, Sequences

CONSTANT Rows           \* instructions of the test driver: [type, func, params]

Bit == 0 .. 31
Word == SUBSET Bit

(* << and >> of C on 32 bits; | is union, and & a mask is intersection.       *)
Shl(x, n) == {k + n : k \in x} \cap Bit
Shr(x, n) == {k - n : k \in x} \cap Bit

bswap32_Not(x) == x
bswap32(x) == {8 * (3 - (k \div 8)) + (k % 8) : k \in x}

(* The bits of a number below 64.                                             *)
Small(n) == {k \in 0 .. 5 : (n \div << 1, 2, 4, 8, 16, 32 >>[k + 1]) % 2 = 1}

r_to_op ==
  [SLL |-> \h0, SRL |-> \h2, SRA |-> \h3, SLLV |-> \h4, SRLV |-> \h6, SRAV |-> \h7,
   JR |-> \h8, JALR |-> \h9, MFHI |-> \h10, MTHI |-> \h11, MFLO |-> \h12, MTLO |-> \h13,
   MULT |-> \h18, MULTU |-> \h19, DIV |-> \h1a, DIVU |-> \h1b, ADD |-> \h20, ADDU |-> \h21,
   SUB |-> \h22, SUBU |-> \h23, AND |-> \h24, OR |-> \h25, XOR |-> \h26, NOR |-> \h27,
   SLT |-> \h2a, SLTU |-> \h2b]
rt_to_op == [BLTZ |-> \h0, BGEZ |-> \h1, BLTZAL |-> \h10, BGEZAL |-> \h11]

(* op_to_str, which main turns round.                                         *)
ij_to_op ==
  [J |-> \h2, JAL |-> \h3, BEQ |-> \h4, BNE |-> \h5, BLEZ |-> \h6, BGTZ |-> \h7,
   ADDI |-> \h8, ADDIU |-> \h9, SLTI |-> \ha, SLTIU |-> \hb, ANDI |-> \hc, ORI |-> \hd,
   XORI |-> \he, LUI |-> \hf, LB |-> \h20, LH |-> \h21, LWL |-> \h22, LW |-> \h23,
   LBU |-> \h24, LHU |-> \h25, LWR |-> \h26, SB |-> \h28, SH |-> \h29, SWL |-> \h2a,
   SW |-> \h2b, SWR |-> \h2e]

Row ==
  [type : {"R"}, func : DOMAIN r_to_op, params : Word \X Word \X Word \X Word]
    \cup [type : {"RT"}, func : DOMAIN rt_to_op, params : Word \X Word]
    \cup [type : {"J"}, func : DOMAIN ij_to_op, params : Seq(Word)]
    \cup [type : {"I"}, func : DOMAIN ij_to_op, params : Word \X Word \X Word]

ASSUME RowsAssumption == \A row \in Rows :
  /\ row \in Row
  /\ row.type = "J" => Len(row.params) = 1

----------------------------------------------------------------------------
(* The driver.  Only an R row has its registers masked.                       *)
construct_R_SwapsTD(func, s, t, d, h) ==
  Shl(s \cap 0 .. 4, 21) \cup Shl(d \cap 0 .. 4, 16) \cup Shl(t \cap 0 .. 4, 11)
    \cup Shl(h \cap 0 .. 4, 6) \cup Small(r_to_op[func])
construct_R(func, s, t, d, h) ==
  Shl(s \cap 0 .. 4, 21) \cup Shl(t \cap 0 .. 4, 16) \cup Shl(d \cap 0 .. 4, 11)
    \cup Shl(h \cap 0 .. 4, 6) \cup Small(r_to_op[func])
construct_RT(func, s, i) ==
  {26} \cup Shl(s, 21) \cup Shl(Small(rt_to_op[func]), 16) \cup (i \cap 0 .. 15)
construct_J(func, j) == Shl(Small(ij_to_op[func]), 26) \cup (j \cap 0 .. 25)
construct_I(func, s, t, i) ==
  Shl(Small(ij_to_op[func]), 26) \cup Shl(s, 21) \cup Shl(t, 16) \cup (i \cap 0 .. 15)

Bitstream(r) ==
  LET p == r.params
  IN  CASE r.type = "R" -> construct_R(r.func, p[1], p[2], p[3], p[4])
        [] r.type = "RT" -> construct_RT(r.func, p[1], p[2])
        [] r.type = "J" -> construct_J(r.func, p[1])
        [] r.type = "I" -> construct_I(r.func, p[1], p[2], p[3])

(* What it returns is written to the RAM as the host has it in memory.        *)
test_construct_bitstream(r) == bswap32(Bitstream(r))

(* The host, an x86, has the low byte of a word first.                        *)
HostBytes(x) == [n \in 0 .. 3 |-> {k \in 0 .. 7 : k + 8 * n \in x}]
HostWord(b) == {k \in Bit : k % 8 \in b[k \div 8]}

(* The CPU.                                                                   *)
cpu_decode_instr_FnOffByOne(bytes) ==
  [opcode |-> Shr(bytes, 26),
   s |-> Shr(bytes \cap 21 .. 25, 21), t |-> Shr(bytes \cap 16 .. 20, 16),
   d |-> Shr(bytes \cap 11 .. 15, 11), sh |-> Shr(bytes \cap 6 .. 10, 6),
   fn |-> bytes \cap 0 .. 6, i |-> bytes \cap 0 .. 15, j |-> bytes \cap 0 .. 25]
cpu_decode_instr(bytes) ==
  [opcode |-> Shr(bytes, 26),
   s |-> Shr(bytes \cap 21 .. 25, 21), t |-> Shr(bytes \cap 16 .. 20, 16),
   d |-> Shr(bytes \cap 11 .. 15, 11), sh |-> Shr(bytes \cap 6 .. 10, 6),
   fn |-> bytes \cap 0 .. 5, i |-> bytes \cap 0 .. 15, j |-> bytes \cap 0 .. 25]

(* The chain of casts from uint16_t to a signed word.                         *)
SignExtend_Zeros(i) == i
SignExtend(i) == i \cup (IF 15 \in i THEN 16 .. 31 ELSE {})

----------------------------------------------------------------------------
VARIABLES row, stage, mem, fields
vars == << row, stage, mem, fields >>

Init ==
  /\ row \in Rows
  /\ stage = "row"
  /\ mem = HostBytes({})
  /\ fields = cpu_decode_instr({})

WriteInstr ==
  /\ stage = "row"
  /\ mem' = HostBytes(test_construct_bitstream(row))
  /\ stage' = "written"
  /\ UNCHANGED << row, fields >>

(* The first lines of mips_cpu_step.                                          *)
Fetch ==
  /\ stage = "written"
  /\ fields' = cpu_decode_instr(bswap32(HostWord(mem)))
  /\ stage' = "decoded"
  /\ UNCHANGED << row, mem >>

Next == WriteInstr \/ Fetch
Spec == Init /\ [][Next]_vars
----------------------------------------------------------------------------
(* The fields have the widths every handler of mips_cpu_step relies on: they  *)
(* index the 32 registers and select the cases of the dispatch.               *)
Register == SUBSET (0 .. 4)
Fields == [opcode : SUBSET (0 .. 5), s : Register, t : Register, d : Register,
           sh : SUBSET (0 .. 4), fn : SUBSET (0 .. 5),
           i : SUBSET (0 .. 15), j : SUBSET (0 .. 25)]
TypeOK ==
  /\ row \in Rows
  /\ stage \in {"row", "written", "decoded"}
  /\ mem \in [0 .. 3 -> SUBSET (0 .. 7)]
  /\ fields \in Fields

(* No field of an instruction disturbs another: the CPU decodes exactly what  *)
(* the row says, whatever the parameters of an R or J row, and for registers  *)
(* that exist in the others, which the driver does not mask.                  *)
Registers(n) == \A k \in 1 .. n : row.params[k] \in Register
FieldsArrive ==
  stage = "decoded" =>
    /\ row.type = "R" =>
         /\ fields.opcode = {}
         /\ fields.fn = Small(r_to_op[row.func])
         /\ fields.s = row.params[1] \cap 0 .. 4
         /\ fields.t = row.params[2] \cap 0 .. 4
         /\ fields.d = row.params[3] \cap 0 .. 4
         /\ fields.sh = row.params[4] \cap 0 .. 4
    /\ row.type = "RT" /\ Registers(1) =>
         /\ fields.opcode = {0}
         /\ fields.t = Small(rt_to_op[row.func])
         /\ fields.s = row.params[1]
         /\ fields.i = row.params[2] \cap 0 .. 15
    /\ row.type = "J" =>
         /\ fields.opcode = Small(ij_to_op[row.func])
         /\ fields.j = row.params[1] \cap 0 .. 25
    /\ row.type = "I" /\ Registers(2) =>
         /\ fields.opcode = Small(ij_to_op[row.func])
         /\ fields.s = row.params[1]
         /\ fields.t = row.params[2]
         /\ fields.i = row.params[3] \cap 0 .. 15

(* A negative immediate survives: a row's number that 16 bits can hold, of    *)
(* either sign, is the number the instruction computes with.                  *)
HoldsIn16(x) == \A k \in 16 .. 31 : k \in x <=> 15 \in x
ImmediateIsRead ==
  stage = "decoded" /\ row.type = "I" =>
    (HoldsIn16(row.params[3]) => SignExtend(fields.i) = row.params[3])

(* "bigendian bitstream to be written to memory" (test_construct_bitstream):  *)
(* the opcode is in the byte with the lowest address, where the binaries of a *)
(* MIPS compiler have it too.                                                 *)
FirstByteIs(opcode) == {k \in 0 .. 5 : k + 2 \in mem[0]} = opcode
OpcodeComesFirst ==
  stage # "row" =>
    /\ row.type = "R" => FirstByteIs({})
    /\ row.type = "RT" /\ Registers(1) => FirstByteIs({0})
    /\ row.type = "J" => FirstByteIs(Small(ij_to_op[row.func]))
    /\ row.type = "I" /\ Registers(2) => FirstByteIs(Small(ij_to_op[row.func]))
=============================================================================
