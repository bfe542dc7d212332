-------------------------- MODULE MipsInstrProofs --------------------------
(* For every row of the test specification, at full width: the CPU decodes    *)
(* the instruction that the row describes.                                    *)
EXTENDS MipsInstr, TLAPS

(* The driver's swap and the CPU's, with the host's byte order between them,  *)
(* give back the word.                                                        *)
LEMMA SwapType == ASSUME NEW x \in Word PROVE bswap32(x) \in Word
BY DEF bswap32, Word, Bit

LEMMA SwapTwice == ASSUME NEW x \in Word PROVE bswap32(bswap32(x)) = x
<1>. DEFINE f(k) == 8 * (3 - (k \div 8)) + (k % 8)
<1>1. \A k \in Bit : f(k) \in Bit /\ f(f(k)) = k
  BY DEF Bit
<1>2. bswap32(x) = {f(k) : k \in x}
  BY DEF bswap32
<1>3. bswap32(bswap32(x)) = {f(k) : k \in bswap32(x)}
  BY DEF bswap32
<1>4. x \subseteq Bit
  BY DEF Word
<1>. HIDE DEF f
<1>. QED  BY <1>1, <1>2, <1>3, <1>4

LEMMA HostType == ASSUME NEW x PROVE HostBytes(x) \in [0 .. 3 -> SUBSET (0 .. 7)]
BY DEF HostBytes

LEMMA HostOrder == ASSUME NEW x \in Word PROVE HostWord(HostBytes(x)) = x
<1>1. \A k \in Bit : k \div 8 \in 0 .. 3 /\ k % 8 \in 0 .. 7 /\ (k % 8) + 8 * (k \div 8) = k
  BY DEF Bit
<1>2. x \subseteq Bit
  BY DEF Word
<1>. QED  BY <1>1, <1>2 DEF HostWord, HostBytes

(* A number below 64 has six bits.                                            *)
LEMMA SmallBits == ASSUME NEW n PROVE Small(n) \subseteq 0 .. 5
BY DEF Small

LEMMA ShlMember ==
  ASSUME NEW x \in SUBSET Int, NEW n \in Int, NEW k \in Int
  PROVE  k \in Shl(x, n) <=> k \in Bit /\ k - n \in x
<1>1. k \in {a + n : a \in x} <=> k - n \in x
  <2>1. \A a \in x : a \in Int
    OBVIOUS
  <2>2. ASSUME NEW a \in x, k = a + n PROVE k - n \in x
    <3>1. k - n = a
      BY <2>1, <2>2
    <3>. QED  BY <3>1
  <2>3. k = (k - n) + n
    OBVIOUS
  <2>. QED  BY <2>2, <2>3
<1>. QED  BY <1>1 DEF Shl

(* The field of w from bit lo to bit hi is v.                                 *)
LEMMA Extract ==
  ASSUME NEW w \in Word, NEW lo \in Bit, NEW hi \in Bit, NEW v \in SUBSET Bit,
         \A b \in v : b + lo <= hi,
         \A k \in lo .. hi : k \in w <=> k - lo \in v
  PROVE  Shr(w \cap lo .. hi, lo) = v
<1>1. ASSUME NEW b \in Shr(w \cap lo .. hi, lo) PROVE b \in v
  <2>1. PICK k \in w \cap lo .. hi : b = k - lo
    BY DEF Shr
  <2>. QED  BY <2>1
<1>2. ASSUME NEW b \in v PROVE b \in Shr(w \cap lo .. hi, lo)
  <2>1. b \in Bit /\ b + lo \in lo .. hi /\ (b + lo) - lo = b
    BY DEF Bit
  <2>2. b + lo \in w
    BY <2>1
  <2>. QED  BY <2>1, <2>2 DEF Shr
<1>. QED  BY <1>1, <1>2

(* The opcode is what is left of a word shifted right by 26.                  *)
LEMMA ExtractTop ==
  ASSUME NEW w \in Word, NEW v \in SUBSET (0 .. 5),
         \A k \in 26 .. 31 : k \in w <=> k - 26 \in v
  PROVE  Shr(w, 26) = v
<1>1. Shr(w, 26) = Shr(w \cap 26 .. 31, 26)
  BY DEF Shr, Word, Bit
<1>2. v \in SUBSET Bit /\ \A b \in v : b + 26 <= 31
  BY DEF Bit
<1>3. 26 \in Bit /\ 31 \in Bit
  BY DEF Bit
<1>. QED  BY <1>1, <1>2, <1>3, Extract

LEMMA Unions == \A x, y \in Word : x \cup y \in Word
BY DEF Word

(* Sets of low bits.                                                          *)
LEMMA LowBits ==
  ASSUME NEW n \in Bit, NEW x \in SUBSET (0 .. n)
  PROVE  x \in Word
BY DEF Word, Bit

LEMMA ShlType == ASSUME NEW x, NEW n PROVE Shl(x, n) \in Word
BY DEF Shl, Word

LEMMA ShrType ==
  ASSUME NEW lo \in Bit, NEW hi \in Bit, lo <= hi, NEW x
  PROVE  Shr(x \cap lo .. hi, lo) \subseteq 0 .. hi - lo
BY DEF Shr, Bit

LEMMA DecodeType == ASSUME NEW x \in Word PROVE cpu_decode_instr(x) \in Fields
<1>1. Shr(x, 26) \subseteq 0 .. 5
  BY DEF Shr, Word, Bit
<1>2. /\ Shr(x \cap 21 .. 25, 21) \subseteq 0 .. 4
      /\ Shr(x \cap 16 .. 20, 16) \subseteq 0 .. 4
      /\ Shr(x \cap 11 .. 15, 11) \subseteq 0 .. 4
      /\ Shr(x \cap 6 .. 10, 6) \subseteq 0 .. 4
  BY DEF Shr
<1>. QED  BY <1>1, <1>2 DEF cpu_decode_instr, Fields, Register

(* The types of the parameters that each kind of row has.                     *)
LEMMA RowParams ==
  ASSUME NEW r \in Rows
  PROVE  /\ r.type \in {"R", "RT", "J", "I"}
         /\ r.params[1] \in Word
         /\ r.type # "J" => r.params[2] \in Word
         /\ r.type \in {"R", "I"} => r.params[3] \in Word
         /\ r.type = "R" => r.params[4] \in Word
<1>1. r \in Row /\ (r.type = "J" => Len(r.params) = 1)
  BY RowsAssumption
<1>2. CASE r \in [type : {"R"}, func : DOMAIN r_to_op, params : Word \X Word \X Word \X Word]
  BY <1>2
<1>3. CASE r \in [type : {"RT"}, func : DOMAIN rt_to_op, params : Word \X Word]
  BY <1>3
<1>4. CASE r \in [type : {"J"}, func : DOMAIN ij_to_op, params : Seq(Word)]
  BY <1>1, <1>4
<1>5. CASE r \in [type : {"I"}, func : DOMAIN ij_to_op, params : Word \X Word \X Word]
  BY <1>5
<1>. QED  BY <1>1, <1>2, <1>3, <1>4, <1>5 DEF Row

LEMMA BitstreamType == ASSUME NEW r \in Rows PROVE Bitstream(r) \in Word
<1>1. \A x : x \cap 0 .. 15 \in Word /\ x \cap 0 .. 25 \in Word
  BY DEF Word, Bit
<1>2. Small(r_to_op[r.func]) \in Word /\ {26} \in Word
  BY SmallBits DEF Word, Bit
<1>3. \A x, y \in Word : x \cup y \in Word
  BY DEF Word
<1>. QED  BY <1>1, <1>2, <1>3, ShlType, RowParams
          DEF Bitstream, construct_R, construct_RT, construct_J, construct_I

----------------------------------------------------------------------------
(* Each field of each format.                                                 *)
LEMMA DecodeR ==
  ASSUME NEW func, NEW s, NEW t, NEW d, NEW h
  PROVE  LET f == cpu_decode_instr(construct_R(func, s, t, d, h))
         IN  /\ f.opcode = {} /\ f.fn = Small(r_to_op[func])
             /\ f.s = s \cap 0 .. 4 /\ f.t = t \cap 0 .. 4
             /\ f.d = d \cap 0 .. 4 /\ f.sh = h \cap 0 .. 4
<1>. DEFINE w == construct_R(func, s, t, d, h)
            fn == Small(r_to_op[func])
            S == s \cap 0 .. 4
            T == t \cap 0 .. 4
            D == d \cap 0 .. 4
            H == h \cap 0 .. 4
<1>0. fn \subseteq 0 .. 5 /\ S \subseteq 0 .. 4 /\ T \subseteq 0 .. 4
        /\ D \subseteq 0 .. 4 /\ H \subseteq 0 .. 4
  BY SmallBits
<1>1. w = Shl(S, 21) \cup Shl(T, 16) \cup Shl(D, 11) \cup Shl(H, 6) \cup fn
  BY DEF construct_R
<1>. HIDE DEF w, fn, S, T, D, H
<1>2. \A k \in Bit : k \in w <=> \/ k - 21 \in S \/ k - 16 \in T \/ k - 11 \in D
                                \/ k - 6 \in H \/ k \in fn
  BY <1>0, <1>1, ShlMember DEF Bit
<1>3. w \in Word
  <2>1. Shl(S, 21) \in Word /\ Shl(T, 16) \in Word /\ Shl(D, 11) \in Word
          /\ Shl(H, 6) \in Word
    BY ShlType
  <2>2. fn \in Word
    BY <1>0 DEF Word, Bit
  <2>. QED  BY <1>1, <2>1, <2>2, Unions
<1>4. Shr(w, 26) = {}
  <2>1. \A k \in 26 .. 31 : k \in w <=> k - 26 \in {}
    BY <1>0, <1>2 DEF Bit
  <2>2. {} \in SUBSET (0 .. 5)
    OBVIOUS
  <2>. QED  BY <1>3, <2>1, <2>2, ExtractTop
<1>5. w \cap 0 .. 5 = fn
  <2>1. \A k \in 0 .. 5 : k \in w <=> k \in fn
    BY <1>0, <1>2 DEF Bit
  <2>. QED  BY <1>0, <2>1
<1>6. Shr(w \cap 21 .. 25, 21) = S
  <2>1. \A k \in 21 .. 25 : k \in w <=> k - 21 \in S
    BY <1>0, <1>2 DEF Bit
  <2>2. S \in SUBSET Bit /\ (\A b \in S : b + 21 <= 25)
    BY <1>0 DEF Bit
  <2>3. 21 \in Bit /\ 25 \in Bit
    BY DEF Bit
  <2>. QED  BY <1>3, <2>1, <2>2, <2>3, Extract
<1>7. Shr(w \cap 16 .. 20, 16) = T
  <2>1. \A k \in 16 .. 20 : k \in w <=> k - 16 \in T
    BY <1>0, <1>2 DEF Bit
  <2>2. T \in SUBSET Bit /\ (\A b \in T : b + 16 <= 20)
    BY <1>0 DEF Bit
  <2>3. 16 \in Bit /\ 20 \in Bit
    BY DEF Bit
  <2>. QED  BY <1>3, <2>1, <2>2, <2>3, Extract
<1>8. Shr(w \cap 11 .. 15, 11) = D
  <2>1. \A k \in 11 .. 15 : k \in w <=> k - 11 \in D
    BY <1>0, <1>2 DEF Bit
  <2>2. D \in SUBSET Bit /\ (\A b \in D : b + 11 <= 15)
    BY <1>0 DEF Bit
  <2>3. 11 \in Bit /\ 15 \in Bit
    BY DEF Bit
  <2>. QED  BY <1>3, <2>1, <2>2, <2>3, Extract
<1>9. Shr(w \cap 6 .. 10, 6) = H
  <2>1. \A k \in 6 .. 10 : k \in w <=> k - 6 \in H
    BY <1>0, <1>2 DEF Bit
  <2>2. H \in SUBSET Bit /\ (\A b \in H : b + 6 <= 10)
    BY <1>0 DEF Bit
  <2>3. 6 \in Bit /\ 10 \in Bit
    BY DEF Bit
  <2>. QED  BY <1>3, <2>1, <2>2, <2>3, Extract
<1>. QED  BY <1>4, <1>5, <1>6, <1>7, <1>8, <1>9 DEF cpu_decode_instr, w, fn, S, T, D, H

LEMMA DecodeRT ==
  ASSUME NEW func \in DOMAIN rt_to_op, NEW s \in Register, NEW i
  PROVE  LET f == cpu_decode_instr(construct_RT(func, s, i))
         IN  /\ f.opcode = {0} /\ f.t = Small(rt_to_op[func])
             /\ f.s = s /\ f.i = i \cap 0 .. 15
<1>. DEFINE w == construct_RT(func, s, i)
            T == Small(rt_to_op[func])
            I == i \cap 0 .. 15
<1>0. T \subseteq 0 .. 4 /\ I \subseteq 0 .. 15 /\ s \subseteq 0 .. 4
  BY DEF rt_to_op, Small, Register
<1>1. w = {26} \cup Shl(s, 21) \cup Shl(T, 16) \cup I
  BY DEF construct_RT
<1>. HIDE DEF w, T, I
<1>2. \A k \in Bit : k \in w <=> k = 26 \/ k - 21 \in s \/ k - 16 \in T \/ k \in I
  BY <1>0, <1>1, ShlMember DEF Bit
<1>3. w \in Word
  <2>1. Shl(s, 21) \in Word /\ Shl(T, 16) \in Word
    BY ShlType
  <2>2. {26} \in Word /\ I \in Word
    BY <1>0 DEF Word, Bit
  <2>. QED  BY <1>1, <2>1, <2>2, Unions
<1>4. Shr(w, 26) = {0}
  <2>1. \A k \in 26 .. 31 : k \in w <=> k - 26 \in {0}
    BY <1>0, <1>2 DEF Bit
  <2>2. {0} \in SUBSET (0 .. 5)
    OBVIOUS
  <2>. QED  BY <1>3, <2>1, <2>2, ExtractTop
<1>5. w \cap 0 .. 15 = I
  <2>1. \A k \in 0 .. 15 : k \in w <=> k \in I
    BY <1>0, <1>2 DEF Bit
  <2>. QED  BY <1>0, <2>1
<1>6. Shr(w \cap 21 .. 25, 21) = s
  <2>1. \A k \in 21 .. 25 : k \in w <=> k - 21 \in s
    BY <1>0, <1>2 DEF Bit
  <2>2. s \in SUBSET Bit /\ (\A b \in s : b + 21 <= 25)
    BY <1>0 DEF Bit
  <2>3. 21 \in Bit /\ 25 \in Bit
    BY DEF Bit
  <2>. QED  BY <1>3, <2>1, <2>2, <2>3, Extract
<1>7. Shr(w \cap 16 .. 20, 16) = T
  <2>1. \A k \in 16 .. 20 : k \in w <=> k - 16 \in T
    BY <1>0, <1>2 DEF Bit
  <2>2. T \in SUBSET Bit /\ (\A b \in T : b + 16 <= 20)
    BY <1>0 DEF Bit
  <2>3. 16 \in Bit /\ 20 \in Bit
    BY DEF Bit
  <2>. QED  BY <1>3, <2>1, <2>2, <2>3, Extract
<1>. QED  BY <1>4, <1>5, <1>6, <1>7 DEF cpu_decode_instr, w, T, I

LEMMA DecodeJ ==
  ASSUME NEW func, NEW j
  PROVE  LET f == cpu_decode_instr(construct_J(func, j))
         IN  f.opcode = Small(ij_to_op[func]) /\ f.j = j \cap 0 .. 25
<1>. DEFINE w == construct_J(func, j)
            op == Small(ij_to_op[func])
            J == j \cap 0 .. 25
<1>0. op \subseteq 0 .. 5 /\ J \subseteq 0 .. 25
  BY SmallBits
<1>1. w = Shl(op, 26) \cup J
  BY DEF construct_J
<1>. HIDE DEF w, op, J
<1>2. \A k \in Bit : k \in w <=> k - 26 \in op \/ k \in J
  BY <1>0, <1>1, ShlMember DEF Bit
<1>3. w \in Word
  <2>1. Shl(op, 26) \in Word
    BY ShlType
  <2>2. J \in Word
    BY <1>0 DEF Word, Bit
  <2>. QED  BY <1>1, <2>1, <2>2, Unions
<1>4. Shr(w, 26) = op
  <2>1. \A k \in 26 .. 31 : k \in w <=> k - 26 \in op
    BY <1>0, <1>2 DEF Bit
  <2>. QED  BY <1>0, <1>3, <2>1, ExtractTop
<1>5. w \cap 0 .. 25 = J
  <2>1. \A k \in 0 .. 25 : k \in w <=> k \in J
    BY <1>0, <1>2 DEF Bit
  <2>. QED  BY <1>0, <2>1
<1>. QED  BY <1>4, <1>5 DEF cpu_decode_instr, w, op, J

LEMMA ConstructI ==
  ASSUME NEW func, NEW s \in Word, NEW t \in Word, NEW imm
  PROVE  /\ construct_I(func, s, t, imm) \in Word
         /\ \A k \in Bit : k \in construct_I(func, s, t, imm) <=>
              \/ k - 26 \in Small(ij_to_op[func]) \/ k - 21 \in s \/ k - 16 \in t
              \/ k \in imm \cap 0 .. 15
<1>. DEFINE w == construct_I(func, s, t, imm)
            op == Small(ij_to_op[func])
            I == imm \cap 0 .. 15
<1>1. op \subseteq 0 .. 5 /\ I \subseteq 0 .. 15 /\ s \subseteq Bit /\ t \subseteq Bit
  BY SmallBits DEF Word
<1>2. w = Shl(op, 26) \cup Shl(s, 21) \cup Shl(t, 16) \cup I
  BY DEF construct_I
<1>. HIDE DEF w, op, I
<1>3. \A k \in Bit : k \in w <=> k - 26 \in op \/ k - 21 \in s \/ k - 16 \in t \/ k \in I
  BY <1>1, <1>2, ShlMember DEF Bit
<1>4. w \in Word
  <2>1. Shl(op, 26) \in Word /\ Shl(s, 21) \in Word /\ Shl(t, 16) \in Word
    BY ShlType
  <2>2. I \in Word
    BY <1>1 DEF Word, Bit
  <2>. QED  BY <1>2, <2>1, <2>2, Unions
<1>. QED  BY <1>3, <1>4 DEF w, op, I

LEMMA DecodeImm ==
  ASSUME NEW func, NEW s \in Word, NEW t \in Word, NEW imm
  PROVE  cpu_decode_instr(construct_I(func, s, t, imm)).i = imm \cap 0 .. 15
<1>. DEFINE w == construct_I(func, s, t, imm)
<1>1. \A k \in 0 .. 15 : k \in w <=> k \in imm \cap 0 .. 15
  <2>1. s \subseteq Bit /\ t \subseteq Bit /\ Small(ij_to_op[func]) \subseteq 0 .. 5
    BY SmallBits DEF Word
  <2>2. \A k \in Bit : k \in w <=> \/ k - 26 \in Small(ij_to_op[func]) \/ k - 21 \in s
                                  \/ k - 16 \in t \/ k \in imm \cap 0 .. 15
    BY ConstructI
  <2>. HIDE DEF w
  <2>3. ASSUME NEW k \in 0 .. 15 PROVE k \in w <=> k \in imm \cap 0 .. 15
    <3>1. k \in Bit /\ k - 26 \notin Bit /\ k - 21 \notin Bit /\ k - 16 \notin Bit
            /\ k - 26 \notin 0 .. 5
      BY DEF Bit
    <3>. QED  BY <2>1, <2>2, <3>1
  <2>. QED  BY <2>3
<1>. HIDE DEF w
<1>2. w \cap 0 .. 15 = imm \cap 0 .. 15
  BY <1>1
<1>. QED  BY <1>2 DEF cpu_decode_instr, w

LEMMA DecodeI ==
  ASSUME NEW func, NEW s \in Register, NEW t \in Register, NEW imm
  PROVE  LET f == cpu_decode_instr(construct_I(func, s, t, imm))
         IN  f.opcode = Small(ij_to_op[func]) /\ f.s = s /\ f.t = t
<1>. DEFINE w == construct_I(func, s, t, imm)
            op == Small(ij_to_op[func])
<1>1. op \subseteq 0 .. 5 /\ s \subseteq 0 .. 4 /\ t \subseteq 0 .. 4
  BY SmallBits DEF Register
<1>2. s \in Word /\ t \in Word
  BY <1>1 DEF Word, Bit
<1>3. /\ w \in Word
      /\ \A k \in 16 .. 31 : k \in w <=> k - 26 \in op \/ k - 21 \in s \/ k - 16 \in t
  BY <1>2, ConstructI DEF Bit
<1>. HIDE DEF w, op
<1>4. Shr(w, 26) = op
  <2>1. \A k \in 26 .. 31 : k \in w <=> k - 26 \in op
    BY <1>1, <1>3
  <2>. QED  BY <1>1, <1>3, <2>1, ExtractTop
<1>5. Shr(w \cap 21 .. 25, 21) = s
  <2>1. \A k \in 21 .. 25 : k \in w <=> k - 21 \in s
    BY <1>1, <1>3
  <2>2. s \in SUBSET Bit /\ (\A b \in s : b + 21 <= 25)
    BY <1>1 DEF Bit
  <2>3. 21 \in Bit /\ 25 \in Bit
    BY DEF Bit
  <2>. QED  BY <1>3, <2>1, <2>2, <2>3, Extract
<1>6. Shr(w \cap 16 .. 20, 16) = t
  <2>1. \A k \in 16 .. 20 : k \in w <=> k - 16 \in t
    BY <1>1, <1>3
  <2>2. t \in SUBSET Bit /\ (\A b \in t : b + 16 <= 20)
    BY <1>1 DEF Bit
  <2>3. 16 \in Bit /\ 20 \in Bit
    BY DEF Bit
  <2>. QED  BY <1>3, <2>1, <2>2, <2>3, Extract
<1>. QED  BY <1>4, <1>5, <1>6 DEF cpu_decode_instr, w, op

----------------------------------------------------------------------------
(* What WriteInstr and Fetch leave behind, as functions of the row.           *)
IInv ==
  /\ TypeOK
  /\ stage # "row" => mem = HostBytes(bswap32(Bitstream(row)))
  /\ stage = "decoded" => fields = cpu_decode_instr(Bitstream(row))

LEMMA InitIInv == Init => IInv
<1>1. {} \in Word
  BY DEF Word
<1>. QED  BY <1>1, HostType, DecodeType DEF Init, IInv, TypeOK

LEMMA NextIInv == IInv /\ [Next]_vars => IInv'
<1>. SUFFICES ASSUME IInv, [Next]_vars PROVE IInv'
  OBVIOUS
<1>. USE DEF IInv, TypeOK
<1>1. CASE WriteInstr
  BY <1>1, HostType DEF WriteInstr, test_construct_bitstream
<1>2. CASE Fetch
  <2>1. Bitstream(row) \in Word
    BY BitstreamType
  <2>2. bswap32(HostWord(mem)) = Bitstream(row)
    BY <1>2, <2>1, SwapType, SwapTwice, HostOrder DEF Fetch
  <2>. QED  BY <1>2, <2>1, <2>2, DecodeType DEF Fetch
<1>3. CASE UNCHANGED vars
  BY <1>3 DEF vars
<1>. QED  BY <1>1, <1>2, <1>3 DEF Next

LEMMA Invariance == Spec => []IInv
BY InitIInv, NextIInv, PTL DEF Spec

(* Whatever the words of the program, the fields of an instruction have the   *)
(* widths the handlers rely on: this is what DecodeAssumption of MipsExec     *)
(* asks of its Decode.                                                        *)
THEOREM FieldWidths == Spec => []TypeOK
<1>1. IInv => TypeOK
  BY DEF IInv
<1>. QED  BY <1>1, Invariance, PTL

(* For every row of every type: the encoder of the test driver and the        *)
(* decoder of the CPU are inverse to each other.                              *)
THEOREM RoundTrip == Spec => []FieldsArrive
<1>1. IInv => FieldsArrive
  <2>. SUFFICES ASSUME IInv, stage = "decoded" PROVE FieldsArrive
    BY DEF FieldsArrive
  <2>. DEFINE p == row.params
  <2>0. row \in Rows /\ fields = cpu_decode_instr(Bitstream(row))
    BY DEF IInv, TypeOK
  <2>1. CASE row.type = "R"
    <3>1. Bitstream(row) = construct_R(row.func, p[1], p[2], p[3], p[4])
      BY <2>1 DEF Bitstream
    <3>. QED  BY <2>0, <2>1, <3>1, DecodeR DEF FieldsArrive
  <2>2. CASE row.type = "RT"
    <3>1. Bitstream(row) = construct_RT(row.func, p[1], p[2])
      BY <2>2 DEF Bitstream
    <3>2. row.func \in DOMAIN rt_to_op
      BY <2>0, <2>2, RowsAssumption DEF Row
    <3>. DEFINE s == p[1]
    <3>3. fields = cpu_decode_instr(construct_RT(row.func, s, p[2]))
      BY <2>0, <3>1
    <3>4. Registers(1) => s \in Register
      BY DEF Registers
    <3>. HIDE DEF s
    <3>5. Registers(1) =>
            /\ fields.opcode = {0} /\ fields.t = Small(rt_to_op[row.func])
            /\ fields.s = s /\ fields.i = p[2] \cap 0 .. 15
      BY <3>2, <3>3, <3>4, DecodeRT
    <3>. QED  BY <2>2, <3>5 DEF FieldsArrive, s
  <2>3. CASE row.type = "J"
    <3>1. Bitstream(row) = construct_J(row.func, p[1])
      BY <2>3 DEF Bitstream
    <3>2. fields = cpu_decode_instr(construct_J(row.func, p[1]))
      BY <2>0, <3>1
    <3>3. fields.opcode = Small(ij_to_op[row.func]) /\ fields.j = p[1] \cap 0 .. 25
      BY <3>2, DecodeJ
    <3>. QED  BY <2>3, <3>3 DEF FieldsArrive
  <2>4. CASE row.type = "I"
    <3>1. Bitstream(row) = construct_I(row.func, p[1], p[2], p[3])
      BY <2>4 DEF Bitstream
    <3>2. p[1] \in Word /\ p[2] \in Word
      BY <2>0, <2>4, RowParams
    <3>3. Registers(2) => p[1] \in Register /\ p[2] \in Register
      BY DEF Registers
    <3>. DEFINE s == p[1]
                t == p[2]
                imm == p[3]
    <3>4. fields = cpu_decode_instr(construct_I(row.func, s, t, imm)) /\ s \in Word /\ t \in Word
      BY <2>0, <3>1, <3>2
    <3>5. Registers(2) => s \in Register /\ t \in Register
      BY <3>3
    <3>. HIDE DEF s, t, imm
    <3>6. fields.i = imm \cap 0 .. 15
      BY <3>4, DecodeImm
    <3>7. ASSUME Registers(2)
          PROVE  fields.opcode = Small(ij_to_op[row.func]) /\ fields.s = s /\ fields.t = t
      <4>1. s \in Register /\ t \in Register
        BY <3>5, <3>7
      <4>. DEFINE f == cpu_decode_instr(construct_I(row.func, s, t, imm))
      <4>2. f.opcode = Small(ij_to_op[row.func]) /\ f.s = s /\ f.t = t
        BY <4>1, DecodeI
      <4>3. fields = f
        BY <3>4
      <4>. QED  BY <4>2, <4>3
    <3>. QED  BY <2>4, <3>6, <3>7 DEF FieldsArrive, s, t, imm
  <2>. QED  BY <2>0, <2>1, <2>2, <2>3, <2>4, RowParams
<1>. QED  BY <1>1, Invariance, PTL

(* A row's negative immediate reaches the instruction with its sign.          *)
THEOREM ImmediateSign == Spec => []ImmediateIsRead
<1>1. IInv => ImmediateIsRead
  <2>. SUFFICES ASSUME IInv, stage = "decoded", row.type = "I", HoldsIn16(row.params[3])
                PROVE  SignExtend(fields.i) = row.params[3]
    BY DEF ImmediateIsRead
  <2>. DEFINE x == row.params[3]
  <2>1. row \in Rows /\ fields = cpu_decode_instr(Bitstream(row))
    BY DEF IInv, TypeOK
  <2>2. Bitstream(row) = construct_I(row.func, row.params[1], row.params[2], x)
    BY DEF Bitstream
  <2>3. row.params[1] \in Word /\ row.params[2] \in Word /\ x \in Word
    BY <2>1, RowParams
  <2>. DEFINE s == row.params[1]
              t == row.params[2]
  <2>4. fields = cpu_decode_instr(construct_I(row.func, s, t, x)) /\ s \in Word /\ t \in Word
    BY <2>1, <2>2, <2>3
  <2>. HIDE DEF x, s, t
  <2>5. fields.i = x \cap 0 .. 15
    BY <2>4, DecodeImm
  <2>. QED  BY <2>3, <2>5 DEF SignExtend, HoldsIn16, Word, Bit, x
<1>. QED  BY <1>1, Invariance, PTL

----------------------------------------------------------------------------
(* The byte of weight 3 is the one at the lowest address, and its upper six   *)
(* bits are the opcode.                                                       *)
LEMMA FirstByte ==
  ASSUME NEW w \in Word
  PROVE  {k \in 0 .. 5 : k + 2 \in HostBytes(bswap32(w))[0]} = Shr(w, 26)
<1>1. ASSUME NEW k \in 0 .. 5
      PROVE  k + 2 \in HostBytes(bswap32(w))[0] <=> k + 26 \in w
  <2>1. HostBytes(bswap32(w))[0] = {b \in 0 .. 7 : b \in bswap32(w)}
    BY DEF HostBytes
  <2>2. k + 2 \in HostBytes(bswap32(w))[0] <=> k + 2 \in bswap32(w)
    BY <2>1
  <2>3. \A b \in w : b \in Bit /\ (8 * (3 - (b \div 8)) + (b % 8) = k + 2 <=> b = k + 26)
    BY DEF Word, Bit
  <2> QED BY <2>2, <2>3 DEF bswap32
<1>2. Shr(w, 26) = {k \in 0 .. 5 : k + 26 \in w}
  <2>1. ASSUME NEW k, k \in Shr(w, 26) PROVE k \in 0 .. 5 /\ k + 26 \in w
    <3>1. PICK b \in w : k = b - 26 /\ k \in Bit
      BY <2>1 DEF Shr
    <3> QED BY <3>1 DEF Word, Bit
  <2>2. ASSUME NEW k \in 0 .. 5, k + 26 \in w PROVE k \in Shr(w, 26)
    <3>1. k = (k + 26) - 26 /\ k \in Bit
      BY DEF Bit
    <3> QED BY <2>2, <3>1 DEF Shr
  <2> QED BY <2>1, <2>2
<1> QED BY <1>1, <1>2

LEMMA OpcodeOf ==
  ASSUME NEW r \in Rows
  PROVE  LET opcode == cpu_decode_instr(Bitstream(r)).opcode
         IN  /\ r.type = "R" => opcode = {}
             /\ r.type = "RT" /\ r.params[1] \in Register => opcode = {0}
             /\ r.type = "J" => opcode = Small(ij_to_op[r.func])
             /\ r.type = "I" /\ r.params[1] \in Register /\ r.params[2] \in Register
                  => opcode = Small(ij_to_op[r.func])
<1> DEFINE p == r.params
<1>1. CASE r.type = "R"
  <2>1. Bitstream(r) = construct_R(r.func, p[1], p[2], p[3], p[4])
    BY <1>1 DEF Bitstream
  <2> QED BY <1>1, <2>1, DecodeR
<1>2. CASE r.type = "RT"
  <2>1. Bitstream(r) = construct_RT(r.func, p[1], p[2])
    BY <1>2 DEF Bitstream
  <2>2. r.func \in DOMAIN rt_to_op
    BY <1>2, RowsAssumption DEF Row
  <2> QED BY <1>2, <2>1, <2>2, DecodeRT
<1>3. CASE r.type = "J"
  <2>1. Bitstream(r) = construct_J(r.func, p[1])
    BY <1>3 DEF Bitstream
  <2> QED BY <1>3, <2>1, DecodeJ
<1>4. CASE r.type = "I"
  <2>1. Bitstream(r) = construct_I(r.func, p[1], p[2], p[3])
    BY <1>4 DEF Bitstream
  <2> QED BY <1>4, <2>1, DecodeI
<1> QED BY <1>1, <1>2, <1>3, <1>4, RowParams

(* The opcode of every row is in the byte with the lowest address, as soon as *)
(* the row is in the memory.                                                  *)
THEOREM OpcodeFirst == Spec => []OpcodeComesFirst
<1>1. IInv => OpcodeComesFirst
  <2> SUFFICES ASSUME IInv, stage # "row" PROVE OpcodeComesFirst
    BY DEF OpcodeComesFirst
  <2>1. row \in Rows /\ mem = HostBytes(bswap32(Bitstream(row)))
    BY DEF IInv, TypeOK
  <2>2. \A opcode : cpu_decode_instr(Bitstream(row)).opcode = opcode => FirstByteIs(opcode)
    BY <2>1, BitstreamType, FirstByte DEF FirstByteIs, cpu_decode_instr
  <2>3. /\ Registers(1) => row.params[1] \in Register
        /\ Registers(2) => row.params[1] \in Register /\ row.params[2] \in Register
    BY DEF Registers
  <2> QED BY <2>1, <2>2, <2>3, OpcodeOf DEF OpcodeComesFirst
<1>. QED  BY <1>1, Invariance, PTL
=============================================================================
