-------------------------- MODULE MipsRunnerProofs --------------------------
(* The runners and the functions they run.  f_fibonacci is verified the way   *)
(* Floyd did it: for every address of the program, an assertion about the     *)
(* registers and the stack while the CPU is there, for the call in progress;  *)
(* and for each call that waits for another, what it will find again.         *)
EXTENDS MipsRunner, MipsExecProofs, SequenceTheorems

----------------------------------------------------------------------------
(* The invariant.                                                             *)

WordAt(ram, a) == FromBytes(mips_mem_read(ram, a, 4))
Text(words, ram) == \A k \in DOMAIN words : WordAt(ram, 4 * (k - 1)) = words[k]

Fib(n) == ToWord(Fibonacci[n])

FrameType == [n : Nat, return : Word, saved : [{16, 17, 18, 29} -> Word]]

(* The stack pointer of a call while it runs, and the registers it has put    *)
(* there by then.                                                             *)
Low(f) == f.saved[29] - 32
Spilled(f, ram) ==
  /\ WordAt(ram, Low(f) + 16) = f.saved[16]
  /\ WordAt(ram, Low(f) + 20) = f.saved[17]
  /\ WordAt(ram, Low(f) + 24) = f.saved[18]
  /\ WordAt(ram, Low(f) + 28) = f.return

(* The loop of f_fibonacci adds up in sum what fibonacci of m lacks to be     *)
(* fibonacci of n.                                                            *)
Lacks(n, sum, m) ==
  /\ m \in 0 .. n /\ m % 2 = n % 2
  /\ Plus(sum, Fib(m)) = Fib(n)

(* Call g waits in its loop for its call f.                                   *)
WaitsFor(g, f) ==
  /\ f.return = 52
  /\ f.saved[29] = Low(g)
  /\ f.saved[18] = g.n
  /\ f.n = f.saved[16] + 1
  /\ Lacks(g.n, f.saved[17], f.saved[16] + 2)

(* The calls lie on the stack one below the other, with room for those they   *)
(* will make.                                                                 *)
Stacked(calls, ram) ==
  /\ calls \in Seq(FrameType) /\ calls # << >>
  /\ calls[Len(calls)].return = SentinelPC
  /\ \A k \in 1 .. Len(calls) :
       /\ calls[k].saved[29] = StackTop - 32 * (Len(calls) - k)
       /\ calls[k].saved[29] - 32 * Depth(calls[k].n) >= 104
  /\ \A k \in 1 .. Len(calls) - 1 :
       /\ WaitsFor(calls[k + 1], calls[k])
       /\ Spilled(calls[k + 1], ram)

Flag(b) == IF b THEN 1 ELSE 0

(* What holds of call f at pc, where the registers are R.                     *)
Entering(f, pc, R, ram) ==
  /\ R[4] = f.n /\ R[31] = f.return
  /\ R[16] = f.saved[16] /\ R[17] = f.saved[17] /\ R[18] = f.saved[18]
  /\ R[29] = IF pc = 0 THEN f.saved[29] ELSE Low(f)
  /\ pc >= 8 => R[2] = Flag(f.n < 2)
  /\ pc >= 12 => WordAt(ram, Low(f) + 24) = f.saved[18]
  /\ pc >= 16 => WordAt(ram, Low(f) + 28) = f.return
  /\ pc >= 20 => WordAt(ram, Low(f) + 20) = f.saved[17]

Branching(f, pc, nPC, R) ==
  /\ R[4] = f.n
  /\ pc = 24 => R[2] = Flag(f.n < 2) /\ nPC = 28
  /\ pc = 28 => nPC = IF f.n < 2 THEN 96 ELSE 32

Starting(f, pc, R) ==
  /\ f.n >= 2 /\ R[4] = f.n /\ R[18] = f.n
  /\ pc = 36 => R[16] = f.n

Looping(f, pc, nPC, R) ==
  /\ R[18] = f.n /\ R[16] >= 2 /\ Lacks(f.n, R[17], R[16])
  /\ pc >= 44 => R[4] = R[16] - 1
  /\ pc = 48 => R[31] = 52 /\ nPC = 0
  /\ pc # 48 => nPC = pc + 4

Adding(f, pc, nPC, R) ==
  /\ R[18] = f.n /\ Lacks(f.n, R[17], R[16] + 2) /\ R[2] = Fib(R[16] + 1)
  /\ pc = 56 => R[3] = Flag(R[16] < 2)
  /\ nPC = IF pc = 60 /\ R[16] >= 2 THEN 40 ELSE pc + 4

Leaving(f, pc, nPC, R) ==
  /\ pc \in {68, 72} => Plus(R[17], R[18]) = Fib(f.n)
  /\ pc >= 72 => R[31] = f.return
  /\ pc >= 76 => R[2] = Fib(f.n)
  /\ pc >= 80 => R[16] = f.saved[16]
  /\ pc >= 84 => R[18] = f.saved[18]
  /\ pc >= 88 => R[17] = f.saved[17]
  /\ nPC = IF pc = 92 THEN f.return ELSE pc + 4

Assertion(f, pc, nPC, R, ram) ==
  /\ pc \in {4 * k : k \in 0 .. 25}
  /\ pc <= 20 => Entering(f, pc, R, ram) /\ nPC = pc + 4
  /\ pc > 20 => R[29] = Low(f) /\ Spilled(f, ram)
  /\ pc \in {24, 28} => Branching(f, pc, nPC, R)
  /\ pc \in {32, 36} => Starting(f, pc, R) /\ nPC = pc + 4
  /\ pc \in {40, 44, 48} => Looping(f, pc, nPC, R)
  /\ pc \in {52, 56, 60} => Adding(f, pc, nPC, R)
  /\ pc = 64 => R[18] = f.n /\ R[16] < 2 /\ Lacks(f.n, R[17], R[16]) /\ nPC = 68
  /\ pc \in 68 .. 92 => Leaving(f, pc, nPC, R)
  /\ pc \in {96, 100} => R[18] = f.n /\ f.n < 2 /\ nPC = IF pc = 96 THEN 100 ELSE 68

(* f_fibonacci at work.                                                       *)
Running(words, st, ram, calls) ==
  /\ st \in mips_cpu_impl /\ st.mem # NULL /\ st.regs[0] = 0
  /\ st.delay_slot = 0 /\ st.jPC = 0
  /\ ram \in RamData
  /\ IsBinary(words, f_fibonacci) /\ Text(words, ram)
  /\ Stacked(calls, ram)
  /\ Assertion(Head(calls), st.pc, st.nPC, st.regs, ram)

(* Running over a RAM of zeros.                                               *)
Idling ==
  /\ Decode(0) = Nop
  /\ data = [a \in RamAddress |-> 0]
  /\ cpu.pc % 4 = 0 /\ cpu.pc <= CbMem /\ cpu.nPC = Plus(cpu.pc, 4)
  /\ \A k \in 1 .. Len(frames) : frames[k].return = SentinelPC

Fresh == cpu = Created(cpu.mem)

RunnerInv ==
  /\ cpu \in mips_cpu_impl /\ cpu.mem \in RamHandles
  /\ data \in RamData
  /\ cpu.delay_slot = 0 /\ cpu.jPC = 0
  /\ frames \in Seq(FrameType)
  /\ program = "run_fibonacci" => input \in FibonacciInputs /\ file \in FibonacciFiles
  /\ program = "run_addu" => input \in AdduInputs /\ file \in AdduFiles
  /\ program \in {"run_fibonacci", "run_addu"}
  /\ offset \in 0 .. Len(file)
  /\ stage \in {"open", "no file", "load", "memory error", "loop", "returned", "reset", "call"}
  /\ stage \in {"open", "load", "memory error"} => Fresh
  /\ stage = "open" => offset = 0
  /\ stage = "load" => Text(SubSeq(file, 1, offset), data)
  /\ stage \in {"open", "load"} /\ file = << >> => data = FreshRam
  /\ stage \notin {"loop", "returned"} => frames = << >>
  /\ stage = "load" => offset = 0 \/ (cpu.mem # NULL /\ 4 * offset <= CbMem)
  /\ stage = "memory error" => cpu.mem = NULL \/ 4 * Len(file) > CbMem
  /\ stage \in {"loop", "reset", "call", "returned"} => Text(file, data)
  /\ stage = "loop" =>
       /\ program = "run_fibonacci"
       /\ IF file = << >> THEN Idling ELSE Running(file, cpu, data, frames)
  /\ stage \in {"reset", "call"} =>
       program = "run_addu" /\ IsBinary(file, f_addu) /\ cpu.mem # NULL /\ 8 <= CbMem
  /\ stage = "call" =>
       /\ cpu.pc = 4 /\ cpu.nPC = SentinelPC
       /\ cpu.regs[4] = input[3] /\ cpu.regs[5] = input[4]
  /\ stage = "returned" /\ file # << >> => frames = << >>

----------------------------------------------------------------------------
(* Numbers.  The offsets of the functions are small for a half.               *)

LEMMA Wide ==
  ASSUME ByteBits >= 4
  PROVE  /\ HalfSize \in Nat /\ HalfSize >= 256 /\ HalfSize % 2 = 0
         /\ WordSize \in Nat /\ WordSize >= 65536 /\ WordSize > HalfSize
         /\ \E w \in Nat : WordSize = 65536 * w
<1>1. 2 ^ 4 = 16
  <2>1. 2 ^ (0 + 1) = 2 * 2 ^ 0 /\ 2 ^ (1 + 1) = 2 * 2 ^ 1 /\ 2 ^ (2 + 1) = 2 * 2 ^ 2
        /\ 2 ^ (3 + 1) = 2 * 2 ^ 3
    BY BitCounts, PowerAssumption
  <2> QED BY <2>1, PowerAssumption
<1> DEFINE k == ByteBits - 4
           b == 2 ^ k
<1>2. k \in Nat /\ ByteBits = 4 + k /\ ByteBits <= WordBits + 1 /\ 4 \in Nat
  BY BitCounts
<1>3. b \in Nat \ {0}
  BY <1>2, BitCounts, PowerType
<1> HIDE DEF k
<1>4. 2 ^ ByteBits = 2 ^ 4 * b
  BY <1>2, PowerSum
<1> HIDE DEF b
<1>5. ByteSize = 16 * b
  BY <1>1, <1>4 DEF ByteSize
<1>6. HalfSize = 256 * (b * b) /\ b * b \in Nat \ {0}
  BY <1>3, <1>5 DEF HalfSize
<1>7. WordSize = 65536 * ((b * b) * (b * b)) /\ (b * b) * (b * b) \in Nat \ {0}
  BY <1>6 DEF WordSize
<1>8. HalfSize >= 256 /\ HalfSize % 2 = 0 /\ HalfSize \in Nat
  BY <1>6
<1>9. WordSize >= 65536 /\ WordSize \in Nat
  BY <1>7
<1>10. WordSize > HalfSize
  BY SizeFacts
<1> QED BY <1>7, <1>8, <1>9, <1>10

LEMMA PlusSmall ==
  ASSUME NEW x \in Int, NEW y \in Int, 0 <= x + y, x + y < WordSize
  PROVE  Plus(x, y) = x + y
BY SizeFacts DEF Plus

LEMMA PlusNegative ==
  ASSUME NEW x \in Word, NEW c \in 1 .. x
  PROVE  Plus(x, WordSize - c) = x - c
<1>1. x - c \in 0 .. WordSize - 1 /\ WordSize \in Nat \ {0} /\ x \in Int /\ c \in Int
  BY WordIsInt, SizeFacts
<1>2. (1 * WordSize + (x - c)) % WordSize = x - c
  BY <1>1, DivMod, SMTT(30)
<1>3. x + (WordSize - c) = 1 * WordSize + (x - c)
  BY <1>1
<1> QED BY <1>2, <1>3 DEF Plus

(* The immediates c and -c, from the half in the instruction to the word.     *)
LEMMA Immediates ==
  ASSUME ByteBits >= 4, NEW c \in 1 .. 100
  PROVE  /\ c % HalfSize = c /\ c \in Half /\ SignExtendHalf(c) = c
         /\ (-c) % HalfSize = HalfSize - c /\ HalfSize - c \in Half
         /\ SignExtendHalf(HalfSize - c) = WordSize - c
<1>1. HalfSize \in Nat \ {0} /\ HalfSize >= 256 /\ HalfSize % 2 = 0 /\ WordSize \in Nat
      /\ WordSize > HalfSize
  BY Wide
<1>2. HalfSize \div 2 >= 128 /\ HalfSize \div 2 <= HalfSize - 128
  BY <1>1
<1>3. ((-1) * HalfSize + (HalfSize - c)) % HalfSize = HalfSize - c
  BY <1>1, DivMod, SMTT(30)
<1>4. (-1) * HalfSize + (HalfSize - c) = -c
  BY <1>1
<1>5. c % HalfSize = c
  BY <1>1
<1> HIDE DEF HalfSize, WordSize
<1> QED BY <1>1, <1>2, <1>3, <1>4, <1>5 DEF SignExtendHalf, Half

LEMMA PlusAssociates ==
  ASSUME NEW x \in Word, NEW y \in Word, NEW z \in Word
  PROVE  Plus(x, Plus(y, z)) = Plus(Plus(x, y), z)
<1>1. \A p, q \in Word : \/ p + q < WordSize /\ Plus(p, q) = p + q
                         \/ p + q >= WordSize /\ Plus(p, q) = (p + q) - WordSize
  <2> TAKE p, q \in Word
  <2>1. p \in Int /\ q \in Int /\ p >= 0 /\ q >= 0 /\ p < WordSize /\ q < WordSize /\ WordSize \in Nat \ {0}
    BY WordIsInt, SizeFacts
  <2>2. CASE p + q >= WordSize
    <3> DEFINE r == (p + q) - WordSize
    <3>1. r \in 0 .. WordSize - 1
      BY <2>1, <2>2
    <3>2. r \in Int /\ p + q = 1 * WordSize + r
      BY <2>1
    <3> HIDE DEF r
    <3>3. (1 * WordSize + r) % WordSize = r
      BY <2>1, <3>1, DivMod, SMTT(30)
    <3>4. Plus(p, q) = r
      BY <3>2, <3>3 DEF Plus
    <3> QED BY <2>2, <3>4 DEF r
  <2>3. CASE p + q < WordSize
    BY <2>1, <2>3, PlusSmall
  <2> QED BY <2>1, <2>2, <2>3
<1>2. Plus(x, y) \in Word /\ Plus(y, z) \in Word
  BY PlusType, WordIsInt
<1>3. \A p \in {x, y, z, Plus(x, y), Plus(y, z)} : p \in Int /\ p >= 0 /\ p < WordSize
  BY <1>2, WordIsInt
<1>4. Plus(x, Plus(y, z)) \in Word /\ Plus(Plus(x, y), z) \in Word
  BY <1>2, WordIsInt, PlusType
<1>5. /\ Plus(x, y) = x + y \/ Plus(x, y) = (x + y) - WordSize
      /\ Plus(y, z) = y + z \/ Plus(y, z) = (y + z) - WordSize
  BY <1>1
<1>6. /\ \/ Plus(x, Plus(y, z)) = x + Plus(y, z)
         \/ Plus(x, Plus(y, z)) = (x + Plus(y, z)) - WordSize
      /\ \/ Plus(Plus(x, y), z) = Plus(x, y) + z
         \/ Plus(Plus(x, y), z) = (Plus(x, y) + z) - WordSize
  BY <1>1, <1>2
<1>7. /\ Plus(x, Plus(y, z)) \in Int /\ Plus(x, Plus(y, z)) >= 0 /\ Plus(x, Plus(y, z)) < WordSize
      /\ Plus(Plus(x, y), z) \in Int /\ Plus(Plus(x, y), z) >= 0 /\ Plus(Plus(x, y), z) < WordSize
  BY <1>4, WordIsInt
<1> DEFINE p == Plus(x, y)
           q == Plus(y, z)
           m == Plus(x, q)
           n == Plus(p, z)
<1>8. /\ p \in Int /\ q \in Int /\ m \in Int /\ n \in Int /\ x \in Int /\ y \in Int /\ z \in Int
      /\ p = x + y \/ p = (x + y) - WordSize
      /\ q = y + z \/ q = (y + z) - WordSize
      /\ m = x + q \/ m = (x + q) - WordSize
      /\ n = p + z \/ n = (p + z) - WordSize
      /\ m >= 0 /\ m < WordSize /\ n >= 0 /\ n < WordSize
  BY <1>3, <1>5, <1>6, <1>7
<1> HIDE DEF p, q, m, n
<1>9. m = n
  BY <1>8, SizeFacts
<1> QED BY <1>9 DEF p, q, m, n

----------------------------------------------------------------------------
(* Memory, a word at a time.                                                  *)

LEMMA WordWritten ==
  ASSUME NEW ram \in RamData, NEW a \in Nat, a + 4 <= CbMem, NEW v \in Word, NEW bytes,
         \A k \in 0 .. 3 : bytes[k] = ByteOf(v, 3 - k)
  PROVE  /\ mips_mem_write(ram, a, 4, bytes) \in RamData
         /\ WordAt(mips_mem_write(ram, a, 4, bytes), a) = v
<1>0. a \in Word /\ CbMem \in Nat
  BY RamAssumption, SizeFacts, WordMultiple DEF Word
<1>1. \A k \in 0 .. 3 : bytes[k] \in Byte
  BY ByteOfType
<1>2. mips_mem_write(ram, a, 4, bytes) \in RamData
  BY <1>0, <1>1, MemWriteType
<1>3. \A k \in 0 .. 3 : mips_mem_write(ram, a, 4, bytes)[a + k] = bytes[k]
  <2> TAKE k \in 0 .. 3
  <2>1. a + k \in RamAddress /\ DOMAIN ram = RamAddress /\ a + k \in a .. a + 4 - 1
        /\ (a + k) - a = k
    BY <1>0 DEF RamAddress, RamData
  <2> QED BY <2>1 DEF mips_mem_write
<1>4. \A k \in 0 .. 3 :
        mips_mem_read(mips_mem_write(ram, a, 4, bytes), a, 4)[k] = ByteOf(v, 3 - k)
  BY <1>3 DEF mips_mem_read
<1>5. /\ 0 \in 0 .. 3 /\ 1 \in 0 .. 3 /\ 2 \in 0 .. 3 /\ 3 \in 0 .. 3
      /\ 3 - 0 = 3 /\ 3 - 1 = 2 /\ 3 - 2 = 1 /\ 3 - 3 = 0
  OBVIOUS
<1>6. WordAt(mips_mem_write(ram, a, 4, bytes), a)
        = JoinWord(ByteOf(v, 3), ByteOf(v, 2), ByteOf(v, 1), ByteOf(v, 0))
  BY <1>4, <1>5 DEF WordAt, FromBytes
<1> QED BY <1>2, <1>6, JoinOfBytes

LEMMA WordBeside ==
  ASSUME NEW ram \in RamData, NEW a \in Nat, NEW b \in Nat, b + 4 <= CbMem,
         b + 4 <= a \/ a + 4 <= b, NEW bytes
  PROVE  WordAt(mips_mem_write(ram, a, 4, bytes), b) = WordAt(ram, b)
<1>1. \A k \in 0 .. 3 : mips_mem_write(ram, a, 4, bytes)[b + k] = ram[b + k]
  <2> TAKE k \in 0 .. 3
  <2>1. b + k \in RamAddress /\ DOMAIN ram = RamAddress /\ b + k \notin a .. a + 4 - 1
    BY RamAssumption DEF RamAddress, RamData
  <2> QED BY <2>1 DEF mips_mem_write
<1> QED BY <1>1 DEF WordAt, mips_mem_read, FromBytes

LEMMA WordRead ==
  ASSUME NEW ram \in RamData, NEW a \in Nat, a + 4 <= CbMem
  PROVE  WordAt(ram, a) \in Word
<1>1. \A k \in 0 .. 3 : mips_mem_read(ram, a, 4)[k] \in Byte
  BY RamAssumption DEF mips_mem_read, RamData, RamAddress
<1> QED BY <1>1, FromBytesType DEF WordAt

LEMMA WordAccepted ==
  ASSUME NEW a \in Nat, a + 4 <= CbMem, a % 4 = 0
  PROVE  a \in Word /\ mips_mem_read_write("ram", CbMem, a, 4) = Success
<1>1. a \in Word /\ 4 \in Word
  BY RamAssumption, SizeFacts, WordMultiple DEF Word
<1>2. "ram" \in Handle /\ "ram" # NULL
  BY DEF Handle, NULL
<1> QED BY <1>1, <1>2, RamCheckExact

----------------------------------------------------------------------------
(* The instructions of the functions, one step each.                          *)

Fetches(st, ram, ins) ==
  /\ st \in mips_cpu_impl /\ st.delay_slot = 0 /\ st.jPC = 0
  /\ ram \in RamData
  /\ mips_mem_read_write(st.mem, CbMem, st.pc, 4) = Success
  /\ Decode(WordAt(ram, st.pc)) = ins

(* The step succeeds and leaves these registers and this RAM; it goes to the  *)
(* place nPC had for it and leaves there the place after that.                *)
Steps(st, ram, regs, ram2, nPC) ==
  LET o == Execute(st, ram)
      st2 == StepState(o)
  IN  /\ o.err = Success /\ o.data = ram2
      /\ st2 \in mips_cpu_impl
      /\ st2.pc = st.nPC /\ st2.nPC = nPC /\ st2.delay_slot = 0 /\ st2.jPC = 0
      /\ st2.regs = regs /\ st2.mem = st.mem

LEMMA SuccessIs == Success # Killed /\ Success # InvalidAlignment
BY DEF Success, Killed, InvalidAlignment

LEMMA Stepped ==
  ASSUME NEW st, NEW ram, NEW ins, Fetches(st, ram, ins), NEW st2, NEW ram2,
         Execute(st, ram) = [state |-> st2, data |-> ram2, err |-> Success]
  PROVE  /\ st2.delay_slot = 0 /\ st2.jPC = 0 => Steps(st, ram, st2.regs, ram2, Plus(st.nPC, 4))
         /\ st2.delay_slot = 1 => Steps(st, ram, st2.regs, ram2, st2.jPC)
<1>1. st \in mips_cpu_impl /\ ram \in RamData
  BY DEF Fetches
<1>2. st2 \in mips_cpu_impl /\ st2.nPC = st.nPC /\ st2.mem = st.mem
  <2>1. GoodOutcome(st, ram, [state |-> st2, data |-> ram2, err |-> Success])
    BY <1>1, ExecuteGood
  <2> QED BY <2>1 DEF GoodOutcome, GoodReturn, Kept
<1> DEFINE o == Execute(st, ram)
<1>3. o.err = Success /\ o.data = ram2 /\ StepState(o) = mips_cpu_increment_pc(st2)
  BY DEF StepState
<1> DEFINE st3 == mips_cpu_increment_pc(st2)
<1>4. /\ st3 \in mips_cpu_impl /\ st3.pc = st2.nPC /\ st3.delay_slot = 0
      /\ st3.regs = st2.regs /\ st3.mem = st2.mem
      /\ st2.delay_slot = 0 => st3.nPC = Plus(st2.nPC, 4) /\ st3.jPC = st2.jPC
      /\ st2.delay_slot = 1 => st3.nPC = st2.jPC /\ st3.jPC = 0
  BY <1>2, IncrementType
<1> HIDE DEF st3
<1> QED BY <1>2, <1>3, <1>4 DEF Steps, st3

LEMMA OpcodeCases ==
  ASSUME NEW st, NEW ram, NEW ins, Fetches(st, ram, ins)
  PROVE  /\ ins.opcode = 0 => Execute(st, ram) =
              LET r == cpu_execute_r(ins, st) IN [state |-> r.state, data |-> ram, err |-> r.err]
         /\ ins.opcode \in 2 .. 3 => Execute(st, ram) =
              LET r == cpu_execute_j(ins.j, ins.opcode, st)
              IN  [state |-> r.state, data |-> ram, err |-> r.err]
         /\ ins.opcode \in 4 .. 15 => Execute(st, ram) =
              LET r == cpu_execute_immediate(ins.s, ins.t, ins.i, ins.opcode, st)
              IN  [state |-> r.state, data |-> ram, err |-> r.err]
         /\ ins.opcode \in {\h23, \h2b} => Execute(st, ram) =
              cpu_memory_funcs(ins.opcode, ins.s, ins.t, SignExtendHalf(ins.i), st, ram)
<1> DEFINE With(r) == [state |-> r.state, data |-> ram, err |-> r.err]
<1>1. mips_mem_read_write(st.mem, CbMem, st.pc, 4) = Success
      /\ ins = Decode(FromBytes(mips_mem_read(ram, st.pc, 4)))
  BY DEF Fetches, WordAt
<1>2. Execute(st, ram) =
        CASE ins.opcode \notin opcode_to_str -> With(Return(st, Killed))
          [] ins.opcode \in Unimplemented -> With(Return(st, NotImplemented))
          [] ins.opcode = \h0 -> With(cpu_execute_r(ins, st))
          [] ins.opcode = \h1 -> With(cpu_execute_rt(ins.s, ins.t, ins.i, st))
          [] ins.opcode \in \h2 .. \h3 -> With(cpu_execute_j(ins.j, ins.opcode, st))
          [] ins.opcode \in \h4 .. \hf ->
               With(cpu_execute_immediate(ins.s, ins.t, ins.i, ins.opcode, st))
          [] ins.opcode \in Loads \cup \h28 .. \h2b \cup {\h2e} ->
               cpu_memory_funcs(ins.opcode, ins.s, ins.t, SignExtendHalf(ins.i), st, ram)
  BY <1>1 DEF Execute
<1>3. ins.opcode \in 0 .. 15 \cup {\h23, \h2b} =>
        ins.opcode \in opcode_to_str /\ ins.opcode \notin Unimplemented
  BY DEF opcode_to_str, Unimplemented, Loads
<1>4. ins.opcode \in {\h23, \h2b} =>
        ins.opcode \notin 0 .. 15 /\ ins.opcode \in Loads \cup \h28 .. \h2b \cup {\h2e}
  BY DEF Loads
<1>5. ins.opcode \in 0 .. 15 => ins.opcode \notin Loads \cup \h28 .. \h2b \cup {\h2e}
  BY DEF Loads
<1>6. ins.opcode = 0 => Execute(st, ram) = With(cpu_execute_r(ins, st))
  <2> HIDE DEF With
  <2> QED BY <1>2, <1>3, <1>5
<1>7. ins.opcode \in 2 .. 3 => Execute(st, ram) = With(cpu_execute_j(ins.j, ins.opcode, st))
  <2> HIDE DEF With
  <2> QED BY <1>2, <1>3, <1>5
<1>8. ins.opcode \in 4 .. 15 =>
        Execute(st, ram) = With(cpu_execute_immediate(ins.s, ins.t, ins.i, ins.opcode, st))
  <2> HIDE DEF With
  <2> QED BY <1>2, <1>3, <1>5
<1>9. ins.opcode \in {\h23, \h2b} => Execute(st, ram) =
        cpu_memory_funcs(ins.opcode, ins.s, ins.t, SignExtendHalf(ins.i), st, ram)
  <2> HIDE DEF With
  <2> QED BY <1>2, <1>3, <1>4
<1> QED BY <1>6, <1>7, <1>8, <1>9

(* What OpcodeCases gives for a result r in which the RAM stays as it is.     *)
LEMMA SteppedBy ==
  ASSUME NEW st, NEW ram, NEW ins, Fetches(st, ram, ins), NEW r, NEW st2,
         Execute(st, ram) = [state |-> r.state, data |-> ram, err |-> r.err],
         r = Return(st2, Success)
  PROVE  /\ st2.delay_slot = 0 /\ st2.jPC = 0 => Steps(st, ram, st2.regs, ram, Plus(st.nPC, 4))
         /\ st2.delay_slot = 1 => Steps(st, ram, st2.regs, ram, st2.jPC)
<1>1. Execute(st, ram) = [state |-> st2, data |-> ram, err |-> Success]
  BY DEF Return
<1> QED BY <1>1, Stepped

LEMMA SetsReg ==
  ASSUME NEW st, NEW ram, NEW ins, Fetches(st, ram, ins), NEW r, NEW d, NEW v,
         Execute(st, ram) = [state |-> r.state, data |-> ram, err |-> r.err],
         r = Return(SetReg(st, d, v), Success)
  PROVE  Steps(st, ram, [st.regs EXCEPT ![d] = v], ram, Plus(st.nPC, 4))
<1>1. st \in mips_cpu_impl /\ st.delay_slot = 0 /\ st.jPC = 0
  BY DEF Fetches
<1>2. /\ SetReg(st, d, v).delay_slot = 0 /\ SetReg(st, d, v).jPC = 0
      /\ SetReg(st, d, v).regs = [st.regs EXCEPT ![d] = v]
  BY <1>1 DEF SetReg, mips_cpu_impl
<1>3. Steps(st, ram, SetReg(st, d, v).regs, ram, Plus(st.nPC, 4))
  BY <1>2, SteppedBy
<1> QED BY <1>2, <1>3

LEMMA AdduSteps ==
  ASSUME NEW st, NEW ram, NEW s \in Reg, NEW t \in Reg, NEW d \in Reg \ {0},
         Fetches(st, ram, Addu(d, s, t))
  PROVE  Steps(st, ram, [st.regs EXCEPT ![d] = Plus(st.regs[s], st.regs[t])], ram,
               Plus(st.nPC, 4))
<1> DEFINE ins == Addu(d, s, t)
<1>1. /\ ins.opcode = 0 /\ ins.s = s /\ ins.t = t /\ ins.d = d /\ ins.sh = 0 /\ ins.fn = 33
  BY DEF Addu, RIns
<1> HIDE DEF ins
<1>2. ~Reserved(ins)
  BY <1>1 DEF Reserved
<1>3. cpu_execute_r(ins, st) = add_sub_bitwise(s, t, d, 33, st)
  BY <1>1, <1>2 DEF cpu_execute_r
<1>4. add_sub_bitwise(s, t, d, 33, st)
        = Return(SetReg(st, d, Plus(st.regs[s], st.regs[t])), Success)
  BY d # 0 DEF add_sub_bitwise
<1>5. Fetches(st, ram, ins)
  BY DEF ins
<1>6. Execute(st, ram) = LET r == cpu_execute_r(ins, st)
                         IN  [state |-> r.state, data |-> ram, err |-> r.err]
  BY <1>1, <1>5, OpcodeCases
<1> QED BY <1>3, <1>4, <1>5, <1>6, SetsReg

LEMMA ImmediateSteps ==
  ASSUME NEW st, NEW ram, NEW opcode \in {9, 11, 12}, NEW s \in Reg, NEW t \in Reg \ {0},
         NEW imm, Fetches(st, ram, IIns(opcode, s, t, imm))
  PROVE  LET i == imm % HalfSize
             Sets(v) == Steps(st, ram, [st.regs EXCEPT ![t] = v], ram, Plus(st.nPC, 4))
         IN  /\ opcode = 9 => Sets(Plus(st.regs[s], SignExtendHalf(i)))
             /\ opcode = 11 => Sets(Flag(st.regs[s] < SignExtendHalf(i)))
             /\ opcode = 12 => Sets(AndWord(st.regs[s], i))
<1> DEFINE ins == IIns(opcode, s, t, imm)
           i == imm % HalfSize
           v == CASE opcode = 9 -> Plus(st.regs[s], SignExtendHalf(i))
                  [] opcode = 11 -> Flag(st.regs[s] < SignExtendHalf(i))
                  [] opcode = 12 -> AndWord(st.regs[s], i)
<1>1. ins.opcode = opcode /\ ins.s = s /\ ins.t = t /\ ins.i = i
  BY DEF IIns
<1> HIDE DEF ins, i
<1>2. cpu_execute_immediate(s, t, i, opcode, st) = Return(SetReg(st, t, v), Success)
  <2>1. CASE opcode = 9
    BY <2>1, t # 0 DEF cpu_execute_immediate
  <2>2. CASE opcode = 11
    BY <2>2, t # 0 DEF cpu_execute_immediate, Flag
  <2>3. CASE opcode = 12
    BY <2>3, t # 0 DEF cpu_execute_immediate
  <2> QED BY <2>1, <2>2, <2>3
<1>3. Fetches(st, ram, ins)
  BY DEF ins
<1>4. Execute(st, ram) = LET r == cpu_execute_immediate(s, t, i, opcode, st)
                         IN  [state |-> r.state, data |-> ram, err |-> r.err]
  BY <1>1, <1>3, OpcodeCases
<1> HIDE DEF v
<1>5. Steps(st, ram, [st.regs EXCEPT ![t] = v], ram, Plus(st.nPC, 4))
  BY <1>2, <1>3, <1>4, SetsReg
<1>6. /\ opcode = 9 => v = Plus(st.regs[s], SignExtendHalf(i))
      /\ opcode = 11 => v = Flag(st.regs[s] < SignExtendHalf(i))
      /\ opcode = 12 => v = AndWord(st.regs[s], i)
  BY DEF v
<1> QED BY <1>5, <1>6 DEF i

LEMMA Jumps ==
  ASSUME NEW st, NEW ram, NEW ins, Fetches(st, ram, ins), NEW r, NEW target,
         Execute(st, ram) = [state |-> r.state, data |-> ram, err |-> r.err]
  PROVE  /\ r = Return(mips_cpu_jump(target, 0, st), Success) =>
              Steps(st, ram, st.regs, ram, target)
         /\ r = Return(mips_cpu_jump(target, 31, st), Success) =>
              Steps(st, ram, [st.regs EXCEPT ![31] = Plus(st.pc, 8)], ram, target)
<1>1. st \in mips_cpu_impl
  BY DEF Fetches
<1> DEFINE j0 == mips_cpu_jump(target, 0, st)
           j31 == mips_cpu_jump(target, 31, st)
<1>2. j0.delay_slot = 1 /\ j0.jPC = target /\ j0.regs = st.regs
  BY <1>1 DEF mips_cpu_jump, mips_cpu_impl
<1>3. /\ j31.delay_slot = 1 /\ j31.jPC = target
      /\ j31.regs = [st.regs EXCEPT ![31] = Plus(st.pc, 8)]
  BY <1>1 DEF mips_cpu_jump, mips_cpu_impl, SetReg
<1> HIDE DEF j0, j31
<1>4. r = Return(j0, Success) => Steps(st, ram, j0.regs, ram, j0.jPC)
  BY <1>2, SteppedBy
<1>5. r = Return(j31, Success) => Steps(st, ram, j31.regs, ram, j31.jPC)
  BY <1>3, SteppedBy
<1> QED BY <1>2, <1>3, <1>4, <1>5 DEF j0, j31

(* BEQ and BNE.                                                               *)
Taken(opcode, x, y) == (opcode = 4) = (x = y)

LEMMA BranchSteps ==
  ASSUME NEW st, NEW ram, NEW opcode \in {4, 5}, NEW s \in Reg, NEW t \in Reg,
         NEW imm, Fetches(st, ram, IIns(opcode, s, t, imm))
  PROVE  Steps(st, ram, st.regs, ram,
               IF Taken(opcode, st.regs[s], st.regs[t])
               THEN BranchTarget(imm % HalfSize, st) ELSE Plus(st.nPC, 4))
<1> DEFINE ins == IIns(opcode, s, t, imm)
           i == imm % HalfSize
           r == cpu_execute_immediate(s, t, i, opcode, st)
<1>1. ins.opcode = opcode /\ ins.s = s /\ ins.t = t /\ ins.i = i
  BY DEF IIns
<1> HIDE DEF ins, i
<1>2. r = Return(IF Taken(opcode, st.regs[s], st.regs[t])
                 THEN mips_cpu_jump(BranchTarget(i, st), 0, st) ELSE st, Success)
  <2>1. CASE opcode = 4
    BY <2>1 DEF cpu_execute_immediate, Taken
  <2>2. CASE opcode = 5
    BY <2>2 DEF cpu_execute_immediate, Taken
  <2> QED BY <2>1, <2>2
<1>3. Fetches(st, ram, ins)
  BY DEF ins
<1>4. Execute(st, ram) = [state |-> r.state, data |-> ram, err |-> r.err]
  BY <1>1, <1>3, OpcodeCases
<1>5. st.delay_slot = 0 /\ st.jPC = 0
  BY DEF Fetches
<1> HIDE DEF r
<1>6. CASE Taken(opcode, st.regs[s], st.regs[t])
  <2>1. r = Return(mips_cpu_jump(BranchTarget(i, st), 0, st), Success)
    BY <1>2, <1>6
  <2>2. Steps(st, ram, st.regs, ram, BranchTarget(i, st))
    BY <1>3, <1>4, <2>1, Jumps
  <2> QED BY <1>6, <2>2 DEF i
<1>7. CASE ~Taken(opcode, st.regs[s], st.regs[t])
  <2>1. r = Return(st, Success)
    BY <1>2, <1>7
  <2>2. Steps(st, ram, st.regs, ram, Plus(st.nPC, 4))
    BY <1>3, <1>4, <1>5, <2>1, SteppedBy
  <2> QED BY <1>7, <2>2
<1> QED BY <1>6, <1>7

LEMMA BranchGoesTo ==
  ASSUME ByteBits >= 4, NEW st \in mips_cpu_impl, st.pc <= 104, NEW c \in 1 .. 100
  PROVE  /\ BranchTarget(c % HalfSize, st) = st.pc + 4 + 4 * c
         /\ st.pc + 4 >= 4 * c => BranchTarget((-c) % HalfSize, st) = st.pc + 4 - 4 * c
<1>1. st.pc \in Nat /\ WordSize \in Nat \ {0} /\ WordSize >= 65536
  BY FieldTypes, WordIsInt, Wide
<1> DEFINE pc == st.pc
<1>2. 4 * c + pc + 4 \in 0 .. WordSize - 1 /\ pc \in Int
  BY <1>1
<1> HIDE DEF pc, WordSize
<1>3. BranchTarget(c % HalfSize, st) = pc + 4 + 4 * c
  <2>1. (0 * WordSize + (4 * c + pc + 4)) % WordSize = 4 * c + pc + 4
    <3>1. 0 \in Int /\ 4 * c + pc + 4 \in 0 .. WordSize - 1 /\ WordSize \in Nat \ {0}
      BY <1>1, <1>2
    <3> QED BY ONLY <3>1, DivMod
  <2>2. 4 * SignExtendHalf(c % HalfSize) + st.pc + 4 = 0 * WordSize + (4 * c + pc + 4)
    BY <1>1, Immediates DEF pc
  <2> QED BY <1>2, <2>1, <2>2 DEF BranchTarget, ToWord
<1>4. ASSUME pc + 4 >= 4 * c
      PROVE  BranchTarget((-c) % HalfSize, st) = pc + 4 - 4 * c
  <2>0. pc + 4 - 4 * c \in 0 .. WordSize - 1
    BY <1>1, <1>2, <1>4
  <2>1. (4 * WordSize + (pc + 4 - 4 * c)) % WordSize = pc + 4 - 4 * c
    <3>1. 4 \in Int /\ pc + 4 - 4 * c \in 0 .. WordSize - 1 /\ WordSize \in Nat \ {0}
      BY <1>1, <2>0
    <3> QED BY ONLY <3>1, DivMod
  <2>2. 4 * SignExtendHalf((-c) % HalfSize) + st.pc + 4 = 4 * WordSize + (pc + 4 - 4 * c)
    <3>1. SignExtendHalf((-c) % HalfSize) = WordSize - c
      BY Immediates
    <3> QED BY <1>1, <1>2, <3>1 DEF pc
  <2> QED BY <2>1, <2>2 DEF BranchTarget, ToWord
<1> QED BY <1>3, <1>4 DEF pc

LEMMA JumpSteps ==
  ASSUME ByteBits >= 4, NEW st, NEW ram, NEW j \in Nat, NEW opcode \in {2, 3},
         Fetches(st, ram, JIns(opcode, j)), st.nPC <= 104
  PROVE  /\ opcode = 2 => Steps(st, ram, st.regs, ram, 4 * j)
         /\ opcode = 3 =>
              Steps(st, ram, [st.regs EXCEPT ![31] = Plus(st.pc, 8)], ram, 4 * j)
<1> DEFINE ins == JIns(opcode, j)
           r == cpu_execute_j(j, opcode, st)
<1>1. ins.opcode = opcode /\ ins.j = j
  BY DEF JIns
<1> HIDE DEF ins
<1>2. Fetches(st, ram, ins)
  BY DEF ins
<1>3. Execute(st, ram) = [state |-> r.state, data |-> ram, err |-> r.err]
  BY <1>1, <1>2, OpcodeCases
<1>4. (st.nPC \div JumpRegion) * JumpRegion + 4 * j = 4 * j
  <2>1. JumpRegion \in Nat /\ JumpRegion >= 4096
    <3>1. WordSize \in Nat /\ WordSize >= 65536
      BY Wide
    <3> HIDE DEF WordSize
    <3> QED BY <3>1 DEF JumpRegion
  <2>2. st.nPC \in Nat
    BY <1>2, FieldTypes, WordIsInt DEF Fetches
  <2> HIDE DEF JumpRegion
  <2>3. (0 * JumpRegion + st.nPC) \div JumpRegion = 0
    <3>1. st.nPC \in 0 .. JumpRegion - 1 /\ JumpRegion \in Nat \ {0} /\ 0 \in Int
      BY <2>1, <2>2
    <3> QED BY <3>1, DivMod
  <2>4. 0 * JumpRegion + st.nPC = st.nPC /\ 0 * JumpRegion = 0
    BY <2>1, <2>2
  <2> QED BY <2>3, <2>4
<1>5. r = Return(mips_cpu_jump(4 * j, IF opcode = 3 THEN 31 ELSE 0, st), Success)
  BY <1>4 DEF cpu_execute_j
<1> HIDE DEF r
<1> QED BY <1>2, <1>3, <1>5, Jumps

LEMMA JrSteps ==
  ASSUME NEW st, NEW ram, NEW s \in Reg, Fetches(st, ram, RIns(\h8, s, 0, 0))
  PROVE  Steps(st, ram, st.regs, ram, st.regs[s])
<1> DEFINE ins == RIns(\h8, s, 0, 0)
           r == cpu_execute_r(ins, st)
<1>1. /\ ins.opcode = 0 /\ ins.s = s /\ ins.t = 0 /\ ins.d = 0 /\ ins.sh = 0 /\ ins.fn = 8
  BY DEF RIns
<1> HIDE DEF ins
<1>2. ~Reserved(ins)
  BY <1>1 DEF Reserved
<1>3. r = Return(mips_cpu_jump(st.regs[s], 0, st), Success)
  BY <1>1, <1>2 DEF cpu_execute_r
<1>4. Fetches(st, ram, ins)
  BY DEF ins
<1>5. Execute(st, ram) = [state |-> r.state, data |-> ram, err |-> r.err]
  BY <1>1, <1>4, OpcodeCases
<1> HIDE DEF r
<1> QED BY <1>3, <1>4, <1>5, Jumps

LEMMA NopSteps ==
  ASSUME NEW st, NEW ram, Fetches(st, ram, Nop)
  PROVE  Steps(st, ram, st.regs, ram, Plus(st.nPC, 4))
<1> DEFINE ins == Nop
           r == cpu_execute_r(ins, st)
<1>1. /\ ins.opcode = 0 /\ ins.s = 0 /\ ins.t = 0 /\ ins.d = 0 /\ ins.sh = 0 /\ ins.fn = 0
  BY DEF Nop, RIns
<1> HIDE DEF ins
<1>2. ~Reserved(ins)
  BY <1>1 DEF Reserved
<1>3. r = Return(st, Success)
  BY <1>1, <1>2 DEF cpu_execute_r, r_shift
<1>4. Fetches(st, ram, ins)
  BY DEF ins
<1>5. Execute(st, ram) = [state |-> r.state, data |-> ram, err |-> r.err]
  BY <1>1, <1>4, OpcodeCases
<1>6. st.delay_slot = 0 /\ st.jPC = 0
  BY DEF Fetches
<1> HIDE DEF r
<1> QED BY <1>3, <1>4, <1>5, <1>6, SteppedBy

(* Loads and stores of f_fibonacci, with the address where sp is.             *)
LEMMA StackAccess ==
  ASSUME ByteBits >= 4, NEW st, NEW ram, NEW ins, Fetches(st, ram, ins), NEW c \in 1 .. 100,
         st.regs[29] + c + 4 <= CbMem, (st.regs[29] + c) % 4 = 0
  PROVE  LET a == st.regs[29] + c
         IN  /\ a \in Nat
             /\ Plus(st.regs[29], SignExtendHalf(c % HalfSize)) = a
             /\ mips_mem_read_write(st.mem, CbMem, a, 4) = Success
<1>1. st.regs[29] \in Nat /\ st.mem \in Handle
  <2>1. st \in mips_cpu_impl /\ 29 \in Reg
    BY DEF Fetches, Reg
  <2> QED BY <2>1, FieldTypes, WordIsInt DEF mips_cpu_impl
<1>2. st.mem = "ram"
  BY <1>1 DEF Fetches, Handle, mips_mem_read_write, Success, InvalidHandle
<1> DEFINE b == st.regs[29]
           a == b + c
<1>3. b \in Nat
  BY <1>1
<1> HIDE DEF b
<1>4. a \in Nat /\ a + 4 <= CbMem /\ a % 4 = 0
  BY <1>3 DEF b
<1>5. mips_mem_read_write(st.mem, CbMem, a, 4) = Success /\ a \in Word
  BY <1>2, <1>4, WordAccepted
<1>6. Plus(b, c) = a
  BY <1>3, <1>5, WordIsInt, PlusSmall
<1>7. SignExtendHalf(c % HalfSize) = c
  BY Immediates
<1> QED BY <1>4, <1>5, <1>6, <1>7 DEF b

LEMMA LwSteps ==
  ASSUME ByteBits >= 4, NEW st, NEW ram, NEW t \in Reg \ {0}, NEW c \in 1 .. 100,
         Fetches(st, ram, Lw(t, c)),
         st.regs[29] + c + 4 <= CbMem, (st.regs[29] + c) % 4 = 0
  PROVE  LET a == st.regs[29] + c
         IN  Steps(st, ram, [st.regs EXCEPT ![t] = WordAt(ram, a)], ram, Plus(st.nPC, 4))
<1> DEFINE ins == Lw(t, c)
           a == st.regs[29] + c
           v == WordAt(ram, a)
<1>1. ins.opcode = 35 /\ ins.s = 29 /\ ins.t = t /\ ins.i = c % HalfSize
  BY DEF Lw, IIns
<1> HIDE DEF ins
<1>2. Fetches(st, ram, ins)
  BY DEF ins
<1>3. /\ Plus(st.regs[29], SignExtendHalf(c % HalfSize)) = a
      /\ mips_mem_read_write(st.mem, CbMem, a, 4) = Success
  BY <1>2, StackAccess
<1> HIDE DEF a, v
<1>4. Execute(st, ram)
        = cpu_memory_funcs(35, 29, t, SignExtendHalf(c % HalfSize), st, ram)
  BY <1>1, <1>2, OpcodeCases
<1>5. TransferLength(35) = 4 /\ TransferAddress(35, a) = a /\ 35 \in Loads /\ 35 \notin Stores
  BY DEF TransferLength, TransferAddress, Loads, Stores
<1>6. a % 4 = 0
  BY DEF a
<1>7. cpu_memory_funcs(35, 29, t, SignExtendHalf(c % HalfSize), st, ram)
        = [state |-> SetReg(st, t, LoadedWord(35, mips_mem_read(ram, a, 4),
                                              ToBytes(st.regs[t]), a % 4)),
           data |-> ram, err |-> Success]
  BY <1>3, <1>5, <1>6, t # 0 DEF cpu_memory_funcs
<1>8. LoadedWord(35, mips_mem_read(ram, a, 4), ToBytes(st.regs[t]), a % 4) = v
  BY DEF LoadedWord, v, WordAt
<1> DEFINE r == Return(SetReg(st, t, v), Success)
<1>9. Execute(st, ram) = [state |-> r.state, data |-> ram, err |-> r.err]
  BY <1>4, <1>7, <1>8 DEF Return
<1>10. Steps(st, ram, [st.regs EXCEPT ![t] = v], ram, Plus(st.nPC, 4))
  BY <1>2, <1>9, SetsReg
<1> QED BY <1>10 DEF v, a

LEMMA SwSteps ==
  ASSUME ByteBits >= 4, NEW st, NEW ram, NEW t \in Reg, NEW c \in 1 .. 100,
         Fetches(st, ram, Sw(t, c)),
         st.regs[29] + c + 4 <= CbMem, (st.regs[29] + c) % 4 = 0
  PROVE  \E bytes :
           LET a == st.regs[29] + c
               ram2 == mips_mem_write(ram, a, 4, bytes)
           IN  /\ Steps(st, ram, st.regs, ram2, Plus(st.nPC, 4))
               /\ ram2 \in RamData /\ WordAt(ram2, a) = st.regs[t]
<1> DEFINE ins == Sw(t, c)
           a == st.regs[29] + c
           bytes == StoredBytes(st.regs[t], 4)
           ram2 == mips_mem_write(ram, a, 4, bytes)
<1>1. ins.opcode = 43 /\ ins.s = 29 /\ ins.t = t /\ ins.i = c % HalfSize
  BY DEF Sw, IIns
<1> HIDE DEF ins
<1>2. Fetches(st, ram, ins)
  BY DEF ins
<1>3. /\ Plus(st.regs[29], SignExtendHalf(c % HalfSize)) = a
      /\ mips_mem_read_write(st.mem, CbMem, a, 4) = Success
      /\ a \in Nat
  BY <1>2, StackAccess
<1>4. \A k \in 0 .. 3 : bytes[k] = ByteOf(st.regs[t], 3 - k)
  BY DEF StoredBytes
<1>5. st.regs[t] \in Word /\ ram \in RamData /\ st.delay_slot = 0 /\ st.jPC = 0
  BY <1>2, FieldTypes DEF Fetches
<1>6. a + 4 <= CbMem /\ a % 4 = 0
  OBVIOUS
<1> HIDE DEF a, bytes
<1>7. ram2 \in RamData /\ WordAt(ram2, a) = st.regs[t]
  BY <1>3, <1>4, <1>5, <1>6, WordWritten
<1>8. Execute(st, ram)
        = cpu_memory_funcs(43, 29, t, SignExtendHalf(c % HalfSize), st, ram)
  BY <1>1, <1>2, OpcodeCases
<1>9. TransferLength(43) = 4 /\ TransferAddress(43, a) = a /\ 43 \notin Loads /\ 43 \in Stores
  BY DEF TransferLength, TransferAddress, Loads, Stores
<1>10. cpu_memory_funcs(43, 29, t, SignExtendHalf(c % HalfSize), st, ram)
        = [state |-> st, data |-> ram2, err |-> Success]
  BY <1>3, <1>9 DEF cpu_memory_funcs, bytes
<1>11. Steps(st, ram, st.regs, ram2, Plus(st.nPC, 4))
  BY <1>2, <1>5, <1>8, <1>10, Stepped
<1> QED BY <1>7, <1>11 DEF a

LEMMA PlusOfWords ==
  ASSUME NEW x \in Nat, NEW y \in Nat
  PROVE  ToWord(x + y) = Plus(ToWord(x), ToWord(y))
<1> DEFINE W == WordSize
           p == x \div W
           q == y \div W
           u == x % W
           v == y % W
           t == (u + v) \div W
           s == (u + v) % W
<1>1. W \in Nat \ {0}
  BY SizeFacts
<1> HIDE DEF W
<1>2. p \in Int /\ u \in 0 .. W - 1 /\ x = p * W + u
  BY <1>1, DivModOf
<1>3. q \in Int /\ v \in 0 .. W - 1 /\ y = q * W + v
  BY <1>1, DivModOf
<1> HIDE DEF p, q, u, v
<1>4. t \in Int /\ s \in 0 .. W - 1 /\ u + v = t * W + s
  BY <1>1, <1>2, <1>3, DivModOf
<1> HIDE DEF s, t
<1>5. x + y = (p + q + t) * W + s
  BY <1>1, <1>2, <1>3, <1>4
<1>6. ((p + q + t) * W + s) % W = s
  <2>1. p + q + t \in Int
    BY <1>2, <1>3, <1>4
  <2> QED BY <1>1, <1>4, <2>1, DivMod
<1> QED BY <1>5, <1>6 DEF ToWord, Plus, W, u, v, s

----------------------------------------------------------------------------
(* The Fibonacci numbers: the recursion of f_fibonacci.c defines a function.  *)

FollowsTo(g, n) == \A m \in 0 .. n : g[m] = IF m <= 1 THEN m ELSE g[m - 1] + g[m - 2]

LEMMA Approximations == \A n \in Nat : \E g \in [Nat -> Nat] : FollowsTo(g, n)
<1> DEFINE S == {n \in Nat : \E g \in [Nat -> Nat] : FollowsTo(g, n)}
<1>1. 0 \in S
  <2>1. [m \in Nat |-> m] \in [Nat -> Nat] /\ FollowsTo([m \in Nat |-> m], 0)
    BY DEF FollowsTo
  <2> QED BY <2>1
<1>2. ASSUME NEW n \in Nat, n \in S PROVE n + 1 \in S
  <2>1. PICK g \in [Nat -> Nat] : FollowsTo(g, n)
    BY <1>2
  <2> DEFINE v == IF n + 1 <= 1 THEN n + 1 ELSE g[n] + g[n - 1]
             h == [g EXCEPT ![n + 1] = v]
  <2>2. v \in Nat
    BY <2>1
  <2> HIDE DEF v
  <2>3. h \in [Nat -> Nat]
    BY <2>2
  <2>4. h[n + 1] = v /\ \A m \in 0 .. n : h[m] = g[m]
    BY <2>1
  <2> HIDE DEF h
  <2>5. ASSUME NEW m \in 0 .. n + 1
        PROVE  h[m] = IF m <= 1 THEN m ELSE h[m - 1] + h[m - 2]
    <3>1. CASE m \in 0 .. n
      <4>1. g[m] = IF m <= 1 THEN m ELSE g[m - 1] + g[m - 2]
        BY <2>1, <3>1 DEF FollowsTo
      <4>2. m > 1 => m - 1 \in 0 .. n /\ m - 2 \in 0 .. n
        BY <3>1
      <4> QED BY <2>4, <3>1, <4>1, <4>2
    <3>2. CASE m = n + 1
      <4>1. m > 1 => n \in 0 .. n /\ n - 1 \in 0 .. n /\ m - 1 = n /\ m - 2 = n - 1
        BY <3>2
      <4> QED BY <2>4, <3>2, <4>1 DEF v
    <3> QED BY <3>1, <3>2
  <2>6. FollowsTo(h, n + 1)
    BY <2>5 DEF FollowsTo
  <2> QED BY <2>3, <2>6
<1> HIDE DEF S
<1>3. Nat \subseteq S
  BY <1>1, <1>2, SetInduction
<1> QED BY <1>3 DEF S

LEMMA ApproximationsAgree ==
  ASSUME NEW g \in [Nat -> Nat], NEW h \in [Nat -> Nat], NEW n \in Nat,
         FollowsTo(g, n), FollowsTo(h, n)
  PROVE  \A m \in 0 .. n : g[m] = h[m]
<1> DEFINE S == {k \in Nat : \A m \in 0 .. k : m <= n => g[m] = h[m]}
<1>1. 0 \in S
  BY DEF FollowsTo
<1>2. ASSUME NEW k \in Nat, k \in S PROVE k + 1 \in S
  <2>1. SUFFICES ASSUME k + 1 <= n PROVE g[k + 1] = h[k + 1]
    <3>1. \A m \in 0 .. k + 1 : m \in 0 .. k \/ m = k + 1
      OBVIOUS
    <3> QED BY <1>2, <3>1
  <2>2. /\ g[k + 1] = IF k + 1 <= 1 THEN k + 1 ELSE g[k] + g[k - 1]
        /\ h[k + 1] = IF k + 1 <= 1 THEN k + 1 ELSE h[k] + h[k - 1]
    <3>1. k + 1 \in 0 .. n /\ (k + 1) - 1 = k /\ (k + 1) - 2 = k - 1
      BY <2>1
    <3> QED BY <3>1 DEF FollowsTo
  <2>3. k + 1 > 1 => k \in 0 .. k /\ k - 1 \in 0 .. k /\ k <= n /\ k - 1 <= n
    BY <2>1
  <2> QED BY <1>2, <2>2, <2>3
<1> HIDE DEF S
<1>3. Nat \subseteq S
  BY <1>1, <1>2, SetInduction
<1>4. n \in S
  BY <1>3
<1> QED BY <1>4 DEF S

LEMMA FibonacciIs ==
  \A n \in Nat : /\ Fibonacci[n] \in Nat
                 /\ Fibonacci[n] = IF n <= 1 THEN n ELSE Fibonacci[n - 1] + Fibonacci[n - 2]
<1> DEFINE G(n) == CHOOSE g \in [Nat -> Nat] : FollowsTo(g, n)
           F == [n \in Nat |-> G(n)[n]]
<1>1. ASSUME NEW n \in Nat
      PROVE  /\ G(n) \in [Nat -> Nat] /\ FollowsTo(G(n), n)
             /\ F[n] = G(n)[n] /\ F[n] \in Nat
  <2>1. \E g \in [Nat -> Nat] : FollowsTo(g, n)
    BY Approximations
  <2>2. G(n) \in [Nat -> Nat] /\ FollowsTo(G(n), n)
    BY <2>1
  <2> HIDE DEF G
  <2> QED BY <2>2
<1>2. ASSUME NEW n \in Nat, NEW m \in 0 .. n PROVE G(n)[m] = F[m]
  <2>1. m \in Nat /\ m \in 0 .. m
    OBVIOUS
  <2> HIDE DEF G, F
  <2>2. FollowsTo(G(n), m)
    BY <1>1 DEF FollowsTo
  <2>3. /\ G(n) \in [Nat -> Nat] /\ G(m) \in [Nat -> Nat]
        /\ FollowsTo(G(m), m) /\ F[m] = G(m)[m]
    BY <1>1, <2>1
  <2>4. G(n)[m] = G(m)[m]
    BY <2>1, <2>2, <2>3, ApproximationsAgree
  <2> QED BY <2>3, <2>4
<1>3. ASSUME NEW n \in Nat
      PROVE  F[n] = IF n <= 1 THEN n ELSE F[n - 1] + F[n - 2]
  <2> HIDE DEF G, F
  <2>1. n \in 0 .. n /\ (n > 1 => n - 1 \in 0 .. n /\ n - 2 \in 0 .. n)
    OBVIOUS
  <2>2. FollowsTo(G(n), n) /\ F[n] = G(n)[n]
    BY <1>1
  <2>3. G(n)[n] = IF n <= 1 THEN n ELSE G(n)[n - 1] + G(n)[n - 2]
    BY <2>1, <2>2 DEF FollowsTo
  <2>4. n > 1 => G(n)[n - 1] = F[n - 1] /\ G(n)[n - 2] = F[n - 2]
    BY <1>2, <2>1
  <2> QED BY <2>2, <2>3, <2>4
<1>4. F = [n \in Nat |-> IF n <= 1 THEN n ELSE F[n - 1] + F[n - 2]]
  <2> DEFINE H == [n \in Nat |-> IF n <= 1 THEN n ELSE F[n - 1] + F[n - 2]]
  <2>1. \A n \in Nat : F[n] = H[n]
    BY <1>3
  <2>2. F = [n \in Nat |-> F[n]] /\ H = [n \in Nat |-> H[n]]
    OBVIOUS
  <2> HIDE DEF F, H
  <2>3. F = H
    BY <2>1, <2>2
  <2> QED BY <2>3 DEF H
<1> HIDE DEF F
<1>5. Fibonacci = [n \in Nat |-> IF n <= 1 THEN n ELSE Fibonacci[n - 1] + Fibonacci[n - 2]]
  BY <1>4 DEF Fibonacci
<1>6. \A n \in Nat : Fibonacci[n] = IF n <= 1 THEN n ELSE Fibonacci[n - 1] + Fibonacci[n - 2]
  BY <1>5
<1> DEFINE S == {k \in Nat : \A m \in 0 .. k : Fibonacci[m] \in Nat}
<1>7. 0 \in S
  BY <1>6
<1>8. ASSUME NEW k \in Nat, k \in S PROVE k + 1 \in S
  <2>1. Fibonacci[k + 1] = IF k + 1 <= 1 THEN k + 1 ELSE Fibonacci[k] + Fibonacci[k - 1]
    <3>1. k + 1 \in Nat /\ (k + 1) - 1 = k /\ (k + 1) - 2 = k - 1
      OBVIOUS
    <3> QED BY <1>6, <3>1
  <2>2. k + 1 > 1 => Fibonacci[k] \in Nat /\ Fibonacci[k - 1] \in Nat
    BY <1>8
  <2>3. Fibonacci[k + 1] \in Nat
    BY <2>1, <2>2
  <2>4. \A m \in 0 .. k + 1 : m \in 0 .. k \/ m = k + 1
    OBVIOUS
  <2> QED BY <1>8, <2>3, <2>4
<1> HIDE DEF S
<1>9. Nat \subseteq S
  BY <1>7, <1>8, SetInduction
<1>10. \A n \in Nat : Fibonacci[n] \in Nat
  <2>1. \A n \in Nat : n \in S /\ n \in 0 .. n
    BY <1>9
  <2> QED BY <2>1 DEF S
<1> QED BY <1>6, <1>10

LEMMA FibIs ==
  /\ \A n \in Nat : Fib(n) \in Word
  /\ \A n \in Nat : n < 2 => Fib(n) = n
  /\ \A n \in Nat : n >= 2 => Fib(n) = Plus(Fib(n - 1), Fib(n - 2))
<1>1. \A n \in Nat : Fib(n) \in Word
  BY FibonacciIs, ToWordType DEF Fib
<1>2. \A n \in Nat : n < 2 => Fib(n) = n
  <2> TAKE n \in Nat
  <2>1. n < 2 => Fibonacci[n] = n
    BY FibonacciIs
  <2>2. n < 2 => n % WordSize = n
    BY SizeFacts
  <2> QED BY <2>1, <2>2 DEF Fib, ToWord
<1>3. ASSUME NEW n \in Nat, n >= 2 PROVE Fib(n) = Plus(Fib(n - 1), Fib(n - 2))
  <2>1. /\ Fibonacci[n - 1] \in Nat /\ Fibonacci[n - 2] \in Nat
        /\ Fibonacci[n] = Fibonacci[n - 1] + Fibonacci[n - 2]
    <3>1. n - 1 \in Nat /\ n - 2 \in Nat /\ ~(n <= 1)
      BY <1>3
    <3> QED BY <3>1, FibonacciIs
  <2> QED BY <2>1, PlusOfWords DEF Fib
<1> QED BY <1>1, <1>2, <1>3

(* ANDI 1: a number with no bit but the lowest.                               *)
LEMMA LowestBit ==
  ASSUME NEW x \in Word
  PROVE  AndWord(x, 1) = x % 2
<1> DEFINE S == {n \in Nat : n <= WordBits =>
                   \A z \in Nat : z < 2 ^ n /\ (\A k \in 1 .. n - 1 : Bit(z, k) = 0) => z \in {0, 1}}
<1>0. WordBits \in Nat /\ WordBits >= 8
  BY BitCounts
<1>1. 0 \in S
  BY PowerAssumption
<1>2. ASSUME NEW n \in Nat, n \in S PROVE n + 1 \in S
  <2> SUFFICES ASSUME n + 1 <= WordBits, NEW z \in Nat, z < 2 ^ (n + 1),
                      \A k \in 1 .. (n + 1) - 1 : Bit(z, k) = 0
               PROVE  z \in {0, 1}
    OBVIOUS
  <2> DEFINE p == 2 ^ n
  <2>1. p \in Nat \ {0} /\ 2 ^ (n + 1) = 2 * p
    <3>1. n \in 0 .. WordBits /\ n \in 0 .. WordBits + 1
      BY <1>0
    <3> QED BY <3>1, PowerType, PowerAssumption
  <2>2. CASE n = 0
    BY <2>1, <2>2, PowerAssumption
  <2>3. CASE n # 0
    <3>1. (z \div p) % 2 = 0
      <4>1. n \in 1 .. (n + 1) - 1
        BY <2>3
      <4> QED BY <4>1 DEF Bit
    <3> HIDE DEF p
    <3>2. z \div p \in Int /\ z % p \in 0 .. p - 1 /\ z = (z \div p) * p + (z % p)
      BY <2>1, DivModOf
    <3> DEFINE q == z \div p
    <3>3. q \in Int /\ z = q * p + (z % p) /\ q % 2 = 0
      BY <3>1, <3>2
    <3> HIDE DEF q
    <3>4. q <= -1 => q * p <= -p
      BY <2>1, <3>3
    <3>5. q >= 2 => q * p >= 2 * p
      BY <2>1, <3>3
    <3>6. q * p \in Int
      BY <2>1, <3>3
    <3>7. z < 2 * p
      BY <2>1
    <3>8. q = 0
      BY <2>1, <3>2, <3>3, <3>4, <3>5, <3>6, <3>7
    <3>9. z < p
      BY <2>1, <3>2, <3>3, <3>8
    <3>10. \A k \in 1 .. n - 1 : Bit(z, k) = 0
      OBVIOUS
    <3>11. n <= WordBits /\ z < 2 ^ n
      BY <1>0, <3>9 DEF p
    <3> QED BY <1>2, <3>10, <3>11
  <2> QED BY <2>2, <2>3
<1> HIDE DEF S
<1>3. Nat \subseteq S
  BY <1>1, <1>2, SetInduction
<1> DEFINE w == AndWord(x, 1)
<1>4. 1 \in Word
  BY SizeFacts DEF Word
<1>5. w \in Word
  BY <1>4, BitwiseType
<1>6. \A k \in 0 .. WordBits - 1 : Bit(w, k) = AndBit(Bit(x, k), Bit(1, k))
  BY <1>4, BitwiseBits
<1>7. \A k \in 1 .. WordBits - 1 : Bit(1, k) = 0
  <2> TAKE k \in 1 .. WordBits - 1
  <2> DEFINE p == 2 ^ k
             q == 2 ^ (k - 1)
  <2>1. q \in Nat \ {0} /\ p = 2 * q
    <3>1. k - 1 \in 0 .. WordBits /\ k - 1 \in 0 .. WordBits + 1 /\ (k - 1) + 1 = k
      BY <1>0
    <3> QED BY <3>1, PowerType, PowerAssumption
  <2> HIDE DEF p, q
  <2>2. p \in Nat \ {0} /\ 1 \in 0 .. p - 1
    BY <2>1
  <2>3. (0 * p + 1) \div p = 0
    <3>1. 0 \in Int
      OBVIOUS
    <3> QED BY ONLY <2>2, <3>1, DivMod
  <2>4. 1 \div p = 0
    <3>1. 0 * p + 1 = 1
      BY <2>2
    <3> QED BY <2>3, <3>1
  <2>5. Bit(1, k) = (1 \div p) % 2
    BY DEF Bit, p
  <2>6. 0 % 2 = 0
    OBVIOUS
  <2> QED BY ONLY <2>4, <2>5, <2>6
<1>9. \A k \in 1 .. WordBits - 1 : Bit(w, k) = 0
  <2> TAKE k \in 1 .. WordBits - 1
  <2>1. k \in 0 .. WordBits - 1
    BY <1>0
  <2>2. Bit(x, k) \in Int
    <3>1. x \in Int /\ k \in 0 .. WordBits
      BY <1>0, WordIsInt
    <3>2. Bit(x, k) \in 0 .. 1
      BY <3>1, BitIsBit
    <3> QED BY <3>2
  <2>3. Bit(w, k) = AndBit(Bit(x, k), 0)
    BY <1>6, <1>7, <2>1
  <2> QED BY <2>2, <2>3 DEF AndBit
<1>10. w \in {0, 1}
  <2>1. WordBits \in S
    BY <1>0, <1>3
  <2>2. w \in Nat /\ w < 2 ^ WordBits
    BY <1>5, WordIsInt, WordSizePower
  <2> HIDE DEF w
  <2>3. WordBits \in Nat /\ WordBits <= WordBits
    BY <1>0
  <2>4. \A z \in Nat : z < 2 ^ WordBits /\ (\A k \in 1 .. WordBits - 1 : Bit(z, k) = 0) => z \in {0, 1}
    BY <2>1, <2>3 DEF S
  <2> QED BY <1>9, <2>2, <2>4
<1>11. w % 2 = x % 2
  <2>1. 0 \in 0 .. WordBits - 1
    BY <1>0
  <2>2. \A z \in Word : Bit(z, 0) = z % 2
    <3> TAKE z \in Word
    <3>1. z \in Int /\ z \div 1 = z /\ 2 ^ 0 = 1
      BY PowerAssumption, WordIsInt
    <3> QED BY <3>1 DEF Bit
  <2>3. Bit(w, 0) = AndBit(Bit(x, 0), Bit(1, 0))
    BY <1>6, <2>1
  <2> HIDE DEF w
  <2>4. w % 2 = (x % 2) * (1 % 2)
    BY <1>4, <1>5, <2>2, <2>3 DEF AndBit
  <2> QED BY <2>4, WordIsInt
<1> HIDE DEF w
<1>12. w = x % 2
  BY <1>10, <1>11
<1> QED BY <1>12 DEF w

----------------------------------------------------------------------------
(* The stack and the program, which lies below it.                            *)

Used == {0, 2, 3, 4, 16, 17, 18, 29, 31}
Slots == {16, 20, 24, 28}

(* The frame of the call in progress is free RAM above the program and below  *)
(* the frames of the calls that wait.                                         *)
LEMMA FrameRoom ==
  ASSUME MadeForIt, NEW ram, NEW calls, Stacked(calls, ram), NEW k \in 1 .. Len(calls)
  PROVE  LET f == calls[k]
         IN  /\ f \in FrameType /\ f.n \in Nat
             /\ \A r \in {16, 17, 18, 29} : f.saved[r] \in Word
             /\ Low(f) \in Nat /\ Low(f) >= 104 /\ Low(f) % 4 = 0
             /\ f.saved[29] = Low(f) + 32 /\ Low(f) + 32 <= CbMem
             /\ Low(f) = (StackTop - 32 * (Len(calls) - k)) - 32
             /\ f.saved[29] - 32 * Depth(f.n) >= 104
             /\ f.return \in {52, SentinelPC}
<1>1. calls \in Seq(FrameType) /\ Len(calls) \in Nat
  BY DEF Stacked
<1>2. calls[k] \in FrameType
  BY <1>1, ElementOfSeq
<1>3. /\ calls[k].saved[29] = StackTop - 32 * (Len(calls) - k)
      /\ calls[k].saved[29] - 32 * Depth(calls[k].n) >= 104
  BY DEF Stacked
<1>4. calls[k].return \in {52, SentinelPC}
  <2>1. CASE k = Len(calls)
    BY <2>1 DEF Stacked
  <2>2. CASE k # Len(calls)
    <3>1. k \in 1 .. Len(calls) - 1
      BY <1>1, <2>2
    <3> QED BY <3>1 DEF Stacked, WaitsFor
  <2> QED BY <2>1, <2>2
<1> DEFINE f == calls[k]
           s == f.saved[29]
           n == Len(calls) - k
<1>5. f.n \in Nat /\ \A r \in {16, 17, 18, 29} : f.saved[r] \in Word
  BY <1>2 DEF FrameType
<1>6. StackTop \in Int /\ StackTop % 4 = 0 /\ StackTop <= CbMem /\ CbMem \in Nat
  BY RunnerAssumption, RamAssumption, WordIsInt DEF MadeForIt
<1>7. n \in Nat /\ s \in Int /\ s = StackTop - 32 * n
  <2>1. s \in Word
    BY <1>5
  <2> QED BY <1>1, <1>3, <2>1, WordIsInt
<1>8. Depth(f.n) \in Nat /\ Depth(f.n) >= 1
  BY <1>5 DEF Depth
<1>9. s - 32 * Depth(f.n) >= 104
  BY <1>3
<1>10. Low(f) = s - 32
  BY DEF Low
<1> HIDE DEF f, s, n
<1>11. s - 32 >= 104 /\ (s - 32) % 4 = 0 /\ s <= CbMem /\ s - 32 \in Nat
  BY <1>6, <1>7, <1>8, <1>9
<1>12. /\ Low(f) \in Nat /\ Low(f) >= 104 /\ Low(f) % 4 = 0
       /\ s = Low(f) + 32 /\ Low(f) + 32 <= CbMem
       /\ Low(f) = (StackTop - 32 * n) - 32
  BY <1>6, <1>7, <1>10, <1>11
<1> QED BY <1>2, <1>4, <1>5, <1>9, <1>12 DEF f, s, n

LEMMA StoreKeeps ==
  ASSUME MadeForIt, NEW ram \in RamData, NEW calls, Stacked(calls, ram),
         NEW words, Text(words, ram), DOMAIN words = 1 .. 26,
         NEW c \in Slots, NEW bytes
  PROVE  LET f == calls[1]
             ram2 == mips_mem_write(ram, Low(f) + c, 4, bytes)
         IN  /\ Text(words, ram2) /\ Stacked(calls, ram2)
             /\ \A d \in Slots \ {c} : WordAt(ram2, Low(f) + d) = WordAt(ram, Low(f) + d)
<1> DEFINE f == calls[1]
           a == Low(f) + c
           ram2 == mips_mem_write(ram, a, 4, bytes)
<1>1. calls \in Seq(FrameType) /\ Len(calls) \in Nat \ {0}
  BY EmptySeq DEF Stacked
<1>2. 1 \in 1 .. Len(calls)
  BY <1>1
<1>3. Low(f) \in Nat /\ Low(f) >= 104 /\ Low(f) + 32 <= CbMem /\ CbMem \in Nat
  BY <1>2, FrameRoom, RamAssumption
<1>4. Low(f) = (StackTop - 32 * (Len(calls) - 1)) - 32
  BY <1>2, FrameRoom
<1>5. a \in Nat /\ a >= 104 /\ a + 4 <= Low(f) + 32
  BY <1>3 DEF Slots
<1> HIDE DEF f, a
<1>6. \A b \in Nat : b + 4 <= CbMem /\ (b + 4 <= a \/ a + 4 <= b) =>
        WordAt(ram2, b) = WordAt(ram, b)
  BY <1>5, WordBeside
<1> HIDE DEF ram2
<1>7. Text(words, ram2)
  <2>1. \A k \in 1 .. 26 : /\ 4 * (k - 1) \in Nat /\ 4 * (k - 1) + 4 <= CbMem
                           /\ 4 * (k - 1) + 4 <= a
    BY <1>3, <1>5
  <2> QED BY <1>6, <2>1 DEF Text
<1>8. \A d \in Slots \ {c} : WordAt(ram2, Low(f) + d) = WordAt(ram, Low(f) + d)
  <2> TAKE d \in Slots \ {c}
  <2>1. Low(f) + d \in Nat /\ Low(f) + d + 4 <= CbMem
        /\ (Low(f) + d + 4 <= a \/ a + 4 <= Low(f) + d)
    BY <1>3 DEF Slots, a
  <2> QED BY <1>6, <2>1
<1>9. \A k \in 1 .. Len(calls) - 1 : Spilled(calls[k + 1], ram2)
  <2> TAKE k \in 1 .. Len(calls) - 1
  <2> DEFINE g == calls[k + 1]
             n == Len(calls) - (k + 1)
  <2>1. k + 1 \in 1 .. Len(calls) /\ n \in Nat /\ n <= Len(calls) - 2
    BY <1>1
  <2>2. Low(g) \in Nat /\ Low(g) + 32 <= CbMem /\ Low(g) = (StackTop - 32 * n) - 32
    BY <2>1, FrameRoom
  <2>3. StackTop \in Int
    BY RunnerAssumption, WordIsInt
  <2>4. Spilled(g, ram)
    BY DEF Stacked
  <2> HIDE DEF g, n
  <2>5. Low(g) >= Low(f) + 32
    BY <1>1, <1>4, <2>1, <2>2, <2>3
  <2>6. \A d \in Slots : /\ Low(g) + d \in Nat /\ (Low(g) + d) + 4 <= CbMem
                         /\ a + 4 <= Low(g) + d
    BY <1>3, <1>5, <2>2, <2>5, SMTT(30) DEF Slots
  <2>7. \A d \in Slots : WordAt(ram2, Low(g) + d) = WordAt(ram, Low(g) + d)
    BY <1>6, <2>6
  <2>8. Spilled(g, ram2)
    BY <2>4, <2>7 DEF Spilled, Slots
  <2> QED BY <2>8 DEF g
<1>10. Stacked(calls, ram2)
  BY <1>9 DEF Stacked
<1> QED BY <1>7, <1>8, <1>10 DEF ram2, a, f

----------------------------------------------------------------------------
(* From one place of f_fibonacci to the next.                                 *)

LEMMA UsedRegs == Used \subseteq Reg
BY DEF Used, Reg

LEMMA UsedAre ==
  /\ 2 \in Used \ {0} /\ 3 \in Used \ {0} /\ 4 \in Used \ {0} /\ 16 \in Used \ {0}
  /\ 17 \in Used \ {0} /\ 18 \in Used \ {0} /\ 29 \in Used \ {0} /\ 31 \in Used \ {0}
  /\ 0 \in Used
BY DEF Used

LEMMA RunningFacts ==
  ASSUME MadeForIt, NEW words, NEW st, NEW ram, NEW calls, Running(words, st, ram, calls)
  PROVE  LET f == Head(calls)
         IN  /\ f = calls[1] /\ 1 \in 1 .. Len(calls)
             /\ Stacked(calls, ram) /\ Assertion(f, st.pc, st.nPC, st.regs, ram)
             /\ f.n \in Nat /\ f.return \in {52, SentinelPC}
             /\ \A r \in {16, 17, 18, 29} : f.saved[r] \in Word
             /\ Low(f) \in Nat /\ Low(f) >= 104 /\ Low(f) % 4 = 0
             /\ f.saved[29] = Low(f) + 32 /\ Low(f) + 32 <= CbMem
             /\ f.saved[29] - 32 * Depth(f.n) >= 104
             /\ CbMem \in Nat /\ SentinelPC \in Nat /\ SentinelPC > CbMem
             /\ \A q \in Used : st.regs[q] \in Word /\ st.regs[q] \in Nat
             /\ st.pc \in Nat /\ st.nPC \in Nat
<1>1. calls \in Seq(FrameType) /\ calls # << >> /\ Stacked(calls, ram)
  BY DEF Running, Stacked
<1>2. Len(calls) \in Nat \ {0} /\ Head(calls) = calls[1]
  BY <1>1, EmptySeq
<1>3. 1 \in 1 .. Len(calls)
  BY <1>2
<1>4. st \in mips_cpu_impl /\ Assertion(Head(calls), st.pc, st.nPC, st.regs, ram)
  BY DEF Running
<1>5. \A q \in Used : st.regs[q] \in Word /\ st.regs[q] \in Nat
  BY <1>4, FieldTypes, UsedRegs, WordIsInt
<1>6. st.pc \in Nat /\ st.nPC \in Nat
  BY <1>4, FieldTypes, WordIsInt
<1>7. CbMem \in Nat /\ SentinelPC \in Nat /\ SentinelPC > CbMem
  BY RamAssumption, RunnerAssumption, WordIsInt DEF MadeForIt
<1> DEFINE f == calls[1]
<1>8. /\ f.n \in Nat /\ f.return \in {52, SentinelPC}
      /\ \A r \in {16, 17, 18, 29} : f.saved[r] \in Word
      /\ Low(f) \in Nat /\ Low(f) >= 104 /\ Low(f) % 4 = 0
      /\ f.saved[29] = Low(f) + 32 /\ Low(f) + 32 <= CbMem
      /\ f.saved[29] - 32 * Depth(f.n) >= 104
  BY <1>1, <1>3, FrameRoom
<1> HIDE DEF f
<1> QED BY <1>1, <1>2, <1>3, <1>4, <1>5, <1>6, <1>7, <1>8 DEF f

LEMMA Listing ==
  /\ DOMAIN f_fibonacci = 1 .. 26 /\ Len(f_fibonacci) = 26
  /\ f_fibonacci[1] = Addiu(29, 29, -32) /\ f_fibonacci[2] = Sltiu(2, 4, 2)
  /\ f_fibonacci[3] = Sw(18, 24) /\ f_fibonacci[4] = Sw(31, 28)
  /\ f_fibonacci[5] = Sw(17, 20) /\ f_fibonacci[6] = Sw(16, 16)
  /\ f_fibonacci[7] = IIns(\h5, 2, 0, 17)
  /\ f_fibonacci[8] = Addu(18, 4, 0) /\ f_fibonacci[9] = Addu(16, 4, 0)
  /\ f_fibonacci[10] = Addu(17, 0, 0)
  /\ f_fibonacci[11] = Addiu(4, 16, -1) /\ f_fibonacci[12] = JIns(\h3, 0)
  /\ f_fibonacci[13] = Addiu(16, 16, -2)
  /\ f_fibonacci[14] = Sltiu(3, 16, 2) /\ f_fibonacci[15] = IIns(\h4, 3, 0, -5)
  /\ f_fibonacci[16] = Addu(17, 17, 2)
  /\ f_fibonacci[17] = IIns(\hc, 18, 18, 1) /\ f_fibonacci[18] = Lw(31, 28)
  /\ f_fibonacci[19] = Addu(2, 17, 18) /\ f_fibonacci[20] = Lw(16, 16)
  /\ f_fibonacci[21] = Lw(18, 24) /\ f_fibonacci[22] = Lw(17, 20)
  /\ f_fibonacci[23] = RIns(\h8, 31, 0, 0) /\ f_fibonacci[24] = Addiu(29, 29, 32)
  /\ f_fibonacci[25] = JIns(\h2, 17) /\ f_fibonacci[26] = Addu(17, 0, 0)
BY SMTT(90) DEF f_fibonacci

LEMMA FetchAt ==
  ASSUME MadeForIt, NEW words, NEW st, NEW ram, NEW calls, Running(words, st, ram, calls),
         NEW k \in 0 .. 25, st.pc = 4 * k
  PROVE  Fetches(st, ram, f_fibonacci[k + 1])
<1>1. st \in mips_cpu_impl /\ st.mem # NULL /\ st.delay_slot = 0 /\ st.jPC = 0 /\ ram \in RamData
  BY DEF Running
<1>2. st.mem = "ram"
  BY <1>1 DEF mips_cpu_impl, Handle
<1>3. 4 * k \in Nat /\ (4 * k) + 4 <= CbMem /\ (4 * k) % 4 = 0
  BY RunningFacts
<1>4. mips_mem_read_write(st.mem, CbMem, st.pc, 4) = Success
  BY <1>2, <1>3, WordAccepted
<1>5. k + 1 \in 1 .. 26 /\ (k + 1) - 1 = k
  OBVIOUS
<1>6. Len(words) = 26 /\ words \in Seq(Word)
  BY Listing DEF Running, IsBinary
<1>7. DOMAIN words = 1 .. 26
  BY <1>6
<1>8. WordAt(ram, 4 * k) = words[k + 1]
  BY <1>5, <1>7 DEF Running, Text
<1>9. Decode(words[k + 1]) = f_fibonacci[k + 1]
  BY <1>5, Listing DEF Running, IsBinary
<1> QED BY <1>1, <1>4, <1>8, <1>9 DEF Fetches

(* The step stays in the call in progress, with its assertion there.          *)
Continues(words, st, ram, calls) ==
  LET o == Execute(st, ram)
      st2 == StepState(o)
  IN  /\ o.err = Success
      /\ Running(words, st2, o.data, calls)
      /\ st2.mem = st.mem
      /\ st2.pc # 0 /\ st2.pc # Head(calls).return

LEMMA Continuing ==
  ASSUME MadeForIt, NEW words, NEW st, NEW ram, NEW calls, Running(words, st, ram, calls),
         NEW R, NEW ram2, NEW nPC, Steps(st, ram, R, ram2, nPC),
         R[0] = 0, ram2 \in RamData, Text(words, ram2), Stacked(calls, ram2),
         Assertion(Head(calls), st.nPC, nPC, R, ram2),
         st.nPC \in (4 .. 100) \ {52}
  PROVE  Continues(words, st, ram, calls)
<1> DEFINE o == Execute(st, ram)
           st2 == StepState(o)
<1>1. /\ o.err = Success /\ o.data = ram2
      /\ st2 \in mips_cpu_impl /\ st2.pc = st.nPC /\ st2.nPC = nPC
      /\ st2.delay_slot = 0 /\ st2.jPC = 0 /\ st2.regs = R /\ st2.mem = st.mem
  BY DEF Steps
<1>2. st.mem # NULL /\ IsBinary(words, f_fibonacci)
  BY DEF Running
<1> HIDE DEF o, st2
<1>3. Running(words, st2, ram2, calls)
  BY <1>1, <1>2 DEF Running
<1>4. /\ st.nPC # 0 /\ st.nPC # 52 /\ st.nPC # SentinelPC
      /\ Head(calls).return \in {52, SentinelPC}
  <2>1. /\ Low(Head(calls)) \in Nat /\ Low(Head(calls)) >= 104
        /\ Low(Head(calls)) + 32 <= CbMem /\ CbMem \in Nat
        /\ SentinelPC \in Nat /\ SentinelPC > CbMem
        /\ Head(calls).return \in {52, SentinelPC}
    BY RunningFacts
  <2> QED BY <2>1
<1> QED BY <1>1, <1>3, <1>4 DEF Continues, o, st2

(* ... after an instruction that sets register d to v, ...                    *)
Sets(st, ram, d, v) == Steps(st, ram, [st.regs EXCEPT ![d] = v], ram, Plus(st.nPC, 4))
Agree(st, d, v, R) == R[d] = v /\ \A q \in Used \ {d} : R[q] = st.regs[q]

LEMMA AtSets ==
  ASSUME MadeForIt, NEW words, NEW st, NEW ram, NEW calls, Running(words, st, ram, calls),
         NEW d \in Used \ {0}, NEW v, st.nPC \in (4 .. 100) \ {52},
         Sets(st, ram, d, v),
         \A R : Agree(st, d, v, R) => Assertion(Head(calls), st.nPC, Plus(st.nPC, 4), R, ram)
  PROVE  Continues(words, st, ram, calls)
<1> DEFINE R == [st.regs EXCEPT ![d] = v]
<1>1. /\ st \in mips_cpu_impl /\ st.regs[0] = 0 /\ ram \in RamData /\ Text(words, ram)
      /\ Stacked(calls, ram)
  BY DEF Running
<1>2. Agree(st, d, v, R) /\ R[0] = 0
  <2>1. DOMAIN st.regs = Reg /\ d \in Reg
    BY <1>1, UsedRegs DEF mips_cpu_impl
  <2>2. 0 \in Used \ {d}
    BY DEF Used
  <2>3. Agree(st, d, v, R)
    BY <2>1 DEF Agree
  <2> QED BY <1>1, <2>2, <2>3 DEF Agree
<1> HIDE DEF R
<1>3. Steps(st, ram, R, ram, Plus(st.nPC, 4))
  BY DEF R, Sets
<1> QED BY <1>1, <1>2, <1>3, Continuing

(* ... after one that leaves the registers as they are, ...                   *)
LEMMA AtJumps ==
  ASSUME MadeForIt, NEW words, NEW st, NEW ram, NEW calls, Running(words, st, ram, calls),
         NEW nPC, st.nPC \in (4 .. 100) \ {52}, Steps(st, ram, st.regs, ram, nPC),
         Assertion(Head(calls), st.nPC, nPC, st.regs, ram)
  PROVE  Continues(words, st, ram, calls)
BY Continuing DEF Running

LEMMA AtStores ==
  ASSUME MadeForIt, NEW words, NEW st, NEW ram, NEW calls, Running(words, st, ram, calls),
         NEW t \in Used, NEW c \in Slots, Fetches(st, ram, Sw(t, c)),
         st.regs[29] = Low(Head(calls)), st.nPC \in (4 .. 100) \ {52},
         \A ram2 :
           /\ WordAt(ram2, Low(Head(calls)) + c) = st.regs[t]
           /\ \A d \in Slots \ {c} :
                WordAt(ram2, Low(Head(calls)) + d) = WordAt(ram, Low(Head(calls)) + d)
           => Assertion(Head(calls), st.nPC, Plus(st.nPC, 4), st.regs, ram2)
  PROVE  Continues(words, st, ram, calls)
<1>1. /\ st \in mips_cpu_impl /\ st.regs[0] = 0 /\ ram \in RamData /\ Text(words, ram)
      /\ Stacked(calls, ram) /\ IsBinary(words, f_fibonacci)
  BY DEF Running
<1> DEFINE f == Head(calls)
<1>2. /\ Low(f) \in Nat /\ Low(f) % 4 = 0 /\ Low(f) + 32 <= CbMem /\ CbMem \in Nat
      /\ f = calls[1]
  BY RunningFacts
<1>3. (Low(f) + c) % 4 = 0 /\ Low(f) + c + 4 <= CbMem /\ c \in 1 .. 100
  BY <1>2 DEF Slots
<1>4. ByteBits >= 4 /\ t \in Reg
  BY UsedRegs DEF MadeForIt
<1>5. PICK bytes :
        LET a == st.regs[29] + c
            ram2 == mips_mem_write(ram, a, 4, bytes)
        IN  /\ Steps(st, ram, st.regs, ram2, Plus(st.nPC, 4))
            /\ ram2 \in RamData /\ WordAt(ram2, a) = st.regs[t]
  BY <1>3, <1>4, SwSteps, SMTT(90)
<1> DEFINE ram2 == mips_mem_write(ram, Low(f) + c, 4, bytes)
<1>6. /\ Steps(st, ram, st.regs, ram2, Plus(st.nPC, 4))
      /\ ram2 \in RamData /\ WordAt(ram2, Low(f) + c) = st.regs[t]
  BY <1>5
<1>7. DOMAIN words = 1 .. 26
  <2>1. Len(words) = 26 /\ words \in Seq(Word)
    BY <1>1, Listing DEF IsBinary
  <2> QED BY <2>1
<1>8. /\ Text(words, ram2) /\ Stacked(calls, ram2)
      /\ \A d \in Slots \ {c} : WordAt(ram2, Low(f) + d) = WordAt(ram, Low(f) + d)
  BY <1>1, <1>2, <1>7, StoreKeeps
<1> HIDE DEF ram2
<1>9. Assertion(f, st.nPC, Plus(st.nPC, 4), st.regs, ram2)
  BY <1>6, <1>8
<1> QED BY <1>1, <1>6, <1>8, <1>9, Continuing

----------------------------------------------------------------------------
(* The instructions of f_fibonacci, with the operands they have there.        *)

LEMMA AddiuSets ==
  ASSUME MadeForIt, NEW st, NEW ram, NEW s \in Used, NEW t \in Used \ {0}, NEW c \in 1 .. 100
  PROVE  /\ Fetches(st, ram, Addiu(t, s, c)) /\ st.regs[s] + c < WordSize =>
              Sets(st, ram, t, st.regs[s] + c)
         /\ Fetches(st, ram, Addiu(t, s, -c)) /\ c <= st.regs[s] =>
              Sets(st, ram, t, st.regs[s] - c)
<1>0. s \in Reg /\ t \in Reg \ {0}
  BY UsedRegs
<1>1. ASSUME NEW imm, Fetches(st, ram, Addiu(t, s, imm))
      PROVE  /\ st.regs[s] \in Word
             /\ Sets(st, ram, t, Plus(st.regs[s], SignExtendHalf(imm % HalfSize)))
  <2>1. st \in mips_cpu_impl
    BY <1>1 DEF Fetches
  <2>2. Fetches(st, ram, IIns(9, s, t, imm))
    BY <1>1 DEF Addiu
  <2>3. st.regs[s] \in Word
    BY <1>0, <2>1, FieldTypes
  <2>4. 9 \in {9, 11, 12}
    OBVIOUS
  <2> QED BY <1>0, <2>2, <2>3, <2>4, ImmediateSteps DEF Sets
<1>2. ASSUME st.regs[s] \in Word
      PROVE  /\ st.regs[s] + c < WordSize =>
                  Plus(st.regs[s], SignExtendHalf(c % HalfSize)) = st.regs[s] + c
             /\ c <= st.regs[s] =>
                  Plus(st.regs[s], SignExtendHalf((-c) % HalfSize)) = st.regs[s] - c
  <2> DEFINE x == st.regs[s]
  <2>1. x \in Word /\ x \in Int /\ x >= 0
    BY <1>2, WordIsInt
  <2> HIDE DEF x
  <2>2. SignExtendHalf(c % HalfSize) = c /\ SignExtendHalf((-c) % HalfSize) = WordSize - c
    BY Immediates DEF MadeForIt
  <2>3. x + c < WordSize => Plus(x, c) = x + c
    BY <2>1, PlusSmall
  <2>4. c <= x => Plus(x, WordSize - c) = x - c
    BY <2>1, PlusNegative
  <2> QED BY <2>2, <2>3, <2>4 DEF x
<1>3. Fetches(st, ram, Addiu(t, s, c)) => st.regs[s] \in Word
  BY <1>1
<1>4. Fetches(st, ram, Addiu(t, s, -c)) => st.regs[s] \in Word
  BY <1>1
<1> QED BY <1>1, <1>2, <1>3, <1>4

LEMMA FlagSets ==
  ASSUME MadeForIt, NEW st, NEW ram, NEW s \in Used, NEW t \in Used \ {0},
         Fetches(st, ram, Sltiu(t, s, 2))
  PROVE  Sets(st, ram, t, Flag(st.regs[s] < 2))
<1>0. s \in Reg /\ t \in Reg \ {0}
  BY UsedRegs
<1>1. Fetches(st, ram, IIns(11, s, t, 2))
  BY DEF Sltiu
<1>2. SignExtendHalf(2 % HalfSize) = 2
  BY Immediates DEF MadeForIt
<1>3. Sets(st, ram, t, Flag(st.regs[s] < SignExtendHalf(2 % HalfSize)))
  BY <1>0, <1>1, ImmediateSteps DEF Sets
<1> QED BY <1>2, <1>3

LEMMA AndiSets ==
  ASSUME MadeForIt, NEW st, NEW ram, NEW s \in Used, NEW t \in Used \ {0},
         Fetches(st, ram, IIns(12, s, t, 1))
  PROVE  Sets(st, ram, t, st.regs[s] % 2)
<1>0. s \in Reg /\ t \in Reg \ {0}
  BY UsedRegs
<1>1. 1 % HalfSize = 1
  BY Immediates DEF MadeForIt
<1>2. st.regs[s] \in Word
  BY <1>0, FieldTypes DEF Fetches
<1>3. AndWord(st.regs[s], 1 % HalfSize) = st.regs[s] % 2
  BY <1>1, <1>2, LowestBit
<1>4. Sets(st, ram, t, AndWord(st.regs[s], 1 % HalfSize))
  BY <1>0, ImmediateSteps DEF Sets
<1> QED BY <1>3, <1>4

(* MOVE and LI 0 are ADDU with register 0.                                    *)
LEMMA MoveSets ==
  ASSUME NEW st, NEW ram, NEW s \in Used, NEW d \in Used \ {0},
         Fetches(st, ram, Addu(d, s, 0)), st.regs[0] = 0
  PROVE  Sets(st, ram, d, st.regs[s])
<1>0. 0 \in Reg
  BY DEF Reg
<1>1. s \in Reg /\ d \in Reg \ {0}
  BY UsedRegs
<1>2. st.regs[s] \in Word
  BY <1>1, FieldTypes DEF Fetches
<1>3. Plus(st.regs[s], st.regs[0]) = st.regs[s]
  BY <1>2, WordIsInt, PlusSmall
<1> QED BY <1>0, <1>1, <1>3, AdduSteps DEF Sets

LEMMA LwSets ==
  ASSUME MadeForIt, NEW words, NEW st, NEW ram, NEW calls, Running(words, st, ram, calls),
         NEW t \in Used \ {0}, NEW c \in Slots, Fetches(st, ram, Lw(t, c)),
         st.regs[29] = Low(Head(calls))
  PROVE  Sets(st, ram, t, WordAt(ram, Low(Head(calls)) + c))
<1> DEFINE a == Low(Head(calls))
<1>1. a \in Nat /\ a % 4 = 0 /\ a + 32 <= CbMem /\ CbMem \in Nat
  BY RunningFacts
<1> HIDE DEF a
<1>2. (a + c) % 4 = 0 /\ a + c + 4 <= CbMem /\ c \in 1 .. 100
  BY <1>1 DEF Slots
<1>3. ByteBits >= 4 /\ t \in Reg \ {0}
  BY UsedRegs DEF MadeForIt
<1>4. st.regs[29] = a
  BY DEF a
<1>5. (st.regs[29] + c) % 4 = 0 /\ st.regs[29] + c + 4 <= CbMem
  BY <1>2, <1>4
<1>6. Sets(st, ram, t, WordAt(ram, st.regs[29] + c))
  BY <1>2, <1>3, <1>5, LwSteps, Zenon DEF Sets
<1> QED BY <1>4, <1>6 DEF a

LEMMA PlusFour ==
  ASSUME MadeForIt, NEW x \in 0 .. 104
  PROVE  Plus(x, 4) = x + 4
<1>1. WordSize \in Nat /\ WordSize >= 65536
  BY Wide DEF MadeForIt
<1>2. x \in Int /\ 4 \in Int /\ 0 <= x + 4 /\ x + 4 < WordSize
  BY <1>1
<1> QED BY <1>2, PlusSmall

LEMMA Fetched ==
  ASSUME MadeForIt, NEW words, NEW st, NEW ram, NEW calls, Running(words, st, ram, calls)
  PROVE  /\ st.pc = 0 => Fetches(st, ram, Addiu(29, 29, -32))
         /\ st.pc = 4 => Fetches(st, ram, Sltiu(2, 4, 2))
         /\ st.pc = 8 => Fetches(st, ram, Sw(18, 24))
         /\ st.pc = 12 => Fetches(st, ram, Sw(31, 28))
         /\ st.pc = 16 => Fetches(st, ram, Sw(17, 20))
         /\ st.pc = 20 => Fetches(st, ram, Sw(16, 16))
         /\ st.pc = 24 => Fetches(st, ram, IIns(5, 2, 0, 17))
         /\ st.pc = 28 => Fetches(st, ram, Addu(18, 4, 0))
         /\ st.pc = 32 => Fetches(st, ram, Addu(16, 4, 0))
         /\ st.pc = 36 => Fetches(st, ram, Addu(17, 0, 0))
         /\ st.pc = 40 => Fetches(st, ram, Addiu(4, 16, -1))
         /\ st.pc = 44 => Fetches(st, ram, JIns(3, 0))
         /\ st.pc = 48 => Fetches(st, ram, Addiu(16, 16, -2))
         /\ st.pc = 52 => Fetches(st, ram, Sltiu(3, 16, 2))
         /\ st.pc = 56 => Fetches(st, ram, IIns(4, 3, 0, -5))
         /\ st.pc = 60 => Fetches(st, ram, Addu(17, 17, 2))
         /\ st.pc = 64 => Fetches(st, ram, IIns(12, 18, 18, 1))
         /\ st.pc = 68 => Fetches(st, ram, Lw(31, 28))
         /\ st.pc = 72 => Fetches(st, ram, Addu(2, 17, 18))
         /\ st.pc = 76 => Fetches(st, ram, Lw(16, 16))
         /\ st.pc = 80 => Fetches(st, ram, Lw(18, 24))
         /\ st.pc = 84 => Fetches(st, ram, Lw(17, 20))
         /\ st.pc = 88 => Fetches(st, ram, RIns(\h8, 31, 0, 0))
         /\ st.pc = 92 => Fetches(st, ram, Addiu(29, 29, 32))
         /\ st.pc = 96 => Fetches(st, ram, JIns(2, 17))
         /\ st.pc = 100 => Fetches(st, ram, Addu(17, 0, 0))
<1>1. PICK k \in 0 .. 25 : st.pc = 4 * k
  BY RunningFacts DEF Assertion
<1>2. Fetches(st, ram, f_fibonacci[k + 1])
  BY <1>1, FetchAt
<1> QED BY <1>1, <1>2, Listing

----------------------------------------------------------------------------
(* Every place of f_fibonacci but those where a call begins or ends.          *)

LEMMA InPrologue ==
  ASSUME MadeForIt, NEW words, NEW st, NEW ram, NEW calls, Running(words, st, ram, calls),
         st.pc \in {0, 4, 8, 12, 16, 20}
  PROVE  Continues(words, st, ram, calls)
<1> DEFINE f == Head(calls)
           pc == st.pc
           R == st.regs
<1>1. /\ Assertion(f, pc, st.nPC, R, ram)
      /\ f.n \in Nat /\ Low(f) \in Nat /\ f.saved[29] = Low(f) + 32
      /\ \A q \in Used : R[q] \in Word /\ R[q] \in Nat
  BY RunningFacts
<1>2. st.nPC = pc + 4 /\ Entering(f, pc, R, ram)
  BY <1>1 DEF Assertion
<1>3. Plus(st.nPC, 4) = pc + 8 /\ st.nPC \in (4 .. 100) \ {52}
  BY <1>2, PlusFour
<1> HIDE DEF f, R, pc
<1>4. CASE pc = 0
  <2>1. R[29] - 32 = Low(f) /\ 32 <= R[29] /\ 32 \in 1 .. 100
    BY <1>1, <1>2, <1>4 DEF Entering
  <2>2. Sets(st, ram, 29, Low(f))
    BY <1>4, <2>1, UsedAre, Fetched, AddiuSets DEF R, pc
  <2>3. \A R2 : Agree(st, 29, Low(f), R2) => Assertion(f, st.nPC, Plus(st.nPC, 4), R2, ram)
    BY <1>2, <1>3, <1>4 DEF Agree, Used, Assertion, Entering, R
  <2> QED BY <1>3, <2>2, <2>3, UsedAre, AtSets DEF f
<1>5. CASE pc = 4
  <2>1. Sets(st, ram, 2, Flag(R[4] < 2))
    BY <1>5, UsedAre, Fetched, FlagSets DEF R, pc
  <2>2. \A R2 : Agree(st, 2, Flag(R[4] < 2), R2) =>
                  Assertion(f, st.nPC, Plus(st.nPC, 4), R2, ram)
    BY <1>2, <1>3, <1>5 DEF Agree, Used, Assertion, Entering, R
  <2> QED BY <1>3, <2>1, <2>2, UsedAre, AtSets DEF f
<1>6. ASSUME pc \in {8, 12, 16, 20}
      PROVE  R[29] = Low(f) /\ R[2] = Flag(f.n < 2)
  BY <1>2, <1>6 DEF Entering
<1>7. 16 \in Slots /\ 20 \in Slots /\ 24 \in Slots /\ 28 \in Slots
  BY DEF Slots
<1>8. CASE pc = 8
  <2>1. ASSUME NEW ram2, WordAt(ram2, Low(f) + 24) = R[18],
               \A d \in Slots \ {24} : WordAt(ram2, Low(f) + d) = WordAt(ram, Low(f) + d)
        PROVE  Assertion(f, st.nPC, Plus(st.nPC, 4), R, ram2)
    BY <1>2, <1>3, <1>8, <2>1 DEF Assertion, Entering, Slots
  <2> QED BY <1>3, <1>6, <1>7, <1>8, <2>1, UsedAre, Fetched, AtStores DEF f, R, pc
<1>9. CASE pc = 12
  <2>1. ASSUME NEW ram2, WordAt(ram2, Low(f) + 28) = R[31],
               \A d \in Slots \ {28} : WordAt(ram2, Low(f) + d) = WordAt(ram, Low(f) + d)
        PROVE  Assertion(f, st.nPC, Plus(st.nPC, 4), R, ram2)
    BY <1>2, <1>3, <1>9, <2>1 DEF Assertion, Entering, Slots
  <2> QED BY <1>3, <1>6, <1>7, <1>9, <2>1, UsedAre, Fetched, AtStores DEF f, R, pc
<1>10. CASE pc = 16
  <2>1. ASSUME NEW ram2, WordAt(ram2, Low(f) + 20) = R[17],
               \A d \in Slots \ {20} : WordAt(ram2, Low(f) + d) = WordAt(ram, Low(f) + d)
        PROVE  Assertion(f, st.nPC, Plus(st.nPC, 4), R, ram2)
    BY <1>2, <1>3, <1>10, <2>1 DEF Assertion, Entering, Slots
  <2> QED BY <1>3, <1>6, <1>7, <1>10, <2>1, UsedAre, Fetched, AtStores DEF f, R, pc
<1>11. CASE pc = 20
  <2>1. ASSUME NEW ram2, WordAt(ram2, Low(f) + 16) = R[16],
               \A d \in Slots \ {16} : WordAt(ram2, Low(f) + d) = WordAt(ram, Low(f) + d)
        PROVE  Assertion(f, st.nPC, Plus(st.nPC, 4), R, ram2)
    BY <1>2, <1>3, <1>6, <1>11, <2>1 DEF Assertion, Entering, Slots, Spilled, Branching
  <2> QED BY <1>3, <1>6, <1>7, <1>11, <2>1, UsedAre, Fetched, AtStores DEF f, R, pc
<1> QED BY <1>4, <1>5, <1>8, <1>9, <1>10, <1>11 DEF pc

LEMMA PlusZero == ASSUME NEW x \in Word PROVE Plus(0, x) = x
BY WordIsInt, PlusSmall

LEMMA InBranches ==
  ASSUME MadeForIt, NEW words, NEW st, NEW ram, NEW calls, Running(words, st, ram, calls),
         st.pc \in {24, 28, 32, 36, 96, 100}
  PROVE  Continues(words, st, ram, calls)
<1> DEFINE f == Head(calls)
           pc == st.pc
           R == st.regs
<1>1. /\ Assertion(f, pc, st.nPC, R, ram)
      /\ f.n \in Nat
      /\ \A q \in Used : R[q] \in Word /\ R[q] \in Nat
  BY RunningFacts
<1>2. R[0] = 0 /\ st \in mips_cpu_impl
  BY DEF Running
<1>3. R[29] = Low(f) /\ Spilled(f, ram)
  BY <1>1 DEF Assertion
<1> HIDE DEF f, R, pc
<1>4. CASE pc = 24
  <2>1. R[4] = f.n /\ R[2] = Flag(f.n < 2) /\ st.nPC = 28
    BY <1>1, <1>4 DEF Assertion, Branching
  <2>2. BranchTarget(17 % HalfSize, st) = 96 /\ Plus(st.nPC, 4) = 32
    <3>1. ByteBits >= 4 /\ st.pc = 24 /\ st.pc <= 104 /\ 17 \in 1 .. 100 /\ 28 \in 0 .. 104
      BY <1>4 DEF MadeForIt, pc
    <3>2. BranchTarget(17 % HalfSize, st) = st.pc + 4 + 4 * 17
      BY <1>2, <3>1, BranchGoesTo
    <3>3. Plus(28, 4) = 28 + 4
      BY <3>1, PlusFour
    <3> QED BY <2>1, <3>1, <3>2, <3>3
  <2> DEFINE nPC == IF f.n < 2 THEN 96 ELSE 32
  <2>3. Steps(st, ram, st.regs, ram, nPC)
    <3>1. Fetches(st, ram, IIns(5, 2, 0, 17)) /\ 2 \in Reg /\ 0 \in Reg /\ 5 \in {4, 5}
      BY <1>4, Fetched, UsedAre, UsedRegs DEF pc
    <3>2. Taken(5, R[2], R[0]) <=> f.n < 2
      BY <1>2, <2>1 DEF Flag, Taken
    <3>3. Steps(st, ram, st.regs, ram,
                IF Taken(5, st.regs[2], st.regs[0])
                THEN BranchTarget(17 % HalfSize, st) ELSE Plus(st.nPC, 4))
      BY <3>1, BranchSteps
    <3> QED BY <2>2, <3>2, <3>3 DEF R
  <2>4. Assertion(f, st.nPC, nPC, R, ram)
    BY <1>3, <2>1 DEF Assertion, Branching
  <2>5. st.nPC \in (4 .. 100) \ {52}
    BY <2>1
  <2> HIDE DEF nPC
  <2> QED BY <2>3, <2>4, <2>5, AtJumps DEF f, R
<1>5. CASE pc = 28
  <2>1. R[4] = f.n /\ st.nPC = IF f.n < 2 THEN 96 ELSE 32
    BY <1>1, <1>5 DEF Assertion, Branching
  <2>2. Plus(st.nPC, 4) = st.nPC + 4 /\ st.nPC \in (4 .. 100) \ {52}
    BY <2>1, PlusFour
  <2>3. Sets(st, ram, 18, R[4])
    BY <1>2, <1>5, UsedAre, Fetched, MoveSets DEF R, pc
  <2>4. \A R2 : Agree(st, 18, R[4], R2) => Assertion(f, st.nPC, Plus(st.nPC, 4), R2, ram)
    BY <1>1, <1>3, <2>1, <2>2 DEF Agree, Used, Assertion, Starting, R
  <2> QED BY <2>2, <2>3, <2>4, UsedAre, AtSets DEF f
<1>6. CASE pc = 32
  <2>1. f.n >= 2 /\ R[4] = f.n /\ R[18] = f.n /\ st.nPC = 36
    BY <1>1, <1>6 DEF Assertion, Starting
  <2>2. Plus(st.nPC, 4) = 40 /\ st.nPC \in (4 .. 100) \ {52}
    BY <2>1, PlusFour
  <2>3. Sets(st, ram, 16, R[4])
    BY <1>2, <1>6, UsedAre, Fetched, MoveSets DEF R, pc
  <2>4. \A R2 : Agree(st, 16, R[4], R2) => Assertion(f, st.nPC, Plus(st.nPC, 4), R2, ram)
    BY <1>3, <2>1, <2>2 DEF Agree, Used, Assertion, Starting, R
  <2> QED BY <2>2, <2>3, <2>4, UsedAre, AtSets DEF f
<1>7. CASE pc = 36
  <2>1. f.n >= 2 /\ R[18] = f.n /\ R[16] = f.n /\ st.nPC = 40
    BY <1>1, <1>7 DEF Assertion, Starting
  <2>2. Plus(st.nPC, 4) = 44 /\ st.nPC \in (4 .. 100) \ {52}
    BY <2>1, PlusFour
  <2>3. Sets(st, ram, 17, 0)
    BY <1>2, <1>7, UsedAre, Fetched, MoveSets DEF R, pc
  <2>4. Lacks(f.n, 0, f.n)
    BY <1>1, FibIs, PlusZero DEF Lacks
  <2>5. \A R2 : Agree(st, 17, 0, R2) => Assertion(f, st.nPC, Plus(st.nPC, 4), R2, ram)
    BY <1>3, <2>1, <2>2, <2>4 DEF Agree, Used, Assertion, Looping, R
  <2> QED BY <2>2, <2>3, <2>5, UsedAre, AtSets DEF f
<1>8. CASE pc = 96
  <2>1. R[18] = f.n /\ f.n < 2 /\ st.nPC = 100
    BY <1>1, <1>8 DEF Assertion
  <2>2. Steps(st, ram, st.regs, ram, 68)
    <3>1. /\ Fetches(st, ram, JIns(2, 17)) /\ st.nPC <= 104 /\ 17 \in Nat
          /\ ByteBits >= 4 /\ 2 \in {2, 3}
      BY <1>8, <2>1, Fetched DEF pc, MadeForIt
    <3>2. ASSUME NEW j \in Nat, Fetches(st, ram, JIns(2, j)) PROVE Steps(st, ram, st.regs, ram, 4 * j)
      BY <3>1, <3>2, JumpSteps, ZenonT(60)
    <3> QED BY <3>1, <3>2
  <2>3. Assertion(f, st.nPC, 68, R, ram) /\ st.nPC \in (4 .. 100) \ {52}
    BY <1>3, <2>1 DEF Assertion
  <2> QED BY <2>2, <2>3, AtJumps DEF f, R
<1>9. CASE pc = 100
  <2>1. R[18] = f.n /\ f.n < 2 /\ st.nPC = 68
    BY <1>1, <1>9 DEF Assertion
  <2>2. Plus(st.nPC, 4) = 72 /\ st.nPC \in (4 .. 100) \ {52}
    BY <2>1, PlusFour
  <2>3. Sets(st, ram, 17, 0)
    BY <1>2, <1>9, UsedAre, Fetched, MoveSets DEF R, pc
  <2>4. Plus(0, R[18]) = Fib(f.n)
    BY <1>1, <2>1, UsedAre, FibIs, PlusZero
  <2>5. \A R2 : Agree(st, 17, 0, R2) => Assertion(f, st.nPC, Plus(st.nPC, 4), R2, ram)
    BY <1>3, <2>1, <2>2, <2>4 DEF Agree, Used, Assertion, Leaving, R
  <2> QED BY <2>2, <2>3, <2>5, UsedAre, AtSets DEF f
<1> QED BY <1>4, <1>5, <1>6, <1>7, <1>8, <1>9 DEF pc

LEMMA InLoop ==
  ASSUME MadeForIt, NEW words, NEW st, NEW ram, NEW calls, Running(words, st, ram, calls),
         st.pc \in {40, 44, 52, 56, 60}
  PROVE  Continues(words, st, ram, calls)
<1> DEFINE f == Head(calls)
           pc == st.pc
           R == st.regs
<1>1. /\ Assertion(f, pc, st.nPC, R, ram)
      /\ f.n \in Nat
      /\ \A q \in Used : R[q] \in Word /\ R[q] \in Nat
  BY RunningFacts
<1>2. R[0] = 0 /\ st \in mips_cpu_impl
  BY DEF Running
<1>3. R[29] = Low(f) /\ Spilled(f, ram)
  BY <1>1 DEF Assertion
<1> HIDE DEF f, R, pc
<1>4. R[2] \in Word /\ R[16] \in Nat /\ R[16] \in Word /\ R[17] \in Word
  BY <1>1, UsedAre
<1>5. CASE pc = 40
  <2>1. R[18] = f.n /\ R[16] >= 2 /\ Lacks(f.n, R[17], R[16]) /\ st.nPC = 44
    BY <1>1, <1>5 DEF Assertion, Looping
  <2>2. Plus(st.nPC, 4) = 48 /\ st.nPC \in (4 .. 100) \ {52}
    BY <2>1, PlusFour
  <2>3. Sets(st, ram, 4, R[16] - 1)
    <3>1. Fetches(st, ram, Addiu(4, 16, -1)) /\ 1 \in 1 .. 100 /\ 1 <= R[16]
      BY <1>4, <1>5, <2>1, Fetched DEF pc
    <3> QED BY <3>1, UsedAre, AddiuSets DEF R
  <2>4. \A R2 : Agree(st, 4, R[16] - 1, R2) => Assertion(f, st.nPC, Plus(st.nPC, 4), R2, ram)
    BY <1>3, <2>1, <2>2 DEF Agree, Used, Assertion, Looping, R
  <2> QED BY <2>2, <2>3, <2>4, UsedAre, AtSets DEF f
<1>6. CASE pc = 44
  <2>1. /\ R[18] = f.n /\ R[16] >= 2 /\ Lacks(f.n, R[17], R[16]) /\ R[4] = R[16] - 1
        /\ st.nPC = 48
    BY <1>1, <1>6 DEF Assertion, Looping
  <2> DEFINE R2 == [st.regs EXCEPT ![31] = Plus(st.pc, 8)]
  <2>2. Steps(st, ram, R2, ram, 0)
    <3>1. /\ Fetches(st, ram, JIns(3, 0)) /\ st.nPC <= 104 /\ 0 \in Nat
          /\ ByteBits >= 4 /\ 3 \in {2, 3}
      BY <1>6, <2>1, Fetched DEF pc, MadeForIt
    <3>2. ASSUME NEW j \in Nat, Fetches(st, ram, JIns(3, j)) PROVE Steps(st, ram, R2, ram, 4 * j)
      BY <3>1, <3>2, JumpSteps
    <3> QED BY <3>1, <3>2
  <2>3. Plus(st.pc, 8) = 52
    <3>1. WordSize \in Nat /\ WordSize >= 65536
      BY Wide DEF MadeForIt
    <3>2. 44 \in Int /\ 8 \in Int /\ 0 <= 44 + 8 /\ 44 + 8 < WordSize
      BY <3>1
    <3>3. Plus(44, 8) = 44 + 8
      BY <3>2, PlusSmall
    <3> QED BY <1>6, <3>3 DEF pc
  <2>4. R2[31] = 52 /\ \A q \in Used \ {31} : R2[q] = R[q]
    <3>1. DOMAIN st.regs = Reg /\ 31 \in Reg
      BY <1>2, UsedAre, UsedRegs DEF mips_cpu_impl
    <3> QED BY <2>3, <3>1 DEF R
  <2> HIDE DEF R2
  <2>5. Assertion(f, st.nPC, 0, R2, ram)
    BY <1>3, <2>1, <2>4 DEF Used, Assertion, Looping
  <2>6. st.nPC \in (4 .. 100) \ {52} /\ R2[0] = 0
    BY <1>2, <2>1, <2>4 DEF Used
  <2>7. ram \in RamData /\ Text(words, ram) /\ Stacked(calls, ram)
    BY DEF Running
  <2> QED BY <2>2, <2>5, <2>6, <2>7, Continuing DEF f
<1>7. CASE pc = 52
  <2>1. /\ R[18] = f.n /\ Lacks(f.n, R[17], R[16] + 2) /\ R[2] = Fib(R[16] + 1) /\ st.nPC = 56
    BY <1>1, <1>7 DEF Assertion, Adding
  <2>2. Plus(st.nPC, 4) = 60 /\ st.nPC \in (4 .. 100) \ {52}
    BY <2>1, PlusFour
  <2>3. Sets(st, ram, 3, Flag(R[16] < 2))
    BY <1>7, UsedAre, Fetched, FlagSets DEF R, pc
  <2>4. \A R2 : Agree(st, 3, Flag(R[16] < 2), R2) =>
                  Assertion(f, st.nPC, Plus(st.nPC, 4), R2, ram)
    BY <1>3, <2>1, <2>2 DEF Agree, Used, Assertion, Adding, R
  <2> QED BY <2>2, <2>3, <2>4, UsedAre, AtSets DEF f
<1>8. CASE pc = 56
  <2>1. /\ R[18] = f.n /\ Lacks(f.n, R[17], R[16] + 2) /\ R[2] = Fib(R[16] + 1)
        /\ R[3] = Flag(R[16] < 2) /\ st.nPC = 60
    BY <1>1, <1>8 DEF Assertion, Adding
  <2>2. BranchTarget((-5) % HalfSize, st) = 40 /\ Plus(st.nPC, 4) = 64
    <3>1. /\ ByteBits >= 4 /\ st.pc = 56 /\ st.pc <= 104 /\ 5 \in 1 .. 100 /\ 60 \in 0 .. 104
          /\ st.pc + 4 >= 4 * 5
      BY <1>8 DEF MadeForIt, pc
    <3>2. BranchTarget((-5) % HalfSize, st) = st.pc + 4 - 4 * 5
      BY <1>2, <3>1, BranchGoesTo
    <3>3. Plus(60, 4) = 60 + 4
      BY <3>1, PlusFour
    <3> QED BY <2>1, <3>1, <3>2, <3>3
  <2> DEFINE nPC == IF R[16] >= 2 THEN 40 ELSE 64
  <2>3. Steps(st, ram, st.regs, ram, nPC)
    <3>1. Fetches(st, ram, IIns(4, 3, 0, -5)) /\ 3 \in Reg /\ 0 \in Reg /\ 4 \in {4, 5}
      BY <1>8, Fetched, UsedAre, UsedRegs DEF pc
    <3>2. Taken(4, R[3], R[0]) <=> R[16] >= 2
      BY <1>2, <1>4, <2>1 DEF Flag, Taken
    <3>3. Steps(st, ram, st.regs, ram,
                IF Taken(4, st.regs[3], st.regs[0])
                THEN BranchTarget((-5) % HalfSize, st) ELSE Plus(st.nPC, 4))
      BY <3>1, BranchSteps, SMTT(30)
    <3> QED BY <2>2, <3>2, <3>3 DEF R
  <2>4. Assertion(f, st.nPC, nPC, R, ram)
    BY <1>3, <2>1 DEF Assertion, Adding
  <2>5. st.nPC \in (4 .. 100) \ {52}
    BY <2>1
  <2> HIDE DEF nPC
  <2> QED BY <2>3, <2>4, <2>5, AtJumps DEF f, R
<1>9. CASE pc = 60
  <2>1. /\ R[18] = f.n /\ Lacks(f.n, R[17], R[16] + 2) /\ R[2] = Fib(R[16] + 1)
        /\ st.nPC = IF R[16] >= 2 THEN 40 ELSE 64
    BY <1>1, <1>9 DEF Assertion, Adding
  <2>2. Plus(st.nPC, 4) = st.nPC + 4 /\ st.nPC \in (4 .. 100) \ {52}
    BY <2>1, PlusFour
  <2> DEFINE sum == Plus(R[17], R[2])
  <2>3. Sets(st, ram, 17, sum)
    BY <1>9, UsedAre, UsedRegs, Fetched, AdduSteps DEF R, pc, Sets
  <2>4. Lacks(f.n, sum, R[16])
    <3> DEFINE m == R[16]
    <3>1. m \in Nat /\ m + 2 \in 0 .. f.n /\ (m + 2) % 2 = f.n % 2 /\ f.n \in Nat
          /\ Plus(R[17], Fib(m + 2)) = Fib(f.n)
      BY <1>1, <1>4, <2>1 DEF Lacks
    <3> HIDE DEF m
    <3>2. m \in 0 .. f.n /\ m % 2 = f.n % 2
      BY <3>1
    <3>3. Fib(m + 2) = Plus(Fib(m + 1), Fib(m)) /\ Fib(m) \in Word
      <4>1. m + 2 \in Nat /\ m + 2 >= 2 /\ (m + 2) - 1 = m + 1 /\ (m + 2) - 2 = m
        BY <3>1
      <4> QED BY <3>1, <4>1, FibIs
    <3>4. R[2] = Fib(m + 1)
      BY <2>1 DEF m
    <3>5. Plus(sum, Fib(m)) = Fib(f.n)
      BY <1>4, <3>1, <3>3, <3>4, PlusAssociates
    <3> QED BY <3>2, <3>5 DEF Lacks, m
  <2> HIDE DEF sum
  <2>5. \A R2 : Agree(st, 17, sum, R2) => Assertion(f, st.nPC, Plus(st.nPC, 4), R2, ram)
    BY <1>3, <1>4, <2>1, <2>2, <2>4 DEF Agree, Used, Assertion, Looping, R
  <2> QED BY <2>2, <2>3, <2>5, UsedAre, AtSets DEF f
<1> QED BY <1>5, <1>6, <1>7, <1>8, <1>9 DEF pc

LEMMA InEpilogue ==
  ASSUME MadeForIt, NEW words, NEW st, NEW ram, NEW calls, Running(words, st, ram, calls),
         st.pc \in {64, 68, 72, 76, 80, 84, 88}
  PROVE  Continues(words, st, ram, calls)
<1> DEFINE f == Head(calls)
           pc == st.pc
           R == st.regs
<1>1. /\ Assertion(f, pc, st.nPC, R, ram)
      /\ f.n \in Nat
      /\ \A q \in Used : R[q] \in Word /\ R[q] \in Nat
  BY RunningFacts
<1>2. R[0] = 0 /\ st \in mips_cpu_impl
  BY DEF Running
<1>3. R[29] = Low(f) /\ Spilled(f, ram)
  BY <1>1 DEF Assertion
<1> HIDE DEF f, R, pc
<1>4. 16 \in Slots /\ 20 \in Slots /\ 24 \in Slots /\ 28 \in Slots
  BY DEF Slots
<1>5. st.nPC = pc + 4 /\ Plus(st.nPC, 4) = pc + 8 /\ st.nPC \in (4 .. 100) \ {52}
  <2>1. st.nPC = pc + 4 /\ pc + 4 \in 0 .. 104 /\ st.nPC \in (4 .. 100) \ {52}
    BY <1>1 DEF Assertion, Leaving, pc
  <2> QED BY <2>1, PlusFour DEF pc
<1>6. CASE pc = 64
  <2>1. R[18] = f.n /\ R[16] < 2 /\ Lacks(f.n, R[17], R[16])
    BY <1>1, <1>6 DEF Assertion
  <2>2. Sets(st, ram, 18, R[18] % 2)
    BY <1>6, UsedAre, Fetched, AndiSets DEF R, pc
  <2>3. Plus(R[17], R[18] % 2) = Fib(f.n)
    <3>1. R[16] \in Nat
      BY <1>1, UsedAre
    <3>2. R[16] = R[18] % 2 /\ Plus(R[17], Fib(R[16])) = Fib(f.n)
      BY <2>1, <3>1 DEF Lacks
    <3>3. Fib(R[16]) = R[16]
      BY <2>1, <3>1, FibIs
    <3> QED BY <3>2, <3>3
  <2> DEFINE v == R[18] % 2
  <2> HIDE DEF v
  <2>4. \A R2 : Agree(st, 18, v, R2) => Assertion(f, st.nPC, Plus(st.nPC, 4), R2, ram)
    <3>1. Plus(R[17], v) = Fib(f.n)
      BY <2>3 DEF v
    <3> QED BY <1>3, <1>5, <1>6, <3>1 DEF Agree, Used, Assertion, Leaving, R
  <2> QED BY <1>5, <2>2, <2>4, UsedAre, AtSets DEF f, v
<1>7. ASSUME pc \in {68, 72, 76, 80, 84, 88} PROVE Leaving(f, pc, st.nPC, R)
  BY <1>1, <1>7 DEF Assertion
<1>8. CASE pc = 68
  <2>1. Sets(st, ram, 31, f.return)
    <3>1. Sets(st, ram, 31, WordAt(ram, Low(f) + 28))
      BY <1>3, <1>4, <1>8, UsedAre, Fetched, LwSets DEF f, R, pc
    <3> QED BY <1>3, <3>1 DEF Spilled
  <2>2. \A R2 : Agree(st, 31, f.return, R2) => Assertion(f, st.nPC, Plus(st.nPC, 4), R2, ram)
    BY <1>3, <1>5, <1>7, <1>8 DEF Agree, Used, Assertion, Leaving, R
  <2> QED BY <1>5, <2>1, <2>2, UsedAre, AtSets DEF f
<1>9. CASE pc = 72
  <2>1. Sets(st, ram, 2, Plus(R[17], R[18]))
    <3>1. Fetches(st, ram, Addu(2, 17, 18)) /\ 17 \in Reg /\ 18 \in Reg /\ 2 \in Reg \ {0}
      BY <1>9, UsedAre, UsedRegs, Fetched DEF pc
    <3> QED BY <3>1, AdduSteps, SMTT(30) DEF R, Sets
  <2>2. Plus(R[17], R[18]) = Fib(f.n)
    BY <1>7, <1>9 DEF Leaving
  <2>3. Sets(st, ram, 2, Fib(f.n))
    BY <2>1, <2>2
  <2>4. \A R2 : Agree(st, 2, Fib(f.n), R2) => Assertion(f, st.nPC, Plus(st.nPC, 4), R2, ram)
    BY <1>3, <1>5, <1>7, <1>9 DEF Agree, Used, Assertion, Leaving, R
  <2> QED BY <1>5, <2>3, <2>4, UsedAre, AtSets DEF f
<1>10. CASE pc = 76
  <2>1. Sets(st, ram, 16, f.saved[16])
    <3>1. Sets(st, ram, 16, WordAt(ram, Low(f) + 16))
      BY <1>3, <1>4, <1>10, UsedAre, Fetched, LwSets DEF f, R, pc
    <3> QED BY <1>3, <3>1 DEF Spilled
  <2>2. \A R2 : Agree(st, 16, f.saved[16], R2) => Assertion(f, st.nPC, Plus(st.nPC, 4), R2, ram)
    BY <1>3, <1>5, <1>7, <1>10 DEF Agree, Used, Assertion, Leaving, R
  <2> QED BY <1>5, <2>1, <2>2, UsedAre, AtSets DEF f
<1>11. CASE pc = 80
  <2>1. Sets(st, ram, 18, f.saved[18])
    <3>1. Sets(st, ram, 18, WordAt(ram, Low(f) + 24))
      BY <1>3, <1>4, <1>11, UsedAre, Fetched, LwSets DEF f, R, pc
    <3> QED BY <1>3, <3>1 DEF Spilled
  <2>2. \A R2 : Agree(st, 18, f.saved[18], R2) => Assertion(f, st.nPC, Plus(st.nPC, 4), R2, ram)
    BY <1>3, <1>5, <1>7, <1>11 DEF Agree, Used, Assertion, Leaving, R
  <2> QED BY <1>5, <2>1, <2>2, UsedAre, AtSets DEF f
<1>12. CASE pc = 84
  <2>1. Sets(st, ram, 17, f.saved[17])
    <3>1. Sets(st, ram, 17, WordAt(ram, Low(f) + 20))
      BY <1>3, <1>4, <1>12, UsedAre, Fetched, LwSets DEF f, R, pc
    <3> QED BY <1>3, <3>1 DEF Spilled
  <2>2. \A R2 : Agree(st, 17, f.saved[17], R2) => Assertion(f, st.nPC, Plus(st.nPC, 4), R2, ram)
    BY <1>3, <1>5, <1>7, <1>12 DEF Agree, Used, Assertion, Leaving, R
  <2> QED BY <1>5, <2>1, <2>2, UsedAre, AtSets DEF f
<1>13. CASE pc = 88
  <2>1. R[31] = f.return
    BY <1>7, <1>13 DEF Leaving
  <2>2. Steps(st, ram, st.regs, ram, f.return)
    <3>1. Fetches(st, ram, RIns(\h8, 31, 0, 0)) /\ 31 \in Reg
      BY <1>13, Fetched, UsedAre, UsedRegs DEF pc
    <3> QED BY <2>1, <3>1, JrSteps DEF R
  <2>3. Assertion(f, st.nPC, f.return, R, ram)
    BY <1>3, <1>5, <1>7, <1>13 DEF Assertion, Leaving
  <2> QED BY <1>5, <2>2, <2>3, AtJumps DEF f, R
<1> QED BY <1>6, <1>8, <1>9, <1>10, <1>11, <1>12, <1>13 DEF pc

----------------------------------------------------------------------------
(* A call begins, and a call ends.                                            *)

LEMMA Pushed ==
  ASSUME NEW calls \in Seq(FrameType), NEW g \in FrameType
  PROVE  LET more == << g >> \o calls
         IN  /\ more \in Seq(FrameType) /\ Len(more) = Len(calls) + 1
             /\ more[1] = g /\ Head(more) = g
             /\ \A k \in 1 .. Len(calls) : more[k + 1] = calls[k]
<1>1. << g >> \in Seq(FrameType) /\ Len(<< g >>) = 1 /\ << g >>[1] = g
  OBVIOUS
<1>2. Len(calls) \in Nat
  OBVIOUS
<1> DEFINE more == << g >> \o calls
<1>3. more \in Seq(FrameType) /\ Len(more) = Len(calls) + 1
  BY <1>1
<1>4. more[1] = g
  BY <1>1, <1>2
<1>5. \A k \in 1 .. Len(calls) : more[k + 1] = calls[k]
  BY <1>1, <1>2
<1> HIDE DEF more
<1>6. more # << >>
  BY <1>2, <1>3
<1>7. Head(more) = more[1]
  BY <1>3, <1>6
<1> QED BY <1>3, <1>4, <1>5, <1>7 DEF more

LEMMA StackedOneMore ==
  ASSUME MadeForIt, NEW ram, NEW calls, Stacked(calls, ram), NEW g \in FrameType,
         WaitsFor(calls[1], g), Spilled(calls[1], ram),
         Depth(g.n) + 1 <= Depth(calls[1].n)
  PROVE  Stacked(<< g >> \o calls, ram)
<1> DEFINE more == << g >> \o calls
           f == calls[1]
<1>1. calls \in Seq(FrameType) /\ Len(calls) \in Nat \ {0}
  BY EmptySeq DEF Stacked
<1>2. /\ more \in Seq(FrameType) /\ Len(more) = Len(calls) + 1
      /\ more[1] = g /\ \A k \in 1 .. Len(calls) : more[k + 1] = calls[k]
  BY <1>1, Pushed
<1> HIDE DEF more
<1>3. /\ g.saved[29] = StackTop - 32 * (Len(more) - 1)
      /\ g.saved[29] - 32 * Depth(g.n) >= 104
  <2>1. 1 \in 1 .. Len(calls)
    BY <1>1
  <2>2. /\ Low(f) \in Nat /\ Low(f) = (StackTop - 32 * (Len(calls) - 1)) - 32
        /\ f.saved[29] = Low(f) + 32 /\ f.saved[29] - 32 * Depth(f.n) >= 104
        /\ f.n \in Nat
    BY <2>1, FrameRoom
  <2>3. g.saved[29] = Low(f)
    BY DEF WaitsFor
  <2>4. Depth(f.n) \in Nat /\ Depth(g.n) \in Nat /\ Depth(g.n) + 1 <= Depth(f.n)
    BY <2>2 DEF Depth, FrameType
  <2>5. StackTop \in Int
    BY RunnerAssumption, WordIsInt
  <2> HIDE DEF f
  <2> QED BY <1>1, <1>2, <2>2, <2>3, <2>4, <2>5
<1>4. \A k \in 1 .. Len(more) : k = 1 \/ (k - 1 \in 1 .. Len(calls) /\ more[k] = calls[k - 1]
                                         /\ Len(more) - k = Len(calls) - (k - 1))
  <2> TAKE k \in 1 .. Len(more)
  <2>1. SUFFICES ASSUME k # 1
                 PROVE  /\ k - 1 \in 1 .. Len(calls) /\ more[k] = calls[k - 1]
                        /\ Len(more) - k = Len(calls) - (k - 1)
    OBVIOUS
  <2>2. k - 1 \in 1 .. Len(calls) /\ (k - 1) + 1 = k
    BY <1>1, <1>2, <2>1
  <2> QED BY <1>1, <1>2, <2>2
<1>5. \A k \in 1 .. Len(more) :
        /\ more[k].saved[29] = StackTop - 32 * (Len(more) - k)
        /\ more[k].saved[29] - 32 * Depth(more[k].n) >= 104
  <2> TAKE k \in 1 .. Len(more)
  <2>1. CASE k = 1
    BY <1>2, <1>3, <2>1
  <2>2. CASE k # 1
    <3>1. /\ k - 1 \in 1 .. Len(calls) /\ more[k] = calls[k - 1]
          /\ Len(more) - k = Len(calls) - (k - 1)
      BY <1>4, <2>2
    <3>2. \A j \in 1 .. Len(calls) :
            /\ calls[j].saved[29] = StackTop - 32 * (Len(calls) - j)
            /\ calls[j].saved[29] - 32 * Depth(calls[j].n) >= 104
      BY DEF Stacked
    <3> QED BY <3>1, <3>2
  <2> QED BY <2>1, <2>2
<1>6. \A k \in 1 .. Len(more) - 1 :
        WaitsFor(more[k + 1], more[k]) /\ Spilled(more[k + 1], ram)
  <2> TAKE k \in 1 .. Len(more) - 1
  <2>1. CASE k = 1
    <3>1. more[k + 1] = f
      BY <1>1, <1>2, <2>1
    <3> QED BY <1>2, <2>1, <3>1
  <2>2. CASE k # 1
    <3>1. k - 1 \in 1 .. Len(calls) - 1 /\ k \in 1 .. Len(calls) /\ k \in 1 .. Len(more)
          /\ (k - 1) + 1 = k
      BY <1>1, <1>2, <2>2
    <3>2. more[k + 1] = calls[k] /\ more[k] = calls[k - 1]
      BY <1>2, <1>4, <2>2, <3>1
    <3>3. WaitsFor(calls[(k - 1) + 1], calls[k - 1]) /\ Spilled(calls[(k - 1) + 1], ram)
      BY <3>1 DEF Stacked
    <3> QED BY <3>1, <3>2, <3>3
  <2> QED BY <2>1, <2>2
<1>7. more # << >> /\ more[Len(more)].return = SentinelPC
  <2>1. Len(calls) \in 1 .. Len(calls) /\ calls[Len(calls)].return = SentinelPC
    BY <1>1 DEF Stacked
  <2> QED BY <1>1, <1>2, <2>1
<1> QED BY <1>2, <1>5, <1>6, <1>7 DEF Stacked, more

LEMMA Popped ==
  ASSUME NEW calls \in Seq(FrameType), Len(calls) > 1
  PROVE  LET less == Tail(calls)
         IN  /\ less \in Seq(FrameType) /\ Len(less) = Len(calls) - 1 /\ less # << >>
             /\ Head(less) = calls[2]
             /\ \A k \in 1 .. Len(less) : less[k] = calls[k + 1]
<1> DEFINE less == Tail(calls)
<1>1. calls # << >> /\ Len(calls) \in Nat
  BY EmptySeq
<1>2. less \in Seq(FrameType) /\ Len(less) = Len(calls) - 1
  BY <1>1
<1>3. \A k \in 1 .. Len(less) : less[k] = calls[k + 1]
  BY <1>1, <1>2
<1> HIDE DEF less
<1>4. less # << >>
  BY <1>1, <1>2
<1>5. Head(less) = less[1] /\ 1 \in 1 .. Len(less) /\ 1 + 1 = 2
  BY <1>1, <1>2, <1>4
<1> QED BY <1>2, <1>3, <1>4, <1>5 DEF less

LEMMA StackedOneLess ==
  ASSUME NEW ram, NEW calls, Stacked(calls, ram), Len(calls) > 1
  PROVE  Stacked(Tail(calls), ram)
<1> DEFINE less == Tail(calls)
<1>1. calls \in Seq(FrameType) /\ Len(calls) \in Nat
  BY DEF Stacked
<1>2. /\ less \in Seq(FrameType) /\ Len(less) = Len(calls) - 1 /\ less # << >>
      /\ \A k \in 1 .. Len(less) : less[k] = calls[k + 1]
  BY <1>1, Popped
<1> HIDE DEF less
<1>3. \A k \in 1 .. Len(less) :
        /\ less[k].saved[29] = StackTop - 32 * (Len(less) - k)
        /\ less[k].saved[29] - 32 * Depth(less[k].n) >= 104
  <2> TAKE k \in 1 .. Len(less)
  <2>1. k + 1 \in 1 .. Len(calls) /\ less[k] = calls[k + 1] /\ Len(less) - k = Len(calls) - (k + 1)
    BY <1>1, <1>2
  <2>2. \A j \in 1 .. Len(calls) :
          /\ calls[j].saved[29] = StackTop - 32 * (Len(calls) - j)
          /\ calls[j].saved[29] - 32 * Depth(calls[j].n) >= 104
    BY DEF Stacked
  <2> QED BY <2>1, <2>2
<1>4. \A k \in 1 .. Len(less) - 1 :
        WaitsFor(less[k + 1], less[k]) /\ Spilled(less[k + 1], ram)
  <2> TAKE k \in 1 .. Len(less) - 1
  <2>1. /\ k \in 1 .. Len(less) /\ k + 1 \in 1 .. Len(less) /\ k + 1 \in 1 .. Len(calls) - 1
        /\ less[k] = calls[k + 1] /\ less[k + 1] = calls[(k + 1) + 1]
    BY <1>1, <1>2
  <2>2. \A j \in 1 .. Len(calls) - 1 :
          WaitsFor(calls[j + 1], calls[j]) /\ Spilled(calls[j + 1], ram)
    BY DEF Stacked
  <2> QED BY <2>1, <2>2
<1>5. less[Len(less)].return = SentinelPC
  <2>1. Len(less) \in 1 .. Len(less) /\ Len(less) + 1 = Len(calls)
    BY <1>1, <1>2
  <2> QED BY <1>2, <2>1 DEF Stacked
<1> QED BY <1>2, <1>3, <1>4, <1>5 DEF Stacked, less

(* JAL 0 was the step before; now its delay slot.                             *)
LEMMA CallBegins ==
  ASSUME MadeForIt, NEW words, NEW st, NEW ram, NEW calls, Running(words, st, ram, calls),
         st.pc = 48
  PROVE  LET o == Execute(st, ram)
             st2 == StepState(o)
         IN  /\ o.err = Success
             /\ st2.pc = 0 /\ Head(calls).return # 0
             /\ Running(words, st2, o.data, << Frame(st2) >> \o calls)
             /\ st2.mem = st.mem
<1> DEFINE f == Head(calls)
           R == st.regs
           o == Execute(st, ram)
           st2 == StepState(o)
           g == Frame(st2)
<1>1. /\ Assertion(f, st.pc, st.nPC, R, ram) /\ f = calls[1] /\ Stacked(calls, ram)
      /\ f.n \in Nat /\ Low(f) \in Nat /\ f.return \in {52, SentinelPC}
      /\ CbMem \in Nat /\ SentinelPC \in Nat /\ SentinelPC > CbMem
      /\ \A q \in Used : R[q] \in Word /\ R[q] \in Nat
  BY RunningFacts
<1>2. /\ st \in mips_cpu_impl /\ st.mem # NULL /\ R[0] = 0 /\ ram \in RamData
      /\ IsBinary(words, f_fibonacci) /\ Text(words, ram)
  BY DEF Running
<1> HIDE DEF f, R
<1>3. /\ R[29] = Low(f) /\ Spilled(f, ram)
      /\ R[18] = f.n /\ R[16] >= 2 /\ Lacks(f.n, R[17], R[16]) /\ R[4] = R[16] - 1
      /\ R[31] = 52 /\ st.nPC = 0
  BY <1>1 DEF Assertion, Looping
<1>4. Sets(st, ram, 16, R[16] - 2)
  <2>1. Fetches(st, ram, Addiu(16, 16, -2)) /\ 2 \in 1 .. 100 /\ 2 <= R[16]
    BY <1>1, <1>3, UsedAre, Fetched
  <2> QED BY <2>1, UsedAre, AddiuSets DEF R
<1> DEFINE R2 == [st.regs EXCEPT ![16] = R[16] - 2]
<1>5. Plus(0, 4) = 4
  BY PlusFour
<1>6. /\ o.err = Success /\ o.data = ram /\ st2 \in mips_cpu_impl
      /\ st2.pc = 0 /\ st2.nPC = 4 /\ st2.delay_slot = 0 /\ st2.jPC = 0
      /\ st2.regs = R2 /\ st2.mem = st.mem
  BY <1>3, <1>4, <1>5 DEF Sets, Steps
<1>7. R2[16] = R[16] - 2 /\ \A q \in Used \ {16} : R2[q] = R[q]
  <2>1. DOMAIN st.regs = Reg /\ 16 \in Reg
    BY <1>2, UsedAre, UsedRegs DEF mips_cpu_impl
  <2> QED BY <2>1 DEF R
<1> HIDE DEF R2, o, st2
<1>8. /\ g.n = R[16] - 1 /\ g.return = 52
      /\ g.saved = [r \in {16, 17, 18, 29} |-> R2[r]]
  BY <1>3, <1>6, <1>7 DEF Frame, Used
<1>9. /\ g.saved[16] = R[16] - 2 /\ g.saved[17] = R[17] /\ g.saved[18] = f.n
      /\ g.saved[29] = Low(f)
  BY <1>3, <1>7, <1>8 DEF Used
<1>10. g \in FrameType
  <2>1. \A r \in {16, 17, 18, 29} : R2[r] \in Word
    BY <1>6, FieldTypes, UsedAre, UsedRegs
  <2>2. R[16] - 1 \in Nat /\ 52 \in Word
    <3>1. st.regs[31] \in Word
      BY <1>2, FieldTypes, UsedAre, UsedRegs
    <3> QED BY <1>1, <1>3, <3>1, UsedAre DEF R
  <2>3. g = [n |-> R[16] - 1, return |-> 52, saved |-> [r \in {16, 17, 18, 29} |-> R2[r]]]
    BY <1>3, <1>6, <1>7 DEF Frame, Used
  <2> HIDE DEF g
  <2> QED BY <2>1, <2>2, <2>3 DEF FrameType
<1> HIDE DEF g
<1>11. WaitsFor(f, g)
  <2>1. g.n = g.saved[16] + 1 /\ g.saved[16] + 2 = R[16]
    BY <1>1, <1>8, <1>9, UsedAre
  <2> QED BY <1>3, <1>8, <1>9, <2>1 DEF WaitsFor
<1>12. Depth(g.n) + 1 <= Depth(f.n)
  <2>1. R[16] \in Nat /\ R[16] >= 2 /\ R[16] <= f.n
    BY <1>1, <1>3, UsedAre DEF Lacks
  <2> QED BY <1>1, <1>8, <2>1 DEF Depth
<1>13. Stacked(<< g >> \o calls, ram)
  BY <1>1, <1>3, <1>10, <1>11, <1>12, StackedOneMore
<1>14. Assertion(g, 0, 4, R2, ram)
  <2>1. Entering(g, 0, R2, ram)
    BY <1>3, <1>7, <1>8, <1>9 DEF Entering, Used
  <2> QED BY <2>1 DEF Assertion
<1>15. Head(<< g >> \o calls) = g /\ R2[0] = 0
  <2>1. calls \in Seq(FrameType) /\ 0 \in Used \ {16}
    BY <1>1 DEF Stacked, Used
  <2> QED BY <1>2, <1>7, <1>10, <2>1, Pushed
<1>16. Running(words, st2, ram, << g >> \o calls)
  BY <1>2, <1>6, <1>13, <1>14, <1>15 DEF Running
<1>17. f.return # 0
  BY <1>1
<1> QED BY <1>6, <1>16, <1>17 DEF g, f, o, st2

(* JR ra was the step before.                                                 *)
LEMMA CallEnds ==
  ASSUME MadeForIt, NEW words, NEW st, NEW ram, NEW calls, Running(words, st, ram, calls),
         st.pc = 92
  PROVE  LET f == Head(calls)
             o == Execute(st, ram)
             st2 == StepState(o)
         IN  /\ o.err = Success /\ o.data = ram
             /\ st2.pc = f.return /\ st2.mem = st.mem
             /\ st2.regs[2] = Fib(f.n)
             /\ \A r \in {16, 17, 18, 29} : st2.regs[r] = f.saved[r]
             /\ st2 \in mips_cpu_impl /\ st2.delay_slot = 0 /\ st2.jPC = 0
             /\ \/ st2.pc = SentinelPC /\ Tail(calls) = << >>
                \/ st2.pc # SentinelPC /\ Running(words, st2, ram, Tail(calls))
<1> DEFINE f == Head(calls)
           R == st.regs
           o == Execute(st, ram)
           st2 == StepState(o)
<1>1. /\ Assertion(f, st.pc, st.nPC, R, ram) /\ f = calls[1] /\ Stacked(calls, ram)
      /\ f.n \in Nat /\ Low(f) \in Nat /\ f.return \in {52, SentinelPC}
      /\ Low(f) >= 104 /\ Low(f) + 32 <= CbMem
      /\ f.saved[29] = Low(f) + 32 /\ f.saved[29] \in Word
      /\ CbMem \in Nat /\ SentinelPC \in Nat /\ SentinelPC > CbMem
      /\ \A q \in Used : R[q] \in Word /\ R[q] \in Nat
  BY RunningFacts
<1>2. /\ st \in mips_cpu_impl /\ st.mem # NULL /\ R[0] = 0 /\ ram \in RamData
      /\ IsBinary(words, f_fibonacci) /\ Text(words, ram)
  BY DEF Running
<1> HIDE DEF f, R
<1>3. /\ R[29] = Low(f) /\ R[2] = Fib(f.n) /\ st.nPC = f.return
      /\ R[16] = f.saved[16] /\ R[17] = f.saved[17] /\ R[18] = f.saved[18]
  BY <1>1 DEF Assertion, Leaving
<1>4. Sets(st, ram, 29, f.saved[29])
  <2>1. Fetches(st, ram, Addiu(29, 29, 32)) /\ 32 \in 1 .. 100
    BY Fetched
  <2>2. R[29] + 32 = f.saved[29] /\ R[29] + 32 < WordSize
    BY <1>1, <1>3, WordIsInt
  <2> QED BY <2>1, <2>2, UsedAre, AddiuSets DEF R
<1> DEFINE R2 == [st.regs EXCEPT ![29] = f.saved[29]]
<1>5. /\ o.err = Success /\ o.data = ram /\ st2 \in mips_cpu_impl
      /\ st2.pc = f.return /\ st2.nPC = Plus(f.return, 4) /\ st2.delay_slot = 0 /\ st2.jPC = 0
      /\ st2.regs = R2 /\ st2.mem = st.mem
  BY <1>3, <1>4 DEF Sets, Steps
<1>6. R2[29] = f.saved[29] /\ \A q \in Used \ {29} : R2[q] = R[q]
  <2>1. DOMAIN st.regs = Reg /\ 29 \in Reg
    BY <1>2, UsedAre, UsedRegs DEF mips_cpu_impl
  <2> QED BY <2>1 DEF R
<1> HIDE DEF R2, o, st2
<1>7. R2[2] = Fib(f.n) /\ \A r \in {16, 17, 18, 29} : R2[r] = f.saved[r]
  BY <1>3, <1>6 DEF Used
<1>8. calls \in Seq(FrameType) /\ Len(calls) \in Nat \ {0} /\ calls # << >>
  BY <1>1, EmptySeq DEF Stacked
<1>9. CASE Len(calls) = 1
  <2>1. f.return = SentinelPC
    BY <1>1, <1>9 DEF Stacked
  <2>2. Tail(calls) = << >>
    <3>1. Tail(calls) \in Seq(FrameType) /\ Len(Tail(calls)) = Len(calls) - 1
      BY <1>8
    <3>2. Tail(calls) \in Seq(FrameType) /\ Len(Tail(calls)) = 0
      BY <1>9, <3>1
    <3> QED BY <3>2, EmptySeq
  <2> QED BY <1>5, <1>7, <2>1, <2>2 DEF f, o, st2
<1>10. CASE Len(calls) > 1
  <2> DEFINE g == calls[2]
             less == Tail(calls)
  <2>1. Head(less) = g
    BY <1>8, <1>10, Popped
  <2>2. WaitsFor(g, f) /\ Spilled(g, ram)
    <3>1. 1 \in 1 .. Len(calls) - 1 /\ 1 + 1 = 2
      BY <1>8, <1>10
    <3> QED BY <1>1, <3>1 DEF Stacked
  <2>3. Stacked(less, ram)
    BY <1>1, <1>10, StackedOneLess
  <2> HIDE DEF less, g
  <2>4. Plus(52, 4) = 56
    BY PlusFour
  <2>5. st2.pc = 52 /\ st2.nPC = 56
    BY <1>5, <2>2, <2>4 DEF WaitsFor
  <2>6. Adding(g, 52, 56, R2)
    BY <1>7, <2>2 DEF WaitsFor, Adding
  <2>7. Assertion(g, 52, 56, R2, ram)
    <3>1. R2[29] = Low(g)
      BY <1>7, <2>2 DEF WaitsFor
    <3> QED BY <2>2, <2>6, <3>1 DEF Assertion
  <2>8. R2[0] = 0
    BY <1>2, <1>6 DEF Used
  <2>9. Running(words, st2, ram, less)
    BY <1>2, <1>5, <2>1, <2>3, <2>5, <2>7, <2>8 DEF Running
  <2>10. 52 # SentinelPC
    BY <1>1
  <2> QED BY <1>5, <1>7, <2>5, <2>9, <2>10 DEF f, o, st2, less
<1>11. Len(calls) = 1 \/ Len(calls) > 1
  <2>1. \A n \in Nat \ {0} : n = 1 \/ n > 1
    OBVIOUS
  <2> QED BY <1>8, <2>1
<1> QED BY <1>9, <1>10, <1>11, Zenon

----------------------------------------------------------------------------
(* Loading.                                                                   *)

LEMMA Files ==
  ASSUME MadeForIt, NEW words \in FibonacciFiles \cup AdduFiles
  PROVE  words \in Seq(Word)
<1>1. << >> \in Seq(Word)
  OBVIOUS
<1>2. \A code : IsBinary(words, code) => words \in Seq(Word)
  BY DEF IsBinary
<1> QED BY <1>1, <1>2 DEF MadeForIt

LEMMA FilesAre ==
  ASSUME MadeForIt, RunnerInv
  PROVE  /\ file \in Seq(Word) /\ Len(file) \in Nat /\ DOMAIN file = 1 .. Len(file)
         /\ file = << >> <=> Len(file) = 0
         /\ program = "run_fibonacci" =>
              \/ IsBinary(file, f_fibonacci)
              \/ file = << >> /\ Decode(0) = Nop /\ FreshRam = [a \in RamAddress |-> 0]
         /\ program = "run_addu" => IsBinary(file, f_addu) \/ 4 * Len(file) > CbMem
<1>1. /\ program = "run_fibonacci" => file \in FibonacciFiles
      /\ program = "run_addu" => file \in AdduFiles
      /\ program \in {"run_fibonacci", "run_addu"}
  BY DEF RunnerInv
<1>2. /\ \A words \in FibonacciFiles :
           \/ IsBinary(words, f_fibonacci)
           \/ words = << >> /\ Decode(0) = Nop /\ FreshRam = [a \in RamAddress |-> 0]
      /\ \A words \in AdduFiles :
           IsBinary(words, f_addu) \/ (words \in Seq(Word) /\ 4 * Len(words) > CbMem)
  BY DEF MadeForIt
<1>5. file \in Seq(Word)
  BY <1>1, Files
<1>6. Len(file) \in Nat /\ DOMAIN file = 1 .. Len(file) /\ (file = << >> <=> Len(file) = 0)
  BY <1>5, EmptySeq
<1> QED BY <1>1, <1>2, <1>5, <1>6

LEMMA CreatedIs ==
  ASSUME MadeForIt, NEW mem \in Handle
  PROVE  /\ Created(mem) \in mips_cpu_impl
         /\ Created(mem).mem = mem /\ Created(mem).pc = 0 /\ Created(mem).nPC = 4
         /\ Created(mem).delay_slot = 0 /\ Created(mem).jPC = 0
         /\ \A r \in Reg : Created(mem).regs[r] = 0
<1>1. 0 \in Word /\ 4 \in Word
  <2>1. WordSize \in Nat /\ WordSize >= 65536
    BY Wide DEF MadeForIt
  <2> QED BY <2>1 DEF Word
<1> QED BY <1>1 DEF Created, mips_cpu_impl

LEMMA InitKeeps == ASSUME MadeForIt, Init PROVE RunnerInv
<1>1. PICK mem \in RamHandles : cpu = Created(mem)
  BY DEF Init
<1>2. mem \in Handle
  BY RunnerAssumption
<1>3. /\ cpu \in mips_cpu_impl /\ cpu.mem = mem /\ cpu.delay_slot = 0 /\ cpu.jPC = 0
  BY <1>1, <1>2, CreatedIs
<1>4. /\ stage = "open" /\ offset = 0 /\ data = FreshRam /\ frames = << >>
      /\ program = "run_fibonacci" => input \in FibonacciInputs /\ file \in FibonacciFiles
      /\ program = "run_addu" => input \in AdduInputs /\ file \in AdduFiles
      /\ program \in {"run_fibonacci", "run_addu"}
  BY DEF Init
<1>5. data \in RamData
  BY <1>4, RunnerAssumption
<1>6. Len(file) \in Nat
  <2>1. file \in Seq(Word)
    BY <1>4, Files
  <2> QED BY <2>1
<1>7. Fresh /\ frames \in Seq(FrameType) /\ offset \in 0 .. Len(file)
  BY <1>1, <1>3, <1>4, <1>6 DEF Fresh
<1> QED BY <1>1, <1>3, <1>4, <1>5, <1>7 DEF RunnerInv

LEMMA OpenKeeps == ASSUME MadeForIt, RunnerInv, OpenFile PROVE RunnerInv'
<1>1. /\ stage = "open" /\ stage' \in {"load", "no file"}
      /\ UNCHANGED << program, input, file, offset, cpu, data, frames >>
  BY DEF OpenFile
<1>2. offset = 0 /\ file \in Seq(Word) /\ Fresh
  BY <1>1, FilesAre DEF RunnerInv
<1>3. DOMAIN SubSeq(file, 1, 0) = {}
  OBVIOUS
<1>4. Text(SubSeq(file, 1, offset), data)
  BY <1>2, <1>3 DEF Text
<1>5. Fresh'
  BY <1>1, <1>2 DEF Fresh
<1>6. Text(SubSeq(file, 1, offset), data)'
  BY <1>1, <1>4
<1> QED BY <1>1, <1>2, <1>5, <1>6 DEF RunnerInv

(* The place for the next word.                                               *)
LEMMA WritePlace ==
  ASSUME MadeForIt, RunnerInv, stage = "load", offset < Len(file)
  PROVE  /\ 4 * offset \in Nat /\ offset \in Nat
         /\ WriteResult = Success => cpu.mem # NULL /\ 4 * offset + 4 <= CbMem
         /\ WriteResult # Success => cpu.mem = NULL \/ 4 * offset + 4 > CbMem
<1>1. /\ Len(file) \in Nat /\ offset \in 0 .. Len(file)
      /\ offset = 0 \/ 4 * offset <= CbMem
      /\ cpu \in mips_cpu_impl
  BY FilesAre DEF RunnerInv
<1>2. offset \in Nat /\ 4 * offset \in Nat /\ (4 * offset) % 4 = 0
  BY <1>1
<1>3. 4 * offset \in Word /\ 4 \in Word
  <2>1. CbMem \in Nat /\ CbMem < WordSize /\ WordSize \in Nat /\ WordSize >= 65536
    BY RunnerAssumption, RamAssumption, WordIsInt, Wide DEF MadeForIt
  <2> HIDE DEF WordSize
  <2> QED BY <1>1, <1>2, <2>1 DEF Word
<1>4. cpu.mem \in Handle
  BY <1>1 DEF mips_cpu_impl
<1>5. WriteResult = Success <=> /\ cpu.mem # NULL /\ 4 \in {1, 2, 4} /\ (4 * offset) % 4 = 0
                                /\ 4 * offset + 4 <= CbMem
  BY <1>3, <1>4, RamCheckExact DEF WriteResult
<1> QED BY <1>2, <1>5, RamAssumption

LEMMA LoadWordKeeps == ASSUME MadeForIt, RunnerInv, LoadWord PROVE RunnerInv'
<1>1. /\ stage = "load" /\ offset < Len(file) /\ WriteResult = Success
      /\ data' = mips_mem_write(data, 4 * offset, 4, FileBytes(file[offset + 1]))
      /\ offset' = offset + 1
      /\ UNCHANGED << program, input, file, stage, cpu, frames >>
  BY DEF LoadWord
<1>2. /\ offset \in Nat /\ 4 * offset \in Nat /\ cpu.mem # NULL /\ 4 * offset + 4 <= CbMem
  BY <1>1, WritePlace
<1>3. /\ file \in Seq(Word) /\ Len(file) \in Nat /\ DOMAIN file = 1 .. Len(file)
  BY FilesAre
<1>4. data \in RamData /\ Text(SubSeq(file, 1, offset), data) /\ offset \in 0 .. Len(file)
  BY <1>1 DEF RunnerInv
<1> DEFINE word == file[offset + 1]
           bytes == FileBytes(word)
<1>5. word \in Word
  <2>1. offset + 1 \in 1 .. Len(file)
    BY <1>1, <1>2, <1>3
  <2> QED BY <1>3, <2>1, ElementOfSeq
<1>6. \A k \in 0 .. 3 : bytes[k] = ByteOf(word, 3 - k)
  BY DEF FileBytes, ToBytes
<1> HIDE DEF word, bytes
<1>7. data' = mips_mem_write(data, 4 * offset, 4, bytes)
  BY <1>1 DEF word, bytes
<1>8. data' \in RamData /\ WordAt(data', 4 * offset) = word
  BY <1>2, <1>4, <1>5, <1>6, <1>7, WordWritten
<1>9. Text(SubSeq(file, 1, offset + 1), data')
  <2> DEFINE had == SubSeq(file, 1, offset)
             have == SubSeq(file, 1, offset + 1)
  <2>1. /\ DOMAIN had = 1 .. offset /\ \A k \in 1 .. offset : had[k] = file[k]
        /\ DOMAIN have = 1 .. offset + 1 /\ \A k \in 1 .. offset + 1 : have[k] = file[k]
    BY <1>1, <1>2, <1>3
  <2>2. Text(had, data)
    BY <1>4
  <2> HIDE DEF had, have
  <2>3. ASSUME NEW k \in DOMAIN have
        PROVE  WordAt(data', 4 * (k - 1)) = have[k]
    <3>1. CASE k = offset + 1
      BY <1>2, <1>8, <2>1, <3>1 DEF word
    <3>2. CASE k # offset + 1
      <4>1. k \in 1 .. offset
        BY <1>2, <2>1, <3>2
      <4>2. WordAt(data, 4 * (k - 1)) = file[k]
        BY <2>1, <2>2, <4>1 DEF Text
      <4>3. 4 * (k - 1) \in Nat /\ 4 * (k - 1) + 4 <= 4 * offset /\ 4 * (k - 1) + 4 <= CbMem
        BY <1>2, <4>1, RamAssumption
      <4>4. WordAt(data', 4 * (k - 1)) = WordAt(data, 4 * (k - 1))
        BY <1>2, <1>4, <1>7, <4>3, WordBeside
      <4> QED BY <2>1, <4>2, <4>4
    <3> QED BY <3>1, <3>2
  <2>4. Text(have, data')
    BY <2>3 DEF Text
  <2> QED BY <2>4 DEF have
<1>10. Text(SubSeq(file, 1, offset), data)'
  BY <1>1, <1>9
<1>11. /\ offset' \in 0 .. Len(file) /\ 4 * offset' <= CbMem /\ file # << >>
  BY <1>1, <1>2, <1>3, FilesAre
<1>12. Fresh'
  <2>1. Fresh
    BY <1>1 DEF RunnerInv
  <2> QED BY <1>1, <2>1 DEF Fresh
<1> QED BY <1>1, <1>2, <1>8, <1>10, <1>11, <1>12 DEF RunnerInv

LEMMA LoadFailsKeeps == ASSUME MadeForIt, RunnerInv, LoadFails PROVE RunnerInv'
<1>1. /\ stage = "load" /\ offset < Len(file) /\ WriteResult # Success
      /\ stage' = "memory error"
      /\ UNCHANGED << program, input, file, offset, cpu, data, frames >>
  BY DEF LoadFails
<1>2. offset \in Nat /\ (cpu.mem = NULL \/ 4 * offset + 4 > CbMem)
  BY <1>1, WritePlace
<1>3. cpu.mem = NULL \/ 4 * Len(file) > CbMem
  <2>1. Len(file) \in Nat /\ offset < Len(file)
    BY <1>1, FilesAre
  <2> QED BY <1>2, <2>1, RamAssumption
<1>4. Fresh'
  <2>1. Fresh
    BY <1>1 DEF RunnerInv
  <2> QED BY <1>1, <2>1 DEF Fresh
<1> QED BY <1>1, <1>3, <1>4 DEF RunnerInv

(* What is there when the loading is over.                                    *)
LEMMA LoadedIs ==
  ASSUME MadeForIt, RunnerInv, Loaded
  PROVE  /\ stage = "load" /\ cpu = Created(cpu.mem) /\ cpu.mem \in Handle
         /\ data \in RamData /\ Text(file, data) /\ frames = << >>
         /\ file # << >> => cpu.mem # NULL /\ 4 * Len(file) <= CbMem
         /\ file = << >> => data = FreshRam
         /\ program = "run_addu" => IsBinary(file, f_addu)
<1>1. stage = "load" /\ offset = Len(file)
  BY DEF Loaded
<1>2. /\ Fresh /\ cpu.mem \in RamHandles /\ data \in RamData
      /\ Text(SubSeq(file, 1, offset), data)
      /\ file = << >> => data = FreshRam
      /\ frames = << >>
      /\ offset = 0 \/ (cpu.mem # NULL /\ 4 * offset <= CbMem)
  BY <1>1 DEF RunnerInv
<1>3. /\ file \in Seq(Word) /\ Len(file) \in Nat /\ (file = << >> <=> Len(file) = 0)
      /\ program = "run_addu" => IsBinary(file, f_addu) \/ 4 * Len(file) > CbMem
  BY FilesAre
<1>4. SubSeq(file, 1, Len(file)) = file
  BY <1>3
<1>5. file # << >> => cpu.mem # NULL /\ 4 * Len(file) <= CbMem
  BY <1>1, <1>2, <1>3
<1>6. 4 * Len(file) > CbMem => IsBinary(file, f_addu)
  BY <1>3, <1>5, RamAssumption
<1> QED BY <1>1, <1>2, <1>3, <1>4, <1>5, <1>6, RunnerAssumption DEF Fresh

----------------------------------------------------------------------------
(* run_fibonacci.                                                             *)

LEMMA SetRegsIs ==
  ASSUME NEW st \in mips_cpu_impl, NEW values, DOMAIN values \subseteq Reg,
         \A r \in DOMAIN values : values[r] \in Word
  PROVE  LET st2 == SetRegs(st, values)
         IN  /\ st2 \in mips_cpu_impl
             /\ st2.pc = st.pc /\ st2.nPC = st.nPC /\ st2.mem = st.mem
             /\ st2.delay_slot = st.delay_slot /\ st2.jPC = st.jPC
             /\ \A r \in DOMAIN values : st2.regs[r] = values[r]
             /\ \A r \in Reg \ DOMAIN values : st2.regs[r] = st.regs[r]
BY DEF SetRegs, mips_cpu_impl

LEMMA FrameIs ==
  ASSUME NEW st \in mips_cpu_impl
  PROVE  /\ Frame(st) \in FrameType
         /\ Frame(st).n = st.regs[4] /\ Frame(st).return = st.regs[31]
         /\ \A r \in {16, 17, 18, 29} : Frame(st).saved[r] = st.regs[r]
<1>1. \A q \in Used : st.regs[q] \in Word /\ st.regs[q] \in Nat
  BY FieldTypes, UsedRegs, WordIsInt
<1>2. /\ st.regs[4] \in Nat /\ st.regs[31] \in Word
      /\ \A r \in {16, 17, 18, 29} : st.regs[r] \in Word
  BY <1>1 DEF Used
<1> QED BY <1>2 DEF Frame, FrameType

(* n, a stack and a return address.                                           *)
LEMMA Started ==
  ASSUME MadeForIt, NEW n \in FibonacciInputs, NEW mem \in Handle
  PROVE  LET st == SetRegs(Created(mem), StartRegs(n))
         IN  /\ st \in mips_cpu_impl /\ st.mem = mem
             /\ st.pc = 0 /\ st.nPC = 4 /\ st.delay_slot = 0 /\ st.jPC = 0
             /\ st.regs[0] = 0 /\ st.regs[4] = n /\ st.regs[29] = StackTop
             /\ st.regs[31] = SentinelPC
             /\ n \in Nat /\ StackTop - 32 * Depth(n) >= 104
<1>1. n \in Nat /\ StackTop - 32 * Depth(n) >= 4 * Len(f_fibonacci)
  BY DEF MadeForIt
<1>2. StackTop - 32 * Depth(n) >= 104
  BY <1>1, Listing
<1>3. n \in Word
  <2>1. StackTop \in Int /\ StackTop < WordSize /\ WordSize \in Nat
    BY RunnerAssumption, WordIsInt, SizeFacts
  <2>2. Depth(n) \in Nat /\ n <= Depth(n)
    BY <1>1 DEF Depth
  <2> HIDE DEF WordSize
  <2> QED BY <1>1, <1>2, <2>1, <2>2 DEF Word
<1> DEFINE values == StartRegs(n)
<1>4. DOMAIN values = {4, 29, 31} /\ values[4] = n /\ values[29] = StackTop
      /\ values[31] = SentinelPC
  BY DEF StartRegs
<1> HIDE DEF values
<1>5. DOMAIN values \subseteq Reg /\ 0 \in Reg \ DOMAIN values
  BY <1>4 DEF Reg
<1>6. \A r \in DOMAIN values : values[r] \in Word
  BY <1>3, <1>4, RunnerAssumption
<1>7. /\ Created(mem) \in mips_cpu_impl
      /\ Created(mem).mem = mem /\ Created(mem).pc = 0 /\ Created(mem).nPC = 4
      /\ Created(mem).delay_slot = 0 /\ Created(mem).jPC = 0
      /\ \A r \in Reg : Created(mem).regs[r] = 0
  BY CreatedIs
<1> DEFINE st0 == Created(mem)
<1> HIDE DEF st0
<1>8. LET st2 == SetRegs(st0, values)
      IN  /\ st2 \in mips_cpu_impl
          /\ st2.pc = st0.pc /\ st2.nPC = st0.nPC /\ st2.mem = st0.mem
          /\ st2.delay_slot = st0.delay_slot /\ st2.jPC = st0.jPC
          /\ \A r \in DOMAIN values : st2.regs[r] = values[r]
          /\ \A r \in Reg \ DOMAIN values : st2.regs[r] = st0.regs[r]
  BY <1>5, <1>6, <1>7, SetRegsIs DEF st0
<1> QED BY <1>1, <1>2, <1>4, <1>5, <1>7, <1>8 DEF st0, values

LEMMA StartKeeps == ASSUME MadeForIt, RunnerInv, StartFibonacci PROVE RunnerInv'
<1>1. /\ program = "run_fibonacci" /\ Loaded
      /\ cpu' = SetRegs(cpu, StartRegs(input))
      /\ frames' = << Frame(cpu') >> /\ stage' = "loop"
      /\ UNCHANGED << program, input, file, offset, data >>
  BY DEF StartFibonacci
<1>2. /\ cpu = Created(cpu.mem) /\ cpu.mem \in Handle
      /\ data \in RamData /\ Text(file, data)
      /\ file # << >> => cpu.mem # NULL
      /\ file = << >> => data = FreshRam
  BY <1>1, LoadedIs
<1>3. input \in FibonacciInputs /\ offset \in 0 .. Len(file) /\ cpu.mem \in RamHandles
      /\ file \in FibonacciFiles
  BY <1>1 DEF RunnerInv
<1> DEFINE R == cpu'.regs
           mem == cpu.mem
<1>4. /\ cpu' \in mips_cpu_impl /\ cpu'.mem = mem
      /\ cpu'.pc = 0 /\ cpu'.nPC = 4 /\ cpu'.delay_slot = 0 /\ cpu'.jPC = 0
      /\ R[0] = 0 /\ R[4] = input /\ R[29] = StackTop /\ R[31] = SentinelPC
      /\ input \in Nat /\ StackTop - 32 * Depth(input) >= 104
  <2>1. cpu' = SetRegs(Created(mem), StartRegs(input))
    BY <1>1, <1>2
  <2> QED BY <1>2, <1>3, <2>1, Started
<1> HIDE DEF R, mem
<1> DEFINE f == Frame(cpu')
<1>5. /\ f \in FrameType /\ f.n = input /\ f.return = SentinelPC
      /\ \A r \in {16, 17, 18, 29} : f.saved[r] = R[r]
  BY <1>4, FrameIs DEF R
<1>6. f.saved[29] = StackTop
  BY <1>4, <1>5
<1> HIDE DEF f
<1>7. /\ frames' = << f >> /\ frames' \in Seq(FrameType) /\ Len(frames') = 1
      /\ frames'[1] = f /\ Head(frames') = f /\ frames' # << >>
  BY <1>1, <1>5 DEF f
<1>8. StackTop \in Int
  BY RunnerAssumption, WordIsInt
<1>9. Stacked(frames', data')
  <2>1. \A k \in 1 .. Len(frames') :
          /\ frames'[k].saved[29] = StackTop - 32 * (Len(frames') - k)
          /\ frames'[k].saved[29] - 32 * Depth(frames'[k].n) >= 104
    <3> TAKE k \in 1 .. Len(frames')
    <3>1. frames'[k] = f /\ Len(frames') - k = 0
      BY <1>7
    <3> QED BY <1>4, <1>5, <1>6, <1>8, <3>1
  <2>2. frames'[Len(frames')].return = SentinelPC
    BY <1>5, <1>7
  <2>3. 1 .. Len(frames') - 1 = {}
    BY <1>7
  <2> QED BY <1>7, <2>1, <2>2, <2>3 DEF Stacked
<1>10. Assertion(f, 0, 4, R, data')
  <2>1. Entering(f, 0, R, data')
    BY <1>4, <1>5, <1>6 DEF Entering
  <2> QED BY <2>1 DEF Assertion
<1>11. ASSUME file # << >> PROVE Running(file, cpu, data, frames)'
  <2>1. IsBinary(file, f_fibonacci)
    BY <1>1, <1>11, FilesAre
  <2>2. mem # NULL
    BY <1>2, <1>11 DEF mem
  <2>3. Running(file', cpu', data', frames')
    BY <1>1, <1>2, <1>4, <1>7, <1>9, <1>10, <2>1, <2>2 DEF Running, R
  <2> QED BY <2>3
<1>12. ASSUME file = << >> PROVE Idling'
  <2>1. Decode(0) = Nop /\ FreshRam = [a \in RamAddress |-> 0]
    <3>1. ~IsBinary(<< >>, f_fibonacci)
      BY Listing DEF IsBinary
    <3> QED BY <1>1, <1>12, <3>1, FilesAre
  <2>2. Plus(0, 4) = 4
    BY PlusFour
  <2>3. \A k \in 1 .. Len(frames') : frames'[k].return = SentinelPC
    BY <1>5, <1>7
  <2>4. 0 % 4 = 0 /\ 0 <= CbMem
    BY RamAssumption
  <2>5. data' = [a \in RamAddress |-> 0]
    BY <1>1, <1>2, <1>12, <2>1
  <2> QED BY <1>4, <2>1, <2>2, <2>3, <2>4, <2>5 DEF Idling
<1>13. Text(file, data)'
  BY <1>1, <1>2
<1> QED BY <1>1, <1>2, <1>3, <1>4, <1>7, <1>11, <1>12, <1>13 DEF RunnerInv, mem

(* Without a program: NOP after NOP, to the end of the RAM.                   *)
LEMMA IdleStep ==
  ASSUME MadeForIt, NEW st \in mips_cpu_impl, st.delay_slot = 0, st.jPC = 0,
         Decode(0) = Nop, NEW ram, ram = [a \in RamAddress |-> 0],
         st.pc % 4 = 0, st.pc <= CbMem, st.nPC = Plus(st.pc, 4)
  PROVE  LET o == Execute(st, ram)
             st2 == StepState(o)
         IN  /\ o.err # Killed /\ o.data = ram
             /\ st2 \in mips_cpu_impl /\ st2.delay_slot = 0 /\ st2.jPC = 0
             /\ st2.mem = st.mem /\ st2.pc # SentinelPC
             /\ o.err = Success =>
                  /\ st2.pc % 4 = 0 /\ st2.pc <= CbMem /\ st2.pc # 0
                  /\ st2.nPC = Plus(st2.pc, 4)
<1> DEFINE o == Execute(st, ram)
           st2 == StepState(o)
           fetch == mips_mem_read_write(st.mem, CbMem, st.pc, 4)
<1>1. /\ st.pc \in Word /\ st.pc \in Nat /\ st.nPC \in Word /\ st.mem \in Handle
      /\ CbMem \in Nat /\ SentinelPC \in Nat /\ SentinelPC > CbMem
      /\ CbMem < WordSize /\ WordSize \in Nat /\ 4 \in Word
  <2>1. WordSize \in Nat /\ WordSize >= 65536 /\ CbMem \in Nat /\ SentinelPC \in Nat
        /\ SentinelPC < WordSize /\ SentinelPC > CbMem
    BY RunnerAssumption, RamAssumption, WordIsInt, Wide DEF MadeForIt
  <2>2. st.pc \in Word /\ st.pc \in Nat /\ st.nPC \in Word
    BY FieldTypes, WordIsInt
  <2>3. st.mem \in Handle
    BY DEF mips_cpu_impl
  <2> HIDE DEF WordSize
  <2> QED BY <2>1, <2>2, <2>3 DEF Word
<1>2. CASE fetch # Success
  <2>1. o = [state |-> st, data |-> ram, err |-> fetch]
    BY <1>2 DEF Execute, Return
  <2>2. fetch # Killed
    BY DEF mips_mem_read_write, Killed, Success, InvalidHandle, InvalidLength,
           InvalidAlignment, InvalidAddress
  <2> HIDE DEF o, fetch
  <2>3. st2 = st /\ o.err = fetch /\ o.data = ram
    BY <1>2, <2>1 DEF StepState
  <2> QED BY <1>1, <1>2, <2>2, <2>3 DEF o
<1>3. CASE fetch = Success
  <2>1. st.pc + 4 <= CbMem
    BY <1>1, <1>3, RamCheckExact
  <2>2. ram \in RamData
    <3>1. 0 \in Byte
      BY SizeFacts DEF Byte
    <3> QED BY <3>1 DEF RamData
  <2>3. WordAt(ram, st.pc) = 0
    <3>1. \A k \in 0 .. 3 : mips_mem_read(ram, st.pc, 4)[k] = 0
      BY <1>1, <2>1 DEF mips_mem_read, RamAddress
    <3>2. WordAt(ram, st.pc) = JoinWord(0, 0, 0, 0)
      BY <3>1 DEF WordAt, FromBytes
    <3>3. ByteSize \in Nat /\ HalfSize \in Nat
      BY SizeFacts
    <3> HIDE DEF ByteSize, HalfSize
    <3>4. JoinHalf(0, 0) = 0
      BY <3>3 DEF JoinHalf
    <3>5. JoinWord(0, 0, 0, 0) = 0
      BY <3>3, <3>4 DEF JoinWord
    <3> QED BY <3>2, <3>5
  <2>4. Steps(st, ram, st.regs, ram, Plus(st.nPC, 4))
    <3>1. Fetches(st, ram, Nop)
      BY <1>3, <2>2, <2>3 DEF Fetches
    <3> QED BY <3>1, NopSteps
  <2>5. /\ o.err = Success /\ o.data = ram /\ st2 \in mips_cpu_impl
        /\ st2.pc = st.nPC /\ st2.nPC = Plus(st.nPC, 4) /\ st2.delay_slot = 0 /\ st2.jPC = 0
        /\ st2.mem = st.mem
    BY <2>4 DEF Steps
  <2>6. st.nPC = st.pc + 4
    BY <1>1, <2>1, PlusSmall
  <2>7. (st.pc + 4) % 4 = 0 /\ st.pc + 4 # 0
    BY <1>1
  <2> HIDE DEF o, st2
  <2> QED BY <1>1, <2>1, <2>5, <2>6, <2>7, SuccessIs DEF o, st2
<1> QED BY <1>2, <1>3

(* The calls in progress after a step to state st2.                           *)
FramesAfter(calls, st2) ==
  IF calls # << >> /\ st2.pc = Head(calls).return THEN Tail(calls)
  ELSE IF st2.pc = 0 THEN << Frame(st2) >> \o calls ELSE calls

Returned(f, st2) ==
  /\ st2.regs[2] = Fib(f.n)
  /\ \A r \in DOMAIN f.saved : st2.regs[r] = f.saved[r]

LEMMA RunningStep ==
  ASSUME MadeForIt, NEW words, NEW st, NEW ram, NEW calls, Running(words, st, ram, calls)
  PROVE  LET o == Execute(st, ram)
             st2 == StepState(o)
             calls2 == FramesAfter(calls, st2)
         IN  /\ o.err = Success /\ st2.mem = st.mem
             /\ \/ st2.pc # SentinelPC /\ Running(words, st2, o.data, calls2)
                \/ /\ st2.pc = SentinelPC /\ calls2 = << >> /\ o.data = ram
                   /\ st2 \in mips_cpu_impl /\ st2.delay_slot = 0 /\ st2.jPC = 0
             /\ Len(calls2) >= Len(calls) \/ Returned(Head(calls), st2)
<1> DEFINE f == Head(calls)
           o == Execute(st, ram)
           st2 == StepState(o)
           calls2 == FramesAfter(calls, st2)
<1>1. /\ Assertion(f, st.pc, st.nPC, st.regs, ram) /\ Stacked(calls, ram)
      /\ f.return \in {52, SentinelPC}
  BY RunningFacts
<1>2. calls \in Seq(FrameType) /\ calls # << >> /\ Len(calls) \in Nat
  BY <1>1 DEF Stacked
<1>3. f \in FrameType
  <2>1. 1 \in 1 .. Len(calls) /\ f = calls[1]
    BY RunningFacts
  <2> QED BY <1>2, <2>1, ElementOfSeq
<1>4. ASSUME NEW s, NEW d, NEW c, Running(words, s, d, c) PROVE s.pc # SentinelPC
  <2>1. s.pc \in {4 * k : k \in 0 .. 25}
    BY <1>4, RunningFacts DEF Assertion
  <2>2. SentinelPC \in Nat /\ SentinelPC > 104
    BY RunningFacts
  <2> QED BY <2>1, <2>2
<1>5. CASE Continues(words, st, ram, calls)
  <2>1. /\ o.err = Success /\ Running(words, st2, o.data, calls)
        /\ st2.mem = st.mem /\ st2.pc # 0 /\ st2.pc # f.return
    BY <1>5 DEF Continues
  <2>2. calls2 = calls
    BY <2>1 DEF FramesAfter
  <2>3. st2.pc # SentinelPC
    BY <1>4, <2>1
  <2> HIDE DEF o, st2, calls2
  <2> QED BY <1>2, <2>1, <2>2, <2>3 DEF o, st2, calls2
<1>6. CASE st.pc = 48
  <2>1. /\ o.err = Success /\ st2.pc = 0 /\ f.return # 0
        /\ Running(words, st2, o.data, << Frame(st2) >> \o calls)
        /\ st2.mem = st.mem
    BY <1>6, CallBegins
  <2>2. calls2 = << Frame(st2) >> \o calls
    BY <2>1 DEF FramesAfter
  <2>3. Len(calls2) >= Len(calls)
    <3>1. st2 \in mips_cpu_impl
      BY <2>1 DEF Running
    <3>2. Len(calls2) = Len(calls) + 1
      BY <1>2, <2>2, <3>1, FrameIs, Pushed
    <3> QED BY <1>2, <3>2
  <2>4. st2.pc # SentinelPC
    BY <1>4, <2>1
  <2> HIDE DEF o, st2, calls2
  <2> QED BY <2>1, <2>2, <2>3, <2>4 DEF o, st2, calls2
<1>7. CASE st.pc = 92
  <2>1. /\ o.err = Success /\ o.data = ram
        /\ st2.pc = f.return /\ st2.mem = st.mem
        /\ st2.regs[2] = Fib(f.n)
        /\ \A r \in {16, 17, 18, 29} : st2.regs[r] = f.saved[r]
        /\ st2 \in mips_cpu_impl /\ st2.delay_slot = 0 /\ st2.jPC = 0
        /\ \/ st2.pc = SentinelPC /\ Tail(calls) = << >>
           \/ st2.pc # SentinelPC /\ Running(words, st2, ram, Tail(calls))
    BY <1>7, CallEnds
  <2>2. calls2 = Tail(calls)
    BY <1>2, <2>1 DEF FramesAfter
  <2>3. Returned(f, st2)
    <3>1. DOMAIN f.saved = {16, 17, 18, 29}
      BY <1>3 DEF FrameType
    <3> QED BY <2>1, <3>1 DEF Returned
  <2> HIDE DEF o, st2, calls2, f
  <2> QED BY <2>1, <2>2, <2>3 DEF o, st2, calls2, f
<1>8. \/ st.pc \in {0, 4, 8, 12, 16, 20} \/ st.pc \in {24, 28, 32, 36, 96, 100}
      \/ st.pc \in {40, 44, 52, 56, 60} \/ st.pc \in {64, 68, 72, 76, 80, 84, 88}
      \/ st.pc = 48 \/ st.pc = 92
  <2>1. st.pc \in {4 * k : k \in 0 .. 25}
    BY <1>1 DEF Assertion
  <2> QED BY <2>1
<1>9. Continues(words, st, ram, calls) \/ st.pc = 48 \/ st.pc = 92
  BY <1>8, InPrologue, InBranches, InLoop, InEpilogue
<1> QED BY <1>5, <1>6, <1>7, <1>9

(* What a step of the loop does when the program is there.                    *)
LEMMA LoopOfProgram ==
  ASSUME MadeForIt, RunnerInv, LoopStep, file # << >>
  PROVE  /\ stage' \in {"loop", "returned"} /\ cpu'.mem = cpu.mem
         /\ \/ stage' = "loop" /\ Running(file, cpu', data', frames')
            \/ /\ stage' = "returned" /\ frames' = << >> /\ data' = data
               /\ cpu' \in mips_cpu_impl /\ cpu'.delay_slot = 0 /\ cpu'.jPC = 0
         /\ Len(frames') >= Len(frames) \/ Returned(Head(frames), cpu')
<1> DEFINE o == Execute(cpu, data)
           st2 == StepState(o)
<1>1. /\ stage = "loop" /\ cpu' = st2 /\ data' = o.data
      /\ stage' = IF o.err = Killed THEN "killed" ELSE AfterLoopStep(o)
      /\ frames' = FramesAfter(frames, cpu')
  BY DEF LoopStep, Stepping, FramesAfter, ReturnTo
<1>2. Running(file, cpu, data, frames)
  BY <1>1 DEF RunnerInv
<1>3. LET calls2 == FramesAfter(frames, st2)
      IN  /\ o.err = Success /\ st2.mem = cpu.mem
          /\ \/ st2.pc # SentinelPC /\ Running(file, st2, o.data, calls2)
             \/ /\ st2.pc = SentinelPC /\ calls2 = << >> /\ o.data = data
                /\ st2 \in mips_cpu_impl /\ st2.delay_slot = 0 /\ st2.jPC = 0
          /\ Len(calls2) >= Len(frames) \/ Returned(Head(frames), st2)
  BY <1>2, RunningStep
<1>4. stage' = IF st2.pc = SentinelPC THEN "returned" ELSE "loop"
  BY <1>1, <1>3, SuccessIs DEF AfterLoopStep
<1> HIDE DEF o, st2
<1> QED BY <1>1, <1>3, <1>4

(* ... and when the file was empty.                                           *)
LEMMA LoopOfNothing ==
  ASSUME MadeForIt, RunnerInv, LoopStep, file = << >>
  PROVE  /\ stage' \in {"loop", "returned"} /\ data' = data
         /\ cpu' \in mips_cpu_impl /\ cpu'.mem = cpu.mem
         /\ cpu'.delay_slot = 0 /\ cpu'.jPC = 0
         /\ frames' \in Seq(FrameType) /\ Len(frames') >= Len(frames)
         /\ stage' = "loop" => Idling'
<1> DEFINE o == Execute(cpu, data)
           st2 == StepState(o)
<1>1. /\ stage = "loop" /\ cpu' = st2 /\ data' = o.data
      /\ stage' = IF o.err = Killed THEN "killed" ELSE AfterLoopStep(o)
      /\ frames' = FramesAfter(frames, cpu')
  BY DEF LoopStep, Stepping, FramesAfter, ReturnTo
<1>2. /\ cpu \in mips_cpu_impl /\ cpu.delay_slot = 0 /\ cpu.jPC = 0 /\ frames \in Seq(FrameType)
  BY DEF RunnerInv
<1>3. Idling
  BY <1>1 DEF RunnerInv
<1>4. /\ o.err # Killed /\ o.data = data
      /\ st2 \in mips_cpu_impl /\ st2.delay_slot = 0 /\ st2.jPC = 0
      /\ st2.mem = cpu.mem /\ st2.pc # SentinelPC
      /\ o.err = Success =>
           /\ st2.pc % 4 = 0 /\ st2.pc <= CbMem /\ st2.pc # 0
           /\ st2.nPC = Plus(st2.pc, 4)
  BY <1>2, <1>3, IdleStep DEF Idling
<1>5. stage' = IF o.err # Success THEN "returned" ELSE "loop"
  BY <1>1, <1>4 DEF AfterLoopStep
<1> HIDE DEF o, st2
<1>6. frames' = IF st2.pc = 0 THEN << Frame(st2) >> \o frames ELSE frames
  <2>1. frames # << >> => Head(frames).return = SentinelPC
    <3>1. frames # << >> => Head(frames) = frames[1] /\ 1 \in 1 .. Len(frames)
      BY <1>2, EmptySeq
    <3> QED BY <1>3, <3>1 DEF Idling
  <2> QED BY <1>1, <1>4, <2>1 DEF FramesAfter
<1>7. frames' \in Seq(FrameType) /\ Len(frames') >= Len(frames)
  <2>1. Frame(st2) \in FrameType /\ Len(frames) \in Nat
    BY <1>2, <1>4, FrameIs
  <2>2. CASE st2.pc = 0
    <3>1. frames' \in Seq(FrameType) /\ Len(frames') = Len(frames) + 1
      BY <1>2, <1>6, <2>1, <2>2, Pushed
    <3> QED BY <2>1, <3>1
  <2>3. CASE st2.pc # 0
    BY <1>2, <1>6, <2>1, <2>3
  <2> QED BY <2>2, <2>3
<1>8. ASSUME stage' = "loop" PROVE Idling'
  <2>1. o.err = Success
    BY <1>5, <1>8
  <2>2. frames' = frames
    BY <1>4, <1>6, <2>1
  <2> QED BY <1>1, <1>3, <1>4, <2>1, <2>2 DEF Idling
<1> QED BY <1>1, <1>4, <1>5, <1>7, <1>8

LEMMA LoopKeeps == ASSUME MadeForIt, RunnerInv, LoopStep PROVE RunnerInv'
<1>1. /\ stage = "loop" /\ UNCHANGED << program, input, file, offset >>
  BY DEF LoopStep
<1>2. /\ program = "run_fibonacci" /\ input \in FibonacciInputs /\ file \in FibonacciFiles
      /\ offset \in 0 .. Len(file) /\ cpu.mem \in RamHandles /\ data \in RamData
      /\ Text(file, data)
  BY <1>1 DEF RunnerInv
<1>3. CASE file = << >>
  <2>1. /\ stage' \in {"loop", "returned"} /\ data' = data
        /\ cpu' \in mips_cpu_impl /\ cpu'.mem = cpu.mem
        /\ cpu'.delay_slot = 0 /\ cpu'.jPC = 0
        /\ frames' \in Seq(FrameType)
        /\ stage' = "loop" => Idling'
    BY <1>3, LoopOfNothing
  <2> QED BY <1>1, <1>2, <1>3, <2>1 DEF RunnerInv
<1>4. CASE file # << >>
  <2>1. /\ stage' \in {"loop", "returned"} /\ cpu'.mem = cpu.mem
        /\ \/ stage' = "loop" /\ Running(file, cpu', data', frames')
           \/ /\ stage' = "returned" /\ frames' = << >> /\ data' = data
              /\ cpu' \in mips_cpu_impl /\ cpu'.delay_slot = 0 /\ cpu'.jPC = 0
    BY <1>4, LoopOfProgram
  <2>2. /\ cpu' \in mips_cpu_impl /\ cpu'.delay_slot = 0 /\ cpu'.jPC = 0
        /\ data' \in RamData /\ Text(file, data') /\ frames' \in Seq(FrameType)
    <3>1. << >> \in Seq(FrameType)
      OBVIOUS
    <3> QED BY <1>2, <2>1, <3>1 DEF Running, Stacked
  <2>3. /\ stage' = "loop" => Running(file', cpu', data', frames')
        /\ stage' = "returned" => frames' = << >>
    BY <1>1, <2>1
  <2> QED BY <1>1, <1>2, <1>4, <2>1, <2>2, <2>3 DEF RunnerInv
<1> QED BY <1>3, <1>4

----------------------------------------------------------------------------
(* run_addu.                                                                  *)

LEMMA ArgumentsAre ==
  ASSUME NEW st \in mips_cpu_impl, NEW a \in Word, NEW b \in Word
  PROVE  LET st2 == Arguments(st, a, b)
         IN  /\ st2 \in mips_cpu_impl
             /\ st2.pc = st.pc /\ st2.nPC = st.nPC /\ st2.mem = st.mem
             /\ st2.delay_slot = st.delay_slot /\ st2.jPC = st.jPC
             /\ st2.regs[4] = a /\ st2.regs[5] = b
<1> DEFINE two == [r \in {4, 5} |-> IF r = 4 THEN a ELSE b]
           st2 == SetRegs(st, two)
<1>1. DOMAIN two = {4, 5} /\ two[4] = a /\ two[5] = b /\ {4, 5} \subseteq Reg
  BY DEF Reg
<1> HIDE DEF two
<1>2. DOMAIN two \subseteq Reg /\ \A r \in DOMAIN two : two[r] \in Word
  BY <1>1
<1>3. \A r \in DOMAIN two : st2.regs[r] = two[r]
  BY <1>2, SetRegsIs
<1> HIDE DEF st2
<1>4. st2.regs[4] = a /\ st2.regs[5] = b
  BY <1>1, <1>3
<1> QED BY <1>2, <1>4, SetRegsIs DEF st2, two, Arguments

LEMMA ReturnAddressIs ==
  ASSUME NEW st \in mips_cpu_impl
  PROVE  LET st2 == SetRegs(st, [r \in {31} |-> SentinelPC])
         IN  /\ st2 \in mips_cpu_impl
             /\ st2.pc = st.pc /\ st2.nPC = st.nPC /\ st2.mem = st.mem
             /\ st2.delay_slot = st.delay_slot /\ st2.jPC = st.jPC
             /\ st2.regs[4] = st.regs[4] /\ st2.regs[5] = st.regs[5]
             /\ st2.regs[31] = SentinelPC
<1> DEFINE one == [r \in {31} |-> SentinelPC]
           st2 == SetRegs(st, one)
<1>1. DOMAIN one = {31} /\ one[31] = SentinelPC /\ {31} \subseteq Reg
      /\ 4 \in Reg \ {31} /\ 5 \in Reg \ {31} /\ SentinelPC \in Word
  BY RunnerAssumption DEF Reg
<1> HIDE DEF one
<1>2. DOMAIN one \subseteq Reg /\ \A r \in DOMAIN one : one[r] \in Word
  BY <1>1
<1>3. /\ \A r \in DOMAIN one : st2.regs[r] = one[r]
      /\ \A r \in Reg \ DOMAIN one : st2.regs[r] = st.regs[r]
  BY <1>2, SetRegsIs
<1> HIDE DEF st2
<1>4. st2.regs[4] = st.regs[4] /\ st2.regs[5] = st.regs[5] /\ st2.regs[31] = SentinelPC
  BY <1>1, <1>3
<1> QED BY <1>2, <1>4, SetRegsIs DEF st2, one

(* The two instructions of f_addu, where the runner finds them.               *)
LEMMA AdduFetched ==
  ASSUME MadeForIt, NEW words, IsBinary(words, f_addu), NEW ram \in RamData,
         Text(words, ram), NEW st \in mips_cpu_impl, st.mem # NULL,
         st.delay_slot = 0, st.jPC = 0, 8 <= CbMem
  PROVE  /\ Len(words) = 2
         /\ st.pc = 0 => Fetches(st, ram, RIns(8, 31, 0, 0))
         /\ st.pc = 4 => Fetches(st, ram, Addu(2, 4, 5))
<1>1. /\ DOMAIN f_addu = 1 .. 2 /\ Len(f_addu) = 2
      /\ f_addu[1] = RIns(8, 31, 0, 0) /\ f_addu[2] = Addu(2, 4, 5)
  BY DEF f_addu
<1>2. /\ words \in Seq(Word) /\ Len(words) = 2
      /\ Decode(words[1]) = RIns(8, 31, 0, 0) /\ Decode(words[2]) = Addu(2, 4, 5)
  <2>1. 1 \in 1 .. 2 /\ 2 \in 1 .. 2
    OBVIOUS
  <2> QED BY <1>1, <2>1 DEF IsBinary
<1>3. WordAt(ram, 0) = words[1] /\ WordAt(ram, 4) = words[2]
  <2>1. DOMAIN words = 1 .. 2
    BY <1>2
  <2>2. 1 \in DOMAIN words /\ 2 \in DOMAIN words /\ 4 * (1 - 1) = 0 /\ 4 * (2 - 1) = 4
    BY <2>1
  <2> QED BY <2>2 DEF Text
<1>4. st.mem = "ram"
  BY DEF mips_cpu_impl, Handle
<1>5. ASSUME NEW a \in {0, 4} PROVE mips_mem_read_write("ram", CbMem, a, 4) = Success
  <2>1. a \in Nat /\ a + 4 <= CbMem /\ a % 4 = 0
    BY RamAssumption
  <2> QED BY <2>1, WordAccepted
<1> QED BY <1>2, <1>3, <1>4, <1>5 DEF Fetches

LEMMA AdduAloneKeeps == ASSUME MadeForIt, RunnerInv, AdduAlone PROVE RunnerInv'
<1> DEFINE a == input[1]
           b == input[2]
           st0 == PlacePc(cpu, 4)
           st == Arguments(st0, a, b)
           o == Execute(st, data)
           st2 == StepState(o)
<1>1. /\ program = "run_addu" /\ Loaded
      /\ cpu' = st2 /\ data' = o.data
      /\ stage' = IF o.err = Killed THEN "killed"
                  ELSE IF st2.regs[2] = Plus(a, b) THEN "reset" ELSE "sum is wrong"
  BY DEF AdduAlone, Stepping, Compare
<1>0. UNCHANGED << program, input, file, offset, frames >>
  BY DEF AdduAlone
<1>2. /\ cpu = Created(cpu.mem) /\ cpu.mem \in Handle
      /\ data \in RamData /\ Text(file, data) /\ frames = << >>
      /\ file # << >> => cpu.mem # NULL /\ 4 * Len(file) <= CbMem
      /\ IsBinary(file, f_addu)
  BY <1>1, LoadedIs
<1>3. /\ input \in AdduInputs /\ file \in AdduFiles /\ offset \in 0 .. Len(file)
      /\ cpu.mem \in RamHandles
  BY <1>1 DEF RunnerInv
<1>4. a \in Word /\ b \in Word
  BY <1>3 DEF MadeForIt
<1>5. cpu.mem # NULL /\ 8 <= CbMem
  <2>1. Len(file) = 2 /\ file \in Seq(Word)
    BY <1>2 DEF IsBinary, f_addu
  <2>2. file # << >>
    BY <2>1
  <2> QED BY <1>2, <2>1, <2>2
<1>6. /\ cpu \in mips_cpu_impl /\ cpu.delay_slot = 0 /\ cpu.jPC = 0
  BY <1>2, CreatedIs
<1>7. /\ st0 \in mips_cpu_impl /\ st0.pc = 4 /\ st0.mem = cpu.mem
      /\ st0.delay_slot = 0 /\ st0.jPC = 0
  <2>1. 4 \in Word /\ Plus(4, 4) \in Word
    <3>1. Created(cpu.mem).nPC \in Word
      BY <1>2, CreatedIs, FieldTypes
    <3>2. 4 \in Word
      BY <1>2, <3>1, CreatedIs
    <3> QED BY <3>2, PlusType, WordIsInt
  <2> QED BY <1>6, <2>1 DEF PlacePc, mips_cpu_impl
<1> HIDE DEF a, b, st0
<1>8. /\ st \in mips_cpu_impl /\ st.pc = 4 /\ st.mem = cpu.mem
      /\ st.delay_slot = 0 /\ st.jPC = 0 /\ st.regs[4] = a /\ st.regs[5] = b
  BY <1>4, <1>7, ArgumentsAre
<1> HIDE DEF st
<1>9. Fetches(st, data, Addu(2, 4, 5))
  BY <1>2, <1>5, <1>8, AdduFetched
<1>10. Steps(st, data, [st.regs EXCEPT ![2] = Plus(a, b)], data, Plus(st.nPC, 4))
  <2>1. 4 \in Reg /\ 5 \in Reg /\ 2 \in Reg \ {0}
    BY DEF Reg
  <2> QED BY <1>8, <1>9, <2>1, AdduSteps
<1>11. /\ o.err = Success /\ o.data = data /\ st2 \in mips_cpu_impl
       /\ st2.delay_slot = 0 /\ st2.jPC = 0 /\ st2.mem = cpu.mem
       /\ st2.regs = [st.regs EXCEPT ![2] = Plus(a, b)]
  BY <1>8, <1>10 DEF Steps
<1> HIDE DEF o, st2
<1>12. st2.regs[2] = Plus(a, b)
  <2>1. DOMAIN st.regs = Reg /\ 2 \in Reg
    BY <1>8 DEF mips_cpu_impl, Reg
  <2> QED BY <1>11, <2>1
<1>13. stage' = "reset"
  BY <1>1, <1>11, <1>12, SuccessIs
<1>14. /\ cpu' \in mips_cpu_impl /\ cpu'.delay_slot = 0 /\ cpu'.jPC = 0
       /\ cpu'.mem = cpu.mem /\ data' = data
  BY <1>1, <1>11
<1>15. Text(file, data)' /\ IsBinary(file, f_addu)' /\ frames' \in Seq(FrameType)
  BY <1>0, <1>2, <1>14
<1> QED BY <1>0, <1>1, <1>2, <1>3, <1>5, <1>13, <1>14, <1>15 DEF RunnerInv

LEMMA CallAdduKeeps == ASSUME MadeForIt, RunnerInv, CallAddu PROVE RunnerInv'
<1> DEFINE a == input[3]
           b == input[4]
           st0 == Created(cpu.mem)
           st1 == Arguments(st0, a, b)
           st == SetRegs(st1, [r \in {31} |-> SentinelPC])
           o == Execute(st, data)
           st2 == StepState(o)
<1>1. /\ stage = "reset" /\ cpu' = st2 /\ data' = o.data
      /\ stage' = IF o.err = Killed THEN "killed" ELSE "call"
      /\ UNCHANGED << program, input, file, offset, frames >>
  BY DEF CallAddu, Stepping, BackToZero
<1>2. /\ program = "run_addu" /\ IsBinary(file, f_addu) /\ cpu.mem # NULL
      /\ cpu \in mips_cpu_impl /\ cpu.mem \in RamHandles
      /\ data \in RamData /\ Text(file, data) /\ frames = << >>
      /\ input \in AdduInputs /\ file \in AdduFiles /\ offset \in 0 .. Len(file)
  BY <1>1 DEF RunnerInv
<1>3. a \in Word /\ b \in Word /\ cpu.mem \in Handle
  BY <1>2 DEF MadeForIt, mips_cpu_impl
<1>4. /\ st0 \in mips_cpu_impl /\ st0.pc = 0 /\ st0.nPC = 4 /\ st0.mem = cpu.mem
      /\ st0.delay_slot = 0 /\ st0.jPC = 0
  BY <1>3, CreatedIs
<1> HIDE DEF a, b, st0
<1>5. /\ st \in mips_cpu_impl /\ st.pc = 0 /\ st.nPC = 4 /\ st.mem = cpu.mem
      /\ st.delay_slot = 0 /\ st.jPC = 0 /\ st.regs[4] = a /\ st.regs[5] = b
      /\ st.regs[31] = SentinelPC
  <2>1. /\ st1 \in mips_cpu_impl /\ st1.pc = 0 /\ st1.nPC = 4 /\ st1.mem = cpu.mem
        /\ st1.delay_slot = 0 /\ st1.jPC = 0 /\ st1.regs[4] = a /\ st1.regs[5] = b
    BY <1>3, <1>4, ArgumentsAre
  <2> HIDE DEF st1
  <2> QED BY <2>1, ReturnAddressIs
<1> HIDE DEF st
<1>6. 8 <= CbMem
  BY <1>1 DEF RunnerInv
<1>7. Steps(st, data, st.regs, data, SentinelPC)
  <2>1. Fetches(st, data, RIns(8, 31, 0, 0)) /\ 31 \in Reg
    BY <1>2, <1>5, <1>6, AdduFetched DEF Reg
  <2> QED BY <1>5, <2>1, JrSteps
<1>8. /\ o.err = Success /\ o.data = data /\ st2 \in mips_cpu_impl
      /\ st2.pc = 4 /\ st2.nPC = SentinelPC
      /\ st2.delay_slot = 0 /\ st2.jPC = 0 /\ st2.mem = cpu.mem
      /\ st2.regs[4] = a /\ st2.regs[5] = b
  BY <1>5, <1>7 DEF Steps
<1> HIDE DEF o, st2
<1>9. /\ stage' = "call" /\ data' = data /\ cpu' \in mips_cpu_impl
      /\ cpu'.pc = 4 /\ cpu'.nPC = SentinelPC
      /\ cpu'.delay_slot = 0 /\ cpu'.jPC = 0 /\ cpu'.mem = cpu.mem
      /\ cpu'.regs[4] = input[3] /\ cpu'.regs[5] = input[4]
  BY <1>1, <1>8, SuccessIs DEF a, b
<1>10. Text(file, data)' /\ IsBinary(file, f_addu)' /\ frames' \in Seq(FrameType)
  BY <1>1, <1>2, <1>9
<1> QED BY <1>1, <1>2, <1>9, <1>10 DEF RunnerInv

LEMMA FinishAdduKeeps == ASSUME MadeForIt, RunnerInv, FinishAddu PROVE RunnerInv'
<1> DEFINE a == input[3]
           b == input[4]
           o == Execute(cpu, data)
           st2 == StepState(o)
<1>1. /\ stage = "call" /\ cpu' = st2 /\ data' = o.data
      /\ stage' = IF o.err = Killed THEN "killed"
                  ELSE IF st2.regs[2] = Plus(a, b) THEN "returned" ELSE "sum is wrong"
  BY DEF FinishAddu, Stepping, Compare
<1>0. UNCHANGED << program, input, file, offset, frames >>
  BY DEF FinishAddu
<1>2. /\ program = "run_addu" /\ IsBinary(file, f_addu) /\ cpu.mem # NULL
      /\ cpu \in mips_cpu_impl /\ cpu.mem \in RamHandles
      /\ cpu.delay_slot = 0 /\ cpu.jPC = 0 /\ cpu.pc = 4
      /\ cpu.regs[4] = a /\ cpu.regs[5] = b
      /\ data \in RamData /\ Text(file, data) /\ frames = << >>
      /\ input \in AdduInputs /\ file \in AdduFiles /\ offset \in 0 .. Len(file)
  BY <1>1 DEF RunnerInv
<1> HIDE DEF a, b
<1>3. 8 <= CbMem
  BY <1>1 DEF RunnerInv
<1>4. Steps(cpu, data, [cpu.regs EXCEPT ![2] = Plus(a, b)], data, Plus(cpu.nPC, 4))
  <2>1. Fetches(cpu, data, Addu(2, 4, 5)) /\ 4 \in Reg /\ 5 \in Reg /\ 2 \in Reg \ {0}
    BY <1>2, <1>3, AdduFetched DEF Reg
  <2> QED BY <1>2, <2>1, AdduSteps
<1>5. /\ o.err = Success /\ o.data = data /\ st2 \in mips_cpu_impl
      /\ st2.delay_slot = 0 /\ st2.jPC = 0 /\ st2.mem = cpu.mem
      /\ st2.regs = [cpu.regs EXCEPT ![2] = Plus(a, b)]
  BY <1>4 DEF Steps
<1> HIDE DEF o, st2
<1>6. st2.regs[2] = Plus(a, b)
  <2>1. DOMAIN cpu.regs = Reg /\ 2 \in Reg
    BY <1>2 DEF mips_cpu_impl, Reg
  <2> QED BY <1>5, <2>1
<1>7. /\ stage' = "returned" /\ data' = data /\ cpu' \in mips_cpu_impl
      /\ cpu'.delay_slot = 0 /\ cpu'.jPC = 0 /\ cpu'.mem = cpu.mem
  BY <1>1, <1>5, <1>6, SuccessIs
<1>8. Text(file, data)' /\ frames' \in Seq(FrameType)
  BY <1>0, <1>2, <1>7
<1> QED BY <1>0, <1>1, <1>2, <1>7, <1>8 DEF RunnerInv

----------------------------------------------------------------------------
(* The runners.                                                               *)

LEMMA NextKeeps == ASSUME MadeForIt, RunnerInv, [Next]_vars PROVE RunnerInv'
<1>1. CASE OpenFile BY <1>1, OpenKeeps
<1>2. CASE LoadWord BY <1>2, LoadWordKeeps
<1>3. CASE LoadFails BY <1>3, LoadFailsKeeps
<1>4. CASE StartFibonacci BY <1>4, StartKeeps
<1>5. CASE LoopStep BY <1>5, LoopKeeps
<1>6. CASE AdduAlone BY <1>6, AdduAloneKeeps
<1>7. CASE CallAddu BY <1>7, CallAdduKeeps
<1>8. CASE FinishAddu BY <1>8, FinishAdduKeeps
<1>9. CASE UNCHANGED vars
  BY <1>9, ZenonT(60) DEF vars, RunnerInv, Fresh, Idling
<1> QED BY <1>1, <1>2, <1>3, <1>4, <1>5, <1>6, <1>7, <1>8, <1>9 DEF Next

(* Every call that returns has Fib of its argument in v0 and the caller's     *)
(* registers as they were.                                                    *)
LEMMA ReturnsFibonacci ==
  ASSUME MadeForIt, RunnerInv, [Next]_vars, Returning
  PROVE  Returned(Head(frames), cpu')
<1>1. stage = "loop" /\ cpu' # cpu /\ Len(frames') < Len(frames)
  BY DEF Returning
<1>2. LoopStep
  <2>1. ~OpenFile BY <1>1 DEF OpenFile
  <2>2. ~LoadWord BY <1>1 DEF LoadWord
  <2>3. ~LoadFails BY <1>1 DEF LoadFails
  <2>4. ~StartFibonacci BY <1>1 DEF StartFibonacci, Loaded
  <2>5. ~AdduAlone BY <1>1 DEF AdduAlone, Loaded
  <2>6. ~CallAddu BY <1>1 DEF CallAddu
  <2>7. ~FinishAddu BY <1>1 DEF FinishAddu
  <2>8. ~UNCHANGED vars BY <1>1 DEF vars
  <2> QED BY <2>1, <2>2, <2>3, <2>4, <2>5, <2>6, <2>7, <2>8 DEF Next
<1>3. RunnerInv'
  BY NextKeeps
<1>4. Len(frames) \in Nat /\ Len(frames') \in Nat
  <2>1. frames \in Seq(FrameType) /\ frames' \in Seq(FrameType)
    BY <1>3 DEF RunnerInv
  <2> QED BY <2>1
<1>5. ~(Len(frames') >= Len(frames))
  BY <1>1, <1>4
<1> QED BY <1>2, <1>5, LoopOfNothing, LoopOfProgram

(* The inductive invariant: wherever the CPU is in the program, the assertion *)
(* for that place holds, and the calls that wait will find what they left.    *)
THEOREM RunnerCorrect == ASSUME MadeForIt PROVE Spec => []RunnerInv
<1>1. Init => RunnerInv
  BY InitKeeps
<1>2. RunnerInv /\ [Next]_vars => RunnerInv'
  BY NextKeeps
<1> QED BY <1>1, <1>2, PTL DEF Spec

(* For every n the stack has room for, and however deep the recursion: the    *)
(* program is never written to.                                               *)
THEOREM ProgramStands == ASSUME MadeForIt PROVE Spec => []TextIsIntact
<1>1. RunnerInv => TextIsIntact
  <2> SUFFICES ASSUME RunnerInv, stage \in {"loop", "reset", "call", "returned"}
               PROVE  Text(file, data)
    BY DEF TextIsIntact, Text, WordAt
  <2> QED BY DEF RunnerInv
<1> QED BY <1>1, RunnerCorrect, PTL

(* run_fibonacci has returned from every call when it ends, the first one     *)
(* included; run_addu never finds a wrong sum; and only a binary that does    *)
(* not fit in the RAM, or no RAM, is a memory error.                          *)
THEOREM RunnersEndWell == ASSUME MadeForIt PROVE Spec => []EndsWell
<1>1. RunnerInv => EndsWell
  BY DEF RunnerInv, EndsWell
<1> QED BY <1>1, RunnerCorrect, PTL

(* f_fibonacci.c, as the compiler has translated it and the simulator         *)
(* executes it, computes the Fibonacci numbers (as far as a word goes) and    *)
(* keeps the calling convention.                                              *)
THEOREM FibonacciCorrect == ASSUME MadeForIt PROVE Spec => CallsReturnFibonacci
<1>1. RunnerInv /\ [Next]_vars =>
        [Returning =>
           /\ cpu'.regs[2] = ToWord(Fibonacci[Head(frames).n])
           /\ \A r \in DOMAIN Head(frames).saved : cpu'.regs[r] = Head(frames).saved[r]]_vars
  BY ReturnsFibonacci DEF Returned, Fib
<1> QED BY <1>1, RunnerCorrect, PTL DEF Spec, CallsReturnFibonacci
=============================================================================
