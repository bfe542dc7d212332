----------------------------- MODULE MipsRunner -----------------------------
(* The program runners, run_fibonacci.cpp and run_addu.cpp: load a compiled   *)
(* function at address 0, place its arguments in registers as the MIPS        *)
(* calling convention asks, and step until it has returned.                   *)
EXTENDS MipsExec, Sequences

CONSTANTS
  RamHandles,        \* what mips_mem_create_ram may return
  FreshRam,          \* what malloc leaves in the RAM
  FibonacciFiles, AdduFiles,     \* the binaries argv[1] may name: sequences of words
  FibonacciInputs,   \* the values of n
  AdduInputs,        \* << first a, first b, second a, second b >>
  StackTop, SentinelPC

ASSUME RunnerAssumption ==
  /\ RamHandles \subseteq Handle
  /\ FreshRam \in RamData
  /\ StackTop \in Word
  /\ SentinelPC \in Word

VARIABLES
  program,           \* "run_fibonacci" or "run_addu"
  input,             \* its n, or its operands
  file,              \* the words of the binary
  stage,             \* how far main is
  offset,            \* words loaded so far
  cpu, data,
  frames             \* history: the calls of f_fibonacci that have not returned

vars == << program, input, file, stage, offset, cpu, data, frames >>

Init ==
  /\ \/ /\ program = "run_fibonacci"
        /\ input \in FibonacciInputs
        /\ file \in FibonacciFiles
     \/ /\ program = "run_addu"
        /\ input \in AdduInputs
        /\ file \in AdduFiles
  /\ stage = "open"
  /\ offset = 0
  /\ \E mem \in RamHandles : cpu = Created(mem)
  /\ data = FreshRam
  /\ frames = << >>

----------------------------------------------------------------------------
(* Loading, the same in both.                                                 *)

(* Without the file: exit(1).                                                 *)
OpenFile ==
  /\ stage = "open"
  /\ stage' \in {"load", "no file"}
  /\ UNCHANGED << program, input, file, offset, cpu, data, frames >>

WriteResult == mips_mem_read_write(cpu.mem, CbMem, 4 * offset, 4)

(* Words are written byte by byte as they come from the file: big-endian.     *)
FileBytes(word) == ToBytes(word)

LoadWord ==
  /\ stage = "load"
  /\ offset < Len(file)
  /\ WriteResult = Success
  /\ data' = mips_mem_write(data, 4 * offset, 4, FileBytes(file[offset + 1]))
  /\ offset' = offset + 1
  /\ UNCHANGED << program, input, file, stage, cpu, frames >>

(* "Memory error while loading binary.": exit(1).                             *)
LoadFails ==
  /\ stage = "load"
  /\ offset < Len(file)
  /\ WriteResult # Success
  /\ stage' = "memory error"
  /\ UNCHANGED << program, input, file, offset, cpu, data, frames >>

Loaded == stage = "load" /\ offset = Len(file)

(* One mips_cpu_step on state st; the simulator may go down with it.          *)
Stepping(st, next(_)) ==
  LET o == Execute(st, data)
  IN  /\ cpu' = StepState(o)
      /\ data' = o.data
      /\ stage' = IF o.err = Killed THEN "killed" ELSE next(o)

----------------------------------------------------------------------------
(* run_fibonacci.                                                             *)

SetRegs(st, values) ==
  [st EXCEPT !.regs = [r \in Reg |-> IF r \in DOMAIN values THEN values[r] ELSE @[r]]]

(* The registers that a call of f_fibonacci must leave as they are, and what  *)
(* it is called with.                                                         *)
Frame(st) ==
  [n |-> st.regs[4], return |-> st.regs[31],
   saved |-> [r \in {16, 17, 18, 29} |-> st.regs[r]]]

(* n, a stack and a return address that is no address of the RAM.            *)
StartRegs_LowStack(n) ==
  [r \in {4, 29, 31} |->
     CASE r = 4 -> n [] r = 29 -> StackTop \div 2 [] r = 31 -> SentinelPC]
StartRegs(n) ==
  [r \in {4, 29, 31} |-> CASE r = 4 -> n [] r = 29 -> StackTop [] r = 31 -> SentinelPC]

StartFibonacci ==
  /\ program = "run_fibonacci"
  /\ Loaded
  /\ cpu' = SetRegs(cpu, StartRegs(input))
  /\ frames' = << Frame(cpu') >>
  /\ stage' = "loop"
  /\ UNCHANGED << program, input, file, offset, data >>

(* The loop ends when a step fails or has led to the sentinel.                *)
AfterLoopStep_OnlySentinel(o) == IF StepState(o).pc = SentinelPC THEN "returned" ELSE "loop"
AfterLoopStep(o) ==
  IF o.err # Success \/ StepState(o).pc = SentinelPC THEN "returned" ELSE "loop"

ReturnTo == Head(frames).return

LoopStep ==
  /\ stage = "loop"
  /\ Stepping(cpu, AfterLoopStep)
  /\ frames' = IF frames # << >> /\ cpu'.pc = ReturnTo THEN Tail(frames)
               ELSE IF cpu'.pc = 0 THEN << Frame(cpu') >> \o frames ELSE frames
  /\ UNCHANGED << program, input, file, offset >>

----------------------------------------------------------------------------
(* run_addu.                                                                  *)

(* A sum that is not the one of C: exit(1).                                   *)
Compare(o, a, b, next) == IF StepState(o).regs[2] = Plus(a, b) THEN next ELSE "sum is wrong"

Arguments(st, a, b) ==
  SetRegs(st, [r \in {4, 5} |-> IF r = 4 THEN a ELSE b])

(* The ADDU alone, in the place where the function has it.                    *)
AdduAlone ==
  /\ program = "run_addu"
  /\ Loaded
  /\ LET Next(o) == Compare(o, input[1], input[2], "reset")
     IN  Stepping(Arguments(PlacePc(cpu, 4), input[1], input[2]), Next)
  /\ UNCHANGED << program, input, file, offset, frames >>

BackToZero_KeepsPc(st) == [Created(st.mem) EXCEPT !.pc = st.pc, !.nPC = st.nPC]
BackToZero(st) == Created(st.mem)

(* The whole function: its JR, ...                                            *)
CallAddu ==
  /\ stage = "reset"
  /\ LET Next(o) == "call"
     IN  Stepping(SetRegs(Arguments(BackToZero(cpu), input[3], input[4]),
                          [r \in {31} |-> SentinelPC]), Next)
  /\ UNCHANGED << program, input, file, offset, frames >>

(* ... and the ADDU in its delay slot.                                        *)
FinishAddu ==
  /\ stage = "call"
  /\ LET Next(o) == Compare(o, input[3], input[4], "returned")
     IN  Stepping(cpu, Next)
  /\ UNCHANGED << program, input, file, offset, frames >>

Next ==
  \/ OpenFile
  \/ LoadWord
  \/ LoadFails
  \/ StartFibonacci
  \/ LoopStep
  \/ AdduAlone
  \/ CallAddu
  \/ FinishAddu

(* One process that waits for nothing: it goes on as long as it can.          *)
Spec == Init /\ [][Next]_vars /\ WF_vars(Next)
----------------------------------------------------------------------------
(* The compiled functions, instruction by instruction as in the .diss files.  *)

RIns(fn, s, t, d) ==
  [opcode |-> 0, s |-> s, t |-> t, d |-> d, sh |-> 0, fn |-> fn, i |-> 0, j |-> 0]
IIns(opcode, s, t, imm) ==
  [opcode |-> opcode, s |-> s, t |-> t, d |-> 0, sh |-> 0, fn |-> 0, i |-> imm % HalfSize,
   j |-> 0]
JIns(opcode, j) ==
  [opcode |-> opcode, s |-> 0, t |-> 0, d |-> 0, sh |-> 0, fn |-> 0, i |-> 0, j |-> j]

Addu(d, s, t) == RIns(\h21, s, t, d)
Addiu(t, s, imm) == IIns(\h9, s, t, imm)
Sltiu(t, s, imm) == IIns(\hb, s, t, imm)
Lw(t, imm) == IIns(\h23, 29, t, imm)
Sw(t, imm) == IIns(\h2b, 29, t, imm)
Nop == RIns(0, 0, 0, 0)

f_fibonacci ==
  << Addiu(29, 29, -32), Sltiu(2, 4, 2), Sw(18, 24), Sw(31, 28), Sw(17, 20), Sw(16, 16),
     IIns(\h5, 2, 0, 17),                                       \* bnez v0, 60
     Addu(18, 4, 0), Addu(16, 4, 0), Addu(17, 0, 0),
     Addiu(4, 16, -1), JIns(\h3, 0), Addiu(16, 16, -2),         \* jal 0
     Sltiu(3, 16, 2), IIns(\h4, 3, 0, -5), Addu(17, 17, 2),     \* beqz v1, 28
     IIns(\hc, 18, 18, 1), Lw(31, 28), Addu(2, 17, 18), Lw(16, 16), Lw(18, 24), Lw(17, 20),
     RIns(\h8, 31, 0, 0), Addiu(29, 29, 32),                    \* jr ra
     JIns(\h2, 17), Addu(17, 0, 0) >>                           \* j 44
f_addu == << RIns(\h8, 31, 0, 0), Addu(2, 4, 5) >>

(* Words that the CPU decodes to these instructions.                          *)
IsBinary(words, code) ==
  /\ words \in Seq(Word) /\ Len(words) = Len(code)
  /\ \A k \in DOMAIN code : Decode(words[k]) = code[k]

(* What the runners are made for: their own binary, one that is empty (over a *)
(* RAM of zeros) or one that is too long; a stack that lies in the RAM and    *)
(* has room above the program for as many frames of 32 bytes as f_fibonacci   *)
(* needs, and a sentinel beyond the RAM.                                      *)
Depth(n) == IF n = 0 THEN 1 ELSE n
MadeForIt ==
  /\ ByteBits >= 4
  /\ \A words \in FibonacciFiles :
       \/ IsBinary(words, f_fibonacci)
       \/ words = << >> /\ Decode(0) = Nop /\ FreshRam = [a \in RamAddress |-> 0]
  /\ \A words \in AdduFiles :
       IsBinary(words, f_addu) \/ (words \in Seq(Word) /\ 4 * Len(words) > CbMem)
  /\ \A n \in FibonacciInputs :
       n \in Nat /\ StackTop - 32 * Depth(n) >= 4 * Len(f_fibonacci)
  /\ AdduInputs \subseteq [1 .. 4 -> Word]
  /\ StackTop % 4 = 0 /\ StackTop <= CbMem
  /\ SentinelPC > CbMem
----------------------------------------------------------------------------
(* What f_fibonacci.c computes.                                               *)
Fibonacci[n \in Nat] == IF n <= 1 THEN n ELSE Fibonacci[n - 1] + Fibonacci[n - 2]

(* Every call of the compiled function, the recursive ones from the middle of *)
(* a loop included, returns the Fibonacci number of its argument and gives    *)
(* the caller's registers and stack pointer back as it found them.            *)
Returning == stage = "loop" /\ cpu' # cpu /\ Len(frames') < Len(frames)
CallsReturnFibonacci ==
  [][Returning =>
       /\ cpu'.regs[2] = ToWord(Fibonacci[Head(frames).n])
       /\ \A r \in DOMAIN Head(frames).saved : cpu'.regs[r] = Head(frames).saved[r]]_vars

(* The stack grows down towards the program but never into it.                *)
TextIsIntact ==
  stage \in {"loop", "reset", "call", "returned"} =>
    \A k \in DOMAIN file :
      FromBytes(mips_mem_read(data, 4 * (k - 1), 4)) = file[k]

(* With the binaries of the repository and a RAM they fit in, run_fibonacci   *)
(* has returned from every call when it ends, and run_addu finds both sums.   *)
EndsWell ==
  /\ stage = "returned" /\ file # << >> => frames = << >>
  /\ stage \notin {"sum is wrong", "killed"}
  /\ stage = "memory error" => cpu.mem = NULL \/ 4 * Len(file) > CbMem

(* The runner ends: its loop reaches the sentinel, however deep the recursion, *)
(* or a step that fails, when there is nothing sensible in the file.          *)
RunnerEnds == <>(stage \in {"returned", "no file", "memory error"})
=============================================================================
