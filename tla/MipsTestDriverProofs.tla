------------------------ MODULE MipsTestDriverProofs ------------------------
(* The driver and the framework: whatever the CPU under test makes of a row,  *)
(* the test functions tell the framework what its protocol asks for.          *)
EXTENDS MipsTestDriver, MipsExecProofs, SequenceTheorems

----------------------------------------------------------------------------
(* The machine under test, and the operations of the test functions on it.    *)

Machine(mem) ==
  [cpu : {st \in mips_cpu_impl : st.mem = mem /\ st.regs[0] = 0},
   data : RamData, err : Outcomes]

Operations ==
  [op : {"set"}, r : Reg, value : Word]
    \cup [op : {"pc"}, pc : Word]
    \cup [op : {"write", "bytes"}, address : Int, bytes : [0 .. 3 -> Byte]]
    \cup [op : {"step", "nothing"}]

LEMMA MachineFields ==
  ASSUME NEW mem, NEW m \in Machine(mem)
  PROVE  /\ m.cpu \in mips_cpu_impl /\ m.cpu.mem = mem /\ m.cpu.regs[0] = 0
         /\ m.data \in RamData
         /\ \A st \in mips_cpu_impl :
              st.mem = mem /\ st.regs[0] = 0 => [m EXCEPT !.cpu = st] \in Machine(mem)
         /\ \A data2 \in RamData : [m EXCEPT !.data = data2] \in Machine(mem)
BY DEF Machine

LEMMA CreatedType ==
  ASSUME NEW mem \in Handle
  PROVE  Created(mem) \in mips_cpu_impl /\ Created(mem).mem = mem /\ Created(mem).regs[0] = 0
<1>1. 0 \in Word /\ 4 \in Word
  BY SizeFacts DEF Word
<1> QED BY <1>1 DEF Created, mips_cpu_impl, Reg

LEMMA StepIs ==
  ASSUME NEW m, m.err # Killed
  PROVE  LET o == Execute(m.cpu, m.data)
         IN  Step(m) = [cpu |-> StepState(o), data |-> o.data, err |-> o.err]
<1> DEFINE After(o) == [cpu |-> StepState(o), data |-> o.data, err |-> o.err]
           o == Execute(m.cpu, m.data)
<1>1. Step(m) = CHOOSE y \in {After(z) : z \in {o}} : TRUE
  BY DEF Step, Do
<1>2. (CHOOSE y \in {After(z) : z \in {o}} : TRUE) = After(o)
  <2> HIDE DEF After, o
  <2>1. {After(z) : z \in {o}} = {After(o)}
    OBVIOUS
  <2> QED BY <2>1
<1> QED BY <1>1, <1>2

LEMMA StepType ==
  ASSUME NEW mem, NEW m \in Machine(mem)
  PROVE  Step(m) \in Machine(mem)
<1> DEFINE o == Execute(m.cpu, m.data)
<1>1. CASE m.err = Killed
  BY <1>1 DEF Step
<1>2. CASE m.err # Killed
  <2>1. GoodOutcome(m.cpu, m.data, o)
    BY MachineFields, ExecuteGood
  <2> HIDE DEF o
  <2>2. /\ o.err \in Outcomes /\ o.data \in RamData
        /\ o.state \in mips_cpu_impl /\ o.state.mem = mem /\ o.state.regs[0] = 0
    <3>1. m.cpu.mem = mem /\ m.cpu.regs[0] = 0
      BY MachineFields
    <3> QED BY <2>1, <3>1 DEF GoodOutcome, GoodReturn, Kept
  <2>3. /\ StepState(o) \in mips_cpu_impl
        /\ StepState(o).mem = mem /\ StepState(o).regs[0] = 0
    BY <2>2, IncrementType DEF StepState
  <2>4. Step(m) = [cpu |-> StepState(o), data |-> o.data, err |-> o.err]
    BY <1>2, StepIs DEF o
  <2> QED BY <2>2, <2>3, <2>4 DEF Machine
<1> QED BY <1>1, <1>2

LEMMA WriteType ==
  ASSUME NEW d \in RamData, NEW address \in Int, NEW bytes \in [0 .. 3 -> Byte]
  PROVE  /\ mips_mem_write(d, address, 4, bytes) \in RamData
         /\ [a \in RamAddress |-> IF a \in address .. address + 3
                                  THEN bytes[a - address] ELSE d[a]] \in RamData
<1>1. \A a \in RamAddress : a \in address .. address + 3 => bytes[a - address] \in Byte
  BY RamAssumption DEF RamAddress
<1> QED BY <1>1 DEF mips_mem_write, RamData

LEMMA PerformType ==
  ASSUME NEW mem, NEW m \in Machine(mem), NEW o \in Operations
  PROVE  Perform(m, o) \in Machine(mem)
<1>1. CASE o.op = "set"
  <2>1. o.r \in Reg /\ o.value \in Word
    BY <1>1 DEF Operations
  <2>2. o.r # 0 => Kept(m.cpu, SetReg(m.cpu, o.r, o.value))
    BY <2>1, MachineFields, SetRegKept
  <2>3. o.r # 0 => [m EXCEPT !.cpu = SetReg(@, o.r, o.value)] \in Machine(mem)
    BY <2>2, MachineFields DEF Kept
  <2> QED BY <1>1, <2>3 DEF Perform
<1>2. CASE o.op = "pc"
  <2>1. o.pc \in Word
    BY <1>2 DEF Operations
  <2>2. /\ PlacePc(m.cpu, o.pc) \in mips_cpu_impl
        /\ PlacePc(m.cpu, o.pc).mem = mem /\ PlacePc(m.cpu, o.pc).regs[0] = 0
    <3>1. Plus(o.pc, 4) \in Word
      <4>1. o.pc \in Int /\ 4 \in Int
        BY <2>1, WordIsInt
      <4> QED BY <4>1, PlusType
    <3>2. m.cpu \in mips_cpu_impl /\ m.cpu.mem = mem /\ m.cpu.regs[0] = 0
      BY MachineFields
    <3> QED BY <2>1, <3>1, <3>2 DEF PlacePc, mips_cpu_impl
  <2> QED BY <1>2, <2>2, MachineFields DEF Perform
<1>3. CASE o.op \in {"write", "bytes"}
  <2>1. o.address \in Int /\ o.bytes \in [0 .. 3 -> Byte]
    BY <1>3 DEF Operations
  <2>2. /\ [m EXCEPT !.data = mips_mem_write(@, o.address, 4, o.bytes)] \in Machine(mem)
        /\ [m EXCEPT !.data = [a \in RamAddress |-> IF a \in o.address .. o.address + 3
                                                    THEN o.bytes[a - o.address] ELSE @[a]]]
             \in Machine(mem)
    BY <2>1, WriteType, MachineFields
  <2> QED BY <1>3, <2>2 DEF Perform
<1>4. CASE o.op \in {"step", "nothing"}
  BY <1>4, StepType DEF Perform
<1> QED BY <1>1, <1>2, <1>3, <1>4 DEF Operations

----------------------------------------------------------------------------
(* A run: one machine for each operation.                                     *)

(* What Run adds to the machines done so far for operation n.                 *)
NextMachine(m0, ops, done, n) ==
  Append(done, Perform(IF n = 1 THEN m0 ELSE done[n - 1], ops[n]))

(* f is the function that Run defines by recursion, up to k.                  *)
RunsTo(m0, ops, k, f) ==
  f = [n \in 0 .. k |-> IF n = 0 THEN << >> ELSE NextMachine(m0, ops, f[n - 1], n)]

LEMMA RunExists ==
  ASSUME NEW m0, NEW ops, NEW k \in Nat
  PROVE  \E f : RunsTo(m0, ops, k, f)
<1> DEFINE S == {n \in Nat : \E f : RunsTo(m0, ops, n, f)}
<1>1. 0 \in S
  <2>1. RunsTo(m0, ops, 0, [n \in 0 .. 0 |-> << >>])
    BY DEF RunsTo
  <2> QED BY <2>1
<1>2. ASSUME NEW n \in Nat, n \in S PROVE n + 1 \in S
  <2>1. PICK f : RunsTo(m0, ops, n, f)
    BY <1>2
  <2> DEFINE g == [j \in 0 .. n + 1 |->
                     IF j = n + 1 THEN NextMachine(m0, ops, f[n], n + 1) ELSE f[j]]
             h == [j \in 0 .. n + 1 |->
                     IF j = 0 THEN << >> ELSE NextMachine(m0, ops, g[j - 1], j)]
  <2>2. ASSUME NEW j \in 0 .. n + 1 PROVE g[j] = h[j]
    <3>1. CASE j = n + 1
      <4>1. g[j] = NextMachine(m0, ops, f[n], n + 1) /\ g[n] = f[n]
        BY <3>1
      <4> QED BY <3>1, <4>1
    <3>2. CASE j # n + 1
      <4>1. j \in 0 .. n /\ g[j] = f[j] /\ (j # 0 => j - 1 \in 0 .. n + 1 /\ g[j - 1] = f[j - 1])
        BY <3>2
      <4>2. f[j] = IF j = 0 THEN << >> ELSE NextMachine(m0, ops, f[j - 1], j)
        BY <2>1, <4>1 DEF RunsTo
      <4> QED BY <4>1, <4>2
    <3> QED BY <3>1, <3>2
  <2>3. g = h
    <3> HIDE DEF S
    <3> QED BY <2>2
  <2>4. RunsTo(m0, ops, n + 1, g)
    BY <2>3 DEF RunsTo
  <2> HIDE DEF g
  <2> QED BY <2>4
<1> HIDE DEF S
<1>3. k \in S
  BY <1>1, <1>2, SetInduction
<1> QED BY <1>3 DEF S

LEMMA RunIs ==
  ASSUME NEW m0, NEW ops, Len(ops) \in Nat
  PROVE  \E f : RunsTo(m0, ops, Len(ops), f) /\ Run(m0, ops) = f[Len(ops)]
<1> DEFINE g == CHOOSE f : RunsTo(m0, ops, Len(ops), f)
<1>1. RunsTo(m0, ops, Len(ops), g)
  BY RunExists
<1>2. Run(m0, ops) = g[Len(ops)]
  <2>1. ASSUME NEW done, NEW n
        PROVE  (CHOOSE y \in {NextMachine(m0, ops, z, n) : z \in {done}} : TRUE)
                 = NextMachine(m0, ops, done, n)
    <3>1. {NextMachine(m0, ops, z, n) : z \in {done}} = {NextMachine(m0, ops, done, n)}
      OBVIOUS
    <3> QED BY <3>1
  <2> DEFINE G(f) == [n \in 0 .. Len(ops) |->
               IF n = 0 THEN << >>
               ELSE CHOOSE y \in {NextMachine(m0, ops, z, n) : z \in {f[n - 1]}} : TRUE]
  <2>2. Run(m0, ops) = (CHOOSE f : f = G(f))[Len(ops)]
    BY DEF Run, Do, NextMachine
  <2>3. ASSUME NEW f PROVE (f = G(f)) <=> RunsTo(m0, ops, Len(ops), f)
    BY <2>1 DEF RunsTo
  <2> HIDE DEF G
  <2>4. (CHOOSE f : f = G(f)) = g
    BY <2>3
  <2> QED BY <2>2, <2>4
<1> QED BY <1>1, <1>2

(* The machines of a run, each made from the one before by its operation.     *)
IsRun(ms, m0, ops, mem, k) ==
  /\ ms \in Seq(Machine(mem)) /\ Len(ms) = k
  /\ \A n \in 1 .. k : ms[n] = Perform(IF n = 1 THEN m0 ELSE ms[n - 1], ops[n])

LEMMA RunMachines ==
  ASSUME NEW mem, NEW m0 \in Machine(mem), NEW ops \in Seq(Operations)
  PROVE  IsRun(Run(m0, ops), m0, ops, mem, Len(ops))
<1> DEFINE L == Len(ops)
<1>1. L \in Nat /\ \A n \in 1 .. L : ops[n] \in Operations
  OBVIOUS
<1>2. PICK f : RunsTo(m0, ops, L, f) /\ Run(m0, ops) = f[L]
  BY <1>1, RunIs
<1> DEFINE S == {k \in Nat : k <= L => IsRun(f[k], m0, ops, mem, k)}
<1>3. 0 \in S
  <2>1. f[0] = << >>
    BY <1>1, <1>2 DEF RunsTo
  <2>2. << >> \in Seq(Machine(mem)) /\ Len(<< >>) = 0
    OBVIOUS
  <2>3. IsRun(<< >>, m0, ops, mem, 0)
    BY ONLY <2>2 DEF IsRun
  <2> QED BY <2>1, <2>3
<1>4. ASSUME NEW k \in Nat, k \in S PROVE k + 1 \in S
  <2> SUFFICES ASSUME k + 1 <= L PROVE IsRun(f[k + 1], m0, ops, mem, k + 1)
    OBVIOUS
  <2>1. IsRun(f[k], m0, ops, mem, k)
    BY <1>1, <1>4
  <2> DEFINE last == IF k + 1 = 1 THEN m0 ELSE f[k][k]
             m == Perform(last, ops[k + 1])
  <2>2. f[k + 1] = Append(f[k], m)
    <3>1. k + 1 \in 0 .. L /\ k + 1 # 0 /\ (k + 1) - 1 = k
      BY <1>1
    <3> QED BY <1>2, <3>1 DEF RunsTo, NextMachine
  <2>3. last \in Machine(mem)
    BY <2>1 DEF IsRun
  <2>4. m \in Machine(mem)
    BY <1>1, <2>3, PerformType
  <2>5. ASSUME NEW n \in 1 .. k + 1
        PROVE  f[k + 1][n] = Perform(IF n = 1 THEN m0 ELSE f[k + 1][n - 1], ops[n])
    <3> HIDE DEF m
    <3>1. CASE n = k + 1
      <4>1. f[k + 1][n] = m /\ (n # 1 => f[k + 1][n - 1] = f[k][k])
        BY <2>1, <2>2, <2>4, <3>1 DEF IsRun
      <4> QED BY <3>1, <4>1 DEF m
    <3>2. CASE n # k + 1
      <4>1. n \in 1 .. k /\ f[k + 1][n] = f[k][n] /\ (n # 1 => f[k + 1][n - 1] = f[k][n - 1])
        BY <2>1, <2>2, <2>4, <3>2 DEF IsRun
      <4> QED BY <2>1, <4>1 DEF IsRun
    <3> QED BY <3>1, <3>2
  <2> HIDE DEF m
  <2> QED BY <2>1, <2>2, <2>4, <2>5 DEF IsRun
<1> HIDE DEF S
<1>5. L \in S
  BY <1>1, <1>3, <1>4, SetInduction
<1> QED BY <1>2, <1>5 DEF S

----------------------------------------------------------------------------
(* What a test function still has to tell the framework when p tests are      *)
(* open: ends and begins in turn, and an end last.                            *)

FrameworkCalls ==
  [fn : {"begin"}, name : Names] \cup [fn : {"end"}, passed : {0, 1}, msg : Messages]

Alternate(c, p) ==
  /\ c \in Seq(FrameworkCalls)
  /\ Len(c) % 2 = p
  /\ \A k \in 1 .. Len(c) : c[k].fn = IF k % 2 = p THEN "end" ELSE "begin"

LEMMA Parity ==
  ASSUME NEW n \in Int, NEW m \in Int
  PROVE  /\ n % 2 \in {0, 1}
         /\ (n + 1) % 2 = 1 - (n % 2) /\ (n - 1) % 2 = 1 - (n % 2)
         /\ n % 2 = 0 => (m - n) % 2 = m % 2
         /\ n % 2 = 1 => (m - n) % 2 = 1 - (m % 2)
OBVIOUS

LEMMA NothingToTell == Alternate(<< >>, 0)
BY DEF Alternate

LEMMA EndCloses ==
  ASSUME NEW passed, NEW msg \in Messages
  PROVE  Alternate(<< End(Verdict(passed), msg) >>, 1) /\ Alternate(<< End(0, msg) >>, 1)
<1>1. ASSUME NEW v \in {0, 1} PROVE Alternate(<< End(v, msg) >>, 1)
  <2>1. End(v, msg) \in FrameworkCalls /\ End(v, msg).fn = "end"
    BY DEF End, FrameworkCalls
  <2> QED BY <2>1 DEF Alternate
<1>2. Verdict(passed) \in {0, 1}
  BY DEF Verdict
<1> QED BY <1>1, <1>2

LEMMA HelperCloses ==
  ASSUME NEW name \in Names, NEW passed, NEW msg \in Messages
  PROVE  Alternate(Helper(name, passed, msg), 0)
<1>1. /\ Begin(name) \in FrameworkCalls /\ Begin(name).fn = "begin"
      /\ End(Verdict(passed), msg) \in FrameworkCalls /\ End(Verdict(passed), msg).fn = "end"
  BY DEF Begin, End, Verdict, FrameworkCalls
<1> QED BY <1>1 DEF Alternate, Helper

LEMMA Appended ==
  ASSUME NEW a, NEW b, NEW p \in {0, 1}, Alternate(a, p), Alternate(b, 0)
  PROVE  Alternate(a \o b, p)
<1> DEFINE c == a \o b
<1>1. /\ a \in Seq(FrameworkCalls) /\ b \in Seq(FrameworkCalls)
      /\ Len(a) \in Nat /\ Len(b) \in Nat /\ Len(a) % 2 = p /\ Len(b) % 2 = 0
  BY DEF Alternate
<1>2. /\ c \in Seq(FrameworkCalls) /\ Len(c) = Len(a) + Len(b)
      /\ \A k \in 1 .. Len(c) : c[k] = IF k <= Len(a) THEN a[k] ELSE b[k - Len(a)]
  BY <1>1
<1> HIDE DEF c
<1>3. Len(c) % 2 = p
  <2>1. \A x, y, z \in Nat : z = x + y /\ y % 2 = 0 => z % 2 = x % 2
    OBVIOUS
  <2>2. Len(c) \in Nat
    BY <1>2
  <2> QED BY ONLY <1>1, <1>2, <2>1, <2>2
<1>4. ASSUME NEW k \in 1 .. Len(c)
      PROVE  c[k].fn = IF k % 2 = p THEN "end" ELSE "begin"
  <2>1. CASE k <= Len(a)
    <3>1. k \in 1 .. Len(a) /\ c[k] = a[k]
      BY <1>1, <1>2, <2>1
    <3> QED BY <3>1 DEF Alternate
  <2>2. CASE k > Len(a)
    <3>1. k - Len(a) \in 1 .. Len(b) /\ c[k] = b[k - Len(a)]
      <4>0. \A x, y, z \in Nat : z \in 1 .. x + y /\ z > x =>
              z \in Nat /\ z <= x + y /\ ~(z <= x)
        OBVIOUS
      <4>1. /\ k \in Nat /\ k <= Len(a) + Len(b) /\ ~(k <= Len(a))
            /\ Len(a) \in Nat /\ Len(b) \in Nat
        <5>1. Len(a) \in Nat /\ Len(b) \in Nat /\ Len(c) = Len(a) + Len(b)
          BY <1>1, <1>2
        <5>2. k \in Nat /\ k \in 1 .. Len(a) + Len(b)
          BY <5>1
        <5> QED BY ONLY <2>2, <5>1, <5>2, <4>0
      <4>2. \A x, y, z \in Nat : z <= x + y /\ ~(z <= x) => z - x \in 1 .. y
        OBVIOUS
      <4>3. k - Len(a) \in 1 .. Len(b)
        BY ONLY <4>1, <4>2
      <4>4. c[k] = b[k - Len(a)]
        BY <1>2, <4>1
      <4> QED BY <4>3, <4>4
    <3>2. b[k - Len(a)].fn = IF (k - Len(a)) % 2 = 0 THEN "end" ELSE "begin"
      BY <3>1 DEF Alternate
    <3>3. (k - Len(a)) % 2 = 0 <=> k % 2 = p
      <4>1. k \in Int /\ Len(a) \in Int
        BY <1>1
      <4>2. /\ k % 2 \in {0, 1}
            /\ Len(a) % 2 = 0 => (k - Len(a)) % 2 = k % 2
            /\ Len(a) % 2 = 1 => (k - Len(a)) % 2 = 1 - (k % 2)
        BY <4>1, Parity
      <4> QED BY <1>1, <4>2
    <3> QED BY <3>1, <3>2, <3>3
  <2> QED BY <1>1, <1>2, <2>1, <2>2
<1> QED BY <1>2, <1>3, <1>4 DEF Alternate, c

LEMMA NextCall ==
  ASSUME NEW c, NEW p \in {0, 1}, Alternate(c, p), c # << >>
  PROVE  /\ Head(c) \in FrameworkCalls
         /\ Head(c).fn = IF p = 1 THEN "end" ELSE "begin"
         /\ Alternate(Tail(c), 1 - p)
<1>1. /\ c \in Seq(FrameworkCalls) /\ Len(c) \in Nat \ {0} /\ Len(c) % 2 = p
      /\ Head(c) = c[1] /\ c[1] \in FrameworkCalls
  BY DEF Alternate
<1> DEFINE t == Tail(c)
<1>2. /\ t \in Seq(FrameworkCalls) /\ Len(t) = Len(c) - 1
      /\ \A k \in 1 .. Len(t) : t[k] = c[k + 1]
  BY <1>1
<1> HIDE DEF t
<1>3. Len(t) % 2 = 1 - p
  BY <1>1, <1>2, Parity
<1>4. ASSUME NEW k \in 1 .. Len(t)
      PROVE  t[k].fn = IF k % 2 = 1 - p THEN "end" ELSE "begin"
  <2>1. k + 1 \in 1 .. Len(c) /\ t[k] = c[k + 1]
    BY <1>1, <1>2
  <2>2. (k + 1) % 2 = p <=> k % 2 = 1 - p
    <3>1. (k + 1) % 2 = 1 - (k % 2) /\ k % 2 \in {0, 1}
      BY Parity
    <3> QED BY <3>1
  <2> QED BY <2>1, <2>2 DEF Alternate
<1>5. c[1].fn = IF p = 1 THEN "end" ELSE "begin"
  BY <1>1 DEF Alternate
<1> QED BY <1>1, <1>2, <1>3, <1>4, <1>5 DEF Alternate, t

----------------------------------------------------------------------------
(* The test functions: what they do to the machine is made of operations, and *)
(* unless the instruction kills the simulator they end their tests.           *)

GoodTest(r, mem) == r.m \in Machine(mem) /\ (r.m.err = Killed \/ Alternate(r.calls, 1))

LEMMA TestedGood ==
  ASSUME NEW mem, NEW m \in Machine(mem), NEW passed, "row" \in Messages
  PROVE  GoodTest(Tested(m, passed), mem)
<1>1. Alternate(<< End(Verdict(passed), "row") >>, 1)
  BY EndCloses
<1> QED BY <1>1 DEF GoodTest, Tested

LEMMA OperationTypes ==
  /\ \A r \in Reg, v \in Word : Set(r, v) \in Operations
  /\ \A pc \in Word : PlaceAt(pc) \in Operations
  /\ \A a \in Int, x \in Word :
       Write(a, ToBytes(x)) \in Operations /\ WriteBytes(a, ToBytes(x)) \in Operations
  /\ \A a \in Int : Write(a, Zeros) \in Operations
  /\ \A a \in Int : \A ins : Encode(ins) \in Word => WriteInstr(a, ins) \in Operations
  /\ AStep \in Operations
  /\ [op |-> "nothing"] \in Operations
<1>1. \A x \in Word : ToBytes(x) \in [0 .. 3 -> Byte]
  BY ByteOfType DEF ToBytes
<1>2. Zeros \in [0 .. 3 -> Byte]
  BY SizeFacts DEF Zeros, Byte
<1> QED BY <1>1, <1>2 DEF Operations, Set, PlaceAt, Write, WriteInstr, WriteBytes, AStep

LEMMA RunTyped ==
  ASSUME NEW mem, NEW m0 \in Machine(mem), NEW ops \in Seq(Operations),
         NEW k \in 1 .. Len(ops)
  PROVE  Run(m0, ops)[k] \in Machine(mem)
BY RunMachines DEF IsRun

LEMMA SmallWords == \A n \in 0 .. 63 : n \in Word
BY WordMultiple DEF Word

(* Each test function runs its operations and looks at what they left: what   *)
(* it says is an expression over the machines of that run.                    *)

LEMMA NormalOpsType ==
  ASSUME NEW row, Columns(row), row.type = "Normal"
  PROVE  NormalOps(row) \in Seq(Operations) /\ Len(NormalOps(row)) = 5
<1> DEFINE o1 == Set(NormalDest(row), 11)
           o2 == If(row.format = "R", Set(row.ins.t, row.t_val))
           o3 == Set(row.ins.s, row.s_val)
           o4 == WriteInstr(0, row.ins)
<1>1. /\ row.ins.s \in Reg /\ row.ins.t \in Reg /\ row.ins.d \in Reg
      /\ row.s_val \in Word /\ (row.format = "R" => row.t_val \in Word)
      /\ Encode(row.ins) \in Word
  BY DEF Columns, Instr
<1>2. 0 \in Int /\ 11 \in Word
  BY SmallWords
<1>3. o1 \in Operations /\ o3 \in Operations /\ o4 \in Operations
  BY <1>1, <1>2, OperationTypes DEF NormalDest
<1>4. o2 \in Operations
  BY <1>1, OperationTypes DEF If
<1>5. NormalOps(row) = << o1, o2, o3, o4, AStep >>
  BY DEF NormalOps
<1> HIDE DEF o1, o2, o3, o4
<1> QED BY <1>3, <1>4, <1>5, OperationTypes

NormalSays(row, m0, m, wrong) ==
  IF row.format \notin {"R", "I"} THEN Tested(m0, FALSE)
  ELSE IF row.exp_err # Success \/ m[5].err # Success
  THEN Tested(m[5], SameError(m[5], row.exp_err, 1, wrong))
  ELSE Tested(m[5], compare_model(m[5], model_state(m[4], NormalDest(row), row.ans, 4), 1, wrong))

LEMMA NormalIs ==
  ASSUME NEW row, NEW m0, NEW wrong
  PROVE  test_normal_functions(row, m0, wrong) = NormalSays(row, m0, Run(m0, NormalOps(row)), wrong)
<1> DEFINE ms == Run(m0, NormalOps(row))
           Judge(m) == NormalSays(row, m0, m, wrong)
<1>1. test_normal_functions(row, m0, wrong) = CHOOSE y \in {Judge(z) : z \in {ms}} : TRUE
  BY DEF test_normal_functions, Do, NormalSays
<1> HIDE DEF Judge, ms
<1>2. {Judge(z) : z \in {ms}} = {Judge(ms)}
  OBVIOUS
<1>3. (CHOOSE y \in {Judge(z) : z \in {ms}} : TRUE) = Judge(ms)
  BY <1>2
<1> QED BY <1>1, <1>3 DEF Judge, ms

LEMMA NormalGood ==
  ASSUME NEW row, NEW mem, NEW m0 \in Machine(mem), NEW wrong,
         Columns(row), row.type = "Normal", "row" \in Messages
  PROVE  GoodTest(test_normal_functions(row, m0, wrong), mem)
<1> DEFINE ms == Run(m0, NormalOps(row))
<1>1. ms[5] \in Machine(mem)
  <2>1. NormalOps(row) \in Seq(Operations) /\ Len(NormalOps(row)) = 5
    BY NormalOpsType, Zenon
  <2>2. 5 \in 1 .. Len(NormalOps(row))
    BY <2>1
  <2> QED BY <2>1, <2>2, RunTyped
<1>2. test_normal_functions(row, m0, wrong) = NormalSays(row, m0, ms, wrong)
  BY NormalIs
<1> HIDE DEF ms
<1> QED BY <1>1, <1>2, TestedGood DEF NormalSays

LEMMA MemReadOpsType ==
  ASSUME NEW row, Columns(row), row.type = "MemRead"
  PROVE  MemReadOps(row) \in Seq(Operations) /\ Len(MemReadOps(row)) = 5
<1> DEFINE o1 == Set(row.ins.s, row.s_val)
           o2 == Set(row.ins.t, row.t_val)
           o3 == WriteBytes(row.memloc, ToBytes(row.bytes))
           o4 == WriteInstr(0, row.ins)
<1>1. /\ row.ins.s \in Reg /\ row.ins.t \in Reg
      /\ row.s_val \in Word /\ row.t_val \in Word
      /\ row.memloc \in Word /\ row.bytes \in Word /\ Encode(row.ins) \in Word
  BY DEF Columns, Instr
<1>2. row.memloc \in Int
  BY <1>1, WordIsInt
<1>3. o1 \in Operations /\ o2 \in Operations /\ o3 \in Operations /\ o4 \in Operations
  BY <1>1, <1>2, OperationTypes
<1>4. MemReadOps(row) = << o1, o2, o3, o4, AStep >>
  BY DEF MemReadOps
<1> HIDE DEF o1, o2, o3, o4
<1> QED BY <1>3, <1>4, OperationTypes

MemReadSays(row, m, wrong) ==
  IF row.exp_err # Success \/ m[5].err # Success
  THEN Tested(m[5], SameError(m[5], row.exp_err, 1, wrong))
  ELSE Tested(m[5], compare_model(m[5], model_state(m[4], row.ins.t, row.ans, 4), 1, wrong))

LEMMA MemReadIs ==
  ASSUME NEW row, NEW m0, NEW wrong
  PROVE  test_memory_read_functions(row, m0, wrong) = MemReadSays(row, Run(m0, MemReadOps(row)), wrong)
<1> DEFINE ms == Run(m0, MemReadOps(row))
           Judge(m) == MemReadSays(row, m, wrong)
<1>1. test_memory_read_functions(row, m0, wrong) = CHOOSE y \in {Judge(z) : z \in {ms}} : TRUE
  BY DEF test_memory_read_functions, Do, MemReadSays
<1> HIDE DEF Judge, ms
<1>2. {Judge(z) : z \in {ms}} = {Judge(ms)}
  OBVIOUS
<1>3. (CHOOSE y \in {Judge(z) : z \in {ms}} : TRUE) = Judge(ms)
  BY <1>2
<1> QED BY <1>1, <1>3 DEF Judge, ms

LEMMA MemReadGood ==
  ASSUME NEW row, NEW mem, NEW m0 \in Machine(mem), NEW wrong,
         Columns(row), row.type = "MemRead", "row" \in Messages
  PROVE  GoodTest(test_memory_read_functions(row, m0, wrong), mem)
<1> DEFINE ms == Run(m0, MemReadOps(row))
<1>1. ms[5] \in Machine(mem)
  <2>1. MemReadOps(row) \in Seq(Operations) /\ Len(MemReadOps(row)) = 5
    BY MemReadOpsType, Zenon
  <2>2. 5 \in 1 .. Len(MemReadOps(row))
    BY <2>1
  <2> QED BY <2>1, <2>2, RunTyped
<1>2. test_memory_read_functions(row, m0, wrong) = MemReadSays(row, ms, wrong)
  BY MemReadIs
<1> HIDE DEF ms
<1> QED BY <1>1, <1>2, TestedGood DEF MemReadSays

LEMMA MemWriteOpsType ==
  ASSUME NEW row, Columns(row), row.type = "MemWrite"
  PROVE  MemWriteOps(row) \in Seq(Operations) /\ Len(MemWriteOps(row)) = 6
<1> DEFINE o1 == Set(row.ins.s, row.s_val)
           o2 == Set(row.ins.t, row.t_val)
           o3 == Write(row.memloc, Zeros)
           o4 == Write(Plus(row.memloc, 3), Zeros)
           o5 == WriteInstr(0, row.ins)
<1>1. /\ row.ins.s \in Reg /\ row.ins.t \in Reg
      /\ row.s_val \in Word /\ row.t_val \in Word
      /\ row.memloc \in Word /\ Encode(row.ins) \in Word
  BY DEF Columns, Instr
<1>2. row.memloc \in Int /\ Plus(row.memloc, 3) \in Int
  BY <1>1, WordIsInt, PlusType
<1>3. /\ o1 \in Operations /\ o2 \in Operations /\ o3 \in Operations /\ o4 \in Operations
      /\ o5 \in Operations
  BY <1>1, <1>2, OperationTypes
<1>4. MemWriteOps(row) = << o1, o2 >> \o << o3, o4 >> \o << o5, AStep >>
  BY DEF MemWriteOps, ClearWord
<1> HIDE DEF o1, o2, o3, o4, o5
<1> QED BY <1>3, <1>4, OperationTypes

MemWriteSays(row, m, wrong) ==
  IF row.exp_err # Success THEN Tested(m[6], SameError(m[6], row.exp_err, 1, wrong))
  ELSE Tested(m[6], /\ compare_model(m[6], model_state(m[5], 0, 0, 4), 1, wrong)
                    /\ ReadsBack(m[6], row.memloc, row.ans)
                    /\ wrong # 2)

LEMMA MemWriteIs ==
  ASSUME NEW row, NEW m0, NEW wrong
  PROVE  test_memory_write_functions(row, m0, wrong)
           = MemWriteSays(row, Run(m0, MemWriteOps(row)), wrong)
<1> DEFINE ms == Run(m0, MemWriteOps(row))
           Judge(m) == MemWriteSays(row, m, wrong)
<1>1. test_memory_write_functions(row, m0, wrong) = CHOOSE y \in {Judge(z) : z \in {ms}} : TRUE
  BY DEF test_memory_write_functions, Do, MemWriteSays
<1> HIDE DEF Judge, ms
<1>2. {Judge(z) : z \in {ms}} = {Judge(ms)}
  OBVIOUS
<1>3. (CHOOSE y \in {Judge(z) : z \in {ms}} : TRUE) = Judge(ms)
  BY <1>2
<1> QED BY <1>1, <1>3 DEF Judge, ms

LEMMA MemWriteGood ==
  ASSUME NEW row, NEW mem, NEW m0 \in Machine(mem), NEW wrong,
         Columns(row), row.type = "MemWrite", "row" \in Messages
  PROVE  GoodTest(test_memory_write_functions(row, m0, wrong), mem)
<1> DEFINE ms == Run(m0, MemWriteOps(row))
<1>1. ms[6] \in Machine(mem)
  <2>1. MemWriteOps(row) \in Seq(Operations) /\ Len(MemWriteOps(row)) = 6
    BY MemWriteOpsType, Zenon
  <2>2. 6 \in 1 .. Len(MemWriteOps(row))
    BY <2>1
  <2> QED BY <2>1, <2>2, RunTyped
<1>2. test_memory_write_functions(row, m0, wrong) = MemWriteSays(row, ms, wrong)
  BY MemWriteIs
<1> HIDE DEF ms
<1> QED BY <1>1, <1>2, TestedGood DEF MemWriteSays

(* What FilesAreSafe says of the driver itself.                               *)
DriverIsSafe ==
  /\ \A ins \in Helpers : Encode(ins) \in Word
  /\ {"<internal>", "MFHI", "MFLO"} \subseteq Names
  /\ {"internal", "row", "failing", "passing"} \subseteq Messages

LEMMA HelperWords ==
  ASSUME DriverIsSafe
  PROVE  /\ Encode(Addu(4, 5, 6)) \in Word /\ Encode(Addu(16, 17, 18)) \in Word
         /\ Encode(MoveFrom(\h10, 16)) \in Word /\ Encode(MoveFrom(\h12, 16)) \in Word
         /\ Encode(MoveFrom(\h12, 17)) \in Word
<1> DEFINE a == Addu(4, 5, 6)
           b == Addu(16, 17, 18)
           c == MoveFrom(\h10, 16)
           d == MoveFrom(\h12, 16)
           e == MoveFrom(\h12, 17)
<1>1. Helpers = {a, b, c, d, e}
  BY DEF Helpers
<1> HIDE DEF a, b, c, d, e
<1>2. /\ Encode(a) \in Word /\ Encode(b) \in Word /\ Encode(c) \in Word
      /\ Encode(d) \in Word /\ Encode(e) \in Word
  BY <1>1 DEF DriverIsSafe
<1> QED BY <1>2 DEF a, b, c, d, e

LEMMA MtMfOpsType ==
  ASSUME NEW row, Columns(row), row.type = "MTMF", DriverIsSafe
  PROVE  MtMfOps(row) \in Seq(Operations) /\ Len(MtMfOps(row)) = 5
<1> DEFINE o1 == Set(row.ins.s, row.ans)
           o2 == WriteInstr(0, row.ins)
           fn == IF MovesBack(row) = "MFHI" THEN \h10 ELSE \h12
           o4 == WriteInstr(4, MoveFrom(fn, 16))
<1>1. row.ins.s \in Reg /\ row.ans \in Word /\ Encode(row.ins) \in Word
  BY DEF Columns, Instr
<1>2. o1 \in Operations /\ o2 \in Operations
  BY <1>1, OperationTypes
<1>3. o4 \in Operations
  <2>1. Encode(MoveFrom(\h10, 16)) \in Word /\ Encode(MoveFrom(\h12, 16)) \in Word
    BY HelperWords
  <2>2. fn = \h10 \/ fn = \h12
    OBVIOUS
  <2> HIDE DEF fn
  <2>3. Encode(MoveFrom(fn, 16)) \in Word /\ 4 \in Int
    BY <2>1, <2>2
  <2> QED BY <2>3, OperationTypes
<1>4. MtMfOps(row) = << o1, o2, AStep, o4, AStep >>
  BY DEF MtMfOps
<1> HIDE DEF o1, o2, o4
<1> QED BY <1>2, <1>3, <1>4, OperationTypes

MtMfSays(row, m, wrong) ==
  IF row.exp_err # Success THEN Tested(m[3], SameError(m[3], row.exp_err, 1, wrong))
  ELSE IF ~compare_model(m[3], model_state(m[2], 0, 0, 4), 1, wrong)
  THEN Tested(m[3], FALSE)
  ELSE IF ~compare_model(m[5], model_state(m[3], 16, row.ans, 8), 2, wrong)
  THEN [m |-> m[5], calls |-> << End(0, "row") >> \o Helper(MovesBack(row), FALSE, "failing")]
  ELSE Tested(m[5], TRUE)

LEMMA MtMfIs ==
  ASSUME NEW row, NEW m0, NEW wrong
  PROVE  test_mtmf_functions(row, m0, wrong) = MtMfSays(row, Run(m0, MtMfOps(row)), wrong)
<1> DEFINE ms == Run(m0, MtMfOps(row))
           Judge(m) == MtMfSays(row, m, wrong)
<1>1. test_mtmf_functions(row, m0, wrong) = CHOOSE y \in {Judge(z) : z \in {ms}} : TRUE
  BY DEF test_mtmf_functions, Do, MtMfSays
<1> HIDE DEF Judge, ms
<1>2. {Judge(z) : z \in {ms}} = {Judge(ms)}
  OBVIOUS
<1>3. (CHOOSE y \in {Judge(z) : z \in {ms}} : TRUE) = Judge(ms)
  BY <1>2
<1> QED BY <1>1, <1>3 DEF Judge, ms

LEMMA MtMfGood ==
  ASSUME NEW row, NEW mem, NEW m0 \in Machine(mem), NEW wrong,
         Columns(row), row.type = "MTMF", DriverIsSafe
  PROVE  GoodTest(test_mtmf_functions(row, m0, wrong), mem)
<1> DEFINE ms == Run(m0, MtMfOps(row))
           back == MovesBack(row)
<1>1. ms[3] \in Machine(mem) /\ ms[5] \in Machine(mem)
  <2>1. MtMfOps(row) \in Seq(Operations) /\ 3 \in 1 .. Len(MtMfOps(row)) /\ 5 \in 1 .. Len(MtMfOps(row))
    BY MtMfOpsType
  <2> QED BY <2>1, RunTyped
<1>2. test_mtmf_functions(row, m0, wrong) = MtMfSays(row, ms, wrong)
  BY MtMfIs
<1>3. back \in Names /\ "failing" \in Messages /\ "row" \in Messages
  BY DEF DriverIsSafe, Columns, MovesBack
<1> HIDE DEF ms, back
<1>4. Alternate(<< End(0, "row") >> \o Helper(back, FALSE, "failing"), 1)
  BY <1>3, EndCloses, HelperCloses, Appended
<1>5. GoodTest([m |-> ms[5], calls |-> << End(0, "row") >> \o Helper(back, FALSE, "failing")], mem)
  BY <1>1, <1>4 DEF GoodTest
<1> QED BY <1>1, <1>2, <1>3, <1>5, TestedGood DEF MtMfSays, back

LEMMA BranchOpsType ==
  ASSUME NEW row, Columns(row), row.type = "Branch", DriverIsSafe
  PROVE  /\ BranchOps(row) \in Seq(Operations)
         /\ Len(BranchOps(row)) = IF row.format \notin BranchFormats THEN 0
                                  ELSE IF row.exp_err1 # Success THEN 6
                                  ELSE IF row.branch THEN 15 ELSE 11
<1> DEFINE dest == LinkDest(row)
           target == ExpectedTarget(row)
           p1 == If(row.format # "J", Set(row.ins.s, row.s_val))
           p2 == If(row.format = "I", Set(row.ins.t, row.t_val))
           p3 == If(row.link, Set(dest, 1))
           p4 == WriteInstr(row.loc, row.ins)
           p5 == If(row.loc % 4 = 0, PlaceAt(row.loc))
           placed == << p1, p2, p3, p4, p5 >>
           j3 == WriteInstr(Plus(row.loc, 4), Addu(4, 5, 6))
           jumpAndSlot == << Set(4, 3), Set(5, 2), j3, AStep, AStep >>
           t3 == WriteInstr(target, Addu(16, 17, 18))
           t5 == If(row.exp_err3 # Success, AStep)
           atTarget == << Set(16, 4), Set(17, 5), t3, AStep, t5 >>
           last == IF row.branch THEN atTarget ELSE << AStep >>
           more == IF row.exp_err1 # Success THEN << AStep >> ELSE jumpAndSlot \o last
           ops == placed \o more
<1>1. /\ row.ins.s \in Reg /\ row.ins.t \in Reg /\ row.ins.d \in Reg
      /\ row.s_val \in Word /\ row.t_val \in Word
      /\ row.loc \in Word /\ Encode(row.ins) \in Word
      /\ row.ins.i \in Half /\ row.ins.j \in Int
  BY DEF Columns, Instr
<1>2. row.loc \in Int /\ Plus(row.loc, 4) \in Int
  <2>1. row.loc \in Int
    BY <1>1, WordIsInt
  <2>2. Plus(row.loc, 4) \in Word
    BY <2>1, PlusType
  <2> QED BY <2>1, <2>2, WordIsInt
<1>3. target \in Int
  <2>1. row.s_val \in Int
    BY <1>1, WordIsInt
  <2>2. (Plus(0, 4) \div JumpRegion) * JumpRegion + 4 * row.ins.j \in Int
    <3>1. PICK w \in Nat \ {0} : WordSize = 256 * w
      BY WordMultiple
    <3>2. WordSize \div 16 = 16 * w
      BY <3>1
    <3>3. JumpRegion \in Nat \ {0}
      BY <3>2 DEF JumpRegion
    <3>4. Plus(0, 4) \in Int
      BY PlusType, WordIsInt
    <3> QED BY <1>1, <3>3, <3>4
  <2>3. ToWord(row.loc + 4 + 4 * SignExtendHalf(row.ins.i)) \in Int
    BY <1>1, <1>2, SignExtendType, ToWordType, WordIsInt
  <2> QED BY <2>1, <2>2, <2>3 DEF ExpectedTarget
<1>4. placed \in Seq(Operations) /\ Len(placed) = 5
  <2>1. dest \in Reg /\ 1 \in Word
    BY <1>1, SmallWords DEF Reg, LinkDest
  <2>2. Set(row.ins.s, row.s_val) \in Operations /\ Set(row.ins.t, row.t_val) \in Operations
    BY <1>1, OperationTypes
  <2>3. Set(dest, 1) \in Operations /\ PlaceAt(row.loc) \in Operations /\ p4 \in Operations
    BY <1>1, <1>2, <2>1, OperationTypes
  <2>4. p1 \in Operations /\ p2 \in Operations /\ p3 \in Operations /\ p5 \in Operations
    BY <2>2, <2>3, OperationTypes DEF If
  <2> HIDE DEF p1, p2, p3, p4, p5
  <2> QED BY <2>3, <2>4
<1>5. jumpAndSlot \in Seq(Operations) /\ atTarget \in Seq(Operations)
  <2>1. /\ 4 \in Reg /\ 5 \in Reg /\ 16 \in Reg /\ 17 \in Reg
        /\ 2 \in Word /\ 3 \in Word /\ 4 \in Word /\ 5 \in Word
    BY SmallWords DEF Reg
  <2>2. /\ Set(4, 3) \in Operations /\ Set(5, 2) \in Operations
        /\ Set(16, 4) \in Operations /\ Set(17, 5) \in Operations
    BY <2>1, OperationTypes
  <2>3. j3 \in Operations /\ t3 \in Operations /\ t5 \in Operations
    BY <1>2, <1>3, HelperWords, OperationTypes DEF If
  <2> HIDE DEF j3, t3, t5
  <2> QED BY <2>2, <2>3, OperationTypes
<1>6. /\ more \in Seq(Operations)
      /\ Len(more) = IF row.exp_err1 # Success THEN 1 ELSE IF row.branch THEN 10 ELSE 6
  <2>1. Len(jumpAndSlot) = 5 /\ Len(atTarget) = 5
    OBVIOUS
  <2>2. << AStep >> \in Seq(Operations) /\ Len(<< AStep >>) = 1
    BY OperationTypes
  <2> HIDE DEF jumpAndSlot, atTarget
  <2>3. last \in Seq(Operations) /\ Len(last) = IF row.branch THEN 5 ELSE 1
    <3>1. CASE row.branch
      <4>1. last = atTarget
        BY <3>1, Zenon
      <4> QED BY <1>5, <2>1, <3>1, <4>1
    <3>2. CASE ~row.branch
      <4>1. last = << AStep >>
        BY <3>2, Zenon
      <4> HIDE DEF last
      <4> QED BY <2>2, <3>2, <4>1
    <3> QED BY <3>1, <3>2
  <2> HIDE DEF last
  <2>4. CASE row.exp_err1 # Success
    BY <2>2, <2>4
  <2>5. CASE row.exp_err1 = Success
    <3>1. more = jumpAndSlot \o last
      BY <2>5
    <3>2. Len(more) = 5 + Len(last) /\ more \in Seq(Operations)
      <4>1. Len(jumpAndSlot) = 5 /\ jumpAndSlot \in Seq(Operations) /\ last \in Seq(Operations)
        BY <1>5, <2>1, <2>3
      <4>2. jumpAndSlot \o last \in Seq(Operations) /\ Len(jumpAndSlot \o last) = Len(jumpAndSlot) + Len(last)
        BY <4>1, ConcatProperties, Zenon
      <4> QED BY <3>1, <4>1, <4>2, Zenon
    <3> QED BY <2>3, <2>5, <3>2
  <2> QED BY <2>4, <2>5
<1>7. ops \in Seq(Operations) /\ Len(ops) = 5 + Len(more)
  <2> HIDE DEF placed, more
  <2>1. placed \in Seq(Operations) /\ Len(placed) = 5 /\ more \in Seq(Operations)
    BY <1>4, <1>6
  <2>2. placed \o more \in Seq(Operations) /\ Len(placed \o more) = Len(placed) + Len(more)
    BY <2>1, ConcatProperties, Zenon
  <2> QED BY <2>1, <2>2, Zenon
<1>8. BranchOps(row) = IF row.format \notin BranchFormats THEN << >> ELSE ops
  BY DEF BranchOps, PlacedOps, SlotOps, TargetOps
<1>9. << >> \in Seq(Operations) /\ Len(<< >>) = 0
  OBVIOUS
<1> HIDE DEF ops, more
<1>10. CASE row.format \in BranchFormats
  <2>1. BranchOps(row) = ops
    BY <1>8, <1>10
  <2> QED BY <1>6, <1>7, <1>10, <2>1
<1>11. CASE row.format \notin BranchFormats
  <2>1. BranchOps(row) = << >>
    BY <1>8, <1>11
  <2> QED BY <1>9, <1>11, <2>1
<1> QED BY <1>10, <1>11

BranchSays(row, m0, m, wrong) ==
  LET target == ExpectedTarget(row)
      link == IF row.link THEN Plus(row.loc, 8) ELSE 0
      Slot(pc) == compare_model(m[10], model_state(m[9], 6, 5, pc), 2, wrong)
  IN  IF row.format \notin BranchFormats THEN Tested(m0, FALSE)
      ELSE IF row.exp_err1 # Success THEN Tested(m[6], SameError(m[6], row.exp_err1, 1, wrong))
      ELSE IF ~compare_model(m[9], model_state(m[7], LinkDest(row), link, Plus(row.loc, 4)),
                             1, wrong)
      THEN Tested(m[9], FALSE)
      ELSE IF ~row.branch
      THEN Tested(m[11], /\ Slot(Plus(row.loc, 8))
                         /\ m[11].cpu.pc = Plus(row.loc, 12) /\ wrong # 3)
      ELSE IF ~Slot(target) THEN Tested(m[10], FALSE)
      ELSE IF row.exp_err3 # Success
      THEN Tested(m[15], SameError(m[15], row.exp_err3, 3, wrong))
      ELSE Tested(m[14],
             compare_model(m[14], model_state(m[13], 18, 9, Plus(target, 4)), 3, wrong))

LEMMA BranchIs ==
  ASSUME NEW row, NEW m0, NEW wrong
  PROVE  test_branch_functions(row, m0, wrong)
           = BranchSays(row, m0, Run(m0, BranchOps(row)), wrong)
<1> DEFINE ms == Run(m0, BranchOps(row))
           Judge(m) == BranchSays(row, m0, m, wrong)
<1>1. test_branch_functions(row, m0, wrong) = CHOOSE y \in {Judge(z) : z \in {ms}} : TRUE
  BY DEF test_branch_functions, Do, BranchSays
<1> HIDE DEF Judge, ms
<1>2. {Judge(z) : z \in {ms}} = {Judge(ms)}
  OBVIOUS
<1>3. (CHOOSE y \in {Judge(z) : z \in {ms}} : TRUE) = Judge(ms)
  BY <1>2
<1> QED BY <1>1, <1>3 DEF Judge, ms

LEMMA BranchGood ==
  ASSUME NEW row, NEW mem, NEW m0 \in Machine(mem), NEW wrong,
         Columns(row), row.type = "Branch", DriverIsSafe
  PROVE  GoodTest(test_branch_functions(row, m0, wrong), mem)
<1> DEFINE ops == BranchOps(row)
           ms == Run(m0, ops)
<1>1. row.format \in BranchFormats =>
        /\ ms[6] \in Machine(mem)
        /\ row.exp_err1 = Success =>
             ms[9] \in Machine(mem) /\ ms[10] \in Machine(mem) /\ ms[11] \in Machine(mem)
        /\ row.exp_err1 = Success /\ row.branch => ms[14] \in Machine(mem) /\ ms[15] \in Machine(mem)
  <2> SUFFICES ASSUME row.format \in BranchFormats
               PROVE  /\ ms[6] \in Machine(mem)
                      /\ row.exp_err1 = Success => /\ ms[9] \in Machine(mem)
                                                   /\ ms[10] \in Machine(mem)
                                                   /\ ms[11] \in Machine(mem)
                      /\ row.exp_err1 = Success /\ row.branch => /\ ms[14] \in Machine(mem)
                                                                 /\ ms[15] \in Machine(mem)
    OBVIOUS
  <2>1. /\ ops \in Seq(Operations)
        /\ Len(ops) = IF row.exp_err1 # Success THEN 6 ELSE IF row.branch THEN 15 ELSE 11
    BY BranchOpsType
  <2>2. \A k \in 1 .. Len(ops) : ms[k] \in Machine(mem)
    BY <2>1, RunTyped
  <2>3. /\ 6 \in 1 .. Len(ops)
        /\ row.exp_err1 = Success => {9, 10, 11} \subseteq 1 .. Len(ops)
        /\ row.exp_err1 = Success /\ row.branch => {14, 15} \subseteq 1 .. Len(ops)
    BY <2>1
  <2> HIDE DEF ms, ops
  <2> QED BY <2>2, <2>3
<1>2. test_branch_functions(row, m0, wrong) = BranchSays(row, m0, ms, wrong)
  BY BranchIs
<1>3. "row" \in Messages
  BY DEF DriverIsSafe
<1> HIDE DEF ms, ops
<1>4. CASE row.format \notin BranchFormats
  BY <1>2, <1>3, <1>4, TestedGood DEF BranchSays
<1>5. CASE row.format \in BranchFormats /\ row.exp_err1 # Success
  BY <1>1, <1>2, <1>3, <1>5, TestedGood DEF BranchSays
<1>6. CASE row.format \in BranchFormats /\ row.exp_err1 = Success /\ ~row.branch
  BY <1>1, <1>2, <1>3, <1>6, TestedGood DEF BranchSays
<1>7. CASE row.format \in BranchFormats /\ row.exp_err1 = Success /\ row.branch
  BY <1>1, <1>2, <1>3, <1>7, TestedGood DEF BranchSays
<1> QED BY <1>4, <1>5, <1>6, <1>7

----------------------------------------------------------------------------
(* MULT and DIV.  When the row's instruction is one and is meant to succeed,  *)
(* the first comparison finds what it looks for, or there is nothing left to  *)
(* compare: so the row's own test is ended once.                              *)

(* A machine on which nothing has been stepped since the reset.               *)
Fresh(m) ==
  m.cpu.pc = 0 /\ m.cpu.nPC = 4 /\ m.cpu.delay_slot = 0 /\ m.err = Success

LEMMA SetLeavesFresh ==
  ASSUME NEW mem, NEW m \in Machine(mem), Fresh(m), NEW r \in Reg, NEW v \in Word
  PROVE  Fresh(Perform(m, Set(r, v)))
<1>1. CASE r = 0
  <2>1. Perform(m, Set(r, v)) = m
    BY <1>1 DEF Perform, Set
  <2> QED BY <2>1
<1>2. CASE r # 0
  <2>1. Perform(m, Set(r, v)) = [m EXCEPT !.cpu = SetReg(m.cpu, r, v)]
    BY <1>2 DEF Perform, Set
  <2>2. m.cpu \in mips_cpu_impl
    BY MachineFields
  <2>3. /\ SetReg(m.cpu, r, v).pc = m.cpu.pc /\ SetReg(m.cpu, r, v).nPC = m.cpu.nPC
        /\ SetReg(m.cpu, r, v).delay_slot = m.cpu.delay_slot
    BY <2>2 DEF SetReg, mips_cpu_impl
  <2>4. /\ [m EXCEPT !.cpu = SetReg(m.cpu, r, v)].cpu = SetReg(m.cpu, r, v)
        /\ [m EXCEPT !.cpu = SetReg(m.cpu, r, v)].err = m.err
    BY DEF Machine
  <2> QED BY <2>1, <2>3, <2>4 DEF Fresh
<1> QED BY <1>1, <1>2

(* What is written at 0 is what a step at 0 fetches.                          *)
LEMMA WrittenIsFetched ==
  ASSUME NEW mem \in Handle, NEW m \in Machine(mem), mem # NULL, CbMem >= 4, NEW x \in Word
  PROVE  LET m2 == Perform(m, Write(0, ToBytes(x)))
         IN  /\ m2.cpu = m.cpu /\ m2.err = m.err
             /\ mips_mem_read_write(mem, CbMem, 0, 4) = Success
             /\ FromBytes(mips_mem_read(m2.data, 0, 4)) = x
<1>1. mips_mem_read_write(mem, CbMem, 0, 4) = Success
  <2>1. 0 \in Word /\ 4 \in Word
    BY SmallWords
  <2>2. 0 + 4 <= CbMem /\ 0 % 4 = 0 /\ 4 \in {1, 2, 4}
    BY RamAssumption
  <2> QED BY <2>1, <2>2, RamCheckExact
<1> DEFINE bytes == ToBytes(x)
           data2 == mips_mem_write(m.data, 0, 4, bytes)
<1>2. m.cpu.mem = mem /\ m.data \in RamData
  BY MachineFields
<1>3. Perform(m, Write(0, bytes)) = [m EXCEPT !.data = data2]
  <2> HIDE DEF bytes
  <2> QED BY <1>1, <1>2 DEF Perform, Write
<1>4. /\ [m EXCEPT !.data = data2].cpu = m.cpu /\ [m EXCEPT !.data = data2].err = m.err
      /\ [m EXCEPT !.data = data2].data = data2
  <2> HIDE DEF data2
  <2> QED BY DEF Machine
<1>5. \A k \in 0 .. 3 : data2[k] = bytes[k]
  <2>1. \A k \in 0 .. 3 : k \in RamAddress /\ k \in 0 .. 0 + 4 - 1 /\ k - 0 = k
    BY RamAssumption DEF RamAddress
  <2>2. DOMAIN m.data = RamAddress
    BY <1>2 DEF RamData
  <2> HIDE DEF bytes
  <2> QED BY <2>1, <2>2 DEF mips_mem_write
<1>6. mips_mem_read(data2, 0, 4) = bytes
  <2>1. mips_mem_read(data2, 0, 4) = [k \in 0 .. 3 |-> data2[k]]
    <3> HIDE DEF data2
    <3> QED BY DEF mips_mem_read
  <2>2. bytes = [k \in 0 .. 3 |-> bytes[k]]
    BY DEF ToBytes
  <2> HIDE DEF data2, bytes
  <2> QED BY <1>5, <2>1, <2>2
<1>7. FromBytes(bytes) = x
  <2>1. /\ bytes[0] = ByteOf(x, 3) /\ bytes[1] = ByteOf(x, 2)
        /\ bytes[2] = ByteOf(x, 1) /\ bytes[3] = ByteOf(x, 0)
    BY DEF ToBytes
  <2> HIDE DEF bytes
  <2> QED BY <2>1, JoinOfBytes DEF FromBytes
<1> HIDE DEF data2, bytes
<1>8. FromBytes(mips_mem_read(Perform(m, Write(0, bytes)).data, 0, 4)) = x
  BY <1>3, <1>4, <1>6, <1>7
<1> QED BY <1>1, <1>3, <1>4, <1>8 DEF bytes

LEMMA MultDivLeaves ==
  ASSUME NEW st \in mips_cpu_impl, NEW s \in Reg, NEW t \in Reg, NEW fn \in \h18 .. \h1b
  PROVE  LET r == mult_div(s, t, fn, st)
         IN  /\ r.err \in {Success, Killed}
             /\ r.state.regs = st.regs /\ r.state.nPC = st.nPC
             /\ r.state.delay_slot = st.delay_slot /\ r.state \in mips_cpu_impl
<1>1. ASSUME NEW hi, NEW lo
      PROVE  /\ SetHiLo(st, hi, lo).err = Success
             /\ SetHiLo(st, hi, lo).state.regs = st.regs
             /\ SetHiLo(st, hi, lo).state.nPC = st.nPC
             /\ SetHiLo(st, hi, lo).state.delay_slot = st.delay_slot
  BY DEF SetHiLo, Return, mips_cpu_impl
<1>2. ASSUME NEW e
      PROVE  Return(st, e).err = e /\ Return(st, e).state = st
  BY DEF Return
<1> DEFINE r == mult_div(s, t, fn, st)
<1>3. \/ r = Return(st, Success) \/ r = Return(st, Killed)
      \/ \E hi, lo : r = SetHiLo(st, hi, lo)
  <2>1. CASE fn \in {\h18, \h19}
    BY <2>1 DEF mult_div
  <2>2. CASE fn \in {\h1a, \h1b} /\ st.regs[t] = 0
    BY <2>2 DEF mult_div
  <2>3. CASE fn = \h1a /\ st.regs[t] # 0
    BY <2>3 DEF mult_div
  <2>4. CASE fn = \h1b /\ st.regs[t] # 0
    BY <2>4 DEF mult_div
  <2> QED BY <2>1, <2>2, <2>3, <2>4
<1>4. r.state \in mips_cpu_impl
  BY MultDivGood DEF GoodReturn, Kept
<1> HIDE DEF r
<1>5. /\ r.err \in {Success, Killed}
      /\ r.state.regs = st.regs /\ r.state.nPC = st.nPC /\ r.state.delay_slot = st.delay_slot
  BY <1>1, <1>2, <1>3
<1> QED BY <1>4, <1>5 DEF r

LEMMA KilledStays ==
  ASSUME NEW mem, NEW m \in Machine(mem), NEW o, m.err = Killed
  PROVE  Perform(m, o).err = Killed
<1>1. \A c : [m EXCEPT !.cpu = c].err = Killed
  BY DEF Machine
<1>2. \A d : [m EXCEPT !.data = d].err = Killed
  BY DEF Machine
<1>3. \/ Perform(m, o) = m
      \/ \E c : Perform(m, o) = [m EXCEPT !.cpu = c]
      \/ \E d : Perform(m, o) = [m EXCEPT !.data = d]
  <2>1. CASE o.op \in {"set", "pc"}
    BY <2>1 DEF Perform
  <2>2. CASE o.op \in {"write", "bytes"}
    BY <2>2 DEF Perform
  <2>3. CASE o.op \notin {"set", "pc", "write", "bytes"}
    <3>1. Step(m) = m
      BY Zenon DEF Step
    <3>2. Perform(m, o) = IF o.op = "step" THEN Step(m) ELSE m
      BY <2>3 DEF Perform
    <3> QED BY <3>1, <3>2
  <2> QED BY <2>1, <2>2, <2>3
<1> DEFINE m2 == Perform(m, o)
<1> HIDE DEF m2
<1>4. CASE m2 = m
  BY <1>4 DEF m2
<1>5. ASSUME NEW c, m2 = [m EXCEPT !.cpu = c] PROVE m2.err = Killed
  BY <1>1, <1>5, Zenon
<1>6. ASSUME NEW d, m2 = [m EXCEPT !.data = d] PROVE m2.err = Killed
  BY <1>2, <1>6, Zenon
<1> QED BY <1>3, <1>4, <1>5, <1>6, Zenon DEF m2

(* What EndsItsTests asks of a MULT or DIV row that is meant to succeed.      *)
Multiplies(ins) ==
  /\ ins \in Instr /\ Encode(ins) \in Word /\ Decode(Encode(ins)) = ins
  /\ ins.opcode = 0 /\ ins.fn \in \h18 .. \h1b /\ ins.d = 0 /\ ins.sh = 0

LEMMA ExecuteR ==
  ASSUME NEW st, NEW d, NEW ins, mips_mem_read_write(st.mem, CbMem, st.pc, 4) = Success,
         Decode(FromBytes(mips_mem_read(d, st.pc, 4))) = ins, ins.opcode = 0
  PROVE  Execute(st, d) = [state |-> cpu_execute_r(ins, st).state, data |-> d,
                           err |-> cpu_execute_r(ins, st).err]
<1> DEFINE With(r) == [state |-> r.state, data |-> d, err |-> r.err]
<1>1. Execute(st, d) =
      CASE ins.opcode \notin opcode_to_str -> With(Return(st, Killed))
        [] ins.opcode \in Unimplemented -> With(Return(st, NotImplemented))
        [] ins.opcode = \h0 -> With(cpu_execute_r(ins, st))
        [] ins.opcode = \h1 -> With(cpu_execute_rt(ins.s, ins.t, ins.i, st))
        [] ins.opcode \in \h2 .. \h3 -> With(cpu_execute_j(ins.j, ins.opcode, st))
        [] ins.opcode \in \h4 .. \hf ->
             With(cpu_execute_immediate(ins.s, ins.t, ins.i, ins.opcode, st))
        [] ins.opcode \in Loads \cup \h28 .. \h2b \cup {\h2e} ->
             cpu_memory_funcs(ins.opcode, ins.s, ins.t, SignExtendHalf(ins.i), st, d)
  BY DEF Execute
<1>2. /\ 0 \in opcode_to_str /\ 0 \notin Unimplemented /\ 0 \notin \h2 .. \h3
      /\ 0 \notin \h4 .. \hf /\ 0 \notin Loads \cup \h28 .. \h2b \cup {\h2e}
  BY DEF opcode_to_str, Unimplemented, Loads
<1> HIDE DEF With
<1>3. Execute(st, d) = With(cpu_execute_r(ins, st))
  BY <1>1, <1>2
<1> QED BY <1>3 DEF With

LEMMA MultDivStep ==
  ASSUME NEW mem \in Handle, NEW m \in Machine(mem), Fresh(m), mem # NULL, CbMem >= 4,
         NEW ins, Multiplies(ins)
  PROVE  LET m3 == Perform(m, WriteInstr(0, ins))
             m4 == Perform(m3, AStep)
         IN  m4.err = Killed \/ (m4.cpu.regs = m3.cpu.regs /\ m4.cpu.pc = 4)
<1> DEFINE w == WriteInstr(0, ins)
           m3 == Perform(m, w)
           o == Execute(m3.cpu, m3.data)
<1>1. /\ m3.cpu = m.cpu /\ m3.err = Success
      /\ mips_mem_read_write(mem, CbMem, 0, 4) = Success
      /\ Decode(FromBytes(mips_mem_read(m3.data, 0, 4))) = ins
  BY WrittenIsFetched DEF Multiplies, WriteInstr, Fresh
<1>2. /\ m.cpu \in mips_cpu_impl /\ m.cpu.mem = mem
      /\ m.cpu.pc = 0 /\ m.cpu.nPC = 4 /\ m.cpu.delay_slot = 0
  BY MachineFields DEF Fresh
<1> DEFINE st == m.cpu
           r == mult_div(ins.s, ins.t, ins.fn, st)
<1>3. /\ r.err \in {Success, Killed}
      /\ r.state.regs = st.regs /\ r.state.nPC = 4 /\ r.state.delay_slot = 0
      /\ r.state \in mips_cpu_impl
  <2>1. ins.s \in Reg /\ ins.t \in Reg /\ ins.fn \in \h18 .. \h1b
    BY DEF Multiplies, Instr
  <2> QED BY <1>2, <2>1, MultDivLeaves
<1>4. cpu_execute_r(ins, st) = r
  <2>1. ins.fn \in \h18 .. \h1b /\ ins.d = 0 /\ ins.sh = 0
    BY DEF Multiplies
  <2>2. ~Reserved(ins)
    BY <2>1 DEF Reserved
  <2> HIDE DEF r
  <2>3. /\ ~(ins.fn < \h8) /\ ins.fn # \h8 /\ ins.fn # \h9 /\ ins.fn \notin \h10 .. \h13
        /\ ins.fn \notin \h20 .. \h27 /\ ins.fn \notin \h2a .. \h2b
    BY <2>1
  <2>4. cpu_execute_r(ins, st) = mult_div(ins.s, ins.t, ins.fn, st)
    BY <2>1, <2>2, <2>3 DEF cpu_execute_r
  <2> QED BY <2>4 DEF r
<1>5. o = [state |-> r.state, data |-> m3.data, err |-> r.err]
  <2>1. ins.opcode = 0
    BY DEF Multiplies
  <2> HIDE DEF r, m3
  <2> QED BY <1>1, <1>2, <1>4, <2>1, ExecuteR
<1>6. Perform(m3, AStep) = Step(m3)
  BY DEF Perform, AStep
<1>7. Step(m3) = [cpu |-> StepState(o), data |-> o.data, err |-> o.err]
  <2>1. m3.err # Killed
    BY <1>1 DEF Success, Killed
  <2> HIDE DEF m3
  <2> QED BY <2>1, StepIs
<1> HIDE DEF m3, o, r
<1>8. CASE r.err = Killed
  BY <1>5, <1>6, <1>7, <1>8 DEF m3
<1>9. CASE r.err = Success
  <2>1. StepState(o) = mips_cpu_increment_pc(r.state)
    BY <1>5, <1>9 DEF StepState
  <2>2. StepState(o).regs = st.regs /\ StepState(o).pc = 4
    BY <1>3, <2>1, IncrementType
  <2> QED BY <1>1, <1>6, <1>7, <2>2 DEF m3
<1> QED BY <1>3, <1>8, <1>9

LEMMA MultDivOpsType ==
  ASSUME NEW row, Columns(row), row.type = "MultDiv", DriverIsSafe
  PROVE  MultDivOps(row) \in Seq(Operations) /\ Len(MultDivOps(row)) = 8
<1> DEFINE o1 == Set(row.ins.s, row.s_val)
           o2 == Set(row.ins.t, row.t_val)
           o3 == WriteInstr(0, row.ins)
           o5 == WriteInstr(4, MoveFrom(\h10, 16))
           o7 == WriteInstr(8, MoveFrom(\h12, 17))
<1>1. /\ row.ins.s \in Reg /\ row.ins.t \in Reg
      /\ row.s_val \in Word /\ row.t_val \in Word /\ Encode(row.ins) \in Word
  BY DEF Columns, Instr
<1>2. o1 \in Operations /\ o2 \in Operations
  BY <1>1, OperationTypes
<1>3. o3 \in Operations /\ o5 \in Operations /\ o7 \in Operations
  <2>1. 0 \in Int /\ 4 \in Int /\ 8 \in Int
    OBVIOUS
  <2> QED BY <1>1, <2>1, HelperWords, OperationTypes
<1>4. MultDivOps(row) = << o1, o2, o3, AStep, o5, AStep, o7, AStep >>
  BY DEF MultDivOps
<1> HIDE DEF o1, o2, o3, o5, o7
<1> QED BY <1>2, <1>3, <1>4, OperationTypes

Ok1(row, m, wrong) == compare_model(m[4], model_state(m[3], 0, 0, 4), 1, wrong)
Ok2(row, m, wrong) == compare_model(m[6], model_state(m[4], 16, row.hi, 8), 2, wrong)
Ok3(row, m, wrong) == compare_model(m[8], model_state(m[6], 17, row.lo, 12), 3, wrong)

(* The calls when the look at HI fails, and when it does not.                 *)
Ended(ok1) == IF ok1 THEN << >> ELSE << End(0, "row") >>
CallsFailing(ok1) == Ended(ok1) \o << End(0, "row") >> \o Helper("MFHI", FALSE, "failing")
CallsWorking(ok1, ok2, ok3) ==
  LET passed == ok1 /\ ok2 /\ ok3
  IN  Ended(ok1) \o << End(Verdict(passed), "row") >>
                 \o Helper("MFLO", passed, IF ok3 THEN "passing" ELSE "failing")
                 \o Helper("MFHI", passed, "passing")

MultDivSays(row, m, wrong) ==
  LET ok1 == Ok1(row, m, wrong)
      ok2 == Ok2(row, m, wrong)
      ok3 == Ok3(row, m, wrong)
  IN  IF row.exp_err # Success THEN Tested(m[4], SameError(m[4], row.exp_err, 1, wrong))
      ELSE IF ~ok2 THEN [m |-> m[6], calls |-> CallsFailing(ok1)]
      ELSE [m |-> m[8], calls |-> CallsWorking(ok1, ok2, ok3)]

LEMMA MultDivIs ==
  ASSUME NEW row, NEW m0, NEW wrong
  PROVE  test_multdiv_functions(row, m0, wrong) = MultDivSays(row, Run(m0, MultDivOps(row)), wrong)
<1> DEFINE ms == Run(m0, MultDivOps(row))
           Judge(m) == MultDivSays(row, m, wrong)
<1>1. test_multdiv_functions(row, m0, wrong) = CHOOSE y \in {Judge(z) : z \in {ms}} : TRUE
  BY DEF test_multdiv_functions, Do, MultDivSays, Ok1, Ok2, Ok3, Ended, CallsFailing, CallsWorking
<1> HIDE DEF Judge, ms
<1>2. {Judge(z) : z \in {ms}} = {Judge(ms)}
  OBVIOUS
<1>3. (CHOOSE y \in {Judge(z) : z \in {ms}} : TRUE) = Judge(ms)
  BY <1>2
<1> QED BY <1>1, <1>3 DEF Judge, ms

LEMMA CallsClose ==
  ASSUME DriverIsSafe, NEW ok2, NEW ok3
  PROVE  Alternate(CallsFailing(TRUE), 1) /\ Alternate(CallsWorking(TRUE, ok2, ok3), 1)
<1>1. /\ {"MFHI", "MFLO"} \subseteq Names
      /\ {"row", "failing", "passing"} \subseteq Messages
  BY DEF DriverIsSafe
<1> DEFINE p == TRUE /\ ok2 /\ ok3
           said == IF ok3 THEN "passing" ELSE "failing"
           e0 == << End(0, "row") >>
           e1 == << End(Verdict(p), "row") >>
           h0 == Helper("MFHI", FALSE, "failing")
           h1 == Helper("MFLO", p, said)
           h2 == Helper("MFHI", p, "passing")
<1>2. /\ CallsFailing(TRUE) = << >> \o e0 \o h0
      /\ CallsWorking(TRUE, ok2, ok3) = << >> \o e1 \o h1 \o h2
  BY DEF CallsFailing, CallsWorking, Ended
<1>3. said \in Messages
  BY <1>1
<1> HIDE DEF p, said
<1>4. Alternate(e0, 1) /\ Alternate(e1, 1)
  BY <1>1, EndCloses
<1>5. Alternate(h0, 0) /\ Alternate(h1, 0) /\ Alternate(h2, 0)
  BY <1>1, <1>3, HelperCloses
<1> HIDE DEF e0, e1, h0, h1, h2
<1>6. << >> \o e0 = e0 /\ << >> \o e1 = e1
  <2>1. e0 \in Seq(FrameworkCalls) /\ e1 \in Seq(FrameworkCalls)
    BY <1>4 DEF Alternate
  <2> QED BY <2>1, ConcatEmptySeq
<1>7. Alternate(e0 \o h0, 1) /\ Alternate(e1 \o h1, 1)
  BY <1>4, <1>5, Appended
<1>8. Alternate(e1 \o h1 \o h2, 1)
  BY <1>5, <1>7, Appended
<1> QED BY <1>2, <1>6, <1>7, <1>8

LEMMA MultDivRowGood ==
  ASSUME NEW row, NEW mem \in Handle, NEW m0 \in Machine(mem), Fresh(m0), NEW wrong,
         Columns(row), row.type = "MultDiv", DriverIsSafe,
         row.exp_err = Success => /\ Multiplies(row.ins) /\ wrong # 1
                                  /\ mem # NULL /\ CbMem >= 4
  PROVE  GoodTest(test_multdiv_functions(row, m0, wrong), mem)
<1> DEFINE ops == MultDivOps(row)
           ms == Run(m0, ops)
           ok1 == Ok1(row, ms, wrong)
           ok2 == Ok2(row, ms, wrong)
           ok3 == Ok3(row, ms, wrong)
<1>1. /\ ops \in Seq(Operations) /\ Len(ops) = 8
      /\ ops[1] = Set(row.ins.s, row.s_val) /\ ops[2] = Set(row.ins.t, row.t_val)
      /\ ops[3] = WriteInstr(0, row.ins) /\ ops[4] = AStep
  <2>1. ops \in Seq(Operations) /\ Len(ops) = 8
    BY MultDivOpsType
  <2>2. /\ ops[1] = Set(row.ins.s, row.s_val) /\ ops[2] = Set(row.ins.t, row.t_val)
        /\ ops[3] = WriteInstr(0, row.ins) /\ ops[4] = AStep
    <3> DEFINE o1 == Set(row.ins.s, row.s_val)
               o2 == Set(row.ins.t, row.t_val)
               o3 == WriteInstr(0, row.ins)
               o5 == WriteInstr(4, MoveFrom(\h10, 16))
               o7 == WriteInstr(8, MoveFrom(\h12, 17))
    <3>1. ops = << o1, o2, o3, AStep, o5, AStep, o7, AStep >>
      BY DEF MultDivOps
    <3> HIDE DEF ops, o1, o2, o3, o5, o7
    <3>2. ops[1] = o1 /\ ops[2] = o2 /\ ops[3] = o3 /\ ops[4] = AStep
      BY <3>1
    <3> QED BY <3>2 DEF o1, o2, o3
  <2> QED BY <2>1, <2>2
<1> HIDE DEF ops
<1>2. \A k \in 1 .. 8 : /\ ms[k] \in Machine(mem)
                        /\ ms[k] = Perform(IF k = 1 THEN m0 ELSE ms[k - 1], ops[k])
  <2>1. IsRun(ms, m0, ops, mem, 8)
    BY <1>1, RunMachines
  <2>2. \A k \in 1 .. 8 : ms[k] \in Machine(mem)
    BY <1>1, RunTyped
  <2> HIDE DEF ms
  <2>3. \A k \in 1 .. 8 : ms[k] = Perform(IF k = 1 THEN m0 ELSE ms[k - 1], ops[k])
    BY <2>1, Zenon DEF IsRun
  <2> QED BY <2>2, <2>3
<1>3. test_multdiv_functions(row, m0, wrong) = MultDivSays(row, ms, wrong)
  BY MultDivIs DEF ops
<1> HIDE DEF ms
<1>4. ASSUME row.exp_err = Success
      PROVE  ms[4].err = Killed \/ ok1
  <2>1. Fresh(ms[2])
    <3>1. row.ins.s \in Reg /\ row.ins.t \in Reg /\ row.s_val \in Word /\ row.t_val \in Word
      BY DEF Columns, Instr
    <3>2. /\ ms[1] = Perform(m0, Set(row.ins.s, row.s_val))
          /\ ms[2] = Perform(ms[1], Set(row.ins.t, row.t_val)) /\ ms[1] \in Machine(mem)
      BY <1>1, <1>2
    <3> QED BY <3>1, <3>2, SetLeavesFresh
  <2>2. /\ ms[3] = Perform(ms[2], WriteInstr(0, row.ins)) /\ ms[4] = Perform(ms[3], AStep)
        /\ ms[2] \in Machine(mem) /\ ms[3] \in Machine(mem)
    BY <1>1, <1>2
  <2>3. ms[4].err = Killed \/ (ms[4].cpu.regs = ms[3].cpu.regs /\ ms[4].cpu.pc = 4)
    BY <1>4, <2>1, <2>2, MultDivStep
  <2>4. [ms[3].cpu.regs EXCEPT ![0] = 0] = ms[3].cpu.regs
    <3>1. ms[3].cpu \in mips_cpu_impl /\ ms[3].cpu.regs[0] = 0
      BY <2>2, MachineFields
    <3> QED BY <3>1 DEF mips_cpu_impl
  <2> QED BY <1>4, <2>3, <2>4 DEF compare_model, model_state, Ok1
<1>5. ms[4].err = Killed => ms[6].err = Killed /\ ms[8].err = Killed
  <2>1. \A k \in 5 .. 8 : ms[k - 1].err = Killed => ms[k].err = Killed
    <3> SUFFICES ASSUME NEW k \in 5 .. 8, ms[k - 1].err = Killed PROVE ms[k].err = Killed
      OBVIOUS
    <3>1. ms[k - 1] \in Machine(mem) /\ ms[k] = Perform(ms[k - 1], ops[k])
      BY <1>2
    <3> QED BY <3>1, KilledStays
  <2> QED BY <2>1
<1>6. ok1 => Alternate(CallsFailing(ok1), 1) /\ Alternate(CallsWorking(ok1, ok2, ok3), 1)
  <2> SUFFICES ASSUME ok1
               PROVE  Alternate(CallsFailing(ok1), 1) /\ Alternate(CallsWorking(ok1, ok2, ok3), 1)
    OBVIOUS
  <2>1. ok1 = TRUE
    BY DEF Ok1, compare_model
  <2> HIDE DEF ok1, ok2, ok3
  <2> QED BY <2>1, CallsClose
<1>7. ms[4] \in Machine(mem) /\ ms[6] \in Machine(mem) /\ ms[8] \in Machine(mem)
  BY <1>2
<1>8. "row" \in Messages
  BY DEF DriverIsSafe
<1>9. CASE row.exp_err # Success
  BY <1>3, <1>7, <1>8, <1>9, TestedGood DEF MultDivSays
<1>10. CASE row.exp_err = Success
  <2> HIDE DEF ok1, ok2, ok3
  <2>1. GoodTest([m |-> ms[6], calls |-> CallsFailing(ok1)], mem)
    BY <1>4, <1>5, <1>6, <1>7, <1>10 DEF GoodTest
  <2>2. GoodTest([m |-> ms[8], calls |-> CallsWorking(ok1, ok2, ok3)], mem)
    BY <1>4, <1>5, <1>6, <1>7, <1>10 DEF GoodTest
  <2>3. MultDivSays(row, ms, wrong) = IF ~ok2 THEN [m |-> ms[6], calls |-> CallsFailing(ok1)]
                                      ELSE [m |-> ms[8], calls |-> CallsWorking(ok1, ok2, ok3)]
    BY <1>10 DEF MultDivSays, ok1, ok2, ok3
  <2> QED BY <1>3, <2>1, <2>2, <2>3
<1> QED BY <1>9, <1>10

----------------------------------------------------------------------------
(* A row of a file that the driver survives, on a CPU that was reset.         *)

LEMMA ResetFresh ==
  ASSUME NEW mem \in Handle, NEW m \in Machine(mem), m.err = Success
  PROVE  Reset(m) \in Machine(mem) /\ Fresh(Reset(m))
<1>1. m.cpu.mem = mem /\ m.data \in RamData
  BY MachineFields
<1>2. Reset(m) = [m EXCEPT !.cpu = Created(mem)]
  BY <1>1 DEF Reset
<1>3. Created(mem) \in mips_cpu_impl /\ Created(mem).mem = mem /\ Created(mem).regs[0] = 0
  BY CreatedType
<1>4. [m EXCEPT !.cpu = Created(mem)] \in Machine(mem)
  BY <1>3, MachineFields
<1>5. /\ [m EXCEPT !.cpu = Created(mem)].cpu = Created(mem)
      /\ [m EXCEPT !.cpu = Created(mem)].err = Success
  BY DEF Machine
<1>6. Created(mem).pc = 0 /\ Created(mem).nPC = 4 /\ Created(mem).delay_slot = 0
  BY DEF Created
<1> QED BY <1>2, <1>4, <1>5, <1>6 DEF Fresh

LEMMA RowGood ==
  ASSUME NEW row, NEW mem \in RamHandles, NEW m \in Machine(mem), m.err = Success,
         NEW wrong \in Faults(row), Columns(row), EndsItsTests(row), DriverIsSafe
  PROVE  GoodTest(run_row(row, BeforeRow(m), wrong), mem)
<1> DEFINE m0 == Reset(m)
<1>1. mem \in Handle
  BY DriverAssumption
<1>2. m0 \in Machine(mem) /\ Fresh(m0) /\ m0 = BeforeRow(m)
  BY <1>1, ResetFresh DEF BeforeRow
<1>3. "row" \in Messages
  BY DEF DriverIsSafe
<1> HIDE DEF m0
<1>4. CASE row.type = "Normal"
  <2>1. run_row(row, m0, wrong) = test_normal_functions(row, m0, wrong)
    BY <1>4 DEF run_row
  <2> QED BY <1>2, <1>3, <1>4, <2>1, NormalGood
<1>5. CASE row.type = "Branch"
  <2>1. run_row(row, m0, wrong) = test_branch_functions(row, m0, wrong)
    BY <1>5 DEF run_row
  <2> QED BY <1>2, <1>5, <2>1, BranchGood
<1>6. CASE row.type = "MemWrite"
  <2>1. run_row(row, m0, wrong) = test_memory_write_functions(row, m0, wrong)
    BY <1>6 DEF run_row
  <2> QED BY <1>2, <1>3, <1>6, <2>1, MemWriteGood
<1>7. CASE row.type = "MemRead"
  <2>1. run_row(row, m0, wrong) = test_memory_read_functions(row, m0, wrong)
    BY <1>7 DEF run_row
  <2> QED BY <1>2, <1>3, <1>7, <2>1, MemReadGood
<1>8. CASE row.type = "MTMF"
  <2>1. run_row(row, m0, wrong) = test_mtmf_functions(row, m0, wrong)
    BY <1>8 DEF run_row
  <2> QED BY <1>2, <1>8, <2>1, MtMfGood
<1>9. CASE row.type = "MultDiv"
  <2>1. run_row(row, m0, wrong) = test_multdiv_functions(row, m0, wrong)
    BY <1>9 DEF run_row
  <2>2. row.exp_err = Success => /\ Multiplies(row.ins) /\ wrong # 1
                                 /\ mem # NULL /\ CbMem >= 4
    BY <1>9 DEF EndsItsTests, Columns, Multiplies
  <2> QED BY <1>1, <1>2, <1>9, <2>1, <2>2, MultDivRowGood
<1> QED BY <1>4, <1>5, <1>6, <1>7, <1>8, <1>9 DEF EndsItsTests

(* An internal test leaves a machine too.                                     *)
LEMMA InternalGood ==
  ASSUME NEW mem \in Handle, NEW m \in Machine(mem), NEW n \in 0 .. 3
  PROVE  internal_test(n, m).m \in Machine(mem)
<1> DEFINE regs == IF n = 0 THEN Counting(m).cpu.regs ELSE [m.cpu.regs EXCEPT ![0] = 0]
           pc == CASE n = 2 -> 16 [] n = 3 -> 4 [] OTHER -> 0
           Left(stepped) ==
             CASE n = 0 -> Counting(m)
               [] n = 1 -> Reset(stepped)
               [] n = 2 -> [m EXCEPT !.cpu = PlacePc(@, 16)]
               [] n = 3 -> stepped
           Judge(stepped) ==
             [m |-> Left(stepped), killed |-> stepped.err = Killed /\ n \in {1, 3},
              ok |-> compare_model(Left(stepped), [regs |-> regs, pc |-> pc], 1, 0)]
           s == Step(m)
<1>1. internal_test(n, m) = CHOOSE y \in {Judge(z) : z \in {s}} : TRUE
  BY DEF internal_test, Do
<1>2. s \in Machine(mem)
  BY StepType
<1>3. Left(s) \in Machine(mem)
  <2>1. Counting(m) \in Machine(mem)
    <3> DEFINE counted == [r \in Reg |-> IF r = 0 THEN 0 ELSE r + 1]
    <3>1. counted \in [Reg -> Word] /\ counted[0] = 0
      BY SmallWords DEF Reg
    <3>2. m.cpu \in mips_cpu_impl /\ m.cpu.mem = mem
      BY MachineFields
    <3> HIDE DEF counted
    <3>3. /\ [m.cpu EXCEPT !.regs = counted] \in mips_cpu_impl
          /\ [m.cpu EXCEPT !.regs = counted].mem = mem
          /\ [m.cpu EXCEPT !.regs = counted].regs[0] = 0
      BY <3>1, <3>2 DEF mips_cpu_impl
    <3>4. [m EXCEPT !.cpu = [m.cpu EXCEPT !.regs = counted]] \in Machine(mem)
      BY <3>3, MachineFields
    <3>5. Counting(m) = [m EXCEPT !.cpu = [m.cpu EXCEPT !.regs = counted]]
      BY DEF Counting, counted
    <3> QED BY <3>4, <3>5
  <2>2. Reset(s) \in Machine(mem)
    <3>1. s.cpu.mem = mem
      BY <1>2, MachineFields
    <3>2. [s EXCEPT !.cpu = Created(mem)] \in Machine(mem)
      BY <1>2, CreatedType, MachineFields
    <3> HIDE DEF s
    <3> QED BY <3>1, <3>2 DEF Reset
  <2>3. [m EXCEPT !.cpu = PlacePc(m.cpu, 16)] \in Machine(mem)
    <3>1. 16 \in Word
      BY SmallWords
    <3>2. PlaceAt(16) \in Operations
      BY <3>1, OperationTypes
    <3>3. Perform(m, PlaceAt(16)) = [m EXCEPT !.cpu = PlacePc(m.cpu, 16)]
      BY DEF Perform, PlaceAt
    <3> QED BY <3>2, <3>3, PerformType
  <2> HIDE DEF s
  <2> QED BY <1>2, <2>1, <2>2, <2>3
<1>4. Judge(s).m = Left(s)
  <2> HIDE DEF Left, s
  <2> QED OBVIOUS
<1> HIDE DEF Judge, s
<1>5. {Judge(z) : z \in {s}} = {Judge(s)}
  OBVIOUS
<1>6. internal_test(n, m) = Judge(s)
  BY <1>1, <1>5
<1> HIDE DEF Left
<1> QED BY <1>3, <1>4, <1>6

----------------------------------------------------------------------------
(* The invariant.  Between the framework and the driver stands calls: what    *)
(* is left of it fits what the framework has been told so far.                *)
DriverInv ==
  /\ process = "running"
  /\ sg_tests \in Seq(F!test_info_t)
  /\ cpu.mem \in RamHandles /\ Here \in Machine(cpu.mem)
  /\ spec \in Files
  /\ stage = "suite" => ~sg_started /\ sg_tests = << >> /\ calls = << >>
  /\ stage # "suite" => sg_started
  /\ stage \notin {"suite", "create"} => sg_tests # << >>
  /\ stage = "internal" => i \in 0 .. 3
  /\ stage = "rows" => i \in Nat \ {0}
  /\ stage = "killed" => calls = << >>
  /\ stage # "killed" => Alternate(calls, IF F!Unfinished THEN 1 ELSE 0)
  /\ F!Unfinished => F!back.testId = testId
  /\ testId \in 0 .. MaxTests

(* What a test leaves to the framework does not open a test of its own.       *)
LEMMA OpenTest ==
  ASSUME NEW name \in Names, sg_tests \in Seq(F!test_info_t),
         sg_tests' = Append(sg_tests, F!NewTest(name))
  PROVE  /\ sg_tests' \in Seq(F!test_info_t) /\ sg_tests' # << >>
         /\ F!Unfinished' /\ F!back'.testId = Len(sg_tests)
<1> DEFINE new == F!NewTest(name)
<1>1. new \in F!test_info_t /\ new.status = -1 /\ new.testId = Len(sg_tests)
  BY DEF F!NewTest, F!test_info_t, F!Instructions
<1> HIDE DEF new
<1>2. /\ sg_tests' \in Seq(F!test_info_t) /\ Len(sg_tests') = Len(sg_tests) + 1
      /\ Len(sg_tests) \in Nat /\ sg_tests'[Len(sg_tests) + 1] = new
  BY <1>1 DEF new
<1> QED BY <1>1, <1>2 DEF F!Unfinished, F!back

LEMMA BeginTest ==
  ASSUME DriverInv, stage \notin {"suite", "killed"}, calls = << >>,
         NEW name, F!mips_test_begin_test(name)
  PROVE  /\ process' = "running" /\ sg_started'
         /\ sg_tests' = Append(sg_tests, F!NewTest(name))
         /\ Len(sg_tests) \in 0 .. MaxTests
<1>1. ~F!Unfinished
  BY DEF DriverInv, Alternate
<1>2. sg_started
  BY DEF DriverInv
<1>3. Len(sg_tests) \in Nat /\ MaxTests \in Nat
  BY FrameworkAssumption DEF DriverInv, F!NamesAssumption
<1>4. /\ process' = process /\ sg_started' = sg_started
      /\ sg_tests' = Append(sg_tests, F!NewTest(name)) /\ Len(sg_tests) < MaxTests
  BY <1>1, <1>2 DEF F!mips_test_begin_test
<1>5. Len(sg_tests) \in 0 .. MaxTests
  BY <1>3, <1>4
<1> QED BY <1>2, <1>4, <1>5 DEF DriverInv

LEMMA RunTestGood ==
  ASSUME DriverInv, stage \notin {"suite", "killed"}, calls = << >>,
         NEW name \in Names, NEW m \in Machine(cpu.mem), NEW ends,
         m.err = Killed \/ Alternate(ends, 1),
         NEW s, s \notin {"suite", "create", "killed"}, NEW n,
         s = "internal" => n \in 0 .. 3, s = "rows" => n \in Nat \ {0},
         RunTest(name, m, ends, s, n), spec' = spec
  PROVE  DriverInv'
<1>1. /\ process' = "running" /\ sg_started'
      /\ sg_tests' = Append(sg_tests, F!NewTest(name))
      /\ Len(sg_tests) \in 0 .. MaxTests
  BY BeginTest DEF RunTest
<1>2. /\ sg_tests' \in Seq(F!test_info_t) /\ sg_tests' # << >>
      /\ F!Unfinished' /\ F!back'.testId = Len(sg_tests)
  BY <1>1, OpenTest DEF DriverInv
<1>3. /\ testId' = Len(sg_tests) /\ cpu' = m.cpu /\ data' = m.data
      /\ calls' = IF m.err = Killed THEN << >> ELSE ends
      /\ stage' = (IF m.err = Killed THEN "killed" ELSE s) /\ i' = n
  BY <1>1 DEF RunTest, Goto
<1>4. cpu'.mem \in RamHandles /\ Here' \in Machine(cpu'.mem)
  <2>1. m.cpu.mem = cpu.mem
    BY MachineFields
  <2>2. [cpu |-> m.cpu, data |-> m.data, err |-> Success] \in Machine(cpu.mem)
    BY DEF Machine, Outcomes, mips_error
  <2> QED BY <1>3, <2>1, <2>2 DEF Here, DriverInv
<1>5. spec' \in Files
  BY DEF DriverInv
<1>6. CASE m.err = Killed
  <2>1. stage' = "killed" /\ calls' = << >>
    BY <1>3, <1>6
  <2> QED BY <1>1, <1>2, <1>3, <1>4, <1>5, <2>1 DEF DriverInv
<1>7. CASE m.err # Killed
  <2>1. stage' = s /\ Alternate(calls', 1)
    BY <1>3, <1>7
  <2> QED BY <1>1, <1>2, <1>3, <1>4, <1>5, <2>1 DEF DriverInv
<1> QED BY <1>6, <1>7

(* main goes on without the framework and the machine.                        *)
LEMMA GoOn ==
  ASSUME DriverInv, stage \notin {"suite", "create", "killed"}, calls = << >>,
         UNCHANGED framework, UNCHANGED << cpu, data, spec, testId, calls >>,
         stage' \notin {"suite", "create", "internal", "killed"},
         stage' = "rows" => i' \in Nat \ {0}
  PROVE  DriverInv'
<1>1. F!Unfinished' = F!Unfinished /\ F!back' = F!back /\ Here' = Here
  BY DEF framework, F!Unfinished, F!back, Here
<1> QED BY <1>1 DEF DriverInv, framework

LEMMA PassedCloses ==
  ASSUME DriverIsSafe, NEW ok
  PROVE  Alternate(Passed(ok), 1)
<1>1. "internal" \in Messages
  BY DEF DriverIsSafe
<1> QED BY <1>1, EndCloses DEF Passed

----------------------------------------------------------------------------
(* The initial states and the steps.                                          *)

LEMMA InitGood == ASSUME Init PROVE DriverInv
<1>1. PICK mem \in RamHandles : cpu = Created(mem)
  BY DEF Init
<1>2. mem \in Handle
  BY DriverAssumption
<1>3. Created(mem) \in mips_cpu_impl /\ Created(mem).mem = mem /\ Created(mem).regs[0] = 0
  BY <1>2, CreatedType
<1>4. data \in RamData
  BY DriverAssumption DEF Init
<1>5. cpu.mem \in RamHandles /\ Here \in Machine(cpu.mem)
  BY <1>1, <1>3, <1>4 DEF Here, Machine, Outcomes, mips_error
<1>6. process = "running" /\ ~sg_started /\ sg_tests = << >>
  BY DEF Init, F!Init
<1>7. ~F!Unfinished
  BY <1>6 DEF F!Unfinished
<1>8. sg_tests \in Seq(F!test_info_t)
  BY <1>6
<1>9. calls = << >> /\ stage = "suite" /\ spec \in Files
  BY DEF Init
<1>10. testId \in 0 .. MaxTests
  BY FrameworkAssumption DEF Init, F!NamesAssumption
<1> QED BY <1>5, <1>6, <1>7, <1>8, <1>9, <1>10, NothingToTell DEF DriverInv

LEMMA BeginSuiteGood == ASSUME DriverInv, BeginSuite PROVE DriverInv'
<1>1. /\ stage = "suite" /\ stage' = "create" /\ calls = << >> /\ calls' = calls
      /\ UNCHANGED << cpu, data, spec, testId >>
  BY DEF BeginSuite, At, Goto
<1>2. ~sg_started /\ sg_tests = << >>
  BY <1>1 DEF DriverInv
<1>3. sg_started' /\ process' = process /\ sg_tests' = sg_tests
  BY <1>2 DEF BeginSuite, F!mips_test_begin_suite
<1>4. ~F!Unfinished'
  BY <1>2, <1>3 DEF F!Unfinished
<1>5. Here' = Here
  BY <1>1 DEF Here
<1> QED BY <1>1, <1>3, <1>4, <1>5, NothingToTell DEF DriverInv

LEMMA CreateTestGood == ASSUME DriverInv, DriverIsSafe, CreateTest PROVE DriverInv'
<1> DEFINE ok == compare_model(Here, model_state(Here, 0, 0, 0), 1, 0)
<1>1. /\ stage = "create" /\ calls = << >> /\ spec' = spec
      /\ RunTest("<internal>", Here, Passed(ok), "internal", 0)
  BY DEF CreateTest, At
<1>2. Here \in Machine(cpu.mem) /\ "<internal>" \in Names
  BY DEF DriverInv, DriverIsSafe
<1> HIDE DEF ok
<1>3. Alternate(Passed(ok), 1)
  BY PassedCloses
<1> QED BY <1>1, <1>2, <1>3, RunTestGood

LEMMA InternalTestsGood == ASSUME DriverInv, DriverIsSafe, internal_tests PROVE DriverInv'
<1>1. /\ stage = "internal" /\ calls = << >> /\ spec' = spec
  BY DEF internal_tests, At
<1> DEFINE t == internal_test(i, Here)
           m == IF t.killed THEN [t.m EXCEPT !.err = Killed]
                ELSE [AfterInternal(t.m) EXCEPT !.err = Success]
           s == IF i = 3 THEN "parse" ELSE "internal"
<1>2. RunTest("<internal>", m, Passed(t.ok), s, i + 1)
  BY DEF internal_tests
<1>3. i \in 0 .. 3 /\ Here \in Machine(cpu.mem) /\ cpu.mem \in Handle
  BY <1>1, DriverAssumption DEF DriverInv
<1>4. t.m \in Machine(cpu.mem)
  BY <1>3, InternalGood
<1>5. m \in Machine(cpu.mem)
  <2> HIDE DEF t
  <2>1. \A z \in Machine(cpu.mem), e \in Outcomes : [z EXCEPT !.err = e] \in Machine(cpu.mem)
    BY DEF Machine
  <2>2. Killed \in Outcomes /\ Success \in Outcomes
    BY DEF Outcomes, mips_error
  <2>3. AfterInternal(t.m) \in Machine(cpu.mem)
    <3>1. t.m.cpu.mem = cpu.mem
      BY <1>4, MachineFields
    <3>2. [t.m EXCEPT !.cpu = Created(cpu.mem)] \in Machine(cpu.mem)
      BY <1>3, <1>4, CreatedType, MachineFields
    <3> QED BY <3>1, <3>2 DEF AfterInternal, Reset
  <2> QED BY <1>4, <2>1, <2>2, <2>3
<1>6. "<internal>" \in Names /\ Alternate(Passed(t.ok), 1)
  BY PassedCloses DEF DriverIsSafe
<1>7. /\ s \notin {"suite", "create", "killed", "rows"}
      /\ s = "internal" => i + 1 \in 0 .. 3
  BY <1>3
<1> HIDE DEF t, m, s
<1> QED BY <1>1, <1>2, <1>5, <1>6, <1>7, RunTestGood

LEMMA ReadingGood ==
  ASSUME DriverInv, parse_test_spec \/ SkipHeader \/ EndOfSpec
  PROVE  DriverInv'
<1>1. CASE parse_test_spec
  BY <1>1, GoOn DEF parse_test_spec, At, Goto
<1>2. CASE SkipHeader
  <2>1. stage = "rows" /\ i \in Nat \ {0}
    BY <1>2 DEF SkipHeader, At, DriverInv
  <2> QED BY <1>2, <2>1, GoOn DEF SkipHeader, At, Goto, AfterHeader
<1>3. CASE EndOfSpec
  BY <1>3, GoOn DEF EndOfSpec, At, Goto
<1> QED BY <1>1, <1>2, <1>3

LEMMA RunSpecGood == ASSUME DriverInv, FilesAreSafe, run_spec PROVE DriverInv'
<1>1. /\ stage = "rows" /\ calls = << >> /\ spec' = spec
      /\ i <= Len(spec) /\ spec[i].kind = "row"
  BY DEF run_spec, At
<1>2. i \in Nat \ {0} /\ spec \in Files /\ Here \in Machine(cpu.mem) /\ cpu.mem \in RamHandles
  BY <1>1 DEF DriverInv
<1> DEFINE row == spec[i]
<1>3. Columns(row) /\ EndsItsTests(row) /\ DriverIsSafe
  <2>1. Len(spec) \in Nat
        /\ \A k \in 1 .. Len(spec) : spec[k].kind = "row" => Columns(spec[k]) /\ EndsItsTests(spec[k])
    BY <1>2 DEF FilesAreSafe
  <2>2. i \in 1 .. Len(spec)
    BY <1>1, <1>2, <2>1
  <2>3. DriverIsSafe
    BY DEF FilesAreSafe, DriverIsSafe
  <2> QED BY <1>1, <2>1, <2>2, <2>3
<1>4. PICK wrong \in Faults(row) :
        \E r \in {run_row(row, BeforeRow(Here), wrong)} :
          RunTest(row.func, r.m, r.calls, "rows", i + 1)
  BY DEF run_spec
<1> HIDE DEF row
<1> DEFINE r == run_row(row, BeforeRow(Here), wrong)
<1>5. RunTest(row.func, r.m, r.calls, "rows", i + 1)
  BY <1>4
<1>6. GoodTest(r, cpu.mem)
  <2>1. Here.err = Success
    BY DEF Here
  <2> QED BY <1>2, <1>3, <2>1, RowGood
<1>7. row.func \in Names /\ i + 1 \in Nat \ {0}
  BY <1>2, <1>3 DEF Columns
<1> HIDE DEF r
<1> QED BY <1>1, <1>5, <1>6, <1>7, RunTestGood DEF GoodTest

LEMMA CallGood == ASSUME DriverInv, Call PROVE DriverInv'
<1> DEFINE c == Head(calls)
           p == IF F!Unfinished THEN 1 ELSE 0
<1>1. /\ process = "running" /\ calls # << >> /\ calls' = Tail(calls)
      /\ UNCHANGED << cpu, data, stage, i, spec >>
  BY DEF Call
<1>2. stage \notin {"suite", "killed"} /\ sg_started /\ Alternate(calls, p)
  BY <1>1 DEF DriverInv
<1>3. /\ c \in FrameworkCalls /\ c.fn = (IF p = 1 THEN "end" ELSE "begin")
      /\ Alternate(calls', 1 - p)
  <2>1. p \in {0, 1}
    OBVIOUS
  <2> HIDE DEF p
  <2> QED BY <1>1, <1>2, <2>1, NextCall
<1>4. Here' = Here /\ cpu' = cpu
  BY <1>1 DEF Here
<1>5. sg_tests \in Seq(F!test_info_t)
  BY DEF DriverInv
<1>6. CASE F!Unfinished
  <2>1. F!mips_test_end_test(testId, c.passed, c.msg) /\ testId' = testId
    BY <1>3, <1>6 DEF Call
  <2>2. c.passed \in {0, 1} /\ c.msg \in Messages
    BY <1>3, <1>6 DEF FrameworkCalls
  <2>3. F!back.testId = testId
    BY <1>6 DEF DriverInv
  <2> DEFINE n == Len(sg_tests)
             new == F!Finished(c.passed, c.msg)
  <2>4. /\ sg_tests' = [sg_tests EXCEPT ![n] = new]
        /\ process' = process /\ sg_started' = sg_started
    BY <1>2, <1>6, <2>1, <2>3 DEF F!mips_test_end_test
  <2>5. n \in Nat /\ n > 0 /\ sg_tests[n] \in F!test_info_t
    BY <1>5, <1>6 DEF F!Unfinished
  <2>6. new \in F!test_info_t /\ new.status # -1
    <3> DEFINE last == sg_tests[n]
               status == IF c.passed = 0 THEN 0 ELSE 1
               message == IF c.msg = F!NoMessage THEN last.message ELSE c.msg
    <3>1. new = [last EXCEPT !.status = status, !.message = message]
      BY DEF F!Finished, F!back
    <3>2. last \in F!test_info_t
      BY <2>5
    <3>3. status \in {0, 1} /\ message \in Messages \cup {F!NoMessage}
      BY <2>2, <3>2 DEF F!test_info_t
    <3> DEFINE finished == [last EXCEPT !.status = status, !.message = message]
    <3> HIDE DEF last, status, message, new
    <3>4. finished \in F!test_info_t
      BY <3>2, <3>3 DEF F!test_info_t
    <3>5. finished.status = status
      BY <3>2 DEF F!test_info_t
    <3> QED BY <3>1, <3>3, <3>4, <3>5
  <2> HIDE DEF new
  <2>7. sg_tests' \in Seq(F!test_info_t) /\ Len(sg_tests') = n /\ sg_tests'[n] = new
    BY <1>5, <2>4, <2>5, <2>6
  <2>8. ~F!Unfinished' /\ sg_tests' # << >>
    BY <2>5, <2>6, <2>7 DEF F!Unfinished, F!back
  <2> QED BY <1>1, <1>2, <1>3, <1>4, <1>6, <2>1, <2>4, <2>7, <2>8 DEF DriverInv
<1>7. CASE ~F!Unfinished
  <2>1. F!mips_test_begin_test(c.name) /\ testId' = Len(sg_tests)
    BY <1>3, <1>7 DEF Call
  <2>2. c.name \in Names
    BY <1>3, <1>7 DEF FrameworkCalls
  <2>3. /\ process' = process /\ sg_started' = sg_started
        /\ sg_tests' = Append(sg_tests, F!NewTest(c.name)) /\ Len(sg_tests) < MaxTests
    BY <1>1, <1>2, <1>7, <2>1 DEF F!mips_test_begin_test
  <2>4. /\ sg_tests' \in Seq(F!test_info_t) /\ sg_tests' # << >>
        /\ F!Unfinished' /\ F!back'.testId = Len(sg_tests)
    BY <1>5, <2>2, <2>3, OpenTest
  <2>5. testId' \in 0 .. MaxTests
    <3>1. Len(sg_tests) \in Nat /\ MaxTests \in Nat
      BY <1>5, FrameworkAssumption DEF F!NamesAssumption
    <3> QED BY <2>1, <2>3, <3>1
  <2> QED BY <1>1, <1>2, <1>3, <1>4, <1>7, <2>1, <2>3, <2>4, <2>5 DEF DriverInv
<1> QED BY <1>6, <1>7

LEMMA InvalidHandleGood ==
  ASSUME DriverInv, DriverIsSafe, test_invalid_handle PROVE DriverInv'
<1> DEFINE s == IF i = 6 THEN "end" ELSE "handles"
           ok == Answer(NULL) = InvalidHandle
<1>1. /\ stage = "handles" /\ calls = << >> /\ spec' = spec
      /\ RunTest("<internal>", Here, Passed(ok), s, i + 1)
  BY DEF test_invalid_handle, At
<1>2. Here \in Machine(cpu.mem) /\ "<internal>" \in Names
  BY DEF DriverInv, DriverIsSafe
<1>3. Alternate(Passed(ok), 1)
  BY PassedCloses
<1>4. s \notin {"suite", "create", "killed", "internal", "rows"}
  OBVIOUS
<1> HIDE DEF s, ok
<1> QED BY <1>1, <1>2, <1>3, <1>4, RunTestGood

LEMMA EndSuiteGood == ASSUME DriverInv, EndSuite PROVE DriverInv'
<1>1. /\ stage = "end" /\ stage' = "returned" /\ calls = << >>
      /\ UNCHANGED << cpu, data, spec, testId, calls >>
  BY DEF EndSuite, At, Goto
<1>2. sg_started /\ sg_tests # << >> /\ sg_tests \in Seq(F!test_info_t)
  BY <1>1 DEF DriverInv
<1>3. ~F!Unfinished
  BY <1>1 DEF DriverInv, Alternate
<1>4. Len(sg_tests) > 0
  BY <1>2
<1>5. UNCHANGED << process, sg_started, sg_tests >>
  BY <1>2, <1>3, <1>4 DEF EndSuite, F!mips_test_end_suite
<1>6. F!Unfinished' = F!Unfinished /\ F!back' = F!back /\ Here' = Here
  BY <1>1, <1>5 DEF F!Unfinished, F!back, Here
<1> QED BY <1>1, <1>5, <1>6 DEF DriverInv

LEMMA NextGood == ASSUME DriverInv, FilesAreSafe, [Next]_vars PROVE DriverInv'
<1>1. DriverIsSafe
  BY DEF FilesAreSafe, DriverIsSafe
<1>2. CASE Next
  BY <1>1, <1>2, BeginSuiteGood, CreateTestGood, InternalTestsGood, ReadingGood, RunSpecGood,
     CallGood, InvalidHandleGood, EndSuiteGood DEF Next
<1>3. CASE UNCHANGED vars
  <2>1. F!Unfinished' = F!Unfinished /\ F!back' = F!back /\ Here' = Here
    BY <1>3 DEF vars, F!Unfinished, F!back, Here
  <2> QED BY <1>3, <2>1 DEF DriverInv, vars
<1> QED BY <1>2, <1>3

(* Whatever the CPU under test does and however the comparisons come out, the *)
(* driver keeps the framework's protocol on every file whose rows have their  *)
(* columns and whose MULT and DIV rows are what they say: exit(1) is never    *)
(* reached from main, and between two tests none is left open.                *)
THEOREM ProtocolKept == ASSUME FilesAreSafe PROVE Spec => []KeepsProtocol
<1>1. Init => DriverInv
  BY InitGood
<1>2. DriverInv /\ [Next]_vars => DriverInv'
  BY NextGood
<1>3. DriverInv => KeepsProtocol
  BY DEF DriverInv, KeepsProtocol, Alternate
<1> QED BY <1>1, <1>2, <1>3, PTL DEF Spec

----------------------------------------------------------------------------
(* Seen from the framework the driver is a client like any other, so what     *)
(* holds of the framework whatever its client does holds in the driver.       *)

LEMMA ClientCalls ==
  ASSUME DriverInv, FilesAreSafe, Next
  PROVE  F!Next \/ UNCHANGED F!vars
<1>1. DriverIsSafe
  BY DEF FilesAreSafe, DriverIsSafe
<1>2. ASSUME NEW name \in Names, F!mips_test_begin_test(name) PROVE F!Next
  BY <1>2 DEF F!Next
<1>3. ASSUME BeginSuite \/ EndSuite PROVE F!Next
  BY <1>3 DEF BeginSuite, EndSuite, F!Next
<1>4. ASSUME CreateTest \/ internal_tests \/ test_invalid_handle PROVE F!Next
  <2>1. "<internal>" \in Names
    BY <1>1 DEF DriverIsSafe
  <2>2. F!mips_test_begin_test("<internal>")
    BY <1>4 DEF CreateTest, internal_tests, test_invalid_handle, RunTest
  <2> QED BY <1>2, <2>1, <2>2
<1>5. ASSUME run_spec PROVE F!Next
  <2>1. F!mips_test_begin_test(spec[i].func)
    BY <1>5 DEF run_spec, RunTest
  <2>2. spec[i].func \in Names
    <3>1. spec \in Files /\ i \in Nat \ {0} /\ i <= Len(spec) /\ spec[i].kind = "row"
      BY <1>5 DEF run_spec, At, DriverInv
    <3>2. /\ Len(spec) \in Nat
          /\ \A k \in 1 .. Len(spec) : spec[k].kind = "row" => Columns(spec[k])
      BY <3>1 DEF FilesAreSafe
    <3> QED BY <3>1, <3>2 DEF Columns
  <2> QED BY <1>2, <2>1, <2>2
<1>6. ASSUME Call PROVE F!Next
  <2> DEFINE c == Head(calls)
  <2>1. c \in FrameworkCalls
    <3>1. calls \in Seq(FrameworkCalls) /\ calls # << >>
      BY <1>6 DEF Call, DriverInv, Alternate
    <3> QED BY <3>1
  <2>2. CASE c.fn = "begin"
    <3>1. F!mips_test_begin_test(c.name) /\ c.name \in Names
      BY <1>6, <2>1, <2>2 DEF Call, FrameworkCalls
    <3> QED BY <1>2, <3>1
  <2>3. CASE c.fn = "end"
    <3>1. /\ F!mips_test_end_test(testId, c.passed, c.msg)
          /\ c.passed \in {0, 1} /\ c.msg \in Messages
      BY <1>6, <2>1, <2>3 DEF Call, FrameworkCalls
    <3>2. testId \in 0 .. MaxTests
      BY DEF DriverInv
    <3> QED BY <3>1, <3>2 DEF F!Next
  <2> QED BY <2>1, <2>2, <2>3 DEF FrameworkCalls
<1>7. ASSUME parse_test_spec \/ SkipHeader \/ EndOfSpec PROVE UNCHANGED F!vars
  BY <1>7 DEF parse_test_spec, SkipHeader, EndOfSpec, framework, F!vars
<1> QED BY <1>3, <1>4, <1>5, <1>6, <1>7 DEF Next

(* The driver implements the client of MipsTest, which calls the framework in *)
(* any order: each of its steps is one such call, or none.                    *)
THEOREM DriverIsAClient == ASSUME FilesAreSafe PROVE Spec => F!Spec
<1>1. Init => DriverInv /\ F!Init
  BY InitGood DEF Init
<1>2. DriverInv /\ [Next]_vars => DriverInv'
  BY NextGood
<1>3. DriverInv /\ [Next]_vars => [F!Next]_F!vars
  <2>1. UNCHANGED vars => UNCHANGED F!vars
    BY DEF vars, F!vars
  <2> QED BY <2>1, ClientCalls
<1> QED BY <1>1, <1>2, <1>3, PTL DEF Spec, F!Spec

(* So what is proved of the framework for any client holds in the driver.     *)
P == INSTANCE MipsTestProofs

LEMMA SameClient == F!Spec => P!Spec
<1>1. F!Init => P!Init
  BY DEF F!Init, P!Init, F!Instructions, P!Instructions
<1>2. F!Unfinished <=> P!Unfinished
  BY DEF F!Unfinished, P!Unfinished, F!back, P!back
<1>3. [F!Next]_F!vars => [P!Next]_P!vars
  <2>1. F!Exit <=> P!Exit
    BY DEF F!Exit, P!Exit
  <2>2. F!mips_test_begin_suite => P!mips_test_begin_suite
    BY <2>1 DEF F!mips_test_begin_suite, P!mips_test_begin_suite
  <2>3. ASSUME NEW name, F!mips_test_begin_test(name) PROVE P!mips_test_begin_test(name)
    BY <1>2, <2>1, <2>3 DEF F!mips_test_begin_test, P!mips_test_begin_test, F!NewTest,
       P!NewTest, F!NoMessage, P!NoMessage
  <2>4. ASSUME NEW id, NEW passed, NEW msg, F!mips_test_end_test(id, passed, msg)
        PROVE  P!mips_test_end_test(id, passed, msg)
    BY <1>2, <2>1, <2>4 DEF F!mips_test_end_test, P!mips_test_end_test, F!Finished,
       P!Finished, F!back, P!back, F!NoMessage, P!NoMessage
  <2>5. F!mips_test_end_suite => P!mips_test_end_suite
    <3>1. ASSUME NEW S PROVE F!Cardinality(S) = P!Cardinality(S)
      BY DEF F!Cardinality, P!Cardinality
    <3>2. ASSUME NEW statuses PROVE F!statistics(statuses) = P!statistics(statuses)
      <4>1. ASSUME NEW name PROVE F!TestsOf(name, statuses) = P!TestsOf(name, statuses)
        BY DEF F!TestsOf, P!TestsOf
      <4> QED BY <3>1, <4>1 DEF F!statistics, P!statistics, F!Instructions, P!Instructions,
                 F!TestsOf, P!TestsOf
    <3> QED BY <1>2, <2>1, <3>2 DEF F!mips_test_end_suite, P!mips_test_end_suite
  <2>6. F!vars = P!vars /\ (UNCHANGED F!vars => UNCHANGED P!vars)
    BY DEF F!vars, P!vars
  <2>7. F!NoMessage = P!NoMessage
    BY DEF F!NoMessage, P!NoMessage
  <2> QED BY <2>2, <2>3, <2>4, <2>5, <2>6, <2>7 DEF F!Next, P!Next
<1> QED BY <1>1, <1>3, PTL DEF F!Spec, P!Spec

(* In the test program, whatever the CPU under test and the file, at most one *)
(* test is open, a verdict once given stands, and the report counts each test *)
(* once, under one spelling of its instruction.                               *)
THEOREM DriverKeepsLedger ==
  ASSUME FilesAreSafe
  PROVE  Spec => []P!OneTestOpen /\ P!VerdictsStand /\ P!KeepsTheLedger
<1>1. P!NamesAssumption
  BY FrameworkAssumption DEF P!NamesAssumption, F!NamesAssumption, F!None, P!None,
     F!Instructions, P!Instructions
<1>2. P!Spec => []P!OneTestOpen
  BY <1>1, P!OnlyLastIsOpen
<1>3. P!Spec => P!VerdictsStand
  BY <1>1, P!VerdictsNeverChange
<1>4. P!Spec => P!KeepsTheLedger
  BY <1>1, P!ImplementsLedger
<1> QED BY <1>2, <1>3, <1>4, DriverIsAClient, SameClient
----------------------------------------------------------------------------
(* What a row reads of the RAM.  Two machines that agree on the bytes the row *)
(* knows go through it in step, whatever the rest of their RAMs holds.        *)

Agree(m1, m2, K) ==
  /\ m1.cpu = m2.cpu /\ m1.err = m2.err
  /\ \A a \in K : m1.data[a] = m2.data[a]

LEMMA ReadsAgree ==
  ASSUME NEW d1, NEW d2, NEW address \in Int, NEW length \in Int,
         \A a \in address .. address + length - 1 : d1[a] = d2[a]
  PROVE  mips_mem_read(d1, address, length) = mips_mem_read(d2, address, length)
<1>1. \A k \in 0 .. length - 1 : d1[address + k] = d2[address + k]
  <2> SUFFICES ASSUME NEW k \in 0 .. length - 1 PROVE d1[address + k] = d2[address + k]
    OBVIOUS
  <2>1. address + k \in address .. address + length - 1
    OBVIOUS
  <2> QED BY <2>1
<1> QED BY <1>1 DEF mips_mem_read

LEMMA WritesAgree ==
  ASSUME NEW d1 \in RamData, NEW d2 \in RamData, NEW K \in SUBSET RamAddress,
         \A a \in K : d1[a] = d2[a], NEW address, NEW length, NEW bytes
  PROVE  \A a \in K :
           mips_mem_write(d1, address, length, bytes)[a]
             = mips_mem_write(d2, address, length, bytes)[a]
<1>1. DOMAIN d1 = RamAddress /\ DOMAIN d2 = RamAddress
  BY DEF RamData
<1> QED BY <1>1 DEF mips_mem_write

LEMMA MemoryAgree ==
  ASSUME NEW st, NEW d1 \in RamData, NEW d2 \in RamData, NEW K \in SUBSET RamAddress,
         \A a \in K : d1[a] = d2[a],
         NEW opcode, NEW s, NEW t, NEW si, Plus(st.regs[s], si) \in Int,
         LET length == TransferLength(opcode)
             address == TransferAddress(opcode, Plus(st.regs[s], si))
         IN  opcode \in Loads /\ mips_mem_read_write(st.mem, CbMem, address, length) = Success
               => address .. address + length - 1 \subseteq K
  PROVE  LET o1 == cpu_memory_funcs(opcode, s, t, si, st, d1)
             o2 == cpu_memory_funcs(opcode, s, t, si, st, d2)
         IN  /\ o1.state = o2.state /\ o1.err = o2.err
             /\ \A a \in K : o1.data[a] = o2.data[a]
<1> DEFINE eff_adr == Plus(st.regs[s], si)
           length == TransferLength(opcode)
           address == TransferAddress(opcode, eff_adr)
           err == IF opcode \in {\h21, \h23} /\ eff_adr % length # 0 THEN InvalidAlignment
                  ELSE mips_mem_read_write(st.mem, CbMem, address, length)
           Outcome(st2, data2, e) == [state |-> st2, data |-> data2, err |-> e]
           old == ToBytes(st.regs[t])
           bytes == StoredBytes(st.regs[t], length)
           Load(d) == Outcome(SetReg(st, t, LoadedWord(opcode, mips_mem_read(d, address, length),
                                                       old, eff_adr % 4)), d, err)
           Store(d) == Outcome(st, mips_mem_write(d, address, length, bytes), err)
           M(d) == cpu_memory_funcs(opcode, s, t, si, st, d)
<1>1. ASSUME NEW d
      PROVE  M(d) = CASE opcode \in Loads /\ t # 0 /\ err = Success -> Load(d)
                      [] opcode \in Stores /\ err = Success -> Store(d)
                      [] err # Success /\ (opcode \in Stores \/ (opcode \in Loads /\ t # 0)) ->
                           Outcome(st, d, err)
                      [] OTHER -> Outcome(st, d, Success)
  BY DEF cpu_memory_funcs
<1>2. length \in Int /\ address \in Int
  BY DEF TransferLength, TransferAddress
<1>3. err = Success => mips_mem_read_write(st.mem, CbMem, address, length) = Success
  BY DEF InvalidAlignment, Success
<1>4. opcode \in Loads /\ err = Success =>
        mips_mem_read(d1, address, length) = mips_mem_read(d2, address, length)
  <2> SUFFICES ASSUME opcode \in Loads, err = Success
               PROVE  mips_mem_read(d1, address, length) = mips_mem_read(d2, address, length)
    OBVIOUS
  <2>1. address .. address + length - 1 \subseteq K
    BY <1>3
  <2> HIDE DEF address, length
  <2> QED BY <1>2, <2>1, ReadsAgree
<1>5. \A a \in K : mips_mem_write(d1, address, length, bytes)[a]
                     = mips_mem_write(d2, address, length, bytes)[a]
  BY WritesAgree
<1>6. Loads \cap Stores = {}
  BY DEF Loads, Stores
<1> HIDE DEF eff_adr, length, address, err, old, bytes, M
<1>7. CASE opcode \in Loads /\ t # 0 /\ err = Success
  <2>1. M(d1) = Load(d1) /\ M(d2) = Load(d2)
    BY <1>1, <1>6, <1>7
  <2> QED BY <1>4, <1>7, <2>1 DEF M
<1>8. CASE opcode \in Stores /\ err = Success
  <2>1. M(d1) = Store(d1) /\ M(d2) = Store(d2)
    BY <1>1, <1>6, <1>8
  <2> QED BY <1>5, <2>1 DEF M
<1>9. CASE err # Success /\ (opcode \in Stores \/ (opcode \in Loads /\ t # 0))
  <2>1. M(d1) = Outcome(st, d1, err) /\ M(d2) = Outcome(st, d2, err)
    BY <1>1, <1>9
  <2> QED BY <2>1 DEF M
<1>10. CASE /\ ~(opcode \in Loads /\ t # 0 /\ err = Success) /\ ~(opcode \in Stores /\ err = Success)
            /\ ~(err # Success /\ (opcode \in Stores \/ (opcode \in Loads /\ t # 0)))
  <2>1. M(d1) = Outcome(st, d1, Success) /\ M(d2) = Outcome(st, d2, Success)
    BY <1>1, <1>10
  <2> QED BY <2>1 DEF M
<1> QED BY <1>7, <1>8, <1>9, <1>10

(* What an instruction does that is no load or store: the RAM has no part.    *)
OnCpu(ins, st) ==
  CASE ins.opcode \notin opcode_to_str -> Return(st, Killed)
    [] ins.opcode \in Unimplemented -> Return(st, NotImplemented)
    [] ins.opcode = \h0 -> cpu_execute_r(ins, st)
    [] ins.opcode = \h1 -> cpu_execute_rt(ins.s, ins.t, ins.i, st)
    [] ins.opcode \in \h2 .. \h3 -> cpu_execute_j(ins.j, ins.opcode, st)
    [] ins.opcode \in \h4 .. \hf ->
         cpu_execute_immediate(ins.s, ins.t, ins.i, ins.opcode, st)
MemoryOpcodes == Loads \cup \h28 .. \h2b \cup {\h2e}

LEMMA ExecuteParts ==
  ASSUME NEW st, NEW d, mips_mem_read_write(st.mem, CbMem, st.pc, 4) = Success,
         NEW ins \in Instr, Decode(FromBytes(mips_mem_read(d, st.pc, 4))) = ins
  PROVE  Execute(st, d) =
           IF ins.opcode \in MemoryOpcodes
           THEN cpu_memory_funcs(ins.opcode, ins.s, ins.t, SignExtendHalf(ins.i), st, d)
           ELSE [state |-> OnCpu(ins, st).state, data |-> d, err |-> OnCpu(ins, st).err]
<1> DEFINE With(r) == [state |-> r.state, data |-> d, err |-> r.err]
           op == ins.opcode
           r0 == cpu_execute_r(ins, st)
           r1 == cpu_execute_rt(ins.s, ins.t, ins.i, st)
           r2 == cpu_execute_j(ins.j, ins.opcode, st)
           r4 == cpu_execute_immediate(ins.s, ins.t, ins.i, ins.opcode, st)
           kill == Return(st, Killed)
           ni == Return(st, NotImplemented)
           mf == cpu_memory_funcs(ins.opcode, ins.s, ins.t, SignExtendHalf(ins.i), st, d)
<1>1. Execute(st, d) =
      CASE op \notin opcode_to_str -> With(kill)
        [] op \in Unimplemented -> With(ni)
        [] op = \h0 -> With(r0)
        [] op = \h1 -> With(r1)
        [] op \in \h2 .. \h3 -> With(r2)
        [] op \in \h4 .. \hf -> With(r4)
        [] op \in Loads \cup \h28 .. \h2b \cup {\h2e} -> mf
  BY DEF Execute
<1>2. OnCpu(ins, st) =
      CASE op \notin opcode_to_str -> kill
        [] op \in Unimplemented -> ni
        [] op = \h0 -> r0
        [] op = \h1 -> r1
        [] op \in \h2 .. \h3 -> r2
        [] op \in \h4 .. \hf -> r4
  BY DEF OnCpu
<1>3. op \in 0 .. 63
  BY DEF Instr
<1> DEFINE E == Execute(st, d)
           C == OnCpu(ins, st)
<1> HIDE DEF op, r0, r1, r2, r4, kill, ni, mf, E, C
<1>4. CASE op \in MemoryOpcodes
  <2>1. /\ op \in opcode_to_str /\ op \notin Unimplemented /\ op # 0 /\ op # 1
        /\ op \notin \h2 .. \h3 /\ op \notin \h4 .. \hf
    BY <1>4 DEF MemoryOpcodes, Loads, opcode_to_str, Unimplemented
  <2>2. E = mf
    BY <1>1, <1>4, <2>1 DEF MemoryOpcodes, E
  <2> QED BY <1>4, <2>2 DEF E, op, mf
<1>5. CASE op \notin MemoryOpcodes
  <2>1. E = With(C)
    <3>1. CASE op \notin opcode_to_str
      <4>1. /\ op \notin Unimplemented /\ op # 0 /\ op # 1
            /\ op \notin \h2 .. \h3 /\ op \notin \h4 .. \hf
        BY <1>3, <3>1 DEF opcode_to_str
      <4>2. op \notin Loads \cup \h28 .. \h2b \cup {\h2e}
        BY <1>5 DEF MemoryOpcodes
      <4>3. E = With(kill) /\ C = kill
        BY <1>1, <1>2, <3>1, <4>1, <4>2 DEF E, C
      <4> QED BY <4>3
    <3>2. CASE op \in Unimplemented
      <4>1. /\ op \in opcode_to_str /\ op # 0 /\ op # 1
            /\ op \notin \h2 .. \h3 /\ op \notin \h4 .. \hf
        BY <3>2 DEF opcode_to_str, Unimplemented
      <4>2. op \notin Loads \cup \h28 .. \h2b \cup {\h2e}
        BY <1>5 DEF MemoryOpcodes
      <4>3. E = With(ni) /\ C = ni
        BY <1>1, <1>2, <3>2, <4>1, <4>2 DEF E, C
      <4> QED BY <4>3
    <3>3. CASE op \in \h0 .. \hf
      <4>1. op \in opcode_to_str /\ op \notin Unimplemented
        BY <3>3 DEF opcode_to_str, Unimplemented
      <4>2. op \notin Loads \cup \h28 .. \h2b \cup {\h2e}
        BY <1>5 DEF MemoryOpcodes
      <4>3. /\ E = CASE op = \h0 -> With(r0)
                     [] op = \h1 -> With(r1)
                     [] op \in \h2 .. \h3 -> With(r2)
                     [] op \in \h4 .. \hf -> With(r4)
            /\ C = CASE op = \h0 -> r0
                     [] op = \h1 -> r1
                     [] op \in \h2 .. \h3 -> r2
                     [] op \in \h4 .. \hf -> r4
        BY <1>1, <1>2, <3>3, <4>1, <4>2 DEF E, C
      <4>4. op = 0 \/ op = 1 \/ op \in \h2 .. \h3 \/ op \in \h4 .. \hf
        BY <3>3
      <4> QED BY <4>3, <4>4
    <3> QED BY <1>3, <1>5, <3>1, <3>2, <3>3 DEF opcode_to_str, MemoryOpcodes
  <2> QED BY <1>5, <2>1 DEF E, C, op
<1> QED BY <1>4, <1>5

LEMMA ExecuteAgree ==
  ASSUME NEW mem, NEW m1 \in Machine(mem), NEW m2 \in Machine(mem),
         NEW K \in SUBSET RamAddress, Agree(m1, m2, K), m1.err # Killed, ReadsWithin(m1, K)
  PROVE  LET o1 == Execute(m1.cpu, m1.data)
             o2 == Execute(m2.cpu, m2.data)
         IN  /\ o1.state = o2.state /\ o1.err = o2.err
             /\ \A a \in K : o1.data[a] = o2.data[a]
<1> DEFINE st == m1.cpu
           d1 == m1.data
           d2 == m2.data
           o1 == Execute(st, d1)
           o2 == Execute(st, d2)
           fetch == mips_mem_read_write(st.mem, CbMem, st.pc, 4)
<1>1. m2.cpu = st /\ (\A a \in K : d1[a] = d2[a])
  BY DEF Agree
<1>2. d1 \in RamData /\ d2 \in RamData /\ st \in mips_cpu_impl
  BY MachineFields
<1>3. CASE fetch # Success
  <2>1. /\ o1 = [state |-> st, data |-> d1, err |-> fetch]
        /\ o2 = [state |-> st, data |-> d2, err |-> fetch]
    BY <1>3 DEF Execute, Return
  <2> QED BY <1>1, <2>1
<1>4. CASE fetch = Success
  <2> DEFINE ins == Decode(FromBytes(mips_mem_read(d1, st.pc, 4)))
             length == TransferLength(ins.opcode)
             address ==
               TransferAddress(ins.opcode, Plus(st.regs[ins.s], SignExtendHalf(ins.i)))
  <2>1. /\ st.pc .. st.pc + 3 \subseteq K
        /\ /\ ins.opcode \in Loads
           /\ mips_mem_read_write(st.mem, CbMem, address, length) = Success
           => address .. address + length - 1 \subseteq K
    BY <1>4 DEF ReadsWithin
  <2>2. mips_mem_read(d1, st.pc, 4) = mips_mem_read(d2, st.pc, 4)
    <3>1. st.pc \in Int
      BY <1>2, WordIsInt DEF mips_cpu_impl
    <3>2. st.pc + 4 - 1 = st.pc + 3
      BY <3>1
    <3>3. \A a \in st.pc .. st.pc + 4 - 1 : d1[a] = d2[a]
      BY <1>1, <2>1, <3>2
    <3> HIDE DEF st, d1, d2
    <3> QED BY <3>1, <3>3, ReadsAgree
  <2>3. ins \in Instr
    <3> DEFINE word == FromBytes(mips_mem_read(d1, st.pc, 4))
    <3>1. \A k \in 0 .. 4 - 1 : mips_mem_read(d1, st.pc, 4)[k] \in Byte
      BY <1>2, <1>4, FieldTypes, MemReadType
    <3>2. word \in Word
      BY <3>1, FromBytesType
    <3> HIDE DEF word
    <3>3. Decode(word) \in Instr
      BY <3>2, DecodeAssumption
    <3> QED BY <3>3 DEF word
  <2>4. Decode(FromBytes(mips_mem_read(d2, st.pc, 4))) = ins
    BY <2>2
  <2>5. Plus(st.regs[ins.s], SignExtendHalf(ins.i)) \in Int
    <3>1. ins.s \in Reg /\ ins.i \in Half
      BY <2>3 DEF Instr
    <3>2. st.regs[ins.s] \in Int
      BY <1>2, <3>1, WordIsInt DEF mips_cpu_impl
    <3>3. SignExtendHalf(ins.i) \in Int
      BY <3>1, SignExtendType, WordIsInt
    <3> QED BY <3>2, <3>3, PlusType, WordIsInt
  <2> DEFINE Mem(d) == cpu_memory_funcs(ins.opcode, ins.s, ins.t, SignExtendHalf(ins.i), st, d)
             Plain(d) == [state |-> OnCpu(ins, st).state, data |-> d, err |-> OnCpu(ins, st).err]
  <2>6. /\ o1 = IF ins.opcode \in MemoryOpcodes THEN Mem(d1) ELSE Plain(d1)
        /\ o2 = IF ins.opcode \in MemoryOpcodes THEN Mem(d2) ELSE Plain(d2)
    <3> HIDE DEF ins, st, d1, d2
    <3>1. Decode(FromBytes(mips_mem_read(d1, st.pc, 4))) = ins
      BY DEF ins
    <3> QED BY <1>4, <2>3, <2>4, <3>1, ExecuteParts
  <2>7. /\ Mem(d1).state = Mem(d2).state /\ Mem(d1).err = Mem(d2).err
        /\ \A a \in K : Mem(d1).data[a] = Mem(d2).data[a]
    <3> DEFINE si == SignExtendHalf(ins.i)
               op == ins.opcode
               s == ins.s
               t == ins.t
               Of(d) == cpu_memory_funcs(op, s, t, si, st, d)
    <3>1. \A d : Mem(d) = Of(d)
      OBVIOUS
    <3>2. op \in Loads /\ mips_mem_read_write(st.mem, CbMem, address, length) = Success
            => address .. address + length - 1 \subseteq K
      BY <2>1
    <3>3. /\ length = TransferLength(op)
          /\ address = TransferAddress(op, Plus(st.regs[s], si))
      OBVIOUS
    <3> HIDE DEF ins, st, d1, d2, si, op, s, t, length, address
    <3>4. Plus(st.regs[s], si) \in Int
      BY <2>5 DEF s, si
    <3>5. /\ Of(d1).state = Of(d2).state /\ Of(d1).err = Of(d2).err
          /\ \A a \in K : Of(d1).data[a] = Of(d2).data[a]
      BY <1>1, <1>2, <3>2, <3>3, <3>4, MemoryAgree
    <3> HIDE DEF Mem, Of
    <3> QED BY <3>1, <3>5
  <2>8. /\ Plain(d1).state = Plain(d2).state /\ Plain(d1).err = Plain(d2).err
        /\ \A a \in K : Plain(d1).data[a] = Plain(d2).data[a]
    <3> HIDE DEF ins, st
    <3> QED BY <1>1
  <2> HIDE DEF ins, Mem, Plain, o1, o2
  <2> QED BY <1>1, <2>6, <2>7, <2>8 DEF o1, o2
<1> QED BY <1>3, <1>4

LEMMA StepAgree ==
  ASSUME NEW mem, NEW m1 \in Machine(mem), NEW m2 \in Machine(mem),
         NEW K \in SUBSET RamAddress, Agree(m1, m2, K), ReadsWithin(m1, K)
  PROVE  Agree(Step(m1), Step(m2), K)
<1>1. m1.cpu = m2.cpu /\ m1.err = m2.err
  BY DEF Agree
<1>2. CASE m1.err = Killed
  <2>1. Step(m1) = m1 /\ Step(m2) = m2
    BY <1>1, <1>2, Zenon DEF Step
  <2> QED BY <2>1
<1>3. CASE m1.err # Killed
  <2> DEFINE o1 == Execute(m1.cpu, m1.data)
             o2 == Execute(m2.cpu, m2.data)
  <2>1. /\ Step(m1) = [cpu |-> StepState(o1), data |-> o1.data, err |-> o1.err]
        /\ Step(m2) = [cpu |-> StepState(o2), data |-> o2.data, err |-> o2.err]
    BY <1>1, <1>3, StepIs
  <2>2. /\ o1.state = o2.state /\ o1.err = o2.err
        /\ \A a \in K : o1.data[a] = o2.data[a]
    BY <1>1, <1>3, ExecuteAgree
  <2> HIDE DEF o1, o2
  <2>3. StepState(o1) = StepState(o2)
    BY <2>2 DEF StepState
  <2> QED BY <2>1, <2>2, <2>3 DEF Agree
<1> QED BY <1>2, <1>3

(* A step that succeeds goes to the next pc, and one that fails stays.        *)
LEMMA StepMoves ==
  ASSUME NEW mem, NEW m \in Machine(mem), m.err # Killed
  PROVE  Step(m).cpu.pc = IF Step(m).err = Success THEN m.cpu.nPC ELSE m.cpu.pc
<1> DEFINE o == Execute(m.cpu, m.data)
<1>1. GoodOutcome(m.cpu, m.data, o)
  BY MachineFields, ExecuteGood
<1>2. Step(m) = [cpu |-> StepState(o), data |-> o.data, err |-> o.err]
  BY StepIs
<1> HIDE DEF o
<1>3. /\ o.state \in mips_cpu_impl /\ o.state.nPC = m.cpu.nPC
      /\ o.err # Success => o.state = m.cpu
  BY <1>1, MachineFields DEF GoodOutcome, GoodReturn, Kept
<1>4. CASE o.err = Success
  <2>1. mips_cpu_increment_pc(o.state).pc = o.state.nPC
    BY <1>3, IncrementType
  <2> QED BY <1>2, <1>3, <1>4, <2>1 DEF StepState
<1>5. CASE o.err # Success
  BY <1>2, <1>3, <1>5 DEF StepState
<1> QED BY <1>4, <1>5

LEMMA PerformAgree ==
  ASSUME NEW mem, NEW m1 \in Machine(mem), NEW m2 \in Machine(mem),
         NEW K \in SUBSET RamAddress, Agree(m1, m2, K),
         NEW o \in Operations, o.op = "step" => ReadsWithin(m1, K)
  PROVE  Agree(Perform(m1, o), Perform(m2, o), K \cup WrittenBy(mem, o))
<1>1. /\ m1.cpu = m2.cpu /\ m1.err = m2.err /\ (\A a \in K : m1.data[a] = m2.data[a])
      /\ m1.cpu.mem = mem /\ m2.cpu.mem = mem /\ m1.data \in RamData /\ m2.data \in RamData
  BY MachineFields DEF Agree
<1>2. /\ \A m \in {m1, m2} : \A c : /\ [m EXCEPT !.cpu = c].cpu = c
                                   /\ [m EXCEPT !.cpu = c].data = m.data
                                   /\ [m EXCEPT !.cpu = c].err = m.err
      /\ \A m \in {m1, m2} : \A d : /\ [m EXCEPT !.data = d].cpu = m.cpu
                                   /\ [m EXCEPT !.data = d].data = d
                                   /\ [m EXCEPT !.data = d].err = m.err
  BY DEF Machine
<1>3. CASE o.op \notin {"write", "bytes"}
  <2>1. WrittenBy(mem, o) = {}
    BY <1>3 DEF WrittenBy
  <2>2. CASE o.op = "step"
    <3>1. Perform(m1, o) = Step(m1) /\ Perform(m2, o) = Step(m2)
      BY <2>2 DEF Perform
    <3> QED BY <2>1, <2>2, <3>1, StepAgree
  <2>3. CASE o.op = "set" /\ o.r # 0
    <3>1. /\ Perform(m1, o) = [m1 EXCEPT !.cpu = SetReg(m1.cpu, o.r, o.value)]
          /\ Perform(m2, o) = [m2 EXCEPT !.cpu = SetReg(m2.cpu, o.r, o.value)]
      BY <2>3 DEF Perform
    <3> QED BY <1>1, <1>2, <2>1, <3>1 DEF Agree
  <2>4. CASE o.op = "pc"
    <3>1. /\ Perform(m1, o) = [m1 EXCEPT !.cpu = PlacePc(m1.cpu, o.pc)]
          /\ Perform(m2, o) = [m2 EXCEPT !.cpu = PlacePc(m2.cpu, o.pc)]
      BY <2>4 DEF Perform
    <3> QED BY <1>1, <1>2, <2>1, <3>1 DEF Agree
  <2>5. CASE o.op # "step" /\ o.op # "pc" /\ ~(o.op = "set" /\ o.r # 0)
    <3>1. Perform(m1, o) = m1 /\ Perform(m2, o) = m2
      BY <1>3, <2>5 DEF Perform
    <3> QED BY <2>1, <3>1
  <2> QED BY <2>2, <2>3, <2>4, <2>5
<1>4. CASE o.op = "write"
  <2> DEFINE W(d) == mips_mem_write(d, o.address, 4, o.bytes)
             can == mips_mem_read_write(mem, CbMem, o.address, 4) = Success
  <2>1. /\ Perform(m1, o) = IF can THEN [m1 EXCEPT !.data = W(m1.data)] ELSE m1
        /\ Perform(m2, o) = IF can THEN [m2 EXCEPT !.data = W(m2.data)] ELSE m2
    BY <1>1, <1>4 DEF Perform
  <2>2. CASE ~can
    <3>1. WrittenBy(mem, o) = {}
      BY <1>4, <2>2 DEF WrittenBy
    <3> QED BY <2>1, <2>2, <3>1
  <2>3. CASE can
    <3>1. \A a \in K \cup WrittenBy(mem, o) : W(m1.data)[a] = W(m2.data)[a]
      <4>1. \A a \in K : W(m1.data)[a] = W(m2.data)[a]
        <5>1. /\ m1.data \in RamData /\ m2.data \in RamData
              /\ \A a \in K : m1.data[a] = m2.data[a]
          BY ONLY <1>1
        <5> HIDE DEF W
        <5>2. \A a \in K :
                mips_mem_write(m1.data, o.address, 4, o.bytes)[a]
                  = mips_mem_write(m2.data, o.address, 4, o.bytes)[a]
          BY <5>1, WritesAgree
        <5> QED BY ONLY <5>2 DEF W
      <4>2. ASSUME NEW a \in WrittenBy(mem, o) PROVE W(m1.data)[a] = W(m2.data)[a]
        <5>1. a \in RamAddress /\ a \in o.address .. o.address + 3
          BY <1>4 DEF WrittenBy
        <5>2. a \in o.address .. o.address + 4 - 1
          <6>1. o.address \in Int
            BY <1>4 DEF Operations
          <6> QED BY <5>1, <6>1
        <5>3. a \in DOMAIN m1.data /\ a \in DOMAIN m2.data
          BY <1>1, <5>1 DEF RamData
        <5> QED BY <5>2, <5>3 DEF mips_mem_write
      <4> QED BY <4>1, <4>2
    <3> HIDE DEF W, can
    <3>2. /\ Perform(m1, o) = [m1 EXCEPT !.data = W(m1.data)]
          /\ Perform(m2, o) = [m2 EXCEPT !.data = W(m2.data)]
      BY <2>1, <2>3
    <3> QED BY <1>1, <1>2, <3>1, <3>2 DEF Agree
  <2> QED BY <2>2, <2>3
<1>5. CASE o.op = "bytes"
  <2> DEFINE W(d) == [a \in RamAddress |-> IF a \in o.address .. o.address + 3
                                           THEN o.bytes[a - o.address] ELSE d[a]]
  <2>1. /\ Perform(m1, o) = IF mem # NULL THEN [m1 EXCEPT !.data = W(m1.data)] ELSE m1
        /\ Perform(m2, o) = IF mem # NULL THEN [m2 EXCEPT !.data = W(m2.data)] ELSE m2
    BY <1>1, <1>5 DEF Perform
  <2>2. CASE mem = NULL
    <3>1. WrittenBy(mem, o) = {}
      BY <1>5, <2>2 DEF WrittenBy
    <3> QED BY <2>1, <2>2, <3>1
  <2>3. CASE mem # NULL
    <3>1. \A a \in K \cup WrittenBy(mem, o) : W(m1.data)[a] = W(m2.data)[a]
      BY <1>1 DEF WrittenBy
    <3> HIDE DEF W
    <3>2. /\ Perform(m1, o) = [m1 EXCEPT !.data = W(m1.data)]
          /\ Perform(m2, o) = [m2 EXCEPT !.data = W(m2.data)]
      BY <2>1, <2>3
    <3> QED BY <1>1, <1>2, <3>1, <3>2 DEF Agree
  <2> QED BY <2>2, <2>3
<1> QED BY <1>3, <1>4, <1>5

LEMMA KnownGrows ==
  ASSUME NEW mem, NEW ops, NEW k \in Nat \ {0}
  PROVE  /\ Known(mem, ops, k) = Known(mem, ops, k - 1) \cup WrittenBy(mem, ops[k])
         /\ Known(mem, ops, k - 1) \in SUBSET RamAddress
<1>1. 1 .. k = (1 .. k - 1) \cup {k}
  OBVIOUS
<1>2. \A n : WrittenBy(mem, ops[n]) \subseteq RamAddress
  BY DEF WrittenBy
<1> QED BY <1>1, <1>2 DEF Known

LEMMA RunAgree ==
  ASSUME NEW mem, NEW m1 \in Machine(mem), NEW m2 \in Machine(mem),
         Agree(m1, m2, {}), NEW ops \in Seq(Operations), NEW end \in 0 .. Len(ops),
         \A k \in 1 .. end :
           ops[k].op = "step" =>
             ReadsWithin(IF k = 1 THEN m1 ELSE Run(m1, ops)[k - 1], Known(mem, ops, k))
  PROVE  \A k \in 1 .. end :
           Agree(Run(m1, ops)[k], Run(m2, ops)[k], Known(mem, ops, k))
<1> DEFINE L == Len(ops)
           r1 == Run(m1, ops)
           r2 == Run(m2, ops)
           Last(m, r, k) == IF k = 1 THEN m ELSE r[k - 1]
           K(k) == Known(mem, ops, k)
           S == {n \in Nat : n \in 1 .. end => Agree(r1[n], r2[n], K(n))}
<1>1. L \in Nat /\ end \in 0 .. L /\ \A k \in 1 .. L : ops[k] \in Operations
  OBVIOUS
<1>2. \A k \in 1 .. L : /\ r1[k] \in Machine(mem) /\ r1[k] = Perform(Last(m1, r1, k), ops[k])
                        /\ r2[k] \in Machine(mem) /\ r2[k] = Perform(Last(m2, r2, k), ops[k])
  <2>1. IsRun(r1, m1, ops, mem, L) /\ IsRun(r2, m2, ops, mem, L)
    BY RunMachines
  <2>2. \A k \in 1 .. L : r1[k] \in Machine(mem) /\ r2[k] \in Machine(mem)
    BY RunTyped
  <2> HIDE DEF r1, r2
  <2> QED BY <2>1, <2>2 DEF IsRun
<1> HIDE DEF r1, r2
<1>3. 0 \in S
  OBVIOUS
<1>4. ASSUME NEW n \in Nat, n \in S PROVE n + 1 \in S
  <2> DEFINE k == n + 1
  <2> SUFFICES ASSUME k \in 1 .. end PROVE Agree(r1[k], r2[k], K(k))
    OBVIOUS
  <2>1. k \in Nat \ {0} /\ k - 1 = n /\ k \in 1 .. L
    BY <1>1
  <2> DEFINE a == Last(m1, r1, k)
             b == Last(m2, r2, k)
  <2>2. a \in Machine(mem) /\ b \in Machine(mem)
    <3>1. k # 1 => k - 1 \in 1 .. L
      BY <1>1, <2>1
    <3> HIDE DEF k
    <3> QED BY <1>2, <2>1, <3>1
  <2>3. Agree(a, b, K(k - 1))
    <3>1. CASE k = 1
      <4>1. K(k - 1) = K(0) /\ K(0) = {}
        BY <3>1 DEF Known
      <4> QED BY <3>1, <4>1
    <3>2. CASE k # 1
      <4>1. n \in 1 .. end /\ a = r1[n] /\ b = r2[n]
        BY <1>1, <2>1, <3>2
      <4>2. Agree(r1[n], r2[n], K(n))
        BY <1>4, <4>1
      <4> QED BY <2>1, <4>1, <4>2
    <3> QED BY <3>1, <3>2
  <2>4. /\ K(k) = K(k - 1) \cup WrittenBy(mem, ops[k]) /\ K(k - 1) \in SUBSET RamAddress
    BY <2>1, KnownGrows
  <2>5. ops[k].op = "step" => ReadsWithin(a, K(k - 1))
    <3> SUFFICES ASSUME ops[k].op = "step" PROVE ReadsWithin(a, K(k - 1))
      OBVIOUS
    <3>1. WrittenBy(mem, ops[k]) = {}
      BY DEF WrittenBy
    <3>2. K(k) = K(k - 1)
      BY <2>4, <3>1
    <3>3. ReadsWithin(a, K(k))
      BY DEF r1
    <3> QED BY <3>2, <3>3
  <2>6. r1[k] = Perform(a, ops[k]) /\ r2[k] = Perform(b, ops[k]) /\ ops[k] \in Operations
    BY <1>1, <1>2, <2>1
  <2> HIDE DEF a, b, K, k
  <2> QED BY <2>2, <2>3, <2>4, <2>5, <2>6, PerformAgree
<1> HIDE DEF S
<1>5. \A n \in Nat : n \in S
  BY <1>3, <1>4, SetInduction
<1>6. \A k \in 1 .. end : k \in Nat
  BY <1>1
<1> QED BY <1>5, <1>6 DEF S, r1, r2

(* A test function looks at the CPU and at what the steps return, so that it  *)
(* says the same of two runs that agree.                                      *)

SameTest(t1, t2, K) == t1.calls = t2.calls /\ Agree(t1.m, t2.m, K)

LEMMA TestedAgree ==
  ASSUME NEW m1, NEW m2, NEW K, Agree(m1, m2, K), NEW p1, NEW p2, p1 <=> p2
  PROVE  SameTest(Tested(m1, p1), Tested(m2, p2), K)
<1>1. Verdict(p1) = Verdict(p2)
  BY DEF Verdict
<1> QED BY <1>1 DEF SameTest, Tested

LEMMA CompareAgree ==
  ASSUME NEW K, NEW m1, NEW m2, NEW n1, NEW n2, Agree(m1, m2, K), Agree(n1, n2, K),
         NEW dest, NEW value, NEW pc, NEW k, NEW wrong
  PROVE  compare_model(m1, model_state(n1, dest, value, pc), k, wrong)
           <=> compare_model(m2, model_state(n2, dest, value, pc), k, wrong)
BY DEF Agree, compare_model, model_state

LEMMA ErrorAgree ==
  ASSUME NEW K, NEW m1, NEW m2, Agree(m1, m2, K), NEW err, NEW k, NEW wrong
  PROVE  SameError(m1, err, k, wrong) <=> SameError(m2, err, k, wrong)
BY DEF Agree, SameError

LEMMA NormalAgree ==
  ASSUME NEW K, NEW row, NEW m1, NEW m2, Agree(m1, m2, K), NEW r1, NEW r2, NEW wrong,
         \A k \in 1 .. 5 : Agree(r1[k], r2[k], K)
  PROVE  SameTest(NormalSays(row, m1, r1, wrong), NormalSays(row, m2, r2, wrong), K)
<1> DEFINE e1 == SameError(r1[5], row.exp_err, 1, wrong)
           e2 == SameError(r2[5], row.exp_err, 1, wrong)
           c1 == compare_model(r1[5], model_state(r1[4], NormalDest(row), row.ans, 4), 1, wrong)
           c2 == compare_model(r2[5], model_state(r2[4], NormalDest(row), row.ans, 4), 1, wrong)
<1>1. Agree(r1[4], r2[4], K) /\ Agree(r1[5], r2[5], K)
  OBVIOUS
<1>2. (e1 <=> e2) /\ (c1 <=> c2) /\ r1[5].err = r2[5].err
  <2>1. (e1 <=> e2) /\ (c1 <=> c2)
    BY <1>1, ErrorAgree, CompareAgree
  <2>2. r1[5].err = r2[5].err
    BY <1>1 DEF Agree
  <2> QED BY <2>1, <2>2
<1> HIDE DEF e1, e2, c1, c2
<1>3. /\ SameTest(Tested(m1, FALSE), Tested(m2, FALSE), K)
      /\ SameTest(Tested(r1[5], e1), Tested(r2[5], e2), K)
      /\ SameTest(Tested(r1[5], c1), Tested(r2[5], c2), K)
  BY <1>1, <1>2, TestedAgree
<1> QED BY <1>2, <1>3 DEF NormalSays, e1, e2, c1, c2

LEMMA MemReadAgree ==
  ASSUME NEW K, NEW row, NEW r1, NEW r2, NEW wrong, \A k \in 1 .. 5 : Agree(r1[k], r2[k], K)
  PROVE  SameTest(MemReadSays(row, r1, wrong), MemReadSays(row, r2, wrong), K)
<1> DEFINE e1 == SameError(r1[5], row.exp_err, 1, wrong)
           e2 == SameError(r2[5], row.exp_err, 1, wrong)
           c1 == compare_model(r1[5], model_state(r1[4], row.ins.t, row.ans, 4), 1, wrong)
           c2 == compare_model(r2[5], model_state(r2[4], row.ins.t, row.ans, 4), 1, wrong)
<1>1. Agree(r1[4], r2[4], K) /\ Agree(r1[5], r2[5], K)
  OBVIOUS
<1>2. (e1 <=> e2) /\ (c1 <=> c2) /\ r1[5].err = r2[5].err
  <2>1. (e1 <=> e2) /\ (c1 <=> c2)
    BY <1>1, ErrorAgree, CompareAgree
  <2>2. r1[5].err = r2[5].err
    BY <1>1 DEF Agree
  <2> QED BY <2>1, <2>2
<1> HIDE DEF e1, e2, c1, c2
<1>3. /\ SameTest(Tested(r1[5], e1), Tested(r2[5], e2), K)
      /\ SameTest(Tested(r1[5], c1), Tested(r2[5], c2), K)
  BY <1>1, <1>2, TestedAgree
<1> QED BY <1>2, <1>3 DEF MemReadSays, e1, e2, c1, c2

(* The stored word is read back, but only looked at after the step went well. *)
LEMMA MemWriteAgree ==
  ASSUME NEW K, NEW row, NEW r1, NEW r2, NEW wrong, \A k \in 1 .. 6 : Agree(r1[k], r2[k], K),
         row.memloc \in Int,
         row.exp_err = Success /\ r1[6].cpu.pc = 4 /\ Readable(r1[6], row.memloc) =>
           \A a \in row.memloc .. row.memloc + 3 : r1[6].data[a] = r2[6].data[a]
  PROVE  SameTest(MemWriteSays(row, r1, wrong), MemWriteSays(row, r2, wrong), K)
<1> DEFINE e1 == SameError(r1[6], row.exp_err, 1, wrong)
           e2 == SameError(r2[6], row.exp_err, 1, wrong)
           c1 == compare_model(r1[6], model_state(r1[5], 0, 0, 4), 1, wrong)
           c2 == compare_model(r2[6], model_state(r2[5], 0, 0, 4), 1, wrong)
           b1 == ReadsBack(r1[6], row.memloc, row.ans)
           b2 == ReadsBack(r2[6], row.memloc, row.ans)
           p1 == c1 /\ b1 /\ wrong # 2
           p2 == c2 /\ b2 /\ wrong # 2
<1>1. Agree(r1[5], r2[5], K) /\ Agree(r1[6], r2[6], K)
  OBVIOUS
<1>2. (e1 <=> e2) /\ (c1 <=> c2)
  BY <1>1, ErrorAgree, CompareAgree
<1>3. row.exp_err = Success /\ c1 => (b1 <=> b2)
  <2> SUFFICES ASSUME row.exp_err = Success, c1, Readable(r1[6], row.memloc)
               PROVE  b1 <=> b2
    <3>1. Readable(r1[6], row.memloc) <=> Readable(r2[6], row.memloc)
      BY <1>1 DEF Readable, Agree
    <3> QED BY <3>1 DEF ReadsBack
  <2>1. r1[6].cpu.pc = 4
    BY DEF compare_model, model_state
  <2>2. row.memloc + 4 - 1 = row.memloc + 3
    OBVIOUS
  <2>3. \A a \in row.memloc .. row.memloc + 4 - 1 : r1[6].data[a] = r2[6].data[a]
    BY <2>1, <2>2
  <2>4. mips_mem_read(r1[6].data, row.memloc, 4) = mips_mem_read(r2[6].data, row.memloc, 4)
    <3> HIDE DEF c1
    <3> QED BY <2>3, ReadsAgree
  <2>5. Readable(r2[6], row.memloc)
    BY <1>1 DEF Readable, Agree
  <2> QED BY <2>4, <2>5 DEF ReadsBack
<1> HIDE DEF e1, e2, c1, c2, b1, b2
<1>4. row.exp_err = Success => (p1 <=> p2)
  BY <1>2, <1>3
<1> HIDE DEF p1, p2
<1>5. /\ SameTest(Tested(r1[6], e1), Tested(r2[6], e2), K)
      /\ row.exp_err = Success => SameTest(Tested(r1[6], p1), Tested(r2[6], p2), K)
  BY <1>1, <1>2, <1>4, TestedAgree
<1> QED BY <1>5 DEF MemWriteSays, e1, e2, p1, p2, c1, c2, b1, b2

LEMMA MtMfAgree ==
  ASSUME NEW K, NEW row, NEW r1, NEW r2, NEW wrong, \A k \in 1 .. 5 : Agree(r1[k], r2[k], K)
  PROVE  SameTest(MtMfSays(row, r1, wrong), MtMfSays(row, r2, wrong), K)
<1> DEFINE e1 == SameError(r1[3], row.exp_err, 1, wrong)
           e2 == SameError(r2[3], row.exp_err, 1, wrong)
           c1 == compare_model(r1[3], model_state(r1[2], 0, 0, 4), 1, wrong)
           c2 == compare_model(r2[3], model_state(r2[2], 0, 0, 4), 1, wrong)
           d1 == compare_model(r1[5], model_state(r1[3], 16, row.ans, 8), 2, wrong)
           d2 == compare_model(r2[5], model_state(r2[3], 16, row.ans, 8), 2, wrong)
           back == << End(0, "row") >> \o Helper(MovesBack(row), FALSE, "failing")
<1>1. Agree(r1[2], r2[2], K) /\ Agree(r1[3], r2[3], K) /\ Agree(r1[5], r2[5], K)
  OBVIOUS
<1>2. (e1 <=> e2) /\ (c1 <=> c2) /\ (d1 <=> d2)
  BY <1>1, ErrorAgree, CompareAgree
<1> HIDE DEF e1, e2, c1, c2, d1, d2, back
<1>3. /\ SameTest(Tested(r1[3], e1), Tested(r2[3], e2), K)
      /\ SameTest(Tested(r1[3], FALSE), Tested(r2[3], FALSE), K)
      /\ SameTest(Tested(r1[5], TRUE), Tested(r2[5], TRUE), K)
  BY <1>1, <1>2, TestedAgree
<1>4. SameTest([m |-> r1[5], calls |-> back], [m |-> r2[5], calls |-> back], K)
  BY <1>1 DEF SameTest
<1> QED BY <1>2, <1>3, <1>4 DEF MtMfSays, e1, e2, c1, c2, d1, d2, back

LEMMA MultDivAgree ==
  ASSUME NEW K, NEW row, NEW r1, NEW r2, NEW wrong, \A k \in 1 .. 8 : Agree(r1[k], r2[k], K)
  PROVE  SameTest(MultDivSays(row, r1, wrong), MultDivSays(row, r2, wrong), K)
<1> DEFINE e1 == SameError(r1[4], row.exp_err, 1, wrong)
           e2 == SameError(r2[4], row.exp_err, 1, wrong)
<1>1. /\ Agree(r1[3], r2[3], K) /\ Agree(r1[4], r2[4], K)
      /\ Agree(r1[6], r2[6], K) /\ Agree(r1[8], r2[8], K)
  OBVIOUS
<1>2. /\ e1 <=> e2
      /\ Ok1(row, r1, wrong) = Ok1(row, r2, wrong)
      /\ Ok2(row, r1, wrong) = Ok2(row, r2, wrong)
      /\ Ok3(row, r1, wrong) = Ok3(row, r2, wrong)
  <2>1. e1 <=> e2
    BY <1>1, ErrorAgree
  <2>2. /\ Ok1(row, r1, wrong) <=> Ok1(row, r2, wrong)
        /\ Ok2(row, r1, wrong) <=> Ok2(row, r2, wrong)
        /\ Ok3(row, r1, wrong) <=> Ok3(row, r2, wrong)
    BY <1>1, CompareAgree DEF Ok1, Ok2, Ok3
  <2> QED BY <2>1, <2>2 DEF Ok1, Ok2, Ok3, compare_model
<1> HIDE DEF e1, e2
<1>3. SameTest(Tested(r1[4], e1), Tested(r2[4], e2), K)
  BY <1>1, <1>2, TestedAgree
<1>4. \A c : /\ SameTest([m |-> r1[6], calls |-> c], [m |-> r2[6], calls |-> c], K)
            /\ SameTest([m |-> r1[8], calls |-> c], [m |-> r2[8], calls |-> c], K)
  BY <1>1 DEF SameTest
<1> QED BY <1>2, <1>3, <1>4 DEF MultDivSays, e1, e2

LEMMA BranchAgree ==
  ASSUME NEW K, NEW row, NEW m1, NEW m2, Agree(m1, m2, K), NEW r1, NEW r2, NEW wrong,
         row.format \in BranchFormats /\ row.exp_err1 = Success => row.branch,
         NEW L, L = (IF row.format \notin BranchFormats THEN 0
                     ELSE IF row.exp_err1 # Success THEN 6 ELSE 15),
         \A k \in 1 .. L : Agree(r1[k], r2[k], K)
  PROVE  SameTest(BranchSays(row, m1, r1, wrong), BranchSays(row, m2, r2, wrong), K)
<1> DEFINE target == ExpectedTarget(row)
           link == IF row.link THEN Plus(row.loc, 8) ELSE 0
           Slot(m, pc) == compare_model(m[10], model_state(m[9], 6, 5, pc), 2, wrong)
           Fails(m) == SameError(m[6], row.exp_err1, 1, wrong)
           Jumps(m) ==
             compare_model(m[9], model_state(m[7], LinkDest(row), link, Plus(row.loc, 4)), 1, wrong)
           FailsThere(m) == SameError(m[15], row.exp_err3, 3, wrong)
           Lands(m) == compare_model(m[14], model_state(m[13], 18, 9, Plus(target, 4)), 3, wrong)
<1>1. ASSUME NEW m0, NEW m, row.format \in BranchFormats
      PROVE  BranchSays(row, m0, m, wrong) =
             IF row.exp_err1 # Success THEN Tested(m[6], Fails(m))
             ELSE IF ~Jumps(m) THEN Tested(m[9], FALSE)
             ELSE IF ~Slot(m, target) THEN Tested(m[10], FALSE)
             ELSE IF row.exp_err3 # Success THEN Tested(m[15], FailsThere(m))
             ELSE Tested(m[14], Lands(m))
  BY <1>1 DEF BranchSays
<1> DEFINE b1 == BranchSays(row, m1, r1, wrong)
           b2 == BranchSays(row, m2, r2, wrong)
<1>2. CASE row.format \in BranchFormats /\ row.exp_err1 # Success
  <2>1. b1 = Tested(r1[6], Fails(r1)) /\ b2 = Tested(r2[6], Fails(r2))
    BY <1>1, <1>2
  <2>2. Agree(r1[6], r2[6], K)
    BY <1>2
  <2>3. Fails(r1) <=> Fails(r2)
    BY <2>2, ErrorAgree
  <2> HIDE DEF Fails, b1, b2
  <2> QED BY <2>1, <2>2, <2>3, TestedAgree DEF b1, b2
<1>3. CASE row.format \in BranchFormats /\ row.exp_err1 = Success
  <2>1. Agree(r1[7], r2[7], K) /\ Agree(r1[9], r2[9], K) /\ Agree(r1[10], r2[10], K)
    <3>1. 7 \in 1 .. L /\ 9 \in 1 .. L /\ 10 \in 1 .. L
      BY <1>3
    <3> QED BY <3>1
  <2>2. /\ Jumps(r1) <=> Jumps(r2)
        /\ \A pc : Slot(r1, pc) <=> Slot(r2, pc)
    BY <2>1, CompareAgree
  <2>3. CASE ~Jumps(r1)
    <3>1. b1 = Tested(r1[9], FALSE) /\ b2 = Tested(r2[9], FALSE)
      <4> HIDE DEF Jumps
      <4> QED BY <1>1, <1>3, <2>2, <2>3
    <3> HIDE DEF b1, b2
    <3> QED BY <2>1, <3>1, TestedAgree DEF b1, b2
  <2>4. CASE Jumps(r1) /\ ~Slot(r1, target)
    <3>1. b1 = Tested(r1[10], FALSE) /\ b2 = Tested(r2[10], FALSE)
      <4> HIDE DEF Jumps, Slot
      <4> QED BY <1>1, <1>3, <2>2, <2>4
    <3> HIDE DEF b1, b2
    <3> QED BY <2>1, <3>1, TestedAgree DEF b1, b2
  <2>5. CASE Jumps(r1) /\ Slot(r1, target)
    <3>1. Agree(r1[13], r2[13], K) /\ Agree(r1[14], r2[14], K) /\ Agree(r1[15], r2[15], K)
      <4>1. 13 \in 1 .. L /\ 14 \in 1 .. L /\ 15 \in 1 .. L
        BY <1>3, <2>5
      <4> QED BY <4>1
    <3>2. (FailsThere(r1) <=> FailsThere(r2)) /\ (Lands(r1) <=> Lands(r2))
      BY <3>1, ErrorAgree, CompareAgree
    <3>3. /\ b1 = IF row.exp_err3 # Success THEN Tested(r1[15], FailsThere(r1))
                  ELSE Tested(r1[14], Lands(r1))
          /\ b2 = IF row.exp_err3 # Success THEN Tested(r2[15], FailsThere(r2))
                  ELSE Tested(r2[14], Lands(r2))
      <4> HIDE DEF Jumps, Slot, FailsThere, Lands
      <4> QED BY <1>1, <1>3, <2>2, <2>5
    <3> HIDE DEF b1, b2, FailsThere, Lands
    <3>4. /\ SameTest(Tested(r1[15], FailsThere(r1)), Tested(r2[15], FailsThere(r2)), K)
          /\ SameTest(Tested(r1[14], Lands(r1)), Tested(r2[14], Lands(r2)), K)
      BY <3>1, <3>2, TestedAgree
    <3> QED BY <3>3, <3>4 DEF b1, b2
  <2> HIDE DEF Jumps, Slot
  <2> QED BY <2>3, <2>4, <2>5
<1>4. CASE row.format \notin BranchFormats
  <2>1. b1 = Tested(m1, FALSE) /\ b2 = Tested(m2, FALSE)
    BY <1>4 DEF BranchSays
  <2> HIDE DEF b1, b2
  <2> QED BY <2>1, TestedAgree DEF b1, b2
<1> QED BY <1>2, <1>3, <1>4

----------------------------------------------------------------------------
(* A row of a file meets the RAM that the rows before it have left, and does  *)
(* what it does alone, but for the last step after a branch that is not taken.*)

(* A machine that begins a row, whatever its RAM holds.                       *)
Beginning(row, mem, m) ==
  /\ Columns(row) /\ EndsItsTests(row) /\ DriverIsSafe
  /\ mem \in RamHandles /\ m \in Machine(mem) /\ m.cpu = Created(mem) /\ m.err = Success
  /\ StandsAlone(row, mem)

LEMMA AloneType ==
  ASSUME NEW mem \in RamHandles
  PROVE  /\ Alone(mem) \in Machine(mem) /\ Alone(mem).cpu = Created(mem)
         /\ Alone(mem).data = FreshRam /\ Alone(mem).err = Success
<1>1. mem \in Handle /\ FreshRam \in RamData
  BY DriverAssumption
<1>2. Created(mem) \in mips_cpu_impl /\ Created(mem).mem = mem /\ Created(mem).regs[0] = 0
  BY <1>1, CreatedType
<1>3. Success \in Outcomes
  BY DEF Outcomes, mips_error
<1> QED BY <1>1, <1>2, <1>3 DEF Machine, Alone

LEMMA RowOpsType ==
  ASSUME NEW row, Columns(row), EndsItsTests(row), DriverIsSafe
  PROVE  RowOps(row) \in Seq(Operations)
<1> DEFINE o1 == NormalOps(row)
           o2 == BranchOps(row)
           o3 == MemWriteOps(row)
           o4 == MemReadOps(row)
           o5 == MtMfOps(row)
           o6 == MultDivOps(row)
<1>1. /\ row.type = "Normal" => o1 \in Seq(Operations)
      /\ row.type = "Branch" => o2 \in Seq(Operations)
      /\ row.type = "MemWrite" => o3 \in Seq(Operations)
      /\ row.type = "MemRead" => o4 \in Seq(Operations)
      /\ row.type = "MTMF" => o5 \in Seq(Operations)
      /\ row.type = "MultDiv" => o6 \in Seq(Operations)
  BY NormalOpsType, BranchOpsType, MemWriteOpsType, MemReadOpsType, MtMfOpsType, MultDivOpsType
<1>2. RowOps(row) = CASE row.type = "Normal" -> o1
                      [] row.type = "Branch" -> o2
                      [] row.type = "MemWrite" -> o3
                      [] row.type = "MemRead" -> o4
                      [] row.type = "MTMF" -> o5
                      [] row.type = "MultDiv" -> o6
  BY DEF RowOps
<1> HIDE DEF o1, o2, o3, o4, o5, o6
<1> QED BY <1>1, <1>2 DEF EndsItsTests

LEMMA RowRunsAgree ==
  ASSUME NEW row, NEW mem, NEW m, Beginning(row, mem, m), NEW end \in 0 .. Len(RowOps(row)),
         NotTaken(row) => end < Len(RowOps(row))
  PROVE  /\ RowOps(row) \in Seq(Operations)
         /\ Alone(mem) \in Machine(mem) /\ Agree(Alone(mem), m, {})
         /\ \A k \in 1 .. end :
              Agree(Run(Alone(mem), RowOps(row))[k], Run(m, RowOps(row))[k],
                    Known(mem, RowOps(row), k))
<1> DEFINE a == Alone(mem)
           ops == RowOps(row)
<1>1. a \in Machine(mem) /\ a.cpu = Created(mem) /\ a.err = Success
  BY AloneType DEF Beginning
<1>2. ops \in Seq(Operations) /\ Len(ops) \in Nat
  BY RowOpsType DEF Beginning
<1>3. mem \in RamHandles /\ m \in Machine(mem) /\ m.cpu = Created(mem) /\ m.err = Success
  BY DEF Beginning
<1>4. \A k \in 1 .. end :
        ops[k].op = "step" =>
          ReadsWithin(IF k = 1 THEN a ELSE Run(a, ops)[k - 1], Known(mem, ops, k))
  <2>1. StandsAlone(row, mem)
    BY DEF Beginning
  <2>2. \A k \in 1 .. end : k \in 1 .. Len(ops) /\ (NotTaken(row) => k # Len(ops))
    BY <1>2
  <2> HIDE DEF ops
  <2> QED BY <2>1, <2>2 DEF StandsAlone, ops
<1> HIDE DEF a, ops
<1>5. Agree(a, m, {})
  BY <1>1, <1>3 DEF Agree
<1>6. end \in 0 .. Len(ops)
  BY DEF ops
<1>7. \A k \in 1 .. end : Agree(Run(a, ops)[k], Run(m, ops)[k], Known(mem, ops, k))
  BY <1>1, <1>2, <1>3, <1>4, <1>5, <1>6, RunAgree
<1> QED BY <1>1, <1>2, <1>5, <1>7 DEF a, ops

LEMMA AgreeLess ==
  ASSUME NEW m1, NEW m2, NEW K, NEW U, U \subseteq K, Agree(m1, m2, K)
  PROVE  Agree(m1, m2, U)
BY DEF Agree

LEMMA RowSame ==
  ASSUME NEW row, NEW mem, NEW m, NEW wrong, Beginning(row, mem, m), ~NotTaken(row)
  PROVE  SameTest(run_row(row, Alone(mem), wrong), run_row(row, m, wrong), {})
<1> DEFINE a == Alone(mem)
           ops == RowOps(row)
           U == {}
           r1 == Run(a, ops)
           r2 == Run(m, ops)
<1>1. /\ Columns(row) /\ DriverIsSafe /\ EndsItsTests(row)
      /\ StandsAlone(row, mem)
  BY DEF Beginning
<1>2. /\ ops \in Seq(Operations) /\ Agree(a, m, U)
      /\ \A k \in 1 .. Len(ops) : Agree(r1[k], r2[k], Known(mem, ops, k))
  <2>1. Len(ops) \in 0 .. Len(ops)
    BY <1>1, RowOpsType
  <2> QED BY <2>1, RowRunsAgree
<1> DEFINE L == Len(ops)
<1>3. \A k \in 1 .. L : Agree(r1[k], r2[k], U)
  BY <1>2, AgreeLess
<1>4. CASE row.type = "Normal"
  <2>1. ops = NormalOps(row)
    BY <1>4 DEF RowOps
  <2>2. L = 5
    BY <1>1, <1>4, <2>1, NormalOpsType, Zenon
  <2>3. /\ run_row(row, a, wrong) = NormalSays(row, a, r1, wrong)
        /\ run_row(row, m, wrong) = NormalSays(row, m, r2, wrong)
    BY <1>4, <2>1, NormalIs DEF run_row
  <2> HIDE DEF ops, a, U, r1, r2, L
  <2>4. \A k \in 1 .. 5 : Agree(r1[k], r2[k], U)
    BY <1>3, <2>2
  <2> QED BY <1>2, <2>3, <2>4, NormalAgree DEF a, U
<1>5. CASE row.type = "MemRead"
  <2>1. ops = MemReadOps(row)
    BY <1>5 DEF RowOps
  <2>2. L = 5
    BY <1>1, <1>5, <2>1, MemReadOpsType, Zenon
  <2>3. /\ run_row(row, a, wrong) = MemReadSays(row, r1, wrong)
        /\ run_row(row, m, wrong) = MemReadSays(row, r2, wrong)
    BY <1>5, <2>1, MemReadIs DEF run_row
  <2> HIDE DEF ops, a, U, r1, r2, L
  <2>4. \A k \in 1 .. 5 : Agree(r1[k], r2[k], U)
    BY <1>3, <2>2
  <2> QED BY <1>2, <2>3, <2>4, MemReadAgree DEF a, U
<1>6. CASE row.type = "MTMF"
  <2>1. ops = MtMfOps(row)
    BY <1>6 DEF RowOps
  <2>2. L = 5
    BY <1>1, <1>6, <2>1, MtMfOpsType, Zenon
  <2>3. /\ run_row(row, a, wrong) = MtMfSays(row, r1, wrong)
        /\ run_row(row, m, wrong) = MtMfSays(row, r2, wrong)
    BY <1>6, <2>1, MtMfIs DEF run_row
  <2> HIDE DEF ops, a, U, r1, r2, L
  <2>4. \A k \in 1 .. 5 : Agree(r1[k], r2[k], U)
    BY <1>3, <2>2
  <2> QED BY <1>2, <2>3, <2>4, MtMfAgree DEF a, U
<1>7. CASE row.type = "MultDiv"
  <2>1. ops = MultDivOps(row)
    BY <1>7 DEF RowOps
  <2>2. L = 8
    BY <1>1, <1>7, <2>1, MultDivOpsType, Zenon
  <2>3. /\ run_row(row, a, wrong) = MultDivSays(row, r1, wrong)
        /\ run_row(row, m, wrong) = MultDivSays(row, r2, wrong)
    BY <1>7, <2>1, MultDivIs DEF run_row
  <2> HIDE DEF ops, a, U, r1, r2, L
  <2>4. \A k \in 1 .. 8 : Agree(r1[k], r2[k], U)
    BY <1>3, <2>2
  <2> QED BY <1>2, <2>3, <2>4, MultDivAgree DEF a, U
<1>8. CASE row.type = "Branch"
  <2>1. ops = BranchOps(row)
    BY <1>8 DEF RowOps
  <2>2. row.format \in BranchFormats /\ row.exp_err1 = Success => row.branch
    BY <1>8 DEF NotTaken
  <2>3. L = IF row.format \notin BranchFormats THEN 0
            ELSE IF row.exp_err1 # Success THEN 6 ELSE 15
    <3>1. L = IF row.format \notin BranchFormats THEN 0
              ELSE IF row.exp_err1 # Success THEN 6 ELSE IF row.branch THEN 15 ELSE 11
      BY <1>1, <1>8, <2>1, BranchOpsType, Zenon
    <3> QED BY <2>2, <3>1
  <2>4. /\ run_row(row, a, wrong) = BranchSays(row, a, r1, wrong)
        /\ run_row(row, m, wrong) = BranchSays(row, m, r2, wrong)
    BY <1>8, <2>1, BranchIs DEF run_row
  <2> HIDE DEF ops, a, U, r1, r2, L
  <2> QED BY <1>2, <1>3, <2>2, <2>3, <2>4, BranchAgree DEF a, U
<1>9. CASE row.type = "MemWrite"
  <2>1. ops = MemWriteOps(row)
    BY <1>9 DEF RowOps
  <2>2. L = 6
    BY <1>1, <1>9, <2>1, MemWriteOpsType, Zenon
  <2>3. /\ run_row(row, a, wrong) = MemWriteSays(row, r1, wrong)
        /\ run_row(row, m, wrong) = MemWriteSays(row, r2, wrong)
    BY <1>9, <2>1, MemWriteIs DEF run_row
  <2>4. row.memloc \in Int
    BY <1>1, <1>9, WordIsInt DEF Columns
  <2>5. row.exp_err = Success /\ r1[6].cpu.pc = 4 /\ Readable(r1[6], row.memloc) =>
          row.memloc .. row.memloc + 3 \subseteq Known(mem, ops, 6)
    BY <1>1, <1>9 DEF StandsAlone
  <2> HIDE DEF ops, a, U, r1, r2, L
  <2>6. \A k \in 1 .. 6 : Agree(r1[k], r2[k], U)
    BY <1>3, <2>2
  <2>7. Agree(r1[6], r2[6], Known(mem, ops, 6))
    BY <1>2, <2>2 DEF L
  <2>8. row.exp_err = Success /\ r1[6].cpu.pc = 4 /\ Readable(r1[6], row.memloc) =>
          \A x \in row.memloc .. row.memloc + 3 : r1[6].data[x] = r2[6].data[x]
    BY <2>5, <2>7 DEF Agree
  <2> QED BY <1>2, <2>3, <2>4, <2>6, <2>8, MemWriteAgree DEF a, U
<1> QED BY <1>1, <1>4, <1>5, <1>6, <1>7, <1>8, <1>9 DEF EndsItsTests

(* What a test that passes or fails tells the framework.                      *)
AllPass(c) == \A k \in 1 .. Len(c) : c[k].fn = "end" => c[k].passed = 1

Judged(r, deserved) ==
  r.m.err # Killed => IF deserved THEN AllPass(r.calls) ELSE Head(r.calls).passed = 0

LEMMA TestedCalls ==
  ASSUME NEW m, NEW p
  PROVE  LET t == Tested(m, p)
         IN  /\ t.m = m
             /\ p => AllPass(t.calls) /\ Head(t.calls).passed # 0
             /\ ~p => ~AllPass(t.calls) /\ Head(t.calls).passed = 0
<1> DEFINE t == Tested(m, p)
           e == End(Verdict(p), "row")
<1>1. t.m = m /\ t.calls = << e >>
  BY DEF Tested
<1>2. e.fn = "end" /\ e.passed = Verdict(p)
  BY DEF End
<1> HIDE DEF t, e
<1>3. Head(t.calls) = e /\ Len(t.calls) = 1 /\ t.calls[1] = e
  BY <1>1
<1>4. AllPass(t.calls) <=> e.passed = 1
  BY <1>2, <1>3 DEF AllPass
<1>5. (p => e.passed = 1) /\ (~p => e.passed = 0)
  BY <1>2 DEF Verdict
<1> QED BY <1>1, <1>3, <1>4, <1>5 DEF t

(* The two steps that end a branch that is not taken.                         *)
LEMMA LastOps ==
  ASSUME NEW row, NotTaken(row)
  PROVE  BranchOps(row)[10] = AStep /\ BranchOps(row)[11] = AStep
<1> DEFINE p1 == If(row.format # "J", Set(row.ins.s, row.s_val))
           p2 == If(row.format = "I", Set(row.ins.t, row.t_val))
           p3 == If(row.link, Set(LinkDest(row), 1))
           p4 == WriteInstr(row.loc, row.ins)
           p5 == If(row.loc % 4 = 0, PlaceAt(row.loc))
           q1 == Set(4, 3)
           q2 == Set(5, 2)
           q3 == WriteInstr(Plus(row.loc, 4), Addu(4, 5, 6))
           o == AStep
<1>1. BranchOps(row) = << p1, p2, p3, p4, p5 >> \o (<< q1, q2, q3, o, o >> \o << o >>)
  BY DEF NotTaken, BranchOps, PlacedOps, SlotOps
<1> HIDE DEF p1, p2, p3, p4, p5, q1, q2, q3, o
<1> DEFINE placed == << p1, p2, p3, p4, p5 >>
           slot == << q1, q2, q3, o, o >>
           last == << o >>
           S == {p1, p2, p3, p4, p5, q1, q2, q3, o}
<1>2. /\ placed \in Seq(S) /\ Len(placed) = 5
      /\ slot \in Seq(S) /\ Len(slot) = 5 /\ slot[5] = o
      /\ last \in Seq(S) /\ Len(last) = 1 /\ last[1] = o
  <2>1. /\ p1 \in S /\ p2 \in S /\ p3 \in S /\ p4 \in S /\ p5 \in S
        /\ q1 \in S /\ q2 \in S /\ q3 \in S /\ o \in S
    OBVIOUS
  <2> HIDE DEF S
  <2> QED BY <2>1
<1> HIDE DEF placed, slot, last, S
<1>3. /\ slot \o last \in Seq(S) /\ Len(slot \o last) = 6
      /\ (slot \o last)[5] = o /\ (slot \o last)[6] = o
  <2>1. /\ slot \o last \in Seq(S) /\ Len(slot \o last) = Len(slot) + Len(last)
        /\ \A k \in 1 .. Len(slot) + Len(last) :
             (slot \o last)[k] = IF k <= Len(slot) THEN slot[k] ELSE last[k - Len(slot)]
    BY <1>2, ConcatProperties
  <2>2. /\ 5 \in 1 .. Len(slot) + Len(last) /\ 5 <= Len(slot)
        /\ 6 \in 1 .. Len(slot) + Len(last) /\ ~(6 <= Len(slot)) /\ 6 - Len(slot) = 1
    BY <1>2
  <2> QED BY <1>2, <2>1, <2>2
<1> DEFINE more == slot \o last
<1> HIDE DEF more
<1>4. (placed \o more)[10] = o /\ (placed \o more)[11] = o
  <2>1. more \in Seq(S) /\ Len(more) = 6 /\ more[5] = o /\ more[6] = o
    BY <1>3 DEF more
  <2>2. \A k \in 1 .. Len(placed) + Len(more) :
          (placed \o more)[k] = IF k <= Len(placed) THEN placed[k] ELSE more[k - Len(placed)]
    BY <1>2, <2>1, ConcatProperties
  <2>3. /\ 10 \in 1 .. Len(placed) + Len(more) /\ ~(10 <= Len(placed)) /\ 10 - Len(placed) = 5
        /\ 11 \in 1 .. Len(placed) + Len(more) /\ ~(11 <= Len(placed)) /\ 11 - Len(placed) = 6
    BY <1>2, <2>1
  <2> QED BY <2>1, <2>2, <2>3
<1>5. BranchOps(row) = placed \o more
  BY <1>1 DEF placed, slot, last, more
<1> HIDE DEF o
<1>6. BranchOps(row)[10] = o /\ BranchOps(row)[11] = o
  BY <1>4, <1>5, Zenon
<1> QED BY <1>6 DEF o

(* They run where the step before has left the pc and the next pc.            *)
LEMMA LastSteps ==
  ASSUME NEW row, NEW mem, NEW m \in Machine(mem),
         NotTaken(row), Columns(row), DriverIsSafe
  PROVE  LET ms == Run(m, BranchOps(row))
         IN  /\ \A k \in {9, 10, 11} : ms[k] \in Machine(mem)
             /\ ms[10] = Step(ms[9]) /\ ms[11] = Step(ms[10])
<1> DEFINE ops == BranchOps(row)
           ms == Run(m, ops)
<1>1. ops \in Seq(Operations) /\ Len(ops) = 11
  BY BranchOpsType DEF NotTaken
<1>2. ops[10] = AStep /\ ops[11] = AStep
  BY LastOps
<1> HIDE DEF ops
<1>3. IsRun(ms, m, ops, mem, 11) /\ \A k \in 1 .. 11 : ms[k] \in Machine(mem)
  BY <1>1, RunMachines, RunTyped
<1> HIDE DEF ms
<1>4. \A k \in {9, 10, 11} : ms[k] \in Machine(mem)
  BY <1>3
<1>5. ms[10] = Perform(ms[9], AStep) /\ ms[11] = Perform(ms[10], AStep)
  BY <1>2, <1>3 DEF IsRun
<1>6. \A x : Perform(x, AStep) = Step(x)
  BY DEF Perform, AStep
<1> QED BY <1>4, <1>5, <1>6 DEF ms, ops

LEMMA PlacesDiffer ==
  ASSUME NEW loc \in Int
  PROVE  Plus(loc, 4) # Plus(loc, 8) /\ Plus(loc, 8) # Plus(loc, 12)
<1>1. WordSize \in Nat /\ WordSize > 4
  BY WordMultiple
<1>2. ASSUME NEW x \in Int PROVE x % WordSize # (x + 4) % WordSize
  <2> DEFINE q == x \div WordSize
             r == (x + 4) \div WordSize
  <2>1. /\ q \in Int /\ r \in Int
        /\ x = q * WordSize + (x % WordSize)
        /\ x + 4 = r * WordSize + ((x + 4) % WordSize)
    BY <1>1, DivModOf
  <2> HIDE DEF q, r
  <2>2. ASSUME x % WordSize = (x + 4) % WordSize PROVE FALSE
    <3>1. \A n \in Nat, y, z, d, e \in Int :
            y = d * n + z /\ y + 4 = e * n + z => 4 = (e - d) * n
      OBVIOUS
    <3>2. \A n \in Nat, d \in Int : n > 4 => 4 # d * n
      OBVIOUS
    <3>3. x % WordSize \in Int
      BY <1>1, DivModOf
    <3>4. 4 = (r - q) * WordSize /\ r - q \in Int
      BY <1>1, <2>1, <2>2, <3>1, <3>3
    <3> QED BY <1>1, <3>2, <3>4
  <2> QED BY <2>2
<1> QED BY <1>2 DEF Plus, ToWord

(* If the last step finds something that works, the verdict is the one of the *)
(* row alone; if it finds something that fails, the test fails.               *)
LEMMA NotTakenJudged ==
  ASSUME NEW row, NEW mem, NEW m, NEW wrong, Beginning(row, mem, m), NotTaken(row),
         JudgedAlone(row, mem, wrong)
  PROVE  LET r == run_row(row, m, wrong)
         IN  Judged(r, Right(row, wrong, mem) /\ r.m.err = Success)
<1> DEFINE a == Alone(mem)
           ops == BranchOps(row)
           m1 == Run(a, ops)
           m2 == Run(m, ops)
           link == IF row.link THEN Plus(row.loc, 8) ELSE 0
           Jumps(x) ==
             compare_model(x[9], model_state(x[7], LinkDest(row), link, Plus(row.loc, 4)), 1, wrong)
           Falls(x) ==
             /\ compare_model(x[10], model_state(x[9], 6, 5, Plus(row.loc, 8)), 2, wrong)
             /\ x[11].cpu.pc = Plus(row.loc, 12) /\ wrong # 3
           t1 == run_row(row, a, wrong)
           t2 == run_row(row, m, wrong)
           right == Right(row, wrong, mem)
<1>1. /\ Columns(row) /\ DriverIsSafe /\ row.type = "Branch" /\ m \in Machine(mem)
      /\ row.loc \in Int
  BY WordIsInt DEF Beginning, NotTaken, Columns
<1>2. RowOps(row) = ops /\ Len(ops) = 11
  BY <1>1, BranchOpsType DEF RowOps, NotTaken
<1>3. /\ t1 = IF ~Jumps(m1) THEN Tested(m1[9], FALSE) ELSE Tested(m1[11], Falls(m1))
      /\ t2 = IF ~Jumps(m2) THEN Tested(m2[9], FALSE) ELSE Tested(m2[11], Falls(m2))
  BY <1>1, BranchIs DEF run_row, BranchSays, NotTaken
<1>4. t1.m.err # Killed =>
        IF right THEN AllPass(t1.calls) ELSE Head(t1.calls).passed = 0
  BY DEF JudgedAlone, AllPass
<1>5. a \in Machine(mem) /\ m1[11].err = m1[10].err
  BY <1>2, AloneType DEF Beginning, StandsAlone, NotTaken
<1> HIDE DEF a, ops, right
<1>6. /\ \A k \in {9, 10, 11} : m1[k] \in Machine(mem) /\ m2[k] \in Machine(mem)
      /\ m1[10] = Step(m1[9]) /\ m1[11] = Step(m1[10])
      /\ m2[10] = Step(m2[9]) /\ m2[11] = Step(m2[10])
  BY <1>1, <1>5, LastSteps DEF ops
<1> HIDE DEF m1, m2
<1>7. \A k \in {7, 9, 10} : m1[k].cpu = m2[k].cpu /\ m1[k].err = m2[k].err
  <2>1. 10 \in 0 .. Len(RowOps(row)) /\ 10 < Len(RowOps(row))
    BY <1>2
  <2>2. \A k \in 1 .. 10 : Agree(Run(a, RowOps(row))[k], Run(m, RowOps(row))[k],
                                 Known(mem, RowOps(row), k))
    BY <2>1, RowRunsAgree DEF a
  <2>3. \A k \in 1 .. 10 : Agree(m1[k], m2[k], Known(mem, ops, k))
    BY <1>2, <2>2 DEF m1, m2
  <2> QED BY <2>3 DEF Agree
<1>8. Jumps(m1) <=> Jumps(m2)
  BY <1>7 DEF compare_model, model_state
<1>9. CASE ~Jumps(m1)
  <2>1. t1 = Tested(m1[9], FALSE) /\ t2 = Tested(m2[9], FALSE)
    BY <1>3, <1>8, <1>9
  <2> HIDE DEF t1, t2, Jumps, Falls
  <2>2. /\ t1.m = m1[9] /\ t2.m = m2[9]
        /\ ~AllPass(t1.calls) /\ Head(t2.calls).passed = 0
    BY <2>1, TestedCalls
  <2> QED BY <1>4, <1>7, <2>2 DEF Judged, t2, right
<1>10. CASE Jumps(m1)
  <2>1. t1 = Tested(m1[11], Falls(m1)) /\ t2 = Tested(m2[11], Falls(m2))
    BY <1>3, <1>8, <1>10
  <2>2. m2[9].cpu.pc = Plus(row.loc, 4)
    BY <1>7, <1>10 DEF compare_model, model_state
  <2>3. /\ Falls(m2) => /\ m2[10].cpu.pc = Plus(row.loc, 8)
                        /\ m2[11].cpu.pc = Plus(row.loc, 12)
        /\ Falls(m1) => m1[10].cpu.pc = Plus(row.loc, 8)
    BY DEF compare_model, model_state
  <2>4. m1[11].cpu.pc = m2[11].cpu.pc => (Falls(m1) <=> Falls(m2))
    BY <1>7 DEF compare_model, model_state
  <2> HIDE DEF t1, t2, Jumps, Falls
  <2>5. /\ t1.m = m1[11] /\ t2.m = m2[11]
        /\ Falls(m1) => AllPass(t1.calls) /\ Head(t1.calls).passed # 0
        /\ ~Falls(m1) => ~AllPass(t1.calls)
        /\ Falls(m2) => AllPass(t2.calls)
        /\ ~Falls(m2) => Head(t2.calls).passed = 0
    BY <2>1, TestedCalls
  <2>6. m1[11].err # Killed => (Falls(m1) <=> right)
    BY <1>4, <2>5
  <2>7. CASE m2[11].err = Killed
    BY <2>5, <2>7 DEF Judged, t2
  <2>8. CASE m2[11].err # Killed /\ m2[10].err # Success
    <3>1. m2[10].err # Killed
      BY <1>6, <2>8 DEF Step
    <3>2. m2[9].err # Killed
      BY <1>6, <3>1 DEF Step
    <3>3. m2[10].cpu.pc = Plus(row.loc, 4)
      BY <1>6, <2>2, <2>8, <3>2, StepMoves
    <3>4. ~Falls(m1) /\ ~Falls(m2)
      BY <1>1, <1>7, <2>3, <3>3, PlacesDiffer
    <3>5. m1[11].err # Killed
      BY <1>5, <1>7, <3>1
    <3> QED BY <2>5, <2>6, <3>4, <3>5 DEF Judged, t2, right
  <2>9. CASE m2[11].err # Killed /\ m2[10].err = Success
    <3>1. m1[10].err = Success /\ m1[11].err = Success /\ Success # Killed
      BY <1>5, <1>7, <2>9 DEF Success, Killed
    <3>2. m1[11].cpu.pc = m1[10].cpu.nPC
      BY <1>6, <3>1, StepMoves
    <3>3. CASE m2[11].err = Success
      <4>1. m2[11].cpu.pc = m2[10].cpu.nPC
        BY <1>6, <2>9, <3>1, <3>3, StepMoves
      <4>2. Falls(m1) <=> Falls(m2)
        BY <1>7, <2>4, <3>2, <4>1
      <4> QED BY <2>5, <2>6, <3>1, <3>3, <4>2 DEF Judged, t2, right
    <3>4. CASE m2[11].err # Success
      <4>1. m2[11].cpu.pc = m2[10].cpu.pc
        BY <1>6, <2>9, <3>1, <3>4, StepMoves
      <4>2. ~Falls(m2)
        BY <1>1, <2>3, <4>1, PlacesDiffer
      <4> QED BY <2>5, <3>4, <4>2 DEF Judged, t2
    <3> QED BY <3>3, <3>4
  <2> QED BY <2>7, <2>8, <2>9
<1> QED BY <1>9, <1>10

(* What RowsStandAlone says of a row, on the RAM as the row finds it.         *)
LEMMA RowJudged ==
  ASSUME RowsStandAlone, NEW row \in RowsOfFiles, NEW mem, NEW m, NEW wrong \in Faults(row),
         Beginning(row, mem, m)
  PROVE  LET r == run_row(row, m, wrong)
         IN  Judged(r, Right(row, wrong, mem) /\ (NotTaken(row) => r.m.err = Success))
<1> DEFINE r1 == run_row(row, Alone(mem), wrong)
           r == run_row(row, m, wrong)
<1>1. mem \in RamHandles
  BY DEF Beginning
<1>2. JudgedAlone(row, mem, wrong)
  BY <1>1 DEF RowsStandAlone
<1>3. CASE NotTaken(row)
  <2>1. Judged(r, Right(row, wrong, mem) /\ r.m.err = Success)
    BY <1>2, <1>3, NotTakenJudged
  <2> HIDE DEF r
  <2> QED BY <1>3, <2>1 DEF Judged, r
<1>4. CASE ~NotTaken(row)
  <2>1. SameTest(r1, r, {})
    BY <1>4, RowSame
  <2>2. r1.m.err # Killed =>
          IF Right(row, wrong, mem) THEN AllPass(r1.calls) ELSE Head(r1.calls).passed = 0
    BY <1>2 DEF JudgedAlone, AllPass
  <2> HIDE DEF r1, r
  <2>3. r1.calls = r.calls /\ r1.m.err = r.m.err
    BY <2>1 DEF SameTest, Agree
  <2> QED BY <1>4, <2>2, <2>3 DEF Judged, r
<1> QED BY <1>3, <1>4

----------------------------------------------------------------------------
(* The invariant of the verdicts.                                             *)

RanRow ==
  [row : RowsOfFiles, wrong : UNION {Faults(row) : row \in RowsOfFiles}, err : Outcomes,
   test : Nat]
AllRight ==
  cpu.mem # NULL /\ \A k \in DOMAIN ran : Deserves(ran[k], cpu.mem)

(* Before the rows the machine is as it was made.                             *)
MachineAsMade ==
  stage \in {"suite", "create", "internal", "parse"} =>
    cpu = Created(cpu.mem) /\ data = FreshRam

EarlierClosed == \A k \in 1 .. Len(sg_tests) - 1 : sg_tests[k].status # -1

(* The test of a row is judged as it deserves, or will be by the next call.   *)
RowsJudged ==
  /\ ran \in Seq(RanRow)
  /\ \A k \in 1 .. Len(ran) :
       LET status == sg_tests[ran[k].test].status
           deserved == Deserves(ran[k], cpu.mem)
       IN  /\ ran[k].test \in 1 .. Len(sg_tests)
           /\ status # -1 => (status = 1 <=> deserved)
           /\ status = -1 /\ calls # << >> => (Head(calls).passed = 1 <=> deserved)

(* While the rows ask for nothing wrong no test fails or is about to.         *)
NothingFails ==
  AllRight => /\ \A k \in 1 .. Len(sg_tests) : sg_tests[k].status \in {-1, 1}
              /\ AllPass(calls)

Reported ==
  stage = "returned" =>
    /\ calls = << >>
    /\ AllRight => \A name \in DOMAIN report : report[name].passed = report[name].total

JudgeInv == MachineAsMade /\ EarlierClosed /\ RowsJudged /\ NothingFails /\ Reported

LEMMA AllRightBefore ==
  ASSUME ran \in Seq(RanRow), cpu'.mem = cpu.mem,
         ran' = ran \/ \E x \in RanRow : ran' = Append(ran, x)
  PROVE  /\ AllRight' => AllRight
         /\ \A k \in 1 .. Len(ran) : k \in 1 .. Len(ran') /\ ran'[k] = ran[k]
         /\ Len(ran) \in Nat /\ ran' \in Seq(RanRow)
<1>1. \A k \in 1 .. Len(ran) : k \in 1 .. Len(ran') /\ ran'[k] = ran[k]
  OBVIOUS
<1>2. DOMAIN ran = 1 .. Len(ran) /\ DOMAIN ran' = 1 .. Len(ran') /\ ran' \in Seq(RanRow)
  OBVIOUS
<1>3. AllRight' => AllRight
  BY <1>1, <1>2 DEF AllRight
<1>4. Len(ran) \in Nat
  OBVIOUS
<1> QED BY <1>1, <1>2, <1>3, <1>4

(* A test more, with its calls still to come; it may be the test of a row.    *)
LEMMA TestBegun ==
  ASSUME EarlierClosed, RowsJudged, NothingFails, sg_tests \in Seq(F!test_info_t),
         ~F!Unfinished, cpu'.mem = cpu.mem,
         NEW new, new.status = -1, sg_tests' = Append(sg_tests, new), new \in F!test_info_t,
         \/ ran' = ran
         \/ \E x \in RanRow :
              /\ ran' = Append(ran, x) /\ x.test = Len(sg_tests) + 1
              /\ calls' # << >> => (Head(calls').passed = 1 <=> Deserves(x, cpu.mem)),
         AllRight' => AllPass(calls')
  PROVE  EarlierClosed' /\ RowsJudged' /\ NothingFails'
<1> DEFINE n == Len(sg_tests)
<1>1. /\ n \in Nat /\ Len(sg_tests') = n + 1 /\ sg_tests'[n + 1] = new
      /\ \A k \in 1 .. n : sg_tests'[k] = sg_tests[k]
  OBVIOUS
<1>2. \A k \in 1 .. n : sg_tests[k].status # -1
  BY <1>1 DEF EarlierClosed, F!Unfinished, F!back
<1>3. /\ AllRight' => AllRight
      /\ \A k \in 1 .. Len(ran) : k \in 1 .. Len(ran') /\ ran'[k] = ran[k]
      /\ Len(ran) \in Nat /\ ran' \in Seq(RanRow)
  BY AllRightBefore DEF RowsJudged
<1>4. EarlierClosed'
  <2>1. \A k \in 1 .. n + 1 - 1 : k \in 1 .. n
    BY <1>1
  <2> QED BY <1>1, <1>2, <2>1 DEF EarlierClosed
<1>5. NothingFails'
  <2>1. \A k \in 1 .. n + 1 : k \in 1 .. n \/ k = n + 1
    BY <1>1
  <2> QED BY <1>1, <1>3, <2>1 DEF NothingFails
<1>6. RowsJudged'
  <2> DEFINE Well(k) ==
               LET status == sg_tests'[ran'[k].test].status
                   deserved == Deserves(ran'[k], cpu'.mem)
               IN  /\ ran'[k].test \in 1 .. Len(sg_tests')
                   /\ status # -1 => (status = 1 <=> deserved)
                   /\ status = -1 /\ calls' # << >> => (Head(calls').passed = 1 <=> deserved)
  <2>1. ASSUME NEW k \in 1 .. Len(ran) PROVE Well(k)
    <3>1. ran'[k] = ran[k] /\ ran[k].test \in 1 .. n
      BY <1>3 DEF RowsJudged
    <3>2. sg_tests'[ran[k].test] = sg_tests[ran[k].test] /\ sg_tests[ran[k].test].status # -1
      BY <1>1, <1>2, <3>1
    <3>3. ran[k].test \in 1 .. Len(sg_tests')
      BY <1>1, <3>1
    <3> QED BY <3>1, <3>2, <3>3 DEF RowsJudged
  <2>2. ASSUME NEW x \in RanRow, ran' = Append(ran, x), x.test = n + 1,
               calls' # << >> => (Head(calls').passed = 1 <=> Deserves(x, cpu.mem))
        PROVE  Well(Len(ran) + 1)
    <3>1. ran'[Len(ran) + 1] = x
      BY <2>2 DEF RowsJudged
    <3>2. n + 1 \in 1 .. Len(sg_tests') /\ sg_tests'[x.test] = new
      BY <1>1, <2>2
    <3> QED BY <2>2, <3>1, <3>2
  <2> HIDE DEF Well
  <2>3. \A k \in 1 .. Len(ran') : Well(k)
    <3>1. CASE ran' = ran
      BY <2>1, <3>1
    <3>2. ASSUME NEW x \in RanRow, ran' = Append(ran, x), x.test = n + 1,
                 calls' # << >> => (Head(calls').passed = 1 <=> Deserves(x, cpu.mem))
          PROVE  \A k \in 1 .. Len(ran') : Well(k)
      <4>1. Well(Len(ran) + 1)
        BY <2>2, <3>2
      <4>2. Len(ran') = Len(ran) + 1
        BY <3>2 DEF RowsJudged
      <4>3. \A k \in 1 .. Len(ran') : k \in 1 .. Len(ran) \/ k = Len(ran) + 1
        BY <1>3, <4>2
      <4> QED BY <2>1, <4>1, <4>3
    <3> QED BY <3>1, <3>2
  <2> QED BY <1>3, <2>3 DEF RowsJudged, Well
<1> QED BY <1>4, <1>5, <1>6

(* A test that RunTest begins, and its body.  AsMade is what the stages       *)
(* before the rows find.                                                      *)
AsMade(m) == m.cpu = Created(cpu.mem) /\ m.data = FreshRam

LEMMA RunTestJudged ==
  ASSUME DriverInv, JudgeInv, stage \notin {"suite", "killed"}, calls = << >>,
         NEW name \in Names, NEW m \in Machine(cpu.mem), NEW ends,
         NEW s, s \notin {"suite", "create", "killed", "returned"}, NEW n,
         RunTest(name, m, ends, s, n),
         m.err # Killed /\ s \in {"internal", "parse"} => AsMade(m),
         \/ ran' = ran
         \/ \E x \in RanRow :
              /\ ran' = Append(ran, x) /\ x.test = Len(sg_tests) + 1
              /\ m.err # Killed => (Head(ends).passed = 1 <=> Deserves(x, cpu.mem)),
         AllRight' /\ m.err # Killed => AllPass(ends)
  PROVE  JudgeInv'
<1>1. /\ process' = "running" /\ sg_tests' = Append(sg_tests, F!NewTest(name))
  BY BeginTest DEF RunTest
<1>2. /\ cpu' = m.cpu /\ data' = m.data
      /\ calls' = (IF m.err = Killed THEN << >> ELSE ends)
      /\ stage' = (IF m.err = Killed THEN "killed" ELSE s)
  BY <1>1 DEF RunTest, Goto
<1>3. cpu'.mem = cpu.mem
  BY <1>2, MachineFields
<1>4. ~F!Unfinished /\ sg_tests \in Seq(F!test_info_t)
  BY DEF DriverInv, Alternate
<1>5. F!NewTest(name).status = -1 /\ F!NewTest(name) \in F!test_info_t
  BY <1>4 DEF F!NewTest, F!test_info_t, F!Instructions
<1>6. /\ ran' = ran \/ \E x \in RanRow :
           /\ ran' = Append(ran, x) /\ x.test = Len(sg_tests) + 1
           /\ calls' # << >> => (Head(calls').passed = 1 <=> Deserves(x, cpu.mem))
      /\ AllRight' => AllPass(calls')
  <2>1. CASE m.err = Killed
    <3>1. calls' = << >>
      BY <1>2, <2>1
    <3>2. AllPass(calls')
      BY <3>1 DEF AllPass
    <3> QED BY <3>1, <3>2
  <2>2. CASE m.err # Killed
    <3>1. calls' = ends
      BY <1>2, <2>2
    <3> QED BY <2>2, <3>1
  <2> QED BY <2>1, <2>2
<1>7. EarlierClosed' /\ RowsJudged' /\ NothingFails'
  <2>1. EarlierClosed /\ RowsJudged /\ NothingFails
    BY DEF JudgeInv
  <2> QED BY <1>1, <1>3, <1>4, <1>5, <1>6, <2>1, TestBegun
<1>8. MachineAsMade'
  <2>1. CASE m.err = Killed
    <3>1. stage' = "killed"
      BY <1>2, <2>1
    <3> QED BY <3>1 DEF MachineAsMade
  <2>2. CASE m.err # Killed
    <3>1. stage' = s
      BY <1>2, <2>2
    <3>2. s \in {"internal", "parse"} => cpu' = Created(cpu'.mem) /\ data' = FreshRam
      BY <1>2, <1>3, <2>2 DEF AsMade
    <3> QED BY <3>1, <3>2 DEF MachineAsMade
  <2> QED BY <2>1, <2>2
<1>9. Reported'
  <2>1. stage' # "returned"
    BY <1>2
  <2> QED BY <2>1 DEF Reported
<1> QED BY <1>7, <1>8, <1>9 DEF JudgeInv

(* main goes on without the framework and the machine.                        *)
LEMMA GoOnJudged ==
  ASSUME JudgeInv, UNCHANGED << sg_tests, cpu, data, calls, ran >>,
         stage # "killed", stage' \notin {"suite", "internal", "parse", "returned"},
         stage' = "create" => stage = "suite"
  PROVE  JudgeInv'
<1>1. AllRight' <=> AllRight
  BY DEF AllRight
<1>2. EarlierClosed' /\ RowsJudged' /\ NothingFails'
  BY <1>1 DEF JudgeInv, EarlierClosed, RowsJudged, NothingFails
<1>3. MachineAsMade'
  BY DEF JudgeInv, MachineAsMade
<1>4. Reported'
  BY DEF Reported
<1> QED BY <1>2, <1>3, <1>4 DEF JudgeInv

LEMMA InitJudged == ASSUME Init PROVE JudgeInv
<1>1. /\ sg_tests = << >> /\ ran = << >> /\ calls = << >> /\ stage = "suite" /\ data = FreshRam
  BY DEF Init, F!Init
<1>2. cpu = Created(cpu.mem)
  BY DEF Init, Created
<1>3. MachineAsMade
  BY <1>1, <1>2 DEF MachineAsMade
<1>4. EarlierClosed /\ RowsJudged
  BY <1>1 DEF EarlierClosed, RowsJudged
<1>5. NothingFails
  BY <1>1 DEF NothingFails, AllPass
<1>6. Reported
  BY <1>1 DEF Reported
<1> QED BY <1>3, <1>4, <1>5, <1>6 DEF JudgeInv

LEMMA PassedPasses ==
  ASSUME NEW ok, ok
  PROVE  AllPass(Passed(ok))
BY DEF AllPass, Passed, End, Verdict

LEMMA CreateTestJudged ==
  ASSUME DriverInv, DriverIsSafe, JudgeInv, CreateTest
  PROVE  JudgeInv'
<1> DEFINE ok == compare_model(Here, model_state(Here, 0, 0, 0), 1, 0)
<1>1. /\ stage = "create" /\ calls = << >> /\ ran' = ran
      /\ RunTest("<internal>", Here, Passed(ok), "internal", 0)
  BY DEF CreateTest, At
<1>2. Here \in Machine(cpu.mem) /\ "<internal>" \in Names
  BY DEF DriverInv, DriverIsSafe
<1>3. cpu = Created(cpu.mem) /\ data = FreshRam
  BY <1>1 DEF JudgeInv, MachineAsMade
<1>4. AsMade(Here)
  BY <1>3 DEF AsMade, Here
<1>5. ok
  <2>1. cpu.pc = 0 /\ cpu.regs = [r \in Reg |-> 0]
    BY <1>3 DEF Created
  <2>2. [cpu.regs EXCEPT ![0] = 0] = cpu.regs
    BY <2>1
  <2> QED BY <2>1, <2>2 DEF compare_model, model_state, Here
<1> HIDE DEF ok
<1>6. AllPass(Passed(ok))
  BY <1>5, PassedPasses
<1> QED BY <1>1, <1>2, <1>4, <1>6, RunTestJudged

LEMMA InvalidHandleJudged ==
  ASSUME DriverInv, DriverIsSafe, JudgeInv, test_invalid_handle
  PROVE  JudgeInv'
<1> DEFINE s == IF i = 6 THEN "end" ELSE "handles"
           ok == Answer(NULL) = InvalidHandle
<1>1. /\ stage = "handles" /\ calls = << >> /\ ran' = ran
      /\ RunTest("<internal>", Here, Passed(ok), s, i + 1)
  BY DEF test_invalid_handle, At
<1>2. Here \in Machine(cpu.mem) /\ "<internal>" \in Names
  BY DEF DriverInv, DriverIsSafe
<1>3. AllPass(Passed(ok))
  <2>1. ok
    BY DEF Answer
  <2> HIDE DEF ok
  <2> QED BY <2>1, PassedPasses
<1>4. s \notin {"suite", "create", "killed", "returned", "internal", "parse"}
  OBVIOUS
<1> HIDE DEF s, ok
<1> QED BY <1>1, <1>2, <1>3, <1>4, RunTestJudged

LEMMA InternalTestsJudged ==
  ASSUME DriverInv, DriverIsSafe, RowsStandAlone, JudgeInv, internal_tests
  PROVE  JudgeInv'
<1>1. /\ stage = "internal" /\ calls = << >> /\ ran' = ran
  BY DEF internal_tests, At
<1> DEFINE t == internal_test(i, Here)
           m == IF t.killed THEN [t.m EXCEPT !.err = Killed]
                ELSE [AfterInternal(t.m) EXCEPT !.err = Success]
           s == IF i = 3 THEN "parse" ELSE "internal"
<1>2. RunTest("<internal>", m, Passed(t.ok), s, i + 1)
  BY DEF internal_tests
<1>3. i \in 0 .. 3 /\ Here \in Machine(cpu.mem) /\ cpu.mem \in Handle /\ cpu.mem \in RamHandles
  BY <1>1, DriverAssumption DEF DriverInv
<1>4. t.m \in Machine(cpu.mem)
  BY <1>3, InternalGood
<1>5. /\ t.m.data = FreshRam
      /\ cpu.mem # NULL => t.ok
  <2>1. cpu = Created(cpu.mem) /\ data = FreshRam
    BY <1>1 DEF JudgeInv, MachineAsMade
  <2>2. Here = Alone(cpu.mem)
    BY <2>1 DEF Here, Alone
  <2>3. /\ internal_test(i, Alone(cpu.mem)).m.data = FreshRam
        /\ cpu.mem # NULL => internal_test(i, Alone(cpu.mem)).ok
    BY <1>3 DEF RowsStandAlone
  <2> QED BY <2>2, <2>3
<1> HIDE DEF t
<1>6. m \in Machine(cpu.mem) /\ (m.err # Killed => AsMade(m)) /\ m.data = FreshRam
  <2>1. \A z \in Machine(cpu.mem), e \in Outcomes :
          /\ [z EXCEPT !.err = e] \in Machine(cpu.mem)
          /\ [z EXCEPT !.err = e].data = z.data /\ [z EXCEPT !.err = e].cpu = z.cpu
          /\ [z EXCEPT !.err = e].err = e
    BY DEF Machine
  <2>2. Killed \in Outcomes /\ Success \in Outcomes /\ Success # Killed
    BY DEF Outcomes, mips_error, Success, Killed
  <2>3. /\ AfterInternal(t.m) \in Machine(cpu.mem) /\ AfterInternal(t.m).data = FreshRam
        /\ AfterInternal(t.m).cpu = Created(cpu.mem)
    <3>1. t.m.cpu.mem = cpu.mem
      BY <1>4, MachineFields
    <3>2. [t.m EXCEPT !.cpu = Created(cpu.mem)] \in Machine(cpu.mem)
      BY <1>3, <1>4, CreatedType, MachineFields
    <3>3. /\ [t.m EXCEPT !.cpu = Created(cpu.mem)].data = t.m.data
          /\ [t.m EXCEPT !.cpu = Created(cpu.mem)].cpu = Created(cpu.mem)
      BY <1>4 DEF Machine
    <3> QED BY <1>5, <3>1, <3>2, <3>3 DEF AfterInternal, Reset
  <2>4. CASE t.killed
    <3>1. m = [t.m EXCEPT !.err = Killed]
      BY <2>4
    <3> HIDE DEF m
    <3> QED BY <1>4, <1>5, <2>1, <2>2, <3>1
  <2>5. CASE ~t.killed
    <3>1. m = [AfterInternal(t.m) EXCEPT !.err = Success]
      BY <2>5
    <3> HIDE DEF m
    <3> QED BY <2>1, <2>2, <2>3, <3>1 DEF AsMade
  <2> QED BY <2>4, <2>5
<1>7. "<internal>" \in Names
  BY DEF DriverIsSafe
<1>8. s \notin {"suite", "create", "killed", "returned"}
  OBVIOUS
<1> HIDE DEF m, s
<1>9. AllRight' => AllPass(Passed(t.ok))
  <2>1. cpu'.mem = cpu.mem
    <3>1. process' = "running"
      BY <1>1, <1>2, <1>7, BeginTest DEF RunTest
    <3>2. cpu' = m.cpu
      BY <1>2, <3>1 DEF RunTest
    <3> QED BY <1>6, <3>2, MachineFields
  <2> QED BY <1>5, <2>1, PassedPasses DEF AllRight
<1> QED BY <1>1, <1>2, <1>6, <1>7, <1>8, <1>9, RunTestJudged

LEMMA ReadingJudged ==
  ASSUME JudgeInv, BeginSuite \/ parse_test_spec \/ SkipHeader \/ EndOfSpec
  PROVE  JudgeInv'
<1>1. CASE BeginSuite
  <2>1. sg_tests' = sg_tests
    BY <1>1 DEF BeginSuite, F!mips_test_begin_suite, F!Exit
  <2> QED BY <1>1, <2>1, GoOnJudged DEF BeginSuite, At, Goto
<1>2. CASE parse_test_spec
  BY <1>2, GoOnJudged DEF parse_test_spec, At, Goto, framework
<1>3. CASE SkipHeader
  BY <1>3, GoOnJudged DEF SkipHeader, At, Goto, framework
<1>4. CASE EndOfSpec
  BY <1>4, GoOnJudged DEF EndOfSpec, At, Goto, framework
<1> QED BY <1>1, <1>2, <1>3, <1>4

LEMMA EndFirst ==
  ASSUME NEW c, Alternate(c, 1)
  PROVE  Head(c) = c[1] /\ 1 \in 1 .. Len(c) /\ c[1].fn = "end"
<1>1. /\ c \in Seq(FrameworkCalls) /\ Len(c) % 2 = 1
      /\ \A k \in 1 .. Len(c) : c[k].fn = IF k % 2 = 1 THEN "end" ELSE "begin"
  BY DEF Alternate
<1>2. Len(c) \in Nat /\ Len(c) # 0
  BY <1>1
<1>3. 1 \in 1 .. Len(c) /\ 1 % 2 = 1 /\ Head(c) = c[1]
  BY <1>1, <1>2
<1> QED BY <1>1, <1>3

LEMMA RunSpecJudged ==
  ASSUME DriverInv, FilesAreSafe, RowsStandAlone, JudgeInv, run_spec
  PROVE  JudgeInv'
<1>1. /\ stage = "rows" /\ calls = << >> /\ i <= Len(spec) /\ spec[i].kind = "row"
  BY DEF run_spec, At
<1>2. i \in Nat \ {0} /\ spec \in Files /\ Here \in Machine(cpu.mem) /\ cpu.mem \in RamHandles
  BY <1>1 DEF DriverInv
<1> DEFINE row == spec[i]
<1>3. Columns(row) /\ EndsItsTests(row) /\ DriverIsSafe /\ row \in RowsOfFiles
  <2>1. Len(spec) \in Nat
        /\ \A k \in 1 .. Len(spec) : spec[k].kind = "row" => Columns(spec[k]) /\ EndsItsTests(spec[k])
    BY <1>2 DEF FilesAreSafe
  <2>2. i \in 1 .. Len(spec)
    BY <1>1, <1>2, <2>1
  <2>3. DriverIsSafe
    BY DEF FilesAreSafe, DriverIsSafe
  <2>4. row \in RowsOfFiles
    <3> DEFINE R(f) == {f[k] : k \in {n \in 1 .. Len(f) : f[n].kind = "row"}}
    <3>1. row \in R(spec)
      BY <1>1, <2>2
    <3> HIDE DEF R, row
    <3>2. row \in UNION {R(f) : f \in Files}
      BY <1>2, <3>1
    <3> QED BY <3>2 DEF RowsOfFiles, R
  <2> QED BY <1>1, <2>1, <2>2, <2>3, <2>4
<1>4. PICK wrong \in Faults(row) :
        \E r \in {run_row(row, BeforeRow(Here), wrong)} :
          /\ RunTest(row.func, r.m, r.calls, "rows", i + 1)
          /\ ran' = Append(ran, [row |-> row, wrong |-> wrong, err |-> r.m.err,
                               test |-> Len(sg_tests) + 1])
  BY DEF run_spec
<1> HIDE DEF row
<1> DEFINE m == BeforeRow(Here)
           r == run_row(row, m, wrong)
           x == [row |-> row, wrong |-> wrong, err |-> r.m.err, test |-> Len(sg_tests) + 1]
<1>5. /\ RunTest(row.func, r.m, r.calls, "rows", i + 1)
      /\ ran' = Append(ran, x)
  BY <1>4
<1>6. GoodTest(r, cpu.mem)
  <2>1. Here.err = Success
    BY DEF Here
  <2> QED BY <1>2, <1>3, <2>1, RowGood
<1>7. Beginning(row, cpu.mem, m)
  <2>1. Here.err = Success /\ Here.data = data /\ Here.cpu = cpu
    BY DEF Here
  <2>2. m \in Machine(cpu.mem) /\ m.cpu = Created(cpu.mem) /\ m.data = data /\ m.err = Success
    <3>1. m = [Here EXCEPT !.cpu = Created(cpu.mem)]
      BY <2>1 DEF BeforeRow, Reset
    <3>2. /\ [Here EXCEPT !.cpu = Created(cpu.mem)].cpu = Created(cpu.mem)
          /\ [Here EXCEPT !.cpu = Created(cpu.mem)].data = data
          /\ [Here EXCEPT !.cpu = Created(cpu.mem)].err = Success
      BY DEF Here
    <3>3. m \in Machine(cpu.mem)
      BY <1>2, <2>1, DriverAssumption, ResetFresh DEF BeforeRow
    <3> QED BY <3>1, <3>2, <3>3
  <2>3. StandsAlone(row, cpu.mem)
    BY <1>2, <1>3 DEF RowsStandAlone
  <2> HIDE DEF m
  <2> QED BY <1>2, <1>3, <2>2, <2>3 DEF Beginning
<1>8. r.m.err # Killed =>
        IF Deserves(x, cpu.mem) THEN AllPass(r.calls) ELSE Head(r.calls).passed = 0
  <2>1. Judged(r, Right(row, wrong, cpu.mem) /\ (NotTaken(row) => r.m.err = Success))
    BY <1>3, <1>7, RowJudged
  <2>2. x.row = row /\ x.wrong = wrong /\ x.err = r.m.err
    OBVIOUS
  <2> HIDE DEF m, r, x
  <2> QED BY <2>1, <2>2 DEF Judged, Deserves
<1> HIDE DEF m, r
<1>9. r.m.err # Killed => (Head(r.calls).passed = 1 <=> Deserves(x, cpu.mem))
  <2> SUFFICES ASSUME r.m.err # Killed
               PROVE  Head(r.calls).passed = 1 <=> Deserves(x, cpu.mem)
    OBVIOUS
  <2> HIDE DEF x
  <2>1. Alternate(r.calls, 1)
    BY <1>6 DEF GoodTest
  <2>2. /\ Head(r.calls) = r.calls[1] /\ 1 \in 1 .. Len(r.calls)
        /\ r.calls[1].fn = "end"
    BY <2>1, EndFirst
  <2> QED BY <1>8, <2>2 DEF AllPass
<1>10. AllRight' /\ r.m.err # Killed => AllPass(r.calls)
  <2> SUFFICES ASSUME AllRight', r.m.err # Killed PROVE AllPass(r.calls)
    OBVIOUS
  <2>1. cpu'.mem = cpu.mem
    <3>1. process' = "running"
      BY <1>1, <1>5, BeginTest DEF RunTest
    <3>2. cpu' = r.m.cpu
      BY <1>5, <3>1 DEF RunTest
    <3> QED BY <1>6, <3>2, MachineFields DEF GoodTest
  <2>2. Len(ran) + 1 \in DOMAIN ran' /\ ran'[Len(ran) + 1] = x
    <3>1. ran \in Seq(RanRow)
      BY DEF JudgeInv, RowsJudged
    <3> QED BY <1>5, <3>1
  <2> HIDE DEF x
  <2>3. Deserves(x, cpu.mem)
    BY <2>1, <2>2 DEF AllRight
  <2> QED BY <1>8, <2>3
<1>11. x \in RanRow /\ x.test = Len(sg_tests) + 1
  <2>1. Len(sg_tests) + 1 \in Nat
    BY DEF DriverInv
  <2>2. wrong \in UNION {Faults(y) : y \in RowsOfFiles}
    BY <1>3
  <2>3. r.m.err \in Outcomes
    BY <1>6 DEF GoodTest, Machine
  <2> QED BY <1>3, <2>1, <2>2, <2>3 DEF RanRow
<1> HIDE DEF x
<1>12. row.func \in Names /\ r.m \in Machine(cpu.mem)
  BY <1>3, <1>6 DEF Columns, GoodTest
<1>13. /\ "rows" \notin {"suite", "create", "killed", "returned"}
       /\ "rows" \notin {"internal", "parse"} /\ stage \notin {"suite", "killed"}
  BY <1>1
<1> QED BY <1>1, <1>5, <1>9, <1>10, <1>11, <1>12, <1>13, RunTestJudged

(* An end closes the last test with the verdict that was to come.             *)
LEMMA TestEnded ==
  ASSUME EarlierClosed, RowsJudged, NothingFails, sg_tests \in Seq(F!test_info_t),
         F!Unfinished, calls # << >>, calls' = Tail(calls), calls \in Seq(FrameworkCalls),
         Head(calls).fn = "end", Head(calls).passed \in {0, 1},
         UNCHANGED << cpu, ran >>,
         NEW new \in F!test_info_t, new.status = Head(calls).passed,
         sg_tests' = [sg_tests EXCEPT ![Len(sg_tests)] = new]
  PROVE  EarlierClosed' /\ RowsJudged' /\ NothingFails'
<1> DEFINE n == Len(sg_tests)
<1>1. /\ n \in Nat \ {0} /\ Len(sg_tests') = n /\ sg_tests'[n] = new
      /\ \A k \in 1 .. n : k # n => sg_tests'[k] = sg_tests[k]
      /\ sg_tests[n].status = -1
  BY DEF F!Unfinished, F!back
<1>2. AllRight' <=> AllRight
  BY DEF AllRight
<1>3. EarlierClosed'
  <2> HIDE DEF n
  <2>1. \A k \in 1 .. n - 1 : k \in 1 .. n /\ k # n
    BY <1>1
  <2> QED BY <1>1, <2>1 DEF EarlierClosed, n
<1>4. NothingFails'
  <2> SUFFICES ASSUME AllRight
               PROVE  /\ \A k \in 1 .. n : sg_tests'[k].status \in {-1, 1}
                      /\ AllPass(Tail(calls))
    BY <1>1, <1>2 DEF NothingFails
  <2>1. AllPass(calls) /\ \A k \in 1 .. n : sg_tests[k].status \in {-1, 1}
    BY DEF NothingFails
  <2>2. 1 \in 1 .. Len(calls) /\ Head(calls) = calls[1]
    OBVIOUS
  <2>3. new.status = 1
    BY <2>1, <2>2 DEF AllPass
  <2>4. AllPass(Tail(calls))
    <3>1. \A k \in 1 .. Len(Tail(calls)) :
            k + 1 \in 1 .. Len(calls) /\ Tail(calls)[k] = calls[k + 1]
      OBVIOUS
    <3> QED BY <2>1, <3>1 DEF AllPass
  <2> QED BY <1>1, <2>1, <2>3, <2>4
<1>5. RowsJudged'
  <2> SUFFICES ASSUME NEW k \in 1 .. Len(ran)
               PROVE  LET status == sg_tests'[ran[k].test].status
                          deserved == Deserves(ran[k], cpu.mem)
                      IN  /\ ran[k].test \in 1 .. n
                          /\ status # -1 => (status = 1 <=> deserved)
                          /\ status = -1 /\ calls' # << >> => (Head(calls').passed = 1 <=> deserved)
    BY <1>1 DEF RowsJudged
  <2>1. ran[k].test \in 1 .. n
    BY DEF RowsJudged
  <2>2. CASE ran[k].test = n
    <3>1. Head(calls).passed = 1 <=> Deserves(ran[k], cpu.mem)
      BY <1>1, <2>2 DEF RowsJudged
    <3>2. new.status # -1
      OBVIOUS
    <3> QED BY <1>1, <2>1, <2>2, <3>1, <3>2
  <2>3. CASE ran[k].test # n
    <3>1. sg_tests[ran[k].test].status # -1
      <4> HIDE DEF n
      <4>1. ran[k].test \in 1 .. n - 1
        BY <1>1, <2>1, <2>3
      <4> QED BY <4>1 DEF EarlierClosed, n
    <3> QED BY <1>1, <2>1, <2>3, <3>1 DEF RowsJudged
  <2> QED BY <2>2, <2>3
<1> QED BY <1>3, <1>4, <1>5

LEMMA CallJudged == ASSUME DriverInv, JudgeInv, Call PROVE JudgeInv'
<1> DEFINE c == Head(calls)
           p == IF F!Unfinished THEN 1 ELSE 0
<1>1. /\ process = "running" /\ calls # << >> /\ calls' = Tail(calls)
      /\ UNCHANGED << cpu, data, stage, ran >>
  BY DEF Call
<1>2. stage \notin {"suite", "killed"} /\ sg_started /\ Alternate(calls, p)
  BY <1>1 DEF DriverInv
<1>3. c \in FrameworkCalls /\ c.fn = (IF p = 1 THEN "end" ELSE "begin")
  <2>1. p \in {0, 1}
    OBVIOUS
  <2> HIDE DEF p
  <2> QED BY <1>1, <1>2, <2>1, NextCall
<1>4. sg_tests \in Seq(F!test_info_t) /\ calls \in Seq(FrameworkCalls)
  BY <1>2 DEF DriverInv, Alternate
<1>5. EarlierClosed /\ RowsJudged /\ NothingFails
  BY DEF JudgeInv
<1>6. EarlierClosed' /\ RowsJudged' /\ NothingFails'
  <2>1. CASE F!Unfinished
    <3>1. F!mips_test_end_test(testId, c.passed, c.msg)
      BY <1>3, <2>1 DEF Call
    <3>2. c.passed \in {0, 1} /\ c.msg \in Messages /\ c.fn = "end"
      BY <1>3, <2>1 DEF FrameworkCalls
    <3>3. F!back.testId = testId
      BY <2>1 DEF DriverInv
    <3> DEFINE n == Len(sg_tests)
               new == F!Finished(c.passed, c.msg)
    <3>4. sg_tests' = [sg_tests EXCEPT ![n] = new]
      BY <1>2, <2>1, <3>1, <3>3 DEF F!mips_test_end_test
    <3>5. new \in F!test_info_t /\ new.status = c.passed
      <4> DEFINE last == sg_tests[n]
                 status == IF c.passed = 0 THEN 0 ELSE 1
                 message == IF c.msg = F!NoMessage THEN last.message ELSE c.msg
                 finished == [last EXCEPT !.status = status, !.message = message]
      <4>1. new = finished
        BY DEF F!Finished, F!back
      <4>2. last \in F!test_info_t
        BY <1>4, <2>1 DEF F!Unfinished
      <4>3. status \in {0, 1} /\ message \in Messages \cup {F!NoMessage} /\ status = c.passed
        BY <3>2, <4>2 DEF F!test_info_t
      <4> HIDE DEF last, status, message, new
      <4>4. finished \in F!test_info_t /\ finished.status = status
        BY <4>2, <4>3 DEF F!test_info_t
      <4> QED BY <4>1, <4>3, <4>4
    <3> HIDE DEF new, c
    <3> QED BY <1>1, <1>4, <1>5, <2>1, <3>2, <3>4, <3>5, TestEnded DEF c
  <2>2. CASE ~F!Unfinished
    <3>1. F!mips_test_begin_test(c.name)
      BY <1>3, <2>2 DEF Call
    <3>2. c.name \in Names
      BY <1>3, <2>2 DEF FrameworkCalls
    <3> DEFINE new == F!NewTest(c.name)
    <3>3. sg_tests' = Append(sg_tests, new)
      BY <1>1, <1>2, <2>2, <3>1 DEF F!mips_test_begin_test
    <3>4. new.status = -1 /\ new \in F!test_info_t
      BY <1>4, <3>2 DEF F!NewTest, F!test_info_t, F!Instructions
    <3>5. AllRight' => AllPass(calls')
      <4>1. AllRight' => AllPass(calls)
        BY <1>1, <1>5 DEF AllRight, NothingFails
      <4>2. \A k \in 1 .. Len(Tail(calls)) :
              k + 1 \in 1 .. Len(calls) /\ Tail(calls)[k] = calls[k + 1]
        BY <1>1, <1>4
      <4>3. AllPass(calls) => AllPass(Tail(calls))
        BY <4>2 DEF AllPass
      <4> QED BY <1>1, <4>1, <4>3
    <3> HIDE DEF new
    <3> QED BY <1>1, <1>4, <1>5, <2>2, <3>3, <3>4, <3>5, TestBegun
  <2> QED BY <2>1, <2>2
<1>7. MachineAsMade'
  BY <1>1 DEF JudgeInv, MachineAsMade
<1>8. Reported'
  BY <1>1 DEF JudgeInv, Reported
<1> QED BY <1>6, <1>7, <1>8 DEF JudgeInv

LEMMA EndSuiteJudged == ASSUME DriverInv, JudgeInv, EndSuite PROVE JudgeInv'
<1>1. /\ stage = "end" /\ stage' = "returned" /\ calls = << >>
      /\ UNCHANGED << cpu, data, calls, ran >>
  BY DEF EndSuite, At, Goto
<1>2. sg_started /\ sg_tests # << >> /\ sg_tests \in Seq(F!test_info_t)
  BY <1>1 DEF DriverInv
<1>3. ~F!Unfinished
  BY <1>1 DEF DriverInv, Alternate
<1>4. Len(sg_tests) > 0
  BY <1>2
<1>5. sg_tests' = sg_tests /\ report' = F!statistics({-1, 0, 1})
  BY <1>2, <1>3, <1>4 DEF EndSuite, F!mips_test_end_suite
<1>6. AllRight' <=> AllRight
  BY <1>1 DEF AllRight
<1>7. EarlierClosed' /\ RowsJudged' /\ NothingFails'
  BY <1>1, <1>5, <1>6 DEF JudgeInv, EarlierClosed, RowsJudged, NothingFails
<1>8. MachineAsMade'
  BY <1>1 DEF JudgeInv, MachineAsMade
<1>9. AllRight => \A name \in DOMAIN report' : report'[name].passed = report'[name].total
  <2> SUFFICES ASSUME AllRight, NEW name \in DOMAIN report'
               PROVE  report'[name].passed = report'[name].total
    OBVIOUS
  <2>1. \A k \in 1 .. Len(sg_tests) : sg_tests[k].status # -1
    BY <1>2, <1>3, <1>4 DEF JudgeInv, EarlierClosed, F!Unfinished, F!back
  <2>2. \A k \in DOMAIN sg_tests : sg_tests[k].status = 1
    BY <1>2, <2>1 DEF JudgeInv, NothingFails
  <2> DEFINE S == {-1, 0, 1}
  <2>3. F!TestsOf(name, S) = F!TestsOf(name, S \cap {1})
    BY <2>2 DEF F!TestsOf
  <2> HIDE DEF S
  <2>4. report' = F!statistics(S)
    BY <1>5 DEF S
  <2>5. report'[name] = [total |-> F!Cardinality(F!TestsOf(name, S)),
                         passed |-> F!Cardinality(F!TestsOf(name, S \cap {1}))]
    BY <2>4 DEF F!statistics
  <2> QED BY <2>3, <2>5
<1>10. Reported'
  BY <1>1, <1>6, <1>9 DEF Reported
<1> QED BY <1>7, <1>8, <1>10 DEF JudgeInv

LEMMA NextJudged ==
  ASSUME DriverInv, FilesAreSafe, RowsStandAlone, JudgeInv, [Next]_vars
  PROVE  JudgeInv'
<1>1. DriverIsSafe
  BY DEF FilesAreSafe, DriverIsSafe
<1>2. CASE Next
  BY <1>1, <1>2, CreateTestJudged, InternalTestsJudged, ReadingJudged, RunSpecJudged,
     CallJudged, InvalidHandleJudged, EndSuiteJudged DEF Next
<1>3. CASE UNCHANGED vars
  <2>1. UNCHANGED << sg_tests, report, cpu, data, stage, calls, ran >>
    BY <1>3 DEF vars
  <2>2. AllRight' <=> AllRight
    BY <2>1 DEF AllRight
  <2> QED BY <2>1, <2>2 DEF JudgeInv, MachineAsMade, EarlierClosed, RowsJudged,
          NothingFails, Reported
<1> QED BY <1>2, <1>3

LEMMA SpecJudged ==
  ASSUME FilesAreSafe, RowsStandAlone
  PROVE  Spec => []JudgeInv
<1>1. Init => DriverInv /\ JudgeInv
  BY InitGood, InitJudged
<1>2. DriverInv /\ [Next]_vars => DriverInv'
  BY NextGood
<1>3. DriverInv /\ JudgeInv /\ [Next]_vars => JudgeInv'
  BY NextJudged
<1> QED BY <1>1, <1>2, <1>3, PTL DEF Spec

(* In files of any length and order, whose rows read only what they wrote     *)
(* themselves before the third step after a branch that is not taken, a test  *)
(* passes exactly if its row asks for the right thing of a CPU that is right  *)
(* and that step, which may run what earlier rows have left, does not fail.   *)
THEOREM VerdictsStandAlone ==
  ASSUME FilesAreSafe, RowsStandAlone
  PROVE  Spec => []VerdictsAreRight
<1>1. JudgeInv => VerdictsAreRight
  <2> SUFFICES ASSUME JudgeInv, NEW k \in DOMAIN ran,
                      sg_tests[ran[k].test].status # -1
               PROVE  (sg_tests[ran[k].test].status = 1)
                        <=> Deserves(ran[k], cpu.mem)
    BY DEF VerdictsAreRight
  <2>1. k \in 1 .. Len(ran)
    BY DEF JudgeInv, RowsJudged
  <2> QED BY <2>1 DEF JudgeInv, RowsJudged
<1> QED BY <1>1, SpecJudged, PTL

(* If every row that was run asks for the right thing of a CPU that is right, *)
(* and the third step after each branch not taken works, the report has no    *)
(* failure: the internal tests and the tests that MULT, DIV and MTHI rows     *)
(* begin for the instructions that help them included.                        *)
THEOREM ReportIsClean ==
  ASSUME FilesAreSafe, RowsStandAlone
  PROVE  Spec => []CleanReport
<1>1. JudgeInv => CleanReport
  BY DEF JudgeInv, Reported, AllRight, CleanReport
<1> QED BY <1>1, SpecJudged, PTL
=============================================================================
