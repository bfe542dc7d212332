--------------------------- MODULE MipsCpuProofs ---------------------------
(* The CPU API keeps its invariants and its error contract, implements the    *)
(* delayed-branch machine and reports to the stream its client asked for, for *)
(* every width, RAM, instruction encoding and client.                         *)
EXTENDS MipsMemory, MipsDebug, MipsExecProofs, FiniteSetTheorems

(* A step that failed left everything as it was, so executing the same        *)
(* instruction again yields the error the client has just been given.         *)
ErrorStands ==
  (process = "running" /\ call = "mips_cpu_step" /\ err # Success) =>
    IF handle = NULL THEN err = InvalidHandle ELSE err = Execute(state, data).err

IInv == TypeOK /\ RegZero /\ NoPendingJump /\ NextPc /\ ErrorStands

LEMMA NoneIsNoWord == None \notin Word /\ None \in Int
BY SizeFacts DEF None, Word

LEMMA CreatedGood ==
  ASSUME NEW mem \in Handle
  PROVE  /\ Created(mem) \in mips_cpu_impl
         /\ Created(mem).regs[0] = 0
         /\ Created(mem).delay_slot = 0 /\ Created(mem).jPC = 0
         /\ Created(mem).nPC = Plus(Created(mem).pc, 4)
<1>1. 0 \in Word /\ 4 \in Word /\ Plus(0, 4) = 4
  BY SizeFacts DEF Word, Plus
<1> QED BY <1>1 DEF Created, mips_cpu_impl, Reg

LEMMA InitIInv == Init => IInv
<1> SUFFICES ASSUME Init PROVE IInv
  OBVIOUS
<1>1. NULL \in Handle
  BY DEF Handle
<1>2. TypeOK
  BY <1>1, CreatedGood, ClientAssumption DEF Init, TypeOK, ApiCall, mips_error
<1>3. RegZero /\ NoPendingJump /\ NextPc
  BY <1>1, CreatedGood DEF Init, RegZero, NoPendingJump, NextPc
<1>4. ErrorStands
  BY DEF Init, ErrorStands
<1> QED BY <1>2, <1>3, <1>4 DEF IInv

(* One step from a state of the invariant, in terms of what it executed.      *)
LEMMA StepOutcome ==
  ASSUME IInv, StepReturns
  PROVE  LET o == Execute(state, data)
         IN  /\ o.err \in mips_error /\ o.data \in RamData /\ o.state \in mips_cpu_impl
             /\ o.state.regs[0] = 0
             /\ o.err # Success =>
                  /\ state' = state /\ data' = data /\ taken' = taken
             /\ o.err = Success =>
                  /\ state' = mips_cpu_increment_pc(o.state)
                  /\ o.state.nPC = state.nPC /\ o.state.mem = state.mem
                  /\ \/ o.state.delay_slot = 0 /\ o.state.jPC = 0 /\ taken' = None
                     \/ o.state.delay_slot = 1 /\ taken' = o.state.jPC
<1> DEFINE o == Execute(state, data)
<1>1. GoodOutcome(state, data, o)
  BY ExecuteGood DEF IInv, TypeOK
<1> HIDE DEF o
<1>2. /\ o.err # Killed
      /\ state' = StepState(o) /\ data' = o.data
      /\ taken' = IF o.err # Success THEN taken
                  ELSE IF o.state.delay_slot = 1 THEN o.state.jPC ELSE None
  BY DEF StepReturns, o
<1>3. /\ o.err \in mips_error /\ o.data \in RamData /\ o.state \in mips_cpu_impl
      /\ o.state.regs[0] = 0
      /\ o.state.nPC = state.nPC /\ o.state.mem = state.mem
  BY <1>1, <1>2 DEF GoodOutcome, GoodReturn, Outcomes, Kept, IInv, RegZero
<1>4. o.err # Success => state' = state /\ data' = data /\ taken' = taken
  BY <1>1, <1>2 DEF GoodOutcome, GoodReturn, StepState
<1>5. o.err = Success => state' = mips_cpu_increment_pc(o.state)
  BY <1>2 DEF StepState
<1>6. \/ o.state.delay_slot = 0 /\ o.state.jPC = 0
      \/ o.state.delay_slot = 1
  BY <1>1 DEF GoodOutcome, GoodReturn, Kept, IInv, NoPendingJump
<1>7. o.err = Success =>
        \/ o.state.delay_slot = 0 /\ o.state.jPC = 0 /\ taken' = None
        \/ o.state.delay_slot = 1 /\ taken' = o.state.jPC
  BY <1>2, <1>6
<1> QED BY <1>3, <1>4, <1>5, <1>7 DEF o

LEMMA StepReturnsIInv == ASSUME IInv, StepReturns PROVE IInv'
<1> DEFINE o == Execute(state, data)
<1>1. /\ process' = process /\ process = "running" /\ handle' = handle /\ handle # NULL
      /\ call' = "mips_cpu_step" /\ err' = o.err
  BY DEF StepReturns, Reply
<1>2. data' = o.data
  BY DEF StepReturns
<1>3. /\ o.err \in mips_error /\ o.data \in RamData /\ o.state \in mips_cpu_impl
      /\ o.state.regs[0] = 0
  BY StepOutcome
<1>4. TypeOK' /\ RegZero' /\ NoPendingJump' /\ NextPc'
  <2>1. CASE o.err # Success
    <3>1. state' = state /\ data' = data /\ taken' = taken
      BY <2>1, StepOutcome
    <3> HIDE DEF o
    <3>2. TypeOK'
      BY <1>1, <1>3, <3>1 DEF IInv, TypeOK, ApiCall
    <3> QED BY <3>1, <3>2 DEF IInv, RegZero, NoPendingJump, NextPc
  <2>2. CASE o.err = Success
    <3>1. /\ state' = mips_cpu_increment_pc(o.state)
          /\ \/ o.state.delay_slot = 0 /\ o.state.jPC = 0 /\ taken' = None
             \/ o.state.delay_slot = 1 /\ taken' = o.state.jPC
      BY <2>2, StepOutcome
    <3> HIDE DEF o
    <3>2. /\ state' \in mips_cpu_impl
          /\ state'.pc = o.state.nPC /\ state'.delay_slot = 0
          /\ state'.regs = o.state.regs
          /\ o.state.delay_slot = 0 => state'.nPC = Plus(o.state.nPC, 4) /\ state'.jPC = o.state.jPC
          /\ o.state.delay_slot = 1 => state'.nPC = o.state.jPC /\ state'.jPC = 0
      BY <1>3, <3>1, IncrementType
    <3>3. o.state.jPC \in Word
      BY <1>3 DEF mips_cpu_impl
    <3>4. TypeOK'
      BY <1>1, <1>2, <1>3, <3>1, <3>2, <3>3 DEF IInv, TypeOK, ApiCall
    <3>5. RegZero' /\ NoPendingJump'
      BY <1>3, <3>1, <3>2 DEF RegZero, NoPendingJump
    <3>6. NextPc'
      BY <3>1, <3>2, <3>3, NoneIsNoWord DEF NextPc
    <3> QED BY <3>4, <3>5, <3>6
  <2> QED BY <2>1, <2>2
<1>5. ErrorStands'
  <2>1. CASE o.err # Success
    <3>1. state' = state /\ data' = data
      BY <2>1, StepOutcome
    <3> QED BY <1>1, <3>1 DEF ErrorStands
  <2>2. CASE o.err = Success
    BY <1>1, <2>2 DEF ErrorStands
  <2> QED BY <2>1, <2>2
<1> QED BY <1>4, <1>5 DEF IInv

(* A call that leaves the CPU as it is, and is not a step that failed.        *)
LEMMA QuietCall ==
  ASSUME IInv,
         process' = process, handle' \in {NULL, "cpu"}, state' = state, data' \in RamData,
         taken' = taken, call' \in ApiCall, err' \in mips_error,
         call' = "mips_cpu_step" => handle' = NULL /\ err' = InvalidHandle
  PROVE  IInv'
<1>1. TypeOK' /\ RegZero' /\ NoPendingJump' /\ NextPc'
  BY DEF IInv, TypeOK, RegZero, NoPendingJump, NextPc
<1>2. ErrorStands'
  BY DEF ErrorStands
<1> QED BY <1>1, <1>2 DEF IInv

LEMMA OnNullIInv ==
  ASSUME IInv, NEW fn \in ApiCall, OnNull(fn)
  PROVE  IInv'
BY QuietCall DEF OnNull, Reply, IInv, TypeOK, mips_error

(* A call that puts the CPU at rest somewhere: created, reset or placed.      *)
LEMMA RestingCall ==
  ASSUME IInv,
         process' = process, handle' \in {NULL, "cpu"}, data' = data,
         call' \in ApiCall \ {"mips_cpu_step"}, err' \in mips_error,
         state' \in mips_cpu_impl, state'.regs[0] = 0,
         state'.delay_slot = 0, state'.jPC = 0,
         state'.nPC = Plus(state'.pc, 4), taken' = None
  PROVE  IInv'
<1>1. TypeOK' /\ RegZero' /\ NoPendingJump' /\ NextPc'
  BY DEF IInv, TypeOK, RegZero, NoPendingJump, NextPc
<1>2. ErrorStands'
  BY DEF ErrorStands
<1> QED BY <1>1, <1>2 DEF IInv

LEMMA SetRegisterIInv ==
  ASSUME IInv, NEW index \in ClientRegs, NEW value \in ClientValues,
         mips_cpu_set_register(index, value)
  PROVE  IInv'
<1>1. CASE OnNull("mips_cpu_set_register")
  BY <1>1, OnNullIInv DEF ApiCall
<1>2. CASE ~OnNull("mips_cpu_set_register")
  <2>1. /\ process' = process /\ handle' = handle /\ data' = data /\ taken' = taken
        /\ call' = "mips_cpu_set_register" /\ err' \in {Success, InvalidArgument}
        /\ state' = IF index \in Reg \ {0} THEN SetReg(state, index, value) ELSE state
    BY <1>2 DEF mips_cpu_set_register, Reply
  <2>2. state \in mips_cpu_impl /\ value \in Word
    BY ClientAssumption DEF IInv, TypeOK
  <2>3. /\ Kept(state, state')
        /\ state'.delay_slot = state.delay_slot /\ state'.jPC = state.jPC
    BY <2>1, <2>2, SetRegKept, KeptItself
  <2>4. TypeOK' /\ RegZero' /\ NoPendingJump' /\ NextPc'
    BY <2>1, <2>3 DEF Kept, IInv, TypeOK, ApiCall, mips_error, RegZero, NoPendingJump, NextPc
  <2>5. ErrorStands'
    BY <2>1 DEF ErrorStands
  <2> QED BY <2>4, <2>5 DEF IInv
<1> QED BY <1>1, <1>2

LEMMA SetPcIInv ==
  ASSUME IInv, NEW pc \in ClientPCs, mips_cpu_set_pc(pc)
  PROVE  IInv'
<1>1. CASE OnNull("mips_cpu_set_pc")
  BY <1>1, OnNullIInv DEF ApiCall
<1>2. CASE handle # NULL /\ pc % 4 = 0
  <2>1. /\ process' = process /\ handle' = handle /\ data' = data /\ taken' = None
        /\ call' = "mips_cpu_set_pc" /\ err' = Success
        /\ state' = PlacePc(state, pc)
    BY <1>2 DEF mips_cpu_set_pc, Reply, OnNull
  <2>2. state \in mips_cpu_impl /\ pc \in Word /\ Plus(pc, 4) \in Word
    <3>1. pc \in Word
      BY ClientAssumption
    <3>2. pc \in Int /\ 4 \in Int
      BY <3>1, WordIsInt
    <3> QED BY <3>1, <3>2, PlusType DEF IInv, TypeOK
  <2>3. /\ PlacePc(state, pc) \in mips_cpu_impl
        /\ PlacePc(state, pc).regs = state.regs
        /\ PlacePc(state, pc).delay_slot = state.delay_slot
        /\ PlacePc(state, pc).jPC = state.jPC
        /\ PlacePc(state, pc).pc = pc
        /\ PlacePc(state, pc).nPC = Plus(pc, 4)
    BY <2>2 DEF PlacePc, mips_cpu_impl
  <2> QED BY <2>1, <2>3, RestingCall
       DEF IInv, TypeOK, RegZero, NoPendingJump, ApiCall, mips_error
<1>3. CASE handle # NULL /\ pc % 4 # 0
  BY <1>3, QuietCall
    DEF mips_cpu_set_pc, OnNull, Reply, IInv, TypeOK, ApiCall, mips_error
<1> QED BY <1>1, <1>2, <1>3 DEF mips_cpu_set_pc

LEMMA NextIInv == IInv /\ [Next]_vars => IInv'
<1> SUFFICES ASSUME IInv, [Next]_vars PROVE IInv'
  OBVIOUS
<1>1. CASE mips_cpu_create
  <2>1. PICK mem \in Handle : state' = Created(mem)
    BY <1>1 DEF mips_cpu_create
  <2> QED BY <1>1, <2>1, CreatedGood, RestingCall
       DEF mips_cpu_create, Reply, ApiCall, mips_error
<1>2. CASE mips_cpu_free
  <2>1. NULL \in Handle
    BY DEF Handle
  <2> QED BY <1>2, <2>1, CreatedGood, RestingCall
       DEF mips_cpu_free, Reply, ApiCall, mips_error
<1>3. CASE mips_cpu_reset
  <2>1. CASE OnNull("mips_cpu_reset")
    BY <2>1, OnNullIInv DEF ApiCall
  <2>2. CASE ~OnNull("mips_cpu_reset")
    <3>1. state.mem \in Handle
      BY DEF IInv, TypeOK, mips_cpu_impl
    <3>2. /\ process' = process /\ handle' = handle /\ data' = data /\ taken' = None
          /\ call' = "mips_cpu_reset" /\ err' = Success
          /\ state' = Created(state.mem)
      BY <1>3, <2>2 DEF mips_cpu_reset, Reply
    <3> QED BY <3>1, <3>2, CreatedGood, RestingCall DEF IInv, TypeOK, ApiCall, mips_error
  <2> QED BY <2>1, <2>2
<1>4. CASE \E index \in ClientRegs, value \in ClientValues : mips_cpu_set_register(index, value)
  BY <1>4, SetRegisterIInv
<1>5. CASE \E pc \in ClientPCs : mips_cpu_set_pc(pc)
  BY <1>5, SetPcIInv
<1>6. CASE mips_cpu_step
  <2>1. CASE OnNull("mips_cpu_step")
    BY <2>1, OnNullIInv DEF ApiCall
  <2>2. CASE StepReturns
    BY <2>2, StepReturnsIInv
  <2>3. CASE StepKills
    <3>1. TypeOK' /\ RegZero' /\ NoPendingJump' /\ NextPc'
      BY <2>3 DEF StepKills, IInv, TypeOK, ApiCall, RegZero, NoPendingJump, NextPc
    <3>2. ErrorStands'
      BY <2>3 DEF StepKills, ErrorStands
    <3> QED BY <3>1, <3>2 DEF IInv
  <2> QED BY <1>6, <2>1, <2>2, <2>3 DEF mips_cpu_step
<1>7. CASE \E w \in ClientWrites : client_mem_write(w)
  <2>1. PICK w \in ClientWrites : client_mem_write(w)
    BY <1>7
  <2> DEFINE e == mips_mem_read_write("ram", CbMem, w.address, w.length)
  <2>2. e \in mips_error
    BY MemErrorType
  <2>3. mips_mem_write(data, w.address, w.length, w.bytes) \in RamData
    <3>1. /\ w.address \in Word /\ w.length \in {1, 2, 4}
          /\ w.bytes \in [0 .. w.length - 1 -> Byte]
      BY ClientAssumption
    <3>2. \A k \in 0 .. w.length - 1 : w.bytes[k] \in Byte
      BY <3>1
    <3> QED BY <3>1, <3>2, MemWriteType DEF IInv, TypeOK
  <2>4. data' \in RamData
    BY <2>1, <2>3 DEF client_mem_write, IInv, TypeOK
  <2> HIDE DEF e
  <2> QED BY <2>1, <2>2, <2>4, QuietCall
       DEF client_mem_write, Reply, IInv, TypeOK, ApiCall, e
<1>8. CASE UNCHANGED vars
  BY <1>8 DEF vars, IInv, TypeOK, RegZero, NoPendingJump, NextPc, ErrorStands
<1> QED BY <1>1, <1>2, <1>3, <1>4, <1>5, <1>6, <1>7, <1>8 DEF Next

THEOREM Invariance == Spec => []IInv
BY InitIInv, NextIInv, PTL DEF Spec

(* Every reachable state is a struct mips_cpu_impl with a mips_error of the   *)
(* API: no instruction computes a value wider than its register.              *)
THEOREM TypeCorrect == Spec => []TypeOK
<1>1. IInv => TypeOK
  BY DEF IInv
<1> QED BY <1>1, Invariance, PTL

(* Register 0 is zero for every program and every client.                     *)
THEOREM RegZeroCorrect == Spec => []RegZero
<1>1. IInv => RegZero
  BY DEF IInv
<1> QED BY <1>1, Invariance, PTL

(* delay_slot and jPC never survive the call that set them.                   *)
THEOREM NoPendingJumpCorrect == Spec => []NoPendingJump
<1>1. IInv => NoPendingJump
  BY DEF IInv
<1> QED BY <1>1, Invariance, PTL

(* nPC always remembers exactly the last jump.                                *)
THEOREM NextPcCorrect == Spec => []NextPc
<1>1. IInv => NextPc
  BY DEF IInv
<1> QED BY <1>1, Invariance, PTL

----------------------------------------------------------------------------
(* The only call that a step can be.                                          *)
LEMMA StepIsStep == ASSUME Next, call' = "mips_cpu_step" PROVE mips_cpu_step
BY DEF Next, mips_cpu_create, mips_cpu_free, mips_cpu_reset, mips_cpu_set_register,
       mips_cpu_set_pc, client_mem_write, OnNull, Reply

(* The error contract of mips_cpu_step: a step that returns an error has      *)
(* changed neither the CPU nor the RAM, for every instruction.                *)
THEOREM ErrorContract == Spec => FailedStepChangesNothing
<1>1. ASSUME IInv, Next, StepFails
      PROVE  UNCHANGED << handle, state, data, taken >>
  <2>1. mips_cpu_step
    BY <1>1, StepIsStep DEF StepFails
  <2>2. CASE OnNull("mips_cpu_step")
    BY <2>2 DEF OnNull
  <2>3. CASE StepReturns
    <3>1. err' = Execute(state, data).err /\ handle' = handle
      BY <2>3 DEF StepReturns, Reply
    <3>2. Execute(state, data).err # Success
      BY <1>1, <3>1 DEF StepFails
    <3> QED BY <1>1, <2>3, <3>1, <3>2, StepOutcome
  <2>4. CASE StepKills
    BY <2>4 DEF StepKills
  <2> QED BY <2>1, <2>2, <2>3, <2>4 DEF mips_cpu_step
<1>2. IInv /\ [Next]_vars => [StepFails => UNCHANGED << handle, state, data, taken >>]_vars
  BY <1>1
<1> QED BY <1>2, Invariance, PTL DEF Spec, FailedStepChangesNothing

(* The assertion in mips_cpu.h: stepping again after an error gives the same  *)
(* error again.                                                               *)
THEOREM ErrorRepeats == Spec => FailureRepeats
<1> DEFINE Repeats ==
      call = "mips_cpu_step" /\ err # Success /\ call' = "mips_cpu_step" => err' = err
<1>1. ASSUME IInv, Next, call = "mips_cpu_step", err # Success, call' = "mips_cpu_step"
      PROVE  err' = err
  <2>1. mips_cpu_step
    BY <1>1, StepIsStep
  <2>2. CASE OnNull("mips_cpu_step")
    BY <1>1, <2>2 DEF OnNull, Reply, IInv, ErrorStands
  <2>3. CASE StepReturns
    BY <1>1, <2>3 DEF StepReturns, Reply, IInv, ErrorStands
  <2>4. CASE StepKills
    BY <2>4 DEF StepKills
  <2> QED BY <2>1, <2>2, <2>3, <2>4 DEF mips_cpu_step
<1>2. IInv /\ [Next]_vars => [Repeats]_vars
  BY <1>1
<1> QED BY <1>2, Invariance, PTL DEF Spec, FailureRepeats

----------------------------------------------------------------------------
(* A step that returns has one result, and it shows.                          *)
LEMMA AtMostOne == ASSUME NEW S, NEW e, S \subseteq {e} PROVE Cardinality(S) <= 1
<1>1. CASE S = {}
  BY <1>1, FS_EmptySet
<1>2. CASE S = {e}
  BY <1>2, FS_Singleton
<1> QED BY <1>1, <1>2

LEMMA StepResult ==
  ASSUME IInv, StepReturns
  PROVE  /\ OneResultOf(state, state')
         /\ \/ data' = data
            \/ /\ state'.regs = state.regs /\ state'.hi = state.hi /\ state'.lo = state.lo
               /\ OneWord(data, data')
<1> DEFINE o == Execute(state, data)
<1>1. GoodOutcome(state, data, o)
  BY ExecuteGood DEF IInv, TypeOK
<1>2. o.err # Killed /\ state' = StepState(o) /\ data' = o.data
  BY DEF StepReturns
<1> HIDE DEF o
<1>3. OneResultOf(state, o.state) /\ o.state \in mips_cpu_impl
  BY <1>1 DEF GoodOutcome, GoodReturn, Kept
<1>4. o.data = data \/ (o.state = state /\ OneWord(data, o.data))
  BY <1>1 DEF GoodOutcome
<1>5. state'.regs = o.state.regs /\ state'.hi = o.state.hi /\ state'.lo = o.state.lo
  BY <1>2, <1>3, IncrementType DEF StepState
<1> QED BY <1>2, <1>3, <1>4, <1>5 DEF OneResultOf, OneRegister

LEMMA StepOneResult == ASSUME IInv, StepReturns PROVE OneResult
<1> DEFINE regs == {r \in Reg : state'.regs[r] # state.regs[r]}
           hilo == << state'.hi, state'.lo >> # << state.hi, state.lo >>
           words == {a \div 4 : a \in {b \in RamAddress : data'[b] # data[b]}}
           results == {part \in {"regs", "hilo", "words"} :
                         \/ part = "regs" /\ regs # {}
                         \/ part = "hilo" /\ hilo
                         \/ part = "words" /\ words # {}}
<1>1. \E r : regs \subseteq {r}
  BY StepResult DEF OneResultOf, OneRegister
<1>2. \E w : words \subseteq {w}
  BY StepResult DEF OneWord
<1>3. regs = {} \/ ~hilo
  BY StepResult DEF OneResultOf
<1>4. words = {} \/ (regs = {} /\ ~hilo)
  BY StepResult
<1> HIDE DEF regs, hilo, words
<1>5. \E part : results \subseteq {part}
  BY <1>3, <1>4
<1> HIDE DEF results
<1>6. Cardinality(regs) <= 1 /\ Cardinality(words) <= 1 /\ Cardinality(results) <= 1
  BY <1>1, <1>2, <1>5, AtMostOne
<1> QED BY <1>6 DEF OneResult, regs, hilo, words, results

(* Nothing at all is also at most one result.                                 *)
LEMMA NoResult == ASSUME UNCHANGED << state, data >> PROVE OneResult
<1> DEFINE regs == {r \in Reg : state'.regs[r] # state.regs[r]}
           hilo == << state'.hi, state'.lo >> # << state.hi, state.lo >>
           words == {a \div 4 : a \in {b \in RamAddress : data'[b] # data[b]}}
           results == {part \in {"regs", "hilo", "words"} :
                         \/ part = "regs" /\ regs # {}
                         \/ part = "hilo" /\ hilo
                         \/ part = "words" /\ words # {}}
<1>1. regs = {} /\ words = {} /\ ~hilo
  OBVIOUS
<1> HIDE DEF regs, hilo, words
<1>2. results = {}
  BY <1>1
<1> HIDE DEF results
<1>3. Cardinality(regs) = 0 /\ Cardinality(words) = 0 /\ Cardinality(results) = 0
  BY <1>1, <1>2, FS_EmptySet
<1> QED BY <1>3 DEF OneResult, regs, hilo, words, results

(* Every instruction has one result: a register, or HI and LO, or bytes of    *)
(* one word of the RAM.                                                       *)
THEOREM OneResultCorrect == Spec => OneResultPerStep
<1>1. ASSUME IInv, Next, call' = "mips_cpu_step"
      PROVE  OneResult
  <2>1. mips_cpu_step
    BY <1>1, StepIsStep
  <2> QED BY <1>1, <2>1, StepOneResult, NoResult DEF mips_cpu_step, OnNull, StepKills
<1>2. IInv /\ [Next]_vars => [call' = "mips_cpu_step" => OneResult]_vars
  BY <1>1
<1> QED BY <1>2, Invariance, PTL DEF Spec, OneResultPerStep

----------------------------------------------------------------------------
(* What can leave nPC at an address that is no multiple of four.              *)
LEMMA PlusFourAligned ==
  ASSUME NEW a \in Word, a % 4 = 0
  PROVE  Plus(a, 4) % 4 = 0
<1>1. a + 4 \in Int /\ (a + 4) % 4 = 0
  BY WordIsInt
<1> QED BY <1>1, WordAligned DEF ToWord, Plus

LEMMA StepAligned ==
  ASSUME IInv, StepReturns, state.nPC % 4 = 0,
         ~(FetchedInstr.opcode = \h0 /\ FetchedInstr.fn \in {\h8, \h9})
  PROVE  state'.nPC % 4 = 0
<1> DEFINE o == Execute(state, data)
<1>1. o.state.jPC % 4 = 0
  <2>1. state \in mips_cpu_impl /\ data \in RamData /\ state.jPC = 0
    BY DEF IInv, TypeOK, NoPendingJump
  <2>2. Aligned(o)
    BY <2>1, ExecuteAligned DEF FetchedInstr
  <2> HIDE DEF o
  <2> QED BY <2>2 DEF Aligned
<1>2. CASE o.err # Success
  BY <1>2, StepOutcome
<1>3. CASE o.err = Success
  <2>1. /\ state' = mips_cpu_increment_pc(o.state)
        /\ o.state \in mips_cpu_impl /\ o.state.nPC = state.nPC
    BY <1>3, StepOutcome
  <2> HIDE DEF o
  <2>2. state'.nPC = Plus(state.nPC, 4) \/ state'.nPC = o.state.jPC
    BY <2>1, IncrementType DEF mips_cpu_impl
  <2>3. Plus(state.nPC, 4) % 4 = 0
    BY FieldTypes, PlusFourAligned DEF IInv, TypeOK
  <2> QED BY <1>1, <2>2, <2>3
<1> QED BY <1>2, <1>3

(* Only JR and JALR can send the pc to an address that cannot be fetched for  *)
(* its alignment: a branch, a J target and the client never do.               *)
THEOREM OnlyRegisterJumpsMisalignCorrect == Spec => OnlyRegisterJumpsMisalign
<1> DEFINE RegisterJump == FetchedInstr.opcode = \h0 /\ FetchedInstr.fn \in {\h8, \h9}
<1>1. ASSUME IInv, Next, state.nPC % 4 = 0, state'.nPC % 4 # 0
      PROVE  RegisterJump
  <2>0. ASSUME NEW mem, state' = Created(mem) PROVE FALSE
    BY <1>1, <2>0 DEF Created
  <2>1. CASE mips_cpu_create
    BY <2>0, <2>1 DEF mips_cpu_create
  <2>2. CASE mips_cpu_free
    BY <2>0, <2>2 DEF mips_cpu_free
  <2>3. CASE mips_cpu_reset
    BY <1>1, <2>0, <2>3 DEF mips_cpu_reset, OnNull
  <2>4. CASE \E index \in ClientRegs, value \in ClientValues : mips_cpu_set_register(index, value)
    <3>1. state'.nPC = state.nPC
      BY <2>4, <1>1 DEF mips_cpu_set_register, OnNull, SetReg, IInv, TypeOK, mips_cpu_impl
    <3> QED BY <1>1, <3>1
  <2>5. CASE \E pc \in ClientPCs : mips_cpu_set_pc(pc)
    <3>1. PICK pc \in ClientPCs : mips_cpu_set_pc(pc)
      BY <2>5
    <3>2. state' = state \/ (state' = PlacePc(state, pc) /\ pc % 4 = 0)
      BY <3>1 DEF mips_cpu_set_pc, OnNull
    <3>3. PlacePc(state, pc).nPC = Plus(pc, 4) /\ pc \in Word
      BY <1>1, ClientAssumption DEF PlacePc, IInv, TypeOK, mips_cpu_impl
    <3> QED BY <1>1, <3>2, <3>3, PlusFourAligned
  <2>6. CASE mips_cpu_step
    BY <1>1, <2>6, StepAligned DEF mips_cpu_step, OnNull, StepKills
  <2>7. CASE \E w \in ClientWrites : client_mem_write(w)
    BY <1>1, <2>7 DEF client_mem_write
  <2> QED BY <1>1, <2>1, <2>2, <2>3, <2>4, <2>5, <2>6, <2>7 DEF Next
<1>2. IInv /\ [Next]_vars
        => [state.nPC % 4 = 0 /\ state'.nPC % 4 # 0 => RegisterJump]_vars
  BY <1>1
<1> QED BY <1>2, Invariance, PTL DEF Spec, OnlyRegisterJumpsMisalign

----------------------------------------------------------------------------
(* The instance has words of its own: they are those of this module.          *)
LEMMA SameWords ==
  /\ Delayed!Word = Word
  /\ \A a, b : Delayed!Plus(a, b) = Plus(a, b)
BY DEF Delayed!Word, Delayed!WordSize, Delayed!HalfSize, Delayed!ByteSize, Delayed!Plus,
       Word, WordSize, HalfSize, ByteSize, Plus

(* The pc and nPC pair implements the delayed-branch machine: a step executes *)
(* an instruction where the one before it decided, or leaves the pc still ... *)
LEMMA StepImplements ==
  ASSUME IInv, StepReturns
  PROVE  Delayed!Next
<1> DEFINE o == Execute(state, data)
<1>0. process' = "running" /\ call' = "mips_cpu_step" /\ err' = o.err
  BY DEF StepReturns, Reply
<1>1. CASE o.err # Success
  <2>1. Last' = "still"
    BY <1>0, <1>1 DEF Last
  <2>2. state' = state /\ taken' = taken
    BY <1>1, StepOutcome
  <2> QED BY <2>1, <2>2 DEF Delayed!Next, Delayed!Still
<1>2. CASE o.err = Success
  <2>0. Last' = "executed"
    BY <1>0, <1>2 DEF Last
  <2>1. /\ o.state \in mips_cpu_impl
        /\ state' = mips_cpu_increment_pc(o.state)
        /\ o.state.nPC = state.nPC
        /\ \/ o.state.delay_slot = 0 /\ o.state.jPC = 0 /\ taken' = None
           \/ o.state.delay_slot = 1 /\ taken' = o.state.jPC
    BY <1>2, StepOutcome
  <2> HIDE DEF o
  <2>2. state'.pc = state.nPC
    BY <2>1, IncrementType
  <2>3. Delayed!Follow
    BY <2>0, <2>2, SameWords DEF Delayed!Follow, Delayed!None, None, IInv, NextPc
  <2>4. taken' = None \/ taken' \in Word
    BY <2>1 DEF mips_cpu_impl
  <2> QED BY <2>3, <2>4, SameWords
       DEF Delayed!Next, Delayed!Sequential, Delayed!Branch, Delayed!None, None
<1> QED BY <1>1, <1>2

(* ... a call that succeeds and places the pc is a Seek ...                   *)
Placers == {"mips_cpu_create", "mips_cpu_free", "mips_cpu_reset", "mips_cpu_set_pc"}
LEMMA SeekImplements ==
  ASSUME NEW fn \in Placers, Reply(fn, Success), UNCHANGED process,
         state'.pc \in Word, state'.pc % 4 = 0, taken' = None
  PROVE  Delayed!Next
<1>1. Last' = "placed"
  BY DEF Last, Reply, Placers, Success
<1> QED BY <1>1, SameWords DEF Delayed!Next, Delayed!Seek, Delayed!Aligned, Delayed!None, None

(* ... and a call that is refused, or none of the placers, leaves it still.   *)
LEMMA StillImplements ==
  ASSUME NEW fn, NEW e, Reply(fn, e), UNCHANGED process,
         fn \in {"mips_cpu_set_register", "mips_mem_write"} \/ e # Success,
         state'.pc = state.pc, taken' = taken
  PROVE  Delayed!Next
<1>1. Last' = "still"
  BY DEF Last, Reply
<1> QED BY <1>1 DEF Delayed!Next, Delayed!Still

LEMMA NextImplements ==
  ASSUME IInv, [Next]_vars
  PROVE  [Delayed!Next]_(Delayed!vars)
<1>0. ASSUME NEW fn \in Placers, Reply(fn, Success), UNCHANGED process,
             NEW mem, state' = Created(mem), taken' = None
      PROVE  Delayed!Next
  <2>1. 0 \in Word /\ 0 % 4 = 0
    BY SizeFacts DEF Word
  <2>2. state'.pc = 0
    BY <1>0 DEF Created
  <2> QED BY <1>0, <2>1, <2>2, SeekImplements
<1>n. ASSUME NEW fn, OnNull(fn)
      PROVE  Delayed!Next
  BY <1>n, StillImplements DEF OnNull, InvalidHandle, Success
<1>1. CASE mips_cpu_create
  <2>1. PICK mem \in Handle : state' = Created(mem)
    BY <1>1 DEF mips_cpu_create
  <2> QED BY <1>0, <1>1, <2>1 DEF mips_cpu_create, Placers
<1>2. CASE mips_cpu_free
  BY <1>0, <1>2 DEF mips_cpu_free, Placers
<1>3. CASE mips_cpu_reset
  <2>1. CASE OnNull("mips_cpu_reset")
    BY <1>n, <2>1
  <2>2. CASE ~OnNull("mips_cpu_reset")
    BY <1>0, <1>3, <2>2 DEF mips_cpu_reset, Placers
  <2> QED BY <2>1, <2>2
<1>4. CASE \E index \in ClientRegs, value \in ClientValues : mips_cpu_set_register(index, value)
  <2>1. PICK index \in ClientRegs, value \in ClientValues : mips_cpu_set_register(index, value)
    BY <1>4
  <2>2. CASE OnNull("mips_cpu_set_register")
    BY <1>n, <2>2
  <2>3. CASE ~OnNull("mips_cpu_set_register")
    <3>1. state'.pc = state.pc /\ taken' = taken
      BY <2>1 DEF mips_cpu_set_register, OnNull, SetReg, IInv, TypeOK, mips_cpu_impl
    <3>2. PICK e : Reply("mips_cpu_set_register", e) /\ UNCHANGED process
      BY <2>1, <2>3 DEF mips_cpu_set_register
    <3> QED BY <3>1, <3>2, StillImplements
  <2> QED BY <2>2, <2>3
<1>5. CASE \E pc \in ClientPCs : mips_cpu_set_pc(pc)
  <2>1. PICK pc \in ClientPCs : mips_cpu_set_pc(pc)
    BY <1>5
  <2>2. CASE OnNull("mips_cpu_set_pc")
    BY <1>n, <2>2
  <2>3. CASE pc % 4 = 0 /\ ~OnNull("mips_cpu_set_pc")
    <3>1. PlacePc(state, pc).pc = pc /\ pc \in Word
      BY ClientAssumption DEF PlacePc, IInv, TypeOK, mips_cpu_impl
    <3> QED BY <2>1, <2>3, <3>1, SeekImplements DEF mips_cpu_set_pc, Placers
  <2>4. CASE pc % 4 # 0 /\ ~OnNull("mips_cpu_set_pc")
    BY <2>1, <2>4, StillImplements DEF mips_cpu_set_pc, InvalidAlignment, Success
  <2> QED BY <2>2, <2>3, <2>4
<1>6. CASE mips_cpu_step
  <2>1. CASE StepKills
    <3>1. Last' = "still"
      BY <2>1 DEF StepKills, Last
    <3> QED BY <2>1, <3>1 DEF StepKills, Delayed!Next, Delayed!Still
  <2> QED BY <1>6, <1>n, <2>1, StepImplements DEF mips_cpu_step
<1>7. CASE \E w \in ClientWrites : client_mem_write(w)
  <2>1. PICK e : Reply("mips_mem_write", e) /\ UNCHANGED << process, state, taken >>
    BY <1>7 DEF client_mem_write
  <2> QED BY <2>1, StillImplements
<1>8. CASE UNCHANGED vars
  BY <1>8 DEF vars, Delayed!vars, Last
<1> QED BY <1>1, <1>2, <1>3, <1>4, <1>5, <1>6, <1>7, <1>8 DEF Next

(* Branches are delayed by exactly one successful instruction: for every      *)
(* program and client, each step that succeeds goes where the step before it  *)
(* decided, and only the client's calls that place the pc go elsewhere.       *)
THEOREM DelayedBranchCorrect == Spec => BranchesAreDelayed
<1>1. Init => Delayed!Init
  BY DEF Init, Delayed!Init, Created, Delayed!None, None, Last
<1> QED BY <1>1, Invariance, NextImplements, PTL DEF Spec, BranchesAreDelayed, Delayed!Spec
----------------------------------------------------------------------------
(* Loads and stores at an address, as the properties of MipsMemory make them. *)

(* What the client sees of a load: its address in register 1, the bytes of    *)
(* one transaction in register t.                                             *)
LoadError(opcode, a, st) ==
  IF opcode \in {\h21, \h23} /\ a % TransferLength(opcode) # 0 THEN InvalidAlignment
  ELSE mips_mem_read_write(st.mem, CbMem, TransferAddress(opcode, a), TransferLength(opcode))

LoadValue(opcode, a, old, ram) ==
  LoadedWord(opcode, mips_mem_read(ram, TransferAddress(opcode, a), TransferLength(opcode)),
             ToBytes(old), a % 4)

LEMMA AtAddress ==
  ASSUME NEW st \in mips_cpu_impl, NEW a \in Word
  PROVE  LET st1 == SetReg(st, 1, a)
         IN  /\ st1 \in mips_cpu_impl
             /\ st1.mem = st.mem
             /\ Plus(st1.regs[1], 0) = a
             /\ \A t \in {2, 3} : st1.regs[t] = st.regs[t]
<1> DEFINE st1 == SetReg(st, 1, a)
<1>1. /\ st1 \in mips_cpu_impl /\ st1.mem = st.mem /\ st1.regs[1] = a
      /\ \A t \in {2, 3} : st1.regs[t] = st.regs[t]
  BY DEF SetReg, mips_cpu_impl, Reg
<1>2. a \in 0 .. WordSize - 1 /\ WordSize \in Nat \ {0} /\ a + 0 = a
  BY SizeFacts DEF Word
<1>3. Plus(a, 0) = a
  BY <1>2 DEF Plus
<1> QED BY <1>1, <1>3

LEMMA AtLoad ==
  ASSUME NEW st \in mips_cpu_impl, NEW ram, NEW a \in Word, NEW t \in {2, 3},
         NEW opcode \in Loads
  PROVE  LET o == At(opcode, a, t, st, ram)
         IN  /\ o.err = LoadError(opcode, a, st)
             /\ o.err = Success =>
                  o.state = SetReg(SetReg(st, 1, a), t, LoadValue(opcode, a, st.regs[t], ram))
<1> DEFINE st1 == SetReg(st, 1, a)
           e == LoadError(opcode, a, st)
           o == cpu_memory_funcs(opcode, 1, t, 0, st1, ram)
           v == LoadValue(opcode, a, st.regs[t], ram)
<1>1. st1.mem = st.mem /\ Plus(st1.regs[1], 0) = a /\ st1.regs[t] = st.regs[t]
  BY AtAddress
<1>2. opcode \notin Stores /\ t # 0
  BY DEF Loads, Stores
<1> HIDE DEF st1
<1>3. CASE e = Success
  <2>1. o = [state |-> SetReg(st1, t, v), data |-> ram, err |-> e]
    BY <1>1, <1>2, <1>3 DEF cpu_memory_funcs, LoadError, LoadValue
  <2> QED BY <2>1 DEF At, st1
<1>4. CASE e # Success
  <2>1. o = [state |-> st1, data |-> ram, err |-> e]
    BY <1>1, <1>2, <1>4 DEF cpu_memory_funcs, LoadError
  <2> QED BY <1>4, <2>1 DEF At, st1
<1> QED BY <1>3, <1>4

LEMMA AtStore ==
  ASSUME NEW st \in mips_cpu_impl, NEW ram, NEW a \in Word, NEW opcode \in Stores
  PROVE  LET o == At(opcode, a, 2, st, ram)
             length == TransferLength(opcode)
         IN  /\ o.err = mips_mem_read_write(st.mem, CbMem, a, length)
             /\ o.state = SetReg(st, 1, a)
             /\ o.err = Success =>
                  o.data = mips_mem_write(ram, a, length, StoredBytes(st.regs[2], length))
<1> DEFINE st1 == SetReg(st, 1, a)
           length == TransferLength(opcode)
           e == mips_mem_read_write(st.mem, CbMem, a, length)
           o == cpu_memory_funcs(opcode, 1, 2, 0, st1, ram)
<1>1. st1.mem = st.mem /\ Plus(st1.regs[1], 0) = a /\ st1.regs[2] = st.regs[2]
  BY AtAddress
<1>2. opcode \notin Loads /\ opcode \notin {\h21, \h23} /\ TransferAddress(opcode, a) = a
  BY DEF Loads, Stores, TransferAddress
<1> HIDE DEF st1
<1>3. CASE e = Success
  <2>1. o = [state |-> st1, err |-> e,
             data |-> mips_mem_write(ram, a, length, StoredBytes(st.regs[2], length))]
    BY <1>1, <1>2, <1>3 DEF cpu_memory_funcs
  <2> QED BY <2>1 DEF At, st1
<1>4. CASE e # Success
  <2>1. o = [state |-> st1, data |-> ram, err |-> e]
    BY <1>1, <1>2, <1>4 DEF cpu_memory_funcs
  <2> QED BY <1>4, <2>1 DEF At, st1
<1> QED BY <1>3, <1>4

(* The loads that do not mask their address succeed like the stores.          *)
LEMMA LoadErrorExact ==
  ASSUME NEW st \in mips_cpu_impl, st.mem # NULL, NEW a \in Word,
         NEW opcode \in Loads \ {\h22, \h26}
  PROVE  LET length == TransferLength(opcode)
         IN  /\ LoadError(opcode, a, st) = mips_mem_read_write(st.mem, CbMem, a, length)
             /\ LoadError(opcode, a, st) = Success <=> a % length = 0 /\ a + length <= CbMem
<1> DEFINE length == TransferLength(opcode)
<1>1. length \in {1, 2, 4} /\ length \in Word
  BY SizeFacts DEF TransferLength, Word
<1>2. TransferAddress(opcode, a) = a
  BY DEF TransferAddress
<1>3. st.mem \in Handle
  BY DEF mips_cpu_impl
<1> HIDE DEF length
<1>4. mips_mem_read_write(st.mem, CbMem, a, length) = Success
        <=> a % length = 0 /\ a + length <= CbMem
  BY <1>1, <1>3, RamCheckExact
<1>5. a % length # 0 => mips_mem_read_write(st.mem, CbMem, a, length) = InvalidAlignment
  BY <1>1 DEF mips_mem_read_write
<1> QED BY <1>2, <1>4, <1>5 DEF LoadError, length, InvalidAlignment, Success

(* The low parts of a word, put together from its bytes.                      *)
LEMMA LowParts ==
  ASSUME NEW x \in Word
  PROVE  /\ ByteOf(x, 0) = x % ByteSize
         /\ JoinHalf(ByteOf(x, 1), ByteOf(x, 0)) = x % HalfSize
         /\ FromBytes([k \in 0 .. 3 |-> ByteOf(x, 3 - k)]) = x
<1>1. ByteOf(x, 0) = x % ByteSize
  <2>1. ByteWeight[4] = 1 /\ x \div 1 = x
    BY WordIsInt DEF ByteWeight
  <2> QED BY <2>1 DEF ByteOf
<1>2. \A k \in 0 .. 3 : ByteOf(x, k) \in Byte
  BY ByteOfType
<1> DEFINE h == JoinHalf(ByteOf(x, 3), ByteOf(x, 2))
           l == JoinHalf(ByteOf(x, 1), ByteOf(x, 0))
<1>3. x = h * HalfSize + l
  BY JoinOfBytes DEF JoinWord
<1>4. h \in Half /\ l \in Half
  BY <1>2, JoinHalfType
<1> HIDE DEF h, l
<1>5. HalfSize \in Nat \ {0} /\ h \in Int /\ l \in 0 .. HalfSize - 1
  BY <1>4, SizeFacts DEF Half
<1>6. x % HalfSize = l
  BY <1>3, <1>5, DivMod
<1> DEFINE f == [k \in 0 .. 3 |-> ByteOf(x, 3 - k)]
<1>7. f[0] = ByteOf(x, 3) /\ f[1] = ByteOf(x, 2) /\ f[2] = ByteOf(x, 1) /\ f[3] = ByteOf(x, 0)
  OBVIOUS
<1> HIDE DEF f
<1>8. FromBytes(f) = x
  BY <1>7, JoinOfBytes DEF FromBytes
<1> QED BY <1>1, <1>6, <1>8 DEF l, f

(* Reading the bytes just written.                                            *)
LEMMA ReadBack ==
  ASSUME NEW ram \in RamData, NEW a \in Word, NEW length \in {1, 2, 4}, NEW bytes,
         a + length <= CbMem
  PROVE  \A k \in 0 .. length - 1 :
           mips_mem_read(mips_mem_write(ram, a, length, bytes), a, length)[k] = bytes[k]
<1> TAKE k \in 0 .. length - 1
<1>1. a \in Int /\ a >= 0 /\ CbMem \in Nat
  BY WordIsInt, RamAssumption
<1>2. a + k \in RamAddress /\ a + k \in a .. a + length - 1 /\ (a + k) - a = k
  BY <1>1 DEF RamAddress
<1>3. DOMAIN ram = RamAddress
  BY DEF RamData
<1> QED BY <1>2, <1>3 DEF mips_mem_read, mips_mem_write

(* The bytes b are the low ones of x, in the order of memory.                 *)
HoldsLow(b, x, length) == \A k \in 0 .. length - 1 : b[k] = StoredBytes(x, length)[k]

LEMMA StoreLoads ==
  ASSUME NEW x \in Word, NEW old, NEW l, NEW p \in Accesses, NEW b,
         HoldsLow(b, x, p[3])
  PROVE  LoadedWord(p[2], b, old, l) = x % p[4]
<1>1. CASE p = << \h28, \h24, 1, ByteSize >>
  <2>1. p[2] = \h24 /\ p[3] = 1 /\ p[4] = ByteSize
    BY <1>1
  <2>2. b[0] = ByteOf(x, 0)
    BY <2>1 DEF HoldsLow, StoredBytes
  <2>3. LoadedWord(\h24, b, old, l) = b[0]
    BY DEF LoadedWord
  <2> QED BY <2>1, <2>2, <2>3, LowParts
<1>2. CASE p = << \h29, \h25, 2, HalfSize >>
  <2>1. p[2] = \h25 /\ p[3] = 2 /\ p[4] = HalfSize
    BY <1>2
  <2>2. 0 \in 0 .. 1 /\ 1 \in 0 .. 1 /\ 0 .. p[3] - 1 = 0 .. 1
    BY <2>1
  <2>3. StoredBytes(x, 2)[0] = ByteOf(x, 1) /\ StoredBytes(x, 2)[1] = ByteOf(x, 0)
    BY DEF StoredBytes
  <2>4. b[0] = ByteOf(x, 1) /\ b[1] = ByteOf(x, 0)
    BY <2>1, <2>2, <2>3 DEF HoldsLow
  <2>5. LoadedWord(\h25, b, old, l) = JoinHalf(b[0], b[1])
    BY DEF LoadedWord
  <2> QED BY <2>1, <2>4, <2>5, LowParts
<1>3. CASE p = << \h2b, \h23, 4, WordSize >>
  <2>1. p[2] = \h23 /\ p[3] = 4 /\ p[4] = WordSize /\ 0 .. p[3] - 1 = 0 .. 3
    BY <1>3
  <2>2. \A k \in 0 .. 3 : StoredBytes(x, 4)[k] = ByteOf(x, 3 - k)
    BY DEF StoredBytes
  <2> DEFINE f == [k \in 0 .. 3 |-> ByteOf(x, 3 - k)]
  <2>3. \A k \in 0 .. 3 : b[k] = f[k]
    BY <2>1, <2>2 DEF HoldsLow
  <2> HIDE DEF f
  <2>4. FromBytes(b) = FromBytes(f)
    BY <2>3 DEF FromBytes
  <2>5. x % WordSize = x
    <3>1. x \in 0 .. WordSize - 1 /\ WordSize \in Nat
      BY SizeFacts DEF Word
    <3> QED BY <3>1
  <2>6. LoadedWord(\h23, b, old, l) = FromBytes(b)
    BY DEF LoadedWord
  <2> QED BY <2>1, <2>4, <2>5, <2>6, LowParts DEF f
<1> QED BY <1>1, <1>2, <1>3 DEF Accesses

LEMMA EdgesAreWords == Edges \subseteq Word
<1>1. CbMem \in Nat /\ CbMem <= WordSize \div 8
  BY RamAssumption
<1>2. PICK w \in Nat \ {0} : WordSize = 256 * w
  BY WordMultiple
<1> HIDE DEF WordSize
<1>3. WordSize \div 8 = 32 * w
  BY <1>2
<1> QED BY <1>1, <1>2, <1>3 DEF Edges, Word

LEMMA StoreThenLoadHolds == IInv => StoreThenLoad
<1> SUFFICES ASSUME IInv, state.mem # NULL, NEW a \in Edges, NEW p \in Accesses
             PROVE  LET width == p[3]
                        stored == At(p[1], a, 2, state, data)
                        loaded == At(p[2], a, 3, stored.state, stored.data)
                    IN  /\ (stored.err = Success) <=> (a % width = 0 /\ a + width <= CbMem)
                        /\ stored.err = Success =>
                             /\ loaded.err = Success
                             /\ loaded.state.regs[3] = state.regs[2] % p[4]
                             /\ \A b \in RamAddress \ (a .. a + width - 1) :
                                  stored.data[b] = data[b]
  BY DEF StoreThenLoad
<1> DEFINE width == p[3]
           stored == At(p[1], a, 2, state, data)
           loaded == At(p[2], a, 3, stored.state, stored.data)
           x == state.regs[2]
           bytes == StoredBytes(x, width)
<1>1. state \in mips_cpu_impl /\ data \in RamData /\ a \in Word /\ x \in Word /\ state.mem \in Handle
  BY EdgesAreWords DEF IInv, TypeOK, mips_cpu_impl, Reg
<1>2. /\ width \in {1, 2, 4} /\ width \in Word
      /\ p[1] \in Stores /\ TransferLength(p[1]) = width
      /\ p[2] \in Loads \ {\h22, \h26} /\ TransferLength(p[2]) = width
      /\ TransferAddress(p[2], a) = a
  BY SizeFacts DEF Accesses, Stores, Loads, TransferLength, TransferAddress, Word
<1> HIDE DEF x, width
<1>3. /\ stored.err = mips_mem_read_write(state.mem, CbMem, a, width)
      /\ stored.state = SetReg(state, 1, a)
      /\ stored.err = Success => stored.data = mips_mem_write(data, a, width, bytes)
  <2>1. a \in Word /\ state \in mips_cpu_impl /\ p[1] \in Stores
    BY <1>1, <1>2
  <2>2. LET length == TransferLength(p[1])
        IN  /\ stored.err = mips_mem_read_write(state.mem, CbMem, a, length)
            /\ stored.state = SetReg(state, 1, a)
            /\ stored.err = Success =>
                 stored.data = mips_mem_write(data, a, length, StoredBytes(state.regs[2], length))
    <3> HIDE DEF stored
    <3> QED BY <2>1, AtStore DEF stored
  <2> HIDE DEF stored
  <2> QED BY <1>2, <2>2 DEF x
<1> HIDE DEF stored, bytes
<1>4. (stored.err = Success) <=> (a % width = 0 /\ a + width <= CbMem)
  BY <1>1, <1>2, <1>3, RamCheckExact
<1>5. stored.state \in mips_cpu_impl /\ stored.state.mem = state.mem
  BY <1>1, <1>3, AtAddress
<1>6. ASSUME stored.err = Success
      PROVE  /\ loaded.err = Success
             /\ loaded.state.regs[3] = x % p[4]
             /\ \A b \in RamAddress \ (a .. a + width - 1) : stored.data[b] = data[b]
  <2>1. LoadError(p[2], a, stored.state) = Success
    BY <1>1, <1>2, <1>4, <1>5, <1>6, LoadErrorExact
  <2> DEFINE v == LoadValue(p[2], a, stored.state.regs[3], stored.data)
  <2>2. /\ loaded.err = Success
        /\ loaded.state = SetReg(SetReg(stored.state, 1, a), 3, v)
    <3>1. p[2] \in Loads /\ 3 \in {2, 3}
      BY <1>2
    <3>2. /\ loaded.err = LoadError(p[2], a, stored.state)
          /\ loaded.err = Success => loaded.state = SetReg(SetReg(stored.state, 1, a), 3, v)
      BY <1>1, <1>5, <3>1, AtLoad
    <3> QED BY <2>1, <3>2
  <2>3. v = x % p[4]
    <3> DEFINE b == mips_mem_read(stored.data, a, width)
    <3>1. \A k \in 0 .. width - 1 : b[k] = bytes[k]
      <4>1. a + width <= CbMem /\ stored.data = mips_mem_write(data, a, width, bytes)
        BY <1>3, <1>4, <1>6
      <4>2. data \in RamData /\ a \in Word /\ width \in {1, 2, 4}
        BY <1>1, <1>2
      <4> QED BY <4>1, <4>2, ReadBack
    <3> DEFINE old == ToBytes(stored.state.regs[3])
               l == a % 4
    <3>2. v = LoadedWord(p[2], b, old, l)
      BY <1>2 DEF LoadValue
    <3> HIDE DEF b, v, old, l
    <3>3. HoldsLow(b, x, p[3])
      BY <3>1 DEF HoldsLow, bytes, width
    <3>4. LoadedWord(p[2], b, old, l) = x % p[4]
      <4>1. x \in Word
        BY <1>1
      <4>2. \A b2, old2, l2 : HoldsLow(b2, x, p[3]) => LoadedWord(p[2], b2, old2, l2) = x % p[4]
        BY <4>1, StoreLoads
      <4> QED BY <3>3, <4>2
    <3> QED BY <3>2, <3>4
  <2> HIDE DEF v
  <2> DEFINE st1 == SetReg(stored.state, 1, a)
  <2>4. st1 \in mips_cpu_impl
    BY <1>1, <1>5, AtAddress
  <2> HIDE DEF st1
  <2>5. SetReg(st1, 3, v).regs[3] = v
    BY <2>4 DEF SetReg, mips_cpu_impl, Reg
  <2>6. \A b \in RamAddress \ (a .. a + width - 1) : stored.data[b] = data[b]
    BY <1>1, <1>3, <1>6 DEF mips_mem_write, RamData
  <2> QED BY <2>2, <2>3, <2>5, <2>6 DEF st1
<1> QED BY <1>4, <1>6 DEF width, stored, x

(* Widening a byte or a half keeps the integer it stands for, and its bits.   *)
LEMMA Widened ==
  ASSUME NEW size \in {ByteSize, HalfSize}, NEW v \in 0 .. size - 1
  PROVE  LET w == IF v >= size \div 2 THEN v + (WordSize - size) ELSE v
         IN  Signed(w) \in -(size \div 2) .. size \div 2 - 1 /\ w % size = v
<1> DEFINE w == IF v >= size \div 2 THEN v + (WordSize - size) ELSE v
<1>1. PICK k \in Nat \ {0} : size = 2 * k
  <2>1. PICK n \in Nat \ {0} : ByteSize = 4 * n
    BY ByteMultiple
  <2>2. HalfSize = 2 * (8 * (n * n)) /\ 8 * (n * n) \in Nat \ {0}
    BY <2>1 DEF HalfSize
  <2>3. ByteSize = 2 * (2 * n) /\ 2 * n \in Nat \ {0}
    BY <2>1
  <2>4. CASE size = ByteSize
    BY <2>3, <2>4
  <2>5. CASE size = HalfSize
    BY <2>2, <2>5
  <2> QED BY <2>4, <2>5
<1>2. PICK m \in Nat \ {0} : WordSize = m * size
  <2>1. WordSize = (ByteSize * HalfSize) * ByteSize /\ WordSize = HalfSize * HalfSize
    BY SizeFacts DEF WordSize, HalfSize
  <2>2. ByteSize * HalfSize \in Nat \ {0} /\ HalfSize \in Nat \ {0}
    BY SizeFacts
  <2> QED BY <2>1, <2>2
<1>3. PICK h \in Nat \ {0} : WordSize = 2 * h
  <2>1. PICK n \in Nat \ {0} : WordSize = 256 * n
    BY WordMultiple
  <2> HIDE DEF WordSize
  <2> QED BY <2>1
<1>4. WordSize >= 4 * size
  BY SizeFacts
<1>5. WordSize \div 2 = h /\ size \div 2 = k /\ h >= 4 * k /\ v \in 0 .. (2 * k) - 1
  BY <1>1, <1>3, <1>4
<1>6. CASE v >= k
  <2>1. w = v + (2 * h - 2 * k) /\ w >= h
    BY <1>1, <1>3, <1>5, <1>6
  <2>2. Signed(w) = v - 2 * k
    BY <1>1, <1>3, <1>5, <2>1 DEF Signed, IsNegative
  <2>3. w = (m - 1) * size + v
    <3>1. (m - 1) * size = m * size - size
      BY <1>1, <1>2
    <3> QED BY <1>1, <1>2, <1>5, <1>6, <3>1
  <2> HIDE DEF w
  <2>4. m - 1 \in Int /\ size \in Nat \ {0}
    BY <1>1, <1>2
  <2>5. w % size = v
    BY <2>3, <2>4, DivMod
  <2> QED BY <1>1, <1>5, <1>6, <2>2, <2>5 DEF w
<1>7. CASE v < k
  <2>1. w = v /\ w < h
    BY <1>1, <1>5, <1>7
  <2>2. Signed(w) = v
    BY <1>1, <1>3, <1>5, <2>1 DEF Signed, IsNegative
  <2>3. v % size = v
    BY <1>1
  <2> QED BY <1>1, <1>5, <1>7, <2>1, <2>2, <2>3
<1> QED BY <1>1, <1>5, <1>6, <1>7

SignedAccesses == {<< \h20, \h24, ByteSize >>, << \h21, \h25, HalfSize >>}

LEMMA SignedLoadsHolds == IInv => SignedLoads
<1> SUFFICES ASSUME IInv, state.mem # NULL, NEW a \in RamAddress, NEW p \in SignedAccesses
             PROVE  LET signed == At(p[1], a, 3, state, data)
                        unsigned == At(p[2], a, 3, state, data)
                    IN  /\ signed.err = unsigned.err
                        /\ signed.err = Success =>
                             /\ Signed(signed.state.regs[3]) \in -(p[3] \div 2) .. p[3] \div 2 - 1
                             /\ signed.state.regs[3] % p[3] = unsigned.state.regs[3]
  BY DEF SignedLoads, SignedAccesses
<1> DEFINE signed == At(p[1], a, 3, state, data)
           unsigned == At(p[2], a, 3, state, data)
           length == TransferLength(p[1])
           b == mips_mem_read(data, a, length)
           st1 == SetReg(state, 1, a)
           sv == LoadValue(p[1], a, state.regs[3], data)
           uv == LoadValue(p[2], a, state.regs[3], data)
<1>1. state \in mips_cpu_impl /\ data \in RamData /\ a \in Word
  <2>1. a \in Edges
    BY RamAssumption DEF Edges, RamAddress
  <2> QED BY <2>1, EdgesAreWords DEF IInv, TypeOK
<1>2. /\ length \in {1, 2, 4} /\ TransferLength(p[2]) = length
      /\ p[1] \in Loads \ {\h22, \h26} /\ p[2] \in Loads \ {\h22, \h26}
      /\ p[1] \in Loads /\ p[2] \in Loads /\ 3 \in {2, 3}
      /\ TransferAddress(p[1], a) = a /\ TransferAddress(p[2], a) = a
  BY DEF SignedAccesses, Loads, TransferLength, TransferAddress
<1> HIDE DEF length
<1>3. LoadError(p[1], a, state) = LoadError(p[2], a, state)
  <2>1. LoadError(p[1], a, state) = mips_mem_read_write(state.mem, CbMem, a, length)
    BY <1>1, <1>2, LoadErrorExact DEF length
  <2>2. LoadError(p[2], a, state) = mips_mem_read_write(state.mem, CbMem, a, length)
    BY <1>1, <1>2, LoadErrorExact
  <2> QED BY <2>1, <2>2
<1>4. /\ signed.err = LoadError(p[1], a, state)
      /\ signed.err = Success => signed.state = SetReg(st1, 3, sv)
  BY <1>1, <1>2, AtLoad
<1>5. /\ unsigned.err = LoadError(p[2], a, state)
      /\ unsigned.err = Success => unsigned.state = SetReg(st1, 3, uv)
  BY <1>1, <1>2, AtLoad
<1>6. st1 \in mips_cpu_impl
  BY <1>1, AtAddress
<1>7. LoadError(p[1], a, state) = Success => \A k \in 0 .. length - 1 : b[k] \in Byte
  <2>1. LoadError(p[1], a, state) = mips_mem_read_write(state.mem, CbMem, a, length)
    BY <1>1, <1>2, LoadErrorExact DEF length
  <2> QED BY <1>1, <1>2, <2>1, MemReadType
<1> DEFINE old == ToBytes(state.regs[3])
           l == a % 4
<1>8. sv = LoadedWord(p[1], b, old, l) /\ uv = LoadedWord(p[2], b, old, l)
  BY <1>2 DEF LoadValue, length
<1> HIDE DEF signed, unsigned, b, st1, sv, uv, old, l
<1>9. ASSUME signed.err = Success
      PROVE  Signed(sv) \in -(p[3] \div 2) .. p[3] \div 2 - 1 /\ sv % p[3] = uv
  <2>1. \A k \in 0 .. length - 1 : b[k] \in Byte
    BY <1>4, <1>7, <1>9
  <2>2. CASE p = << \h20, \h24, ByteSize >>
    <3>1. p[1] = \h20 /\ p[2] = \h24 /\ p[3] = ByteSize
      BY <2>2
    <3>2. length = 1
      BY <3>1 DEF length, TransferLength
    <3>3. b[0] \in 0 .. ByteSize - 1
      BY <2>1, <3>2 DEF Byte
    <3>4. uv = b[0]
      BY <1>8, <3>1 DEF LoadedWord
    <3>5. sv = IF b[0] >= ByteSize \div 2 THEN b[0] + (WordSize - ByteSize) ELSE b[0]
      BY <1>8, <3>1 DEF LoadedWord, SignExtendByte
    <3> QED BY <3>1, <3>3, <3>4, <3>5, Widened
  <2>3. CASE p = << \h21, \h25, HalfSize >>
    <3>1. p[1] = \h21 /\ p[2] = \h25 /\ p[3] = HalfSize
      BY <2>3
    <3>2. length = 2
      BY <3>1 DEF length, TransferLength
    <3> DEFINE j == JoinHalf(b[0], b[1])
    <3>3. j \in 0 .. HalfSize - 1
      <4>1. b[0] \in Byte /\ b[1] \in Byte
        BY <2>1, <3>2
      <4> QED BY <4>1, JoinHalfType DEF Half
    <3>4. uv = j
      BY <1>8, <3>1 DEF LoadedWord
    <3>5. sv = IF j >= HalfSize \div 2 THEN j + (WordSize - HalfSize) ELSE j
      BY <1>8, <3>1 DEF LoadedWord, SignExtendHalf
    <3> HIDE DEF j
    <3> QED BY <3>1, <3>3, <3>4, <3>5, Widened
  <2> QED BY <2>2, <2>3 DEF SignedAccesses
<1>10. SetReg(st1, 3, sv).regs[3] = sv /\ SetReg(st1, 3, uv).regs[3] = uv
  BY <1>6 DEF SetReg, mips_cpu_impl, Reg
<1>11. signed.err = unsigned.err
  BY <1>3, <1>4, <1>5
<1>12. signed.err = Success => signed.state.regs[3] = sv /\ unsigned.state.regs[3] = uv
  BY <1>4, <1>5, <1>10, <1>11
<1> QED BY <1>9, <1>11, <1>12 DEF signed, unsigned

----------------------------------------------------------------------------
(* LWL and LWR.                                                               *)

LEMMA SameBytes ==
  ASSUME NEW f, NEW g, \A k \in 0 .. 3 : f[k] = g[k]
  PROVE  FromBytes(f) = FromBytes(g)
BY DEF FromBytes

LEMMA BytesOfWord ==
  ASSUME NEW f, \A k \in 0 .. 3 : f[k] \in Byte
  PROVE  \A k \in 0 .. 3 : ToBytes(FromBytes(f))[k] = f[k]
<1>1. f[0] \in Byte /\ f[1] \in Byte /\ f[2] \in Byte /\ f[3] \in Byte
  OBVIOUS
<1> DEFINE x == JoinWord(f[0], f[1], f[2], f[3])
<1>2. ByteOf(x, 3) = f[0] /\ ByteOf(x, 2) = f[1] /\ ByteOf(x, 1) = f[2] /\ ByteOf(x, 0) = f[3]
  BY <1>1, ByteOfJoin
<1> HIDE DEF x
<1>3. /\ ToBytes(x)[0] = ByteOf(x, 3) /\ ToBytes(x)[1] = ByteOf(x, 2)
      /\ ToBytes(x)[2] = ByteOf(x, 1) /\ ToBytes(x)[3] = ByteOf(x, 0)
  BY DEF ToBytes
<1>4. \A k \in 0 .. 3 : ToBytes(x)[k] = f[k]
  <2> TAKE k \in 0 .. 3
  <2>1. k = 0 \/ k = 1 \/ k = 2 \/ k = 3
    OBVIOUS
  <2> QED BY <1>2, <1>3, <2>1
<1> QED BY <1>4 DEF x, FromBytes

(* The bytes a load of either half leaves in its register: those of memory    *)
(* from a on in the part it reaches, and the old ones in the other.           *)
LeftPart(a) == {k \in 0 .. 3 : k + (a % 4) <= 3}
RightPart(a) == {k \in 0 .. 3 : k + ((a + 3) % 4) >= 3}

LEMMA PartsMeet ==
  ASSUME NEW a \in Nat
  PROVE  \A k \in 0 .. 3 : k \in LeftPart(a) \/ k \in RightPart(a)
BY DEF LeftPart, RightPart

LEMMA LeftLoads ==
  ASSUME NEW ram \in RamData, NEW a \in 0 .. 4 * (CbMem \div 4) - 4, a \in Word, NEW old \in Word
  PROVE  \E f : /\ LoadValue(\h22, a, old, ram) = FromBytes(f)
                /\ \A k \in 0 .. 3 : /\ f[k] \in Byte
                                     /\ k \in LeftPart(a) => f[k] = ram[a + k]
                                     /\ k \notin LeftPart(a) => f[k] = ToBytes(old)[k]
<1> DEFINE l == a % 4
           b == mips_mem_read(ram, a - l, 4)
           f == [k \in 0 .. 3 |-> IF k + l <= 3 THEN b[k + l] ELSE ToBytes(old)[k]]
<1>1. a \in Nat /\ l \in 0 .. 3 /\ CbMem \in Nat /\ (a - l) + 4 <= CbMem /\ a - l >= 0
  BY RamAssumption
<1>2. \A k \in 0 .. 3 : ToBytes(old)[k] \in Byte
  <2>1. \A k \in 0 .. 3 : 3 - k \in 0 .. 3
    OBVIOUS
  <2> QED BY <2>1, ByteOfType DEF ToBytes
<1>3. LoadValue(\h22, a, old, ram) = FromBytes(f)
  BY DEF LoadValue, LoadedWord, TransferAddress, TransferLength
<1>4. \A k \in 0 .. 3 : k + l <= 3 => b[k + l] = ram[a + k] /\ a + k \in RamAddress
  <2> TAKE k \in 0 .. 3
  <2> HAVE k + l <= 3
  <2>1. k + l \in 0 .. 3 /\ (a - l) + (k + l) = a + k
    BY <1>1
  <2>2. b[k + l] = ram[(a - l) + (k + l)]
    BY <2>1 DEF mips_mem_read
  <2>3. a + k \in 0 .. CbMem - 1
    BY <1>1
  <2> QED BY <2>1, <2>2, <2>3 DEF RamAddress
<1>5. \A k \in 0 .. 3 : f[k] = IF k + l <= 3 THEN b[k + l] ELSE ToBytes(old)[k]
  OBVIOUS
<1>6. \A k \in 0 .. 3 : k \in LeftPart(a) <=> k + l <= 3
  BY DEF LeftPart
<1> HIDE DEF f, b, l
<1>7. \A k \in 0 .. 3 : /\ f[k] \in Byte
                        /\ k \in LeftPart(a) => f[k] = ram[a + k]
                        /\ k \notin LeftPart(a) => f[k] = ToBytes(old)[k]
  BY <1>2, <1>4, <1>5, <1>6 DEF RamData
<1> QED BY <1>3, <1>7

LEMMA RightLoads ==
  ASSUME NEW ram \in RamData, NEW a \in 0 .. 4 * (CbMem \div 4) - 4, a + 3 \in Word, NEW old \in Word
  PROVE  \E f : /\ LoadValue(\h26, a + 3, old, ram) = FromBytes(f)
                /\ \A k \in 0 .. 3 : /\ f[k] \in Byte
                                     /\ k \in RightPart(a) => f[k] = ram[a + k]
                                     /\ k \notin RightPart(a) => f[k] = ToBytes(old)[k]
<1> DEFINE e == a + 3
           l == e % 4
           b == mips_mem_read(ram, e - l, 4)
           f == [k \in 0 .. 3 |-> IF k + l >= 3 THEN b[k + l - 3] ELSE ToBytes(old)[k]]
<1>1. /\ a \in Nat /\ e \in Nat /\ l \in 0 .. 3 /\ CbMem \in Nat
      /\ (e - l) + 4 <= CbMem /\ e - l >= 0
  BY RamAssumption
<1>2. \A k \in 0 .. 3 : ToBytes(old)[k] \in Byte
  <2>1. \A k \in 0 .. 3 : 3 - k \in 0 .. 3
    OBVIOUS
  <2> QED BY <2>1, ByteOfType DEF ToBytes
<1>3. LoadValue(\h26, e, old, ram) = FromBytes(f)
  BY DEF LoadValue, LoadedWord, TransferAddress, TransferLength
<1>4. \A k \in 0 .. 3 : k + l >= 3 => b[k + l - 3] = ram[a + k] /\ a + k \in RamAddress
  <2> TAKE k \in 0 .. 3
  <2> HAVE k + l >= 3
  <2>1. k + l - 3 \in 0 .. 3 /\ (e - l) + (k + l - 3) = a + k
    BY <1>1
  <2>2. b[k + l - 3] = ram[(e - l) + (k + l - 3)]
    BY <2>1 DEF mips_mem_read
  <2>3. a + k \in 0 .. CbMem - 1
    BY <1>1
  <2> QED BY <2>1, <2>2, <2>3 DEF RamAddress
<1>5. \A k \in 0 .. 3 : f[k] = IF k + l >= 3 THEN b[k + l - 3] ELSE ToBytes(old)[k]
  OBVIOUS
<1>6. \A k \in 0 .. 3 : k \in RightPart(a) <=> k + l >= 3
  BY DEF RightPart
<1> HIDE DEF f, b, l
<1>7. \A k \in 0 .. 3 : /\ f[k] \in Byte
                        /\ k \in RightPart(a) => f[k] = ram[a + k]
                        /\ k \notin RightPart(a) => f[k] = ToBytes(old)[k]
  BY <1>2, <1>4, <1>5, <1>6 DEF RamData
<1> QED BY <1>3, <1>7

(* Bytes f are those of memory from a on where part says so, else those of old. *)
Partly(f, part, a, old, ram) ==
  \A k \in 0 .. 3 : /\ f[k] \in Byte
                    /\ k \in part => f[k] = ram[a + k]
                    /\ k \notin part => f[k] = ToBytes(old)[k]

LEMMA AddressFits ==
  ASSUME NEW a \in 0 .. 4 * (CbMem \div 4) - 4
  PROVE  a \in Word /\ a + 3 \in Word
<1>1. CbMem \in Nat /\ CbMem <= WordSize \div 8
  BY RamAssumption
<1>2. PICK w \in Nat \ {0} : WordSize = 256 * w
  BY WordMultiple
<1> HIDE DEF WordSize
<1>3. WordSize \div 8 = 32 * w
  BY <1>2
<1> QED BY <1>1, <1>2, <1>3 DEF Word

(* Either half of the pair reads the word around its address.                 *)
LEMMA HalfLoadSucceeds ==
  ASSUME NEW st \in mips_cpu_impl, st.mem # NULL, NEW a \in 0 .. 4 * (CbMem \div 4) - 4
  PROVE  LoadError(\h22, a, st) = Success /\ LoadError(\h26, a + 3, st) = Success
<1>1. \A e \in {a, a + 3} : /\ e - (e % 4) \in Word /\ (e - (e % 4)) % 4 = 0
                            /\ (e - (e % 4)) + 4 <= CbMem
  <2> TAKE e \in {a, a + 3}
  <2>1. e \in Word /\ e \in Nat /\ CbMem \in Nat /\ WordSize \in Nat
    BY AddressFits, RamAssumption, SizeFacts
  <2>2. e < WordSize
    BY <2>1, WordIsInt
  <2>3. e - (e % 4) \in 0 .. WordSize - 1
    BY <2>1, <2>2
  <2>4. (e - (e % 4)) % 4 = 0
    BY <2>1
  <2>5. (e - (e % 4)) + 4 <= CbMem
    BY <2>1
  <2> QED BY <2>3, <2>4, <2>5 DEF Word
<1>2. st.mem \in Handle /\ 4 \in Word
  BY SizeFacts DEF mips_cpu_impl, Word
<1>3. \A e \in {a, a + 3} : mips_mem_read_write(st.mem, CbMem, e - (e % 4), 4) = Success
  BY <1>1, <1>2, RamCheckExact
<1> QED BY <1>3 DEF LoadError, TransferAddress, TransferLength

LEMMA HalfLoad ==
  ASSUME NEW st \in mips_cpu_impl, st.mem # NULL, NEW ram \in RamData,
         NEW a \in Word, NEW opcode \in Loads, LoadError(opcode, a, st) = Success,
         NEW f, LoadValue(opcode, a, st.regs[2], ram) = FromBytes(f),
         \A k \in 0 .. 3 : f[k] \in Byte
  PROVE  LET o == At(opcode, a, 2, st, ram)
         IN  /\ o.err = Success
             /\ o.state \in mips_cpu_impl /\ o.state.mem = st.mem
             /\ o.state.regs[2] = FromBytes(f)
<1> DEFINE v == FromBytes(f)
           st1 == SetReg(st, 1, a)
           o == At(opcode, a, 2, st, ram)
<1>1. v \in Word
  BY FromBytesType
<1>2. st1 \in mips_cpu_impl /\ st1.mem = st.mem
  BY AtAddress
<1>3. o.err = Success /\ o.state = SetReg(st1, 2, v)
  <2>1. 2 \in {2, 3}
    OBVIOUS
  <2> QED BY <2>1, AtLoad
<1> HIDE DEF v, st1, o
<1>4. /\ SetReg(st1, 2, v) \in mips_cpu_impl
      /\ SetReg(st1, 2, v).mem = st1.mem
      /\ SetReg(st1, 2, v).regs[2] = v
  BY <1>1, <1>2 DEF SetReg, mips_cpu_impl, Reg
<1> QED BY <1>2, <1>3, <1>4 DEF v, o

LEMMA LeftAt ==
  ASSUME NEW st \in mips_cpu_impl, st.mem # NULL, NEW ram \in RamData,
         NEW a \in 0 .. 4 * (CbMem \div 4) - 4
  PROVE  LET o == At(\h22, a, 2, st, ram)
         IN  /\ o.err = Success /\ o.state \in mips_cpu_impl /\ o.state.mem = st.mem
             /\ \E f : o.state.regs[2] = FromBytes(f) /\ Partly(f, LeftPart(a), a, st.regs[2], ram)
<1>1. a \in Word /\ st.regs[2] \in Word
  BY AddressFits DEF mips_cpu_impl, Reg
<1>2. PICK f : /\ LoadValue(\h22, a, st.regs[2], ram) = FromBytes(f)
               /\ Partly(f, LeftPart(a), a, st.regs[2], ram)
  BY <1>1, LeftLoads DEF Partly
<1>3. LoadError(\h22, a, st) = Success /\ \h22 \in Loads
  BY HalfLoadSucceeds DEF Loads
<1>4. \A k \in 0 .. 3 : f[k] \in Byte
  BY <1>2 DEF Partly
<1> QED BY <1>1, <1>2, <1>3, <1>4, HalfLoad

LEMMA RightAt ==
  ASSUME NEW st \in mips_cpu_impl, st.mem # NULL, NEW ram \in RamData,
         NEW a \in 0 .. 4 * (CbMem \div 4) - 4
  PROVE  LET o == At(\h26, a + 3, 2, st, ram)
         IN  /\ o.err = Success /\ o.state \in mips_cpu_impl /\ o.state.mem = st.mem
             /\ \E f : o.state.regs[2] = FromBytes(f) /\ Partly(f, RightPart(a), a, st.regs[2], ram)
<1>1. a + 3 \in Word /\ st.regs[2] \in Word
  BY AddressFits DEF mips_cpu_impl, Reg
<1>2. PICK f : /\ LoadValue(\h26, a + 3, st.regs[2], ram) = FromBytes(f)
               /\ Partly(f, RightPart(a), a, st.regs[2], ram)
  BY <1>1, RightLoads DEF Partly
<1>3. LoadError(\h26, a + 3, st) = Success /\ \h26 \in Loads
  BY HalfLoadSucceeds DEF Loads
<1>4. \A k \in 0 .. 3 : f[k] \in Byte
  BY <1>2 DEF Partly
<1> QED BY <1>1, <1>2, <1>3, <1>4, HalfLoad

(* The two parts together are the word of memory.                             *)
LEMMA PartsJoin ==
  ASSUME NEW ram, NEW a \in Nat, NEW old, NEW f, NEW g, NEW part1, NEW part2,
         Partly(f, part1, a, old, ram), Partly(g, part2, a, FromBytes(f), ram),
         \A k \in 0 .. 3 : k \in part1 \/ k \in part2
  PROVE  FromBytes(g) = FromBytes([k \in 0 .. 3 |-> ram[a + k]])
<1>1. \A k \in 0 .. 3 : ToBytes(FromBytes(f))[k] = f[k]
  BY BytesOfWord DEF Partly
<1> DEFINE w == [k \in 0 .. 3 |-> ram[a + k]]
<1>2. \A k \in 0 .. 3 : w[k] = ram[a + k]
  OBVIOUS
<1> HIDE DEF w
<1>3. \A k \in 0 .. 3 : g[k] = w[k]
  BY <1>1, <1>2 DEF Partly
<1>4. FromBytes(g) = FromBytes(w)
  BY <1>3, SameBytes
<1> QED BY <1>4 DEF w

LEMMA UnalignedPairHolds == IInv => UnalignedPair
<1> SUFFICES ASSUME IInv, state.mem # NULL, NEW a \in 0 .. 4 * (CbMem \div 4) - 4
             PROVE  LET word == FromBytes([k \in 0 .. 3 |-> data[a + k]])
                        left == At(\h22, a, 2, state, data)
                        leftRight == At(\h26, a + 3, 2, left.state, data)
                        right == At(\h26, a + 3, 2, state, data)
                        rightLeft == At(\h22, a, 2, right.state, data)
                    IN  /\ leftRight.err = Success /\ leftRight.state.regs[2] = word
                        /\ rightLeft.err = Success /\ rightLeft.state.regs[2] = word
  BY DEF UnalignedPair
<1> DEFINE word == FromBytes([k \in 0 .. 3 |-> data[a + k]])
           left == At(\h22, a, 2, state, data)
           leftRight == At(\h26, a + 3, 2, left.state, data)
           right == At(\h26, a + 3, 2, state, data)
           rightLeft == At(\h22, a, 2, right.state, data)
<1>1. state \in mips_cpu_impl /\ data \in RamData
  BY DEF IInv, TypeOK
<1>2. \A k \in 0 .. 3 : k \in LeftPart(a) \/ k \in RightPart(a)
  BY PartsMeet
<1> HIDE DEF word
<1>3. leftRight.err = Success /\ leftRight.state.regs[2] = word
  <2>1. PICK f : /\ left.state \in mips_cpu_impl /\ left.state.mem = state.mem
                 /\ left.state.regs[2] = FromBytes(f)
                 /\ Partly(f, LeftPart(a), a, state.regs[2], data)
    BY <1>1, LeftAt
  <2> HIDE DEF left
  <2>2. PICK g : /\ leftRight.err = Success
                 /\ leftRight.state.regs[2] = FromBytes(g)
                 /\ Partly(g, RightPart(a), a, left.state.regs[2], data)
    BY <1>1, <2>1, RightAt
  <2> HIDE DEF leftRight
  <2>3. FromBytes(g) = word
    BY <1>2, <2>1, <2>2, PartsJoin DEF word
  <2> QED BY <2>2, <2>3
<1>4. rightLeft.err = Success /\ rightLeft.state.regs[2] = word
  <2>1. PICK f : /\ right.state \in mips_cpu_impl /\ right.state.mem = state.mem
                 /\ right.state.regs[2] = FromBytes(f)
                 /\ Partly(f, RightPart(a), a, state.regs[2], data)
    BY <1>1, RightAt
  <2> HIDE DEF right
  <2>2. PICK g : /\ rightLeft.err = Success
                 /\ rightLeft.state.regs[2] = FromBytes(g)
                 /\ Partly(g, LeftPart(a), a, right.state.regs[2], data)
    BY <1>1, <2>1, LeftAt
  <2> HIDE DEF rightLeft
  <2>3. FromBytes(g) = word
    BY <1>2, <2>1, <2>2, PartsJoin DEF word
  <2> QED BY <2>2, <2>3
<1> QED BY <1>3, <1>4 DEF word

(* LWL and LWR in either order load any word, wherever it starts, with any    *)
(* bytes in memory and in the register, from every state the client reaches.  *)
THEOREM UnalignedPairCorrect == Spec => []UnalignedPair
BY UnalignedPairHolds, Invariance, PTL

(* What SB, SH and SW store, LBU, LHU and LW load, in the same order of bytes *)
(* and nowhere else, and they accept the same addresses: those of the RAM.    *)
THEOREM StoreThenLoadCorrect == Spec => []StoreThenLoad
BY StoreThenLoadHolds, Invariance, PTL

(* LB and LH load the integers that their bytes stand for.                    *)
THEOREM SignedLoadsCorrect == Spec => []SignedLoads
BY SignedLoadsHolds, Invariance, PTL

----------------------------------------------------------------------------
(* Diagnostics.  The reports of the CPU reach the stream the client asked for *)
(* last, and none that is closed, for every program, client and file name.    *)

(* Only a level above 0 makes the CPU write, and while it is above 0 the      *)
(* stream the CPU keeps is the client's and open; stdout and stderr, which    *)
(* take the place of streams the client did not name, are never closed.       *)
StreamInv ==
  /\ debugLevel \in Nat
  /\ debugLevel > 0 => debugDest = attached /\ attached \in open
  /\ {"stdout", "stderr"} \subseteq open /\ NULL \notin open

DebugInv == IInv /\ StreamInv /\ ReportsReachTheClient

LEMMA InitDebugInv == DebugInit => DebugInv
<1> SUFFICES ASSUME DebugInit PROVE DebugInv
  OBVIOUS
<1>1. IInv
  BY InitIInv DEF DebugInit
<1>2. StreamInv /\ ReportsReachTheClient
  BY DEF DebugInit, StreamInv, ReportsReachTheClient, NULL
<1> QED BY <1>1, <1>2 DEF DebugInv

(* A call may write nothing, or while the level is not 0 to the CPU's stream. *)
LEMMA Reports ==
  ASSUME wrote' \subseteq {debugDest'}, wrote' # {} => debugLevel' > 0, StreamInv'
  PROVE  ReportsReachTheClient'
BY DEF ReportsReachTheClient, StreamInv

LEMMA NoReports == ASSUME wrote' = {} PROVE ReportsReachTheClient'
BY DEF ReportsReachTheClient

LEMMA QuietDebugInv ==
  ASSUME DebugInv, Quiet, IInv'
  PROVE  DebugInv'
BY NoReports DEF Quiet, DebugInv, StreamInv

LEMMA SetDebugLevelInv ==
  ASSUME DebugInv, NEW level \in Nat, NEW dest, SetDebugLevel(level, dest),
         open \subseteq open', NULL \notin open', level > 0 => dest \in open' /\ dest # NULL
  PROVE  DebugInv'
<1>1. IInv'
  <2>1. /\ process' = process /\ handle' = handle /\ state' = state /\ data' = data
        /\ taken' = taken /\ call' = "mips_cpu_set_debug_level" /\ err' = Success
    BY DEF SetDebugLevel, Reply
  <2> QED BY <2>1, QuietCall DEF DebugInv, IInv, TypeOK, ApiCall, mips_error
<1>2. /\ debugLevel' = level /\ open \subseteq open'
      /\ level > 0 => debugDest' = dest /\ attached' = dest
      /\ wrote' = IF level > 0 THEN {dest} ELSE {}
  BY DEF SetDebugLevel, LevelAfter
<1>3. StreamInv'
  BY <1>2 DEF DebugInv, StreamInv
<1>4. ReportsReachTheClient'
  BY <1>2, <1>3, Reports, NoReports
<1> QED BY <1>1, <1>3, <1>4 DEF DebugInv

(* The options of the test program name an open stream or one they open.      *)
LEMMA OptionsDebugInv ==
  ASSUME DebugInv, NEW argv \in Arguments, set_debug_level(argv)
  PROVE  DebugInv'
<1>1. Len(argv) >= 2
  BY DEF set_debug_level
<1>2. CASE NameKills(argv)
  <2>1. IInv'
    <3>1. TypeOK' /\ RegZero' /\ NoPendingJump' /\ NextPc'
      BY <1>2 DEF NameKills, DebugInv, IInv, TypeOK, RegZero, NoPendingJump, NextPc
    <3>2. ErrorStands'
      BY <1>2 DEF NameKills, ErrorStands
    <3> QED BY <3>1, <3>2 DEF IInv
  <2>2. Quiet
    BY <1>2 DEF NameKills, Quiet
  <2> QED BY <2>1, <2>2, QuietDebugInv
<1>3. CASE OptionsRead(argv)
  <2> DEFINE level == IF HasD(argv) THEN atoi[argv[2]] ELSE 0
  <2>1. level \in Nat
    BY <1>1, StreamAssumption
  <2>2. PICK dest \in Destination(argv) :
          SetDebugLevel(level, dest) /\ open' = open \cup ({dest} \cap Files)
    BY <1>3 DEF OptionsRead
  <2>3. level > 0 => dest \in Streams
    BY <2>2 DEF Destination, Opened, HasF, Streams
  <2>4. /\ open \subseteq open' /\ NULL \notin open'
        /\ dest \in Streams => dest \in open' /\ dest # NULL
    BY <2>2, StreamAssumption DEF Streams, DebugInv, StreamInv, NULL
  <2> HIDE DEF level
  <2> QED BY <2>1, <2>2, <2>3, <2>4, SetDebugLevelInv
<1> QED BY <1>2, <1>3 DEF set_debug_level

(* A call that may write to the CPU's stream, and needs a level to do it.     *)
LEMMA ReporterInv ==
  ASSUME DebugInv, wrote' = {} \/ (wrote' = {debugDest} /\ debugLevel > 0),
         UNCHANGED << debugLevel, debugDest, open, attached >>, IInv'
  PROVE  DebugInv'
<1>1. StreamInv'
  BY DEF DebugInv, StreamInv
<1>2. wrote' \subseteq {debugDest'} /\ (wrote' # {} => debugLevel' > 0)
  OBVIOUS
<1> QED BY <1>1, <1>2, Reports DEF DebugInv

LEMMA NextDebugInv == DebugInv /\ [DebugNext]_<< vars, debug >> => DebugInv'
<1> SUFFICES ASSUME DebugInv, [DebugNext]_<< vars, debug >> PROVE DebugInv'
  OBVIOUS
<1>0. IInv
  BY DEF DebugInv
<1>1. CASE CreateOrFree
  <2>1. IInv'
    BY <1>0, <1>1, NextIInv DEF CreateOrFree, Next
  <2>2. StreamInv'
    BY <1>1 DEF CreateOrFree, DebugInv, StreamInv
  <2>3. ReportsReachTheClient'
    BY <1>1, NoReports DEF CreateOrFree
  <2> QED BY <2>1, <2>2, <2>3 DEF DebugInv
<1>2. CASE ResetReports
  <2>1. IInv'
    BY <1>0, <1>2, NextIInv DEF ResetReports, Next
  <2>2. wrote' = {} \/ (wrote' = {debugDest} /\ debugLevel > 0)
    BY <1>2 DEF ResetReports, WritesIf
  <2> QED BY <1>2, <2>1, <2>2, ReporterInv DEF ResetReports
<1>3. CASE StepReports
  <2>1. IInv'
    BY <1>0, <1>3, NextIInv DEF StepReports, Next
  <2>2. wrote' = {} \/ (wrote' = {debugDest} /\ debugLevel > 0)
    BY <1>3 DEF StepReports, WritesIf, DebugInv, StreamInv
  <2> QED BY <1>3, <2>1, <2>2, ReporterInv DEF StepReports
<1>4. CASE \E pc \in ClientPCs : mips_cpu_set_pc(pc) /\ Quiet
  BY <1>0, <1>4, SetPcIInv, QuietDebugInv
<1>5. CASE \E index \in ClientRegs, value \in ClientValues :
             mips_cpu_set_register(index, value) /\ Quiet
  BY <1>0, <1>5, SetRegisterIInv, QuietDebugInv
<1>6. ASSUME NEW level \in Nat, NEW dest \in open \cup {NULL},
             dest = NULL => level = 0,
             mips_cpu_set_debug_level(level, dest)
      PROVE  DebugInv'
  <2>1. CASE OnNull("mips_cpu_set_debug_level") /\ Quiet
    BY <1>0, <2>1, OnNullIInv, QuietDebugInv DEF ApiCall
  <2>2. CASE SetDebugLevel(level, dest) /\ UNCHANGED open
    BY <1>6, <2>2, SetDebugLevelInv DEF DebugInv, StreamInv
  <2> QED BY <1>6, <2>1, <2>2 DEF mips_cpu_set_debug_level
<1>7. CASE \E dest \in open : \E level \in Levels : mips_cpu_set_debug_level(level, dest)
  <2>1. PICK dest \in open, level \in Levels : mips_cpu_set_debug_level(level, dest)
    BY <1>7
  <2>2. dest # NULL
    BY DEF DebugInv, StreamInv
  <2> QED BY <1>6, <2>1, <2>2, StreamAssumption
<1>8. CASE mips_cpu_set_debug_level(0, NULL)
  BY <1>6, <1>8
<1>9. CASE \E argv \in Arguments : set_debug_level(argv)
  BY <1>9, OptionsDebugInv
<1>10. CASE \E file \in Files : fopen(file) \/ fclose(file)
  <2>1. PICK file \in Files : fopen(file) \/ fclose(file)
    BY <1>10
  <2>2. IInv'
    BY <1>0, <2>1, NextIInv DEF fopen, fclose
  <2>3. StreamInv'
    BY <2>1, StreamAssumption DEF fopen, fclose, DebugInv, StreamInv
  <2>4. ReportsReachTheClient'
    BY <2>1, NoReports DEF fopen, fclose
  <2> QED BY <2>2, <2>3, <2>4 DEF DebugInv
<1>11. CASE UNCHANGED << vars, debug >>
  <2>1. IInv'
    BY <1>0, <1>11, NextIInv
  <2> QED BY <1>11, <2>1 DEF debug, DebugInv, StreamInv, ReportsReachTheClient
<1> QED BY <1>1, <1>2, <1>3, <1>4, <1>5, <1>7, <1>8, <1>9, <1>10, <1>11 DEF DebugNext

THEOREM DebugInvariance == DebugSpec => []DebugInv
BY InitDebugInv, NextDebugInv, PTL DEF DebugSpec

(* Every report goes to the stream the client asked for last, and that stream *)
(* is open: whichever streams it names, opens and closes, and whatever argv   *)
(* the test program is given.                                                 *)
THEOREM ReportsReachTheClientCorrect == DebugSpec => []ReportsReachTheClient
<1>1. DebugInv => ReportsReachTheClient
  BY DEF DebugInv
<1> QED BY <1>1, DebugInvariance, PTL
=============================================================================
