------------------------------ MODULE MipsCpu ------------------------------
(* The CPU API of mips_cpu.h over one CPU and one RAM device: a client that   *)
(* creates, resets, pokes, steps and frees a CPU and writes the RAM behind    *)
(* its back, in any order, with valid and with NULL handles.                  *)
EXTENDS MipsExec, FiniteSets

CONSTANTS
  Programs,          \* what the RAM may hold when the client starts
  ClientRegs,        \* register numbers the client passes, good and bad
  ClientValues,      \* values it writes to them
  ClientPCs,         \* addresses it sets the pc to, aligned or not
  ClientWrites       \* transactions it sends to the RAM: [address, bytes]

ASSUME ClientAssumption ==
  /\ Programs \subseteq RamData
  /\ ClientRegs \subseteq Nat
  /\ ClientValues \subseteq Word
  /\ ClientPCs \subseteq Word
  /\ \A w \in ClientWrites :
       /\ w.address \in Word
       /\ w.length \in {1, 2, 4}
       /\ w.bytes \in [0 .. w.length - 1 -> Byte]

VARIABLES
  process,     \* "running", or "killed" by a signal or an uncaught exception
  handle,      \* the client's mips_cpu_h: NULL or "cpu"
  state,       \* what it points to
  data,        \* mem->data of the RAM device
  call,        \* the API function the client called last ...
  err,         \* ... and the mips_error it returned
  taken        \* history: where the last successful step jumped, or None

vars == << process, handle, state, data, call, err, taken >>

None == -1                         \* not an address

Init ==
  /\ process = "running"
  /\ handle = NULL
  /\ state = Created(NULL)
  /\ data \in Programs
  /\ call = "main"
  /\ err = Success
  /\ taken = None

(* A call of the client, and its result.                                      *)
Reply(fn, e) ==
  /\ process = "running"
  /\ call' = fn
  /\ err' = e

(* Every function of the API but create and free starts with this test.       *)
OnNull(fn) ==
  /\ handle = NULL
  /\ Reply(fn, InvalidHandle)
  /\ UNCHANGED << process, handle, state, data, taken >>

mips_cpu_create ==
  /\ handle = NULL
  /\ Reply("mips_cpu_create", Success)
  /\ handle' = "cpu"
  /\ \E mem \in Handle : state' = Created(mem)
  /\ taken' = None
  /\ UNCHANGED << process, data >>

(* The client drops its handle with the CPU.                                  *)
mips_cpu_free ==
  /\ Reply("mips_cpu_free", Success)
  /\ handle' = NULL
  /\ state' = Created(NULL)
  /\ taken' = None
  /\ UNCHANGED << process, data >>

mips_cpu_reset ==
  \/ OnNull("mips_cpu_reset")
  \/ /\ handle # NULL
     /\ Reply("mips_cpu_reset", Success)
     /\ state' = Created(state.mem)
     /\ taken' = None
     /\ UNCHANGED << process, handle, data >>

mips_cpu_set_register(index, value) ==
  \/ OnNull("mips_cpu_set_register")
  \/ /\ handle # NULL
     /\ Reply("mips_cpu_set_register", IF index < 32 THEN Success ELSE InvalidArgument)
     /\ state' = IF index \in Reg \ {0} THEN SetReg(state, index, value) ELSE state
     /\ UNCHANGED << process, handle, data, taken >>

mips_cpu_set_pc(pc) ==
  \/ OnNull("mips_cpu_set_pc")
  \/ /\ handle # NULL
     /\ pc % 4 = 0
     /\ Reply("mips_cpu_set_pc", Success)
     /\ state' = PlacePc(state, pc)
     /\ taken' = None
     /\ UNCHANGED << process, handle, data >>
  \/ /\ handle # NULL
     /\ pc % 4 # 0
     /\ Reply("mips_cpu_set_pc", InvalidAlignment)
     /\ UNCHANGED << process, handle, state, data, taken >>

(* A step that returns, with an error or without.                             *)
StepReturns ==
  LET o == Execute(state, data)
  IN  /\ handle # NULL
      /\ o.err # Killed
      /\ Reply("mips_cpu_step", o.err)
      /\ state' = StepState(o)
      /\ data' = o.data
      /\ taken' = IF o.err # Success THEN taken
                  ELSE IF o.state.delay_slot = 1 THEN o.state.jPC ELSE None
      /\ UNCHANGED << process, handle >>

(* A step that takes the simulator down with it.                              *)
StepKills ==
  /\ handle # NULL
  /\ Execute(state, data).err = Killed
  /\ process = "running"
  /\ process' = "killed"
  /\ call' = "mips_cpu_step"
  /\ UNCHANGED << handle, state, data, err, taken >>

mips_cpu_step == OnNull("mips_cpu_step") \/ StepReturns \/ StepKills

(* The client writes the RAM directly, while the CPU is between two steps.    *)
client_mem_write(w) ==
  LET e == mips_mem_read_write("ram", CbMem, w.address, w.length)
  IN  /\ Reply("mips_mem_write", e)
      /\ data' = IF e = Success THEN mips_mem_write(data, w.address, w.length, w.bytes)
                                ELSE data
      /\ UNCHANGED << process, handle, state, taken >>

Next ==
  \/ mips_cpu_create
  \/ mips_cpu_free
  \/ mips_cpu_reset
  \/ \E index \in ClientRegs, value \in ClientValues : mips_cpu_set_register(index, value)
  \/ \E pc \in ClientPCs : mips_cpu_set_pc(pc)
  \/ mips_cpu_step
  \/ \E w \in ClientWrites : client_mem_write(w)

Spec == Init /\ [][Next]_vars
----------------------------------------------------------------------------
(* The client's calls; "main" before the first.                              *)
ApiCall ==
  {"main", "mips_cpu_create", "mips_cpu_free", "mips_cpu_reset", "mips_cpu_set_register",
   "mips_cpu_set_pc", "mips_cpu_set_debug_level", "mips_cpu_step", "mips_mem_write"}

TypeOK ==
  /\ process \in {"running", "killed"}
  /\ handle \in {NULL, "cpu"}
  /\ state \in mips_cpu_impl
  /\ data \in RamData
  /\ call \in ApiCall
  /\ err \in mips_error
  /\ taken \in Word \cup {None}

----------------------------------------------------------------------------
(* Register 0 reads as zero whatever the instructions and the client write:   *)
(* every instruction that names it as destination, the link of a jump with    *)
(* none, and mips_cpu_set_register, each have a test of their own for it.     *)
RegZero == state.regs[0] = 0

(* Between two calls no jump is half taken: delay_slot and jPC live only from *)
(* mips_cpu_jump to the mips_cpu_increment_pc of the same step, also when the *)
(* instruction fails or the client moves the pc.                              *)
NoPendingJump == state.delay_slot = 0 /\ state.jPC = 0

(* nPC is all that remains of a jump: it holds the target of the step before, *)
(* if that jumped, through failed steps and the client's writes in between.   *)
NextPc == state.nPC = IF taken = None THEN Plus(state.pc, 4) ELSE taken

(* The error contract of mips_cpu_step: "If an exception or error occurs, the *)
(* CPU and memory state should be left unchanged" (mips_cpu.h).               *)
StepFails == call' = "mips_cpu_step" /\ err' # Success
FailedStepChangesNothing == [][StepFails => UNCHANGED << handle, state, data, taken >>]_vars

(* And its consequence there: a second mips_cpu_step returns the same error.  *)
FailureRepeats ==
  [][call = "mips_cpu_step" /\ err # Success /\ call' = "mips_cpu_step" => err' = err]_vars

(* A step has one result: one general register, or HI and LO, or bytes of one *)
(* aligned word of the RAM.                                                   *)
OneResult ==
  LET regs == {r \in Reg : state'.regs[r] # state.regs[r]}
      hilo == << state'.hi, state'.lo >> # << state.hi, state.lo >>
      words == {a \div 4 : a \in {b \in RamAddress : data'[b] # data[b]}}
  IN  /\ Cardinality(regs) <= 1
      /\ Cardinality(words) <= 1
      /\ Cardinality({part \in {"regs", "hilo", "words"} :
           \/ part = "regs" /\ regs # {}
           \/ part = "hilo" /\ hilo
           \/ part = "words" /\ words # {}}) <= 1
OneResultPerStep == [][call' = "mips_cpu_step" => OneResult]_vars

(* Only JR and JALR can send the pc to an address that cannot be fetched for  *)
(* its alignment: branches and J targets, the client and reset keep it legal. *)
FetchedInstr == Decode(FromBytes(mips_mem_read(data, state.pc, 4)))
OnlyRegisterJumpsMisalign ==
  [][state.nPC % 4 = 0 /\ state'.nPC % 4 # 0
       => FetchedInstr.opcode = \h0 /\ FetchedInstr.fn \in {\h8, \h9}]_vars

(* No program takes the simulator itself down: whatever an instruction does,  *)
(* "the user can inspect what happened and find out what went wrong"          *)
(* (mips_cpu.h).                                                              *)
SimulatorSurvives == process = "running"

(* What an execution looks like from outside is a delayed-branch machine:     *)
(* every successful step takes the pc where the step before decided, into the *)
(* delay slot and from there to the target, only create, reset, set_pc and    *)
(* free place it elsewhere, and nothing else moves it or the pending jump.    *)
Last ==
  IF process = "killed" \/ err # Success THEN "still"
  ELSE CASE call = "mips_cpu_step" -> "executed"
         [] call \in {"mips_cpu_create", "mips_cpu_free", "mips_cpu_reset",
                      "mips_cpu_set_pc"} -> "placed"
         [] OTHER -> "still"
Delayed == INSTANCE DelayedBranch WITH pc <- state.pc, pending <- taken, last <- Last
BranchesAreDelayed == Delayed!Spec
=============================================================================
