---------------------------- MODULE MipsTestRows ----------------------------
(* The test functions of test_mips.cpp: what each does to the CPU and the RAM *)
(* with a row of the specification, and what it then tells the framework.     *)
(* A function is an operator from a machine to the machine it leaves and the  *)
(* calls of the framework it makes, in their order.                           *)
EXTENDS MipsExec, Sequences

CONSTANT Encode(_)         \* test_construct_bitstream, in the order memory has it

(* A machine is a record: cpu and data, the CPU and RAM under test, and err,  *)
(* what the last step returned.  The CPU under test may be any: wrong = k     *)
(* makes the k-th comparison of a function fail whatever the machine does,    *)
(* and wrong = 0 is this simulator.                                           *)

(* F of x, where TLC evaluates x only once.                                   *)
Do(F(_), x) == CHOOSE y \in {F(z) : z \in {x}} : TRUE

(* What a test function does to the machine, one call of the API after the    *)
(* other.  Writing register 0 does nothing.                                   *)
Set(r, value) == [op |-> "set", r |-> r, value |-> value]
PlaceAt(pc) == [op |-> "pc", pc |-> pc]
Write(address, bytes) == [op |-> "write", address |-> address, bytes |-> bytes]
WriteInstr(address, ins) == Write(address, ToBytes(Encode(ins)))
WriteBytes(address, bytes) == [op |-> "bytes", address |-> address, bytes |-> bytes]
AStep == [op |-> "step"]
If(c, o) == IF c THEN o ELSE [op |-> "nothing"]

(* A step that kills the simulator leaves nothing to be stepped again.        *)
Step(m) ==
  LET After(o) == [cpu |-> StepState(o), data |-> o.data, err |-> o.err]
  IN  IF m.err = Killed THEN m ELSE Do(After, Execute(m.cpu, m.data))

Perform(m, o) ==
  CASE o.op = "set" /\ o.r # 0 -> [m EXCEPT !.cpu = SetReg(@, o.r, o.value)]
    [] o.op = "pc" -> [m EXCEPT !.cpu = PlacePc(@, o.pc)]
    [] o.op = "write" /\ mips_mem_read_write(m.cpu.mem, CbMem, o.address, 4) = Success ->
         [m EXCEPT !.data = mips_mem_write(@, o.address, 4, o.bytes)]
    [] o.op = "bytes" /\ m.cpu.mem # NULL ->
         [m EXCEPT !.data = [a \in RamAddress |-> IF a \in o.address .. o.address + 3
                                                  THEN o.bytes[a - o.address] ELSE @[a]]]
    [] o.op = "step" -> Step(m)
    [] OTHER -> m

(* The machine after each of the operations.                                  *)
Run(m0, ops) ==
  LET ms[n \in 0 .. Len(ops)] ==
        LET Next(done) == Append(done, Perform(IF n = 1 THEN m0 ELSE done[n - 1], ops[n]))
        IN  IF n = 0 THEN << >> ELSE Do(Next, ms[n - 1])
  IN  ms[Len(ops)]

(* model_state: the registers as they are, but for one, and a pc to reach.    *)
model_state(m, dest, value, pc) == [regs |-> [m.cpu.regs EXCEPT ![dest] = value], pc |-> pc]

compare_model(m, model, k, wrong) ==
  /\ m.cpu.regs = model.regs
  /\ m.cpu.pc = model.pc
  /\ k # wrong
SameError(m, err, k, wrong) == m.err = err /\ k # wrong

----------------------------------------------------------------------------
(* Calls of the framework.                                                    *)
Verdict(passed) == IF passed THEN 1 ELSE 0
Begin(name) == [fn |-> "begin", name |-> name]
End(passed, msg) == [fn |-> "end", passed |-> passed, msg |-> msg]

(* One test, ended by the caller or at the end of the function.               *)
Tested(m, passed) == [m |-> m, calls |-> << End(Verdict(passed), "row") >>]

(* A test of an instruction that only helped, with a message that says how    *)
(* it went.                                                                   *)
Helper_LeftOpen(name, passed, msg) == << Begin(name) >>
Helper(name, passed, msg) == << Begin(name), End(Verdict(passed), msg) >>

----------------------------------------------------------------------------
RIns(fn, s, t, d) == [opcode |-> 0, s |-> s, t |-> t, d |-> d, sh |-> 0, fn |-> fn,
                      i |-> 0, j |-> 0]
Addu(s, t, d) == RIns(\h21, s, t, d)
MoveFrom(fn, d) == RIns(fn, 0, 0, d)

(* One step of an instruction that writes one register, or fails.             *)
NormalDest(row) == IF row.format = "R" THEN row.ins.d ELSE row.ins.t
NormalOps(row) ==
  << Set(NormalDest(row), 11), If(row.format = "R", Set(row.ins.t, row.t_val)),
     Set(row.ins.s, row.s_val), WriteInstr(0, row.ins), AStep >>

test_normal_functions(row, m0, wrong) ==
  LET Judge(m) ==
        IF row.format \notin {"R", "I"} THEN Tested(m0, FALSE)
        ELSE IF row.exp_err # Success \/ m[5].err # Success
        THEN Tested(m[5], SameError(m[5], row.exp_err, 1, wrong))
        ELSE Tested(m[5],
               compare_model(m[5], model_state(m[4], NormalDest(row), row.ans, 4), 1, wrong))
  IN  Do(Judge, Run(m0, NormalOps(row)))

(* Where a taken branch is expected to lead.  The region of a J row is        *)
(* computed before loc is read, while loc is still 0.                         *)
ExpectedTarget(row) ==
  CASE row.format = "R" -> row.s_val
    [] row.format = "J" -> (Plus(0, 4) \div JumpRegion) * JumpRegion + 4 * row.ins.j
    [] OTHER -> ToWord(row.loc + 4 + 4 * SignExtendHalf(row.ins.i))

(* Jump, delay slot, target: one step and one comparison for each.            *)
LinkDest(row) ==
  CASE row.format = "R" -> row.ins.d [] row.format = "I" -> 0 [] OTHER -> 31
PlacedOps(row) ==
  << If(row.format # "J", Set(row.ins.s, row.s_val)),
     If(row.format = "I", Set(row.ins.t, row.t_val)), If(row.link, Set(LinkDest(row), 1)),
     WriteInstr(row.loc, row.ins), If(row.loc % 4 = 0, PlaceAt(row.loc)) >>
SlotOps(row) ==
  << Set(4, 3), Set(5, 2), WriteInstr(Plus(row.loc, 4), Addu(4, 5, 6)), AStep, AStep >>
TargetOps(row) ==
  << Set(16, 4), Set(17, 5), WriteInstr(ExpectedTarget(row), Addu(16, 17, 18)), AStep,
     If(row.exp_err3 # Success, AStep) >>
BranchFormats == {"R", "RT", "I", "J"}
BranchOps(row) ==
  IF row.format \notin BranchFormats THEN << >>
  ELSE PlacedOps(row) \o IF row.exp_err1 # Success THEN << AStep >>
                         ELSE SlotOps(row) \o IF row.branch THEN TargetOps(row)
                                              ELSE << AStep >>

(* The third step of a branch not taken executes what lies two instructions   *)
(* after it, which this row has not written.                                  *)
test_branch_functions(row, m0, wrong) ==
  LET target == ExpectedTarget(row)
      link == IF row.link THEN Plus(row.loc, 8) ELSE 0
      Slot(m, pc) == compare_model(m[10], model_state(m[9], 6, 5, pc), 2, wrong)
      Judge(m) ==
        IF row.format \notin BranchFormats THEN Tested(m0, FALSE)
        ELSE IF row.exp_err1 # Success
        THEN Tested(m[6], SameError(m[6], row.exp_err1, 1, wrong))
        ELSE IF ~compare_model(m[9], model_state(m[7], LinkDest(row), link, Plus(row.loc, 4)),
                               1, wrong)
        THEN Tested(m[9], FALSE)
        ELSE IF ~row.branch
        THEN Tested(m[11], /\ Slot(m, Plus(row.loc, 8))
                           /\ m[11].cpu.pc = Plus(row.loc, 12) /\ wrong # 3)
        ELSE IF ~Slot(m, target) THEN Tested(m[10], FALSE)
        ELSE IF row.exp_err3 # Success
        THEN Tested(m[15], SameError(m[15], row.exp_err3, 3, wrong))
        ELSE Tested(m[14],
               compare_model(m[14], model_state(m[13], 18, 9, Plus(target, 4)), 3, wrong))
  IN  Do(Judge, Run(m0, BranchOps(row)))

Zeros == [k \in 0 .. 3 |-> 0]

(* The word is cleared first.  Of the two writes one is unaligned and fails.  *)
ClearWord(memloc) == << Write(memloc, Zeros), Write(Plus(memloc, 3), Zeros) >>

MemWriteOps(row) ==
  << Set(row.ins.s, row.s_val), Set(row.ins.t, row.t_val) >>
    \o ClearWord(row.memloc) \o << WriteInstr(0, row.ins), AStep >>

(* The word is read back, unless memloc cannot be read: big_b then stays      *)
(* uninitialised, and the last comparison comes out either way (wrong = 2 is  *)
(* the other one).                                                            *)
Readable(m, memloc) == mips_mem_read_write(m.cpu.mem, CbMem, memloc, 4) = Success
ReadsBack(m, memloc, ans) ==
  Readable(m, memloc) => FromBytes(mips_mem_read(m.data, memloc, 4)) = ans

test_memory_write_functions(row, m0, wrong) ==
  LET Judge(m) ==
        IF row.exp_err # Success THEN Tested(m[6], SameError(m[6], row.exp_err, 1, wrong))
        ELSE Tested(m[6], /\ compare_model(m[6], model_state(m[5], 0, 0, 4), 1, wrong)
                          /\ ReadsBack(m[6], row.memloc, row.ans)
                          /\ wrong # 2)
  IN  Do(Judge, Run(m0, MemWriteOps(row)))

(* The bytes go to memory one by one, so memloc need not be aligned.          *)
MemReadOps(row) ==
  << Set(row.ins.s, row.s_val), Set(row.ins.t, row.t_val),
     WriteBytes(row.memloc, ToBytes(row.bytes)), WriteInstr(0, row.ins), AStep >>

test_memory_read_functions(row, m0, wrong) ==
  LET Judge(m) ==
        IF row.exp_err # Success \/ m[5].err # Success
        THEN Tested(m[5], SameError(m[5], row.exp_err, 1, wrong))
        ELSE Tested(m[5],
               compare_model(m[5], model_state(m[4], row.ins.t, row.ans, 4), 1, wrong))
  IN  Do(Judge, Run(m0, MemReadOps(row)))

(* MULT or DIV, then MFHI and MFLO to look at the result, which are counted   *)
(* as tests of their own.  After a first comparison that fails the function   *)
(* ends the test and goes on.                                                 *)
MultDivOps(row) ==
  << Set(row.ins.s, row.s_val), Set(row.ins.t, row.t_val),
     WriteInstr(0, row.ins), AStep, WriteInstr(4, MoveFrom(\h10, 16)), AStep,
     WriteInstr(8, MoveFrom(\h12, 17)), AStep >>

test_multdiv_functions(row, m0, wrong) ==
  LET Judge(m) ==
        LET ok1 == compare_model(m[4], model_state(m[3], 0, 0, 4), 1, wrong)
            ok2 == compare_model(m[6], model_state(m[4], 16, row.hi, 8), 2, wrong)
            ok3 == compare_model(m[8], model_state(m[6], 17, row.lo, 12), 3, wrong)
            ended == IF ok1 THEN << >> ELSE << End(0, "row") >>
            passed == ok1 /\ ok2 /\ ok3
        IN  IF row.exp_err # Success
            THEN Tested(m[4], SameError(m[4], row.exp_err, 1, wrong))
            ELSE IF ~ok2
            THEN [m |-> m[6], calls |-> ended \o << End(0, "row") >>
                                             \o Helper("MFHI", FALSE, "failing")]
            ELSE [m |-> m[8],
                  calls |-> ended \o << End(Verdict(passed), "row") >>
                                  \o Helper("MFLO", passed, IF ok3 THEN "passing" ELSE "failing")
                                  \o Helper("MFHI", passed, "passing")]
  IN  Do(Judge, Run(m0, MultDivOps(row)))

(* MTHI or MTLO, then the instruction that moves the value back.              *)
MovesBack(row) == CASE row.func = "MTHI" -> "MFHI" [] row.func = "MTLO" -> "MFLO"
MtMfOps(row) ==
  << Set(row.ins.s, row.ans), WriteInstr(0, row.ins), AStep,
     WriteInstr(4, MoveFrom(IF MovesBack(row) = "MFHI" THEN \h10 ELSE \h12, 16)), AStep >>

test_mtmf_functions(row, m0, wrong) ==
  LET Judge(m) ==
        IF row.exp_err # Success THEN Tested(m[3], SameError(m[3], row.exp_err, 1, wrong))
        ELSE IF ~compare_model(m[3], model_state(m[2], 0, 0, 4), 1, wrong)
        THEN Tested(m[3], FALSE)
        ELSE IF ~compare_model(m[5], model_state(m[3], 16, row.ans, 8), 2, wrong)
        THEN [m |-> m[5],
              calls |-> << End(0, "row") >> \o Helper(MovesBack(row), FALSE, "failing")]
        ELSE Tested(m[5], TRUE)
  IN  Do(Judge, Run(m0, MtMfOps(row)))
=============================================================================
