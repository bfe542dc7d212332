--------------------------- MODULE MipsTestDriver ---------------------------
(* test_mips.cpp: one process that creates a RAM and a CPU, works through a   *)
(* specification row by row with the functions of MipsTestRows, and reports   *)
(* to the test framework, which ends the process when it is misused.          *)
EXTENDS MipsTestRows, FiniteSets

CONSTANTS
  Names, Upper, Messages, MaxTests,      \* of the framework, see MipsTest
  RamHandles,        \* what mips_mem_create_ram may return
  FreshRam,          \* what malloc leaves in the RAM
  Files,             \* what mips_test_spec.csv may hold: sequences of rows
  Faults(_)          \* comparisons that may fail in a row: 0 for none

ASSUME DriverAssumption ==
  /\ RamHandles \subseteq Handle
  /\ FreshRam \in RamData

VARIABLES
  process, sg_started, sg_tests, report,      \* the framework
  cpu, data,         \* the CPU and the RAM that all tests share
  stage,             \* how far main is
  i,                 \* its loop counter: internal tests, rows, handles
  spec,              \* the rows of the file, which is there from the start
  testId,            \* the id of the test begun last
  calls,             \* what a test function still has to tell the framework
  ran                \* history: the rows run so far, and what the last step of
                     \* each returned

framework == << process, sg_started, sg_tests, report >>
machine == << cpu, data >>
vars == << process, sg_started, sg_tests, report, cpu, data, stage, i, spec, testId,
           calls, ran >>

F == INSTANCE MipsTest

ASSUME FrameworkAssumption == F!NamesAssumption

Init ==
  /\ F!Init
  /\ \E mem \in RamHandles : cpu = Created(mem)
  /\ data = FreshRam
  /\ stage = "suite"
  /\ i = 0
  /\ spec \in Files
  /\ testId = 0
  /\ calls = << >>
  /\ ran = << >>

(* main goes on when a test has told the framework all it has to say.         *)
At(s) ==
  /\ process = "running"
  /\ stage = s
  /\ calls = << >>
Goto(s, n) == stage' = s /\ i' = n

BeginSuite ==
  /\ At("suite")
  /\ F!mips_test_begin_suite
  /\ Goto("create", 0)
  /\ UNCHANGED << cpu, data, spec, testId, calls, ran >>

(* Begin a test and run its body, which leaves machine m and makes the calls  *)
(* that end the test; a body that kills the process makes none.               *)
RunTest(name, m, ends, s, n) ==
  /\ F!mips_test_begin_test(name)
  /\ IF process' = "running"
     THEN /\ testId' = Len(sg_tests)
          /\ cpu' = m.cpu
          /\ data' = m.data
          /\ calls' = IF m.err = Killed THEN << >> ELSE ends
          /\ Goto(IF m.err = Killed THEN "killed" ELSE s, n)
     ELSE UNCHANGED << testId, cpu, data, calls, stage, i >>

Passed(ok) == << End(Verdict(ok), "internal") >>
Here == [cpu |-> cpu, data |-> data, err |-> Success]

(* The CPU is created inside its test.                                        *)
CreateTest ==
  /\ At("create")
  /\ RunTest("<internal>", Here,
             Passed(compare_model(Here, model_state(Here, 0, 0, 0), 1, 0)), "internal", 0)
  /\ UNCHANGED << spec, ran >>

Counting(m) == [m EXCEPT !.cpu.regs = [r \in Reg |-> IF r = 0 THEN 0 ELSE r + 1]]
Reset(m) == [m EXCEPT !.cpu = Created(m.cpu.mem)]

(* Internal test n on machine m: the machine it leaves and its verdict, which *)
(* compares with a model made before the test.                                *)
internal_test(n, m) ==
  LET regs == IF n = 0 THEN Counting(m).cpu.regs ELSE [m.cpu.regs EXCEPT ![0] = 0]
      pc == CASE n = 2 -> 16 [] n = 3 -> 4 [] OTHER -> 0
      Left(stepped) ==
        CASE n = 0 -> Counting(m)
          [] n = 1 -> Reset(stepped)
          [] n = 2 -> [m EXCEPT !.cpu = PlacePc(@, 16)]
          [] n = 3 -> stepped
      Judge(stepped) ==
        [m |-> Left(stepped), killed |-> stepped.err = Killed /\ n \in {1, 3},
         ok |-> compare_model(Left(stepped), [regs |-> regs, pc |-> pc], 1, 0)]
  IN  Do(Judge, Step(m))

(* Every internal test is followed by a reset.                                *)
AfterInternal_NoReset(m) == m
AfterInternal(m) == Reset(m)

internal_tests ==
  /\ At("internal")
  /\ \E t \in {internal_test(i, Here)} :
       \E m \in {IF t.killed THEN [t.m EXCEPT !.err = Killed]
                ELSE [AfterInternal(t.m) EXCEPT !.err = Success]} :
         RunTest("<internal>", m, Passed(t.ok), IF i = 3 THEN "parse" ELSE "internal", i + 1)
  /\ UNCHANGED << spec, ran >>

(* Without the file main returns at once, and there is no report.             *)
parse_test_spec ==
  /\ At("parse")
  /\ Goto("rows", 1) \/ Goto("aborted", 0)
  /\ UNCHANGED framework
  /\ UNCHANGED << cpu, data, spec, testId, calls, ran >>

----------------------------------------------------------------------------
(* run_spec.                                                                  *)

(* A header names the columns of the rows below it, or is empty.              *)
AfterHeader_Stuck(n) == n
AfterHeader(n) == n + 1
SkipHeader ==
  /\ At("rows")
  /\ i <= Len(spec)
  /\ spec[i].kind = "header"
  /\ Goto("rows", AfterHeader(i))
  /\ UNCHANGED framework
  /\ UNCHANGED << cpu, data, spec, testId, calls, ran >>

EndOfSpec ==
  /\ At("rows")
  /\ i <= Len(spec) => spec[i].kind = "STOP"
  /\ Goto("handles", 0)
  /\ UNCHANGED framework
  /\ UNCHANGED << cpu, data, spec, testId, calls, ran >>

(* Every row begins with a reset of the CPU, but not of the RAM.              *)
BeforeRow_NoReset(m) == m
BeforeRow(m) == Reset(m)

(* MTMF and MultDiv rows end their tests themselves and run_spec ends the     *)
(* others, but not the test of a row whose type it does not know.             *)
run_row(row, m, wrong) ==
  CASE row.type = "Normal" -> test_normal_functions(row, m, wrong)
    [] row.type = "Branch" -> test_branch_functions(row, m, wrong)
    [] row.type = "MemWrite" -> test_memory_write_functions(row, m, wrong)
    [] row.type = "MemRead" -> test_memory_read_functions(row, m, wrong)
    [] row.type = "MTMF" -> test_mtmf_functions(row, m, wrong)
    [] row.type = "MultDiv" -> test_multdiv_functions(row, m, wrong)
    [] OTHER -> [m |-> m, calls |-> << >>]

run_spec ==
  /\ At("rows")
  /\ i <= Len(spec)
  /\ spec[i].kind = "row"
  /\ \E wrong \in Faults(spec[i]) :
       \E r \in {run_row(spec[i], BeforeRow(Here), wrong)} :
         /\ RunTest(spec[i].func, r.m, r.calls, "rows", i + 1)
         /\ ran' = Append(ran, [row |-> spec[i], wrong |-> wrong, err |-> r.m.err,
                                test |-> Len(sg_tests) + 1])
  /\ UNCHANGED spec

(* The next call of a test function on the framework.                         *)
Call ==
  /\ process = "running"
  /\ calls # << >>
  /\ LET c == Head(calls)
     IN  \/ /\ c.fn = "begin"
            /\ F!mips_test_begin_test(c.name)
            /\ testId' = Len(sg_tests)
         \/ /\ c.fn = "end"
            /\ F!mips_test_end_test(testId, c.passed, c.msg)
            /\ UNCHANGED testId
  /\ calls' = Tail(calls)
  /\ UNCHANGED << cpu, data, stage, i, spec, ran >>

(* Seven functions of the API are called with a null handle; each of them     *)
(* starts with the same test.                                                 *)
Answer(handle) == IF handle = NULL THEN InvalidHandle ELSE Success
test_invalid_handle ==
  /\ At("handles")
  /\ RunTest("<internal>", Here, Passed(Answer(NULL) = InvalidHandle),
             IF i = 6 THEN "end" ELSE "handles", i + 1)
  /\ UNCHANGED << spec, ran >>

EndSuite ==
  /\ At("end")
  /\ F!mips_test_end_suite
  /\ Goto("returned", 0)
  /\ UNCHANGED << cpu, data, spec, testId, calls, ran >>

Next ==
  \/ BeginSuite
  \/ CreateTest
  \/ internal_tests
  \/ parse_test_spec
  \/ SkipHeader
  \/ EndOfSpec
  \/ run_spec
  \/ Call
  \/ test_invalid_handle
  \/ EndSuite

Spec == Init /\ [][Next]_vars

(* One process that waits for nothing: it goes on as long as it can.          *)
FairSpec == Spec /\ WF_vars(Next)
----------------------------------------------------------------------------
(* The files that the driver survives.                                        *)

(* A row of the specification has the columns of its kind, in their ranges.   *)
Columns(row) ==
  /\ row.func \in Names
  /\ row.ins \in Instr /\ Encode(row.ins) \in Word
  /\ row.type = "MTMF" => row.func \in {"MTHI", "MTLO"} /\ row.ans \in Word
  /\ row.type # "MTMF" => row.s_val \in Word
  /\ row.type \notin {"MTMF", "Normal"} => row.t_val \in Word
  /\ row.type = "Normal" /\ row.format = "R" => row.t_val \in Word
  /\ row.type \in {"MemWrite", "MemRead"} => row.memloc \in Word
  /\ row.type = "MemRead" => row.bytes \in Word
  /\ row.type = "Branch" => row.loc \in Word

(* run_spec knows its type, and the instruction of a MULT or DIV row that is  *)
(* meant to succeed is one, on a CPU that gets it right: without its two      *)
(* findings a row ends each of its tests once.                                *)
EndsItsTests(row) ==
  /\ row.type \in {"Normal", "Branch", "MemWrite", "MemRead", "MTMF", "MultDiv"}
  /\ row.type = "MultDiv" /\ row.exp_err = Success =>
       /\ row.ins.opcode = 0 /\ row.ins.fn \in \h18 .. \h1b
       /\ row.ins.d = 0 /\ row.ins.sh = 0
       /\ Decode(Encode(row.ins)) = row.ins
       /\ 1 \notin Faults(row)
       /\ NULL \notin RamHandles /\ CbMem >= 4

Helpers == {Addu(4, 5, 6), Addu(16, 17, 18), MoveFrom(\h10, 16), MoveFrom(\h12, 16),
            MoveFrom(\h12, 17)}

FilesAreSafe ==
  /\ \A f \in Files :
       /\ Len(f) \in Nat
       /\ \A k \in 1 .. Len(f) : f[k].kind = "row" => Columns(f[k]) /\ EndsItsTests(f[k])
  /\ \A ins \in Helpers : Encode(ins) \in Word
  /\ {"<internal>", "MFHI", "MFLO"} \subseteq Names
  /\ {"internal", "row", "failing", "passing"} \subseteq Messages
----------------------------------------------------------------------------
(* The files whose rows do what they say on a RAM of their own.               *)

(* The machine of a process that has run nothing yet.                         *)
Alone(mem) == [cpu |-> Created(mem), data |-> FreshRam, err |-> Success]

RowsOfFiles ==
  UNION {{f[k] : k \in {n \in 1 .. Len(f) : f[n].kind = "row"}} : f \in Files}

RowOps(row) ==
  CASE row.type = "Normal" -> NormalOps(row)
    [] row.type = "Branch" -> BranchOps(row)
    [] row.type = "MemWrite" -> MemWriteOps(row)
    [] row.type = "MemRead" -> MemReadOps(row)
    [] row.type = "MTMF" -> MtMfOps(row)
    [] row.type = "MultDiv" -> MultDivOps(row)

(* The bytes a row has written after k of its operations.                     *)
WrittenBy(mem, o) ==
  {a \in RamAddress :
     /\ \/ o.op = "write" /\ mips_mem_read_write(mem, CbMem, o.address, 4) = Success
        \/ o.op = "bytes" /\ mem # NULL
     /\ a \in o.address .. o.address + 3}
Known(mem, ops, k) == UNION {WrittenBy(mem, ops[n]) : n \in 1 .. k}

(* The instruction that the next step fetches and what that loads.            *)
ReadsWithin(m, known) ==
  LET pc == m.cpu.pc
      ins == Decode(FromBytes(mips_mem_read(m.data, pc, 4)))
      length == TransferLength(ins.opcode)
      address ==
        TransferAddress(ins.opcode, Plus(m.cpu.regs[ins.s], SignExtendHalf(ins.i)))
  IN  m.err # Killed /\ mips_mem_read_write(m.cpu.mem, CbMem, pc, 4) = Success =>
        /\ pc .. pc + 3 \subseteq known
        /\ /\ ins.opcode \in Loads
           /\ mips_mem_read_write(m.cpu.mem, CbMem, address, length) = Success
           => address .. address + length - 1 \subseteq known

(* A branch that is not taken: its third step is the one step of a row that   *)
(* executes what the row has not written.                                     *)
NotTaken(row) ==
  row.type = "Branch" /\ row.format \in BranchFormats /\ row.exp_err1 = Success /\ ~row.branch

(* Before that step, a row reads only bytes it has written; in a RAM that     *)
(* nothing has been written to, that step returns what the one before did.    *)
StandsAlone(row, mem) ==
  LET ops == RowOps(row)
      ms == Run(Alone(mem), ops)
  IN  /\ \A k \in 1 .. Len(ops) :
           ops[k].op = "step" /\ ~(NotTaken(row) /\ k = Len(ops)) =>
             ReadsWithin(IF k = 1 THEN Alone(mem) ELSE ms[k - 1], Known(mem, ops, k))
      /\ NotTaken(row) => ms[11].err = ms[10].err
      /\ /\ row.type = "MemWrite" /\ row.exp_err = Success
         /\ ms[6].cpu.pc = 4 /\ Readable(ms[6], row.memloc)
         => row.memloc .. row.memloc + 3 \subseteq Known(mem, ops, 6)

(* A row that asks for the right thing of a CPU that is right.                *)
Right(row, wrong, mem) == row.sound /\ wrong = 0 /\ mem # NULL

(* The verdicts of a row that is the only one of its file.                    *)
JudgedAlone(row, mem, wrong) ==
  LET r == run_row(row, Alone(mem), wrong)
  IN  r.m.err # Killed =>
        IF Right(row, wrong, mem)
        THEN \A k \in 1 .. Len(r.calls) : r.calls[k].fn = "end" => r.calls[k].passed = 1
        ELSE Head(r.calls).passed = 0

RowsStandAlone ==
  /\ \A row \in RowsOfFiles, mem \in RamHandles : StandsAlone(row, mem)
  /\ \A row \in RowsOfFiles, mem \in RamHandles :
       \A wrong \in Faults(row) : JudgedAlone(row, mem, wrong)
  /\ \A n \in 0 .. 3, mem \in RamHandles :
       /\ internal_test(n, Alone(mem)).m.data = FreshRam
       /\ mem # NULL => internal_test(n, Alone(mem)).ok
----------------------------------------------------------------------------
(* The driver and its test functions, some of which end their tests           *)
(* themselves and begin others, keep the framework's protocol between them:   *)
(* it never ends the process, and between two tests none is open.             *)
KeepsProtocol ==
  /\ process = "running"
  /\ calls = << >> /\ stage # "killed" => ~F!Unfinished

(* The test of a row passes exactly if the row asks for the right thing of a  *)
(* CPU that is right.  All rows share one RAM, which is never cleared, and    *)
(* the third step after a branch that is not taken executes what the rows     *)
(* before it have left there: if that works it makes no difference, whatever  *)
(* it is; if it fails the row fails with it, however right the CPU; if it     *)
(* kills the simulator there is no verdict.  That is all that earlier rows    *)
(* have to do with a verdict.                                                 *)
Deserves(r, mem) == Right(r.row, r.wrong, mem) /\ (NotTaken(r.row) => r.err = Success)
VerdictsAreRight ==
  \A k \in DOMAIN ran :
    LET t == sg_tests[ran[k].test]
    IN  t.status # -1 => ((t.status = 1) <=> Deserves(ran[k], cpu.mem))

(* On this CPU, a specification that asks for nothing wrong, and whose        *)
(* branches not taken do not run into an instruction that fails, gets a       *)
(* report without a failure, helper and internal tests included.              *)
CleanReport ==
  /\ stage = "returned" /\ cpu.mem # NULL
  /\ \A k \in DOMAIN ran : Deserves(ran[k], cpu.mem)
  => \A name \in DOMAIN report : report[name].passed = report[name].total

(* The program ends: it returns with its report, or without one when the file *)
(* cannot be opened or an instruction under test kills it.                    *)
SuiteEnds == <>(stage \in {"returned", "aborted", "killed"})

(* "Didn't recognise type ... skipping test." and "MULT/DIV will end its tests *)
(* inside the function" (run_spec): whatever type a row has and whatever the  *)
(* comparisons find, the row's own test is ended and the suite survives it.   *)
RowsEndTheirTests == ran # << >> => process = "running"
=============================================================================
