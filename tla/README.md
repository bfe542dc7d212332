# A verification of the MIPS-I simulator

TLA+ modules for the simulator in `src/`, with TLC models that check them on
small instances and TLAPS proofs that hold for every value of the constants.
Paths below are relative to the repository.

## The system

| component | where | state | operations |
|---|---|---|---|
| CPU API | `src/gsp14/mips_cpu.cpp`, `include/mips_cpu.h` | `struct mips_cpu_impl`: pc, nPC, jPC, delay_slot, 32 registers, hi, lo, the memory handle, debug settings | create, free, reset, get/set register, get/set pc, step, set_debug_level |
| instruction execution | `src/gsp14/mips_cpu.cpp` | the same, through `mips_cpu_step` | decode; the R, RT, J, I and memory handlers; increment_pc |
| RAM device | `src/shared/mips_mem_ram.cpp`, `include/mips_mem.h` | length and bytes | create_ram, free, read, write |
| test framework | `src/shared/mips_test_framework.cpp`, `include/mips_test.h` | suite started or not, the list of tests with their status | begin/end suite, begin/end test |
| test driver | `src/gsp14/test_mips.cpp`, `mips_test_spec.csv` | one CPU and one RAM, reused by all tests; the test in progress | run_spec and one function per kind of test |
| program runners | `fragments/run_*.cpp` | a CPU, a RAM, a loaded binary | load, then step until a sentinel pc |

The program is sequential. Everything happens through calls: a client (test
driver, runner) creates a RAM and a CPU that holds the RAM's handle, pokes
registers and pc, and steps; a step reads its instruction, and perhaps reads or
writes data, through `mips_mem_read` / `mips_mem_write`. The RAM is shared: the
client writes it directly between two steps, program text included. The test
driver reports to the test framework, which calls `exit(1)` when begin and end
do not alternate. The CPU prints its state on a stream the client gave it, at
the level the client chose.

What is hard in it:

- **Order.** A MIPS branch takes effect one instruction late. Three fields
  (nPC, jPC, delay_slot) implement that, and jumps in delay slots, instructions
  that fail in a delay slot and a client that moves the pc in between all have
  to leave them consistent.
- **Failure.** `mips_cpu.h` asks that a step which returns an error changes
  nothing, so that it can be repeated with the same result. Each of some forty
  instructions returns its errors from places of its own.
- **Width.** Wrapping, sign extension, traps on overflow, truncating division,
  shifts by whole registers, address checks that may wrap.
- **Byte order.** A big-endian machine on a little-endian host; LWL and LWR with
  masks of their own.
- **Protocol.** Tests that are begun in one function and ended in another, on
  some twenty paths; streams that are closed while the CPU still has them;
  blocks that belong to one device and are freed together.
- **Stale state.** All rows of the test specification share one CPU and one RAM,
  and the result variable is shared by the tests of one row.
- **Termination.** The runner loops until a recursive program has unwound to a
  return address that is not in the RAM.

What makes each part correct: the CPU promises the delayed-branch order, the
error contract, a register 0 that stays zero, one result per instruction; the
arithmetic instructions promise the integers; loads and stores promise each
other's bytes; the RAM promises to accept exactly the aligned transactions
within it, and to its devices arrays of their own; the encoder and the decoder
promise each other the fields of an instruction; the framework promises that
every test is counted once; the driver that a verdict depends on its row and the
CPU alone, but for one step that executes what earlier rows left, and that it ends; the runners that the compiled functions return what
the C functions do. `hazards` in
`PROJECT.json` lists, line by line, what can go wrong and which property would
notice.

## Modules

| module | models |
|---|---|
| `MipsWord` | the integers: unsigned words that wrap, casts to signed, shifts, bytes of a big-endian word, bitwise operations byte by byte |
| `MipsMem` | `mips_mem_read_write` and what an accepted transaction does |
| `MipsRam` | RAM devices on a heap: `mips_mem_create_ram` with every outcome of its two mallocs, `mips_mem_free`, reads and writes, for any number of devices |
| `ByteStore` | the abstract specification of `mips_mem.h`: arrays of bytes with unbounded integers for addresses |
| `MipsExec` | one operator per handler of `mips_cpu_step`, from a state to the state it leaves and the `mips_error` it returns; `Execute` is a step up to `mips_cpu_increment_pc` |
| `MipsCpu` | the state machine of the API: one action per call of a client, which calls in any order, with NULL handles and bad arguments too |
| `DelayedBranch` | the abstract specification: pc, a pending jump and who moved the pc last, nothing else |
| `MipsDebug` | `MipsCpu` with the debug level and stream, the streams of the client, the `-d` and `-f` options, and which call writes to which stream |
| `MipsMemory` | properties of loads and stores over the states of `MipsCpu` |
| `MipsAlu` | single instructions on arbitrary operands, for the arithmetic properties |
| `MipsInstr` | an instruction from the driver's `test_construct_bitstream` through memory to `cpu_decode_instr`, at full width; a word is the set of its one bits |
| `MipsTest` | the test framework: the list of tests, each `exit(1)`, the statistics |
| `TestLedger` | the abstract specification of `mips_test.h`: one open test and a count |
| `MipsTestRows` | the driver's function for each kind of row: what it does to the machine, step by step, and which calls of the framework it makes |
| `MipsTestDriver` | `main` and `run_spec` of `test_mips.cpp`, composed with `MipsTest` and `MipsExec` |
| `MipsRunner` | `run_fibonacci.cpp` and `run_addu.cpp` over `MipsExec`, with the compiled functions of `f_fibonacci-mips.diss` and `f_addu-mips.diss`, instruction by instruction |
| `Mips*Proofs` | the theorems |
| `MC*` | constants for TLC |

Definitions keep the code's names: `cpu_execute_rt`, `r_shift`, `mult_div`,
`mips_cpu_jump` are the functions of `mips_cpu.cpp`, and `PROJECT.json` maps
each definition to its lines.

**State.** `MipsCpu` has the CPU (`state`, a record with the fields of
`struct mips_cpu_impl`), the RAM's bytes (`data`), the client's handle, the last
call and its result (`call`, `err`) and whether the simulator still runs
(`process`). `taken` is a history variable that no action reads: where the last
successful step jumped, or `None`. It is what the abstract specification calls
`pending`.

The other modules keep the state of their part and nothing else: `MipsRam` the
blocks on the heap and the client's handles; `MipsTest` `sg_started`, `sg_tests`
and the last report; `MipsTestDriver` those, a CPU, a RAM, the loop counter of
`main`, the calls a test function still has to make and a history of the rows
run; `MipsRunner` a CPU, a RAM, the words loaded so far and, as a history, the
calls of `f_fibonacci` that have not returned; `MipsDebug` adds the last two
fields of `struct mips_cpu_impl`, the open streams, and as histories the stream
the client last asked for and the streams the last call wrote to.

**Actions.** `mips_cpu_create`, `mips_cpu_free`, `mips_cpu_reset`,
`mips_cpu_set_register`, `mips_cpu_set_pc` and `client_mem_write` are the calls
of those names (the last is `mips_mem_write` by the client). `mips_cpu_step` is
a call with a NULL handle, a step that returns (`StepReturns`) or one that takes
the process down (`StepKills`). The handlers are operators and not actions: a
step runs to its end without anyone observing its middle. A handler that fails
returns the state as far as it had changed it, so that the error contract is a
property of the model and not built into it.

In `MipsTestDriver` an action is a stretch of `main` between two calls of the
framework, and `Call` is one such call, so that the framework may end the process
at any of them. Only `run_spec` knows a fault: comparison number `wrong` of the
row fails whatever the machine did. Those are the CPUs that the test program is
there to find, and the driver has to survive them. In `MipsRunner` an action is
one word loaded or one step.

**Abstractions.**

- *Decoding.* `Decode` is a constant: some function from words to the fields of
  `cpu_decode_instr`, each within its width. Nothing else of the encoding is
  used, so TLC takes listings of a few instructions and the proofs cover every
  encoding.
- *Width.* A byte has `ByteBits` bits, 8 in the code; halves and words are two
  and four bytes, and the J region a 16th of the address space, as in the code.
- *Failed processes.* `Killed` stands for what ends the simulator inside a step:
  SIGFPE, or the exception of `opcode_to_str.at` that no client catches.
- *Undefined behaviour.* The code shifts by a whole register (`<< src1_val`).
  The build is for x86 (`mips_mem.h`, line 132; the makefile names no target of
  its own), where the shift uses the amount modulo the width, and where the one
  quotient that does not fit traps.
  Two variables of `set_debug_level` may be used uninitialised: the file name,
  which is only printed, so reading it either works or ends the program
  (`NameKills`), and the stream, which may be NULL or anything (`Wild`).
- *Rows.* The fields of a row of `mips_test_spec.csv` are values. `Encode` and
  `Decode` are inverse listings in the runs that have no use for bits;
  `MipsInstr` justifies it.
- *Output.* `MipsDebug` has which call writes to which stream. All lines of a call
  go to the same stream under the same test of `debugLevel`; what they say is left
  out. The other modules have no output but the framework's statistics.
- *The driver's options* are in `MipsDebug`; `MipsTestDriver` runs without.

## Runs

In the runs of the CPU and the RAM bytes have 2 bits, so words have 8: all 256
words exist, the signs, carries and wrap-arounds of a 32-bit word each have a
counterpart, and a J region is 16 bytes, which a short program crosses. The
driver's runs have 12-bit words, so that a listing of all its instructions fits
in a word's values and its RAM of 64 bytes in a J region, as the 512000 bytes of
the code do; the runner's have 16 bits, so that the 104 bytes of `f_fibonacci`
lie within the reach of an 8-bit offset, and a stack beside them. `instr` has
all 32 bits.

| run | instance | what it shows |
|---|---|---|
| `cpu_contract` | RAM of two words, one of 158 instructions and a word of data: every function code, every opcode from 4 up, all RT codes and jumps, reserved fields and register 0 as destination; any order of client calls, three register values, an unaligned pc, register 32, a write to the data, NULL handles; in every state each property of a load or store tries every address, including both ends of the RAM and of the address space | `TypeOK`, `RegZero`; a failed step changes nothing and repeats its error; no step has more than one result; LWL/LWR pairs in either order, stores read back by loads, signed loads |
| `cpu_branches` | all programs of three out of twelve instructions at the addresses 8 to 16, the boundary of a J region, in a RAM of 28 bytes; pc and $1 set by the client in between | jumps in delay slots, failures in delay slots, links, negative and wrapping targets, unaligned JR targets: nPC is right, no jump stays half taken, only JR and JALR misalign, and all of it implements `DelayedBranch`, where every successful step goes where the one before decided |
| `alu` | all 65,536 pairs of words, every arithmetic and logic instruction | results equal the integers'; DIV kills the simulator for the quotient that is too large and no other |
| `alu_sub` | the same | SUB traps wrongly for the least subtrahend (finding) |
| `cpu_killed` | a program of one undefined opcode, and one of one DIV | the opcode's lookup throws, so `mips_ExceptionInvalidInstruction` is never returned, and INT_MIN / -1 raises a signal: both end the simulator (findings) |
| `ram` | four blocks, devices of 0, 4 and too many bytes, every transaction length from 0 to 4 at both ends of the device and of the address space; symmetric blocks | typing, `NoLeak`; the devices implement `ByteStore` |
| `instr` | every mnemonic, registers at and beyond the ends of their range, immediates at the edges of 16 and 32 bits | fields arrive, signs survive, the opcode has the lowest address |
| `test_framework` | lists of up to four tests (`MaxTests`), two spellings of one instruction, any id | one open test, verdicts stand; the framework implements `TestLedger` |
| `driver` | (`MCDriver`, where TLC also evaluates the two hypotheses of the proofs about the driver, the second for every row by itself) files of any two rows in either order, headers and STOP, for a CPU that is right but perhaps for HI or LO; files of one row (all kinds but MULT/DIV) for a CPU that is wrong in any one comparison | the framework never ends the driver; a row's test passes exactly if the row asks for the right thing of a right CPU and, after a branch not taken, the third step does not run into something that fails (three of the rows leave a store that works, one that fails and an undefined word in that place); a sound specification gets a report without a failure; the program ends |
| `driver_rows` | a row of unknown type before another; a MULT row for a CPU that is wrong in its first comparison; with and without a RAM | the first is not skipped, and the test of the second is ended twice (findings) |
| `runner` | (`MCRunner`, where TLC also evaluates the hypothesis of the proofs about the runners) `f_fibonacci` for n up to 6, which just fits the RAM with its six frames, and `f_addu`, instruction by instruction; an empty and an overlong binary, no file, no RAM | every call, the recursive ones included, returns its Fibonacci number and the caller's registers; the program text survives; the runners end, and end well |
| `debug` | three programs of two instructions, among them a jump and instructions that fail or are not implemented; levels 0 to 2, one file, every kind of argv | no call writes to a stream that is closed, uninitialised or not the one the client asked for last |

Why the bounds are enough: a handler reads at most two registers, the pc pair
and one word of memory, so one instruction with all operand values (`alu`) or
all addresses (`cpu_contract`) meets its corners; the interplay of jumps reaches
over three instructions (a jump, its delay slot, the target), and
`cpu_branches` has every combination of three. The proofs below do not depend
on any of these bounds, but for the hypotheses named with them.

For the driver, two rows make every pair of a row that leaves something behind
and a row that meets it (a branch not taken and an instruction that lies two words
after it, say); the only state that outlives a row is the RAM, because
each row begins with a reset. The framework looks at the last test only, so lists
of four have a first, a last and some between. The two devices of `ram` are what
it takes to share or to mix up blocks.

Deadlock is not checked where the system may stop: a killed simulator or an
exited client makes no further call, the programs end, and in `alu` and `instr`
a behaviour is one instruction. It is checked in `ram`.

**Fairness.** A client of the CPU, the RAM or the framework that stops calling
is a legal client, so their specifications assume none and their properties are
safety. The test program and the runners are programs that run by themselves:
one sequential process that waits for nobody. For them `WF_vars(Next)` is what
the operating system gives any runnable process, and `SuiteEnds` and
`RunnerEnds` need no more. Neither asks a particular alternative to be taken:
the outcomes of opening a file stay free.

Every property is known to be able to fail: `PROJECT.json` gives, for each, a
change of the code that breaks it, such as forgetting nPC in `set_pc`, an
address of LWL that is not rounded down, or incrementing the pc after an error.
The changed operators stand in the modules beside the right ones, as `..._What`.

**Known deviations.** The findings in `PROJECT.json` are `SUB`'s trap, the two
instructions that end the simulator, and the two rows that end the driver. The
models have smaller ones as the code has them, and no property forbids them: when MFLO disagrees, the test of MFHI is recorded as failed under the
message "Passing MFHI" (`test_mips.cpp:985`, the variable is shared by the tests
of a row); a reset at level 2 says "new state below" and shows nPC, jPC and
delay_slot as they were before (`mips_cpu.cpp:105`; the text of reports is not
modelled); with `-d` but without `-f` the driver prints a file name that was never
assigned (`test_mips.cpp:363`, `NameKills`); a store row whose memloc cannot be
read compares a variable that was never assigned (`test_mips.cpp:815`,
`ReadsBack`); and the third step after a branch that is not taken runs whatever
lies at `loc + 8` (`test_mips.cpp:727`): an instruction left there by an earlier
row that fails makes the test fail on a right CPU, and a word that is no
instruction ends the test program. `VerdictsAreRight` says exactly that
(`Deserves`). In the shipped specification all branches not taken lie at 0xc,
and no row writes to 0x14 before them: there the step runs what malloc has left.

## Proofs

The proofs about the CPU hold for every width `ByteBits`, size of the RAM,
encoding, client and initial content of the RAM. They assume of the constants

- that a byte has at least two bits, and that the powers of two up to a word's
  are what their recursion says;
- that each bit of `&`, `|` and `^` of two bytes is that of the two bits;
- that the RAM has at most an eighth of the address space
  (`mips_mem_create_ram` refuses more);
- that decoded fields have their widths, and that the client's constants are
  typed.

TLC evaluates them in every run that gives these constants a value.

- **`MipsExecProofs`** begins with the words: each operation yields a value of
  its width, and the arithmetic of powers of two, quotients and remainders, bytes
  and bits that the others use. Where it needs induction over numbers the proofs go through sets:
  `SetInduction` says that a set which holds 0 and with each number the next has
  all of `0..n`, and a lemma applies it to the set of numbers for which it holds.
  Then the instructions: `ExecuteGood`, by a lemma for each handler. Whatever an
  instruction does, it leaves a well-typed state, the same pc, nPC, memory and
  register 0; it sets delay_slot only together with jPC; and *if it returns an
  error, it has changed nothing*. `RamCheckExact` answers the comment "A subtle
  bug here, maybe?" of `mips_mem_ram.cpp`: a transaction is accepted exactly if
  it is aligned and within the RAM, also where address + length wraps.
- **`MipsCpuProofs`**, the API. The inductive invariant is

      IInv == TypeOK /\ RegZero /\ NoPendingJump /\ NextPc /\ ErrorStands

  `RegZero` alone needs nothing but `ExecuteGood` and types. `NextPc` (nPC is
  the pending jump, or pc + 4) needs `NoPendingJump`, because increment_pc takes
  the other branch when a flag is left over. `ErrorStands` is the strengthening
  that makes `FailureRepeats` inductive: after a failed step the state is still
  one in which executing gives that very error. Its consequence is the
  assertion written in `mips_cpu.h`. `DelayedBranchCorrect` maps pc to
  `state.pc`, pending to `taken` and last to what the call was (`Last`). A
  successful step is `Sequential` or `Branch`, which take the pc to the pending
  target if there is one and to the next address if not: this needs `NextPc`. Only
  reset, create, free and set_pc are `Seek`; everything else, a failed step among
  it, is `Still`. So a jump can neither be lost in its delay slot nor taken twice.

  `OneResultCorrect` goes through the handlers once more: each result of
  `Execute` differs from its state in at most one register, or in HI/LO, or in
  the bytes of the RAM. `OnlyRegisterJumpsMisalignCorrect` is about multiples of
  four under wrap-around: a word's size and a J region are multiples of four, so
  a target computed from an aligned pc stays aligned.

  The load and store properties (`UnalignedPairCorrect`,
  `StoreThenLoadCorrect`, `SignedLoadsCorrect`) hold in every well-typed state
  at every address. A store and the load after it ask the RAM the same question
  and get the same answer, and the bytes of a word, joined again, are the word;
  LWL and LWR are a case for each of the four offsets.

  Diagnostics: `MipsDebug` is the same machine with a level and streams, and its
  inductive invariant adds to `IInv` which streams are open and which one the
  CPU has while the level is not 0; from it `ReportsReachTheClientCorrect`.
- **`MipsAluProofs`**: every property of the run `alu`, for every pair of words
  of every width. `OverflowExact`: three sign bits decide exactly whether a sum
  fits; from it `AddCorrect`, and `SubCorrect` for every subtrahend that has a
  negation, which is what the finding is about. `ProductCorrect` and
  `DivisionCorrect` relate HI and LO to integers, with the truncation towards
  zero that C has and TLA+ has not, and say which quotient kills the simulator; `ShiftCorrect` is about powers of two;
  `BitwiseCorrect` says of each bit of a word that the work byte by byte puts it
  where it belongs.
- **`MipsInstrProofs`**, for every row of the driver, whatever its parameters:
  `FieldWidths`, `RoundTrip` (what is decoded is what was encoded),
  `ImmediateSign` and `OpcodeFirst`. A word is a set of bit numbers, `|` a
  union, `&` with a mask an intersection, a shift an addition to every member;
  the two byte swaps and the host's byte order cancel (a permutation of 0..31
  applied twice), and a field is found again because the ranges that the shifts
  move into are disjoint. The invariants are inductive once they say what memory
  holds while the row is written and not yet decoded.
- **`MipsRamProofs`**, for any set of blocks and any sizes, contents and
  transactions. The inductive invariant is

      IInv == TypeOK /\ NoLeak /\ Separate

  `Separate` (no two devices have the same array, and no array is the block of a
  device) is the strengthening: without it freeing or writing one device could
  change another, and neither `NoLeak` nor the refinement would be inductive.
  `RamImplementsByteStore` maps each handle to its bytes. An accepted
  transaction lies within the device as integers because the device is at most
  an eighth of the address space, so that an address that wraps is refused.
- **`MipsTestProofs`**, for any names, messages and length of the list. The
  inductive invariant is `TypeOK /\ OneTestOpen`; `VerdictsNeverChange` follows
  because a step changes at most the last entry, and that only while it is
  unfinished. `ImplementsLedger` maps the list to the open test and a count: a
  test that closes adds one element to one finite set of `statistics`, by a
  lemma on cardinalities, and the report, computed over all tests, is that count
  because `end_suite` insists that none is open.
- **`MipsTestDriverProofs`**, for any files, faults, encoding and widths:
  `ProtocolKept` says that the framework never ends the driver, and
  `DriverIsAClient` that driver and framework together implement the arbitrary
  client of `MipsTest`. `DriverKeepsLedger` draws the conclusion: with an
  instance of `MipsTestProofs` the theorems about the framework (one open test,
  verdicts that stand, the ledger) are theorems about the test program. The
  inductive invariant `DriverInv` says of the calls a test function has still to
  make that they alternate between ending and beginning a test, and start with
  the one that fits whether a test is open (`Alternate`); that the ids they name
  are those of the tests; and that the machine is typed. A lemma for each test
  function shows that its calls are such a list.

  All three have the hypothesis `FilesAreSafe`: a row has the columns of its kind,
  `run_spec` knows its type, and a MULT or DIV row that is meant to succeed
  holds such an instruction, on a CPU with a RAM that gets its first step right.
  The last two are exactly what the two findings about the driver violate:
  without them `KeepsProtocol` is false. TLC evaluates the hypothesis for the
  files of the run `driver`; it is false for those of `driver_rows`.

  `VerdictsStandAlone` and `ReportIsClean` prove `VerdictsAreRight` and
  `CleanReport` for files of any length, with rows in any order and repeated.
  `run_spec` resets the CPU before a row but nothing clears the RAM, so what has
  to be shown is how far rows *interfere* with another. Two machines `Agree` on a
  set of addresses if they differ at most in bytes outside of it. An instruction
  executed by machines that agree on the bytes it fetches and loads gives the
  same registers and error, and they agree as before (`ExecuteAgree`,
  `StepAgree`); what both write they agree on from then on (`PerformAgree`). So
  the run of a row after others agrees, operation by operation, with its run on
  a RAM as malloc left it, on all bytes it has written itself (`Known`,
  `RunAgree`). The last step after a branch that is not taken is the exception: it
  may fetch anything. It either succeeds, and then leaves the pc where the row
  wants it, or the test fails (`StepMoves`, `NotTakenJudged`). A lemma for each
  test function says that agreeing runs make the same calls of the framework
  (`BranchAgree`, `MultDivAgree`, ...). The invariant `JudgeInv` then needs to say
  that before the first row the machine is as it was made (`MachineAsMade`), and for every row that has run that its test has the verdict of the row alone,
  corrected by that step, or gets it by the next call (`RowsJudged`), while the
  tests before the last are closed (`EarlierClosed`); for the report, that rows
  which deserve to pass have no failing call among those still to be made
  (`NothingFails`).

  They need `FilesAreSafe` and `RowsStandAlone`: each row, in a file of its own,
  is judged rightly and, but for that last step, reads only bytes it has written;
  the internal tests leave the RAM as they found it and pass. It is a statement
  about single rows. TLC evaluates it in the run `driver` for every row, RAM and
  fault; what one row does to the next is the proof's part. It does rule out rows:
  one that would load a byte that only an earlier row has written does not stand
  alone. (The load and store rows of the shipped specification write what they
  load and clear what they read back.)

- **`MipsRunnerProofs`** proves a compiled program correct down to the simulator
  that executes it: `FibonacciCorrect` says that every call of `f_fibonacci`,
  the recursive ones included, returns the Fibonacci number of its argument (as
  far as a word goes) and gives registers 16 to 18 and the stack pointer back;
  `ProgramStands` that the stack never reaches the program; `RunnersEndWell` that
  nothing is left of the recursion at the end, that `run_addu` finds both sums
  for all operands, and that the simulator survives. They hold for every n, width,
  RAM, stack and encoding that the hypothesis `MadeForIt` admits: the files are
  the repository's binaries, empty over a RAM of zeros, or longer than the RAM;
  the stack is aligned, lies in the RAM and has room for n frames of 32 bytes above
  the program; the sentinel lies beyond the RAM; a byte has four bits or more, so
  that the offsets of the program fit in half a word. Each part is
  needed: with a RAM one word smaller the last frame overwrites the program.

  The inductive invariant `RunnerInv` has, for the call in progress, an assertion
  for each of the 26 addresses of the program about registers, nPC and the part of
  the frame that is already written (`Assertion`, from `Entering` to `Leaving`),
  and for the calls that wait for it (`Stacked`) what they find when it returns:
  their registers of the moment (`WaitsFor`), the caller's in the frame
  (`Spilled`), and the invariant of the loop (`Lacks`: the sum so far lacks the
  Fibonacci numbers still to be called for, up to the parity that `andi` adds).
  One lemma for each kind of instruction computes its step from `Execute`
  (`AdduSteps`, `LwSteps`, ...), and a step of the program then either continues
  the call, begins one or ends one. That the recursion of `Fibonacci` defines a
  function is itself proved with `SetInduction`.

Only model-checked:

- that each row *by itself* is judged rightly: what a row asks for is written into
  the rows of a file (`sound`), so this part of `RowsStandAlone` is evaluated for
  the rows of the runs. From there on `VerdictsAreRight` and `CleanReport` are
  proved.
- `SuiteEnds`, `RunnerEnds`: liveness under fairness is out of the prover's
  reach.
- The violations: a counterexample needs no proof.

## Not modelled

- `mips_cpu_get_register`, `mips_cpu_get_pc`: they only read.
- The text of messages, and the warning for an unknown instruction name.
- Parsing numbers and lines of the .csv: a row has the fields its kind has. The
  shipped file has no line without a first field, which `run_spec` would read
  out of bounds.
- A failing `new` in `mips_cpu_create`, which throws and ends the program.
- Using a handle after it was freed: the headers call it undefined, and the
  clients of the models do not.

## Plan

Everything planned is modelled, and each safety property that a run checks is
proved. What is left to TLC is liveness, and what a single row of a file asks
for.
