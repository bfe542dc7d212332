---------------------------- MODULE MCTestDriver ----------------------------
(* Rows of every kind in mips_test_spec.csv, scaled to words of 12 bits and a *)
(* RAM of 64 bytes (less than a J region, like the 512000 bytes of the code)  *)
(* with the data of loads and stores around address 32.                       *)
EXTENDS MipsTestDriver, TLC

LOCAL INSTANCE Bitwise

MCByteBits == 3
MCBitAnd(x, y) == x & y
MCBitOr(x, y) == x | y
MCBitXor(x, y) == x ^^ y
MCCbMem == 64

IIns(opcode, s, t, imm) ==
  [opcode |-> opcode, s |-> s, t |-> t, d |-> 0, sh |-> 0, fn |-> 0, i |-> imm, j |-> 0]
JIns(opcode, j) ==
  [opcode |-> opcode, s |-> 0, t |-> 0, d |-> 0, sh |-> 0, fn |-> 0, i |-> 0, j |-> j]
Shifted(ins, sh) == [ins EXCEPT !.sh = sh]

(* Rows by kind, with the columns that mips_test_spec.csv has for it.         *)
Row(type, func, ins) == [kind |-> "row", type |-> type, func |-> func, ins |-> ins, sound |-> TRUE]
RNorm(func, ins, s_val, t_val, ans, exp_err) ==
  Row("Normal", func, ins) @@
    [format |-> "R", s_val |-> s_val, t_val |-> t_val, ans |-> ans, exp_err |-> exp_err]
INorm(func, ins, s_val, ans, exp_err) ==
  Row("Normal", func, ins) @@
    [format |-> "I", s_val |-> s_val, ans |-> ans, exp_err |-> exp_err]
BranchRow(func, ins, format, s_val, t_val, link, loc, branch, exp_err1, exp_err3) ==
  Row("Branch", func, ins) @@
    [format |-> format, s_val |-> s_val, t_val |-> t_val, link |-> link, loc |-> loc,
     branch |-> branch, exp_err1 |-> exp_err1, exp_err3 |-> exp_err3]
RBranch(func, ins, s_val, link, exp_err1, exp_err3) ==
  BranchRow(func, ins, "R", s_val, 0, link, 0, TRUE, exp_err1, exp_err3)
JBranch(func, j, link, loc, exp_err3) ==
  BranchRow(func, JIns(IF link THEN 3 ELSE 2, j), "J", 0, 0, link, loc, TRUE, Success, exp_err3)
IBranch(func, opcode, imm, s_val, t_val, loc, branch, exp_err3) ==
  BranchRow(func, IIns(opcode, 2, 3, imm), "I", s_val, t_val, FALSE, loc, branch, Success, exp_err3)
RTBranch(func, t, imm, s_val, loc, branch, exp_err3) ==
  BranchRow(func, IIns(1, 2, t, imm), "RT", s_val, 0, t >= 16, loc, branch, Success, exp_err3)
MemRead(func, opcode, t, imm, s_val, t_val, bytes, memloc, ans, exp_err) ==
  Row("MemRead", func, IIns(opcode, 1, t, imm)) @@
    [s_val |-> s_val, t_val |-> t_val, bytes |-> bytes, memloc |-> memloc, ans |-> ans,
     exp_err |-> exp_err]
MemWrite(func, opcode, imm, s_val, memloc, ans, exp_err) ==
  Row("MemWrite", func, IIns(opcode, 1, 2, imm)) @@
    [s_val |-> s_val, t_val |-> 668, memloc |-> memloc, ans |-> ans, exp_err |-> exp_err]
MtMf(func, ins, ans, exp_err) ==
  Row("MTMF", func, ins) @@ [ans |-> ans, exp_err |-> exp_err]
MultDiv(func, ins, s_val, t_val, hi, lo, exp_err) ==
  Row("MultDiv", func, ins) @@
    [s_val |-> s_val, t_val |-> t_val, hi |-> hi, lo |-> lo, exp_err |-> exp_err]

MaxWord == 4095
OK == Success

NormRows ==
  {RNorm("ADD", RIns(\h20, 1, 2, 3), 3, 7, 10, OK),
   RNorm("ADD", RIns(\h20, 1, 2, 3), 2047, 255, 0, ArithmeticOverflow),
   RNorm("ADD", RIns(\h20, 1, 2, 0), 7, 3, 0, OK),
   RNorm("ADD", Shifted(RIns(\h20, 1, 2, 3), 3), 3, 7, 0, InvalidInstruction),
   RNorm("SUBU", RIns(\h23, 1, 2, 1), 3, 7, MaxWord - 3, OK),
   RNorm("SLT", RIns(\h2a, 1, 2, 1), 3, 7, 1, OK),
   RNorm("SRA", Shifted(RIns(\h3, 0, 2, 3), 4), 0, 2048, 3968, OK),
   INorm("ADDI", IIns(\h8, 1, 2, 7), 3, 10, OK),
   INorm("ADDI", IIns(\h8, 1, 2, 31), 2047, 0, ArithmeticOverflow),
   INorm("SLTIU", IIns(\hb, 1, 2, 2), 1, 1, OK),
   INorm("LUI", IIns(\hf, 0, 2, 29), 99, 1856, OK),
   [RNorm("ADD", RIns(\h20, 1, 2, 3), 3, 7, 11, OK) EXCEPT !.sound = FALSE],
   [RNorm("ADD", RIns(\h20, 1, 2, 3), 3, 7, 10, ArithmeticOverflow) EXCEPT !.sound = FALSE]}

BranchRows ==
  {RBranch("JR", RIns(\h8, 2, 0, 0), 12, FALSE, OK, OK),
   RBranch("JR", RIns(\h8, 2, 0, 0), 15, FALSE, OK, InvalidAlignment),
   RBranch("JALR", RIns(\h9, 2, 0, 30), 12, TRUE, OK, OK),
   RBranch("JALR", RIns(\h9, 2, 2, 0), 12, TRUE, InvalidInstruction, OK),
   JBranch("J", 3, FALSE, 0, OK), JBranch("JAL", 3, TRUE, 0, OK),
   JBranch("J", 20, FALSE, 0, InvalidAddress), JBranch("JAL", 0, TRUE, 48, OK),
   IBranch("BEQ", 4, 3, 5, 5, 12, TRUE, OK), IBranch("BEQ", 4, 3, 4, 5, 12, FALSE, OK),
   IBranch("BEQ", 4, 62, 5, 5, 0, TRUE, InvalidAddress),
   RTBranch("BLTZAL", 16, 3, MaxWord, 12, TRUE, OK),
   RTBranch("BLTZAL", 16, 3, 2047, 12, FALSE, OK),
   RTBranch("BGEZAL", 17, 62, 1, 0, TRUE, InvalidAddress),
   RTBranch("BLTZ", 0, 3, MaxWord, 12, TRUE, OK),
   [IBranch("BEQ", 4, 10, 5, 5, 12, FALSE, OK) EXCEPT !.sound = FALSE],
   [BranchRow("JR", RIns(\h8, 2, 0, 0), "strange", 12, 0, FALSE, 0, TRUE, OK, OK)
      EXCEPT !.sound = FALSE]}

(* 668 is the word of the octal digits 1 2 3 4, 2497 of 4 7 0 1.  The word    *)
(* that UnreadRow asks for cannot be read.                                    *)
UnreadRow == MemWrite("SB", \h28, 12, 32, 45, 2048, OK)
MemRows ==
  {MemRead("LW", \h23, 2, 12, 32, 1, 668, 44, 668, OK),
   MemRead("LW", \h23, 2, 1, 32, 1, 668, 33, 0, InvalidAlignment),
   MemRead("LW", \h23, 0, 12, 32, 1, 668, 44, 0, OK),
   MemRead("LW", \h23, 2, 56, 32, 1, 668, 24, 668, OK),
   MemRead("LW", \h23, 2, 56, 0, 1, 0, 32, 0, InvalidAddress),
   MemRead("LH", \h21, 2, 12, 32, 1, 2497, 44, 4071, OK),
   MemRead("LBU", \h24, 2, 3, 32, 1, 668, 32, 4, OK),
   MemRead("LWL", \h22, 2, 1, 32, 668, 2497, 32, 3596, OK),
   MemRead("LWR", \h26, 2, 2, 32, 668, 2497, 32, 824, OK),
   [MemRead("LBU", \h24, 2, 3, 32, 1, 668, 32, 5, OK) EXCEPT !.sound = FALSE],
   MemWrite("SB", \h28, 12, 32, 44, 2048, OK), MemWrite("SB", \h28, 15, 32, 44, 4, OK),
   MemWrite("SB", \h28, 56, 0, 0, 0, InvalidAddress),
   MemWrite("SH", \h29, 2, 32, 32, 28, OK),
   MemWrite("SH", \h29, 15, 32, 44, 0, InvalidAlignment),
   MemWrite("SW", \h2b, 12, 32, 44, 668, OK), UnreadRow,
   [MemWrite("SW", \h2b, 12, 32, 44, 669, OK) EXCEPT !.sound = FALSE]}

MultDivRows ==
  {MultDiv("MULT", RIns(\h18, 1, 2, 0), 3, 5, 0, 15, OK),
   MultDiv("MULT", RIns(\h18, 1, 2, 0), MaxWord - 2, 5, MaxWord, MaxWord - 14, OK),
   MultDiv("MULT", RIns(\h18, 1, 2, 5), 63, 127, 0, 0, InvalidInstruction),
   MultDiv("MULTU", RIns(\h19, 1, 2, 0), 63, 127, 1, 3905, OK),
   MultDiv("DIV", RIns(\h1a, 1, 2, 0), MaxWord - 14, 4, MaxWord - 2, MaxWord - 2, OK),
   MultDiv("DIV", RIns(\h1a, 1, 2, 0), 15, 0, 0, 0, OK),
   [MultDiv("DIVU", RIns(\h1b, 1, 2, 0), 15, 4, 3, 4, OK) EXCEPT !.sound = FALSE]}
MtMfRows ==
  {MtMf("MTHI", RIns(\h11, 1, 0, 0), 4, OK), MtMf("MTLO", RIns(\h13, 1, 0, 0), 4, OK),
   MtMf("MTLO", RIns(\h13, 0, 0, 1), 0, InvalidInstruction)}

(* The quotient that does not fit, and a row of no type.                      *)
KillingRow == MultDiv("DIV", RIns(\h1a, 1, 2, 0), 2048, MaxWord, 0, 2048, OK)
UnknownRow == [Row("unknown", "ADD", RIns(\h20, 1, 2, 3)) EXCEPT !.sound = FALSE]

(* A word stands for an instruction by its place in a listing; 0 is NOP.      *)
Listing ==
  << RIns(0, 0, 0, 0), Addu(4, 5, 6), Addu(16, 17, 18), MoveFrom(\h10, 16),
     MoveFrom(\h12, 16), MoveFrom(\h12, 17),
     RIns(\h20, 1, 2, 3), RIns(\h20, 1, 2, 0), Shifted(RIns(\h20, 1, 2, 3), 3),
     RIns(\h23, 1, 2, 1), RIns(\h2a, 1, 2, 1), Shifted(RIns(\h3, 0, 2, 3), 4),
     IIns(\h8, 1, 2, 7), IIns(\h8, 1, 2, 31), IIns(\hb, 1, 2, 2), IIns(\hf, 0, 2, 29),
     RIns(\h8, 2, 0, 0), RIns(\h9, 2, 0, 30), RIns(\h9, 2, 2, 0), JIns(2, 3), JIns(3, 3),
     JIns(2, 20), JIns(3, 0), IIns(4, 2, 3, 3), IIns(4, 2, 3, 62), IIns(1, 2, 16, 3),
     IIns(1, 2, 17, 62), IIns(1, 2, 0, 3),
     IIns(\h23, 1, 2, 12), IIns(\h23, 1, 2, 1), IIns(\h23, 1, 0, 12), IIns(\h23, 1, 2, 56),
     IIns(\h21, 1, 2, 12), IIns(\h24, 1, 2, 3), IIns(\h22, 1, 2, 1), IIns(\h26, 1, 2, 2),
     IIns(\h28, 1, 2, 12), IIns(\h28, 1, 2, 15), IIns(\h28, 1, 2, 56),
     IIns(\h29, 1, 2, 2), IIns(\h29, 1, 2, 15), IIns(\h2b, 1, 2, 12),
     RIns(\h18, 1, 2, 0), RIns(\h18, 1, 2, 5), RIns(\h19, 1, 2, 0), RIns(\h1a, 1, 2, 0),
     RIns(\h1b, 1, 2, 0), RIns(\h11, 1, 0, 0), RIns(\h13, 1, 0, 0), RIns(\h13, 0, 0, 1),
     IIns(4, 2, 3, 10) >>
Place(listing, ins) == CHOOSE n \in DOMAIN listing : listing[n] = ins
MCEncode(ins) == (CHOOSE n \in {Place(listing, ins) : listing \in {Listing}} : TRUE) - 1
MCDecode(w) == IF w < 51 THEN Listing[w + 1] ELSE IIns(\h3f, 0, 0, 0)

(* Loads at 20, where the branches at 12 that are not taken go on: they leave *)
(* there a store that works, one that fails, and a word with no instruction.  *)
LeavesAt20(word) == MemRead("LW", \h23, 2, 12, 8, 1, word, 20, word, OK)
LeavingRows ==
  {LeavesAt20(MCEncode(ins)) : ins \in {IIns(\h2b, 1, 2, 12), IIns(\h29, 1, 2, 15)}}
    \cup {LeavesAt20(668)}

KnownRows ==
  NormRows \cup BranchRows \cup MemRows \cup LeavingRows \cup MultDivRows \cup MtMfRows
Rows == KnownRows \cup {KillingRow, UnknownRow}
Header == [kind |-> "header"]
Stop == [kind |-> "STOP"]

MCNames ==
  {"ADD", "SUBU", "SLT", "SRA", "ADDI", "SLTIU", "LUI", "JR", "JALR", "J", "JAL", "BEQ",
   "BLTZAL", "BGEZAL", "BLTZ", "LW", "LH", "LBU", "LWL", "LWR", "SB", "SH", "SW", "MULT",
   "MULTU", "DIV", "DIVU", "MTHI", "MTLO", "MFHI", "MFLO", "<internal>"}
MCUpper == [n \in MCNames |-> IF n = "<internal>" THEN "<INTERNAL>" ELSE n]
MCMessages == {"internal", "row", "failing", "passing"}
MCMaxTests == 20
MCFreshRam == [a \in 0 .. MCCbMem - 1 |-> 0]

(* Files of any two rows, and of one between headers and a STOP, for this CPU *)
(* but for a look at HI or LO that may go wrong; and files of one row for any *)
(* CPU: a wrong observation in any comparison that the row makes.  MULT and   *)
(* DIV rows are left to FirstStepWrong, and so is a CPU without a RAM.        *)
GoodRam == {"ram"}
AnyCpu(row) == row @@ [anyCpu |-> TRUE]
SomeFiles ==
  {<< r1, r2 >> : r1, r2 \in KnownRows}
    \cup {<< r, KillingRow >> : r \in MtMfRows}
    \cup {<< Header, r, Header, Stop, r >> : r \in MultDivRows}
    \cup {<< Header, AnyCpu(r) >> : r \in KnownRows \ MultDivRows}
SomeFaults(row) ==
  CASE row.type = "MultDiv" -> IF row.exp_err = OK THEN {0, 2, 3} ELSE {0}
    [] row = UnreadRow -> {0, 2}
    [] row # UnreadRow /\ "anyCpu" \notin DOMAIN row -> {0}
    [] row.type \in {"Normal", "MemRead"} -> {0, 1}
    [] row.type \in {"MemWrite", "MTMF"} -> IF row.exp_err = OK THEN {0, 1, 2} ELSE {0, 1}
    [] row.type = "Branch" -> IF row.exp_err1 = OK THEN {0, 1, 2, 3} ELSE {0, 1}

(* A row of an unknown type before another row, and a MULT whose first step   *)
(* the CPU under test gets wrong.                                             *)
AnyRam == {NULL, "ram"}
FirstStepWrong(row) == IF row.type = "MultDiv" THEN {0, 1} ELSE {0}
OddFiles ==
  {<< UnknownRow, r >> : r \in MtMfRows}
    \cup {<< MultDiv("MULT", RIns(\h18, 1, 2, 0), 3, 5, 0, 15, OK) >>}
=============================================================================
