------------------------------ MODULE MipsExec ------------------------------
(* What one instruction does: the functions mips_cpu_step calls, each as an   *)
(* operator from the CPU's state (struct mips_cpu_impl) to the state it       *)
(* leaves behind and the mips_error it returns.  A function that fails half   *)
(* way returns whatever it had changed by then, as the code would.            *)
EXTENDS MipsMem

CONSTANT Decode(_)                 \* the fields of the instruction a word encodes

Reg == 0 .. 31

(* The outputs of cpu_decode_instr; sh counts bits of a word and j is a word  *)
(* without its opcode, so both scale with the word.                           *)
Instr == [opcode : 0 .. 63, s : Reg, t : Reg, d : Reg, sh : 0 .. WordBits - 1,
          fn : 0 .. 63, i : Half, j : 0 .. WordSize \div 64 - 1]

ASSUME DecodeAssumption == \A w \in Word : Decode(w) \in Instr

(* debugLevel and debugDest only select what is printed.                      *)
mips_cpu_impl ==
  [pc : Word, nPC : Word, jPC : Word, delay_slot : {0, 1},
   regs : [Reg -> Word], hi : Word, lo : Word, mem : Handle]

NotImplemented == "mips_ErrorNotImplemented"
InvalidArgument == "mips_ErrorInvalidArgument"
InvalidInstruction == "mips_ExceptionInvalidInstruction"
ArithmeticOverflow == "mips_ExceptionArithmeticOverflow"

(* Not a mips_error: the call never returns, the simulator is gone.           *)
Killed == "killed"

mips_error ==
  {Success, InvalidHandle, InvalidLength, InvalidAlignment, InvalidAddress,
   NotImplemented, InvalidArgument, InvalidInstruction, ArithmeticOverflow}

(* A CPU as mips_cpu_create makes it and mips_cpu_reset makes it again.        *)
Created(mem) ==
  [pc |-> 0, nPC |-> 4, jPC |-> 0, delay_slot |-> 0,
   regs |-> [r \in Reg |-> 0], hi |-> 0, lo |-> 0, mem |-> mem]

PlacePc_OnlyPc(st, pc) == [st EXCEPT !.pc = pc]

(* Placing the pc also forgets the target a jump has left in nPC.             *)
PlacePc(st, pc) == [st EXCEPT !.pc = pc, !.nPC = Plus(pc, 4)]

Return(st, err) == [state |-> st, err |-> err]
SetReg(st, r, value) == [st EXCEPT !.regs[r] = value]
----------------------------------------------------------------------------
(* Jumps and branches.                                                        *)

mips_cpu_jump_LinksZero(target, link, st) ==
  [SetReg(st, link, Plus(st.pc, 8)) EXCEPT !.delay_slot = 1, !.jPC = target]
mips_cpu_jump_LinksSlot(target, link, st) ==
  [(IF link = 0 THEN st ELSE SetReg(st, link, Plus(st.pc, 4)))
     EXCEPT !.delay_slot = 1, !.jPC = target]
mips_cpu_jump(target, link, st) ==
  [(IF link = 0 THEN st ELSE SetReg(st, link, Plus(st.pc, 8)))
     EXCEPT !.delay_slot = 1, !.jPC = target]

BranchTarget_NoWrap(i, st) == 4 * SignExtendHalf(i) + st.pc + 4
BranchTarget_InBytes(i, st) == ToWord(SignExtendHalf(i) + st.pc + 4)
BranchTarget(i, st) == ToWord(4 * SignExtendHalf(i) + st.pc + 4)

cpu_execute_rt(src, fn_code, i, st) ==
  LET links == fn_code \in {\h10, \h11}                  \* BLTZAL, BGEZAL
      taken == (fn_code \in {\h0, \h10}) = IsNegative(st.regs[src])
      link == IF links THEN 31 ELSE 0
  IN  CASE fn_code \notin {\h0, \h1, \h10, \h11} -> Return(st, InvalidArgument)
        [] fn_code \in {\h0, \h1, \h10, \h11} /\ taken ->
             Return(mips_cpu_jump(BranchTarget(i, st), link, st), Success)
        [] OTHER ->
             Return(IF links THEN SetReg(st, 31, Plus(st.pc, 8)) ELSE st, Success)

(* A jump keeps the top four bits of nPC.                                     *)
JumpRegion == WordSize \div 16

cpu_execute_j(j, opcode, st) ==
  LET target == (st.nPC \div JumpRegion) * JumpRegion + 4 * j
  IN  Return(mips_cpu_jump(target, IF opcode = \h3 THEN 31 ELSE 0, st), Success)

----------------------------------------------------------------------------
(* R-type instructions.                                                       *)

overflow_PositiveOnly(a, b) == ~IsNegative(a) /\ ~IsNegative(b) /\ IsNegative(Plus(a, b))

(* Carrying into the sign: both operands of one sign, their sum of the other. *)
overflow(a, b) ==
  /\ IsNegative(a) = IsNegative(b)
  /\ IsNegative(Plus(a, b)) # IsNegative(a)

(* The amount of a variable shift is a whole register; the x86 shift that the *)
(* build emits uses it modulo the width, where C leaves the result undefined. *)
VariableAmount(x) == x % WordBits

r_shift(src1, src2, dest, shift_amt, fn_code, st) ==
  LET x == st.regs[src2]
      immediate == fn_code \in {\h0, \h2, \h3}
      variable == fn_code \in {\h4, \h6, \h7}
      amount == IF immediate THEN shift_amt ELSE VariableAmount(st.regs[src1])
  IN  CASE dest = 0 -> Return(st, Success)
        [] dest # 0 /\ (\/ immediate /\ src1 # 0
                        \/ variable /\ shift_amt # 0) ->
             Return(st, InvalidInstruction)
        [] OTHER ->
             Return(SetReg(st, dest,
               CASE fn_code \in {\h0, \h4} -> ShiftLeft(x, amount)
                 [] fn_code \in {\h2, \h6} -> ShiftRight(x, amount)
                 [] fn_code \in {\h3, \h7} -> ShiftRightArithmetic(x, amount)
                 [] OTHER -> st.regs[dest]),
               Success)

move_hilo(fn_code, src1, dest, st) ==
  LET from == fn_code \in {\h10, \h12}                   \* MFHI, MFLO
      value == IF fn_code = \h10 THEN st.hi ELSE st.lo
  IN  CASE (IF from THEN src1 ELSE dest) # 0 -> Return(st, InvalidInstruction)
        [] from /\ src1 = 0 ->
             Return(IF dest = 0 THEN st ELSE SetReg(st, dest, value), Success)
        [] fn_code = \h11 /\ dest = 0 ->
             Return([st EXCEPT !.hi = st.regs[src1]], Success)
        [] fn_code = \h13 /\ dest = 0 ->
             Return([st EXCEPT !.lo = st.regs[src1]], Success)

SetHiLo_Swapped(st, hi, lo) ==
  Return([st EXCEPT !.hi = ToWord(lo), !.lo = ToWord(hi)], Success)
SetHiLo(st, hi, lo) == Return([st EXCEPT !.hi = ToWord(hi), !.lo = ToWord(lo)], Success)

(* An x86 processor traps on the one signed quotient that does not fit.       *)
mult_div(src1, src2, fn_code, st) ==
  LET x == st.regs[src1]
      y == st.regs[src2]
      product == IF fn_code = \h18 THEN Signed(x) * Signed(y) ELSE x * y
  IN  CASE fn_code \in {\h18, \h19} -> SetHiLo(st, product \div WordSize, product)
        [] fn_code \in {\h1a, \h1b} /\ y = 0 -> Return(st, Success)
        [] fn_code = \h1a /\ y # 0 /\ Signed(x) = MinInt /\ Signed(y) = -1 ->
             Return(st, Killed)
        [] fn_code = \h1a /\ y # 0 /\ ~(Signed(x) = MinInt /\ Signed(y) = -1) ->
             SetHiLo(st, Remainder(Signed(x), Signed(y)), Quotient(Signed(x), Signed(y)))
        [] fn_code = \h1b /\ y # 0 -> SetHiLo(st, x % y, x \div y)

add_sub_bitwise(src1, src2, dest, fn_code, st) ==
  LET x == st.regs[src1]
      y == st.regs[src2]
      traps == \/ fn_code = \h20 /\ overflow(x, y)
               \/ fn_code = \h22 /\ overflow(x, Minus(0, y))
  IN  CASE dest = 0 -> Return(st, Success)
        [] dest # 0 /\ traps -> Return(st, ArithmeticOverflow)
        [] OTHER ->
             Return(SetReg(st, dest,
               CASE fn_code \in {\h20, \h21} -> Plus(x, y)
                 [] fn_code \in {\h22, \h23} -> Minus(x, y)
                 [] fn_code = \h24 -> AndWord(x, y)
                 [] fn_code = \h25 -> OrWord(x, y)
                 [] fn_code = \h26 -> XorWord(x, y)
                 [] fn_code = \h27 -> NotWord(OrWord(x, y))),
               Success)

less_than_Unsigned(src1, src2, dest, fn_code, st) ==
  Return(IF dest = 0 THEN st
         ELSE SetReg(st, dest, IF st.regs[src1] < st.regs[src2] THEN 1 ELSE 0), Success)
less_than(src1, src2, dest, fn_code, st) ==
  LET x == st.regs[src1]
      y == st.regs[src2]
      less == IF fn_code = \h2a THEN Signed(x) < Signed(y) ELSE x < y
  IN  Return(IF dest = 0 THEN st ELSE SetReg(st, dest, IF less THEN 1 ELSE 0), Success)

(* A function code has fields it does not use, which must then be zero.       *)
Reserved(ins) ==
  CASE ins.fn = \h8 -> ins.t # 0 \/ ins.d # 0 \/ ins.sh # 0
    [] ins.fn \in {\h9} \cup \h10 .. \h13 -> ins.t # 0 \/ ins.sh # 0
    [] ins.fn \in \h18 .. \h1b -> ins.d # 0 \/ ins.sh # 0
    [] ins.fn \in \h20 .. \h27 \cup \h2a .. \h2b -> ins.sh # 0
    [] OTHER -> ins.fn \notin \h0 .. \h7

cpu_execute_r(ins, st) ==
  CASE Reserved(ins) -> Return(st, InvalidInstruction)
    [] ~Reserved(ins) /\ ins.fn < \h8 ->
         r_shift(ins.s, ins.t, ins.d, ins.sh, ins.fn, st)
    [] ~Reserved(ins) /\ ins.fn = \h8 ->
         Return(mips_cpu_jump(st.regs[ins.s], 0, st), Success)
    [] ~Reserved(ins) /\ ins.fn = \h9 ->
         Return(mips_cpu_jump(st.regs[ins.s], ins.d, st), Success)
    [] ~Reserved(ins) /\ ins.fn \in \h10 .. \h13 -> move_hilo(ins.fn, ins.s, ins.d, st)
    [] ~Reserved(ins) /\ ins.fn \in \h18 .. \h1b -> mult_div(ins.s, ins.t, ins.fn, st)
    [] ~Reserved(ins) /\ ins.fn \in \h20 .. \h27 ->
         add_sub_bitwise(ins.s, ins.t, ins.d, ins.fn, st)
    [] ~Reserved(ins) /\ ins.fn \in \h2a .. \h2b ->
         less_than(ins.s, ins.t, ins.d, ins.fn, st)

----------------------------------------------------------------------------
(* I-type instructions.                                                       *)

Loads == \h20 .. \h26
Stores == {\h28, \h29, \h2b}

(* The one transaction a load or store makes; LWL and LWR read the word       *)
(* around the effective address.                                              *)
TransferLength(opcode) ==
  CASE opcode \in {\h20, \h24, \h28} -> 1              \* LB, LBU, SB
    [] opcode \in {\h21, \h25, \h29} -> 2              \* LH, LHU, SH
    [] OTHER -> 4                                       \* LW, LWL, LWR, SW
TransferAddress_Unmasked(opcode, eff_adr) == eff_adr
TransferAddress(opcode, eff_adr) ==
  IF opcode \in {\h22, \h26} THEN eff_adr - (eff_adr % 4) ELSE eff_adr

(* What a load puts in the register: b are the bytes read, old those of the   *)
(* register.  LWL takes the bytes from eff_adr to the end of its word, LWR    *)
(* those from the start of the word to eff_adr; the rest of old stays.        *)
LoadedWord(opcode, b, old, lsbs) ==
  CASE opcode = \h20 -> SignExtendByte(b[0])
    [] opcode = \h24 -> b[0]
    [] opcode = \h21 -> SignExtendHalf(JoinHalf(b[0], b[1]))
    [] opcode = \h25 -> JoinHalf(b[0], b[1])
    [] opcode = \h23 -> FromBytes(b)
    [] opcode = \h22 ->
         FromBytes([k \in 0 .. 3 |-> IF k + lsbs <= 3 THEN b[k + lsbs] ELSE old[k]])
    [] opcode = \h26 ->
         FromBytes([k \in 0 .. 3 |-> IF k + lsbs >= 3 THEN b[k + lsbs - 3] ELSE old[k]])

(* The low bytes of the register, most significant first.                     *)
StoredBytes_LittleEndian(x, length) == [k \in 0 .. length - 1 |-> ByteOf(x, k)]
StoredBytes(x, length) == [k \in 0 .. length - 1 |-> ByteOf(x, length - 1 - k)]

(* SWL and SWR have names in opcode_to_str but no case: they do nothing.      *)
cpu_memory_funcs(opcode, s, t, si, st, data) ==
  LET eff_adr == Plus(st.regs[s], si)
      length == TransferLength(opcode)
      address == TransferAddress(opcode, eff_adr)
      err == IF opcode \in {\h21, \h23} /\ eff_adr % length # 0 THEN InvalidAlignment
             ELSE mips_mem_read_write(st.mem, CbMem, address, length)
      Outcome(st2, data2, e) == [state |-> st2, data |-> data2, err |-> e]
  IN  CASE opcode \in Loads /\ t # 0 /\ err = Success ->
             LET b == mips_mem_read(data, address, length)
                 old == ToBytes(st.regs[t])
             IN  Outcome(SetReg(st, t, LoadedWord(opcode, b, old, eff_adr % 4)), data, err)
        [] opcode \in Stores /\ err = Success ->
             LET bytes == StoredBytes(st.regs[t], length)
             IN  Outcome(st, mips_mem_write(data, address, length, bytes), err)
        [] err # Success /\ (opcode \in Stores \/ (opcode \in Loads /\ t # 0)) ->
             Outcome(st, data, err)
        [] OTHER -> Outcome(st, data, Success)

(* The instructions of cpu_execute_i that do not touch memory.                *)
cpu_execute_immediate(s, t, i, opcode, st) ==
  LET val_s == st.regs[s]
      val_t == st.regs[t]
      simm == SignExtendHalf(i)
      taken == CASE opcode = \h4 -> val_s = val_t
                 [] opcode = \h5 -> val_s # val_t
                 [] opcode = \h6 -> Signed(val_s) <= 0
                 [] opcode = \h7 -> Signed(val_s) > 0
      Flag(less) == IF less THEN 1 ELSE 0
  IN  CASE opcode < \h8 ->
             Return(IF taken THEN mips_cpu_jump(BranchTarget(i, st), 0, st) ELSE st, Success)
        [] opcode >= \h8 /\ t = 0 -> Return(st, Success)
        [] opcode = \h8 /\ t # 0 /\ overflow(val_s, simm) -> Return(st, ArithmeticOverflow)
        [] OTHER ->
             Return(SetReg(st, t,
               CASE opcode \in {\h8, \h9} -> Plus(val_s, simm)
                 [] opcode = \ha -> Flag(Signed(val_s) < Signed(simm))
                 [] opcode = \hb -> Flag(val_s < simm)
                 [] opcode = \hc -> AndWord(val_s, i)
                 [] opcode = \hd -> OrWord(val_s, i)
                 [] opcode = \he -> XorWord(val_s, i)
                 [] opcode = \hf -> i * HalfSize),
               Success)

----------------------------------------------------------------------------
(* One step.                                                                  *)

(* opcode_to_str: the opcodes marked "ni", and those with an entry at all.    *)
Unimplemented == \h10 .. \h13 \cup \h30 .. \h33 \cup \h38 .. \h3b
opcode_to_str == \h0 .. \hf \cup Loads \cup \h28 .. \h2b \cup {\h2e} \cup Unimplemented

mips_cpu_increment_pc_KeepsFlag(st) ==
  IF st.delay_slot = 0
  THEN [st EXCEPT !.pc = st.nPC, !.nPC = Plus(st.nPC, 4)]
  ELSE [st EXCEPT !.pc = st.nPC, !.nPC = st.jPC, !.jPC = 0]
mips_cpu_increment_pc_LosesJump(st) ==
  IF st.delay_slot = 0
  THEN [st EXCEPT !.pc = Plus(st.pc, 4), !.nPC = Plus(st.pc, 8)]
  ELSE [st EXCEPT !.pc = st.nPC, !.delay_slot = 0, !.nPC = st.jPC, !.jPC = 0]
mips_cpu_increment_pc(st) ==
  IF st.delay_slot = 0
  THEN [st EXCEPT !.pc = st.nPC, !.nPC = Plus(st.nPC, 4)]
  ELSE [st EXCEPT !.pc = st.nPC, !.delay_slot = 0, !.nPC = st.jPC, !.jPC = 0]

(* mips_cpu_step up to its mips_cpu_increment_pc.                             *)
Execute(st, data) ==
  LET fetch == mips_mem_read_write(st.mem, CbMem, st.pc, 4)
      ins == Decode(FromBytes(mips_mem_read(data, st.pc, 4)))
      With(r) == [state |-> r.state, data |-> data, err |-> r.err]
  IN  IF fetch # Success THEN With(Return(st, fetch))
      ELSE CASE ins.opcode \notin opcode_to_str -> With(Return(st, Killed))
             [] ins.opcode \in Unimplemented -> With(Return(st, NotImplemented))
             [] ins.opcode = \h0 -> With(cpu_execute_r(ins, st))
             [] ins.opcode = \h1 -> With(cpu_execute_rt(ins.s, ins.t, ins.i, st))
             [] ins.opcode \in \h2 .. \h3 -> With(cpu_execute_j(ins.j, ins.opcode, st))
             [] ins.opcode \in \h4 .. \hf ->
                  With(cpu_execute_immediate(ins.s, ins.t, ins.i, ins.opcode, st))
             [] ins.opcode \in Loads \cup \h28 .. \h2b \cup {\h2e} ->
                  cpu_memory_funcs(ins.opcode, ins.s, ins.t, SignExtendHalf(ins.i), st, data)

(* The state after the step: the pc moves only past an instruction that worked. *)
StepState_AlwaysAdvances(o) == mips_cpu_increment_pc(o.state)
StepState(o) == IF o.err = Success THEN mips_cpu_increment_pc(o.state) ELSE o.state
=============================================================================
