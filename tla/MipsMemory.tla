----------------------------- MODULE MipsMemory -----------------------------
(* What the load and store instructions owe each other, stated over the CPU   *)
(* and RAM contents that the runs of MipsCpu reach: each property executes a  *)
(* short instruction sequence from the current state.                         *)
EXTENDS MipsCpu

(* Instruction opcode t, 0(1) with register 1 holding address a.              *)
At(opcode, a, t, st, ram) == cpu_memory_funcs(opcode, 1, t, 0, SetReg(st, 1, a), ram)

(* LWL t, a followed by LWR t, a+3 (or the other way round) loads the word    *)
(* that starts at a, whatever a's alignment and whatever register t held; the *)
(* masks and shifts of the two cases must meet exactly at the word boundary.  *)
(* (If the RAM ends in part of a word, neither can read that part.)           *)
UnalignedPair ==
  state.mem # NULL =>
    \A a \in 0 .. 4 * (CbMem \div 4) - 4 :
      LET word == FromBytes([k \in 0 .. 3 |-> data[a + k]])
          left == At(\h22, a, 2, state, data)
          leftRight == At(\h26, a + 3, 2, left.state, data)
          right == At(\h26, a + 3, 2, state, data)
          rightLeft == At(\h22, a, 2, right.state, data)
      IN  /\ leftRight.err = Success /\ leftRight.state.regs[2] = word
          /\ rightLeft.err = Success /\ rightLeft.state.regs[2] = word

(* The addresses around the two ends of the RAM and of the address space.     *)
Edges == 0 .. CbMem + 4 \cup WordSize - 5 .. WordSize - 1

(* SB, SH and SW accept exactly the aligned addresses of the RAM; LBU, LHU    *)
(* and LW then read back the part of the register they stored, and the bytes  *)
(* around it are untouched.  Each side swaps bytes on its own.                *)
Accesses == {<< \h28, \h24, 1, ByteSize >>, << \h29, \h25, 2, HalfSize >>,
             << \h2b, \h23, 4, WordSize >>}
StoreThenLoad ==
  state.mem # NULL =>
    \A a \in Edges, p \in Accesses :
      LET width == p[3]
          stored == At(p[1], a, 2, state, data)
          loaded == At(p[2], a, 3, stored.state, stored.data)
      IN  /\ (stored.err = Success) <=> (a % width = 0 /\ a + width <= CbMem)
          /\ stored.err = Success =>
               /\ loaded.err = Success
               /\ loaded.state.regs[3] = state.regs[2] % p[4]
               /\ \A b \in RamAddress \ (a .. a + width - 1) : stored.data[b] = data[b]

(* LB and LH read the same bytes as LBU and LHU, as two's complement numbers. *)
SignedLoads ==
  state.mem # NULL =>
    \A a \in RamAddress, p \in {<< \h20, \h24, ByteSize >>, << \h21, \h25, HalfSize >>} :
      LET signed == At(p[1], a, 3, state, data)
          unsigned == At(p[2], a, 3, state, data)
      IN  /\ signed.err = unsigned.err
          /\ signed.err = Success =>
               /\ Signed(signed.state.regs[3]) \in -(p[3] \div 2) .. p[3] \div 2 - 1
               /\ signed.state.regs[3] % p[3] = unsigned.state.regs[3]
=============================================================================
