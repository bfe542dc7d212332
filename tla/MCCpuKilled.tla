---------------------------- MODULE MCCpuKilled ----------------------------
(* Two instructions that a MIPS would survive: a division whose quotient does not *)
(* fit, and an opcode that MIPS-I does not define.                            *)
EXTENDS MipsCpu, MCMips

MCCbMem == 8

Code == << NOP, RType(\h1a, 1, 2, 0, 0), IType(\h1f, 1, 2, 0) >>
MCDecode(w) == IF w < Len(Code) THEN Code[w + 1] ELSE Absent

MCPrograms == {Image(<< n - 1 >>, MCCbMem) : n \in DOMAIN Code}
MCClientRegs == {1, 2}
MCClientValues == {3, 128, 255}
MCClientPCs == {0}
MCClientWrites == {}
=============================================================================
