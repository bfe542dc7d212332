--------------------------- MODULE MCCpuContract ---------------------------
(* Every opcode and every function code, one at a time: the RAM holds the     *)
(* instruction and a word of data, which is a DIV when it is executed.        *)
EXTENDS MipsMemory, MCMips

MCCbMem == 8

Code ==
     << NOP >>
  \o [n \in 1 .. 64 |-> RType(n - 1, 1, 2, 3, 0)]
  \o [n \in 1 .. 60 |-> IType(n + 3, 1, 2, 15)]
  \o << RType(\h0, 0, 2, 3, 3), RType(\h2, 0, 2, 3, 3), RType(\h3, 0, 2, 3, 3),
        RType(\h4, 1, 2, 3, 3), RType(\h0, 0, 2, 0, 3),
        RType(\h8, 1, 0, 0, 0), RType(\h9, 1, 0, 3, 0), RType(\h9, 1, 0, 31, 0),
        RType(\h10, 0, 0, 3, 0), RType(\h12, 0, 0, 3, 0), RType(\h12, 0, 0, 0, 0),
        RType(\h11, 1, 0, 0, 0), RType(\h11, 1, 0, 3, 0), RType(\h13, 1, 0, 0, 0),
        RType(\h18, 1, 2, 0, 0), RType(\h19, 1, 2, 0, 0), RType(\h1a, 1, 2, 0, 0),
        RType(\h1b, 1, 2, 0, 0), RType(\h20, 1, 2, 0, 0), RType(\h21, 1, 2, 3, 1),
        RType(\h2a, 1, 2, 0, 0), RType(\h2b, 1, 2, 3, 1) >>
  \o << IType(\h1, 1, 0, 1), IType(\h1, 1, 1, 1), IType(\h1, 1, 2, 1),
        IType(\h1, 1, 16, 1), IType(\h1, 1, 17, 1), JType(\h2, 1), JType(\h3, 1),
        IType(\h8, 1, 0, 4), IType(\h20, 1, 0, 4), IType(\h23, 1, 2, 4), IType(\h2b, 1, 2, 4) >>

MCDecode(w) == IF w < Len(Code) THEN Code[w + 1] ELSE Absent

MCPrograms == {Image(<< n - 1, 27 >>, MCCbMem) : n \in DOMAIN Code}
MCClientRegs == {0, 1, 2, 32}
MCClientValues == {3, 128, 255}
MCClientPCs == {0, 6}
MCClientWrites == {[address |-> 6, length |-> 2, bytes |-> [k \in 0 .. 1 |-> 3 - k]]}
=============================================================================
