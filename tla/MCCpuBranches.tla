--------------------------- MODULE MCCpuBranches ---------------------------
(* Three instructions around the boundary of a J region (a 16th of the        *)
(* address space), so that jumps meet jumps and failures in their delay slots *)
(* and a J's target depends on which side of the boundary its slot lies.      *)
EXTENDS MipsCpu, MCMips

MCCbMem == 28

Code ==
  << NOP,
     JType(\h2, 1), JType(\h3, 3),                       \* J 4, JAL 12
     RType(\h8, 1, 0, 0, 0), RType(\h9, 1, 0, 31, 0),    \* JR $1, JALR $31, $1
     RType(\h8, 31, 0, 0, 0),                            \* JR $31
     IType(\h4, 0, 0, 15),                               \* BEQ $0, $0, -1
     IType(\h5, 1, 0, 14),                               \* BNE $1, $0, -2
     IType(\h1, 1, 16, 1), IType(\h1, 1, 17, 1),         \* BLTZAL, BGEZAL $1, 1
     IType(\h23, 1, 2, 0),                               \* LW $2, 0($1)
     IType(\h8, 1, 2, 7) >>                              \* ADDI $2, $1, 7

MCDecode(w) == IF w < Len(Code) THEN Code[w + 1] ELSE Absent

MCPrograms ==
  {Image(<< 0, 0, l - 1, m - 1, n - 1 >>, MCCbMem) : l, m, n \in DOMAIN Code}
MCClientRegs == {1}
MCClientValues == {6, 20, 127, 132}
MCClientPCs == {8, 12, 18}
MCClientWrites == {}
=============================================================================
