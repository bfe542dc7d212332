------------------------------- MODULE MCDebug -------------------------------
(* A jump, its delay slot, an instruction that fails, one that is not         *)
(* implemented and one that is not known; one file, and every kind of argv.   *)
EXTENDS MipsDebug, MCMips

MCCbMem == 8
Code == << NOP, IType(\h4, 0, 0, 14), IType(\h23, 1, 2, 1), IType(\h30, 0, 0, 0), Absent,
           IType(\h9, 1, 1, 1) >>
MCDecode(w) == IF w < Len(Code) THEN Code[w + 1] ELSE Absent

MCPrograms ==
  {Image(<< 1, 5 >>, MCCbMem), Image(<< 5, 2 >>, MCCbMem), Image(<< 3, 4 >>, MCCbMem)}
MCClientRegs == {1}
MCClientValues == {0, 3}
MCClientPCs == {4, 6}
MCClientWrites == {}

MCFiles == {"dump.txt"}
MCLevels == 0 .. 2
MCAtoi == [n \in {"0", "1", "2", "stdout"} |-> CASE n = "1" -> 1 [] n = "2" -> 2 [] OTHER -> 0]
MCArguments ==
  { << >>, << "-d" >>, << "-d", "1" >>, << "-f", "stdout" >>, << "-d", "1", "-f" >>,
    << "-d", "2", "-f", "dump.txt" >>, << "-d", "1", "-f", "stderr" >>,
    << "-d", "0", "-f", "dump.txt" >>, << "-d", "1", "-f", "no/such.txt" >> }
=============================================================================
