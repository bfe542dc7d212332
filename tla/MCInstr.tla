------------------------------ MODULE MCInstr ------------------------------
(* Every mnemonic of the driver's tables, with registers at and beyond the    *)
(* ends of their range and immediates at the edges of 16 and of 32 bits.      *)
EXTENDS MipsInstr

Num(n) == {k \in 0 .. 30 : (n \div 2 ^ k) % 2 = 1}
Minus(n) == Bit \ Num(n - 1)

Reg == {Num(1), Num(30), Num(31)}
Any == {Num(0), Num(21), Minus(1)}
Imm == {Num(0), Num(1), Num(\h7fff), Num(\h8000), Minus(\h8000), Minus(5), Num(\h12345678)}
RFuncs == DOMAIN r_to_op
JFuncs == {"J", "JAL"}
MCRows ==
  [type : {"R"}, func : RFuncs, params : Reg \X Any \X Reg \X Any]
    \cup [type : {"RT"}, func : DOMAIN rt_to_op, params : (Reg \cup {Num(33)}) \X Imm]
    \cup [type : {"J"}, func : JFuncs, params : {<< j >> : j \in Imm \cup {Num(\h3ffffff)}}]
    \cup [type : {"I"}, func : DOMAIN ij_to_op \ JFuncs,
          params : (Reg \cup {Num(33)}) \X Any \X Imm]
=============================================================================
