------------------------------- MODULE MCAlu -------------------------------
(* Every pair of words: all the corners of signed and unsigned arithmetic.    *)
EXTENDS MipsAlu, MCMips

MCCbMem == 0
MCDecode(w) == Absent
MCWords == Bits
=============================================================================
