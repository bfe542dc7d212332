------------------------------- MODULE MCRam -------------------------------
(* Two devices at most, with no bytes or four, and one that is too large, on  *)
(* a heap that can run out at any malloc; transactions of every length at     *)
(* both ends of a device and of the address space.                            *)
EXTENDS MipsRam, MCMips, TLC

Symmetry == Permutations(Blocks)
MCSizes == {0, 33}
MCGarbage == {0}
MCPayloads == {[k \in 0 .. 3 |-> (k + 1) % 4]}
MCAddresses == {0, 1, 2, 3, 4, 252, 254, 255}
MCLengths == 0 .. 4
=============================================================================
