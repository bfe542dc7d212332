SPECIFICATION Spec
CONSTANTS
  ByteBits <- MCByteBits
  BitAnd <- MCBitAnd
  BitOr <- MCBitOr
  BitXor <- MCBitXor
  CbMem <- MCCbMem
  Decode <- MCDecode
  Programs <- MCPrograms
  ClientRegs <- MCClientRegs
  ClientValues <- MCClientValues
  ClientPCs <- MCClientPCs
  ClientWrites <- MCClientWrites
INVARIANTS NoPendingJump NextPc
PROPERTIES OnlyRegisterJumpsMisalign BranchesAreDelayed
\* A killed simulator makes no further call.
CHECK_DEADLOCK FALSE
