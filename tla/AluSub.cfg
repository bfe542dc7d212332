SPECIFICATION Spec
CONSTANTS
  ByteBits <- MCByteBits
  BitAnd <- MCBitAnd
  BitOr <- MCBitOr
  BitXor <- MCBitXor
  CbMem <- MCCbMem
  Decode <- MCDecode
  Xs <- MCWords
  Ys <- MCWords
INVARIANTS SubTrapsOnOverflow
\* A behaviour ends after its one instruction.
CHECK_DEADLOCK FALSE
