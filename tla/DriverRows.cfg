SPECIFICATION Spec
CONSTANTS
  ByteBits <- MCByteBits
  BitAnd <- MCBitAnd
  BitOr <- MCBitOr
  BitXor <- MCBitXor
  CbMem <- MCCbMem
  Decode <- MCDecode
  Encode <- MCEncode
  Names <- MCNames
  Upper <- MCUpper
  Messages <- MCMessages
  MaxTests <- MCMaxTests
  FreshRam <- MCFreshRam
  RamHandles <- AnyRam
  Files <- OddFiles
  Faults <- FirstStepWrong
INVARIANT RowsEndTheirTests
\* The program ends.
CHECK_DEADLOCK FALSE
