SPECIFICATION FairSpec
CONSTANTS
  ByteBits <- MCByteBits
  BitAnd <- MCBitAnd
  BitOr <- MCBitOr
  BitXor <- MCBitXor
  CbMem <- MCCbMem
  Decode <- MCDecode
  Encode <- MCEncode
  Names <- MCNames
  Upper <- MCUpper
  Messages <- MCMessages
  MaxTests <- MCMaxTests
  FreshRam <- MCFreshRam
  RamHandles <- GoodRam
  Files <- SomeFiles
  Faults <- SomeFaults
INVARIANTS KeepsProtocol VerdictsAreRight CleanReport
PROPERTY SuiteEnds
\* The program ends.
CHECK_DEADLOCK FALSE
