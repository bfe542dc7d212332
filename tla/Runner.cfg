SPECIFICATION Spec
CONSTANTS
  ByteBits <- MCByteBits
  BitAnd <- MCBitAnd
  BitOr <- MCBitOr
  BitXor <- MCBitXor
  CbMem <- MCCbMem
  Decode <- MCDecode
  RamHandles <- MCRamHandles
  FreshRam <- MCFreshRam
  FibonacciFiles <- MCFibonacciFiles
  AdduFiles <- MCAdduFiles
  FibonacciInputs <- MCFibonacciInputs
  AdduInputs <- MCAdduInputs
  StackTop <- MCStackTop
  SentinelPC <- MCSentinelPC
INVARIANTS TextIsIntact EndsWell
PROPERTIES CallsReturnFibonacci RunnerEnds
\* The program ends.
CHECK_DEADLOCK FALSE
