SPECIFICATION Spec
CONSTANTS
  ByteBits <- MCByteBits
  BitAnd <- MCBitAnd
  BitOr <- MCBitOr
  BitXor <- MCBitXor
  CbMem = 4
  Blocks = {b1, b2, b3, b4}
  Sizes <- MCSizes
  Garbage <- MCGarbage
  Addresses <- MCAddresses
  Lengths <- MCLengths
  Payloads <- MCPayloads
SYMMETRY Symmetry
INVARIANTS TypeOK NoLeak
PROPERTY DevicesAreArrays
