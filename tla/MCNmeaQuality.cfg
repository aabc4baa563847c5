SPECIFICATION Spec
CONSTANTS
  MaxLen = 128
  Code <- MCCode
  XorByte <- MCXorByte
  Junk <- MCJunk
  Bodies <- GgaBodies
  LineEnds <- MCLineEnds
  MaxLosses = 0
INVARIANTS
  FixQualityIsSent
