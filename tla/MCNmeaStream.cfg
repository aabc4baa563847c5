SPECIFICATION Spec
CONSTANTS
  MaxLen = 12
  Code <- MCCode
  XorByte <- MCXorByte
  Junk <- MCJunk
  Bodies <- MCBodies
  LineEnds <- MCLineEnds
  MaxLosses = 1
INVARIANTS
  TypeOK
  InSyncIsAccepted
  OneLossIsNoticed
  RecoversInOneSentence
  TypeIsItsOwn
