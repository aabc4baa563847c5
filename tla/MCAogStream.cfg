SPECIFICATION Spec
CONSTANTS
  MaxByte = 7
  Preamble1 = 4
  Preamble2 = 5
  MaxData = 1
  XorByte <- MCXorByte
  Pgns <- MCPgns
  Payloads <- MCPayloads
  Noise = {4, 7}
INVARIANTS
  TypeOK
  AcceptedIsVerified
  InSyncIsDelivered
  RecoversInTime
PROPERTIES
  HearsAgain
