SPECIFICATION FairSpec
CONSTANTS
  Capacity = 3
  Byte = {0, 1}
  MaxTransfer = 4
  CounterRange = 3
INVARIANTS
  TypeOK
  HeadFollowsTail
PROPERTIES
  ImplementsFifo
  CallsReturn
