SPECIFICATION FairSpec
CONSTANTS
  NaN = NaN
  Angle <- MCAngle
  HostFrame <- MCHostFrame
  RxCapacity = 2
  TxCapacity = 24
  DrainSize = 64
  FramesPerPass = 2
  StatusInterval = 1
  HelloSize = 13
  StatusSize = 14
  WatchdogTimeout = 2
  CounterRange = 4
  FullScale = 1
  DisableTimeout = 2
  CountModulus = 4
  MaxTime = 5
  MaxStall = 3
  ApiCalls = {}
  TimeoutChoices = {}
INVARIANTS
  TypeOK
  FailsafeIsBootTimeout
  PinFollowsFailsafe
  FrameActsInSamePass
  HelloSentWhole
  StatusCutByHelloOnly
PROPERTIES
  HelloKept
  HelloAnswered
  ImplementsOperation
