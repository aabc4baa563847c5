SPECIFICATION Spec
CONSTANTS
  NaN = NaN
  Angle <- MCAngle
  HostFrame <- MCHostFrame
  RxCapacity = 1
  TxCapacity = 24
  DrainSize = 64
  FramesPerPass = 1
  StatusInterval = 1
  HelloSize = 13
  StatusSize = 14
  WatchdogTimeout = 2
  CounterRange = 4
  FullScale = 1
  DisableTimeout = 2
  CountModulus = 4
  MaxTime = 4
  MaxStall = 3
  ApiCalls = {"disable"}
  TimeoutChoices = {}
INVARIANT DisableHolds
