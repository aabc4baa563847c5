SPECIFICATION FairSpec
CONSTANTS
  HostFrame = {"hello"}
  RxCapacity = 1
  TxCapacity = 24
  DrainSize = 64
  Sentence <- MCSentence
  UartRxCapacity = 1
  UartTxCapacity = 4
  UartDrainSize = 1
  Place = {"here", "there"}
  Nowhere = "here"
  FixQuality = {0, 1}
  SentencesPerPass = 1
  FramesPerPass = 1
  SendInterval = 2
  MsModulus = 5
  HelloSize = 13
  PositionSize = 24
  HeadingSize = 22
  TcpCapacity = 0
  RtcmCapacity = 8
  ClientChunk = 2
  ConnectingTimeout = 1
  AuthenticatingTimeout = 1
  MaxBytes = 0
  RouterChunk = 2
  MaxStall = 2
  ApiStates = {}
  ApiCalls = {}
  MaxCalls = 0
INVARIANTS
  TypeOK
  NoBacklog
  FramesWhole
PROPERTIES
  OutputOnTime
  HelloKept
  HelloAnswered
