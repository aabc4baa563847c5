SPECIFICATION FairSpec
CONSTANTS
  HostFrame = {}
  RxCapacity = 0
  TxCapacity = 24
  DrainSize = 64
  Sentence = {}
  UartRxCapacity = 0
  UartTxCapacity = 3
  UartDrainSize = 1
  Place = {"here"}
  Nowhere = "here"
  FixQuality = {0}
  SentencesPerPass = 1
  FramesPerPass = 1
  SendInterval = 1
  MsModulus = 4
  HelloSize = 13
  PositionSize = 24
  HeadingSize = 22
  TcpCapacity = 4
  RtcmCapacity = 4
  ClientChunk = 2
  ConnectingTimeout = 2
  AuthenticatingTimeout = 1
  MaxBytes = 6
  RouterChunk = 2
  MaxStall = 2
  ApiStates = {"ERROR", "IDLE"}
  ApiCalls = {"connect", "disconnect", "start"}
  MaxCalls = 3
INVARIANTS
  EveryByteAccounted
  ClientLosesNothing
  OutputsAgree
  WaitsBeforeConnected
PROPERTIES
  LossIsLocal
  ImplementsLossyPipe
  ConnectsInTheEnd
