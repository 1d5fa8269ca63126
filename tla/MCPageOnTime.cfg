SPECIFICATION PageFairSpec
CONSTANTS
  SfnPeriod = 4
  SubFrames = 5
  MibPeriod = 2
  SocketSize = 2
  MibDelay = 2
  Jitter = 2
  DRX = 2
  Ns = 2
  table <- SmallTable
  UE_ID = 4
  RrcDelay = 2
  RrcSocket = 1
INVARIANTS
  PageTypeOK
  SkewBounded
  JudgedNearItsSlot
PROPERTY CorrectMeansItsSlot
PROPERTY Corrected
