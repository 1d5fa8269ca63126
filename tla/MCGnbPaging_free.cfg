SPECIFICATION Spec
CONSTANTS
  SfnPeriod = 12
  SubFrames = 2
  DRX = 4
  Ns = 2
  table <- SmallTable
  UE_ID = 3
  OtherUE = {2, 7}
  MAX_QUEUE = 2
  AmfPeriod = 2
  FirstCapacity = 1
  NoPage = NoPage
  MaxNgap = 3
  SchedulerLag = 23
  WorkerLag = 23
INVARIANTS
  TypeOK
  FiledAtOccasion
  NextOrOneCycleLate
  SharedOnlyIfLate
  SentTwiceOnlyIfRaced
  LostOnlyIfRaced
  MiscountedOnlyIfTorn
CHECK_DEADLOCK FALSE
