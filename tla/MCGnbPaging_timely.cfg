SPECIFICATION FairSpec
CONSTANTS
  SfnPeriod = 12
  SubFrames = 2
  DRX = 4
  Ns = 2
  table <- SmallTable
  UE_ID = 3
  OtherUE = {2, 7}
  MAX_QUEUE = 2
  AmfPeriod = 2
  FirstCapacity = 1
  NoPage = NoPage
  MaxNgap = 3
  SchedulerLag = 0
  WorkerLag = 1
INVARIANTS
  SentAtMostOnce
  NothingVanishes
PROPERTY EachPageSettles
CHECK_DEADLOCK FALSE
