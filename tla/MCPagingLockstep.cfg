SPECIFICATION FairSpec
CONSTANTS
  SfnPeriod = 8
  MibMs = 20
  UpdateMs = 60
  TimeModulus = 136
  DRX = 4
  sfn_mod_t = 3
  MaxAhead = 3
  MaxLost = 0
  MaxNgap = 3
  MaxPhantom = 1
INVARIANTS
  TypeOK
  NeverMistaken
  TwiceOnlyIfEarly
  NewestIsPaged
  InStep
PROPERTY ImplementsLockstep
PROPERTY AnnouncedIsPaged
