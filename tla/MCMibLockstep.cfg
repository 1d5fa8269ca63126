SPECIFICATION FairSpec
CONSTANTS
  SfnPeriod = 16
  StartSfn = 7
  MibMs = 40
  UpdateMs = 120
  TimeModulus = 480
  MaxAhead = 9
  MaxLost = 2
INVARIANTS
  TypeOK
  InStep
  NotAhead
PROPERTY Recovers
