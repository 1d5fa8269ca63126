SPECIFICATION Spec
CONSTANTS
  SfnPeriod = 8
  MibMs = 20
  UpdateMs = 60
  TimeModulus = 240
  DRX = 4
  sfn_mod_t = 3
  MaxAhead = 2
  MaxLost = 0
  MaxNgap = 2
  MaxPhantom = 3
INVARIANT NoPhantomPage
