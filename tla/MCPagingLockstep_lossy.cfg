SPECIFICATION FairSpec
CONSTANTS
  SfnPeriod = 256
  MibMs = 20
  UpdateMs = 200
  TimeModulus = 12800
  DRX = 32
  sfn_mod_t = 31
  MaxAhead = 3
  MaxLost = 2
  MaxNgap = 1
  MaxPhantom = 0
PROPERTY Resumes
